CONSTANTS
  Terminals = {t1}
  BootFs <- MCBootFs
  Newline <- MCNewline
  Words <- MCWords
  Collation <- MCCollation
  Vars <- MCVars
  BootEnv <- MCBootEnv
  Lines <- MCLines
  Message <- MCMessage
  DEFAULT_LINES <- MCLinesDefault
  MaxPaths <- MCMaxPaths
  MaxWords <- MCMaxWords
SPECIFICATION LineSpec
INVARIANTS
  LineTypeOK
PROPERTIES
  WellFormedIsUnderstood
  SortUniqInPlace
  LinesSurvive
