CONSTANTS
  Byte <- MCByte
  Chars <- MCChars
  Blank = " "
  Continuation <- MCContinuation
  Prompts <- MCPrompts
  MAX_LINE = 2
  HISTORY_MAX = 2
  BUFFER_WIDTH = 3
  Wide <- MCWide
  Other = "fe"
  Commands <- MCCommands
  NameSets <- MCNameSets
  Written <- MCWritten
  COLS = 3
  MAX_SCROLLBACK = 3
  MAX_INPUT = 2
  Banner <- MCBanner
  Outputs <- MCOutputs
SPECIFICATION Spec
INVARIANTS
  TypeOK
  ScreenShowsInput
PROPERTIES
  FirstUpRecallsLast
  WrappingKeepsText
  PanicNeedsWideChar
