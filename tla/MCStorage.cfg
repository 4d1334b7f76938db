CONSTANTS
  Names <- MCNames
  Cut <- MCCut
  Contents <- MCContents
  Terminals = {t1, t2}
  BootFs <- MCBootFs
  Newline <- MCNewline
  MaxEntries <- MCMaxEntries
  MaxDepth <- MCMaxDepth
  MaxData <- MCMaxData
  HEAD_UNITS <- MCHead
  SECTOR_UNITS <- MCSector
  DISK_SECTORS <- MCSectors
SYMMETRY TerminalSymmetry
CONSTRAINT OneLongName
SPECIFICATION Spec
INVARIANTS
  TypeOK
  SavedTreeIsLoaded
PROPERTIES
  CwdLostToOthersOnly
