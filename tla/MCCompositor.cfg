CONSTANTS
  Points <- MCPoints
  MaxOpened <- MCMaxOpened
SPECIFICATION Spec
INVARIANTS
  TypeOK
  WindowsStayReachable
PROPERTIES
  MovesOnlyWhileHeld
  OnlyTheTopmostCloses
