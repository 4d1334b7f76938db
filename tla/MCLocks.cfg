CONSTANT Programs <- MCPrograms
SPECIFICATION FairSpec
INVARIANTS
  LostInKnownWays
  OrphanedBySysExitOnly
PROPERTY EveryLockIsReleased
CHECK_DEADLOCK FALSE
