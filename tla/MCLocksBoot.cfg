CONSTANT Programs <- MCNoPrograms
SPECIFICATION Spec
INVARIANT TimerNeverWaits
CHECK_DEADLOCK FALSE
