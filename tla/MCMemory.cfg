CONSTANTS
  MemoryMaps <- MCMemoryMaps
  HeapFirst <- MCHeapFirst
  HeapLast <- MCHeapLast
  Pages <- MCPages
  Table <- MCTable
  Huge <- MCHuge
  Programs <- MCPrograms
  Segments <- MCSegments
SPECIFICATION MemorySpec
CHECK_DEADLOCK FALSE
INVARIANTS
  MemoryTypeOK
  FramesAreExclusive
  EachLossHasAFailure
