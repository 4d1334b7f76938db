CONSTANTS
  DefaultQuantum <- MCQuantum
  MaxId <- MCMaxId
SPECIFICATION FairSpec
INVARIANTS
  TypeOK
  OneRunning
  ContextsSaved
  ProcessorNeverLost
PROPERTIES
  ImplementsLifecycle
  EveryReadyTaskRuns
