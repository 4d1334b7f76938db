CONSTANTS
  QUEUE_SIZE <- MCQueueSize
  FramesPerTick <- MCFrames
  MaxEvents <- MCMaxEvents
SPECIFICATION FairSpec
INVARIANT TypeOK
PROPERTIES
  ImplementsLossyFifo
  LostOnlyWhenFullOrLocked
  AcceptedIsDelivered
