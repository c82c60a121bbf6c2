CONSTANTS
  Capacity = 2
  MaxFrames = 4
SPECIFICATION Spec
CHECK_DEADLOCK FALSE
INVARIANTS
  TypeOK
  DrainIsComplete
  BlockLosesNothing
  SinkUsedAlone
PROPERTIES
  BlockedProducerIsReleased
  WorkerEnds
  ImplementsStream
