\* One loop, one producer: the signal push_event sends at batch_size events.
CONSTANTS
  p1 = p1
  p2 = p2
  Producers <- MCOneProducer
  NumLoops = 1
  BatchSize = 2
  QueueCapacity = 3
  OutCapacity = 1
  WriteBufCapacity = 3
  MaxEvents = 3
  MaxCloses = 0

SPECIFICATION Spec

PROPERTY FullBatchSent
