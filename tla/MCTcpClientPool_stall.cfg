\* One producer, two loops, batches of one, room for one event per loop queue.
CONSTANTS
  p1 = p1
  p2 = p2
  Producers <- MCOneProducer
  NumLoops = 2
  BatchSize = 1
  QueueCapacity = 1
  OutCapacity = 1
  WriteBufCapacity = 3
  MaxEvents = 3
  MaxCloses = 0

SPECIFICATION Spec

PROPERTY DropOnlyWhenAllFull
