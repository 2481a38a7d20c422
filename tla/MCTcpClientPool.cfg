CONSTANTS
  p1 = p1
  p2 = p2
  Producers <- MCProducers
  NumLoops = 2
  BatchSize = 2
  QueueCapacity = 3
  OutCapacity = 0
  WriteBufCapacity = 3
  MaxEvents = 3
  MaxCloses = 1

SPECIFICATION Spec

INVARIANT TypeOK
INVARIANT EventAccounting
PROPERTY EventuallyResolved
PROPERTY EgressRefinement
