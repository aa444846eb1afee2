SPECIFICATION BufferSpec
CONSTANTS
  N = 2
  p1 = p1
  p2 = p2
  p3 = p3
  c1 = c1
  c2 = c2
  d1 = d1
  d2 = d2
  NULL = NULL
  Producers <- MCProducers
  Consumers <- MCConsumers
  Data <- MCData
INVARIANTS
  RingConsistent
  NoWaiterStranded
PROPERTIES
  ImplementsQueue
