SPECIFICATION FairSpec
CONSTANTS
  p1 = p1
  p2 = p2
  Producer <- MCProducer
  Event = {e1, e2, e3, e4}
  RING_SIZE = 2
  NULL = NULL
  Consumer = Consumer
INVARIANTS TypeOK SemaphoreBalance NoRefusal
PROPERTIES FifoQueue Delivered
