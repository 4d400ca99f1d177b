SPECIFICATION MCSpec
CONSTANTS
  Streams = {"s1", "s2"}
  Kinds = {"thread", "task"}
  Events = 2
  Callers = {c1, c2}
  Closers = {k1, k2}
  Reports = 2
  Size = 2
  MaxRetries = 1
CHECK_DEADLOCK FALSE
INVARIANTS StreamsAreFaithful FlushedByClose
PROPERTIES EveryoneReturns
