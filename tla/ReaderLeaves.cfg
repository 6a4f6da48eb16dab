\* Nobody kills the process, and it ends.
CONSTANTS
  Writers = {handler, producer}
  Producer = producer
  Subscribers = {s1, s2}
  ChanCap = 1
  EventLogLimit = 2
  MaxEvents = 2
SPECIFICATION UnkilledSpec
INVARIANTS ChainOutlivesSubscribers
CHECK_DEADLOCK FALSE
