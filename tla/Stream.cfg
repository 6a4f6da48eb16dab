\* Two subscribers, the block producer and a handler, with crashes.
CONSTANTS
  Writers = {handler, producer}
  Producer = producer
  Subscribers = {s1, s2}
  ChanCap = 1
  EventLogLimit = 2
  MaxEvents = 3
SPECIFICATION FairWatchedSpec
INVARIANTS BusTypeOK NoEventTwice StreamInOrder NothingMissed
PROPERTIES WriterNeverWaits
