\* Drops, disorder, crashes and reconnections.
CONSTANTS
  Writers = {handler, producer}
  Producer = producer
  Subscribers = {s1, s2}
  ChanCap = 1
  EventLogLimit = 3
  MaxEvents = 4
  Requests = {1}
  ChallengesOn = TRUE
  None = None
SPECIFICATION RestartedSpec
INVARIANTS IndexerTypeOK OutcomesAreTrue
PROPERTIES OnlyReplaysReopen
SYMMETRY SomeConnection
