\* Nothing fails, and a slashed request stays PENDING.
CONSTANTS
  Writers = {handler, producer}
  Producer = producer
  Subscribers = {s1}
  ChanCap = 4
  EventLogLimit = 4
  MaxEvents = 4
  Requests = {1}
  ChallengesOn = TRUE
  None = None
SPECIFICATION CalmSpec
PROPERTIES SlashesAreSeen
CHECK_DEADLOCK FALSE
