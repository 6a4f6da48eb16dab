\* A replay that tells the whole story of a request. The history of events and connections is bounded and ends.
CONSTANTS
  Writers = {handler, producer}
  Producer = producer
  Subscribers = {s1, s2}
  ChanCap = 1
  EventLogLimit = 4
  MaxEvents = 4
  Requests = {1}
  ChallengesOn = FALSE
  None = None
SPECIFICATION PromptSpec
PROPERTIES ReplayRepairs
CHECK_DEADLOCK FALSE
