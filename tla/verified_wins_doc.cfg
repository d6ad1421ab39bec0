SPECIFICATION FairSpec
CONSTANTS
  p1 = p1
  p2 = p2
  h1 = h1
  h2 = h2
  None = None
  Payments = {p1}
  SamplePayments = {}
  Events <- LiveEvents
  CorridorTo <- MCCorridor
  Quoted <- MCQuoted
  Hooks = {h1}
  Runners = {1}
  Signatures <- Unsigned
  MaxWatchAttempts = 10
  QueueAttempts = 5
  MaxDeliveries <- Twice
  MaxCalls = 0
  MaxFaults = 0
PROPERTIES VerifiedDeliveryProcessed
CHECK_DEADLOCK FALSE
