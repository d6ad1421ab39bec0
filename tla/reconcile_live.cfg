SPECIFICATION FairSpec
CONSTANTS
  p1 = p1
  p2 = p2
  h1 = h1
  h2 = h2
  None = None
  Payments = {p1}
  SamplePayments = {}
  Events <- LiveEvents
  CorridorTo <- MCCorridor
  Quoted <- MCQuoted
  Hooks = {h1, h2}
  Runners = {1}
  Signatures <- FailedForged
  MaxWatchAttempts = 3
  QueueAttempts = 3
  MaxDeliveries <- OkTwice
  MaxCalls = 0
  MaxFaults = 0
PROPERTIES ReplayNeverRewritesLeg MatchedSettles SettledGetsReceipt VerifiedDeliveryProcessed WatchConcludes
CHECK_DEADLOCK FALSE
