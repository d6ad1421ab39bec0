SPECIFICATION Spec
CONSTANTS
  p1 = p1
  p2 = p2
  h1 = h1
  h2 = h2
  None = None
  Payments = {p1}
  SamplePayments = {}
  Events <- AllEvents
  CorridorTo <- MCCorridor
  Quoted <- MCQuoted
  Hooks = {h1, h2}
  Runners = {1}
  Signatures <- Signed
  MaxWatchAttempts = 2
  QueueAttempts = 1
  MaxDeliveries <- Once
  MaxCalls = 1
  MaxFaults = 1
SYMMETRY HookSymmetry
INVARIANTS TypeOK SettledOnEvidence ReceiptOnEvidence NoLostWakeup
PROPERTIES ImplementsContract SettledFailsOnlyOnFailedEvent
CHECK_DEADLOCK FALSE
