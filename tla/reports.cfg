SPECIFICATION ReportsSpec
CONSTANTS
  p1 = p1
  q1 = q1
  q2 = q2
  None = None
  Payments = {p1}
  SamplePayments = {p1}
  Events <- MCEvents
  CorridorTo <- MCCorridor
  CorridorFrom <- MCFrom
  Quoted <- MCQuoted
  Source <- MCSource
  Hooks = {1}
  Runners = {1}
  Signatures <- MCSigned
  MaxWatchAttempts = 1
  QueueAttempts = 1
  MaxDeliveries <- MCOnce
  MaxCalls = 0
  MaxFaults = 0
  Requests = {q1, q2}
  MaxTokens = 2
  MaxSeeds = 1
SYMMETRY RequestSymmetry
INVARIANTS DocumentsAgree SeededDocumentsAgree DisclosuresAudited
PROPERTIES DeadLinksStayDead
CHECK_DEADLOCK FALSE
