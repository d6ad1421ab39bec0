SPECIFICATION Spec
CONSTANTS
  ann = ann
  c1 = c1
  c2 = c2
  NoEmail = NoEmail
  NumRows = 2
  Email <- MCEmail
  Amount <- MCAmount
  Receivers = {ann}
  Claims = {c1, c2}
  MaxTxs = 2
SYMMETRY ClaimSymmetry
PROPERTY RailUsesCustody
INVARIANTS PaidOnce SettledIsPaid BatchCountsItsPayments RegisterAgrees
CHECK_DEADLOCK FALSE
