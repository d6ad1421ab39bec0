SPECIFICATION Spec
CONSTANTS
  p1 = p1
  r1 = r1
  r2 = r2
  Payments = {p1}
  Requests = {r1, r2}
  Sources = {7300, 10250}
  Forms <- MCForms
  Holds <- MCHolds
  Cent = 100
  MaxFaults = 2
  MaxCrashes = 1
INVARIANTS FiguresAgree FloatComesBack
PROPERTIES RecordedOnce PayoutNeverBlocked
CHECK_DEADLOCK FALSE
