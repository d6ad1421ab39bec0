SPECIFICATION Spec
CONSTANTS
  u1 = u1
  k1 = k1
  r1 = r1
  r2 = r2
  Users = {u1}
  Keys = {k1}
  Requests = {r1, r2}
  Limits <- MCLimits
  Window = 1
  SlidingTtl = 2
  AbsoluteTtl = 3
  ReserveTtl = 1
  KeyTtl = 2
  MaxTime = 4
  MaxSessions = 1
  MaxPayments = 2
  MaxFaults = 2
SYMMETRY RequestSymmetry
INVARIANTS KeyMakesOnePayment SessionBounded LockoutEnds
CHECK_DEADLOCK FALSE
