SPECIFICATION Spec
CONSTANTS
  e1 = e1
  h1 = h1
  h2 = h2
  Employees = {e1}
  Handlers = {h1, h2}
  Bases = {20}
  Notionals = {20}
  AdvanceAmounts = {10}
  ConversionAmounts = {20}
  Dates <- MCDates
  AdvancePolicies <- MCAdvancePolicies
  ConversionPolicies <- MCConversionPolicies
  PoolRail = TRUE
  ListLimit = 1
  MaxPackages = 3
  MaxRows = 2
  MaxPayouts = 3
  MaxWithheld = 20
SYMMETRY HandlerSymmetry
INVARIANTS TypeOK PaidAtMostOnce RepaymentsAddUp ReservationsAddUp HasActivePackage
CHECK_DEADLOCK FALSE
