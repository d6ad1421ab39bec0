SPECIFICATION Spec
CONSTANTS
  n1 = n1
  n2 = n2
  n3 = n3
  n4 = n4
  n5 = n5
  r1 = r1
  r2 = r2
  None = None
  ZeroLeaf = ZeroLeaf
  Hash2 <- Pairing
  Order = 13
  Rounds = 4
  RoundConstant <- MCRoundConstant
  TextWidth = 16
  I128Max = 6
  Places = 2
  MaxXlm = 3
  Precision = 4
  Depth = 2
  Notes = {n1, n2, n3, n4, n5}
  Amount <- MCAmount
  Requests = {r1, r2}
  RootHistory = 4
  MaxClaims = 2
  MaxAged = 1
SYMMETRY PoolSymmetry
PROPERTY ImplementsCustody
INVARIANTS TypeOK MirrorReproducesRoots PublishedRootsStayKnown PathsSatisfyCircuit CompleteMirrorIsAccepted Solvent
CHECK_DEADLOCK FALSE
