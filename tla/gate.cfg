CONSTANTS
  c1 = c1
  c2 = c2
  c3 = c3
  c4 = c4
  Clients <- MCClients
  Limits <- MCLimits
SPECIFICATION GateSpec
INVARIANTS CountBalanced InWithinLimit
SYMMETRY MCSymmetry
