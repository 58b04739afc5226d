SPECIFICATION PasskeysSpec
CONSTANTS
  a1 = a1
  a2 = a2
  k1 = k1
  k2 = k2
  h1 = h1
  h2 = h2
  c1 = c1
  c2 = c2
  c3 = c3
  Nobody = Nobody
  Owners = {a1, a2}
  Keys = {k1, k2}
  Challenges = {c1, c2, c3}
  Goroutines = {h1, h2}
  MaxSigned = 2
  MaxRemovals = 1
SYMMETRY MCSymmetry
INVARIANTS
  SignInsEntitled
PROPERTIES
  AnsweredStaysClosed
CHECK_DEADLOCK FALSE
