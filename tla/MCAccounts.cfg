SPECIFICATION AccountsSpec
CONSTANTS
  root = root
  guest = guest
  s1 = s1
  s2 = s2
  a1 = a1
  a2 = a2
  h1 = h1
  h2 = h2
  NoOne = NoOne
  Accounts = {a1, a2}
  Addresses = {root, guest}
  Subjects = {s1, s2}
  ClaimedEmail <- MCClaimedEmail
  BootstrapAdmins <- MCBootstrapAdmins
  Handlers = {h1, h2}
  MaxChurn = 3
SYMMETRY MCSymmetry
INVARIANTS
  VerifiedIsProven
PROPERTIES
  AdminsAppointed
CHECK_DEADLOCK FALSE
