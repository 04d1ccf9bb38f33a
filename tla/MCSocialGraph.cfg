SPECIFICATION Spec
CONSTANTS
  Users = {u1, u2, u3}
  Workers = {w1, w2}
  NoUser = NoUser
  MaxRequests = 2
  MaxOps = 4
SYMMETRY MCSymmetry
INVARIANTS
  TypeOK
  OneOwner
  OnePending
PROPERTY
  FreshConsent
CHECK_DEADLOCK FALSE
