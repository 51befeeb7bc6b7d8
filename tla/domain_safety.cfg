SPECIFICATION Spec
CONSTANTS
  Users = {u1, u2, u3}
  Requests = {r1, r2}
  NoUser = NoUser
  Granted = {"ADMIN", "MEMBER", "GUEST"}
SYMMETRY Symmetry
INVARIANTS
  IInv
  MembershipMatchesRole
  OneOwnerUnlessTransferRaced
PROPERTIES
  OnlyOwnersGrantOwnership
