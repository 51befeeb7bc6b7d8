SPECIFICATION DCSpec
CONSTANTS
  Users = {u1, u2, u3}
  Requests = {r1, r2}
  NoUser = NoUser
  Granted = {"ADMIN", "MEMBER"}
  Subscribed = {"CREATED", "ADDED", "REMOVED", "ROLE", "DELETED"}
  MaxFaults = 2
SYMMETRY Symmetry
INVARIANTS
  SpacedChangesConverge
  OnlyRolesOnceHeld
