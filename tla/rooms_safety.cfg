\* One domain and one dashboard (u1): requests one after the other, sockets that break once,
\* lists and messages in any order.
SPECIFICATION ListSpec
CONSTANTS
  Users = {u1, u2}
  Requests = {r1, r2}
  NoUser = NoUser
  Unasked = Unasked
  Granted = {"ADMIN", "MEMBER"}
  Subscribed = {"CREATED", "ADDED", "REMOVED", "ROLE", "DELETED"}
  MaxFaults = 1
  Watchers = {u1}
  MaxDisconnects = 1
SYMMETRY Symmetry
CONSTRAINT Bounded
INVARIANTS
  RoomsFollowRoles
  PagesShowTheMembership
