SPECIFICATION LedgerSpec
CONSTANTS
  Users = {u1, u2}
  Requests = {r1, r2}
  NoUser = NoUser
  Granted = {"MEMBER"}
  Subscribed = {"CREATED", "ADDED", "REMOVED", "ROLE", "UPDATED"}
  MaxFaults = 2
SYMMETRY Symmetry
INVARIANTS
  SpacedChangesConverge
  AcknowledgedIsJournalled
  LoggedAgainOnlyAfterFaults
