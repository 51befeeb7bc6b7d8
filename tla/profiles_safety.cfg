SPECIFICATION ProfilesSpec
CONSTANTS
  Users = {u1, u2}
  Emails = {e1, e2}
  Passwords = {p1, p2}
  Tokens = {t1}
  Requests = {r1, r2}
  Forms = {{"email"}, {"email", "surname"}}
  None = None
  MaxFaults = 2
SYMMETRY Symmetry
INVARIANTS
  ProfilesFollowAccounts
