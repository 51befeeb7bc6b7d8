SPECIFICATION AccountsSpec
CONSTANTS
  Users = {u1, u2}
  Emails = {e1, e2}
  Passwords = {p1, p2}
  Tokens = {t1, t2}
  Requests = {r1, r2}
  Forms = {{"email"}, {"password"}, {"email", "password"}}
  None = None
SYMMETRY Symmetry
INVARIANTS
  AccountsInv
  OneTokenUnlessRaced
  ResetTokensAreUsedOnce
  AnswersAreHonest
