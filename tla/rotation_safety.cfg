SPECIFICATION Spec
CONSTANTS
  Requests = {r1, r2, r3}
  Jtis = {j1, j2, j3, j4}
  NoToken = NoToken
  Lifetime = 2
  MaxNow = 3
SYMMETRY Symmetry
CHECK_DEADLOCK FALSE
INVARIANTS
  IInv
  OneLiveTokenPerSession
  RacingTabsHaveAWinner
  NoUsedTokenIsKept
PROPERTIES
  EndedSessionsStayEnded
