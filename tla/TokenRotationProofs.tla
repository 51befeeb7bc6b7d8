------------------------- MODULE TokenRotationProofs -------------------------
(***************************************************************************)
(* For every set of requests and tokens, every lifetime and every clock:   *)
(* a session has at most one token that can still be used, one that has    *)
(* none never gets one again, a browser does not settle on a token that    *)
(* was used, and a refresh that lost a race has a winner.                  *)
(***************************************************************************)
EXTENDS TokenRotation, TLAPS

-----------------------------------------------------------------------------
(* Typing *)

LEMMA InitInv == Init => IInv
<1> SUFFICES ASSUME Init PROVE IInv
  OBVIOUS
<1> USE RotationAssumption DEF Init
<1>1. TypeOK
  <2>1. jar \in Jtis \cup {NoToken} /\ issued \subseteq Jtis
    OBVIOUS
  <2>2. exp \in [Jtis -> Nat] /\ session \in [Jtis -> Jtis \cup {NoToken}]
    OBVIOUS
  <2>3. pc \in [Requests -> Stages \cup {"idle", "done"}]
    OBVIOUS
  <2>4. now \in 0..MaxNow /\ blockedUntil \in [Jtis -> Nat] /\ ttl \in [Requests -> Nat]
    OBVIOUS
  <2>5. /\ kind \in [Requests -> {"none", "login", "refresh", "logout"}]
        /\ answer \in [Requests -> {"keep", "refused", "clear", "grant"}]
    OBVIOUS
  <2>6. /\ header \in [Requests -> Jtis \cup {NoToken}]
        /\ cookie \in [Requests -> Jtis \cup {NoToken}]
        /\ minted \in [Requests -> Jtis \cup {NoToken}]
    OBVIOUS
  <2>7. disturbed \in BOOLEAN /\ mixed \in BOOLEAN /\ signedIn \in Jtis \cup {NoToken}
    OBVIOUS
  <2> HIDE DEF Init
  <2> QED
    BY <2>1, <2>2, <2>3, <2>4, <2>5, <2>6, <2>7 DEF TypeOK
<1>2. TokenInv
  BY DEF TokenInv, Exists
<1>3. EntryInv
  BY DEF EntryInv, Blocked
<1>4. AwaitInv
  BY DEF AwaitInv
<1>5. MintedInv
  BY DEF MintedInv, Rotating
<1>6. OneLiveTokenPerSession
  BY DEF OneLiveTokenPerSession, Live
<1>7. OnItsWayInv /\ UsedInv
  BY DEF OnItsWayInv, UsedInv, Handing, Blocked
<1> QED
  BY <1>1, <1>2, <1>3, <1>4, <1>5, <1>6, <1>7 DEF IInv

\* Every step keeps every variable in its range.
LEMMA TypeStep ==
  ASSUME IInv, [Next]_vars
  PROVE  TypeOK'
<1> USE RotationAssumption DEF IInv, TypeOK, Goto, Reply, Stages, tokens, browser
<1>1. ASSUME NEW r \in Requests, Login(r) PROVE TypeOK'
  BY <1>1 DEF Login, Begin, Become, CreateToken
<1>2. ASSUME NEW r \in Requests, CallRefresh(r) PROVE TypeOK'
  BY <1>2 DEF CallRefresh, Begin, Become
<1>3. ASSUME NEW r \in Requests, SendRefresh(r) PROVE TypeOK'
  BY <1>3 DEF SendRefresh
<1>4. ASSUME NEW r \in Requests, SendLogout(r) PROVE TypeOK'
  BY <1>4 DEF SendLogout, Begin, Become
<1>5. ASSUME NEW r \in Requests, VerifyRefresh(r) PROVE TypeOK'
  BY <1>5 DEF VerifyRefresh
<1>6. ASSUME NEW r \in Requests, VerifyLogout(r) PROVE TypeOK'
  <2>1. CASE ~Verified(r)
    BY <1>6, <2>1 DEF VerifyLogout
  <2>2. CASE Verified(r)
    <3>1. cookie[r] \in Jtis /\ now < exp[cookie[r]]
      BY <2>2 DEF Verified
    <3>2. Ttl(cookie[r]) \in Nat
      BY <3>1 DEF Ttl
    <3> QED
      BY <1>6, <2>2, <3>2 DEF VerifyLogout
  <2> QED
    BY <2>1, <2>2
<1>7. ASSUME NEW r \in Requests, IsBlocked(r) PROVE TypeOK'
  BY <1>7 DEF IsBlocked
<1>8. ASSUME NEW r \in Requests, Mint(r) PROVE TypeOK'
  <2>1. cookie[r] \in Jtis
    BY <1>8 DEF Mint, AwaitInv
  <2>2. Ttl(cookie[r]) \in Int
    BY <2>1 DEF Ttl
  <2>3. PICK j \in Jtis : CreateToken(r, j, session[cookie[r]], exp[cookie[r]])
    BY <1>8 DEF Mint
  <2>4. ttl' \in [Requests -> Nat]
    BY <1>8, <2>2 DEF Mint
  <2> QED
    BY <1>8, <2>1, <2>3, <2>4 DEF Mint, CreateToken
<1>9. ASSUME NEW r \in Requests, SetBlocked(r) PROVE TypeOK'
  <2>1. cookie[r] \in Jtis /\ (kind[r] = "refresh" => minted[r] \in Jtis)
    BY <1>9 DEF SetBlocked, AwaitInv, MintedInv, Rotating
  <2> QED
    BY <1>9, <2>1 DEF SetBlocked, Block
<1>10. ASSUME NEW r \in Requests, RedisFails(r) PROVE TypeOK'
  <2>1. blockedUntil' = blockedUntil \/ (cookie[r] \in Jtis /\ Block(r))
    BY <1>10 DEF RedisFails, AwaitInv
  <2>2. blockedUntil' \in [Jtis -> Nat]
    BY <2>1 DEF Block
  <2>3. disturbed' \in BOOLEAN
    BY <1>10 DEF RedisFails
  <2> QED
    BY <1>10, <2>2, <2>3 DEF RedisFails
<1>11. ASSUME NEW r \in Requests, Deliver(r) PROVE TypeOK'
  <2>1. minted[r] \in Jtis \cup {NoToken} /\ (answer[r] = "grant" => minted[r] \in Jtis)
    BY <1>11 DEF Deliver, AwaitInv
  <2>2. jar' \in Jtis \cup {NoToken}
    BY <1>11, <2>1 DEF Deliver
  <2>3. signedIn' \in {minted[r], NoToken, signedIn}
    BY <1>11 DEF Deliver
  <2>4. pc' \in [Requests -> Stages \cup {"idle", "done"}]
    BY <1>11 DEF Deliver
  <2> QED
    BY <1>11, <2>1, <2>2, <2>3, <2>4 DEF Deliver
<1>12. ASSUME NEW r \in Requests, PageIgnores(r) \/ Lose(r) PROVE TypeOK'
  BY <1>12 DEF PageIgnores, Lose
<1>13. ASSUME NEW j \in Jtis, Expire(j) PROVE TypeOK'
  BY <1>13 DEF Expire
<1>14. CASE Tick
  BY <1>14 DEF Tick
<1>15. CASE UNCHANGED vars
  BY <1>15 DEF vars
<1>16. ASSUME NEW r \in Requests, PageLogsOut(r) PROVE TypeOK'
  BY <1>16 DEF PageLogsOut, Become
<1> QED
  BY <1>1, <1>2, <1>3, <1>4, <1>5, <1>6, <1>7, <1>8, <1>9, <1>10, <1>11, <1>12,
     <1>13, <1>14, <1>15, <1>16 DEF Next, RequestStep

-----------------------------------------------------------------------------
(* What the steps do to the tokens *)

\* A step that creates no token hands one out at most that existed, and leaves
\* their sessions and expiries alone.
LEMMA CreatedTokens ==
  ASSUME IInv, [Next]_vars
  PROVE  \/ UNCHANGED <<exp, session>>
         \/ \E r \in Requests, j \in Jtis :
              /\ ~Exists(j)
              /\ \/ /\ Login(r)
                    /\ CreateToken(r, j, j, now + Lifetime)
                    /\ issued' = issued \cup {j}
                 \/ /\ Mint(r)
                    /\ CreateToken(r, j, session[cookie[r]], exp[cookie[r]])
                    /\ UNCHANGED issued
BY DEF Next, RequestStep, vars, tokens, Login, CallRefresh, SendRefresh, SendLogout,
   VerifyRefresh, VerifyLogout, IsBlocked, Mint, SetBlocked, RedisFails, Deliver, PageLogsOut, PageIgnores, Lose,
   Expire, Tick, CreateToken

\* Tokens keep their expiry and session once they exist.
LEMMA TokensKept ==
  ASSUME IInv, [Next]_vars
  PROVE  \A j \in Jtis : Exists(j) => exp'[j] = exp[j] /\ session'[j] = session[j]
<1> USE DEF IInv, TypeOK
<1>1. CASE UNCHANGED <<exp, session>>
  BY <1>1
<1>2. ASSUME NEW r \in Requests, NEW j \in Jtis, ~Exists(j),
             \E s, e : CreateToken(r, j, s, e)
      PROVE  \A k \in Jtis : Exists(k) => exp'[k] = exp[k] /\ session'[k] = session[k]
  BY <1>2 DEF CreateToken
<1> QED
  BY <1>1, <1>2, CreatedTokens

\* A token is handed out by a login that creates it, or by the SET of a refresh
\* that blocks the token it replaces.
LEMMA IssuedTokens ==
  ASSUME IInv, [Next]_vars
  PROVE  \/ issued' = issued
         \/ \E r \in Requests, j \in Jtis :
              /\ Login(r)
              /\ ~Exists(j)
              /\ CreateToken(r, j, j, now + Lifetime)
              /\ issued' = issued \cup {j}
         \/ \E r \in Requests :
              /\ SetBlocked(r)
              /\ pc[r] = "set" /\ kind[r] = "refresh"
              /\ ~Blocked(cookie[r])
              /\ Block(r)
              /\ issued' = issued \cup {minted[r]}
BY DEF Next, RequestStep, vars, tokens, Login, CallRefresh, SendRefresh, SendLogout,
   VerifyRefresh, VerifyLogout, IsBlocked, Mint, SetBlocked, RedisFails, Deliver, PageLogsOut, PageIgnores, Lose,
   Expire, Tick, CreateToken

\* The blocklist changes by an entry that a SET adds, with a time to live that
\* reaches the expiry of the token, or by one that Redis drops when it is due.
LEMMA BlocklistSteps ==
  ASSUME IInv, [Next]_vars
  PROVE  \/ blockedUntil' = blockedUntil
         \/ /\ UNCHANGED <<now, exp, session>>
            /\ \E r \in Requests :
                 /\ pc[r] = "set"
                 /\ ~Blocked(cookie[r])
                 /\ Block(r)
                 /\ issued' = issued \/ issued' = issued \cup {minted[r]}
         \/ /\ UNCHANGED <<now, exp, session, issued>>
            /\ \E j \in Jtis : /\ Blocked(j)
                               /\ now >= blockedUntil[j]
                               /\ blockedUntil' = [blockedUntil EXCEPT ![j] = 0]
BY DEF Next, RequestStep, vars, tokens, Login, CallRefresh, SendRefresh, SendLogout,
   VerifyRefresh, VerifyLogout, IsBlocked, Mint, SetBlocked, RedisFails, Deliver, PageLogsOut, PageIgnores, Lose,
   Expire, Tick

LEMMA ClockSteps ==
  ASSUME IInv, [Next]_vars
  PROVE  now' \in Int /\ now' >= now
BY DEF Next, RequestStep, vars, tokens, Login, CallRefresh, SendRefresh, SendLogout,
   VerifyRefresh, VerifyLogout, IsBlocked, Mint, SetBlocked, RedisFails, Deliver, PageLogsOut, PageIgnores, Lose,
   Expire, Tick, IInv, TypeOK

-----------------------------------------------------------------------------
(* The invariant *)

\* Tokens are made before they are carried, and share the expiry of the login.
LEMMA TokenStep ==
  ASSUME IInv, [Next]_vars, TypeOK'
  PROVE  TokenInv'
<1> USE DEF IInv, TypeOK
<1>1. \A j \in issued' : j \in Jtis /\ Exists(j)'
  <2>1. \A j \in issued : Exists(j)'
    BY TokensKept DEF TokenInv, Exists
  <2>2. ASSUME NEW r \in Requests, NEW j \in Jtis, Login(r), ~Exists(j),
               CreateToken(r, j, j, now + Lifetime), issued' = issued \cup {j}
        PROVE  Exists(j)'
    BY <2>2, RotationAssumption DEF CreateToken, Exists
  <2>3. ASSUME NEW r \in Requests, pc[r] = "set", kind[r] = "refresh",
               NEW j \in Jtis, j = minted[r]
        PROVE  Exists(j)'
    BY <2>3, TokensKept DEF MintedInv, Rotating, Exists
  <2>4. ASSUME NEW r \in Requests, pc[r] = "set", kind[r] = "refresh"
        PROVE  minted[r] \in Jtis
    BY <2>4 DEF MintedInv, Rotating
  <2> QED
    BY <2>1, <2>2, <2>3, <2>4, IssuedTokens
<1>2. issued \subseteq issued'
  BY IssuedTokens
<1>3. jar' \in issued' \cup {NoToken}
  <2>1. jar' = jar \/ jar' = NoToken \/ \E r \in Requests : /\ pc[r] = "reply"
                                                            /\ answer[r] = "grant"
                                                            /\ jar' = minted[r]
    BY DEF Next, RequestStep, vars, tokens, browser, Login, CallRefresh, SendRefresh,
       SendLogout, VerifyRefresh, VerifyLogout, IsBlocked, Mint, SetBlocked, RedisFails,
       Deliver, PageLogsOut, PageIgnores, Lose, Expire, Tick
  <2> QED
    BY <2>1, <1>2 DEF TokenInv, AwaitInv
<1>4. \A r \in Requests : cookie'[r] \in issued' \cup {NoToken}
  <2>1. \A r \in Requests : cookie'[r] = cookie[r] \/ cookie'[r] = jar
    BY DEF Next, RequestStep, vars, tokens, browser, Login, CallRefresh, SendRefresh,
       SendLogout, VerifyRefresh, VerifyLogout, IsBlocked, Mint, SetBlocked, RedisFails,
       Deliver, PageLogsOut, PageIgnores, Lose, Expire, Tick
  <2> QED
    BY <2>1, <1>2 DEF TokenInv
<1>5. \A j \in Jtis : Exists(j)' => /\ session'[j] \in Jtis
                                    /\ Exists(session[j])'
                                    /\ exp'[j] = exp'[session'[j]]
  <2>1. CASE UNCHANGED <<exp, session>>
    BY <2>1 DEF TokenInv, Exists
  <2>2. ASSUME NEW r \in Requests, NEW j \in Jtis, ~Exists(j),
               CreateToken(r, j, j, now + Lifetime)
        PROVE  \A k \in Jtis : Exists(k)' => /\ session'[k] \in Jtis
                                             /\ Exists(session[k])'
                                             /\ exp'[k] = exp'[session'[k]]
    BY <2>2 DEF CreateToken, TokenInv, Exists
  <2>3. ASSUME NEW r \in Requests, NEW j \in Jtis, ~Exists(j), Mint(r),
               CreateToken(r, j, session[cookie[r]], exp[cookie[r]])
        PROVE  \A k \in Jtis : Exists(k)' => /\ session'[k] \in Jtis
                                             /\ Exists(session[k])'
                                             /\ exp'[k] = exp'[session'[k]]
    <3>1. cookie[r] \in Jtis /\ Exists(cookie[r])
      BY <2>3 DEF Mint, AwaitInv, TokenInv
    <3> QED
      BY <2>3, <3>1 DEF CreateToken, TokenInv, Exists
  <2> QED
    BY <2>1, <2>2, <2>3, CreatedTokens
<1> QED
  BY <1>1, <1>3, <1>4, <1>5 DEF TokenInv

\* No entry of the blocklist ends before the token it blocks.
LEMMA EntryStep ==
  ASSUME IInv, [Next]_vars, TypeOK'
  PROVE  EntryInv'
<1> USE DEF IInv, TypeOK
<1>1. issued \subseteq issued'
  BY IssuedTokens
<1>2. CASE blockedUntil' = blockedUntil
  BY <1>1, <1>2, TokensKept DEF EntryInv, TokenInv, Blocked
<1>3. ASSUME NEW r \in Requests, pc[r] = "set", Block(r), UNCHANGED <<now, exp>>
      PROVE  EntryInv'
  <2>1. cookie[r] \in issued /\ now + ttl[r] >= exp[cookie[r]]
    BY <1>3 DEF AwaitInv
  <2> QED
    BY <1>1, <1>3, <2>1 DEF EntryInv, Blocked, Block
<1>4. ASSUME NEW j \in Jtis, blockedUntil' = [blockedUntil EXCEPT ![j] = 0], UNCHANGED exp
      PROVE  EntryInv'
  BY <1>1, <1>4 DEF EntryInv, Blocked
<1> QED
  BY <1>2, <1>3, <1>4, BlocklistSteps

\* A session has one live token: a login starts a session of its own, and a
\* refresh is granted by the SET that blocks the token it replaces.
LEMMA OneLiveStep ==
  ASSUME IInv, [Next]_vars, TypeOK', TokenInv', EntryInv'
  PROVE  OneLiveTokenPerSession'
<1> USE DEF IInv, TypeOK
<1>1. \A j \in Jtis : Live(j)' /\ j \in issued => Live(j)
  <2> SUFFICES ASSUME NEW j \in Jtis, Live(j)', j \in issued PROVE Live(j)
    OBVIOUS
  <2>1. exp'[j] = exp[j]
    BY TokensKept DEF TokenInv
  <2>2. now < exp[j]
    BY <2>1, ClockSteps DEF Live
  <2>3. ~Blocked(j)
    BY <2>2, BlocklistSteps DEF Live, Blocked, Block, EntryInv
  <2> QED
    BY <2>2, <2>3 DEF Live
<1>2. \A j \in issued : session'[j] = session[j]
  BY TokensKept DEF TokenInv
<1>3. CASE issued' = issued
  BY <1>1, <1>2, <1>3 DEF OneLiveTokenPerSession, Live
<1>4. ASSUME NEW r \in Requests, NEW j \in Jtis, ~Exists(j), issued' = issued \cup {j},
             CreateToken(r, j, j, now + Lifetime)
      PROVE  OneLiveTokenPerSession'
  <2>1. session'[j] = j
    BY <1>4 DEF CreateToken
  <2>2. \A k \in issued : session'[k] # j
    BY <1>2, <1>4 DEF TokenInv
  <2> QED
    BY <1>1, <1>2, <1>4, <2>1, <2>2 DEF OneLiveTokenPerSession, Live
<1>5. ASSUME NEW r \in Requests, pc[r] = "set", kind[r] = "refresh", ~Blocked(cookie[r]),
             Block(r), issued' = issued \cup {minted[r]}, UNCHANGED <<now, exp, session>>
      PROVE  OneLiveTokenPerSession'
  <2>a. PICK old \in Jtis : old = cookie[r]
    BY <1>5 DEF AwaitInv
  <2>b. PICK new \in Jtis : new = minted[r]
    BY <1>5 DEF MintedInv, Rotating
  <2>1. /\ old \in issued /\ new \in Jtis \ issued /\ Exists(new)
        /\ session[new] = session[old]
        /\ ttl[r] > 0
    BY <1>5, <2>a, <2>b DEF AwaitInv, MintedInv, Rotating
  <2>2. exp[new] = exp[old]
    BY <2>1 DEF TokenInv
  <2>3. Blocked(old)'
    BY <1>5, <2>1, <2>a DEF Block, Blocked
  <2>4. \A k \in issued : Live(k)' /\ Live(new)' => session[k] # session[new]
    <3> SUFFICES ASSUME NEW k \in issued, Live(k)', Live(new)', session[k] = session[new]
                 PROVE  FALSE
      OBVIOUS
    <3>1. Live(old)
      BY <1>5, <2>1, <2>2, <2>a DEF Live
    <3>2. Live(k)
      BY <1>1
    <3>3. k = old
      BY <2>1, <3>1, <3>2 DEF OneLiveTokenPerSession
    <3> QED
      BY <2>3, <3>3 DEF Live
  <2>5. \A j \in Jtis : Live(j)' => j \in issued \/ j = new
    BY <1>5, <2>b DEF Live
  <2> QED
    BY <1>1, <1>5, <2>4, <2>5 DEF OneLiveTokenPerSession
<1>6. ASSUME NEW r \in Requests, SetBlocked(r) PROVE UNCHANGED <<now, exp, session>>
  BY <1>6 DEF SetBlocked
<1> QED
  BY <1>3, <1>4, <1>5, <1>6, IssuedTokens

\* A step is of one request, and leaves what the others hold alone.
LEMMA OneActs ==
  ASSUME IInv, [Next]_vars
  PROVE  \/ UNCHANGED <<pc, kind, cookie, ttl, minted, answer, issued, exp, session>>
         \/ \E r \in Requests :
              /\ RequestStep(r)
              /\ now' = now
              /\ \A q \in Requests \ {r} :
                   /\ pc'[q] = pc[q] /\ kind'[q] = kind[q] /\ cookie'[q] = cookie[q]
                   /\ ttl'[q] = ttl[q] /\ minted'[q] = minted[q] /\ answer'[q] = answer[q]
<1> USE DEF IInv, TypeOK, Goto, Reply, tokens
<1>1. ASSUME NEW r \in Requests, RequestStep(r)
      PROVE  /\ now' = now
             /\ \A q \in Requests \ {r} :
                  /\ pc'[q] = pc[q] /\ kind'[q] = kind[q] /\ cookie'[q] = cookie[q]
                  /\ ttl'[q] = ttl[q] /\ minted'[q] = minted[q] /\ answer'[q] = answer[q]
  BY <1>1 DEF RequestStep, Begin, Become, CreateToken, Login, CallRefresh, SendRefresh, SendLogout,
     VerifyRefresh, VerifyLogout, IsBlocked, Mint, SetBlocked, RedisFails, Deliver, PageLogsOut, PageIgnores, Lose
<1> QED
  BY <1>1 DEF Next, vars, Expire, Tick

\* What the request that acts has to show: it goes on with a token it carried, and
\* asks for a time to live that is enough at that moment.
LEMMA ActorAwaits ==
  ASSUME IInv, TypeOK', NEW r \in Requests, RequestStep(r)
  PROVE  /\ pc'[r] \in {"get", "mint", "set"} => cookie'[r] \in issued
         /\ pc'[r] \in {"get", "mint"} => kind'[r] = "refresh"
         /\ pc'[r] = "set" => /\ pc[r] \in {"mint", "arriving"}
                              /\ cookie'[r] = cookie[r]
                              /\ ttl'[r] > 0
                              /\ now + ttl'[r] >= exp[cookie[r]]
         /\ pc'[r] = "reply" /\ answer'[r] = "grant" => minted'[r] \in issued'
<1> USE RotationAssumption DEF IInv, TypeOK, Goto, Reply, tokens
<1>1. CASE Login(r) \/ CallRefresh(r) \/ SendRefresh(r) \/ SendLogout(r) \/ PageLogsOut(r)
  BY <1>1 DEF Login, CreateToken, CallRefresh, SendRefresh, SendLogout, PageLogsOut
<1>2. CASE VerifyRefresh(r)
  BY <1>2 DEF VerifyRefresh, Verified, TokenInv
<1>3. CASE VerifyLogout(r)
  BY <1>3 DEF VerifyLogout, Verified, TokenInv, Ttl
<1>4. CASE IsBlocked(r)
  BY <1>4 DEF IsBlocked, AwaitInv
<1>5. CASE Mint(r)
  BY <1>5 DEF Mint, Ttl, AwaitInv
<1>6. CASE SetBlocked(r)
  BY <1>6 DEF SetBlocked
<1>7. CASE RedisFails(r) \/ Deliver(r) \/ PageIgnores(r) \/ Lose(r)
  BY <1>7 DEF RedisFails, Deliver, PageIgnores, Lose
<1> QED
  BY <1>1, <1>2, <1>3, <1>4, <1>5, <1>6, <1>7 DEF RequestStep

\* What requests learned before an await still holds after it.
LEMMA AwaitStep ==
  ASSUME IInv, [Next]_vars, TypeOK'
  PROVE  AwaitInv'
<1> USE DEF IInv, TypeOK
<1>1. issued \subseteq issued' /\ now' >= now /\ now' \in Int
  BY IssuedTokens, ClockSteps
<1>2. \A j \in issued : j \in Jtis /\ exp'[j] = exp[j]
  BY TokensKept DEF TokenInv
<1>3. CASE UNCHANGED <<pc, kind, cookie, ttl, minted, answer>>
  BY <1>1, <1>2, <1>3 DEF AwaitInv
<1>4. ASSUME NEW r \in Requests, RequestStep(r), now' = now,
             \A q \in Requests \ {r} :
               /\ pc'[q] = pc[q] /\ kind'[q] = kind[q] /\ cookie'[q] = cookie[q]
               /\ ttl'[q] = ttl[q] /\ minted'[q] = minted[q] /\ answer'[q] = answer[q]
      PROVE  AwaitInv'
  BY <1>1, <1>2, <1>4, ActorAwaits DEF AwaitInv
<1> QED
  BY <1>3, <1>4, OneActs

\* The token a refresh will hand out is new, and is not handed out before.
LEMMA MintedStep ==
  ASSUME IInv, [Next]_vars, TypeOK'
  PROVE  MintedInv'
<1> USE DEF IInv, TypeOK
<1>1. \A j \in Jtis : Exists(j) => exp'[j] = exp[j] /\ session'[j] = session[j]
  BY TokensKept
<1>2. \A j \in issued : j \in Jtis /\ Exists(j)
  BY DEF TokenInv
<1>3. CASE UNCHANGED <<pc, kind, cookie, ttl, minted, answer, issued, exp, session>>
  BY <1>3 DEF MintedInv, Rotating, Exists
<1>4. ASSUME NEW r \in Requests, RequestStep(r),
             \A q \in Requests \ {r} :
               /\ pc'[q] = pc[q] /\ kind'[q] = kind[q] /\ cookie'[q] = cookie[q]
               /\ ttl'[q] = ttl[q] /\ minted'[q] = minted[q] /\ answer'[q] = answer[q]
      PROVE  MintedInv'
  <2>1. \/ issued' = issued
        \/ \E j \in Jtis : ~Exists(j) /\ issued' = issued \cup {j}
        \/ Rotating(r) /\ issued' = issued \cup {minted[r]}
    BY <1>4 DEF RequestStep, tokens, Login, CreateToken, CallRefresh, SendRefresh, SendLogout,
       VerifyRefresh, VerifyLogout, IsBlocked, Mint, SetBlocked, RedisFails, Deliver, PageLogsOut, PageIgnores, Lose,
       Rotating
  <2>2. pc'[r] = "set" /\ kind'[r] = "refresh" =>
          /\ Mint(r)
          /\ pc[r] = "mint"
          /\ \E j \in Jtis : CreateToken(r, j, session[cookie[r]], exp[cookie[r]])
    BY <1>4 DEF RequestStep, Goto, Reply, Login, CallRefresh, SendRefresh, SendLogout,
       VerifyRefresh, VerifyLogout, IsBlocked, Mint, SetBlocked, RedisFails, Deliver, PageLogsOut, PageIgnores, Lose
  <2>3. ASSUME NEW q \in Requests \ {r}, Rotating(q)
        PROVE  /\ minted[q] \in Jtis \ issued'
               /\ exp'[minted[q]] # 0
               /\ session'[minted[q]] = session'[cookie[q]]
    <3>1. /\ minted[q] \in Jtis \ issued
          /\ Exists(minted[q])
          /\ session[minted[q]] = session[cookie[q]]
          /\ Rotating(r) => minted[q] # minted[r]
      BY <2>3 DEF MintedInv
    <3>2. cookie[q] \in issued
      BY <2>3 DEF AwaitInv, Rotating
    <3>3. minted[q] \notin issued'
      BY <2>1, <3>1
    <3> QED
      BY <1>1, <1>2, <3>1, <3>2, <3>3 DEF Exists
  <2>4. ASSUME pc'[r] = "set", kind'[r] = "refresh"
        PROVE  /\ minted'[r] \in Jtis \ issued'
               /\ ~Exists(minted'[r])
               /\ exp'[minted'[r]] # 0
               /\ session'[minted'[r]] = session'[cookie'[r]]
    <3>1. PICK j \in Jtis : CreateToken(r, j, session[cookie[r]], exp[cookie[r]])
      BY <2>2, <2>4
    <3>2. Mint(r) /\ issued' = issued /\ cookie' = cookie
      BY <2>2, <2>4 DEF Mint
    <3>3. cookie[r] \in issued
      BY <2>2, <2>4 DEF AwaitInv
    <3>4. ~Exists(j) /\ minted'[r] = j
      BY <3>1 DEF CreateToken
    <3>5. exp'[j] = exp[cookie[r]] /\ session'[j] = session[cookie[r]]
      BY <3>1, <3>3, <1>2 DEF CreateToken
    <3> QED
      BY <1>1, <1>2, <3>2, <3>3, <3>4, <3>5 DEF Exists
  <2>5. \A q \in Requests \ {r} : Rotating(q) => Exists(minted[q])
    BY DEF MintedInv
  <2> QED
    BY <1>4, <2>3, <2>4, <2>5 DEF MintedInv, Rotating, Exists
<1> QED
  BY <1>3, <1>4, OneActs

\* What changes about tokens on their way: the actor's token is a new one, and the
\* cookies that requests take along are those of the browser.
LEMMA Movements ==
  ASSUME IInv, TypeOK', NEW r \in Requests, RequestStep(r)
  PROVE  /\ \A q \in Requests : cookie'[q] = cookie[q] \/ cookie'[q] = jar
         /\ Handing(r)' => /\ minted'[r] \in (Jtis \cap issued') \ issued
                           /\ jar' = jar
                           /\ cookie' = cookie
         /\ \/ jar' = jar
            \/ Deliver(r) /\ jar' = NoToken
            \/ Deliver(r) /\ Handing(r) /\ jar' = minted[r]
         /\ \/ blockedUntil' = blockedUntil
            \/ /\ pc[r] = "set" /\ Block(r)
               /\ ~disturbed' => /\ pc'[r] = "reply" /\ answer'[r] \in {"grant", "clear"}
                                 /\ cookie'[r] = cookie[r]
<1> USE RotationAssumption DEF IInv, TypeOK, Goto, Reply, tokens, browser, Handing
<1>1. CASE Login(r)
  <2>1. PICK j \in Jtis : CreateToken(r, j, j, now + Lifetime) /\ issued' = issued \cup {j}
    BY <1>1 DEF Login
  <2>2. minted'[r] = j /\ ~Exists(j) /\ j \notin issued
    BY <2>1 DEF CreateToken, TokenInv
  <2> QED
    BY <1>1, <2>1, <2>2 DEF Login
<1>2. CASE CallRefresh(r) \/ SendRefresh(r) \/ SendLogout(r) \/ PageLogsOut(r)
  BY <1>2 DEF CallRefresh, SendRefresh, SendLogout, PageLogsOut
<1>3. CASE VerifyRefresh(r) \/ VerifyLogout(r) \/ IsBlocked(r) \/ Mint(r)
  BY <1>3 DEF VerifyRefresh, VerifyLogout, IsBlocked, Mint
<1>4. CASE SetBlocked(r)
  <2>1. kind[r] = "refresh" => minted[r] \in Jtis \ issued
    BY <1>4 DEF SetBlocked, MintedInv, Rotating
  <2>2. /\ UNCHANGED <<jar, cookie, minted, kind>>
        /\ pc[r] = "set"
        /\ \/ /\ Block(r)
              /\ issued' = IF kind[r] = "refresh" THEN issued \cup {minted[r]} ELSE issued
              /\ pc'[r] = "reply"
              /\ answer'[r] = IF kind[r] = "refresh" THEN "grant" ELSE "clear"
           \/ /\ UNCHANGED blockedUntil
              /\ answer'[r] # "grant"
    BY <1>4 DEF SetBlocked
  <2> QED
    BY <2>1, <2>2
<1>5. CASE RedisFails(r)
  BY <1>5 DEF RedisFails
<1>6. CASE Deliver(r)
  <2>1. /\ UNCHANGED <<cookie, blockedUntil>>
        /\ pc'[r] # "reply" /\ pc[r] = "reply"
        /\ jar' = IF answer[r] = "grant" THEN minted[r]
                  ELSE IF answer[r] = "clear" THEN NoToken ELSE jar
    BY <1>6 DEF Deliver
  <2> QED
    BY <1>6, <2>1
<1>7. CASE PageIgnores(r) \/ Lose(r)
  BY <1>7 DEF PageIgnores, Lose
<1> QED
  BY <1>1, <1>2, <1>3, <1>4, <1>5, <1>6, <1>7 DEF RequestStep

\* The clock and Redis by itself hand nothing out.
LEMMA QuietSteps ==
  ASSUME IInv, [Next]_vars, \A r \in Requests : ~RequestStep(r)
  PROVE  /\ UNCHANGED <<pc, minted, answer, cookie, jar, issued, disturbed>>
         /\ \A j \in Jtis : Blocked(j)' => Blocked(j)
BY DEF Next, vars, Expire, Tick, tokens, browser, IInv, TypeOK, Blocked

\* Nobody has or uses a token before the browser is told of it.
LEMMA OnItsWayStep ==
  ASSUME IInv, [Next]_vars, TypeOK', TokenInv', EntryInv'
  PROVE  OnItsWayInv'
<1> USE DEF IInv, TypeOK
<1>1. CASE \A r \in Requests : ~RequestStep(r)
  BY <1>1, QuietSteps DEF OnItsWayInv, Handing
<1>2. ASSUME NEW r \in Requests, RequestStep(r) PROVE OnItsWayInv'
  <2>1. issued \subseteq issued'
    BY IssuedTokens
  <2>2. \A q \in Requests \ {r} :
          pc'[q] = pc[q] /\ minted'[q] = minted[q] /\ answer'[q] = answer[q]
    BY <1>2 DEF RequestStep, Goto, Reply, Begin, Become, CreateToken, Login, CallRefresh,
       SendRefresh, SendLogout, VerifyRefresh, VerifyLogout, IsBlocked, Mint, SetBlocked,
       RedisFails, Deliver, PageLogsOut, PageIgnores, Lose
  <2>3. ASSUME NEW q \in Requests \ {r}, Handing(q)
        PROVE  /\ minted[q] \in issued' \ {jar'}
               /\ blockedUntil'[minted[q]] = 0
               /\ \A p \in Requests : cookie'[p] # minted[q]
    <3>1. PICK j \in Jtis : j = minted[q]
      BY <2>3 DEF OnItsWayInv
    <3>2. /\ j \in issued /\ j # jar /\ ~Blocked(j)
          /\ \A p \in Requests : cookie[p] # j
          /\ Handing(r) => minted[r] # j
      BY <2>3, <3>1 DEF OnItsWayInv
    <3>3. jar' # j /\ \A p \in Requests : cookie'[p] # j
      BY <1>2, <3>2, Movements, RotationAssumption
    <3>4. blockedUntil'[j] = 0
      BY <1>2, <3>2, Movements DEF Block, Blocked
    <3> QED
      BY <2>1, <3>1, <3>2, <3>3, <3>4
  <2>4. ASSUME Handing(r)'
        PROVE  /\ minted'[r] \in issued' \ {jar'}
               /\ blockedUntil'[minted'[r]] = 0
               /\ \A p \in Requests : cookie'[p] # minted'[r]
               /\ \A q \in Requests \ {r} : Handing(q) => minted[q] # minted'[r]
    <3>1. PICK j \in Jtis : j = minted'[r] /\ j \in issued' \ issued
      BY <1>2, <2>4, Movements
    <3>2. jar' # j /\ \A p \in Requests : cookie'[p] # j
      BY <1>2, <2>4, <3>1, Movements, RotationAssumption DEF TokenInv
    <3>3. blockedUntil'[j] = 0
      <4>1. ~Blocked(j)
        BY <3>1 DEF EntryInv
      <4>2. pc[r] = "set" => cookie[r] # j
        BY <3>1 DEF AwaitInv
      <4> QED
        BY <1>2, <4>1, <4>2, Movements DEF Block, Blocked
    <3>4. \A q \in Requests \ {r} : Handing(q) => minted[q] # j
      BY <3>1 DEF OnItsWayInv
    <3> QED
      BY <3>1, <3>2, <3>3, <3>4
  <2>5. \A q \in Requests \ {r} : Handing(q)' = Handing(q)
    BY <2>2 DEF Handing
  <2>6. \A q \in Requests \ {r} :
          Handing(q)' => /\ minted'[q] \in issued' \ {jar'}
                         /\ blockedUntil'[minted'[q]] = 0
                         /\ \A p \in Requests : cookie'[p] # minted'[q]
    BY <2>2, <2>3, <2>5
  <2>7. \A p, q \in Requests :
          Handing(p)' /\ Handing(q)' /\ minted'[p] = minted'[q] => p = q
    BY <2>2, <2>4, <2>5 DEF OnItsWayInv
  <2> QED
    BY <2>4, <2>6, <2>7 DEF OnItsWayInv, Blocked
<1> QED
  BY <1>1, <1>2

\* Whoever uses the token of the browser answers with the cookies that replace it.
LEMMA UsedStep ==
  ASSUME IInv, [Next]_vars, TypeOK'
  PROVE  UsedInv'
<1> USE DEF IInv, TypeOK
<1>1. CASE \A r \in Requests : ~RequestStep(r)
  <2>1. jar \in Jtis \cup {NoToken}
    OBVIOUS
  <2> QED
    BY <1>1, <2>1, QuietSteps DEF UsedInv
<1>2. ASSUME NEW r \in Requests, RequestStep(r) PROVE UsedInv'
  <2> SUFFICES ASSUME ~disturbed', jar' # NoToken, Blocked(jar)'
               PROVE  \E q \in Requests : /\ pc'[q] = "reply" /\ cookie'[q] = jar'
                                          /\ answer'[q] \in {"grant", "clear"}
    BY DEF UsedInv
  <2>1. ~disturbed
    BY <1>2 DEF RequestStep, Login, CallRefresh, SendRefresh, SendLogout, VerifyRefresh,
       VerifyLogout, IsBlocked, Mint, SetBlocked, RedisFails, Deliver, PageLogsOut,
       PageIgnores, Lose
  <2>2. PICK j \in Jtis : j = jar'
    OBVIOUS
  <2>3. CASE blockedUntil' = blockedUntil
    <3>1. Blocked(j)
      BY <2>2, <2>3 DEF Blocked
    <3>2. jar' = jar
      BY <1>2, <2>2, <3>1, Movements DEF OnItsWayInv
    <3>3. PICK q \in Requests : /\ pc[q] = "reply" /\ cookie[q] = jar
                                /\ answer[q] \in {"grant", "clear"}
      BY <2>1, <2>2, <3>1, <3>2 DEF UsedInv
    <3>4. CASE q # r
      BY <1>2, <3>2, <3>3, <3>4 DEF RequestStep, Goto, Reply, Begin, Become, Login, CallRefresh,
         SendRefresh, SendLogout, VerifyRefresh, VerifyLogout, IsBlocked, Mint, SetBlocked,
         RedisFails, Deliver, PageLogsOut, PageIgnores, Lose
    <3>5. CASE q = r
      <4>1. Deliver(r)
        BY <1>2, <3>3, <3>5 DEF RequestStep, Begin, Login, CallRefresh, SendRefresh, SendLogout,
           VerifyRefresh, VerifyLogout, IsBlocked, Mint, SetBlocked, RedisFails,
           PageLogsOut, PageIgnores, Lose
      <4>2. jar' = minted[r] /\ answer[r] = "grant"
        BY <3>3, <3>5, <4>1 DEF Deliver
      <4> QED
        BY <3>2, <3>3, <3>5, <4>2 DEF OnItsWayInv, Handing
    <3> QED
      BY <3>4, <3>5
  <2>4. CASE blockedUntil' # blockedUntil
    <3>1. /\ pc[r] = "set" /\ Block(r) /\ cookie'[r] = cookie[r]
          /\ pc'[r] = "reply" /\ answer'[r] \in {"grant", "clear"}
      BY <1>2, <2>4, Movements
    <3>2. jar' = jar
      BY <1>2, <3>1, Movements DEF Deliver
    <3>3. CASE j = cookie[r]
      BY <2>2, <3>1, <3>3
    <3>4. CASE j # cookie[r]
      <4>1. Blocked(j)
        BY <2>2, <3>1, <3>4 DEF Blocked, Block
      <4>2. PICK q \in Requests : /\ pc[q] = "reply" /\ cookie[q] = jar
                                  /\ answer[q] \in {"grant", "clear"}
        BY <2>1, <2>2, <3>2, <4>1 DEF UsedInv
      <4>3. q # r
        BY <3>1, <4>2
      <4> QED
        BY <1>2, <3>2, <4>2, <4>3 DEF RequestStep, Goto, Reply, Begin, Become, Login, CallRefresh,
           SendRefresh, SendLogout, VerifyRefresh, VerifyLogout, IsBlocked, Mint, SetBlocked,
           RedisFails, Deliver, PageLogsOut, PageIgnores, Lose
    <3> QED
      BY <3>3, <3>4
  <2> QED
    BY <2>3, <2>4
<1> QED
  BY <1>1, <1>2

\* The inductive invariant holds in every reachable state.
THEOREM InductiveInvariant == Spec => []IInv
<1>1. IInv /\ [Next]_vars => IInv'
  <2> SUFFICES ASSUME IInv, [Next]_vars PROVE IInv'
    OBVIOUS
  <2>1. TypeOK'
    BY TypeStep
  <2>2. TokenInv' /\ AwaitInv' /\ MintedInv'
    BY <2>1, TokenStep, AwaitStep, MintedStep
  <2>3. EntryInv'
    BY <2>1, EntryStep
  <2>4. OneLiveTokenPerSession'
    BY <2>1, <2>2, <2>3, OneLiveStep
  <2>5. OnItsWayInv' /\ UsedInv'
    BY <2>1, <2>2, <2>3, OnItsWayStep, UsedStep
  <2> QED
    BY <2>1, <2>2, <2>3, <2>4, <2>5 DEF IInv
<1> QED
  BY <1>1, InitInv, PTL DEF Spec

\* Every variable stays in its range.
THEOREM TypeCorrect == Spec => []TypeOK
BY InductiveInvariant, PTL DEF IInv

\* However many tabs refresh at once, a session never has two usable tokens
\* (RefreshTokens: IsBlocked and BlockToken are two round trips).
THEOREM OneLiveTokenPerSessionAlways == Spec => []OneLiveTokenPerSession
BY InductiveInvariant, PTL DEF IInv

-----------------------------------------------------------------------------
\* A session without a usable token stays so: the entry that blocks a token
\* outlives it, and a late SET finds it (BlockToken).
THEOREM EndedSessionsStayEndedAlways == Spec => EndedSessionsStayEnded
<1>1. ASSUME IInv, [Next]_vars
      PROVE  [\A s \in issued : LiveOf(s) = {} => LiveOf(s)' = {}]_vars
  <2> USE DEF IInv, TypeOK
  <2> SUFFICES ASSUME NEW s \in issued, LiveOf(s) = {}, NEW j \in Jtis,
                      Live(j)', session'[j] = s
               PROVE  FALSE
    BY DEF LiveOf
  <2>1. TypeOK'
    BY <1>1, TypeStep
  <2>2. ASSUME NEW k \in issued, Live(k)', session[k] = s PROVE FALSE
    <3>1. k \in Jtis /\ exp'[k] = exp[k]
      BY <1>1, TokensKept DEF TokenInv
    <3>2. now < exp[k]
      BY <1>1, <2>2, <3>1, ClockSteps DEF Live
    <3>3. ~Blocked(k)
      BY <1>1, <2>2, <3>1, <3>2, BlocklistSteps DEF Live, Blocked, Block, EntryInv
    <3> QED
      BY <2>2, <3>1, <3>2, <3>3 DEF Live, LiveOf
  <2>3. \A k \in issued : k \in Jtis /\ session'[k] = session[k] /\ exp'[k] = exp[k]
    BY <1>1, TokensKept DEF TokenInv
  <2>4. CASE j \in issued
    BY <2>2, <2>3, <2>4
  <2>5. ASSUME NEW r \in Requests, ~Exists(j), CreateToken(r, j, j, now + Lifetime)
        PROVE  FALSE
    BY <1>1, <2>5 DEF CreateToken, TokenInv
  <2>6. ASSUME NEW r \in Requests, SetBlocked(r), Rotating(r), ~Blocked(cookie[r]),
               j = minted[r]
        PROVE  FALSE
    <3>1. /\ cookie[r] \in issued
          /\ Exists(j) /\ session[j] = session[cookie[r]]
      BY <1>1, <2>6 DEF AwaitInv, MintedInv, Rotating
    <3>2. UNCHANGED <<now, exp, session>>
      BY <2>6 DEF SetBlocked
    <3>3. exp[cookie[r]] = exp[j]
      BY <1>1, <3>1 DEF TokenInv
    <3>4. Live(cookie[r])
      BY <1>1, <2>6, <3>1, <3>2, <3>3 DEF Live
    <3> QED
      BY <1>1, <3>1, <3>2, <3>4 DEF LiveOf, Live
  <2>7. j \in issued'
    BY DEF Live
  <2> QED
    BY <1>1, <2>4, <2>5, <2>6, <2>7, IssuedTokens DEF Rotating
<1> QED
  BY <1>1, InductiveInvariant, PTL DEF Spec, EndedSessionsStayEnded

\* The browser never settles on a token that was used: whoever uses the one it has
\* replaces it or takes it away (BlockToken and the cookies of the answer).
THEOREM NoUsedTokenIsKeptAlways == Spec => []NoUsedTokenIsKept
<1>1. IInv => NoUsedTokenIsKept
  <2> SUFFICES ASSUME IInv, Quiet, ~disturbed, jar # NoToken, now < exp[jar]
               PROVE  LiveOf(session[jar]) = {jar}
    BY DEF NoUsedTokenIsKept
  <2>1. ~Blocked(jar)
    BY DEF IInv, UsedInv, Quiet, Open, Stages
  <2>2. jar \in issued /\ jar \in Jtis
    BY DEF IInv, TypeOK, TokenInv
  <2>3. Live(jar)
    BY <2>1, <2>2 DEF Live
  <2> QED
    BY <2>2, <2>3 DEF IInv, OneLiveTokenPerSession, LiveOf
<1> QED
  BY <1>1, InductiveInvariant, PTL

-----------------------------------------------------------------------------
(* Racing tabs *)

LEMMA InitRacing == Init => RacingInv
<1> SUFFICES ASSUME Init PROVE RacingInv
  OBVIOUS
<1> USE RotationAssumption DEF Init, Open, Stages
<1>1. AloneInv
  BY DEF AloneInv
<1>2. BrowserInv /\ RefreshesInv
  BY DEF BrowserInv, RefreshesInv, OfTheSession, Granted
<1>3. KeptInv
  BY DEF KeptInv, Granted, Live, Blocked
<1> QED
  BY <1>1, <1>2, <1>3 DEF RacingInv

\* Nobody forgets that a request was lost or mixed with others.
LEMMA StaysClean ==
  ASSUME IInv, [Next]_vars, ~disturbed', ~mixed'
  PROVE  ~disturbed /\ ~mixed
BY DEF IInv, TypeOK, Next, RequestStep, vars, Login, Begin, Become, CallRefresh, SendRefresh, SendLogout,
   VerifyRefresh, VerifyLogout, IsBlocked, Mint, SetBlocked, RedisFails, Deliver, PageLogsOut, PageIgnores, Lose,
   Expire, Tick

\* While none was mixed, a request begins as one of several refreshes, or alone.
LEMMA BeginsAlone ==
  ASSUME IInv, NEW r \in Requests, NEW k, Begin(r, k), ~mixed'
  PROVE  \A q \in Requests : Open(q) => k = "refresh" /\ kind[q] = "refresh" /\ q # r
BY DEF IInv, TypeOK, Begin, Become, Open, Stages

\* A request that is not a refresh is alone, and a login that was answered has a
\* token nobody else knows.
LEMMA AloneStep ==
  ASSUME IInv, TypeOK', AloneInv, [Next]_vars, ~disturbed', ~mixed'
  PROVE  AloneInv'
<1> USE DEF IInv, TypeOK, Goto, Reply, Open, Stages, tokens, browser, AloneInv, Blocked
<1>a. ~disturbed /\ ~mixed
  BY StaysClean
<1>1. ASSUME NEW r \in Requests, Login(r) PROVE AloneInv'
  <2>1. \A q \in Requests : ~Open(q)
    BY <1>1, BeginsAlone DEF Login
  <2>2. PICK j \in Jtis : CreateToken(r, j, j, now + Lifetime) /\ issued' = issued \cup {j}
    BY <1>1 DEF Login
  <2>3. minted'[r] = j /\ session'[j] = j /\ ~Blocked(j)'
    BY <1>1, <2>2 DEF Login, CreateToken, TokenInv, EntryInv
  <2>4. pc' = [pc EXCEPT ![r] = "reply"] /\ answer'[r] = "grant" /\ kind'[r] = "login"
    BY <1>1 DEF Login, Begin, Become
  <2> QED
    BY <2>1, <2>2, <2>3, <2>4
<1>2. ASSUME NEW r \in Requests, CallRefresh(r) PROVE AloneInv'
  <2>1. \A q \in Requests : Open(q) => "refresh" = "refresh" /\ kind[q] = "refresh" /\ q # r
    BY <1>2, BeginsAlone DEF CallRefresh
  <2> QED
    BY <1>2, <1>a, <2>1 DEF CallRefresh, Begin, Become
<1>3. ASSUME NEW r \in Requests, SendRefresh(r) PROVE AloneInv'
  BY <1>3, <1>a DEF SendRefresh
<1>4. ASSUME NEW r \in Requests, SendLogout(r) PROVE AloneInv'
  <2>1. \A q \in Requests : Open(q) => "logout" = "refresh" /\ kind[q] = "refresh" /\ q # r
    BY <1>4, BeginsAlone DEF SendLogout
  <2> QED
    BY <1>4, <1>a, <2>1 DEF SendLogout, Begin, Become
<1>5. ASSUME NEW r \in Requests, VerifyRefresh(r) PROVE AloneInv'
  BY <1>5, <1>a DEF VerifyRefresh
<1>6. ASSUME NEW r \in Requests, VerifyLogout(r) PROVE AloneInv'
  BY <1>6, <1>a DEF VerifyLogout
<1>7. ASSUME NEW r \in Requests, IsBlocked(r) PROVE AloneInv'
  BY <1>7, <1>a DEF IsBlocked
<1>8. ASSUME NEW r \in Requests, Mint(r) PROVE AloneInv'
  BY <1>8, <1>a DEF Mint, CreateToken
<1>9. ASSUME NEW r \in Requests, SetBlocked(r) PROVE AloneInv'
  BY <1>9, <1>a DEF SetBlocked, Block
<1>10. ASSUME NEW r \in Requests, RedisFails(r) PROVE AloneInv'
  BY <1>10, <1>a DEF RedisFails, Block
<1>11. ASSUME NEW r \in Requests, Deliver(r) PROVE AloneInv'
  BY <1>11, <1>a DEF Deliver
<1>12. ASSUME NEW r \in Requests, PageIgnores(r) \/ Lose(r) PROVE AloneInv'
  BY <1>12, <1>a DEF PageIgnores, Lose
<1>13. ASSUME NEW j \in Jtis, Expire(j) PROVE AloneInv'
  BY <1>13, <1>a DEF Expire
<1>14. CASE Tick
  BY <1>14, <1>a DEF Tick
<1>15. CASE UNCHANGED vars
  BY <1>15, <1>a DEF vars
<1>16. ASSUME NEW r \in Requests, PageLogsOut(r) PROVE AloneInv'
  <2>1. \A q \in Requests \ {r} : ~Open(q)
    BY <1>16 DEF PageLogsOut, Become
  <2> QED
    BY <1>16, <1>a, <2>1 DEF PageLogsOut, Become
<1> QED
  BY <1>1, <1>2, <1>3, <1>4, <1>5, <1>6, <1>7, <1>8, <1>9, <1>10, <1>11, <1>12, <1>13, <1>14,
     <1>15, <1>16 DEF Next, RequestStep

\* The cookies are those of the last login.
LEMMA BrowserStep ==
  ASSUME IInv, AloneInv, BrowserInv, RefreshesInv, [Next]_vars, ~disturbed', ~mixed'
  PROVE  BrowserInv'
<1> USE DEF IInv, TypeOK, BrowserInv
<1>a. ~disturbed /\ ~mixed
  BY StaysClean
<1>b. \A j \in issued : j \in Jtis /\ session'[j] = session[j] /\ exp'[j] = exp[j]
  BY TokensKept DEF TokenInv
<1>c. now' \in Int /\ now' >= now /\ issued \subseteq issued'
  BY ClockSteps, IssuedTokens
<1>1. CASE UNCHANGED browser
  <2>1. jar \in Jtis \cup {NoToken} /\ (jar # NoToken => jar \in issued)
    BY DEF TokenInv
  <2>2. signedIn # NoToken => now \in Int /\ exp[signedIn] \in Int
    BY <1>b
  <2> QED
    BY <1>1, <1>b, <1>c, <2>1, <2>2 DEF browser
<1>2. ASSUME NEW r \in Requests, Deliver(r) PROVE BrowserInv'
  <2> USE <1>2 DEF Deliver, tokens
  <2>1. Open(r) /\ pc[r] = "reply"
    BY DEF Open, Stages
  <2>2. kind[r] \in {"login", "refresh", "logout"}
    BY <2>1 DEF AloneInv
  <2>3. CASE kind[r] = "login"
    <3>1. minted[r] \in issued /\ session[minted[r]] = minted[r] /\ answer[r] = "grant"
      BY <2>1, <2>3 DEF AloneInv
    <3> QED
      BY <1>b, <2>3, <3>1, RotationAssumption
  <2>4. CASE kind[r] = "logout"
    <3>1. answer[r] \in {"keep", "refused", "clear"}
      BY <2>1, <2>4 DEF AloneInv
    <3> QED
      BY <1>b, <2>4, <3>1
  <2>5. CASE kind[r] = "refresh"
    <3>1. signedIn' = signedIn
      BY <2>5
    <3>2. CASE answer[r] = "grant"
      BY <2>1, <2>5, <3>1, <3>2, RotationAssumption DEF RefreshesInv, OfTheSession, Granted, AwaitInv
    <3>3. CASE answer[r] = "clear"
      BY <2>1, <2>5, <3>1, <3>3 DEF RefreshesInv, OfTheSession
    <3>4. CASE answer[r] \in {"keep", "refused"}
      BY <2>5, <3>1, <3>4
    <3> QED
      BY <3>2, <3>3, <3>4
  <2> QED
    BY <2>2, <2>3, <2>4, <2>5
<1>3. (\A r \in Requests : ~Deliver(r)) => UNCHANGED browser
  BY DEF Next, RequestStep, vars, browser, Login, CallRefresh, SendRefresh, SendLogout,
     VerifyRefresh, VerifyLogout, IsBlocked, Mint, SetBlocked, RedisFails, PageLogsOut, PageIgnores, Lose, Expire, Tick
<1> QED
  BY <1>1, <1>2, <1>3

\* What a request that acts knows of the session of its browser.
LEMMA ActorOfTheSession ==
  ASSUME IInv, TypeOK', AloneInv, BrowserInv, RefreshesInv, NEW r \in Requests, RequestStep(r),
         ~disturbed, ~mixed, ~disturbed', ~mixed'
  PROVE  OfTheSession(r)'
<1> USE DEF IInv, TypeOK, Goto, Reply, Open, Stages, tokens, browser, OfTheSession, Granted
<1>a. \A j \in issued : j \in Jtis /\ session'[j] = session[j] /\ exp'[j] = exp[j]
  BY TokensKept DEF TokenInv, Next
<1>b. OfTheSession(r)
  BY DEF RefreshesInv
<1>1. CASE Login(r)
  BY <1>1 DEF Login, Begin, Become
<1>2. CASE CallRefresh(r)
  <2>1. jar # NoToken => jar \in issued /\ session[jar] = signedIn
    BY <1>2 DEF BrowserInv, TokenInv
  <2> QED
    BY <1>2, <2>1 DEF CallRefresh, Begin, Become
<1>3. CASE SendRefresh(r)
  <2>1. jar # NoToken => session[jar] = signedIn
    BY DEF BrowserInv
  <2> QED
    BY <1>3, <1>b, <2>1 DEF SendRefresh
<1>4. CASE SendLogout(r) \/ PageLogsOut(r)
  BY <1>4 DEF SendLogout, PageLogsOut, Begin, Become
<1>5. CASE VerifyRefresh(r)
  <2>1. header[r] \in issued /\ session[header[r]] = signedIn
    BY <1>5, <1>b DEF VerifyRefresh
  <2>2. header[r] = cookie[r] => exp[signedIn] = exp[cookie[r]]
    BY <2>1 DEF TokenInv
  <2>3. header[r] = cookie[r] /\ ~Verified(r) => now >= exp[signedIn]
    BY <2>1, <2>2, RotationAssumption, <1>a DEF Verified
  <2>4. /\ UNCHANGED <<now, exp, session, issued, signedIn, kind, header, cookie, minted>>
        /\ \/ pc'[r] = "reply" /\ answer'[r] = "refused"
           \/ pc'[r] = "reply" /\ answer'[r] = "clear" /\ now >= exp[signedIn]
           \/ pc'[r] = "get"
    BY <1>5, <2>3 DEF VerifyRefresh
  <2>5. pc[r] = "arriving" /\ kind[r] = "refresh"
    BY <1>5 DEF VerifyRefresh
  <2> QED
    BY <1>b, <2>4, <2>5
<1>6. CASE VerifyLogout(r)
  BY <1>6 DEF VerifyLogout
<1>7. CASE IsBlocked(r)
  BY <1>7, <1>b DEF IsBlocked
<1>8. CASE Mint(r)
  <2>1. pc'[r] \in {"set", "reply"} /\ (pc'[r] = "reply" => answer'[r] = "keep")
    BY <1>8 DEF Mint
  <2>2. UNCHANGED <<now, issued, signedIn, kind, header, cookie>>
    BY <1>8 DEF Mint
  <2>3. pc[r] = "mint" /\ kind[r] = "refresh" /\ cookie[r] \in issued
    BY <1>8 DEF Mint, AwaitInv
  <2> QED
    BY <1>a, <1>b, <2>1, <2>2, <2>3
<1>9. CASE SetBlocked(r)
  <2>1. kind[r] = "refresh" => session[minted[r]] = session[cookie[r]] /\ cookie[r] \in issued
    BY <1>9 DEF SetBlocked, MintedInv, Rotating, AwaitInv
  <2>2. UNCHANGED <<now, exp, session, signedIn, kind, header, cookie, minted>>
    BY <1>9 DEF SetBlocked
  <2>3. pc[r] = "set" /\ pc'[r] = "reply" /\ (kind[r] = "refresh" => answer'[r] \in {"grant", "refused"})
    BY <1>9 DEF SetBlocked
  <2>4. issued \subseteq issued'
    BY <1>9 DEF SetBlocked
  <2> QED
    BY <1>b, <2>1, <2>2, <2>3, <2>4, RotationAssumption
<1>10. CASE RedisFails(r)
  BY <1>10, <1>b DEF RedisFails
<1>11. CASE Deliver(r) \/ PageIgnores(r) \/ Lose(r)
  BY <1>11, <1>b DEF Deliver, PageIgnores, Lose
<1> QED
  BY <1>1, <1>2, <1>3, <1>4, <1>5, <1>6, <1>7, <1>8, <1>9, <1>10, <1>11 DEF RequestStep

\* The browser signs in or out only when no refresh is on its way.
LEMMA SignedInKept ==
  ASSUME IInv, AloneInv, [Next]_vars, NEW q \in Requests, Open(q), kind[q] = "refresh"
  PROVE  signedIn' = signedIn
<1>1. ASSUME NEW r \in Requests, Deliver(r) PROVE signedIn' = signedIn
  <2>1. Open(r) /\ (r # q => kind[r] = "refresh")
    BY <1>1 DEF Deliver, AloneInv, Open, Stages
  <2> QED
    BY <1>1, <2>1 DEF Deliver
<1> QED
  BY <1>1 DEF Next, RequestStep, vars, browser, Login, CallRefresh, SendRefresh, SendLogout,
     VerifyRefresh, VerifyLogout, IsBlocked, Mint, SetBlocked, RedisFails, PageLogsOut, PageIgnores, Lose, Expire, Tick

\* The refreshes on their way carry tokens of the last login.
LEMMA RefreshesStep ==
  ASSUME IInv, TypeOK', AloneInv, BrowserInv, RefreshesInv, [Next]_vars, ~disturbed', ~mixed'
  PROVE  RefreshesInv'
<1> USE DEF IInv, TypeOK
<1>a. ~disturbed /\ ~mixed
  BY StaysClean
<1>b. \A j \in issued : j \in Jtis /\ session'[j] = session[j] /\ exp'[j] = exp[j]
  BY TokensKept DEF TokenInv
<1>c. now' \in Int /\ now' >= now /\ issued \subseteq issued'
  BY ClockSteps, IssuedTokens
<1>1. ASSUME NEW q \in Requests,
             pc'[q] = pc[q] /\ kind'[q] = kind[q] /\ header'[q] = header[q],
             cookie'[q] = cookie[q] /\ minted'[q] = minted[q] /\ answer'[q] = answer[q]
      PROVE  OfTheSession(q)'
  <2> SUFFICES ASSUME Open(q), pc[q] # "refused", kind[q] = "refresh" PROVE OfTheSession(q)'
    BY <1>1 DEF OfTheSession, Open
  <2>1. signedIn' = signedIn
    BY SignedInKept
  <2>2. OfTheSession(q)
    BY DEF RefreshesInv
  <2>3. header[q] \in issued /\ session[header[q]] = signedIn
    BY <2>2 DEF OfTheSession
  <2>4. signedIn \in issued
    BY <2>3, <1>b, RotationAssumption DEF BrowserInv, TokenInv
  <2>5. exp'[signedIn] = exp[signedIn] /\ exp[signedIn] \in Int
    BY <2>4, <1>b
  <2>6. cookie[q] \in issued \cup {NoToken}
    BY DEF TokenInv
  <2>7. Granted(q) => minted[q] \in issued
    BY DEF Granted, AwaitInv
  <2> QED
    BY <1>1, <1>b, <1>c, <2>1, <2>2, <2>5, <2>6, <2>7 DEF OfTheSession, Granted
<1>2. ASSUME NEW r \in Requests, RequestStep(r), NEW q \in Requests \ {r}
      PROVE  OfTheSession(q)'
  BY <1>1, <1>2 DEF RequestStep, Goto, Reply, Begin, Become, CreateToken, Login, CallRefresh, SendRefresh,
     SendLogout, VerifyRefresh, VerifyLogout, IsBlocked, Mint, SetBlocked, RedisFails, Deliver, PageLogsOut, PageIgnores, Lose
<1>3. ASSUME NEW j \in Jtis, Expire(j) PROVE RefreshesInv'
  BY <1>1, <1>3 DEF Expire, RefreshesInv
<1>4. CASE Tick \/ UNCHANGED vars
  BY <1>1, <1>4 DEF Tick, vars, RefreshesInv
<1> QED
  BY <1>a, <1>2, <1>3, <1>4, ActorOfTheSession DEF Next, RefreshesInv

\* What is unaffected by most steps: the tokens that live, the cookies, and the
\* answers that are on their way.
LEMMA KeptAsLongAs ==
  ASSUME IInv, TypeOK', BrowserInv, RefreshesInv, KeptInv, [Next]_vars,
         signedIn' = signedIn, jar' = jar,
         \A j \in issued : Live(j) /\ now' < exp[j] => Live(j)',
         \A q \in Requests :
           /\ Granted(q)' = Granted(q)
           /\ Granted(q) => minted'[q] = minted[q]
           /\ pc[q] = "reply" /\ kind[q] = "logout" /\ answer[q] = "clear" =>
                pc'[q] = "reply" /\ kind'[q] = "logout" /\ answer'[q] = "clear"
  PROVE  KeptInv'
<1> USE DEF IInv, TypeOK
<1>a. \A j \in issued : j \in Jtis /\ session'[j] = session[j] /\ exp'[j] = exp[j] /\ exp[j] \in Int
  BY TokensKept DEF TokenInv
<1>b. now' \in Int /\ now' >= now /\ issued \subseteq issued'
  BY ClockSteps, IssuedTokens
<1> SUFFICES ASSUME signedIn # NoToken, now' < exp'[signedIn]
             PROVE  \/ Live(jar)' /\ \A r \in Requests : ~Granted(r)'
                    \/ \E r \in Requests : HandedOver(r)'
                    \/ \E r \in Requests : pc'[r] = "reply" /\ kind'[r] = "logout" /\ answer'[r] = "clear"
  BY DEF KeptInv
<1>c. signedIn \in issued /\ now' < exp[signedIn] /\ now < exp[signedIn]
  BY <1>a, <1>b DEF BrowserInv
<1>1. CASE Live(jar) /\ \A r \in Requests : ~Granted(r)
  <2>1. jar \in issued
    BY <1>1 DEF Live
  <2>2. session[jar] = signedIn
    BY <1>a, <2>1, RotationAssumption DEF BrowserInv
  <2>3. exp[jar] = exp[signedIn]
    BY <1>a, <2>1, <2>2 DEF TokenInv
  <2>4. Live(jar)'
    BY <1>1, <1>c, <2>1, <2>3 DEF Live
  <2> QED
    BY <1>1, <2>4
<1>2. ASSUME NEW r \in Requests, HandedOver(r) PROVE HandedOver(r)'
  <2>1. Granted(r) /\ Live(minted[r])
    BY <1>2 DEF HandedOver
  <2>2. minted[r] \in issued /\ session[minted[r]] = signedIn
    BY <2>1 DEF Live, RefreshesInv, OfTheSession, Granted, Open, Stages
  <2>3. exp[minted[r]] = exp[signedIn]
    BY <1>a, <2>2 DEF TokenInv
  <2>4. Live(minted[r])'
    BY <1>c, <2>1, <2>2, <2>3 DEF Live
  <2>5. Granted(r)' /\ minted'[r] = minted[r]
    BY <2>1
  <2>6. \A q \in Requests : Granted(q)' => q = r
    BY <1>2 DEF HandedOver
  <2> QED
    BY <2>4, <2>5, <2>6 DEF HandedOver
<1>3. ASSUME NEW r \in Requests, pc[r] = "reply", kind[r] = "logout", answer[r] = "clear"
      PROVE  pc'[r] = "reply" /\ kind'[r] = "logout" /\ answer'[r] = "clear"
  BY <1>3
<1> QED
  BY <1>1, <1>2, <1>3, <1>c DEF KeptInv

\* The SET that blocks the token of the browser puts its successor on the way.
LEMMA KeptBySet ==
  ASSUME IInv, IInv', AloneInv, BrowserInv, RefreshesInv, KeptInv, NEW r \in Requests, SetBlocked(r),
         kind[r] = "refresh", ~Blocked(cookie[r])
  PROVE  KeptInv'
<1> USE DEF IInv, TypeOK
<1> SUFFICES ASSUME signedIn # NoToken, now < exp[signedIn] PROVE HandedOver(r)'
  BY DEF KeptInv, SetBlocked, browser
<1>1. /\ UNCHANGED <<now, exp, session, jar, signedIn, kind, cookie, minted>>
      /\ pc' = [pc EXCEPT ![r] = "reply"] /\ answer' = [answer EXCEPT ![r] = "grant"]
      /\ Block(r) /\ issued' = issued \cup {minted[r]}
  BY DEF SetBlocked, browser, Goto, Reply
<1>2. Open(r) /\ pc[r] = "set"
  BY DEF SetBlocked, Open, Stages
<1>3. PICK old \in issued : old = cookie[r]
  BY <1>2 DEF AwaitInv
<1>4. old \in Jtis /\ session[old] = signedIn /\ exp[old] = exp[signedIn]
  BY <1>2, <1>3, RotationAssumption DEF RefreshesInv, OfTheSession, TokenInv
<1>5. Live(old)
  BY <1>3, <1>4 DEF Live
<1>6. PICK new \in Jtis \ issued : /\ new = minted[r] /\ Exists(new)
                                   /\ session[new] = session[old]
  BY <1>2, <1>3 DEF MintedInv, Rotating
<1>7. exp[new] = exp[signedIn]
  BY <1>4, <1>6 DEF TokenInv
<1>8. \A q \in Requests : ~(pc[q] = "reply" /\ kind[q] = "logout" /\ answer[q] = "clear")
  BY <1>2 DEF AloneInv, Open, Stages
<1>9. \A q \in Requests : ~HandedOver(q)
  <2> SUFFICES ASSUME NEW q \in Requests, HandedOver(q) PROVE FALSE
    OBVIOUS
  <2>1. Granted(q) /\ Live(minted[q]) /\ minted[q] # old
    BY <1>2, <1>3 DEF HandedOver, Granted, OnItsWayInv, Handing
  <2>2. session[minted[q]] = signedIn /\ minted[q] \in Jtis
    BY <2>1 DEF Live, RefreshesInv, OfTheSession, Granted, Open, Stages
  <2> QED
    BY <1>4, <1>5, <2>1, <2>2 DEF OneLiveTokenPerSession
<1>10. Live(jar) /\ \A q \in Requests : ~Granted(q)
  BY <1>8, <1>9 DEF KeptInv
<1>11. Live(new)'
  <2>1. ~Blocked(new) /\ new # old
    BY <1>3, <1>6 DEF EntryInv
  <2>2. blockedUntil'[new] = blockedUntil[new]
    BY <1>1, <1>3, <1>6, <2>1 DEF Block
  <2> QED
    BY <1>1, <1>6, <1>7, <2>1, <2>2 DEF Live, Blocked
<1>12. Granted(r)' /\ \A q \in Requests : Granted(q)' => q = r
  BY <1>1, <1>10 DEF Granted
<1> QED
  BY <1>1, <1>6, <1>11, <1>12 DEF HandedOver

\* An answer that arrives brings the live token, leaves the cookies, or clears them
\* when the login has expired or ends.
LEMMA KeptByAnswer ==
  ASSUME IInv, IInv', AloneInv, BrowserInv, RefreshesInv, KeptInv, NEW r \in Requests, Deliver(r)
  PROVE  KeptInv'
<1> USE DEF IInv, TypeOK
<1>1. /\ UNCHANGED <<now, tokens, blockedUntil, kind, cookie, minted, answer>>
      /\ pc' \in {[pc EXCEPT ![r] = "done"], [pc EXCEPT ![r] = "refused"]} /\ pc[r] = "reply"
  BY DEF Deliver, Goto
<1>2. Open(r) /\ kind[r] \in {"login", "refresh", "logout"}
  BY <1>1 DEF AloneInv, Open, Stages
<1>3. \A j : Live(j)' = Live(j)
  BY <1>1 DEF Live, Blocked, tokens
<1>4. ~Granted(r)' /\ \A q \in Requests \ {r} : Granted(q)' = Granted(q)
  BY <1>1 DEF Granted
<1>5. CASE kind[r] = "login"
  <2>1. /\ answer[r] = "grant" /\ minted[r] \in issued /\ ~Blocked(minted[r])
        /\ jar' = minted[r] /\ signedIn' = minted[r]
    BY <1>2, <1>5 DEF AloneInv, Deliver
  <2>2. \A q \in Requests : ~Granted(q)'
    BY <1>2, <1>4, <1>5 DEF AloneInv, Granted, Open, Stages
  <2>3. now' < exp'[signedIn'] => Live(jar')
    BY <1>1, <2>1 DEF Live, tokens
  <2>4. now' < exp'[signedIn'] => Live(jar)'
    BY <1>1, <2>3 DEF Live, Blocked, tokens
  <2> QED
    BY <2>2, <2>4 DEF KeptInv
<1>6. CASE kind[r] = "logout" /\ answer[r] = "clear"
  BY <1>6 DEF KeptInv, Deliver
<1>7. CASE kind[r] = "logout" /\ answer[r] # "clear"
  <2>1. jar' = jar /\ signedIn' = signedIn
    BY <1>1, <1>2, <1>7 DEF Deliver, AloneInv
  <2>2. \A q \in Requests \ {r} : ~Open(q)
    BY <1>2, <1>7 DEF AloneInv
  <2>3. \A q \in Requests : ~Granted(q)
    BY <1>7, <2>2 DEF Granted, Open, Stages
  <2>4. \A q \in Requests : ~(pc[q] = "reply" /\ kind[q] = "logout" /\ answer[q] = "clear")
    BY <1>7, <2>2 DEF Open, Stages
  <2> QED
    BY <1>1, <1>3, <1>4, <2>1, <2>3, <2>4 DEF KeptInv, HandedOver, Live, Blocked, tokens
<1>8. CASE kind[r] = "refresh" /\ answer[r] = "clear"
  BY <1>1, <1>2, <1>8 DEF KeptInv, Deliver, RefreshesInv, OfTheSession, tokens
<1>9. CASE kind[r] = "refresh" /\ answer[r] # "clear"
  <2> SUFFICES ASSUME signedIn # NoToken, now < exp[signedIn]
               PROVE  \/ Live(jar)' /\ \A q \in Requests : ~Granted(q)'
                      \/ \E q \in Requests : HandedOver(q)'
    BY <1>1, <1>9 DEF KeptInv, Deliver, tokens
  <2>1. \A q \in Requests : ~(pc[q] = "reply" /\ kind[q] = "logout" /\ answer[q] = "clear")
    BY <1>2, <1>9 DEF AloneInv, Open, Stages
  <2>2. CASE answer[r] = "grant"
    <3>1. Granted(r) /\ jar' = minted[r]
      BY <1>1, <1>9, <2>2 DEF Granted, Deliver
    <3>2. HandedOver(r)
      BY <2>1, <3>1 DEF KeptInv, HandedOver
    <3>3. \A q \in Requests : ~Granted(q)'
      BY <1>4, <3>2 DEF HandedOver
    <3>4. Live(jar)'
      BY <1>1, <3>1, <3>2 DEF HandedOver, Live, Blocked, tokens
    <3> QED
      BY <3>3, <3>4
  <2>3. CASE answer[r] \in {"keep", "refused"}
    <3>1. jar' = jar /\ ~Granted(r)
      BY <2>3 DEF Deliver, Granted
    <3>2. CASE Live(jar) /\ \A q \in Requests : ~Granted(q)
      BY <1>1, <1>4, <3>1, <3>2 DEF Live, Blocked, tokens
    <3>3. ASSUME NEW q \in Requests, HandedOver(q) PROVE HandedOver(q)'
      <4>1. q # r /\ Granted(q)' /\ Live(minted[q])
        BY <1>4, <3>1, <3>3 DEF HandedOver
      <4>2. Live(minted[q])'
        BY <1>1, <4>1 DEF Live, Blocked, tokens
      <4> QED
        BY <1>1, <1>4, <3>1, <3>3, <4>1, <4>2 DEF HandedOver
    <3> QED
      BY <2>1, <3>2, <3>3 DEF KeptInv
  <2> QED
    BY <1>9, <2>2, <2>3
<1> QED
  BY <1>2, <1>5, <1>6, <1>7, <1>8, <1>9

\* The steps that hand nothing over.
LEMMA KeptByOthers ==
  ASSUME IInv, IInv', AloneInv, BrowserInv, RefreshesInv, KeptInv, ~disturbed', ~mixed',
         NEW r \in Requests, RequestStep(r), ~Deliver(r), ~(kind[r] = "refresh" /\ SetBlocked(r))
  PROVE  KeptInv'
<1> USE DEF IInv, TypeOK, Goto, Reply
<1>0. [Next]_vars
  BY DEF Next
<1>a. ~disturbed /\ ~mixed
  BY <1>0, StaysClean
<1>1. CASE Login(r)
  <2>1. \A q \in Requests : ~Open(q)
    BY <1>1, <1>a, BeginsAlone DEF Login
  <2>2. \A q \in Requests : ~Granted(q) /\ ~(pc[q] = "reply" /\ kind[q] = "logout" /\ answer[q] = "clear")
    BY <2>1 DEF Granted, Open, Stages
  <2>3. \A q \in Requests : ~Granted(q)'
    BY <1>1, <2>2 DEF Login, Begin, Become, CreateToken, Granted
  <2>4. \A j \in issued : Live(j) => Live(j)'
    BY <1>0, <1>1, TokensKept DEF Login, TokenInv, Live, Blocked
  <2>5. signedIn' = signedIn /\ jar' = jar
    BY <1>1 DEF Login, browser
  <2>6. \A j \in issued : Live(j) /\ now' < exp[j] => Live(j)'
    BY <2>4
  <2>7. \A q \in Requests : Granted(q)' = Granted(q)
    BY <2>2, <2>3 DEF Granted
  <2>8. \A q \in Requests :
          /\ Granted(q)' = Granted(q)
          /\ Granted(q) => minted'[q] = minted[q]
          /\ pc[q] = "reply" /\ kind[q] = "logout" /\ answer[q] = "clear" =>
               pc'[q] = "reply" /\ kind'[q] = "logout" /\ answer'[q] = "clear"
    BY <2>2, <2>7
  <2> QED
    BY <1>0, <2>5, <2>6, <2>8, KeptAsLongAs
<1>2. CASE \/ CallRefresh(r) \/ SendRefresh(r) \/ SendLogout(r) \/ VerifyRefresh(r) \/ IsBlocked(r)
          \/ PageLogsOut(r) \/ PageIgnores(r)
  <2>1. \A j \in issued : Live(j) => Live(j)'
    BY <1>2 DEF CallRefresh, SendRefresh, SendLogout, VerifyRefresh, IsBlocked,
       PageLogsOut, PageIgnores, tokens, Live, Blocked
  <2>2. \A q \in Requests : Granted(q)' = Granted(q) /\ minted' = minted
    BY <1>2 DEF CallRefresh, SendRefresh, SendLogout, VerifyRefresh, IsBlocked,
       PageLogsOut, PageIgnores, Begin, Become, Granted
  <2>3. \A q \in Requests : pc[q] = "reply" /\ kind[q] = "logout" /\ answer[q] = "clear" =>
          pc'[q] = "reply" /\ kind'[q] = "logout" /\ answer'[q] = "clear"
    BY <1>2 DEF CallRefresh, SendRefresh, SendLogout, VerifyRefresh, IsBlocked,
       PageLogsOut, PageIgnores, Begin, Become
  <2>4. signedIn' = signedIn /\ jar' = jar
    BY <1>2 DEF CallRefresh, SendRefresh, SendLogout, VerifyRefresh, IsBlocked,
       PageLogsOut, PageIgnores, browser
  <2> QED
    BY <1>0, <2>1, <2>2, <2>3, <2>4, KeptAsLongAs
<1>3. CASE VerifyLogout(r) \/ Mint(r) \/ RedisFails(r) \/ (SetBlocked(r) /\ Blocked(cookie[r]))
  <2>1. \A j \in issued : Live(j) => Live(j)'
    <3>1. \A j \in issued : exp'[j] = exp[j] /\ j \in issued'
      BY <1>0, TokensKept, IssuedTokens DEF TokenInv
    <3>2. UNCHANGED <<now, blockedUntil>>
      BY <1>3 DEF VerifyLogout, Mint, RedisFails, SetBlocked
    <3> QED
      BY <3>1, <3>2 DEF Live, Blocked
  <2>2. \A q \in Requests : Granted(q)' = Granted(q) /\ (Granted(q) => minted'[q] = minted[q])
    <3>1. pc[r] \in {"arriving", "mint", "get", "set"}
      BY <1>3 DEF VerifyLogout, Mint, RedisFails, SetBlocked
    <3>2. ~Granted(r)'
      BY <1>3 DEF VerifyLogout, Mint, RedisFails, SetBlocked, Granted
    <3>3. \A q \in Requests \ {r} : Granted(q)' = Granted(q) /\ minted'[q] = minted[q]
      BY <1>3 DEF VerifyLogout, Mint, CreateToken, RedisFails, SetBlocked, Granted
    <3> QED
      BY <3>1, <3>2, <3>3 DEF Granted
  <2>3. \A q \in Requests : pc[q] = "reply" /\ kind[q] = "logout" /\ answer[q] = "clear" =>
          pc'[q] = "reply" /\ kind'[q] = "logout" /\ answer'[q] = "clear"
    BY <1>3 DEF VerifyLogout, Mint, RedisFails, SetBlocked
  <2>4. signedIn' = signedIn /\ jar' = jar
    BY <1>3 DEF VerifyLogout, Mint, RedisFails, SetBlocked, browser
  <2> QED
    BY <1>0, <2>1, <2>2, <2>3, <2>4, KeptAsLongAs
<1>4. CASE SetBlocked(r) /\ kind[r] # "refresh"
  <2>1. Open(r) /\ pc[r] = "set"
    BY <1>4 DEF SetBlocked, Open, Stages
  <2>2. kind[r] = "logout"
    BY <1>4, <2>1 DEF AloneInv
  <2>3. pc'[r] = "reply" /\ kind'[r] = "logout" /\ answer'[r] = "clear"
    BY <1>4, <2>2 DEF SetBlocked
  <2> QED
    BY <2>3 DEF KeptInv
<1>5. ~Lose(r)
  BY DEF Lose
<1> QED
  BY <1>1, <1>2, <1>3, <1>4, <1>5 DEF RequestStep

\* The live token of the session is in the browser or about to be.
LEMMA KeptStep ==
  ASSUME IInv, IInv', AloneInv, BrowserInv, RefreshesInv, KeptInv, [Next]_vars, ~disturbed', ~mixed'
  PROVE  KeptInv'
<1> USE DEF IInv, TypeOK
<1>1. ASSUME NEW r \in Requests, RequestStep(r) PROVE KeptInv'
  <2>1. CASE Deliver(r)
    BY <2>1, KeptByAnswer
  <2>2. CASE kind[r] = "refresh" /\ SetBlocked(r) /\ ~Blocked(cookie[r])
    BY <2>2, KeptBySet
  <2>3. CASE kind[r] = "refresh" /\ SetBlocked(r) /\ Blocked(cookie[r])
    <3>1. /\ UNCHANGED <<now, exp, session, issued, blockedUntil, browser, kind, cookie, minted>>
          /\ pc[r] = "set" /\ pc' = [pc EXCEPT ![r] = "reply"]
          /\ answer' = [answer EXCEPT ![r] = "refused"]
      BY <2>3 DEF SetBlocked, Goto, Reply
    <3>2. \A j \in issued : Live(j) => Live(j)'
      BY <3>1 DEF Live, Blocked
    <3>3. \A q \in Requests : Granted(q)' = Granted(q)
      BY <3>1 DEF Granted
    <3> QED
      BY <3>1, <3>2, <3>3, KeptAsLongAs DEF browser
  <2> QED
    BY <1>1, <2>1, <2>2, <2>3, KeptByOthers
<1>2. ASSUME NEW j \in Jtis, Expire(j) PROVE KeptInv'
  <2>1. \A k \in issued : Live(k) => Live(k)'
    BY <1>2 DEF Expire, tokens, TokenInv, Live, Blocked
  <2> QED
    BY <1>2, <2>1, KeptAsLongAs DEF Expire, browser, Granted, Open
<1>3. CASE Tick \/ UNCHANGED vars
  <2>1. \A k \in issued : Live(k) /\ now' < exp[k] => Live(k)'
    BY <1>3 DEF Tick, vars, tokens, Live, Blocked
  <2> QED
    BY <1>3, <2>1, KeptAsLongAs DEF Tick, vars, browser, Granted, Open
<1> QED
  BY <1>1, <1>2, <1>3 DEF Next

\* A refresh that was refused for a token used meanwhile has a winner: until the
\* logout of its page begins, the live token of the session is in the browser or on
\* its way there (refresh_controller.ts, dashboard.tsx).
THEOREM RacingTabsHaveAWinnerAlways == Spec => []RacingTabsHaveAWinner
<1>1. ASSUME IInv, IInv', RacingInv, [Next]_vars PROVE RacingInv'
  <2> SUFFICES ASSUME ~disturbed', ~mixed'
               PROVE  AloneInv' /\ BrowserInv' /\ RefreshesInv' /\ KeptInv'
    BY DEF RacingInv
  <2>1. TypeOK'
    BY <1>1 DEF IInv
  <2>2. AloneInv /\ BrowserInv /\ RefreshesInv /\ KeptInv
    BY <1>1, StaysClean DEF RacingInv
  <2> QED
    BY <1>1, <2>1, <2>2, AloneStep, BrowserStep, RefreshesStep, KeptStep
<1>2. IInv /\ RacingInv => RacingTabsHaveAWinner
  <2> SUFFICES ASSUME IInv, RacingInv, ~disturbed, ~mixed,
                      signedIn # NoToken, now < exp[signedIn],
                      \A r \in Requests : Open(r) => kind[r] = "refresh"
               PROVE  \/ jar # NoToken /\ LiveOf(signedIn) = {jar}
                      \/ \E r \in Requests : Granted(r) /\ LiveOf(signedIn) = {minted[r]}
    BY DEF RacingTabsHaveAWinner
  <2>1. \A j \in Jtis : Live(j) /\ session[j] = signedIn => LiveOf(signedIn) = {j}
    BY DEF IInv, OneLiveTokenPerSession, LiveOf
  <2>2. CASE Live(jar)
    <3>1. jar \in Jtis /\ jar # NoToken
      BY <2>2, RotationAssumption DEF Live, IInv, TypeOK
    <3> QED
      BY <2>1, <2>2, <3>1 DEF RacingInv, BrowserInv
  <2>3. ASSUME NEW r \in Requests, HandedOver(r)
        PROVE  Granted(r) /\ LiveOf(signedIn) = {minted[r]}
    <3>1. Granted(r) /\ Live(minted[r])
      BY <2>3 DEF HandedOver
    <3>2. minted[r] \in Jtis
      BY <3>1 DEF Live, IInv, TypeOK
    <3>3. session[minted[r]] = signedIn
      BY <3>1 DEF RacingInv, RefreshesInv, OfTheSession, Granted, Open, Stages
    <3> QED
      BY <2>1, <3>1, <3>2, <3>3
  <2>4. \A r \in Requests : ~(pc[r] = "reply" /\ kind[r] = "logout" /\ answer[r] = "clear")
    BY DEF Open, Stages
  <2> QED
    BY <2>2, <2>3, <2>4 DEF RacingInv, KeptInv
<1> QED
  BY <1>1, <1>2, InitRacing, InductiveInvariant, PTL DEF Spec

=============================================================================
