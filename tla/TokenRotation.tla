--------------------------- MODULE TokenRotation ---------------------------
(***************************************************************************)
(* The refresh tokens of one user: class TokenBundle and the login,        *)
(* refresh and logout controllers of services/authentication, the Redis    *)
(* blocklist they share, and the browser whose tabs send the requests      *)
(* (app/src/helpers/client_request.ts: one refresh at a time in each tab,  *)
(* one cookie jar for all of them).  A page whose refresh is refused with  *)
(* 401 logs out (app/src/pages/dashboard/dashboard.tsx), with the cookies  *)
(* the browser has by then.                                                *)
(*                                                                         *)
(* A refresh blocks the token it was sent with and answers with a new one  *)
(* of the same session.  Verification, the GET of the blocklist, the       *)
(* creation of the new token and the SET NX of the blocklist are separated *)
(* by awaits, where other requests run and time goes by.                   *)
(*                                                                         *)
(* The refresh token and the xsrf token made for it are always set and     *)
(* cleared together, so a pair is represented by its jti.  Time is in      *)
(* seconds, rounded down as the code does.                                 *)
(***************************************************************************)
EXTENDS Integers, FiniteSets

CONSTANTS Requests,   \* HTTP requests; each one is made once
          Jtis,       \* token ids that randomUUID can return
          NoToken,    \* the absence of a token
          Lifetime,   \* WEEK_IN_SECONDS
          MaxNow      \* bound: the last second

ASSUME RotationAssumption ==
  /\ NoToken \notin Jtis
  /\ Lifetime \in Nat \ {0}
  /\ MaxNow \in Nat

VARIABLES
  now,            \* the clock
  exp,            \* exp claim of each token, 0 while it does not exist
  session,        \* the login each token descends from, named after its token
  issued,         \* history: tokens handed out in an answer
  blockedUntil,   \* Redis: when the blocklist entry of a token expires, or 0
  jar,            \* the cookies of the browser
  signedIn,       \* history: the session of the last login, unless logged out
  kind,           \* what each request is: "login", "refresh", "logout"
  pc,             \* where it is
  header,         \* the xsrf token it was given as a header
  cookie,         \* the tokens it carries as cookies
  ttl,            \* the time to live of the blocklist entry it asks for
  minted,         \* the token it has created
  answer,         \* its answer: "grant" brings new cookies, "clear" deletes them,
                  \* "refused" is a 401 that leaves them, "keep" any other error
  disturbed,      \* history: a request or an answer was lost
  mixed           \* history: a login or logout overlapped another request

tokens == <<exp, session, issued>>
browser == <<jar, signedIn>>
vars == <<now, exp, session, issued, blockedUntil, jar, signedIn, kind, pc,
          header, cookie, ttl, minted, answer, disturbed, mixed>>

-----------------------------------------------------------------------------
Exists(j) == exp[j] # 0
Blocked(j) == blockedUntil[j] # 0

\* A token that a refresh would still be granted for.
Live(j) == j \in issued /\ ~Blocked(j) /\ now < exp[j]
LiveOf(s) == {j \in Jtis : Live(j) /\ session[j] = s}

Stages == {"called", "arriving", "get", "mint", "set", "reply", "refused"}
Open(r) == pc[r] \in Stages
Quiet == \A r \in Requests : ~Open(r)

\* The answer of a refresh that was granted is on its way to the browser.
Granted(r) == pc[r] = "reply" /\ kind[r] = "refresh" /\ answer[r] = "grant"

TypeOK ==
  /\ now \in 0..MaxNow
  /\ exp \in [Jtis -> Nat]
  /\ session \in [Jtis -> Jtis \cup {NoToken}]
  /\ issued \subseteq Jtis
  /\ blockedUntil \in [Jtis -> Nat]
  /\ jar \in Jtis \cup {NoToken}
  /\ signedIn \in Jtis \cup {NoToken}
  /\ kind \in [Requests -> {"none", "login", "refresh", "logout"}]
  /\ pc \in [Requests -> Stages \cup {"idle", "done"}]
  /\ header \in [Requests -> Jtis \cup {NoToken}]
  /\ cookie \in [Requests -> Jtis \cup {NoToken}]
  /\ ttl \in [Requests -> Nat]
  /\ minted \in [Requests -> Jtis \cup {NoToken}]
  /\ answer \in [Requests -> {"keep", "refused", "clear", "grant"}]
  /\ disturbed \in BOOLEAN
  /\ mixed \in BOOLEAN

\* Nobody is signed in, or somebody has just signed in.
Init ==
  /\ now = 0
  /\ jar \in Jtis \cup {NoToken}
  /\ signedIn = jar
  /\ issued = {jar} \ {NoToken}
  /\ exp = [j \in Jtis |-> IF j = jar THEN Lifetime ELSE 0]
  /\ session = [j \in Jtis |-> IF j = jar THEN j ELSE NoToken]
  /\ blockedUntil = [j \in Jtis |-> 0]
  /\ kind = [r \in Requests |-> "none"]
  /\ pc = [r \in Requests |-> "idle"]
  /\ header = [r \in Requests |-> NoToken]
  /\ cookie = [r \in Requests |-> NoToken]
  /\ ttl = [r \in Requests |-> 0]
  /\ minted = [r \in Requests |-> NoToken]
  /\ answer = [r \in Requests |-> "keep"]
  /\ disturbed = FALSE
  /\ mixed = FALSE

-----------------------------------------------------------------------------
Goto(r, stage) == pc' = [pc EXCEPT ![r] = stage]
Reply(r, what) == Goto(r, "reply") /\ answer' = [answer EXCEPT ![r] = what]

\* Request r becomes a request of kind k.
Become(r, k) ==
  /\ kind' = [kind EXCEPT ![r] = k]
  /\ mixed' = (mixed \/ \E q \in Requests \ {r} :
                            Open(q) /\ (k # "refresh" \/ kind[q] # "refresh"))

Begin(r, k) == pc[r] = "idle" /\ Become(r, k)

\* createRefreshToken: a new token j of session s.
CreateToken(r, j, s, expiry) ==
  /\ ~Exists(j)
  /\ exp' = [exp EXCEPT ![j] = expiry]
  /\ session' = [session EXCEPT ![j] = s]
  /\ minted' = [minted EXCEPT ![r] = j]

\* LoginController with the right password: a session of its own.
Login(r) ==
  /\ Begin(r, "login")
  /\ \E j \in Jtis :
       /\ CreateToken(r, j, j, now + Lifetime)
       /\ issued' = issued \cup {j}
  /\ Reply(r, "grant")
  /\ UNCHANGED <<now, blockedUntil, browser, header, cookie, ttl, disturbed>>

\* AuthClientRequest.refresh reads the xsrf cookie to send it as a header; without
\* one it refuses by itself.
CallRefresh(r) ==
  /\ Begin(r, "refresh")
  /\ Goto(r, IF jar = NoToken THEN "refused" ELSE "called")
  /\ header' = [header EXCEPT ![r] = jar]
  /\ UNCHANGED <<now, tokens, blockedUntil, browser, cookie, ttl, minted, answer, disturbed>>

\* The browser sends the request with the cookies it has by then.
SendRefresh(r) ==
  /\ pc[r] = "called"
  /\ Goto(r, "arriving")
  /\ cookie' = [cookie EXCEPT ![r] = jar]
  /\ UNCHANGED <<now, tokens, blockedUntil, browser, kind, header, ttl, minted, answer,
                 disturbed, mixed>>

\* A logout the user asks for, or the end of DeleteUserController, which treats the
\* token alike.
SendLogout(r) ==
  /\ Begin(r, "logout")
  /\ Goto(r, "arriving")
  /\ cookie' = [cookie EXCEPT ![r] = jar]
  /\ UNCHANGED <<now, tokens, blockedUntil, browser, header, ttl, minted, answer, disturbed>>

\* VerifyRefreshToken: the token that came as a cookie has not expired.
Verified(r) == cookie[r] # NoToken /\ now < exp[cookie[r]]

\* RefreshController up to RefreshTokens; VerifyXsrfToken agrees with the pair.
VerifyRefresh(r) ==
  /\ pc[r] = "arriving"
  /\ kind[r] = "refresh"
  /\ \/ header[r] # cookie[r] /\ Reply(r, "refused")
     \/ header[r] = cookie[r] /\ ~Verified(r) /\ Reply(r, "clear")
     \/ header[r] = cookie[r] /\ Verified(r) /\ Goto(r, "get") /\ UNCHANGED answer
  /\ UNCHANGED <<now, tokens, blockedUntil, browser, kind, header, cookie, ttl, minted,
                 disturbed, mixed>>

\* Plausible fault: the entry is to expire one second early.
TtlOneShort(j) == exp[j] - now - 1

\* BlockToken: the entry is to live as long as the token.
Ttl(j) == exp[j] - now

\* LogoutController up to the SET of BlockToken.
VerifyLogout(r) ==
  /\ pc[r] = "arriving"
  /\ kind[r] = "logout"
  /\ \/ ~Verified(r) /\ Reply(r, "clear") /\ UNCHANGED ttl
     \/ /\ Verified(r)
        /\ ttl' = [ttl EXCEPT ![r] = Ttl(cookie[r])]
        /\ Goto(r, "set")
        /\ UNCHANGED answer
  /\ UNCHANGED <<now, tokens, blockedUntil, browser, kind, header, cookie, minted,
                 disturbed, mixed>>

\* Plausible fault: a blocked token makes the server clear the cookies.
BlockedClearsCookies(r) ==
  /\ pc[r] = "get"
  /\ \/ Blocked(cookie[r]) /\ Reply(r, "clear")
     \/ ~Blocked(cookie[r]) /\ Goto(r, "mint") /\ UNCHANGED answer
  /\ UNCHANGED <<now, tokens, blockedUntil, browser, kind, header, cookie, ttl, minted,
                 disturbed, mixed>>

\* Redis executes the GET of IsBlocked.
IsBlocked(r) ==
  /\ pc[r] = "get"
  /\ \/ Blocked(cookie[r]) /\ Reply(r, "refused")
     \/ ~Blocked(cookie[r]) /\ Goto(r, "mint") /\ UNCHANGED answer
  /\ UNCHANGED <<now, tokens, blockedUntil, browser, kind, header, cookie, ttl, minted,
                 disturbed, mixed>>

\* The GET is answered: the new token is created, with the expiry of the old one,
\* and BlockToken decides whether the old one can still be blocked.
Mint(r) ==
  /\ pc[r] = "mint"
  /\ \E j \in Jtis : CreateToken(r, j, session[cookie[r]], exp[cookie[r]])
  /\ \/ /\ Ttl(cookie[r]) <= 0
        /\ Reply(r, "keep")
        /\ UNCHANGED ttl
     \/ /\ Ttl(cookie[r]) > 0
        /\ ttl' = [ttl EXCEPT ![r] = Ttl(cookie[r])]
        /\ Goto(r, "set")
        /\ UNCHANGED answer
  /\ UNCHANGED <<now, issued, blockedUntil, browser, kind, header, cookie, disturbed, mixed>>

\* Redis executes SET EX ttl NX.
Block(r) == blockedUntil' = [blockedUntil EXCEPT ![cookie[r]] = now + ttl[r]]

\* Plausible fault: SET without NX succeeds every time.
SetAlways(r) ==
  /\ pc[r] = "set"
  /\ Block(r)
  /\ issued' = IF kind[r] = "refresh" THEN issued \cup {minted[r]} ELSE issued
  /\ Reply(r, IF kind[r] = "refresh" THEN "grant" ELSE "clear")
  /\ UNCHANGED <<now, exp, session, browser, kind, header, cookie, ttl, minted, disturbed, mixed>>

\* Plausible fault: a logout returns once its token is blocked, before ClearCookies.
LogoutForgetsCookies(r) ==
  /\ pc[r] = "set"
  /\ \/ /\ ~Blocked(cookie[r])
        /\ Block(r)
        /\ issued' = IF kind[r] = "refresh" THEN issued \cup {minted[r]} ELSE issued
        /\ Reply(r, IF kind[r] = "refresh" THEN "grant" ELSE "keep")
     \/ /\ Blocked(cookie[r])
        /\ Reply(r, IF kind[r] = "refresh" THEN "refused" ELSE "clear")
        /\ UNCHANGED <<blockedUntil, issued>>
  /\ UNCHANGED <<now, exp, session, browser, kind, header, cookie, ttl, minted, disturbed, mixed>>

\* The SET is executed and answered.  Only the request that created the entry is
\* granted the new token; a logout clears the cookies in any case.
SetBlocked(r) ==
  /\ pc[r] = "set"
  /\ \/ /\ ~Blocked(cookie[r])
        /\ Block(r)
        /\ issued' = IF kind[r] = "refresh" THEN issued \cup {minted[r]} ELSE issued
        /\ Reply(r, IF kind[r] = "refresh" THEN "grant" ELSE "clear")
     \/ /\ Blocked(cookie[r])
        /\ Reply(r, IF kind[r] = "refresh" THEN "refused" ELSE "clear")
        /\ UNCHANGED <<blockedUntil, issued>>
  /\ UNCHANGED <<now, exp, session, browser, kind, header, cookie, ttl, minted, disturbed, mixed>>

\* Redis does not answer: an error is thrown, the cookies stay.  A SET may have
\* been executed all the same.
RedisFails(r) ==
  /\ pc[r] \in {"get", "set"}
  /\ Reply(r, "keep")
  /\ \/ UNCHANGED <<blockedUntil, disturbed>>
     \/ /\ pc[r] = "set"
        /\ ~Blocked(cookie[r])
        /\ Block(r)
        /\ disturbed' = TRUE
  /\ UNCHANGED <<now, tokens, browser, kind, header, cookie, ttl, minted, mixed>>

\* The browser receives the answer.  A 401 makes the refresh fail in a way its
\* caller reacts to.
Deliver(r) ==
  /\ pc[r] = "reply"
  /\ Goto(r, IF kind[r] = "refresh" /\ answer[r] \in {"refused", "clear"}
               THEN "refused" ELSE "done")
  /\ jar' = CASE answer[r] = "grant" -> minted[r]
              [] answer[r] = "clear" -> NoToken
              [] OTHER -> jar
  /\ signedIn' = CASE kind[r] = "login" -> minted[r]
                   [] kind[r] = "logout" /\ answer[r] = "clear" -> NoToken
                   [] OTHER -> signedIn
  /\ UNCHANGED <<now, tokens, blockedUntil, kind, header, cookie, ttl, minted, answer,
                 disturbed, mixed>>

\* The page of a refused refresh logs out: its DELETE carries the cookies of the
\* browser, which another tab may have renewed since.  (A page also logs out when a
\* request fails with the token it was just granted: SendLogout covers it.)
PageLogsOut(r) ==
  /\ pc[r] = "refused"
  /\ Become(r, "logout")
  /\ Goto(r, "arriving")
  /\ cookie' = [cookie EXCEPT ![r] = jar]
  /\ UNCHANGED <<now, tokens, blockedUntil, browser, header, ttl, minted, answer, disturbed>>

\* The page has been left, or the caller of this refresh only reports the error.
PageIgnores(r) ==
  /\ pc[r] = "refused"
  /\ Goto(r, "done")
  /\ UNCHANGED <<now, tokens, blockedUntil, browser, kind, header, cookie, ttl, minted,
                 answer, disturbed, mixed>>

\* The request, its answer or the server is gone.
Lose(r) ==
  /\ Open(r)
  /\ pc[r] # "refused"
  /\ Goto(r, "done")
  /\ disturbed' = TRUE
  /\ UNCHANGED <<now, tokens, blockedUntil, browser, kind, header, cookie, ttl, minted,
                 answer, mixed>>

\* Redis drops an entry some time in the second its time to live ends, or later.
Expire(j) ==
  /\ Blocked(j)
  /\ now >= blockedUntil[j]
  /\ blockedUntil' = [blockedUntil EXCEPT ![j] = 0]
  /\ UNCHANGED <<now, tokens, browser, kind, pc, header, cookie, ttl, minted, answer,
                 disturbed, mixed>>

Tick ==
  /\ now < MaxNow
  /\ now' = now + 1
  /\ UNCHANGED <<tokens, blockedUntil, browser, kind, pc, header, cookie, ttl, minted,
                 answer, disturbed, mixed>>

RequestStep(r) ==
  \/ Login(r) \/ CallRefresh(r) \/ SendRefresh(r) \/ SendLogout(r)
  \/ VerifyRefresh(r) \/ VerifyLogout(r) \/ IsBlocked(r) \/ Mint(r)
  \/ SetBlocked(r) \/ RedisFails(r) \/ Deliver(r)
  \/ PageLogsOut(r) \/ PageIgnores(r) \/ Lose(r)

Next ==
  \/ \E r \in Requests : RequestStep(r)
  \/ \E j \in Jtis : Expire(j)
  \/ Tick

Spec == Init /\ [][Next]_vars

-----------------------------------------------------------------------------
\* authentication/README.md:60 "a refresh token can only be used once": whatever
\* the order of concurrent refreshes and logouts, of Redis's answers and of the
\* clock, a session has at most one token that a refresh would still be granted
\* for.  The check (IsBlocked) and the rotation (SET NX) are two round trips, and
\* the entry that remembers a used token expires.
OneLiveTokenPerSession ==
  \A j, k \in Jtis : Live(j) /\ Live(k) /\ session[j] = session[k] => j = k

\* A session that has no live token left (it was logged out, or an answer was
\* lost after the rotation) never gets one again, not even from a refresh that
\* passed its checks before: no entry of the blocklist expires too early.
EndedSessionsStayEnded ==
  [][\A s \in issued : LiveOf(s) = {} => LiveOf(s)' = {}]_vars

\* A refresh that loses a race (the header is not the cookie any more, the GET or
\* the SET NX finds the token used) is answered 401.  There is always a winner then:
\* as long as no login or logout has begun and nothing was lost, the live token of
\* the session is in the browser or in an answer on its way to it.  It is no more
\* than that: the loser's page logs out, which ends the session if the winner's
\* answer has come by then, in every tab (dashboard.tsx:86).
RacingTabsHaveAWinner ==
  /\ ~disturbed /\ ~mixed
  /\ signedIn # NoToken /\ now < exp[signedIn]
  /\ \A r \in Requests : Open(r) => kind[r] = "refresh"
  => \/ jar # NoToken /\ LiveOf(signedIn) = {jar}
     \/ \E r \in Requests : Granted(r) /\ LiveOf(signedIn) = {minted[r]}

\* However refreshes, logins, logouts and the logouts of refused pages overlap and
\* their answers overtake one another, the browser is not left with cookies that
\* every later refresh is refused for: when all answers have come and none was lost,
\* its token is live, the only live one of its session, or it has none.
NoUsedTokenIsKept ==
  Quiet /\ ~disturbed /\ jar # NoToken /\ now < exp[jar] => LiveOf(session[jar]) = {jar}

\* What makes OneLiveTokenPerSession inductive.  Tokens exist before they are
\* carried around; a token descends from a login and has its expiry.
TokenInv ==
  /\ \A j \in issued : Exists(j)
  /\ jar \in issued \cup {NoToken}
  /\ \A r \in Requests : cookie[r] \in issued \cup {NoToken}
  /\ \A j \in Jtis : Exists(j) => /\ session[j] \in Jtis
                                  /\ Exists(session[j])
                                  /\ exp[j] = exp[session[j]]

\* An entry of the blocklist lives at least as long as the token it blocks.
EntryInv == \A j \in Jtis : Blocked(j) => j \in issued /\ blockedUntil[j] >= exp[j]

\* A request that awaits the blocklist carries a token; the time to live it asks
\* for is still enough.
AwaitInv ==
  \A r \in Requests :
    /\ pc[r] \in {"get", "mint", "set"} => cookie[r] \in issued
    /\ pc[r] \in {"get", "mint"} => kind[r] = "refresh"
    /\ pc[r] = "set" => ttl[r] > 0 /\ now + ttl[r] >= exp[cookie[r]]
    /\ pc[r] = "reply" /\ answer[r] = "grant" => minted[r] \in issued

\* The token that a refresh will hand out exists, is of the same session and is
\* nobody else's.
Rotating(r) == pc[r] = "set" /\ kind[r] = "refresh"

MintedInv ==
  /\ \A r \in Requests :
       Rotating(r) => /\ minted[r] \in Jtis \ issued
                      /\ Exists(minted[r])
                      /\ session[minted[r]] = session[cookie[r]]
  /\ \A q, r \in Requests :
       Rotating(q) /\ Rotating(r) /\ minted[q] = minted[r] => q = r

\* A token on its way to the browser is new to everybody: not in the cookies, not
\* used, carried by no request and in one answer only.
Handing(r) == pc[r] = "reply" /\ answer[r] = "grant"

OnItsWayInv ==
  /\ \A r \in Requests :
       Handing(r) => /\ minted[r] \in issued \ {jar}
                     /\ ~Blocked(minted[r])
                     /\ \A q \in Requests : cookie[q] # minted[r]
  /\ \A q, r \in Requests : Handing(q) /\ Handing(r) /\ minted[q] = minted[r] => q = r

\* When the token in the browser has been used, the request that used it has an
\* answer that replaces it or takes it away.
UsedInv ==
  ~disturbed /\ jar # NoToken /\ Blocked(jar) =>
    \E r \in Requests :
      pc[r] = "reply" /\ cookie[r] = jar /\ answer[r] \in {"grant", "clear"}

IInv ==
  /\ TypeOK
  /\ TokenInv
  /\ EntryInv
  /\ AwaitInv
  /\ MintedInv
  /\ OneLiveTokenPerSession
  /\ OnItsWayInv
  /\ UsedInv

(* What makes RacingTabsHaveAWinner inductive *)

\* Requests that overlap are refreshes; a login is alone with its answer.
AloneInv ==
  /\ \A q, r \in Requests : Open(q) /\ Open(r) /\ q # r => kind[q] = "refresh"
  /\ \A r \in Requests :
       /\ Open(r) => kind[r] \in {"login", "refresh", "logout"}
       /\ Open(r) /\ kind[r] = "login" =>
            /\ pc[r] = "reply" /\ answer[r] = "grant"
            /\ minted[r] \in issued /\ ~Blocked(minted[r]) /\ session[minted[r]] = minted[r]
       /\ pc[r] = "reply" /\ kind[r] = "logout" => answer[r] # "grant"

\* The browser has a token of the last login; its cookies are cleared when that has
\* expired, not before.
BrowserInv ==
  /\ jar # NoToken => session[jar] = signedIn
  /\ signedIn # NoToken =>
       /\ signedIn \in issued /\ session[signedIn] = signedIn
       /\ jar = NoToken => now >= exp[signedIn]

\* A refresh on its way is about the same login.
OfTheSession(r) ==
  Open(r) /\ pc[r] # "refused" /\ kind[r] = "refresh" =>
    /\ header[r] \in issued /\ session[header[r]] = signedIn
    /\ pc[r] # "called" /\ cookie[r] # NoToken => session[cookie[r]] = signedIn
    /\ pc[r] = "reply" /\ answer[r] = "clear" => now >= exp[signedIn]
    /\ Granted(r) => session[minted[r]] = signedIn

RefreshesInv == \A r \in Requests : OfTheSession(r)

\* The live token of the session is in the browser, or on its way to it in the only
\* answer there is; or a logout has just ended it.
HandedOver(r) ==
  /\ Granted(r) /\ Live(minted[r])
  /\ \A q \in Requests : Granted(q) => q = r

KeptInv ==
  signedIn # NoToken /\ now < exp[signedIn] =>
    \/ Live(jar) /\ \A r \in Requests : ~Granted(r)
    \/ \E r \in Requests : HandedOver(r)
    \/ \E r \in Requests : pc[r] = "reply" /\ kind[r] = "logout" /\ answer[r] = "clear"

RacingInv == ~disturbed /\ ~mixed => AloneInv /\ BrowserInv /\ RefreshesInv /\ KeptInv

=============================================================================
