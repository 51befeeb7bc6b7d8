--------------------------- MODULE AccountsProofs ---------------------------
(***************************************************************************)
(* For every set of accounts, addresses, reset tokens and requests: a user *)
(* has one reset token unless requests raced for it, no token is redeemed  *)
(* twice by requests that did not, and every answer is true; and for every *)
(* number of faults of the domain service, the profiles follow.            *)
(***************************************************************************)
EXTENDS Profiles, TLAPS

-----------------------------------------------------------------------------
(* Requests *)

Ops == {"none", "register", "login", "change", "delete", "me", "forgot", "reset"}

\* What the validators let through, field by field.
LEMMA CallFields ==
  ASSUME NEW c \in Calls \cup {NoCall}
  PROVE  /\ c.op \in Ops
         /\ c.user \in Users \cup {None}
         /\ c.email \in Emails \cup {None}
         /\ c.new \in Passwords \cup {None}
         /\ c.token \in Tokens \cup {None}
         /\ c.fields \subseteq Fields
         /\ c.op \in {"register", "login", "forgot"} => c.email \in Emails
         /\ c.op \in {"register", "reset"} => c.new \in Passwords
         /\ c.op \in {"change", "delete", "me"} => c.user \in Users
         /\ c.op \in {"register", "login", "forgot", "reset", "none"} => c.user = None
         /\ c.op \in {"forgot", "reset"} => c.token \in Tokens
         /\ c.op \notin {"forgot", "reset"} => c.token = None
<1> USE AccountsAssumption DEF Call, Ops
<1>1. CASE c \in RegisterCalls
  BY <1>1 DEF RegisterCalls
<1>2. CASE c \in LoginCalls
  BY <1>2 DEF LoginCalls
<1>3. CASE c \in ChangeCalls
  BY <1>3 DEF ChangeCalls
<1>4. CASE c \in DeleteCalls \cup MeCalls
  BY <1>4 DEF DeleteCalls, MeCalls
<1>5. CASE c \in ForgotCalls
  BY <1>5 DEF ForgotCalls
<1>6. CASE c \in ResetCalls
  BY <1>6 DEF ResetCalls
<1>7. CASE c = NoCall
  BY <1>7 DEF NoCall
<1> QED
  BY <1>1, <1>2, <1>3, <1>4, <1>5, <1>6, <1>7 DEF Calls

\* A call that was made is a call that somebody may make.
LEMMA BegunCall ==
  ASSUME NEW c \in Calls
  PROVE  c.op # "none" /\ FirstStep(c) \in StepsOf(c.op) \ {"idle", "closed"}
<1>1. c.op \in Ops \ {"none"}
  BY DEF Ops, Call, Calls, RegisterCalls, LoginCalls, ChangeCalls, DeleteCalls, MeCalls,
         ForgotCalls, ResetCalls
<1> QED
  BY <1>1 DEF Ops, FirstStep, StepsOf

\* Which requests may be at which step.
LEMMA StepsOfOps ==
  ASSUME RequestsMakeSense, AccountsTypeOK, NEW r \in Requests
  PROVE  /\ call[r] \in Calls \cup {NoCall}
         /\ call[r].op = "none" <=> pc[r] = "idle"
         /\ pc[r] \in {"dropToken", "dropIndex", "lookup"} => call[r].op \in {"forgot", "reset"}
         /\ pc[r] \in {"setToken", "setIndex"} => call[r].op = "forgot"
         /\ pc[r] = "send" => call[r].op \in {"register", "change", "delete", "forgot"}
<1>1. call[r] \in Calls \cup {NoCall} /\ call[r].op \in Ops
  BY CallFields DEF AccountsTypeOK
<1>2. pc[r] \in StepsOf(call[r].op)
  BY DEF RequestsMakeSense
<1> QED
  BY <1>1, <1>2 DEF Ops, StepsOf

-----------------------------------------------------------------------------
(* Typing *)

LEMMA EventType ==
  ASSUME AccountsInv, NEW r \in Requests, pc[r] = "send"
  PROVE  EventOf(r) \in Event
<1>1. call[r].op \in {"register", "change", "delete", "forgot"}
  BY StepsOfOps DEF AccountsInv
<1>2. found[r] \in Users
  BY <1>1, AccountsAssumption DEF AccountsInv, AccountsTypeOK, RequestsMakeSense, Working
<1>3. call[r].email \in Emails \cup {None} /\ call[r].token \in Tokens \cup {None}
      /\ Announced(call[r]) \subseteq Fields
  BY CallFields, StepsOfOps DEF AccountsInv, Announced
<1>4. call[r].op = "delete" => seen[r] \in Emails
  BY DEF AccountsInv, RequestsMakeSense
<1> QED
  BY <1>1, <1>2, <1>3, <1>4 DEF EventOf, Event, Kinds

\* A request goes on to a step or is answered.
LEMMA MoveType ==
  ASSUME AccountsTypeOK, NEW r \in Requests,
         (\E s \in Steps : Goto(r, s)) \/ (\E a \in Answers : Close(r, a))
  PROVE  pc' \in [Requests -> Steps] /\ answer' \in [Requests -> Answers]
<1>1. "closed" \in Steps
  BY DEF Steps
<1> QED
  BY <1>1 DEF AccountsTypeOK, Goto, Close

LEMMA TypeStep ==
  ASSUME AccountsInv, [AccountsNext]_accountVars
  PROVE  AccountsTypeOK'
<1> USE AccountsAssumption DEF AccountsInv, AccountsTypeOK, Goto, Close, Steps, Answers,
        tables, redis, history, RefusalOf, SuccessOf
<1>1. ASSUME NEW r \in Requests, Begin(r) PROVE AccountsTypeOK'
  <2>1. PICK c \in Calls :
          /\ call' = [call EXCEPT ![r] = c]
          /\ found' = [found EXCEPT ![r] = c.user]
          /\ issued' = IF c.op = "forgot" THEN issued \cup {c.token} ELSE issued
          /\ pc' = [pc EXCEPT ![r] = FirstStep(c)] /\ UNCHANGED answer
    BY <1>1 DEF Begin
  <2>2. c.user \in Users \cup {None} /\ (c.op = "forgot" => c.token \in Tokens)
    BY CallFields
  <2>3. FirstStep(c) \in Steps
    BY CallFields, BegunCall DEF FirstStep, Ops
  <2>4. /\ call' \in [Requests -> Calls \cup {NoCall}]
        /\ found' \in [Requests -> Users \cup {None}]
        /\ pc' \in [Requests -> Steps]
        /\ issued' \subseteq Tokens
    BY <2>1, <2>2, <2>3
  <2> QED
    BY <1>1, <2>1, <2>4 DEF Begin
<1>2. ASSUME NEW r \in Requests, EmailTaken(r) PROVE AccountsTypeOK'
  <2>1. Close(r, RefusalOf(call[r])) \/ Goto(r, "write")
    BY <1>2 DEF EmailTaken
  <2>2. pc' \in [Requests -> Steps] /\ answer' \in [Requests -> Answers]
    BY <2>1
  <2> HIDE DEF Goto, Close
  <2> QED
    BY <1>2, <2>2 DEF EmailTaken
<1>3. ASSUME NEW r \in Requests, Create(r) PROVE AccountsTypeOK'
  <2>1. call[r].email \in Emails /\ call[r].new \in Passwords
    BY <1>3, CallFields DEF Create
  <2> QED
    BY <1>3, <2>1 DEF Create
<1>4. ASSUME NEW r \in Requests, Login(r) PROVE AccountsTypeOK'
  <2>1. Close(r, SuccessOf(call[r])) \/ Close(r, RefusalOf(call[r]))
    BY <1>4 DEF Login
  <2>2. pc' \in [Requests -> Steps] /\ answer' \in [Requests -> Answers]
    BY <2>1
  <2> HIDE DEF Goto, Close
  <2> QED
    BY <1>4, <2>2 DEF Login
<1>5. ASSUME NEW r \in Requests, GetUser(r) PROVE AccountsTypeOK'
  <2>1. Close(r, SuccessOf(call[r])) \/ Close(r, RefusalOf(call[r]))
    BY <1>5 DEF GetUser
  <2>2. pc' \in [Requests -> Steps] /\ answer' \in [Requests -> Answers]
    BY <2>1
  <2> HIDE DEF Goto, Close
  <2> QED
    BY <1>5, <2>2 DEF GetUser
<1>6. ASSUME NEW r \in Requests, VerifyCurrent(r) PROVE AccountsTypeOK'
  <2>1. CASE Proved(call[r], found[r])
    <3>1. found[r] \in Users /\ email[found[r]] \in Emails \cup {None}
      BY <2>1 DEF Proved
    <3> QED
      BY <1>6, <2>1, <3>1 DEF VerifyCurrent
  <2>2. CASE ~Proved(call[r], found[r])
    BY <1>6, <2>2 DEF VerifyCurrent
  <2> QED
    BY <2>1, <2>2
<1>7. ASSUME NEW r \in Requests, Change(r) PROVE AccountsTypeOK'
  <2>1. call[r].email \in Emails \cup {None} /\ call[r].new \in Passwords \cup {None}
    BY CallFields
  <2>2. CASE found[r] \notin live
    BY <1>7, <2>2 DEF Change
  <2>3. CASE found[r] \in live
    <3>1. email' \in [Users -> Emails \cup {None}]
      BY <1>7, <2>1, <2>3 DEF Change
    <3>2. password' \in [Users -> {HashPassword(p) : p \in Passwords} \cup {None}]
      BY <1>7, <2>1, <2>3 DEF Change
    <3> QED
      BY <1>7, <2>3, <3>1, <3>2 DEF Change
  <2> QED
    BY <2>2, <2>3
<1>8. ASSUME NEW r \in Requests, Delete(r) PROVE AccountsTypeOK'
  <2>1. found[r] \in Users
    BY <1>8 DEF Delete, RequestsMakeSense, Working
  <2> QED
    BY <1>8, <2>1 DEF Delete
<1>9. ASSUME NEW r \in Requests, Forgot(r) PROVE AccountsTypeOK'
  BY <1>9 DEF Forgot, StartsResetting, ByEmail
<1>10. ASSUME NEW r \in Requests, Redeem(r) PROVE AccountsTypeOK'
  <2>1. call[r].token \in Tokens
    BY <1>10, CallFields DEF Redeem
  <2>2. CASE resetUser[call[r].token] = None
    BY <1>10, <2>1, <2>2 DEF Redeem
  <2>3. CASE resetUser[call[r].token] # None
    <3>1. resetUser[call[r].token] \in Users
      BY <2>1, <2>3
    <3>2. raced' \subseteq Users /\ found' \in [Requests -> Users \cup {None}]
      BY <1>10, <2>3, <3>1 DEF Redeem, StartsResetting
    <3> QED
      BY <1>10, <2>3, <3>2 DEF Redeem
  <2> QED
    BY <2>2, <2>3
<1>11. ASSUME NEW r \in Requests, ReadUser(r) PROVE AccountsTypeOK'
  <2>1. Close(r, RefusalOf(call[r])) \/ Goto(r, "write")
    BY <1>11 DEF ReadUser
  <2>2. pc' \in [Requests -> Steps] /\ answer' \in [Requests -> Answers]
    BY <2>1
  <2> HIDE DEF Goto, Close
  <2> QED
    BY <1>11, <2>2 DEF ReadUser
<1>12. ASSUME NEW r \in Requests, Reset(r) PROVE AccountsTypeOK'
  <2>1. call[r].new \in Passwords /\ call[r].token \in Tokens
    BY <1>12, CallFields DEF Reset
  <2> QED
    BY <1>12, <2>1 DEF Reset
<1>13. ASSUME NEW r \in Requests, LookUp(r) PROVE AccountsTypeOK'
  <2>1. found[r] \in Users
    BY <1>13, StepsOfOps DEF LookUp, RequestsMakeSense, Working
  <2>2. pc' \in [Requests -> Steps] /\ answer' \in [Requests -> Answers]
    BY <1>13 DEF LookUp, Invalidated
  <2>3. seen' \in [Requests -> Tokens \cup Emails \cup {None}]
    BY <1>13, <2>1 DEF LookUp
  <2> HIDE DEF Goto, Close
  <2> QED
    BY <1>13, <2>2, <2>3 DEF LookUp
<1>14. ASSUME NEW r \in Requests, DropToken(r) PROVE AccountsTypeOK'
  BY <1>14 DEF DropToken
<1>15. ASSUME NEW r \in Requests, DropIndex(r) PROVE AccountsTypeOK'
  <2>1. pc' \in [Requests -> Steps] /\ answer' \in [Requests -> Answers]
    <3>1. Close(r, SuccessOf(call[r])) \/ Goto(r, "setToken")
      BY <1>15 DEF DropIndex, Invalidated
    <3> QED
      BY <3>1, MoveType
  <2>2. resetToken' \in [Users -> Tokens \cup {None}]
    BY <1>15 DEF DropIndex
  <2> HIDE DEF Goto, Close
  <2> QED
    BY <1>15, <2>1, <2>2 DEF DropIndex
<1>16. ASSUME NEW r \in Requests, SetToken(r) PROVE AccountsTypeOK'
  <2>1. resetUser' \in [Tokens -> Users \cup {None}]
    <3>1. found[r] \in Users \cup {None} /\ resetUser' = [resetUser EXCEPT ![call[r].token] = found[r]]
      BY <1>16 DEF SetToken
    <3> QED
      BY <3>1
  <2>2. pc' \in [Requests -> Steps] /\ answer' \in [Requests -> Answers]
    <3>1. Goto(r, "setIndex")
      BY <1>16 DEF SetToken
    <3> QED
      BY <3>1, MoveType
  <2> HIDE DEF Goto, Close
  <2> QED
    BY <1>16, <2>1, <2>2 DEF SetToken
<1>17. ASSUME NEW r \in Requests, SetIndex(r) PROVE AccountsTypeOK'
  <2>1. call[r].token \in Tokens
    BY <1>17, CallFields, StepsOfOps DEF SetIndex
  <2> QED
    BY <1>17, <2>1 DEF SetIndex
<1>18. ASSUME NEW r \in Requests, Send(r) PROVE AccountsTypeOK'
  <2>1. EventOf(r) \in Event
    BY <1>18, EventType DEF Send
  <2>2. published' \in Seq(Event)
    BY <1>18, <2>1 DEF Send
  <2> QED
    BY <1>18, <2>2 DEF Send
<1>19. ASSUME NEW r \in Requests, Fails(r) PROVE AccountsTypeOK'
  <2>1. Resetting(r) => found[r] \in Users
    BY DEF Resetting, RequestsMakeSense, Working
  <2> QED
    BY <1>19, <2>1 DEF Fails
<1>20. CASE Expiry
  BY <1>20 DEF Expiry, ExpireToken, ExpireIndex
<1>21. CASE UNCHANGED accountVars
  BY <1>21 DEF accountVars
<1> QED
  BY <1>1, <1>2, <1>3, <1>4, <1>5, <1>6, <1>7, <1>8, <1>9, <1>10, <1>11, <1>12,
     <1>13, <1>14, <1>15, <1>16, <1>17, <1>18, <1>19, <1>20, <1>21
  DEF AccountsNext, RequestStep

-----------------------------------------------------------------------------
(* Rows *)

\* Only three steps write to the table.
LEMMA RowsStep ==
  ASSUME AccountsInv, [AccountsNext]_accountVars
  PROVE  RowsAreDistinct' /\ live \cup gone \subseteq live' \cup gone'
<1> USE DEF RowsAreDistinct
<1> DEFINE Goal == RowsAreDistinct' /\ live \cup gone \subseteq live' \cup gone'
<1>0. live \subseteq Users /\ gone \subseteq Users /\ email \in [Users -> Emails \cup {None}]
  BY DEF AccountsInv, AccountsTypeOK
<1>a. RowsAreDistinct
  BY DEF AccountsInv
<1>1. ASSUME UNCHANGED <<live, gone, email>> PROVE Goal
  BY <1>a, <1>1
<1>2. ASSUME NEW r \in Requests, Create(r) PROVE Goal
  <2>1. call[r].email # None
    BY <1>2, CallFields, AccountsAssumption DEF Create, AccountsInv, AccountsTypeOK
  <2>2. PICK u \in Users \ (live \cup gone) :
          /\ EmailFree(call[r].email, u)
          /\ live' = live \cup {u}
          /\ email' = [email EXCEPT ![u] = call[r].email]
    BY <1>2 DEF Create
  <2>3. gone' = gone
    BY <1>2 DEF Create
  <2> QED
    BY <1>0, <1>a, <2>1, <2>2, <2>3 DEF EmailFree
<1>3. ASSUME NEW r \in Requests, Change(r) PROVE Goal
  <2>1. live' = live /\ gone' = gone
    BY <1>3 DEF Change
  <2>2. CASE email' = email
    BY <1>1, <2>1, <2>2
  <2>3. CASE email' # email
    <3>1. /\ found[r] \in live
          /\ call[r].email # None /\ EmailFree(call[r].email, found[r])
          /\ email' = [email EXCEPT ![found[r]] = call[r].email]
      BY <1>3, <2>3 DEF Change
    <3> QED
      BY <1>0, <1>a, <2>1, <3>1 DEF EmailFree
  <2> QED
    BY <2>2, <2>3
<1>4. ASSUME NEW r \in Requests, Delete(r) PROVE Goal
  <2>1. found[r] \in live \cup gone
    BY <1>4 DEF Delete, AccountsInv, RequestsMakeSense, Working
  <2>2. live' = live \ {found[r]} /\ gone' = gone \cup {found[r]} /\ email' = email
    BY <1>4 DEF Delete
  <2> QED
    BY <1>a, <2>1, <2>2
<1>5. ASSUME NEW r \in Requests, RequestStep(r), ~Create(r), ~Change(r), ~Delete(r)
      PROVE  UNCHANGED <<live, gone, email>>
  BY <1>5 DEF RequestStep, Begin, EmailTaken, Login, GetUser, VerifyCurrent, Forgot, Redeem,
     ReadUser, Reset, LookUp, DropToken, DropIndex, SetToken, SetIndex, Send, Fails, tables
<1>6. ASSUME Expiry \/ UNCHANGED accountVars PROVE UNCHANGED <<live, gone, email>>
  BY <1>6 DEF Expiry, ExpireToken, ExpireIndex, accountVars, tables
<1> QED
  BY <1>1, <1>2, <1>3, <1>4, <1>5, <1>6 DEF AccountsNext

-----------------------------------------------------------------------------
(* Where requests are *)

\* What a request awaits is its own business.
LEMMA Frame ==
  ASSUME AccountsInv, NEW q \in Requests, RequestStep(q), NEW r \in Requests \ {q}
  PROVE  /\ call'[r] = call[r] /\ pc'[r] = pc[r] /\ found'[r] = found[r] /\ seen'[r] = seen[r]
         /\ answer'[r] = answer[r]
<1> USE DEF AccountsInv, AccountsTypeOK, Goto, Close
<1> DEFINE Same == /\ call'[r] = call[r] /\ pc'[r] = pc[r] /\ found'[r] = found[r]
                   /\ seen'[r] = seen[r] /\ answer'[r] = answer[r]
<1>1. CASE Begin(q)
  BY <1>1 DEF Begin
<1>2. CASE EmailTaken(q)
  BY <1>2 DEF EmailTaken
<1>3. CASE Create(q)
  BY <1>3 DEF Create
<1>4. CASE Login(q)
  BY <1>4 DEF Login
<1>5. CASE GetUser(q)
  BY <1>5 DEF GetUser
<1>6. CASE VerifyCurrent(q)
  BY <1>6 DEF VerifyCurrent
<1>7. CASE Change(q)
  BY <1>7 DEF Change
<1>8. CASE Delete(q)
  BY <1>8 DEF Delete
<1>9. CASE Forgot(q)
  BY <1>9 DEF Forgot
<1>10. CASE Redeem(q)
  BY <1>10 DEF Redeem
<1>11. CASE ReadUser(q)
  BY <1>11 DEF ReadUser
<1>12. CASE Reset(q)
  BY <1>12 DEF Reset
<1>13. CASE LookUp(q)
  BY <1>13 DEF LookUp, Invalidated
<1>14. CASE DropToken(q)
  BY <1>14 DEF DropToken
<1>15. CASE DropIndex(q)
  BY <1>15 DEF DropIndex, Invalidated
<1>16. CASE SetToken(q)
  BY <1>16 DEF SetToken
<1>17. CASE SetIndex(q)
  BY <1>17 DEF SetIndex
<1>18. CASE Send(q)
  BY <1>18 DEF Send
<1>19. CASE Fails(q)
  BY <1>19 DEF Fails
<1> QED
  BY <1>1, <1>2, <1>3, <1>4, <1>5, <1>6, <1>7, <1>8, <1>9, <1>10, <1>11, <1>12, <1>13, <1>14, <1>15, <1>16, <1>17, <1>18, <1>19 DEF RequestStep

\* RequestsMakeSense of one request.
Sensible(r) ==
  LET op == call[r].op IN
    /\ pc[r] \in StepsOf(op)
    /\ found[r] # None => found[r] \in live \cup gone
    /\ pc[r] \in Working /\ (op = "register" => pc[r] = "send") => found[r] # None
    /\ pc[r] = "dropToken" => seen[r] \in Tokens
    /\ op = "delete" /\ pc[r] \in {"write", "send"} => seen[r] \in Emails

LEMMA SenseStep ==
  ASSUME AccountsInv, [AccountsNext]_accountVars
  PROVE  RequestsMakeSense'
<1>0. AccountsTypeOK /\ RowsAreDistinct /\ \A r \in Requests : Sensible(r)
  BY DEF AccountsInv, RequestsMakeSense, Sensible
<1>a. live \cup gone \subseteq live' \cup gone'
  BY RowsStep
<1>b. \A r \in Requests : call[r].op \in Ops
  BY <1>0, CallFields DEF AccountsTypeOK
<1>c. AccountsTypeOK'
  BY TypeStep
<1>1. ASSUME UNCHANGED <<call, pc, found, seen>> PROVE RequestsMakeSense'
  BY <1>0, <1>1, <1>a DEF RequestsMakeSense, Sensible
<1>2. ASSUME NEW q \in Requests, RequestStep(q) PROVE Sensible(q)'
  <2> USE <1>0, <1>a DEF Goto, Close, Working, Sensible, AccountsTypeOK
  <2>1. CASE Begin(q)
    <3>1. PICK c \in Calls :
            /\ c.user # None => HasSession(c.user)
            /\ call' = [call EXCEPT ![q] = c]
            /\ found' = [found EXCEPT ![q] = c.user]
            /\ pc' = [pc EXCEPT ![q] = FirstStep(c)]
      BY <2>1 DEF Begin
    <3>2. /\ c.op \in Ops \ {"none"}
          /\ c.op \in {"change", "delete", "me"} => c.user \in Users
      BY CallFields, BegunCall
    <3>3. call'[q] = c /\ found'[q] = c.user /\ pc'[q] = FirstStep(c)
      BY <3>1
    <3>4. FirstStep(c) \in StepsOf(c.op)
      BY BegunCall
    <3>5. FirstStep(c) # "dropToken" /\ (c.op = "delete" => FirstStep(c) = "verify")
          /\ (FirstStep(c) \in Working => c.op = "change")
      BY <3>2 DEF FirstStep, Ops
    <3>6. found'[q] # None => found'[q] \in live' \cup gone'
      BY <3>1, <3>3 DEF HasSession
    <3> QED
      BY <3>2, <3>3, <3>4, <3>5, <3>6, AccountsAssumption
  <2>2. CASE EmailTaken(q)
    BY <2>2, <1>b DEF EmailTaken, StepsOf, Ops
  <2>3. CASE Create(q)
    <3>1. found'[q] \in live' /\ call'[q] = call[q] /\ pc'[q] = "send" /\ call[q].op = "register"
      BY <2>3 DEF Create
    <3>2. found'[q] # None
      BY <3>1, <1>c, AccountsAssumption
    <3> HIDE DEF Goto, Close
    <3> QED
      BY <3>1, <3>2 DEF StepsOf
  <2>4. CASE Login(q)
    BY <2>4, <1>b DEF Login, StepsOf, Ops
  <2>5. CASE GetUser(q)
    BY <2>5, <1>b DEF GetUser, StepsOf, Ops
  <2>6. CASE VerifyCurrent(q)
    <3>1. /\ call[q].op \in {"change", "delete"} /\ call'[q] = call[q] /\ found'[q] = found[q]
          /\ pc'[q] = "closed" \/ (pc'[q] = "write" /\ Proved(call[q], found[q])
                                   /\ seen'[q] = email[found[q]])
      BY <2>6 DEF VerifyCurrent
    <3>2. Proved(call[q], found[q]) => found[q] \in Users /\ email[found[q]] \in Emails
      BY DEF Proved, RowsAreDistinct
    <3> HIDE DEF Goto, Close
    <3> QED
      BY <3>1, <3>2, AccountsAssumption DEF StepsOf
  <2>7. CASE Change(q)
    BY <2>7, <1>b DEF Change, StepsOf, Ops
  <2>8. CASE Delete(q)
    BY <2>8, <1>b DEF Delete, StepsOf, Ops
  <2>9. CASE Forgot(q)
    <3>1. /\ call[q].op = "forgot" /\ call'[q] = call[q]
          /\ \/ pc'[q] = "closed" /\ found'[q] = found[q]
             \/ pc'[q] = "lookup" /\ found'[q] \in live
      BY <2>9 DEF Forgot, ByEmail
    <3> HIDE DEF Goto, Close
    <3> QED
      BY <3>1, AccountsAssumption DEF StepsOf
  <2>10. CASE Redeem(q)
    <3>1. call[q] \in Calls \cup {NoCall} /\ call[q].op = "reset"
      BY <2>10 DEF Redeem
    <3>2. call[q].token \in Tokens
      BY <3>1, CallFields
    <3>3. /\ call'[q] = call[q]
          /\ \/ pc'[q] = "closed" /\ found'[q] = found[q]
             \/ /\ pc'[q] = "read" /\ found'[q] = resetUser[call[q].token]
                /\ resetUser[call[q].token] # None
      BY <2>10 DEF Redeem
    <3>4. resetUser[call[q].token] # None => resetUser[call[q].token] \in live \cup gone
      BY <3>2 DEF AccountsInv, TokensHaveOneHolder, HoldersOf
    <3> HIDE DEF Goto, Close
    <3> QED
      BY <3>1, <3>3, <3>4, AccountsAssumption DEF StepsOf
  <2>11. CASE ReadUser(q)
    BY <2>11, <1>b DEF ReadUser, StepsOf, Ops
  <2>12. CASE Reset(q)
    BY <2>12, <1>b DEF Reset, StepsOf, Ops
  <2>13. CASE LookUp(q)
    BY <2>13, <1>b DEF LookUp, Invalidated, StepsOf, Ops
  <2>14. CASE DropToken(q)
    BY <2>14, <1>b DEF DropToken, StepsOf, Ops
  <2>15. CASE DropIndex(q)
    BY <2>15, <1>b DEF DropIndex, Invalidated, StepsOf, Ops
  <2>16. CASE SetToken(q)
    BY <2>16, <1>b DEF SetToken, StepsOf, Ops
  <2>17. CASE SetIndex(q)
    BY <2>17, <1>b DEF SetIndex, StepsOf, Ops
  <2>18. CASE Send(q)
    BY <2>18, <1>b DEF Send, StepsOf, Ops
  <2>19. CASE Fails(q)
    BY <2>19, <1>b DEF Fails, Open, StepsOf, Ops
  <2> QED
    BY <1>2, <2>1, <2>2, <2>3, <2>4, <2>5, <2>6, <2>7, <2>8, <2>9, <2>10, <2>11, <2>12, <2>13, <2>14, <2>15, <2>16, <2>17, <2>18, <2>19 DEF RequestStep
<1>3. ASSUME NEW q \in Requests, RequestStep(q) PROVE RequestsMakeSense'
  <2>1. \A r \in Requests \ {q} : Sensible(r)'
    BY <1>0, <1>3, <1>a, Frame DEF Sensible
  <2> QED
    BY <1>2, <1>3, <2>1 DEF RequestsMakeSense, Sensible
<1> QED
  BY <1>1, <1>3 DEF AccountsNext, Expiry, ExpireToken, ExpireIndex, accountVars

-----------------------------------------------------------------------------
(* Reset tokens *)

\* The requests that work on the tokens of u, one at a time unless they race.
TokenFacts(u) ==
  /\ \A r, s \in Requests :
       Resetting(r) /\ Resetting(s) /\ found[r] = u /\ found[s] = u => r = s
  /\ \A t \in Tokens : resetUser[t] = u =>
       \/ resetToken[u] = t
       \/ \E r \in Requests : pc[r] = "setIndex" /\ found[r] = u /\ call[r].token = t
  /\ \A r \in Requests : Resetting(r) /\ found[r] = u =>
       /\ pc[r] = "dropToken" => \A t \in Tokens : resetUser[t] = u => t = seen[r]
       /\ pc[r] \in {"dropIndex", "setToken"} => \A t \in Tokens : resetUser[t] # u
       /\ pc[r] = "setIndex" => \A t \in Tokens : resetUser[t] = u => t = call[r].token

\* The steps that have to do with reset tokens, and the rest.
Resetter(q) ==
  \/ Forgot(q) \/ Redeem(q) \/ ReadUser(q) \/ Reset(q) \/ LookUp(q) \/ DropToken(q)
  \/ DropIndex(q) \/ SetToken(q) \/ SetIndex(q) \/ Fails(q)

LEMMA OthersLeaveTokens ==
  ASSUME AccountsInv, NEW q \in Requests, RequestStep(q), ~Resetter(q)
  PROVE  /\ UNCHANGED <<resetUser, resetToken, raced>>
         /\ ~Resetting(q) /\ ~Resetting(q)' /\ pc[q] # "setIndex"
<1> USE DEF AccountsInv, AccountsTypeOK, Goto, Close, redis, history, Resetting
<1>1. CASE Begin(q)
  <2>1. PICK c \in Calls : call' = [call EXCEPT ![q] = c] /\ pc' = [pc EXCEPT ![q] = FirstStep(c)]
    BY <1>1 DEF Begin
  <2>2. call'[q] = c /\ pc'[q] = FirstStep(c) /\ c.op \in Ops \ {"none"}
    BY <2>1, BegunCall, CallFields
  <2>3. ~Resetting(q)'
    BY <2>2 DEF FirstStep, Ops
  <2> QED
    BY <1>1, <2>3 DEF Begin
<1>2. CASE EmailTaken(q)
  BY <1>2 DEF EmailTaken
<1>3. CASE Create(q)
  BY <1>3 DEF Create
<1>4. CASE Login(q)
  BY <1>4 DEF Login
<1>5. CASE GetUser(q)
  BY <1>5 DEF GetUser
<1>6. CASE VerifyCurrent(q)
  BY <1>6 DEF VerifyCurrent
<1>7. CASE Change(q)
  BY <1>7 DEF Change
<1>8. CASE Delete(q)
  BY <1>8 DEF Delete
<1>9. CASE Send(q)
  BY <1>9 DEF Send
<1> QED
  BY <1>1, <1>2, <1>3, <1>4, <1>5, <1>6, <1>7, <1>8, <1>9 DEF RequestStep, Resetter

\* What a step on the tokens does to a user it is not about.
LEMMA OtherUsers ==
  ASSUME AccountsInv, NEW q \in Requests, Resetter(q), NEW u \in Users \ raced,
         found[q] # u, found'[q] # u
  PROVE  TokenFacts(u)'
<1> USE AccountsAssumption DEF AccountsTypeOK, Goto, Close, redis, history
<1>1. AccountsTypeOK /\ TokenFacts(u)
  BY DEF AccountsInv, TokensAreIndexed, TokenFacts
<1>2. resetToken'[u] = resetToken[u] /\ \A t \in Tokens : resetUser'[t] = u => resetUser[t] = u
  <2>1. UNCHANGED <<resetUser, resetToken>>
        \/ DropToken(q) \/ DropIndex(q) \/ SetToken(q) \/ SetIndex(q)
    BY DEF Resetter, Forgot, Redeem, ReadUser, Reset, LookUp, Fails
  <2>2. CASE DropToken(q)
    BY <1>1, <2>2 DEF DropToken
  <2>3. CASE DropIndex(q)
    BY <1>1, <2>3 DEF DropIndex
  <2>4. CASE SetToken(q)
    BY <1>1, <2>4 DEF SetToken
  <2>5. CASE SetIndex(q)
    BY <1>1, <2>5 DEF SetIndex
  <2> QED
    BY <2>1, <2>2, <2>3, <2>4, <2>5
<1>3. \A r \in Requests \ {q} :
        call'[r] = call[r] /\ pc'[r] = pc[r] /\ found'[r] = found[r] /\ seen'[r] = seen[r]
  BY Frame DEF Resetter, RequestStep
<1> QED
  BY <1>1, <1>2, <1>3 DEF TokenFacts, Resetting

\* A request begins to work on the tokens of its user.
LEMMA Starting ==
  ASSUME AccountsInv, NEW q \in Requests, Forgot(q) \/ Redeem(q), NEW u \in Users \ raced'
  PROVE  TokenFacts(u)'
<1>1. /\ AccountsTypeOK /\ call' = call /\ UNCHANGED <<resetUser, resetToken, seen>>
      /\ call[q].op \in {"forgot", "reset"} /\ pc[q] \in {"find", "redeem"}
      /\ pc'[q] \in {"closed", "lookup", "read"}
  BY DEF AccountsInv, AccountsTypeOK, Forgot, Redeem, redis, Goto, Close
<1>2. \A r \in Requests \ {q} : pc'[r] = pc[r] /\ found'[r] = found[r]
  BY Frame DEF RequestStep
<1>3. u \notin raced
  BY DEF Forgot, Redeem, StartsResetting
<1>4. TokenFacts(u)
  BY <1>3 DEF AccountsInv, TokensAreIndexed, TokenFacts
<1>5. pc'[q] # "closed" /\ found'[q] = u =>
        \A r \in Requests \ {q} : ~(Resetting(r) /\ found[r] = u)
  <2>1. pc'[q] # "closed" => \E v : StartsResetting(q, v) /\ found'[q] = v
    BY DEF AccountsInv, AccountsTypeOK, Forgot, Redeem, Goto, Close
  <2> QED
    BY <2>1 DEF StartsResetting
<1>6. \A r \in Requests \ {q} : Resetting(r)' <=> Resetting(r)
  BY <1>1, <1>2 DEF Resetting
<1>7. Resetting(q)' => pc'[q] # "closed"
  BY DEF Resetting
<1>8. ~Resetting(q) /\ pc[q] # "setIndex"
  BY <1>1 DEF Resetting
<1> QED
  BY <1>1, <1>2, <1>4, <1>5, <1>6, <1>7, <1>8 DEF TokenFacts

LEMMA TokenStep ==
  ASSUME AccountsInv, NEW q \in Requests, Resetter(q), NEW u \in Users \ raced'
  PROVE  TokenFacts(u)'
<1> USE AccountsAssumption DEF AccountsTypeOK, Goto, Close, redis, history
<1>1. CASE Forgot(q) \/ Redeem(q)
  BY <1>1, Starting
<1>2. ASSUME ~Forgot(q), ~Redeem(q) PROVE TokenFacts(u)'
  <2>1. found' = found /\ call' = call /\ raced \subseteq raced'
    BY <1>2 DEF Resetter, ReadUser, Reset, LookUp, DropToken, DropIndex, SetToken, SetIndex, Fails
  <2>2. CASE found[q] # u
    BY <2>1, <2>2, OtherUsers
  <2>3. ASSUME found[q] = u PROVE TokenFacts(u)'
    <3>1. AccountsTypeOK /\ TokenFacts(u)
      BY <2>1 DEF AccountsInv, TokensAreIndexed, TokenFacts
    <3>2. \A r \in Requests \ {q} : pc'[r] = pc[r] /\ seen'[r] = seen[r]
      BY Frame DEF Resetter, RequestStep
    <3>3. /\ pc[q] \in {"dropToken", "dropIndex", "lookup"} => call[q].op \in {"forgot", "reset"}
          /\ pc[q] \in {"setToken", "setIndex"} => call[q].op = "forgot"
      BY StepsOfOps DEF AccountsInv
    <3>4. CASE Fails(q)
      <4>1. ~Resetting(q)
        BY <2>3, <3>4 DEF Fails
      <4>2. pc[q] # "setIndex"
        BY <3>3, <4>1 DEF Resetting
      <4>3. UNCHANGED <<resetUser, resetToken>> /\ pc'[q] = "closed"
        BY <3>1, <3>4 DEF Fails
      <4> QED
        BY <2>1, <3>1, <3>2, <4>1, <4>2, <4>3 DEF TokenFacts, Resetting
    <3>5. CASE ReadUser(q) \/ Reset(q)
      <4>1. /\ UNCHANGED <<resetUser, resetToken>>
            /\ call[q].op = "reset" /\ pc[q] \in {"read", "write"}
            /\ pc'[q] \in {"closed", "write", "lookup"}
        BY <3>1, <3>5 DEF ReadUser, Reset
      <4> QED
        BY <2>1, <3>1, <3>2, <4>1 DEF TokenFacts, Resetting
    <3>6. Resetting(q) =>
            \A r \in Requests \ {q} : ~(Resetting(r) /\ found[r] = u)
                                     /\ ~(pc[r] = "setIndex" /\ found[r] = u)
      <4>1. \A r \in Requests : pc[r] = "setIndex" => Resetting(r)
        BY StepsOfOps DEF AccountsInv, Resetting
      <4> QED
        BY <2>3, <3>1, <4>1 DEF TokenFacts
    <3>7. CASE LookUp(q)
      <4>1. /\ UNCHANGED <<resetUser, resetToken>> /\ pc[q] = "lookup" /\ Resetting(q)
            /\ \/ pc'[q] = "dropToken" /\ seen'[q] = resetToken[u]
               \/ pc'[q] \in {"closed", "setToken"} /\ resetToken[u] = None
        BY <2>3, <3>1, <3>3, <3>7 DEF LookUp, Invalidated, Resetting
      <4>2. \A t \in Tokens : resetUser[t] = u => resetToken[u] = t
        BY <3>1, <3>6, <4>1 DEF TokenFacts
      <4> QED
        BY <2>1, <3>1, <3>2, <3>6, <3>7, <4>1, <4>2 DEF TokenFacts, Resetting
    <3>8. CASE DropToken(q)
      <4>1. /\ UNCHANGED <<resetToken, seen>> /\ pc[q] = "dropToken" /\ pc'[q] = "dropIndex"
            /\ resetUser' = [resetUser EXCEPT ![seen[q]] = None] /\ Resetting(q)
        BY <3>1, <3>3, <3>8 DEF DropToken, Resetting
      <4>2. \A t \in Tokens : resetUser[t] = u => t = seen[q]
        BY <2>3, <3>1, <4>1 DEF TokenFacts
      <4>3. \A t \in Tokens : resetUser'[t] # u
        BY <3>1, <4>1, <4>2
      <4> QED
        BY <2>1, <2>3, <3>1, <3>2, <4>1, <4>3 DEF TokenFacts, Resetting
    <3>9. CASE DropIndex(q)
      <4>1. /\ UNCHANGED <<resetUser, seen>> /\ pc[q] = "dropIndex" /\ pc'[q] \in {"closed", "setToken"}
            /\ Resetting(q)
        BY <3>1, <3>3, <3>9 DEF DropIndex, Invalidated, Resetting
      <4>2. \A t \in Tokens : resetUser[t] # u
        BY <2>3, <3>1, <4>1 DEF TokenFacts
      <4> QED
        BY <2>1, <2>3, <3>1, <3>2, <4>1, <4>2 DEF TokenFacts, Resetting
    <3>10. CASE SetToken(q)
      <4>1. /\ UNCHANGED <<resetToken, seen>> /\ pc[q] = "setToken" /\ pc'[q] = "setIndex"
            /\ resetUser' = [resetUser EXCEPT ![call[q].token] = u] /\ Resetting(q)
            /\ call[q].op = "forgot"
        BY <2>3, <3>1, <3>3, <3>10 DEF SetToken, Resetting
      <4>2. \A t \in Tokens : resetUser[t] # u
        BY <2>3, <3>1, <4>1 DEF TokenFacts
      <4>3. \A t \in Tokens : resetUser'[t] = u => t = call[q].token
        BY <3>1, <4>1, <4>2
      <4>4. \A r \in Requests \ {q} : ~(Resetting(r) /\ found[r] = u)
        BY <2>3, <3>1, <4>1 DEF TokenFacts
      <4> QED
        BY <2>1, <2>3, <3>1, <3>2, <4>1, <4>3, <4>4 DEF TokenFacts, Resetting
    <3>11. CASE SetIndex(q)
      <4>1. /\ UNCHANGED <<resetUser, seen>> /\ pc[q] = "setIndex" /\ pc'[q] = "send"
            /\ resetToken' = [resetToken EXCEPT ![u] = call[q].token] /\ Resetting(q)
        BY <2>3, <3>1, <3>3, <3>11 DEF SetIndex, Resetting
      <4>2. \A t \in Tokens : resetUser[t] = u => t = call[q].token
        BY <2>3, <3>1, <4>1 DEF TokenFacts
      <4>3. \A r \in Requests \ {q} : ~(Resetting(r) /\ found[r] = u)
        BY <2>3, <3>1, <4>1 DEF TokenFacts
      <4> QED
        BY <2>1, <2>3, <3>1, <3>2, <4>1, <4>2, <4>3 DEF TokenFacts, Resetting
    <3> QED
      BY <1>2, <3>4, <3>5, <3>7, <3>8, <3>9, <3>10, <3>11 DEF Resetter
  <2> QED
    BY <2>2, <2>3
<1> QED
  BY <1>1, <1>2

LEMMA IndexStep ==
  ASSUME AccountsInv, [AccountsNext]_accountVars
  PROVE  TokensAreIndexed' /\ raced \subseteq raced'
<1> DEFINE Goal == raced \subseteq raced' /\ \A u \in Users \ raced' : TokenFacts(u)'
<1>0. AccountsTypeOK /\ \A u \in Users \ raced : TokenFacts(u)
  BY DEF AccountsInv, TokensAreIndexed, TokenFacts
<1>1. ASSUME NEW q \in Requests, Resetter(q) PROVE Goal
  <2>1. raced \subseteq raced'
    BY <1>1 DEF Resetter, Forgot, Redeem, ReadUser, Reset, LookUp, DropToken, DropIndex,
       SetToken, SetIndex, Fails, StartsResetting, history
  <2> QED
    BY <1>1, <2>1, TokenStep
<1>2. ASSUME NEW q \in Requests, RequestStep(q), ~Resetter(q) PROVE Goal
  <2>1. /\ UNCHANGED <<resetUser, resetToken, raced>>
        /\ ~Resetting(q) /\ ~Resetting(q)' /\ pc[q] # "setIndex"
    BY <1>2, OthersLeaveTokens
  <2>2. \A r \in Requests \ {q} :
          call'[r] = call[r] /\ pc'[r] = pc[r] /\ found'[r] = found[r] /\ seen'[r] = seen[r]
    BY <1>2, Frame
  <2>3. \A r \in Requests \ {q} : Resetting(r)' <=> Resetting(r)
    BY <2>2 DEF Resetting
  <2> QED
    BY <1>0, <2>1, <2>2, <2>3 DEF TokenFacts
<1>3. ASSUME Expiry PROVE Goal
  <2>1. /\ UNCHANGED <<call, pc, found, seen, raced>>
        /\ \A t \in Tokens : resetUser'[t] \in {resetUser[t], None}
        /\ \A u \in Users : resetToken'[u] # resetToken[u] =>
             resetToken[u] # None /\ resetUser' = resetUser /\ resetUser[resetToken[u]] = None
    BY <1>0, <1>3 DEF Expiry, ExpireToken, ExpireIndex, history, AccountsTypeOK
  <2> QED
    BY <1>0, <2>1, AccountsAssumption DEF TokenFacts, Resetting, AccountsTypeOK
<1>4. ASSUME UNCHANGED accountVars PROVE Goal
  BY <1>0, <1>4 DEF accountVars, redis, history, TokenFacts, Resetting
<1>5. Goal
  BY <1>1, <1>2, <1>3, <1>4 DEF AccountsNext
<1> QED
  BY <1>5 DEF TokensAreIndexed, TokenFacts

-----------------------------------------------------------------------------
(* Progress and answers *)

\* ProgressIsRecorded and AnswersAreHonest of one request.
Recorded(r) ==
  LET op == call[r].op IN
    /\ answer[r] # 0 => pc[r] = "closed"
    /\ r \in told => pc[r] = "closed"
    /\ r \in did =>
         /\ op # "forgot" /\ found[r] # None
         /\ pc[r] \in {"send", "lookup", "dropToken", "dropIndex", "closed"}
    /\ op = "forgot" /\ pc[r] = "find" => found[r] = None
    /\ op \in {"register", "change"} /\ pc[r] = "send" => r \in did
    /\ op = "delete" /\ pc[r] = "send" => found[r] \in gone
    /\ op = "reset" /\ pc[r] \in {"lookup", "dropToken", "dropIndex"} =>
         r \in did \/ found[r] \in gone

Honest(r) ==
  LET op == call[r].op IN
    /\ answer[r] \in {400, 401, 404} => r \notin did \cup told
    /\ answer[r] \in {200, 201} =>
         /\ op \in {"register", "change"} => r \in did \cap told
         /\ op = "delete" => r \in told /\ found[r] \in gone
         /\ op = "reset" => r \in did \/ found[r] \in gone
         /\ op = "forgot" /\ found[r] # None => r \in told

\* A step records what it does, and no step says what it did not do.
LEMMA AnswerStep ==
  ASSUME AccountsInv, NEW q \in Requests, RequestStep(q), Honest(q)
  PROVE  Recorded(q)' /\ Honest(q)'
<1> USE AccountsAssumption DEF AccountsTypeOK, Goto, Close, Recorded, Honest, history, tables
<1>0. AccountsTypeOK /\ Recorded(q) /\ call[q].op \in Ops
  BY CallFields DEF AccountsInv, ProgressIsRecorded
<1>a. RefusalOf(call[q]) \in {400, 401, 404} /\ SuccessOf(call[q]) \in {200, 201}
  BY DEF RefusalOf, SuccessOf
<1>b. found[q] # None => found[q] \in live \cup gone
  BY DEF AccountsInv, RequestsMakeSense
<1>c. /\ call[q].op = "none" <=> pc[q] = "idle"
      /\ pc[q] \in {"dropToken", "dropIndex", "lookup"} => call[q].op \in {"forgot", "reset"}
      /\ pc[q] \in {"setToken", "setIndex"} => call[q].op = "forgot"
      /\ pc[q] = "send" => call[q].op \in {"register", "change", "delete", "forgot"}
  BY StepsOfOps DEF AccountsInv
<1>1. CASE Begin(q)
  <2>1. PICK c \in Calls :
          /\ call' = [call EXCEPT ![q] = c]
          /\ found' = [found EXCEPT ![q] = c.user]
          /\ pc' = [pc EXCEPT ![q] = FirstStep(c)]
    BY <1>1 DEF Begin
  <2>2. /\ c.op \in Ops \ {"none"}
        /\ c.op = "forgot" => c.user = None
        /\ call'[q] = c /\ found'[q] = c.user /\ pc'[q] = FirstStep(c)
    BY <1>0, <2>1, CallFields, BegunCall
  <2>3. FirstStep(c) \notin {"send", "lookup", "dropToken", "dropIndex", "closed"}
    BY <2>2 DEF FirstStep, Ops
  <2>4. answer'[q] = 0 /\ q \notin did' /\ q \notin told'
    BY <1>0, <1>1 DEF Begin
  <2> QED
    BY <2>2, <2>3, <2>4
<1>2. CASE EmailTaken(q)
  BY <1>2, <1>0, <1>a, <1>b DEF EmailTaken
<1>3. CASE Create(q)
  BY <1>3, <1>0, <1>a, <1>b DEF Create
<1>4. CASE Login(q)
  BY <1>4, <1>0, <1>a, <1>b DEF Login
<1>5. CASE GetUser(q)
  BY <1>5, <1>0, <1>a, <1>b DEF GetUser
<1>6. CASE VerifyCurrent(q)
  BY <1>6, <1>0, <1>a, <1>b DEF VerifyCurrent
<1>7. CASE Change(q)
  BY <1>7, <1>0, <1>a, <1>b DEF Change
<1>8. CASE Delete(q)
  BY <1>8, <1>0, <1>a, <1>b DEF Delete
<1>9. CASE Forgot(q)
  BY <1>9, <1>0, <1>a, <1>b DEF Forgot, ByEmail
<1>10. CASE Redeem(q)
  BY <1>10, <1>0, <1>a, <1>b DEF Redeem
<1>11. CASE ReadUser(q)
  BY <1>11, <1>0, <1>a, <1>b DEF ReadUser
<1>12. CASE Reset(q)
  <2>1. found[q] \in live \cup gone
    BY <1>b, <1>12 DEF Reset, AccountsInv, RequestsMakeSense, Working
  <2> QED
    BY <1>12, <1>0, <2>1 DEF Reset
<1>13. CASE LookUp(q)
  BY <1>13, <1>0, <1>a, <1>c DEF LookUp, Invalidated
<1>14. CASE DropToken(q)
  BY <1>14, <1>0, <1>a, <1>b DEF DropToken
<1>15. CASE DropIndex(q)
  BY <1>15, <1>0, <1>a, <1>c DEF DropIndex, Invalidated
<1>16. CASE SetToken(q)
  BY <1>16, <1>0, <1>a, <1>b DEF SetToken
<1>17. CASE SetIndex(q)
  BY <1>17, <1>0, <1>a, <1>c DEF SetIndex
<1>18. CASE Send(q)
  BY <1>18, <1>0, <1>a, <1>c DEF Send
<1>19. CASE Fails(q)
  BY <1>19, <1>0, <1>a, <1>b DEF Fails, Open
<1> QED
  BY <1>1, <1>2, <1>3, <1>4, <1>5, <1>6, <1>7, <1>8, <1>9, <1>10, <1>11, <1>12, <1>13, <1>14, <1>15, <1>16, <1>17, <1>18, <1>19 DEF RequestStep

-----------------------------------------------------------------------------
(* Whom tokens stand for *)

\* A forgotten password's token may have been stored.
Stored(r) == pc[r] \in {"setIndex", "send", "closed"}

\* A step that lets tokens stand for fewer users, and forgets no token.
LEMMA FewerHolders ==
  ASSUME AccountsInv, [AccountsNext]_accountVars, call' = call, issued' = issued,
         \A t \in Tokens : HoldersOf(t)' \subseteq HoldersOf(t),
         \A r \in Requests : call[r].op = "forgot" /\ Stored(r) => Stored(r)'
  PROVE  TokensHaveOneHolder'
<1>1. live \cup gone \subseteq live' \cup gone'
  BY RowsStep
<1>3. TokensHaveOneHolder
  BY DEF AccountsInv
<1>4. \A t \in Tokens :
        /\ HoldersOf(t)' \subseteq live' \cup gone'
        /\ HoldersOf(t)' # {} => t \in issued'
        /\ \A u, v \in HoldersOf(t)' : u = v
  BY <1>1, <1>3 DEF TokensHaveOneHolder
<1>5. \A t \in Tokens, r \in Requests : call[r].op = "forgot" /\ call[r].token = t =>
        /\ t \in issued'
        /\ ~Stored(r)' => HoldersOf(t)' = {}
        /\ \A s \in Requests : call[s].op = "forgot" /\ call[s].token = t => r = s
  BY <1>3 DEF TokensHaveOneHolder, Stored
<1> QED
  BY <1>4, <1>5 DEF TokensHaveOneHolder, Stored

\* Steps that change neither the stored tokens nor the users of resets.
LEMMA SameHolders ==
  ASSUME AccountsInv, NEW q \in Requests, RequestStep(q),
         ~Begin(q), ~Redeem(q), ~DropToken(q), ~SetToken(q)
  PROVE  TokensHaveOneHolder'
<1> USE DEF AccountsInv, AccountsTypeOK, Goto, Close, redis, history
<1>1. /\ call' = call /\ issued' = issued /\ resetUser' = resetUser
      /\ \A r \in Requests : call[r].op = "reset" => found'[r] = found[r]
      /\ call[q].op = "forgot" /\ Stored(q) => Stored(q)'
  <2> DEFINE Goal == /\ call' = call /\ issued' = issued /\ resetUser' = resetUser
                     /\ \A r \in Requests : call[r].op = "reset" => found'[r] = found[r]
                     /\ call[q].op = "forgot" /\ Stored(q) => Stored(q)'
  <2>1. CASE EmailTaken(q)
    BY <2>1 DEF EmailTaken, Stored
  <2>2. CASE Create(q)
    BY <2>2 DEF Create, Stored
  <2>3. CASE Login(q)
    BY <2>3 DEF Login, Stored
  <2>4. CASE GetUser(q)
    BY <2>4 DEF GetUser, Stored
  <2>5. CASE VerifyCurrent(q)
    BY <2>5 DEF VerifyCurrent, Stored
  <2>6. CASE Change(q)
    BY <2>6 DEF Change, Stored
  <2>7. CASE Delete(q)
    BY <2>7 DEF Delete, Stored
  <2>8. CASE Forgot(q)
    BY <2>8 DEF Forgot, Stored
  <2>9. CASE ReadUser(q)
    BY <2>9 DEF ReadUser, Stored
  <2>10. CASE Reset(q)
    BY <2>10 DEF Reset, Stored
  <2>11. CASE LookUp(q)
    BY <2>11 DEF LookUp, Invalidated, Stored
  <2>12. CASE DropIndex(q)
    BY <2>12 DEF DropIndex, Invalidated, Stored
  <2>13. CASE SetIndex(q)
    BY <2>13 DEF SetIndex, Stored
  <2>14. CASE Send(q)
    BY <2>14 DEF Send, Stored
  <2>15. CASE Fails(q)
    BY <2>15 DEF Fails, Stored
  <2> QED
    BY <2>1, <2>2, <2>3, <2>4, <2>5, <2>6, <2>7, <2>8, <2>9, <2>10, <2>11, <2>12, <2>13, <2>14, <2>15 DEF RequestStep
<1>2. \A t \in Tokens : HoldersOf(t)' = HoldersOf(t)
  BY <1>1 DEF HoldersOf, Redeeming
<1>3. \A r \in Requests \ {q} : pc'[r] = pc[r]
  BY Frame
<1> QED
  BY <1>1, <1>2, <1>3, FewerHolders DEF Stored, AccountsNext

LEMMA HolderStep ==
  ASSUME AccountsInv, [AccountsNext]_accountVars
  PROVE  TokensHaveOneHolder'
<1> USE AccountsAssumption
<1>0. AccountsTypeOK /\ TokensHaveOneHolder
  BY DEF AccountsInv
<1>1. ASSUME NEW q \in Requests, Begin(q) PROVE TokensHaveOneHolder'
  <2>1. PICK c \in Calls :
          /\ c.op = "forgot" => c.token \notin issued /\ \A s \in Requests : call[s].token # c.token
          /\ issued' = IF c.op = "forgot" THEN issued \cup {c.token} ELSE issued
          /\ call' = [call EXCEPT ![q] = c]
          /\ found' = [found EXCEPT ![q] = c.user]
    BY <1>1 DEF Begin
  <2>2. /\ c.op = "reset" => c.user = None
        /\ c.op = "forgot" => c.token \in Tokens
        /\ call'[q] = c /\ found'[q] = c.user
    BY <1>0, <2>1, CallFields DEF AccountsTypeOK
  <2>3. \A r \in Requests \ {q} : call'[r] = call[r] /\ pc'[r] = pc[r] /\ found'[r] = found[r]
    BY <1>1, Frame DEF RequestStep
  <2>4. UNCHANGED <<resetUser, live, gone>>
    BY <1>1 DEF Begin, redis, tables
  <2>5. \A t \in Tokens : HoldersOf(t)' \subseteq HoldersOf(t)
    BY <2>2, <2>3, <2>4 DEF HoldersOf, Redeeming
  <2>6. c.op = "forgot" => HoldersOf(c.token) = {}
    BY <1>0, <2>1, <2>2 DEF TokensHaveOneHolder
  <2>7. \A t \in Tokens :
          /\ HoldersOf(t)' \subseteq live' \cup gone'
          /\ HoldersOf(t)' # {} => t \in issued'
          /\ \A u, v \in HoldersOf(t)' : u = v
    BY <1>0, <2>1, <2>4, <2>5 DEF TokensHaveOneHolder
  <2>8. \A r \in Requests : call[r].op = "forgot" => call[r].token \in Tokens
    BY <1>0, CallFields DEF AccountsTypeOK
  <2>9. ASSUME NEW r \in Requests, NEW t \in Tokens, call'[r].op = "forgot", call'[r].token = t
        PROVE  /\ t \in issued'
               /\ ~Stored(r)' => HoldersOf(t)' = {}
               /\ \A s \in Requests : call'[s].op = "forgot" /\ call'[s].token = t => r = s
    <3>2. CASE r = q
      <4>1. c.op = "forgot" /\ t = c.token
        BY <2>2, <2>9, <3>2
      <4>2. t \in issued' /\ HoldersOf(t)' = {}
        BY <2>1, <2>5, <2>6, <4>1
      <4>3. \A s \in Requests : call'[s].token = t => q = s
        BY <2>1, <2>3, <4>1
      <4> QED
        BY <3>2, <4>2, <4>3
    <3>3. CASE r # q
      <4>1. call[r].op = "forgot" /\ call[r].token = t /\ pc'[r] = pc[r]
        BY <2>3, <2>9, <3>3
      <4>2. /\ t \in issued
            /\ ~Stored(r) => HoldersOf(t) = {}
            /\ \A s \in Requests : call[s].op = "forgot" /\ call[s].token = t => r = s
        BY <1>0, <4>1 DEF TokensHaveOneHolder, Stored
      <4>3. ~Stored(r)' => HoldersOf(t)' = {}
        BY <2>5, <4>1, <4>2 DEF Stored
      <4>4. t \in issued'
        BY <2>1, <4>2
      <4>5. \A s \in Requests : call'[s].op = "forgot" /\ call'[s].token = t => r = s
        BY <2>1, <2>2, <2>3, <4>1, <4>2
      <4> QED
        BY <4>3, <4>4, <4>5
    <3> QED
      BY <3>2, <3>3
  <2>10. \A r \in Requests : call'[r].op = "forgot" => call'[r].token \in Tokens
    BY <2>2, <2>3, <2>8
  <2> QED
    BY <2>7, <2>9, <2>10 DEF TokensHaveOneHolder, Stored
<1>2. ASSUME NEW q \in Requests, Redeem(q) PROVE TokensHaveOneHolder'
  <2>1. /\ call' = call /\ UNCHANGED <<resetUser, issued>> /\ call[q].op = "reset"
        /\ found'[q] \in {found[q], resetUser[call[q].token]}
    BY <1>0, <1>2 DEF Redeem, redis, AccountsTypeOK
  <2>2. \A r \in Requests \ {q} : pc'[r] = pc[r] /\ found'[r] = found[r]
    BY <1>2, Frame DEF RequestStep
  <2>3. \A t \in Tokens : HoldersOf(t)' \subseteq HoldersOf(t)
    BY <2>1, <2>2 DEF HoldersOf, Redeeming
  <2> QED
    BY <1>2, <2>1, <2>2, <2>3, FewerHolders DEF Stored, AccountsNext, RequestStep
<1>3. ASSUME NEW q \in Requests, DropToken(q) PROVE TokensHaveOneHolder'
  <2>1. /\ UNCHANGED <<call, found, issued>> /\ pc[q] = "dropToken"
        /\ \A t \in Tokens : resetUser'[t] \in {resetUser[t], None}
    BY <1>0, <1>3 DEF DropToken, history, AccountsTypeOK
  <2>2. \A r \in Requests \ {q} : pc'[r] = pc[r]
    BY <1>3, Frame DEF RequestStep
  <2>3. \A t \in Tokens : HoldersOf(t)' \subseteq HoldersOf(t)
    BY <2>1 DEF HoldersOf, Redeeming
  <2> QED
    BY <1>3, <2>1, <2>2, <2>3, FewerHolders DEF Stored, AccountsNext, RequestStep
<1>4. ASSUME NEW q \in Requests, SetToken(q) PROVE TokensHaveOneHolder'
  <2>1. /\ UNCHANGED <<call, found, issued>> /\ pc[q] = "setToken" /\ pc'[q] = "setIndex"
        /\ resetUser' = [resetUser EXCEPT ![call[q].token] = found[q]]
        /\ UNCHANGED <<live, gone>>
    BY <1>0, <1>4 DEF SetToken, history, tables, AccountsTypeOK, Goto
  <2>2. call[q].op = "forgot" /\ call[q].token \in Tokens
    BY <2>1, <1>0, CallFields, StepsOfOps DEF AccountsInv, AccountsTypeOK
  <2>3. HoldersOf(call[q].token) = {} /\ call[q].token \in issued
    BY <1>0, <2>1, <2>2 DEF TokensHaveOneHolder
  <2>4. found[q] \in live \cup gone
    BY <2>1, <2>2 DEF AccountsInv, RequestsMakeSense, Working
  <2>5. HoldersOf(call[q].token)' \subseteq {found[q]}
    BY <1>0, <2>1, <2>3 DEF HoldersOf, Redeeming, AccountsTypeOK
  <2>6. \A t \in Tokens \ {call[q].token} : HoldersOf(t)' = HoldersOf(t)
    BY <1>0, <2>1 DEF HoldersOf, Redeeming, AccountsTypeOK
  <2>7. \A t \in Tokens :
          /\ HoldersOf(t)' \subseteq live' \cup gone'
          /\ HoldersOf(t)' # {} => t \in issued'
          /\ \A u, v \in HoldersOf(t)' : u = v
    BY <1>0, <2>1, <2>3, <2>4, <2>5, <2>6 DEF TokensHaveOneHolder
  <2>8. \A r \in Requests \ {q} : pc'[r] = pc[r]
    BY <1>4, Frame DEF RequestStep
  <2>9. \A r \in Requests : call[r].op = "forgot" => call[r].token \in Tokens
    BY <1>0, CallFields DEF AccountsTypeOK
  <2>10. \A r \in Requests, t \in Tokens : call[r].op = "forgot" /\ call[r].token = t =>
           /\ t \in issued
           /\ ~Stored(r)' => HoldersOf(t)' = {}
           /\ \A s \in Requests : call[s].op = "forgot" /\ call[s].token = t => r = s
    BY <1>0, <2>1, <2>2, <2>6, <2>8 DEF TokensHaveOneHolder, Stored
  <2> QED
    BY <2>1, <2>7, <2>9, <2>10 DEF TokensHaveOneHolder, Stored
<1>5. ASSUME Expiry \/ UNCHANGED accountVars PROVE TokensHaveOneHolder'
  <2>1. /\ UNCHANGED <<call, found, issued, pc>>
        /\ \A t \in Tokens : resetUser'[t] \in {resetUser[t], None}
    BY <1>0, <1>5 DEF Expiry, ExpireToken, ExpireIndex, history, redis, accountVars, AccountsTypeOK
  <2>2. \A t \in Tokens : HoldersOf(t)' \subseteq HoldersOf(t)
    BY <2>1 DEF HoldersOf, Redeeming
  <2> QED
    BY <2>1, <2>2, FewerHolders DEF Stored
<1> QED
  BY <1>1, <1>2, <1>3, <1>4, <1>5, SameHolders DEF AccountsNext

-----------------------------------------------------------------------------
(* Tokens that were used *)

\* UsedTokensAreGone of one request.
UsedFact(r) ==
  /\ pc[r] \notin {"lookup", "dropToken"} => resetUser[call[r].token] = None
  /\ \A s \in Redeeming(call[r].token) \ {r} : s \notin did /\ pc[s] \notin {"read", "write"}

\* What a reset that has written knows of itself.
LEMMA Writer ==
  ASSUME AccountsInv, NEW r \in did, call[r].op = "reset"
  PROVE  /\ r \in Requests /\ call[r].token \in Tokens
         /\ pc[r] \in {"lookup", "dropToken", "dropIndex", "closed"}
         /\ found[r] \in Users /\ found[r] \in HoldersOf(call[r].token)
         /\ pc[r] # "closed" => Resetting(r)
<1>1. r \in Requests /\ call[r] \in Calls \cup {NoCall}
  BY DEF AccountsInv, AccountsTypeOK
<1>2. call[r].token \in Tokens
  BY <1>1, CallFields
<1>3. pc[r] \in StepsOf("reset")
  BY <1>1 DEF AccountsInv, RequestsMakeSense
<1>4. pc[r] \in {"lookup", "dropToken", "dropIndex", "closed"} /\ found[r] # None
  BY <1>1, <1>3 DEF AccountsInv, ProgressIsRecorded, StepsOf
<1> QED
  BY <1>1, <1>2, <1>4 DEF HoldersOf, Redeeming, Resetting, AccountsInv, AccountsTypeOK

\* A step that stores no token, writes for no reset and does not let a reset go on.
LEMMA QuietStep ==
  ASSUME AccountsInv, NEW q \in Requests, RequestStep(q), call' = call, raced \subseteq raced',
         \A t \in Tokens : resetUser'[t] \in {resetUser[t], None},
         \A r \in did' : call[r].op = "reset" => r \in did /\ found'[r] = found[r],
         call[q].op = "reset" /\ pc'[q] \in {"read", "write"} => pc[q] \in {"read", "write"},
         call[q].op = "reset" /\ q \in did /\ pc'[q] \notin {"lookup", "dropToken"}
           => pc[q] \notin {"lookup", "dropToken"} \/ resetUser'[call[q].token] = None
                \/ found[q] \in raced'
  PROVE  UsedTokensAreGone'
<1>1. \A s \in Requests \ {q} : pc'[s] = pc[s]
  BY Frame
<1>2. ASSUME NEW r \in did', call'[r].op = "reset", found'[r] \notin raced' PROVE UsedFact(r)'
  <2>1. r \in did /\ call[r].op = "reset" /\ found[r] \notin raced
    BY <1>2
  <2>2. UsedFact(r) /\ call[r].token \in Tokens /\ r \in Requests
    BY <2>1, Writer DEF AccountsInv, UsedTokensAreGone, UsedFact
  <2>3. pc'[r] \notin {"lookup", "dropToken"} => resetUser'[call[r].token] = None
    BY <1>1, <1>2, <2>1, <2>2 DEF UsedFact
  <2>4. ASSUME NEW s \in Redeeming(call[r].token) \ {r}
        PROVE  s \notin did' /\ pc'[s] \notin {"read", "write"}
    <3>1. s \in Requests /\ call[s].op = "reset" /\ s \notin did /\ pc[s] \notin {"read", "write"}
      BY <2>2, <2>4 DEF UsedFact, Redeeming
    <3> QED
      BY <1>1, <3>1
  <2> QED
    BY <2>3, <2>4 DEF UsedFact, Redeeming
<1> QED
  BY <1>2 DEF UsedTokensAreGone, UsedFact

\* The steps of requests that are not resets, and a reset's steps without consequence.
LEMMA QuietSteps ==
  ASSUME AccountsInv, NEW q \in Requests, RequestStep(q), raced \subseteq raced',
         ~Begin(q), ~Redeem(q), ~Reset(q), ~LookUp(q), ~DropToken(q), ~SetToken(q), ~Fails(q)
  PROVE  UsedTokensAreGone'
<1> USE DEF AccountsTypeOK, Goto, Close, redis, history
<1>0. AccountsTypeOK
  BY DEF AccountsInv
<1> DEFINE Quiet == /\ call' = call /\ resetUser' = resetUser
                    /\ \A r \in did' : call[r].op = "reset" => r \in did /\ found'[r] = found[r]
                    /\ call[q].op = "reset" /\ pc'[q] \in {"read", "write"}
                         => pc[q] \in {"read", "write"}
                    /\ call[q].op = "reset" /\ q \in did => pc[q] \notin {"lookup", "dropToken"}
<1>1. ASSUME EmailTaken(q) PROVE Quiet
  BY <1>0, <1>1 DEF EmailTaken
<1>2. ASSUME Create(q) PROVE Quiet
  BY <1>0, <1>2 DEF Create
<1>3. ASSUME Login(q) PROVE Quiet
  BY <1>0, <1>3 DEF Login
<1>4. ASSUME GetUser(q) PROVE Quiet
  BY <1>0, <1>4 DEF GetUser
<1>5. ASSUME VerifyCurrent(q) PROVE Quiet
  BY <1>0, <1>5 DEF VerifyCurrent
<1>6. ASSUME Change(q) PROVE Quiet
  BY <1>0, <1>6 DEF Change
<1>7. ASSUME Delete(q) PROVE Quiet
  BY <1>0, <1>7 DEF Delete
<1>8. ASSUME Forgot(q) PROVE Quiet
  BY <1>0, <1>8 DEF Forgot
<1>9. ASSUME ReadUser(q) PROVE Quiet
  BY <1>0, <1>9 DEF ReadUser
<1>10. ASSUME DropIndex(q) PROVE Quiet
  BY <1>0, <1>10 DEF DropIndex, Invalidated
<1>11. ASSUME SetIndex(q) PROVE Quiet
  BY <1>0, <1>11 DEF SetIndex
<1>12. ASSUME Send(q) PROVE Quiet
  BY <1>0, <1>12 DEF Send
<1>13. Quiet
  BY <1>1, <1>2, <1>3, <1>4, <1>5, <1>6, <1>7, <1>8, <1>9, <1>10, <1>11, <1>12 DEF RequestStep
<1> HIDE DEF AccountsTypeOK, Goto, Close, redis, history
<1> QED
  BY <1>0, <1>13, QuietStep

LEMMA UsedStep ==
  ASSUME AccountsInv, [AccountsNext]_accountVars
  PROVE  UsedTokensAreGone'
<1> USE AccountsAssumption DEF AccountsTypeOK, Goto, Close
<1>0. AccountsTypeOK /\ raced \subseteq raced'
  BY IndexStep DEF AccountsInv
<1>a. \A r \in did : call[r].op = "reset" /\ found[r] \notin raced => UsedFact(r)
  BY DEF AccountsInv, UsedTokensAreGone, UsedFact
<1>b. \A u \in Users \ raced : TokenFacts(u)
  BY DEF AccountsInv, TokensAreIndexed, TokenFacts
<1>c. \A t \in Tokens : \A u, v \in HoldersOf(t) : u = v
  BY DEF AccountsInv, TokensHaveOneHolder
<1>1. ASSUME NEW q \in Requests, Begin(q) PROVE UsedTokensAreGone'
  <2>1. PICK c \in Calls :
          call' = [call EXCEPT ![q] = c] /\ pc' = [pc EXCEPT ![q] = FirstStep(c)]
    BY <1>1 DEF Begin
  <2>2. q \notin did /\ UNCHANGED <<did, resetUser, raced>>
    BY <1>1 DEF Begin, AccountsInv, ProgressIsRecorded, redis
  <2>3. \A s \in Requests \ {q} : pc'[s] = pc[s] /\ found'[s] = found[s] /\ call'[s] = call[s]
    BY <1>1, Frame DEF RequestStep
  <2>4. call'[q] = c /\ pc'[q] = FirstStep(c) /\ c.op \in Ops \ {"none"}
    BY <1>0, <2>1, CallFields, BegunCall
  <2>5. call'[q].op = "reset" => pc'[q] \notin {"read", "write"}
    BY <2>4 DEF FirstStep
  <2>6. ASSUME NEW r \in did', call'[r].op = "reset", found'[r] \notin raced' PROVE UsedFact(r)'
    <3>1. r \in did /\ r \in Requests \ {q}
      BY <1>0, <2>2, <2>6
    <3>2. UsedFact(r) /\ call'[r] = call[r]
      BY <1>a, <2>2, <2>3, <2>6, <3>1
    <3> QED
      BY <2>2, <2>3, <2>5, <3>1, <3>2 DEF UsedFact, Redeeming
  <2> QED
    BY <2>6 DEF UsedTokensAreGone, UsedFact
<1>2. ASSUME NEW q \in Requests, Redeem(q) PROVE UsedTokensAreGone'
  <2>1. /\ call' = call /\ UNCHANGED <<resetUser, did>> /\ call[q].op = "reset" /\ pc[q] = "redeem"
    BY <1>2 DEF Redeem, redis
  <2>2. \A s \in Requests \ {q} : pc'[s] = pc[s] /\ found'[s] = found[s]
    BY <1>2, Frame DEF RequestStep
  <2>3. ASSUME NEW r \in did', call'[r].op = "reset", found'[r] \notin raced' PROVE UsedFact(r)'
    <3>1. r \in did /\ call[r].op = "reset"
      BY <2>1, <2>3
    <3>2. /\ r \in Requests /\ r # q /\ call[r].token \in Tokens
          /\ found[r] \in Users /\ found[r] \in HoldersOf(call[r].token)
          /\ pc[r] # "closed" => Resetting(r)
      BY <2>1, <3>1, Writer
    <3>3. found[r] \notin raced /\ UsedFact(r)
      BY <1>0, <1>a, <2>2, <2>3, <3>1, <3>2
    <3>4. call[q].token = call[r].token => pc'[q] \notin {"read", "write"}
      <4>1. SUFFICES ASSUME call[q].token = call[r].token, pc'[q] \in {"read", "write"} PROVE FALSE
        OBVIOUS
      <4>2. resetUser[call[r].token] # None /\ StartsResetting(q, resetUser[call[r].token])
        BY <1>0, <1>2, <4>1 DEF Redeem
      <4>3. resetUser[call[r].token] = found[r]
        BY <1>c, <3>2, <4>2 DEF HoldersOf
      <4>4. pc[r] \in {"lookup", "dropToken"}
        BY <3>3, <4>2 DEF UsedFact
      <4>5. found[r] \in raced'
        BY <3>2, <4>2, <4>3, <4>4 DEF StartsResetting
      <4> QED
        BY <2>2, <2>3, <3>2, <4>5
    <3> QED
      BY <2>1, <2>2, <3>2, <3>3, <3>4 DEF UsedFact, Redeeming
  <2> QED
    BY <2>3 DEF UsedTokensAreGone, UsedFact
<1>3. ASSUME NEW q \in Requests, Reset(q) PROVE UsedTokensAreGone'
  <2>1. /\ UNCHANGED <<call, found, resetUser, raced>> /\ call[q].op = "reset" /\ pc[q] = "write"
        /\ pc'[q] = "lookup" /\ did' \subseteq did \cup {q}
    BY <1>0, <1>3 DEF Reset, redis
  <2>2. \A s \in Requests \ {q} : pc'[s] = pc[s]
    BY <1>3, Frame DEF RequestStep
  <2>3. q \notin did
    BY <2>1, Writer
  <2>4. call[q].token \in Tokens /\ found[q] \in Users /\ found[q] \in HoldersOf(call[q].token)
    BY <1>0, <2>1, CallFields DEF AccountsInv, RequestsMakeSense, Working, HoldersOf, Redeeming
  <2>5. ASSUME NEW r \in did', call'[r].op = "reset", found'[r] \notin raced' PROVE UsedFact(r)'
    <3>1. CASE r = q
      <4>1. ASSUME NEW s \in Redeeming(call[q].token) \ {q} PROVE s \notin did /\ pc[s] \notin {"read", "write"}
        <5>1. s \in Requests /\ call[s].op = "reset" /\ call[s].token = call[q].token
          BY <4>1 DEF Redeeming
        <5>2. ASSUME s \in did PROVE FALSE
          <6>1. found[s] \in HoldersOf(call[q].token)
            BY <5>1, <5>2, Writer
          <6>2. found[s] = found[q]
            BY <1>c, <2>4, <6>1
          <6>3. UsedFact(s)
            BY <1>a, <2>1, <2>5, <3>1, <5>1, <5>2, <6>2
          <6> QED
            BY <2>1, <4>1, <5>1, <6>3 DEF UsedFact, Redeeming
        <5>3. ASSUME pc[s] \in {"read", "write"} PROVE FALSE
          <6>1. found[s] # None
            BY <5>1, <5>3 DEF AccountsInv, RequestsMakeSense, Working
          <6>2. found[s] \in HoldersOf(call[q].token)
            BY <4>1, <6>1 DEF HoldersOf
          <6>3. found[s] = found[q] /\ Resetting(s) /\ Resetting(q)
            BY <1>c, <2>1, <2>4, <5>1, <5>3, <6>2 DEF Resetting
          <6>4. TokenFacts(found[q])
            BY <1>b, <2>1, <2>4, <2>5, <3>1
          <6> QED
            BY <4>1, <5>1, <6>3, <6>4 DEF TokenFacts
        <5> QED
          BY <5>2, <5>3
      <4> QED
        BY <2>1, <2>2, <3>1, <4>1 DEF UsedFact, Redeeming
    <3>2. CASE r # q
      <4>1. r \in did /\ r \in Requests /\ UsedFact(r)
        BY <1>0, <1>a, <2>1, <2>5, <3>2
      <4>2. q \notin Redeeming(call[r].token)
        BY <2>1, <3>2, <4>1 DEF UsedFact
      <4> QED
        BY <2>1, <2>2, <3>2, <4>1, <4>2 DEF UsedFact, Redeeming
    <3> QED
      BY <3>1, <3>2
  <2> QED
    BY <2>5 DEF UsedTokensAreGone, UsedFact
<1>4. ASSUME NEW q \in Requests, LookUp(q) PROVE UsedTokensAreGone'
  <2>1. /\ UNCHANGED <<call, found, resetUser, did>> /\ pc[q] = "lookup"
        /\ pc'[q] = "dropToken" \/ (resetToken[found[q]] = None /\ pc'[q] \in {"closed", "setToken"})
    BY <1>0, <1>4 DEF LookUp, Invalidated, redis, history
  <2>2. ASSUME call[q].op = "reset", q \in did, pc'[q] # "dropToken", found[q] \notin raced
        PROVE  resetUser[call[q].token] = None
    <3>1. /\ call[q].token \in Tokens /\ found[q] \in Users /\ found[q] \in HoldersOf(call[q].token)
          /\ Resetting(q)
      BY <2>1, <2>2, Writer
    <3>2. TokenFacts(found[q])
      BY <1>b, <2>2, <3>1
    <3>3. \A r \in Requests : pc[r] = "setIndex" => Resetting(r)
      BY StepsOfOps DEF AccountsInv, Resetting
    <3>4. resetUser[call[q].token] # found[q]
      BY <2>1, <2>2, <3>1, <3>2, <3>3 DEF TokenFacts
    <3> QED
      BY <1>c, <3>1, <3>4 DEF HoldersOf
  <2> HIDE DEF Goto, Close
  <2> QED
    BY <1>0, <1>4, <2>1, <2>2, QuietStep DEF RequestStep
<1>5. ASSUME NEW q \in Requests, DropToken(q) PROVE UsedTokensAreGone'
  <2>1. /\ UNCHANGED <<call, found, did>> /\ pc[q] = "dropToken" /\ pc'[q] = "dropIndex"
        /\ resetUser' = [resetUser EXCEPT ![seen[q]] = None]
    BY <1>0, <1>5 DEF DropToken, history
  <2>2. ASSUME call[q].op = "reset", q \in did, found[q] \notin raced
        PROVE  resetUser'[call[q].token] = None
    <3>1. /\ call[q].token \in Tokens /\ found[q] \in Users /\ found[q] \in HoldersOf(call[q].token)
          /\ Resetting(q)
      BY <2>1, <2>2, Writer
    <3>2. resetUser[call[q].token] = found[q] => call[q].token = seen[q]
      BY <1>b, <2>1, <2>2, <3>1 DEF TokenFacts
    <3>3. resetUser[call[q].token] \in {None, found[q]}
      BY <1>c, <3>1 DEF HoldersOf
    <3> QED
      BY <1>0, <2>1, <3>1, <3>2, <3>3
  <2>3. \A t \in Tokens : resetUser'[t] \in {resetUser[t], None}
    BY <1>0, <2>1
  <2> HIDE DEF Goto, Close
  <2> QED
    BY <1>0, <1>5, <2>1, <2>2, <2>3, QuietStep DEF RequestStep
<1>6. ASSUME NEW q \in Requests, SetToken(q) PROVE UsedTokensAreGone'
  <2>1. /\ UNCHANGED <<call, found, did, raced>> /\ pc[q] = "setToken" /\ pc'[q] = "setIndex"
        /\ resetUser' = [resetUser EXCEPT ![call[q].token] = found[q]]
    BY <1>0, <1>6 DEF SetToken, history
  <2>2. call[q].op = "forgot" /\ call[q].token \in Tokens
    BY <2>1, <1>0, CallFields, StepsOfOps DEF AccountsInv
  <2>3. HoldersOf(call[q].token) = {}
    BY <2>1, <2>2 DEF AccountsInv, TokensHaveOneHolder
  <2>4. \A s \in Requests \ {q} : pc'[s] = pc[s]
    BY <1>6, Frame DEF RequestStep
  <2>5. ASSUME NEW r \in did', call'[r].op = "reset", found'[r] \notin raced' PROVE UsedFact(r)'
    <3>1. r \in did /\ call[r].op = "reset" /\ UsedFact(r) /\ r # q
      BY <1>a, <2>1, <2>2, <2>5
    <3>2. found[r] \in HoldersOf(call[r].token) /\ call[r].token \in Tokens /\ r \in Requests
      BY <3>1, Writer
    <3>3. call[r].token # call[q].token
      BY <2>3, <3>2
    <3>4. resetUser'[call[r].token] = resetUser[call[r].token]
      BY <1>0, <2>1, <3>2, <3>3
    <3> QED
      BY <2>1, <2>2, <2>4, <3>1, <3>2, <3>4 DEF UsedFact, Redeeming
  <2> QED
    BY <2>5 DEF UsedTokensAreGone, UsedFact
<1>7. ASSUME NEW q \in Requests, Fails(q) PROVE UsedTokensAreGone'
  <2>1. /\ UNCHANGED <<call, found, resetUser, did>> /\ pc'[q] = "closed" /\ pc[q] # "closed"
        /\ Resetting(q) => found[q] \in raced'
    BY <1>0, <1>7 DEF Fails, Open, redis, history
  <2>2. call[q].op = "reset" /\ q \in did => Resetting(q)
    BY <2>1, Writer
  <2> HIDE DEF Goto, Close
  <2> QED
    BY <1>0, <1>7, <2>1, <2>2, QuietStep DEF RequestStep
<1>8. ASSUME Expiry \/ UNCHANGED accountVars PROVE UsedTokensAreGone'
  <2>1. /\ UNCHANGED <<call, found, did, pc, raced>>
        /\ \A t \in Tokens : resetUser'[t] \in {resetUser[t], None}
    BY <1>0, <1>8 DEF Expiry, ExpireToken, ExpireIndex, history, redis, accountVars
  <2>2. \A r \in did : call[r].op = "reset" => call[r].token \in Tokens
    BY Writer
  <2>3. ASSUME NEW r \in did', call'[r].op = "reset", found'[r] \notin raced' PROVE UsedFact(r)'
    BY <1>a, <2>1, <2>2, <2>3 DEF UsedFact, Redeeming
  <2> QED
    BY <2>3 DEF UsedTokensAreGone, UsedFact
<1> QED
  BY <1>0, <1>1, <1>2, <1>3, <1>4, <1>5, <1>6, <1>7, <1>8, QuietSteps DEF AccountsNext

-----------------------------------------------------------------------------
(* The invariant, and what follows from it *)

LEMMA InitInv ==
  ASSUME AccountsInit
  PROVE  AccountsInv
<1> USE AccountsAssumption DEF AccountsInit
<1>0. \A t \in Tokens :
        /\ resetUser[t] \in Users \cup {None}
        /\ resetUser[t] # None => resetUser[t] \in live \cup gone /\ resetToken[resetUser[t]] = t
  <2> SUFFICES ASSUME NEW t \in Tokens
               PROVE  /\ resetUser[t] \in Users \cup {None}
                      /\ resetUser[t] # None =>
                           resetUser[t] \in live \cup gone /\ resetToken[resetUser[t]] = t
    OBVIOUS
  <2>1. CASE \E u \in Users : resetToken[u] = t
    <3>1. resetUser[t] = CHOOSE u \in Users : resetToken[u] = t
      BY <2>1
    <3>2. resetUser[t] \in Users /\ resetToken[resetUser[t]] = t
      BY <2>1, <3>1
    <3> QED
      BY <3>2
  <2>2. CASE ~\E u \in Users : resetToken[u] = t
    BY <2>2
  <2> QED
    BY <2>1, <2>2
<1>1. AccountsTypeOK
  <2>1. resetUser \in [Tokens -> Users \cup {None}]
    BY <1>0
  <2>2. call \in [Requests -> Calls \cup {NoCall}] /\ published \in Seq(Event)
    OBVIOUS
  <2>3. live \subseteq Users /\ gone \subseteq Users /\ issued \subseteq Tokens
    OBVIOUS
  <2>4. /\ email \in [Users -> Emails \cup {None}]
        /\ password \in [Users -> {HashPassword(p) : p \in Passwords} \cup {None}]
        /\ resetToken \in [Users -> Tokens \cup {None}]
    OBVIOUS
  <2>5. /\ pc \in [Requests -> Steps]
        /\ found \in [Requests -> Users \cup {None}]
        /\ seen \in [Requests -> Tokens \cup Emails \cup {None}]
        /\ answer \in [Requests -> Answers]
    BY DEF Steps, Answers
  <2> QED
    BY <2>1, <2>2, <2>3, <2>4, <2>5 DEF AccountsTypeOK
<1>2. \A r \in Requests : call[r] = NoCall /\ call[r].op = "none" /\ pc[r] = "idle" /\ ~Resetting(r)
  BY DEF NoCall, Call, Resetting
<1>3. RowsAreDistinct
  BY DEF RowsAreDistinct
<1>4. RequestsMakeSense
  BY <1>2 DEF RequestsMakeSense, StepsOf, Working
<1>5. TokensAreIndexed
  BY <1>0, <1>2 DEF TokensAreIndexed
<1>6. TokensHaveOneHolder
  <2>1. \A t \in Tokens : HoldersOf(t) = {resetUser[t]} \ {None}
    BY <1>2 DEF HoldersOf, Redeeming
  <2> QED
    BY <1>0, <1>2, <2>1 DEF TokensHaveOneHolder
<1>7. UsedTokensAreGone /\ ProgressIsRecorded
  BY <1>2 DEF UsedTokensAreGone, ProgressIsRecorded
<1> QED
  BY <1>1, <1>3, <1>4, <1>5, <1>6, <1>7 DEF AccountsInv

LEMMA StepInv ==
  ASSUME AccountsInv, AnswersAreHonest, [AccountsNext]_accountVars
  PROVE  AccountsInv' /\ AnswersAreHonest'
<1>0. \A r \in Requests : Recorded(r) /\ Honest(r)
  BY DEF AccountsInv, ProgressIsRecorded, AnswersAreHonest, Recorded, Honest
<1>a. gone \subseteq gone'
  BY DEF AccountsNext, RequestStep, Begin, EmailTaken, Create, Login, GetUser, VerifyCurrent,
     Change, Delete, Forgot, Redeem, ReadUser, Reset, LookUp, DropToken, DropIndex, SetToken,
     SetIndex, Send, Fails, Expiry, ExpireToken, ExpireIndex, tables, accountVars
<1>b. ASSUME NEW q \in Requests, RequestStep(q), NEW r \in Requests \ {q}
      PROVE  (r \in did' <=> r \in did) /\ (r \in told' <=> r \in told)
  BY <1>b DEF RequestStep, Begin, EmailTaken, Create, Login, GetUser, VerifyCurrent,
     Change, Delete, Forgot, Redeem, ReadUser, Reset, LookUp, DropToken, DropIndex, SetToken,
     SetIndex, Send, Fails, history
<1>1. ASSUME NEW q \in Requests, RequestStep(q)
      PROVE  \A r \in Requests : Recorded(r)' /\ Honest(r)'
  <2>1. Recorded(q)' /\ Honest(q)'
    BY <1>0, <1>1, AnswerStep
  <2>2. ASSUME NEW r \in Requests \ {q} PROVE Recorded(r)' /\ Honest(r)'
    <3>1. /\ call'[r] = call[r] /\ pc'[r] = pc[r] /\ found'[r] = found[r]
          /\ answer'[r] = answer[r]
      BY <1>1, Frame
    <3> QED
      BY <1>0, <1>1, <1>a, <1>b, <3>1 DEF Recorded, Honest
  <2> QED
    BY <2>1, <2>2
<1>2. ASSUME Expiry \/ UNCHANGED accountVars
      PROVE  \A r \in Requests : Recorded(r)' /\ Honest(r)'
  <2>1. UNCHANGED <<call, pc, found, answer, did, told, gone>>
    BY <1>2 DEF Expiry, ExpireToken, ExpireIndex, accountVars, history, tables
  <2> QED
    BY <1>0, <2>1 DEF Recorded, Honest
<1>3. \A r \in Requests : Recorded(r)' /\ Honest(r)'
  BY <1>1, <1>2 DEF AccountsNext
<1>4. ProgressIsRecorded' /\ AnswersAreHonest'
  BY <1>3 DEF ProgressIsRecorded, AnswersAreHonest, Recorded, Honest
<1> QED
  BY <1>4, TypeStep, RowsStep, SenseStep, IndexStep, HolderStep, UsedStep DEF AccountsInv

\* The inductive invariant of the accounts: rows with addresses of their own,
\* requests where they can be, and reset tokens that are indexed, stand for one
\* user and are gone once used.
THEOREM InductiveInvariant == AccountsSpec => [](AccountsInv /\ AnswersAreHonest)
<1>1. AccountsInit => AccountsInv /\ AnswersAreHonest
  <2>1. AccountsInit => AnswersAreHonest
    BY DEF AccountsInit, AnswersAreHonest
  <2> QED
    BY <2>1, InitInv
<1>2. (AccountsInv /\ AnswersAreHonest) /\ [AccountsNext]_accountVars
        => (AccountsInv /\ AnswersAreHonest)'
  BY StepInv
<1> QED
  BY <1>1, <1>2, PTL DEF AccountsSpec

\* The invariant the run of this module checks.
THEOREM AccountsInvAlways == AccountsSpec => []AccountsInv
  BY InductiveInvariant, PTL

\* An answer of the service says what it did, whatever overlaps and fails.
THEOREM AnswersAreHonestAlways == AccountsSpec => []AnswersAreHonest
  BY InductiveInvariant, PTL

\* Two tokens are good for a user only if requests for his tokens overlapped or
\* broke off (password_reset_helpers.ts:33).
THEOREM OneTokenUnlessRacedAlways == AccountsSpec => []OneTokenUnlessRaced
<1>1. AccountsInv => OneTokenUnlessRaced
  <2> SUFFICES ASSUME AccountsInv, NEW u \in Users \ raced, NEW t1 \in Tokens, NEW t2 \in Tokens,
                      resetUser[t1] = u, resetUser[t2] = u
               PROVE  t1 = t2
    BY DEF OneTokenUnlessRaced
  <2>1. TokenFacts(u)
    BY DEF AccountsInv, TokensAreIndexed, TokenFacts
  <2>2. \A r \in Requests : pc[r] = "setIndex" => Resetting(r)
    BY StepsOfOps DEF AccountsInv, Resetting
  <2> QED
    BY <2>1, <2>2 DEF TokenFacts
<1> QED
  BY <1>1, InductiveInvariant, PTL

\* No reset token changes a password twice, with the same exception
\* (reset_password.ts:36).
THEOREM ResetTokensAreUsedOnceAlways == AccountsSpec => []ResetTokensAreUsedOnce
<1>1. AccountsInv => ResetTokensAreUsedOnce
  BY DEF AccountsInv, AccountsTypeOK, UsedTokensAreGone, ResetTokensAreUsedOnce, Redeeming
<1> QED
  BY <1>1, InductiveInvariant, PTL

-----------------------------------------------------------------------------
(* Profiles: the steps *)

\* Nothing the domain service does reaches the accounts.
LEMMA AccountsOfProfiles ==
  ASSUME [ProfilesNext]_profilesVars
  PROVE  [AccountsNext]_accountVars
  BY DEF ProfilesNext, profilesVars, Request, WorkerStep, Fetch, Refuse, Handle, HandlerFails,
     Acknowledge, Restart, UpdateProfile, SendMail, AccountsNext

\* A step that neither moves an event nor writes a profile.
Elsewhere ==
  /\ UNCHANGED <<call, pc, found, email, published, live, gone, did, told>>
  /\ UNCHANGED <<profiles, fetched, fresh, acking, parked, handled, faults, patched,
                 hurried>>

\* A step of the domain service that applies no event.
Moving ==
  /\ Fetch \/ Restart
     \/ \E p \in Positions : \/ Refuse(p) \/ Acknowledge(p)
                             \/ HandlerFails(p) /\ UNCHANGED <<profiles, handled>>

\* And one that does.
Applying(p) == Handle(p) \/ (HandlerFails(p) /\ Apply(p))

LEMMA ProfileSteps ==
  ASSUME [ProfilesNext]_profilesVars
  PROVE  \/ \E r \in Requests : Request(r)
         \/ Elsewhere
         \/ Moving
         \/ \E p \in Positions : Applying(p)
         \/ \E u \in Users : UpdateProfile(u)
<1>1. Expiry => UNCHANGED <<call, pc, found, email, published, live, gone, did, told>>
  BY DEF Expiry, ExpireToken, ExpireIndex, tables, history
<1>2. CASE Expiry /\ UNCHANGED <<domainService, mails, patched, hurried>>
  BY <1>1, <1>2 DEF Elsewhere, domainService
<1>3. CASE \E p \in 1..Len(published) : SendMail(p)
  BY <1>3 DEF SendMail, Elsewhere, domainService, accountVars, tables, history
<1>4. CASE UNCHANGED profilesVars
  BY <1>4 DEF profilesVars, Elsewhere, domainService, accountVars, tables, history
<1>5. CASE WorkerStep
  <2>1. ASSUME NEW p \in Positions, HandlerFails(p), ~Apply(p)
        PROVE  UNCHANGED <<profiles, handled>>
    BY <2>1 DEF HandlerFails
  <2> QED
    BY <1>5, <2>1 DEF WorkerStep, Moving, Applying, Positions
<1> QED
  BY <1>2, <1>3, <1>4, <1>5 DEF ProfilesNext

\* Where a step of a request leads, as far as the profiles are concerned.
LEMMA RequestLeads ==
  ASSUME AccountsInv, NEW r \in Requests, RequestStep(r)
  PROVE  /\ pc[r] = "idle" <=> Begin(r)
         /\ pc[r] # "closed"
         /\ Send(r) \/ published' = published
         /\ Send(r) => pc[r] = "send" /\ pc'[r] = "closed"
         /\ \A q \in Requests \ {r} : (q \in did' <=> q \in did) /\ (q \in told' <=> q \in told)
         /\ r \in did => r \in did'
<1> USE DEF AccountsInv, AccountsTypeOK, Goto, Close
<1>1. pc[r] = "idle" => Begin(r)
  BY DEF RequestStep, EmailTaken, Create, Login, GetUser, VerifyCurrent, Change, Delete, Forgot,
     Redeem, ReadUser, Reset, LookUp, DropToken, DropIndex, SetToken, SetIndex, Send, Fails, Open
<1>2. Begin(r) => pc[r] = "idle"
  BY DEF Begin
<1>3. pc[r] # "closed"
  BY DEF RequestStep, Begin, EmailTaken, Create, Login, GetUser, VerifyCurrent, Change, Delete,
     Forgot, Redeem, ReadUser, Reset, LookUp, DropToken, DropIndex, SetToken, SetIndex, Send,
     Fails, Open
<1>4. Send(r) \/ published' = published
  BY DEF RequestStep, Begin, EmailTaken, Create, Login, GetUser, VerifyCurrent, Change, Delete,
     Forgot, Redeem, ReadUser, Reset, LookUp, DropToken, DropIndex, SetToken, SetIndex, Fails
<1>5. Send(r) => pc[r] = "send" /\ pc'[r] = "closed"
  BY DEF Send
<1> HIDE DEF Goto, Close
<1>6. \A q \in Requests \ {r} : (q \in did' <=> q \in did) /\ (q \in told' <=> q \in told)
  BY DEF RequestStep, Begin, EmailTaken, Create, Login, GetUser, VerifyCurrent,
     Change, Delete, Forgot, Redeem, ReadUser, Reset, LookUp, DropToken, DropIndex, SetToken,
     SetIndex, Send, Fails, history
<1>7. r \in did => r \in did'
  BY DEF RequestStep, Begin, EmailTaken, Create, Login, GetUser, VerifyCurrent,
     Change, Delete, Forgot, Redeem, ReadUser, Reset, LookUp, DropToken, DropIndex, SetToken,
     SetIndex, Send, Fails, history
<1> QED
  BY <1>1, <1>2, <1>3, <1>4, <1>5, <1>6, <1>7

\* Sending adds an event behind the others.
LEMMA SentLast ==
  ASSUME AccountsInv, NEW r \in Requests, Send(r)
  PROVE  /\ Len(published') = Len(published) + 1 /\ Len(published) \in Nat
         /\ \A p \in Positions : published'[p] = published[p]
         /\ published'[Len(published) + 1] = EventOf(r)
         /\ EventOf(r) \in Event
         /\ Positions' = Positions \cup {Len(published) + 1}
<1>1. EventOf(r) \in Event /\ published \in Seq(Event)
  BY EventType DEF Send, AccountsInv, AccountsTypeOK
<1>2. published' = Append(published, EventOf(r))
  BY DEF Send
<1> QED
  BY <1>1, <1>2 DEF Positions

-----------------------------------------------------------------------------
(* Profiles: typing *)

LEMMA RowsWithEmail ==
  ASSUME profiles \in [Users -> Seq(Emails \cup {None})], NEW u \in Users,
         NEW e \in Emails \cup {None}
  PROVE  /\ WithEmail(u, e) \in [Users -> Seq(Emails \cup {None})]
         /\ \A v \in Users \ {u} : WithEmail(u, e)[v] = profiles[v]
         /\ Len(WithEmail(u, e)[u]) = Len(profiles[u])
         /\ DOMAIN WithEmail(u, e)[u] = DOMAIN profiles[u]
         /\ \A i \in DOMAIN profiles[u] : WithEmail(u, e)[u][i] = e
<1>1. profiles[u] \in Seq(Emails \cup {None})
  OBVIOUS
<1>2. WithEmail(u, e)[u] = [i \in 1..Len(profiles[u]) |-> e]
  BY <1>1 DEF WithEmail
<1>3. WithEmail(u, e)[u] \in Seq(Emails \cup {None}) /\ Len(WithEmail(u, e)[u]) = Len(profiles[u])
  BY <1>1, <1>2
<1> QED
  BY <1>1, <1>2, <1>3 DEF WithEmail

LEMMA ProfilesTypeStep ==
  ASSUME AccountsInv, ProfilesTypeOK, [ProfilesNext]_profilesVars
  PROVE  ProfilesTypeOK'
<1> USE ProfilesAssumption DEF ProfilesTypeOK
<1>0. Len(published) \in Nat /\ published \in Seq(Event) /\ email \in [Users -> Emails \cup {None}]
  BY DEF AccountsInv, AccountsTypeOK
<1>1. ASSUME NEW r \in Requests, Request(r) PROVE ProfilesTypeOK'
  <2>1. /\ UNCHANGED <<profiles, fetched, fresh, acking, parked, handled, faults, patched>>
        /\ hurried' \in BOOLEAN /\ RequestStep(r)
    BY <1>1 DEF Request, domainService
  <2>2. Len(published') \in Nat /\ Len(published') >= Len(published)
    BY <1>0, <2>1, SentLast, RequestLeads
  <2> QED
    BY <1>0, <2>1, <2>2
<1>2. CASE Elsewhere
  BY <1>0, <1>2 DEF Elsewhere
<1>3. CASE Moving
  <2>1. CASE Fetch
    BY <1>0, <2>1 DEF Fetch, accountVars
  <2>2. CASE Restart
    <3>1. UNCHANGED <<profiles, published, fetched, handled, patched, hurried>>
          /\ faults' \in 0..MaxFaults
      BY <2>2 DEF Restart, accountVars
    <3>2. fresh' \cup acking' \cup parked' \subseteq fresh \cup acking \cup parked
      BY <2>2 DEF Restart
    <3> QED
      BY <1>0, <3>1, <3>2
  <2>3. ASSUME NEW p \in Positions,
               Refuse(p) \/ Acknowledge(p) \/ (HandlerFails(p) /\ UNCHANGED <<profiles, handled>>)
        PROVE  ProfilesTypeOK'
    <3>1. UNCHANGED <<profiles, published, fetched, handled, patched, hurried>>
          /\ faults' \in 0..MaxFaults
      BY <2>3 DEF Refuse, Acknowledge, HandlerFails, accountVars
    <3>2. fresh' \cup acking' \cup parked' \subseteq fresh \cup acking \cup parked
      BY <2>3 DEF Refuse, Acknowledge, HandlerFails, Apply
    <3> QED
      BY <1>0, <3>1, <3>2
  <2> QED
    BY <1>3, <2>1, <2>2, <2>3 DEF Moving
<1>4. ASSUME NEW p \in Positions, Applying(p) PROVE ProfilesTypeOK'
  <2>1. published[p] \in Event
    BY <1>0 DEF AccountsInv, AccountsTypeOK, Positions
  <2>2. profiles' = Written(published[p]) /\ p \in fresh /\ handled' = handled \cup {p}
    BY <1>4 DEF Applying, Handle, Apply
  <2>3. Written(published[p]) \in [Users -> Seq(Emails \cup {None})]
    <3>1. published[p].user \in Users /\ published[p].email \in Emails \cup {None}
      BY <2>1 DEF Event
    <3>2. UserCreated(published[p]) \in [Users -> Seq(Emails \cup {None})]
      BY <3>1 DEF UserCreated
    <3>3. UserUpdated(published[p]) \in [Users -> Seq(Emails \cup {None})]
      BY <3>1, RowsWithEmail DEF UserUpdated
    <3> QED
      BY <3>2, <3>3 DEF Written
  <2>4. UNCHANGED <<published, fetched, patched, hurried>>
        /\ fresh' \cup acking' \cup parked' \subseteq fresh \cup acking \cup parked
        /\ faults' \in 0..MaxFaults
    BY <1>4, <2>2 DEF Applying, Handle, HandlerFails, accountVars
  <2> QED
    BY <1>0, <2>2, <2>3, <2>4
<1>5. ASSUME NEW u \in Users, UpdateProfile(u) PROVE ProfilesTypeOK'
  <2>1. PICK e \in Emails : profiles' = WithEmail(u, e)
    BY <1>5 DEF UpdateProfile
  <2>2. profiles' \in [Users -> Seq(Emails \cup {None})]
    BY <2>1, RowsWithEmail
  <2> QED
    BY <1>0, <1>5, <2>2 DEF UpdateProfile, accountVars
<1> QED
  BY <1>1, <1>2, <1>3, <1>4, <1>5, ProfileSteps

-----------------------------------------------------------------------------
(* Profiles: events *)

\* What a profile handler may be applied to.
LEMMA EffectiveEvent ==
  ASSUME AccountsInv, FeedInv, NEW p \in Positions, Effective(p)
  PROVE  /\ published[p] \in Event /\ published[p].user \in Users /\ published[p].email \in Emails
         /\ \/ /\ published[p].kind = "USER_CREATED"
               /\ Written(published[p]) = UserCreated(published[p])
            \/ /\ published[p].kind = "USER_UPDATED"
               /\ Written(published[p]) = UserUpdated(published[p])
<1>1. published[p] \in Event
  BY DEF AccountsInv, AccountsTypeOK, Positions
<1>2. published[p].kind \in {"USER_CREATED", "USER_UPDATED"}
  BY <1>1 DEF Effective, Subscribed, Applicable, NamesUser, Event, Kinds
<1>3. published[p].kind = "USER_UPDATED" => "email" \in published[p].fields
  <2>1. published[p].fields \subseteq {"email", "forename", "surname", "password"}
    BY <1>1 DEF Event, Fields
  <2> QED
    BY <2>1 DEF Effective, Applicable, ProfileFields
<1>4. published[p].email # None
  BY <1>2, <1>3 DEF FeedInv
<1> QED
  BY <1>1, <1>2, <1>4 DEF Event, Written

\* The events of each kind that are told.
LEMMA ToldEvent ==
  ASSUME AccountsInv, FeedInv, NEW r \in Requests, pc[r] = "send"
  PROVE  LET e == EventOf(r) IN
         /\ e.user = found[r] /\ e.user \in live \cup gone
         /\ call[r].op \in {"register", "change", "delete", "forgot"}
         /\ call[r].op = "register" =>
              e.kind = "USER_CREATED" /\ e.email = call[r].email /\ e.email # None
         /\ call[r].op = "change" =>
              /\ e.kind = "USER_UPDATED" /\ e.email = call[r].email
              /\ "email" \in e.fields <=> e.email # None
         /\ call[r].op = "delete" => e.kind = "USER_DELETED"
         /\ call[r].op = "forgot" => e.kind = "PASSWORD_RESET_REQUESTED"
<1>1. call[r].op \in {"register", "change", "delete", "forgot"} /\ call[r] \in Calls \cup {NoCall}
  BY StepsOfOps DEF AccountsInv
<1>2. found[r] \in live \cup gone
  BY <1>1 DEF AccountsInv, RequestsMakeSense, Working
<1>3. call[r].op = "register" => call[r].email # None
  BY <1>1, CallFields, AccountsAssumption
<1>4. call[r].op = "change" => ("email" \in Announced(call[r]) <=> call[r].email # None)
  BY DEF FeedInv, WellFormed, Announced
<1> QED
  BY <1>1, <1>2, <1>3, <1>4 DEF EventOf

\* A call is well formed from the start.
LEMMA CallStep ==
  ASSUME AccountsInv, NEW r \in Requests, RequestStep(r), \A q \in Requests : WellFormed(call[q])
  PROVE  \A q \in Requests : WellFormed(call[q])'
<1>1. CASE Begin(r)
  BY <1>1 DEF Begin, AccountsInv, AccountsTypeOK, WellFormed
<1>2. CASE ~Begin(r)
  <2>1. call' = call
    BY <1>2 DEF RequestStep, EmailTaken, Create, Login, GetUser, VerifyCurrent, Change, Delete,
       Forgot, Redeem, ReadUser, Reset, LookUp, DropToken, DropIndex, SetToken, SetIndex, Send, Fails
  <2> QED
    BY <2>1 DEF WellFormed
<1> QED
  BY <1>1, <1>2

LEMMA FeedStep ==
  ASSUME AccountsInv, ProfilesTypeOK, FeedInv, [ProfilesNext]_profilesVars
  PROVE  FeedInv'
<1> DEFINE Lost == \A p \in Positions : Effective(p) => p \in handled \cup Unread \cup fresh \cup parked
           Sides == /\ acking \subseteq handled /\ fresh \cap parked = {}
                    /\ \A p \in fresh \cup acking \cup parked : Subscribed(p)
           Calling == \A r \in Requests : WellFormed(call[r])
           Telling == \A p \in Positions :
                        /\ published[p].user \in live \cup gone
                        /\ published[p].kind = "USER_UPDATED" =>
                             ("email" \in published[p].fields <=> published[p].email # None)
                        /\ published[p].kind = "USER_CREATED" => published[p].email # None
           Absent == \A u \in Users \ (live \cup gone) : profiles[u] = <<>>
<1>0. /\ Len(published) \in Nat /\ fetched \in 0..Len(published)
      /\ fresh \cup acking \cup parked \cup handled \subseteq Positions
      /\ fresh \cup acking \cup parked \cup handled \subseteq 1..fetched
  BY DEF AccountsInv, AccountsTypeOK, ProfilesTypeOK, Positions
<1>a. Lost /\ Sides /\ Calling /\ Telling /\ Absent
  BY DEF FeedInv
<1>b. live \cup gone \subseteq live' \cup gone'
  BY AccountsOfProfiles, RowsStep
<1>1. ASSUME NEW r \in Requests, Request(r) PROVE FeedInv'
  <2>1. RequestStep(r) /\ UNCHANGED <<profiles, fetched, fresh, acking, parked, handled>>
    BY <1>1 DEF Request, domainService
  <2>2. Calling' /\ Absent'
    BY <1>a, <1>b, <2>1, CallStep
  <2>3. CASE published' = published
    <3>1. Lost' /\ Sides' /\ Telling'
      BY <1>a, <1>b, <2>1, <2>3 DEF Positions, Effective, Subscribed, Unread
    <3> QED
      BY <2>2, <3>1 DEF FeedInv
  <2>4. CASE Send(r)
    <3>1. /\ \A p \in Positions : published'[p] = published[p]
          /\ Positions' = Positions \cup {Len(published) + 1}
          /\ published'[Len(published) + 1] = EventOf(r)
      BY <2>4, SentLast
    <3>2. Lost'
      BY <1>0, <1>a, <2>1, <3>1 DEF Effective, Subscribed, Unread
    <3>3. Sides'
      BY <1>0, <1>a, <2>1, <3>1 DEF Subscribed
    <3>4. Telling'
      <4>1. ASSUME NEW p \in Positions
            PROVE  /\ published'[p].user \in live' \cup gone'
                   /\ published'[p].kind = "USER_UPDATED" =>
                        ("email" \in published'[p].fields <=> published'[p].email # None)
                   /\ published'[p].kind = "USER_CREATED" => published'[p].email # None
        BY <1>a, <1>b, <3>1
      <4>2. pc[r] = "send"
        BY <2>4 DEF Send
      <4>3. LET e == EventOf(r) IN
            /\ e.user \in live' \cup gone'
            /\ e.kind = "USER_UPDATED" => ("email" \in e.fields <=> e.email # None)
            /\ e.kind = "USER_CREATED" => e.email # None
        BY <1>b, <4>2, ToldEvent
      <4> QED
        BY <3>1, <4>1, <4>3
    <3> QED
      BY <2>2, <3>2, <3>3, <3>4 DEF FeedInv
  <2> QED
    BY <2>1, <2>3, <2>4, RequestLeads
<1>2. CASE Elsewhere
  BY <1>2, <1>a DEF Elsewhere, FeedInv, Positions, Effective, Subscribed, Unread, WellFormed
<1>c. ASSUME UNCHANGED <<published, call, live, gone>>, Lost', Sides', Absent' PROVE FeedInv'
  BY <1>a, <1>c DEF FeedInv, Positions, WellFormed
<1>3. CASE Moving
  <2>1. UNCHANGED <<published, call, live, gone, profiles, handled>>
    BY <1>3 DEF Moving, Fetch, Restart, Refuse, Acknowledge, HandlerFails, accountVars, tables
  <2>2. CASE Fetch
    <3>1. /\ fetched' = Len(published) /\ UNCHANGED <<acking, parked>>
          /\ fresh = {} /\ fresh' = {p \in (fetched + 1)..Len(published) : Subscribed(p)}
      BY <2>2 DEF Fetch
    <3>2. Lost'
      BY <1>0, <1>a, <2>1, <3>1 DEF Positions, Effective, Subscribed, Unread
    <3>3. Sides'
      BY <1>0, <1>a, <2>1, <3>1 DEF Subscribed
    <3> QED
      BY <1>a, <1>c, <2>1, <3>2, <3>3
  <2>3. CASE Restart
    <3>1. /\ UNCHANGED fetched /\ acking' = {}
          /\ fresh' \subseteq fresh \cup acking \cup parked
          /\ parked' = (fresh \cup acking \cup parked) \ fresh'
      BY <2>3 DEF Restart
    <3>2. Lost'
      BY <1>0, <1>a, <2>1, <3>1 DEF Positions, Effective, Subscribed, Unread
    <3>3. Sides'
      BY <1>0, <1>a, <2>1, <3>1 DEF Subscribed
    <3> QED
      BY <1>a, <1>c, <2>1, <3>2, <3>3
  <2>4. ASSUME NEW p \in Positions, Acknowledge(p) PROVE FeedInv'
    <3>1. UNCHANGED <<fetched, fresh, parked>> /\ acking' = acking \ {p}
      BY <2>4 DEF Acknowledge
    <3> QED
      BY <1>a, <1>c, <2>1, <3>1 DEF Positions, Effective, Subscribed, Unread
  <2>5. ASSUME NEW p \in Positions,
               Refuse(p) \/ (HandlerFails(p) /\ UNCHANGED <<profiles, handled>>)
        PROVE  FeedInv'
    <3>1. /\ UNCHANGED <<fetched, acking>> /\ p \in fresh
          /\ fresh' = fresh \ {p} /\ parked' = parked \cup {p}
      BY <2>5 DEF Refuse, HandlerFails, Apply
    <3>2. Lost'
      BY <1>a, <2>1, <3>1 DEF Positions, Effective, Subscribed, Unread
    <3>3. Sides'
      BY <1>a, <2>1, <3>1 DEF Subscribed
    <3> QED
      BY <1>a, <1>c, <2>1, <3>2, <3>3
  <2> QED
    BY <1>3, <2>2, <2>3, <2>4, <2>5 DEF Moving
<1>4. ASSUME NEW p \in Positions, Applying(p) PROVE FeedInv'
  <2>1. /\ UNCHANGED <<published, call, live, gone, fetched>>
        /\ p \in fresh /\ handled' = handled \cup {p} /\ fresh' = fresh \ {p}
        /\ Applicable(published[p]) /\ profiles' = Written(published[p])
        /\ acking' \subseteq acking \cup {p} /\ parked \subseteq parked'
        /\ parked' \subseteq parked \cup {p}
    BY <1>4 DEF Applying, Handle, HandlerFails, Apply, accountVars, tables
  <2>2. Lost'
    BY <1>a, <2>1 DEF Positions, Effective, Subscribed, Unread
  <2>3. Sides'
    BY <1>a, <2>1 DEF Subscribed
  <2>4. Absent'
    <3>1. Effective(p)
      BY <1>a, <2>1 DEF Effective
    <3>2. published[p].user \in live \cup gone
      BY <1>a
    <3>3. \A u \in Users \ {published[p].user} : profiles'[u] = profiles[u]
      <4>1. published[p].user \in Users /\ published[p].email \in Emails
        BY <3>1, EffectiveEvent
      <4>2. \/ profiles' = UserCreated(published[p])
            \/ profiles' = WithEmail(published[p].user, published[p].email)
        BY <2>1, <3>1, EffectiveEvent DEF UserUpdated
      <4>3. profiles \in [Users -> Seq(Emails \cup {None})]
        BY DEF ProfilesTypeOK
      <4> QED
        BY <4>1, <4>2, <4>3, RowsWithEmail DEF UserCreated
    <3> QED
      BY <1>a, <2>1, <3>2, <3>3
  <2> QED
    BY <1>c, <2>1, <2>2, <2>3, <2>4
<1>5. ASSUME NEW u \in Users, UpdateProfile(u) PROVE FeedInv'
  <2>1. /\ UNCHANGED <<published, call, live, gone, fetched, fresh, acking, parked, handled>>
        /\ u \in live \cup gone
    BY <1>5 DEF UpdateProfile, HasSession, accountVars, tables
  <2>2. Absent'
    <3>1. PICK e \in Emails : profiles' = WithEmail(u, e)
      BY <1>5 DEF UpdateProfile
    <3> QED
      BY <1>a, <2>1, <3>1, RowsWithEmail DEF ProfilesTypeOK
  <2> QED
    BY <1>a, <1>c, <2>1, <2>2 DEF Positions, Effective, Subscribed, Unread
<1> QED
  BY <1>1, <1>2, <1>3, <1>4, <1>5, ProfileSteps

\* Worker steps only take from what is outstanding.
LEMMA OutstandingStep ==
  ASSUME AccountsInv, ProfilesTypeOK, FeedInv,
         \/ Elsewhere \/ Moving \/ (\E p \in Positions : Applying(p))
         \/ \E u \in Users : UpdateProfile(u)
  PROVE  /\ Outstanding' \subseteq Outstanding
         /\ UNCHANGED <<published, pc, hurried, call, found, email, did, told, live>>
<1>0. Len(published) \in Nat /\ fetched \in 0..Len(published)
  BY DEF AccountsInv, AccountsTypeOK, ProfilesTypeOK
<1>1. UNCHANGED <<published, pc, hurried, call, found, email, did, told, live>>
  BY DEF Elsewhere, Moving, Applying, Fetch, Restart, Refuse, Acknowledge, HandlerFails, Handle,
     UpdateProfile, accountVars, tables, history
<1>2. CASE Elsewhere \/ \E u \in Users : UpdateProfile(u)
  BY <1>1, <1>2 DEF Elsewhere, UpdateProfile, Outstanding, Unread, Positions, Effective, Subscribed
<1>3. CASE Fetch
  <2>1. /\ fetched' = Len(published) /\ UNCHANGED <<acking, parked>>
        /\ fresh' = {p \in (fetched + 1)..Len(published) : Subscribed(p)}
    BY <1>3 DEF Fetch
  <2>2. Unread' \cup fresh' \subseteq Unread
    BY <1>0, <1>1, <2>1 DEF Unread, Positions
  <2> QED
    BY <1>1, <2>1, <2>2 DEF Outstanding, Effective, Subscribed
<1>4. CASE Restart
  <2>1. /\ fresh' \cup acking' \cup parked' \subseteq fresh \cup acking \cup parked
        /\ Unread' = Unread
    BY <1>1, <1>4 DEF Restart, Unread, Positions
  <2> QED
    BY <1>1, <2>1 DEF Outstanding, Effective, Subscribed
<1>5. ASSUME NEW p \in Positions,
             Refuse(p) \/ Acknowledge(p) \/ HandlerFails(p) \/ Handle(p)
      PROVE  Outstanding' \subseteq Outstanding
  <2>1. /\ fresh' \cup acking' \cup parked' \subseteq fresh \cup acking \cup parked
        /\ fetched' = fetched
    BY <1>5 DEF Refuse, Acknowledge, HandlerFails, Handle, Apply
  <2> QED
    BY <1>1, <2>1 DEF Outstanding, Effective, Subscribed, Unread, Positions
<1> QED
  BY <1>1, <1>2, <1>3, <1>4, <1>5 DEF Moving, Applying

\* Settled, nothing is outstanding.
LEMMA SettledMeans ==
  ASSUME AccountsInv, ProfilesTypeOK, Settled
  PROVE  Outstanding = {} /\ \A r \in Requests : ~Open(r)
  BY DEF Settled, Outstanding, Unread, Effective, AccountsInv, AccountsTypeOK, Positions

\* What a request sends is all that gets outstanding.
LEMMA SentOutstanding ==
  ASSUME AccountsInv, ProfilesTypeOK, NEW r \in Requests, Send(r),
         UNCHANGED <<fetched, fresh, acking, parked>>
  PROVE  /\ Outstanding' \subseteq Outstanding \cup {Len(published) + 1}
         /\ Len(published') = Len(published) + 1
         /\ Unread' = Unread \cup {Len(published) + 1}
         /\ \A p \in Positions : (Effective(p)' <=> Effective(p)) /\ published'[p] = published[p]
<1>1. /\ \A p \in Positions : published'[p] = published[p]
      /\ Positions' = Positions \cup {Len(published) + 1}
      /\ Len(published') = Len(published) + 1 /\ Len(published) \in Nat
  BY SentLast
<1>2. fresh \cup acking \cup parked \subseteq Positions
  BY <1>1 DEF ProfilesTypeOK, Positions
<1>3. \A p \in Positions : Effective(p)' <=> Effective(p)
  BY <1>1 DEF Effective, Subscribed
<1>4. Unread' = Unread \cup {Len(published) + 1}
  BY <1>1 DEF Unread, ProfilesTypeOK
<1> QED
  BY <1>1, <1>2, <1>3, <1>4 DEF Outstanding, Unread

LEMMA OneAtATimeStep ==
  ASSUME AccountsInv, ProfilesTypeOK, FeedInv, OneAtATime, [ProfilesNext]_profilesVars
  PROVE  OneAtATime'
<1>1. ASSUME NEW r \in Requests, Request(r), ~hurried' PROVE OneAtATime'
  <2>1. /\ RequestStep(r) /\ ~hurried /\ UNCHANGED <<fetched, fresh, acking, parked>>
        /\ pc[r] = "idle" => Settled
    BY <1>1 DEF Request, domainService
  <2>2. \A q \in Requests \ {r} : pc'[q] = pc[q]
    BY <2>1, Frame
  <2>3. Outstanding = {} /\ \A q \in Requests \ {r} : ~Open(q)
    <3>1. pc[r] # "closed"
      BY <2>1, RequestLeads
    <3>2. CASE pc[r] = "idle"
      BY <2>1, <3>2, SettledMeans
    <3>3. CASE pc[r] # "idle"
      BY <2>1, <3>1, <3>3 DEF OneAtATime, Open
    <3> QED
      BY <3>2, <3>3
  <2>4. \A q \in Requests \ {r} : ~Open(q)'
    BY <2>2, <2>3 DEF Open
  <2>5. CASE published' = published
    <3>1. Outstanding' = {}
      BY <2>1, <2>3, <2>5 DEF Outstanding, Unread, Positions, Effective, Subscribed
    <3> QED
      BY <2>4, <3>1 DEF OneAtATime
  <2>6. CASE Send(r)
    <3>1. ~Open(r)'
      BY <2>6, <2>1, RequestLeads DEF Open
    <3>2. \A p \in Outstanding' : p = Len(published')
      BY <2>1, <2>3, <2>6, SentOutstanding
    <3> QED
      BY <2>4, <3>1, <3>2 DEF OneAtATime
  <2> QED
    BY <2>1, <2>5, <2>6, RequestLeads
<1>2. ASSUME ~\E r \in Requests : Request(r) PROVE OneAtATime'
  <2>1. Outstanding' \subseteq Outstanding /\ UNCHANGED <<published, pc, hurried>>
    BY <1>2, ProfileSteps, OutstandingStep
  <2> QED
    BY <2>1 DEF OneAtATime, Open
<1> QED
  BY <1>1, <1>2 DEF OneAtATime

-----------------------------------------------------------------------------
(* Profiles: the addresses *)

\* An exception stays one, and only a registration makes an account.
LEMMA ExceptedStep ==
  ASSUME AccountsInv, ProfilesTypeOK, FeedInv, [ProfilesNext]_profilesVars,
         NEW u \in Users, u \in live', u \notin patched',
         ~ChangeRefused(u)', ~Unannounced(u)'
  PROVE  /\ ~Excepted(u) /\ u \notin patched'
         /\ u \in live \/ (u \notin live \cup gone /\ \E r \in Requests : Request(r) /\ Create(r))
<1>2. u \in live \/ (u \notin live \cup gone /\ \E r \in Requests : Request(r) /\ Create(r))
  <2>1. CASE \E r \in Requests : Request(r)
    <3>1. PICK r \in Requests : Request(r)
      BY <2>1
    <3>2. Create(r) \/ live' \subseteq live
      BY <3>1 DEF Request, RequestStep, Begin, EmailTaken, Login, GetUser, VerifyCurrent, Change,
         Delete, Forgot, Redeem, ReadUser, Reset, LookUp, DropToken, DropIndex, SetToken,
         SetIndex, Send, Fails, tables
    <3>3. CASE Create(r)
      BY <3>1, <3>3 DEF Create
    <3> QED
      BY <3>2, <3>3
  <2>2. CASE ~\E r \in Requests : Request(r)
    BY <2>2, ProfileSteps, OutstandingStep
  <2> QED
    BY <2>1, <2>2
<1>3. patched \subseteq patched'
  BY DEF ProfilesNext, profilesVars, Request, WorkerStep, Fetch, Refuse, Handle, HandlerFails,
     Acknowledge, Restart, UpdateProfile, SendMail
<1>4. ChangeRefused(u) => ChangeRefused(u)'
  <2>1. \A p \in Positions : p \in Positions' /\ published'[p] = published[p]
    <3>1. CASE \E r \in Requests : Request(r)
      BY <3>1, SentLast, RequestLeads DEF Request, Positions
    <3>2. CASE ~\E r \in Requests : Request(r)
      BY <3>2, ProfileSteps, OutstandingStep DEF Positions
    <3> QED
      BY <3>1, <3>2
  <2> QED
    BY <2>1 DEF ChangeRefused, Applicable, NamesUser, Positions
<1>5. Unannounced(u) => Unannounced(u)'
  <2>1. SUFFICES ASSUME NEW r \in did \ told, pc[r] = "closed", found[r] = u, call[r].op # "reset"
                 PROVE  /\ r \in did' \ told' /\ pc'[r] = "closed" /\ found'[r] = u
                        /\ call'[r].op # "reset"
    BY DEF Unannounced
  <2>2. r \in Requests
    BY DEF AccountsInv, AccountsTypeOK
  <2>3. CASE \E q \in Requests : Request(q)
    <3>1. PICK q \in Requests : Request(q)
      BY <2>3
    <3>2. RequestStep(q) /\ q # r
      BY <2>1, <3>1, RequestLeads DEF Request
    <3> QED
      BY <2>1, <2>2, <3>2, Frame, RequestLeads
  <2>4. CASE ~\E q \in Requests : Request(q)
    BY <2>1, <2>4, ProfileSteps, OutstandingStep
  <2> QED
    BY <2>3, <2>4
<1> QED
  BY <1>2, <1>3, <1>4, <1>5 DEF Excepted

\* A profile that is left alone stays right.
LEMMA ProfileFrame ==
  ASSUME NEW u, ProfileOK(u), ProfilesTypeOK, faults' \in Nat,
         profiles'[u] = profiles[u], email'[u] = email[u], faults <= faults',
         Len(profiles[u]) \in Nat,
         \A op \in {"register", "change"} : \A r \in Requests :
           /\ Sends(r, u, op)' <=> Sends(r, u, op)
           /\ Sends(r, u, op) => call'[r] = call[r],
         \A kind \in {"USER_CREATED", "USER_UPDATED"} : Sent(u, kind)' <=> Sent(u, kind),
         \A p \in Outstanding' : published'[p].user = u =>
           p \in Outstanding /\ published'[p] = published[p],
         Repeatable(u)' => Repeatable(u) \/ faults' = faults + 1
  PROVE  ProfileOK(u)'
<1>0. faults \in Nat
  BY DEF ProfilesTypeOK
<1>1. (Nameless(u)' <=> Nameless(u)) /\ (Outdated(u)' <=> Outdated(u))
  BY DEF Nameless, Outdated, Sending
<1>2. Len(profiles'[u]) <= IF Repeatable(u)' THEN faults' ELSE 1 + faults'
  BY <1>0 DEF ProfileOK
<1>3. profiles'[u] = <<>> <=> Nameless(u)'
  BY <1>1 DEF ProfileOK
<1>4. ~Outdated(u)' => \A i \in DOMAIN profiles'[u] : profiles'[u][i] = email'[u]
  BY <1>1 DEF ProfileOK
<1>5. \A p \in Outstanding' : published'[p].user = u => published'[p].email = email'[u]
  BY DEF ProfileOK
<1>6. \A r \in Requests : Sends(r, u, "register")' \/ Sends(r, u, "change")' =>
        call'[r].email = email'[u]
  BY DEF ProfileOK
<1> QED
  BY <1>2, <1>3, <1>4, <1>5, <1>6 DEF ProfileOK

\* While a request is at work, it is the only one, and no event is outstanding.
LEMMA AloneAtWork ==
  ASSUME AccountsInv, ProfilesTypeOK, FeedInv, OneAtATime, ~hurried,
         NEW r \in Requests, Open(r)
  PROVE  /\ Outstanding = {}
         /\ \A q \in Requests \ {r} : \A u, op : ~Sends(q, u, op)
         /\ \A u, kind : ~Sent(u, kind)
<1>1. Outstanding = {} /\ \A q \in Requests \ {r} : ~Open(q)
  BY DEF OneAtATime
<1>2. \A u, kind : ~Sent(u, kind)
  BY <1>1 DEF Sent, Outstanding, FeedInv
<1> QED
  BY <1>1, <1>2 DEF Sends, Open

\* Steps that apply no event, of the domain service and elsewhere.
LEMMA ProfileMoving ==
  ASSUME AccountsInv, ProfilesTypeOK, FeedInv, NEW u \in Users, ProfileOK(u),
         ProfilesTypeOK',
         Elsewhere \/ Moving \/ \E v \in Users \ {u} : UpdateProfile(v)
  PROVE  ProfileOK(u)'
<1>0. Len(published) \in Nat /\ fetched \in 0..Len(published) /\ faults \in Nat /\ faults' \in Nat
      /\ Len(profiles[u]) \in Nat
  BY DEF AccountsInv, AccountsTypeOK, ProfilesTypeOK
<1>1. Outstanding' \subseteq Outstanding /\ UNCHANGED <<published, pc, call, found, email>>
  BY OutstandingStep
<1>2. profiles'[u] = profiles[u] /\ handled' = handled /\ faults <= faults'
  <2>1. CASE Elsewhere \/ Moving
    BY <1>0, <2>1 DEF Elsewhere, Moving, Fetch, Restart, Refuse, Acknowledge, HandlerFails
  <2>2. ASSUME NEW v \in Users \ {u}, UpdateProfile(v)
        PROVE  profiles'[u] = profiles[u] /\ handled' = handled /\ faults <= faults'
    BY <1>0, <2>2, RowsWithEmail DEF UpdateProfile, ProfilesTypeOK
  <2> QED
    BY <2>1, <2>2
<1>3. \A kind : Sent(u, kind)' <=> Sent(u, kind)
  BY <1>1, <1>2 DEF Sent, Positions, Effective, Subscribed
<1>4. \A r \in Requests : \A op : Sends(r, u, op)' <=> Sends(r, u, op)
  BY <1>1 DEF Sends
<1>5. Repeatable(u)' => Repeatable(u) \/ faults' = faults + 1
  <2>1. CASE faults' = faults + 1
    BY <2>1
  <2>2. CASE Fetch
    <3>1. Unread' \cup fresh' \cup parked' \subseteq Unread \cup fresh \cup parked
      BY <1>0, <1>1, <2>2 DEF Fetch, Unread, Positions
    <3> QED
      BY <1>1, <3>1 DEF Repeatable
  <2>3. CASE Elsewhere \/ (\E v \in Users : UpdateProfile(v))
             \/ \E p \in Positions : Refuse(p) \/ Acknowledge(p)
    <3>1. Unread' \cup fresh' \cup parked' \subseteq Unread \cup fresh \cup parked
      BY <1>1, <2>3 DEF Elsewhere, UpdateProfile, Refuse, Acknowledge, Unread, Positions
    <3> QED
      BY <1>1, <3>1 DEF Repeatable
  <2> QED
    BY <2>1, <2>2, <2>3 DEF Moving, Restart, HandlerFails
<1> QED
  BY <1>0, <1>1, <1>2, <1>3, <1>4, <1>5, ProfileFrame

\* A handler that writes leaves the user's profile as the account is.
LEMMA ProfileApplied ==
  ASSUME AccountsInv, ProfilesTypeOK, FeedInv, OneAtATime, ~hurried, ProfilesTypeOK',
         NEW u \in Users, ProfileOK(u), NEW p \in Positions, Applying(p)
  PROVE  ProfileOK(u)'
<1> DEFINE e == published[p]
<1>0. /\ Len(published) \in Nat /\ fetched \in 0..Len(published)
      /\ faults \in Nat /\ faults' \in Nat /\ faults <= faults'
      /\ profiles \in [Users -> Seq(Emails \cup {None})] /\ Len(profiles[u]) \in Nat
  BY DEF AccountsInv, AccountsTypeOK, ProfilesTypeOK, Applying, Handle, HandlerFails
<1>1. /\ UNCHANGED <<published, call, pc, found, email, fetched>>
      /\ p \in fresh /\ handled' = handled \cup {p} /\ fresh' = fresh \ {p}
      /\ Applicable(e) /\ profiles' = Written(e)
      /\ \/ parked' = parked /\ faults' = faults
         \/ parked' = parked \cup {p} /\ faults' = faults + 1
  BY DEF Applying, Handle, HandlerFails, Apply, accountVars, tables
<1>2. Effective(p) /\ p \in Outstanding
  BY <1>1 DEF FeedInv, Effective, Outstanding
<1>3. e.user \in Users /\ e.email \in Emails /\ (Written(e) = UserCreated(e) \/ Written(e) = UserUpdated(e))
  BY <1>2, EffectiveEvent
<1>4. Outstanding \subseteq {p} /\ \A r \in Requests : ~Open(r)
  BY <1>2 DEF OneAtATime
<1>5. \A r \in Requests : \A op : ~Sends(r, u, op) /\ ~Sends(r, u, op)'
  BY <1>1, <1>4 DEF Sends, Open
<1>6. \A q \in Positions \ handled : Effective(q) => q = p
  BY <1>4 DEF FeedInv, Outstanding
<1>7. Outstanding' \subseteq Outstanding
  BY OutstandingStep
<1>8. \A kind : ~Sent(u, kind)'
  BY <1>1, <1>6 DEF Sent, Positions, Effective, Subscribed
<1>9. ~Nameless(u)' /\ ~Outdated(u)'
  BY <1>5, <1>8 DEF Nameless, Outdated, Sending
<1>10. Repeatable(u)' => Repeatable(u)
  <2>1. Unread' \cup fresh' \cup parked' \subseteq Unread \cup fresh \cup parked
    BY <1>1 DEF Unread, Positions
  <2> QED
    BY <1>1, <2>1 DEF Repeatable
<1>11. CASE e.user # u
  <2>1. profiles'[u] = profiles[u]
    <3>1. profiles' = UserCreated(e) \/ profiles' = WithEmail(e.user, e.email)
      BY <1>1, <1>3 DEF UserUpdated
    <3> QED
      BY <1>0, <1>3, <1>11, <3>1, RowsWithEmail DEF UserCreated
  <2>2. \A kind : ~Sent(u, kind)
    BY <1>6, <1>11 DEF Sent
  <2> QED
    BY <1>0, <1>1, <1>5, <1>7, <1>8, <1>10, <2>1, <2>2, ProfileFrame
<1>12. CASE e.user = u
  <2>1. e.email = email[u]
    BY <1>2, <1>12 DEF ProfileOK
  <2>2. \A q \in Outstanding' : published'[q].user = u => published'[q].email = email'[u]
    BY <1>1, <1>4, <1>7, <2>1
  <2>3. ASSUME profiles'[u] # <<>>, \A i \in DOMAIN profiles'[u] : profiles'[u][i] = email[u],
               Len(profiles'[u]) <= IF Repeatable(u)' THEN faults' ELSE 1 + faults'
        PROVE  ProfileOK(u)'
    BY <1>1, <1>5, <1>9, <2>2, <2>3 DEF ProfileOK
  <2>4. CASE e.kind = "USER_CREATED"
    <3>1. profiles'[u] = Append(profiles[u], email[u])
      BY <1>0, <1>1, <1>12, <2>1, <2>4 DEF Written, UserCreated
    <3>2. profiles[u] \in Seq(Emails \cup {None}) /\ email[u] \in Emails \cup {None}
      BY <1>0, <1>3, <2>1
    <3>3. \A i \in DOMAIN profiles[u] : profiles[u][i] = email[u]
      <4>1. ~Outdated(u)
        BY <1>5, <1>6, <2>4 DEF Outdated, Sending, Sent
      <4> QED
        BY <4>1 DEF ProfileOK
    <3>4. /\ profiles'[u] # <<>> /\ Len(profiles'[u]) = Len(profiles[u]) + 1
          /\ \A i \in DOMAIN profiles'[u] : profiles'[u][i] = email[u]
      BY <3>1, <3>2, <3>3
    <3>5. Len(profiles[u]) <= faults
      <4>1. Repeatable(u)
        BY <1>1, <1>12, <2>4 DEF Repeatable
      <4> QED
        BY <4>1 DEF ProfileOK
    <3>6. parked' = parked => ~Repeatable(u)'
      <4>1. SUFFICES ASSUME parked' = parked,
                            NEW q \in Unread \cup fresh' \cup parked,
                            published[q].user = u, published[q].kind = "USER_CREATED"
                     PROVE  FALSE
        BY <1>1 DEF Repeatable, Unread, Positions
      <4>2. q \in Outstanding
        BY <1>1, <4>1 DEF Outstanding, Effective, Subscribed, Applicable, NamesUser
      <4>3. p \notin parked /\ p \notin fresh' /\ p \notin Unread
        BY <1>0, <1>1 DEF FeedInv, Unread, ProfilesTypeOK
      <4> QED
        BY <1>4, <4>1, <4>2, <4>3
    <3> QED
      BY <1>0, <1>1, <2>3, <3>4, <3>5, <3>6
  <2>5. CASE e.kind # "USER_CREATED"
    <3>1. profiles' = WithEmail(u, email[u])
      BY <1>1, <1>12, <2>1, <2>5 DEF Written, UserUpdated
    <3>2. /\ Len(profiles'[u]) = Len(profiles[u])
          /\ \A i \in DOMAIN profiles'[u] : profiles'[u][i] = email[u]
      BY <1>0, <1>3, <2>1, <3>1, RowsWithEmail
    <3>3. profiles[u] # <<>>
      <4>1. ~Nameless(u)
        BY <1>5, <1>6, <2>5 DEF Nameless, Sending, Sent
      <4> QED
        BY <4>1 DEF ProfileOK
    <3>4. profiles'[u] # <<>>
      BY <1>0, <3>2, <3>3
    <3>5. Len(profiles'[u]) <= IF Repeatable(u)' THEN faults' ELSE 1 + faults'
      BY <1>0, <1>1, <1>10, <3>2 DEF ProfileOK
    <3> QED
      BY <2>3, <3>2, <3>4, <3>5
  <2> QED
    BY <2>4, <2>5
<1> QED
  BY <1>11, <1>12

\* A request that sends no event and changes no row on the way to one.
LEMMA ProfileQuiet ==
  ASSUME AccountsInv, ProfilesTypeOK, FeedInv, NEW u \in Users, ProfileOK(u),
         NEW r \in Requests, RequestStep(r), UNCHANGED domainService,
         published' = published, email'[u] = email[u],
         \A op \in {"register", "change"} : ~Sends(r, u, op) /\ ~Sends(r, u, op)'
  PROVE  ProfileOK(u)'
<1>0. faults \in Nat /\ Len(profiles[u]) \in Nat
  BY DEF ProfilesTypeOK
<1>1. UNCHANGED <<profiles, fetched, fresh, acking, parked, handled, faults>>
  BY DEF domainService
<1>2. \A q \in Requests \ {r} :
        /\ call'[q] = call[q] /\ \A op : Sends(q, u, op)' <=> Sends(q, u, op)
  BY Frame DEF Sends
<1>3. \A op \in {"register", "change"} : \A q \in Requests :
        /\ Sends(q, u, op)' <=> Sends(q, u, op)
        /\ Sends(q, u, op) => call'[q] = call[q]
  BY <1>2
<1>4. /\ \A kind : Sent(u, kind)' <=> Sent(u, kind)
      /\ Outstanding' = Outstanding
      /\ Repeatable(u)' <=> Repeatable(u)
  BY <1>1 DEF Sent, Outstanding, Repeatable, Unread, Positions, Effective, Subscribed
<1> QED
  BY <1>0, <1>1, <1>3, <1>4, ProfileFrame

\* Only a registration and a change have an event of an address to send.
LEMMA QuietSends ==
  ASSUME AccountsInv, NEW r \in Requests, RequestStep(r),
         ~Create(r), ~Change(r), ~Send(r), ~Fails(r)
  PROVE  \A u : \A op \in {"register", "change"} : ~Sends(r, u, op) /\ ~Sends(r, u, op)'
<1> USE DEF AccountsInv, AccountsTypeOK, Goto, Close
<1>1. pc[r] # "send"
  BY DEF RequestStep, Begin, EmailTaken, Login, GetUser, VerifyCurrent, Delete, Forgot, Redeem,
     ReadUser, Reset, LookUp, DropToken, DropIndex, SetToken, SetIndex
<1>2. pc'[r] = "send" => call'[r].op \in {"delete", "forgot"}
  <2>1. CASE Begin(r)
    <3>1. PICK c \in Calls : pc' = [pc EXCEPT ![r] = FirstStep(c)]
      BY <2>1 DEF Begin
    <3>2. FirstStep(c) # "send"
      BY CallFields, BegunCall DEF FirstStep, Ops
    <3> QED
      BY <3>1, <3>2
  <2>2. CASE Delete(r) \/ SetIndex(r)
    BY <2>2, StepsOfOps DEF Delete, SetIndex
  <2>3. CASE ~Begin(r) /\ ~Delete(r) /\ ~SetIndex(r)
    <3>1. pc'[r] # "send"
      BY <2>3 DEF RequestStep, EmailTaken, Login, GetUser, VerifyCurrent, Forgot, Redeem,
         ReadUser, Reset, LookUp, DropToken, DropIndex, SetToken, Invalidated
    <3> QED
      BY <3>1
  <2> QED
    BY <2>1, <2>2, <2>3
<1> QED
  BY <1>1, <1>2 DEF Sends

LEMMA ProfileRequests ==
  ASSUME AccountsInv, ProfilesTypeOK, FeedInv, OneAtATime, ~hurried,
         NEW u \in live, ProfileOK(u), ~Unannounced(u)', ~ChangeRefused(u)',
         NEW r \in Requests, Request(r)
  PROVE  ProfileOK(u)'
<1>0. /\ RequestStep(r) /\ UNCHANGED domainService
      /\ u \in Users /\ live \cap gone = {}
      /\ email \in [Users -> Emails \cup {None}] /\ pc \in [Requests -> Steps]
      /\ call \in [Requests -> Calls \cup {NoCall}] /\ found \in [Requests -> Users \cup {None}]
      /\ faults \in Nat /\ Len(profiles[u]) \in Nat
  BY DEF Request, AccountsInv, AccountsTypeOK, RowsAreDistinct, ProfilesTypeOK
<1>a. Recorded(r)
  BY DEF AccountsInv, ProgressIsRecorded, Recorded
<1>1. CASE ~Create(r) /\ ~Change(r) /\ ~Send(r) /\ ~Fails(r)
  <2>1. email' = email
    BY <1>0, <1>1 DEF RequestStep, Begin, EmailTaken, Login, GetUser, VerifyCurrent, Delete, Forgot,
       Redeem, ReadUser, Reset, LookUp, DropToken, DropIndex, SetToken, SetIndex, tables
  <2> QED
    BY <1>0, <1>1, <2>1, QuietSends, RequestLeads, ProfileQuiet
<1>2. CASE Create(r)
  <2>1. pc[r] = "write" /\ UNCHANGED <<published, call>>
    BY <1>2 DEF Create
  <2>2. PICK v \in Users \ (live \cup gone) :
          email' = [email EXCEPT ![v] = call[r].email] /\ found' = [found EXCEPT ![r] = v]
    BY <1>2 DEF Create
  <2>3. email'[u] = email[u] /\ found'[r] # u
    BY <1>0, <2>2
  <2> QED
    BY <1>0, <2>1, <2>3, ProfileQuiet DEF Sends
<1>3. CASE Fails(r)
  <2>1. /\ UNCHANGED <<published, call, email, found, did, told>> /\ pc'[r] = "closed"
    BY <1>0, <1>3 DEF Fails, Close, tables
  <2>2. \A op \in {"register", "change"} : ~Sends(r, u, op)
    BY <1>a, <2>1 DEF Sends, Recorded, Unannounced
  <2> QED
    BY <1>0, <2>1, <2>2, ProfileQuiet DEF Sends
<1>4. CASE Change(r)
  <2> DEFINE c == call[r]
  <2>1. pc[r] = "write" /\ UNCHANGED <<published, call, found>> /\ c.op = "change"
    BY <1>4 DEF Change
  <2>2. CASE found[r] # u \/ found[r] \notin live \/ c.email = None
    <3>1. email'[u] = email[u]
      BY <1>0, <1>4, <2>2 DEF Change
    <3>2. \A op \in {"register", "change"} : ~Sends(r, u, op) /\ ~Sends(r, u, op)'
      BY <1>0, <1>4, <2>1, <2>2 DEF Sends, Change, Close
    <3> QED
      BY <1>0, <2>1, <3>1, <3>2, ProfileQuiet
  <2>3. CASE found[r] = u /\ c.email # None
    <3>1. email' = [email EXCEPT ![u] = c.email] /\ pc'[r] = "send"
      BY <1>0, <1>4, <2>3 DEF Change, Goto
    <3>2. /\ Outstanding = {}
          /\ \A q \in Requests \ {r} : \A op : ~Sends(q, u, op)
          /\ \A kind : ~Sent(u, kind)
      BY <2>1, AloneAtWork DEF Open
    <3>3. UNCHANGED <<profiles, fetched, fresh, acking, parked, handled, faults>>
      BY <1>0 DEF domainService
    <3>4. /\ \A kind : ~Sent(u, kind)'
          /\ Outstanding' = {}
          /\ Repeatable(u)' <=> Repeatable(u)
      BY <2>1, <3>2, <3>3 DEF Sent, Outstanding, Repeatable, Unread, Positions, Effective, Subscribed
    <3>5. \A q \in Requests \ {r} : \A op : ~Sends(q, u, op)'
      BY <1>0, <3>2, Frame DEF Sends
    <3>6. ~Nameless(u) /\ ~Nameless(u)'
      BY <2>1, <3>2, <3>4, <3>5 DEF Nameless, Sending, Sends
    <3>7. Outdated(u)'
      BY <2>1, <2>3, <3>1 DEF Outdated, Sending, Sends
    <3>8. call'[r].email = email'[u]
      BY <1>0, <2>1, <3>1
    <3> QED
      BY <3>3, <3>4, <3>5, <3>6, <3>7, <3>8 DEF ProfileOK
  <2> QED
    BY <2>2, <2>3
<1>5. CASE Send(r)
  <2> DEFINE e == EventOf(r)
  <2>0. PICK n : n = Len(published) + 1
    OBVIOUS
  <2>1. pc[r] = "send" /\ pc'[r] = "closed" /\ UNCHANGED <<call, found, email>>
    BY <1>0, <1>5 DEF Send, Close, tables
  <2>2. /\ Outstanding = {}
        /\ \A q \in Requests \ {r} : \A op : ~Sends(q, u, op)
        /\ \A kind : ~Sent(u, kind)
    BY <2>1, AloneAtWork DEF Open
  <2>3. UNCHANGED <<profiles, fetched, fresh, acking, parked, handled, faults>>
    BY <1>0 DEF domainService
  <2>4. /\ Outstanding' \subseteq {n} /\ Unread' = Unread \cup {n}
        /\ \A p \in Positions : (Effective(p)' <=> Effective(p)) /\ published'[p] = published[p]
    BY <1>5, <2>0, <2>2, <2>3, SentOutstanding
  <2>5. /\ published'[n] = e /\ Positions' = Positions \cup {n} /\ n \notin Positions
        /\ e \in Event
    BY <1>5, <2>0, SentLast DEF Positions
  <2>6. \A q \in Requests : \A op : ~Sends(q, u, op)'
    BY <1>0, <2>1, <2>2, Frame DEF Sends
  <2>7. n \notin handled /\ fresh \cup parked \subseteq Positions
    BY <2>5 DEF ProfilesTypeOK, Positions
  <2>8. \A kind : Sent(u, kind)' <=> (Effective(n)' /\ e.user = u /\ e.kind = kind)
    BY <2>2, <2>3, <2>4, <2>5, <2>7 DEF Sent
  <2>9. Effective(n)' <=> (e.kind # "PASSWORD_RESET_REQUESTED" /\ Applicable(e))
    BY <2>5 DEF Effective, Subscribed
  <2>10. Repeatable(u)' => Repeatable(u) \/ (e.user = u /\ e.kind = "USER_CREATED")
    BY <2>3, <2>4, <2>5, <2>7 DEF Repeatable, Unread
  <2> HIDE DEF e
  <2>11. ASSUME e.user # u \/ ~Effective(n)',
                \A op \in {"register", "change"} : ~Sends(r, u, op)
         PROVE  ProfileOK(u)'
    <3>1. e.kind = "USER_CREATED" => Effective(n)'
      BY <2>9 DEF Applicable, NamesUser
    <3>2. Repeatable(u)' => Repeatable(u)
      BY <2>10, <2>11, <3>1
    <3>3. \A p \in Outstanding' : published'[p].user # u
      <4>1. \A p \in Outstanding' : p = n /\ Effective(n)'
        BY <2>4 DEF Outstanding
      <4> QED
        BY <2>5, <2>11, <4>1
    <3>4. \A op \in {"register", "change"} : \A q \in Requests :
            /\ Sends(q, u, op)' <=> Sends(q, u, op)
            /\ Sends(q, u, op) => call'[q] = call[q]
      BY <2>2, <2>6, <2>11
    <3>5. \A kind : Sent(u, kind)' <=> Sent(u, kind)
      BY <2>2, <2>8, <2>11
    <3>6. profiles'[u] = profiles[u] /\ email'[u] = email[u] /\ faults' = faults
      BY <2>1, <2>3
    <3> QED
      BY <1>0, <3>2, <3>3, <3>4, <3>5, <3>6, ProfileFrame
  <2>12. /\ e.user = found[r] /\ call[r].op \in {"register", "change", "delete", "forgot"}
         /\ call[r].op = "register" =>
              e.kind = "USER_CREATED" /\ e.email = call[r].email /\ e.email # None
         /\ call[r].op = "change" =>
              /\ e.kind = "USER_UPDATED" /\ e.email = call[r].email
              /\ "email" \in e.fields <=> e.email # None
         /\ call[r].op = "delete" => e.kind = "USER_DELETED"
         /\ call[r].op = "forgot" => e.kind = "PASSWORD_RESET_REQUESTED"
    BY <2>1, ToldEvent DEF e
  <2>13. CASE e.user # u \/ call[r].op \in {"delete", "forgot"}
    BY <2>9, <2>11, <2>12, <2>13 DEF Applicable, NamesUser, Sends
  <2>14. CASE e.user = u /\ call[r].op = "change" /\ e.email = None
    <3>1. ~Applicable(e)
      <4>1. e.fields \subseteq {"email", "forename", "surname", "password"}
        BY <2>5 DEF Event, Fields
      <4> QED
        BY <2>12, <2>14, <4>1 DEF Applicable, ProfileFields
    <3> QED
      BY <2>9, <2>11, <2>12, <2>14, <3>1 DEF Sends
  <2>15. ASSUME NEW op \in {"register", "change"}, e.user = u, call[r].op = op, e.email # None
         PROVE  ProfileOK(u)'
    <3>1. Sends(r, u, op)
      BY <2>1, <2>12, <2>15 DEF Sends
    <3>2. e.email = email'[u]
      BY <2>1, <2>12, <2>15, <3>1 DEF ProfileOK
    <3>3. Effective(n)'
      <4>1. CASE op = "register"
        BY <2>9, <2>12, <2>15, <4>1 DEF Applicable, NamesUser
      <4>2. CASE op = "change"
        <5>1. Applicable(e)
          BY <2>5, <2>12, <2>15, <4>2 DEF ChangeRefused, Positions
        <5> QED
          BY <2>9, <2>12, <2>15, <4>2, <5>1
      <4> QED
        BY <4>1, <4>2
    <3>4. Nameless(u)' <=> Nameless(u)
      BY <2>1, <2>2, <2>6, <2>8, <2>12, <2>15, <3>1, <3>3 DEF Nameless, Sending, Sends
    <3>5. Outdated(u)' <=> Outdated(u)
      BY <2>1, <2>2, <2>6, <2>8, <2>12, <2>15, <3>1, <3>3 DEF Outdated, Sending, Sends
    <3>6. \A p \in Outstanding' : published'[p].email = email'[u]
      BY <2>4, <2>5, <3>2
    <3>7. Len(profiles'[u]) <= IF Repeatable(u)' THEN faults' ELSE 1 + faults'
      <4>1. CASE op = "register"
        <5>1. profiles[u] = <<>>
          BY <2>15, <3>1, <4>1 DEF ProfileOK, Nameless, Sending
        <5> QED
          BY <1>0, <2>3, <5>1
      <4>2. CASE op = "change"
        BY <1>0, <2>3, <2>10, <2>12, <2>15, <4>2 DEF ProfileOK
      <4> QED
        BY <4>1, <4>2
    <3> QED
      BY <2>1, <2>3, <2>6, <3>4, <3>5, <3>6, <3>7 DEF ProfileOK
  <2> QED
    BY <2>12, <2>13, <2>14, <2>15
<1> QED
  BY <1>0, <1>1, <1>2, <1>3, <1>4, <1>5

\* The profile of a new account is not there yet.
LEMMA ProfileCreated ==
  ASSUME AccountsInv, ProfilesTypeOK, FeedInv,
         NEW u \in Users, u \in live', u \notin live \cup gone,
         NEW r \in Requests, Request(r), Create(r)
  PROVE  ProfileOK(u)'
<1>0. /\ UNCHANGED domainService /\ live \subseteq Users
      /\ email \in [Users -> Emails \cup {None}] /\ pc \in [Requests -> Steps]
      /\ call \in [Requests -> Calls \cup {NoCall}] /\ found \in [Requests -> Users \cup {None}]
      /\ faults \in Nat /\ u # None
  BY AccountsAssumption DEF Request, AccountsInv, AccountsTypeOK, ProfilesTypeOK
<1>1. /\ email' = [email EXCEPT ![u] = call[r].email] /\ found' = [found EXCEPT ![r] = u]
      /\ pc'[r] = "send" /\ UNCHANGED <<call, published>> /\ call[r].op = "register"
  <2>1. PICK v \in Users \ (live \cup gone) :
          /\ live' = live \cup {v}
          /\ email' = [email EXCEPT ![v] = call[r].email]
          /\ found' = [found EXCEPT ![r] = v]
    BY DEF Create
  <2>2. v = u
    BY <2>1
  <2> QED
    BY <1>0, <2>1, <2>2 DEF Create, Goto
<1>2. call[r].email # None
  BY <1>0, <1>1, CallFields, AccountsAssumption
<1>3. profiles'[u] = <<>> /\ faults' = faults
  BY <1>0 DEF domainService, FeedInv
<1>4. Nameless(u)'
  BY <1>0, <1>1, <1>2 DEF Nameless, Sending, Sends
<1>5. \A p \in Outstanding' : published'[p].user # u
  <2>1. Outstanding' \subseteq Positions
    BY <1>0, <1>1 DEF Outstanding, Unread, domainService, ProfilesTypeOK, Positions
  <2> QED
    BY <1>1, <2>1 DEF FeedInv
<1>6. \A q \in Requests : found'[q] = u => q = r
  BY <1>0, <1>1 DEF AccountsInv, RequestsMakeSense
<1>7. \A q \in Requests : Sends(q, u, "register")' \/ Sends(q, u, "change")' =>
        call'[q].email = email'[u]
  BY <1>0, <1>1, <1>6 DEF Sends
<1> QED
  BY <1>0, <1>3, <1>4, <1>5, <1>7 DEF ProfileOK

-----------------------------------------------------------------------------
(* Profiles: the theorems *)

LEMMA ProfilesInitInv ==
  ASSUME ProfilesInit
  PROVE  ProfilesInv
<1>0. AccountsInv /\ AccountsInit
  BY InitInv DEF ProfilesInit
<1>1. published = <<>> /\ Positions = {} /\ Len(published) = 0
      /\ \A r \in Requests : pc[r] = "idle" /\ call[r] = NoCall
  BY <1>0 DEF AccountsInit, Positions
<1>2. email \in [Users -> Emails \cup {None}] /\ live \subseteq Users
      /\ \A u \in Users : email[u] = None <=> u \notin live \cup gone
  BY <1>0 DEF AccountsInit
<1>3. ProfilesTypeOK
  <2>1. profiles \in [Users -> Seq(Emails \cup {None})]
    <3>1. \A u \in Users : profiles[u] \in Seq(Emails \cup {None})
      <4>1. SUFFICES ASSUME NEW u \in Users PROVE profiles[u] \in Seq(Emails \cup {None})
        OBVIOUS
      <4>2. profiles[u] = IF email[u] = None THEN <<>> ELSE <<email[u]>>
        BY DEF ProfilesInit
      <4>3. email[u] \in Emails \cup {None}
        BY <1>2
      <4>4. CASE email[u] = None
        BY <4>2, <4>4
      <4>5. CASE email[u] # None
        <5>1. profiles[u] = <<email[u]>> /\ email[u] \in Emails \cup {None}
          BY <4>2, <4>3, <4>5
        <5> QED
          BY <5>1
      <4> QED
        BY <4>4, <4>5
    <3>2. profiles = [u \in Users |-> IF email[u] = None THEN <<>> ELSE <<email[u]>>]
      BY DEF ProfilesInit
    <3> QED
      BY <3>1, <3>2
  <2>2. /\ fetched = 0 /\ faults = 0 /\ hurried = FALSE /\ patched = {}
        /\ fresh = {} /\ acking = {} /\ parked = {} /\ handled = {}
    BY DEF ProfilesInit
  <2>3. fetched \in 0..Len(published) /\ faults \in 0..MaxFaults
    BY <1>1, <2>2, ProfilesAssumption
  <2> QED
    BY <2>1, <2>2, <2>3 DEF ProfilesTypeOK
<1>4. FeedInv
  BY <1>1, <1>2 DEF ProfilesInit, FeedInv, WellFormed, NoCall, Call
<1>5. Outstanding = {} /\ Unread = {}
  BY <1>1 DEF ProfilesInit, Outstanding, Unread
<1>6. OneAtATime
  BY <1>1, <1>5 DEF OneAtATime, Open
<1>7. ASSUME NEW u \in live PROVE ProfileOK(u)
  <2>1. profiles[u] = <<email[u]>> /\ faults = 0
    BY <1>2, <1>7 DEF ProfilesInit
  <2>2. \A r \in Requests : \A op : ~Sends(r, u, op)
    BY <1>1 DEF Sends
  <2>3. ~Nameless(u) /\ ~Repeatable(u)
    BY <1>1, <1>5, <2>2 DEF Nameless, Sending, Sent, Repeatable, ProfilesInit
  <2> QED
    BY <1>5, <2>1, <2>2, <2>3 DEF ProfileOK
<1> QED
  BY <1>3, <1>4, <1>6, <1>7 DEF ProfilesInv

LEMMA ProfilesStepInv ==
  ASSUME AccountsInv, ProfilesInv, [ProfilesNext]_profilesVars
  PROVE  ProfilesInv'
<1>1. ProfilesTypeOK' /\ FeedInv' /\ OneAtATime'
  BY ProfilesTypeStep, FeedStep, OneAtATimeStep DEF ProfilesInv
<1>2. ASSUME ~hurried', NEW u \in live', ~Excepted(u)' PROVE ProfileOK(u)'
  <2>1. /\ u \in Users /\ ~Excepted(u)
        /\ u \in live \/ (u \notin live \cup gone /\ \E r \in Requests : Request(r) /\ Create(r))
    <3>1. ProfilesTypeOK /\ FeedInv
      BY DEF ProfilesInv
    <3>2. u \in live' /\ u \notin patched' /\ ~ChangeRefused(u)' /\ ~Unannounced(u)'
      BY <1>2 DEF Excepted
    <3>3. u \in Users
      BY <1>2, AccountsOfProfiles, TypeStep DEF AccountsTypeOK
    <3> QED
      BY <3>1, <3>2, <3>3, ExceptedStep
  <2>2. CASE u \notin live
    BY <2>1, <2>2, ProfileCreated DEF ProfilesInv
  <2>3. CASE u \in live
    <3>1. ~hurried
      <4>1. CASE \E r \in Requests : Request(r)
        BY <1>2, <4>1 DEF Request
      <4>2. CASE ~\E r \in Requests : Request(r)
        BY <1>2, <4>2, ProfileSteps, OutstandingStep DEF ProfilesInv
      <4> QED
        BY <4>1, <4>2
    <3>2. ProfileOK(u)
      BY <2>1, <2>3, <3>1 DEF ProfilesInv
    <3>3. CASE \E r \in Requests : Request(r)
      BY <1>2, <2>3, <3>1, <3>2, <3>3, ProfileRequests DEF ProfilesInv, Excepted
    <3>4. CASE \E p \in Positions : Applying(p)
      BY <1>1, <2>1, <3>1, <3>2, <3>4, ProfileApplied DEF ProfilesInv
    <3>5. CASE Elsewhere \/ Moving \/ \E v \in Users : UpdateProfile(v)
      <4>1. ~UpdateProfile(u)
        BY <1>2 DEF UpdateProfile, Excepted
      <4> QED
        BY <1>1, <2>1, <3>2, <3>5, <4>1, ProfileMoving DEF ProfilesInv
    <3> QED
      BY <3>3, <3>4, <3>5, ProfileSteps
  <2> QED
    BY <2>2, <2>3
<1> QED
  BY <1>1, <1>2 DEF ProfilesInv

\* With the domain service and the mailer, the accounts do what they do alone.
THEOREM ProfilesImplementAccounts == ProfilesSpec => AccountsSpec
<1>1. ProfilesInit => AccountsInit
  BY DEF ProfilesInit
<1>2. [ProfilesNext]_profilesVars => [AccountsNext]_accountVars
  BY AccountsOfProfiles
<1> QED
  BY <1>1, <1>2, PTL DEF ProfilesSpec, AccountsSpec

\* Between requests that wait for one another's events a live account and its
\* profile differ by one event at most, which is on its way.
THEOREM ProfilesInvariant == ProfilesSpec => []ProfilesInv
<1>1. ProfilesInit => ProfilesInv
  BY ProfilesInitInv
<1>2. AccountsInv /\ ProfilesInv /\ [ProfilesNext]_profilesVars => ProfilesInv'
  BY ProfilesStepInv
<1>3. ProfilesSpec => []AccountsInv
  BY ProfilesImplementAccounts, AccountsInvAlways, PTL
<1> QED
  BY <1>1, <1>2, <1>3, PTL DEF ProfilesSpec

\* Once everything is applied, the profiles have the addresses of the accounts.
THEOREM ProfilesFollowAccountsAlways == ProfilesSpec => []ProfilesFollowAccounts
<1>1. AccountsInv /\ ProfilesInv => ProfilesFollowAccounts
  <2> SUFFICES ASSUME AccountsInv, ProfilesInv, ~hurried, AllApplied,
                      NEW u \in live, ~Excepted(u)
               PROVE  /\ Len(profiles[u]) \in 1..(1 + faults)
                      /\ \A i \in DOMAIN profiles[u] : profiles[u][i] = email[u]
    BY DEF ProfilesFollowAccounts
  <2>1. ProfileOK(u) /\ profiles[u] \in Seq(Emails \cup {None}) /\ faults \in Nat
    BY DEF ProfilesInv, ProfilesTypeOK, AccountsInv, AccountsTypeOK
  <2>2. \A r \in Requests : \A op : ~Sends(r, u, op)
    BY DEF AllApplied, Sends, Open
  <2>3. \A kind : ~Sent(u, kind)
    BY DEF AllApplied, Sent, Effective, Positions
  <2>4. ~Nameless(u) /\ ~Outdated(u)
    BY <2>2, <2>3 DEF Nameless, Outdated, Sending
  <2> QED
    BY <2>1, <2>4 DEF ProfileOK
<1>2. ProfilesSpec => []AccountsInv
  BY ProfilesImplementAccounts, AccountsInvAlways, PTL
<1> QED
  BY <1>1, <1>2, ProfilesInvariant, PTL

=============================================================================
