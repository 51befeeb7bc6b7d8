------------------------------ MODULE Accounts ------------------------------
(***************************************************************************)
(* The accounts of the authentication service: the table users, the tokens *)
(* of password resets in Redis, and the HTTP requests that work on them    *)
(* (services/authentication/src: controllers, services, user_model and     *)
(* password_reset_helpers).                                                *)
(*                                                                         *)
(* Each query of Postgres, each command of Redis and each send is an await *)
(* of its own, and any other request may run in between.  A reset token is *)
(* kept under two keys, token -> user and user -> token, which are written *)
(* and deleted one after the other.                                        *)
(*                                                                         *)
(* Covered: register, login, reading and changing one's credentials,       *)
(* deletion, forgotten and reset passwords, failures of any await, expiry. *)
(* Not covered: forename and surname (only that they were changed), and    *)
(* the refresh token a deletion blocks (TokenRotation).                    *)
(***************************************************************************)
EXTENDS Integers, Sequences, FiniteSets

CONSTANTS Users,       \* user ids
          Emails,      \* normalised addresses
          Passwords,   \* plaintexts within PASSWORD_CONSTRAINTS
          Tokens,      \* reset tokens; bounds how many are generated
          Requests,    \* the HTTP requests; each one is made once
          Forms,       \* the sets of fields that changes of credentials name
          None         \* null, or no such key

Fields == {"email", "forename", "surname", "password"}

ASSUME AccountsAssumption ==
  /\ None \notin Users \cup Emails \cup Passwords \cup Tokens
  /\ Forms \subseteq (SUBSET Fields) \ {{}}

VARIABLES
  live, gone,    \* ids of the rows of users: deleted_at is null, or set
  email,         \* the column email of each row
  password,      \* the column password: a hash
  resetUser,     \* Redis: the user of a reset token, or None
  resetToken,    \* Redis: the token that was stored last for a user, or None
  call,          \* what each request asks for
  pc,            \* what each request awaits next
  found,         \* the id a request works on
  seen,          \* what a request read for later: the token InvalidateResetToken
                 \* found, the address of the account that is to be deleted
  answer,        \* the status of the response, 0 before
  published,     \* Redis: the events sent, oldest first
  did,           \* history: requests that changed a row
  told,          \* history: requests whose event was sent
  issued,        \* history: tokens that were ever generated
  used,          \* history: tokens that have changed a password
  raced          \* history: users with reset requests that overlapped or broke off

tables == <<live, gone, email, password>>
redis == <<resetUser, resetToken>>
history == <<did, told, issued, used, raced>>
accountVars == <<tables, redis, call, pc, found, seen, answer, published, history>>

-----------------------------------------------------------------------------
\* HashPassword and VerifyPassword: a hash is no plaintext and tells only
\* whether a plaintext was the one.
HashPassword(p) == <<"scrypt", p>>
VerifyPassword(p, hash) == hash = HashPassword(p)

\* The requests that get past the validators and controllers.
Call(op, user, mail, proof, fields, new, token) ==
  [op |-> op, user |-> user, email |-> mail, proof |-> proof, fields |-> fields,
   new |-> new, token |-> token]

NoCall == Call("none", None, None, None, {}, None, None)

RegisterCalls ==
  {Call("register", None, e, None, {}, p, None) : e \in Emails, p \in Passwords}

LoginCalls ==
  {Call("login", None, e, p, {}, None, None) : e \in Emails, p \in Passwords}

\* The current password may be missing.
ChangeCalls ==
  {Call("change", u, e, p, F, q, None) :
     u \in Users, e \in Emails \cup {None}, p \in Passwords \cup {None},
     F \in Forms, q \in Passwords \cup {None}}

WellFormed(c) ==
  c.op = "change" =>
    /\ c.email = None <=> "email" \notin c.fields
    /\ c.new = None <=> "password" \notin c.fields
    /\ "password" \notin c.fields => c.proof = None

DeleteCalls == {Call("delete", u, None, p, {}, None, None) : u \in Users, p \in Passwords}
MeCalls     == {Call("me", u, None, None, {}, None, None) : u \in Users}
ForgotCalls == {Call("forgot", None, e, None, {}, None, t) : e \in Emails, t \in Tokens}
ResetCalls  == {Call("reset", None, None, None, {}, p, t) : p \in Passwords, t \in Tokens}

Calls == RegisterCalls \cup LoginCalls \cup ChangeCalls \cup DeleteCalls \cup MeCalls
           \cup ForgotCalls \cup ResetCalls

\* What each controller answers when its service returns an error, or none.
RefusalOf(c) == CASE c.op = "login" -> 401 [] c.op = "me" -> 404 [] OTHER -> 400
SuccessOf(c) == IF c.op = "register" THEN 201 ELSE 200

\* SessionMiddleware: the routes that want an access token take its subject for
\* the user.  Tokens outlive the account, for minutes.
HasSession(u) == u \in live \cup gone

\* The models' queries see live rows only; the unique index on the column email
\* covers the deleted ones too.
ByEmail(e) == {u \in live : email[u] = e}

\* Plausible fault: the index leaves out the deleted rows, as most others do.
FreeOfLive(e, u) == \A v \in live \ {u} : email[v] # e

EmailFree(e, u) == \A v \in (live \cup gone) \ {u} : email[v] # e

\* What a change sends: everything but the password.
Announced(c) == c.fields \ {"password"}

Kinds == {"USER_CREATED", "USER_UPDATED", "USER_DELETED", "PASSWORD_RESET_REQUESTED"}
Event == [kind : Kinds, user : Users, email : Emails \cup {None},
          fields : SUBSET Fields, token : Tokens \cup {None}]

\* The event of a request that has got that far.
EventOf(r) ==
  LET c == call[r]
      Tell(kind, mail, fields, token) ==
        [kind |-> kind, user |-> found[r], email |-> mail, fields |-> fields, token |-> token]
  IN  CASE c.op = "register" -> Tell("USER_CREATED", c.email, {}, None)
        [] c.op = "change"   -> Tell("USER_UPDATED", c.email, Announced(c), None)
        [] c.op = "delete"   -> Tell("USER_DELETED", seen[r], {}, None)
        [] c.op = "forgot"   -> Tell("PASSWORD_RESET_REQUESTED", c.email, {}, c.token)

-----------------------------------------------------------------------------
\* A request in the middle of working on the reset tokens of its user.
Resetting(r) ==
  \/ call[r].op = "forgot" /\ pc[r] \in {"lookup", "dropToken", "dropIndex", "setToken", "setIndex"}
  \/ call[r].op = "reset" /\ pc[r] \in {"read", "write", "lookup", "dropToken", "dropIndex"}

\* Request r goes on to work on the reset tokens of u.
StartsResetting(r, u) ==
  raced' = IF \E s \in Requests \ {r} : Resetting(s) /\ found[s] = u
           THEN raced \cup {u} ELSE raced

Open(r) == pc[r] \notin {"idle", "closed"}

Goto(r, step) == pc' = [pc EXCEPT ![r] = step] /\ UNCHANGED answer
Close(r, status) ==
  /\ pc' = [pc EXCEPT ![r] = "closed"]
  /\ answer' = [answer EXCEPT ![r] = status]

FirstStep(c) ==
  CASE c.op \in {"register", "login", "forgot"} -> "find"
    [] c.op = "change" -> IF "password" \in c.fields THEN "verify" ELSE "write"
    [] c.op \in {"delete", "me"} -> "verify"
    [] c.op = "reset" -> "redeem"

\* A request arrives.  The token of a forgotten password is random: no other
\* request has it.
Begin(r) ==
  /\ pc[r] = "idle"
  /\ \E c \in Calls :
       /\ WellFormed(c)
       /\ c.user # None => HasSession(c.user)
       /\ c.op = "forgot" => c.token \notin issued /\ \A s \in Requests : call[s].token # c.token
       /\ issued' = IF c.op = "forgot" THEN issued \cup {c.token} ELSE issued
       /\ call' = [call EXCEPT ![r] = c]
       /\ found' = [found EXCEPT ![r] = c.user]
       /\ Goto(r, FirstStep(c))
  /\ UNCHANGED <<tables, redis, seen, published, did, told, used, raced>>

-----------------------------------------------------------------------------
\* RegisterService: existsByEmail.
EmailTaken(r) ==
  /\ call[r].op = "register" /\ pc[r] = "find"
  /\ IF ByEmail(call[r].email) # {} THEN Close(r, RefusalOf(call[r])) ELSE Goto(r, "write")
  /\ UNCHANGED <<tables, redis, call, found, seen, published, history>>

\* UserModel.create: the database picks an id; a taken address makes it throw.
Create(r) ==
  /\ call[r].op = "register" /\ pc[r] = "write"
  /\ \E u \in Users \ (live \cup gone) :
       /\ EmailFree(call[r].email, u)
       /\ live' = live \cup {u}
       /\ email' = [email EXCEPT ![u] = call[r].email]
       /\ password' = [password EXCEPT ![u] = HashPassword(call[r].new)]
       /\ found' = [found EXCEPT ![r] = u]
  /\ Goto(r, "send")
  /\ did' = did \cup {r}
  /\ UNCHANGED <<gone, redis, call, seen, published, told, used, raced, issued>>

\* LoginService: findByEmail, then the password.
Login(r) ==
  /\ call[r].op = "login" /\ pc[r] = "find"
  /\ Close(r, IF \E u \in ByEmail(call[r].email) : VerifyPassword(call[r].proof, password[u])
              THEN SuccessOf(call[r]) ELSE RefusalOf(call[r]))
  /\ UNCHANGED <<tables, redis, call, found, seen, published, history>>

\* GetUserService: findByIdWithoutPassword.
GetUser(r) ==
  /\ call[r].op = "me" /\ pc[r] = "verify"
  /\ Close(r, IF found[r] \in live THEN SuccessOf(call[r]) ELSE RefusalOf(call[r]))
  /\ UNCHANGED <<tables, redis, call, found, seen, published, history>>

\* CredentialChangeService and DeleteUserService: findById, VerifyPassword, and
\* a new password that is another one.
Proved(c, u) ==
  /\ c.proof # None
  /\ u \in live
  /\ VerifyPassword(c.proof, password[u])
  /\ c.op = "change" => c.new # c.proof

VerifyCurrent(r) ==
  /\ call[r].op \in {"change", "delete"} /\ pc[r] = "verify"
  /\ IF Proved(call[r], found[r])
     THEN Goto(r, "write") /\ seen' = [seen EXCEPT ![r] = email[found[r]]]
     ELSE Close(r, RefusalOf(call[r])) /\ UNCHANGED seen
  /\ UNCHANGED <<tables, redis, call, found, published, history>>

\* Plausible fault: the result of userModel.update is ignored.
ChangeUnchecked(r) ==
  /\ call[r].op = "change" /\ pc[r] = "write"
  /\ Goto(r, "send")
  /\ UNCHANGED <<tables, redis, call, found, seen, published, history>>

\* UserModel.update of a change: without a live row the service gives up.
Change(r) ==
  LET c == call[r] IN
  /\ c.op = "change" /\ pc[r] = "write"
  /\ IF found[r] \notin live
     THEN Close(r, RefusalOf(c)) /\ UNCHANGED <<email, password, did>>
     ELSE /\ c.email # None => EmailFree(c.email, found[r])
          /\ email' = IF c.email = None THEN email ELSE [email EXCEPT ![found[r]] = c.email]
          /\ password' = IF c.new = None THEN password
                         ELSE [password EXCEPT ![found[r]] = HashPassword(c.new)]
          /\ did' = did \cup {r}
          /\ Goto(r, "send")
  /\ UNCHANGED <<live, gone, redis, call, found, seen, published, told, used, raced, issued>>

\* UserModel.delete of a deletion; how many rows it found is not asked.
Delete(r) ==
  /\ call[r].op = "delete" /\ pc[r] = "write"
  /\ live' = live \ {found[r]}
  /\ gone' = gone \cup {found[r]}
  /\ did' = IF found[r] \in live THEN did \cup {r} ELSE did
  /\ Goto(r, "send")
  /\ UNCHANGED <<email, password, redis, call, found, seen, published, told, used, raced, issued>>

-----------------------------------------------------------------------------
\* ForgotpasswordService: nobody is told whether the address is known.
Forgot(r) ==
  /\ call[r].op = "forgot" /\ pc[r] = "find"
  /\ IF ByEmail(call[r].email) = {}
     THEN Close(r, SuccessOf(call[r])) /\ UNCHANGED <<found, raced>>
     ELSE \E u \in ByEmail(call[r].email) :
            /\ found' = [found EXCEPT ![r] = u]
            /\ StartsResetting(r, u)
            /\ Goto(r, "lookup")
  /\ UNCHANGED <<tables, redis, call, seen, published, did, told, used, issued>>

\* ResetPasswordService: VerifyResetToken.
Redeem(r) ==
  LET u == resetUser[call[r].token] IN
  /\ call[r].op = "reset" /\ pc[r] = "redeem"
  /\ IF u = None
     THEN Close(r, RefusalOf(call[r])) /\ UNCHANGED <<found, raced>>
     ELSE found' = [found EXCEPT ![r] = u] /\ StartsResetting(r, u) /\ Goto(r, "read")
  /\ UNCHANGED <<tables, redis, call, seen, published, did, told, used, issued>>

\* findById, and a new password that is another one.
ReadUser(r) ==
  /\ call[r].op = "reset" /\ pc[r] = "read"
  /\ IF found[r] \in live /\ ~VerifyPassword(call[r].new, password[found[r]])
     THEN Goto(r, "write") ELSE Close(r, RefusalOf(call[r]))
  /\ UNCHANGED <<tables, redis, call, found, seen, published, history>>

\* UserModel.update of a reset; its result is ignored.
Reset(r) ==
  /\ call[r].op = "reset" /\ pc[r] = "write"
  /\ IF found[r] \in live
     THEN /\ password' = [password EXCEPT ![found[r]] = HashPassword(call[r].new)]
          /\ did' = did \cup {r}
          /\ used' = used \cup {call[r].token}
     ELSE UNCHANGED <<password, did, used>>
  /\ Goto(r, "lookup")
  /\ UNCHANGED <<live, gone, email, redis, call, found, seen, published, told, raced, issued>>

-----------------------------------------------------------------------------
\* After InvalidateResetToken: a reset is done, a forgotten password gets its token.
Invalidated(r) ==
  IF call[r].op = "reset" THEN Close(r, SuccessOf(call[r])) ELSE Goto(r, "setToken")

\* InvalidateResetToken: GET user -> token.
LookUp(r) ==
  LET t == resetToken[found[r]] IN
  /\ pc[r] = "lookup"
  /\ seen' = [seen EXCEPT ![r] = t]
  /\ IF t = None THEN Invalidated(r) ELSE Goto(r, "dropToken")
  /\ UNCHANGED <<tables, redis, call, found, published, history>>

\* Plausible fault: only the index by user is deleted.
DropNothing(r) ==
  /\ pc[r] = "dropToken"
  /\ Goto(r, "dropIndex")
  /\ UNCHANGED <<tables, redis, call, found, seen, published, history>>

\* DEL of the token it read.
DropToken(r) ==
  /\ pc[r] = "dropToken"
  /\ resetUser' = [resetUser EXCEPT ![seen[r]] = None]
  /\ Goto(r, "dropIndex")
  /\ UNCHANGED <<tables, resetToken, call, found, seen, published, history>>

\* DEL of the index by user.
DropIndex(r) ==
  /\ pc[r] = "dropIndex"
  /\ resetToken' = [resetToken EXCEPT ![found[r]] = None]
  /\ Invalidated(r)
  /\ UNCHANGED <<tables, resetUser, call, found, seen, published, history>>

\* CreateResetToken: SET token -> user.
SetToken(r) ==
  /\ pc[r] = "setToken"
  /\ resetUser' = [resetUser EXCEPT ![call[r].token] = found[r]]
  /\ Goto(r, "setIndex")
  /\ UNCHANGED <<tables, resetToken, call, found, seen, published, history>>

\* CreateResetToken: SET user -> token.
SetIndex(r) ==
  /\ pc[r] = "setIndex"
  /\ resetToken' = [resetToken EXCEPT ![found[r]] = call[r].token]
  /\ Goto(r, "send")
  /\ UNCHANGED <<tables, resetUser, call, found, seen, published, history>>

\* The two keys of a token expire five minutes after they were set, one after the other.
ExpireToken(t) ==
  /\ resetUser[t] # None
  /\ resetUser' = [resetUser EXCEPT ![t] = None]
  /\ UNCHANGED <<tables, resetToken, call, pc, found, seen, answer, published, history>>

ExpireIndex(u) ==
  /\ resetToken[u] # None
  /\ resetUser[resetToken[u]] = None
  /\ resetToken' = [resetToken EXCEPT ![u] = None]
  /\ UNCHANGED <<tables, resetUser, call, pc, found, seen, answer, published, history>>

\* EventSenderInstance.send, then the answer.
Send(r) ==
  /\ pc[r] = "send"
  /\ published' = Append(published, EventOf(r))
  /\ told' = told \cup {r}
  /\ Close(r, SuccessOf(call[r]))
  /\ UNCHANGED <<tables, redis, call, found, seen, did, used, raced, issued>>

\* Any await may throw, and a taken address makes the database refuse a row: an
\* error 500.
Fails(r) ==
  /\ Open(r)
  /\ Close(r, 500)
  /\ raced' = IF Resetting(r) THEN raced \cup {found[r]} ELSE raced
  /\ UNCHANGED <<tables, redis, call, found, seen, published, did, told, used, issued>>

RequestStep(r) ==
  \/ Begin(r) \/ EmailTaken(r) \/ Create(r) \/ Login(r) \/ GetUser(r)
  \/ VerifyCurrent(r) \/ Change(r) \/ Delete(r)
  \/ Forgot(r) \/ Redeem(r) \/ ReadUser(r) \/ Reset(r)
  \/ LookUp(r) \/ DropToken(r) \/ DropIndex(r) \/ SetToken(r) \/ SetIndex(r)
  \/ Send(r) \/ Fails(r)

Expiry == (\E t \in Tokens : ExpireToken(t)) \/ (\E u \in Users : ExpireIndex(u))

AllAnswered == \A r \in Requests : pc[r] = "closed"

AccountsNext ==
  \/ \E r \in Requests : RequestStep(r)
  \/ Expiry
  \/ AllAnswered /\ UNCHANGED accountVars

\* As earlier requests may have left it: accounts with addresses of their own,
\* some deleted, and a token that was asked for and not redeemed yet.
AccountsInit ==
  /\ live \in SUBSET Users
  /\ gone \in SUBSET (Users \ live)
  /\ email \in [Users -> Emails \cup {None}]
  /\ \A u \in Users : email[u] = None <=> u \notin live \cup gone
  /\ \A u, v \in live \cup gone : email[u] = email[v] => u = v
  /\ password \in [Users -> {HashPassword(p) : p \in Passwords} \cup {None}]
  /\ \A u \in Users : password[u] = None <=> u \notin live \cup gone
  /\ resetToken \in [Users -> Tokens \cup {None}]
  /\ \A u \in Users : resetToken[u] # None => u \in live \cup gone
  /\ \A u, v \in Users : resetToken[u] # None /\ resetToken[u] = resetToken[v] => u = v
  /\ resetUser = [t \in Tokens |-> IF \E u \in Users : resetToken[u] = t
                                   THEN CHOOSE u \in Users : resetToken[u] = t ELSE None]
  /\ call = [r \in Requests |-> NoCall]
  /\ pc = [r \in Requests |-> "idle"]
  /\ found = [r \in Requests |-> None]
  /\ seen = [r \in Requests |-> None]
  /\ answer = [r \in Requests |-> 0]
  /\ published = <<>>
  /\ issued = {t \in Tokens : resetUser[t] # None}
  /\ did = {} /\ told = {} /\ used = {} /\ raced = {}

AccountsSpec == AccountsInit /\ [][AccountsNext]_accountVars

-----------------------------------------------------------------------------
Steps == {"idle", "find", "verify", "redeem", "read", "write", "lookup", "dropToken",
          "dropIndex", "setToken", "setIndex", "send", "closed"}
Answers == {0, 200, 201, 400, 401, 404, 500}

AccountsTypeOK ==
  /\ live \subseteq Users /\ gone \subseteq Users
  /\ email \in [Users -> Emails \cup {None}]
  /\ password \in [Users -> {HashPassword(p) : p \in Passwords} \cup {None}]
  /\ resetUser \in [Tokens -> Users \cup {None}]
  /\ resetToken \in [Users -> Tokens \cup {None}]
  /\ call \in [Requests -> Calls \cup {NoCall}]
  /\ pc \in [Requests -> Steps]
  /\ found \in [Requests -> Users \cup {None}]
  /\ seen \in [Requests -> Tokens \cup Emails \cup {None}]
  /\ answer \in [Requests -> Answers]
  /\ published \in Seq(Event)
  /\ did \subseteq Requests /\ told \subseteq Requests
  /\ used \subseteq Tokens /\ issued \subseteq Tokens
  /\ raced \subseteq Users

\* A row of users, deleted or not, has an address of its own.
RowsAreDistinct ==
  /\ live \cap gone = {}
  /\ \A u \in live \cup gone : email[u] # None
  /\ \A u, v \in live \cup gone : email[u] = email[v] => u = v

\* Where a request has got to, and on whose behalf.
Working == {"read", "write", "lookup", "dropToken", "dropIndex", "setToken", "setIndex", "send"}
StepsOf(op) ==
  CASE op = "none"     -> {"idle"}
    [] op = "register" -> {"find", "write", "send", "closed"}
    [] op = "login"    -> {"find", "closed"}
    [] op = "me"       -> {"verify", "closed"}
    [] op \in {"change", "delete"} -> {"verify", "write", "send", "closed"}
    [] op = "forgot"   -> {"find", "lookup", "dropToken", "dropIndex", "setToken",
                           "setIndex", "send", "closed"}
    [] op = "reset"    -> {"redeem", "read", "write", "lookup", "dropToken", "dropIndex", "closed"}

RequestsMakeSense ==
  \A r \in Requests :
    LET op == call[r].op IN
    /\ pc[r] \in StepsOf(op)
    /\ found[r] # None => found[r] \in live \cup gone
    /\ pc[r] \in Working /\ (op = "register" => pc[r] = "send") => found[r] # None
    /\ pc[r] = "dropToken" => seen[r] \in Tokens
    /\ op = "delete" /\ pc[r] \in {"write", "send"} => seen[r] \in Emails

\* The tokens of a user whose reset requests came one by one: the one under the
\* index, or the one a request has just stored, and none while a request is
\* about to store one.
TokensAreIndexed ==
  \A u \in Users \ raced :
    /\ \A r, s \in Requests :
         Resetting(r) /\ Resetting(s) /\ found[r] = u /\ found[s] = u => r = s
    /\ \A t \in Tokens : resetUser[t] = u =>
         \/ resetToken[u] = t
         \/ \E r \in Requests : pc[r] = "setIndex" /\ found[r] = u /\ call[r].token = t
    /\ \A r \in Requests : Resetting(r) /\ found[r] = u =>
         /\ pc[r] = "dropToken" => \A t \in Tokens : resetUser[t] = u => t = seen[r]
         /\ pc[r] \in {"dropIndex", "setToken"} => \A t \in Tokens : resetUser[t] # u
         /\ pc[r] = "setIndex" => \A t \in Tokens : resetUser[t] = u => t = call[r].token

\* The users a reset token stands for: the one it is stored with, and those of
\* the resets that presented it.
Redeeming(t) == {r \in Requests : call[r].op = "reset" /\ call[r].token = t}
HoldersOf(t) == ({resetUser[t]} \cup {found[r] : r \in Redeeming(t)}) \ {None}

\* A token is generated once, stored once and stands for one account.
TokensHaveOneHolder ==
  \A t \in Tokens :
    /\ HoldersOf(t) \subseteq live \cup gone
    /\ HoldersOf(t) # {} => t \in issued
    /\ \A u, v \in HoldersOf(t) : u = v
    /\ \A r \in Requests : call[r].op = "forgot" /\ call[r].token = t =>
         /\ t \in issued
         /\ pc[r] \notin {"setIndex", "send", "closed"} => HoldersOf(t) = {}
         /\ \A s \in Requests : call[s].op = "forgot" /\ call[s].token = t => r = s

\* Once a password was reset, and nobody raced for the token, the token is about
\* to be deleted or gone, and no other request goes on with it.
UsedTokensAreGone ==
  \A r \in did : call[r].op = "reset" /\ found[r] \notin raced =>
    /\ pc[r] \notin {"lookup", "dropToken"} => resetUser[call[r].token] = None
    /\ \A s \in Redeeming(call[r].token) \ {r} : s \notin did /\ pc[s] \notin {"read", "write"}

\* What a request has done and sent, by what it awaits.
ProgressIsRecorded ==
  \A r \in Requests : LET op == call[r].op IN
    /\ answer[r] # 0 => pc[r] = "closed"
    /\ r \in told => pc[r] = "closed"
    /\ r \in did =>
         /\ op # "forgot" /\ found[r] # None
         /\ pc[r] \in {"send", "lookup", "dropToken", "dropIndex", "closed"}
    /\ op = "forgot" /\ pc[r] = "find" => found[r] = None
    /\ op \in {"register", "change"} /\ pc[r] = "send" => r \in did
    /\ op = "delete" /\ pc[r] = "send" => found[r] \in gone
    /\ op = "reset" /\ pc[r] \in {"lookup", "dropToken", "dropIndex"} =>
         r \in did \/ found[r] \in gone

AccountsInv ==
  /\ AccountsTypeOK /\ RowsAreDistinct /\ RequestsMakeSense /\ TokensAreIndexed
  /\ TokensHaveOneHolder /\ UsedTokensAreGone /\ ProgressIsRecorded

\* password_reset_helpers.ts:33 "enforce one token at a time": two tokens are good
\* for one user only if requests for and with reset tokens of that user overlapped,
\* or one broke off between the two keys of a token.
OneTokenUnlessRaced ==
  \A u \in Users \ raced : \A t1, t2 \in Tokens :
    resetUser[t1] = u /\ resetUser[t2] = u => t1 = t2

\* reset_password.ts:36 "to prevent reuse": no token changes a password twice,
\* with the same exception.
ResetTokensAreUsedOnce ==
  \A r, s \in Requests :
    /\ {r, s} \subseteq did /\ r # s
    /\ call[r].op = "reset" /\ call[s].op = "reset" /\ call[r].token = call[s].token
    => found[r] \in raced

\* What the answer says is true: a refused request has changed and sent nothing,
\* a change or registration that is reported has been made and sent, and so on.
\* A reset may be reported although the account was deleted meanwhile.
AnswersAreHonest ==
  \A r \in Requests : LET op == call[r].op IN
    /\ answer[r] \in {400, 401, 404} => r \notin did \cup told
    /\ answer[r] \in {200, 201} =>
         /\ op \in {"register", "change"} => r \in did \cap told
         /\ op = "delete" => r \in told /\ found[r] \in gone
         /\ op = "reset" => r \in did \/ found[r] \in gone
         /\ op = "forgot" /\ found[r] # None => r \in told

=============================================================================
