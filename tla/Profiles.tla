------------------------------ MODULE Profiles ------------------------------
(***************************************************************************)
(* What the accounts' events do elsewhere: the profiles of the domain      *)
(* service (profile_model, bus/handlers/user_*.ts), and the mails of the   *)
(* mailer.  Accounts has the requests and sends the events.                *)
(*                                                                         *)
(* The domain service reads a batch, handles it concurrently and in any    *)
(* order, and acknowledges what was handled; an event whose handler threw  *)
(* is parked until a restarted worker claims it (EventListener has the     *)
(* protocol).  Of a profile only the address is kept.  The mailer may      *)
(* send the mail of an event at any time after it, and again.              *)
(***************************************************************************)
EXTENDS Accounts

CONSTANT MaxFaults   \* bound: restarts and failing handlers of the domain service

ASSUME ProfilesAssumption == MaxFaults \in Nat

VARIABLES
  profiles,   \* the addresses of the live rows of each user in the table profiles
  fetched,    \* how many of the published events the domain service has read
  fresh,      \* events whose handler has not written yet
  acking,     \* events whose handler resolved, not acknowledged yet
  parked,     \* events left in the PEL
  mails,      \* the mails with a reset token the SMTP server was given
  handled,    \* history: events a handler has applied at least once
  faults,     \* history: restarts and failures so far
  patched,    \* history: the user who changed the address in the profile itself
  hurried     \* history: a request came before all before it was settled

domainService == <<profiles, fetched, fresh, acking, parked, handled, faults>>
profilesVars == <<accountVars, domainService, mails, patched, hurried>>

-----------------------------------------------------------------------------
\* The event names its user `userId`, and the handler asks for `id`.
NamesUser(e) == e.kind # "USER_DELETED"

\* createSetValues throws on any other field; for no change at all it returns an
\* empty SET, and the UPDATE statement throws.
ProfileFields == {"name", "email"}
Applicable(e) ==
  /\ NamesUser(e)
  /\ e.kind = "USER_UPDATED" => e.fields # {} /\ e.fields \subseteq ProfileFields

\* The streams the domain service has handlers for.
Subscribed(p) == published[p].kind # "PASSWORD_RESET_REQUESTED"

\* ProfileModel.create: no unique index, a user may get a second row.
UserCreated(e) == [profiles EXCEPT ![e.user] = Append(@, e.email)]

\* Plausible fault: the handler does not apply the changes.
Unchanged(e) == profiles

\* ProfileModel.update: every live row of the user; that there is none is ignored.
WithEmail(u, e) == [profiles EXCEPT ![u] = [i \in DOMAIN @ |-> e]]
UserUpdated(e) == WithEmail(e.user, e.email)

Written(e) == IF e.kind = "USER_CREATED" THEN UserCreated(e) ELSE UserUpdated(e)

-----------------------------------------------------------------------------
\* The worker reads what is new, once the handlers of the last batch are done.
Fetch ==
  /\ fresh = {}
  /\ fetched < Len(published)
  /\ fetched' = Len(published)
  /\ fresh' = {p \in (fetched + 1)..Len(published) : Subscribed(p)}
  /\ UNCHANGED <<accountVars, profiles, acking, parked, handled, faults, mails, patched, hurried>>

\* A handler that throws on the event.
Refuse(p) ==
  /\ p \in fresh
  /\ ~Applicable(published[p])
  /\ fresh' = fresh \ {p}
  /\ parked' = parked \cup {p}
  /\ UNCHANGED <<accountVars, profiles, fetched, acking, handled, faults, mails, patched, hurried>>

Apply(p) ==
  /\ p \in fresh
  /\ Applicable(published[p])
  /\ profiles' = Written(published[p])
  /\ handled' = handled \cup {p}

Handle(p) ==
  /\ Apply(p)
  /\ fresh' = fresh \ {p}
  /\ acking' = acking \cup {p}
  /\ UNCHANGED <<accountVars, fetched, parked, faults, mails, patched, hurried>>

\* The database does not answer, having written or not.
HandlerFails(p) ==
  /\ faults < MaxFaults
  /\ \/ Apply(p)
     \/ p \in fresh /\ UNCHANGED <<profiles, handled>>
  /\ fresh' = fresh \ {p}
  /\ parked' = parked \cup {p}
  /\ faults' = faults + 1
  /\ UNCHANGED <<accountVars, fetched, acking, mails, patched, hurried>>

Acknowledge(p) ==
  /\ p \in acking
  /\ acking' = acking \ {p}
  /\ UNCHANGED <<accountVars, profiles, fetched, fresh, parked, handled, faults, mails, patched,
                 hurried>>

\* The service stops and starts; the worker claims the entries that are old enough.
Restart ==
  /\ faults < MaxFaults
  /\ fresh' \in SUBSET (fresh \cup acking \cup parked)
  /\ parked' = (fresh \cup acking \cup parked) \ fresh'
  /\ acking' = {}
  /\ faults' = faults + 1
  /\ UNCHANGED <<accountVars, profiles, fetched, handled, mails, patched, hurried>>

\* PATCH /profile/me: the user changes the address of the profile, which the
\* account does not hear of.  Bound: once.
UpdateProfile(u) ==
  /\ HasSession(u) /\ profiles[u] # <<>>
  /\ patched = {}
  /\ \E e \in Emails \ {profiles[u][1]} : profiles' = WithEmail(u, e)
  /\ patched' = {u}
  /\ UNCHANGED <<accountVars, fetched, fresh, acking, parked, handled, faults, mails, hurried>>

-----------------------------------------------------------------------------
MailFor(e) == [to |-> e.email, token |-> e.token]

\* A handler of the mailer renders the template and hands the mail over.  The
\* mails that welcome a user and bid farewell are sent likewise and have no
\* consequence; for USER_UPDATED there is no handler.
SendMail(p) ==
  /\ published[p].kind = "PASSWORD_RESET_REQUESTED"
  /\ MailFor(published[p]) \notin mails
  /\ mails' = mails \cup {MailFor(published[p])}
  /\ UNCHANGED <<accountVars, domainService, patched, hurried>>

\* Nothing is on its way that could still change a profile.
Settled ==
  /\ \A r \in Requests : ~Open(r)
  /\ fetched = Len(published)
  /\ fresh \cup acking = {}
  /\ \A p \in parked : ~Applicable(published[p])

\* A reset token is known from a mail.
Request(r) ==
  /\ RequestStep(r)
  /\ pc[r] = "idle" /\ call'[r].op = "reset" => \E m \in mails : m.token = call'[r].token
  /\ hurried' = (hurried \/ (pc[r] = "idle" /\ ~Settled))
  /\ UNCHANGED <<domainService, mails, patched>>

WorkerStep ==
  \/ Fetch \/ Restart
  \/ \E p \in 1..Len(published) : Refuse(p) \/ Handle(p) \/ HandlerFails(p) \/ Acknowledge(p)

ProfilesNext ==
  \/ \E r \in Requests : Request(r)
  \/ Expiry /\ UNCHANGED <<domainService, mails, patched, hurried>>
  \/ WorkerStep
  \/ \E u \in Users : UpdateProfile(u)
  \/ \E p \in 1..Len(published) : SendMail(p)
  \/ AllAnswered /\ UNCHANGED profilesVars

\* The reset tokens that are out were mailed.  Deleted accounts kept their profile.
ProfilesInit ==
  /\ AccountsInit
  /\ profiles = [u \in Users |-> IF email[u] = None THEN <<>> ELSE <<email[u]>>]
  /\ fetched = 0
  /\ fresh = {} /\ acking = {} /\ parked = {}
  /\ mails = {[to |-> email[u], token |-> resetToken[u]] : u \in {v \in Users : resetToken[v] # None}}
  /\ handled = {} /\ faults = 0 /\ patched = {} /\ hurried = FALSE

ProfilesSpec == ProfilesInit /\ [][ProfilesNext]_profilesVars

-----------------------------------------------------------------------------
\* Everything that can be applied has been.
AllApplied ==
  /\ \A r \in Requests : ~Open(r)
  /\ fetched = Len(published)
  /\ fresh = {}
  /\ \A p \in 1..Len(published) :
       Subscribed(p) /\ Applicable(published[p]) => p \in handled

\* A change of the address that is refused for what was changed along with it.
ChangeRefused(u) ==
  \E p \in 1..Len(published) : /\ published[p].user = u
                               /\ published[p].kind = "USER_UPDATED"
                               /\ "email" \in published[p].fields
                               /\ ~Applicable(published[p])

\* A request changed the account, and its event was not sent and never will be.
Unannounced(u) ==
  \E r \in did \ told : pc[r] = "closed" /\ found[r] = u /\ call[r].op # "reset"

Excepted(u) == u \in patched \/ ChangeRefused(u) \/ Unannounced(u)

\* Requests that wait for one another's events leave a live account of which every
\* change was told with a profile, in which the address is the account's: whatever
\* fails, is handled twice or is claimed again on the way.  A user has a second row
\* only after a fault.
ProfilesFollowAccounts ==
  ~hurried /\ AllApplied =>
    \A u \in {v \in live : ~Excepted(v)} :
      /\ Len(profiles[u]) \in 1..(1 + faults)
      /\ \A i \in DOMAIN profiles[u] : profiles[u][i] = email[u]

(* The inductive invariant behind it (AccountsProofs) *)

Positions == 1..Len(published)

\* Events that change a profile, and those of them that may still be handled.
Effective(p) == Subscribed(p) /\ Applicable(published[p])
Unread == {p \in Positions : p > fetched}
Outstanding == {p \in Unread \cup fresh \cup acking \cup parked : Effective(p)}

ProfilesTypeOK ==
  /\ profiles \in [Users -> Seq(Emails \cup {None})]
  /\ fetched \in 0..Len(published)
  /\ fresh \cup acking \cup parked \cup handled \subseteq 1..fetched
  /\ faults \in 0..MaxFaults
  /\ patched \subseteq Users
  /\ hurried \in BOOLEAN

\* Nothing that changes a profile is lost, and calls and events agree on what they name.
FeedInv ==
  /\ \A p \in Positions : Effective(p) => p \in handled \cup Unread \cup fresh \cup parked
  /\ acking \subseteq handled /\ fresh \cap parked = {}
  /\ \A p \in fresh \cup acking \cup parked : Subscribed(p)
  /\ \A r \in Requests : WellFormed(call[r])
  /\ \A p \in Positions :
       /\ published[p].user \in live \cup gone
       /\ published[p].kind = "USER_UPDATED" =>
            ("email" \in published[p].fields <=> published[p].email # None)
       /\ published[p].kind = "USER_CREATED" => published[p].email # None
  /\ \A u \in Users \ (live \cup gone) : profiles[u] = <<>>

\* Requests that wait for one another's events: one at a time, and one event at a time.
OneAtATime ==
  ~hurried =>
    /\ \A q, r \in Requests : Open(q) /\ Open(r) => q = r
    /\ \A r \in Requests : Open(r) => Outstanding = {}
    /\ \A p \in Outstanding : p = Len(published)

\* Committed and not sent, or sent and not handled: a new account, a new address.
Sends(r, u, op) ==
  pc[r] = "send" /\ found[r] = u /\ call[r].op = op /\ call[r].email # None
Sending(u, op) == \E r \in Requests : Sends(r, u, op)
Sent(u, kind) ==
  \E p \in Positions \ handled :
    Effective(p) /\ published[p].user = u /\ published[p].kind = kind

Nameless(u) == Sending(u, "register") \/ Sent(u, "USER_CREATED")
Outdated(u) == Sending(u, "change") \/ Sent(u, "USER_UPDATED")

\* The handler of a creation may insert one row more.
Repeatable(u) ==
  \E p \in Unread \cup fresh \cup parked :
    published[p].user = u /\ published[p].kind = "USER_CREATED"

ProfileOK(u) ==
  /\ profiles[u] = <<>> <=> Nameless(u)
  /\ Len(profiles[u]) <= IF Repeatable(u) THEN faults ELSE 1 + faults
  /\ ~Outdated(u) => \A i \in DOMAIN profiles[u] : profiles[u][i] = email[u]
  /\ \A p \in Outstanding : published[p].user = u => published[p].email = email[u]
  /\ \A r \in Requests : Sends(r, u, "register") \/ Sends(r, u, "change") =>
       call[r].email = email[u]

ProfilesInv ==
  /\ ProfilesTypeOK /\ FeedInv /\ OneAtATime
  /\ ~hurried => \A u \in {v \in live : ~Excepted(v)} : ProfileOK(u)

=============================================================================
