----------------------------- MODULE DomainList -----------------------------
(***************************************************************************)
(* The list of domains on a user's dashboard (app/src/pages/dashboard):    *)
(* whether it shows one domain, and with which role.  The page fetches the *)
(* list when it is opened and whenever its access token is renewed, asks   *)
(* again when it is told of a new domain, removes and regrades entries as  *)
(* its socket tells it, and adds or removes what its own requests have     *)
(* created or left.  A list is read from the domain service's tables       *)
(* (DomainMembership) and the socket's messages come from device control   *)
(* (SocketRooms): they overtake one another.                               *)
(***************************************************************************)
EXTENDS SocketRooms

CONSTANT Unasked    \* the answer of a request that has not been answered

VARIABLES
  shown,      \* the role in the page's entry for the domain, or NoRole without entry
  gets,       \* the page's requests for lists and their answers, on their way
  answers,    \* the answers to its own changes, on their way
  inbox,      \* what its socket will hand to it, oldest first
  opened,     \* users that have opened the details of the domain
  formerly,   \* user_roles: the roles in a user's deleted rows of the domain
  outdated    \* history: users whose page lost or reordered what it was told, until
              \* it asks for the list when nothing about them is on its way

page == <<shown, gets, answers, inbox, opened, formerly, outdated>>
listVars == <<roomVars, page>>

\* The entry of a domain whose role the page was not given.
Unstated == "undefined"
Shown == Roles \cup {NoRole, Unstated}
ASSUME ListAssumption == Unasked \notin Shown

Get == [why : {"list", "joined", "users"}, found : Shown \cup {Unasked}]
Asking(why) == [why |-> why, found |-> Unasked]

ListTypeOK ==
  /\ RoomsTypeOK
  /\ shown \in [Users -> Shown]
  /\ gets \in [Users -> SUBSET Get]
  /\ answers \in [Users -> SUBSET {"create", "leave", "delete"}]
  /\ inbox \in [Users -> Seq(Event)]
  /\ opened \subseteq Watchers
  /\ formerly \in [Users -> SUBSET Roles]
  /\ outdated \subseteq Users

\* The page of every watcher has just been opened: it fetches the list.
ListInit ==
  /\ RoomsInit
  /\ shown = [u \in Users |-> NoRole]
  /\ gets = [u \in Users |-> IF u \in Watchers THEN {Asking("list")} ELSE {}]
  /\ answers = [u \in Users |-> {}]
  /\ inbox = [u \in Users |-> <<>>]
  /\ opened = {}
  /\ formerly = [u \in Users |-> {}]
  /\ outdated = {}

Show(u, entry) == shown' = [shown EXCEPT ![u] = entry]

\* An answer is on its way that was given before what the page learns now.
Read(u) == {g \in gets[u] : g.found # Unasked}
Answered(u) == answers[u] # {} \/ Read(u) # {}

-----------------------------------------------------------------------------
(* The domain service *)

\* The rows of user_roles that name the user and the domain.
RolesInRows(u) == {role[u]} \cup formerly[u]

\* The server or the socket still holds something about the user.
Underway(u) == Commanded(u) \/ inbox[u] # <<>>

\* GET /domain: findByUserId joins the user's roles, deleted rows included, and
\* the page keeps the last row it gets of a domain.
ReadList(u, g) ==
  /\ g \in gets[u] /\ g.found = Unasked /\ g.why # "users"
  /\ \E found \in (IF domain = "live" /\ u \in members THEN RolesInRows(u) ELSE {NoRole}) :
       gets' = [gets EXCEPT ![u] = (@ \ {g}) \cup {[g EXCEPT !.found = found]}]
  /\ outdated' = IF g.why = "list" /\ ~Underway(u) THEN outdated \ {u} ELSE outdated
  /\ UNCHANGED <<roomVars, shown, answers, inbox, opened, formerly>>

\* GET /domain/:id/users: a member is answered with the members.
ReadUsers(u, g) ==
  /\ g \in gets[u] /\ g.found = Unasked /\ g.why = "users"
  /\ gets' = [gets EXCEPT ![u] =
       IF u \in members THEN (@ \ {g}) \cup {[g EXCEPT !.found = Unstated]} ELSE @ \ {g}]
  /\ UNCHANGED <<roomVars, shown, answers, inbox, opened, formerly, outdated>>

\* What the page offers: to create a domain, in the menu of an entry to leave the
\* domain, in its details the rest.  A name is edited in a dialog whose button calls
\* nothing, nothing offers a transfer, and what adds a user sends no role and is
\* refused (domain_view.tsx:168, domain_validators.ts:13).
InMenu(c) == c.op = "leave" /\ shown[c.actor] # NoRole
InDetails(c) == c.op \in {"delete", "remove", "setRole"} /\ c.actor \in opened
Offered(c) == c.actor \in Watchers => c.op = "create" \/ InMenu(c) \/ InDetails(c)
Begins(r) == pc[r] = "idle" /\ pc'[r] # "idle"

\* The last event is sent: the request is answered.
Succeeds(r) == pc[r] = "publish" /\ pc'[r] = "closed" /\ ~lost'

Change ==
  /\ DomainChanges /\ UNCHANGED rooms
  /\ \A r \in Requests : Begins(r) => Offered(call'[r])
  /\ answers' = [u \in Users |-> answers[u] \cup
       {call[r].op : r \in {q \in Requests : /\ Succeeds(q)
                                             /\ call[q].actor = u /\ u \in Watchers
                                             /\ call[q].op \in {"create", "leave", "delete"}}}]
  /\ formerly' = [u \in Users |->
       IF role[u] # NoRole /\ role'[u] = NoRole THEN formerly[u] \cup {role[u]} ELSE formerly[u]]
  /\ UNCHANGED <<shown, gets, inbox, opened, outdated>>

-----------------------------------------------------------------------------
(* The page *)

\* What states no role is added to an entry, which appears again if it has gone
\* meanwhile: the members, a new name, the domain that was created.
Merged(u) == IF shown[u] = NoRole THEN Unstated ELSE shown[u]

\* The answer of a list: all of it when the page asked for all, the new entry when
\* it was told of one.
Listed(u, g) ==
  CASE g.why = "list"   -> g.found
    [] g.why = "joined" -> IF g.found = NoRole THEN shown[u] ELSE g.found
    [] g.why = "users"  -> Merged(u)

GetArrives(u, g) ==
  /\ g \in gets[u] /\ g.found # Unasked
  /\ gets' = [gets EXCEPT ![u] = @ \ {g}]
  /\ Show(u, Listed(u, g))
  /\ outdated' = IF Read(u) # {g} \/ answers[u] # {} \/ (g.why = "users" /\ shown[u] = NoRole)
                  THEN outdated \cup {u} ELSE outdated
  /\ UNCHANGED <<roomVars, answers, inbox, opened, formerly>>

\* The request fails: the page says so and goes on without.
GetFails(u, g) ==
  /\ g \in gets[u]
  /\ gets' = [gets EXCEPT ![u] = @ \ {g}]
  /\ outdated' = IF g.why = "users" THEN outdated ELSE outdated \cup {u}
  /\ UNCHANGED <<roomVars, shown, answers, inbox, opened, formerly>>

\* Every new access token makes the page fetch the list again.
Refetch(u) == gets' = [gets EXCEPT ![u] = @ \cup {Asking("list")}]

\* A request was answered 401 and renewed the token.  Bound: with the disconnections.
Renew(u) ==
  /\ disconnects < MaxDisconnects
  /\ disconnects' = disconnects + 1
  /\ Refetch(u)
  /\ UNCHANGED <<dcVars, conn, inRoom, orders, bypassed, shown, answers, inbox, opened, formerly,
                 outdated>>

\* The user opens the details of the domain, or they are open: without the members in
\* its entry, and even without the entry, the dialog asks for the members.
ViewDetails(u) ==
  /\ shown[u] # NoRole \/ u \in opened
  /\ opened' = opened \cup {u}
  /\ gets' = [gets EXCEPT ![u] = @ \cup {Asking("users")}]
  /\ UNCHANGED <<roomVars, shown, answers, inbox, formerly, outdated>>

\* The answer to a change of its own arrives.
Takes(u, op) ==
  /\ op \in answers[u]
  /\ answers' = [answers EXCEPT ![u] = @ \ {op}]
  /\ outdated' = IF Read(u) # {} \/ answers[u] # {op} THEN outdated \cup {u} ELSE outdated
  /\ UNCHANGED <<roomVars, gets, inbox, formerly>>

Created(u) == Takes(u, "create") /\ Show(u, Merged(u)) /\ UNCHANGED opened
Left(u)    == Takes(u, "leave")  /\ Show(u, NoRole)    /\ UNCHANGED opened
Deleted(u) == Takes(u, "delete") /\ Show(u, NoRole)    /\ opened' = opened \ {u}

\* The socket hands over the next of its messages, one of these kinds.
Hears(u, kinds) ==
  /\ inbox[u] # <<>> /\ Head(inbox[u]).kind \in kinds
  /\ inbox' = [inbox EXCEPT ![u] = Tail(@)]
  /\ outdated' = IF Answered(u) THEN outdated \cup {u} ELSE outdated
  /\ UNCHANGED <<roomVars, answers, opened, formerly>>

HearJoined(u) ==
  /\ Hears(u, {"CREATED", "ADDED"})
  /\ gets' = [gets EXCEPT ![u] = @ \cup {Asking("joined")}]
  /\ UNCHANGED shown

\* Plausible fault: LEFT_DOMAIN closes the view and leaves the entry.
HearLeftAndKeep(u) == Hears(u, {"REMOVED"}) /\ UNCHANGED <<shown, gets>>

HearLeft(u) == Hears(u, {"REMOVED"}) /\ Show(u, NoRole) /\ UNCHANGED gets

HearDeleted(u) == Hears(u, {"DELETED"}) /\ Show(u, NoRole) /\ UNCHANGED gets

HearRoleUpdated(u) ==
  /\ Hears(u, {"ROLE"})
  /\ Show(u, IF shown[u] = NoRole THEN NoRole ELSE Head(inbox[u]).role)
  /\ UNCHANGED gets

-----------------------------------------------------------------------------
(* The socket *)

\* The messages go to the user's own room, a deletion to the room of the domain.
Reaches(e, u) == IF e.kind = "DELETED" THEN u \in inRoom ELSE e.user = u /\ conn[u] = "on"
Concerns(e, u) == u \in Watchers /\ (e.kind = "DELETED" \/ e.user = u)

\* A page that is not reached hears of it only from a list it is still to read.
Deliveries ==
  LET e == Head(orders)
  IN  /\ inbox' = [u \in Users |-> IF u \in Watchers /\ Reaches(e, u)
                                   THEN Append(inbox[u], e) ELSE inbox[u]]
      /\ outdated' = outdated \cup
           {u \in Watchers : Concerns(e, u) /\ ~Reaches(e, u) /\ Asking("list") \notin gets[u]}

Emit ==
  /\ Obey
  /\ Deliveries
  /\ UNCHANGED <<shown, gets, answers, opened, formerly>>

\* A socket that goes takes what it had not handed over with it.
Break(u) ==
  /\ Disconnect(u)
  /\ inbox' = [inbox EXCEPT ![u] = <<>>]
  /\ outdated' = IF inbox[u] = <<>> THEN outdated ELSE outdated \cup {u}
  /\ UNCHANGED <<shown, gets, answers, opened, formerly>>

\* The server ends a socket whose token has expired: the page renews the token
\* and connects again.
Expired(u) ==
  /\ Disconnect(u)
  /\ Refetch(u)
  /\ inbox' = [inbox EXCEPT ![u] = <<>>]
  /\ UNCHANGED <<shown, answers, opened, formerly, outdated>>

\* When the bus worker fails it forgets to tell those it has added (SocketRooms).
ServeBus ==
  /\ Work
  /\ outdated' = IF faults' > faults THEN outdated \cup (Untold \cap Watchers) ELSE outdated
  /\ UNCHANGED <<shown, gets, answers, inbox, opened, formerly>>

PageStep(u) ==
  \/ ViewDetails(u) \/ Renew(u)
  \/ HearJoined(u) \/ HearLeft(u) \/ HearDeleted(u) \/ HearRoleUpdated(u)
  \/ \E g \in gets[u] : ReadList(u, g) \/ ReadUsers(u, g) \/ GetArrives(u, g) \/ GetFails(u, g)
  \/ Created(u) \/ Left(u) \/ Deleted(u)

ListNext ==
  \/ \E u \in Watchers :
       \/ (Connect(u) \/ ReadDomains(u) \/ JoinRooms(u)) /\ UNCHANGED page
       \/ Break(u) \/ Expired(u)
       \/ PageStep(u)
  \/ Emit
  \/ Change
  \/ (\E p \in written : Tell(p)) /\ UNCHANGED page
  \/ ServeBus
  \/ AllClosed /\ UNCHANGED listVars

ListSpec == ListInit /\ [][ListNext]_listVars

-----------------------------------------------------------------------------
\* The page has heard all it will hear.
Informed(u) ==
  /\ conn[u] = "on" /\ u \notin outdated
  /\ gets[u] = {} /\ answers[u] = {} /\ inbox[u] = <<>>

\* A page that has heard everything lists the domain exactly if its user is a
\* member, and with a role he has, or had before he was removed and added again
\* (domain_model.ts:74 joins deleted rows).  What the list, the answers and the
\* socket say arrives in any order; a page that was cut off from its socket, that
\* learned something older after something newer, whose open dialog has added the
\* members of a domain that is gone (domain_info_dialog.tsx:104), or whose user was
\* added by a handler that stopped before it told anybody, is excepted until a new
\* access token makes it ask again (dashboard.tsx:416).
PagesShowTheMembership ==
  Spaced /\ AllTold =>
    \A u \in {v \in Watchers : Informed(v)} :
      /\ shown[u] # NoRole <=> domain = "live" /\ u \in members
      /\ shown[u] \in {role[u], NoRole} \cup formerly[u]

(* The inductive invariant behind it (ReplicaProofs) *)

\* What the answer of a create, a leave or a deletion follows is the event of it.
AnswerInv ==
  \A r \in Requests : pc[r] = "publish" /\ call[r].op \in {"create", "leave", "delete"} =>
    /\ unsent[r] = Events(call[r])
    /\ Spaced /\ call[r].op = "create" => domain = "live"

\* Only an open socket holds messages, and they concern its user.
InboxInv ==
  \A u \in Users :
    /\ inbox[u] # <<>> => conn[u] = "on"
    /\ \A i \in DOMAIN inbox[u] : inbox[u][i].kind = "DELETED" \/ inbox[u][i].user = u

\* What the domain service has still to send and the worker still to tell.
Untried ==
  {p \in Positions : Kind(p) \in Subscribed /\ p \notin handled} \cup written
    \cup {p \in (fresh \cup parked) \cap handled : ~Adds(published[p])}
Waits(e) ==
  \/ \E p \in Untried : published[p] = e
  \/ \E r \in Requests : \E i \in DOMAIN unsent[r] : unsent[r][i] = e

\* On its way, from the domain service to the page.
Comes(e, u) ==
  \/ Waits(e)
  \/ \E i \in DOMAIN orders : orders[i] = e
  \/ \E i \in DOMAIN inbox[u] : inbox[u][i] = e

Present(u) == domain = "live" /\ u \in members

Brings(e, u) == Adds(e) /\ e.user = u
Withdraws(e, u) == e.kind = "DELETED" \/ (e.kind = "REMOVED" /\ e.user = u)
Grades(e, u) == e.kind = "ROLE" /\ e.user = u

\* What is no longer true of a member, and what puts it right afterwards.
Denies(e, u) == Withdraws(e, u) \/ (Grades(e, u) /\ e.role # role[u])
Corrects(f, e, u) == Brings(f, u) \/ (Grades(e, u) /\ Grades(f, u) /\ f.role = role[u])

\* Whatever is no longer true is put right by something that comes after it.
Corrected(u) ==
  /\ \A i \in DOMAIN orders : Denies(orders[i], u) =>
       \/ \E f \in Event : Waits(f) /\ Corrects(f, orders[i], u)
       \/ \E j \in DOMAIN orders : j > i /\ Corrects(orders[j], orders[i], u)
  /\ \A i \in DOMAIN inbox[u] : Denies(inbox[u][i], u) =>
       \/ \E f \in Event : Waits(f) /\ Corrects(f, inbox[u][i], u)
       \/ \E j \in DOMAIN orders : Corrects(orders[j], inbox[u][i], u)
       \/ \E j \in DOMAIN inbox[u] : j > i /\ Corrects(inbox[u][j], inbox[u][i], u)

\* Lists and entries on their way to the page.
Fetched(u) == {g \in Read(u) : g.why # "users"}

\* A role that is, or will soon be replaced by what is, the user's role or one he had.
Rated(u, entry) ==
  \/ entry \in {role[u]} \cup formerly[u]
  \/ \E e \in Event : Comes(e, u) /\ Grades(e, u)

\* The page of a member: it is about to ask, or will be told, or the one answer on its
\* way lists the domain, or the page does or has been told to ask.
Lists(u) ==
  \/ Asking("list") \in gets[u]
  \/ \E e \in Event : Comes(e, u) /\ Brings(e, u)
  \/ /\ answers[u] # {} => Fetched(u) # {}
     /\ \A g \in Get : Fetched(u) = {g} => Listed(u, g) # NoRole /\ Rated(u, Listed(u, g))
     /\ Fetched(u) = {} => Asking("joined") \in gets[u] \/ (shown[u] # NoRole /\ Rated(u, shown[u]))

\* The page of anybody else.
Omits(u) ==
  \/ Asking("list") \in gets[u]
  \/ \E e \in Event : Comes(e, u) /\ Withdraws(e, u)
  \/ /\ answers[u] # {} => Fetched(u) # {}
     /\ \A g \in Get : Fetched(u) = {g} => Listed(u, g) = NoRole
     /\ Fetched(u) = {} => shown[u] = NoRole

Faithful(u) == IF Present(u) THEN Corrected(u) /\ Lists(u) ELSE Omits(u)
PagesInv == Spaced => \A u \in Watchers \ outdated : Faithful(u)

PageInv == AnswerInv /\ InboxInv /\ PagesInv

=============================================================================
