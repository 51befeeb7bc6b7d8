-------------------------- MODULE DomainMembership --------------------------
(***************************************************************************)
(* The membership of one domain as the domain service keeps it: the rows   *)
(* of user_domains and user_roles, the domain's own row, and the HTTP      *)
(* requests that change them (services/domain/src/services/domain_services *)
(* and services/domain/src/models).                                        *)
(*                                                                         *)
(* A request reads the roles it needs, each in a query of its own, then    *)
(* changes the tables in one Postgres transaction that repeats none of     *)
(* those checks, and then tells the other services on the event bus.  Any  *)
(* other request may run between two of these awaits, and the process may  *)
(* stop there.                                                             *)
(*                                                                         *)
(* Tables are soft-deleted and their unique indexes cover live rows only,  *)
(* so the live rows of one domain are a set of members and a function from *)
(* users to roles.  A transaction is one action: each of its statements    *)
(* takes row locks that are held until COMMIT.                             *)
(***************************************************************************)
EXTENDS Integers, Sequences, FiniteSets

CONSTANTS Users,       \* user ids
          Requests,    \* the HTTP requests; each one is made once
          Granted,     \* the roles that requests ask for
          NoUser       \* the absence of a user id

ASSUME MembershipAssumption ==
  /\ NoUser \notin Users
  /\ Granted \subseteq {"ADMIN", "MEMBER", "GUEST"}

Roles == {"OWNER", "ADMIN", "MEMBER", "GUEST"}
CanManageUsers == {"OWNER", "ADMIN"}
CanManageDomain == {"OWNER"}
NoRole == "NONE"    \* no live row

VARIABLES
  domain,      \* the domains row: "none" yet, "live", "deleted"
  ownerId,     \* its owner_id
  members,     \* users with a live row in user_domains
  role,        \* the role in the live row of user_roles, or NoRole
  call,        \* what each request asks for
  pc,          \* what each request awaits next
  unsent,      \* the events a committed request has still to send
  published,   \* Redis: the events sent, oldest first
  lost,        \* history: a committed change was not (completely) announced
  everOwner,   \* history: users that have held the role OWNER
  overlapped   \* history: the operations that ran while another request was open

tables == <<domain, ownerId, members, role>>
vars == <<domain, ownerId, members, role, call, pc, unsent, published, lost,
          everOwner, overlapped>>

-----------------------------------------------------------------------------
Ops == {"create", "rename", "add", "remove", "leave", "setRole", "transfer", "delete"}
CallType == [op : Ops, actor : Users, target : Users, role : Roles \cup {NoRole}]
NoCall == [op |-> "none", actor |-> NoUser, target |-> NoUser, role |-> NoRole]

\* The calls that pass the checks of their arguments, controller by controller.
\* Nobody is added or made OWNER through these, and nobody removes, regrades or
\* succeeds himself.
Own(op) == {c \in CallType : c.op = op /\ c.target = c.actor /\ c.role = NoRole}
Named(op) == {c \in CallType : c.op = op /\ c.target # c.actor /\ c.role = NoRole}

CreateCalls == Own("create")
RenameCalls == Own("rename")
LeaveCalls == Own("leave")
DeleteCalls == Own("delete")
RemoveCalls == Named("remove")
TransferCalls == Named("transfer")
AddCalls == {c \in CallType : c.op = "add" /\ c.role \in Granted}
SetRoleCalls == {c \in CallType : c.op = "setRole" /\ c.role \in Granted /\ c.target # c.actor}

Calls == CreateCalls \cup RenameCalls \cup LeaveCalls \cup DeleteCalls
           \cup RemoveCalls \cup TransferCalls \cup AddCalls \cup SetRoleCalls

\* What gives a role states it.
Event == {e \in [kind : {"CREATED", "UPDATED", "ADDED", "REMOVED", "ROLE", "DELETED"}, user : Users,
                role : Roles \cup {NoRole}, initiator : Users \cup {NoUser}] :
            e.kind \in {"CREATED", "ADDED", "ROLE"} => e.role \in Roles}

\* One event, sent with the id of the domain and a timestamp.
Announce(kind, user, newRole, initiator) ==
  [kind |-> kind, user |-> user, role |-> newRole, initiator |-> initiator]

\* What a request sends once its transaction is committed.
Events(c) ==
  CASE c.op = "create"   -> <<Announce("CREATED", c.actor, "OWNER", NoUser)>>
    [] c.op = "rename"   -> <<Announce("UPDATED", c.actor, NoRole, c.actor)>>
    [] c.op = "add"      -> <<Announce("ADDED", c.target, c.role, c.actor)>>
    [] c.op = "remove"   -> <<Announce("REMOVED", c.target, NoRole, c.actor)>>
    [] c.op = "leave"    -> <<Announce("REMOVED", c.actor, NoRole, NoUser)>>
    [] c.op = "setRole"  -> <<Announce("ROLE", c.target, c.role, c.actor)>>
    [] c.op = "transfer" -> <<Announce("ROLE", c.target, "OWNER", c.actor),
                              Announce("ROLE", c.actor, "ADMIN", c.actor)>>
    [] c.op = "delete"   -> <<Announce("DELETED", c.actor, NoRole, NoUser)>>

Open(r) == pc[r] \in {"check1", "check2", "commit", "publish"}
Owners == {u \in Users : role[u] = "OWNER"}

TypeOK ==
  /\ domain \in {"none", "live", "deleted"}
  /\ ownerId \in Users \cup {NoUser}
  /\ members \subseteq Users
  /\ role \in [Users -> Roles \cup {NoRole}]
  /\ call \in [Requests -> Calls \cup {NoCall}]
  /\ pc \in [Requests -> {"idle", "check1", "check2", "commit", "publish", "closed"}]
  /\ unsent \in [Requests -> Seq(Event)]
  /\ published \in Seq(Event)
  /\ lost \in BOOLEAN
  /\ everOwner \subseteq Users
  /\ overlapped \subseteq Ops

\* Either the domain is still to be created, or it is as earlier requests,
\* one at a time, have left it: one owner and any other members.
Init ==
  /\ \/ /\ domain = "none"
        /\ ownerId = NoUser
        /\ role = [u \in Users |-> NoRole]
     \/ /\ domain = "live"
        /\ ownerId \in Users
        /\ role \in [Users -> Granted \cup {"OWNER", NoRole}]
        /\ Owners = {ownerId}
  /\ members = {u \in Users : role[u] # NoRole}
  /\ call = [r \in Requests |-> NoCall]
  /\ pc = [r \in Requests |-> "idle"]
  /\ unsent = [r \in Requests |-> <<>>]
  /\ published = <<>>
  /\ lost = FALSE
  /\ everOwner = Owners
  /\ overlapped = {}

-----------------------------------------------------------------------------
\* A request arrives.  (A second creation is another domain.)
Begin(r) ==
  /\ pc[r] = "idle"
  /\ \E c \in Calls :
       /\ c.op = "create" <=> domain = "none"
       /\ call' = [call EXCEPT ![r] = c]
       /\ pc' = [pc EXCEPT ![r] = IF c.op = "create" THEN "commit" ELSE "check1"]
       /\ overlapped' =
            overlapped \cup
            (IF \E s \in Requests : Open(s)
             THEN {c.op} \cup {call[s].op : s \in {t \in Requests : Open(t)}}
             ELSE {})
  /\ UNCHANGED <<tables, unsent, published, lost, everOwner>>

\* The conditions of the services on the answers of their queries, in the order
\* in which they ask.
MayManage(u) == role[u] \in CanManageUsers

AddFirst(c) == c.op = "add" /\ MayManage(c.actor)
AddSecond(c) == c.op = "add" /\ c.target \notin members

RemoveFirst(c) == c.op = "remove" /\ role[c.target] \notin {NoRole, "OWNER"}
RemoveSecond(c) == c.op = "remove" /\ MayManage(c.actor)

RenameFirst(c) == c.op = "rename" /\ role[c.actor] \in CanManageDomain

LeaveFirst(c) == c.op = "leave" /\ role[c.actor] \notin {NoRole, "OWNER"}

SetRoleFirst(c) == c.op = "setRole" /\ MayManage(c.actor)

\* Plausible fault: the role of the owner may be changed by an admin.
SetRoleSecondForgetsOwner(c) ==
  c.op = "setRole" /\ role[c.target] \notin {NoRole, c.role}

SetRoleSecond(c) ==
  c.op = "setRole" /\ role[c.target] \notin {NoRole, "OWNER", c.role}

\* Plausible fault: whoever may manage users may also transfer the ownership.
TransferByManager(c) == c.op = "transfer" /\ MayManage(c.actor)

TransferFirst(c) == c.op = "transfer" /\ role[c.actor] = "OWNER"
TransferSecond(c) == c.op = "transfer" /\ role[c.target] # NoRole

DeleteFirst(c) == c.op = "delete" /\ role[c.actor] = "OWNER"

FirstCheck(c) ==
  \/ RenameFirst(c) \/ AddFirst(c) \/ RemoveFirst(c) \/ LeaveFirst(c)
  \/ SetRoleFirst(c) \/ TransferFirst(c) \/ DeleteFirst(c)

SecondCheck(c) == AddSecond(c) \/ RemoveSecond(c) \/ SetRoleSecond(c) \/ TransferSecond(c)

\* The first query is answered.
Check1(r) ==
  /\ pc[r] = "check1"
  /\ pc' = [pc EXCEPT ![r] =
              IF ~FirstCheck(call[r]) THEN "closed"
              ELSE IF call[r].op \in {"rename", "leave", "delete"} THEN "commit" ELSE "check2"]
  /\ UNCHANGED <<tables, call, unsent, published, lost, everOwner, overlapped>>

\* The second query of a request that makes two is answered.
Check2(r) ==
  /\ pc[r] = "check2"
  /\ pc' = [pc EXCEPT ![r] = IF SecondCheck(call[r]) THEN "commit" ELSE "closed"]
  /\ UNCHANGED <<tables, call, unsent, published, lost, everOwner, overlapped>>

-----------------------------------------------------------------------------
\* A transaction commits: the events it announces are to be sent next.
Committed(r) ==
  /\ pc[r] = "commit"
  /\ pc' = [pc EXCEPT ![r] = "publish"]
  /\ unsent' = [unsent EXCEPT ![r] = Events(call[r])]
  /\ everOwner' = everOwner \cup {u \in Users : role'[u] = "OWNER"}
  /\ UNCHANGED <<call, published, lost, overlapped>>

\* The statements of the models.  The unique indexes refuse a second live row, and
\* a deletion that finds none throws: either way the transaction is rolled back.
InsertDomain(u) == domain = "none" /\ domain' = "live" /\ ownerId' = u
InsertMember(u) == u \notin members /\ members' = members \cup {u}
InsertRole(u, g) == role[u] = NoRole /\ role' = [role EXCEPT ![u] = g]
DeleteMember(u) == u \in members /\ members' = members \ {u}
DeleteRole(u) == role[u] # NoRole /\ role' = [role EXCEPT ![u] = NoRole]

\* The UPDATEs report that they found no live row, and change nothing.
Regraded(f, u, newRole) == IF f[u] = NoRole THEN f ELSE [f EXCEPT ![u] = newRole]
UpdateOwner(u) == ownerId' = IF domain = "live" THEN u ELSE ownerId
MarkDeleted == domain = "live" /\ domain' = "deleted"

\* CreateDomainService: the domain, its first member and the role OWNER.
CreateDomain(r) ==
  /\ call[r].op = "create"
  /\ InsertDomain(call[r].actor)
  /\ InsertMember(call[r].actor)
  /\ InsertRole(call[r].actor, "OWNER")
  /\ Committed(r)

\* UpdateDomainService: the name, which is left out, of a domain that is live.
RenameDomain(r) ==
  /\ call[r].op = "rename"
  /\ domain = "live"
  /\ UNCHANGED tables
  /\ Committed(r)

\* AddUserService: both inserts.
AddUser(r) ==
  /\ call[r].op = "add"
  /\ InsertMember(call[r].target)
  /\ InsertRole(call[r].target, call[r].role)
  /\ UNCHANGED <<domain, ownerId>>
  /\ Committed(r)

\* Plausible fault: conn is not handed to the models, so that each of the two
\* deletes is a transaction and a failure of the second leaves the first.
RemoveUserInTwoTransactions(r) ==
  /\ call[r].op \in {"remove", "leave"}
  /\ DeleteMember(call[r].target)
  /\ role' \in {role, [role EXCEPT ![call[r].target] = NoRole]}
  /\ UNCHANGED <<domain, ownerId>>
  /\ Committed(r)

\* DeleteUserService and LeaveDomainService: both deletes.
RemoveUser(r) ==
  /\ call[r].op \in {"remove", "leave"}
  /\ DeleteMember(call[r].target)
  /\ DeleteRole(call[r].target)
  /\ UNCHANGED <<domain, ownerId>>
  /\ Committed(r)

\* Plausible fault: the result of the UPDATE is ignored.
SetRoleUnchecked(r) ==
  /\ call[r].op = "setRole"
  /\ role' = Regraded(role, call[r].target, call[r].role)
  /\ UNCHANGED <<domain, ownerId, members>>
  /\ Committed(r)

\* UpdateUserRoleService: one UPDATE; without a live row the request is refused.
SetRole(r) ==
  /\ call[r].op = "setRole"
  /\ role[call[r].target] # NoRole
  /\ role' = [role EXCEPT ![call[r].target] = call[r].role]
  /\ UNCHANGED <<domain, ownerId, members>>
  /\ Committed(r)

\* UpdateOwnerService: three UPDATEs whose results are ignored.
TransferOwnership(r) ==
  /\ call[r].op = "transfer"
  /\ role' = Regraded(Regraded(role, call[r].actor, "ADMIN"), call[r].target, "OWNER")
  /\ UpdateOwner(call[r].target)
  /\ UNCHANGED <<domain, members>>
  /\ Committed(r)

\* DeleteDomainService: only the domains row; members and roles stay.
DeleteDomain(r) ==
  /\ call[r].op = "delete"
  /\ MarkDeleted
  /\ UNCHANGED <<ownerId, members, role>>
  /\ Committed(r)

\* The transaction is rolled back (a statement threw, the database is gone, the
\* process stopped), or an update found no row: the request ends.
TransactionFails(r) ==
  /\ pc[r] = "commit"
  /\ pc' = [pc EXCEPT ![r] = "closed"]
  /\ UNCHANGED <<tables, call, unsent, published, lost, everOwner, overlapped>>

\* EventBusInstance.send of the next event.
Publish(r) ==
  /\ pc[r] = "publish"
  /\ published' = Append(published, Head(unsent[r]))
  /\ unsent' = [unsent EXCEPT ![r] = Tail(@)]
  /\ pc' = [pc EXCEPT ![r] = IF Tail(unsent[r]) = <<>> THEN "closed" ELSE @]
  /\ UNCHANGED <<tables, call, lost, everOwner, overlapped>>

\* The send throws or the process stops before it: nothing sends it later.
PublishFails(r) ==
  /\ pc[r] = "publish"
  /\ pc' = [pc EXCEPT ![r] = "closed"]
  /\ unsent' = [unsent EXCEPT ![r] = <<>>]
  /\ lost' = TRUE
  /\ UNCHANGED <<tables, call, published, everOwner, overlapped>>

RequestStep(r) ==
  \/ Begin(r) \/ Check1(r) \/ Check2(r)
  \/ CreateDomain(r) \/ RenameDomain(r) \/ AddUser(r) \/ RemoveUser(r)
  \/ SetRole(r) \/ TransferOwnership(r) \/ DeleteDomain(r)
  \/ TransactionFails(r) \/ Publish(r) \/ PublishFails(r)

\* Every request has been answered.
Finished == (\A r \in Requests : pc[r] = "closed") /\ UNCHANGED vars

Next == (\E r \in Requests : RequestStep(r)) \/ Finished

Spec == Init /\ [][Next]_vars

-----------------------------------------------------------------------------
\* The two tables never disagree: under every interleaving of requests, failed
\* transactions included, a user has a live role exactly when he is a member.
\* The checks before a transaction read one table and trust it for the other
\* (add_user_service.ts:44 against delete_user_service.ts:19).
MembershipMatchesRole == \A u \in Users : u \in members <=> role[u] # NoRole

\* A live domain has exactly the owner its row names, unless a transfer of the
\* ownership has overlapped another request: nothing else can take the role
\* OWNER away or give it (the checks of update_owner_service.ts,
\* update_user_role_service.ts, delete_user_service.ts, leave_domain_service.ts).
OneOwnerUnlessTransferRaced ==
  domain = "live" /\ "transfer" \notin overlapped => Owners = {ownerId}

\* Whatever overlaps, nobody becomes OWNER except by creating the domain or by
\* a transfer that somebody asked for who has been OWNER himself
\* (update_owner_service.ts:16-22).
OnlyOwnersGrantOwnership ==
  [][\A u \in Users :
       role'[u] = "OWNER" /\ role[u] # "OWNER" =>
         \E r \in Requests :
           /\ pc[r] = "commit"
           /\ call[r].target = u
           /\ \/ call[r].op = "create"
              \/ call[r].op = "transfer" /\ call[r].actor \in everOwner]_vars

\* What makes the properties above inductive: what a request learned from its
\* checks and what may have become of it when its transaction runs.
Checked(r) == pc[r] \in {"check2", "commit"}

\* An open request asks for something; events wait exactly while being sent.
SendingInv ==
  \A r \in Requests :
    /\ Open(r) => call[r] \in Calls
    /\ pc[r] = "publish" <=> unsent[r] # <<>>

\* Before the domain exists only its creation is under way.
NotCreatedInv ==
  domain = "none" =>
    /\ \A u \in Users : role[u] = NoRole
    /\ \A r \in Requests : Open(r) => call[r].op = "create"

\* An owner, and the actor of a transfer that passed its first check, are
\* among those that have been owners.
ProvenanceInv ==
  /\ Owners \subseteq everOwner
  /\ \A r \in Requests : call[r].op = "transfer" /\ Checked(r) => call[r].actor \in everOwner

\* While no transfer has overlapped another request: an open transfer is alone,
\* and what a request was told about the role OWNER is still true.
ExclusiveInv ==
  "transfer" \notin overlapped =>
    /\ domain = "live" => Owners = {ownerId}
    /\ \A r, s \in Requests : Open(r) /\ Open(s) /\ call[r].op = "transfer" => r = s
    /\ \A r \in Requests :
         /\ call[r].op = "remove" /\ Checked(r) => role[call[r].target] # "OWNER"
         /\ call[r].op \in {"leave", "setRole"} /\ pc[r] = "commit" => role[call[r].target] # "OWNER"
         /\ call[r].op = "transfer" /\ Checked(r) => role[call[r].actor] = "OWNER"
         /\ call[r].op = "transfer" /\ pc[r] = "commit" => role[call[r].target] # NoRole

IInv ==
  /\ TypeOK
  /\ MembershipMatchesRole
  /\ SendingInv
  /\ NotCreatedInv
  /\ ProvenanceInv
  /\ ExclusiveInv

\* domain/README.md:15 "Each domain must have an owner, and only the owner can
\* transfer ownership to another user."  The transaction of a transfer repeats
\* no check, so a request it overlaps can leave the domain with none or two.
ExactlyOneOwner == domain = "live" => Cardinality(Owners) = 1

=============================================================================
