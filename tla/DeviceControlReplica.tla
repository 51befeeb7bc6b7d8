------------------------ MODULE DeviceControlReplica ------------------------
(***************************************************************************)
(* The copy of user_roles that the device control service keeps in Mongo   *)
(* and asks on every request, socket and device command: its bus handlers  *)
(* (services/devicecontrol/src/bus/handlers) run on the events of the      *)
(* domain service, which keeps the original (DomainMembership).            *)
(***************************************************************************)
EXTENDS ReplicaDelivery

\* device_control_service_worker.ts has a handler for everything but new names.
ASSUME ReplicaAssumption == Subscribed = RoleKinds \cup {"DELETED"}

VARIABLES
  dcRole,   \* UserRoles of device control: the live role of a user, or NoRole
  held      \* history: the roles each user has had in the domain service

dcVars == <<vars, delivery, hurried, dcRole, held>>

DCTypeOK ==
  /\ dcRole \in [Users -> Roles \cup {NoRole}]
  /\ held \in [Users -> SUBSET (Roles \cup {NoRole})]

DCInit ==
  /\ Init
  /\ DeliveryInit
  /\ dcRole = role
  /\ held = [u \in Users |-> {NoRole, role[u]}]

-----------------------------------------------------------------------------
\* UserRoleModel.create: the unique index refuses a second live role.
Creatable(e) == dcRole[e.user] = NoRole

\* What the handlers write.
DomainUserAdded(e) == [dcRole EXCEPT ![e.user] = e.role]

\* Plausible fault: the handler of role updates only tells the sockets.
RoleUpdatedTellsOnly(e) == dcRole

\* The result of updateRole is ignored: without a live role it does nothing.
DomainUserRoleUpdated(e) == Regraded(dcRole, e.user, e.role)

\* The result of delete is ignored too.
DomainUserRemoved(e) == [dcRole EXCEPT ![e.user] = NoRole]

\* Empties the room of the domain and tells its devices, and writes nothing.
DomainDeleted(e) == dcRole

\* The handler that is registered for each stream.
Applied(e) ==
  CASE e.kind \in {"CREATED", "ADDED"} -> DomainUserAdded(e)
    [] e.kind = "ROLE"    -> DomainUserRoleUpdated(e)
    [] e.kind = "REMOVED" -> DomainUserRemoved(e)
    [] e.kind = "DELETED" -> DomainDeleted(e)

Write(p) ==
  /\ Kind(p) \in {"CREATED", "ADDED"} => Creatable(published[p])
  /\ HandlerWrote(p)
  /\ dcRole' = Applied(published[p])

Reject(p) ==
  /\ Kind(p) \in {"CREATED", "ADDED"}
  /\ ~Creatable(published[p])
  /\ HandlerRejected(p)
  /\ UNCHANGED dcRole

\* The handlers' database work.
Handle == \E p \in fresh : Write(p) \/ Reject(p)

\* A handler resolves; it has told the sockets by then (SocketRooms).
Resolve(p) == HandlerResolved(p) /\ UNCHANGED dcRole

\* The worker between and around the handlers.
Deliver ==
  /\ \/ Fetch
     \/ Restart
     \/ \E k \in Subscribed : Claim(k)
     \/ \E p \in Positions : HandlerFailed(p) \/ Acknowledged(p)
  /\ UNCHANGED dcRole

DomainChanges ==
  /\ DomainStep
  /\ held' = [u \in Users |-> held[u] \cup {role'[u]}]
  /\ UNCHANGED dcRole

AllClosed == \A r \in Requests : pc[r] = "closed"

DCNext ==
  \/ DomainChanges
  \/ (Handle \/ Deliver \/ \E p \in written : Resolve(p)) /\ UNCHANGED held
  \/ AllClosed /\ UNCHANGED dcVars

DCSpec == DCInit /\ [][DCNext]_dcVars

-----------------------------------------------------------------------------
\* Requests that wait for one another's events leave the copy equal to the
\* original, whatever fails or is delivered twice on the way: every handler is
\* idempotent and undoes no other (the two updates of a transfer commute).
SpacedChangesConverge == Spaced /\ AllHandled => dcRole = role

\* Events are applied in any order, late and twice, and still nobody is given a
\* role he never had in the domain, unless a transfer overlapped another request
\* (it announces the new owner even when its UPDATE found no row,
\* update_owner_service.ts:37-53).
OnlyRolesOnceHeld ==
  "transfer" \notin overlapped => \A u \in Users : dcRole[u] \in held[u]

(* The inductive invariant behind it (ReplicaProofs) *)

Truthful(e) == e.kind \in {"CREATED", "ADDED", "ROLE"} => e.role \in held[e.user]

\* Without such an overlap an event, sent or still to be sent, tells of a role its
\* user has had, and so does the copy.
HeldInv ==
  /\ \A u \in Users : NoRole \in held[u] /\ role[u] \in held[u]
  /\ "transfer" \notin overlapped =>
       /\ \A p \in Positions : Truthful(published[p])
       /\ \A r \in Requests : \A i \in DOMAIN unsent[r] : Truthful(unsent[r][i])
       /\ \A u \in Users : dcRole[u] \in held[u]

DCInv == DCTypeOK /\ DeliveryInv /\ HeldInv

\* What SpacedChangesConverge needs.
DCCopyInv == HandledInv /\ SpacedInv /\ CopyInv(dcRole)

=============================================================================
