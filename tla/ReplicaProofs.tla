--------------------------- MODULE ReplicaProofs ---------------------------
(***************************************************************************)
(* Proofs about DeviceControlReplica and about SocketRooms and DomainList, *)
(* which go on from it, for any sets of users and requests, any number of  *)
(* restarts and failing handlers and any order of the events.  Sockets,    *)
(* pages and the copy of the roles only ever watch the domain service: a   *)
(* step of the whole is a step of DeviceControlReplica, and that one a     *)
(* step of DomainMembership, or leaves it alone.                           *)
(***************************************************************************)
EXTENDS DomainList, DomainMembershipProofs

-----------------------------------------------------------------------------
(* The refinements *)

LEMMA HandlersAct ==
  ASSUME Handle \/ Deliver \/ \E p \in written : Resolve(p)
  PROVE  WorkerActs
<1>1. CASE Handle
  BY <1>1 DEF Handle, Write, Reject, WorkerActs
<1>2. CASE Deliver
  BY <1>2 DEF Deliver, WorkerActs
<1>3. CASE \E p \in written : Resolve(p)
  BY <1>3 DEF Resolve, WorkerActs
<1> QED
  BY <1>1, <1>2, <1>3

LEMMA ReplicaStepIsStep ==
  ASSUME [DCNext]_dcVars
  PROVE  [Next]_vars
<1>1. CASE DomainChanges
  BY <1>1 DEF DomainChanges, DomainStep, Next
<1>2. CASE Handle \/ Deliver \/ \E p \in written : Resolve(p)
  BY <1>2, HandlersAct, WorkerLeavesDomain
<1>3. CASE UNCHANGED dcVars
  BY <1>3 DEF dcVars
<1> QED
  BY <1>1, <1>2, <1>3 DEF DCNext

\* What the copy of the roles does is no business of the domain service: every
\* property proved of DomainMembership holds while events are delivered.
THEOREM ReplicaImplementsDomain == DCSpec => Spec
<1>1. DCInit => Init
  BY DEF DCInit
<1>2. [DCNext]_dcVars => [Next]_vars
  BY ReplicaStepIsStep
<1> QED
  BY <1>1, <1>2, PTL DEF DCSpec, Spec

LEMMA ListStepIsStep ==
  ASSUME [ListNext]_listVars
  PROVE  [DCNext]_dcVars
<1>1. CASE UNCHANGED listVars
  BY <1>1 DEF listVars, roomVars
<1>2. ASSUME NEW u \in Watchers,
             Connect(u) \/ ReadDomains(u) \/ JoinRooms(u) \/ Break(u) \/ Expired(u)
      PROVE  UNCHANGED dcVars
  BY <1>2 DEF Connect, ReadDomains, JoinRooms, Break, Expired, Disconnect
<1>3. ASSUME NEW u \in Watchers, PageStep(u)
      PROVE  UNCHANGED dcVars
  <2>1. CASE ViewDetails(u) \/ Renew(u)
    BY <2>1 DEF ViewDetails, Renew, roomVars
  <2>2. CASE HearJoined(u) \/ HearLeft(u) \/ HearDeleted(u) \/ HearRoleUpdated(u)
    BY <2>2 DEF HearJoined, HearLeft, HearDeleted, HearRoleUpdated, Hears, roomVars
  <2>3. CASE \E g \in gets[u] : ReadList(u, g) \/ ReadUsers(u, g) \/ GetArrives(u, g) \/ GetFails(u, g)
    BY <2>3 DEF ReadList, ReadUsers, GetArrives, GetFails, roomVars
  <2>4. CASE Created(u) \/ Left(u) \/ Deleted(u)
    BY <2>4 DEF Created, Left, Deleted, Takes, roomVars
  <2> QED
    BY <1>3, <2>1, <2>2, <2>3, <2>4 DEF PageStep
<1>4. CASE Emit
  BY <1>4 DEF Emit, Obey
<1>5. CASE Change
  BY <1>5 DEF Change, DCNext
<1>6. CASE \E p \in written : Tell(p)
  BY <1>6 DEF Tell, DCNext
<1>7. CASE Work
  BY <1>7 DEF Work, DCNext
<1> QED
  BY <1>1, <1>2, <1>3, <1>4, <1>5, <1>6, <1>7 DEF ListNext, ServeBus

\* Sockets, rooms and pages add nothing to what the copy of the roles may do.
THEOREM ListImplementsReplica == ListSpec => DCSpec
<1>1. ListInit => DCInit
  BY DEF ListInit, RoomsInit
<1>2. [ListNext]_listVars => [DCNext]_dcVars
  BY ListStepIsStep
<1> QED
  BY <1>1, <1>2, PTL DEF ListSpec, DCSpec

-----------------------------------------------------------------------------
(* The roles a user has had *)

LEMMA InitDCInv ==
  ASSUME DCInit, TypeOK
  PROVE  DCInv
<1>1. DCTypeOK
  BY DEF DCInit, TypeOK, DCTypeOK
<1>2. DeliveryInv
  BY InitDelivery DEF DCInit
<1>3. HeldInv
  BY DEF DCInit, Init, TypeOK, HeldInv, Positions
<1> QED
  BY <1>1, <1>2, <1>3 DEF DCInv

\* Only the handlers of creations, additions, updates and removals write a role.
LEMMA WriteIsTruthful ==
  ASSUME TypeOK, DCInv, NEW p \in fresh, Write(p)
  PROVE  /\ dcRole' \in [Users -> Roles \cup {NoRole}]
         /\ "transfer" \notin overlapped => \A u \in Users : dcRole'[u] \in held[u]
<1> DEFINE e == published[p]
<1>1. e \in Event /\ e.kind # "UPDATED" /\ p \in Positions
  <2>1. p \in 1..fetched /\ fetched \in 0..Len(published) /\ Len(published) \in Nat
    BY DEF DCInv, DeliveryInv, DeliveryTypeOK, TypeOK
  <2>2. p \in 1..Len(published)
    BY <2>1
  <2>3. e \in Event
    BY <2>2 DEF TypeOK
  <2> QED
    BY <2>2, <2>3, ReplicaAssumption DEF DCInv, DeliveryInv, Kind, Positions, RoleKinds
<1>2. "transfer" \notin overlapped => Truthful(e)
  BY <1>1 DEF DCInv, HeldInv
<1>3. dcRole' = Applied(e)
  BY DEF Write
<1>4. /\ e.kind \in {"CREATED", "ADDED", "ROLE", "REMOVED", "DELETED"}
      /\ e.user \in Users /\ e.role \in Roles \cup {NoRole}
  BY <1>1 DEF Event
<1>5. /\ dcRole \in [Users -> Roles \cup {NoRole}]
      /\ "transfer" \notin overlapped => \A u \in Users : dcRole[u] \in held[u]
      /\ \A u \in Users : NoRole \in held[u]
  BY DEF DCInv, DCTypeOK, HeldInv
<1> HIDE DEF e
<1>6. CASE e.kind \in {"CREATED", "ADDED"}
  BY <1>2, <1>3, <1>4, <1>5, <1>6 DEF Applied, DomainUserAdded, Truthful
<1>7. CASE e.kind = "ROLE"
  BY <1>2, <1>3, <1>4, <1>5, <1>7 DEF Applied, DomainUserRoleUpdated, Regraded, Truthful
<1>8. CASE e.kind = "REMOVED"
  BY <1>3, <1>4, <1>5, <1>8 DEF Applied, DomainUserRemoved
<1>9. CASE e.kind = "DELETED"
  BY <1>3, <1>5, <1>9 DEF Applied, DomainDeleted
<1> QED
  BY <1>4, <1>6, <1>7, <1>8, <1>9

LEMMA WorkerDCInv ==
  ASSUME TypeOK, DCInv, UNCHANGED held, Handle \/ Deliver \/ \E p \in written : Resolve(p)
  PROVE  DCInv'
<1>1. WorkerActs /\ UNCHANGED vars
  BY HandlersAct, WorkerLeavesDomain
<1>2. DeliveryInv'
  BY <1>1, WorkerDelivery DEF DCInv
<1>3. /\ dcRole' \in [Users -> Roles \cup {NoRole}]
      /\ "transfer" \notin overlapped => \A u \in Users : dcRole'[u] \in held[u]
  <2>1. CASE UNCHANGED dcRole
    BY <2>1 DEF DCInv, DCTypeOK, HeldInv
  <2>2. ASSUME NEW p \in fresh, Write(p)
        PROVE  <1>3
    BY <2>2, WriteIsTruthful
  <2> QED
    BY <2>1, <2>2 DEF Handle, Reject, Deliver, Resolve
<1>4. DCTypeOK'
  BY <1>3 DEF DCInv, DCTypeOK
<1>5. HeldInv'
  BY <1>1, <1>3 DEF DCInv, HeldInv, Truthful, Positions, vars
<1> QED
  BY <1>2, <1>4, <1>5 DEF DCInv

\* What a transaction announces is what it has done, unless a transfer overlapped.
LEMMA CommitIsTruthful ==
  ASSUME IInv, "transfer" \notin overlapped, NEW r \in Requests,
         \/ CreateDomain(r) \/ RenameDomain(r) \/ AddUser(r) \/ RemoveUser(r)
         \/ SetRole(r) \/ TransferOwnership(r) \/ DeleteDomain(r),
         held' \in [Users -> SUBSET (Roles \cup {NoRole})],
         \A u \in Users : role'[u] \in held'[u]
  PROVE  \A i \in DOMAIN Events(call[r]) :
           Events(call[r])[i].kind \in {"CREATED", "ADDED", "ROLE"} =>
             Events(call[r])[i].role \in held'[Events(call[r])[i].user]
<1> DEFINE told == Events(call[r])
<1>1. call[r] \in Calls
  BY DEF CreateDomain, RenameDomain, AddUser, RemoveUser, SetRole, TransferOwnership, DeleteDomain,
         Committed, IInv, SendingInv, Open
<1>2. \A i \in DOMAIN told : told[i] \in Event
  BY <1>1, EventsType
<1>3. \A e \in Event : e.user \in Users
  BY DEF Event
<1> HIDE DEF told
<1> SUFFICES ASSUME NEW i \in DOMAIN told, told[i].kind \in {"CREATED", "ADDED", "ROLE"}
             PROVE  told[i].role \in held'[told[i].user]
  BY DEF told
<1>4. role'[told[i].user] = told[i].role
  BY CommitTells DEF told, RoleKinds, RoleIn
<1> QED
  BY <1>2, <1>3, <1>4

LEMMA DomainDCInv ==
  ASSUME IInv, IInv', DCInv, DomainChanges
  PROVE  DCInv'
<1>1. PICK r \in Requests : RequestStep(r)
  BY DEF DomainChanges, DomainStep
<1>2. DeliveryInv'
  BY DomainDelivery DEF DomainChanges, DCInv
<1>3. DCTypeOK'
  BY DEF DomainChanges, DCInv, DCTypeOK, IInv, TypeOK
<1>4. /\ held \in [Users -> SUBSET (Roles \cup {NoRole})]
      /\ held' \in [Users -> SUBSET (Roles \cup {NoRole})]
      /\ \A u \in Users : held'[u] = held[u] \cup {role'[u]}
  BY <1>3 DEF DomainChanges, DCInv, DCTypeOK
<1>5. \A u \in Users : NoRole \in held'[u] /\ role'[u] \in held'[u] /\ held[u] \subseteq held'[u]
  BY <1>4 DEF DCInv, HeldInv
<1>6. "transfer" \notin overlapped' => "transfer" \notin overlapped
  BY <1>1 DEF RequestStep, Begin, Check1, Check2, CreateDomain, RenameDomain, AddUser, RemoveUser,
       SetRole, TransferOwnership, DeleteDomain, Committed, TransactionFails, Publish, PublishFails
<1>7. \A u \in Users : "transfer" \notin overlapped' => dcRole'[u] \in held'[u]
  BY <1>5, <1>6 DEF DCInv, HeldInv, DomainChanges
<1> DEFINE Told(e) == e.kind \in {"CREATED", "ADDED", "ROLE"} => e.role \in held'[e.user]
<1>8. \A e \in Event : Truthful(e) => Told(e)
  BY <1>5 DEF Truthful, Event
<1>9. ASSUME "transfer" \notin overlapped'
      PROVE  /\ \A p \in Positions' : Truthful(published[p])'
             /\ \A s \in Requests : \A i \in DOMAIN unsent'[s] : Truthful(unsent[s][i])'
  <2>1. /\ published \in Seq(Event) /\ \A p \in Positions : Told(published[p])
        /\ unsent \in [Requests -> Seq(Event)]
        /\ \A s \in Requests : \A i \in DOMAIN unsent[s] : Told(unsent[s][i])
    BY <1>6, <1>8, <1>9 DEF IInv, TypeOK, DCInv, HeldInv, Positions
  <2>2. CASE \/ CreateDomain(r) \/ RenameDomain(r) \/ AddUser(r) \/ RemoveUser(r)
             \/ SetRole(r) \/ TransferOwnership(r) \/ DeleteDomain(r)
    <3>1. unsent' = [unsent EXCEPT ![r] = Events(call[r])] /\ UNCHANGED published
      BY <2>2 DEF CreateDomain, RenameDomain, AddUser, RemoveUser, SetRole, TransferOwnership, DeleteDomain, Committed
    <3>2. \A i \in DOMAIN Events(call[r]) : Told(Events(call[r])[i])
      BY <1>4, <1>5, <1>6, <1>9, <2>2, CommitIsTruthful
    <3> QED
      BY <2>1, <3>1, <3>2 DEF Truthful, Positions
  <2>3. CASE Publish(r)
    <3>1. unsent[r] \in Seq(Event) /\ unsent[r] # <<>>
      BY <2>3 DEF Publish, IInv, SendingInv, TypeOK
    <3>2. /\ published' = Append(published, Head(unsent[r]))
          /\ unsent' = [unsent EXCEPT ![r] = Tail(@)]
      BY <2>3 DEF Publish
    <3>3. Head(unsent[r]) \in Event /\ Told(Head(unsent[r]))
      BY <2>1, <3>1
    <3>4. \A i \in DOMAIN Tail(unsent[r]) : Told(Tail(unsent[r])[i])
      BY <2>1, <3>1
    <3>5. \A p \in 1..Len(published') : Told(published'[p])
      BY <2>1, <3>2, <3>3 DEF Positions
    <3> QED
      BY <2>1, <3>2, <3>4, <3>5 DEF Truthful, Positions
  <2>4. CASE \/ Begin(r) \/ Check1(r) \/ Check2(r) \/ TransactionFails(r) \/ PublishFails(r)
    <3>1. UNCHANGED published /\ \A s \in Requests : unsent'[s] = unsent[s] \/ unsent'[s] = <<>>
      BY <2>1, <2>4 DEF Begin, Check1, Check2, TransactionFails, PublishFails
    <3> QED
      BY <2>1, <3>1 DEF Truthful, Positions
  <2> QED
    BY <1>1, <2>2, <2>3, <2>4 DEF RequestStep
<1>10. HeldInv'
  BY <1>5, <1>7, <1>9 DEF HeldInv
<1> QED
  BY <1>2, <1>3, <1>10 DEF DCInv

LEMMA StepDCInv ==
  ASSUME IInv, IInv', DCInv, [DCNext]_dcVars
  PROVE  DCInv'
<1>1. CASE DomainChanges
  BY <1>1, DomainDCInv
<1>2. CASE (Handle \/ Deliver \/ \E p \in written : Resolve(p)) /\ UNCHANGED held
  BY <1>2, WorkerDCInv DEF IInv
<1>3. CASE UNCHANGED dcVars
  <2>1. PublishedGrows /\ UNCHANGED delivery /\ hurried' = hurried /\ UNCHANGED <<vars, dcRole, held>>
    <3>1. UNCHANGED vars /\ UNCHANGED <<delivery, hurried, dcRole, held>>
      BY <1>3 DEF dcVars
    <3>2. PublishedGrows
      BY <3>1, StepPublishes
    <3> QED
      BY <3>1, <3>2
  <2>2. DeliveryInv'
    BY <2>1, QuietDelivery DEF DCInv, DeliveryInv, DeliveryTypeOK
  <2>3. DCTypeOK'
    BY <2>1 DEF DCInv, DCTypeOK
  <2>4. HeldInv'
    BY <2>1 DEF DCInv, HeldInv, Truthful, Positions, vars
  <2> QED
    BY <2>2, <2>3, <2>4 DEF DCInv
<1> QED
  BY <1>1, <1>2, <1>3 DEF DCNext

\* An event is in one place of the delivery, and the copy holds roles.
THEOREM ReplicaInvariant == DCSpec => []DCInv
<1>1. IInv => TypeOK
  BY DEF IInv
<1>2. IInv /\ IInv' /\ DCInv /\ [DCNext]_dcVars => DCInv'
  BY StepDCInv
<1>3. DCInit /\ TypeOK => DCInv
  BY InitDCInv
<1> QED
  BY <1>1, <1>2, <1>3, ReplicaImplementsDomain, InductiveInvariant, PTL DEF DCSpec

\* Whatever order the events of a domain arrive in, late and twice, nobody is given
\* a role he never had, unless a transfer overlapped (the handlers of
\* devicecontrol/src/bus/handlers).
THEOREM OnlyRolesOnceHeldAlways == DCSpec => []OnlyRolesOnceHeld
<1>1. DCInv => OnlyRolesOnceHeld
  BY DEF DCInv, HeldInv, OnlyRolesOnceHeld
<1> QED
  BY <1>1, ReplicaInvariant, PTL

-----------------------------------------------------------------------------
(* Convergence *)

\* What a handler writes is what the tables hold.
LEMMA WriteCopies ==
  ASSUME TypeOK, DCInv, SpacedInv, CopyInv(dcRole), Spaced, NEW p \in fresh, Write(p)
  PROVE  /\ p \in Positions
         /\ handled' = handled \cup {p}
         /\ \A u \in Users : About(published[p], u) => dcRole'[u] = role[u]
         /\ \A u \in Users : dcRole'[u] = dcRole[u] \/ About(published[p], u)
<1> DEFINE e == published[p]
<1>1. e \in Event /\ p \in Positions /\ e.kind \in RoleKinds \cup {"DELETED"} /\ p \in Unsettled
  <2>1. p \in 1..fetched /\ fetched \in 0..Len(published) /\ Len(published) \in Nat
    BY DEF DCInv, DeliveryInv, DeliveryTypeOK, TypeOK
  <2>2. p \in 1..Len(published)
    BY <2>1
  <2>3. e \in Event
    BY <2>2 DEF TypeOK
  <2> QED
    BY <2>2, <2>3, ReplicaAssumption DEF DCInv, DeliveryInv, Kind, Positions, Unsettled
<1>2. Holds(e) /\ Regrades(e, dcRole)
  BY <1>1 DEF SpacedInv, CopyInv
<1>3. dcRole' = Applied(e) /\ handled' = handled \cup {p}
  BY DEF Write, HandlerWrote
<1>4. dcRole \in [Users -> Roles \cup {NoRole}] /\ e.user \in Users
  BY <1>1 DEF DCInv, DCTypeOK, Event
<1> SUFFICES /\ \A u \in Users : About(e, u) => dcRole'[u] = role[u]
             /\ \A u \in Users : dcRole'[u] = dcRole[u] \/ About(e, u)
  BY <1>1, <1>3
<1> HIDE DEF e
<1> USE DEF RoleKinds, Applied, Holds, RoleIn, About
<1>5. CASE e.kind \in {"CREATED", "ADDED"}
  BY <1>2, <1>3, <1>4, <1>5 DEF DomainUserAdded
<1>6. CASE e.kind = "ROLE"
  BY <1>2, <1>3, <1>4, <1>6 DEF DomainUserRoleUpdated, Regraded, Regrades
<1>7. CASE e.kind = "REMOVED"
  BY <1>2, <1>3, <1>4, <1>7 DEF DomainUserRemoved
<1>8. CASE e.kind = "DELETED"
  BY <1>3, <1>8 DEF DomainDeleted
<1> QED
  BY <1>1, <1>5, <1>6, <1>7, <1>8

LEMMA WorkerDCCopy ==
  ASSUME TypeOK, DCInv, DCCopyInv, Handle \/ Deliver \/ \E p \in written : Resolve(p)
  PROVE  DCCopyInv'
<1>1. WorkerActs /\ UNCHANGED vars /\ DeliveryInv
  BY HandlersAct, WorkerLeavesDomain DEF DCInv
<1>2. HandledInv' /\ SpacedInv'
  BY <1>1, WorkerHandled, WorkerSpaced DEF DCCopyInv
<1>3. PICK before, after : before = dcRole /\ after = dcRole'
  OBVIOUS
<1>4. CopyInv(before)
  BY <1>3 DEF DCCopyInv
<1>5. Spaced' => Spaced
  BY <1>1, WorkerSettles
<1>6. CASE dcRole' = dcRole /\ handled' = handled
  <2>1. CopyInv(after)'
    BY <1>1, <1>3, <1>4, <1>6, WorkerCopy DEF DCCopyInv
  <2> QED
    BY <1>2, <1>3, <2>1 DEF DCCopyInv, CopyInv, Regrades
<1>7. ASSUME NEW p \in fresh, Write(p), Spaced
      PROVE  DCCopyInv'
  <2>1. /\ p \in Positions /\ handled' = handled \cup {p}
        /\ \A u \in Users : About(published[p], u) => after[u] = role[u]
        /\ \A u \in Users : after[u] = before[u] \/ About(published[p], u)
    BY <1>3, <1>7, WriteCopies DEF DCCopyInv
  <2>2. CopyInv(after)'
    BY <1>1, <1>4, <2>1, WorkerCopy DEF DCCopyInv
  <2> QED
    BY <1>2, <1>3, <2>2 DEF DCCopyInv, CopyInv, Regrades
<1>8. CASE ~Spaced
  BY <1>2, <1>5, <1>8 DEF DCCopyInv, CopyInv
<1>9. (dcRole' = dcRole /\ handled' = handled) \/ \E p \in fresh : Write(p)
  BY DEF Handle, Reject, HandlerRejected, Deliver, Resolve, HandlerResolved, Fetch, Restart, Claim,
     HandlerFailed, Acknowledged
<1> QED
  BY <1>6, <1>7, <1>8, <1>9

LEMMA StepDCCopy ==
  ASSUME IInv, DCInv, DCInv', DCCopyInv, [DCNext]_dcVars
  PROVE  DCCopyInv'
<1>1. CASE DomainChanges
  <2>1. DomainStep /\ dcRole' = dcRole
    BY <1>1 DEF DomainChanges
  <2>2. HandledInv' /\ SpacedInv'
    BY <2>1, DomainHandled, DomainSpaced DEF DCInv, DCCopyInv
  <2>3. PICK copy : copy = dcRole
    OBVIOUS
  <2>4. RoleKinds \subseteq Subscribed /\ CopyInv(copy)
    BY <2>3, ReplicaAssumption DEF DCCopyInv
  <2>5. CopyInv(copy)'
    BY <2>1, <2>4, DomainCopy DEF DCInv, DCCopyInv
  <2> QED
    BY <2>1, <2>2, <2>3, <2>5 DEF DCCopyInv, CopyInv, Regrades
<1>2. CASE Handle \/ Deliver \/ \E p \in written : Resolve(p)
  BY <1>2, WorkerDCCopy DEF IInv
<1>3. CASE UNCHANGED dcVars
  BY <1>3 DEF dcVars, vars, delivery, worker, DCCopyInv, HandledInv, SpacedInv, CopyInv, Spaced,
     Unsettled, Positions, Kind, Settled, Open, Holds, Regrades, About
<1> QED
  BY <1>1, <1>2, <1>3 DEF DCNext

THEOREM CopyInvariant == DCSpec => []DCCopyInv
<1>1. DCInit => DCCopyInv
  BY InitSpaced DEF DCInit, DCCopyInv
<1>2. IInv /\ DCInv /\ DCInv' /\ DCCopyInv /\ [DCNext]_dcVars => DCCopyInv'
  BY StepDCCopy
<1> QED
  BY <1>1, <1>2, ReplicaInvariant, ReplicaImplementsDomain, InductiveInvariant, PTL DEF DCSpec

\* Requests that wait for one another's events leave the copy of the device control
\* service equal to the original, whatever fails and is delivered again on the way
\* (devicecontrol/src/bus/handlers).
THEOREM SpacedChangesConvergeAlways == DCSpec => []SpacedChangesConverge
<1>1. ASSUME IInv, DCInv, DCCopyInv, Spaced, AllHandled
      PROVE  dcRole = role
  <2>1. RoleKinds \subseteq Subscribed
    BY ReplicaAssumption
  <2>2. \A p \in Positions : published[p].kind \in RoleKinds => p \in handled
    BY <1>1, <2>1 DEF AllHandled, Kind
  <2>3. \A r \in Requests : unsent[r] = <<>>
    BY <1>1 DEF AllHandled, IInv, SendingInv, Open
  <2>4. \A u \in Users : dcRole[u] = role[u]
    BY <1>1, <2>2, <2>3 DEF DCCopyInv, CopyInv, About
  <2>5. dcRole \in [Users -> Roles \cup {NoRole}] /\ role \in [Users -> Roles \cup {NoRole}]
    BY <1>1 DEF DCInv, DCTypeOK, IInv, TypeOK
  <2> QED
    BY <2>4, <2>5
<1>2. IInv /\ DCInv /\ DCCopyInv => SpacedChangesConverge
  BY <1>1 DEF SpacedChangesConverge
<1> QED
  BY <1>2, CopyInvariant, ReplicaInvariant, ReplicaImplementsDomain, InductiveInvariant, PTL

-----------------------------------------------------------------------------
(* Sockets and pages *)

LEMMA InitListTypeOK ==
  ASSUME ListInit
  PROVE  ListTypeOK
<1>1. RoomsTypeOK
  BY RoomsAssumption DEF ListInit, RoomsInit, RoomsTypeOK
<1>2. Asking("list") \in Get
  BY DEF Asking, Get
<1> QED
  BY <1>1, <1>2 DEF ListInit, ListTypeOK, Shown

\* What the server and the sockets do to the room.
LEMMA ServerRooms ==
  ASSUME RoomsTypeOK, NEW u \in Watchers,
         Connect(u) \/ ReadDomains(u) \/ JoinRooms(u) \/ Disconnect(u)
  PROVE  RoomsTypeOK' /\ UNCHANGED dcVars
<1>1. u \in Users /\ MaxDisconnects \in Nat
  BY RoomsAssumption
<1>2. CASE Connect(u)
  BY <1>1, <1>2 DEF Connect, Enters, RoomsTypeOK
<1>3. CASE ReadDomains(u)
  BY <1>1, <1>3 DEF ReadDomains, Enters, RoomsTypeOK
<1>4. CASE JoinRooms(u)
  BY <1>1, <1>4 DEF JoinRooms, Enters, RoomsTypeOK
<1>5. CASE Disconnect(u)
  BY <1>1, <1>5 DEF Disconnect, Enters, RoomsTypeOK
<1> QED
  BY <1>2, <1>3, <1>4, <1>5

LEMMA ObeyRooms ==
  ASSUME RoomsTypeOK, Obey
  PROVE  RoomsTypeOK'
<1> DEFINE o == Head(orders)
<1>1. o \in Event /\ Tail(orders) \in Seq(Event)
  BY DEF Obey, RoomsTypeOK
<1>2. o.user \in Users
  BY <1>1 DEF Event
<1>3. inRoom' \subseteq {u \in Users : conn[u] = "on"}
  <2>1. inRoom' = CASE Adds(o) /\ conn[o.user] = "on" -> inRoom \cup {o.user}
                    [] o.kind = "REMOVED" -> inRoom \ {o.user}
                    [] o.kind = "DELETED" -> {}
                    [] OTHER -> inRoom
    BY DEF Obey
  <2>2. inRoom' \in {inRoom, inRoom \ {o.user}, {}} \/ (conn[o.user] = "on" /\ inRoom' = inRoom \cup {o.user})
    BY <2>1 DEF Adds
  <2> QED
    BY <1>2, <2>2 DEF RoomsTypeOK
<1>4. bypassed' \subseteq Users
  BY DEF Obey, RoomsTypeOK
<1> QED
  BY <1>1, <1>3, <1>4 DEF Obey, RoomsTypeOK

LEMMA WrittenEvents ==
  ASSUME TypeOK, DeliveryTypeOK, NEW p \in written
  PROVE  published[p] \in Event
<1>1. p \in 1..fetched /\ fetched \in 0..Len(published) /\ Len(published) \in Nat
  BY DEF DeliveryTypeOK, TypeOK
<1>2. p \in 1..Len(published)
  BY <1>1
<1> QED
  BY <1>2 DEF TypeOK

LEMMA WorkerRooms ==
  ASSUME TypeOK, DeliveryTypeOK, RoomsTypeOK, Work \/ \E p \in written : Tell(p)
  PROVE  RoomsTypeOK'
<1>1. ASSUME NEW p \in written, Tell(p)
      PROVE  RoomsTypeOK'
  BY <1>1, WrittenEvents DEF Tell, RoomsTypeOK
<1>2. CASE Work
  <2>1. Untold \subseteq Users
    BY WrittenEvents DEF Untold, Event
  <2> QED
    BY <1>2, <2>1 DEF Work, RoomsTypeOK, rooms
<1> QED
  BY <1>1, <1>2

LEMMA PageTypeOK ==
  ASSUME TypeOK, ListTypeOK, NEW u \in Watchers, PageStep(u)
  PROVE  ListTypeOK'
<1> USE DEF ListTypeOK
<1>1. u \in Users
  BY RoomsAssumption
<1>2. \A why \in {"list", "joined", "users"} : Asking(why) \in Get
  BY DEF Asking, Get
<1>3. shown[u] \in Shown /\ Merged(u) \in Shown /\ NoRole \in Shown
  BY <1>1 DEF Merged, Shown
<1>4. CASE ViewDetails(u)
  BY <1>1, <1>2, <1>4 DEF ViewDetails, roomVars, rooms, RoomsTypeOK
<1>5. CASE Renew(u)
  <2>1. RoomsTypeOK'
    BY <1>5, RoomsAssumption DEF Renew, RoomsTypeOK
  <2> QED
    BY <1>1, <1>2, <1>5, <2>1 DEF Renew, Refetch
<1>6. CASE HearJoined(u) \/ HearLeft(u) \/ HearDeleted(u) \/ HearRoleUpdated(u)
  <2>1. Head(inbox[u]) \in Event /\ inbox' \in [Users -> Seq(Event)]
    <3>1. inbox[u] \in Seq(Event) /\ inbox[u] # <<>> /\ inbox' = [inbox EXCEPT ![u] = Tail(@)]
      BY <1>1, <1>6 DEF HearJoined, HearLeft, HearDeleted, HearRoleUpdated, Hears
    <3>2. Head(inbox[u]) \in Event /\ Tail(inbox[u]) \in Seq(Event)
      BY <3>1
    <3> QED
      BY <3>1, <3>2
  <2>2. Head(inbox[u]).role \in Shown
    BY <2>1 DEF Event, Shown
  <2>3. RoomsTypeOK' /\ outdated' \subseteq Users
        /\ UNCHANGED <<answers, opened, formerly>>
    BY <1>1, <1>6 DEF HearJoined, HearLeft, HearDeleted, HearRoleUpdated, Hears, roomVars, rooms, RoomsTypeOK
  <2>4. shown' \in [Users -> Shown]
    BY <1>1, <1>3, <1>6, <2>2 DEF HearJoined, HearLeft, HearDeleted, HearRoleUpdated, Show
  <2>5. gets' \in [Users -> SUBSET Get]
    BY <1>1, <1>2, <1>6 DEF HearJoined, HearLeft, HearDeleted, HearRoleUpdated
  <2> QED
    BY <2>1, <2>3, <2>4, <2>5
<1>7. ASSUME NEW g \in gets[u], ReadList(u, g) \/ ReadUsers(u, g) \/ GetArrives(u, g) \/ GetFails(u, g)
      PROVE  ListTypeOK'
  <2>1. g \in Get /\ g.why \in {"list", "joined", "users"} /\ g.found \in Shown \cup {Unasked}
    BY <1>1 DEF Get
  <2>2. \A found \in Shown : [g EXCEPT !.found = found] \in Get
    BY <2>1 DEF Get
  <2>3. RoomsTypeOK' /\ outdated' \subseteq Users
        /\ UNCHANGED <<answers, inbox, opened, formerly>>
    BY <1>1, <1>7 DEF ReadList, ReadUsers, GetArrives, GetFails, roomVars, rooms, RoomsTypeOK
  <2>4. CASE ReadList(u, g)
    <3>1. RolesInRows(u) \cup {NoRole} \subseteq Shown
      BY <1>1 DEF RolesInRows, Shown, TypeOK
    <3>2. PICK found \in Shown : gets' = [gets EXCEPT ![u] = (@ \ {g}) \cup {[g EXCEPT !.found = found]}]
      BY <2>4, <3>1 DEF ReadList
    <3>3. gets' \in [Users -> SUBSET Get]
      BY <1>1, <2>2, <3>2
    <3> QED
      BY <2>3, <2>4, <3>3 DEF ReadList
  <2>5. CASE ReadUsers(u, g)
    <3>1. [g EXCEPT !.found = Unstated] \in Get
      BY <2>2 DEF Shown
    <3>2. gets' \in [Users -> SUBSET Get]
      BY <1>1, <2>5, <3>1 DEF ReadUsers
    <3> QED
      BY <2>3, <2>5, <3>2 DEF ReadUsers
  <2>6. CASE GetArrives(u, g)
    <3>1. Listed(u, g) \in Shown
      BY <1>3, <2>1, <2>6 DEF GetArrives, Listed
    <3> QED
      BY <1>1, <2>3, <2>6, <3>1 DEF GetArrives, Show
  <2>7. CASE GetFails(u, g)
    BY <1>1, <2>3, <2>7 DEF GetFails
  <2> QED
    BY <1>7, <2>4, <2>5, <2>6, <2>7
<1>8. CASE Created(u) \/ Left(u) \/ Deleted(u)
  <2>1. PICK op \in {"create", "leave", "delete"} : Takes(u, op)
    BY <1>8 DEF Created, Left, Deleted
  <2>2. /\ RoomsTypeOK' /\ outdated' \subseteq Users
        /\ answers' \in [Users -> SUBSET {"create", "leave", "delete"}]
        /\ UNCHANGED <<gets, inbox, formerly>>
    BY <1>1, <2>1 DEF Takes, roomVars, rooms, RoomsTypeOK
  <2>3. shown' \in [Users -> Shown] /\ opened' \subseteq Watchers
    BY <1>1, <1>3, <1>8 DEF Created, Left, Deleted, Show
  <2> QED
    BY <2>2, <2>3
<1> QED
  BY <1>4, <1>5, <1>6, <1>7, <1>8 DEF PageStep

LEMMA SocketTypeOK ==
  ASSUME TypeOK, ListTypeOK, NEW u \in Watchers,
         \/ (Connect(u) \/ ReadDomains(u) \/ JoinRooms(u)) /\ UNCHANGED page
         \/ Break(u) \/ Expired(u)
  PROVE  ListTypeOK'
<1>1. u \in Users /\ Asking("list") \in Get
  BY RoomsAssumption DEF Asking, Get
<1>2. RoomsTypeOK'
  BY ServerRooms DEF ListTypeOK, Break, Expired
<1>3. CASE UNCHANGED page
  BY <1>2, <1>3 DEF ListTypeOK, page
<1>4. CASE Break(u) \/ Expired(u)
  <2>1. inbox' \in [Users -> Seq(Event)]
    <3>1. <<>> \in Seq(Event)
      OBVIOUS
    <3> QED
      BY <1>1, <1>4, <3>1 DEF ListTypeOK, Break, Expired
  <2>2. gets' \in [Users -> SUBSET Get]
    BY <1>1, <1>4 DEF ListTypeOK, Break, Expired, Refetch
  <2> QED
    BY <1>1, <1>2, <1>4, <2>1, <2>2 DEF ListTypeOK, Break, Expired
<1> QED
  BY <1>3, <1>4

LEMMA EmitTypeOK ==
  ASSUME ListTypeOK, Emit
  PROVE  ListTypeOK'
<1>1. RoomsTypeOK'
  BY ObeyRooms DEF ListTypeOK, Emit
<1>2. Head(orders) \in Event
  BY DEF ListTypeOK, RoomsTypeOK, Emit, Obey
<1>3. inbox' \in [Users -> Seq(Event)]
  <2>1. \A q \in Seq(Event) : Append(q, Head(orders)) \in Seq(Event)
    BY <1>2
  <2> QED
    BY <2>1 DEF ListTypeOK, Emit, Deliveries
<1>4. outdated' \subseteq Users
  BY RoomsAssumption DEF ListTypeOK, Emit, Deliveries
<1> QED
  BY <1>1, <1>3, <1>4 DEF ListTypeOK, Emit

LEMMA ChangeTypeOK ==
  ASSUME TypeOK, ListTypeOK, Change
  PROVE  ListTypeOK'
<1>1. RoomsTypeOK'
  BY DEF ListTypeOK, Change, rooms, RoomsTypeOK
<1>2. answers' \in [Users -> SUBSET {"create", "leave", "delete"}]
  BY DEF ListTypeOK, Change
<1>3. formerly' \in [Users -> SUBSET Roles]
  BY DEF ListTypeOK, Change, TypeOK
<1> QED
  BY <1>1, <1>2, <1>3 DEF ListTypeOK, Change

LEMMA StepListTypeOK ==
  ASSUME TypeOK, DeliveryTypeOK, ListTypeOK, [ListNext]_listVars
  PROVE  ListTypeOK'
<1>1. CASE UNCHANGED listVars
  BY <1>1 DEF ListTypeOK, RoomsTypeOK, listVars, roomVars, rooms, page
<1>2. CASE ServeBus
  BY <1>2, WorkerRooms, RoomsAssumption DEF ListTypeOK, ServeBus
<1>3. CASE (\E p \in written : Tell(p)) /\ UNCHANGED page
  BY <1>3, WorkerRooms DEF ListTypeOK, page
<1> QED
  BY <1>1, <1>2, <1>3, SocketTypeOK, PageTypeOK, EmitTypeOK, ChangeTypeOK DEF ListNext

\* Sockets, rooms and pages stay in their types; in particular nobody is in the room
\* of the domain without an open socket.
THEOREM ListTypeCorrect == ListSpec => []ListTypeOK
<1>1. IInv => TypeOK
  BY DEF IInv
<1>2. DCInv => DeliveryTypeOK
  BY DEF DCInv, DeliveryInv
<1>3. TypeOK /\ DeliveryTypeOK /\ ListTypeOK /\ [ListNext]_listVars => ListTypeOK'
  BY StepListTypeOK
<1>4. ListInit => ListTypeOK
  BY InitListTypeOK
<1> QED
  BY <1>1, <1>2, <1>3, <1>4, ListImplementsReplica, ReplicaImplementsDomain, ReplicaInvariant,
     InductiveInvariant, PTL DEF ListSpec

-----------------------------------------------------------------------------
(* The room of the domain *)

\* Events are where they were, and no more are handled than there are.
LEMMA HeldEvents ==
  ASSUME TypeOK, DeliveryInv
  PROVE  /\ fresh \cup written \cup acking \cup parked \cup handled \subseteq Positions
         /\ \A p \in Positions : published[p] \in Event
         /\ \A p \in fresh \cup written \cup acking \cup parked : p \in Unsettled
<1>1. fetched \in 0..Len(published) /\ Len(published) \in Nat
  BY DEF DeliveryInv, DeliveryTypeOK, TypeOK
<1>2. 1..fetched \subseteq Positions
  BY <1>1 DEF Positions
<1>3. fresh \cup written \cup acking \cup parked \cup handled \subseteq Positions
  BY <1>2 DEF DeliveryInv, DeliveryTypeOK
<1>4. \A p \in Positions : published[p] \in Event
  BY DEF TypeOK, Positions
<1> QED
  BY <1>3, <1>4 DEF Unsettled

LEMMA DomainRehandled ==
  ASSUME IInv, DCInv, DCCopyInv, RehandledInv, DomainChanges
  PROVE  RehandledInv'
<1> SUFFICES ASSUME Spaced' PROVE RehandledInv'
  BY DEF RehandledInv
<1>1. PICK r \in Requests : RequestStep(r) /\ UNCHANGED delivery
  BY DEF DomainChanges, DomainStep
<1>2. Spaced /\ ~lost' /\ DeliveryInv /\ SpacedInv /\ UNCHANGED dcRole
  BY StillSpaced DEF Spaced, DomainChanges, DCInv, DCCopyInv
<1>3. \A p \in Unsettled \cap handled : \A u \in Users : About(published[p], u) => dcRole[u] = role[u]
  BY <1>2 DEF RehandledInv
<1>4. UNCHANGED <<fetched, fresh, written, acking, parked, handled>>
  BY <1>1 DEF delivery, worker
<1>5. CASE \/ CreateDomain(r) \/ RenameDomain(r) \/ AddUser(r) \/ RemoveUser(r)
           \/ SetRole(r) \/ TransferOwnership(r) \/ DeleteDomain(r)
  <2>1. Unsettled = {} /\ UNCHANGED published
    BY <1>2, <1>5, CommitAlone
  <2>2. Unsettled' = {}
    BY <1>4, <2>1 DEF Unsettled, Positions
  <2> QED
    BY <2>2 DEF RehandledInv
<1>6. CASE Publish(r)
  <2>1. /\ Len(published) + 1 \notin handled /\ Unsettled' = Unsettled \cup {Len(published) + 1}
        /\ \A p \in Positions : published'[p] = published[p]
        /\ UNCHANGED <<role, handled>>
    BY <1>1, <1>2, <1>6, PublishMoves
  <2>2. Unsettled' \cap handled' = Unsettled \cap handled
    BY <2>1
  <2>3. \A p \in Unsettled : published'[p] = published[p]
    BY <2>1 DEF Unsettled
  <2> QED
    BY <1>2, <1>3, <2>1, <2>2, <2>3 DEF RehandledInv, About
<1>7. CASE Begin(r) \/ Check1(r) \/ Check2(r) \/ TransactionFails(r)
  <2>1. UNCHANGED <<role, published>> /\ Unsettled' = Unsettled
    BY <1>4, <1>7, OtherRequestSteps DEF Unsettled, Positions, Begin, Check1, Check2, TransactionFails
  <2> QED
    BY <1>2, <1>3, <1>4, <2>1 DEF RehandledInv, About
<1>8. CASE PublishFails(r)
  BY <1>2, <1>8 DEF PublishFails
<1> QED
  BY <1>1, <1>5, <1>6, <1>7, <1>8 DEF RequestStep

\* What a step of the worker does to the copy.
LEMMA CopySteps ==
  ASSUME Handle \/ Deliver \/ \E p \in written : Resolve(p)
  PROVE  (dcRole' = dcRole /\ handled' = handled) \/ \E p \in fresh : Write(p)
  BY DEF Handle, Reject, HandlerRejected, Deliver, Resolve, HandlerResolved, Fetch, Restart, Claim,
     HandlerFailed, Acknowledged

LEMMA WorkerRehandled ==
  ASSUME TypeOK, DCInv, DCCopyInv, RehandledInv, Handle \/ Deliver \/ \E p \in written : Resolve(p)
  PROVE  RehandledInv'
<1> SUFFICES ASSUME Spaced' PROVE RehandledInv'
  BY DEF RehandledInv
<1>1. WorkerActs /\ UNCHANGED <<role, published>> /\ DeliveryInv
  BY HandlersAct, WorkerLeavesDomain DEF DCInv, vars
<1>2. Spaced /\ Unsettled' \subseteq Unsettled
  BY <1>1, WorkerSettles
<1>3. \A p \in Unsettled \cap handled : \A u \in Users : About(published[p], u) => dcRole[u] = role[u]
  BY <1>2 DEF RehandledInv
<1>4. CASE dcRole' = dcRole /\ handled' = handled
  BY <1>1, <1>2, <1>3, <1>4 DEF RehandledInv, About
<1>5. ASSUME NEW p \in fresh, Write(p)
      PROVE  RehandledInv'
  <2>1. /\ handled' = handled \cup {p}
        /\ \A u \in Users : About(published[p], u) => dcRole'[u] = role[u]
        /\ \A u \in Users : dcRole'[u] = dcRole[u] \/ About(published[p], u)
    BY <1>2, <1>5, WriteCopies DEF DCCopyInv
  <2>2. ASSUME NEW q \in Unsettled', q \in handled', NEW u \in Users, About(published[q], u)
        PROVE  dcRole'[u] = role[u]
    BY <1>2, <1>3, <2>1, <2>2
  <2> QED
    BY <1>1, <2>2 DEF RehandledInv, About
<1> QED
  BY <1>4, <1>5, CopySteps

LEMMA StepRehandled ==
  ASSUME IInv, DCInv, DCCopyInv, RehandledInv, [DCNext]_dcVars
  PROVE  RehandledInv'
<1>1. CASE DomainChanges
  BY <1>1, DomainRehandled
<1>2. CASE Handle \/ Deliver \/ \E p \in written : Resolve(p)
  BY <1>2, WorkerRehandled DEF IInv
<1>3. CASE UNCHANGED dcVars
  BY <1>3 DEF dcVars, vars, delivery, worker, RehandledInv, Spaced, Unsettled, Positions, About
<1> QED
  BY <1>1, <1>2, <1>3 DEF DCNext

-----------------------------------------------------------------------------
\* A deletion is announced by the transaction that makes it, and a domain that is
\* gone does not come back.
LEMMA DomainStays ==
  ASSUME IInv, NEW r \in Requests, RequestStep(r), domain' # "deleted"
  PROVE  /\ domain # "deleted"
         /\ \A i \in DOMAIN unsent'[r] :
              \/ \E j \in DOMAIN unsent[r] : unsent'[r][i] = unsent[r][j]
              \/ unsent'[r][i].kind # "DELETED"
<1>1. unsent \in [Requests -> Seq(Event)]
  BY DEF IInv, TypeOK
<1>2. CASE \/ CreateDomain(r) \/ RenameDomain(r) \/ AddUser(r) \/ RemoveUser(r)
           \/ SetRole(r) \/ TransferOwnership(r) \/ DeleteDomain(r)
  <2>1. call[r] \in Calls /\ unsent' = [unsent EXCEPT ![r] = Events(call[r])]
    BY <1>2 DEF CreateDomain, RenameDomain, AddUser, RemoveUser, SetRole, TransferOwnership, DeleteDomain,
         Committed, IInv, SendingInv, Open
  <2>2. domain # "deleted" /\ call[r].op # "delete"
    BY <1>2 DEF CreateDomain, RenameDomain, AddUser, RemoveUser, SetRole, TransferOwnership, DeleteDomain,
         InsertDomain, MarkDeleted, tables
  <2>3. call[r].op \in Ops
    BY <2>1 DEF Calls, CreateCalls, RenameCalls, LeaveCalls, DeleteCalls, RemoveCalls, TransferCalls,
         AddCalls, SetRoleCalls, Own, Named, CallType
  <2>4. \A i \in DOMAIN Events(call[r]) : Events(call[r])[i].kind # "DELETED"
    BY <2>2, <2>3 DEF Events, Announce, Ops
  <2> QED
    BY <1>1, <2>1, <2>2, <2>4
<1>3. CASE Publish(r)
  <2>1. /\ UNCHANGED domain /\ unsent'[r] = Tail(unsent[r])
        /\ unsent[r] \in Seq(Event) /\ unsent[r] # <<>>
    BY <1>1, <1>3 DEF Publish, tables, IInv, SendingInv
  <2>2. \A i \in DOMAIN Tail(unsent[r]) : i + 1 \in DOMAIN unsent[r] /\ Tail(unsent[r])[i] = unsent[r][i + 1]
    BY <2>1
  <2> QED
    BY <2>1, <2>2
<1>4. CASE Begin(r) \/ Check1(r) \/ Check2(r) \/ TransactionFails(r)
  BY <1>4 DEF Begin, Check1, Check2, TransactionFails, tables
<1>5. CASE PublishFails(r)
  BY <1>1, <1>5 DEF PublishFails, tables
<1> QED
  BY <1>2, <1>3, <1>4, <1>5 DEF RequestStep

LEMMA DomainLive ==
  ASSUME IInv, DCInv, LiveInv, DomainChanges, UNCHANGED orders
  PROVE  LiveInv'
<1> SUFFICES ASSUME domain' # "deleted" PROVE LiveInv'
  BY DEF LiveInv
<1>1. PICK r \in Requests : RequestStep(r) /\ UNCHANGED delivery
  BY DEF DomainChanges, DomainStep
<1>2. /\ \A p \in Positions : published[p].kind # "DELETED"
      /\ \A q \in Requests : \A i \in DOMAIN unsent[q] : unsent[q][i].kind # "DELETED"
      /\ \A i \in DOMAIN orders : orders[i].kind # "DELETED"
  BY <1>1, DomainStays DEF LiveInv, Kind
<1>3. \A i \in DOMAIN unsent'[r] : unsent'[r][i].kind # "DELETED"
  BY <1>1, <1>2, DomainStays
<1>4. \A q \in Requests : q # r => unsent'[q] = unsent[q]
  BY <1>1 DEF IInv, TypeOK, RequestStep, Begin, Check1, Check2, CreateDomain, RenameDomain, AddUser, RemoveUser,
     SetRole, TransferOwnership, DeleteDomain, Committed, TransactionFails, Publish, PublishFails
<1>5. \A p \in Positions' : published'[p].kind # "DELETED"
  <2>1. CASE Publish(r)
    BY <1>1, <1>2, <2>1, PublishMoves DEF DCInv
  <2>2. CASE ~Publish(r)
    <3>1. UNCHANGED published
      BY <1>1, <2>2 DEF RequestStep, Begin, Check1, Check2, CreateDomain, RenameDomain, AddUser, RemoveUser,
         SetRole, TransferOwnership, DeleteDomain, Committed, TransactionFails, PublishFails
    <3> QED
      BY <1>2, <3>1 DEF Positions
  <2> QED
    BY <2>1, <2>2
<1> QED
  BY <1>2, <1>3, <1>4, <1>5 DEF LiveInv, Kind

LEMMA TailOf ==
  ASSUME NEW q \in Seq(Event), q # <<>>
  PROVE  /\ Head(q) = q[1] /\ Head(q) \in Event /\ 1 \in DOMAIN q
         /\ Tail(q) \in Seq(Event)
         /\ \A i \in DOMAIN q : i # 1 => i - 1 \in DOMAIN Tail(q) /\ Tail(q)[i - 1] = q[i]
         /\ \A i \in DOMAIN Tail(q) : i \in Nat /\ i >= 1 /\ i + 1 \in DOMAIN q /\ Tail(q)[i] = q[i + 1]
<1>1. Head(q) = q[1] /\ Head(q) \in Event /\ 1 \in DOMAIN q /\ Tail(q) \in Seq(Event)
  OBVIOUS
<1>2. /\ Len(q) \in Nat /\ Len(q) >= 1 /\ DOMAIN q = 1..Len(q)
      /\ Len(Tail(q)) = Len(q) - 1 /\ DOMAIN Tail(q) = 1..(Len(q) - 1)
  OBVIOUS
<1>3. \A i \in 1..(Len(q) - 1) : Tail(q)[i] = q[i + 1]
  OBVIOUS
<1>4. ASSUME NEW i \in DOMAIN q, i # 1
      PROVE  i - 1 \in DOMAIN Tail(q) /\ Tail(q)[i - 1] = q[i]
  <2>1. i - 1 \in 1..(Len(q) - 1) /\ (i - 1) + 1 = i
    BY <1>2, <1>4
  <2> QED
    BY <1>2, <1>3, <2>1
<1>5. ASSUME NEW i \in DOMAIN Tail(q)
      PROVE  i \in Nat /\ i >= 1 /\ i + 1 \in DOMAIN q /\ Tail(q)[i] = q[i + 1]
  BY <1>2, <1>3
<1> QED
  BY <1>1, <1>4, <1>5

LEMMA AppendTo ==
  ASSUME NEW q \in Seq(Event), NEW e \in Event
  PROVE  /\ Append(q, e) \in Seq(Event) /\ Len(q) \in Nat
         /\ DOMAIN Append(q, e) = DOMAIN q \cup {Len(q) + 1}
         /\ Append(q, e)[Len(q) + 1] = e
         /\ \A i \in DOMAIN q : i \in Nat /\ i < Len(q) + 1 /\ Append(q, e)[i] = q[i]
  OBVIOUS

LEMMA CommandsLive ==
  ASSUME TypeOK, DeliveryInv, RoomsTypeOK, LiveInv, Obey \/ \E p \in written : Tell(p)
  PROVE  LiveInv'
<1>1. CASE Obey
  <2>1. /\ orders' = Tail(orders) /\ UNCHANGED <<domain, published, unsent>>
        /\ \A i \in DOMAIN Tail(orders) : i + 1 \in DOMAIN orders /\ Tail(orders)[i] = orders[i + 1]
    BY <1>1, TailOf DEF Obey, RoomsTypeOK, dcVars, vars
  <2> QED
    BY <2>1 DEF LiveInv, Positions, Kind
<1>2. ASSUME NEW p \in written, Tell(p)
      PROVE  LiveInv'
  <2>1. p \in Positions /\ published[p] \in Event
    BY HeldEvents
  <2>2. orders' = Append(orders, published[p]) /\ UNCHANGED <<domain, published, unsent>>
    BY <1>2 DEF Tell, Resolve, HandlerResolved, vars
  <2>3. /\ DOMAIN orders' = DOMAIN orders \cup {Len(orders) + 1}
        /\ orders'[Len(orders) + 1] = published[p]
        /\ \A i \in DOMAIN orders : orders'[i] = orders[i]
    BY <2>1, <2>2, AppendTo DEF RoomsTypeOK
  <2>4. domain # "deleted" => published[p].kind # "DELETED"
    BY <2>1 DEF LiveInv, Kind
  <2> QED
    BY <2>2, <2>3, <2>4 DEF LiveInv, Positions, Kind
<1> QED
  BY <1>1, <1>2

LEMMA StepLive ==
  ASSUME IInv, DCInv, ListTypeOK, LiveInv, [ListNext]_listVars
  PROVE  LiveInv'
<1> USE DEF ListTypeOK
<1>1. CASE Change
  BY <1>1, DomainLive DEF Change, rooms
<1>2. CASE Emit \/ \E p \in written : Tell(p)
  BY <1>2, CommandsLive DEF Emit, IInv, DCInv
<1>3. CASE Work
  <2>1. UNCHANGED <<domain, published, unsent, orders>>
    BY <1>3, HandlersAct, WorkerLeavesDomain DEF Work, rooms, vars
  <2> QED
    BY <2>1 DEF LiveInv, Positions, Kind
<1>4. CASE \/ \E u \in Watchers : \/ Connect(u) \/ ReadDomains(u) \/ JoinRooms(u)
                                  \/ Break(u) \/ Expired(u) \/ PageStep(u)
           \/ UNCHANGED listVars
  <2>1. UNCHANGED <<domain, published, unsent, orders>>
    BY <1>4 DEF Connect, ReadDomains, JoinRooms, Break, Expired, Disconnect, PageStep, ViewDetails, Renew,
       HearJoined, HearLeft, HearDeleted, HearRoleUpdated, Hears, ReadList, ReadUsers, GetArrives, GetFails,
       Created, Left, Deleted, Takes, listVars, roomVars, rooms, dcVars, vars
  <2> QED
    BY <2>1 DEF LiveInv, Positions, Kind
<1> QED
  BY <1>1, <1>2, <1>3, <1>4 DEF ListNext, ServeBus

\* What an unhandled command says is what the copy holds.
LEMMA TellAgrees ==
  ASSUME TypeOK, DCInv, DCCopyInv, RehandledInv, Spaced, NEW p \in written, NEW u \in Users,
         Moves(published[p], u)
  PROVE  Adds(published[p]) <=> Allowed(u)
<1>1. p \in Unsettled /\ p \in handled
  BY HeldEvents DEF DCInv, DCCopyInv, HandledInv
<1>2. About(published[p], u) /\ (Adds(published[p]) <=> published[p].kind # "REMOVED")
  BY DEF Moves, About, RoleKinds, Adds
<1>3. dcRole[u] = role[u]
  BY <1>1, <1>2 DEF RehandledInv
<1>4. Holds(published[p])
  BY <1>1 DEF DCCopyInv, SpacedInv
<1> QED
  BY <1>2, <1>3, <1>4 DEF Holds, About, Allowed

LEMMA TellMoves ==
  ASSUME TypeOK, DCInv, DCCopyInv, RehandledInv, RoomsTypeOK, MovesInv, NEW p \in written, Tell(p)
  PROVE  MovesInv'
<1> SUFFICES ASSUME Spaced', domain' # "deleted", NEW u \in Users, u \notin bypassed' PROVE Followed(u)'
  BY DEF MovesInv, RoomsTypeOK
<1> DEFINE e == published[p]
<1>1. p \in Positions /\ e \in Event
  BY HeldEvents DEF DCInv
<1>2. /\ orders' = Append(orders, e)
      /\ written' = written \ {p}
      /\ UNCHANGED <<domain, published, fresh, parked, handled, dcRole, conn, inRoom, bypassed>>
      /\ UNCHANGED <<hurried, overlapped, lost>>
  BY DEF Tell, Resolve, HandlerResolved, vars
<1>3. Spaced /\ Followed(u)
  BY <1>2 DEF Spaced, MovesInv
<1>4. /\ DOMAIN orders' = DOMAIN orders \cup {Len(orders) + 1}
      /\ orders'[Len(orders) + 1] = e
      /\ \A i \in DOMAIN orders : i \in Nat /\ i < Len(orders) + 1 /\ orders'[i] = orders[i]
      /\ Len(orders) \in Nat
  BY <1>1, <1>2, AppendTo DEF RoomsTypeOK
<1>5. CASE Moves(e, u)
  <2>1. (Adds(e) <=> Allowed(u)) /\ (Allowed(u)' <=> Allowed(u))
    BY <1>2, <1>3, <1>5, TellAgrees DEF Allowed
  <2>2. \A i \in DOMAIN orders' : i # Len(orders) + 1 => Len(orders) + 1 > i
    BY <1>4
  <2>3. LastMoveAgrees(u)'
    BY <1>4, <1>5, <2>1, <2>2 DEF LastMoveAgrees, Moves, Adds
  <2>4. PlaceAgrees(u)'
    BY <1>4, <1>5 DEF PlaceAgrees, Moves, Adds
  <2> QED
    BY <2>3, <2>4 DEF Followed
<1>6. CASE ~Moves(e, u)
  <2>1. TellsLater(u) => TellsLater(u)'
    BY <1>2, <1>6 DEF TellsLater, Moves, Adds
  <2>2. LastMoveAgrees(u) => LastMoveAgrees(u)'
    BY <1>2, <1>4, <1>6 DEF LastMoveAgrees, Moves, Adds, Allowed
  <2>3. PlaceAgrees(u) => PlaceAgrees(u)'
    BY <1>2, <1>4, <1>6 DEF PlaceAgrees, Moves, Adds, Allowed
  <2> QED
    BY <1>3, <2>1, <2>2, <2>3 DEF Followed
<1> QED
  BY <1>5, <1>6

LEMMA ObeyMoves ==
  ASSUME RoomsTypeOK, LiveInv, MovesInv, Obey
  PROVE  MovesInv'
<1> SUFFICES ASSUME Spaced', domain' # "deleted", NEW u \in Users, u \notin bypassed' PROVE Followed(u)'
  BY DEF MovesInv, RoomsTypeOK
<1> DEFINE o == Head(orders)
<1>1. /\ orders' = Tail(orders)
      /\ UNCHANGED <<domain, published, fresh, written, parked, handled, dcRole, conn>>
      /\ UNCHANGED <<hurried, overlapped, lost>>
      /\ u \notin bypassed /\ ~Overtakes(o, u)
  BY DEF Obey, dcVars, vars, delivery, worker
<1>2. Followed(u) /\ domain # "deleted"
  BY <1>1 DEF Spaced, MovesInv
<1>3. /\ o = orders[1] /\ 1 \in DOMAIN orders
      /\ \A i \in DOMAIN orders : i # 1 => i - 1 \in DOMAIN orders' /\ orders'[i - 1] = orders[i]
      /\ \A i \in DOMAIN orders' : i \in Nat /\ i >= 1 /\ i + 1 \in DOMAIN orders /\ orders'[i] = orders[i + 1]
  BY <1>1, TailOf DEF Obey, RoomsTypeOK
<1>4. o.kind # "DELETED"
  BY <1>2, <1>3 DEF LiveInv
<1>5. TellsLater(u) => TellsLater(u)'
  BY <1>1 DEF TellsLater, Moves, Adds
<1>6. ASSUME LastMoveAgrees(u)
      PROVE  LastMoveAgrees(u)'
  <2> SUFFICES ASSUME NEW i \in DOMAIN orders', Moves(orders'[i], u),
                      \A j \in DOMAIN orders' : j > i => ~Moves(orders'[j], u)
               PROVE  Adds(orders'[i]) <=> Allowed(u)
    BY <1>1 DEF LastMoveAgrees, Moves, Adds, Allowed
  <2>1. i \in Nat /\ i + 1 \in DOMAIN orders /\ orders'[i] = orders[i + 1]
    BY <1>3
  <2>2. ASSUME NEW j \in DOMAIN orders, j > i + 1
        PROVE  ~Moves(orders[j], u)
    <3>1. j # 1 /\ j \in Int
      BY <2>1, <2>2 DEF RoomsTypeOK
    <3>2. j - 1 > i
      BY <2>1, <2>2, <3>1
    <3> QED
      BY <1>3, <3>1, <3>2
  <2> QED
    BY <1>6, <2>1, <2>2 DEF LastMoveAgrees
<1>7. ASSUME LastMoveAgrees(u), PlaceAgrees(u)
      PROVE  PlaceAgrees(u)'
  <2> SUFFICES ASSUME \A i \in DOMAIN orders' : ~Moves(orders'[i], u)
               PROVE  /\ conn[u] = "on" => (u \in inRoom' <=> Allowed(u))
                      /\ conn[u] \in {"member", "stranger"} => (conn[u] = "member" <=> Allowed(u))
    BY <1>1 DEF PlaceAgrees, Moves, Adds, Allowed
  <2>1. \A i \in DOMAIN orders : i # 1 => ~Moves(orders[i], u)
    BY <1>3
  <2>2. inRoom' = CASE Adds(o) /\ conn[o.user] = "on" -> inRoom \cup {o.user}
                    [] o.kind = "REMOVED" -> inRoom \ {o.user}
                    [] o.kind = "DELETED" -> {}
                    [] OTHER -> inRoom
    BY DEF Obey
  <2>3. CASE Moves(o, u)
    <3>1. \A j \in DOMAIN orders : j > 1 => ~Moves(orders[j], u)
      BY <2>1
    <3>2. Adds(o) <=> Allowed(u)
      BY <1>3, <1>7, <2>3, <3>1 DEF LastMoveAgrees
    <3>3. o.user = u
      BY <2>3 DEF Moves
    <3>4. CASE Adds(o)
      BY <1>1, <2>2, <3>2, <3>3, <3>4 DEF Overtakes, Adds
    <3>5. CASE ~Adds(o)
      <4>1. o.kind = "REMOVED"
        BY <2>3, <3>5 DEF Moves
      <4>2. inRoom' = inRoom \ {u}
        BY <2>2, <3>3, <3>5, <4>1
      <4> QED
        BY <1>1, <3>2, <3>3, <3>5, <4>1, <4>2 DEF Overtakes
    <3> QED
      BY <3>4, <3>5
  <2>4. CASE ~Moves(o, u)
    <3>1. u \in inRoom' <=> u \in inRoom
      BY <1>4, <2>2, <2>4 DEF Moves
    <3>2. \A i \in DOMAIN orders : ~Moves(orders[i], u)
      BY <1>3, <2>1, <2>4
    <3> QED
      BY <1>7, <3>1, <3>2 DEF PlaceAgrees
  <2> QED
    BY <2>3, <2>4
<1> QED
  BY <1>2, <1>5, <1>6, <1>7 DEF Followed

LEMMA ServerMoves ==
  ASSUME RoomsTypeOK, MovesInv, NEW v \in Watchers,
         Connect(v) \/ ReadDomains(v) \/ JoinRooms(v) \/ Disconnect(v)
  PROVE  MovesInv'
<1> SUFFICES ASSUME Spaced', domain' # "deleted", NEW u \in Users, u \notin bypassed' PROVE Followed(u)'
  BY DEF MovesInv, RoomsTypeOK
<1>1. /\ UNCHANGED dcVars /\ UNCHANGED orders
      /\ UNCHANGED <<domain, published, fresh, written, parked, handled, dcRole, hurried, overlapped, lost>>
  BY DEF Connect, ReadDomains, JoinRooms, Disconnect, dcVars, vars, delivery, worker
<1>2. u \notin bypassed => Followed(u)
  BY <1>1 DEF MovesInv, Spaced
<1>3. /\ TellsLater(u) => TellsLater(u)'
      /\ LastMoveAgrees(u) => LastMoveAgrees(u)'
  BY <1>1 DEF TellsLater, LastMoveAgrees, Moves, Adds, Allowed
<1>4. conn \in [Users -> {"off", "reading", "member", "stranger", "on"}] /\ (u \in inRoom => conn[u] = "on")
  BY DEF RoomsTypeOK
<1>5. ASSUME u # v, u \notin bypassed
      PROVE  Followed(u)'
  <2>1. conn'[u] = conn[u] /\ (u \in inRoom' <=> u \in inRoom)
    BY <1>5 DEF Connect, ReadDomains, JoinRooms, Disconnect, Enters, RoomsTypeOK
  <2>2. PlaceAgrees(u) => PlaceAgrees(u)'
    BY <1>1, <2>1 DEF PlaceAgrees, Moves, Adds, Allowed
  <2> QED
    BY <1>2, <1>3, <1>5, <2>2 DEF Followed
<1>6. CASE Connect(v) \/ ReadDomains(v) \/ JoinRooms(v)
  <2>1. u \notin bypassed
    BY <1>6 DEF Connect, ReadDomains, JoinRooms
  <2>2. ASSUME u = v, PlaceAgrees(u)
        PROVE  PlaceAgrees(u)'
    <3>1. CASE Connect(u)
      <4>1. conn'[u] = "reading"
        BY <3>1 DEF Connect, Enters, RoomsTypeOK
      <4> QED
        BY <4>1 DEF PlaceAgrees
    <3>2. CASE ReadDomains(u)
      <4>1. conn'[u] = IF Allowed(u) THEN "member" ELSE "stranger"
        BY <3>2 DEF ReadDomains, Enters, RoomsTypeOK, Allowed
      <4> QED
        BY <1>1, <4>1 DEF PlaceAgrees, Allowed
    <3>3. CASE JoinRooms(u)
      <4>1. /\ conn'[u] = "on" /\ conn[u] \in {"member", "stranger"} /\ u \notin inRoom
            /\ u \in inRoom' <=> conn[u] = "member"
        BY <1>4, <3>3 DEF JoinRooms, Enters, RoomsTypeOK
      <4> QED
        BY <1>1, <2>2, <4>1 DEF PlaceAgrees, Moves, Adds, Allowed
    <3> QED
      BY <1>6, <2>2, <3>1, <3>2, <3>3
  <2> QED
    BY <1>2, <1>3, <1>5, <2>1, <2>2 DEF Followed
<1>7. CASE Disconnect(v)
  <2>1. CASE u # v
    BY <1>5, <1>7, <2>1 DEF Disconnect
  <2>2. CASE u = v
    <3>1. conn'[u] = "off"
      BY <1>7, <2>2 DEF Disconnect, Enters, RoomsTypeOK
    <3>2. PlaceAgrees(u)'
      BY <3>1 DEF PlaceAgrees
    <3>3. CASE u \in bypassed
      <4>1. ~Commanded(u)
        BY <1>7, <2>2, <3>3 DEF Disconnect
      <4>2. LastMoveAgrees(u)'
        BY <1>1, <4>1 DEF LastMoveAgrees, Commanded, Moves
      <4> QED
        BY <3>2, <4>2 DEF Followed
    <3>4. CASE u \notin bypassed
      BY <1>2, <1>3, <3>2, <3>4 DEF Followed
    <3> QED
      BY <3>3, <3>4
  <2> QED
    BY <2>1, <2>2
<1> QED
  BY <1>6, <1>7

\* While nothing fails the worker forgets nobody it has still to tell of.
LEMMA DeliverTells ==
  ASSUME DeliveryInv, DCCopyInv, Deliver, NEW u \in Users, TellsLater(u),
         faults' > faults => u \notin Untold
  PROVE  TellsLater(u)'
<1>1. UNCHANGED published /\ handled' = handled
  BY DEF Deliver, Fetch, Restart, Claim, HandlerFailed, Acknowledged, vars
<1>2. written \subseteq handled
  BY DEF DCCopyInv, HandledInv
<1>3. fresh \cup parked \subseteq fresh' \cup parked'
  BY DEF Deliver, Fetch, Restart, Claim, HandlerFailed, Acknowledged
<1>4. CASE faults' > faults
  <2>1. written \subseteq written' \cup parked'
    BY DEF Deliver, Fetch, Restart, Claim, HandlerFailed, Acknowledged
  <2>2. \A q \in written : Moves(published[q], u) => published[q].kind = "REMOVED" /\ published[q].user = u
    BY <1>4 DEF Moves, Untold
  <2> QED
    BY <1>1, <1>2, <1>3, <2>1, <2>2 DEF TellsLater, Moves, Adds
<1>5. CASE ~(faults' > faults)
  <2>1. written' = written
    BY <1>5 DEF Deliver, Fetch, Restart, Claim, HandlerFailed, Acknowledged, DeliveryInv, DeliveryTypeOK
  <2> QED
    BY <1>1, <1>3, <2>1 DEF TellsLater, Moves, Adds
<1> QED
  BY <1>4, <1>5

LEMMA HandleTells ==
  ASSUME TypeOK, DCInv, DCCopyInv, Spaced, Handle, NEW u \in Users
  PROVE  /\ TellsLater(u) => TellsLater(u)'
         /\ TellsLater(u)' \/ (Allowed(u)' <=> Allowed(u))
<1>1. UNCHANGED published
  BY HandlersAct, WorkerLeavesDomain DEF vars
<1>2. ASSUME NEW p \in fresh, Reject(p)
      PROVE  /\ TellsLater(u) => TellsLater(u)'
             /\ TellsLater(u)' \/ (Allowed(u)' <=> Allowed(u))
  <2>1. /\ written' = written /\ handled' = handled /\ dcRole' = dcRole
        /\ fresh' \cup parked' = fresh \cup parked
    BY <1>2 DEF Reject, HandlerRejected
  <2> QED
    BY <1>1, <2>1 DEF TellsLater, Allowed, Moves, Adds
<1>3. ASSUME NEW p \in fresh, Write(p)
      PROVE  /\ TellsLater(u) => TellsLater(u)'
             /\ TellsLater(u)' \/ (Allowed(u)' <=> Allowed(u))
  <2>1. /\ written' = written \cup {p} /\ handled' = handled \cup {p}
        /\ fresh' = fresh \ {p} /\ parked' = parked
        /\ dcRole' = Applied(published[p])
    BY <1>3 DEF Write, HandlerWrote
  <2>2. p \in Positions /\ published[p] \in Event /\ p \in Unsettled
    BY HeldEvents DEF DCInv
  <2>3. CASE Moves(published[p], u)
    BY <1>1, <2>1, <2>3 DEF TellsLater, Moves, Adds
  <2>4. CASE ~Moves(published[p], u)
    <3>1. TellsLater(u) => TellsLater(u)'
      BY <1>1, <2>1, <2>4 DEF TellsLater, Moves, Adds
    <3>2. dcRole'[u] = dcRole[u] \/ About(published[p], u)
      BY <1>3, WriteCopies DEF DCCopyInv
    <3>3. CASE About(published[p], u)
      <4>1. published[p].kind = "ROLE" /\ published[p].user = u
        BY <2>4, <3>3 DEF About, RoleKinds, Moves, Adds
      <4>2. dcRole' = Regraded(dcRole, u, published[p].role)
        BY <2>1, <4>1 DEF Applied, DomainUserRoleUpdated
      <4>3. published[p].role # NoRole
        BY <2>2, <4>1 DEF DCCopyInv, SpacedInv, Holds, RoleKinds, RoleIn
      <4>4. Allowed(u)' <=> Allowed(u)
        BY <4>2, <4>3 DEF Allowed, Regraded, DCInv, DCTypeOK
      <4> QED
        BY <3>1, <4>4
    <3> QED
      BY <3>1, <3>2, <3>3 DEF Allowed
  <2> QED
    BY <2>3, <2>4
<1> QED
  BY <1>2, <1>3 DEF Handle

LEMMA WorkMoves ==
  ASSUME TypeOK, DCInv, DCCopyInv, RoomsTypeOK, MovesInv, Work
  PROVE  MovesInv'
<1> SUFFICES ASSUME Spaced', domain' # "deleted", NEW u \in Users, u \notin bypassed' PROVE Followed(u)'
  BY DEF MovesInv
<1>1. WorkerActs /\ UNCHANGED <<domain, published, conn, inRoom, orders>> /\ Spaced' = Spaced
  BY HandlersAct, WorkerLeavesDomain, WorkerSettles DEF Work, rooms, vars, DCInv
<1>2. u \notin bypassed
  BY DEF Work, rooms
<1>3. Followed(u)
  BY <1>1, <1>2 DEF MovesInv
<1>4. /\ TellsLater(u) => TellsLater(u)'
      /\ TellsLater(u)' \/ (Allowed(u)' <=> Allowed(u))
  <2>1. CASE Deliver /\ bypassed' = IF faults' > faults THEN bypassed \cup Untold ELSE bypassed
    <3>1. faults' > faults => u \notin Untold
      BY <2>1
    <3>2. Allowed(u)' <=> Allowed(u)
      BY <2>1 DEF Deliver, Allowed
    <3> QED
      BY <2>1, <3>1, <3>2, DeliverTells DEF DCInv
  <2>2. CASE Handle
    BY <1>1, <2>2, HandleTells
  <2> QED
    BY <2>1, <2>2 DEF Work
<1>5. (Allowed(u)' <=> Allowed(u)) /\ LastMoveAgrees(u) => LastMoveAgrees(u)'
  BY <1>1 DEF LastMoveAgrees, Moves, Adds
<1>6. (Allowed(u)' <=> Allowed(u)) /\ PlaceAgrees(u) => PlaceAgrees(u)'
  BY <1>1 DEF PlaceAgrees, Moves, Adds
<1> QED
  BY <1>3, <1>4, <1>5, <1>6 DEF Followed

LEMMA DomainMoves ==
  ASSUME IInv, DCInv, DCCopyInv, MovesInv, DomainChanges, UNCHANGED rooms
  PROVE  MovesInv'
<1> SUFFICES ASSUME Spaced', domain' # "deleted", NEW u \in Users, u \notin bypassed' PROVE Followed(u)'
  BY DEF MovesInv
<1>1. PICK r \in Requests : RequestStep(r) /\ UNCHANGED delivery
  BY DEF DomainChanges, DomainStep
<1>2. UNCHANGED <<dcRole, fresh, written, parked, handled, conn, inRoom, orders, bypassed>>
  BY <1>1 DEF DomainChanges, rooms, delivery, worker
<1>3. Spaced /\ domain # "deleted"
  BY <1>1, StillSpaced, DomainStays DEF DomainChanges
<1>4. Followed(u)
  BY <1>2, <1>3 DEF MovesInv
<1>5. \A p \in Positions : published'[p] = published[p]
  <2>1. CASE Publish(r)
    BY <1>1, <2>1, PublishMoves DEF DCInv
  <2>2. CASE ~Publish(r)
    BY <1>1, <2>2 DEF RequestStep, Begin, Check1, Check2, CreateDomain, RenameDomain, AddUser, RemoveUser,
       SetRole, TransferOwnership, DeleteDomain, Committed, TransactionFails, PublishFails
  <2> QED
    BY <2>1, <2>2
<1>6. fresh \cup written \cup parked \subseteq Positions
  BY HeldEvents DEF IInv, DCInv
<1>7. TellsLater(u) => TellsLater(u)'
  BY <1>2, <1>5, <1>6 DEF TellsLater, Moves, Adds
<1>8. LastMoveAgrees(u) /\ PlaceAgrees(u) => LastMoveAgrees(u)' /\ PlaceAgrees(u)'
  BY <1>2 DEF LastMoveAgrees, PlaceAgrees, Moves, Adds, Allowed
<1> QED
  BY <1>4, <1>7, <1>8 DEF Followed

LEMMA StepMoves ==
  ASSUME IInv, DCInv, DCCopyInv, ListTypeOK, RoomsInv, [ListNext]_listVars
  PROVE  MovesInv'
<1> USE DEF ListTypeOK, RoomsInv
<1>1. CASE Change
  BY <1>1, DomainMoves DEF Change
<1>2. CASE Emit
  BY <1>2, ObeyMoves DEF Emit
<1>3. CASE \E p \in written : Tell(p)
  BY <1>3, TellMoves DEF IInv
<1>4. CASE Work
  BY <1>4, WorkMoves DEF IInv
<1>5. CASE \E u \in Watchers : Connect(u) \/ ReadDomains(u) \/ JoinRooms(u) \/ Break(u) \/ Expired(u)
  BY <1>5, ServerMoves DEF Break, Expired
<1>6. CASE (\E u \in Watchers : PageStep(u)) \/ UNCHANGED listVars
  <2>1. UNCHANGED <<dcVars, conn, inRoom, orders, bypassed>>
    BY <1>6 DEF PageStep, ViewDetails, Renew,
       HearJoined, HearLeft, HearDeleted, HearRoleUpdated, Hears, ReadList, ReadUsers, GetArrives, GetFails,
       Created, Left, Deleted, Takes, listVars, roomVars, rooms
  <2>2. UNCHANGED <<domain, published, fresh, written, parked, handled, dcRole, hurried, overlapped, lost>>
    BY <2>1 DEF dcVars, vars, delivery, worker
  <2>3. \A u \in Users : Followed(u) => Followed(u)'
    BY <2>1, <2>2 DEF Followed, TellsLater, LastMoveAgrees, PlaceAgrees, Moves, Adds, Allowed
  <2> QED
    BY <2>1, <2>2, <2>3 DEF MovesInv, Spaced
<1> QED
  BY <1>1, <1>2, <1>3, <1>4, <1>5, <1>6 DEF ListNext, ServeBus

LEMMA InitRoomsInv ==
  ASSUME ListInit
  PROVE  RoomsInv
<1>1. /\ published = <<>> /\ orders = <<>> /\ handled = {} /\ unsent = [r \in Requests |-> <<>>]
      /\ conn = [u \in Users |-> "off"]
  BY DEF ListInit, RoomsInit, DCInit, DeliveryInit, Init
<1>2. Positions = {} /\ \A r \in Requests : DOMAIN unsent[r] = {}
  BY <1>1 DEF Positions
<1>3. LiveInv /\ RehandledInv
  BY <1>1, <1>2 DEF LiveInv, RehandledInv
<1>4. \A u \in Users : Followed(u)
  BY <1>1 DEF Followed, LastMoveAgrees, PlaceAgrees
<1> QED
  BY <1>3, <1>4 DEF RoomsInv, MovesInv

\* While requests wait for one another's events, the last command on its way to the
\* server agrees with the copy of the roles, or the worker will send another, or
\* there is none and the socket is where the copy says, except for a socket that was
\* passed by; for any number of failures, of restarts and of disconnections.
THEOREM RoomsInvariant == ListSpec => []RoomsInv
<1>1. IInv /\ DCInv /\ DCCopyInv /\ ListTypeOK /\ RoomsInv /\ [ListNext]_listVars => RoomsInv'
  <2> SUFFICES ASSUME IInv, DCInv, DCCopyInv, ListTypeOK, RoomsInv, [ListNext]_listVars
               PROVE  RoomsInv'
    OBVIOUS
  <2>1. LiveInv'
    BY StepLive DEF RoomsInv
  <2>2. RehandledInv'
    BY ListStepIsStep, StepRehandled DEF RoomsInv
  <2> QED
    BY <2>1, <2>2, StepMoves DEF RoomsInv
<1>2. ListInit => RoomsInv
  BY InitRoomsInv
<1> QED
  BY <1>1, <1>2, ListTypeCorrect, CopyInvariant, ReplicaInvariant, ListImplementsReplica,
     ReplicaImplementsDomain, InductiveInvariant, PTL DEF ListSpec

\* The room of a domain holds the sockets of those who have a role in it and no other
\* once every event is handled and every command obeyed, but for the exceptions the
\* property names, for any sets of users, of requests and of sockets.
THEOREM RoomsFollowRolesAlways == ListSpec => []RoomsFollowRoles
<1>1. RoomsInv => RoomsFollowRoles
  <2> SUFFICES ASSUME RoomsInv, Spaced, AllTold, domain = "live",
                      NEW u \in Watchers, u \notin bypassed, conn[u] = "on"
               PROVE  u \in inRoom <=> dcRole[u] # NoRole
    BY DEF RoomsFollowRoles
  <2>1. u \in Users /\ Followed(u)
    BY RoomsAssumption DEF RoomsInv, MovesInv
  <2>2. /\ fresh \cup written = {} /\ orders = <<>>
        /\ \A p \in parked : Adds(published[p])
    BY DEF AllTold, AllHandled
  <2>3. ~TellsLater(u)
    BY <2>2 DEF TellsLater, Adds
  <2>4. \A i \in DOMAIN orders : ~Moves(orders[i], u)
    BY <2>2
  <2> QED
    BY <2>1, <2>3, <2>4 DEF Followed, PlaceAgrees, Allowed
<1> QED
  BY <1>1, RoomsInvariant, PTL

-----------------------------------------------------------------------------
(* The list of domains on a page *)

LEMMA ListedIs ==
  ASSUME NEW u, NEW g \in Get
  PROVE  /\ g.why = "list" => Listed(u, g) = g.found
         /\ g.why = "joined" => Listed(u, g) = IF g.found = NoRole THEN shown[u] ELSE g.found
         /\ g.why = "users" => Listed(u, g) = Merged(u)
         /\ g.why \in {"list", "joined", "users"}
<1>1. CASE g.why = "list"
  BY <1>1 DEF Listed
<1>2. CASE g.why = "joined"
  BY <1>2 DEF Listed
<1>3. CASE g.why = "users"
  BY <1>3 DEF Listed
<1> QED
  BY <1>1, <1>2, <1>3 DEF Get

\* What a step that concerns neither the server nor a user's page leaves as it was.
LEMMA SameServer ==
  ASSUME UNCHANGED <<dcVars, orders, formerly>>, NEW u \in Users, inbox'[u] = inbox[u]
  PROVE  /\ Present(u)' <=> Present(u)
         /\ Corrected(u)' <=> Corrected(u)
         /\ \A e : Comes(e, u)' <=> Comes(e, u)
         /\ \A entry : Rated(u, entry)' <=> Rated(u, entry)
<1>1. UNCHANGED <<domain, members, role, published, unsent, fresh, written, parked, handled>>
  BY DEF dcVars, vars, delivery, worker
<1>2. Untried' = Untried
  BY <1>1 DEF Untried, Positions, Kind, Adds
<1>3. \A e : Waits(e)' <=> Waits(e)
  BY <1>1, <1>2 DEF Waits
<1>4. \A e : Comes(e, u)' <=> Comes(e, u)
  BY <1>3 DEF Comes
<1>5. Corrected(u)' <=> Corrected(u)
  BY <1>1, <1>3 DEF Corrected, Denies, Corrects, Withdraws, Grades, Brings, Adds
<1>6. \A entry : Rated(u, entry)' <=> Rated(u, entry)
  BY <1>1, <1>4 DEF Rated, Grades
<1>7. Present(u)' <=> Present(u)
  BY <1>1 DEF Present
<1> QED
  BY <1>4, <1>5, <1>6, <1>7

LEMMA SamePage ==
  ASSUME UNCHANGED <<dcVars, orders, formerly>>, NEW u \in Users,
         inbox'[u] = inbox[u], shown'[u] = shown[u], gets'[u] = gets[u], answers'[u] = answers[u]
  PROVE  Faithful(u)' <=> Faithful(u)
<1>1. /\ Present(u)' <=> Present(u)
      /\ Corrected(u)' <=> Corrected(u)
      /\ \A e : Comes(e, u)' <=> Comes(e, u)
      /\ \A entry : Rated(u, entry)' <=> Rated(u, entry)
  BY SameServer
<1>2. Fetched(u)' = Fetched(u)
  BY DEF Fetched, Read
<1>3. \A g \in Get : Listed(u, g)' = Listed(u, g)
  <2> SUFFICES ASSUME NEW g \in Get PROVE Listed(u, g)' = Listed(u, g)
    OBVIOUS
  <2>1. CASE g.why = "list"
    BY <2>1 DEF Listed
  <2>2. CASE g.why = "joined"
    BY <2>2 DEF Listed
  <2>3. CASE g.why = "users"
    BY <2>3 DEF Listed, Merged
  <2> QED
    BY <2>1, <2>2, <2>3 DEF Get
<1>4. Lists(u)' <=> Lists(u)
  BY <1>1, <1>2, <1>3 DEF Lists, Brings, Adds, Asking
<1>5. Omits(u)' <=> Omits(u)
  BY <1>1, <1>2, <1>3 DEF Omits, Withdraws, Asking
<1> QED
  BY <1>1, <1>4, <1>5 DEF Faithful

\* The page asks for something more.
LEMMA AskFaithful ==
  ASSUME ListTypeOK, NEW u \in Users, Faithful(u), UNCHANGED <<dcVars, orders, formerly>>,
         shown'[u] = shown[u], answers'[u] = answers[u], inbox'[u] = inbox[u],
         NEW why \in {"list", "joined", "users"}, gets'[u] = gets[u] \cup {Asking(why)}
  PROVE  Faithful(u)'
<1>1. /\ Present(u)' <=> Present(u)
      /\ Corrected(u)' <=> Corrected(u)
      /\ \A e : Comes(e, u)' <=> Comes(e, u)
      /\ \A entry : Rated(u, entry)' <=> Rated(u, entry)
  BY SameServer
<1>2. Asking(why).found = Unasked
  BY DEF Asking
<1>3. Fetched(u)' = Fetched(u)
  BY <1>2 DEF Fetched, Read
<1>4. \A g \in Get : Listed(u, g)' = Listed(u, g)
  <2> SUFFICES ASSUME NEW g \in Get PROVE Listed(u, g)' = Listed(u, g)
    OBVIOUS
  <2>1. CASE g.why = "list"
    BY <2>1 DEF Listed
  <2>2. CASE g.why = "joined"
    BY <2>2 DEF Listed
  <2>3. CASE g.why = "users"
    BY <2>3 DEF Listed, Merged
  <2> QED
    BY <2>1, <2>2, <2>3 DEF Get
<1>5. Lists(u) => Lists(u)'
  BY <1>1, <1>3, <1>4 DEF Lists, Brings, Adds, Asking
<1>6. Omits(u) => Omits(u)'
  BY <1>1, <1>3, <1>4 DEF Omits, Withdraws, Asking
<1> QED
  BY <1>1, <1>5, <1>6 DEF Faithful

\* A list, or an entry, is read from the tables.
LEMMA ReadListFaithful ==
  ASSUME TypeOK, MembershipMatchesRole, ListTypeOK, LiveInv, NEW u \in Watchers, NEW g \in gets[u],
         ReadList(u, g), u \notin outdated => Faithful(u), u \notin outdated'
  PROVE  Faithful(u)'
<1>1. u \in Users /\ UNCHANGED <<dcVars, orders, formerly, shown, answers, inbox>>
  BY RoomsAssumption DEF ReadList, roomVars, rooms
<1>2. /\ Present(u)' <=> Present(u)
      /\ Corrected(u)' <=> Corrected(u)
      /\ \A e : Comes(e, u)' <=> Comes(e, u)
      /\ \A entry : Rated(u, entry)' <=> Rated(u, entry)
  BY <1>1, SameServer
<1>3. g \in Get /\ g.found = Unasked /\ g.why \in {"list", "joined"}
  BY <1>1 DEF ReadList, ListTypeOK, Get
<1>4. PICK found \in (IF Present(u) THEN RolesInRows(u) ELSE {NoRole}) :
        gets' = [gets EXCEPT ![u] = (@ \ {g}) \cup {[g EXCEPT !.found = found]}]
  BY DEF ReadList, Present
<1> DEFINE h == [why |-> g.why, found |-> found]
<1>5. [g EXCEPT !.found = found] = h
  BY <1>3 DEF Get
<1>6. gets'[u] = (gets[u] \ {g}) \cup {h}
  BY <1>1, <1>4, <1>5 DEF ListTypeOK
<1>7. Present(u) => role[u] \in Roles /\ found # NoRole /\ found \in {role[u]} \cup formerly[u] /\ found \in Roles
  BY <1>1, <1>4 DEF Present, MembershipMatchesRole, TypeOK, RolesInRows, ListTypeOK, Roles, NoRole
<1>8. ~Present(u) => found = NoRole
  BY <1>4
<1>9. h \in Get /\ h.found # Unasked /\ h.why # "users"
  BY <1>3, <1>7, <1>8, ListAssumption DEF Get, Shown
<1>10. Fetched(u)' = Fetched(u) \cup {h}
  BY <1>3, <1>6, <1>9 DEF Fetched, Read
<1>11. \A k \in Get : Listed(u, k)' = Listed(u, k)
  BY <1>1, ListedIs DEF Listed, Merged, Get
<1>12. \A why : why # g.why => (Asking(why) \in gets[u] => Asking(why) \in gets'[u])
  BY <1>6 DEF Asking
<1>13. g = Asking(g.why)
  BY <1>3 DEF Get, Asking
<1>14. CASE g.why = "list"
  <2>1. Listed(u, h) = found
    BY <1>9, <1>14, ListedIs
  <2>2. ASSUME NEW k \in Get, Fetched(u)' = {k}
        PROVE  k = h
    BY <1>10, <2>2
  <2>3. CASE Present(u)
    <3>1. Corrected(u)
      <4>1. CASE u \notin outdated
        BY <2>3, <4>1 DEF Faithful
      <4>2. CASE u \in outdated
        <5>1. ~Commanded(u) /\ inbox[u] = <<>>
          BY <4>2 DEF ReadList, Underway
        <5>2. \A i \in DOMAIN orders : orders[i].user # u /\ orders[i].kind # "DELETED"
          BY <2>3, <5>1 DEF Commanded, Present, LiveInv
        <5> QED
          BY <5>1, <5>2 DEF Corrected, Denies, Withdraws, Grades
      <4> QED
        BY <4>1, <4>2
    <3>2. Rated(u, found)
      BY <1>7, <2>3 DEF Rated
    <3>3. Lists(u)'
      BY <1>2, <1>7, <1>10, <1>11, <2>1, <2>2, <2>3, <3>2 DEF Lists
    <3> QED
      BY <1>2, <2>3, <3>1, <3>3 DEF Faithful
  <2>4. CASE ~Present(u)
    <3>1. Omits(u)'
      BY <1>8, <1>10, <1>11, <2>1, <2>2, <2>4 DEF Omits
    <3> QED
      BY <1>2, <2>4, <3>1 DEF Faithful
  <2> QED
    BY <2>3, <2>4
<1>15. CASE g.why = "joined"
  <2>1. Faithful(u)
    BY <1>15 DEF ReadList
  <2>2. Listed(u, h) = IF found = NoRole THEN shown[u] ELSE found
    BY <1>9, <1>15, ListedIs
  <2>3. Asking("list") \in gets[u] => Asking("list") \in gets'[u]
    BY <1>12, <1>15
  <2>4. ASSUME NEW k \in Get, Fetched(u)' = {k}
        PROVE  k = h /\ (Fetched(u) = {} \/ Fetched(u) = {h})
    BY <1>10, <2>4
  <2>5. CASE Present(u)
    <3>1. Rated(u, found) /\ found # NoRole
      BY <1>7, <2>5 DEF Rated
    <3>2. Lists(u)
      BY <2>1, <2>5 DEF Faithful
    <3>3. Listed(u, h)' = found
      BY <1>9, <1>11, <2>2, <3>1
    <3>4. Fetched(u)' # {} /\ \A k \in Get : Fetched(u)' = {k} => Listed(u, k)' # NoRole /\ Rated(u, Listed(u, k))'
      BY <1>2, <1>10, <2>4, <3>1, <3>3
    <3>5. Lists(u)'
      BY <3>4 DEF Lists
    <3> QED
      BY <1>2, <2>1, <2>5, <3>5 DEF Faithful
  <2>6. CASE ~Present(u)
    <3>1. Omits(u) /\ found = NoRole
      BY <1>8, <2>1, <2>6 DEF Faithful
    <3>2. Fetched(u)' # {}
      BY <1>10
    <3>3. CASE \/ Asking("list") \in gets[u]
               \/ \E e \in Event : Comes(e, u) /\ Withdraws(e, u)
      <4>1. Omits(u)'
        BY <1>2, <2>3, <3>3 DEF Omits, Withdraws
      <4> QED
        BY <1>2, <2>6, <4>1 DEF Faithful
    <3>4. CASE /\ \A k \in Get : Fetched(u) = {k} => Listed(u, k) = NoRole
               /\ Fetched(u) = {} => shown[u] = NoRole
      <4>1. \A k \in Get : Fetched(u)' = {k} => Listed(u, k)' = NoRole
        BY <1>9, <1>11, <2>2, <2>4, <3>1, <3>4
      <4>2. Omits(u)'
        BY <3>2, <4>1 DEF Omits
      <4> QED
        BY <1>2, <2>6, <4>2 DEF Faithful
    <3> QED
      BY <3>1, <3>3, <3>4 DEF Omits
  <2> QED
    BY <2>5, <2>6
<1> QED
  BY <1>3, <1>14, <1>15

\* Something that is no list leaves the page's requests.
LEMMA DropFaithful ==
  ASSUME ListTypeOK, NEW u \in Users, Faithful(u), UNCHANGED <<dcVars, orders, formerly>>,
         shown'[u] = shown[u], answers'[u] = answers[u], inbox'[u] = inbox[u],
         Fetched(u)' = Fetched(u),
         \A why \in {"list", "joined"} : Asking(why) \in gets[u] => Asking(why) \in gets'[u]
  PROVE  Faithful(u)'
<1>1. /\ Present(u)' <=> Present(u)
      /\ Corrected(u)' <=> Corrected(u)
      /\ \A e : Comes(e, u)' <=> Comes(e, u)
      /\ \A entry : Rated(u, entry)' <=> Rated(u, entry)
  BY SameServer
<1>2. \A k \in Get : Listed(u, k)' = Listed(u, k)
  BY ListedIs DEF Listed, Merged, Get
<1>3. Lists(u) => Lists(u)'
  BY <1>1, <1>2 DEF Lists, Brings, Adds, Asking
<1>4. Omits(u) => Omits(u)'
  BY <1>1, <1>2 DEF Omits, Withdraws, Asking
<1> QED
  BY <1>1, <1>3, <1>4 DEF Faithful

LEMMA UsersFaithful ==
  ASSUME ListTypeOK, NEW u \in Watchers, Faithful(u), NEW g \in gets[u],
         ReadUsers(u, g) \/ (GetFails(u, g) /\ u \notin outdated')
  PROVE  Faithful(u)'
<1>1. u \in Users /\ UNCHANGED <<dcVars, orders, formerly, shown, answers, inbox>>
  BY RoomsAssumption DEF ReadUsers, GetFails, roomVars, rooms
<1>2. g.why = "users"
  BY <1>1 DEF ReadUsers, GetFails, ListTypeOK
<1>3. g \in Get
  BY <1>1 DEF ListTypeOK
<1>4. [g EXCEPT !.found = Unstated].why = "users"
  BY <1>2, <1>3 DEF Get
<1>5. gets'[u] \in {gets[u] \ {g}, (gets[u] \ {g}) \cup {[g EXCEPT !.found = Unstated]}}
  BY <1>1 DEF ReadUsers, GetFails, ListTypeOK
<1>6. Fetched(u)' = Fetched(u)
  BY <1>2, <1>4, <1>5 DEF Fetched, Read
<1>7. \A why \in {"list", "joined"} : Asking(why) \in gets[u] => Asking(why) \in gets'[u]
  BY <1>2, <1>5 DEF Asking
<1> QED
  BY <1>1, <1>6, <1>7, DropFaithful

\* An answer arrives, and it is the only one.
LEMMA ArrivesFaithful ==
  ASSUME ListTypeOK, NEW u \in Watchers, Faithful(u), NEW g \in gets[u], GetArrives(u, g),
         u \notin outdated'
  PROVE  Faithful(u)'
<1>1. u \in Users /\ UNCHANGED <<dcVars, orders, formerly, answers, inbox>>
  BY RoomsAssumption DEF GetArrives, roomVars, rooms
<1>2. /\ Present(u)' <=> Present(u)
      /\ Corrected(u)' <=> Corrected(u)
      /\ \A e : Comes(e, u)' <=> Comes(e, u)
      /\ \A entry : Rated(u, entry)' <=> Rated(u, entry)
  BY <1>1, SameServer
<1>3. g \in Get /\ g.found # Unasked
  BY <1>1 DEF GetArrives, ListTypeOK
<1>4. Read(u) = {g} /\ answers[u] = {} /\ (g.why = "users" => shown[u] # NoRole)
  BY DEF GetArrives
<1>5. gets'[u] = gets[u] \ {g} /\ shown'[u] = Listed(u, g)
  BY <1>1 DEF GetArrives, Show, ListTypeOK
<1>6. Fetched(u)' = {} /\ answers'[u] = {}
  BY <1>1, <1>4, <1>5 DEF Fetched, Read
<1>7. \A why : Asking(why) \in gets[u] => Asking(why) \in gets'[u]
  BY <1>3, <1>5 DEF Asking
<1>8. CASE g.why = "users"
  <2>1. shown'[u] = shown[u] /\ Fetched(u) = {}
    BY <1>3, <1>4, <1>5, <1>8, ListedIs DEF Merged, Fetched
  <2> QED
    BY <1>1, <1>6, <1>7, <2>1, DropFaithful
<1>9. CASE g.why # "users"
  <2>1. Fetched(u) = {g}
    BY <1>4, <1>9 DEF Fetched
  <2>2. Lists(u) => Lists(u)'
    BY <1>2, <1>3, <1>5, <1>6, <1>7, <2>1 DEF Lists, Brings, Adds, Asking
  <2>3. Omits(u) => Omits(u)'
    BY <1>2, <1>3, <1>5, <1>6, <1>7, <2>1 DEF Omits, Withdraws, Asking
  <2> QED
    BY <1>2, <2>2, <2>3 DEF Faithful
<1> QED
  BY <1>8, <1>9

\* The answer to one of its own changes arrives: the event of it is still to come.
LEMMA TakesFaithful ==
  ASSUME ListTypeOK, NEW u \in Watchers, Faithful(u), NEW op, Takes(u, op), u \notin outdated'
  PROVE  Faithful(u)'
<1>1. u \in Users /\ UNCHANGED <<dcVars, orders, formerly, gets, inbox>>
  BY RoomsAssumption DEF Takes, roomVars, rooms
<1>2. /\ Present(u)' <=> Present(u)
      /\ Corrected(u)' <=> Corrected(u)
      /\ \A e : Comes(e, u)' <=> Comes(e, u)
      /\ \A entry : Rated(u, entry)' <=> Rated(u, entry)
  BY <1>1, SameServer
<1>3. Read(u) = {} /\ answers[u] # {}
  BY DEF Takes
<1>4. Fetched(u) = {}
  BY <1>3 DEF Fetched
<1>5. Lists(u) => Lists(u)'
  BY <1>1, <1>2, <1>3, <1>4 DEF Lists, Brings, Adds, Asking
<1>6. Omits(u) => Omits(u)'
  BY <1>1, <1>2, <1>3, <1>4 DEF Omits, Withdraws, Asking
<1> QED
  BY <1>2, <1>5, <1>6 DEF Faithful

\* The socket hands over a message and no answer is on its way.
LEMMA HearsFaithful ==
  ASSUME ListTypeOK, InboxInv, NEW u \in Watchers, Faithful(u), u \notin outdated',
         HearJoined(u) \/ HearLeft(u) \/ HearDeleted(u) \/ HearRoleUpdated(u)
  PROVE  Faithful(u)'
<1> DEFINE h == Head(inbox[u])
           q == inbox[u]
<1>1. u \in Users /\ UNCHANGED <<dcVars, orders, formerly, answers>>
  BY RoomsAssumption DEF HearJoined, HearLeft, HearDeleted, HearRoleUpdated, Hears, roomVars, rooms
<1>2. q \in Seq(Event) /\ q # <<>> /\ inbox'[u] = Tail(q)
  BY <1>1 DEF HearJoined, HearLeft, HearDeleted, HearRoleUpdated, Hears, ListTypeOK
<1>3. /\ h = q[1] /\ h \in Event /\ 1 \in DOMAIN q
      /\ \A i \in DOMAIN q : i # 1 => i - 1 \in DOMAIN inbox'[u] /\ inbox'[u][i - 1] = q[i]
      /\ \A i \in DOMAIN inbox'[u] : i \in Nat /\ i >= 1 /\ i + 1 \in DOMAIN q /\ inbox'[u][i] = q[i + 1]
  BY <1>2, TailOf
<1>4. \A i \in DOMAIN q : i \in Nat /\ i >= 1
  BY <1>2
<1>5. answers[u] = {} /\ Read(u) = {} /\ Fetched(u) = {}
  BY DEF HearJoined, HearLeft, HearDeleted, HearRoleUpdated, Hears, Answered, Fetched
<1>6. UNCHANGED <<domain, members, role, published, unsent, fresh, written, parked, handled>>
  BY <1>1 DEF dcVars, vars, delivery, worker
<1>7. Untried' = Untried
  BY <1>6 DEF Untried, Positions, Kind, Adds
<1>8. (Present(u)' <=> Present(u)) /\ \A e : Waits(e)' <=> Waits(e)
  BY <1>6, <1>7 DEF Waits, Present
<1>9. \A e : Comes(e, u) => Comes(e, u)' \/ e = h
  BY <1>1, <1>3, <1>8 DEF Comes
<1>10. /\ gets'[u] \in {gets[u], gets[u] \cup {Asking("joined")}}
       /\ Adds(h) => Asking("joined") \in gets'[u] /\ shown'[u] = shown[u]
       /\ h.kind \in {"REMOVED", "DELETED"} => shown'[u] = NoRole
       /\ h.kind = "ROLE" => shown'[u] = IF shown[u] = NoRole THEN NoRole ELSE h.role
       /\ h.kind \in {"CREATED", "ADDED", "REMOVED", "DELETED", "ROLE"}
  BY <1>1 DEF HearJoined, HearLeft, HearDeleted, HearRoleUpdated, Hears, Adds, Show, ListTypeOK
<1>11. Fetched(u)' = {} /\ answers'[u] = {} /\ (Asking("list") \in gets[u] => Asking("list") \in gets'[u])
  BY <1>1, <1>5, <1>10 DEF Fetched, Read, Asking
<1>12. CASE Present(u)
  <2>1. Corrected(u) /\ Lists(u)
    BY <1>12 DEF Faithful
  <2>2. Corrected(u)'
    <3>1. ASSUME NEW i \in DOMAIN inbox'[u], Denies(inbox'[u][i], u)
          PROVE  \/ \E f \in Event : Waits(f) /\ Corrects(f, inbox'[u][i], u)
                 \/ \E j \in DOMAIN orders : Corrects(orders[j], inbox'[u][i], u)
                 \/ \E j \in DOMAIN inbox'[u] : j > i /\ Corrects(inbox'[u][j], inbox'[u][i], u)
      <4>1. i \in Nat /\ i >= 1 /\ i + 1 \in DOMAIN q /\ inbox'[u][i] = q[i + 1]
        BY <1>3
      <4>2. ASSUME NEW j \in DOMAIN q, j > i + 1
            PROVE  j - 1 \in DOMAIN inbox'[u] /\ j - 1 > i /\ inbox'[u][j - 1] = q[j]
        BY <1>3, <1>4, <4>1, <4>2
      <4> QED
        BY <2>1, <3>1, <4>1, <4>2 DEF Corrected
    <3> QED
      BY <1>1, <1>6, <1>8, <2>1, <3>1 DEF Corrected, Denies, Corrects, Withdraws, Grades, Brings, Adds
  <2>3. CASE Asking("list") \in gets[u]
    BY <1>8, <1>11, <1>12, <2>2, <2>3 DEF Faithful, Lists
  <2>4. CASE Adds(h)
    BY <1>8, <1>10, <1>11, <1>12, <2>2, <2>4 DEF Faithful, Lists
  <2>5. ASSUME NEW e \in Event, Comes(e, u), Brings(e, u), ~Adds(h)
        PROVE  Faithful(u)'
    <3>1. Comes(e, u)' /\ Brings(e, u)'
      BY <1>9, <2>5 DEF Brings, Adds
    <3> QED
      BY <1>8, <1>12, <2>2, <3>1 DEF Faithful, Lists
  <2>6. ASSUME ~Adds(h), Denies(h, u)
        PROVE  \E f \in Event : Comes(f, u)' /\ Corrects(f, h, u)
    <3>1. CASE \E f \in Event : Waits(f) /\ Corrects(f, h, u)
      BY <1>8, <3>1 DEF Comes
    <3>2. CASE \E j \in DOMAIN orders : Corrects(orders[j], h, u)
      BY <1>1, <3>2 DEF Comes, ListTypeOK, RoomsTypeOK
    <3>3. ASSUME NEW j \in DOMAIN q, j > 1, Corrects(q[j], h, u)
          PROVE  \E f \in Event : Comes(f, u)' /\ Corrects(f, h, u)
      <4>1. q[j] \in Event /\ j - 1 \in DOMAIN inbox'[u] /\ inbox'[u][j - 1] = q[j]
        BY <1>2, <1>3, <3>3
      <4> QED
        BY <3>3, <4>1 DEF Comes
    <3> QED
      BY <1>3, <2>1, <2>6, <3>1, <3>2, <3>3 DEF Corrected
  <2>7. ASSUME ~Adds(h), NEW f \in Event, Comes(f, u)', Brings(f, u)
        PROVE  Faithful(u)'
    BY <1>8, <1>12, <2>2, <2>7 DEF Faithful, Lists, Brings, Adds
  <2>8. CASE Withdraws(h, u)
    <3>1. ~Adds(h) /\ ~Grades(h, u)
      BY <2>8 DEF Withdraws, Adds, Grades
    <3> QED
      BY <2>6, <2>7, <2>8, <3>1 DEF Denies, Corrects
  <2>9. CASE h.kind = "ROLE" /\ Grades(h, u)
    <3>1. ~Adds(h) /\ h.role # NoRole /\ h.role \in Roles
      BY <1>3, <2>9 DEF Adds, Event, Roles, NoRole
    <3> SUFFICES ASSUME Asking("list") \notin gets[u],
                        ~\E e \in Event : Comes(e, u) /\ Brings(e, u)
                 PROVE  Faithful(u)'
      BY <2>3, <2>5, <3>1
    <3>2. Asking("joined") \in gets[u] \/ shown[u] # NoRole
      BY <1>5, <2>1 DEF Lists
    <3>3. CASE Asking("joined") \in gets[u]
      BY <1>8, <1>10, <1>11, <1>12, <2>2, <3>3 DEF Faithful, Lists
    <3>4. CASE shown[u] # NoRole
      <4>1. shown'[u] = h.role
        BY <1>10, <2>9, <3>4
      <4>2. CASE h.role = role[u]
        <5>1. Rated(u, shown[u])'
          BY <1>6, <4>1, <4>2 DEF Rated
        <5> QED
          BY <1>8, <1>11, <1>12, <2>2, <3>1, <4>1, <5>1 DEF Faithful, Lists
      <4>3. CASE h.role # role[u]
        <5>1. PICK f \in Event : Comes(f, u)' /\ Corrects(f, h, u)
          BY <2>6, <2>9, <3>1, <4>3 DEF Denies
        <5>2. CASE Brings(f, u)
          BY <2>7, <3>1, <5>1, <5>2
        <5>3. CASE Grades(f, u)
          <6>1. Rated(u, shown[u])'
            BY <5>1, <5>3 DEF Rated, Grades
          <6> QED
            BY <1>8, <1>11, <1>12, <2>2, <3>1, <4>1, <6>1 DEF Faithful, Lists
        <5> QED
          BY <5>1, <5>2, <5>3 DEF Corrects
      <4> QED
        BY <4>2, <4>3
    <3> QED
      BY <3>2, <3>3, <3>4
  <2> QED
    BY <1>1, <1>3, <1>10, <2>4, <2>8, <2>9 DEF Withdraws, Grades, Adds, InboxInv
<1>13. CASE ~Present(u)
  <2>1. Omits(u)
    BY <1>13 DEF Faithful
  <2>2. CASE Asking("list") \in gets[u]
    BY <1>8, <1>11, <1>13, <2>2 DEF Faithful, Omits
  <2>3. CASE h.kind \in {"REMOVED", "DELETED"}
    BY <1>8, <1>10, <1>11, <1>13, <2>3 DEF Faithful, Omits
  <2>4. ASSUME h.kind \notin {"REMOVED", "DELETED"}, NEW e \in Event, Comes(e, u), Withdraws(e, u)
        PROVE  Faithful(u)'
    <3>1. Comes(e, u)'
      BY <1>9, <2>4 DEF Withdraws
    <3> QED
      BY <1>8, <1>13, <2>4, <3>1 DEF Faithful, Omits, Withdraws
  <2>5. ASSUME h.kind \notin {"REMOVED", "DELETED"}, shown[u] = NoRole
        PROVE  Faithful(u)'
    <3>1. shown'[u] = NoRole
      BY <1>10, <2>5 DEF Adds
    <3> QED
      BY <1>8, <1>11, <1>13, <3>1 DEF Faithful, Omits
  <2> QED
    BY <1>5, <2>1, <2>2, <2>3, <2>4, <2>5 DEF Omits
<1> QED
  BY <1>12, <1>13

\* A command passes from the server to the page, or nobody is there to be told.
LEMMA EmitFaithful ==
  ASSUME ListTypeOK, InboxInv, LiveInv, NEW u \in Watchers, Faithful(u), Emit, u \notin outdated'
  PROVE  Faithful(u)'
<1> DEFINE h == Head(orders)
           q == inbox[u]
<1>1. u \in Users /\ UNCHANGED <<dcVars, formerly, answers, gets, shown, conn>>
  BY RoomsAssumption DEF Emit, Obey
<1>2. /\ orders \in Seq(Event) /\ orders # <<>> /\ orders' = Tail(orders) /\ q \in Seq(Event)
  BY <1>1 DEF Emit, Obey, ListTypeOK, RoomsTypeOK
<1>3. /\ h = orders[1] /\ h \in Event /\ 1 \in DOMAIN orders
      /\ \A i \in DOMAIN orders : i # 1 => i - 1 \in DOMAIN orders' /\ orders'[i - 1] = orders[i]
      /\ \A i \in DOMAIN orders' : i \in Nat /\ i >= 1 /\ i + 1 \in DOMAIN orders /\ orders'[i] = orders[i + 1]
  BY <1>2, TailOf
<1>4. \A i \in DOMAIN orders : i \in Nat /\ i >= 1
  BY <1>2
<1>5. inbox'[u] = IF Reaches(h, u) THEN Append(q, h) ELSE q
  BY <1>1 DEF Emit, Deliveries
<1>6. UNCHANGED <<domain, members, role, published, unsent, fresh, written, parked, handled>>
  BY <1>1 DEF dcVars, vars, delivery, worker
<1>7. Untried' = Untried
  BY <1>6 DEF Untried, Positions, Kind, Adds
<1>8. (Present(u)' <=> Present(u)) /\ \A e : Waits(e)' <=> Waits(e)
  BY <1>6, <1>7 DEF Waits, Present
<1>9. Fetched(u)' = Fetched(u) /\ \A k \in Get : Listed(u, k)' = Listed(u, k)
  BY <1>1, ListedIs DEF Fetched, Read, Listed, Merged, Get
<1>10. ASSUME NEW i \in DOMAIN orders', Corrected(u), Denies(orders'[i], u)
       PROVE  \/ \E f \in Event : Waits(f) /\ Corrects(f, orders'[i], u)
              \/ \E j \in DOMAIN orders' : j > i /\ Corrects(orders'[j], orders'[i], u)
  <2>1. i \in Nat /\ i >= 1 /\ i + 1 \in DOMAIN orders /\ orders'[i] = orders[i + 1]
    BY <1>3
  <2>2. ASSUME NEW j \in DOMAIN orders, j > i + 1
        PROVE  j - 1 \in DOMAIN orders' /\ j - 1 > i /\ orders'[j - 1] = orders[j]
    BY <1>3, <1>4, <2>1, <2>2
  <2> QED
    BY <1>10, <2>1, <2>2 DEF Corrected
<1>11. ASSUME NEW e, Denies(e, u), \E j \in DOMAIN orders : j > 1 /\ Corrects(orders[j], e, u)
       PROVE  \E j \in DOMAIN orders' : Corrects(orders'[j], e, u)
  BY <1>3, <1>11
<1>12. CASE Reaches(h, u)
  <2>1. /\ DOMAIN inbox'[u] = DOMAIN q \cup {Len(q) + 1}
        /\ inbox'[u][Len(q) + 1] = h /\ Len(q) \in Nat
        /\ \A i \in DOMAIN q : i \in Nat /\ i < Len(q) + 1 /\ inbox'[u][i] = q[i]
    BY <1>2, <1>3, <1>5, <1>12, AppendTo
  <2>2. \A e : Comes(e, u) => Comes(e, u)'
    <3> SUFFICES ASSUME NEW e, Comes(e, u) PROVE Comes(e, u)'
      OBVIOUS
    <3>1. CASE Waits(e)
      BY <1>8, <3>1 DEF Comes
    <3>2. CASE \E i \in DOMAIN orders : orders[i] = e
      <4>1. e = h \/ \E i \in DOMAIN orders' : orders'[i] = e
        BY <1>3, <3>2
      <4> QED
        BY <2>1, <4>1 DEF Comes
    <3>3. CASE \E i \in DOMAIN q : q[i] = e
      BY <2>1, <3>3 DEF Comes
    <3> QED
      BY <3>1, <3>2, <3>3 DEF Comes
  <2>3. ASSUME Corrected(u)
        PROVE  Corrected(u)'
    <3>1. ASSUME NEW i \in DOMAIN inbox'[u], Denies(inbox'[u][i], u)
          PROVE  \/ \E f \in Event : Waits(f) /\ Corrects(f, inbox'[u][i], u)
                 \/ \E j \in DOMAIN orders' : Corrects(orders'[j], inbox'[u][i], u)
                 \/ \E j \in DOMAIN inbox'[u] : j > i /\ Corrects(inbox'[u][j], inbox'[u][i], u)
      <4>1. CASE i = Len(q) + 1
        <5>1. inbox'[u][i] = h
          BY <2>1, <4>1
        <5>2. \/ \E f \in Event : Waits(f) /\ Corrects(f, h, u)
              \/ \E j \in DOMAIN orders : j > 1 /\ Corrects(orders[j], h, u)
          BY <1>3, <2>3, <3>1, <5>1 DEF Corrected
        <5> QED
          BY <1>11, <3>1, <5>1, <5>2
      <4>2. CASE i \in DOMAIN q
        <5> DEFINE e == q[i]
        <5>1. inbox'[u][i] = e /\ Denies(e, u) /\ i \in Nat /\ i < Len(q) + 1
          BY <2>1, <3>1, <4>2
        <5>2. \/ \E f \in Event : Waits(f) /\ Corrects(f, e, u)
              \/ \E j \in DOMAIN orders : Corrects(orders[j], e, u)
              \/ \E j \in DOMAIN q : j > i /\ Corrects(q[j], e, u)
          BY <2>3, <4>2, <5>1 DEF Corrected
        <5>3. ASSUME NEW j \in DOMAIN orders, Corrects(orders[j], e, u)
              PROVE  \/ \E k \in DOMAIN orders' : Corrects(orders'[k], e, u)
                     \/ \E k \in DOMAIN inbox'[u] : k > i /\ Corrects(inbox'[u][k], e, u)
          <6>1. CASE j = 1
            BY <1>3, <2>1, <5>1, <5>3, <6>1
          <6>2. CASE j # 1
            BY <1>3, <5>3, <6>2
          <6> QED
            BY <6>1, <6>2
        <5>4. ASSUME NEW j \in DOMAIN q, j > i, Corrects(q[j], e, u)
              PROVE  \E k \in DOMAIN inbox'[u] : k > i /\ Corrects(inbox'[u][k], e, u)
          BY <2>1, <5>4
        <5> QED
          BY <5>1, <5>2, <5>3, <5>4
      <4> QED
        BY <2>1, <4>1, <4>2
    <3> QED
      BY <1>6, <1>8, <1>10, <2>3, <3>1 DEF Corrected, Denies, Corrects, Withdraws, Grades, Brings, Adds
  <2>4. \A entry : Rated(u, entry) => Rated(u, entry)'
    BY <1>1, <1>6, <2>2 DEF Rated, Grades
  <2>5. Lists(u) => Lists(u)'
    BY <1>1, <1>9, <2>2, <2>4 DEF Lists, Brings, Adds, Asking
  <2>6. Omits(u) => Omits(u)'
    BY <1>1, <1>9, <2>2 DEF Omits, Withdraws, Asking
  <2> QED
    BY <1>8, <2>3, <2>5, <2>6 DEF Faithful
<1>13. CASE ~Reaches(h, u)
  <2>1. inbox'[u] = q
    BY <1>5, <1>13
  <2>2. ASSUME ~Concerns(h, u)
        PROVE  \A e : Comes(e, u) /\ (Brings(e, u) \/ Withdraws(e, u) \/ Grades(e, u)) => Comes(e, u)'
    <3>1. ~Brings(h, u) /\ ~Withdraws(h, u) /\ ~Grades(h, u)
      BY <2>2 DEF Concerns, Brings, Withdraws, Grades
    <3>2. \A e : Comes(e, u) => Comes(e, u)' \/ e = h
      <4> SUFFICES ASSUME NEW e, \E i \in DOMAIN orders : orders[i] = e
                   PROVE  e = h \/ \E i \in DOMAIN orders' : orders'[i] = e
        BY <1>8, <2>1 DEF Comes
      <4> QED
        BY <1>3
    <3> QED
      BY <3>1, <3>2
  <2>3. Concerns(h, u) => Asking("list") \in gets[u]
    BY <1>13 DEF Emit, Deliveries
  <2>4. ASSUME Corrected(u), Present(u)
        PROVE  Corrected(u)'
    <3>1. h.kind # "DELETED"
      BY <1>3, <2>4 DEF LiveInv, Present
    <3>2. h.user = u => q = <<>>
      BY <1>1, <1>13, <3>1 DEF Reaches, InboxInv
    <3>3. ASSUME NEW i \in DOMAIN q, Denies(q[i], u)
          PROVE  \/ \E f \in Event : Waits(f) /\ Corrects(f, q[i], u)
                 \/ \E j \in DOMAIN orders' : Corrects(orders'[j], q[i], u)
                 \/ \E j \in DOMAIN q : j > i /\ Corrects(q[j], q[i], u)
      <4>1. ~Corrects(h, q[i], u)
        BY <3>2, <3>3 DEF Corrects, Brings, Grades
      <4>2. \A j \in DOMAIN orders : Corrects(orders[j], q[i], u) => j # 1
        BY <1>3, <4>1
      <4> QED
        BY <1>3, <2>4, <3>3, <4>2 DEF Corrected
    <3> QED
      BY <1>6, <1>8, <1>10, <2>1, <2>4, <3>3 DEF Corrected, Denies, Corrects, Withdraws, Grades, Brings, Adds
  <2>5. ASSUME ~Concerns(h, u)
        PROVE  /\ Lists(u) => Lists(u)'
               /\ Omits(u) => Omits(u)'
    <3>1. \A entry : Rated(u, entry) => Rated(u, entry)'
      BY <1>1, <1>6, <2>2, <2>5 DEF Rated, Grades
    <3>2. Lists(u) => Lists(u)'
      BY <1>1, <1>9, <2>2, <2>5, <3>1 DEF Lists, Brings, Adds, Asking
    <3>3. Omits(u) => Omits(u)'
      BY <1>1, <1>9, <2>2, <2>5 DEF Omits, Withdraws, Asking
    <3> QED
      BY <3>2, <3>3
  <2>6. ASSUME Concerns(h, u)
        PROVE  Lists(u)' /\ Omits(u)'
    BY <1>1, <2>3, <2>6 DEF Lists, Omits, Asking
  <2> QED
    BY <1>8, <2>4, <2>5, <2>6 DEF Faithful
<1> QED
  BY <1>12, <1>13

\* The socket goes.
LEMMA BreakFaithful ==
  ASSUME ListTypeOK, NEW u \in Watchers, Faithful(u), Break(u) \/ Expired(u), u \notin outdated'
  PROVE  Faithful(u)'
<1>1. u \in Users /\ UNCHANGED <<dcVars, formerly, answers, shown, orders>>
  BY RoomsAssumption DEF Break, Expired, Disconnect
<1>2. CASE Break(u)
  <2>1. inbox[u] = <<>> /\ UNCHANGED gets
    BY <1>2 DEF Break
  <2>2. inbox'[u] = inbox[u]
    BY <1>1, <1>2, <2>1 DEF Break, ListTypeOK
  <2> QED
    BY <1>1, <2>1, <2>2, SamePage
<1>3. CASE Expired(u)
  <2>1. inbox'[u] = <<>> /\ Asking("list") \in gets'[u]
    BY <1>1, <1>3 DEF Expired, Refetch, ListTypeOK
  <2>2. UNCHANGED <<domain, members, role, published, unsent, fresh, written, parked, handled>>
    BY <1>1 DEF dcVars, vars, delivery, worker
  <2>3. Untried' = Untried
    BY <2>2 DEF Untried, Positions, Kind, Adds
  <2>4. (Present(u)' <=> Present(u)) /\ \A e : Waits(e)' <=> Waits(e)
    BY <2>2, <2>3 DEF Waits, Present
  <2>5. Corrected(u) => Corrected(u)'
    BY <1>1, <2>1, <2>2, <2>4 DEF Corrected, Denies, Corrects, Withdraws, Grades, Brings, Adds
  <2>6. Lists(u)' /\ Omits(u)'
    BY <2>1 DEF Lists, Omits, Asking
  <2> QED
    BY <2>4, <2>5, <2>6 DEF Faithful
<1> QED
  BY <1>2, <1>3

\* What is still to be told of is true.
LEMMA WaitsAgree ==
  ASSUME IInv, DCInv, DCCopyInv, LiveInv, Spaced, NEW u \in Users, Present(u), NEW e, Waits(e),
         e.kind \in Subscribed
  PROVE  ~Denies(e, u)
<1>1. Holds(e)
  <2>1. ASSUME NEW p \in Untried, published[p] = e
        PROVE  Holds(e)
    <3>1. p \in Positions
      BY HeldEvents DEF IInv, DCInv, Untried
    <3>2. p \in Unsettled
      <4>1. CASE p \in written \cup fresh \cup parked
        BY <3>1, <4>1 DEF Unsettled
      <4>2. CASE p \notin handled /\ p \notin fresh \cup parked /\ fetched < p
        BY <3>1, <4>2 DEF Unsettled
      <4>3. CASE p \notin handled /\ p \notin fresh \cup parked /\ ~(fetched < p)
        <5>1. p \in 1..fetched
          BY <3>1, <4>3 DEF Positions, IInv, TypeOK, DCInv, DeliveryInv, DeliveryTypeOK
        <5> QED
          BY <2>1, <4>3, <5>1 DEF DCCopyInv, HandledInv, Kind
      <4> QED
        BY <2>1, <4>1, <4>2, <4>3 DEF Untried
    <3> QED
      BY <2>1, <3>2 DEF DCCopyInv, SpacedInv
  <2>2. ASSUME NEW r \in Requests, NEW i \in DOMAIN unsent[r], unsent[r][i] = e
        PROVE  Holds(e)
    BY <2>2 DEF DCCopyInv, SpacedInv
  <2> QED
    BY <2>1, <2>2 DEF Waits
<1>2. e.kind # "DELETED"
  <2>1. \A p \in Untried : p \in Positions
    BY HeldEvents DEF IInv, DCInv, Untried
  <2> QED
    BY <2>1 DEF LiveInv, Present, Waits, Kind
<1>3. role[u] # NoRole
  BY DEF Present, IInv, MembershipMatchesRole
<1> QED
  BY <1>1, <1>2, <1>3 DEF Denies, Withdraws, Grades, Holds, RoleKinds, RoleIn

LEMMA WorkWaits ==
  ASSUME DCInv, DCCopyInv, Work, NEW e, Waits(e)
  PROVE  Waits(e)' \/ (faults' > faults /\ Adds(e) /\ e.user \in Untold)
<1>1. UNCHANGED <<published, unsent>>
  BY HandlersAct, WorkerLeavesDomain DEF Work, vars
<1>2. written \subseteq handled
  BY DEF DCCopyInv, HandledInv
<1>3. ASSUME NEW r \in Requests, NEW i \in DOMAIN unsent[r], unsent[r][i] = e
      PROVE  Waits(e)'
  BY <1>1, <1>3 DEF Waits
<1>4. ASSUME NEW q \in Untried, published[q] = e
      PROVE  q \in Untried' \/ (faults' > faults /\ Adds(e) /\ e.user \in Untold)
  <2>1. CASE Deliver
    <3>1. handled' = handled /\ fresh \cup parked \subseteq fresh' \cup parked'
      BY <2>1 DEF Deliver, Fetch, Restart, Claim, HandlerFailed, Acknowledged
    <3>2. CASE q \notin written
      BY <1>1, <1>4, <3>1, <3>2 DEF Untried, Positions, Kind, Adds
    <3>3. CASE q \in written /\ q \in written'
      BY <3>3 DEF Untried
    <3>4. CASE q \in written /\ q \notin written'
      <4>1. faults' > faults /\ q \in parked'
        BY <2>1, <3>4 DEF Deliver, Fetch, Restart, Claim, HandlerFailed, Acknowledged, DCInv, DeliveryInv,
           DeliveryTypeOK
      <4>2. CASE Adds(e)
        BY <1>4, <3>4, <4>1, <4>2 DEF Untold
      <4>3. CASE ~Adds(e)
        BY <1>1, <1>2, <1>4, <3>1, <3>4, <4>1, <4>3 DEF Untried, Adds
      <4> QED
        BY <4>2, <4>3
    <3> QED
      BY <3>2, <3>3, <3>4
  <2>2. ASSUME NEW p \in fresh, Reject(p)
        PROVE  q \in Untried'
    <3>1. written' = written /\ handled' = handled /\ fresh' \cup parked' = fresh \cup parked
      BY <2>2 DEF Reject, HandlerRejected
    <3> QED
      BY <1>1, <1>4, <3>1 DEF Untried, Positions, Kind, Adds
  <2>3. ASSUME NEW p \in fresh, Write(p)
        PROVE  q \in Untried'
    <3>1. /\ written' = written \cup {p} /\ handled' = handled \cup {p}
          /\ fresh' = fresh \ {p} /\ parked' = parked
      BY <2>3 DEF Write, HandlerWrote
    <3> QED
      BY <1>1, <1>4, <3>1 DEF Untried, Positions, Kind, Adds
  <2> QED
    BY <2>1, <2>2, <2>3 DEF Work, Handle
<1> QED
  BY <1>1, <1>3, <1>4 DEF Waits

LEMMA TellWaits ==
  ASSUME NEW p \in written, Tell(p), NEW e, Waits(e)
  PROVE  Waits(e)' \/ e = published[p]
<1>1. /\ written' = written \ {p}
      /\ UNCHANGED <<published, unsent, fresh, parked, handled>>
  BY DEF Tell, Resolve, HandlerResolved, vars
<1> QED
  BY <1>1 DEF Waits, Untried, Positions, Kind, Adds

\* A request that changes the tables goes on to announce it.
LEMMA ChangeWaits ==
  ASSUME IInv, IInv', DCInv, DCCopyInv, DomainStep, Spaced'
  PROVE  /\ \A e : Waits(e) /\ e.kind \in Subscribed => Waits(e)'
         /\ \A u \in Users :
              /\ Present(u)' /\ (~Present(u) \/ role'[u] # role[u]) =>
                   \E e \in Event : /\ Waits(e)'
                                    /\ Brings(e, u) \/ (Grades(e, u) /\ e.role = role'[u])
                                    /\ ~Present(u) => Brings(e, u)
              /\ Present(u) /\ ~Present(u)' => \E e \in Event : Waits(e)' /\ Withdraws(e, u)
<1>1. PICK r \in Requests : RequestStep(r) /\ UNCHANGED delivery
  BY DEF DomainStep
<1>2. Spaced /\ ~lost' /\ DeliveryInv /\ SpacedInv
  BY StillSpaced DEF Spaced, DCInv, DCCopyInv
<1>3. UNCHANGED <<fetched, fresh, written, acking, parked, handled>>
  BY <1>1 DEF delivery, worker
<1>4. CASE \/ CreateDomain(r) \/ RenameDomain(r) \/ AddUser(r) \/ RemoveUser(r)
           \/ SetRole(r) \/ TransferOwnership(r) \/ DeleteDomain(r)
  <2> DEFINE es == Events(call[r])
  <2>1. /\ \A q \in Requests : unsent[q] = <<>>
        /\ unsent' = [unsent EXCEPT ![r] = es] /\ UNCHANGED published
        /\ "transfer" \notin overlapped /\ call[r] \in Calls
    BY <1>2, <1>4, CommitAlone
  <2>2. Untried' = Untried
    BY <1>3, <2>1 DEF Untried, Positions, Kind, Adds
  <2>3. \A e : Waits(e) => Waits(e)'
    <3>1. \A e : Waits(e) => \E p \in Untried : published[p] = e
      BY <2>1 DEF Waits
    <3> QED
      BY <2>1, <2>2, <3>1 DEF Waits
  <2>4. es \in Seq(Event)
    BY <2>1, EventsType
  <2>5. \A i \in DOMAIN es : \E e \in Event : e = es[i] /\ Waits(e)'
    <3>1. unsent'[r] = es
      BY <2>1 DEF IInv, TypeOK
    <3>2. ASSUME NEW i \in DOMAIN es, NEW e \in Event, e = es[i]
          PROVE  Waits(e)'
      BY <3>1, <3>2 DEF Waits
    <3>3. \A i \in DOMAIN es : es[i] \in Event
      BY <2>4
    <3> QED
      BY <3>2, <3>3
  <2>6. /\ \A i \in DOMAIN es : es[i].kind \in RoleKinds =>
             /\ role'[es[i].user] = RoleIn(es[i])
             /\ RoleIn(es[i]) = NoRole <=> es[i].kind = "REMOVED"
             /\ es[i].kind = "ROLE" => role[es[i].user] # NoRole
        /\ \A u \in Users : role'[u] # role[u] => \E i \in DOMAIN es : About(es[i], u)
    BY <1>4, <2>1, CommitTells
  <2>7. \A u \in Users : (u \in members <=> role[u] # NoRole) /\ (u \in members' <=> role'[u] # NoRole)
    BY DEF IInv, MembershipMatchesRole
  <2>8. domain' = domain \/ (domain = "none" /\ CreateDomain(r)) \/ DeleteDomain(r)
    BY <1>4 DEF CreateDomain, InsertDomain, RenameDomain, AddUser, RemoveUser, SetRole, TransferOwnership,
       DeleteDomain, MarkDeleted, tables
  <2>9. domain = "none" => \A u \in Users : role[u] = NoRole
    BY DEF IInv, NotCreatedInv
  <2>10. DeleteDomain(r) => domain' = "deleted"
    BY DEF DeleteDomain, MarkDeleted
  <2>11. ASSUME NEW u \in Users, Present(u)', ~Present(u) \/ role'[u] # role[u]
         PROVE  \E e \in Event : /\ Waits(e)'
                                 /\ Brings(e, u) \/ (Grades(e, u) /\ e.role = role'[u])
                                 /\ ~Present(u) => Brings(e, u)
    <3>1. role'[u] # NoRole /\ domain' = "live"
      BY <2>7, <2>11 DEF Present
    <3>2. role[u] # NoRole => Present(u)
      BY <2>7, <2>8, <2>9, <2>10, <3>1 DEF Present
    <3>3. role'[u] # role[u]
      BY <2>7, <2>11, <3>1, <3>2 DEF Present
    <3>4. PICK i \in DOMAIN es : About(es[i], u)
      BY <2>6, <3>3
    <3>5. es[i].kind \in {"CREATED", "ADDED", "ROLE"} /\ es[i].user = u
      BY <2>6, <3>1, <3>4 DEF About, RoleKinds
    <3>6. CASE es[i].kind \in {"CREATED", "ADDED"}
      BY <2>5, <3>5, <3>6 DEF Brings, Adds
    <3>7. CASE es[i].kind = "ROLE"
      <4>1. role'[u] = es[i].role /\ Present(u)
        BY <2>6, <3>2, <3>4, <3>7 DEF About, RoleKinds, RoleIn
      <4> QED
        BY <2>5, <3>4, <3>7, <4>1 DEF Grades, About
    <3> QED
      BY <3>5, <3>6, <3>7
  <2>12. ASSUME NEW u \in Users, Present(u), ~Present(u)'
         PROVE  \E e \in Event : Waits(e)' /\ Withdraws(e, u)
    <3>1. CASE DeleteDomain(r)
      <4>1. es = <<Announce("DELETED", call[r].actor, NoRole, NoUser)>>
        BY <3>1 DEF DeleteDomain, Events
      <4>2. 1 \in DOMAIN es /\ es[1] = Announce("DELETED", call[r].actor, NoRole, NoUser)
        BY <4>1
      <4> QED
        BY <2>5, <4>2 DEF Withdraws, Announce
    <3>2. CASE ~DeleteDomain(r)
      <4>1. domain' = "live"
        BY <2>8, <2>12, <3>2 DEF Present
      <4>2. role'[u] = NoRole /\ role[u] # NoRole
        BY <2>7, <2>12, <4>1 DEF Present
      <4>3. PICK i \in DOMAIN es : About(es[i], u)
        BY <2>6, <4>2
      <4>4. es[i].kind = "REMOVED"
        BY <2>6, <4>2, <4>3 DEF About
      <4> QED
        BY <2>5, <4>3, <4>4 DEF Withdraws, About
    <3> QED
      BY <3>1, <3>2
  <2> QED
    BY <2>3, <2>11, <2>12
<1>5. CASE Publish(r) \/ Begin(r) \/ Check1(r) \/ Check2(r) \/ TransactionFails(r)
  <2>1. UNCHANGED <<domain, members, role>>
    BY <1>5 DEF Publish, Begin, Check1, Check2, TransactionFails, tables
  <2>2. ASSUME NEW e, Waits(e), e.kind \in Subscribed
        PROVE  Waits(e)'
    <3>1. CASE Publish(r)
      <4>1. \A p \in Positions : p \in Positions' /\ published'[p] = published[p]
        BY <1>1, <1>2, <3>1, PublishMoves
      <4>2. \A p \in Untried : p \in Positions
        BY <1>2, HeldEvents DEF IInv, Untried
      <4>3. \A p \in Untried : p \in Untried' /\ published'[p] = published[p]
        BY <1>3, <4>1, <4>2 DEF Untried, Kind, Adds
      <4>4. ASSUME NEW q \in Requests, NEW j \in DOMAIN unsent[q], unsent[q][j] = e
            PROVE  Waits(e)'
        <5>1. CASE \E i \in DOMAIN unsent'[q] : unsent'[q][i] = e
          BY <5>1 DEF Waits
        <5>2. CASE q = r /\ j = 1
          <6>1. /\ Len(published) + 1 \in Positions' /\ Len(published) + 1 \notin handled
                /\ published'[Len(published) + 1] = e
            BY <1>1, <1>2, <3>1, <4>4, <5>2, PublishMoves
          <6>2. Len(published) + 1 \in Untried'
            BY <1>3, <2>2, <6>1 DEF Untried, Kind
          <6> QED
            BY <6>1, <6>2 DEF Waits
        <5> QED
          BY <1>1, <1>2, <3>1, <4>4, <5>1, <5>2, PublishMoves
      <4> QED
        BY <2>2, <4>3, <4>4 DEF Waits
    <3>2. CASE ~Publish(r)
      <4>1. UNCHANGED <<published, unsent>>
        BY <1>5, <3>2, OtherRequestSteps DEF Begin, Check1, Check2, TransactionFails
      <4>2. Untried' = Untried
        BY <1>3, <4>1 DEF Untried, Positions, Kind, Adds
      <4> QED
        BY <2>2, <4>1, <4>2 DEF Waits
    <3> QED
      BY <3>1, <3>2
  <2> QED
    BY <2>1, <2>2 DEF Present
<1>6. CASE PublishFails(r)
  BY <1>2, <1>6 DEF PublishFails
<1> QED
  BY <1>1, <1>4, <1>5, <1>6 DEF RequestStep

\* A change that is answered has just sent its event.
LEMMA AnsweredWaits ==
  ASSUME IInv, IInv', DCInv, DCCopyInv, LiveInv, AnswerInv, DomainStep, Spaced',
         NEW r \in Requests, Succeeds(r), call[r].op \in {"create", "leave", "delete"}
  PROVE  /\ UNCHANGED tables
         /\ \/ Present(call[r].actor) /\ \E e \in Event : Waits(e)' /\ Brings(e, call[r].actor)
            \/ ~Present(call[r].actor) /\ \E e \in Event : Waits(e)' /\ Withdraws(e, call[r].actor)
<1> DEFINE u == call[r].actor
<1>1. Publish(r)
  <2>1. PICK s \in Requests : RequestStep(s)
    BY DEF DomainStep
  <2>2. pc \in [Requests -> {"idle", "check1", "check2", "commit", "publish", "closed"}]
    BY DEF IInv, TypeOK
  <2>3. pc[r] = "publish" /\ pc'[r] = "closed" /\ ~lost'
    BY DEF Succeeds
  <2>4. r = s
    BY <2>1, <2>2, <2>3 DEF RequestStep, Begin, Check1, Check2, CreateDomain, RenameDomain, AddUser, RemoveUser,
       SetRole, TransferOwnership, DeleteDomain, Committed, TransactionFails, Publish, PublishFails
  <2> QED
    BY <2>1, <2>3, <2>4 DEF RequestStep, Begin, Check1, Check2, CreateDomain, RenameDomain, AddUser, RemoveUser,
       SetRole, TransferOwnership, DeleteDomain, Committed, TransactionFails, PublishFails
<1>2. Spaced
  BY StillSpaced
<1>3. unsent[r] = Events(call[r]) /\ (call[r].op = "create" => domain = "live")
  BY <1>2 DEF AnswerInv, Succeeds
<1>4. u \in Users
  <2>1. call[r] \in Calls
    BY DEF IInv, SendingInv, Open, Succeeds
  <2> QED
    BY <2>1 DEF Calls, CreateCalls, RenameCalls, LeaveCalls, DeleteCalls, RemoveCalls, TransferCalls,
         AddCalls, SetRoleCalls, Own, Named, CallType
<1>5. PICK e \in {Announce("CREATED", u, "OWNER", NoUser), Announce("REMOVED", u, NoRole, NoUser),
                  Announce("DELETED", u, NoRole, NoUser)} :
        /\ Events(call[r]) = <<e>>
        /\ call[r].op = "create" => e.kind = "CREATED" /\ e.role = "OWNER"
        /\ call[r].op \in {"leave", "delete"} => e.kind \in {"REMOVED", "DELETED"}
        /\ e.user = u
  BY DEF Events, Announce
<1>6. e \in Event /\ e.kind \in Subscribed
  BY <1>4, <1>5, ReplicaAssumption DEF Event, Announce, Roles, RoleKinds
<1>7. 1 \in DOMAIN unsent[r] /\ unsent[r][1] = e
  BY <1>3, <1>5
<1>8. Waits(e)
  BY <1>7 DEF Waits
<1>9. Waits(e)'
  BY <1>6, <1>8, ChangeWaits
<1>10. CASE call[r].op = "create"
  <2>1. Holds(e)
    BY <1>2, <1>7 DEF DCCopyInv, SpacedInv
  <2>2. Present(u)
    BY <1>3, <1>4, <1>5, <1>10, <2>1 DEF Holds, RoleKinds, RoleIn, Present, IInv, MembershipMatchesRole, NoRole
  <2>3. Brings(e, u)
    BY <1>5, <1>10 DEF Brings, Adds
  <2> QED
    BY <1>1, <1>6, <1>9, <2>2, <2>3 DEF Publish
<1>11. CASE call[r].op \in {"leave", "delete"}
  <2>1. Withdraws(e, u)
    BY <1>5, <1>11 DEF Withdraws
  <2>2. ~Present(u)
    BY <1>2, <1>4, <1>6, <1>8, <2>1, WaitsAgree DEF Denies
  <2> QED
    BY <1>1, <1>6, <1>9, <2>1, <2>2 DEF Publish
<1> QED
  BY <1>10, <1>11

LEMMA ChangeFaithful ==
  ASSUME IInv, IInv', DCInv, DCCopyInv, LiveInv, AnswerInv, ListTypeOK, Change, Spaced',
         NEW u \in Watchers, Faithful(u)
  PROVE  Faithful(u)'
<1>1. u \in Users /\ DomainStep /\ UNCHANGED <<orders, shown, gets, inbox>>
  BY RoomsAssumption DEF Change, DomainChanges, rooms
<1>2. \A e : Waits(e) /\ e.kind \in Subscribed => Waits(e)'
  BY <1>1, ChangeWaits
<1>3. \A e : Brings(e, u) \/ Withdraws(e, u) \/ Grades(e, u) => e.kind \in Subscribed
  BY ReplicaAssumption DEF Brings, Adds, Withdraws, Grades, RoleKinds
<1>4. \A e : Comes(e, u) /\ e.kind \in Subscribed => Comes(e, u)'
  BY <1>1, <1>2 DEF Comes
<1>5. Fetched(u)' = Fetched(u) /\ \A k \in Get : Listed(u, k)' = Listed(u, k)
  BY <1>1, ListedIs DEF Fetched, Read, Listed, Merged, Get
<1>6. formerly[u] \subseteq formerly'[u]
  BY <1>1 DEF Change, ListTypeOK
<1>7. \/ answers'[u] = answers[u]
      \/ /\ Present(u)' <=> Present(u)
         /\ role'[u] = role[u]
         /\ \/ Present(u) /\ \E e \in Event : Waits(e)' /\ Brings(e, u)
            \/ ~Present(u) /\ \E e \in Event : Waits(e)' /\ Withdraws(e, u)
  <2>1. CASE \E r \in Requests : /\ Succeeds(r) /\ call[r].actor = u
                                 /\ call[r].op \in {"create", "leave", "delete"}
    <3>1. UNCHANGED tables /\ \/ Present(u) /\ \E e \in Event : Waits(e)' /\ Brings(e, u)
                              \/ ~Present(u) /\ \E e \in Event : Waits(e)' /\ Withdraws(e, u)
      BY <1>1, <2>1, AnsweredWaits
    <3> QED
      BY <3>1 DEF tables, Present
  <2>2. CASE ~\E r \in Requests : /\ Succeeds(r) /\ call[r].actor = u
                                  /\ call[r].op \in {"create", "leave", "delete"}
    BY <1>1, <2>2 DEF Change, ListTypeOK
  <2> QED
    BY <2>1, <2>2
<1>8. ASSUME Present(u)', NEW e \in Event, Waits(e)', Brings(e, u)
      PROVE  Faithful(u)'
  <2>1. Corrected(u)'
    BY <1>8 DEF Corrected, Corrects, Brings, Adds
  <2>2. Lists(u)'
    BY <1>8 DEF Lists, Comes, Brings, Adds
  <2> QED
    BY <1>8, <2>1, <2>2 DEF Faithful
<1>9. ASSUME ~Present(u)', NEW e \in Event, Waits(e)', Withdraws(e, u)
      PROVE  Faithful(u)'
  <2>1. Omits(u)'
    BY <1>9 DEF Omits, Comes, Withdraws
  <2> QED
    BY <1>9, <2>1 DEF Faithful
<1>10. ASSUME Present(u), NEW x, Withdraws(x, u), NEW f, Corrects(f, x, u)
       PROVE  Brings(f, u)
  BY <1>10 DEF Corrects, Withdraws, Grades
<1>11. ASSUME Present(u), Present(u)', role'[u] # role[u],
              NEW e \in Event, Waits(e)', Grades(e, u), e.role = role'[u]
       PROVE  Faithful(u)'
  <2>1. Corrected(u) /\ Lists(u)
    BY <1>11 DEF Faithful
  <2>2. answers'[u] = answers[u]
    BY <1>7, <1>11
  <2>3. \A x : Grades(x, u) => Corrects(e, x, u)'
    BY <1>11 DEF Corrects, Grades
  <2>4. \A x : Denies(x, u)' => Withdraws(x, u) \/ Grades(x, u)
    BY DEF Denies, Withdraws, Grades
  <2>5. ASSUME NEW x, NEW f, Withdraws(x, u), Corrects(f, x, u)
        PROVE  Corrects(f, x, u)' /\ f.kind \in Subscribed
    BY <1>3, <1>10, <1>11, <2>5 DEF Corrects, Brings, Adds
  <2>6. \A x : Withdraws(x, u) => Denies(x, u)
    BY DEF Denies
  <2>7. Corrected(u)'
    <3>1. ASSUME NEW i \in DOMAIN orders, Denies(orders[i], u)'
          PROVE  \/ \E f \in Event : Waits(f)' /\ Corrects(f, orders[i], u)'
                 \/ \E j \in DOMAIN orders : j > i /\ Corrects(orders[j], orders[i], u)'
      <4>1. CASE Grades(orders[i], u)
        BY <1>1, <1>11, <2>3, <4>1
      <4>2. CASE Withdraws(orders[i], u)
        BY <1>1, <1>2, <2>1, <2>5, <2>6, <4>2 DEF Corrected
      <4> QED
        BY <1>1, <2>4, <3>1, <4>1, <4>2
    <3>2. ASSUME NEW i \in DOMAIN inbox[u], Denies(inbox[u][i], u)'
          PROVE  \/ \E f \in Event : Waits(f)' /\ Corrects(f, inbox[u][i], u)'
                 \/ \E j \in DOMAIN orders : Corrects(orders[j], inbox[u][i], u)'
                 \/ \E j \in DOMAIN inbox[u] : j > i /\ Corrects(inbox[u][j], inbox[u][i], u)'
      <4>1. CASE Grades(inbox[u][i], u)
        BY <1>1, <1>11, <2>3, <4>1
      <4>2. CASE Withdraws(inbox[u][i], u)
        BY <1>1, <1>2, <2>1, <2>5, <2>6, <4>2 DEF Corrected
      <4> QED
        BY <1>1, <2>4, <3>2, <4>1, <4>2
    <3> QED
      BY <1>1, <3>1, <3>2 DEF Corrected
  <2>8. \A entry : Rated(u, entry)'
    BY <1>11 DEF Rated, Comes, Grades
  <2>9. Lists(u)'
    BY <1>1, <1>3, <1>4, <1>5, <2>1, <2>2, <2>8 DEF Lists, Brings, Adds, Asking
  <2> QED
    BY <1>11, <2>7, <2>9 DEF Faithful
<1>12. ASSUME Present(u), Present(u)', role'[u] = role[u]
       PROVE  Faithful(u)'
  <2>1. Corrected(u) /\ Lists(u)
    BY <1>12 DEF Faithful
  <2>2. \A x, f : Corrects(f, x, u) => Corrects(f, x, u)' /\ f.kind \in Subscribed
    BY <1>3, <1>12 DEF Corrects, Brings, Grades, Adds
  <2>3. \A x : Denies(x, u)' => Denies(x, u)
    BY <1>12 DEF Denies, Withdraws, Grades
  <2>4. Corrected(u)'
    BY <1>1, <1>2, <1>12, <1>3, <2>1 DEF Corrected, Denies, Corrects, Withdraws, Grades, Brings, Adds
  <2>5. \A entry : Rated(u, entry) => Rated(u, entry)'
    BY <1>3, <1>4, <1>6, <1>12 DEF Rated, Grades
  <2>6. CASE answers'[u] = answers[u]
    <3>1. Lists(u)'
      BY <1>1, <1>3, <1>4, <1>5, <2>1, <2>5, <2>6 DEF Lists, Brings, Adds, Asking
    <3> QED
      BY <1>12, <2>4, <3>1 DEF Faithful
  <2> QED
    BY <1>7, <1>8, <1>12, <2>6
<1>13. ASSUME ~Present(u), ~Present(u)'
       PROVE  Faithful(u)'
  <2>1. CASE answers'[u] = answers[u]
    <3>1. Omits(u)
      BY <1>13 DEF Faithful
    <3>2. Omits(u)'
      BY <1>1, <1>3, <1>4, <1>5, <2>1, <3>1 DEF Omits, Withdraws, Asking
    <3> QED
      BY <1>13, <3>2 DEF Faithful
  <2> QED
    BY <1>7, <1>9, <1>13, <2>1
<1> QED
  BY <1>1, <1>8, <1>9, <1>11, <1>12, <1>13, ChangeWaits

\* A handler hands what it has written to the server: behind all its earlier commands.
LEMMA TellFaithful ==
  ASSUME IInv, DCInv, DCCopyInv, LiveInv, ListTypeOK, Spaced, NEW u \in Watchers, Faithful(u),
         NEW p \in written, Tell(p), UNCHANGED page
  PROVE  Faithful(u)'
<1> DEFINE e == published[p]
           n == Len(orders) + 1
           q == inbox[u]
<1>1. u \in Users /\ UNCHANGED <<shown, gets, answers, inbox, formerly>>
  BY RoomsAssumption DEF page
<1>2. p \in Positions /\ e \in Event /\ e.kind \in Subscribed
  BY HeldEvents DEF IInv, DCInv, DeliveryInv, Kind
<1>3. Waits(e) /\ orders' = Append(orders, e) /\ UNCHANGED <<domain, members, role>>
  BY DEF Waits, Untried, Tell, Resolve, HandlerResolved, vars
<1>4. /\ DOMAIN orders' = DOMAIN orders \cup {n} /\ orders'[n] = e
      /\ \A i \in DOMAIN orders : i \in Nat /\ i < n /\ orders'[i] = orders[i]
  BY <1>2, <1>3, AppendTo DEF ListTypeOK, RoomsTypeOK
<1>5. \A x : Waits(x) => Waits(x)' \/ x = orders'[n]
  BY <1>4, TellWaits
<1>6. \A x : Comes(x, u) => Comes(x, u)'
  BY <1>1, <1>4, <1>5 DEF Comes
<1>7. Fetched(u)' = Fetched(u) /\ \A k \in Get : Listed(u, k)' = Listed(u, k)
  BY <1>1, ListedIs DEF Fetched, Read, Listed, Merged, Get
<1>8. \A x, f : (Denies(x, u)' <=> Denies(x, u)) /\ (Corrects(f, x, u)' <=> Corrects(f, x, u))
  BY <1>3 DEF Denies, Corrects, Withdraws, Grades, Brings, Adds
<1>9. ASSUME Present(u), Corrected(u)
      PROVE  Corrected(u)'
  <2>1. ~Denies(e, u)
    BY <1>1, <1>2, <1>3, <1>9, WaitsAgree
  <2>2. ASSUME NEW i \in DOMAIN orders', Denies(orders'[i], u)
        PROVE  \/ \E f \in Event : Waits(f)' /\ Corrects(f, orders'[i], u)
               \/ \E j \in DOMAIN orders' : j > i /\ Corrects(orders'[j], orders'[i], u)
    <3> DEFINE x == orders[i]
    <3>1. i \in DOMAIN orders /\ orders'[i] = x /\ i \in Nat /\ i < n /\ n \in DOMAIN orders' /\ n > i
      BY <1>4, <2>1, <2>2
    <3>2. CASE \E f \in Event : Waits(f) /\ Corrects(f, x, u)
      BY <1>5, <3>1, <3>2
    <3>3. CASE \E j \in DOMAIN orders : j > i /\ Corrects(orders[j], x, u)
      BY <1>4, <3>1, <3>3
    <3> QED
      BY <1>9, <2>2, <3>1, <3>2, <3>3 DEF Corrected
  <2>3. ASSUME NEW i \in DOMAIN q, Denies(q[i], u)
        PROVE  \/ \E f \in Event : Waits(f)' /\ Corrects(f, q[i], u)
               \/ \E j \in DOMAIN orders' : Corrects(orders'[j], q[i], u)
               \/ \E j \in DOMAIN q : j > i /\ Corrects(q[j], q[i], u)
    <3>1. n \in DOMAIN orders'
      BY <1>4
    <3>2. CASE \E f \in Event : Waits(f) /\ Corrects(f, q[i], u)
      BY <1>5, <3>1, <3>2
    <3>3. CASE \E j \in DOMAIN orders : Corrects(orders[j], q[i], u)
      BY <1>4, <3>3
    <3> QED
      BY <1>9, <2>3, <3>2, <3>3 DEF Corrected
  <2> QED
    BY <1>1, <1>8, <2>2, <2>3 DEF Corrected
<1>10. \A entry : Rated(u, entry) => Rated(u, entry)'
  BY <1>1, <1>3, <1>6 DEF Rated, Grades
<1>11. Lists(u) => Lists(u)'
  BY <1>1, <1>6, <1>7, <1>10 DEF Lists, Brings, Adds, Asking
<1>12. Omits(u) => Omits(u)'
  BY <1>1, <1>6, <1>7 DEF Omits, Withdraws, Asking
<1>13. Present(u)' <=> Present(u)
  BY <1>3 DEF Present
<1> QED
  BY <1>9, <1>11, <1>12, <1>13 DEF Faithful

\* The worker goes on; when it fails it forgets only those whose page is then outdated.
LEMMA ServeFaithful ==
  ASSUME TypeOK, DCInv, DCCopyInv, ListTypeOK, NEW u \in Watchers, Faithful(u), ServeBus, u \notin outdated'
  PROVE  Faithful(u)'
<1>1. u \in Users /\ UNCHANGED <<shown, gets, answers, inbox, formerly, orders>>
  BY RoomsAssumption DEF ServeBus, Work, rooms
<1>2. UNCHANGED <<domain, members, role>>
  BY HandlersAct, WorkerLeavesDomain DEF ServeBus, Work, vars
<1>3. ASSUME NEW x, Waits(x), Brings(x, u) \/ Withdraws(x, u) \/ Grades(x, u)
      PROVE  Waits(x)'
  <2>1. Adds(x) => x.user = u
    BY <1>3 DEF Brings, Withdraws, Grades, Adds
  <2>2. faults' > faults => u \notin Untold
    BY DEF ServeBus
  <2> QED
    BY <1>3, <2>1, <2>2, WorkWaits DEF ServeBus
<1>4. \A x : Comes(x, u) /\ (Brings(x, u) \/ Withdraws(x, u) \/ Grades(x, u)) => Comes(x, u)'
  BY <1>1, <1>3 DEF Comes
<1>5. Fetched(u)' = Fetched(u) /\ \A k \in Get : Listed(u, k)' = Listed(u, k)
  BY <1>1, ListedIs DEF Fetched, Read, Listed, Merged, Get
<1>6. \A x, f : (Denies(x, u)' <=> Denies(x, u)) /\ (Corrects(f, x, u)' <=> Corrects(f, x, u))
  BY <1>2 DEF Denies, Corrects, Withdraws, Grades, Brings, Adds
<1>7. \A x, f : Corrects(f, x, u) => Brings(f, u) \/ Grades(f, u)
  BY DEF Corrects
<1>8. Corrected(u) => Corrected(u)'
  BY <1>1, <1>3, <1>6, <1>7 DEF Corrected
<1>9. \A entry : Rated(u, entry) => Rated(u, entry)'
  BY <1>1, <1>2, <1>4 DEF Rated, Grades
<1>10. Lists(u) => Lists(u)'
  BY <1>1, <1>4, <1>5, <1>9 DEF Lists, Brings, Adds, Asking
<1>11. Omits(u) => Omits(u)'
  BY <1>1, <1>4, <1>5 DEF Omits, Withdraws, Asking
<1>12. Present(u)' <=> Present(u)
  BY <1>2 DEF Present
<1> QED
  BY <1>8, <1>10, <1>11, <1>12 DEF Faithful

-----------------------------------------------------------------------------
\* The answer of a create, a leave or a deletion follows the one event of it.
LEMMA ChangeAnswers ==
  ASSUME IInv, DCInv, DCCopyInv, AnswerInv, DomainStep
  PROVE  AnswerInv'
<1>1. PICK r \in Requests : RequestStep(r)
  BY DEF DomainStep
<1>2. /\ pc \in [Requests -> {"idle", "check1", "check2", "commit", "publish", "closed"}]
      /\ unsent \in [Requests -> Seq(Event)] /\ call \in [Requests -> Calls \cup {NoCall}]
  BY DEF IInv, TypeOK
<1>3. /\ Spaced' => Spaced
      /\ \A q \in Requests : pc[q] = "publish" /\ call[q].op \in {"create", "leave", "delete"} =>
           /\ unsent[q] = Events(call[q])
           /\ Spaced /\ call[q].op = "create" => domain = "live"
  BY StillSpaced DEF AnswerInv
<1>4. CASE \/ CreateDomain(r) \/ RenameDomain(r) \/ AddUser(r) \/ RemoveUser(r)
           \/ SetRole(r) \/ TransferOwnership(r) \/ DeleteDomain(r)
  <2>1. /\ unsent' = [unsent EXCEPT ![r] = Events(call[r])] /\ call' = call
        /\ pc' = [pc EXCEPT ![r] = "publish"]
    BY <1>4 DEF CreateDomain, RenameDomain, AddUser, RemoveUser, SetRole, TransferOwnership, DeleteDomain,
         Committed
  <2>2. call[r].op = "create" => domain' = "live"
    BY <1>4 DEF CreateDomain, RenameDomain, AddUser, RemoveUser, SetRole, TransferOwnership, DeleteDomain,
         InsertDomain
  <2>3. Spaced' => \A q \in Requests : q # r => pc[q] # "publish"
    BY <1>3, <1>4, CommitAlone DEF DCInv, DCCopyInv, Open
  <2> QED
    BY <1>2, <1>3, <2>1, <2>2, <2>3 DEF AnswerInv
<1>5. CASE Publish(r)
  <2>1. /\ pc[r] = "publish" /\ call' = call /\ domain' = domain
        /\ \A q \in Requests : q # r => pc'[q] = pc[q] /\ unsent'[q] = unsent[q]
        /\ Tail(unsent[r]) = <<>> => pc'[r] = "closed"
    BY <1>2, <1>5 DEF Publish, tables
  <2>2. ASSUME call[r].op \in {"create", "leave", "delete"}
        PROVE  Tail(unsent[r]) = <<>>
    <3>1. \A e : Tail(<<e>>) = <<>>
      OBVIOUS
    <3>2. \E e : Events(call[r]) = <<e>>
      BY <2>2 DEF Events
    <3> QED
      BY <1>3, <2>1, <2>2, <3>1, <3>2
  <2> QED
    BY <1>3, <2>1, <2>2 DEF AnswerInv
<1>6. CASE Begin(r) \/ Check1(r) \/ Check2(r) \/ TransactionFails(r) \/ PublishFails(r)
  <2>1. /\ pc'[r] # "publish" /\ domain' = domain
        /\ \A q \in Requests : q # r => pc'[q] = pc[q] /\ call'[q] = call[q] /\ unsent'[q] = unsent[q]
    BY <1>2, <1>6 DEF Begin, Check1, Check2, TransactionFails, PublishFails, tables
  <2> QED
    BY <1>3, <2>1 DEF AnswerInv
<1> QED
  BY <1>1, <1>4, <1>5, <1>6 DEF RequestStep

\* What leaves the domain service alone.
LEMMA ServiceAlone ==
  ASSUME TypeOK, DCInv, [ListNext]_listVars
  PROVE  /\ Change \/ (UNCHANGED vars /\ Spaced' = Spaced)
         /\ Spaced' => Spaced
<1>1. CASE Change
  BY <1>1, StillSpaced DEF Change, DomainChanges
<1>2. CASE Work \/ \E p \in written : Tell(p)
  BY <1>2, HandlersAct, WorkerLeavesDomain, WorkerSettles DEF Work, Tell, DCInv
<1>3. CASE \/ Emit \/ UNCHANGED listVars
           \/ \E u \in Watchers : \/ Connect(u) \/ ReadDomains(u) \/ JoinRooms(u)
                                  \/ Break(u) \/ Expired(u) \/ PageStep(u)
  <2>1. UNCHANGED dcVars
    BY <1>3 DEF Emit, Obey, Connect, ReadDomains, JoinRooms, Break, Expired, Disconnect, PageStep, ViewDetails,
       Renew, HearJoined, HearLeft, HearDeleted, HearRoleUpdated, Hears, ReadList, ReadUsers, GetArrives,
       GetFails, Created, Left, Deleted, Takes, listVars, roomVars
  <2>2. UNCHANGED <<hurried, overlapped, lost>>
    BY <2>1 DEF dcVars, vars
  <2> QED
    BY <2>1, <2>2 DEF dcVars, Spaced
<1> QED
  BY <1>1, <1>2, <1>3 DEF ListNext, ServeBus

LEMMA StepAnswers ==
  ASSUME IInv, DCInv, DCCopyInv, AnswerInv, [ListNext]_listVars
  PROVE  AnswerInv'
<1>1. CASE Change
  BY <1>1, ChangeAnswers DEF Change, DomainChanges
<1>2. CASE UNCHANGED vars /\ Spaced' = Spaced
  BY <1>2 DEF AnswerInv, vars
<1> QED
  BY <1>1, <1>2, ServiceAlone DEF IInv

\* A message is handed to an open socket, of the user it concerns or in the room.
LEMMA EmitInbox ==
  ASSUME ListTypeOK, InboxInv, Emit
  PROVE  InboxInv'
<1> DEFINE h == Head(orders)
<1>1. h \in Event /\ conn' = conn
  BY DEF Emit, Obey, ListTypeOK, RoomsTypeOK
<1>2. ASSUME NEW u \in Users
      PROVE  /\ inbox'[u] # <<>> => conn[u] = "on"
             /\ \A i \in DOMAIN inbox'[u] : inbox'[u][i].kind = "DELETED" \/ inbox'[u][i].user = u
  <2>1. inbox[u] \in Seq(Event)
    BY DEF ListTypeOK
  <2>2. /\ inbox[u] # <<>> => conn[u] = "on"
        /\ \A i \in DOMAIN inbox[u] : inbox[u][i].kind = "DELETED" \/ inbox[u][i].user = u
    BY DEF InboxInv
  <2>3. CASE inbox'[u] = inbox[u]
    BY <2>2, <2>3
  <2>4. CASE inbox'[u] # inbox[u]
    <3>1. inbox'[u] = Append(inbox[u], h) /\ Reaches(h, u)
      BY <2>4 DEF Emit, Deliveries
    <3>2. conn[u] = "on" /\ (h.kind = "DELETED" \/ h.user = u)
      BY <3>1 DEF Reaches, ListTypeOK, RoomsTypeOK
    <3>3. /\ DOMAIN inbox'[u] = DOMAIN inbox[u] \cup {Len(inbox[u]) + 1}
          /\ inbox'[u][Len(inbox[u]) + 1] = h
          /\ \A i \in DOMAIN inbox[u] : inbox'[u][i] = inbox[u][i]
      BY <1>1, <2>1, <3>1, AppendTo
    <3> QED
      BY <2>2, <3>2, <3>3
  <2> QED
    BY <2>3, <2>4
<1> QED
  BY <1>1, <1>2 DEF InboxInv

LEMMA StepInbox ==
  ASSUME ListTypeOK, InboxInv, [ListNext]_listVars
  PROVE  InboxInv'
<1> USE DEF ListTypeOK, RoomsTypeOK
<1>1. CASE Emit
  BY <1>1, EmitInbox
<1>2. ASSUME NEW v \in Watchers, v \in Users, HearJoined(v) \/ HearLeft(v) \/ HearDeleted(v) \/ HearRoleUpdated(v)
      PROVE  InboxInv'
  <2>1. inbox[v] # <<>> /\ inbox' = [inbox EXCEPT ![v] = Tail(@)] /\ conn' = conn
    BY <1>2 DEF HearJoined, HearLeft, HearDeleted, HearRoleUpdated, Hears, roomVars, rooms
  <2>2. \A i \in DOMAIN Tail(inbox[v]) : i + 1 \in DOMAIN inbox[v] /\ Tail(inbox[v])[i] = inbox[v][i + 1]
    BY <1>2, <2>1, TailOf
  <2> QED
    BY <1>2, <2>1, <2>2 DEF InboxInv
<1>3. ASSUME NEW v \in Watchers, v \in Users, Break(v) \/ Expired(v)
      PROVE  InboxInv'
  <2>1. inbox' = [inbox EXCEPT ![v] = <<>>] /\ conn' = [conn EXCEPT ![v] = "off"]
    BY <1>3 DEF Break, Expired, Disconnect, Enters
  <2> QED
    BY <1>3, <2>1 DEF InboxInv
<1>4. ASSUME NEW v \in Watchers, v \in Users,
             (Connect(v) \/ ReadDomains(v) \/ JoinRooms(v)) /\ UNCHANGED page
      PROVE  InboxInv'
  <2>1. UNCHANGED inbox /\ conn[v] # "on" /\ \A u \in Users : u # v => conn'[u] = conn[u]
    BY <1>4 DEF Connect, ReadDomains, JoinRooms, Enters, page
  <2> QED
    BY <2>1 DEF InboxInv
<1>5. CASE \/ Change \/ ServeBus \/ UNCHANGED listVars
           \/ (\E p \in written : Tell(p)) /\ UNCHANGED page
           \/ \E v \in Watchers : \/ ViewDetails(v) \/ Renew(v) \/ Created(v) \/ Left(v) \/ Deleted(v)
                                  \/ \E g \in gets[v] : ReadList(v, g) \/ ReadUsers(v, g)
                                                          \/ GetArrives(v, g) \/ GetFails(v, g)
  <2>1. UNCHANGED <<inbox, conn>>
    BY <1>5 DEF Change, ServeBus, Work, Tell, ViewDetails, Renew, Created, Left, Deleted, Takes,
       ReadList, ReadUsers, GetArrives, GetFails, listVars, roomVars, rooms, page
  <2> QED
    BY <2>1 DEF InboxInv
<1> QED
  BY <1>1, <1>2, <1>3, <1>4, <1>5, RoomsAssumption DEF ListNext, PageStep

-----------------------------------------------------------------------------
\* What a page does is no business of another one.
LEMMA OtherPages ==
  ASSUME ListTypeOK, NEW v \in Watchers, PageStep(v), NEW u \in Watchers, u # v
  PROVE  /\ UNCHANGED <<dcVars, orders, formerly>>
         /\ inbox'[u] = inbox[u] /\ shown'[u] = shown[u] /\ gets'[u] = gets[u] /\ answers'[u] = answers[u]
         /\ u \in outdated' <=> u \in outdated
<1> USE DEF ListTypeOK, roomVars, rooms
<1>1. u \in Users /\ v \in Users
  BY RoomsAssumption
<1>2. CASE ViewDetails(v) \/ Renew(v)
  BY <1>1, <1>2 DEF ViewDetails, Renew, Refetch
<1>3. CASE HearJoined(v) \/ HearLeft(v) \/ HearDeleted(v) \/ HearRoleUpdated(v)
  BY <1>1, <1>3 DEF HearJoined, HearLeft, HearDeleted, HearRoleUpdated, Hears, Show
<1>4. ASSUME NEW g \in gets[v], ReadList(v, g) \/ ReadUsers(v, g) \/ GetArrives(v, g) \/ GetFails(v, g)
      PROVE  /\ UNCHANGED <<dcVars, orders, formerly>>
             /\ inbox'[u] = inbox[u] /\ shown'[u] = shown[u] /\ gets'[u] = gets[u] /\ answers'[u] = answers[u]
             /\ u \in outdated' <=> u \in outdated
  BY <1>1, <1>4 DEF ReadList, ReadUsers, GetArrives, GetFails, Show
<1>5. CASE Created(v) \/ Left(v) \/ Deleted(v)
  BY <1>1, <1>5 DEF Created, Left, Deleted, Takes, Show
<1> QED
  BY <1>2, <1>3, <1>4, <1>5 DEF PageStep

LEMMA PageFaithful ==
  ASSUME IInv, ListTypeOK, LiveInv, InboxInv, NEW u \in Watchers, PageStep(u),
         u \notin outdated => Faithful(u), u \notin outdated'
  PROVE  Faithful(u)'
<1>1. u \in Users
  BY RoomsAssumption
<1>2. CASE ViewDetails(u)
  <2>1. /\ UNCHANGED <<dcVars, orders, formerly, shown, answers, inbox, outdated>>
        /\ gets'[u] = gets[u] \cup {Asking("users")}
    BY <1>1, <1>2 DEF ViewDetails, roomVars, rooms, ListTypeOK
  <2> QED
    BY <1>1, <2>1, AskFaithful
<1>3. CASE Renew(u)
  <2>1. /\ UNCHANGED <<dcVars, orders, formerly, shown, answers, inbox, outdated>>
        /\ gets'[u] = gets[u] \cup {Asking("list")}
    BY <1>1, <1>3 DEF Renew, Refetch, ListTypeOK
  <2> QED
    BY <1>1, <2>1, AskFaithful
<1>4. CASE HearJoined(u) \/ HearLeft(u) \/ HearDeleted(u) \/ HearRoleUpdated(u)
  <2>1. u \notin outdated
    BY <1>4 DEF HearJoined, HearLeft, HearDeleted, HearRoleUpdated, Hears
  <2> QED
    BY <1>4, <2>1, HearsFaithful
<1>5. ASSUME NEW g \in gets[u], ReadList(u, g)
      PROVE  Faithful(u)'
  BY <1>5, ReadListFaithful DEF IInv
<1>6. ASSUME NEW g \in gets[u], GetArrives(u, g)
      PROVE  Faithful(u)'
  <2>1. u \notin outdated
    BY <1>6 DEF GetArrives
  <2> QED
    BY <1>6, <2>1, ArrivesFaithful
<1>7. ASSUME NEW g \in gets[u], ReadUsers(u, g) \/ GetFails(u, g)
      PROVE  Faithful(u)'
  <2>1. u \notin outdated
    BY <1>7 DEF ReadUsers, GetFails
  <2> QED
    BY <1>7, <2>1, UsersFaithful
<1>8. CASE Created(u) \/ Left(u) \/ Deleted(u)
  <2>1. PICK op : Takes(u, op)
    BY <1>8 DEF Created, Left, Deleted
  <2>2. u \notin outdated
    BY <2>1 DEF Takes
  <2> QED
    BY <2>1, <2>2, TakesFaithful
<1> QED
  BY <1>2, <1>3, <1>4, <1>5, <1>6, <1>7, <1>8 DEF PageStep

LEMMA StepPages ==
  ASSUME IInv, IInv', DCInv, DCCopyInv, ListTypeOK, LiveInv, PageInv, [ListNext]_listVars
  PROVE  PagesInv'
<1> SUFFICES ASSUME Spaced', NEW u \in Watchers, u \notin outdated' PROVE Faithful(u)'
  BY DEF PagesInv
<1>1. u \in Users /\ Spaced /\ AnswerInv /\ InboxInv
  BY ServiceAlone, RoomsAssumption DEF PageInv, IInv
<1>2. u \notin outdated => Faithful(u)
  BY <1>1 DEF PageInv, PagesInv
<1>3. CASE Change
  BY <1>1, <1>2, <1>3, ChangeFaithful DEF Change
<1>4. CASE Emit
  <2>1. u \notin outdated
    BY <1>4 DEF Emit, Deliveries
  <2> QED
    BY <1>1, <1>2, <1>4, <2>1, EmitFaithful
<1>5. CASE (\E p \in written : Tell(p)) /\ UNCHANGED page
  BY <1>1, <1>2, <1>5, TellFaithful DEF page
<1>6. CASE ServeBus
  <2>1. u \notin outdated
    BY <1>6 DEF ServeBus
  <2> QED
    BY <1>2, <1>6, <2>1, ServeFaithful DEF IInv
<1>7. ASSUME NEW v \in Watchers, PageStep(v)
      PROVE  Faithful(u)'
  <2>1. CASE v = u
    BY <1>1, <1>2, <1>7, <2>1, PageFaithful
  <2>2. CASE v # u
    BY <1>1, <1>2, <1>7, <2>2, OtherPages, SamePage
  <2> QED
    BY <2>1, <2>2
<1>8. ASSUME NEW v \in Watchers, Break(v) \/ Expired(v)
      PROVE  Faithful(u)'
  <2>1. u \notin outdated /\ v \in Users
    BY <1>8, RoomsAssumption DEF Break, Expired
  <2>2. CASE v = u
    BY <1>2, <1>8, <2>1, <2>2, BreakFaithful
  <2>3. CASE v # u
    <3>1. /\ UNCHANGED <<dcVars, orders, formerly>>
          /\ inbox'[u] = inbox[u] /\ shown'[u] = shown[u] /\ gets'[u] = gets[u] /\ answers'[u] = answers[u]
      BY <1>1, <1>8, <2>1, <2>3 DEF Break, Expired, Disconnect, Refetch, ListTypeOK
    <3> QED
      BY <1>1, <1>2, <2>1, <3>1, SamePage
  <2> QED
    BY <2>2, <2>3
<1>9. CASE \/ UNCHANGED listVars
           \/ \E v \in Watchers : (Connect(v) \/ ReadDomains(v) \/ JoinRooms(v)) /\ UNCHANGED page
  <2>1. UNCHANGED <<dcVars, orders, page>>
    BY <1>9 DEF Connect, ReadDomains, JoinRooms, listVars, roomVars, rooms
  <2>2. UNCHANGED <<shown, gets, answers, inbox, formerly, outdated>>
    BY <2>1 DEF page
  <2> QED
    BY <1>1, <1>2, <2>1, <2>2, SamePage
<1> QED
  BY <1>3, <1>4, <1>5, <1>6, <1>7, <1>8, <1>9 DEF ListNext

LEMMA InitPageInv ==
  ASSUME ListInit
  PROVE  PageInv
<1>1. /\ pc = [r \in Requests |-> "idle"] /\ orders = <<>> /\ inbox = [u \in Users |-> <<>>]
      /\ gets = [u \in Users |-> IF u \in Watchers THEN {Asking("list")} ELSE {}]
  BY DEF ListInit, RoomsInit, DCInit, Init
<1>2. AnswerInv
  BY <1>1 DEF AnswerInv
<1>3. InboxInv
  BY <1>1 DEF InboxInv
<1>4. \A u \in Watchers : Corrected(u) /\ Lists(u) /\ Omits(u)
  BY <1>1, RoomsAssumption DEF Corrected, Lists, Omits
<1> QED
  BY <1>2, <1>3, <1>4 DEF PageInv, PagesInv, Faithful

\* While requests wait for one another's events, the page of a member is about to ask
\* for the list, or will be told of the domain, or lists it with a role the user has,
\* had, or will be told to replace; that of anybody else is about to ask, or will be
\* told, or does not list it; except for a page that lost or reordered what it was
\* told.  For any number of pages, requests, failures and disconnections.
THEOREM PagesInvariant == ListSpec => []PageInv
<1>1. /\ IInv /\ IInv' /\ DCInv /\ DCCopyInv /\ ListTypeOK /\ RoomsInv /\ PageInv
      /\ [ListNext]_listVars
      => PageInv'
  BY StepPages, StepAnswers, StepInbox DEF PageInv, RoomsInv
<1>2. ListInit => PageInv
  BY InitPageInv
<1> QED
  BY <1>1, <1>2, ListTypeCorrect, RoomsInvariant, CopyInvariant, ReplicaInvariant, ListImplementsReplica,
     ReplicaImplementsDomain, InductiveInvariant, PTL DEF ListSpec

\* A page that has heard everything lists the domain exactly if its user is a member,
\* and with a role he has, or had before, for any sets of users and of pages.
THEOREM PagesShowTheMembershipAlways == ListSpec => []PagesShowTheMembership
<1>1. IInv /\ PageInv => PagesShowTheMembership
  <2> SUFFICES ASSUME IInv, PageInv, Spaced, AllTold, NEW u \in Watchers, Informed(u)
               PROVE  /\ shown[u] # NoRole <=> domain = "live" /\ u \in members
                      /\ shown[u] \in {role[u], NoRole} \cup formerly[u]
    BY DEF PagesShowTheMembership
  <2>1. Faithful(u)
    BY DEF PageInv, PagesInv, Informed
  <2>2. /\ fresh \cup written = {} /\ orders = <<>> /\ inbox[u] = <<>> /\ gets[u] = {} /\ answers[u] = {}
        /\ \A p \in parked : Adds(published[p])
        /\ \A p \in Positions : Kind(p) \in Subscribed => p \in handled
        /\ \A r \in Requests : ~Open(r)
    BY DEF AllTold, AllHandled, Informed
  <2>3. Untried = {}
    BY <2>2 DEF Untried
  <2>4. \A r \in Requests : unsent[r] = <<>>
    BY <2>2 DEF IInv, SendingInv, Open
  <2>5. \A e : ~Comes(e, u)
    BY <2>2, <2>3, <2>4 DEF Comes, Waits
  <2>6. Fetched(u) = {} /\ \A why : Asking(why) \notin gets[u]
    BY <2>2 DEF Fetched, Read
  <2>7. CASE Present(u)
    <3>1. shown[u] # NoRole /\ Rated(u, shown[u])
      BY <2>1, <2>5, <2>6, <2>7 DEF Faithful, Lists
    <3> QED
      BY <2>5, <2>7, <3>1 DEF Present, Rated
  <2>8. CASE ~Present(u)
    <3>1. shown[u] = NoRole
      BY <2>1, <2>5, <2>6, <2>8 DEF Faithful, Omits
    <3> QED
      BY <2>8, <3>1 DEF Present
  <2> QED
    BY <2>7, <2>8
<1> QED
  BY <1>1, PagesInvariant, ListImplementsReplica, ReplicaImplementsDomain, InductiveInvariant, PTL

=============================================================================
