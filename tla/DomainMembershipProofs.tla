----------------------- MODULE DomainMembershipProofs -----------------------
(***************************************************************************)
(* Proofs about DomainMembership, for any sets of users and requests, and  *)
(* what ReplicaDelivery does with its events, for the proofs about the     *)
(* replicas.                                                               *)
(***************************************************************************)
EXTENDS ReplicaDelivery, TLAPS

\* What the checks of its arguments guarantee of a call.
LEMMA CallFacts ==
  ASSUME NEW c \in Calls \cup {NoCall}
  PROVE  /\ c.op \in Ops =>
              /\ c \in Calls
              /\ c.actor \in Users
              /\ c.target \in Users
         /\ c.op \in {"create", "leave", "delete"} => c.target = c.actor
         /\ c.op \in {"add", "setRole"} => c.role \in Roles \ {"OWNER"}
         /\ c.op = "transfer" => c.target # c.actor
<1>1. \A g \in Granted : g \in Roles \ {"OWNER"}
  BY MembershipAssumption DEF Roles
<1>2. CASE c = NoCall
  BY <1>2 DEF NoCall, Ops
<1>3. CASE c \in Calls
  BY <1>1, <1>3 DEF Calls, CreateCalls, RenameCalls, LeaveCalls, DeleteCalls, RemoveCalls, TransferCalls,
       AddCalls, SetRoleCalls, Own, Named, CallType, Ops
<1> QED
  BY <1>2, <1>3

\* Everything a request may announce is an event.
LEMMA EventsType ==
  ASSUME NEW c \in Calls
  PROVE  Events(c) \in Seq(Event) /\ Events(c) # <<>>
<1>1. /\ c.actor \in Users
      /\ c.target \in Users
      /\ c.role \in Roles \cup {NoRole}
      /\ c.op \in Ops
      /\ c.op \in {"add", "setRole"} => c.role \in Roles
  BY MembershipAssumption DEF Calls, CreateCalls, RenameCalls, LeaveCalls, DeleteCalls, RemoveCalls,
       TransferCalls, AddCalls, SetRoleCalls, Own, Named, CallType, Roles
<1>2. \A kind \in {"CREATED", "UPDATED", "ADDED", "REMOVED", "ROLE", "DELETED"}, u \in Users,
         g \in Roles \cup {NoRole}, i \in Users \cup {NoUser} :
        g \in Roles \/ kind \in {"UPDATED", "REMOVED", "DELETED"} => Announce(kind, u, g, i) \in Event
  BY DEF Announce, Event
<1>3. \A e \in Event : <<e>> \in Seq(Event) /\ <<e>> # <<>>
  OBVIOUS
<1>4. \A e, f \in Event : <<e, f>> \in Seq(Event) /\ <<e, f>> # <<>>
  OBVIOUS
<1>5. "OWNER" \in Roles /\ "ADMIN" \in Roles
  BY DEF Roles
<1> QED
  BY <1>1, <1>2, <1>3, <1>4, <1>5 DEF Events, Ops

LEMMA InitInv == Init => IInv
<1> SUFFICES ASSUME Init PROVE IInv
  OBVIOUS
<1>1. TypeOK
  <2>1. role \in [Users -> Roles \cup {NoRole}]
    BY MembershipAssumption DEF Init, Roles
  <2>2. ownerId \in Users \cup {NoUser} /\ domain \in {"none", "live", "deleted"}
    BY DEF Init
  <2>3. members \subseteq Users /\ everOwner \subseteq Users
    BY DEF Init, Owners
  <2>4. /\ call \in [Requests -> Calls \cup {NoCall}]
        /\ unsent \in [Requests -> Seq(Event)]
        /\ published \in Seq(Event)
    BY DEF Init
  <2> QED
    BY <2>1, <2>2, <2>3, <2>4 DEF Init, TypeOK
<1>2. \A r \in Requests : ~Open(r) /\ ~Checked(r) /\ pc[r] = "idle"
  BY DEF Init, Open, Checked
<1>3. domain = "live" => Owners = {ownerId}
  BY DEF Init
<1>4. Owners \subseteq everOwner
  BY DEF Init
<1>5. domain = "none" => \A u \in Users : role[u] = NoRole
  BY DEF Init
<1> QED
  BY <1>1, <1>2, <1>3, <1>4, <1>5
  DEF Init, IInv, MembershipMatchesRole, SendingInv, NotCreatedInv, ProvenanceInv, ExclusiveInv

\* The tables after a committed transaction, whichever it is: the two tables
\* agree, and the request announces what it did.
LEMMA CommitKeepsTables ==
  ASSUME IInv, NEW r \in Requests,
         \/ CreateDomain(r) \/ RenameDomain(r) \/ AddUser(r) \/ RemoveUser(r)
         \/ SetRole(r) \/ TransferOwnership(r) \/ DeleteDomain(r)
  PROVE  /\ domain' \in {"live", "deleted"}
         /\ domain' = "live" => domain \in {"none", "live"}
         /\ ownerId' \in Users \cup {NoUser}
         /\ members' \subseteq Users
         /\ role' \in [Users -> Roles \cup {NoRole}]
         /\ MembershipMatchesRole'
         /\ call[r] \in Calls
         /\ Committed(r)
<1>1. /\ call[r] \in Calls \cup {NoCall}
      /\ domain \in {"none", "live", "deleted"}
      /\ ownerId \in Users \cup {NoUser}
      /\ members \subseteq Users
      /\ role \in [Users -> Roles \cup {NoRole}]
      /\ MembershipMatchesRole
      /\ NotCreatedInv
  BY DEF IInv, TypeOK
<1>2. pc[r] = "commit" => Open(r)
  BY DEF Open
<1>3. NoRole \notin Roles /\ "OWNER" \in Roles /\ "ADMIN" \in Roles
  BY DEF Roles, NoRole
<1>4. CASE CreateDomain(r)
  BY <1>1, <1>3, <1>4, CallFacts DEF CreateDomain, InsertDomain, InsertMember, InsertRole, MembershipMatchesRole, Ops
<1>5. CASE AddUser(r)
  BY <1>1, <1>2, <1>3, <1>5, CallFacts
  DEF AddUser, InsertMember, InsertRole, MembershipMatchesRole, Ops, NotCreatedInv, Committed
<1>6. CASE RemoveUser(r)
  BY <1>1, <1>2, <1>3, <1>6, CallFacts
  DEF RemoveUser, DeleteMember, DeleteRole, MembershipMatchesRole, Ops, NotCreatedInv, Committed
<1>7. CASE SetRole(r)
  BY <1>1, <1>2, <1>3, <1>7, CallFacts
  DEF SetRole, MembershipMatchesRole, Ops, NotCreatedInv, Committed
<1>8. CASE TransferOwnership(r)
  BY <1>1, <1>2, <1>3, <1>8, CallFacts
  DEF TransferOwnership, UpdateOwner, Regraded, MembershipMatchesRole, Ops, NotCreatedInv, Committed
<1>9. CASE DeleteDomain(r)
  BY <1>1, <1>2, <1>3, <1>9, CallFacts
  DEF DeleteDomain, MarkDeleted, MembershipMatchesRole, Ops
<1>10. CASE RenameDomain(r)
  BY <1>1, <1>3, <1>10, CallFacts DEF RenameDomain, tables, MembershipMatchesRole, Ops
<1> QED
  BY <1>10, <1>4, <1>5, <1>6, <1>7, <1>8, <1>9

\* The role OWNER after a committed transaction, as long as no transfer has
\* overlapped another request.
LEMMA CommitKeepsExclusive ==
  ASSUME IInv, NEW r \in Requests,
         \/ CreateDomain(r) \/ RenameDomain(r) \/ AddUser(r) \/ RemoveUser(r)
         \/ SetRole(r) \/ TransferOwnership(r) \/ DeleteDomain(r)
  PROVE  ExclusiveInv'
<1> SUFFICES ASSUME "transfer" \notin overlapped'
             PROVE  /\ domain' = "live" => Owners' = {ownerId'}
                    /\ \A s, t \in Requests :
                         Open(s)' /\ Open(t)' /\ call'[s].op = "transfer" => s = t
                    /\ \A s \in Requests :
                         /\ call'[s].op = "remove" /\ Checked(s)' => role'[call'[s].target] # "OWNER"
                         /\ call'[s].op \in {"leave", "setRole"} /\ pc'[s] = "commit"
                              => role'[call'[s].target] # "OWNER"
                         /\ call'[s].op = "transfer" /\ Checked(s)' => role'[call'[s].actor] = "OWNER"
                         /\ call'[s].op = "transfer" /\ pc'[s] = "commit"
                              => role'[call'[s].target] # NoRole
  BY DEF ExclusiveInv
<1>1. Committed(r)
  BY CommitKeepsTables
<1>2. /\ call' = call
      /\ overlapped' = overlapped
      /\ pc[r] = "commit"
      /\ pc' = [pc EXCEPT ![r] = "publish"]
  BY <1>1 DEF Committed
<1>3. /\ pc \in [Requests -> {"idle", "check1", "check2", "commit", "publish", "closed"}]
      /\ call \in [Requests -> Calls \cup {NoCall}]
      /\ role \in [Users -> Roles \cup {NoRole}]
      /\ ownerId \in Users \cup {NoUser}
      /\ NoRole # "OWNER"
  BY DEF IInv, TypeOK, NoRole
<1>4. /\ domain = "live" => Owners = {ownerId}
      /\ \A s, t \in Requests : Open(s) /\ Open(t) /\ call[s].op = "transfer" => s = t
      /\ \A s \in Requests :
           /\ call[s].op = "remove" /\ Checked(s) => role[call[s].target] # "OWNER"
           /\ call[s].op \in {"leave", "setRole"} /\ pc[s] = "commit" => role[call[s].target] # "OWNER"
           /\ call[s].op = "transfer" /\ Checked(s) => role[call[s].actor] = "OWNER"
           /\ call[s].op = "transfer" /\ pc[s] = "commit" => role[call[s].target] # NoRole
  BY <1>2 DEF IInv, ExclusiveInv
<1>6. \A s, t \in Requests :
        Open(s)' /\ Open(t)' /\ call'[s].op = "transfer" => s = t
  BY <1>2, <1>3, <1>4 DEF Open
\* A checked transfer would be open beside r.
<1>7. \A s \in Requests : Checked(s)' => call[s].op # "transfer"
  BY <1>2, <1>3, <1>4 DEF Open, Checked
<1>8. ASSUME NEW s \in Requests, Checked(s)',
             \/ call[s].op = "remove"
             \/ call[s].op \in {"leave", "setRole"} /\ pc'[s] = "commit"
      PROVE  role'[call[s].target] # "OWNER"
  <2>1. role[call[s].target] # "OWNER" /\ call[s].target \in Users /\ Open(s) /\ Open(r) /\ s # r
    <3>1. s # r /\ Checked(s) /\ Open(s) /\ Open(r)
      BY <1>2, <1>3, <1>8 DEF Open, Checked
    <3>2. pc'[s] = "commit" => pc[s] = "commit"
      BY <1>2, <1>3
    <3> QED
      BY <3>1, <3>2, <1>3, <1>4, <1>8, CallFacts DEF Ops
  <2>2. CASE CreateDomain(r)
    BY <2>1, <2>2, <1>8 DEF CreateDomain, InsertDomain, InsertMember, InsertRole, IInv, NotCreatedInv
  <2>3. CASE AddUser(r)
    BY <2>1, <2>3, <1>3, CallFacts DEF AddUser, InsertMember, InsertRole
  <2>4. CASE RemoveUser(r)
    BY <2>1, <2>4, <1>3 DEF RemoveUser, DeleteMember, DeleteRole
  <2>5. CASE SetRole(r)
    BY <2>1, <2>5, <1>3, CallFacts DEF SetRole
  <2>6. CASE TransferOwnership(r)
    BY <2>1, <2>6, <1>2, <1>3, <1>4 DEF TransferOwnership, UpdateOwner
  <2>7. CASE DeleteDomain(r)
    BY <2>1, <2>7 DEF DeleteDomain, MarkDeleted
  <2>8. CASE RenameDomain(r)
    BY <2>1, <2>8 DEF RenameDomain, tables
  <2> QED
    BY <2>8, <2>2, <2>3, <2>4, <2>5, <2>6, <2>7
<1>9. ASSUME domain' = "live" PROVE Owners' = {ownerId'}
  <2>1. CASE CreateDomain(r)
    BY <2>1, <1>3, CallFacts DEF CreateDomain, InsertDomain, InsertMember, InsertRole, IInv, NotCreatedInv, Owners, Ops
  <2>2. CASE AddUser(r)
    BY <2>2, <1>3, <1>4, <1>9, CallFacts DEF AddUser, InsertMember, InsertRole, Owners, Ops
  <2>3. CASE RemoveUser(r)
    <3>1. Checked(r)
      BY <1>2 DEF Checked
    <3>2. role[call[r].target] # "OWNER"
      BY <2>3, <3>1, <1>2, <1>4 DEF RemoveUser, DeleteMember, DeleteRole
    <3> QED
      BY <2>3, <3>2, <1>3, <1>4, <1>9 DEF RemoveUser, DeleteMember, DeleteRole, Owners
  <2>4. CASE SetRole(r)
    BY <2>4, <1>2, <1>3, <1>4, <1>9, CallFacts DEF SetRole, Owners, Ops
  <2>5. CASE TransferOwnership(r)
    <3>1. /\ call[r].op = "transfer" /\ domain = "live"
          /\ role[call[r].actor] = "OWNER" /\ role[call[r].target] # NoRole
          /\ call[r].target # call[r].actor
          /\ call[r].target \in Users /\ call[r].actor \in Users
      BY <2>5, <1>2, <1>3, <1>4, <1>9, CallFacts DEF TransferOwnership, UpdateOwner, Ops, Checked
    <3>2. role' = [role EXCEPT ![call[r].actor] = "ADMIN", ![call[r].target] = "OWNER"]
      BY <2>5, <3>1, <1>3 DEF TransferOwnership, UpdateOwner, Regraded
    <3>3. ownerId' = call[r].target /\ Owners = {call[r].actor}
      BY <2>5, <3>1, <1>4 DEF TransferOwnership, UpdateOwner, Owners
    <3> QED
      BY <3>1, <3>2, <3>3, <1>3 DEF Owners
  <2>6. CASE DeleteDomain(r)
    BY <2>6, <1>9 DEF DeleteDomain, MarkDeleted
  <2>7. CASE RenameDomain(r)
    BY <2>7, <1>4 DEF RenameDomain, tables, Owners
  <2> QED
    BY <2>7, <2>1, <2>2, <2>3, <2>4, <2>5, <2>6
<1>10. \A s \in Requests : pc'[s] = "commit" => Checked(s)'
  BY DEF Checked
<1>11. \A s \in Requests :
        /\ call'[s].op = "remove" /\ Checked(s)' => role'[call'[s].target] # "OWNER"
        /\ call'[s].op \in {"leave", "setRole"} /\ pc'[s] = "commit"
             => role'[call'[s].target] # "OWNER"
  BY <1>2, <1>8, <1>10 DEF Checked
<1>12. \A s \in Requests : Checked(s)' => call'[s].op # "transfer"
  BY <1>2, <1>7 DEF Checked
<1> QED
  BY <1>6, <1>9, <1>10, <1>11, <1>12 DEF Checked

\* A committed transaction, whichever it is, keeps the inductive invariant.
LEMMA CommitKeepsInv ==
  ASSUME IInv, NEW r \in Requests,
         \/ CreateDomain(r) \/ RenameDomain(r) \/ AddUser(r) \/ RemoveUser(r)
         \/ SetRole(r) \/ TransferOwnership(r) \/ DeleteDomain(r)
  PROVE  IInv'
<1>1. /\ domain' \in {"live", "deleted"}
      /\ ownerId' \in Users \cup {NoUser}
      /\ members' \subseteq Users
      /\ role' \in [Users -> Roles \cup {NoRole}]
      /\ MembershipMatchesRole'
      /\ call[r] \in Calls
      /\ Committed(r)
  BY CommitKeepsTables
<1>2. TypeOK /\ SendingInv /\ ProvenanceInv
  BY DEF IInv
<1>3. TypeOK'
  BY <1>1, <1>2, EventsType DEF TypeOK, Committed
<1>4. SendingInv'
  BY <1>1, <1>2, EventsType DEF SendingInv, Committed, TypeOK, Open
<1>5. NotCreatedInv'
  BY <1>1 DEF NotCreatedInv
<1>6. ProvenanceInv'
  BY <1>1, <1>2 DEF ProvenanceInv, Committed, Owners, Checked, TypeOK
<1>7. ExclusiveInv'
  BY CommitKeepsExclusive
<1> QED
  BY <1>1, <1>3, <1>4, <1>5, <1>6, <1>7 DEF IInv

-----------------------------------------------------------------------------
\* A step of a request that leaves the tables and the history of owners alone.
LEMMA QuietKeepsTables ==
  ASSUME IInv, UNCHANGED <<tables, everOwner>>
  PROVE  /\ MembershipMatchesRole'
         /\ Owners' = Owners
         /\ domain' = domain /\ ownerId' = ownerId /\ role' = role
         /\ Owners \subseteq everOwner
BY DEF IInv, tables, MembershipMatchesRole, Owners, ProvenanceInv

LEMMA BeginKeepsInv ==
  ASSUME IInv, NEW r \in Requests, Begin(r)
  PROVE  IInv'
<1>1. PICK c \in Calls :
        /\ c.op = "create" <=> domain = "none"
        /\ call' = [call EXCEPT ![r] = c]
        /\ pc' = [pc EXCEPT ![r] = IF c.op = "create" THEN "commit" ELSE "check1"]
        /\ overlapped' =
             overlapped \cup
             (IF \E s \in Requests : Open(s)
              THEN {c.op} \cup {call[s].op : s \in {t \in Requests : Open(t)}}
              ELSE {})
  BY DEF Begin
<1>2. /\ pc[r] = "idle"
      /\ UNCHANGED <<tables, unsent, published, lost, everOwner>>
      /\ c.op \in Ops
  BY <1>1, CallFacts DEF Begin, Calls, CreateCalls, RenameCalls, LeaveCalls, DeleteCalls, RemoveCalls, TransferCalls,
       AddCalls, SetRoleCalls, Own, Named, CallType
<1>3. TypeOK /\ SendingInv /\ NotCreatedInv /\ ProvenanceInv /\ ExclusiveInv
  BY DEF IInv
<1>4. \A s \in Requests : Open(s) => call[s].op \in Ops
  BY <1>3 DEF SendingInv, Calls, CreateCalls, RenameCalls, LeaveCalls, DeleteCalls, RemoveCalls, TransferCalls,
       AddCalls, SetRoleCalls, Own, Named, CallType
<1>5. TypeOK'
  BY <1>1, <1>2, <1>3, <1>4 DEF TypeOK, tables
<1>6. MembershipMatchesRole' /\ Owners' = Owners /\ role' = role
      /\ domain' = domain /\ ownerId' = ownerId
  BY <1>2, QuietKeepsTables
<1>7. SendingInv'
  BY <1>1, <1>2, <1>3 DEF SendingInv, TypeOK, Open
<1>8. NotCreatedInv'
  BY <1>1, <1>2, <1>3, <1>6 DEF NotCreatedInv, TypeOK, Open
<1>9. ProvenanceInv'
  BY <1>1, <1>2, <1>3, <1>6 DEF ProvenanceInv, TypeOK, Checked
<1>10. ASSUME "transfer" \notin overlapped'
       PROVE  /\ "transfer" \notin overlapped
              /\ \A s \in Requests : Open(s) => call[s].op # "transfer" /\ c.op # "transfer"
  BY <1>1, <1>10
<1>11. ExclusiveInv'
  BY <1>1, <1>2, <1>3, <1>6, <1>10 DEF ExclusiveInv, TypeOK, Open, Checked
<1> QED
  BY <1>5, <1>6, <1>7, <1>8, <1>9, <1>11 DEF IInv

LEMMA CheckKeepsInv ==
  ASSUME IInv, NEW r \in Requests, Check1(r) \/ Check2(r)
  PROVE  IInv'
<1>1. TypeOK /\ SendingInv /\ NotCreatedInv /\ ProvenanceInv /\ ExclusiveInv
  BY DEF IInv
<1>2. UNCHANGED <<tables, call, unsent, published, lost, everOwner, overlapped>>
  BY DEF Check1, Check2
<1>3. MembershipMatchesRole' /\ Owners' = Owners /\ role' = role
      /\ domain' = domain /\ ownerId' = ownerId
  BY <1>2, QuietKeepsTables
<1>4. TypeOK'
  BY <1>1, <1>2 DEF TypeOK, tables, Check1, Check2
<1>5. SendingInv'
  BY <1>1, <1>2 DEF SendingInv, TypeOK, Open, Check1, Check2
<1>6. NotCreatedInv'
  BY <1>1, <1>2, <1>3 DEF NotCreatedInv, TypeOK, Open, Check1, Check2
<1>7. call[r].op = "transfer" /\ Checked(r)' => role[call[r].actor] = "OWNER" \/ Checked(r)
  BY <1>1 DEF Check1, Check2, FirstCheck, RenameFirst, AddFirst, RemoveFirst, LeaveFirst,
        SetRoleFirst, TransferFirst, DeleteFirst, Checked, TypeOK
<1>8. ProvenanceInv'
  <2>1. \A s \in Requests : call[s].op = "transfer" /\ s # r /\ pc'[s] \in {"check2", "commit"}
          => call[s].actor \in everOwner
    BY <1>1 DEF ProvenanceInv, TypeOK, Checked, Check1, Check2
  <2>2. call[r].op = "transfer" => call[r].actor \in Users
    BY <1>1, CallFacts DEF TypeOK, Ops
  <2>3. call[r].op = "transfer" /\ pc'[r] \in {"check2", "commit"} => call[r].actor \in everOwner
    BY <1>1, <1>7, <2>2 DEF ProvenanceInv, Owners, Checked
  <2> QED
    BY <1>1, <1>2, <1>3, <2>1, <2>3 DEF ProvenanceInv, Checked
<1>9. ExclusiveInv'
  <2>1. CASE Check1(r)
    <3>1. call[r].op = "leave" => call[r].target = call[r].actor
      BY <1>1, CallFacts DEF TypeOK
    <3> QED
      BY <2>1, <3>1, <1>1, <1>2, <1>3 DEF ExclusiveInv, Check1, FirstCheck, RenameFirst, AddFirst, RemoveFirst, LeaveFirst,
        SetRoleFirst, TransferFirst, DeleteFirst, TypeOK, Open, Checked
  <2>2. CASE Check2(r)
    BY <2>2, <1>1, <1>2, <1>3 DEF ExclusiveInv, Check2, SecondCheck, AddSecond, RemoveSecond,
        SetRoleSecond, TransferSecond, TypeOK, Open, Checked
  <2> QED
    BY <2>1, <2>2
<1> QED
  BY <1>3, <1>4, <1>5, <1>6, <1>8, <1>9 DEF IInv

\* A request that sends an event or ends, whatever the reason.
LEMMA EndKeepsInv ==
  ASSUME IInv, NEW r \in Requests, TransactionFails(r) \/ Publish(r) \/ PublishFails(r)
  PROVE  IInv'
<1>1. TypeOK /\ SendingInv /\ NotCreatedInv /\ ProvenanceInv /\ ExclusiveInv
  BY DEF IInv
<1>2. UNCHANGED <<tables, call, everOwner, overlapped>>
  BY DEF TransactionFails, Publish, PublishFails
<1>3. MembershipMatchesRole' /\ Owners' = Owners /\ role' = role
      /\ domain' = domain /\ ownerId' = ownerId
  BY <1>2, QuietKeepsTables
<1>4. pc[r] = "publish" => /\ unsent[r] \in Seq(Event)
                          /\ Head(unsent[r]) \in Event
                          /\ Tail(unsent[r]) \in Seq(Event)
  BY <1>1 DEF SendingInv, TypeOK
<1>5. TypeOK'
  <2>1. /\ domain' \in {"none", "live", "deleted"} /\ ownerId' \in Users \cup {NoUser}
        /\ members' \subseteq Users /\ role' \in [Users -> Roles \cup {NoRole}]
        /\ call' \in [Requests -> Calls \cup {NoCall}]
        /\ everOwner' \subseteq Users /\ overlapped' \subseteq Ops
    BY <1>1, <1>2 DEF TypeOK, tables
  <2>2. CASE TransactionFails(r)
    BY <2>1, <2>2, <1>1 DEF TypeOK, TransactionFails
  <2>3. CASE Publish(r)
    BY <2>1, <2>3, <1>1, <1>4 DEF TypeOK, Publish
  <2>4. CASE PublishFails(r)
    BY <2>1, <2>4, <1>1 DEF TypeOK, PublishFails
  <2> QED
    BY <2>2, <2>3, <2>4
<1>6. SendingInv'
  BY <1>1, <1>4 DEF SendingInv, TypeOK, Open, TransactionFails, Publish, PublishFails
<1>7. \A s \in Requests : pc'[s] = pc[s] \/ pc'[s] = "closed"
  BY <1>1 DEF TypeOK, TransactionFails, Publish, PublishFails
<1>8. NotCreatedInv'
  BY <1>1, <1>2, <1>3, <1>7 DEF NotCreatedInv, Open
<1>9. ProvenanceInv'
  BY <1>1, <1>2, <1>3, <1>7 DEF ProvenanceInv, Checked
<1>10. ExclusiveInv'
  BY <1>1, <1>2, <1>3, <1>7 DEF ExclusiveInv, Open, Checked
<1> QED
  BY <1>3, <1>5, <1>6, <1>8, <1>9, <1>10 DEF IInv

LEMMA StutterKeepsInv ==
  ASSUME IInv, UNCHANGED vars
  PROVE  IInv'
BY DEF IInv, vars, TypeOK, MembershipMatchesRole, SendingInv, NotCreatedInv, ProvenanceInv,
       ExclusiveInv, Owners, Open, Checked

LEMMA NextInv == IInv /\ [Next]_vars => IInv'
<1> SUFFICES ASSUME IInv, [Next]_vars PROVE IInv'
  OBVIOUS
<1>1. CASE UNCHANGED vars
  BY <1>1, StutterKeepsInv
<1>2. ASSUME NEW r \in Requests, RequestStep(r) PROVE IInv'
  BY <1>2, BeginKeepsInv, CheckKeepsInv, CommitKeepsInv, EndKeepsInv DEF RequestStep
<1> QED
  BY <1>1, <1>2 DEF Next, Finished

\* IInv holds in every reachable state.
THEOREM InductiveInvariant == Spec => []IInv
BY InitInv, NextInv, PTL DEF Spec

\* Every variable stays in its type.
THEOREM TypeCorrect == Spec => []TypeOK
<1>1. IInv => TypeOK
  BY DEF IInv
<1> QED
  BY <1>1, InductiveInvariant, PTL

\* user_domains and user_roles name the same users, however requests of any
\* number of users interleave and wherever they fail.
THEOREM MembershipMatchesRoleAlways == Spec => []MembershipMatchesRole
<1>1. IInv => MembershipMatchesRole
  BY DEF IInv
<1> QED
  BY <1>1, InductiveInvariant, PTL

\* A live domain has the one owner of its row as long as no transfer of the
\* ownership overlaps another request.
THEOREM OneOwnerUnlessTransferRacedAlways == Spec => []OneOwnerUnlessTransferRaced
<1>1. IInv => OneOwnerUnlessTransferRaced
  BY DEF IInv, ExclusiveInv, OneOwnerUnlessTransferRaced
<1> QED
  BY <1>1, InductiveInvariant, PTL

\* The role OWNER comes from creating the domain or from somebody who had it.
THEOREM OnlyOwnersGrantOwnershipAlways == Spec => OnlyOwnersGrantOwnership
<1> DEFINE GrantedTo(u) == role'[u] = "OWNER" /\ role[u] # "OWNER" =>
                           \E r \in Requests :
                             /\ pc[r] = "commit"
                             /\ call[r].target = u
                             /\ \/ call[r].op = "create"
                                \/ call[r].op = "transfer" /\ call[r].actor \in everOwner
<1>1. IInv /\ [Next]_vars => [\A u \in Users : GrantedTo(u)]_vars
  <2> SUFFICES ASSUME IInv, NEW r \in Requests, RequestStep(r), NEW u \in Users PROVE GrantedTo(u)
    BY DEF Next, Finished
  <2>1. /\ call \in [Requests -> Calls \cup {NoCall}]
        /\ role \in [Users -> Roles \cup {NoRole}]
        /\ NoRole # "OWNER"
    BY DEF IInv, TypeOK, NoRole
  <2>2. CASE \/ Begin(r) \/ Check1(r) \/ Check2(r) \/ RenameDomain(r) \/ DeleteDomain(r)
             \/ TransactionFails(r) \/ Publish(r) \/ PublishFails(r)
    <3>1. role' = role
      BY <2>2 DEF Begin, Check1, Check2, RenameDomain, DeleteDomain, MarkDeleted, TransactionFails, Publish,
                  PublishFails, tables
    <3> QED
      BY <3>1
  <2>3. CASE CreateDomain(r)
    BY <2>1, <2>3, CallFacts DEF CreateDomain, InsertDomain, InsertMember, InsertRole, Committed, Ops
  <2>4. CASE AddUser(r) \/ SetRole(r) \/ RemoveUser(r)
    BY <2>1, <2>4, CallFacts DEF AddUser, InsertMember, InsertRole, SetRole, RemoveUser, DeleteMember, DeleteRole
  <2>5. CASE TransferOwnership(r)
    <3>1. pc[r] = "commit" /\ call[r].op = "transfer" /\ call[r].actor \in everOwner
      BY <2>5 DEF TransferOwnership, UpdateOwner, Committed, IInv, ProvenanceInv, Checked
    <3>2. role'[u] = "OWNER" /\ role[u] # "OWNER" => u = call[r].target
      BY <2>1, <2>5 DEF TransferOwnership, UpdateOwner, Regraded
    <3> QED
      BY <3>1, <3>2
  <2> QED
    BY <2>2, <2>3, <2>4, <2>5 DEF RequestStep
<1> QED
  BY <1>1, InductiveInvariant, PTL DEF Spec, OnlyOwnersGrantOwnership

-----------------------------------------------------------------------------
(* The events and their delivery *)

\* What was published stays, and stays where it is.
PublishedGrows ==
  /\ Len(published) \in Nat /\ Len(published') \in Nat
  /\ Len(published) <= Len(published')
  /\ \A p \in Positions : published'[p] = published[p]

LEMMA StepPublishes ==
  ASSUME IInv, [Next]_vars
  PROVE  PublishedGrows
<1>1. published \in Seq(Event)
  BY DEF IInv, TypeOK
<1>2. CASE UNCHANGED published
  BY <1>1, <1>2 DEF PublishedGrows, Positions
<1>3. ASSUME NEW r \in Requests, Publish(r)
      PROVE  PublishedGrows
  <2>1. Head(unsent[r]) \in Event
    BY <1>3 DEF IInv, SendingInv, TypeOK, Publish
  <2>2. published' = Append(published, Head(unsent[r]))
    BY <1>3 DEF Publish
  <2> QED
    BY <1>1, <2>1, <2>2 DEF PublishedGrows, Positions
<1>4. ASSUME NEW r \in Requests, RequestStep(r), ~Publish(r)
      PROVE  UNCHANGED published
  BY <1>4 DEF RequestStep, Begin, Check1, Check2, CreateDomain, RenameDomain, AddUser, RemoveUser,
       SetRole, TransferOwnership, DeleteDomain, Committed, TransactionFails, PublishFails
<1>5. CASE UNCHANGED vars
  BY <1>2, <1>5 DEF vars
<1> QED
  BY <1>2, <1>3, <1>4, <1>5 DEF Next, Finished

LEMMA InitDelivery ==
  ASSUME Init, DeliveryInit
  PROVE  DeliveryInv
<1>1. Len(published) = 0
  BY DEF Init
<1>2. DeliveryTypeOK
  <2>1. fetched \in 0..Len(published) /\ faults \in 0..MaxFaults
    BY <1>1, DeliveryAssumption DEF DeliveryInit
  <2> QED
    BY <2>1 DEF DeliveryInit, DeliveryTypeOK
<1> QED
  BY <1>2 DEF DeliveryInit, DeliveryInv

LEMMA QuietDelivery ==
  ASSUME DeliveryInv, PublishedGrows, UNCHANGED delivery, hurried' \in BOOLEAN
  PROVE  DeliveryInv'
  BY DEF DeliveryInv, DeliveryTypeOK, PublishedGrows, delivery, worker, Kind, Positions

LEMMA DomainDelivery ==
  ASSUME IInv, DeliveryInv, DomainStep
  PROVE  DeliveryInv'
<1>1. [Next]_vars /\ UNCHANGED delivery /\ hurried' \in BOOLEAN
  BY DEF DomainStep, Next, DeliveryInv, DeliveryTypeOK
<1> QED
  BY <1>1, StepPublishes, QuietDelivery

\* The steps of the worker leave the domain alone.
WorkerActs ==
  \/ Fetch \/ Restart
  \/ \E k \in Subscribed : Claim(k)
  \/ \E p :
       HandlerWrote(p) \/ HandlerResolved(p) \/ HandlerRejected(p) \/ HandlerFailed(p) \/ Acknowledged(p)

LEMMA WorkerLeavesDomain ==
  ASSUME WorkerActs
  PROVE  UNCHANGED vars
  BY DEF WorkerActs, Fetch, Restart, Claim, HandlerWrote, HandlerResolved, HandlerRejected,
       HandlerFailed, Acknowledged

LEMMA WorkerDelivery ==
  ASSUME TypeOK, DeliveryInv, WorkerActs
  PROVE  DeliveryInv'
<1>1. UNCHANGED published /\ Len(published) \in Nat
  BY WorkerLeavesDomain DEF vars, TypeOK
<1>2. CASE Fetch
  BY <1>1, <1>2 DEF Fetch, DeliveryInv, DeliveryTypeOK, Kind
<1>3. CASE Restart
  <2>1. \A p \in parked' : Kind(p) \in Subscribed
    BY <1>3 DEF Restart, DeliveryInv
  <2>2. toClaim' \subseteq Subscribed
    BY <1>3, <2>1 DEF Restart
  <2>3. faults' \in 0..MaxFaults
    BY <1>3, DeliveryAssumption DEF Restart, DeliveryInv, DeliveryTypeOK
  <2> QED
    BY <1>1, <1>3, <2>2, <2>3 DEF Restart, DeliveryInv, DeliveryTypeOK, Kind
<1>4. ASSUME NEW k \in Subscribed, Claim(k)
      PROVE  DeliveryInv'
  BY <1>1, <1>4 DEF Claim, DeliveryInv, DeliveryTypeOK, Kind
<1>5. ASSUME NEW p, HandlerWrote(p) \/ HandlerResolved(p) \/ HandlerRejected(p) \/ Acknowledged(p)
      PROVE  DeliveryInv'
  BY <1>1, <1>5 DEF HandlerWrote, HandlerResolved, HandlerRejected, Acknowledged, DeliveryInv,
       DeliveryTypeOK, Kind
<1>6. ASSUME NEW p, HandlerFailed(p)
      PROVE  DeliveryInv'
  <2>1. faults' \in 0..MaxFaults
    BY <1>6, DeliveryAssumption DEF HandlerFailed, DeliveryInv, DeliveryTypeOK
  <2> QED
    BY <1>1, <1>6, <2>1 DEF HandlerFailed, DeliveryInv, DeliveryTypeOK, Kind
<1> QED
  BY <1>2, <1>3, <1>4, <1>5, <1>6 DEF WorkerActs

-----------------------------------------------------------------------------
(* Histories in which requests wait for one another's events *)

\* What a transaction announces is what it has done, unless a transfer overlapped.
LEMMA CommitTells ==
  ASSUME IInv, "transfer" \notin overlapped, NEW r \in Requests,
         \/ CreateDomain(r) \/ RenameDomain(r) \/ AddUser(r) \/ RemoveUser(r)
         \/ SetRole(r) \/ TransferOwnership(r) \/ DeleteDomain(r)
  PROVE  /\ \A i \in DOMAIN Events(call[r]) :
              Events(call[r])[i].kind \in RoleKinds =>
                /\ role'[Events(call[r])[i].user] = RoleIn(Events(call[r])[i])
                /\ RoleIn(Events(call[r])[i]) = NoRole <=> Events(call[r])[i].kind = "REMOVED"
                /\ Events(call[r])[i].kind = "ROLE" => role[Events(call[r])[i].user] # NoRole
         /\ \A u \in Users :
              role'[u] # role[u] => \E i \in DOMAIN Events(call[r]) : About(Events(call[r])[i], u)
<1> DEFINE c == call[r]
<1>1. c \in Calls /\ pc[r] = "commit"
  BY DEF CreateDomain, RenameDomain, AddUser, RemoveUser, SetRole, TransferOwnership, DeleteDomain,
         Committed, IInv, SendingInv, Open
<1>2. /\ c.actor \in Users /\ c.target \in Users
      /\ c.op \in {"create", "rename", "add", "remove", "leave", "setRole", "transfer", "delete"}
      /\ c.op = "transfer" => c.target # c.actor
      /\ c.op = "leave" => c.target = c.actor
      /\ c.op \in {"add", "setRole"} => c.role \in {"ADMIN", "MEMBER", "GUEST"}
  BY <1>1, MembershipAssumption, CallFacts
  DEF Calls, CreateCalls, RenameCalls, LeaveCalls, DeleteCalls, RemoveCalls, TransferCalls,
      AddCalls, SetRoleCalls, Own, Named, CallType, Ops
<1>3. role \in [Users -> Roles \cup {NoRole}]
  BY DEF IInv, TypeOK
<1>4. /\ c.op = "create" => CreateDomain(r)
      /\ c.op = "rename" => RenameDomain(r)
      /\ c.op = "add" => AddUser(r)
      /\ c.op \in {"remove", "leave"} => RemoveUser(r)
      /\ c.op = "setRole" => SetRole(r)
      /\ c.op = "transfer" => TransferOwnership(r)
      /\ c.op = "delete" => DeleteDomain(r)
  BY DEF CreateDomain, RenameDomain, AddUser, RemoveUser, SetRole, TransferOwnership, DeleteDomain
<1> DEFINE OK(e) == e.kind \in RoleKinds =>
                      /\ role'[e.user] = RoleIn(e)
                      /\ RoleIn(e) = NoRole <=> e.kind = "REMOVED"
                      /\ e.kind = "ROLE" => role[e.user] # NoRole
<1> HIDE DEF c
<1>5. SUFFICES /\ \A i \in DOMAIN Events(c) : OK(Events(c)[i])
               /\ \A u \in Users :
                    role'[u] # role[u] => \E i \in DOMAIN Events(c) : About(Events(c)[i], u)
  BY DEF c
<1>6. CASE c.op \in {"create", "add", "setRole"}
  <2> DEFINE u == IF c.op = "create" THEN c.actor ELSE c.target
             g == IF c.op = "create" THEN "OWNER" ELSE c.role
  <2>1. role' = [role EXCEPT ![u] = g] /\ (c.op = "setRole" => role[u] # NoRole)
    BY <1>4, <1>6 DEF c, CreateDomain, InsertRole, AddUser, SetRole
  <2>2. u \in Users /\ g # NoRole
    BY <1>2, <1>6 DEF NoRole
  <2>3. PICK k \in {"CREATED", "ADDED", "ROLE"}, b \in Users \cup {NoUser} :
          Events(c) = <<Announce(k, u, g, b)>> /\ (k = "ROLE" => c.op = "setRole")
    BY <1>2, <1>6 DEF Events
  <2> HIDE DEF u, g
  <2>4. OK(Announce(k, u, g, b))
    BY <1>3, <2>1, <2>2, <2>3 DEF Announce, RoleIn
  <2>5. \A v \in Users : role'[v] # role[v] => About(Announce(k, u, g, b), v)
    BY <1>3, <2>1, <2>2 DEF Announce, About, RoleKinds
  <2> HIDE DEF OK
  <2> QED
    BY <2>3, <2>4, <2>5
<1>7. CASE c.op \in {"remove", "leave"}
  <2>1. role' = [role EXCEPT ![c.target] = NoRole]
    BY <1>4, <1>7 DEF c, RemoveUser, DeleteRole
  <2>2. PICK b \in Users \cup {NoUser} : Events(c) = <<Announce("REMOVED", c.target, NoRole, b)>>
    BY <1>2, <1>7 DEF Events
  <2>3. OK(Announce("REMOVED", c.target, NoRole, b))
    BY <1>2, <1>3, <2>1 DEF Announce, RoleIn
  <2>4. \A v \in Users : role'[v] # role[v] => About(Announce("REMOVED", c.target, NoRole, b), v)
    BY <1>2, <1>3, <2>1 DEF Announce, About, RoleKinds
  <2> HIDE DEF OK
  <2> QED
    BY <2>2, <2>3, <2>4
<1>8. CASE c.op = "transfer"
  <2>1. role[c.actor] = "OWNER" /\ role[c.target] # NoRole
    BY <1>1, <1>8 DEF IInv, ExclusiveInv, Checked, c
  <2>2. role' = Regraded(Regraded(role, c.actor, "ADMIN"), c.target, "OWNER")
    BY <1>4, <1>8 DEF TransferOwnership, c
  <2>3. role' = [role EXCEPT ![c.actor] = "ADMIN", ![c.target] = "OWNER"]
    BY <1>2, <1>3, <1>8, <2>1, <2>2 DEF Regraded, NoRole
  <2> DEFINE e1 == Announce("ROLE", c.target, "OWNER", c.actor)
             e2 == Announce("ROLE", c.actor, "ADMIN", c.actor)
  <2>4. OK(e1) /\ OK(e2)
    BY <1>2, <1>3, <1>8, <2>1, <2>3 DEF Announce, RoleIn, NoRole
  <2>5. \A v \in Users : role'[v] # role[v] => About(e1, v) \/ About(e2, v)
    BY <1>2, <1>3, <2>3 DEF Announce, About, RoleKinds
  <2>6. Events(c) = <<e1, e2>>
    BY <1>8 DEF Events
  <2> HIDE DEF OK, e1, e2
  <2>7. Events(c)[1] = e1 /\ Events(c)[2] = e2 /\ DOMAIN Events(c) = {1, 2}
    BY <2>6
  <2> QED
    BY <2>4, <2>5, <2>7
<1>9. CASE c.op \in {"rename", "delete"}
  <2>1. role' = role
    BY <1>4, <1>9 DEF c, RenameDomain, DeleteDomain, tables
  <2>2. PICK k \in {"UPDATED", "DELETED"}, b \in Users \cup {NoUser} :
          Events(c) = <<Announce(k, c.actor, NoRole, b)>>
    BY <1>2, <1>9 DEF Events
  <2>3. OK(Announce(k, c.actor, NoRole, b))
    BY DEF Announce, RoleKinds
  <2> HIDE DEF OK
  <2> QED
    BY <2>1, <2>2, <2>3
<1> QED
  BY <1>2, <1>6, <1>7, <1>8, <1>9

LEMMA WorkerHandled ==
  ASSUME TypeOK, DeliveryInv, HandledInv, WorkerActs
  PROVE  HandledInv'
<1> USE DEF HandledInv, DeliveryInv, DeliveryTypeOK, Kind
<1>1. UNCHANGED published /\ Len(published) \in Nat
  BY WorkerLeavesDomain DEF vars, TypeOK
<1>2. CASE Fetch
  BY <1>1, <1>2 DEF Fetch
<1>3. CASE Restart
  BY <1>1, <1>3 DEF Restart
<1>4. ASSUME NEW k \in Subscribed, Claim(k)
      PROVE  HandledInv'
  BY <1>1, <1>4 DEF Claim
<1>5. ASSUME NEW p, \/ HandlerWrote(p) \/ HandlerResolved(p) \/ HandlerRejected(p)
                    \/ HandlerFailed(p) \/ Acknowledged(p)
      PROVE  HandledInv'
  BY <1>1, <1>5 DEF HandlerWrote, HandlerResolved, HandlerRejected, HandlerFailed, Acknowledged
<1> QED
  BY <1>2, <1>3, <1>4, <1>5 DEF WorkerActs

LEMMA DomainHandled ==
  ASSUME IInv, DeliveryInv, HandledInv, DomainStep
  PROVE  HandledInv'
<1>1. [Next]_vars /\ UNCHANGED delivery
  BY DEF DomainStep, Next
<1>2. PublishedGrows
  BY <1>1, StepPublishes
<1> QED
  BY <1>1, <1>2 DEF HandledInv, DeliveryInv, DeliveryTypeOK, PublishedGrows, delivery, worker, Kind, Positions

\* The worker only ever settles events.
LEMMA WorkerSettles ==
  ASSUME TypeOK, DeliveryInv, WorkerActs
  PROVE  /\ Unsettled' \subseteq Unsettled
         /\ Settled => Settled'
         /\ Spaced' = Spaced
         /\ handled \subseteq handled'
<1> USE DEF DeliveryInv, DeliveryTypeOK, Kind, Unsettled, Settled, Positions
<1>1. UNCHANGED vars /\ Len(published) \in Nat
  BY WorkerLeavesDomain DEF TypeOK
<1>2. UNCHANGED <<published, overlapped, lost>>
  BY <1>1 DEF vars
<1>3. hurried' = hurried
  BY DEF WorkerActs, Fetch, Restart, Claim, HandlerWrote, HandlerResolved, HandlerRejected,
       HandlerFailed, Acknowledged
<1>4. Spaced' = Spaced
  BY <1>2, <1>3 DEF Spaced
<1>5. CASE Fetch
  BY <1>1, <1>2, <1>4, <1>5 DEF Fetch
<1>6. CASE Restart
  BY <1>1, <1>2, <1>4, <1>6 DEF Restart
<1>7. ASSUME NEW k \in Subscribed, Claim(k)
      PROVE  Unsettled' \subseteq Unsettled /\ (Settled => Settled') /\ handled \subseteq handled'
  BY <1>1, <1>2, <1>7 DEF Claim
<1>8. ASSUME NEW p, \/ HandlerWrote(p) \/ HandlerResolved(p) \/ HandlerRejected(p)
                    \/ HandlerFailed(p) \/ Acknowledged(p)
      PROVE  Unsettled' \subseteq Unsettled /\ (Settled => Settled') /\ handled \subseteq handled'
  BY <1>1, <1>2, <1>8 DEF HandlerWrote, HandlerResolved, HandlerRejected, HandlerFailed, Acknowledged
<1> QED
  BY <1>4, <1>5, <1>6, <1>7, <1>8 DEF WorkerActs

LEMMA WorkerSpaced ==
  ASSUME TypeOK, DeliveryInv, SpacedInv, WorkerActs
  PROVE  SpacedInv'
<1>1. UNCHANGED <<role, pc, unsent, published>>
  BY WorkerLeavesDomain DEF vars
<1> QED
  BY <1>1, WorkerSettles DEF SpacedInv, Open, Holds

\* A transaction in such a history: nothing else is on its way.
LEMMA CommitAlone ==
  ASSUME IInv, DeliveryInv, SpacedInv, Spaced, NEW r \in Requests,
         \/ CreateDomain(r) \/ RenameDomain(r) \/ AddUser(r) \/ RemoveUser(r)
         \/ SetRole(r) \/ TransferOwnership(r) \/ DeleteDomain(r)
  PROVE  /\ Settled /\ Unsettled = {}
         /\ \A q \in Requests : unsent[q] = <<>> /\ (q # r => ~Open(q))
         /\ "transfer" \notin overlapped
         /\ unsent' = [unsent EXCEPT ![r] = Events(call[r])]
         /\ pc' = [pc EXCEPT ![r] = "publish"]
         /\ UNCHANGED <<published, call>>
         /\ call[r] \in Calls
<1>1. pc[r] = "commit" /\ unsent' = [unsent EXCEPT ![r] = Events(call[r])]
      /\ pc' = [pc EXCEPT ![r] = "publish"] /\ UNCHANGED <<published, call>>
  BY DEF CreateDomain, RenameDomain, AddUser, RemoveUser, SetRole, TransferOwnership, DeleteDomain,
         Committed
<1>2. Settled /\ \A q \in Requests : q # r => ~Open(q)
  BY <1>1 DEF SpacedInv, Open
<1>3. \A q \in Requests : unsent[q] = <<>>
  BY <1>1, <1>2 DEF IInv, SendingInv, Open
<1>4. Unsettled = {}
  BY <1>2 DEF Settled, Unsettled, Positions, IInv, TypeOK
<1> QED
  BY <1>1, <1>2, <1>3, <1>4 DEF Spaced, IInv, SendingInv, Open

\* The next event is sent: it is the first of those still to be sent.
LEMMA PublishMoves ==
  ASSUME IInv, DeliveryInv, NEW r \in Requests, Publish(r), UNCHANGED delivery
  PROVE  /\ Len(published) \in Nat
         /\ Positions' = Positions \cup {Len(published) + 1}
         /\ Len(published) + 1 \notin Positions \cup handled
         /\ \A p \in Positions : published'[p] = published[p]
         /\ 1 \in DOMAIN unsent[r] /\ published'[Len(published) + 1] = unsent[r][1]
         /\ \A q \in Requests : \A i \in DOMAIN unsent'[q] :
              \E j \in DOMAIN unsent[q] : unsent'[q][i] = unsent[q][j]
         /\ \A q \in Requests : \A j \in DOMAIN unsent[q] :
              \/ \E i \in DOMAIN unsent'[q] : unsent'[q][i] = unsent[q][j]
              \/ q = r /\ j = 1
         /\ Unsettled' = Unsettled \cup {Len(published) + 1}
         /\ UNCHANGED <<role, handled>>
<1>1. /\ published \in Seq(Event) /\ unsent \in [Requests -> Seq(Event)]
      /\ unsent[r] \in Seq(Event) /\ unsent[r] # <<>>
  BY DEF IInv, TypeOK, SendingInv, Publish
<1>2. published' = Append(published, Head(unsent[r])) /\ unsent' = [unsent EXCEPT ![r] = Tail(@)]
  BY DEF Publish
<1>3. Head(unsent[r]) = unsent[r][1] /\ 1 \in DOMAIN unsent[r] /\ Head(unsent[r]) \in Event
  BY <1>1
<1>4. /\ Len(published) \in Nat /\ Positions' = Positions \cup {Len(published) + 1}
      /\ Len(published) + 1 \notin Positions
      /\ \A p \in Positions : published'[p] = published[p]
      /\ published'[Len(published) + 1] = unsent[r][1]
  BY <1>1, <1>2, <1>3 DEF Positions
<1>5. /\ fetched \in 0..Len(published) /\ handled \subseteq 1..fetched
      /\ UNCHANGED <<fetched, fresh, written, acking, parked, handled>>
  BY DEF DeliveryInv, DeliveryTypeOK, delivery, worker
<1>6. Len(published) + 1 \notin handled /\ Unsettled' = Unsettled \cup {Len(published) + 1}
  BY <1>4, <1>5 DEF Unsettled
<1>7. /\ \A i \in DOMAIN Tail(unsent[r]) : i + 1 \in DOMAIN unsent[r] /\ Tail(unsent[r])[i] = unsent[r][i + 1]
      /\ \A j \in DOMAIN unsent[r] : j # 1 => j - 1 \in DOMAIN Tail(unsent[r]) /\ Tail(unsent[r])[j - 1] = unsent[r][j]
  BY <1>1
<1>8. \A q \in Requests : unsent'[q] = IF q = r THEN Tail(unsent[r]) ELSE unsent[q]
  BY <1>1, <1>2
<1>9. \A q \in Requests : \A i \in DOMAIN unsent'[q] :
        \E j \in DOMAIN unsent[q] : unsent'[q][i] = unsent[q][j]
  <2>1. ASSUME NEW q \in Requests, NEW i \in DOMAIN unsent'[q]
        PROVE  \E j \in DOMAIN unsent[q] : unsent'[q][i] = unsent[q][j]
    <3>1. CASE q = r
      <4>1. unsent'[q] = Tail(unsent[r]) /\ i \in DOMAIN Tail(unsent[r])
        BY <1>8, <2>1, <3>1
      <4>2. i + 1 \in DOMAIN unsent[q] /\ unsent'[q][i] = unsent[q][i + 1]
        BY <1>7, <3>1, <4>1
      <4> QED
        BY <4>2
    <3>2. CASE q # r
      BY <1>8, <2>1, <3>2
    <3> QED
      BY <3>1, <3>2
  <2> QED
    BY <2>1
<1>10. \A q \in Requests : \A j \in DOMAIN unsent[q] :
         \/ \E i \in DOMAIN unsent'[q] : unsent'[q][i] = unsent[q][j]
         \/ q = r /\ j = 1
  BY <1>7, <1>8
<1> QED
  BY <1>3, <1>4, <1>5, <1>6, <1>9, <1>10 DEF Publish, tables

\* The requests' other steps announce nothing and change no role.
LEMMA OtherRequestSteps ==
  ASSUME IInv, NEW r \in Requests,
         Begin(r) \/ Check1(r) \/ Check2(r) \/ TransactionFails(r) \/ PublishFails(r)
  PROVE  /\ UNCHANGED <<role, published>>
         /\ PublishFails(r) => lost'
         /\ ~PublishFails(r) => UNCHANGED unsent
  BY DEF Begin, Check1, Check2, TransactionFails, PublishFails, tables

LEMMA StillSpaced ==
  ASSUME DomainStep, Spaced'
  PROVE  Spaced
<1>1. PICK r \in Requests : RequestStep(r) /\ (hurried => hurried')
  BY DEF DomainStep
<1>2. overlapped \subseteq overlapped' /\ (lost => lost')
  <2>1. CASE Begin(r)
    BY <2>1 DEF Begin
  <2>2. CASE ~Begin(r)
    BY <1>1, <2>2 DEF RequestStep, Check1, Check2, CreateDomain, RenameDomain, AddUser,
         RemoveUser, SetRole, TransferOwnership, DeleteDomain, Committed, TransactionFails, Publish,
         PublishFails
  <2> QED
    BY <2>1, <2>2
<1> QED
  BY <1>1, <1>2 DEF Spaced

LEMMA DomainSpaced ==
  ASSUME IInv, DeliveryInv, DeliveryInv', SpacedInv, DomainStep
  PROVE  SpacedInv'
<1> SUFFICES ASSUME Spaced' PROVE SpacedInv'
  BY DEF SpacedInv
<1>1. PICK r \in Requests : /\ RequestStep(r)
                            /\ hurried' = (hurried \/ (pc[r] = "idle" /\ ~Settled))
                            /\ UNCHANGED delivery
  BY DEF DomainStep
<1>2. Spaced /\ ~lost' /\ ~hurried' /\ overlapped' = {}
  BY StillSpaced DEF Spaced
<1>3. /\ \A q, s \in Requests : Open(q) /\ Open(s) => q = s
      /\ \A s \in Requests : pc[s] \in {"check1", "check2", "commit"} => Settled
      /\ \A p \in Unsettled : Holds(published[p])
      /\ \A s \in Requests : \A i \in DOMAIN unsent[s] : Holds(unsent[s][i])
  BY <1>2 DEF SpacedInv
<1>4. UNCHANGED <<fetched, fresh, written, acking, parked>>
  BY <1>1 DEF delivery, worker
<1>5. CASE \/ CreateDomain(r) \/ RenameDomain(r) \/ AddUser(r) \/ RemoveUser(r)
           \/ SetRole(r) \/ TransferOwnership(r) \/ DeleteDomain(r)
  <2>1. /\ Unsettled = {} /\ UNCHANGED <<published, call>>
        /\ \A q \in Requests : unsent[q] = <<>> /\ (q # r => ~Open(q))
        /\ unsent' = [unsent EXCEPT ![r] = Events(call[r])]
        /\ pc' = [pc EXCEPT ![r] = "publish"]
        /\ pc \in [Requests -> {"idle", "check1", "check2", "commit", "publish", "closed"}]
        /\ unsent \in [Requests -> Seq(Event)]
    BY <1>2, <1>5, CommitAlone DEF IInv, TypeOK
  <2>2. Unsettled' = {}
    BY <1>4, <2>1 DEF Unsettled, Positions
  <2>3. \A q \in Requests : pc'[q] \in {"check1", "check2", "commit", "publish"} => q = r
    BY <2>1 DEF Open
  <2>4. \A q \in Requests : pc'[q] \notin {"check1", "check2", "commit"}
    BY <2>1 DEF Open
  <2>5. \A i \in DOMAIN Events(call[r]) : Holds(Events(call[r])[i])'
    BY <1>2, <1>5, <2>1, CommitAlone, CommitTells DEF Holds
  <2>6. \A q \in Requests : \A i \in DOMAIN unsent'[q] : Holds(unsent[q][i])'
    BY <2>1, <2>5 DEF Holds
  <2> QED
    BY <2>2, <2>3, <2>4, <2>6 DEF SpacedInv, Open
<1>6. CASE Publish(r)
  <2>1. pc[r] = "publish" /\ \A q \in Requests : pc'[q] = pc[q] \/ (q = r /\ pc'[q] = "closed")
    BY <1>6 DEF Publish, IInv, TypeOK
  <2>2. \A q \in Requests : Open(q)' => q = r
    BY <1>3, <2>1 DEF Open
  <2>3. \A q \in Requests : pc'[q] \notin {"check1", "check2", "commit"}
    BY <1>3, <2>1 DEF Open
  <2>4. \A p \in Unsettled' : Holds(published[p])'
    <3>1. \A p \in Unsettled : published'[p] = published[p] /\ Holds(published[p])
      BY <1>1, <1>3, <1>6, PublishMoves DEF Unsettled
    <3>2. published'[Len(published) + 1] = unsent[r][1] /\ Holds(unsent[r][1])
      BY <1>1, <1>3, <1>6, PublishMoves
    <3>3. \A p \in Unsettled' : Holds(published'[p])
      BY <1>1, <1>6, <3>1, <3>2, PublishMoves
    <3>4. role' = role
      BY <1>1, <1>6, PublishMoves
    <3> QED
      BY <3>3, <3>4 DEF Holds
  <2>5. \A q \in Requests : \A i \in DOMAIN unsent'[q] : Holds(unsent[q][i])'
    <3>1. \A q \in Requests : \A i \in DOMAIN unsent'[q] : Holds(unsent'[q][i])
      BY <1>1, <1>3, <1>6, PublishMoves
    <3>2. role' = role
      BY <1>1, <1>6, PublishMoves
    <3> QED
      BY <3>1, <3>2 DEF Holds
  <2> QED
    BY <2>2, <2>3, <2>4, <2>5 DEF SpacedInv
<1>7. CASE Begin(r) \/ Check1(r) \/ Check2(r) \/ TransactionFails(r)
  <2>1. UNCHANGED <<role, published, unsent>> /\ Unsettled' = Unsettled /\ Settled' = Settled
    BY <1>4, <1>7, OtherRequestSteps DEF Unsettled, Settled, Positions, Begin, Check1, Check2,
         TransactionFails
  <2>2. CASE Begin(r)
    <3>1. Settled /\ \A q \in Requests : ~Open(q)
      BY <1>1, <1>2, <2>2 DEF Begin, Calls
    <3>2. \A q \in Requests : Open(q)' => q = r
      BY <2>2, <3>1 DEF Begin, Open, IInv, TypeOK
    <3> QED
      BY <1>3, <2>1, <3>1, <3>2 DEF SpacedInv, Holds
  <2>3. CASE Check1(r) \/ Check2(r) \/ TransactionFails(r)
    <3>1. /\ pc[r] \in {"check1", "check2", "commit"}
          /\ \A q \in Requests : pc'[q] = pc[q] \/ q = r
      BY <2>3 DEF Check1, Check2, TransactionFails, IInv, TypeOK
    <3>2. \A q \in Requests : Open(q)' => q = r
      BY <1>3, <3>1 DEF Open
    <3>3. Settled'
      BY <1>3, <2>1, <3>1
    <3> QED
      BY <1>3, <2>1, <3>2, <3>3 DEF SpacedInv, Holds
  <2> QED
    BY <1>7, <2>2, <2>3
<1>8. CASE PublishFails(r)
  BY <1>2, <1>8 DEF PublishFails
<1> QED
  BY <1>1, <1>5, <1>6, <1>7, <1>8 DEF RequestStep

\* With nothing on its way a copy is the original: every event has been handled.
LEMMA SettledCopies ==
  ASSUME IInv, DeliveryInv, HandledInv, Spaced, NEW copy, CopyInv(copy), RoleKinds \subseteq Subscribed,
         fetched = Len(published), fresh \cup parked \subseteq handled,
         \A r \in Requests : ~Open(r)
  PROVE  \A u \in Users : copy[u] = role[u]
<1>1. \A r \in Requests : unsent[r] = <<>>
  BY DEF IInv, SendingInv, Open
<1>2. \A p \in Positions : published[p].kind \in RoleKinds => p \in handled
  BY DEF Positions, HandledInv, Kind
<1> QED
  BY <1>1, <1>2 DEF CopyInv, About

\* The requests leave the copy alone; what a transaction changes, it announces.
LEMMA DomainCopy ==
  ASSUME IInv, DeliveryInv, HandledInv, SpacedInv, NEW copy, CopyInv(copy),
         RoleKinds \subseteq Subscribed, DomainStep
  PROVE  CopyInv(copy)'
<1> SUFFICES ASSUME Spaced' PROVE CopyInv(copy)'
  BY DEF CopyInv
<1>1. PICK r \in Requests : RequestStep(r) /\ UNCHANGED delivery
  BY DEF DomainStep
<1>2. Spaced /\ ~lost'
  BY StillSpaced DEF Spaced
<1>3. /\ \A p \in Unsettled : Regrades(published[p], copy)
      /\ \A q \in Requests : \A i \in DOMAIN unsent[q] : Regrades(unsent[q][i], copy)
      /\ \A u \in Users :
           \/ copy[u] = role[u]
           \/ \E p \in Positions \ handled : About(published[p], u)
           \/ \E q \in Requests : \E i \in DOMAIN unsent[q] : About(unsent[q][i], u)
  BY <1>2 DEF CopyInv
<1>4. UNCHANGED <<fetched, fresh, written, acking, parked, handled>>
  BY <1>1 DEF delivery, worker
<1>5. CASE \/ CreateDomain(r) \/ RenameDomain(r) \/ AddUser(r) \/ RemoveUser(r)
           \/ SetRole(r) \/ TransferOwnership(r) \/ DeleteDomain(r)
  <2>1. /\ Settled /\ Unsettled = {} /\ UNCHANGED published
        /\ \A q \in Requests : unsent[q] = <<>>
        /\ unsent' = [unsent EXCEPT ![r] = Events(call[r])]
        /\ unsent \in [Requests -> Seq(Event)]
    BY <1>2, <1>5, CommitAlone DEF IInv, TypeOK
  <2>2. \A u \in Users : copy[u] = role[u]
    <3>1. \A p \in Positions : published[p].kind \in RoleKinds => p \in handled
      BY <2>1 DEF Positions, HandledInv, Settled, Kind
    <3> QED
      BY <1>3, <2>1, <3>1 DEF About
  <2>3. Unsettled' = {}
    BY <1>4, <2>1 DEF Unsettled, Positions
  <2>4. \A i \in DOMAIN Events(call[r]) : Regrades(Events(call[r])[i], copy)
    <3>1. Events(call[r]) \in Seq(Event)
      BY <1>2, <1>5, CommitAlone, EventsType
    <3>2. \A i \in DOMAIN Events(call[r]) :
            Events(call[r])[i].kind = "ROLE" => role[Events(call[r])[i].user] # NoRole
      BY <1>2, <1>5, CommitAlone, CommitTells DEF RoleKinds
    <3>3. \A i \in DOMAIN Events(call[r]) : Events(call[r])[i].user \in Users
      <4>1. \A i \in DOMAIN Events(call[r]) : Events(call[r])[i] \in Event
        BY <3>1
      <4>2. \A e \in Event : e.user \in Users
        BY DEF Event
      <4> QED
        BY <4>1, <4>2
    <3> QED
      BY <2>2, <3>2, <3>3 DEF Regrades
  <2>5. \A q \in Requests : \A i \in DOMAIN unsent'[q] : Regrades(unsent'[q][i], copy)
    BY <2>1, <2>4
  <2>6. \A u \in Users : copy[u] = role'[u] \/ \E i \in DOMAIN unsent'[r] : About(unsent'[r][i], u)
    BY <1>2, <1>5, <2>1, <2>2, CommitAlone, CommitTells
  <2> QED
    BY <2>3, <2>5, <2>6 DEF CopyInv, Regrades, About
<1>6. CASE Publish(r)
  <2> DEFINE n == Len(published) + 1
  <2>1. /\ \A q \in Requests : \A i \in DOMAIN unsent'[q] :
             \E j \in DOMAIN unsent[q] : unsent'[q][i] = unsent[q][j]
        /\ Unsettled' = Unsettled \cup {n} /\ 1 \in DOMAIN unsent[r]
        /\ published'[n] = unsent[r][1] /\ \A p \in Positions : published'[p] = published[p]
        /\ Positions' = Positions \cup {n} /\ n \notin handled
        /\ UNCHANGED <<role, handled>>
    BY <1>1, <1>6, PublishMoves
  <2>2. \A p \in Unsettled' : Regrades(published'[p], copy)
    BY <1>3, <2>1 DEF Unsettled
  <2>3. \A q \in Requests : \A i \in DOMAIN unsent'[q] : Regrades(unsent'[q][i], copy)
    BY <1>3, <2>1
  <2>4. \A u \in Users :
          \/ copy[u] = role'[u]
          \/ \E p \in Positions' \ handled' : About(published'[p], u)
          \/ \E q \in Requests : \E i \in DOMAIN unsent'[q] : About(unsent'[q][i], u)
    <3> SUFFICES ASSUME NEW u \in Users, copy[u] # role[u]
                 PROVE  \/ \E p \in Positions' \ handled' : About(published'[p], u)
                        \/ \E q \in Requests : \E i \in DOMAIN unsent'[q] : About(unsent'[q][i], u)
      BY <2>1
    <3>1. CASE \E p \in Positions \ handled : About(published[p], u)
      BY <2>1, <3>1
    <3>2. ASSUME NEW q \in Requests, NEW j \in DOMAIN unsent[q], About(unsent[q][j], u)
          PROVE  \/ \E p \in Positions' \ handled' : About(published'[p], u)
                 \/ \E i \in DOMAIN unsent'[q] : About(unsent'[q][i], u)
      <4>1. \/ \E i \in DOMAIN unsent'[q] : unsent'[q][i] = unsent[q][j]
            \/ q = r /\ j = 1
        BY <1>1, <1>6, PublishMoves
      <4> QED
        BY <2>1, <3>2, <4>1
    <3> QED
      BY <1>3, <3>1, <3>2
  <2> QED
    BY <2>2, <2>3, <2>4 DEF CopyInv, Regrades, About
<1>7. CASE Begin(r) \/ Check1(r) \/ Check2(r) \/ TransactionFails(r)
  <2>1. UNCHANGED <<role, published, unsent>> /\ Unsettled' = Unsettled /\ Positions' = Positions
    BY <1>4, <1>7, OtherRequestSteps DEF Unsettled, Positions, Begin, Check1, Check2, TransactionFails
  <2> QED
    BY <1>3, <1>4, <2>1 DEF CopyInv, Regrades, About
<1>8. CASE PublishFails(r)
  BY <1>2, <1>8 DEF PublishFails
<1> QED
  BY <1>1, <1>5, <1>6, <1>7, <1>8 DEF RequestStep

\* A handler that writes gives a user the role the tables hold, and others none; the
\* worker's other steps leave the copy alone.
LEMMA WorkerCopy ==
  ASSUME TypeOK, DeliveryInv, SpacedInv, WorkerActs, NEW copy, NEW after, CopyInv(copy),
         \/ after = copy /\ handled' = handled
         \/ \E p \in Positions :
              /\ handled' = handled \cup {p}
              /\ \A u \in Users : About(published[p], u) => after[u] = role[u]
              /\ \A u \in Users : after[u] = copy[u] \/ About(published[p], u)
  PROVE  CopyInv(after)'
<1> SUFFICES ASSUME Spaced' PROVE CopyInv(after)'
  BY DEF CopyInv
<1>1. UNCHANGED <<role, unsent, published>> /\ Positions' = Positions
      /\ Spaced /\ Unsettled' \subseteq Unsettled
  BY WorkerLeavesDomain, WorkerSettles DEF vars, Positions
<1>2. CASE after = copy /\ handled' = handled
  BY <1>1, <1>2 DEF CopyInv, Regrades, About
<1>3. ASSUME NEW p \in Positions, handled' = handled \cup {p},
             \A u \in Users : About(published[p], u) => after[u] = role[u],
             \A u \in Users : after[u] = copy[u] \/ About(published[p], u)
      PROVE  CopyInv(after)'
  <2>1. ASSUME NEW e \in Event, Holds(e), Regrades(e, copy)
        PROVE  Regrades(e, after)
    BY <1>3, <2>1 DEF Holds, Regrades, RoleKinds, Event, RoleIn
  <2>2. \A q \in Unsettled : published[q] \in Event /\ Regrades(published[q], after)
    <3>1. \A q \in Unsettled : published[q] \in Event /\ Holds(published[q]) /\ Regrades(published[q], copy)
      BY <1>1 DEF SpacedInv, CopyInv, Unsettled, Positions, TypeOK
    <3> QED
      BY <2>1, <3>1
  <2>3. \A r \in Requests : \A i \in DOMAIN unsent[r] : Regrades(unsent[r][i], after)
    <3>1. \A r \in Requests : \A i \in DOMAIN unsent[r] :
            unsent[r][i] \in Event /\ Holds(unsent[r][i]) /\ Regrades(unsent[r][i], copy)
      BY <1>1 DEF SpacedInv, CopyInv, TypeOK
    <3> QED
      BY <2>1, <3>1
  <2>4. \A u \in Users :
          \/ after[u] = role[u]
          \/ \E q \in Positions \ handled' : About(published[q], u)
          \/ \E r \in Requests : \E i \in DOMAIN unsent[r] : About(unsent[r][i], u)
    BY <1>1, <1>3 DEF CopyInv
  <2> QED
    BY <1>1, <2>2, <2>3, <2>4 DEF CopyInv, Regrades, About
<1> QED
  BY <1>2, <1>3

LEMMA InitSpaced ==
  ASSUME Init, DeliveryInit
  PROVE  HandledInv /\ SpacedInv /\ CopyInv(role)
<1>1. published = <<>> /\ \A r \in Requests : unsent[r] = <<>> /\ ~Open(r) /\ pc[r] = "idle"
  BY DEF Init, Open
<1>2. Positions = {}
  BY <1>1 DEF Positions
<1> QED
  BY <1>1, <1>2 DEF DeliveryInit, HandledInv, SpacedInv, CopyInv, Unsettled

=============================================================================
