---------------------------- MODULE LedgerProofs ----------------------------
(***************************************************************************)
(* Proofs about LedgerReplica, for any sets of users and requests, any     *)
(* number of restarts and failing handlers and any order of the events:    *)
(* what was acknowledged was logged, and how often an event can be logged. *)
(***************************************************************************)
EXTENDS LedgerReplica, DomainMembershipProofs

LEMMA LedgerWorkerActs ==
  ASSUME WorkerStep
  PROVE  WorkerActs
<1>1. CASE \E p \in Positions : Write(p) \/ Reject(p) \/ Log(p) \/ LogUnheard(p)
  BY <1>1 DEF Write, Reject, Log, LogUnheard, WorkerActs
<1> QED
  BY <1>1 DEF WorkerStep, WorkerActs

LEMMA LedgerStepIsStep ==
  ASSUME [LedgerNext]_ledgerVars
  PROVE  [Next]_vars
<1>1. CASE DomainStep
  BY <1>1 DEF DomainStep, Next
<1>2. CASE WorkerStep
  BY <1>2, LedgerWorkerActs, WorkerLeavesDomain
<1>3. CASE UNCHANGED ledgerVars
  BY <1>3 DEF ledgerVars
<1> QED
  BY <1>1, <1>2, <1>3 DEF LedgerNext

\* The ledger only listens: every property proved of DomainMembership holds while it
\* records the events.
THEOREM LedgerImplementsDomain == LedgerSpec => Spec
<1>1. LedgerInit => Init
  BY DEF LedgerInit
<1>2. [LedgerNext]_ledgerVars => [Next]_vars
  BY LedgerStepIsStep
<1> QED
  BY <1>1, <1>2, PTL DEF LedgerSpec, Spec

-----------------------------------------------------------------------------
(* Rows *)

LEMMA RowAdded ==
  ASSUME NEW B, IsABag(B), NEW row
  PROVE  /\ IsABag(B (+) SetToBag({row}))
         /\ BagToSet(B (+) SetToBag({row})) = BagToSet(B) \cup {row}
         /\ row \in BagToSet(B) => (B (+) SetToBag({row}))[row] = B[row] + 1
         /\ row \notin BagToSet(B) => (B (+) SetToBag({row}))[row] = 1
         /\ \A other \in BagToSet(B) \ {row} : (B (+) SetToBag({row}))[other] = B[other]
  BY DEF IsABag, BagToSet, SetToBag, (+)

LEMMA InitLedgerInv ==
  ASSUME LedgerInit, TypeOK
  PROVE  LedgerInv
<1>1. DeliveryInv
  BY InitDelivery DEF LedgerInit
<1>2. LedgerTypeOK /\ RowsPerFault
  BY DEF LedgerInit, TypeOK, LedgerTypeOK, RowsPerFault, EmptyBag, IsABag, BagToSet, SetToBag
<1>3. AcknowledgedIsJournalled
  BY DEF LedgerInit, DeliveryInit, AcknowledgedIsJournalled
<1> QED
  BY <1>1, <1>2, <1>3 DEF LedgerInv

\* An event that has been handed to the worker.
LEMMA EventAt ==
  ASSUME TypeOK, NEW p \in Positions
  PROVE  /\ published[p] \in Event
         /\ published[p].user \in Users /\ published[p].role \in Roles \cup {NoRole}
         /\ InitiatorOf(published[p]) \in Users \cup {NoUser}
<1>1. published[p] \in Event
  BY DEF TypeOK, Positions
<1> QED
  BY <1>1 DEF Event, InitiatorOf

LEMMA DomainLedgerInv ==
  ASSUME IInv, LedgerInv, DomainStep, UNCHANGED <<ledgerRole, journal>>
  PROVE  LedgerInv'
<1>1. DeliveryInv'
  BY DomainDelivery DEF LedgerInv
<1>2. PublishedGrows
  BY StepPublishes DEF DomainStep, Next
<1>3. UNCHANGED <<fetched, fresh, written, acking, parked, faults>>
  BY DEF DomainStep, delivery, worker
<1>4. \A p \in 1..fetched : Kind(p)' = Kind(p)
  BY <1>2 DEF LedgerInv, DeliveryInv, DeliveryTypeOK, PublishedGrows, Positions, Kind
<1>5. AcknowledgedIsJournalled'
  BY <1>3, <1>4 DEF LedgerInv, AcknowledgedIsJournalled, Journalled
<1>6. LedgerTypeOK' /\ RowsPerFault'
  BY <1>3 DEF LedgerInv, LedgerTypeOK, RowsPerFault
<1> QED
  BY <1>1, <1>5, <1>6 DEF LedgerInv

LEMMA WriteLedgerInv ==
  ASSUME TypeOK, LedgerInv, NEW p \in Positions, Write(p) \/ Reject(p)
  PROVE  LedgerInv'
<1>1. WorkerActs /\ UNCHANGED <<vars, journal>>
  BY WorkerLeavesDomain DEF Write, Reject, WorkerActs
<1>2. DeliveryInv'
  BY <1>1, WorkerDelivery DEF LedgerInv
<1>3. p \in fresh /\ UNCHANGED <<fetched, acking, faults>>
      /\ fresh' \cup written' \cup parked' = fresh \cup written \cup parked
  BY DEF Write, Reject, HandlerWrote, HandlerRejected
<1>4. AcknowledgedIsJournalled'
  BY <1>1, <1>3 DEF LedgerInv, AcknowledgedIsJournalled, Journalled, Kind, vars
<1>5. RowsPerFault'
  BY <1>1, <1>3 DEF LedgerInv, RowsPerFault
<1>6. ledgerRole' \in [Users -> Roles \cup {NoRole}]
  <2> DEFINE e == published[p]
  <2>1. e \in Event /\ e.user \in Users /\ e.role \in Roles \cup {NoRole}
    BY EventAt
  <2>2. e.kind \in {"CREATED", "ADDED", "ROLE", "REMOVED", "UPDATED"}
    BY <1>3, <2>1, LedgerAssumption DEF LedgerInv, DeliveryInv, Kind, Event, RoleKinds
  <2>3. ledgerRole' = ledgerRole \/ ledgerRole' = Recorded(e)
    BY DEF Write, Reject
  <2>4. ledgerRole \in [Users -> Roles \cup {NoRole}]
    BY DEF LedgerInv, LedgerTypeOK
  <2> HIDE DEF e
  <2>5. Recorded(e) \in {DomainUserAdded(e), DomainUserRoleUpdated(e), DomainUserRemoved(e), DomainUpdated(e)}
    BY <2>2 DEF Recorded
  <2>6. /\ DomainUserAdded(e) \in [Users -> Roles \cup {NoRole}]
        /\ DomainUserRoleUpdated(e) \in [Users -> Roles \cup {NoRole}]
        /\ DomainUserRemoved(e) \in [Users -> Roles \cup {NoRole}]
        /\ DomainUpdated(e) \in [Users -> Roles \cup {NoRole}]
    BY <2>1, <2>4 DEF DomainUserAdded, DomainUserRoleUpdated, DomainUserRemoved, DomainUpdated, Regraded
  <2> QED
    BY <2>3, <2>4, <2>5, <2>6
<1>7. LedgerTypeOK'
  BY <1>1, <1>6 DEF LedgerInv, LedgerTypeOK
<1> QED
  BY <1>2, <1>4, <1>5, <1>7 DEF LedgerInv

LEMMA LogLedgerInv ==
  ASSUME TypeOK, LedgerInv, NEW p \in Positions, Log(p)
  PROVE  LedgerInv'
<1> DEFINE new == [event |-> p, initiator |-> InitiatorOf(published[p])]
<1>1. WorkerActs /\ UNCHANGED vars
  BY WorkerLeavesDomain DEF Log, WorkerActs
<1>2. DeliveryInv'
  BY <1>1, WorkerDelivery DEF LedgerInv
<1>3. /\ p \in written /\ p \in 1..fetched /\ p \notin fresh \cup parked
      /\ written' = written \ {p}
      /\ UNCHANGED <<fresh, parked, fetched, faults, ledgerRole>>
  BY DEF Log, HandlerResolved, LedgerInv, DeliveryInv, DeliveryTypeOK
<1>4. new \in Row /\ new.event = p
  BY EventAt DEF Row, Positions
<1>5. IsABag(journal) /\ journal' = journal (+) SetToBag({new})
  BY DEF LedgerInv, LedgerTypeOK, Log, RowFor
<1> HIDE DEF new
<1>6. /\ IsABag(journal')
      /\ BagToSet(journal') = BagToSet(journal) \cup {new}
      /\ new \in BagToSet(journal) => journal'[new] = journal[new] + 1
      /\ new \notin BagToSet(journal) => journal'[new] = 1
      /\ \A row \in BagToSet(journal) \ {new} : journal'[row] = journal[row]
  BY <1>5, RowAdded
<1>7. LedgerTypeOK'
  BY <1>3, <1>4, <1>6 DEF LedgerInv, LedgerTypeOK
<1>8. AcknowledgedIsJournalled'
  <2>1. \A k : Journalled(k) \/ k = p => Journalled(k)'
    BY <1>4, <1>6 DEF Journalled
  <2> QED
    BY <1>1, <1>3, <2>1 DEF LedgerInv, AcknowledgedIsJournalled, Kind, vars
<1>9. RowsPerFault'
  <2>1. faults \in Nat
    BY DeliveryAssumption DEF LedgerInv, DeliveryInv, DeliveryTypeOK
  <2>2. \A row \in BagToSet(journal) : journal[row] \in Nat
    BY <1>5 DEF IsABag, BagToSet
  <2>3. new \in BagToSet(journal) => journal[new] <= faults
    BY <1>3, <1>4 DEF LedgerInv, RowsPerFault
  <2>4. journal'[new] <= 1 + faults
    BY <1>6, <2>1, <2>2, <2>3
  <2>5. p \notin fresh' \cup written' \cup parked'
    BY <1>3
  <2>6. \A row \in BagToSet(journal) \ {new} :
          journal'[row] <= IF row.event \in fresh' \cup written' \cup parked' THEN faults ELSE 1 + faults
    BY <1>3, <1>6, <2>1, <2>2 DEF LedgerInv, RowsPerFault
  <2> QED
    BY <1>3, <1>4, <1>6, <2>4, <2>5, <2>6 DEF LedgerInv, RowsPerFault
<1> QED
  BY <1>2, <1>7, <1>8, <1>9 DEF LedgerInv

\* A row whose commit was not heard of is counted by the fault.
LEMMA LogUnheardLedgerInv ==
  ASSUME TypeOK, LedgerInv, NEW p \in Positions, LogUnheard(p)
  PROVE  LedgerInv'
<1> DEFINE new == [event |-> p, initiator |-> InitiatorOf(published[p])]
<1>1. WorkerActs /\ UNCHANGED vars
  BY WorkerLeavesDomain DEF LogUnheard, WorkerActs
<1>2. DeliveryInv'
  BY <1>1, WorkerDelivery DEF LedgerInv
<1>3. /\ p \in written /\ p \in 1..fetched /\ p \notin fresh \cup parked
      /\ written' = written \ {p} /\ parked' = parked \cup {p} /\ faults' = faults + 1
      /\ fresh' = fresh /\ UNCHANGED <<fetched, ledgerRole>>
  BY DEF LogUnheard, HandlerFailed, LedgerInv, DeliveryInv, DeliveryTypeOK
<1>4. new \in Row /\ new.event = p
  BY EventAt DEF Row, Positions
<1>5. IsABag(journal) /\ journal' = journal (+) SetToBag({new})
  BY DEF LedgerInv, LedgerTypeOK, LogUnheard, RowFor
<1> HIDE DEF new
<1>6. /\ IsABag(journal')
      /\ BagToSet(journal') = BagToSet(journal) \cup {new}
      /\ new \in BagToSet(journal) => journal'[new] = journal[new] + 1
      /\ new \notin BagToSet(journal) => journal'[new] = 1
      /\ \A row \in BagToSet(journal) \ {new} : journal'[row] = journal[row]
  BY <1>5, RowAdded
<1>7. LedgerTypeOK'
  BY <1>3, <1>4, <1>6 DEF LedgerInv, LedgerTypeOK
<1>8. AcknowledgedIsJournalled'
  <2>1. \A k : Journalled(k) \/ k = p => Journalled(k)'
    BY <1>4, <1>6 DEF Journalled
  <2> QED
    BY <1>1, <1>3, <2>1 DEF LedgerInv, AcknowledgedIsJournalled, Kind, vars
<1>9. RowsPerFault'
  <2>1. faults \in Nat
    BY DeliveryAssumption DEF LedgerInv, DeliveryInv, DeliveryTypeOK
  <2>2. \A row \in BagToSet(journal) : journal[row] \in Nat
    BY <1>5 DEF IsABag, BagToSet
  <2>3. new \in BagToSet(journal) => journal[new] <= faults
    BY <1>3, <1>4 DEF LedgerInv, RowsPerFault
  <2>4. journal'[new] <= faults'
    BY <1>3, <1>6, <2>1, <2>2, <2>3
  <2>5. \A k : k \in fresh' \cup written' \cup parked' <=> k \in fresh \cup written \cup parked
    BY <1>3
  <2>6. \A row \in BagToSet(journal) \ {new} :
          /\ row.event \in 1..fetched
          /\ journal'[row] <= IF row.event \in fresh' \cup written' \cup parked' THEN faults' ELSE 1 + faults'
    BY <1>3, <1>6, <2>1, <2>2, <2>5 DEF LedgerInv, RowsPerFault
  <2> QED
    BY <1>3, <1>4, <1>6, <2>1, <2>4, <2>5, <2>6 DEF LedgerInv, RowsPerFault
<1> QED
  BY <1>2, <1>7, <1>8, <1>9 DEF LedgerInv

LEMMA DeliverLedgerInv ==
  ASSUME TypeOK, LedgerInv, UNCHANGED <<ledgerRole, journal>>,
         \/ Fetch \/ Restart
         \/ \E k \in Subscribed : Claim(k)
         \/ \E p \in Positions : HandlerFailed(p) \/ Acknowledged(p)
  PROVE  LedgerInv'
<1>1. WorkerActs
  BY DEF WorkerActs
<1>2. DeliveryInv' /\ UNCHANGED vars
  BY <1>1, WorkerDelivery, WorkerLeavesDomain DEF LedgerInv
<1>3. LedgerTypeOK'
  BY DEF LedgerInv, LedgerTypeOK
<1>4. /\ faults \in Nat /\ fetched \in Nat /\ fetched' \in Nat
      /\ \A row \in BagToSet(journal) : journal[row] \in Nat
      /\ fetched <= fetched'
  <2>1. fetched \in 0..Len(published) /\ faults \in 0..MaxFaults /\ Len(published) \in Nat
    BY DEF LedgerInv, DeliveryInv, DeliveryTypeOK, TypeOK
  <2>2. \A row \in BagToSet(journal) : journal[row] \in Nat
    BY DEF LedgerInv, LedgerTypeOK, IsABag, BagToSet
  <2>3. fetched' = fetched \/ fetched' = Len(published)
    BY DEF Fetch, Restart, Claim, HandlerFailed, Acknowledged
  <2> QED
    BY <2>1, <2>2, <2>3, DeliveryAssumption
<1>5. /\ faults' = faults \/ faults' = faults + 1
      /\ \A p \in 1..fetched :
           /\ p \in fresh \cup written \cup parked => p \in fresh' \cup written' \cup parked'
           /\ faults' = faults /\ p \in fresh' \cup written' \cup parked' => p \in fresh \cup written \cup parked
      /\ \A p \in 1..fetched' : p > fetched /\ Kind(p) \in Subscribed => p \in fresh' \cup written' \cup parked'
  <2>1. CASE Fetch
    BY <1>4, <2>1 DEF Fetch
  <2>2. CASE Restart
    BY <1>4, <2>2 DEF Restart
  <2>3. ASSUME NEW k \in Subscribed, Claim(k)
        PROVE  <1>5
    BY <1>4, <2>3 DEF Claim
  <2>4. ASSUME NEW p \in Positions, HandlerFailed(p) \/ Acknowledged(p)
        PROVE  <1>5
    BY <1>4, <2>4 DEF HandlerFailed, Acknowledged
  <2> QED
    BY <2>1, <2>2, <2>3, <2>4
<1>6. AcknowledgedIsJournalled'
  <2> SUFFICES ASSUME NEW p \in 1..fetched', Kind(p) \in Subscribed, p \notin fresh' \cup written' \cup parked'
               PROVE  Journalled(p)
    BY <1>2 DEF AcknowledgedIsJournalled, Journalled, Kind, vars
  <2>1. p \in 1..fetched
    BY <1>4, <1>5
  <2> QED
    BY <1>5, <2>1 DEF LedgerInv, AcknowledgedIsJournalled
<1>7. RowsPerFault'
  <2> SUFFICES ASSUME NEW row \in BagToSet(journal)
               PROVE  /\ row.event \in 1..fetched'
                      /\ journal[row] <= IF row.event \in fresh' \cup written' \cup parked'
                                         THEN faults' ELSE 1 + faults'
    BY DEF RowsPerFault
  <2>1. /\ row.event \in 1..fetched
        /\ journal[row] <= IF row.event \in fresh \cup written \cup parked THEN faults ELSE 1 + faults
    BY DEF LedgerInv, RowsPerFault
  <2> QED
    BY <1>4, <1>5, <2>1
<1> QED
  BY <1>2, <1>3, <1>6, <1>7 DEF LedgerInv

LEMMA StepLedgerInv ==
  ASSUME IInv, LedgerInv, [LedgerNext]_ledgerVars
  PROVE  LedgerInv'
<1>1. CASE DomainStep /\ UNCHANGED <<ledgerRole, journal>>
  BY <1>1, DomainLedgerInv
<1>2. CASE WorkerStep
  BY <1>2, WriteLedgerInv, LogLedgerInv, LogUnheardLedgerInv, DeliverLedgerInv DEF WorkerStep, IInv
<1>3. CASE UNCHANGED ledgerVars
  <2>1. UNCHANGED <<vars, delivery, hurried, ledgerRole, journal>>
    BY <1>3 DEF ledgerVars
  <2>2. DeliveryInv'
    BY <2>1, StepPublishes, QuietDelivery DEF LedgerInv, DeliveryInv, DeliveryTypeOK
  <2>3. LedgerTypeOK' /\ AcknowledgedIsJournalled' /\ RowsPerFault'
    BY <2>1 DEF LedgerInv, LedgerTypeOK, AcknowledgedIsJournalled, Journalled, RowsPerFault, Kind,
         vars, delivery, worker
  <2> QED
    BY <2>2, <2>3 DEF LedgerInv
<1> QED
  BY <1>1, <1>2, <1>3 DEF LedgerNext

-----------------------------------------------------------------------------
(* Theorems *)

\* What the worker was given, what it still works on and what the journal holds
\* fit together, wherever a handler or the worker stopped.
THEOREM LedgerInvariant == LedgerSpec => []LedgerInv
<1>1. IInv => TypeOK
  BY DEF IInv
<1>2. IInv /\ LedgerInv /\ [LedgerNext]_ledgerVars => LedgerInv'
  BY StepLedgerInv
<1>3. LedgerInit /\ TypeOK => LedgerInv
  BY InitLedgerInv
<1> QED
  BY <1>1, <1>2, <1>3, LedgerImplementsDomain, InductiveInvariant, PTL DEF LedgerSpec

\* An event that is no longer pending is in the journal: no crash between the two
\* transactions of a handler, or before the XACK, loses a row
\* (ledger/src/bus/handlers, event_bus_components.ts).
THEOREM AcknowledgedIsJournalledAlways == LedgerSpec => []AcknowledgedIsJournalled
<1>1. LedgerInv => AcknowledgedIsJournalled
  BY DEF LedgerInv
<1> QED
  BY <1>1, LedgerInvariant, PTL

\* The rows of an event are at most one more than the faults there have been.
THEOREM LoggedAgainOnlyAfterFaultsAlways == LedgerSpec => []LoggedAgainOnlyAfterFaults
<1>1. LedgerInv => LoggedAgainOnlyAfterFaults
  <2> SUFFICES ASSUME LedgerInv, NEW row \in BagToSet(journal)
               PROVE  journal[row] <= 1 + faults
    BY DEF LoggedAgainOnlyAfterFaults
  <2>1. faults \in Nat /\ journal[row] \in Nat
    BY DeliveryAssumption DEF LedgerInv, LedgerTypeOK, DeliveryInv, DeliveryTypeOK, IsABag, BagToSet
  <2>2. journal[row] <= IF row.event \in fresh \cup written \cup parked THEN faults ELSE 1 + faults
    BY DEF LedgerInv, RowsPerFault
  <2> QED
    BY <2>1, <2>2
<1> QED
  BY <1>1, LedgerInvariant, PTL

-----------------------------------------------------------------------------
(* Convergence *)

\* What a handler writes is what the tables hold.
LEMMA LedgerWriteCopies ==
  ASSUME TypeOK, LedgerInv, SpacedInv, CopyInv(ledgerRole), Spaced, NEW p, Write(p)
  PROVE  /\ p \in Positions
         /\ handled' = handled \cup {p}
         /\ \A u \in Users : About(published[p], u) => ledgerRole'[u] = role[u]
         /\ \A u \in Users : ledgerRole'[u] = ledgerRole[u] \/ About(published[p], u)
<1> DEFINE e == published[p]
<1>1. e \in Event /\ p \in Positions /\ e.kind \in RoleKinds \cup {"UPDATED"} /\ p \in Unsettled
  <2>1. p \in fresh /\ p \in 1..fetched /\ fetched \in 0..Len(published) /\ Len(published) \in Nat
    BY DEF LedgerInv, DeliveryInv, DeliveryTypeOK, TypeOK, Write, HandlerWrote
  <2>2. p \in 1..Len(published)
    BY <2>1
  <2>3. e \in Event
    BY <2>2 DEF TypeOK
  <2> QED
    BY <2>1, <2>2, <2>3, LedgerAssumption DEF LedgerInv, DeliveryInv, Kind, Positions, RoleKinds, Unsettled
<1>2. Holds(e) /\ Regrades(e, ledgerRole)
  BY <1>1 DEF SpacedInv, CopyInv
<1>3. ledgerRole' = Recorded(e) /\ handled' = handled \cup {p}
  BY DEF Write, HandlerWrote
<1>4. ledgerRole \in [Users -> Roles \cup {NoRole}] /\ e.user \in Users
  BY <1>1 DEF LedgerInv, LedgerTypeOK, Event
<1> SUFFICES /\ \A u \in Users : About(e, u) => ledgerRole'[u] = role[u]
             /\ \A u \in Users : ledgerRole'[u] = ledgerRole[u] \/ About(e, u)
  BY <1>1, <1>3
<1> HIDE DEF e
<1> USE DEF RoleKinds, Recorded, Holds, RoleIn, About
<1>5. CASE e.kind \in {"CREATED", "ADDED"}
  BY <1>2, <1>3, <1>4, <1>5 DEF DomainUserAdded
<1>6. CASE e.kind = "ROLE"
  BY <1>2, <1>3, <1>4, <1>6 DEF DomainUserRoleUpdated, Regraded, Regrades
<1>7. CASE e.kind = "REMOVED"
  BY <1>2, <1>3, <1>4, <1>7 DEF DomainUserRemoved
<1>8. CASE e.kind = "UPDATED"
  BY <1>3, <1>8 DEF DomainUpdated
<1> QED
  BY <1>1, <1>5, <1>6, <1>7, <1>8

LEMMA WorkerLedgerCopy ==
  ASSUME TypeOK, LedgerInv, LedgerCopyInv, WorkerStep
  PROVE  LedgerCopyInv'
<1>1. WorkerActs /\ UNCHANGED vars /\ DeliveryInv
  BY LedgerWorkerActs, WorkerLeavesDomain DEF LedgerInv
<1>2. HandledInv' /\ SpacedInv'
  BY <1>1, WorkerHandled, WorkerSpaced DEF LedgerCopyInv
<1>3. PICK before, after : before = ledgerRole /\ after = ledgerRole'
  OBVIOUS
<1>4. CopyInv(before)
  BY <1>3 DEF LedgerCopyInv
<1>5. Spaced' => Spaced
  BY <1>1, WorkerSettles
<1>6. CASE ledgerRole' = ledgerRole /\ handled' = handled
  <2>1. CopyInv(after)'
    BY <1>1, <1>3, <1>4, <1>6, WorkerCopy DEF LedgerCopyInv
  <2> QED
    BY <1>2, <1>3, <2>1 DEF LedgerCopyInv, CopyInv, Regrades
<1>7. ASSUME NEW p \in Positions, Write(p), Spaced
      PROVE  LedgerCopyInv'
  <2>1. /\ p \in Positions /\ handled' = handled \cup {p}
        /\ \A u \in Users : About(published[p], u) => after[u] = role[u]
        /\ \A u \in Users : after[u] = before[u] \/ About(published[p], u)
    BY <1>3, <1>7, LedgerWriteCopies DEF LedgerCopyInv
  <2>2. CopyInv(after)'
    BY <1>1, <1>4, <2>1, WorkerCopy DEF LedgerCopyInv
  <2> QED
    BY <1>2, <1>3, <2>2 DEF LedgerCopyInv, CopyInv, Regrades
<1>8. CASE ~Spaced
  BY <1>2, <1>5, <1>8 DEF LedgerCopyInv, CopyInv
<1>9. (ledgerRole' = ledgerRole /\ handled' = handled) \/ \E p \in Positions : Write(p)
  BY DEF WorkerStep, Reject, HandlerRejected, Log, LogUnheard, HandlerResolved, Fetch, Restart,
     Claim, HandlerFailed, Acknowledged
<1> QED
  BY <1>6, <1>7, <1>8, <1>9

LEMMA StepLedgerCopy ==
  ASSUME IInv, LedgerInv, LedgerCopyInv, [LedgerNext]_ledgerVars
  PROVE  LedgerCopyInv'
<1>1. CASE DomainStep /\ UNCHANGED ledgerRole
  <2>1. HandledInv' /\ SpacedInv'
    <3>1. DeliveryInv'
      BY <1>1, DomainDelivery DEF LedgerInv
    <3> QED
      BY <1>1, <3>1, DomainHandled, DomainSpaced DEF LedgerInv, LedgerCopyInv
  <2>2. PICK copy : copy = ledgerRole
    OBVIOUS
  <2>3. RoleKinds \subseteq Subscribed /\ CopyInv(copy)
    BY <2>2, LedgerAssumption DEF LedgerCopyInv
  <2>4. CopyInv(copy)'
    BY <1>1, <2>3, DomainCopy DEF LedgerInv, LedgerCopyInv
  <2> QED
    BY <1>1, <2>1, <2>2, <2>4 DEF LedgerCopyInv, CopyInv, Regrades
<1>2. CASE WorkerStep
  BY <1>2, WorkerLedgerCopy DEF IInv
<1>3. CASE UNCHANGED ledgerVars
  BY <1>3 DEF ledgerVars, vars, delivery, worker, LedgerCopyInv, HandledInv, SpacedInv, CopyInv, Spaced,
     Unsettled, Positions, Kind, Settled, Open, Holds, Regrades, About
<1> QED
  BY <1>1, <1>2, <1>3 DEF LedgerNext

THEOREM LedgerCopyInvariant == LedgerSpec => []LedgerCopyInv
<1>1. LedgerInit => LedgerCopyInv
  BY InitSpaced DEF LedgerInit, LedgerCopyInv
<1>2. IInv /\ LedgerInv /\ LedgerCopyInv /\ [LedgerNext]_ledgerVars => LedgerCopyInv'
  BY StepLedgerCopy
<1> QED
  BY <1>1, <1>2, LedgerInvariant, LedgerImplementsDomain, InductiveInvariant, PTL DEF LedgerSpec

\* Requests that wait for one another's events leave the ledger's copy equal to the
\* original, except for a user who has left, whatever fails between the two
\* transactions of a handler and is delivered again (ledger/src/bus/handlers).
THEOREM SpacedChangesConvergeAlways == LedgerSpec => []SpacedChangesConverge
<1>1. ASSUME IInv, LedgerInv, LedgerCopyInv, Spaced, AllHandledButDepartures,
             NEW u \in Users, ledgerRole[u] # role[u]
      PROVE  \E p \in Positions \ handled : published[p].user = u /\ Departed(published[p])
  <2>1. RoleKinds \subseteq Subscribed
    BY LedgerAssumption
  <2>2. \A p \in Positions \ handled : published[p].kind \in RoleKinds => Departed(published[p])
    BY <1>1, <2>1 DEF AllHandledButDepartures, Kind
  <2>3. \A r \in Requests : unsent[r] = <<>>
    BY <1>1 DEF AllHandledButDepartures, IInv, SendingInv, Open
  <2> QED
    BY <1>1, <2>2, <2>3 DEF LedgerCopyInv, CopyInv, About
<1>2. IInv /\ LedgerInv /\ LedgerCopyInv => SpacedChangesConverge
  BY <1>1 DEF SpacedChangesConverge
<1> QED
  BY <1>2, LedgerCopyInvariant, LedgerInvariant, LedgerImplementsDomain, InductiveInvariant, PTL

=============================================================================
