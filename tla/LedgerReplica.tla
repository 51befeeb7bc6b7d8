---------------------------- MODULE LedgerReplica ----------------------------
(***************************************************************************)
(* The ledger service: a copy of user_roles, which decides who may read    *)
(* the ledger, and the table of transactions, one row for every change of  *)
(* a domain.  Both are written by its bus handlers                         *)
(* (services/ledger/src/bus/handlers) on the events of the domain service, *)
(* the role in a first database transaction and the row in a second one.   *)
(***************************************************************************)
EXTENDS ReplicaDelivery, Bags

\* ledger_service_worker.ts has a handler for everything but deletions.
ASSUME LedgerAssumption == Subscribed = RoleKinds \cup {"UPDATED"}

VARIABLES
  ledgerRole,   \* user_roles of the ledger: the live role of a user, or NoRole
  journal       \* table transactions: a bag of rows

ledgerVars == <<vars, delivery, hurried, ledgerRole, journal>>

\* A row is named after the event it was written for.
Row == [event : Nat, initiator : Users \cup {NoUser}]
Journalled(p) == \E row \in BagToSet(journal) : row.event = p

LedgerTypeOK ==
  /\ ledgerRole \in [Users -> Roles \cup {NoRole}]
  /\ IsABag(journal)
  /\ BagToSet(journal) \subseteq Row

LedgerInit ==
  /\ Init
  /\ DeliveryInit
  /\ ledgerRole = role
  /\ journal = EmptyBag

-----------------------------------------------------------------------------
\* What a handler finds in the event and in the table before it goes on: an
\* insert needs the unique index, a delete needs a live role, and a removal, an
\* addition and a new name must name who asked for them.
Acceptable(e) ==
  /\ e.kind \in {"CREATED", "ADDED"} => ledgerRole[e.user] = NoRole
  /\ e.kind = "REMOVED" => ledgerRole[e.user] # NoRole
  /\ e.kind \in {"ADDED", "REMOVED", "UPDATED"} => e.initiator # NoUser

\* The first transaction of each handler.
DomainUserAdded(e) == [ledgerRole EXCEPT ![e.user] = e.role]

\* The result of updateRole is ignored: without a live role it does nothing.
DomainUserRoleUpdated(e) == Regraded(ledgerRole, e.user, e.role)

\* Plausible fault: the handler of removals only writes its row.
RemovedWithoutDelete(e) == ledgerRole

DomainUserRemoved(e) == [ledgerRole EXCEPT ![e.user] = NoRole]

\* Only a row is written (as by the handlers of the device service's events).
DomainUpdated(e) == ledgerRole

\* The handler that is registered for each stream.
Recorded(e) ==
  CASE e.kind \in {"CREATED", "ADDED"} -> DomainUserAdded(e)
    [] e.kind = "ROLE"    -> DomainUserRoleUpdated(e)
    [] e.kind = "REMOVED" -> DomainUserRemoved(e)
    [] e.kind = "UPDATED" -> DomainUpdated(e)

Write(p) ==
  /\ Acceptable(published[p])
  /\ HandlerWrote(p)
  /\ ledgerRole' = Recorded(published[p])
  /\ UNCHANGED journal

Reject(p) ==
  /\ ~Acceptable(published[p])
  /\ HandlerRejected(p)
  /\ UNCHANGED <<ledgerRole, journal>>

\* Who a row names: creations and role updates name the user they are about.
InitiatorOf(e) == IF e.kind \in {"CREATED", "ROLE"} THEN e.user ELSE e.initiator
RowFor(p) == SetToBag({[event |-> p, initiator |-> InitiatorOf(published[p])]})

\* Plausible fault: the handler does not await the second transaction.
LogWithoutWaiting(p) ==
  /\ HandlerResolved(p)
  /\ journal' \in {journal, journal (+) RowFor(p)}
  /\ UNCHANGED ledgerRole

\* The second transaction, and the handler resolves.
Log(p) ==
  /\ HandlerResolved(p)
  /\ journal' = journal (+) RowFor(p)
  /\ UNCHANGED ledgerRole

\* The second transaction is committed, but the handler is not told and throws: the
\* row is there and the entry stays pending.
LogUnheard(p) ==
  /\ p \in written
  /\ HandlerFailed(p)
  /\ journal' = journal (+) RowFor(p)
  /\ UNCHANGED ledgerRole

WorkerStep ==
  \/ \E p \in Positions : Write(p) \/ Reject(p) \/ Log(p) \/ LogUnheard(p)
  \/ /\ \/ Fetch
        \/ Restart
        \/ \E k \in Subscribed : Claim(k)
        \/ \E p \in Positions : HandlerFailed(p) \/ Acknowledged(p)
     /\ UNCHANGED <<ledgerRole, journal>>

LedgerNext ==
  \/ DomainStep /\ UNCHANGED <<ledgerRole, journal>>
  \/ WorkerStep
  \/ (\A r \in Requests : pc[r] = "closed") /\ UNCHANGED ledgerVars

LedgerSpec == LedgerInit /\ [][LedgerNext]_ledgerVars

-----------------------------------------------------------------------------
\* An event of the ledger's streams that is no longer in the PEL is in the
\* journal: no crash or failure between the two transactions of a handler, and
\* none before the XACK, lets an event be acknowledged that was not logged.
AcknowledgedIsJournalled ==
  \A p \in 1..fetched :
    Kind(p) \in Subscribed /\ p \notin fresh \cup written \cup parked => Journalled(p)

\* An event is logged again only when a fault made Redis deliver it again: the
\* number of its rows is bounded by the faults, whatever the order of events.
LoggedAgainOnlyAfterFaults ==
  \A row \in BagToSet(journal) : journal[row] <= 1 + faults

\* A member has left: the event names no initiator, and the handler refuses it.
Departed(e) == e.kind = "REMOVED" /\ e.initiator = NoUser

\* Every event has been handled that can be.
AllHandledButDepartures ==
  /\ \A r \in Requests : ~Open(r)
  /\ fetched = Len(published)
  /\ \A p \in Positions : Kind(p) \in Subscribed => p \in handled \/ Departed(published[p])

\* Requests that wait for one another's events leave the copy equal to the original,
\* except for a user who has left: a handler that stopped between its two
\* transactions is refused the second time and does no harm to the role.
SpacedChangesConverge ==
  Spaced /\ AllHandledButDepartures =>
    \A u \in Users :
      \/ ledgerRole[u] = role[u]
      \/ \E p \in Positions \ handled : published[p].user = u /\ Departed(published[p])

(* The inductive invariant behind the first two (LedgerProofs) *)

\* Every row is about an event the worker was given; one that may be logged once
\* more has been logged at most once for every fault.
RowsPerFault ==
  \A row \in BagToSet(journal) :
    /\ row.event \in 1..fetched
    /\ journal[row] <= IF row.event \in fresh \cup written \cup parked THEN faults ELSE 1 + faults

LedgerInv == LedgerTypeOK /\ DeliveryInv /\ AcknowledgedIsJournalled /\ RowsPerFault

\* What SpacedChangesConverge needs.
LedgerCopyInv == HandledInv /\ SpacedInv /\ CopyInv(ledgerRole)

=============================================================================
