--------------------------- MODULE ReplicaDelivery ---------------------------
(***************************************************************************)
(* How the events of the domain service reach another service: the         *)
(* consumer group and the worker of EventListener, seen from the handlers. *)
(* The worker takes everything unread, handles the whole batch             *)
(* concurrently, in any order within and across streams, and reads again   *)
(* when every handler has settled.  A failed entry is parked in the PEL    *)
(* until a restarted worker claims it.                                     *)
(*                                                                         *)
(* EventListener models the protocol itself; here a batch is a set, the    *)
(* semaphore is left out (maxConcurrent is 100, a batch at most 10 entries *)
(* of each of five streams) and so is the COUNT of a read, which the       *)
(* bounds never reach.                                                     *)
(***************************************************************************)
EXTENDS DomainMembership

CONSTANTS Subscribed,   \* the kinds of events with a registered handler
          MaxFaults     \* bound: restarts and failing handlers

ASSUME DeliveryAssumption ==
  /\ Subscribed \subseteq {"CREATED", "UPDATED", "ADDED", "REMOVED", "ROLE", "DELETED"}
  /\ MaxFaults \in Nat

VARIABLES
  fetched,     \* how many of the published events the group has been given
  fresh,       \* events of the batch whose handler has not written yet
  written,     \* events whose handler has written and is not done
  acking,      \* events whose handler resolved: an XACK is on its way
  parked,      \* events of the PEL that no handler works on
  toClaim,     \* a restarted worker: the streams it has not claimed yet
  handled,     \* history: events whose handler has written at least once
  faults,      \* history: restarts and failures so far
  hurried      \* history: a request came before earlier events were settled

worker == <<fetched, fresh, written, acking, parked, toClaim>>
delivery == <<worker, handled, faults>>

Positions == 1..Len(published)
Kind(p) == published[p].kind

\* Nothing is on its way: every event has been handed out and acknowledged.
Settled == /\ fetched = Len(published)
           /\ fresh \cup written \cup acking \cup parked = {}

\* The handlers are idle and every event they subscribe to has been handled.
AllHandled ==
  /\ \A r \in Requests : ~Open(r)
  /\ fetched = Len(published)
  /\ fresh \cup written = {}
  /\ \A p \in Positions : Kind(p) \in Subscribed => p \in handled

\* The requests came one by one, each after the events of the one before were
\* settled, and each told what it did.
Spaced == ~hurried /\ overlapped = {} /\ ~lost

DeliveryTypeOK ==
  /\ fetched \in 0..Len(published)
  /\ fresh \cup written \cup acking \cup parked \cup handled \subseteq 1..fetched
  /\ toClaim \subseteq Subscribed
  /\ faults \in 0..MaxFaults
  /\ hurried \in BOOLEAN

DeliveryInit ==
  /\ fetched = 0
  /\ fresh = {} /\ written = {} /\ acking = {} /\ parked = {}
  /\ toClaim = {}
  /\ handled = {}
  /\ faults = 0
  /\ hurried = FALSE

-----------------------------------------------------------------------------
\* The domain service goes on.
DomainStep ==
  \E r \in Requests :
    /\ RequestStep(r)
    /\ hurried' = (hurried \/ (pc[r] = "idle" /\ ~Settled))
    /\ UNCHANGED delivery

\* Plausible fault: a read does not move the position of the group.
FetchAgain ==
  /\ toClaim = {}
  /\ fresh \cup written = {}
  /\ fetched < Len(published)
  /\ fresh' = {p \in (fetched + 1)..Len(published) : Kind(p) \in Subscribed}
  /\ UNCHANGED <<vars, fetched, written, acking, parked, toClaim, handled, faults, hurried>>

\* listen(): the previous batch has settled, xReadGroup hands out what is new.
Fetch ==
  /\ toClaim = {}
  /\ fresh \cup written = {}
  /\ fetched < Len(published)
  /\ fetched' = Len(published)
  /\ fresh' = {p \in (fetched + 1)..Len(published) : Kind(p) \in Subscribed}
  /\ UNCHANGED <<vars, written, acking, parked, toClaim, handled, faults, hurried>>

\* processPendingMessages after a restart: one stream after the other, whatever
\* part of its parked entries has been idle for a minute.
Claim(k) ==
  /\ k \in toClaim
  /\ fresh \cup written = {}
  /\ \E aged \in SUBSET {p \in parked : Kind(p) = k} :
       /\ fresh' = aged
       /\ parked' = parked \ aged
  /\ toClaim' = toClaim \ {k}
  /\ UNCHANGED <<vars, fetched, written, acking, handled, faults, hurried>>

\* A handler has written to its database and goes on.
HandlerWrote(p) ==
  /\ p \in fresh
  /\ fresh' = fresh \ {p}
  /\ written' = written \cup {p}
  /\ handled' = handled \cup {p}
  /\ UNCHANGED <<vars, fetched, acking, parked, toClaim, faults, hurried>>

\* A handler has resolved.
HandlerResolved(p) ==
  /\ p \in written
  /\ written' = written \ {p}
  /\ acking' = acking \cup {p}
  /\ UNCHANGED <<vars, fetched, fresh, parked, toClaim, handled, faults, hurried>>

\* A handler has thrown on what the event or the table holds.
HandlerRejected(p) ==
  /\ p \in fresh
  /\ fresh' = fresh \ {p}
  /\ parked' = parked \cup {p}
  /\ UNCHANGED <<vars, fetched, written, acking, toClaim, handled, faults, hurried>>

\* A handler has thrown because its database did not answer, having written or not.
HandlerFailed(p) ==
  /\ faults < MaxFaults
  /\ p \in fresh \cup written
  /\ fresh' = fresh \ {p}
  /\ written' = written \ {p}
  /\ parked' = parked \cup {p}
  /\ faults' = faults + 1
  /\ UNCHANGED <<vars, fetched, acking, toClaim, handled, hurried>>

\* Redis executes an XACK.
Acknowledged(p) ==
  /\ p \in acking
  /\ acking' = acking \ {p}
  /\ UNCHANGED <<vars, fetched, fresh, written, parked, toClaim, handled, faults, hurried>>

\* The service stops and starts again: what it worked on stays in the PEL.  Its claims
\* of the streams without pending entries change nothing and are left out.
Restart ==
  /\ faults < MaxFaults
  /\ parked' = parked \cup fresh \cup written \cup acking
  /\ fresh' = {} /\ written' = {} /\ acking' = {}
  /\ toClaim' = {Kind(p) : p \in parked'}
  /\ faults' = faults + 1
  /\ UNCHANGED <<vars, fetched, handled, hurried>>

-----------------------------------------------------------------------------
(* Part of the inductive invariants of the replicas *)

\* An event is handled, or waits to be, in one place; nobody else's events are.
DeliveryInv ==
  /\ DeliveryTypeOK
  /\ \A p \in fresh \cup written \cup acking \cup parked : Kind(p) \in Subscribed
  /\ fresh \cap written = {}
  /\ (fresh \cup written) \cap parked = {}

\* What was given to the worker has been handled, or waits to be.
HandledInv ==
  /\ \A p \in 1..fetched : Kind(p) \in Subscribed /\ p \notin fresh \cup parked => p \in handled
  /\ written \cup acking \subseteq handled

\* The events a handler may still act on.
Unsettled == {p \in Positions : fetched < p \/ p \in fresh \cup written \cup acking \cup parked}

\* The events that say which role a user has now.
RoleKinds == {"CREATED", "ADDED", "ROLE", "REMOVED"}
About(e, u) == e.kind \in RoleKinds /\ e.user = u
RoleIn(e) == IF e.kind = "REMOVED" THEN NoRole ELSE e.role

\* The tables agree with the event.
Holds(e) == e.kind \in RoleKinds => role[e.user] = RoleIn(e) /\ (RoleIn(e) = NoRole <=> e.kind = "REMOVED")

\* When requests wait for one another's events, one is open at a time; until its
\* transaction runs nothing is on its way, and then only what the tables agree with.
SpacedInv ==
  Spaced =>
    /\ \A q, r \in Requests : Open(q) /\ Open(r) => q = r
    /\ \A r \in Requests : pc[r] \in {"check1", "check2", "commit"} => Settled
    /\ \A p \in Unsettled : Holds(published[p])
    /\ \A r \in Requests : \A i \in DOMAIN unsent[r] : Holds(unsent[r][i])

\* An update of a role finds one in the copy.
Regrades(e, copy) == e.kind = "ROLE" => copy[e.user] # NoRole

\* A copy of the roles differs from the original only for users of whom an event has
\* still to be handled.
CopyInv(copy) ==
  Spaced =>
    /\ \A p \in Unsettled : Regrades(published[p], copy)
    /\ \A r \in Requests : \A i \in DOMAIN unsent[r] : Regrades(unsent[r][i], copy)
    /\ \A u \in Users :
         \/ copy[u] = role[u]
         \/ \E p \in Positions \ handled : About(published[p], u)
         \/ \E r \in Requests : \E i \in DOMAIN unsent[r] : About(unsent[r][i], u)

=============================================================================
