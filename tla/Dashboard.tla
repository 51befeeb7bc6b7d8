----------------------------- MODULE Dashboard -----------------------------
(***************************************************************************)
(* What the dashboards of the frontend show of the devices of one domain   *)
(* (app/src/pages/dashboard): a list, asked for until one has arrived, and *)
(* then what the service emits to the room of the domain, over a connection*)
(* that may break.  Sockets deliver in order; what is emitted while a      *)
(* dashboard is not connected is not delivered later, and the list is not  *)
(* fetched again.                                                          *)
(***************************************************************************)
EXTENDS DeviceControl

CONSTANTS Viewers,         \* users with a dashboard open, members throughout
          Home,            \* the domain it shows
          Fetches,         \* bound: requests for the list a dashboard has under way
          MaxDisconnects   \* bound: broken connections

ASSUME DashboardAssumption ==
  Viewers \subseteq Users /\ Home \in Domains /\ MaxDisconnects \in Nat

VARIABLES
  connected,     \* viewers whose socket is connected and in the room
  position,      \* how many of the room's messages each socket is done with
  listing,       \* the requests for the list, or their answers on their way
  loaded,        \* viewers with an entry for the domain in domainDevices
  shown,         \* that entry: what is shown of each device
  edits,         \* the deletions and renamings a dashboard has not been answered
  disconnects,   \* history: broken connections so far
  stale          \* history: viewers that missed a message they needed

dashboards == <<connected, position, listing, loaded, shown, edits, disconnects, stale>>
allVars == <<dcVars, dashboards>>

Absent == [name |-> Nobody, currentState |-> <<>>, online |-> FALSE]
Card(m) == [name |-> m.name, currentState |-> m.currentState, online |-> FALSE]

Here(v) == Live(v) /\ device[v].domainId = Home
Snapshot == [v \in Devices |-> IF Here(v) THEN Card(device[v]) ELSE Absent]
NothingShown == [v \in Devices |-> Absent]
Shows(u, v) == shown[u][v] # Absent

NotListing == [stage |-> "none", devices |-> NothingShown]

DashboardInit ==
  /\ DeviceInit
  /\ \A u \in Viewers : role[u][Home] # NoRole
  /\ connected = Viewers
  /\ position = [u \in Viewers |-> 0]
  /\ listing = [q \in Viewers \X Fetches |-> NotListing]
  /\ loaded = {}
  /\ shown = [u \in Viewers |-> NothingShown]
  /\ edits = {}
  /\ disconnects = 0
  /\ stale = {}

-----------------------------------------------------------------------------
List(u, f, stage, devices) ==
  listing' = [listing EXCEPT ![<<u, f>>] = [stage |-> stage, devices |-> devices]]

\* DomainView asks for the devices of a domain it has no entry for, once more
\* whenever its effect runs again before an answer has come.
AskForDevices(u, f) ==
  /\ u \notin loaded /\ listing[<<u, f>>].stage = "none"
  /\ List(u, f, "asked", NothingShown)
  /\ UNCHANGED <<dcVars, connected, position, loaded, shown, edits, disconnects, stale>>

\* GetDomainDevicesService: isMember, then findByDomainId.
CheckMember(u, f) ==
  /\ listing[<<u, f>>].stage = "asked"
  /\ List(u, f, IF role[u][Home] # NoRole THEN "checked" ELSE "none", NothingShown)
  /\ UNCHANGED <<dcVars, connected, position, loaded, shown, edits, disconnects, stale>>

FindDevices(u, f) ==
  /\ listing[<<u, f>>].stage = "checked"
  /\ List(u, f, "answered", Snapshot)
  /\ UNCHANGED <<dcVars, connected, position, loaded, shown, edits, disconnects, stale>>

\* An answer that comes second replaces the entry.
DevicesArrive(u, f) ==
  /\ listing[<<u, f>>].stage = "answered"
  /\ shown' = [shown EXCEPT ![u] = listing[<<u, f>>].devices]
  /\ loaded' = loaded \cup {u}
  /\ List(u, f, "none", NothingShown)
  /\ UNCHANGED <<dcVars, connected, position, edits, disconnects, stale>>

RequestFails(u, f) ==
  /\ listing[<<u, f>>].stage # "none"
  /\ List(u, f, "none", NothingShown)
  /\ UNCHANGED <<dcVars, connected, position, loaded, shown, edits, disconnects, stale>>

WithValue(card, k, x) == [card EXCEPT !.currentState = With(@, k, x), !.online = TRUE]

\* The handlers of the socket's events that merge something into the card of the
\* device.  The message of a rename has no deviceId and no changes, which are what its
\* handler reads, and the changes of a control are {capability, value}, which its
\* handler merges into the state as if they were capabilities.
Merged(card, m) ==
  CASE m.event = "DEVICE_INFO_UPDATED" -> card
    [] m.event = "DEVICE_UPDATED" ->
         [card EXCEPT !.currentState = With(With(@, "capability", m.key), "value", m.value)]
    [] m.event = "DEVICE_TELEMETRY" -> WithValue(card, m.key, m.value)
    [] m.event = "DEVICE_STATUS" -> [card EXCEPT !.online = m.online]

\* Plausible fault: a deletion is shown as a device that is offline.
ChangedButNotRemoved(card, m) ==
  CASE m.event = "DEVICE_ADDED" -> Card(m.document)
    [] m.event = "DEVICE_REMOVED" /\ card # Absent -> [card EXCEPT !.online = FALSE]
    [] OTHER -> IF card = Absent THEN card ELSE Merged(card, m)

\* Plausible fault: a report is merged as a control is.
ChangedAlike(card, m) ==
  CASE m.event = "DEVICE_ADDED"   -> Card(m.document)
    [] m.event = "DEVICE_REMOVED" -> Absent
    [] OTHER ->
         IF card = Absent THEN card
         ELSE Merged(card, IF m.event = "DEVICE_TELEMETRY"
                           THEN [m EXCEPT !.event = "DEVICE_UPDATED"] ELSE m)

\* What is not there is not changed.
Changed(card, m) ==
  CASE m.event = "DEVICE_ADDED"   -> Card(m.document)
    [] m.event = "DEVICE_REMOVED" -> Absent
    [] OTHER -> IF card = Absent THEN card ELSE Merged(card, m)

AnswerUnderWay(u) == \E f \in Fetches : listing[<<u, f>>].stage = "answered"

ReceivesIt(u, m) == m.event = "DEVICE_UPDATED" => m.except # u

\* A socket delivers the next message.  Without an entry for the domain it changes
\* nothing, and a list that has been read already will not have it when it arrives.
Receive(u) ==
  /\ u \in connected /\ position[u] < Len(emitted[Home])
  /\ position' = [position EXCEPT ![u] = @ + 1]
  /\ LET m == emitted[Home][position[u] + 1]
     IN  /\ shown' = IF u \in loaded /\ ReceivesIt(u, m)
                     THEN [shown EXCEPT ![u][m.device] = Changed(@, m)]
                     ELSE shown
         /\ stale' = IF AnswerUnderWay(u) THEN stale \cup {u} ELSE stale
  /\ UNCHANGED <<dcVars, connected, listing, loaded, edits, disconnects>>

Disconnect(u) ==
  /\ u \in connected /\ disconnects < MaxDisconnects
  /\ connected' = connected \ {u}
  /\ disconnects' = disconnects + 1
  /\ UNCHANGED <<dcVars, position, listing, loaded, shown, edits, stale>>

\* A new socket joins the room; what was emitted meanwhile is gone.
Connect(u) ==
  /\ u \notin connected
  /\ connected' = connected \cup {u}
  /\ position' = [position EXCEPT ![u] = Len(emitted[Home])]
  /\ stale' = IF position[u] < Len(emitted[Home]) THEN stale \cup {u} ELSE stale
  /\ UNCHANGED <<dcVars, listing, loaded, shown, edits, disconnects>>

\* A viewer makes one of these requests.
Asks(r, ops) ==
  /\ pc[r] = "idle" /\ pc'[r] # "idle"
  /\ call'[r].op \in ops /\ call'[r].user \in Viewers

Turns(r) == Asks(r, {"control"})

\* What the card of a capability lets its viewer choose: a gauge nothing, and a colour
\* whatever he types.
Slides(c, x) == IsNumber(x) /\ c.min <= x.number /\ x.number <= c.max
Selects(c, x) == \E i \in DOMAIN c.enumValues : x = Text(c.enumValues[i])

Choosable(c, x) ==
  CASE c.type = "BINARY" -> IsSwitch(x)
    [] c.type = "RANGE"  -> Slides(c, x)
    [] c.type = "ENUM"   -> Selects(c, x)
    [] c.type = "GAUGE"  -> FALSE
    [] c.type = "COLOR"  -> IsText(x)

\* DeviceView emits the change and shows it at once, whatever becomes of it.
Turn(r) ==
  /\ pc[r] = "idle" /\ DeviceStep
  /\ Turns(r)
  /\ LET c == call'[r]
     IN  /\ c.user \in connected /\ c.domain = Home /\ Shows(c.user, c.device)
         /\ c.key \in DOMAIN device[c.device].capabilities
         /\ Choosable(device[c.device].capabilities[c.key], c.value)
         /\ shown' = [shown EXCEPT ![c.user][c.device] = WithValue(@, c.key, c.value)]
  /\ UNCHANGED <<connected, position, listing, loaded, edits, disconnects, stale>>

\* A viewer deletes or renames a device whose card he sees.
Edit(r) ==
  /\ pc[r] = "idle" /\ DeviceStep
  /\ Asks(r, {"delete", "rename"})
  /\ Shows(call'[r].user, call'[r].device)
  /\ edits' = edits \cup {r}
  /\ UNCHANGED <<connected, position, listing, loaded, shown, disconnects, stale>>

\* The answer to it arrives; a request that failed is answered with an error.
Answered(r) ==
  /\ r \in edits /\ pc[r] = "closed"
  /\ edits' = edits \ {r}
  /\ UNCHANGED <<dcVars, connected, position, listing, loaded, disconnects>>

Done(r) == \E e \in bus : e.by = r

EditFails(r) == Answered(r) /\ ~Done(r) /\ UNCHANGED <<shown, stale>>

DeleteDone(r) ==
  /\ Answered(r) /\ Done(r) /\ call[r].op = "delete"
  /\ shown' = [shown EXCEPT ![call[r].user][call[r].device] = Absent]
  /\ UNCHANGED stale

\* The new name is merged into the card, or makes a card of its own when the device
\* has been deleted meanwhile.
RenameDone(r) ==
  /\ Answered(r) /\ Done(r) /\ call[r].op = "rename"
  /\ LET u == call[r].user
         v == call[r].device
     IN  /\ shown' = [shown EXCEPT ![u][v].name = call[r].name]
         /\ stale' = IF Shows(u, v) THEN stale ELSE stale \cup {u}

DashboardStep ==
  \/ \E u \in Viewers :
       \/ \E f \in Fetches : \/ AskForDevices(u, f) \/ CheckMember(u, f) \/ FindDevices(u, f)
                              \/ DevicesArrive(u, f) \/ RequestFails(u, f)
       \/ Receive(u) \/ Disconnect(u) \/ Connect(u)
  \/ \E r \in edits : EditFails(r) \/ DeleteDone(r) \/ RenameDone(r)

DashboardNext ==
  \/ DeviceStep /\ (\A r \in Requests : ~Turns(r)) /\ UNCHANGED dashboards
  \/ \E r \in Requests : Turn(r) \/ Edit(r)
  \/ DashboardStep
  \/ Quiet /\ UNCHANGED allVars

DashboardSpec == DashboardInit /\ [][DashboardNext]_allVars

-----------------------------------------------------------------------------
\* The service is idle and the dashboard has received all it will.
UpToDate(u) ==
  /\ Quiet /\ position[u] = Len(emitted[Home])
  /\ u \in (loaded \cap connected) \ stale
  /\ \A r \in edits : call[r].user # u

\* A deletion overtook the creation: its message came first.
Crossed(v) ==
  \E i, j \in DOMAIN emitted[Home] :
    /\ i < j
    /\ emitted[Home][i].event = "DEVICE_REMOVED" /\ emitted[Home][i].device = v
    /\ emitted[Home][j].event = "DEVICE_ADDED" /\ emitted[Home][j].device = v

\* An up-to-date dashboard lists the devices of its domain and no other, however
\* the list, the messages and the answers to its own deletions and renamings
\* overtook one another, unless the connection broke, a message came between the
\* reading of a list and its arrival, the answer of a renaming came after the
\* deletion it overlapped (domain_view.tsx:312), or a request ended before it
\* emitted its message.
UpToDateDashboardsListTheDevices ==
  \A u \in Viewers, v \in Devices :
    UpToDate(u) /\ v \notin lost /\ ~Crossed(v) => (Shows(u, v) <=> Here(v))

\* What a device reports reaches the dashboards: a device that nobody controls
\* is shown with the values of its document.
ReportsReachTheDashboards ==
  \A u \in Viewers, v \in Devices :
    /\ UpToDate(u) /\ Shows(u, v) /\ Here(v) /\ v \notin shaky
    /\ \A r \in Requests : call[r].op = "control" => call[r].device # v
    => shown[u][v].currentState = device[v].currentState

-----------------------------------------------------------------------------
(* The inductive invariant (DashboardProofs) *)

Log == emitted[Home]

About(i, event, v) == Log[i].event = event /\ Log[i].device = v
Reports(i, v, k) == About(i, "DEVICE_TELEMETRY", v) /\ Log[i].key = k

\* What a socket has still to deliver.
Ahead(u, event, v) == \E i \in DOMAIN Log : i > position[u] /\ About(i, event, v)

\* Written, and the message not emitted yet.
Making(v) == madeBy[v] # Nobody /\ pc[madeBy[v]] = "tell"
Unmaking(v) ==
  \E r \in Requests : pc[r] = "tell" /\ call[r].op = "delete" /\ call[r].device = v
TellsOf(r, v, k) ==
  pc[r] = "tell" /\ call[r].op = "telemetry" /\ call[r].device = v /\ call[r].key = k
Reporting(v, k) == \E r \in Requests : TellsOf(r, v, k)

Messages ==
  [event : {"DEVICE_ADDED"}, device : Devices,
   document : {NewDevice(u, d, offer, n) : u \in Users, d \in Domains, offer \in Offers, n \in Names}]
  \cup [event : {"DEVICE_REMOVED", "DEVICE_INFO_UPDATED"}, device : Devices]
  \cup [event : {"DEVICE_UPDATED"}, device : Devices, key : Keys, value : Values, except : Users]
  \cup [event : {"DEVICE_TELEMETRY"}, device : Devices, key : Keys, value : Values]
  \cup [event : {"DEVICE_STATUS"}, device : Devices, online : BOOLEAN]

CardOK(c) == DOMAIN c = DOMAIN Absent /\ (c = Absent \/ c.name \in Names)
CardsOK(f) == DOMAIN f = Devices /\ \A v \in Devices : CardOK(f[v])

DashboardTypeOK ==
  /\ DOMAIN emitted = Domains /\ Log \in Seq(Messages)
  /\ connected \cup loaded \cup stale \subseteq Viewers
  /\ position \in [Viewers -> 0..Len(Log)]
  /\ DOMAIN shown = Viewers /\ DOMAIN listing = Viewers \X Fetches
  /\ \A u \in Viewers :
       /\ CardsOK(shown[u])
       /\ \A f \in Fetches : /\ listing[<<u, f>>].stage \in {"none", "asked", "checked", "answered"}
                             /\ CardsOK(listing[<<u, f>>].devices)
  /\ \A r \in edits :
       r \in Requests /\ call[r].op \in {"delete", "rename"} /\ call[r].user \in Viewers

\* Requests, the devices they made, the events they sent and the tokens that reach
\* devices.
MadeInv ==
  /\ \A r \in Requests : call[r].op = "activate" /\ pc[r] \in {"tell", "send"} =>
       \E v \in Devices : madeBy[v] = r
  /\ \A v \in Devices : madeBy[v] # Nobody => device[v].capabilities = call[madeBy[v]].offer
  /\ \A v \in Devices : Known(v) =>
       device[v].currentState =
         [k \in DOMAIN device[v].capabilities |-> device[v].currentState[k]]
  /\ \A e \in bus : /\ pc[e.by] = "closed"
                    /\ call[e.by].op = "delete" => Deleted(call[e.by].device)
  /\ \A r \in Requests : call[r].op = "telemetry" => HasToken(call[r].device)
  /\ \A r \in Requests : pc[r] = "tell" =>
       /\ call[r].op # "pair"
       /\ call[r].op = "telemetry" => call[r].key \in DOMAIN device[call[r].device].capabilities

Controlled(v) == \E r \in Requests : call[r].op = "control" /\ call[r].device = v

\* What was emitted has happened, and in this order.
LogOK(i) ==
  LET m == Log[i]
      v == m.device
  IN  /\ Known(v)
      /\ m.event = "DEVICE_ADDED" =>
           /\ device[v].domainId = Home /\ madeBy[v] # Nobody /\ pc[madeBy[v]] # "tell"
           /\ m.document.currentState = CreateCurrentState(device[v].capabilities)
           /\ \A j \in DOMAIN Log : About(j, "DEVICE_TELEMETRY", v) => i < j
      /\ m.event = "DEVICE_REMOVED" => Deleted(v) /\ ~Unmaking(v)
      /\ m.event = "DEVICE_TELEMETRY" => HasToken(v) /\ m.key \in DOMAIN device[v].capabilities
      /\ m.event = "DEVICE_UPDATED" => Controlled(v)

LogInv ==
  /\ \A i \in DOMAIN Log : LogOK(i)
  /\ \A v \in Devices \ lost : Deleted(v) /\ device[v].domainId = Home =>
       Unmaking(v) \/ \E i \in DOMAIN Log : About(i, "DEVICE_REMOVED", v)

\* A device whose values come from its reports alone.
Steady(v) == Here(v) /\ v \notin shaky /\ ~Controlled(v)

\* The value of a capability is the first one, or the last one that was emitted, or
\* about to be.
ValueOK(v, k) ==
  LET x == device[v].currentState[k]
  IN  /\ \A r \in Requests : TellsOf(r, v, k) => x = call[r].value
      /\ \/ Reporting(v, k)
         \/ /\ x = CreateCurrentState(device[v].capabilities)[k]
            /\ \A i \in DOMAIN Log : ~Reports(i, v, k)
         \/ \E i \in DOMAIN Log :
              /\ Reports(i, v, k) /\ x = Log[i].value
              /\ \A j \in DOMAIN Log : Reports(j, v, k) => j <= i

ValuesInv ==
  \A v \in Devices : Steady(v) => \A k \in DOMAIN device[v].capabilities : ValueOK(v, k)

\* A list or a card is right, or will be put right by what has still to come.
Listed(u, v, card) ==
  /\ Here(v) => card # Absent \/ Ahead(u, "DEVICE_ADDED", v) \/ Making(v)
  /\ card # Absent /\ ~Here(v) => Ahead(u, "DEVICE_REMOVED", v) \/ Unmaking(v)

Coming(u, v, k) ==
  Reporting(v, k) \/ \E i \in DOMAIN Log : i > position[u] /\ Reports(i, v, k)

Reported(u, v, card) ==
  card # Absent /\ Steady(v) =>
    card.currentState = [k \in DOMAIN device[v].capabilities |->
      IF Coming(u, v, k) THEN card.currentState[k] ELSE device[v].currentState[k]]

CardRight(u, v, card) ==
  /\ card # Absent => device[v].domainId = Home
  /\ v \notin lost /\ ~Crossed(v) => Listed(u, v, card)
  /\ Reported(u, v, card)

ViewsInv ==
  \A u \in Viewers \ stale, v \in Devices :
    /\ u \in loaded => CardRight(u, v, shown[u][v])
    /\ \A f \in Fetches :
         listing[<<u, f>>].stage = "answered" => CardRight(u, v, listing[<<u, f>>].devices[v])

DashboardInv == DashboardTypeOK /\ MadeInv /\ LogInv /\ ValuesInv /\ ViewsInv

=============================================================================
