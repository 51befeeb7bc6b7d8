--------------------------- MODULE DeviceControl ---------------------------
(***************************************************************************)
(* The devices of the device control service: pairing codes in Redis, the  *)
(* devices collection in Mongo, the HTTP requests that pair, rename and    *)
(* delete devices, the socket message that controls one, and the MQTT      *)
(* messages in which devices report values and their status.               *)
(*                                                                         *)
(* A request waits for one answer after the other; pc names the answer it  *)
(* waits for, and other requests run in between.  Whatever a request does  *)
(* after an answer up to its next wait is one action with that answer.     *)
(* The service's copy of the roles is changed by its bus handlers at any   *)
(* time (DeviceControlReplica).                                            *)
(***************************************************************************)
EXTENDS Capabilities, FiniteSets

CONSTANTS Users, Domains,
          Devices,         \* the ids that randomUUID can give to devices
          Codes,           \* pairing codes that pass VerifyPairingCode
          Requests,        \* requests and messages; each one is made once
          Offers,          \* the capability maps that devices present
          Keys,            \* the capabilities that requests name
          Values,          \* the values that requests carry
          Names,           \* names of devices
          Granted,         \* the roles that bus handlers write
          Nobody,          \* the absence of a user, a domain, a name, a request
          MaxRoleChanges   \* bound: changes of the copy of the roles

ASSUME DeviceAssumption ==
  /\ Nobody \notin Users \cup Domains \cup Names \cup Requests
  /\ Granted \subseteq {"OWNER", "ADMIN", "MEMBER", "GUEST"}
  /\ MaxRoleChanges \in Nat

\* The types of what a device declares: verifyCapabilities checks them where they
\* matter, and the schema casts them elsewhere.  Numbers stand for whole ones.
ASSUME OffersAssumption ==
  \A offer \in Offers : \A k \in DOMAIN offer :
    /\ \A bound \in {"min", "max"} : Declares(offer[k], bound) => offer[k][bound] \in Int
    /\ Declares(offer[k], "enumValues") => offer[k].enumValues \in Seq(STRING)

VARIABLES
  role,         \* UserRoles: the live role of a user in a domain, or NoRole
  code,         \* Redis: what each pairing code stands for
  device,       \* the devices collection
  call,         \* what each request asks for
  pc,           \* the answer it waits for
  grant,        \* what the pairing code of an activation stood for
  bus,          \* the events sent to the other services, with their senders
  emitted,      \* what was emitted to the room of each domain, oldest first
  onDevice,     \* the values a device is known to have: reported by it or sent
  unlinked,     \* devices that were told that they are not linked any more
  roleChanges,  \* history: changes of roles so far
  madeBy,       \* history: the activation that created a device
  managed,      \* history: activations whose user has managed the domain since
  lost,         \* history: devices with a change whose event was not sent
  shaky         \* history: devices with overlapping, failed or refused values

documents == <<role, code, device>>
histories == <<roleChanges, madeBy, lost, shaky>>
dcVars == <<documents, call, pc, grant, bus, emitted, onDevice, unlinked,
            histories, managed>>

-----------------------------------------------------------------------------
NoRole == "NONE"
CanManageDevices(u, d) == role[u][d] \in {"OWNER", "ADMIN"}
CanControlDevices(u, d) == role[u][d] # NoRole

\* What the routes, the socket and the broker let through to the services.
PairCalls == [op : {"pair"}, user : Users, domain : Domains]
ActivateCalls == [op : {"activate"}, code : Codes, offer : Offers, name : Names]
DeleteCalls == [op : {"delete"}, user : Users, device : Devices]
RenameCalls == [op : {"rename"}, user : Users, device : Devices, name : Names]
ControlCalls ==
  [op : {"control"}, user : Users, domain : Domains, device : Devices, key : Keys, value : Values]
TelemetryCalls == [op : {"telemetry"}, device : Devices, key : Keys, value : Values]
StatusCalls == [op : {"status"}, device : Devices, online : BOOLEAN]

Calls == PairCalls \cup ActivateCalls \cup DeleteCalls \cup RenameCalls
           \cup ControlCalls \cup TelemetryCalls \cup StatusCalls

NoCall == [op |-> "none"]
SetsValue(c) == c.op \in {"control", "telemetry"}
Announces(c) == c.op \in {"activate", "delete", "rename"}

NoGrant == [by |-> Nobody, user |-> Nobody, domain |-> Nobody]
Grants == [by : Requests, user : Users, domain : Domains]

NoDevice == [status |-> "none", domainId |-> Nobody, createdBy |-> Nobody, name |-> Nobody,
             capabilities |-> <<>>, currentState |-> <<>>]

\* The document that create saves.
NewDevice(u, d, offer, n) ==
  [status |-> "live", domainId |-> d, createdBy |-> u, name |-> n,
   capabilities |-> offer, currentState |-> CreateCurrentState(offer)]

Known(v) == device[v].status # "none"
Live(v) == device[v].status = "live"
Deleted(v) == device[v].status = "deleted"

Stages == {"perms", "setCode", "getDel", "create", "find", "write", "save", "publish",
           "tell", "send"}
Open(r) == pc[r] \in Stages
Quiet == \A r \in Requests : ~Open(r)

\* The device a request has found or created.
Target(r) ==
  IF call[r].op = "activate" THEN {v \in Devices : madeBy[v] = r}
  ELSE {v \in Devices : call[r].op \in {"delete", "rename", "control", "telemetry"}
                          /\ call[r].device = v}

\* Somebody is setting a value of the device.
Setting(r, v) == Open(r) /\ SetsValue(call[r]) /\ call[r].device = v
BeingSet(v) == \E r \in Requests : Setting(r, v)

\* A state has exactly the capabilities of the device.
DocumentOK(m) ==
  \/ m = NoDevice
  \/ /\ DOMAIN m = DOMAIN NoDevice
     /\ m.status \in {"live", "deleted"}
     /\ m.domainId \in Domains /\ m.createdBy \in Users /\ m.name \in Names
     /\ m.capabilities \in Offers
     /\ DOMAIN m.currentState = DOMAIN m.capabilities

DeviceTypeOK ==
  /\ role \in [Users -> [Domains -> Granted \cup {NoRole}]]
  /\ code \in [Codes -> Grants \cup {NoGrant}]
  /\ DOMAIN device = Devices /\ \A v \in Devices : DocumentOK(device[v])
  /\ call \in [Requests -> Calls \cup {NoCall}]
  /\ pc \in [Requests -> Stages \cup {"idle", "closed"}]
  /\ grant \in [Requests -> Grants \cup {NoGrant}]
  /\ bus \subseteq [kind : {"CREATED", "DELETED", "UPDATED"}, device : Devices, by : Requests]
  /\ DOMAIN onDevice = Devices /\ \A v \in Devices : DOMAIN onDevice[v] \subseteq Keys
  /\ unlinked \cup lost \cup shaky \subseteq Devices
  /\ roleChanges \in 0..MaxRoleChanges
  /\ madeBy \in [Devices -> Requests \cup {Nobody}]
  /\ managed \subseteq Requests

\* Any roles, and any devices that earlier activations have left.
DeviceInit ==
  /\ role \in [Users -> [Domains -> Granted \cup {NoRole}]]
  /\ code = [c \in Codes |-> NoGrant]
  /\ \E earlier \in SUBSET Devices, u \in Users, d \in Domains, n \in Names,
        offer \in {o \in Offers : Acceptable(o)} :
       device = [v \in Devices |-> IF v \in earlier THEN NewDevice(u, d, offer, n) ELSE NoDevice]
  /\ call = [r \in Requests |-> NoCall]
  /\ pc = [r \in Requests |-> "idle"]
  /\ grant = [r \in Requests |-> NoGrant]
  /\ bus = {}
  /\ emitted = [d \in Domains |-> <<>>]
  /\ onDevice = [v \in Devices |-> <<>>]
  /\ unlinked = {}
  /\ roleChanges = 0
  /\ madeBy = [v \in Devices |-> Nobody]
  /\ managed = {}
  /\ lost = {}
  /\ shaky = {}

Goto(r, stage) == pc' = [pc EXCEPT ![r] = stage]

\* A function with one more, or one other, value.
With(f, k, x) == [j \in DOMAIN f \cup {k} |-> IF j = k THEN x ELSE f[j]]

-----------------------------------------------------------------------------
FirstStage(c) ==
  CASE c.op \in {"pair", "control"} -> "perms"
    [] c.op = "activate" -> "getDel"
    [] OTHER -> "find"

\* A device reports from when the answer of its activation gave it a token.
HasToken(v) ==
  Known(v) /\ (madeBy[v] # Nobody => [kind |-> "CREATED", device |-> v, by |-> madeBy[v]] \in bus)

\* A request or a message arrives.  The ids it names are those of devices that
\* exist or existed, and a device that reports a value has it by then.
Begin(r) ==
  /\ pc[r] = "idle"
  /\ \E c \in Calls :
       /\ "device" \in DOMAIN c => Known(c.device)
       /\ c.op \in {"telemetry", "status"} => HasToken(c.device)
       /\ call' = [call EXCEPT ![r] = c]
       /\ Goto(r, FirstStage(c))
       /\ onDevice' = IF c.op = "telemetry"
                      THEN [onDevice EXCEPT ![c.device] = With(@, c.key, c.value)]
                      ELSE onDevice
       /\ shaky' = shaky \cup (IF SetsValue(c) /\ BeingSet(c.device) THEN {c.device} ELSE {})
  /\ UNCHANGED <<documents, grant, bus, emitted, unlinked, roleChanges, madeBy, lost>>

\* userPermisisons answers, and the service decides.
MayProceed(r) ==
  CASE call[r].op = "pair"     -> CanManageDevices(call[r].user, call[r].domain)
    [] call[r].op = "activate" -> CanManageDevices(grant[r].user, grant[r].domain)
    [] call[r].op = "control"  -> CanControlDevices(call[r].user, call[r].domain)
    [] OTHER -> CanManageDevices(call[r].user, device[call[r].device].domainId)

\* Plausible fault: the code itself is taken for the permission.
TrustTheCode(r) ==
  /\ pc[r] = "perms"
  /\ Goto(r, IF ~MayProceed(r) /\ call[r].op # "activate" THEN "closed"
             ELSE CASE call[r].op = "pair"     -> "setCode"
                    [] call[r].op = "activate" -> "create"
                    [] call[r].op = "control"  -> "find"
                    [] OTHER -> "write")
  /\ UNCHANGED <<documents, call, grant, bus, emitted, onDevice, unlinked, histories>>

CheckPermissions(r) ==
  /\ pc[r] = "perms"
  /\ Goto(r, IF ~MayProceed(r) THEN "closed"
             ELSE CASE call[r].op = "pair"     -> "setCode"
                    [] call[r].op = "activate" -> "create"
                    [] call[r].op = "control"  -> "find"
                    [] OTHER -> "write")
  /\ UNCHANGED <<documents, call, grant, bus, emitted, onDevice, unlinked, histories>>

\* GeneratePairingCode and SET NX EX: a code that is taken makes the request fail.
SetCode(r) ==
  /\ pc[r] = "setCode"
  /\ \E c \in Codes :
       code' = IF code[c] = NoGrant
               THEN [code EXCEPT ![c] = [by |-> r, user |-> call[r].user, domain |-> call[r].domain]]
               ELSE code
  /\ Goto(r, "closed")
  /\ UNCHANGED <<role, device, call, grant, bus, emitted, onDevice, unlinked, histories>>

\* Redis drops a code after PAIRING_CODE_EXPIRY_SECONDS.
Expire(c) ==
  /\ code[c] # NoGrant
  /\ code' = [code EXCEPT ![c] = NoGrant]
  /\ UNCHANGED <<role, device, call, pc, grant, bus, emitted, onDevice, unlinked, histories>>

\* Plausible fault: GET, and the code stays until it expires.
Get(r) ==
  /\ pc[r] = "getDel"
  /\ LET g == code[call[r].code]
     IN  /\ grant' = [grant EXCEPT ![r] = g]
         /\ Goto(r, IF g = NoGrant THEN "closed" ELSE "perms")
  /\ UNCHANGED <<documents, call, bus, emitted, onDevice, unlinked, histories>>

\* GETDEL: the code is spent, whatever becomes of the activation.
GetDel(r) ==
  /\ pc[r] = "getDel"
  /\ LET g == code[call[r].code]
     IN  /\ grant' = [grant EXCEPT ![r] = g]
         /\ Goto(r, IF g = NoGrant THEN "closed" ELSE "perms")
  /\ code' = [code EXCEPT ![call[r].code] = NoGrant]
  /\ UNCHANGED <<role, device, call, bus, emitted, onDevice, unlinked, histories>>

\* DeviceModel.create: capabilities it cannot accept end the activation.
Create(r) ==
  /\ pc[r] = "create"
  /\ IF Acceptable(call[r].offer)
     THEN \E v \in Devices :
            /\ ~Known(v)
            /\ device' = [device EXCEPT ![v] =
                 NewDevice(grant[r].user, grant[r].domain, call[r].offer, call[r].name)]
            /\ madeBy' = [madeBy EXCEPT ![v] = r]
            /\ Goto(r, "tell")
     ELSE Goto(r, "closed") /\ UNCHANGED <<device, madeBy>>
  /\ UNCHANGED <<role, code, call, grant, bus, emitted, onDevice, unlinked, roleChanges,
                 lost, shaky>>

\* updateCurrentState knows the capability and takes the value.
Takes(v, k, x) ==
  /\ k \in DOMAIN device[v].capabilities
  /\ VerifyCapabilityValue(device[v].capabilities[k], x)

\* findOne answers: the live device, or nothing.  A device that reports a value
\* and is not found is told that it is unlinked.
Find(r) ==
  /\ pc[r] = "find"
  /\ LET c == call[r]
         refused == SetsValue(c) /\ Live(c.device) /\ ~Takes(c.device, c.key, c.value)
     IN  /\ Goto(r, IF refused \/ ~Live(c.device) THEN "closed"
                    ELSE IF SetsValue(c) THEN "save"
                    ELSE IF c.op = "status" THEN "tell" ELSE "perms")
         /\ unlinked' = IF c.op = "telemetry" /\ ~Live(c.device)
                        THEN unlinked \cup {c.device} ELSE unlinked
         /\ shaky' = IF refused /\ c.op = "telemetry" THEN shaky \cup {c.device} ELSE shaky
  /\ UNCHANGED <<documents, call, grant, bus, emitted, onDevice, roleChanges, madeBy, lost>>

\* Plausible fault: device.save() writes back all it has read, deletedAt too.
SaveAll(r) ==
  /\ pc[r] = "save"
  /\ LET c == call[r]
     IN  /\ device' = [device EXCEPT ![c.device].currentState = With(@, c.key, c.value),
                                     ![c.device].status = "live"]
         /\ Goto(r, IF c.op = "control" THEN "publish" ELSE "tell")
  /\ UNCHANGED <<role, code, call, grant, bus, emitted, onDevice, unlinked, histories>>

\* device.save() writes one value of the state, deleted or not by now.
Save(r) ==
  /\ pc[r] = "save"
  /\ LET c == call[r]
     IN  /\ device' = [device EXCEPT ![c.device].currentState = With(@, c.key, c.value)]
         /\ Goto(r, IF c.op = "control" THEN "publish" ELSE "tell")
  /\ UNCHANGED <<role, code, call, grant, bus, emitted, onDevice, unlinked, histories>>

\* Plausible fault: the command is not sent.
PublishNothing(r) ==
  /\ pc[r] = "publish"
  /\ Goto(r, "tell")
  /\ UNCHANGED <<documents, call, grant, bus, emitted, onDevice, unlinked, histories>>

\* The command goes to the device.
Publish(r) ==
  /\ pc[r] = "publish"
  /\ onDevice' = [onDevice EXCEPT ![call[r].device] = With(@, call[r].key, call[r].value)]
  /\ Goto(r, "tell")
  /\ UNCHANGED <<documents, call, grant, bus, emitted, unlinked, histories>>

\* Plausible fault: the filter of delete forgets deletedAt.
WriteTwice(r) ==
  /\ pc[r] = "write"
  /\ LET c == call[r]
     IN  IF c.op = "delete" \/ Live(c.device)
         THEN /\ device' = IF c.op = "delete"
                           THEN [device EXCEPT ![c.device].status = "deleted"]
                           ELSE [device EXCEPT ![c.device].name = c.name]
              /\ Goto(r, "tell")
         ELSE Goto(r, "closed") /\ UNCHANGED device
  /\ UNCHANGED <<role, code, call, grant, bus, emitted, onDevice, unlinked, histories>>

\* The updates of delete and update, whose filter wants a live device.
MarkDeleted(v) == Live(v) /\ device' = [device EXCEPT ![v].status = "deleted"]
SetName(v, n) == Live(v) /\ device' = [device EXCEPT ![v].name = n]

\* findOneAndUpdate answers.
Write(r) ==
  /\ pc[r] = "write"
  /\ LET c == call[r]
     IN  \/ c.op = "delete" /\ MarkDeleted(c.device) /\ Goto(r, "tell")
         \/ c.op # "delete" /\ SetName(c.device, c.name) /\ Goto(r, "tell")
         \/ ~Live(c.device) /\ Goto(r, "closed") /\ UNCHANGED device
  /\ UNCHANGED <<role, code, call, grant, bus, emitted, onDevice, unlinked, histories>>

\* What a request emits, and to which room.  A control does not reach the socket
\* it came from.
Room(r) ==
  CASE call[r].op = "activate" -> grant[r].domain
    [] call[r].op = "control"  -> call[r].domain
    [] OTHER -> device[call[r].device].domainId

Message(r) ==
  LET c == call[r]
  IN  CASE c.op = "activate" ->
             [event |-> "DEVICE_ADDED", device |-> CHOOSE v \in Devices : madeBy[v] = r,
              document |-> NewDevice(grant[r].user, grant[r].domain, c.offer, c.name)]
        [] c.op = "delete" -> [event |-> "DEVICE_REMOVED", device |-> c.device]
        [] c.op = "rename" -> [event |-> "DEVICE_INFO_UPDATED", device |-> c.device]
        [] c.op = "control" ->
             [event |-> "DEVICE_UPDATED", device |-> c.device, key |-> c.key,
              value |-> c.value, except |-> c.user]
        [] c.op = "telemetry" ->
             [event |-> "DEVICE_TELEMETRY", device |-> c.device, key |-> c.key,
              value |-> c.value]
        [] c.op = "status" ->
             [event |-> "DEVICE_STATUS", device |-> c.device, online |-> c.online]

\* Emits to the room; a deletion is also published to the device.
Tell(r) ==
  /\ pc[r] = "tell"
  /\ emitted' = [emitted EXCEPT ![Room(r)] = Append(@, Message(r))]
  /\ unlinked' = IF call[r].op = "delete" THEN unlinked \cup {call[r].device} ELSE unlinked
  /\ Goto(r, IF Announces(call[r]) THEN "send" ELSE "closed")
  /\ UNCHANGED <<documents, call, grant, bus, onDevice, histories>>

EventKind(c) ==
  CASE c.op = "activate" -> "CREATED"
    [] c.op = "delete"   -> "DELETED"
    [] c.op = "rename"   -> "UPDATED"

\* EventBus.send, and the answer of the request.
Send(r) ==
  /\ pc[r] = "send"
  /\ bus' = bus \cup {[kind |-> EventKind(call[r]), device |-> v, by |-> r] : v \in Target(r)}
  /\ Goto(r, "closed")
  /\ UNCHANGED <<documents, call, grant, emitted, onDevice, unlinked, histories>>

\* A database, the broker or Redis fails, or the process stops: the request ends.
Fail(r) ==
  /\ Open(r)
  /\ Goto(r, "closed")
  /\ lost' = IF pc[r] \in {"tell", "send"} /\ Announces(call[r]) THEN lost \cup Target(r) ELSE lost
  /\ shaky' = IF SetsValue(call[r]) THEN shaky \cup Target(r) ELSE shaky
  /\ UNCHANGED <<documents, call, grant, bus, emitted, onDevice, unlinked, roleChanges, madeBy>>

\* A handler of the bus creates, changes or deletes a role.
RoleChanges ==
  /\ roleChanges < MaxRoleChanges
  /\ \E u \in Users, d \in Domains, new \in Granted \cup {NoRole} :
       /\ new # role[u][d]
       /\ role' = [role EXCEPT ![u][d] = new]
  /\ roleChanges' = roleChanges + 1
  /\ UNCHANGED <<code, device, call, pc, grant, bus, emitted, onDevice, unlinked,
                 madeBy, lost, shaky>>

RequestStep(r) ==
  \/ Begin(r) \/ CheckPermissions(r) \/ SetCode(r) \/ GetDel(r) \/ Create(r) \/ Find(r)
  \/ Save(r) \/ Publish(r) \/ Write(r) \/ Tell(r) \/ Send(r) \/ Fail(r)

\* History: who manages the domain while his device is being activated.
Managing ==
  {r \in Requests : /\ call[r].op = "activate" /\ pc[r] \in {"perms", "create"}
                    /\ CanManageDevices(grant[r].user, grant[r].domain)}

DeviceStep ==
  /\ \/ \E r \in Requests : RequestStep(r)
     \/ \E c \in Codes : Expire(c)
     \/ RoleChanges
  /\ managed' = managed \cup Managing'

DeviceNext ==
  \/ DeviceStep
  \/ (\A r \in Requests : pc[r] = "closed") /\ UNCHANGED dcVars

DeviceSpec == DeviceInit /\ [][DeviceNext]_dcVars

-----------------------------------------------------------------------------
\* Whatever is written, by users or by devices, in whatever order, each value in
\* the state of a device is one that its capability allows, from the first.
StatesFitTheirCapabilities ==
  \A v \in Devices : Known(v) =>
    \A k \in DOMAIN device[v].capabilities :
      VerifyCapabilityValue(device[v].capabilities[k], device[v].currentState[k])

\* A pairing code is good for one device, even when several present it at the
\* same time (add_device_service.ts:18).
OneDevicePerCode ==
  \A v, w \in Devices :
    madeBy[v] # Nobody /\ madeBy[w] # Nobody /\ v # w =>
      grant[madeBy[v]].by # grant[madeBy[w]].by

\* A device belongs to the domain and the user its code was made for, and that
\* user has still managed the domain after the device presented the code: his
\* role may have changed in between (add_device_service.ts:38).
PairedByManagers ==
  \A v \in Devices : madeBy[v] # Nobody =>
    LET r == madeBy[v]
    IN  /\ r \in managed
        /\ device[v].createdBy = grant[r].user
        /\ device[v].domainId = grant[r].domain

\* When nobody is setting a value of a live device, its document says what the
\* device has, unless two messages about it overlapped, one of them failed, or
\* the device reported something that is refused.
TwinInSync ==
  \A v \in Devices : Live(v) /\ v \notin shaky /\ ~BeingSet(v) =>
    \A k \in DOMAIN onDevice[v] :
      k \in DOMAIN device[v].currentState /\ device[v].currentState[k] = onDevice[v][k]

EventsOf(kind, v) == {e \in bus : e.kind = kind /\ e.device = v}

\* Requests that race for one device delete it once: the other services are told
\* of each creation and each deletion once, and of nothing that did not happen,
\* unless a request ended between its write and its event.
QuietMeansAnnounced ==
  Quiet => \A v \in Devices \ lost :
    LET times(kind) == Cardinality(EventsOf(kind, v))
    IN  /\ times("CREATED") = IF madeBy[v] # Nobody THEN 1 ELSE 0
        /\ times("DELETED") = IF Deleted(v) THEN 1 ELSE 0

\* A device is told that it is unlinked only when it is gone: no value that it
\* reports, however wrong, has this effect (device_telemetry_handler.ts:35).
UnlinkedOnlyIfGone == \A v \in unlinked : Deleted(v)

\* A document but for the values in it.
Description(m) == [m EXCEPT !.currentState = <<>>]

\* A deletion is final: a value that was on its way may still be written, but the
\* device does not come back, change its name or its domain.
DeletedStaysDeleted ==
  [][\A v \in Devices : Deleted(v) => Description(device[v]) = Description(device'[v])]_dcVars

-----------------------------------------------------------------------------
(* The inductive invariant *)

\* What a request is doing goes with what it was asked, and what it has been told
\* of its device still holds: a device that was found exists for ever, and its
\* capabilities never change.
StageOK(r) ==
  /\ pc[r] = "idle" <=> call[r] = NoCall
  /\ pc[r] = "setCode" => call[r].op = "pair"
  /\ pc[r] \in {"getDel", "create"} => call[r].op = "activate"
  /\ pc[r] = "find" => call[r].op \in {"delete", "rename", "control", "telemetry", "status"}
  /\ pc[r] = "perms" => call[r].op \in {"pair", "activate", "control", "delete", "rename"}
  /\ pc[r] = "write" => call[r].op \in {"delete", "rename"}
  /\ pc[r] = "publish" => call[r].op = "control"
  /\ call[r].op \in {"delete", "rename", "control", "telemetry", "status"} => Known(call[r].device)
  /\ pc[r] = "save" => SetsValue(call[r]) /\ Takes(call[r].device, call[r].key, call[r].value)
  /\ pc[r] = "send" => Announces(call[r])
  /\ pc[r] \in {"tell", "send"} /\ call[r].op = "delete" => Deleted(call[r].device)

StageInv == \A r \in Requests : StageOK(r)

\* A code in Redis, and one that was spent, come from a request for a pairing code
\* that is over; no two of them come from the same one.
CodeInv ==
  /\ \A c \in Codes : code[c] # NoGrant =>
       pc[code[c].by] = "closed" /\ call[code[c].by].op = "pair"
  /\ \A r \in Requests : grant[r] # NoGrant =>
       /\ pc[grant[r].by] = "closed" /\ call[grant[r].by].op = "pair"
       /\ call[r].op = "activate" /\ pc[r] # "getDel"
  /\ \A c, d \in Codes : code[c] # NoGrant /\ code[c].by = code[d].by => c = d
  /\ \A c \in Codes, r \in Requests : code[c] # NoGrant => code[c].by # grant[r].by
  /\ \A q, r \in Requests : grant[q] # NoGrant /\ grant[q].by = grant[r].by => q = r

\* A device is created by an activation that had a code and whose user managed the
\* domain, and which creates no other.
ActivationInv ==
  /\ \A r \in Requests : call[r].op = "activate" /\ pc[r] \in {"perms", "create"} =>
       grant[r] # NoGrant
  /\ \A r \in Requests : pc[r] = "create" => r \in managed
  /\ \A v \in Devices : madeBy[v] # Nobody =>
       /\ Known(v) /\ grant[madeBy[v]] # NoGrant
       /\ pc[madeBy[v]] \in {"tell", "send", "closed"}
  /\ \A v, w \in Devices : madeBy[v] # Nobody /\ madeBy[v] = madeBy[w] => v = w

\* What keeps a code, a grant and a device together while other requests run
\* between the steps of an activation (add_device_service.ts:13-60).
DeviceInv ==
  /\ DeviceTypeOK /\ StageInv /\ CodeInv /\ ActivationInv
  /\ StatesFitTheirCapabilities /\ PairedByManagers /\ UnlinkedOnlyIfGone

\* The document and the device agree about the value.
Agree(v, k) ==
  k \in DOMAIN device[v].currentState /\ device[v].currentState[k] = onDevice[v][k]

\* One of them has the value of the request, the other one is to get it: a control
\* writes the document first, a report comes from the device.
Midway(r, v) ==
  /\ Setting(r, v)
  /\ \/ call[r].op = "control" /\ pc[r] = "publish"
     \/ call[r].op = "telemetry" /\ pc[r] \in {"find", "save"}

\* Behind TwinInSync: a device that was never made has nothing, and where document
\* and device differ the one request that is setting a value is midway.
TwinOK(v) ==
  /\ ~Known(v) => DOMAIN onDevice[v] = {}
  /\ Live(v) /\ v \notin shaky =>
       /\ \A q, r \in Requests : Setting(q, v) /\ Setting(r, v) => q = r
       /\ \A k \in DOMAIN onDevice[v] :
            Agree(v, k) \/ \E r \in Requests : Midway(r, v) /\ call[r].key = k
       /\ \A r \in Requests : Midway(r, v) =>
            LET given == IF call[r].op = "control" THEN device[v].currentState ELSE onDevice[v]
            IN  call[r].key \in DOMAIN given /\ given[call[r].key] = call[r].value

TwinInv == \A v \in Devices : TwinOK(v)

\* The device is deleted and its deletion not announced yet.
Deleting(r, v) == pc[r] \in {"tell", "send"} /\ call[r].op = "delete" /\ call[r].device = v

\* Behind QuietMeansAnnounced: what is on the bus comes from the activation that made
\* the device, which is over, and from the one deletion that found it live.
AnnouncedOK(v) ==
  /\ \A e \in EventsOf("CREATED", v) : e.by = madeBy[v] /\ pc[e.by] = "closed"
  /\ madeBy[v] # Nobody /\ pc[madeBy[v]] = "closed" => v \in lost \/ EventsOf("CREATED", v) # {}
  /\ \A e, f \in EventsOf("DELETED", v) : e = f
  /\ \A q, r \in Requests : Deleting(q, v) /\ Deleting(r, v) => q = r
  /\ \A r \in Requests : Deleting(r, v) => EventsOf("DELETED", v) = {}
  /\ Deleted(v) =>
       v \in lost \/ EventsOf("DELETED", v) # {} \/ \E r \in Requests : Deleting(r, v)
  /\ ~Deleted(v) => EventsOf("DELETED", v) = {} /\ \A r \in Requests : ~Deleting(r, v)

AnnouncedInv == \A v \in Devices : AnnouncedOK(v)

=============================================================================
