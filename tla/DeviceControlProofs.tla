------------------------ MODULE DeviceControlProofs ------------------------
(***************************************************************************)
(* For all users, domains, devices, codes, capabilities and values, any    *)
(* number of requests and any changes of the roles: a code pairs one       *)
(* device, which its user managed; the state of a device fits its          *)
(* capabilities; a deletion is final; only deleted devices are unlinked.   *)
(***************************************************************************)
EXTENDS DeviceControl, FiniteSetTheorems, TLAPS

-----------------------------------------------------------------------------
(* Values of capabilities *)

\* What a capability starts with is one of its values.
LEMMA InitialFits ==
  ASSUME NEW c, VerifyCapability(c), Startable(c),
         \A bound \in {"min", "max"} : Declares(c, bound) => c[bound] \in Int,
         Declares(c, "enumValues") => c.enumValues \in Seq(STRING)
  PROVE  VerifyCapabilityValue(c, InitialValue(c))
<1> USE DEF VerifyCapability, CapabilityTypes, InitialValue, VerifyCapabilityValue,
            Number, Text, Switch, IsNumber, IsText, IsSwitch
<1>1. CASE c.type = "BINARY"
  BY <1>1
<1>2. CASE c.type = "RANGE"
  <2>1. c.min \in Int /\ c.max \in Int /\ c.min < c.max
    BY <1>2
  <2> QED
    BY <1>2, <2>1
<1>3. CASE c.type = "GAUGE"
  BY <1>3
<1>4. CASE c.type = "ENUM"
  <2>1. c.enumValues # <<>> /\ c.enumValues \in Seq(STRING)
    BY <1>4 DEF Startable
  <2>2. 1 \in DOMAIN c.enumValues
    BY <2>1
  <2> QED
    BY <1>4, <2>2
<1>5. CASE c.type = "COLOR"
  BY <1>5 DEF HexColours
<1> QED
  BY <1>1, <1>2, <1>3, <1>4, <1>5

\* A new device starts in a state that fits.
LEMMA NewStateFits ==
  ASSUME NEW offer \in Offers, Acceptable(offer), NEW k \in DOMAIN offer
  PROVE  VerifyCapabilityValue(offer[k], CreateCurrentState(offer)[k])
<1>1. VerifyCapability(offer[k]) /\ Startable(offer[k])
  BY DEF Acceptable
<1>2. VerifyCapabilityValue(offer[k], InitialValue(offer[k]))
  BY <1>1, InitialFits, OffersAssumption
<1> QED
  BY <1>2 DEF CreateCurrentState

-----------------------------------------------------------------------------
(* Requests and documents *)

\* The fields of a call.
LEMMA CallFields ==
  ASSUME NEW c \in Calls
  PROVE  /\ c # NoCall
         /\ c.op \in {"pair", "activate", "delete", "rename", "control", "telemetry", "status"}
         /\ c.op = "pair" => c.user \in Users /\ c.domain \in Domains
         /\ c.op = "activate" => c.code \in Codes /\ c.offer \in Offers /\ c.name \in Names
         /\ c.op \in {"delete", "rename", "control", "telemetry", "status"} =>
              c.device \in Devices /\ "device" \in DOMAIN c
         /\ c.op = "rename" => c.name \in Names
         /\ SetsValue(c) => c.key \in Keys
BY DEF Calls, PairCalls, ActivateCalls, DeleteCalls, RenameCalls,
       ControlCalls, TelemetryCalls, StatusCalls, NoCall, SetsValue

\* The document of a new device.
LEMMA NewDeviceOK ==
  ASSUME NEW u \in Users, NEW d \in Domains, NEW offer \in Offers, NEW n \in Names
  PROVE  /\ DocumentOK(NewDevice(u, d, offer, n))
         /\ NewDevice(u, d, offer, n).status = "live"
         /\ NewDevice(u, d, offer, n).createdBy = u
         /\ NewDevice(u, d, offer, n).domainId = d
         /\ NewDevice(u, d, offer, n).capabilities = offer
         /\ NewDevice(u, d, offer, n).currentState = CreateCurrentState(offer)
BY DEF NewDevice, DocumentOK, NoDevice, CreateCurrentState

\* A document with another value in its state, deleted, or with another name.
LEMMA StateWritten ==
  ASSUME NEW m, DocumentOK(m), m # NoDevice, NEW k \in DOMAIN m.capabilities, NEW x,
         NEW n, n = [m EXCEPT !.currentState = With(@, k, x)]
  PROVE  /\ DocumentOK(n) /\ n # NoDevice /\ n.status = m.status /\ n.domainId = m.domainId
         /\ n.createdBy = m.createdBy /\ n.capabilities = m.capabilities
         /\ n.currentState = With(m.currentState, k, x)
         /\ Description(m) = Description(n)
<1> USE DEF DocumentOK, NoDevice
<1>1. DOMAIN m = {"status", "domainId", "createdBy", "name", "capabilities", "currentState"}
  OBVIOUS
<1>2. DOMAIN With(m.currentState, k, x) = DOMAIN m.capabilities
  BY DEF With
<1>3. /\ DOMAIN n = DOMAIN m /\ n.status = m.status /\ n.domainId = m.domainId
      /\ n.createdBy = m.createdBy /\ n.capabilities = m.capabilities /\ n.name = m.name
      /\ n.currentState = With(m.currentState, k, x)
  BY <1>1
<1>4. Description(m) = Description(n)
  BY <1>1 DEF Description
<1> QED
  BY <1>1, <1>2, <1>3, <1>4

LEMMA StatusWritten ==
  ASSUME NEW m, DocumentOK(m), m # NoDevice,
         NEW n, n = [m EXCEPT !.status = "deleted"]
  PROVE  /\ DocumentOK(n) /\ n # NoDevice /\ n.status = "deleted" /\ n.domainId = m.domainId
         /\ n.createdBy = m.createdBy /\ n.capabilities = m.capabilities
         /\ n.currentState = m.currentState
<1>1. DOMAIN m = {"status", "domainId", "createdBy", "name", "capabilities", "currentState"}
  BY DEF DocumentOK, NoDevice
<1> QED
  BY <1>1 DEF DocumentOK, NoDevice

LEMMA NameWritten ==
  ASSUME NEW m, DocumentOK(m), m # NoDevice, NEW name \in Names,
         NEW n, n = [m EXCEPT !.name = name]
  PROVE  /\ DocumentOK(n) /\ n # NoDevice /\ n.status = m.status /\ n.domainId = m.domainId
         /\ n.createdBy = m.createdBy /\ n.capabilities = m.capabilities
         /\ n.currentState = m.currentState
<1>1. DOMAIN m = {"status", "domainId", "createdBy", "name", "capabilities", "currentState"}
  BY DEF DocumentOK, NoDevice
<1> QED
  BY <1>1 DEF DocumentOK, NoDevice

-----------------------------------------------------------------------------
(* What happens to documents *)

\* Which actions write which variables.
LEMMA Writers ==
  ASSUME [DeviceNext]_dcVars
  PROVE  /\ \/ \E r \in Requests : Create(r) \/ Save(r) \/ Write(r)
            \/ UNCHANGED device
         /\ RoleChanges \/ UNCHANGED <<role, roleChanges>>
         /\ \/ \E r \in Requests : SetCode(r) \/ GetDel(r)
            \/ \E c \in Codes : Expire(c)
            \/ UNCHANGED code
         /\ (\E r \in Requests : GetDel(r)) \/ UNCHANGED grant
         /\ (\E r \in Requests : Begin(r)) \/ UNCHANGED call
         /\ (\E r \in Requests : RequestStep(r)) \/ UNCHANGED <<call, pc, grant>>
         /\ (\E r \in Requests : Send(r)) \/ UNCHANGED bus
         /\ (\E r \in Requests : Begin(r) \/ Publish(r)) \/ UNCHANGED onDevice
         /\ \/ \E r \in Requests : Begin(r) \/ Find(r) \/ Tell(r) \/ Fail(r)
            \/ UNCHANGED <<unlinked, lost, shaky>>
         /\ (\E r \in Requests : Create(r)) \/ UNCHANGED madeBy
         /\ managed' = managed \cup Managing' \/ UNCHANGED managed
<1> USE DEF DeviceStep, RequestStep, Begin, CheckPermissions, SetCode, GetDel, Create, Find,
            Save, Publish, Write, Tell, Send, Fail, Expire, RoleChanges, documents, histories
<1>1. CASE UNCHANGED dcVars
  BY <1>1 DEF dcVars
<1>2. CASE DeviceStep
  <2>1. ASSUME NEW r \in Requests, RequestStep(r)
        PROVE  /\ Create(r) \/ Save(r) \/ Write(r) \/ UNCHANGED device
               /\ UNCHANGED <<role, roleChanges>>
               /\ SetCode(r) \/ GetDel(r) \/ UNCHANGED code
               /\ GetDel(r) \/ UNCHANGED grant
               /\ Begin(r) \/ UNCHANGED call
               /\ Send(r) \/ UNCHANGED bus
               /\ Begin(r) \/ Publish(r) \/ UNCHANGED onDevice
               /\ Begin(r) \/ Find(r) \/ Tell(r) \/ Fail(r) \/ UNCHANGED <<unlinked, lost, shaky>>
               /\ Create(r) \/ UNCHANGED madeBy
    BY <2>1
  <2>2. CASE RoleChanges
    BY <1>2, <2>2
  <2>3. ASSUME NEW c \in Codes, Expire(c)
        PROVE  UNCHANGED <<role, device, call, pc, grant, bus, onDevice, unlinked, histories>>
    BY <2>3
  <2> HIDE DEF RequestStep, Begin, CheckPermissions, SetCode, GetDel, Create, Find, Save,
               Publish, Write, Tell, Send, Fail, Expire, RoleChanges
  <2>4. CASE \E r \in Requests : RequestStep(r)
    BY <1>2, <2>1, <2>4
  <2>5. CASE \E c \in Codes : Expire(c)
    BY <1>2, <2>3, <2>5
  <2> QED
    BY <1>2, <2>2, <2>4, <2>5
<1> QED
  BY <1>1, <1>2 DEF DeviceNext

\* A document that exists keeps its domain, its creator and its capabilities; once
\* deleted it keeps all but its state.
Kept(v) ==
  /\ DocumentOK(device'[v])
  /\ Known(v) =>
       /\ device'[v].status # "none" /\ device'[v].domainId = device[v].domainId
       /\ device'[v].createdBy = device[v].createdBy
       /\ device'[v].capabilities = device[v].capabilities
  /\ Deleted(v) =>
       /\ device'[v].status = "deleted"
       /\ Description(device[v]) = Description(device'[v])

LEMMA DocumentsKept ==
  ASSUME DeviceInv, [DeviceNext]_dcVars
  PROVE  DOMAIN device' = Devices /\ \A v \in Devices : Kept(v)
<1>0. /\ DOMAIN device = Devices /\ \A v \in Devices : DocumentOK(device[v])
      /\ call \in [Requests -> Calls \cup {NoCall}]
  BY DEF DeviceInv, DeviceTypeOK
<1>1. ASSUME NEW v \in Devices, device'[v] = device[v] PROVE Kept(v)
  BY <1>0, <1>1 DEF Kept, Known, Deleted
<1>2. ASSUME NEW v \in Devices, Known(v) PROVE device[v] # NoDevice
  BY <1>2 DEF Known, NoDevice
<1>3. ASSUME NEW r \in Requests, Create(r) PROVE DOMAIN device' = Devices /\ \A v \in Devices : Kept(v)
  <2>1. grant[r].user \in Users /\ grant[r].domain \in Domains
    BY <1>3 DEF Create, DeviceInv, StageInv, StageOK, ActivationInv, DeviceTypeOK, Grants
  <2>2. call[r].op = "activate" /\ call[r] \in Calls
    BY <1>0, <1>3 DEF Create, DeviceInv, StageInv, StageOK, NoCall
  <2>3. DocumentOK(NewDevice(grant[r].user, grant[r].domain, call[r].offer, call[r].name))
    BY <2>1, <2>2, CallFields, NewDeviceOK
  <2>4. CASE UNCHANGED device
    BY <1>0, <1>1, <2>4
  <2>5. ASSUME NEW w \in Devices, ~Known(w),
               device' = [device EXCEPT ![w] =
                 NewDevice(grant[r].user, grant[r].domain, call[r].offer, call[r].name)]
        PROVE DOMAIN device' = Devices /\ \A v \in Devices : Kept(v)
    BY <1>0, <1>1, <2>3, <2>5 DEF Kept, Known, Deleted
  <2> QED
    BY <1>3, <2>4, <2>5 DEF Create
<1>4. ASSUME NEW r \in Requests, Save(r) PROVE DOMAIN device' = Devices /\ \A v \in Devices : Kept(v)
  <2> DEFINE d == call[r].device
             x == call[r].value
             k == call[r].key
  <2>1. call[r] \in Calls /\ d \in Devices /\ Known(d) /\ k \in DOMAIN device[d].capabilities
    BY <1>0, <1>4, CallFields DEF Save, DeviceInv, StageInv, StageOK, NoCall, Takes, SetsValue
  <2>2. device' = [device EXCEPT ![d] = [device[d] EXCEPT !.currentState = With(@, k, x)]]
    BY <1>4 DEF Save
  <2> HIDE DEF d, x, k
  <2>3. Kept(d)
    <3>1. DocumentOK(device[d]) /\ device[d] # NoDevice
      BY <1>0, <1>2, <2>1
    <3>2. device'[d] = [device[d] EXCEPT !.currentState = With(@, k, x)]
      BY <1>0, <2>1, <2>2
    <3>3. /\ DocumentOK(device'[d]) /\ device'[d].status = device[d].status
          /\ device'[d].domainId = device[d].domainId
          /\ device'[d].createdBy = device[d].createdBy
          /\ device'[d].capabilities = device[d].capabilities
          /\ Description(device[d]) = Description(device'[d])
      BY <2>1, <3>1, <3>2, StateWritten
    <3> QED
      BY <2>1, <3>3 DEF Kept, Known, Deleted
  <2> QED
    BY <1>0, <1>1, <2>1, <2>2, <2>3
<1>5. ASSUME NEW r \in Requests, Write(r) PROVE DOMAIN device' = Devices /\ \A v \in Devices : Kept(v)
  <2> DEFINE d == call[r].device
  <2>1. call[r] \in Calls /\ call[r].op \in {"delete", "rename"} /\ d \in Devices
    BY <1>0, <1>5, CallFields DEF Write, MarkDeleted, SetName, DeviceInv, StageInv, StageOK, NoCall
  <2>2. CASE UNCHANGED device
    BY <1>0, <1>1, <2>2
  <2>3. CASE Live(d) /\ device' = [device EXCEPT ![d] = [device[d] EXCEPT !.status = "deleted"]]
    <3>1. Kept(d)
      <4>1. Known(d) /\ ~Deleted(d)
        BY <2>3 DEF Known, Deleted, Live
      <4>2. DocumentOK(device[d]) /\ device[d] # NoDevice
        BY <1>0, <1>2, <2>1, <4>1
      <4>3. device'[d] = [device[d] EXCEPT !.status = "deleted"]
        BY <1>0, <2>1, <2>3
      <4> QED
        BY <4>1, <4>2, <4>3, StatusWritten DEF Kept
    <3> QED
      BY <1>0, <1>1, <2>1, <2>3, <3>1
  <2>4. CASE /\ Live(d) /\ call[r].op = "rename"
             /\ device' = [device EXCEPT ![d] = [device[d] EXCEPT !.name = call[r].name]]
    <3>1. Kept(d)
      <4>1. Known(d) /\ ~Deleted(d) /\ call[r].name \in Names
        BY <2>1, <2>4, CallFields DEF Known, Deleted, Live
      <4>2. DocumentOK(device[d]) /\ device[d] # NoDevice
        BY <1>0, <1>2, <2>1, <4>1
      <4>3. device'[d] = [device[d] EXCEPT !.name = call[r].name]
        BY <1>0, <2>1, <2>4
      <4> QED
        BY <4>1, <4>2, <4>3, NameWritten DEF Kept, Known
    <3> QED
      BY <1>0, <1>1, <2>1, <2>4, <3>1
  <2> QED
    BY <1>5, <2>1, <2>2, <2>3, <2>4 DEF Write, MarkDeleted, SetName
<1> QED
  BY <1>0, <1>1, <1>3, <1>4, <1>5, Writers

-----------------------------------------------------------------------------
(* Typing *)

\* A request acts on its own behalf, until it is closed.
LEMMA OneActs ==
  ASSUME DeviceInv, NEW r \in Requests, RequestStep(r)
  PROVE  /\ pc[r] # "closed" /\ pc' = [pc EXCEPT ![r] = pc'[r]]
         /\ pc'[r] \in Stages \cup {"closed"}
         /\ call' = [call EXCEPT ![r] = call'[r]] /\ (call'[r] # call[r] => pc[r] = "idle")
         /\ call'[r] \in Calls
         /\ grant' = [grant EXCEPT ![r] = grant'[r]] /\ (grant'[r] # grant[r] => pc[r] = "getDel")
<1>1. /\ pc \in [Requests -> Stages \cup {"idle", "closed"}]
      /\ call \in [Requests -> Calls \cup {NoCall}]
      /\ grant \in [Requests -> Grants \cup {NoGrant}]
      /\ pc[r] = "idle" <=> call[r] = NoCall
  BY DEF DeviceInv, DeviceTypeOK, StageInv, StageOK
<1> USE DEF Goto, Stages
<1>2. CASE Begin(r)
  <2>1. PICK c \in Calls : /\ call' = [call EXCEPT ![r] = c]
                           /\ pc' = [pc EXCEPT ![r] = FirstStage(c)]
    BY <1>2 DEF Begin
  <2>2. FirstStage(c) \in Stages
    BY CallFields DEF FirstStage
  <2> QED
    BY <1>1, <1>2, <2>1, <2>2 DEF Begin
<1>3. CASE CheckPermissions(r)
  BY <1>1, <1>3 DEF CheckPermissions
<1>4. CASE SetCode(r)
  BY <1>1, <1>4 DEF SetCode
<1>5. CASE GetDel(r)
  BY <1>1, <1>5 DEF GetDel
<1>6. CASE Create(r)
  BY <1>1, <1>6 DEF Create
<1>7. CASE Find(r)
  BY <1>1, <1>7 DEF Find
<1>8. CASE Save(r)
  BY <1>1, <1>8 DEF Save
<1>9. CASE Publish(r)
  BY <1>1, <1>9 DEF Publish
<1>10. CASE Write(r)
  BY <1>1, <1>10 DEF Write, MarkDeleted, SetName
<1>11. CASE Tell(r)
  BY <1>1, <1>11 DEF Tell
<1>12. CASE Send(r)
  BY <1>1, <1>12 DEF Send
<1>13. CASE Fail(r)
  BY <1>1, <1>13 DEF Fail, Open
<1> QED
  BY <1>2, <1>3, <1>4, <1>5, <1>6, <1>7, <1>8, <1>9, <1>10, <1>11, <1>12, <1>13 DEF RequestStep

LEMMA TypeStep ==
  ASSUME DeviceInv, [DeviceNext]_dcVars
  PROVE  DeviceTypeOK'
<1>0. DeviceTypeOK
  BY DEF DeviceInv
<1>1. role' \in [Users -> [Domains -> Granted \cup {NoRole}]] /\ roleChanges' \in 0..MaxRoleChanges
  <2>1. CASE RoleChanges
    BY <1>0, <2>1, DeviceAssumption DEF RoleChanges, DeviceTypeOK
  <2> QED
    BY <1>0, <2>1, Writers DEF DeviceTypeOK
<1>2. code' \in [Codes -> Grants \cup {NoGrant}]
  <2>1. ASSUME NEW r \in Requests, SetCode(r) PROVE code' \in [Codes -> Grants \cup {NoGrant}]
    <3>1. call[r] \in Calls /\ call[r].op = "pair"
      BY <1>0, <2>1 DEF SetCode, DeviceInv, StageInv, StageOK, NoCall, DeviceTypeOK
    <3>2. [by |-> r, user |-> call[r].user, domain |-> call[r].domain] \in Grants
      BY <3>1, CallFields DEF Grants
    <3> QED
      BY <1>0, <2>1, <3>2 DEF SetCode, DeviceTypeOK
  <2>2. ASSUME NEW r \in Requests, GetDel(r) PROVE code' \in [Codes -> Grants \cup {NoGrant}]
    BY <1>0, <2>2 DEF GetDel, DeviceTypeOK
  <2>3. ASSUME NEW c \in Codes, Expire(c) PROVE code' \in [Codes -> Grants \cup {NoGrant}]
    BY <1>0, <2>3 DEF Expire, DeviceTypeOK
  <2> QED
    BY <1>0, <2>1, <2>2, <2>3, Writers DEF DeviceTypeOK
<1>3. DOMAIN device' = Devices /\ \A v \in Devices : DocumentOK(device'[v])
  BY DocumentsKept DEF Kept
<1>4. call' \in [Requests -> Calls \cup {NoCall}] /\ pc' \in [Requests -> Stages \cup {"idle", "closed"}]
  <2>1. ASSUME NEW r \in Requests, RequestStep(r)
        PROVE  /\ call' \in [Requests -> Calls \cup {NoCall}]
               /\ pc' \in [Requests -> Stages \cup {"idle", "closed"}]
    BY <1>0, <2>1, OneActs DEF DeviceTypeOK
  <2> QED
    BY <1>0, <2>1, Writers DEF DeviceTypeOK, RequestStep
<1>5. grant' \in [Requests -> Grants \cup {NoGrant}]
  <2>1. ASSUME NEW r \in Requests, GetDel(r) PROVE grant' \in [Requests -> Grants \cup {NoGrant}]
    <3>1. call[r] \in Calls /\ call[r].op = "activate"
      BY <1>0, <2>1 DEF GetDel, DeviceInv, StageInv, StageOK, NoCall, DeviceTypeOK
    <3>2. code[call[r].code] \in Grants \cup {NoGrant}
      BY <1>0, <3>1, CallFields DEF DeviceTypeOK
    <3> QED
      BY <1>0, <2>1, <3>2 DEF GetDel, DeviceTypeOK
  <2> QED
    BY <1>0, <2>1, Writers DEF DeviceTypeOK
<1>6. bus' \subseteq [kind : {"CREATED", "DELETED", "UPDATED"}, device : Devices, by : Requests]
  <2>1. ASSUME NEW r \in Requests, Send(r)
        PROVE  bus' \subseteq [kind : {"CREATED", "DELETED", "UPDATED"}, device : Devices, by : Requests]
    <3>1. Target(r) \subseteq Devices
      BY DEF Target
    <3>2. call[r].op \in {"activate", "delete", "rename"}
      BY <2>1 DEF Send, DeviceInv, StageInv, StageOK, Announces
    <3>3. EventKind(call[r]) \in {"CREATED", "DELETED", "UPDATED"}
      BY <3>2 DEF EventKind
    <3> QED
      BY <1>0, <2>1, <3>1, <3>3 DEF Send, DeviceTypeOK
  <2> QED
    BY <1>0, <2>1, Writers DEF DeviceTypeOK
<1>7. DOMAIN onDevice' = Devices /\ \A v \in Devices : DOMAIN onDevice'[v] \subseteq Keys
  <2>1. ASSUME NEW v, NEW k \in Keys, NEW x,
               onDevice' = [onDevice EXCEPT ![v] = With(@, k, x)]
        PROVE  DOMAIN onDevice' = Devices /\ \A w \in Devices : DOMAIN onDevice'[w] \subseteq Keys
    BY <1>0, <2>1 DEF DeviceTypeOK, With
  <2>2. ASSUME NEW r \in Requests, Begin(r)
        PROVE  DOMAIN onDevice' = Devices /\ \A w \in Devices : DOMAIN onDevice'[w] \subseteq Keys
    <3>1. PICK c \in Calls : onDevice' = IF c.op = "telemetry"
                                        THEN [onDevice EXCEPT ![c.device] = With(@, c.key, c.value)]
                                        ELSE onDevice
      BY <2>2 DEF Begin
    <3>2. c.op = "telemetry" => c.key \in Keys
      BY CallFields DEF SetsValue
    <3>3. CASE c.op = "telemetry"
      BY <2>1, <3>1, <3>2, <3>3
    <3> QED
      BY <1>0, <3>1, <3>3 DEF DeviceTypeOK
  <2>3. ASSUME NEW r \in Requests, Publish(r)
        PROVE  DOMAIN onDevice' = Devices /\ \A w \in Devices : DOMAIN onDevice'[w] \subseteq Keys
    <3>1. call[r] \in Calls /\ call[r].op = "control"
      BY <1>0, <2>3 DEF Publish, DeviceInv, StageInv, StageOK, NoCall, DeviceTypeOK
    <3>2. call[r].key \in Keys
      BY <3>1, CallFields DEF SetsValue
    <3> QED
      BY <2>1, <2>3, <3>2 DEF Publish
  <2> QED
    BY <1>0, <2>2, <2>3, Writers DEF DeviceTypeOK
<1>8. unlinked' \cup lost' \cup shaky' \subseteq Devices
  <2>1. \A r \in Requests : call[r].op \in {"delete", "rename", "control", "telemetry", "status"} =>
          call[r].device \in Devices
    BY <1>0, CallFields DEF DeviceTypeOK, NoCall
  <2>2. \A r \in Requests : Target(r) \subseteq Devices
    BY DEF Target
  <2>3. ASSUME NEW r \in Requests, Begin(r) PROVE unlinked' \cup lost' \cup shaky' \subseteq Devices
    BY <1>0, <2>3, CallFields DEF Begin, DeviceTypeOK, SetsValue
  <2>4. ASSUME NEW r \in Requests, Find(r) PROVE unlinked' \cup lost' \cup shaky' \subseteq Devices
    BY <1>0, <2>1, <2>4 DEF Find, DeviceTypeOK
  <2>5. ASSUME NEW r \in Requests, Tell(r) PROVE unlinked' \cup lost' \cup shaky' \subseteq Devices
    BY <1>0, <2>1, <2>5 DEF Tell, DeviceTypeOK, histories
  <2>6. ASSUME NEW r \in Requests, Fail(r) PROVE unlinked' \cup lost' \cup shaky' \subseteq Devices
    BY <1>0, <2>2, <2>6 DEF Fail, DeviceTypeOK
  <2> QED
    BY <1>0, <2>3, <2>4, <2>5, <2>6, Writers DEF DeviceTypeOK
<1>9. madeBy' \in [Devices -> Requests \cup {Nobody}] /\ managed' \subseteq Requests
  <2>1. ASSUME NEW r \in Requests, Create(r) PROVE madeBy' \in [Devices -> Requests \cup {Nobody}]
    BY <1>0, <2>1 DEF Create, DeviceTypeOK
  <2>2. Managing' \subseteq Requests
    BY DEF Managing
  <2> QED
    BY <1>0, <2>1, <2>2, Writers DEF DeviceTypeOK
<1> QED
  BY <1>1, <1>2, <1>3, <1>4, <1>5, <1>6, <1>7, <1>8, <1>9 DEF DeviceTypeOK

-----------------------------------------------------------------------------
(* The stages of requests *)

\* What a request knows stays true while others act.
LEMMA StageFrame ==
  ASSUME DeviceInv, [DeviceNext]_dcVars, NEW q \in Requests, UNCHANGED <<pc[q], call[q]>>
  PROVE  StageOK(q)'
<1>1. StageOK(q)
  BY DEF DeviceInv, StageInv
<1>2. ASSUME call[q].op \in {"delete", "rename", "control", "telemetry", "status"}
      PROVE  /\ Known(call[q].device)' /\ (Deleted(call[q].device) => Deleted(call[q].device)')
             /\ Takes(call[q].device, call[q].key, call[q].value) =>
                  Takes(call[q].device, call[q].key, call[q].value)'
  <2>1. call[q].device \in Devices
    BY <1>2, CallFields DEF DeviceInv, DeviceTypeOK, NoCall
  <2>2. Kept(call[q].device) /\ Known(call[q].device)
    BY <1>1, <1>2, <2>1, DocumentsKept DEF StageOK
  <2> QED
    BY <2>2 DEF Kept, Known, Deleted, Takes
<1> QED
  BY <1>1, <1>2 DEF StageOK, SetsValue

LEMMA StageStep ==
  ASSUME DeviceInv, [DeviceNext]_dcVars
  PROVE  StageInv'
<1>0. /\ pc \in [Requests -> Stages \cup {"idle", "closed"}]
      /\ call \in [Requests -> Calls \cup {NoCall}]
  BY DEF DeviceInv, DeviceTypeOK
<1>1. CASE UNCHANGED <<call, pc, grant>>
  BY <1>1, StageFrame DEF StageInv
<1>2. ASSUME NEW r \in Requests, RequestStep(r) PROVE StageInv'
  <2>1. ASSUME NEW q \in Requests, q # r PROVE StageOK(q)'
    BY <1>0, <1>2, <2>1, OneActs, StageFrame
  <2>2. call'[r] \in Calls /\ StageOK(r) /\ (pc[r] # "idle" => call'[r] = call[r])
    BY <1>2, OneActs DEF DeviceInv, StageInv
  <2>3. call'[r].op \in {"delete", "rename", "control", "telemetry", "status"} =>
          call'[r].device \in Devices
    BY <2>2, CallFields
  <2>4. pc[r] # "idle" /\ call[r].op \in {"delete", "rename", "control", "telemetry", "status"} =>
          /\ Kept(call[r].device) /\ Known(call[r].device) /\ Known(call[r].device)'
    BY <2>2, <2>3, DocumentsKept DEF StageOK, Kept, Known
  <2>5. call'[r] # NoCall /\ pc'[r] # "idle"
    BY <1>2, <2>2, OneActs, CallFields DEF Stages
  <2>6. StageOK(r)'
    <3> USE DEF Goto, StageOK, SetsValue
    <3>1. CASE Begin(r)
      BY <1>0, <2>3, <2>5, <3>1, CallFields DEF Begin, FirstStage, documents, Known
    <3>2. CASE CheckPermissions(r)
      BY <1>0, <2>2, <2>4, <2>5, <3>2 DEF CheckPermissions
    <3>3. CASE SetCode(r)
      BY <1>0, <2>2, <2>4, <2>5, <3>3 DEF SetCode
    <3>4. CASE GetDel(r)
      BY <1>0, <2>2, <2>4, <2>5, <3>4 DEF GetDel
    <3>5. CASE Create(r)
      BY <1>0, <2>2, <2>4, <2>5, <3>5 DEF Create
    <3>6. CASE Find(r)
      BY <1>0, <2>2, <2>4, <2>5, <3>6 DEF Find, documents, Takes
    <3>7. CASE Save(r)
      BY <1>0, <2>2, <2>4, <2>5, <3>7 DEF Save
    <3>8. CASE Publish(r)
      BY <1>0, <2>2, <2>4, <2>5, <3>8 DEF Publish
    <3>9. CASE Write(r)
      <4> DEFINE d == call[r].device
      <4>1. /\ call[r].op \in {"delete", "rename"} /\ d \in Devices /\ d \in DOMAIN device
            /\ DocumentOK(device[d]) /\ device[d] # NoDevice /\ pc[r] = "write" /\ call'[r] = call[r]
        BY <2>2, <2>3, <3>9 DEF Write, MarkDeleted, SetName, DeviceInv, DeviceTypeOK, Known, NoDevice
      <4>2. pc'[r] = "tell" /\ call[r].op = "delete" => Deleted(d)'
        <5>1. SUFFICES ASSUME pc'[r] = "tell", call[r].op = "delete" PROVE Deleted(d)'
          OBVIOUS
        <5>2. device'[d] = [device[d] EXCEPT !.status = "deleted"]
          BY <1>0, <3>9, <4>1, <5>1 DEF Write, MarkDeleted, SetName
        <5> QED
          BY <4>1, <5>2, StatusWritten DEF Deleted
      <4>3. pc'[r] \in {"tell", "closed"}
        BY <1>0, <3>9 DEF Write, MarkDeleted, SetName
      <4> QED
        BY <2>4, <2>5, <4>1, <4>2, <4>3
    <3>10. CASE Tell(r)
      BY <1>0, <2>2, <2>4, <2>5, <3>10 DEF Tell, Kept, Deleted
    <3>11. CASE Send(r)
      BY <1>0, <2>2, <2>4, <2>5, <3>11 DEF Send
    <3>12. CASE Fail(r)
      BY <1>0, <2>2, <2>4, <2>5, <3>12 DEF Fail, Open
    <3> QED
      BY <1>2, <3>1, <3>2, <3>3, <3>4, <3>5, <3>6, <3>7, <3>8, <3>9, <3>10, <3>11, <3>12 DEF RequestStep
  <2> QED
    BY <2>1, <2>6 DEF StageInv
<1> QED
  BY <1>1, <1>2, Writers

-----------------------------------------------------------------------------
(* Pairing codes *)

\* What is over stays over.
LEMMA ClosedStays ==
  ASSUME DeviceInv, [DeviceNext]_dcVars, NEW q \in Requests, pc[q] = "closed"
  PROVE  UNCHANGED <<pc[q], call[q], grant[q]>>
<1>1. ASSUME NEW r \in Requests, RequestStep(r) PROVE UNCHANGED <<pc[q], call[q], grant[q]>>
  <2>1. q # r
    BY <1>1, OneActs
  <2> QED
    BY <1>1, <2>1, OneActs DEF DeviceInv, DeviceTypeOK
<1> QED
  BY <1>1, Writers

LEMMA CodeStep ==
  ASSUME DeviceInv, [DeviceNext]_dcVars
  PROVE  CodeInv'
<1>0. CodeInv /\ StageInv /\ DeviceTypeOK
  BY DEF DeviceInv
<1>1. \A g \in Grants : g # NoGrant /\ g.by \in Requests
  BY DeviceAssumption DEF Grants, NoGrant
<1>2. /\ \A c \in Codes : code[c] \in Grants \cup {NoGrant}
      /\ \A r \in Requests : grant[r] \in Grants \cup {NoGrant}
  BY <1>0 DEF DeviceTypeOK
<1>3. \A q \in Requests : pc[q] = "closed" => UNCHANGED <<pc[q], call[q], grant[q]>>
  BY ClosedStays
\* Requests whose code or grant stays the same.
<1>4. CASE UNCHANGED <<code, grant>>
  <2>1. ASSUME NEW r \in Requests, grant[r] # NoGrant
        PROVE  call'[r].op = "activate" /\ pc'[r] # "getDel"
    <3>1. call[r].op = "activate" /\ pc[r] # "getDel"
      BY <1>0, <2>1 DEF CodeInv
    <3>2. ASSUME NEW q \in Requests, RequestStep(q)
          PROVE  call'[r].op = "activate" /\ pc'[r] # "getDel"
      <4>1. CASE q # r
        BY <1>0, <3>1, <3>2, <4>1, OneActs DEF DeviceTypeOK
      <4>2. CASE q = r
        <5>1. pc[r] # "idle"
          BY <1>0, <3>1 DEF StageInv, StageOK, NoCall
        <5>2. call'[r] = call[r]
          BY <3>2, <4>2, <5>1, OneActs
        <5>3. pc'[r] # "getDel"
          BY <1>0, <3>1, <3>2, <4>2, <5>1
          DEF RequestStep, Begin, CheckPermissions, SetCode, GetDel, Create, Find, Save, Publish,
              Write, Tell, Send, Fail, Goto, DeviceTypeOK, Stages
        <5> QED
          BY <3>1, <5>2, <5>3
      <4> QED
        BY <4>1, <4>2
    <3> QED
      BY <3>1, <3>2, Writers
  <2> QED
    BY <1>0, <1>1, <1>2, <1>3, <1>4, <2>1 DEF CodeInv
<1>5. ASSUME NEW r \in Requests, SetCode(r) PROVE CodeInv'
  <2>1. call[r].op = "pair" /\ pc'[r] = "closed" /\ UNCHANGED <<call, grant>>
    BY <1>0, <1>5 DEF SetCode, Goto, StageInv, StageOK, DeviceTypeOK
  <2>2. \A q \in Requests : q # r => pc'[q] = pc[q]
    BY <1>0, <1>5 DEF SetCode, Goto, DeviceTypeOK
  <2>3. /\ \A c \in Codes : code[c].by # r
        /\ \A q \in Requests : grant[q].by # r
    BY <1>0, <1>1, <1>2, <1>5, DeviceAssumption DEF CodeInv, SetCode, NoGrant
  <2>4. PICK c \in Codes :
          \/ UNCHANGED code
          \/ /\ code[c] = NoGrant
             /\ code' = [code EXCEPT ![c] =
                           [by |-> r, user |-> call[r].user, domain |-> call[r].domain]]
    BY <1>5 DEF SetCode
  <2>5. CASE UNCHANGED code
    BY <1>0, <1>1, <1>2, <1>3, <2>1, <2>2, <2>5 DEF CodeInv
  <2>6. CASE code' = [code EXCEPT ![c] = [by |-> r, user |-> call[r].user, domain |-> call[r].domain]]
    <3>1. /\ code'[c].by = r /\ \A k \in Codes : k # c => code'[k] = code[k]
      BY <1>0, <2>6 DEF DeviceTypeOK
    <3> QED
      BY <1>0, <1>1, <1>2, <1>3, <2>1, <2>2, <2>3, <3>1 DEF CodeInv
  <2> QED
    BY <2>4, <2>5, <2>6
<1>6. ASSUME NEW r \in Requests, GetDel(r) PROVE CodeInv'
  <2> DEFINE k == call[r].code
  <2>1. call[r].op = "activate" /\ k \in Codes /\ UNCHANGED call /\ pc'[r] # "getDel"
    BY <1>0, <1>6, CallFields DEF GetDel, Goto, StageInv, StageOK, NoCall, DeviceTypeOK
  <2>2. \A q \in Requests : q # r => pc'[q] = pc[q] /\ grant'[q] = grant[q]
    BY <1>0, <1>6 DEF GetDel, Goto, DeviceTypeOK
  <2>3. grant[r] = NoGrant /\ grant'[r] = code[k]
    BY <1>0, <1>6 DEF GetDel, CodeInv, DeviceTypeOK
  <2>4. code'[k] = NoGrant /\ \A c \in Codes : c # k => code'[c] = code[c]
    BY <1>0, <1>6, <2>1 DEF GetDel, DeviceTypeOK
  <2> HIDE DEF k
  <2> QED
    BY <1>0, <1>1, <1>2, <1>3, <2>1, <2>2, <2>3, <2>4 DEF CodeInv
<1>7. ASSUME NEW c \in Codes, Expire(c) PROVE CodeInv'
  <2>1. code'[c] = NoGrant /\ (\A k \in Codes : k # c => code'[k] = code[k])
    BY <1>0, <1>7 DEF Expire, DeviceTypeOK
  <2>2. UNCHANGED <<pc, call, grant>>
    BY <1>7 DEF Expire
  <2> QED
    BY <1>0, <1>1, <1>2, <2>1, <2>2 DEF CodeInv
<1> QED
  BY <1>4, <1>5, <1>6, <1>7, Writers

-----------------------------------------------------------------------------
(* Activations *)

\* One device is created, by an activation that had a code and a manager.
LEMMA Created ==
  ASSUME DeviceInv, NEW r \in Requests, Create(r)
  PROVE  /\ call[r] \in Calls /\ call[r].op = "activate"
         /\ grant[r] \in Grants /\ r \in managed
         /\ \A v \in Devices : madeBy[v] # r
         /\ \/ UNCHANGED <<device, madeBy>>
            \/ \E v \in Devices :
                 /\ ~Known(v) /\ pc'[r] = "tell" /\ Acceptable(call[r].offer)
                 /\ device' = [device EXCEPT ![v] =
                      NewDevice(grant[r].user, grant[r].domain, call[r].offer, call[r].name)]
                 /\ madeBy' = [madeBy EXCEPT ![v] = r]
<1>1. pc[r] = "create" /\ DeviceTypeOK /\ StageOK(r) /\ ActivationInv
  BY DEF Create, DeviceInv, StageInv
<1>2. call[r] \in Calls /\ call[r].op = "activate"
  BY <1>1 DEF StageOK, DeviceTypeOK, NoCall
<1>3. grant[r] \in Grants /\ r \in managed
  BY <1>1, <1>2 DEF ActivationInv, DeviceTypeOK
<1>4. \A v \in Devices : madeBy[v] # r
  BY <1>1, DeviceAssumption DEF ActivationInv
<1> QED
  BY <1>1, <1>2, <1>3, <1>4 DEF Create, Goto, DeviceTypeOK

LEMMA ActivationStep ==
  ASSUME DeviceInv, [DeviceNext]_dcVars
  PROVE  ActivationInv'
<1>0. ActivationInv /\ StageInv /\ DeviceTypeOK /\ CodeInv
  BY DEF DeviceInv
<1>1. ASSUME NEW r \in Requests, call'[r].op = "activate", pc'[r] \in {"perms", "create"}
      PROVE  grant'[r] # NoGrant
  <2>1. CASE UNCHANGED <<call[r], pc[r], grant[r]>>
    BY <1>0, <1>1, <2>1 DEF ActivationInv
  <2>2. CASE RequestStep(r)
    <3>1. CASE GetDel(r)
      BY <1>0, <1>1, <3>1 DEF GetDel, Goto, DeviceTypeOK
    <3>2. CASE CheckPermissions(r)
      BY <1>0, <1>1, <3>2 DEF CheckPermissions, ActivationInv
    <3>3. CASE Begin(r)
      BY <1>0, <1>1, <3>3 DEF Begin, FirstStage, Goto, DeviceTypeOK
    <3>4. CASE Find(r)
      BY <1>0, <1>1, <3>4 DEF Find, StageInv, StageOK
    <3> QED
      BY <1>0, <1>1, <2>2, <3>1, <3>2, <3>3, <3>4
      DEF RequestStep, SetCode, Create, Save, Publish, Write, MarkDeleted, SetName, Tell, Send, Fail, Goto, DeviceTypeOK
  <2>3. ASSUME NEW q \in Requests, q # r, RequestStep(q) PROVE UNCHANGED <<call[r], pc[r], grant[r]>>
    BY <1>0, <2>3, OneActs DEF DeviceTypeOK
  <2> QED
    BY <2>1, <2>2, <2>3, Writers
<1>2. ASSUME NEW r \in Requests, pc'[r] = "create" PROVE r \in managed'
  <2>1. CASE pc[r] = "create"
    BY <1>0, <2>1, Writers DEF ActivationInv
  <2>2. CASE pc[r] # "create"
    <3>1. PICK q \in Requests : RequestStep(q)
      BY <1>2, <2>2, Writers
    <3>2. q = r
      BY <1>0, <1>2, <2>2, <3>1, OneActs DEF DeviceTypeOK
    <3>3. CheckPermissions(r) /\ call[r].op = "activate"
      BY <1>0, <1>2, <2>2, <3>1, <3>2
      DEF RequestStep, Begin, CheckPermissions, SetCode, GetDel, Create, Find, Save, Publish,
          Write, Tell, Send, Fail, Goto, DeviceTypeOK, FirstStage, StageInv, StageOK
    <3>4. CanManageDevices(grant[r].user, grant[r].domain)
      BY <1>0, <1>2, <3>3 DEF CheckPermissions, MayProceed, Goto, DeviceTypeOK
    <3>5. UNCHANGED <<role, call, grant>>
      BY <3>3 DEF CheckPermissions, documents
    <3>6. CanManageDevices(grant[r].user, grant[r].domain)'
      BY <3>4, <3>5 DEF CanManageDevices
    <3>7. r \in Managing'
      BY <1>2, <3>3, <3>5, <3>6 DEF Managing
    <3>8. managed' = managed \cup Managing'
      BY <1>2, <2>2 DEF DeviceNext, DeviceStep, dcVars
    <3> QED
      BY <3>7, <3>8
  <2> QED
    BY <2>1, <2>2
\* The activation behind a device is past its permissions.
<1>3. ASSUME NEW r \in Requests, grant[r] # NoGrant, pc[r] \in {"tell", "send", "closed"}
      PROVE  grant'[r] # NoGrant /\ pc'[r] \in {"tell", "send", "closed"}
  <2>1. ASSUME NEW q \in Requests, q # r, RequestStep(q) PROVE UNCHANGED <<pc[r], grant[r]>>
    BY <1>0, <2>1, OneActs DEF DeviceTypeOK
  <2>2. CASE RequestStep(r)
    BY <1>0, <1>3, <2>2
    DEF RequestStep, Begin, CheckPermissions, SetCode, GetDel, Create, Find, Save, Publish,
        Write, Tell, Send, Fail, Goto, DeviceTypeOK, Stages
  <2> QED
    BY <1>3, <2>1, <2>2, Writers
<1>4. /\ \A v \in Devices : madeBy'[v] # Nobody =>
           /\ Known(v)' /\ grant'[madeBy'[v]] # NoGrant
           /\ pc'[madeBy'[v]] \in {"tell", "send", "closed"}
      /\ \A v, w \in Devices : madeBy'[v] # Nobody /\ madeBy'[v] = madeBy'[w] => v = w
  <2>1. \A v \in Devices : Known(v) => Known(v)'
    BY DocumentsKept DEF Kept, Known
  <2>2. CASE UNCHANGED madeBy
    BY <1>0, <1>3, <2>1, <2>2 DEF ActivationInv, DeviceTypeOK
  <2>3. ASSUME NEW r \in Requests, Create(r), NEW v \in Devices, pc'[r] = "tell",
               device' = [device EXCEPT ![v] =
                 NewDevice(grant[r].user, grant[r].domain, call[r].offer, call[r].name)],
               madeBy' = [madeBy EXCEPT ![v] = r]
        PROVE  <1>4!1 /\ <1>4!2
    <3>1. grant'[r] # NoGrant /\ \A w \in Devices : madeBy[w] # r
      <4>1. grant[r] \in Grants /\ grant' = grant /\ \A w \in Devices : madeBy[w] # r
        BY <2>3, Created DEF Create
      <4>2. NoGrant \notin Grants
        BY DeviceAssumption DEF Grants, NoGrant
      <4> QED
        BY <4>1, <4>2
    <3>2. Known(v)'
      BY <1>0, <2>3 DEF Known, NewDevice, DeviceTypeOK
    <3>3. madeBy'[v] = r /\ \A w \in Devices : w # v => madeBy'[w] = madeBy[w]
      BY <1>0, <2>3 DEF DeviceTypeOK
    <3> QED
      BY <1>0, <1>3, <2>1, <2>3, <3>1, <3>2, <3>3 DEF ActivationInv, DeviceTypeOK
  <2> QED
    BY <2>2, <2>3, Created, Writers
<1> QED
  BY <1>1, <1>2, <1>4 DEF ActivationInv

\* A device keeps its creator, its domain and the activation behind it, and that
\* activation keeps its grant.
LEMMA PairedStep ==
  ASSUME DeviceInv, [DeviceNext]_dcVars
  PROVE  PairedByManagers'
<1>0. PairedByManagers /\ ActivationInv /\ DeviceTypeOK
  BY DEF DeviceInv
<1>1. managed \subseteq managed'
  BY Writers
<1>2. ASSUME NEW v \in Devices, madeBy[v] # Nobody, madeBy'[v] = madeBy[v]
      PROVE  /\ madeBy'[v] \in managed'
             /\ device'[v].createdBy = grant'[madeBy'[v]].user
             /\ device'[v].domainId = grant'[madeBy'[v]].domain
  <2>1. madeBy[v] \in Requests /\ Known(v) /\ pc[madeBy[v]] # "getDel"
    BY <1>0, <1>2 DEF ActivationInv, DeviceTypeOK
  <2>2. grant'[madeBy[v]] = grant[madeBy[v]]
    <3>1. ASSUME NEW q \in Requests, RequestStep(q) PROVE grant'[madeBy[v]] = grant[madeBy[v]]
      BY <1>0, <2>1, <3>1, OneActs DEF DeviceTypeOK
    <3> QED
      BY <3>1, Writers
  <2>3. /\ device'[v].createdBy = device[v].createdBy
        /\ device'[v].domainId = device[v].domainId
    BY <2>1, DocumentsKept DEF Kept
  <2> QED
    BY <1>0, <1>1, <1>2, <2>2, <2>3 DEF PairedByManagers
<1>3. CASE UNCHANGED madeBy
  BY <1>2, <1>3 DEF PairedByManagers
<1>4. ASSUME NEW r \in Requests, Create(r), NEW v \in Devices,
             device' = [device EXCEPT ![v] =
               NewDevice(grant[r].user, grant[r].domain, call[r].offer, call[r].name)],
             madeBy' = [madeBy EXCEPT ![v] = r]
      PROVE  PairedByManagers'
  <2>1. r \in managed' /\ grant' = grant
    BY <1>1, <1>4, Created DEF Create
  <2>2. madeBy'[v] = r /\ \A w \in Devices : w # v => madeBy'[w] = madeBy[w]
    BY <1>0, <1>4 DEF DeviceTypeOK
  <2>3. device'[v].createdBy = grant[r].user /\ device'[v].domainId = grant[r].domain
    BY <1>0, <1>4 DEF DeviceTypeOK, NewDevice
  <2> QED
    BY <1>2, <2>1, <2>2, <2>3 DEF PairedByManagers
<1> QED
  BY <1>3, <1>4, Created, Writers

-----------------------------------------------------------------------------
(* States and deletions *)

LEMMA FitStep ==
  ASSUME DeviceInv, [DeviceNext]_dcVars
  PROVE  StatesFitTheirCapabilities'
<1>0. StatesFitTheirCapabilities /\ DeviceTypeOK /\ StageInv
  BY DEF DeviceInv
<1> DEFINE Fits(m) == \A k \in DOMAIN m.capabilities :
                        VerifyCapabilityValue(m.capabilities[k], m.currentState[k])
<1>1. \A v \in Devices : Known(v) => Fits(device[v])
  BY <1>0 DEF StatesFitTheirCapabilities
<1>2. SUFFICES \A v \in Devices : Known(v)' => Fits(device'[v])
  BY DEF StatesFitTheirCapabilities, Known
<1>3. CASE UNCHANGED device
  BY <1>1, <1>3 DEF Known
<1>4. ASSUME NEW r \in Requests, Create(r), NEW w \in Devices, Acceptable(call[r].offer),
             device' = [device EXCEPT ![w] =
               NewDevice(grant[r].user, grant[r].domain, call[r].offer, call[r].name)]
      PROVE  \A v \in Devices : Known(v)' => Fits(device'[v])
  <2>1. call[r].offer \in Offers
    BY <1>4, Created, CallFields
  <2>2. /\ device'[w].capabilities = call[r].offer
        /\ device'[w].currentState = CreateCurrentState(call[r].offer)
    BY <1>0, <1>4 DEF NewDevice, DeviceTypeOK
  <2>3. Fits(device'[w])
    BY <1>4, <2>1, <2>2, NewStateFits
  <2>4. \A v \in Devices : v # w => device'[v] = device[v]
    BY <1>0, <1>4 DEF DeviceTypeOK
  <2> HIDE DEF Fits
  <2> QED
    BY <1>1, <2>3, <2>4 DEF Known
<1>5. ASSUME NEW r \in Requests, Save(r)
      PROVE  \A v \in Devices : Known(v)' => Fits(device'[v])
  <2> DEFINE d == call[r].device
             k == call[r].key
             x == call[r].value
  <2>1. call[r] \in Calls /\ d \in Devices /\ Takes(d, k, x) /\ Known(d)
    BY <1>0, <1>5, CallFields DEF Save, StageInv, StageOK, SetsValue, NoCall, DeviceTypeOK
  <2>2. /\ device'[d] = [device[d] EXCEPT !.currentState = With(@, k, x)]
        /\ \A v \in Devices : v # d => device'[v] = device[v]
    BY <1>0, <1>5, <2>1 DEF Save, DeviceTypeOK
  <2>3. DocumentOK(device[d]) /\ device[d] # NoDevice /\ k \in DOMAIN device[d].capabilities
    BY <1>0, <2>1 DEF DeviceTypeOK, Known, NoDevice, Takes
  <2> HIDE DEF d, k, x
  <2>4. /\ device'[d].capabilities = device[d].capabilities
        /\ device'[d].currentState = With(device[d].currentState, k, x)
    BY <2>2, <2>3, StateWritten
  <2>5. DOMAIN device[d].currentState = DOMAIN device[d].capabilities
    BY <2>3 DEF DocumentOK
  <2>6. Fits(device'[d])
    BY <1>1, <2>1, <2>4, <2>5 DEF With, Takes
  <2> HIDE DEF Fits
  <2> QED
    BY <1>1, <2>2, <2>6 DEF Known
<1>6. ASSUME NEW r \in Requests, Write(r)
      PROVE  \A v \in Devices : Known(v)' => Fits(device'[v])
  <2> DEFINE d == call[r].device
  <2>1. d \in Devices /\ call[r].op \in {"delete", "rename"} /\ call[r] \in Calls
    BY <1>0, <1>6, CallFields DEF Write, MarkDeleted, SetName, StageInv, StageOK, NoCall, DeviceTypeOK
  <2>2. CASE UNCHANGED device
    BY <1>3, <2>2
  <2>3. CASE Live(d) /\ ~UNCHANGED device
    <3>1. DocumentOK(device[d]) /\ device[d] # NoDevice /\ Known(d)
      BY <1>0, <2>1, <2>3 DEF DeviceTypeOK, Live, Known, NoDevice
    <3>2. /\ \/ device'[d] = [device[d] EXCEPT !.status = "deleted"]
             \/ device'[d] = [device[d] EXCEPT !.name = call[r].name] /\ call[r].name \in Names
          /\ \A v \in Devices : v # d => device'[v] = device[v]
      BY <1>0, <1>6, <2>1, <2>3, CallFields DEF Write, MarkDeleted, SetName, DeviceTypeOK
    <3> HIDE DEF d
    <3>3. device'[d].capabilities = device[d].capabilities /\ device'[d].currentState = device[d].currentState
      BY <3>1, <3>2, StatusWritten, NameWritten
    <3>4. Fits(device'[d])
      BY <1>1, <2>1, <3>1, <3>3
    <3> HIDE DEF Fits
    <3> QED
      BY <1>1, <3>2, <3>4 DEF Known
  <2> QED
    BY <1>6, <2>2, <2>3 DEF Write, MarkDeleted, SetName
<1> QED
  BY <1>3, <1>4, <1>5, <1>6, Created, Writers

LEMMA UnlinkedStep ==
  ASSUME DeviceInv, [DeviceNext]_dcVars
  PROVE  UnlinkedOnlyIfGone'
<1>0. UnlinkedOnlyIfGone /\ DeviceTypeOK /\ StageInv
  BY DEF DeviceInv
<1>1. \A v \in unlinked : v \in Devices /\ Deleted(v) /\ Deleted(v)'
  BY <1>0, DocumentsKept DEF UnlinkedOnlyIfGone, DeviceTypeOK, Kept, Deleted
<1>2. ASSUME NEW r \in Requests, Find(r) PROVE UnlinkedOnlyIfGone'
  <2>1. call[r] \in Calls /\ call[r].device \in Devices /\ Known(call[r].device)
    BY <1>0, <1>2, CallFields DEF Find, StageInv, StageOK, NoCall, DeviceTypeOK
  <2>2. Live(call[r].device) \/ Deleted(call[r].device)
    BY <1>0, <2>1 DEF DeviceTypeOK, DocumentOK, Known, Live, Deleted, NoDevice
  <2>3. UNCHANGED device
    BY <1>2 DEF Find, documents
  <2> QED
    BY <1>1, <1>2, <2>2, <2>3 DEF Find, UnlinkedOnlyIfGone, Deleted
<1>3. ASSUME NEW r \in Requests, Tell(r) PROVE UnlinkedOnlyIfGone'
  <2>1. call[r].op = "delete" => Deleted(call[r].device)
    BY <1>0, <1>3 DEF Tell, StageInv, StageOK
  <2>2. UNCHANGED device
    BY <1>3 DEF Tell, documents
  <2> QED
    BY <1>1, <1>3, <2>1, <2>2 DEF Tell, UnlinkedOnlyIfGone, Deleted
<1>4. CASE UNCHANGED unlinked
  BY <1>1, <1>4 DEF UnlinkedOnlyIfGone
<1>5. ASSUME NEW r \in Requests, Begin(r) \/ Fail(r) PROVE UNCHANGED unlinked
  BY <1>5 DEF Begin, Fail
<1> QED
  BY <1>2, <1>3, <1>4, <1>5, Writers

-----------------------------------------------------------------------------
(* Document and device *)

\* A request that sets no value of the device leaves alone who does.
LEMMA Bystander ==
  ASSUME DeviceInv, NEW r \in Requests, RequestStep(r), NEW v \in Devices,
         ~Setting(r, v), ~Setting(r, v)', NEW q \in Requests
  PROVE  /\ Setting(q, v)' <=> Setting(q, v)
         /\ Midway(q, v)' <=> Midway(q, v)
         /\ Setting(q, v) => call'[q] = call[q]
<1>1. /\ pc' = [pc EXCEPT ![r] = pc'[r]] /\ call' = [call EXCEPT ![r] = call'[r]]
      /\ DOMAIN pc = Requests /\ DOMAIN call = Requests
  BY OneActs DEF DeviceInv, DeviceTypeOK
<1>2. CASE q = r
  BY <1>2 DEF Midway
<1>3. CASE q # r
  <2>1. pc'[q] = pc[q] /\ call'[q] = call[q]
    BY <1>1, <1>3
  <2> QED
    BY <2>1 DEF Midway, Setting, Open, SetsValue
<1> QED
  BY <1>2, <1>3

\* What leaves the device, its document and those who set its values alone.
LEMMA TwinFrame ==
  ASSUME NEW v \in Devices, TwinOK(v),
         Known(v) => Known(v)',
         Live(v)' => Live(v) /\ device'[v].currentState = device[v].currentState,
         onDevice'[v] = onDevice[v], shaky \subseteq shaky',
         \/ v \in shaky'
         \/ \A q \in Requests :
              /\ Setting(q, v)' <=> Setting(q, v)
              /\ Midway(q, v)' <=> Midway(q, v)
              /\ Setting(q, v) => call'[q] = call[q]
  PROVE  TwinOK(v)'
<1>1. CASE v \in shaky' \/ ~Live(v)'
  BY <1>1 DEF TwinOK
<1>2. CASE v \notin shaky' /\ Live(v)'
  <2>1. /\ Live(v) /\ v \notin shaky /\ device'[v].currentState = device[v].currentState
        /\ \A q \in Requests : /\ Setting(q, v)' <=> Setting(q, v)
                               /\ Midway(q, v)' <=> Midway(q, v)
                               /\ Midway(q, v) => call'[q] = call[q]
    BY <1>2 DEF Midway
  <2>2. \A k : Agree(v, k)' <=> Agree(v, k)
    BY <2>1 DEF Agree
  <2>3. \A q, r \in Requests : Setting(q, v)' /\ Setting(r, v)' => q = r
    BY <2>1 DEF TwinOK
  <2>4. \A k \in DOMAIN onDevice'[v] :
          Agree(v, k)' \/ \E r \in Requests : Midway(r, v)' /\ call'[r].key = k
    BY <2>1, <2>2 DEF TwinOK
  <2>5. ASSUME NEW r \in Requests, Midway(r, v)'
        PROVE  LET given == IF call'[r].op = "control" THEN device'[v].currentState ELSE onDevice'[v]
               IN  call'[r].key \in DOMAIN given /\ given[call'[r].key] = call'[r].value
    BY <2>1, <2>5 DEF TwinOK
  <2>6. ~Known(v)' => DOMAIN onDevice'[v] = {}
    BY <1>2 DEF Known, Live
  <2> QED
    BY <2>3, <2>4, <2>5, <2>6 DEF TwinOK
<1> QED
  BY <1>1, <1>2

\* The facts about types and stages that the cases below need of the acting request.
LEMMA Acting ==
  ASSUME DeviceInv, [DeviceNext]_dcVars, NEW r \in Requests, RequestStep(r)
  PROVE  /\ pc[r] \in Stages \cup {"idle"} /\ pc'[r] \in Stages \cup {"closed"}
         /\ call'[r] \in Calls
         /\ pc[r] # "idle" => call'[r] = call[r] /\ call[r] \in Calls
         /\ pc[r] = "idle" => ~Open(r) /\ Begin(r)
         /\ StageOK(r)
         /\ \A v \in Devices : Known(v) => Known(v)'
         /\ \A v \in Devices : Live(v)' => Live(v) \/ ~Known(v)
<1>0. /\ pc \in [Requests -> Stages \cup {"idle", "closed"}]
      /\ call \in [Requests -> Calls \cup {NoCall}]
      /\ StageOK(r)
      /\ \A v \in Devices : DocumentOK(device[v])
  BY DEF DeviceInv, DeviceTypeOK, StageInv
<1>1. /\ pc[r] # "closed" /\ pc'[r] \in Stages \cup {"closed"} /\ call'[r] \in Calls
      /\ call'[r] # call[r] => pc[r] = "idle"
  BY OneActs
<1>2. pc[r] = "idle" => ~Open(r) /\ Begin(r)
  BY DEF RequestStep, CheckPermissions, SetCode, GetDel, Create, Find, Save, Publish, Write, Tell,
         Send, Fail, Open, Stages
<1>3. \A v \in Devices : Known(v) => Known(v)'
  BY DocumentsKept DEF Kept, Known
<1>4. \A v \in Devices : Live(v)' => Live(v) \/ ~Known(v)
  BY <1>0, DocumentsKept DEF Kept, Known, Live, Deleted, DocumentOK, NoDevice
<1> QED
  BY <1>0, <1>1, <1>2, <1>3, <1>4

LEMMA TwinBegin ==
  ASSUME DeviceInv, [DeviceNext]_dcVars, TwinInv, NEW r \in Requests, Begin(r), NEW v \in Devices
  PROVE  TwinOK(v)'
<1>0. /\ TwinOK(v) /\ DOMAIN pc = Requests /\ DOMAIN call = Requests /\ DOMAIN onDevice = Devices
      /\ RequestStep(r)
  BY DEF TwinInv, DeviceInv, DeviceTypeOK, RequestStep
<1>1. PICK c \in Calls :
        /\ "device" \in DOMAIN c => Known(c.device)
        /\ call' = [call EXCEPT ![r] = c] /\ pc' = [pc EXCEPT ![r] = FirstStage(c)]
        /\ onDevice' = IF c.op = "telemetry"
                       THEN [onDevice EXCEPT ![c.device] = With(@, c.key, c.value)]
                       ELSE onDevice
        /\ shaky' = shaky \cup (IF SetsValue(c) /\ BeingSet(c.device) THEN {c.device} ELSE {})
  BY DEF Begin, Goto
<1>2. pc[r] = "idle" /\ UNCHANGED device
  BY DEF Begin, documents
<1>3. ~Setting(r, v) /\ ~Midway(r, v)
  BY <1>2 DEF Setting, Midway, Open, Stages
<1>4. CASE ~(SetsValue(c) /\ c.device = v)
  <2>1. ~Setting(r, v)'
    BY <1>0, <1>1, <1>4 DEF Setting
  <2>2. onDevice'[v] = onDevice[v]
    BY <1>0, <1>1, <1>4 DEF SetsValue
  <2>3. shaky \subseteq shaky'
    BY <1>1
  <2>4. /\ Known(v) => Known(v)'
        /\ Live(v)' => Live(v) /\ device'[v].currentState = device[v].currentState
    BY <1>2 DEF Known, Live
  <2> QED
    BY <1>0, <1>3, <2>1, <2>2, <2>3, <2>4, Bystander, TwinFrame
<1>5. CASE SetsValue(c) /\ c.device = v
  <2>1. /\ c.op \in {"control", "telemetry"} /\ Known(v)
        /\ FirstStage(c) = IF c.op = "control" THEN "perms" ELSE "find"
    BY <1>1, <1>5, CallFields DEF SetsValue, FirstStage
  <2>2. Known(v)'
    BY <1>2, <2>1 DEF Known
  <2>3. CASE BeingSet(v)
    <3>1. v \in shaky'
      BY <1>1, <1>5, <2>3
    <3> QED
      BY <2>2, <3>1 DEF TwinOK
  <2>4. CASE ~BeingSet(v)
    <3>1. \A q \in Requests : ~Setting(q, v) /\ ~Midway(q, v)
      BY <2>4 DEF BeingSet, Midway
    <3>2. \A q \in Requests : q # r => pc'[q] = pc[q] /\ call'[q] = call[q]
      BY <1>0, <1>1
    <3>3. \A q \in Requests : Setting(q, v)' => q = r
      BY <3>1, <3>2 DEF Setting, Open, SetsValue
    <3>4. call'[r] = c /\ pc'[r] = FirstStage(c)
      BY <1>0, <1>1
    <3>5. Setting(r, v)'
      BY <1>5, <2>1, <3>4 DEF Setting, Open, SetsValue, Stages
    <3>6. \A q \in Requests : Midway(q, v)' => q = r /\ c.op = "telemetry"
      BY <2>1, <3>3, <3>4 DEF Midway
    <3>7. c.op = "telemetry" => Midway(r, v)'
      BY <2>1, <3>4, <3>5 DEF Midway
    <3>8. CASE ~(Live(v)' /\ v \notin shaky')
      BY <2>2, <3>8 DEF TwinOK
    <3>9. CASE Live(v)' /\ v \notin shaky'
      <4>1. Live(v) /\ v \notin shaky
        BY <1>1, <1>2, <3>9 DEF Live
      <4>2. \A k \in DOMAIN onDevice[v] : Agree(v, k)
        BY <1>0, <3>1, <4>1 DEF TwinOK
      <4>3. CASE c.op = "telemetry"
        <5>1. onDevice'[v] = With(onDevice[v], c.key, c.value)
          BY <1>0, <1>1, <1>5, <4>3
        <5>2. /\ DOMAIN onDevice'[v] = DOMAIN onDevice[v] \cup {c.key}
              /\ onDevice'[v][c.key] = c.value
              /\ \A k \in DOMAIN onDevice[v] \ {c.key} : onDevice'[v][k] = onDevice[v][k]
          BY <5>1 DEF With
        <5>3. \A k \in DOMAIN onDevice'[v] : k = c.key \/ Agree(v, k)'
          BY <1>2, <4>2, <5>2 DEF Agree
        <5>4. c.op # "control"
          BY <4>3
        <5> QED
          BY <2>2, <3>3, <3>4, <3>6, <3>7, <4>3, <5>2, <5>3, <5>4 DEF TwinOK
      <4>4. CASE c.op # "telemetry"
        <5>1. \A k \in DOMAIN onDevice'[v] : Agree(v, k)'
          BY <1>1, <1>2, <4>2, <4>4 DEF Agree
        <5> QED
          BY <2>2, <3>3, <3>6, <4>4, <5>1 DEF TwinOK
      <4> QED
        BY <4>3, <4>4
    <3> QED
      BY <3>8, <3>9
  <2> QED
    BY <2>3, <2>4
<1> QED
  BY <1>4, <1>5

LEMMA TwinSave ==
  ASSUME DeviceInv, [DeviceNext]_dcVars, TwinInv, NEW r \in Requests, Save(r), NEW v \in Devices
  PROVE  TwinOK(v)'
<1>0. /\ TwinOK(v) /\ DOMAIN pc = Requests /\ DOMAIN call = Requests /\ DOMAIN device = Devices
      /\ RequestStep(r) /\ \A w \in Devices : DocumentOK(device[w])
  BY DEF TwinInv, DeviceInv, DeviceTypeOK, RequestStep
<1> DEFINE c == call[r]
<1>1. /\ pc[r] = "save"
      /\ pc' = [pc EXCEPT ![r] = IF c.op = "control" THEN "publish" ELSE "tell"]
      /\ device' = [device EXCEPT ![c.device] =
                      [device[c.device] EXCEPT !.currentState = With(@, c.key, c.value)]]
      /\ UNCHANGED <<call, onDevice, shaky>>
  BY DEF Save, Goto, histories
<1>2. /\ SetsValue(c) /\ c \in Calls /\ Takes(c.device, c.key, c.value) /\ Known(c.device)
      /\ c.device \in Devices /\ c.op \in {"control", "telemetry"}
  BY <1>0, <1>1, Acting, CallFields DEF StageOK, SetsValue
<1>3. Known(v) => Known(v)'
  BY <1>0, Acting
<1>4. CASE c.device # v
  <2>1. ~Setting(r, v) /\ ~Setting(r, v)' /\ device'[v] = device[v]
    BY <1>0, <1>1, <1>4 DEF Setting
  <2> QED
    BY <1>0, <1>1, <1>3, <2>1, Bystander, TwinFrame DEF Live
<1>5. CASE c.device = v
  <2>1. CASE ~(Live(v)' /\ v \notin shaky')
    BY <1>2, <1>3, <1>5, <2>1 DEF TwinOK
  <2>2. CASE Live(v)' /\ v \notin shaky'
    <3>1. device'[v].currentState = With(device[v].currentState, c.key, c.value)
      <4>1. device[v] # NoDevice /\ c.key \in DOMAIN device[v].capabilities
        BY <1>2, <1>5 DEF Known, NoDevice, Takes
      <4>2. device'[v] = [device[v] EXCEPT !.currentState = With(@, c.key, c.value)]
        BY <1>0, <1>1, <1>2, <1>5
      <4> HIDE DEF c
      <4> QED
        BY <1>0, <4>1, <4>2, StateWritten
    <3>2. /\ DOMAIN device'[v].currentState = DOMAIN device[v].currentState \cup {c.key}
          /\ device'[v].currentState[c.key] = c.value
          /\ \A k \in DOMAIN device[v].currentState \ {c.key} :
               device'[v].currentState[k] = device[v].currentState[k]
      BY <3>1 DEF With
    <3>3. Live(v) /\ v \notin shaky
      BY <1>0, <1>1, <1>2, <1>5, <2>2, Acting
    <3>4. Setting(r, v)
      BY <1>1, <1>2, <1>5 DEF Setting, Open, Stages
    <3>5. \A q \in Requests : Setting(q, v) => q = r
      BY <1>0, <3>3, <3>4 DEF TwinOK
    <3>6. \A q \in Requests : Midway(q, v) => q = r
      BY <3>5 DEF Midway
    <3>7. \A q \in Requests : q # r => pc'[q] = pc[q]
      BY <1>0, <1>1
    <3>8. \A q \in Requests : Setting(q, v)' => q = r
      BY <1>1, <3>5, <3>7 DEF Setting, Open, SetsValue
    <3>9. \A k \in DOMAIN onDevice[v] : k # c.key => Agree(v, k)
      BY <1>0, <3>3, <3>6 DEF TwinOK
    <3>10. \A k \in DOMAIN onDevice[v] : k # c.key => Agree(v, k)'
      BY <1>1, <3>2, <3>9 DEF Agree
    <3>11. CASE c.op = "control"
      <4>1. Setting(r, v)' /\ pc'[r] = "publish"
        BY <1>0, <1>1, <1>2, <1>5, <3>11 DEF Setting, Open, Stages
      <4>2. Midway(r, v)'
        BY <1>1, <3>11, <4>1 DEF Midway
      <4>3. \A q \in Requests : Midway(q, v)' => q = r
        BY <3>8 DEF Midway
      <4> QED
        BY <1>1, <1>2, <1>3, <1>5, <3>2, <3>8, <3>10, <3>11, <4>2, <4>3 DEF TwinOK
    <3>12. CASE c.op = "telemetry"
      <4>1. Midway(r, v)
        BY <1>1, <3>4, <3>12 DEF Midway
      <4>2. c.key \in DOMAIN onDevice[v] /\ onDevice[v][c.key] = c.value
        BY <1>0, <3>3, <3>12, <4>1 DEF TwinOK
      <4>3. Agree(v, c.key)'
        BY <1>1, <3>2, <4>2 DEF Agree
      <4>4. pc'[r] = "tell"
        BY <1>0, <1>1, <3>12
      <4>5. \A q \in Requests : ~Midway(q, v)'
        BY <1>1, <3>8, <3>12, <4>4 DEF Midway
      <4> QED
        BY <1>1, <1>2, <1>3, <1>5, <3>8, <3>10, <4>3, <4>5 DEF TwinOK
    <3> QED
      BY <1>2, <3>11, <3>12
  <2> QED
    BY <2>1, <2>2
<1> QED
  BY <1>4, <1>5

LEMMA TwinPublish ==
  ASSUME DeviceInv, [DeviceNext]_dcVars, TwinInv, NEW r \in Requests, Publish(r), NEW v \in Devices
  PROVE  TwinOK(v)'
<1>0. /\ TwinOK(v) /\ DOMAIN pc = Requests /\ DOMAIN onDevice = Devices /\ RequestStep(r)
  BY DEF TwinInv, DeviceInv, DeviceTypeOK, RequestStep
<1> DEFINE c == call[r]
<1>1. /\ pc[r] = "publish" /\ pc' = [pc EXCEPT ![r] = "tell"]
      /\ onDevice' = [onDevice EXCEPT ![c.device] = With(@, c.key, c.value)]
      /\ UNCHANGED <<call, device, shaky>>
  BY DEF Publish, Goto, documents, histories
<1>2. c.op = "control" /\ c \in Calls /\ c.device \in Devices /\ Known(c.device)
  BY <1>0, <1>1, Acting, CallFields DEF StageOK
<1>3. (Known(v) => Known(v)') /\ (Live(v)' => Live(v))
  BY <1>1 DEF Known, Live
<1>4. CASE c.device # v
  <2>1. ~Setting(r, v) /\ ~Setting(r, v)' /\ onDevice'[v] = onDevice[v]
    BY <1>0, <1>1, <1>4 DEF Setting
  <2> QED
    BY <1>0, <1>1, <1>3, <2>1, Bystander, TwinFrame
<1>5. CASE c.device = v
  <2>1. CASE ~(Live(v)' /\ v \notin shaky')
    BY <1>2, <1>3, <1>5, <2>1 DEF TwinOK
  <2>2. CASE Live(v)' /\ v \notin shaky'
    <3>1. onDevice'[v] = With(onDevice[v], c.key, c.value)
      BY <1>0, <1>1, <1>2, <1>5
    <3>2. /\ DOMAIN onDevice'[v] = DOMAIN onDevice[v] \cup {c.key}
          /\ onDevice'[v][c.key] = c.value
          /\ \A k \in DOMAIN onDevice[v] \ {c.key} : onDevice'[v][k] = onDevice[v][k]
      BY <3>1 DEF With
    <3>3. Live(v) /\ v \notin shaky
      BY <1>1, <1>3, <2>2
    <3>4. Setting(r, v) /\ Midway(r, v)
      BY <1>1, <1>2, <1>5 DEF Setting, Midway, SetsValue, Open, Stages
    <3>5. \A q \in Requests : Setting(q, v) => q = r
      BY <1>0, <3>3, <3>4 DEF TwinOK
    <3>6. \A q \in Requests : Midway(q, v) => q = r
      BY <3>5 DEF Midway
    <3>7. pc'[r] = "tell" /\ \A q \in Requests : q # r => pc'[q] = pc[q]
      BY <1>0, <1>1
    <3>8. \A q \in Requests : Setting(q, v)' => q = r
      BY <1>1, <3>5, <3>7 DEF Setting, Open, SetsValue
    <3>9. \A q \in Requests : ~Midway(q, v)'
      BY <3>7, <3>8 DEF Midway
    <3>10. c.key \in DOMAIN device[v].currentState /\ device[v].currentState[c.key] = c.value
      BY <1>0, <1>2, <3>3, <3>4 DEF TwinOK
    <3>11. \A k \in DOMAIN onDevice[v] : k # c.key => Agree(v, k)
      BY <1>0, <3>3, <3>6 DEF TwinOK
    <3>12. \A k \in DOMAIN onDevice'[v] : Agree(v, k)'
      BY <1>1, <3>2, <3>10, <3>11 DEF Agree
    <3> QED
      BY <1>2, <1>3, <1>5, <3>8, <3>9, <3>12 DEF TwinOK
  <2> QED
    BY <2>1, <2>2
<1> QED
  BY <1>4, <1>5

LEMMA TwinCreate ==
  ASSUME DeviceInv, [DeviceNext]_dcVars, TwinInv, NEW r \in Requests, Create(r), NEW v \in Devices
  PROVE  TwinOK(v)'
<1>0. /\ TwinOK(v) /\ DOMAIN device = Devices /\ RequestStep(r) /\ pc[r] = "create"
      /\ StageInv /\ UNCHANGED <<call, onDevice, shaky>>
  BY DEF TwinInv, DeviceInv, DeviceTypeOK, RequestStep, Create
<1>1. call[r].op = "activate" /\ (Known(v) => Known(v)')
  BY <1>0, Acting DEF StageOK
<1>2. ~Setting(r, v) /\ ~Setting(r, v)'
  BY <1>0, <1>1 DEF Setting, SetsValue
<1>3. \A q \in Requests : /\ Setting(q, v)' <=> Setting(q, v)
                          /\ Midway(q, v)' <=> Midway(q, v)
                          /\ Setting(q, v) => call'[q] = call[q]
  BY <1>0, <1>2, Bystander
<1>4. CASE device'[v] = device[v]
  BY <1>0, <1>1, <1>3, <1>4, TwinFrame DEF Live
<1>5. CASE device'[v] # device[v]
  <2>1. ~Known(v)
    BY <1>0, <1>5 DEF Create
  <2>2. \A q \in Requests : ~Setting(q, v)
    BY <1>0, <2>1 DEF StageInv, StageOK, Setting, SetsValue
  <2>3. DOMAIN onDevice'[v] = {}
    BY <1>0, <2>1 DEF TwinOK
  <2>4. \A q \in Requests : ~Setting(q, v)' /\ ~Midway(q, v)'
    BY <1>3, <2>2 DEF Midway
  <2> QED
    BY <2>3, <2>4 DEF TwinOK
<1> QED
  BY <1>4, <1>5

LEMMA TwinWrite ==
  ASSUME DeviceInv, [DeviceNext]_dcVars, TwinInv, NEW r \in Requests, Write(r), NEW v \in Devices
  PROVE  TwinOK(v)'
<1> DEFINE d == call[r].device
<1>0. /\ TwinOK(v) /\ DOMAIN device = Devices /\ RequestStep(r) /\ pc[r] = "write"
      /\ DocumentOK(device[v]) /\ UNCHANGED <<call, onDevice, shaky>>
  BY DEF TwinInv, DeviceInv, DeviceTypeOK, RequestStep, Write, histories
<1>1. /\ call[r] \in Calls /\ call[r].op \in {"delete", "rename"} /\ d \in Devices
      /\ Known(v) => Known(v)'
      /\ Live(v)' => Live(v) \/ ~Known(v)
  BY <1>0, Acting, CallFields DEF StageOK
<1>2. ~Setting(r, v) /\ ~Setting(r, v)'
  BY <1>0, <1>1 DEF Setting, SetsValue
<1>3. Live(v)' => Live(v) /\ device'[v].currentState = device[v].currentState
  <2>1. CASE device'[v] = device[v]
    BY <2>1 DEF Live
  <2>2. CASE device'[v] # device[v]
    <3>1. /\ Live(v) /\ d = v
          /\ \/ device' = [device EXCEPT ![d] = [device[d] EXCEPT !.status = "deleted"]]
             \/ /\ device' = [device EXCEPT ![d] = [device[d] EXCEPT !.name = call[r].name]]
                /\ call[r].op = "rename"
      BY <1>0, <1>1, <2>2 DEF Write, MarkDeleted, SetName
    <3>2. device[v] # NoDevice /\ (call[r].op = "rename" => call[r].name \in Names)
      BY <1>1, <3>1, CallFields DEF Live, NoDevice
    <3> QED
      BY <1>0, <1>1, <3>1, <3>2, StatusWritten, NameWritten
  <2> QED
    BY <2>1, <2>2
<1> QED
  BY <1>0, <1>1, <1>2, <1>3, Bystander, TwinFrame

LEMMA TwinFind ==
  ASSUME DeviceInv, [DeviceNext]_dcVars, TwinInv, NEW r \in Requests, Find(r), NEW v \in Devices
  PROVE  TwinOK(v)'
<1> DEFINE c == call[r]
           refused == SetsValue(c) /\ Live(c.device) /\ ~Takes(c.device, c.key, c.value)
<1>0. /\ TwinOK(v) /\ DOMAIN pc = Requests /\ RequestStep(r) /\ pc[r] = "find"
      /\ UNCHANGED <<call, device, onDevice>> /\ shaky \subseteq shaky'
  BY DEF TwinInv, DeviceInv, DeviceTypeOK, RequestStep, Find, documents
<1>1. /\ Known(v) => Known(v)'
      /\ Live(v)' <=> Live(v)
  BY <1>0 DEF Known, Live
<1>2. CASE ~(SetsValue(c) /\ c.device = v)
  <2>1. ~Setting(r, v) /\ ~Setting(r, v)'
    BY <1>0, <1>2 DEF Setting
  <2> QED
    BY <1>0, <1>1, <2>1, Bystander, TwinFrame
<1>3. CASE SetsValue(c) /\ c.device = v
  <2>1. CASE ~Live(v) \/ v \in shaky'
    BY <1>0, <1>1, <2>1 DEF TwinOK
  <2>2. CASE Live(v) /\ v \notin shaky' /\ refused
    <3>1. c.op = "control" /\ pc' = [pc EXCEPT ![r] = "closed"]
      BY <1>0, <1>3, <2>2 DEF Find, Goto, SetsValue
    <3>2. \A q \in Requests : q # r => pc'[q] = pc[q]
      BY <1>0, <3>1
    <3>3. \A q \in Requests : Setting(q, v)' => q # r /\ Setting(q, v)
      BY <1>0, <3>1, <3>2 DEF Setting, Open, Stages
    <3>4. ~Midway(r, v)
      BY <1>0, <3>1 DEF Midway
    <3>5. \A q \in Requests : Midway(q, v)' <=> Midway(q, v)
      BY <1>0, <3>1, <3>2, <3>3, <3>4 DEF Midway, Setting, Open
    <3>6. \A k : Agree(v, k)' <=> Agree(v, k)
      BY <1>0 DEF Agree
    <3> QED
      BY <1>0, <1>1, <2>2, <3>3, <3>5, <3>6 DEF TwinOK
  <2>3. CASE Live(v) /\ ~refused
    <3>1. pc' = [pc EXCEPT ![r] = "save"]
      BY <1>3, <2>3 DEF Find, Goto
    <3>2. /\ Setting(r, v) /\ Setting(r, v)'
          /\ Midway(r, v)' <=> Midway(r, v)
      BY <1>0, <1>3, <3>1 DEF Setting, Midway, Open, Stages, SetsValue
    <3>3. \A q \in Requests : q # r => pc'[q] = pc[q]
      BY <1>0, <3>1
    <3>4. \A q \in Requests : /\ Setting(q, v)' <=> Setting(q, v)
                              /\ Midway(q, v)' <=> Midway(q, v)
      BY <1>0, <3>2, <3>3 DEF Setting, Midway, Open
    <3> QED
      BY <1>0, <1>1, <3>4, TwinFrame
  <2> QED
    BY <2>1, <2>2, <2>3
<1> QED
  BY <1>2, <1>3

\* The other steps of a request leave document and device alone.
LEMMA TwinRest ==
  ASSUME DeviceInv, [DeviceNext]_dcVars, TwinInv, NEW r \in Requests, NEW v \in Devices,
         \/ CheckPermissions(r) \/ SetCode(r) \/ GetDel(r) \/ Tell(r) \/ Send(r) \/ Fail(r)
  PROVE  TwinOK(v)'
<1>0. /\ TwinOK(v) /\ DOMAIN pc = Requests /\ RequestStep(r)
      /\ UNCHANGED <<call, device, onDevice>> /\ shaky \subseteq shaky'
  BY DEF TwinInv, DeviceInv, DeviceTypeOK, RequestStep, CheckPermissions, SetCode, GetDel, Tell,
         Send, Fail, documents, histories
<1>1. /\ Known(v) => Known(v)'
      /\ Live(v)' <=> Live(v)
  BY <1>0 DEF Known, Live
<1>2. StageOK(r) /\ pc[r] # "idle"
  BY <1>0, Acting DEF CheckPermissions, SetCode, GetDel, Tell, Send, Fail, Open, Stages
<1>3. CASE ~(SetsValue(call[r]) /\ call[r].device = v)
  <2>1. ~Setting(r, v) /\ ~Setting(r, v)'
    BY <1>0, <1>3 DEF Setting
  <2> QED
    BY <1>0, <1>1, <2>1, Bystander, TwinFrame
<1>4. CASE SetsValue(call[r]) /\ call[r].device = v
  <2>1. CASE Fail(r)
    <3>1. v \in shaky'
      BY <1>4, <2>1 DEF Fail, Target, SetsValue
    <3> QED
      BY <1>0, <1>1, <3>1, TwinFrame
  <2>2. CASE ~Fail(r)
    <3>1. /\ (pc[r] = "perms" /\ call[r].op = "control") \/ pc[r] = "tell"
          /\ \E stage \in {"find", "closed"} : pc' = [pc EXCEPT ![r] = stage]
      BY <1>2, <1>4, <2>2 DEF CheckPermissions, SetCode, GetDel, Tell, Send, StageOK, SetsValue,
                              Announces, Goto
    <3>2. /\ pc[r] = "tell" => pc'[r] = "closed"
          /\ \A q \in Requests : q # r => pc'[q] = pc[q]
      BY <1>0, <1>4, <2>2, <3>1 DEF CheckPermissions, SetCode, GetDel, Tell, Send, SetsValue,
                                    Announces, Goto
    <3>3. ~Midway(r, v) /\ ~Midway(r, v)' /\ Setting(r, v)
      BY <1>0, <1>4, <3>1, <3>2 DEF Midway, Setting, Open, Stages
    <3>4. \A q \in Requests : /\ Setting(q, v)' => Setting(q, v)
                              /\ Midway(q, v)' <=> Midway(q, v)
      BY <1>0, <3>2, <3>3 DEF Setting, Midway, Open
    <3>5. \A k : Agree(v, k)' <=> Agree(v, k)
      BY <1>0 DEF Agree
    <3> QED
      BY <1>0, <1>1, <3>4, <3>5 DEF TwinOK
  <2> QED
    BY <2>1, <2>2
<1> QED
  BY <1>3, <1>4

LEMMA TwinStep ==
  ASSUME DeviceInv, [DeviceNext]_dcVars, TwinInv
  PROVE  TwinInv'
<1> SUFFICES ASSUME NEW v \in Devices PROVE TwinOK(v)'
  BY DEF TwinInv
<1>1. CASE \E r \in Requests : RequestStep(r)
  BY <1>1, TwinBegin, TwinSave, TwinPublish, TwinCreate, TwinWrite, TwinFind, TwinRest
  DEF RequestStep
<1>2. CASE ~\E r \in Requests : RequestStep(r)
  <2>1. UNCHANGED <<call, pc, device, onDevice, shaky>>
    BY <1>2 DEF DeviceNext, DeviceStep, Expire, RoleChanges, dcVars, documents, histories
  <2>2. /\ TwinOK(v) /\ (Known(v)' <=> Known(v)) /\ (Live(v)' <=> Live(v))
    BY <2>1 DEF TwinInv, Known, Live
  <2>3. \A q \in Requests : /\ Setting(q, v)' <=> Setting(q, v)
                            /\ Midway(q, v)' <=> Midway(q, v)
    BY <2>1 DEF Setting, Midway, Open
  <2> QED
    BY <2>1, <2>2, <2>3, TwinFrame
<1> QED
  BY <1>1, <1>2

-----------------------------------------------------------------------------
(* Events *)

\* What a step that neither sends nor breaks off has to leave alone.
LEMMA AnnouncedFrame ==
  ASSUME DeviceInv, NEW v \in Devices, AnnouncedOK(v),
         madeBy'[v] = madeBy[v], bus' = bus, Deleted(v)' <=> Deleted(v), lost \subseteq lost',
         \A q \in Requests : pc[q] = "closed" => pc'[q] = "closed",
         madeBy[v] # Nobody /\ pc'[madeBy[v]] = "closed" => v \in lost' \/ pc[madeBy[v]] = "closed",
         \A q \in Requests : Deleting(q, v)' => Deleting(q, v),
         v \in lost' \/ \A q \in Requests : Deleting(q, v) => Deleting(q, v)'
  PROVE  AnnouncedOK(v)'
<1>1. /\ EventsOf("CREATED", v)' = EventsOf("CREATED", v)
      /\ EventsOf("DELETED", v)' = EventsOf("DELETED", v)
      /\ \A e \in EventsOf("CREATED", v) : e.by \in Requests
  BY DEF EventsOf, DeviceInv, DeviceTypeOK
<1> QED
  BY <1>1 DEF AnnouncedOK

\* Who makes a device is an activation that has done so.
LEMMA Makers ==
  ASSUME DeviceInv, NEW v \in Devices, madeBy[v] # Nobody
  PROVE  /\ madeBy[v] \in Requests /\ call[madeBy[v]].op = "activate"
         /\ pc[madeBy[v]] \in {"tell", "send", "closed"}
BY DEF DeviceInv, DeviceTypeOK, ActivationInv, CodeInv

LEMMA AnnouncedSend ==
  ASSUME DeviceInv, [DeviceNext]_dcVars, AnnouncedInv, NEW r \in Requests, Send(r), NEW v \in Devices
  PROVE  AnnouncedOK(v)'
<1>0. /\ AnnouncedOK(v) /\ DOMAIN pc = Requests /\ RequestStep(r) /\ pc[r] = "send"
      /\ pc' = [pc EXCEPT ![r] = "closed"] /\ UNCHANGED <<call, device, lost, madeBy>>
      /\ bus' = bus \cup {[kind |-> EventKind(call[r]), device |-> w, by |-> r] : w \in Target(r)}
      /\ \A e \in bus : e.by \in Requests
  BY DEF AnnouncedInv, DeviceInv, DeviceTypeOK, RequestStep, Send, Goto, documents, histories
<1>1. Announces(call[r]) /\ call[r] \in Calls
  BY <1>0, Acting DEF StageOK
<1>2. /\ \A q \in Requests : pc[q] = "closed" => pc'[q] = "closed"
      /\ pc'[r] = "closed" /\ \A q \in Requests : q # r => pc'[q] = pc[q]
      /\ Deleted(v)' <=> Deleted(v)
      /\ ~Deleting(r, v)'
      /\ \A q \in Requests : q # r => (Deleting(q, v)' <=> Deleting(q, v))
  BY <1>0 DEF Deleted, Deleting
<1>3. CASE call[r].op = "activate" /\ madeBy[v] = r
  <2>1. /\ EventsOf("CREATED", v)' =
             EventsOf("CREATED", v) \cup {[kind |-> "CREATED", device |-> v, by |-> r]}
        /\ EventsOf("DELETED", v)' = EventsOf("DELETED", v)
    BY <1>0, <1>3 DEF EventsOf, EventKind, Target
  <2>2. ~Deleting(r, v)
    BY <1>3 DEF Deleting
  <2>3. \A q \in Requests : Deleting(q, v)' <=> Deleting(q, v)
    BY <1>2, <2>2
  <2>4. \A e \in EventsOf("CREATED", v)' : e.by = madeBy[v] /\ pc'[e.by] = "closed"
    BY <1>0, <1>2, <1>3, <2>1 DEF AnnouncedOK, EventsOf
  <2>5. EventsOf("CREATED", v)' # {}
    BY <2>1
  <2> QED
    BY <1>0, <1>2, <2>1, <2>3, <2>4, <2>5 DEF AnnouncedOK
<1>4. CASE call[r].op = "delete" /\ call[r].device = v
  <2>1. /\ EventsOf("DELETED", v)' =
             EventsOf("DELETED", v) \cup {[kind |-> "DELETED", device |-> v, by |-> r]}
        /\ EventsOf("CREATED", v)' = EventsOf("CREATED", v)
    BY <1>0, <1>4 DEF EventsOf, EventKind, Target
  <2>2. Deleting(r, v)
    BY <1>0, <1>4 DEF Deleting
  <2>3. /\ EventsOf("DELETED", v) = {} /\ Deleted(v)
        /\ \A q \in Requests : Deleting(q, v) => q = r
    BY <1>0, <2>2 DEF AnnouncedOK
  <2>4. \A q \in Requests : ~Deleting(q, v)'
    BY <1>2, <2>3
  <2>5. madeBy[v] # Nobody => madeBy[v] \in Requests \ {r}
    BY <1>4, Makers
  <2>6. \A e \in EventsOf("CREATED", v)' : e.by = madeBy[v] /\ pc'[e.by] = "closed"
    BY <1>0, <1>2, <2>1 DEF AnnouncedOK, EventsOf
  <2>7. madeBy[v] # Nobody /\ pc'[madeBy[v]] = "closed" => v \in lost \/ EventsOf("CREATED", v)' # {}
    BY <1>0, <1>2, <2>1, <2>5 DEF AnnouncedOK
  <2>8. Deleted(v)' /\ EventsOf("DELETED", v)' = {[kind |-> "DELETED", device |-> v, by |-> r]}
    BY <1>2, <2>1, <2>3
  <2> QED
    BY <1>0, <2>4, <2>6, <2>7, <2>8 DEF AnnouncedOK
<1>5. CASE ~(call[r].op = "activate" /\ madeBy[v] = r) /\ ~(call[r].op = "delete" /\ call[r].device = v)
  <2>1. /\ EventsOf("CREATED", v)' = EventsOf("CREATED", v)
        /\ EventsOf("DELETED", v)' = EventsOf("DELETED", v)
    <3>1. ASSUME NEW e \in bus', e \notin bus, e.device = v PROVE e.kind = "UPDATED"
      <4>1. PICK w \in Target(r) : e = [kind |-> EventKind(call[r]), device |-> w, by |-> r]
        BY <1>0, <3>1
      <4>2. v \in Target(r) /\ e.kind = EventKind(call[r])
        BY <3>1, <4>1
      <4>3. call[r].op = "rename"
        BY <1>1, <1>5, <4>2 DEF Target, Announces
      <4> QED
        BY <4>2, <4>3 DEF EventKind
    <3> QED
      BY <1>0, <3>1 DEF EventsOf
  <2>2. ~Deleting(r, v)
    BY <1>5 DEF Deleting
  <2>3. madeBy[v] # Nobody => madeBy[v] \in Requests \ {r}
    BY <1>1, <1>5, Makers
  <2>4. \A q \in Requests : Deleting(q, v)' <=> Deleting(q, v)
    BY <1>2, <2>2
  <2>5. \A e \in EventsOf("CREATED", v) : e.by = madeBy[v] /\ pc'[e.by] = "closed"
    BY <1>0, <1>2 DEF AnnouncedOK, EventsOf
  <2>6. madeBy[v] # Nobody /\ pc'[madeBy[v]] = "closed" => v \in lost \/ EventsOf("CREATED", v) # {}
    BY <1>0, <1>2, <2>3 DEF AnnouncedOK
  <2> QED
    BY <1>0, <1>2, <2>1, <2>4, <2>5, <2>6 DEF AnnouncedOK
<1> QED
  BY <1>3, <1>4, <1>5

LEMMA AnnouncedFail ==
  ASSUME DeviceInv, [DeviceNext]_dcVars, AnnouncedInv, NEW r \in Requests, Fail(r), NEW v \in Devices
  PROVE  AnnouncedOK(v)'
<1>0. /\ AnnouncedOK(v) /\ DOMAIN pc = Requests /\ RequestStep(r)
      /\ pc' = [pc EXCEPT ![r] = "closed"] /\ UNCHANGED <<call, device, bus, madeBy>>
      /\ lost' = IF pc[r] \in {"tell", "send"} /\ Announces(call[r]) THEN lost \cup Target(r) ELSE lost
  BY DEF AnnouncedInv, DeviceInv, DeviceTypeOK, RequestStep, Fail, Goto, documents
<1>1. /\ \A q \in Requests : pc[q] = "closed" => pc'[q] = "closed"
      /\ \A q \in Requests : q # r => pc'[q] = pc[q]
      /\ lost \subseteq lost' /\ (Deleted(v)' <=> Deleted(v))
      /\ \A q \in Requests : Deleting(q, v)' => Deleting(q, v)
      /\ \A q \in Requests : q # r => (Deleting(q, v)' <=> Deleting(q, v))
  BY <1>0 DEF Deleted, Deleting
<1>2. Deleting(r, v) => v \in lost'
  BY <1>0 DEF Deleting, Announces, Target
<1>3. madeBy[v] # Nobody /\ pc'[madeBy[v]] = "closed" => v \in lost' \/ pc[madeBy[v]] = "closed"
  <2>1. CASE madeBy[v] = r
    <3>1. CASE madeBy[v] # Nobody
      <4>1. call[r].op = "activate" /\ pc[r] \in {"tell", "send", "closed"}
        BY <2>1, <3>1, Makers
      <4>2. pc[r] \in {"tell", "send"} => v \in lost'
        BY <1>0, <2>1, <4>1 DEF Announces, Target
      <4> QED
        BY <2>1, <4>1, <4>2
    <3> QED
      BY <3>1
  <2>2. CASE madeBy[v] # r
    BY <1>1, <2>2, Makers
  <2> QED
    BY <2>1, <2>2
<1> QED
  BY <1>0, <1>1, <1>2, <1>3, AnnouncedFrame

LEMMA AnnouncedCreate ==
  ASSUME DeviceInv, [DeviceNext]_dcVars, AnnouncedInv, NEW r \in Requests, Create(r), NEW v \in Devices
  PROVE  AnnouncedOK(v)'
<1>0. /\ AnnouncedOK(v) /\ DOMAIN pc = Requests /\ RequestStep(r) /\ pc[r] = "create"
      /\ DOMAIN device = Devices /\ DOMAIN madeBy = Devices
      /\ UNCHANGED <<call, bus, lost>> /\ call[r].op = "activate" /\ grant[r] \in Grants
      /\ call[r] \in Calls
      /\ \A w \in Devices : madeBy[w] # r
      /\ \A e \in bus : e.by \in Requests
  BY Created DEF AnnouncedInv, DeviceInv, DeviceTypeOK, RequestStep, Create
<1>1. /\ \A q \in Requests : q # r => pc'[q] = pc[q]
      /\ pc'[r] \in {"tell", "closed"}
  BY <1>0 DEF Create, Goto
<1>2. /\ \A q \in Requests : pc[q] = "closed" => pc'[q] = "closed"
      /\ \A q \in Requests : Deleting(q, v)' <=> Deleting(q, v)
  BY <1>0, <1>1 DEF Deleting
<1>3. CASE device'[v] = device[v] /\ madeBy'[v] = madeBy[v]
  <2>1. Deleted(v)' <=> Deleted(v)
    BY <1>3 DEF Deleted
  <2>2. madeBy[v] # Nobody /\ pc'[madeBy[v]] = "closed" => v \in lost' \/ pc[madeBy[v]] = "closed"
    BY <1>0, <1>1, Makers
  <2> QED
    BY <1>0, <1>2, <1>3, <2>1, <2>2, AnnouncedFrame
<1>4. CASE ~(device'[v] = device[v] /\ madeBy'[v] = madeBy[v])
  <2>1. /\ ~Known(v) /\ madeBy'[v] = r /\ pc'[r] = "tell"
        /\ device'[v] = NewDevice(grant[r].user, grant[r].domain, call[r].offer, call[r].name)
    BY <1>0, <1>4 DEF Create, Goto
  <2>2. device'[v].status = "live"
    BY <1>0, <2>1, CallFields, NewDeviceOK DEF Grants
  <2>3. ~Deleted(v) /\ ~Deleted(v)' /\ madeBy[v] = Nobody
    BY <2>1, <2>2 DEF Known, Deleted, DeviceInv, ActivationInv
  <2>4. EventsOf("CREATED", v) = {} /\ EventsOf("DELETED", v) = {}
    BY <1>0, <2>3, DeviceAssumption DEF AnnouncedOK, EventsOf
  <2>5. EventsOf("CREATED", v)' = {} /\ EventsOf("DELETED", v)' = {}
    BY <1>0, <2>4 DEF EventsOf
  <2>6. \A q \in Requests : ~Deleting(q, v)'
    BY <1>0, <1>2, <2>3 DEF AnnouncedOK
  <2> QED
    BY <2>1, <2>3, <2>5, <2>6 DEF AnnouncedOK
<1> QED
  BY <1>3, <1>4

LEMMA AnnouncedWrite ==
  ASSUME DeviceInv, [DeviceNext]_dcVars, AnnouncedInv, NEW r \in Requests, Write(r), NEW v \in Devices
  PROVE  AnnouncedOK(v)'
<1> DEFINE d == call[r].device
<1>0. /\ AnnouncedOK(v) /\ DOMAIN pc = Requests /\ RequestStep(r) /\ pc[r] = "write"
      /\ DOMAIN device = Devices /\ DocumentOK(device[v])
      /\ UNCHANGED <<call, bus, lost, madeBy>>
  BY DEF AnnouncedInv, DeviceInv, DeviceTypeOK, RequestStep, Write, histories
<1>1. call[r] \in Calls /\ call[r].op \in {"delete", "rename"} /\ d \in Devices
  BY <1>0, Acting, CallFields DEF StageOK
<1>2. /\ \A q \in Requests : q # r => pc'[q] = pc[q]
      /\ pc'[r] \in {"tell", "closed"}
  BY <1>0 DEF Write, Goto
<1>3. /\ \A q \in Requests : pc[q] = "closed" => pc'[q] = "closed"
      /\ \A q \in Requests : q # r => (Deleting(q, v)' <=> Deleting(q, v))
      /\ ~Deleting(r, v)
  BY <1>0, <1>2 DEF Deleting
<1>4. \A w \in Devices : madeBy[w] # r
  BY <1>1, Makers, DeviceAssumption
<1>5. madeBy[v] # Nobody /\ pc'[madeBy[v]] = "closed" => pc[madeBy[v]] = "closed"
  BY <1>2, <1>4, Makers
<1>6. CASE Live(d) /\ call[r].op = "delete" /\ d = v
  <2>1. /\ pc'[r] = "tell"
        /\ device' = [device EXCEPT ![v] = [device[v] EXCEPT !.status = "deleted"]]
    BY <1>0, <1>6 DEF Write, MarkDeleted, Goto
  <2>2. Deleted(v)' /\ ~Deleted(v)
    <3>1. device[v] # NoDevice
      BY <1>6 DEF Live, NoDevice
    <3> QED
      BY <1>0, <1>6, <2>1, <3>1, StatusWritten DEF Deleted, Live
  <2>3. /\ EventsOf("DELETED", v) = {} /\ EventsOf("DELETED", v)' = EventsOf("DELETED", v)
        /\ EventsOf("CREATED", v)' = EventsOf("CREATED", v)
        /\ \A q \in Requests : ~Deleting(q, v)
        /\ \A e \in EventsOf("CREATED", v) : e.by \in Requests
    BY <1>0, <2>2 DEF AnnouncedOK, EventsOf, DeviceInv, DeviceTypeOK
  <2>4. Deleting(r, v)' /\ \A q \in Requests : Deleting(q, v)' => q = r
    BY <1>0, <1>3, <1>6, <2>1, <2>3 DEF Deleting
  <2> QED
    BY <1>0, <1>3, <1>5, <2>2, <2>3, <2>4 DEF AnnouncedOK
<1>7. CASE ~(Live(d) /\ call[r].op = "delete" /\ d = v)
  <2>1. ~Deleting(r, v)'
    BY <1>0, <1>7 DEF Write, MarkDeleted, Deleting, Goto
  <2>2. Deleted(v)' <=> Deleted(v)
    <3>1. CASE device'[v] = device[v]
      BY <3>1 DEF Deleted
    <3>2. CASE device'[v] # device[v]
      <4>1. /\ Live(v) /\ d = v /\ call[r].op = "rename"
            /\ device' = [device EXCEPT ![v] = [device[v] EXCEPT !.name = call[r].name]]
        BY <1>0, <1>1, <1>7, <3>2 DEF Write, MarkDeleted, SetName
      <4>2. device[v] # NoDevice /\ call[r].name \in Names
        BY <1>1, <4>1, CallFields DEF Live, NoDevice
      <4> QED
        BY <1>0, <4>1, <4>2, NameWritten DEF Deleted
    <3> QED
      BY <3>1, <3>2
  <2> QED
    BY <1>0, <1>3, <1>5, <2>1, <2>2, AnnouncedFrame
<1> QED
  BY <1>6, <1>7

\* The other steps of a request send nothing and delete nothing.
LEMMA AnnouncedRest ==
  ASSUME DeviceInv, [DeviceNext]_dcVars, AnnouncedInv, NEW r \in Requests, NEW v \in Devices,
         \/ Begin(r) \/ CheckPermissions(r) \/ SetCode(r) \/ GetDel(r) \/ Find(r) \/ Save(r)
         \/ Publish(r) \/ Tell(r)
  PROVE  AnnouncedOK(v)'
<1>0. /\ AnnouncedOK(v) /\ DOMAIN pc = Requests /\ DOMAIN call = Requests /\ DOMAIN device = Devices
      /\ RequestStep(r) /\ UNCHANGED <<bus, lost, madeBy>> /\ pc[r] # "closed"
  BY OneActs DEF AnnouncedInv, DeviceInv, DeviceTypeOK, RequestStep, Begin, CheckPermissions, SetCode,
         GetDel, Find, Save, Publish, Tell, documents, histories
<1>1. StageOK(r) /\ call'[r] \in Calls /\ (pc[r] # "idle" => call'[r] = call[r])
  BY <1>0, Acting
<1>2. \A q \in Requests : q # r => pc'[q] = pc[q] /\ call'[q] = call[q]
  BY <1>0, OneActs
<1>3. \A q \in Requests : pc[q] = "closed" => pc'[q] = "closed"
  BY <1>0, <1>2
<1>4. Deleted(v)' <=> Deleted(v)
  <2>1. CASE device'[v] = device[v]
    BY <2>1 DEF Deleted
  <2>2. CASE device'[v] # device[v]
    <3>1. /\ Save(r)
          /\ device' = [device EXCEPT ![v] = [device[v] EXCEPT !.currentState =
                                                With(@, call[r].key, call[r].value)]]
      BY <1>0, <2>2 DEF Begin, CheckPermissions, SetCode, GetDel, Find, Save, Publish, Tell, documents
    <3>2. DOMAIN device[v] = DOMAIN NoDevice
      BY DEF DeviceInv, DeviceTypeOK, DocumentOK
    <3> QED
      BY <1>0, <3>1, <3>2 DEF Deleted, NoDevice
  <2> QED
    BY <2>1, <2>2
<1>5. Deleting(r, v)' <=> Deleting(r, v)
  <2>1. CASE Begin(r)
    <3>1. pc[r] = "idle" /\ pc'[r] = FirstStage(call'[r])
      BY <1>0, <2>1 DEF Begin, Goto
    <3>2. pc'[r] \notin {"tell", "send"}
      BY <1>1, <3>1, CallFields DEF FirstStage
    <3> QED
      BY <3>1, <3>2 DEF Deleting
  <2>2. CASE Tell(r)
    BY <1>0, <2>2 DEF Tell, Deleting, Goto, Announces
  <2>3. CASE CheckPermissions(r) \/ SetCode(r) \/ GetDel(r) \/ Find(r) \/ Save(r) \/ Publish(r)
    <3>1. pc[r] \in {"perms", "setCode", "getDel", "find", "save", "publish"} /\ call'[r] = call[r]
      BY <2>3 DEF CheckPermissions, SetCode, GetDel, Find, Save, Publish
    <3>2. pc'[r] \notin {"tell", "send"} \/ call[r].op # "delete"
      BY <1>0, <1>1, <2>3 DEF CheckPermissions, SetCode, GetDel, Find, Save, Publish, Goto, StageOK,
                              SetsValue
    <3> QED
      BY <3>1, <3>2 DEF Deleting
  <2> QED
    BY <2>1, <2>2, <2>3
<1>6. \A q \in Requests : Deleting(q, v)' <=> Deleting(q, v)
  BY <1>2, <1>5 DEF Deleting
<1>7. madeBy[v] # Nobody /\ pc'[madeBy[v]] = "closed" => pc[madeBy[v]] = "closed"
  <2>1. CASE madeBy[v] = r /\ madeBy[v] # Nobody
    <3>1. pc[r] \in {"tell", "send"} /\ call[r].op = "activate"
      BY <1>0, <2>1, Makers
    <3>2. Tell(r) /\ pc'[r] = "send"
      BY <1>0, <3>1 DEF Begin, CheckPermissions, SetCode, GetDel, Find, Save, Publish, Tell, Goto,
                        Announces
    <3> QED
      BY <2>1, <3>2
  <2>2. CASE madeBy[v] # r
    BY <1>2, <2>2, Makers
  <2> QED
    BY <2>1, <2>2
<1> QED
  BY <1>0, <1>3, <1>4, <1>6, <1>7, AnnouncedFrame

LEMMA AnnouncedStep ==
  ASSUME DeviceInv, [DeviceNext]_dcVars, AnnouncedInv
  PROVE  AnnouncedInv'
<1> SUFFICES ASSUME NEW v \in Devices PROVE AnnouncedOK(v)'
  BY DEF AnnouncedInv
<1>1. CASE \E r \in Requests : RequestStep(r)
  BY <1>1, AnnouncedSend, AnnouncedFail, AnnouncedCreate, AnnouncedWrite, AnnouncedRest DEF RequestStep
<1>2. CASE ~\E r \in Requests : RequestStep(r)
  <2>1. UNCHANGED <<call, pc, device, bus, madeBy, lost>>
    BY <1>2 DEF DeviceNext, DeviceStep, Expire, RoleChanges, dcVars, documents, histories
  <2>2. AnnouncedOK(v) /\ (Deleted(v)' <=> Deleted(v))
        /\ \A q \in Requests : Deleting(q, v)' <=> Deleting(q, v)
    BY <2>1 DEF AnnouncedInv, Deleted, Deleting
  <2> QED
    BY <2>1, <2>2, AnnouncedFrame
<1> QED
  BY <1>1, <1>2

-----------------------------------------------------------------------------
(* Theorems *)

LEMMA InitInv == DeviceInit => DeviceInv
<1> SUFFICES ASSUME DeviceInit PROVE DeviceInv
  OBVIOUS
<1>1. PICK earlier \in SUBSET Devices, u \in Users, d \in Domains, n \in Names,
             offer \in {o \in Offers : Acceptable(o)} :
        device = [v \in Devices |-> IF v \in earlier THEN NewDevice(u, d, offer, n) ELSE NoDevice]
  BY DEF DeviceInit
<1>2. \A v \in Devices : DocumentOK(device[v])
  BY <1>1, NewDeviceOK DEF DocumentOK
<1>3. DeviceTypeOK
  BY <1>1, <1>2, DeviceAssumption DEF DeviceInit, DeviceTypeOK
<1>4. StatesFitTheirCapabilities
  <2>1. ASSUME NEW v \in Devices, Known(v), NEW k \in DOMAIN device[v].capabilities
        PROVE  VerifyCapabilityValue(device[v].capabilities[k], device[v].currentState[k])
    <3>1. device[v] = NewDevice(u, d, offer, n)
      BY <1>1, <2>1 DEF Known, NoDevice
    <3>2. device[v].capabilities = offer /\ device[v].currentState = CreateCurrentState(offer)
      BY <3>1, NewDeviceOK
    <3> QED
      BY <1>1, <2>1, <3>2, NewStateFits
  <2> QED
    BY <2>1 DEF StatesFitTheirCapabilities
<1>5. StageInv
  BY DEF DeviceInit, StageInv, StageOK, NoCall
<1>6. CodeInv /\ ActivationInv
  BY DEF DeviceInit, CodeInv, ActivationInv, NoCall
<1>7. PairedByManagers /\ UnlinkedOnlyIfGone
  BY DEF DeviceInit, PairedByManagers, UnlinkedOnlyIfGone
<1> QED
  BY <1>3, <1>4, <1>5, <1>6, <1>7 DEF DeviceInv

\* The invariant the results below follow from.
THEOREM InductiveInvariant == DeviceSpec => []DeviceInv
<1>1. DeviceInv /\ [DeviceNext]_dcVars => DeviceInv'
  <2> SUFFICES ASSUME DeviceInv, [DeviceNext]_dcVars PROVE DeviceInv'
    OBVIOUS
  <2> QED
    BY TypeStep, StageStep, CodeStep, ActivationStep, PairedStep, FitStep, UnlinkedStep
    DEF DeviceInv
<1> QED
  BY InitInv, <1>1, PTL DEF DeviceSpec

\* Every variable of the device control service keeps its type.
THEOREM TypeCorrect == DeviceSpec => []DeviceTypeOK
<1>1. DeviceInv => DeviceTypeOK
  BY DEF DeviceInv
<1> QED
  BY <1>1, InductiveInvariant, PTL

\* A value in the state of a device is always one that its capability allows.
THEOREM StatesFitTheirCapabilitiesAlways == DeviceSpec => []StatesFitTheirCapabilities
<1>1. DeviceInv => StatesFitTheirCapabilities
  BY DEF DeviceInv
<1> QED
  BY <1>1, InductiveInvariant, PTL

\* A pairing code, however many devices present it at once, pairs one of them.
THEOREM OneDevicePerCodeAlways == DeviceSpec => []OneDevicePerCode
<1>1. DeviceInv => OneDevicePerCode
  BY DEF DeviceInv, OneDevicePerCode, ActivationInv, CodeInv, DeviceTypeOK
<1> QED
  BY <1>1, InductiveInvariant, PTL

\* A device belongs to the domain and the user of its code, who managed the domain
\* after the device had presented it.
THEOREM PairedByManagersAlways == DeviceSpec => []PairedByManagers
<1>1. DeviceInv => PairedByManagers
  BY DEF DeviceInv
<1> QED
  BY <1>1, InductiveInvariant, PTL

\* No device is told that it is unlinked while it exists.
THEOREM UnlinkedOnlyIfGoneAlways == DeviceSpec => []UnlinkedOnlyIfGone
<1>1. DeviceInv => UnlinkedOnlyIfGone
  BY DEF DeviceInv
<1> QED
  BY <1>1, InductiveInvariant, PTL

\* No request, however late its write, brings a deleted device back.
THEOREM DeletedStaysDeletedAlways == DeviceSpec => DeletedStaysDeleted
<1>1. DeviceInv /\ [DeviceNext]_dcVars
        => [\A v \in Devices : Deleted(v) => Description(device[v]) = Description(device'[v])]_dcVars
  BY DocumentsKept DEF Kept
<1> QED
  BY <1>1, InductiveInvariant, PTL DEF DeviceSpec, DeletedStaysDeleted

\* Where document and device differ, the one request that sets a value is midway.
THEOREM TwinInvariant == DeviceSpec => []TwinInv
<1>1. DeviceInit => TwinInv
  BY DEF DeviceInit, TwinInv, TwinOK, Setting, Midway, Open, Stages
<1>2. DeviceInv /\ TwinInv /\ [DeviceNext]_dcVars => TwinInv'
  BY TwinStep
<1> QED
  BY <1>1, <1>2, InductiveInvariant, PTL DEF DeviceSpec

\* The document of a live device says what the device has, once nobody is setting a
\* value, unless two messages overlapped, one failed or a report was refused.
THEOREM TwinInSyncAlways == DeviceSpec => []TwinInSync
<1>1. TwinInv => TwinInSync
  BY DEF TwinInv, TwinOK, TwinInSync, BeingSet, Midway, Agree
<1> QED
  BY <1>1, TwinInvariant, PTL

\* What the other services were told of creations and deletions is what happened.
THEOREM AnnouncedInvariant == DeviceSpec => []AnnouncedInv
<1>1. DeviceInit => AnnouncedInv
  <2> SUFFICES ASSUME DeviceInit, NEW v \in Devices PROVE AnnouncedOK(v)
    BY DEF AnnouncedInv
  <2>1. ~Deleted(v)
    <3>1. PICK earlier \in SUBSET Devices, u \in Users, d \in Domains, n \in Names,
               offer \in {o \in Offers : Acceptable(o)} :
            device = [w \in Devices |-> IF w \in earlier THEN NewDevice(u, d, offer, n) ELSE NoDevice]
      BY DEF DeviceInit
    <3> QED
      BY <3>1, NewDeviceOK DEF Deleted, NoDevice
  <2>2. EventsOf("CREATED", v) = {} /\ EventsOf("DELETED", v) = {} /\ madeBy[v] = Nobody
    BY DEF DeviceInit, EventsOf
  <2>3. \A q \in Requests : ~Deleting(q, v)
    BY DEF DeviceInit, Deleting
  <2> QED
    BY <2>1, <2>2, <2>3 DEF AnnouncedOK
<1>2. DeviceInv /\ AnnouncedInv /\ [DeviceNext]_dcVars => AnnouncedInv'
  BY AnnouncedStep
<1> QED
  BY <1>1, <1>2, InductiveInvariant, PTL DEF DeviceSpec

\* Once all requests have ended, every creation and every deletion has been announced
\* exactly once, but for those that a failure cut off from their event.
THEOREM QuietMeansAnnouncedAlways == DeviceSpec => []QuietMeansAnnounced
<1>1. DeviceInv /\ AnnouncedInv => QuietMeansAnnounced
  <2> SUFFICES ASSUME DeviceInv, AnnouncedInv, Quiet, NEW v \in Devices \ lost
               PROVE  /\ Cardinality(EventsOf("CREATED", v)) = IF madeBy[v] # Nobody THEN 1 ELSE 0
                      /\ Cardinality(EventsOf("DELETED", v)) = IF Deleted(v) THEN 1 ELSE 0
    BY DEF QuietMeansAnnounced
  <2>0. /\ AnnouncedOK(v) /\ \A r \in Requests : ~Deleting(r, v)
        /\ bus \subseteq [kind : {"CREATED", "DELETED", "UPDATED"}, device : Devices, by : Requests]
    BY DEF AnnouncedInv, Quiet, Open, Stages, Deleting, DeviceInv, DeviceTypeOK
  <2>1. Cardinality(EventsOf("CREATED", v)) = IF madeBy[v] # Nobody THEN 1 ELSE 0
    <3>1. CASE madeBy[v] # Nobody
      <4>1. pc[madeBy[v]] = "closed"
        BY <3>1, Makers DEF Quiet, Open, Stages
      <4>2. PICK e \in EventsOf("CREATED", v) : TRUE
        BY <2>0, <3>1, <4>1 DEF AnnouncedOK
      <4>3. EventsOf("CREATED", v) = {e}
        BY <2>0 DEF AnnouncedOK, EventsOf
      <4> QED
        BY <3>1, <4>3, FS_Singleton
    <3>2. CASE madeBy[v] = Nobody
      <4>1. EventsOf("CREATED", v) = {}
        BY <2>0, <3>2, DeviceAssumption DEF AnnouncedOK, EventsOf
      <4> QED
        BY <3>2, <4>1, FS_EmptySet
    <3> QED
      BY <3>1, <3>2
  <2>2. Cardinality(EventsOf("DELETED", v)) = IF Deleted(v) THEN 1 ELSE 0
    <3>1. CASE Deleted(v)
      <4>1. PICK e \in EventsOf("DELETED", v) : TRUE
        BY <2>0, <3>1 DEF AnnouncedOK
      <4>2. EventsOf("DELETED", v) = {e}
        BY <2>0, <4>1 DEF AnnouncedOK
      <4> QED
        BY <3>1, <4>2, FS_Singleton
    <3>2. CASE ~Deleted(v)
      <4>1. EventsOf("DELETED", v) = {}
        BY <2>0, <3>2 DEF AnnouncedOK
      <4> QED
        BY <3>2, <4>1, FS_EmptySet
    <3> QED
      BY <3>1, <3>2
  <2> QED
    BY <2>1, <2>2
<1> QED
  BY <1>1, InductiveInvariant, AnnouncedInvariant, PTL

=============================================================================
