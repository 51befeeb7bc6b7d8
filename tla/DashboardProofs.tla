-------------------------- MODULE DashboardProofs --------------------------
(***************************************************************************)
(* Proofs about Dashboard, for all users, devices, codes, capabilities and *)
(* values, any number of requests, dashboards and messages.  The dashboards*)
(* use the service as it is, so what DeviceControlProofs shows of it holds *)
(* here too; a dashboard that has heard everything lists the devices the   *)
(* domain has, with the values that were reported.                         *)
(***************************************************************************)
EXTENDS Dashboard, DeviceControlProofs

-----------------------------------------------------------------------------
(* What the service does below the dashboards *)

\* What is done from a dashboard, and what it is shown, are steps of the service.
LEMMA ServiceSteps == [DashboardNext]_allVars => [DeviceNext]_dcVars
BY DEF DashboardNext, DashboardStep, DeviceNext, allVars, Turn, Edit, AskForDevices, CheckMember,
       FindDevices, DevicesArrive, RequestFails, Receive, Disconnect, Connect, EditFails,
       DeleteDone, RenameDone, Answered

\* A request that tells the dashboards something, and what it tells them.
LEMMA Told ==
  ASSUME DeviceInv, MadeInv, NEW r \in Requests, pc[r] = "tell"
  PROVE  /\ call[r] \in Calls /\ Message(r) \in Messages
         /\ Message(r).device \in Devices /\ Known(Message(r).device)
         /\ call[r].op \in {"activate", "delete", "rename", "control", "telemetry", "status"}
         /\ call[r].op = "activate" =>
              LET v == Message(r).device
              IN  /\ madeBy[v] = r /\ device[v].domainId = Room(r)
                  /\ Message(r).event = "DEVICE_ADDED"
                  /\ Message(r).document.currentState = CreateCurrentState(device[v].capabilities)
         /\ call[r].op # "activate" => Message(r).device = call[r].device
         /\ call[r].op \in {"delete", "telemetry"} => Room(r) = device[call[r].device].domainId
         /\ Message(r).event = "DEVICE_ADDED" => call[r].op = "activate"
         /\ Message(r).event = "DEVICE_REMOVED" <=> call[r].op = "delete"
         /\ Message(r).event = "DEVICE_UPDATED" => call[r].op = "control"
         /\ Message(r).event = "DEVICE_TELEMETRY" <=> call[r].op = "telemetry"
         /\ call[r].op = "telemetry" => Message(r).key = call[r].key /\ Message(r).value = call[r].value
<1>1. /\ call[r] \in Calls /\ StageOK(r)
      /\ call[r].op \in {"activate", "delete", "rename", "control", "telemetry", "status"}
  <2>1. call[r] \in Calls \cup {NoCall} /\ StageOK(r) /\ call[r].op # "pair"
    BY DEF DeviceInv, DeviceTypeOK, StageInv, MadeInv
  <2>2. call[r] # NoCall
    BY <2>1 DEF StageOK
  <2> QED
    BY <2>1, <2>2, CallFields
<1>2. CASE call[r].op = "activate"
  <2>1. PICK v \in Devices : madeBy[v] = r
    BY <1>2 DEF MadeInv
  <2>2. /\ Known(v) /\ grant[r] \in Grants /\ device[v].domainId = grant[r].domain
        /\ \A w \in Devices : madeBy[w] = r => w = v
        /\ device[v].capabilities = call[r].offer
    BY <2>1, DeviceAssumption DEF DeviceInv, ActivationInv, PairedByManagers, DeviceTypeOK, MadeInv
  <2>3. (CHOOSE w \in Devices : madeBy[w] = r) = v
    BY <2>1, <2>2
  <2>4. Message(r) = [event |-> "DEVICE_ADDED", device |-> v,
                      document |-> NewDevice(grant[r].user, grant[r].domain, call[r].offer, call[r].name)]
    BY <1>2, <2>3 DEF Message
  <2>5. /\ call[r].offer \in Offers /\ call[r].name \in Names
        /\ grant[r].user \in Users /\ grant[r].domain \in Domains
    BY <1>1, <1>2, <2>2, CallFields DEF Grants
  <2>6. Message(r).document.currentState = CreateCurrentState(call[r].offer)
    BY <2>4, <2>5, NewDeviceOK
  <2>7. Message(r) \in Messages
    BY <2>4, <2>5 DEF Messages
  <2> QED
    BY <1>1, <1>2, <2>1, <2>2, <2>4, <2>6, <2>7 DEF Room
<1>3. CASE call[r].op # "activate"
  <2>1. /\ call[r].device \in Devices /\ Known(call[r].device)
        /\ call[r].op = "status" => call[r].online \in BOOLEAN
        /\ call[r].op \in {"control", "telemetry"} => call[r].key \in Keys /\ call[r].value \in Values
        /\ call[r].op = "control" => call[r].user \in Users
    BY <1>1, <1>3 DEF StageOK, Calls, PairCalls, ActivateCalls, DeleteCalls, RenameCalls,
                      ControlCalls, TelemetryCalls, StatusCalls
  <2>2. CASE call[r].op = "delete"
    BY <1>1, <2>1, <2>2 DEF Message, Messages, Room
  <2>3. CASE call[r].op = "rename"
    BY <1>1, <2>1, <2>3 DEF Message, Messages, Room
  <2>4. CASE call[r].op = "control"
    BY <1>1, <2>1, <2>4 DEF Message, Messages, Room
  <2>5. CASE call[r].op = "telemetry"
    BY <1>1, <2>1, <2>5 DEF Message, Messages, Room
  <2>6. CASE call[r].op = "status"
    BY <1>1, <2>1, <2>6 DEF Message, Messages, Room
  <2> QED
    BY <1>1, <1>3, <2>2, <2>3, <2>4, <2>5, <2>6
<1> QED
  BY <1>2, <1>3

\* The room of the domain is told one thing after the other.
LEMMA LogStep ==
  ASSUME DeviceInv, MadeInv, DashboardTypeOK, [DeviceNext]_dcVars
  PROVE  /\ DOMAIN emitted' = Domains /\ Log' \in Seq(Messages)
         /\ Len(Log) <= Len(Log') /\ \A i \in DOMAIN Log : Log'[i] = Log[i]
         /\ \/ Log' = Log /\ \A r \in Requests : Tell(r) => Room(r) # Home
            \/ \E r \in Requests :
                 /\ Tell(r) /\ Room(r) = Home /\ DOMAIN Log' = DOMAIN Log \cup {Len(Log')}
                 /\ Len(Log') = Len(Log) + 1 /\ Log'[Len(Log')] = Message(r)
<1>0. DOMAIN emitted = Domains /\ Log \in Seq(Messages) /\ Home \in Domains
  BY DashboardAssumption DEF DashboardTypeOK
<1>1. CASE \E r \in Requests : Tell(r) /\ Room(r) = Home
  <2>1. PICK r \in Requests : Tell(r) /\ Room(r) = Home
    BY <1>1
  <2>2. emitted' = [emitted EXCEPT ![Home] = Append(@, Message(r))] /\ Message(r) \in Messages
    BY <2>1, Told DEF Tell
  <2>3. DOMAIN emitted' = Domains /\ Log' = Append(Log, Message(r))
    BY <1>0, <2>2 DEF Log
  <2> QED
    BY <1>0, <2>1, <2>2, <2>3
<1>2. CASE ~\E r \in Requests : Tell(r) /\ Room(r) = Home
  <2>1. DOMAIN emitted' = DOMAIN emitted /\ emitted'[Home] = emitted[Home]
    <3>1. CASE \E r \in Requests : Tell(r)
      <4>1. PICK r \in Requests : Tell(r)
        BY <3>1
      <4>2. Room(r) # Home /\ emitted' = [emitted EXCEPT ![Room(r)] = Append(@, Message(r))]
        BY <1>2, <4>1 DEF Tell
      <4> QED
        BY <1>0, <4>2
    <3>2. CASE ~\E r \in Requests : Tell(r)
      BY <3>2 DEF DeviceNext, DeviceStep, RequestStep, dcVars, Begin, CheckPermissions, SetCode, GetDel,
                  Create, Find, Save, Publish, Write, Send, Fail, Expire, RoleChanges
    <3> QED
      BY <3>1, <3>2
  <2> QED
    BY <1>0, <1>2, <2>1 DEF Log
<1> QED
  BY <1>1, <1>2

\* What a step of the service leaves as it is.
LEMMA Lasting ==
  ASSUME DeviceInv, [DeviceNext]_dcVars
  PROVE  /\ lost \subseteq lost' /\ shaky \subseteq shaky' /\ bus \subseteq bus'
         /\ \A r \in Requests : call[r] # NoCall => call'[r] = call[r]
         /\ \A v \in Devices :
              /\ Known(v) => /\ Known(v)' /\ madeBy'[v] = madeBy[v]
                             /\ device'[v].domainId = device[v].domainId
                             /\ device'[v].capabilities = device[v].capabilities
              /\ Deleted(v) => Deleted(v)'
              /\ HasToken(v) => HasToken(v)'
              /\ Controlled(v) => Controlled(v)'
              /\ Here(v)' => Here(v) \/ ~Known(v)
<1>1. lost \subseteq lost' /\ shaky \subseteq shaky' /\ bus \subseteq bus'
  BY Writers DEF Begin, Find, Tell, Fail, Send, histories
<1>2. ASSUME NEW r \in Requests, call[r] # NoCall PROVE call'[r] = call[r]
  <2>1. CASE UNCHANGED call
    BY <2>1
  <2>2. CASE \E q \in Requests : Begin(q)
    <3>1. PICK q \in Requests : Begin(q)
      BY <2>2
    <3>2. RequestStep(q) /\ pc[q] = "idle" /\ StageOK(q) /\ DOMAIN call = Requests
      BY <3>1 DEF RequestStep, Begin, DeviceInv, StageInv, DeviceTypeOK
    <3>3. call' = [call EXCEPT ![q] = call'[q]] /\ q # r
      BY <1>2, <3>2, OneActs DEF StageOK
    <3> QED
      BY <3>2, <3>3
  <2> QED
    BY <2>1, <2>2, Writers
<1>3. ASSUME NEW v \in Devices, Known(v)
      PROVE  /\ Known(v)' /\ madeBy'[v] = madeBy[v]
             /\ device'[v].domainId = device[v].domainId
             /\ device'[v].capabilities = device[v].capabilities
             /\ Deleted(v) => Deleted(v)'
             /\ Live(v)' => Live(v)
  <2>1. Kept(v) /\ DocumentOK(device[v])
    BY DocumentsKept DEF DeviceInv, DeviceTypeOK
  <2>2. madeBy'[v] = madeBy[v]
    <3>1. CASE UNCHANGED madeBy
      BY <3>1
    <3>2. CASE \E r \in Requests : Create(r)
      BY <1>3, <3>2, Created DEF DeviceInv, DeviceTypeOK
    <3> QED
      BY <3>1, <3>2, Writers
  <2> QED
    BY <1>3, <2>1, <2>2 DEF Kept, Known, Deleted, Live, DocumentOK, NoDevice
<1>4. ASSUME NEW v \in Devices, Deleted(v) PROVE Known(v)
  BY <1>4 DEF Known, Deleted
<1>5. ASSUME NEW v \in Devices, HasToken(v) PROVE HasToken(v)'
  BY <1>1, <1>3, <1>5 DEF HasToken
<1>6. ASSUME NEW v \in Devices, Controlled(v) PROVE Controlled(v)'
  BY <1>2, <1>6 DEF Controlled, NoCall
<1>7. ASSUME NEW v \in Devices, Here(v)' PROVE Here(v) \/ ~Known(v)
  BY <1>3, <1>7 DEF Here
<1> QED
  BY <1>1, <1>2, <1>3, <1>4, <1>5, <1>6, <1>7

\* A request comes to have something to tell.
LEMMA Speaking ==
  ASSUME DeviceInv, [DeviceNext]_dcVars, NEW r \in Requests, pc'[r] = "tell", pc[r] # "tell"
  PROVE  /\ call'[r] = call[r] /\ call[r] \in Calls
         /\ \/ Create(r) /\ call[r].op = "activate"
            \/ Find(r) /\ call[r].op = "status"
            \/ Save(r) /\ call[r].op = "telemetry"
            \/ Publish(r) /\ call[r].op = "control"
            \/ Write(r) /\ call[r].op \in {"delete", "rename"}
<1>1. PICK q \in Requests : RequestStep(q)
  BY Writers
<1>2. q = r
  BY <1>1, OneActs DEF DeviceInv, DeviceTypeOK
<1>3. RequestStep(r) /\ StageOK(r) /\ call'[r] \in Calls /\ DOMAIN pc = Requests
  BY <1>1, <1>2, Acting DEF DeviceInv, DeviceTypeOK
<1>4. ~Begin(r)
  <2>1. Begin(r) => pc'[r] = FirstStage(call'[r])
    BY <1>3 DEF Begin, Goto, DeviceInv, DeviceTypeOK
  <2>2. FirstStage(call'[r]) # "tell"
    BY <1>3, CallFields DEF FirstStage
  <2> QED
    BY <2>1, <2>2
<1>5. pc[r] # "idle" /\ call'[r] = call[r] /\ call[r] \in Calls
  BY <1>3, <1>4, Acting
<1>6. \/ Create(r) \/ Publish(r) \/ Write(r)
      \/ Find(r) /\ call[r].op = "status"
      \/ Save(r) /\ call[r].op # "control"
  <2>1. Find(r) => call[r].op = "status"
    BY <1>3 DEF Find, Goto
  <2>2. Save(r) => call[r].op # "control"
    BY <1>3 DEF Save, Goto
  <2>3. ~CheckPermissions(r) /\ ~SetCode(r) /\ ~GetDel(r)
    BY <1>3 DEF CheckPermissions, SetCode, GetDel, Goto
  <2>4. ~Tell(r) /\ ~Send(r) /\ ~Fail(r)
    BY <1>3 DEF Tell, Send, Fail, Goto
  <2> QED
    BY <1>3, <1>4, <2>1, <2>2, <2>3, <2>4 DEF RequestStep
<1> QED
  BY <1>3, <1>5, <1>6 DEF StageOK, Create, Save, Publish, Write, SetsValue

\* Nobody creates a device a second time, and the maker of one does not tell of it twice.
LEMMA MakersTellOnce ==
  ASSUME DeviceInv, [DeviceNext]_dcVars, NEW v \in Devices, madeBy[v] # Nobody
  PROVE  /\ madeBy'[v] = madeBy[v] /\ call'[madeBy[v]] = call[madeBy[v]]
         /\ pc[madeBy[v]] # "tell" => pc'[madeBy[v]] # "tell"
<1>1. Known(v) /\ madeBy[v] \in Requests /\ call[madeBy[v]].op = "activate"
      /\ pc[madeBy[v]] \in {"tell", "send", "closed"}
  BY Makers DEF DeviceInv, ActivationInv
<1>2. call'[madeBy[v]] = call[madeBy[v]] /\ madeBy'[v] = madeBy[v]
  BY <1>1, Lasting DEF NoCall
<1>3. ASSUME pc[madeBy[v]] # "tell", pc'[madeBy[v]] = "tell" PROVE FALSE
  <2>1. Create(madeBy[v])
    BY <1>1, <1>3, Speaking
  <2> QED
    BY <1>1, <2>1, Created
<1> QED
  BY <1>2, <1>3

\* What requests made, sent and may tell stays as MadeInv says.
LEMMA MadeStep ==
  ASSUME DeviceInv, MadeInv, [DeviceNext]_dcVars
  PROVE  MadeInv'
<1>0. /\ DOMAIN device = Devices /\ DOMAIN madeBy = Devices /\ DOMAIN pc = Requests
      /\ bus \subseteq [kind : {"CREATED", "DELETED", "UPDATED"}, device : Devices, by : Requests]
      /\ \A v \in Devices : madeBy[v] \in Requests \cup {Nobody} /\ DocumentOK(device[v])
      /\ StageInv /\ StageInv'
  BY StageStep DEF DeviceInv, DeviceTypeOK
<1>1. ASSUME NEW r \in Requests, (call[r].op = "activate" /\ pc[r] \in {"tell", "send"})'
      PROVE  \E v \in Devices : madeBy'[v] = r
  <2>1. CASE call[r].op = "activate" /\ pc[r] \in {"tell", "send"}
    <3>1. PICK v \in Devices : madeBy[v] = r
      BY <2>1 DEF MadeInv
    <3> QED
      BY <3>1, MakersTellOnce, DeviceAssumption
  <2>2. CASE ~(call[r].op = "activate" /\ pc[r] \in {"tell", "send"})
    <3>1. PICK q \in Requests : RequestStep(q)
      BY <1>1, <2>2, Writers
    <3>2. q = r
      <4>1. CASE pc'[r] = pc[r] /\ call'[r] = call[r]
        BY <1>1, <2>2, <4>1
      <4>2. CASE ~(pc'[r] = pc[r] /\ call'[r] = call[r])
        BY <1>0, <3>1, <4>2, OneActs DEF DeviceInv, DeviceTypeOK
      <4> QED
        BY <4>1, <4>2
    <3>3. CASE pc[r] = "tell"
      <4>1. pc[r] # "idle" /\ call'[r] = call[r]
        BY <3>1, <3>2, <3>3, Acting
      <4> QED
        BY <1>1, <2>2, <3>3, <4>1
    <3>4. CASE pc'[r] = "tell" /\ pc[r] # "tell"
      <4>1. Create(r)
        BY <1>1, <3>4, Speaking
      <4>2. PICK v \in Devices : madeBy' = [madeBy EXCEPT ![v] = r]
        BY <1>0, <3>4, <4>1 DEF Create, Goto
      <4> QED
        BY <1>0, <4>2
    <3>5. CASE pc'[r] = "send" /\ pc[r] # "tell"
      <4>1. Begin(r)
        <5>1. ~Tell(r)
          BY <3>5 DEF Tell
        <5>2. ~CheckPermissions(r) /\ ~SetCode(r) /\ ~GetDel(r) /\ ~Create(r)
          BY <1>0, <3>5 DEF CheckPermissions, SetCode, GetDel, Create, Goto
        <5>3. ~Find(r) /\ ~Save(r) /\ ~Publish(r) /\ ~Write(r)
          BY <1>0, <3>5 DEF Find, Save, Publish, Write, Goto
        <5>4. ~Send(r) /\ ~Fail(r)
          BY <1>0, <3>5 DEF Send, Fail, Goto
        <5> QED
          BY <3>1, <3>2, <5>1, <5>2, <5>3, <5>4 DEF RequestStep
      <4>2. PICK c \in Calls : pc' = [pc EXCEPT ![r] = FirstStage(c)]
        BY <4>1 DEF Begin, Goto
      <4>3. FirstStage(c) # "send"
        BY CallFields DEF FirstStage
      <4> QED
        BY <1>0, <3>5, <4>2, <4>3
    <3> QED
      BY <1>1, <3>3, <3>4, <3>5
  <2> QED
    BY <2>1, <2>2
<1>2. ASSUME NEW v \in Devices, madeBy'[v] # Nobody
      PROVE  device'[v].capabilities = call'[madeBy'[v]].offer
  <2>1. CASE madeBy[v] # Nobody
    <3>1. Known(v) /\ device[v].capabilities = call[madeBy[v]].offer
      BY <2>1 DEF MadeInv, DeviceInv, ActivationInv
    <3>2. madeBy'[v] = madeBy[v] /\ call'[madeBy[v]] = call[madeBy[v]]
      BY <2>1, MakersTellOnce
    <3> QED
      BY <3>1, <3>2, Lasting
  <2>2. CASE madeBy[v] = Nobody
    <3>1. PICK r \in Requests : Create(r)
      BY <1>2, <2>2, Writers
    <3>2. /\ call[r] \in Calls /\ call[r].op = "activate" /\ grant[r] \in Grants
          /\ call' = call
      BY <3>1, Created DEF Create
    <3>3. PICK w \in Devices :
            /\ device' = [device EXCEPT ![w] =
                 NewDevice(grant[r].user, grant[r].domain, call[r].offer, call[r].name)]
            /\ madeBy' = [madeBy EXCEPT ![w] = r]
      BY <1>2, <2>2, <3>1, Created
    <3>4. w = v /\ madeBy'[v] = r
      BY <1>0, <1>2, <2>2, <3>3
    <3>5. device'[v] = NewDevice(grant[r].user, grant[r].domain, call[r].offer, call[r].name)
      BY <1>0, <3>3, <3>4
    <3>6. device'[v].capabilities = call[r].offer
      BY <3>2, <3>5, CallFields, NewDeviceOK DEF Grants
    <3> QED
      BY <3>2, <3>4, <3>6
  <2> QED
    BY <2>1, <2>2
<1> DEFINE Whole(v) ==
      device[v].currentState = [k \in DOMAIN device[v].capabilities |-> device[v].currentState[k]]
<1>3. ASSUME NEW v \in Devices, Known(v)' PROVE Whole(v)'
  <2>1. CASE UNCHANGED device[v]
    BY <1>3, <2>1 DEF MadeInv, Known
  <2>2. CASE device'[v] # device[v]
    <3>1. PICK r \in Requests : Create(r) \/ Save(r) \/ Write(r)
      BY <2>2, Writers
    <3>2. CASE Create(r)
      <4>1. /\ call[r] \in Calls /\ call[r].op = "activate" /\ grant[r] \in Grants
        BY <3>2, Created
      <4>2. device'[v] = NewDevice(grant[r].user, grant[r].domain, call[r].offer, call[r].name)
        BY <1>0, <2>2, <3>2, Created
      <4>3. device'[v].capabilities = call[r].offer
            /\ device'[v].currentState = CreateCurrentState(call[r].offer)
        BY <4>1, <4>2, CallFields, NewDeviceOK DEF Grants
      <4> QED
        BY <4>3 DEF CreateCurrentState
    <3>3. CASE Save(r)
      <4>1. device' = [device EXCEPT ![call[r].device] =
              [device[call[r].device] EXCEPT !.currentState = With(@, call[r].key, call[r].value)]]
        BY <3>3 DEF Save
      <4>2. call[r].device = v
        BY <1>0, <2>2, <4>1
      <4>3. Known(v) /\ call[r].key \in DOMAIN device[v].capabilities
        BY <1>0, <3>3, <4>2 DEF Save, StageInv, StageOK, SetsValue, Takes
      <4>4. DocumentOK(device[v]) /\ device[v] # NoDevice
        BY <1>0, <4>3 DEF Known, NoDevice
      <4>5. device'[v] = [device[v] EXCEPT !.currentState = With(@, call[r].key, call[r].value)]
        BY <1>0, <4>1, <4>2
      <4>6. /\ device'[v].capabilities = device[v].capabilities
            /\ device'[v].currentState = With(device[v].currentState, call[r].key, call[r].value)
        BY <4>3, <4>4, <4>5, StateWritten
      <4>7. DOMAIN device[v].currentState = DOMAIN device[v].capabilities
        BY <4>4 DEF DocumentOK
      <4> QED
        BY <4>3, <4>6, <4>7 DEF With
    <3>4. CASE Write(r)
      <4>1. /\ Live(v)
            /\ \/ device' = [device EXCEPT ![v] = [device[v] EXCEPT !.status = "deleted"]]
               \/ device' = [device EXCEPT ![v] = [device[v] EXCEPT !.name = call[r].name]]
        BY <1>0, <2>2, <3>4 DEF Write, MarkDeleted, SetName
      <4>2. DOMAIN device[v] = DOMAIN NoDevice /\ Known(v)
        BY <1>0, <4>1 DEF DocumentOK, Live, Known
      <4>3. device'[v].capabilities = device[v].capabilities
            /\ device'[v].currentState = device[v].currentState
        BY <1>0, <4>1, <4>2 DEF NoDevice
      <4> QED
        BY <4>2, <4>3 DEF MadeInv
    <3> QED
      BY <3>1, <3>2, <3>3, <3>4
  <2> QED
    BY <2>1, <2>2
<1>4. ASSUME NEW e \in bus'
      PROVE  /\ pc'[e.by] = "closed"
             /\ call'[e.by].op = "delete" => Deleted(call[e.by].device)'
  <2>1. CASE e \in bus
    <3>1. /\ e.by \in Requests /\ pc[e.by] = "closed"
          /\ call[e.by].op = "delete" => Deleted(call[e.by].device)
      BY <1>0, <2>1 DEF MadeInv
    <3>2. UNCHANGED <<pc[e.by], call[e.by]>>
      BY <3>1, ClosedStays
    <3>3. call[e.by].op = "delete" => call[e.by].device \in Devices
      BY <3>1, CallFields DEF DeviceInv, DeviceTypeOK, NoCall
    <3> QED
      BY <1>0, <3>1, <3>2, <3>3, Lasting, CallFields DEF DeviceInv, DeviceTypeOK, NoCall, Deleted
  <2>2. CASE e \notin bus
    <3>1. PICK r \in Requests : Send(r)
      BY <2>2, Writers
    <3>2. e.by = r /\ pc[r] = "send" /\ pc' = [pc EXCEPT ![r] = "closed"] /\ UNCHANGED <<call, device>>
      BY <2>2, <3>1 DEF Send, Goto, documents
    <3> QED
      BY <1>0, <3>2 DEF StageInv, StageOK, Deleted
  <2> QED
    BY <2>1, <2>2
<1>5. ASSUME NEW r \in Requests, call'[r].op = "telemetry" PROVE HasToken(call[r].device)'
  <2>1. CASE call[r].op = "telemetry"
    <3>1. call'[r] = call[r] /\ call[r] \in Calls
      BY <2>1, Lasting DEF NoCall, DeviceInv, DeviceTypeOK
    <3>2. call[r].device \in Devices /\ HasToken(call[r].device)
      BY <2>1, <3>1, CallFields DEF MadeInv
    <3>3. HasToken(call[r].device)'
      BY <3>1, <3>2, Lasting DEF HasToken, Known
    <3> QED
      BY <3>3
  <2>2. CASE call[r].op # "telemetry"
    <3>1. PICK q \in Requests : Begin(q)
      BY <1>5, <2>2, Writers
    <3>2. PICK c \in Calls : /\ c.op = "telemetry" => HasToken(c.device)
                             /\ call' = [call EXCEPT ![q] = c]
      BY <3>1 DEF Begin
    <3>3. UNCHANGED <<device, madeBy, bus>>
      BY <3>1 DEF Begin, documents
    <3>4. call'[r] = c
      BY <1>5, <2>2, <3>2 DEF DeviceInv, DeviceTypeOK
    <3> QED
      BY <1>5, <3>2, <3>3, <3>4 DEF HasToken, Known
  <2> QED
    BY <2>1, <2>2
<1>6. ASSUME NEW r \in Requests, pc'[r] = "tell"
      PROVE  /\ call'[r].op # "pair"
             /\ call'[r].op = "telemetry" =>
                  call'[r].key \in DOMAIN device'[call'[r].device].capabilities
  <2>1. CASE pc[r] = "tell"
    <3>1. /\ call[r] # NoCall /\ call[r].op # "pair"
          /\ call[r].op = "telemetry" =>
               /\ call[r].key \in DOMAIN device[call[r].device].capabilities
               /\ call[r].device \in Devices /\ Known(call[r].device)
      BY <1>0, <2>1, Told DEF MadeInv, StageInv, StageOK
    <3> QED
      BY <3>1, Lasting
  <2>2. CASE pc[r] # "tell"
    <3>1. call'[r] = call[r] /\ call[r] \in Calls
      BY <1>6, <2>2, Speaking
    <3>2. CASE Save(r) /\ call[r].op = "telemetry"
      <4>1. /\ call[r].key \in DOMAIN device[call[r].device].capabilities
            /\ call[r].device \in Devices /\ Known(call[r].device)
        BY <1>0, <3>1, <3>2, CallFields DEF Save, StageInv, StageOK, Takes, SetsValue
      <4> QED
        BY <3>1, <3>2, <4>1, Lasting
    <3>3. CASE ~(Save(r) /\ call[r].op = "telemetry")
      BY <1>6, <2>2, <3>1, <3>3, Speaking
    <3> QED
      BY <3>2, <3>3
  <2> QED
    BY <2>1, <2>2
<1> QED
  BY <1>1, <1>2, <1>3, <1>4, <1>5, <1>6 DEF MadeInv

\* A request that has something to tell goes on to tell it, or fails.
LEMMA Spoken ==
  ASSUME DeviceInv, [DeviceNext]_dcVars, NEW r \in Requests, pc[r] = "tell"
  PROVE  /\ call'[r] = call[r]
         /\ \/ pc'[r] = "tell" /\ ~Tell(r) /\ ~Fail(r)
            \/ Tell(r) /\ pc'[r] # "tell" /\ UNCHANGED <<device, madeBy, lost, shaky>>
            \/ Fail(r) /\ pc'[r] # "tell"
<1>0. call[r] # NoCall /\ DOMAIN pc = Requests
  BY DEF DeviceInv, DeviceTypeOK, StageInv, StageOK
<1>1. call'[r] = call[r]
  BY <1>0, Lasting
<1>2. Tell(r) => pc'[r] # "tell" /\ UNCHANGED <<device, madeBy, lost, shaky>>
  BY <1>0 DEF Tell, Goto, documents, histories
<1>3. Fail(r) => pc'[r] # "tell"
  BY <1>0 DEF Fail, Goto
<1>4. ASSUME pc'[r] # "tell" PROVE Tell(r) \/ Fail(r)
  <2>1. PICK q \in Requests : RequestStep(q)
    BY <1>4, Writers
  <2>2. q = r
    BY <1>0, <1>4, <2>1, OneActs
  <2> QED
    BY <2>1, <2>2 DEF RequestStep, Begin, CheckPermissions, SetCode, GetDel, Create, Find, Save,
                      Publish, Write, Send
<1> QED
  BY <1>1, <1>2, <1>3, <1>4

\* A device is deleted by a request that tells of it.
LEMMA Deletes ==
  ASSUME DeviceInv, [DeviceNext]_dcVars, NEW v \in Devices
  PROVE  /\ Deleted(v)' /\ ~Deleted(v) => Unmaking(v)'
         /\ Deleted(v) /\ Unmaking(v)' => Unmaking(v)
         /\ Live(v) => Live(v)' \/ Unmaking(v)'
<1>0. /\ DOMAIN pc = Requests /\ DOMAIN device = Devices /\ DocumentOK(device[v])
      /\ call \in [Requests -> Calls \cup {NoCall}]
  BY DEF DeviceInv, DeviceTypeOK
<1>1. ASSUME Deleted(v)', ~Deleted(v) PROVE Unmaking(v)'
  <2>1. PICK r \in Requests : Create(r) \/ Save(r) \/ Write(r)
    BY <1>1, Writers DEF Deleted
  <2>2. ~Create(r)
    <3>1. ASSUME Create(r) PROVE FALSE
      <4>1. /\ call[r] \in Calls /\ call[r].op = "activate" /\ grant[r] \in Grants
            /\ device'[v] # device[v]
        BY <1>1, <3>1, Created DEF Deleted
      <4>2. device'[v] = NewDevice(grant[r].user, grant[r].domain, call[r].offer, call[r].name)
        BY <1>0, <3>1, <4>1, Created
      <4>3. device'[v].status = "live"
        BY <4>1, <4>2, CallFields, NewDeviceOK DEF Grants
      <4> QED
        BY <1>1, <4>3 DEF Deleted
    <3> QED
      BY <3>1
  <2>3. ~Save(r)
    <3>1. ASSUME Save(r) PROVE FALSE
      <4>1. device' = [device EXCEPT ![call[r].device] =
              [device[call[r].device] EXCEPT !.currentState = With(@, call[r].key, call[r].value)]]
        BY <3>1 DEF Save
      <4>2. device[v] # NoDevice /\ device'[v] = [device[v] EXCEPT !.currentState =
                                                     With(@, call[r].key, call[r].value)]
        <5>1. call[r].device = v /\ Known(v)
          BY <1>0, <1>1, <3>1, <4>1 DEF Deleted, Save, DeviceInv, StageInv, StageOK, SetsValue
        <5> QED
          BY <1>0, <4>1, <5>1 DEF Known, NoDevice
      <4> QED
        BY <1>0, <1>1, <4>2 DEF Deleted, DocumentOK, NoDevice
    <3> QED
      BY <3>1
  <2>4. Write(r) /\ pc[r] = "write" /\ call' = call
    BY <2>1, <2>2, <2>3 DEF Write
  <2>5. CASE /\ call[r].op = "delete" /\ pc' = [pc EXCEPT ![r] = "tell"]
             /\ device' = [device EXCEPT ![call[r].device] =
                             [device[call[r].device] EXCEPT !.status = "deleted"]]
    <3>1. call[r].device = v
      BY <1>0, <1>1, <2>5 DEF Deleted
    <3> QED
      BY <1>0, <2>4, <2>5, <3>1 DEF Unmaking
  <2>6. CASE device' = [device EXCEPT ![call[r].device] =
                          [device[call[r].device] EXCEPT !.name = call[r].name]]
             /\ Live(call[r].device)
    <3>1. call[r].device = v /\ device[v].status = "live"
      BY <1>0, <1>1, <2>6 DEF Deleted, Live
    <3>2. device'[v] = [device[v] EXCEPT !.name = call[r].name] /\ device[v] # NoDevice
      BY <1>0, <2>6, <3>1 DEF NoDevice
    <3> QED
      BY <1>0, <1>1, <3>1, <3>2 DEF DocumentOK, NoDevice, Deleted
  <2> QED
    BY <1>1, <2>4, <2>5, <2>6 DEF Write, MarkDeleted, SetName, Deleted, Goto
<1>2. ASSUME Deleted(v), Unmaking(v)' PROVE Unmaking(v)
  <2>1. PICK r \in Requests : pc'[r] = "tell" /\ call'[r].op = "delete" /\ call'[r].device = v
    BY <1>2 DEF Unmaking
  <2>2. CASE pc[r] = "tell"
    BY <2>1, <2>2, Spoken DEF Unmaking
  <2>3. CASE pc[r] # "tell"
    <3>1. Write(r) /\ call'[r] = call[r]
      BY <2>1, <2>3, Speaking
    <3>2. Live(v)
      BY <1>0, <2>1, <3>1 DEF Write, MarkDeleted, Goto
    <3> QED
      BY <1>2, <3>2 DEF Live, Deleted
  <2> QED
    BY <2>2, <2>3
<1>3. ASSUME Live(v), ~Live(v)' PROVE Unmaking(v)'
  <2>1. Deleted(v)' /\ ~Deleted(v)
    BY <1>3, DocumentsKept DEF Kept, Known, Live, Deleted, DocumentOK, NoDevice
  <2> QED
    BY <1>1, <2>1
<1> QED
  BY <1>1, <1>2, <1>3

\* What the room was told has happened, and a deletion is told or about to be.
LEMMA LogInvStep ==
  ASSUME DeviceInv, AnnouncedInv, MadeInv, DashboardTypeOK, LogInv, [DeviceNext]_dcVars
  PROVE  LogInv'
<1>0. /\ Log \in Seq(Messages) /\ Log' \in Seq(Messages) /\ Home \in Domains
      /\ \A m \in Messages : m.device \in Devices
      /\ \A i \in DOMAIN Log : Log'[i] = Log[i] /\ i \in DOMAIN Log' /\ i \in Nat
      /\ bus \subseteq [kind : {"CREATED", "DELETED", "UPDATED"}, device : Devices, by : Requests]
  BY LogStep, DashboardAssumption DEF DashboardTypeOK, Messages, DeviceInv, DeviceTypeOK
\* What has just been told comes last.
<1>1. ASSUME NEW i \in DOMAIN Log', i \notin DOMAIN Log
      PROVE  \E r \in Requests :
               /\ Tell(r) /\ Room(r) = Home /\ Log'[i] = Message(r)
               /\ i = Len(Log') /\ \A j \in DOMAIN Log : j < i
  BY <1>0, <1>1, LogStep
<1>2. ASSUME NEW v \in Devices, Known(v)
      PROVE  /\ Known(v)' /\ device'[v].domainId = device[v].domainId /\ madeBy'[v] = madeBy[v]
             /\ device'[v].capabilities = device[v].capabilities
  BY <1>2, Lasting
<1>3. ASSUME NEW i \in DOMAIN Log PROVE LogOK(i)'
  <2> DEFINE m == Log[i]
             v == Log[i].device
  <2>1. LogOK(i) /\ v \in Devices /\ Known(v) /\ Log'[i] = Log[i]
    BY <1>0, <1>3 DEF LogInv, LogOK
  <2>2. ASSUME m.event = "DEVICE_ADDED"
        PROVE  /\ device'[v].domainId = Home /\ madeBy'[v] # Nobody /\ pc'[madeBy'[v]] # "tell"
               /\ m.document.currentState = CreateCurrentState(device'[v].capabilities)
    BY <1>2, <2>1, <2>2, MakersTellOnce DEF LogOK
  <2>3. ASSUME m.event = "DEVICE_ADDED", NEW j \in DOMAIN Log',
               Log'[j].event = "DEVICE_TELEMETRY", Log'[j].device = v
        PROVE  i < j
    <3>1. CASE j \in DOMAIN Log
      BY <1>0, <2>1, <2>3, <3>1 DEF LogOK, About
    <3>2. CASE j \notin DOMAIN Log
      BY <1>1, <3>2
    <3> QED
      BY <3>1, <3>2
  <2>4. ASSUME m.event = "DEVICE_REMOVED" PROVE Deleted(v)' /\ ~Unmaking(v)'
    BY <2>1, <2>4, Lasting, Deletes DEF LogOK
  <2>5. ASSUME m.event = "DEVICE_TELEMETRY"
        PROVE  HasToken(v)' /\ m.key \in DOMAIN device'[v].capabilities
    BY <1>2, <2>1, <2>5, Lasting DEF LogOK
  <2>6. ASSUME m.event = "DEVICE_UPDATED" PROVE Controlled(v)'
    BY <2>1, <2>6, Lasting DEF LogOK
  <2>7. PICK w \in Devices, n \in Messages : w = v /\ n = m
    BY <1>0, <1>3, <2>1
  <2>8. Known(w)'
    BY <1>2, <2>1, <2>7
  <2>9. Log'[i] = n /\ n.device = w
    BY <2>1, <2>7
  <2> QED
    BY <2>2, <2>3, <2>4, <2>5, <2>6, <2>7, <2>8, <2>9 DEF LogOK, About
<1>4. ASSUME NEW i \in DOMAIN Log', i \notin DOMAIN Log PROVE LogOK(i)'
  <2>1. PICK r \in Requests :
          /\ Tell(r) /\ Room(r) = Home /\ Log'[i] = Message(r)
          /\ i = Len(Log') /\ \A j \in DOMAIN Log : j < i
    BY <1>1, <1>4
  <2>2. PICK v \in Devices, n \in Messages : v = Message(r).device /\ n = Message(r)
    BY <2>1, Told DEF Tell
  <2>3. /\ Known(v) /\ pc[r] = "tell" /\ UNCHANGED <<device, madeBy, call, bus>> /\ pc'[r] # "tell"
    <3>1. pc[r] = "tell" /\ UNCHANGED <<device, madeBy, call, bus>>
      BY <2>1 DEF Tell, documents, histories
    <3>2. Known(v)
      BY <2>2, <3>1, Told
    <3>3. pc'[r] # "tell"
      BY <2>1, <3>1, Spoken
    <3> QED
      BY <3>1, <3>2, <3>3
  <2>4. ASSUME n.event = "DEVICE_ADDED"
        PROVE  /\ device'[v].domainId = Home /\ madeBy'[v] = r /\ madeBy'[v] # Nobody
               /\ n.document.currentState = CreateCurrentState(device'[v].capabilities)
    BY <2>1, <2>2, <2>3, <2>4, Told, DeviceAssumption
  <2>5. ASSUME n.event = "DEVICE_ADDED", NEW j \in DOMAIN Log',
               Log'[j].event = "DEVICE_TELEMETRY", Log'[j].device = v
        PROVE  i < j
    <3>1. CASE j \in DOMAIN Log
      <4>1. HasToken(v) /\ madeBy[v] = r
        BY <1>0, <2>3, <2>4, <2>5, <3>1 DEF LogInv, LogOK
      <4>2. [kind |-> "CREATED", device |-> v, by |-> r] \in bus
        BY <4>1, DeviceAssumption DEF HasToken
      <4> QED
        BY <2>3, <4>2 DEF MadeInv
    <3>2. CASE j \notin DOMAIN Log
      BY <1>1, <2>1, <2>2, <2>5, <3>2
    <3> QED
      BY <3>1, <3>2
  <2>6. ASSUME n.event = "DEVICE_REMOVED" PROVE Deleted(v)' /\ ~Unmaking(v)'
    <3>1. call[r].op = "delete" /\ call[r].device = v /\ Deleting(r, v)
      BY <2>2, <2>3, <2>6, Told DEF Deleting
    <3>2. Deleted(v)
      BY <3>1 DEF AnnouncedInv, AnnouncedOK
    <3>3. Deleted(v)'
      BY <2>3, <3>2 DEF Deleted
    <3>4. ASSUME Unmaking(v)' PROVE FALSE
      <4>1. PICK q \in Requests : pc'[q] = "tell" /\ call'[q].op = "delete" /\ call'[q].device = v
        BY <3>4 DEF Unmaking
      <4>2. pc[q] = "tell"
        BY <2>1, <2>3, <4>1 DEF Tell, Goto, DeviceInv, DeviceTypeOK
      <4>3. Deleting(q, v)
        BY <2>3, <4>1, <4>2 DEF Deleting
      <4> QED
        BY <2>3, <3>1, <4>1, <4>3 DEF AnnouncedInv, AnnouncedOK
    <3> QED
      BY <3>3, <3>4
  <2>7. ASSUME n.event = "DEVICE_TELEMETRY"
        PROVE  HasToken(v)' /\ n.key \in DOMAIN device'[v].capabilities
    <3>1. call[r].op = "telemetry" /\ call[r].device = v /\ n.key = call[r].key
      BY <2>2, <2>3, <2>7, Told
    <3>2. HasToken(v)
      BY <3>1 DEF MadeInv
    <3>3. n.key \in DOMAIN device[v].capabilities
      BY <2>3, <3>1 DEF MadeInv
    <3> QED
      BY <2>3, <3>2, <3>3, Lasting
  <2>8. ASSUME n.event = "DEVICE_UPDATED" PROVE Controlled(v)'
    <3>1. call[r].op = "control" /\ call[r].device = v
      BY <2>2, <2>3, <2>8, Told
    <3> QED
      BY <2>3, <3>1 DEF Controlled
  <2>9. Log'[i] = n /\ n.device = v /\ Known(v)'
    BY <1>2, <2>1, <2>2, <2>3
  <2> QED
    BY <2>3, <2>4, <2>5, <2>6, <2>7, <2>8, <2>9 DEF LogOK, About
<1>5. ASSUME NEW v \in Devices \ lost', Deleted(v)', device'[v].domainId = Home
      PROVE  Unmaking(v)' \/ \E i \in DOMAIN Log' : Log'[i].event = "DEVICE_REMOVED" /\ Log'[i].device = v
  <2>1. CASE ~Deleted(v)
    BY <1>5, <2>1, Deletes
  <2>2. CASE Deleted(v)
    <3>1. Known(v) /\ v \notin lost /\ device[v].domainId = Home
      BY <1>2, <1>5, <2>2, Lasting DEF Deleted, Known
    <3>2. CASE \E i \in DOMAIN Log : About(i, "DEVICE_REMOVED", v)
      BY <1>0, <3>2 DEF About
    <3>3. CASE Unmaking(v)
      <4>1. PICK r \in Requests : pc[r] = "tell" /\ call[r].op = "delete" /\ call[r].device = v
        BY <3>3 DEF Unmaking
      <4>2. CASE pc'[r] = "tell"
        BY <4>1, <4>2, Spoken DEF Unmaking
      <4>3. CASE Tell(r)
        <5>1. Room(r) = Home /\ Message(r).event = "DEVICE_REMOVED" /\ Message(r).device = v
          BY <3>1, <4>1, Told
        <5>2. PICK q \in Requests : Tell(q) /\ Len(Log') \in DOMAIN Log' /\ Log'[Len(Log')] = Message(q)
          BY <4>3, <5>1, LogStep
        <5>3. q = r
          BY <4>3, <5>2 DEF Tell, Goto, DeviceInv, DeviceTypeOK, Announces
        <5> QED
          BY <5>1, <5>2, <5>3
      <4>4. CASE Fail(r)
        BY <1>5, <4>1, <4>4 DEF Fail, Announces, Target
      <4> QED
        BY <4>1, <4>2, <4>3, <4>4, Spoken
    <3> QED
      BY <1>5, <2>2, <3>1, <3>2, <3>3 DEF LogInv
  <2> QED
    BY <2>1, <2>2
<1> QED
  BY <1>3, <1>4, <1>5 DEF LogInv, About

\* The document of a device that is steady changes when a report is saved, and then
\* the report is told.
LEMMA SteadyDocument ==
  ASSUME DeviceInv, MadeInv, [DeviceNext]_dcVars, NEW v \in Devices, Steady(v)'
  PROVE  \/ /\ ~Known(v) /\ \E r \in Requests : Create(r)
            /\ device'[v].currentState = CreateCurrentState(device'[v].capabilities)
         \/ /\ Steady(v) /\ device'[v].currentState = device[v].currentState
            /\ ~\E r \in Requests : Save(r) /\ call[r].device = v
         \/ /\ Steady(v)
            /\ \E r \in Requests :
                 /\ Save(r) /\ call[r].op = "telemetry" /\ call[r].device = v
                 /\ call'[r] = call[r] /\ pc'[r] = "tell"
                 /\ device'[v].currentState = With(device[v].currentState, call[r].key, call[r].value)
<1>0. /\ DOMAIN device = Devices /\ DocumentOK(device[v]) /\ DOMAIN pc = Requests
      /\ \A r \in Requests : StageOK(r)
  BY DEF DeviceInv, DeviceTypeOK, StageInv
<1>1. CASE ~Known(v)
  <2>1. PICK r \in Requests : Create(r) \/ Save(r) \/ Write(r)
    BY <1>1, Writers DEF Steady, Here, Live, Known
  <2>2. Create(r)
    <3>1. device'[v] # device[v]
      BY <1>1 DEF Steady, Here, Live, Known
    <3>2. ~Save(r)
      BY <1>0, <1>1, <3>1 DEF Save, StageOK, SetsValue
    <3>3. ~Write(r)
      BY <1>0, <1>1, <3>1 DEF Write, MarkDeleted, SetName, Live, Known
    <3> QED
      BY <2>1, <3>2, <3>3
  <2>3. /\ call[r] \in Calls /\ call[r].op = "activate" /\ grant[r] \in Grants
        /\ device'[v] # device[v]
    BY <1>1, <2>2, Created DEF Steady, Here, Live, Known
  <2>4. device'[v] = NewDevice(grant[r].user, grant[r].domain, call[r].offer, call[r].name)
    BY <1>0, <2>2, <2>3, Created
  <2>5. device'[v].capabilities = call[r].offer
        /\ device'[v].currentState = CreateCurrentState(call[r].offer)
    BY <2>3, <2>4, CallFields, NewDeviceOK DEF Grants
  <2> QED
    BY <1>1, <2>2, <2>5
<1>2. CASE Known(v)
  <2>1. Steady(v)
    BY <1>2, Lasting DEF Steady
  <2>2. CASE \E r \in Requests : Save(r) /\ call[r].device = v
    <3>1. PICK r \in Requests : Save(r) /\ call[r].device = v
      BY <2>2
    <3>2. /\ call[r].op = "telemetry" /\ call[r].key \in DOMAIN device[v].capabilities
          /\ pc' = [pc EXCEPT ![r] = "tell"] /\ call' = call
          /\ device' = [device EXCEPT ![v] = [device[v] EXCEPT !.currentState =
                                                With(@, call[r].key, call[r].value)]]
      <4>1. call[r].op = "telemetry"
        BY <1>0, <2>1, <3>1 DEF Save, StageOK, SetsValue, Steady, Controlled
      <4> QED
        BY <1>0, <3>1, <4>1 DEF Save, StageOK, Takes, Goto
    <3>3. device'[v] = [device[v] EXCEPT !.currentState = With(@, call[r].key, call[r].value)]
          /\ device[v] # NoDevice
      BY <1>0, <1>2, <3>2 DEF Known, NoDevice
    <3>4. device'[v].currentState = With(device[v].currentState, call[r].key, call[r].value)
      BY <1>0, <3>2, <3>3, StateWritten
    <3> QED
      BY <1>0, <2>1, <3>1, <3>2, <3>4
  <2>3. CASE ~\E r \in Requests : Save(r) /\ call[r].device = v
    <3>1. device'[v].currentState = device[v].currentState
      <4>1. CASE device'[v] = device[v]
        BY <4>1
      <4>2. CASE device'[v] # device[v]
        <5>1. PICK r \in Requests : Create(r) \/ Save(r) \/ Write(r)
          BY <4>2, Writers
        <5>2. ~Create(r)
          BY <1>0, <1>2, <4>2, Created
        <5>3. ~Save(r)
          BY <1>0, <2>3, <4>2 DEF Save
        <5>4. \/ device'[v] = [device[v] EXCEPT !.status = "deleted"]
              \/ device'[v] = [device[v] EXCEPT !.name = call[r].name]
          BY <1>0, <4>2, <5>1, <5>2, <5>3 DEF Write, MarkDeleted, SetName
        <5>5. DOMAIN device[v] = DOMAIN NoDevice
          BY <1>0 DEF DocumentOK
        <5> QED
          BY <5>4, <5>5 DEF NoDevice
      <4> QED
        BY <4>1, <4>2
    <3> QED
      BY <2>1, <2>3, <3>1
  <2> QED
    BY <2>2, <2>3
<1> QED
  BY <1>1, <1>2

\* Whatever is not told by this step was told before; and no two requests act at once.
LEMMA NewReports ==
  ASSUME DeviceInv, MadeInv, DashboardTypeOK, [DeviceNext]_dcVars,
         NEW v \in Devices, NEW k, NEW i \in DOMAIN Log', i \notin DOMAIN Log, Reports(i, v, k)'
  PROVE  /\ i = Len(Log') /\ \A j \in DOMAIN Log' : j <= i
         /\ \E r \in Requests : Tell(r) /\ TellsOf(r, v, k) /\ Log'[i].value = call[r].value
<1>1. /\ Log \in Seq(Messages) /\ Log' \in Seq(Messages)
      /\ Log'[i].event = "DEVICE_TELEMETRY" /\ Log'[i].device = v /\ Log'[i].key = k
  BY LogStep DEF DashboardTypeOK, Reports, About
<1>2. PICK r \in Requests : Tell(r) /\ Log'[Len(Log')] = Message(r) /\ i = Len(Log')
  BY <1>1, LogStep
<1>3. pc[r] = "tell"
  BY <1>2 DEF Tell
<1>4. TellsOf(r, v, k) /\ Log'[i].value = call[r].value
  BY <1>1, <1>2, <1>3, Told DEF TellsOf
<1> QED
  BY <1>1, <1>2, <1>4

\* No two requests save or tell in one step.
LEMMA OneAtATime ==
  ASSUME DeviceInv, NEW q \in Requests, NEW r \in Requests, Save(q) \/ Tell(q), Save(r) \/ Tell(r)
  PROVE  q = r
<1>1. DOMAIN pc = Requests
  BY DEF DeviceInv, DeviceTypeOK
<1>2. pc'[q] # pc[q] /\ (r # q => pc'[q] = pc[q])
  BY <1>1 DEF Save, Tell, Goto
<1> QED
  BY <1>2

\* A value that is not saved by this step.
LEMMA ValueFrame ==
  ASSUME DeviceInv, MadeInv, DashboardTypeOK, [DeviceNext]_dcVars, NEW v \in Devices, NEW k,
         Steady(v), Steady(v)', ValueOK(v, k),
         device'[v].currentState[k] = device[v].currentState[k],
         device'[v].capabilities = device[v].capabilities, k \in DOMAIN device[v].capabilities,
         \A r \in Requests : Save(r) /\ call[r].device = v => call[r].key # k
  PROVE  ValueOK(v, k)'
<1>0. /\ Log \in Seq(Messages) /\ Log' \in Seq(Messages)
      /\ \A i \in DOMAIN Log : Log'[i] = Log[i] /\ i \in DOMAIN Log' /\ i \in Nat
  BY LogStep DEF DashboardTypeOK
<1>1. ASSUME NEW r \in Requests, TellsOf(r, v, k)' PROVE TellsOf(r, v, k) /\ call'[r] = call[r]
  <2>1. CASE pc[r] = "tell"
    BY <1>1, <2>1, Spoken DEF TellsOf
  <2>2. CASE pc[r] # "tell"
    <3>1. Save(r) /\ call'[r] = call[r]
      BY <1>1, <2>2, Speaking DEF TellsOf
    <3> QED
      BY <1>1, <3>1 DEF TellsOf
  <2> QED
    BY <2>1, <2>2
<1>2. \A r \in Requests : TellsOf(r, v, k)' => device'[v].currentState[k] = call'[r].value
  BY <1>1 DEF ValueOK
<1>3. CASE Reporting(v, k)
  <2>1. PICK r \in Requests : TellsOf(r, v, k)
    BY <1>3 DEF Reporting
  <2>2. CASE pc'[r] = "tell"
    BY <1>2, <2>1, <2>2, Spoken DEF ValueOK, TellsOf, Reporting
  <2>3. CASE Tell(r)
    <3>1. /\ pc[r] = "tell" /\ call[r].op = "telemetry" /\ call[r].device = v /\ call[r].key = k
          /\ device[v].currentState[k] = call[r].value
      BY <2>1 DEF TellsOf, ValueOK
    <3>2. Room(r) = Home
      BY <3>1, Told DEF Steady, Here
    <3>3. PICK q \in Requests :
            /\ Tell(q) /\ Len(Log') \in DOMAIN Log' /\ Log'[Len(Log')] = Message(q)
            /\ \A j \in DOMAIN Log' : j <= Len(Log')
      BY <1>0, <2>3, <3>2, LogStep
    <3>4. q = r
      BY <2>3, <3>3, OneAtATime
    <3>5. PICK n : n = Len(Log')
      OBVIOUS
    <3>6. /\ Log'[n].event = "DEVICE_TELEMETRY" /\ Log'[n].device = v /\ Log'[n].key = k
          /\ Log'[n].value = call[r].value /\ n \in DOMAIN Log'
          /\ \A j \in DOMAIN Log' : j <= n
      BY <3>1, <3>3, <3>4, <3>5, Told
    <3> QED
      BY <1>2, <3>1, <3>6 DEF ValueOK, Reports, About
  <2>4. CASE Fail(r)
    <3>1. v \in shaky'
      BY <2>1, <2>4 DEF Fail, TellsOf, SetsValue, Target
    <3> QED
      BY <3>1 DEF Steady
  <2> QED
    BY <2>1, <2>2, <2>3, <2>4, Spoken DEF TellsOf
<1>4. CASE ~Reporting(v, k)
  <2>1. \A i \in DOMAIN Log' : Reports(i, v, k)' => i \in DOMAIN Log
    BY <1>4, NewReports DEF Reporting
  <2>2. \A i \in DOMAIN Log : Reports(i, v, k)' <=> Reports(i, v, k)
    BY <1>0 DEF Reports, About
  <2>3. CASE /\ device[v].currentState[k] = CreateCurrentState(device[v].capabilities)[k]
             /\ \A i \in DOMAIN Log : ~Reports(i, v, k)
    BY <1>2, <2>1, <2>2, <2>3 DEF ValueOK
  <2>4. ASSUME NEW i \in DOMAIN Log, Reports(i, v, k), device[v].currentState[k] = Log[i].value,
               \A j \in DOMAIN Log : Reports(j, v, k) => j <= i
        PROVE  ValueOK(v, k)'
    <3>1. /\ i \in DOMAIN Log' /\ Reports(i, v, k)' /\ device'[v].currentState[k] = Log'[i].value
          /\ \A j \in DOMAIN Log' : Reports(j, v, k)' => j <= i
      BY <1>0, <2>1, <2>2, <2>4
    <3> QED
      BY <1>2, <3>1 DEF ValueOK
  <2> QED
    BY <1>4, <2>3, <2>4 DEF ValueOK
<1> QED
  BY <1>3, <1>4

\* The value of a steady device is its first one, the last one told, or about to be.
LEMMA ValuesStep ==
  ASSUME DeviceInv, TwinInv, MadeInv, DashboardTypeOK, LogInv, ValuesInv, [DeviceNext]_dcVars
  PROVE  ValuesInv'
<1> SUFFICES ASSUME NEW v \in Devices, Steady(v)', NEW k \in DOMAIN device'[v].capabilities
             PROVE  ValueOK(v, k)'
  BY DEF ValuesInv
<1>0. /\ Log \in Seq(Messages) /\ Log' \in Seq(Messages) /\ \A r \in Requests : StageOK(r)
      /\ \A i \in DOMAIN Log : Log'[i] = Log[i] /\ i \in DOMAIN Log' /\ i \in Nat
      /\ DocumentOK(device[v])
  BY LogStep DEF DashboardTypeOK, DeviceInv, DeviceTypeOK, StageInv
<1>1. ASSUME ~Known(v), device'[v].currentState = CreateCurrentState(device'[v].capabilities)
      PROVE  ValueOK(v, k)'
  <2>1. ASSUME NEW r \in Requests PROVE ~TellsOf(r, v, k)
    BY <1>0, <1>1 DEF TellsOf, StageOK
  <2>2. ASSUME NEW r \in Requests, TellsOf(r, v, k)' PROVE FALSE
    <3>1. CASE pc[r] = "tell"
      BY <2>1, <2>2, <3>1, Spoken DEF TellsOf
    <3>2. CASE pc[r] # "tell"
      <4>1. Save(r) /\ call'[r] = call[r] /\ call[r].device = v
        BY <2>2, <3>2, Speaking DEF TellsOf
      <4> QED
        BY <1>0, <1>1, <4>1 DEF Save, StageOK, SetsValue
    <3> QED
      BY <3>1, <3>2
  <2>3. \A i \in DOMAIN Log' : ~Reports(i, v, k)'
    <3>1. \A i \in DOMAIN Log : ~Reports(i, v, k)'
      BY <1>0, <1>1 DEF LogInv, LogOK, Reports, About
    <3> QED
      BY <2>1, <3>1, NewReports
  <2> QED
    BY <1>1, <2>2, <2>3 DEF ValueOK
<1>2. ASSUME Steady(v), device'[v].currentState = device[v].currentState,
             ~\E r \in Requests : Save(r) /\ call[r].device = v
      PROVE  ValueOK(v, k)'
  <2>1. device'[v].capabilities = device[v].capabilities
    BY <1>2, Lasting DEF Steady, Here, Live, Known
  <2>2. ValueOK(v, k)
    BY <1>2, <2>1 DEF ValuesInv
  <2> QED
    BY <1>2, <2>1, <2>2, ValueFrame
<1>3. ASSUME Steady(v), NEW r \in Requests, Save(r), call[r].op = "telemetry", call[r].device = v,
             call'[r] = call[r], pc'[r] = "tell",
             device'[v].currentState = With(device[v].currentState, call[r].key, call[r].value)
      PROVE  ValueOK(v, k)'
  <2>1. /\ device'[v].capabilities = device[v].capabilities
        /\ DOMAIN device[v].currentState = DOMAIN device[v].capabilities
    BY <1>0, <1>3, Lasting DEF Steady, Here, Live, Known, DocumentOK, NoDevice
  <2>2. ValueOK(v, k)
    BY <1>3, <2>1 DEF ValuesInv
  <2>3. CASE k # call[r].key
    <3>1. device'[v].currentState[k] = device[v].currentState[k]
      BY <1>3, <2>1, <2>3 DEF With
    <3>2. \A q \in Requests : Save(q) /\ call[q].device = v => call[q].key # k
      BY <1>3, <2>3, OneAtATime
    <3> QED
      BY <1>3, <2>1, <2>2, <3>1, <3>2, ValueFrame
  <2>4. CASE k = call[r].key
    <3>1. device'[v].currentState[k] = call'[r].value /\ TellsOf(r, v, k)'
      BY <1>3, <2>1, <2>4 DEF With, TellsOf
    <3>2. ASSUME NEW q \in Requests, TellsOf(q, v, k)' PROVE q = r
      <4>1. CASE pc[q] # "tell"
        <5>1. Save(q)
          BY <3>2, <4>1, Speaking DEF TellsOf
        <5> QED
          BY <1>3, <5>1, OneAtATime
      <4>2. CASE pc[q] = "tell"
        <5>1. Setting(q, v)
          BY <3>2, <4>2, Spoken DEF TellsOf, Setting, Open, Stages, SetsValue
        <5>2. Setting(r, v)
          BY <1>3 DEF Save, Setting, Open, Stages, SetsValue
        <5> QED
          BY <1>3, <5>1, <5>2 DEF TwinInv, TwinOK, Steady, Here
      <4> QED
        BY <4>1, <4>2
    <3> QED
      BY <3>1, <3>2 DEF ValueOK, Reporting
  <2> QED
    BY <2>3, <2>4
<1> QED
  BY <1>1, <1>2, <1>3, SteadyDocument

-----------------------------------------------------------------------------
(* Lists and cards *)

\* A message, and a card it changes.
LEMMA ChangedCard ==
  ASSUME NEW m \in Messages, NEW card, CardOK(card)
  PROVE  LET new == Changed(card, m)
         IN  /\ CardOK(new)
             /\ new # Absent <=>
                  m.event = "DEVICE_ADDED" \/ (card # Absent /\ m.event # "DEVICE_REMOVED")
             /\ m.event = "DEVICE_ADDED" => new.currentState = m.document.currentState
             /\ m.event \in {"DEVICE_INFO_UPDATED", "DEVICE_STATUS"} =>
                  new.currentState = card.currentState
             /\ m.event = "DEVICE_TELEMETRY" /\ card # Absent =>
                  new.currentState = With(card.currentState, m.key, m.value)
<1>0. /\ m.event \in {"DEVICE_ADDED", "DEVICE_REMOVED", "DEVICE_INFO_UPDATED", "DEVICE_UPDATED",
                      "DEVICE_TELEMETRY", "DEVICE_STATUS"}
      /\ DOMAIN card = {"name", "currentState", "online"}
      /\ CardOK(Absent)
  BY DEF Messages, CardOK, Absent
<1>1. CASE m.event = "DEVICE_ADDED"
  <2>1. m.document.name \in Names /\ Changed(card, m) = Card(m.document)
    <3>1. PICK u \in Users, d \in Domains, offer \in Offers, n \in Names :
            m.document = NewDevice(u, d, offer, n)
      BY <1>1 DEF Messages
    <3>2. m.document.name = n
      BY <3>1 DEF NewDevice
    <3>3. Changed(card, m) = Card(m.document)
      BY <1>1 DEF Changed
    <3> QED
      BY <3>2, <3>3
  <2>2. PICK d : d = m.document
    OBVIOUS
  <2>3. Card(d) # Absent /\ CardOK(Card(d)) /\ Card(d).currentState = d.currentState
    BY <2>1, <2>2, DeviceAssumption DEF Card, CardOK, Absent
  <2> QED
    BY <1>1, <2>1, <2>2, <2>3
<1>2. CASE m.event = "DEVICE_REMOVED"
  BY <1>0, <1>2 DEF Changed
<1>3. CASE m.event \notin {"DEVICE_ADDED", "DEVICE_REMOVED"} /\ card = Absent
  <2>1. Changed(card, m) = card
    BY <1>0, <1>3 DEF Changed
  <2> QED
    BY <1>3, <2>1
<1>4. CASE m.event = "DEVICE_INFO_UPDATED" /\ card # Absent
  BY <1>0, <1>4 DEF Changed, Merged
<1>5. CASE m.event = "DEVICE_STATUS" /\ card # Absent
  <2>1. Changed(card, m) = [card EXCEPT !.online = m.online]
    BY <1>5 DEF Changed, Merged
  <2>2. card.name \in Names
    BY <1>5 DEF CardOK
  <2> QED
    BY <1>0, <1>5, <2>1, <2>2, DeviceAssumption DEF CardOK, Absent
<1>6. CASE m.event = "DEVICE_TELEMETRY" /\ card # Absent
  <2>1. PICK x : x = With(card.currentState, m.key, m.value)
    OBVIOUS
  <2>2. Changed(card, m) = [card EXCEPT !.currentState = x, !.online = TRUE]
    BY <1>6, <2>1 DEF Changed, Merged, WithValue
  <2>3. card.name \in Names
    BY <1>6 DEF CardOK
  <2>4. PICK new : new = Changed(card, m)
    OBVIOUS
  <2>5. /\ DOMAIN new = DOMAIN Absent /\ new.name = card.name /\ new.currentState = x
    BY <1>0, <2>2, <2>4 DEF Absent
  <2>6. CardOK(new) /\ new # Absent
    BY <2>3, <2>5, DeviceAssumption DEF CardOK, Absent
  <2> QED
    BY <1>6, <2>1, <2>4, <2>5, <2>6
<1>7. CASE m.event = "DEVICE_UPDATED" /\ card # Absent
  <2>1. PICK x : x = With(With(card.currentState, "capability", m.key), "value", m.value)
    OBVIOUS
  <2>2. Changed(card, m) = [card EXCEPT !.currentState = x]
    BY <1>7, <2>1 DEF Changed, Merged
  <2>3. card.name \in Names
    BY <1>7 DEF CardOK
  <2> QED
    BY <1>0, <1>7, <2>1, <2>2, <2>3, DeviceAssumption DEF CardOK, Absent
<1> QED
  BY <1>0, <1>1, <1>2, <1>3, <1>4, <1>5, <1>6, <1>7

\* Every step keeps the types of what the dashboards hold and are told.
LEMMA DashboardTypeStep ==
  ASSUME DeviceInv, MadeInv, DashboardTypeOK, [DashboardNext]_allVars
  PROVE  DashboardTypeOK'
<1>0. /\ [DeviceNext]_dcVars
      /\ DOMAIN emitted' = Domains /\ Log' \in Seq(Messages) /\ Log \in Seq(Messages)
      /\ Len(Log) <= Len(Log') /\ Len(Log) \in Nat /\ Len(Log') \in Nat
      /\ DOMAIN device = Devices /\ \A v \in Devices : DocumentOK(device[v])
  BY ServiceSteps, LogStep DEF DashboardTypeOK, DeviceInv, DeviceTypeOK
<1>1. \A r \in edits : r \in Requests /\ call'[r].op \in {"delete", "rename"} /\ call'[r].user \in Viewers
  BY <1>0, Lasting DEF DashboardTypeOK, NoCall
<1>2. /\ connected \cup loaded \cup stale \subseteq Viewers
      /\ position \in [Viewers -> 0..Len(Log')]
      /\ DOMAIN shown = Viewers /\ DOMAIN listing = Viewers \X Fetches
      /\ \A u \in Viewers : CardsOK(shown[u])
      /\ \A u \in Viewers, f \in Fetches :
           /\ listing[<<u, f>>].stage \in {"none", "asked", "checked", "answered"}
           /\ CardsOK(listing[<<u, f>>].devices)
  BY <1>0 DEF DashboardTypeOK
<1>3. CardOK(Absent) /\ CardsOK(NothingShown)
  BY DEF CardOK, CardsOK, NothingShown
\* The dashboards but for the listings, and the cards of one viewer.
<1> DEFINE Rest == /\ connected' \cup loaded' \cup stale' \subseteq Viewers
                   /\ position' \in [Viewers -> 0..Len(Log')]
                   /\ edits' \subseteq edits
<1> HIDE DEF Rest
<1>6. ASSUME Rest, DOMAIN shown' = Viewers, DOMAIN listing' = Viewers \X Fetches,
             \A u \in Viewers : CardsOK(shown'[u]),
             \A u \in Viewers, f \in Fetches :
               /\ listing'[<<u, f>>].stage \in {"none", "asked", "checked", "answered"}
               /\ CardsOK(listing'[<<u, f>>].devices)
      PROVE  DashboardTypeOK'
  <2>1. \A r \in edits' : r \in Requests /\ call'[r].op \in {"delete", "rename"} /\ call'[r].user \in Viewers
    BY <1>1, <1>6 DEF Rest
  <2>2. connected' \cup loaded' \cup stale' \subseteq Viewers /\ position' \in [Viewers -> 0..Len(Log')]
    BY <1>6 DEF Rest
  <2>3. /\ \A u \in Viewers : CardsOK(shown[u])'
        /\ \A u \in Viewers, f \in Fetches : CardsOK(listing[<<u, f>>].devices)'
    BY <1>6 DEF CardsOK, CardOK, Absent
  <2> QED
    BY <1>0, <1>6, <2>1, <2>2, <2>3 DEF DashboardTypeOK
<1>4. ASSUME Rest, UNCHANGED shown, NEW u \in Viewers, NEW f \in Fetches, NEW stage, NEW devices,
             CardsOK(devices), stage \in {"none", "asked", "checked", "answered"},
             listing' = [listing EXCEPT ![<<u, f>>] = [stage |-> stage, devices |-> devices]]
      PROVE  DashboardTypeOK'
  <2>1. PICK a : a = [stage |-> stage, devices |-> devices]
    OBVIOUS
  <2>2. a.stage = stage /\ a.devices = devices /\ listing' = [listing EXCEPT ![<<u, f>>] = a]
    BY <1>4, <2>1
  <2>3. /\ DOMAIN listing' = Viewers \X Fetches
        /\ \A w \in Viewers, g \in Fetches : listing'[<<w, g>>] = a \/ listing'[<<w, g>>] = listing[<<w, g>>]
    BY <1>2, <2>2
  <2>4. \A w \in Viewers, g \in Fetches :
          /\ listing'[<<w, g>>].stage \in {"none", "asked", "checked", "answered"}
          /\ CardsOK(listing'[<<w, g>>].devices)
    BY <1>2, <1>4, <2>2, <2>3
  <2> QED
    BY <1>2, <1>4, <1>6, <2>3, <2>4
<1>5. ASSUME Rest, UNCHANGED listing, NEW u \in Viewers, NEW v \in Devices, NEW card, CardOK(card),
             \/ UNCHANGED shown
             \/ shown' = [shown EXCEPT ![u] = [shown[u] EXCEPT ![v] = card]]
      PROVE  DashboardTypeOK'
  <2>1. CASE UNCHANGED shown
    BY <1>2, <1>5, <1>6, <2>1
  <2>2. CASE shown' = [shown EXCEPT ![u] = [shown[u] EXCEPT ![v] = card]]
    <3>1. PICK f : f = [shown[u] EXCEPT ![v] = card]
      OBVIOUS
    <3>2. CardsOK(f)
      BY <1>2, <1>5, <3>1 DEF CardsOK
    <3>3. DOMAIN shown' = Viewers /\ \A w \in Viewers : shown'[w] = f \/ shown'[w] = shown[w]
      BY <1>2, <2>2, <3>1
    <3>4. \A w \in Viewers : CardsOK(shown'[w])
      BY <1>2, <3>2, <3>3
    <3> QED
      BY <1>2, <1>5, <1>6, <3>3, <3>4
  <2> QED
    BY <1>5, <2>1, <2>2
<1>7. ASSUME UNCHANGED position, connected' \cup loaded' \cup stale' \subseteq Viewers, edits' \subseteq edits
      PROVE  Rest
  <2>1. \A n \in 0..Len(Log) : n \in 0..Len(Log')
    BY <1>0
  <2> QED
    BY <1>2, <1>7, <2>1 DEF Rest
<1>8. CASE UNCHANGED dashboards
  BY <1>2, <1>6, <1>7, <1>8 DEF dashboards
<1>9. ASSUME NEW u \in Viewers, NEW f \in Fetches,
             AskForDevices(u, f) \/ CheckMember(u, f) \/ FindDevices(u, f) \/ RequestFails(u, f)
      PROVE  DashboardTypeOK'
  <2>1. CardsOK(Snapshot)
    <3>1. ASSUME NEW v \in Devices, Here(v) PROVE CardOK(Card(device[v]))
      <4>1. device[v].name \in Names
        BY <1>0, <3>1 DEF Here, Live, DocumentOK, NoDevice
      <4>2. PICK d : d = device[v]
        OBVIOUS
      <4> QED
        BY <4>1, <4>2 DEF CardOK, Card, Absent
    <3> QED
      BY <1>3, <3>1 DEF CardsOK, Snapshot
  <2>2. Rest /\ UNCHANGED shown
    BY <1>2, <1>7, <1>9 DEF AskForDevices, CheckMember, FindDevices, RequestFails
  <2>3. \E stage \in {"none", "asked", "checked", "answered"}, devices \in {NothingShown, Snapshot} :
          List(u, f, stage, devices)
    BY <1>9 DEF AskForDevices, CheckMember, FindDevices, RequestFails
  <2> QED
    BY <1>3, <1>4, <2>1, <2>2, <2>3 DEF List
<1>10. ASSUME NEW u \in Viewers, NEW f \in Fetches, DevicesArrive(u, f) PROVE DashboardTypeOK'
  <2>1. Rest /\ List(u, f, "none", NothingShown) /\ shown' = [shown EXCEPT ![u] = listing[<<u, f>>].devices]
    BY <1>2, <1>7, <1>10 DEF DevicesArrive
  <2>2. PICK a : a = [stage |-> "none", devices |-> NothingShown]
    OBVIOUS
  <2>3. listing' = [listing EXCEPT ![<<u, f>>] = a] /\ a.stage = "none" /\ CardsOK(a.devices)
    BY <1>3, <2>1, <2>2 DEF List
  <2> QED
    BY <1>2, <1>6, <2>1, <2>3
<1>11. ASSUME NEW u \in Viewers, Receive(u) PROVE DashboardTypeOK'
  <2>1. /\ Log' = Log /\ position[u] \in 0..Len(Log) /\ position[u] < Len(Log)
        /\ position' = [position EXCEPT ![u] = position[u] + 1]
    BY <1>2, <1>11 DEF Receive, Log, dcVars, DashboardTypeOK
  <2>2. PICK m \in Messages : m = Log[position[u] + 1]
    BY <1>0, <2>1
  <2>3. m.device \in Devices /\ CardOK(shown[u][m.device])
    BY <1>2 DEF Messages, CardsOK
  <2>4. CardOK(Changed(shown[u][m.device], m))
    BY <2>3, ChangedCard
  <2>5. /\ UNCHANGED <<listing, edits, connected, loaded>> /\ stale' \subseteq stale \cup {u}
        /\ \/ UNCHANGED shown
           \/ shown' = [shown EXCEPT ![u] = [shown[u] EXCEPT ![m.device] = Changed(shown[u][m.device], m)]]
    BY <1>11, <2>2 DEF Receive, Log
  <2>6. Rest
    BY <1>2, <2>1, <2>5 DEF Rest, DashboardTypeOK
  <2>7. PICK card : card = Changed(shown[u][m.device], m)
    OBVIOUS
  <2> QED
    BY <1>5, <2>3, <2>4, <2>5, <2>6, <2>7
<1>12. ASSUME NEW u \in Viewers, Disconnect(u) \/ Connect(u) PROVE DashboardTypeOK'
  <2>1. /\ UNCHANGED <<listing, shown, edits, loaded>> /\ Log' = Log
        /\ connected' \cup loaded' \cup stale' \subseteq Viewers
        /\ UNCHANGED position \/ position' = [position EXCEPT ![u] = Len(Log)]
    BY <1>2, <1>12 DEF Disconnect, Connect, Log, dcVars
  <2>2. Rest
    BY <1>0, <1>2, <2>1 DEF Rest, DashboardTypeOK
  <2> QED
    BY <1>2, <1>6, <2>1, <2>2
<1>13. ASSUME NEW r \in edits, EditFails(r) \/ DeleteDone(r) \/ RenameDone(r) PROVE DashboardTypeOK'
  <2>1. PICK u \in Viewers, v \in Devices : u = call[r].user /\ v = call[r].device
    <3>1. r \in Requests /\ call[r].op \in {"delete", "rename"} /\ call[r].user \in Viewers
      BY DEF DashboardTypeOK
    <3>2. call[r] \in Calls
      BY <3>1 DEF DeviceInv, DeviceTypeOK, NoCall
    <3> QED
      BY <3>1, <3>2, CallFields
  <2>2. Rest /\ UNCHANGED listing
    BY <1>2, <1>7, <1>13, <2>1 DEF EditFails, DeleteDone, RenameDone, Answered
  <2>3. CASE UNCHANGED shown
    BY <1>2, <1>6, <2>2, <2>3
  <2>4. CASE DeleteDone(r)
    BY <1>3, <1>5, <2>1, <2>2, <2>4 DEF DeleteDone
  <2>5. CASE RenameDone(r)
    <3>1. PICK card : card = [shown[u][v] EXCEPT !.name = call[r].name]
      OBVIOUS
    <3>2. call[r].name \in Names
      BY <2>5, CallFields DEF RenameDone, DashboardTypeOK, DeviceInv, DeviceTypeOK, NoCall
    <3>3. CardOK(shown[u][v])
      BY <1>2 DEF CardsOK
    <3>4. CardOK(card)
      BY <3>1, <3>2, <3>3 DEF CardOK, Absent
    <3>5. shown' = [shown EXCEPT ![u] = [shown[u] EXCEPT ![v] = card]]
      BY <2>1, <2>5, <3>1 DEF RenameDone
    <3> QED
      BY <1>5, <2>2, <3>4, <3>5
  <2> QED
    BY <1>13, <2>3, <2>4, <2>5 DEF EditFails
<1>14. ASSUME NEW r \in Requests, Turn(r) PROVE DashboardTypeOK'
  <2>1. call'[r] \in Calls /\ call'[r].op = "control" /\ call'[r].user \in Viewers
    <3>1. pc[r] = "idle" /\ pc'[r] # "idle" /\ call'[r].op = "control" /\ call'[r].user \in Viewers
      BY <1>14 DEF Turn, Turns, Asks
    <3>2. PICK q \in Requests : RequestStep(q)
      BY <1>0, <3>1, Writers
    <3>3. q = r
      BY <3>1, <3>2, OneActs DEF DeviceInv, DeviceTypeOK
    <3> QED
      BY <3>1, <3>2, <3>3, OneActs
  <2>2. PICK u \in Viewers, v \in Devices, k \in Keys :
          u = call'[r].user /\ v = call'[r].device /\ k = call'[r].key
    BY <2>1, CallFields DEF SetsValue
  <2> DEFINE x == call'[r].value
  <2>3. Shows(u, v) /\ Rest /\ UNCHANGED listing
    BY <1>2, <1>7, <1>14, <2>2 DEF Turn
  <2>4. PICK card : card = WithValue(shown[u][v], k, x)
    OBVIOUS
  <2>5. shown' = [shown EXCEPT ![u] = [shown[u] EXCEPT ![v] = card]]
    BY <1>14, <2>2, <2>4 DEF Turn
  <2>6. CardOK(card)
    <3>1. CardOK(shown[u][v]) /\ shown[u][v] # Absent
      BY <1>2, <2>3 DEF CardsOK, Shows
    <3>2. PICK old : old = shown[u][v]
      OBVIOUS
    <3>3. PICK y : y = With(old.currentState, k, x)
      OBVIOUS
    <3>4. card = [old EXCEPT !.currentState = y, !.online = TRUE]
      BY <2>4, <3>2, <3>3 DEF WithValue
    <3> QED
      BY <3>1, <3>2, <3>4 DEF CardOK, Absent
  <2> QED
    BY <1>5, <2>3, <2>5, <2>6
<1>15. ASSUME NEW r \in Requests, Edit(r) PROVE DashboardTypeOK'
  <2>1. /\ call'[r].op \in {"delete", "rename"} /\ call'[r].user \in Viewers
        /\ UNCHANGED <<listing, shown, connected, position, loaded, stale>> /\ edits' = edits \cup {r}
    BY <1>15 DEF Edit, Asks
  <2>2. \A n \in 0..Len(Log) : n \in 0..Len(Log')
    BY <1>0
  <2>3. /\ \A u \in Viewers : CardsOK(shown'[u])
        /\ \A u \in Viewers, f \in Fetches :
             /\ listing'[<<u, f>>].stage \in {"none", "asked", "checked", "answered"}
             /\ CardsOK(listing'[<<u, f>>].devices)
    BY <1>2, <2>1
  <2>5. /\ \A u \in Viewers : CardsOK(shown[u])'
        /\ \A u \in Viewers, f \in Fetches : CardsOK(listing[<<u, f>>].devices)'
    BY <2>3 DEF CardsOK, CardOK, Absent
  <2>4. position' \in [Viewers -> 0..Len(Log')]
    BY <1>2, <2>1, <2>2
  <2> QED
    BY <1>0, <1>1, <1>2, <2>1, <2>3, <2>4, <2>5 DEF DashboardTypeOK
<1> QED
  BY <1>8, <1>9, <1>10, <1>11, <1>12, <1>13, <1>14, <1>15
  DEF DashboardNext, DashboardStep, allVars, dashboards

\* What the room was told is never taken back; what has just been told is still ahead
\* of every socket.
LEMMA AheadStays ==
  ASSUME DeviceInv, MadeInv, DashboardTypeOK, [DeviceNext]_dcVars,
         NEW u \in Viewers, position'[u] = position[u], NEW v \in Devices
  PROVE  /\ \A event : Ahead(u, event, v) => Ahead(u, event, v)'
         /\ Crossed(v) => Crossed(v)'
         /\ \A r \in Requests : \A event :
              Tell(r) /\ Room(r) = Home /\ Message(r).device = v /\ Message(r).event = event =>
                Ahead(u, event, v)'
         /\ \A r \in Requests : \A k :
              Tell(r) /\ TellsOf(r, v, k) /\ device[v].domainId = Home => Coming(u, v, k)'
         /\ \A i \in DOMAIN Log : \A k :
              i > position[u] /\ Reports(i, v, k) => Coming(u, v, k)'
<1>0. /\ Log \in Seq(Messages) /\ Log' \in Seq(Messages)
      /\ \A i \in DOMAIN Log : Log'[i] = Log[i] /\ i \in DOMAIN Log' /\ i \in Nat
      /\ position[u] \in Nat /\ position[u] <= Len(Log)
  BY LogStep DEF DashboardTypeOK
<1>1. \A event : Ahead(u, event, v) => Ahead(u, event, v)'
  BY <1>0 DEF Ahead, About
<1>2. Crossed(v) => Crossed(v)'
  BY <1>0 DEF Crossed, Log
<1>3. ASSUME NEW r \in Requests, Tell(r), Room(r) = Home
      PROVE  \E n \in DOMAIN Log' : n > position[u] /\ Log'[n] = Message(r)
  <2>1. PICK q \in Requests :
          /\ Tell(q) /\ Len(Log') \in DOMAIN Log' /\ Log'[Len(Log')] = Message(q)
          /\ Len(Log') = Len(Log) + 1
    BY <1>0, <1>3, LogStep
  <2>2. q = r
    BY <1>3, <2>1, OneAtATime
  <2> QED
    BY <1>0, <2>1, <2>2
<1>4. ASSUME NEW r \in Requests, NEW event, Tell(r), Room(r) = Home, Message(r).device = v,
             Message(r).event = event
      PROVE  Ahead(u, event, v)'
  BY <1>3, <1>4 DEF Ahead, About
<1>5. ASSUME NEW r \in Requests, NEW k, Tell(r), TellsOf(r, v, k), device[v].domainId = Home
      PROVE  Coming(u, v, k)'
  <2>1. /\ Room(r) = Home /\ Message(r).event = "DEVICE_TELEMETRY" /\ Message(r).device = v
        /\ Message(r).key = k
    BY <1>5, Told DEF TellsOf
  <2> QED
    BY <1>3, <1>5, <2>1 DEF Coming, Reports, About
<1>6. ASSUME NEW k, NEW i \in DOMAIN Log, i > position[u], Reports(i, v, k)
      PROVE  Coming(u, v, k)'
  BY <1>0, <1>6 DEF Coming, Reports, About
<1> QED
  BY <1>1, <1>2, <1>4, <1>5, <1>6

\* A list or a card that is right remains so, whatever the service does.
LEMMA CardKept ==
  ASSUME DeviceInv, MadeInv, DashboardTypeOK, [DeviceNext]_dcVars,
         NEW u \in Viewers, position'[u] = position[u], NEW v \in Devices,
         NEW card, CardRight(u, v, card)
  PROVE  CardRight(u, v, card)'
<1>0. /\ DOMAIN device = Devices /\ DocumentOK(device[v])
      /\ \A w \in Devices : madeBy[w] \in Requests \cup {Nobody}
  BY DEF DeviceInv, DeviceTypeOK
<1>1. ASSUME card # Absent PROVE Known(v) /\ device[v].domainId = Home /\ device'[v].domainId = Home
  <2>1. device[v].domainId = Home
    BY <1>1 DEF CardRight
  <2>2. Known(v)
    BY <1>0, <2>1, DashboardAssumption, DeviceAssumption DEF DocumentOK, NoDevice, Known
  <2> QED
    BY <2>1, <2>2, Lasting
<1>2. ASSUME v \notin lost', ~Crossed(v)' PROVE Listed(u, v, card)'
  <2>1. Listed(u, v, card)
    BY <1>2, AheadStays, Lasting DEF CardRight
  <2>2. ASSUME Here(v)', card = Absent PROVE Ahead(u, "DEVICE_ADDED", v)' \/ Making(v)'
    <3>1. CASE Here(v) /\ Making(v)
      <4>1. PICK r \in Requests : r = madeBy[v] /\ pc[r] = "tell" /\ madeBy'[v] = r
        BY <1>0, <3>1, MakersTellOnce DEF Making
      <4>2. call[r].op = "activate" /\ r # Nobody
        BY <4>1, Makers, DeviceAssumption
      <4>3. CASE pc'[r] = "tell"
        BY <4>1, <4>2, <4>3 DEF Making
      <4>4. CASE Tell(r)
        <5>1. Message(r).device \in Devices /\ madeBy[Message(r).device] = r
              /\ Message(r).event = "DEVICE_ADDED" /\ Room(r) = device[Message(r).device].domainId
          BY <4>1, <4>2, Told
        <5>2. Message(r).device = v
          BY <4>1, <4>2, <5>1, DeviceAssumption DEF DeviceInv, ActivationInv
        <5>3. Room(r) = Home
          BY <3>1, <5>1, <5>2 DEF Here
        <5> QED
          BY <4>4, <5>1, <5>2, <5>3, AheadStays
      <4>5. CASE Fail(r)
        BY <1>2, <4>1, <4>2, <4>5 DEF Fail, Announces, Target
      <4> QED
        BY <4>1, <4>3, <4>4, <4>5, Spoken
    <3>2. CASE Here(v) /\ Ahead(u, "DEVICE_ADDED", v)
      BY <3>2, AheadStays
    <3>3. CASE ~Here(v)
      <4>1. ~Known(v) /\ device'[v] # device[v]
        BY <2>2, <3>3, Lasting DEF Here, Live
      <4>2. PICK r \in Requests : Create(r) \/ Save(r) \/ Write(r)
        BY <4>1, Writers
      <4>3. ~Save(r) /\ ~Write(r)
        BY <1>0, <4>1 DEF Save, Write, MarkDeleted, SetName, Live, Known, DeviceInv, StageInv, StageOK,
                          SetsValue
      <4>4. pc'[r] = "tell" /\ madeBy'[v] = r
        BY <1>0, <4>1, <4>2, <4>3, Created DEF DeviceInv, DeviceTypeOK
      <4> QED
        BY <4>4, DeviceAssumption DEF Making
    <3> QED
      BY <2>1, <2>2, <3>1, <3>2, <3>3 DEF Listed
  <2>3. ASSUME ~Here(v)', card # Absent PROVE Ahead(u, "DEVICE_REMOVED", v)' \/ Unmaking(v)'
    <3>1. CASE Here(v)
      BY <1>1, <2>3, <3>1, Deletes DEF Here
    <3>2. CASE Ahead(u, "DEVICE_REMOVED", v)
      BY <3>2, AheadStays
    <3>3. CASE Unmaking(v)
      <4>1. PICK r \in Requests : pc[r] = "tell" /\ call[r].op = "delete" /\ call[r].device = v
        BY <3>3 DEF Unmaking
      <4>2. CASE pc'[r] = "tell"
        BY <4>1, <4>2, Spoken DEF Unmaking
      <4>3. CASE Tell(r)
        <5>1. Room(r) = Home /\ Message(r).device = v /\ Message(r).event = "DEVICE_REMOVED"
          BY <1>1, <2>3, <4>1, Told
        <5> QED
          BY <4>3, <5>1, AheadStays
      <4>4. CASE Fail(r)
        BY <1>2, <4>1, <4>4 DEF Fail, Announces, Target
      <4> QED
        BY <4>1, <4>2, <4>3, <4>4, Spoken
    <3> QED
      BY <2>1, <2>3, <3>1, <3>2, <3>3 DEF Listed
  <2> QED
    BY <2>2, <2>3 DEF Listed
<1>3. ASSUME card # Absent, Steady(v)'
      PROVE  card.currentState = [k \in DOMAIN device'[v].capabilities |->
               IF Coming(u, v, k)' THEN card.currentState[k] ELSE device'[v].currentState[k]]
  <2>1. Steady(v) /\ device'[v].capabilities = device[v].capabilities
    BY <1>1, <1>3, Lasting DEF Steady
  <2>2. ASSUME NEW k \in DOMAIN device[v].capabilities, ~Coming(u, v, k)'
        PROVE  ~Coming(u, v, k) /\ device'[v].currentState[k] = device[v].currentState[k]
    <3>1. \A i \in DOMAIN Log : ~(i > position[u] /\ Reports(i, v, k))
      BY <2>2, AheadStays
    <3>2. ASSUME NEW r \in Requests, TellsOf(r, v, k) PROVE FALSE
      <4>1. pc'[r] # "tell"
        BY <2>2, <3>2, Spoken DEF TellsOf, Coming, Reporting
      <4>2. ~Tell(r)
        BY <1>1, <1>3, <2>2, <3>2, AheadStays
      <4>3. v \in shaky'
        BY <3>2, <4>1, <4>2, Spoken DEF TellsOf, Fail, SetsValue, Target
      <4> QED
        BY <1>3, <4>3 DEF Steady
    <3>3. device'[v].currentState[k] = device[v].currentState[k]
      <4>1. CASE device'[v].currentState = device[v].currentState
        BY <4>1
      <4>2. CASE device'[v].currentState # device[v].currentState
        <5>1. PICK r \in Requests :
                /\ call[r].op = "telemetry" /\ call[r].device = v
                /\ call'[r] = call[r] /\ pc'[r] = "tell"
                /\ device'[v].currentState = With(device[v].currentState, call[r].key, call[r].value)
          BY <1>1, <1>3, <4>2, SteadyDocument
        <5>2. call[r].key # k
          BY <2>2, <5>1 DEF Coming, Reporting, TellsOf
        <5>3. k \in DOMAIN device[v].currentState
          BY <1>0, <1>1, <1>3 DEF DocumentOK, Known, NoDevice
        <5> QED
          BY <5>1, <5>2, <5>3 DEF With
      <4> QED
        BY <4>1, <4>2
    <3> QED
      BY <3>1, <3>2, <3>3 DEF Coming, Reporting
  <2>3. card.currentState = [k \in DOMAIN device[v].capabilities |->
          IF Coming(u, v, k) THEN card.currentState[k] ELSE device[v].currentState[k]]
    BY <1>3, <2>1 DEF CardRight, Reported
  <2> QED
    BY <2>1, <2>2, <2>3
<1> QED
  BY <1>1, <1>2, <1>3 DEF CardRight, Reported

\* A socket delivers the next message: a card that it is not about, or one that it
\* changes, is right again.
LEMMA CardReceived ==
  ASSUME DeviceInv, MadeInv, DashboardTypeOK, LogInv, ValuesInv, UNCHANGED dcVars,
         NEW u \in Viewers, position[u] < Len(Log), position'[u] = position[u] + 1,
         NEW m, m = Log[position[u] + 1], NEW v \in Devices,
         NEW card, CardOK(card), CardRight(u, v, card),
         NEW new, new = IF m.device = v /\ ReceivesIt(u, m) THEN Changed(card, m) ELSE card
  PROVE  CardRight(u, v, new)'
<1> DEFINE p == position[u] + 1
<1>0. /\ Log \in Seq(Messages) /\ position[u] \in Nat /\ p \in DOMAIN Log /\ m \in Messages
      /\ \A i \in DOMAIN Log : i \in Nat
  BY DEF DashboardTypeOK
<1>1. /\ UNCHANGED <<Log, device, lost, shaky, pc, call, madeBy>>
      /\ Here(v)' <=> Here(v)
      /\ Making(v)' <=> Making(v)
      /\ Unmaking(v)' <=> Unmaking(v)
      /\ Steady(v)' <=> Steady(v)
      /\ Crossed(v)' <=> Crossed(v)
      /\ \A k : Reporting(v, k)' <=> Reporting(v, k)
  BY DEF dcVars, documents, histories, Log, Here, Live, Making, Unmaking, Steady, Controlled, Crossed,
         Reporting, TellsOf
<1>2. /\ LogOK(p) /\ Log[p] = m
  BY <1>0 DEF LogInv
\* What the message does to the card.
<1>3. m.device # v => new = card
  OBVIOUS
<1>4. ASSUME m.device = v
      PROVE  /\ new # Absent <=>
                  m.event = "DEVICE_ADDED" \/ (card # Absent /\ m.event # "DEVICE_REMOVED")
             /\ m.event = "DEVICE_ADDED" => new.currentState = m.document.currentState
             /\ m.event \in {"DEVICE_INFO_UPDATED", "DEVICE_STATUS"} =>
                  new.currentState = card.currentState
             /\ m.event = "DEVICE_TELEMETRY" /\ card # Absent =>
                  new.currentState = With(card.currentState, m.key, m.value)
  BY <1>0, <1>4, ChangedCard DEF ReceivesIt
<1>5. new # Absent => device[v].domainId = Home
  BY <1>2, <1>3, <1>4 DEF CardRight, LogOK
<1>6. \A i \in DOMAIN Log : i > position[u] <=> i = p \/ i > position'[u]
  BY <1>0
<1>7. \A event : Ahead(u, event, v) => Ahead(u, event, v)' \/ (m.event = event /\ m.device = v)
  BY <1>1, <1>2, <1>6 DEF Ahead, About
<1>8. ASSUME v \notin lost, ~Crossed(v) PROVE Listed(u, v, new)'
  <2>1. Listed(u, v, card)
    BY <1>8 DEF CardRight
  <2>2. ASSUME Here(v), new = Absent PROVE Ahead(u, "DEVICE_ADDED", v)' \/ Making(v)
    <3>1. m.device = v => m.event # "DEVICE_REMOVED" /\ m.event # "DEVICE_ADDED"
      BY <1>2, <1>4, <2>2 DEF LogOK, Here, Live, Deleted
    <3>2. card = Absent
      BY <1>3, <1>4, <2>2, <3>1
    <3> QED
      BY <1>7, <2>1, <2>2, <3>1, <3>2 DEF Listed
  <2>3. ASSUME ~Here(v), new # Absent PROVE Ahead(u, "DEVICE_REMOVED", v)' \/ Unmaking(v)
    <3>1. CASE m.device = v /\ m.event = "DEVICE_ADDED"
      <4>1. Known(v) /\ device[v].domainId = Home
        BY <1>2, <3>1 DEF LogOK
      <4>2. Deleted(v)
        BY <2>3, <4>1 DEF Here, Live, Deleted, Known, DeviceInv, DeviceTypeOK, DocumentOK, NoDevice
      <4>3. CASE \E i \in DOMAIN Log : About(i, "DEVICE_REMOVED", v)
        <5>1. PICK i \in DOMAIN Log : About(i, "DEVICE_REMOVED", v)
          BY <4>3
        <5>2. i # p /\ ~(i < p)
          BY <1>0, <1>2, <1>8, <3>1, <5>1 DEF About, Crossed, Log
        <5>3. i > position'[u]
          BY <1>0, <5>2
        <5> QED
          BY <1>1, <5>1, <5>3 DEF Ahead, About
      <4> QED
        BY <1>8, <4>1, <4>2, <4>3 DEF LogInv
    <3>2. CASE ~(m.device = v /\ m.event = "DEVICE_ADDED")
      <4>1. card # Absent /\ ~(m.device = v /\ m.event = "DEVICE_REMOVED")
        BY <1>3, <1>4, <2>3, <3>2
      <4> QED
        BY <1>7, <2>1, <2>3, <4>1 DEF Listed
    <3> QED
      BY <3>1, <3>2
  <2> QED
    BY <1>1, <2>2, <2>3 DEF Listed
<1>9. ASSUME new # Absent, Steady(v)
      PROVE  new.currentState = [k \in DOMAIN device[v].capabilities |->
               IF Coming(u, v, k)' THEN new.currentState[k] ELSE device[v].currentState[k]]
  <2>1. \A k \in DOMAIN device[v].capabilities : ValueOK(v, k)
    BY <1>9 DEF ValuesInv
  <2>2. \A k : Coming(u, v, k) => Coming(u, v, k)' \/ (m.event = "DEVICE_TELEMETRY" /\ m.device = v /\ m.key = k)
    BY <1>1, <1>2, <1>6 DEF Coming, Reports, About
  <2>3. CASE m.device = v /\ m.event = "DEVICE_ADDED"
    <3>1. /\ new.currentState = CreateCurrentState(device[v].capabilities)
          /\ \A j \in DOMAIN Log : About(j, "DEVICE_TELEMETRY", v) => p < j
      BY <1>2, <1>4, <2>3 DEF LogOK
    <3>2. ASSUME NEW k \in DOMAIN device[v].capabilities, ~Coming(u, v, k)'
          PROVE  device[v].currentState[k] = new.currentState[k]
      <4>1. ~Reporting(v, k) /\ \A i \in DOMAIN Log : ~Reports(i, v, k)
        BY <1>0, <1>1, <3>1, <3>2 DEF Coming, Reports, About
      <4> QED
        BY <2>1, <3>1, <4>1 DEF ValueOK
    <3> QED
      BY <3>1, <3>2 DEF CreateCurrentState
  <2>4. CASE m.device = v /\ m.event = "DEVICE_TELEMETRY"
    <3>1. /\ card # Absent /\ m.key \in DOMAIN device[v].capabilities
          /\ new.currentState = With(card.currentState, m.key, m.value)
      BY <1>2, <1>4, <1>9, <2>4 DEF LogOK
    <3>2. card.currentState = [k \in DOMAIN device[v].capabilities |->
            IF Coming(u, v, k) THEN card.currentState[k] ELSE device[v].currentState[k]]
      BY <1>9, <3>1 DEF CardRight, Reported
    <3>3. ASSUME ~Coming(u, v, m.key)' PROVE device[v].currentState[m.key] = m.value
      <4>1. ~Reporting(v, m.key) /\ Reports(p, v, m.key)
        BY <1>1, <1>2, <2>4, <3>3 DEF Coming, Reports, About
      <4>2. \A i \in DOMAIN Log : Reports(i, v, m.key) => i <= p
        BY <1>0, <1>1, <3>3 DEF Coming, Reports, About
      <4>3. PICK i \in DOMAIN Log :
              /\ Reports(i, v, m.key) /\ device[v].currentState[m.key] = Log[i].value
              /\ \A j \in DOMAIN Log : Reports(j, v, m.key) => j <= i
        BY <1>0, <2>1, <3>1, <4>1 DEF ValueOK
      <4>4. i = p
        BY <1>0, <4>1, <4>2, <4>3
      <4> QED
        BY <1>2, <4>3, <4>4
    <3>4. DOMAIN new.currentState = DOMAIN device[v].capabilities
          /\ new.currentState[m.key] = m.value
          /\ \A k \in DOMAIN device[v].capabilities \ {m.key} :
               new.currentState[k] = card.currentState[k]
      <4>1. DOMAIN card.currentState = DOMAIN device[v].capabilities
        BY <3>2
      <4>2. new.currentState = [j \in DOMAIN card.currentState \cup {m.key} |->
              IF j = m.key THEN m.value ELSE card.currentState[j]]
        BY <3>1 DEF With
      <4>3. DOMAIN card.currentState \cup {m.key} = DOMAIN device[v].capabilities
        BY <3>1, <4>1
      <4>4. PICK f : f = new.currentState
        OBVIOUS
      <4>5. f = [j \in DOMAIN device[v].capabilities |-> IF j = m.key THEN m.value ELSE card.currentState[j]]
        BY <4>2, <4>3, <4>4
      <4>6. DOMAIN f = DOMAIN device[v].capabilities
             /\ \A j \in DOMAIN f : j # m.key => f[j] = card.currentState[j]
        BY <4>4, <4>5
      <4> QED
        BY <3>1, <4>4, <4>5, <4>6
    <3>5. new.currentState = [k \in DOMAIN new.currentState |-> new.currentState[k]]
      BY <3>1 DEF With
    <3>6. ASSUME NEW k \in DOMAIN device[v].capabilities, ~Coming(u, v, k)'
          PROVE  new.currentState[k] = device[v].currentState[k]
      BY <2>2, <3>2, <3>3, <3>4, <3>6
    <3> QED
      BY <3>4, <3>5, <3>6
  <2>5. CASE ~(m.device = v /\ m.event \in {"DEVICE_ADDED", "DEVICE_TELEMETRY"})
    <3>1. card # Absent /\ new.currentState = card.currentState
      <4>1. m.device = v => m.event \in {"DEVICE_INFO_UPDATED", "DEVICE_STATUS"}
        <5>1. m.device = v => m.event # "DEVICE_UPDATED" /\ m.event # "DEVICE_REMOVED"
          BY <1>2, <1>4, <1>9 DEF LogOK, Steady, Controlled
        <5>2. m.event \in {"DEVICE_ADDED", "DEVICE_REMOVED", "DEVICE_INFO_UPDATED", "DEVICE_UPDATED",
                           "DEVICE_TELEMETRY", "DEVICE_STATUS"}
          BY <1>0 DEF Messages
        <5> QED
          BY <2>5, <5>1, <5>2
      <4> QED
        BY <1>3, <1>4, <1>9, <4>1
    <3>2. card.currentState = [k \in DOMAIN device[v].capabilities |->
            IF Coming(u, v, k) THEN card.currentState[k] ELSE device[v].currentState[k]]
      BY <1>9, <3>1 DEF CardRight, Reported
    <3>3. \A k : ~Coming(u, v, k)' => ~Coming(u, v, k)
      BY <2>2, <2>5
    <3> QED
      BY <3>1, <3>2, <3>3
  <2> QED
    BY <2>3, <2>4, <2>5
<1> QED
  BY <1>1, <1>5, <1>8, <1>9 DEF CardRight, Reported

\* Cards with the same state, there or not.
LEMMA CardAlike ==
  ASSUME NEW u \in Viewers, NEW v \in Devices, NEW card, NEW new, CardRight(u, v, card),
         new # Absent <=> card # Absent, new.currentState = card.currentState
  PROVE  CardRight(u, v, new)
BY DEF CardRight, Listed, Reported

\* Every list on its way and every card stays right, or will be put right.
LEMMA ViewsStep ==
  ASSUME DeviceInv, MadeInv, DashboardTypeOK, LogInv, ValuesInv, ViewsInv, [DashboardNext]_allVars
  PROVE  ViewsInv'
<1> SUFFICES ASSUME NEW u \in Viewers \ stale', NEW v \in Devices
             PROVE  /\ u \in loaded' => CardRight(u, v, shown[u][v])'
                    /\ \A f \in Fetches : listing'[<<u, f>>].stage = "answered" =>
                         CardRight(u, v, listing[<<u, f>>].devices[v])'
  BY DEF ViewsInv
<1>0. /\ [DeviceNext]_dcVars /\ DOMAIN shown = Viewers /\ DOMAIN listing = Viewers \X Fetches
      /\ CardsOK(shown[u]) /\ CardOK(shown[u][v])
      /\ \A f \in Fetches : CardsOK(listing[<<u, f>>].devices)
      /\ position \in [Viewers -> 0..Len(Log)]
  BY ServiceSteps DEF DashboardTypeOK, CardsOK
\* What is shown is a card that was right, or one that is right by now.
<1>1. ASSUME NEW card, shown'[u][v] = card, CardRight(u, v, card)'
      PROVE  CardRight(u, v, shown[u][v])'
  BY <1>1
<1>2. ASSUME NEW f \in Fetches, NEW card, listing'[<<u, f>>].devices[v] = card, CardRight(u, v, card)'
      PROVE  CardRight(u, v, listing[<<u, f>>].devices[v])'
  BY <1>2
<1> DEFINE Shown == u \in loaded' => CardRight(u, v, shown[u][v])'
           Answer == \A f \in Fetches : listing'[<<u, f>>].stage = "answered" =>
                       CardRight(u, v, listing[<<u, f>>].devices[v])'
<1>3. ASSUME u \notin stale, u \in loaded, position'[u] = position[u], shown'[u][v] = shown[u][v]
      PROVE  CardRight(u, v, shown[u][v])'
  <2>1. PICK card : card = shown[u][v]
    OBVIOUS
  <2>2. CardRight(u, v, card)
    BY <1>3, <2>1 DEF ViewsInv
  <2> QED
    BY <1>0, <1>1, <1>3, <2>1, <2>2, CardKept
<1>4. ASSUME u \notin stale, position'[u] = position[u], NEW f \in Fetches,
             listing'[<<u, f>>] = listing[<<u, f>>] \/ listing'[<<u, f>>].stage # "answered"
      PROVE  listing'[<<u, f>>].stage = "answered" => CardRight(u, v, listing[<<u, f>>].devices[v])'
  <2>1. PICK card : card = listing[<<u, f>>].devices[v]
    OBVIOUS
  <2>2. listing[<<u, f>>].stage = "answered" => CardRight(u, v, card)
    BY <1>4, <2>1 DEF ViewsInv
  <2> QED
    BY <1>0, <1>2, <1>4, <2>1, <2>2, CardKept
<1>4a. ASSUME u \notin stale, position'[u] = position[u],
              \A f \in Fetches : listing'[<<u, f>>] = listing[<<u, f>>] \/ listing'[<<u, f>>].stage # "answered"
       PROVE  Answer
  BY <1>4, <1>4a
<1> HIDE DEF Shown, Answer
<1>5. ASSUME u \notin stale, position'[u] = position[u],
             \A f \in Fetches : listing'[<<u, f>>] = listing[<<u, f>>],
             shown'[u][v] = shown[u][v], u \in loaded' => u \in loaded
      PROVE  Shown /\ Answer
  BY <1>3, <1>4a, <1>5 DEF Shown
<1>6. CASE UNCHANGED dashboards
  <2>1. UNCHANGED <<position, listing, loaded, shown, stale>>
    BY <1>6 DEF dashboards
  <2> QED
    BY <1>5, <2>1 DEF Shown, Answer
<1>7. ASSUME NEW r \in Requests, Turn(r) PROVE Shown /\ Answer
  <2>1. UNCHANGED <<position, listing, loaded, stale>>
    BY <1>7 DEF Turn
  <2>2. PICK c : c = call'[r]
    OBVIOUS
  <2>3. /\ c.op = "control" /\ Shows(c.user, c.device) /\ c.user \in Viewers
        /\ shown' = [shown EXCEPT ![c.user] = [shown[c.user] EXCEPT ![c.device] =
                       WithValue(shown[c.user][c.device], c.key, c.value)]]
    BY <1>7, <2>2 DEF Turn, Turns, Asks
  <2>4. CASE u # c.user \/ v # c.device
    BY <1>0, <1>5, <2>1, <2>3, <2>4
  <2>5. CASE u = c.user /\ v = c.device
    <3>1. PICK card : card = shown[u][v]
      OBVIOUS
    <3>2. PICK y : y = With(card.currentState, c.key, c.value)
      OBVIOUS
    <3>3. PICK new : new = [card EXCEPT !.currentState = y, !.online = TRUE]
      OBVIOUS
    <3>4. shown'[u][v] = new
      BY <1>0, <2>3, <2>5, <3>1, <3>2, <3>3 DEF WithValue, CardsOK
    <3>5. card # Absent /\ new # Absent
      BY <1>0, <2>3, <2>5, <3>1, <3>3, DeviceAssumption DEF Shows, CardOK, Absent
    <3>6. Controlled(v)'
      BY <2>2, <2>3, <2>5 DEF Controlled
    <3>7. ASSUME u \in loaded PROVE CardRight(u, v, new)'
      <4>1. CardRight(u, v, card)
        BY <2>1, <3>1, <3>7 DEF ViewsInv
      <4>2. CardRight(u, v, card)'
        BY <1>0, <2>1, <4>1, CardKept
      <4> QED
        BY <3>5, <3>6, <4>2 DEF CardRight, Listed, Reported, Steady
    <3>8. Shown
      BY <1>1, <2>1, <3>4, <3>7 DEF Shown
    <3>9. Answer
      BY <1>4a, <2>1
    <3> QED
      BY <3>8, <3>9
  <2> QED
    BY <2>4, <2>5
<1>8. ASSUME NEW r \in Requests, Edit(r) PROVE Shown /\ Answer
  BY <1>5, <1>8 DEF Edit
<1>9. ASSUME NEW w \in Viewers, NEW g \in Fetches,
             AskForDevices(w, g) \/ CheckMember(w, g) \/ RequestFails(w, g)
      PROVE  Shown /\ Answer
  <2>1. UNCHANGED <<position, loaded, shown, stale>> /\ \E stage \in {"none", "asked", "checked"} :
          List(w, g, stage, NothingShown)
    BY <1>9 DEF AskForDevices, CheckMember, RequestFails
  <2>2. \A f \in Fetches : listing'[<<u, f>>] = listing[<<u, f>>] \/ listing'[<<u, f>>].stage # "answered"
    BY <1>0, <2>1 DEF List
  <2> QED
    BY <1>3, <1>4a, <2>1, <2>2 DEF Shown
<1>10. ASSUME NEW w \in Viewers, NEW g \in Fetches, FindDevices(w, g) PROVE Shown /\ Answer
  <2>1. UNCHANGED <<position, loaded, shown, stale>> /\ List(w, g, "answered", Snapshot)
    BY <1>10 DEF FindDevices
  <2>2. CASE w # u
    BY <1>0, <1>5, <2>1, <2>2 DEF List
  <2>3. CASE w = u
    <3>1. PICK card : card = Snapshot[v]
      OBVIOUS
    <3>2. CardRight(u, v, card)
      <4>1. CASE Here(v)
        <5>1. card = Card(device[v]) /\ device[v].name \in Names /\ device[v].domainId = Home
          BY <3>1, <4>1 DEF Snapshot, Here, Live, DeviceInv, DeviceTypeOK, DocumentOK, NoDevice
        <5>2. card # Absent /\ card.currentState = device[v].currentState
          BY <5>1, DeviceAssumption DEF Card, Absent
        <5>3. device[v].currentState =
                [k \in DOMAIN device[v].capabilities |-> device[v].currentState[k]]
          BY <4>1 DEF MadeInv, Here, Live, Known
        <5> QED
          BY <4>1, <5>1, <5>2, <5>3 DEF CardRight, Listed, Reported
      <4>2. CASE ~Here(v)
        BY <3>1, <4>2 DEF Snapshot, CardRight, Listed, Reported
      <4> QED
        BY <4>1, <4>2
    <3>3. /\ listing'[<<u, g>>].devices[v] = card
          /\ \A f \in Fetches \ {g} : listing'[<<u, f>>] = listing[<<u, f>>]
      BY <1>0, <2>1, <2>3, <3>1 DEF List
    <3>4. CardRight(u, v, card)'
      BY <1>0, <2>1, <3>2, CardKept
    <3>5. ASSUME NEW f \in Fetches
          PROVE  listing'[<<u, f>>].stage = "answered" => CardRight(u, v, listing[<<u, f>>].devices[v])'
      <4>1. CASE f = g
        BY <1>2, <3>3, <3>4, <4>1
      <4>2. CASE f # g
        BY <1>4, <2>1, <3>3, <4>2
      <4> QED
        BY <4>1, <4>2
    <3> QED
      BY <1>3, <2>1, <3>5 DEF Shown, Answer
  <2> QED
    BY <2>2, <2>3
<1>11. ASSUME NEW w \in Viewers, NEW g \in Fetches, DevicesArrive(w, g) PROVE Shown /\ Answer
  <2>1. /\ UNCHANGED <<position, stale>> /\ listing[<<w, g>>].stage = "answered"
        /\ List(w, g, "none", NothingShown) /\ loaded' = loaded \cup {w}
        /\ shown' = [shown EXCEPT ![w] = listing[<<w, g>>].devices]
    BY <1>11 DEF DevicesArrive
  <2>2. CASE w # u
    BY <1>0, <1>5, <2>1, <2>2 DEF List
  <2>3. CASE w = u
    <3>1. PICK card : card = listing[<<u, g>>].devices[v]
      OBVIOUS
    <3>2. CardRight(u, v, card)
      BY <2>1, <2>3, <3>1 DEF ViewsInv
    <3>3. CardRight(u, v, card)'
      BY <1>0, <2>1, <3>2, CardKept
    <3>4. /\ shown'[u][v] = card
          /\ \A f \in Fetches : listing'[<<u, f>>] = listing[<<u, f>>] \/ listing'[<<u, f>>].stage # "answered"
      BY <1>0, <2>1, <2>3, <3>1 DEF List
    <3> QED
      BY <1>1, <1>4a, <2>1, <3>3, <3>4 DEF Shown
  <2> QED
    BY <2>2, <2>3
<1>12. ASSUME NEW w \in Viewers, Receive(w) PROVE Shown /\ Answer
  <2>1. PICK m : m = Log[position[w] + 1]
    OBVIOUS
  <2>2. /\ UNCHANGED <<dcVars, listing, loaded>> /\ position[w] < Len(Log)
        /\ position' = [position EXCEPT ![w] = position[w] + 1]
        /\ shown' = IF w \in loaded /\ ReceivesIt(w, m)
                    THEN [shown EXCEPT ![w] = [shown[w] EXCEPT ![m.device] = Changed(@, m)]]
                    ELSE shown
        /\ stale' = IF AnswerUnderWay(w) THEN stale \cup {w} ELSE stale
    BY <1>12, <2>1 DEF Receive, Log
  <2>3. CASE w # u
    BY <1>0, <1>5, <2>2, <2>3
  <2>4. CASE w = u
    <3>1. (\A f \in Fetches : listing'[<<u, f>>].stage # "answered") /\ u \notin stale
      BY <2>2, <2>4 DEF AnswerUnderWay
    <3>2. PICK card : card = shown[u][v]
      OBVIOUS
    <3>3. PICK new : new = IF m.device = v /\ ReceivesIt(u, m) THEN Changed(card, m) ELSE card
      OBVIOUS
    <3>4. ASSUME u \in loaded PROVE CardRight(u, v, shown[u][v])'
      <4>1. CardRight(u, v, card) /\ CardOK(card)
        BY <1>0, <3>1, <3>2, <3>4 DEF ViewsInv
      <4>2. CardRight(u, v, new)'
        BY <1>0, <2>1, <2>2, <2>4, <3>3, <4>1, CardReceived
      <4>3. shown'[u][v] = new
        BY <1>0, <2>2, <2>4, <3>2, <3>3, <3>4 DEF CardsOK
      <4> QED
        BY <1>1, <4>2, <4>3
    <3> QED
      BY <2>2, <3>1, <3>4 DEF Shown, Answer
  <2> QED
    BY <2>3, <2>4
<1>13. ASSUME NEW w \in Viewers, Disconnect(w) \/ Connect(w) PROVE Shown /\ Answer
  <2>1. UNCHANGED <<listing, loaded, shown>> /\ stale \subseteq stale'
    BY <1>13 DEF Disconnect, Connect
  <2>2. position'[u] = position[u]
    <3>1. CASE Connect(w) /\ w = u
      <4>1. /\ position' = [position EXCEPT ![u] = Len(Log)] /\ position[u] \in 0..Len(Log)
            /\ stale' = IF position[u] < Len(Log) THEN stale \cup {u} ELSE stale
            /\ Len(Log) \in Nat
        BY <1>0, <3>1 DEF Connect, Log, DashboardTypeOK
      <4> QED
        BY <1>0, <4>1
    <3>2. CASE ~(Connect(w) /\ w = u)
      BY <1>0, <1>13, <3>2 DEF Disconnect, Connect
    <3> QED
      BY <3>1, <3>2
  <2> QED
    BY <1>5, <2>1, <2>2
<1>14. ASSUME NEW r \in edits, EditFails(r) PROVE Shown /\ Answer
  BY <1>5, <1>14 DEF EditFails, Answered
<1>15. ASSUME NEW r \in edits, DeleteDone(r) PROVE Shown /\ Answer
  <2>1. /\ UNCHANGED <<position, listing, loaded, stale>>
        /\ shown' = [shown EXCEPT ![call[r].user] =
                       [shown[call[r].user] EXCEPT ![call[r].device] = Absent]]
        /\ call[r].user \in Viewers
    BY <1>15 DEF DeleteDone, Answered, DashboardTypeOK
  <2>2. CASE u # call[r].user \/ v # call[r].device
    BY <1>0, <1>5, <2>1, <2>2
  <2>3. CASE u = call[r].user /\ v = call[r].device
    <3>1. Deleted(v)
      BY <1>15, <2>3 DEF DeleteDone, Done, MadeInv
    <3>2. PICK card : card = Absent
      OBVIOUS
    <3>3. CardRight(u, v, card)
      BY <3>1, <3>2 DEF CardRight, Listed, Reported, Here, Live, Deleted
    <3>4. CardRight(u, v, card)'
      BY <1>0, <2>1, <3>3, CardKept
    <3>5. shown'[u][v] = card
      BY <1>0, <2>1, <2>3, <3>2 DEF CardsOK
    <3> QED
      BY <1>1, <1>4a, <2>1, <3>4, <3>5 DEF Shown
  <2> QED
    BY <2>2, <2>3
<1>16. ASSUME NEW r \in edits, RenameDone(r) PROVE Shown /\ Answer
  <2>1. /\ UNCHANGED <<position, listing, loaded>>
        /\ shown' = [shown EXCEPT ![call[r].user] = [shown[call[r].user] EXCEPT ![call[r].device] =
                       [shown[call[r].user][call[r].device] EXCEPT !.name = call[r].name]]]
        /\ stale' = IF Shows(call[r].user, call[r].device) THEN stale ELSE stale \cup {call[r].user}
        /\ call[r].user \in Viewers /\ call[r].op = "rename" /\ r \in Requests
    BY <1>16 DEF RenameDone, Answered, DashboardTypeOK
  <2>2. CASE u # call[r].user \/ v # call[r].device
    BY <1>0, <1>5, <2>1, <2>2
  <2>3. CASE u = call[r].user /\ v = call[r].device
    <3>1. PICK card : card = shown[u][v]
      OBVIOUS
    <3>2. PICK new : new = [card EXCEPT !.name = call[r].name]
      OBVIOUS
    <3>3. card # Absent /\ UNCHANGED stale
      BY <2>1, <2>3, <3>1 DEF Shows
    <3>4. call[r].name \in Names
      BY <2>1, CallFields DEF DeviceInv, DeviceTypeOK, NoCall
    <3>5. new # Absent /\ new.currentState = card.currentState
      BY <1>0, <3>1, <3>2, <3>4, DeviceAssumption DEF CardOK, Absent
    <3>6. ASSUME u \in loaded PROVE CardRight(u, v, shown[u][v])'
      <4>1. CardRight(u, v, card)
        BY <3>1, <3>3, <3>6 DEF ViewsInv
      <4>2. CardRight(u, v, new)
        BY <3>3, <3>5, <4>1, CardAlike
      <4>3. CardRight(u, v, new)'
        BY <1>0, <2>1, <4>2, CardKept
      <4>4. shown'[u][v] = new
        BY <1>0, <2>1, <2>3, <3>1, <3>2 DEF CardsOK
      <4> QED
        BY <1>1, <4>3, <4>4
    <3> QED
      BY <1>4a, <2>1, <3>3, <3>6 DEF Shown
  <2> QED
    BY <2>2, <2>3
<1> QED
  BY <1>6, <1>7, <1>8, <1>9, <1>10, <1>11, <1>12, <1>13, <1>14, <1>15, <1>16
  DEF DashboardNext, DashboardStep, allVars, dashboards, Shown, Answer

-----------------------------------------------------------------------------
(* Theorems about the dashboards *)

\* When nothing was asked, told or shown, the invariant holds.
LEMMA InitDashboards == DashboardInit => DashboardInv
<1> SUFFICES ASSUME DashboardInit PROVE DashboardInv
  OBVIOUS
<1>0. PICK earlier \in SUBSET Devices, u \in Users, d \in Domains, n \in Names,
           offer \in {o \in Offers : Acceptable(o)} :
        device = [w \in Devices |-> IF w \in earlier THEN NewDevice(u, d, offer, n) ELSE NoDevice]
  BY DEF DashboardInit, DeviceInit
<1>1. ASSUME NEW v \in Devices, Known(v)
      PROVE  /\ ~Deleted(v)
             /\ device[v].currentState = CreateCurrentState(device[v].capabilities)
  <2>1. device[v] = NewDevice(u, d, offer, n)
    BY <1>0, <1>1 DEF Known, NoDevice
  <2> QED
    BY <2>1, NewDeviceOK DEF Deleted
<1>2. /\ Log = <<>> /\ DOMAIN emitted = Domains /\ bus = {} /\ edits = {} /\ loaded = {} /\ stale = {}
      /\ \A r \in Requests : call[r] = NoCall /\ pc[r] = "idle"
      /\ \A v \in Devices : madeBy[v] = Nobody
      /\ connected = Viewers /\ position = [w \in Viewers |-> 0]
      /\ listing = [q \in Viewers \X Fetches |-> NotListing]
      /\ shown = [w \in Viewers |-> NothingShown]
  BY DashboardAssumption DEF DashboardInit, DeviceInit, Log
<1>3. DashboardTypeOK
  <2>1. CardOK(Absent) /\ CardsOK(NothingShown)
    BY DEF CardOK, CardsOK, NothingShown
  <2>2. Log \in Seq(Messages) /\ Len(Log) = 0
    BY <1>2
  <2>3. position \in [Viewers -> 0..Len(Log)]
    BY <1>2, <2>2
  <2> QED
    BY <1>2, <2>1, <2>2, <2>3 DEF DashboardTypeOK, NotListing
<1>4. MadeInv
  <2>1. \A v \in Devices : Known(v) => device[v].currentState =
          [k \in DOMAIN device[v].capabilities |-> device[v].currentState[k]]
    BY <1>1 DEF CreateCurrentState
  <2> QED
    BY <1>2, <2>1 DEF MadeInv, NoCall
<1>5. LogInv
  BY <1>1, <1>2 DEF LogInv, Deleted, Known
<1>6. ValuesInv
  <2>1. ASSUME NEW v \in Devices, Steady(v), NEW k \in DOMAIN device[v].capabilities
        PROVE  ValueOK(v, k)
    <3>1. device[v].currentState = CreateCurrentState(device[v].capabilities)
      BY <1>1, <2>1 DEF Steady, Here, Live, Known
    <3>2. \A r \in Requests : ~TellsOf(r, v, k)
      BY <1>2 DEF TellsOf
    <3>3. \A i \in DOMAIN Log : ~Reports(i, v, k)
      BY <1>2
    <3> QED
      BY <3>1, <3>2, <3>3 DEF ValueOK
  <2> QED
    BY <2>1 DEF ValuesInv
<1>7. ViewsInv
  BY <1>2 DEF ViewsInv, NotListing
<1> QED
  BY <1>3, <1>4, <1>5, <1>6, <1>7 DEF DashboardInv

\* The service below the dashboards is the one of the theorems above: all of them hold
\* with the dashboards too.
THEOREM DashboardsUseTheService == DashboardSpec => DeviceSpec
<1>1. DashboardInit => DeviceInit
  BY DEF DashboardInit
<1> QED
  BY <1>1, ServiceSteps, PTL DEF DashboardSpec, DeviceSpec

\* The invariant of the dashboards: what is listed or shown is right, or what the
\* socket has still to deliver and the requests have still to tell will make it so.
THEOREM DashboardInvariant == DashboardSpec => []DashboardInv
<1>1. DeviceInv /\ TwinInv /\ AnnouncedInv /\ DashboardInv /\ [DashboardNext]_allVars => DashboardInv'
  <2> SUFFICES ASSUME DeviceInv, TwinInv, AnnouncedInv, DashboardInv, [DashboardNext]_allVars
               PROVE  DashboardInv'
    OBVIOUS
  <2> QED
    BY ServiceSteps, DashboardTypeStep, MadeStep, LogInvStep, ValuesStep, ViewsStep DEF DashboardInv
<1> QED
  BY <1>1, InitDashboards, DashboardsUseTheService, InductiveInvariant, TwinInvariant,
     AnnouncedInvariant, PTL DEF DashboardSpec

\* A dashboard that has received all it will lists the devices of its domain and no
\* other, unless it missed a message, an event was lost or a deletion overtook the
\* creation.
THEOREM UpToDateDashboardsListTheDevicesAlways ==
  DashboardSpec => []UpToDateDashboardsListTheDevices
<1>1. DeviceInv /\ DashboardInv => UpToDateDashboardsListTheDevices
  <2> SUFFICES ASSUME DeviceInv, DashboardInv, NEW u \in Viewers, NEW v \in Devices, UpToDate(u), v \notin lost,
                      ~Crossed(v)
               PROVE  Shows(u, v) <=> Here(v)
    BY DEF UpToDateDashboardsListTheDevices
  <2>1. Listed(u, v, shown[u][v])
    BY DEF DashboardInv, ViewsInv, CardRight, UpToDate
  <2>2. \A r \in Requests : pc[r] # "tell"
    BY DEF UpToDate, Quiet, Open, Stages
  <2>3. Log \in Seq(Messages) /\ position[u] = Len(Log)
    BY DEF DashboardInv, DashboardTypeOK, UpToDate, Log
  <2>4. \A event : ~Ahead(u, event, v)
    BY <2>3 DEF Ahead
  <2>5. ~Unmaking(v)
    BY <2>2 DEF Unmaking
  <2>6. ~Making(v)
    BY <2>2, Makers DEF Making
  <2> QED
    BY <2>1, <2>4, <2>5, <2>6 DEF Listed, Shows
<1> QED
  BY <1>1, DashboardInvariant, DashboardsUseTheService, InductiveInvariant, PTL

\* The values that a dashboard shows of a device that nobody controls are those of its
\* document.
THEOREM ReportsReachTheDashboardsAlways == DashboardSpec => []ReportsReachTheDashboards
<1>1. DashboardInv => ReportsReachTheDashboards
  <2> SUFFICES ASSUME DashboardInv, NEW u \in Viewers, NEW v \in Devices,
                      UpToDate(u), Shows(u, v), Here(v), v \notin shaky,
                      \A r \in Requests : call[r].op = "control" => call[r].device # v
               PROVE  shown[u][v].currentState = device[v].currentState
    BY DEF ReportsReachTheDashboards
  <2>1. Reported(u, v, shown[u][v])
    BY DEF DashboardInv, ViewsInv, CardRight, UpToDate
  <2>2. \A r \in Requests : pc[r] # "tell"
    BY DEF UpToDate, Quiet, Open, Stages
  <2>3. Log \in Seq(Messages) /\ position[u] = Len(Log)
    BY DEF DashboardInv, DashboardTypeOK, UpToDate, Log
  <2>4. \A k : ~Coming(u, v, k)
    BY <2>2, <2>3 DEF Coming, Reporting, TellsOf
  <2>5. shown[u][v].currentState = [k \in DOMAIN device[v].capabilities |-> device[v].currentState[k]]
    BY <2>1, <2>4 DEF Reported, Steady, Controlled, Shows
  <2>6. device[v].currentState = [k \in DOMAIN device[v].capabilities |-> device[v].currentState[k]]
    BY DEF DashboardInv, MadeInv, Here, Live, Known
  <2> QED
    BY <2>5, <2>6
<1> QED
  BY <1>1, DashboardInvariant, PTL

=============================================================================
