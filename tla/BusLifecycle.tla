---------------------------- MODULE BusLifecycle ----------------------------
(***************************************************************************)
(* A service around its event bus: the HTTP server process of index.ts,    *)
(* class EventBus (services/eventbus/src/event_bus.ts), which forks the    *)
(* worker process, and class BaseWorker (base_worker.ts), which obeys the  *)
(* flags that arrive over the IPC channel and drives an EventListener.     *)
(*                                                                         *)
(* The server process is process 1 of a container: when it exits, the      *)
(* worker is killed.  A container that ended may be started again.         *)
(* EventListener has the worker's own protocol; its actions appear here    *)
(* when a flag or the running worker causes them.                          *)
(***************************************************************************)
EXTENDS EventListener

VARIABLES
  service,       \* the server process: "off", "booting" while the sender connects, "up",
                 \* "draining" in server.close, "stopping" in EventBus.stop
  isListening,   \* EventBus.isListening, what /readyz reports
  child,         \* the worker process: "none", "forked", "created" with its listener
  toWorker,      \* flags on their way to the worker, oldest first
  toServer       \* flags on their way to the server, and the event "exit"

lifecycle == <<service, isListening, child, toWorker, toServer>>
busVars == <<vars, lifecycle>>

Flags == {"CREATE", "START", "STOP", "READY", "ERROR", "STOPPED", "exit"}

BusTypeOK ==
  /\ service \in [Workers -> {"off", "booting", "up", "draining", "stopping"}]
  /\ isListening \in [Workers -> BOOLEAN]
  /\ child \in [Workers -> {"none", "forked", "created"}]
  /\ toWorker \in [Workers -> Seq(Flags)]
  /\ toServer \in [Workers -> Seq(Flags)]

BusInit ==
  /\ Init
  /\ service = [w \in Workers |-> "off"]
  /\ isListening = [w \in Workers |-> FALSE]
  /\ child = [w \in Workers |-> "none"]
  /\ toWorker = [w \in Workers |-> <<>>]
  /\ toServer = [w \in Workers |-> <<>>]

TellWorker(w, flags) == toWorker' = [toWorker EXCEPT ![w] = @ \o flags]
TellServer(w, flags) == toServer' = [toServer EXCEPT ![w] = @ \o flags]

-----------------------------------------------------------------------------
(* The server process *)

\* app.listen: requests are served from here on, while EventBus.init connects.
Boot(w) ==
  /\ service[w] = "off"
  /\ service' = [service EXCEPT ![w] = "booting"]
  /\ UNCHANGED <<vars, isListening, child, toWorker, toServer>>

\* EventBus.init, the sender being connected, and EventBus.start.
Fork(w) ==
  /\ service[w] = "booting"
  /\ service' = [service EXCEPT ![w] = "up"]
  /\ child' = [child EXCEPT ![w] = "forked"]
  /\ TellWorker(w, <<"CREATE", "START">>)
  /\ UNCHANGED <<vars, isListening, toServer>>

\* Plausible fault: the exit of the worker is not listened to.
ServerIgnoresExit(w) ==
  /\ toServer[w] # <<>>
  /\ toServer' = [toServer EXCEPT ![w] = Tail(@)]
  /\ isListening' = [isListening EXCEPT ![w] =
       CASE Head(toServer[w]) = "READY" -> TRUE
         [] Head(toServer[w]) = "STOPPED" -> FALSE
         [] OTHER -> @]
  /\ UNCHANGED <<vars, service, child, toWorker>>

\* The handler of the worker's flags, and of its exit; an error is only logged.
ServerHears(w) ==
  /\ toServer[w] # <<>>
  /\ toServer' = [toServer EXCEPT ![w] = Tail(@)]
  /\ isListening' = [isListening EXCEPT ![w] =
       CASE Head(toServer[w]) = "READY" -> TRUE
         [] Head(toServer[w]) \in {"STOPPED", "exit"} -> FALSE
         [] OTHER -> @]
  /\ UNCHANGED <<vars, service, child, toWorker>>

\* The server process exits, and the container with it.
Ends(w) ==
  /\ service' = [service EXCEPT ![w] = "off"]
  /\ isListening' = [isListening EXCEPT ![w] = FALSE]
  /\ child' = [child EXCEPT ![w] = "none"]
  /\ toWorker' = [toWorker EXCEPT ![w] = <<>>]
  /\ toServer' = [toServer EXCEPT ![w] = <<>>]
  /\ IF phase[w] = "down" THEN UNCHANGED vars ELSE Crash(w)

\* SIGTERM or SIGINT: shutdown() closes the HTTP server.
Shutdown(w) ==
  /\ service[w] \in {"booting", "up"}
  /\ service' = [service EXCEPT ![w] = "draining"]
  /\ UNCHANGED <<vars, isListening, child, toWorker, toServer>>

\* The last request is answered; EventBus.stop tells a worker that has reported
\* READY to stop, and leaves any other as it is: the process exits.
Stop(w) ==
  /\ service[w] = "draining"
  /\ IF isListening[w]
     THEN /\ service' = [service EXCEPT ![w] = "stopping"]
          /\ TellWorker(w, <<"STOP">>)
          /\ UNCHANGED <<vars, isListening, child, toServer>>
     ELSE Ends(w)

\* waitForStop returns, and the process exits.
StopReturns(w) ==
  /\ service[w] = "stopping"
  /\ ~isListening[w]
  /\ Ends(w)

\* After a signal: the telemetry SDK has shut down first and exits, or a second
\* signal makes server.close fail.
CutShort(w) ==
  /\ service[w] \in {"draining", "stopping"}
  /\ Ends(w)

\* At any time: killed, or an error that nobody handles (a sender that cannot connect).
Killed(w) ==
  /\ service[w] # "off"
  /\ Ends(w)

-----------------------------------------------------------------------------
(* The worker process *)

\* CREATE: the listener and, in onCreate, its handlers.
Create(w) ==
  /\ child' = [child EXCEPT ![w] = "created"]
  /\ UNCHANGED <<vars, service, isListening, toServer>>

\* START: listen() begins.
StartListening(w) ==
  /\ Start(w)
  /\ UNCHANGED <<service, isListening, child, toServer>>

\* Plausible fault: stop() reports STOPPED before it awaits close().
ReportStoppedAtOnce(w) ==
  /\ IF closing[w] = "no" THEN Close(w) ELSE UNCHANGED vars
  /\ TellServer(w, <<"STOPPED">>)
  /\ UNCHANGED <<service, isListening, child>>

\* STOP: close() begins; a second call changes nothing.
StopListening(w) ==
  /\ IF closing[w] = "no" THEN Close(w) ELSE UNCHANGED vars
  /\ UNCHANGED <<service, isListening, child, toServer>>

\* The handler of the server's flags.
WorkerHears(w) ==
  /\ child[w] # "none" /\ toWorker[w] # <<>>
  /\ toWorker' = [toWorker EXCEPT ![w] = Tail(@)]
  /\ \/ Head(toWorker[w]) = "CREATE" /\ Create(w)
     \/ Head(toWorker[w]) = "START" /\ StartListening(w)
     \/ Head(toWorker[w]) = "STOP" /\ StopListening(w)

\* SIGINT or SIGTERM of the worker process: it stops without being told.  (One whose
\* listener has no connections yet has nothing to close and exits: WorkerDies.)
WorkerSignalled(w) ==
  /\ phase[w] # "down"
  /\ StopListening(w)
  /\ UNCHANGED toWorker

\* listen() calls onReady.
ReportReady(w) ==
  /\ BeginListening(w)
  /\ TellServer(w, <<"READY">>)
  /\ UNCHANGED <<service, isListening, child, toWorker>>

\* listen() rejects.
ReportError(w) ==
  /\ ListenFails(w)
  /\ TellServer(w, <<"ERROR">>)
  /\ UNCHANGED <<service, isListening, child, toWorker>>

Gone(w) ==
  /\ child' = [child EXCEPT ![w] = "none"]
  /\ toWorker' = [toWorker EXCEPT ![w] = <<>>]
  /\ UNCHANGED <<service, isListening>>

\* close() has resolved, or rejected: the worker exits.
ReportStopped(w) ==
  /\ Exit(w)
  /\ TellServer(w, <<"STOPPED", "exit">>)
  /\ Gone(w)

\* The worker process dies; nobody forks another.
WorkerDies(w) ==
  /\ child[w] # "none"
  /\ IF phase[w] = "down" THEN UNCHANGED vars ELSE Crash(w)
  /\ TellServer(w, <<"exit">>)
  /\ Gone(w)

\* The listener goes on by itself.
Listens(w) ==
  /\ \/ Claim(w) \/ ReadGroup(w) \/ Receive(w)
     \/ \E m \in Message : Handler(w, m) \/ AckApplied(w, m)
  /\ UNCHANGED lifecycle

-----------------------------------------------------------------------------
ServerStep(w) ==
  \/ Boot(w) \/ Fork(w) \/ ServerHears(w) \/ Shutdown(w) \/ Stop(w) \/ StopReturns(w)
  \/ CutShort(w) \/ Killed(w)

BusWorkerStep(w) ==
  \/ WorkerHears(w) \/ WorkerSignalled(w) \/ ReportReady(w) \/ ReportError(w)
  \/ ReportStopped(w) \/ WorkerDies(w) \/ Listens(w)

Environment ==
  /\ MinutePasses \/ \E s \in Streams : Send(s)
  /\ UNCHANGED lifecycle

BusNext ==
  \/ Environment
  \/ \E w \in Workers : ServerStep(w) \/ BusWorkerStep(w)

BusSpec == BusInit /\ [][BusNext]_busVars

\* Redis answers and handlers end (they are database transactions with a time
\* limit); flags arrive; a server that was told to shut down answers its last
\* request and polls isListening.
BusFairness ==
  \A w \in Workers :
    /\ WF_busVars(ServerHears(w))
    /\ WF_busVars(WorkerHears(w))
    /\ WF_busVars(Stop(w))
    /\ WF_busVars(StopReturns(w))
    /\ WF_busVars(ReportReady(w))
    /\ WF_busVars(ReportStopped(w))
    /\ WF_busVars(Claim(w) /\ UNCHANGED lifecycle)
    /\ WF_busVars(ReadGroup(w) /\ UNCHANGED lifecycle)
    /\ WF_busVars(Receive(w) /\ UNCHANGED lifecycle)
    /\ \A m \in Message :
         /\ WF_busVars(Handler(w, m) /\ UNCHANGED lifecycle)
         /\ WF_busVars(AckApplied(w, m) /\ UNCHANGED lifecycle)

FairBusSpec == BusSpec /\ BusFairness

-----------------------------------------------------------------------------
\* EventBus.stop waits for the worker: when waitForStop returns, no handler of
\* the service is running and the worker has ended by itself, whatever flags
\* crossed on the channel.  (A service that stops before READY, or is cut short,
\* makes no such promise.)
StopAwaitsTheWorker ==
  \A w \in Workers : service[w] = "stopping" /\ ~isListening[w] =>
    phase[w] = "down" /\ running[w] = {}

\* A service that is told to stop does stop, even if its worker dies meanwhile.
StopTerminates ==
  \A w \in Workers : service[w] \in {"draining", "stopping"} ~> service[w] = "off"

\* What /readyz says of the event bus is true, or will be as soon as the flags on
\* their way have arrived, unless the connection to Redis broke: an error of the
\* loop leaves isListening as it was.
ReadyMeansListening ==
  \A w \in Workers :
    toServer[w] = <<>> /\ phase[w] # "dead" /\ closing[w] = "no" =>
      (isListening[w] <=> phase[w] = "listen")

(* The inductive invariant behind these (EventBusProofs) *)

\* What a worker process that has not started to listen looks like.
DownIsFresh ==
  \A w \in Workers : phase[w] = "down" =>
    running[w] = {} /\ queue[w] = <<>> /\ reply[w] = <<>> /\ closing[w] = "no"

\* A worker without a process is down; one is forked by a server that is up, and
\* a server that stops either still believes in its worker or has none.
WorkersHaveServers ==
  \A w \in Workers :
    /\ child[w] = "none" => phase[w] = "down"
    /\ service[w] \in {"off", "booting"} => child[w] = "none"
    /\ service[w] = "stopping" => isListening[w] \/ child[w] = "none"

\* What is on its way to the server: the end of the worker last, READY while it
\* listens, and nothing before.
TellsThePhase(w) ==
  /\ child[w] # "none" => \A i \in DOMAIN toServer[w] : toServer[w][i] \notin {"STOPPED", "exit"}
  /\ child[w] = "none" /\ toServer[w] = <<>> => ~isListening[w]
  /\ child[w] = "none" /\ toServer[w] # <<>> => toServer[w][Len(toServer[w])] = "exit"
  /\ service[w] \in {"off", "booting"} => toServer[w] = <<>>
  /\ child[w] # "none" /\ phase[w] \in {"down", "init"} => toServer[w] = <<>> /\ ~isListening[w]
  /\ phase[w] = "listen" =>
       \/ toServer[w] = <<>> /\ isListening[w]
       \/ toServer[w] = <<"READY">>

FlagsTellThePhase == \A w \in Workers : TellsThePhase(w)

BusInv == BusTypeOK /\ DownIsFresh /\ WorkersHaveServers /\ FlagsTellThePhase

=============================================================================
