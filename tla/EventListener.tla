--------------------------- MODULE EventListener ---------------------------
(***************************************************************************)
(* The listening half of the event bus: class EventListener and class      *)
(* semaphore of services/eventbus/src/event_bus_components.ts, together    *)
(* with the Redis consumer group they drive.                               *)
(*                                                                         *)
(* Every service forks one worker process that owns one EventListener; the *)
(* instances of a scaled service share one consumer group.  A worker first *)
(* claims what has been pending for a minute (xAutoClaim, one page of each *)
(* stream), then loops: read a batch of new entries of all streams         *)
(* (xReadGroup ">"), run the handlers of the whole batch concurrently under *)
(* a semaphore, and read again when the last handler has finished.  An     *)
(* entry is acknowledged after its handler resolved; when it rejects, the  *)
(* entry stays in the pending entries list (PEL).                          *)
(*                                                                         *)
(* JavaScript runs one callback at a time, so one action is one callback:  *)
(* it runs up to the next await that really waits for I/O.                 *)
(***************************************************************************)
EXTENDS Integers, Sequences, FiniteSets

CONSTANTS Workers,        \* the worker processes of one consumer group
          Streams,        \* the registered streams, numbered in registration order
          MaxLen,         \* bound: entries added to one stream
          MaxCount,       \* config.maxCount: entries taken from a stream at a time
          MaxConcurrent   \* config.maxConcurrent: tokens of the semaphore

ASSUME ListenerAssumption ==
  /\ Streams \subseteq Nat
  /\ IsFiniteSet(Streams)
  /\ MaxLen \in Nat
  /\ MaxCount \in Nat \ {0}
  /\ MaxConcurrent \in Nat \ {0}

VARIABLES
  sent,       \* Redis: number of entries of each stream
  group,      \* Redis: last-delivered id of the consumer group on each stream
  pel,        \* Redis: entries delivered and not acknowledged
  aged,       \* Redis: entries of the PEL that have been idle for a minute
  phase,      \* where the worker is: "down", "init", "listen", "dead"
  toClaim,    \* init(): the streams whose pending entries are still to be claimed
  reply,      \* the answer of xAutoClaim / xReadGroup not yet received
  count,      \* semaphore.count
  queue,      \* semaphore.queue: the messages whose acquire() waits
  running,    \* the messages whose handler holds a token
  acking,     \* xAck commands sent and not yet executed by Redis
  listening,  \* EventListener.listening
  closing,    \* close(): "no", "waiting" for the tokens, "drained"
  handled,    \* history: messages processed at least once without an error
  failed      \* history: messages whose latest processing threw

redis == <<sent, group, pel, aged>>
tokens == <<count, queue, running>>
history == <<handled, failed>>
vars == <<sent, group, pel, aged, phase, toClaim, reply, count, queue, running,
          acking, listening, closing, handled, failed>>

-----------------------------------------------------------------------------
\* A message is an entry of a stream: the stream and its position in it.
Message == Streams \X (1..MaxLen)

Delivered == {m \in Message : m[2] <= group[m[1]]}
InStream == {m \in Message : m[2] <= sent[m[1]]}

\* Replies list the streams in registration order, each one by entry id.
Before(a, b) == \/ a[1] < b[1]
                \/ a[1] = b[1] /\ a[2] < b[2]

IsBatch(q, B) ==
  /\ q \in [1..Cardinality(B) -> B]
  /\ \A i, j \in DOMAIN q : i < j => Before(q[i], q[j])

\* What xReadGroup ">" COUNT maxCount hands out: the next entries of each stream.
NewEntries ==
  {m \in InStream : /\ group[m[1]] < m[2]
                    /\ m[2] <= group[m[1]] + MaxCount}

\* What xAutoClaim from id 0 COUNT maxCount claims: the first idle entries.
ClaimableEntries(s) ==
  {m \in aged : /\ m[1] = s
                /\ Cardinality({k \in aged : k[1] = s /\ k[2] < m[2]}) < MaxCount}

\* Promise.all of the batch has settled: no handler runs and none waits.
Idle(w) == running[w] = {} /\ queue[w] = <<>>

TypeOK ==
  /\ sent \in [Streams -> 0..MaxLen]
  /\ group \in [Streams -> 0..MaxLen]
  /\ pel \subseteq Message
  /\ aged \subseteq Message
  /\ phase \in [Workers -> {"down", "init", "listen", "dead"}]
  /\ toClaim \in [Workers -> SUBSET Streams]
  /\ reply \in [Workers -> Seq(Message)]
  /\ count \in [Workers -> 0..MaxConcurrent]
  /\ queue \in [Workers -> Seq(Message)]
  /\ running \in [Workers -> SUBSET Message]
  /\ acking \in [Workers -> SUBSET Message]
  /\ listening \in [Workers -> BOOLEAN]
  /\ closing \in [Workers -> {"no", "waiting", "drained"}]
  /\ handled \subseteq Message
  /\ failed \subseteq Message

Init ==
  /\ sent = [s \in Streams |-> 0]
  /\ group = [s \in Streams |-> 0]
  /\ pel = {}
  /\ aged = {}
  /\ phase = [w \in Workers |-> "down"]
  /\ toClaim = [w \in Workers |-> {}]
  /\ reply = [w \in Workers |-> <<>>]
  /\ count = [w \in Workers |-> MaxConcurrent]
  /\ queue = [w \in Workers |-> <<>>]
  /\ running = [w \in Workers |-> {}]
  /\ acking = [w \in Workers |-> {}]
  /\ listening = [w \in Workers |-> FALSE]
  /\ closing = [w \in Workers |-> "no"]
  /\ handled = {}
  /\ failed = {}

-----------------------------------------------------------------------------
\* EventSender.send: xAdd appends one entry.
Send(s) ==
  /\ sent[s] < MaxLen
  /\ sent' = [sent EXCEPT ![s] = @ + 1]
  /\ UNCHANGED <<group, pel, aged, phase, toClaim, reply, tokens, acking,
                 listening, closing, history>>

\* Redis's clock: everything pending has now been idle for 60 seconds.
MinutePasses ==
  /\ aged # pel
  /\ aged' = pel
  /\ UNCHANGED <<sent, group, pel, phase, toClaim, reply, tokens, acking,
                 listening, closing, history>>

\* A new worker process calls listen(); init() connects and creates the groups
\* (BUSYGROUP is ignored, so an existing group keeps its position).
Start(w) ==
  /\ phase[w] = "down"
  /\ phase' = [phase EXCEPT ![w] = "init"]
  /\ toClaim' = [toClaim EXCEPT ![w] = Streams]
  /\ UNCHANGED <<redis, reply, tokens, acking, listening, closing, history>>

\* processPendingMessages: claim the idle entries of the next stream, one page.
Claim(w) ==
  /\ phase[w] = "init"
  /\ closing[w] = "no"
  /\ Idle(w)
  /\ reply[w] = <<>>
  /\ \E s \in toClaim[w] :
       /\ \A t \in toClaim[w] : s <= t
       /\ toClaim' = [toClaim EXCEPT ![w] = @ \ {s}]
       /\ aged' = aged \ ClaimableEntries(s)
       /\ \E q \in [1..Cardinality(ClaimableEntries(s)) -> ClaimableEntries(s)] :
            /\ IsBatch(q, ClaimableEntries(s))
            /\ reply' = [reply EXCEPT ![w] = q]
  /\ UNCHANGED <<sent, group, pel, phase, tokens, acking, listening, closing, history>>

\* init() has returned: the loop starts and the parent is told READY.
BeginListening(w) ==
  /\ phase[w] = "init"
  /\ closing[w] = "no"
  /\ toClaim[w] = {}
  /\ Idle(w)
  /\ reply[w] = <<>>
  /\ phase' = [phase EXCEPT ![w] = "listen"]
  /\ listening' = [listening EXCEPT ![w] = TRUE]
  /\ UNCHANGED <<redis, toClaim, reply, tokens, acking, closing, history>>

\* Redis answers xReadGroup: the entries enter the PEL, the answer is on its way.
\* (An empty answer after the block time changes nothing.)
ReadGroup(w) ==
  /\ phase[w] = "listen"
  /\ listening[w]
  /\ Idle(w)
  /\ reply[w] = <<>>
  /\ NewEntries # {}
  /\ \E q \in [1..Cardinality(NewEntries) -> NewEntries] :
       /\ IsBatch(q, NewEntries)
       /\ reply' = [reply EXCEPT ![w] = q]
  /\ pel' = pel \cup NewEntries
  /\ group' = [s \in Streams |-> IF sent[s] <= group[s] + MaxCount
                                 THEN sent[s] ELSE group[s] + MaxCount]
  /\ UNCHANGED <<sent, aged, phase, toClaim, tokens, acking, listening, closing, history>>

\* semaphore.acquire, called for every message of the batch in turn: the first
\* ones take the free tokens and start, the others wait in the queue.
AcquireAll(w, q) ==
  LET n == IF Len(q) <= count[w] THEN Len(q) ELSE count[w]
  IN  /\ running' = [running EXCEPT ![w] = @ \cup {q[i] : i \in 1..n}]
      /\ queue' = [queue EXCEPT ![w] = @ \o SubSeq(q, n + 1, Len(q))]
      /\ count' = [count EXCEPT ![w] = @ - n]

\* Plausible fault: close() leaves the reading connection open.
ReceiveAfterDrain(w) ==
  /\ phase[w] \in {"init", "listen"}
  /\ reply[w] # <<>>
  /\ AcquireAll(w, reply[w])
  /\ reply' = [reply EXCEPT ![w] = <<>>]
  /\ UNCHANGED <<redis, phase, toClaim, acking, listening, closing, history>>

\* processStream of every stream of the answer, up to the handlers' first await.
Receive(w) ==
  /\ phase[w] \in {"init", "listen"}
  /\ closing[w] # "drained"
  /\ reply[w] # <<>>
  /\ AcquireAll(w, reply[w])
  /\ reply' = [reply EXCEPT ![w] = <<>>]
  /\ UNCHANGED <<redis, phase, toClaim, acking, listening, closing, history>>

\* Plausible fault: the token is returned although a waiting message took it over.
ReleaseMintsToken(w, m) ==
  /\ running' = [running EXCEPT ![w] = (@ \ {m}) \cup
                    (IF queue[w] = <<>> THEN {} ELSE {Head(queue[w])})]
  /\ queue' = [queue EXCEPT ![w] = IF @ = <<>> THEN @ ELSE Tail(@)]
  /\ count' = [count EXCEPT ![w] = @ + 1]
  /\ closing' = IF closing[w] = "waiting" /\ count[w] + 1 = MaxConcurrent
                THEN [closing EXCEPT ![w] = "drained"]
                ELSE closing

\* Plausible fault: release() returns the token and wakes nobody up.
ReleaseWakesNobody(w, m) ==
  /\ running' = [running EXCEPT ![w] = @ \ {m}]
  /\ count' = [count EXCEPT ![w] = @ + 1]
  /\ closing' = IF closing[w] = "waiting" /\ count[w] + 1 = MaxConcurrent
                THEN [closing EXCEPT ![w] = "drained"]
                ELSE closing
  /\ UNCHANGED queue

\* Plausible fault: release() forgets the promise close() waits for.
ReleaseForgetsClose(w, m) ==
  \/ /\ queue[w] # <<>>
     /\ running' = [running EXCEPT ![w] = (@ \ {m}) \cup {Head(queue[w])}]
     /\ queue' = [queue EXCEPT ![w] = Tail(@)]
     /\ UNCHANGED <<count, closing>>
  \/ /\ queue[w] = <<>>
     /\ running' = [running EXCEPT ![w] = @ \ {m}]
     /\ count' = [count EXCEPT ![w] = @ + 1]
     /\ UNCHANGED <<queue, closing>>

\* semaphore.release: a waiting message inherits the token; otherwise the token
\* goes back, and the last one back resolves the promise close() waits for.
Release(w, m) ==
  \/ /\ queue[w] # <<>>
     /\ running' = [running EXCEPT ![w] = (@ \ {m}) \cup {Head(queue[w])}]
     /\ queue' = [queue EXCEPT ![w] = Tail(@)]
     /\ UNCHANGED <<count, closing>>
  \/ /\ queue[w] = <<>>
     /\ running' = [running EXCEPT ![w] = @ \ {m}]
     /\ count' = [count EXCEPT ![w] = @ + 1]
     /\ closing' = IF closing[w] = "waiting" /\ count[w] + 1 = MaxConcurrent
                   THEN [closing EXCEPT ![w] = "drained"]
                   ELSE closing
     /\ UNCHANGED queue

\* The handler resolves: xAck is sent without waiting for it, the token returns.
HandlerSucceeds(w, m) ==
  /\ m \in running[w]
  /\ acking' = [acking EXCEPT ![w] = @ \cup {m}]
  /\ handled' = handled \cup {m}
  /\ failed' = failed \ {m}
  /\ Release(w, m)
  /\ UNCHANGED <<redis, phase, toClaim, reply, listening>>

\* Plausible fault: the acknowledgement is sent in finally().
HandlerFailsAndAcks(w, m) ==
  /\ m \in running[w]
  /\ acking' = [acking EXCEPT ![w] = @ \cup {m}]
  /\ failed' = failed \cup {m}
  /\ Release(w, m)
  /\ UNCHANGED <<redis, phase, toClaim, reply, listening, handled>>

\* The handler rejects: the error handler is told, the entry is not acknowledged.
HandlerFails(w, m) ==
  /\ m \in running[w]
  /\ failed' = failed \cup {m}
  /\ Release(w, m)
  /\ UNCHANGED <<redis, phase, toClaim, reply, acking, listening, handled>>

\* Redis executes an XACK.
AckApplied(w, m) ==
  /\ m \in acking[w]
  /\ acking' = [acking EXCEPT ![w] = @ \ {m}]
  /\ pel' = pel \ {m}
  /\ aged' = aged \ {m}
  /\ UNCHANGED <<sent, group, phase, toClaim, reply, tokens, listening, closing, history>>

\* The connection fails under xAutoClaim or xReadGroup: listen() rejects, the
\* worker reports ERROR and lives on without a loop; `listening` is not reset.
ListenFails(w) ==
  /\ phase[w] \in {"init", "listen"}
  /\ closing[w] = "no"
  /\ Idle(w)
  /\ phase' = [phase EXCEPT ![w] = "dead"]
  /\ reply' = [reply EXCEPT ![w] = <<>>]
  /\ UNCHANGED <<redis, toClaim, tokens, acking, listening, closing, history>>

\* Plausible fault: close() does not wait for the tokens.
CloseAtOnce(w) ==
  /\ phase[w] # "down"
  /\ closing[w] = "no"
  /\ listening' = [listening EXCEPT ![w] = FALSE]
  /\ closing' = [closing EXCEPT ![w] = "drained"]
  /\ UNCHANGED <<redis, phase, toClaim, reply, tokens, acking, history>>

\* close() up to semaphore.wait(): resolved at once when every token is back.
\* A second call only replaces the promise, the process ends all the same.
Close(w) ==
  /\ phase[w] # "down"
  /\ closing[w] = "no"
  /\ listening' = [listening EXCEPT ![w] = FALSE]
  /\ closing' = [closing EXCEPT ![w] = IF count[w] = MaxConcurrent
                                       THEN "drained" ELSE "waiting"]
  /\ UNCHANGED <<redis, phase, toClaim, reply, tokens, acking, history>>

\* The process is gone: a new one starts with a fresh EventListener.
Reset(w) ==
  /\ phase' = [phase EXCEPT ![w] = "down"]
  /\ toClaim' = [toClaim EXCEPT ![w] = {}]
  /\ reply' = [reply EXCEPT ![w] = <<>>]
  /\ count' = [count EXCEPT ![w] = MaxConcurrent]
  /\ queue' = [queue EXCEPT ![w] = <<>>]
  /\ running' = [running EXCEPT ![w] = {}]
  /\ acking' = [acking EXCEPT ![w] = {}]
  /\ listening' = [listening EXCEPT ![w] = FALSE]
  /\ closing' = [closing EXCEPT ![w] = "no"]

\* The rest of close(): the reading connection is destroyed, quit() waits for the
\* acknowledgements already sent, and the worker exits.
Exit(w) ==
  /\ closing[w] = "drained"
  /\ pel' = pel \ acking[w]
  /\ aged' = aged \ acking[w]
  /\ Reset(w)
  /\ UNCHANGED <<sent, group, history>>

\* The process dies: handlers stop where they are, commands not sent are lost.
Crash(w) ==
  /\ phase[w] # "down"
  /\ Reset(w)
  /\ UNCHANGED <<redis, history>>

-----------------------------------------------------------------------------
Handler(w, m) == HandlerSucceeds(w, m) \/ HandlerFails(w, m)

WorkerStep(w) ==
  \/ Start(w)
  \/ Claim(w)
  \/ BeginListening(w)
  \/ ReadGroup(w)
  \/ Receive(w)
  \/ ListenFails(w)
  \/ Close(w)
  \/ Exit(w)
  \/ Crash(w)
  \/ \E m \in Message : Handler(w, m) \/ AckApplied(w, m)

Next ==
  \/ MinutePasses
  \/ \E s \in Streams : Send(s)
  \/ \E w \in Workers : WorkerStep(w)

Spec == Init /\ [][Next]_vars

-----------------------------------------------------------------------------
(* Safety *)

\* Tokens are neither lost nor minted: the free tokens and the running handlers
\* of a worker always add up to maxConcurrent.  Losing one would throttle the
\* worker for good, and close() would wait for ever; one too many makes release()
\* throw "Semaphore released more times than acquired".
TokensConserved ==
  \A w \in Workers : count[w] + Cardinality(running[w]) = MaxConcurrent

\* No lost wake-up: a message waits for a token only while all tokens are in use.
WaitingMeansSaturated ==
  \A w \in Workers : queue[w] # <<>> => Cardinality(running[w]) = MaxConcurrent

\* README: "For a message in a stream to be acknowledged, it must be processed
\* without throwing any errors": what the group has handed out is either still
\* pending or was processed to the end at least once, whatever crashed since.
AckedWasHandled == \A m \in Delivered : m \in pel \/ m \in handled

\* README: stop "waits for all semaphore tokens to be returned before fully
\* stopping": when close() goes on to cut the connections, no message of this
\* worker is being processed or waiting to be.
DrainedIsIdle == \A w \in Workers : closing[w] = "drained" => Idle(w)

\* The messages a worker has started or will start as tokens come free.
InWorker(w) == running[w] \cup {queue[w][i] : i \in DOMAIN queue[w]}

\* Once close() was called, no message enters this worker's processing, whatever
\* answer of Redis was under way.
NoWorkAfterClose ==
  [][\A w \in Workers :
       closing[w] # "no" =>
         InWorker(w)' \subseteq InWorker(w)]_vars

\* The bus implements at-least-once delivery.
ALO == INSTANCE AtLeastOnce WITH
         sentSet <- InStream, done <- handled, settled <- Delivered \ pel

ImplementsAtLeastOnce == ALO!Spec

(* The inductive invariant behind these (EventBusProofs) *)

\* Redis: pending entries were delivered, delivered entries were added.
RedisInv ==
  /\ \A s \in Streams : group[s] <= sent[s]
  /\ pel \subseteq Delivered
  /\ aged \subseteq pel

\* What a worker holds was delivered; what it acknowledges was handled.
HoldingsInv ==
  \A w \in Workers :
    /\ running[w] \subseteq Delivered
    /\ \A i \in DOMAIN queue[w] : queue[w][i] \in Delivered
    /\ \A i \in DOMAIN reply[w] : reply[w][i] \in Delivered
    /\ acking[w] \subseteq handled

SemaphoreInv ==
  \A w \in Workers :
    /\ IsFiniteSet(running[w])
    /\ count[w] + Cardinality(running[w]) = MaxConcurrent
    /\ queue[w] # <<>> => count[w] = 0
    /\ closing[w] = "waiting" => count[w] < MaxConcurrent
    /\ closing[w] = "drained" => count[w] = MaxConcurrent

ReplyInv ==
  \A w \in Workers :
    \A i, j \in DOMAIN reply[w] : reply[w][i] = reply[w][j] => i = j

\* A worker holds a message once: a batch is finished before the next is asked for.
NoDoubleInWorker ==
  \A w \in Workers :
    /\ \A i \in DOMAIN queue[w] : queue[w][i] \notin running[w]
    /\ \A i, j \in DOMAIN queue[w] : queue[w][i] = queue[w][j] => i = j
    /\ reply[w] # <<>> => Idle(w)

IInv ==
  /\ TypeOK
  /\ RedisInv
  /\ HoldingsInv
  /\ SemaphoreInv
  /\ ReplyInv
  /\ NoDoubleInWorker
  /\ AckedWasHandled

(* Liveness *)

Attempted == handled \cup failed

Serving(w) == phase[w] = "listen" /\ listening[w]

\* With one worker in the group, an entry it has not been given yet gets its
\* handler called unless the worker is stopped, killed or loses its loop.
NewMessageAttempted ==
  \A w \in Workers, m \in Message :
    (Serving(w) /\ m \in InStream /\ m \notin Delivered)
      ~> (m \in Attempted \/ ~Serving(w))

\* close() returns: every token comes back, so the worker process ends.
CloseTerminates ==
  \A w \in Workers : closing[w] # "no" ~> phase[w] = "down"

=============================================================================
