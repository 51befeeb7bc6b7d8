--------------------------- MODULE EventBusProofs ---------------------------
(***************************************************************************)
(* Proofs about EventListener and BusLifecycle, for any number of services,*)
(* streams, tokens and messages.  First the listener: the inductive        *)
(* invariant IInv, the safety properties that follow from it, and the      *)
(* refinement of AtLeastOnce.  Then the parent process: every step of a    *)
(* service, seen from its worker, is a step of EventListener or leaves the *)
(* worker alone, so the properties proved of EventListener hold of a       *)
(* worker that obeys flags; and the invariant BusInv relates what the      *)
(* server believes to what the worker does.                                *)
(***************************************************************************)
EXTENDS BusLifecycle, FunctionTheorems, FiniteSetTheorems, SequenceTheorems, TLAPS

-----------------------------------------------------------------------------
(* Facts about data *)

\* The first n elements of a list without repetition are n elements.
LEMMA PrefixCardinality ==
  ASSUME NEW q, NEW n \in Nat,
         \A i, j \in 1..n : q[i] = q[j] => i = j
  PROVE  /\ IsFiniteSet({q[i] : i \in 1..n})
         /\ Cardinality({q[i] : i \in 1..n}) = n
<1> DEFINE S == {q[i] : i \in 1..n}
           f == [i \in 1..n |-> q[i]]
<1>1. f \in Bijection(1..n, S)
  BY DEF Bijection, Injection, Surjection, IsInjective
<1>2. ExistsBijection(1..n, S)
  BY <1>1 DEF ExistsBijection
<1> QED
  BY <1>2, FS_NatBijection, FS_CountingElements

LEMMA MessageParts ==
  ASSUME NEW m \in Message
  PROVE  /\ m[1] \in Streams
         /\ m[2] \in 1..MaxLen
         /\ m[1] \in Nat
         /\ m[2] \in Nat
<1>1. m[1] \in Streams /\ m[2] \in 1..MaxLen
  BY DEF Message
<1>2. m[1] \in Nat
  BY <1>1, ListenerAssumption
<1>3. m[2] \in Nat
  BY <1>1
<1> QED
  BY <1>1, <1>2, <1>3

LEMMA MessageFinite == IsFiniteSet(Message)
<1>1. IsFiniteSet(1..MaxLen)
  BY FS_Interval, ListenerAssumption
<1> QED
  BY <1>1, FS_Product, ListenerAssumption DEF Message

LEMMA MessagesFinite ==
  ASSUME NEW B \in SUBSET Message
  PROVE  IsFiniteSet(B) /\ Cardinality(B) \in Nat
  BY MessageFinite, FS_Subset, FS_CardinalityType

\* A batch lists no message twice.
LEMMA BatchInjective ==
  ASSUME NEW B \in SUBSET Message, NEW q, IsBatch(q, B)
  PROVE  /\ q \in Seq(Message)
         /\ \A i \in DOMAIN q : q[i] \in B
         /\ \A i, j \in DOMAIN q : q[i] = q[j] => i = j
<1>1. Cardinality(B) \in Nat
  BY MessagesFinite
<1>2. q \in [1..Cardinality(B) -> B]
  BY DEF IsBatch
<1>3. q \in Seq(Message)
  BY <1>1, <1>2
<1>4. \A i \in DOMAIN q : q[i] \in B
  BY <1>2
<1>5. ASSUME NEW i \in DOMAIN q, NEW j \in DOMAIN q, q[i] = q[j]
      PROVE  i = j
  <2>1. i \in 1..Cardinality(B) /\ j \in 1..Cardinality(B)
    BY <1>2
  <2>2. i < j => Before(q[i], q[j])
    BY DEF IsBatch
  <2>3. j < i => Before(q[j], q[i])
    BY DEF IsBatch
  <2>4. q[i] \in Streams \X (1..MaxLen)
    BY <1>4 DEF Message
  <2>5. q[i][1] \in Nat /\ q[i][2] \in Nat
    BY <1>4, MessageParts
  <2>6. ~Before(q[i], q[i])
    BY <2>5 DEF Before
  <2> QED
    BY <1>1, <1>5, <2>1, <2>2, <2>3, <2>6
<1> QED
  BY <1>3, <1>4, <1>5

\* A prefix of one queue and the rest of another stay sequences of messages.
LEMMA QueueParts ==
  ASSUME NEW p \in Seq(Message), NEW q \in Seq(Message), NEW n \in Nat, n <= Len(q)
  PROVE  /\ p \o SubSeq(q, n + 1, Len(q)) \in Seq(Message)
         /\ {q[i] : i \in 1..n} \in SUBSET Message
<1>1. SubSeq(q, n + 1, Len(q)) \in Seq(Message)
  OBVIOUS
<1>2. \A i \in 1..n : q[i] \in Message
  OBVIOUS
<1> QED
  BY <1>1, <1>2

-----------------------------------------------------------------------------
(* The inductive invariant, action by action *)

LEMMA InitIInv == Init => IInv
<1> SUFFICES ASSUME Init PROVE IInv
  OBVIOUS
<1>1. TypeOK
  BY ListenerAssumption DEF Init, TypeOK
<1>2. RedisInv
  BY ListenerAssumption DEF Init, RedisInv
<1>3. HoldingsInv
  BY DEF Init, HoldingsInv
<1>4. SemaphoreInv
  BY ListenerAssumption, FS_EmptySet DEF Init, SemaphoreInv
<1>5. ReplyInv
  BY DEF Init, ReplyInv
<1>6. NoDoubleInWorker
  BY DEF Init, NoDoubleInWorker, Idle
<1>7. AckedWasHandled
  <2>1. Delivered = {}
    BY MessageParts DEF Init, Delivered
  <2> QED
    BY <2>1 DEF AckedWasHandled
<1> QED
  BY <1>1, <1>2, <1>3, <1>4, <1>5, <1>6, <1>7 DEF IInv

\* Adding an entry touches nothing a worker holds.
LEMMA SendIInv ==
  ASSUME IInv, NEW s \in Streams, Send(s)
  PROVE  IInv'
<1> USE DEF IInv, Send, redis, tokens, history
<1>1. TypeOK'
  BY ListenerAssumption DEF TypeOK
<1>2. Delivered' = Delivered
  BY DEF Delivered
<1>3. RedisInv'
  BY <1>2, ListenerAssumption DEF RedisInv, TypeOK
<1>4. HoldingsInv'
  BY <1>2 DEF HoldingsInv
<1>5. SemaphoreInv'
  BY DEF SemaphoreInv
<1>6. ReplyInv' /\ NoDoubleInWorker'
  BY DEF ReplyInv, NoDoubleInWorker, Idle
<1>7. AckedWasHandled'
  BY <1>2 DEF AckedWasHandled
<1> QED
  BY <1>1, <1>3, <1>4, <1>5, <1>6, <1>7

LEMMA MinuteIInv ==
  ASSUME IInv, MinutePasses
  PROVE  IInv'
<1> USE DEF IInv, MinutePasses, redis, tokens, history
<1>1. TypeOK'
  BY DEF TypeOK
<1>2. Delivered' = Delivered
  BY DEF Delivered
<1>3. RedisInv'
  BY <1>2 DEF RedisInv
<1>4. HoldingsInv'
  BY <1>2 DEF HoldingsInv
<1>5. SemaphoreInv'
  BY DEF SemaphoreInv
<1>6. ReplyInv' /\ NoDoubleInWorker'
  BY DEF ReplyInv, NoDoubleInWorker, Idle
<1>7. AckedWasHandled'
  BY <1>2 DEF AckedWasHandled
<1> QED
  BY <1>1, <1>3, <1>4, <1>5, <1>6, <1>7

\* Process steps that only move the phase: Start, BeginListening, ListenFails.
LEMMA PhaseIInv ==
  ASSUME IInv, NEW w \in Workers,
         Start(w) \/ BeginListening(w) \/ ListenFails(w)
  PROVE  IInv'
<1> USE DEF IInv, redis, tokens, history
<1>1. TypeOK'
  <2>1. CASE Start(w)
    BY <2>1 DEF Start, TypeOK
  <2>2. CASE BeginListening(w)
    BY <2>2 DEF BeginListening, TypeOK
  <2>3. CASE ListenFails(w)
    BY <2>3 DEF ListenFails, TypeOK
  <2> QED
    BY <2>1, <2>2, <2>3
<1>2. /\ UNCHANGED <<sent, group, pel, aged, count, queue, running, acking, closing, handled>>
      /\ reply' \in {reply, [reply EXCEPT ![w] = <<>>]}
  BY DEF Start, BeginListening, ListenFails
<1>3. Delivered' = Delivered
  BY <1>2 DEF Delivered
<1>4. RedisInv'
  BY <1>2, <1>3 DEF RedisInv
<1>5. \A v \in Workers : reply'[v] = reply[v] \/ reply'[v] = <<>>
  BY <1>2 DEF TypeOK
<1>6. HoldingsInv'
  BY <1>2, <1>3, <1>5 DEF HoldingsInv
<1>7. SemaphoreInv'
  BY <1>2 DEF SemaphoreInv
<1>8. ReplyInv'
  BY <1>5 DEF ReplyInv
<1>9. NoDoubleInWorker'
  BY <1>2, <1>5 DEF NoDoubleInWorker, Idle
<1>10. AckedWasHandled'
  BY <1>2, <1>3 DEF AckedWasHandled
<1> QED
  BY <1>1, <1>4, <1>6, <1>7, <1>8, <1>9, <1>10

\* xAutoClaim hands an idle worker a list of pending entries.
LEMMA ClaimIInv ==
  ASSUME IInv, NEW w \in Workers, Claim(w)
  PROVE  IInv'
<1> USE DEF IInv, redis, tokens, history
<1>1. PICK s \in toClaim[w] :
        /\ toClaim' = [toClaim EXCEPT ![w] = @ \ {s}]
        /\ aged' = aged \ ClaimableEntries(s)
        /\ \E q \in [1..Cardinality(ClaimableEntries(s)) -> ClaimableEntries(s)] :
             /\ IsBatch(q, ClaimableEntries(s))
             /\ reply' = [reply EXCEPT ![w] = q]
  BY DEF Claim
<1>2. PICK q \in [1..Cardinality(ClaimableEntries(s)) -> ClaimableEntries(s)] :
        /\ IsBatch(q, ClaimableEntries(s))
        /\ reply' = [reply EXCEPT ![w] = q]
  BY <1>1
<1>3. ClaimableEntries(s) \subseteq Delivered /\ Delivered \subseteq Message
  BY DEF ClaimableEntries, RedisInv, Delivered
<1>4. /\ q \in Seq(Message)
      /\ \A i \in DOMAIN q : q[i] \in Delivered
      /\ \A i, j \in DOMAIN q : q[i] = q[j] => i = j
  <2>1. ClaimableEntries(s) \in SUBSET Message
    BY <1>3
  <2> QED
    BY <2>1, <1>2, <1>3, BatchInjective
<1>5. UNCHANGED <<sent, group, pel, phase, count, queue, running, acking,
                  listening, closing, handled, failed>>
  BY DEF Claim
<1>6. Idle(w)
  BY DEF Claim
<1>7. TypeOK'
  BY <1>1, <1>2, <1>4, <1>5 DEF TypeOK
<1>8. Delivered' = Delivered
  BY <1>5 DEF Delivered
<1>9. RedisInv'
  BY <1>1, <1>5, <1>8 DEF RedisInv
<1>10. HoldingsInv'
  BY <1>2, <1>4, <1>5, <1>8 DEF HoldingsInv, TypeOK
<1>11. SemaphoreInv'
  BY <1>5 DEF SemaphoreInv
<1>12. ReplyInv'
  BY <1>2, <1>4 DEF ReplyInv, TypeOK
<1>13. NoDoubleInWorker'
  BY <1>2, <1>5, <1>6 DEF NoDoubleInWorker, Idle, TypeOK
<1>14. AckedWasHandled'
  BY <1>5, <1>8 DEF AckedWasHandled
<1> QED
  BY <1>7, <1>9, <1>10, <1>11, <1>12, <1>13, <1>14

\* xReadGroup hands an idle worker a list of new entries, now pending.
LEMMA ReadGroupIInv ==
  ASSUME IInv, NEW w \in Workers, ReadGroup(w)
  PROVE  IInv'
<1> USE DEF IInv, redis, tokens, history
<1>1. PICK q \in [1..Cardinality(NewEntries) -> NewEntries] :
        /\ IsBatch(q, NewEntries)
        /\ reply' = [reply EXCEPT ![w] = q]
  BY DEF ReadGroup
<1>2. /\ UNCHANGED <<sent, aged, phase, toClaim, count, queue, running, acking,
                     listening, closing, handled, failed>>
      /\ pel' = pel \cup NewEntries
      /\ group' = [s \in Streams |-> IF sent[s] <= group[s] + MaxCount
                                     THEN sent[s] ELSE group[s] + MaxCount]
      /\ Idle(w)
  BY DEF ReadGroup
<1>3. \A s \in Streams : /\ sent[s] \in 0..MaxLen
                         /\ group[s] \in 0..MaxLen
                         /\ group[s] <= sent[s]
  BY DEF TypeOK, RedisInv
<1>4. \A s \in Streams : /\ group'[s] \in 0..MaxLen
                         /\ group[s] <= group'[s]
                         /\ group'[s] <= sent[s]
  BY <1>2, <1>3, ListenerAssumption
<1>5. Delivered' = Delivered \cup NewEntries
  <2>1. ASSUME NEW m \in Message
        PROVE  m \in Delivered' <=> m \in Delivered \/ m \in NewEntries
    <3> DEFINE s == m[1]
               k == m[2]
    <3> HIDE DEF s, k
    <3>1. s \in Streams /\ k \in 1..MaxLen
      BY MessageParts DEF s, k
    <3>2. group'[s] = IF sent[s] <= group[s] + MaxCount
                      THEN sent[s] ELSE group[s] + MaxCount
      BY <3>1, <1>2
    <3>3. k <= group'[s] <=>
            k <= group[s] \/ (k <= sent[s] /\ group[s] < k /\ k <= group[s] + MaxCount)
      BY <3>1, <3>2, <1>3, ListenerAssumption
    <3> QED
      BY <3>3 DEF Delivered, NewEntries, InStream, s, k
  <2> QED
    BY <2>1 DEF Delivered, NewEntries, InStream
<1>6. NewEntries \in SUBSET Message
  BY DEF NewEntries, InStream
<1>7. /\ q \in Seq(Message)
      /\ \A i \in DOMAIN q : q[i] \in NewEntries
      /\ \A i, j \in DOMAIN q : q[i] = q[j] => i = j
  BY <1>1, <1>6, BatchInjective
<1>8. TypeOK'
  <2>1. group' \in [Streams -> 0..MaxLen]
    BY <1>2, <1>4
  <2> QED
    BY <1>1, <1>2, <1>6, <1>7, <2>1 DEF TypeOK
<1>9. RedisInv'
  BY <1>2, <1>4, <1>5 DEF RedisInv
<1>10. HoldingsInv'
  BY <1>1, <1>2, <1>5, <1>7 DEF HoldingsInv, TypeOK
<1>11. SemaphoreInv'
  BY <1>2 DEF SemaphoreInv
<1>12. ReplyInv'
  BY <1>1, <1>7 DEF ReplyInv, TypeOK
<1>13. NoDoubleInWorker'
  BY <1>1, <1>2 DEF NoDoubleInWorker, Idle, TypeOK
<1>14. AckedWasHandled'
  BY <1>2, <1>5 DEF AckedWasHandled
<1> QED
  BY <1>8, <1>9, <1>10, <1>11, <1>12, <1>13, <1>14

\* The tokens go to the first messages of the answer, the rest of it waits.
LEMMA ReceiveIInv ==
  ASSUME IInv, NEW w \in Workers, Receive(w)
  PROVE  IInv'
<1> USE DEF IInv, redis, tokens, history
<1> DEFINE q == reply[w]
           n == IF Len(q) <= count[w] THEN Len(q) ELSE count[w]
           first == {q[i] : i \in 1..n}
           rest == SubSeq(q, n + 1, Len(q))
<1>1. /\ UNCHANGED <<sent, group, pel, aged, phase, toClaim, acking, listening,
                     closing, handled, failed>>
      /\ closing[w] # "drained"
      /\ q # <<>>
      /\ reply' = [reply EXCEPT ![w] = <<>>]
      /\ running' = [running EXCEPT ![w] = running[w] \cup first]
      /\ queue' = [queue EXCEPT ![w] = queue[w] \o rest]
      /\ count' = [count EXCEPT ![w] = count[w] - n]
  BY DEF Receive, AcquireAll
<1>2. running[w] = {} /\ queue[w] = <<>>
  BY <1>1 DEF NoDoubleInWorker, Idle
<1>3. count[w] = MaxConcurrent /\ q \in Seq(Message) /\ Len(q) \in Nat
  BY <1>2, FS_EmptySet, ListenerAssumption DEF SemaphoreInv, TypeOK
<1>4. n \in Nat /\ n <= Len(q) /\ n <= MaxConcurrent /\ n # 0
      /\ (n < Len(q) => n = MaxConcurrent)
  BY <1>1, <1>3, ListenerAssumption
<1>5. rest \in Seq(Message) /\ first \in SUBSET Message
      /\ queue'[w] = rest /\ running'[w] = first /\ count'[w] = MaxConcurrent - n
  <2>1. queue[w] \o rest = rest
    BY <1>2, <1>3, <1>4
  <2>2. rest \in Seq(Message) /\ first \in SUBSET Message
    BY <1>3, <1>4, QueueParts, <1>2, <2>1
  <2> QED
    BY <1>1, <1>2, <1>3, <2>1, <2>2 DEF TypeOK
<1>6. \A i, j \in 1..n : q[i] = q[j] => i = j
  BY <1>3, <1>4 DEF ReplyInv
<1>7. IsFiniteSet(first) /\ Cardinality(first) = n
  <2> HIDE DEF n
  <2> QED
    BY <1>4, <1>6, PrefixCardinality
<1>8. \A i \in DOMAIN rest : n + i \in DOMAIN q /\ rest[i] = q[n + i] /\ i \in Nat \ {0}
  BY <1>3, <1>4
<1>9. Len(rest) = Len(q) - n
  BY <1>3, <1>4
<1>10. TypeOK'
  <2>1. queue' \in [Workers -> Seq(Message)] /\ running' \in [Workers -> SUBSET Message]
    BY <1>1, <1>5 DEF TypeOK
  <2>2. count' \in [Workers -> 0..MaxConcurrent]
    BY <1>1, <1>3, <1>4, ListenerAssumption DEF TypeOK
  <2>3. reply' \in [Workers -> Seq(Message)]
    BY <1>1 DEF TypeOK
  <2> HIDE DEF first, rest, n, q
  <2> QED
    BY <1>1, <2>1, <2>2, <2>3 DEF TypeOK
<1>11. Delivered' = Delivered
  BY <1>1 DEF Delivered
<1>12. RedisInv'
  BY <1>1, <1>11 DEF RedisInv
<1>13. HoldingsInv'
  <2>1. first \subseteq Delivered /\ \A i \in DOMAIN rest : rest[i] \in Delivered
    BY <1>3, <1>4, <1>8 DEF HoldingsInv
  <2> HIDE DEF first, rest, n, q
  <2> QED
    BY <1>1, <1>5, <1>11, <2>1 DEF HoldingsInv, TypeOK
<1>14. SemaphoreInv'
  <2>1. rest # <<>> => MaxConcurrent - n = 0
    BY <1>3, <1>4, <1>9
  <2>2. MaxConcurrent - n < MaxConcurrent /\ MaxConcurrent - n + n = MaxConcurrent
    BY <1>4, ListenerAssumption
  <2> HIDE DEF first, rest, n, q
  <2> QED
    BY <1>1, <1>5, <1>7, <2>1, <2>2 DEF SemaphoreInv, TypeOK
<1>15. ReplyInv'
  BY <1>1 DEF ReplyInv, TypeOK
<1>16. NoDoubleInWorker'
  <2>1. \A i \in DOMAIN rest : rest[i] \notin first
    BY <1>3, <1>4, <1>8 DEF ReplyInv
  <2>2. ASSUME NEW i \in DOMAIN rest, NEW j \in DOMAIN rest, rest[i] = rest[j]
        PROVE  i = j
    <3>1. q[n + i] = q[n + j] /\ n + i \in DOMAIN q /\ n + j \in DOMAIN q
      BY <1>8, <2>2
    <3>2. n + i = n + j
      BY <3>1 DEF ReplyInv
    <3> HIDE DEF n, rest
    <3> QED
      BY <3>2, <1>4, <1>8
  <2> HIDE DEF first, rest, n, q
  <2> QED
    BY <1>1, <1>5, <2>1, <2>2 DEF NoDoubleInWorker, Idle, TypeOK
<1>17. AckedWasHandled'
  BY <1>1, <1>11 DEF AckedWasHandled
<1> QED
  BY <1>10, <1>12, <1>13, <1>14, <1>15, <1>16, <1>17

\* release(): the waiting message that inherits the token starts, or the token
\* goes back and close() goes on when it was the last one.
LEMMA ReleaseIInv ==
  ASSUME IInv, NEW w \in Workers, NEW m \in running[w], Release(w, m),
         UNCHANGED <<sent, group, pel, aged, phase, toClaim, reply, listening>>,
         acking' \in [Workers -> SUBSET Message],
         handled' \in SUBSET Message, handled \subseteq handled',
         \A v \in Workers : acking'[v] \subseteq handled',
         failed' \in SUBSET Message
  PROVE  IInv'
<1> USE DEF IInv
<1> DEFINE r == running[w]
           q == queue[w]
<1>1. /\ r \in SUBSET Message
      /\ q \in Seq(Message)
      /\ IsFiniteSet(r)
      /\ Cardinality(r) \in Nat
      /\ count[w] \in 0..MaxConcurrent
      /\ count[w] + Cardinality(r) = MaxConcurrent
  BY MessagesFinite DEF TypeOK, SemaphoreInv
<1>2. /\ IsFiniteSet(r \ {m})
      /\ Cardinality(r \ {m}) = Cardinality(r) - 1
      /\ Cardinality(r \ {m}) \in Nat
  BY <1>1, FS_RemoveElement, FS_CardinalityType
<1>3. Delivered' = Delivered
  BY DEF Delivered
<1>4. RedisInv' /\ ReplyInv'
  BY <1>3 DEF RedisInv, ReplyInv
<1>5. AckedWasHandled'
  BY <1>3 DEF AckedWasHandled
<1>6. reply[w] = <<>>
  BY DEF NoDoubleInWorker, Idle
<1>7. CASE q # <<>>
  <2>1. /\ running' = [running EXCEPT ![w] = (r \ {m}) \cup {Head(q)}]
        /\ queue' = [queue EXCEPT ![w] = Tail(q)]
        /\ UNCHANGED <<count, closing>>
    BY <1>7 DEF Release
  <2>2. /\ Head(q) \in Message
        /\ Tail(q) \in Seq(Message)
        /\ Head(q) = q[1] /\ 1 \in DOMAIN q
        /\ \A i \in DOMAIN Tail(q) : Tail(q)[i] = q[i + 1] /\ i + 1 \in DOMAIN q /\ i \in Nat \ {0}
    BY <1>1, <1>7
  <2>3. Head(q) \notin r /\ \A i \in DOMAIN q : q[i] \in Delivered /\ q[i] \notin r
    BY <2>2 DEF NoDoubleInWorker, HoldingsInv
  <2>4. /\ IsFiniteSet((r \ {m}) \cup {Head(q)})
        /\ Cardinality((r \ {m}) \cup {Head(q)}) = Cardinality(r)
    <3> DEFINE rm == r \ {m}
               h == Head(q)
    <3>1. IsFiniteSet(rm) /\ h \notin rm
      BY <1>2, <2>3
    <3>2. Cardinality(rm) = Cardinality(r) - 1
      BY <1>2
    <3> HIDE DEF rm, h, q
    <3>3. IsFiniteSet(rm \cup {h}) /\ Cardinality(rm \cup {h}) = Cardinality(rm) + 1
      BY <3>1, FS_AddElement
    <3>4. Cardinality(rm \cup {h}) = Cardinality(r)
      BY <3>2, <3>3, <1>1
    <3> QED
      BY <3>3, <3>4 DEF rm, h
  <2>5. TypeOK'
    BY <2>1, <2>2, <1>1 DEF TypeOK
  <2>6. SemaphoreInv'
    <3>1. count[w] = 0
      BY <1>7 DEF SemaphoreInv
    <3>2. /\ running'[w] = (r \ {m}) \cup {Head(q)}
          /\ \A v \in Workers \ {w} : running'[v] = running[v] /\ queue'[v] = queue[v]
      BY <2>1 DEF TypeOK
    <3>3. IsFiniteSet(running'[w]) /\ count'[w] + Cardinality(running'[w]) = MaxConcurrent
      BY <3>2, <2>4, <2>1, <1>1
    <3> QED
      BY <2>1, <3>1, <3>2, <3>3 DEF SemaphoreInv
  <2>7. HoldingsInv'
    BY <2>1, <2>2, <2>3, <1>3 DEF HoldingsInv, TypeOK
  <2>8. NoDoubleInWorker'
    <3>1. \A i \in DOMAIN Tail(q) : Tail(q)[i] \notin (r \ {m}) \cup {Head(q)}
      BY <2>2, <2>3 DEF NoDoubleInWorker
    <3>2. \A i, j \in DOMAIN Tail(q) : Tail(q)[i] = Tail(q)[j] => i = j
      BY <2>2 DEF NoDoubleInWorker
    <3> QED
      BY <2>1, <3>1, <3>2, <1>6 DEF NoDoubleInWorker, Idle, TypeOK
  <2> QED
    BY <1>4, <1>5, <2>5, <2>6, <2>7, <2>8
<1>8. CASE q = <<>>
  <2>1. /\ running' = [running EXCEPT ![w] = r \ {m}]
        /\ count' = [count EXCEPT ![w] = count[w] + 1]
        /\ closing' = IF closing[w] = "waiting" /\ count[w] + 1 = MaxConcurrent
                      THEN [closing EXCEPT ![w] = "drained"]
                      ELSE closing
        /\ UNCHANGED queue
    BY <1>8 DEF Release
  <2>2. count[w] + 1 \in 0..MaxConcurrent
    BY <1>1, <1>2, ListenerAssumption
  <2>3. TypeOK'
    BY <2>1, <2>2, <1>1 DEF TypeOK
  <2>4. SemaphoreInv'
    <3>1. count[w] < MaxConcurrent
      BY <1>1, <2>2, ListenerAssumption
    <3>2. closing[w] # "drained"
      BY <3>1, <1>1, ListenerAssumption DEF SemaphoreInv
    <3>3. count[w] + 1 + Cardinality(r \ {m}) = MaxConcurrent
      BY <1>1, <1>2, ListenerAssumption
    <3>4. /\ closing'[w] = "waiting" => count[w] + 1 < MaxConcurrent
          /\ closing'[w] = "drained" => count[w] + 1 = MaxConcurrent
      BY <2>1, <2>2, <3>2, ListenerAssumption DEF TypeOK
    <3>5. /\ running'[w] = r \ {m} /\ count'[w] = count[w] + 1 /\ queue'[w] = <<>>
          /\ \A v \in Workers \ {w} : /\ running'[v] = running[v] /\ count'[v] = count[v]
                                       /\ closing'[v] = closing[v] /\ queue'[v] = queue[v]
      BY <2>1, <1>8 DEF TypeOK
    <3>6. /\ IsFiniteSet(running'[w])
          /\ count'[w] + Cardinality(running'[w]) = MaxConcurrent
          /\ queue'[w] # <<>> => count'[w] = 0
          /\ closing'[w] = "waiting" => count'[w] < MaxConcurrent
          /\ closing'[w] = "drained" => count'[w] = MaxConcurrent
      <4> HIDE DEF r
      <4> QED
        BY <3>3, <3>4, <3>5, <1>2
    <3>7. ASSUME NEW v \in Workers \ {w}
          PROVE  /\ IsFiniteSet(running'[v])
                 /\ count'[v] + Cardinality(running'[v]) = MaxConcurrent
                 /\ queue'[v] # <<>> => count'[v] = 0
                 /\ closing'[v] = "waiting" => count'[v] < MaxConcurrent
                 /\ closing'[v] = "drained" => count'[v] = MaxConcurrent
      BY <3>5 DEF SemaphoreInv
    <3> QED
      BY <3>6, <3>7 DEF SemaphoreInv
  <2>5. HoldingsInv'
    BY <2>1, <1>3 DEF HoldingsInv, TypeOK
  <2>6. NoDoubleInWorker'
    BY <2>1, <1>6 DEF NoDoubleInWorker, Idle, TypeOK
  <2> QED
    BY <1>4, <1>5, <2>3, <2>4, <2>5, <2>6
<1> QED
  BY <1>7, <1>8

LEMMA HandlerIInv ==
  ASSUME IInv, NEW w \in Workers, NEW m \in Message, Handler(w, m)
  PROVE  IInv'
<1> USE DEF IInv, redis, history
<1>1. m \in running[w] /\ Release(w, m)
      /\ UNCHANGED <<sent, group, pel, aged, phase, toClaim, reply, listening>>
  BY DEF Handler, HandlerSucceeds, HandlerFails
<1>2. CASE HandlerSucceeds(w, m)
  <2>1. /\ acking' = [acking EXCEPT ![w] = @ \cup {m}]
        /\ handled' = handled \cup {m}
        /\ failed' = failed \ {m}
    BY <1>2 DEF HandlerSucceeds
  <2>2. /\ acking' \in [Workers -> SUBSET Message]
        /\ handled' \in SUBSET Message /\ handled \subseteq handled'
        /\ failed' \in SUBSET Message
    BY <2>1 DEF TypeOK
  <2>3. \A v \in Workers : acking'[v] \subseteq handled'
    BY <2>1 DEF HoldingsInv, TypeOK
  <2> HIDE DEF IInv
  <2> QED
    BY <1>1, <2>2, <2>3, ReleaseIInv
<1>3. CASE HandlerFails(w, m)
  <2>1. failed' = failed \cup {m} /\ UNCHANGED <<acking, handled>>
    BY <1>3 DEF HandlerFails
  <2>2. /\ acking' \in [Workers -> SUBSET Message]
        /\ handled' \in SUBSET Message /\ handled \subseteq handled'
        /\ failed' \in SUBSET Message
        /\ \A v \in Workers : acking'[v] \subseteq handled'
    BY <2>1 DEF HoldingsInv, TypeOK
  <2> HIDE DEF IInv
  <2> QED
    BY <1>1, <2>2, ReleaseIInv
<1> QED
  BY <1>2, <1>3 DEF Handler

LEMMA AckIInv ==
  ASSUME IInv, NEW w \in Workers, NEW m \in Message, AckApplied(w, m)
  PROVE  IInv'
<1> USE DEF IInv, AckApplied, tokens, history
<1>1. m \in handled
  BY DEF HoldingsInv
<1>2. TypeOK'
  BY DEF TypeOK
<1>3. Delivered' = Delivered
  BY DEF Delivered
<1>4. RedisInv'
  BY <1>3 DEF RedisInv
<1>5. HoldingsInv'
  BY <1>3 DEF HoldingsInv, TypeOK
<1>6. SemaphoreInv'
  BY DEF SemaphoreInv
<1>7. ReplyInv' /\ NoDoubleInWorker'
  BY DEF ReplyInv, NoDoubleInWorker, Idle
<1>8. AckedWasHandled'
  BY <1>1, <1>3 DEF AckedWasHandled
<1> QED
  BY <1>2, <1>4, <1>5, <1>6, <1>7, <1>8

LEMMA CloseIInv ==
  ASSUME IInv, NEW w \in Workers, Close(w)
  PROVE  IInv'
<1> USE DEF IInv, Close, redis, tokens, history
<1>1. TypeOK'
  BY DEF TypeOK
<1>2. Delivered' = Delivered
  BY DEF Delivered
<1>3. RedisInv' /\ HoldingsInv' /\ AckedWasHandled'
  BY <1>2 DEF RedisInv, HoldingsInv, AckedWasHandled
<1>4. SemaphoreInv'
  BY ListenerAssumption DEF SemaphoreInv, TypeOK
<1>5. ReplyInv' /\ NoDoubleInWorker'
  BY DEF ReplyInv, NoDoubleInWorker, Idle
<1> QED
  BY <1>1, <1>3, <1>4, <1>5

\* The end of a process: what it acknowledged before was handled.
LEMMA GoneIInv ==
  ASSUME IInv, NEW w \in Workers, Exit(w) \/ Crash(w)
  PROVE  IInv'
<1> USE DEF IInv
<1>1. /\ Reset(w)
      /\ UNCHANGED <<sent, group, handled, failed>>
      /\ \/ pel' = pel \ acking[w] /\ aged' = aged \ acking[w]
         \/ UNCHANGED <<pel, aged>>
  BY DEF Exit, Crash, redis, history
<1>2. TypeOK'
  <2>1. pel' \subseteq Message /\ aged' \subseteq Message
    BY <1>1 DEF TypeOK
  <2> QED
    BY <1>1, <2>1, ListenerAssumption DEF TypeOK, Reset
<1>3. Delivered' = Delivered
  BY <1>1 DEF Delivered
<1>4. RedisInv'
  BY <1>1, <1>3 DEF RedisInv
<1>5. HoldingsInv'
  BY <1>1, <1>3 DEF HoldingsInv, Reset, TypeOK
<1>6. SemaphoreInv'
  BY <1>1, FS_EmptySet, ListenerAssumption DEF SemaphoreInv, Reset, TypeOK
<1>7. ReplyInv' /\ NoDoubleInWorker'
  BY <1>1 DEF ReplyInv, NoDoubleInWorker, Idle, Reset, TypeOK
<1>8. AckedWasHandled'
  BY <1>1, <1>3 DEF AckedWasHandled, HoldingsInv
<1> QED
  BY <1>2, <1>4, <1>5, <1>6, <1>7, <1>8

LEMMA StepIInv == IInv /\ [Next]_vars => IInv'
<1> SUFFICES ASSUME IInv, [Next]_vars PROVE IInv'
  OBVIOUS
<1>1. CASE MinutePasses
  BY <1>1, MinuteIInv
<1>2. ASSUME NEW s \in Streams, Send(s) PROVE IInv'
  BY <1>2, SendIInv
<1>3. ASSUME NEW w \in Workers, WorkerStep(w) PROVE IInv'
  <2>1. CASE Start(w) \/ BeginListening(w) \/ ListenFails(w)
    BY <2>1, PhaseIInv
  <2>2. CASE Claim(w)
    BY <2>2, ClaimIInv
  <2>3. CASE ReadGroup(w)
    BY <2>3, ReadGroupIInv
  <2>4. CASE Receive(w)
    BY <2>4, ReceiveIInv
  <2>5. CASE Close(w)
    BY <2>5, CloseIInv
  <2>6. CASE Exit(w) \/ Crash(w)
    BY <2>6, GoneIInv
  <2>7. ASSUME NEW m \in Message, Handler(w, m) \/ AckApplied(w, m) PROVE IInv'
    BY <2>7, HandlerIInv, AckIInv
  <2> QED
    BY <1>3, <2>1, <2>2, <2>3, <2>4, <2>5, <2>6, <2>7 DEF WorkerStep
<1>4. CASE UNCHANGED vars
  <2> USE <1>4 DEF vars, IInv
  <2>1. Delivered' = Delivered
    BY DEF Delivered
  <2>2. TypeOK' /\ RedisInv' /\ HoldingsInv'
    BY <2>1 DEF TypeOK, RedisInv, HoldingsInv
  <2>3. SemaphoreInv' /\ ReplyInv' /\ NoDoubleInWorker' /\ AckedWasHandled'
    BY <2>1 DEF SemaphoreInv, ReplyInv, NoDoubleInWorker, Idle, AckedWasHandled
  <2> QED
    BY <2>2, <2>3
<1> QED
  BY <1>1, <1>2, <1>3, <1>4 DEF Next

\* The strengthening holds in every reachable state.
THEOREM InductiveInvariant == Spec => []IInv
<1> QED
  BY InitIInv, StepIInv, PTL DEF Spec

\* Every variable keeps its type; in particular the semaphore's counter stays
\* between 0 and maxConcurrent.
THEOREM TypeCorrect == Spec => []TypeOK
<1>1. IInv => TypeOK
  BY DEF IInv
<1> QED
  BY <1>1, InductiveInvariant, PTL

\* A message leaves the pending entries only after a handler resolved for it:
\* at-least-once processing, for any number of workers, crashes and claims.
THEOREM AckedWasHandledAlways == Spec => []AckedWasHandled
<1>1. IInv => AckedWasHandled
  BY DEF IInv
<1> QED
  BY <1>1, InductiveInvariant, PTL

\* The semaphore neither loses nor mints tokens.
THEOREM TokensConservedAlways == Spec => []TokensConserved
<1>1. IInv => TokensConserved
  BY DEF IInv, SemaphoreInv, TokensConserved
<1> QED
  BY <1>1, InductiveInvariant, PTL

\* A message waits only while every token is in use.
THEOREM WaitingMeansSaturatedAlways == Spec => []WaitingMeansSaturated
<1>1. IInv => WaitingMeansSaturated
  <2> SUFFICES ASSUME IInv, NEW w \in Workers, queue[w] # <<>>
               PROVE  Cardinality(running[w]) = MaxConcurrent
    BY DEF WaitingMeansSaturated
  <2>1. running[w] \in SUBSET Message
    BY DEF IInv, TypeOK
  <2>2. Cardinality(running[w]) \in Nat
    BY <2>1, MessagesFinite
  <2> QED
    BY <2>2, ListenerAssumption DEF IInv, SemaphoreInv
<1> QED
  BY <1>1, InductiveInvariant, PTL

\* When close() cuts the connections nothing is being processed or waiting.
THEOREM DrainedIsIdleAlways == Spec => []DrainedIsIdle
<1>1. IInv => DrainedIsIdle
  <2> SUFFICES ASSUME IInv, NEW w \in Workers, closing[w] = "drained"
               PROVE  Idle(w)
    BY DEF DrainedIsIdle
  <2>1. running[w] \in SUBSET Message
    BY DEF IInv, TypeOK
  <2>2. IsFiniteSet(running[w]) /\ Cardinality(running[w]) \in Nat
    BY <2>1, MessagesFinite
  <2>3. Cardinality(running[w]) = 0 /\ queue[w] = <<>>
    BY <2>2, ListenerAssumption DEF IInv, SemaphoreInv
  <2> QED
    BY <2>2, <2>3, FS_EmptySet DEF Idle
<1> QED
  BY <1>1, InductiveInvariant, PTL

-----------------------------------------------------------------------------
(* Stopping *)

LEMMA CloseStep ==
  ASSUME IInv, NEW w \in Workers, closing[w] # "no", [Next]_vars
  PROVE  InWorker(w)' \subseteq InWorker(w)
<1> USE DEF IInv, redis, tokens, history
<1>1. CASE \/ MinutePasses
           \/ \E s \in Streams : Send(s)
           \/ UNCHANGED vars
  BY <1>1 DEF MinutePasses, Send, vars, InWorker
<1>2. ASSUME NEW v \in Workers, WorkerStep(v)
      PROVE  InWorker(w)' \subseteq InWorker(w)
  <2>1. CASE \/ Start(v) \/ Claim(v) \/ BeginListening(v) \/ ReadGroup(v)
             \/ ListenFails(v) \/ Close(v)
             \/ \E m \in Message : AckApplied(v, m)
    BY <2>1 DEF Start, Claim, BeginListening, ReadGroup, ListenFails, Close,
                AckApplied, InWorker
  <2>2. CASE Receive(v)
    <3>1. v # w
      <4> SUFFICES ASSUME v = w PROVE FALSE
        OBVIOUS
      <4>1. closing[w] = "waiting"
        BY <2>2 DEF Receive, TypeOK
      <4>2. count[w] < MaxConcurrent /\ count[w] \in Nat
        BY <4>1 DEF SemaphoreInv, TypeOK
      <4>3. running[w] = {}
        BY <2>2 DEF Receive, NoDoubleInWorker, Idle
      <4>4. count[w] + Cardinality({}) = MaxConcurrent
        BY <4>3 DEF SemaphoreInv
      <4> QED
        BY <4>2, <4>4, FS_EmptySet, ListenerAssumption
    <3>2. running'[w] = running[w] /\ queue'[w] = queue[w]
      BY <2>2, <3>1 DEF Receive, AcquireAll, TypeOK
    <3> QED
      BY <3>2 DEF InWorker
  <2>3. ASSUME NEW m \in Message, Handler(v, m)
        PROVE  InWorker(w)' \subseteq InWorker(w)
    <3>1. Release(v, m)
      BY <2>3 DEF Handler, HandlerSucceeds, HandlerFails
    <3>2. CASE v # w
      BY <3>1, <3>2 DEF Release, InWorker, TypeOK
    <3>3. CASE v = w /\ queue[w] = <<>>
      BY <3>1, <3>3 DEF Release, InWorker, TypeOK
    <3>4. CASE v = w /\ queue[w] # <<>>
      <4>1. queue[w] \in Seq(Message)
        BY DEF TypeOK
      <4>2. /\ 1 \in DOMAIN queue[w] /\ Head(queue[w]) = queue[w][1]
            /\ \A i \in DOMAIN Tail(queue[w]) :
                 i + 1 \in DOMAIN queue[w] /\ Tail(queue[w])[i] = queue[w][i + 1]
        BY <4>1, <3>4
      <4>3. /\ running'[w] = (running[w] \ {m}) \cup {Head(queue[w])}
            /\ queue'[w] = Tail(queue[w])
        BY <3>1, <3>4 DEF Release, TypeOK
      <4> QED
        BY <4>2, <4>3 DEF InWorker
    <3> QED
      BY <3>2, <3>3, <3>4
  <2>4. CASE Exit(v) \/ Crash(v)
    <3>1. Reset(v)
      BY <2>4 DEF Exit, Crash
    <3>2. CASE v = w
      BY <3>1, <3>2 DEF Reset, InWorker, TypeOK
    <3>3. CASE v # w
      BY <3>1, <3>3 DEF Reset, InWorker, TypeOK
    <3> QED
      BY <3>2, <3>3
  <2> QED
    BY <1>2, <2>1, <2>2, <2>3, <2>4 DEF WorkerStep
<1> QED
  BY <1>1, <1>2 DEF Next

\* After close() was called no message enters the worker's processing, although
\* an answer of Redis may be under way and messages may wait for tokens.
THEOREM NoWorkAfterCloseAlways == Spec => NoWorkAfterClose
<1>1. IInv /\ [Next]_vars =>
        [\A w \in Workers : closing[w] # "no" => InWorker(w)' \subseteq InWorker(w)]_vars
  BY CloseStep
<1> QED
  BY <1>1, InductiveInvariant, PTL DEF Spec, NoWorkAfterClose

-----------------------------------------------------------------------------
(* The event bus implements at-least-once delivery *)

LEMMA RefinementInit == Init => ALO!Init
<1> SUFFICES ASSUME Init PROVE ALO!Init
  OBVIOUS
<1>1. InStream = {} /\ Delivered = {}
  BY MessageParts DEF Init, InStream, Delivered
<1> QED
  BY <1>1 DEF Init, ALO!Init

\* Every step adds one message, processes one, settles some, or stutters.
LEMMA RefinementStep ==
  ASSUME IInv, IInv', [Next]_vars
  PROVE  [ALO!Next]_(ALO!abstractVars)
<1> USE DEF IInv, redis, tokens, history
<1> DEFINE Settled == Delivered \ pel
           Same == UNCHANGED <<InStream, handled, Settled>>
<1>1. Same => [ALO!Next]_(ALO!abstractVars)
  BY DEF ALO!abstractVars
<1>2. ASSUME UNCHANGED sent PROVE UNCHANGED InStream
  BY <1>2 DEF InStream
<1>3. ASSUME UNCHANGED group PROVE UNCHANGED Delivered
  BY <1>3 DEF Delivered
<1>4. ASSUME NEW s \in Streams, Send(s) PROVE [ALO!Next]_(ALO!abstractVars)
  <2> DEFINE m == <<s, sent[s] + 1>>
  <2>1. sent[s] \in Nat /\ sent[s] + 1 \in 1..MaxLen /\ m \in Message
    BY <1>4, ListenerAssumption DEF Send, TypeOK, Message
  <2>2. ASSUME NEW k \in Message
        PROVE  k \in InStream' <=> k \in InStream \/ k = m
    <3> DEFINE a == k[1]
               b == k[2]
    <3>1. k = <<a, b>> /\ a \in Streams /\ b \in 1..MaxLen
      BY DEF Message
    <3>2. sent' = [sent EXCEPT ![s] = sent[s] + 1]
      BY <1>4 DEF Send
    <3>3. sent'[a] = IF a = s THEN sent[s] + 1 ELSE sent[a]
      BY <3>1, <3>2 DEF TypeOK
    <3>4. b <= sent'[a] <=> b <= sent[a] \/ (a = s /\ b = sent[s] + 1)
      BY <3>1, <3>3, <2>1 DEF TypeOK
    <3>5. k = m <=> a = s /\ b = sent[s] + 1
      BY <3>1
    <3> QED
      BY <3>4, <3>5 DEF InStream
  <2>3. InStream' = InStream \cup {m}
    BY <2>1, <2>2 DEF InStream
  <2>4. UNCHANGED <<handled, Settled>>
    BY <1>4, <1>3 DEF Send
  <2> QED
    BY <2>1, <2>3, <2>4 DEF ALO!Next, ALO!Send
<1>5. ASSUME NEW w \in Workers, WorkerStep(w) PROVE [ALO!Next]_(ALO!abstractVars)
  <2>1. CASE Start(w) \/ Claim(w) \/ BeginListening(w) \/ Receive(w)
             \/ ListenFails(w) \/ Close(w) \/ Crash(w)
    <3>1. UNCHANGED <<sent, group, pel, handled>>
      BY <2>1 DEF Start, Claim, BeginListening, Receive, ListenFails, Close, Crash
    <3> QED
      BY <3>1, <1>1, <1>2, <1>3
  <2>2. CASE ReadGroup(w)
    <3>1. UNCHANGED <<sent, handled>> /\ pel' = pel \cup NewEntries
      BY <2>2 DEF ReadGroup
    <3>2. Delivered \subseteq Delivered' /\ NewEntries \cap Delivered = {}
          /\ Delivered' \subseteq Delivered \cup NewEntries
      <4>1. ASSUME NEW k \in Message
            PROVE  /\ k \in Delivered => k \in Delivered' /\ k \notin NewEntries
                   /\ k \in Delivered' => k \in Delivered \/ k \in NewEntries
        <5> DEFINE a == k[1]
                   b == k[2]
        <5> HIDE DEF a, b
        <5>1. a \in Streams /\ b \in 1..MaxLen
          BY MessageParts DEF a, b
        <5>2. group'[a] = IF sent[a] <= group[a] + MaxCount
                          THEN sent[a] ELSE group[a] + MaxCount
          BY <5>1, <2>2 DEF ReadGroup
        <5>3. group[a] \in 0..MaxLen /\ sent[a] \in 0..MaxLen /\ group[a] <= sent[a]
          BY <5>1 DEF TypeOK, RedisInv
        <5>4. /\ b <= group[a] => b <= group'[a] /\ ~(group[a] < b)
              /\ b <= group'[a] => b <= group[a] \/
                   (b <= sent[a] /\ group[a] < b /\ b <= group[a] + MaxCount)
          BY <5>1, <5>2, <5>3, ListenerAssumption
        <5> QED
          BY <5>4 DEF Delivered, NewEntries, InStream, a, b
      <4> QED
        BY <4>1 DEF Delivered, NewEntries, InStream
    <3>3. Settled' = Settled
      BY <3>1, <3>2 DEF RedisInv
    <3> QED
      BY <3>1, <3>3, <1>1, <1>2
  <2>3. ASSUME NEW m \in Message, HandlerSucceeds(w, m)
        PROVE  [ALO!Next]_(ALO!abstractVars)
    <3>1. UNCHANGED <<sent, group, pel>> /\ handled' = handled \cup {m} /\ m \in running[w]
      BY <2>3 DEF HandlerSucceeds
    <3>2. m \in Delivered
      BY <3>1 DEF HoldingsInv
    <3>3. m \in InStream
      <4>1. m[1] \in Streams /\ m[2] \in Nat /\ m[2] <= group[m[1]]
        BY <3>2, MessageParts DEF Delivered
      <4>2. group[m[1]] \in 0..MaxLen /\ sent[m[1]] \in 0..MaxLen
            /\ group[m[1]] <= sent[m[1]]
        BY <4>1 DEF RedisInv, TypeOK
      <4>3. m[2] <= sent[m[1]]
        BY <4>1, <4>2
      <4> QED
        BY <4>3 DEF InStream
    <3>4. UNCHANGED <<InStream, Settled>>
      BY <3>1, <1>2, <1>3
    <3> QED
      BY <3>1, <3>3, <3>4 DEF ALO!Next, ALO!Process
  <2>4. ASSUME NEW m \in Message, HandlerFails(w, m)
        PROVE  [ALO!Next]_(ALO!abstractVars)
    <3>1. UNCHANGED <<sent, group, pel, handled>>
      BY <2>4 DEF HandlerFails
    <3> QED
      BY <3>1, <1>1, <1>2, <1>3
  <2>5. ASSUME NEW S \in SUBSET handled, UNCHANGED <<sent, group, handled>>, pel' = pel \ S
        PROVE  [ALO!Next]_(ALO!abstractVars)
    <3>1. Delivered' = Delivered /\ UNCHANGED InStream
      BY <2>5, <1>2, <1>3
    <3> DEFINE T == S \cap Delivered
    <3>2. Settled' = Settled \cup T
      BY <3>1, <2>5
    <3>3. T \in SUBSET Message /\ T \subseteq handled
      BY DEF Delivered
    <3> QED
      BY <2>5, <3>1, <3>2, <3>3 DEF ALO!Next, ALO!Settle
  <2>6. ASSUME NEW m \in Message, AckApplied(w, m)
        PROVE  [ALO!Next]_(ALO!abstractVars)
    <3>1. {m} \in SUBSET handled
      BY <2>6 DEF AckApplied, HoldingsInv
    <3>2. UNCHANGED <<sent, group, handled>> /\ pel' = pel \ {m}
      BY <2>6 DEF AckApplied
    <3> QED
      BY <3>1, <3>2, <2>5
  <2>7. CASE Exit(w)
    <3>1. acking[w] \in SUBSET handled
      BY DEF HoldingsInv
    <3>2. UNCHANGED <<sent, group, handled>> /\ pel' = pel \ acking[w]
      BY <2>7 DEF Exit
    <3> QED
      BY <3>1, <3>2, <2>5
  <2> QED
    BY <1>5, <2>1, <2>2, <2>3, <2>4, <2>6, <2>7 DEF WorkerStep, Handler
<1>6. CASE MinutePasses \/ UNCHANGED vars
  <2>1. UNCHANGED <<sent, group, pel, handled>>
    BY <1>6 DEF MinutePasses, vars
  <2> QED
    BY <2>1, <1>1, <1>2, <1>3
<1> QED
  BY <1>4, <1>5, <1>6 DEF Next

\* Whatever the workers do, crash included, the bus behaves like AtLeastOnce.
THEOREM BusImplementsAtLeastOnce == Spec => ImplementsAtLeastOnce
<1>1. IInv /\ IInv' /\ [Next]_vars => [ALO!Next]_(ALO!abstractVars)
  BY RefinementStep
<1> QED
  BY <1>1, RefinementInit, InductiveInvariant, PTL DEF Spec, ImplementsAtLeastOnce, ALO!Spec

-----------------------------------------------------------------------------
(* The refinement *)

LEMMA EndsIsStep ==
  ASSUME NEW w \in Workers, Ends(w)
  PROVE  [Next]_vars
<1>1. CASE phase[w] = "down"
  BY <1>1 DEF Ends
<1>2. CASE phase[w] # "down"
  BY <1>2 DEF Ends, Next, WorkerStep
<1> QED
  BY <1>1, <1>2

LEMMA ServerStepIsStep ==
  ASSUME NEW w \in Workers, ServerStep(w)
  PROVE  [Next]_vars
<1>1. CASE Boot(w) \/ Fork(w) \/ ServerHears(w) \/ Shutdown(w)
  BY <1>1 DEF Boot, Fork, ServerHears, Shutdown
<1>2. CASE Stop(w)
  <2>1. CASE isListening[w]
    BY <1>2, <2>1 DEF Stop
  <2>2. CASE ~isListening[w]
    BY <1>2, <2>2, EndsIsStep DEF Stop
  <2> QED
    BY <2>1, <2>2
<1>3. CASE StopReturns(w) \/ CutShort(w) \/ Killed(w)
  BY <1>3, EndsIsStep DEF StopReturns, CutShort, Killed
<1> QED
  BY <1>1, <1>2, <1>3 DEF ServerStep

LEMMA WorkerStepIsStep ==
  ASSUME NEW w \in Workers, BusWorkerStep(w)
  PROVE  [Next]_vars
<1>1. CASE WorkerHears(w)
  <2>1. CASE Create(w)
    BY <2>1 DEF Create
  <2>2. CASE StartListening(w)
    BY <2>2 DEF StartListening, Next, WorkerStep
  <2>3. CASE StopListening(w)
    BY <2>3 DEF StopListening, Next, WorkerStep
  <2> QED
    BY <1>1, <2>1, <2>2, <2>3 DEF WorkerHears
<1>2. CASE ReportReady(w)
  BY <1>2 DEF ReportReady, Next, WorkerStep
<1>3. CASE ReportError(w)
  BY <1>3 DEF ReportError, Next, WorkerStep
<1>4. CASE ReportStopped(w)
  BY <1>4 DEF ReportStopped, Next, WorkerStep
<1>5. CASE WorkerDies(w)
  BY <1>5 DEF WorkerDies, Next, WorkerStep
<1>6. CASE Listens(w)
  BY <1>6 DEF Listens, Next, WorkerStep
<1>7. CASE WorkerSignalled(w)
  BY <1>7 DEF WorkerSignalled, StopListening, Next, WorkerStep
<1> QED
  BY <1>1, <1>2, <1>3, <1>4, <1>5, <1>6, <1>7 DEF BusWorkerStep

LEMMA BusStepIsStep ==
  ASSUME [BusNext]_busVars
  PROVE  [Next]_vars
<1>1. CASE Environment
  BY <1>1 DEF Environment, Next
<1>2. CASE \E w \in Workers : ServerStep(w) \/ BusWorkerStep(w)
  BY <1>2, ServerStepIsStep, WorkerStepIsStep
<1>3. CASE UNCHANGED busVars
  BY <1>3 DEF busVars
<1> QED
  BY <1>1, <1>2, <1>3 DEF BusNext

\* A worker that only does what the server's flags tell it, and that ends with its
\* server, behaves as EventListener says (event_bus.ts, base_worker.ts): every
\* property proved of the listener holds inside a service.
THEOREM BusImplementsListener == BusSpec => Spec
<1>1. BusInit => Init
  BY DEF BusInit
<1>2. [BusNext]_busVars => [Next]_vars
  BY BusStepIsStep
<1> QED
  BY <1>1, <1>2, PTL DEF BusSpec, Spec

-----------------------------------------------------------------------------
(* Flags on a channel *)

LEMMA Received ==
  ASSUME NEW q \in Seq(Flags), q # <<>>
  PROVE  /\ Tail(q) \in Seq(Flags)
         /\ Head(q) = q[1]
         /\ Head(q) \in Flags
         /\ 1 \in DOMAIN q
         /\ \A i \in DOMAIN Tail(q) : i + 1 \in DOMAIN q /\ Tail(q)[i] = q[i + 1]
         /\ Tail(q) # <<>> => Tail(q)[Len(Tail(q))] = q[Len(q)]
         /\ Tail(q) = <<>> => q[1] = q[Len(q)]
<1>1. Len(q) \in Nat /\ Len(q) > 0
  BY EmptySeq
<1>2. Tail(q) \in Seq(Flags) /\ Len(Tail(q)) = Len(q) - 1
  BY <1>1
<1>3. \A i \in 1..Len(Tail(q)) : Tail(q)[i] = q[i + 1]
  BY <1>1, <1>2
<1>4. DOMAIN q = 1..Len(q) /\ DOMAIN Tail(q) = 1..Len(Tail(q))
  BY <1>2
<1>5. Tail(q) # <<>> => Len(Tail(q)) > 0
  BY <1>2
<1>6. Tail(q) = <<>> => Len(q) = 1
  <2>1. ASSUME NEW r, r = Tail(q), r = <<>>
        PROVE  Len(r) = 0
    BY <2>1, EmptySeq
  <2> QED
    BY <1>1, <1>2, <2>1
<1> QED
  BY <1>1, <1>2, <1>3, <1>4, <1>5, <1>6

LEMMA Told ==
  ASSUME NEW q \in Seq(Flags), NEW f \in Flags
  PROVE  /\ q \o <<f>> \in Seq(Flags)
         /\ q \o <<f>> # <<>>
         /\ (q \o <<f>>)[Len(q \o <<f>>)] = f
         /\ \A i \in DOMAIN (q \o <<f>>) :
              (q \o <<f>>)[i] = f \/ (i \in DOMAIN q /\ (q \o <<f>>)[i] = q[i])
         /\ q = <<>> => q \o <<f>> = <<f>>
<1> DEFINE r == q \o <<f>>
<1>1. <<f>> \in Seq(Flags) /\ Len(<<f>>) = 1 /\ <<f>>[1] = f
  OBVIOUS
<1>2. r \in Seq(Flags) /\ Len(r) = Len(q) + 1
  BY <1>1, ConcatProperties
<1>3. \A i \in 1..Len(q) + 1 : r[i] = IF i <= Len(q) THEN q[i] ELSE <<f>>[i - Len(q)]
  BY <1>1, ConcatProperties
<1>4. Len(q) \in Nat /\ DOMAIN q = 1..Len(q) /\ DOMAIN r = 1..Len(q) + 1
  BY <1>2, LenProperties
<1>5. r[Len(q) + 1] = f
  BY <1>1, <1>3, <1>4
<1>6. \A i \in DOMAIN r : r[i] = f \/ (i \in DOMAIN q /\ r[i] = q[i])
  <2> SUFFICES ASSUME NEW i \in 1..Len(q) + 1, i # Len(q) + 1
               PROVE  i \in DOMAIN q /\ r[i] = q[i]
    BY <1>4, <1>5
  <2> QED
    BY <1>3, <1>4
<1>7. r # <<>>
  BY <1>2, <1>4, EmptySeq
<1>8. q = <<>> => r = <<f>>
  BY <1>1, ConcatEmptySeq
<1> QED
  BY <1>2, <1>5, <1>6, <1>7, <1>8

LEMMA ToldTwice ==
  ASSUME NEW q \in Seq(Flags), NEW f \in Flags, NEW g \in Flags
  PROVE  /\ q \o <<f, g>> \in Seq(Flags)
         /\ q \o <<f, g>> # <<>>
         /\ (q \o <<f, g>>)[Len(q \o <<f, g>>)] = g
<1>1. <<f, g>> \in Seq(Flags) /\ Len(<<f, g>>) = 2 /\ <<f, g>>[2] = g
  OBVIOUS
<1>2. q \o <<f, g>> \in Seq(Flags) /\ Len(q \o <<f, g>>) = Len(q) + 2
  BY <1>1, ConcatProperties
<1>3. (q \o <<f, g>>)[Len(q) + 2] = g
  BY <1>1, ConcatProperties, LenProperties
<1>4. Len(q \o <<f, g>>) # 0
  BY <1>2, LenProperties
<1> QED
  BY <1>2, <1>3, <1>4, EmptySeq

-----------------------------------------------------------------------------
(* The inductive invariant, action by action *)

LEMMA InitBusInv == BusInit => BusInv
<1> SUFFICES ASSUME BusInit PROVE BusInv
  OBVIOUS
<1>1. BusTypeOK
  BY EmptySeq DEF BusInit, BusTypeOK
<1>2. DownIsFresh
  BY DEF BusInit, Init, DownIsFresh
<1>3. WorkersHaveServers /\ FlagsTellThePhase
  BY DEF BusInit, Init, WorkersHaveServers, FlagsTellThePhase, TellsThePhase
<1> QED
  BY <1>1, <1>2, <1>3 DEF BusInv

\* The steps of the server that leave the worker alone and tell nobody anything.
LEMMA BootBusInv ==
  ASSUME BusInv, NEW w \in Workers, Boot(w)
  PROVE  BusInv'
<1> USE DEF Boot, vars
<1>1. BusTypeOK'
  BY DEF BusInv, BusTypeOK
<1>2. DownIsFresh'
  BY DEF BusInv, DownIsFresh
<1>3. WorkersHaveServers'
  BY DEF BusInv, BusTypeOK, WorkersHaveServers
<1>4. FlagsTellThePhase'
  BY DEF BusInv, BusTypeOK, FlagsTellThePhase, TellsThePhase
<1> QED
  BY <1>1, <1>2, <1>3, <1>4 DEF BusInv

LEMMA ForkBusInv ==
  ASSUME BusInv, NEW w \in Workers, Fork(w)
  PROVE  BusInv'
<1> USE DEF Fork, vars
<1>1. BusTypeOK'
  <2>1. toWorker[w] \o <<"CREATE", "START">> \in Seq(Flags)
    BY ToldTwice DEF BusInv, BusTypeOK, Flags
  <2> QED
    BY <2>1 DEF BusInv, BusTypeOK, TellWorker
<1>2. DownIsFresh'
  BY DEF BusInv, DownIsFresh
<1>3. WorkersHaveServers'
  BY DEF BusInv, BusTypeOK, WorkersHaveServers
<1>4. FlagsTellThePhase'
  BY DEF BusInv, BusTypeOK, WorkersHaveServers, FlagsTellThePhase, TellsThePhase
<1> QED
  BY <1>1, <1>2, <1>3, <1>4 DEF BusInv

LEMMA ShutdownBusInv ==
  ASSUME BusInv, NEW w \in Workers, Shutdown(w)
  PROVE  BusInv'
<1> USE DEF Shutdown, vars
<1>1. BusTypeOK'
  BY DEF BusInv, BusTypeOK
<1>2. DownIsFresh'
  BY DEF BusInv, DownIsFresh
<1>3. WorkersHaveServers'
  BY DEF BusInv, BusTypeOK, WorkersHaveServers
<1>4. FlagsTellThePhase'
  BY DEF BusInv, BusTypeOK, FlagsTellThePhase, TellsThePhase
<1> QED
  BY <1>1, <1>2, <1>3, <1>4 DEF BusInv

\* The flag that is read explains what the server believes afterwards.
LEMMA ServerHearsBusInv ==
  ASSUME BusInv, NEW w \in Workers, ServerHears(w)
  PROVE  BusInv'
<1> USE DEF ServerHears, vars
<1>1. toServer[w] \in Seq(Flags) /\ toServer[w] # <<>>
  BY DEF BusInv, BusTypeOK
<1>2. BusTypeOK'
  BY <1>1, Received DEF BusInv, BusTypeOK
<1>3. DownIsFresh'
  BY DEF BusInv, DownIsFresh
<1>4. TellsThePhase(w)
  BY DEF BusInv, FlagsTellThePhase
<1>5. child[w] # "none" /\ isListening[w] => isListening'[w]
  BY <1>1, <1>4, Received DEF BusInv, BusTypeOK, TellsThePhase
<1>6. WorkersHaveServers'
  BY <1>5 DEF BusInv, BusTypeOK, WorkersHaveServers
<1>7. TellsThePhase(w)'
  <2> DEFINE q == toServer[w]
  <2>1. toServer'[w] = Tail(q)
    BY DEF BusInv, BusTypeOK
  <2>2. q[1] = "exit" => ~isListening'[w]
    BY <1>1, Received DEF BusInv, BusTypeOK
  <2>3. q[1] = "READY" => isListening'[w]
    BY <1>1, Received DEF BusInv, BusTypeOK
  <2>4. q = <<"READY">> => q[1] = "READY" /\ Tail(q) = <<>>
    OBVIOUS
  <2> HIDE DEF q
  <2> QED
    BY <1>1, <1>4, <2>1, <2>2, <2>3, <2>4, Received DEF q, TellsThePhase
<1>8. FlagsTellThePhase'
  BY <1>7 DEF BusInv, BusTypeOK, FlagsTellThePhase, TellsThePhase
<1> QED
  BY <1>2, <1>3, <1>6, <1>8 DEF BusInv

\* A process that is gone looks like one that has not started.
LEMMA ResetIsFresh ==
  ASSUME TypeOK, DownIsFresh, NEW w \in Workers, Reset(w)
  PROVE  /\ DownIsFresh'
         /\ phase' = [phase EXCEPT ![w] = "down"]
  BY DEF TypeOK, DownIsFresh, Reset

LEMMA EndsBusInv ==
  ASSUME TypeOK, BusInv, NEW w \in Workers, Ends(w)
  PROVE  BusInv'
<1> USE DEF Ends
<1>1. BusTypeOK'
  BY EmptySeq DEF BusInv, BusTypeOK
<1>2. DownIsFresh' /\ phase' = [phase EXCEPT ![w] = "down"]
  <2>1. CASE phase[w] = "down"
    BY <2>1 DEF BusInv, DownIsFresh, TypeOK, vars
  <2>2. CASE phase[w] # "down"
    BY <2>2, ResetIsFresh DEF BusInv, Crash
  <2> QED
    BY <2>1, <2>2
<1>3. WorkersHaveServers'
  BY <1>2 DEF BusInv, BusTypeOK, TypeOK, WorkersHaveServers
<1>4. FlagsTellThePhase'
  BY <1>2 DEF BusInv, BusTypeOK, TypeOK, FlagsTellThePhase, TellsThePhase
<1> QED
  BY <1>1, <1>2, <1>3, <1>4 DEF BusInv

LEMMA StopBusInv ==
  ASSUME TypeOK, BusInv, NEW w \in Workers, Stop(w)
  PROVE  BusInv'
<1>1. CASE ~isListening[w]
  BY <1>1, EndsBusInv DEF Stop
<1>2. CASE isListening[w]
  <2> USE <1>2 DEF Stop, vars
  <2>1. BusTypeOK'
    <3>1. toWorker[w] \o <<"STOP">> \in Seq(Flags)
      BY Told DEF BusInv, BusTypeOK, Flags
    <3> QED
      BY <3>1 DEF BusInv, BusTypeOK, TellWorker
  <2>2. DownIsFresh'
    BY DEF BusInv, DownIsFresh
  <2>3. WorkersHaveServers'
    BY DEF BusInv, BusTypeOK, WorkersHaveServers
  <2>4. FlagsTellThePhase'
    BY DEF BusInv, BusTypeOK, FlagsTellThePhase, TellsThePhase
  <2> QED
    BY <2>1, <2>2, <2>3, <2>4 DEF BusInv
<1> QED
  BY <1>1, <1>2

\* The worker creates its listener.
LEMMA CreateBusInv ==
  ASSUME BusInv, NEW w \in Workers, child[w] # "none", toWorker[w] # <<>>,
         toWorker' = [toWorker EXCEPT ![w] = Tail(@)], Create(w)
  PROVE  BusInv'
<1> USE DEF Create, vars
<1>1. BusTypeOK'
  BY Received DEF BusInv, BusTypeOK
<1>2. DownIsFresh'
  BY DEF BusInv, DownIsFresh
<1>3. WorkersHaveServers'
  BY DEF BusInv, BusTypeOK, WorkersHaveServers
<1>4. FlagsTellThePhase'
  BY DEF BusInv, BusTypeOK, FlagsTellThePhase, TellsThePhase
<1> QED
  BY <1>1, <1>2, <1>3, <1>4 DEF BusInv

LEMMA StartBusInv ==
  ASSUME TypeOK, BusInv, NEW w \in Workers, child[w] # "none", toWorker[w] # <<>>,
         toWorker' = [toWorker EXCEPT ![w] = Tail(@)], StartListening(w)
  PROVE  BusInv'
<1> USE DEF StartListening, Start, tokens
<1>1. BusTypeOK'
  BY Received DEF BusInv, BusTypeOK
<1>2. DownIsFresh'
  BY DEF BusInv, DownIsFresh, TypeOK
<1>3. WorkersHaveServers'
  BY DEF BusInv, BusTypeOK, TypeOK, WorkersHaveServers
<1>4. FlagsTellThePhase'
  BY DEF BusInv, BusTypeOK, TypeOK, FlagsTellThePhase, TellsThePhase
<1> QED
  BY <1>1, <1>2, <1>3, <1>4 DEF BusInv

\* What the worker does by itself while its phase, and the channels, stay as they are.
LEMMA SamePhaseBusInv ==
  ASSUME BusInv, DownIsFresh', BusTypeOK',
         UNCHANGED <<service, isListening, child, toServer, phase>>
  PROVE  BusInv'
<1>1. WorkersHaveServers'
  BY DEF BusInv, WorkersHaveServers
<1>2. FlagsTellThePhase'
  BY DEF BusInv, FlagsTellThePhase, TellsThePhase
<1> QED
  BY <1>1, <1>2 DEF BusInv

LEMMA StopListeningBusInv ==
  ASSUME TypeOK, BusInv, NEW w \in Workers, StopListening(w),
         toWorker' \in [Workers -> Seq(Flags)]
  PROVE  BusInv'
<1>1. UNCHANGED <<service, isListening, child, toServer, phase>>
  BY DEF StopListening, Close, vars
<1>2. BusTypeOK'
  BY <1>1 DEF BusInv, BusTypeOK
<1>3. DownIsFresh'
  <2>1. CASE closing[w] = "no"
    BY <2>1 DEF StopListening, Close, BusInv, DownIsFresh, TypeOK, tokens
  <2>2. CASE closing[w] # "no"
    BY <2>2 DEF StopListening, BusInv, DownIsFresh, vars
  <2> QED
    BY <2>1, <2>2
<1> QED
  BY <1>1, <1>2, <1>3, SamePhaseBusInv

LEMMA WorkerHearsBusInv ==
  ASSUME TypeOK, BusInv, NEW w \in Workers, WorkerHears(w)
  PROVE  BusInv'
<1>1. child[w] # "none" /\ toWorker[w] # <<>> /\ toWorker' = [toWorker EXCEPT ![w] = Tail(@)]
  BY DEF WorkerHears
<1>2. toWorker' \in [Workers -> Seq(Flags)]
  BY <1>1, Received DEF BusInv, BusTypeOK
<1> QED
  BY <1>1, <1>2, CreateBusInv, StartBusInv, StopListeningBusInv DEF WorkerHears

LEMMA WorkerSignalledBusInv ==
  ASSUME TypeOK, BusInv, NEW w \in Workers, WorkerSignalled(w)
  PROVE  BusInv'
BY StopListeningBusInv DEF WorkerSignalled, BusInv, BusTypeOK

LEMMA ReportReadyBusInv ==
  ASSUME TypeOK, BusInv, NEW w \in Workers, ReportReady(w)
  PROVE  BusInv'
<1> USE DEF ReportReady, BeginListening, TellServer, tokens
<1>1. child[w] # "none" /\ toServer[w] = <<>> /\ ~isListening[w]
  BY DEF BusInv, WorkersHaveServers, FlagsTellThePhase, TellsThePhase
<1>2. BusTypeOK'
  BY Told DEF BusInv, BusTypeOK, Flags
<1>3. toServer'[w] = <<"READY">>
  BY <1>1, Told DEF BusInv, BusTypeOK, Flags
<1>4. DownIsFresh'
  BY DEF BusInv, DownIsFresh, TypeOK
<1>5. WorkersHaveServers'
  BY <1>1 DEF BusInv, BusTypeOK, TypeOK, WorkersHaveServers
<1>6. TellsThePhase(w)'
  BY <1>1, <1>3 DEF BusInv, BusTypeOK, TypeOK, WorkersHaveServers, TellsThePhase
<1>7. FlagsTellThePhase'
  BY <1>6 DEF BusInv, BusTypeOK, TypeOK, FlagsTellThePhase, TellsThePhase
<1> QED
  BY <1>2, <1>4, <1>5, <1>7 DEF BusInv

LEMMA ReportErrorBusInv ==
  ASSUME TypeOK, BusInv, NEW w \in Workers, ReportError(w)
  PROVE  BusInv'
<1> USE DEF ReportError, ListenFails, TellServer, tokens
<1>1. child[w] # "none"
  BY DEF BusInv, WorkersHaveServers
<1>2. BusTypeOK'
  BY Told DEF BusInv, BusTypeOK, Flags
<1>3. \A i \in DOMAIN toServer'[w] : toServer'[w][i] \notin {"STOPPED", "exit"}
  BY <1>1, Told DEF BusInv, BusTypeOK, Flags, FlagsTellThePhase, TellsThePhase
<1>4. DownIsFresh'
  BY DEF BusInv, DownIsFresh, TypeOK
<1>5. WorkersHaveServers'
  BY <1>1 DEF BusInv, BusTypeOK, TypeOK, WorkersHaveServers
<1>6. TellsThePhase(w)'
  BY <1>1, <1>3 DEF BusInv, BusTypeOK, TypeOK, WorkersHaveServers, TellsThePhase
<1>7. FlagsTellThePhase'
  BY <1>6 DEF BusInv, BusTypeOK, TypeOK, FlagsTellThePhase, TellsThePhase
<1> QED
  BY <1>2, <1>4, <1>5, <1>7 DEF BusInv

\* A worker process that is gone has left "exit" as its last word.
LEMMA GoneBusInv ==
  ASSUME TypeOK, BusInv, NEW w \in Workers, Gone(w), child[w] # "none",
         DownIsFresh', phase' = [phase EXCEPT ![w] = "down"],
         NEW q \in Seq(Flags), toServer' = [toServer EXCEPT ![w] = q],
         q # <<>>, q[Len(q)] = "exit"
  PROVE  BusInv'
<1> USE DEF Gone
<1>1. BusTypeOK'
  BY EmptySeq DEF BusInv, BusTypeOK
<1>2. WorkersHaveServers'
  BY DEF BusInv, BusTypeOK, TypeOK, WorkersHaveServers
<1>3. TellsThePhase(w)'
  BY DEF BusInv, BusTypeOK, TypeOK, WorkersHaveServers, TellsThePhase
<1>4. FlagsTellThePhase'
  BY <1>3 DEF BusInv, BusTypeOK, TypeOK, FlagsTellThePhase, TellsThePhase
<1> QED
  BY <1>1, <1>2, <1>4 DEF BusInv

LEMMA ReportStoppedBusInv ==
  ASSUME TypeOK, BusInv, NEW w \in Workers, ReportStopped(w)
  PROVE  BusInv'
<1>1. child[w] # "none"
  BY DEF BusInv, WorkersHaveServers, DownIsFresh, ReportStopped, Exit
<1>2. DownIsFresh' /\ phase' = [phase EXCEPT ![w] = "down"]
  BY ResetIsFresh DEF BusInv, ReportStopped, Exit
<1> DEFINE q == toServer[w] \o <<"STOPPED", "exit">>
<1>3. q \in Seq(Flags) /\ q # <<>> /\ q[Len(q)] = "exit"
  BY ToldTwice DEF BusInv, BusTypeOK, Flags
<1>4. toServer' = [toServer EXCEPT ![w] = q] /\ Gone(w)
  BY DEF ReportStopped, TellServer
<1> HIDE DEF q
<1> QED
  BY <1>1, <1>2, <1>3, <1>4, GoneBusInv

LEMMA WorkerDiesBusInv ==
  ASSUME TypeOK, BusInv, NEW w \in Workers, WorkerDies(w)
  PROVE  BusInv'
<1>1. DownIsFresh' /\ phase' = [phase EXCEPT ![w] = "down"]
  <2>1. CASE phase[w] = "down"
    BY <2>1 DEF WorkerDies, BusInv, DownIsFresh, TypeOK, vars
  <2>2. CASE phase[w] # "down"
    BY <2>2, ResetIsFresh DEF WorkerDies, BusInv, Crash
  <2> QED
    BY <2>1, <2>2
<1> DEFINE q == toServer[w] \o <<"exit">>
<1>2. q \in Seq(Flags) /\ q # <<>> /\ q[Len(q)] = "exit"
  BY Told DEF BusInv, BusTypeOK, Flags
<1>3. toServer' = [toServer EXCEPT ![w] = q] /\ Gone(w) /\ child[w] # "none"
  BY DEF WorkerDies, TellServer
<1> HIDE DEF q
<1> QED
  BY <1>1, <1>2, <1>3, GoneBusInv

\* A handler that ends gives its token on or back; either needs a process.
LEMMA ReleaseIsFresh ==
  ASSUME TypeOK, DownIsFresh, NEW w \in Workers, NEW m, m \in running[w], Release(w, m),
         UNCHANGED <<phase, reply>>
  PROVE  DownIsFresh'
<1>1. phase[w] # "down"
  BY DEF DownIsFresh
<1>2. \A v \in Workers \ {w} :
        running'[v] = running[v] /\ queue'[v] = queue[v] /\ closing'[v] = closing[v]
  BY DEF Release, TypeOK
<1> QED
  BY <1>1, <1>2 DEF DownIsFresh

LEMMA ListensBusInv ==
  ASSUME TypeOK, BusInv, NEW w \in Workers, Listens(w)
  PROVE  BusInv'
<1>1. UNCHANGED lifecycle /\ BusTypeOK'
  BY DEF Listens, lifecycle, BusInv, BusTypeOK
<1>2. UNCHANGED phase
  BY DEF Listens, Claim, ReadGroup, Receive, Handler, HandlerSucceeds, HandlerFails, AckApplied
<1>3. DownIsFresh'
  <2>1. CASE Claim(w) \/ ReadGroup(w)
    BY <1>2, <2>1 DEF Claim, ReadGroup, BusInv, DownIsFresh, TypeOK, tokens
  <2>2. CASE Receive(w)
    BY <1>2, <2>2 DEF Receive, AcquireAll, BusInv, DownIsFresh, TypeOK
  <2>3. ASSUME NEW m \in Message, Handler(w, m)
        PROVE  DownIsFresh'
    BY <1>2, <2>3, ReleaseIsFresh DEF Handler, HandlerSucceeds, HandlerFails, BusInv
  <2>4. ASSUME NEW m \in Message, AckApplied(w, m)
        PROVE  DownIsFresh'
    BY <2>4 DEF AckApplied, BusInv, DownIsFresh, tokens
  <2> QED
    BY <2>1, <2>2, <2>3, <2>4 DEF Listens
<1> QED
  BY <1>1, <1>2, <1>3, SamePhaseBusInv DEF lifecycle

LEMMA StepBusInv ==
  ASSUME TypeOK, BusInv, [BusNext]_busVars
  PROVE  BusInv'
<1>1. CASE Environment
  <2>1. UNCHANGED <<phase, running, queue, reply, closing>> /\ UNCHANGED lifecycle
    BY <1>1 DEF Environment, MinutePasses, Send, tokens
  <2>2. DownIsFresh' /\ BusTypeOK'
    BY <2>1 DEF BusInv, DownIsFresh, BusTypeOK, lifecycle
  <2> QED
    BY <2>1, <2>2, SamePhaseBusInv DEF lifecycle
<1>2. ASSUME NEW w \in Workers, ServerStep(w)
      PROVE  BusInv'
  BY <1>2, BootBusInv, ForkBusInv, ServerHearsBusInv, ShutdownBusInv, StopBusInv, EndsBusInv
     DEF ServerStep, StopReturns, CutShort, Killed
<1>3. ASSUME NEW w \in Workers, BusWorkerStep(w)
      PROVE  BusInv'
  BY <1>3, WorkerHearsBusInv, ReportReadyBusInv, ReportErrorBusInv, ReportStoppedBusInv,
     WorkerDiesBusInv, ListensBusInv, WorkerSignalledBusInv DEF BusWorkerStep
<1>4. CASE UNCHANGED busVars
  <2>1. DownIsFresh' /\ BusTypeOK'
    BY <1>4 DEF BusInv, DownIsFresh, BusTypeOK, busVars, vars, lifecycle
  <2> QED
    BY <1>4, <2>1, SamePhaseBusInv DEF busVars, vars, lifecycle
<1> QED
  BY <1>1, <1>2, <1>3, <1>4 DEF BusNext

-----------------------------------------------------------------------------
(* Theorems *)

\* What a service believes of its worker, what is on its way between them, and
\* what the worker does fit together (event_bus.ts, base_worker.ts).
THEOREM BusInvariant == BusSpec => []BusInv
<1> QED
  BY InitBusInv, StepBusInv, BusImplementsListener, TypeCorrect, PTL DEF BusSpec

\* When EventBus.stop returns because STOPPED or the exit arrived, no handler of the
\* service is running any more and the worker has ended (event_bus.ts, waitForStop).
THEOREM StopAwaitsTheWorkerAlways == BusSpec => []StopAwaitsTheWorker
<1>1. BusInv => StopAwaitsTheWorker
  BY DEF BusInv, WorkersHaveServers, DownIsFresh, StopAwaitsTheWorker
<1> QED
  BY <1>1, BusInvariant, PTL

\* What /readyz reports of the event bus is true once the flags on their way have
\* arrived, as long as the connection of the loop holds (event_bus.ts, isListening).
THEOREM ReadyMeansListeningAlways == BusSpec => []ReadyMeansListening
<1>1. BusInv /\ TypeOK => ReadyMeansListening
  <2> SUFFICES ASSUME BusInv, TypeOK, NEW w \in Workers,
                      toServer[w] = <<>>, phase[w] # "dead", closing[w] = "no"
               PROVE  isListening[w] <=> phase[w] = "listen"
    BY DEF ReadyMeansListening
  <2>1. phase[w] \in {"down", "init", "listen"}
    BY DEF TypeOK
  <2> QED
    BY <2>1 DEF BusInv, FlagsTellThePhase, TellsThePhase
<1> QED
  BY <1>1, BusInvariant, BusImplementsListener, TypeCorrect, PTL

=============================================================================
