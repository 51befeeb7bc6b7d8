---------------------------- MODULE AtLeastOnce ----------------------------
(***************************************************************************)
(* What the event bus promises the services that use it: a message that a  *)
(* service sent is settled (it will never be offered again) only after     *)
(* some handler has processed it without throwing.  A message may be       *)
(* processed any number of times before that.  services/eventbus/README.md *)
(* states the promise as "For a message in a stream to be acknowledged, it *)
(* must be processed without throwing any errors."                         *)
(***************************************************************************)
CONSTANT Message      \* the messages that can ever be sent

VARIABLES sentSet,    \* messages that are in a stream
          done,       \* messages some handler has processed without throwing
          settled     \* messages the consumer group is finished with

abstractVars == <<sentSet, done, settled>>

Init ==
  /\ sentSet = {}
  /\ done = {}
  /\ settled = {}

\* A service adds a message to a stream.
Send(m) ==
  /\ sentSet' = sentSet \cup {m}
  /\ UNCHANGED <<done, settled>>

\* A handler processes a message that was sent, for the first time or again.
Process(m) ==
  /\ m \in sentSet
  /\ done' = done \cup {m}
  /\ UNCHANGED <<sentSet, settled>>

\* The group is finished with some messages; all of them were processed.
Settle(S) ==
  /\ S \subseteq done
  /\ settled' = settled \cup S
  /\ UNCHANGED <<sentSet, done>>

Next ==
  \/ \E m \in Message : Send(m) \/ Process(m)
  \/ \E S \in SUBSET Message : Settle(S)

Spec == Init /\ [][Next]_abstractVars
=============================================================================
