\* Two workers of one group share a stream: pages of a batch, more messages than
\* tokens, a restarted worker that claims what the other is still processing.
CONSTANTS
  w1 = w1
  w2 = w2
  Workers = {w1, w2}
  Streams = {1}
  MaxLen = 3
  MaxCount = 2
  MaxConcurrent = 1
SYMMETRY Symmetry
SPECIFICATION Spec
INVARIANTS
  IInv
  TokensConserved
  WaitingMeansSaturated
  DrainedIsIdle
PROPERTIES
  NoWorkAfterClose
  ImplementsAtLeastOnce
