---------------------------- MODULE MCDomainList ----------------------------
EXTENDS DomainList, FiniteSets, TLC

Symmetry == Permutations(Requests)

\* Bounds a run: requests one after the other with all their events sent (of other
\* runs the properties say nothing), no new name (which the list does not show), two
\* answers on their way to a page at most, and a failure in the bus worker only while
\* no answer is on its way and no details are open.
Bounded ==
  /\ Spaced
  /\ \A r \in Requests : call[r].op # "rename"
  /\ \A u \in Watchers : Cardinality(gets[u]) + Cardinality(answers[u]) <= 2
  /\ faults > 0 => opened = {} /\ \A u \in Watchers : gets[u] = {} /\ answers[u] = {}
=============================================================================
