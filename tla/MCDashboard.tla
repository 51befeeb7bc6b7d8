---------------------------- MODULE MCDashboard ----------------------------
EXTENDS Dashboard, TLC

Dimmer == [labelled |-> TRUE, type |-> "RANGE", min |-> 1, max |-> 2]

MCOffers == {"level" :> Dimmer}
MCValues == {Number(2)}

Symmetry == Permutations(Requests) \cup Permutations(Fetches)
\* The properties say nothing of a viewer who missed a message, and he stays one.
SomeViewerIsNotStale == Viewers \ stale # {}
=============================================================================
