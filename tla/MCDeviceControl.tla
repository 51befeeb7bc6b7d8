-------------------------- MODULE MCDeviceControl --------------------------
EXTENDS DeviceControl, TLC

Dimmer == [labelled |-> TRUE, type |-> "RANGE", min |-> 1, max |-> 2]
Mode == [labelled |-> TRUE, type |-> "ENUM", enumValues |-> <<>>]

\* One device that works and one that passes the first check only.
MCOffers == {"level" :> Dimmer, "mode" :> Mode}
MCValues == {Number(1), Number(2), Switch(TRUE)}

Symmetry == Permutations(Devices) \cup Permutations(Requests)
=============================================================================
