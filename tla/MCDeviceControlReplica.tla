----------------------- MODULE MCDeviceControlReplica -----------------------
EXTENDS DeviceControlReplica, TLC

Symmetry == Permutations(Users) \cup Permutations(Requests)
=============================================================================
