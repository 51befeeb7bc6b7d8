--------------------------- MODULE MCBusLifecycle ---------------------------
(* One worker, as liveness is checked. *)
EXTENDS BusLifecycle
=============================================================================
