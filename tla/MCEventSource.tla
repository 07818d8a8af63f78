---------------------------- MODULE MCEventSource ----------------------------
(* EventSource on small instances.                                         *)
EXTENDS EventSource
=============================================================================
