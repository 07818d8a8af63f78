----------------------------- MODULE MCEventLoop -----------------------------
(* EventLoop on small instances: selectables are addresses, 2 the higher.  *)
EXTENDS EventLoop
=============================================================================
