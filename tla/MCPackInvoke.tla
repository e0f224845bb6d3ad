----------------------------- MODULE MCPackInvoke -----------------------------
(* A request that a pipe cannot hold, and output that fills both streams.  *)
EXTENDS PackInvoke
=============================================================================
