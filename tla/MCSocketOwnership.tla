-------------------------- MODULE MCSocketOwnership --------------------------
(* One runtime with both sockets and one with the operator's alone.         *)
EXTENDS SocketOwnership, TLC

CONSTANTS r1, r2

MCConfig == (r1 :> Apis) @@ (r2 :> {"operator"})
==============================================================================
