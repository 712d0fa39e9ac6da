----------------------------- MODULE MCGrpcCalls -----------------------------
(* A small instance of GrpcCalls for TLC: one call of any class beside a     *)
(* unary call.                                                               *)
EXTENDS GrpcCalls

CONSTANTS c1, c2

MCKindsOf == (c1 :> Kinds) @@ (c2 :> {"unary"})
=============================================================================
