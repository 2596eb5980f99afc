--------------------------- MODULE MCSingleFlight ---------------------------
(***************************************************************************)
(* A small instance of SingleFlight: three requests, two of them served by *)
(* the same process.                                                       *)
(***************************************************************************)
EXTENDS SingleFlight, TLC

CONSTANTS r1, r2, r3, p1, p2

MCProcOf == (r1 :> p1) @@ (r2 :> p1) @@ (r3 :> p2)
=============================================================================
