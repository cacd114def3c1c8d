---------------------------- MODULE MCWebOrders ----------------------------
(***************************************************************************)
(* Bounds for WebOrders: two customers with an attempt each, and enough    *)
(* calls to create, create again, verify and verify again.                 *)
(***************************************************************************)
EXTENDS WebOrders, TLC

CONSTANTS a1, a2, u1, u2

MCUserOf == a1 :> u1 @@ a2 :> u2

Symmetry == Permutations(Calls)
=============================================================================
