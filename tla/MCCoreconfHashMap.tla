------------------------- MODULE MCCoreconfHashMap --------------------------
(***************************************************************************)
(* Four keys share bucket 0 and one has bucket 1.  With MaxLoop = 1 an     *)
(* insert's walk compares two nodes, a chain holds at most three, and the  *)
(* fourth key of bucket 0 is refused.  Five value objects leave room for   *)
(* a refused (lost) one beside full buckets.                               *)
(***************************************************************************)
EXTENDS CoreconfHashMap, TLC

MCKey == 1 .. 5
MCHash == (1 :> 0) @@ (2 :> 0) @@ (3 :> 0) @@ (4 :> 0) @@ (5 :> 1)
ValueSymmetry == Permutations(Value)
=============================================================================
