---------------------------- MODULE MCRobinHood -----------------------------
(***************************************************************************)
(* RobinHood with three keys.  Two have the same hash, and their home is   *)
(* the last bucket of the tables of 2 and 4: the second wraps around to    *)
(* the home of the third key and displaces it.  In the table of 8 the same *)
(* happens without wrapping.                                               *)
(***************************************************************************)
EXTENDS RobinHood

CONSTANTS k1, k2, k3

Keys == {k1, k2, k3}

Hashes == [k \in Keys |-> IF k = k1 THEN 4 ELSE 3]
=============================================================================
