--------------------------- MODULE MCEventStream ----------------------------
(***************************************************************************)
(* An array of three slots, answers of at most two events and a buffer of  *)
(* three units: pushes evict, filters skip, both limits end an answer, and *)
(* a long event blocks a short older one that would still fit.             *)
(***************************************************************************)
EXTENDS EventStream, TLC

MCEvent == {
    [sid |-> 1, len |-> 1, inner |-> {}],
    [sid |-> 2, len |-> 3, inner |-> {}],
    [sid |-> 3, len |-> 2, inner |-> {1}]}
MCFilter == {{}, {1}, {1, 2}, {4}}
CopySymmetry == Permutations(Copy)
=============================================================================
