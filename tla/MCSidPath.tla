----------------------------- MODULE MCSidPath -----------------------------
(***************************************************************************)
(* Small models for SidPath: a list inside a container, a two-key list     *)
(* with a list inside, a SID with two parents, a delta of 0 (a SID that is *)
(* its own parent), a list without keys and a value below the depth limit. *)
(***************************************************************************)
EXTENDS SidPath

Entry(a, b) == Map(1 :> a @@ 2 :> b)

ListModel ==
    [tree |-> Map(10 :> Map(1 :> Leaf(7) @@
                            2 :> Array(<<Entry(Leaf(1), Text), Entry(Leaf(2), Leaf(5)),
                                         Entry(Leaf(1), Leaf(6)), Map(2 :> Leaf(8))>>))),
     listKeys |-> 12 :> <<13>>]

NestedModel ==
    [tree |-> Map(10 :> Array(<<
        Map(1 :> Leaf(1) @@ 2 :> Leaf(2) @@ 4 :> Array(<<Entry(Leaf(1), Leaf(3)),
                                                        Entry(Leaf(2), Leaf(4))>>)),
        Map(1 :> Leaf(2) @@ 2 :> Leaf(1) @@ 4 :> Array(<<Entry(Leaf(1), Leaf(5))>>))>>)),
     listKeys |-> 10 :> <<11, 12>> @@ 14 :> <<15>>]

SharedModel ==
    [tree |-> Map(10 :> Map(4 :> Leaf(1)) @@ 12 :> Map(2 :> Leaf(2)) @@
                  16 :> Map(0 :> Leaf(3))),
     listKeys |-> 10 :> <<14>>]

DeepModel ==
    [tree |-> Map(10 :> Array(<<Map(1 :> Map(1 :> Map(2 :> Map(1 :> Leaf(1)))))>>)),
     listKeys |-> [s \in {} |-> <<>>]]

\* hashKey grows with its argument up to 161, the 100 buckets of the table over
\* the golden ratio, so small keys are met in ascending order.
MCVisited(m) == SetToSortSeq(DOMAIN m, <)

RECURSIVE ValuesIn(_)
ValuesIn(val) ==
    {val} \cup (IF val.t \in {"map", "array"}
                THEN UNION {ValuesIn(val.v[d]) : d \in DOMAIN val.v} ELSE {})

MCModels == {ListModel, NestedModel, SharedModel, DeepModel}
MCValues == UNION {ValuesIn(m.tree) : m \in MCModels}

\* What the theorems about SidPath suppose holds of these models, but for the
\* SID that is its own parent.
ASSUME ShapeAssumption ==
    /\ FlatArrays
    /\ \A m \in Models : DistinctKeys(m) /\ (OneWayUp(m) <=> m # SharedModel)

MCSids == {10, 12, 14, 15, 16}
MCRequests == UNION {[1 .. n -> 0 .. 2] : n \in 0 .. 3}
=============================================================================
