----------------------- MODULE CoreconfHashMapProofs ------------------------
(***************************************************************************)
(* The invariants of CoreconfHashMap and its refinement of KeyMap, for     *)
(* every key set, hash function, table size and walk limit.                *)
(***************************************************************************)
EXTENDS CoreconfHashMap, HashTableProofs, FiniteSetTheorems

\* Ownership seen through the keys: in a well-formed table the nodes are the
\* keys, so each value is found under one key and is allocated.
KeysOwn(t, l) ==
    /\ \A x \in KeysOf(t) : Lookup(t, x) \in l
    /\ \A x, y \in KeysOf(t) : Lookup(t, x) = Lookup(t, y) => x = y

\* The inductive invariant.  SizeExact needs the key set to be finite, and
\* the ownership of a value needs the table to be well formed.
IInv ==
    /\ TypeOK
    /\ TableWellFormed
    /\ IsFiniteSet(KeysOf(table))
    /\ SizeExact
    /\ KeysOwn(table, live)

\* The table is one that the lemmas about HashTable speak of.
LEMMA TypedTable == TypeOK => table \in TableOf(Value)
  BY DEF TypeOK, TableOf, NodeOf, Node

\* The values the nodes own are the values the keys have.
LEMMA OwnedAreLookups ==
    ASSUME NEW t \in TableOf(Value), WellFormed(t)
    PROVE  Owned(t) = {Lookup(t, x) : x \in KeysOf(t)}
<1>1. ASSUME NEW w \in Owned(t)
      PROVE  w \in {Lookup(t, x) : x \in KeysOf(t)}
  <2>1. PICK b \in Bucket : \E i \in 1 .. Len(t[b]) : w = t[b][i].value
    BY DEF Owned
  <2>2. PICK i \in 1 .. Len(t[b]) : w = t[b][i].value
    BY <2>1
  <2> QED
    BY <2>2, NodesAreFound
<1>2. ASSUME NEW x \in KeysOf(t)
      PROVE  Lookup(t, x) \in Owned(t)
  <2>1. hashKey[x] \in Bucket
    BY ChainType DEF KeysOf
  <2> QED
    BY <2>1, FoundHasNode DEF Owned
<1> QED
  BY <1>1, <1>2

\* What insert frees is the value its key had, if the walk gets that far.
LEMMA ReplacedIsOld ==
    ASSUME NEW t \in TableOf(Value), WellFormed(t), NEW k \in Key
    PROVE  /\ Links(t, k) \/ Refuses(t, k) => Replaced(t, k) = {}
           /\ ~Links(t, k) /\ ~Refuses(t, k) =>
                k \in KeysOf(t) /\ Replaced(t, k) = {Lookup(t, k)}
<1>1. CASE Hit(ChainOf(t, k), k) = {}
  BY <1>1 DEF Links, Refuses, GivesUp, Replaced
<1>2. CASE Hit(ChainOf(t, k), k) # {}
  <2>1. PICK i \in At(ChainOf(t, k), k) : Hit(ChainOf(t, k), k) = {i}
    BY <1>2, UniquePosition DEF Hit
  <2>2. FirstOf({i}) = i
    BY ChainType DEF At, FirstOf
  <2>3. Lookup(t, k) = ChainOf(t, k)[i].value /\ Has(t, k)
    BY UniquePosition
  <2> QED
    BY <1>2, <2>1, <2>2, <2>3 DEF Links, Refuses, GivesUp, Replaced, KeysOf
<1> QED
  BY <1>1, <1>2

\* createCoreconfHashmap establishes the invariant.
LEMMA InitIInv == Init => IInv
<1> SUFFICES ASSUME Init PROVE IInv
  OBVIOUS
<1>1. table \in TableOf(Value) /\ WellFormed(table) /\ KeysOf(table) = {}
  BY EmptyTableIsEmpty DEF Init
<1>2. TypeOK
  BY <1>1 DEF Init, TypeOK, TableOf, NodeOf, Node, Answer
<1> QED
  BY <1>1, <1>2, FS_EmptySet DEF IInv, TableWellFormed, SizeExact, KeysOwn, Init

\* insertCoreconfHashMap keeps it, whether it links, replaces or refuses.
LEMMA InsertIInv ==
    ASSUME IInv, NEW k \in Key, NEW v \in Value, insertCoreconfHashMap(k, v)
    PROVE  IInv'
<1>1. table \in TableOf(Value) /\ WellFormed(table)
  BY TypedTable DEF IInv, TableWellFormed
<1>2. /\ table' \in TableOf(Value)
      /\ WellFormed(table')
      /\ Refuses(table, k) => table' = table
      /\ ~Refuses(table, k) =>
           /\ KeysOf(table') = KeysOf(table) \union {k}
           /\ Lookup(table', k) = v
           /\ \A x \in KeysOf(table) : x # k => Lookup(table', x) = Lookup(table, x)
           /\ Links(table, k) <=> k \notin KeysOf(table)
  BY <1>1, InsertIsMapUpdate DEF insertCoreconfHashMap
<1>3. size' = IF Links(table, k) THEN size + 1 ELSE size
  BY DEF insertCoreconfHashMap, SizeAfterInsert
<1>4. TypeOK'
  <2>1. table' \in [Bucket -> Seq(Node)]
    BY <1>2 DEF TableOf, NodeOf, Node
  <2>2. size' \in Nat
    BY <1>3 DEF IInv, TypeOK
  <2>3. live' \in SUBSET Value
    BY DEF IInv, TypeOK, insertCoreconfHashMap
  <2>4. ret' \in [op : {"insert", "delete"}, key : Key, rc : {0, -1}]
    BY DEF insertCoreconfHashMap
  <2> QED
    BY <2>1, <2>2, <2>3, <2>4 DEF TypeOK, Answer
<1>5. IsFiniteSet(KeysOf(table)) /\ size = Cardinality(KeysOf(table))
  BY DEF IInv, SizeExact
<1>6. IsFiniteSet(KeysOf(table')) /\ size' = Cardinality(KeysOf(table'))
  <2>1. CASE Refuses(table, k)
    BY <1>2, <1>3, <1>5, <2>1 DEF Links
  <2>2. CASE ~Refuses(table, k)
    BY <1>2, <1>3, <1>5, <2>2, FS_AddElement
  <2> QED BY <2>1, <2>2
<1>7. KeysOwn(table', live')
  <2>1. live' = (live \union {v}) \ Replaced(table, k) /\ v \notin live
    BY DEF insertCoreconfHashMap
  <2>2. KeysOwn(table, live)
    BY DEF IInv
  <2>3. CASE Refuses(table, k)
    BY <1>1, <1>2, <2>1, <2>2, <2>3, ReplacedIsOld DEF KeysOwn
  <2>4. CASE Links(table, k)
    <3>1. Replaced(table, k) = {} /\ k \notin KeysOf(table)
      BY <1>1, <1>2, <2>4, ReplacedIsOld DEF Links
    <3> QED
      BY <1>2, <2>1, <2>2, <2>4, <3>1 DEF KeysOwn, Links
  <2>5. CASE ~Refuses(table, k) /\ ~Links(table, k)
    <3>1. Replaced(table, k) = {Lookup(table, k)} /\ k \in KeysOf(table)
      BY <1>1, <2>5, ReplacedIsOld
    <3> QED
      BY <1>2, <2>1, <2>2, <2>5, <3>1 DEF KeysOwn
  <2> QED BY <2>3, <2>4, <2>5
<1> QED
  BY <1>2, <1>4, <1>6, <1>7 DEF IInv, TableWellFormed, SizeExact

\* deleteFromCoreconfHashMap keeps it.
LEMMA DeleteIInv ==
    ASSUME IInv, NEW k \in Key, deleteFromCoreconfHashMap(k)
    PROVE  IInv'
<1>1. table \in TableOf(Value) /\ WellFormed(table)
  BY TypedTable DEF IInv, TableWellFormed
<1>2. /\ table' \in TableOf(Value)
      /\ WellFormed(table')
      /\ KeysOf(table') = KeysOf(table) \ {k}
      /\ \A x \in KeysOf(table') : Lookup(table', x) = Lookup(table, x)
  BY <1>1, DeleteIsMapRemove DEF deleteFromCoreconfHashMap
<1>3. IsFiniteSet(KeysOf(table)) /\ size = Cardinality(KeysOf(table)) /\ size \in Nat
  BY DEF IInv, SizeExact, TypeOK
<1>4. size' = IF k \in KeysOf(table) /\ size > 0 THEN size - 1 ELSE size
  BY DEF deleteFromCoreconfHashMap, SizeAfterDelete, KeysOf
<1>5. IsFiniteSet(KeysOf(table')) /\ size' = Cardinality(KeysOf(table'))
  <2>1. k \in KeysOf(table) => size # 0
    BY <1>3, FS_EmptySet
  <2> QED
    BY <1>2, <1>3, <1>4, <2>1, FS_RemoveElement
<1>6. TypeOK'
  <2>1. table' \in [Bucket -> Seq(Node)]
    BY <1>2 DEF TableOf, NodeOf, Node
  <2>2. size' \in Nat
    BY <1>3, <1>4
  <2>3. live' \in SUBSET Value
    BY DEF IInv, TypeOK, deleteFromCoreconfHashMap
  <2>4. ret' \in [op : {"insert", "delete"}, key : Key, rc : {0, -1}]
    BY DEF deleteFromCoreconfHashMap
  <2> QED
    BY <2>1, <2>2, <2>3, <2>4 DEF TypeOK, Answer
<1>7. KeysOwn(table', live')
  <2>1. live' = IF k \in KeysOf(table) THEN live \ {Lookup(table, k)} ELSE live
    BY DEF deleteFromCoreconfHashMap, KeysOf
  <2> QED
    BY <1>2, <2>1 DEF IInv, KeysOwn
<1> QED
  BY <1>2, <1>5, <1>6, <1>7 DEF IInv, TableWellFormed, SizeExact

\* Every step preserves the inductive invariant.
LEMMA NextIInv == IInv /\ [Next]_vars => IInv'
<1> SUFFICES ASSUME IInv, [Next]_vars PROVE IInv'
  OBVIOUS
<1>1. ASSUME NEW k \in Key, NEW v \in Value, insertCoreconfHashMap(k, v)
      PROVE  IInv'
  BY <1>1, InsertIInv
<1>2. ASSUME NEW k \in Key, deleteFromCoreconfHashMap(k)
      PROVE  IInv'
  BY <1>2, DeleteIInv
<1>3. ASSUME NEW k \in Key, getCoreconfHashMap(k)
      PROVE  IInv'
  <2>1. table' = table /\ size' = size /\ live' = live
    BY <1>3 DEF getCoreconfHashMap
  <2>2. Has(table, k) => Lookup(table, k) \in Value
    <3> HAVE Has(table, k)
    <3>1. table \in TableOf(Value) /\ WellFormed(table) /\ k \in KeysOf(table)
      BY TypedTable DEF IInv, TableWellFormed, KeysOf
    <3> QED BY <3>1, FoundHasNode
  <2>3. TypeOK'
    BY <1>3, <2>1, <2>2 DEF IInv, TypeOK, getCoreconfHashMap, Answer
  <2> QED
    BY <2>1, <2>3 DEF IInv, TableWellFormed, SizeExact, KeysOwn
<1>4. CASE freeCoreconfHashMap
  <2>1. table' \in TableOf(Value) /\ WellFormed(table') /\ KeysOf(table') = {}
    BY <1>4, EmptyTableIsEmpty DEF freeCoreconfHashMap
  <2>2. TypeOK'
    BY <1>4, <2>1 DEF IInv, TypeOK, freeCoreconfHashMap, TableOf, NodeOf, Node, Answer
  <2> QED
    BY <1>4, <2>1, <2>2, FS_EmptySet
    DEF IInv, TableWellFormed, SizeExact, KeysOwn, freeCoreconfHashMap
<1>5. CASE UNCHANGED vars
  BY <1>5 DEF IInv, TypeOK, TableWellFormed, SizeExact, KeysOwn, vars
<1> QED
  BY <1>1, <1>2, <1>3, <1>4, <1>5 DEF Next

\* The invariant holds in every behaviour.
LEMMA AlwaysIInv == Spec => []IInv
  BY InitIInv, NextIInv, PTL DEF Spec

-----------------------------------------------------------------------------
\* Every call keeps the map's fields and its answer in their types.
THEOREM TypeCorrect == Spec => []TypeOK
  BY AlwaysIInv, PTL DEF IInv

\* No sequence of inserts, refusals, deletes and frees links a key twice or
\* into a wrong bucket, or makes a chain longer than the walk limit allows.
THEOREM AlwaysWellFormed == Spec => []TableWellFormed
  BY AlwaysIInv, PTL DEF IInv

\* map->size is always the number of keys that get finds.
THEOREM AlwaysSizeExact == Spec => []SizeExact
  BY AlwaysIInv, PTL DEF IInv

\* No node ever points to a freed value or shares one with another node: no
\* call reads or frees a value that was freed before.
THEOREM AlwaysOwnedOnce == Spec => []OwnedOnce
<1>1. IInv => OwnedOnce
  <2> SUFFICES ASSUME IInv PROVE OwnedOnce
    OBVIOUS
  <2>1. table \in TableOf(Value) /\ WellFormed(table) /\ KeysOwn(table, live)
    BY TypedTable DEF IInv, TableWellFormed
  <2>2. Owned(table) \subseteq live
    BY <2>1, OwnedAreLookups DEF KeysOwn
  <2>3. ASSUME NEW b \in Bucket, NEW c \in Bucket,
               NEW i \in 1 .. Len(table[b]), NEW j \in 1 .. Len(table[c]),
               table[b][i].value = table[c][j].value
        PROVE  b = c /\ i = j
    <3>1. /\ table[b][i].key \in KeysOf(table) /\ hashKey[table[b][i].key] = b
          /\ Lookup(table, table[b][i].key) = table[b][i].value
      BY <2>1, NodesAreFound
    <3>2. /\ table[c][j].key \in KeysOf(table) /\ hashKey[table[c][j].key] = c
          /\ Lookup(table, table[c][j].key) = table[c][j].value
      BY <2>1, NodesAreFound
    <3>3. table[b][i].key = table[c][j].key
      BY <2>1, <2>3, <3>1, <3>2 DEF KeysOwn
    <3> QED
      BY <2>1, <3>1, <3>2, <3>3 DEF WellFormed, Distinct
  <2> QED
    BY <2>2, <2>3 DEF OwnedOnce
<1> QED
  BY <1>1, AlwaysIInv, PTL

\* The only call that loses a value object is an insert that returns -1.
THEOREM LeaksOnlyOnRefusal == Spec => LeakOnlyOnRefusal
<1>1. ASSUME IInv, IInv', [Next]_vars
      PROVE  [Lost' \subseteq Lost \/ (ret'.op = "insert" /\ ret'.rc = -1)]_vars
  <2>1. /\ table \in TableOf(Value) /\ WellFormed(table)
        /\ Owned(table) = {Lookup(table, x) : x \in KeysOf(table)}
    BY <1>1, TypedTable, OwnedAreLookups DEF IInv, TableWellFormed
  <2>2. /\ table' \in TableOf(Value) /\ WellFormed(table')
        /\ Owned(table') = {Lookup(table', x) : x \in KeysOf(table')}
    <3>1. table' \in TableOf(Value) /\ WellFormed(table')
      BY <1>1 DEF IInv, TypeOK, TableOf, NodeOf, Node, TableWellFormed
    <3> QED BY <3>1, OwnedAreLookups
  <2>3. ASSUME NEW k \in Key, NEW v \in Value, insertCoreconfHashMap(k, v)
        PROVE  Lost' \subseteq Lost \/ (ret'.op = "insert" /\ ret'.rc = -1)
    <3>1. CASE Refuses(table, k)
      BY <2>3, <3>1 DEF insertCoreconfHashMap
    <3>2. CASE ~Refuses(table, k)
      <4>1. /\ KeysOf(table') = KeysOf(table) \union {k}
            /\ Lookup(table', k) = v
            /\ \A x \in KeysOf(table) : x # k => Lookup(table', x) = Lookup(table, x)
            /\ Links(table, k) <=> k \notin KeysOf(table)
        BY <2>1, <2>3, <3>2, InsertIsMapUpdate DEF insertCoreconfHashMap
      <4>2. k \in KeysOf(table) => Replaced(table, k) = {Lookup(table, k)}
        BY <2>1, <3>2, <4>1, ReplacedIsOld
      <4>3. live' = (live \union {v}) \ Replaced(table, k)
        BY <2>3 DEF insertCoreconfHashMap
      <4> QED
        BY <2>1, <2>2, <4>1, <4>2, <4>3 DEF Lost
    <3> QED BY <3>1, <3>2
  <2>4. ASSUME NEW k \in Key, deleteFromCoreconfHashMap(k)
        PROVE  Lost' \subseteq Lost
    <3>1. /\ KeysOf(table') = KeysOf(table) \ {k}
          /\ \A x \in KeysOf(table') : Lookup(table', x) = Lookup(table, x)
      BY <2>1, <2>4, DeleteIsMapRemove DEF deleteFromCoreconfHashMap
    <3>2. live' = IF k \in KeysOf(table) THEN live \ {Lookup(table, k)} ELSE live
      BY <2>4 DEF deleteFromCoreconfHashMap, KeysOf
    <3> QED
      BY <2>1, <2>2, <3>1, <3>2 DEF Lost
  <2>5. ASSUME NEW k \in Key, getCoreconfHashMap(k)
        PROVE  Lost' \subseteq Lost
    BY <2>5 DEF getCoreconfHashMap, Lost
  <2>6. CASE freeCoreconfHashMap
    BY <2>6 DEF freeCoreconfHashMap, Lost
  <2> QED
    BY <1>1, <2>3, <2>4, <2>5, <2>6 DEF Next
<1> QED
  BY <1>1, AlwaysIInv, PTL DEF Spec, LeakOnlyOnRefusal

\* The chained table implements the abstract map: every call does to the
\* key-to-value map what KeyMap says, and answers what KeyMap answers.
THEOREM Refinement == Spec => ImplementsKeyMap
<1>1. Init => Map!Init
  <2> SUFFICES ASSUME Init PROVE Map!Init
    OBVIOUS
  <2>1. KeysOf(table) = {}
    BY EmptyTableIsEmpty DEF Init
  <2>2. ContentsOf(table) = [k \in {} |-> Null]
    BY <2>1 DEF ContentsOf
  <2> QED
    BY <2>2 DEF Init, Map!Init
<1>2. ASSUME IInv, [Next]_vars
      PROVE  [Map!Next]_(Map!vars)
  <2>1. table \in TableOf(Value) /\ WellFormed(table)
    BY <1>2, TypedTable DEF IInv, TableWellFormed
  <2>2. ASSUME NEW k \in Key, NEW v \in Value, insertCoreconfHashMap(k, v)
        PROVE  Map!Next
    <3>1. CASE Refuses(table, k)
      <4>1. table' = table
        BY <2>1, <2>2, <3>1, InsertIsMapUpdate DEF insertCoreconfHashMap
      <4>2. Map!InsertRefused(k)
        BY <2>2, <3>1, <4>1 DEF insertCoreconfHashMap, Map!InsertRefused
      <4> QED BY <4>2 DEF Map!Next
    <3>2. CASE ~Refuses(table, k)
      <4>1. /\ KeysOf(table') = KeysOf(table) \union {k}
            /\ Lookup(table', k) = v
            /\ \A x \in KeysOf(table) : x # k => Lookup(table', x) = Lookup(table, x)
        BY <2>1, <2>2, <3>2, InsertIsMapUpdate DEF insertCoreconfHashMap
      <4>2. ContentsOf(table') = [x \in DOMAIN ContentsOf(table) \union {k} |->
                                    IF x = k THEN v ELSE ContentsOf(table)[x]]
        BY <4>1 DEF ContentsOf
      <4>3. Map!InsertTaken(k, v)
        BY <2>2, <3>2, <4>2 DEF insertCoreconfHashMap, Map!InsertTaken
      <4> QED BY <4>3 DEF Map!Next
    <3> QED BY <3>1, <3>2
  <2>3. ASSUME NEW k \in Key, deleteFromCoreconfHashMap(k)
        PROVE  Map!Next
    <3>1. /\ KeysOf(table') = KeysOf(table) \ {k}
          /\ \A x \in KeysOf(table') : Lookup(table', x) = Lookup(table, x)
      BY <2>1, <2>3, DeleteIsMapRemove DEF deleteFromCoreconfHashMap
    <3>2. CASE Has(table, k)
      <4>1. ContentsOf(table') = [x \in DOMAIN ContentsOf(table) \ {k} |-> ContentsOf(table)[x]]
        BY <3>1 DEF ContentsOf
      <4>2. Map!DeletePresent(k)
        BY <2>3, <3>2, <4>1 DEF deleteFromCoreconfHashMap, Map!DeletePresent, ContentsOf, KeysOf
      <4> QED BY <4>2 DEF Map!Next
    <3>3. CASE ~Has(table, k)
      <4>1. table' = table
        BY <2>3, <3>3 DEF deleteFromCoreconfHashMap, TableDelete
      <4>2. Map!DeleteAbsent(k)
        BY <2>3, <3>3, <4>1 DEF deleteFromCoreconfHashMap, Map!DeleteAbsent, ContentsOf, KeysOf
      <4> QED BY <4>2 DEF Map!Next
    <3> QED BY <3>2, <3>3
  <2>4. ASSUME NEW k \in Key, getCoreconfHashMap(k)
        PROVE  Map!Next
    <3>1. Map!Get(k)
      BY <2>4 DEF getCoreconfHashMap, Map!Get, ContentsOf, KeysOf
    <3> QED BY <3>1 DEF Map!Next
  <2>5. CASE freeCoreconfHashMap
    <3>1. KeysOf(table') = {}
      BY <2>5, EmptyTableIsEmpty DEF freeCoreconfHashMap
    <3>2. ContentsOf(table') = [k \in {} |-> Null]
      BY <3>1 DEF ContentsOf
    <3>3. Map!Free
      BY <2>5, <3>2 DEF freeCoreconfHashMap, Map!Free
    <3> QED BY <3>3 DEF Map!Next
  <2>6. CASE UNCHANGED vars
    BY <2>6 DEF vars, Map!vars
  <2> QED
    BY <1>2, <2>2, <2>3, <2>4, <2>5, <2>6 DEF Next
<1> QED
  BY <1>1, <1>2, AlwaysIInv, PTL DEF Spec, ImplementsKeyMap, Map!Spec
=============================================================================
