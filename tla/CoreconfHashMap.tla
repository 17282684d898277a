-------------------------- MODULE CoreconfHashMap ---------------------------
(***************************************************************************)
(* A CoreconfHashMapT (src/coreconfTypes.c) and the heap objects its nodes *)
(* own.  A caller allocates a value and hands it to insert, which frees    *)
(* the value it replaces; delete and free release what the nodes own.      *)
(* A value is therefore an object identity: `live' are the identities that *)
(* are allocated and not yet freed.                                        *)
(***************************************************************************)
EXTENDS HashTable, Integers

CONSTANTS
    Value,   \* the identities a value object can have
    Null     \* the NULL get returns

ASSUME ValueAssumption == Null \notin Value

VARIABLES
    table,   \* map->table
    size,    \* map->size
    live,    \* allocated value objects
    ret      \* the call that ended last and what it returned

vars == <<table, size, live, ret>>

Node == [key : Key, value : Value]

\* The value objects the nodes of a table point to.
Owned(t) == UNION {{t[b][i].value : i \in 1 .. Len(t[b])} : b \in Bucket}

Init ==
    /\ table = EmptyTable
    /\ size = 0
    /\ live = {}
    /\ ret = [op |-> "create"]

\* Mutant: the value that is replaced is not freed.
ReplacedKept(t, k) == {}

\* The object a call of insert frees: the value it replaces.
Replaced(t, k) ==
    IF Hit(ChainOf(t, k), k) # {}
      THEN {ChainOf(t, k)[FirstOf(Hit(ChainOf(t, k), k))].value}
      ELSE {}

\* A caller creates the value v and inserts it under k.  A refused insert
\* returns -1 and frees neither the value nor the node it had allocated.
insertCoreconfHashMap(k, v) ==
    /\ v \notin live
    /\ table' = TableInsert(table, k, v)
    /\ size' = SizeAfterInsert(table, size, k)
    /\ live' = (live \union {v}) \ Replaced(table, k)
    /\ ret' = [op |-> "insert", key |-> k,
               rc |-> IF Refuses(table, k) THEN -1 ELSE 0]

deleteFromCoreconfHashMap(k) ==
    /\ table' = TableDelete(table, k)
    /\ size' = SizeAfterDelete(table, size, k)
    /\ live' = IF Has(table, k) THEN live \ {Lookup(table, k)} ELSE live
    /\ ret' = [op |-> "delete", key |-> k,
               rc |-> IF Has(table, k) THEN 0 ELSE -1]

getCoreconfHashMap(k) ==
    /\ ret' = [op |-> "get", key |-> k,
               value |-> IF Has(table, k) THEN Lookup(table, k) ELSE Null]
    /\ UNCHANGED <<table, size, live>>

\* Every owner frees the map and creates a new one before the next use.
freeCoreconfHashMap ==
    /\ table' = EmptyTable
    /\ size' = 0
    /\ live' = live \ Owned(table)
    /\ ret' = [op |-> "free"]

Next ==
    \/ \E k \in Key, v \in Value : insertCoreconfHashMap(k, v)
    \/ \E k \in Key : deleteFromCoreconfHashMap(k)
    \/ \E k \in Key : getCoreconfHashMap(k)
    \/ freeCoreconfHashMap

Spec == Init /\ [][Next]_vars

-----------------------------------------------------------------------------
\* What a call can return.
Answer == [op : {"create", "free"}]
          \union [op : {"insert", "delete"}, key : Key, rc : {0, -1}]
          \union [op : {"get"}, key : Key, value : Value \union {Null}]

TypeOK ==
    /\ table \in [Bucket -> Seq(Node)]
    /\ size \in Nat
    /\ live \in SUBSET Value
    /\ ret \in Answer

\* However inserts, refusals and deletes are mixed, a chain never holds a
\* key twice, a key is only in its own bucket and no chain outgrows the
\* limit: the early return of a walk that gave up is what keeps a key that
\* lies behind the limit from being linked a second time.
TableWellFormed == WellFormed(table)

\* map->size, which GET /c and the encoders trust, is the number of keys a
\* get can find.
SizeExact == size = Cardinality(KeysOf(table))

\* No node points to a freed value and no two nodes share one, so no value
\* is freed twice.
OwnedOnce ==
    /\ Owned(table) \subseteq live
    /\ \A b, c \in Bucket : \A i \in 1 .. Len(table[b]), j \in 1 .. Len(table[c]) :
         table[b][i].value = table[c][j].value => b = c /\ i = j

\* Value objects that are allocated and that no node points to.
Lost == live \ Owned(table)

\* A value is lost only by an insert that returned -1.
LeakOnlyOnRefusal ==
    [][Lost' \subseteq Lost \/ (ret'.op = "insert" /\ ret'.rc = -1)]_vars

\* The table implements the abstract map: ContentsOf(table) is the map.
Map == INSTANCE KeyMap WITH contents <- ContentsOf(table)

\* Chains, walks and positions are invisible to callers: every call does to
\* the key-to-value map what KeyMap says the call does.
ImplementsKeyMap == Map!Spec
=============================================================================
