----------------------------- MODULE HashTable ------------------------------
(***************************************************************************)
(* The chained hash table of src/coreconfTypes.c as operators on a table   *)
(* value: a function from buckets to chains, a chain being a sequence of   *)
(* nodes [key, value] in the order of the `next' pointers.                 *)
(*                                                                         *)
(* hashKey is a parameter: every property is about what happens when keys  *)
(* share a bucket, whatever the multiplicative hash makes of them.         *)
(***************************************************************************)
EXTENDS Naturals, Sequences, FiniteSets

CONSTANTS
    Key,        \* the SIDs in use
    TableSize,  \* HASHMAP_TABLE_SIZE, 100 in the code
    MaxLoop,    \* CORECONF_MAX_LOOP, 50 in the code
    hashKey     \* the bucket of each key

ASSUME TableAssumption ==
    /\ TableSize \in Nat \ {0}
    /\ MaxLoop \in Nat
    /\ hashKey \in [Key -> 0 .. TableSize - 1]

Bucket == 0 .. TableSize - 1

\* createCoreconfHashmap: every bucket starts with no chain.
EmptyTable == [b \in Bucket |-> <<>>]

\* The chain the key's operations walk.
ChainOf(t, k) == t[hashKey[k]]

\* The positions of a key in a chain.
At(c, k) == {i \in 1 .. Len(c) : c[i].key = k}

\* The first of a set of positions: every walk stops at the first match.
FirstOf(S) == CHOOSE i \in S : \A j \in S : i <= j

\* Positions insert's walk compares before it gives up: the check
\* loopCount > CORECONF_MAX_LOOP comes before the comparison, and loopCount
\* is one less than the position.
Hit(c, k) == {i \in At(c, k) : i <= MaxLoop + 1}

\* Mutant: the walk has no limit, so its early return is gone.
NeverGivesUp(c, k) == FALSE

\* The walk meets a node past the limit without having met the key.
GivesUp(c, k) == Hit(c, k) = {} /\ Len(c) > MaxLoop + 1

\* Mutant: the value that is found is freed and not overwritten.
KeepsOldValue(c, k, v) ==
    IF Hit(c, k) # {} \/ GivesUp(c, k) THEN c ELSE <<[key |-> k, value |-> v]>> \o c

\* insertCoreconfHashMap on a chain: replace the value of the first node
\* with the key, give up on a chain that is too long, else link a new head.
InsertInChain(c, k, v) ==
    IF Hit(c, k) # {}
      THEN [i \in 1 .. Len(c) |->
              IF i = FirstOf(Hit(c, k)) THEN [key |-> k, value |-> v] ELSE c[i]]
      ELSE IF GivesUp(c, k)
             THEN c
             ELSE <<[key |-> k, value |-> v]>> \o c

\* insertCoreconfHashMap returns -1.
Refuses(t, k) == GivesUp(ChainOf(t, k), k)

\* Mutant: the size is incremented before the walk may give up.
LinksOrRefuses(t, k) == Hit(ChainOf(t, k), k) = {}

\* insertCoreconfHashMap adds a node (and increments size).
Links(t, k) == Hit(ChainOf(t, k), k) = {} /\ ~Refuses(t, k)

TableInsert(t, k, v) ==
    [t EXCEPT ![hashKey[k]] = InsertInChain(ChainOf(t, k), k, v)]

\* Mutant: prev is never advanced, so the head goes.
UnlinkHead(c, i) == Tail(c)

\* The chain without its node at position i: prev->next = cur->next.
Unlink(c, i) ==
    [j \in 1 .. Len(c) - 1 |-> IF j < i THEN c[j] ELSE c[j + 1]]

\* getCoreconfHashMap does not count its steps: it finds any node.
Has(t, k) == At(ChainOf(t, k), k) # {}

Lookup(t, k) == ChainOf(t, k)[FirstOf(At(ChainOf(t, k), k))].value

\* deleteFromCoreconfHashMap: unlink the first node with the key, if any.
TableDelete(t, k) ==
    IF Has(t, k)
      THEN [t EXCEPT ![hashKey[k]] =
              Unlink(ChainOf(t, k), FirstOf(At(ChainOf(t, k), k)))]
      ELSE t

\* Mutant: the size is decremented whether or not a node was found.
SizeAlwaysDrops(t, n, k) == n - 1

\* map->size after an insert and after a delete.
SizeAfterInsert(t, n, k) == IF Links(t, k) THEN n + 1 ELSE n
SizeAfterDelete(t, n, k) == IF Has(t, k) /\ n > 0 THEN n - 1 ELSE n

\* The keys get finds, and the map the table stands for.
KeysOf(t) == {k \in Key : Has(t, k)}
ContentsOf(t) == [k \in KeysOf(t) |-> Lookup(t, k)]

-----------------------------------------------------------------------------
(***************************************************************************)
(* What makes a table well formed.                                         *)
(***************************************************************************)

\* A key is only ever in its own bucket.
Placed(t) ==
    \A b \in Bucket : \A i \in 1 .. Len(t[b]) : hashKey[t[b][i].key] = b

\* No chain holds a key twice.
Distinct(t) ==
    \A b \in Bucket : \A i, j \in 1 .. Len(t[b]) :
        t[b][i].key = t[b][j].key => i = j

\* A chain never has more nodes than insert's walk can pass plus two.
Bounded(t) == \A b \in Bucket : Len(t[b]) <= MaxLoop + 2

WellFormed(t) == Placed(t) /\ Distinct(t) /\ Bounded(t)
=============================================================================
