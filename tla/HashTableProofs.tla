-------------------------- MODULE HashTableProofs ---------------------------
(***************************************************************************)
(* What the chained table's operations do, for every table size, walk      *)
(* limit, hash function, key set and value set V.  A well-formed table is  *)
(* a map: each lemma says what an operation does to KeysOf and Lookup, so  *)
(* that users need not look at chains again.                               *)
(***************************************************************************)
EXTENDS HashTable, TLAPS, SequenceTheorems

\* Tables whose values are in V.
NodeOf(V) == [key : Key, value : V]
TableOf(V) == [Bucket -> Seq(NodeOf(V))]

\* The chain of a key is one of the table's chains.
LEMMA ChainType ==
    ASSUME NEW V, NEW t \in TableOf(V), NEW k \in Key
    PROVE  /\ hashKey[k] \in Bucket
           /\ ChainOf(t, k) \in Seq(NodeOf(V))
           /\ Len(ChainOf(t, k)) \in Nat
           /\ \A i \in 1 .. Len(ChainOf(t, k)) :
                /\ ChainOf(t, k)[i] \in NodeOf(V)
                /\ ChainOf(t, k)[i].key \in Key
                /\ ChainOf(t, k)[i].value \in V
<1>1. hashKey[k] \in Bucket
  BY TableAssumption DEF Bucket
<1>2. ChainOf(t, k) \in Seq(NodeOf(V))
  BY <1>1 DEF TableOf, ChainOf
<1>3. Len(ChainOf(t, k)) \in Nat
  BY <1>2
<1>4. \A i \in 1 .. Len(ChainOf(t, k)) : ChainOf(t, k)[i] \in NodeOf(V)
  BY <1>2, ElementOfSeq
<1> QED
  BY <1>1, <1>2, <1>3, <1>4 DEF NodeOf

\* In a well-formed table a key has at most one position in its chain, and
\* a walk to the first position finds that one.
LEMMA UniquePosition ==
    ASSUME NEW V, NEW t \in TableOf(V), WellFormed(t), NEW k \in Key,
           NEW i \in At(ChainOf(t, k), k)
    PROVE  /\ At(ChainOf(t, k), k) = {i}
           /\ FirstOf(At(ChainOf(t, k), k)) = i
           /\ Has(t, k)
           /\ Lookup(t, k) = ChainOf(t, k)[i].value
<1>1. At(ChainOf(t, k), k) = {i}
  BY ChainType DEF At, WellFormed, Distinct, ChainOf
<1>2. i \in Nat
  BY ChainType DEF At
<1>3. FirstOf({i}) = i
  BY <1>2 DEF FirstOf
<1> QED
  BY <1>1, <1>3 DEF Has, Lookup

\* Every node of a well-formed table is the one its key's walk finds.
LEMMA NodesAreFound ==
    ASSUME NEW V, NEW t \in TableOf(V), WellFormed(t),
           NEW b \in Bucket, NEW i \in 1 .. Len(t[b])
    PROVE  /\ t[b][i].key \in KeysOf(t)
           /\ hashKey[t[b][i].key] = b
           /\ Lookup(t, t[b][i].key) = t[b][i].value
           /\ t[b][i].value \in V
<1> DEFINE k == t[b][i].key
<1>1. t[b] \in Seq(NodeOf(V))
  BY DEF TableOf
<1>2. t[b][i] \in NodeOf(V)
  BY <1>1, ElementOfSeq
<1>3. k \in Key /\ t[b][i].value \in V
  BY <1>2 DEF NodeOf
<1>4. hashKey[k] = b
  BY DEF WellFormed, Placed
<1>5. i \in At(ChainOf(t, k), k)
  BY <1>4 DEF At, ChainOf
<1>6. k \in KeysOf(t) /\ Lookup(t, k) = ChainOf(t, k)[i].value
  <2> HIDE DEF k
  <2> QED BY <1>3, <1>5, UniquePosition DEF KeysOf
<1>7. ChainOf(t, k)[i].value = t[b][i].value
  BY <1>4 DEF ChainOf
<1> QED
  BY <1>3, <1>4, <1>6, <1>7

\* Every key that is found has a node.
LEMMA FoundHasNode ==
    ASSUME NEW V, NEW t \in TableOf(V), WellFormed(t), NEW k \in KeysOf(t)
    PROVE  \E i \in 1 .. Len(t[hashKey[k]]) :
             /\ t[hashKey[k]][i].key = k
             /\ t[hashKey[k]][i].value = Lookup(t, k)
             /\ Lookup(t, k) \in V
<1>1. PICK i : i \in At(ChainOf(t, k), k)
  BY DEF KeysOf, Has
<1>2. k \in Key
  BY DEF KeysOf
<1>3. i \in 1 .. Len(ChainOf(t, k)) /\ ChainOf(t, k)[i].key = k
  BY <1>1 DEF At
<1>4. Lookup(t, k) = ChainOf(t, k)[i].value
  BY <1>1, <1>2, UniquePosition
<1> QED
  BY <1>2, <1>3, <1>4, ChainType DEF ChainOf

-----------------------------------------------------------------------------
\* Insert on a chain: it replaces at the key's position, or leaves the chain
\* alone, or puts a new node in front of a chain without the key.
LEMMA InsertChain ==
    ASSUME NEW V, NEW t \in TableOf(V), WellFormed(t), NEW k \in Key, NEW v \in V
    PROVE  LET c == ChainOf(t, k)
               d == InsertInChain(c, k, v)
           IN  /\ d \in Seq(NodeOf(V))
               /\ \/ \E i \in At(c, k) :
                       /\ ~GivesUp(c, k)
                       /\ Hit(c, k) # {}
                       /\ FirstOf(Hit(c, k)) = i
                       /\ Len(d) = Len(c)
                       /\ d[i] = [key |-> k, value |-> v]
                       /\ \A j \in 1 .. Len(c) : j # i => d[j] = c[j]
                  \/ GivesUp(c, k) /\ d = c
                  \/ /\ ~GivesUp(c, k)
                     /\ Hit(c, k) = {} /\ At(c, k) = {}
                     /\ Len(c) <= MaxLoop + 1
                     /\ Len(d) = Len(c) + 1
                     /\ d[1] = [key |-> k, value |-> v]
                     /\ \A j \in 2 .. Len(c) + 1 : d[j] = c[j - 1]
<1> DEFINE c == ChainOf(t, k)
           d == InsertInChain(c, k, v)
           n == [key |-> k, value |-> v]
<1>1. /\ c \in Seq(NodeOf(V)) /\ Len(c) \in Nat /\ n \in NodeOf(V)
      /\ \A i \in 1 .. Len(c) : c[i] \in NodeOf(V)
  BY ChainType DEF NodeOf
<1>2. ASSUME Hit(c, k) # {}
      PROVE  /\ d \in Seq(NodeOf(V))
             /\ \E i \in At(c, k) : 
                  /\ ~GivesUp(c, k)
                  /\ FirstOf(Hit(c, k)) = i
                  /\ Len(d) = Len(c)
                  /\ d[i] = n
                  /\ \A j \in 1 .. Len(c) : j # i => d[j] = c[j]
  <2>1. PICK i \in At(c, k) : Hit(c, k) = {i}
    BY <1>2, UniquePosition DEF Hit
  <2>2. i \in 1 .. Len(c)
    BY DEF At
  <2>3. FirstOf({i}) = i
    BY <2>2 DEF FirstOf
  <2>4. d = [j \in 1 .. Len(c) |-> IF j = i THEN n ELSE c[j]]
    BY <1>2, <2>1, <2>3 DEF InsertInChain
  <2>5. d \in [1 .. Len(c) -> NodeOf(V)]
    BY <1>1, <2>4
  <2>6. d \in Seq(NodeOf(V)) /\ Len(d) = Len(c)
    BY <1>1, <2>5, SeqDef
  <2>7. ~GivesUp(c, k)
    BY <1>2 DEF GivesUp
  <2> QED
    BY <2>1, <2>2, <2>3, <2>4, <2>6, <2>7
<1>3. ASSUME Hit(c, k) = {}, GivesUp(c, k)
      PROVE  d \in Seq(NodeOf(V)) /\ d = c
  BY <1>1, <1>3 DEF InsertInChain
<1>4. ASSUME Hit(c, k) = {}, ~GivesUp(c, k)
      PROVE  /\ d \in Seq(NodeOf(V))
             /\ At(c, k) = {}
             /\ Len(c) <= MaxLoop + 1
             /\ Len(d) = Len(c) + 1
             /\ d[1] = n
             /\ \A j \in 2 .. Len(c) + 1 : d[j] = c[j - 1]
  <2>1. Len(c) <= MaxLoop + 1
    BY <1>1, <1>4, TableAssumption DEF GivesUp
  <2>2. At(c, k) = {}
    BY <1>1, <1>4, <2>1, TableAssumption DEF Hit, At
  <2>3. d = <<n>> \o c
    BY <1>4 DEF InsertInChain
  <2>4. <<n>> \in Seq(NodeOf(V)) /\ Len(<<n>>) = 1 /\ <<n>>[1] = n
    BY <1>1
  <2>5. /\ d \in Seq(NodeOf(V))
        /\ Len(d) = 1 + Len(c)
        /\ \A i \in 1 .. 1 + Len(c) : d[i] = IF i <= 1 THEN <<n>>[i] ELSE c[i - 1]
    <3> HIDE DEF c, d
    <3> QED BY <1>1, <2>3, <2>4, ConcatProperties
  <2> QED
    BY <1>1, <2>1, <2>2, <2>4, <2>5
<1> QED
  BY <1>2, <1>3, <1>4

\* insertCoreconfHashMap: a refused insert changes nothing; any other makes
\* the value the one found under the key, leaves every other key alone and
\* keeps the table well formed.
THEOREM InsertIsMapUpdate ==
    ASSUME NEW V, NEW t \in TableOf(V), WellFormed(t), NEW k \in Key, NEW v \in V
    PROVE  LET u == TableInsert(t, k, v)
           IN  /\ u \in TableOf(V)
               /\ WellFormed(u)
               /\ Refuses(t, k) => u = t
               /\ ~Refuses(t, k) =>
                    /\ KeysOf(u) = KeysOf(t) \union {k}
                    /\ Lookup(u, k) = v
                    /\ \A x \in KeysOf(t) : x # k => Lookup(u, x) = Lookup(t, x)
                    /\ Links(t, k) <=> k \notin KeysOf(t)
<1> DEFINE c == ChainOf(t, k)
           d == InsertInChain(c, k, v)
           u == TableInsert(t, k, v)
           n == [key |-> k, value |-> v]
<1>1. /\ hashKey[k] \in Bucket
      /\ c \in Seq(NodeOf(V)) /\ Len(c) \in Nat
  BY ChainType
<1>2. d \in Seq(NodeOf(V))
  BY InsertChain
<1>3. u = [t EXCEPT ![hashKey[k]] = d]
  BY DEF TableInsert
<1>4. /\ u \in TableOf(V)
      /\ u[hashKey[k]] = d
      /\ \A b \in Bucket : u[b] = IF b = hashKey[k] THEN d ELSE t[b]
      /\ \A x \in Key : ChainOf(u, x) = IF hashKey[x] = hashKey[k] THEN d ELSE ChainOf(t, x)
  <2> HIDE DEF d, u
  <2> QED BY <1>2, <1>3, TableAssumption DEF TableOf, Bucket, ChainOf
<1>5. /\ \A i, j \in 1 .. Len(c) : c[i].key = c[j].key => i = j
      /\ \A i \in 1 .. Len(c) : hashKey[c[i].key] = hashKey[k]
      /\ Len(c) <= MaxLoop + 2
  BY <1>1 DEF WellFormed, Placed, Distinct, Bounded, ChainOf
<1>6. CASE GivesUp(c, k)
  <2>1. d = c
    BY <1>6, InsertChain DEF GivesUp
  <2>2. u = t
    BY <1>1, <1>3, <2>1 DEF ChainOf, TableOf
  <2> QED
    BY <1>6, <2>2 DEF Refuses
<1>7. CASE ~GivesUp(c, k)
  <2>1. /\ \A i, j \in 1 .. Len(d) : d[i].key = d[j].key => i = j
        /\ \A i \in 1 .. Len(d) : hashKey[d[i].key] = hashKey[k]
        /\ Len(d) <= MaxLoop + 2
        /\ \E i \in 1 .. Len(d) : d[i] = n
        /\ \A x \in Key : x # k =>
             /\ \A i \in At(c, x) : \E j \in At(d, x) : d[j] = c[i]
             /\ \A j \in At(d, x) : At(c, x) # {}
    <3>1. CASE \E i \in At(c, k) : /\ Len(d) = Len(c)
                                   /\ d[i] = n
                                   /\ \A j \in 1 .. Len(c) : j # i => d[j] = c[j]
      <4>1. PICK i \in At(c, k) : /\ Len(d) = Len(c)
                                  /\ d[i] = n
                                  /\ \A j \in 1 .. Len(c) : j # i => d[j] = c[j]
        BY <3>1
      <4>2. i \in 1 .. Len(c) /\ c[i].key = k
        BY DEF At
      <4> HIDE DEF c, d
      <4>3. \A j \in 1 .. Len(c) : d[j].key = c[j].key
        BY <4>1, <4>2
      <4> QED
        BY <1>5, <4>1, <4>2, <4>3 DEF At
    <3>2. CASE /\ At(c, k) = {}
               /\ Len(c) <= MaxLoop + 1
               /\ Len(d) = Len(c) + 1
               /\ d[1] = n
               /\ \A j \in 2 .. Len(c) + 1 : d[j] = c[j - 1]
      <4> HIDE DEF c, d
      <4>1. \A j \in 1 .. Len(c) : c[j].key # k /\ d[j + 1] = c[j]
        BY <1>1, <3>2 DEF At
      <4>2. \A j \in 1 .. Len(d) : j = 1 \/ (j - 1 \in 1 .. Len(c) /\ d[j] = c[j - 1])
        BY <1>1, <3>2
      <4>3. \A i, j \in 1 .. Len(d) : d[i].key = d[j].key => i = j
        <5>1. d[1].key = k
          BY <3>2
        <5>2. \A j \in 1 .. Len(d) : j # 1 =>
                j - 1 \in 1 .. Len(c) /\ d[j].key = c[j - 1].key /\ d[j].key # k
          BY <4>1, <4>2
        <5>3. \A i, j \in 1 .. Len(d) :
                i # 1 /\ j # 1 /\ d[i].key = d[j].key => i - 1 = j - 1
          BY <1>5, <5>2
        <5> QED
          BY <1>1, <3>2, <5>1, <5>2, <5>3
      <4>4. \A i \in 1 .. Len(d) : hashKey[d[i].key] = hashKey[k]
        BY <1>5, <3>2, <4>2
      <4>5. ASSUME NEW x \in Key, x # k
            PROVE  /\ \A i \in At(c, x) : \E j \in At(d, x) : d[j] = c[i]
                   /\ \A j \in At(d, x) : At(c, x) # {}
        <5>1. \A i \in At(c, x) : i + 1 \in At(d, x) /\ d[i + 1] = c[i]
          BY <1>1, <3>2, <4>1 DEF At
        <5>2. \A j \in At(d, x) : j - 1 \in At(c, x)
          BY <1>1, <3>2, <4>2, <4>5 DEF At
        <5> QED BY <5>1, <5>2
      <4> QED
        BY <1>1, <3>2, <4>3, <4>4, <4>5, TableAssumption
    <3> QED
      BY <1>7, <3>1, <3>2, InsertChain
  <2>2. WellFormed(u)
    <3> HIDE DEF c, d, u
    <3>1. Placed(u)
      BY <1>4, <2>1 DEF WellFormed, Placed
    <3>2. Distinct(u)
      BY <1>4, <2>1 DEF WellFormed, Distinct
    <3>3. Bounded(u)
      BY <1>4, <2>1 DEF WellFormed, Bounded
    <3> QED BY <3>1, <3>2, <3>3 DEF WellFormed
  <2>3. k \in KeysOf(u) /\ Lookup(u, k) = v
    <3>1. PICK i \in 1 .. Len(d) : d[i] = n
      BY <2>1
    <3>2. i \in At(ChainOf(u, k), k) /\ ChainOf(u, k)[i].value = v
      BY <1>4, <3>1 DEF At
    <3> QED
      BY <1>4, <2>2, <3>2, UniquePosition DEF KeysOf
  <2>4. ASSUME NEW x \in KeysOf(t), x # k
        PROVE  x \in KeysOf(u) /\ Lookup(u, x) = Lookup(t, x)
    <3>0. x \in Key
      BY DEF KeysOf
    <3>1. PICK i : i \in At(ChainOf(t, x), x)
      BY DEF KeysOf, Has
    <3>2. Lookup(t, x) = ChainOf(t, x)[i].value
      BY <3>0, <3>1, UniquePosition
    <3>3. \E j \in At(ChainOf(u, x), x) : ChainOf(u, x)[j] = ChainOf(t, x)[i]
      <4>1. CASE hashKey[x] = hashKey[k]
        <5>1. ChainOf(t, x) = c /\ ChainOf(u, x) = d
          BY <1>4, <3>0, <4>1 DEF ChainOf
        <5> QED BY <2>1, <2>4, <3>0, <3>1, <5>1
      <4>2. CASE hashKey[x] # hashKey[k]
        BY <1>4, <3>0, <3>1, <4>2
      <4> QED BY <4>1, <4>2
    <3> QED
      BY <1>4, <2>2, <3>0, <3>2, <3>3, UniquePosition DEF KeysOf
  <2>5. ASSUME NEW x \in KeysOf(u), x # k
        PROVE  x \in KeysOf(t)
    <3>0. x \in Key /\ At(ChainOf(u, x), x) # {}
      BY DEF KeysOf, Has
    <3>1. CASE hashKey[x] = hashKey[k]
      <4>1. ChainOf(t, x) = c /\ ChainOf(u, x) = d
        BY <1>4, <3>0, <3>1 DEF ChainOf
      <4> QED BY <2>1, <2>5, <3>0, <4>1 DEF KeysOf, Has
    <3>2. CASE hashKey[x] # hashKey[k]
      BY <1>4, <3>0, <3>2 DEF KeysOf, Has
    <3> QED BY <3>1, <3>2
  <2>6. Links(t, k) <=> k \notin KeysOf(t)
    BY <1>7, InsertChain DEF Links, Refuses, KeysOf, Has
  <2> QED
    BY <1>4, <1>7, <2>2, <2>3, <2>4, <2>5, <2>6 DEF Refuses
<1> QED
  BY <1>6, <1>7, <1>4

-----------------------------------------------------------------------------
\* Unlinking one position keeps the others in order.
LEMMA UnlinkChain ==
    ASSUME NEW N, NEW c \in Seq(N), NEW i \in 1 .. Len(c)
    PROVE  /\ Unlink(c, i) \in Seq(N)
           /\ Len(Unlink(c, i)) = Len(c) - 1
           /\ \A j \in 1 .. Len(c) - 1 : Unlink(c, i)[j] = IF j < i THEN c[j] ELSE c[j + 1]
<1>1. Len(c) \in Nat /\ Len(c) - 1 \in Nat
  OBVIOUS
<1>2. \A j \in 1 .. Len(c) : c[j] \in N
  BY ElementOfSeq
<1>3. Unlink(c, i) \in [1 .. Len(c) - 1 -> N]
  BY <1>1, <1>2 DEF Unlink
<1>4. Unlink(c, i) \in Seq(N) /\ Len(Unlink(c, i)) = Len(c) - 1
  BY <1>1, <1>3, SeqDef
<1> QED
  BY <1>4 DEF Unlink

\* deleteFromCoreconfHashMap: a key that is found is gone afterwards, every
\* other key keeps its value, and the table stays well formed.
THEOREM DeleteIsMapRemove ==
    ASSUME NEW V, NEW t \in TableOf(V), WellFormed(t), NEW k \in Key
    PROVE  LET u == TableDelete(t, k)
           IN  /\ u \in TableOf(V)
               /\ WellFormed(u)
               /\ KeysOf(u) = KeysOf(t) \ {k}
               /\ \A x \in KeysOf(u) : Lookup(u, x) = Lookup(t, x)
<1> DEFINE c == ChainOf(t, k)
           u == TableDelete(t, k)
<1>1. CASE ~Has(t, k)
  BY <1>1 DEF TableDelete, KeysOf
<1>2. CASE Has(t, k)
  <2>1. PICK i : i \in At(c, k)
    BY <1>2 DEF Has
  <2>2. At(c, k) = {i} /\ FirstOf(At(c, k)) = i
    BY <2>1, UniquePosition
  <2> DEFINE d == Unlink(c, i)
  <2>3. /\ c \in Seq(NodeOf(V)) /\ Len(c) \in Nat
        /\ hashKey[k] \in Bucket
        /\ i \in 1 .. Len(c) /\ c[i].key = k
    BY <2>1, ChainType DEF At
  <2>4. u = [t EXCEPT ![hashKey[k]] = d]
    BY <1>2, <2>2 DEF TableDelete
  <2>5. /\ d \in Seq(NodeOf(V))
        /\ Len(d) = Len(c) - 1
        /\ \A j \in 1 .. Len(c) - 1 : d[j] = IF j < i THEN c[j] ELSE c[j + 1]
    BY <2>3, UnlinkChain
  <2>6. /\ u \in TableOf(V)
        /\ \A b \in Bucket : u[b] = IF b = hashKey[k] THEN d ELSE t[b]
        /\ \A x \in Key : ChainOf(u, x) = IF hashKey[x] = hashKey[k] THEN d ELSE ChainOf(t, x)
    <3> HIDE DEF d, u
    <3> QED BY <2>4, <2>5, TableAssumption DEF TableOf, Bucket, ChainOf
  <2>7. /\ \A j, l \in 1 .. Len(c) : c[j].key = c[l].key => j = l
        /\ \A j \in 1 .. Len(c) : hashKey[c[j].key] = hashKey[k]
        /\ Len(c) <= MaxLoop + 2
    BY <2>3 DEF WellFormed, Placed, Distinct, Bounded, ChainOf
  <2> HIDE DEF c, d, u
  <2>8. /\ \A j, l \in 1 .. Len(d) : d[j].key = d[l].key => j = l
        /\ \A j \in 1 .. Len(d) : hashKey[d[j].key] = hashKey[k] /\ d[j].key # k
        /\ Len(d) <= MaxLoop + 2
    <3>1. \A j \in 1 .. Len(d) :
            \/ j < i /\ j \in 1 .. Len(c) /\ d[j] = c[j]
            \/ j >= i /\ j + 1 \in 1 .. Len(c) /\ d[j] = c[j + 1]
      BY <2>3, <2>5
    <3>2. \A j, l \in 1 .. Len(d) : d[j].key = d[l].key => j = l
      <4> TAKE j, l \in 1 .. Len(d)
      <4> HAVE d[j].key = d[l].key
      <4>1. PICK p \in 1 .. Len(c) : d[j] = c[p] /\ p = IF j < i THEN j ELSE j + 1
        BY <2>3, <3>1
      <4>2. PICK q \in 1 .. Len(c) : d[l] = c[q] /\ q = IF l < i THEN l ELSE l + 1
        BY <2>3, <3>1
      <4>3. p = q
        BY <2>7, <4>1, <4>2
      <4> QED
        BY <2>3, <2>5, <4>1, <4>2, <4>3
    <3>3. \A j \in 1 .. Len(d) : hashKey[d[j].key] = hashKey[k] /\ d[j].key # k
      <4> TAKE j \in 1 .. Len(d)
      <4>1. PICK l \in 1 .. Len(c) : d[j] = c[l] /\ l # i
        BY <2>3, <3>1
      <4> QED
        BY <2>3, <2>7, <4>1
    <3> QED
      BY <2>3, <2>5, <2>7, <3>2, <3>3, TableAssumption
  <2>9. WellFormed(u)
    BY <2>6, <2>8 DEF WellFormed, Placed, Distinct, Bounded
  <2>10. ASSUME NEW x \in KeysOf(t), x # k
         PROVE  x \in KeysOf(u) /\ Lookup(u, x) = Lookup(t, x)
    <3>0. x \in Key
      BY DEF KeysOf
    <3>1. PICK j : j \in At(ChainOf(t, x), x)
      BY DEF KeysOf, Has
    <3>2. Lookup(t, x) = ChainOf(t, x)[j].value
      BY <3>0, <3>1, UniquePosition
    <3>3. \E l \in At(ChainOf(u, x), x) : ChainOf(u, x)[l] = ChainOf(t, x)[j]
      <4>1. CASE hashKey[x] = hashKey[k]
        <5>1. ChainOf(t, x) = c /\ ChainOf(u, x) = d
          BY <2>6, <3>0, <4>1 DEF ChainOf, c
        <5>2. j \in 1 .. Len(c) /\ c[j].key = x /\ j # i
          BY <2>3, <2>10, <3>1, <5>1 DEF At
        <5>3. CASE j < i
          <6>1. j \in 1 .. Len(d) /\ d[j] = c[j]
            BY <2>3, <2>5, <5>2, <5>3
          <6> QED BY <5>1, <5>2, <6>1 DEF At
        <5>4. CASE j > i
          <6>1. j - 1 \in 1 .. Len(d) /\ d[j - 1] = c[j]
            BY <2>3, <2>5, <5>2, <5>4
          <6> QED BY <5>1, <5>2, <6>1 DEF At
        <5> QED BY <2>3, <5>2, <5>3, <5>4
      <4>2. CASE hashKey[x] # hashKey[k]
        BY <2>6, <3>0, <3>1, <4>2
      <4> QED BY <4>1, <4>2
    <3> QED
      BY <2>6, <2>9, <3>0, <3>2, <3>3, UniquePosition DEF KeysOf
  <2>11. ASSUME NEW x \in KeysOf(u)
         PROVE  x \in KeysOf(t) /\ x # k
    <3>0. x \in Key /\ At(ChainOf(u, x), x) # {}
      BY DEF KeysOf, Has
    <3>1. CASE hashKey[x] = hashKey[k]
      <4>1. ChainOf(t, x) = c /\ ChainOf(u, x) = d
        BY <2>6, <3>0, <3>1 DEF ChainOf, c
      <4>2. PICK j \in 1 .. Len(d) : d[j].key = x
        BY <3>0, <4>1 DEF At
      <4>3. \E l \in 1 .. Len(c) : c[l] = d[j]
        BY <2>3, <2>5
      <4> QED BY <2>8, <3>0, <4>1, <4>2, <4>3 DEF KeysOf, Has, At
    <3>2. CASE hashKey[x] # hashKey[k]
      BY <2>6, <3>0, <3>2 DEF KeysOf, Has
    <3> QED BY <3>1, <3>2
  <2> QED
    BY <2>6, <2>9, <2>10, <2>11 DEF u
<1> QED
  BY <1>1, <1>2

\* createCoreconfHashmap: the empty table is well formed and holds no key.
THEOREM EmptyTableIsEmpty ==
    ASSUME NEW V
    PROVE  /\ EmptyTable \in TableOf(V)
           /\ WellFormed(EmptyTable)
           /\ KeysOf(EmptyTable) = {}
<1>1. EmptyTable \in TableOf(V) /\ \A b \in Bucket : Len(EmptyTable[b]) = 0
  BY DEF EmptyTable, TableOf
<1>2. WellFormed(EmptyTable)
  BY <1>1, TableAssumption DEF WellFormed, Placed, Distinct, Bounded
<1>3. \A k \in Key : Len(ChainOf(EmptyTable, k)) = 0
  BY <1>1, TableAssumption DEF ChainOf, Bucket
<1> QED
  BY <1>1, <1>2, <1>3 DEF KeysOf, Has, At
=============================================================================
