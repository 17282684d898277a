-------------------------- MODULE RobinHoodProofs --------------------------
(***************************************************************************)
(* The Robin Hood map of hashmap.c for any number of keys, any hash, any   *)
(* capacities and any order of calls.  The table is always one in which    *)
(* set, get and delete find a key or a hole, the map refines KeyMap, and   *)
(* what the calls and the walk return is exact.                            *)
(***************************************************************************)
EXTENDS RobinHood, TLAPS, FiniteSetTheorems

-----------------------------------------------------------------------------
(***************************************************************************)
(* Tables with an entry in hand or a hole.                                 *)
(***************************************************************************)

\* The sizes a table can have.
Sizes == {n \in MinCap .. MaxBuckets : n % 2 = 0}

\* The d-th bucket that a probe for a hash looks at, among n.
Pos(hash, d, n) == ((hash % n) + d - 1) % n

\* An entry of a table of n buckets, wherever it is.
Sane(e, n) == e \in Item /\ e.dib \in 1 .. n /\ e.hash = Hash[e.key]

Table(bs, n) ==
    /\ n \in Sizes /\ bs = [i \in 0 .. n - 1 |-> bs[i]]
    /\ \A i \in 0 .. n - 1 : bs[i] = Empty \/ Sane(bs[i], n)

\* The buckets before e's own on its probe hold entries that are as far from
\* home as the probe is, but for the hole.
Path(bs, e, n, hole) ==
    \A d \in 1 .. e.dib - 1 :
      Pos(e.hash, d, n) # hole => bs[Pos(e.hash, d, n)].dib >= d

Placed(bs, n, hole) ==
    \A i \in Taken(bs) : Pos(bs[i].hash, bs[i].dib, n) = i /\ Path(bs, bs[i], n, hole)

Unique(bs) == \A i, j \in Taken(bs) : bs[i].key = bs[j].key => i = j

NoHole == -1

\* A table between two calls.
Sound(bs, n) == Table(bs, n) /\ Placed(bs, n, NoHole) /\ Unique(bs)

\* The entry e in hand, about to look at bucket i.  An entry with its key, if
\* there is one, is not behind it.
Ready(bs, e, n, i) ==
    /\ Sane(e, n) /\ i \in 0 .. n - 1
    /\ Pos(e.hash, e.dib, n) = i
    /\ Path(bs, e, n, NoHole)
    /\ \A j \in Taken(bs) : bs[j].key = e.key => bs[j].dib >= e.dib

-----------------------------------------------------------------------------
(***************************************************************************)
(* Where a probe looks: one bucket after the other, each once in n turns.  *)
(***************************************************************************)
LEMMA SizeFacts ==
    ASSUME NEW n \in Sizes
    PROVE  n \in Nat /\ n >= 2 /\ n >= MinCap /\ n <= MaxBuckets /\ n % 2 = 0
  BY CapAssumption DEF Sizes

LEMMA WrapAround ==
    ASSUME NEW n \in Nat, n > 0
    PROVE  /\ \A x \in 0 .. n - 1 : x % n = x
           /\ \A x \in n .. 2 * n - 1 : x % n = x - n
           /\ \A x \in Nat : x % n \in 0 .. n - 1
  OBVIOUS

LEMMA Probe ==
    ASSUME NEW n \in Nat, n >= 2, NEW hash \in Nat
    PROVE  /\ \A d \in 1 .. n : /\ Pos(hash, d, n) \in 0 .. n - 1
                                /\ Pos(hash, d + 1, n) = (Pos(hash, d, n) + 1) % n
           /\ \A c, d \in 1 .. n : Pos(hash, c, n) = Pos(hash, d, n) => c = d
           /\ \A i \in 0 .. n - 1 : \E d \in 1 .. n : Pos(hash, d, n) = i
           /\ Pos(hash, 1, n) = hash % n
<1> DEFINE home == hash % n
<1>1. home \in 0 .. n - 1
  BY WrapAround
<1>2. \A d \in 1 .. n + 1 :
        Pos(hash, d, n) = IF home + d - 1 < n THEN home + d - 1 ELSE home + d - 1 - n
  <2> SUFFICES ASSUME NEW d \in 1 .. n + 1
               PROVE  Pos(hash, d, n) = IF home + d - 1 < n THEN home + d - 1
                                        ELSE home + d - 1 - n
    OBVIOUS
  <2> DEFINE x == home + d - 1
  <2>0. Pos(hash, d, n) = x % n
    BY DEF Pos
  <2>1. x \in 0 .. 2 * n - 1
    BY <1>1
  <2> HIDE DEF x
  <2>2. x % n = IF x < n THEN x ELSE x - n
    BY <2>1, WrapAround
  <2> QED BY <2>0, <2>2 DEF x
<1> HIDE DEF home
<1>3. ASSUME NEW d \in 1 .. n
      PROVE  Pos(hash, d, n) \in 0 .. n - 1 /\ Pos(hash, d + 1, n) = (Pos(hash, d, n) + 1) % n
  <2>1. d \in 1 .. n + 1 /\ d + 1 \in 1 .. n + 1
    OBVIOUS
  <2>2. Pos(hash, d, n) \in 0 .. n - 1
    BY <1>1, <1>2, <2>1
  <2>3. (Pos(hash, d, n) + 1) % n = IF Pos(hash, d, n) = n - 1 THEN 0 ELSE Pos(hash, d, n) + 1
    BY <2>2, WrapAround
  <2>4. Pos(hash, d + 1, n) = IF home + d < n THEN home + d ELSE home + d - n
    BY <1>1, <1>2, <2>1
  <2> QED BY <1>1, <1>2, <2>1, <2>2, <2>3, <2>4
<1>4. ASSUME NEW i \in 0 .. n - 1
      PROVE  \E d \in 1 .. n : Pos(hash, d, n) = i
  <2> DEFINE d == IF i >= home THEN i - home + 1 ELSE i + n - home + 1
  <2>1. d \in 1 .. n
    BY <1>1
  <2>2. Pos(hash, d, n) = i
    BY <1>1, <1>2, <2>1
  <2> QED BY <2>1, <2>2
<1>5. \A c, d \in 1 .. n : Pos(hash, c, n) = Pos(hash, d, n) => c = d
  BY <1>1, <1>2
<1>6. Pos(hash, 1, n) = hash % n
  BY <1>1, <1>2 DEF home
<1> QED
  BY <1>3, <1>4, <1>5, <1>6

-----------------------------------------------------------------------------
(***************************************************************************)
(* Buckets.                                                                *)
(***************************************************************************)
LEMMA SaneFacts ==
    ASSUME NEW n \in Nat, NEW e, Sane(e, n)
    PROVE  /\ e.dib \in 1 .. n /\ e.dib \in Nat /\ e.dib # 0 /\ e.dib <= n
           /\ e.key \in Key /\ e.hash = Hash[e.key] /\ e.hash \in Nat /\ e.value \in Value
  BY HashAssumption DEF Sane, Item

LEMMA Buckets ==
    ASSUME NEW bs, NEW n, Table(bs, n)
    PROVE  /\ n \in Nat /\ n >= 2 /\ n <= MaxBuckets
           /\ \A i \in 0 .. n - 1 : /\ bs[i].dib \in 0 .. n
                                    /\ i \in Taken(bs) <=> bs[i].dib # 0
                                    /\ i \in Taken(bs) => Sane(bs[i], n)
                                    /\ i \notin Taken(bs) => bs[i] = Empty
           /\ Taken(bs) \subseteq 0 .. n - 1 /\ IsFiniteSet(Taken(bs))
           /\ Cardinality(Taken(bs)) \in Nat
<1>1. n \in Nat /\ n >= 2 /\ n <= MaxBuckets
  BY SizeFacts DEF Table
<1>2. ASSUME NEW i \in 0 .. n - 1
      PROVE  /\ bs[i].dib \in 0 .. n
             /\ i \in Taken(bs) <=> bs[i].dib # 0
             /\ i \in Taken(bs) => Sane(bs[i], n)
             /\ i \notin Taken(bs) => bs[i] = Empty
  <2>1. i \in Taken(bs) <=> bs[i].dib # 0
    BY DEF Table, Taken
  <2>2. CASE bs[i] = Empty
    BY <1>1, <2>1, <2>2 DEF Empty
  <2>3. CASE Sane(bs[i], n)
    BY <1>1, <2>1, <2>3, SaneFacts
  <2> QED BY <2>2, <2>3 DEF Table
<1>3. Taken(bs) \subseteq 0 .. n - 1
  BY DEF Table, Taken
<1>4. IsFiniteSet(Taken(bs)) /\ Cardinality(Taken(bs)) \in Nat
  <2>1. IsFiniteSet(0 .. n - 1)
    BY <1>1, FS_Interval
  <2>2. IsFiniteSet(Taken(bs))
    BY <1>3, <2>1, FS_Subset
  <2> QED BY <2>2, FS_CardinalityType
<1> QED
  BY <1>1, <1>2, <1>3, <1>4

LEMMA TableSize ==
    ASSUME NEW bs, NEW n \in Nat, DOMAIN bs = 0 .. n - 1
    PROVE  Cardinality(DOMAIN bs) = n
<1>1. Cardinality(0 .. n - 1) = IF 0 > n - 1 THEN 0 ELSE n - 1 - 0 + 1
  BY FS_Interval
<1> QED
  BY <1>1

LEMMA HoleThere ==
    ASSUME NEW bs, NEW n, Table(bs, n), Cardinality(Taken(bs)) < n
    PROVE  \E h \in 0 .. n - 1 : bs[h].dib = 0
<1> SUFFICES ASSUME \A h \in 0 .. n - 1 : bs[h].dib # 0
             PROVE  FALSE
  OBVIOUS
<1>1. Taken(bs) = 0 .. n - 1
  BY Buckets
<1>2. Cardinality(0 .. n - 1) = n
  <2>1. DOMAIN bs = 0 .. n - 1 /\ n \in Nat
    BY Buckets DEF Table
  <2> QED BY <2>1, TableSize
<1> QED
  BY <1>1, <1>2, Buckets

\* Another entry, or none, in bucket i.
With(bs, i, x) == [bs EXCEPT ![i] = x]

Updated(t, bs, n, i, x) ==
    /\ Table(t, n) /\ t[i] = x /\ (\A j \in 0 .. n - 1 : j # i => t[j] = bs[j])
    /\ Taken(t) = IF x.dib = 0 THEN Taken(bs) \ {i} ELSE Taken(bs) \cup {i}

LEMMA Update ==
    ASSUME NEW bs, NEW n, Table(bs, n), NEW i \in 0 .. n - 1, NEW x,
           x = Empty \/ Sane(x, n)
    PROVE  Updated(With(bs, i, x), bs, n, i, x)
<1> DEFINE t == With(bs, i, x)
<1>1. t[i] = x /\ (\A j \in 0 .. n - 1 : j # i => t[j] = bs[j]) /\ t = [j \in 0 .. n - 1 |-> t[j]]
  BY DEF Table, With
<1> HIDE DEF t
<1>2. Table(t, n)
  BY <1>1 DEF Table
<1>3. \A j \in 0 .. n - 1 : j \in Taken(t) <=> t[j].dib # 0
  BY <1>2, Buckets
<1>4. \A j \in 0 .. n - 1 : j \in Taken(bs) <=> bs[j].dib # 0
  BY Buckets
<1>5. Taken(t) \subseteq 0 .. n - 1 /\ Taken(bs) \subseteq 0 .. n - 1
  BY <1>2, Buckets
<1>6. Taken(t) = IF x.dib = 0 THEN Taken(bs) \ {i} ELSE Taken(bs) \cup {i}
  BY <1>1, <1>3, <1>4, <1>5
<1> QED
  BY <1>1, <1>2, <1>6 DEF t, Updated

\* How many are taken then.
LEMMA Counted ==
    ASSUME NEW bs, NEW n, Table(bs, n), NEW i \in 0 .. n - 1
    PROVE  /\ bs[i].dib = 0 => Cardinality(Taken(bs) \cup {i}) = Cardinality(Taken(bs)) + 1
           /\ bs[i].dib # 0 => /\ Taken(bs) \cup {i} = Taken(bs)
                               /\ Cardinality(Taken(bs) \ {i}) = Cardinality(Taken(bs)) - 1
<1>1. IsFiniteSet(Taken(bs)) /\ (i \in Taken(bs) <=> bs[i].dib # 0)
  BY Buckets
<1>2. Cardinality(Taken(bs) \cup {i})
        = IF i \in Taken(bs) THEN Cardinality(Taken(bs)) ELSE Cardinality(Taken(bs)) + 1
  BY <1>1, FS_AddElement
<1>3. Cardinality(Taken(bs) \ {i})
        = IF i \in Taken(bs) THEN Cardinality(Taken(bs)) - 1 ELSE Cardinality(Taken(bs))
  BY <1>1, FS_RemoveElement
<1> QED
  BY <1>1, <1>2, <1>3

-----------------------------------------------------------------------------
(***************************************************************************)
(* One probe of an insertion.                                              *)
(***************************************************************************)

\* Where the probes of an entry of the table, or of the one in hand, are.
LEMMA ProbeOf ==
    ASSUME NEW n \in Nat, n >= 2, NEW e, Sane(e, n)
    PROVE  /\ \A d \in 1 .. n : /\ Pos(e.hash, d, n) \in 0 .. n - 1
                                /\ Pos(e.hash, d, n) # NoHole
                                /\ Pos(e.hash, d + 1, n) = (Pos(e.hash, d, n) + 1) % n
           /\ \A c, d \in 1 .. n : Pos(e.hash, c, n) = Pos(e.hash, d, n) => c = d
           /\ \A i \in 0 .. n - 1 : \E d \in 1 .. n : Pos(e.hash, d, n) = i
<1>1. e.hash \in Nat
  BY SaneFacts
<1>2. \A x \in 0 .. n - 1 : x # NoHole
  BY DEF NoHole
<1>3. \A d \in 1 .. n : /\ Pos(e.hash, d, n) \in 0 .. n - 1
                        /\ Pos(e.hash, d + 1, n) = (Pos(e.hash, d, n) + 1) % n
  BY <1>1, Probe
<1>4. \A d \in 1 .. n : Pos(e.hash, d, n) # NoHole
  BY <1>2, <1>3
<1>5. /\ \A c, d \in 1 .. n : Pos(e.hash, c, n) = Pos(e.hash, d, n) => c = d
      /\ \A i \in 0 .. n - 1 : \E d \in 1 .. n : Pos(e.hash, d, n) = i
  BY <1>1, Probe
<1> QED
  BY <1>3, <1>4, <1>5

\* A probe of a table with a hole does not go all the way round.
LEMMA NotRound ==
    ASSUME NEW bs, NEW n, Table(bs, n), Cardinality(Taken(bs)) < n,
           NEW e, NEW i, Ready(bs, e, n, i), bs[i].dib # 0
    PROVE  e.dib < n
<1>1. n \in Nat /\ n >= 2 /\ Sane(e, n)
  BY Buckets DEF Ready
<1>2. e.dib \in 1 .. n
  BY <1>1, SaneFacts
<1>3. PICK h \in 0 .. n - 1 : bs[h].dib = 0
  BY HoleThere
<1>4. PICK d \in 1 .. n : Pos(e.hash, d, n) = h
  BY <1>1, ProbeOf
<1>5. ASSUME e.dib = n PROVE FALSE
  <2>1. d # n
    BY <1>3, <1>4, <1>5 DEF Ready
  <2>2. d \in 1 .. e.dib - 1 /\ d > 0
    BY <1>1, <1>5, <2>1
  <2>3. Pos(e.hash, d, n) # NoHole
    BY <1>1, ProbeOf
  <2>4. bs[h].dib >= d
    BY <1>4, <2>2, <2>3 DEF Ready, Path
  <2> QED BY <1>3, <2>2, <2>4
<1> QED
  BY <1>1, <1>2, <1>5

\* A bucket that gets an entry further from home spoils no path.
LEMMA PathGrows ==
    ASSUME NEW n \in Nat, n >= 2, NEW e, Sane(e, n), NEW bs, NEW t, NEW hole,
           Path(bs, e, n, hole),
           \A j \in 0 .. n - 1 : bs[j].dib \in Nat /\ t[j].dib \in Nat /\ t[j].dib >= bs[j].dib
    PROVE  Path(t, e, n, hole)
<1> SUFFICES ASSUME NEW d \in 1 .. e.dib - 1, Pos(e.hash, d, n) # hole
             PROVE  t[Pos(e.hash, d, n)].dib >= d
  BY DEF Path
<1>1. d \in 1 .. n /\ d \in Nat
  BY SaneFacts
<1>2. Pos(e.hash, d, n) \in 0 .. n - 1
  BY <1>1, ProbeOf
<1>3. bs[Pos(e.hash, d, n)].dib >= d
  BY DEF Path
<1> QED
  BY <1>1, <1>2, <1>3

\* A nearer entry (or none) at i: the key of e is not in the table.
LEMMA KeyIsNew ==
    ASSUME NEW bs, NEW n, Sound(bs, n), NEW e, NEW i, Ready(bs, e, n, i),
           bs[i].dib < e.dib, bs[i].dib # 0 => bs[i].key # e.key
    PROVE  \A j \in Taken(bs) : bs[j].key # e.key
<1> SUFFICES ASSUME NEW j \in Taken(bs), bs[j].key = e.key
             PROVE  FALSE
  OBVIOUS
<1>1. Table(bs, n) /\ n \in Nat /\ n >= 2 /\ j \in 0 .. n - 1 /\ Sane(bs[j], n) /\ Sane(e, n)
  BY Buckets DEF Sound, Ready
<1>2. bs[j].hash = e.hash
  BY <1>1, SaneFacts
<1>3. bs[j].dib >= e.dib /\ e.dib \in 1 .. n /\ bs[j].dib \in 1 .. n
  BY <1>1, SaneFacts DEF Ready
<1>4. CASE bs[j].dib = e.dib
  <2>1. j = i
    BY <1>2, <1>4 DEF Sound, Placed, Ready
  <2> QED BY <1>3, <2>1
<1>5. CASE bs[j].dib # e.dib
  <2>1. e.dib \in 1 .. bs[j].dib - 1
    BY <1>3, <1>5
  <2>2. Pos(e.hash, e.dib, n) = i /\ Pos(e.hash, e.dib, n) # NoHole
    BY <1>1, <1>3, ProbeOf DEF Ready
  <2>3. Path(bs, bs[j], n, NoHole)
    BY DEF Sound, Placed
  <2>4. bs[i].dib >= e.dib
    BY <1>2, <2>1, <2>2, <2>3 DEF Path
  <2>5. bs[i].dib \in Nat
    BY <1>1, Buckets DEF Ready
  <2> QED BY <1>3, <2>4, <2>5
<1> QED
  BY <1>4, <1>5

\* e takes the place of a nearer entry, or a free place.
LEMMA Lands ==
    ASSUME NEW bs, NEW n, Sound(bs, n), NEW e, NEW i, Ready(bs, e, n, i),
           bs[i].dib < e.dib, bs[i].dib # 0 => bs[i].key # e.key
    PROVE  LET t == With(bs, i, e)
           IN  /\ Sound(t, n) /\ Taken(t) = Taken(bs) \cup {i}
               /\ t[i] = e /\ \A j \in 0 .. n - 1 : j # i => t[j] = bs[j]
               /\ \A j \in 0 .. n - 1 :
                    bs[j].dib \in Nat /\ t[j].dib \in Nat /\ t[j].dib >= bs[j].dib
<1> DEFINE t == With(bs, i, e)
<1>1. Table(bs, n) /\ n \in Nat /\ n >= 2 /\ i \in 0 .. n - 1 /\ Sane(e, n)
  BY Buckets DEF Sound, Ready
<1>2. e.dib \in 1 .. n /\ e.dib # 0
  BY <1>1, SaneFacts
<1>3. /\ Table(t, n) /\ t[i] = e /\ (\A j \in 0 .. n - 1 : j # i => t[j] = bs[j])
      /\ Taken(t) = IF e.dib = 0 THEN Taken(bs) \ {i} ELSE Taken(bs) \cup {i}
  BY <1>1, Update DEF Updated
<1> HIDE DEF t
<1>0. Taken(t) = Taken(bs) \cup {i}
  BY <1>2, <1>3
<1>4. \A j \in 0 .. n - 1 : bs[j].dib \in Nat /\ t[j].dib \in Nat /\ t[j].dib >= bs[j].dib
  BY <1>1, <1>2, <1>3, Buckets
<1>5. Placed(t, n, NoHole)
  <2> SUFFICES ASSUME NEW j \in Taken(t)
               PROVE  Pos(t[j].hash, t[j].dib, n) = j /\ Path(t, t[j], n, NoHole)
    BY DEF Placed
  <2>1. CASE j = i
    <3>1. Pos(e.hash, e.dib, n) = i /\ Path(bs, e, n, NoHole)
      BY DEF Ready
    <3>2. Path(t, e, n, NoHole)
      BY <1>1, <1>4, <3>1, PathGrows
    <3> QED BY <1>3, <2>1, <3>1, <3>2
  <2>2. CASE j # i
    <3>1. j \in Taken(bs) /\ j \in 0 .. n - 1 /\ Sane(bs[j], n)
      BY <1>0, <1>1, <2>2, Buckets
    <3>2. Pos(bs[j].hash, bs[j].dib, n) = j /\ Path(bs, bs[j], n, NoHole)
      BY <3>1 DEF Sound, Placed
    <3>3. Path(t, bs[j], n, NoHole)
      BY <1>1, <1>4, <3>1, <3>2, PathGrows
    <3> QED BY <1>3, <2>2, <3>1, <3>2, <3>3
  <2> QED BY <2>1, <2>2
<1>6. Unique(t)
  <2>1. \A j \in Taken(bs) : bs[j].key # e.key
    BY KeyIsNew
  <2>2. Unique(bs) /\ Taken(bs) \subseteq 0 .. n - 1
    BY <1>1, Buckets DEF Sound
  <2> QED BY <1>0, <1>1, <1>3, <2>1, <2>2 DEF Unique
<1> QED
  BY <1>0, <1>3, <1>4, <1>5, <1>6 DEF Sound, t

\* An entry carried on to the next bucket.
LEMMA FurtherSane ==
    ASSUME NEW n \in Nat, n >= 2, n <= MaxBuckets, NEW e, Sane(e, n), e.dib < n
    PROVE  /\ Sane(Further(e), n) /\ Further(e).dib = e.dib + 1
           /\ Further(e).hash = e.hash /\ Further(e).key = e.key
           /\ Further(e).value = e.value
<1> DEFINE f == Further(e)
<1>1. f \in Item /\ f.dib = e.dib + 1 /\ f.hash = e.hash /\ f.key = e.key /\ f.value = e.value
  BY CapAssumption DEF Sane, Item, Further
<1> HIDE DEF f
<1>2. f.dib \in 1 .. n
  BY <1>1, SaneFacts
<1> QED
  BY <1>1, <1>2 DEF Sane, f

\* It is ready there when what it leaves behind is further from home.
LEMMA Moves ==
    ASSUME NEW bs, NEW n, Table(bs, n), NEW e, Sane(e, n), e.dib < n, NEW i,
           Pos(e.hash, e.dib, n) = i, Path(bs, e, n, NoHole), bs[i].dib >= e.dib,
           \A j \in Taken(bs) : bs[j].key = e.key => bs[j].dib > e.dib
    PROVE  Ready(bs, Further(e), n, (i + 1) % n)
<1> DEFINE f == Further(e)
<1>1. n \in Nat /\ n >= 2 /\ n <= MaxBuckets
  BY Buckets
<1>2. Sane(f, n) /\ f.dib = e.dib + 1 /\ f.hash = e.hash /\ f.key = e.key
  BY <1>1, FurtherSane
<1> HIDE DEF f
<1>3. e.dib \in 1 .. n /\ f.dib \in 1 .. n
  BY <1>1, <1>2, SaneFacts
<1>4. Pos(f.hash, f.dib, n) = (i + 1) % n
  BY <1>1, <1>2, <1>3, ProbeOf
<1>5. (i + 1) % n \in 0 .. n - 1
  <2>1. \A d \in 1 .. n : Pos(f.hash, d, n) \in 0 .. n - 1
    BY <1>1, <1>2, ProbeOf
  <2> QED BY <1>3, <1>4, <2>1
<1>6. Path(bs, f, n, NoHole)
  <2> SUFFICES ASSUME NEW d \in 1 .. f.dib - 1, Pos(f.hash, d, n) # NoHole
               PROVE  bs[Pos(f.hash, d, n)].dib >= d
    BY DEF Path
  <2>1. CASE d = e.dib
    BY <1>2, <2>1
  <2>2. CASE d # e.dib
    <3>1. d \in 1 .. e.dib - 1
      BY <1>2, <1>3, <2>2
    <3> QED BY <1>2, <3>1 DEF Path
  <2> QED BY <2>1, <2>2
<1>7. \A j \in Taken(bs) : bs[j].key = f.key => bs[j].dib >= f.dib
  <2> SUFFICES ASSUME NEW j \in Taken(bs), bs[j].key = f.key
               PROVE  bs[j].dib >= f.dib
    OBVIOUS
  <2>1. bs[j].dib > e.dib
    BY <1>2
  <2>2. bs[j].dib \in Nat
    BY Buckets
  <2> QED BY <1>2, <1>3, <2>1, <2>2
<1> QED
  BY <1>2, <1>4, <1>5, <1>6, <1>7 DEF Ready, f

\* A probe that goes on: e takes the place of a nearer entry, which is carried
\* on in its stead, or passes one that is not nearer.
KeysIn(bs, S) == {bs[j].key : j \in S}

LEMMA Displaced ==
    ASSUME NEW bs, NEW n, Sound(bs, n), NEW e, NEW i, Ready(bs, e, n, i),
           bs[i].dib < e.dib, bs[i].dib # 0, bs[i].key # e.key
    PROVE  LET t == With(bs, i, e)
               f == Further(bs[i])
           IN  /\ Sound(t, n) /\ Ready(t, f, n, (i + 1) % n) /\ Taken(t) = Taken(bs)
               /\ KeysIn(t, Taken(t)) \cup {f.key} = KeysIn(bs, Taken(bs)) \cup {e.key}
               /\ f.key \notin KeysIn(t, Taken(t))
<1> DEFINE t == With(bs, i, e)
           b == bs[i]
<1>1. Table(bs, n) /\ n \in Nat /\ n >= 2 /\ n <= MaxBuckets /\ i \in 0 .. n - 1 /\ Sane(e, n)
  BY Buckets DEF Sound, Ready
<1>2. i \in Taken(bs) /\ Sane(b, n) /\ Taken(bs) \subseteq 0 .. n - 1
  BY <1>1, Buckets
<1>3. e.dib \in 1 .. n /\ b.dib \in 1 .. n
  BY <1>1, <1>2, SaneFacts
<1>4. /\ Sound(t, n) /\ Taken(t) = Taken(bs) \cup {i}
      /\ t[i] = e /\ \A j \in 0 .. n - 1 : j # i => t[j] = bs[j]
      /\ \A j \in 0 .. n - 1 : bs[j].dib \in Nat /\ t[j].dib \in Nat /\ t[j].dib >= bs[j].dib
  BY Lands
<1> HIDE DEF t
<1>5. Taken(t) = Taken(bs)
  BY <1>2, <1>4
<1>6. Pos(b.hash, b.dib, n) = i /\ Path(bs, b, n, NoHole)
  BY <1>2 DEF Sound, Placed
<1>7. Path(t, b, n, NoHole)
  BY <1>1, <1>2, <1>4, <1>6, PathGrows
<1>8. \A j \in Taken(t) : t[j].key # b.key
  <2> SUFFICES ASSUME NEW j \in Taken(bs), t[j].key = b.key
               PROVE  FALSE
    BY <1>5
  <2>1. j # i
    BY <1>4
  <2>2. bs[j].key = b.key
    BY <1>2, <1>4, <2>1
  <2> QED BY <1>2, <2>1, <2>2 DEF Sound, Unique
<1>9. Table(t, n) /\ b.dib < n /\ t[i].dib >= b.dib
  BY <1>1, <1>3, <1>4 DEF Sound
<1>10. Ready(t, Further(b), n, (i + 1) % n)
  <2> HIDE DEF b
  <2> QED BY <1>2, <1>6, <1>7, <1>8, <1>9, Moves
<1>11. Further(b).key = b.key
  BY <1>1, <1>2, <1>9, FurtherSane
<1>12. KeysIn(t, Taken(t)) \cup {b.key} = KeysIn(bs, Taken(bs)) \cup {e.key}
  BY <1>2, <1>4, <1>5 DEF KeysIn
<1>13. b.key \notin KeysIn(t, Taken(t))
  BY <1>8 DEF KeysIn
<1> QED
  BY <1>4, <1>5, <1>10, <1>11, <1>12, <1>13 DEF t

LEMMA PassedBy ==
    ASSUME NEW bs, NEW n, Sound(bs, n), NEW e, NEW i, Ready(bs, e, n, i),
           Cardinality(Taken(bs)) < n,
           ~ (bs[i].dib < e.dib), bs[i].dib # 0, bs[i].key # e.key
    PROVE  /\ Ready(bs, Further(e), n, (i + 1) % n)
           /\ Further(e).key = e.key
           /\ With(bs, i, bs[i]) = bs
<1>1. Table(bs, n) /\ n \in Nat /\ n >= 2 /\ n <= MaxBuckets /\ i \in 0 .. n - 1 /\ Sane(e, n)
  BY Buckets DEF Sound, Ready
<1>2. e.dib < n
  BY <1>1, NotRound
<1>3. e.dib \in 1 .. n /\ bs[i].dib \in Nat
  BY <1>1, SaneFacts, Buckets
<1>4. bs[i].dib >= e.dib
  BY <1>3
<1>5. ASSUME NEW j \in Taken(bs), bs[j].key = e.key
      PROVE  bs[j].dib > e.dib
  <2>1. bs[j].dib >= e.dib
    BY <1>5 DEF Ready
  <2>2. j \in 0 .. n - 1 /\ Sane(bs[j], n)
    BY <1>1, Buckets
  <2>3. bs[j].dib \in Nat /\ bs[j].hash = e.hash
    BY <1>1, <1>5, <2>2, SaneFacts
  <2>4. bs[j].dib # e.dib
    <3> SUFFICES ASSUME bs[j].dib = e.dib PROVE FALSE
      OBVIOUS
    <3>1. j = i
      BY <2>3 DEF Sound, Placed, Ready
    <3> QED BY <1>5, <3>1
  <2> QED BY <1>3, <2>1, <2>3, <2>4
<1>6. Ready(bs, Further(e), n, (i + 1) % n)
  BY <1>1, <1>2, <1>4, <1>5, Moves DEF Ready
<1>7. With(bs, i, bs[i]) = bs
  BY <1>1 DEF With, Table
<1> QED
  BY <1>1, <1>2, <1>6, <1>7, FurtherSane

\* Both, as the loops of set and of resize have them.
LEMMA GoesOn ==
    ASSUME NEW bs, NEW n, Sound(bs, n), NEW e, NEW i, Ready(bs, e, n, i),
           Cardinality(Taken(bs)) < n, bs[i].dib # 0, bs[i].key # e.key
    PROVE  LET t == With(bs, i, Stays(bs[i], e))
               f == Further(Carried(bs[i], e))
           IN  /\ Sound(t, n) /\ Ready(t, f, n, (i + 1) % n) /\ Taken(t) = Taken(bs)
               /\ KeysIn(t, Taken(t)) \cup {f.key} = KeysIn(bs, Taken(bs)) \cup {e.key}
               /\ e.key \notin KeysIn(bs, Taken(bs)) => f.key \notin KeysIn(t, Taken(t))
<1>1. CASE bs[i].dib < e.dib
  <2>1. Stays(bs[i], e) = e /\ Carried(bs[i], e) = bs[i]
    BY <1>1 DEF Stays, Carried, Displaces
  <2> QED BY <1>1, <2>1, Displaced
<1>2. CASE ~ (bs[i].dib < e.dib)
  <2>1. Stays(bs[i], e) = bs[i] /\ Carried(bs[i], e) = e
    BY <1>2 DEF Stays, Carried, Displaces
  <2>2. /\ Ready(bs, Further(e), n, (i + 1) % n) /\ Further(e).key = e.key
        /\ With(bs, i, bs[i]) = bs
    BY <1>2, PassedBy
  <2> QED BY <2>1, <2>2
<1> QED
  BY <1>1, <1>2

\* Another value for a key that is there.
LEMMA ValueReplaced ==
    ASSUME NEW bs, NEW n, Sound(bs, n), NEW i \in 0 .. n - 1, bs[i].dib # 0,
           NEW x, Sane(x, n), x.dib = bs[i].dib, x.hash = bs[i].hash, x.key = bs[i].key
    PROVE  LET t == With(bs, i, x)
           IN  Sound(t, n) /\ Taken(t) = Taken(bs)
<1> DEFINE t == With(bs, i, x)
<1>1. Table(bs, n) /\ n \in Nat /\ n >= 2
  BY Buckets DEF Sound
<1>2. i \in Taken(bs) /\ Sane(bs[i], n) /\ Taken(bs) \subseteq 0 .. n - 1
  BY <1>1, Buckets
<1>4. /\ Table(t, n) /\ t[i] = x /\ (\A j \in 0 .. n - 1 : j # i => t[j] = bs[j])
      /\ Taken(t) = IF x.dib = 0 THEN Taken(bs) \ {i} ELSE Taken(bs) \cup {i}
  <2>1. Updated(t, bs, n, i, x)
    BY <1>1, Update
  <2> HIDE DEF t
  <2> QED BY <2>1 DEF Updated
<1> HIDE DEF t
<1>5. Taken(t) = Taken(bs)
  BY <1>2, <1>4
<1>6. \A j \in 0 .. n - 1 :
        t[j].dib = bs[j].dib /\ (j \in Taken(bs) => t[j].hash = bs[j].hash /\ t[j].key = bs[j].key)
  BY <1>2, <1>4
<1>7. Placed(t, n, NoHole)
  <2> SUFFICES ASSUME NEW j \in Taken(bs)
               PROVE  Pos(t[j].hash, t[j].dib, n) = j /\ Path(t, t[j], n, NoHole)
    BY <1>5 DEF Placed
  <2>1. Pos(bs[j].hash, bs[j].dib, n) = j /\ Path(bs, bs[j], n, NoHole) /\ Sane(bs[j], n)
    BY <1>1, Buckets DEF Sound, Placed
  <2>2. Path(t, bs[j], n, NoHole)
    <3>1. \A k \in 0 .. n - 1 : bs[k].dib \in Nat /\ t[k].dib \in Nat /\ t[k].dib >= bs[k].dib
      BY <1>1, <1>6, Buckets
    <3> QED BY <1>1, <2>1, <3>1, PathGrows
  <2>3. t[j].hash = bs[j].hash /\ t[j].dib = bs[j].dib
    BY <1>2, <1>6
  <2> QED BY <2>1, <2>2, <2>3 DEF Path
<1>8. Unique(t)
  BY <1>2, <1>5, <1>6 DEF Sound, Unique
<1> QED
  BY <1>4, <1>5, <1>7, <1>8 DEF Sound, t

-----------------------------------------------------------------------------
(***************************************************************************)
(* The hole that a delete moves on.                                        *)
(***************************************************************************)
LEMMA TakenOut ==
    ASSUME NEW bs, NEW n, Sound(bs, n), NEW i \in 0 .. n - 1, bs[i].dib # 0
    PROVE  LET t == With(bs, i, Empty)
           IN  /\ Table(t, n) /\ Placed(t, n, i) /\ Unique(t)
               /\ t[i] = Empty /\ Taken(t) = Taken(bs) \ {i}
<1> DEFINE t == With(bs, i, Empty)
<1>1. Table(bs, n) /\ n \in Nat /\ n >= 2 /\ Taken(bs) \subseteq 0 .. n - 1
  BY Buckets DEF Sound
<1>2. /\ Table(t, n) /\ t[i] = Empty /\ (\A j \in 0 .. n - 1 : j # i => t[j] = bs[j])
      /\ Taken(t) = IF Empty.dib = 0 THEN Taken(bs) \ {i} ELSE Taken(bs) \cup {i}
  BY <1>1, Update DEF Updated
<1> HIDE DEF t
<1>3. Taken(t) = Taken(bs) \ {i}
  BY <1>2 DEF Empty
<1>4. Placed(t, n, i)
  <2> SUFFICES ASSUME NEW j \in Taken(bs), j # i
               PROVE  Pos(t[j].hash, t[j].dib, n) = j /\ Path(t, t[j], n, i)
    BY <1>3 DEF Placed
  <2>1. t[j] = bs[j] /\ Sane(bs[j], n)
    BY <1>1, <1>2, Buckets
  <2>2. Pos(bs[j].hash, bs[j].dib, n) = j /\ Path(bs, bs[j], n, NoHole)
    BY DEF Sound, Placed
  <2>3. ASSUME NEW d \in 1 .. bs[j].dib - 1, Pos(bs[j].hash, d, n) # i
        PROVE  t[Pos(bs[j].hash, d, n)].dib >= d
    <3>0. bs[j].dib \in 1 .. n
      BY <1>1, <2>1, SaneFacts
    <3>1. d \in 1 .. n
      BY <1>1, <3>0
    <3>2. Pos(bs[j].hash, d, n) \in 0 .. n - 1 /\ Pos(bs[j].hash, d, n) # NoHole
      BY <1>1, <2>1, <3>1, ProbeOf
    <3> QED BY <1>2, <2>2, <2>3, <3>2 DEF Path
  <2> QED BY <2>1, <2>2, <2>3 DEF Path
<1>5. Unique(t)
  BY <1>1, <1>2, <1>3 DEF Sound, Unique
<1> QED
  BY <1>2, <1>3, <1>4, <1>5 DEF t

LEMMA NextBucket ==
    ASSUME NEW n \in Nat, n >= 2, NEW h \in 0 .. n - 1
    PROVE  /\ (h + 1) % n \in 0 .. n - 1 /\ (h + 1) % n # h
           /\ \A x \in 0 .. n - 1 : (x + 1) % n = (h + 1) % n => x = h
<1>1. \A x \in 0 .. n - 1 : (x + 1) % n = IF x = n - 1 THEN 0 ELSE x + 1
  BY WrapAround
<1> QED
  BY <1>1

\* A probe comes to the bucket behind h from h, unless it starts there.
LEMMA FromHole ==
    ASSUME NEW n \in Nat, n >= 2, NEW e, Sane(e, n), NEW h \in 0 .. n - 1, NEW d \in 1 .. n - 1
    PROVE  Pos(e.hash, d, n) = h <=> Pos(e.hash, d + 1, n) = (h + 1) % n
<1>1. d \in 1 .. n
  OBVIOUS
<1>2. /\ Pos(e.hash, d, n) \in 0 .. n - 1
      /\ Pos(e.hash, d + 1, n) = (Pos(e.hash, d, n) + 1) % n
  BY <1>1, ProbeOf
<1> QED
  BY <1>2, NextBucket

\* The entry behind the hole moves into it, one bucket nearer home.
LEMMA ShiftOn ==
    ASSUME NEW bs, NEW n, Table(bs, n), NEW h \in 0 .. n - 1, Placed(bs, n, h), Unique(bs),
           bs[h] = Empty, NEW k, k = (h + 1) % n, ~ (bs[k].dib <= 1),
           NEW c, Sane(c, n), c.dib = bs[k].dib - 1, c.hash = bs[k].hash, c.key = bs[k].key
    PROVE  LET t == With(With(bs, h, c), k, Empty)
           IN  /\ Table(t, n) /\ Placed(t, n, k) /\ Unique(t)
               /\ t[k] = Empty /\ k \in 0 .. n - 1
               /\ Cardinality(Taken(t)) = Cardinality(Taken(bs))
<1> DEFINE s == With(bs, h, c)
           t == With(s, k, Empty)
           b == bs[k]
<1>1. n \in Nat /\ n >= 2 /\ Taken(bs) \subseteq 0 .. n - 1
  BY Buckets
<1>2. k \in 0 .. n - 1 /\ k # h
  BY <1>1, NextBucket
<1>3. b.dib \in Nat /\ b.dib >= 2 /\ k \in Taken(bs) /\ h \notin Taken(bs)
  <2>1. b.dib \in Nat /\ (k \in Taken(bs) <=> b.dib # 0) /\ (h \in Taken(bs) <=> bs[h].dib # 0)
    BY <1>2, Buckets
  <2> QED BY <2>1 DEF Empty
<1>4. Sane(b, n) /\ b.dib \in 1 .. n
  BY <1>1, <1>2, <1>3, Buckets, SaneFacts
<1>5. c.dib # 0
  BY <1>1, SaneFacts
<1>6. /\ Table(s, n) /\ s[h] = c /\ (\A j \in 0 .. n - 1 : j # h => s[j] = bs[j])
      /\ Taken(s) = IF c.dib = 0 THEN Taken(bs) \ {h} ELSE Taken(bs) \cup {h}
  <2>1. Updated(s, bs, n, h, c)
    BY Update
  <2> HIDE DEF s
  <2> QED BY <2>1 DEF Updated
<1> HIDE DEF s, b
<1>7. /\ Table(t, n) /\ t[k] = Empty /\ (\A j \in 0 .. n - 1 : j # k => t[j] = s[j])
      /\ Taken(t) = IF Empty.dib = 0 THEN Taken(s) \ {k} ELSE Taken(s) \cup {k}
  <2>1. Updated(t, s, n, k, Empty)
    BY <1>2, <1>6, Update
  <2> HIDE DEF t
  <2> QED BY <2>1 DEF Updated
<1> HIDE DEF t
<1>8. Taken(s) = Taken(bs) \cup {h} /\ Taken(t) = Taken(s) \ {k}
  BY <1>5, <1>6, <1>7 DEF Empty
<1>9. t[h] = c /\ \A j \in 0 .. n - 1 : j # h /\ j # k => t[j] = bs[j]
  BY <1>2, <1>6, <1>7
<1>10. Cardinality(Taken(t)) = Cardinality(Taken(bs))
  <2>1. Cardinality(Taken(s)) = Cardinality(Taken(bs)) + 1
    <3>1. bs[h].dib = 0
      BY DEF Empty
    <3>2. Cardinality(Taken(bs) \cup {h}) = Cardinality(Taken(bs)) + 1
      BY <3>1, Counted, Zenon
    <3> QED BY <1>8, <3>2, Zenon
  <2>2. s[k].dib # 0
    BY <1>2, <1>3, <1>6 DEF b
  <2>3. Cardinality(Taken(t)) = Cardinality(Taken(s)) - 1
    <3>1. Cardinality(Taken(s) \ {k}) = Cardinality(Taken(s)) - 1
      BY <1>2, <1>6, <2>2, Counted, Zenon
    <3> QED BY <1>8, <3>1, Zenon
  <2>4. Cardinality(Taken(bs)) \in Nat
    BY Buckets
  <2> QED BY <2>1, <2>3, <2>4
<1>11. Pos(b.hash, b.dib, n) = k /\ Path(bs, b, n, h)
  BY <1>3 DEF Placed, b
<1>12. Pos(b.hash, c.dib, n) = h /\ c.dib \in 1 .. n
  <2>0. c.dib = b.dib - 1
    BY DEF b
  <2>1. c.dib \in 1 .. n - 1 /\ b.dib = c.dib + 1 /\ c.dib \in 1 .. n
    BY <1>1, <1>3, <1>4, <2>0
  <2> QED BY <1>1, <1>4, <1>11, <2>1, FromHole
<1>13. Placed(t, n, k)
  <2> SUFFICES ASSUME NEW j \in Taken(t)
               PROVE  Pos(t[j].hash, t[j].dib, n) = j /\ Path(t, t[j], n, k)
    BY DEF Placed
  <2>1. CASE j = h
    <3>1. ASSUME NEW d \in 1 .. c.dib - 1, Pos(c.hash, d, n) # k
          PROVE  t[Pos(c.hash, d, n)].dib >= d
      <4>0. c.dib = b.dib - 1
        BY DEF b
      <4>1. d \in 1 .. n /\ d # c.dib /\ d \in 1 .. b.dib - 1
        BY <1>1, <1>3, <1>12, <4>0
      <4>2. Pos(b.hash, d, n) \in 0 .. n - 1 /\ Pos(b.hash, d, n) # h
        <5>1. Pos(b.hash, d, n) \in 0 .. n - 1
          BY <1>1, <1>4, <4>1, ProbeOf
        <5>2. Pos(b.hash, d, n) = Pos(b.hash, c.dib, n) => d = c.dib
          <6>1. \A x, y \in 1 .. n : Pos(b.hash, x, n) = Pos(b.hash, y, n) => x = y
            BY <1>1, <1>4, ProbeOf
          <6>2. d \in 1 .. n /\ c.dib \in 1 .. n
            BY <1>12, <4>1
          <6> QED BY <6>1, <6>2, Zenon
        <5> QED BY <1>12, <4>1, <5>1, <5>2
      <4>3. bs[Pos(b.hash, d, n)].dib >= d
        BY <1>11, <4>1, <4>2 DEF Path
      <4>4. c.hash = b.hash
        BY DEF b
      <4> QED BY <1>9, <3>1, <4>2, <4>3, <4>4
    <3>2. Pos(c.hash, c.dib, n) = h
      BY <1>12 DEF b
    <3> QED BY <1>9, <2>1, <3>1, <3>2 DEF Path
  <2>2. CASE j # h
    <3>1. j \in Taken(bs) /\ j # k /\ j \in 0 .. n - 1
      BY <1>1, <1>8, <2>2
    <3>2. t[j] = bs[j] /\ Sane(bs[j], n)
      BY <1>9, <2>2, <3>1, Buckets
    <3> DEFINE e == bs[j]
    <3>3. Pos(e.hash, e.dib, n) = j /\ Path(bs, e, n, h) /\ e.dib \in 1 .. n
      BY <1>1, <3>1, <3>2, SaneFacts DEF Placed
    <3> HIDE DEF e
    <3>4. ASSUME NEW d \in 1 .. e.dib - 1, Pos(e.hash, d, n) # k
          PROVE  t[Pos(e.hash, d, n)].dib >= d
      <4>1. d \in 1 .. n - 1 /\ d \in 1 .. n /\ Sane(e, n)
        BY <1>1, <3>2, <3>3 DEF e
      <4>2. Pos(e.hash, d, n) \in 0 .. n - 1
        BY <1>1, <4>1, ProbeOf
      <4>3. CASE Pos(e.hash, d, n) # h
        BY <1>9, <3>3, <3>4, <4>2, <4>3 DEF Path
      <4>4. CASE Pos(e.hash, d, n) = h
        <5>1. Pos(e.hash, d + 1, n) = k
          BY <1>1, <4>1, <4>4, FromHole
        <5>2. d + 1 # e.dib
          BY <3>1, <3>3, <5>1
        <5>3. d + 1 \in 1 .. e.dib - 1
          BY <3>3, <5>2
        <5>4. b.dib >= d + 1
          BY <1>2, <3>3, <5>1, <5>3 DEF Path, b
        <5>5. c.dib >= d
          BY <1>3, <5>4 DEF b
        <5> QED BY <1>9, <4>4, <5>5
      <4> QED BY <4>3, <4>4
    <3> QED BY <3>2, <3>3, <3>4 DEF Path, e
  <2> QED BY <2>1, <2>2
<1>14. Unique(t)
  <2>1. ASSUME NEW j \in Taken(bs), j # k
        PROVE  t[j] = bs[j] /\ bs[j].key # c.key
    <3>1. j # h /\ j \in 0 .. n - 1
      BY <1>1, <1>3
    <3>2. bs[j].key # bs[k].key
      BY <1>3, <2>1 DEF Unique
    <3> QED BY <1>9, <2>1, <3>1, <3>2
  <2>2. \A j \in Taken(t) : j = h \/ (j \in Taken(bs) /\ j # k)
    BY <1>8
  <2> QED BY <1>9, <2>1, <2>2 DEF Unique
<1> QED
  BY <1>2, <1>7, <1>10, <1>13, <1>14 DEF s, t

\* Behind the hole nothing, or an entry at home: the table is in order.
LEMMA ShiftDone ==
    ASSUME NEW bs, NEW n, Table(bs, n), NEW h \in 0 .. n - 1, Placed(bs, n, h),
           bs[(h + 1) % n].dib <= 1
    PROVE  Placed(bs, n, NoHole)
<1> DEFINE k == (h + 1) % n
<1>1. n \in Nat /\ n >= 2
  BY Buckets
<1>2. k \in 0 .. n - 1 /\ k # h
  BY <1>1, NextBucket
<1>3. bs[k].dib \in Nat
  BY <1>2, Buckets
<1> SUFFICES ASSUME NEW j \in Taken(bs)
             PROVE  Pos(bs[j].hash, bs[j].dib, n) = j /\ Path(bs, bs[j], n, NoHole)
  BY DEF Placed
<1> DEFINE e == bs[j]
<1>4. Sane(e, n) /\ j \in 0 .. n - 1
  BY Buckets
<1>5. e.dib \in 1 .. n /\ Pos(e.hash, e.dib, n) = j /\ Path(bs, e, n, h)
  BY <1>1, <1>4, SaneFacts DEF Placed
<1>6. ASSUME NEW d \in 1 .. e.dib - 1
      PROVE  Pos(e.hash, d, n) # h
  <2> SUFFICES ASSUME Pos(e.hash, d, n) = h PROVE FALSE
    OBVIOUS
  <2> HIDE DEF e, k
  <2>1. d \in 1 .. n - 1
    BY <1>1, <1>5
  <2>2. Pos(e.hash, d + 1, n) = k
    BY <1>1, <1>4, <2>1, FromHole DEF k
  <2>3. CASE d + 1 = e.dib
    <3>1. j = k
      BY <1>5, <2>2, <2>3
    <3>2. e.dib <= 1
      BY <3>1 DEF e, k
    <3> QED BY <1>5, <2>3, <3>2, <2>1
  <2>4. CASE d + 1 # e.dib
    <3>1. d + 1 \in 1 .. e.dib - 1
      BY <1>5, <2>4
    <3>2. bs[k].dib >= d + 1
      BY <1>2, <1>5, <2>2, <3>1 DEF Path
    <3>3. bs[k].dib <= 1
      BY DEF k
    <3> QED BY <1>3, <2>1, <3>2, <3>3
  <2> QED BY <2>3, <2>4
<1> HIDE DEF e
<1>7. Path(bs, e, n, NoHole)
  BY <1>5, <1>6 DEF Path
<1> QED
  BY <1>5, <1>7 DEF e

-----------------------------------------------------------------------------
(***************************************************************************)
(* Sizes and load limits.                                                  *)
(***************************************************************************)

\* Every set of numbers that is not empty has a least element.
LEMMA LeastNumber ==
    ASSUME NEW S \in SUBSET Nat, S # {}
    PROVE  \E n \in S : \A m \in S : n <= m
<1>1. IsWellFoundedOn(OpToRel(<, Nat), Nat)
  BY NatLessThanWellFounded
<1>2. PICK n \in S : \A m \in S : <<m, n>> \notin OpToRel(<, Nat)
  BY <1>1, WFMin
<1>3. \A m \in S : ~ (m < n)
  BY <1>2 DEF OpToRel
<1> QED
  BY <1>3

\* Induction up to n, over a set of numbers.
LEMMA Counting ==
    ASSUME NEW n \in Nat, NEW T, 0 \in T, \A k \in 1 .. n : k - 1 \in T => k \in T
    PROVE  \A k \in 0 .. n : k \in T
<1> DEFINE Bad == {k \in 0 .. n : k \notin T}
<1> SUFFICES ASSUME Bad # {} PROVE FALSE
  OBVIOUS
<1>0. Bad \in SUBSET Nat
  OBVIOUS
<1> HIDE DEF Bad
<1>1. PICK k \in Bad : \A m \in Bad : k <= m
  BY <1>0, LeastNumber
<1> USE DEF Bad
<1>2. k \in 1 .. n /\ k - 1 \in 0 .. n
  BY <1>1
<1>3. k - 1 \in T
  BY <1>1, <1>2
<1> QED
  BY <1>1, <1>2, <1>3

\* f is n doubled again and again, up to p times.
Doubles(f, n, p) == f = [i \in 0 .. p |-> IF i = 0 THEN n ELSE 2 * f[i - 1]]

LEMMA DoublesExist ==
    ASSUME NEW n \in Nat, NEW p \in Nat
    PROVE  \E f : Doubles(f, n, p)
<1> DEFINE T == {k \in 0 .. p : \E f : Doubles(f, n, k)}
<1>1. 0 \in T
  <2>1. Doubles([i \in 0 .. 0 |-> n], n, 0)
    BY DEF Doubles
  <2>2. 0 \in 0 .. p
    OBVIOUS
  <2> QED BY <2>1, <2>2
<1>2. ASSUME NEW k \in 1 .. p, k - 1 \in T
      PROVE  k \in T
  <2>1. PICK old : Doubles(old, n, k - 1)
    BY <1>2
  <2> DEFINE f == [i \in 0 .. k |-> IF i = k THEN 2 * old[k - 1] ELSE old[i]]
  <2>2. ASSUME NEW i \in 0 .. k
        PROVE  f[i] = IF i = 0 THEN n ELSE 2 * f[i - 1]
    <3>1. CASE i = k
      <4>1. k - 1 \in 0 .. k /\ k - 1 # k /\ k # 0
        OBVIOUS
      <4>2. f[k - 1] = old[k - 1] /\ f[k] = 2 * old[k - 1]
        BY <4>1
      <4> HIDE DEF f
      <4> QED BY <3>1, <4>1, <4>2
    <3>2. CASE i # k
      <4>1. i \in 0 .. k - 1 /\ f[i] = old[i]
        BY <3>2
      <4>2. old[i] = IF i = 0 THEN n ELSE 2 * old[i - 1]
        BY <2>1, <4>1 DEF Doubles
      <4>3. i # 0 => i - 1 \in 0 .. k /\ i - 1 # k
        BY <4>1
      <4>4. i # 0 => f[i - 1] = old[i - 1]
        BY <4>3
      <4> HIDE DEF f
      <4> QED BY <4>1, <4>2, <4>4
    <3> QED BY <3>1, <3>2
  <2>3. f = [i \in 0 .. k |-> f[i]]
    OBVIOUS
  <2> HIDE DEF f
  <2>4. Doubles(f, n, k)
    BY <2>2, <2>3 DEF Doubles
  <2>5. k \in 0 .. p
    OBVIOUS
  <2> QED BY <2>4, <2>5
<1>3. p \in T
  <2> HIDE DEF T
  <2>1. \A k \in 1 .. p : k - 1 \in T => k \in T
    BY <1>2
  <2>2. \A k \in 0 .. p : k \in T
    BY <1>1, <2>1, Counting
  <2> QED BY <2>2
<1> QED
  BY <1>3

LEMMA DoubledFacts ==
    ASSUME NEW n \in Nat, n > 0, NEW p \in Nat
    PROVE  /\ Doubled(n, p) \in Nat /\ Doubled(n, p) >= n /\ Doubled(n, p) >= p
           /\ p > 0 => Doubled(n, p) >= 2 * n
           /\ n % 2 = 0 => Doubled(n, p) % 2 = 0
<1> DEFINE f == CHOOSE f : Doubles(f, n, p)
           Fine(k) == /\ f[k] \in Nat /\ f[k] >= n /\ f[k] >= k
                      /\ k > 0 => f[k] >= 2 * n
                      /\ n % 2 = 0 => f[k] % 2 = 0
           T == {k \in 0 .. p : Fine(k)}
<1>1. Doubled(n, p) = f[p]
  BY Zenon DEF Doubled, Doubles
<1>2. Doubles(f, n, p)
  BY DoublesExist, Zenon
<1> HIDE DEF f
<1>3. \A i \in 0 .. p : f[i] = IF i = 0 THEN n ELSE 2 * f[i - 1]
  BY <1>2 DEF Doubles
<1>4. 0 \in T
  <2>1. 0 \in 0 .. p /\ f[0] = n
    BY <1>3
  <2> QED BY <2>1
<1>5. ASSUME NEW k \in 1 .. p, k - 1 \in T
      PROVE  k \in T
  <2>1. Fine(k - 1) /\ f[k] = 2 * f[k - 1] /\ k \in 0 .. p
    BY <1>3, <1>5
  <2>2. Fine(k)
    BY <2>1
  <2> QED BY <2>1, <2>2
<1>6. p \in T
  <2> HIDE DEF T
  <2>1. \A k \in 0 .. p : k \in T
    BY <1>4, <1>5, Counting
  <2> QED BY <2>1
<1> QED
  BY <1>1, <1>6

LEMMA RoundCapFacts ==
    ASSUME NEW c \in Nat
    PROVE  /\ RoundCap(c) \in Nat /\ RoundCap(c) >= c /\ RoundCap(c) >= MinCap
           /\ RoundCap(c) % 2 = 0
<1> DEFINE Least(p) == /\ Doubled(MinCap, p) >= c
                       /\ \A q \in 0 .. p - 1 : Doubled(MinCap, q) < c
           S == {p \in 0 .. c : Doubled(MinCap, p) >= c}
<1>1. MinCap \in Nat /\ MinCap > 0 /\ MinCap % 2 = 0
  BY CapAssumption
<1>2. \A p \in Nat : /\ Doubled(MinCap, p) \in Nat /\ Doubled(MinCap, p) >= MinCap
                     /\ Doubled(MinCap, p) >= p /\ Doubled(MinCap, p) % 2 = 0
  BY <1>1, DoubledFacts
<1>3. c \in S /\ S \in SUBSET Nat
  BY <1>2
<1>4. PICK p \in S : \A m \in S : p <= m
  <2> HIDE DEF S
  <2> QED BY <1>3, LeastNumber
<1>5. \A q \in 0 .. p - 1 : Doubled(MinCap, q) < c
  <2> SUFFICES ASSUME NEW q \in 0 .. p - 1, ~ (Doubled(MinCap, q) < c)
               PROVE  FALSE
    OBVIOUS
  <2>1. q \in 0 .. c /\ q < p /\ q \in Nat /\ p \in Nat
    BY <1>4
  <2>2. Doubled(MinCap, q) \in Nat
    BY <1>2, <2>1
  <2>3. q \in S
    BY <2>1, <2>2
  <2> HIDE DEF S
  <2> QED BY <1>4, <2>1, <2>3
<1>6. p \in 0 .. c /\ Least(p)
  BY <1>4, <1>5
<1> DEFINE r == CHOOSE p1 \in 0 .. c : Least(p1)
<1>7. r \in 0 .. c /\ Least(r)
  <2> HIDE DEF Least
  <2> QED BY <1>6
<1>8. RoundCap(c) = Doubled(MinCap, r)
  BY DEF RoundCap
<1>9. r \in Nat /\ Doubled(MinCap, r) >= c
  BY <1>7
<1> HIDE DEF r
<1> QED
  BY <1>2, <1>8, <1>9

\* No limit lets a table fill up.
LEMMA Limits ==
    ASSUME NEW n \in Sizes
    PROVE  /\ GrowAt(n) \in Nat /\ GrowAt(n) < n
           /\ ClearedAt(n) \in Nat /\ ClearedAt(n) < n
           /\ ShrinkAt(n) \in Nat
<1>1. n \in Nat /\ n >= 2
  BY SizeFacts
<1>2. \A g \in 1 .. 99 : (n * g) \div 100 \in Nat /\ (n * g) \div 100 < n
  BY <1>1
<1>3. \A a \in Nat : a \div 100 \in Nat
  OBVIOUS
<1>4. n * ShrinkPct \in Nat
  BY <1>1, LoadAssumption
<1> QED
  BY <1>2, <1>3, <1>4, LoadAssumption DEF GrowAt, ClearedAt, ShrinkAt

LEMMA DivMonotone ==
    ASSUME NEW a \in Nat, NEW b \in Nat, a <= b
    PROVE  a \div 100 <= b \div 100 /\ a \div 100 \in Nat /\ b \div 100 \in Nat
  OBVIOUS

LEMMA TimesMonotone ==
    ASSUME NEW a \in Nat, NEW b \in Nat, NEW g \in Nat, a <= b
    PROVE  a * g <= b * g /\ a * g \in Nat /\ b * g \in Nat
  OBVIOUS

LEMMA GrowMonotone ==
    ASSUME NEW a \in Nat, NEW b \in Nat, a <= b
    PROVE  GrowAt(a) <= GrowAt(b) /\ GrowAt(a) \in Nat /\ GrowAt(b) \in Nat
<1>1. GrowPct \in Nat
  BY LoadAssumption
<1>2. a * GrowPct <= b * GrowPct /\ a * GrowPct \in Nat /\ b * GrowPct \in Nat
  BY <1>1, TimesMonotone
<1> QED
  BY <1>2, DivMonotone DEF GrowAt

\* A table that has grown has room for one more than the old one's limit.
LEMMA Grown ==
    ASSUME NEW n \in Sizes, NEW p \in Nat \ {0}, CanResize(Doubled(n, p))
    PROVE  LET m == RoundCap(Doubled(n, p))
           IN  m \in Sizes /\ GrowAt(n) < GrowAt(m) /\ ClearedAt(n) < GrowAt(m)
<1> DEFINE m == RoundCap(Doubled(n, p))
<1>1. n \in Nat /\ n >= 2 /\ n \in MinCap .. MaxBuckets /\ MaxBuckets \in Nat
  BY SizeFacts, CapAssumption
<1>2. Doubled(n, p) \in Nat /\ Doubled(n, p) >= 2 * n
  <2>1. n > 0 /\ p \in Nat /\ p > 0
    BY <1>1
  <2> QED BY <1>1, <2>1, DoubledFacts
<1>3. m \in Nat /\ m >= Doubled(n, p) /\ m >= MinCap /\ m % 2 = 0
  BY <1>2, RoundCapFacts
<1>4. m <= MaxBuckets
  BY DEF CanResize
<1> HIDE DEF m
<1>5. m \in Sizes
  BY <1>1, <1>3, <1>4, CapAssumption DEF Sizes
<1>6. GrowAt(2 * n) <= GrowAt(m) /\ GrowAt(2 * n) \in Nat /\ GrowAt(m) \in Nat
  <2>1. 2 * n \in Nat /\ 2 * n <= m
    BY <1>1, <1>2, <1>3
  <2> QED BY <1>3, <2>1, GrowMonotone
<1>7. GrowAt(n) < GrowAt(2 * n) /\ ClearedAt(n) < GrowAt(2 * n)
  BY <1>1, LoadAssumption
<1>8. GrowAt(n) \in Nat /\ ClearedAt(n) \in Nat
  BY Limits
<1>9. GrowAt(n) < GrowAt(m) /\ ClearedAt(n) < GrowAt(m)
  BY <1>6, <1>7, <1>8
<1> QED
  BY <1>5, <1>9 DEF m

\* A table that has shrunk has room for what is left.
LEMMA Shrunk ==
    ASSUME NEW n \in Sizes, CanResize(n \div 2)
    PROVE  LET m == RoundCap(n \div 2)
           IN  m \in Sizes /\ ShrinkAt(n) <= GrowAt(m)
<1> DEFINE h == n \div 2
           m == RoundCap(h)
<1>1. n \in Nat /\ n % 2 = 0 /\ MaxBuckets \in Nat
  BY SizeFacts, CapAssumption
<1>2. h \in Nat /\ n = 2 * h
  BY <1>1
<1>4. m <= MaxBuckets
  BY DEF CanResize
<1> HIDE DEF h
<1>3. m \in Nat /\ m >= h /\ m >= MinCap /\ m % 2 = 0
  BY <1>2, RoundCapFacts
<1> HIDE DEF m
<1>5. m \in Sizes
  BY <1>1, <1>3, <1>4, CapAssumption DEF Sizes
<1>6. GrowAt(h) <= GrowAt(m) /\ GrowAt(h) \in Nat /\ GrowAt(m) \in Nat
  BY <1>2, <1>3, GrowMonotone
<1>7. ShrinkAt(n) <= GrowAt(h) /\ ShrinkAt(n) \in Nat
  <2>1. 2 * ShrinkPct \in Nat /\ GrowPct \in Nat /\ 2 * ShrinkPct <= GrowPct /\ ShrinkPct \in Nat
    BY LoadAssumption
  <2>2. (2 * ShrinkPct) * h <= GrowPct * h
    <3> DEFINE s == 2 * ShrinkPct
    <3>1. s \in Nat /\ s <= GrowPct
      BY <2>1
    <3> HIDE DEF s
    <3>2. s * h <= GrowPct * h
      BY <1>2, <2>1, <3>1, TimesMonotone
    <3> QED BY <3>2 DEF s
  <2>3. n * ShrinkPct = (2 * ShrinkPct) * h /\ h * GrowPct = GrowPct * h
    BY <1>2, <2>1
  <2>4. n * ShrinkPct \in Nat /\ h * GrowPct \in Nat /\ n * ShrinkPct <= h * GrowPct
    BY <1>1, <1>2, <2>1, <2>2, <2>3
  <2> QED BY <2>4, DivMonotone DEF ShrinkAt, GrowAt
<1>8. ShrinkAt(n) <= GrowAt(m)
  BY <1>6, <1>7
<1> QED
  BY <1>5, <1>8 DEF h, m

LEMMA FreshTable ==
    ASSUME NEW n \in Sizes
    PROVE  /\ Sound(NoBuckets(n), n) /\ Taken(NoBuckets(n)) = {}
           /\ Cardinality(Taken(NoBuckets(n))) = 0
           /\ Cardinality(DOMAIN NoBuckets(n)) = n
<1> DEFINE bs == NoBuckets(n)
<1>1. bs = [i \in 0 .. n - 1 |-> Empty] /\ n \in Nat
  BY SizeFacts DEF NoBuckets
<1> HIDE DEF bs
<1>2. Table(bs, n)
  BY <1>1 DEF Table
<1>3. Taken(bs) = {}
  BY <1>1 DEF Taken, Empty
<1>4. Sound(bs, n)
  BY <1>2, <1>3 DEF Sound, Placed, Unique
<1>5. Cardinality(Taken(bs)) = 0
  BY <1>3, FS_EmptySet
<1>6. Cardinality(DOMAIN bs) = n
  <2>1. DOMAIN bs = 0 .. n - 1
    BY <1>1
  <2> QED BY <1>1, <2>1, TableSize
<1> QED
  BY <1>3, <1>4, <1>5, <1>6 DEF bs

-----------------------------------------------------------------------------
(***************************************************************************)
(* The invariant.  Every step of every call keeps the struct steady; the   *)
(* table is whole but while a delete shifts entries, and the entry that a  *)
(* set or a resize has in hand fits where it is about to be tried.  A      *)
(* resize has moved the entries below its index, and no other.             *)
(***************************************************************************)
Steady(m, n) ==
    /\ DOMAIN m = {"buckets", "cap", "count", "growat", "shrinkat", "growpower", "oom"}
    /\ Table(m.buckets, n) /\ Unique(m.buckets)
    /\ m.cap \in Sizes /\ m.growpower \in Nat \ {0}
    /\ m.growat \in {GrowAt(n), ClearedAt(n)} /\ m.shrinkat = ShrinkAt(n)
    /\ m.count \in Nat /\ m.count <= m.growat

Whole(m, n) ==
    /\ Steady(m, n) /\ Placed(m.buckets, n, NoHole)
    /\ Cardinality(Taken(m.buckets)) = m.count

Shifting(m, c, n) ==
    /\ DOMAIN c = {"pc", "key", "i", "item"}
    /\ Steady(m, n)
    /\ c.i \in 0 .. n - 1 /\ m.buckets[c.i] = Empty
    /\ Placed(m.buckets, n, c.i)
    /\ Cardinality(Taken(m.buckets)) = m.count - 1

Searching(c, n) == DOMAIN c = {"pc", "key", "i"} /\ c.i \in 0 .. n - 1

Setting(m, c, n) ==
    /\ DOMAIN c = {"pc", "key", "hand", "i"}
    /\ Ready(m.buckets, c.hand, n, c.i)
    /\ m.count < m.growat

\* The entries below index i.
Below(bs, i) == {j \in Taken(bs) : j < i}

\* A resize from n to q buckets.
Resizing(m, c, n, q) ==
    /\ DOMAIN c = {"pc", "to", "i", "j", "hand", "then", "key", "item"}
    /\ Sound(c.to, q)
    /\ c.i \in 0 .. n
    /\ Cardinality(Taken(c.to)) = Cardinality(Below(m.buckets, c.i))
    /\ \/ /\ c.then = "set" /\ c.key \in Key /\ c.item \in Value
          /\ m.count < GrowAt(q)
       \/ c.then = "delete" /\ m.count <= GrowAt(q)
    /\ \/ /\ c.hand = Empty
          /\ KeysIn(c.to, Taken(c.to)) \subseteq KeysIn(m.buckets, Below(m.buckets, c.i))
       \/ /\ c.i < n /\ m.buckets[c.i].dib # 0
          /\ Ready(c.to, c.hand, q, c.j)
          /\ c.hand.key \notin KeysIn(c.to, Taken(c.to))
          /\ KeysIn(c.to, Taken(c.to)) \cup {c.hand.key}
               \subseteq KeysIn(m.buckets, Below(m.buckets, c.i + 1))

Running(m, c, n) ==
    \/ c.pc = "idle" /\ Whole(m, n)
    \/ c.pc = "walk" /\ Whole(m, n) /\ "pc" \in DOMAIN c
    \/ c.pc = "set" /\ Whole(m, n) /\ Setting(m, c, n)
    \/ c.pc = "resize" /\ Whole(m, n) /\ \E q \in Sizes : Resizing(m, c, n, q)
    \/ c.pc \in {"get", "delete"} /\ Whole(m, n) /\ Searching(c, n)
    \/ c.pc = "shift" /\ Shifting(m, c, n)

Inv == \E n \in Sizes : Running(map, call, n)

-----------------------------------------------------------------------------
LEMMA BucketCount ==
    ASSUME NEW bs, NEW n, Table(bs, n)
    PROVE  Cardinality(DOMAIN bs) = n
<1>1. n \in Nat /\ DOMAIN bs = 0 .. n - 1
  BY Buckets DEF Table
<1> QED
  BY <1>1, TableSize

LEMMA SteadyFacts ==
    ASSUME NEW m, NEW n \in Sizes, Steady(m, n)
    PROVE  /\ NBuckets(m) = n /\ n \in Nat /\ n >= 2 /\ Table(m.buckets, n)
           /\ m.count \in Nat /\ m.growat \in Nat /\ m.growat < n /\ m.count < n
           /\ Cardinality(Taken(m.buckets)) \in Nat
<1>1. NBuckets(m) = n /\ Table(m.buckets, n)
  BY BucketCount DEF Steady, NBuckets
<1>2. n \in Nat /\ n >= 2
  BY SizeFacts
<1>3. m.growat \in Nat /\ m.growat < n
  BY Limits DEF Steady
<1>4. m.count \in Nat /\ m.count <= m.growat
  BY DEF Steady
<1> QED
  BY <1>1, <1>2, <1>3, <1>4, Buckets

\* What is between two calls.
LEMMA WholeFacts ==
    ASSUME NEW m, NEW n \in Sizes, Whole(m, n)
    PROVE  /\ Steady(m, n) /\ Sound(m.buckets, n) /\ NBuckets(m) = n
           /\ n \in Nat /\ n >= 2 /\ m.count \in Nat /\ m.growat \in Nat /\ m.growat < n
           /\ Cardinality(Taken(m.buckets)) = m.count /\ m.count < n
  BY SteadyFacts DEF Whole, Steady, Sound

\* A table that is put in the place of the old one.
LEMMA KeepsWhole ==
    ASSUME NEW m, NEW n \in Sizes, Steady(m, n), NEW q,
           DOMAIN q = DOMAIN m, q.cap = m.cap, q.growat = m.growat, q.shrinkat = m.shrinkat,
           q.growpower = m.growpower, q.count \in Nat, q.count <= m.growat,
           Sound(q.buckets, n), Cardinality(Taken(q.buckets)) = q.count
    PROVE  Whole(q, n)
  BY DEF Whole, Steady, Sound

LEMMA InvNext ==
    ASSUME NEW n \in Sizes, Running(map', call', n)
    PROVE  Inv'
  BY DEF Inv

\* A call that returns.
LEMMA Rests ==
    ASSUME NEW n \in Sizes, Whole(map', n), call' = Idle
    PROVE  Inv'
<1>1. call'.pc = "idle"
  BY DEF Idle
<1> QED
  BY <1>1, InvNext DEF Running

LEMMA AtRest ==
    ASSUME Inv, call.pc \in {"idle", "get", "walk"}
    PROVE  \E n \in Sizes : Whole(map, n)
  BY DEF Inv, Running

LEMMA NewMap ==
    ASSUME NEW c \in AskedCap
    PROVE  \E n \in Sizes : Whole(hashmap_new(c), n)
<1> DEFINE n == RoundCap(c)
           m == hashmap_new(c)
<1>1. c \in Nat /\ n <= MaxBuckets
  BY PowerAssumption
<1>2. n \in Nat /\ n >= MinCap /\ n % 2 = 0
  BY <1>1, RoundCapFacts
<1>3. /\ m.buckets = NoBuckets(n) /\ m.cap = n /\ m.count = 0 /\ m.growat = GrowAt(n)
      /\ m.shrinkat = ShrinkAt(n) /\ m.growpower = 1
      /\ DOMAIN m = {"buckets", "cap", "count", "growat", "shrinkat", "growpower", "oom"}
  BY DEF hashmap_new
<1> HIDE DEF n, m
<1>4. n \in Sizes
  BY <1>1, <1>2, CapAssumption DEF Sizes, n
<1>5. GrowAt(n) \in Nat
  BY <1>4, Limits
<1>6. Sound(m.buckets, n) /\ Cardinality(Taken(m.buckets)) = 0
  BY <1>3, <1>4, FreshTable
<1>7. Steady(m, n)
  BY <1>3, <1>4, <1>5, <1>6 DEF Steady, Sound
<1>8. Whole(m, n)
  BY <1>3, <1>6, <1>7 DEF Whole, Sound
<1> QED
  BY <1>4, <1>8 DEF m

LEMMA InitInv == Init => Inv
<1> SUFFICES ASSUME Init
             PROVE  Inv
  OBVIOUS
<1>1. \E n \in Sizes : Whole(map, n)
  BY NewMap DEF Init
<1>2. call.pc = "idle"
  BY DEF Init, Idle
<1> QED
  BY <1>1, <1>2 DEF Inv, Running

\* Only the flag that set and delete reset changes.
LEMMA FlagOnly ==
    ASSUME NEW n \in Sizes, NEW m, Whole(m, n), NEW x, NEW q, q = [m EXCEPT !.oom = x]
    PROVE  /\ Whole(q, n) /\ q.buckets = m.buckets /\ q.count = m.count
           /\ q.growat = m.growat /\ NBuckets(q) = n
<1>1. /\ DOMAIN q = DOMAIN m /\ q.cap = m.cap /\ q.growat = m.growat /\ q.shrinkat = m.shrinkat
      /\ q.growpower = m.growpower /\ q.count = m.count /\ q.buckets = m.buckets
  BY DEF Whole, Steady
<1>2. Steady(m, n) /\ Sound(m.buckets, n)
  BY WholeFacts
<1>3. m.count \in Nat /\ m.count <= m.growat /\ Cardinality(Taken(m.buckets)) = m.count
  BY DEF Whole, Steady
<1>4. Whole(q, n)
  BY <1>1, <1>2, <1>3, KeepsWhole
<1> QED
  BY <1>1, <1>4, WholeFacts

\* A probe starts at home.
LEMMA HomeReady ==
    ASSUME NEW bs, NEW n, Table(bs, n), NEW e, Sane(e, n), e.dib = 1
    PROVE  Ready(bs, e, n, e.hash % n)
<1>1. n \in Nat /\ n >= 2
  BY Buckets
<1>2. e.hash \in Nat
  BY <1>1, SaneFacts
<1>3. Pos(e.hash, 1, n) = e.hash % n
  BY <1>1, <1>2, Probe
<1>4. e.hash % n \in 0 .. n - 1
  BY <1>1, <1>2, WrapAround
<1>5. Path(bs, e, n, NoHole)
  BY DEF Path
<1>6. \A j \in Taken(bs) : bs[j].dib >= 1
  <2> SUFFICES ASSUME NEW j \in Taken(bs)
               PROVE  bs[j].dib >= 1
    OBVIOUS
  <2>1. bs[j].dib \in 0 .. n /\ bs[j].dib # 0
    BY Buckets
  <2> QED BY <1>1, <2>1
<1> QED
  BY <1>3, <1>4, <1>5, <1>6 DEF Ready

LEMMA StartsReady ==
    ASSUME NEW bs, NEW n, Table(bs, n), NEW k \in Key, NEW v \in Value
    PROVE  Ready(bs, Entry(k, v), n, Hash[k] % n)
<1> DEFINE e == Entry(k, v)
<1>1. n \in Nat /\ n >= 2 /\ n <= MaxBuckets /\ Hash[k] \in Nat
  BY Buckets, HashAssumption
<1>2. e.dib = 1 /\ e.hash = Hash[k] /\ e.key = k /\ e.value = v
  BY DEF Entry
<1>3. e \in Item
  BY <1>1, CapAssumption DEF Entry, Item
<1> HIDE DEF e
<1>4. Sane(e, n)
  BY <1>1, <1>2, <1>3 DEF Sane
<1> QED
  BY <1>2, <1>4, HomeReady DEF e

LEMMA StartsSetting ==
    ASSUME NEW n \in Sizes, NEW m, Whole(m, n), m.count < m.growat,
           NEW k \in Key, NEW v \in Value, NEW p, NBuckets(p) = n
    PROVE  Running(m, StartSet(k, v, p), n)
<1> DEFINE c == StartSet(k, v, p)
<1>1. /\ DOMAIN c = {"pc", "key", "hand", "i"} /\ c.pc = "set" /\ c.hand = Entry(k, v)
      /\ c.i = Hash[k] % n
  BY DEF StartSet
<1> HIDE DEF c
<1>2. Ready(m.buckets, c.hand, n, c.i)
  BY <1>1, StartsReady, WholeFacts DEF Sound
<1> QED
  BY <1>1, <1>2 DEF Running, Setting, c

LEMMA StartsResizing ==
    ASSUME NEW n \in Sizes, NEW m, Whole(m, n), NEW a, RoundCap(a) \in Sizes,
           NEW then, NEW k, NEW item,
           \/ then = "set" /\ k \in Key /\ item \in Value /\ m.count < GrowAt(RoundCap(a))
           \/ then = "delete" /\ m.count <= GrowAt(RoundCap(a))
    PROVE  Running(m, StartResize(a, then, k, item), n)
<1> DEFINE c == StartResize(a, then, k, item)
           q == RoundCap(a)
<1>1. /\ DOMAIN c = {"pc", "to", "i", "j", "hand", "then", "key", "item"} /\ c.pc = "resize"
      /\ c.to = NoBuckets(q) /\ c.i = 0 /\ c.hand = Empty /\ c.then = then
      /\ c.key = k /\ c.item = item
  BY DEF StartResize
<1> HIDE DEF c, q
<1>2. q \in Sizes
  BY DEF q
<1>3. Sound(c.to, q) /\ Taken(c.to) = {} /\ Cardinality(Taken(c.to)) = 0
  BY <1>1, <1>2, FreshTable
<1>4. n \in Nat /\ Taken(m.buckets) \subseteq 0 .. n - 1
  BY WholeFacts, Buckets DEF Sound
<1>5. Below(m.buckets, 0) = {}
  BY <1>4 DEF Below
<1>6. Cardinality(Below(m.buckets, c.i)) = 0
  BY <1>1, <1>5, FS_EmptySet
<1>7. KeysIn(c.to, Taken(c.to)) = {}
  BY <1>3 DEF KeysIn
<1>8. \/ c.then = "set" /\ c.key \in Key /\ c.item \in Value /\ m.count < GrowAt(q)
      \/ c.then = "delete" /\ m.count <= GrowAt(q)
  BY <1>1 DEF q
<1>9. Resizing(m, c, n, q)
  BY <1>1, <1>3, <1>4, <1>6, <1>7, <1>8 DEF Resizing
<1> QED
  BY <1>1, <1>2, <1>9 DEF Running, c

LEMMA SetInv == ASSUME Inv, NEW k \in Key, NEW v \in Value, hashmap_set(k, v) PROVE Inv'
<1>1. call.pc = "idle"
  BY DEF hashmap_set
<1>2. PICK n \in Sizes : Whole(map, n)
  BY <1>1, AtRest
<1> DEFINE a == Doubled(NBuckets(map), map.growpower)
<1>3. NBuckets(map) = n /\ map.growpower \in Nat \ {0}
  BY <1>2, WholeFacts DEF Steady
<1>4. CASE map' = [map EXCEPT !.oom = TRUE] /\ call' = Idle
  BY <1>2, <1>4, FlagOnly, Rests
<1>5. CASE /\ map.count = map.growat /\ CanResize(a)
           /\ map' = [map EXCEPT !.oom = FALSE] /\ call' = StartResize(a, "set", k, v)
  <2>1. /\ Whole(map', n) /\ map'.count = map.count
    BY <1>2, <1>5, FlagOnly
  <2>2. RoundCap(a) \in Sizes /\ GrowAt(n) < GrowAt(RoundCap(a)) /\ ClearedAt(n) < GrowAt(RoundCap(a))
    BY <1>3, <1>5, Grown
  <2> HIDE DEF a
  <2>3. map'.count < GrowAt(RoundCap(a))
    BY <1>2, <1>5, <2>1, <2>2 DEF Whole, Steady
  <2>4. Running(map', call', n)
    BY <1>5, <2>1, <2>2, <2>3, StartsResizing
  <2> QED BY <2>4, InvNext
<1>6. CASE /\ map.count # map.growat /\ map' = [map EXCEPT !.oom = FALSE]
           /\ call' = StartSet(k, v, map)
  <2>1. /\ Whole(map', n) /\ map'.count = map.count /\ map'.growat = map.growat
    BY <1>2, <1>6, FlagOnly
  <2>2. map.count <= map.growat /\ map.count \in Nat /\ map.growat \in Nat
    BY <1>2, WholeFacts DEF Steady
  <2>3. map'.count < map'.growat
    BY <1>6, <2>1, <2>2
  <2>4. Running(map', call', n)
    BY <1>3, <1>6, <2>1, <2>3, StartsSetting
  <2> QED BY <2>4, InvNext
<1> QED
  BY <1>4, <1>5, <1>6, Zenon DEF hashmap_set, Return

\* The map with another entry in bucket i, and perhaps another count.
Written(m, i, x, k) == [m EXCEPT !.buckets[i] = x, !.count = k]
WrittenBucket(m, i, x) == [m EXCEPT !.buckets[i] = x]

\* q is m but for its table t and its count k.
Rewritten(q, m, t, k) ==
    /\ q.buckets = t /\ q.count = k
    /\ DOMAIN q = DOMAIN m /\ q.cap = m.cap /\ q.growat = m.growat
    /\ q.shrinkat = m.shrinkat /\ q.growpower = m.growpower /\ q.oom = m.oom

LEMMA Writing ==
    ASSUME NEW n \in Sizes, NEW m, Steady(m, n), NEW i \in 0 .. n - 1, NEW x, NEW k
    PROVE  /\ Rewritten(Written(m, i, x, k), m, With(m.buckets, i, x), k)
           /\ Rewritten(WrittenBucket(m, i, x), m, With(m.buckets, i, x), m.count)
  BY DEF Steady, With, Written, WrittenBucket, Rewritten

LEMMA SetProbeInv == ASSUME Inv, SetProbe PROVE Inv'
<1> DEFINE i == call.i
           e == call.hand
           bs == map.buckets
           b == bs[i]
<1>1. call.pc = "set"
  BY DEF SetProbe
<1>2. PICK n \in Sizes : Whole(map, n) /\ Setting(map, call, n)
  BY <1>1 DEF Inv, Running
<1>3. /\ Sound(bs, n) /\ Steady(map, n) /\ NBuckets(map) = n /\ n \in Nat /\ n >= 2
      /\ map.count \in Nat /\ map.growat \in Nat /\ map.growat < n
      /\ Cardinality(Taken(bs)) = map.count /\ map.count < n
  BY <1>2, WholeFacts
<1>4. /\ Ready(bs, e, n, i) /\ i \in 0 .. n - 1 /\ Sane(e, n) /\ Table(bs, n)
      /\ DOMAIN call = {"pc", "key", "hand", "i"} /\ map.count < map.growat
  BY <1>2, <1>3 DEF Setting, Ready, Sound
<1>5. e.dib \in 1 .. n /\ e.hash = Hash[e.key] /\ e.value \in Value
  BY <1>3, <1>4, SaneFacts
<1>6. b.dib \in 0 .. n /\ (b.dib # 0 => Sane(b, n))
  BY <1>4, Buckets
<1>7. CASE /\ b.dib = 0 /\ call' = Idle
           /\ map' = [map EXCEPT !.buckets[call.i] = e, !.count = @ + 1]
  <2>1. /\ map'.buckets = With(bs, i, e) /\ map'.count = map.count + 1
        /\ DOMAIN map' = DOMAIN map /\ map'.cap = map.cap /\ map'.growat = map.growat
        /\ map'.shrinkat = map.shrinkat /\ map'.growpower = map.growpower
    <3>1. map' = Written(map, i, e, map.count + 1)
      BY <1>7 DEF Written
    <3>2. Rewritten(map', map, With(bs, i, e), map.count + 1)
      BY <1>3, <1>4, <3>1, Writing
    <3> HIDE DEF i, e, bs
    <3> QED BY <3>2 DEF Rewritten
  <2> HIDE DEF i, e, bs, b
  <2>2. Sound(With(bs, i, e), n) /\ Taken(With(bs, i, e)) = Taken(bs) \cup {i}
    BY <1>3, <1>4, <1>5, <1>7, Lands DEF b
  <2>3. Cardinality(Taken(bs) \cup {i}) = map.count + 1
    BY <1>3, <1>4, <1>7, Counted DEF b
  <2>4. map'.count \in Nat /\ map'.count <= map.growat
    BY <1>3, <1>4, <2>1
  <2>5. Whole(map', n)
    BY <1>3, <2>1, <2>2, <2>3, <2>4, KeepsWhole
  <2> QED BY <1>7, <2>5, Rests
<1>8. CASE /\ b.dib # 0 /\ SameItem(e, b) /\ call' = Idle
           /\ map' = [map EXCEPT !.buckets[call.i].key = e.key,
                                 !.buckets[call.i].value = e.value]
  <2> DEFINE x == [b EXCEPT !.key = e.key, !.value = e.value]
  <2>1. map' = [map EXCEPT !.buckets[call.i] = x]
    BY <1>3, <1>4, <1>8 DEF Steady, Table
  <2>2. /\ map'.buckets = With(bs, i, x) /\ map'.count = map.count
        /\ DOMAIN map' = DOMAIN map /\ map'.cap = map.cap /\ map'.growat = map.growat
        /\ map'.shrinkat = map.shrinkat /\ map'.growpower = map.growpower
    <3> HIDE DEF x
    <3>1. map' = WrittenBucket(map, i, x)
      BY <2>1 DEF WrittenBucket
    <3>2. Rewritten(map', map, With(bs, i, x), map.count)
      BY <1>3, <1>4, <3>1, Writing
    <3> HIDE DEF i, bs
    <3> QED BY <3>2 DEF Rewritten
  <2> HIDE DEF i, e, bs, b
  <2>3. e.key = b.key
    BY <1>8 DEF SameItem
  <2>4. Sane(x, n) /\ x.dib = b.dib /\ x.hash = b.hash /\ x.key = b.key
    BY <1>5, <1>6, <1>8, <2>3 DEF Sane, Item
  <2> HIDE DEF x
  <2>5. Sound(With(bs, i, x), n) /\ Taken(With(bs, i, x)) = Taken(bs)
    BY <1>3, <1>4, <1>8, <2>4, ValueReplaced DEF b
  <2>6. map'.count <= map.growat
    BY <1>3, <1>4, <2>2
  <2>7. Whole(map', n)
    BY <1>3, <2>2, <2>5, <2>6, KeepsWhole
  <2> QED BY <1>8, <2>7, Rests
<1>9. CASE /\ b.dib # 0 /\ ~ SameItem(e, b)
           /\ map' = [map EXCEPT !.buckets[call.i] = Stays(b, e)]
           /\ call' = [call EXCEPT !.hand = Further(Carried(b, e)),
                                   !.i = (@ + 1) % NBuckets(map)]
  <2> DEFINE x == Stays(b, e)
             f == Further(Carried(b, e))
  <2>1. /\ map'.buckets = With(bs, i, x) /\ map'.count = map.count
        /\ DOMAIN map' = DOMAIN map /\ map'.cap = map.cap /\ map'.growat = map.growat
        /\ map'.shrinkat = map.shrinkat /\ map'.growpower = map.growpower
    <3> HIDE DEF x
    <3>1. map' = WrittenBucket(map, i, x)
      BY <1>9 DEF x, WrittenBucket
    <3>2. Rewritten(map', map, With(bs, i, x), map.count)
      BY <1>3, <1>4, <3>1, Writing
    <3> HIDE DEF i, bs
    <3> QED BY <3>2 DEF Rewritten
  <2>2. /\ call'.hand = f /\ call'.i = (i + 1) % n /\ call'.pc = "set"
        /\ DOMAIN call' = {"pc", "key", "hand", "i"}
    <3> HIDE DEF f
    <3> QED BY <1>1, <1>3, <1>4, <1>9 DEF f
  <2> HIDE DEF i, e, bs, b
  <2>3. b.key # e.key
    BY <1>3, <1>5, <1>6, <1>9, SaneFacts DEF SameItem
  <2>4. /\ Sound(With(bs, i, x), n) /\ Ready(With(bs, i, x), f, n, (i + 1) % n)
        /\ Taken(With(bs, i, x)) = Taken(bs)
    BY <1>3, <1>4, <1>9, <2>3, GoesOn DEF b
  <2> HIDE DEF x, f
  <2>5. map'.count <= map.growat
    BY <1>3, <1>4, <2>1
  <2>6. Whole(map', n)
    BY <1>3, <2>1, <2>4, <2>5, KeepsWhole
  <2>7. Setting(map', call', n)
    BY <1>4, <2>1, <2>2, <2>4 DEF Setting
  <2> QED BY <2>2, <2>6, <2>7, InvNext DEF Running
<1> HIDE DEF i, e, bs, b
<1> QED
  BY <1>7, <1>8, <1>9, Zenon DEF SetProbe, Return, i, e, bs, b

\* The entries below i + 1: those below i, and the one at i.
LEMMA BelowNext ==
    ASSUME NEW bs, NEW n, Table(bs, n), NEW i \in 0 .. n - 1
    PROVE  /\ bs[i].dib = 0 => Below(bs, i + 1) = Below(bs, i)
           /\ bs[i].dib # 0 =>
                /\ Below(bs, i + 1) = Below(bs, i) \cup {i}
                /\ Cardinality(Below(bs, i + 1)) = Cardinality(Below(bs, i)) + 1
<1>1. n \in Nat /\ Taken(bs) \subseteq 0 .. n - 1 /\ (i \in Taken(bs) <=> bs[i].dib # 0)
  BY Buckets
<1>2. ASSUME bs[i].dib = 0
      PROVE  Below(bs, i + 1) = Below(bs, i)
  BY <1>1, <1>2 DEF Below
<1>3. ASSUME bs[i].dib # 0
      PROVE  /\ Below(bs, i + 1) = Below(bs, i) \cup {i}
             /\ Cardinality(Below(bs, i + 1)) = Cardinality(Below(bs, i)) + 1
  <2>1. Below(bs, i + 1) = Below(bs, i) \cup {i}
    BY <1>1, <1>3 DEF Below
  <2>2. IsFiniteSet(Below(bs, i))
    <3>1. Below(bs, i) \in SUBSET Taken(bs)
      BY DEF Below
    <3> QED BY <3>1, Buckets, FS_Subset
  <2>3. i \notin Below(bs, i)
    BY <1>1 DEF Below
  <2>4. Cardinality(Below(bs, i) \cup {i}) = Cardinality(Below(bs, i)) + 1
    BY <2>2, <2>3, FS_AddElement
  <2> QED BY <2>1, <2>4
<1> QED
  BY <1>2, <1>3

LEMMA BelowBounds ==
    ASSUME NEW bs, NEW n, Table(bs, n), NEW i \in 0 .. n
    PROVE  /\ Cardinality(Below(bs, i)) \in Nat
           /\ Cardinality(Below(bs, i)) <= Cardinality(Taken(bs))
           /\ i = n => Below(bs, i) = Taken(bs)
<1>1. Below(bs, i) \in SUBSET Taken(bs) /\ IsFiniteSet(Taken(bs))
  BY Buckets DEF Below
<1>2. IsFiniteSet(Below(bs, i)) /\ Cardinality(Below(bs, i)) <= Cardinality(Taken(bs))
  BY <1>1, FS_Subset
<1>3. Cardinality(Below(bs, i)) \in Nat
  BY <1>2, FS_CardinalityType
<1>4. ASSUME i = n PROVE Below(bs, i) = Taken(bs)
  BY <1>4, Buckets DEF Below
<1> QED
  BY <1>2, <1>3, <1>4

\* What every step of a resize starts from.
LEMMA ResizeFacts ==
    ASSUME Inv, call.pc = "resize"
    PROVE  \E n \in Sizes, q \in Sizes :
             /\ Whole(map, n) /\ Resizing(map, call, n, q)
             /\ NBuckets(map) = n /\ Cardinality(DOMAIN call.to) = q
             /\ n \in Nat /\ q \in Nat /\ q >= 2 /\ Table(map.buckets, n) /\ Unique(map.buckets)
             /\ Cardinality(Taken(call.to)) < q
<1>1. PICK n \in Sizes, q \in Sizes : Whole(map, n) /\ Resizing(map, call, n, q)
  BY DEF Inv, Running
<1>2. NBuckets(map) = n /\ n \in Nat /\ Table(map.buckets, n) /\ Unique(map.buckets)
  BY <1>1, WholeFacts DEF Sound
<1>3. Cardinality(DOMAIN call.to) = q
  BY <1>1, BucketCount DEF Resizing, Sound
<1>4. q \in Nat /\ q >= 2 /\ GrowAt(q) \in Nat /\ GrowAt(q) < q
  BY SizeFacts, Limits
<1>5. map.count \in Nat /\ map.count <= GrowAt(q) /\ Cardinality(Taken(map.buckets)) = map.count
  BY <1>1, <1>4, WholeFacts DEF Resizing
<1>6. call.i \in 0 .. n /\ Cardinality(Taken(call.to)) = Cardinality(Below(map.buckets, call.i))
  BY <1>1 DEF Resizing
<1>7. Cardinality(Taken(call.to)) < q
  <2>1. /\ Cardinality(Below(map.buckets, call.i)) \in Nat
        /\ Cardinality(Below(map.buckets, call.i)) <= Cardinality(Taken(map.buckets))
    BY <1>2, <1>6, BelowBounds
  <2> QED BY <1>4, <1>5, <1>6, <2>1
<1> QED
  BY <1>1, <1>2, <1>3, <1>4, <1>7

LEMMA ResizeNextInv == ASSUME Inv, ResizeNext PROVE Inv'
<1> DEFINE i == call.i
           bs == map.buckets
           b == bs[i]
           to == call.to
           h == [b EXCEPT !.dib = 1]
<1>1. call.pc = "resize" /\ call.hand.dib = 0 /\ i < NBuckets(map) /\ map' = map
  BY DEF ResizeNext
<1>2. PICK n \in Sizes, q \in Sizes :
             /\ Whole(map, n) /\ Resizing(map, call, n, q)
             /\ NBuckets(map) = n /\ Cardinality(DOMAIN to) = q
             /\ n \in Nat /\ q \in Nat /\ q >= 2 /\ Table(bs, n) /\ Unique(bs)
  BY <1>1, ResizeFacts
<1>3. call.hand = Empty
  <2> SUFFICES ASSUME call.hand # Empty PROVE FALSE
    OBVIOUS
  <2>1. Sane(call.hand, q)
    BY <1>2 DEF Resizing, Ready
  <2> QED BY <1>1, <1>2, <2>1, SaneFacts
<1>4. KeysIn(to, Taken(to)) \subseteq KeysIn(bs, Below(bs, i))
  <2> SUFFICES ASSUME ~ (KeysIn(to, Taken(to)) \subseteq KeysIn(bs, Below(bs, i))) PROVE FALSE
    OBVIOUS
  <2>1. Sane(call.hand, q)
    BY <1>2 DEF Resizing, Ready
  <2> QED BY <1>1, <1>2, <2>1, SaneFacts
<1>5. /\ i \in 0 .. n - 1 /\ Sound(to, q)
      /\ DOMAIN call = {"pc", "to", "i", "j", "hand", "then", "key", "item"}
      /\ Cardinality(Taken(to)) = Cardinality(Below(bs, i))
  BY <1>1, <1>2 DEF Resizing
<1>6. \/ call.then = "set" /\ call.key \in Key /\ call.item \in Value /\ map.count < GrowAt(q)
      \/ call.then = "delete" /\ map.count <= GrowAt(q)
  BY <1>2 DEF Resizing
<1>7. CASE b.dib = 0
  <2>1. call' = [call EXCEPT !.i = @ + 1]
    BY <1>7 DEF ResizeNext
  <2>2. /\ call'.to = to /\ call'.i = i + 1 /\ call'.hand = Empty /\ call'.then = call.then
        /\ call'.key = call.key /\ call'.item = call.item /\ call'.pc = "resize"
        /\ DOMAIN call' = {"pc", "to", "i", "j", "hand", "then", "key", "item"}
    BY <1>1, <1>3, <1>5, <2>1
  <2>3. Below(bs, i + 1) = Below(bs, i) /\ i + 1 \in 0 .. n
    BY <1>2, <1>5, <1>7, BelowNext
  <2>4. Resizing(map', call', n, q)
    <3> HIDE DEF i, to
    <3> QED BY <1>1, <1>4, <1>5, <1>6, <2>2, <2>3 DEF Resizing
  <2> QED BY <1>1, <1>2, <2>2, <2>4, InvNext DEF Running
<1>8. CASE b.dib # 0
  <2>1. call' = [call EXCEPT !.hand = h, !.j = b.hash % q]
    BY <1>2, <1>8 DEF ResizeNext, Home
  <2>2. /\ call'.to = to /\ call'.i = i /\ call'.hand = h /\ call'.j = b.hash % q
        /\ call'.then = call.then /\ call'.key = call.key /\ call'.item = call.item
        /\ DOMAIN call' = {"pc", "to", "i", "j", "hand", "then", "key", "item"}
        /\ call'.pc = "resize"
    <3> HIDE DEF h
    <3> QED BY <1>1, <1>5, <2>1
  <2>3. Sane(b, n) /\ i \in Taken(bs) /\ q <= MaxBuckets /\ Table(to, q)
    BY <1>2, <1>5, <1>8, Buckets DEF Sound
  <2> HIDE DEF b
  <2>4. Sane(h, q) /\ h.dib = 1 /\ h.hash = b.hash /\ h.key = b.key
    BY <1>2, <2>3, CapAssumption DEF Sane, Item
  <2> HIDE DEF h
  <2>5. Ready(to, h, q, b.hash % q)
    BY <2>3, <2>4, HomeReady
  <2>6. Below(bs, i + 1) = Below(bs, i) \cup {i}
    BY <1>2, <1>5, <1>8, BelowNext DEF b
  <2>7. h.key \notin KeysIn(bs, Below(bs, i))
    <3> SUFFICES ASSUME NEW j \in Below(bs, i), bs[j].key = b.key
                 PROVE  FALSE
      BY <2>4 DEF KeysIn
    <3>1. j \in Taken(bs) /\ j < i
      BY DEF Below
    <3>2. j = i
      BY <1>2, <2>3, <3>1 DEF Unique, b
    <3> QED BY <1>5, <3>1, <3>2
  <2>8. KeysIn(to, Taken(to)) \cup {h.key} \subseteq KeysIn(bs, Below(bs, i + 1))
    BY <1>4, <2>4, <2>6 DEF KeysIn, b
  <2>9. Resizing(map', call', n, q)
    <3>1. h.key \notin KeysIn(to, Taken(to))
      BY <1>4, <2>7
    <3>2. i \in 0 .. n /\ i < n /\ bs[i].dib # 0
      BY <1>2, <1>5, <1>8 DEF b
    <3> HIDE DEF i, to, bs
    <3>3. call'.i < n /\ map'.buckets[call'.i].dib # 0 /\ map'.buckets = bs
      BY <1>1, <2>2, <3>2 DEF bs
    <3> QED BY <1>1, <1>5, <1>6, <2>2, <2>5, <2>8, <3>1, <3>2, <3>3 DEF Resizing
  <2> QED BY <1>1, <1>2, <2>2, <2>9, InvNext DEF Running
<1> QED
  BY <1>7, <1>8

LEMMA ResizeProbeInv == ASSUME Inv, ResizeProbe PROVE Inv'
<1> DEFINE i == call.i
           j == call.j
           bs == map.buckets
           to == call.to
           b == to[j]
           e == call.hand
<1>1. call.pc = "resize" /\ e.dib # 0 /\ map' = map
  BY DEF ResizeProbe
<1>2. PICK n \in Sizes, q \in Sizes :
             /\ Whole(map, n) /\ Resizing(map, call, n, q)
             /\ NBuckets(map) = n /\ Cardinality(DOMAIN to) = q
             /\ n \in Nat /\ q \in Nat /\ q >= 2 /\ Table(bs, n) /\ Unique(bs)
             /\ Cardinality(Taken(to)) < q
  BY <1>1, ResizeFacts
<1>3. /\ i < n /\ bs[i].dib # 0 /\ Ready(to, e, q, j)
      /\ e.key \notin KeysIn(to, Taken(to))
      /\ KeysIn(to, Taken(to)) \cup {e.key} \subseteq KeysIn(bs, Below(bs, i + 1))
  <2>1. e # Empty
    BY <1>1 DEF Empty
  <2> QED BY <1>2, <2>1 DEF Resizing
<1>4. /\ i \in 0 .. n - 1 /\ Sound(to, q) /\ Table(to, q)
      /\ DOMAIN call = {"pc", "to", "i", "j", "hand", "then", "key", "item"}
      /\ Cardinality(Taken(to)) = Cardinality(Below(bs, i))
  BY <1>2, <1>3 DEF Resizing, Sound
<1>5. \/ call.then = "set" /\ call.key \in Key /\ call.item \in Value /\ map.count < GrowAt(q)
      \/ call.then = "delete" /\ map.count <= GrowAt(q)
  BY <1>2 DEF Resizing
<1>6. j \in 0 .. q - 1 /\ e.dib \in 1 .. q
  BY <1>2, <1>3, SaneFacts DEF Ready
<1>7. CASE b.dib = 0
  <2>1. call' = [call EXCEPT !.to[call.j] = e, !.hand = Empty, !.i = @ + 1]
    BY <1>7 DEF ResizeProbe
  <2> DEFINE t == With(to, j, e)
  <2>2. /\ call'.to = t /\ call'.i = i + 1 /\ call'.hand = Empty /\ call'.then = call.then
        /\ call'.key = call.key /\ call'.item = call.item /\ call'.pc = "resize"
        /\ DOMAIN call' = {"pc", "to", "i", "j", "hand", "then", "key", "item"}
    <3> HIDE DEF e
    <3> QED BY <1>1, <1>4, <2>1 DEF With
  <2> HIDE DEF e, to, b, bs, i, j
  <2>3. /\ Sound(t, q) /\ Taken(t) = Taken(to) \cup {j}
        /\ t[j] = e /\ \A k \in 0 .. q - 1 : k # j => t[k] = to[k]
    BY <1>3, <1>4, <1>6, <1>7, Lands DEF b
  <2> HIDE DEF t
  <2>4. Cardinality(Taken(to) \cup {j}) = Cardinality(Taken(to)) + 1
    BY <1>4, <1>6, <1>7, Counted DEF b
  <2>5. Cardinality(Below(bs, i + 1)) = Cardinality(Below(bs, i)) + 1
    BY <1>2, <1>3, <1>4, BelowNext
  <2>6. Cardinality(Taken(t)) = Cardinality(Below(bs, i + 1))
    BY <1>4, <2>3, <2>4, <2>5
  <2>7. KeysIn(t, Taken(t)) \subseteq KeysIn(bs, Below(bs, i + 1))
    <3>1. Taken(to) \subseteq 0 .. q - 1
      BY <1>4, Buckets
    <3>2. KeysIn(t, Taken(t)) \subseteq KeysIn(to, Taken(to)) \cup {e.key}
      BY <2>3, <3>1 DEF KeysIn
    <3> QED BY <1>3, <3>2
  <2>8. i + 1 \in 0 .. n
    BY <1>2, <1>4
  <2>9. Resizing(map', call', n, q)
    BY <1>1, <1>5, <2>2, <2>3, <2>6, <2>7, <2>8 DEF Resizing, bs
  <2> QED BY <1>1, <1>2, <2>2, <2>9, InvNext DEF Running
<1>8. CASE b.dib # 0
  <2> DEFINE t == With(to, j, Stays(b, e))
             f == Further(Carried(b, e))
  <2>1. call' = [call EXCEPT !.to[call.j] = Stays(b, e), !.hand = f, !.j = (j + 1) % q]
    BY <1>2, <1>8 DEF ResizeProbe
  <2>2. /\ call'.to = t /\ call'.i = i /\ call'.hand = f /\ call'.j = (j + 1) % q
        /\ call'.then = call.then
        /\ call'.key = call.key /\ call'.item = call.item /\ call'.pc = "resize"
        /\ DOMAIN call' = {"pc", "to", "i", "j", "hand", "then", "key", "item"}
    <3> DEFINE x == Stays(b, e)
               y == (j + 1) % q
    <3>1. call' = [call EXCEPT !.to[call.j] = x, !.hand = f, !.j = y]
      BY <2>1
    <3> HIDE DEF x, f, y
    <3>2. /\ call'.to = With(to, j, x) /\ call'.i = i /\ call'.hand = f /\ call'.j = y
          /\ call'.then = call.then
          /\ call'.key = call.key /\ call'.item = call.item /\ call'.pc = "resize"
          /\ DOMAIN call' = {"pc", "to", "i", "j", "hand", "then", "key", "item"}
      BY <1>1, <1>4, <3>1 DEF With
    <3> QED BY <3>2 DEF x, y
  <2> HIDE DEF e, to, b, bs, i, j
  <2>3. b.key # e.key
    <3>1. j \in Taken(to)
      BY <1>4, <1>6, <1>8, Buckets DEF b
    <3> QED BY <1>3, <3>1 DEF KeysIn, b
  <2>4. /\ Sound(t, q) /\ Ready(t, f, q, (j + 1) % q) /\ Taken(t) = Taken(to)
        /\ KeysIn(t, Taken(t)) \cup {f.key} = KeysIn(to, Taken(to)) \cup {e.key}
        /\ e.key \notin KeysIn(to, Taken(to)) => f.key \notin KeysIn(t, Taken(t))
    BY <1>2, <1>3, <1>4, <1>8, <2>3, GoesOn DEF b
  <2> HIDE DEF t, f
  <2>5. /\ f.key \notin KeysIn(t, Taken(t))
        /\ KeysIn(t, Taken(t)) \cup {f.key} \subseteq KeysIn(bs, Below(bs, i + 1))
    BY <1>3, <2>4
  <2>6. i \in 0 .. n /\ map'.buckets = bs
    BY <1>1, <1>2, <1>4 DEF bs
  <2>7. Resizing(map', call', n, q)
    BY <1>1, <1>3, <1>4, <1>5, <2>2, <2>4, <2>5, <2>6 DEF Resizing
  <2> QED BY <1>1, <1>2, <2>2, <2>7, InvNext DEF Running
<1> QED
  BY <1>7, <1>8

LEMMA ResizeEndInv == ASSUME Inv, ResizeEnd PROVE Inv'
<1> DEFINE bs == map.buckets
           to == call.to
<1>1. call.pc = "resize" /\ call.hand.dib = 0 /\ call.i = NBuckets(map)
  BY DEF ResizeEnd
<1>2. PICK n \in Sizes, q \in Sizes :
             /\ Whole(map, n) /\ Resizing(map, call, n, q)
             /\ NBuckets(map) = n /\ Cardinality(DOMAIN to) = q
             /\ n \in Nat /\ q \in Nat /\ q >= 2 /\ Table(bs, n)
  BY <1>1, ResizeFacts
<1>3. map' = [map EXCEPT !.buckets = to, !.growat = GrowAt(q), !.shrinkat = ShrinkAt(q)]
  BY <1>2 DEF ResizeEnd
<1>4. /\ map'.buckets = to /\ map'.growat = GrowAt(q) /\ map'.shrinkat = ShrinkAt(q)
      /\ map'.count = map.count /\ map'.cap = map.cap /\ map'.growpower = map.growpower
      /\ DOMAIN map' = DOMAIN map
  BY <1>2, <1>3 DEF Whole, Steady
<1>5. Sound(to, q) /\ Cardinality(Taken(to)) = map.count
  <2>1. Below(bs, call.i) = Taken(bs)
    BY <1>1, <1>2, BelowBounds
  <2>2. Cardinality(Taken(bs)) = map.count
    BY <1>2 DEF Whole
  <2> QED BY <1>2, <2>1, <2>2 DEF Resizing
<1>6. map.count \in Nat /\ GrowAt(q) \in Nat
  BY <1>2, WholeFacts, Limits
<1>7. map.count <= GrowAt(q)
  BY <1>2, <1>6 DEF Resizing
<1>8. Whole(map', q)
  BY <1>2, <1>4, <1>5, <1>6, <1>7 DEF Whole, Steady, Sound
<1>9. CASE call.then = "set" /\ call' = StartSet(call.key, call.item, map')
  <2>1. map'.count < map'.growat /\ call.key \in Key /\ call.item \in Value
    BY <1>2, <1>4, <1>9 DEF Resizing
  <2>2. NBuckets(map') = q
    BY <1>8, WholeFacts
  <2>3. Running(map', call', q)
    BY <1>8, <1>9, <2>1, <2>2, StartsSetting
  <2> QED BY <2>3, InvNext
<1>10. CASE call' = Idle
  BY <1>8, <1>10, Rests
<1> QED
  BY <1>9, <1>10, Zenon DEF ResizeEnd, Return

LEMMA DeleteInv == ASSUME Inv, NEW k \in Key, hashmap_delete(k) PROVE Inv'
<1>1. call.pc = "idle" /\ map' = [map EXCEPT !.oom = FALSE]
  BY DEF hashmap_delete
<1>2. PICK n \in Sizes : Whole(map, n)
  BY <1>1, AtRest
<1>3. Whole(map', n) /\ NBuckets(map) = n /\ n \in Nat /\ n >= 2
  BY <1>1, <1>2, FlagOnly, WholeFacts
<1>4. call' = [pc |-> "delete", key |-> k, i |-> Hash[k] % n]
  BY <1>3 DEF hashmap_delete
<1>5. Hash[k] % n \in 0 .. n - 1
  BY <1>3, HashAssumption, WrapAround
<1>6. call'.pc = "delete" /\ Searching(call', n)
  BY <1>4, <1>5 DEF Searching
<1> QED
  BY <1>3, <1>6, InvNext DEF Running

LEMMA GetInv == ASSUME Inv, NEW k \in Key, hashmap_get(k) PROVE Inv'
<1>1. call.pc = "idle" /\ map' = map
  BY DEF hashmap_get
<1>2. PICK n \in Sizes : Whole(map, n)
  BY <1>1, AtRest
<1>3. NBuckets(map) = n /\ n \in Nat /\ n >= 2
  BY <1>2, WholeFacts
<1>4. call' = [pc |-> "get", key |-> k, i |-> Hash[k] % n]
  BY <1>3 DEF hashmap_get
<1>5. Hash[k] % n \in 0 .. n - 1
  BY <1>3, HashAssumption, WrapAround
<1>6. call'.pc = "get" /\ Searching(call', n)
  BY <1>4, <1>5 DEF Searching
<1> QED
  BY <1>1, <1>2, <1>6, InvNext DEF Running

\* A search that goes on to the next bucket.
LEMMA SearchesOn ==
    ASSUME NEW n \in Sizes, Whole(map, n), call.pc \in {"get", "delete"}, Searching(call, n),
           map' = map, call' = [call EXCEPT !.i = (@ + 1) % NBuckets(map)]
    PROVE  Inv'
<1>1. NBuckets(map) = n /\ n \in Nat /\ n >= 2
  BY WholeFacts
<1> DEFINE i == (call.i + 1) % n
<1>2. i \in 0 .. n - 1
  BY <1>1, NextBucket DEF Searching
<1>3. call' = [call EXCEPT !.i = i]
  BY <1>1
<1> HIDE DEF i
<1>4. call'.pc = call.pc /\ Searching(call', n)
  BY <1>2, <1>3 DEF Searching
<1> QED
  BY <1>4, InvNext DEF Running

LEMMA GetProbeInv == ASSUME Inv, GetProbe PROVE Inv'
<1>1. call.pc = "get" /\ map' = map
  BY DEF GetProbe
<1>2. PICK n \in Sizes : Whole(map, n) /\ Searching(call, n)
  BY <1>1 DEF Inv, Running
<1>3. CASE call' = Idle
  BY <1>1, <1>2, <1>3, Rests
<1>4. CASE call' = [call EXCEPT !.i = (@ + 1) % NBuckets(map)]
  BY <1>1, <1>2, <1>4, SearchesOn
<1> QED
  BY <1>3, <1>4, Zenon DEF GetProbe, Return

LEMMA DeleteProbeInv == ASSUME Inv, DeleteProbe PROVE Inv'
<1> DEFINE i == call.i
           bs == map.buckets
           b == bs[i]
<1>1. call.pc = "delete"
  BY DEF DeleteProbe
<1>2. PICK n \in Sizes : Whole(map, n) /\ Searching(call, n)
  BY <1>1 DEF Inv, Running
<1>3. CASE map' = map /\ call' = Idle
  BY <1>2, <1>3, Rests
<1>4. CASE /\ b.dib # 0
           /\ map' = [map EXCEPT !.buckets[call.i] = Empty]
           /\ call' = [pc |-> "shift", key |-> call.key, i |-> call.i, item |-> b.value]
  <2>1. i \in 0 .. n - 1 /\ Sound(bs, n) /\ Steady(map, n) /\ Cardinality(Taken(bs)) = map.count
    BY <1>2, WholeFacts DEF Searching
  <2> DEFINE t == With(bs, i, Empty)
  <2>2. map' = WrittenBucket(map, i, Empty)
    BY <1>4 DEF WrittenBucket
  <2>3. Rewritten(map', map, t, map.count)
    BY <2>1, <2>2, Writing
  <2>4. call'.pc = "shift" /\ call'.i = i /\ DOMAIN call' = {"pc", "key", "i", "item"}
    BY <1>4
  <2> HIDE DEF i, bs, b, t
  <2>5. /\ Table(t, n) /\ Placed(t, n, i) /\ Unique(t)
        /\ t[i] = Empty /\ Taken(t) = Taken(bs) \ {i}
    BY <1>4, <2>1, TakenOut DEF b, t
  <2>6. Cardinality(Taken(bs) \ {i}) = map.count - 1
    BY <1>4, <2>1, Counted DEF b, Sound
  <2>7. Shifting(map', call', n)
    BY <2>1, <2>3, <2>4, <2>5, <2>6 DEF Shifting, Steady, Rewritten
  <2> QED BY <2>4, <2>7, InvNext DEF Running
<1>5. CASE map' = map /\ call' = [call EXCEPT !.i = (@ + 1) % NBuckets(map)]
  BY <1>1, <1>2, <1>5, SearchesOn
<1> QED
  BY <1>3, <1>4, <1>5, Zenon DEF DeleteProbe, Return

\* The map with other entries in two buckets, and with another count.
Shifted(m, h, x, k, y) == [m EXCEPT !.buckets[h] = x, !.buckets[k] = y]
Recounted(m, k) == [m EXCEPT !.count = k]

LEMMA ShiftWriting ==
    ASSUME NEW n \in Sizes, NEW m, Steady(m, n), NEW h \in 0 .. n - 1, NEW k \in 0 .. n - 1,
           NEW x, NEW y, NEW c
    PROVE  /\ Rewritten(Shifted(m, h, x, k, y), m, With(With(m.buckets, h, x), k, y), m.count)
           /\ Rewritten(Recounted(m, c), m, m.buckets, c)
  BY DEF Steady, With, Shifted, Recounted, Rewritten

LEMMA DeleteShiftInv == ASSUME Inv, DeleteShift PROVE Inv'
<1> DEFINE h == call.i
           bs == map.buckets
<1>1. call.pc = "shift"
  BY DEF DeleteShift
<1>2. PICK n \in Sizes : Shifting(map, call, n)
  BY <1>1 DEF Inv, Running
<1>3. /\ Steady(map, n) /\ h \in 0 .. n - 1 /\ bs[h] = Empty /\ Placed(bs, n, h)
      /\ Cardinality(Taken(bs)) = map.count - 1 /\ Unique(bs)
      /\ DOMAIN call = {"pc", "key", "i", "item"}
  BY <1>2 DEF Shifting, Steady
<1>4. /\ NBuckets(map) = n /\ n \in Nat /\ n >= 2 /\ n <= MaxBuckets /\ Table(bs, n)
      /\ map.count \in Nat /\ map.growat \in Nat /\ Cardinality(Taken(bs)) \in Nat
  BY <1>3, SteadyFacts, SizeFacts
<1>5. map.count - 1 \in Nat /\ map.count - 1 <= map.growat
  BY <1>3, <1>4 DEF Steady
<1> DEFINE k == (h + 1) % NBuckets(map)
           b == bs[k]
<1>6. k = (h + 1) % n /\ k \in 0 .. n - 1 /\ k # h
  BY <1>3, <1>4, NextBucket
<1>7. CASE /\ ~ ShiftEnds(b)
           /\ map' = [map EXCEPT !.buckets[call.i] = [b EXCEPT !.dib = @ - 1],
                                 !.buckets[k] = Empty]
           /\ call' = [call EXCEPT !.i = k]
  <2> DEFINE c == [b EXCEPT !.dib = @ - 1]
  <2>1. map' = Shifted(map, h, c, k, Empty)
    BY <1>7 DEF Shifted
  <2> HIDE DEF k, b
  <2>2. call'.pc = "shift" /\ call'.i = k /\ DOMAIN call' = {"pc", "key", "i", "item"}
    BY <1>1, <1>3, <1>7
  <2>3. ~ (b.dib <= 1)
    BY <1>7 DEF ShiftEnds
  <2>4. b.dib \in 0 .. n /\ (b.dib # 0 => Sane(b, n))
    BY <1>4, <1>6, Buckets DEF b
  <2>5. Sane(b, n) /\ b.dib \in 2 .. n
    BY <1>4, <2>3, <2>4
  <2>6. Sane(c, n) /\ c.dib = b.dib - 1 /\ c.hash = b.hash /\ c.key = b.key
    <3> DEFINE d == b.dib - 1
    <3>1. d \in 1 .. n /\ d \in 1 .. MaxBuckets
      BY <1>4, <2>5, CapAssumption
    <3>2. c = [b EXCEPT !.dib = d]
      OBVIOUS
    <3> HIDE DEF d, c
    <3>3. Sane(c, n) /\ c.dib = d /\ c.hash = b.hash /\ c.key = b.key
      BY <2>5, <3>1, <3>2 DEF Sane, Item
    <3> QED BY <3>3 DEF d
  <2> HIDE DEF c, h, bs
  <2> DEFINE t == With(With(bs, h, c), k, Empty)
  <2>7. Rewritten(map', map, t, map.count)
    BY <1>3, <1>6, <2>1, ShiftWriting DEF bs
  <2>8. /\ Table(t, n) /\ Placed(t, n, k) /\ Unique(t)
        /\ t[k] = Empty /\ k \in 0 .. n - 1
        /\ Cardinality(Taken(t)) = Cardinality(Taken(bs))
    BY <1>3, <1>4, <1>6, <2>3, <2>6, ShiftOn DEF b
  <2> HIDE DEF t
  <2>9. Shifting(map', call', n)
    BY <1>3, <2>2, <2>7, <2>8 DEF Shifting, Steady, Rewritten
  <2> QED BY <2>2, <2>9, InvNext DEF Running
<1>8. ASSUME ShiftEnds(b), map' = [map EXCEPT !.count = @ - 1]
      PROVE  Whole(map', n) /\ map'.count = map.count - 1
  <2>1. map' = Recounted(map, map.count - 1)
    BY <1>8 DEF Recounted
  <2>2. Rewritten(map', map, bs, map.count - 1)
    BY <1>3, <2>1, ShiftWriting
  <2>3. bs[(h + 1) % n].dib <= 1
    BY <1>6, <1>8 DEF ShiftEnds
  <2> HIDE DEF k, b, h, bs
  <2>4. Placed(bs, n, NoHole)
    BY <1>3, <1>4, <2>3, ShiftDone
  <2>5. Sound(bs, n)
    BY <1>3, <1>4, <2>4 DEF Sound
  <2> QED BY <1>3, <1>5, <2>2, <2>5, KeepsWhole DEF Rewritten
<1>9. CASE ShiftEnds(b) /\ map' = [map EXCEPT !.count = @ - 1] /\ call' = Idle
  BY <1>8, <1>9, Rests
<1>10. CASE /\ ShiftEnds(b) /\ map.count - 1 <= map.shrinkat
            /\ CanResize(NBuckets(map) \div 2) /\ map' = [map EXCEPT !.count = @ - 1]
            /\ call' = StartResize(NBuckets(map) \div 2, "delete", call.key, call.item)
  <2>1. Whole(map', n) /\ map'.count = map.count - 1
    BY <1>8, <1>10
  <2> DEFINE a == n \div 2
  <2>2. CanResize(a) /\ call' = StartResize(a, "delete", call.key, call.item)
    BY <1>4, <1>10
  <2>3. RoundCap(a) \in Sizes /\ ShrinkAt(n) <= GrowAt(RoundCap(a))
    BY <2>2, Shrunk
  <2> HIDE DEF a, k, b
  <2>4. map'.count <= GrowAt(RoundCap(a))
    <3>1. map.shrinkat = ShrinkAt(n) /\ ShrinkAt(n) \in Nat /\ GrowAt(RoundCap(a)) \in Nat
      BY <1>3, <2>3, Limits DEF Steady
    <3> QED BY <1>5, <1>10, <2>1, <2>3, <3>1
  <2>5. Running(map', call', n)
    BY <2>1, <2>2, <2>3, <2>4, StartsResizing
  <2> QED BY <2>5, InvNext
<1> HIDE DEF h, bs, k, b
<1> QED
  BY <1>7, <1>9, <1>10, Zenon DEF DeleteShift, Return, h, bs, k, b

\* The table is replaced by one without entries.
Cleared(m, n) ==
    [m EXCEPT !.buckets = NoBuckets(n), !.cap = n, !.count = 0,
              !.growat = ClearedAt(n), !.shrinkat = ShrinkAt(n)]

LEMMA ClearedWhole ==
    ASSUME NEW m, NEW o \in Sizes, Whole(m, o), NEW n \in Sizes
    PROVE  Whole(Cleared(m, n), n)
<1> DEFINE q == Cleared(m, n)
<1>1. /\ DOMAIN m = {"buckets", "cap", "count", "growat", "shrinkat", "growpower", "oom"}
      /\ m.growpower \in Nat \ {0}
  BY DEF Whole, Steady
<1>2. /\ q.buckets = NoBuckets(n) /\ q.cap = n /\ q.count = 0 /\ q.growat = ClearedAt(n)
      /\ q.shrinkat = ShrinkAt(n) /\ q.growpower = m.growpower /\ DOMAIN q = DOMAIN m
  BY <1>1 DEF Cleared
<1> HIDE DEF q
<1>3. ClearedAt(n) \in Nat
  BY Limits
<1>4. Sound(q.buckets, n) /\ Cardinality(Taken(q.buckets)) = 0
  BY <1>2, FreshTable
<1>5. Steady(q, n)
  BY <1>1, <1>2, <1>3, <1>4 DEF Steady, Sound
<1> QED
  BY <1>2, <1>4, <1>5 DEF Whole, Sound, q

LEMMA ClearInv == ASSUME Inv, NEW u \in BOOLEAN, hashmap_clear(u) PROVE Inv'
<1>1. call.pc = "idle" /\ call' = call
  BY DEF hashmap_clear
<1>2. PICK o \in Sizes : Whole(map, o)
  BY <1>1, AtRest
<1> DEFINE n == IF u THEN NBuckets(map) ELSE map.cap
<1>3. map' = Cleared(map, n)
  BY Zenon DEF hashmap_clear, Cleared
<1>4. n \in Sizes
  BY <1>2, WholeFacts DEF Steady
<1> HIDE DEF n
<1>5. Whole(map', n)
  BY <1>2, <1>3, <1>4, ClearedWhole
<1> QED
  BY <1>1, <1>4, <1>5, InvNext DEF Running

LEMMA GrowByPowerInv ==
    ASSUME Inv, NEW p \in GrowPowers, hashmap_set_grow_by_power(p)
    PROVE  Inv'
<1>1. call.pc = "idle" /\ call' = call
  BY DEF hashmap_set_grow_by_power
<1>2. PICK n \in Sizes : Whole(map, n)
  BY <1>1, AtRest
<1> DEFINE g == IF p < 1 THEN 1 ELSE IF p > 16 THEN 16 ELSE p
<1>3. map' = [map EXCEPT !.growpower = g]
  BY DEF hashmap_set_grow_by_power
<1>4. g \in Nat \ {0}
  BY PowerAssumption
<1> HIDE DEF g
<1>5. /\ map'.buckets = map.buckets /\ map'.count = map.count /\ map'.growpower = g
      /\ DOMAIN map' = DOMAIN map /\ map'.cap = map.cap /\ map'.growat = map.growat
      /\ map'.shrinkat = map.shrinkat
  BY <1>2, <1>3 DEF Whole, Steady
<1>6. Whole(map', n)
  BY <1>2, <1>4, <1>5 DEF Whole, Steady
<1> QED
  BY <1>1, <1>6, InvNext DEF Running

LEMMA WalkInv == ASSUME Inv, WalkStart \/ hashmap_iter PROVE Inv'
<1>1. map' = map /\ call.pc \in {"idle", "walk"}
  BY DEF WalkStart, hashmap_iter
<1>2. PICK n \in Sizes : Whole(map, n) /\ (call.pc = "walk" => "pc" \in DOMAIN call)
  BY <1>1 DEF Inv, Running
<1>3. CASE WalkStart
  <2>1. call'.pc = "walk" /\ "pc" \in DOMAIN call'
    BY <1>3 DEF WalkStart
  <2> QED BY <1>1, <1>2, <2>1, InvNext DEF Running
<1>4. CASE hashmap_iter
  <2> DEFINE b == map.buckets[call.i]
             seen == IF b.dib = 0 THEN call.seen ELSE Append(call.seen, b.key)
  <2>1. CASE call' = Idle
    BY <1>1, <1>2, <2>1, Rests
  <2>2. CASE call' = [call EXCEPT !.i = @ + 1, !.seen = seen]
    <3> HIDE DEF seen
    <3>1. call'.pc = "walk" /\ "pc" \in DOMAIN call'
      BY <1>2, <1>4, <2>2 DEF hashmap_iter
    <3> QED BY <1>1, <1>2, <3>1, InvNext DEF Running
  <2> QED BY <1>4, <2>1, <2>2, Zenon DEF hashmap_iter
<1> QED
  BY <1>3, <1>4

LEMMA FreeInv == ASSUME Inv, NEW c \in AskedCap, hashmap_free(c) PROVE Inv'
<1>1. call.pc = "idle" /\ call' = call /\ map' = hashmap_new(c)
  BY DEF hashmap_free
<1>2. PICK n \in Sizes : Whole(map', n)
  BY <1>1, NewMap
<1> QED
  BY <1>1, <1>2, InvNext DEF Running

LEMMA NextInv == Inv /\ [Next]_vars => Inv'
<1> SUFFICES ASSUME Inv, [Next]_vars
             PROVE  Inv'
  OBVIOUS
<1>1. CASE Call
  BY <1>1, SetInv, GetInv, DeleteInv, ClearInv, GrowByPowerInv, WalkInv, FreeInv DEF Call
<1>2. CASE Step
  BY <1>2, SetProbeInv, ResizeNextInv, ResizeProbeInv, ResizeEndInv, GetProbeInv,
     DeleteProbeInv, DeleteShiftInv, WalkInv DEF Step
<1>3. CASE UNCHANGED vars
  <2>1. map' = map /\ call' = call
    BY <1>3 DEF vars
  <2> QED BY <2>1 DEF Inv
<1> QED
  BY <1>1, <1>2, <1>3 DEF Next

-----------------------------------------------------------------------------
(***************************************************************************)
(* What the invariant says of the table.                                   *)
(***************************************************************************)
LEMMA TableIsTable ==
    ASSUME NEW bs, NEW n, Table(bs, n)
    PROVE  IsTable(bs)
<1>0. n \in Nat /\ n >= 2 /\ n <= MaxBuckets /\ MaxBuckets \in Nat
  BY Buckets, CapAssumption
<1>1. n \in 1 .. MaxBuckets /\ DOMAIN bs = 0 .. n - 1
  BY <1>0 DEF Table
<1>2. \A i \in DOMAIN bs : bs[i] = Empty \/ bs[i] \in Item
  BY <1>1 DEF Table, Sane
<1> QED
  BY <1>1, <1>2 DEF IsTable

LEMMA SoundIsOrdered ==
    ASSUME NEW bs, NEW n, Table(bs, n), Placed(bs, n, NoHole)
    PROVE  Ordered(bs)
<1>1. Cardinality(DOMAIN bs) = n /\ n \in Nat /\ n >= 2
  BY Buckets, BucketCount
<1> SUFFICES ASSUME NEW i \in Taken(bs)
             PROVE  /\ bs[i].hash = Hash[bs[i].key]
                    /\ (Home(bs[i], n) + bs[i].dib - 1) % n = i
                    /\ \A d \in 1 .. bs[i].dib - 1 :
                         bs[(Home(bs[i], n) + d - 1) % n].dib >= d
  BY <1>1 DEF Ordered
<1>2. Sane(bs[i], n) /\ Pos(bs[i].hash, bs[i].dib, n) = i /\ Path(bs, bs[i], n, NoHole)
  BY Buckets DEF Placed
<1> DEFINE e == bs[i]
<1>3. \A d : Pos(e.hash, d, n) = (Home(e, n) + d - 1) % n
  BY DEF Pos, Home
<1>4. ASSUME NEW d \in 1 .. e.dib - 1
      PROVE  bs[Pos(e.hash, d, n)].dib >= d
  <2>1. e.dib \in 1 .. n
    BY <1>1, <1>2, SaneFacts
  <2>2. d \in 1 .. n
    BY <1>1, <2>1
  <2>3. Pos(e.hash, d, n) # NoHole
    BY <1>1, <1>2, <2>2, ProbeOf
  <2> QED BY <1>2, <2>3 DEF Path
<1>5. e.hash = Hash[e.key]
  BY <1>2 DEF Sane
<1> HIDE DEF e
<1> QED
  BY <1>2, <1>3, <1>4, <1>5 DEF e

LEMMA InvSound == Inv => TableSound
<1> SUFFICES ASSUME Inv
             PROVE  TableSound
  OBVIOUS
<1>1. PICK n \in Sizes : Running(map, call, n)
  BY DEF Inv
<1>2. Steady(map, n) /\ (call.pc # "shift" => Whole(map, n))
  BY <1>1, WholeFacts DEF Running, Shifting
<1>3. /\ NBuckets(map) = n /\ n \in Nat /\ Table(map.buckets, n) /\ Unique(map.buckets)
      /\ map.count \in Nat /\ map.growat \in Nat /\ map.count <= map.growat
      /\ map.count < n /\ Cardinality(Taken(map.buckets)) \in Nat
  BY <1>2, SteadyFacts DEF Steady
<1>4. IsTable(map.buckets)
  BY <1>3, TableIsTable
<1>5. ProbeOrder
  <2>1. call.pc # "shift" => Ordered(map.buckets)
    BY <1>2, <1>3, SoundIsOrdered DEF Whole
  <2>2. ASSUME call.pc = "resize"
        PROVE  Ordered(call.to)
    <3>1. PICK q \in Sizes : Resizing(map, call, n, q)
      BY <1>1, <2>2 DEF Running
    <3>2. Table(call.to, q) /\ Placed(call.to, q, NoHole)
      BY <3>1 DEF Resizing, Sound
    <3> QED BY <3>2, SoundIsOrdered
  <2> QED BY <1>3, <2>1, <2>2 DEF ProbeOrder, Unique
<1>6. HoleLeft
  <2>1. CASE call.pc = "shift"
    <3>1. Cardinality(Taken(map.buckets)) = map.count - 1
      BY <1>1, <2>1 DEF Running, Shifting
    <3> QED BY <1>3, <2>1, <3>1 DEF HoleLeft
  <2>2. CASE call.pc # "shift"
    <3>1. Cardinality(Taken(map.buckets)) = map.count
      BY <1>2, <2>2 DEF Whole
    <3> QED BY <1>3, <3>1 DEF HoleLeft
  <2> QED BY <2>1, <2>2
<1> QED
  BY <1>4, <1>5, <1>6 DEF TableSound

\* After any sets, deletes, clears and resizes of hashmap.c, with any hash
\* and any load limits that leave room, no key is twice in the table, every
\* entry is found from its home on, count is the number of entries and there is
\* a hole: the loops of set, get and delete, which test for nothing else, find
\* their key or stop.  The new table of a resize is in that order at every step.
THEOREM RobinHoodSound == Spec => []TableSound
<1>1. Init => Inv
  BY InitInv
<1>2. Inv /\ [Next]_vars => Inv'
  BY NextInv
<1>3. Inv => TableSound
  BY InvSound
<1> QED
  BY <1>1, <1>2, <1>3, PTL DEF Spec

-----------------------------------------------------------------------------
(***************************************************************************)
(* Sets of items as maps.                                                  *)
(***************************************************************************)

\* Items of the right kind, one for a key.
Good(V) ==
    /\ \A p \in V : p = [key |-> p.key, value |-> p.value] /\ p.key \in Key /\ p.value \in Value
    /\ \A p, q \in V : p.key = q.key => p = q

\* What the key k has.
Result(V, k) == IF k \in DOMAIN AsMap(V) THEN AsMap(V)[k] ELSE Null

LEMMA MapOf ==
    ASSUME NEW V, Good(V)
    PROVE  /\ DOMAIN AsMap(V) = {p.key : p \in V}
           /\ AsMap(V) = [k \in DOMAIN AsMap(V) |-> AsMap(V)[k]]
           /\ \A p \in V : AsMap(V)[p.key] = p.value /\ Result(V, p.key) = p.value
           /\ \A k : (\A p \in V : p.key # k) => Result(V, k) = Null
<1>1. /\ DOMAIN AsMap(V) = {p.key : p \in V}
      /\ AsMap(V) = [k \in DOMAIN AsMap(V) |-> AsMap(V)[k]]
  BY DEF AsMap
<1>2. ASSUME NEW p \in V
      PROVE  AsMap(V)[p.key] = p.value
  <2> DEFINE q == CHOOSE q \in V : q.key = p.key
  <2>1. q \in V /\ q.key = p.key
    OBVIOUS
  <2>2. AsMap(V)[p.key] = q.value
    BY DEF AsMap
  <2> QED BY <2>1, <2>2 DEF Good
<1>3. ASSUME NEW p \in V
      PROVE  Result(V, p.key) = p.value
  BY <1>1, <1>2 DEF Result
<1>4. ASSUME NEW k, \A p \in V : p.key # k
      PROVE  Result(V, k) = Null
  BY <1>1, <1>4 DEF Result
<1> QED
  BY <1>1, <1>2, <1>3, <1>4

LEMMA MapAdd ==
    ASSUME NEW V, Good(V), NEW k \in Key, NEW v \in Value, NEW W,
           W = {p \in V : p.key # k} \cup {[key |-> k, value |-> v]}
    PROVE  AsMap(W) = [x \in DOMAIN AsMap(V) \cup {k} |-> IF x = k THEN v ELSE AsMap(V)[x]]
<1>1. Good(W)
  BY DEF Good
<1>2. DOMAIN AsMap(W) = DOMAIN AsMap(V) \cup {k}
  <2>1. DOMAIN AsMap(W) = {p.key : p \in W} /\ DOMAIN AsMap(V) = {p.key : p \in V}
    BY <1>1, MapOf
  <2>2. {p.key : p \in W} = {p.key : p \in V} \cup {k}
    <3> DEFINE r == [key |-> k, value |-> v]
    <3>1. r.key = k /\ W = {p \in V : p.key # k} \cup {r}
      OBVIOUS
    <3> HIDE DEF r
    <3> QED BY <3>1
  <2> QED BY <2>1, <2>2
<1>3. AsMap(W)[k] = v
  <2>1. [key |-> k, value |-> v] \in W
    OBVIOUS
  <2> QED BY <1>1, <2>1, MapOf
<1>4. ASSUME NEW x \in DOMAIN AsMap(V), x # k
      PROVE  AsMap(W)[x] = AsMap(V)[x]
  <2>0. x \in {p.key : p \in V}
    BY MapOf
  <2>1. PICK p \in V : p.key = x
    BY <2>0
  <2>2. p \in W
    BY <1>4, <2>1
  <2>3. AsMap(V)[p.key] = p.value
    BY MapOf
  <2>4. AsMap(W)[p.key] = p.value
    BY <1>1, <2>2, MapOf
  <2> QED BY <2>1, <2>3, <2>4
<1>5. AsMap(W) = [x \in DOMAIN AsMap(W) |-> AsMap(W)[x]]
  BY <1>1, MapOf
<1> QED
  BY <1>2, <1>3, <1>4, <1>5

LEMMA MapDrop ==
    ASSUME NEW V, Good(V), NEW k, NEW W, W = {p \in V : p.key # k}
    PROVE  AsMap(W) = [x \in DOMAIN AsMap(V) \ {k} |-> AsMap(V)[x]]
<1>1. Good(W)
  BY DEF Good
<1>2. DOMAIN AsMap(W) = DOMAIN AsMap(V) \ {k}
  <2>1. DOMAIN AsMap(W) = {p.key : p \in W} /\ DOMAIN AsMap(V) = {p.key : p \in V}
    BY <1>1, MapOf
  <2>2. {p.key : p \in W} = {p.key : p \in V} \ {k}
    OBVIOUS
  <2> QED BY <2>1, <2>2
<1>3. ASSUME NEW x \in DOMAIN AsMap(V) \ {k}
      PROVE  AsMap(W)[x] = AsMap(V)[x]
  <2>0. x \in {p.key : p \in V}
    BY MapOf
  <2>1. PICK p \in V : p.key = x
    BY <2>0
  <2>2. p \in W
    BY <1>3, <2>1
  <2>3. AsMap(V)[p.key] = p.value
    BY MapOf
  <2>4. AsMap(W)[p.key] = p.value
    BY <1>1, <2>2, MapOf
  <2> QED BY <2>1, <2>3, <2>4
<1>4. AsMap(W) = [x \in DOMAIN AsMap(W) |-> AsMap(W)[x]]
  BY <1>1, MapOf
<1> QED
  BY <1>2, <1>3, <1>4

-----------------------------------------------------------------------------
(***************************************************************************)
(* The items of a table.                                                   *)
(***************************************************************************)
AllItems(bs) == Items(bs, Taken(bs))
AllKeys(bs) == KeysIn(bs, Taken(bs))

\* Those outside bucket i, and the one in it.
Others(bs, i) == Items(bs, Taken(bs) \ {i})
Held(b) == IF b.dib = 0 THEN {} ELSE {ItemOf(b)}

LEMMA ItemFields ==
    ASSUME NEW e
    PROVE  /\ ItemOf(e).key = e.key /\ ItemOf(e).value = e.value
           /\ ItemOf(e) = [key |-> e.key, value |-> e.value]
  BY DEF ItemOf

LEMMA ItemsGood ==
    ASSUME NEW bs, NEW n, Table(bs, n), Unique(bs)
    PROVE  Good(AllItems(bs))
<1>1. \A i \in Taken(bs) : bs[i].key \in Key /\ bs[i].value \in Value
  <2> SUFFICES ASSUME NEW i \in Taken(bs)
               PROVE  bs[i].key \in Key /\ bs[i].value \in Value
    OBVIOUS
  <2>1. Sane(bs[i], n) /\ n \in Nat
    BY Buckets
  <2> QED BY <2>1, SaneFacts
<1>2. ASSUME NEW p \in AllItems(bs)
      PROVE  p = [key |-> p.key, value |-> p.value] /\ p.key \in Key /\ p.value \in Value
  <2>1. PICK i \in Taken(bs) : p = ItemOf(bs[i])
    BY DEF AllItems, Items
  <2> QED BY <1>1, <2>1, ItemFields
<1>3. ASSUME NEW p \in AllItems(bs), NEW q \in AllItems(bs), p.key = q.key
      PROVE  p = q
  <2>1. PICK i \in Taken(bs), j \in Taken(bs) : p = ItemOf(bs[i]) /\ q = ItemOf(bs[j])
    BY DEF AllItems, Items
  <2>2. bs[i].key = bs[j].key
    BY <1>3, <2>1, ItemFields
  <2>3. i = j
    BY <2>2 DEF Unique
  <2> QED BY <2>1, <2>3
<1> QED
  BY <1>2, <1>3 DEF Good

LEMMA KeysOfItems ==
    ASSUME NEW bs, NEW S
    PROVE  /\ \A k : k \in KeysIn(bs, S) <=> \E p \in Items(bs, S) : p.key = k
           /\ {p.key : p \in Items(bs, S)} = KeysIn(bs, S)
<1>1. \A i \in S : ItemOf(bs[i]).key = bs[i].key
  BY ItemFields
<1> QED
  BY <1>1 DEF KeysIn, Items

LEMMA ItemsApart ==
    ASSUME NEW bs, NEW n, Table(bs, n), NEW i \in 0 .. n - 1
    PROVE  AllItems(bs) = Others(bs, i) \cup Held(bs[i])
<1>1. i \in Taken(bs) <=> bs[i].dib # 0
  BY Buckets
<1> QED
  BY <1>1 DEF AllItems, Others, Items, Held

\* What a write to bucket i does to them.
LEMMA ItemsWritten ==
    ASSUME NEW bs, NEW n, Table(bs, n), NEW i \in 0 .. n - 1, NEW x, x = Empty \/ Sane(x, n)
    PROVE  AllItems(With(bs, i, x)) = Others(bs, i) \cup Held(x)
<1> DEFINE t == With(bs, i, x)
<1>1. Updated(t, bs, n, i, x)
  BY Update
<1> HIDE DEF t
<1>2. /\ Table(t, n) /\ t[i] = x /\ (\A j \in 0 .. n - 1 : j # i => t[j] = bs[j])
      /\ Taken(t) = IF x.dib = 0 THEN Taken(bs) \ {i} ELSE Taken(bs) \cup {i}
  BY <1>1 DEF Updated
<1>3. Taken(bs) \subseteq 0 .. n - 1
  BY Buckets
<1>4. Others(t, i) = Others(bs, i)
  <2>1. Taken(t) \ {i} = Taken(bs) \ {i}
    BY <1>2
  <2>2. \A j \in Taken(bs) \ {i} : t[j] = bs[j]
    BY <1>2, <1>3
  <2> QED BY <2>1, <2>2 DEF Others, Items
<1>5. AllItems(t) = Others(t, i) \cup Held(t[i])
  BY <1>2, ItemsApart
<1> QED
  BY <1>2, <1>4, <1>5 DEF t

\* An entry taken out of bucket i leaves the items with other keys.
LEMMA OthersDiffer ==
    ASSUME NEW bs, NEW n, Table(bs, n), Unique(bs), NEW i \in 0 .. n - 1, bs[i].dib # 0
    PROVE  /\ Others(bs, i) = {p \in AllItems(bs) : p.key # bs[i].key}
           /\ ItemOf(bs[i]) \in AllItems(bs)
<1>1. i \in Taken(bs)
  BY Buckets
<1>2. ASSUME NEW j \in Taken(bs)
      PROVE  ItemOf(bs[j]).key # bs[i].key <=> j # i
  BY <1>1, ItemFields DEF Unique
<1>3. Others(bs, i) = {p \in AllItems(bs) : p.key # bs[i].key}
  BY <1>2 DEF Others, AllItems, Items
<1> QED
  BY <1>1, <1>3 DEF AllItems, Items

LEMMA FurtherItem ==
    ASSUME NEW n \in Nat, NEW e, Sane(e, n)
    PROVE  ItemOf(Further(e)) = ItemOf(e) /\ Further(e).key = e.key
<1>1. Further(e).key = e.key /\ Further(e).value = e.value
  BY DEF Sane, Item, Further
<1> QED
  BY <1>1 DEF ItemOf

\* A probe that goes on keeps the items of the table and the one in hand.
LEMMA ItemsGoOn ==
    ASSUME NEW bs, NEW n, Table(bs, n), NEW e, Sane(e, n), NEW i \in 0 .. n - 1, bs[i].dib # 0
    PROVE  LET t == With(bs, i, Stays(bs[i], e))
               f == Further(Carried(bs[i], e))
           IN  /\ AllItems(t) \cup {ItemOf(f)} = AllItems(bs) \cup {ItemOf(e)}
               /\ f.key = e.key => t = bs \/ bs[i].key = e.key
               /\ f.key # e.key => f.key = bs[i].key /\ ItemOf(e) \in AllItems(t)
                                                    /\ bs[i].dib < e.dib
<1> DEFINE b == bs[i]
           t == With(bs, i, Stays(b, e))
           f == Further(Carried(b, e))
<1>1. Sane(b, n) /\ n \in Nat
  BY Buckets
<1>2. e.dib # 0 /\ b.dib # 0
  BY <1>1, SaneFacts
<1>3. AllItems(bs) = Others(bs, i) \cup {ItemOf(b)}
  <2> HIDE DEF t, f
  <2> QED BY <1>2, ItemsApart DEF Held
<1>4. CASE b.dib < e.dib
  <2>1. Stays(b, e) = e /\ Carried(b, e) = b
    BY <1>4 DEF Stays, Carried, Displaces
  <2>2. AllItems(With(bs, i, e)) = Others(bs, i) \cup Held(e)
    BY ItemsWritten
  <2>3. Held(e) = {ItemOf(e)}
    BY <1>2 DEF Held
  <2> HIDE DEF b
  <2>4. ItemOf(f) = ItemOf(b) /\ f.key = b.key
    BY <1>1, <2>1, FurtherItem
  <2> HIDE DEF f
  <2>5. t = With(bs, i, e)
    BY <2>1
  <2> HIDE DEF t
  <2>6. /\ AllItems(t) \cup {ItemOf(f)} = AllItems(bs) \cup {ItemOf(e)}
        /\ ItemOf(e) \in AllItems(t)
    BY <1>3, <2>2, <2>3, <2>4, <2>5
  <2> QED BY <1>4, <2>4, <2>6 DEF b, t, f
<1>5. CASE ~ (b.dib < e.dib)
  <2>1. Stays(b, e) = b /\ Carried(b, e) = e
    BY <1>5 DEF Stays, Carried, Displaces
  <2>2. With(bs, i, b) = bs
    BY DEF With, Table
  <2>3. ItemOf(f) = ItemOf(e) /\ f.key = e.key
    BY <1>1, <2>1, FurtherItem
  <2>4. t = bs
    BY <2>1, <2>2
  <2> HIDE DEF b, t, f
  <2>5. AllItems(t) \cup {ItemOf(f)} = AllItems(bs) \cup {ItemOf(e)}
    BY <2>3, <2>4
  <2> QED BY <2>3, <2>4, <2>5 DEF b, t, f
<1> QED
  BY <1>4, <1>5

\* The entry behind the hole keeps its item when it moves.
LEMMA ItemsShift ==
    ASSUME NEW bs, NEW n, Table(bs, n), NEW h \in 0 .. n - 1, bs[h] = Empty,
           NEW k \in 0 .. n - 1, k # h, bs[k].dib # 0,
           NEW c, Sane(c, n), ItemOf(c) = ItemOf(bs[k])
    PROVE  AllItems(With(With(bs, h, c), k, Empty)) = AllItems(bs)
<1> DEFINE s == With(bs, h, c)
<1>1. Updated(s, bs, n, h, c)
  BY Update
<1>2. AllItems(s) = Others(bs, h) \cup Held(c)
  BY ItemsWritten
<1>3. c.dib # 0 /\ Empty.dib = 0
  BY Buckets, SaneFacts DEF Empty
<1> HIDE DEF s
<1>4. /\ Table(s, n) /\ s[h] = c /\ (\A j \in 0 .. n - 1 : j # h => s[j] = bs[j])
      /\ Taken(s) = Taken(bs) \cup {h}
  BY <1>1, <1>3 DEF Updated
<1>5. AllItems(With(s, k, Empty)) = Others(s, k) \cup Held(Empty)
  BY <1>4, ItemsWritten
<1>6. Taken(bs) \subseteq 0 .. n - 1 /\ h \notin Taken(bs) /\ k \in Taken(bs)
  <2>1. Taken(bs) \subseteq 0 .. n - 1 /\ (h \in Taken(bs) <=> bs[h].dib # 0)
    BY Buckets
  <2>2. k \in Taken(bs) <=> bs[k].dib # 0
    BY Buckets
  <2> QED BY <1>3, <2>1, <2>2
<1>7. Others(s, k) = Others(bs, k) \cup {ItemOf(c)}
  <2>1. Taken(s) \ {k} = (Taken(bs) \ {k}) \cup {h}
    BY <1>4
  <2>2. \A j \in Taken(bs) \ {k} : s[j] = bs[j]
    BY <1>4, <1>6
  <2> QED BY <1>4, <2>1, <2>2 DEF Others, Items
<1>8. AllItems(bs) = Others(bs, k) \cup {ItemOf(bs[k])}
  BY ItemsApart DEF Held
<1>9. Held(Empty) = {}
  BY <1>3 DEF Held
<1> QED
  BY <1>5, <1>7, <1>8, <1>9 DEF s

-----------------------------------------------------------------------------
(***************************************************************************)
(* What the call in progress has to do with the items.  A set that has put *)
(* its item away has another one in hand, with a key of its own.  A resize *)
(* has moved the items below its index.  A search has met other keys only, *)
(* and no hole.  The item that a delete returns is no longer in the table. *)
(***************************************************************************)
Putting(m, c) ==
    /\ c.key \in Key /\ m.oom = FALSE
    /\ c.hand.key # c.key => /\ c.key \in AllKeys(m.buckets)
                             /\ c.hand.key \notin AllKeys(m.buckets)

MovedBy(bs, c) == IF c.hand.dib = 0 THEN Below(bs, c.i) ELSE Below(bs, c.i + 1)

Moving(m, c) ==
    /\ c.key \in Key
    /\ AllItems(c.to) \cup InHand(c) = Items(m.buckets, MovedBy(m.buckets, c))
    /\ c.then = "set" => m.oom = FALSE
    /\ c.then = "delete" => c.item \in Value /\ c.key \notin AllKeys(m.buckets)

Sought(bs, k, d, n) ==
    \A x \in 1 .. d - 1 : /\ bs[Pos(Hash[k], x, n)].dib # 0
                          /\ bs[Pos(Hash[k], x, n)].key # k

Seeking(bs, c, n) ==
    /\ c.key \in Key
    /\ \E d \in 1 .. n : Pos(Hash[c.key], d, n) = c.i /\ Sought(bs, c.key, d, n)

Removing(bs, c) == c.key \in Key /\ c.item \in Value /\ c.key \notin AllKeys(bs)

Walking(bs, c, n) ==
    /\ DOMAIN c = {"pc", "i", "seen"}
    /\ c.i \in 0 .. n /\ c.seen \in Seq(Key)
    /\ Len(c.seen) = Cardinality(Below(bs, c.i))
    /\ {c.seen[j] : j \in DOMAIN c.seen} = KeysIn(bs, Below(bs, c.i))

Told(m, c) ==
    /\ c.pc = "set" => Putting(m, c)
    /\ c.pc = "resize" => Moving(m, c)
    /\ c.pc \in {"get", "delete"} => Seeking(m.buckets, c, NBuckets(m))
    /\ c.pc = "shift" => Removing(m.buckets, c)
    /\ c.pc = "walk" => Walking(m.buckets, c, NBuckets(m))

LEMMA VisibleTable ==
    ASSUME NEW bs, NEW c, c.pc \in {"idle", "get", "delete", "walk"}
    PROVE  Visible(bs, c) = AllItems(bs)
  BY DEF Visible, AllItems

LEMMA VisibleSet ==
    ASSUME NEW bs, NEW c, c.pc = "set"
    PROVE  /\ c.hand.key = c.key => Visible(bs, c) = AllItems(bs)
           /\ c.hand.key # c.key =>
                Visible(bs, c) = {p \in AllItems(bs) \cup InHand(c) : p.key # c.key}
  BY DEF Visible, AllItems

LEMMA VisibleShift ==
    ASSUME NEW bs, NEW c, c.pc = "shift"
    PROVE  Visible(bs, c) = AllItems(bs) \cup Removed(c)
  BY DEF Visible, AllItems

\* What a resize has not moved, it has still to move.
LEMMA VisibleResize ==
    ASSUME NEW bs, NEW n, Table(bs, n), NEW c, c.pc = "resize", c.i \in 0 .. n,
           AllItems(c.to) \cup InHand(c) = Items(bs, MovedBy(bs, c))
    PROVE  Visible(bs, c) = AllItems(bs) \cup (IF c.then = "delete" THEN Removed(c) ELSE {})
<1> DEFINE rest == {i \in Taken(bs) : i > c.i \/ (i = c.i /\ c.hand.dib = 0)}
           gone == IF c.then = "delete" THEN Removed(c) ELSE {}
<1>1. Visible(bs, c) = Items(bs, rest) \cup AllItems(c.to) \cup InHand(c) \cup gone
  BY Zenon DEF Visible, AllItems
<1>2. Taken(bs) = rest \cup MovedBy(bs, c)
  <2>1. n \in Nat /\ Taken(bs) \subseteq 0 .. n - 1
    BY Buckets
  <2> QED BY <2>1 DEF MovedBy, Below
<1> HIDE DEF rest, gone
<1>3. AllItems(bs) = Items(bs, rest) \cup Items(bs, MovedBy(bs, c))
  BY <1>2 DEF AllItems, Items
<1> QED
  BY <1>1, <1>3 DEF gone

\* One more item, with a key that is not there.
LEMMA GoodWith ==
    ASSUME NEW V, Good(V), NEW p, p = [key |-> p.key, value |-> p.value],
           p.key \in Key, p.value \in Value, \A q \in V : q.key # p.key
    PROVE  Good(V \cup {p})
  BY DEF Good

LEMMA RemovedGood ==
    ASSUME NEW bs, NEW n, Table(bs, n), Unique(bs), NEW c, Removing(bs, c)
    PROVE  /\ Good(AllItems(bs) \cup Removed(c))
           /\ AllItems(bs) = {p \in AllItems(bs) \cup Removed(c) : p.key # c.key}
           /\ Result(AllItems(bs) \cup Removed(c), c.key) = c.item
<1> DEFINE r == [key |-> c.key, value |-> c.item]
<1>1. /\ r = [key |-> r.key, value |-> r.value] /\ r.key = c.key /\ r.value = c.item
      /\ r.key \in Key /\ r.value \in Value /\ Removed(c) = {r}
  BY DEF Removing, Removed
<1> HIDE DEF r
<1>2. \A q \in AllItems(bs) : q.key # r.key
  <2>1. r.key \notin KeysIn(bs, Taken(bs))
    BY <1>1 DEF Removing, AllKeys
  <2>2. \A q \in Items(bs, Taken(bs)) : q.key # r.key
    BY <2>1, KeysOfItems
  <2> QED BY <2>2 DEF AllItems
<1>3. Good(AllItems(bs))
  BY ItemsGood
<1>4. Good(AllItems(bs) \cup {r})
  BY <1>1, <1>2, <1>3, GoodWith
<1>5. AllItems(bs) = {p \in AllItems(bs) \cup {r} : p.key # c.key}
  BY <1>1, <1>2
<1>6. Result(AllItems(bs) \cup {r}, r.key) = r.value
  BY <1>4, MapOf
<1> QED
  BY <1>1, <1>4, <1>5, <1>6

LEMMA VisibleGood ==
    ASSUME Inv, Told(map, call)
    PROVE  Good(Visible(map.buckets, call))
<1> DEFINE bs == map.buckets
<1>1. PICK n \in Sizes : Running(map, call, n)
  BY DEF Inv
<1>2. Table(bs, n) /\ Unique(bs) /\ n \in Nat
  BY <1>1, WholeFacts, SteadyFacts DEF Running, Shifting, Sound, Steady
<1>3. Good(AllItems(bs))
  BY <1>2, ItemsGood
<1> HIDE DEF bs
<1>4. CASE call.pc \in {"idle", "get", "delete", "walk"}
  BY <1>3, <1>4, VisibleTable DEF bs
<1>5. CASE call.pc = "set"
  <2>1. CASE call.hand.key = call.key
    BY <1>3, <1>5, <2>1, VisibleSet DEF bs
  <2>2. CASE call.hand.key # call.key
    <3>1. Sane(call.hand, n)
      BY <1>1, <1>5 DEF Running, Setting, Ready
    <3> DEFINE p == ItemOf(call.hand)
    <3>2. /\ p = [key |-> p.key, value |-> p.value] /\ p.key \in Key /\ p.value \in Value
          /\ p.key = call.hand.key /\ InHand(call) = {p}
      BY <1>2, <3>1, SaneFacts, ItemFields DEF InHand
    <3> HIDE DEF p
    <3>3. \A q \in AllItems(bs) : q.key # p.key
      <4>1. p.key \notin KeysIn(bs, Taken(bs))
        BY <1>5, <2>2, <3>2 DEF Told, Putting, AllKeys, bs
      <4> QED BY <4>1, KeysOfItems DEF AllItems
    <3>4. Good(AllItems(bs) \cup InHand(call))
      BY <1>3, <3>2, <3>3, GoodWith
    <3>5. Visible(bs, call) = {q \in AllItems(bs) \cup InHand(call) : q.key # call.key}
      BY <1>5, <2>2, VisibleSet
    <3> QED BY <3>4, <3>5 DEF Good, bs
  <2> QED BY <2>1, <2>2
<1>6. CASE call.pc = "resize"
  <2>1. /\ call.i \in 0 .. n /\ Moving(map, call)
        /\ AllItems(call.to) \cup InHand(call) = Items(bs, MovedBy(bs, call))
    BY <1>1, <1>6 DEF Running, Resizing, Told, Moving, bs
  <2>2. Visible(bs, call) = AllItems(bs) \cup (IF call.then = "delete" THEN Removed(call) ELSE {})
    BY <1>2, <1>6, <2>1, VisibleResize
  <2>3. CASE call.then = "delete"
    <3>1. Removing(bs, call)
      BY <2>1, <2>3 DEF Moving, Removing, bs
    <3> QED BY <1>2, <2>2, <2>3, <3>1, RemovedGood DEF bs
  <2>4. CASE call.then # "delete"
    BY <1>3, <2>2, <2>4 DEF bs
  <2> QED BY <2>3, <2>4
<1>7. CASE call.pc = "shift"
  <2>1. Removing(bs, call)
    BY <1>7 DEF Told, bs
  <2> QED BY <1>2, <1>7, <2>1, VisibleShift, RemovedGood DEF bs
<1>8. call.pc \in {"idle", "get", "delete", "walk", "set", "resize", "shift"}
  BY <1>1 DEF Running
<1> QED
  BY <1>4, <1>5, <1>6, <1>7, <1>8

-----------------------------------------------------------------------------
(***************************************************************************)
(* What a step does to the items V that can be seen, and to the answer.    *)
(***************************************************************************)
Answer(op, k, item, oom) == [op |-> op, key |-> k, item |-> item, oom |-> oom]

Outcome(V, W, r, s) ==
    \/ W = V /\ s = r
    \/ \E k \in Key, v \in Value :
         /\ W = {p \in V : p.key # k} \cup {[key |-> k, value |-> v]}
         /\ s = Answer("set", k, Result(V, k), FALSE)
    \/ \E k \in Key : W = V /\ s = Answer("set", k, Null, TRUE)
    \/ \E k \in Key : \E o : W = V /\ s = Answer("get", k, Result(V, k), o)
    \/ \E k \in Key : \E o :
         W = {p \in V : p.key # k} /\ s = Answer("delete", k, Result(V, k), o)
    \/ W = {} /\ s \in {[op |-> "clear"], [op |-> "free"]}

Faithful ==
    /\ Told(map', call')
    /\ Outcome(Visible(map.buckets, call), Visible(map'.buckets, call'), ret, ret')

\* A step that nobody sees.
LEMMA Unseen ==
    ASSUME Told(map', call'), Visible(map'.buckets, call') = Visible(map.buckets, call), ret' = ret
    PROVE  Faithful
  BY DEF Faithful, Outcome

LEMMA Resting ==
    ASSUME call' = Idle
    PROVE  Told(map', call') /\ Visible(map'.buckets, call') = AllItems(map'.buckets)
<1>1. call'.pc = "idle"
  BY DEF Idle
<1> QED
  BY <1>1, VisibleTable DEF Told

LEMMA NothingIn ==
    ASSUME NEW n \in Sizes
    PROVE  AllItems(NoBuckets(n)) = {}
  BY FreshTable DEF AllItems, Items

\* A resize that starts has moved nothing.
LEMMA StartsMoving ==
    ASSUME NEW bs, NEW n, Table(bs, n), NEW a, RoundCap(a) \in Sizes, NEW then, NEW k, NEW item
    PROVE  LET c == StartResize(a, then, k, item)
           IN  /\ c.pc = "resize" /\ c.then = then /\ c.key = k /\ c.item = item
               /\ AllItems(c.to) \cup InHand(c) = Items(bs, MovedBy(bs, c))
               /\ Visible(bs, c)
                    = AllItems(bs) \cup
                        (IF then = "delete" THEN {[key |-> k, value |-> item]} ELSE {})
<1> DEFINE c == StartResize(a, then, k, item)
<1>1. /\ c.pc = "resize" /\ c.then = then /\ c.key = k /\ c.item = item
      /\ c.to = NoBuckets(RoundCap(a)) /\ c.i = 0 /\ c.hand = Empty
  BY DEF StartResize
<1> HIDE DEF c
<1>2. AllItems(c.to) = {} /\ InHand(c) = {}
  BY <1>1, NothingIn DEF InHand, Empty
<1>3. n \in Nat /\ Taken(bs) \subseteq 0 .. n - 1
  BY Buckets
<1>4. Below(bs, 0) = {}
  BY <1>3 DEF Below
<1>5. MovedBy(bs, c) = {}
  BY <1>1, <1>4 DEF MovedBy, Empty
<1>6. AllItems(c.to) \cup InHand(c) = Items(bs, MovedBy(bs, c))
  BY <1>2, <1>5 DEF Items
<1>7. c.i \in 0 .. n
  BY <1>1, <1>3
<1>8. Visible(bs, c) = AllItems(bs) \cup (IF c.then = "delete" THEN Removed(c) ELSE {})
  BY <1>1, <1>6, <1>7, VisibleResize
<1> QED
  BY <1>1, <1>6, <1>8 DEF Removed, c

LEMMA StartsPutting ==
    ASSUME NEW m, m.oom = FALSE, NEW k \in Key, NEW v, NEW p
    PROVE  LET c == StartSet(k, v, p)
           IN  Told(m, c) /\ Visible(m.buckets, c) = AllItems(m.buckets)
<1> DEFINE c == StartSet(k, v, p)
<1>1. c.pc = "set" /\ c.key = k /\ c.hand.key = k
  BY DEF StartSet, Entry
<1> HIDE DEF c
<1>2. Told(m, c)
  BY <1>1 DEF Told, Putting
<1>3. Visible(m.buckets, c) = AllItems(m.buckets)
  BY <1>1, VisibleSet
<1> QED
  BY <1>2, <1>3 DEF c

LEMMA SetTold ==
    ASSUME Inv, Told(map, call), NEW k \in Key, NEW v \in Value, hashmap_set(k, v)
    PROVE  Faithful
<1>1. call.pc = "idle"
  BY DEF hashmap_set
<1>2. PICK n \in Sizes : Whole(map, n)
  BY <1>1, AtRest
<1> DEFINE a == Doubled(NBuckets(map), map.growpower)
<1>3. /\ NBuckets(map) = n /\ map.growpower \in Nat \ {0} /\ Table(map.buckets, n)
      /\ DOMAIN map = {"buckets", "cap", "count", "growat", "shrinkat", "growpower", "oom"}
  BY <1>2, WholeFacts DEF Steady
<1>4. Visible(map.buckets, call) = AllItems(map.buckets)
  BY <1>1, VisibleTable
<1>5. CASE /\ map' = [map EXCEPT !.oom = TRUE] /\ call' = Idle
           /\ ret' = [op |-> "set", key |-> k, item |-> Null, oom |-> map'.oom]
  <2>1. map'.buckets = map.buckets /\ map'.oom = TRUE
    BY <1>3, <1>5
  <2>2. Told(map', call') /\ Visible(map'.buckets, call') = AllItems(map.buckets)
    BY <1>5, <2>1, Resting
  <2>3. ret' = Answer("set", k, Null, TRUE)
    BY <1>5, <2>1 DEF Answer
  <2> QED BY <1>4, <2>2, <2>3 DEF Faithful, Outcome
<1>6. CASE /\ CanResize(a) /\ map' = [map EXCEPT !.oom = FALSE] /\ ret' = ret
           /\ call' = StartResize(a, "set", k, v)
  <2>1. map'.buckets = map.buckets /\ map'.oom = FALSE
    BY <1>3, <1>6
  <2>2. RoundCap(a) \in Sizes
    BY <1>3, <1>6, Grown
  <2> HIDE DEF a
  <2>3. /\ call'.pc = "resize" /\ call'.then = "set" /\ call'.key = k
        /\ AllItems(call'.to) \cup InHand(call') = Items(map.buckets, MovedBy(map.buckets, call'))
        /\ Visible(map.buckets, call') = AllItems(map.buckets)
    <3> DEFINE c == StartResize(a, "set", k, v)
               none == IF "set" = "delete" THEN {[key |-> k, value |-> v]} ELSE {}
    <3>1. /\ c.pc = "resize" /\ c.then = "set" /\ c.key = k
          /\ AllItems(c.to) \cup InHand(c) = Items(map.buckets, MovedBy(map.buckets, c))
          /\ Visible(map.buckets, c) = AllItems(map.buckets) \cup none
      BY <1>3, <2>2, StartsMoving
    <3>2. none = {} /\ call' = c
      BY <1>6
    <3> HIDE DEF c, none
    <3> QED BY <3>1, <3>2
  <2>4. Told(map', call')
    BY <2>1, <2>3 DEF Told, Moving
  <2> QED BY <1>4, <1>6, <2>1, <2>3, <2>4, Unseen
<1>7. CASE /\ map' = [map EXCEPT !.oom = FALSE] /\ ret' = ret /\ call' = StartSet(k, v, map)
  <2>1. map'.buckets = map.buckets /\ map'.oom = FALSE
    BY <1>3, <1>7
  <2>2. Told(map', call') /\ Visible(map'.buckets, call') = AllItems(map'.buckets)
    BY <1>7, <2>1, StartsPutting
  <2> QED BY <1>4, <1>7, <2>1, <2>2, Unseen
<1> QED
  BY <1>5, <1>6, <1>7, Zenon DEF hashmap_set, Return

\* The item in hand lands in a hole and is one more.
LEMMA ItemsLand ==
    ASSUME NEW bs, NEW n, Table(bs, n), NEW e, Sane(e, n), NEW i \in 0 .. n - 1, bs[i].dib = 0
    PROVE  AllItems(With(bs, i, e)) = AllItems(bs) \cup {ItemOf(e)}
<1>1. AllItems(With(bs, i, e)) = Others(bs, i) \cup Held(e)
  BY ItemsWritten
<1>2. AllItems(bs) = Others(bs, i) \cup Held(bs[i])
  BY ItemsApart
<1>3. e.dib # 0
  BY Buckets, SaneFacts
<1> QED
  BY <1>1, <1>2, <1>3 DEF Held

\* A set that ends in a hole has added its item, whichever one it was that
\* landed there.
LEMMA SetAdds ==
    ASSUME NEW bs, NEW c, c.pc = "set", c.key \in Key, InHand(c) = {ItemOf(c.hand)},
           Good(AllItems(bs) \cup InHand(c)),
           c.hand.key # c.key => c.key \in AllKeys(bs),
           c.hand.key \notin AllKeys(bs)
    PROVE  LET V == Visible(bs, c)
               W == AllItems(bs) \cup InHand(c)
           IN  /\ \E v \in Value : W = {p \in V : p.key # c.key} \cup {[key |-> c.key, value |-> v]}
               /\ Result(V, c.key) = Null
<1> DEFINE V == Visible(bs, c)
           W == AllItems(bs) \cup InHand(c)
           h == ItemOf(c.hand)
<1>1. h.key = c.hand.key /\ h \in W /\ W = AllItems(bs) \cup {h}
  BY ItemFields
<1>2. \A q \in AllItems(bs) : q.key # h.key
  BY <1>1, KeysOfItems DEF AllItems, AllKeys
<1>3. V = {p \in W : p.key # c.key}
  <2>1. CASE c.hand.key = c.key
    <3>1. V = AllItems(bs)
      BY <2>1, VisibleSet
    <3> HIDE DEF V, W, h
    <3> QED BY <1>1, <1>2, <2>1, <3>1
  <2>2. CASE c.hand.key # c.key
    BY <2>2, VisibleSet
  <2> QED BY <2>1, <2>2
<1>4. PICK r \in W : r.key = c.key
  <2>1. CASE c.hand.key = c.key
    BY <1>1, <2>1
  <2>2. CASE c.hand.key # c.key
    BY <2>2, KeysOfItems DEF AllItems, AllKeys
  <2> QED BY <2>1, <2>2
<1> HIDE DEF V, W, h
<1>5. Good(W)
  BY DEF W
<1>6. r = [key |-> c.key, value |-> r.value] /\ r.value \in Value
  BY <1>4, <1>5 DEF Good
<1>7. W = {p \in V : p.key # c.key} \cup {r}
  BY <1>3, <1>4, <1>5 DEF Good
<1>8. W = {p \in V : p.key # c.key} \cup {[key |-> c.key, value |-> r.value]}
  BY <1>6, <1>7
<1>9. Good(V)
  BY <1>3, <1>5 DEF Good
<1>10. Result(V, c.key) = Null
  BY <1>3, <1>9, MapOf
<1> QED
  BY <1>6, <1>8, <1>10 DEF V, W

\* A set that goes on shows the same items: its own stays hidden, in the table
\* or in hand.
LEMMA SetGoesOn ==
    ASSUME NEW bs, NEW t, NEW c, c.pc = "set", NEW d, d.pc = "set", d.key = c.key,
           InHand(c) = {ItemOf(c.hand)}, InHand(d) = {ItemOf(d.hand)},
           AllItems(t) \cup {ItemOf(d.hand)} = AllItems(bs) \cup {ItemOf(c.hand)},
           c.hand.key # c.key => c.key \in AllKeys(bs) /\ c.hand.key \notin AllKeys(bs),
           c.hand.key \notin AllKeys(bs) => d.hand.key \notin AllKeys(t),
           d.hand.key = c.hand.key => t = bs,
           d.hand.key # c.hand.key => /\ c.hand.key \notin AllKeys(bs)
                                      /\ c.hand.key \in AllKeys(t)
    PROVE  /\ Visible(t, d) = Visible(bs, c)
           /\ d.hand.key # d.key => d.key \in AllKeys(t) /\ d.hand.key \notin AllKeys(t)
<1> DEFINE e == ItemOf(c.hand)
           f == ItemOf(d.hand)
           k == c.key
<1>1. e.key = c.hand.key /\ f.key = d.hand.key
  BY ItemFields
<1>2. /\ \A x : x \in AllKeys(bs) <=> \E p \in AllItems(bs) : p.key = x
      /\ \A x : x \in AllKeys(t) <=> \E p \in AllItems(t) : p.key = x
  BY KeysOfItems DEF AllItems, AllKeys
<1>3. /\ c.hand.key = c.key => Visible(bs, c) = AllItems(bs)
      /\ c.hand.key # c.key => Visible(bs, c) = {p \in AllItems(bs) \cup {e} : p.key # k}
  BY VisibleSet
<1>4. /\ d.hand.key = d.key => Visible(t, d) = AllItems(t)
      /\ d.hand.key # d.key => Visible(t, d) = {p \in AllItems(t) \cup {f} : p.key # k}
  BY VisibleSet
<1>5. AllItems(t) \cup {f} = AllItems(bs) \cup {e}
  OBVIOUS
<1> HIDE DEF e, f, k
<1>6. CASE c.hand.key = c.key /\ d.hand.key = c.key
  BY <1>3, <1>4, <1>6
<1>7. CASE c.hand.key = c.key /\ d.hand.key # c.key
  <2>1. \A p \in AllItems(bs) : p.key # k
    BY <1>2, <1>7 DEF k
  <2>2. {p \in AllItems(bs) \cup {e} : p.key # k} = AllItems(bs)
    BY <1>1, <1>7, <2>1 DEF k
  <2> QED BY <1>3, <1>4, <1>5, <1>7, <2>2
<1>8. CASE c.hand.key # c.key /\ d.hand.key = c.key
  <2>1. \A p \in AllItems(t) : p.key # k
    BY <1>2, <1>8 DEF k
  <2>2. {p \in AllItems(t) \cup {f} : p.key # k} = AllItems(t)
    BY <1>1, <1>8, <2>1 DEF k
  <2> QED BY <1>3, <1>4, <1>5, <1>8, <2>2
<1>9. CASE c.hand.key # c.key /\ d.hand.key # c.key
  <2>1. Visible(t, d) = Visible(bs, c)
    BY <1>3, <1>4, <1>5, <1>9
  <2>2. PICK p \in AllItems(bs) : p.key = k
    BY <1>2, <1>9 DEF k
  <2>3. p \in AllItems(t)
    BY <1>1, <1>5, <1>9, <2>2 DEF k
  <2>4. k \in AllKeys(t)
    BY <1>2, <2>2, <2>3
  <2> QED BY <1>9, <2>1, <2>4 DEF k
<1> QED
  BY <1>6, <1>7, <1>8, <1>9

LEMMA SetProbeTold == ASSUME Inv, Told(map, call), SetProbe PROVE Faithful
<1> DEFINE i == call.i
           e == call.hand
           bs == map.buckets
           b == bs[i]
           V == Visible(bs, call)
<1>1. call.pc = "set"
  BY DEF SetProbe
<1>2. PICK n \in Sizes : Whole(map, n) /\ Setting(map, call, n)
  BY <1>1 DEF Inv, Running
<1>3. /\ Sound(bs, n) /\ Steady(map, n) /\ NBuckets(map) = n /\ n \in Nat /\ n >= 2
      /\ Cardinality(Taken(bs)) < n
  BY <1>2, WholeFacts
<1>4. /\ Ready(bs, e, n, i) /\ i \in 0 .. n - 1 /\ Sane(e, n) /\ Table(bs, n) /\ Unique(bs)
      /\ DOMAIN call = {"pc", "key", "hand", "i"}
  BY <1>2, <1>3 DEF Setting, Ready, Sound
<1>5. e.dib \in 1 .. n /\ e.hash = Hash[e.key] /\ e.value \in Value /\ e.dib # 0
  BY <1>3, <1>4, SaneFacts
<1>6. b.dib \in 0 .. n /\ (b.dib # 0 => Sane(b, n))
  BY <1>4, Buckets
<1>7. /\ call.key \in Key /\ map.oom = FALSE /\ InHand(call) = {ItemOf(e)}
      /\ e.key # call.key => call.key \in AllKeys(bs) /\ e.key \notin AllKeys(bs)
  BY <1>1, <1>5 DEF Told, Putting, InHand
<1>8. ASSUME b.dib < e.dib, b.dib # 0 => b.key # e.key
      PROVE  e.key \notin AllKeys(bs)
  BY <1>3, <1>4, <1>8, KeyIsNew DEF AllKeys, KeysIn
<1>9. CASE /\ b.dib = 0 /\ call' = Idle
           /\ map' = [map EXCEPT !.buckets[call.i] = e, !.count = @ + 1]
           /\ ret' = [op |-> "set", key |-> call.key, item |-> Null, oom |-> map'.oom]
  <2>1. map' = Written(map, i, e, map.count + 1)
    BY <1>9 DEF Written
  <2>2. Rewritten(map', map, With(bs, i, e), map.count + 1)
    BY <1>3, <1>4, <2>1, Writing
  <2>3. map'.buckets = With(bs, i, e) /\ map'.oom = FALSE
    <3> HIDE DEF i, e, bs
    <3> QED BY <1>7, <2>2 DEF Rewritten
  <2> HIDE DEF i, e, bs, b
  <2>4. AllItems(With(bs, i, e)) = AllItems(bs) \cup InHand(call)
    BY <1>4, <1>7, <1>9, ItemsLand DEF b
  <2>5. Good(AllItems(bs) \cup InHand(call)) /\ e.key \notin AllKeys(bs)
    <3>1. b.dib < e.dib
      BY <1>3, <1>5, <1>9
    <3>2. Sound(With(bs, i, e), n)
      BY <1>3, <1>4, <1>9, <3>1, Lands DEF b
    <3> QED BY <1>8, <1>9, <2>4, <3>1, <3>2, ItemsGood DEF Sound
  <2>6. /\ \E v \in Value : AllItems(bs) \cup InHand(call)
                              = {p \in V : p.key # call.key} \cup {[key |-> call.key, value |-> v]}
        /\ Result(V, call.key) = Null
    BY <1>1, <1>7, <2>5, SetAdds DEF e
  <2>7. Told(map', call') /\ Visible(map'.buckets, call') = AllItems(bs) \cup InHand(call)
    BY <1>9, <2>3, <2>4, Resting
  <2>8. ret' = Answer("set", call.key, Result(V, call.key), FALSE)
    BY <1>9, <2>3, <2>6 DEF Answer
  <2> HIDE DEF V
  <2>9. Outcome(V, Visible(map'.buckets, call'), ret, ret')
    BY <1>7, <2>6, <2>7, <2>8 DEF Outcome
  <2> QED BY <2>7, <2>9 DEF Faithful, V, bs
<1>10. CASE /\ b.dib # 0 /\ SameItem(e, b) /\ call' = Idle
            /\ map' = [map EXCEPT !.buckets[call.i].key = e.key,
                                  !.buckets[call.i].value = e.value]
            /\ ret' = [op |-> "set", key |-> call.key, item |-> Replaced(b, e), oom |-> map'.oom]
  <2> DEFINE x == [b EXCEPT !.key = e.key, !.value = e.value]
  <2>1. map' = [map EXCEPT !.buckets[call.i] = x]
    BY <1>3, <1>4, <1>10 DEF Steady, Table
  <2>2. map'.buckets = With(bs, i, x) /\ map'.oom = FALSE
    <3> HIDE DEF x
    <3>1. map' = WrittenBucket(map, i, x)
      BY <2>1 DEF WrittenBucket
    <3>2. Rewritten(map', map, With(bs, i, x), map.count)
      BY <1>3, <1>4, <3>1, Writing
    <3> HIDE DEF i, bs
    <3> QED BY <1>7, <3>2 DEF Rewritten
  <2> HIDE DEF i, e, bs, b
  <2>3. e.key = b.key /\ i \in Taken(bs)
    BY <1>4, <1>10, Buckets DEF SameItem, b
  <2>4. e.key = call.key
    <3>1. e.key \in AllKeys(bs)
      BY <2>3 DEF AllKeys, KeysIn, b
    <3> QED BY <1>7, <3>1
  <2>5. Sane(x, n) /\ x.key = e.key /\ x.value = e.value /\ x.dib = b.dib
    BY <1>5, <1>6, <1>10, <2>3 DEF Sane, Item
  <2> HIDE DEF x
  <2>6. AllItems(With(bs, i, x)) = Others(bs, i) \cup {ItemOf(x)}
    BY <1>4, <1>10, <2>5, ItemsWritten DEF Held
  <2>7. Others(bs, i) = {p \in AllItems(bs) : p.key # call.key} /\ ItemOf(b) \in AllItems(bs)
    <3>1. Others(bs, i) = {p \in AllItems(bs) : p.key # b.key} /\ ItemOf(b) \in AllItems(bs)
      BY <1>4, <1>10, OthersDiffer DEF b
    <3>2. b.key = call.key
      BY <2>3, <2>4
    <3> QED BY <3>1, <3>2
  <2>8. V = AllItems(bs)
    BY <1>1, <2>4, VisibleSet DEF e
  <2>9. Result(V, call.key) = b.value
    <3>1. Good(AllItems(bs))
      BY <1>4, ItemsGood
    <3>2. ItemOf(b).key = call.key /\ ItemOf(b).value = b.value
      BY <2>3, <2>4, ItemFields
    <3>3. Result(AllItems(bs), ItemOf(b).key) = ItemOf(b).value
      BY <2>7, <3>1, MapOf
    <3> HIDE DEF V
    <3> QED BY <2>8, <3>2, <3>3
  <2>10. Told(map', call') /\ Visible(map'.buckets, call') = AllItems(With(bs, i, x))
    BY <1>10, <2>2, Resting
  <2>11. ret' = Answer("set", call.key, Result(V, call.key), FALSE)
    BY <1>10, <2>2, <2>9 DEF Answer, Replaced
  <2> HIDE DEF V
  <2>12. ItemOf(x) = [key |-> call.key, value |-> e.value]
    BY <2>4, <2>5 DEF ItemOf
  <2>13. Outcome(V, Visible(map'.buckets, call'), ret, ret')
    BY <1>5, <1>7, <2>6, <2>7, <2>8, <2>10, <2>11, <2>12 DEF Outcome
  <2> QED BY <2>10, <2>13 DEF Faithful, V, bs
<1>11. CASE /\ b.dib # 0 /\ ~ SameItem(e, b) /\ ret' = ret
            /\ map' = [map EXCEPT !.buckets[call.i] = Stays(b, e)]
            /\ call' = [call EXCEPT !.hand = Further(Carried(b, e)),
                                    !.i = (@ + 1) % NBuckets(map)]
  <2> DEFINE x == Stays(b, e)
             f == Further(Carried(b, e))
             t == With(bs, i, x)
  <2>1. map'.buckets = t /\ map'.oom = FALSE
    <3> HIDE DEF x
    <3>1. map' = WrittenBucket(map, i, x)
      BY <1>11 DEF x, WrittenBucket
    <3>2. Rewritten(map', map, With(bs, i, x), map.count)
      BY <1>3, <1>4, <3>1, Writing
    <3> HIDE DEF i, bs
    <3> QED BY <1>7, <3>2 DEF Rewritten
  <2>2. call'.hand = f /\ call'.pc = "set" /\ call'.key = call.key
    <3> HIDE DEF f
    <3> QED BY <1>1, <1>3, <1>4, <1>11 DEF f
  <2> HIDE DEF i, e, bs, b
  <2>3. b.key # e.key
    BY <1>3, <1>5, <1>6, <1>11, SaneFacts DEF SameItem
  <2>4. /\ Ready(t, f, n, (i + 1) % n)
        /\ e.key \notin AllKeys(bs) => f.key \notin AllKeys(t)
    BY <1>3, <1>4, <1>11, <2>3, GoesOn DEF b, AllKeys
  <2>5. /\ AllItems(t) \cup {ItemOf(f)} = AllItems(bs) \cup {ItemOf(e)}
        /\ f.key = e.key => t = bs \/ b.key = e.key
        /\ f.key # e.key => f.key = b.key /\ ItemOf(e) \in AllItems(t) /\ b.dib < e.dib
    BY <1>4, <1>11, ItemsGoOn DEF b
  <2>6. InHand(call') = {ItemOf(f)}
    <3>1. f.dib # 0
      BY <1>3, <2>4, SaneFacts DEF Ready
    <3> HIDE DEF f
    <3> QED BY <2>2, <3>1 DEF InHand
  <2>7. f.key # e.key => e.key \notin AllKeys(bs) /\ e.key \in AllKeys(t)
    <3> SUFFICES ASSUME f.key # e.key
                 PROVE  e.key \notin AllKeys(bs) /\ e.key \in AllKeys(t)
      OBVIOUS
    <3>1. e.key \notin AllKeys(bs)
      BY <1>8, <2>3, <2>5
    <3>2. e.key \in AllKeys(t)
      <4> HIDE DEF t, f
      <4>1. ItemOf(e) \in Items(t, Taken(t)) /\ ItemOf(e).key = e.key
        BY <2>5, ItemFields DEF AllItems
      <4> QED BY <4>1, KeysOfItems DEF AllKeys
    <3> QED BY <3>1, <3>2
  <2> HIDE DEF x, f, t
  <2>8. /\ Visible(t, call') = V
        /\ f.key # call.key => call.key \in AllKeys(t) /\ f.key \notin AllKeys(t)
    <3>1. /\ InHand(call) = {ItemOf(call.hand)} /\ InHand(call') = {ItemOf(call'.hand)}
          /\ AllItems(t) \cup {ItemOf(call'.hand)} = AllItems(bs) \cup {ItemOf(call.hand)}
      BY <1>7, <2>2, <2>5, <2>6 DEF e
    <3>2. /\ call.hand.key # call.key =>
               call.key \in AllKeys(bs) /\ call.hand.key \notin AllKeys(bs)
          /\ call.hand.key \notin AllKeys(bs) => call'.hand.key \notin AllKeys(t)
      BY <1>7, <2>2, <2>4 DEF e
    <3>3. /\ call'.hand.key = call.hand.key => t = bs
          /\ call'.hand.key # call.hand.key => /\ call.hand.key \notin AllKeys(bs)
                                              /\ call.hand.key \in AllKeys(t)
      BY <2>2, <2>3, <2>5, <2>7 DEF e
    <3> QED BY <1>1, <2>2, <3>1, <3>2, <3>3, SetGoesOn
  <2>9. Told(map', call')
    BY <1>7, <2>1, <2>2, <2>8 DEF Told, Putting
  <2> QED BY <1>11, <2>1, <2>8, <2>9, Unseen DEF bs
<1> HIDE DEF i, e, bs, b
<1> QED
  BY <1>9, <1>10, <1>11, Zenon DEF SetProbe, Return, i, e, bs, b

\* A step of a resize that keeps what it has moved in step with its index.
LEMMA MovesOn ==
    ASSUME NEW n, Table(map.buckets, n), call.pc = "resize", call.i \in 0 .. n, Told(map, call),
           map' = map, ret' = ret,
           call'.pc = "resize", call'.i \in 0 .. n, call'.then = call.then,
           call'.key = call.key, call'.item = call.item,
           AllItems(call'.to) \cup InHand(call') = Items(map.buckets, MovedBy(map.buckets, call'))
    PROVE  Faithful
<1> DEFINE bs == map.buckets
<1>1. Moving(map, call)
  BY DEF Told
<1>2. Told(map', call')
  BY <1>1 DEF Told, Moving
<1>3. Visible(bs, call) = AllItems(bs) \cup (IF call.then = "delete" THEN Removed(call) ELSE {})
  BY <1>1, VisibleResize DEF Moving
<1>4. Visible(bs, call') = AllItems(bs) \cup (IF call'.then = "delete" THEN Removed(call') ELSE {})
  <2> DEFINE c == call'
  <2>1. c.pc = "resize" /\ c.i \in 0 .. n /\ AllItems(c.to) \cup InHand(c) = Items(bs, MovedBy(bs, c))
    OBVIOUS
  <2> HIDE DEF c
  <2>2. Visible(bs, c) = AllItems(bs) \cup (IF c.then = "delete" THEN Removed(c) ELSE {})
    BY <2>1, VisibleResize
  <2> QED BY <2>2 DEF c
<1>5. Removed(call') = Removed(call)
  BY DEF Removed
<1>6. Visible(map'.buckets, call') = Visible(map.buckets, call)
  BY <1>3, <1>4, <1>5
<1> QED
  BY <1>2, <1>6, Unseen

LEMMA ResizeNextTold == ASSUME Inv, Told(map, call), ResizeNext PROVE Faithful
<1> DEFINE i == call.i
           bs == map.buckets
           b == bs[i]
           to == call.to
           h == [b EXCEPT !.dib = 1]
<1>1. call.pc = "resize" /\ call.hand.dib = 0 /\ i < NBuckets(map) /\ map' = map /\ ret' = ret
  BY DEF ResizeNext
<1>2. PICK n \in Sizes, q \in Sizes :
             /\ Whole(map, n) /\ Resizing(map, call, n, q)
             /\ NBuckets(map) = n /\ Cardinality(DOMAIN to) = q
             /\ n \in Nat /\ q \in Nat /\ q >= 2 /\ Table(bs, n) /\ Unique(bs)
  BY <1>1, ResizeFacts
<1>3. /\ i \in 0 .. n - 1
      /\ DOMAIN call = {"pc", "to", "i", "j", "hand", "then", "key", "item"}
  BY <1>1, <1>2 DEF Resizing
<1>4. AllItems(to) = Items(bs, Below(bs, i)) /\ InHand(call) = {} /\ i \in 0 .. n
  BY <1>1, <1>2, <1>3 DEF Told, Moving, MovedBy, InHand
<1>5. CASE b.dib = 0
  <2>1. call' = [call EXCEPT !.i = @ + 1]
    BY <1>5 DEF ResizeNext
  <2>2. /\ call'.to = to /\ call'.i = i + 1 /\ call'.hand.dib = 0 /\ call'.then = call.then
        /\ call'.key = call.key /\ call'.item = call.item /\ call'.pc = "resize"
    BY <1>1, <1>3, <2>1
  <2>3. Below(bs, i + 1) = Below(bs, i) /\ i + 1 \in 0 .. n
    BY <1>2, <1>3, <1>5, BelowNext
  <2>4. AllItems(call'.to) \cup InHand(call') = Items(bs, MovedBy(bs, call'))
    <3> HIDE DEF i, to, bs
    <3> QED BY <1>4, <2>2, <2>3 DEF MovedBy, InHand
  <2> HIDE DEF i, b, to
  <2> QED BY <1>1, <1>2, <1>4, <2>2, <2>3, <2>4, MovesOn DEF i
<1>6. CASE b.dib # 0
  <2>1. call' = [call EXCEPT !.hand = h, !.j = b.hash % q]
    BY <1>2, <1>6 DEF ResizeNext, Home
  <2>2. /\ call'.to = to /\ call'.i = i /\ call'.hand = h /\ call'.pc = "resize"
        /\ call'.then = call.then /\ call'.key = call.key /\ call'.item = call.item
    <3> HIDE DEF h
    <3> QED BY <1>1, <1>3, <2>1
  <2>3. Sane(b, n)
    BY <1>2, <1>3, <1>6, Buckets
  <2>4. h.dib = 1 /\ ItemOf(h) = ItemOf(b)
    <3> HIDE DEF b
    <3> QED BY <2>3 DEF Sane, Item, ItemOf
  <2>5. Below(bs, i + 1) = Below(bs, i) \cup {i}
    BY <1>2, <1>3, <1>6, BelowNext
  <2>6. Items(bs, Below(bs, i + 1)) = Items(bs, Below(bs, i)) \cup {ItemOf(b)}
    BY <2>5 DEF Items
  <2> HIDE DEF h, b, bs, i, to
  <2>7. AllItems(call'.to) \cup InHand(call') = Items(bs, MovedBy(bs, call'))
    BY <1>4, <2>2, <2>4, <2>6 DEF MovedBy, InHand
  <2> QED BY <1>1, <1>2, <1>4, <2>2, <2>7, MovesOn DEF bs, i
<1> QED
  BY <1>5, <1>6

LEMMA ResizeProbeTold == ASSUME Inv, Told(map, call), ResizeProbe PROVE Faithful
<1> DEFINE i == call.i
           j == call.j
           bs == map.buckets
           to == call.to
           b == to[j]
           e == call.hand
<1>1. call.pc = "resize" /\ e.dib # 0 /\ map' = map /\ ret' = ret
  BY DEF ResizeProbe
<1>2. PICK n \in Sizes, q \in Sizes :
             /\ Whole(map, n) /\ Resizing(map, call, n, q)
             /\ NBuckets(map) = n /\ Cardinality(DOMAIN to) = q
             /\ n \in Nat /\ q \in Nat /\ q >= 2 /\ Table(bs, n) /\ Unique(bs)
             /\ Cardinality(Taken(to)) < q
  BY <1>1, ResizeFacts
<1>3. i < n /\ Ready(to, e, q, j) /\ e.key \notin KeysIn(to, Taken(to))
  <2>1. e # Empty
    BY <1>1 DEF Empty
  <2> QED BY <1>2, <2>1 DEF Resizing
<1>4. /\ i \in 0 .. n - 1 /\ Sound(to, q) /\ Table(to, q)
      /\ DOMAIN call = {"pc", "to", "i", "j", "hand", "then", "key", "item"}
  BY <1>2, <1>3 DEF Resizing, Sound
<1>5. j \in 0 .. q - 1 /\ Sane(e, q) /\ i \in 0 .. n /\ i + 1 \in 0 .. n
  BY <1>2, <1>3, <1>4 DEF Ready
<1>6. AllItems(to) \cup {ItemOf(e)} = Items(bs, Below(bs, i + 1))
  BY <1>1 DEF Told, Moving, MovedBy, InHand
<1>7. CASE b.dib = 0
  <2>1. call' = [call EXCEPT !.to[call.j] = e, !.hand = Empty, !.i = @ + 1]
    BY <1>7 DEF ResizeProbe
  <2> DEFINE t == With(to, j, e)
  <2>2. /\ call'.to = t /\ call'.i = i + 1 /\ call'.hand = Empty /\ call'.then = call.then
        /\ call'.key = call.key /\ call'.item = call.item /\ call'.pc = "resize"
    <3> HIDE DEF e
    <3> QED BY <1>1, <1>4, <2>1 DEF With
  <2> HIDE DEF e, to, b, bs, i, j
  <2>3. AllItems(t) = AllItems(to) \cup {ItemOf(e)}
    BY <1>4, <1>5, <1>7, ItemsLand DEF b
  <2> HIDE DEF t
  <2>4. AllItems(call'.to) \cup InHand(call') = Items(bs, MovedBy(bs, call'))
    BY <1>6, <2>2, <2>3 DEF MovedBy, InHand, Empty
  <2> QED BY <1>1, <1>2, <1>5, <2>2, <2>4, MovesOn DEF bs, i
<1>8. CASE b.dib # 0
  <2> DEFINE t == With(to, j, Stays(b, e))
             f == Further(Carried(b, e))
  <2>1. call' = [call EXCEPT !.to[call.j] = Stays(b, e), !.hand = f, !.j = (j + 1) % q]
    BY <1>2, <1>8 DEF ResizeProbe
  <2>2. /\ call'.to = t /\ call'.i = i /\ call'.hand = f /\ call'.then = call.then
        /\ call'.key = call.key /\ call'.item = call.item /\ call'.pc = "resize"
    <3> DEFINE x == Stays(b, e)
               y == (j + 1) % q
    <3>1. call' = [call EXCEPT !.to[call.j] = x, !.hand = f, !.j = y]
      BY <2>1
    <3> HIDE DEF x, f, y
    <3>2. /\ call'.to = With(to, j, x) /\ call'.i = i /\ call'.hand = f /\ call'.then = call.then
          /\ call'.key = call.key /\ call'.item = call.item /\ call'.pc = "resize"
      BY <1>1, <1>4, <3>1 DEF With
    <3> QED BY <3>2 DEF x
  <2> HIDE DEF e, to, b, bs, i, j
  <2>3. b.key # e.key
    <3>1. j \in Taken(to)
      BY <1>4, <1>5, <1>8, Buckets DEF b
    <3> QED BY <1>3, <3>1 DEF KeysIn, b
  <2>4. Ready(t, f, q, (j + 1) % q)
    BY <1>2, <1>3, <1>4, <1>8, <2>3, GoesOn DEF b
  <2>5. AllItems(t) \cup {ItemOf(f)} = AllItems(to) \cup {ItemOf(e)}
    BY <1>4, <1>5, <1>8, ItemsGoOn DEF b
  <2>6. f.dib # 0
    BY <1>2, <2>4, SaneFacts DEF Ready
  <2> HIDE DEF t, f
  <2>7. AllItems(call'.to) \cup InHand(call') = Items(bs, MovedBy(bs, call'))
    BY <1>6, <2>2, <2>5, <2>6 DEF MovedBy, InHand
  <2> QED BY <1>1, <1>2, <1>5, <2>2, <2>7, MovesOn DEF bs, i
<1> QED
  BY <1>7, <1>8

\* What a delete that returns has done.
LEMMA DeletesItem ==
    ASSUME NEW n, Table(map.buckets, n), Unique(map.buckets), Removing(map.buckets, call),
           Visible(map.buckets, call) = AllItems(map.buckets) \cup Removed(call),
           AllItems(map'.buckets) = AllItems(map.buckets), call' = Idle,
           ret' = [op |-> "delete", key |-> call.key, item |-> call.item, oom |-> map'.oom]
    PROVE  Faithful
<1> DEFINE V == Visible(map.buckets, call)
<1>1. /\ AllItems(map.buckets) = {p \in V : p.key # call.key}
      /\ Result(V, call.key) = call.item
  BY RemovedGood
<1>2. Told(map', call') /\ Visible(map'.buckets, call') = AllItems(map'.buckets)
  BY Resting
<1>3. ret' = Answer("delete", call.key, Result(V, call.key), map'.oom) /\ call.key \in Key
  BY <1>1 DEF Answer, Removing
<1> HIDE DEF V
<1>4. Outcome(V, Visible(map'.buckets, call'), ret, ret')
  BY <1>1, <1>2, <1>3 DEF Outcome
<1> QED
  BY <1>2, <1>4 DEF Faithful, V

LEMMA ResizeEndTold == ASSUME Inv, Told(map, call), ResizeEnd PROVE Faithful
<1> DEFINE bs == map.buckets
           to == call.to
<1>1. call.pc = "resize" /\ call.hand.dib = 0 /\ call.i = NBuckets(map)
  BY DEF ResizeEnd
<1>2. PICK n \in Sizes, q \in Sizes :
             /\ Whole(map, n) /\ Resizing(map, call, n, q)
             /\ NBuckets(map) = n /\ Cardinality(DOMAIN to) = q
             /\ n \in Nat /\ q \in Nat /\ q >= 2 /\ Table(bs, n) /\ Unique(bs)
  BY <1>1, ResizeFacts
<1>3. map' = [map EXCEPT !.buckets = to, !.growat = GrowAt(q), !.shrinkat = ShrinkAt(q)]
  BY <1>2 DEF ResizeEnd
<1>4. map'.buckets = to /\ map'.oom = map.oom
  BY <1>2, <1>3 DEF Whole, Steady
<1>5. Moving(map, call) /\ call.i \in 0 .. n
  BY <1>1, <1>2 DEF Told
<1>6. AllItems(to) = AllItems(bs)
  <2>1. Below(bs, call.i) = Taken(bs)
    BY <1>1, <1>2, BelowBounds
  <2> QED BY <1>1, <1>5, <2>1 DEF Moving, MovedBy, InHand, AllItems
<1>7. Visible(bs, call) = AllItems(bs) \cup (IF call.then = "delete" THEN Removed(call) ELSE {})
  BY <1>1, <1>2, <1>5, VisibleResize DEF Moving
<1> HIDE DEF bs, to
<1>8. CASE call.then = "set" /\ call' = StartSet(call.key, call.item, map') /\ ret' = ret
  <2>1. call.key \in Key /\ map'.oom = FALSE
    BY <1>4, <1>5, <1>8 DEF Moving
  <2>2. Told(map', call') /\ Visible(map'.buckets, call') = AllItems(map'.buckets)
    BY <1>8, <2>1, StartsPutting
  <2>3. Visible(map'.buckets, call') = Visible(bs, call)
    BY <1>4, <1>6, <1>7, <1>8, <2>2
  <2> QED BY <1>8, <2>2, <2>3, Unseen DEF bs
<1>9. CASE /\ call.then = "delete" /\ call' = Idle
           /\ ret' = [op |-> "delete", key |-> call.key, item |-> call.item, oom |-> map'.oom]
  <2>1. Removing(bs, call)
    BY <1>5, <1>9 DEF Moving, Removing, bs
  <2> QED BY <1>2, <1>4, <1>6, <1>7, <1>9, <2>1, DeletesItem DEF bs
<1> QED
  BY <1>8, <1>9, Zenon DEF ResizeEnd, Return

LEMMA SeeksFromHome ==
    ASSUME NEW bs, NEW n, Table(bs, n), NEW k \in Key, NEW c, c.key = k, c.i = Hash[k] % n
    PROVE  Seeking(bs, c, n)
<1>1. n \in Nat /\ n >= 2 /\ Hash[k] \in Nat
  BY Buckets, HashAssumption
<1>2. Pos(Hash[k], 1, n) = c.i /\ 1 \in 1 .. n
  <2> DEFINE x == Hash[k]
  <2>0. x \in Nat
    BY <1>1
  <2> HIDE DEF x
  <2>1. Pos(x, 1, n) = x % n
    BY <1>1, <2>0, Probe
  <2>2. 1 \in 1 .. n
    BY <1>1
  <2> QED BY <2>1, <2>2, Zenon DEF x
<1>3. Sought(bs, k, 1, n)
  BY DEF Sought
<1> QED
  BY <1>2, <1>3 DEF Seeking

\* A search that meets a hole has met every place where its key could be.
LEMMA NotThere ==
    ASSUME NEW bs, NEW n, Sound(bs, n), NEW c, Seeking(bs, c, n), bs[c.i].dib = 0
    PROVE  c.key \notin AllKeys(bs)
<1> SUFFICES ASSUME NEW j \in Taken(bs), bs[j].key = c.key
             PROVE  FALSE
  BY DEF AllKeys, KeysIn
<1>1. PICK d \in 1 .. n : Pos(Hash[c.key], d, n) = c.i /\ Sought(bs, c.key, d, n)
  BY DEF Seeking
<1> DEFINE e == bs[j]
<1>2. Table(bs, n) /\ Sane(e, n) /\ n \in Nat /\ n >= 2 /\ e.dib # 0
  BY Buckets DEF Sound
<1>3. /\ e.dib \in 1 .. n /\ e.hash = Hash[c.key] /\ Pos(e.hash, e.dib, n) = j
      /\ Path(bs, e, n, NoHole)
  BY <1>2, SaneFacts DEF Sound, Placed
<1> HIDE DEF e
<1>4. CASE e.dib < d
  <2>1. e.dib \in 1 .. d - 1
    BY <1>3, <1>4
  <2>2. bs[Pos(Hash[c.key], e.dib, n)].key # c.key
    BY <1>1, <2>1 DEF Sought
  <2> QED BY <1>3, <2>2
<1>5. CASE e.dib = d
  <2>1. j = c.i
    BY <1>1, <1>3, <1>5
  <2> QED BY <1>2, <2>1 DEF e
<1>6. CASE e.dib > d
  <2>1. d \in 1 .. e.dib - 1
    BY <1>3, <1>6
  <2>2. Pos(e.hash, d, n) # NoHole
    BY <1>2, ProbeOf
  <2>3. bs[c.i].dib >= d
    BY <1>1, <1>3, <2>1, <2>2 DEF Path
  <2> QED BY <1>1, <2>3
<1> QED
  BY <1>3, <1>4, <1>5, <1>6

\* A search that goes on does not come round to where it began.
LEMMA SeeksOn ==
    ASSUME NEW bs, NEW n, Table(bs, n), Cardinality(Taken(bs)) < n,
           NEW c, Seeking(bs, c, n), bs[c.i].dib # 0, bs[c.i].key # c.key,
           NEW s, s.key = c.key, s.i = (c.i + 1) % n
    PROVE  Seeking(bs, s, n)
<1> DEFINE x == Hash[c.key]
<1>1. PICK d \in 1 .. n : Pos(x, d, n) = c.i /\ Sought(bs, c.key, d, n)
  BY DEF Seeking
<1>2. n \in Nat /\ n >= 2 /\ c.key \in Key /\ x \in Nat
  BY Buckets, HashAssumption DEF Seeking
<1> HIDE DEF x
<1>3. Pos(x, d + 1, n) = s.i
  <2>1. Pos(x, d + 1, n) = (Pos(x, d, n) + 1) % n
    BY <1>2, Probe
  <2> QED BY <1>1, <2>1, Zenon
<1>4. \A y \in 1 .. d : bs[Pos(x, y, n)].dib # 0 /\ bs[Pos(x, y, n)].key # c.key
  <2> SUFFICES ASSUME NEW y \in 1 .. d
               PROVE  bs[Pos(x, y, n)].dib # 0 /\ bs[Pos(x, y, n)].key # c.key
    OBVIOUS
  <2>1. CASE y = d
    BY <1>1, <2>1
  <2>2. CASE y # d
    <3>1. y \in 1 .. d - 1
      BY <2>2
    <3> QED BY <1>1, <3>1 DEF Sought, x
  <2> QED BY <2>1, <2>2
<1>5. d # n
  <2> SUFFICES ASSUME d = n PROVE FALSE
    OBVIOUS
  <2>1. PICK h \in 0 .. n - 1 : bs[h].dib = 0
    BY HoleThere
  <2>2. PICK y \in 1 .. n : Pos(x, y, n) = h
    BY <1>2, Probe
  <2> QED BY <1>4, <2>1, <2>2
<1>6. d + 1 \in 1 .. n /\ (d + 1) - 1 = d
  BY <1>2, <1>5
<1>7. Sought(bs, c.key, d + 1, n)
  BY <1>4, <1>6 DEF Sought, x
<1> QED
  BY <1>2, <1>3, <1>6, <1>7 DEF Seeking, x

LEMMA GetTold ==
    ASSUME Inv, Told(map, call), NEW k \in Key, hashmap_get(k) \/ hashmap_delete(k)
    PROVE  Faithful
<1>1. call.pc = "idle" /\ ret' = ret
  BY DEF hashmap_get, hashmap_delete
<1>2. PICK n \in Sizes : Whole(map, n)
  BY <1>1, AtRest
<1>3. /\ NBuckets(map) = n /\ Table(map.buckets, n)
      /\ DOMAIN map = {"buckets", "cap", "count", "growat", "shrinkat", "growpower", "oom"}
  BY <1>2, WholeFacts DEF Steady
<1>4. map'.buckets = map.buckets /\ NBuckets(map') = n
  <2>1. map'.buckets = map.buckets
    BY <1>3 DEF hashmap_get, hashmap_delete
  <2> QED BY <1>3, <2>1 DEF NBuckets
<1>5. call'.pc \in {"get", "delete"} /\ call'.key = k /\ call'.i = Hash[k] % n
  BY <1>3 DEF hashmap_get, hashmap_delete
<1>6. Seeking(map.buckets, call', n)
  BY <1>3, <1>5, SeeksFromHome
<1>7. Told(map', call')
  BY <1>4, <1>5, <1>6 DEF Told
<1>8. /\ Visible(map.buckets, call) = AllItems(map.buckets)
      /\ Visible(map.buckets, call') = AllItems(map.buckets)
  BY <1>1, <1>5, VisibleTable
<1> QED
  BY <1>1, <1>4, <1>7, <1>8, Unseen

\* What a search that has come to bucket i finds.
LEMMA SearchFinds ==
    ASSUME NEW n \in Sizes, Whole(map, n), Told(map, call), call.pc \in {"get", "delete"},
           Searching(call, n)
    PROVE  LET bs == map.buckets
               b == bs[call.i]
               V == Visible(bs, call)
           IN  /\ V = AllItems(bs) /\ call.key \in Key /\ Good(V)
               /\ b.dib = 0 => /\ Result(V, call.key) = Null
                               /\ V = {p \in V : p.key # call.key}
               /\ b.dib # 0 /\ SameItem(Entry(call.key, Null), b) =>
                    Result(V, call.key) = b.value /\ b.key = call.key /\ b.value \in Value
               /\ b.dib # 0 /\ ~ SameItem(Entry(call.key, Null), b) => b.key # call.key
<1> DEFINE bs == map.buckets
           b == bs[call.i]
           V == Visible(bs, call)
<1>1. /\ Sound(bs, n) /\ Table(bs, n) /\ Unique(bs) /\ n \in Nat /\ NBuckets(map) = n
      /\ call.i \in 0 .. n - 1
  BY WholeFacts DEF Sound, Searching
<1>2. Seeking(bs, call, n) /\ call.key \in Key
  BY <1>1 DEF Told, Seeking
<1>3. V = AllItems(bs)
  BY VisibleTable
<1> HIDE DEF V
<1>4. Good(V)
  BY <1>1, <1>3, ItemsGood
<1>5. ASSUME b.dib = 0
      PROVE  Result(V, call.key) = Null /\ V = {p \in V : p.key # call.key}
  <2>1. call.key \notin AllKeys(bs)
    BY <1>1, <1>2, <1>5, NotThere
  <2>2. \A p \in V : p.key # call.key
    BY <1>3, <2>1, KeysOfItems DEF AllKeys, AllItems
  <2>3. Result(V, call.key) = Null
    BY <1>4, <2>2, MapOf
  <2> QED BY <2>2, <2>3
<1>6. ASSUME b.dib # 0
      PROVE  /\ SameItem(Entry(call.key, Null), b) <=> b.key = call.key
             /\ ItemOf(b) \in V /\ b.value \in Value
  <2>1. Sane(b, n) /\ call.i \in Taken(bs)
    BY <1>1, <1>6, Buckets
  <2>2. b.hash = Hash[b.key] /\ b.value \in Value
    BY <1>1, <2>1, SaneFacts
  <2>3. Entry(call.key, Null).hash = Hash[call.key] /\ Entry(call.key, Null).key = call.key
    BY DEF Entry
  <2>4. SameItem(Entry(call.key, Null), b) <=> b.key = call.key
    BY <2>2, <2>3 DEF SameItem
  <2>5. ItemOf(b) \in V
    BY <1>3, <2>1 DEF AllItems, Items
  <2> QED BY <2>2, <2>4, <2>5
<1>7. ASSUME b.dib # 0, b.key = call.key
      PROVE  Result(V, call.key) = b.value
  <2>1. Result(V, ItemOf(b).key) = ItemOf(b).value
    BY <1>4, <1>6, <1>7, MapOf
  <2> QED BY <1>7, <2>1, ItemFields
<1> QED
  BY <1>2, <1>3, <1>4, <1>5, <1>6, <1>7 DEF V

\* A search that goes on.
LEMMA SearchToldOn ==
    ASSUME NEW n \in Sizes, Whole(map, n), Told(map, call), call.pc \in {"get", "delete"},
           Searching(call, n), map.buckets[call.i].dib # 0, map.buckets[call.i].key # call.key,
           map' = map, ret' = ret, call' = [call EXCEPT !.i = (@ + 1) % NBuckets(map)]
    PROVE  Faithful
<1> DEFINE bs == map.buckets
           y == (call.i + 1) % n
<1>1. /\ Table(bs, n) /\ NBuckets(map) = n /\ Cardinality(Taken(bs)) < n
      /\ DOMAIN call = {"pc", "key", "i"}
  BY WholeFacts DEF Sound, Searching
<1>2. call' = [call EXCEPT !.i = y]
  BY <1>1
<1> HIDE DEF y
<1>3. call'.pc = call.pc /\ call'.key = call.key /\ call'.i = y
  BY <1>1, <1>2
<1>4. Seeking(bs, call, n)
  BY <1>1 DEF Told
<1>5. Seeking(bs, call', n)
  BY <1>1, <1>3, <1>4, SeeksOn DEF y
<1>6. Told(map', call')
  BY <1>1, <1>3, <1>5 DEF Told
<1>7. Visible(map'.buckets, call') = Visible(bs, call)
  <2>1. Visible(bs, call) = AllItems(bs)
    BY VisibleTable
  <2> DEFINE c == call'
  <2>2. c.pc \in {"idle", "get", "delete", "walk"}
    BY <1>3
  <2> HIDE DEF c
  <2>3. Visible(bs, c) = AllItems(bs)
    BY <2>2, VisibleTable
  <2> QED BY <2>1, <2>3 DEF c
<1> QED
  BY <1>6, <1>7, Unseen

LEMMA GetProbeTold == ASSUME Inv, Told(map, call), GetProbe PROVE Faithful
<1> DEFINE bs == map.buckets
           b == bs[call.i]
           V == Visible(bs, call)
           same == SameItem(Entry(call.key, Null), b)
<1>1. call.pc = "get" /\ map' = map
  BY DEF GetProbe
<1>2. PICK n \in Sizes : Whole(map, n) /\ Searching(call, n)
  BY <1>1 DEF Inv, Running
<1>3. /\ V = AllItems(bs) /\ call.key \in Key
      /\ b.dib = 0 => Result(V, call.key) = Null
      /\ b.dib # 0 /\ same => Result(V, call.key) = b.value
      /\ b.dib # 0 /\ ~ same => b.key # call.key
  BY <1>1, <1>2, SearchFinds
<1> HIDE DEF V, b, same, bs
<1>4. ASSUME NEW item, item = Result(V, call.key), call' = Idle,
             ret' = [op |-> "get", key |-> call.key, item |-> item, oom |-> map'.oom]
      PROVE  Faithful
  <2>1. Told(map', call') /\ Visible(map'.buckets, call') = V
    BY <1>1, <1>3, <1>4, Resting DEF bs
  <2>2. ret' = Answer("get", call.key, Result(V, call.key), map'.oom)
    BY <1>4 DEF Answer
  <2>3. Outcome(V, Visible(map'.buckets, call'), ret, ret')
    BY <1>3, <2>1, <2>2 DEF Outcome
  <2> QED BY <2>1, <2>3 DEF Faithful, V, bs
<1>5. CASE /\ b.dib # 0 /\ ~ same /\ ret' = ret
           /\ call' = [call EXCEPT !.i = (@ + 1) % NBuckets(map)]
  BY <1>1, <1>2, <1>3, <1>5, SearchToldOn DEF b, bs
<1>6. CASE b.dib = 0 /\ Return("get", call.key, Null)
  BY <1>3, <1>4, <1>6 DEF Return
<1>7. CASE b.dib # 0 /\ same /\ Return("get", call.key, b.value)
  BY <1>3, <1>4, <1>7 DEF Return
<1> QED
  BY <1>5, <1>6, <1>7, Zenon DEF GetProbe, b, bs, same

LEMMA DeleteProbeTold == ASSUME Inv, Told(map, call), DeleteProbe PROVE Faithful
<1> DEFINE i == call.i
           bs == map.buckets
           b == bs[i]
           V == Visible(bs, call)
           same == SameItem(Entry(call.key, Null), b)
<1>1. call.pc = "delete"
  BY DEF DeleteProbe
<1>2. PICK n \in Sizes : Whole(map, n) /\ Searching(call, n)
  BY <1>1 DEF Inv, Running
<1>3. /\ V = AllItems(bs) /\ call.key \in Key
      /\ b.dib = 0 => Result(V, call.key) = Null /\ V = {p \in V : p.key # call.key}
      /\ b.dib # 0 /\ same => b.key = call.key /\ b.value \in Value
      /\ b.dib # 0 /\ ~ same => b.key # call.key
  BY <1>1, <1>2, SearchFinds
<1>4. CASE /\ b.dib = 0 /\ map' = map /\ call' = Idle
           /\ ret' = [op |-> "delete", key |-> call.key, item |-> Null, oom |-> map'.oom]
  <2> HIDE DEF V, b, same, bs
  <2>1. Told(map', call') /\ Visible(map'.buckets, call') = V
    BY <1>3, <1>4, Resting DEF bs
  <2>2. ret' = Answer("delete", call.key, Result(V, call.key), map'.oom)
    BY <1>3, <1>4 DEF Answer
  <2>3. Outcome(V, Visible(map'.buckets, call'), ret, ret')
    BY <1>3, <1>4, <2>1, <2>2 DEF Outcome
  <2> QED BY <2>1, <2>3 DEF Faithful, V, bs
<1>5. CASE /\ b.dib # 0 /\ same /\ ret' = ret
           /\ map' = [map EXCEPT !.buckets[call.i] = Empty]
           /\ call' = [pc |-> "shift", key |-> call.key, i |-> call.i, item |-> b.value]
  <2>1. i \in 0 .. n - 1 /\ Table(bs, n) /\ Unique(bs) /\ Steady(map, n)
    BY <1>2, WholeFacts DEF Searching, Sound
  <2> DEFINE t == With(bs, i, Empty)
  <2>2. map' = WrittenBucket(map, i, Empty)
    BY <1>5 DEF WrittenBucket
  <2>3. Rewritten(map', map, t, map.count)
    BY <2>1, <2>2, Writing
  <2>4. call'.pc = "shift" /\ call'.key = call.key /\ call'.item = b.value
    BY <1>5
  <2> HIDE DEF i, bs, b, t, same, V
  <2>5. map'.buckets = t
    BY <2>3 DEF Rewritten
  <2>6. AllItems(t) = Others(bs, i)
    <3>1. AllItems(With(bs, i, Empty)) = Others(bs, i) \cup Held(Empty)
      BY <2>1, ItemsWritten
    <3>2. Held(Empty) = {}
      BY DEF Held, Empty
    <3> QED BY <3>1, <3>2 DEF t
  <2>7. AllItems(bs) = Others(bs, i) \cup {ItemOf(b)}
    BY <1>5, <2>1, ItemsApart DEF Held, b
  <2>8. Others(bs, i) = {p \in AllItems(bs) : p.key # b.key}
    BY <1>5, <2>1, OthersDiffer DEF b
  <2>9. call.key \notin AllKeys(t)
    <3>1. \A p \in Items(t, Taken(t)) : p.key # call.key
      BY <1>3, <1>5, <2>6, <2>8 DEF AllItems
    <3> QED BY <3>1, KeysOfItems DEF AllKeys
  <2>10. Told(map', call')
    BY <1>3, <1>5, <2>4, <2>5, <2>9 DEF Told, Removing
  <2>11. Removed(call') = {ItemOf(b)}
    BY <1>3, <1>5, <2>4 DEF Removed, ItemOf
  <2>12. Visible(t, call') = AllItems(t) \cup Removed(call')
    BY <2>4, VisibleShift
  <2>13. Visible(map'.buckets, call') = V
    BY <1>3, <2>5, <2>6, <2>7, <2>11, <2>12
  <2> QED BY <1>5, <2>10, <2>13, Unseen DEF V, bs
<1>6. CASE /\ b.dib # 0 /\ ~ same /\ ret' = ret /\ map' = map
           /\ call' = [call EXCEPT !.i = (@ + 1) % NBuckets(map)]
  <2> HIDE DEF same, V
  <2> QED BY <1>1, <1>2, <1>3, <1>6, SearchToldOn
<1> HIDE DEF i, bs, b, V, same
<1> QED
  BY <1>4, <1>5, <1>6, Zenon DEF DeleteProbe, Return, i, b, bs, same

LEMMA DeleteShiftTold == ASSUME Inv, Told(map, call), DeleteShift PROVE Faithful
<1> DEFINE h == call.i
           bs == map.buckets
<1>1. call.pc = "shift"
  BY DEF DeleteShift
<1>2. PICK n \in Sizes : Shifting(map, call, n)
  BY <1>1 DEF Inv, Running
<1>3. /\ Steady(map, n) /\ h \in 0 .. n - 1 /\ bs[h] = Empty /\ Unique(bs)
      /\ DOMAIN call = {"pc", "key", "i", "item"}
  BY <1>2 DEF Shifting, Steady
<1>4. NBuckets(map) = n /\ n \in Nat /\ n >= 2 /\ n <= MaxBuckets /\ Table(bs, n)
  BY <1>3, SteadyFacts, SizeFacts
<1>5. Removing(bs, call) /\ Visible(bs, call) = AllItems(bs) \cup Removed(call)
  BY <1>1, VisibleShift DEF Told
<1> DEFINE k == (h + 1) % NBuckets(map)
           b == bs[k]
<1>6. k \in 0 .. n - 1 /\ k # h
  BY <1>3, <1>4, NextBucket
<1>7. CASE /\ ~ ShiftEnds(b) /\ ret' = ret
           /\ map' = [map EXCEPT !.buckets[call.i] = [b EXCEPT !.dib = @ - 1],
                                 !.buckets[k] = Empty]
           /\ call' = [call EXCEPT !.i = k]
  <2> DEFINE c == [b EXCEPT !.dib = @ - 1]
  <2>1. map' = Shifted(map, h, c, k, Empty)
    BY <1>7 DEF Shifted
  <2> HIDE DEF k, b
  <2>2. call'.pc = "shift" /\ call'.key = call.key /\ call'.item = call.item
    BY <1>1, <1>3, <1>7
  <2>3. ~ (b.dib <= 1)
    BY <1>7 DEF ShiftEnds
  <2>4. b.dib \in 0 .. n /\ (b.dib # 0 => Sane(b, n))
    BY <1>4, <1>6, Buckets DEF b
  <2>5. Sane(b, n) /\ b.dib \in 2 .. n
    BY <1>4, <2>3, <2>4
  <2>6. Sane(c, n) /\ ItemOf(c) = ItemOf(b)
    <3> DEFINE d == b.dib - 1
    <3>1. d \in 1 .. n /\ d \in 1 .. MaxBuckets
      BY <1>4, <2>5, CapAssumption
    <3>2. c = [b EXCEPT !.dib = d]
      OBVIOUS
    <3> HIDE DEF d, c
    <3> QED BY <2>5, <3>1, <3>2 DEF Sane, Item, ItemOf
  <2> HIDE DEF c, h, bs
  <2> DEFINE t == With(With(bs, h, c), k, Empty)
  <2>7. Rewritten(map', map, t, map.count)
    BY <1>3, <1>6, <2>1, ShiftWriting DEF bs
  <2>8. AllItems(t) = AllItems(bs)
    <3>1. b.dib # 0
      BY <2>5
    <3> QED BY <1>3, <1>4, <1>6, <2>6, <3>1, ItemsShift DEF b
  <2> HIDE DEF t
  <2>9. map'.buckets = t
    BY <2>7 DEF Rewritten
  <2>10. AllKeys(t) = AllKeys(bs)
    BY <2>8, KeysOfItems DEF AllKeys, AllItems
  <2>11. Told(map', call')
    BY <1>5, <2>2, <2>9, <2>10 DEF Told, Removing
  <2>12. Visible(t, call') = AllItems(t) \cup Removed(call')
    BY <2>2, VisibleShift
  <2>13. Removed(call') = Removed(call)
    BY <2>2 DEF Removed
  <2>14. Visible(map'.buckets, call') = Visible(bs, call)
    BY <1>5, <2>8, <2>9, <2>12, <2>13
  <2> QED BY <1>7, <2>11, <2>14, Unseen DEF bs
<1>8. ASSUME map' = [map EXCEPT !.count = @ - 1]
      PROVE  map'.buckets = bs /\ map'.oom = map.oom
  BY <1>3, <1>8 DEF Steady
<1>9. CASE /\ map' = [map EXCEPT !.count = @ - 1] /\ call' = Idle
           /\ ret' = [op |-> "delete", key |-> call.key, item |-> call.item, oom |-> map'.oom]
  BY <1>3, <1>4, <1>5, <1>8, <1>9, DeletesItem
<1>10. CASE /\ CanResize(NBuckets(map) \div 2) /\ map' = [map EXCEPT !.count = @ - 1]
            /\ ret' = ret
            /\ call' = StartResize(NBuckets(map) \div 2, "delete", call.key, call.item)
  <2> DEFINE a == n \div 2
             c == StartResize(a, "delete", call.key, call.item)
             r == IF "delete" = "delete" THEN {[key |-> call.key, value |-> call.item]} ELSE {}
  <2>1. CanResize(a) /\ call' = c
    BY <1>4, <1>10
  <2>2. RoundCap(a) \in Sizes
    BY <2>1, Shrunk
  <2> HIDE DEF a, k, b, h, bs
  <2>3. /\ c.pc = "resize" /\ c.then = "delete" /\ c.key = call.key /\ c.item = call.item
        /\ AllItems(c.to) \cup InHand(c) = Items(bs, MovedBy(bs, c))
        /\ Visible(bs, c) = AllItems(bs) \cup r
    BY <1>4, <2>2, StartsMoving
  <2>4. r = Removed(call)
    BY DEF Removed
  <2> HIDE DEF c, r
  <2>5. Told(map', call')
    BY <1>5, <1>8, <1>10, <2>1, <2>3 DEF Told, Moving, Removing
  <2>6. Visible(map'.buckets, call') = Visible(bs, call)
    BY <1>5, <1>8, <1>10, <2>1, <2>3, <2>4
  <2> QED BY <1>10, <2>5, <2>6, Unseen DEF bs
<1> HIDE DEF h, bs, k, b
<1> QED
  BY <1>7, <1>9, <1>10, Zenon DEF DeleteShift, Return, h, bs, k, b

LEMMA ClearTold == ASSUME Inv, Told(map, call), NEW u \in BOOLEAN, hashmap_clear(u) PROVE Faithful
<1>1. call.pc = "idle" /\ call' = call /\ ret' = [op |-> "clear"]
  BY DEF hashmap_clear
<1>2. PICK o \in Sizes : Whole(map, o)
  BY <1>1, AtRest
<1> DEFINE n == IF u THEN NBuckets(map) ELSE map.cap
<1>3. map' = Cleared(map, n)
  BY Zenon DEF hashmap_clear, Cleared
<1>4. n \in Sizes
  BY <1>2, WholeFacts DEF Steady
<1> HIDE DEF n
<1>5. map'.buckets = NoBuckets(n)
  BY <1>2, <1>3 DEF Cleared, Whole, Steady
<1>6. Visible(map'.buckets, call') = {}
  BY <1>1, <1>4, <1>5, NothingIn, VisibleTable
<1>7. Told(map', call')
  BY <1>1 DEF Told
<1> QED
  BY <1>1, <1>6, <1>7 DEF Faithful, Outcome

LEMMA FreeTold == ASSUME Inv, Told(map, call), NEW c \in AskedCap, hashmap_free(c) PROVE Faithful
<1>1. call.pc = "idle" /\ call' = call /\ map' = hashmap_new(c) /\ ret' = [op |-> "free"]
  BY DEF hashmap_free
<1> DEFINE n == RoundCap(c)
<1>2. c \in Nat /\ n <= MaxBuckets
  BY PowerAssumption
<1>3. n \in Nat /\ n >= MinCap /\ n % 2 = 0
  BY <1>2, RoundCapFacts
<1>4. map'.buckets = NoBuckets(n)
  BY <1>1 DEF hashmap_new
<1> HIDE DEF n
<1>5. n \in Sizes
  BY <1>2, <1>3, CapAssumption DEF Sizes, n
<1>6. Visible(map'.buckets, call') = {}
  BY <1>1, <1>4, <1>5, NothingIn, VisibleTable
<1>7. Told(map', call')
  BY <1>1 DEF Told
<1> QED
  BY <1>1, <1>6, <1>7 DEF Faithful, Outcome

LEMMA GrowByPowerTold ==
    ASSUME Inv, Told(map, call), NEW p \in GrowPowers, hashmap_set_grow_by_power(p)
    PROVE  Faithful
<1>1. call.pc = "idle" /\ call' = call /\ ret' = ret
  BY DEF hashmap_set_grow_by_power
<1>2. PICK n \in Sizes : Whole(map, n)
  BY <1>1, AtRest
<1> DEFINE g == IF p < 1 THEN 1 ELSE IF p > 16 THEN 16 ELSE p
<1>3. map' = [map EXCEPT !.growpower = g]
  BY DEF hashmap_set_grow_by_power
<1> HIDE DEF g
<1>4. map'.buckets = map.buckets
  BY <1>2, <1>3 DEF Whole, Steady
<1>5. Told(map', call')
  BY <1>1 DEF Told
<1> QED
  BY <1>1, <1>4, <1>5, Unseen

\* A walk has met the keys below its index, each once.
LEMMA WalksOn ==
    ASSUME NEW bs, NEW n, Table(bs, n), NEW c, Walking(bs, c, n), c.i # n,
           NEW s, DOMAIN s = {"pc", "i", "seen"}, s.i = c.i + 1,
           s.seen = IF bs[c.i].dib = 0 THEN c.seen ELSE Append(c.seen, bs[c.i].key)
    PROVE  Walking(bs, s, n)
<1> DEFINE i == c.i
           b == bs[i]
<1>1. n \in Nat /\ i \in 0 .. n - 1 /\ i + 1 \in 0 .. n /\ c.seen \in Seq(Key)
  BY Buckets DEF Walking
<1>2. /\ Len(c.seen) = Cardinality(Below(bs, i))
      /\ {c.seen[j] : j \in DOMAIN c.seen} = KeysIn(bs, Below(bs, i))
  BY DEF Walking
<1>3. CASE b.dib = 0
  <2>1. Below(bs, i + 1) = Below(bs, i)
    BY <1>1, <1>3, BelowNext
  <2> QED BY <1>1, <1>2, <1>3, <2>1 DEF Walking
<1>4. CASE b.dib # 0
  <2>1. /\ Below(bs, i + 1) = Below(bs, i) \cup {i}
        /\ Cardinality(Below(bs, i + 1)) = Cardinality(Below(bs, i)) + 1
    BY <1>1, <1>4, BelowNext
  <2>2. b.key \in Key
    <3>1. Sane(b, n)
      BY <1>1, <1>4, Buckets
    <3> QED BY <1>1, <3>1, SaneFacts
  <2>3. KeysIn(bs, Below(bs, i + 1)) = KeysIn(bs, Below(bs, i)) \cup {b.key}
    BY <2>1 DEF KeysIn
  <2>4. s.seen = Append(c.seen, b.key)
    BY <1>4
  <2> HIDE DEF b, i
  <2>5. /\ s.seen \in Seq(Key) /\ Len(s.seen) = Len(c.seen) + 1
        /\ \A j \in DOMAIN c.seen : j \in DOMAIN s.seen /\ s.seen[j] = c.seen[j]
        /\ s.seen[Len(c.seen) + 1] = b.key /\ Len(c.seen) + 1 \in DOMAIN s.seen
        /\ \A j \in DOMAIN s.seen : j \in DOMAIN c.seen \/ j = Len(c.seen) + 1
    BY <1>1, <2>2, <2>4
  <2>6. {s.seen[j] : j \in DOMAIN s.seen} = {c.seen[j] : j \in DOMAIN c.seen} \cup {b.key}
    BY <2>5
  <2>7. Len(s.seen) = Cardinality(Below(bs, i + 1))
    BY <1>2, <2>1, <2>5
  <2> QED BY <1>1, <1>2, <2>3, <2>5, <2>6, <2>7 DEF Walking, i
<1> QED
  BY <1>3, <1>4

LEMMA WalkTold == ASSUME Inv, Told(map, call), WalkStart \/ hashmap_iter PROVE Faithful
<1> DEFINE bs == map.buckets
<1>1. map' = map /\ ret' = ret /\ call.pc \in {"idle", "walk"}
  BY DEF WalkStart, hashmap_iter
<1>2. PICK n \in Sizes : Whole(map, n)
  BY <1>1, AtRest
<1>3. Table(bs, n) /\ NBuckets(map) = n
  BY <1>2, WholeFacts DEF Sound
<1>4. Visible(bs, call) = AllItems(bs)
  BY <1>1, VisibleTable
<1>5. ASSUME call'.pc = "walk", Walking(bs, call', n)
      PROVE  Faithful
  <2>1. Told(map', call')
    BY <1>1, <1>3, <1>5 DEF Told
  <2>2. Visible(bs, call') = AllItems(bs)
    BY <1>5, VisibleTable
  <2> QED BY <1>1, <1>4, <2>1, <2>2, Unseen
<1>6. CASE WalkStart
  <2>1. /\ call'.pc = "walk" /\ DOMAIN call' = {"pc", "i", "seen"} /\ call'.i = 0
        /\ call'.seen = <<>>
    BY <1>6 DEF WalkStart
  <2>2. n \in Nat /\ Taken(bs) \subseteq 0 .. n - 1
    BY <1>3, Buckets
  <2>3. Below(bs, 0) = {}
    BY <2>2 DEF Below
  <2>4. Cardinality(Below(bs, 0)) = 0 /\ KeysIn(bs, Below(bs, 0)) = {}
    BY <2>3, FS_EmptySet DEF KeysIn
  <2>5. Walking(bs, call', n)
    BY <2>1, <2>2, <2>4 DEF Walking
  <2> QED BY <1>5, <2>1, <2>5
<1>7. CASE hashmap_iter
  <2> DEFINE b == bs[call.i]
             seen == IF b.dib = 0 THEN call.seen ELSE Append(call.seen, b.key)
  <2>1. CASE call' = Idle
    BY <1>1, <1>4, <2>1, Resting, Unseen
  <2>2. CASE call.i # NBuckets(map) /\ call' = [call EXCEPT !.i = @ + 1, !.seen = seen]
    <3>1. Walking(bs, call, n) /\ call.pc = "walk"
      BY <1>3, <1>7 DEF Told, hashmap_iter
    <3> HIDE DEF seen
    <3>2. /\ call'.pc = "walk" /\ DOMAIN call' = {"pc", "i", "seen"} /\ call'.i = call.i + 1
          /\ call'.seen = seen
      BY <2>2, <3>1 DEF Walking
    <3>3. Walking(bs, call', n)
      BY <1>3, <2>2, <3>1, <3>2, WalksOn DEF seen
    <3> QED BY <1>5, <3>2, <3>3
  <2> QED BY <1>7, <2>1, <2>2, Zenon DEF hashmap_iter
<1> QED
  BY <1>6, <1>7

\* Every step of every call is faithful.
LEMMA StepTold == ASSUME Inv, Told(map, call), [Next]_vars PROVE Faithful
<1>1. CASE Call
  BY <1>1, SetTold, GetTold, ClearTold, GrowByPowerTold, WalkTold, FreeTold DEF Call
<1>2. CASE Step
  BY <1>2, SetProbeTold, ResizeNextTold, ResizeProbeTold, ResizeEndTold, GetProbeTold,
     DeleteProbeTold, DeleteShiftTold, WalkTold DEF Step
<1>3. CASE UNCHANGED vars
  BY <1>3, Unseen DEF vars
<1> QED
  BY <1>1, <1>2, <1>3 DEF Next

LEMMA InitTold == Init => Told(map, call)
  BY DEF Init, Idle, Told

-----------------------------------------------------------------------------
(***************************************************************************)
(* The outcome of a step is what KeyMap says of the call.                  *)
(***************************************************************************)
LEMMA ResultOf ==
    ASSUME NEW V, Good(V), NEW k
    PROVE  /\ k \in DOMAIN AsMap(V) => Result(V, k) # Null
           /\ k \notin DOMAIN AsMap(V) => Result(V, k) = Null /\ {p \in V : p.key # k} = V
<1>1. DOMAIN AsMap(V) = {p.key : p \in V}
  BY MapOf
<1>2. ASSUME k \in DOMAIN AsMap(V)
      PROVE  Result(V, k) # Null
  <2>1. PICK p \in V : p.key = k
    BY <1>1, <1>2
  <2>2. Result(V, p.key) = p.value /\ p.value \in Value
    BY MapOf DEF Good
  <2> QED BY <2>1, <2>2, NullAssumption
<1>3. ASSUME k \notin DOMAIN AsMap(V)
      PROVE  Result(V, k) = Null /\ {p \in V : p.key # k} = V
  BY <1>1, <1>3 DEF Result
<1> QED
  BY <1>2, <1>3

LEMMA OutcomeIsMapStep ==
    ASSUME Good(Visible(map.buckets, call)),
           Outcome(Visible(map.buckets, call), Visible(map'.buckets, call'), ret, ret')
    PROVE  [Map!Next]_(Map!vars)
<1> DEFINE V == Visible(map.buckets, call)
           W == Visible(map'.buckets, call')
<1>1. Contents = AsMap(V) /\ Contents' = AsMap(W) /\ Good(V)
  BY DEF Contents
<1>2. Outcome(V, W, ret, ret')
  OBVIOUS
<1> HIDE DEF V, W
<1>3. CASE W = V /\ ret' = ret
  <2>1. Contents' = Contents
    BY <1>1, <1>3
  <2>2. AbstractRet' = AbstractRet
    BY <1>3 DEF AbstractRet
  <2> QED BY <2>1, <2>2 DEF Map!vars
<1>4. ASSUME NEW k \in Key, NEW v \in Value,
             W = {p \in V : p.key # k} \cup {[key |-> k, value |-> v]},
             ret' = Answer("set", k, Result(V, k), FALSE)
      PROVE  Map!Next
  <2>1. Contents' = [x \in DOMAIN Contents \cup {k} |-> IF x = k THEN v ELSE Contents[x]]
    BY <1>1, <1>4, MapAdd
  <2>2. AbstractRet' = [op |-> "insert", key |-> k, rc |-> 0]
    BY <1>4 DEF AbstractRet, Answer
  <2>3. Map!InsertTaken(k, v)
    BY <2>1, <2>2 DEF Map!InsertTaken
  <2> QED BY <2>3 DEF Map!Next
<1>5. ASSUME NEW k \in Key, W = V, ret' = Answer("set", k, Null, TRUE)
      PROVE  Map!Next
  <2>1. AbstractRet' = [op |-> "insert", key |-> k, rc |-> -1]
    BY <1>5 DEF AbstractRet, Answer
  <2>2. Map!InsertRefused(k)
    BY <1>1, <1>5, <2>1 DEF Map!InsertRefused
  <2> QED BY <2>2 DEF Map!Next
<1>6. ASSUME NEW k \in Key, NEW o, W = V, ret' = Answer("get", k, Result(V, k), o)
      PROVE  Map!Next
  <2>1. AbstractRet' = [op |-> "get", key |-> k, value |-> Result(V, k)]
    BY <1>6 DEF AbstractRet, Answer
  <2>2. Map!Get(k)
    BY <1>1, <1>6, <2>1 DEF Map!Get, Result
  <2> QED BY <2>2 DEF Map!Next
<1>7. ASSUME NEW k \in Key, NEW o, W = {p \in V : p.key # k},
             ret' = Answer("delete", k, Result(V, k), o)
      PROVE  Map!Next
  <2>1. AbstractRet' = [op |-> "delete", key |-> k,
                        rc |-> IF Result(V, k) = Null THEN -1 ELSE 0]
    BY <1>7 DEF AbstractRet, Answer
  <2>2. CASE k \in DOMAIN Contents
    <3>1. Result(V, k) # Null
      BY <1>1, <2>2, ResultOf
    <3>2. AsMap(W) = [x \in DOMAIN AsMap(V) \ {k} |-> AsMap(V)[x]]
      BY <1>1, <1>7, MapDrop
    <3>3. Map!DeletePresent(k)
      BY <1>1, <2>1, <2>2, <3>1, <3>2 DEF Map!DeletePresent
    <3> QED BY <3>3 DEF Map!Next
  <2>3. CASE k \notin DOMAIN Contents
    <3>1. Result(V, k) = Null /\ W = V
      BY <1>1, <1>7, <2>3, ResultOf
    <3>2. Map!DeleteAbsent(k)
      BY <1>1, <2>1, <2>3, <3>1 DEF Map!DeleteAbsent
    <3> QED BY <3>2 DEF Map!Next
  <2> QED BY <2>2, <2>3
<1>8. CASE W = {} /\ ret' \in {[op |-> "clear"], [op |-> "free"]}
  <2>1. AbstractRet' = [op |-> "free"]
    BY <1>8 DEF AbstractRet
  <2>2. Contents' = [x \in {} |-> Null]
    BY <1>1, <1>8 DEF AsMap
  <2>3. Map!Free
    BY <2>1, <2>2 DEF Map!Free
  <2> QED BY <2>3 DEF Map!Next
<1> QED
  BY <1>2, <1>3, <1>4, <1>5, <1>6, <1>7, <1>8 DEF Outcome

\* To its callers the map of hashmap.c is KeyMap, with any hash and any load
\* limits that leave room: a set, get, delete, clear or free changes what is
\* stored in one step, at its return and in the way its answer says, while the
\* displacing of entries, both resizes and the backward shift of a delete change
\* nothing that a caller could find; a set is refused only when memory ran out.
THEOREM RobinHoodImplementsKeyMap == Spec => ImplementsKeyMap
<1>1. Init => Map!Init
  <2> SUFFICES ASSUME Init
               PROVE  Map!Init
    OBVIOUS
  <2>1. AbstractRet = [op |-> "create"]
    BY DEF Init, AbstractRet
  <2>2. Visible(map.buckets, call) = {}
    <3>1. call.pc = "idle"
      BY DEF Init, Idle
    <3>2. Visible(map.buckets, call) = AllItems(map.buckets)
      BY <3>1, VisibleTable
    <3>3. PICK c \in AskedCap : map = hashmap_new(c)
      BY DEF Init
    <3>4. PICK n : map.buckets = NoBuckets(n)
      BY <3>3 DEF hashmap_new
    <3>5. Taken(NoBuckets(n)) = {}
      BY DEF Taken, NoBuckets, Empty
    <3> QED BY <3>2, <3>4, <3>5 DEF AllItems, Items
  <2>3. Contents = [k \in {} |-> Null]
    BY <2>2 DEF Contents, AsMap
  <2> QED BY <2>1, <2>3 DEF Map!Init
<1>2. ASSUME Inv, Told(map, call), [Next]_vars
      PROVE  [Map!Next]_(Map!vars)
  BY <1>2, VisibleGood, StepTold, OutcomeIsMapStep DEF Faithful
<1>3. ASSUME Inv, Told(map, call), [Next]_vars
      PROVE  Told(map, call)'
  BY <1>3, StepTold DEF Faithful
<1> QED
  BY InitInv, NextInv, InitTold, <1>1, <1>2, <1>3, PTL DEF Spec, ImplementsKeyMap, Map!Spec

\* A set and a delete of hashmap.c return the item that their key had before
\* the call, also when the entry that a set displaced, a resize or the backward
\* shift moved others in between, and a walk with hashmap_iter that comes to the
\* end has met every key of the table once.
THEOREM RobinHoodReturnsExact == Spec => ReturnsExact
<1> DEFINE V == Visible(map.buckets, call)
           W == Visible(map'.buckets, call')
           Given == ret' # ret /\ ret'.op \in {"set", "delete"} /\ ~ret'.oom =>
                      ret'.item = IF ret'.key \in DOMAIN Contents
                                  THEN Contents[ret'.key] ELSE Null
           Met == call.pc = "walk" /\ call'.pc = "idle" =>
                    /\ Len(call.seen) = map.count
                    /\ {call.seen[i] : i \in DOMAIN call.seen}
                         = {map.buckets[i].key : i \in Taken(map.buckets)}
<1>1. ASSUME Inv, Told(map, call), [Next]_vars
      PROVE  Given
  <2>1. Outcome(V, W, ret, ret')
    BY <1>1, StepTold DEF Faithful
  <2>2. Contents = AsMap(V)
    BY DEF Contents
  <2> HIDE DEF V, W
  <2>3. SUFFICES ASSUME ret' # ret, ret'.op \in {"set", "delete"}, ~ret'.oom
                 PROVE  ret'.item = Result(V, ret'.key)
    BY <2>2 DEF Result
  <2>4. ASSUME NEW k \in Key, NEW o, NEW op, NEW item, ret' = Answer(op, k, item, o)
        PROVE  ret'.op = op /\ ret'.key = k /\ ret'.item = item /\ ret'.oom = o
    BY <2>4 DEF Answer
  <2>5. CASE \E k \in Key : ret' = Answer("set", k, Result(V, k), FALSE)
    BY <2>4, <2>5
  <2>6. CASE \E k \in Key : ret' = Answer("set", k, Null, TRUE)
    BY <2>3, <2>4, <2>6
  <2>7. CASE \E k \in Key : \E o : ret' = Answer("get", k, Result(V, k), o)
    BY <2>3, <2>4, <2>7
  <2>8. CASE \E k \in Key : \E o : ret' = Answer("delete", k, Result(V, k), o)
    BY <2>4, <2>8
  <2>9. CASE ret' \in {[op |-> "clear"], [op |-> "free"]}
    BY <2>3, <2>9
  <2> QED BY <2>1, <2>3, <2>5, <2>6, <2>7, <2>8, <2>9 DEF Outcome
<1>2. ASSUME Inv, Told(map, call), [Next]_vars
      PROVE  Met
  <2> SUFFICES ASSUME call.pc = "walk", call'.pc = "idle"
               PROVE  /\ Len(call.seen) = map.count
                      /\ {call.seen[i] : i \in DOMAIN call.seen}
                           = {map.buckets[i].key : i \in Taken(map.buckets)}
    OBVIOUS
  <2> DEFINE bs == map.buckets
  <2>1. PICK n \in Sizes : Whole(map, n)
    BY <1>2, AtRest
  <2>2. Table(bs, n) /\ NBuckets(map) = n /\ Cardinality(Taken(bs)) = map.count
    BY <2>1, WholeFacts DEF Sound, Whole
  <2>3. Walking(bs, call, n)
    BY <1>2, <2>2 DEF Told
  <2>4. call.i = n
    <3>1. hashmap_iter
      BY <1>2, Zenon DEF Next, vars, Call, Step, hashmap_set, hashmap_get, hashmap_delete,
         hashmap_clear, hashmap_set_grow_by_power, WalkStart, hashmap_free, SetProbe,
         ResizeNext, ResizeProbe, ResizeEnd, GetProbe, DeleteProbe, DeleteShift
    <3>2. CASE call' = [call EXCEPT !.i = call.i + 1,
                !.seen = IF bs[call.i].dib = 0 THEN call.seen ELSE Append(call.seen, bs[call.i].key)]
      <4>1. call'.pc = "walk"
        BY <2>3, <3>2 DEF Walking
      <4> QED BY <4>1
    <3> QED BY <2>2, <3>1, <3>2 DEF hashmap_iter
  <2>5. n \in 0 .. n
    BY <2>3, <2>4 DEF Walking
  <2>6. Below(bs, n) = Taken(bs)
    BY <2>2, <2>5, BelowBounds
  <2> QED BY <2>2, <2>3, <2>4, <2>6 DEF Walking, KeysIn
<1>3. ASSUME Inv, Told(map, call), [Next]_vars
      PROVE  Told(map, call)'
  BY <1>3, StepTold DEF Faithful
<1>4. ASSUME Inv, Told(map, call), [Next]_vars
      PROVE  [Given /\ Met]_vars
  BY <1>1, <1>2, <1>4
<1> QED
  BY InitInv, NextInv, InitTold, <1>3, <1>4, PTL DEF Spec, ReturnsExact

=============================================================================
