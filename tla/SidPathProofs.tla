--------------------------- MODULE SidPathProofs ----------------------------
(***************************************************************************)
(* What findRequirementForSID and examineCoreconfValue return, for every   *)
(* set of models, SIDs and request keys and every depth limit.             *)
(*                                                                         *)
(* The first part is about the operators: the runs of a loop, which is     *)
(* what the recursive functions of SidPath are, and the index that         *)
(* buildCLookupHashmapFromCoreconf makes of a tree.  Then come the climb,  *)
(* with PathInv and ClimbInv, and the walk, with WalkInv.                  *)
(***************************************************************************)
EXTENDS SidPath, TLAPS, SequenceTheorems, WellFoundedInduction

\* Every nonempty set of numbers has a least element.
LEMMA LeastNumber ==
    ASSUME NEW S \in SUBSET Nat, S # {}
    PROVE  \E n \in S : \A m \in S : n <= m
<1>1. IsWellFoundedOn(OpToRel(<, Nat), Nat)
  BY NatLessThanWellFounded
<1>2. PICK n \in S : \A m \in S : <<m, n>> \notin OpToRel(<, Nat)
  BY <1>1, WFMin
<1>3. \A m \in S : ~ (m < n)
  BY <1>2 DEF OpToRel
<1> QED
  BY <1>3

\* Induction up to n, over a set of numbers.
LEMMA Counting ==
    ASSUME NEW n \in Nat, NEW T, 0 \in T, \A k \in 1 .. n : k - 1 \in T => k \in T
    PROVE  \A k \in 0 .. n : k \in T
<1> DEFINE Bad == {k \in 0 .. n : k \notin T}
<1> SUFFICES ASSUME Bad # {} PROVE FALSE
  OBVIOUS
<1>0. Bad \in SUBSET Nat
  OBVIOUS
<1> HIDE DEF Bad
<1>1. PICK k \in Bad : \A m \in Bad : k <= m
  BY <1>0, LeastNumber
<1> USE DEF Bad
<1>2. k \in 1 .. n /\ k - 1 \in 0 .. n
  BY <1>1
<1>3. k - 1 \in T
  BY <1>1, <1>2
<1> QED
  BY <1>1, <1>2, <1>3

\* A loop of n rounds, round i being the function g[i], has a run.
Runs(f, n, base, g) ==
    f = [i \in 0 .. n |-> IF i = 0 THEN base ELSE g[i][f[i - 1]]]

\* There is a run of every loop whose rounds lead from S to S.
LEMMA RunExists ==
    ASSUME NEW S, NEW n \in Nat, NEW base \in S, NEW g \in [1 .. n -> [S -> S]]
    PROVE  \E f : f \in [0 .. n -> S] /\ Runs(f, n, base, g)
<1> DEFINE Good(k, f) == f \in [0 .. k -> S] /\ Runs(f, k, base, g)
           T == {k \in 0 .. n : \E f : Good(k, f)}
<1>1. 0 \in T
  <2>1. Good(0, [i \in 0 .. 0 |-> base])
    BY DEF Runs
  <2>2. 0 \in 0 .. n
    OBVIOUS
  <2> HIDE DEF Good
  <2> QED BY <2>1, <2>2
<1>2. ASSUME NEW k \in 1 .. n, k - 1 \in T
      PROVE  k \in T
  <2>1. PICK old : Good(k - 1, old)
    BY <1>2
  <2> DEFINE f == [i \in 0 .. k |-> IF i = k THEN g[k][old[k - 1]] ELSE old[i]]
  <2>2. g[k] \in [S -> S] /\ old[k - 1] \in S /\ k # 0
    BY <2>1
  <2>3. \A i \in 0 .. k : i # k => i \in 0 .. k - 1
    OBVIOUS
  <2>4. f \in [0 .. k -> S]
    BY <2>1, <2>2, <2>3
  <2>5. ASSUME NEW i \in 0 .. k
        PROVE  f[i] = IF i = 0 THEN base ELSE g[i][f[i - 1]]
    <3>1. CASE i = k
      <4>1. k - 1 \in 0 .. k /\ k - 1 # k
        OBVIOUS
      <4>2. f[k - 1] = old[k - 1]
        BY <4>1
      <4> QED BY <2>2, <3>1, <4>2
    <3>2. CASE i # k
      <4>1. i \in 0 .. k - 1 /\ f[i] = old[i]
        BY <3>2
      <4>2. old[i] = IF i = 0 THEN base ELSE g[i][old[i - 1]]
        BY <2>1, <4>1 DEF Runs
      <4>3. i # 0 => i - 1 \in 0 .. k /\ i - 1 # k
        BY <4>1
      <4>4. i # 0 => f[i - 1] = old[i - 1]
        BY <4>3
      <4> QED BY <4>1, <4>2, <4>4
    <3> QED BY <3>1, <3>2
  <2> HIDE DEF f
  <2>6. f = [i \in 0 .. k |-> f[i]]
    BY <2>4
  <2>7. Runs(f, k, base, g)
    BY <2>5, <2>6 DEF Runs
  <2>8. k \in 0 .. n
    OBVIOUS
  <2>9. Good(k, f)
    BY <2>4, <2>7
  <2> HIDE DEF Good
  <2> QED BY <2>8, <2>9
<1>3. n \in T
  <2> HIDE DEF T
  <2>1. \A k \in 1 .. n : k - 1 \in T => k \in T
    BY <1>2
  <2>2. \A k \in 0 .. n : k \in T
    BY <1>1, <2>1, Counting
  <2> QED BY <2>2
<1> QED
  BY <1>3

-----------------------------------------------------------------------------
(***************************************************************************)
(* The nodes of a tree.                                                    *)
(***************************************************************************)
TreeNode == [val : Values, path : Seq(Nat)]
Limit == MaxDepth + 1

\* The levels are those that their definition says.
LevelsAre(level, tree) ==
    /\ level \in [0 .. Limit -> SUBSET TreeNode]
    /\ level[0] = {[val |-> tree, path |-> <<>>]}
    /\ \A n \in 1 .. Limit : level[n] = UNION {Inside(x) : x \in level[n - 1]}

LEMMA LimitType == Limit \in Nat /\ Limit # 0
  BY ModelAssumption DEF Limit

\* The first n elements of a sequence.
LEMMA PrefixOf ==
    ASSUME NEW S, NEW s \in Seq(S), NEW n \in 0 .. Len(s)
    PROVE  /\ SubSeq(s, 1, n) \in Seq(S) /\ Len(SubSeq(s, 1, n)) = n
           /\ \A i \in 1 .. n : SubSeq(s, 1, n)[i] = s[i]
<1>1. n \in Int /\ 1 \in Int /\ \A i \in 1 .. n : s[i] \in S
  OBVIOUS
<1>2. /\ SubSeq(s, 1, n) \in Seq(S)
      /\ Len(SubSeq(s, 1, n)) = IF 1 <= n THEN n - 1 + 1 ELSE 0
      /\ \A i \in 1 .. n - 1 + 1 : SubSeq(s, 1, n)[i] = s[1 + i - 1]
  BY <1>1, SubSeqProperties
<1> QED
  BY <1>2

LEMMA EndType ==
    ASSUME NEW p \in Seq(Nat)
    PROVE  /\ End(p) \in Nat
           /\ p # <<>> => /\ Len(p) \in Nat \ {0} /\ End(p) = p[Len(p)]
                          /\ Front(p) \in Seq(Nat) /\ Len(Front(p)) = Len(p) - 1
                          /\ \A i \in 1 .. Len(p) - 1 : Front(p)[i] = p[i]
           /\ \A s \in Nat : /\ Append(p, s) \in Seq(Nat) /\ Append(p, s) # <<>>
                             /\ End(Append(p, s)) = s /\ Front(Append(p, s)) = p
<1>1. Len(p) \in Nat /\ (p # <<>> => Len(p) # 0) /\ \A i \in 1 .. Len(p) : p[i] \in Nat
  OBVIOUS
<1>2. p # <<>> => /\ Len(p) \in Nat \ {0} /\ End(p) = p[Len(p)]
                  /\ Front(p) \in Seq(Nat) /\ Len(Front(p)) = Len(p) - 1
                  /\ \A i \in 1 .. Len(p) - 1 : Front(p)[i] = p[i]
  <2>1. Front(p) = SubSeq(p, 1, Len(p) - 1)
    BY DEF Front
  <2>2. ASSUME p # <<>>
        PROVE  /\ SubSeq(p, 1, Len(p) - 1) \in Seq(Nat) /\ Len(SubSeq(p, 1, Len(p) - 1)) = Len(p) - 1
               /\ \A i \in 1 .. Len(p) - 1 : SubSeq(p, 1, Len(p) - 1)[i] = p[i]
    <3>1. Len(p) - 1 \in 0 .. Len(p)
      BY <1>1, <2>2
    <3> QED BY <3>1, PrefixOf
  <2> QED BY <1>1, <2>1, <2>2 DEF End, Last
<1>3. ASSUME NEW s \in Nat
      PROVE  /\ Append(p, s) \in Seq(Nat) /\ Append(p, s) # <<>>
             /\ End(Append(p, s)) = s /\ Front(Append(p, s)) = p
  <2>1. /\ Append(p, s) \in Seq(Nat) /\ Append(p, s) # <<>> /\ Len(Append(p, s)) = Len(p) + 1
        /\ Append(p, s)[Len(p) + 1] = s /\ \A i \in 1 .. Len(p) : Append(p, s)[i] = p[i]
    BY AppendProperties
  <2>2. End(Append(p, s)) = s
    BY <2>1 DEF End, Last
  <2>3. Front(Append(p, s)) = SubSeq(Append(p, s), 1, Len(p))
    BY <1>1, <2>1 DEF Front
  <2>4. SubSeq(Append(p, s), 1, Len(p)) = p
    BY <1>1, <2>1
  <2> QED BY <2>1, <2>2, <2>3, <2>4
<1> QED
  BY <1>1, <1>2, <1>3 DEF End

LEMMA InsideType ==
    ASSUME NEW x \in TreeNode
    PROVE  Inside(x) \in SUBSET TreeNode
<1>1. x.val \in Values /\ x.path \in Seq(Nat) /\ IsValue(x.val) /\ End(x.path) \in Nat
  BY ModelAssumption, EndType DEF TreeNode
<1>2. CASE x.val.t = "map"
  <2>1. \A d \in DOMAIN x.val.v : /\ x.val.v[d] \in Values /\ d \in Nat
                                  /\ Append(x.path, d + End(x.path)) \in Seq(Nat)
    BY <1>1, <1>2, EndType DEF IsValue
  <2>2. Inside(x) = {[val |-> x.val.v[d], path |-> Append(x.path, d + End(x.path))] :
                        d \in DOMAIN x.val.v}
    BY <1>2 DEF Inside
  <2>3. ASSUME NEW y \in Inside(x)
        PROVE  y \in TreeNode
    <3>1. PICK d \in DOMAIN x.val.v :
                 y = [val |-> x.val.v[d], path |-> Append(x.path, d + End(x.path))]
      BY <2>2, <2>3
    <3> QED BY <2>1, <3>1 DEF TreeNode
  <2> QED BY <2>3
<1>3. CASE x.val.t = "array"
  BY <1>1, <1>3 DEF IsValue, Inside, TreeNode
<1> QED
  BY <1>2, <1>3 DEF Inside

LEMMA LevelsRun ==
    ASSUME NEW tree \in Values
    PROVE  LevelsAre(Levels(tree), tree)
<1> DEFINE base == {[val |-> tree, path |-> <<>>]}
           Step(X) == UNION {Inside(x) : x \in X}
           g == [n \in 1 .. Limit |-> [X \in SUBSET TreeNode |-> Step(X)]]
           Eq(f) == f = [n \in 0 .. Limit |-> IF n = 0 THEN base ELSE Step(f[n - 1])]
<1>1. base \in SUBSET TreeNode
  BY DEF TreeNode
<1>2. g \in [1 .. Limit -> [SUBSET TreeNode -> SUBSET TreeNode]]
  BY InsideType
<1>3. PICK it : it \in [0 .. Limit -> SUBSET TreeNode] /\ Runs(it, Limit, base, g)
  <2> HIDE DEF g, base
  <2> QED BY <1>1, <1>2, LimitType, RunExists
<1>4. Eq(it)
  <2>1. \A n \in 0 .. Limit : n # 0 => n \in 1 .. Limit /\ n - 1 \in 0 .. Limit
    BY LimitType
  <2>2. \A n \in 0 .. Limit : n # 0 => g[n][it[n - 1]] = Step(it[n - 1])
    BY <1>3, <2>1
  <2> HIDE DEF g, base, Step
  <2> QED BY <1>3, <2>2 DEF Runs
<1>5. Levels(tree) = CHOOSE f : Eq(f)
  BY DEF Levels, Limit
<1>6. Eq(Levels(tree))
  <2> HIDE DEF Eq
  <2> QED BY <1>4, <1>5
<1>7. Levels(tree) \in [0 .. Limit -> SUBSET TreeNode]
  <2> DEFINE f == Levels(tree)
  <2>1. f[0] = base /\ 0 \in 0 .. Limit
    BY <1>6, LimitType
  <2> DEFINE T == {n \in 0 .. Limit : f[n] \in SUBSET TreeNode}
  <2>2. ASSUME NEW n \in 1 .. Limit, n - 1 \in T
        PROVE  n \in T
    <3>1. n \in 0 .. Limit /\ n # 0
      BY LimitType
    <3>2. f[n] = Step(f[n - 1])
      <4> HIDE DEF base, Step
      <4> QED BY <1>6, <3>1
    <3> QED BY <2>2, <3>1, <3>2, InsideType
  <2>3. 0 \in T
    BY <1>1, <2>1
  <2> HIDE DEF f
  <2>4. \A n \in 0 .. Limit : n \in T
    <3> HIDE DEF T
    <3> QED BY <2>2, <2>3, LimitType, Counting
  <2>5. f = [n \in 0 .. Limit |-> f[n]]
    BY <1>6 DEF f
  <2> QED BY <2>4, <2>5 DEF f
<1> QED
  BY <1>6, <1>7, LimitType DEF LevelsAre

\* The nodes directly inside a node, one by one.
LEMMA InsideCases ==
    ASSUME NEW x \in TreeNode, NEW y \in Inside(x)
    PROVE  \/ /\ x.val.t = "map"
              /\ \E d \in DOMAIN x.val.v :
                   /\ d \in Nat
                   /\ y = [val |-> x.val.v[d], path |-> Append(x.path, d + End(x.path))]
           \/ /\ x.val.t = "array"
              /\ \E i \in DOMAIN x.val.v : y = [val |-> x.val.v[i], path |-> x.path]
<1>1. IsValue(x.val)
  BY ModelAssumption DEF TreeNode
<1> QED
  BY <1>1 DEF Inside, IsValue

\* A path is not empty, and what it continues is a path or the root.
LEMMA PathsAreClosed ==
    ASSUME NEW tree \in Values
    PROVE  /\ Paths(tree) \subseteq Seq(Nat) \ {<<>>}
           /\ \A n \in 0 .. Limit : \A x \in Levels(tree)[n] :
                /\ x \in TreeNode
                /\ x.path # <<>> => x.path \in Paths(tree)
           /\ \A p \in Paths(tree) : Front(p) = <<>> \/ Front(p) \in Paths(tree)
<1> DEFINE level == Levels(tree)
           Closed(x) == x.path = <<>> \/ Front(x.path) = <<>> \/ Front(x.path) \in Paths(tree)
           T == {n \in 0 .. Limit : \A x \in level[n] : Closed(x)}
<1>1. LevelsAre(level, tree)
  BY LevelsRun
<1>2. Paths(tree) = {x.path : x \in UNION {level[n] : n \in 0 .. Limit}} \ {<<>>}
  BY DEF Paths, Limit
<1>3. \A n \in 0 .. Limit : \A x \in level[n] :
        x \in TreeNode /\ (x.path # <<>> => x.path \in Paths(tree))
  BY <1>1, <1>2 DEF LevelsAre
<1> HIDE DEF level
<1>4. 0 \in T
  BY <1>1, LimitType DEF LevelsAre
<1>5. ASSUME NEW n \in 1 .. Limit, n - 1 \in T
      PROVE  n \in T
  <2>1. n \in 0 .. Limit /\ n - 1 \in 0 .. Limit
    BY LimitType
  <2>2. ASSUME NEW x \in level[n]
        PROVE  Closed(x)
    <3>1. PICK y \in level[n - 1] : x \in Inside(y)
      BY <1>1, <2>2 DEF LevelsAre
    <3>2. y \in TreeNode /\ Closed(y) /\ (y.path # <<>> => y.path \in Paths(tree))
      BY <1>3, <1>5, <2>1
    <3>3. y.path \in Seq(Nat)
      BY <3>2 DEF TreeNode
    <3>4. CASE \E d \in DOMAIN y.val.v :
                  /\ d \in Nat
                  /\ x = [val |-> y.val.v[d], path |-> Append(y.path, d + End(y.path))]
      <4>1. PICK d \in Nat : x.path = Append(y.path, d + End(y.path))
        BY <3>4
      <4>2. d + End(y.path) \in Nat
        BY <3>3, EndType
      <4>3. Front(x.path) = y.path
        BY <3>3, <4>1, <4>2, EndType
      <4> QED BY <3>2, <4>3
    <3>5. CASE \E i \in DOMAIN y.val.v : x = [val |-> y.val.v[i], path |-> y.path]
      BY <3>2, <3>5
    <3> QED BY <3>1, <3>2, <3>4, <3>5, InsideCases
  <2> QED BY <2>1, <2>2
<1>6. \A n \in 0 .. Limit : n \in T
  <2> HIDE DEF T
  <2> QED BY <1>4, <1>5, LimitType, Counting
<1>7. \A p \in Paths(tree) : Front(p) = <<>> \/ Front(p) \in Paths(tree)
  BY <1>2, <1>6
<1>8. Paths(tree) \subseteq Seq(Nat) \ {<<>>}
  BY <1>2, <1>3 DEF TreeNode
<1> QED
  BY <1>3, <1>7, <1>8 DEF level

-----------------------------------------------------------------------------
(***************************************************************************)
(* The index.                                                              *)
(***************************************************************************)
\* A call and the node of the tree that it is for.
IsFor(c, x) ==
    /\ x.val = c.val /\ End(x.path) = c.sid
    /\ c.entry => x.path # <<>> /\ End(Front(x.path)) = c.parent
CallOf(tree) ==
    {c \in [val : Values, sid : Nat, depth : 0 .. Limit, entry : BOOLEAN, parent : Nat] :
        \E x \in Levels(tree)[c.depth] : IsFor(c, x)}

LEMMA CalledType ==
    ASSUME NEW tree \in Values, NEW c \in CallOf(tree)
    PROVE  /\ Called(c) \in Seq(CallOf(tree))
           /\ \A b \in Range(Called(c)) : \/ b.entry /\ b.parent = c.sid
                                          \/ ~ b.entry /\ b.sid = c.sid
<1> DEFINE level == Levels(tree)
<1>0. /\ c.val \in Values /\ c.sid \in Nat /\ c.depth \in 0 .. Limit /\ IsValue(c.val)
  BY ModelAssumption DEF CallOf
<1>1. PICK x \in level[c.depth] : IsFor(c, x)
  BY DEF CallOf
<1>2. x \in TreeNode /\ x.path \in Seq(Nat) /\ x.val = c.val /\ End(x.path) = c.sid
  BY <1>0, <1>1, PathsAreClosed DEF IsFor, TreeNode
<1>3. CASE c.depth > MaxDepth
  <2>1. Called(c) = <<>>
    BY <1>3 DEF Called
  <2> QED BY <2>1 DEF Range
<1>4. CASE ~ c.depth > MaxDepth
  <2>1. c.depth + 1 \in 1 .. Limit /\ c.depth + 1 \in 0 .. Limit /\ (c.depth + 1) - 1 = c.depth
    BY <1>0, <1>4, ModelAssumption DEF Limit
  <2>2. \A y \in Inside(x) : y \in level[c.depth + 1]
    BY <1>1, <2>1, LevelsRun DEF LevelsAre
  <2> HIDE DEF level
  <2>3. CASE c.val.t = "map"
    <3> DEFINE v == Visited(c.val.v)
               e(i) == [val |-> c.val.v[v[i]], sid |-> v[i] + c.sid, depth |-> c.depth + 1,
                        entry |-> TRUE, parent |-> c.sid]
    <3>1. v \in Seq(DOMAIN c.val.v) /\ DOMAIN c.val.v \subseteq Nat
          /\ \A d \in DOMAIN c.val.v : c.val.v[d] \in Values
      BY <1>0, <2>3 DEF IsValue
    <3>2. Called(c) = [i \in 1 .. Len(v) |-> e(i)]
      <4>1. DOMAIN v = 1 .. Len(v)
        BY <3>1
      <4> QED BY <1>4, <2>3, <4>1 DEF Called
    <3>3. ASSUME NEW i \in 1 .. Len(v)
          PROVE  e(i) \in CallOf(tree)
      <4>1. v[i] \in DOMAIN c.val.v /\ v[i] \in Nat /\ c.val.v[v[i]] \in Values
        BY <3>1, <3>3
      <4> DEFINE y == [val |-> c.val.v[v[i]], path |-> Append(x.path, v[i] + c.sid)]
      <4>2. y \in Inside(x)
        BY <1>2, <2>3, <4>1 DEF Inside
      <4>3. v[i] + c.sid \in Nat
        BY <1>0, <4>1
      <4>4. /\ y.path # <<>> /\ End(y.path) = v[i] + c.sid /\ Front(y.path) = x.path
        BY <1>2, <4>3, EndType
      <4>5. IsFor(e(i), y)
        BY <1>2, <4>4 DEF IsFor
      <4>6. e(i) \in [val : Values, sid : Nat, depth : 0 .. Limit, entry : BOOLEAN, parent : Nat]
        BY <1>0, <2>1, <4>1, <4>3
      <4>7. e(i).depth = c.depth + 1
        OBVIOUS
      <4> HIDE DEF e, y
      <4> QED BY <2>2, <4>2, <4>5, <4>6, <4>7 DEF CallOf, level
    <3>4. \A i \in 1 .. Len(v) : e(i).entry /\ e(i).parent = c.sid
      OBVIOUS
    <3> HIDE DEF v, e
    <3>5. Called(c) \in Seq(CallOf(tree))
      <4>1. Len(v) \in Nat
        BY <3>1
      <4> QED BY <3>2, <3>3, <4>1
    <3> QED BY <3>2, <3>4, <3>5 DEF Range
  <2>4. CASE c.val.t = "array"
    <3> DEFINE v == c.val.v
               e(i) == [val |-> v[i], sid |-> c.sid, depth |-> c.depth + 1, entry |-> FALSE,
                        parent |-> 0]
    <3>1. v \in Seq(Values) /\ Len(v) \in Nat /\ DOMAIN v = 1 .. Len(v)
      BY <1>0, <2>4 DEF IsValue
    <3>2. Called(c) = [i \in 1 .. Len(v) |-> e(i)]
      BY <1>4, <2>4, <3>1 DEF Called
    <3>3. ASSUME NEW i \in 1 .. Len(v)
          PROVE  e(i) \in CallOf(tree)
      <4> DEFINE y == [val |-> v[i], path |-> x.path]
      <4>1. v[i] \in Values
        BY <3>1
      <4>2. y \in Inside(x)
        BY <1>2, <2>4, <3>1 DEF Inside
      <4>5. IsFor(e(i), y)
        BY <1>2 DEF IsFor
      <4>6. e(i) \in [val : Values, sid : Nat, depth : 0 .. Limit, entry : BOOLEAN, parent : Nat]
        BY <1>0, <2>1, <4>1
      <4>7. e(i).depth = c.depth + 1
        OBVIOUS
      <4> HIDE DEF e, y
      <4> QED BY <2>2, <4>2, <4>5, <4>6, <4>7 DEF CallOf, level
    <3>4. \A i \in 1 .. Len(v) : ~ e(i).entry /\ e(i).sid = c.sid
      OBVIOUS
    <3> HIDE DEF v, e
    <3>5. Called(c) \in Seq(CallOf(tree))
      BY <3>1, <3>2, <3>3
    <3> QED BY <3>2, <3>4, <3>5 DEF Range
  <2>5. CASE c.val.t \notin {"map", "array"}
    <3>1. Called(c) = <<>>
      BY <1>4, <2>5 DEF Called
    <3> QED BY <3>1 DEF Range
  <2> QED BY <2>3, <2>4, <2>5
<1> QED
  BY <1>3, <1>4

\* What a flattened sequence of sequences holds.
LEMMA Flattened ==
    ASSUME NEW S, NEW ss \in Seq(Seq(S))
    PROVE  /\ FlattenSeq(ss) \in Seq(S)
           /\ Range(FlattenSeq(ss)) = UNION {Range(ss[i]) : i \in 1 .. Len(ss)}
<1> DEFINE n == Len(ss)
           Eq(f) == f = [i \in 1 .. n |-> IF i = 1 THEN ss[i] ELSE f[i - 1] \o ss[i]]
<1>1. n \in Nat /\ \A i \in 1 .. n : ss[i] \in Seq(S)
  OBVIOUS
<1>2. CASE n = 0
  <2>1. FlattenSeq(ss) = <<>> /\ ss = <<>>
    BY <1>2 DEF FlattenSeq
  <2> QED BY <2>1 DEF Range
<1>3. CASE n # 0
  <2> DEFINE g == [i \in 1 .. n |-> [x \in Seq(S) |-> x \o ss[i]]]
  <2>1. g \in [1 .. n -> [Seq(S) -> Seq(S)]] /\ <<>> \in Seq(S)
    BY <1>1
  <2>2. PICK it : it \in [0 .. n -> Seq(S)] /\ Runs(it, n, <<>>, g)
    <3> HIDE DEF g, n
    <3> QED BY <1>1, <2>1, RunExists
  <2>3. it[0] = <<>> /\ \A i \in 1 .. n : it[i - 1] \in Seq(S) /\ it[i] = it[i - 1] \o ss[i]
    <3>1. \A i \in 1 .. n : i \in 0 .. n /\ i # 0 /\ i - 1 \in 0 .. n
      BY <1>1
    <3>2. 0 \in 0 .. n
      BY <1>1
    <3>3. \A i \in 1 .. n : it[i] = g[i][it[i - 1]]
      <4> HIDE DEF g, n
      <4> QED BY <2>2, <3>1 DEF Runs
    <3> HIDE DEF n
    <3> QED BY <2>2, <3>1, <3>2, <3>3 DEF Runs
  <2>4. Eq([i \in 1 .. n |-> it[i]])
    <3>1. ASSUME NEW i \in 1 .. n
          PROVE  it[i] = IF i = 1 THEN ss[i] ELSE [k \in 1 .. n |-> it[k]][i - 1] \o ss[i]
      <4>1. CASE i = 1
        <5>1. it[1] = <<>> \o ss[1] /\ ss[1] \in Seq(S)
          <6>1. 1 \in 1 .. n /\ 1 - 1 = 0
            BY <1>1, <1>3
          <6> QED BY <1>1, <2>3, <6>1
        <5>2. <<>> \o ss[1] = ss[1]
          BY <5>1, ConcatEmptySeq
        <5> QED BY <4>1, <5>1, <5>2
      <4>2. CASE i # 1
        <5>1. i - 1 \in 1 .. n
          BY <1>1, <4>2
        <5> QED BY <2>3, <4>2, <5>1
      <4> QED BY <4>1, <4>2
    <3> HIDE DEF n
    <3> QED BY <3>1
  <2>5. FlattenSeq(ss) = (CHOOSE f : Eq(f))[n]
    BY <1>3 DEF FlattenSeq
  <2> DEFINE f == CHOOSE f : Eq(f)
  <2>6. Eq(f)
    <3> HIDE DEF Eq
    <3> QED BY <2>4
  <2> HIDE DEF f, g
  <2> DEFINE Held(i) == UNION {Range(ss[j]) : j \in 1 .. i}
             T == {i \in 0 .. n : i # 0 => f[i] \in Seq(S) /\ Range(f[i]) = Held(i)}
  <2>7. ASSUME NEW i \in 1 .. n, i - 1 \in T
        PROVE  i \in T
    <3>1. f[i] = IF i = 1 THEN ss[i] ELSE f[i - 1] \o ss[i]
      <4> HIDE DEF n
      <4> QED BY <2>6
    <3>2. CASE i = 1
      <4>1. Held(1) = Range(ss[1])
        BY <1>1
      <4> HIDE DEF Held
      <4> QED BY <1>1, <3>1, <3>2, <4>1
    <3>3. CASE i # 1
      <4>1. f[i - 1] \in Seq(S) /\ Range(f[i - 1]) = Held(i - 1)
        BY <1>1, <2>7, <3>3
      <4>2. f[i] = f[i - 1] \o ss[i] /\ ss[i] \in Seq(S) /\ i \in 0 .. n
        <5>1. i \in 0 .. n
          BY <1>1
        <5> HIDE DEF n
        <5> QED BY <1>1, <3>1, <3>3, <5>1
      <4>3. f[i] \in Seq(S) /\ Range(f[i]) = Range(f[i - 1]) \cup Range(ss[i])
        <5> DEFINE a == f[i - 1]
                   b == ss[i]
        <5>1. /\ a \o b \in Seq(S) /\ Len(a) \in Nat /\ Len(b) \in Nat
              /\ Len(a \o b) = Len(a) + Len(b)
              /\ \A k \in 1 .. Len(a) + Len(b) :
                   (a \o b)[k] = IF k <= Len(a) THEN a[k] ELSE b[k - Len(a)]
          <6> HIDE DEF a, b
          <6>1. a \in Seq(S) /\ b \in Seq(S)
            BY <4>1, <4>2 DEF a, b
          <6> QED BY <6>1, ConcatProperties
        <5>2. DOMAIN a = 1 .. Len(a) /\ DOMAIN b = 1 .. Len(b) /\ DOMAIN (a \o b) = 1 .. Len(a) + Len(b)
          BY <4>1, <4>2, <5>1
        <5>3. f[i] = a \o b
          BY <4>2
        <5> HIDE DEF a, b
        <5>4. \A k \in 1 .. Len(b) : /\ Len(a) + k \in 1 .. Len(a) + Len(b)
                                     /\ (a \o b)[Len(a) + k] = b[k]
          BY <5>1
        <5>5. \A k \in 1 .. Len(a) : /\ k \in 1 .. Len(a) + Len(b)
                                     /\ (a \o b)[k] = a[k]
          BY <5>1
        <5>6. \A k \in 1 .. Len(a) + Len(b) : k > Len(a) => k - Len(a) \in 1 .. Len(b)
          BY <5>1
        <5>7. Range(a \o b) = Range(a) \cup Range(b)
          <6>1. ASSUME NEW y \in Range(a \o b)
                PROVE  y \in Range(a) \cup Range(b)
            <7>1. PICK k \in 1 .. Len(a) + Len(b) : y = (a \o b)[k]
              BY <5>2, <6>1 DEF Range
            <7>2. CASE k <= Len(a)
              BY <5>1, <5>2, <7>1, <7>2 DEF Range
            <7>3. CASE k > Len(a)
              <8>1. k - Len(a) \in DOMAIN b /\ y = b[k - Len(a)]
                BY <5>1, <5>2, <5>6, <7>1, <7>3
              <8> QED BY <8>1 DEF Range
            <7> QED BY <5>1, <7>2, <7>3
          <6>2. Range(a) \subseteq Range(a \o b)
            BY <5>2, <5>5 DEF Range
          <6>3. Range(b) \subseteq Range(a \o b)
            BY <5>2, <5>4 DEF Range
          <6> QED BY <6>1, <6>2, <6>3
        <5> QED BY <5>1, <5>3, <5>7 DEF a, b
      <4>4. Held(i) = Held(i - 1) \cup Range(ss[i])
        <5>1. 1 .. i = (1 .. i - 1) \cup {i}
          BY <1>1
        <5> QED BY <5>1
      <4> HIDE DEF Held
      <4> QED BY <4>1, <4>2, <4>3, <4>4
    <3> QED BY <3>2, <3>3
  <2>8. 0 \in T
    BY <1>1
  <2>9. n \in T
    <3> HIDE DEF T, n
    <3>1. \A i \in 0 .. n : i \in T
      BY <1>1, <2>7, <2>8, Counting
    <3> QED BY <1>1, <3>1
  <2> QED BY <1>3, <2>5, <2>9 DEF f
<1> QED
  BY <1>2, <1>3

\* Every SID that is noted, and every parent but the root, has an entry.
HasEntry(X, s) == \E e \in Range(X) : e.entry /\ e.sid = s
Linked(X) ==
    \A c \in Range(X) : /\ c.sid # 0 => HasEntry(X, c.sid)
                        /\ c.entry /\ c.parent # 0 => HasEntry(X, c.parent)

LEMMA ExpandedType ==
    ASSUME NEW tree \in Values, NEW X \in Seq(CallOf(tree)), NEW d
    PROVE  /\ Expanded(X, d) \in Seq(CallOf(tree))
           /\ Linked(X) => Linked(Expanded(X, d))
<1> DEFINE S == CallOf(tree)
           e(i) == IF X[i].depth = d THEN <<X[i]>> \o Called(X[i]) ELSE <<X[i]>>
           ss == [i \in 1 .. Len(X) |-> e(i)]
<1>1. Len(X) \in Nat /\ DOMAIN X = 1 .. Len(X) /\ \A i \in 1 .. Len(X) : X[i] \in S
  OBVIOUS
<1>2. \A i \in 1 .. Len(X) :
        /\ e(i) \in Seq(S)
        /\ X[i] \in Range(e(i))
        /\ Range(e(i)) \subseteq {X[i]} \cup Range(Called(X[i]))
  <2>1. TAKE i \in 1 .. Len(X)
  <2> DEFINE a == <<X[i]>>
             b == Called(X[i])
  <2>2. a \in Seq(S) /\ b \in Seq(S)
    BY <1>1, CalledType
  <2>3. CASE X[i].depth # d
    BY <1>1, <2>3 DEF Range
  <2>4. CASE X[i].depth = d
    <3> HIDE DEF b
    <3>1. a \o b \in Seq(S) /\ Len(a \o b) = 1 + Len(b) /\ Len(b) \in Nat
          /\ DOMAIN b = 1 .. Len(b)
      BY <2>2
    <3>2. DOMAIN (a \o b) = 1 .. 1 + Len(b)
      BY <3>1
    <3>3. \A k \in 1 .. 1 + Len(b) : (a \o b)[k] = IF k = 1 THEN X[i] ELSE b[k - 1]
      BY <2>2, <3>1
    <3>4. \A k \in 1 .. 1 + Len(b) : k # 1 => k - 1 \in DOMAIN b
      BY <3>1
    <3>5. Range(a \o b) \subseteq {X[i]} \cup Range(b) /\ X[i] \in Range(a \o b)
      <4>1. \A k \in 1 .. 1 + Len(b) : (a \o b)[k] \in {X[i]} \cup Range(b)
        BY <3>3, <3>4 DEF Range
      <4>2. 1 \in 1 .. 1 + Len(b) /\ (a \o b)[1] = X[i]
        BY <3>1, <3>3
      <4> HIDE DEF a
      <4> QED BY <3>2, <4>1, <4>2 DEF Range
    <3>6. e(i) = a \o b
      BY <2>4 DEF b
    <3> QED BY <3>1, <3>5, <3>6 DEF b
  <2> QED BY <2>3, <2>4
<1>3. ss \in Seq(Seq(S)) /\ Len(ss) = Len(X) /\ Expanded(X, d) = FlattenSeq(ss)
  <2>1. Expanded(X, d) = FlattenSeq(ss)
    BY <1>1 DEF Expanded
  <2> HIDE DEF e
  <2> QED BY <1>1, <1>2, <2>1
<1>4. /\ Expanded(X, d) \in Seq(S)
      /\ Range(Expanded(X, d)) = UNION {Range(e(i)) : i \in 1 .. Len(X)}
  <2>1. \A i \in 1 .. Len(X) : ss[i] = e(i)
    OBVIOUS
  <2> HIDE DEF e, ss, S
  <2>2. /\ Expanded(X, d) \in Seq(S)
        /\ Range(Expanded(X, d)) = UNION {Range(ss[i]) : i \in 1 .. Len(ss)}
    BY <1>3, Flattened
  <2>3. {Range(ss[i]) : i \in 1 .. Len(ss)} = {Range(e(i)) : i \in 1 .. Len(X)}
    BY <1>3, <2>1
  <2> QED BY <2>2, <2>3
<1>5. /\ Range(X) \subseteq Range(Expanded(X, d))
      /\ \A c \in Range(Expanded(X, d)) :
           \E b \in Range(X) : b \in S /\ (c = b \/ c \in Range(Called(b)))
  <2>1. \A c \in Range(X) : \E i \in 1 .. Len(X) : c = X[i]
    BY <1>1 DEF Range
  <2>2. \A i \in 1 .. Len(X) : X[i] \in Range(X)
    BY <1>1 DEF Range
  <2> HIDE DEF e
  <2> QED BY <1>1, <1>2, <1>4, <2>1, <2>2
<1>6. ASSUME Linked(X), NEW c \in Range(Expanded(X, d))
      PROVE  /\ c.sid # 0 => HasEntry(Expanded(X, d), c.sid)
             /\ c.entry /\ c.parent # 0 => HasEntry(Expanded(X, d), c.parent)
  <2>1. PICK b \in Range(X) : b \in S /\ (c = b \/ c \in Range(Called(b)))
    BY <1>5
  <2>2. \A s : HasEntry(X, s) => HasEntry(Expanded(X, d), s)
    BY <1>5 DEF HasEntry
  <2>3. /\ b.sid # 0 => HasEntry(X, b.sid)
        /\ b.entry /\ b.parent # 0 => HasEntry(X, b.parent)
    BY <1>6 DEF Linked
  <2>4. CASE c \in Range(Called(b))
    <3>1. (c.entry /\ c.parent = b.sid) \/ (~ c.entry /\ c.sid = b.sid)
      BY <2>1, <2>4, CalledType
    <3>2. c.entry => HasEntry(Expanded(X, d), c.sid)
      BY <1>6 DEF HasEntry
    <3> QED BY <2>2, <2>3, <3>1, <3>2
  <2> QED BY <2>1, <2>2, <2>3, <2>4
<1> QED
  BY <1>4, <1>6 DEF Linked

LEMMA CallsType ==
    ASSUME NEW tree \in Values
    PROVE  Calls(tree) \in Seq(CallOf(tree)) /\ Linked(Calls(tree))
<1> DEFINE S == {X \in Seq(CallOf(tree)) : Linked(X)}
           base == <<FirstCall(tree)>>
           g == [n \in 1 .. Limit |-> [X \in S |-> Expanded(X, n - 1)]]
           Eq(f) == f = [n \in 0 .. Limit |-> IF n = 0 THEN base ELSE Expanded(f[n - 1], n - 1)]
<1>1. base \in S
  <2> DEFINE x == [val |-> tree, path |-> <<>>]
  <2>1. x \in Levels(tree)[0] /\ IsFor(FirstCall(tree), x)
    BY LevelsRun DEF LevelsAre, IsFor, FirstCall, End
  <2>2. FirstCall(tree) \in [val : Values, sid : Nat, depth : 0 .. Limit, entry : BOOLEAN, parent : Nat]
        /\ FirstCall(tree).depth = 0
    BY LimitType DEF FirstCall
  <2>3. FirstCall(tree) \in CallOf(tree)
    BY <2>1, <2>2 DEF CallOf
  <2>4. FirstCall(tree).sid = 0 /\ ~ FirstCall(tree).entry /\ Range(base) = {FirstCall(tree)}
    <3>1. Range(base) = {base[i] : i \in DOMAIN base} /\ DOMAIN base = {1}
      BY DEF Range
    <3> QED BY <3>1 DEF FirstCall
  <2>5. Linked(base)
    BY <2>4 DEF Linked
  <2> QED BY <2>3, <2>5
<1>2. g \in [1 .. Limit -> [S -> S]]
  BY ExpandedType
<1>3. PICK it : it \in [0 .. Limit -> S] /\ Runs(it, Limit, base, g)
  <2> HIDE DEF g, base, S
  <2> QED BY <1>1, <1>2, LimitType, RunExists
<1>4. Eq(it)
  <2>1. \A n \in 0 .. Limit : n # 0 => n \in 1 .. Limit /\ n - 1 \in 0 .. Limit
    BY LimitType
  <2>2. \A n \in 0 .. Limit : n # 0 => g[n][it[n - 1]] = Expanded(it[n - 1], n - 1)
    <3> HIDE DEF S
    <3> QED BY <1>3, <2>1
  <2> HIDE DEF g, base
  <2> QED BY <1>3, <2>2 DEF Runs
<1>5. Calls(tree) = (CHOOSE f : Eq(f))[Limit]
  BY DEF Calls, Limit
<1> DEFINE f == CHOOSE f : Eq(f)
<1>6. Eq(f)
  <2> HIDE DEF Eq
  <2> QED BY <1>4
<1> HIDE DEF f
<1>7. f[Limit] \in S
  <2>1. f[0] = base /\ 0 \in 0 .. Limit
    BY <1>6, LimitType
  <2> DEFINE T == {n \in 0 .. Limit : f[n] \in S}
  <2>2. ASSUME NEW n \in 1 .. Limit, n - 1 \in T
        PROVE  n \in T
    <3>1. n \in 0 .. Limit /\ n # 0
      BY LimitType
    <3>2. f[n] = Expanded(f[n - 1], n - 1)
      <4> HIDE DEF base
      <4> QED BY <1>6, <3>1
    <3> QED BY <2>2, <3>1, <3>2, ExpandedType
  <2>3. 0 \in T
    BY <1>1, <2>1
  <2>4. \A n \in 0 .. Limit : n \in T
    <3> HIDE DEF T
    <3> QED BY <2>2, <2>3, LimitType, Counting
  <2> QED BY <2>4, LimitType
<1> QED
  BY <1>5, <1>7 DEF f

\* An index: some SIDs, each with a list of parents.
Index == UNION {[D -> Seq(Nat)] : D \in SUBSET Nat}

\* The lists of an index are noted by some of the calls X.
NotedBy(ix, X) ==
    /\ ix \in Index
    /\ \A s \in DOMAIN ix :
         /\ HasEntry(X, s)
         /\ \A k \in Range(ix[s]) : \E e \in Range(X) : e.entry /\ e.sid = s /\ e.parent = k

LEMMA NotedType ==
    ASSUME NEW tree \in Values, NEW X \in Seq(CallOf(tree)), NEW c \in Range(X),
           NEW ix, NotedBy(ix, X)
    PROVE  /\ NotedBy(Noted(ix, c), X)
           /\ DOMAIN Noted(ix, c) = DOMAIN ix \cup (IF c.entry THEN {c.sid} ELSE {})
<1>1. c \in CallOf(tree) /\ c.sid \in Nat /\ c.parent \in Nat /\ c.entry \in BOOLEAN
  BY DEF CallOf, Range
<1>2. CASE ~ c.entry
  BY <1>2 DEF Noted
<1>3. CASE c.entry
  <2> DEFINE new == Noted(ix, c)
             old == IF c.sid \in DOMAIN ix THEN ix[c.sid] ELSE <<>>
             list == addUniqueLong(old, c.parent)
  <2>1. DOMAIN ix \subseteq Nat /\ \A s \in DOMAIN ix : ix[s] \in Seq(Nat)
    <3>1. PICK D \in SUBSET Nat : ix \in [D -> Seq(Nat)]
      BY DEF NotedBy, Index
    <3> QED BY <3>1
  <2>2. old \in Seq(Nat)
    BY <2>1
  <2>3. list \in Seq(Nat) /\ Range(list) \subseteq Range(old) \cup {c.parent}
    <3>1. CASE Contains(old, c.parent)
      BY <2>2, <3>1 DEF addUniqueLong
    <3>2. CASE ~ Contains(old, c.parent)
      <4> HIDE DEF old
      <4>1. list = Append(old, c.parent)
        BY <3>2 DEF addUniqueLong, addLong
      <4>2. /\ list \in Seq(Nat) /\ DOMAIN list = 1 .. Len(old) + 1 /\ Len(old) \in Nat
            /\ DOMAIN old = 1 .. Len(old)
            /\ \A i \in 1 .. Len(old) + 1 : list[i] = IF i <= Len(old) THEN old[i] ELSE c.parent
        BY <1>1, <2>2, <4>1
      <4> HIDE DEF list
      <4>3. \A i \in 1 .. Len(old) + 1 : i <= Len(old) => i \in DOMAIN old
        BY <4>2
      <4> QED BY <4>2, <4>3 DEF Range
    <3> QED BY <3>1, <3>2
  <2>4. new = [s \in DOMAIN ix \cup {c.sid} |-> IF s # c.sid THEN ix[s] ELSE list]
    BY <1>3 DEF Noted, AddParent
  <2> HIDE DEF new, list
  <2>5. DOMAIN new = DOMAIN ix \cup {c.sid}
    BY <2>4
  <2>6. new \in [DOMAIN ix \cup {c.sid} -> Seq(Nat)]
    BY <2>1, <2>3, <2>4
  <2>7. new \in Index
    BY <1>1, <2>1, <2>6 DEF Index
  <2>8. ASSUME NEW s \in DOMAIN new
        PROVE  /\ HasEntry(X, s)
               /\ \A k \in Range(new[s]) : \E e \in Range(X) : e.entry /\ e.sid = s /\ e.parent = k
    <3>1. CASE s # c.sid
      BY <2>4, <2>5, <3>1 DEF NotedBy
    <3>2. CASE s = c.sid
      <4>1. HasEntry(X, s)
        BY <1>3, <3>2 DEF HasEntry
      <4>2. \A k \in Range(old) : \E e \in Range(X) : e.entry /\ e.sid = s /\ e.parent = k
        <5>1. CASE c.sid \in DOMAIN ix
          BY <3>2, <5>1 DEF NotedBy
        <5>2. CASE c.sid \notin DOMAIN ix
          BY <5>2 DEF Range
        <5> QED BY <5>1, <5>2
      <4>3. new[s] = list
        BY <2>4, <2>5, <3>2
      <4> HIDE DEF old
      <4> QED BY <1>3, <2>3, <3>2, <4>1, <4>2, <4>3
    <3> QED BY <3>1, <3>2
  <2> QED BY <1>3, <2>5, <2>7, <2>8 DEF NotedBy, new
<1> QED
  BY <1>1, <1>2, <1>3

\* The index has a list for every entry.
LEMMA IndexIsNoted ==
    ASSUME NEW tree \in Values
    PROVE  LET ix == buildCLookupHashmapFromCoreconf(tree)
           IN  /\ NotedBy(ix, Calls(tree))
               /\ \A c \in Range(Calls(tree)) : c.entry => c.sid \in DOMAIN ix
<1> DEFINE X == Calls(tree)
           n == Len(X)
           S == {ix \in Index : NotedBy(ix, X)}
           g == [i \in 1 .. n |-> [ix \in S |-> Noted(ix, X[i])]]
           Eq(f) == f = [i \in 0 .. n |-> IF i = 0 THEN NoIndex ELSE Noted(f[i - 1], X[i])]
<1>1. /\ X \in Seq(CallOf(tree)) /\ n \in Nat /\ DOMAIN X = 1 .. n
      /\ \A i \in 1 .. n : X[i] \in Range(X)
  BY CallsType DEF Range
<1>2. NoIndex \in S
  <2>1. NoIndex \in [{} -> Seq(Nat)] /\ DOMAIN NoIndex = {}
    BY DEF NoIndex
  <2> QED BY <2>1 DEF NotedBy, Index
<1>3. \A i \in 1 .. n : \A ix \in S :
        /\ Noted(ix, X[i]) \in S
        /\ DOMAIN Noted(ix, X[i]) = DOMAIN ix \cup (IF X[i].entry THEN {X[i].sid} ELSE {})
  <2>1. TAKE i \in 1 .. n
  <2>2. TAKE ix \in S
  <2>3. NotedBy(ix, X) /\ X[i] \in Range(X) /\ X \in Seq(CallOf(tree))
    BY <1>1
  <2> HIDE DEF X
  <2>4. /\ NotedBy(Noted(ix, X[i]), X)
        /\ DOMAIN Noted(ix, X[i]) = DOMAIN ix \cup (IF X[i].entry THEN {X[i].sid} ELSE {})
    BY <2>3, NotedType
  <2> QED BY <2>4 DEF NotedBy
<1> HIDE DEF X, S
<1>4. g \in [1 .. n -> [S -> S]]
  BY <1>3
<1>5. PICK it : it \in [0 .. n -> S] /\ Runs(it, n, NoIndex, g)
  <2> HIDE DEF g, n
  <2> QED BY <1>1, <1>2, <1>4, RunExists
<1>6. Eq(it)
  <2>1. \A i \in 0 .. n : i # 0 => i \in 1 .. n /\ i - 1 \in 0 .. n
    BY <1>1
  <2>2. \A i \in 0 .. n : i # 0 => g[i][it[i - 1]] = Noted(it[i - 1], X[i])
    BY <1>5, <2>1
  <2> HIDE DEF g, n
  <2> QED BY <1>5, <2>2 DEF Runs
<1>7. buildCLookupHashmapFromCoreconf(tree) = (CHOOSE f : Eq(f))[n]
  BY DEF buildCLookupHashmapFromCoreconf, X
<1> DEFINE f == CHOOSE f : Eq(f)
<1>8. Eq(f)
  <2> HIDE DEF Eq
  <2> QED BY <1>6
<1> HIDE DEF f
<1> DEFINE T == {i \in 0 .. n : /\ f[i] \in S
                                /\ \A k \in 1 .. i : X[k].entry => X[k].sid \in DOMAIN f[i]}
<1>9. 0 \in T
  <2>1. f[0] = NoIndex /\ 0 \in 0 .. n
    BY <1>1, <1>8
  <2> QED BY <1>2, <2>1
<1>10. ASSUME NEW i \in 1 .. n, i - 1 \in T
       PROVE  i \in T
  <2>1. i \in 0 .. n /\ i # 0
    BY <1>1
  <2>2. f[i] = Noted(f[i - 1], X[i])
    <3> HIDE DEF n
    <3> QED BY <1>8, <2>1
  <2>3. \A k \in 1 .. i : k = i \/ k \in 1 .. i - 1
    BY <1>1
  <2>4. f[i - 1] \in S /\ \A k \in 1 .. i - 1 : X[k].entry => X[k].sid \in DOMAIN f[i - 1]
    BY <1>10
  <2> HIDE DEF n
  <2>5. /\ f[i] \in S
        /\ DOMAIN f[i] = DOMAIN f[i - 1] \cup (IF X[i].entry THEN {X[i].sid} ELSE {})
    BY <1>3, <2>2, <2>4
  <2> QED BY <2>1, <2>3, <2>4, <2>5
<1>11. n \in T
  <2> HIDE DEF T, n
  <2>1. \A i \in 0 .. n : i \in T
    BY <1>1, <1>9, <1>10, Counting
  <2> QED BY <1>1, <2>1
<1>12. \A c \in Range(X) : c.entry => c.sid \in DOMAIN f[n]
  <2> HIDE DEF n
  <2>1. \A c \in Range(X) : \E k \in 1 .. n : c = X[k]
    BY <1>1 DEF Range
  <2> QED BY <1>11, <2>1
<1> QED
  BY <1>7, <1>11, <1>12 DEF f, S, X

\* What an index says is so in the tree: a SID in it ends a path, a parent is
\* the SID before it on a path, and it is in the index too or the root.
SoundIndex(ix, tree) ==
    /\ ix \in Index
    /\ \A s \in DOMAIN ix :
         /\ \E q \in Paths(tree) : End(q) = s
         /\ \A k \in Range(ix[s]) :
              /\ k # 0 => k \in DOMAIN ix
              /\ \E q \in Paths(tree) : End(q) = s /\ End(Front(q)) = k

LEMMA BuiltSound ==
    ASSUME NEW tree \in Values
    PROVE  SoundIndex(buildCLookupHashmapFromCoreconf(tree), tree)
<1> DEFINE ix == buildCLookupHashmapFromCoreconf(tree)
           X == Calls(tree)
<1>1. /\ NotedBy(ix, X)
      /\ \A c \in Range(X) : c.entry => c.sid \in DOMAIN ix
  BY IndexIsNoted
<1>2. X \in Seq(CallOf(tree)) /\ Linked(X)
  BY CallsType
<1> HIDE DEF ix, X
<1>3. ASSUME NEW e \in Range(X), e.entry
      PROVE  \E q \in Paths(tree) : End(q) = e.sid /\ End(Front(q)) = e.parent
  <2>1. e \in CallOf(tree)
    BY <1>2 DEF Range
  <2>2. e.depth \in 0 .. Limit
    BY <2>1 DEF CallOf
  <2>3. PICK x \in Levels(tree)[e.depth] : IsFor(e, x)
    BY <2>1 DEF CallOf
  <2>4. x.path \in Paths(tree)
    BY <1>3, <2>2, <2>3, PathsAreClosed DEF IsFor
  <2> QED BY <1>3, <2>3, <2>4 DEF IsFor
<1>4. ASSUME NEW s \in DOMAIN ix
      PROVE  /\ \E q \in Paths(tree) : End(q) = s
             /\ \A k \in Range(ix[s]) :
                  /\ k # 0 => k \in DOMAIN ix
                  /\ \E q \in Paths(tree) : End(q) = s /\ End(Front(q)) = k
  <2>1. HasEntry(X, s)
    BY <1>1 DEF NotedBy
  <2>2. \E q \in Paths(tree) : End(q) = s
    BY <1>3, <2>1 DEF HasEntry
  <2>3. ASSUME NEW k \in Range(ix[s])
        PROVE  /\ k # 0 => k \in DOMAIN ix
               /\ \E q \in Paths(tree) : End(q) = s /\ End(Front(q)) = k
    <3>1. PICK e \in Range(X) : e.entry /\ e.sid = s /\ e.parent = k
      BY <1>1 DEF NotedBy
    <3>2. k # 0 => HasEntry(X, k)
      BY <1>2, <3>1 DEF Linked
    <3>3. k # 0 => k \in DOMAIN ix
      BY <1>1, <3>2 DEF HasEntry
    <3> QED BY <1>3, <3>1, <3>3
  <2> QED BY <2>2, <2>3
<1> QED
  BY <1>1, <1>4 DEF SoundIndex, NotedBy, ix

\* Popping a list keeps the index sound.
LEMMA PoppedSound ==
    ASSUME NEW tree, NEW ix, SoundIndex(ix, tree), NEW s \in DOMAIN ix
    PROVE  /\ ix[s] \in Seq(Nat) /\ s \in Nat
           /\ Popped(ix[s]) = 0 \/ Popped(ix[s]) \in Range(ix[s])
           /\ ix[s] = <<>> => Popped(ix[s]) = 0
           /\ ix[s] # <<>> => Popped(ix[s]) \in Range(ix[s])
           /\ SoundIndex([ix EXCEPT ![s] = popLong(@)], tree)
<1> DEFINE new == [ix EXCEPT ![s] = popLong(@)]
<1>1. PICK D \in SUBSET Nat : ix \in [D -> Seq(Nat)]
  BY DEF SoundIndex, Index
<1>2. ix[s] \in Seq(Nat) /\ s \in Nat /\ D = DOMAIN ix
  BY <1>1
<1>3. CASE ix[s] = <<>>
  <2>1. popLong(ix[s]) = ix[s] /\ Popped(ix[s]) = 0
    BY <1>3 DEF popLong, Popped
  <2>2. new = ix
    BY <1>1, <2>1
  <2> QED BY <1>2, <1>3, <2>1, <2>2
<1>4. CASE ix[s] # <<>>
  <2> DEFINE n == Len(ix[s])
  <2>1. n \in Nat /\ n # 0 /\ DOMAIN ix[s] = 1 .. n /\ n - 1 \in 0 .. n
    BY <1>2, <1>4
  <2>2. Popped(ix[s]) = ix[s][n] /\ ix[s][n] \in Range(ix[s])
    BY <1>4, <2>1 DEF Popped, Last, Range
  <2>3. popLong(ix[s]) = SubSeq(ix[s], 1, n - 1)
    BY <1>4 DEF popLong, Front
  <2> HIDE DEF n
  <2>4. /\ popLong(ix[s]) \in Seq(Nat) /\ Len(popLong(ix[s])) = n - 1
        /\ \A i \in 1 .. n - 1 : popLong(ix[s])[i] = ix[s][i]
    <3>1. n - 1 \in 0 .. Len(ix[s])
      BY <2>1 DEF n
    <3> QED BY <1>2, <2>3, <3>1, PrefixOf
  <2>5. Range(popLong(ix[s])) \subseteq Range(ix[s])
    <3>1. DOMAIN popLong(ix[s]) = 1 .. n - 1
      BY <2>4
    <3>2. \A i \in 1 .. n - 1 : i \in 1 .. n
      BY <2>1
    <3> QED BY <2>1, <2>4, <3>1, <3>2 DEF Range
  <2>6. /\ new \in [D -> Seq(Nat)] /\ DOMAIN new = DOMAIN ix
        /\ \A t \in DOMAIN ix : Range(new[t]) \subseteq Range(ix[t])
    BY <1>1, <1>2, <2>4, <2>5
  <2> HIDE DEF new
  <2>7. SoundIndex(new, tree)
    BY <1>1, <2>6 DEF SoundIndex, Index
  <2> QED BY <1>2, <1>4, <2>2, <2>7 DEF new
<1> QED
  BY <1>3, <1>4

-----------------------------------------------------------------------------
(***************************************************************************)
(* The climb.                                                              *)
(***************************************************************************)
NodeType == [parentSID : Nat, sidKeys : Seq(Nat)]

\* Where something is a suffix of something else.
LEMMA SuffixIs ==
    ASSUME NEW s \in Seq(Nat), NEW p \in Seq(Nat)
    PROVE  IsSuffix(s, p) <=> /\ Len(s) <= Len(p)
                              /\ \A i \in 1 .. Len(s) : s[i] = p[Len(p) - Len(s) + i]
<1> DEFINE m == Len(s)
           n == Len(p)
           a == Reverse(s)
           b == Reverse(p)
<1>1. m \in Nat /\ n \in Nat
  OBVIOUS
<1>2. /\ a \in Seq(Nat) /\ Len(a) = m /\ \A i \in 1 .. m : a[i] = s[(m - i) + 1]
      /\ b \in Seq(Nat) /\ Len(b) = n /\ \A i \in 1 .. n : b[i] = p[(n - i) + 1]
  <2>1. \A i \in 1 .. m : s[(m - i) + 1] \in Nat
    <3>1. \A i \in 1 .. m : (m - i) + 1 \in 1 .. m
      BY <1>1
    <3> QED BY <3>1
  <2>2. \A i \in 1 .. n : p[(n - i) + 1] \in Nat
    <3>1. \A i \in 1 .. n : (n - i) + 1 \in 1 .. n
      BY <1>1
    <3> QED BY <3>1
  <2> HIDE DEF m, n
  <2> QED BY <1>1, <2>1, <2>2 DEF Reverse, m, n
<1>3. IsSuffix(s, p) <=> m <= n /\ SubSeq(a, 1, m) = SubSeq(b, 1, m)
  BY <1>2 DEF IsSuffix, IsPrefix
<1> HIDE DEF a, b, m, n
<1>4. ASSUME m <= n
      PROVE  SubSeq(a, 1, m) = SubSeq(b, 1, m) <=> \A i \in 1 .. m : a[i] = b[i]
  <2>1. m \in 0 .. Len(a) /\ m \in 0 .. Len(b)
    BY <1>1, <1>2, <1>4
  <2>2. /\ SubSeq(a, 1, m) \in Seq(Nat) /\ Len(SubSeq(a, 1, m)) = m
        /\ \A i \in 1 .. m : SubSeq(a, 1, m)[i] = a[i]
    BY <1>2, <2>1, PrefixOf
  <2>3. /\ SubSeq(b, 1, m) \in Seq(Nat) /\ Len(SubSeq(b, 1, m)) = m
        /\ \A i \in 1 .. m : SubSeq(b, 1, m)[i] = b[i]
    BY <1>2, <2>1, PrefixOf
  <2>4. (\A i \in 1 .. m : a[i] = b[i]) => SubSeq(a, 1, m) = SubSeq(b, 1, m)
    BY <2>2, <2>3, SeqEqual
  <2>5. SubSeq(a, 1, m) = SubSeq(b, 1, m) => \A i \in 1 .. m : a[i] = b[i]
    BY <2>2, <2>3
  <2> QED BY <2>4, <2>5
<1>5. ASSUME m <= n
      PROVE  (\A i \in 1 .. m : a[i] = b[i]) <=> \A i \in 1 .. m : s[i] = p[n - m + i]
  <2>1. \A i \in 1 .. m : (m - i) + 1 \in 1 .. m /\ (m - ((m - i) + 1)) + 1 = i
    BY <1>1
  <2>2. \A i \in 1 .. m : i \in 1 .. n /\ (n - i) + 1 = n - m + ((m - i) + 1)
    BY <1>1, <1>5
  <2>3. ASSUME \A i \in 1 .. m : s[i] = p[n - m + i], NEW i \in 1 .. m
        PROVE  a[i] = b[i]
    <3> DEFINE j == (m - i) + 1
    <3>1. j \in 1 .. m /\ i \in 1 .. n /\ (n - i) + 1 = n - m + j
      BY <2>1, <2>2
    <3>2. s[j] = p[n - m + j]
      BY <2>3, <3>1
    <3>3. a[i] = s[j] /\ b[i] = p[(n - i) + 1]
      BY <1>2, <3>1
    <3> QED BY <3>1, <3>2, <3>3
  <2>4. ASSUME \A i \in 1 .. m : a[i] = b[i], NEW i \in 1 .. m
        PROVE  s[i] = p[n - m + i]
    <3> DEFINE j == (m - i) + 1
    <3>1. j \in 1 .. m /\ j \in 1 .. n /\ (m - j) + 1 = i /\ (n - j) + 1 = n - m + i
      BY <1>1, <1>5
    <3>2. a[j] = b[j]
      BY <2>4, <3>1
    <3>3. a[j] = s[i] /\ b[j] = p[n - m + i]
      BY <1>2, <3>1
    <3> QED BY <3>2, <3>3
  <2> QED BY <2>3, <2>4
<1> QED
  BY <1>3, <1>4, <1>5 DEF m, n

\* The lower part of a path, and what it continues.
LowerPart(s, m) == \E p \in Paths(m.tree) : IsSuffix(s, p)

\* One step up from the lower part of a path.
LEMMA StepUp ==
    ASSUME NEW m \in Models, OneWayUp(m),
           NEW s \in Seq(Nat), s # <<>>, LowerPart(s, m),
           NEW k, NEW q \in Paths(m.tree), End(q) = s[1], End(Front(q)) = k
    PROVE  /\ k = 0 => s \in Paths(m.tree)
           /\ k # 0 => LowerPart(<<k>> \o s, m)
<1>1. m.tree \in Values
  BY ModelAssumption
<1>2. \A p \in Paths(m.tree) : p \in Seq(Nat) /\ p # <<>> /\ Len(p) \in Nat /\ Len(p) # 0
  BY <1>1, PathsAreClosed
<1>3. Len(s) \in Nat /\ Len(s) # 0
  OBVIOUS
<1>4. q[Len(q)] = s[1] /\ Above(q, Len(q)) = k
  <2>0. q \in Seq(Nat) /\ q # <<>> /\ Len(q) \in Nat \ {0}
    BY <1>2
  <2>a. /\ End(q) = q[Len(q)] /\ Front(q) \in Seq(Nat) /\ Len(Front(q)) = Len(q) - 1
        /\ \A i \in 1 .. Len(q) - 1 : Front(q)[i] = q[i]
    BY <2>0, EndType
  <2>1. q[Len(q)] = s[1]
    BY <2>a
  <2>2. CASE Len(q) = 1
    <3>1. Front(q) = <<>>
      BY <2>a, <2>2
    <3> QED BY <2>1, <2>2, <3>1 DEF End, Above
  <2>3. CASE Len(q) # 1
    <3>1. Len(q) - 1 \in 1 .. Len(q) - 1 /\ Len(Front(q)) # 0
      BY <2>0, <2>3, <2>a
    <3>2. Front(q)[Len(q) - 1] = q[Len(q) - 1] /\ Front(q) # <<>>
      BY <2>a, <3>1
    <3>3. End(Front(q)) = Front(q)[Len(Front(q))]
      BY <2>a, <3>2, EndType
    <3> QED BY <2>1, <2>3, <2>a, <3>1, <3>2, <3>3 DEF Above
  <2> QED BY <2>1, <2>2, <2>3
<1>5. \E p \in Paths(m.tree) : IsSuffix(s, p) /\ Above(p, Len(p) - Len(s) + 1) = k
  <2>1. CASE Len(s) = 1
    <3>1. Len(q) - Len(s) + 1 = Len(q)
      BY <1>2, <2>1
    <3>2. \A i \in 1 .. Len(s) : i = 1
      BY <2>1
    <3>3. IsSuffix(s, q)
      <4>1. Len(s) <= Len(q) /\ \A i \in 1 .. Len(s) : s[i] = q[Len(q) - Len(s) + i]
        BY <1>2, <1>4, <2>1, <3>1, <3>2
      <4> QED BY <1>2, <4>1, SuffixIs
    <3> QED BY <1>4, <3>1, <3>3
  <2>2. CASE Len(s) # 1
    <3>1. PICK p \in Paths(m.tree) : IsSuffix(s, p)
      BY DEF LowerPart
    <3> DEFINE j == Len(p) - Len(s) + 1
    <3>2. Len(s) <= Len(p) /\ s[1] = p[j]
      BY <1>2, <1>3, <3>1, SuffixIs
    <3>3. j \in 1 .. Len(p) /\ j < Len(p) /\ Len(q) \in 1 .. Len(q)
      <4>1. Len(p) \in Nat /\ Len(s) \in Nat /\ Len(s) # 0 /\ Len(s) # 1 /\ Len(s) <= Len(p)
        BY <1>2, <1>3, <2>2, <3>2
      <4>2. Len(q) \in Nat /\ Len(q) # 0
        BY <1>2
      <4>3. \A a, b \in Nat : b <= a /\ b # 0 /\ b # 1 => a - b + 1 \in 1 .. a /\ a - b + 1 < a
        OBVIOUS
      <4>4. j \in 1 .. Len(p) /\ j < Len(p)
        BY <4>1, <4>3
      <4>5. \A a \in Nat : a # 0 => a \in 1 .. a
        OBVIOUS
      <4> QED BY <4>2, <4>4, <4>5
    <3> HIDE DEF j
    <3>4. Above(p, j) = Above(q, Len(q))
      BY <1>4, <3>2, <3>3 DEF OneWayUp
    <3> QED BY <1>4, <3>1, <3>4 DEF j
  <2> QED BY <2>1, <2>2
<1>6. PICK p \in Paths(m.tree) : IsSuffix(s, p) /\ Above(p, Len(p) - Len(s) + 1) = k
  BY <1>5
<1> DEFINE j == Len(p) - Len(s) + 1
<1>7. /\ p \in Seq(Nat) /\ Len(p) \in Nat /\ Len(s) <= Len(p) /\ j \in 1 .. Len(p)
      /\ \A i \in 1 .. Len(s) : s[i] = p[Len(p) - Len(s) + i]
  BY <1>2, <1>3, <1>6, SuffixIs
<1>8. ASSUME k = 0
      PROVE  s \in Paths(m.tree)
  <2>1. j = 1
    <3> SUFFICES ASSUME j # 1
                 PROVE  FALSE
      OBVIOUS
    <3>1. j - 1 \in 1 .. Len(p)
      BY <1>7
    <3>2. 0 < p[j - 1]
      BY <3>1 DEF OneWayUp
    <3> QED BY <1>6, <1>8, <3>2 DEF Above
  <2>2. Len(p) = Len(s)
    BY <1>3, <1>7, <2>1
  <2>3. \A i \in 1 .. Len(s) : s[i] = p[i]
    BY <1>3, <1>7, <2>2
  <2>4. s = p
    BY <1>7, <2>2, <2>3, SeqEqual
  <2> QED BY <2>4
<1>9. ASSUME k # 0
      PROVE  LowerPart(<<k>> \o s, m)
  <2>0. j # 1 /\ p[j - 1] = k
    BY <1>6, <1>9 DEF Above
  <2>1. j # 1 /\ j - 1 \in 1 .. Len(p) /\ p[j - 1] = k
    <3>1. j \in 1 .. Len(p) /\ Len(p) \in Nat
      BY <1>7
    <3> HIDE DEF j
    <3> QED BY <2>0, <3>1
  <2>2. k \in Nat
    <3>1. \A i \in 1 .. Len(p) : p[i] \in Nat
      BY <1>7, ElementOfSeq
    <3> QED BY <2>1, <3>1
  <2> DEFINE t == <<k>> \o s
  <2>3. /\ t \in Seq(Nat) /\ Len(t) = Len(s) + 1
        /\ \A i \in 1 .. Len(s) + 1 : t[i] = IF i = 1 THEN k ELSE s[i - 1]
    BY <1>3, <2>2
  <2> HIDE DEF t
  <2>4. Len(t) <= Len(p)
    BY <1>3, <1>7, <2>1, <2>3
  <2>5. ASSUME NEW i \in 1 .. Len(t)
        PROVE  t[i] = p[Len(p) - Len(t) + i]
    <3>1. CASE i = 1
      <4>1. Len(p) - Len(t) + i = j - 1
        BY <1>3, <1>7, <2>3, <3>1
      <4> QED BY <2>1, <2>3, <2>5, <3>1, <4>1
    <3>2. CASE i # 1
      <4>1. i - 1 \in 1 .. Len(s) /\ Len(p) - Len(t) + i = Len(p) - Len(s) + (i - 1)
        BY <1>3, <1>7, <2>3, <3>2
      <4>2. t[i] = s[i - 1]
        BY <2>3, <2>5, <3>2
      <4> QED BY <1>7, <4>1, <4>2
    <3> QED BY <3>1, <3>2
  <2>6. IsSuffix(t, p)
    BY <1>7, <2>3, <2>4, <2>5, SuffixIs
  <2> QED BY <2>6 DEF LowerPart, t
<1> QED
  BY <1>8, <1>9

\* What the lookup keeps whatever the model: its path leads to the SID asked
\* for, by nodes made for their SIDs.
PathInv ==
    /\ model \in Models
    /\ SoundIndex(clookup, model.tree)
    /\ sid \in Nat
    /\ pc \in {"climb", "found", "walk", "returned"} =>
         /\ path \in Seq(NodeType) /\ path # <<>>
         /\ \A i \in 1 .. Len(path) : path[i] = PathNode(path[i].parentSID)
         /\ path[Len(path)].parentSID = sid

\* What a climb keeps where there is one way up.
ClimbInv ==
    LET s == SidsOf(path)
    IN  /\ pc = "climb" /\ current # 0 =>
             /\ current = s[1]
             /\ current \in DOMAIN clookup \/ current = sid
             /\ current \in DOMAIN clookup => LowerPart(s, model)
             /\ \A c \in DOMAIN clookup :
                  clookup[c] = <<>> => c \in spent \/ \E i \in 2 .. Len(s) : s[i] = c
        /\ (pc = "climb" /\ current = 0) \/ pc = "found" =>
             /\ LowerPart(s, model)
             /\ s \in Paths(model.tree) \/ s[1] \in spent

LEMMA PathNodeType ==
    ASSUME model \in Models, NEW s \in Nat
    PROVE  PathNode(s) \in NodeType /\ PathNode(s).parentSID = s
  BY ModelAssumption DEF PathNode, KeySids, NodeType

LEMMA SidsType ==
    ASSUME NEW nodes \in Seq(NodeType)
    PROVE  /\ SidsOf(nodes) \in Seq(Nat) /\ Len(SidsOf(nodes)) = Len(nodes)
           /\ \A i \in 1 .. Len(nodes) : SidsOf(nodes)[i] = nodes[i].parentSID
           /\ nodes # <<>> => SidsOf(nodes) # <<>>
<1> DEFINE n == Len(nodes)
<1>1. n \in Nat /\ DOMAIN nodes = 1 .. n /\ \A i \in 1 .. n : nodes[i] \in NodeType
  OBVIOUS
<1>2. \A i \in 1 .. n : nodes[i].parentSID \in Nat
  BY <1>1 DEF NodeType
<1>3. nodes # <<>> => n # 0
  OBVIOUS
<1>4. SidsOf(nodes) = [i \in 1 .. n |-> nodes[i].parentSID]
  BY <1>1 DEF SidsOf
<1> HIDE DEF n
<1>5. /\ SidsOf(nodes) \in Seq(Nat) /\ Len(SidsOf(nodes)) = n
      /\ \A i \in 1 .. n : SidsOf(nodes)[i] = nodes[i].parentSID
  BY <1>1, <1>2, <1>4
<1> QED
  BY <1>1, <1>3, <1>5 DEF n

LEMMA PathTop ==
    ASSUME NEW S, NEW x \in S, NEW s \in Seq(S)
    PROVE  /\ <<x>> \o s \in Seq(S) /\ <<x>> \o s # <<>> /\ Len(<<x>> \o s) = Len(s) + 1
           /\ (<<x>> \o s)[1] = x
           /\ \A i \in 1 .. Len(s) : (<<x>> \o s)[i + 1] = s[i]
           /\ \A i \in 1 .. Len(s) + 1 : i = 1 \/ (i - 1 \in 1 .. Len(s) /\ (<<x>> \o s)[i] = s[i - 1])
<1>1. <<x>> \in Seq(S) /\ Len(<<x>>) = 1 /\ <<x>>[1] = x /\ Len(s) \in Nat
  OBVIOUS
<1>2. /\ <<x>> \o s \in Seq(S) /\ Len(<<x>> \o s) = Len(s) + 1
      /\ \A i \in 1 .. Len(s) + 1 : (<<x>> \o s)[i] = IF i <= 1 THEN <<x>>[i] ELSE s[i - 1]
  BY <1>1, ConcatProperties
<1>3. (<<x>> \o s)[1] = x
  <2>1. 1 \in 1 .. Len(s) + 1
    BY <1>1
  <2> QED BY <1>1, <1>2, <2>1
<1>4. ASSUME NEW i \in 1 .. Len(s)
      PROVE  (<<x>> \o s)[i + 1] = s[i]
  <2>1. i + 1 \in 1 .. Len(s) + 1 /\ ~ (i + 1 <= 1) /\ (i + 1) - 1 = i
    BY <1>1
  <2> QED BY <1>2, <2>1
<1>5. ASSUME NEW i \in 1 .. Len(s) + 1, i # 1
      PROVE  i - 1 \in 1 .. Len(s) /\ (<<x>> \o s)[i] = s[i - 1]
  <2>1. i - 1 \in 1 .. Len(s) /\ ~ (i <= 1)
    BY <1>1, <1>5
  <2> QED BY <1>2, <2>1
<1>6. <<x>> \o s # <<>>
  BY <1>1, <1>2
<1> QED
  BY <1>2, <1>3, <1>4, <1>5, <1>6

\* The way a node is put on top of a path.
LEMMA NodeOnTop ==
    ASSUME model \in Models, NEW nodes \in Seq(NodeType),
           NEW k \in Nat, \A i \in 1 .. Len(nodes) : nodes[i] = PathNode(nodes[i].parentSID)
    PROVE  LET new == <<PathNode(k)>> \o nodes
           IN  /\ new \in Seq(NodeType) /\ new # <<>>
               /\ \A i \in 1 .. Len(new) : new[i] = PathNode(new[i].parentSID)
               /\ nodes # <<>> => new[Len(new)] = nodes[Len(nodes)]
               /\ SidsOf(new) = <<k>> \o SidsOf(nodes)
<1> DEFINE new == <<PathNode(k)>> \o nodes
           s == SidsOf(nodes)
           n == Len(nodes)
<1>1. PathNode(k) \in NodeType /\ PathNode(k).parentSID = k /\ n \in Nat
  BY PathNodeType
<1>2. /\ new \in Seq(NodeType) /\ new # <<>> /\ Len(new) = n + 1 /\ new[1] = PathNode(k)
      /\ \A i \in 1 .. n : new[i + 1] = nodes[i]
      /\ \A i \in 1 .. n + 1 : i = 1 \/ (i - 1 \in 1 .. n /\ new[i] = nodes[i - 1])
  BY <1>1, PathTop
<1>3. /\ s \in Seq(Nat) /\ Len(s) = n /\ \A i \in 1 .. n : s[i] = nodes[i].parentSID
  BY SidsType
<1>4. /\ <<k>> \o s \in Seq(Nat) /\ Len(<<k>> \o s) = n + 1 /\ (<<k>> \o s)[1] = k
      /\ \A i \in 1 .. n + 1 : i = 1 \/ (i - 1 \in 1 .. n /\ (<<k>> \o s)[i] = s[i - 1])
  BY <1>3, PathTop
<1>5. nodes # <<>> => n # 0
  OBVIOUS
<1> HIDE DEF new, s, n
<1>6. \A i \in 1 .. n + 1 : new[i] = PathNode(new[i].parentSID)
  <2>1. \A i \in 1 .. n : nodes[i] = PathNode(nodes[i].parentSID)
    BY DEF n
  <2> QED BY <1>1, <1>2, <2>1
<1>7. nodes # <<>> => new[n + 1] = nodes[n]
  <2>1. nodes # <<>> => n \in 1 .. n
    BY <1>1, <1>5
  <2> QED BY <1>2, <2>1
<1>8. SidsOf(new) = <<k>> \o s
  <2>1. /\ SidsOf(new) \in Seq(Nat) /\ Len(SidsOf(new)) = n + 1
        /\ \A i \in 1 .. n + 1 : SidsOf(new)[i] = new[i].parentSID
    BY <1>2, SidsType
  <2>2. \A i \in 1 .. n + 1 : SidsOf(new)[i] = (<<k>> \o s)[i]
    <3> SUFFICES ASSUME NEW i \in 1 .. n + 1
                 PROVE  SidsOf(new)[i] = (<<k>> \o s)[i]
      OBVIOUS
    <3>1. SidsOf(new)[i] = new[i].parentSID
      BY <2>1
    <3>2. CASE i = 1
      <4>1. new[i].parentSID = k
        BY <1>1, <1>2, <3>2
      <4> QED BY <1>4, <3>1, <3>2, <4>1
    <3>3. CASE i # 1
      <4>1. i - 1 \in 1 .. n /\ new[i] = nodes[i - 1]
        BY <1>2, <3>3
      <4>2. (<<k>> \o s)[i] = s[i - 1]
        BY <1>4, <3>3
      <4>3. s[i - 1] = nodes[i - 1].parentSID
        BY <1>3, <4>1
      <4> QED BY <3>1, <4>1, <4>2, <4>3
    <3> QED BY <3>2, <3>3
  <2> QED BY <1>4, <2>1, <2>2, SeqEqual
<1> QED
  BY <1>2, <1>6, <1>7, <1>8 DEF new, s, n

LEMMA PathInvInit == Init => PathInv
<1> SUFFICES ASSUME Init PROVE PathInv
  OBVIOUS
<1>1. model.tree \in Values
  BY ModelAssumption DEF Init
<1>2. SoundIndex(clookup, model.tree)
  BY <1>1, BuiltSound DEF Init
<1> QED
  BY <1>2 DEF Init, PathInv

LEMMA PathInvNext == PathInv /\ [Next]_vars => PathInv'
<1> SUFFICES ASSUME PathInv, [Next]_vars
             PROVE  PathInv'
  OBVIOUS
<1>0. model \in Models /\ SoundIndex(clookup, model.tree) /\ model.tree \in Values
  BY ModelAssumption DEF PathInv
<1>1. CASE Build(model)
  <2>1. SoundIndex(clookup', model.tree)
    BY <1>0, <1>1, BuiltSound DEF Build
  <2> QED BY <1>1, <2>1 DEF PathInv, Build
<1>2. CASE \E s \in Sids : FindStart(s)
  <2>1. PICK s \in Sids : FindStart(s)
    BY <1>2
  <2>2. s \in Nat
    BY ModelAssumption
  <2>3. path' = <<PathNode(s)>> /\ sid' = s /\ model' = model /\ clookup' = clookup
    BY <2>1 DEF FindStart
  <2>4. PathNode(s) \in NodeType /\ PathNode(s).parentSID = s
    BY <1>0, <2>2, PathNodeType
  <2>5. path' \in Seq(NodeType) /\ path' # <<>> /\ Len(path') = 1 /\ path'[1] = PathNode(s)
    BY <2>3, <2>4
  <2>6. \A i \in 1 .. Len(path') : path'[i] = PathNode(path'[i].parentSID)
    BY <2>4, <2>5
  <2>7. path'[Len(path')].parentSID = sid'
    BY <2>3, <2>4, <2>5
  <2>8. \A t : PathNode(t)' = PathNode(t)
    BY <2>3 DEF PathNode, KeySids
  <2> QED BY <1>0, <2>2, <2>3, <2>5, <2>6, <2>7, <2>3 DEF PathInv, PathNode, KeySids
<1>3. CASE FindClimb
  <2> DEFINE k == Popped(clookup[current])
  <2>1. /\ pc = "climb" /\ current \in DOMAIN clookup /\ model' = model /\ sid' = sid /\ pc' = pc
        /\ clookup' = [clookup EXCEPT ![current] = popLong(@)]
        /\ path' = IF k = 0 THEN path ELSE <<PathNode(k)>> \o path
    BY <1>3 DEF FindClimb, Climbed
  <2>2. SoundIndex(clookup', model.tree) /\ k \in Nat
    <3>1. /\ clookup[current] \in Seq(Nat)
          /\ k = 0 \/ k \in Range(clookup[current])
          /\ SoundIndex(clookup', model.tree)
      BY <1>0, <2>1, PoppedSound
    <3>2. k \in Range(clookup[current]) => k \in Nat
      BY <3>1 DEF Range
    <3> QED BY <3>1, <3>2
  <2>3. /\ path \in Seq(NodeType) /\ path # <<>>
        /\ \A i \in 1 .. Len(path) : path[i] = PathNode(path[i].parentSID)
        /\ path[Len(path)].parentSID = sid /\ sid \in Nat
    BY <2>1 DEF PathInv
  <2> HIDE DEF k
  <2>4. /\ path' \in Seq(NodeType) /\ path' # <<>>
        /\ \A i \in 1 .. Len(path') : path'[i] = PathNode(path'[i].parentSID)
        /\ path'[Len(path')].parentSID = sid
    <3>1. CASE k = 0
      BY <2>1, <2>3, <3>1
    <3>2. CASE k # 0
      BY <1>0, <2>1, <2>2, <2>3, <3>2, NodeOnTop
    <3> QED BY <3>1, <3>2
  <2> QED BY <1>0, <2>1, <2>2, <2>3, <2>4 DEF PathInv, PathNode, KeySids
<1>4. CASE FindMisses \/ Release
  BY <1>4 DEF FindMisses, Release, BackToClient, PathInv
<1>5. CASE FindEnds
  BY <1>5 DEF FindEnds, PathInv, PathNode, KeySids
<1>6. CASE \E ks \in Requests : ExamineStart(ks)
  BY <1>6 DEF ExamineStart, PathInv, PathNode, KeySids
<1>7. CASE ExamineNode
  <2>1. /\ model' = model /\ clookup' = clookup /\ sid' = sid /\ pc = "walk"
        /\ pc' \in {"idle", "crashed"} \/ (pc' = pc /\ path' = path)
    BY <1>7 DEF ExamineNode, ChooseElement, Crash, BackToClient
  <2> QED BY <2>1 DEF PathInv, PathNode, KeySids
<1>8. CASE ExamineReturns
  BY <1>8 DEF ExamineReturns, PathInv, PathNode, KeySids
<1>9. CASE UNCHANGED vars
  BY <1>9 DEF vars, PathInv, PathNode, KeySids
<1> QED
  BY <1>1, <1>2, <1>3, <1>4, <1>5, <1>6, <1>7, <1>8, <1>9 DEF Next

\* The path that is climbed and walked down again leads to the SID asked for by
\* nodes with the key SIDs of their lists, and the index never names a parent
\* that the tree does not have.
THEOREM PathsLeadToSid == Spec => []PathInv
<1>1. PathInv /\ [Next]_vars => PathInv'
  BY PathInvNext
<1> QED
  BY PathInvInit, <1>1, PTL DEF Spec

LEMMA ClimbInvNext ==
    ASSUME PathInv, PathInv', OneWayUp(model), ClimbInv, [Next]_vars
    PROVE  ClimbInv'
<1> DEFINE s == SidsOf(path)
<1>0. model \in Models /\ SoundIndex(clookup, model.tree) /\ model.tree \in Values
  BY ModelAssumption DEF PathInv
<1>a. /\ DOMAIN clookup \subseteq Nat
      /\ \A t \in DOMAIN clookup :
           /\ \E q \in Paths(model.tree) : End(q) = t
           /\ \A k \in Range(clookup[t]) :
                /\ k # 0 => k \in DOMAIN clookup
                /\ \E q \in Paths(model.tree) : End(q) = t /\ End(Front(q)) = k
  BY <1>0 DEF SoundIndex, Index
<1>b. \A p \in Paths(model.tree) : p \in Seq(Nat) /\ p # <<>> /\ Len(p) \in Nat /\ Len(p) # 0
  BY <1>0, PathsAreClosed
<1>1. CASE \E x \in Sids : FindStart(x)
  <2>1. PICK x \in Sids : FindStart(x)
    BY <1>1
  <2>2. x \in Nat /\ x # 0
    BY ModelAssumption
  <2>3. /\ pc' = "climb" /\ path' = <<PathNode(x)>> /\ sid' = x /\ current' = x
        /\ model' = model /\ clookup' = clookup
        /\ spent' = {c \in DOMAIN clookup : clookup[c] = <<>>}
    BY <2>1 DEF FindStart
  <2>4. SidsOf(path') = <<x>>
    <3>1. DOMAIN path' = {1} /\ path'[1].parentSID = x
      BY <2>3 DEF PathNode
    <3>2. SidsOf(path') = [i \in {1} |-> x]
      BY <3>1 DEF SidsOf
    <3> QED BY <3>2
  <2>5. x \in DOMAIN clookup => LowerPart(<<x>>, model)
    <3> SUFFICES ASSUME x \in DOMAIN clookup
                 PROVE  LowerPart(<<x>>, model)
      OBVIOUS
    <3>1. PICK q \in Paths(model.tree) : End(q) = x
      BY <1>a
    <3>2. q \in Seq(Nat) /\ q # <<>> /\ Len(q) \in Nat /\ Len(q) # 0 /\ q[Len(q)] = x
      <4>1. q \in Seq(Nat) /\ q # <<>> /\ Len(q) \in Nat /\ Len(q) # 0
        BY <1>b
      <4> QED BY <3>1, <4>1, EndType
    <3>3. /\ <<x>> \in Seq(Nat) /\ Len(<<x>>) = 1 /\ Len(<<x>>) <= Len(q)
          /\ \A i \in 1 .. Len(<<x>>) : <<x>>[i] = q[Len(q) - Len(<<x>>) + i]
      BY <2>2, <3>2
    <3>4. IsSuffix(<<x>>, q)
      BY <3>2, <3>3, SuffixIs
    <3> QED BY <3>4 DEF LowerPart
  <2>6. (SidsOf(path))' = <<x>>
    BY <2>4 DEF SidsOf
  <2> QED BY <2>2, <2>3, <2>5, <2>6 DEF ClimbInv
<1>2. CASE FindClimb
  <2> DEFINE k == Popped(clookup[current])
  <2>1. /\ pc = "climb" /\ current # 0 /\ current \in DOMAIN clookup
        /\ model' = model /\ sid' = sid /\ pc' = pc /\ spent' = spent /\ current' = k
        /\ clookup' = [clookup EXCEPT ![current] = popLong(@)]
        /\ path' = IF k = 0 THEN path ELSE <<PathNode(k)>> \o path
    BY <1>2 DEF FindClimb, Climbed
  <2>2. /\ clookup[current] \in Seq(Nat)
        /\ k = 0 \/ k \in Range(clookup[current])
        /\ clookup[current] = <<>> => k = 0
        /\ clookup[current] # <<>> => k \in Range(clookup[current])
        /\ DOMAIN clookup' = DOMAIN clookup
        /\ \A c \in DOMAIN clookup : c # current => clookup'[c] = clookup[c]
    BY <1>0, <2>1, PoppedSound
  <2>3. /\ current = s[1]
        /\ LowerPart(s, model)
        /\ \A c \in DOMAIN clookup :
             clookup[c] = <<>> => c \in spent \/ \E i \in 2 .. Len(s) : s[i] = c
    BY <2>1 DEF ClimbInv
  <2>4. /\ path \in Seq(NodeType) /\ path # <<>>
        /\ \A i \in 1 .. Len(path) : path[i] = PathNode(path[i].parentSID)
    BY <2>1 DEF PathInv
  <2>5. s \in Seq(Nat) /\ s # <<>> /\ Len(s) \in Nat /\ Len(s) # 0
    <3>1. s \in Seq(Nat) /\ s # <<>>
      BY <2>4, SidsType
    <3> QED BY <3>1
  <2> HIDE DEF k, s
  <2>6. clookup[current] # <<>> =>
          /\ k = 0 => s \in Paths(model.tree)
          /\ k # 0 => LowerPart(<<k>> \o s, model)
    <3> SUFFICES ASSUME clookup[current] # <<>>
                 PROVE  /\ k = 0 => s \in Paths(model.tree)
                        /\ k # 0 => LowerPart(<<k>> \o s, model)
      OBVIOUS
    <3>1. PICK q \in Paths(model.tree) : End(q) = s[1] /\ End(Front(q)) = k
      BY <1>a, <2>1, <2>2, <2>3
    <3> QED BY <1>0, <2>3, <2>5, <3>1, StepUp
  <2>7. CASE k = 0
    <3>1. (SidsOf(path))' = s
      BY <2>1, <2>7 DEF s, SidsOf
    <3>2. s \in Paths(model.tree) \/ s[1] \in spent
      <4>1. CASE clookup[current] # <<>>
        BY <2>6, <2>7, <4>1
      <4>2. CASE clookup[current] = <<>>
        <5>1. ASSUME NEW i \in 2 .. Len(s), s[i] = current
              PROVE  FALSE
          <6>1. PICK p \in Paths(model.tree) : IsSuffix(s, p)
            BY <2>3 DEF LowerPart
          <6>2. /\ Len(p) \in Nat /\ Len(s) <= Len(p)
                /\ \A j \in 1 .. Len(s) : s[j] = p[Len(p) - Len(s) + j]
            BY <1>b, <2>5, <6>1, SuffixIs
          <6> DEFINE a == Len(p) - Len(s) + 1
                     b == Len(p) - Len(s) + i
          <6>3. a \in 1 .. Len(p) /\ b \in 1 .. Len(p) /\ a < b /\ 1 \in 1 .. Len(s) /\ i \in 1 .. Len(s)
            BY <2>5, <6>2
          <6>4. s[1] = p[a] /\ s[i] = p[b]
            BY <6>2, <6>3
          <6>5. p[a] \in Nat
            BY <1>b, <6>3, ElementOfSeq
          <6> HIDE DEF a, b
          <6>6. p[a] < p[b]
            BY <6>3 DEF OneWayUp
          <6> QED BY <2>3, <5>1, <6>4, <6>5, <6>6
        <5> QED BY <2>1, <2>3, <4>2, <5>1
      <4> QED BY <4>1, <4>2
    <3> QED BY <2>1, <2>3, <2>7, <3>1, <3>2 DEF ClimbInv
  <2>8. CASE k # 0
    <3>1. clookup[current] # <<>> /\ k \in Range(clookup[current])
      BY <2>2, <2>8
    <3>2. k \in DOMAIN clookup /\ k \in Nat
      BY <1>a, <2>1, <2>8, <3>1
    <3>3. SidsOf(path') = <<k>> \o s
      BY <1>0, <2>1, <2>4, <2>8, <3>2, NodeOnTop DEF s
    <3>4. (SidsOf(path))' = <<k>> \o s
      BY <3>3 DEF SidsOf
    <3> DEFINE t == <<k>> \o s
    <3>5. /\ Len(t) = Len(s) + 1 /\ t[1] = k /\ \A i \in 1 .. Len(s) : t[i + 1] = s[i]
      BY <2>5, <3>2, PathTop
    <3>6. LowerPart(t, model)
      BY <2>6, <2>8, <3>1
    <3> HIDE DEF t
    <3>7. ASSUME NEW c \in DOMAIN clookup', clookup'[c] = <<>>
          PROVE  c \in spent \/ \E i \in 2 .. Len(t) : t[i] = c
      <4>1. CASE c = current
        <5>1. 1 \in 1 .. Len(s) /\ 1 + 1 \in 2 .. Len(t)
          BY <2>5, <3>5
        <5>2. t[1 + 1] = c
          BY <2>3, <3>5, <4>1, <5>1
        <5> QED BY <5>1, <5>2
      <4>2. CASE c # current
        <5>1. clookup[c] = <<>>
          BY <2>2, <3>7, <4>2
        <5>2. ASSUME NEW i \in 2 .. Len(s), s[i] = c
              PROVE  \E j \in 2 .. Len(t) : t[j] = c
          <6>1. i \in 1 .. Len(s) /\ i + 1 \in 2 .. Len(t)
            BY <2>5, <3>5
          <6> QED BY <3>5, <5>2, <6>1
        <5> QED BY <2>2, <2>3, <5>1, <5>2
      <4> QED BY <4>1, <4>2
    <3>8. (SidsOf(path))' = t
      BY <3>4 DEF t
    <3>9. pc' = "climb" /\ current' # 0 /\ current' = t[1] /\ current' \in DOMAIN clookup'
      BY <2>1, <2>2, <2>8, <3>2, <3>5
    <3> QED BY <2>1, <3>6, <3>7, <3>8, <3>9 DEF ClimbInv
  <2> QED BY <2>7, <2>8
<1>3. CASE FindEnds
  BY <1>3 DEF FindEnds, ClimbInv, SidsOf
<1>4. CASE UNCHANGED vars
  BY <1>4 DEF vars, ClimbInv, SidsOf
<1>5. CASE pc' \notin {"climb", "found"}
  BY <1>5 DEF ClimbInv
<1>6. CASE Build(model)
  BY <1>5, <1>6 DEF Build
<1>7. CASE FindMisses \/ Release \/ ExamineNode \/ ExamineReturns \/ \E ks \in Requests : ExamineStart(ks)
  <2>1. pc' \notin {"climb", "found"}
    BY <1>7 DEF FindMisses, Release, BackToClient, ExamineStart, ExamineNode, ChooseElement,
                Crash, ExamineReturns
  <2> QED BY <1>5, <2>1
<1> QED
  BY <1>1, <1>2, <1>3, <1>4, <1>6, <1>7 DEF Next

LEMMA ClimbIsExact ==
    ASSUME PathInv, ClimbInv
    PROVE  LookupExact
<1> DEFINE s == SidsOf(path)
<1>1. ASSUME pc = "found"
      PROVE  /\ Last(s) = sid
             /\ \E p \in Paths(model.tree) : IsSuffix(s, p)
             /\ s \in Paths(model.tree) \/ Head(s) \in spent
  <2>1. path \in Seq(NodeType) /\ path # <<>> /\ path[Len(path)].parentSID = sid
    BY <1>1 DEF PathInv
  <2>2. Len(path) \in Nat /\ Len(path) # 0 /\ Len(path) \in 1 .. Len(path)
    BY <2>1
  <2>3. /\ s \in Seq(Nat) /\ Len(s) = Len(path) /\ s # <<>>
        /\ \A i \in 1 .. Len(path) : s[i] = path[i].parentSID
    BY <2>1, SidsType
  <2> HIDE DEF s
  <2>4. Last(s) = sid
    BY <2>1, <2>2, <2>3 DEF Last
  <2>5. Head(s) = s[1]
    BY <2>3
  <2> QED BY <1>1, <2>4, <2>5 DEF ClimbInv, LowerPart, s
<1> QED
  BY <1>1 DEF LookupExact, ClimbInv

\* A path that findRequirementForSID returns leads to the SID asked for and is
\* the whole way from the root, or the lower part of it below a SID whose
\* parents earlier lookups in the same index had popped (SidPath!LookupExact):
\* in every tree in which SIDs grow on the way down and a SID that has others
\* below it has one way up.
THEOREM LookupsAreExact ==
    ASSUME \A m \in Models : OneWayUp(m)
    PROVE  Spec => []LookupExact
<1>1. Init => PathInv /\ ClimbInv
  BY PathInvInit DEF Init, ClimbInv
<1>2. PathInv /\ ClimbInv /\ [Next]_vars => (PathInv /\ ClimbInv)'
  <2> SUFFICES ASSUME PathInv, ClimbInv, [Next]_vars
               PROVE  (PathInv /\ ClimbInv)'
    OBVIOUS
  <2>1. PathInv'
    BY PathInvNext
  <2>2. OneWayUp(model)
    BY DEF PathInv
  <2> QED BY <2>1, <2>2, ClimbInvNext
<1>3. PathInv /\ ClimbInv => LookupExact
  BY ClimbIsExact
<1> QED
  BY <1>1, <1>2, <1>3, PTL DEF Spec

-----------------------------------------------------------------------------
(***************************************************************************)
(* The walk.                                                               *)
(***************************************************************************)
InstanceType == [path : Seq(Nat), keys : Seq(Nat), value : Values]

LEMMA ConcatIs ==
    ASSUME NEW a \in Seq(Nat), NEW b \in Seq(Nat)
    PROVE  /\ Len(a \o b) = Len(a) + Len(b)
           /\ \A l \in 1 .. Len(a) + Len(b) :
                (a \o b)[l] = IF l <= Len(a) THEN a[l] ELSE b[l - Len(a)]
  BY ConcatProperties

LEMMA KeySidsType ==
    ASSUME NEW m \in Models, NEW s
    PROVE  KeySids(m, s) \in Seq(Nat)
<1>1. \A r \in DOMAIN m.listKeys : m.listKeys[r] \in Seq(Nat)
  BY ModelAssumption
<1> QED
  BY <1>1 DEF KeySids

LEMMA KeysOfType ==
    ASSUME NEW m \in Models, NEW e \in Values, NEW s
    PROVE  /\ KeysOf(m, e, s) \in Seq(Nat) /\ Len(KeysOf(m, e, s)) = Len(KeySids(m, s))
           /\ \A i \in 1 .. Len(KeySids(m, s)) :
                KeysOf(m, e, s)[i] =
                    getCoreconfValueAsUint64(
                        IF e.t = "map" THEN getCoreconfHashMap(e.v, KeySids(m, s)[i] - s)
                        ELSE Null)
<1> DEFINE ks == KeySids(m, s)
           at(i) == IF e.t = "map" THEN getCoreconfHashMap(e.v, ks[i] - s) ELSE Null
           k(i) == getCoreconfValueAsUint64(at(i))
<1>1. ks \in Seq(Nat) /\ Len(ks) \in Nat /\ DOMAIN ks = 1 .. Len(ks)
  BY KeySidsType
<1>2. ASSUME NEW i \in 1 .. Len(ks)
      PROVE  k(i) \in Nat
  <2>1. at(i) = Null \/ at(i) \in Values
    <3>1. e.t = "map" => \A d \in DOMAIN e.v : e.v[d] \in Values
      BY ModelAssumption DEF IsValue
    <3> QED BY <3>1 DEF getCoreconfHashMap
  <2>2. \A val \in Values : val.t = "leaf" => val.v \in Nat
    BY ModelAssumption DEF IsValue
  <2> HIDE DEF at
  <2> QED BY <2>1, <2>2 DEF getCoreconfValueAsUint64, Null
<1>3. KeysOf(m, e, s) = [i \in 1 .. Len(ks) |-> k(i)]
  BY <1>1 DEF KeysOf
<1> HIDE DEF k, ks
<1>4. /\ KeysOf(m, e, s) \in Seq(Nat) /\ Len(KeysOf(m, e, s)) = Len(ks)
      /\ \A i \in 1 .. Len(ks) : KeysOf(m, e, s)[i] = k(i)
  BY <1>1, <1>2, <1>3
<1> QED
  BY <1>4 DEF k, ks

LEMMA FurtherType ==
    ASSUME NEW m \in Models, NEW x \in InstanceType
    PROVE  Further(m, x) \in SUBSET InstanceType
<1>1. x.path \in Seq(Nat) /\ x.keys \in Seq(Nat) /\ x.value \in Values
  BY DEF InstanceType
<1> SUFFICES ASSUME x.value.t = "map"
             PROVE  Further(m, x) \in SUBSET InstanceType
  BY DEF Further
<1> SUFFICES ASSUME NEW d \in DOMAIN x.value.v, NEW y \in Below(m, x, d)
             PROVE  y \in InstanceType
  BY DEF Further
<1> DEFINE s == d + End(x.path)
           q == Append(x.path, s)
           c == x.value.v[d]
<1>2. d \in Nat /\ c \in Values
  BY <1>1, ModelAssumption DEF IsValue
<1>3. s \in Nat /\ q \in Seq(Nat)
  <2>1. End(x.path) \in Nat
    BY <1>1, EndType
  <2> QED BY <1>1, <1>2, <2>1
<1> HIDE DEF s, q, c
<1>4. CASE KeySids(m, s) # <<>> /\ c.t = "array"
  <2>1. c.v \in Seq(Values)
    BY <1>2, <1>4, ModelAssumption DEF IsValue
  <2>2. PICK i \in Firsts(m, c.v, s) :
               y = [path |-> q, keys |-> x.keys \o KeysOf(m, c.v[i], s), value |-> c.v[i]]
    BY <1>4 DEF Below, s, q, c
  <2>3. c.v[i] \in Values
    BY <2>1, <2>2 DEF Firsts
  <2>4. KeysOf(m, c.v[i], s) \in Seq(Nat)
    BY <2>3, KeysOfType
  <2>5. x.keys \o KeysOf(m, c.v[i], s) \in Seq(Nat)
    BY <1>1, <2>4, ConcatProperties
  <2> QED BY <1>3, <2>2, <2>3, <2>5 DEF InstanceType
<1>5. CASE ~ (KeySids(m, s) # <<>> /\ c.t = "array")
  <2>1. y = [path |-> q, keys |-> x.keys, value |-> c]
    BY <1>5 DEF Below, s, q, c
  <2> QED BY <1>1, <1>2, <1>3, <2>1 DEF InstanceType
<1> QED
  BY <1>4, <1>5

\* The instances are those that their definition says.
LEMMA InstancesRun ==
    ASSUME NEW m \in Models, NEW n \in Nat
    PROVE  LET f == Instances(m, n)
           IN  /\ f \in [0 .. n -> SUBSET InstanceType]
               /\ f[0] = {[path |-> <<>>, keys |-> <<>>, value |-> m.tree]}
               /\ \A k \in 1 .. n : f[k] = UNION {Further(m, x) : x \in f[k - 1]}
<1> DEFINE base == {[path |-> <<>>, keys |-> <<>>, value |-> m.tree]}
           Step(X) == UNION {Further(m, x) : x \in X}
           g == [k \in 1 .. n |-> [X \in SUBSET InstanceType |-> Step(X)]]
           Eq(f) == f = [k \in 0 .. n |-> IF k = 0 THEN base ELSE Step(f[k - 1])]
<1>1. base \in SUBSET InstanceType
  BY ModelAssumption DEF InstanceType
<1>2. g \in [1 .. n -> [SUBSET InstanceType -> SUBSET InstanceType]]
  <2>1. \A X \in SUBSET InstanceType : Step(X) \in SUBSET InstanceType
    BY FurtherType
  <2> HIDE DEF Step
  <2> QED BY <2>1
<1>3. PICK it : it \in [0 .. n -> SUBSET InstanceType] /\ Runs(it, n, base, g)
  <2> HIDE DEF g, base
  <2> QED BY <1>1, <1>2, RunExists
<1>4. Eq(it)
  <2>1. \A k \in 0 .. n : k # 0 => k \in 1 .. n /\ k - 1 \in 0 .. n
    OBVIOUS
  <2>2. \A k \in 0 .. n : k # 0 => g[k][it[k - 1]] = Step(it[k - 1])
    BY <1>3, <2>1
  <2> HIDE DEF g, base, Step
  <2> QED BY <1>3, <2>2 DEF Runs
<1>5. Instances(m, n) = CHOOSE f : Eq(f)
  BY DEF Instances
<1>6. Eq(Instances(m, n))
  <2> HIDE DEF Eq
  <2> QED BY <1>4, <1>5
<1> DEFINE f == Instances(m, n)
<1>7. f[0] = base /\ 0 \in 0 .. n
  BY <1>6
<1>8. \A k \in 1 .. n : f[k] = Step(f[k - 1])
  <2>1. \A k \in 1 .. n : k \in 0 .. n /\ k # 0
    OBVIOUS
  <2> HIDE DEF base, Step
  <2> QED BY <1>6, <2>1
<1>9. f \in [0 .. n -> SUBSET InstanceType]
  <2> DEFINE T == {k \in 0 .. n : f[k] \in SUBSET InstanceType}
  <2>1. 0 \in T
    BY <1>1, <1>7
  <2>2. ASSUME NEW k \in 1 .. n, k - 1 \in T
        PROVE  k \in T
    BY <1>8, <2>2, FurtherType
  <2> HIDE DEF f
  <2>3. \A k \in 0 .. n : k \in T
    <3> HIDE DEF T
    <3> QED BY <2>1, <2>2, Counting
  <2>4. f = [k \in 0 .. n |-> f[k]]
    BY <1>6 DEF f
  <2> QED BY <2>3, <2>4
<1> QED
  BY <1>7, <1>8, <1>9

\* So is the number of keys needed.
LEMMA NeededRun ==
    ASSUME NEW nodes \in Seq(NodeType)
    PROVE  LET f == Needed(nodes)
               n == Len(nodes)
           IN  /\ f \in [0 .. n -> Nat] /\ f[0] = 0
               /\ \A k \in 1 .. n : /\ f[k] = f[k - 1] + Len(nodes[k].sidKeys)
                                    /\ Len(nodes[k].sidKeys) \in Nat
               /\ \A k \in 0 .. n : f[k] <= f[n]
<1> DEFINE n == Len(nodes)
           len(k) == Len(nodes[k].sidKeys)
           g == [k \in 1 .. n |-> [X \in Nat |-> X + len(k)]]
           Eq(f) == f = [k \in 0 .. n |-> IF k = 0 THEN 0 ELSE f[k - 1] + len(k)]
<1>1. n \in Nat /\ \A k \in 1 .. n : nodes[k] \in NodeType
  OBVIOUS
<1>2. \A k \in 1 .. n : len(k) \in Nat
  BY <1>1 DEF NodeType
<1> HIDE DEF n, len
<1>3. g \in [1 .. n -> [Nat -> Nat]]
  BY <1>2
<1>4. PICK it : it \in [0 .. n -> Nat] /\ Runs(it, n, 0, g)
  <2> HIDE DEF g
  <2> QED BY <1>1, <1>3, RunExists
<1>5. Eq(it)
  <2>1. \A k \in 0 .. n : k # 0 => k \in 1 .. n /\ k - 1 \in 0 .. n
    BY <1>1
  <2>2. \A k \in 0 .. n : k # 0 => g[k][it[k - 1]] = it[k - 1] + len(k)
    BY <1>4, <2>1
  <2> HIDE DEF g
  <2> QED BY <1>4, <2>2 DEF Runs
<1>6. Needed(nodes) = CHOOSE f : Eq(f)
  BY DEF Needed, n, len
<1>7. Eq(Needed(nodes))
  <2> HIDE DEF Eq
  <2> QED BY <1>5, <1>6
<1> DEFINE f == Needed(nodes)
<1>8. f[0] = 0 /\ 0 \in 0 .. n
  BY <1>1, <1>7
<1>9. \A k \in 1 .. n : f[k] = f[k - 1] + len(k)
  <2>1. \A k \in 1 .. n : k \in 0 .. n /\ k # 0
    BY <1>1
  <2> QED BY <1>7, <2>1
<1> HIDE DEF f
<1>10. f \in [0 .. n -> Nat]
  <2> DEFINE T == {k \in 0 .. n : f[k] \in Nat}
  <2>1. 0 \in T
    BY <1>8
  <2>2. ASSUME NEW k \in 1 .. n, k - 1 \in T
        PROVE  k \in T
    BY <1>1, <1>2, <1>9, <2>2
  <2>3. \A k \in 0 .. n : k \in T
    <3> HIDE DEF T
    <3> QED BY <1>1, <2>1, <2>2, Counting
  <2>4. f = [k \in 0 .. n |-> f[k]]
    BY <1>7 DEF f
  <2> QED BY <2>3, <2>4
<1>11. \A k \in 0 .. n : f[k] <= f[n]
  <2> DEFINE T == {k \in 0 .. n : \A i \in 0 .. k : f[i] <= f[k]}
  <2>1. 0 \in T
    BY <1>1, <1>8
  <2>2. ASSUME NEW k \in 1 .. n, k - 1 \in T
        PROVE  k \in T
    <3>1. k \in 0 .. n /\ k - 1 \in 0 .. n /\ f[k] \in Nat /\ f[k - 1] \in Nat /\ f[k - 1] <= f[k]
      <4>1. k \in 0 .. n /\ k - 1 \in 0 .. n
        BY <1>1
      <4> QED BY <1>2, <1>9, <1>10, <4>1
    <3>2. ASSUME NEW i \in 0 .. k
          PROVE  f[i] <= f[k]
      <4>1. CASE i = k
        BY <3>1, <4>1
      <4>2. CASE i # k
        <5>1. i \in 0 .. k - 1 /\ i \in 0 .. n
          BY <1>1, <4>2
        <5>2. f[i] \in Nat /\ f[i] <= f[k - 1]
          BY <1>10, <2>2, <5>1
        <5> QED BY <3>1, <5>2
      <4> QED BY <4>1, <4>2
    <3> QED BY <3>1, <3>2
  <2>3. \A k \in 0 .. n : k \in T
    <3> HIDE DEF T
    <3> QED BY <1>1, <2>1, <2>2, Counting
  <2>4. n \in T
    BY <1>1, <2>3
  <2> QED BY <2>4
<1> QED
  BY <1>2, <1>8, <1>9, <1>10, <1>11 DEF f, n, len

\* An element is accepted if it agrees on every key.
LEMMA ComparedIs ==
    ASSUME NEW node \in NodeType, NEW e,
           \A i, l \in DOMAIN node.sidKeys : node.sidKeys[i] = node.sidKeys[l] => i = l
    PROVE  compareDynamicLongList(node.sidKeys, Agreed(e, node)) <=>
               node.sidKeys # <<>> /\ \A i \in 1 .. Len(node.sidKeys) : Agrees(e, node, i)
<1> DEFINE ks == node.sidKeys
           n == Len(ks)
           Next1(a, i) == IF Agrees(e, node, i) THEN addUniqueLong(a, ks[i]) ELSE a
           g == [i \in 1 .. n |-> [a \in Seq(Nat) |-> Next1(a, i)]]
           Eq(f) == f = [i \in 0 .. n |-> IF i = 0 THEN <<>>
                                          ELSE IF Agrees(e, node, i)
                                               THEN addUniqueLong(f[i - 1], ks[i])
                                               ELSE f[i - 1]]
<1>1. ks \in Seq(Nat) /\ n \in Nat /\ DOMAIN ks = 1 .. n /\ \A i \in 1 .. n : ks[i] \in Nat
  BY DEF NodeType
<1>2. \A a \in Seq(Nat), i \in 1 .. n : Next1(a, i) \in Seq(Nat)
  BY <1>1, AppendProperties DEF addUniqueLong, addLong
<1>3. g \in [1 .. n -> [Seq(Nat) -> Seq(Nat)]]
  <2> HIDE DEF Next1, n
  <2> QED BY <1>2
<1>4. <<>> \in Seq(Nat)
  OBVIOUS
<1>5. PICK it : it \in [0 .. n -> Seq(Nat)] /\ Runs(it, n, <<>>, g)
  <2> HIDE DEF g, n
  <2> QED BY <1>1, <1>3, <1>4, RunExists
<1>6. Eq(it)
  <2>1. \A i \in 0 .. n : i # 0 => i \in 1 .. n /\ i - 1 \in 0 .. n
    BY <1>1
  <2>2. \A i \in 0 .. n : i # 0 => g[i][it[i - 1]] = Next1(it[i - 1], i)
    BY <1>5, <2>1
  <2> HIDE DEF g
  <2> QED BY <1>5, <2>2 DEF Runs
<1>7. Agreed(e, node) = (CHOOSE f : Eq(f))[n]
  BY DEF Agreed
<1> DEFINE f == CHOOSE x : Eq(x)
<1>8. Eq(f)
  <2> HIDE DEF Eq
  <2> QED BY <1>6
<1> HIDE DEF f
<1>9. f[0] = <<>> /\ \A i \in 1 .. n : f[i] = Next1(f[i - 1], i)
  <2>1. 0 \in 0 .. n /\ \A i \in 1 .. n : i \in 0 .. n /\ i # 0
    BY <1>1
  <2> QED BY <1>8, <2>1
<1> DEFINE All(i) == \A l \in 1 .. i : Agrees(e, node, l)
           Good(i) == /\ f[i] \in Seq(Nat) /\ Len(f[i]) <= i
                      /\ Len(f[i]) = i => All(i)
                      /\ All(i) => Len(f[i]) = i /\ \A l \in 1 .. i : f[i][l] = ks[l]
           T == {i \in 0 .. n : Good(i)}
<1> HIDE DEF ks, n
<1>10. 0 \in T
  <2>1. Good(0)
    BY <1>9
  <2>2. 0 \in 0 .. n
    BY <1>1
  <2> HIDE DEF Good
  <2> QED BY <2>1, <2>2
<1>11. ASSUME NEW i \in 1 .. n, i - 1 \in T
       PROVE  i \in T
  <2>1. i \in 0 .. n /\ Good(i - 1) /\ ks[i] \in Nat /\ i - 1 \in 0 .. n
    <3> HIDE DEF Good
    <3>1. Good(i - 1)
      BY <1>11
    <3>2. i \in 0 .. n /\ i - 1 \in 0 .. n
      BY <1>1
    <3>3. ks[i] \in Nat
      BY <1>1
    <3> QED BY <3>1, <3>2, <3>3
  <2> DEFINE b == f[i - 1]
  <2>2. /\ b \in Seq(Nat) /\ Len(b) \in Nat /\ Len(b) <= i - 1
        /\ Len(b) = i - 1 => All(i - 1)
        /\ All(i - 1) => Len(b) = i - 1 /\ \A l \in 1 .. i - 1 : b[l] = ks[l]
    BY <2>1
  <2>3. All(i) <=> All(i - 1) /\ Agrees(e, node, i)
    <3>1. \A l \in 1 .. i : l = i \/ l \in 1 .. i - 1
      BY <2>1
    <3>2. i \in 1 .. i /\ \A l \in 1 .. i - 1 : l \in 1 .. i
      BY <2>1
    <3> QED BY <3>1, <3>2
  <2>4. f[i] = Next1(b, i)
    BY <1>9
  <2> HIDE DEF b, All
  <2>5. CASE ~ Agrees(e, node, i)
    <3>1. f[i] = b
      BY <2>4, <2>5
    <3>2. Good(i)
      BY <2>2, <2>3, <2>5, <3>1
    <3> QED BY <2>1, <3>2
  <2>6. CASE Agrees(e, node, i) /\ Contains(b, ks[i])
    <3>1. f[i] = b
      BY <2>4, <2>6 DEF addUniqueLong
    <3>2. ~ All(i - 1)
      <4> SUFFICES ASSUME All(i - 1) PROVE FALSE
        OBVIOUS
      <4>1. PICK l \in 1 .. Len(b) : b[l] = ks[i]
        BY <2>6 DEF Contains
      <4>2. l \in 1 .. i - 1 /\ b[l] = ks[l] /\ l \in 1 .. n /\ l # i
        <5>1. Len(b) = i - 1 /\ \A k \in 1 .. i - 1 : b[k] = ks[k]
          BY <2>2
        <5>2. l \in 1 .. i - 1
          BY <4>1, <5>1
        <5>3. l \in 1 .. n /\ l # i
          BY <1>1, <5>2
        <5> QED BY <5>1, <5>2, <5>3
      <4> QED BY <1>1, <4>1, <4>2 DEF ks
    <3>3. Good(i)
      BY <2>2, <2>3, <3>1, <3>2
    <3> QED BY <2>1, <3>3
  <2>7. CASE Agrees(e, node, i) /\ ~ Contains(b, ks[i])
    <3>1. f[i] = Append(b, ks[i])
      BY <2>4, <2>7 DEF addUniqueLong, addLong
    <3>2. /\ f[i] \in Seq(Nat) /\ Len(f[i]) = Len(b) + 1 /\ f[i][Len(b) + 1] = ks[i]
          /\ \A l \in 1 .. Len(b) : f[i][l] = b[l]
      BY <2>1, <2>2, <3>1, AppendProperties
    <3>3. Len(f[i]) <= i /\ (Len(f[i]) = i => All(i))
      BY <2>1, <2>2, <2>3, <2>7, <3>2
    <3>4. ASSUME All(i)
          PROVE  Len(f[i]) = i /\ \A l \in 1 .. i : f[i][l] = ks[l]
      <4>1. Len(b) = i - 1 /\ \A l \in 1 .. i - 1 : b[l] = ks[l]
        BY <2>2, <2>3, <3>4
      <4>2. Len(f[i]) = i /\ f[i][i] = ks[i]
        BY <2>1, <3>2, <4>1
      <4>3. \A l \in 1 .. i : l = i \/ l \in 1 .. i - 1
        BY <2>1
      <4> QED BY <3>2, <4>1, <4>2, <4>3
    <3>5. Good(i)
      BY <3>2, <3>3, <3>4
    <3> QED BY <2>1, <3>5
  <2> QED BY <2>5, <2>6, <2>7
<1>12. Good(n)
  <2>1. \A i \in 0 .. n : i \in T
    <3> HIDE DEF T
    <3> QED BY <1>1, <1>10, <1>11, Counting
  <2>2. n \in T
    <3> HIDE DEF T
    <3>1. n \in 0 .. n
      BY <1>1
    <3> QED BY <2>1, <3>1
  <2> QED BY <2>2
<1>13. Agreed(e, node) = f[n]
  BY <1>7 DEF f
<1> HIDE DEF f
<1>14. Len(ks) = n /\ (n # 0 <=> ks # <<>>)
  BY <1>1 DEF n
<1>15. All(n) => f[n] = ks
  BY <1>1, <1>12, <1>14, SeqEqual
<1>16. compareDynamicLongList(ks, f[n]) => All(n) /\ ks # <<>>
  BY <1>12, <1>14 DEF compareDynamicLongList
<1>17. ks # <<>> => compareDynamicLongList(ks, ks)
  BY DEF compareDynamicLongList
<1> QED
  BY <1>13, <1>15, <1>16, <1>17 DEF ks, n

LEMMA ReverseIs ==
    ASSUME NEW a \in Seq(Nat)
    PROVE  /\ Reverse(a) \in Seq(Nat) /\ Len(Reverse(a)) = Len(a)
           /\ \A i \in 1 .. Len(a) : Reverse(a)[i] = a[(Len(a) - i) + 1]
<1> DEFINE n == Len(a)
<1>1. n \in Nat /\ \A i \in 1 .. n : a[i] \in Nat
  OBVIOUS
<1>2. \A i \in 1 .. n : a[(n - i) + 1] \in Nat
  <2>1. \A i \in 1 .. n : (n - i) + 1 \in 1 .. n
    BY <1>1
  <2> QED BY <1>1, <2>1
<1> HIDE DEF n
<1>3. Reverse(a) = [i \in 1 .. n |-> a[(n - i) + 1]]
  BY DEF Reverse, n
<1>4. /\ Reverse(a) \in Seq(Nat) /\ Len(Reverse(a)) = n
      /\ \A i \in 1 .. n : Reverse(a)[i] = a[(n - i) + 1]
  BY <1>1, <1>2, <1>3
<1> QED
  BY <1>4 DEF n

\* The request keys that are left when u of them were taken.
LEMMA KeysLeft ==
    ASSUME NEW a \in Seq(Nat), NEW u \in Nat, u < Len(a)
    PROVE  LET ks == SubSeq(a, 1, Len(a) - u)
           IN  /\ ks \in Seq(Nat) /\ Len(ks) = Len(a) - u /\ ks # <<>>
               /\ \A l \in 1 .. Len(a) - u : ks[(Len(ks) + 1) - l] = Reverse(a)[u + l]
               /\ \A k \in Nat : k < Len(a) - u =>
                    SubSeq(ks, 1, Len(ks) - k) = SubSeq(a, 1, Len(a) - (u + k))
<1> DEFINE ks == SubSeq(a, 1, Len(a) - u)
           n == Len(a)
           h == n - u
<1>1. n \in Nat /\ h \in 0 .. n /\ h # 0
  OBVIOUS
<1>2. ks \in Seq(Nat) /\ Len(ks) = h /\ \A i \in 1 .. h : ks[i] = a[i]
  BY <1>1, PrefixOf
<1> HIDE DEF ks
<1>3. ASSUME NEW l \in 1 .. h
      PROVE  ks[(h + 1) - l] = Reverse(a)[u + l]
  <2>1. (h + 1) - l \in 1 .. h /\ u + l \in 1 .. n /\ (n - (u + l)) + 1 = (h + 1) - l
    BY <1>1
  <2>2. ks[(h + 1) - l] = a[(h + 1) - l]
    BY <1>2, <2>1
  <2>3. Reverse(a)[u + l] = a[(n - (u + l)) + 1]
    BY <2>1, ReverseIs
  <2> HIDE DEF h, n
  <2> QED BY <2>1, <2>2, <2>3
<1>4. ASSUME NEW k \in Nat, k < h
      PROVE  SubSeq(ks, 1, h - k) = SubSeq(a, 1, n - (u + k))
  <2>1. h - k \in 0 .. h /\ h - k \in 0 .. n /\ n - (u + k) = h - k /\ \A i \in 1 .. h - k : i \in 1 .. h
    BY <1>1, <1>4
  <2> HIDE DEF h
  <2>2. /\ SubSeq(ks, 1, h - k) \in Seq(Nat) /\ Len(SubSeq(ks, 1, h - k)) = h - k
        /\ \A i \in 1 .. h - k : SubSeq(ks, 1, h - k)[i] = ks[i]
    BY <1>2, <2>1, PrefixOf
  <2>3. /\ SubSeq(a, 1, h - k) \in Seq(Nat) /\ Len(SubSeq(a, 1, h - k)) = h - k
        /\ \A i \in 1 .. h - k : SubSeq(a, 1, h - k)[i] = a[i]
    BY <2>1, PrefixOf
  <2>4. \A i \in 1 .. h - k : ks[i] = a[i]
    BY <1>2, <2>1
  <2>5. SubSeq(ks, 1, h - k) = SubSeq(a, 1, h - k)
    BY <2>2, <2>3, <2>4, SeqEqual
  <2> QED BY <2>1, <2>5
<1>5. ks # <<>>
  BY <1>1, <1>2
<1> HIDE DEF h
<1> QED
  BY <1>2, <1>3, <1>4, <1>5 DEF h, n, ks

\* The keys of an element are the next k request keys of r after u of them.
Selected(m, e, s, r, u) ==
    \A l \in 1 .. Len(KeySids(m, s)) : KeysOf(m, e, s)[l] = r[u + l]

\* The search accepts the elements that the next request keys select.
LEMMA MatchingIs ==
    ASSUME NEW m \in Models, DistinctKeys(m), NEW node \in NodeType,
           node.sidKeys = KeySids(m, node.parentSID), node.sidKeys # <<>>,
           NEW list \in Seq(Values), NEW i \in DOMAIN list, list[i].t = "map",
           asked \in Seq(Nat), NEW u \in Nat, u + Len(node.sidKeys) <= Len(asked),
           keys = SubSeq(asked, 1, Len(asked) - u)
    PROVE  i \in Matching(list, node) <=>
               Selected(m, list[i], node.parentSID, Reverse(asked), u)
<1> DEFINE ks == node.sidKeys
           s == node.parentSID
           n == Len(ks)
           e == list[i]
<1>1. ks \in Seq(Nat) /\ n \in Nat /\ n # 0 /\ DOMAIN ks = 1 .. n
  BY DEF NodeType
<1>2. \A j, l \in DOMAIN ks : ks[j] = ks[l] => j = l
  BY DEF KeySids, DistinctKeys
<1>3. i \in Matching(list, node) <=> \A l \in 1 .. n : Agrees(e, node, l)
  BY <1>2, ComparedIs DEF Matching
<1>4. e \in Values
  OBVIOUS
<1>5. u < Len(asked) /\ Len(asked) \in Nat
  BY <1>1
<1>6. /\ Len(keys) = Len(asked) - u
      /\ \A l \in 1 .. Len(asked) - u : keys[(Len(keys) + 1) - l] = Reverse(asked)[u + l]
  BY <1>5, KeysLeft
<1>7. ASSUME NEW l \in 1 .. n
      PROVE  Agrees(e, node, l) <=> KeysOf(m, e, s)[l] = Reverse(asked)[u + l]
  <2>0. Len(keys) = Len(asked) - u
    BY <1>6
  <2>a. u + n <= Len(asked) /\ l \in Nat /\ 1 <= l /\ l <= n
    BY <1>1
  <2>b. l \in 1 .. Len(asked) - u
    <3> HIDE DEF n
    <3> QED BY <1>1, <1>5, <2>a
  <2>1. l \in 1 .. Len(asked) - u /\ l <= Len(keys) /\ Len(keys) + 1 - l = (Len(keys) + 1) - l
    BY <1>5, <2>0, <2>b
  <2>2. KeyAt(l) = Reverse(asked)[u + l]
    BY <1>6, <2>1 DEF KeyAt
  <2>3. KeysOf(m, e, s)[l] = getCoreconfValueAsUint64(getCoreconfHashMap(e.v, ks[l] - s))
    <3>1. e.t = "map" /\ ks = KeySids(m, s) /\ l \in 1 .. Len(KeySids(m, s))
      OBVIOUS
    <3> HIDE DEF e, s, ks
    <3>2. KeysOf(m, e, s)[l] =
            getCoreconfValueAsUint64(
                IF e.t = "map" THEN getCoreconfHashMap(e.v, KeySids(m, s)[l] - s) ELSE Null)
      BY <1>4, <3>1, KeysOfType
    <3> QED BY <3>1, <3>2
  <2> QED BY <2>2, <2>3 DEF Agrees
<1> QED
  BY <1>3, <1>7 DEF Selected

\* The search takes the first element that the next request keys select, or none
\* when they select none.
Choice(m, list, node, u) ==
    LET s == node.parentSID
        Fits(i) == Selected(m, list[i], s, Reverse(asked), u)
        first == Min(Matching(list, node))
    IN  /\ Matching(list, node) = {} => \A i \in DOMAIN list : ~ Fits(i)
        /\ Matching(list, node) # {} =>
             /\ first \in Firsts(m, list, s) /\ Fits(first)
             /\ \A i \in Firsts(m, list, s) : Fits(i) => i = first

LEMMA ChoiceIs ==
    ASSUME NEW m \in Models, DistinctKeys(m), NEW node \in NodeType,
           node.sidKeys = KeySids(m, node.parentSID), node.sidKeys # <<>>,
           NEW list \in Seq(Values),
           asked \in Seq(Nat), NEW u \in Nat, u + Len(node.sidKeys) <= Len(asked),
           keys = SubSeq(asked, 1, Len(asked) - u),
           Readable(list, node, IF Matching(list, node) = {} THEN Len(list)
                                ELSE Min(Matching(list, node)))
    PROVE  Choice(m, list, node, u)
<1> DEFINE s == node.parentSID
           n == Len(KeySids(m, s))
           r == Reverse(asked)
           Fits(i) == Selected(m, list[i], s, r, u)
           found == Matching(list, node)
           first == Min(found)
           last == IF found = {} THEN Len(list) ELSE first
<1>1. found \in SUBSET Nat /\ found \subseteq DOMAIN list
  BY DEF Matching
<1>2. found # {} => first \in found /\ \A i \in found : first <= i
  <2> HIDE DEF found
  <2> SUFFICES ASSUME found # {} PROVE first \in found /\ \A i \in found : first <= i
    OBVIOUS
  <2>1. \E i \in found : \A k \in found : i <= k
    BY <1>1, LeastNumber
  <2> QED BY <2>1 DEF Min
<1>3. DOMAIN list = 1 .. Len(list) /\ Len(list) \in Nat
  OBVIOUS
<1>4. \A i \in 1 .. last : list[i].t = "map"
  <2>1. \E k : k \in Range(node.sidKeys)
    <3>1. node.sidKeys \in Seq(Nat)
      BY DEF NodeType
    <3>2. 1 \in DOMAIN node.sidKeys
      BY <3>1
    <3> QED BY <3>2 DEF Range
  <2> HIDE DEF found
  <2>2. Readable(list, node, last)
    BY DEF found
  <2> HIDE DEF last
  <2> QED BY <2>1, <2>2 DEF Readable
<1>5. \A i \in 1 .. last : i \in DOMAIN list /\ (i \in found <=> Fits(i))
  <2>1. \A i \in 1 .. last : i \in DOMAIN list
    <3> HIDE DEF found, first
    <3> QED BY <1>1, <1>2, <1>3
  <2> HIDE DEF last
  <2>2. ASSUME NEW i \in 1 .. last
        PROVE  i \in found <=> Fits(i)
    <3>1. i \in DOMAIN list /\ list[i].t = "map"
      BY <1>4, <2>1
    <3> QED BY <3>1, MatchingIs
  <2> QED BY <2>1, <2>2
<1> HIDE DEF found
<1>6. found = {} => \A i \in DOMAIN list : ~ Fits(i)
  <2> SUFFICES ASSUME found = {}, NEW i \in DOMAIN list PROVE ~ Fits(i)
    OBVIOUS
  <2>1. i \in 1 .. last
    BY <1>3
  <2> HIDE DEF Fits, last
  <2> QED BY <1>5, <2>1
<1>7. ASSUME found # {}
      PROVE  /\ first \in Firsts(m, list, s) /\ Fits(first)
             /\ \A i \in Firsts(m, list, s) : Fits(i) => i = first
  <2>1. first \in found /\ first \in 1 .. Len(list) /\ last = first /\ first \in 1 .. first
        /\ \A i \in found : first <= i
    <3>1. last = first
      BY <1>7
    <3> HIDE DEF first, last
    <3>2. first \in found /\ \A i \in found : first <= i
      BY <1>2, <1>7
    <3>3. first \in 1 .. Len(list)
      BY <1>1, <1>3, <3>2
    <3> QED BY <3>1, <3>2, <3>3
  <2> HIDE DEF first, last, Fits
  <2>2. Fits(first)
    BY <1>5, <2>1
  <2>3. \A j \in 1 .. first - 1 : j \in 1 .. last /\ j \notin found
    BY <2>1
  <2>4. \A j \in 1 .. first - 1 : ~ Fits(j)
    BY <1>5, <2>3
  <2>5. \A i, j : KeysOf(m, list[j], s) = KeysOf(m, list[i], s) => (Fits(i) <=> Fits(j))
    BY DEF Fits, Selected
  <2>6. first \in Firsts(m, list, s)
    BY <1>3, <2>1, <2>2, <2>4, <2>5 DEF Firsts
  <2>7. ASSUME NEW i \in Firsts(m, list, s), Fits(i), i # first
        PROVE  FALSE
    <3>1. i \in 1 .. Len(list) /\ \A j \in 1 .. i - 1 : KeysOf(m, list[j], s) # KeysOf(m, list[i], s)
      BY <1>3, <2>7 DEF Firsts
    <3>2. CASE i < first
      <4>1. i \in 1 .. first - 1
        BY <2>1, <3>1, <3>2
      <4> QED BY <2>4, <2>7, <4>1
    <3>3. CASE first < i
      <4>1. first \in 1 .. i - 1 /\ first \in 1 .. Len(list) /\ i \in 1 .. Len(list)
        BY <2>1, <3>1, <3>3
      <4>2. KeysOf(m, list[first], s) # KeysOf(m, list[i], s)
        BY <3>1, <4>1
      <4>3. KeysOf(m, list[first], s) = KeysOf(m, list[i], s)
        <5> DEFINE e == list[i]
                   b == list[first]
        <5>1. e \in Values /\ b \in Values
          BY <4>1
        <5> HIDE DEF e, b
        <5>2. /\ KeysOf(m, e, s) \in Seq(Nat) /\ Len(KeysOf(m, e, s)) = n
              /\ KeysOf(m, b, s) \in Seq(Nat) /\ Len(KeysOf(m, b, s)) = n
          BY <5>1, KeysOfType
        <5>3. \A l \in 1 .. n : KeysOf(m, b, s)[l] = KeysOf(m, e, s)[l]
          BY <2>2, <2>7 DEF Fits, Selected, e, b
        <5>4. KeysOf(m, b, s) = KeysOf(m, e, s)
          BY <5>2, <5>3, SeqEqual
        <5> QED BY <5>4 DEF e, b
      <4> QED BY <4>2, <4>3
    <3> QED BY <2>1, <2>7, <3>1, <3>2, <3>3
  <2> QED BY <2>2, <2>6, <2>7
<1> QED
  BY <1>6, <1>7 DEF found, first, Choice

\* The SID above node j of a path, and the instances that its first j SIDs lead
\* to: all of them, and those that the first request keys select.
Before(nodes, j) == IF j = 1 THEN 0 ELSE nodes[j - 1].parentSID
Delta(nodes, j) == nodes[j].parentSID - Before(nodes, j)
Along(p, nodes, j) == Len(p) = j /\ \A i \in 1 .. j : p[i] = nodes[i].parentSID
Taken(ks, r, u) == Len(ks) = u /\ \A l \in 1 .. u : ks[l] = r[l]
Here(m, nodes, j) == {x \in Instances(m, Len(nodes))[j] : Along(x.path, nodes, j)}
Chosen(m, nodes, r, j) == {x \in Here(m, nodes, j) : Taken(x.keys, r, Needed(nodes)[j])}

\* The nodes of a path in a model.
NodesOf(nodes, m) ==
    /\ nodes \in Seq(NodeType)
    /\ \A i \in 1 .. Len(nodes) : nodes[i].sidKeys = KeySids(m, nodes[i].parentSID)

LEMMA EndAlong ==
    ASSUME NEW nodes, NEW j \in Nat \ {0}, NEW p \in Seq(Nat), Along(p, nodes, j - 1)
    PROVE  End(p) = Before(nodes, j)
<1>1. CASE j = 1
  BY <1>1 DEF Along, End, Before
<1>2. CASE j # 1
  <2>1. j - 1 \in 1 .. j - 1 /\ Len(p) = j - 1 /\ p # <<>>
    BY <1>2 DEF Along
  <2>2. End(p) = p[j - 1]
    BY <2>1, EndType
  <2> QED BY <1>2, <2>1, <2>2 DEF Along, Before
<1> QED
  BY <1>1, <1>2

\* y is one node further on the way down than x, at delta d.
Continues(m, nodes, j, x, y, d) ==
    LET s == nodes[j].parentSID
        c == x.value.v[d]
    IN  /\ y \in Instances(m, Len(nodes))[j]
        /\ x \in InstanceType /\ y \in InstanceType
        /\ d \in Nat /\ c \in Values
        /\ Along(y.path, nodes, j) <=> /\ Along(x.path, nodes, j - 1)
                                       /\ d = Delta(nodes, j)
        /\ Along(y.path, nodes, j) =>
             \/ /\ nodes[j].sidKeys # <<>> /\ c.t = "array"
                /\ \E i \in Firsts(m, c.v, s) :
                     y.keys = x.keys \o KeysOf(m, c.v[i], s) /\ y.value = c.v[i]
             \/ /\ ~ (nodes[j].sidKeys # <<>> /\ c.t = "array")
                /\ y.keys = x.keys /\ y.value = c

LEMMA AlongDown ==
    ASSUME NEW m \in Models, NEW nodes, NodesOf(nodes, m), NEW j \in 1 .. Len(nodes),
           NEW x, NEW y, NEW d, x \in Instances(m, Len(nodes))[j - 1],
           x.value.t = "map", d \in DOMAIN x.value.v, y \in Below(m, x, d)
    PROVE  Continues(m, nodes, j, x, y, d)
<1> DEFINE n == Len(nodes)
           s == nodes[j].parentSID
           t == d + End(x.path)
           c == x.value.v[d]
           f == Instances(m, n)
<1>1. nodes \in Seq(NodeType) /\ n \in Nat /\ \A i \in 1 .. n : nodes[i] \in NodeType
  BY DEF NodesOf
<1>2. \A i \in 1 .. n : nodes[i].parentSID \in Nat
  BY <1>1 DEF NodeType
<1>3. j \in 1 .. n /\ j \in 0 .. n /\ j - 1 \in 0 .. n
  BY <1>1
<1>4. /\ f \in [0 .. n -> SUBSET InstanceType]
      /\ f[j] = UNION {Further(m, z) : z \in f[j - 1]}
  <2> HIDE DEF n
  <2> QED BY <1>1, <1>3, InstancesRun
<1>5. x \in InstanceType /\ y \in Further(m, x) /\ y \in f[j] /\ y \in InstanceType
  <2>1. x \in f[j - 1]
    OBVIOUS
  <2>2. y \in Further(m, x)
    BY DEF Further
  <2> HIDE DEF f, n
  <2> QED BY <1>3, <1>4, <2>1, <2>2
<1> HIDE DEF f
<1>6. x.path \in Seq(Nat) /\ x.value \in Values /\ End(x.path) \in Nat
  BY <1>5, EndType DEF InstanceType
<1>7. d \in Nat /\ c \in Values
  BY <1>6, ModelAssumption DEF IsValue
<1>8. t \in Nat
  BY <1>6, <1>7
<1>9. /\ y.path = Append(x.path, t)
      /\ \/ /\ KeySids(m, t) # <<>> /\ c.t = "array"
            /\ \E i \in Firsts(m, c.v, t) :
                 y.keys = x.keys \o KeysOf(m, c.v[i], t) /\ y.value = c.v[i]
         \/ /\ ~ (KeySids(m, t) # <<>> /\ c.t = "array")
            /\ y.keys = x.keys /\ y.value = c
  <2>1. CASE KeySids(m, t) # <<>> /\ c.t = "array"
    <3>1. PICK i \in Firsts(m, c.v, t) :
                 y = [path |-> Append(x.path, t), keys |-> x.keys \o KeysOf(m, c.v[i], t),
                      value |-> c.v[i]]
      BY <2>1 DEF Below
    <3>2. y.path = Append(x.path, t) /\ y.keys = x.keys \o KeysOf(m, c.v[i], t) /\ y.value = c.v[i]
      BY <3>1
    <3> HIDE DEF t, c
    <3> QED BY <2>1, <3>2
  <2>2. CASE ~ (KeySids(m, t) # <<>> /\ c.t = "array")
    <3>1. y = [path |-> Append(x.path, t), keys |-> x.keys, value |-> c]
      BY <2>2 DEF Below
    <3>2. y.path = Append(x.path, t) /\ y.keys = x.keys /\ y.value = c
      BY <3>1
    <3> HIDE DEF t, c
    <3> QED BY <2>2, <3>2
  <2> QED BY <2>1, <2>2
<1>10. /\ Len(y.path) = Len(x.path) + 1 /\ Len(x.path) \in Nat
       /\ y.path[Len(x.path) + 1] = t /\ \A i \in 1 .. Len(x.path) : y.path[i] = x.path[i]
  <2>1. y.path = Append(x.path, t)
    BY <1>9
  <2>2. x.path \in Seq(Nat)
    BY <1>6
  <2> HIDE DEF t
  <2> QED BY <1>8, <2>1, <2>2, AppendProperties
<1>11. Along(x.path, nodes, j - 1) => End(x.path) = Before(nodes, j)
  <2>1. j \in Nat \ {0}
    BY <1>3
  <2> QED BY <1>6, <2>1, EndAlong
<1>12. Along(y.path, nodes, j) <=> Along(x.path, nodes, j - 1) /\ t = s
  <2>1. ASSUME Along(y.path, nodes, j)
        PROVE  Along(x.path, nodes, j - 1) /\ t = s
    <3>1. Len(x.path) = j - 1 /\ \A i \in 1 .. j : y.path[i] = nodes[i].parentSID
      BY <1>3, <1>10, <2>1 DEF Along
    <3>2. j \in 1 .. j /\ \A i \in 1 .. j - 1 : i \in 1 .. j
      BY <1>3
    <3>3. y.path[j] = t
      BY <1>3, <1>10, <3>1
    <3> QED BY <1>10, <3>1, <3>2, <3>3 DEF Along
  <2>2. ASSUME Along(x.path, nodes, j - 1), t = s
        PROVE  Along(y.path, nodes, j)
    <3>1. Len(x.path) = j - 1 /\ \A i \in 1 .. j - 1 : x.path[i] = nodes[i].parentSID
      BY <2>2 DEF Along
    <3>2. \A i \in 1 .. j : i = j \/ i \in 1 .. j - 1
      BY <1>3
    <3>3. Len(y.path) = j /\ y.path[j] = t
      BY <1>3, <1>10, <3>1
    <3> QED BY <1>10, <2>2, <3>1, <3>2, <3>3 DEF Along
  <2> QED BY <2>1, <2>2
<1>13. Along(x.path, nodes, j - 1) => (t = s <=> d = Delta(nodes, j))
  BY <1>2, <1>3, <1>6, <1>7, <1>11 DEF Delta
<1>14. nodes[j].sidKeys = KeySids(m, s)
  BY DEF NodesOf
<1>15. t = s =>
         \/ /\ KeySids(m, s) # <<>> /\ c.t = "array"
            /\ \E i \in Firsts(m, c.v, s) :
                 y.keys = x.keys \o KeysOf(m, c.v[i], s) /\ y.value = c.v[i]
         \/ /\ ~ (KeySids(m, s) # <<>> /\ c.t = "array")
            /\ y.keys = x.keys /\ y.value = c
  <2> SUFFICES ASSUME t = s
               PROVE  \/ /\ KeySids(m, t) # <<>> /\ c.t = "array"
                         /\ \E i \in Firsts(m, c.v, t) :
                              y.keys = x.keys \o KeysOf(m, c.v[i], t) /\ y.value = c.v[i]
                      \/ /\ ~ (KeySids(m, t) # <<>> /\ c.t = "array")
                         /\ y.keys = x.keys /\ y.value = c
    OBVIOUS
  <2> HIDE DEF s, t, c
  <2> QED BY <1>9
<1> QED
  BY <1>5, <1>7, <1>12, <1>13, <1>14, <1>15 DEF f, Continues

\* What an instance y along a path is below.
Descends(m, nodes, j, x, y) ==
    LET s == nodes[j].parentSID
        c == x.value.v[Delta(nodes, j)]
    IN  /\ x \in InstanceType /\ x.value.t = "map" /\ Delta(nodes, j) \in DOMAIN x.value.v
        /\ c \in Values
        /\ \/ /\ nodes[j].sidKeys # <<>> /\ c.t = "array"
              /\ \E i \in Firsts(m, c.v, s) :
                   y.keys = x.keys \o KeysOf(m, c.v[i], s) /\ y.value = c.v[i]
           \/ /\ ~ (nodes[j].sidKeys # <<>> /\ c.t = "array")
              /\ y.keys = x.keys /\ y.value = c

LEMMA DownFrom ==
    ASSUME NEW m \in Models, NEW nodes, NodesOf(nodes, m), NEW j \in 1 .. Len(nodes),
           NEW y \in Here(m, nodes, j)
    PROVE  y \in InstanceType /\ \E x \in Here(m, nodes, j - 1) : Descends(m, nodes, j, x, y)
<1> DEFINE n == Len(nodes)
           f == Instances(m, n)
<1>1. n \in Nat
  BY DEF NodesOf
<1>2. y \in f[j] /\ Along(y.path, nodes, j)
  BY DEF Here
<1>3. f[j] = UNION {Further(m, z) : z \in f[j - 1]}
  <2>1. j \in 1 .. n
    OBVIOUS
  <2> HIDE DEF n
  <2> QED BY <1>1, <2>1, InstancesRun
<1>4. PICK x \in f[j - 1] : y \in Further(m, x)
  <2> HIDE DEF f
  <2> QED BY <1>2, <1>3
<1>5. x.value.t = "map" /\ \E d \in DOMAIN x.value.v : y \in Below(m, x, d)
  BY <1>4 DEF Further
<1>6. PICK d \in DOMAIN x.value.v : y \in Below(m, x, d)
  BY <1>5
<1> DEFINE s == nodes[j].parentSID
           c == x.value.v[d]
<1>7. /\ x \in InstanceType /\ y \in InstanceType /\ d \in Nat /\ c \in Values
      /\ Along(x.path, nodes, j - 1) /\ d = Delta(nodes, j)
      /\ \/ /\ nodes[j].sidKeys # <<>> /\ c.t = "array"
            /\ \E i \in Firsts(m, c.v, s) :
                 y.keys = x.keys \o KeysOf(m, c.v[i], s) /\ y.value = c.v[i]
         \/ /\ ~ (nodes[j].sidKeys # <<>> /\ c.t = "array")
            /\ y.keys = x.keys /\ y.value = c
  <2>1. Continues(m, nodes, j, x, y, d)
    <3>1. x \in Instances(m, Len(nodes))[j - 1] /\ x.value.t = "map"
      BY <1>4, <1>5
    <3> QED BY <1>6, <3>1, AlongDown
  <2> QED BY <1>2, <2>1 DEF Continues
<1>8. x \in Here(m, nodes, j - 1)
  BY <1>4, <1>7 DEF Here
<1>9. Descends(m, nodes, j, x, y)
  BY <1>5, <1>6, <1>7 DEF Descends
<1> QED
  BY <1>7, <1>8, <1>9

\* No instance along a path has more keys than its nodes need.
LEMMA KeysBound ==
    ASSUME NEW m \in Models, NEW nodes, NodesOf(nodes, m), NEW j \in 0 .. Len(nodes),
           NEW x \in Here(m, nodes, j)
    PROVE  x \in InstanceType /\ Len(x.keys) <= Needed(nodes)[j]
<1> DEFINE n == Len(nodes)
           w == Needed(nodes)
           T == {i \in 0 .. n : \A y \in Here(m, nodes, i) :
                                    y \in InstanceType /\ Len(y.keys) <= w[i]}
<1>1. /\ n \in Nat /\ w \in [0 .. n -> Nat] /\ w[0] = 0
      /\ \A k \in 1 .. n : w[k] = w[k - 1] + Len(nodes[k].sidKeys) /\ Len(nodes[k].sidKeys) \in Nat
  <2>1. nodes \in Seq(NodeType)
    BY DEF NodesOf
  <2> QED BY <2>1, NeededRun
<1> HIDE DEF w
<1>2. 0 \in T
  <2>1. 0 \in 0 .. n
    BY <1>1
  <2>2. ASSUME NEW y \in Here(m, nodes, 0)
        PROVE  y \in InstanceType /\ Len(y.keys) <= w[0]
    <3>1. y = [path |-> <<>>, keys |-> <<>>, value |-> m.tree]
      BY <1>1, InstancesRun DEF Here
    <3> QED BY <1>1, <3>1, ModelAssumption DEF InstanceType
  <2> QED BY <2>1, <2>2
<1>3. ASSUME NEW i \in 1 .. n, i - 1 \in T
      PROVE  i \in T
  <2>0. i \in 1 .. Len(nodes) /\ i \in 0 .. n /\ i - 1 \in 0 .. n
    BY <1>1
  <2> HIDE DEF n
  <2>1. ASSUME NEW y \in Here(m, nodes, i)
        PROVE  y \in InstanceType /\ Len(y.keys) <= w[i]
    <3> DEFINE s == nodes[i].parentSID
               d == Delta(nodes, i)
    <3>1. y \in InstanceType
      BY <2>0, DownFrom
    <3>a. PICK z \in Here(m, nodes, i - 1) : Descends(m, nodes, i, z, y)
      BY <2>0, DownFrom
    <3>2.        /\ z \in InstanceType /\ z.value.t = "map" /\ d \in DOMAIN z.value.v
                 /\ z.value.v[d] \in Values
                 /\ \/ /\ nodes[i].sidKeys # <<>> /\ z.value.v[d].t = "array"
                       /\ \E l \in Firsts(m, z.value.v[d].v, s) :
                            /\ y.keys = z.keys \o KeysOf(m, z.value.v[d].v[l], s)
                            /\ y.value = z.value.v[d].v[l]
                    \/ /\ ~ (nodes[i].sidKeys # <<>> /\ z.value.v[d].t = "array")
                       /\ y.keys = z.keys /\ y.value = z.value.v[d]
      BY <3>a DEF Descends
    <3>3. Len(z.keys) <= w[i - 1] /\ z.keys \in Seq(Nat)
      BY <1>3, <3>2 DEF InstanceType
    <3>4. /\ w[i] = w[i - 1] + Len(nodes[i].sidKeys) /\ Len(nodes[i].sidKeys) \in Nat
          /\ w[i - 1] \in Nat /\ Len(z.keys) \in Nat
      BY <1>1, <2>0, <3>3
    <3>5. CASE y.keys = z.keys
      BY <3>1, <3>3, <3>4, <3>5
    <3>6. CASE z.value.v[d].t = "array" /\ \E l \in Firsts(m, z.value.v[d].v, s) :
                    y.keys = z.keys \o KeysOf(m, z.value.v[d].v[l], s)
      <4> DEFINE list == z.value.v[d].v
      <4>1. PICK l \in Firsts(m, list, s) : y.keys = z.keys \o KeysOf(m, list[l], s)
        BY <3>6
      <4>2. list \in Seq(Values)
        BY <3>2, <3>6, ModelAssumption DEF IsValue
      <4> DEFINE ks == KeysOf(m, list[l], s)
      <4> HIDE DEF list, s
      <4>3. list[l] \in Values
        BY <4>1, <4>2 DEF Firsts
      <4>4. ks \in Seq(Nat) /\ Len(ks) = Len(KeySids(m, s))
        BY <4>3, KeysOfType
      <4>5. nodes[i].sidKeys = KeySids(m, s)
        BY <2>0 DEF NodesOf, s
      <4>6. y.keys = z.keys \o ks
        BY <4>1
      <4> HIDE DEF ks
      <4>7. Len(z.keys \o ks) = Len(z.keys) + Len(ks)
        BY <3>3, <4>4, ConcatProperties
      <4>8. Len(y.keys) = Len(z.keys) + Len(nodes[i].sidKeys)
        BY <4>4, <4>5, <4>6, <4>7
      <4>9. \A a, b, c \in Nat : a <= b => a + c <= b + c
        OBVIOUS
      <4>10. Len(z.keys) + Len(nodes[i].sidKeys) <= w[i - 1] + Len(nodes[i].sidKeys)
        BY <3>3, <3>4, <4>9
      <4> QED BY <3>1, <3>4, <4>8, <4>10
    <3> QED BY <3>2, <3>5, <3>6
  <2> QED BY <2>0, <2>1
<1>4. \A i \in 0 .. n : i \in T
  <2> HIDE DEF T
  <2> QED BY <1>1, <1>2, <1>3, Counting
<1> QED
  BY <1>4 DEF w

\* The walk is at the one value that the request keys taken so far select, or at
\* a value below which it cannot go on when they select none.
OnTrack(m, nodes, r, j, v) ==
    Chosen(m, nodes, r, j) # {} /\ \A x \in Chosen(m, nodes, r, j) : x.value = v
OffTrack(m, nodes, r, j, v) ==
    /\ Chosen(m, nodes, r, j) = {}
    /\ v.t # "map"
    /\ \A x \in Here(m, nodes, j) : x.value # v

LEMMA StartsOnTrack ==
    ASSUME NEW m \in Models, NEW nodes, NodesOf(nodes, m), NEW r
    PROVE  OnTrack(m, nodes, r, 0, m.tree)
<1> DEFINE root == [path |-> <<>>, keys |-> <<>>, value |-> m.tree]
<1>1. Instances(m, Len(nodes))[0] = {root}
  <2>1. Len(nodes) \in Nat
    BY DEF NodesOf
  <2> QED BY <2>1, InstancesRun
<1>2. Needed(nodes)[0] = 0
  BY NeededRun DEF NodesOf
<1>3. Along(root.path, nodes, 0) /\ Taken(root.keys, r, 0)
  BY DEF Along, Taken
<1>4. Chosen(m, nodes, r, 0) = {root}
  BY <1>1, <1>2, <1>3 DEF Chosen, Here
<1>5. root.value = m.tree
  OBVIOUS
<1> HIDE DEF root
<1> QED
  BY <1>4, <1>5 DEF OnTrack

\* The instances below an instance x that a path leads to.
Leads(m, nodes, j, x) ==
    LET s == nodes[j].parentSID
        c == x.value.v[Delta(nodes, j)]
    IN  /\ c \in Values
        /\ nodes[j].sidKeys = <<>> =>
             \E y \in Here(m, nodes, j) : y.keys = x.keys /\ y.value = c
        /\ nodes[j].sidKeys # <<>> /\ c.t = "array" =>
             \A i \in Firsts(m, c.v, s) : \E y \in Here(m, nodes, j) :
                 y.keys = x.keys \o KeysOf(m, c.v[i], s) /\ y.value = c.v[i]

LEMMA StepsDown ==
    ASSUME NEW m \in Models, NEW nodes, NodesOf(nodes, m), NEW j \in 1 .. Len(nodes),
           NEW x \in Here(m, nodes, j - 1), x.value.t = "map",
           Delta(nodes, j) \in DOMAIN x.value.v
    PROVE  Leads(m, nodes, j, x)
<1> DEFINE d == Delta(nodes, j)
           s == nodes[j].parentSID
           c == x.value.v[d]
           t == d + End(x.path)
<1>1. /\ x \in InstanceType /\ x \in Instances(m, Len(nodes))[j - 1]
      /\ Along(x.path, nodes, j - 1)
  <2>1. j - 1 \in 0 .. Len(nodes)
    BY DEF NodesOf
  <2> QED BY <2>1, KeysBound DEF Here
<1>2. x.path \in Seq(Nat) /\ x.value \in Values /\ j \in Nat \ {0}
  BY <1>1 DEF InstanceType, NodesOf
<1>3. End(x.path) = Before(nodes, j) /\ End(x.path) \in Nat
  BY <1>1, <1>2, EndAlong, EndType
<1>4. d \in Nat /\ c \in Values
  BY <1>2, ModelAssumption DEF IsValue
<1>5. nodes[j].sidKeys = KeySids(m, s) /\ s \in Nat
  <2>1. nodes[j] \in NodeType
    BY DEF NodesOf
  <2> QED BY <2>1 DEF NodesOf, NodeType
<1>6. t = s
  BY <1>3, <1>4, <1>5 DEF Delta
<1>7. ASSUME NEW y \in Below(m, x, d)
      PROVE  y \in Here(m, nodes, j)
  <2>1. Continues(m, nodes, j, x, y, d)
    BY <1>1, AlongDown
  <2> QED BY <1>1, <2>1 DEF Continues, Here
<1>8. ASSUME nodes[j].sidKeys = <<>>
      PROVE  \E y \in Here(m, nodes, j) : y.keys = x.keys /\ y.value = c
  <2> DEFINE y == [path |-> Append(x.path, t), keys |-> x.keys, value |-> c]
  <2>1. y.keys = x.keys /\ y.value = c
    OBVIOUS
  <2>2. KeySids(m, t) = <<>>
    BY <1>5, <1>6, <1>8
  <2>3. y \in Below(m, x, d)
    BY <2>2 DEF Below
  <2> HIDE DEF y
  <2> QED BY <1>7, <2>1, <2>3
<1>9. ASSUME nodes[j].sidKeys # <<>>, c.t = "array", NEW i \in Firsts(m, c.v, s)
      PROVE  \E y \in Here(m, nodes, j) :
                 y.keys = x.keys \o KeysOf(m, c.v[i], s) /\ y.value = c.v[i]
  <2> DEFINE y == [path |-> Append(x.path, t), keys |-> x.keys \o KeysOf(m, c.v[i], t),
                   value |-> c.v[i]]
  <2>1. y.keys = x.keys \o KeysOf(m, c.v[i], s) /\ y.value = c.v[i]
    <3> HIDE DEF t, s
    <3> QED BY <1>6
  <2>2. KeySids(m, t) # <<>>
    BY <1>5, <1>6, <1>9
  <2>3. i \in Firsts(m, c.v, t)
    BY <1>6, <1>9
  <2>4. y \in Below(m, x, d)
    BY <1>9, <2>2, <2>3 DEF Below
  <2> HIDE DEF y
  <2> QED BY <1>7, <2>1, <2>4
<1> QED
  BY <1>4, <1>8, <1>9 DEF Leads

\* A node without keys: its child, or nothing where there is none.
LEMMA PlainStep ==
    ASSUME NEW m \in Models, NEW nodes, NodesOf(nodes, m), NEW j \in 1 .. Len(nodes),
           NEW r, NEW v, OnTrack(m, nodes, r, j - 1, v), v.t = "map",
           nodes[j].sidKeys = <<>>,
           NEW child, child = getCoreconfHashMap(v.v, Delta(nodes, j))
    PROVE  OnTrack(m, nodes, r, j, child) \/ OffTrack(m, nodes, r, j, child)
<1> DEFINE s == nodes[j].parentSID
           d == Delta(nodes, j)
           w == Needed(nodes)
<1>1. w[j] = w[j - 1]
  <2>1. /\ w[j] = w[j - 1] + Len(nodes[j].sidKeys)
        /\ w[j - 1] \in Nat
    <3>1. nodes \in Seq(NodeType) /\ j - 1 \in 0 .. Len(nodes)
      BY DEF NodesOf
    <3> QED BY <3>1, NeededRun
  <2> HIDE DEF w
  <2> QED BY <2>1
<1> HIDE DEF w
<1>2. ASSUME NEW y \in Chosen(m, nodes, r, j)
      PROVE  /\ d \in DOMAIN v.v /\ y.value = v.v[d]
  <2>1. y \in Here(m, nodes, j) /\ Taken(y.keys, r, w[j])
    BY DEF Chosen, w
  <2>a. PICK x \in Here(m, nodes, j - 1) : Descends(m, nodes, j, x, y)
    BY <2>1, DownFrom
  <2>2. d \in DOMAIN x.value.v /\ y.keys = x.keys /\ y.value = x.value.v[d]
    BY <2>a DEF Descends
  <2>3. x \in Chosen(m, nodes, r, j - 1)
    BY <1>1, <2>1, <2>2 DEF Chosen, w
  <2>4. x.value = v
    BY <2>3 DEF OnTrack
  <2> QED BY <2>2, <2>4
<1>3. CASE d \in DOMAIN v.v
  <2>1. child = v.v[d]
    BY <1>3 DEF getCoreconfHashMap
  <2>2. PICK x \in Chosen(m, nodes, r, j - 1) : x.value = v
    BY DEF OnTrack
  <2>3. x \in Here(m, nodes, j - 1) /\ Taken(x.keys, r, w[j - 1])
    BY DEF Chosen, w
  <2>4. PICK y \in Here(m, nodes, j) : y.keys = x.keys /\ y.value = v.v[d]
    <3>1. x.value.t = "map" /\ Delta(nodes, j) \in DOMAIN x.value.v
      BY <1>3, <2>2
    <3>2. \E y \in Here(m, nodes, j) : y.keys = x.keys /\ y.value = x.value.v[Delta(nodes, j)]
      <4>1. Leads(m, nodes, j, x)
        BY <2>3, <3>1, StepsDown
      <4> QED BY <4>1 DEF Leads
    <3> QED BY <2>2, <3>2
  <2>5. y \in Chosen(m, nodes, r, j)
    BY <1>1, <2>3, <2>4 DEF Chosen, w
  <2> QED BY <1>2, <2>1, <2>5 DEF OnTrack
<1>4. CASE d \notin DOMAIN v.v
  <2>1. child = Null
    BY <1>4 DEF getCoreconfHashMap
  <2>2. Chosen(m, nodes, r, j) = {}
    BY <1>2, <1>4
  <2>3. Null \notin Values
    <3>1. ~ IsValue(Null)
      BY DEF IsValue, Null
    <3> QED BY <3>1, ModelAssumption
  <2>4. \A x \in Here(m, nodes, j) : x.value # Null
    <3>1. \A x \in Here(m, nodes, j) : x \in InstanceType
      BY DownFrom
    <3> QED BY <2>3, <3>1 DEF InstanceType
  <2>5. Null.t # "map"
    BY DEF Null
  <2> QED BY <2>1, <2>2, <2>4, <2>5 DEF OffTrack
<1> QED
  BY <1>3, <1>4

\* One of the elements of a list that the next request keys select.
IsSelected(m, nodes, j, r, v, val) ==
    LET s == nodes[j].parentSID
        c == v.v[Delta(nodes, j)]
    IN  \E i \in Firsts(m, c.v, s) :
            Selected(m, c.v[i], s, r, Needed(nodes)[j - 1]) /\ val = c.v[i]

\* A list with keys: what is chosen in it are its elements that the next request
\* keys select, the first of those with equal keys.
LEMMA SelectedBy ==
    ASSUME NEW m \in Models, NEW nodes, NodesOf(nodes, m), NEW j \in 1 .. Len(nodes),
           NEW r, NEW v, OnTrack(m, nodes, r, j - 1, v), nodes[j].sidKeys # <<>>,
           NEW y \in Chosen(m, nodes, r, j)
    PROVE  Delta(nodes, j) \in DOMAIN v.v /\ IsSelected(m, nodes, j, r, v, y.value)
<1> DEFINE s == nodes[j].parentSID
           d == Delta(nodes, j)
           w == Needed(nodes)
           k == Len(nodes[j].sidKeys)
           u == w[j - 1]
<1>1. w[j] = u + k /\ u \in Nat /\ k \in Nat /\ k # 0
  <2>1. nodes \in Seq(NodeType) /\ j - 1 \in 0 .. Len(nodes) /\ nodes[j] \in NodeType
    BY DEF NodesOf
  <2>2. w[j] = u + k /\ u \in Nat
    BY <2>1, NeededRun
  <2>3. k \in Nat /\ k # 0
    BY <2>1 DEF NodeType
  <2> QED BY <2>2, <2>3
<1>2. y \in Here(m, nodes, j) /\ Len(y.keys) = u + k /\ \A l \in 1 .. u + k : y.keys[l] = r[l]
  <2> HIDE DEF k, u
  <2> QED BY <1>1 DEF Chosen, Taken, w
<1>a. PICK x \in Here(m, nodes, j - 1) : Descends(m, nodes, j, x, y)
  BY <1>2, DownFrom
<1>3. /\ d \in DOMAIN x.value.v /\ x.value.v[d] \in Values
      /\ \/ /\ x.value.v[d].t = "array"
            /\ \E i \in Firsts(m, x.value.v[d].v, s) :
                 /\ y.keys = x.keys \o KeysOf(m, x.value.v[d].v[i], s)
                 /\ y.value = x.value.v[d].v[i]
         \/ y.keys = x.keys
  BY <1>a DEF Descends
<1>4. Len(x.keys) <= u /\ x.keys \in Seq(Nat) /\ Len(x.keys) \in Nat
  <2>1. j - 1 \in 0 .. Len(nodes)
    BY DEF NodesOf
  <2>2. x \in InstanceType /\ Len(x.keys) <= u
    BY <2>1, KeysBound
  <2> QED BY <2>2 DEF InstanceType
<1>5. y.keys # x.keys
  <2> HIDE DEF u, k
  <2> QED BY <1>1, <1>2, <1>4
<1> DEFINE list == x.value.v[d].v
<1>6. x.value.v[d].t = "array" /\ list \in Seq(Values)
  BY <1>3, <1>5, ModelAssumption DEF IsValue
<1>7. PICK i \in Firsts(m, list, s) : y.keys = x.keys \o KeysOf(m, list[i], s) /\ y.value = list[i]
  BY <1>3, <1>5
<1> DEFINE ks == KeysOf(m, list[i], s)
<1>8. ks \in Seq(Nat) /\ Len(ks) = k /\ KeySids(m, s) = nodes[j].sidKeys
  <2>1. nodes[j].sidKeys = KeySids(m, s)
    BY DEF NodesOf
  <2> HIDE DEF list, s
  <2>2. list[i] \in Values
    BY <1>6, <1>7 DEF Firsts
  <2>3. ks \in Seq(Nat) /\ Len(ks) = Len(KeySids(m, s))
    BY <2>2, KeysOfType
  <2> QED BY <2>1, <2>3
<1>9. /\ y.keys = x.keys \o ks
      /\ Len(x.keys \o ks) = Len(x.keys) + Len(ks)
      /\ \A l \in 1 .. Len(x.keys) + Len(ks) :
           (x.keys \o ks)[l] = IF l <= Len(x.keys) THEN x.keys[l] ELSE ks[l - Len(x.keys)]
  <2>1. y.keys = x.keys \o ks
    BY <1>7
  <2>2. ks \in Seq(Nat)
    BY <1>8
  <2> HIDE DEF ks
  <2>3. /\ Len(x.keys \o ks) = Len(x.keys) + Len(ks)
        /\ \A l \in 1 .. Len(x.keys) + Len(ks) :
             (x.keys \o ks)[l] = IF l <= Len(x.keys) THEN x.keys[l] ELSE ks[l - Len(x.keys)]
    BY <1>4, <2>2, ConcatProperties
  <2> QED BY <2>1, <2>3
<1> HIDE DEF ks, u, k, w, list
<1>10. Len(x.keys) = u
  BY <1>1, <1>2, <1>4, <1>8, <1>9
<1>11. \A l \in 1 .. u : x.keys[l] = r[l]
  <2>1. \A l \in 1 .. u : l \in 1 .. u + k /\ l <= u
    BY <1>1
  <2>2. \A l \in 1 .. u + k : l <= u => y.keys[l] = x.keys[l]
    BY <1>8, <1>9, <1>10
  <2> QED BY <1>2, <2>1, <2>2
<1>12. \A l \in 1 .. k : ks[l] = r[u + l]
  <2>1. \A l \in 1 .. k : u + l \in 1 .. u + k /\ ~ (u + l <= u) /\ (u + l) - u = l
    BY <1>1
  <2>2. \A l \in 1 .. u + k : ~ (l <= u) => y.keys[l] = ks[l - u]
    BY <1>8, <1>9, <1>10
  <2>3. ASSUME NEW l \in 1 .. k
        PROVE  ks[l] = r[u + l]
    <3>1. u + l \in 1 .. u + k /\ ~ (u + l <= u) /\ (u + l) - u = l
      BY <2>1
    <3>2. y.keys[u + l] = ks[(u + l) - u]
      BY <2>2, <3>1
    <3> QED BY <1>2, <3>1, <3>2
  <2> QED BY <2>3
<1>13. x.value = v
  <2>1. x \in Chosen(m, nodes, r, j - 1)
    BY <1>10, <1>11 DEF Chosen, Taken, u, w
  <2> QED BY <2>1 DEF OnTrack
<1>14. Selected(m, list[i], s, r, u)
  BY <1>8, <1>12 DEF Selected, ks, k
<1> QED
  BY <1>3, <1>7, <1>13, <1>14 DEF list, u, w, IsSelected

\* Where the search finds no element, the walk is at the list itself, which is
\* nowhere in the model behind that path.
LEMMA NoneStep ==
    ASSUME NEW m \in Models, NEW nodes, NodesOf(nodes, m), NEW j \in 1 .. Len(nodes),
           FlatArrays,
           NEW r, NEW v, OnTrack(m, nodes, r, j - 1, v), nodes[j].sidKeys # <<>>,
           NEW c, c = getCoreconfHashMap(v.v, Delta(nodes, j)),
           \A i \in DOMAIN c.v :
               ~ Selected(m, c.v[i], nodes[j].parentSID, r, Needed(nodes)[j - 1])
    PROVE  OffTrack(m, nodes, r, j, Array(c.v))
<1> DEFINE s == nodes[j].parentSID
           d == Delta(nodes, j)
<1>1. Chosen(m, nodes, r, j) = {}
  <2> SUFFICES ASSUME NEW y \in Chosen(m, nodes, r, j) PROVE FALSE
    OBVIOUS
  <2>1. d \in DOMAIN v.v /\ \E i \in Firsts(m, v.v[d].v, s) :
                                Selected(m, v.v[d].v[i], s, r, Needed(nodes)[j - 1])
    <3>1. d \in DOMAIN v.v /\ IsSelected(m, nodes, j, r, v, y.value)
      BY SelectedBy
    <3> QED BY <3>1 DEF IsSelected
  <2>2. c = v.v[d]
    BY <2>1 DEF getCoreconfHashMap
  <2> QED BY <2>1, <2>2 DEF Firsts
<1>2. ASSUME NEW y \in Here(m, nodes, j)
      PROVE  y.value.t # "array"
  <2>1. PICK x \in Here(m, nodes, j - 1) : Descends(m, nodes, j, x, y)
    BY DownFrom
  <2>2. /\ x.value.v[d] \in Values
        /\ \/ /\ x.value.v[d].t = "array"
              /\ \E i \in Firsts(m, x.value.v[d].v, s) : y.value = x.value.v[d].v[i]
           \/ x.value.v[d].t # "array" /\ y.value = x.value.v[d]
    BY <2>1 DEF Descends
  <2> QED BY <2>2 DEF Firsts, FlatArrays
<1>3. Array(c.v).t = "array"
  BY DEF Array
<1> QED
  BY <1>1, <1>2, <1>3 DEF OffTrack

\* Where it finds one, the walk is at that element.
LEMMA ElementStep ==
    ASSUME NEW m \in Models, NEW nodes, NodesOf(nodes, m), NEW j \in 1 .. Len(nodes),
           NEW r, NEW v, OnTrack(m, nodes, r, j - 1, v), v.t = "map", nodes[j].sidKeys # <<>>,
           NEW c, c = getCoreconfHashMap(v.v, Delta(nodes, j)),
           c.t = "array",
           NEW first \in Firsts(m, c.v, nodes[j].parentSID),
           Selected(m, c.v[first], nodes[j].parentSID, r, Needed(nodes)[j - 1]),
           \A i \in Firsts(m, c.v, nodes[j].parentSID) :
               Selected(m, c.v[i], nodes[j].parentSID, r, Needed(nodes)[j - 1]) => i = first
    PROVE  OnTrack(m, nodes, r, j, c.v[first])
<1> DEFINE s == nodes[j].parentSID
           d == Delta(nodes, j)
           w == Needed(nodes)
           k == Len(nodes[j].sidKeys)
           u == w[j - 1]
<1>1. w[j] = u + k /\ u \in Nat /\ k \in Nat
  <2>1. nodes \in Seq(NodeType) /\ j - 1 \in 0 .. Len(nodes) /\ nodes[j] \in NodeType
    BY DEF NodesOf
  <2>2. w[j] = u + k /\ u \in Nat
    BY <2>1, NeededRun
  <2>3. k \in Nat
    BY <2>1 DEF NodeType
  <2> QED BY <2>2, <2>3
<1>2. d \in DOMAIN v.v /\ c = v.v[d]
  BY DEF getCoreconfHashMap, Null
<1>3. \A y \in Chosen(m, nodes, r, j) : y.value = c.v[first]
  <2> SUFFICES ASSUME NEW y \in Chosen(m, nodes, r, j) PROVE y.value = c.v[first]
    OBVIOUS
  <2>1. \E i \in Firsts(m, v.v[d].v, s) :
          Selected(m, v.v[d].v[i], s, r, u) /\ y.value = v.v[d].v[i]
    <3>1. IsSelected(m, nodes, j, r, v, y.value)
      BY SelectedBy
    <3> QED BY <3>1 DEF IsSelected
  <2> QED BY <1>2, <2>1
<1>4. PICK x \in Chosen(m, nodes, r, j - 1) : x.value = v
  BY DEF OnTrack
<1>5. x \in Here(m, nodes, j - 1) /\ Len(x.keys) = u /\ \A l \in 1 .. u : x.keys[l] = r[l]
  BY DEF Chosen, Taken
<1>6. x.keys \in Seq(Nat)
  <2>1. j - 1 \in 0 .. Len(nodes)
    BY DEF NodesOf
  <2>2. x \in InstanceType
    BY <1>5, <2>1, KeysBound
  <2> QED BY <2>2 DEF InstanceType
<1> DEFINE ks == KeysOf(m, c.v[first], s)
<1>7. c \in Values /\ \E y \in Here(m, nodes, j) : y.keys = x.keys \o ks /\ y.value = c.v[first]
  <2>1. x.value.t = "map" /\ d \in DOMAIN x.value.v /\ c = x.value.v[d]
    BY <1>2, <1>4
  <2>2. Leads(m, nodes, j, x)
    BY <1>5, <2>1, StepsDown
  <2> QED BY <2>1, <2>2 DEF Leads
<1>8. PICK y \in Here(m, nodes, j) : y.keys = x.keys \o ks
  BY <1>7
<1>9. ks \in Seq(Nat) /\ Len(ks) = k /\ KeySids(m, s) = nodes[j].sidKeys
  <2>1. nodes[j].sidKeys = KeySids(m, s)
    BY DEF NodesOf
  <2>2. c.v \in Seq(Values)
    BY <1>7, ModelAssumption DEF IsValue
  <2> HIDE DEF s
  <2>3. c.v[first] \in Values
    BY <2>2 DEF Firsts, s
  <2>4. ks \in Seq(Nat) /\ Len(ks) = Len(KeySids(m, s))
    BY <2>3, KeysOfType
  <2> QED BY <2>1, <2>4
<1>10. \A l \in 1 .. k : ks[l] = r[u + l]
  BY <1>9 DEF Selected
<1> HIDE DEF ks, u, k, w
<1>11. /\ Len(x.keys \o ks) = u + k
       /\ \A l \in 1 .. u + k : (x.keys \o ks)[l] = IF l <= u THEN x.keys[l] ELSE ks[l - u]
  <2>1. /\ Len(x.keys \o ks) = Len(x.keys) + Len(ks)
        /\ \A l \in 1 .. Len(x.keys) + Len(ks) :
             (x.keys \o ks)[l] = IF l <= Len(x.keys) THEN x.keys[l] ELSE ks[l - Len(x.keys)]
    BY <1>6, <1>9, ConcatIs
  <2> QED BY <1>5, <1>9, <2>1
<1>12. ASSUME NEW l \in 1 .. u + k
       PROVE  y.keys[l] = r[l]
  <2>1. CASE l <= u
    <3>1. l \in 1 .. u
      BY <1>1, <2>1
    <3> QED BY <1>5, <1>8, <1>11, <2>1, <3>1
  <2>2. CASE ~ (l <= u)
    <3>1. l - u \in 1 .. k /\ u + (l - u) = l
      BY <1>1, <2>2
    <3>2. ks[l - u] = r[l]
      BY <1>10, <3>1
    <3> QED BY <1>8, <1>11, <2>2, <3>2
  <2> QED BY <2>1, <2>2
<1>13. y \in Chosen(m, nodes, r, j)
  BY <1>1, <1>8, <1>11, <1>12 DEF Chosen, Taken, w
<1> QED
  BY <1>3, <1>13 DEF OnTrack

\* Where the walk is when it has visited j nodes with a request key for each of
\* their key SIDs.
At(m, nodes, a, ks, v, j) ==
    LET w == Needed(nodes)
    IN  w[Len(nodes)] <= Len(a) =>
            \/ /\ OnTrack(m, nodes, Reverse(a), j, v)
               /\ w[j] < Len(a) => ks = SubSeq(a, 1, Len(a) - w[j])
            \/ OffTrack(m, nodes, Reverse(a), j, v)

\* What the walk keeps.
WalkInv ==
    pc \in {"walk", "returned"} =>
        LET j == Len(path) - Len(todo)
        IN  /\ asked \in Seq(Nat)
            /\ todo \in Seq(NodeType) /\ Len(todo) <= Len(path)
            /\ \A i \in 1 .. Len(todo) : todo[i] = path[j + i]
            /\ prev = Before(path, j + 1)
            /\ pc = "returned" => todo = <<>>
            /\ At(model, path, asked, keys, sub, j)

\* The numbers of keys needed, at node j.
LEMMA NeededAt ==
    ASSUME NEW m, NEW nodes, NodesOf(nodes, m), NEW j \in 1 .. Len(nodes)
    PROVE  LET w == Needed(nodes)
           IN  /\ w[j - 1] \in Nat /\ w[Len(nodes)] \in Nat /\ Len(nodes[j].sidKeys) \in Nat
               /\ w[j] = w[j - 1] + Len(nodes[j].sidKeys)
               /\ w[j] <= w[Len(nodes)]
<1> DEFINE w == Needed(nodes)
           n == Len(nodes)
<1>1. nodes \in Seq(NodeType) /\ n \in Nat /\ j \in 1 .. n /\ j - 1 \in 0 .. n /\ j \in 0 .. n
      /\ n \in 0 .. n
  BY DEF NodesOf
<1>2. /\ w \in [0 .. n -> Nat]
      /\ \A k \in 1 .. n : w[k] = w[k - 1] + Len(nodes[k].sidKeys) /\ Len(nodes[k].sidKeys) \in Nat
      /\ \A k \in 0 .. n : w[k] <= w[n]
  BY <1>1, NeededRun
<1> HIDE DEF w, n
<1> QED
  BY <1>1, <1>2 DEF w, n

\* A node without keys.
LEMMA PlainNode ==
    ASSUME NEW m \in Models, NEW nodes, NodesOf(nodes, m), NEW j \in 1 .. Len(nodes),
           NEW a, NEW ks, NEW v, v.t = "map", At(m, nodes, a, ks, v, j - 1),
           nodes[j].sidKeys = <<>>
    PROVE  At(m, nodes, a, ks, getCoreconfHashMap(v.v, Delta(nodes, j)), j)
<1> DEFINE w == Needed(nodes)
           child == getCoreconfHashMap(v.v, Delta(nodes, j))
<1> SUFFICES ASSUME w[Len(nodes)] <= Len(a)
             PROVE  \/ /\ OnTrack(m, nodes, Reverse(a), j, child)
                       /\ w[j] < Len(a) => ks = SubSeq(a, 1, Len(a) - w[j])
                    \/ OffTrack(m, nodes, Reverse(a), j, child)
  BY DEF At
<1>1. w[j] = w[j - 1]
  <2>1. w[j] = w[j - 1] + Len(nodes[j].sidKeys) /\ w[j - 1] \in Nat
    BY NeededAt
  <2> HIDE DEF w
  <2> QED BY <2>1
<1>2. /\ OnTrack(m, nodes, Reverse(a), j - 1, v)
      /\ w[j - 1] < Len(a) => ks = SubSeq(a, 1, Len(a) - w[j - 1])
  BY DEF At, OffTrack
<1>3. OnTrack(m, nodes, Reverse(a), j, child) \/ OffTrack(m, nodes, Reverse(a), j, child)
  BY <1>2, PlainStep
<1> HIDE DEF w, child
<1> QED
  BY <1>1, <1>2, <1>3

\* A list with keys, in which the search takes an element or none.
LEMMA ListNode ==
    ASSUME NEW m \in Models, DistinctKeys(m), FlatArrays,
           NEW nodes, NodesOf(nodes, m), NEW j \in 1 .. Len(nodes),
           asked \in Seq(Nat), sub.t = "map", At(m, nodes, asked, keys, sub, j - 1),
           nodes[j].sidKeys # <<>>,
           NEW c, c = getCoreconfHashMap(sub.v, Delta(nodes, j)),
           c.t \notin {"null", "leaf", "text", "map"},
           Readable(c.v, nodes[j], IF Matching(c.v, nodes[j]) = {} THEN Len(c.v)
                                   ELSE Min(Matching(c.v, nodes[j])))
    PROVE  LET found == Matching(c.v, nodes[j])
           IN  /\ found = {} => At(m, nodes, asked, keys, Array(c.v), j)
               /\ found # {} => At(m, nodes, asked, KeysAfter(nodes[j]), c.v[Min(found)], j)
<1> DEFINE w == Needed(nodes)
           node == nodes[j]
           s == node.parentSID
           r == Reverse(asked)
           u == w[j - 1]
           k == Len(node.sidKeys)
           found == Matching(c.v, node)
           first == Min(found)
<1> SUFFICES ASSUME w[Len(nodes)] <= Len(asked)
             PROVE  /\ found = {} => OffTrack(m, nodes, r, j, Array(c.v))
                    /\ found # {} =>
                         /\ OnTrack(m, nodes, r, j, c.v[first])
                         /\ w[j] < Len(asked) => KeysAfter(node) = SubSeq(asked, 1, Len(asked) - w[j])
  BY DEF At
<1>1. /\ u \in Nat /\ k \in Nat /\ k # 0 /\ w[j] = u + k /\ u + k <= Len(asked) /\ Len(asked) \in Nat
      /\ node \in NodeType /\ node.sidKeys = KeySids(m, s) /\ node.sidKeys \in Seq(Nat)
  <2>1. /\ u \in Nat /\ k \in Nat /\ w[j] = u + k /\ w[j] <= w[Len(nodes)] /\ w[Len(nodes)] \in Nat
    BY NeededAt
  <2>2. node \in NodeType /\ node.sidKeys = KeySids(m, s)
    BY DEF NodesOf
  <2>3. node.sidKeys \in Seq(Nat)
    BY <2>2 DEF NodeType
  <2>4. k # 0
    BY <2>3
  <2>5. Len(asked) \in Nat
    OBVIOUS
  <2>6. w[j] <= Len(asked)
    <3> HIDE DEF w
    <3> QED BY <2>1, <2>5
  <2> QED BY <2>1, <2>2, <2>3, <2>4, <2>5, <2>6
<1>2. OnTrack(m, nodes, r, j - 1, sub) /\ keys = SubSeq(asked, 1, Len(asked) - u)
  <2>1. /\ OnTrack(m, nodes, r, j - 1, sub)
        /\ u < Len(asked) => keys = SubSeq(asked, 1, Len(asked) - u)
    BY DEF At, OffTrack
  <2>2. u < Len(asked)
    <3> HIDE DEF u, k
    <3> QED BY <1>1
  <2> QED BY <2>1, <2>2
<1>3. c \in Values /\ c.t = "array" /\ c.v \in Seq(Values)
  <2>1. PICK x \in Chosen(m, nodes, r, j - 1) : x.value = sub
    BY <1>2 DEF OnTrack
  <2>2. x.value \in Values
    <3>1. j - 1 \in 0 .. Len(nodes)
      BY DEF NodesOf
    <3>2. x \in InstanceType
      BY <3>1, KeysBound DEF Chosen
    <3> QED BY <3>2 DEF InstanceType
  <2>3. \A d \in DOMAIN sub.v : sub.v[d] \in Values
    BY <2>1, <2>2, ModelAssumption DEF IsValue
  <2>4. c \in Values
    BY <2>3 DEF getCoreconfHashMap, Null
  <2> QED BY <2>4, ModelAssumption DEF IsValue
<1>4. Choice(m, c.v, node, u)
  <2> HIDE DEF u
  <2> QED BY <1>1, <1>2, <1>3, ChoiceIs
<1>5. ASSUME found = {}
      PROVE  OffTrack(m, nodes, r, j, Array(c.v))
  <2>1. \A i \in DOMAIN c.v : ~ Selected(m, c.v[i], s, r, u)
    BY <1>4, <1>5 DEF Choice
  <2> QED BY <1>2, <2>1, NoneStep
<1>6. ASSUME found # {}
      PROVE  OnTrack(m, nodes, r, j, c.v[first])
  <2>1. /\ first \in Firsts(m, c.v, s) /\ Selected(m, c.v[first], s, r, u)
        /\ \A i \in Firsts(m, c.v, s) : Selected(m, c.v[i], s, r, u) => i = first
    BY <1>4, <1>6 DEF Choice
  <2> HIDE DEF first
  <2> QED BY <1>2, <1>3, <2>1, ElementStep
<1>7. ASSUME w[j] < Len(asked)
      PROVE  KeysAfter(node) = SubSeq(asked, 1, Len(asked) - w[j])
  <2> HIDE DEF u, k, w, node
  <2>1. u < Len(asked) /\ k < Len(asked) - u
    BY <1>1, <1>7
  <2>2. /\ keys \in Seq(Nat) /\ Len(keys) = Len(asked) - u
        /\ SubSeq(keys, 1, Len(keys) - k) = SubSeq(asked, 1, Len(asked) - (u + k))
    <3>1. asked \in Seq(Nat) /\ u \in Nat /\ k \in Nat /\ keys = SubSeq(asked, 1, Len(asked) - u)
      BY <1>1, <1>2
    <3>2. /\ keys \in Seq(Nat) /\ Len(keys) = Len(asked) - u
          /\ \A i \in Nat : i < Len(asked) - u =>
               SubSeq(keys, 1, Len(keys) - i) = SubSeq(asked, 1, Len(asked) - (u + i))
      BY <2>1, <3>1, KeysLeft
    <3> QED BY <2>1, <3>1, <3>2
  <2>3. Len(keys) > k
    BY <1>1, <2>1, <2>2
  <2>4. Len(asked) - (u + k) \in 0 .. Len(asked) /\ Len(asked) - (u + k) # 0
    BY <1>1, <2>1
  <2>5. SubSeq(asked, 1, Len(asked) - (u + k)) # <<>>
    <3> DEFINE h == Len(asked) - (u + k)
    <3> HIDE DEF h
    <3>1. Len(SubSeq(asked, 1, h)) = h
      BY <2>4, PrefixOf DEF h
    <3> QED BY <2>4, <3>1 DEF h
  <2>6. KeysAfter(node) = cloneDynamicLongList(SubSeq(keys, 1, Len(keys) - k), keys)
    BY <2>3 DEF KeysAfter, k
  <2> QED BY <1>1, <2>2, <2>5, <2>6 DEF cloneDynamicLongList
<1> QED
  BY <1>5, <1>6, <1>7

LEMMA NodesOfPath ==
    ASSUME PathInv, pc \in {"climb", "found", "walk", "returned"}
    PROVE  NodesOf(path, model) /\ model \in Models /\ path # <<>> /\ Len(path) \in Nat \ {0}
<1>1. /\ path \in Seq(NodeType) /\ path # <<>> /\ model \in Models
      /\ \A i \in 1 .. Len(path) : path[i] = PathNode(path[i].parentSID)
  BY DEF PathInv
<1>2. \A i \in 1 .. Len(path) : path[i].sidKeys = KeySids(model, path[i].parentSID)
  <2>1. \A s : PathNode(s).sidKeys = KeySids(model, s)
    BY DEF PathNode
  <2> QED BY <1>1, <2>1
<1> QED
  BY <1>1, <1>2 DEF NodesOf

\* A step to the next node of the path.
LEMMA NodeVisited ==
    ASSUME PathInv, WalkInv, pc = "walk", todo # <<>>, pc' = pc,
           model' = model, path' = path, asked' = asked,
           todo' = Tail(todo), prev' = Head(todo).parentSID,
           At(model, path, asked, keys', sub', Len(path) - Len(todo) + 1)
    PROVE  WalkInv'
<1> DEFINE n == Len(path)
           h == Len(todo)
           j == n - h
<1>1. NodesOf(path, model) /\ n \in Nat
  BY NodesOfPath
<1>2. /\ asked \in Seq(Nat) /\ todo \in Seq(NodeType) /\ h <= n
      /\ \A i \in 1 .. h : todo[i] = path[j + i]
  BY DEF WalkInv
<1>3. h \in Nat /\ h # 0
  BY <1>2
<1>4. /\ todo' \in Seq(NodeType) /\ Len(todo') = h - 1
      /\ \A i \in 1 .. h - 1 : todo'[i] = todo[i + 1]
  BY <1>2, <1>3, HeadTailProperties
<1>5. Head(todo) = path[j + 1]
  <2>1. Head(todo) = todo[1] /\ 1 \in 1 .. h
    BY <1>2, <1>3
  <2> QED BY <1>2, <2>1
<1> HIDE DEF n, h
<1>6. n - Len(todo') = j + 1
  BY <1>1, <1>3, <1>4
<1>7. Len(todo') <= n
  BY <1>1, <1>2, <1>3, <1>4
<1>8. \A i \in 1 .. Len(todo') : todo'[i] = path[(j + 1) + i]
  <2> SUFFICES ASSUME NEW i \in 1 .. h - 1
               PROVE  todo'[i] = path[(j + 1) + i]
    BY <1>4
  <2>1. i + 1 \in 1 .. h /\ j + (i + 1) = (j + 1) + i
    BY <1>1, <1>3
  <2> QED BY <1>2, <1>4, <2>1
<1>9. prev' = Before(path, (j + 1) + 1)
  <2>1. (j + 1) + 1 # 1 /\ ((j + 1) + 1) - 1 = j + 1
    BY <1>1, <1>2, <1>3
  <2> QED BY <1>5, <2>1 DEF Before
<1>10. At(model, path, asked, keys', sub', j + 1)
  BY DEF n, h
<1> DEFINE g == Len(path') - Len(todo')
<1>11. g = j + 1
  BY <1>6 DEF n
<1>12. /\ asked' \in Seq(Nat) /\ todo' \in Seq(NodeType) /\ Len(todo') <= Len(path')
  BY <1>2, <1>4, <1>7 DEF n
<1>13. \A i \in 1 .. Len(todo') : todo'[i] = path'[g + i]
  <2> HIDE DEF g, j
  <2> QED BY <1>8, <1>11
<1>14. prev' = Before(path', g + 1) /\ At(model', path', asked', keys', sub', g)
  <2> HIDE DEF g, j
  <2> QED BY <1>9, <1>10, <1>11
<1>15. pc' # "returned"
  OBVIOUS
<1> QED
  BY <1>12, <1>13, <1>14, <1>15 DEF WalkInv, Before

LEMMA WalkInvNext ==
    ASSUME PathInv, WalkInv, DistinctKeys(model), FlatArrays, [Next]_vars
    PROVE  WalkInv'
<1>1. CASE \E ks \in Requests : ExamineStart(ks)
  <2>1. PICK ks \in Requests : ExamineStart(ks)
    BY <1>1
  <2>2. /\ pc = "found" /\ pc' = "walk" /\ todo' = path /\ keys' = ks /\ asked' = ks
        /\ sub' = model.tree /\ prev' = 0 /\ model' = model /\ path' = path
    BY <2>1 DEF ExamineStart
  <2>3. NodesOf(path, model) /\ model \in Models /\ Len(path) \in Nat /\ path \in Seq(NodeType)
    BY <2>2, NodesOfPath DEF NodesOf
  <2>4. ks \in Seq(Nat) /\ Len(ks) \in Nat
    BY ModelAssumption
  <2>5. OnTrack(model, path, Reverse(ks), 0, model.tree)
    BY <2>3, StartsOnTrack
  <2>6. Needed(path)[0] = 0
    BY <2>3, NeededRun
  <2>7. ks = SubSeq(ks, 1, Len(ks) - 0)
    BY <2>4
  <2>8. At(model, path, ks, ks, model.tree, 0)
    BY <2>5, <2>6, <2>7 DEF At
  <2>9. Len(path') - Len(todo') = 0
    BY <2>2, <2>3
  <2>10. At(model', path', asked', keys', sub', Len(path') - Len(todo'))
    BY <2>2, <2>8, <2>9
  <2>11. prev' = Before(path', (Len(path') - Len(todo')) + 1)
    BY <2>2, <2>9 DEF Before
  <2>12. \A i \in 1 .. Len(todo') : todo'[i] = path'[(Len(path') - Len(todo')) + i]
    <3>1. \A i \in 1 .. Len(path) : 0 + i = i
      BY <2>3
    <3> QED BY <2>2, <2>9, <3>1
  <2>13. asked' \in Seq(Nat) /\ todo' \in Seq(NodeType) /\ Len(todo') <= Len(path')
    BY <2>2, <2>3, <2>4
  <2> QED BY <2>2, <2>10, <2>11, <2>12, <2>13 DEF WalkInv, Before
<1>2. CASE ExamineNode
  <2> DEFINE node == Head(todo)
             n == Len(path)
             h == Len(todo)
             j == (n - h) + 1
             child == getCoreconfHashMap(sub.v, node.parentSID - prev)
  <2>1. pc = "walk" /\ todo # <<>>
    BY <1>2 DEF ExamineNode
  <2>2. NodesOf(path, model) /\ model \in Models /\ n \in Nat
    BY <2>1, NodesOfPath
  <2>3. /\ asked \in Seq(Nat) /\ todo \in Seq(NodeType) /\ h <= n
        /\ \A i \in 1 .. h : todo[i] = path[(n - h) + i]
        /\ prev = Before(path, j) /\ At(model, path, asked, keys, sub, n - h)
    BY <2>1 DEF WalkInv
  <2>4. h \in Nat /\ h # 0 /\ node = todo[1]
    BY <2>1, <2>3
  <2>5. j \in 1 .. n /\ j - 1 = n - h /\ 1 \in 1 .. h
    <3> HIDE DEF n, h
    <3> QED BY <2>2, <2>3, <2>4
  <2>6. node = path[j]
    BY <2>3, <2>4, <2>5
  <2>7. node.parentSID - prev = Delta(path, j)
    BY <2>3, <2>6 DEF Delta
  <2>8. At(model, path, asked, keys, sub, j - 1)
    BY <2>3, <2>5
  <2> HIDE DEF j, node
  <2>9. CASE pc' \in {"idle", "crashed"}
    BY <2>9 DEF WalkInv
  <2>10. CASE sub.t # "map"
    BY <2>9, <2>10, <1>2 DEF ExamineNode, Crash
  <2>11. CASE sub.t = "map" /\ node.sidKeys = <<>>
    <3>1. /\ sub' = child /\ prev' = node.parentSID /\ todo' = Tail(todo) /\ keys' = keys
          /\ pc' = pc /\ model' = model /\ path' = path /\ asked' = asked
      BY <1>2, <2>11 DEF ExamineNode, node
    <3>2. At(model, path, asked, keys, child, j)
      BY <2>2, <2>5, <2>6, <2>7, <2>8, <2>11, PlainNode
    <3> QED BY <2>1, <3>1, <3>2, NodeVisited DEF j, node
  <2>12. CASE sub.t = "map" /\ node.sidKeys # <<>>
    <3>1. CASE child.t = "null"
      BY <1>2, <2>9, <2>12, <3>1 DEF ExamineNode, Crash, node
    <3>2. CASE child.t \in {"leaf", "text", "map"}
      <4>1. child.t # "null"
        BY <3>2
      <4> QED BY <1>2, <2>9, <2>12, <3>2, <4>1 DEF ExamineNode, BackToClient, node
    <3>3. CASE child.t \notin {"null", "leaf", "text", "map"}
      <4>1. ChooseElement(child.v, node) \/ Crash
        BY <1>2, <2>12, <3>3 DEF ExamineNode, node
      <4>2. CASE Crash
        BY <2>9, <4>2 DEF Crash
      <4>3. CASE ChooseElement(child.v, node) /\ ~ Crash
        <5> DEFINE found == Matching(child.v, node)
                   last == IF found = {} THEN Len(child.v) ELSE Min(found)
        <5>1. /\ Readable(child.v, node, last)
              /\ sub' = IF found = {} THEN Array(child.v) ELSE child.v[Min(found)]
              /\ keys' = IF found = {} THEN keys ELSE KeysAfter(node)
              /\ prev' = node.parentSID /\ todo' = Tail(todo)
              /\ pc' = pc /\ model' = model /\ path' = path /\ asked' = asked
          BY <4>3 DEF ChooseElement
        <5>2. /\ found = {} => At(model, path, asked, keys, Array(child.v), j)
              /\ found # {} => At(model, path, asked, KeysAfter(node), child.v[Min(found)], j)
          <6>1. child = getCoreconfHashMap(sub.v, Delta(path, j))
            BY <2>7
          <6> HIDE DEF child
          <6> QED BY <2>2, <2>3, <2>5, <2>6, <2>8, <2>12, <3>3, <5>1, <6>1, ListNode
        <5>3. At(model, path, asked, keys', sub', j)
          <6> HIDE DEF found, child
          <6>1. CASE found = {}
            BY <5>1, <5>2, <6>1
          <6>2. CASE found # {}
            BY <5>1, <5>2, <6>2
          <6> QED BY <6>1, <6>2
        <5> QED BY <2>1, <5>1, <5>3, NodeVisited DEF j, node
      <4> QED BY <4>1, <4>2, <4>3
    <3> QED BY <3>1, <3>2, <3>3
  <2> QED BY <2>10, <2>11, <2>12
<1>3. CASE ExamineReturns
  <2>1. /\ pc = "walk" /\ todo = <<>>
        /\ UNCHANGED <<model, path, todo, keys, asked, sub, prev>>
    BY <1>3 DEF ExamineReturns
  <2> QED BY <2>1 DEF WalkInv, Before
<1>4. CASE UNCHANGED vars
  BY <1>4 DEF vars, WalkInv, Before
<1>5. CASE pc' \notin {"walk", "returned"}
  BY <1>5 DEF WalkInv
<1>6. CASE Build(model) \/ (\E s \in Sids : FindStart(s)) \/ FindClimb \/ FindMisses \/ FindEnds
           \/ Release
  <2>1. pc' \notin {"walk", "returned"}
    BY <1>6 DEF Build, FindStart, FindClimb, FindMisses, FindEnds, Release, BackToClient
  <2> QED BY <1>5, <2>1
<1> QED
  BY <1>1, <1>2, <1>3, <1>4, <1>6 DEF Next

LEMMA WalkIsExact ==
    ASSUME PathInv, WalkInv
    PROVE  ExamineExact
<1> SUFFICES ASSUME pc = "returned"
             PROVE  ExamineExact
  BY DEF ExamineExact
<1> DEFINE n == Len(path)
           w == Needed(path)
           r == Reverse(asked)
           HereAll == {x \in Instances(model, n)[n] : x.path = SidsOf(path)}
           ChosenAll == {x \in HereAll : x.keys = SubSeq(r, 1, w[n])}
<1> SUFFICES ASSUME Len(asked) >= w[n]
             PROVE  /\ ChosenAll # {} => sub \in {x.value : x \in ChosenAll}
                    /\ ChosenAll = {} => sub \notin {x.value : x \in HereAll}
                    /\ prev = sid
  BY DEF ExamineExact
<1>1. /\ NodesOf(path, model) /\ model \in Models /\ n \in Nat \ {0} /\ path \in Seq(NodeType)
      /\ path[n].parentSID = sid
  BY NodesOfPath DEF NodesOf, PathInv
<1>2. /\ asked \in Seq(Nat) /\ n - Len(todo) = n /\ prev = Before(path, n + 1)
      /\ At(model, path, asked, keys, sub, n)
  <2>1. todo = <<>> /\ n - Len(todo) = n
    BY <1>1 DEF WalkInv
  <2> QED BY <2>1 DEF WalkInv
<1>3. prev = sid
  <2>1. n + 1 # 1 /\ (n + 1) - 1 = n
    BY <1>1
  <2> QED BY <1>1, <1>2, <2>1 DEF Before
<1>4. w[n] \in Nat
  <2>1. n \in 1 .. Len(path)
    BY <1>1
  <2> QED BY <1>1, <2>1, NeededAt
<1>5. /\ r \in Seq(Nat) /\ Len(r) = Len(asked) /\ w[n] \in 0 .. Len(r)
  <2>1. r \in Seq(Nat) /\ Len(r) = Len(asked)
    BY <1>2, ReverseIs
  <2>2. Len(asked) \in Nat
    BY <1>2
  <2> HIDE DEF w, r
  <2> QED BY <1>4, <2>1, <2>2
<1>6. \A x \in Here(model, path, n) : x \in InstanceType
  <2>1. n \in 0 .. Len(path)
    BY <1>1
  <2> QED BY <1>1, <2>1, KeysBound
<1>7. \A x \in Instances(model, n)[n] : x \in InstanceType
  <2>1. n \in 0 .. n /\ n \in Nat
    BY <1>1
  <2> HIDE DEF n
  <2>2. Instances(model, n) \in [0 .. n -> SUBSET InstanceType]
    BY <1>1, <2>1, InstancesRun
  <2> QED BY <2>1, <2>2
<1>8. HereAll = Here(model, path, n)
  <2>1. /\ SidsOf(path) \in Seq(Nat) /\ Len(SidsOf(path)) = n
        /\ \A i \in 1 .. n : SidsOf(path)[i] = path[i].parentSID
    BY <1>1, SidsType
  <2>2. ASSUME NEW p \in Seq(Nat)
        PROVE  p = SidsOf(path) <=> Along(p, path, n)
    <3>1. ASSUME Along(p, path, n)
          PROVE  p = SidsOf(path)
      BY <2>1, <3>1, SeqEqual DEF Along
    <3>2. ASSUME p = SidsOf(path)
          PROVE  Along(p, path, n)
      BY <2>1, <3>2 DEF Along
    <3> QED BY <3>1, <3>2
  <2>3. \A x \in Instances(model, n)[n] : x.path \in Seq(Nat)
    BY <1>7 DEF InstanceType
  <2> QED BY <2>2, <2>3 DEF Here
<1> HIDE DEF HereAll
<1>9. ChosenAll = Chosen(model, path, r, n)
  <2> DEFINE u == w[n]
             pre == SubSeq(r, 1, u)
  <2>1. pre \in Seq(Nat) /\ Len(pre) = u /\ \A l \in 1 .. u : pre[l] = r[l]
    BY <1>5, PrefixOf
  <2> HIDE DEF pre, u
  <2>2. ASSUME NEW ks \in Seq(Nat)
        PROVE  ks = pre <=> Taken(ks, r, u)
    <3>1. ASSUME Taken(ks, r, u)
          PROVE  ks = pre
      BY <2>1, <3>1, SeqEqual DEF Taken
    <3>2. ASSUME ks = pre
          PROVE  Taken(ks, r, u)
      BY <2>1, <3>2 DEF Taken
    <3> QED BY <3>1, <3>2
  <2>3. \A x \in HereAll : x.keys \in Seq(Nat)
    BY <1>6, <1>8 DEF InstanceType
  <2> QED BY <1>8, <2>2, <2>3 DEF Chosen, pre, u
<1>10. OnTrack(model, path, r, n, sub) \/ OffTrack(model, path, r, n, sub)
  BY <1>2 DEF At
<1> HIDE DEF ChosenAll
<1> QED
  BY <1>3, <1>8, <1>9, <1>10 DEF OnTrack, OffTrack

\* A path walked with a request key for each of its key SIDs gives the instance
\* that those keys select, and no instance of that path when they select none
\* (SidPath!ExamineExact): in every model in which no list has a key SID twice
\* and no array is directly inside an array.
THEOREM WalksAreExact ==
    ASSUME FlatArrays, \A m \in Models : DistinctKeys(m)
    PROVE  Spec => []ExamineExact
<1>1. Init => PathInv /\ WalkInv
  BY PathInvInit DEF Init, WalkInv
<1>2. PathInv /\ WalkInv /\ [Next]_vars => (PathInv /\ WalkInv)'
  <2> SUFFICES ASSUME PathInv, WalkInv, [Next]_vars
               PROVE  (PathInv /\ WalkInv)'
    OBVIOUS
  <2>1. PathInv'
    BY PathInvNext
  <2>2. DistinctKeys(model)
    BY DEF PathInv
  <2> QED BY <2>1, <2>2, WalkInvNext
<1>3. PathInv /\ WalkInv => ExamineExact
  BY WalkIsExact
<1> QED
  BY <1>1, <1>2, <1>3, PTL DEF Spec
=============================================================================
