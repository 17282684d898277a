------------------------ MODULE CoreconfServerProofs ------------------------
(***************************************************************************)
(* What holds of the server whatever the requests are, how many clients    *)
(* observe and however long the queue and the answers may be.              *)
(*                                                                         *)
(* The last part is about the array under the queue: it owns its copies    *)
(* and implements RecentLog, for every array size, set of events and       *)
(* supply of addresses.                                                    *)
(***************************************************************************)
EXTENDS CoreconfServer, EventStream, HashTableProofs, FiniteSetTheorems, WellFoundedInduction

\* The inductive invariant behind NoLostNotification: a client that is owed
\* a notification is an observer, and seen is defined for every client.
ObserverInv ==
    /\ observers \subseteq Client
    /\ pending \subseteq observers
    /\ seen = [c \in Client |-> seen[c]]
    /\ NoLostNotification

\* A change that is announced leaves nobody out.
LEMMA AnnounceInv ==
    ASSUME ObserverInv, NEW q, Announce(q)
    PROVE  ObserverInv'
  BY DEF ObserverInv, Announce, NoLostNotification

\* Nothing is owed anew when the stream stays as it is.
LEMMA QuietInv ==
    ASSUME ObserverInv, UNCHANGED stream
    PROVE  ObserverInv'
  BY DEF ObserverInv, stream, NoLostNotification, Current, Encoded

\* The handlers of /c answer an error and change nothing, or read, or
\* announce what they did.
LEMMA ResourceSteps ==
    ASSUME NEW cf \in CF, NEW q, NEW p, NEW i, NEW patch, NEW k
    PROVE  /\ handle_get => UNCHANGED stream
           /\ handle_fetch(cf, q) => UNCHANGED stream
           /\ handle_put(cf, p) => UNCHANGED stream \/ \E e : Announce(e)
           /\ handle_post(cf, p, i) => UNCHANGED stream \/ \E e : Announce(e)
           /\ handle_ipatch(cf, patch) => UNCHANGED stream \/ \E e : Announce(e)
           /\ handle_delete(k) => UNCHANGED stream \/ \E e : Announce(e)
<1>1. handle_get => UNCHANGED stream
  BY DEF handle_get
<1>2. handle_fetch(cf, q) => UNCHANGED stream
  BY DEF handle_fetch, Fail
<1>3. handle_put(cf, p) => UNCHANGED stream \/ \E e : Announce(e)
  BY DEF handle_put, Fail, Install
<1>4. handle_post(cf, p, i) => UNCHANGED stream \/ \E e : Announce(e)
  BY DEF handle_post, PostCreate, PostInvoke, Fail, Install
<1>5. handle_ipatch(cf, patch) => UNCHANGED stream \/ \E e : Announce(e)
  BY DEF handle_ipatch, Fail
<1>6. handle_delete(k) => UNCHANGED stream \/ \E e : Announce(e)
  BY DEF handle_delete, Fail
<1> QED
  BY <1>1, <1>2, <1>3, <1>4, <1>5, <1>6

\* Steps of observers and of the transport.
LEMMA StreamSteps ==
    ASSUME ObserverInv, NEW c \in Client, NEW o \in BOOLEAN,
           handle_stream_get(c, o) \/ send_notification(c) \/ drop_observer(c)
    PROVE  ObserverInv'
<1>1. g_stream_events' = g_stream_events
  BY DEF handle_stream_get, send_notification, drop_observer
<1>2. Current' = Current
  BY <1>1 DEF Current, Encoded
<1>3. CASE handle_stream_get(c, o)
  <2>1. CASE o
    BY <1>2, <1>3, <2>1 DEF ObserverInv, NoLostNotification, handle_stream_get
  <2>2. CASE ~o
    BY <1>2, <1>3, <2>2 DEF ObserverInv, NoLostNotification, handle_stream_get
  <2> QED BY <2>1, <2>2
<1>4. CASE send_notification(c)
  BY <1>2, <1>4 DEF ObserverInv, NoLostNotification, send_notification
<1>5. CASE drop_observer(c)
  BY <1>2, <1>5 DEF ObserverInv, NoLostNotification, drop_observer
<1> QED
  BY <1>3, <1>4, <1>5

\* No change of the queue is ever lost on an observer: whoever was not sent
\* what the queue shows has a notification outstanding.
THEOREM AlwaysNoLostNotification == Spec => []NoLostNotification
<1>1. Init => ObserverInv
  BY DEF Init, ObserverInv, NoLostNotification
<1>2. ObserverInv /\ [Next]_vars => ObserverInv'
  <2> SUFFICES ASSUME ObserverInv, [Next]_vars PROVE ObserverInv'
    OBVIOUS
  <2>1. CASE UNCHANGED stream
    BY <2>1, QuietInv
  <2>2. CASE \E e : Announce(e)
    BY <2>2, AnnounceInv
  <2>3. ASSUME NEW cf \in CF, NEW f, handle_stream_fetch(cf, f)
        PROVE  UNCHANGED stream
    BY <2>3 DEF handle_stream_fetch, Fail
  <2>4. CASE restart
    BY <2>4 DEF restart, ObserverInv, NoLostNotification
  <2>5. UNCHANGED vars => UNCHANGED stream
    BY DEF vars
  <2>6. ASSUME NEW c \in Client, NEW o \in BOOLEAN,
               handle_stream_get(c, o) \/ send_notification(c) \/ drop_observer(c)
        PROVE  ObserverInv'
    BY <2>6, StreamSteps
  <2>7. CASE \E cf \in CF :
               \/ \E q \in IidList \union {NoBody} : handle_fetch(cf, q)
               \/ \E p \in Payload \union {NoBody} : handle_put(cf, p)
               \/ \E p \in Payload \union {NoBody}, i \in Invocation : handle_post(cf, p, i)
               \/ \E p \in Patch \union {NoBody} : handle_ipatch(cf, p)
               \/ \E f \in StreamFilter \union {NoBody} : handle_stream_fetch(cf, f)
    BY <2>1, <2>2, <2>3, <2>7, ResourceSteps
  <2>8. CASE handle_get \/ \E k \in Query : handle_delete(k)
    <3>1. 140 \in CF
      BY DEF CF
    <3> QED BY <2>1, <2>2, <2>8, <3>1, ResourceSteps
  <2> QED
    BY <2>1, <2>4, <2>5, <2>6, <2>7, <2>8 DEF Next
<1>3. ObserverInv => NoLostNotification
  BY DEF ObserverInv
<1> QED
  BY <1>1, <1>2, <1>3, PTL DEF Spec

-----------------------------------------------------------------------------
\* The step answers no error, or it changes nothing.
Harmless == resp' # resp /\ resp'.code >= 400 => UNCHANGED <<store, stream, password>>

\* Whatever is asked of the server, an error answer means that the datastore,
\* the event queue, the observers and the password are as they were.
THEOREM ErrorsChangeNothing == Spec => ErrorChangesNothing
<1>1. ASSUME [Next]_vars
      PROVE  [resp' # resp /\ resp'.code >= 400 => UNCHANGED <<store, stream, password>>]_vars
  <2>1. handle_get => Harmless
    BY DEF handle_get, Harmless
  <2>2. ASSUME NEW cf \in CF, NEW q, handle_fetch(cf, q)
        PROVE  Harmless
    BY <2>2 DEF handle_fetch, Fail, Harmless
  <2>3. ASSUME NEW cf \in CF, NEW p, handle_put(cf, p)
        PROVE  Harmless
    BY <2>3 DEF handle_put, Fail, Install, Reply, Harmless
  <2>4. ASSUME NEW cf \in CF, NEW p, NEW i, handle_post(cf, p, i)
        PROVE  Harmless
    BY <2>4 DEF handle_post, PostCreate, PostInvoke, Fail, Install, Reply, Harmless
  <2>5. ASSUME NEW cf \in CF, NEW p, handle_ipatch(cf, p)
        PROVE  Harmless
    BY <2>5 DEF handle_ipatch, Fail, Reply, Harmless
  <2>6. ASSUME NEW cf \in CF, NEW f, handle_stream_fetch(cf, f)
        PROVE  Harmless
    <3>1. UNCHANGED <<store, stream, password>>
      BY <2>6 DEF handle_stream_fetch, Fail
    <3> QED BY <3>1 DEF Harmless
  <2>7. ASSUME NEW k, handle_delete(k)
        PROVE  Harmless
    BY <2>7 DEF handle_delete, Fail, Reply, Harmless
  <2>8. ASSUME NEW c \in Client, NEW o \in BOOLEAN, handle_stream_get(c, o)
        PROVE  Harmless
    <3>1. resp'.code = 205
      BY <2>8 DEF handle_stream_get, Reply
    <3> QED BY <3>1 DEF Harmless
  <2>9. ASSUME NEW c \in Client, send_notification(c) \/ drop_observer(c)
        PROVE  Harmless
    BY <2>9 DEF send_notification, drop_observer, Harmless
  <2>10. restart => Harmless
    BY DEF restart, Harmless
  <2>11. [Harmless]_vars
    BY <1>1, <2>1, <2>2, <2>3, <2>4, <2>5, <2>6, <2>7, <2>8, <2>9, <2>10 DEF Next
  <2> QED
    BY <2>11 DEF Harmless
<1> QED
  BY <1>1, PTL DEF Spec, ErrorChangesNothing


-----------------------------------------------------------------------------
(***************************************************************************)
(* Induction over data.  The library proves that < is well-founded on Nat, *)
(* which gives induction over a set of numbers, and with it the function   *)
(* that the folds of the model choose.                                     *)
(***************************************************************************)

\* Every nonempty set of numbers has a least element.
LEMMA LeastNumber ==
    ASSUME NEW S \in SUBSET Nat, S # {}
    PROVE  \E n \in S : \A m \in S : n <= m
<1>1. IsWellFoundedOn(OpToRel(<, Nat), Nat)
  BY NatLessThanWellFounded
<1>2. PICK n \in S : \A m \in S : <<m, n>> \notin OpToRel(<, Nat)
  BY <1>1, WFMin
<1>3. \A m \in S : ~ (m < n)
  BY <1>2 DEF OpToRel
<1> QED
  BY <1>3

\* Induction up to n, over a set of numbers.
LEMMA Counting ==
    ASSUME NEW n \in Nat, NEW T, 0 \in T, \A k \in 1 .. n : k - 1 \in T => k \in T
    PROVE  \A k \in 0 .. n : k \in T
<1> DEFINE Bad == {k \in 0 .. n : k \notin T}
<1> SUFFICES ASSUME Bad # {} PROVE FALSE
  OBVIOUS
<1>0. Bad \in SUBSET Nat
  OBVIOUS
<1> HIDE DEF Bad
<1>1. PICK k \in Bad : \A m \in Bad : k <= m
  BY <1>0, LeastNumber
<1> USE DEF Bad
<1>2. k \in 1 .. n /\ k - 1 \in 0 .. n
  BY <1>1
<1>3. k - 1 \in T
  BY <1>1, <1>2
<1> QED
  BY <1>1, <1>2, <1>3

\* The greatest of some positions.
LEMMA MaxOfPositions ==
    ASSUME NEW n \in Nat, NEW s \in SUBSET (1 .. n), s # {}
    PROVE  Max(s) \in s /\ \A y \in s : y <= Max(s)
<1> DEFINE D == {n - x : x \in s}
<1>1. D \in SUBSET Nat /\ D # {}
  OBVIOUS
<1>2. PICK d \in D : \A e \in D : d <= e
  BY <1>1, LeastNumber
<1>3. PICK x \in s : d = n - x
  BY <1>2
<1>4. ASSUME NEW y \in s
      PROVE  x >= y
  <2>1. d <= n - y
    BY <1>2
  <2> QED BY <1>3, <2>1
<1> QED
  BY <1>4 DEF Max

\* The function that MapThenFoldSet chooses exists: one value for every set of
\* positions, when step i maps S to S by g[i].
IsFold(it, S, n, base, g) ==
    /\ it \in [SUBSET (1 .. n) -> S]
    /\ \A s \in SUBSET (1 .. n) :
         it[s] = IF s = {} THEN base ELSE g[Max(s)][it[s \ {Max(s)}]]

\* There is such a function for every number of steps: the positions up to
\* k at a time.
LEMMA FoldExists ==
    ASSUME NEW S, NEW n \in Nat, NEW base \in S, NEW g \in [1 .. n -> [S -> S]]
    PROVE  \E it : IsFold(it, S, n, base, g)
<1> DEFINE Good(k, it) ==
             \A s \in SUBSET (1 .. k) :
               it[s] = IF s = {} THEN base ELSE g[Max(s)][it[s \ {Max(s)}]]
           T == {k \in 0 .. n : \E it \in [SUBSET (1 .. k) -> S] : Good(k, it)}
<1>1. 0 \in T
  <2> DEFINE it == [s \in SUBSET (1 .. 0) |-> base]
  <2>1. it \in [SUBSET (1 .. 0) -> S] /\ Good(0, it)
    OBVIOUS
  <2>2. 0 \in 0 .. n
    OBVIOUS
  <2> HIDE DEF it, Good
  <2> QED BY <2>1, <2>2
<1>2. ASSUME NEW k \in 1 .. n, k - 1 \in T
      PROVE  k \in T
  <2>1. PICK old \in [SUBSET (1 .. k - 1) -> S] : Good(k - 1, old)
    BY <1>2
  <2> DEFINE it == [s \in SUBSET (1 .. k) |-> IF k \in s THEN g[k][old[s \ {k}]] ELSE old[s]]
  <2>2. \A s \in SUBSET (1 .. k) : /\ s \ {k} \in SUBSET (1 .. k - 1)
                                   /\ k \notin s => s \in SUBSET (1 .. k - 1)
    OBVIOUS
  <2>3. g[k] \in [S -> S]
    OBVIOUS
  <2>4. it \in [SUBSET (1 .. k) -> S]
    BY <2>2, <2>3
  <2>5. ASSUME NEW s \in SUBSET (1 .. k), s # {}
        PROVE  it[s] = g[Max(s)][it[s \ {Max(s)}]]
    <3>1. Max(s) \in s /\ \A y \in s : y <= Max(s)
      <4>1. k \in Nat
        OBVIOUS
      <4> QED BY <2>5, <4>1, MaxOfPositions
    <3>2. CASE k \in s
      <4>1. Max(s) = k
        <5>1. Max(s) \in 1 .. k /\ k <= Max(s)
          BY <3>1, <3>2
        <5> QED BY <5>1
      <4>2. s \ {k} \in SUBSET (1 .. k) /\ k \notin s \ {k}
        OBVIOUS
      <4>3. it[s \ {k}] = old[s \ {k}]
        BY <4>2
      <4> QED BY <3>2, <4>1, <4>3
    <3>3. CASE k \notin s
      <4>1. s \in SUBSET (1 .. k - 1) /\ s \ {Max(s)} \in SUBSET (1 .. k - 1)
        BY <2>2, <3>3
      <4>2. it[s] = old[s] /\ it[s \ {Max(s)}] = old[s \ {Max(s)}]
        BY <3>3, <4>1
      <4>3. old[s] = g[Max(s)][old[s \ {Max(s)}]]
        BY <2>1, <2>5, <4>1
      <4> QED BY <4>2, <4>3
    <3> QED BY <3>2, <3>3
  <2>6. it[{}] = base
    BY <2>1
  <2>7. Good(k, it)
    BY <2>5, <2>6
  <2>8. k \in 0 .. n
    OBVIOUS
  <2> HIDE DEF it, Good
  <2> QED BY <2>4, <2>7, <2>8
<1>3. n \in T
  <2> HIDE DEF T
  <2>1. \A k \in 1 .. n : k - 1 \in T => k \in T
    BY <1>2
  <2>2. \A k \in 0 .. n : k \in T
    BY <1>1, <2>1, Counting
  <2> QED BY <2>2
<1> QED
  BY <1>3 DEF IsFold

\* The positions up to k: the last of them, and those before it.
LEMMA UpTo ==
    ASSUME NEW n \in Nat, NEW k \in 1 .. n
    PROVE  /\ 1 .. k \in SUBSET (1 .. n) /\ 1 .. k # {}
           /\ Max(1 .. k) = k
           /\ (1 .. k) \ {Max(1 .. k)} = 1 .. k - 1
<1>1. k \in Nat /\ 1 .. k \in SUBSET (1 .. k) /\ 1 .. k # {} /\ k \in 1 .. k
  OBVIOUS
<1>2. Max(1 .. k) \in 1 .. k /\ \A y \in 1 .. k : y <= Max(1 .. k)
  BY <1>1, MaxOfPositions
<1>3. Max(1 .. k) = k
  BY <1>1, <1>2
<1> QED
  BY <1>1, <1>3

-----------------------------------------------------------------------------
(***************************************************************************)
(* The loops of the handlers, as folds: each is a sequence of steps.       *)
(***************************************************************************)

\* The insert loop of parse_put_request and of the example datastore, the
\* state in which apply_ipatch_raw begins, and what one map of a patch does
\* to the queue.
Built(s) == FoldLeft(LAMBDA m, it : Inserted(m, it.key, it.value), NewMap, s)
Start(m) == [m |-> m, n |-> 0, at |-> "map"]
PushedIf(q, pm) == IF pm.closed THEN PushedMap(q, PatchEvent(pm)) ELSE q

\* The pairs of a payload, or of the example, inserted one after another.
BuiltBy(f, n, s) ==
    /\ f[0] = NewMap
    /\ \A k \in 1 .. n : f[k] = Inserted(f[k - 1], s[k].key, s[k].value)
    /\ Built(s) = f[n]

\* The loop that inserts the pairs of a payload is made of such steps, when
\* an insert leads from S to S.
LEMMA BuiltFold ==
    ASSUME NEW S, NEW n \in Nat, NEW s, DOMAIN s = 1 .. n, NewMap \in S,
           \A x \in S : \A i \in 1 .. n : Inserted(x, s[i].key, s[i].value) \in S
    PROVE  \E f : BuiltBy(f, n, s)
<1> DEFINE g == [i \in 1 .. n |-> [x \in S |-> Inserted(x, s[i].key, s[i].value)]]
           Eq(h) == h = [y \in SUBSET (1 .. n) |->
                           IF y = {} THEN NewMap
                           ELSE Inserted(h[y \ {Max(y)}], s[Max(y)].key, s[Max(y)].value)]
<1>1. g \in [1 .. n -> [S -> S]]
  OBVIOUS
<1>2. PICK it : IsFold(it, S, n, NewMap, g)
  <2> HIDE DEF g
  <2> QED BY <1>1, FoldExists
<1>3. Eq(it)
  <2>1. ASSUME NEW y \in SUBSET (1 .. n), y # {}
        PROVE  it[y] = Inserted(it[y \ {Max(y)}], s[Max(y)].key, s[Max(y)].value)
    <3>1. Max(y) \in 1 .. n
      BY <2>1, MaxOfPositions
    <3>2. it[y \ {Max(y)}] \in S
      BY <1>2 DEF IsFold
    <3> QED BY <1>2, <2>1, <3>1, <3>2 DEF IsFold
  <2>2. it[{}] = NewMap /\ it \in [SUBSET (1 .. n) -> S]
    BY <1>2 DEF IsFold
  <2> QED BY <2>1, <2>2
<1>4. PICK h : Eq(h) /\ Built(s) = h[1 .. n]
  <2>1. Built(s) = (CHOOSE h : h = [y \in SUBSET (DOMAIN s) |->
                    IF y = {} THEN NewMap
                           ELSE Inserted(h[y \ {Max(y)}], s[Max(y)].key,
                                 s[Max(y)].value)])[DOMAIN s]
    BY Zenon DEF Built, FoldLeft, MapThenFoldSet
  <2>2. Built(s) = (CHOOSE h : Eq(h))[1 .. n]
    BY <2>1
  <2>3. Eq(CHOOSE h : Eq(h))
    <3> HIDE DEF Eq
    <3> QED BY <1>3
  <2> QED BY <2>2, <2>3
<1> DEFINE f == [k \in 0 .. n |-> h[1 .. k]]
<1>5. f[0] = NewMap
  <2>1. 1 .. 0 = {} /\ {} \in SUBSET (1 .. n)
    OBVIOUS
  <2> QED BY <1>4, <2>1
<1>6. ASSUME NEW k \in 1 .. n
      PROVE  f[k] = Inserted(f[k - 1], s[k].key, s[k].value)
  <2>1. k \in 0 .. n /\ k - 1 \in 0 .. n
    OBVIOUS
  <2>2. h[1 .. k] = Inserted(h[1 .. k - 1], s[k].key, s[k].value)
    BY <1>4, UpTo
  <2> QED BY <2>1, <2>2
<1>7. Built(s) = f[n]
  <2>1. n \in 0 .. n
    OBVIOUS
  <2> QED BY <1>4, <2>1
<1> HIDE DEF f
<1> QED BY <1>5, <1>6, <1>7 DEF BuiltBy

\* The entries of one map of a patch.
AppliedBy(f, n, acc, pm) ==
    /\ f[0] = acc
    /\ \A k \in 1 .. n : f[k] = EntryApplied(f[k - 1], pm.items[k])
    /\ PatchMapApplied(acc, pm) = f[n]

\* The loop over the entries of a patch map is made of such steps.
LEMMA PatchMapFold ==
    ASSUME NEW S, NEW n \in Nat, NEW pm, NEW acc,
           DOMAIN pm.items = 1 .. n, acc \in S,
           \A x \in S : \A i \in 1 .. n : EntryApplied(x, pm.items[i]) \in S
    PROVE  \E f : AppliedBy(f, n, acc, pm)
<1> DEFINE g == [i \in 1 .. n |-> [x \in S |-> EntryApplied(x, pm.items[i])]]
           Eq(h) == h = [y \in SUBSET (1 .. n) |->
                           IF y = {} THEN acc
                           ELSE EntryApplied(h[y \ {Max(y)}], pm.items[Max(y)])]
<1>1. g \in [1 .. n -> [S -> S]]
  OBVIOUS
<1>2. PICK it : IsFold(it, S, n, acc, g)
  <2> HIDE DEF g
  <2> QED BY <1>1, FoldExists
<1>3. Eq(it)
  <2>1. ASSUME NEW y \in SUBSET (1 .. n), y # {}
        PROVE  it[y] = EntryApplied(it[y \ {Max(y)}], pm.items[Max(y)])
    <3>1. Max(y) \in 1 .. n
      BY <2>1, MaxOfPositions
    <3>2. it[y \ {Max(y)}] \in S
      BY <1>2 DEF IsFold
    <3> QED BY <1>2, <2>1, <3>1, <3>2 DEF IsFold
  <2>2. it[{}] = acc /\ it \in [SUBSET (1 .. n) -> S]
    BY <1>2 DEF IsFold
  <2> QED BY <2>1, <2>2
<1>4. PICK h : Eq(h) /\ PatchMapApplied(acc, pm) = h[1 .. n]
  <2>1. PatchMapApplied(acc, pm) = (CHOOSE h : h = [y \in SUBSET (DOMAIN pm.items) |->
                    IF y = {} THEN acc
                           ELSE EntryApplied(h[y \ {Max(y)}], pm.items[Max(y)])])[DOMAIN pm.items]
    BY Zenon DEF PatchMapApplied, FoldLeft, MapThenFoldSet
  <2>2. PatchMapApplied(acc, pm) = (CHOOSE h : Eq(h))[1 .. n]
    BY <2>1
  <2>3. Eq(CHOOSE h : Eq(h))
    <3> HIDE DEF Eq
    <3> QED BY <1>3
  <2> QED BY <2>2, <2>3
<1> DEFINE f == [k \in 0 .. n |-> h[1 .. k]]
<1>5. f[0] = acc
  <2>1. 1 .. 0 = {} /\ {} \in SUBSET (1 .. n)
    OBVIOUS
  <2> QED BY <1>4, <2>1
<1>6. ASSUME NEW k \in 1 .. n
      PROVE  f[k] = EntryApplied(f[k - 1], pm.items[k])
  <2>1. k \in 0 .. n /\ k - 1 \in 0 .. n
    OBVIOUS
  <2>2. h[1 .. k] = EntryApplied(h[1 .. k - 1], pm.items[k])
    BY <1>4, UpTo
  <2> QED BY <2>1, <2>2
<1>7. PatchMapApplied(acc, pm) = f[n]
  <2>1. n \in 0 .. n
    OBVIOUS
  <2> QED BY <1>4, <2>1
<1> HIDE DEF f
<1> QED BY <1>5, <1>6, <1>7 DEF AppliedBy

\* The maps of a patch.
PatchedBy(f, n, m, patch) ==
    /\ f[0] = Start(m)
    /\ \A k \in 1 .. n : f[k] = PatchMapApplied(f[k - 1], patch[k])
    /\ apply_ipatch_raw(m, patch) = f[n]

\* The loop over the maps of an iPATCH body is made of such steps.
LEMMA PatchFold ==
    ASSUME NEW S, NEW n \in Nat, NEW patch, NEW m,
           DOMAIN patch = 1 .. n, Start(m) \in S,
           \A x \in S : \A i \in 1 .. n : PatchMapApplied(x, patch[i]) \in S
    PROVE  \E f : PatchedBy(f, n, m, patch)
<1> DEFINE g == [i \in 1 .. n |-> [x \in S |-> PatchMapApplied(x, patch[i])]]
           Eq(h) == h = [y \in SUBSET (1 .. n) |->
                           IF y = {} THEN Start(m)
                           ELSE PatchMapApplied(h[y \ {Max(y)}], patch[Max(y)])]
<1>1. g \in [1 .. n -> [S -> S]]
  OBVIOUS
<1>2. PICK it : IsFold(it, S, n, Start(m), g)
  <2> HIDE DEF g
  <2> QED BY <1>1, FoldExists
<1>3. Eq(it)
  <2>1. ASSUME NEW y \in SUBSET (1 .. n), y # {}
        PROVE  it[y] = PatchMapApplied(it[y \ {Max(y)}], patch[Max(y)])
    <3>1. Max(y) \in 1 .. n
      BY <2>1, MaxOfPositions
    <3>2. it[y \ {Max(y)}] \in S
      BY <1>2 DEF IsFold
    <3> QED BY <1>2, <2>1, <3>1, <3>2 DEF IsFold
  <2>2. it[{}] = Start(m) /\ it \in [SUBSET (1 .. n) -> S]
    BY <1>2 DEF IsFold
  <2> QED BY <2>1, <2>2
<1>4. PICK h : Eq(h) /\ apply_ipatch_raw(m, patch) = h[1 .. n]
  <2>1. apply_ipatch_raw(m, patch) = (CHOOSE h : h = [y \in SUBSET (DOMAIN patch) |->
                    IF y = {} THEN Start(m)
                           ELSE PatchMapApplied(h[y \ {Max(y)}], patch[Max(y)])])[DOMAIN patch]
    BY Zenon DEF apply_ipatch_raw, Start, FoldLeft, MapThenFoldSet
  <2>2. apply_ipatch_raw(m, patch) = (CHOOSE h : Eq(h))[1 .. n]
    BY <2>1
  <2>3. Eq(CHOOSE h : Eq(h))
    <3> HIDE DEF Eq
    <3> QED BY <1>3
  <2> QED BY <2>2, <2>3
<1> DEFINE f == [k \in 0 .. n |-> h[1 .. k]]
<1>5. f[0] = Start(m)
  <2>1. 1 .. 0 = {} /\ {} \in SUBSET (1 .. n)
    OBVIOUS
  <2> QED BY <1>4, <2>1
<1>6. ASSUME NEW k \in 1 .. n
      PROVE  f[k] = PatchMapApplied(f[k - 1], patch[k])
  <2>1. k \in 0 .. n /\ k - 1 \in 0 .. n
    OBVIOUS
  <2>2. h[1 .. k] = PatchMapApplied(h[1 .. k - 1], patch[k])
    BY <1>4, UpTo
  <2> QED BY <2>1, <2>2
<1>7. apply_ipatch_raw(m, patch) = f[n]
  <2>1. n \in 0 .. n
    OBVIOUS
  <2> QED BY <1>4, <2>1
<1> HIDE DEF f
<1> QED BY <1>5, <1>6, <1>7 DEF PatchedBy

\* The events of a patch.
PushedBy(f, n, q, patch) ==
    /\ f[0] = q
    /\ \A k \in 1 .. n : f[k] = PushedIf(f[k - 1], patch[k])
    /\ PushedPatch(q, patch) = f[n]

\* The loop of stream_push_notification_sequence is made of such steps.
LEMMA PushedFold ==
    ASSUME NEW S, NEW n \in Nat, NEW patch, NEW q,
           DOMAIN patch = 1 .. n, q \in S,
           \A x \in S : \A i \in 1 .. n : PushedIf(x, patch[i]) \in S
    PROVE  \E f : PushedBy(f, n, q, patch)
<1> DEFINE g == [i \in 1 .. n |-> [x \in S |-> PushedIf(x, patch[i])]]
           Eq(h) == h = [y \in SUBSET (1 .. n) |->
                           IF y = {} THEN q
                           ELSE PushedIf(h[y \ {Max(y)}], patch[Max(y)])]
<1>1. g \in [1 .. n -> [S -> S]]
  OBVIOUS
<1>2. PICK it : IsFold(it, S, n, q, g)
  <2> HIDE DEF g
  <2> QED BY <1>1, FoldExists
<1>3. Eq(it)
  <2>1. ASSUME NEW y \in SUBSET (1 .. n), y # {}
        PROVE  it[y] = PushedIf(it[y \ {Max(y)}], patch[Max(y)])
    <3>1. Max(y) \in 1 .. n
      BY <2>1, MaxOfPositions
    <3>2. it[y \ {Max(y)}] \in S
      BY <1>2 DEF IsFold
    <3> QED BY <1>2, <2>1, <3>1, <3>2 DEF IsFold
  <2>2. it[{}] = q /\ it \in [SUBSET (1 .. n) -> S]
    BY <1>2 DEF IsFold
  <2> QED BY <2>1, <2>2
<1>4. PICK h : Eq(h) /\ PushedPatch(q, patch) = h[1 .. n]
  <2>1. PushedPatch(q, patch) = (CHOOSE h : h = [y \in SUBSET (DOMAIN patch) |->
                    IF y = {} THEN q
                           ELSE PushedIf(h[y \ {Max(y)}], patch[Max(y)])])[DOMAIN patch]
    BY Zenon DEF PushedPatch, PushedIf, FoldLeft, MapThenFoldSet
  <2>2. PushedPatch(q, patch) = (CHOOSE h : Eq(h))[1 .. n]
    BY <2>1
  <2>3. Eq(CHOOSE h : Eq(h))
    <3> HIDE DEF Eq
    <3> QED BY <1>3
  <2> QED BY <2>2, <2>3
<1> DEFINE f == [k \in 0 .. n |-> h[1 .. k]]
<1>5. f[0] = q
  <2>1. 1 .. 0 = {} /\ {} \in SUBSET (1 .. n)
    OBVIOUS
  <2> QED BY <1>4, <2>1
<1>6. ASSUME NEW k \in 1 .. n
      PROVE  f[k] = PushedIf(f[k - 1], patch[k])
  <2>1. k \in 0 .. n /\ k - 1 \in 0 .. n
    OBVIOUS
  <2>2. h[1 .. k] = PushedIf(h[1 .. k - 1], patch[k])
    BY <1>4, UpTo
  <2> QED BY <2>1, <2>2
<1>7. PushedPatch(q, patch) = f[n]
  <2>1. n \in 0 .. n
    OBVIOUS
  <2> QED BY <1>4, <2>1
<1> HIDE DEF f
<1> QED BY <1>5, <1>6, <1>7 DEF PushedBy

-----------------------------------------------------------------------------
(***************************************************************************)
(* The datastore.  A sound map: a well-formed table of values in V whose   *)
(* size is the number of its keys.                                         *)
(***************************************************************************)
SoundOf(V) ==
    {m \in [table : TableOf(V), size : Nat] :
       /\ WellFormed(m.table)
       /\ IsFiniteSet(KeysOf(m.table))
       /\ m.size = Cardinality(KeysOf(m.table))}

\* What the handlers read of a map.
SameAt(m, n, x) ==
    /\ Has(n.table, x) = Has(m.table, x)
    /\ Has(m.table, x) => Lookup(n.table, x) = Lookup(m.table, x)

\* createCoreconfHashmap.
LEMMA NewMapSound ==
    ASSUME NEW V
    PROVE  NewMap \in SoundOf(V)
  BY EmptyTableIsEmpty, FS_EmptySet DEF NewMap, SoundOf

\* insertCoreconfHashMap keeps a map sound, also when it refuses, and leaves
\* the other keys alone.
LEMMA InsertedSound ==
    ASSUME NEW V, NEW m \in SoundOf(V), NEW k \in Key, NEW v \in V
    PROVE  /\ Inserted(m, k, v) \in SoundOf(V)
           /\ \A x \in Key : x # k => SameAt(m, Inserted(m, k, v), x)
           /\ ~ Refuses(m.table, k) =>
                /\ Has(Inserted(m, k, v).table, k)
                /\ Lookup(Inserted(m, k, v).table, k) = v
<1> DEFINE t == m.table
           u == TableInsert(t, k, v)
<1>1. /\ t \in TableOf(V) /\ WellFormed(t) /\ m.size \in Nat
      /\ IsFiniteSet(KeysOf(t)) /\ m.size = Cardinality(KeysOf(t))
  BY DEF SoundOf
<1>2. /\ u \in TableOf(V) /\ WellFormed(u)
      /\ Refuses(t, k) => u = t
      /\ ~Refuses(t, k) =>
           /\ KeysOf(u) = KeysOf(t) \union {k}
           /\ Lookup(u, k) = v
           /\ \A x \in KeysOf(t) : x # k => Lookup(u, x) = Lookup(t, x)
           /\ Links(t, k) <=> k \notin KeysOf(t)
  BY <1>1, InsertIsMapUpdate
<1>3. Inserted(m, k, v).table = u /\ Inserted(m, k, v).size = SizeAfterInsert(t, m.size, k)
  BY DEF Inserted
<1>4. \A x \in Key : x # k => SameAt(m, Inserted(m, k, v), x)
  <2>1. CASE Refuses(t, k)
    BY <1>2, <1>3, <2>1 DEF SameAt
  <2>2. CASE ~Refuses(t, k)
    <3>1. \A x \in Key : (Has(t, x) <=> x \in KeysOf(t)) /\ (Has(u, x) <=> x \in KeysOf(u))
      BY DEF KeysOf
    <3>2. Has(t, k) \in BOOLEAN /\ \A x : Has(t, x) \in BOOLEAN /\ Has(u, x) \in BOOLEAN
      BY DEF Has
    <3> QED BY <1>2, <1>3, <2>2, <3>1, <3>2 DEF SameAt
  <2> QED BY <2>1, <2>2
<1>5. Inserted(m, k, v) \in SoundOf(V)
  <2>1. CASE Links(t, k)
    <3>1. k \notin KeysOf(t) /\ KeysOf(u) = KeysOf(t) \union {k}
      BY <1>2, <2>1 DEF Links
    <3>2. IsFiniteSet(KeysOf(u)) /\ Cardinality(KeysOf(u)) = m.size + 1
      BY <1>1, <3>1, FS_AddElement
    <3> QED BY <1>1, <1>2, <2>1, <3>2 DEF Inserted, SizeAfterInsert, SoundOf
  <2>2. CASE ~Links(t, k)
    <3>1. KeysOf(u) = KeysOf(t)
      BY <1>2, <2>2
    <3> QED BY <1>1, <1>2, <2>2, <3>1 DEF Inserted, SizeAfterInsert, SoundOf
  <2> QED BY <2>1, <2>2
<1>6. ~ Refuses(t, k) => Has(u, k)
  BY <1>2 DEF KeysOf
<1> QED
  BY <1>2, <1>3, <1>4, <1>5, <1>6

\* deleteFromCoreconfHashMap.
LEMMA DeletedSound ==
    ASSUME NEW V, NEW m \in SoundOf(V), NEW k \in Key
    PROVE  /\ Deleted(m, k) \in SoundOf(V)
           /\ \A x \in Key : x # k => SameAt(m, Deleted(m, k), x)
<1> DEFINE t == m.table
           u == TableDelete(t, k)
<1>1. /\ t \in TableOf(V) /\ WellFormed(t) /\ m.size \in Nat
      /\ IsFiniteSet(KeysOf(t)) /\ m.size = Cardinality(KeysOf(t))
  BY DEF SoundOf
<1>2. /\ u \in TableOf(V) /\ WellFormed(u)
      /\ KeysOf(u) = KeysOf(t) \ {k}
      /\ \A x \in KeysOf(u) : Lookup(u, x) = Lookup(t, x)
  BY <1>1, DeleteIsMapRemove
<1>3. Deleted(m, k).table = u /\ Deleted(m, k).size = SizeAfterDelete(t, m.size, k)
  BY DEF Deleted
<1>4. \A x \in Key : x # k => SameAt(m, Deleted(m, k), x)
  <2>1. \A x \in Key : (Has(t, x) <=> x \in KeysOf(t)) /\ (Has(u, x) <=> x \in KeysOf(u))
    BY DEF KeysOf
  <2>2. \A x : Has(t, x) \in BOOLEAN /\ Has(u, x) \in BOOLEAN
    BY DEF Has
  <2> QED BY <1>2, <1>3, <2>1, <2>2 DEF SameAt
<1>5. Deleted(m, k) \in SoundOf(V)
  <2>1. CASE Has(t, k)
    <3>1. k \in KeysOf(t)
      BY <2>1 DEF KeysOf
    <3>2. IsFiniteSet(KeysOf(u)) /\ Cardinality(KeysOf(u)) = m.size - 1
      BY <1>1, <1>2, <3>1, FS_RemoveElement
    <3>3. m.size # 0
      BY <1>1, <3>1, FS_EmptySet
    <3> QED BY <1>1, <1>2, <2>1, <3>2, <3>3 DEF Deleted, SizeAfterDelete, SoundOf
  <2>2. CASE ~Has(t, k)
    <3>1. KeysOf(u) = KeysOf(t)
      BY <2>2 DEF TableDelete
    <3> QED BY <1>1, <1>2, <2>2, <3>1 DEF Deleted, SizeAfterDelete, SoundOf
  <2> QED BY <2>1, <2>2
<1> QED
  BY <1>4, <1>5

\* A value changed in place, as iPATCH changes a list: no node moves.
LEMMA UpdatedSound ==
    ASSUME NEW V, NEW m \in SoundOf(V), NEW k \in Key, NEW v \in V, Has(m.table, k)
    PROVE  /\ Updated(m, k, v) \in SoundOf(V)
           /\ \A x \in Key : x # k => SameAt(m, Updated(m, k, v), x)
<1> DEFINE t == m.table
           c == ChainOf(t, k)
           u == Updated(m, k, v).table
<1>1. /\ t \in TableOf(V) /\ WellFormed(t) /\ m \in [table : TableOf(V), size : Nat]
      /\ IsFiniteSet(KeysOf(t)) /\ m.size = Cardinality(KeysOf(t))
  BY DEF SoundOf
<1>2. PICK i : i \in At(c, k)
  BY DEF Has
<1>3. FirstOf(At(c, k)) = i
  BY <1>1, <1>2, UniquePosition
<1>4. /\ hashKey[k] \in Bucket /\ c \in Seq(NodeOf(V)) /\ Len(c) \in Nat
      /\ c[i] \in NodeOf(V) /\ c[i].key = k /\ i \in 1 .. Len(c)
  BY <1>1, <1>2, ChainType DEF At
<1> DEFINE d == [c EXCEPT ![i].value = v]
<1>5. d \in Seq(NodeOf(V)) /\ Len(d) = Len(c) /\ d[i].value = v
      /\ \A j \in 1 .. Len(c) : d[j].key = c[j].key /\ (j # i => d[j] = c[j])
  <2>1. [c[i] EXCEPT !.value = v] \in NodeOf(V)
    BY <1>4 DEF NodeOf
  <2> QED BY <1>4, <2>1 DEF NodeOf
<1>6. u = [t EXCEPT ![hashKey[k]] = d] /\ Updated(m, k, v).size = m.size
      /\ Updated(m, k, v) \in [table : TableOf(V), size : Nat]
  <2>1. Updated(m, k, v) = [m EXCEPT !.table[hashKey[k]] = d]
    BY <1>3 DEF Updated
  <2>2. [t EXCEPT ![hashKey[k]] = d] \in TableOf(V)
    BY <1>1, <1>5 DEF TableOf
  <2> HIDE DEF d
  <2> QED BY <1>1, <2>1, <2>2
<1>7. \A b \in Bucket : /\ Len(u[b]) = Len(t[b])
                        /\ \A j \in 1 .. Len(t[b]) : u[b][j].key = t[b][j].key
                        /\ b # hashKey[k] => u[b] = t[b]
  <2> HIDE DEF d, u
  <2> QED BY <1>1, <1>5, <1>6 DEF TableOf, ChainOf
<1>8. WellFormed(u)
  <2> HIDE DEF u
  <2>1. Placed(u)
    BY <1>1, <1>7 DEF WellFormed, Placed
  <2>2. Distinct(u)
    BY <1>1, <1>7 DEF WellFormed, Distinct
  <2>3. Bounded(u)
    BY <1>1, <1>7 DEF WellFormed, Bounded
  <2> QED BY <2>1, <2>2, <2>3 DEF WellFormed
<1>9. ASSUME NEW x \in Key
      PROVE  /\ At(ChainOf(u, x), x) = At(ChainOf(t, x), x)
             /\ Has(u, x) = Has(t, x)
             /\ x # k /\ Has(t, x) => Lookup(u, x) = Lookup(t, x)
  <2> HIDE DEF u
  <2>1. hashKey[x] \in Bucket
    BY TableAssumption DEF Bucket
  <2>2. At(ChainOf(u, x), x) = At(ChainOf(t, x), x)
    BY <1>7, <2>1 DEF At, ChainOf
  <2>3. ASSUME x # k, Has(t, x)
        PROVE  Lookup(u, x) = Lookup(t, x)
    <3>1. PICK j : j \in At(ChainOf(t, x), x)
      BY <2>3 DEF Has
    <3>2. FirstOf(At(ChainOf(t, x), x)) = j
      BY <1>1, <3>1, UniquePosition
    <3>3. ChainOf(u, x)[j] = ChainOf(t, x)[j]
      <4>1. CASE hashKey[x] # hashKey[k]
        BY <1>7, <2>1, <4>1 DEF ChainOf
      <4>2. CASE hashKey[x] = hashKey[k]
        <5>1. j \in 1 .. Len(c) /\ c[j].key = x
          BY <3>1, <4>2 DEF At, ChainOf
        <5>2. d[j] = c[j]
          BY <1>4, <1>5, <2>3, <5>1
        <5> HIDE DEF d
        <5>3. ChainOf(u, x) = d
          BY <1>1, <1>4, <1>6, <4>2 DEF ChainOf, TableOf
        <5> QED BY <4>2, <5>2, <5>3 DEF ChainOf
      <4> QED BY <4>1, <4>2
    <3> QED BY <2>2, <3>2, <3>3 DEF Lookup
  <2> QED BY <2>2, <2>3 DEF Has
<1>10. KeysOf(u) = KeysOf(t)
  <2> HIDE DEF u
  <2> QED BY <1>9 DEF KeysOf
<1>11. Updated(m, k, v) \in SoundOf(V)
  BY <1>1, <1>6, <1>8, <1>10 DEF SoundOf
<1> QED
  BY <1>9, <1>11 DEF SameAt

-----------------------------------------------------------------------------
(***************************************************************************)
(* Values, and what a patch makes of a sound datastore.                    *)
(***************************************************************************)

\* What TypeAssumption says of the requests, value by value: the values they
\* carry and the entries of their lists are as the decoder builds them.
LEMMA RequestValues ==
    /\ \A v \in RequestValue : IsValue(v)
    /\ \A it \in PatchItem : /\ it.kind \in {"sid", "inst"}
                             /\ it.sid \in Key
                             /\ it.value \in RequestValue
    /\ \A e \in ListEntry : e.t = "map" => IsScalarMap(e)
<1>1. \A it \in PatchItem : /\ it.kind \in {"sid", "inst"}
                            /\ it.sid \in Key
                            /\ IsValue(it.value)
  <2> TAKE it \in PatchItem
  <2>1. PICK patch \in Patch : \E pm \in Range(patch) : it \in Entries(pm)
    BY DEF PatchItem
  <2>2. PICK pm \in Range(patch) : it \in Entries(pm)
    BY <2>1
  <2>3. IsPatchMap(pm)
    BY <2>2, TypeAssumption
  <2>4. it.kind \in EntryKind
    BY <2>2 DEF Entries
  <2> QED BY <2>2, <2>3, <2>4 DEF IsPatchMap, EntryKind
<1>2. ASSUME NEW v \in RequestValue
      PROVE  IsValue(v)
  <2>1. CASE v \in ValuesOf(ExampleItems)
    BY <2>1, TypeAssumption DEF ValuesOf, IsPairs
  <2>2. CASE \E it \in PatchItem : v = it.value
    BY <1>1, <2>2
  <2>3. ASSUME NEW p \in Payload, p.kind = "map", v \in ValuesOf(p.items)
        PROVE  IsValue(v)
    <3>1. IsPairs(p.items)
      BY <2>3, TypeAssumption
    <3> QED BY <2>3, <3>1 DEF ValuesOf, IsPairs
  <2> QED BY <2>1, <2>2, <2>3 DEF RequestValue
<1>3. \A it \in PatchItem : it.value \in RequestValue
  BY DEF RequestValue
<1>4. ASSUME NEW e \in ListEntry, e.t = "map"
      PROVE  IsScalarMap(e)
  <2>1. CASE e \in RequestValue
    <3>1. IsValue(e)
      BY <1>2, <2>1
    <3> QED BY <1>4, <3>1 DEF IsValue
  <2>2. ASSUME NEW v \in RequestValue, v.t = "list", e \in Range(v.s)
        PROVE  IsScalarMap(e)
    <3>1. IsValue(v)
      BY <1>2
    <3>2. \A i \in DOMAIN v.s : v.s[i].t = "map" => IsScalarMap(v.s[i])
      BY <2>2, <3>1 DEF IsValue
    <3>3. PICK i \in DOMAIN v.s : e = v.s[i]
      BY <2>2 DEF Range
    <3> QED BY <1>4, <3>2, <3>3
  <2> QED BY <2>1, <2>2 DEF ListEntry
<1> QED
  BY <1>1, <1>2, <1>3, <1>4

\* The values of a datastore are values, and a list made of entries that
\* requests carry is one of them: an iPATCH makes no other.
LEMMA StoredValues ==
    /\ RequestValue \subseteq StoredValue /\ RequestValue \subseteq ListEntry
    /\ \A v \in StoredValue : IsValue(v)
    /\ \A v \in StoredValue : v.t = "list" => v.s \in Seq(ListEntry)
    /\ \A s \in Seq(ListEntry) : List(s) \in StoredValue
<1>1. RequestValue \subseteq StoredValue /\ RequestValue \subseteq ListEntry
  BY DEF StoredValue, ListEntry
<1>2. \A s \in Seq(ListEntry) : List(s) \in StoredValue
  BY DEF StoredValue, List
<1>3. ASSUME NEW v \in StoredValue, v.t = "list"
      PROVE  v.s \in Seq(ListEntry)
  <2>1. CASE v \in RequestValue
    <3>1. IsValue(v)
      BY <2>1, RequestValues
    <3>2. v.s \in Seq(Range(v.s))
      BY <1>3, <3>1 DEF IsValue
    <3>3. Range(v.s) \subseteq ListEntry
      BY <1>3, <2>1 DEF ListEntry
    <3> QED BY <3>2, <3>3, SeqMonotonic
  <2>2. CASE v \in [t : {"list"}, s : Seq(ListEntry)]
    BY <2>2
  <2> QED BY <2>1, <2>2 DEF StoredValue
<1>4. ASSUME NEW v \in StoredValue
      PROVE  IsValue(v)
  <2>1. CASE v \in RequestValue
    BY <2>1, RequestValues
  <2>2. CASE v \in [t : {"list"}, s : Seq(ListEntry)]
    <3>1. v.t = "list" /\ v.s \in Seq(ListEntry)
      BY <2>2
    <3>2. v.s \in Seq(Range(v.s))
      BY <3>1 DEF Range
    <3>3. \A i \in DOMAIN v.s : v.s[i] \in ListEntry
      BY <3>1
    <3>4. \A i \in DOMAIN v.s : v.s[i].t = "map" => IsScalarMap(v.s[i])
      BY <3>3, RequestValues
    <3> QED BY <3>1, <3>2, <3>4 DEF IsValue
  <2> QED BY <2>1, <2>2 DEF StoredValue
<1> QED
  BY <1>1, <1>2, <1>3, <1>4

\* The first of some positions of a sequence is one of them.
LEMMA FirstOfPositions ==
    ASSUME NEW n \in Nat, NEW s \in SUBSET (1 .. n), s # {}
    PROVE  FirstOf(s) \in s
<1>1. s \in SUBSET Nat
  OBVIOUS
<1>2. PICK i \in s : \A j \in s : i <= j
  BY <1>1, LeastNumber
<1> QED
  BY <1>2 DEF FirstOf

\* A list in which one entry is replaced, removed or appended is a list.
LEMMA EntriesType ==
    ASSUME NEW E, NEW s \in Seq(E), NEW it, it.value \in E
    PROVE  EntriesPatched(s, it) \in Seq(E)
<1> DEFINE hits == Matching(s, it.key)
<1>1. hits \in SUBSET (1 .. Len(s)) /\ Len(s) \in Nat
  BY DEF Matching
<1>2. CASE hits = {}
  BY <1>2 DEF EntriesPatched
<1>3. CASE hits # {}
  <2>1. FirstOf(hits) \in 1 .. Len(s)
    <3> HIDE DEF hits
    <3> QED BY <1>1, <1>3, FirstOfPositions
  <2>2. Unlink(s, FirstOf(hits)) \in Seq(E)
    BY <2>1, UnlinkChain
  <2>3. [s EXCEPT ![FirstOf(hits)] = it.value] \in Seq(E)
    BY <2>1, ExceptSeq
  <2> QED BY <1>3, <2>2, <2>3 DEF EntriesPatched
<1> QED
  BY <1>2, <1>3

\* The datastores that occur, and the state of applying a patch to one.
Sound == SoundOf(StoredValue)
Applying == [m : Sound, n : Nat, at : ScanAt]

\* A token of a patch.
IsToken(it) == it.kind \in TokenKind /\ (it.kind \in EntryKind => it \in PatchItem)

\* Every token of a map of a patch is one.
LEMMA MapTokens ==
    ASSUME NEW patch \in Patch, NEW pm \in Range(patch)
    PROVE  /\ Len(pm.items) \in Nat /\ DOMAIN pm.items = 1 .. Len(pm.items)
           /\ \A i \in 1 .. Len(pm.items) : IsToken(pm.items[i])
<1>1. Len(pm.items) \in Nat /\ DOMAIN pm.items = 1 .. Len(pm.items)
  BY TypeAssumption DEF IsPatchMap
<1>2. ASSUME NEW i \in 1 .. Len(pm.items)
      PROVE  IsToken(pm.items[i])
  <2>1. pm.items[i] \in Range(pm.items)
    BY <1>1 DEF Range
  <2>2. pm.items[i].kind \in TokenKind
    BY <2>1, TypeAssumption DEF IsPatchMap
  <2>3. pm.items[i].kind \in EntryKind => pm.items[i] \in Entries(pm)
    BY <2>1 DEF Entries
  <2>4. pm \in UNION {Range(q) : q \in Patch}
    OBVIOUS
  <2> QED BY <2>2, <2>3, <2>4 DEF PatchItem, IsToken
<1> QED
  BY <1>1, <1>2

\* The scan stands where it can stand.
LEMMA ScanType ==
    ASSUME NEW at \in ScanAt, NEW it
    PROVE  ScannedPast(at, it) \in ScanAt
  BY DEF ScannedPast, ScanAt

\* One token of a patch keeps the datastore sound and changes no SID but that
\* of an entry.
LEMMA EntrySound ==
    ASSUME NEW acc \in Applying, NEW it, IsToken(it)
    PROVE  /\ EntryApplied(acc, it) \in Applying
           /\ \A x \in Key : (it.kind \in EntryKind => x # it.sid) =>
                SameAt(acc.m, EntryApplied(acc, it).m, x)
<1>1. acc.m \in Sound /\ acc.n \in Nat /\ acc.at \in ScanAt
  BY DEF Applying
<1>2. \A x : SameAt(acc.m, acc.m, x)
  BY DEF SameAt
<1>0. ASSUME NEW d \in Sound, EntryApplied(acc, it).m = d
      PROVE  EntryApplied(acc, it) \in Applying
  <2>1. EntryApplied(acc, it).n \in Nat
    BY <1>1 DEF EntryApplied
  <2>2. EntryApplied(acc, it).at \in ScanAt
    BY <1>1, ScanType DEF EntryApplied
  <2> QED BY <1>0, <2>1, <2>2 DEF EntryApplied, Applying
<1>3. CASE acc.at # "key" \/ it.kind \notin EntryKind
  <2>1. EntryApplied(acc, it).m = acc.m
    BY <1>3 DEF EntryApplied, Patched, EntryKind
  <2> QED BY <1>0, <1>1, <1>2, <2>1
<1>4. CASE acc.at = "key" /\ it.kind = "sid" /\ it \in PatchItem
  <2>1. it.sid \in Key /\ it.value \in StoredValue /\ it.value \in ListEntry
    BY <1>4, RequestValues, StoredValues
  <2>2. List(<<it.value>>) \in StoredValue
    <3>1. <<it.value>> \in Seq(ListEntry)
      BY <2>1
    <3> QED BY <3>1, StoredValues
  <2>3. /\ SidPatched(acc.m, it) \in Sound
        /\ \A x \in Key : x # it.sid => SameAt(acc.m, SidPatched(acc.m, it), x)
    BY <1>1, <2>1, <2>2, InsertedSound, DeletedSound DEF SidPatched, Sound
  <2>4. EntryApplied(acc, it).m = SidPatched(acc.m, it)
    BY <1>4 DEF EntryApplied, Patched
  <2>5. it.kind \in EntryKind
    BY <1>4 DEF EntryKind
  <2> QED BY <1>0, <2>3, <2>4, <2>5
<1>5. CASE acc.at = "key" /\ it.kind = "inst" /\ it \in PatchItem
  <2>1. it.sid \in Key /\ it.value \in ListEntry
    BY <1>5, RequestValues, StoredValues
  <2>2. /\ InstPatched(acc.m, it) \in Sound
        /\ \A x \in Key : x # it.sid => SameAt(acc.m, InstPatched(acc.m, it), x)
    <3>1. CASE ~ ListAt(acc.m, it.sid)
      BY <1>1, <1>2, <3>1 DEF InstPatched
    <3>2. CASE ListAt(acc.m, it.sid)
      <4>1. Has(acc.m.table, it.sid) /\ Lookup(acc.m.table, it.sid).t = "list"
        BY <3>2 DEF ListAt
      <4>2. Lookup(acc.m.table, it.sid) \in StoredValue
        <5>1. acc.m.table \in TableOf(StoredValue) /\ WellFormed(acc.m.table)
          BY <1>1 DEF Sound, SoundOf
        <5>2. it.sid \in KeysOf(acc.m.table)
          BY <2>1, <4>1 DEF KeysOf
        <5> QED BY <5>1, <5>2, FoundHasNode
      <4>3. Lookup(acc.m.table, it.sid).s \in Seq(ListEntry)
        BY <4>1, <4>2, StoredValues
      <4>4. List(EntriesPatched(Lookup(acc.m.table, it.sid).s, it)) \in StoredValue
        BY <2>1, <4>3, EntriesType, StoredValues
      <4> QED BY <1>1, <2>1, <3>2, <4>1, <4>4, UpdatedSound DEF InstPatched, Sound
    <3> QED BY <3>1, <3>2
  <2>3. EntryApplied(acc, it).m = InstPatched(acc.m, it)
    BY <1>5 DEF EntryApplied, Patched
  <2>4. it.kind \in EntryKind
    BY <1>5 DEF EntryKind
  <2> QED BY <1>0, <2>2, <2>3, <2>4
<1> QED
  BY <1>3, <1>4, <1>5 DEF IsToken, EntryKind

\* SameAt is transitive.
LEMMA SameAtTrans ==
    ASSUME NEW l, NEW m, NEW n, NEW x, SameAt(l, m, x), SameAt(m, n, x)
    PROVE  SameAt(l, n, x)
  BY DEF SameAt

\* One map of a patch keeps the datastore sound and changes no SID but those
\* of its entries, however many tokens it has.
LEMMA PatchMapSound ==
    ASSUME NEW acc \in Applying, NEW patch \in Patch, NEW pm \in Range(patch)
    PROVE  /\ PatchMapApplied(acc, pm) \in Applying
           /\ \A x \in Key \ EntrySids(pm) : SameAt(acc.m, PatchMapApplied(acc, pm).m, x)
<1> DEFINE n == Len(pm.items)
<1>1. n \in Nat /\ DOMAIN pm.items = 1 .. n
  BY MapTokens
<1>2. ASSUME NEW i \in 1 .. n
      PROVE  IsToken(pm.items[i])
  BY MapTokens
<1>3. \A a \in Applying : \A i \in 1 .. n : EntryApplied(a, pm.items[i]) \in Applying
  BY <1>2, EntrySound
<1>4. PICK f : AppliedBy(f, n, acc, pm)
  <2> HIDE DEF n
  <2> QED BY <1>1, <1>3, PatchMapFold
<1> USE <1>4 DEF AppliedBy
<1> DEFINE T == {k \in 0 .. n : /\ f[k] \in Applying
                                /\ \A x \in Key \ EntrySids(pm) : SameAt(acc.m, f[k].m, x)}
<1>5. 0 \in T
  BY <1>1, <1>4 DEF SameAt
<1>6. ASSUME NEW k \in 1 .. n, k - 1 \in T
      PROVE  k \in T
  <2>1. f[k] = EntryApplied(f[k - 1], pm.items[k]) /\ f[k - 1] \in Applying
    BY <1>4, <1>6
  <2>2. /\ f[k] \in Applying
        /\ \A x \in Key : (pm.items[k].kind \in EntryKind => x # pm.items[k].sid) =>
             SameAt(f[k - 1].m, f[k].m, x)
    BY <1>2, <2>1, EntrySound
  <2>3. pm.items[k].kind \in EntryKind => pm.items[k].sid \in EntrySids(pm)
    <3>1. pm.items[k] \in Range(pm.items)
      BY <1>1 DEF Range
    <3> QED BY <3>1 DEF EntrySids, Entries
  <2>4. \A x \in Key \ EntrySids(pm) : SameAt(acc.m, f[k].m, x)
    BY <1>6, <2>2, <2>3, SameAtTrans
  <2> QED BY <2>2, <2>4
<1>7. n \in T
  <2> HIDE DEF T, n
  <2>1. \A k \in 0 .. n : k \in T
    BY <1>1, <1>5, <1>6, Counting
  <2> QED BY <1>1, <2>1
<1> QED
  BY <1>4, <1>7

\* apply_ipatch_raw, however many maps the body has: the datastore stays a
\* sound table and no SID changes that the patch does not name.
LEMMA PatchSound ==
    ASSUME NEW m \in Sound, NEW patch \in Patch
    PROVE  /\ apply_ipatch_raw(m, patch).m \in Sound
           /\ \A x \in Key \ Named(patch) : SameAt(m, apply_ipatch_raw(m, patch).m, x)
<1> DEFINE n == Len(patch)
<1>1. n \in Nat /\ DOMAIN patch = 1 .. n /\ \A i \in 1 .. n : patch[i] \in Range(patch)
  BY TypeAssumption DEF Range
<1>2. Start(m) \in Applying /\ Start(m).m = m
  BY DEF Start, Applying, ScanAt
<1>3. \A a \in Applying : \A i \in 1 .. n : PatchMapApplied(a, patch[i]) \in Applying
  BY <1>1, PatchMapSound
<1>4. PICK f : PatchedBy(f, n, m, patch)
  <2> HIDE DEF n
  <2> QED BY <1>1, <1>2, <1>3, PatchFold
<1> USE <1>4 DEF PatchedBy
<1> DEFINE T == {k \in 0 .. n : /\ f[k] \in Applying
                                /\ \A x \in Key \ Named(patch) : SameAt(m, f[k].m, x)}
<1>5. 0 \in T
  BY <1>1, <1>2, <1>4 DEF SameAt
<1>6. ASSUME NEW k \in 1 .. n, k - 1 \in T
      PROVE  k \in T
  <2>1. f[k] = PatchMapApplied(f[k - 1], patch[k]) /\ f[k - 1] \in Applying
    BY <1>4, <1>6
  <2>2. /\ f[k] \in Applying
        /\ \A x \in Key \ EntrySids(patch[k]) : SameAt(f[k - 1].m, f[k].m, x)
    BY <1>1, <2>1, PatchMapSound
  <2>3. EntrySids(patch[k]) \subseteq Named(patch)
    BY <1>1 DEF Named
  <2>4. \A x \in Key \ Named(patch) : SameAt(m, f[k].m, x)
    BY <1>6, <2>2, <2>3, SameAtTrans
  <2> QED BY <2>2, <2>4
<1>7. n \in T
  <2> HIDE DEF T, n
  <2>1. \A k \in 0 .. n : k \in T
    BY <1>1, <1>5, <1>6, Counting
  <2> QED BY <1>1, <2>1
<1> QED
  BY <1>4, <1>7 DEF Applying

-----------------------------------------------------------------------------
(***************************************************************************)
(* What a payload becomes.                                                 *)
(***************************************************************************)

\* Pairs that can be inserted.
Storable(s) == /\ s \in Seq(Range(s))
               /\ \A i \in DOMAIN s : s[i].key \in Key /\ s[i].value \in StoredValue

\* Whatever pairs are inserted, and in whatever order, the map is sound.
LEMMA BuiltSound ==
    ASSUME NEW s, Storable(s)
    PROVE  Built(s) \in Sound
<1> DEFINE n == Len(s)
<1>1. n \in Nat /\ DOMAIN s = 1 .. n
  BY DEF Storable
<1>2. \A m \in Sound : \A i \in 1 .. n : Inserted(m, s[i].key, s[i].value) \in Sound
  BY <1>1, InsertedSound DEF Storable, Sound
<1>3. NewMap \in Sound
  BY NewMapSound DEF Sound
<1>4. PICK f : BuiltBy(f, n, s)
  <2> HIDE DEF n
  <2> QED BY <1>1, <1>2, <1>3, BuiltFold
<1> DEFINE T == {k \in 0 .. n : f[k] \in Sound}
<1>5. 0 \in T
  BY <1>1, <1>3, <1>4 DEF BuiltBy
<1>6. \A k \in 1 .. n : k - 1 \in T => k \in T
  BY <1>1, <1>2, <1>4 DEF BuiltBy
<1>7. n \in T
  <2> HIDE DEF T, n
  <2>1. \A k \in 0 .. n : k \in T
    BY <1>1, <1>5, <1>6, Counting
  <2> QED BY <1>1, <2>1
<1> QED
  BY <1>4, <1>7 DEF BuiltBy

\* The datastore a payload is decoded into, and the one of the start.
LEMMA PayloadSound ==
    /\ ExampleDatastore \in Sound
    /\ \A p \in Payload : p.kind = "map" => /\ Storable(p.items)
                                            /\ parse_put_request(p) \in Sound
<1>1. Storable(ExampleItems)
  <2>1. \A i \in DOMAIN ExampleItems : ExampleItems[i].value \in RequestValue
    BY DEF RequestValue, ValuesOf
  <2> QED BY <2>1, TypeAssumption, StoredValues DEF Storable, IsPairs
<1>2. ExampleDatastore \in Sound
  BY <1>1, BuiltSound DEF ExampleDatastore, Built
<1>3. ASSUME NEW p \in Payload, p.kind = "map"
      PROVE  Storable(p.items)
  <2>1. \A i \in DOMAIN p.items : p.items[i].value \in RequestValue
    BY <1>3 DEF RequestValue, ValuesOf
  <2>2. IsPairs(p.items)
    BY <1>3, TypeAssumption
  <2> QED BY <2>1, <2>2, StoredValues DEF Storable, IsPairs
<1>4. ASSUME NEW p \in Payload, p.kind = "map"
      PROVE  parse_put_request(p) \in Sound
  <2> DEFINE cut == SubSeq(p.items, 1, MaxLoop + 1)
  <2>1. Storable(p.items)
    BY <1>3, <1>4
  <2>2. CASE TooLong(p)
    <3>1. /\ Len(p.items) \in Nat /\ MaxLoop + 1 \in 1 .. Len(p.items)
          /\ p.items \in Seq(Range(p.items))
      BY <2>1, <2>2, TableAssumption DEF TooLong, Storable
    <3>2. /\ cut \in Seq(Range(p.items)) /\ Len(cut) = MaxLoop + 1
          /\ \A i \in 1 .. MaxLoop + 1 : cut[i] = p.items[i]
      BY <3>1, TableAssumption
    <3>3. DOMAIN cut = 1 .. MaxLoop + 1 /\ \A i \in DOMAIN cut : i \in DOMAIN p.items
      BY <3>1, <3>2, TableAssumption
    <3>4. cut \in Seq(Range(cut))
      BY <3>2, SeqOfRange
    <3>5. Storable(cut)
      BY <2>1, <3>2, <3>3, <3>4 DEF Storable
    <3>6. parse_put_request(p) = Built(cut)
      BY <2>2 DEF parse_put_request, Built
    <3> QED BY <3>5, <3>6, BuiltSound
  <2>3. CASE ~ TooLong(p)
    <3>1. parse_put_request(p) = Built(p.items)
      BY <2>3 DEF parse_put_request, Built
    <3> QED BY <2>1, <3>1, BuiltSound
  <2> QED BY <2>2, <2>3
<1> QED
  BY <1>2, <1>3, <1>4

\* An insert makes no chain longer than by one node.
LEMMA InsertGrows ==
    ASSUME NEW V, NEW t \in TableOf(V), NEW k \in Key, NEW v, NEW b \in Bucket
    PROVE  /\ Len(t[b]) \in Nat /\ Len(TableInsert(t, k, v)[b]) \in Nat
           /\ Len(TableInsert(t, k, v)[b]) <= Len(t[b]) + 1
<1> DEFINE c == ChainOf(t, k)
           d == InsertInChain(c, k, v)
<1>1. hashKey[k] \in Bucket /\ c \in Seq(NodeOf(V)) /\ Len(c) \in Nat
  BY ChainType
<1>2. Len(d) \in Nat /\ Len(d) <= Len(c) + 1
  <2>1. CASE Hit(c, k) # {}
    BY <1>1, <2>1 DEF InsertInChain
  <2>2. CASE Hit(c, k) = {} /\ GivesUp(c, k)
    BY <1>1, <2>2 DEF InsertInChain
  <2>3. CASE Hit(c, k) = {} /\ ~ GivesUp(c, k)
    <3>1. d = <<[key |-> k, value |-> v]>> \o c
      BY <2>3 DEF InsertInChain
    <3>2. <<[key |-> k, value |-> v]>> \in Seq(NodeOf(V) \union {[key |-> k, value |-> v]})
          /\ c \in Seq(NodeOf(V) \union {[key |-> k, value |-> v]})
      BY <1>1, SeqMonotonic
    <3>3. Len(d) = 1 + Len(c)
      BY <3>1, <3>2, ConcatProperties
    <3> QED BY <1>1, <3>3
  <2> QED BY <2>1, <2>2, <2>3
<1>3. Len(t[b]) \in Nat
  BY DEF TableOf
<1>4. TableInsert(t, k, v)[b] = IF b = hashKey[k] THEN d ELSE t[b]
  BY DEF TableInsert, TableOf
<1> QED
  BY <1>1, <1>2, <1>3, <1>4 DEF ChainOf

\* The last of the first k pairs with key x.
LastWith(s, k, x, i) ==
    i \in 1 .. k /\ s[i].key = x /\ \A j \in 1 .. k : s[j].key = x => j <= i

\* A payload that the decoder reads to its end: every pair goes in, and the
\* last pair of a key counts.
LEMMA BuiltExact ==
    ASSUME NEW s, Storable(s), Len(s) <= MaxLoop + 1
    PROVE  /\ KeysOf(Built(s).table) = {s[i].key : i \in DOMAIN s}
           /\ \A x \in KeysOf(Built(s).table) :
                \E i \in DOMAIN s : LastWith(s, Len(s), x, i)
                      /\ Lookup(Built(s).table, x) = s[i].value
<1> DEFINE n == Len(s)
<1>1. n \in Nat /\ DOMAIN s = 1 .. n
  BY DEF Storable
<1>2. \A m \in Sound : \A i \in 1 .. n : Inserted(m, s[i].key, s[i].value) \in Sound
  BY <1>1, InsertedSound DEF Storable, Sound
<1>3. NewMap \in Sound
  BY NewMapSound DEF Sound
<1>4. PICK f : BuiltBy(f, n, s)
  <2> HIDE DEF n
  <2> QED BY <1>1, <1>2, <1>3, BuiltFold
<1> DEFINE Reads(t, k) ==
             /\ \A b \in Bucket : Len(t[b]) <= k
             /\ KeysOf(t) = {s[i].key : i \in 1 .. k}
             /\ \A x \in KeysOf(t) : \E i \in 1 .. k : LastWith(s, k, x, i)
                   /\ Lookup(t, x) = s[i].value
           T == {k \in 0 .. n : f[k] \in Sound /\ Reads(f[k].table, k)}
<1>5. 0 \in T
  <2>1. f[0] = NewMap
    BY <1>4 DEF BuiltBy
  <2>2. KeysOf(NewMap.table) = {} /\ \A b \in Bucket : NewMap.table[b] = <<>>
    BY EmptyTableIsEmpty DEF NewMap, EmptyTable
  <2> QED BY <1>1, <1>3, <2>1, <2>2
<1>6. ASSUME NEW k \in 1 .. n, k - 1 \in T
      PROVE  k \in T
  <2> DEFINE m == f[k - 1]
             t == m.table
             u == f[k].table
             y == s[k].key
  <2>1. f[k] = Inserted(m, y, s[k].value) /\ m \in Sound /\ Reads(t, k - 1)
    BY <1>4, <1>6 DEF BuiltBy
  <2>2. y \in Key /\ s[k].value \in StoredValue
    BY <1>1 DEF Storable
  <2>3. t \in TableOf(StoredValue) /\ u = TableInsert(t, y, s[k].value)
    BY <2>1 DEF Sound, SoundOf, Inserted
  <2>4. ~ Refuses(t, y)
    <3>1. hashKey[y] \in Bucket
      BY <2>2, TableAssumption DEF Bucket
    <3>2. Len(ChainOf(t, y)) <= k - 1 /\ Len(ChainOf(t, y)) \in Nat
      BY <2>1, <2>2, <2>3, <3>1, ChainType DEF ChainOf
    <3>3. ~ (Len(ChainOf(t, y)) > MaxLoop + 1)
      BY <1>1, <3>2, TableAssumption
    <3> QED BY <3>3 DEF Refuses, GivesUp
  <2>5. /\ f[k] \in Sound
        /\ \A x \in Key : x # y => SameAt(m, f[k], x)
        /\ KeysOf(u) = KeysOf(t) \union {y}
        /\ Lookup(u, y) = s[k].value
    <3>1. m \in SoundOf(StoredValue) /\ u = f[k].table /\ t = m.table
      BY <2>1 DEF Sound
    <3> HIDE DEF m, t, u, y
    <3>2. /\ Inserted(m, y, s[k].value) \in SoundOf(StoredValue)
          /\ \A x \in Key : x # y => SameAt(m, Inserted(m, y, s[k].value), x)
          /\ Has(Inserted(m, y, s[k].value).table, y)
          /\ Lookup(Inserted(m, y, s[k].value).table, y) = s[k].value
      BY <2>2, <2>4, <3>1, InsertedSound
    <3>3. \A x \in Key : Has(u, x) <=> Has(t, x) \/ x = y
      BY <2>1, <3>1, <3>2 DEF SameAt
    <3>4. KeysOf(u) = KeysOf(t) \union {y}
      BY <2>2, <3>3 DEF KeysOf
    <3> QED BY <2>1, <3>1, <3>2, <3>4 DEF Sound
  <2>6. \A b \in Bucket : Len(u[b]) <= k
    <3> TAKE b \in Bucket
    <3>1. Len(t[b]) \in Nat /\ Len(u[b]) \in Nat /\ Len(u[b]) <= Len(t[b]) + 1
      BY <2>2, <2>3, InsertGrows
    <3>2. Len(t[b]) <= k - 1
      BY <2>1
    <3> QED BY <3>1, <3>2
  <2>7. KeysOf(u) = {s[i].key : i \in 1 .. k}
    <3>1. 1 .. k = (1 .. k - 1) \union {k}
      OBVIOUS
    <3>2. KeysOf(t) = {s[i].key : i \in 1 .. k - 1}
      BY <2>1
    <3> QED BY <2>5, <3>1, <3>2
  <2>8. ASSUME NEW x \in KeysOf(u)
        PROVE  \E i \in 1 .. k : LastWith(s, k, x, i) /\ Lookup(u, x) = s[i].value
    <3>1. CASE x = y
      BY <2>5, <3>1 DEF LastWith
    <3>2. CASE x # y
      <4>1. x \in KeysOf(t) /\ x \in Key /\ Has(t, x)
        BY <2>5, <2>8, <3>2 DEF KeysOf
      <4>2. Lookup(u, x) = Lookup(t, x)
        BY <2>5, <3>2, <4>1 DEF SameAt
      <4>3. PICK i \in 1 .. k - 1 : LastWith(s, k - 1, x, i) /\ Lookup(t, x) = s[i].value
        BY <2>1, <4>1
      <4>4. LastWith(s, k, x, i)
        BY <3>2, <4>3 DEF LastWith
      <4> QED BY <4>2, <4>3, <4>4
    <3> QED BY <3>1, <3>2
  <2> HIDE DEF u, m, t, y
  <2>9. Reads(u, k)
    BY <2>6, <2>7, <2>8
  <2> HIDE DEF Reads
  <2> QED BY <1>1, <2>5, <2>9 DEF u
<1>7. n \in T
  <2> HIDE DEF T, n
  <2>1. \A k \in 0 .. n : k \in T
    BY <1>1, <1>5, <1>6, Counting
  <2> QED BY <1>1, <2>1
<1>8. Reads(Built(s).table, n)
  BY <1>4, <1>7 DEF BuiltBy
<1> QED
  BY <1>1, <1>8

\* What parse_put_request makes of a payload it can hold is its meaning.
LEMMA PutMeaning ==
    ASSUME NEW p \in Payload, p.kind = "map", ~ TooLong(p)
    PROVE  ContentsOf(parse_put_request(p).table) = Meaning(p)
<1> DEFINE s == p.items
           t == parse_put_request(p).table
           L(x, i) == i \in DOMAIN s /\ s[i].key = x /\ \A j \in DOMAIN s : s[j].key = x => j <= i
<1>1. Storable(s) /\ Len(s) \in Nat /\ DOMAIN s = 1 .. Len(s)
  BY PayloadSound DEF Storable
<1>2. t = Built(s).table
  BY DEF parse_put_request, Built
<1>3. Len(s) <= MaxLoop + 1
  BY <1>1, TableAssumption DEF TooLong
<1>4. /\ KeysOf(t) = {s[i].key : i \in DOMAIN s}
      /\ \A x \in KeysOf(t) : \E i \in DOMAIN s : LastWith(s, Len(s), x, i)
            /\ Lookup(t, x) = s[i].value
  BY <1>1, <1>2, <1>3, BuiltExact
<1>5. ASSUME NEW x \in KeysOf(t)
      PROVE  Lookup(t, x) = s[CHOOSE i \in DOMAIN s :
                               /\ s[i].key = x
                               /\ \A j \in DOMAIN s : s[j].key = x => j <= i].value
  <2>1. PICK i \in DOMAIN s : LastWith(s, Len(s), x, i) /\ Lookup(t, x) = s[i].value
    BY <1>4
  <2>2. L(x, i)
    BY <1>1, <2>1 DEF LastWith
  <2>3. \A j : L(x, j) => j = i
    BY <1>1, <2>2
  <2>4. (CHOOSE j \in DOMAIN s : s[j].key = x /\ \A l \in DOMAIN s : s[l].key = x => l <= j) = i
    BY <2>2, <2>3
  <2> QED BY <2>1, <2>4
<1> HIDE DEF t
<1> QED
  BY <1>4, <1>5 DEF ContentsOf, Meaning, t

-----------------------------------------------------------------------------
(***************************************************************************)
(* The event queue.                                                        *)
(***************************************************************************)

\* The maps patches consist of, the events the server queues, and the queues
\* that fit the array.
PatchMap == UNION {Range(patch) : patch \in Patch}
ServerEvent ==
    {PayloadEvent(p) : p \in Payload} \union {PatchEvent(pm) : pm \in PatchMap}
      \union {DeleteEvent, PortFault("0/4/21", "Open pin 2"), PortFault("1/4/21", "Open pin 5")}
Queue == {q \in Seq(ServerEvent) : Len(q) <= MaxEvents}

\* A push keeps the queue within the array and moves the others back by one.
LEMMA PushedQueue ==
    ASSUME NEW q \in Queue, NEW e \in ServerEvent
    PROVE  /\ Pushed(q, e) \in Queue /\ PushedMap(q, e) \in Queue
           /\ Len(Pushed(q, e)) >= 1 /\ Pushed(q, e)[1] = e
           /\ \A i \in 1 .. Len(q) : i < MaxEvents =>
                i + 1 \in 1 .. Len(Pushed(q, e)) /\ Pushed(q, e)[i + 1] = q[i]
<1>1. q \in Seq(ServerEvent) /\ Len(q) \in Nat /\ Len(q) <= MaxEvents /\ MaxEvents \in Nat \ {0}
  BY StreamAssumption DEF Queue
<1> DEFINE r == IF Len(q) = MaxEvents THEN SubSeq(q, 1, MaxEvents - 1) ELSE q
<1>2. /\ r \in Seq(ServerEvent) /\ Len(r) \in Nat /\ Len(r) < MaxEvents
      /\ \A i \in 1 .. Len(q) : i < MaxEvents => i \in 1 .. Len(r) /\ r[i] = q[i]
  <2>1. CASE Len(q) = MaxEvents
    BY <1>1, <2>1
  <2>2. CASE Len(q) # MaxEvents
    BY <1>1, <2>2
  <2> QED BY <2>1, <2>2
<1>3. Pushed(q, e) = <<e>> \o r
  BY DEF Pushed
<1>4. <<e>> \in Seq(ServerEvent) /\ Len(<<e>>) = 1 /\ <<e>>[1] = e
  OBVIOUS
<1> HIDE DEF r
<1>5. /\ <<e>> \o r \in Seq(ServerEvent) /\ Len(<<e>> \o r) = 1 + Len(r)
      /\ (<<e>> \o r)[1] = e
      /\ \A i \in 1 .. Len(r) : (<<e>> \o r)[i + 1] = r[i]
  BY <1>2, <1>4
<1>6. Pushed(q, e) \in Queue
  BY <1>1, <1>2, <1>3, <1>5 DEF Queue
<1>7. PushedMap(q, e) \in Queue
  BY <1>6 DEF PushedMap
<1> QED
  BY <1>1, <1>2, <1>3, <1>5, <1>6, <1>7

\* The queue of the start.
LEMMA StartQueue == StartEvents \in Queue
<1>1. <<>> \in Queue
  BY StreamAssumption DEF Queue
<1>2. /\ PortFault("0/4/21", "Open pin 2") \in ServerEvent
      /\ PortFault("1/4/21", "Open pin 5") \in ServerEvent
  BY DEF ServerEvent
<1>3. Pushed(<<>>, PortFault("0/4/21", "Open pin 2")) \in Queue
  BY <1>1, <1>2, PushedQueue
<1> QED
  BY <1>2, <1>3, PushedQueue DEF StartEvents

\* The events of a patch keep the queue within the array, map after map.
LEMMA PatchQueue ==
    ASSUME NEW q \in Queue, NEW patch \in Patch
    PROVE  /\ PushedPatch(q, patch) \in Queue
           /\ \E f : /\ PushedBy(f, Len(patch), q, patch)
                     /\ \A k \in 0 .. Len(patch) : f[k] \in Queue
<1> DEFINE n == Len(patch)
<1>1. n \in Nat /\ DOMAIN patch = 1 .. n /\ \A i \in 1 .. n : patch[i] \in Range(patch)
  BY TypeAssumption DEF Range
<1>2. \A i \in 1 .. n : PatchEvent(patch[i]) \in ServerEvent
  BY <1>1 DEF ServerEvent, PatchMap
<1>3. \A x \in Queue : \A i \in 1 .. n : PushedIf(x, patch[i]) \in Queue
  BY <1>2, PushedQueue DEF PushedIf
<1>4. PICK f : PushedBy(f, n, q, patch)
  <2> HIDE DEF n
  <2> QED BY <1>1, <1>3, PushedFold
<1> DEFINE T == {k \in 0 .. n : f[k] \in Queue}
<1>5. 0 \in T
  BY <1>1, <1>4 DEF PushedBy
<1>6. \A k \in 1 .. n : k - 1 \in T => k \in T
  BY <1>1, <1>3, <1>4 DEF PushedBy
<1>7. \A k \in 0 .. n : f[k] \in Queue
  <2> HIDE DEF T, n
  <2>1. \A k \in 0 .. n : k \in T
    BY <1>1, <1>5, <1>6, Counting
  <2> QED BY <2>1 DEF T
<1>8. PushedPatch(q, patch) = f[n]
  BY <1>4 DEF PushedBy
<1> QED
  BY <1>1, <1>4, <1>7, <1>8

-----------------------------------------------------------------------------
(***************************************************************************)
(* Types and the soundness of the datastore.                               *)
(***************************************************************************)

\* The codes the server answers with; 0 before the first answer.
Codes == {0, 201, 202, 204, 205, 400, 404, 409, 415, 500}

\* The flag and the pointer agree, and what is there is a sound map.
StoreInv ==
    /\ g_ds_exists \in BOOLEAN
    /\ g_ds_exists <=> g_datastore # NoDatastore
    /\ g_ds_exists => g_datastore \in Sound

\* The inductive invariant: the queue fits its array, the datastore is sound
\* and made of values that requests carry, and the password is a string.
ServerInv ==
    /\ StoreInv
    /\ g_stream_events \in Queue
    /\ observers \subseteq Client /\ pending \subseteq observers /\ DOMAIN seen = Client
    /\ password \in STRING
    /\ resp.code \in Codes

\* A map is never taken for the NULL pointer.
LEMMA SoundIsNoNull == NoDatastore \notin Sound
<1>1. Sound \subseteq [table : [Bucket -> Seq([key : Key, value : StoredValue])], size : Nat]
  BY DEF Sound, SoundOf, TableOf, NodeOf
<1> QED
  BY <1>1, TypeAssumption

\* What a step may do to the datastore.
StoreStep ==
    \/ UNCHANGED store
    \/ g_ds_exists' = TRUE /\ g_datastore' \in Sound
    \/ g_ds_exists' = FALSE /\ g_datastore' = NoDatastore

\* What a step may do to the stream.
StreamStep ==
    \/ UNCHANGED stream
    \/ \E q \in Queue : Announce(q)
    \/ /\ g_stream_events' \in Queue
       /\ observers' \subseteq Client /\ pending' \subseteq observers' /\ DOMAIN seen' = Client

\* What a step may do to the password: it becomes what the command makes of
\* the text that the datastore holds.
PasswordStep ==
    \/ UNCHANGED password
    \/ /\ g_ds_exists' = TRUE /\ g_datastore' \in Sound
       /\ Has(g_datastore'.table, PasswordSid)
       /\ Lookup(g_datastore'.table, PasswordSid).t = "text"
       /\ password' = PasswordSet(Lookup(g_datastore'.table, PasswordSid).v)
       /\ password' # NoPassword

\* All that any step of the server may do.
Step == StoreStep /\ StreamStep /\ PasswordStep /\ (UNCHANGED resp \/ resp'.code \in Codes)

\* The code of an answer.
LEMMA ReplyCode ==
    ASSUME NEW op, NEW code, NEW body, Reply(op, code, body)
    PROVE  resp'.code = code
  BY DEF Reply

\* An error answer is such a step.
LEMMA FailStep ==
    ASSUME NEW op, NEW code \in Codes, Fail(op, code)
    PROVE  Step
  BY DEF Fail, Reply, Step, StoreStep, StreamStep, PasswordStep

\* So is replacing the datastore by a payload.
LEMMA InstallStep ==
    ASSUME ServerInv, NEW op, NEW code, NEW p \in Payload, p.kind = "map", Install(op, code, p)
    PROVE  /\ g_ds_exists' = TRUE /\ g_datastore' = parse_put_request(p) /\ g_datastore' \in Sound
           /\ \E q \in Queue : Announce(q)
           /\ resp'.code = code
<1>1. PayloadEvent(p) \in ServerEvent
  BY DEF ServerEvent
<1>2. PushedMap(g_stream_events, PayloadEvent(p)) \in Queue
  BY <1>1, PushedQueue DEF ServerInv
<1> QED
  BY <1>2, PayloadSound DEF Install, Reply

\* handle_put: an error, or a new datastore, its event and the password.
LEMMA PutStep ==
    ASSUME ServerInv, NEW cf \in CF, NEW p \in Payload \union {NoBody}, handle_put(cf, p)
    PROVE  Step
<1>1. CASE \E code \in Codes : Fail("PUT", code)
  BY <1>1, FailStep
<1>2. CASE p # NoBody /\ p.kind = "map" /\ Install("PUT", 204, p)
      /\ RotatePassword(parse_put_request(p))
  <2>1. /\ g_ds_exists' = TRUE /\ g_datastore' = parse_put_request(p) /\ g_datastore' \in Sound
        /\ \E q \in Queue : Announce(q)
        /\ resp'.code = 204
    BY <1>2, InstallStep
  <2>2. PasswordStep
    BY <1>2, <2>1 DEF RotatePassword, PasswordStep
  <2> QED BY <2>1, <2>2 DEF Step, StoreStep, StreamStep, Codes
<1> QED
  BY <1>1, <1>2 DEF handle_put, Codes

\* The code of an invocation that fails.
LEMMA InvocationCodes ==
    ASSUME NEW items \in Invocation, Failing(items) # {}
    PROVE  InvocationCode(items[FirstOf(Failing(items))]) \in Codes
<1>1. items \in Seq(Invoked) /\ Len(items) \in Nat /\ DOMAIN items = 1 .. Len(items)
  BY TypeAssumption
<1>2. FirstOf(Failing(items)) \in 1 .. Len(items)
  <2>1. Failing(items) \in SUBSET (1 .. Len(items))
    BY <1>1 DEF Failing
  <2> QED BY <1>1, <2>1, FirstOfPositions
<1>3. items[FirstOf(Failing(items))] \in Invoked
  BY <1>1, <1>2
<1>4. \A it \in Invoked : InvocationCode(it) \in Codes
  BY DEF Invoked, InvocationCode, Codes
<1> QED
  BY <1>3, <1>4

\* handle_post: an error, a new datastore, or an invocation that changes nothing.
LEMMA PostStep ==
    ASSUME ServerInv, NEW cf \in CF, NEW p \in Payload \union {NoBody}, NEW i \in Invocation,
           handle_post(cf, p, i)
    PROVE  Step
<1>1. CASE \E code \in Codes : Fail("POST", code)
  BY <1>1, FailStep
<1>2. CASE p # NoBody /\ p.kind = "map" /\ Install("POST", 201, p) /\ UNCHANGED password
  <2>1. /\ g_ds_exists' = TRUE /\ g_datastore' \in Sound
        /\ \E q \in Queue : Announce(q)
        /\ resp'.code = 201
    BY <1>2, InstallStep
  <2> QED BY <1>2, <2>1 DEF Step, StoreStep, StreamStep, PasswordStep, Codes
<1>3. CASE UNCHANGED <<store, stream, password>> /\ resp'.code = 204
  BY <1>3 DEF Step, StoreStep, StreamStep, PasswordStep, Codes
<1>4. CASE Failing(i) # {} /\ Fail("POST", InvocationCode(i[FirstOf(Failing(i))]))
  BY <1>4, InvocationCodes, FailStep
<1> QED
  BY <1>1, <1>2, <1>3, <1>4 DEF handle_post, PostCreate, PostInvoke, Reply, Codes

\* handle_ipatch: an error, or a patched datastore and its events.
LEMMA PatchStep ==
    ASSUME ServerInv, NEW cf \in CF, NEW p \in Patch \union {NoBody}, handle_ipatch(cf, p)
    PROVE  Step
<1>1. CASE \E code \in Codes : Fail("iPATCH", code)
  BY <1>1, FailStep
<1>2. CASE /\ p # NoBody /\ Exists
           /\ g_datastore' = apply_ipatch_raw(g_datastore, p).m
           /\ Reply("iPATCH", 204, <<>>)
           /\ Announce(PushedPatch(g_stream_events, p))
           /\ UNCHANGED <<g_ds_exists, password>>
  <2>1. g_datastore \in Sound /\ g_ds_exists' = TRUE
    BY <1>2 DEF ServerInv, StoreInv, Exists
  <2>2. g_datastore' \in Sound
    BY <1>2, <2>1, PatchSound
  <2>3. PushedPatch(g_stream_events, p) \in Queue
    BY <1>2, PatchQueue DEF ServerInv
  <2> QED BY <1>2, <2>1, <2>2, <2>3 DEF Step, StoreStep, StreamStep, PasswordStep, Reply, Codes
<1> QED
  BY <1>1, <1>2 DEF handle_ipatch, Codes

\* handle_delete: an error, or no datastore any more.
LEMMA DeleteStep ==
    ASSUME ServerInv, NEW k, handle_delete(k)
    PROVE  Step
<1>1. CASE Fail("DELETE", 404)
  BY <1>1, FailStep DEF Codes
<1>2. CASE /\ g_datastore' = NoDatastore /\ g_ds_exists' = FALSE
           /\ Reply("DELETE", 202, <<>>)
           /\ Announce(PushedMap(g_stream_events, DeleteEvent))
           /\ UNCHANGED password
  <2>1. DeleteEvent \in ServerEvent
    BY DEF ServerEvent
  <2>2. PushedMap(g_stream_events, DeleteEvent) \in Queue
    BY <2>1, PushedQueue DEF ServerInv
  <2> QED BY <1>2, <2>2 DEF Step, StoreStep, StreamStep, PasswordStep, Reply, Codes
<1> QED
  BY <1>1, <1>2 DEF handle_delete

\* The handlers that read.
LEMMA ReadStep ==
    ASSUME NEW cf \in CF, NEW q, handle_get \/ handle_fetch(cf, q) \/ handle_stream_fetch(cf, q)
    PROVE  Step
<1>1. UNCHANGED <<store, stream, password>>
  BY DEF handle_get, handle_fetch, handle_stream_fetch, Fail
<1>2. resp'.code \in {205, 400, 404, 415, 500}
  <2>1. CASE handle_get
    BY <2>1, ReplyCode DEF handle_get
  <2>2. CASE handle_fetch(cf, q)
    <3>1. \/ \E b : Reply("FETCH", 205, b)
          \/ Fail("FETCH", 400) \/ Fail("FETCH", 404) \/ Fail("FETCH", 415)
      BY <2>2, Zenon DEF handle_fetch
    <3>2. CASE Fail("FETCH", 400) \/ Fail("FETCH", 404) \/ Fail("FETCH", 415)
      BY <3>2 DEF Fail, Reply
    <3>3. CASE \E b : Reply("FETCH", 205, b)
      BY <3>3 DEF Reply
    <3> QED BY <3>1, <3>2, <3>3
  <2>3. CASE handle_stream_fetch(cf, q)
    <3>1. (\E b : Reply("FETCH /s", 205, b)) \/ Fail("FETCH /s", 400) \/ Fail("FETCH /s", 415)
      BY <2>3, Zenon DEF handle_stream_fetch
    <3>2. CASE Fail("FETCH /s", 400)
      BY <3>2 DEF Fail, Reply
    <3>3. CASE Fail("FETCH /s", 415)
      BY <3>3 DEF Fail, Reply
    <3>4. CASE \E b : Reply("FETCH /s", 205, b)
      <4>1. PICK b : Reply("FETCH /s", 205, b)
        BY <3>4
      <4>2. resp'.code = 205
        BY <4>1 DEF Reply
      <4> QED BY <4>2
    <3> QED BY <3>1, <3>2, <3>3, <3>4
  <2> QED BY <2>1, <2>2, <2>3
<1> QED
  BY <1>1, <1>2 DEF Step, StoreStep, StreamStep, PasswordStep, Codes

\* Observers come, are notified and go.
LEMMA ObserverStep ==
    ASSUME ServerInv, NEW c \in Client, NEW o \in BOOLEAN,
           handle_stream_get(c, o) \/ send_notification(c) \/ drop_observer(c)
    PROVE  Step
<1>1. UNCHANGED <<store, password>>
  BY DEF handle_stream_get, send_notification, drop_observer
<1>2. UNCHANGED resp \/ resp'.code \in Codes
  <2>1. CASE handle_stream_get(c, o)
    <3>1. Reply("GET /s", 205, Current)
      BY <2>1 DEF handle_stream_get
    <3>2. resp'.code = 205
      BY <3>1, ReplyCode
    <3> QED BY <3>2 DEF Codes
  <2>2. CASE send_notification(c) \/ drop_observer(c)
    BY <2>2 DEF send_notification, drop_observer
  <2> QED BY <2>1, <2>2
<1>3. g_stream_events' \in Queue
  BY DEF handle_stream_get, send_notification, drop_observer, ServerInv
<1>4. observers' \subseteq Client /\ pending' \subseteq observers' /\ DOMAIN seen' = Client
  BY DEF handle_stream_get, send_notification, drop_observer, ServerInv
<1> QED
  BY <1>1, <1>2, <1>3, <1>4 DEF Step, StoreStep, StreamStep, PasswordStep

\* A restart installs the example datastore and the two port faults.
LEMMA RestartStep ==
    ASSUME ServerInv, restart
    PROVE  Step
<1>1. StoreStep
  BY PayloadSound DEF restart, StoreStep
<1>2. StreamStep
  BY StartQueue DEF restart, StreamStep, ServerInv
<1> QED
  BY <1>1, <1>2 DEF restart, Step, PasswordStep, Codes

\* Every step of the server is such a step.
LEMMA NextStep ==
    ASSUME ServerInv, [Next]_vars
    PROVE  Step
<1>1. UNCHANGED vars => Step
  BY DEF vars, Step, StoreStep, StreamStep, PasswordStep
<1>2. 140 \in CF
  BY DEF CF
<1> QED
  BY <1>1, <1>2, PutStep, PostStep, PatchStep, DeleteStep, ReadStep, ObserverStep,
        RestartStep DEF Next

\* Found values are values.
LEMMA FoundValue ==
    ASSUME NEW m \in Sound, NEW k \in Key, Has(m.table, k)
    PROVE  Lookup(m.table, k) \in StoredValue /\ IsValue(Lookup(m.table, k))
<1>1. m.table \in TableOf(StoredValue) /\ WellFormed(m.table)
  BY DEF Sound, SoundOf
<1>2. k \in KeysOf(m.table)
  BY DEF KeysOf
<1>3. Lookup(m.table, k) \in StoredValue
  BY <1>1, <1>2, FoundHasNode
<1> QED
  BY <1>3, StoredValues

\* A password that changes is a string, made of the text the datastore holds.
LEMMA PasswordIsStored ==
    ASSUME PasswordStep, password' # password
    PROVE  /\ Has(g_datastore'.table, PasswordSid)
           /\ LET v == Lookup(g_datastore'.table, PasswordSid)
              IN  v.t = "text" /\ password' = PasswordSet(v.v)
           /\ password' \in STRING
<1> DEFINE v == Lookup(g_datastore'.table, PasswordSid)
<1>1. g_datastore' \in Sound /\ Has(g_datastore'.table, PasswordSid) /\ v.t = "text"
      /\ password' = PasswordSet(v.v) /\ password' # NoPassword
  BY DEF PasswordStep
<1>2. v \in StoredValue
  BY <1>1, FoundValue, RequestAssumption
<1> HIDE DEF v
<1>3. v \in RequestValue
  BY <1>1, <1>2 DEF StoredValue
<1>4. PasswordSet(v.v) \in STRING \union {NoPassword}
  BY <1>1, <1>3, TypeAssumption
<1> QED
  BY <1>1, <1>4 DEF v

\* The invariant is inductive.
LEMMA ServerInvariant == Spec => []ServerInv
<1>1. Init => ServerInv
  <2> SUFFICES ASSUME Init PROVE ServerInv
    OBVIOUS
  <2>1. StoreInv
    BY PayloadSound, SoundIsNoNull DEF Init, StoreInv
  <2>2. observers \subseteq Client /\ pending \subseteq observers /\ DOMAIN seen = Client
    BY DEF Init
  <2>3. g_stream_events \in Queue
    BY StartQueue DEF Init
  <2>4. password \in STRING
    BY TypeAssumption DEF Init
  <2>5. resp.code = 0
    BY DEF Init
  <2> QED BY <2>1, <2>2, <2>3, <2>4, <2>5 DEF ServerInv, Codes
<1>2. ServerInv /\ [Next]_vars => ServerInv'
  <2> SUFFICES ASSUME ServerInv, [Next]_vars PROVE ServerInv'
    OBVIOUS
  <2>1. Step
    BY NextStep
  <2>2. StoreInv'
    <3>1. CASE UNCHANGED store
      BY <3>1 DEF StoreInv, ServerInv, store
    <3>2. CASE g_ds_exists' = TRUE /\ g_datastore' \in Sound
      BY <3>2, SoundIsNoNull DEF StoreInv
    <3>3. CASE g_ds_exists' = FALSE /\ g_datastore' = NoDatastore
      BY <3>3 DEF StoreInv
    <3> QED BY <2>1, <3>1, <3>2, <3>3 DEF Step, StoreStep
  <2>3. /\ g_stream_events' \in Queue
        /\ observers' \subseteq Client /\ pending' \subseteq observers' /\ DOMAIN seen' = Client
    BY <2>1 DEF Step, StreamStep, ServerInv, stream, Announce
  <2>4. password' \in STRING
    BY <2>1, PasswordIsStored DEF Step, ServerInv
  <2>5. resp'.code \in Codes
    BY <2>1 DEF Step, ServerInv
  <2> QED BY <2>2, <2>3, <2>4, <2>5 DEF ServerInv
<1> QED
  BY <1>1, <1>2, PTL DEF Spec

\* At all times the flag g_ds_exists and the pointer g_datastore agree, and
\* the datastore is a sound table whose size is the number of its SIDs: for
\* every set of requests, PUT, POST, iPATCH, DELETE and restarts in any
\* order, inserts that are refused and bodies that are cut off included.
THEOREM AlwaysDatastoreSound == Spec => []DatastoreSound
<1>1. ServerInv => DatastoreSound
  BY DEF ServerInv, StoreInv, DatastoreSound, Sound, SoundOf
<1> QED
  BY <1>1, ServerInvariant, PTL

\* The types of the variables: stored values are values of the decoder, the
\* queue never outgrows its array, answers carry one of ten codes.
THEOREM ServerTypes == Spec => []TypeOK
<1>1. ServerInv => TypeOK
  <2> SUFFICES ASSUME ServerInv PROVE TypeOK
    OBVIOUS
  <2>1. ASSUME g_datastore # NoDatastore
        PROVE  /\ DOMAIN g_datastore.table = Bucket
               /\ \A b \in Bucket : \A i \in DOMAIN g_datastore.table[b] :
                    /\ g_datastore.table[b][i].key \in Key
                    /\ IsValue(g_datastore.table[b][i].value)
               /\ g_datastore.size \in Nat
    <3>1. g_datastore.table \in [Bucket -> Seq([key : Key, value : StoredValue])]
          /\ g_datastore.size \in Nat
      BY <2>1 DEF ServerInv, StoreInv, Sound, SoundOf, TableOf, NodeOf
    <3>2. ASSUME NEW b \in Bucket, NEW i \in DOMAIN g_datastore.table[b]
          PROVE  g_datastore.table[b][i] \in [key : Key, value : StoredValue]
      <4>1. g_datastore.table[b] \in Seq([key : Key, value : StoredValue])
        BY <3>1
      <4>2. i \in 1 .. Len(g_datastore.table[b])
        BY <4>1
      <4> QED BY <4>1, <4>2, ElementOfSeq
    <3>3. \A x \in [key : Key, value : StoredValue] : x.key \in Key /\ IsValue(x.value)
      BY StoredValues
    <3> QED BY <3>1, <3>2, <3>3
  <2> QED BY <2>1 DEF TypeOK, ServerInv, StoreInv, Queue, Codes
<1> QED
  BY <1>1, ServerInvariant, PTL

\* handle_put makes its command only of a text that the datastore it has just
\* installed holds under SID_PASSWORD, and no other handler runs one: whatever
\* the shell makes of a text, the account has what it makes of this one.
THEOREM PasswordsFollowPut == Spec => PasswordFollowsPut
<1>1. ServerInv /\ [Next]_vars =>
        [password' # password =>
           /\ Has(g_datastore'.table, PasswordSid)
           /\ LET v == Lookup(g_datastore'.table, PasswordSid)
              IN  v.t = "text" /\ password' = PasswordSet(v.v)]_vars
  BY NextStep, PasswordIsStored DEF Step
<1> QED
  BY <1>1, ServerInvariant, PTL DEF Spec, PasswordFollowsPut

\* After a PUT the datastore maps exactly the SIDs of the payload to the
\* last value the payload gives each of them, however long the payload is and
\* however its SIDs collide.
THEOREM PutsAreExact == Spec => PutExact
<1>1. ASSUME NEW p \in Payload, handle_put(140, p), p.kind = "map", ~ TooLong(p)
      PROVE  ContentsOf(g_datastore'.table) = Meaning(p)
  <2>1. CASE Install("PUT", 204, p)
    BY <1>1, <2>1, PutMeaning DEF Install
  <2> QED BY <1>1, <2>1, RequestAssumption DEF handle_put
<1>2. [Next]_vars =>
        [\A p \in Payload :
           /\ resp'.op = "PUT" /\ handle_put(140, p)
           /\ p.kind = "map" /\ p.closed /\ ~TooLong(p)
           => ContentsOf(g_datastore'.table) = Meaning(p)]_vars
  BY <1>1
<1> QED
  BY <1>2, PTL DEF Spec, PutExact

-----------------------------------------------------------------------------
(***************************************************************************)
(* An iPATCH and its events.                                               *)
(***************************************************************************)

\* The events of a patch that was read to its end are in front of the queue,
\* the last map's first.
LEMMA PatchInFront ==
    ASSUME NEW q \in Queue, NEW patch \in Patch, Queueable(patch)
    PROVE  \A j \in DOMAIN patch :
             /\ Len(patch) - j + 1 \in DOMAIN PushedPatch(q, patch)
             /\ PushedPatch(q, patch)[Len(patch) - j + 1] = PatchEvent(patch[j])
<1> DEFINE n == Len(patch)
<1>1. n \in Nat /\ DOMAIN patch = 1 .. n /\ \A i \in 1 .. n : patch[i] \in Range(patch)
  BY TypeAssumption DEF Range
<1>2. n <= MaxEvents /\ MaxEvents \in Nat \ {0}
  BY StreamAssumption DEF Queueable
<1>3. PICK f : PushedBy(f, n, q, patch) /\ \A k \in 0 .. n : f[k] \in Queue
  BY PatchQueue
<1>4. ASSUME NEW k \in 1 .. n
      PROVE  f[k] = Pushed(f[k - 1], PatchEvent(patch[k]))
  <2>1. f[k] = PushedIf(f[k - 1], patch[k])
    BY <1>3 DEF PushedBy
  <2>2. patch[k].closed /\ ~ (PatchEvent(patch[k]).len > BufferSize)
    BY <1>1 DEF Queueable
  <2> QED BY <2>1, <2>2 DEF PushedIf, PushedMap
<1> DEFINE T == {k \in 0 .. n : \A j \in 1 .. k : /\ k - j + 1 \in 1 .. Len(f[k])
                                                  /\ f[k][k - j + 1] = PatchEvent(patch[j])}
<1>5. 0 \in T
  BY <1>1
<1>6. ASSUME NEW k \in 1 .. n, k - 1 \in T
      PROVE  k \in T
  <2> DEFINE e == PatchEvent(patch[k])
             r == f[k - 1]
  <2>1. e \in ServerEvent
    BY <1>1 DEF ServerEvent, PatchMap
  <2>2. r \in Queue /\ f[k] \in Queue /\ f[k] = Pushed(r, e)
    BY <1>1, <1>3, <1>4
  <2>3. Len(r) \in Nat /\ Len(f[k]) \in Nat
    BY <2>2 DEF Queue
  <2>4. /\ Len(f[k]) >= 1 /\ f[k][1] = e
        /\ \A i \in 1 .. Len(r) : i < MaxEvents => i + 1 \in 1 .. Len(f[k]) /\ f[k][i + 1] = r[i]
    <3> HIDE DEF e, r
    <3> QED BY <2>1, <2>2, PushedQueue
  <2>5. ASSUME NEW j \in 1 .. k
        PROVE  k - j + 1 \in 1 .. Len(f[k]) /\ f[k][k - j + 1] = PatchEvent(patch[j])
    <3>1. CASE j = k
      <4>1. k - j + 1 = 1
        BY <3>1
      <4> QED BY <2>3, <2>4, <3>1, <4>1
    <3>2. CASE j # k
      <4>1. j \in 1 .. k - 1 /\ k - j < MaxEvents /\ (k - 1) - j + 1 = k - j
        BY <1>1, <1>2, <3>2
      <4>2. k - j \in 1 .. Len(r) /\ r[k - j] = PatchEvent(patch[j])
        BY <1>6, <4>1
      <4> HIDE DEF e, r
      <4> QED BY <2>4, <4>1, <4>2
    <3> QED BY <3>1, <3>2
  <2> QED BY <1>1, <2>5
<1>7. n \in T
  <2> HIDE DEF T, n
  <2>1. \A k \in 0 .. n : k \in T
    BY <1>1, <1>5, <1>6, Counting
  <2> QED BY <1>1, <2>1
<1>8. PushedPatch(q, patch) = f[n] /\ DOMAIN f[n] = 1 .. Len(f[n])
  BY <1>1, <1>3 DEF PushedBy, Queue
<1> QED
  BY <1>1, <1>7, <1>8

\* Whatever its tokens are, and wherever an error takes the scan, an iPATCH
\* changes no SID but those of the entries in its body, and when the body is
\* well formed and the array has room for its events one is queued for each SID
\* that changes.  What does not fit is dropped, which is only logged.
THEOREM PatchesAreAnnounced == Spec => PatchAnnounced
<1>1. ASSUME ServerInv, NEW p \in Patch, handle_ipatch(142, p), resp'.code = 204,
             NEW k \in Key, Binding(g_datastore, k) # Binding(g_datastore', k)
      PROVE  /\ k \in Named(p)
             /\ Queueable(p) =>
                  \E i \in DOMAIN g_stream_events', pm \in Range(p) :
                    /\ i <= Len(p)
                    /\ g_stream_events'[i].body = pm.items
                    /\ k \in EntrySids(pm)
  <2>1. /\ Exists
        /\ g_datastore' = apply_ipatch_raw(g_datastore, p).m
        /\ g_stream_events' = PushedPatch(g_stream_events, p)
    <3>1. p # NoBody
      BY RequestAssumption
    <3>2. ~ \E code \in {400, 404, 415} : Fail("iPATCH", code)
      BY <1>1, ReplyCode DEF Fail
    <3> QED BY <1>1, <3>1, <3>2 DEF handle_ipatch, Announce
  <2>2. g_datastore \in Sound /\ g_stream_events \in Queue
    BY <1>1, <2>1 DEF ServerInv, StoreInv, Exists
  <2>3. ~ SameAt(g_datastore, g_datastore', k)
    BY <1>1 DEF Binding, SameAt
  <2>4. k \in Named(p)
    BY <2>1, <2>2, <2>3, PatchSound
  <2>5. ASSUME Queueable(p)
        PROVE  \E i \in DOMAIN g_stream_events', pm \in Range(p) :
                 /\ i <= Len(p)
                 /\ g_stream_events'[i].body = pm.items
                 /\ k \in EntrySids(pm)
    <3>1. PICK pm \in Range(p) : k \in EntrySids(pm)
      BY <2>4 DEF Named
    <3>2. PICK j \in DOMAIN p : pm = p[j]
      BY <3>1 DEF Range
    <3>3. Len(p) \in Nat /\ j \in 1 .. Len(p)
      BY <3>2, TypeAssumption
    <3> DEFINE i == Len(p) - j + 1
    <3>4. i \in DOMAIN g_stream_events' /\ g_stream_events'[i] = PatchEvent(pm) /\ i <= Len(p)
      BY <2>1, <2>2, <2>5, <3>2, <3>3, PatchInFront
    <3>5. PatchEvent(pm).body = pm.items
      BY DEF PatchEvent
    <3> HIDE DEF i
    <3> QED BY <3>1, <3>4, <3>5
  <2> QED BY <2>4, <2>5
<1>2. ServerInv /\ [Next]_vars =>
        [\A p \in Patch :
           resp'.op = "iPATCH" /\ resp'.code = 204 /\ handle_ipatch(142, p) =>
             \A k \in Key : Binding(g_datastore, k) # Binding(g_datastore', k) =>
               /\ k \in Named(p)
               /\ Queueable(p) =>
                    \E i \in DOMAIN g_stream_events', pm \in Range(p) :
                      /\ i <= Len(p)
                      /\ g_stream_events'[i].body = pm.items
                      /\ k \in EntrySids(pm)]_vars
  BY <1>1
<1> QED
  BY <1>2, ServerInvariant, PTL DEF Spec, PatchAnnounced

-----------------------------------------------------------------------------
(***************************************************************************)
(* An iPATCH that is sent again.                                           *)
(***************************************************************************)

\* What delete and the change in place leave under their own key.
LEMMA DeletedGone ==
    ASSUME NEW V, NEW m \in SoundOf(V), NEW k \in Key
    PROVE  ~ Has(Deleted(m, k).table, k)
<1>1. m.table \in TableOf(V) /\ WellFormed(m.table)
  BY DEF SoundOf
<1>2. k \notin KeysOf(TableDelete(m.table, k))
  BY <1>1, DeleteIsMapRemove
<1> QED
  BY <1>2 DEF KeysOf, Deleted

LEMMA UpdatedFound ==
    ASSUME NEW V, NEW m \in SoundOf(V), NEW k \in Key, NEW v \in V, Has(m.table, k)
    PROVE  /\ Has(Updated(m, k, v).table, k)
           /\ Lookup(Updated(m, k, v).table, k) = v
           /\ Lookup(m.table, k) = v => Updated(m, k, v) = m
<1> DEFINE t == m.table
           c == ChainOf(t, k)
<1>1. /\ t \in TableOf(V) /\ WellFormed(t) /\ m \in [table : TableOf(V), size : Nat]
  BY DEF SoundOf
<1>2. PICK i : i \in At(c, k)
  BY DEF Has
<1>3. FirstOf(At(c, k)) = i /\ Lookup(t, k) = c[i].value
  BY <1>1, <1>2, UniquePosition
<1>4. /\ hashKey[k] \in Bucket /\ c \in Seq(NodeOf(V)) /\ Len(c) \in Nat
      /\ c[i] \in NodeOf(V) /\ c[i].key = k /\ i \in 1 .. Len(c)
  BY <1>1, <1>2, ChainType DEF At
<1> DEFINE e == [c[i] EXCEPT !.value = v]
           d == [c EXCEPT ![i] = e]
<1>5. e \in NodeOf(V) /\ e.key = k /\ e.value = v /\ (c[i].value = v => e = c[i])
  BY <1>4 DEF NodeOf
<1> HIDE DEF e
<1>6. d \in Seq(NodeOf(V)) /\ Len(d) = Len(c) /\ d[i] = e /\ (e = c[i] => d = c)
  BY <1>4, <1>5
<1> HIDE DEF d
<1>7. Updated(m, k, v) = [m EXCEPT !.table[hashKey[k]] = d]
  BY <1>3 DEF Updated, d, e
<1> DEFINE u == [t EXCEPT ![hashKey[k]] = d]
<1>8. Updated(m, k, v).table = u /\ u[hashKey[k]] = d /\ (d = c => Updated(m, k, v) = m)
  BY <1>1, <1>4, <1>7 DEF TableOf, ChainOf
<1> HIDE DEF u
<1>9. ChainOf(u, k) = d
  BY <1>8 DEF ChainOf
<1>10. Updated(m, k, v) \in SoundOf(V)
  BY UpdatedSound
<1>11. u \in TableOf(V) /\ WellFormed(u)
  BY <1>8, <1>10 DEF SoundOf
<1>12. i \in At(ChainOf(u, k), k)
  BY <1>4, <1>5, <1>6, <1>9 DEF At
<1>13. Has(u, k) /\ Lookup(u, k) = d[i].value
  BY <1>9, <1>11, <1>12, UniquePosition
<1> QED
  BY <1>3, <1>5, <1>6, <1>8, <1>13

\* An insert of the value that is there changes nothing, also when it is
\* refused because the key is too deep in its chain.
LEMMA InsertedAgain ==
    ASSUME NEW V, NEW m \in SoundOf(V), NEW k \in Key, Has(m.table, k)
    PROVE  Inserted(m, k, Lookup(m.table, k)) = m
<1> DEFINE t == m.table
           c == ChainOf(t, k)
           v == Lookup(t, k)
<1>1. /\ t \in TableOf(V) /\ WellFormed(t) /\ m \in [table : TableOf(V), size : Nat]
  BY DEF SoundOf
<1>2. PICK i : i \in At(c, k)
  BY DEF Has
<1>3. At(c, k) = {i} /\ v = c[i].value
  BY <1>1, <1>2, UniquePosition
<1>4. /\ hashKey[k] \in Bucket /\ c \in Seq(NodeOf(V)) /\ Len(c) \in Nat
      /\ c[i] \in NodeOf(V) /\ c[i].key = k /\ i \in 1 .. Len(c)
  BY <1>1, <1>2, ChainType DEF At
<1>5. c[i] = [key |-> k, value |-> v]
  BY <1>3, <1>4 DEF NodeOf
<1>6. Hit(c, k) = {} => GivesUp(c, k)
  <2> SUFFICES ASSUME Hit(c, k) = {}
               PROVE  Len(c) > MaxLoop + 1
    BY DEF GivesUp
  <2>1. ~ (i <= MaxLoop + 1)
    BY <1>3 DEF Hit
  <2>2. MaxLoop \in Nat
    BY TableAssumption
  <2> HIDE DEF c
  <2> QED BY <1>4, <2>1, <2>2
<1>7. Hit(c, k) # {} => FirstOf(Hit(c, k)) = i
  <2> SUFFICES ASSUME Hit(c, k) # {}
               PROVE  FirstOf(Hit(c, k)) = i
    OBVIOUS
  <2>1. Hit(c, k) = {i}
    BY <1>3 DEF Hit
  <2> QED BY <1>4, <2>1 DEF FirstOf
<1>8. InsertInChain(c, k, v) = c
  <2>1. CASE Hit(c, k) = {}
    BY <1>6, <2>1 DEF InsertInChain
  <2>2. CASE Hit(c, k) # {}
    <3>1. InsertInChain(c, k, v) = [j \in 1 .. Len(c) |-> IF j = i THEN c[i] ELSE c[j]]
      BY <1>5, <1>7, <2>2 DEF InsertInChain
    <3> QED BY <1>4, <3>1
  <2> QED BY <2>1, <2>2
<1>9. TableInsert(t, k, v) = t
  BY <1>1, <1>4, <1>8 DEF TableInsert, TableOf, ChainOf
<1>10. ~ Links(t, k)
  BY <1>6 DEF Links, Refuses
<1> QED
  BY <1>1, <1>9, <1>10 DEF Inserted, SizeAfterInsert

\* The entries of a list after an item that addresses one of them: the item's
\* value is there, or nothing that its key matches.
EntrySettled(s, it) ==
    IF it.value.t = "null" THEN Matching(s, it.key) = {} ELSE \E i \in DOMAIN s : s[i] = it.value

OneMatch(s, key) == \A i, j \in Matching(s, key) : i = j

\* An entry that is written carries the key it is written under.
CarriesKey(it) == it.value.t # "null" => EntryMatches(it.value, it.key)

\* An item settles its entry, keeps keys that its value does not carry as they
\* were, and every entry that its own key does not match.
LEMMA EntriesSettle ==
    ASSUME NEW E, NEW s \in Seq(E), NEW it, it.value \in E,
           OneMatch(s, it.key), CarriesKey(it)
    PROVE  LET q == EntriesPatched(s, it)
           IN  /\ EntrySettled(q, it) /\ OneMatch(q, it.key)
               /\ \A k : (it.value.t # "null" => ~ EntryMatches(it.value, k)) =>
                    /\ OneMatch(s, k) => OneMatch(q, k)
                    /\ Matching(s, k) = {} => Matching(q, k) = {}
               /\ \A v : ~ EntryMatches(v, it.key) /\ (\E i \in DOMAIN s : s[i] = v) =>
                    \E i \in DOMAIN q : q[i] = v
<1> DEFINE hits == Matching(s, it.key)
           q == EntriesPatched(s, it)
<1>1. /\ Len(s) \in Nat /\ DOMAIN s = 1 .. Len(s) /\ hits \subseteq 1 .. Len(s)
      /\ \A i \in 1 .. Len(s) : i \in hits <=> EntryMatches(s[i], it.key)
  BY DEF Matching
<1>2. CASE hits = {} /\ it.value.t = "null"
  <2>1. q = s
    BY <1>2 DEF EntriesPatched
  <2> QED BY <1>2, <2>1 DEF EntrySettled
<1>3. CASE hits = {} /\ it.value.t # "null"
  <2>1. q = Append(s, it.value)
    BY <1>3 DEF EntriesPatched
  <2> HIDE DEF q
  <2>2. /\ DOMAIN q = 1 .. Len(s) + 1 /\ q[Len(s) + 1] = it.value
        /\ \A i \in 1 .. Len(s) : q[i] = s[i]
    BY <1>1, <2>1
  <2>3. EntrySettled(q, it)
    BY <1>1, <1>3, <2>2 DEF EntrySettled
  <2>4. Matching(q, it.key) = {Len(s) + 1}
    <3>1. \A i \in 1 .. Len(s) : ~ EntryMatches(q[i], it.key)
      BY <1>1, <1>3, <2>2
    <3>2. EntryMatches(q[Len(s) + 1], it.key)
      BY <1>3, <2>2 DEF CarriesKey
    <3> HIDE DEF hits
    <3> QED BY <1>1, <2>2, <3>1, <3>2 DEF Matching
  <2>5. ASSUME NEW k, ~ EntryMatches(it.value, k)
        PROVE  Matching(q, k) = Matching(s, k)
    <3>1. \A i \in 1 .. Len(s) : EntryMatches(q[i], k) <=> EntryMatches(s[i], k)
      BY <2>2
    <3>2. ~ EntryMatches(q[Len(s) + 1], k)
      BY <2>2, <2>5
    <3> HIDE DEF hits
    <3> QED BY <1>1, <2>2, <3>1, <3>2 DEF Matching
  <2>6. \A i \in DOMAIN s : i \in DOMAIN q /\ q[i] = s[i]
    BY <1>1, <2>2
  <2> QED BY <1>3, <2>3, <2>4, <2>5, <2>6 DEF OneMatch, q
<1>4. ASSUME hits # {}
      PROVE  FirstOf(hits) \in hits /\ hits = {FirstOf(hits)}
  <2> HIDE DEF hits
  <2>1. FirstOf(hits) \in hits
    BY <1>1, <1>4, FirstOfPositions
  <2> QED BY <2>1 DEF OneMatch, hits
<1>5. CASE hits # {} /\ it.value.t # "null"
  <2> DEFINE h == FirstOf(hits)
  <2>1. q = [s EXCEPT ![h] = it.value]
    BY <1>5 DEF EntriesPatched
  <2>2. h \in 1 .. Len(s) /\ hits = {h} /\ EntryMatches(s[h], it.key)
    BY <1>1, <1>4, <1>5
  <2> HIDE DEF q, h, hits
  <2>3. /\ DOMAIN q = 1 .. Len(s) /\ q[h] = it.value
        /\ \A i \in 1 .. Len(s) : i # h => q[i] = s[i]
    BY <1>1, <2>1, <2>2
  <2>4. EntrySettled(q, it)
    BY <1>5, <2>2, <2>3 DEF EntrySettled
  <2>5. Matching(q, it.key) = {h}
    <3>1. \A i \in 1 .. Len(s) : i # h => ~ EntryMatches(q[i], it.key)
      BY <1>1, <2>2, <2>3
    <3>2. EntryMatches(q[h], it.key)
      BY <1>5, <2>3 DEF CarriesKey
    <3> QED BY <2>2, <2>3, <3>1, <3>2 DEF Matching
  <2>6. ASSUME NEW k, ~ EntryMatches(it.value, k)
        PROVE  Matching(q, k) \subseteq Matching(s, k)
    <3>1. \A i \in 1 .. Len(s) : EntryMatches(q[i], k) => EntryMatches(s[i], k)
      BY <2>3, <2>6
    <3> QED BY <1>1, <2>3, <3>1 DEF Matching
  <2>7. ASSUME NEW v, ~ EntryMatches(v, it.key), NEW i \in DOMAIN s, s[i] = v
        PROVE  i \in DOMAIN q /\ q[i] = v
    BY <1>1, <2>2, <2>3, <2>7
  <2> QED BY <1>5, <2>4, <2>5, <2>6, <2>7 DEF OneMatch, q
<1>6. CASE hits # {} /\ it.value.t = "null"
  <2> DEFINE h == FirstOf(hits)
  <2>1. q = Unlink(s, h)
    BY <1>6 DEF EntriesPatched
  <2>2. h \in 1 .. Len(s) /\ hits = {h} /\ EntryMatches(s[h], it.key)
    BY <1>1, <1>4, <1>6
  <2> HIDE DEF q, h, hits
  <2> DEFINE Old(j) == IF j < h THEN j ELSE j + 1
  <2>3. /\ DOMAIN q = 1 .. Len(s) - 1
        /\ \A j \in 1 .. Len(s) - 1 : /\ Old(j) \in 1 .. Len(s) /\ Old(j) # h
                                      /\ q[j] = s[Old(j)]
        /\ \A i, j \in 1 .. Len(s) - 1 : Old(i) = Old(j) => i = j
    <3>1. q \in Seq(E) /\ Len(q) = Len(s) - 1
          /\ \A j \in 1 .. Len(s) - 1 : q[j] = IF j < h THEN s[j] ELSE s[j + 1]
      BY <2>1, <2>2, UnlinkChain
    <3>2. DOMAIN q = 1 .. Len(s) - 1
      BY <3>1
    <3>3. \A j \in 1 .. Len(s) - 1 : Old(j) \in 1 .. Len(s) /\ Old(j) # h
      BY <1>1, <2>2
    <3>4. \A i, j \in 1 .. Len(s) - 1 : Old(i) = Old(j) => i = j
      BY <1>1, <2>2
    <3>5. \A j \in 1 .. Len(s) - 1 : q[j] = s[Old(j)]
      BY <3>1
    <3> QED BY <3>2, <3>3, <3>4, <3>5
  <2>4. \A i \in 1 .. Len(s) : i # h => \E j \in 1 .. Len(s) - 1 : Old(j) = i
    <3> SUFFICES ASSUME NEW i \in 1 .. Len(s), i # h
                 PROVE  \E j \in 1 .. Len(s) - 1 : Old(j) = i
      OBVIOUS
    <3>1. CASE i < h
      <4>1. i \in 1 .. Len(s) - 1 /\ Old(i) = i
        BY <1>1, <2>2, <3>1
      <4> QED BY <4>1
    <3>2. CASE i > h
      <4>1. i - 1 \in 1 .. Len(s) - 1 /\ Old(i - 1) = i
        BY <1>1, <2>2, <3>2
      <4> QED BY <4>1
    <3> QED BY <1>1, <2>2, <3>1, <3>2
  <2> HIDE DEF Old
  <2>5. Matching(q, it.key) = {}
    <3>1. \A j \in 1 .. Len(s) - 1 : ~ EntryMatches(q[j], it.key)
      BY <1>1, <2>2, <2>3
    <3> QED BY <2>3, <3>1 DEF Matching
  <2>6. ASSUME NEW k
        PROVE  /\ OneMatch(s, k) => OneMatch(q, k)
               /\ Matching(s, k) = {} => Matching(q, k) = {}
    <3>1. \A j \in Matching(q, k) : Old(j) \in Matching(s, k) /\ j \in 1 .. Len(s) - 1
      BY <1>1, <2>3 DEF Matching
    <3> QED BY <2>3, <3>1 DEF OneMatch
  <2>7. ASSUME NEW v, ~ EntryMatches(v, it.key), NEW i \in DOMAIN s, s[i] = v
        PROVE  \E j \in DOMAIN q : q[j] = v
    <3>1. i \in 1 .. Len(s) /\ i # h
      BY <1>1, <2>2, <2>7
    <3>2. PICK j \in 1 .. Len(s) - 1 : Old(j) = i
      BY <2>4, <3>1
    <3> QED BY <2>3, <2>7, <3>2
  <2> QED BY <1>6, <2>5, <2>6, <2>7 DEF EntrySettled, OneMatch, q
<1> QED
  BY <1>2, <1>3, <1>5, <1>6

\* An item changes nothing in a list where it is settled.
LEMMA EntriesAgain ==
    ASSUME NEW E, NEW s \in Seq(E), NEW it,
           OneMatch(s, it.key), CarriesKey(it), EntrySettled(s, it)
    PROVE  EntriesPatched(s, it) = s
<1> DEFINE hits == Matching(s, it.key)
<1>1. CASE it.value.t = "null"
  BY <1>1 DEF EntrySettled, EntriesPatched
<1>2. CASE it.value.t # "null"
  <2>1. PICK i \in DOMAIN s : s[i] = it.value
    BY <1>2 DEF EntrySettled
  <2>2. i \in hits
    BY <1>2, <2>1 DEF CarriesKey, Matching
  <2>3. hits = {i} /\ i \in 1 .. Len(s) /\ i \in Nat
    BY <2>2 DEF OneMatch, Matching
  <2> HIDE DEF hits
  <2>4. FirstOf(hits) = i
    BY <2>3 DEF FirstOf
  <2>5. EntriesPatched(s, it) = [s EXCEPT ![i] = it.value]
    BY <1>2, <2>3, <2>4 DEF EntriesPatched, hits
  <2> QED BY <2>1, <2>5
<1> QED
  BY <1>1, <1>2

\* An item of a patch has nothing left to do in the datastore m.
Settled(m, it) ==
    /\ it.kind = "sid" =>
         IF it.value.t = "null" THEN ~ Has(m.table, it.sid)
         ELSE /\ Has(m.table, it.sid)
              /\ \/ Lookup(m.table, it.sid) = it.value
                 \/ it.value.t = "map" /\ Lookup(m.table, it.sid) = List(<<it.value>>)
    /\ it.kind = "inst" /\ ListAt(m, it.sid) =>
         /\ Lookup(m.table, it.sid) = List(Lookup(m.table, it.sid).s)
         /\ EntrySettled(Lookup(m.table, it.sid).s, it)

\* No list has two entries for the key of an item.
Single(m, it) ==
    it.kind = "inst" /\ ListAt(m, it.sid) => OneMatch(Lookup(m.table, it.sid).s, it.key)

AllSettled(m, D) == \A it \in D : Settled(m, it)
AllSingle(m, I) == \A it \in I : Single(m, it)

\* Items that name each SID once, or different entries of the list there.
Apart(I) ==
    \A a, b \in I : a # b /\ a.sid = b.sid =>
      a.kind = "inst" /\ b.kind = "inst" /\ a.key # b.key

\* Items that use list keys as keys.
Keyed(I) ==
    \A a \in I : a.kind = "inst" =>
      /\ CarriesKey(a)
      /\ \A b \in I : b.kind = "inst" /\ b.key # a.key /\ a.value.t # "null" =>
           ~ EntryMatches(a.value, b.key)

\* An item sees of the datastore what is under its SID.
LEMMA SettledSame ==
    ASSUME NEW m, NEW n, NEW it, SameAt(m, n, it.sid)
    PROVE  /\ Settled(m, it) => Settled(n, it)
           /\ Single(m, it) => Single(n, it)
<1>1. Has(n.table, it.sid) = Has(m.table, it.sid)
      /\ (Has(m.table, it.sid) => Lookup(n.table, it.sid) = Lookup(m.table, it.sid))
  BY DEF SameAt
<1>2. ListAt(n, it.sid) <=> ListAt(m, it.sid)
  BY <1>1 DEF ListAt
<1>3. Settled(m, it) => Settled(n, it)
  BY <1>1, <1>2 DEF Settled, ListAt
<1>4. Single(m, it) => Single(n, it)
  BY <1>1, <1>2 DEF Single, ListAt
<1> QED
  BY <1>3, <1>4

\* The step of a { SID: value } item.
LEMMA SidSettles ==
    ASSUME NEW m \in Sound, NEW it \in PatchItem, it.kind = "sid",
           it.value.t # "null" => ~ Refuses(m.table, it.sid)
    PROVE  Settled(SidPatched(m, it), it) /\ Single(SidPatched(m, it), it)
<1>1. it.sid \in Key /\ it.value \in StoredValue /\ it.value \in ListEntry
  BY RequestValues, StoredValues
<1>2. List(<<it.value>>) \in StoredValue
  <2>1. <<it.value>> \in Seq(ListEntry)
    BY <1>1
  <2> QED BY <2>1, StoredValues
<1> DEFINE n == SidPatched(m, it)
<1>3. CASE it.value.t = "null"
  <2>1. ~ Has(n.table, it.sid)
    BY <1>1, <1>3, DeletedGone DEF SidPatched, Sound
  <2> HIDE DEF n
  <2> QED BY <1>3, <2>1 DEF Settled, Single, n
<1>4. CASE it.value.t # "null" /\ ListAt(m, it.sid) /\ it.value.t = "map"
  <2>1. Has(n.table, it.sid) /\ Lookup(n.table, it.sid) = List(<<it.value>>)
    BY <1>1, <1>2, <1>4, InsertedSound DEF SidPatched, Sound
  <2> HIDE DEF n
  <2> QED BY <1>4, <2>1 DEF Settled, Single, n
<1>5. CASE it.value.t # "null" /\ ~ (ListAt(m, it.sid) /\ it.value.t = "map")
  <2>1. Has(n.table, it.sid) /\ Lookup(n.table, it.sid) = it.value
    BY <1>1, <1>5, InsertedSound DEF SidPatched, Sound
  <2> HIDE DEF n
  <2> QED BY <1>5, <2>1 DEF Settled, Single, n
<1> QED
  BY <1>3, <1>4, <1>5

\* The step of a { [SID, key]: value } item, for itself and for the other
\* items of the same list.
LEMMA InstSettles ==
    ASSUME NEW m \in Sound, NEW it \in PatchItem, it.kind = "inst",
           CarriesKey(it), Single(m, it)
    PROVE  /\ Settled(InstPatched(m, it), it) /\ Single(InstPatched(m, it), it)
           /\ \A d : d.kind = "inst" /\ d.sid = it.sid /\ d.key # it.key /\ CarriesKey(d)
                     /\ (it.value.t # "null" => ~ EntryMatches(it.value, d.key))
                     /\ (d.value.t # "null" => ~ EntryMatches(d.value, it.key)) =>
                /\ Settled(m, d) => Settled(InstPatched(m, it), d)
                /\ Single(m, d) => Single(InstPatched(m, it), d)
<1>1. it.sid \in Key /\ it.value \in ListEntry
  BY RequestValues, StoredValues
<1>2. CASE ~ ListAt(m, it.sid)
  BY <1>2 DEF InstPatched, Settled, Single
<1>3. CASE ListAt(m, it.sid)
  <2> DEFINE s == Lookup(m.table, it.sid).s
             q == EntriesPatched(s, it)
             n == InstPatched(m, it)
  <2>1. Has(m.table, it.sid) /\ Lookup(m.table, it.sid).t = "list"
    BY <1>3 DEF ListAt
  <2>2. s \in Seq(ListEntry)
    BY <1>1, <2>1, FoundValue, StoredValues
  <2>3. OneMatch(s, it.key)
    BY <1>3 DEF Single
  <2>4. q \in Seq(ListEntry) /\ List(q) \in StoredValue
    BY <1>1, <2>2, EntriesType, StoredValues
  <2> HIDE DEF s
  <2>5. /\ EntrySettled(q, it) /\ OneMatch(q, it.key)
        /\ \A k : (it.value.t # "null" => ~ EntryMatches(it.value, k)) =>
             /\ OneMatch(s, k) => OneMatch(q, k)
             /\ Matching(s, k) = {} => Matching(q, k) = {}
        /\ \A v : ~ EntryMatches(v, it.key) /\ (\E i \in DOMAIN s : s[i] = v) =>
             \E i \in DOMAIN q : q[i] = v
    BY <1>1, <2>2, <2>3, EntriesSettle
  <2>6. n = Updated(m, it.sid, List(q))
    BY <1>3 DEF InstPatched, s
  <2> HIDE DEF q, n
  <2>7. Has(n.table, it.sid) /\ Lookup(n.table, it.sid) = List(q)
    BY <1>1, <2>1, <2>4, <2>6, UpdatedFound DEF Sound
  <2>8. ListAt(n, it.sid) /\ Lookup(n.table, it.sid).s = q
    BY <2>7 DEF ListAt, List
  <2>9. Settled(n, it) /\ Single(n, it)
    BY <2>5, <2>7, <2>8 DEF Settled, Single
  <2>10. ASSUME NEW d, d.kind = "inst", d.sid = it.sid, d.key # it.key, CarriesKey(d),
                it.value.t # "null" => ~ EntryMatches(it.value, d.key),
                d.value.t # "null" => ~ EntryMatches(d.value, it.key)
         PROVE  /\ Settled(m, d) => Settled(n, d)
                /\ Single(m, d) => Single(n, d)
    <3>1. Single(m, d) => Single(n, d)
      BY <1>3, <2>5, <2>8, <2>10 DEF Single, s
    <3>2. ASSUME Settled(m, d)
          PROVE  Settled(n, d)
      <4>1. EntrySettled(s, d)
        BY <1>3, <2>10, <3>2 DEF Settled, s
      <4>2. EntrySettled(q, d)
        <5>1. CASE d.value.t = "null"
          <6>1. Matching(s, d.key) = {}
            BY <4>1, <5>1 DEF EntrySettled
          <6> QED BY <2>5, <2>10, <5>1, <6>1 DEF EntrySettled
        <5>2. CASE d.value.t # "null"
          <6>1. \E i \in DOMAIN s : s[i] = d.value
            BY <4>1, <5>2 DEF EntrySettled
          <6>2. \E i \in DOMAIN q : q[i] = d.value
            BY <2>5, <2>10, <5>2, <6>1
          <6> QED BY <5>2, <6>2 DEF EntrySettled
        <5> QED BY <5>1, <5>2
      <4> QED BY <2>7, <2>8, <2>10, <4>2 DEF Settled
    <3> QED BY <3>1, <3>2
  <2> QED BY <2>9, <2>10 DEF n
<1> QED
  BY <1>2, <1>3

\* A loop of n rounds, round i being the function g[i], has a run.
Runs(f, n, base, g) ==
    f = [i \in 0 .. n |-> IF i = 0 THEN base ELSE g[i][f[i - 1]]]

\* There is a run of every loop whose rounds lead from S to S.
LEMMA RunExists ==
    ASSUME NEW S, NEW n \in Nat, NEW base \in S, NEW g \in [1 .. n -> [S -> S]]
    PROVE  \E f : f \in [0 .. n -> S] /\ Runs(f, n, base, g)
<1> DEFINE Good(k, f) == f \in [0 .. k -> S] /\ Runs(f, k, base, g)
           T == {k \in 0 .. n : \E f : Good(k, f)}
<1>1. 0 \in T
  <2>1. Good(0, [i \in 0 .. 0 |-> base])
    BY DEF Runs
  <2>2. 0 \in 0 .. n
    OBVIOUS
  <2> HIDE DEF Good
  <2> QED BY <2>1, <2>2
<1>2. ASSUME NEW k \in 1 .. n, k - 1 \in T
      PROVE  k \in T
  <2>1. PICK old : Good(k - 1, old)
    BY <1>2
  <2> DEFINE f == [i \in 0 .. k |-> IF i = k THEN g[k][old[k - 1]] ELSE old[i]]
  <2>2. g[k] \in [S -> S] /\ old[k - 1] \in S /\ k # 0
    BY <2>1
  <2>3. \A i \in 0 .. k : i # k => i \in 0 .. k - 1
    OBVIOUS
  <2>4. f \in [0 .. k -> S]
    BY <2>1, <2>2, <2>3
  <2>5. ASSUME NEW i \in 0 .. k
        PROVE  f[i] = IF i = 0 THEN base ELSE g[i][f[i - 1]]
    <3>1. CASE i = k
      <4>1. k - 1 \in 0 .. k /\ k - 1 # k
        OBVIOUS
      <4>2. f[k - 1] = old[k - 1]
        BY <4>1
      <4> QED BY <2>2, <3>1, <4>2
    <3>2. CASE i # k
      <4>1. i \in 0 .. k - 1 /\ f[i] = old[i]
        BY <3>2
      <4>2. old[i] = IF i = 0 THEN base ELSE g[i][old[i - 1]]
        BY <2>1, <4>1 DEF Runs
      <4>3. i # 0 => i - 1 \in 0 .. k /\ i - 1 # k
        BY <4>1
      <4>4. i # 0 => f[i - 1] = old[i - 1]
        BY <4>3
      <4> QED BY <4>1, <4>2, <4>4
    <3> QED BY <3>1, <3>2
  <2> HIDE DEF f
  <2>6. f = [i \in 0 .. k |-> f[i]]
    BY <2>4
  <2>7. Runs(f, k, base, g)
    BY <2>5, <2>6 DEF Runs
  <2>8. k \in 0 .. n
    OBVIOUS
  <2>9. Good(k, f)
    BY <2>4, <2>7
  <2> HIDE DEF Good
  <2> QED BY <2>8, <2>9
<1>3. n \in T
  <2> HIDE DEF T
  <2>1. \A k \in 1 .. n : k - 1 \in T => k \in T
    BY <1>2
  <2>2. \A k \in 0 .. n : k \in T
    BY <1>1, <2>1, Counting
  <2> QED BY <2>2
<1> QED
  BY <1>3

\* Before and after an item.
Ready(I, D, acc, it) ==
    /\ I \in SUBSET PatchItem /\ Apart(I) /\ Keyed(I) /\ D \in SUBSET I
    /\ acc \in Applying /\ acc.at = "key" /\ it \in I /\ it \notin D
    /\ AllSettled(acc.m, D) /\ AllSingle(acc.m, I)
    /\ it.kind = "sid" /\ it.value.t # "null" => ~ Refuses(acc.m.table, it.sid)
Done(I, D, acc) == AllSettled(acc.m, D) /\ AllSingle(acc.m, I)

\* Applying an item settles it and leaves the others settled.
LEMMA EntrySettles ==
    ASSUME NEW I, NEW D, NEW acc, NEW it, Ready(I, D, acc, it)
    PROVE  Done(I, D \cup {it}, EntryApplied(acc, it))
<1>0. /\ I \in SUBSET PatchItem /\ Apart(I) /\ Keyed(I) /\ D \in SUBSET I
      /\ acc \in Applying /\ acc.at = "key" /\ it \in I /\ it \notin D
      /\ AllSettled(acc.m, D) /\ AllSingle(acc.m, I)
      /\ it.kind = "sid" /\ it.value.t # "null" => ~ Refuses(acc.m.table, it.sid)
  BY DEF Ready
<1> USE <1>0
<1> DEFINE n == EntryApplied(acc, it).m
<1>1. acc.m \in Sound /\ it \in PatchItem /\ it.kind \in {"sid", "inst"} /\ IsToken(it)
  BY RequestValues DEF Applying, IsToken, TokenKind, EntryKind
<1>2. \A x \in Key : x # it.sid => SameAt(acc.m, n, x)
  BY <1>1, EntrySound
<1>3. /\ it.kind = "sid" => n = SidPatched(acc.m, it)
      /\ it.kind = "inst" => n = InstPatched(acc.m, it)
  BY <1>1 DEF EntryApplied, Patched
<1> HIDE DEF n
<1>4. Settled(n, it) /\ Single(n, it)
  <2>1. CASE it.kind = "sid"
    BY <1>1, <1>3, <2>1, SidSettles
  <2>2. CASE it.kind = "inst"
    BY <1>1, <1>3, <2>2, InstSettles DEF Keyed, AllSingle
  <2> QED BY <1>1, <2>1, <2>2
<1>5. ASSUME NEW d \in I, d # it
      PROVE  (Settled(acc.m, d) => Settled(n, d)) /\ (Single(acc.m, d) => Single(n, d))
  <2>1. CASE d.sid # it.sid
    <3>1. d.sid \in Key
      BY RequestValues
    <3> QED BY <1>2, <2>1, <3>1, SettledSame
  <2>2. CASE d.sid = it.sid
    <3>1. d.kind = "inst" /\ it.kind = "inst" /\ d.key # it.key
      BY <1>5, <2>2 DEF Apart
    <3>2. /\ CarriesKey(d) /\ CarriesKey(it)
          /\ it.value.t # "null" => ~ EntryMatches(it.value, d.key)
          /\ d.value.t # "null" => ~ EntryMatches(d.value, it.key)
      BY <3>1 DEF Keyed
    <3>3. Single(acc.m, it)
      BY DEF AllSingle
    <3> QED BY <1>1, <1>3, <2>2, <3>1, <3>2, <3>3, InstSettles
  <2> QED BY <2>1, <2>2
<1> QED
  BY <1>3, <1>4, <1>5 DEF n, AllSettled, AllSingle, Done

\* Applying an item that is settled changes nothing.
LEMMA EntryAgain ==
    ASSUME NEW acc \in Applying, NEW it \in PatchItem, Settled(acc.m, it), Single(acc.m, it),
           it.kind = "inst" => CarriesKey(it)
    PROVE  EntryApplied(acc, it).m = acc.m
<1> DEFINE m == acc.m
<1>1. m \in Sound /\ it.sid \in Key /\ it.kind \in {"sid", "inst"}
  BY RequestValues DEF Applying
<1>2. ASSUME it.kind = "sid"
      PROVE  SidPatched(m, it) = m
  <2>1. CASE it.value.t = "null"
    <3>1. ~ Has(m.table, it.sid)
      BY <1>2, <2>1 DEF Settled
    <3>2. m = [table |-> m.table, size |-> m.size]
      BY <1>1 DEF Sound, SoundOf
    <3> QED BY <2>1, <3>1, <3>2 DEF SidPatched, Deleted, TableDelete, SizeAfterDelete
  <2>2. CASE it.value.t # "null"
    <3>1. /\ Has(m.table, it.sid)
          /\ \/ Lookup(m.table, it.sid) = it.value
             \/ it.value.t = "map" /\ Lookup(m.table, it.sid) = List(<<it.value>>)
      BY <1>2, <2>2 DEF Settled
    <3>2. Inserted(m, it.sid, Lookup(m.table, it.sid)) = m
      BY <1>1, <3>1, InsertedAgain DEF Sound
    <3>3. SidPatched(m, it) = Inserted(m, it.sid, Lookup(m.table, it.sid))
      <4>1. CASE Lookup(m.table, it.sid) = it.value
        <5>1. ~ (ListAt(m, it.sid) /\ it.value.t = "map")
          BY <4>1 DEF ListAt
        <5> QED BY <2>2, <4>1, <5>1 DEF SidPatched
      <4>2. CASE it.value.t = "map" /\ Lookup(m.table, it.sid) = List(<<it.value>>)
        <5>1. ListAt(m, it.sid)
          BY <3>1, <4>2 DEF ListAt, List
        <5> QED BY <2>2, <4>2, <5>1 DEF SidPatched
      <4> QED BY <3>1, <4>1, <4>2
    <3> QED BY <3>2, <3>3
  <2> QED BY <2>1, <2>2
<1>3. ASSUME it.kind = "inst"
      PROVE  InstPatched(m, it) = m
  <2>1. CASE ~ ListAt(m, it.sid)
    BY <2>1 DEF InstPatched
  <2>2. CASE ListAt(m, it.sid)
    <3> DEFINE s == Lookup(m.table, it.sid).s
    <3>1. Has(m.table, it.sid) /\ Lookup(m.table, it.sid).t = "list"
      BY <2>2 DEF ListAt
    <3>2. s \in Seq(ListEntry) /\ Lookup(m.table, it.sid) \in StoredValue
      BY <1>1, <3>1, FoundValue, StoredValues
    <3>3. OneMatch(s, it.key) /\ EntrySettled(s, it) /\ Lookup(m.table, it.sid) = List(s)
      BY <1>3, <2>2 DEF Settled, Single
    <3>4. EntriesPatched(s, it) = s
      <4> HIDE DEF s
      <4> QED BY <1>3, <3>2, <3>3, EntriesAgain
    <3>5. Updated(m, it.sid, List(s)) = m
      BY <1>1, <3>1, <3>2, <3>3, UpdatedFound DEF Sound
    <3> QED BY <2>2, <3>4, <3>5 DEF InstPatched
  <2> QED BY <2>1, <2>2
<1> QED
  BY <1>1, <1>2, <1>3 DEF EntryApplied, Patched

Unnoted(m) == [a |-> Start(m), r |-> {}]
Noted(m, patch) == FoldLeft(RefusalsNoted, Unnoted(m), patch)

\* The refusals of one map of a patch.
NotedBy(f, n, noted, pm) ==
    /\ f[0] = noted
    /\ \A k \in 1 .. n : f[k] = RefusalNoted(f[k - 1], pm.items[k])
    /\ RefusalsNoted(noted, pm) = f[n]

\* They are noted entry by entry.
LEMMA NotedMapFold ==
    ASSUME NEW S, NEW n \in Nat, NEW pm, NEW noted,
           DOMAIN pm.items = 1 .. n, noted \in S,
           \A x \in S : \A i \in 1 .. n : RefusalNoted(x, pm.items[i]) \in S
    PROVE  \E f : NotedBy(f, n, noted, pm)
<1> DEFINE g == [i \in 1 .. n |-> [x \in S |-> RefusalNoted(x, pm.items[i])]]
           Eq(h) == h = [y \in SUBSET (1 .. n) |->
                           IF y = {} THEN noted
                           ELSE RefusalNoted(h[y \ {Max(y)}], pm.items[Max(y)])]
<1>1. g \in [1 .. n -> [S -> S]]
  OBVIOUS
<1>2. PICK it : IsFold(it, S, n, noted, g)
  <2> HIDE DEF g
  <2> QED BY <1>1, FoldExists
<1>3. Eq(it)
  <2>1. ASSUME NEW y \in SUBSET (1 .. n), y # {}
        PROVE  it[y] = RefusalNoted(it[y \ {Max(y)}], pm.items[Max(y)])
    <3>1. Max(y) \in 1 .. n
      BY <2>1, MaxOfPositions
    <3>2. it[y \ {Max(y)}] \in S
      BY <1>2 DEF IsFold
    <3> QED BY <1>2, <2>1, <3>1, <3>2 DEF IsFold
  <2>2. it[{}] = noted /\ it \in [SUBSET (1 .. n) -> S]
    BY <1>2 DEF IsFold
  <2> QED BY <2>1, <2>2
<1>4. PICK h : Eq(h) /\ RefusalsNoted(noted, pm) = h[1 .. n]
  <2>1. RefusalsNoted(noted, pm) = (CHOOSE h : h = [y \in SUBSET (DOMAIN pm.items) |->
                    IF y = {} THEN noted
                           ELSE RefusalNoted(h[y \ {Max(y)}], pm.items[Max(y)])])[DOMAIN pm.items]
    BY Zenon DEF RefusalsNoted, FoldLeft, MapThenFoldSet
  <2>2. RefusalsNoted(noted, pm) = (CHOOSE h : Eq(h))[1 .. n]
    BY <2>1
  <2>3. Eq(CHOOSE h : Eq(h))
    <3> HIDE DEF Eq
    <3> QED BY <1>3
  <2> QED BY <2>2, <2>3
<1> DEFINE f == [k \in 0 .. n |-> h[1 .. k]]
<1>5. f[0] = noted
  <2>1. 1 .. 0 = {} /\ {} \in SUBSET (1 .. n)
    OBVIOUS
  <2> QED BY <1>4, <2>1
<1>6. ASSUME NEW k \in 1 .. n
      PROVE  f[k] = RefusalNoted(f[k - 1], pm.items[k])
  <2>1. k \in 0 .. n /\ k - 1 \in 0 .. n
    OBVIOUS
  <2>2. h[1 .. k] = RefusalNoted(h[1 .. k - 1], pm.items[k])
    BY <1>4, UpTo
  <2> QED BY <2>1, <2>2
<1>7. RefusalsNoted(noted, pm) = f[n]
  <2>1. n \in 0 .. n
    OBVIOUS
  <2> QED BY <1>4, <2>1
<1> HIDE DEF f
<1> QED BY <1>5, <1>6, <1>7 DEF NotedBy

\* The refusals of a patch.
NotedByMaps(f, n, m, patch) ==
    /\ f[0] = Unnoted(m)
    /\ \A k \in 1 .. n : f[k] = RefusalsNoted(f[k - 1], patch[k])
    /\ Noted(m, patch) = f[n]

\* They are noted map by map.
LEMMA NotedFold ==
    ASSUME NEW S, NEW n \in Nat, NEW patch, NEW m,
           DOMAIN patch = 1 .. n, Unnoted(m) \in S,
           \A x \in S : \A i \in 1 .. n : RefusalsNoted(x, patch[i]) \in S
    PROVE  \E f : NotedByMaps(f, n, m, patch)
<1> DEFINE g == [i \in 1 .. n |-> [x \in S |-> RefusalsNoted(x, patch[i])]]
           Eq(h) == h = [y \in SUBSET (1 .. n) |->
                           IF y = {} THEN Unnoted(m)
                           ELSE RefusalsNoted(h[y \ {Max(y)}], patch[Max(y)])]
<1>1. g \in [1 .. n -> [S -> S]]
  OBVIOUS
<1>2. PICK it : IsFold(it, S, n, Unnoted(m), g)
  <2> HIDE DEF g
  <2> QED BY <1>1, FoldExists
<1>3. Eq(it)
  <2>1. ASSUME NEW y \in SUBSET (1 .. n), y # {}
        PROVE  it[y] = RefusalsNoted(it[y \ {Max(y)}], patch[Max(y)])
    <3>1. Max(y) \in 1 .. n
      BY <2>1, MaxOfPositions
    <3>2. it[y \ {Max(y)}] \in S
      BY <1>2 DEF IsFold
    <3> QED BY <1>2, <2>1, <3>1, <3>2 DEF IsFold
  <2>2. it[{}] = Unnoted(m) /\ it \in [SUBSET (1 .. n) -> S]
    BY <1>2 DEF IsFold
  <2> QED BY <2>1, <2>2
<1>4. PICK h : Eq(h) /\ Noted(m, patch) = h[1 .. n]
  <2>1. Noted(m, patch) = (CHOOSE h : h = [y \in SUBSET (DOMAIN patch) |->
                    IF y = {} THEN Unnoted(m)
                           ELSE RefusalsNoted(h[y \ {Max(y)}], patch[Max(y)])])[DOMAIN patch]
    BY Zenon DEF Noted, FoldLeft, MapThenFoldSet
  <2>2. Noted(m, patch) = (CHOOSE h : Eq(h))[1 .. n]
    BY <2>1
  <2>3. Eq(CHOOSE h : Eq(h))
    <3> HIDE DEF Eq
    <3> QED BY <1>3
  <2> QED BY <2>2, <2>3
<1> DEFINE f == [k \in 0 .. n |-> h[1 .. k]]
<1>5. f[0] = Unnoted(m)
  <2>1. 1 .. 0 = {} /\ {} \in SUBSET (1 .. n)
    OBVIOUS
  <2> QED BY <1>4, <2>1
<1>6. ASSUME NEW k \in 1 .. n
      PROVE  f[k] = RefusalsNoted(f[k - 1], patch[k])
  <2>1. k \in 0 .. n /\ k - 1 \in 0 .. n
    OBVIOUS
  <2>2. h[1 .. k] = RefusalsNoted(h[1 .. k - 1], patch[k])
    BY <1>4, UpTo
  <2> QED BY <2>1, <2>2
<1>7. Noted(m, patch) = f[n]
  <2>1. n \in 0 .. n
    OBVIOUS
  <2> QED BY <1>4, <2>1
<1> HIDE DEF f
<1> QED BY <1>5, <1>6, <1>7 DEF NotedByMaps

\* Applying a patch, with the refusals so far.
Noting == [a : Applying, r : SUBSET Key]

\* One entry: nothing is forgotten, and an entry that adds nothing was not
\* refused.
LEMMA EntryNoted ==
    ASSUME NEW noted \in Noting, NEW it, IsToken(it)
    PROVE  LET g == RefusalNoted(noted, it)
           IN  /\ g \in Noting /\ g.a = EntryApplied(noted.a, it)
               /\ noted.r \subseteq g.r
               /\ g.r = {} /\ noted.a.at = "key" /\ it.kind = "sid" /\ it.value.t # "null" =>
                    ~ Refuses(noted.a.m.table, it.sid)
<1> DEFINE g == RefusalNoted(noted, it)
<1>1. noted.a \in Applying /\ noted.r \in SUBSET Key
  BY DEF Noting
<1>2. EntryApplied(noted.a, it) \in Applying
  BY <1>1, EntrySound
<1>3. it.kind = "sid" => it.sid \in Key
  BY RequestValues DEF IsToken, EntryKind
<1>4. g = [a |-> g.a, r |-> g.r] /\ g.a = EntryApplied(noted.a, it)
  BY DEF RefusalNoted
<1>5. g.r = IF /\ noted.a.at = "key" /\ it.kind = "sid"
               /\ it.value.t # "null" /\ Refuses(noted.a.m.table, it.sid)
              THEN noted.r \union {it.sid} ELSE noted.r
  BY DEF RefusalNoted
<1> HIDE DEF g
<1>6. g.r \in SUBSET Key /\ noted.r \subseteq g.r
  BY <1>1, <1>3, <1>5
<1>7. g \in Noting
  BY <1>2, <1>4, <1>6 DEF Noting
<1>8. g.r = {} /\ noted.a.at = "key" /\ it.kind = "sid" /\ it.value.t # "null" =>
        ~ Refuses(noted.a.m.table, it.sid)
  BY <1>5
<1> QED
  BY <1>4, <1>6, <1>7, <1>8 DEF g

LEMMA MapNoted ==
    ASSUME NEW noted \in Noting, NEW patch \in Patch, NEW pm \in Range(patch)
    PROVE  /\ \E g : NotedBy(g, Len(pm.items), noted, pm)
           /\ RefusalsNoted(noted, pm) \in Noting
           /\ RefusalsNoted(noted, pm).a = PatchMapApplied(noted.a, pm)
           /\ noted.r \subseteq RefusalsNoted(noted, pm).r
<1> DEFINE n == Len(pm.items)
<1>1. /\ n \in Nat /\ DOMAIN pm.items = 1 .. n
      /\ \A i \in 1 .. n : IsToken(pm.items[i])
  BY MapTokens
<1> HIDE DEF n
<1>2. \A x \in Noting : \A i \in 1 .. n : RefusalNoted(x, pm.items[i]) \in Noting
  BY <1>1, EntryNoted
<1>3. PICK g : NotedBy(g, n, noted, pm)
  BY <1>1, <1>2, NotedMapFold
<1>4. \A x \in Applying : \A i \in 1 .. n : EntryApplied(x, pm.items[i]) \in Applying
  BY <1>1, EntrySound
<1>5. noted.a \in Applying
  BY DEF Noting
<1>6. PICK f : AppliedBy(f, n, noted.a, pm)
  BY <1>1, <1>4, <1>5, PatchMapFold
<1> DEFINE T == {k \in 0 .. n : g[k] \in Noting /\ g[k].a = f[k] /\ noted.r \subseteq g[k].r}
<1>7. 0 \in T
  BY <1>1, <1>3, <1>6 DEF NotedBy, AppliedBy
<1>8. ASSUME NEW k \in 1 .. n, k - 1 \in T
      PROVE  k \in T
  <2>1. g[k] = RefusalNoted(g[k - 1], pm.items[k]) /\ f[k] = EntryApplied(f[k - 1], pm.items[k])
    BY <1>3, <1>6 DEF NotedBy, AppliedBy
  <2>2. g[k - 1] \in Noting /\ g[k - 1].a = f[k - 1] /\ noted.r \subseteq g[k - 1].r
    BY <1>8
  <2>3. g[k] \in Noting /\ g[k].a = f[k] /\ g[k - 1].r \subseteq g[k].r
    BY <1>1, <2>1, <2>2, EntryNoted
  <2>4. k \in 0 .. n
    BY <1>1
  <2> QED BY <2>2, <2>3, <2>4
<1>9. n \in T
  <2> HIDE DEF T
  <2>1. \A k \in 0 .. n : k \in T
    BY <1>1, <1>7, <1>8, Counting
  <2> QED BY <1>1, <2>1
<1> QED
  BY <1>3, <1>6, <1>9 DEF NotedBy, AppliedBy, n

\* Where the scan stands before and after each token of a map that it meets
\* standing at a place, and where it ends: the datastore has no part in it.
IsScan(p, pm, at) ==
    /\ p \in [0 .. Len(pm.items) -> ScanAt]
    /\ p[0] = at
    /\ \A j \in 1 .. Len(pm.items) : p[j] = ScannedPast(p[j - 1], pm.items[j])
Positions(pm, at) == CHOOSE p : IsScan(p, pm, at)
EndOf(pm, at) == Positions(pm, at)[Len(pm.items)]

\* The entries among the first j tokens of a map that are applied.
IsApplied(pm, at, l) == Positions(pm, at)[l - 1] = "key" /\ pm.items[l].kind \in EntryKind
Before(pm, at, j) == {pm.items[l] : l \in {l \in 1 .. j : IsApplied(pm, at, l)}}

LEMMA PositionsAre ==
    ASSUME NEW patch \in Patch, NEW pm \in Range(patch), NEW at \in ScanAt
    PROVE  IsScan(Positions(pm, at), pm, at) /\ EndOf(pm, at) \in ScanAt
<1> DEFINE n == Len(pm.items)
           g == [i \in 1 .. n |-> [x \in ScanAt |-> ScannedPast(x, pm.items[i])]]
<1>1. n \in Nat
  BY MapTokens
<1>2. g \in [1 .. n -> [ScanAt -> ScanAt]]
  BY ScanType
<1>3. PICK p : p \in [0 .. n -> ScanAt] /\ Runs(p, n, at, g)
  <2> HIDE DEF g, n
  <2> QED BY <1>1, <1>2, RunExists
<1>4. p[0] = at
  <2>1. 0 \in 0 .. n
    BY <1>1
  <2> HIDE DEF g
  <2> QED BY <1>3, <2>1 DEF Runs
<1>5. ASSUME NEW j \in 1 .. n
      PROVE  p[j] = ScannedPast(p[j - 1], pm.items[j])
  <2>1. j \in 0 .. n /\ j - 1 \in 0 .. n /\ j # 0
    BY <1>1
  <2>2. p[j] = g[j][p[j - 1]]
    <3> HIDE DEF g
    <3> QED BY <1>3, <2>1 DEF Runs
  <2>3. p[j - 1] \in ScanAt
    BY <1>3, <2>1
  <2> QED BY <2>2, <2>3
<1>6. IsScan(p, pm, at)
  BY <1>3, <1>4, <1>5 DEF IsScan
<1>7. IsScan(Positions(pm, at), pm, at)
  BY <1>6 DEF Positions
<1>8. EndOf(pm, at) \in ScanAt
  <2>1. n \in 0 .. n
    BY <1>1
  <2> QED BY <1>7, <2>1 DEF IsScan, EndOf
<1> QED
  BY <1>7, <1>8

LEMMA NextItem ==
    ASSUME NEW pm, NEW at, NEW k \in Nat \ {0}
    PROVE  /\ IsApplied(pm, at, k) =>
                Before(pm, at, k) = Before(pm, at, k - 1) \cup {pm.items[k]}
           /\ ~ IsApplied(pm, at, k) => Before(pm, at, k) = Before(pm, at, k - 1)
<1>1. 1 .. k = (1 .. k - 1) \cup {k} /\ k - 1 \in Nat
  OBVIOUS
<1> QED
  BY <1>1 DEF Before

\* Before and after a map: its entries are among I, different from each other,
\* and none of them is among those that are done; those it applies are then.
MapReady(I, D, pm) ==
    /\ I \in SUBSET PatchItem /\ Apart(I) /\ Keyed(I) /\ D \in SUBSET I
    /\ \A j \in DOMAIN pm.items : pm.items[j].kind \in EntryKind => pm.items[j] \in I \ D
    /\ \A i, j \in DOMAIN pm.items :
         i # j /\ pm.items[i].kind \in EntryKind => pm.items[i] # pm.items[j]
MapDone(I, D, pm, at, acc) ==
    /\ AllSettled(acc.m, D \cup Before(pm, at, Len(pm.items)))
    /\ AllSingle(acc.m, I)
    /\ acc.at = EndOf(pm, at)

\* One map of the first patch, none of whose items is refused.
LEMMA MapSettles ==
    ASSUME NEW I, NEW D, NEW patch \in Patch, NEW pm \in Range(patch), MapReady(I, D, pm),
           NEW noted \in Noting, AllSettled(noted.a.m, D), AllSingle(noted.a.m, I),
           RefusalsNoted(noted, pm).r = {}
    PROVE  MapDone(I, D, pm, noted.a.at, PatchMapApplied(noted.a, pm))
<1> DEFINE n == Len(pm.items)
           at == noted.a.at
           p == Positions(pm, at)
<1>0. /\ I \in SUBSET PatchItem /\ Apart(I) /\ Keyed(I) /\ D \in SUBSET I
      /\ \A j \in DOMAIN pm.items : pm.items[j].kind \in EntryKind => pm.items[j] \in I \ D
      /\ \A i, j \in DOMAIN pm.items :
           i # j /\ pm.items[i].kind \in EntryKind => pm.items[i] # pm.items[j]
  BY DEF MapReady
<1> USE <1>0
<1>1. /\ n \in Nat /\ DOMAIN pm.items = 1 .. n
      /\ \A i \in 1 .. n : IsToken(pm.items[i])
  BY MapTokens
<1>2. PICK g : NotedBy(g, n, noted, pm)
  BY MapNoted
<1>7. p[0] = at /\ \A j \in 1 .. n : p[j] = ScannedPast(p[j - 1], pm.items[j])
  <2>1. at \in ScanAt
    BY DEF Noting, Applying
  <2> QED BY <2>1, PositionsAre DEF IsScan
<1>8. \A l : IsApplied(pm, at, l) <=> p[l - 1] = "key" /\ pm.items[l].kind \in EntryKind
  BY DEF IsApplied
<1>9. AllSettled(noted.a.m, D) /\ AllSingle(noted.a.m, I) /\ noted.a.at = at
  OBVIOUS
<1> HIDE DEF n, p, at
<1> DEFINE Fine(k) ==
             /\ AllSettled(g[k].a.m, D \cup Before(pm, at, k))
             /\ AllSingle(g[k].a.m, I)
             /\ g[k].a.at = p[k]
           T == {k \in 0 .. n : g[k] \in Noting /\ (g[k].r = {} => Fine(k))}
<1>3. 0 \in T
  <2>1. g[0] = noted
    BY <1>2 DEF NotedBy
  <2>2. Before(pm, at, 0) = {}
    BY DEF Before
  <2>3. D \cup Before(pm, at, 0) = D
    BY <2>2
  <2> QED BY <1>1, <1>7, <1>9, <2>1, <2>3 DEF AllSettled, AllSingle
<1>4. ASSUME NEW k \in 1 .. n, k - 1 \in T
      PROVE  k \in T
  <2> DEFINE it == pm.items[k]
             old == g[k - 1]
  <2>1. g[k] = RefusalNoted(old, it) /\ old \in Noting /\ (old.r = {} => Fine(k - 1))
    BY <1>2, <1>4 DEF NotedBy
  <2> HIDE DEF Fine
  <2>2. IsToken(it)
    BY <1>1
  <2>3. k \in 0 .. n /\ k \in Nat \ {0}
    BY <1>1
  <2> HIDE DEF it, old
  <2>4. /\ g[k] \in Noting /\ g[k].a = EntryApplied(old.a, it)
        /\ old.r \subseteq g[k].r
        /\ g[k].r = {} /\ old.a.at = "key" /\ it.kind = "sid" /\ it.value.t # "null" =>
             ~ Refuses(old.a.m.table, it.sid)
    BY <2>1, <2>2, EntryNoted, Zenon
  <2>5. ASSUME g[k].r = {}
        PROVE  Fine(k)
    <3>1. Fine(k - 1)
      BY <2>1, <2>4, <2>5
    <3>2. /\ AllSettled(old.a.m, D \cup Before(pm, at, k - 1))
          /\ AllSingle(old.a.m, I)
          /\ old.a.at = p[k - 1]
          /\ old.a \in Applying
      BY <2>1, <3>1 DEF Fine, old, Noting
    <3>3. g[k].a.at = p[k]
      BY <1>7, <2>4, <3>2 DEF EntryApplied, it
    <3>4. CASE ~ IsApplied(pm, at, k)
      <4>1. g[k].a.m = old.a.m
        <5>1. old.a.at # "key" \/ it.kind \notin EntryKind
          BY <1>8, <3>2, <3>4 DEF it
        <5> QED BY <2>4, <5>1 DEF EntryApplied, Patched, EntryKind
      <4>2. Before(pm, at, k) = Before(pm, at, k - 1)
        BY <2>3, <3>4, NextItem
      <4> QED BY <3>2, <3>3, <4>1, <4>2 DEF Fine
    <3>5. CASE IsApplied(pm, at, k)
      <4> DEFINE E == D \cup Before(pm, at, k - 1)
                 acc == old.a
      <4>0. acc.at = "key" /\ it.kind \in EntryKind
        BY <1>8, <3>2, <3>5 DEF it
      <4>1. it \in I \ D
        BY <1>1, <4>0 DEF it
      <4>2. it \notin Before(pm, at, k - 1)
        <5>1. \A l \in 1 .. k - 1 : l \in 1 .. n /\ l # k
          BY <1>1
        <5>2. \A l \in 1 .. k - 1 : pm.items[l] # it
          BY <1>1, <4>0, <5>1 DEF it
        <5> QED BY <5>2 DEF Before
      <4>3. E \in SUBSET I
        <5>1. \A l \in 1 .. k - 1 :
                l \in 1 .. n /\ (IsApplied(pm, at, l) => pm.items[l].kind \in EntryKind)
          BY <1>1, <1>8
        <5>2. Before(pm, at, k - 1) \subseteq I
          BY <1>1, <5>1 DEF Before
        <5> QED BY <5>2
      <4>4. it \notin E /\ it \in I /\ AllSettled(acc.m, E)
        BY <3>2, <4>1, <4>2
      <4>5. Before(pm, at, k) = Before(pm, at, k - 1) \cup {it}
        BY <2>3, <3>5, NextItem DEF it
      <4>6. D \cup Before(pm, at, k) = E \cup {it}
        BY <4>5
      <4> HIDE DEF E
      <4>7. Ready(I, E, acc, it)
        BY <2>4, <2>5, <3>2, <4>0, <4>3, <4>4 DEF Ready
      <4>8. g[k].a = EntryApplied(acc, it)
        BY <2>4
      <4> HIDE DEF acc
      <4>9. Done(I, E \cup {it}, g[k].a)
        BY <4>7, <4>8, EntrySettles
      <4> QED BY <3>3, <4>6, <4>9 DEF Fine, Done
    <3> QED BY <3>4, <3>5
  <2> QED BY <2>3, <2>4, <2>5
<1>5. n \in T
  <2> HIDE DEF T
  <2>1. \A k \in 0 .. n : k \in T
    BY <1>1, <1>3, <1>4, Counting
  <2> QED BY <1>1, <2>1
<1>6. RefusalsNoted(noted, pm) = g[n] /\ g[n].a = PatchMapApplied(noted.a, pm)
  BY <1>2, MapNoted DEF NotedBy, n
<1> QED
  BY <1>5, <1>6 DEF n, p, at, EndOf, MapDone

\* Where the scan stands before and after each map of a patch.
IsPatchScan(p, patch) ==
    /\ p \in [0 .. Len(patch) -> ScanAt]
    /\ p[0] = "map"
    /\ \A k \in 1 .. Len(patch) : p[k] = EndOf(patch[k], p[k - 1])
PatchPositions(patch) == CHOOSE p : IsPatchScan(p, patch)

\* The entries of a patch; those of its k-th map that are applied, and those
\* of its first k maps.
ItemsOf(patch) == UNION {Entries(pm) : pm \in Range(patch)}
AppliedAt(patch, k) == Before(patch[k], PatchPositions(patch)[k - 1], Len(patch[k].items))
AppliedUpTo(patch, k) == UNION {AppliedAt(patch, i) : i \in 1 .. k}

\* A patch that names each SID, or each entry of a list, once.
NamesOnce(patch) ==
    \A i, k \in DOMAIN patch :
      \A j \in DOMAIN patch[i].items, l \in DOMAIN patch[k].items :
        LET a == patch[i].items[j]
            b == patch[k].items[l]
        IN  /\ i # k \/ j # l
            /\ a.kind \in EntryKind /\ b.kind \in EntryKind /\ a.sid = b.sid
            => a.kind = "inst" /\ b.kind = "inst" /\ a.key # b.key

LEMMA PatchPositionsAre ==
    ASSUME NEW patch \in Patch
    PROVE  IsPatchScan(PatchPositions(patch), patch)
<1> DEFINE n == Len(patch)
           g == [i \in 1 .. n |-> [x \in ScanAt |-> EndOf(patch[i], x)]]
<1>1. n \in Nat /\ \A k \in 1 .. n : patch[k] \in Range(patch)
  BY TypeAssumption DEF Range
<1>2. g \in [1 .. n -> [ScanAt -> ScanAt]]
  <2>1. \A i \in 1 .. n : \A x \in ScanAt : EndOf(patch[i], x) \in ScanAt
    BY <1>1, PositionsAre
  <2> QED BY <2>1
<1>3. "map" \in ScanAt
  BY DEF ScanAt
<1>4. PICK p : p \in [0 .. n -> ScanAt] /\ Runs(p, n, "map", g)
  <2> HIDE DEF g, n
  <2> QED BY <1>1, <1>2, <1>3, RunExists
<1>5. p[0] = "map"
  <2>1. 0 \in 0 .. n
    BY <1>1
  <2> HIDE DEF g
  <2> QED BY <1>4, <2>1 DEF Runs
<1>6. ASSUME NEW j \in 1 .. n
      PROVE  p[j] = EndOf(patch[j], p[j - 1])
  <2>1. j \in 0 .. n /\ j - 1 \in 0 .. n /\ j # 0
    BY <1>1
  <2>2. p[j] = g[j][p[j - 1]]
    <3> HIDE DEF g
    <3> QED BY <1>4, <2>1 DEF Runs
  <2>3. p[j - 1] \in ScanAt
    BY <1>4, <2>1
  <2> QED BY <2>2, <2>3
<1> QED
  BY <1>4, <1>5, <1>6 DEF PatchPositions, IsPatchScan

LEMMA NextMap ==
    ASSUME NEW patch, NEW k \in Nat \ {0}
    PROVE  AppliedUpTo(patch, k) = AppliedUpTo(patch, k - 1) \cup AppliedAt(patch, k)
<1>1. 1 .. k = (1 .. k - 1) \cup {k} /\ k - 1 \in Nat
  OBVIOUS
<1> QED
  BY <1>1 DEF AppliedUpTo

\* What the maps of a patch that names nothing twice have to do with each
\* other.
LEMMA ItemsApartOf ==
    ASSUME NEW patch \in Patch, NamesOnce(patch)
    PROVE  /\ Len(patch) \in Nat /\ DOMAIN patch = 1 .. Len(patch)
           /\ \A k \in 1 .. Len(patch) : patch[k] \in Range(patch)
           /\ ItemsOf(patch) \in SUBSET PatchItem /\ Apart(ItemsOf(patch))
           /\ \A k \in 1 .. Len(patch) : \A j \in DOMAIN patch[k].items :
                patch[k].items[j].kind \in EntryKind =>
                  /\ patch[k].items[j] \in ItemsOf(patch)
                  /\ patch[k].items[j] \notin AppliedUpTo(patch, k - 1)
                  /\ \A l \in DOMAIN patch[k].items :
                       l # j => patch[k].items[j] # patch[k].items[l]
           /\ \A k \in 0 .. Len(patch) : AppliedUpTo(patch, k) \subseteq ItemsOf(patch)
<1> DEFINE n == Len(patch)
<1>1. n \in Nat /\ DOMAIN patch = 1 .. n /\ \A k \in 1 .. n : patch[k] \in Range(patch)
  BY TypeAssumption DEF Range
<1>2. ItemsOf(patch) \in SUBSET PatchItem
  BY DEF ItemsOf, PatchItem
<1>3. ASSUME NEW a \in ItemsOf(patch)
      PROVE  \E i \in 1 .. n : \E j \in DOMAIN patch[i].items :
               a = patch[i].items[j] /\ a.kind \in EntryKind
  BY <1>1 DEF ItemsOf, Entries, Range
<1>4. ASSUME NEW i \in 1 .. n, NEW j \in DOMAIN patch[i].items,
             NEW k \in 1 .. n, NEW l \in DOMAIN patch[k].items,
             i # k \/ j # l, patch[i].items[j].kind \in EntryKind, patch[k].items[l].kind \in EntryKind,
             patch[i].items[j].sid = patch[k].items[l].sid
      PROVE  /\ patch[i].items[j].kind = "inst" /\ patch[k].items[l].kind = "inst"
             /\ patch[i].items[j].key # patch[k].items[l].key
  BY <1>1, <1>4 DEF NamesOnce
<1>5. ASSUME NEW i \in 1 .. n, NEW j \in DOMAIN patch[i].items,
             NEW k \in 1 .. n, NEW l \in DOMAIN patch[k].items,
             i # k \/ j # l, patch[i].items[j].kind \in EntryKind
      PROVE  patch[i].items[j] # patch[k].items[l]
  <2> SUFFICES ASSUME patch[i].items[j] = patch[k].items[l]
               PROVE  FALSE
    OBVIOUS
  <2>1. patch[i].items[j].key # patch[k].items[l].key
    BY <1>4, <1>5
  <2> QED BY <2>1
<1>6. Apart(ItemsOf(patch))
  <2> SUFFICES ASSUME NEW a \in ItemsOf(patch), NEW b \in ItemsOf(patch), a # b, a.sid = b.sid
               PROVE  a.kind = "inst" /\ b.kind = "inst" /\ a.key # b.key
    BY DEF Apart
  <2>1. PICK i \in 1 .. n : \E j \in DOMAIN patch[i].items :
          a = patch[i].items[j] /\ a.kind \in EntryKind
    BY <1>3
  <2>2. PICK j \in DOMAIN patch[i].items : a = patch[i].items[j] /\ a.kind \in EntryKind
    BY <2>1
  <2>3. PICK k \in 1 .. n : \E l \in DOMAIN patch[k].items :
          b = patch[k].items[l] /\ b.kind \in EntryKind
    BY <1>3
  <2>4. PICK l \in DOMAIN patch[k].items : b = patch[k].items[l] /\ b.kind \in EntryKind
    BY <2>3
  <2>5. i # k \/ j # l
    BY <2>2, <2>4
  <2> QED BY <1>4, <2>2, <2>4, <2>5
<1>7. ASSUME NEW k \in 0 .. n, NEW a \in AppliedUpTo(patch, k)
      PROVE  \E i \in 1 .. k : \E j \in DOMAIN patch[i].items :
               i \in 1 .. n /\ a = patch[i].items[j] /\ a.kind \in EntryKind
  <2>1. PICK i \in 1 .. k : a \in AppliedAt(patch, i)
    BY <1>7 DEF AppliedUpTo
  <2>2. i \in 1 .. n
    BY <1>1
  <2>3. PICK j \in 1 .. Len(patch[i].items) :
          /\ a = patch[i].items[j]
          /\ IsApplied(patch[i], PatchPositions(patch)[i - 1], j)
    BY <2>1 DEF AppliedAt, Before
  <2>4. Len(patch[i].items) \in Nat /\ DOMAIN patch[i].items = 1 .. Len(patch[i].items)
    BY <1>1, <2>2, MapTokens
  <2>5. a.kind \in EntryKind
    BY <2>3 DEF IsApplied
  <2> QED BY <2>2, <2>3, <2>4, <2>5
<1>10. ASSUME NEW k \in 1 .. n, NEW j \in DOMAIN patch[k].items,
              patch[k].items[j].kind \in EntryKind
       PROVE  patch[k].items[j] \in ItemsOf(patch)
  <2>1. patch[k].items[j] \in Entries(patch[k])
    BY <1>10 DEF Entries, Range
  <2>2. patch[k] \in Range(patch)
    BY <1>1
  <2> QED BY <2>1, <2>2 DEF ItemsOf
<1>8. ASSUME NEW k \in 0 .. n
      PROVE  AppliedUpTo(patch, k) \subseteq ItemsOf(patch)
  <2> SUFFICES ASSUME NEW a \in AppliedUpTo(patch, k)
               PROVE  a \in ItemsOf(patch)
    OBVIOUS
  <2>1. PICK i \in 1 .. k : \E j \in DOMAIN patch[i].items :
               i \in 1 .. n /\ a = patch[i].items[j] /\ a.kind \in EntryKind
    BY <1>7
  <2> QED BY <1>10, <2>1
<1>9. ASSUME NEW k \in 1 .. n, NEW j \in DOMAIN patch[k].items,
             patch[k].items[j].kind \in EntryKind
      PROVE  /\ patch[k].items[j] \in ItemsOf(patch)
             /\ patch[k].items[j] \notin AppliedUpTo(patch, k - 1)
             /\ \A l \in DOMAIN patch[k].items :
                  l # j => patch[k].items[j] # patch[k].items[l]
  <2>1. patch[k].items[j] \in ItemsOf(patch)
    BY <1>9, <1>10
  <2>2. ASSUME patch[k].items[j] \in AppliedUpTo(patch, k - 1)
        PROVE  FALSE
    <3>1. k - 1 \in 0 .. n
      BY <1>1
    <3>2. PICK i \in 1 .. k - 1 : \E l \in DOMAIN patch[i].items :
            i \in 1 .. n /\ patch[k].items[j] = patch[i].items[l]
      BY <1>7, <2>2, <3>1
    <3>3. i # k /\ i \in 1 .. n
      BY <1>1, <3>2
    <3> QED BY <1>5, <1>9, <3>2, <3>3
  <2> QED BY <1>5, <1>9, <2>1, <2>2
<1> QED
  BY <1>1, <1>2, <1>6, <1>8, <1>9

\* List keys that are used as keys, in the datastore and by the patch.
LEMMA KeysUsed ==
    ASSUME NEW m \in Sound, NEW patch \in Patch, WellKeyed(m, patch)
    PROVE  Keyed(ItemsOf(patch)) /\ AllSingle(m, ItemsOf(patch))
<1>1. \A it \in ItemsOf(patch) : it.kind = "inst" => it \in Instances(patch)
  BY DEF ItemsOf, Entries, Instances
<1>2. ASSUME NEW it \in Instances(patch), it.value.t # "null"
      PROVE  /\ EntryMatches(it.value, it.key)
             /\ \A b \in Instances(patch) : EntryMatches(it.value, b.key) => b.key = it.key
  <2>1. {o.key : o \in {o \in Instances(patch) : EntryMatches(it.value, o.key)}} = {it.key}
    BY <1>2 DEF WellKeyed
  <2>2. it.key \in {o.key : o \in {o \in Instances(patch) : EntryMatches(it.value, o.key)}}
    BY <2>1
  <2>3. PICK o \in Instances(patch) : EntryMatches(it.value, o.key) /\ o.key = it.key
    BY <2>2
  <2>4. ASSUME NEW b \in Instances(patch), EntryMatches(it.value, b.key)
        PROVE  b.key = it.key
    <3>1. b.key \in {p.key : p \in {p \in Instances(patch) : EntryMatches(it.value, p.key)}}
      BY <2>4
    <3> QED BY <2>1, <3>1
  <2> QED BY <2>3, <2>4
<1>3. Keyed(ItemsOf(patch))
  BY <1>1, <1>2 DEF Keyed, CarriesKey
<1>4. ASSUME NEW it \in ItemsOf(patch)
      PROVE  Single(m, it)
  <2> SUFFICES ASSUME it.kind = "inst", ListAt(m, it.sid)
               PROVE  OneMatch(Lookup(m.table, it.sid).s, it.key)
    BY DEF Single
  <2> DEFINE s == Lookup(m.table, it.sid).s
             M == Matching(s, it.key)
  <2>1. Cardinality(M) <= 1
    BY <1>1 DEF WellKeyed
  <2>2. it \in PatchItem
    BY DEF ItemsOf, PatchItem
  <2>3. s \in Seq(ListEntry)
    <3>1. it.sid \in Key
      BY <2>2, RequestValues
    <3> QED BY <3>1, FoundValue, StoredValues DEF ListAt
  <2>4. M \in SUBSET (1 .. Len(s)) /\ Len(s) \in Nat
    BY <2>3 DEF Matching
  <2>5. IsFiniteSet(M)
    <3>1. IsFiniteSet(1 .. Len(s))
      BY <2>4, FS_Interval
    <3> QED BY <2>4, <3>1, FS_Subset
  <2> HIDE DEF M
  <2>6. ASSUME NEW i \in M, NEW j \in M, i # j
        PROVE  FALSE
    <3>1. IsFiniteSet(M \ {i}) /\ Cardinality(M \ {i}) = Cardinality(M) - 1
      BY <2>5, FS_RemoveElement
    <3>2. Cardinality(M) \in Nat /\ Cardinality(M \ {i}) \in Nat
      BY <2>5, <3>1, FS_CardinalityType
    <3>3. Cardinality(M \ {i}) = 0
      BY <2>1, <3>1, <3>2
    <3>4. M \ {i} = {}
      BY <3>1, <3>3, FS_EmptySet
    <3> QED BY <2>6, <3>4
  <2> QED BY <2>6 DEF M, OneMatch
<1> QED
  BY <1>3, <1>4 DEF AllSingle

\* One map when its items are settled.
LEMMA MapAgain ==
    ASSUME NEW acc \in Applying, NEW patch \in Patch, NEW pm \in Range(patch),
           NEW I \in SUBSET PatchItem, Keyed(I), AllSingle(acc.m, I),
           Before(pm, acc.at, Len(pm.items)) \subseteq I,
           AllSettled(acc.m, Before(pm, acc.at, Len(pm.items)))
    PROVE  /\ PatchMapApplied(acc, pm).m = acc.m
           /\ PatchMapApplied(acc, pm).at = EndOf(pm, acc.at)
<1> DEFINE n == Len(pm.items)
           at == acc.at
           p == Positions(pm, at)
<1>1. /\ n \in Nat /\ DOMAIN pm.items = 1 .. n
      /\ \A i \in 1 .. n : IsToken(pm.items[i])
  BY MapTokens
<1>2. p[0] = at /\ \A j \in 1 .. n : p[j] = ScannedPast(p[j - 1], pm.items[j])
  <2>1. at \in ScanAt
    BY DEF Applying
  <2> QED BY <2>1, PositionsAre DEF IsScan
<1>3. \A l : IsApplied(pm, at, l) <=> p[l - 1] = "key" /\ pm.items[l].kind \in EntryKind
  BY DEF IsApplied
<1>4. /\ AllSettled(acc.m, Before(pm, at, n)) /\ Before(pm, at, n) \subseteq I
      /\ acc.at = at
  OBVIOUS
<1> HIDE DEF n, p, at
<1>5. \A x \in Applying : \A i \in 1 .. n : EntryApplied(x, pm.items[i]) \in Applying
  BY <1>1, EntrySound
<1>6. PICK f : AppliedBy(f, n, acc, pm)
  BY <1>1, <1>5, PatchMapFold
<1> DEFINE T == {k \in 0 .. n : f[k] \in Applying /\ f[k].m = acc.m /\ f[k].at = p[k]}
<1>7. 0 \in T
  BY <1>1, <1>2, <1>4, <1>6 DEF AppliedBy
<1>8. ASSUME NEW k \in 1 .. n, k - 1 \in T
      PROVE  k \in T
  <2> DEFINE it == pm.items[k]
             old == f[k - 1]
  <2>1. f[k] = EntryApplied(old, it) /\ k \in 0 .. n
    BY <1>1, <1>6 DEF AppliedBy
  <2>2. old \in Applying /\ old.m = acc.m /\ old.at = p[k - 1]
    BY <1>8
  <2>3. f[k] \in Applying
    BY <1>5, <2>1, <2>2
  <2>4. f[k].at = p[k]
    BY <1>2, <2>1, <2>2 DEF EntryApplied
  <2>5. IsApplied(pm, at, k) <=> old.at = "key" /\ it.kind \in EntryKind
    BY <1>3, <2>2
  <2>6. IsApplied(pm, at, k) => it \in Before(pm, at, n)
    BY <1>1 DEF Before
  <2> HIDE DEF it, old
  <2>7. CASE ~ IsApplied(pm, at, k)
    <3>1. f[k].m = old.m
      BY <2>1, <2>5, <2>7 DEF EntryApplied, Patched, EntryKind
    <3> QED BY <2>1, <2>2, <2>3, <2>4, <3>1
  <2>8. CASE IsApplied(pm, at, k)
    <3>1. it \in I /\ Settled(old.m, it) /\ Single(old.m, it)
      BY <1>4, <2>2, <2>6, <2>8 DEF AllSettled, AllSingle
    <3>2. it.kind = "inst" => CarriesKey(it)
      BY <3>1 DEF Keyed
    <3>3. f[k].m = old.m
      BY <2>1, <2>2, <3>1, <3>2, EntryAgain
    <3> QED BY <2>1, <2>2, <2>3, <2>4, <3>3
  <2> QED BY <2>7, <2>8
<1>9. n \in T
  <2> HIDE DEF T
  <2>1. \A k \in 0 .. n : k \in T
    BY <1>1, <1>7, <1>8, Counting
  <2> QED BY <1>1, <2>1
<1> QED
  BY <1>6, <1>9 DEF AppliedBy, n, p, at, EndOf

\* A patch that is applied with no refusal leaves all its items settled.
LEMMA PatchSettles ==
    ASSUME NEW m \in Sound, NEW patch \in Patch, NamesOnce(patch), WellKeyed(m, patch),
           RefusedBy(m, patch) = {}
    PROVE  LET once == apply_ipatch_raw(m, patch).m
           IN  /\ AllSettled(once, AppliedUpTo(patch, Len(patch)))
               /\ AllSingle(once, ItemsOf(patch))
<1> DEFINE n == Len(patch)
           I == ItemsOf(patch)
<1>1. /\ n \in Nat /\ DOMAIN patch = 1 .. n /\ \A k \in 1 .. n : patch[k] \in Range(patch)
      /\ I \in SUBSET PatchItem /\ Apart(I)
      /\ \A k \in 1 .. n : \A j \in DOMAIN patch[k].items :
           patch[k].items[j].kind \in EntryKind =>
             /\ patch[k].items[j] \in I
             /\ patch[k].items[j] \notin AppliedUpTo(patch, k - 1)
             /\ \A l \in DOMAIN patch[k].items : l # j => patch[k].items[j] # patch[k].items[l]
      /\ \A k \in 0 .. n : AppliedUpTo(patch, k) \subseteq I
  BY ItemsApartOf
<1>2. Keyed(I) /\ AllSingle(m, I)
  BY KeysUsed
<1>3. Start(m) \in Applying /\ Start(m).m = m /\ Start(m).at = "map"
      /\ Unnoted(m) \in Noting /\ Unnoted(m).a = Start(m)
  BY DEF Start, Applying, Unnoted, Noting, ScanAt
<1> HIDE DEF n, I
<1>4. \A x \in Noting : \A i \in 1 .. n : RefusalsNoted(x, patch[i]) \in Noting
  BY <1>1, MapNoted
<1>5. PICK g : NotedByMaps(g, n, m, patch)
  BY <1>1, <1>3, <1>4, NotedFold
<1>6. \A x \in Applying : \A i \in 1 .. n : PatchMapApplied(x, patch[i]) \in Applying
  BY <1>1, PatchMapSound
<1>7. PICK f : PatchedBy(f, n, m, patch)
  BY <1>1, <1>3, <1>6, PatchFold
<1> DEFINE p == PatchPositions(patch)
<1>0. /\ p[0] = "map" /\ \A k \in 1 .. n : p[k] = EndOf(patch[k], p[k - 1])
      /\ \A k \in 1 .. n :
           AppliedAt(patch, k) = Before(patch[k], p[k - 1], Len(patch[k].items))
  BY PatchPositionsAre DEF IsPatchScan, AppliedAt, n
<1> HIDE DEF p
<1> DEFINE Fine(k) ==
             /\ AllSettled(f[k].m, AppliedUpTo(patch, k))
             /\ AllSingle(f[k].m, I)
             /\ f[k].at = p[k]
           T == {k \in 0 .. n : g[k] \in Noting /\ g[k].a = f[k] /\ (g[k].r = {} => Fine(k))}
<1>8. 0 \in T
  <2>1. g[0] = Unnoted(m) /\ f[0] = Start(m)
    BY <1>5, <1>7 DEF NotedByMaps, PatchedBy
  <2>2. AppliedUpTo(patch, 0) = {}
    BY DEF AppliedUpTo
  <2>3. AllSettled(m, AppliedUpTo(patch, 0))
    BY <2>2 DEF AllSettled
  <2> QED BY <1>0, <1>1, <1>2, <1>3, <2>1, <2>3
<1>9. ASSUME NEW k \in 1 .. n, k - 1 \in T
      PROVE  k \in T
  <2> DEFINE pm == patch[k]
             old == g[k - 1]
             D == AppliedUpTo(patch, k - 1)
  <2>1. g[k] = RefusalsNoted(old, pm) /\ f[k] = PatchMapApplied(f[k - 1], pm) /\ k \in 0 .. n
    BY <1>1, <1>5, <1>7 DEF NotedByMaps, PatchedBy
  <2>2. old \in Noting /\ old.a = f[k - 1] /\ (old.r = {} => Fine(k - 1))
    BY <1>9
  <2> HIDE DEF Fine
  <2>3. pm \in Range(patch)
    BY <1>1
  <2>4. D \in SUBSET I
    <3>1. k - 1 \in 0 .. n
      BY <1>1
    <3> QED BY <1>1, <3>1
  <2>5. /\ \A j \in DOMAIN pm.items : pm.items[j].kind \in EntryKind => pm.items[j] \in I \ D
        /\ \A i, j \in DOMAIN pm.items :
             i # j /\ pm.items[i].kind \in EntryKind => pm.items[i] # pm.items[j]
    BY <1>1
  <2>6. /\ AppliedUpTo(patch, k) = D \cup Before(pm, p[k - 1], Len(pm.items))
        /\ p[k] = EndOf(pm, p[k - 1])
    <3>1. k \in Nat \ {0}
      BY <1>1
    <3>2. AppliedUpTo(patch, k) = D \cup AppliedAt(patch, k)
      BY <3>1, NextMap
    <3> QED BY <1>0, <3>2
  <2> HIDE DEF pm, old, D
  <2>7. g[k] \in Noting /\ g[k].a = PatchMapApplied(old.a, pm) /\ old.r \subseteq g[k].r
    BY <2>1, <2>2, <2>3, MapNoted
  <2>8. ASSUME g[k].r = {}
        PROVE  Fine(k)
    <3>1. old.r = {}
      BY <2>7, <2>8
    <3>2. /\ AllSettled(old.a.m, D) /\ AllSingle(old.a.m, I)
          /\ old.a.at = p[k - 1]
      BY <2>2, <3>1 DEF Fine, D
    <3>3. RefusalsNoted(old, pm).r = {}
      BY <2>1, <2>8
    <3>4. MapDone(I, D, pm, old.a.at, PatchMapApplied(old.a, pm))
      <4>1. MapReady(I, D, pm)
        BY <1>1, <1>2, <2>4, <2>5 DEF MapReady
      <4> QED BY <2>2, <2>3, <3>2, <3>3, <4>1, MapSettles
    <3> QED BY <2>1, <2>2, <2>6, <3>2, <3>4 DEF Fine, MapDone
  <2> QED BY <2>1, <2>2, <2>7, <2>8
<1>10. n \in T
  <2> HIDE DEF T
  <2>1. \A k \in 0 .. n : k \in T
    BY <1>1, <1>8, <1>9, Counting
  <2> QED BY <1>1, <2>1
<1>11. g[n].r = {}
  <2>1. RefusedBy(m, patch) = Noted(m, patch).r
    BY DEF RefusedBy, Noted, Unnoted, Start
  <2> QED BY <1>5, <2>1 DEF NotedByMaps
<1>12. apply_ipatch_raw(m, patch) = f[n]
  BY <1>7 DEF PatchedBy
<1> QED
  BY <1>10, <1>11, <1>12 DEF n, I

\* A patch whose items are settled changes nothing.
LEMMA PatchAgain ==
    ASSUME NEW m \in Sound, NEW patch \in Patch, NamesOnce(patch), Keyed(ItemsOf(patch)),
           AllSettled(m, AppliedUpTo(patch, Len(patch))), AllSingle(m, ItemsOf(patch))
    PROVE  apply_ipatch_raw(m, patch).m = m
<1> DEFINE n == Len(patch)
           I == ItemsOf(patch)
<1>1. /\ n \in Nat /\ DOMAIN patch = 1 .. n /\ \A k \in 1 .. n : patch[k] \in Range(patch)
      /\ I \in SUBSET PatchItem
      /\ \A k \in 0 .. n : AppliedUpTo(patch, k) \subseteq I
  BY ItemsApartOf
<1>2. Keyed(I) /\ AllSingle(m, I) /\ AllSettled(m, AppliedUpTo(patch, n))
  OBVIOUS
<1>3. Start(m) \in Applying /\ Start(m).m = m /\ Start(m).at = "map"
  BY DEF Start, Applying, ScanAt
<1> HIDE DEF n, I
<1>4. \A x \in Applying : \A i \in 1 .. n : PatchMapApplied(x, patch[i]) \in Applying
  BY <1>1, PatchMapSound
<1>5. PICK f : PatchedBy(f, n, m, patch)
  BY <1>1, <1>3, <1>4, PatchFold
<1> DEFINE p == PatchPositions(patch)
<1>0. /\ p[0] = "map" /\ \A k \in 1 .. n : p[k] = EndOf(patch[k], p[k - 1])
      /\ \A k \in 1 .. n :
           AppliedAt(patch, k) = Before(patch[k], p[k - 1], Len(patch[k].items))
  BY PatchPositionsAre DEF IsPatchScan, AppliedAt, n
<1> HIDE DEF p
<1> DEFINE T == {k \in 0 .. n : f[k] \in Applying /\ f[k].m = m /\ f[k].at = p[k]}
<1>6. 0 \in T
  BY <1>0, <1>1, <1>3, <1>5 DEF PatchedBy
<1>7. ASSUME NEW k \in 1 .. n, k - 1 \in T
      PROVE  k \in T
  <2> DEFINE pm == patch[k]
             old == f[k - 1]
  <2>1. f[k] = PatchMapApplied(old, pm) /\ k \in 0 .. n
    BY <1>1, <1>5 DEF PatchedBy
  <2>2. old \in Applying /\ old.m = m /\ old.at = p[k - 1]
    BY <1>7
  <2>3. pm \in Range(patch)
    BY <1>1
  <2>4. p[k] = EndOf(pm, old.at) /\ AppliedAt(patch, k) = Before(pm, old.at, Len(pm.items))
    BY <1>0, <2>2
  <2>5. AppliedAt(patch, k) \subseteq AppliedUpTo(patch, n)
    BY <1>1 DEF AppliedUpTo
  <2>6. AppliedUpTo(patch, n) \subseteq I
    BY <1>1
  <2> HIDE DEF pm, old
  <2>7. f[k] \in Applying
    BY <2>1, <2>2, <2>3, PatchMapSound
  <2>8. /\ Before(pm, old.at, Len(pm.items)) \subseteq I
        /\ AllSettled(old.m, Before(pm, old.at, Len(pm.items))) /\ AllSingle(old.m, I)
    BY <1>2, <2>2, <2>4, <2>5, <2>6 DEF AllSettled
  <2>9. f[k].m = old.m /\ f[k].at = EndOf(pm, old.at)
    BY <1>1, <1>2, <2>1, <2>2, <2>3, <2>8, MapAgain
  <2> QED BY <2>1, <2>2, <2>4, <2>7, <2>9
<1>8. n \in T
  <2> HIDE DEF T
  <2>1. \A k \in 0 .. n : k \in T
    BY <1>1, <1>6, <1>7, Counting
  <2> QED BY <1>1, <2>1
<1> QED
  BY <1>5, <1>8 DEF PatchedBy

\* When no patch names a SID, or an entry of a list, twice, a client may send
\* its iPATCH again: whatever requests came before, applying the maps a second
\* time finds every item as it left it, unless the table had refused one the
\* first time.  This holds also for an insert that is refused the second time
\* because its node has moved too deep into its chain.
THEOREM ReplaysAreHarmless ==
    ASSUME \A patch \in Patch : NamesOnce(patch)
    PROVE  Spec => []ReplayHarmless
<1>1. ASSUME ServerInv, g_ds_exists, NEW p \in Patch,
             RefusedBy(g_datastore, p) = {}, WellKeyed(g_datastore, p)
      PROVE  LET once == apply_ipatch_raw(g_datastore, p).m
             IN  ContentsOf(apply_ipatch_raw(once, p).m.table) = ContentsOf(once.table)
  <2> DEFINE once == apply_ipatch_raw(g_datastore, p).m
  <2>1. g_datastore \in Sound /\ NamesOnce(p)
    BY <1>1 DEF ServerInv, StoreInv
  <2>2. once \in Sound
    BY <2>1, PatchSound
  <2>3. AllSettled(once, AppliedUpTo(p, Len(p))) /\ AllSingle(once, ItemsOf(p))
    BY <1>1, <2>1, PatchSettles
  <2>4. Keyed(ItemsOf(p))
    BY <1>1, <2>1, KeysUsed
  <2> HIDE DEF once
  <2>5. apply_ipatch_raw(once, p).m = once
    BY <2>1, <2>2, <2>3, <2>4, PatchAgain
  <2> QED BY <2>5 DEF once
<1>2. ServerInv => ReplayHarmless
  BY <1>1 DEF ReplayHarmless
<1> QED
  BY <1>2, ServerInvariant, PTL

-----------------------------------------------------------------------------
(***************************************************************************)
(* The event queue (EventStream): its array owns its copies and implements *)
(* RecentLog, for every array size, set of events and supply of addresses. *)
(***************************************************************************)

\* The inductive invariant: the types of the array, and SlotsOwnLive.
IInv ==
    /\ slots \in [Slot -> Full \union {Empty}]
    /\ count \in 0 .. MaxEvents
    /\ live \in SUBSET Copy
    /\ SlotsOwnLive

\* A push keeps Kept copies, fewer than the array has slots, and what it
\* evicts is the copy behind them.
LEMMA PushKeeps ==
    ASSUME IInv
    PROVE  /\ Kept \in 0 .. MaxEvents - 1
           /\ Kept <= count
           /\ live \ Evicted = {slots[i].ptr : i \in 0 .. Kept - 1}
<1>1. MaxEvents \in Nat \ {0}
  BY StreamAssumption
<1>2. CASE count = MaxEvents
  <2>1. Kept = MaxEvents - 1 /\ Evicted = {slots[MaxEvents - 1].ptr}
    BY <1>2 DEF Kept, Evicted
  <2>2. \A i \in 0 .. MaxEvents - 1 : slots[i].ptr = slots[MaxEvents - 1].ptr => i = MaxEvents - 1
    BY <1>1, <1>2 DEF IInv, SlotsOwnLive
  <2>3. live = {slots[i].ptr : i \in 0 .. MaxEvents - 1}
    BY <1>2 DEF IInv, SlotsOwnLive
  <2>4. live \ {slots[MaxEvents - 1].ptr} = {slots[i].ptr : i \in 0 .. (MaxEvents - 1) - 1}
    BY <1>1, <2>2, <2>3
  <2> QED
    BY <1>1, <1>2, <2>1, <2>4
<1>3. CASE count # MaxEvents
  BY <1>1, <1>3 DEF Kept, Evicted, IInv, SlotsOwnLive
<1> QED
  BY <1>2, <1>3

\* stream_push_event keeps the invariant, with a full array and without.
LEMMA PushIInv ==
    ASSUME IInv, NEW e \in Event, NEW p \in Copy, stream_push_event(e, p)
    PROVE  IInv'
<1>1. MaxEvents \in Nat \ {0}
  BY StreamAssumption
<1>2. /\ Kept \in 0 .. MaxEvents - 1
      /\ Kept <= count
      /\ live \ Evicted = {slots[i].ptr : i \in 0 .. Kept - 1}
  BY PushKeeps
<1>3. /\ count' = Kept + 1
      /\ live' = {slots[i].ptr : i \in 0 .. Kept - 1} \union {p}
      /\ slots' = Shifted(p, e)
      /\ p \notin live
  BY <1>2 DEF stream_push_event
<1>4. /\ slots'[0] = [ptr |-> p, event |-> e]
      /\ \A i \in 1 .. Kept : slots'[i] = slots[i - 1]
  BY <1>1, <1>2, <1>3 DEF Shifted, Slot
<1>5. \A i \in 0 .. Kept - 1 : slots[i] \in Full /\ slots[i].ptr \in live
  BY <1>1, <1>2 DEF IInv, SlotsOwnLive
<1>6. slots' \in [Slot -> Full \union {Empty}]
  <2>1. [ptr |-> p, event |-> e] \in Full
    BY DEF Full
  <2>2. \A i \in Slot : i # 0 => i - 1 \in Slot
    BY <1>1 DEF Slot
  <2> QED
    BY <1>1, <1>3, <2>1, <2>2 DEF Shifted, IInv
<1>7. count' \in 0 .. MaxEvents /\ live' \in SUBSET Copy
  BY <1>1, <1>2, <1>3 DEF IInv, stream_push_event
<1>8. \A i \in 0 .. count' - 1 : slots'[i] \in Full
  <2>1. [ptr |-> p, event |-> e] \in Full
    BY DEF Full
  <2>2. \A i \in 0 .. count' - 1 : i = 0 \/ (i \in 1 .. Kept /\ i - 1 \in 0 .. Kept - 1)
    BY <1>2, <1>3
  <2> QED
    BY <1>4, <1>5, <2>1, <2>2
<1>9. live' = {slots'[i].ptr : i \in 0 .. count' - 1}
  <2>1. ASSUME NEW q \in live'
        PROVE  \E i \in 0 .. count' - 1 : q = slots'[i].ptr
    <3>1. CASE q = p
      BY <1>2, <1>3, <1>4, <3>1
    <3>2. CASE q # p
      <4>1. PICK i \in 0 .. Kept - 1 : q = slots[i].ptr
        BY <1>3, <2>1, <3>2
      <4>2. i + 1 \in 1 .. Kept /\ i + 1 \in 0 .. count' - 1 /\ (i + 1) - 1 = i
        BY <1>2, <1>3
      <4> QED BY <1>4, <4>1, <4>2
    <3> QED BY <3>1, <3>2
  <2>2. ASSUME NEW i \in 0 .. count' - 1
        PROVE  slots'[i].ptr \in live'
    <3>1. CASE i = 0
      BY <1>3, <1>4, <3>1
    <3>2. CASE i # 0
      <4>1. i \in 1 .. Kept /\ i - 1 \in 0 .. Kept - 1
        BY <1>2, <1>3, <3>2
      <4> QED BY <1>3, <1>4, <4>1
    <3> QED BY <3>1, <3>2
  <2> QED BY <2>1, <2>2
<1>10. \A i, j \in 0 .. count' - 1 : slots'[i].ptr = slots'[j].ptr => i = j
  <2> TAKE i, j \in 0 .. count' - 1
  <2> HAVE slots'[i].ptr = slots'[j].ptr
  <2>1. /\ i = 0 \/ (i \in 1 .. Kept /\ i - 1 \in 0 .. Kept - 1)
        /\ j = 0 \/ (j \in 1 .. Kept /\ j - 1 \in 0 .. Kept - 1)
    BY <1>2, <1>3
  <2>2. \A l \in 1 .. Kept : l - 1 \in 0 .. Kept - 1 => slots'[l].ptr # p
    BY <1>3, <1>4, <1>5
  <2>3. CASE i = 0 \/ j = 0
    BY <1>4, <2>1, <2>2, <2>3
  <2>4. CASE i # 0 /\ j # 0
    <3>1. slots[i - 1].ptr = slots[j - 1].ptr
      BY <1>4, <2>1, <2>4
    <3>2. i - 1 \in 0 .. count - 1 /\ j - 1 \in 0 .. count - 1
      BY <1>1, <1>2, <2>1, <2>4 DEF IInv
    <3>3. i - 1 = j - 1
      BY <3>1, <3>2 DEF IInv, SlotsOwnLive
    <3> QED BY <1>2, <1>3, <3>3
  <2> QED BY <2>3, <2>4
<1> QED
  BY <1>6, <1>7, <1>8, <1>9, <1>10 DEF IInv, SlotsOwnLive

\* stream_clear_events keeps it.
LEMMA ClearIInv ==
    ASSUME IInv, stream_clear_events
    PROVE  IInv'
<1>1. count' = 0 /\ live' = {} /\ slots' \in [Slot -> Full \union {Empty}]
  BY DEF stream_clear_events, IInv, SlotsOwnLive
<1> QED
  BY <1>1, StreamAssumption DEF IInv, SlotsOwnLive

\* The copies that are allocated are at all times exactly those the slots
\* below the counter hold, each once: however pushes, evictions and the
\* clearing follow one another, no copy is leaked, shared or used after free.
THEOREM AlwaysSlotsOwnLive == StreamSpec => []SlotsOwnLive
<1>1. StreamInit => IInv
  BY StreamAssumption DEF StreamInit, IInv, SlotsOwnLive
<1>2. IInv /\ [StreamNext]_streamVars => IInv'
  <2> SUFFICES ASSUME IInv, [StreamNext]_streamVars PROVE IInv'
    OBVIOUS
  <2>1. ASSUME NEW e \in Event, NEW p \in Copy, stream_push_event(e, p)
        PROVE  IInv'
    BY <2>1, PushIInv
  <2>2. CASE stream_clear_events
    BY <2>2, ClearIInv
  <2>3. ASSUME NEW f \in Filter, stream_read(f)
        PROVE  IInv'
    BY <2>3 DEF stream_read, IInv, SlotsOwnLive
  <2>4. CASE UNCHANGED streamVars
    BY <2>4 DEF streamVars, IInv, SlotsOwnLive
  <2> QED
    BY <2>1, <2>2, <2>3, <2>4 DEF StreamNext
<1>3. IInv => SlotsOwnLive
  BY DEF IInv
<1> QED
  BY <1>1, <1>2, <1>3, PTL DEF StreamSpec

-----------------------------------------------------------------------------
(***************************************************************************)
(* The three loops: copying into an answer, filtering, adding up.          *)
(***************************************************************************)

\* Sequences of events, and whether an answer to the filter takes an event.
Seqs == Seq(Event)
IsWanted(e, filter) == filter = {} \/ Matches(e, filter)

\* An answer under construction.
Acc == [used : Nat, out : Seqs, stop : BOOLEAN]

\* A run of stream_encode_sequence(_filtered) over the events q.
EncodedBy(f, q, filter) ==
    /\ f[0] = NothingYet
    /\ \A k \in 1 .. Len(q) : f[k] = Round(f[k - 1], q[k], IsWanted(q[k], filter))
    /\ Encoded(q, filter) = f[Len(q)].out

\* The same for the events that match, without a limit.
Keep(s, e, filter) == IF IsWanted(e, filter) THEN Append(s, e) ELSE s
WantedBy(f, filter) ==
    /\ f[0] = <<>>
    /\ \A k \in 1 .. Len(Queued) : f[k] = Keep(f[k - 1], Queued[k], filter)
    /\ Recent!Wanted(filter) = f[Len(Queued)]

\* The same for the total length.
BytesBy(f, s) ==
    /\ f[0] = 0
    /\ \A k \in 1 .. Len(s) : f[k] = f[k - 1] + s[k].len
    /\ Recent!Bytes(s) = f[Len(s)]

\* One round keeps the types of an answer.
LEMMA RoundType ==
    ASSUME NEW a \in Acc, NEW e \in Event, NEW w
    PROVE  Round(a, e, w) \in Acc
<1>1. a.used \in Nat /\ a.out \in Seqs /\ e.len \in Nat
  BY EventAssumption DEF Acc
<1>2. a.used + e.len \in Nat /\ Append(a.out, e) \in Seqs
  BY <1>1 DEF Seqs
<1>3. Copied(a, e) \in Acc
  BY <1>2 DEF Copied, Acc
<1>4. [a EXCEPT !.stop = TRUE] \in Acc
  BY DEF Acc
<1> QED
  BY <1>3, <1>4 DEF Round

\* The loop that encodes an answer has a run.
LEMMA EncodedRun ==
    ASSUME NEW q \in Seqs, NEW filter
    PROVE  \E f : EncodedBy(f, q, filter)
<1> DEFINE n == Len(q)
           g == [i \in 1 .. n |-> [x \in Acc |-> Round(x, q[i], IsWanted(q[i], filter))]]
           Eq(h) == h = [i \in 0 .. n |-> IF i = 0 THEN NothingYet
                                          ELSE Round(h[i - 1], q[i], IsWanted(q[i], filter))]
<1>1. n \in Nat /\ \A i \in 1 .. n : q[i] \in Event
  BY DEF Seqs
<1>2. \A x \in Acc : \A i \in 1 .. n : Round(x, q[i], IsWanted(q[i], filter)) \in Acc
  BY <1>1, RoundType
<1>3. g \in [1 .. n -> [Acc -> Acc]] /\ NothingYet \in Acc
  BY <1>2 DEF NothingYet, Acc, Seqs
<1>4. PICK it : it \in [0 .. n -> Acc] /\ Runs(it, n, NothingYet, g)
  <2> HIDE DEF g, n
  <2> QED BY <1>1, <1>3, RunExists
<1>5. Eq(it)
  <2>1. ASSUME NEW i \in 1 .. n
        PROVE  g[i][it[i - 1]] = Round(it[i - 1], q[i], IsWanted(q[i], filter))
    <3>1. i - 1 \in 0 .. n /\ it[i - 1] \in Acc
      BY <1>1, <1>4
    <3> QED BY <3>1
  <2>2. \A i \in 0 .. n : i # 0 => i \in 1 .. n
    BY <1>1
  <2> HIDE DEF g, n
  <2> QED BY <1>4, <2>1, <2>2 DEF Runs
<1>6. PICK h : Eq(h) /\ Encoded(q, filter) = h[n].out
  <2>1. Encoded(q, filter) = (CHOOSE h : Eq(h))[n].out
    BY Zenon DEF Encoded, IsWanted
  <2>2. Eq(CHOOSE h : Eq(h))
    <3> HIDE DEF Eq
    <3> QED BY <1>5
  <2> QED BY <2>1, <2>2
<1>7. h[0] = NothingYet /\ \A i \in 1 .. n : h[i] = Round(h[i - 1], q[i], IsWanted(q[i], filter))
  BY <1>1, <1>6
<1> QED
  BY <1>6, <1>7 DEF EncodedBy

\* So has the loop that filters.
LEMMA WantedRun ==
    ASSUME Queued \in Seqs, NEW filter
    PROVE  \E f : WantedBy(f, filter)
<1> DEFINE n == Len(Queued)
           g == [i \in 1 .. n |-> [x \in Seqs |-> Keep(x, Queued[i], filter)]]
           Eq(h) == h = [i \in 0 .. n |-> IF i = 0 THEN <<>>
                                          ELSE Keep(h[i - 1], Queued[i], filter)]
<1>1. n \in Nat /\ \A i \in 1 .. n : Queued[i] \in Event
  BY DEF Seqs
<1>2. \A x \in Seqs : \A i \in 1 .. n : Keep(x, Queued[i], filter) \in Seqs
  BY <1>1 DEF Keep, Seqs
<1>3. g \in [1 .. n -> [Seqs -> Seqs]] /\ <<>> \in Seqs
  BY <1>2 DEF Seqs
<1>4. PICK it : it \in [0 .. n -> Seqs] /\ Runs(it, n, <<>>, g)
  <2> HIDE DEF g, n
  <2> QED BY <1>1, <1>3, RunExists
<1>5. Eq(it)
  <2>1. ASSUME NEW i \in 1 .. n
        PROVE  g[i][it[i - 1]] = Keep(it[i - 1], Queued[i], filter)
    <3>1. i - 1 \in 0 .. n /\ it[i - 1] \in Seqs
      BY <1>1, <1>4
    <3> QED BY <3>1
  <2>2. \A i \in 0 .. n : i # 0 => i \in 1 .. n
    BY <1>1
  <2> HIDE DEF g, n
  <2> QED BY <1>4, <2>1, <2>2 DEF Runs
<1>6. PICK h : Eq(h) /\ Recent!Wanted(filter) = h[n]
  <2>1. Recent!Wanted(filter) = (CHOOSE h : Eq(h))[n]
    BY Zenon DEF Recent!Wanted, Recent!Matches, IsWanted, Matches, Keep
  <2>2. Eq(CHOOSE h : Eq(h))
    <3> HIDE DEF Eq
    <3> QED BY <1>5
  <2> QED BY <2>1, <2>2
<1>7. h[0] = <<>> /\ \A i \in 1 .. n : h[i] = Keep(h[i - 1], Queued[i], filter)
  BY <1>1, <1>6
<1> QED
  BY <1>6, <1>7 DEF WantedBy

\* So has the loop that adds up.
LEMMA BytesRun ==
    ASSUME NEW s \in Seqs
    PROVE  \E f : BytesBy(f, s)
<1> DEFINE n == Len(s)
           g == [i \in 1 .. n |-> [x \in Nat |-> (x + s[i].len)]]
           Eq(h) == h = [i \in 0 .. n |-> IF i = 0 THEN 0
                                          ELSE h[i - 1] + s[i].len]
<1>1. n \in Nat /\ \A i \in 1 .. n : s[i] \in Event
  BY DEF Seqs
<1>2. \A x \in Nat : \A i \in 1 .. n : (x + s[i].len) \in Nat
  BY <1>1, EventAssumption
<1>3. g \in [1 .. n -> [Nat -> Nat]] /\ 0 \in Nat
  BY <1>2
<1>4. PICK it : it \in [0 .. n -> Nat] /\ Runs(it, n, 0, g)
  <2> HIDE DEF g, n
  <2> QED BY <1>1, <1>3, RunExists
<1>5. Eq(it)
  <2>1. ASSUME NEW i \in 1 .. n
        PROVE  g[i][it[i - 1]] = it[i - 1] + s[i].len
    <3>1. i - 1 \in 0 .. n
      BY <1>1
    <3>2. it[i - 1] \in Nat
      <4> HIDE DEF n
      <4> QED BY <1>4, <3>1
    <3> QED BY <3>2
  <2>2. \A i \in 0 .. n : i # 0 => i \in 1 .. n
    BY <1>1
  <2> HIDE DEF g, n
  <2> QED BY <1>4, <2>1, <2>2 DEF Runs
<1>6. PICK h : Eq(h) /\ Recent!Bytes(s) = h[n]
  <2>1. Recent!Bytes(s) = (CHOOSE h : Eq(h))[n]
    BY Zenon DEF Recent!Bytes
  <2>2. Eq(CHOOSE h : Eq(h))
    <3> HIDE DEF Eq
    <3> QED BY <1>5
  <2> QED BY <2>1, <2>2
<1>7. h[0] = 0 /\ \A i \in 1 .. n : h[i] = h[i - 1] + s[i].len
  BY <1>1, <1>6
<1> QED
  BY <1>6, <1>7 DEF BytesBy

-----------------------------------------------------------------------------
(***************************************************************************)
(* The answer is the longest prefix that both limits allow.                *)
(***************************************************************************)

\* The total length, event by event.
LEMMA BytesAdd ==
    /\ Recent!Bytes(<<>>) = 0
    /\ \A s \in Seqs : Recent!Bytes(s) \in Nat
    /\ \A s \in Seqs, e \in Event : Recent!Bytes(Append(s, e)) = Recent!Bytes(s) + e.len
<1>1. Recent!Bytes(<<>>) = 0
  <2>1. <<>> \in Seqs /\ Len(<<>>) = 0
    BY DEF Seqs
  <2>2. PICK f : BytesBy(f, <<>>)
    BY <2>1, BytesRun
  <2> QED BY <2>1, <2>2 DEF BytesBy
<1>2. ASSUME NEW s \in Seqs
      PROVE  Recent!Bytes(s) \in Nat
  <2> DEFINE n == Len(s)
  <2>1. n \in Nat /\ \A i \in 1 .. n : s[i].len \in Nat
    BY EventAssumption DEF Seqs
  <2>2. PICK f : BytesBy(f, s)
    BY BytesRun
  <2> DEFINE T == {k \in 0 .. n : f[k] \in Nat}
  <2>3. 0 \in T /\ \A k \in 1 .. n : k - 1 \in T => k \in T
    <3>1. 0 \in T
      BY <2>1, <2>2 DEF BytesBy
    <3>2. ASSUME NEW k \in 1 .. n, k - 1 \in T
          PROVE  k \in T
      <4>1. f[k] = f[k - 1] + s[k].len
        BY <2>2 DEF BytesBy
      <4>2. f[k - 1] \in Nat /\ s[k].len \in Nat /\ k \in 0 .. n
        BY <2>1, <3>2
      <4> QED BY <4>1, <4>2
    <3> QED BY <3>1, <3>2
  <2>4. n \in T
    <3> HIDE DEF T, n
    <3> QED BY <2>1, <2>3, Counting
  <2> QED BY <2>2, <2>4 DEF BytesBy
<1>3. ASSUME NEW s \in Seqs, NEW e \in Event
      PROVE  Recent!Bytes(Append(s, e)) = Recent!Bytes(s) + e.len
  <2> DEFINE n == Len(s)
             t == Append(s, e)
  <2>1. /\ n \in Nat /\ t \in Seqs /\ Len(t) = n + 1 /\ t[n + 1] = e
        /\ \A i \in 1 .. n : t[i] = s[i]
    BY DEF Seqs
  <2>2. PICK f : BytesBy(f, s)
    BY BytesRun
  <2> HIDE DEF t
  <2>3. PICK h : BytesBy(h, t)
    BY <2>1, BytesRun
  <2> DEFINE T == {k \in 0 .. n : f[k] = h[k]}
  <2>4. 0 \in T
    BY <2>1, <2>2, <2>3 DEF BytesBy
  <2>5. ASSUME NEW k \in 1 .. n, k - 1 \in T
        PROVE  k \in T
    <3>1. k \in 1 .. Len(t) /\ k \in 0 .. n /\ t[k] = s[k] /\ f[k - 1] = h[k - 1]
      BY <2>1, <2>5
    <3>2. f[k] = f[k - 1] + s[k].len
      BY <2>2 DEF BytesBy
    <3>3. h[k] = h[k - 1] + t[k].len
      BY <2>3, <3>1 DEF BytesBy
    <3> QED BY <3>1, <3>2, <3>3
  <2>6. n \in T
    <3> HIDE DEF T, n
    <3>1. \A k \in 1 .. n : k - 1 \in T => k \in T
      BY <2>5
    <3>2. \A k \in 0 .. n : k \in T
      BY <2>1, <2>4, <3>1, Counting
    <3>3. n \in 0 .. n
      BY <2>1
    <3> QED BY <3>2, <3>3
  <2>7. h[n + 1] = h[n] + e.len
    <3>1. n + 1 \in 1 .. Len(t) /\ (n + 1) - 1 = n
      BY <2>1
    <3>2. h[n + 1] = h[(n + 1) - 1] + t[n + 1].len
      BY <2>3, <3>1 DEF BytesBy
    <3> QED BY <2>1, <3>1, <3>2
  <2> QED BY <2>1, <2>2, <2>3, <2>6, <2>7 DEF BytesBy, t
<1> QED
  BY <1>1, <1>2, <1>3

\* The answer a, with what matched so far in w: the first n events of w, all
\* of them unless the loop has stopped, and then a limit keeps the next out.
Prefix(w, a, n) ==
    /\ n \in 0 .. Len(w) /\ n <= MaxItems
    /\ a.out = SubSeq(w, 1, n)
    /\ a.used = Recent!Bytes(a.out)
    /\ \A m \in 0 .. n : Recent!Bytes(SubSeq(w, 1, m)) <= BufferSize
    /\ ~ a.stop => n = Len(w)
    /\ a.stop => \/ n = MaxItems
                 \/ n < Len(w) /\ Recent!Bytes(SubSeq(w, 1, n + 1)) > BufferSize

\* Prefixes of a sequence and of a longer one.
LEMMA PrefixesAre ==
    ASSUME NEW w \in Seqs, NEW e \in Event
    PROVE  /\ Append(w, e) \in Seqs /\ Len(Append(w, e)) = Len(w) + 1 /\ Len(w) \in Nat
           /\ \A m \in 0 .. Len(w) : SubSeq(Append(w, e), 1, m) = SubSeq(w, 1, m)
           /\ SubSeq(w, 1, Len(w)) = w
           /\ SubSeq(Append(w, e), 1, Len(w) + 1) = Append(w, e)
           /\ SubSeq(w, 1, 0) = <<>>
           /\ \A m \in 0 .. Len(w) : SubSeq(w, 1, m) \in Seqs /\ Len(SubSeq(w, 1, m)) = m
<1>1. Append(w, e) \in Seqs /\ Len(Append(w, e)) = Len(w) + 1 /\ Len(w) \in Nat
  BY DEF Seqs
<1>2. \A m \in 0 .. Len(w) : SubSeq(Append(w, e), 1, m) = SubSeq(w, 1, m)
  BY DEF Seqs
<1>3. SubSeq(w, 1, Len(w)) = w
  BY DEF Seqs
<1>4. SubSeq(Append(w, e), 1, Len(w) + 1) = Append(w, e)
  BY DEF Seqs
<1>5. SubSeq(w, 1, 0) = <<>>
  BY DEF Seqs
<1>6. \A m \in 0 .. Len(w) : SubSeq(w, 1, m) \in Seqs /\ Len(SubSeq(w, 1, m)) = m
  BY DEF Seqs
<1> QED
  BY <1>1, <1>2, <1>3, <1>4, <1>5, <1>6

\* Every round keeps it so.
LEMMA PrefixRound ==
    ASSUME NEW w \in Seqs, NEW a \in Acc, NEW e \in Event, NEW n, Prefix(w, a, n), NEW filter
    PROVE  \E m : Prefix(Keep(w, e, filter), Round(a, e, IsWanted(e, filter)), m)
<1> DEFINE v == Append(w, e)
           stopped == [a EXCEPT !.stop = TRUE]
<1>1. /\ n \in 0 .. Len(w) /\ n <= MaxItems /\ MaxItems \in Nat /\ BufferSize \in Nat
      /\ a.used \in Nat /\ e.len \in Nat /\ a.stop \in BOOLEAN /\ a.out = SubSeq(w, 1, n)
      /\ a.used = Recent!Bytes(a.out)
      /\ \A m \in 0 .. n : Recent!Bytes(SubSeq(w, 1, m)) <= BufferSize
      /\ ~ a.stop => n = Len(w)
      /\ a.stop => \/ n = MaxItems
                   \/ n < Len(w) /\ Recent!Bytes(SubSeq(w, 1, n + 1)) > BufferSize
  BY StreamAssumption, EventAssumption DEF Prefix, Acc
<1>2. /\ v \in Seqs /\ Len(v) = Len(w) + 1 /\ Len(w) \in Nat
      /\ \A m \in 0 .. Len(w) : SubSeq(v, 1, m) = SubSeq(w, 1, m)
      /\ SubSeq(w, 1, Len(w)) = w
      /\ SubSeq(v, 1, Len(w) + 1) = v
      /\ Len(SubSeq(w, 1, n)) = n
  BY <1>1, PrefixesAre
<1>3. Recent!Bytes(v) = Recent!Bytes(w) + e.len
  BY BytesAdd
<1>4. stopped.out = a.out /\ stopped.used = a.used /\ stopped.stop = TRUE
  BY DEF Acc
<1>5. Keep(w, e, filter) = IF IsWanted(e, filter) THEN v ELSE w
  BY DEF Keep
<1> HIDE DEF v, stopped
<1>9. /\ n \in Nat /\ Len(w) \in Nat /\ n <= Len(w) /\ n <= MaxItems /\ MaxItems \in Nat
      /\ Len(a.out) = n /\ Len(v) = Len(w) + 1
  <2>1. n \in 0 .. Len(w) /\ Len(w) \in Nat /\ n <= MaxItems /\ MaxItems \in Nat
    BY <1>1, <1>2
  <2>2. Len(a.out) = n
    BY <1>1, <1>2
  <2>3. Len(v) = Len(w) + 1
    BY <1>2
  <2> QED BY <2>1, <2>2, <2>3
<1>6. CASE a.stop \/ Len(a.out) >= MaxItems
  <2>1. Round(a, e, IsWanted(e, filter)) = stopped
    BY <1>6 DEF Round, stopped
  <2>2. n = MaxItems \/ (n < Len(w) /\ Recent!Bytes(SubSeq(w, 1, n + 1)) > BufferSize)
    <3>1. a.stop \/ n = MaxItems
      BY <1>6, <1>9
    <3> QED BY <1>1, <3>1
  <2>3. Prefix(w, stopped, n)
    BY <1>1, <1>2, <1>4, <2>2 DEF Prefix
  <2>4. Prefix(v, stopped, n)
    <3>1. n \in 0 .. Len(v) /\ \A m \in 0 .. n : m \in 0 .. Len(w)
      BY <1>9
    <3>2. n < Len(w) => n + 1 \in 0 .. Len(w) /\ n < Len(v)
      BY <1>9
    <3>3. \A m \in 0 .. n : SubSeq(v, 1, m) = SubSeq(w, 1, m)
      BY <1>2, <3>1
    <3>4. n = MaxItems \/ (n < Len(v) /\ Recent!Bytes(SubSeq(v, 1, n + 1)) > BufferSize)
      BY <1>2, <2>2, <3>2
    <3>5. stopped.out = SubSeq(v, 1, n)
      BY <1>1, <1>2, <1>4
    <3> QED BY <1>1, <1>4, <3>1, <3>3, <3>4, <3>5 DEF Prefix
  <2> QED BY <1>5, <2>1, <2>3, <2>4
<1>7. CASE ~ (a.stop \/ Len(a.out) >= MaxItems) /\ ~ IsWanted(e, filter)
  <2>1. Round(a, e, IsWanted(e, filter)) = a
    BY <1>7 DEF Round
  <2> QED BY <1>5, <1>7, <2>1
<1>8. CASE ~ (a.stop \/ Len(a.out) >= MaxItems) /\ IsWanted(e, filter)
  <2>1. n = Len(w) /\ a.out = w /\ Len(a.out) = n /\ n + 1 <= MaxItems /\ Keep(w, e, filter) = v
    <3>1. n = Len(w) /\ n + 1 <= MaxItems
      BY <1>1, <1>8, <1>9
    <3> QED BY <1>1, <1>2, <1>5, <1>8, <1>9, <3>1
  <2>2. Recent!Bytes(SubSeq(v, 1, n + 1)) = a.used + e.len /\ n < Len(v) /\ n + 1 \in 0 .. Len(v)
    <3>1. n < Len(v) /\ n + 1 \in 0 .. Len(v)
      BY <1>9, <2>1
    <3>2. SubSeq(v, 1, n + 1) = v
      BY <1>2, <2>1
    <3> QED BY <1>1, <1>3, <2>1, <3>1, <3>2
  <2>3. \A m \in 0 .. n : Recent!Bytes(SubSeq(v, 1, m)) <= BufferSize
    BY <1>1, <1>2, <2>1
  <2>4. CASE a.used + e.len > BufferSize
    <3>1. Round(a, e, IsWanted(e, filter)) = stopped
      BY <1>8, <2>4 DEF Round, stopped
    <3>2. stopped.out = SubSeq(v, 1, n) /\ n \in 0 .. Len(v)
      <4>1. n \in 0 .. Len(v) /\ n \in 0 .. Len(w)
        BY <1>9
      <4> QED BY <1>1, <1>2, <1>4, <4>1
    <3>3. Prefix(v, stopped, n)
      BY <1>1, <1>4, <2>2, <2>3, <2>4, <3>2 DEF Prefix
    <3> QED BY <2>1, <3>1, <3>3
  <2>5. CASE ~ (a.used + e.len > BufferSize)
    <3> DEFINE b == Copied(a, e)
    <3>1. Round(a, e, IsWanted(e, filter)) = b
      BY <1>8, <2>5 DEF Round
    <3>2. b.out = v /\ b.used = a.used + e.len /\ b.stop = a.stop
      BY <2>1 DEF Copied, Acc, v
    <3> HIDE DEF b
    <3>3. \A m \in 0 .. n + 1 : Recent!Bytes(SubSeq(v, 1, m)) <= BufferSize
      <4>1. a.used + e.len <= BufferSize
        BY <1>1, <2>5
      <4>2. \A m \in 0 .. n + 1 : m \in 0 .. n \/ m = n + 1
        BY <1>1
      <4> QED BY <2>2, <2>3, <4>1, <4>2
    <3>4. Recent!Bytes(v) = b.used /\ SubSeq(v, 1, n + 1) = v /\ n + 1 = Len(v)
      BY <1>2, <2>1, <2>2, <3>2
    <3>5. Prefix(v, b, n + 1)
      BY <1>8, <2>1, <2>2, <3>2, <3>3, <3>4 DEF Prefix
    <3> QED BY <2>1, <3>1, <3>5
  <2> QED BY <2>4, <2>5
<1> QED
  BY <1>6, <1>7, <1>8

\* Whatever is queued and whatever the filter, the answer to a read is one
\* that RecentLog allows.
LEMMA ReadIsRead ==
    ASSUME Queued \in Seqs, NEW f, stream_read(f), Queued' = Queued
    PROVE  Recent!Read(f) /\ view' \in Seqs
<1> DEFINE q == Queued
           k == Len(q)
           w == Recent!Wanted(f)
<1>1. k \in Nat /\ \A i \in 1 .. k : q[i] \in Event
  BY DEF Seqs
<1>2. PICK A : EncodedBy(A, q, f)
  BY EncodedRun
<1>3. PICK W : WantedBy(W, f)
  BY WantedRun
<1> DEFINE T == {i \in 0 .. k : W[i] \in Seqs /\ A[i] \in Acc /\ \E n : Prefix(W[i], A[i], n)}
<1>4. 0 \in T
  <2>1. W[0] = <<>> /\ A[0] = NothingYet /\ <<>> \in Seqs /\ NothingYet \in Acc
    BY <1>2, <1>3 DEF WantedBy, EncodedBy, NothingYet, Acc, Seqs
  <2>2. SubSeq(<<>>, 1, 0) = <<>> /\ Len(<<>>) = 0
    OBVIOUS
  <2>3. NothingYet.out = <<>> /\ NothingYet.used = 0 /\ NothingYet.stop = FALSE
    BY DEF NothingYet
  <2>4. Prefix(<<>>, NothingYet, 0)
    <3>1. MaxItems \in Nat /\ BufferSize \in Nat /\ Recent!Bytes(<<>>) = 0
      BY BytesAdd, StreamAssumption
    <3>2. \A m \in 0 .. 0 : m = 0
      OBVIOUS
    <3>3. 0 \in 0 .. Len(<<>>) /\ 0 <= MaxItems /\ 0 <= BufferSize
      BY <3>1
    <3>4. \A m \in 0 .. 0 : Recent!Bytes(SubSeq(<<>>, 1, m)) <= BufferSize
      BY <2>2, <3>1, <3>2, <3>3
    <3> QED BY <2>2, <2>3, <3>1, <3>3, <3>4, Zenon DEF Prefix
  <2> QED BY <1>1, <2>1, <2>4
<1>5. ASSUME NEW i \in 1 .. k, i - 1 \in T
      PROVE  i \in T
  <2>1. W[i - 1] \in Seqs /\ A[i - 1] \in Acc /\ q[i] \in Event /\ i \in 0 .. k
    BY <1>1, <1>5
  <2>2. PICK n : Prefix(W[i - 1], A[i - 1], n)
    BY <1>5
  <2>3. W[i] = Keep(W[i - 1], q[i], f) /\ A[i] = Round(A[i - 1], q[i], IsWanted(q[i], f))
    BY <1>2, <1>3 DEF WantedBy, EncodedBy
  <2> HIDE DEF q, k
  <2>4. W[i] \in Seqs /\ A[i] \in Acc
    BY <2>1, <2>3, RoundType DEF Keep, Seqs
  <2>5. \E m : Prefix(W[i], A[i], m)
    BY <2>1, <2>2, <2>3, PrefixRound
  <2> QED BY <2>1, <2>4, <2>5
<1>6. k \in T
  <2> HIDE DEF T, k
  <2> QED BY <1>1, <1>4, <1>5, Counting
<1>7. w = W[k] /\ view' = A[k].out /\ w \in Seqs
  BY <1>2, <1>3, <1>6 DEF WantedBy, EncodedBy, stream_read
<1>8. PICK n : Prefix(w, A[k], n)
  BY <1>6, <1>7
<1> DEFINE Fits(m) == m <= MaxItems /\ Recent!Bytes(SubSeq(w, 1, m)) <= BufferSize
<1> HIDE DEF w, k, q
<1>9. /\ n \in 0 .. Len(w)
      /\ \A m \in 0 .. n : Fits(m)
      /\ n < Len(w) => ~ Fits(n + 1)
      /\ view' = SubSeq(w, 1, n)
  <2>1. /\ n \in 0 .. Len(w) /\ n <= MaxItems /\ MaxItems \in Nat /\ Len(w) \in Nat
        /\ view' = SubSeq(w, 1, n)
        /\ \A m \in 0 .. n : Recent!Bytes(SubSeq(w, 1, m)) <= BufferSize
        /\ ~ A[k].stop => n = Len(w)
        /\ A[k].stop => \/ n = MaxItems
                        \/ n < Len(w) /\ Recent!Bytes(SubSeq(w, 1, n + 1)) > BufferSize
    BY <1>7, <1>8, StreamAssumption DEF Prefix, Seqs
  <2>2. ASSUME n < Len(w)
        PROVE  ~ Fits(n + 1)
    <3>1. SubSeq(w, 1, n + 1) \in Seqs
      BY <1>7, <2>1, <2>2 DEF Seqs
    <3>2. Recent!Bytes(SubSeq(w, 1, n + 1)) \in Nat /\ BufferSize \in Nat
      BY <3>1, BytesAdd, StreamAssumption
    <3> QED BY <2>1, <2>2, <3>2
  <2> QED BY <2>1, <2>2
<1>10. view' \in Seqs
  BY <1>7, <1>9 DEF Seqs
<1> HIDE DEF Fits
<1> QED
  BY <1>9, <1>10 DEF Recent!Read, Fits, w

-----------------------------------------------------------------------------
(***************************************************************************)
(* The array implements the log.                                           *)
(***************************************************************************)

\* The slots below the counter, read as a sequence.
LEMMA QueuedSeq ==
    ASSUME IInv
    PROVE  /\ Queued \in Seqs /\ Len(Queued) = count /\ count \in Nat
           /\ \A i \in 1 .. count : Queued[i] = slots[i - 1].event
<1>1. count \in Nat
  BY StreamAssumption DEF IInv
<1>2. ASSUME NEW i \in 1 .. count
      PROVE  slots[i - 1].event \in Event
  <2>1. i - 1 \in 0 .. count - 1
    BY <1>1
  <2>2. slots[i - 1] \in Full
    BY <2>1 DEF IInv, SlotsOwnLive
  <2> QED BY <2>2 DEF Full
<1> QED
  BY <1>1, <1>2 DEF Queued, Seqs

\* What QueuedSeq says, as a state predicate.
QueuedIsSeq ==
    /\ Queued \in Seqs /\ Len(Queued) = count /\ count \in Nat
    /\ \A i \in 1 .. count : Queued[i] = slots[i - 1].event

\* The same of the next state.
LEMMA QueuedSeqNext ==
    IInv' => /\ Queued' \in Seqs /\ Len(Queued') = count' /\ count' \in Nat
             /\ \A i \in 1 .. count' : Queued'[i] = slots'[i - 1].event
<1>1. IInv => QueuedIsSeq
  BY QueuedSeq DEF QueuedIsSeq
<1>2. IInv' => QueuedIsSeq'
  BY <1>1, PTL
<1> QED
  BY <1>2 DEF QueuedIsSeq

\* stream_push_event puts the event in front and forgets the oldest one of a
\* full array.
LEMMA PushIsPush ==
    ASSUME IInv, NEW e \in Event, NEW p \in Copy, stream_push_event(e, p)
    PROVE  Recent!Push(e)
<1> DEFINE q == Queued
           r == IF Len(q) = MaxEvents THEN SubSeq(q, 1, MaxEvents - 1) ELSE q
           s == <<e>> \o r
<1>1. IInv'
  BY PushIInv
<1>2. /\ q \in Seqs /\ Len(q) = count /\ count \in Nat
      /\ \A i \in 1 .. count : q[i] = slots[i - 1].event
  BY QueuedSeq
<1>3. /\ q' \in Seqs /\ Len(q') = count' /\ count' \in Nat
      /\ \A i \in 1 .. count' : q'[i] = slots'[i - 1].event
  BY <1>1, QueuedSeqNext
<1>4. MaxEvents \in Nat \ {0} /\ count \in 0 .. MaxEvents /\ Kept \in 0 .. MaxEvents - 1 /\ Kept <= count
  BY PushKeeps, StreamAssumption DEF IInv
<1>5. count' = Kept + 1 /\ slots' = Shifted(p, e)
  BY DEF stream_push_event
<1>6. /\ slots'[0].event = e
      /\ \A i \in 1 .. Kept : slots'[i] = slots[i - 1]
  BY <1>4, <1>5 DEF Shifted, Slot
<1> HIDE DEF q
<1>7. /\ r \in Seqs /\ Len(r) = Kept
      /\ \A i \in 1 .. Kept : r[i] = q[i]
  <2>1. CASE count = MaxEvents
    BY <1>2, <1>4, <2>1 DEF Kept, Seqs
  <2>2. CASE count # MaxEvents
    BY <1>2, <1>4, <2>2 DEF Kept
  <2> QED BY <2>1, <2>2
<1> HIDE DEF r
<1>8. /\ s \in Seqs /\ Len(s) = Kept + 1 /\ s[1] = e
      /\ \A i \in 1 .. Kept : s[i + 1] = r[i]
  <2>1. <<e>> \in Seqs /\ Len(<<e>>) = 1 /\ <<e>>[1] = e
    BY DEF Seqs
  <2> QED BY <1>4, <1>7, <2>1 DEF Seqs
<1>9. ASSUME NEW i \in 1 .. Kept + 1
      PROVE  q'[i] = s[i]
  <2>1. i \in 1 .. count'
    BY <1>5
  <2>2. CASE i = 1
    <3>1. i - 1 = 0
      BY <2>2
    <3> QED BY <1>3, <1>6, <1>8, <2>1, <2>2, <3>1
  <2>3. CASE i # 1
    <3>1. i - 1 \in 1 .. Kept /\ i - 1 \in 1 .. count /\ (i - 1) + 1 = i
      BY <1>2, <1>4, <2>3
    <3>2. q'[i] = slots[(i - 1) - 1].event
      BY <1>3, <1>6, <2>1, <3>1
    <3>3. q[i - 1] = slots[(i - 1) - 1].event
      BY <1>2, <3>1
    <3> QED BY <1>7, <1>8, <3>1, <3>2, <3>3
  <2> QED BY <2>2, <2>3
<1> HIDE DEF s
<1>10. q' = s
  <2>1. Len(q') = Len(s)
    BY <1>3, <1>5, <1>8
  <2>2. \A i \in 1 .. Len(q') : q'[i] = s[i]
    BY <1>3, <1>5, <1>9
  <2> QED BY <1>3, <1>8, <2>1, <2>2, SeqEqual DEF Seqs
<1>11. view' = view
  BY DEF stream_push_event
<1> QED
  BY <1>10, <1>11 DEF Recent!Push, q, r, s

\* stream_clear_events leaves an empty log.
LEMMA ClearIsClear ==
    ASSUME IInv, stream_clear_events
    PROVE  Recent!Clear
<1>1. IInv'
  BY ClearIInv
<1>2. Queued' \in Seqs /\ Len(Queued') = count'
  BY <1>1, QueuedSeqNext
<1>3. count' = 0 /\ view' = view
  BY DEF stream_clear_events
<1>4. Queued' = <<>>
  BY <1>2, <1>3, EmptySeq DEF Seqs
<1> QED
  BY <1>3, <1>4 DEF Recent!Clear

\* The types, answers included: an answer on /s is a sequence of events that
\* were pushed.
TypeInv == IInv /\ view \in Seqs

\* Reads keep the queue and answer with events.
LEMMA TypeInvariant == StreamSpec => []TypeInv
<1>1. StreamInit => TypeInv
  BY StreamAssumption DEF StreamInit, TypeInv, IInv, SlotsOwnLive, Seqs
<1>2. TypeInv /\ [StreamNext]_streamVars => TypeInv'
  <2> SUFFICES ASSUME TypeInv, [StreamNext]_streamVars PROVE TypeInv'
    OBVIOUS
  <2>1. ASSUME NEW e \in Event, NEW p \in Copy, stream_push_event(e, p)
        PROVE  TypeInv'
    BY <2>1, PushIInv DEF TypeInv, stream_push_event
  <2>2. CASE stream_clear_events
    BY <2>2, ClearIInv DEF TypeInv, stream_clear_events
  <2>3. ASSUME NEW f \in Filter, stream_read(f)
        PROVE  TypeInv'
    <3>1. IInv' /\ Queued' = Queued
      BY <2>3 DEF stream_read, TypeInv, IInv, SlotsOwnLive, Queued
    <3>2. Queued \in Seqs
      BY QueuedSeq DEF TypeInv
    <3> QED BY <2>3, <3>1, <3>2, ReadIsRead DEF TypeInv
  <2>4. CASE UNCHANGED streamVars
    BY <2>4 DEF streamVars, TypeInv, IInv, SlotsOwnLive
  <2> QED
    BY <2>1, <2>2, <2>3, <2>4 DEF StreamNext
<1> QED
  BY <1>1, <1>2, PTL DEF StreamSpec

\* The types hold: slots hold a copy or NULL, the counter never exceeds
\* STREAM_MAX_EVENTS, and every answer is a sequence of pushed events.
THEOREM EventStreamTypes == StreamSpec => []StreamTypeOK
<1>1. TypeInv => StreamTypeOK
  BY DEF TypeInv, IInv, StreamTypeOK, Seqs
<1> QED
  BY <1>1, TypeInvariant, PTL

\* Shifting the array, dropping the last slot and the encoding loop with its
\* skips, its item limit and its early stop implement RecentLog: the newest
\* MaxEvents events are remembered in order, and an answer is the longest
\* prefix of the matching ones that the item limit and the buffer allow, for
\* every array, limit, buffer, filter and set of events.
THEOREM StreamImplementsRecentLog == StreamSpec => ImplementsRecentLog
<1>1. StreamInit => Recent!Init
  <2> SUFFICES ASSUME StreamInit PROVE Recent!Init
    OBVIOUS
  <2>1. IInv
    BY StreamAssumption DEF StreamInit, IInv, SlotsOwnLive
  <2>2. Queued \in Seqs /\ Len(Queued) = 0
    BY <2>1, QueuedSeq DEF StreamInit
  <2>3. Queued = <<>>
    BY <2>2, EmptySeq DEF Seqs
  <2> QED BY <2>3 DEF StreamInit, Recent!Init
<1>2. TypeInv /\ [StreamNext]_streamVars => [Recent!Next]_(Recent!vars)
  <2> SUFFICES ASSUME TypeInv, [StreamNext]_streamVars PROVE [Recent!Next]_(Recent!vars)
    OBVIOUS
  <2>0. IInv
    BY DEF TypeInv
  <2>1. ASSUME NEW e \in Event, NEW p \in Copy, stream_push_event(e, p)
        PROVE  Recent!Next
    BY <2>0, <2>1, PushIsPush DEF Recent!Next
  <2>2. CASE stream_clear_events
    BY <2>0, <2>2, ClearIsClear DEF Recent!Next
  <2>3. ASSUME NEW f \in Filter, stream_read(f)
        PROVE  Recent!Next
    <3>1. Queued' = Queued
      BY <2>3 DEF stream_read, Queued
    <3>2. Queued \in Seqs
      BY <2>0, QueuedSeq
    <3> QED BY <2>3, <3>1, <3>2, ReadIsRead DEF Recent!Next
  <2>4. CASE UNCHANGED streamVars
    BY <2>4 DEF streamVars, Recent!vars, Queued
  <2> QED
    BY <2>1, <2>2, <2>3, <2>4 DEF StreamNext
<1> QED
  BY <1>1, <1>2, TypeInvariant, PTL DEF StreamSpec, ImplementsRecentLog, Recent!Spec
=============================================================================
