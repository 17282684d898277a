----------------------------- MODULE RobinHood ------------------------------
(***************************************************************************)
(* The open-addressing hash map of src/hashmap.c, which holds the key      *)
(* mappings and the SID lookup lists.  An entry knows its distance from    *)
(* its home bucket (dib, 1 at home, 0 in an empty bucket); a set takes the *)
(* bucket of any entry that is nearer home and carries that entry on.      *)
(* Every loop of the code is a step: one probe, one bucket moved by a      *)
(* resize, one bucket shifted back by a delete.  An allocation may fail.   *)
(* The bytes of a bucket whose dib is 0 are never read and are left out.   *)
(***************************************************************************)
EXTENDS Integers, Sequences, FiniteSets

CONSTANTS
    Key, Value,  \* what compare tells apart, and the rest of an item
    Null,        \* the NULL that set, get and delete return
    Hash,        \* clip_hash(map->hash(key))
    MinCap,      \* 16: the smallest number of buckets
    GrowPct,     \* 60: GROW_AT as a percentage
    ClearPct,    \* 75: the growat that hashmap_clear sets instead
    ShrinkPct,   \* 10: SHRINK_AT as a percentage
    AskedCap,    \* the capacities hashmap_new is called with
    GrowPowers,  \* what hashmap_set_grow_by_power is called with
    MaxBuckets   \* bound: an allocation of more buckets fails

VARIABLES
    map,   \* struct hashmap
    call,  \* the call in progress: its loop and its locals
    ret    \* the call that ended last and what it returned

vars == <<map, call, ret>>

Empty == [dib |-> 0]
Entry(k, v) == [dib |-> 1, hash |-> Hash[k], key |-> k, value |-> v]

NBuckets(m) == Cardinality(DOMAIN m.buckets)
Home(e, n) == e.hash % n

\* n * (1 << p): n doubled p times.
Doubled(n, p) ==
    LET d[i \in 0 .. p] == IF i = 0 THEN n ELSE 2 * d[i - 1] IN d[p]

\* The capacity, doubled from MinCap on until it is large enough.
RoundCap(c) ==
    LET p == CHOOSE p \in 0 .. c : /\ Doubled(MinCap, p) >= c
                                   /\ \A q \in 0 .. p - 1 : Doubled(MinCap, q) < c
    IN  Doubled(MinCap, p)

\* Mutant: the load limit lets the last bucket be taken.
GrowWhenFull(n) == n

GrowAt(n) == (n * GrowPct) \div 100
ShrinkAt(n) == (n * ShrinkPct) \div 100

\* The growat that hashmap_clear sets.
ClearedAt(n) == (n * ClearPct) \div 100

ASSUME HashAssumption == Hash \in [Key -> Nat]
ASSUME NullAssumption == Null \notin Value
ASSUME CapAssumption == MinCap \in Nat \ {0} /\ MinCap % 2 = 0 /\ MaxBuckets \in Nat

\* Half a table has room for what a shrinking one holds, and a table of twice
\* the size for what a full one holds and one more.
ASSUME LoadAssumption ==
    /\ GrowPct \in 1 .. 99 /\ ClearPct \in 1 .. 99 /\ ShrinkPct \in Nat
    /\ 2 * ShrinkPct <= GrowPct
    /\ \A n \in MinCap .. MaxBuckets : /\ GrowAt(n) < GrowAt(2 * n)
                                      /\ ClearedAt(n) < GrowAt(2 * n)

\* The maps that are made could be allocated.
ASSUME PowerAssumption ==
    GrowPowers \subseteq Nat /\ AskedCap \subseteq {c \in Nat : RoundCap(c) <= MaxBuckets}

NoBuckets(n) == [i \in 0 .. n - 1 |-> Empty]

hashmap_new(cap) ==
    LET n == RoundCap(cap) IN
    [buckets |-> NoBuckets(n), cap |-> n, count |-> 0, growat |-> GrowAt(n),
     shrinkat |-> ShrinkAt(n), growpower |-> 1, oom |-> FALSE]

Idle == [pc |-> "idle"]

Init ==
    /\ map \in {hashmap_new(c) : c \in AskedCap}
    /\ call = Idle
    /\ ret = [op |-> "create"]

-----------------------------------------------------------------------------
Return(op, k, item) ==
    /\ call' = Idle
    /\ ret' = [op |-> op, key |-> k, item |-> item, oom |-> map'.oom]

\* An entry that leaves bucket i for the next one.
Further(e) == [e EXCEPT !.dib = @ + 1]

\* Mutant: an entry is taken for the key when only the hashes agree.
SameHash(e, b) == e.hash = b.hash

SameItem(e, b) == e.hash = b.hash /\ e.key = b.key

\* Mutant: the entry in hand never takes the place of a nearer one.
NeverDisplaces(b, e) == FALSE

Displaces(b, e) == b.dib < e.dib

\* One probe of an insertion of e in the buckets bs, the bucket being taken:
\* who stays, and who is carried on.
Stays(b, e) == IF Displaces(b, e) THEN e ELSE b
Carried(b, e) == IF Displaces(b, e) THEN b ELSE e

\* Mutant: set returns the item it was given.
GivesNew(b, e) == e.value

\* The spare that set returns when it replaces the item of b.
Replaced(b, e) == b.value

StartSet(k, v, m) ==
    [pc |-> "set", key |-> k, hand |-> Entry(k, v), i |-> Hash[k] % NBuckets(m)]

StartResize(n, then, k, item) ==
    [pc |-> "resize", to |-> NoBuckets(RoundCap(n)), i |-> 0, j |-> 0,
     hand |-> Empty, then |-> then, key |-> k, item |-> item]

\* resize0 gives up when the new map cannot be allocated.
CanResize(n) == RoundCap(n) <= MaxBuckets

hashmap_set(k, v) ==
    /\ call.pc = "idle"
    /\ LET full == map.count = map.growat
           n    == Doubled(NBuckets(map), map.growpower)
       IN  \/ /\ full
              /\ map' = [map EXCEPT !.oom = TRUE]
              /\ Return("set", k, Null)
           \/ /\ full /\ CanResize(n)
              /\ map' = [map EXCEPT !.oom = FALSE]
              /\ call' = StartResize(n, "set", k, v)
              /\ UNCHANGED ret
           \/ /\ ~full
              /\ map' = [map EXCEPT !.oom = FALSE]
              /\ call' = StartSet(k, v, map)
              /\ UNCHANGED ret

\* One turn of the loop of hashmap_set_with_hash.
SetProbe ==
    /\ call.pc = "set"
    /\ LET b == map.buckets[call.i]
           e == call.hand
       IN  \/ /\ b.dib = 0
              /\ map' = [map EXCEPT !.buckets[call.i] = e, !.count = @ + 1]
              /\ Return("set", call.key, Null)
           \/ /\ b.dib # 0 /\ SameItem(e, b)
              /\ map' = [map EXCEPT !.buckets[call.i].key = e.key,
                                    !.buckets[call.i].value = e.value]
              /\ Return("set", call.key, Replaced(b, e))
           \/ /\ b.dib # 0 /\ ~SameItem(e, b)
              /\ map' = [map EXCEPT !.buckets[call.i] = Stays(b, e)]
              /\ call' = [call EXCEPT !.hand = Further(Carried(b, e)),
                                      !.i = (@ + 1) % NBuckets(map)]
              /\ UNCHANGED ret

\* resize0 takes the next bucket of the old table.
ResizeNext ==
    /\ call.pc = "resize" /\ call.hand.dib = 0 /\ call.i < NBuckets(map)
    /\ LET b == map.buckets[call.i]
       IN  call' = IF b.dib = 0
                     THEN [call EXCEPT !.i = @ + 1]
                     ELSE [call EXCEPT !.hand = [b EXCEPT !.dib = 1],
                                       !.j = Home(b, Cardinality(DOMAIN call.to))]
    /\ UNCHANGED <<map, ret>>

\* ... and looks for a place for it in the new one.
ResizeProbe ==
    /\ call.pc = "resize" /\ call.hand.dib # 0
    /\ LET b == call.to[call.j]
           e == call.hand
       IN  call' = IF b.dib = 0
                     THEN [call EXCEPT !.to[call.j] = e, !.hand = Empty,
                                       !.i = @ + 1]
                     ELSE [call EXCEPT !.to[call.j] = Stays(b, e),
                                       !.hand = Further(Carried(b, e)),
                                       !.j = (@ + 1) % Cardinality(DOMAIN call.to)]
    /\ UNCHANGED <<map, ret>>

\* The new buckets replace the old ones and the caller goes on.
ResizeEnd ==
    /\ call.pc = "resize" /\ call.hand.dib = 0 /\ call.i = NBuckets(map)
    /\ LET n == Cardinality(DOMAIN call.to)
       IN  map' = [map EXCEPT !.buckets = call.to, !.growat = GrowAt(n),
                              !.shrinkat = ShrinkAt(n)]
    /\ \/ /\ call.then = "set"
          /\ call' = StartSet(call.key, call.item, map')
          /\ UNCHANGED ret
       \/ call.then = "delete" /\ Return("delete", call.key, call.item)

\* get and delete look for the key from its home bucket to a hole.
hashmap_get(k) ==
    /\ call.pc = "idle"
    /\ call' = [pc |-> "get", key |-> k, i |-> Hash[k] % NBuckets(map)]
    /\ UNCHANGED <<map, ret>>

GetProbe ==
    /\ call.pc = "get"
    /\ UNCHANGED map
    /\ LET b == map.buckets[call.i]
       IN  \/ b.dib = 0 /\ Return("get", call.key, Null)
           \/ b.dib # 0 /\ SameItem(Entry(call.key, Null), b)
              /\ Return("get", call.key, b.value)
           \/ /\ b.dib # 0 /\ ~SameItem(Entry(call.key, Null), b)
              /\ call' = [call EXCEPT !.i = (@ + 1) % NBuckets(map)]
              /\ UNCHANGED ret

hashmap_delete(k) ==
    /\ call.pc = "idle"
    /\ map' = [map EXCEPT !.oom = FALSE]
    /\ call' = [pc |-> "delete", key |-> k, i |-> Hash[k] % NBuckets(map)]
    /\ UNCHANGED ret

DeleteProbe ==
    /\ call.pc = "delete"
    /\ LET b == map.buckets[call.i]
       IN  \/ b.dib = 0 /\ UNCHANGED map /\ Return("delete", call.key, Null)
           \/ /\ b.dib # 0 /\ SameItem(Entry(call.key, Null), b)
              /\ map' = [map EXCEPT !.buckets[call.i] = Empty]
              /\ call' = [pc |-> "shift", key |-> call.key, i |-> call.i, item |-> b.value]
              /\ UNCHANGED ret
           \/ /\ b.dib # 0 /\ ~SameItem(Entry(call.key, Null), b)
              /\ call' = [call EXCEPT !.i = (@ + 1) % NBuckets(map)]
              /\ UNCHANGED <<map, ret>>

\* The entries behind the hole have all moved up when the next one is at
\* home or there is none.
ShiftEnds(b) == b.dib <= 1

\* The entry behind the hole at call.i moves up, one bucket nearer home; after
\* the last one the table shrinks when few entries are left, unless the
\* smaller table cannot be allocated.
DeleteShift ==
    /\ call.pc = "shift"
    /\ LET i == (call.i + 1) % NBuckets(map)
           b == map.buckets[i]
           small == NBuckets(map) > map.cap /\ map.count - 1 <= map.shrinkat
       IN  \/ /\ ~ShiftEnds(b)
              /\ map' = [map EXCEPT !.buckets[call.i] = [b EXCEPT !.dib = @ - 1],
                                    !.buckets[i] = Empty]
              /\ call' = [call EXCEPT !.i = i]
              /\ UNCHANGED ret
           \/ /\ ShiftEnds(b)
              /\ map' = [map EXCEPT !.count = @ - 1]
              /\ Return("delete", call.key, call.item)
           \/ /\ ShiftEnds(b) /\ small /\ CanResize(NBuckets(map) \div 2)
              /\ map' = [map EXCEPT !.count = @ - 1]
              /\ call' = StartResize(NBuckets(map) \div 2, "delete", call.key, call.item)
              /\ UNCHANGED ret

\* All entries go; the table keeps its size or gets its first one back.  When
\* the smaller table cannot be allocated the larger one is used as if it were.
hashmap_clear(update_cap) ==
    /\ call.pc = "idle"
    /\ LET n == IF update_cap THEN NBuckets(map) ELSE map.cap
       IN  map' = [map EXCEPT !.buckets = NoBuckets(n), !.cap = n, !.count = 0,
                              !.growat = ClearedAt(n),
                              !.shrinkat = ShrinkAt(n)]
    /\ ret' = [op |-> "clear"]
    /\ UNCHANGED call

hashmap_set_grow_by_power(power) ==
    /\ call.pc = "idle"
    /\ map' = [map EXCEPT !.growpower = IF power < 1 THEN 1
                                        ELSE IF power > 16 THEN 16 ELSE power]
    /\ UNCHANGED <<call, ret>>

\* A caller walks the whole map with hashmap_iter (or hashmap_scan).
WalkStart ==
    /\ call.pc = "idle"
    /\ call' = [pc |-> "walk", i |-> 0, seen |-> <<>>]
    /\ UNCHANGED <<map, ret>>

hashmap_iter ==
    /\ call.pc = "walk"
    /\ LET b == map.buckets[call.i]
       IN  call' = IF call.i = NBuckets(map) THEN Idle
                   ELSE [call EXCEPT !.i = @ + 1,
                                     !.seen = IF b.dib = 0 THEN @ ELSE Append(@, b.key)]
    /\ UNCHANGED <<map, ret>>

\* hashmap_free; the caller makes a new map before the next use.
hashmap_free(cap) ==
    /\ call.pc = "idle"
    /\ map' = hashmap_new(cap)
    /\ ret' = [op |-> "free"]
    /\ UNCHANGED call

Call ==
    \/ \E k \in Key, v \in Value : hashmap_set(k, v)
    \/ \E k \in Key : hashmap_get(k)
    \/ \E k \in Key : hashmap_delete(k)
    \/ \E u \in BOOLEAN : hashmap_clear(u)
    \/ \E p \in GrowPowers : hashmap_set_grow_by_power(p)
    \/ WalkStart
    \/ \E c \in AskedCap : hashmap_free(c)

\* The steps of the call in progress.
Step ==
    \/ SetProbe
    \/ ResizeNext
    \/ ResizeProbe
    \/ ResizeEnd
    \/ GetProbe
    \/ DeleteProbe
    \/ DeleteShift
    \/ hashmap_iter

Next == Call \/ Step

Spec == Init /\ [][Next]_vars

\* A thread that is inside a call keeps running; nobody has to make a call.
FairSpec == Spec /\ WF_vars(Step)

-----------------------------------------------------------------------------
Taken(bs) == {i \in DOMAIN bs : bs[i].dib # 0}

Item == [dib : 1 .. MaxBuckets, hash : Nat, key : Key, value : Value]

IsTable(bs) ==
    /\ \E n \in 1 .. MaxBuckets : DOMAIN bs = 0 .. n - 1
    /\ \A i \in DOMAIN bs : bs[i] = Empty \/ bs[i] \in Item

\* Every entry is where its dib says, and every bucket between its home and
\* itself holds an entry that is at least as far from home as the probe was
\* when it passed: what lets a set stop at the first nearer entry.
Ordered(bs) ==
    LET n == Cardinality(DOMAIN bs) IN
    \A i \in Taken(bs) :
      /\ bs[i].hash = Hash[bs[i].key]
      /\ (Home(bs[i], n) + bs[i].dib - 1) % n = i
      /\ \A d \in 1 .. bs[i].dib - 1 :
           bs[(Home(bs[i], n) + d - 1) % n].dib >= d

\* No key is twice in the table, and whenever no delete is shifting it is in
\* Robin Hood order, the new table of a resize included.
ProbeOrder ==
    /\ call.pc # "shift" => Ordered(map.buckets)
    /\ call.pc = "resize" => Ordered(call.to)
    /\ \A i, j \in Taken(map.buckets) :
         map.buckets[i].key = map.buckets[j].key => i = j

\* count is the number of entries, and there is always a hole.
HoleLeft ==
    /\ Cardinality(Taken(map.buckets)) < NBuckets(map)
    /\ map.count <= map.growat
    /\ call.pc \notin {"set", "shift"} => Cardinality(Taken(map.buckets)) = map.count

\* After any sets, deletes and resizes the table is what the loops of set, get
\* and delete rely on: they have no other end than a hole or their key, and
\* look for a key from its home on.
TableSound == IsTable(map.buckets) /\ ProbeOrder /\ HoleLeft

\* Every call returns, whatever was set and deleted before it.
CallsEnd == (call.pc # "idle") ~> (call.pc = "idle")

\* What a reader that could look inside a call would count as stored: the
\* buckets, the entry in hand, the buckets that a resize has already filled
\* and the item that a delete is taking out; not the item a set has not
\* returned from.
ItemOf(e) == [key |-> e.key, value |-> e.value]
Items(bs, S) == {ItemOf(bs[i]) : i \in S}
InHand(c) == IF c.hand.dib = 0 THEN {} ELSE {ItemOf(c.hand)}
Removed(c) == {[key |-> c.key, value |-> c.item]}

Visible(bs, c) ==
    CASE c.pc = "set" ->
           IF c.hand.key = c.key THEN Items(bs, Taken(bs))
           ELSE {p \in Items(bs, Taken(bs)) \union InHand(c) : p.key # c.key}
      [] c.pc = "resize" ->
           LET rest == {i \in Taken(bs) : i > c.i \/ (i = c.i /\ c.hand.dib = 0)}
           IN  Items(bs, rest) \union Items(c.to, Taken(c.to)) \union InHand(c)
                 \union (IF c.then = "delete" THEN Removed(c) ELSE {})
      [] c.pc = "shift" -> Items(bs, Taken(bs)) \union Removed(c)
      [] OTHER -> Items(bs, Taken(bs))

\* Items with different keys as a map.
AsMap(S) == [k \in {p.key : p \in S} |-> (CHOOSE p \in S : p.key = k).value]

Contents == AsMap(Visible(map.buckets, call))

\* What KeyMap calls the result of each call.
AbstractRet ==
    CASE ret.op = "set" -> [op |-> "insert", key |-> ret.key,
                            rc |-> IF ret.oom THEN -1 ELSE 0]
      [] ret.op = "delete" -> [op |-> "delete", key |-> ret.key,
                               rc |-> IF ret.item = Null THEN -1 ELSE 0]
      [] ret.op = "get" -> [op |-> "get", key |-> ret.key, value |-> ret.item]
      [] ret.op = "create" -> [op |-> "create"]
      [] OTHER -> [op |-> "free"]

Map == INSTANCE KeyMap WITH contents <- Contents, ret <- AbstractRet

\* Displacing, resizing and shifting are invisible to callers: each call does
\* to the map what KeyMap says, in one step, and a set is refused only when
\* memory ran out.
ImplementsKeyMap == Map!Spec

\* What callers are given: set and delete return the item that the key had
\* before the call, and a walk that comes to the end has met every key once.
ReturnsExact ==
    [][/\ ret' # ret /\ ret'.op \in {"set", "delete"} /\ ~ret'.oom =>
            ret'.item = IF ret'.key \in DOMAIN Contents THEN Contents[ret'.key] ELSE Null
       /\ call.pc = "walk" /\ call'.pc = "idle" =>
            /\ Len(call.seen) = map.count
            /\ {call.seen[i] : i \in DOMAIN call.seen}
                 = {map.buckets[i].key : i \in Taken(map.buckets)}]_vars
=============================================================================
