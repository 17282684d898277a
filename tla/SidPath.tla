------------------------------ MODULE SidPath ------------------------------
(***************************************************************************)
(* The lookup of one SID in a decoded model (coreconfManipulation.c):      *)
(* buildCLookupHashmapFromCoreconf indexes the parents of every SID,       *)
(* findRequirementForSID climbs from a SID to the root and leaves the path *)
(* it took, and examineCoreconfValue walks that path down, choosing in     *)
(* each list the element with the requested keys.  The climb pops the      *)
(* parents it reads off the lists of the index, so lookups in one index    *)
(* are not independent.                                                    *)
(*                                                                         *)
(* The index and the key mapping are Robin Hood maps, which RobinHood      *)
(* shows to be functions from keys to the value last set; they are         *)
(* functions here.  Allocation does not fail.                              *)
(***************************************************************************)
EXTENDS Integers, Sequences, SequencesExt, FiniteSets, FiniteSetsExt

CONSTANTS
    Values,     \* the values that models are made of
    Models,     \* the decoded models: a tree and the key SIDs of its lists
    Visited(_), \* the keys of a map in the order of its buckets
    Sids,       \* the SIDs a client asks for
    Requests,   \* the request keys a client gives, the outermost list's last
    MaxDepth    \* MAX_CORECONF_RECURSION_DEPTH

\* A map has deltas for keys, and its buckets hold each of them; what is in a
\* map or an array is a value again.
IsValue(val) ==
    CASE val.t = "map"   -> /\ DOMAIN val.v \subseteq Nat
                            /\ \A d \in DOMAIN val.v : val.v[d] \in Values
                            /\ Visited(val.v) \in Seq(DOMAIN val.v)
                            /\ Range(Visited(val.v)) = DOMAIN val.v
      [] val.t = "array" -> val.v \in Seq(Values)
      [] val.t = "leaf"  -> val.v \in Nat
      [] OTHER           -> val.t = "text"

ASSUME ModelAssumption ==
    /\ MaxDepth \in Nat
    /\ \A val \in Values : IsValue(val)
    /\ \A m \in Models : /\ m.tree \in Values
                         /\ \A s \in DOMAIN m.listKeys : m.listKeys[s] \in Seq(Nat)
    /\ Sids \subseteq Nat \ {0}
    /\ Requests \subseteq Seq(Nat)

VARIABLES
    model,      \* the model that is indexed
    clookup,    \* the index: a SID to the list of its parents
    pc,         \* "idle", "climb", "found", "walk", "returned" or "crashed"
    sid,        \* the SID asked for
    current,    \* currentSID of the climb
    path,       \* the path nodes; the end node with SID 0 is left out
    todo,       \* the path nodes the walk has still to visit
    keys,       \* requestKeys
    asked,      \* requestKeys as the client gave them
    sub, prev,  \* subTree and previousSID
    spent       \* the SIDs whose parents were popped before this climb

vars == <<model, clookup, pc, sid, current, path, todo, keys, asked, sub, prev,
          spent>>

(***************************************************************************)
(* The values of a model.  A list element and a container are maps from    *)
(* SID deltas to values.                                                   *)
(***************************************************************************)
Leaf(n) == [t |-> "leaf", v |-> n]
Text == [t |-> "text", v |-> 0]
Map(m) == [t |-> "map", v |-> m]
Array(s) == [t |-> "array", v |-> s]
Null == [t |-> "null", v |-> 0]

\* getCoreconfValueAsUint64: what is not a number reads as 0.
getCoreconfValueAsUint64(val) == IF val.t = "leaf" THEN val.v ELSE 0

\* getCoreconfHashMap.
getCoreconfHashMap(m, delta) == IF delta \in DOMAIN m THEN m[delta] ELSE Null

(***************************************************************************)
(* Lists of longs (sid.c).                                                 *)
(***************************************************************************)
addLong(list, value) == Append(list, value)
addUniqueLong(list, value) ==
    IF Contains(list, value) THEN list ELSE addLong(list, value)

\* popLong: the value it returns and the list it leaves.
Popped(list) == IF list = <<>> THEN 0 ELSE Last(list)
popLong(list) == IF list = <<>> THEN <<>> ELSE Front(list)

\* cloneDynamicLongList leaves its target alone when there is nothing to copy.
cloneDynamicLongList(original, cloned) == IF original = <<>> THEN cloned ELSE original

\* compareDynamicLongList compares two lists sorted.
compareDynamicLongList(a, b) ==
    /\ a # <<>> /\ b # <<>>
    /\ Len(a) = Len(b)
    /\ SortSeq(a, <) = SortSeq(b, <)

(***************************************************************************)
(* buildCLookupHashmapFromCoreconf.  A map's entries are visited in the    *)
(* order of their buckets, an array's elements in order.                   *)
(***************************************************************************)
\* One entry: childSID and the parent added to its list.
AddParent(index, child, parent) ==
    [s \in DOMAIN index \cup {child} |->
        IF s # child THEN index[s]
        ELSE addUniqueLong(IF child \in DOMAIN index THEN index[child] ELSE <<>>, parent)]

\* A call of buildCLookupHashmapFromCoreconf: its value, the SID it is at, how
\* deep it is, and, for the entry of a map, the parent to note for that SID.
FirstCall(tree) == [val |-> tree, sid |-> 0, depth |-> 0, entry |-> FALSE, parent |-> 0]

\* The calls that a call makes, in order.
Called(c) ==
    IF c.depth > MaxDepth THEN <<>>
    ELSE CASE c.val.t = "map" ->
                [i \in DOMAIN Visited(c.val.v) |->
                    LET delta == Visited(c.val.v)[i]
                    IN  [val |-> c.val.v[delta], sid |-> delta + c.sid,
                         depth |-> c.depth + 1, entry |-> TRUE, parent |-> c.sid]]
           [] c.val.t = "array" ->
                [i \in DOMAIN c.val.v |->
                    [val |-> c.val.v[i], sid |-> c.sid,
                     depth |-> c.depth + 1, entry |-> FALSE, parent |-> 0]]
           [] OTHER -> <<>>

\* All calls in the order they are made, each followed by the calls it makes:
\* those at one depth after the other are put in.
Expanded(calls, depth) ==
    FlattenSeq([i \in DOMAIN calls |->
        IF calls[i].depth = depth THEN <<calls[i]>> \o Called(calls[i]) ELSE <<calls[i]>>])
Calls(tree) ==
    LET calls[n \in 0 .. MaxDepth + 1] ==
            IF n = 0 THEN <<FirstCall(tree)>> ELSE Expanded(calls[n - 1], n - 1)
    IN  calls[MaxDepth + 1]

NoIndex == [s \in {} |-> <<>>]

Noted(index, c) == IF c.entry THEN AddParent(index, c.sid, c.parent) ELSE index

buildCLookupHashmapFromCoreconf(tree) ==
    LET calls == Calls(tree)
        index[i \in 0 .. Len(calls)] ==
            IF i = 0 THEN NoIndex ELSE Noted(index[i - 1], calls[i])
    IN  index[Len(calls)]

Build(m) ==
    /\ pc = "idle"
    /\ model' = m
    /\ clookup' = buildCLookupHashmapFromCoreconf(m.tree)
    /\ UNCHANGED <<pc, sid, current, path, todo, keys, asked, sub, prev, spent>>

(***************************************************************************)
(* findRequirementForSID.                                                  *)
(***************************************************************************)
\* A path node: a SID and the key SIDs of its list, none if it is no list.
KeySids(m, s) == IF s \in DOMAIN m.listKeys THEN m.listKeys[s] ELSE <<>>
PathNode(s) == [parentSID |-> s, sidKeys |-> KeySids(model, s)]

FindStart(s) ==
    /\ pc = "idle"
    /\ pc' = "climb"
    /\ sid' = s
    /\ current' = s
    /\ path' = <<PathNode(s)>>
    /\ spent' = {c \in DOMAIN clookup : clookup[c] = <<>>}
    /\ UNCHANGED <<model, clookup, todo, keys, asked, sub, prev>>

\* Mutant: the climb does not leave a SID whose parent is the root.
StaysBelowRoot(parent) ==
    /\ clookup' = [clookup EXCEPT ![current] = popLong(@)]
    /\ path' = IF parent = 0 THEN path ELSE <<PathNode(parent)>> \o path
    /\ current' = IF parent = 0 THEN current ELSE parent

\* Mutant: the child heads the path a second time in place of its parent.
ClimbsInPlace(parent) ==
    /\ clookup' = [clookup EXCEPT ![current] = popLong(@)]
    /\ path' = IF parent = 0 THEN path ELSE <<PathNode(current)>> \o path
    /\ current' = parent

\* The parent of the current SID leaves its list and heads the path.
Climbed(parent) ==
    /\ clookup' = [clookup EXCEPT ![current] = popLong(@)]
    /\ path' = IF parent = 0 THEN path ELSE <<PathNode(parent)>> \o path
    /\ current' = parent

FindClimb ==
    /\ pc = "climb"
    /\ current # 0
    /\ current \in DOMAIN clookup
    /\ Climbed(Popped(clookup[current]))
    /\ UNCHANGED <<model, pc, sid, todo, keys, asked, sub, prev, spent>>

\* Back to the client, with the locals of both functions gone.
BackToClient ==
    /\ pc' = "idle"
    /\ path' = <<>> /\ todo' = <<>>
    /\ keys' = <<>> /\ asked' = <<>>
    /\ sub' = Null /\ prev' = 0
    /\ current' = 0
    /\ UNCHANGED <<model, clookup, sid, spent>>

\* NULL; the nodes made so far are lost.
FindMisses ==
    /\ pc = "climb"
    /\ current # 0
    /\ current \notin DOMAIN clookup
    /\ BackToClient

FindEnds ==
    /\ pc = "climb"
    /\ current = 0
    /\ pc' = "found"
    /\ UNCHANGED <<model, clookup, sid, current, path, todo, keys, asked, sub, prev, spent>>

(***************************************************************************)
(* examineCoreconfValue.                                                   *)
(***************************************************************************)
ExamineStart(ks) ==
    /\ pc = "found"
    /\ pc' = "walk"
    /\ todo' = path
    /\ keys' = ks
    /\ asked' = ks
    /\ sub' = model.tree
    /\ prev' = 0
    /\ UNCHANGED <<model, clookup, sid, current, path, spent>>

\* Mutant: the request keys are read from the front.
KeyFromFront(i) == IF i <= Len(keys) THEN keys[i] ELSE 0

\* The key SIDs of a list that an element agrees on: each takes the next request
\* key, the last one first, and 0 when they have run out.
KeyAt(i) == IF i <= Len(keys) THEN keys[Len(keys) + 1 - i] ELSE 0
Agrees(element, node, i) ==
    getCoreconfValueAsUint64(
        getCoreconfHashMap(element.v, node.sidKeys[i] - node.parentSID)) = KeyAt(i)
Agreed(element, node) ==
    LET agreed[i \in 0 .. Len(node.sidKeys)] ==
            IF i = 0 THEN <<>>
            ELSE IF Agrees(element, node, i) THEN addUniqueLong(agreed[i - 1], node.sidKeys[i])
            ELSE agreed[i - 1]
    IN  agreed[Len(node.sidKeys)]

\* The elements an element-by-element search accepts; the first of them is taken.
Matching(list, node) ==
    {i \in DOMAIN list : compareDynamicLongList(node.sidKeys, Agreed(list[i], node))}

\* The request keys that are left after one element was compared.
KeysAfter(node) ==
    cloneDynamicLongList(
        SubSeq(keys, 1, IF Len(keys) > Len(node.sidKeys)
                        THEN Len(keys) - Len(node.sidKeys) ELSE 0), keys)

\* A key leaf is read off every element compared: one that is absent is a NULL
\* pointer read.
Readable(list, node, last) ==
    \A i \in 1 .. last : \A k \in Range(node.sidKeys) :
        list[i].t = "map" /\ k - node.parentSID \in DOMAIN list[i].v

Crash ==
    /\ pc' = "crashed"
    /\ UNCHANGED <<model, clookup, sid, current, path, todo, keys, asked, sub, prev, spent>>

\* The child at the next path node, and the element of it when it is a list with
\* keys.  Where none matches, the list itself stays the subtree.
ChooseElement(list, node) ==
    LET found == Matching(list, node)
        last == IF found = {} THEN Len(list) ELSE Min(found)
    IN  IF ~Readable(list, node, last) THEN Crash
        ELSE /\ sub' = IF found = {} THEN Array(list) ELSE list[Min(found)]
             /\ keys' = IF found = {} THEN keys ELSE KeysAfter(node)
             /\ prev' = node.parentSID
             /\ todo' = Tail(todo)
             /\ UNCHANGED <<model, clookup, pc, sid, current, path, asked, spent>>

\* Without request keys the list a key is popped from was never initialised:
\* whatever the allocator left there reads as an empty list or is not a list.
ExamineNode ==
    /\ pc = "walk"
    /\ todo # <<>>
    /\ LET node == Head(todo)
           child == getCoreconfHashMap(sub.v, node.parentSID - prev)
       IN  IF sub.t # "map" THEN Crash
           ELSE CASE node.sidKeys = <<>> ->
                        /\ sub' = child
                        /\ prev' = node.parentSID
                        /\ todo' = Tail(todo)
                        /\ UNCHANGED <<model, clookup, pc, sid, current, path, keys,
                                       asked, spent>>
                  [] node.sidKeys # <<>> /\ child.t = "null" -> Crash
                  [] node.sidKeys # <<>> /\ child.t \in {"leaf", "text", "map"} -> BackToClient
                  [] OTHER -> \/ ChooseElement(child.v, node)
                              \/ keys = <<>> /\ child.v # <<>> /\ Crash

ExamineReturns ==
    /\ pc = "walk"
    /\ todo = <<>>
    /\ pc' = "returned"
    /\ UNCHANGED <<model, clookup, sid, current, path, todo, keys, asked, sub, prev, spent>>

\* freePathNode; the returned map stays with the client and shares its subtree
\* with the model.
Release ==
    /\ pc = "returned"
    /\ BackToClient

Init ==
    /\ model \in Models
    /\ clookup = buildCLookupHashmapFromCoreconf(model.tree)
    /\ pc = "idle"
    /\ sid = 0 /\ current = 0
    /\ path = <<>> /\ todo = <<>>
    /\ keys = <<>> /\ asked = <<>>
    /\ sub = Null /\ prev = 0
    /\ spent = {}

Next ==
    \/ Build(model)
    \/ \E s \in Sids : FindStart(s)
    \/ FindClimb \/ FindMisses \/ FindEnds
    \/ \E ks \in Requests : ExamineStart(ks)
    \/ ExamineNode \/ ExamineReturns
    \/ Release
    \/ pc = "crashed" /\ UNCHANGED vars

\* findRequirementForSID and examineCoreconfValue are loops of one thread: once
\* entered they go on.
Fairness ==
    /\ WF_vars(FindClimb \/ FindMisses \/ FindEnds)
    /\ WF_vars(ExamineNode \/ ExamineReturns)

Spec == Init /\ [][Next]_vars /\ Fairness

-----------------------------------------------------------------------------
(***************************************************************************)
(* What the lookup should find, from the tree alone.                       *)
(***************************************************************************)
\* The SID that a path ends with.
End(p) == IF p = <<>> THEN 0 ELSE Last(p)

\* A node of the tree is a value and the SIDs on the way to it.  The nodes
\* directly inside a node, and those n levels below the root.
Inside(x) ==
    CASE x.val.t = "map" ->
            {[val |-> x.val.v[d], path |-> Append(x.path, d + End(x.path))] : d \in DOMAIN x.val.v}
      [] x.val.t = "array" -> {[val |-> x.val.v[i], path |-> x.path] : i \in DOMAIN x.val.v}
      [] OTHER -> {}
Levels(tree) ==
    LET level[n \in 0 .. MaxDepth + 1] ==
            IF n = 0 THEN {[val |-> tree, path |-> <<>>]}
            ELSE UNION {Inside(x) : x \in level[n - 1]}
    IN  level

\* The SID paths from the root to everything in a tree, as deep as it is indexed.
Paths(tree) ==
    LET level == Levels(tree)
    IN  {x.path : x \in UNION {level[n] : n \in 0 .. MaxDepth + 1}} \ {<<>>}

SidsOf(nodes) == [i \in DOMAIN nodes |-> nodes[i].parentSID]

\* The instances that a model holds: a path, the keys that select along it and
\* the value they lead to.  A list with keys is entered through its elements,
\* the first of those with equal keys; a key leaf that is absent reads as 0.
KeysOf(m, element, s) ==
    [i \in DOMAIN KeySids(m, s) |->
        getCoreconfValueAsUint64(
            IF element.t = "map" THEN getCoreconfHashMap(element.v, KeySids(m, s)[i] - s)
            ELSE Null)]
Firsts(m, list, s) ==
    {i \in DOMAIN list : \A j \in 1 .. i - 1 : KeysOf(m, list[j], s) # KeysOf(m, list[i], s)}
Below(m, x, d) ==
    LET s == d + End(x.path)
        q == Append(x.path, s)
        c == x.value.v[d]
    IN  IF KeySids(m, s) # <<>> /\ c.t = "array"
        THEN {[path |-> q, keys |-> x.keys \o KeysOf(m, c.v[i], s), value |-> c.v[i]] :
                i \in Firsts(m, c.v, s)}
        ELSE {[path |-> q, keys |-> x.keys, value |-> c]}
Further(m, x) ==
    IF x.value.t # "map" THEN {} ELSE UNION {Below(m, x, d) : d \in DOMAIN x.value.v}

\* The instances whose path has k SIDs, for every k up to n.
Instances(m, n) ==
    LET instances[k \in 0 .. n] ==
            IF k = 0 THEN {[path |-> <<>>, keys |-> <<>>, value |-> m.tree]}
            ELSE UNION {Further(m, x) : x \in instances[k - 1]}
    IN  instances

\* How many request keys a walk takes for the first k nodes of a path, for
\* every k.
Needed(nodes) ==
    LET needed[k \in 0 .. Len(nodes)] ==
            IF k = 0 THEN 0 ELSE needed[k - 1] + Len(nodes[k].sidKeys)
    IN  needed

(***************************************************************************)
(* Shapes of a model that exactness can depend on.                         *)
(***************************************************************************)
\* The SID above a place on a path.
Above(p, i) == IF i = 1 THEN 0 ELSE p[i - 1]

\* A model in which SIDs grow on the way down, and a SID with others below it
\* has the same SID above it wherever it occurs.
OneWayUp(m) ==
    \A p, q \in Paths(m.tree) :
      /\ \A i \in 1 .. Len(p) : 0 < p[i]
      /\ \A i, k \in 1 .. Len(p) : i < k => p[i] < p[k]
      /\ \A i \in 1 .. Len(p), k \in 1 .. Len(q) :
           i < Len(p) /\ p[i] = q[k] => Above(p, i) = Above(q, k)

\* No list has a key SID twice.
DistinctKeys(m) ==
    \A s \in DOMAIN m.listKeys : \A i, k \in DOMAIN m.listKeys[s] :
        m.listKeys[s][i] = m.listKeys[s][k] => i = k

\* No array is directly inside an array.
FlatArrays ==
    \A val \in Values : val.t = "array" => \A i \in DOMAIN val.v : val.v[i].t # "array"

(***************************************************************************)
(* Properties.                                                             *)
(***************************************************************************)
\* A path that findRequirementForSID returns leads to the SID asked for and is
\* the whole way from the root, or the lower part of it below a SID whose
\* parents earlier lookups in the same index had used up.  Only the SID asked
\* for can be missing from the index.
LookupExact ==
    /\ pc = "found" =>
        LET sids == SidsOf(path)
            Whole == Paths(model.tree)
        IN  /\ Last(sids) = sid
            /\ \E p \in Whole : IsSuffix(sids, p)
            /\ sids \in Whole \/ Head(sids) \in spent
    /\ pc = "climb" /\ current # 0 /\ current \notin DOMAIN clookup => current = sid

\* A path walked with a request key for each of its key SIDs gives the instance
\* those keys select, and no instance when they select none.
ExamineExact ==
    pc = "returned" =>
        LET n == Len(path)
            needed == Needed(path)[n]
            Here == {x \in Instances(model, n)[n] : x.path = SidsOf(path)}
            Chosen == {x \in Here : x.keys = SubSeq(Reverse(asked), 1, needed)}
        IN  Len(asked) >= needed =>
                /\ Chosen # {} => sub \in {x.value : x \in Chosen}
                /\ Chosen = {} => sub \notin {x.value : x \in Here}
                /\ prev = sid

\* Every climb ends, although a SID can be its own parent, and so does every walk.
LookupEnds == \A loop \in {"climb", "walk"} : pc = loop ~> pc # loop
=============================================================================
