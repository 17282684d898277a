---------------------------- MODULE CborGrammar -----------------------------
(***************************************************************************)
(* A reference reader of the CBOR grammar (RFC 8949) for the payloads that *)
(* CORECONF exchanges.  It knows nothing of cursors, backups or element    *)
(* counts, and says how deep and how wide what it read is.  In one thing   *)
(* the grammar is the library's: a map of indefinite length may end after  *)
(* a key, and the key is dropped.                                          *)
(***************************************************************************)
EXTENDS Integers, Sequences, FiniteSets, CoreconfValue

LOCAL INSTANCE Zcbor WITH NumBackups <- 0

Bad == [ok |-> FALSE, val |-> NoValue, next |-> 0, depth |-> 0, wide |-> 0]
Leaf(x, p) == [ok |-> TRUE, val |-> x, next |-> p, depth |-> 0, wide |-> 0]
Larger(m, n) == IF m > n THEN m ELSE n

HeadOk(b, p) == /\ p <= Len(b)
                /\ Additional(b[p]) <= 27
                /\ p + additional_len(Additional(b[p])) <= Len(b)
After(b, p) == p + 1 + additional_len(Additional(b[p]))

NoItems(good, p) == [ok |-> good, vals |-> <<>>, next |-> p, depth |-> 0, wide |-> 0]

\* The item i before the items r.
Prefixed(i, r) ==
    IF i.ok /\ r.ok
    THEN [ok |-> TRUE, vals |-> <<i.val>> \o r.vals, next |-> r.next,
          depth |-> Larger(i.depth, r.depth), wide |-> Larger(i.wide, r.wide)]
    ELSE NoItems(FALSE, 0)

RECURSIVE RefItem(_, _), RefItems(_, _, _)

\* n items from p on, or items up to a break when n is -1.
RefItems(b, p, n) ==
    IF n = 0 THEN NoItems(TRUE, p)
    ELSE IF n = -1 /\ p <= Len(b) /\ b[p] = BreakByte THEN NoItems(TRUE, p + 1)
    ELSE LET i == RefItem(b, p)
         IN  Prefixed(i, RefItems(b, i.next, IF n = -1 THEN n ELSE n - 1))

\* The pairs of a map; a SID given twice has the later value.
Pairs(vals) ==
    [k \in {vals[2 * i - 1].v : i \in 1 .. Len(vals) \div 2} |->
        LET at == {i \in 1 .. Len(vals) \div 2 : vals[2 * i - 1].v = k}
        IN  vals[2 * CHOOSE i \in at : \A j \in at : j <= i]]

\* The container of major type m whose members are the items r.
Contained(m, r) ==
    LET keys == {i \in 1 .. Len(r.vals) : i % 2 = 1}
    IN  IF ~ r.ok THEN Bad
        ELSE IF m = LIST
        THEN [ok |-> TRUE, val |-> Value("array", r.vals), next |-> r.next,
              depth |-> r.depth + 1, wide |-> r.wide]
        ELSE IF \E i \in keys : r.vals[i].t # "uint" THEN Bad
        ELSE [ok |-> TRUE, val |-> Value("map", Pairs(r.vals)), next |-> r.next,
              depth |-> r.depth + 1, wide |-> Larger(r.wide, Cardinality(keys))]

RefContainer(b, p) ==
    IF Additional(b[p]) = 31 THEN Contained(Major(b[p]), RefItems(b, p + 1, -1))
    ELSE IF ~ HeadOk(b, p) THEN Bad
    ELSE Contained(Major(b[p]),
                   RefItems(b, After(b, p), Count(ValueAt(b, p)) * (Major(b[p]) - 3)))

\* The string of n bytes from q on.
RefString(b, q, n) ==
    IF q + n > Len(b) + 1 THEN Bad
    ELSE Leaf(Value("string", CString(SubSeq(b, q, q + n - 1))), q + n)

RefItem(b, p) ==
    IF p > Len(b) THEN Bad
    ELSE IF Major(b[p]) \in {LIST, MAP} THEN RefContainer(b, p)
    ELSE IF ~ HeadOk(b, p) THEN Bad
    ELSE CASE Major(b[p]) = PINT -> Leaf(Value("uint", ValueAt(b, p)), After(b, p))
           [] Major(b[p]) = NINT /\ ValueAt(b, p)[1] < 128 ->
                  Leaf(Value("int", [i \in 1 .. 8 |-> 255 - ValueAt(b, p)[i]]), After(b, p))
           [] Major(b[p]) \in {BSTR, TSTR} -> RefString(b, After(b, p), Count(ValueAt(b, p)))
           [] b[p] \in {244, 245} -> Leaf(Value("bool", <<b[p] - 244>>), p + 1)
           [] b[p] = 246 -> Leaf(NullValue, p + 1)
           [] b[p] = 251 -> Leaf(Value("real", ValueAt(b, p)), p + 9)
           [] OTHER -> Bad

-----------------------------------------------------------------------------
\* A key as the grammar has it: a SID, or a list of a SID and a text.
KeyOf(b, i, sid) ==
    IF ~ i.ok THEN Bad
    ELSE IF i.val.t = "uint" THEN [i EXCEPT !.val = Sid(i.val.v)]
    ELSE IF i.val.t = "array" /\ Len(i.val.v) = 2 /\ sid.val.t = "uint" /\ Major(b[sid.next]) = TSTR
    THEN [i EXCEPT !.val = Instance(sid.val.v, i.val.v[2].v)]
    ELSE Bad
RefKey(b, p) ==
    KeyOf(b, RefItem(b, p), RefItem(b, IF Additional(b[p]) = 31 THEN p + 1 ELSE After(b, p)))

NoEntries(p) == [ok |-> TRUE, items |-> <<>>, next |-> p, sizes |-> {}, depth |-> 0, wide |-> 0]
NoMaps == [NoEntries(0) EXCEPT !.ok = FALSE]

\* The key k and the value x before the entries r.
Entered(k, x, r) ==
    IF k.ok /\ x.ok /\ r.ok
    THEN [r EXCEPT !.items = <<[key |-> k.val, val |-> x.val]>> \o @,
                   !.depth = Larger(@, Larger(k.depth, x.depth)),
                   !.wide = Larger(@, Larger(k.wide, x.wide))]
    ELSE NoMaps

\* The entries e of one map before the maps r.
Followed(e, r) ==
    IF e.ok /\ r.ok
    THEN [r EXCEPT !.items = e.items \o @, !.sizes = @ \cup {Len(e.items)},
                   !.depth = Larger(@, e.depth), !.wide = Larger(@, e.wide)]
    ELSE NoMaps

RECURSIVE RefEntries(_, _, _), RefMaps(_, _)

\* n entries (or entries up to a break), each a key and a value.
RefEntries(b, p, n) ==
    IF n = 0 THEN NoEntries(p)
    ELSE IF n = -1 /\ p <= Len(b) /\ b[p] = BreakByte THEN NoEntries(p + 1)
    ELSE LET k == RefKey(b, p)
             x == RefItem(b, k.next)
         IN  Entered(k, x, RefEntries(b, x.next, IF n = -1 THEN n ELSE n - 1))

\* A sequence of maps; the numbers of entries they have in sizes.
RefMaps(b, p) ==
    IF p > Len(b) THEN NoEntries(p)
    ELSE IF Major(b[p]) # MAP THEN NoMaps
    ELSE LET indef == Additional(b[p]) = 31
             e == RefEntries(b, IF indef THEN p + 1 ELSE After(b, p),
                             IF indef THEN -1 ELSE Count(ValueAt(b, p)))
         IN  IF ~ (indef \/ HeadOk(b, p)) THEN NoMaps
             ELSE Followed(e, RefMaps(b, e.next))
=============================================================================
