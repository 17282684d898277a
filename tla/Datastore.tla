----------------------------- MODULE Datastore ------------------------------
(***************************************************************************)
(* The CORECONF datastore and what the operations compute on it:           *)
(* src/put.c (decoding a payload), src/ipatch.c (applying a patch),        *)
(* src/get.c and the FETCH half of coreconf_server.c (reading).            *)
(*                                                                         *)
(* A datastore is a CoreconfHashMapT: a table of chains and its size.      *)
(* A value is one of                                                       *)
(*   [t |-> "text", v |-> string]   a string                               *)
(*   [t |-> "num",  v |-> string]   any other scalar                       *)
(*   [t |-> "null"]                 CBOR null                              *)
(*   [t |-> "map",  m |-> f]        a container: SID delta to string       *)
(*   [t |-> "list", s |-> entries]  a YANG list, a sequence of values      *)
(* The order inside a container is never observed, so it is a function;    *)
(* the order of the root table is (FETCH walks it), so it is the table.    *)
(* A container in a PUT or POST body has at most MaxLoop + 1 members: what *)
(* the decoder makes of a longer one there is shown by CborSequence alone. *)
(***************************************************************************)
EXTENDS HashTable, SequencesExt

CONSTANT MaxIids     \* IIDs a FETCH may carry, 64 in the code

ASSUME IidAssumption == MaxIids \in Nat \ {0}

Text(x) == [t |-> "text", v |-> x]
Num(x) == [t |-> "num", v |-> x]
NullValue == [t |-> "null"]
Container(f) == [t |-> "map", m |-> f]
List(s) == [t |-> "list", s |-> s]

NewMap == [table |-> EmptyTable, size |-> 0]

Inserted(m, k, v) ==
    [table |-> TableInsert(m.table, k, v),
     size  |-> SizeAfterInsert(m.table, m.size, k)]

\* Mutant: map->size is not decremented.
DeletedUncounted(m, k) == [m EXCEPT !.table = TableDelete(m.table, k)]

Deleted(m, k) ==
    [table |-> TableDelete(m.table, k),
     size  |-> SizeAfterDelete(m.table, m.size, k)]

\* A value changed through the pointer get returned: no walk limit applies.
Updated(m, k, v) ==
    LET c == ChainOf(m.table, k)
    IN  [m EXCEPT !.table[hashKey[k]] =
           [c EXCEPT ![FirstOf(At(c, k))].value = v]]

\* The nodes in the order iterateCoreconfHashMap and the encoders meet them.
Nodes(m) == FlattenSeq([i \in 1 .. TableSize |-> m.table[i - 1]])

\* Encoded size in units: a key, a scalar and a container head are one each.
Units(v) ==
    CASE v.t = "map"  -> 1 + 2 * Cardinality(DOMAIN v.m)
      [] v.t = "list" -> 1 + FoldLeft(LAMBDA n, e :
                                 n + (IF e.t = "map" THEN 1 + 2 * Cardinality(DOMAIN e.m) ELSE 1),
                             0, v.s)
      [] OTHER        -> 1

PairUnits(pairs) == FoldLeft(LAMBDA n, p : n + 1 + Units(p.value), 0, pairs)

-----------------------------------------------------------------------------
(***************************************************************************)
(* Decoding a datastore payload (parse_put_request, _parse_map).           *)
(* A payload is [kind |-> "map", items, closed] or [kind |-> "scalar"] or  *)
(* [kind |-> "junk"]: items are the complete (key, value) pairs in order;  *)
(* closed is FALSE when the bytes end before the map does.                 *)
(***************************************************************************)

\* The payload has more entries than _parse_map reads.
TooLong(p) == Len(p.items) > MaxLoop + 1

\* Mutant: the limit check is off by one.
parse_stops_early(p) ==
    FoldLeft(LAMBDA m, it : Inserted(m, it.key, it.value), NewMap,
             IF Len(p.items) > MaxLoop THEN SubSeq(p.items, 1, MaxLoop) ELSE p.items)

\* _parse_map inserts the pairs in order and leaves after CORECONF_MAX_LOOP
\* + 1 of them; the result of _parse_map is ignored, so a map that was cut
\* short, by the limit or by the end of the bytes, is returned as it is.
parse_put_request(p) ==
    FoldLeft(LAMBDA m, it : Inserted(m, it.key, it.value), NewMap,
             IF TooLong(p) THEN SubSeq(p.items, 1, MaxLoop + 1) ELSE p.items)

\* The map a reader of the payload expects: the last pair of a key counts.
Meaning(p) ==
    [k \in {p.items[i].key : i \in DOMAIN p.items} |->
        p.items[CHOOSE i \in DOMAIN p.items :
                  /\ p.items[i].key = k
                  /\ \A j \in DOMAIN p.items : p.items[j].key = k => j <= i].value]

-----------------------------------------------------------------------------
(***************************************************************************)
(* Applying an iPATCH payload (apply_ipatch_raw).  A patch is a sequence   *)
(* of maps [items, closed]; items are the tokens [kind, sid, key, value]   *)
(* that the scan can meet in the map, in the order of their bytes:         *)
(*   "sid", "inst"  an entry, its key a SID or [sid, text], with the value *)
(*                  that is built from it: of a container with too many    *)
(*                  members the first MaxLoop + 1, and the rest of them    *)
(*                  follow as tokens of their own, up to its end           *)
(*   "skipped"      a list that is no such key, or a key whose value       *)
(*                  cannot be read; what is left of it follows             *)
(*   "map"          the head of the map, or of a map where a key should be *)
(*   "end", "break" the end of a container, of definite length (no byte)   *)
(*                  or of indefinite length (the break)                    *)
(*   "other"        anything else                                          *)
(* An error leaves the map where it stands, and the next map is looked for *)
(* there: inside the map that was left, as it may be.                      *)
(***************************************************************************)
EntryKind == {"sid", "inst"}
TokenKind == EntryKind \union {"skipped", "map", "end", "break", "other"}

\* The entries of one map of a patch, the SIDs of their keys, and the SIDs
\* that a patch names.
Entries(pm) == {it \in Range(pm.items) : it.kind \in EntryKind}
EntrySids(pm) == {it.sid : it \in Entries(pm)}
Named(patch) == UNION {EntrySids(pm) : pm \in Range(patch)}

\* find_list_entry_by_key, fetch_find_list_entry: an entry matches when any
\* of its string leaves equals the key.
EntryMatches(e, key) == e.t = "map" /\ \E d \in DOMAIN e.m : e.m[d] = key
Matching(s, key) == {i \in DOMAIN s : EntryMatches(s[i], key)}

\* Is there a list at sid?
ListAt(m, sid) == Has(m.table, sid) /\ Lookup(m.table, sid).t = "list"

\* { SID: value }: null deletes; a container given for a list becomes the
\* list's only entry; anything else is inserted, and a refusal is ignored.
SidPatched(m, it) ==
    IF it.value.t = "null" THEN Deleted(m, it.sid)
    ELSE IF ListAt(m, it.sid) /\ it.value.t = "map"
           THEN Inserted(m, it.sid, List(<<it.value>>))
           ELSE Inserted(m, it.sid, it.value)

\* Mutant: an entry with the key is not looked for.
EntriesAppended(s, it) == IF it.value.t = "null" THEN s ELSE Append(s, it.value)

\* The entries of a list after { [SID, key]: value }.
EntriesPatched(s, it) ==
    LET hits == Matching(s, it.key)
    IN  IF it.value.t = "null"
          THEN IF hits = {} THEN s ELSE Unlink(s, FirstOf(hits))
          ELSE IF hits = {} THEN Append(s, it.value)
                            ELSE [s EXCEPT ![FirstOf(hits)] = it.value]

\* { [SID, key]: value }: only where a list exists.
InstPatched(m, it) ==
    IF ListAt(m, it.sid)
      THEN Updated(m, it.sid, List(EntriesPatched(Lookup(m.table, it.sid).s, it)))
      ELSE m

\* Where the scan stands: a "map" is expected, or a "key" or the end of the
\* map, or the map was "left" and its break, if that comes next, is still to
\* be taken; or it has come to a "stop".
ScanAt == {"map", "key", "left", "stop"}

\* Where it stands after the token.
ScannedPast(at, it) ==
    CASE it.kind \in EntryKind -> IF at = "key" THEN "key" ELSE "stop"
      [] it.kind = "skipped"   -> IF at = "key" THEN "left" ELSE "stop"
      [] it.kind = "map"       -> IF at # "stop" THEN "key" ELSE "stop"
      [] it.kind = "end"       -> IF at # "stop" THEN "map" ELSE "stop"
      [] it.kind = "break"     -> IF at \in {"key", "left"} THEN "map" ELSE "stop"
      [] OTHER                 -> "stop"

\* The datastore after the token of an entry that the scan has come to.
Patched(m, it) ==
    CASE it.kind = "sid"  -> SidPatched(m, it)
      [] it.kind = "inst" -> InstPatched(m, it)
      [] OTHER            -> m

\* The entry is reported as applied.
Counts(m, it) == it.kind = "sid" \/ (it.kind = "inst" /\ ListAt(m, it.sid))

\* One token: acc is [m, n, at], the datastore, the count of entries the
\* function will report and where the scan stands.
EntryApplied(acc, it) ==
    [m  |-> IF acc.at = "key" THEN Patched(acc.m, it) ELSE acc.m,
     n  |-> IF acc.at = "key" /\ Counts(acc.m, it) THEN acc.n + 1 ELSE acc.n,
     at |-> ScannedPast(acc.at, it)]

PatchMapApplied(acc, pm) == FoldLeft(EntryApplied, acc, pm.items)

apply_ipatch_raw(m, patch) ==
    FoldLeft(PatchMapApplied, [m |-> m, n |-> 0, at |-> "map"], patch)

-----------------------------------------------------------------------------
(***************************************************************************)
(* Reading (create_get_response, handle_fetch).                            *)
(***************************************************************************)

\* The IIDs handle_fetch understands: up to the first it cannot decode.
ParsedIids(q) ==
    LET bad == {i \in DOMAIN q : q[i].kind = "other"}
        good == IF bad = {} THEN Len(q) ELSE FirstOf(bad) - 1
    IN  SubSeq(q, 1, IF good > MaxIids THEN MaxIids ELSE good)

\* The root containers that could hold sid as a delta, in walk order.
Holders(m, sid) ==
    SelectSeq(Nodes(m), LAMBDA o : /\ o.key <= sid
                                   /\ o.value.t = "map"
                                   /\ (sid - o.key) \in DOMAIN o.value.m)

\* What one IID adds to the answer: a pair, or nothing when not found.
Fetched(m, iid) ==
    IF iid.kind = "sid"
      THEN IF Has(m.table, iid.sid)
             THEN <<[key |-> iid.sid, value |-> Lookup(m.table, iid.sid)]>>
             ELSE LET h == Holders(m, iid.sid)
                  IN  IF h = <<>> THEN <<>>
                      ELSE <<[key |-> iid.sid,
                              value |-> Text(h[1].value.m[iid.sid - h[1].key])]>>
      ELSE IF ~ListAt(m, iid.sid) THEN <<>>
           ELSE LET s == Lookup(m.table, iid.sid).s
                    hits == Matching(s, iid.key)
                IN  IF hits = {} THEN <<>>
                    ELSE <<[key |-> iid.sid, value |-> List(<<s[FirstOf(hits)]>>)]>>

FetchedAll(m, iids) == FlattenSeq([i \in 1 .. Len(iids) |-> Fetched(m, iids[i])])
=============================================================================
