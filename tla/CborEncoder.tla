----------------------------- MODULE CborEncoder ----------------------------
(***************************************************************************)
(* The zcbor encoder, coreconfToCBOR and the create_ functions of get.c,   *)
(* put.c, ipatch.c, post.c and fetch.c.  An encoder state is what was      *)
(* written (out), the room there is (size) and whether the last call       *)
(* succeeded (ok).  A call that does not fit writes nothing; the next one  *)
(* is tried all the same.  Lists and maps are of indefinite length, as     *)
(* zcbor writes them without ZCBOR_CANONICAL.                              *)
(***************************************************************************)
EXTENDS Integers, Sequences, SequencesExt

LOCAL INSTANCE Zcbor WITH NumBackups <- 0

zcbor_new_encode_state(size) == [out |-> <<>>, size |-> size, ok |-> TRUE]

\* value_encode_len, encode_header_byte and the memmove of str_encode: all
\* the bytes of a call, or none.
Put(e, s) == IF Len(e.out) + Len(s) <= e.size
             THEN [e EXCEPT !.out = @ \o s, !.ok = TRUE]
             ELSE [e EXCEPT !.ok = FALSE]

\* Mutant: 24 is written in the header, where it announces a byte.
ExtraLenLate(w) == IF \A i \in 1 .. 7 : w[i] = 0
                   THEN IF w[8] <= 24 THEN 0 ELSE 1
                   ELSE IF \A i \in 1 .. 6 : w[i] = 0 THEN 2
                   ELSE IF \A i \in 1 .. 4 : w[i] = 0 THEN 4 ELSE 8

\* zcbor_header_len less one: the bytes the shortest encoding needs.
ExtraLen(w) == IF \A i \in 1 .. 7 : w[i] = 0
               THEN IF w[8] <= 23 THEN 0 ELSE 1
               ELSE IF \A i \in 1 .. 6 : w[i] = 0 THEN 2
               ELSE IF \A i \in 1 .. 4 : w[i] = 0 THEN 4 ELSE 8

\* get_additional of log2ceil.
GetAdditional(n, low) == CASE n = 0 -> low [] n = 1 -> 24 [] n = 2 -> 25
                           [] n = 4 -> 26 [] n = 8 -> 27

HeaderByte(major, a) == 32 * major + a
Header(major, w) ==
    LET n == ExtraLen(w)
    IN  <<HeaderByte(major, GetAdditional(n, w[8]))>> \o SubSeq(w, 9 - n, 8)

WordOf(n) == <<0, 0, 0, 0, 0, n \div 65536, (n \div 256) % 256, n % 256>>

zcbor_uint64_put(e, w) == Put(e, Header(PINT, w))

\* Every width of a signed integer is written as its shortest encoding.
zcbor_int64_put(e, w) ==
    Put(e, IF w[1] >= 128 THEN Header(NINT, [i \in 1 .. 8 |-> 255 - w[i]]) ELSE Header(PINT, w))

zcbor_tstr_encode(e, s) == Put(e, Header(TSTR, WordOf(Len(s))) \o s)
zcbor_simple_put(e, n) == Put(e, Header(SIMPLE, WordOf(n)))
zcbor_nil_put(e) == zcbor_simple_put(e, 22)
zcbor_bool_put(e, bit) == zcbor_simple_put(e, 20 + bit)
zcbor_float64_put(e, w) == Put(e, <<HeaderByte(SIMPLE, 27)>> \o w)
list_map_start_encode(e, major) == Put(e, <<HeaderByte(major, Indefinite)>>)
list_map_end_encode(e) == Put(e, <<BreakByte>>)

\* a call whose failure its caller returns at once
Then(e, f(_)) == IF e.ok THEN f(e) ELSE e

\* The SIDs of a map in the order of its buckets: hashKey is ascending below
\* the SID whose product with 2654435769 fills the table.
TableOrder(m) == SetToSortSeq(DOMAIN m, LAMBDA j, k : Count(j) < Count(k))

-----------------------------------------------------------------------------
RECURSIVE coreconfToCBOR(_, _)

\* serializeCoreconfObject ignores what its two calls return.
serializeCoreconfObject(e, k, x) == coreconfToCBOR(x, zcbor_uint64_put(e, k))

ElementsPut(e, s) == FoldLeft(LAMBDA d, x : Then(d, LAMBDA g : coreconfToCBOR(x, g)), e, s)
EntriesPut(e, m) == FoldLeft(LAMBDA d, k : serializeCoreconfObject(d, k, m[k]), e, TableOrder(m))

coreconfToCBOR(x, e) ==
    CASE x.t = "map"    -> Then(list_map_start_encode(e, MAP),
                                LAMBDA d : list_map_end_encode(EntriesPut(d, x.v)))
      [] x.t = "array"  -> Then(Then(list_map_start_encode(e, LIST), LAMBDA d : ElementsPut(d, x.v)),
                                list_map_end_encode)
      [] x.t = "real"   -> zcbor_float64_put(e, x.v)
      [] x.t = "int"    -> zcbor_int64_put(e, x.v)
      [] x.t = "uint"   -> zcbor_uint64_put(e, x.v)
      [] x.t = "string" -> zcbor_tstr_encode(e, x.v)
      [] x.t = "bool"   -> zcbor_bool_put(e, x.v[1])
      [] x.t = "null"   -> zcbor_nil_put(e)

Written(e) == IF e.ok THEN e.out ELSE <<>>

-----------------------------------------------------------------------------
\* The map of a datastore, whose own entries are checked one by one.
create_get_response(x, size) ==
    LET start == list_map_start_encode(zcbor_new_encode_state(size), MAP)
        entry(d, k) == Then(Then(d, LAMBDA g : zcbor_uint64_put(g, k)),
                            LAMBDA g : coreconfToCBOR(x.v[k], g))
    IN  Written(Then(FoldLeft(entry, start, TableOrder(x.v)), list_map_end_encode))

\* put.c and ipatch.c have the same loop.
create_put_request(x, size) == create_get_response(x, size)
create_ipatch_request(x, size) == create_get_response(x, size)

\* The key of an entry: a SID, or a SID and the key of a list instance.
encode_key(e, key) ==
    IF key.kind = "sid" THEN zcbor_uint64_put(e, key.sid)
    ELSE LET start == list_map_start_encode(e, LIST)
             sid == Then(start, LAMBDA d : zcbor_uint64_put(d, key.sid))
             inst == Then(sid, LAMBDA d : IF key.kind = "str" THEN zcbor_tstr_encode(d, key.key)
                                          ELSE zcbor_int64_put(d, key.key))
         IN  Then(inst, list_map_end_encode)

\* {key: value} as create_post_items, create_ipatch_iid_request and
\* create_fetch_response(_iids) write it.
PairPut(e, key, x) ==
    LET start == list_map_start_encode(e, MAP)
        keyed == Then(start, LAMBDA d : encode_key(d, key))
    IN  Then(Then(keyed, LAMBDA d : coreconfToCBOR(x, d)), list_map_end_encode)

create_post_items(items, size) ==
    Written(FoldLeft(LAMBDA d, i : Then(d, LAMBDA g : PairPut(g, i.key, i.val)),
                     zcbor_new_encode_state(size), items))

create_ipatch_iid_request(item, size) == create_post_items(<<item>>, size)

\* create_fetch_request_with_iids (and create_fetch_request, of SIDs only).
create_fetch_request_with_iids(iids, size) ==
    Written(FoldLeft(LAMBDA d, i : Then(d, LAMBDA g : encode_key(g, i)),
                     zcbor_new_encode_state(size), iids))
=============================================================================
