--------------------------- MODULE FetchResponse ----------------------------
(***************************************************************************)
(* The answers of fetch.c: create_fetch_response(_iids) writes one map for *)
(* each item of a parsed request, with the value fetch_value_by_iid finds. *)
(* A key is looked for in every string of a list instance, whatever its    *)
(* SID; an index is an int64_t.                                            *)
(***************************************************************************)
EXTENDS FetchRequest, CborEncoder

HasKey(x, s) == x.t = "map" /\ \E k \in DOMAIN x.v : x.v[k] = Value("string", s)

\* Mutant: the last instance with the key is taken.
LastKeyed(list, s) ==
    LET at == {i \in DOMAIN list : HasKey(list[i], s)}
    IN  IF at = {} THEN NoValue ELSE list[CHOOSE i \in at : \A j \in at : j <= i]

FirstKeyed(list, s) ==
    LET at == {i \in DOMAIN list : HasKey(list[i], s)}
    IN  IF at = {} THEN NoValue ELSE list[CHOOSE i \in at : \A j \in at : i <= j]

ElementAt(list, w) == IF w[1] < 128 /\ Count(w) < Len(list) THEN list[Count(w) + 1] ELSE NoValue

fetch_value_by_iid(x, iid) ==
    IF x.t # "map" \/ iid.sid \notin DOMAIN x.v THEN NoValue
    ELSE CASE iid.kind = "sid" -> x.v[iid.sid]
           [] x.v[iid.sid].t # "array" -> NoValue
           [] iid.kind = "str" -> FirstKeyed(x.v[iid.sid].v, iid.key)
           [] iid.kind = "int" -> ElementAt(x.v[iid.sid].v, iid.key)

OrNull(x) == IF x = NoValue THEN NullValue ELSE x

\* Every answer is written under the SID alone.
create_fetch_response_iids(x, s, size) ==
    create_post_items([i \in DOMAIN s |-> [key |-> Sid(s[i].sid),
                                           val |-> OrNull(fetch_value_by_iid(x, s[i]))]], size)

\* The same for a list of SIDs.
create_fetch_response(x, s, size) ==
    create_post_items([i \in DOMAIN s |-> [key |-> s[i], val |-> OrNull(fetch_value_by_iid(x, s[i]))]],
                      size)

\* What the caller finds in the buffer.
Answer == IF parser = "sids" THEN create_fetch_response(source, iids, room)
                             ELSE create_fetch_response_iids(source, iids, room)
=============================================================================
