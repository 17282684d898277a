--------------------------- MODULE MCFetchRequest ---------------------------
(***************************************************************************)
(* The FETCH library on small requests and on those that                   *)
(* create_fetch_request_with_iids writes, against a reference reader.      *)
(***************************************************************************)
EXTENDS FetchResponse, CborGrammar, TLC

CONSTANTS
    Alphabet,  \* the bytes of the requests that are enumerated
    MaxLen,    \* bound: their length
    Ample      \* a buffer that every request and answer fits in

\* SIDs, keys and indices whose bytes the scan takes for something else (95
\* is '_', 415 is encoded with a byte 159) and ones that it does not.
ReqSids == {WordOf(n) : n \in {1, 2, 31, 415}}
ReqKeys == {<<97>>, <<97, 95>>}
ReqInts == {WordOf(0), WordOf(1), [i \in 1 .. 8 |-> 255]}
Iids == {Sid(w) : w \in ReqSids}
        \cup {Instance(w, s) : w \in ReqSids, s \in ReqKeys}
        \cup {Index(w, n) : w \in ReqSids, n \in ReqInts}
Lists == {<<i>> : i \in Iids} \cup {<<i, j>> : i, j \in Iids}
Requests == {create_fetch_request_with_iids(s, Ample) : s \in Lists}

RawInputs == UNION {[1 .. n -> Alphabet] : n \in 0 .. MaxLen}
MCInputs == RawInputs \cup Requests

\* A leaf, two lists (the keys in the second one repeat) and no data at all.
Leaf7 == Value("uint", WordOf(7))
Entry(s) == Value("map", (WordOf(4) :> Value("string", s)) @@ (WordOf(5) :> Leaf7))
MCSources ==
    {NoValue,
     Value("map", (WordOf(1) :> Value("array", <<Entry(<<98>>), Entry(<<97>>)>>))
                  @@ (WordOf(2) :> Value("array", <<Leaf7, NullValue>>))),
     Value("map", (WordOf(1) :> Value("array",
                      <<Entry(<<97>>), Value("map", (WordOf(5) :> Value("string", <<97>>)))>>))
                  @@ (WordOf(31) :> Leaf7))}

-----------------------------------------------------------------------------
\* The instance identifier at p as the grammar has it.
IidOf(b, i, second) ==
    IF ~ i.ok THEN Bad
    ELSE IF i.val.t = "uint" THEN [i EXCEPT !.val = Sid(i.val.v)]
    ELSE IF i.val.t # "array" \/ Len(i.val.v) # 2 \/ i.val.v[1].t # "uint" THEN Bad
    ELSE CASE Major(b[second]) = TSTR ->
                  [i EXCEPT !.val = Instance(i.val.v[1].v, i.val.v[2].v)]
           [] Major(b[second]) = NINT \/ (Major(b[second]) = PINT /\ i.val.v[2].v[1] < 128) ->
                  [i EXCEPT !.val = Index(i.val.v[1].v, i.val.v[2].v)]
           [] OTHER -> Bad
RefIid(b, p) ==
    IidOf(b, RefItem(b, p),
          RefItem(b, IF Additional(b[p]) = 31 THEN p + 1 ELSE After(b, p)).next)

\* The items up to the first that is not one.
RECURSIVE RefIids(_, _)
RefIids(b, p) ==
    LET i == RefIid(b, p)
    IN  IF p > Len(b) \/ ~ i.ok THEN <<>> ELSE <<i.val>> \o RefIids(b, i.next)

Accepted == step \in {"accepted", "answered"}

\* Bytes between the header of a list and its break that the scan of the first
\* pass takes for what they are: no header of a list or a map, no break.
Harmless(b) == Major(b) \notin {LIST, MAP} /\ Additional(b) # 31
HarmlessItem(iid) ==
    iid.kind = "sid" \/ LET s == encode_key(zcbor_new_encode_state(Ample), iid).out
                        IN  \A i \in 2 .. Len(s) - 1 : Harmless(s[i])

(***************************************************************************)
(* A request is never misread: although the first pass may count too few   *)
(* items or too many, what parse_fetch_request_iids accepts is the first   *)
(* of the request's own items, and parse_fetch_request accepts all the     *)
(* SIDs that it starts with.  What create_fetch_request_with_iids writes   *)
(* is parsed as what was asked for, if the bytes of its keyed items are    *)
(* harmless.                                                               *)
(***************************************************************************)
ParseExact ==
    LET ref == RefIids(bytes, 1)
    IN  /\ Accepted =>
            /\ IsPrefix(iids, ref)
            /\ parser = "sids" /\ Len(iids) < Len(ref) => ref[Len(iids) + 1].kind # "sid"
        /\ /\ step \in {"accepted", "refused"} /\ parser = "iids"
           /\ bytes # <<>> /\ bytes = create_fetch_request_with_iids(ref, Ample)
           /\ \A i \in DOMAIN ref : HarmlessItem(ref[i])
           => step = "accepted" /\ iids = ref

\* The value that an instance identifier names, found independently.
Names(x, iid) ==
    {v \in IF x.t = "map" /\ iid.sid \in DOMAIN x.v
           THEN IF iid.kind = "sid" THEN {x.v[iid.sid]}
                ELSE IF x.v[iid.sid].t = "array" THEN Range(x.v[iid.sid].v) ELSE {}
           ELSE {} :
        CASE iid.kind = "sid" -> TRUE
          [] iid.kind = "str" -> v.t = "map" /\ Value("string", iid.key) \in Range(v.v)
          [] iid.kind = "int" -> \E i \in 1 .. Len(x.v[iid.sid].v) :
                                     x.v[iid.sid].v[i] = v /\ iid.key = WordOf(i - 1)}
FirstOf(x, iid) ==
    LET list == x.v[iid.sid].v
    IN  SelectSeq(list, LAMBDA v : v \in Names(x, iid))[1]

(***************************************************************************)
(* An answer has one map for each item, in their order, with the value the *)
(* item names (the first, if a key is repeated) or null; an answer that    *)
(* does not fit is none at all, unless it holds a container.               *)
(***************************************************************************)
AnswerExact ==
    step = "answered" =>
        LET answer == Answer
            r == RefMaps(answer, 1)
            want(iid) == IF Names(source, iid) = {} THEN NullValue
                         ELSE IF iid.kind = "sid" THEN source.v[iid.sid]
                         ELSE FirstOf(source, iid)
            flat == \A i \in DOMAIN iids : want(iids[i]).t \in {"uint", "null"}
        IN  answer # <<>> /\ (flat \/ room >= Ample) =>
                r.items = [i \in DOMAIN iids |-> [key |-> Sid(iids[i].sid), val |-> want(iids[i])]]

=============================================================================
