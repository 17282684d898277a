------------------------------- MODULE MCCbor -------------------------------
(***************************************************************************)
(* The decoder and its callers on small payloads, against the reference    *)
(* reader of CborGrammar, and on what CborEncoder writes.                  *)
(***************************************************************************)
EXTENDS CborSequence, CborEncoder, CborGrammar, TLC

CONSTANTS
    Alphabet,  \* the bytes payloads are made of
    MaxLen,    \* bound: the length of the payloads that are enumerated
    Room       \* bound: the buffer that an answer is written to

\* What an enumerated payload starts with: nothing, or the start of a map.
Openings == {<<>>, <<161, 1>>, <<191, 1, 191, 1>>, <<161, 1, 130>>}
RawInputs == {o \o s : o \in Openings, s \in UNION {[1 .. n -> Alphabet] : n \in 0 .. MaxLen}}

\* Datastores of one or two nodes, of leaves on both sides of each boundary
\* of the encoding, a list and a list of a container.
Low(n) == Value("uint", WordOf(n))
Negative(n) == Value("int", [i \in 1 .. 8 |-> 255 - WordOf(n)[i]])
Leaves == {Low(n) : n \in {0, 23, 24, 255, 256, 65536}}
          \cup {Negative(n) : n \in {0, 23, 24, 255, 256}}
          \cup {Value("uint", [i \in 1 .. 8 |-> 255]), Value("int", <<128, 0, 0, 0, 0, 0, 0, 0>>),
                Value("real", <<64, 54, 128, 0, 0, 0, 0, 0>>), Value("bool", <<1>>), NullValue,
                Value("string", <<>>), Value("string", [i \in 1 .. 24 |-> 95])}
Node(n, x) == Value("map", (WordOf(n) :> x))
Nodes(x, y) == Value("map", (WordOf(1) :> x) @@ (WordOf(300) :> y))
Flat == {Node(1, x) : x \in Leaves} \cup {Nodes(x, Value("array", <<y, x>>)) : x, y \in Leaves}
Nested == {Nodes(Nodes(x, y), x) : x, y \in {Low(1), Value("string", <<97, 98>>)}}
          \cup {Node(2, Value("array", <<Node(4, x), Low(7)>>)) : x \in Leaves}

Whole == [v \in Flat \cup Nested |-> create_put_request(v, Room)]
Cut(V) == {create_get_response(v, n) : v \in V, n \in 0 .. Room} \ {<<>>}

Answers == Cut(Flat) \cup {Whole[v] : v \in Nested}
MCInputs == RawInputs \cup Answers

\* The iPATCH of a container of up to four entries.
WidePatches == {create_ipatch_request(Node(1, Value("map", [k \in {WordOf(i) : i \in 1 .. n} |-> Low(7)])), Room) :
                    n \in 0 .. 4}

-----------------------------------------------------------------------------
\* What the library's limits allow: maps of at most MaxLoop + 1 entries, and
\* containers as deep as there are backups less the used ones.
Within(r, used) == r.ok /\ r.wide <= MaxLoop + 1 /\ r.depth + used <= NumBackups
                   /\ r.depth <= MaxDepth

-----------------------------------------------------------------------------
(***************************************************************************)
(* A PUT (or GET answer) that is well-formed and within the limits is read *)
(* as the grammar has it, to the last byte and for every mix of definite   *)
(* and indefinite lengths.                                                 *)
(***************************************************************************)
PutExact ==
    call = "put" /\ step = "end" =>
        LET r == RefItem(bytes, 1)
        IN  Within(r, 0) => ret = r.val /\ cur.pos = r.next

(***************************************************************************)
(* parse_post_items gives the entries of every well-formed sequence of     *)
(* maps of one entry within the limits, and accepts nothing else: a        *)
(* partial value, which cborToCoreconfValue does return, is refused.  The  *)
(* exception is an array, whose loop goes on with the cursor of a map that *)
(* was left early inside it and may end with that map's break.             *)
(***************************************************************************)
PostExact ==
    call = "post" /\ step = "end" =>
        LET r == RefMaps(bytes, 1)
            wellFormed == Within(r, 1) /\ r.sizes = {1}
        IN  /\ wellFormed => good /\ items = r.items
            /\ good => wellFormed \/ \E i \in DOMAIN bytes : Major(bytes[i]) = LIST

(***************************************************************************)
(* A well-formed iPATCH within the limits is applied whole and in order.   *)
(***************************************************************************)
PatchExact ==
    call = "ipatch" /\ step = "end" =>
        LET r == RefMaps(bytes, 1)
        IN  Within(r, 1) => items = r.items

(***************************************************************************)
(* What create_get_response or create_put_request writes is read back as   *)
(* the very datastore, in every encoding length; and into a buffer that is *)
(* too small a datastore without nested containers is not written at all.  *)
(***************************************************************************)
RoundTrip ==
    call = "put" /\ step = "end" /\ bytes \in Answers =>
        \E v \in Flat \cup Nested : bytes = Whole[v] /\ ret = v

(***************************************************************************)
(* "Solo se actualizan los SIDs presentes en el payload; el resto queda    *)
(* intacto" (include/ipatch.h:9): the entries of a well-formed map of SIDs *)
(* are all that an iPATCH applies.                                         *)
(***************************************************************************)
PatchesItsSids ==
    call = "ipatch" /\ step = "end" =>
        LET r == RefItem(bytes, 1)
        IN  r.ok /\ r.next = Len(bytes) + 1 /\ r.val.t = "map" =>
                \A i \in DOMAIN items : items[i].key.sid \in DOMAIN r.val.v
=============================================================================
