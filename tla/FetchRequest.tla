---------------------------- MODULE FetchRequest ----------------------------
(***************************************************************************)
(* The FETCH library (fetch.c): parse_fetch_request and                    *)
(* parse_fetch_request_iids read a request twice, once to count its items  *)
(* and once to fill an array of that size.  The counting pass of the       *)
(* second parser skips a list byte by byte, so what it counts need not be  *)
(* what the filling pass finds.                                            *)
(***************************************************************************)
EXTENDS Zcbor, CoreconfValue, FiniteSets

CONSTANTS
    Inputs,   \* the requests, sequences of bytes
    Sources,  \* the data sources a request is answered from
    Rooms     \* the sizes of the buffer that an answer is written to

ASSUME InputAssumption == Inputs \subseteq Seq(Byte)

VARIABLES
    bytes,   \* cbor_data
    parser,  \* the function called: "sids" or "iids"
    step,    \* what it does next, or how it ended
    off,     \* offset, the next byte of the request being 1
    count,   \* items found by the first pass
    depth,   \* of the lists and maps that the scan believes it is in
    cur,     \* the decoder inside the list that is scanned
    iids,    \* the items filled in by the second pass
    live,    \* how many key strings are allocated
    source,  \* data_source
    room     \* the size of the answer's buffer

vars == <<bytes, parser, step, off, count, depth, cur, iids, live, source, room>>

State == zcbor_new_decode_state(off)

Init ==
    /\ bytes \in Inputs /\ parser \in {"sids", "iids"}
    /\ step = "count" /\ off = 1 /\ count = 0 /\ depth = 0
    /\ cur = zcbor_new_decode_state(1)
    /\ iids = <<>> /\ live = 0 /\ source = NoValue /\ room = 0

is_fetch_request(b) == zcbor_uint64_decode(b, zcbor_new_decode_state(1)).ok

-----------------------------------------------------------------------------
\* The first pass: the items that start with a SID or a list.
More == step = "count" /\ off <= Len(bytes)
SidHere == zcbor_uint64_decode(bytes, State)
ListHere == zcbor_list_start_decode(bytes, State)

CountSid ==
    /\ More /\ SidHere.ok
    /\ count' = count + 1 /\ off' = SidHere.cur.pos
    /\ UNCHANGED <<bytes, parser, step, depth, cur, iids, live, source, room>>

CountList ==
    /\ More /\ ~ SidHere.ok /\ parser = "iids" /\ ListHere.ok
    /\ count' = count + 1
    /\ cur' = ListHere.cur /\ depth' = 1
    /\ step' = "scan"
    /\ UNCHANGED <<bytes, parser, off, iids, live, source, room>>

Scans == depth > 0 /\ InPayload(bytes, cur)

\* Mutant: a break does not end the list.
ScanNoBreak(d, byte) == IF Major(byte) \in {LIST, MAP} THEN d + 1 ELSE d

\* Whatever the byte is, the header of an item or a part of one.
ScanDepth(d, byte) == IF Major(byte) \in {LIST, MAP} THEN d + 1
                      ELSE IF Additional(byte) = 31 THEN d - 1 ELSE d

ScanByte ==
    /\ step = "scan" /\ Scans
    /\ depth' = ScanDepth(depth, bytes[cur.pos])
    /\ cur' = [cur EXCEPT !.pos = @ + 1]
    /\ UNCHANGED <<bytes, parser, step, off, count, iids, live, source, room>>

\* Mutant: the offset is not moved past the list.
ScanEndStays ==
    /\ step = "scan" /\ ~ Scans
    /\ step' = "count"
    /\ UNCHANGED <<bytes, parser, off, count, depth, cur, iids, live, source, room>>

\* zcbor_list_end_decode, whose result is not looked at, may take a break
\* that follows the list.
ScanEnd ==
    /\ step = "scan" /\ ~ Scans
    /\ off' = list_map_end_decode(bytes, cur).cur.pos
    /\ step' = "count"
    /\ UNCHANGED <<bytes, parser, count, depth, cur, iids, live, source, room>>

Unreadable == ~ SidHere.ok /\ (parser = "sids" \/ ~ ListHere.ok)

CountEnd ==
    /\ step = "count" /\ (off > Len(bytes) \/ Unreadable)
    /\ step' = IF count = 0 THEN "refused" ELSE "read"
    /\ off' = 1
    /\ UNCHANGED <<bytes, parser, count, depth, cur, iids, live, source, room>>

-----------------------------------------------------------------------------
\* The second pass.
Reads == step = "read" /\ Len(iids) < count

ReadSid ==
    /\ Reads /\ SidHere.ok
    /\ iids' = Append(iids, Sid(SidHere.val)) /\ off' = SidHere.cur.pos
    /\ UNCHANGED <<bytes, parser, step, count, depth, cur, live, source, room>>

\* [uint, tstr] or [uint, int]: what could be read of it.  filled says that
\* the key was, and only the end of the list is missing.
InstanceHere ==
    LET sid == zcbor_uint64_decode(bytes, ListHere.cur)
        str == str_decode(bytes, sid.cur, TSTR)
        int == zcbor_int64_decode(bytes, str.cur)
        key == IF str.ok THEN str ELSE int
        end == list_map_end_decode(bytes, key.cur)
        iid == IF str.ok THEN Instance(sid.val, CString(str.val)) ELSE Index(sid.val, int.val)
        filled == ListHere.ok /\ sid.ok /\ key.ok
    IN  [filled |-> filled, ok |-> filled /\ end.ok, cur |-> end.cur, iid |-> iid]

KeyStrings(s) == Cardinality({i \in DOMAIN s : s[i].kind = "str"})

ReadInstance ==
    /\ Reads /\ ~ SidHere.ok /\ parser = "iids" /\ InstanceHere.ok
    /\ iids' = Append(iids, InstanceHere.iid) /\ off' = InstanceHere.cur.pos
    /\ live' = live + KeyStrings(<<InstanceHere.iid>>)
    /\ UNCHANGED <<bytes, parser, step, count, depth, cur, source, room>>

\* Mutant: the item whose list did not end keeps its key string.
FreesFilled == Len(iids)

\* How many items free_instance_identifiers is called for when one fails.
FreedItems == IF parser = "iids" /\ InstanceHere.filled THEN Len(iids) + 1 ELSE Len(iids)

ReadFails ==
    /\ Reads /\ ~ SidHere.ok /\ (parser = "sids" \/ ~ InstanceHere.ok)
    /\ LET filled == IF parser = "iids" /\ InstanceHere.filled
                     THEN Append(iids, InstanceHere.iid) ELSE iids
       IN  live' = live + KeyStrings(filled) - KeyStrings(iids)
                        - KeyStrings(SubSeq(filled, 1, FreedItems))
    /\ iids' = <<>>
    /\ step' = "refused"
    /\ UNCHANGED <<bytes, parser, off, count, depth, cur, source, room>>

ReadEnd ==
    /\ step = "read" /\ Len(iids) = count
    /\ step' = "accepted"
    /\ UNCHANGED <<bytes, parser, off, count, depth, cur, iids, live, source, room>>

-----------------------------------------------------------------------------
\* create_fetch_response or create_fetch_response_iids, whose answer is
\* FetchResponse's Answer, reads the items and changes nothing of them.
Respond ==
    /\ step = "accepted"
    /\ source' \in Sources /\ room' \in Rooms
    /\ step' = "answered"
    /\ UNCHANGED <<bytes, parser, off, count, depth, cur, iids, live>>

\* free_instance_identifiers.
Release ==
    /\ step = "answered"
    /\ live' = live - KeyStrings(iids) /\ iids' = <<>>
    /\ step' = "released"
    /\ UNCHANGED <<bytes, parser, off, count, depth, cur, source, room>>

\* A call that is over stays so.
Ended == step \in {"refused", "released"} /\ UNCHANGED vars

Next ==
    \/ CountSid \/ CountList \/ ScanByte \/ ScanEnd \/ CountEnd
    \/ ReadSid \/ ReadInstance \/ ReadFails \/ ReadEnd
    \/ Respond \/ Release \/ Ended

Spec == Init /\ [][Next]_vars

-----------------------------------------------------------------------------
(***************************************************************************)
(* However a call ends, no key string stays allocated: not of a request    *)
(* that fails in the middle of the second pass either.                     *)
(***************************************************************************)
NothingLeaks ==
    /\ live = KeyStrings(iids)
    /\ step \in {"refused", "released"} => live = 0

(***************************************************************************)
(* What a call may still do: bytes to scan twice, items to fill in.        *)
(***************************************************************************)
Left ==
    LET L == Len(bytes) + 1
    IN  CASE step = "count" -> L + 4 + 2 * (L - off) + 2
          [] step = "scan" -> L + 4 + 2 * (L - cur.pos) + 3
          [] step = "read" -> count - Len(iids) + 3
          [] step = "accepted" -> 2
          [] step = "answered" -> 1
          [] OTHER -> 0

(***************************************************************************)
(* Every step of a call brings its end nearer, whatever the bytes (that    *)
(* none is missing is TLC's check for deadlocks): the scan stops at the    *)
(* end of the request, the item after a list starts behind it, and no more *)
(* items are counted than there are bytes.                                 *)
(***************************************************************************)
CallAdvances == [][Left' < Left]_vars
=============================================================================
