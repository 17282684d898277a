---------------------------- MODULE CborSequence ----------------------------
(***************************************************************************)
(* The callers of the decoder.  parse_put_request (and parse_get_response) *)
(* read one item; parse_post_items reads a sequence of maps of one entry   *)
(* and takes all of it or nothing; apply_ipatch_raw reads a sequence of    *)
(* maps and applies each entry as soon as it is read.  What an iPATCH does *)
(* to the datastore with an entry is Datastore's; here it is added to      *)
(* items.  Both sequences read the cursor that the decoder left behind.    *)
(***************************************************************************)
EXTENDS CborDecoder

CONSTANTS
    Calls,   \* which of "put", "post" and "ipatch" are made
    KeyRoom  \* 127: the characters of an instance key that an iPATCH keeps

ASSUME KeyRoomAssumption == KeyRoom \in Nat

VARIABLES
    call,   \* the function called
    step,   \* its loop: before a "map", at a "key", after a "value", at its "close"; "end"
    ptr,    \* where the map being read starts
    key,    \* the key read last
    items,  \* the items read (POST) or applied (iPATCH)
    good    \* what POST returned

callerVars == <<call, step, ptr, key, items, good>>
vars == <<decoderVars, callerVars>>

NoKey == Sid([i \in 1 .. 8 |-> 0])

-----------------------------------------------------------------------------
\* decode_post_key on a list: the first call that fails ends it.
PostInstance(b, c) ==
    LET open == zcbor_list_start_decode(b, c)
        sid == zcbor_uint64_decode(b, open.cur)
        str == str_decode(b, sid.cur, TSTR)
        end == list_map_end_decode(b, str.cur)
    IN  IF ~ open.ok THEN open ELSE IF ~ sid.ok THEN sid
        ELSE IF ~ str.ok THEN str ELSE IF ~ end.ok THEN end
        ELSE Ok(end.cur, Instance(sid.val, CString(str.val)))

\* The type of the item at the cursor, read as it is: past the end of the
\* payload it is whatever the byte there says.
MajorAt(b, c, beyond) == IF InPayload(b, c) THEN Major(b[c.pos]) ELSE beyond

\* The same in apply_ipatch_raw, which leaves the list on an error and cuts
\* the key to its buffer.
PatchInstance(b, c, beyond) ==
    LET open == zcbor_list_start_decode(b, c)
        sid == zcbor_uint64_decode(b, open.cur)
        str == str_decode(b, sid.cur, TSTR)
        end == list_map_end_decode(b, str.cur)
        cut == IF Len(str.val) < KeyRoom THEN Len(str.val) ELSE KeyRoom
    IN  IF ~ open.ok THEN open
        ELSE IF ~ sid.ok \/ MajorAt(b, sid.cur, beyond) # TSTR
               THEN Fail(list_map_end_decode(b, sid.cur).cur)
        ELSE IF ~ str.ok THEN Fail(list_map_end_decode(b, str.cur).cur)
        ELSE IF ~ end.ok THEN end
        ELSE Ok(end.cur, Instance(sid.val, CString(SubSeq(str.val, 1, cut))))

\* A SID, or what was read of an instance.
KeyDecoded(b, c, beyond, instance) ==
    CASE MajorAt(b, c, beyond) = PINT -> LET k == zcbor_uint64_decode(b, c)
                                         IN  IF k.ok THEN Ok(k.cur, Sid(k.val)) ELSE k
      [] MajorAt(b, c, beyond) = LIST -> instance
      [] OTHER                        -> Fail(c)

Calling(f) == call = f /\ pc = "done"
Finish(ok) == step' = "end" /\ good' = ok /\ UNCHANGED <<cur, pc, ptr, key, items>>

\* The value of the key k is decoded next, by a call at depth 0.
ReadValue(k) ==
    /\ cur' = k.cur /\ key' = k.val
    /\ pc' = "value" /\ step' = "value"
    /\ UNCHANGED <<ptr, items, good>>

-----------------------------------------------------------------------------
OpenMap ==
    /\ pc = "done" /\ step = "map" /\ ptr <= Len(bytes)
    /\ LET r == zcbor_map_start_decode(bytes, zcbor_new_decode_state(ptr))
       IN  IF r.ok
           THEN cur' = r.cur /\ step' = "key" /\ UNCHANGED <<pc, ptr, key, items, good>>
           ELSE Finish(call = "ipatch")

EndOfSequence ==
    /\ pc = "done" /\ step = "map" /\ ptr > Len(bytes)
    /\ Finish(call = "ipatch" \/ items # <<>>)

PostKey ==
    /\ Calling("post") /\ step = "key"
    /\ \E beyond \in MajorType :
         LET k == KeyDecoded(bytes, cur, beyond, PostInstance(bytes, cur))
         IN  IF zcbor_array_at_end(bytes, cur) \/ ~ k.ok THEN Finish(FALSE) ELSE ReadValue(k)

\* Mutant: the entry's value is taken although the map goes on after it.
PostTakesFirst ==
    /\ Calling("post") /\ step = "value"
    /\ LET r == list_map_end_decode(bytes, cur)
       IN  IF ret = NoValue
           THEN Finish(FALSE)
           ELSE /\ items' = Append(items, [key |-> key, val |-> ret])
                /\ cur' = r.cur /\ ptr' = r.cur.pos /\ step' = "map"
                /\ UNCHANGED <<pc, key, good>>

PostValue ==
    /\ Calling("post") /\ step = "value"
    /\ LET r == list_map_end_decode(bytes, cur)
       IN  IF \/ ret = NoValue \/ ~ zcbor_array_at_end(bytes, cur)
              \/ ~ r.ok \/ r.cur.pos <= ptr
           THEN Finish(FALSE)
           ELSE /\ items' = Append(items, [key |-> key, val |-> ret])
                /\ cur' = r.cur /\ ptr' = r.cur.pos /\ step' = "map"
                /\ UNCHANGED <<pc, key, good>>

PatchKey ==
    /\ Calling("ipatch") /\ step = "key"
    /\ \E beyond \in MajorType :
         LET k == KeyDecoded(bytes, cur, beyond, PatchInstance(bytes, cur, beyond))
         IN  IF zcbor_array_at_end(bytes, cur)
             THEN step' = "close" /\ UNCHANGED <<cur, pc, ptr, key, items, good>>
             ELSE IF ~ k.ok
                  THEN cur' = k.cur /\ step' = "close" /\ UNCHANGED <<pc, ptr, key, items, good>>
                  ELSE ReadValue(k)

PatchValue ==
    /\ Calling("ipatch") /\ step = "value"
    /\ step' = IF ret = NoValue THEN "close" ELSE "key"
    /\ items' = IF ret = NoValue THEN items ELSE Append(items, [key |-> key, val |-> ret])
    /\ UNCHANGED <<cur, pc, ptr, key, good>>

\* Mutant: the next map is looked for where this one began.
PatchStays ==
    /\ Calling("ipatch") /\ step = "close"
    /\ cur' = list_map_end_decode(bytes, cur).cur
    /\ step' = "map"
    /\ UNCHANGED <<pc, ptr, key, items, good>>

\* next_map: the end of the map is expected wherever the cursor stands.
PatchClose ==
    /\ Calling("ipatch") /\ step = "close"
    /\ cur' = list_map_end_decode(bytes, cur).cur
    /\ ptr' = cur'.pos
    /\ step' = "map"
    /\ UNCHANGED <<pc, key, items, good>>

PutValue == Calling("put") /\ step = "value" /\ Finish(ret # NoValue)

CallerStep ==
    /\ \/ OpenMap \/ EndOfSequence \/ PostKey \/ PostValue
       \/ PatchKey \/ PatchValue \/ PatchClose \/ PutValue
    /\ UNCHANGED <<bytes, stack, ret, call>>

DecoderStep == DecodeStep /\ UNCHANGED callerVars

Init ==
    /\ bytes \in Inputs /\ call \in Calls
    /\ bytes # <<>>
    /\ cur = zcbor_new_decode_state(1)
    /\ stack = <<>> /\ ret = NoValue
    /\ pc = IF call = "put" THEN "value" ELSE "done"
    /\ step = IF call = "put" THEN "value" ELSE "map"
    /\ ptr = 1 /\ key = NoKey /\ items = <<>> /\ good = FALSE

Next == DecoderStep \/ CallerStep

Spec == Init /\ [][Next]_vars

-----------------------------------------------------------------------------
(***************************************************************************)
(* Whatever the payload, the cursor never passes the byte after its end,   *)
(* no call saves more backups than the state array holds, and no more      *)
(* containers are open than there are backups: leaving one always finds    *)
(* the cursor of the one around it.  That byte itself is read when a body  *)
(* ends where a key is due, or the text of an instance: both callers look  *)
(* at the type of what stands there without asking whether the payload     *)
(* goes on.  Whatever it says, this holds and so do the properties below:  *)
(* the decoder it selects finds the payload at its end.                    *)
(***************************************************************************)
CursorInside ==
    /\ CursorOk(cur)
    /\ ptr \in 1 .. Len(bytes) + 1
    /\ Depth <= Len(cur.backups)
    /\ pc = "loop" => Depth > 0

Position == IF step = "map" THEN ptr ELSE cur.pos
StepsLeft == CASE step = "end" -> 0 [] step = "map" -> 1 [] step = "close" -> 2
               [] step = "key" -> 3 [] OTHER -> 4
Left == 8 * (Len(bytes) + 1 - Position) + 2 * Depth + Turn + StepsLeft

(***************************************************************************)
(* Whatever the payload, every step but the one of a stalled array leaves  *)
(* less to do: requests end unless an array stalls.  Each map of a         *)
(* sequence starts after the one before it, so the scan of an iPATCH that  *)
(* goes on after an error cannot turn in a circle, and a map ends whatever *)
(* its entries are.                                                        *)
(***************************************************************************)
RequestAdvances == [][Stalled \/ Left' < Left]_vars
=============================================================================
