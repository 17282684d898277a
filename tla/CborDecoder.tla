----------------------------- MODULE CborDecoder ----------------------------
(***************************************************************************)
(* cborToCoreconfValue with _parse_array and _parse_map, as the machine    *)
(* that runs them: a stack of the containers being read, one step per call *)
(* or turn of a loop.  A decoder that fails returns no error to its caller *)
(* here: a failed item is NULL, a failed container is what was read of it. *)
(* The stack only ever grows through the zcbor backups, and a container    *)
(* that is left early keeps its backup.                                    *)
(***************************************************************************)
EXTENDS Zcbor, CoreconfValue

CONSTANTS
    Inputs,    \* the payloads
    MaxDepth,  \* CORECONF_MAX_DEPTH
    MaxLoop,   \* CORECONF_MAX_LOOP
    MaxItems   \* bound: the elements after which an array is not read on

ASSUME InputAssumption == Inputs \subseteq Seq(Byte)
ASSUME LimitAssumption == MaxDepth \in Nat /\ MaxLoop \in Nat /\ MaxItems \in Nat

VARIABLES
    bytes,  \* the payload
    cur,    \* state: the zcbor cursor
    stack,  \* the arrays and maps being read, the innermost last
    pc,     \* what runs: a call ("value"), a loop ("loop") or the caller ("done")
    ret     \* what the outermost call returned

decoderVars == <<bytes, cur, stack, pc, ret>>

\* createCoreconfArray, createCoreconfHashmap and the locals of the loop.
Frame(t) == [t |-> t, v |-> <<>>, key |-> [i \in 1 .. 8 |-> 0], loops |-> 0]
Contents(f) == Value(f.t, f.v)
Depth == Len(stack)
Top == stack[Depth]

\* addToCoreconfArray and insertCoreconfHashMap; NULL is not stored.
Inserted(m, k, x) == [j \in DOMAIN m \cup {k} |-> IF j = k THEN x ELSE m[j]]
Stored(f, x) ==
    IF f.t = "array"
    THEN IF x = NoValue THEN f ELSE [f EXCEPT !.v = Append(@, x)]
    ELSE [f EXCEPT !.v = IF x = NoValue THEN @ ELSE Inserted(@, f.key, x), !.loops = @ + 1]

\* cborToCoreconfValue ends with x, and the loop around it (if any) goes on.
Return(c, x, s) ==
    /\ cur' = c
    /\ IF s = <<>>
       THEN pc' = "done" /\ ret' = x /\ stack' = s
       ELSE /\ pc' = "loop" /\ UNCHANGED ret
            /\ stack' = [s EXCEPT ![Len(s)] = Stored(@, x)]

Leave(c) == Return(c, Contents(Top), SubSeq(stack, 1, Depth - 1))

-----------------------------------------------------------------------------
\* The item at the cursor when it is not a container.
Simple(b, c) ==
    LET real == zcbor_float64_decode(b, c)
        bool == zcbor_bool_decode(b, real.cur)
        nil == zcbor_nil_expect(b, bool.cur)
    IN  IF real.ok THEN Ok(real.cur, Value("real", real.val))
        ELSE IF bool.ok THEN Ok(bool.cur, Value("bool", <<bool.val[8] - 20>>))
        ELSE IF nil.ok THEN Ok(nil.cur, NullValue)
        ELSE Fail(nil.cur)

Typed(t, r) == IF r.ok THEN Ok(r.cur, Value(t, r.val)) ELSE r
Text(r) == IF r.ok THEN Ok(r.cur, Value("string", CString(r.val))) ELSE r

Scalar(b, c) ==
    LET m == Major(b[c.pos])
    IN  CASE m = PINT   -> Typed("uint", zcbor_uint64_decode(b, c))
          [] m = NINT   -> Typed("int", zcbor_int64_decode(b, c))
          [] m = BSTR   -> Text(str_decode(b, c, BSTR))
          [] m = TSTR   -> Text(str_decode(b, c, TSTR))
          [] m = SIMPLE -> Simple(b, c)
          [] OTHER      -> Fail(c)

Container(b, c) == IF Major(b[c.pos]) = LIST THEN zcbor_list_start_decode(b, c)
                                             ELSE zcbor_map_start_decode(b, c)
Kind(byte) == IF Major(byte) = LIST THEN "array" ELSE "map"

\* A call that is too deep, or starts at the end of the payload.
ReadNothing ==
    /\ pc = "value"
    /\ Depth > MaxDepth \/ ~ InPayload(bytes, cur)
    /\ Return(cur, NoValue, stack)

CanRead == pc = "value" /\ Depth <= MaxDepth /\ InPayload(bytes, cur)

ReadScalar ==
    /\ CanRead
    /\ Major(bytes[cur.pos]) \notin {LIST, MAP}
    /\ LET r == Scalar(bytes, cur)
       IN  Return(r.cur, IF r.ok THEN r.val ELSE NoValue, stack)

\* A container that cannot be entered is returned empty.
ReadContainer ==
    /\ CanRead
    /\ Major(bytes[cur.pos]) \in {LIST, MAP}
    /\ LET r == Container(bytes, cur)
           f == Frame(Kind(bytes[cur.pos]))
       IN  IF r.ok
           THEN cur' = r.cur /\ stack' = Append(stack, f) /\ pc' = "loop" /\ UNCHANGED ret
           ELSE Return(r.cur, Contents(f), stack)

-----------------------------------------------------------------------------
Looping(t) == pc = "loop" /\ Top.t = t

\* _parse_array and _parse_map at their end; that the end fails is not told.
EndContainer ==
    /\ pc = "loop"
    /\ zcbor_array_at_end(bytes, cur)
    /\ Leave(list_map_end_decode(bytes, cur).cur)

NextElement ==
    /\ Looping("array")
    /\ ~ zcbor_array_at_end(bytes, cur)
    /\ Len(Top.v) < MaxItems
    /\ pc' = "value"
    /\ UNCHANGED <<cur, stack, ret>>

\* Mutant: the limit counts the entries before this one only.
ReadsOn(f) == f.loops < MaxLoop

\* Infinite-loop protection.
GoesOn(f) == f.loops <= MaxLoop

\* A limit reached or a key that is no unsigned integer leaves the map where
\* it is, its backup unconsumed.
NextEntry ==
    /\ Looping("map")
    /\ ~ zcbor_array_at_end(bytes, cur)
    /\ LET k == zcbor_uint64_decode(bytes, cur)
       IN  IF ~ GoesOn(Top) THEN Leave(cur)
           ELSE IF ~ k.ok THEN Leave(k.cur)
           ELSE /\ pc' = "value"
                /\ cur' = k.cur
                /\ stack' = [stack EXCEPT ![Depth].key = k.val]
                /\ UNCHANGED ret

DecodeStep ==
    /\ ReadNothing \/ ReadScalar \/ ReadContainer \/ EndContainer \/ NextElement \/ NextEntry
    /\ UNCHANGED bytes

-----------------------------------------------------------------------------
\* The cursor of a container, and of the ones saved around it.
CursorOk(c) ==
    /\ c.pos \in 1 .. Len(bytes) + 1
    /\ c.bak \in 1 .. Len(bytes) + 1
    /\ c.count \in Nat
    /\ c.indef \in BOOLEAN
    /\ Len(c.backups) <= NumBackups

\* The innermost array calls for an element and the call moves nothing: the
\* loop of _parse_array then repeats the call for ever.
Stalled ==
    /\ pc = "value" /\ Depth > 0 /\ Top.t = "array"
    /\ \/ Depth > MaxDepth \/ ~ InPayload(bytes, cur)
       \/ LET r == IF Major(bytes[cur.pos]) \in {LIST, MAP} THEN Container(bytes, cur)
                                                             ELSE Scalar(bytes, cur)
          IN  ~ r.ok

(***************************************************************************)
(* What is left to do: the bytes, the open containers, the turn of the     *)
(* loop.  An element of an array is read in two steps of which only the    *)
(* second moves; a pair of a map reads its key before its value.           *)
(***************************************************************************)
Turn == CASE pc = "done" -> 0
          [] pc = "loop" -> 1
          [] OTHER -> IF Depth > 0 /\ Top.t = "array" THEN 0 ELSE 2
=============================================================================
