------------------------------- MODULE Zcbor --------------------------------
(***************************************************************************)
(* The part of the zcbor decoder that the library calls, byte for byte.    *)
(* A cursor c stands for zcbor_state_t: the next byte to read (payload),   *)
(* the header read last (payload_bak), how many elements its container may *)
(* still have (elem_count), whether that container is of indefinite length *)
(* and the backups of the containers around it.  Every decoder takes the   *)
(* payload b and a cursor and returns [ok, cur, val].  The build defines   *)
(* neither ZCBOR_CANONICAL nor ZCBOR_STOP_ON_ERROR: an encoding need not   *)
(* be the shortest and an error does not stop later calls.                 *)
(*                                                                         *)
(* A 64-bit integer is its eight bytes, the most significant first.        *)
(***************************************************************************)
EXTENDS Integers, Sequences

CONSTANT NumBackups  \* the size of the state array less two

ASSUME BackupAssumption == NumBackups \in Nat

Byte == 0 .. 255
Word == [1 .. 8 -> Byte]

PINT == 0
NINT == 1
BSTR == 2
TSTR == 3
LIST == 4
MAP == 5
TAG == 6
SIMPLE == 7
MajorType == PINT .. SIMPLE

Major(byte) == byte \div 32
Additional(byte) == byte % 32
Indefinite == 31
BreakByte == 255

\* How many bytes follow the header (24 .. 27 stand for 1, 2, 4 and 8).
additional_len(a) == IF a <= 23 THEN 0 ELSE <<1, 2, 4, 8>>[a - 23]

(***************************************************************************)
(* Element counts and lengths.  A payload is shorter than Huge, so a count *)
(* of Huge elements or more, ZCBOR_LARGE_ELEM_COUNT among them, is one     *)
(* that never runs out.                                                    *)
(***************************************************************************)
Huge == 16777216
Count(w) == IF \A i \in 1 .. 5 : w[i] = 0
            THEN 65536 * w[6] + 256 * w[7] + w[8]
            ELSE Huge

\* elem_count >= ZCBOR_MAX_ELEM_COUNT / 2: doubling it would overflow.
TooManyPairs(w) == \/ w[1] >= 128
                   \/ w[1] = 127 /\ \A i \in 2 .. 8 : w[i] = 255

zcbor_new_decode_state(p) ==
    [pos |-> p, bak |-> p, count |-> 1, indef |-> FALSE, backups |-> <<>>]

Ok(c, v) == [ok |-> TRUE, cur |-> c, val |-> v]
Fail(c) == [ok |-> FALSE, cur |-> c, val |-> <<>>]

InPayload(b, c) == c.pos <= Len(b)
type_check(b, c, major) == InPayload(b, c) /\ Major(b[c.pos]) = major
err_restore(c) == [c EXCEPT !.pos = c.bak, !.count = @ + 1]

\* The value of the header at p; endian_copy puts the bytes that follow it
\* at the low end of a word that starts as zero.
ValueAt(b, p) ==
    LET a == Additional(b[p])
        n == additional_len(a)
    IN  [i \in 1 .. 8 |-> IF n = 0 THEN (IF i = 8 THEN a ELSE 0)
                          ELSE IF i + n > 8 THEN b[p + i + n - 8] ELSE 0]

value_extract(b, c, width, indefOk) ==
    LET a == Additional(b[c.pos])
        n == IF a = Indefinite THEN 0 ELSE additional_len(a)
        moved == [c EXCEPT !.bak = c.pos, !.pos = @ + n + 1, !.count = @ - 1]
    IN  IF /\ InPayload(b, c) /\ c.count # 0
           /\ \/ a = Indefinite /\ indefOk
              \/ a <= 27 /\ n <= width /\ c.pos + n <= Len(b)
        THEN Ok(moved, IF a = Indefinite THEN [i \in 1 .. 8 |-> 0] ELSE ValueAt(b, c.pos))
        ELSE Fail(c)

zcbor_uint64_decode(b, c) ==
    IF type_check(b, c, PINT) THEN value_extract(b, c, 8, FALSE) ELSE Fail(c)

\* Two's complement: the value's own bits, or all of them flipped.  A value
\* whose top bit is set does not fit.
val_to_int(major, w) == IF major = NINT THEN [i \in 1 .. 8 |-> 255 - w[i]] ELSE w

zcbor_int64_decode(b, c) ==
    LET r == value_extract(b, c, 8, FALSE)
    IN  IF ~ (type_check(b, c, PINT) \/ type_check(b, c, NINT)) THEN Fail(c)
        ELSE IF ~ r.ok THEN Fail(c)
        ELSE IF r.val[1] >= 128 THEN Fail(err_restore(r.cur))
        ELSE Ok(r.cur, val_to_int(Major(b[c.pos]), r.val))

\* zcbor_bstr_decode and zcbor_tstr_decode.
str_decode(b, c, major) ==
    LET r == value_extract(b, c, 8, FALSE)
        p == r.cur.pos
        n == Count(r.val)
    IN  IF ~ type_check(b, c, major) \/ ~ r.ok THEN Fail(c)
        ELSE IF n > Len(b) + 1 - p THEN Fail(err_restore(r.cur))
        ELSE Ok([r.cur EXCEPT !.pos = @ + n], SubSeq(b, p, p + n - 1))

zcbor_simple_decode(b, c) ==
    LET r == value_extract(b, c, 1, FALSE)
    IN  IF ~ type_check(b, c, SIMPLE) \/ Additional(b[c.pos]) > 24 \/ ~ r.ok THEN Fail(c)
        ELSE IF Additional(b[c.pos]) = 24 /\ r.val[8] < 32 THEN Fail(err_restore(r.cur))
        ELSE r

zcbor_nil_expect(b, c) ==
    LET r == zcbor_simple_decode(b, c)
    IN  IF r.ok /\ r.val[8] # 22 THEN Fail(err_restore(r.cur)) ELSE r

zcbor_bool_decode(b, c) ==
    LET r == zcbor_simple_decode(b, c)
    IN  IF r.ok /\ r.val[8] \notin {20, 21} THEN Fail(err_restore(r.cur)) ELSE r

zcbor_float64_decode(b, c) ==
    IF type_check(b, c, SIMPLE) /\ Additional(b[c.pos]) = 27
    THEN value_extract(b, c, 8, FALSE)
    ELSE Fail(c)

-----------------------------------------------------------------------------
(***************************************************************************)
(* Containers.  Entering one saves the cursor of the container around it   *)
(* on the backup list; leaving one takes it back but keeps the position.   *)
(***************************************************************************)
\* Mutant: one backup more than the list has room for.
BackupPastEnd(c, n) ==
    IF Len(c.backups) > NumBackups THEN Fail(c)
    ELSE Ok([c EXCEPT !.backups = Append(@, [bak |-> c.bak, count |-> c.count, indef |-> c.indef]),
                      !.count = n], <<>>)

zcbor_new_backup(c, n) ==
    IF Len(c.backups) >= NumBackups THEN Fail(c)
    ELSE Ok([c EXCEPT !.backups = Append(@, [bak |-> c.bak, count |-> c.count, indef |-> c.indef]),
                      !.count = n], <<>>)

list_map_start_decode(b, c, major) ==
    LET r == value_extract(b, c, 8, TRUE)
        indef == Additional(b[c.pos]) = Indefinite
        s == zcbor_new_backup(r.cur, IF indef THEN Huge ELSE Count(r.val))
    IN  IF ~ type_check(b, c, major) \/ ~ r.ok THEN Fail(c)
        ELSE IF ~ s.ok THEN Fail(err_restore(r.cur))
        ELSE Ok([s.cur EXCEPT !.indef = indef], r.val)

zcbor_list_start_decode(b, c) == list_map_start_decode(b, c, LIST)

\* A count of 2^64 - 1 that an error has taken up by one.
Wrapped(w) == \A i \in 1 .. 8 : w[i] = 255

\* A map's header counts pairs.
zcbor_map_start_decode(b, c) ==
    LET r == list_map_start_decode(b, c, MAP)
    IN  IF ~ r.ok \/ r.cur.indef THEN r
        ELSE IF Wrapped(r.val) THEN Fail([err_restore(r.cur) EXCEPT !.count = 0])
        ELSE IF TooManyPairs(r.val) THEN Fail(err_restore(r.cur))
        ELSE Ok([r.cur EXCEPT !.count = 2 * @], r.val)

zcbor_array_at_end(b, c) ==
    \/ ~ c.indef /\ c.count = 0
    \/ c.indef /\ InPayload(b, c) /\ b[c.pos] = BreakByte

\* zcbor_process_backup with RESTORE, CONSUME and KEEP_PAYLOAD.
zcbor_process_backup(c) ==
    LET n == Len(c.backups)
        top == c.backups[n]
    IN  [pos |-> c.pos, bak |-> top.bak, count |-> top.count, indef |-> top.indef,
         backups |-> SubSeq(c.backups, 1, n - 1)]

array_end_expect(b, c) ==
    IF InPayload(b, c) /\ b[c.pos] = BreakByte
    THEN Ok([c EXCEPT !.pos = @ + 1], <<>>)
    ELSE Fail(c)

\* Mutant: the break that ends a container of indefinite length is left unread.
EndLeavesBreak(b, c) ==
    IF Len(c.backups) = 0 THEN Fail(c) ELSE Ok(zcbor_process_backup(c), <<>>)

\* zcbor_list_end_decode and zcbor_map_end_decode.
list_map_end_decode(b, c) ==
    IF Len(c.backups) = 0 THEN Fail(c)
    ELSE LET out == zcbor_process_backup(c)
         IN  IF c.indef THEN array_end_expect(b, out)
             ELSE IF c.count > 0 THEN Fail(out) ELSE Ok(out, <<>>)
=============================================================================
