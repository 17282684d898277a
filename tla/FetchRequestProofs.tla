------------------------- MODULE FetchRequestProofs -------------------------
(***************************************************************************)
(* The parsers of fetch.c on every request, however malformed: each step   *)
(* of a call brings its end nearer, and no key string stays allocated.     *)
(***************************************************************************)
EXTENDS FetchRequest, TLAPS, FiniteSetTheorems, SequenceTheorems

-----------------------------------------------------------------------------
(***************************************************************************)
(* How the three zcbor functions that the first pass calls move.           *)
(***************************************************************************)

\* A decoder state, of which the first pass uses the position.
IsCursor(c) == "pos" \in DOMAIN c

\* A position in b, or right behind its end.
Inside(b, p) == p \in 1 .. Len(b) + 1

\* A header is followed by 0, 1, 2, 4 or 8 bytes.
LEMMA HeaderLen ==
    ASSUME NEW byte \in Byte, Additional(byte) <= 27
    PROVE  additional_len(Additional(byte)) \in Nat
<1> DEFINE a == Additional(byte)
<1>1. a \in 0 .. 27
  BY DEF Byte, Additional
<1>2. additional_len(a) \in Nat
  <2> HIDE DEF a
  <2>1. CASE a <= 23
    BY <2>1 DEF additional_len
  <2>2. CASE ~ (a <= 23)
    <3>1. a \in {24, 25, 26, 27}
      BY <1>1, <2>2
    <3> QED BY <3>1 DEF additional_len
  <2> QED BY <2>1, <2>2
<1> QED
  BY <1>2

\* value_extract that succeeds moves on and stays inside.
LEMMA ExtractMoves ==
    ASSUME NEW b \in Seq(Byte), NEW c, IsCursor(c), Inside(b, c.pos),
           NEW width, NEW indefOk, value_extract(b, c, width, indefOk).ok
    PROVE  LET r == value_extract(b, c, width, indefOk)
           IN  IsCursor(r.cur) /\ Inside(b, r.cur.pos) /\ r.cur.pos > c.pos
<1> DEFINE r == value_extract(b, c, width, indefOk)
           a == Additional(b[c.pos])
           n == IF a = Indefinite THEN 0 ELSE additional_len(a)
           moved == [c EXCEPT !.bak = c.pos, !.pos = @ + n + 1, !.count = @ - 1]
<1>1. ~ Fail(c).ok
  BY DEF Fail
<1>2. /\ InPayload(b, c)
      /\ a = Indefinite \/ (a <= 27 /\ c.pos + n <= Len(b))
      /\ r.cur = moved
  BY <1>1, Zenon DEF value_extract, Ok
<1>3. c.pos \in 1 .. Len(b) /\ b[c.pos] \in Byte /\ Len(b) \in Nat
  BY <1>2 DEF InPayload, Inside
<1>4. n \in Nat /\ c.pos + n <= Len(b)
  BY <1>2, <1>3, HeaderLen
<1> HIDE DEF n
<1>5. moved.pos = c.pos + n + 1 /\ IsCursor(moved)
  BY DEF IsCursor
<1> QED
  BY <1>2, <1>3, <1>4, <1>5 DEF Inside

\* So do the readers of a SID and of the start of a list.
LEMMA SidMoves ==
    ASSUME NEW b \in Seq(Byte), NEW c, IsCursor(c), Inside(b, c.pos),
           zcbor_uint64_decode(b, c).ok
    PROVE  LET r == zcbor_uint64_decode(b, c)
           IN  IsCursor(r.cur) /\ Inside(b, r.cur.pos) /\ r.cur.pos > c.pos
<1>1. ~ Fail(c).ok
  BY DEF Fail
<1>2. zcbor_uint64_decode(b, c) = value_extract(b, c, 8, FALSE)
  BY <1>1 DEF zcbor_uint64_decode
<1> QED
  BY <1>2, ExtractMoves

\* zcbor_list_start_decode: the header, then a backup, which keeps the
\* position.
LEMMA ListMoves ==
    ASSUME NEW b \in Seq(Byte), NEW c, IsCursor(c), Inside(b, c.pos),
           zcbor_list_start_decode(b, c).ok
    PROVE  LET r == zcbor_list_start_decode(b, c)
           IN  IsCursor(r.cur) /\ Inside(b, r.cur.pos) /\ r.cur.pos > c.pos
<1> DEFINE r == value_extract(b, c, 8, TRUE)
           indef == Additional(b[c.pos]) = Indefinite
           n == IF indef THEN Huge ELSE Count(r.val)
           s == zcbor_new_backup(r.cur, n)
           d == [s.cur EXCEPT !.indef = indef]
<1>1. \A x : ~ Fail(x).ok
  BY DEF Fail
<1>2. r.ok /\ s.ok /\ zcbor_list_start_decode(b, c).cur = d
  BY <1>1, Zenon DEF zcbor_list_start_decode, list_map_start_decode, Ok
<1>3. IsCursor(r.cur) /\ Inside(b, r.cur.pos) /\ r.cur.pos > c.pos
  BY <1>2, ExtractMoves
<1> HIDE DEF r, n, indef
<1>4. s.cur = [r.cur EXCEPT !.backups = Append(@, [bak |-> r.cur.bak, count |-> r.cur.count,
                                                  indef |-> r.cur.indef]),
                            !.count = n]
  BY <1>1, <1>2, Zenon DEF zcbor_new_backup, Ok
<1>5. IsCursor(s.cur) /\ s.cur.pos = r.cur.pos
  BY <1>3, <1>4 DEF IsCursor
<1> HIDE DEF s
<1>6. IsCursor(d) /\ d.pos = s.cur.pos
  BY <1>5 DEF IsCursor
<1> QED
  BY <1>2, <1>3, <1>5, <1>6

\* zcbor_list_end_decode takes a break that is there, or nothing.
LEMMA EndMoves ==
    ASSUME NEW b \in Seq(Byte), NEW c, IsCursor(c), Inside(b, c.pos)
    PROVE  LET r == list_map_end_decode(b, c)
           IN  Inside(b, r.cur.pos) /\ r.cur.pos >= c.pos
<1> DEFINE r == list_map_end_decode(b, c)
           out == zcbor_process_backup(c)
           past == [out EXCEPT !.pos = @ + 1]
<1>1. out.pos = c.pos /\ past.pos = c.pos + 1
  BY DEF zcbor_process_backup
<1>2. r.cur = c \/ r.cur = out \/ (InPayload(b, out) /\ r.cur = past)
  <2>1. \A x, v : Fail(x).cur = x /\ Ok(x, v).cur = x
    BY DEF Fail, Ok
  <2> QED BY <2>1, Zenon DEF list_map_end_decode, array_end_expect
<1> HIDE DEF out, past, r
<1>3. Len(b) \in Nat
  OBVIOUS
<1> QED
  BY <1>1, <1>2, <1>3 DEF Inside, InPayload, r

-----------------------------------------------------------------------------
(***************************************************************************)
(* The key strings that a list of items holds.                             *)
(***************************************************************************)
IsItems(s) == \E S : s \in Seq(S)

LEMMA KeyStringsEmpty == KeyStrings(<<>>) = 0
<1>1. {i \in DOMAIN <<>> : <<>>[i].kind = "str"} = {}
  OBVIOUS
<1> QED
  BY <1>1, FS_EmptySet DEF KeyStrings

LEMMA KeyStringsNat ==
    ASSUME NEW s, IsItems(s)
    PROVE  KeyStrings(s) \in Nat /\ IsFiniteSet({i \in DOMAIN s : s[i].kind = "str"})
<1>1. DOMAIN s = 1 .. Len(s) /\ Len(s) \in Int
  BY DEF IsItems
<1>2. IsFiniteSet(1 .. Len(s))
  BY <1>1, FS_Interval
<1>3. {i \in DOMAIN s : s[i].kind = "str"} \in SUBSET (1 .. Len(s))
  BY <1>1
<1>4. IsFiniteSet({i \in DOMAIN s : s[i].kind = "str"})
  BY <1>2, <1>3, FS_Subset
<1> QED
  BY <1>4, FS_CardinalityType DEF KeyStrings

\* An item that is a key string adds one, any other none.
LEMMA KeyStringsAppend ==
    ASSUME NEW s, IsItems(s), NEW x
    PROVE  /\ IsItems(Append(s, x))
           /\ Len(Append(s, x)) = Len(s) + 1
           /\ KeyStrings(Append(s, x)) = KeyStrings(s) + (IF x.kind = "str" THEN 1 ELSE 0)
<1> DEFINE t == Append(s, x)
           n == Len(s) + 1
           Old == {i \in DOMAIN s : s[i].kind = "str"}
           New == {i \in DOMAIN t : t[i].kind = "str"}
<1>1. PICK S : s \in Seq(S)
  BY DEF IsItems
<1>2. s \in Seq(S \cup {x}) /\ x \in S \cup {x}
  BY <1>1
<1>3. t \in Seq(S \cup {x}) /\ Len(t) = n /\ t[n] = x /\ \A i \in 1 .. Len(s) : t[i] = s[i]
  BY <1>2, AppendProperties
<1>4. DOMAIN s = 1 .. Len(s) /\ DOMAIN t = 1 .. n /\ Len(s) \in Nat
  BY <1>1, <1>3
<1>5. n \notin Old /\ IsFiniteSet(Old) /\ KeyStrings(s) \in Nat
  BY <1>4, KeyStringsNat
<1> HIDE DEF t
<1>6. CASE x.kind = "str"
  <2>1. New = Old \cup {n}
    BY <1>3, <1>4, <1>6
  <2>2. Cardinality(New) = Cardinality(Old) + 1
    <3> HIDE DEF Old, New
    <3> QED BY <1>5, <2>1, FS_AddElement
  <2> QED BY <1>3, <1>6, <2>2 DEF KeyStrings, IsItems, t
<1>7. CASE ~ (x.kind = "str")
  <2>1. New = Old
    BY <1>3, <1>4, <1>7
  <2>2. KeyStrings(t) = KeyStrings(s)
    BY <2>1 DEF KeyStrings
  <2>3. IsItems(t)
    BY <1>3 DEF IsItems
  <2> HIDE DEF n, New, Old
  <2>4. KeyStrings(t) = KeyStrings(s) + 0
    BY <1>5, <2>2
  <2> QED BY <1>3, <1>7, <2>3, <2>4 DEF t, n
<1> QED
  BY <1>6, <1>7

LEMMA KeyStringsOne ==
    ASSUME NEW x
    PROVE  KeyStrings(<<x>>) = IF x.kind = "str" THEN 1 ELSE 0
<1>1. IsItems(<<>>) /\ <<x>> = Append(<<>>, x)
  BY DEF IsItems
<1>2. KeyStrings(Append(<<>>, x)) = KeyStrings(<<>>) + (IF x.kind = "str" THEN 1 ELSE 0)
  BY <1>1, KeyStringsAppend
<1>3. KeyStrings(<<x>>) = 0 + (IF x.kind = "str" THEN 1 ELSE 0)
  BY <1>1, <1>2, KeyStringsEmpty
<1> QED
  BY <1>3

-----------------------------------------------------------------------------
(***************************************************************************)
(* The invariant of a call.  The first pass has counted at most one item   *)
(* for each byte it has passed, which bounds the second; what is allocated *)
(* are the keys of the items filled in so far.                             *)
(***************************************************************************)
FetchInv ==
    /\ bytes \in Seq(Byte)
    /\ step \in {"count", "scan", "read", "accepted", "answered", "refused", "released"}
    /\ count \in Nat
    /\ IsItems(iids)
    /\ step \in {"count", "scan", "refused", "released"} => iids = <<>>
    /\ step = "count" => Inside(bytes, off) /\ count < off
    /\ step = "scan" => IsCursor(cur) /\ Inside(bytes, cur.pos) /\ count < cur.pos
    /\ step = "read" => Len(iids) <= count /\ count <= Len(bytes)
    /\ live = KeyStrings(iids)

\* A step keeps the invariant and brings the end nearer.
Progress == FetchInv' /\ Left' < Left

LEMMA FetchInvInit == Init => FetchInv
<1> SUFFICES ASSUME Init
             PROVE  FetchInv
  OBVIOUS
<1>1. bytes \in Seq(Byte) /\ Len(bytes) \in Nat
  BY InputAssumption DEF Init
<1>2. IsItems(<<>>)
  BY DEF IsItems
<1> QED
  BY <1>1, <1>2, KeyStringsEmpty DEF Init, FetchInv, Inside

\* A state for a position of the request is a decoder state there.
LEMMA StateCursor == IsCursor(State) /\ State.pos = off
  BY DEF IsCursor, State, zcbor_new_decode_state

LEMMA CountSidStep == FetchInv /\ CountSid => Progress
<1> SUFFICES ASSUME FetchInv, CountSid
             PROVE  Progress
  OBVIOUS
<1>1. step = "count" /\ bytes \in Seq(Byte) /\ Inside(bytes, off) /\ count < off
  BY DEF FetchInv, CountSid, More
<1>2. Inside(bytes, off') /\ off' > off
  BY <1>1, StateCursor, SidMoves DEF CountSid, SidHere
<1>3. count' = count + 1 /\ count \in Nat /\ off \in Nat /\ off' \in Nat /\ Len(bytes) \in Nat
  BY <1>1, <1>2 DEF CountSid, FetchInv, Inside
<1>4. UNCHANGED <<bytes, step, iids, live>>
  BY DEF CountSid
<1>5. FetchInv'
  BY <1>1, <1>2, <1>3, <1>4 DEF FetchInv, Inside
<1>6. Left' < Left
  BY <1>1, <1>2, <1>3, <1>4 DEF Left
<1> QED
  BY <1>5, <1>6 DEF Progress

LEMMA CountListStep == FetchInv /\ CountList => Progress
<1> SUFFICES ASSUME FetchInv, CountList
             PROVE  Progress
  OBVIOUS
<1>1. step = "count" /\ bytes \in Seq(Byte) /\ Inside(bytes, off) /\ count < off
  BY DEF FetchInv, CountList, More
<1>2. IsCursor(cur') /\ Inside(bytes, cur'.pos) /\ cur'.pos > off
  BY <1>1, StateCursor, ListMoves DEF CountList, ListHere
<1>3. count' = count + 1 /\ count \in Nat /\ off \in Nat /\ cur'.pos \in Nat /\ Len(bytes) \in Nat
  BY <1>1, <1>2 DEF CountList, FetchInv, Inside
<1>4. step' = "scan" /\ UNCHANGED <<bytes, iids, live>>
  BY DEF CountList
<1>5. FetchInv'
  BY <1>1, <1>2, <1>3, <1>4 DEF FetchInv, Inside, IsCursor
<1>6. Left' < Left
  BY <1>1, <1>2, <1>3, <1>4, SMTT(30) DEF Left
<1> QED
  BY <1>5, <1>6 DEF Progress

LEMMA ScanByteStep == FetchInv /\ ScanByte => Progress
<1> SUFFICES ASSUME FetchInv, ScanByte
             PROVE  Progress
  OBVIOUS
<1>1. /\ step = "scan" /\ bytes \in Seq(Byte)
      /\ IsCursor(cur) /\ Inside(bytes, cur.pos) /\ count < cur.pos
  BY DEF FetchInv, ScanByte
<1>2. IsCursor(cur') /\ cur'.pos = cur.pos + 1
  BY <1>1 DEF ScanByte, IsCursor
<1>3. count \in Nat /\ cur.pos \in 1 .. Len(bytes) /\ Len(bytes) \in Nat
  BY <1>1 DEF ScanByte, FetchInv, Inside, Scans, InPayload
<1>4. UNCHANGED <<bytes, step, count, iids, live>>
  BY DEF ScanByte
<1>5. FetchInv'
  BY <1>1, <1>2, <1>3, <1>4 DEF FetchInv, Inside, IsCursor
<1>6. Left' < Left
  BY <1>1, <1>2, <1>3, <1>4 DEF Left
<1> QED
  BY <1>5, <1>6 DEF Progress

LEMMA ScanEndStep == FetchInv /\ ScanEnd => Progress
<1> SUFFICES ASSUME FetchInv, ScanEnd
             PROVE  Progress
  OBVIOUS
<1>1. /\ step = "scan" /\ bytes \in Seq(Byte)
      /\ IsCursor(cur) /\ Inside(bytes, cur.pos) /\ count < cur.pos
  BY DEF FetchInv, ScanEnd
<1>2. Inside(bytes, off') /\ off' >= cur.pos
  BY <1>1, EndMoves DEF ScanEnd
<1>3. count \in Nat /\ cur.pos \in Nat /\ off' \in Nat /\ Len(bytes) \in Nat
  BY <1>1, <1>2 DEF FetchInv, Inside
<1>4. step' = "count" /\ UNCHANGED <<bytes, count, iids, live>>
  BY DEF ScanEnd
<1>5. FetchInv'
  BY <1>1, <1>2, <1>3, <1>4 DEF FetchInv, Inside
<1>6. Left' < Left
  BY <1>1, <1>2, <1>3, <1>4, SMTT(30) DEF Left
<1> QED
  BY <1>5, <1>6 DEF Progress

\* No more items than bytes go to the second pass.
LEMMA CountEndStep == FetchInv /\ CountEnd => Progress
<1> SUFFICES ASSUME FetchInv, CountEnd
             PROVE  Progress
  OBVIOUS
<1>1. /\ step = "count" /\ bytes \in Seq(Byte) /\ Inside(bytes, off) /\ count < off
      /\ iids = <<>> /\ live = KeyStrings(iids)
  BY DEF FetchInv, CountEnd
<1>2. /\ count \in Nat /\ off \in Nat /\ Len(bytes) \in Nat /\ off <= Len(bytes) + 1
      /\ count <= Len(bytes) /\ Len(iids) = 0
  BY <1>1 DEF FetchInv, Inside
<1>3. step' \in {"read", "refused"} /\ UNCHANGED <<bytes, count, iids, live>>
  BY DEF CountEnd
<1>4. FetchInv'
  BY <1>1, <1>2, <1>3 DEF FetchInv
<1>5. Left > count + 3 /\ Left > 0
  BY <1>1, <1>2 DEF Left
<1>6. Left' = count + 3 \/ Left' = 0
  BY <1>2, <1>3 DEF Left
<1> QED
  BY <1>4, <1>5, <1>6 DEF Progress

\* The second pass, where it has not filled every place.
LEMMA ReadFacts ==
    ASSUME FetchInv, Reads
    PROVE  /\ step = "read" /\ bytes \in Seq(Byte) /\ IsItems(iids)
           /\ count \in Nat /\ Len(iids) \in Nat /\ Len(iids) < count
           /\ count <= Len(bytes) /\ KeyStrings(iids) \in Nat /\ live = KeyStrings(iids)
           /\ Left = count - Len(iids) + 3
<1>1. /\ step = "read" /\ bytes \in Seq(Byte) /\ IsItems(iids) /\ Len(iids) < count
      /\ count \in Nat /\ count <= Len(bytes) /\ live = KeyStrings(iids)
  BY DEF FetchInv, Reads
<1>2. Len(iids) \in Nat
  BY <1>1 DEF IsItems
<1>3. KeyStrings(iids) \in Nat
  BY <1>1, KeyStringsNat
<1>4. Left = count - Len(iids) + 3
  BY <1>1 DEF Left
<1> QED
  BY <1>1, <1>2, <1>3, <1>4

\* One more item, with its key string or without.
LEMMA ReadItem ==
    ASSUME FetchInv, Reads, NEW x,
           iids' = Append(iids, x), live' = live + KeyStrings(<<x>>),
           UNCHANGED <<bytes, step, count>>
    PROVE  Progress
<1>1. /\ IsItems(iids') /\ Len(iids') = Len(iids) + 1
      /\ KeyStrings(iids') = KeyStrings(iids) + KeyStrings(<<x>>)
  BY ReadFacts, KeyStringsAppend, KeyStringsOne
<1>2. IsItems(iids)' /\ live' = KeyStrings(iids')
  BY <1>1, ReadFacts DEF IsItems
<1>3. step' = "read" /\ bytes' = bytes /\ count' = count
  BY ReadFacts
<1>4. Len(iids') <= count /\ Len(iids') \in Nat
  BY <1>1, ReadFacts
<1>5. FetchInv'
  BY <1>2, <1>3, <1>4, ReadFacts DEF FetchInv, KeyStrings
<1>6. Left' = count - Len(iids') + 3
  BY <1>3 DEF Left
<1>7. Left' < Left
  BY <1>1, <1>6, ReadFacts
<1> QED
  BY <1>5, <1>7 DEF Progress

LEMMA ReadSidStep == FetchInv /\ ReadSid => Progress
<1> SUFFICES ASSUME FetchInv, ReadSid
             PROVE  Progress
  OBVIOUS
<1> DEFINE x == Sid(SidHere.val)
<1>1. Reads /\ iids' = Append(iids, x) /\ live' = live /\ UNCHANGED <<bytes, step, count>>
  BY DEF ReadSid
<1>2. x.kind # "str"
  BY DEF Sid
<1> HIDE DEF x
<1>3. KeyStrings(<<x>>) = 0
  BY <1>2, KeyStringsOne
<1>4. live' = live + KeyStrings(<<x>>)
  BY <1>1, <1>3, ReadFacts
<1> QED
  BY <1>1, <1>4, ReadItem

LEMMA ReadInstanceStep == FetchInv /\ ReadInstance => Progress
  BY ReadItem DEF ReadInstance

\* Every exit without items: the call is over and nothing is allocated.
LEMMA CallOver ==
    ASSUME FetchInv, step' \in {"refused", "released"}, iids' = <<>>, live' = 0,
           UNCHANGED <<bytes, count>>
    PROVE  FetchInv' /\ Left' = 0
<1>1. IsItems(<<>>)
  BY DEF IsItems
<1>2. FetchInv'
  BY <1>1, KeyStringsEmpty DEF FetchInv, IsItems, KeyStrings
<1>3. Left' = 0
  BY DEF Left
<1> QED
  BY <1>2, <1>3

\* The item that failed is freed with those before it.
LEMMA ReadFailsStep == FetchInv /\ ReadFails => Progress
<1> SUFFICES ASSUME FetchInv, ReadFails
             PROVE  Progress
  OBVIOUS
<1> DEFINE filled == IF parser = "iids" /\ InstanceHere.filled
                     THEN Append(iids, InstanceHere.iid) ELSE iids
<1>1. Reads
  BY DEF ReadFails
<1>2. IsItems(filled) /\ Len(filled) = FreedItems
  <2>1. CASE parser = "iids" /\ InstanceHere.filled
    <3>1. filled = Append(iids, InstanceHere.iid) /\ FreedItems = Len(iids) + 1
      BY <2>1 DEF FreedItems
    <3> HIDE DEF filled
    <3> QED BY <1>1, <3>1, ReadFacts, KeyStringsAppend
  <2>2. CASE ~ (parser = "iids" /\ InstanceHere.filled)
    <3>1. filled = iids /\ FreedItems = Len(iids)
      BY <2>2 DEF FreedItems
    <3> HIDE DEF filled
    <3> QED BY <1>1, <3>1, ReadFacts
  <2> QED BY <2>1, <2>2
<1>3. live' = live + KeyStrings(filled) - KeyStrings(iids)
                   - KeyStrings(SubSeq(filled, 1, FreedItems))
  BY DEF ReadFails
<1> HIDE DEF filled
<1>4. SubSeq(filled, 1, FreedItems) = filled
  BY <1>2 DEF IsItems
<1>5. live' = 0
  <2>1. KeyStrings(filled) \in Nat
    BY <1>2, KeyStringsNat
  <2>2. live = KeyStrings(iids) /\ KeyStrings(iids) \in Nat
    BY <1>1, ReadFacts
  <2>3. live' = live + KeyStrings(filled) - KeyStrings(iids) - KeyStrings(filled)
    BY <1>3, <1>4, Zenon
  <2> QED BY <2>1, <2>2, <2>3
<1>6. step' = "refused" /\ iids' = <<>> /\ UNCHANGED <<bytes, count>>
  BY DEF ReadFails
<1>7. FetchInv' /\ Left' = 0
  BY <1>5, <1>6, CallOver
<1>8. Left > 0
  BY <1>1, ReadFacts
<1> QED
  BY <1>7, <1>8 DEF Progress

LEMMA ReadEndStep == FetchInv /\ ReadEnd => Progress
<1> SUFFICES ASSUME FetchInv, ReadEnd
             PROVE  Progress
  OBVIOUS
<1>1. step = "read" /\ step' = "accepted" /\ Len(iids) = count /\ count \in Nat
  BY DEF ReadEnd, FetchInv
<1>2. Left = 3 /\ Left' = 2
  BY <1>1 DEF Left
<1>3. FetchInv'
  BY <1>1 DEF ReadEnd, FetchInv, IsItems, KeyStrings
<1> QED
  BY <1>2, <1>3 DEF Progress

LEMMA RespondStep == FetchInv /\ Respond => Progress
<1> SUFFICES ASSUME FetchInv, Respond
             PROVE  Progress
  OBVIOUS
<1>1. step = "accepted" /\ step' = "answered"
  BY DEF Respond
<1>2. Left = 2 /\ Left' = 1
  BY <1>1 DEF Left
<1>3. FetchInv'
  BY <1>1 DEF Respond, FetchInv, IsItems, KeyStrings
<1> QED
  BY <1>2, <1>3 DEF Progress

LEMMA ReleaseStep == FetchInv /\ Release => Progress
<1> SUFFICES ASSUME FetchInv, Release
             PROVE  Progress
  OBVIOUS
<1>1. KeyStrings(iids) \in Nat /\ live = KeyStrings(iids)
  BY KeyStringsNat DEF FetchInv
<1>2. live' = 0 /\ step = "answered" /\ step' = "released"
  BY <1>1 DEF Release
<1>3. FetchInv' /\ Left' = 0
  BY <1>2, CallOver DEF Release
<1>4. Left = 1
  BY <1>2 DEF Left
<1> QED
  BY <1>3, <1>4 DEF Progress

-----------------------------------------------------------------------------
(***************************************************************************)
(* A step is the end of a call that stays over, or progress.               *)
(***************************************************************************)
LEMMA NextProgress == FetchInv /\ Next => Progress \/ UNCHANGED vars
  BY CountSidStep, CountListStep, ScanByteStep, ScanEndStep, CountEndStep, ReadSidStep,
     ReadInstanceStep, ReadFailsStep, ReadEndStep, RespondStep, ReleaseStep
     DEF Next, Ended

LEMMA FetchInvStutter == FetchInv /\ UNCHANGED vars => FetchInv'
  BY DEF FetchInv, vars, Inside, IsCursor, IsItems, KeyStrings

LEMMA FetchInvariant == Spec => []FetchInv
<1>1. FetchInv /\ [Next]_vars => FetchInv'
  BY NextProgress, FetchInvStutter DEF Progress
<1> QED
  BY <1>1, FetchInvInit, PTL DEF Spec

(***************************************************************************)
(* parse_fetch_request_iids frees the key strings of every item it had     *)
(* filled in, the failing one included, on each of its error paths, and    *)
(* free_instance_identifiers those of an accepted request: whatever the    *)
(* bytes, no key string is left when the call is over.                     *)
(***************************************************************************)
THEOREM FetchLeaksNothing == Spec => []NothingLeaks
<1>1. FetchInv => NothingLeaks
  BY KeyStringsEmpty DEF FetchInv, NothingLeaks
<1> QED
  BY <1>1, FetchInvariant, PTL

(***************************************************************************)
(* Both passes of the parsers of fetch.c end on every request: the byte    *)
(* scan of a list cannot run past the request or stand still, and the      *)
(* second pass has at most as many places to fill as there are bytes.      *)
(***************************************************************************)
THEOREM FetchAdvances == Spec => CallAdvances
<1>1. FetchInv /\ [Next]_vars => [Left' < Left]_vars
  BY NextProgress DEF Progress
<1> QED
  BY <1>1, FetchInvariant, PTL DEF Spec, CallAdvances

=============================================================================
