----------------------------- MODULE CborProofs -----------------------------
(***************************************************************************)
(* What holds of the decoder and its callers for every payload, however    *)
(* malformed: the cursor stays inside the payload and the backups, and     *)
(* every step but that of a stalled array brings the request nearer to its *)
(* end.                                                                    *)
(***************************************************************************)
EXTENDS CborSequence, TLAPS

\* The cursors of a payload of n bytes, and the part of one that is saved.
Saved(n) == [bak : 1 .. n + 1, count : Nat, indef : BOOLEAN]
Cursor(n) == [pos : 1 .. n + 1, bak : 1 .. n + 1, count : Nat, indef : BOOLEAN,
              backups : Seq(Saved(n))]
Sound(b, c) == c \in Cursor(Len(b)) /\ Len(c.backups) <= NumBackups

\* A result r of reading one header or scalar at c: on success the cursor has
\* moved, on failure it is where it was, and no container is left or entered.
Reads(b, c, r) ==
    /\ r.ok \in BOOLEAN
    /\ Sound(b, r.cur)
    /\ r.cur.backups = c.backups
    /\ r.ok => r.cur.pos > c.pos
    /\ ~ r.ok => r.cur.pos = c.pos

\* A result of a call that may enter or leave containers.
Advances(b, c, r) ==
    /\ r.ok \in BOOLEAN
    /\ Sound(b, r.cur)
    /\ r.cur.pos >= c.pos
    /\ r.ok => r.cur.pos > c.pos

LEMMA ByteFields ==
    ASSUME NEW byte \in Byte
    PROVE  /\ Additional(byte) \in 0 .. 31
           /\ Major(byte) \in 0 .. 7
  BY DEF Byte, Additional, Major

LEMMA AdditionalLen ==
    ASSUME NEW a \in 0 .. 27
    PROVE  additional_len(a) \in {0, 1, 2, 4, 8}
<1>1. CASE a <= 23
  BY <1>1 DEF additional_len
<1>2. CASE a > 23
  <2>1. a \in {24, 25, 26, 27}
    BY <1>2
  <2> QED
    BY <2>1 DEF additional_len
<1> QED
  BY <1>1, <1>2

LEMMA CountNat ==
    ASSUME NEW w \in Word
    PROVE  Count(w) \in Nat
<1>1. w[6] \in Nat /\ w[7] \in Nat /\ w[8] \in Nat
  BY DEF Word, Byte
<1>2. 65536 * w[6] + 256 * w[7] + w[8] \in Nat
  BY <1>1
<1> QED
  BY <1>2 DEF Count, Huge

\* A header that is there in full is a word.
LEMMA ValueWord ==
    ASSUME NEW b \in Seq(Byte), NEW p \in 1 .. Len(b), Additional(b[p]) <= 27,
           p + additional_len(Additional(b[p])) <= Len(b)
    PROVE  ValueAt(b, p) \in Word
<1> DEFINE a == Additional(b[p])
           n == additional_len(a)
<1>1. b[p] \in Byte
  OBVIOUS
<1>2. a \in 0 .. 27
  <2>1. a \in 0 .. 31 /\ a <= 27
    BY <1>1, ByteFields
  <2> HIDE DEF a
  <2> QED
    BY <2>1
<1>3. n \in {0, 1, 2, 4, 8}
  BY <1>2, AdditionalLen
<1> SUFFICES ASSUME NEW i \in 1 .. 8
             PROVE  (IF n = 0 THEN (IF i = 8 THEN a ELSE 0)
                     ELSE IF i + n > 8 THEN b[p + i + n - 8] ELSE 0) \in Byte
  BY DEF ValueAt, Word
<1>4. a \in Byte /\ 0 \in Byte
  BY <1>2 DEF Byte
<1>5. ASSUME i + n > 8
      PROVE  b[p + i + n - 8] \in Byte
  <2>1. p + n <= Len(b)
    OBVIOUS
  <2>2. p + i + n - 8 \in 1 .. Len(b)
    <3> HIDE DEF n
    <3> QED
      BY <2>1, <1>3, <1>5
  <2> QED
    BY <2>2
<1> HIDE DEF a, n
<1> QED
  BY <1>4, <1>5

LEMMA Extract ==
    ASSUME NEW b \in Seq(Byte), NEW c, Sound(b, c), NEW width \in Nat,
           NEW indefOk \in BOOLEAN
    PROVE  LET r == value_extract(b, c, width, indefOk)
           IN  /\ Reads(b, c, r)
               /\ r.ok => /\ r.cur.bak = c.pos /\ r.val \in Word
                          /\ r.cur.indef = c.indef /\ InPayload(b, c)
               /\ ~ r.ok => r.cur = c
<1> DEFINE a == Additional(b[c.pos])
           n == IF a = Indefinite THEN 0 ELSE additional_len(a)
           moved == [c EXCEPT !.bak = c.pos, !.pos = @ + n + 1, !.count = @ - 1]
           fits == /\ InPayload(b, c) /\ c.count # 0
                   /\ \/ a = Indefinite /\ indefOk
                      \/ a <= 27 /\ n <= width /\ c.pos + n <= Len(b)
           r == value_extract(b, c, width, indefOk)
<1>1. c \in Cursor(Len(b)) /\ Len(c.backups) <= NumBackups
  BY DEF Sound
<1>2. CASE ~ fits
  <2>1. r = Fail(c)
    BY <1>2 DEF value_extract
  <2> QED
    BY <2>1, <1>1 DEF Fail, Reads, Sound
<1>3. CASE fits
  <2>1. c.pos \in 1 .. Len(b) /\ b[c.pos] \in Byte
    BY <1>1, <1>3 DEF InPayload, Cursor
  <2>2. a \in 0 .. 31
    BY <2>1, ByteFields
  <2>3. n \in {0, 1, 2, 4, 8} /\ c.pos + n <= Len(b)
    <3>1. CASE a = Indefinite
      BY <3>1, <2>1
    <3>2. CASE a # Indefinite
      <4>1. a \in 0 .. 27 /\ c.pos + n <= Len(b)
        <5> HIDE DEF a, n
        <5> QED
          BY <3>2, <2>2, <1>3
      <4> QED
        BY <4>1, <3>2, AdditionalLen
    <3> QED
      BY <3>1, <3>2
  <2>4. r = Ok(moved, IF a = Indefinite THEN [i \in 1 .. 8 |-> 0] ELSE ValueAt(b, c.pos))
    BY <1>3 DEF value_extract
  <2>5. r.val \in Word
    <3>1. CASE a = Indefinite
      BY <3>1, <2>4 DEF Ok, Word, Byte
    <3>2. CASE a # Indefinite
      <4>1. a <= 27 /\ n = additional_len(a)
        BY <3>2, <1>3
      <4>2. ValueAt(b, c.pos) \in Word
        BY <4>1, <2>1, <2>3, ValueWord
      <4> QED
        BY <3>2, <4>2, <2>4 DEF Ok
    <3> QED
      BY <3>1, <3>2
  <2>6. /\ moved \in Cursor(Len(b)) /\ moved.backups = c.backups
        /\ moved.pos > c.pos /\ moved.bak = c.pos /\ moved.indef = c.indef
    <3> HIDE DEF n, a
    <3>1. c.count \in Nat /\ c.count # 0
      BY <1>1, <1>3 DEF Cursor
    <3>2. c.count - 1 \in Nat /\ c.pos + n + 1 \in 1 .. Len(b) + 1 /\ c.pos + n + 1 > c.pos
      BY <3>1, <2>1, <2>3
    <3> QED
      BY <3>2, <2>1, <1>1 DEF Cursor
  <2> HIDE DEF moved, a, n
  <2> QED
    BY <2>4, <2>5, <2>6, <1>1, <1>3 DEF Ok, Reads, Sound
<1> QED
  BY <1>2, <1>3

\* err_restore after a header was read puts the cursor back on it.
LEMMA Restore ==
    ASSUME NEW b \in Seq(Byte), NEW c, Sound(b, c), NEW d, Sound(b, d), d.bak = c.pos
    PROVE  /\ Sound(b, err_restore(d))
           /\ err_restore(d).backups = d.backups
           /\ err_restore(d).pos = c.pos
<1>1. d \in Cursor(Len(b)) /\ Len(d.backups) <= NumBackups
  BY DEF Sound
<1>2. c.pos \in 1 .. Len(b) + 1 /\ d.count + 1 \in Nat
  BY <1>1 DEF Sound, Cursor
<1>3. err_restore(d) = [d EXCEPT !.pos = c.pos, !.count = d.count + 1]
  BY DEF err_restore
<1> QED
  BY <1>1, <1>2, <1>3 DEF Sound, Cursor

LEMMA UintReads ==
    ASSUME NEW b \in Seq(Byte), NEW c, Sound(b, c)
    PROVE  LET r == zcbor_uint64_decode(b, c) IN Reads(b, c, r)
<1>1. LET r == value_extract(b, c, 8, FALSE) IN Reads(b, c, r)
  BY Extract, 8 \in Nat
<1>2. Reads(b, c, Fail(c))
  BY DEF Reads, Fail
<1> QED
  BY <1>1, <1>2 DEF zcbor_uint64_decode

LEMMA IntReads ==
    ASSUME NEW b \in Seq(Byte), NEW c, Sound(b, c)
    PROVE  Reads(b, c, zcbor_int64_decode(b, c))
<1> DEFINE r == value_extract(b, c, 8, FALSE)
<1>1. Reads(b, c, r) /\ (r.ok => r.cur.bak = c.pos)
  BY Extract, 8 \in Nat
<1>2. Reads(b, c, Fail(c))
  BY DEF Reads, Fail
<1> HIDE DEF r
<1>3. r.ok => Reads(b, c, Fail(err_restore(r.cur)))
  BY <1>1, Restore DEF Reads, Fail
<1>4. \A v : r.ok => Reads(b, c, Ok(r.cur, v))
  BY <1>1 DEF Reads, Ok
<1> QED
  BY <1>2, <1>3, <1>4 DEF zcbor_int64_decode, r

LEMMA StrReads ==
    ASSUME NEW b \in Seq(Byte), NEW c, Sound(b, c), NEW major
    PROVE  Reads(b, c, str_decode(b, c, major))
<1> DEFINE r == value_extract(b, c, 8, FALSE)
           p == r.cur.pos
           n == Count(r.val)
           past == [r.cur EXCEPT !.pos = @ + n]
<1>1. Reads(b, c, r) /\ (r.ok => r.cur.bak = c.pos /\ r.val \in Word)
  BY Extract, 8 \in Nat
<1>2. Reads(b, c, Fail(c))
  BY DEF Reads, Fail
<1> HIDE DEF r
<1>3. r.ok => Reads(b, c, Fail(err_restore(r.cur)))
  BY <1>1, Restore DEF Reads, Fail
<1>4. ASSUME r.ok, ~ (n > Len(b) + 1 - p), NEW v
      PROVE  Reads(b, c, Ok(past, v))
  <2>1. n \in Nat
    BY <1>1, <1>4, CountNat
  <2>2. r.cur \in Cursor(Len(b)) /\ p \in 1 .. Len(b) + 1 /\ p > c.pos /\ c.pos \in Nat
    BY <1>1, <1>4 DEF Reads, Sound, Cursor
  <2> HIDE DEF n
  <2>3. p + n \in 1 .. Len(b) + 1 /\ p + n > c.pos
    BY <2>1, <2>2, <1>4
  <2>4. past \in Cursor(Len(b)) /\ past.backups = r.cur.backups /\ past.pos = p + n
    BY <2>2, <2>3 DEF Cursor
  <2> QED
    BY <2>3, <2>4, <1>1 DEF Reads, Sound, Ok
<1> QED
  BY <1>2, <1>3, <1>4 DEF str_decode, r

LEMMA SimpleDecodeReads ==
    ASSUME NEW b \in Seq(Byte), NEW c, Sound(b, c)
    PROVE  LET r == zcbor_simple_decode(b, c)
           IN  Reads(b, c, r) /\ (r.ok => r.cur.bak = c.pos)
<1> DEFINE r == value_extract(b, c, 1, FALSE)
<1>1. Reads(b, c, r) /\ (r.ok => r.cur.bak = c.pos)
  BY Extract, 1 \in Nat
<1>2. Reads(b, c, Fail(c)) /\ ~ Fail(c).ok
  BY DEF Reads, Fail
<1> HIDE DEF r
<1>3. r.ok => Reads(b, c, Fail(err_restore(r.cur)))
  BY <1>1, Restore DEF Reads, Fail
<1>4. ~ Fail(err_restore(r.cur)).ok
  BY DEF Fail
<1> QED
  BY <1>1, <1>2, <1>3, <1>4 DEF zcbor_simple_decode, r

LEMMA NilBoolReads ==
    ASSUME NEW b \in Seq(Byte), NEW c, Sound(b, c)
    PROVE  /\ Reads(b, c, zcbor_nil_expect(b, c))
           /\ Reads(b, c, zcbor_bool_decode(b, c))
<1> DEFINE r == zcbor_simple_decode(b, c)
<1>1. Reads(b, c, r) /\ (r.ok => r.cur.bak = c.pos)
  BY SimpleDecodeReads
<1> HIDE DEF r
<1>2. r.ok => Reads(b, c, Fail(err_restore(r.cur)))
  BY <1>1, Restore DEF Reads, Fail
<1> QED
  BY <1>1, <1>2 DEF zcbor_nil_expect, zcbor_bool_decode, r

LEMMA FloatReads ==
    ASSUME NEW b \in Seq(Byte), NEW c, Sound(b, c)
    PROVE  Reads(b, c, zcbor_float64_decode(b, c))
<1>1. LET r == value_extract(b, c, 8, FALSE) IN Reads(b, c, r)
  BY Extract, 8 \in Nat
<1>2. Reads(b, c, Fail(c))
  BY DEF Reads, Fail
<1> QED
  BY <1>1, <1>2 DEF zcbor_float64_decode

\* Decoders tried one after the other, each where the last one stopped.
LEMMA SimpleReads ==
    ASSUME NEW b \in Seq(Byte), NEW c, Sound(b, c)
    PROVE  Reads(b, c, Simple(b, c))
<1> DEFINE real == zcbor_float64_decode(b, c)
           bool == zcbor_bool_decode(b, real.cur)
           nil == zcbor_nil_expect(b, bool.cur)
<1>1. Reads(b, c, real)
  BY FloatReads
<1> HIDE DEF real
<1>2. Reads(b, real.cur, bool)
  BY <1>1, NilBoolReads DEF Reads
<1> HIDE DEF bool
<1>3. Reads(b, bool.cur, nil)
  BY <1>2, NilBoolReads DEF Reads
<1> HIDE DEF nil
<1>4. \A v : real.ok => Reads(b, c, Ok(real.cur, v))
  BY <1>1 DEF Reads, Ok
<1>5. \A v : ~ real.ok /\ bool.ok => Reads(b, c, Ok(bool.cur, v))
  BY <1>1, <1>2 DEF Reads, Ok
<1>6. \A v : ~ real.ok /\ ~ bool.ok /\ nil.ok => Reads(b, c, Ok(nil.cur, v))
  BY <1>1, <1>2, <1>3 DEF Reads, Ok
<1>7. ~ real.ok /\ ~ bool.ok /\ ~ nil.ok => Reads(b, c, Fail(nil.cur))
  BY <1>1, <1>2, <1>3 DEF Reads, Fail
<1> QED
  BY <1>4, <1>5, <1>6, <1>7 DEF Simple, real, bool, nil

LEMMA ScalarReads ==
    ASSUME NEW b \in Seq(Byte), NEW c, Sound(b, c)
    PROVE  Reads(b, c, Scalar(b, c))
<1>1. ASSUME NEW r, Reads(b, c, r)
      PROVE  /\ \A t : Reads(b, c, Typed(t, r))
             /\ Reads(b, c, Text(r))
  BY <1>1 DEF Reads, Typed, Text, Ok
<1>2. Reads(b, c, Fail(c))
  BY DEF Reads, Fail
<1>3. /\ Reads(b, c, Typed("uint", zcbor_uint64_decode(b, c)))
      /\ Reads(b, c, Typed("int", zcbor_int64_decode(b, c)))
      /\ Reads(b, c, Text(str_decode(b, c, BSTR)))
      /\ Reads(b, c, Text(str_decode(b, c, TSTR)))
  BY <1>1, UintReads, IntReads, StrReads
<1> QED
  BY <1>2, <1>3, SimpleReads DEF Scalar

\* Entering a container takes a backup, unless it fails; a map with too many
\* pairs fails with its backup taken.
LEMMA BackupSound ==
    ASSUME NEW b \in Seq(Byte), NEW c, Sound(b, c), NEW n \in Nat
    PROVE  LET r == zcbor_new_backup(c, n)
           IN  /\ r.ok \in BOOLEAN
               /\ r.ok => /\ Sound(b, r.cur)
                          /\ r.cur.pos = c.pos /\ r.cur.bak = c.bak /\ r.cur.count = n
                          /\ Len(r.cur.backups) = Len(c.backups) + 1
<1> DEFINE e == [bak |-> c.bak, count |-> c.count, indef |-> c.indef]
           d == [c EXCEPT !.backups = Append(@, e), !.count = n]
<1>1. c \in Cursor(Len(b)) /\ Len(c.backups) <= NumBackups
  BY DEF Sound
<1>2. CASE Len(c.backups) >= NumBackups
  BY <1>2 DEF zcbor_new_backup, Fail
<1>3. CASE ~ (Len(c.backups) >= NumBackups)
  <2>1. zcbor_new_backup(c, n) = Ok(d, <<>>)
    BY <1>3 DEF zcbor_new_backup
  <2>2. c.backups \in Seq(Saved(Len(b))) /\ e \in Saved(Len(b))
    BY <1>1 DEF Cursor, Saved
  <2> HIDE DEF e
  <2>3. /\ Append(c.backups, e) \in Seq(Saved(Len(b)))
        /\ Len(Append(c.backups, e)) = Len(c.backups) + 1
    BY <2>2
  <2>4. d \in Cursor(Len(b)) /\ d.backups = Append(c.backups, e)
        /\ d.pos = c.pos /\ d.bak = c.bak /\ d.count = n
    BY <1>1, <2>3 DEF Cursor
  <2>5. Len(c.backups) + 1 <= NumBackups
    BY <2>2, <1>3, BackupAssumption
  <2> HIDE DEF d
  <2> QED
    BY <2>1, <2>3, <2>4, <2>5 DEF Ok, Sound
<1> QED
  BY <1>2, <1>3

\* A result of entering a container.
Enters(b, c, r) ==
    /\ r.ok \in BOOLEAN
    /\ Sound(b, r.cur)
    /\ r.ok => r.cur.pos > c.pos /\ Len(r.cur.backups) = Len(c.backups) + 1
    /\ ~ r.ok => r.cur.pos = c.pos /\ Len(r.cur.backups) >= Len(c.backups)

LEMMA StartEnters ==
    ASSUME NEW b \in Seq(Byte), NEW c, Sound(b, c), NEW major
    PROVE  LET r == list_map_start_decode(b, c, major)
           IN  /\ Enters(b, c, r)
               /\ r.ok => r.cur.bak = c.pos /\ r.cur.count \in Nat
<1> DEFINE r == value_extract(b, c, 8, TRUE)
           indef == Additional(b[c.pos]) = Indefinite
           n == IF indef THEN Huge ELSE Count(r.val)
           s == zcbor_new_backup(r.cur, n)
           d == [s.cur EXCEPT !.indef = indef]
<1>1. Reads(b, c, r) /\ (r.ok => r.cur.bak = c.pos /\ r.val \in Word)
  BY Extract, 8 \in Nat
<1> HIDE DEF r
<1>0. Len(c.backups) \in Nat
  BY DEF Sound, Cursor
<1>2. Enters(b, c, Fail(c)) /\ ~ Fail(c).ok
  BY <1>0 DEF Enters, Fail
<1>3. r.ok => Enters(b, c, Fail(err_restore(r.cur))) /\ ~ Fail(err_restore(r.cur)).ok
  BY <1>0, <1>1, Restore DEF Reads, Enters, Fail
<1>4. ASSUME r.ok, s.ok, NEW v
      PROVE  LET o == Ok(d, v)
             IN  Enters(b, c, o) /\ o.cur.bak = c.pos /\ o.cur.count \in Nat
  <2>1. n \in Nat
    BY <1>4, <1>1, CountNat DEF Huge
  <2>2. indef \in BOOLEAN
    OBVIOUS
  <2> HIDE DEF n, indef
  <2>3. /\ Sound(b, s.cur) /\ s.cur.pos = r.cur.pos /\ s.cur.bak = r.cur.bak
        /\ Len(s.cur.backups) = Len(r.cur.backups) + 1 /\ s.cur.count = n
    BY <1>4, <1>1, <2>1, BackupSound DEF Reads
  <2> HIDE DEF s
  <2>4. d \in Cursor(Len(b)) /\ d.backups = s.cur.backups
        /\ d.pos = s.cur.pos /\ d.bak = s.cur.bak /\ d.count = s.cur.count
    BY <2>2, <2>3 DEF Sound, Cursor
  <2> HIDE DEF d
  <2> QED
    BY <2>1, <2>3, <2>4, <1>1, <1>4 DEF Enters, Ok, Sound, Reads
<1> HIDE DEF d, n
<1> QED
  BY <1>2, <1>3, <1>4 DEF list_map_start_decode, r, s, d, indef, n

LEMMA MapEnters ==
    ASSUME NEW b \in Seq(Byte), NEW c, Sound(b, c)
    PROVE  Enters(b, c, zcbor_map_start_decode(b, c))
<1> DEFINE r == list_map_start_decode(b, c, MAP)
           d == [r.cur EXCEPT !.count = 2 * @]
<1>1. Enters(b, c, r) /\ (r.ok => r.cur.bak = c.pos /\ r.cur.count \in Nat)
  BY StartEnters
<1> HIDE DEF r
<1>0. Len(c.backups) \in Nat
  BY DEF Sound, Cursor
<1>2. r.ok => Enters(b, c, Fail(err_restore(r.cur)))
  BY <1>0, <1>1, Restore DEF Enters, Fail
<1>4. ASSUME r.ok
      PROVE  Enters(b, c, Fail([err_restore(r.cur) EXCEPT !.count = 0]))
  <2> DEFINE f == err_restore(r.cur)
             w == [f EXCEPT !.count = 0]
  <2>1. Enters(b, c, Fail(f))
    BY <1>2, <1>4
  <2>2. Sound(b, f)
    BY <2>1 DEF Enters, Fail
  <2> HIDE DEF f
  <2>3. w \in Cursor(Len(b)) /\ w.backups = f.backups /\ w.pos = f.pos
    BY <2>2 DEF Sound, Cursor
  <2> HIDE DEF w
  <2>4. Enters(b, c, Fail(w))
    BY <2>1, <2>2, <2>3 DEF Enters, Sound, Fail
  <2> QED
    BY <2>4 DEF w, f
<1>3. ASSUME r.ok, NEW v
      PROVE  Enters(b, c, Ok(d, v))
  <2>1. 2 * r.cur.count \in Nat
    BY <1>1, <1>3
  <2>2. d \in Cursor(Len(b)) /\ d.backups = r.cur.backups /\ d.pos = r.cur.pos
    BY <2>1, <1>1 DEF Enters, Sound, Cursor
  <2> HIDE DEF d
  <2> QED
    BY <2>2, <1>1, <1>3 DEF Enters, Sound, Ok
<1> QED
  BY <1>1, <1>2, <1>3, <1>4 DEF zcbor_map_start_decode, r

LEMMA ContainerEnters ==
    ASSUME NEW b \in Seq(Byte), NEW c, Sound(b, c)
    PROVE  Enters(b, c, Container(b, c))
  BY StartEnters, MapEnters DEF Container, zcbor_list_start_decode

\* Leaving a container gives one backup back and does not move back.
LEMMA EndLeaves ==
    ASSUME NEW b \in Seq(Byte), NEW c, Sound(b, c)
    PROVE  LET r == list_map_end_decode(b, c)
           IN  /\ r.ok \in BOOLEAN
               /\ Sound(b, r.cur)
               /\ r.cur.pos >= c.pos
               /\ Len(r.cur.backups) >= Len(c.backups) - 1
<1> DEFINE r == list_map_end_decode(b, c)
           out == zcbor_process_backup(c)
           n == Len(c.backups)
           past == [out EXCEPT !.pos = @ + 1]
<1>1. c \in Cursor(Len(b)) /\ n <= NumBackups /\ n \in Nat /\ c.pos \in Nat
      /\ c.backups \in Seq(Saved(Len(b)))
  BY DEF Sound, Cursor
<1>2. CASE n = 0
  BY <1>1, <1>2 DEF list_map_end_decode, Fail
<1>3. CASE n # 0
  <2>1. c.backups[n] \in Saved(Len(b))
    BY <1>1, <1>3
  <2>2. /\ SubSeq(c.backups, 1, n - 1) \in Seq(Saved(Len(b)))
        /\ Len(SubSeq(c.backups, 1, n - 1)) = n - 1
    BY <1>1, <1>3
  <2>3. /\ out \in Cursor(Len(b)) /\ Len(out.backups) = n - 1 /\ out.pos = c.pos
    BY <1>1, <2>1, <2>2 DEF zcbor_process_backup, Cursor, Saved
  <2>4. n - 1 <= NumBackups
    BY <1>1, BackupAssumption
  <2> HIDE DEF out
  <2>5. /\ Sound(b, out)
    BY <2>3, <2>4 DEF Sound
  <2>6. ASSUME InPayload(b, out)
        PROVE  Sound(b, past) /\ past.pos = out.pos + 1 /\ past.backups = out.backups
    <3>1. out.pos + 1 \in 1 .. Len(b) + 1
      BY <2>5, <2>6 DEF InPayload, Sound, Cursor
    <3> QED
      BY <3>1, <2>5 DEF Sound, Cursor
  <2>7. \/ InPayload(b, out) /\ r = Ok(past, <<>>)
        \/ r = Fail(out)
        \/ r = Ok(out, <<>>)
    <3>1. \/ r = array_end_expect(b, out)
          \/ r = Fail(out)
          \/ r = Ok(out, <<>>)
      BY <1>3 DEF list_map_end_decode, out
    <3> QED
      BY <3>1 DEF array_end_expect
  <2> HIDE DEF past, r
  <2>8. /\ r.ok \in BOOLEAN
        /\ r.cur = out \/ (r.cur = past /\ InPayload(b, out))
    <3>1. CASE InPayload(b, out) /\ r = Ok(past, <<>>)
      BY <3>1 DEF Ok
    <3>2. CASE r = Fail(out)
      BY <3>2 DEF Fail
    <3>3. CASE r = Ok(out, <<>>)
      BY <3>3 DEF Ok
    <3> QED
      BY <2>7, <3>1, <3>2, <3>3
  <2>9. Sound(b, r.cur) /\ (r.cur.pos = c.pos \/ r.cur.pos = c.pos + 1)
        /\ Len(r.cur.backups) = n - 1
    BY <2>3, <2>5, <2>6, <2>8
  <2>10. r.cur.pos >= c.pos /\ Len(r.cur.backups) >= n - 1
    BY <2>9, <1>1
  <2> QED
    BY <2>8, <2>9, <2>10 DEF r
<1> QED
  BY <1>2, <1>3

-----------------------------------------------------------------------------
(***************************************************************************)
(* Keys.  Neither reader of an instance identifier moves back, and one     *)
(* that gives a key has moved on.                                          *)
(***************************************************************************)
LEMMA ChainAdvances ==
    ASSUME NEW b \in Seq(Byte), NEW c, Sound(b, c)
    PROVE  LET open == zcbor_list_start_decode(b, c)
               sid == zcbor_uint64_decode(b, open.cur)
               str == str_decode(b, sid.cur, TSTR)
               end == list_map_end_decode(b, str.cur)
               after == list_map_end_decode(b, sid.cur)
           IN  /\ Advances(b, c, open)
               /\ Advances(b, c, sid) /\ Advances(b, c, str)
               /\ open.ok => Advances(b, c, end)
               /\ Sound(b, after.cur) /\ after.cur.pos >= c.pos
               /\ Sound(b, end.cur) /\ end.cur.pos >= c.pos
<1> DEFINE open == zcbor_list_start_decode(b, c)
           sid == zcbor_uint64_decode(b, open.cur)
           str == str_decode(b, sid.cur, TSTR)
           end == list_map_end_decode(b, str.cur)
           after == list_map_end_decode(b, sid.cur)
<1>0. \A d : Sound(b, d) => d.pos \in Nat
  BY DEF Sound, Cursor
<1>1. Enters(b, c, open)
  BY StartEnters DEF zcbor_list_start_decode
<1> HIDE DEF open
<1>2. Reads(b, open.cur, sid)
  BY <1>1, UintReads DEF Enters
<1> HIDE DEF sid
<1>3. Reads(b, sid.cur, str)
  BY <1>2, StrReads DEF Reads
<1> HIDE DEF str
<1>4. end.ok \in BOOLEAN /\ Sound(b, end.cur) /\ end.cur.pos >= str.cur.pos
  BY <1>3, EndLeaves DEF Reads
<1>5. Sound(b, after.cur) /\ after.cur.pos >= sid.cur.pos
  BY <1>2, EndLeaves DEF Reads
<1> HIDE DEF end, after
<1>6. /\ open.cur.pos \in Nat /\ sid.cur.pos \in Nat /\ str.cur.pos \in Nat
      /\ end.cur.pos \in Nat /\ after.cur.pos \in Nat /\ c.pos \in Nat
  BY <1>0, <1>1, <1>2, <1>3, <1>4, <1>5 DEF Enters, Reads
<1>7. /\ open.cur.pos >= c.pos /\ (open.ok => open.cur.pos > c.pos)
      /\ sid.cur.pos >= open.cur.pos /\ (sid.ok => sid.cur.pos > open.cur.pos)
      /\ str.cur.pos >= sid.cur.pos /\ (str.ok => str.cur.pos > sid.cur.pos)
  BY <1>1, <1>2, <1>3, <1>6 DEF Enters, Reads
<1>8. /\ Advances(b, c, open) /\ Advances(b, c, sid) /\ Advances(b, c, str)
      /\ open.ok => Advances(b, c, end)
  BY <1>1, <1>2, <1>3, <1>4, <1>6, <1>7 DEF Enters, Reads, Advances
<1>9. after.cur.pos >= c.pos /\ end.cur.pos >= c.pos
  BY <1>4, <1>5, <1>6, <1>7
<1> QED
  BY <1>4, <1>5, <1>8, <1>9 DEF open, sid, str, end, after

LEMMA InstanceAdvances ==
    ASSUME NEW b \in Seq(Byte), NEW c, Sound(b, c), NEW beyond
    PROVE  /\ Advances(b, c, PostInstance(b, c))
           /\ Advances(b, c, PatchInstance(b, c, beyond))
<1> DEFINE open == zcbor_list_start_decode(b, c)
           sid == zcbor_uint64_decode(b, open.cur)
           str == str_decode(b, sid.cur, TSTR)
           end == list_map_end_decode(b, str.cur)
           after == list_map_end_decode(b, sid.cur)
<1>1. /\ Advances(b, c, open) /\ Advances(b, c, sid) /\ Advances(b, c, str)
      /\ open.ok => Advances(b, c, end)
      /\ Sound(b, after.cur) /\ after.cur.pos >= c.pos
      /\ Sound(b, end.cur) /\ end.cur.pos >= c.pos
  BY ChainAdvances
<1> HIDE DEF open, sid, str, end, after
<1>2. \A v : open.ok /\ end.ok => Advances(b, c, Ok(end.cur, v))
  BY <1>1 DEF Advances, Ok
<1>3. Advances(b, c, Fail(after.cur)) /\ Advances(b, c, Fail(end.cur))
  BY <1>1 DEF Advances, Fail
<1>4. Advances(b, c, PostInstance(b, c))
  BY <1>1, <1>2 DEF PostInstance, open, sid, str, end, after
<1>5. Advances(b, c, PatchInstance(b, c, beyond))
  BY <1>1, <1>2, <1>3 DEF PatchInstance, open, sid, str, end, after
<1> QED
  BY <1>4, <1>5

LEMMA KeyAdvances ==
    ASSUME NEW b \in Seq(Byte), NEW c, Sound(b, c), NEW beyond
    PROVE  /\ Advances(b, c, KeyDecoded(b, c, beyond, PostInstance(b, c)))
           /\ Advances(b, c, KeyDecoded(b, c, beyond, PatchInstance(b, c, beyond)))
<1> DEFINE k == zcbor_uint64_decode(b, c)
           sid == IF k.ok THEN Ok(k.cur, Sid(k.val)) ELSE k
<1>0. c.pos \in Nat
  BY DEF Sound, Cursor
<1>1. Reads(b, c, k)
  BY UintReads
<1> HIDE DEF k
<1>2. Advances(b, c, sid)
  <2>1. k.cur.pos \in Nat
    BY <1>1 DEF Reads, Sound, Cursor
  <2>2. Advances(b, c, k)
    BY <2>1, <1>0, <1>1 DEF Reads, Advances
  <2>3. k.ok => Advances(b, c, Ok(k.cur, Sid(k.val)))
    BY <2>2 DEF Advances, Ok
  <2> QED
    BY <2>2, <2>3
<1> HIDE DEF sid
<1>3. Advances(b, c, Fail(c))
  BY <1>0 DEF Advances, Fail
<1>4. Advances(b, c, KeyDecoded(b, c, beyond, PostInstance(b, c)))
  BY <1>2, <1>3, InstanceAdvances DEF KeyDecoded, sid, k
<1>5. Advances(b, c, KeyDecoded(b, c, beyond, PatchInstance(b, c, beyond)))
  BY <1>2, <1>3, InstanceAdvances DEF KeyDecoded, sid, k
<1> QED
  BY <1>4, <1>5

-----------------------------------------------------------------------------
(***************************************************************************)
(* The inductive invariant.  CursorInside alone is not inductive: leaving  *)
(* a container brings back a saved cursor, which has to have been inside   *)
(* the payload too, and the caller reads on only when no container of the  *)
(* decoder is open.                                                        *)
(***************************************************************************)
Inv ==
    /\ bytes \in Seq(Byte)
    /\ Sound(bytes, cur)
    /\ ptr \in 1 .. Len(bytes) + 1 /\ ptr <= cur.pos
    /\ \E S : stack \in Seq(S)
    /\ Depth <= Len(cur.backups)
    /\ pc \in {"done", "loop", "value"}
    /\ pc = "loop" => Depth > 0
    /\ pc = "done" => Depth = 0
    /\ step \in {"map", "key", "value", "close", "end"}
    /\ pc # "done" => step = "value"

LEMMA InvInit == Init => Inv
<1> SUFFICES ASSUME Init PROVE Inv
  OBVIOUS
<1>1. bytes \in Seq(Byte) /\ bytes # <<>>
  BY InputAssumption DEF Init
<1>2. Len(bytes) \in Nat
  BY <1>1
<1>3. cur = [pos |-> 1, bak |-> 1, count |-> 1, indef |-> FALSE, backups |-> <<>>]
  BY DEF Init, zcbor_new_decode_state
<1>4. cur \in Cursor(Len(bytes)) /\ Len(cur.backups) = 0 /\ cur.pos = 1
  BY <1>2, <1>3 DEF Cursor, Saved
<1>5. stack \in Seq({}) /\ Depth = 0
  BY DEF Init, Depth
<1>6. Sound(bytes, cur)
  BY <1>4, BackupAssumption DEF Sound
<1> QED
  BY <1>1, <1>2, <1>4, <1>5, <1>6 DEF Init, Inv

LEMMA InvInside == Inv => CursorInside
<1> SUFFICES ASSUME Inv PROVE CursorInside
  OBVIOUS
<1>1. Sound(bytes, cur) /\ ptr \in 1 .. Len(bytes) + 1 /\ Depth <= Len(cur.backups)
      /\ (pc = "loop" => Depth > 0)
  BY DEF Inv
<1> QED
  BY <1>1 DEF CursorInside, CursorOk, Sound, Cursor

LEMMA Arithmetic ==
    ASSUME NEW n \in Int, NEW p \in Int, NEW q \in Int, NEW d \in Int, NEW e \in Int,
           NEW t \in Int, NEW u \in Int, NEW k \in Int, NEW l \in Int,
           8 * (p - q) + 2 * (e - d) + (u - t) + (l - k) < 0
    PROVE  8 * (n + 1 - q) + 2 * e + u + l < 8 * (n + 1 - p) + 2 * d + t + k
  OBVIOUS

\* What is left to do shrinks when the bytes or the turns do.
LEMMA LeftShrinks ==
    ASSUME Inv, Inv', bytes' = bytes,
           8 * (Position - Position') + 2 * (Depth' - Depth)
             + (Turn' - Turn) + (StepsLeft' - StepsLeft) < 0
    PROVE  Left' < Left
<1>1. /\ Position \in Int /\ Depth \in Int /\ Len(bytes) \in Int
      /\ Position' \in Int /\ Depth' \in Int
  BY DEF Inv, Sound, Cursor, Position, Depth
<1>2. Turn \in Int /\ StepsLeft \in Int /\ Turn' \in Int /\ StepsLeft' \in Int
  BY DEF Turn, StepsLeft
<1>3. /\ Left = 8 * (Len(bytes) + 1 - Position) + 2 * Depth + Turn + StepsLeft
      /\ Left' = 8 * (Len(bytes) + 1 - Position') + 2 * Depth' + Turn' + StepsLeft'
  BY DEF Left
<1>4. 8 * (Len(bytes) + 1 - Position') + 2 * Depth' + Turn' + StepsLeft'
        < 8 * (Len(bytes) + 1 - Position) + 2 * Depth + Turn + StepsLeft
  BY <1>1, <1>2, Arithmetic
<1> QED
  BY <1>3, <1>4

\* cborToCoreconfValue returns to the loop around it, or to the caller.
LEMMA Returns ==
    ASSUME NEW c, NEW x, NEW S, NEW s \in Seq(S), Return(c, x, s)
    PROVE  /\ cur' = c
           /\ \E T : stack' \in Seq(T)
           /\ Depth' = Len(s)
           /\ \/ pc' = "done" /\ Len(s) = 0
              \/ pc' = "loop" /\ Len(s) > 0
<1>1. CASE s = <<>>
  <2>1. cur' = c /\ pc' = "done" /\ stack' = <<>>
    BY <1>1 DEF Return
  <2>2. stack' \in Seq({}) /\ Len(stack') = 0
    BY <2>1
  <2> QED
    BY <2>1, <2>2, <1>1 DEF Depth
<1>2. CASE s # <<>>
  <2> DEFINE y == Stored(s[Len(s)], x)
  <2>1. cur' = c /\ pc' = "loop" /\ stack' = [s EXCEPT ![Len(s)] = y]
    BY <1>2 DEF Return
  <2>2. Len(s) \in Nat /\ Len(s) > 0
    BY <1>2
  <2> HIDE DEF y
  <2>3. stack' \in Seq(S \cup {y}) /\ Len(stack') = Len(s)
    BY <2>1, <2>2
  <2> QED
    BY <2>1, <2>2, <2>3 DEF Depth
<1> QED
  BY <1>1, <1>2

LEMMA SoundPos ==
    ASSUME NEW b \in Seq(Byte), NEW c, Sound(b, c)
    PROVE  /\ c.pos \in Nat /\ c.pos \in 1 .. Len(b) + 1
           /\ Len(c.backups) \in Nat /\ Len(b) \in Nat
  BY DEF Sound, Cursor

LEMMA InvFacts ==
    ASSUME Inv
    PROVE  /\ bytes \in Seq(Byte) /\ Sound(bytes, cur)
           /\ cur.pos \in Nat /\ ptr \in Nat /\ ptr <= cur.pos
           /\ Depth \in Nat /\ Len(stack) = Depth /\ Depth <= Len(cur.backups)
           /\ Len(cur.backups) \in Nat
<1>1. bytes \in Seq(Byte) /\ Sound(bytes, cur) /\ ptr \in 1 .. Len(bytes) + 1
      /\ ptr <= cur.pos /\ Depth <= Len(cur.backups) /\ \E S : stack \in Seq(S)
  BY DEF Inv
<1>2. Len(stack) \in Nat
  BY <1>1
<1> QED
  BY <1>1, <1>2, SoundPos DEF Depth

\* A step of the decoder that returns.
LEMMA ReturnStep ==
    ASSUME Inv, pc # "done", UNCHANGED <<bytes, callerVars>>,
           NEW c, NEW x, NEW S, NEW s \in Seq(S), Return(c, x, s),
           Sound(bytes, c), c.pos >= cur.pos, Len(s) <= Len(c.backups),
           8 * (cur.pos - c.pos) + 2 * (Len(s) - Depth) + 1 - Turn < 0
               \/ (Len(s) = 0 /\ c.pos = cur.pos /\ Depth = 0 /\ Turn > 0)
    PROVE  Inv' /\ Left' < Left
<1>1. /\ cur' = c
      /\ \E T : stack' \in Seq(T)
      /\ Depth' = Len(s)
      /\ \/ pc' = "done" /\ Len(s) = 0
         \/ pc' = "loop" /\ Len(s) > 0
  BY Returns
<1>2. /\ bytes' = bytes /\ ptr' = ptr /\ step' = step /\ step = "value"
  BY DEF Inv, callerVars
<1>3. /\ cur.pos \in Nat /\ c.pos \in Nat /\ ptr \in Nat /\ ptr <= cur.pos
      /\ Depth \in Nat /\ Len(s) \in Nat
  BY InvFacts, SoundPos
<1>4. Inv'
  <2>1. ptr <= c.pos
    BY <1>3
  <2>2. bytes' \in Seq(Byte) /\ Sound(bytes', cur') /\ ptr' \in 1 .. Len(bytes') + 1
    BY <1>1, <1>2 DEF Inv
  <2> QED
    BY <1>1, <1>2, <1>3, <2>1, <2>2 DEF Inv
<1>5. Position = cur.pos /\ Position' = c.pos /\ StepsLeft' = StepsLeft /\ StepsLeft \in Nat
  BY <1>1, <1>2 DEF Position, StepsLeft
<1>6. /\ Turn \in Int /\ Turn' \in {0, 1}
      /\ Len(s) = 0 => Turn' = 0
  BY <1>1, <1>3 DEF Turn
<1>7. 8 * (Position - Position') + 2 * (Depth' - Depth)
        + (Turn' - Turn) + (StepsLeft' - StepsLeft) < 0
  <2> DEFINE u == Turn'
  <2>1. 8 * (cur.pos - c.pos) + 2 * (Len(s) - Depth) + (u - Turn) + 0 < 0
    <3> HIDE DEF u
    <3>1. u \in {0, 1} /\ (Len(s) = 0 => u = 0)
      BY <1>6 DEF u
    <3> QED
      BY <1>3, <1>6, <3>1
  <2>2. StepsLeft' - StepsLeft = 0
    BY <1>5
  <2> QED
    BY <2>1, <2>2, <1>1, <1>5
<1> QED
  BY <1>2, <1>4, <1>7, LeftShrinks

LEMMA ReadNothingStep ==
    ASSUME Inv, ReadNothing, UNCHANGED <<bytes, callerVars>>
    PROVE  Inv' /\ (Stalled \/ Left' < Left)
<1>1. PICK S : stack \in Seq(S)
  BY DEF Inv
<1>2. /\ pc = "value" /\ Return(cur, NoValue, stack) /\ Sound(bytes, cur)
      /\ cur.pos \in Nat /\ Depth \in Nat /\ Len(stack) = Depth /\ Depth <= Len(cur.backups)
  BY DEF ReadNothing, Inv, Sound, Cursor, Depth
<1>3. CASE Depth > 0 /\ Top.t = "array"
  <2>1. Stalled
    BY <1>2, <1>3 DEF Stalled, ReadNothing
  <2>2. Inv'
    <3>1. /\ cur' = cur /\ (\E T : stack' \in Seq(T)) /\ Depth' = Depth
          /\ \/ pc' = "done" /\ Depth = 0
             \/ pc' = "loop" /\ Depth > 0
      BY <1>1, <1>2, Returns
    <3> QED
      BY <3>1, <1>2 DEF Inv, callerVars
  <2> QED
    BY <2>1, <2>2
<1>4. CASE ~ (Depth > 0 /\ Top.t = "array")
  <2>1. Turn = 2
    BY <1>2, <1>4 DEF Turn
  <2>2. 8 * (cur.pos - cur.pos) + 2 * (Len(stack) - Depth) + 1 - Turn < 0
    BY <2>1, <1>2
  <2>3. cur.pos >= cur.pos /\ Len(stack) <= Len(cur.backups) /\ pc # "done"
    BY <1>2
  <2> QED
    BY <1>1, <1>2, <2>2, <2>3, ReturnStep
<1> QED
  BY <1>3, <1>4

LEMMA ReadScalarStep ==
    ASSUME Inv, ReadScalar, UNCHANGED <<bytes, callerVars>>
    PROVE  Inv' /\ (Stalled \/ Left' < Left)
<1> DEFINE r == Scalar(bytes, cur)
           x == IF r.ok THEN r.val ELSE NoValue
<1>1. PICK S : stack \in Seq(S)
  BY DEF Inv
<1>2. /\ pc = "value" /\ Return(r.cur, x, stack) /\ InPayload(bytes, cur)
      /\ Major(bytes[cur.pos]) \notin {LIST, MAP}
  BY DEF ReadScalar, CanRead
<1>3. /\ Sound(bytes, cur) /\ bytes \in Seq(Byte)
      /\ cur.pos \in Nat /\ Depth \in Nat /\ Len(stack) = Depth /\ Depth <= Len(cur.backups)
  BY DEF Inv, Sound, Cursor, Depth
<1>4. Reads(bytes, cur, r)
  BY <1>3, ScalarReads
<1>5. ~ r.ok /\ Depth > 0 /\ Top.t = "array" => Stalled
  BY <1>2 DEF Stalled
<1> HIDE DEF r, x
<1>6. /\ Sound(bytes, r.cur) /\ r.cur.pos \in Nat /\ r.cur.pos >= cur.pos
      /\ Len(stack) <= Len(r.cur.backups) /\ pc # "done"
  <2>1. Sound(bytes, r.cur) /\ r.cur.pos \in Nat
    BY <1>4 DEF Reads, Sound, Cursor
  <2> QED
    BY <2>1, <1>2, <1>3, <1>4 DEF Reads
<1>7. Inv'
  <2>1. /\ cur' = r.cur /\ (\E T : stack' \in Seq(T)) /\ Depth' = Depth
        /\ \/ pc' = "done" /\ Depth = 0
           \/ pc' = "loop" /\ Depth > 0
    BY <1>1, <1>2, <1>3, Returns
  <2>2. ptr \in Nat /\ ptr <= r.cur.pos
    BY <1>3, <1>6 DEF Inv
  <2> QED
    BY <2>1, <2>2, <1>2, <1>3, <1>6 DEF Inv, callerVars
<1>8. ASSUME ~ Stalled
      PROVE  Left' < Left
  <2>1. r.ok \in BOOLEAN /\ (r.ok => r.cur.pos > cur.pos) /\ (~ r.ok => r.cur.pos = cur.pos)
    BY <1>4 DEF Reads
  <2>2. Turn \in {0, 2} /\ (~ r.ok => Turn = 2)
    BY <1>2, <1>5, <1>8 DEF Turn
  <2>3. 8 * (cur.pos - r.cur.pos) + 2 * (Len(stack) - Depth) + 1 - Turn < 0
    <3>1. CASE r.ok
      BY <3>1, <2>1, <2>2, <1>3, <1>6
    <3>2. CASE ~ r.ok
      BY <3>2, <2>1, <2>2, <1>3, <1>6
    <3> QED
      BY <2>1, <3>1, <3>2
  <2> QED
    BY <2>3, <1>1, <1>2, <1>6, ReturnStep
<1> QED
  BY <1>7, <1>8

LEMMA ReadContainerStep ==
    ASSUME Inv, ReadContainer, UNCHANGED <<bytes, callerVars>>
    PROVE  Inv' /\ (Stalled \/ Left' < Left)
<1> DEFINE r == Container(bytes, cur)
           f == Frame(Kind(bytes[cur.pos]))
<1>1. PICK S : stack \in Seq(S)
  BY DEF Inv
<1>2. /\ pc = "value" /\ InPayload(bytes, cur)
      /\ Major(bytes[cur.pos]) \in {LIST, MAP}
      /\ r.ok => cur' = r.cur /\ stack' = Append(stack, f) /\ pc' = "loop"
      /\ ~ r.ok => Return(r.cur, Contents(f), stack)
  BY DEF ReadContainer, CanRead
<1>3. /\ Sound(bytes, cur) /\ bytes \in Seq(Byte)
      /\ cur.pos \in Nat /\ ptr \in Nat /\ ptr <= cur.pos
      /\ Depth \in Nat /\ Len(stack) = Depth /\ Depth <= Len(cur.backups)
      /\ Len(cur.backups) \in Nat
  BY InvFacts
<1>4. Enters(bytes, cur, r)
  BY <1>3, ContainerEnters
<1>5. ~ r.ok /\ Depth > 0 /\ Top.t = "array" => Stalled
  BY <1>2 DEF Stalled
<1>6. step = "value" /\ step' = "value" /\ bytes' = bytes /\ ptr' = ptr
  BY <1>2 DEF Inv, callerVars
<1> HIDE DEF r, f
<1>7. Sound(bytes, r.cur) /\ r.cur.pos \in Nat /\ Len(r.cur.backups) \in Nat
  BY <1>3, <1>4, SoundPos DEF Enters
<1>8. CASE r.ok
  <2>1. r.cur.pos > cur.pos /\ Len(r.cur.backups) = Len(cur.backups) + 1
    BY <1>4, <1>8 DEF Enters
  <2>2. stack' \in Seq(S \cup {f}) /\ Len(stack') = Len(stack) + 1
    BY <1>1, <1>2, <1>8
  <2>3. Depth' = Depth + 1 /\ Depth' > 0 /\ Depth' <= Len(r.cur.backups)
    BY <2>1, <2>2, <1>3 DEF Depth
  <2>4. ptr <= r.cur.pos
    BY <2>1, <1>3, <1>7
  <2>5. Inv'
    BY <2>2, <2>3, <2>4, <1>2, <1>3, <1>6, <1>7, <1>8 DEF Inv
  <2>6. /\ Position = cur.pos /\ Position' = r.cur.pos
        /\ StepsLeft = 4 /\ StepsLeft' = 4 /\ Turn' = 1 /\ Turn \in {0, 2}
    BY <1>2, <1>6, <1>8 DEF Position, StepsLeft, Turn
  <2>7. Depth' - Depth = 1 /\ StepsLeft' - StepsLeft = 0 /\ Turn' - Turn <= 1
    BY <2>3, <2>6, <1>3
  <2>8. 8 * (Position - Position') + 2 * (Depth' - Depth)
          + (Turn' - Turn) + (StepsLeft' - StepsLeft) < 0
    <3> DEFINE p == Position'
               d == Depth' - Depth
               t == Turn' - Turn
               l == StepsLeft' - StepsLeft
    <3>1. p \in Nat /\ p > cur.pos /\ d = 1 /\ t \in Int /\ t <= 1 /\ l = 0
      BY <2>1, <2>6, <2>7, <1>7
    <3> HIDE DEF p, d, t, l
    <3>2. 8 * (cur.pos - p) + 2 * d + t + l < 0
      BY <3>1, <1>3
    <3> QED
      BY <3>2, <2>6 DEF p, d, t, l
  <2> QED
    BY <2>5, <2>8, <1>6, LeftShrinks
<1>9. CASE ~ r.ok
  <2>1. r.cur.pos = cur.pos /\ Len(r.cur.backups) >= Len(cur.backups)
    BY <1>4, <1>9 DEF Enters
  <2>2. r.cur.pos >= cur.pos /\ Len(stack) <= Len(r.cur.backups) /\ pc # "done"
    BY <2>1, <1>2, <1>3, <1>7
  <2>3. Inv'
    <3>1. /\ cur' = r.cur /\ (\E T : stack' \in Seq(T)) /\ Depth' = Depth
          /\ \/ pc' = "done" /\ Depth = 0
             \/ pc' = "loop" /\ Depth > 0
      BY <1>1, <1>2, <1>3, <1>9, Returns
    <3> QED
      BY <3>1, <2>1, <2>2, <1>2, <1>3, <1>6, <1>7 DEF Inv
  <2>4. ASSUME ~ Stalled
        PROVE  Left' < Left
    <3>1. Turn = 2
      BY <1>2, <1>5, <1>9, <2>4 DEF Turn
    <3>2. 8 * (cur.pos - r.cur.pos) + 2 * (Len(stack) - Depth) + 1 - Turn < 0
      BY <3>1, <2>1, <1>3
    <3> QED
      BY <3>2, <2>2, <1>1, <1>2, <1>7, <1>9, ReturnStep
  <2> QED
    BY <2>3, <2>4
<1> QED
  BY <1>8, <1>9, <1>4 DEF Enters

\* Leaving a container, whether at its end or early.
LEMMA LeaveStep ==
    ASSUME Inv, pc = "loop", UNCHANGED <<bytes, callerVars>>, NEW c, Leave(c),
           Sound(bytes, c), c.pos >= cur.pos, Len(c.backups) >= Len(cur.backups) - 1
    PROVE  Inv' /\ Left' < Left
<1> DEFINE s == SubSeq(stack, 1, Depth - 1)
<1>1. PICK S : stack \in Seq(S)
  BY DEF Inv
<1>2. /\ bytes \in Seq(Byte) /\ cur.pos \in Nat /\ Depth \in Nat /\ Len(stack) = Depth
      /\ Depth <= Len(cur.backups) /\ Len(cur.backups) \in Nat
      /\ c.pos \in Nat /\ Len(c.backups) \in Nat
  BY InvFacts, SoundPos
<1>3. Depth > 0
  BY DEF Inv
<1>4. s \in Seq(S) /\ Len(s) = Depth - 1
  BY <1>1, <1>2, <1>3
<1>5. Return(c, Contents(Top), s)
  BY DEF Leave
<1> HIDE DEF s
<1>6. Turn = 1
  BY DEF Turn
<1>7. 8 * (cur.pos - c.pos) + 2 * (Len(s) - Depth) + 1 - Turn < 0
  BY <1>2, <1>3, <1>4, <1>6
<1>8. Len(s) <= Len(c.backups)
  BY <1>2, <1>3, <1>4
<1> QED
  BY <1>4, <1>5, <1>7, <1>8, ReturnStep

LEMMA EndContainerStep ==
    ASSUME Inv, EndContainer, UNCHANGED <<bytes, callerVars>>
    PROVE  Inv' /\ Left' < Left
<1>1. bytes \in Seq(Byte) /\ Sound(bytes, cur)
  BY InvFacts
<1> DEFINE c == list_map_end_decode(bytes, cur).cur
<1>2. Sound(bytes, c) /\ c.pos >= cur.pos /\ Len(c.backups) >= Len(cur.backups) - 1
  BY <1>1, EndLeaves
<1>3. pc = "loop" /\ Leave(c)
  BY DEF EndContainer
<1> HIDE DEF c
<1> QED
  BY <1>2, <1>3, LeaveStep

LEMMA NextElementStep ==
    ASSUME Inv, NextElement, UNCHANGED <<bytes, callerVars>>
    PROVE  Inv' /\ Left' < Left
<1>1. /\ pc = "loop" /\ pc' = "value" /\ cur' = cur /\ stack' = stack /\ Top.t = "array"
      /\ bytes' = bytes /\ ptr' = ptr /\ step' = step /\ step = "value" /\ Depth > 0
  BY DEF Inv, NextElement, Looping, callerVars
<1>2. Inv'
  BY <1>1 DEF Inv, Depth
<1>3. /\ Position' = Position /\ Depth' = Depth /\ StepsLeft' = StepsLeft
      /\ Turn = 1 /\ Turn' = 0 /\ StepsLeft = 4
  BY <1>1 DEF Position, Depth, StepsLeft, Turn, Top
<1>4. Position \in Nat /\ Depth \in Nat
  BY <1>1, InvFacts DEF Position
<1>5. 8 * (Position - Position') + 2 * (Depth' - Depth)
        + (Turn' - Turn) + (StepsLeft' - StepsLeft) < 0
  BY <1>3, <1>4
<1> QED
  BY <1>1, <1>2, <1>5, LeftShrinks

LEMMA NextEntryStep ==
    ASSUME Inv, NextEntry, UNCHANGED <<bytes, callerVars>>
    PROVE  Inv' /\ Left' < Left
<1> DEFINE k == zcbor_uint64_decode(bytes, cur)
<1>1. PICK S : stack \in Seq(S)
  BY DEF Inv
<1>2. /\ Sound(bytes, cur) /\ bytes \in Seq(Byte)
      /\ cur.pos \in Nat /\ ptr \in Nat /\ ptr <= cur.pos
      /\ Depth \in Nat /\ Len(stack) = Depth /\ Depth <= Len(cur.backups)
      /\ Len(cur.backups) \in Nat
  BY InvFacts
<1>3. Reads(bytes, cur, k)
  BY <1>2, UintReads
<1>4. /\ pc = "loop" /\ Top.t = "map"
      /\ \/ Leave(cur)
         \/ ~ k.ok /\ Leave(k.cur)
         \/ /\ k.ok /\ pc' = "value" /\ cur' = k.cur
            /\ stack' = [stack EXCEPT ![Depth].key = k.val]
  BY DEF NextEntry, Looping
<1> HIDE DEF k
<1>5. /\ Sound(bytes, k.cur) /\ k.cur.pos \in Nat /\ k.cur.backups = cur.backups
      /\ k.cur.pos >= cur.pos /\ (k.ok => k.cur.pos > cur.pos)
  <2>1. Sound(bytes, k.cur) /\ k.cur.pos \in Nat
    BY <1>2, <1>3, SoundPos DEF Reads
  <2> QED
    BY <2>1, <1>2, <1>3 DEF Reads
<1>6. CASE Leave(cur)
  <2>1. cur.pos >= cur.pos /\ Len(cur.backups) >= Len(cur.backups) - 1
    BY <1>2
  <2> QED
    BY <2>1, <1>2, <1>4, <1>6, LeaveStep
<1>7. CASE ~ k.ok /\ Leave(k.cur)
  <2>1. k.cur.pos >= cur.pos /\ Len(k.cur.backups) >= Len(cur.backups) - 1
    BY <1>2, <1>3, <1>5, <1>7 DEF Reads
  <2> QED
    BY <2>1, <1>4, <1>5, <1>7, LeaveStep
<1>8. CASE /\ k.ok /\ pc' = "value" /\ cur' = k.cur
           /\ stack' = [stack EXCEPT ![Depth].key = k.val]
  <2>1. /\ bytes' = bytes /\ ptr' = ptr /\ step' = step /\ step = "value" /\ Depth > 0
    BY <1>4 DEF Inv, callerVars
  <2>2. k.cur.pos > cur.pos
    BY <1>3, <1>8 DEF Reads
  <2> DEFINE y == [stack[Depth] EXCEPT !.key = k.val]
  <2>3. stack' = [stack EXCEPT ![Depth] = y]
    BY <1>8
  <2> HIDE DEF y
  <2>4. stack' \in Seq(S \cup {y}) /\ Len(stack') = Len(stack)
    BY <2>1, <2>3, <1>1, <1>2
  <2>5. Depth' = Depth
    BY <2>4 DEF Depth
  <2>6. ptr <= k.cur.pos
    BY <2>2, <1>2, <1>5
  <2>7. Inv'
    BY <2>1, <2>4, <2>5, <2>6, <1>2, <1>5, <1>8 DEF Inv
  <2>8. /\ Position = cur.pos /\ Position' = k.cur.pos /\ Turn = 1 /\ Turn' \in {0, 2}
        /\ StepsLeft = 4 /\ StepsLeft' = 4
    BY <2>1, <1>4, <1>8 DEF Position, Turn, StepsLeft
  <2>9. 8 * (Position - Position') + 2 * (Depth' - Depth)
          + (Turn' - Turn) + (StepsLeft' - StepsLeft) < 0
    BY <2>2, <2>5, <2>8, <1>2, <1>5
  <2> QED
    BY <2>1, <2>7, <2>9, LeftShrinks
<1> QED
  BY <1>4, <1>6, <1>7, <1>8

-----------------------------------------------------------------------------
(***************************************************************************)
(* The callers.  They run while no container of the decoder is open, so a  *)
(* step of theirs has to leave a cursor that is sound and not behind ptr.  *)
(***************************************************************************)
LEMMA CallerMoves ==
    ASSUME Inv, pc = "done", UNCHANGED <<bytes, stack>>,
           \/ pc' = "done"
           \/ pc' = "value" /\ step' = "value",
           step' \in {"map", "key", "value", "close", "end"},
           Sound(bytes, cur'), ptr' \in 1 .. Len(bytes) + 1, ptr' <= cur'.pos,
           8 * (Position - Position') + (IF pc' = "done" THEN 0 ELSE 2)
             + (StepsLeft' - StepsLeft) < 0
    PROVE  Inv' /\ Left' < Left
<1>1. Depth' = Depth /\ Depth = 0
  BY DEF Depth, Inv
<1>2. Inv'
  <2>1. 0 <= Len(cur'.backups)
    BY InvFacts, SoundPos
  <2> QED
    BY <1>1, <2>1 DEF Inv
<1>3. Turn = 0 /\ Turn' = IF pc' = "done" THEN 0 ELSE 2
  BY <1>1 DEF Turn, Depth
<1>4. StepsLeft \in Int /\ StepsLeft' \in Int
  BY DEF StepsLeft
<1>5. Position \in Int /\ Position' \in Int
  BY <1>2, InvFacts DEF Position, Inv, Sound, Cursor
<1>6. 8 * (Position - Position') + 2 * (Depth' - Depth)
        + (Turn' - Turn) + (StepsLeft' - StepsLeft) < 0
  <2> DEFINE t == Turn'
             l == StepsLeft' - StepsLeft
             q == Position - Position'
  <2>0. t \in Int /\ l \in Int /\ q \in Int
    BY <1>3, <1>4, <1>5
  <2>1. t \in Int /\ l \in Int /\ q \in Int /\ 8 * q + t + l < 0
    <3>1. t = IF pc' = "done" THEN 0 ELSE 2
      BY <1>3
    <3>2. 8 * q + (IF pc' = "done" THEN 0 ELSE 2) + l < 0
      OBVIOUS
    <3> HIDE DEF t, l, q
    <3> QED
      BY <3>1, <3>2, <2>0
  <2> HIDE DEF t, l, q
  <2>2. 8 * q + 2 * (0 - 0) + (t - 0) + l < 0
    BY <2>1
  <2> QED
    BY <2>2, <1>1, <1>3 DEF t, l, q
<1> QED
  BY <1>2, <1>6, LeftShrinks

LEMMA FinishStep ==
    ASSUME Inv, pc = "done", step # "end", UNCHANGED <<bytes, stack>>, NEW ok, Finish(ok)
    PROVE  Inv' /\ Left' < Left
<1>1. step' = "end" /\ cur' = cur /\ ptr' = ptr /\ pc' = "done"
  BY DEF Finish
<1>2. ptr \in Nat /\ cur.pos \in Nat /\ ptr <= cur.pos /\ Sound(bytes, cur)
      /\ ptr \in 1 .. Len(bytes) + 1 /\ step \in {"map", "key", "value", "close", "end"}
  BY InvFacts DEF Inv
<1>3. Position' = cur.pos /\ StepsLeft' = 0 /\ Position \in {ptr, cur.pos}
      /\ StepsLeft \in 1 .. 4
  BY <1>1, <1>2 DEF Position, StepsLeft
<1>4. 8 * (Position - Position') + 0 + (StepsLeft' - StepsLeft) < 0
  BY <1>2, <1>3
<1> QED
  BY <1>1, <1>2, <1>4, CallerMoves

LEMMA OpenMapStep ==
    ASSUME Inv, OpenMap, UNCHANGED <<bytes, stack>>
    PROVE  Inv' /\ Left' < Left
<1> DEFINE c == zcbor_new_decode_state(ptr)
           r == zcbor_map_start_decode(bytes, c)
<1>1. pc = "done" /\ step = "map"
  BY DEF OpenMap
<1>2. /\ ptr \in 1 .. Len(bytes) + 1 /\ bytes \in Seq(Byte) /\ Len(bytes) \in Nat
  BY DEF Inv
<1>3. Sound(bytes, c) /\ c.pos = ptr
  <2>1. c = [pos |-> ptr, bak |-> ptr, count |-> 1, indef |-> FALSE, backups |-> <<>>]
    BY DEF zcbor_new_decode_state
  <2>2. c \in Cursor(Len(bytes)) /\ Len(c.backups) = 0 /\ c.pos = ptr
    BY <2>1, <1>2 DEF Cursor
  <2> QED
    BY <2>2, BackupAssumption DEF Sound
<1>4. Enters(bytes, c, r)
  BY <1>2, <1>3, MapEnters
<1>5. \/ r.ok /\ cur' = r.cur /\ step' = "key" /\ pc' = pc /\ ptr' = ptr
      \/ Finish(call = "ipatch")
  BY DEF OpenMap
<1> HIDE DEF r, c
<1>6. CASE r.ok /\ cur' = r.cur /\ step' = "key" /\ pc' = pc /\ ptr' = ptr
  <2>1. Sound(bytes, r.cur) /\ r.cur.pos > ptr /\ r.cur.pos \in Nat
    BY <1>2, <1>3, <1>4, <1>6, SoundPos DEF Enters
  <2>2. Position = ptr /\ Position' = r.cur.pos /\ StepsLeft = 1 /\ StepsLeft' = 3
    BY <1>1, <1>6 DEF Position, StepsLeft
  <2>3. 8 * (Position - Position') + 0 + (StepsLeft' - StepsLeft) < 0
    BY <2>1, <2>2, <1>2
  <2>4. ptr' <= cur'.pos /\ pc' = "done"
    BY <2>1, <1>1, <1>2, <1>6
  <2> QED
    BY <2>1, <2>3, <2>4, <1>1, <1>2, <1>6, CallerMoves
<1>7. CASE Finish(call = "ipatch")
  BY <1>1, <1>7, FinishStep
<1> QED
  BY <1>5, <1>6, <1>7

LEMMA ReadValueStep ==
    ASSUME Inv, pc = "done", step = "key", UNCHANGED <<bytes, stack>>,
           NEW k, k.ok, Advances(bytes, cur, k), ReadValue(k)
    PROVE  Inv' /\ Left' < Left
<1>1. cur' = k.cur /\ pc' = "value" /\ step' = "value" /\ ptr' = ptr
  BY DEF ReadValue
<1>2. /\ bytes \in Seq(Byte) /\ ptr \in Nat /\ cur.pos \in Nat /\ ptr <= cur.pos
      /\ ptr \in 1 .. Len(bytes) + 1
  BY InvFacts DEF Inv
<1>3. Sound(bytes, k.cur) /\ k.cur.pos > cur.pos /\ k.cur.pos \in Nat
  BY <1>2, SoundPos DEF Advances
<1>4. Position = cur.pos /\ Position' = k.cur.pos /\ StepsLeft = 3 /\ StepsLeft' = 4
  BY <1>1 DEF Position, StepsLeft
<1>5. 8 * (Position - Position') + 2 + (StepsLeft' - StepsLeft) < 0
  BY <1>2, <1>3, <1>4
<1>6. ptr' <= cur'.pos
  BY <1>1, <1>2, <1>3
<1> QED
  BY <1>1, <1>2, <1>3, <1>5, <1>6, CallerMoves

LEMMA PostKeyStep ==
    ASSUME Inv, PostKey, UNCHANGED <<bytes, stack>>
    PROVE  Inv' /\ Left' < Left
<1> DEFINE K(beyond) == KeyDecoded(bytes, cur, beyond, PostInstance(bytes, cur))
<1>0. PICK beyond \in MajorType :
           IF zcbor_array_at_end(bytes, cur) \/ ~ K(beyond).ok
             THEN Finish(FALSE) ELSE ReadValue(K(beyond))
  BY DEF PostKey
<1> DEFINE k == K(beyond)
<1>1. Advances(bytes, cur, k)
  BY InvFacts, KeyAdvances
<1>2. /\ pc = "done" /\ step = "key"
      /\ Finish(FALSE) \/ (k.ok /\ ReadValue(k))
  BY <1>0 DEF PostKey, Calling
<1> HIDE DEF k
<1> QED
  BY <1>1, <1>2, FinishStep, ReadValueStep

\* After a map the scan goes on where the cursor stands.
LEMMA NextMapStep ==
    ASSUME Inv, pc = "done", step \in {"value", "close"}, UNCHANGED <<bytes, stack, pc>>,
           cur' = list_map_end_decode(bytes, cur).cur, ptr' = cur'.pos, step' = "map"
    PROVE  Inv' /\ Left' < Left
<1> DEFINE c == list_map_end_decode(bytes, cur).cur
<1>1. bytes \in Seq(Byte) /\ Sound(bytes, cur) /\ cur.pos \in Nat
  BY InvFacts
<1>2. Sound(bytes, c) /\ c.pos >= cur.pos
  BY <1>1, EndLeaves
<1> HIDE DEF c
<1>3. cur' = c /\ ptr' = c.pos
  BY DEF c
<1>4. c.pos \in Nat /\ c.pos \in 1 .. Len(bytes) + 1
  BY <1>1, <1>2, SoundPos
<1>5. Position = cur.pos /\ Position' = c.pos /\ StepsLeft \in {2, 4} /\ StepsLeft' = 1
  BY <1>3 DEF Position, StepsLeft
<1>6. 8 * (Position - Position') + 0 + (StepsLeft' - StepsLeft) < 0
  BY <1>1, <1>2, <1>4, <1>5
<1>7. ptr' <= cur'.pos
  BY <1>3, <1>4
<1> QED
  BY <1>2, <1>3, <1>4, <1>6, <1>7, CallerMoves

LEMMA PostValueStep ==
    ASSUME Inv, PostValue, UNCHANGED <<bytes, stack>>
    PROVE  Inv' /\ Left' < Left
<1>1. /\ pc = "done" /\ step = "value"
      /\ \/ Finish(FALSE)
         \/ /\ cur' = list_map_end_decode(bytes, cur).cur
            /\ ptr' = list_map_end_decode(bytes, cur).cur.pos
            /\ step' = "map" /\ pc' = pc
  BY DEF PostValue, Calling
<1>2. CASE Finish(FALSE)
  BY <1>1, <1>2, FinishStep
<1>3. CASE /\ cur' = list_map_end_decode(bytes, cur).cur
           /\ ptr' = list_map_end_decode(bytes, cur).cur.pos
           /\ step' = "map" /\ pc' = pc
  BY <1>1, <1>3, NextMapStep
<1> QED
  BY <1>1, <1>2, <1>3

\* A step of an iPATCH inside a map that reads no value.
LEMMA PatchMoves ==
    ASSUME Inv, pc = "done", UNCHANGED <<bytes, stack, pc, ptr>>,
           Sound(bytes, cur'), cur'.pos >= cur.pos,
           \/ step = "key" /\ step' = "close"
           \/ step = "value" /\ step' \in {"key", "close"}
    PROVE  Inv' /\ Left' < Left
<1>1. /\ bytes \in Seq(Byte) /\ ptr \in Nat /\ cur.pos \in Nat /\ ptr <= cur.pos
      /\ ptr \in 1 .. Len(bytes) + 1
  BY InvFacts DEF Inv
<1>2. cur'.pos \in Nat
  BY <1>1, SoundPos
<1>3. Position = cur.pos /\ Position' = cur'.pos
  BY DEF Position
<1>4. StepsLeft \in Nat /\ StepsLeft' \in Nat /\ StepsLeft' < StepsLeft
  BY DEF StepsLeft
<1>5. 8 * (Position - Position') + 0 + (StepsLeft' - StepsLeft) < 0
  <2> DEFINE p == cur'.pos
             l == StepsLeft'
  <2>1. p \in Nat /\ p >= cur.pos /\ l \in Nat /\ l < StepsLeft
    BY <1>2, <1>4
  <2> HIDE DEF p, l
  <2>2. 8 * (cur.pos - p) + 0 + (l - StepsLeft) < 0
    BY <2>1, <1>1, <1>4
  <2> QED
    BY <2>2, <1>3 DEF p, l
<1>6. ptr' <= cur'.pos
  BY <1>1, <1>2
<1> QED
  BY <1>1, <1>5, <1>6, CallerMoves

LEMMA PatchKeyStep ==
    ASSUME Inv, PatchKey, UNCHANGED <<bytes, stack>>
    PROVE  Inv' /\ Left' < Left
<1> DEFINE K(beyond) == KeyDecoded(bytes, cur, beyond, PatchInstance(bytes, cur, beyond))
<1>0. Sound(bytes, cur) /\ cur.pos \in Nat
  BY InvFacts
<1>6. PICK beyond \in MajorType :
           IF zcbor_array_at_end(bytes, cur)
             THEN step' = "close" /\ UNCHANGED <<cur, pc, ptr, key, items, good>>
             ELSE IF ~ K(beyond).ok
                    THEN /\ cur' = K(beyond).cur /\ step' = "close"
                         /\ UNCHANGED <<pc, ptr, key, items, good>>
                    ELSE ReadValue(K(beyond))
  BY DEF PatchKey
<1> DEFINE k == K(beyond)
<1>1. Advances(bytes, cur, k)
  BY InvFacts, KeyAdvances
<1>2. /\ pc = "done" /\ step = "key"
      /\ \/ step' = "close" /\ cur' = cur /\ pc' = pc /\ ptr' = ptr
         \/ step' = "close" /\ cur' = k.cur /\ pc' = pc /\ ptr' = ptr
         \/ k.ok /\ ReadValue(k)
  BY <1>6 DEF PatchKey, Calling
<1> HIDE DEF k
<1>3. CASE step' = "close" /\ cur' = cur /\ pc' = pc /\ ptr' = ptr
  BY <1>0, <1>2, <1>3, PatchMoves
<1>4. CASE step' = "close" /\ cur' = k.cur /\ pc' = pc /\ ptr' = ptr
  BY <1>1, <1>2, <1>4, PatchMoves DEF Advances
<1>5. CASE k.ok /\ ReadValue(k)
  BY <1>1, <1>2, <1>5, ReadValueStep
<1> QED
  BY <1>2, <1>3, <1>4, <1>5

LEMMA PatchValueStep ==
    ASSUME Inv, PatchValue, UNCHANGED <<bytes, stack>>
    PROVE  Inv' /\ Left' < Left
<1>1. Sound(bytes, cur) /\ cur.pos \in Nat
  BY InvFacts
<1>2. /\ pc = "done" /\ step = "value" /\ step' \in {"key", "close"}
      /\ cur' = cur /\ pc' = pc /\ ptr' = ptr
  BY DEF PatchValue, Calling
<1> QED
  BY <1>1, <1>2, PatchMoves

LEMMA PatchCloseStep ==
    ASSUME Inv, PatchClose, UNCHANGED <<bytes, stack>>
    PROVE  Inv' /\ Left' < Left
  BY NextMapStep DEF PatchClose, Calling

-----------------------------------------------------------------------------
\* Every step preserves the invariant and, unless an array stalls, brings the
\* request nearer to its end.
LEMMA StepInv ==
    ASSUME Inv, Next
    PROVE  Inv' /\ (Stalled \/ Left' < Left)
<1>1. CASE DecoderStep
  <2>1. UNCHANGED <<bytes, callerVars>>
    BY <1>1 DEF DecoderStep, DecodeStep
  <2>2. \/ ReadNothing \/ ReadScalar \/ ReadContainer
        \/ EndContainer \/ NextElement \/ NextEntry
    BY <1>1 DEF DecoderStep, DecodeStep
  <2> QED
    BY <2>1, <2>2, ReadNothingStep, ReadScalarStep, ReadContainerStep,
       EndContainerStep, NextElementStep, NextEntryStep
<1>2. CASE CallerStep
  <2>1. UNCHANGED <<bytes, stack>>
    BY <1>2 DEF CallerStep
  <2>2. CASE EndOfSequence
    BY <2>1, <2>2, FinishStep DEF EndOfSequence
  <2>3. CASE PutValue
    BY <2>1, <2>3, FinishStep DEF PutValue, Calling
  <2> QED
    BY <1>2, <2>1, <2>2, <2>3, OpenMapStep, PostKeyStep, PostValueStep,
       PatchKeyStep, PatchValueStep, PatchCloseStep DEF CallerStep
<1> QED
  BY <1>1, <1>2 DEF Next

LEMMA StutterInv ==
    ASSUME Inv, UNCHANGED vars
    PROVE  Inv'
  BY DEF Inv, vars, decoderVars, callerVars, Depth

\* Whatever bytes a request carries, and whatever the byte after them says,
\* cborToCoreconfValue and its callers never move the cursor beyond that byte,
\* save at most the backups the state array has and find a backup for every
\* container they are in.
THEOREM CursorInsideHolds == Spec => []CursorInside
<1>1. Init => Inv
  BY InvInit
<1>2. Inv /\ [Next]_vars => Inv'
  BY StepInv, StutterInv
<1>3. Inv => CursorInside
  BY InvInside
<1> QED
  BY <1>1, <1>2, <1>3, PTL DEF Spec

\* Whatever bytes a request carries, each step of its decoding leaves less to
\* do, except the repeated call of an array that cannot read its next element.
THEOREM RequestAdvancesHolds == Spec => RequestAdvances
<1>1. Init => Inv
  BY InvInit
<1>2. Inv /\ [Next]_vars => Inv'
  BY StepInv, StutterInv
<1>3. Inv /\ [Next]_vars => [Stalled \/ Left' < Left]_vars
  BY StepInv
<1> QED
  BY <1>1, <1>2, <1>3, PTL DEF Spec, RequestAdvances
=============================================================================
