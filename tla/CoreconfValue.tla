--------------------------- MODULE CoreconfValue ---------------------------
(***************************************************************************)
(* The values of coreconfTypes.c as the codecs see them: a type and its    *)
(* contents, which are the eight bytes of a number, the bytes of a string, *)
(* the elements of an array or a function from SIDs to values.  All widths *)
(* of an integer are alike to the codecs.                                  *)
(***************************************************************************)
EXTENDS Integers, Sequences

Value(t, v) == [t |-> t, v |-> v]
NoValue == Value("none", <<>>)
NullValue == Value("null", <<>>)

\* createCoreconfString: a C string ends at its first zero byte.
CString(s) ==
    LET Clean == {n \in 0 .. Len(s) : \A i \in 1 .. n : s[i] # 0}
    IN  SubSeq(s, 1, CHOOSE n \in Clean : \A m \in Clean : m <= n)

\* An instance identifier: a SID, or a SID with the key of a list instance
\* (a string) or its index (an integer).
Sid(w) == [kind |-> "sid", sid |-> w, key |-> <<>>]
Instance(w, s) == [kind |-> "str", sid |-> w, key |-> s]
Index(w, n) == [kind |-> "int", sid |-> w, key |-> n]
=============================================================================
