------------------------------- MODULE KeyMap -------------------------------
(***************************************************************************)
(* What a CORECONF hash map promises to the code that uses it: a finite    *)
(* map from SIDs to values with an insert that may refuse.  An insert that *)
(* is not refused makes its value the one found under its key and touches  *)
(* no other key; a refused insert, a failed delete and a get change        *)
(* nothing.  How the map is stored is the business of CoreconfHashMap.     *)
(***************************************************************************)
EXTENDS Integers

CONSTANTS
    Key,     \* the keys (SIDs)
    Value,   \* the values
    Null     \* what get returns for a key that is not there

VARIABLES
    contents,  \* the map, a function on the keys that are present
    ret        \* the call that ended last and what it returned

vars == <<contents, ret>>

\* contents is a function from some of the keys to values.
PartialMap == UNION {[D -> Value] : D \in SUBSET Key}

Init == contents = [k \in {} |-> Null] /\ ret = [op |-> "create"]

InsertTaken(k, v) ==
    /\ contents' = [x \in DOMAIN contents \union {k} |->
                        IF x = k THEN v ELSE contents[x]]
    /\ ret' = [op |-> "insert", key |-> k, rc |-> 0]

InsertRefused(k) ==
    /\ contents' = contents
    /\ ret' = [op |-> "insert", key |-> k, rc |-> -1]

DeletePresent(k) ==
    /\ k \in DOMAIN contents
    /\ contents' = [x \in DOMAIN contents \ {k} |-> contents[x]]
    /\ ret' = [op |-> "delete", key |-> k, rc |-> 0]

DeleteAbsent(k) ==
    /\ k \notin DOMAIN contents
    /\ contents' = contents
    /\ ret' = [op |-> "delete", key |-> k, rc |-> -1]

Get(k) ==
    /\ contents' = contents
    /\ ret' = [op |-> "get", key |-> k,
               value |-> IF k \in DOMAIN contents THEN contents[k] ELSE Null]

Free ==
    /\ contents' = [k \in {} |-> Null]
    /\ ret' = [op |-> "free"]

Next ==
    \/ \E k \in Key, v \in Value : InsertTaken(k, v)
    \/ \E k \in Key :
        \/ InsertRefused(k)
        \/ DeletePresent(k)
        \/ DeleteAbsent(k)
        \/ Get(k)
    \/ Free

Spec == Init /\ [][Next]_vars
=============================================================================
