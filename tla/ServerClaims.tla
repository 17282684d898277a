---------------------------- MODULE ServerClaims ----------------------------
(***************************************************************************)
(* What a header says of an operation where the server does otherwise.     *)
(***************************************************************************)
EXTENDS CoreconfServer

CONSTANT KeyDelta   \* the SID delta of the key leaf of the modelled lists

\* The entries of the list at sid that have the given key leaf.
Keyed(m, sid, key) ==
    IF ListAt(m, sid)
      THEN {e \in Range(Lookup(m.table, sid).s) :
              e.t = "map" /\ KeyDelta \in DOMAIN e.m /\ e.m[KeyDelta] = key}
      ELSE {}

\* ipatch.h:142,164: { [SID, key]: null } deletes the list instance with that
\* key value.  The entry that goes is the first with any string equal to it.
NullDeletesKeyedInstance ==
    [][\A p \in Patch :
         /\ resp'.op = "iPATCH" /\ resp'.code = 204 /\ handle_ipatch(142, p)
         /\ Len(p) = 1 /\ Len(p[1].items) = 3
         /\ p[1].items[2].kind = "inst" /\ p[1].items[2].value = NullValue
         => LET it == p[1].items[2]
                Listed(m) == IF ListAt(m, it.sid) THEN Range(Lookup(m.table, it.sid).s) ELSE {}
            IN  Listed(g_datastore) \ Listed(g_datastore')
                  \subseteq Keyed(g_datastore, it.sid, it.key)]_vars
=============================================================================
