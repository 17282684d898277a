--------------------------- MODULE CoreconfServer ---------------------------
(***************************************************************************)
(* The CoAP server (iot_containers/iot_apps/coreconf_server.c).            *)
(*                                                                         *)
(* libcoap runs every handler to its end in one thread, so a handler is    *)
(* one action, with the request as its parameter; requests come from any   *)
(* client in any order, and a client that times out sends again, so every  *)
(* request may come again.  Observers of /s are the exception: a change    *)
(* only marks the resource, and coap_io_process sends the notifications    *)
(* later, one observer at a time, with what the queue holds by then.       *)
(*                                                                         *)
(* The event queue is the sequence that EventStream is shown to implement. *)
(***************************************************************************)
EXTENDS Datastore, StreamView

CONSTANTS
    Client,        \* who may observe /s
    Payload,       \* bodies of PUT and of POST with CF 140
    Patch,         \* bodies of iPATCH
    IidList,       \* bodies of FETCH /c
    Invocation,    \* bodies of POST with CF 142
    Query,         \* the k= parameters a DELETE may carry, as sets of SIDs
    StreamFilter,  \* bodies of FETCH /s
    ExampleItems,  \* what init_ietf_example_datastore inserts, in order
    ModuleSid,     \* g_sys_sids.module, the fallback SID of an event
    PasswordSid,   \* SID_PASSWORD, 1735 in the code
    FirstPassword, \* the account password before any PUT
    MaxList,       \* bound of the model: entries a list may grow to
    NoBody,        \* a request without payload
    NoDatastore,   \* g_datastore is NULL
    Garbled,       \* the body of an answer whose encoding overflowed
    NoPassword,    \* no password is set
    PasswordSet(_) \* the account password once the shell has run the command
                   \* of handle_put with a text in it; NoPassword if it fails

\* Only the last map of a sequence can be cut off, a datastore map that is
\* cut off has an entry before the cut, a missing body is no body, and the
\* SID the PUT handler looks up is a key.
ASSUME RequestAssumption ==
    /\ \A p \in Payload : p.kind = "map" /\ ~p.closed => p.items # <<>>
    /\ \A p \in Patch : \A i \in 1 .. Len(p) - 1 : p[i].closed
    /\ NoBody \notin Payload /\ NoBody \notin Patch
    /\ NoBody \notin IidList /\ NoBody \notin StreamFilter
    /\ PasswordSid \in Key

\* A value as the decoder builds it.
IsScalarMap(v) == \A d \in DOMAIN v.m : d \in Nat /\ v.m[d] \in STRING
IsValue(v) ==
    CASE v.t \in {"text", "num"} -> v \in [t : {"text", "num"}, v : STRING]
      [] v.t = "null" -> TRUE
      [] v.t = "map"  -> IsScalarMap(v)
      [] v.t = "list" -> /\ v.s \in Seq(Range(v.s))
                         /\ \A i \in DOMAIN v.s : v.s[i].t = "map" => IsScalarMap(v.s[i])

\* The pairs of a datastore map, the maps of a patch and the items of an
\* invocation as the parsers hand them over.
IsPairs(s) ==
    /\ s \in Seq(Range(s))
    /\ \A i \in DOMAIN s : s[i].key \in Key /\ IsValue(s[i].value)
IsPatchMap(pm) ==
    /\ pm.items \in Seq(Range(pm.items))
    /\ \A it \in Range(pm.items) : it.kind \in TokenKind
    /\ \A it \in Entries(pm) : it.sid \in Key /\ IsValue(it.value)
Invoked == [iid : {"reboot", "reset", "other"}, input : STRING]

\* The values that requests and the example carry, the entries of their
\* lists, and the values a datastore may hold: an iPATCH makes new lists.
ValuesOf(s) == {s[i].value : i \in DOMAIN s}
PatchItem == UNION {Entries(pm) : pm \in UNION {Range(patch) : patch \in Patch}}
RequestValue ==
    ValuesOf(ExampleItems) \union {it.value : it \in PatchItem}
      \union UNION {ValuesOf(p.items) : p \in {p \in Payload : p.kind = "map"}}
ListEntry == RequestValue \union UNION {Range(v.s) : v \in {v \in RequestValue : v.t = "list"}}
StoredValue == RequestValue \union [t : {"list"}, s : Seq(ListEntry)]

ASSUME TypeAssumption ==
    /\ \A p \in Payload : p.kind = "map" => IsPairs(p.items)
    /\ \A patch \in Patch : patch \in Seq(Range(patch)) /\ \A pm \in Range(patch) : IsPatchMap(pm)
    /\ \A items \in Invocation : items \in Seq(Invoked)
    /\ IsPairs(ExampleItems)
    /\ FirstPassword \in STRING /\ NoPassword \notin STRING
    /\ \A v \in RequestValue : v.t = "text" => PasswordSet(v.v) \in STRING \union {NoPassword}
    /\ NoDatastore \notin [table : [Bucket -> Seq([key : Key, value : StoredValue])], size : Nat]

VARIABLES
    g_datastore,      \* NoDatastore or a map [table, size]
    g_ds_exists,
    g_stream_events,  \* queued events, newest first
    observers,        \* clients registered on /s (kept by libcoap)
    pending,          \* observers with a notification still to be sent
    seen,             \* the events each client was sent last
    password,         \* the account password rotate_password.sh sets
    resp              \* the last answer: operation, code, body

store == <<g_datastore, g_ds_exists>>
stream == <<g_stream_events, observers, pending, seen>>
vars == <<store, stream, password, resp>>

\* Content formats: yang-data, yang-identifiers, yang-instances, none
\* of these.
CF == {140, 141, 142, 0}

Reply(op, code, body) == resp' = [op |-> op, code |-> code, body |-> body]

\* send_error: nothing but the answer.
Fail(op, code) == Reply(op, code, <<>>) /\ UNCHANGED <<store, stream, password>>

Exists == g_datastore # NoDatastore /\ g_ds_exists

-----------------------------------------------------------------------------
(***************************************************************************)
(* Events.                                                                 *)
(***************************************************************************)

\* Mutant: a full array is not shortened first.
PushedUnbounded(q, e) == <<e>> \o q

\* stream_push_event, as RecentLog has it: newest first, the oldest dropped.
Pushed(q, e) ==
    IF Len(q) = MaxEvents THEN <<e>> \o SubSeq(q, 1, MaxEvents - 1)
                          ELSE <<e>> \o q

\* stream_push_notification_map: the body under the SID, unless the wrapped
\* event does not fit the buffer: then it is dropped.
PushedMap(q, e) == IF e.len > BufferSize THEN q ELSE Pushed(q, e)

\* The event of a PUT or POST body: stream_extract_first_sid_from_map takes
\* the first key; a body cut short shows its own keys to a filter.
PayloadEvent(p) ==
    [sid   |-> IF p.items = <<>> THEN ModuleSid ELSE p.items[1].key,
     len   |-> 2 + PairUnits(p.items),
     inner |-> IF p.closed THEN {} ELSE {p.items[i].key : i \in DOMAIN p.items},
     body  |-> p.items]

\* Encoded size of the tokens of a map.
TokenUnits(it) ==
    CASE it.kind \in EntryKind -> 1 + Units(it.value)
      [] it.kind = "end"       -> 0
      [] OTHER                 -> 1

\* The event of one map of an iPATCH body: the SID is that of its first key,
\* which may be one that the patch does not understand.
PatchEvent(pm) ==
    [sid   |-> IF Len(pm.items) > 1 /\ pm.items[2].kind \in EntryKind \union {"skipped"}
                 THEN pm.items[2].sid ELSE ModuleSid,
     len   |-> 1 + FoldLeft(LAMBDA n, it : n + TokenUnits(it), 0, pm.items),
     inner |-> {},
     body  |-> pm.items]

\* Mutant: only the first map of the sequence is queued.
PushedFirst(q, patch) ==
    IF patch # <<>> /\ patch[1].closed THEN PushedMap(q, PatchEvent(patch[1])) ELSE q

\* stream_push_notification_sequence: every map up to the first that does
\* not end properly, whether or not it was applied.
PushedPatch(q, patch) ==
    FoldLeft(LAMBDA r, pm : IF pm.closed THEN PushedMap(r, PatchEvent(pm)) ELSE r,
             q, patch)

DeleteEvent == [sid |-> ModuleSid, len |-> 2, inner |-> {}, body |-> <<>>]

\* Mutant: the change is queued and nobody is notified.
AnnounceQuietly(q) ==
    /\ g_stream_events' = q
    /\ UNCHANGED <<observers, pending, seen>>

\* notify_stream_observers: libcoap marks every observer.
Announce(q) ==
    /\ g_stream_events' = q
    /\ pending' = observers
    /\ UNCHANGED <<observers, seen>>

-----------------------------------------------------------------------------
(***************************************************************************)
(* Resource /c.                                                            *)
(***************************************************************************)

\* A container with something in it, in the datastore or in a list of it.
HasMembers(m) ==
    \E o \in Range(Nodes(m)) :
      \E v \in {o.value} \union (IF o.value.t = "list" THEN Range(o.value.s) ELSE {}) :
        v.t = "map" /\ DOMAIN v.m # {}

\* The encoder reports that the buffer is full, except for what stands in a
\* container: there the result of each put is dropped, and an answer that lost
\* nothing else is sent without it.
handle_get ==
    /\ UNCHANGED <<store, stream, password>>
    /\ IF ~Exists \/ g_datastore.size = 0 THEN Reply("GET", 404, <<>>)
       ELSE IF 2 + PairUnits(Nodes(g_datastore)) > BufferSize
              THEN \/ Reply("GET", 500, <<>>)
                   \/ HasMembers(g_datastore) /\ Reply("GET", 205, Garbled)
              ELSE Reply("GET", 205, Nodes(g_datastore))

\* An answer that overflows the buffer is sent all the same, as whatever
\* pieces the encoder managed to write.
handle_fetch(cf, q) ==
    \/ cf # 141 /\ Fail("FETCH", 415)
    \/ cf = 141 /\ q = NoBody /\ Fail("FETCH", 400)
    \/ cf = 141 /\ q # NoBody /\ ~Exists /\ Fail("FETCH", 404)
    \/ /\ cf = 141 /\ q # NoBody /\ Exists
       /\ ParsedIids(q) = <<>>
       /\ Fail("FETCH", 400)
    \/ /\ cf = 141 /\ q # NoBody /\ Exists
       /\ ParsedIids(q) # <<>>
       /\ LET pairs == FetchedAll(g_datastore, ParsedIids(q))
          IN  Reply("FETCH", 205,
                    IF 2 + PairUnits(pairs) > BufferSize THEN Garbled ELSE pairs)
       /\ UNCHANGED <<store, stream, password>>

\* Install a decoded payload as the datastore, answer and announce it.
Install(op, code, p) ==
    /\ g_datastore' = parse_put_request(p)
    /\ g_ds_exists' = TRUE
    /\ Reply(op, code, <<>>)
    /\ Announce(PushedMap(g_stream_events, PayloadEvent(p)))

\* Mutant: the script runs with what the datastore held before.
RotateStale(m) ==
    IF /\ Exists /\ Has(g_datastore.table, PasswordSid)
       /\ Lookup(g_datastore.table, PasswordSid).t = "text"
      THEN password' \in
             {password, PasswordSet(Lookup(g_datastore.table, PasswordSid).v)} \ {NoPassword}
      ELSE UNCHANGED password

\* PUT of a password as a string runs the script in a shell, with the text
\* between quotes; a failure is only logged.
RotatePassword(m) ==
    IF Has(m.table, PasswordSid) /\ Lookup(m.table, PasswordSid).t = "text"
      THEN password' \in
             {password, PasswordSet(Lookup(m.table, PasswordSid).v)} \ {NoPassword}
      ELSE UNCHANGED password

handle_put(cf, p) ==
    \/ cf # 140 /\ Fail("PUT", 415)
    \/ cf = 140 /\ p = NoBody /\ Fail("PUT", 400)
    \/ cf = 140 /\ p # NoBody /\ p.kind # "map" /\ Fail("PUT", 400)
    \/ /\ cf = 140 /\ p # NoBody /\ p.kind = "map"
       /\ Install("PUT", 204, p)
       /\ RotatePassword(parse_put_request(p))

\* Mutant: the conflict is noticed after the datastore has been replaced.
PostReplaces(p) ==
    \/ p = NoBody /\ Fail("POST", 400)
    \/ /\ p # NoBody /\ p.kind = "map"
       /\ Install("POST", IF Exists THEN 409 ELSE 201, p)
       /\ UNCHANGED password

\* POST with CF 140 creates the datastore.
PostCreate(p) ==
    \/ p = NoBody /\ Fail("POST", 400)
    \/ p # NoBody /\ Exists /\ Fail("POST", 409)
    \/ p # NoBody /\ ~Exists /\ p.kind # "map" /\ Fail("POST", 400)
    \/ /\ p # NoBody /\ ~Exists /\ p.kind = "map"
       /\ Install("POST", 201, p)
       /\ UNCHANGED password

\* The code an RPC or action earns: reboot takes a map or null, reset a map
\* with the reset-at string; anything else is not found.
InvocationCode(it) ==
    CASE it.iid = "reboot" -> IF it.input \in {"map", "reset-at", "null"} THEN 204 ELSE 400
      [] it.iid = "reset"  -> IF it.input = "reset-at" THEN 204 ELSE 400
      [] it.iid = "other"  -> 404

\* What one item of a successful invocation contributes to the answer.
InvocationResult(it) ==
    [iid |-> it.iid, output |-> IF it.iid = "reset" THEN "finished-at" ELSE "null"]

\* The items that fail.
Failing(items) == {i \in DOMAIN items : InvocationCode(items[i]) # 204}

\* Encoded size of the answers.
ResultUnits(items) ==
    FoldLeft(LAMBDA n, it : n + (IF it.iid = "reset" THEN 9 ELSE 4), 0, items)

\* POST with CF 142: the first item that fails decides; there is an answer
\* for every item or none.
PostInvoke(items) ==
    \/ items = <<>> /\ Fail("POST", 400)
    \/ /\ Failing(items) # {}
       /\ Fail("POST", InvocationCode(items[FirstOf(Failing(items))]))
    \/ /\ items # <<>> /\ Failing(items) = {}
       /\ ResultUnits(items) > BufferSize
       /\ Fail("POST", 500)
    \/ /\ items # <<>> /\ Failing(items) = {}
       /\ ResultUnits(items) <= BufferSize
       /\ Reply("POST", 204, [i \in DOMAIN items |-> InvocationResult(items[i])])
       /\ UNCHANGED <<store, stream, password>>

handle_post(cf, p, items) ==
    \/ cf = 140 /\ PostCreate(p)
    \/ cf = 142 /\ PostInvoke(items)
    \/ cf \notin {140, 142} /\ Fail("POST", 415)

\* Does a patch keep every list within the bound of the model?
ListsBounded(m) ==
    \A k \in KeysOf(m.table) : ListAt(m, k) => Len(Lookup(m.table, k).s) <= MaxList

handle_ipatch(cf, patch) ==
    \/ cf # 142 /\ Fail("iPATCH", 415)
    \/ cf = 142 /\ patch = NoBody /\ Fail("iPATCH", 400)
    \/ cf = 142 /\ patch # NoBody /\ ~Exists /\ Fail("iPATCH", 404)
    \/ /\ cf = 142 /\ patch # NoBody /\ Exists
       /\ LET done == apply_ipatch_raw(g_datastore, patch)
          IN  /\ ListsBounded(done.m)
              /\ g_datastore' = done.m
       /\ Reply("iPATCH", 204, <<>>)
       /\ Announce(PushedPatch(g_stream_events, patch))
       /\ UNCHANGED <<g_ds_exists, password>>

\* The query is not looked at.
handle_delete(query) ==
    \/ ~Exists /\ Fail("DELETE", 404)
    \/ /\ Exists
       /\ g_datastore' = NoDatastore
       /\ g_ds_exists' = FALSE
       /\ Reply("DELETE", 202, <<>>)
       /\ Announce(PushedMap(g_stream_events, DeleteEvent))
       /\ UNCHANGED password

-----------------------------------------------------------------------------
(***************************************************************************)
(* Resource /s.                                                            *)
(***************************************************************************)

\* What GET /s answers, and every notification carries.
Current == Encoded(g_stream_events, {})

\* GET /s; with the Observe option libcoap registers the client.
handle_stream_get(c, observe) ==
    /\ Reply("GET /s", 205, Current)
    /\ IF observe
         THEN /\ observers' = observers \union {c}
              /\ pending' = pending \ {c}
              /\ seen' = [seen EXCEPT ![c] = Current]
         ELSE UNCHANGED <<observers, pending, seen>>
    /\ UNCHANGED <<store, g_stream_events, password>>

\* FETCH /s: no body means no filter; a body needs CF 141 and an IID.
handle_stream_fetch(cf, filter) ==
    \/ filter # NoBody /\ cf # 141 /\ Fail("FETCH /s", 415)
    \/ filter # NoBody /\ cf = 141 /\ filter = {} /\ Fail("FETCH /s", 400)
    \/ /\ filter = NoBody \/ (cf = 141 /\ filter # {})
       /\ Reply("FETCH /s", 205,
                Encoded(g_stream_events, IF filter = NoBody THEN {} ELSE filter))
       /\ UNCHANGED <<store, stream, password>>

\* Mutant: an observer is only served when no other one waits.
send_when_alone(c) ==
    /\ pending = {c}
    /\ seen' = [seen EXCEPT ![c] = Current]
    /\ pending' = {}
    /\ UNCHANGED <<store, g_stream_events, observers, password, resp>>

\* coap_io_process sends one outstanding notification: libcoap calls the
\* GET handler of /s for it, so it carries what the queue holds now.
send_notification(c) ==
    /\ c \in pending
    /\ seen' = [seen EXCEPT ![c] = Current]
    /\ pending' = pending \ {c}
    /\ UNCHANGED <<store, g_stream_events, observers, password, resp>>

\* libcoap drops an observer that resets or stops acknowledging.
drop_observer(c) ==
    /\ c \in observers
    /\ observers' = observers \ {c}
    /\ pending' = pending \ {c}
    /\ UNCHANGED <<store, g_stream_events, seen, password, resp>>

-----------------------------------------------------------------------------
\* publish_example_port_fault, called twice before anything else.
PortFault(name, fault) ==
    LET pairs == <<[key |-> 1, value |-> Text(name)], [key |-> 2, value |-> Text(fault)]>>
    IN  [sid |-> 60010, len |-> 2 + PairUnits(pairs), inner |-> {}, body |-> pairs]

StartEvents == Pushed(Pushed(<<>>, PortFault("0/4/21", "Open pin 2")),
                      PortFault("1/4/21", "Open pin 5"))

ExampleDatastore ==
    FoldLeft(LAMBDA m, it : Inserted(m, it.key, it.value), NewMap, ExampleItems)

Init ==
    /\ g_datastore = ExampleDatastore
    /\ g_ds_exists = TRUE
    /\ g_stream_events = StartEvents
    /\ observers = {}
    /\ pending = {}
    /\ seen = [c \in Client |-> <<>>]
    /\ password = FirstPassword
    /\ resp = [op |-> "start", code |-> 0, body |-> <<>>]

\* The process ends (a signal, a crash) and is started again: nothing is
\* kept, and libcoap knows no observer.
restart ==
    /\ g_datastore' = ExampleDatastore
    /\ g_ds_exists' = TRUE
    /\ g_stream_events' = StartEvents
    /\ observers' = {}
    /\ pending' = {}
    /\ resp' = [op |-> "start", code |-> 0, body |-> <<>>]
    /\ UNCHANGED <<seen, password>>

Next ==
    \/ handle_get
    \/ \E cf \in CF :
         \/ \E q \in IidList \union {NoBody} : handle_fetch(cf, q)
         \/ \E p \in Payload \union {NoBody} : handle_put(cf, p)
         \/ \E p \in Payload \union {NoBody}, i \in Invocation : handle_post(cf, p, i)
         \/ \E p \in Patch \union {NoBody} : handle_ipatch(cf, p)
         \/ \E f \in StreamFilter \union {NoBody} : handle_stream_fetch(cf, f)
    \/ \E k \in Query : handle_delete(k)
    \/ \E c \in Client, o \in BOOLEAN : handle_stream_get(c, o)
    \/ \E c \in Client : send_notification(c) \/ drop_observer(c)
    \/ restart

Spec == Init /\ [][Next]_vars

\* The event loop never stops calling coap_io_process, and a notification
\* that cannot be delivered ends with the observer being dropped.
FairSpec == Spec /\ \A c \in Client : WF_vars(send_notification(c))

-----------------------------------------------------------------------------
(***************************************************************************)
(* Properties.                                                             *)
(***************************************************************************)

TypeOK ==
    /\ g_datastore # NoDatastore =>
         /\ DOMAIN g_datastore.table = Bucket
         /\ \A b \in Bucket : \A i \in DOMAIN g_datastore.table[b] :
              /\ g_datastore.table[b][i].key \in Key
              /\ IsValue(g_datastore.table[b][i].value)
         /\ g_datastore.size \in Nat
    /\ g_ds_exists \in BOOLEAN
    /\ Len(g_stream_events) <= MaxEvents
    /\ observers \subseteq Client
    /\ pending \subseteq observers
    /\ DOMAIN seen = Client
    /\ password \in STRING
    /\ resp.code \in {0, 201, 202, 204, 205, 400, 404, 409, 415, 500}

\* The flag and the pointer that every handler tests agree, and the datastore
\* is a sound table whose size is the number of SIDs in it: PUT, POST, the
\* nested inserts and deletes of an iPATCH and DELETE keep it so in any
\* order, refused inserts and cut-off bodies included.
DatastoreSound ==
    /\ g_ds_exists <=> g_datastore # NoDatastore
    /\ g_ds_exists => /\ WellFormed(g_datastore.table)
                      /\ g_datastore.size = Cardinality(KeysOf(g_datastore.table))

\* An answer that reports an error has changed nothing: not the datastore,
\* not the event queue, not the password, also when the last item of an
\* invocation fails or a POST finds that it came too late.
ErrorChangesNothing ==
    [][resp' # resp /\ resp'.code >= 400 => UNCHANGED <<store, stream, password>>]_vars

\* PUT replaces: after a PUT of a complete map the decoder can hold, the
\* datastore maps exactly the payload's SIDs to the payload's values, however
\* its SIDs collide and whatever was stored before.
PutExact ==
    [][\A p \in Payload :
         /\ resp'.op = "PUT" /\ handle_put(140, p)
         /\ p.kind = "map" /\ p.closed /\ ~TooLong(p)
         => ContentsOf(g_datastore'.table) = Meaning(p)]_vars

\* What one SID is bound to: its value, or nothing.
Binding(m, k) == IF Has(m.table, k) THEN <<Lookup(m.table, k)>> ELSE <<>>

\* The array has a slot for the event of each map of a patch, no map is cut
\* off, and none is too long to queue.
Queueable(patch) ==
    /\ Len(patch) <= MaxEvents
    /\ \A i \in DOMAIN patch : patch[i].closed /\ ~ (PatchEvent(patch[i]).len > BufferSize)

\* What an iPATCH changes is a SID that is the key of an entry somewhere in its
\* body, and an event is queued for it: if the events can be queued, a SID whose
\* value is new is such a key in one of those that the patch put in front of the
\* queue, whatever was refused, left out or found after an error.  In a patch
\* whose keys are all SIDs and instances, and whose containers the decoder can
\* hold, these are the keys of its maps; in others an entry may also stand in a
\* map that is itself a key, in what follows a value that cannot be read and in
\* a container with too many members, and the code patches all of them.
PatchAnnounced ==
    [][\A p \in Patch :
         resp'.op = "iPATCH" /\ resp'.code = 204 /\ handle_ipatch(142, p) =>
           \A k \in Key : Binding(g_datastore, k) # Binding(g_datastore', k) =>
             /\ k \in Named(p)
             /\ Queueable(p) =>
                  \E i \in DOMAIN g_stream_events', pm \in Range(p) :
                    /\ i <= Len(p)
                    /\ g_stream_events'[i].body = pm.items
                    /\ k \in EntrySids(pm)]_vars

\* The SIDs of entries the table has no room for, as the patch is applied:
\* noted is [a, r], the state of applying the patch and the SIDs so far.
RefusalNoted(noted, it) ==
    [a |-> EntryApplied(noted.a, it),
     r |-> IF /\ noted.a.at = "key" /\ it.kind = "sid"
              /\ it.value.t # "null" /\ Refuses(noted.a.m.table, it.sid)
             THEN noted.r \union {it.sid} ELSE noted.r]
RefusalsNoted(noted, pm) == FoldLeft(RefusalNoted, noted, pm.items)
RefusedBy(m, patch) ==
    FoldLeft(RefusalsNoted, [a |-> [m |-> m, n |-> 0, at |-> "map"], r |-> {}], patch).r

\* The list entries a patch addresses.
Instances(patch) ==
    UNION {{it \in Range(pm.items) : it.kind = "inst"} : pm \in Range(patch)}

\* List keys are used as keys: an entry that a patch writes carries the key
\* it is written under and no other key of the patch, and no list holds two
\* entries that match a key of the patch.
WellKeyed(m, patch) ==
    \A it \in Instances(patch) :
      /\ it.value.t # "null" =>
           {o.key : o \in {o \in Instances(patch) : EntryMatches(it.value, o.key)}} = {it.key}
      /\ ListAt(m, it.sid) => Cardinality(Matching(Lookup(m.table, it.sid).s, it.key)) <= 1

\* A client that gets no answer in time sends its iPATCH again.  When no
\* insert was refused and the list keys are used as keys, applying a patch a
\* second time changes nothing: entries are replaced and not appended twice,
\* and a deleted SID stays deleted.  (A patch that names a SID or an entry
\* several times, with others in between, can do differently.)
ReplayHarmless ==
    g_ds_exists =>
      \A p \in Patch :
        LET once == apply_ipatch_raw(g_datastore, p).m
        IN  RefusedBy(g_datastore, p) = {} /\ WellKeyed(g_datastore, p)
              => ContentsOf(apply_ipatch_raw(once, p).m.table) = ContentsOf(once.table)

\* The account password only ever becomes what the command makes of the text
\* that the datastore holds under the password's SID in the same step: of a
\* payload that gives it twice the second counts, one that the table has no room
\* for is not set, a value of another type never, and no other request sets one.
\* The text is the password itself when it fits the command and has no quote.
PasswordFollowsPut ==
    [][password' # password =>
         /\ Has(g_datastore'.table, PasswordSid)
         /\ LET v == Lookup(g_datastore'.table, PasswordSid)
            IN  v.t = "text" /\ password' = PasswordSet(v.v)]_vars

\* No change is lost on an observer: whoever was not sent what the queue
\* shows now has a notification outstanding, whatever was queued between the
\* mark and the sending.
NoLostNotification ==
    \A c \in observers : seen[c] # Current => c \in pending

\* An observer that stays registered is sent the current events in the end.
ObserversCatchUp ==
    \A c \in Client :
      c \in observers ~> (c \notin observers \/ seen[c] = Current)
=============================================================================
