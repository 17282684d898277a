# A TLA+ model of ccoreconf_zcbor

ccoreconf_zcbor is a C implementation of CORECONF, network management over CoAP
with CBOR payloads keyed by YANG SIDs. This directory models what its server,
its client and the data structures below them do, checks the models with TLC on
small instances, and proves with TLAPS the results that do not depend on the
size of the instance.

## 1. The system

### Components, their state and their operations

| Component | Source | State | Operations |
|---|---|---|---|
| Chained hash table `CoreconfHashMapT` | `src/coreconfTypes.c` | 100 chains of nodes that own a value; `size` | insert, get, delete, free; iterate |
| Datastore operations | `src/put.c`, `src/ipatch.c`, `src/get.c`, `src/serialization.c` | none of their own: they build or change a table | decode a PUT body, apply an iPATCH, encode an answer |
| Event queue | `iot_containers/iot_apps/coreconf_server.c` | `g_stream_events`, `g_stream_event_count`, heap copies of the events | push, clear, the encoding loops of GET and FETCH `/s` |
| Request handlers | `coreconf_server.c` | `g_datastore`, `g_ds_exists` | GET, FETCH, PUT, POST, iPATCH, DELETE on `/c`; GET, FETCH on `/s`; GET on `/sid` |
| Observers of `/s` | `coreconf_server.c` with libcoap | libcoap's subscriptions | register, mark, send, drop |
| RPC and action codec | `src/post.c` | none | parse items, answer items |
| Interactive client | `iot_containers/iot_apps/coreconf_cli.c` | `g_response_received`, `g_response_*`, `g_observe_mode` | one command per request, the response handler, the SID check, the demo |
| CBOR decoder and encoder | `src/serialization.c`, `src/put.c`, `src/post.c`, `src/ipatch.c`, `coreconf_zcbor_generated/` | zcbor's cursor: position, elements left, saved cursors | read a value, a POST body, the maps of an iPATCH; write a value |
| FETCH library | `src/fetch.c` | none | encode and parse a list of instance identifiers, search, answer |
| DELETE library | `src/delete.c` | none | used by nobody |
| SID path lookup, key mapping | `src/coreconfManipulation.c`, `src/sid.c`, `src/serialization.c` | the index of parents, lists of longs | index a model, climb from a SID, walk down with request keys |
| Robin Hood map | `src/hashmap.c` | buckets with hash and distance, `count`, thresholds | set, get, delete, clear, scan, iterate; grow and shrink |
| SID loading and fingerprint | `coreconf_server.c`, `coreconf_cli.c`, `tools/generate_sids_header.py` | `g_sys_sids`, the SID table | at start only |

### How they interact

libcoap calls a handler for each request, in one thread, and runs it to its end.
A handler reads the body, decodes it into a table or applies it to the one
`g_datastore` points to, answers, and on success queues an event and calls
`coap_resource_notify_observers`. That call only *marks* the resource: the
notifications go out later, from `coap_io_process`, one observer at a time, by
calling the GET handler of `/s` again. The client sends a request and calls
`coap_io_process` until its response handler has set a flag or 50 calls have
passed. The handler ignores which request a message answers.

### What is hard here

* **Collisions and the walk limit.** Insert gives up on a chain that is longer
  than `CORECONF_MAX_LOOP` allows, get and delete do not, so a key that get finds
  may be one that insert refuses; callers ignore the refusal.
* **Ownership.** Nodes own their values, slots of the event array own copies;
  replacing, refusing, evicting and clearing each free something else.
* **Between mark and send.** Events queued between the mark and the sending of
  a notification, observers that come, go, or are lost with a restart.
* **Cut and over-long bodies.** The decoder's errors are partly ignored, so a
  prefix of a body may be applied; several maps of one iPATCH may partly apply.
  Reading goes on with the cursor wherever the failed call left it: inside a
  container, at a byte that was meant as something else.
* **Two passes.** The FETCH library counts the items of a request by looking at
  bytes and then decodes them; the passes can disagree.
* **An index that is used up.** The climb from a SID to the root pops the
  parents it reads, so one lookup changes what the next one finds.
* **Open addressing.** Displacing, shifting back and resizing move every entry;
  only a hole ends a search.
* **Retries.** The client times out after five seconds while its request may
  have been carried out: the user sends it again.
* **Late messages.** An answer or a notification that comes after its command
  has given up is taken by the next command.

The hazards, each at the line where it bites, are the list `hazards` of
`PROJECT.json`, with the properties that would notice.

### What makes each component correct

* Table: a map that owns every value once, and whose `size` is right.
* Event queue: the newest `MaxEvents` events, each copy owned by one slot.
* Datastore: PUT replaces exactly; iPATCH changes only SIDs that its body has
  entries for, says so, and may be repeated; flag and pointer agree.
* Handlers: an error answer has changed nothing.
* Observers: no change is lost, and all catch up.
* Decoder: a well-formed body within the limits is read as CBOR defines it, no
  body moves the cursor past the byte after its end, and a request ends; what the
  encoder wrote is read back.
* FETCH library: what is parsed was sent, each item is answered with its value,
  and what was allocated is freed on every path.
* SID lookup: a path leads from the root to the SID, and the walk finds the
  instance that the keys select; both end.
* Robin Hood map: a map again, whose calls all return.
* Client: a command ends, reports what came while it ran, and reports its own
  answer unless exchanges overlap; the prompt needs a compatible server.

## 2. The modules

```
KeyMap <= CoreconfHashMap        RecentLog <= EventStream
KeyMap <= RobinHood                              |
              HashTable                      StreamView
                  |                              |
              Datastore ------ CoreconfServer ---+       CoreconfCli
                                    |
                               ServerClaims

Zcbor, CoreconfValue -- CborDecoder -- CborSequence --+
                        CborEncoder ------------------+-- MCCbor
                        CborGrammar ------------------+
Zcbor -- FetchRequest --+
         CborEncoder ---+-- FetchResponse                SidPath
```
(`<=`: is implemented by; lines: EXTENDS or INSTANCE, from the bottom up and
from left to right.)

**HashTable** has the walks as operators on a table, a function from buckets to
sequences of nodes. `hashKey` is a parameter, so that any collision can be
arranged. `Hit` and `GivesUp` are insert's loop: the limit is tested before the
comparison and counts from zero, so insert compares `MaxLoop + 1` nodes and
refuses when there are more. Get and delete
count nothing and find any node.

**CoreconfHashMap** is the table as a state machine. `table` and `size` are the
fields of the struct, `live` the allocated values, `ret` what the last call
returned. Actions: `insertCoreconfHashMap`, `deleteFromCoreconfHashMap`,
`getCoreconfHashMap` and freeing the map. A replaced value is freed, a refused
one is neither stored nor freed. **KeyMap** is the promise: a partial function
from keys to values, with an insert that may be refused.

**StreamView** has the loop both readers of `/s` run over the queue: skip what
the filter does not match, stop at the item limit or at the first event that
does not fit. **EventStream** is the fixed array, slot by slot, with the copies
it owns. **RecentLog** is its promise: a sequence of the newest events.

**Datastore** has the pure part of the operations: `parse_put_request` decodes
a body, `apply_ipatch_raw` applies a sequence of maps, `Fetched` answers one IID.
A body is structured data and not bytes: complete pairs in order, and whether
the bytes end before the map does. In a patch the pairs are among *tokens*: a
map's head and its end are tokens too, so are a key that is a map, a list that
is no key, and the members of a container after the last one that the decoder
reads. Where the scan stands (`ScanAt`) decides what a token does, as the
cursor does in the code: at a key an entry is applied; after an error
(`next_map`) the scan looks for a map from where it stands on, so that
`{{5: 1}: 2}` sets SID 5, and what does not begin with a map stops it.

**CoreconfServer** has one action per handler; the disjuncts of a handler are
its early returns, in the code's order. `Install`, `Announce`, `PushedMap` and
`PushedPatch` are the shared tails of the writing handlers. The queue is the
sequence `EventStream` is shown to implement. `observers`, `pending` and `seen`
are libcoap's side of observing, modelled from how the server uses it;
`restart` loses all memory and keeps the account password, which lives outside
the process. `password` is what `rotate_password.sh` sets; the script may fail,
which the handler only logs. The handler builds a shell command with the text
between quotes in a buffer of 512 bytes, so what the account gets is a parameter,
`PasswordSet`: the text itself when it has no quote and fits, what is left after
the shell has taken the quotes away (`a'b'c` gives `abc`), or nothing
(`NoPassword`) when the command is no longer one.

**Zcbor** has the part of the vendored library that the program calls, as
operators on a cursor record (position, elements left, inside an indefinite
container, saved cursors). Each gives the result and the cursor after it, the
cursor after a *failure* included: a head that cannot be read leaves the
position, a container for which no backup is left restores it, and a map with
too many pairs restores it but keeps the backup it took (and has no elements
left when its count of 2^64 - 1 is taken up by one).
**CoreconfValue** has the values, **CborDecoder** is `cborToCoreconfValue` with
`_parse_map` and `_parse_array` as a machine with an explicit stack, one step
per zcbor call, and **CborSequence** puts its three callers on top: `put` reads
one value, `post` is `parse_post_items`, `ipatch` the scan of
`apply_ipatch_raw`, which starts each map where the last one left the cursor.
The last two look at the type of a key without asking whether the payload goes
on: `MajorAt` is then any type (`beyond`).
**CborEncoder** is `coreconfToCBOR` and the calls below it, writing into a
buffer that may be too small. **CborGrammar** reads the same bytes as RFC 8949
defines them, with no cursor to restore, and is the reference of `MCCbor`.

**FetchRequest** has the parsers of `fetch.c`: `parse_fetch_request` and
`parse_fetch_request_iids` as a machine that scans byte by byte in its first
pass (`Count*`, `Scan*`) and fills the array in its second (`Read*`). `Release`
is `free_instance_identifiers`; the error paths free by the counts they pass to
it. **FetchResponse** adds the other half of the file as operators: the
encoders of requests, the search for the node of each item, and its answer.

**RobinHood** is `hashmap.c` with one bucket per step: `call` has the loop of
the call that is running and the entry in its hand, `map` the struct. A resize
fills the new table bucket by bucket and may find no memory. It implements the
same **KeyMap** as the chained table: displacing, shifting and resizing are
steps nobody sees.

**SidPath** is `coreconfManipulation.c` with the lists of `sid.c`. `Values` are
the values that models are made of, `Visited` the order in which a map's buckets
hold its keys. `buildCLookupHashmapFromCoreconf` puts its recursive calls in the
order they are made (`Calls`, one depth after the other) and adds the parent that
each of them notes to the index. `FindStart`, `FindClimb`,
`FindMisses` and `FindEnds` are the climb, `ExamineStart`, `ExamineNode` and
`ExamineReturns` the walk down. Reading a key leaf that an element lacks, or
going below something that is no map, is a read through a wrong pointer: the
state `crashed`. Popping from a list that was never initialised, which happens
when a client gives no request keys, is a choice between that and an empty list.
What should be found is defined from the tree alone: `Paths` are the ways down,
`Instances` the values with the keys that select them.

**CoreconfCli** is the client with an abstract server and a network that loses,
delays and reorders. `Run` is what every command does (reset the response, send
or fail at once), `poll`, `wait_ends` and `listen` are its loops,
`response_handler` takes any message under way. A command with wrong arguments
prints its usage and changes nothing; parsing and printing are left out. `fresh`,
`clean` and `was_ours` are history variables: no action of the client reads
them. libcoap is taken to repeat an unacknowledged request and to drop a
repeated response, so a request has at most one response.

**ServerClaims** states what headers and comments promise and the code does
not do (section 5). The `MC*` modules give the constants their values; the
`*Proofs` modules hold the theorems.

Definitions keep the names of the C functions and variables where there is one;
`map` in `PROJECT.json` gives the lines each stands for. Definitions under a
comment that starts with "Mutant" are no part of any specification: each is a
plausible bug that a property is known to notice when it takes the place of the
definition below it.

## 3. The runs

| Run | What it shows |
|---|---|
| `hash_map` | In any order of calls, the table holds each key once and in its bucket (`TableWellFormed`), `size` is right (`SizeExact`), no node points to a freed or shared value (`OwnedOnce`), a value is lost only by a refused insert (`LeakOnlyOnRefusal`), and the whole is a map (`ImplementsKeyMap`) |
| `event_stream` | Shifting, evicting and clearing neither leak nor free twice (`SlotsOwnLive`); what is stored and what is answered is a log of the newest events (`ImplementsRecentLog`) |
| `server_datastore` | All requests, good and bad, in any order, with maps as keys of a patch, containers that are too long, and passwords with quotes: `DatastoreSound`, `ErrorChangesNothing`, `PutExact`, `PatchAnnounced`, `ReplayHarmless`, `PasswordFollowsPut` |
| `server_observers` | Two observers, changes between mark and send, drops and restarts: `NoLostNotification`, and under fairness `ObserversCatchUp` |
| `cli_commands` | All commands and the five-request demo over the lossy network: `OwnAnswer`, `FreshAnswer`, `CompatibleServer`, and under fairness every command comes back to the prompt (`CommandsEnd`) |
| `robin_hood` | Three keys, two of one hash and one of the next: the table stays in Robin Hood order with a hole (`TableSound`), is a map (`ImplementsKeyMap`), calls return what was replaced and walks meet each key once (`ReturnsExact`), and all calls come to an end (`CallsEnd`) |
| `cbor` | Every string over ten bytes of up to `MaxLen` after each opening, and encoded datastores, given to `put`, `post` and `ipatch`: `PutExact`, `PostExact` and `PatchExact` against the grammar, `RoundTrip` through the encoder, `CursorInside`, and the variant `RequestAdvances` |
| `fetch_library` | The same for FETCH requests: `ParseExact`, `AnswerExact`, `NothingLeaks`, and the variant `CallAdvances` |
| `sid_path` | Lookups repeated in one index on four trees, with all request keys: `LookupExact`, `ExamineExact`, and under fairness `LookupEnds` |
| `claim_*` | Three statements of the repository that the code does not keep; TLC gives the counterexample |

`RequestAdvances` and `CallAdvances` are variants: every step makes a natural
number smaller, so the loops end without any appeal to fairness. The decoder's
has one exception, an array whose next element cannot be read (`Stalled`):
`_parse_array` then asks for the same element for ever. `PostExact` excepts
bodies with an array in the direction from accepted to well formed, because the
array's loop goes on with the cursor of a map that was left early inside it.
`LookupExact` holds where a SID with several parents has no descendants; with
descendants, one climb may take a parent that belongs to another branch.
`ReplayHarmless` has two preconditions the code needs: no insert of the patch is
refused, and list keys are used as keys. Without the second it fails, because a
list entry is found by *any* of its strings; `NullDeletesKeyedInstance` shows
the same from the user's side. The patches of the run name nothing twice (see
section 4 for those that do). `PatchAnnounced` speaks of the entries in the body,
wherever they stand, because the code applies those it comes upon after an error
as it does the others. For a patch whose keys are SIDs and instances and whose
containers the decoder can hold these are the keys of its maps; that it is not
so for others is the claim `PatchesItsSids`. It speaks of the event's body and
not of its SID: an event of several entries has the SID of the first. Its second
part is about patches with `Queueable` events: no map is cut off, the array has
a slot for each, and none is too long; an event that does not fit is dropped,
and then the change is not announced. `PasswordFollowsPut` ties the account to
what the datastore holds after the same step, not to what it held before, what a
refused insert or an overwritten entry said, or an earlier request; that the two
are the same text holds only where `PasswordSet` changes nothing.
`DatastoreSound`'s size is that of the root table.

### Bounds

| Constant | Value | In the code | Why it is enough |
|---|---|---|---|
| `TableSize` | 2 | 100 | one bucket that overflows, one that does not |
| `MaxLoop` | 1 | 50 | the limit is reached with four keys in a bucket, or three entries in a body; the code only compares with it |
| `Key` | 5 | any | four share a bucket, one more than a chain can hold |
| `Value` | 5 | heap | a value for every key and one to insert or to leak |
| `MaxEvents`; `MaxItems` | 3 or 2; 1 or 2 | 16; 8 | a full array, a shift across it, an answer cut by the item limit |
| `BufferSize` | 3, 11, 15 units | 4096 bytes | some events and answers fit and others do not; a key, a scalar and a head are one unit each |
| `MaxIids` | 2 | 64 | a FETCH with three |
| `MaxList` | 2 | none | a list grows without bound only by repeating an append; the bound is a guard of `handle_ipatch` |
| `Client` | 2, or none where observers do not matter | any | one served while the other waits |
| `MaxWait`, `MaxListen` | 1 | 50, 10 per second | timeouts and answers in either order |
| `MaxRequests` | 6; 3 for the claim | none | the check and the five requests of the demo, or the check, observe, and commands that meet its messages |
| `MaxInFlight` | 1; 2 for the claim | none | a message that comes after its command has ended; with 2, one overtakes another; one more counts as lost |
| `NumBackups`, `MaxDepth` | 3, 4 | 3 to 10, 20 | backups run out before the depth does, as in the callers with small arrays, and bodies reach both |
| `MaxLoop`, `MaxItems` (cbor) | 1, 5 | 50, none | a map of three entries is too long; arrays that stall are cut at five elements |
| `Alphabet`, `MaxLen` | 10 bytes, 4 | 256, any | one byte for each kind of head the code tells apart, definite and indefinite, and the break; openings add up to a nested container before the four |
| `Room`, `KeyRoom`, `Rooms` | 80, 30, 5 or 100 | 4096 or the caller's, 127, the caller's | encodings that fit and that end in every place |
| `Key`, `Hash` (robin_hood) | 3; hashes 3, 3 and 4 | any | two keys of one hash displace the third, across the end of the array with two or four buckets and inside it with eight |
| `MinCap`, `MaxBuckets` | 2, 8 | 16, none | two doublings and both ways back; `GrowPct` and `ClearPct` are the code's, `ShrinkPct` is 15 for the code's 10, so that a table of eight shrinks with an entry left |
| `MaxDepth` (sid_path) | 4 | 50 | one tree is deeper than the index goes |
| trees, keys (sid_path) | 4; up to three of 0..2 | any | lists in containers, lists in lists with two keys, shared SIDs, a delta of 0, elements without the key |

`MCCoreconfHashMap` and `MCEventStream` use symmetry on values and on addresses;
no definition tells two of them apart, and these runs check no liveness.
`MCCoreconfServer.cfg` uses the view `StoreView`: no action reads `resp`, and
what an action does to the datastore and to the password does not depend on
what is queued, so states that differ only there have the same future as far as
the run's properties go; the action properties are evaluated on every step.
The number of queued events is in the view, so that a full queue is reached
with every datastore. The client's cfgs do not check deadlock, since
the client may exit, nor do those of the decoders and of the Robin Hood map,
whose calls come to an end or to a bound; the others do.

### Fairness

`server_observers` assumes weak fairness of `send_notification` for each
client: `main` calls `coap_io_process(ctx, 1000)` until it is told to stop, and
every call sends what is marked. A notification that cannot be delivered ends
with the observer being dropped, which the property allows. `cli_commands` assumes
weak fairness of the client's own steps (`Proceed`): `coap_io_process` returns
within the 100 ms it is given and the loops count its calls. Nothing is assumed
of the network, the server or the user. `robin_hood` and `sid_path` assume that
a loop that was entered goes on: one thread runs it, without waiting. Nothing
is assumed of the callers.

## 4. The proofs

All of them hold for every value of the constants that meets the named
assumptions:

* `TableAssumption` (a bucket for every key, any limit), `ValueAssumption` and
  `CopyAssumption` (NULL is no object);
* `StreamAssumption`, `EventAssumption` (array, limits, and a length for every
  event);
* `IidAssumption`, `RequestAssumption`, `TypeAssumption` (what a body can be, as
  far as its decoder tells bodies apart; what the shell makes of a text is some
  string, or it fails);
* `CliAssumption` (the bounds are numbers);
* for the decoders `BackupAssumption`, `LimitAssumption`, `KeyRoomAssumption`
  (the sizes of their arrays) and `InputAssumption` (a body is bytes);
* for the Robin Hood map `HashAssumption` (any hash), `CapAssumption`,
  `PowerAssumption` (an even number of buckets to start with; what is asked for
  could be allocated) and `LoadAssumption`: half a table has room for what a
  table holds that shrinks, and the next larger one for what a full one holds
  and one entry more. With the code's percentages (60, 75, 10) and 16 buckets or
  more this is so;
* for the SID lookup `ModelAssumption` (what is inside a value is a value, a
  map's buckets hold its keys, deltas and SIDs are numbers).

Three theorems have a hypothesis of their own: one on the patches that are sent,
two on the models that are looked up.
`ReplaysAreHarmless` has `NamesOnce`: no patch names a SID, or an entry of a
list, twice, which holds of the patches of the run too. Without it the property
is false: a patch that deletes a SID and brings it back, with others in between,
may find the chain full the second time although no insert was refused the
first time, and one that removes a list entry and adds it again moves it behind
entries that were added later.

`LookupsAreExact` has `OneWayUp`: SIDs grow on the way down, and a SID with
others below it has the same SID above it wherever it occurs, as SIDs that are
assigned once per schema node have. Without it the property is false: when SID 14
is in two containers and one of them has 15 below it, a lookup of 14 pops one
parent and the next lookup of 15 climbs through the other, a way that the tree
does not have. `WalksAreExact` has `DistinctKeys`, no list names a key twice
(`addUniqueLong` would collect it once and the comparison of the lists fail), and
`FlatArrays`, no array is directly inside an array, as in every YANG tree. TLC
evaluates these hypotheses on the models of the run (`ShapeAssumption`): all
have them, but for `OneWayUp` of the one in which a SID is its own parent.

**The table** (`HashTableProofs`, `CoreconfHashMapProofs`). The lemmas of
`HashTableProofs` say what insert and delete do to a well-formed table: which
keys it has afterwards, what each is bound to, and that it stays well formed.
None needs induction: a chain changes at one place. The inductive invariant is
type correctness, well-formedness, finiteness of the set of keys, the exact
size and `KeysOwn` (different keys own different live values). Well-formedness
is needed for all the others: only when no key is in two nodes or in a foreign bucket do
nodes and keys correspond, so that `size`, which counts nodes, is the number of
keys, and unlinking a node removes a key and frees a value nobody else has.
Finiteness is there for the cardinality. From it follow `TypeCorrect`, `AlwaysWellFormed`,
`AlwaysSizeExact`, `AlwaysOwnedOnce`, the action property `LeaksOnlyOnRefusal`
and `Refinement`, that the specification implements `KeyMap` under the mapping
that reads the contents off the table.

**The event queue** (the last part of `CoreconfServerProofs`). `EventStreamTypes`,
`AlwaysSlotsOwnLive`, from the types of array and counter and the property
itself, which is inductive with them, and `StreamImplementsRecentLog`: every
step of the array is a step of the log, and what the encoding loop answers is
what the log wants. The loop is a fold over the slots; that it and the recursive
function of `RecentLog` agree at every prefix is shown by induction.

**The server** (`CoreconfServerProofs`). `AlwaysNoLostNotification`: with
`pending` within `observers` and `seen` a function the property is inductive,
since every handler either leaves the stream alone or announces what it queued.
`ErrorsChangeNothing` follows from the handlers alone. The others rest on
`ServerInv`: the datastore is a well-formed table of values that requests can
carry, with the exact size, or there is none and the flag says so; the queue is
one of its array's length at most; the password is a string. The handlers go
through folds over the entries of a body (decoding) and over the tokens of
every map of a patch (applying), so each result about them is an induction over
the prefixes of a sequence: `BuiltExact`, that after `k` entries the table binds
what the first `k` entries mean, gives `PutsAreExact`; that a token touches no
SID but that of an entry, wherever the scan stands, gives `PatchesAreAnnounced`,
with the induction that puts the event of each map of the patch at its place in
front of the queue. With them `ServerTypes`, `AlwaysDatastoreSound` and
`PasswordsFollowPut`, for which a text found in the table is one that a request
carried, so that `TypeAssumption` says what the shell makes of it.

`ReplaysAreHarmless` goes over the patch twice. Where the scan stands depends on
the tokens alone (`Positions` in a map, `PatchPositions` from map to map), so both
times the same entries are applied. The first time each of these items is
`Settled` once it has been applied (its SID or its list entry is as the item
wants it) and stays so, because the items after it are about another SID or
another entry. The second time a settled item changes nothing: a delete finds
nothing, an update stores what is there, and an insert that is refused now,
because its node has moved too deep into the chain, leaves the value that is
there already. So the two applications end with the same contents.

**The client** (`CoreconfCliProofs`). `AlwaysOwnAnswer` needs two
strengthenings: while an exchange is clean everything under way belongs to it
(`OnlyOwn`), and what the flag announces has been handled since the request was
sent (`HandledNow`). `AlwaysCompatibleServer` needs that a message with our
dictionary is evidence of a server that had it (`Checked`).

**The decoder** (`CborProofs`). `CursorInsideHolds` and `RequestAdvancesHolds`,
for bodies of any length and any bytes, and whatever byte follows them. The inductive invariant adds to
`CursorInside` that every *saved* cursor is inside the body too, because a
backup may come back at any time; that there are at least as many backups as
open containers, because leaving a container takes one off; and that the
caller is at the step of the value while the decoder runs. One lemma per zcbor
call says where it leaves the cursor, in success and in failure, and one per
action that the invariant is kept and the variant falls.

**The FETCH library** (`FetchRequestProofs`). `FetchLeaksNothing` and
`FetchAdvances`, for requests of any length and any bytes. `FetchInv` ties the
two passes together: the first counts at most one item for each byte it has
passed, so the array of the second is bounded by the request, and what is
allocated is at every moment the key strings of the items filled so far. The
second part is what makes `free_instance_identifiers` with the number of filled
items the right thing on each error path.

**The Robin Hood map** (`RobinHoodProofs`). The inductive invariant `Inv` says
for each kind of call what the table is like in the middle of it (`Running`).
Between calls, and while one searches, it is `Whole`: every entry is where its
distance says, the buckets on its way from home hold entries at least as far
from home, no key is twice there, `count` is right and below the limits, which
leaves a hole. While a set displaces, the entry in its hand is `Ready` for the
next bucket: its way so far is one that Robin Hood order allows. While a delete
shifts, the table is in order but for the hole it is closing, which is why the
hole is a parameter of `Placed`. While a resize runs, the old table is whole, the
new one is in order, holds no key but those below the index, and has room for
the rest. `RobinHoodSound` follows.

`RobinHoodImplementsKeyMap` and `RobinHoodReturnsExact` need in addition what
the call has found out (`Told`): a search has met other keys only, and no hole,
so that a key it does not meet is nowhere (`NotThere`, by Robin Hood order); a
set that has put its own item away has one in hand that is nowhere else; the items
of the new table and the hand are those of the buckets a resize has passed; the
item that a delete will return is no longer in the table; a walk has seen the
keys below its index, each once. The lemma for each action gives the `Outcome` of
its step: which items are visible afterwards and what was returned. That an
outcome is a step of `KeyMap` no longer depends on buckets.

**The SID lookup** (`SidPathProofs`). The operators come first: that the calls of
`buildCLookupHashmapFromCoreconf` visit nodes of the tree, and that an index has a
parent for a SID only where some way down has the two after each other
(`SoundIndex`), are inductions over the depth and over the calls. `PathInv`, of
`PathsLeadToSid`, keeps that of an index whose lists get shorter, and the nodes of
the path carry the key SIDs of their lists and end at the SID asked for. For
`LookupsAreExact`, `ClimbInv` says that the path so far is the lower part of a way
down (`StepUp`: putting any parent that the index still has on top of it leaves
it one), and that a list that is empty was so when the climb began or belongs to
a SID the climb has left. It is `OneWayUp` that lets parts of different ways be
put together, and that keeps a climb from coming back to a SID whose list it
emptied itself.

For `WalksAreExact`, `WalkInv` compares the walk with `Instances` node by node.
Given a request key for each key SID, the walk is `OnTrack`, at the value that
every instance with the request keys used so far has, and those keys are off the
end of `keys`, or `OffTrack`: no instance has them, and the subtree is no map, so
that the next node leads to a crash. The step at a list is the core: an element
is accepted just when its keys are the next request keys (`ComparedIs`: the sorted
lists agree just when the element agrees on all), and the first one accepted is
the one that `Firsts` has.

### How induction is done

The library's induction theorems have an operator as a parameter, which no
installed prover can instantiate. Induction over numbers is nevertheless at
hand: `NatLessThanWellFounded` and `WFMin` speak of sets, so a set of naturals
that is not empty has a least element (`LeastNumber`), and a set with 0 and the
successor of each of its members up to `n` is all of `0 .. n` (`Counting`). The
same lemma gives that a fold has a function of its intermediate results, which
the inductions then speak of.

### Only model-checked

* Liveness (`ObserversCatchUp`, `CommandsEnd`, `CallsEnd`, `LookupEnds`): the
  prover does no fairness.
* That the decoders agree with the grammar (`PutExact`, `PostExact`,
  `PatchExact`, `RoundTrip` of `MCCbor`) and that FETCH requests are parsed and
  answered as they were meant (`ParseExact`, `AnswerExact`): the reference
  readers are recursive operators on bytes, which the prover does not support.
* `LookupExact` for trees without `OneWayUp`, of which the run has one.

## 5. Where the code and its documentation disagree

| Run | Statement | What the code does |
|---|---|---|
| `claim_nulldeleteskeyedinstance` | `include/ipatch.h:142`: null for `[SID, key]` removes that instance | the first entry with the string in any leaf goes |
| `claim_getshowsdatastore` | `coreconf_cli.c:1222`: `get` shows the datastore | after an observe or a timeout it may show the late message of the earlier command |
| `claim_patchesitssids` | `include/ipatch.h:9`: only the SIDs of the payload change | the rest of a nested map that is too long is read as entries of the patch, and stored in the datastore under those SIDs |

Others follow from the models without a run of their own:

* `include/put.h:10`, after PUT the datastore is exactly the payload: entries
  after the first 51 are dropped, and the answer is 2.04. `put.h:35`, 4.00 for
  malformed CBOR: a map that is cut off is installed up to the cut. `put.h:20`,
  2.01 for a PUT that creates: `handle_put` always answers 2.04.
* `include/delete.h:4`, DELETE removes the SIDs of its query: the query is
  discarded and the datastore freed.
* `include/ipatch.h:45`, 5.00 when a patch cannot be applied: a refused insert
  is counted as applied and answered 2.04.
* `include/get.h:28`, a GET answer has all SIDs of the datastore: the results of
  the puts inside a nested container are ignored, so an answer that does not
  fit may be sent with 2.05 and without part of one (`serialization.c:15`);
  `handle_get` of the model then chooses between that and 5.00.
* The account password and the datastore disagree after a PUT of a text with a
  quote in it, or one that the command's buffer cuts
  (`coreconf_server.c:1450-1453`).
* The type of a key is read one byte past a body that ends where a key is due,
  and so is that of an instance's text (`ipatch.c:174` and `209`, `post.c:11`).
  The byte decides which decoder is called; that finds the end of the payload and
  fails, so the answer is the same.
* After an error in an iPATCH body the scan goes on inside the map it was in
  (`ipatch.c:257`), so an entry in a map that stands where a key should is applied.
* `include/fetch.h:143`, a FETCH item may be a SID or a list: the first pass
  takes any byte whose low five bits are 31 for a break, and counts a nested
  list wrongly, so some well-formed requests are refused (`fetch.c:399`).
* A POST body may be accepted although a map that was left early inside an
  array leaves it malformed, and an indefinite map may end after a key.
* An array with an element that cannot be read keeps the server in
  `_parse_array` for ever (`serialization.c:184`).
* A second lookup of a SID in one index gives a path without its upper part,
  which starts at a SID that is not at the root. When no element has the
  requested keys, the walk returns the whole list. When the request keys run
  out, those already used are tried again in the next list.
  `examples/test_fetch_operation.c` indexes from the root -1, where every climb
  ends in a SID that is not in the index.

## 6. What is not modelled, and why

* In `Datastore` a body is structured: it takes a container in a PUT or POST body
  to have at most `MaxLoop + 1` members, and a patch to be the tokens that the scan
  of its bytes comes to. `CborSequence` has the bytes; the two are not composed.
* What a shell command that a password's text holds may do besides setting the
  password.
* Allocation failures, but for the resize of the Robin Hood map.
* `parse_ipatch_request` and `apply_ipatch`, which the server does not call; the
  DELETE library, which nobody calls; the codec of the key mapping, used by the
  examples. See the next steps.
* Of zcbor: `zcbor_any_skip`, unions, fragments, unordered maps, bit strings,
  and the generated files, which the program does not call.
* The hash functions of `hashmap.c` (`RobinHood` takes any hash) and its
  user-supplied allocators.
* Encoders of RPC items and of `[SID, key]` patches: one head more around what
  `CborEncoder` has.
* SID files, fingerprint text, `/sid`: text produced once at start. The models
  take the SIDs as constants, and the client's model has the comparison.
* DTLS, certificates, containers and scripts: configuration.

## 7. Plan

Done, in this order: the table and its promise; the event queue and its promise;
the datastore operations; the server with its observers; the client; the proofs
of each; the decoder and encoder over bytes with their proofs; the FETCH
library; the Robin Hood map as a second implementation of the map; the SID
lookup; the proofs that go through folds, and those of the FETCH library,
of the Robin Hood map and of the SID lookup.

Next, the most important first:

1. **IPatch** as a machine of one entry per step, implementing the operator of
   `Datastore` over what `CborSequence` reads: the ownership of list entries,
   and what is left when a patch stops in the middle of its bytes.
2. **ClientServer**: `CoreconfCli` with `CoreconfServer` in place of the abstract
   server: retries of commands that were carried out, content formats, and what
   an observing client has seen after everything is quiet.
3. The library's `apply_ipatch` with its shared nodes, `apply_delete`, and the
   codec of the key mapping.

Theorems to add: the promise of a retry from 2; that the decoders agree with the
grammar, once its readers are functions on positions.
