---------------------------- MODULE EventStream -----------------------------
(***************************************************************************)
(* The event queue behind /s (coreconf_server.c): the fixed array          *)
(* g_stream_events of owned copies, newest in slot 0, and its counter.     *)
(* A slot holds the pointer of the copy and the event that was copied.     *)
(***************************************************************************)
EXTENDS StreamView, FiniteSets

CONSTANTS
    Event,    \* the events that can be pushed
    Filter,   \* the SID sets a FETCH /s may carry; {} for GET and no filter
    Copy,     \* the addresses malloc may return
    NoCopy    \* the NULL pointer

ASSUME CopyAssumption == NoCopy \notin Copy
ASSUME EventAssumption == \A e \in Event : e.len \in Nat

VARIABLES
    slots,   \* g_stream_events
    count,   \* g_stream_event_count
    live,    \* copies allocated and not freed
    view     \* the events of the last answer on /s

streamVars == <<slots, count, live, view>>

Slot == 0 .. MaxEvents - 1
Empty == [ptr |-> NoCopy]
Full == [ptr : Copy, event : Event]

StreamInit ==
    /\ slots = [i \in Slot |-> Empty]
    /\ count = 0
    /\ live = {}
    /\ view = <<>>

\* Mutants: the oldest copy is not freed; the counter is not decremented.
EvictedKept == {}
KeptAll == count

\* The copy a push frees: the oldest one when the array is full.
Evicted == IF count = MaxEvents THEN {slots[MaxEvents - 1].ptr} ELSE {}

\* The number of events a push keeps.
Kept == IF count = MaxEvents THEN count - 1 ELSE count

\* Slots 0 .. Kept - 1 move up by one, from the top down; slot 0 gets the
\* new copy.
Shifted(p, e) ==
    [i \in Slot |->
        IF i = 0 THEN [ptr |-> p, event |-> e]
        ELSE IF i <= Kept THEN slots[i - 1] ELSE slots[i]]

\* malloc runs before the oldest copy is freed, so p is not its address.
stream_push_event(e, p) ==
    /\ p \notin live
    /\ slots' = Shifted(p, e)
    /\ count' = Kept + 1
    /\ live' = (live \ Evicted) \union {p}
    /\ view' = view

\* Runs once, when the server shuts down.
stream_clear_events ==
    /\ slots' = [i \in Slot |-> IF i < count THEN Empty ELSE slots[i]]
    /\ live' = live \ {slots[i].ptr : i \in 0 .. count - 1}
    /\ count' = 0
    /\ view' = view

\* The queued events, newest first.
Queued == [i \in 1 .. count |-> slots[i - 1].event]

\* GET /s and FETCH /s read the queue and leave it alone.
stream_read(filter) ==
    /\ view' = Encoded(Queued, filter)
    /\ UNCHANGED <<slots, count, live>>

StreamNext ==
    \/ \E e \in Event, p \in Copy : stream_push_event(e, p)
    \/ \E f \in Filter : stream_read(f)
    \/ stream_clear_events

StreamSpec == StreamInit /\ [][StreamNext]_streamVars

-----------------------------------------------------------------------------
StreamTypeOK ==
    /\ slots \in [Slot -> Full \union {Empty}]
    /\ count \in 0 .. MaxEvents
    /\ live \in SUBSET Copy
    /\ view \in Seq(Event)

\* The slots below the counter hold exactly the copies that are allocated,
\* each once: no push frees a copy another slot still shows, leaks one, or
\* shows a freed one, also when the array is full and when it is cleared.
SlotsOwnLive ==
    /\ \A i \in 0 .. count - 1 : slots[i] \in Full
    /\ live = {slots[i].ptr : i \in 0 .. count - 1}
    /\ \A i, j \in 0 .. count - 1 : slots[i].ptr = slots[j].ptr => i = j

Recent == INSTANCE RecentLog WITH recent <- Queued

\* Shifting the array and dropping the last slot remembers the newest
\* MaxEvents events in order, and the encoding loop with its skips, its item
\* limit and its early stop answers with the longest matching prefix.
ImplementsRecentLog == Recent!Spec
=============================================================================
