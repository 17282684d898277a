----------------------------- MODULE StreamView -----------------------------
(***************************************************************************)
(* The reading side of the /s event stream of coreconf_server.c, as        *)
(* operators on the queued events, newest first.  An event is a record     *)
(* with at least                                                           *)
(*   sid   the SID that stream_wrap_notification_instance put around it,   *)
(*   len   its encoded length,                                             *)
(*   inner the SIDs inside its body that a filter sees besides sid: the    *)
(*         matcher resumes inside a body it cannot skip, so a body that    *)
(*         was cut off in transit exposes its own keys; {} otherwise.      *)
(***************************************************************************)
EXTENDS Naturals, Sequences

CONSTANTS
    MaxEvents,   \* STREAM_MAX_EVENTS, 16 in the code
    MaxItems,    \* events per answer, 8 in the code
    BufferSize   \* BUFFER_SIZE, 4096 in the code

ASSUME StreamAssumption ==
    /\ MaxEvents \in Nat \ {0}
    /\ MaxItems \in Nat \ {0}
    /\ BufferSize \in Nat

\* stream_event_matches_filter
Matches(e, filter) == e.sid \in filter \/ e.inner \cap filter # {}

\* One answer under construction: the bytes used, the events copied, and
\* whether the loop has stopped.
NothingYet == [used |-> 0, out |-> <<>>, stop |-> FALSE]

Copied(acc, e) ==
    [acc EXCEPT !.used = @ + e.len, !.out = Append(@, e)]

\* Mutant: an event that does not fit is skipped.
SkippingRound(acc, e, wanted) ==
    IF Len(acc.out) >= MaxItems \/ ~wanted \/ acc.used + e.len > BufferSize
      THEN acc ELSE Copied(acc, e)

\* One round of the loops of stream_encode_sequence and ..._filtered: stop
\* at the item limit or at the first event that does not fit, skip an event
\* the filter does not want, copy any other.
Round(acc, e, wanted) ==
    IF acc.stop \/ Len(acc.out) >= MaxItems THEN [acc EXCEPT !.stop = TRUE]
    ELSE IF ~wanted THEN acc
    ELSE IF acc.used + e.len > BufferSize THEN [acc EXCEPT !.stop = TRUE]
    ELSE Copied(acc, e)

\* stream_encode_sequence_filtered, and stream_encode_sequence for the
\* empty filter: the events an answer carries, in order.
Encoded(events, filter) ==
    LET after[i \in 0 .. Len(events)] ==
          IF i = 0 THEN NothingYet
          ELSE Round(after[i - 1], events[i],
                     filter = {} \/ Matches(events[i], filter))
    IN  after[Len(events)].out
=============================================================================
