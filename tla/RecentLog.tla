----------------------------- MODULE RecentLog ------------------------------
(***************************************************************************)
(* What the /s stream promises: it remembers the newest MaxEvents events   *)
(* in order, and an answer carries the newest events that match, without   *)
(* a gap, until the item limit or the buffer ends it.                      *)
(***************************************************************************)
EXTENDS StreamView

CONSTANTS
    Event,    \* what can be pushed
    Filter    \* the SID sets a FETCH /s may carry; {} stands for none

VARIABLES
    recent,   \* the remembered events, newest first
    view      \* the events of the last answer

vars == <<recent, view>>

Init == recent = <<>> /\ view = <<>>

Push(e) ==
    /\ recent' = IF Len(recent) = MaxEvents
                   THEN <<e>> \o SubSeq(recent, 1, MaxEvents - 1)
                   ELSE <<e>> \o recent
    /\ view' = view

Clear == recent' = <<>> /\ view' = view

\* Total length of a sequence of events.
Bytes(s) ==
    LET total[i \in 0 .. Len(s)] ==
          IF i = 0 THEN 0 ELSE total[i - 1] + s[i].len
    IN  total[Len(s)]

\* The events an answer to the filter may draw on, in their order.
Wanted(filter) ==
    LET kept[i \in 0 .. Len(recent)] ==
          IF i = 0 THEN <<>>
          ELSE IF filter = {} \/ Matches(recent[i], filter)
                 THEN Append(kept[i - 1], recent[i]) ELSE kept[i - 1]
    IN  kept[Len(recent)]

\* The answer is the longest prefix that both limits allow.
Read(filter) ==
    LET w == Wanted(filter)
        Fits(n) == n <= MaxItems /\ Bytes(SubSeq(w, 1, n)) <= BufferSize
    IN  \E n \in 0 .. Len(w) :
          /\ \A m \in 0 .. n : Fits(m)
          /\ n < Len(w) => ~Fits(n + 1)
          /\ view' = SubSeq(w, 1, n)
          /\ recent' = recent

Next ==
    \/ \E e \in Event : Push(e)
    \/ \E f \in Filter : Read(f)
    \/ Clear

Spec == Init /\ [][Next]_vars
=============================================================================
