-------------------------- MODULE MCCoreconfServer --------------------------
(***************************************************************************)
(* SIDs 10, 12, 20 and 30 share bucket 0, SID 11 has bucket 1.  With       *)
(* MaxLoop = 1 a payload's third entry is not read and a bucket holds      *)
(* three SIDs, so the example datastore leaves no room for SID 12 until a  *)
(* patch deletes one of the others.                                        *)
(***************************************************************************)
EXTENDS ServerClaims, TLC

MCKey == {10, 11, 12, 20, 30}
MCHash == (10 :> 0) @@ (11 :> 1) @@ (12 :> 0) @@ (20 :> 0) @@ (30 :> 0)

Pair(k, v) == [key |-> k, value |-> v]
SidItem(s, v) == [kind |-> "sid", sid |-> s, key |-> "", value |-> v]
InstItem(s, k, v) == [kind |-> "inst", sid |-> s, key |-> k, value |-> v]
Skipped(s) == [kind |-> "skipped", sid |-> s, key |-> "", value |-> NullValue]
Mark(kind) == [kind |-> kind, sid |-> 0, key |-> "", value |-> NullValue]
Whole(items) == [kind |-> "map", items |-> items, closed |-> TRUE]
Cut(items) == [kind |-> "map", items |-> items, closed |-> FALSE]
Complete(items) == [items |-> <<Mark("map")>> \o items \o <<Mark("end")>>, closed |-> TRUE]
Streamed(items) == [items |-> <<Mark("map")>> \o items \o <<Mark("break")>>, closed |-> TRUE]
CutOff(items) == [items |-> <<Mark("map")>> \o items, closed |-> FALSE]

Clock == Container((1 :> "boot") @@ (2 :> "now"))
Eth0 == Container((1 :> "eth0"))
Eth0Up == Container((1 :> "eth0") @@ (2 :> "eth1"))
Eth1 == Container((1 :> "eth1"))

MCExample == <<Pair(10, Clock), Pair(20, List(<<Eth0>>)), Pair(30, Num("off"))>>

\* A text that ends the command's quote and begins it anew loses its quotes, one
\* that only ends it makes the command fail.
MCPasswordSet(text) ==
    CASE text = "p'2'" -> "p2" [] text = "p'3" -> NoPassword [] OTHER -> text

\* Complete, too long, cut off, a repeated key with a password, passwords with
\* quotes, a password that is no string, empty, and no map at all.
MCPayload == {
    Whole(<<Pair(20, List(<<Eth0, Eth1>>)), Pair(12, Text("a"))>>),
    Whole(<<Pair(10, Clock), Pair(12, Text("a")), Pair(30, Num("on"))>>),
    Cut(<<Pair(30, Num("on"))>>),
    Whole(<<Pair(11, Text("p1")), Pair(11, Text("p2"))>>),
    Whole(<<Pair(11, Text("p'2'"))>>),
    Whole(<<Pair(11, Text("p'3"))>>),
    Whole(<<Pair(11, Num("7"))>>),
    Whole(<<>>),
    [kind |-> "scalar"]}

\* Writing, deleting and refusing a SID; replacing, appending, deleting and
\* missing a list entry; a container for a list; several maps; a key that
\* ends the scan; a map that is cut off; a map as the key of a scalar, which
\* ends the scan, and of a map, which is scanned; a container with a member too
\* many; and an entry that is skipped before the break of its map.
MCPatch == {
    <<Complete(<<SidItem(30, Num("on")), SidItem(12, Text("a"))>>)>>,
    <<Complete(<<SidItem(30, NullValue)>>)>>,
    <<Complete(<<SidItem(12, Text("a"))>>), Complete(<<SidItem(30, NullValue)>>)>>,
    <<Complete(<<InstItem(20, "eth0", Eth0Up)>>)>>,
    <<Complete(<<InstItem(20, "eth1", Eth1)>>), Complete(<<SidItem(30, Num("on"))>>)>>,
    <<Complete(<<InstItem(20, "eth1", NullValue)>>)>>,
    <<Complete(<<SidItem(20, Eth1)>>)>>,
    <<Complete(<<Mark("other")>>), Complete(<<SidItem(10, NullValue)>>)>>,
    <<Complete(<<SidItem(10, NullValue)>>), CutOff(<<SidItem(11, Text("p1"))>>)>>,
    <<Complete(<<Mark("map"), SidItem(30, Num("on")), Mark("end"), Mark("other")>>),
      Complete(<<SidItem(10, NullValue)>>)>>,
    <<Complete(<<Mark("map"), SidItem(30, Num("on")), Mark("end"),
                 Mark("map"), SidItem(12, Text("a")), Mark("end")>>)>>,
    <<Complete(<<SidItem(10, Clock), SidItem(12, Text("a")), Mark("end"),
                 SidItem(30, NullValue)>>),
      Complete(<<SidItem(11, Text("p1"))>>)>>,
    <<Streamed(<<Skipped(20)>>), Complete(<<SidItem(30, NullValue)>>)>>}

MCIidList == {
    <<[kind |-> "sid", sid |-> 11], [kind |-> "inst", sid |-> 20, key |-> "eth1"]>>,
    <<[kind |-> "sid", sid |-> 10], [kind |-> "sid", sid |-> 20],
      [kind |-> "sid", sid |-> 12]>>,
    <<[kind |-> "other"], [kind |-> "sid", sid |-> 10]>>}

MCInvocation == {
    <<>>,
    <<[iid |-> "reboot", input |-> "null"], [iid |-> "reset", input |-> "reset-at"]>>,
    <<[iid |-> "reboot", input |-> "null"], [iid |-> "reset", input |-> "map"]>>,
    <<[iid |-> "other", input |-> "null"]>>,
    [i \in 1 .. 2 |-> [iid |-> "reset", input |-> "reset-at"]]}

\* No action reads resp, and what an action does to the datastore or the
\* password does not depend on the queue: states that differ only there are
\* explored once.
StoreView == <<store, password, Len(g_stream_events)>>

\* Requests for the observers' run: enough to queue one event and two at once,
\* of lengths that do not all fit one answer.
FewPayload == {Whole(<<Pair(30, Num("on"))>>)}
FewPatch == {<<Complete(<<SidItem(30, NullValue)>>), Complete(<<SidItem(10, Clock)>>)>>}

MCQuery == {{}, {30}}
MCStreamFilter == {{}, {30, 60010}}
=============================================================================
