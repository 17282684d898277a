-------------------------- MODULE CoreconfCliProofs -------------------------
(***************************************************************************)
(* Proofs about CoreconfCli, for any number of requests, any waiting times *)
(* and any commands.                                                       *)
(*                                                                         *)
(* What a command reports depends on what was under way when it was sent,  *)
(* so the invariants are strengthened by what the network may hold:        *)
(* after a clean start, only messages of the last request (OnlyOwn); and   *)
(* by how far the client can get before the server has shown the right     *)
(* dictionary (Checked).                                                   *)
(***************************************************************************)
EXTENDS CoreconfCli, TLAPS

OnlyOwn ==
    clean =>
      /\ \A m \in requests : m.req = req
      /\ \A m \in responses : m.req = req
      /\ registered \in {0, req}
      /\ g_response_received => g_response.req = req

Checked ==
    /\ server_sids = "ours" => was_ours
    /\ \A m \in responses : m.body = "ours" => was_ours
    /\ g_response.body = "ours" => was_ours
    /\ phase = "start" => req = 0
    /\ phase \in {"prompt", "wait", "listen"} => req # 0
    /\ phase = "wait" /\ req = 1 => op = "sidcheck"
    /\ phase = "wait" /\ req # 1 => was_ours

HandledNow == g_response_received => fresh

\* The inductive invariant.
IInv ==
    /\ TypeOK
    /\ OnlyOwn /\ OwnAnswer
    /\ HandledNow /\ FreshAnswer
    /\ Checked /\ CompatibleServer

\* What the network holds after one more message.
LEMMA WithSubset ==
    ASSUME NEW net, NEW m
    PROVE  /\ With(net, m) \subseteq net \union {m}
  BY DEF With

\* The types of the records that the client builds.
LEMMA Records ==
    ASSUME NEW o \in Command, NEW r \in 1 .. MaxRequests, NEW c \in BOOLEAN,
           NEW a \in BOOLEAN, NEW m \in Message \union {NoMessage}
    PROVE  /\ Outcome(o, r, c, a, m) \in Report
           /\ Outcome(o, r, c, a, m).req = r
           /\ Outcome(o, r, c, a, m).clean = c
           /\ Outcome(o, r, c, a, m).timeout = ~a
           /\ a => Outcome(o, r, c, a, m).msg = m
  BY CliAssumption DEF Outcome, Report

\* The record that stands for no report.
LEMMA EmptyReport ==
    /\ NoReport \in Report
    /\ NoReport.timeout = TRUE
    /\ NoMessage.body # "ours"
  BY CliAssumption DEF NoReport, NoMessage, Report

\* The first state.
LEMMA InitIInv == Init => IInv
  <1> SUFFICES ASSUME Init PROVE IInv
    OBVIOUS
  <1> USE EmptyReport, CliAssumption
  <1>1. TypeOK
    <2>1. was_ours \in BOOLEAN
      BY DEF Init
    <2>2. waited \in 0 .. (IF phase = "listen" THEN MaxListen ELSE MaxWait)
      BY DEF Init
    <2>3. /\ g_response \in Message \union {NoMessage}
          /\ requests \subseteq [req : 1 .. MaxRequests, op : Command]
          /\ responses \subseteq Message
      BY DEF Init
    <2>4. /\ reported \in Report
          /\ op \in Command /\ script \in Seq(Command)
      BY DEF Init, Command
    <2>5. /\ g_response_received \in BOOLEAN /\ g_observe_mode \in BOOLEAN
          /\ fresh \in BOOLEAN /\ clean \in BOOLEAN
          /\ server_sids \in {"ours", "other"}
          /\ phase \in {"start", "prompt", "wait", "listen", "exited"}
      BY DEF Init
    <2>6. req \in 0 .. MaxRequests /\ registered \in 0 .. MaxRequests
      BY DEF Init
    <2> QED
      BY <2>1, <2>2, <2>3, <2>4, <2>5, <2>6 DEF TypeOK
  <1>2. OnlyOwn /\ OwnAnswer /\ HandledNow /\ FreshAnswer
    BY DEF Init, OnlyOwn, OwnAnswer, HandledNow, FreshAnswer
  <1>3. Checked /\ CompatibleServer
    BY DEF Init, Checked, CompatibleServer
  <1> QED
    BY <1>1, <1>2, <1>3 DEF IInv

\* Where a command leads, by whether it was answered.
LEMMA AfterCases ==
    ASSUME NEW o, NEW r, NEW a \in BOOLEAN, NEW b
    PROVE  /\ After(o, r, a, b) \in {"listen", "exited", "prompt"}
           /\ After(o, r, a, b) = "listen" => o = "observe" /\ a
           /\ After(o, r, a, b) = "prompt" => r # 1 \/ (a /\ b = "ours")
  BY DEF After

\* Sending a request, from the start or from the prompt.
LEMMA RunIInv ==
    ASSUME IInv, NEW o \in Command, Run(o), script' \in Seq(Command),
           \/ phase = "prompt"
           \/ phase = "start" /\ o = "sidcheck"
    PROVE  IInv'
  <1> DEFINE m == [req |-> req + 1, op |-> o]
  <1> USE CliAssumption
  <1>1. req \in 0 .. MaxRequests /\ req + 1 \in 1 .. MaxRequests /\ clean' \in BOOLEAN
    BY DEF IInv, TypeOK, Run
  <1>2. m \in [req : 1 .. MaxRequests, op : Command] /\ m.req = req + 1
    BY <1>1
  <1>3. requests' \subseteq requests \union {m}
    <2>1. With(requests, m) \subseteq requests \union {m}
      BY WithSubset
    <2>2. requests' = With(requests, m) \/ requests' = requests
      BY DEF Run
    <2> QED
      BY <2>1, <2>2
  <1>4. NoMessage \in Message \union {NoMessage}
    OBVIOUS
  <1> DEFINE out == Outcome(o, req + 1, clean', FALSE, NoMessage)
  <1>5. /\ out \in Report
        /\ out.timeout = TRUE
    BY <1>1, <1>4, Records
  <1>6. reported' \in {NoReport, out}
    BY DEF Run
  <1>7. reported'.timeout = TRUE
    BY <1>5, <1>6, EmptyReport
  <1>8. \/ phase' = "wait"
        \/ phase' = After(o, req + 1, FALSE, "none")
    BY DEF Run
  <1>9. /\ phase' \in {"wait", "exited", "prompt"}
        /\ phase' = "prompt" => req + 1 # 1
    <2>1. /\ After(o, req + 1, FALSE, "none") \in {"listen", "exited", "prompt"}
          /\ After(o, req + 1, FALSE, "none") # "listen"
          /\ After(o, req + 1, FALSE, "none") = "prompt" => req + 1 # 1
      BY DEF After
    <2> QED
      BY <1>8, <2>1
  <1>10. TypeOK'
    <2>1. requests' \subseteq [req : 1 .. MaxRequests, op : Command]
      BY <1>2, <1>3 DEF IInv, TypeOK
    <2>2. g_observe_mode' \in BOOLEAN
      BY DEF Run
    <2>3. waited' \in 0 .. (IF phase' = "listen" THEN MaxListen ELSE MaxWait)
      BY DEF Run
    <2>4. /\ reported' \in Report
          /\ phase' \in {"start", "prompt", "wait", "listen", "exited"}
      BY <1>5, <1>6, <1>9, EmptyReport
    <2>5. req' \in 0 .. MaxRequests
      BY <1>1 DEF Run
    <2>7. /\ op' \in Command
          /\ g_response_received' = FALSE /\ fresh' = FALSE
          /\ g_response' = NoMessage
      BY DEF Run, ResetResponse
    <2>6. UNCHANGED <<responses, registered, server_sids, was_ours>>
      BY DEF Run
    <2> QED
      BY <2>1, <2>2, <2>3, <2>4, <2>5, <2>6, <2>7, <1>1 DEF IInv, TypeOK
  <1>11. OnlyOwn'
    BY <1>2, <1>3 DEF OnlyOwn, Run, ResetResponse
  <1>12. OwnAnswer' /\ HandledNow' /\ FreshAnswer'
    BY <1>7 DEF OwnAnswer, HandledNow, FreshAnswer, Run, ResetResponse
  <1>13. was_ours' = was_ours /\ (phase = "prompt" => was_ours /\ req # 0) /\ (phase = "start" => req = 0)
    BY DEF IInv, CompatibleServer, Checked, Run
  <1>14. Checked'
    BY <1>1, <1>9, <1>13, EmptyReport DEF IInv, Checked, Run, ResetResponse
  <1>15. CompatibleServer'
    BY <1>1, <1>9, <1>13 DEF CompatibleServer
  <1> QED
    BY <1>10, <1>11, <1>12, <1>14, <1>15 DEF IInv

\* Every step keeps the invariant.
LEMMA StepIInv == IInv /\ [Next]_vars => IInv'
  <1> SUFFICES ASSUME IInv, [Next]_vars PROVE IInv'
    OBVIOUS
  <1> USE CliAssumption
  <1>1. ASSUME NEW o \in Command, Typed(o) PROVE IInv'
    BY <1>1, RunIInv DEF Typed, IInv, TypeOK
  <1>2. CASE check_server_sid_compatibility
    <2>1. "sidcheck" \in Command
      BY DEF Command
    <2>2. CASE Typed("sidcheck")
      BY <2>1, <2>2, <1>1
    <2>3. CASE phase = "start" /\ Run("sidcheck") /\ UNCHANGED script
      BY <2>1, <2>3, RunIInv DEF IInv, TypeOK
    <2> QED
      BY <1>2, <2>2, <2>3 DEF check_server_sid_compatibility
  <1>3. CASE \/ cmd_store \/ cmd_fetch \/ cmd_sfetch \/ cmd_get \/ cmd_ipatch
             \/ cmd_post \/ cmd_put \/ cmd_delete \/ cmd_observe
    BY <1>3, <1>1 DEF cmd_store, cmd_fetch, cmd_sfetch, cmd_get, cmd_ipatch,
         cmd_post, cmd_put, cmd_delete, cmd_observe, Command
  <1>4. CASE cmd_demo
    <2>1. TypeOK'
      BY <1>4 DEF IInv, TypeOK, cmd_demo, DemoSteps, Command, world
    <2> QED
      BY <1>4, <2>1 DEF IInv, cmd_demo, world, OnlyOwn, OwnAnswer, HandledNow,
           FreshAnswer, Checked, CompatibleServer
  <1>5. CASE quit
    <2>1. TypeOK'
      BY <1>5 DEF IInv, TypeOK, quit, world
    <2> QED
      BY <1>5, <2>1 DEF IInv, quit, world, OnlyOwn, OwnAnswer, HandledNow,
           FreshAnswer, Checked, CompatibleServer
  <1>6. CASE \E m \in responses : response_handler(m)
    <2> PICK m \in responses : response_handler(m)
      BY <1>6
    <2>1. TypeOK'
      BY DEF IInv, TypeOK, response_handler
    <2>2. OnlyOwn' /\ OwnAnswer' /\ HandledNow' /\ FreshAnswer'
      BY DEF IInv, response_handler, OnlyOwn, OwnAnswer, HandledNow, FreshAnswer
    <2>3. Checked' /\ CompatibleServer'
      BY DEF IInv, response_handler, Checked, CompatibleServer
    <2> QED
      BY <2>1, <2>2, <2>3 DEF IInv
  <1>7. CASE poll
    <2>1. TypeOK'
      BY <1>7 DEF IInv, TypeOK, poll, world
    <2> QED
      BY <1>7, <2>1 DEF IInv, poll, world, OnlyOwn, OwnAnswer, HandledNow,
           FreshAnswer, Checked, CompatibleServer
  <1>8. CASE wait_ends
    <2> DEFINE out == Outcome(op, req, clean, g_response_received, g_response)
    <2>1. /\ req \in 1 .. MaxRequests /\ op \in Command /\ clean \in BOOLEAN
          /\ g_response_received \in BOOLEAN
          /\ g_response \in Message \union {NoMessage}
      BY <1>8 DEF IInv, TypeOK, Checked, wait_ends
    <2>2. /\ out \in Report
          /\ out.req = req /\ out.clean = clean
          /\ out.timeout = ~g_response_received
          /\ g_response_received => out.msg = g_response
      BY <2>1, Records
    <2>3. /\ phase' \in {"listen", "exited", "prompt"}
          /\ phase' = "listen" => op = "observe"
          /\ phase' = "prompt" => req # 1 \/ g_response.body = "ours"
      BY <1>8, <2>1, AfterCases DEF wait_ends
    <2>4. reported' = out
      BY <1>8 DEF wait_ends
    <2>5. g_observe_mode' \in BOOLEAN
      BY <1>8, <2>1 DEF wait_ends, IInv, TypeOK
    <2>6. TypeOK'
      BY <1>8, <2>2, <2>3, <2>4, <2>5 DEF IInv, TypeOK, wait_ends, world
    <2>7. OnlyOwn' /\ HandledNow'
      BY <1>8 DEF IInv, wait_ends, world, OnlyOwn, HandledNow
    <2>8. OwnAnswer' /\ FreshAnswer'
      BY <1>8, <2>2, <2>4 DEF IInv, wait_ends, world, OnlyOwn, HandledNow,
           OwnAnswer, FreshAnswer
    <2>9. Checked' /\ CompatibleServer'
      BY <1>8, <2>3 DEF IInv, wait_ends, world, Checked, CompatibleServer
    <2> QED
      BY <2>6, <2>7, <2>8, <2>9 DEF IInv
  <1>9. CASE listen
    <2>1. TypeOK'
      <3>1. waited' \in 0 .. (IF phase' = "listen" THEN MaxListen ELSE MaxWait)
        BY <1>9 DEF IInv, TypeOK, listen
      <3>2. phase' \in {"listen", "prompt"} /\ g_observe_mode' \in BOOLEAN
        BY <1>9 DEF IInv, TypeOK, listen
      <3> QED
        BY <1>9, <3>1, <3>2 DEF IInv, TypeOK, listen, world
    <2> QED
      BY <1>9, <2>1 DEF IInv, listen, world, OnlyOwn, OwnAnswer, HandledNow,
           FreshAnswer, Checked, CompatibleServer
  <1>10. CASE demo_step
    <2>1. Head(script) \in Command /\ Tail(script) \in Seq(Command)
      BY <1>10 DEF demo_step, IInv, TypeOK
    <2> QED
      BY <1>10, <2>1, RunIInv DEF demo_step
  <1>11. CASE \E m \in requests : server_answers(m)
    <2> PICK m \in requests : server_answers(m)
      BY <1>11
    <2> DEFINE a == [req |-> m.req, op |-> m.op, kind |-> "answer",
                     body |-> IF m.op = "sidcheck" THEN server_sids ELSE "data"]
    <2>1. m \in [req : 1 .. MaxRequests, op : Command] /\ m.req \in 0 .. MaxRequests
      BY DEF IInv, TypeOK
    <2>2. /\ a \in Message /\ a.req = m.req
          /\ a.body = "ours" => server_sids = "ours"
      BY <2>1 DEF IInv, TypeOK, Message
    <2>3. responses' \subseteq responses \union {a}
      BY WithSubset DEF server_answers
    <2>4. TypeOK'
      BY <2>1, <2>2, <2>3 DEF IInv, TypeOK, server_answers, client
    <2>5. OnlyOwn' /\ OwnAnswer' /\ HandledNow' /\ FreshAnswer'
      BY <2>2, <2>3 DEF IInv, server_answers, client, OnlyOwn, OwnAnswer,
           HandledNow, FreshAnswer
    <2>6. Checked' /\ CompatibleServer'
      BY <2>2, <2>3 DEF IInv, server_answers, client, Checked, CompatibleServer
    <2> QED
      BY <2>4, <2>5, <2>6 DEF IInv
  <1>12. CASE server_notifies
    <2> DEFINE n == [req |-> registered, op |-> "observe", kind |-> "note",
                     body |-> "data"]
    <2>1. n \in Message /\ n.req = registered /\ n.body # "ours"
      BY <1>12 DEF IInv, TypeOK, Message, Command, server_notifies
    <2>2. responses' \subseteq responses \union {n}
      BY <1>12, WithSubset DEF server_notifies
    <2>3. TypeOK'
      BY <1>12, <2>1, <2>2 DEF IInv, TypeOK, server_notifies, client
    <2>4. OnlyOwn' /\ OwnAnswer' /\ HandledNow' /\ FreshAnswer'
      BY <1>12, <2>1, <2>2 DEF IInv, server_notifies, client, OnlyOwn, OwnAnswer,
           HandledNow, FreshAnswer
    <2>5. Checked' /\ CompatibleServer'
      BY <1>12, <2>1, <2>2 DEF IInv, server_notifies, client, Checked, CompatibleServer
    <2> QED
      BY <2>3, <2>4, <2>5 DEF IInv
  <1>13. CASE \E sids \in {"ours", "other"} : server_forgets(sids)
    <2> PICK sids \in {"ours", "other"} : server_forgets(sids)
      BY <1>13
    <2>1. was_ours' \in BOOLEAN /\ (was_ours => was_ours') /\ (sids = "ours" => was_ours')
      BY DEF server_forgets, IInv, TypeOK
    <2>2. TypeOK'
      BY <2>1 DEF IInv, TypeOK, server_forgets, client
    <2>3. OnlyOwn' /\ OwnAnswer' /\ HandledNow' /\ FreshAnswer'
      BY DEF IInv, server_forgets, client, OnlyOwn, OwnAnswer, HandledNow, FreshAnswer
    <2>4. Checked' /\ CompatibleServer'
      BY <2>1 DEF IInv, server_forgets, client, Checked, CompatibleServer
    <2> QED
      BY <2>2, <2>3, <2>4 DEF IInv
  <1>14. CASE lose
    <2>1. requests' \subseteq requests /\ responses' \subseteq responses
      BY <1>14 DEF lose
    <2>2. TypeOK'
      BY <1>14, <2>1 DEF IInv, TypeOK, lose, client
    <2>3. OnlyOwn' /\ OwnAnswer' /\ HandledNow' /\ FreshAnswer'
      BY <1>14, <2>1 DEF IInv, lose, client, OnlyOwn, OwnAnswer, HandledNow, FreshAnswer
    <2>4. Checked' /\ CompatibleServer'
      BY <1>14, <2>1 DEF IInv, lose, client, Checked, CompatibleServer
    <2> QED
      BY <2>2, <2>3, <2>4 DEF IInv
  <1>15. CASE UNCHANGED vars
    <2>1. TypeOK'
      BY <1>15 DEF IInv, TypeOK, vars, client, world
    <2> QED
      BY <1>15, <2>1 DEF IInv, vars, client, world, OnlyOwn, OwnAnswer, HandledNow,
           FreshAnswer, Checked, CompatibleServer
  <1> QED
    BY <1>2, <1>3, <1>4, <1>5, <1>6, <1>7, <1>8, <1>9, <1>10, <1>11, <1>12, <1>13,
       <1>14, <1>15 DEF Next, Proceed, Environment

\* The invariant holds in every behaviour.
LEMMA AlwaysIInv == Spec => []IInv
  BY InitIInv, StepIInv, PTL DEF Spec

\* The client's globals, its phases and what the network holds keep their
\* types.
THEOREM TypeCorrect == Spec => []TypeOK
  <1>1. IInv => TypeOK
    BY DEF IInv
  <1> QED
    BY <1>1, AlwaysIInv, PTL

\* A command that was sent when nothing else was under way reports the answer
\* to its own request, though response_handler never looks: for any number of
\* requests, any delays, losses and notifications.
THEOREM AlwaysOwnAnswer == Spec => []OwnAnswer
  <1>1. IInv => OwnAnswer
    BY DEF IInv
  <1> QED
    BY <1>1, AlwaysIInv, PTL

\* send_and_wait never reports what an earlier exchange left in the globals.
THEOREM AlwaysFreshAnswer == Spec => []FreshAnswer
  <1>1. IInv => FreshAnswer
    BY DEF IInv
  <1> QED
    BY <1>1, AlwaysIInv, PTL

\* main reaches its prompt only with a server that has had the same SID
\* dictionary.
THEOREM AlwaysCompatibleServer == Spec => []CompatibleServer
  <1>1. IInv => CompatibleServer
    BY DEF IInv
  <1> QED
    BY <1>1, AlwaysIInv, PTL
=============================================================================
