----------------------------- MODULE CoreconfCli ----------------------------
(***************************************************************************)
(* The command-line client (iot_containers/iot_apps/coreconf_cli.c)        *)
(* against a lossy network and a server that may be slow, notify and       *)
(* restart.                                                                *)
(*                                                                         *)
(* One request is sent per command; the program then calls                 *)
(* coap_io_process until a response came or MaxWait calls have passed.     *)
(* response_handler runs inside those calls, for every message libcoap     *)
(* hands it, and never looks at the request a message answers.  At the     *)
(* prompt the program blocks in fgets, so what arrives then is handled in  *)
(* the next command's wait.                                                *)
(*                                                                         *)
(* Network and server are external: a message may be lost, delayed past    *)
(* the client's timeout and overtaken.  libcoap repeats a request that was *)
(* not acknowledged and drops a repeated response, so a request has one    *)
(* response at most.                                                       *)
(***************************************************************************)
EXTENDS Naturals, Sequences, FiniteSets

CONSTANTS
    Typeable,     \* bound of the model: the commands the user may type
    MaxWait,      \* calls of coap_io_process in a wait, 50 in the code
    MaxListen,    \* calls of it while observing, 10 per second in the code
    MaxRequests,  \* bound of the model: requests the client sends
    MaxInFlight   \* bound of the model: messages of a kind under way; the
                  \* network loses one more

ASSUME CliAssumption ==
    /\ MaxWait \in Nat /\ MaxListen \in Nat
    /\ MaxRequests \in Nat /\ MaxInFlight \in Nat

VARIABLES
    phase,                \* "start", "prompt", "wait", "listen" or "exited"
    op,                   \* the command that sent the last request
    req,                  \* how many requests were sent; names the last one
    waited,               \* calls of coap_io_process in this loop
    script,               \* what is left of the demo
    g_response_received,
    g_response,           \* code and payload buffer: the message last handled
    g_observe_mode,
    requests,             \* requests on their way to the server
    responses,            \* messages on their way to the client
    registered,           \* the request the server notifies for, or 0
    server_sids,          \* "ours" or "other": the server's SID dictionary
    was_ours,             \* history: the server has had our dictionary
    fresh,                \* history: a message was handled since the last request
    clean,                \* history: nothing was under way when it was sent
    reported              \* what the last command told the user

client == <<phase, op, req, waited, script, g_response_received, g_response,
            g_observe_mode, fresh, clean, reported>>
world == <<requests, responses, registered, server_sids, was_ours>>
vars == <<client, world>>

Command == {"store", "fetch", "sfetch", "get", "ipatch", "post", "put",
            "delete", "observe", "sidcheck"}

NoMessage == [req |-> 0, op |-> "none", kind |-> "none", body |-> "none"]
NoReport == [op |-> "none", req |-> 0, timeout |-> TRUE, clean |-> FALSE,
             msg |-> NoMessage]

Message == [req : 1 .. MaxRequests, op : Command, kind : {"answer", "note"},
            body : {"data", "ours", "other"}]

\* What a command may report.
Report == [op : Command \union {"none"}, req : 0 .. MaxRequests,
           timeout : BOOLEAN, clean : BOOLEAN,
           msg : Message \union {NoMessage}]

\* The network holds MaxInFlight messages of a kind.
With(net, m) == IF Cardinality(net \union {m}) <= MaxInFlight THEN net \union {m} ELSE net

-----------------------------------------------------------------------------
(***************************************************************************)
(* Sending and waiting.                                                    *)
(***************************************************************************)

\* Mutant: the flag of the last exchange is left standing.
KeptResponse == g_response' = NoMessage /\ UNCHANGED g_response_received

\* What every command does before it sends.
ResetResponse == g_response_received' = FALSE /\ g_response' = NoMessage

\* What a wait amounts to.
Outcome(o, r, c, answered, m) ==
    [op |-> o, req |-> r, timeout |-> ~answered, clean |-> c,
     msg |-> IF answered THEN m ELSE NoMessage]

\* Mutant: at start only another dictionary is fatal, silence is not.
SilenceAccepted(o, r, answered, body) ==
    IF o = "observe" /\ answered THEN "listen"
    ELSE IF r = 1 /\ answered /\ body # "ours" THEN "exited"
    ELSE "prompt"

\* Where a command goes after its wait: observe listens, a failed SID check
\* ends the program when it is the one main makes before the first prompt.
After(o, r, answered, body) ==
    IF o = "observe" /\ answered THEN "listen"
    ELSE IF r = 1 /\ ~(answered /\ body = "ours") THEN "exited"
    ELSE "prompt"

\* coap_send accepts the request, or fails and the command ends at once.
Run(o) ==
    /\ req < MaxRequests
    /\ req' = req + 1
    /\ op' = o
    /\ waited' = 0
    /\ fresh' = FALSE
    /\ clean' = (requests = {} /\ responses = {} /\ registered = 0)
    /\ ResetResponse
    /\ \/ /\ phase' = "wait"
          /\ reported' = NoReport
          /\ g_observe_mode' = (g_observe_mode \/ o = "observe")
          /\ requests' = With(requests, [req |-> req + 1, op |-> o])
       \/ /\ phase' = After(o, req + 1, FALSE, "none")
          /\ reported' = Outcome(o, req + 1, clean', FALSE, NoMessage)
          /\ g_observe_mode' = (g_observe_mode /\ o # "observe")
          /\ UNCHANGED requests
    /\ UNCHANGED <<responses, registered, server_sids, was_ours>>

\* The handler keeps whatever came, for whatever request.
response_handler(m) ==
    /\ phase \in {"wait", "listen"}
    /\ m \in responses
    /\ g_response' = m
    /\ g_response_received' = TRUE
    /\ fresh' = TRUE
    /\ responses' = responses \ {m}
    /\ UNCHANGED <<phase, op, req, waited, script, g_observe_mode, clean, reported,
                   requests, registered, server_sids, was_ours>>

\* Mutant: the calls are not counted.
poll_uncounted ==
    /\ phase = "wait" /\ ~g_response_received /\ waited < MaxWait
    /\ UNCHANGED vars

\* Mutant: the limit is off by one.
poll_past_limit ==
    /\ phase = "wait" /\ ~g_response_received /\ waited <= MaxWait
    /\ waited' = waited + 1
    /\ UNCHANGED <<world, phase, op, req, script, g_response_received, g_response,
                   g_observe_mode, fresh, clean, reported>>

\* One more call of coap_io_process that brought nothing.
poll ==
    /\ phase = "wait" /\ ~g_response_received /\ waited < MaxWait
    /\ waited' = waited + 1
    /\ UNCHANGED <<world, phase, op, req, script, g_response_received, g_response,
                   g_observe_mode, fresh, clean, reported>>

\* Mutant: the timeout is not told from an answer.
wait_always_answered ==
    /\ phase = "wait" /\ (g_response_received \/ waited = MaxWait)
    /\ reported' = Outcome(op, req, clean, TRUE, g_response)
    /\ phase' = After(op, req, g_response_received, g_response.body)
    /\ g_observe_mode' = IF op = "observe" THEN g_response_received ELSE g_observe_mode
    /\ waited' = 0
    /\ UNCHANGED <<world, op, req, script, g_response_received, g_response, fresh, clean>>

\* The loop ends with a response or with the timeout.
wait_ends ==
    /\ phase = "wait" /\ (g_response_received \/ waited = MaxWait)
    /\ reported' = Outcome(op, req, clean, g_response_received, g_response)
    /\ phase' = After(op, req, g_response_received, g_response.body)
    /\ g_observe_mode' = IF op = "observe" THEN g_response_received ELSE g_observe_mode
    /\ waited' = 0
    /\ UNCHANGED <<world, op, req, script, g_response_received, g_response, fresh, clean>>

\* The listening loop of observe.  It ends by itself; nobody tells the server.
listen ==
    /\ phase = "listen"
    /\ IF waited < MaxListen
         THEN waited' = waited + 1 /\ UNCHANGED <<phase, g_observe_mode>>
         ELSE waited' = 0 /\ phase' = "prompt" /\ g_observe_mode' = FALSE
    /\ UNCHANGED <<world, op, req, script, g_response_received, g_response, fresh,
                   clean, reported>>

-----------------------------------------------------------------------------
(***************************************************************************)
(* Commands.  One with wrong arguments prints its usage and changes        *)
(* nothing.                                                                *)
(***************************************************************************)

\* The user types a command.
Typed(o) ==
    /\ o \in Typeable
    /\ phase = "prompt" /\ script = <<>>
    /\ Run(o)
    /\ UNCHANGED script

cmd_store == Typed("store")
cmd_fetch == Typed("fetch")
cmd_sfetch == Typed("sfetch")
cmd_get == Typed("get")
cmd_ipatch == Typed("ipatch")
cmd_post == Typed("post")
cmd_put == Typed("put")
cmd_delete == Typed("delete")
cmd_observe == Typed("observe")

\* The check main makes before the prompt, and the command sidcheck, whose
\* result is ignored.
check_server_sid_compatibility ==
    \/ phase = "start" /\ Run("sidcheck") /\ UNCHANGED script
    \/ Typed("sidcheck")

DemoSteps == <<"store", "get", "fetch", "ipatch", "get">>

\* The demo runs its commands one after the other, answered or not.
cmd_demo ==
    /\ "demo" \in Typeable
    /\ phase = "prompt" /\ script = <<>>
    /\ req + Len(DemoSteps) <= MaxRequests
    /\ script' = DemoSteps
    /\ UNCHANGED <<world, phase, op, req, waited, g_response_received, g_response,
                   g_observe_mode, fresh, clean, reported>>

demo_step ==
    /\ phase = "prompt" /\ script # <<>>
    /\ Run(Head(script))
    /\ script' = Tail(script)

quit ==
    /\ phase = "prompt" /\ script = <<>>
    /\ phase' = "exited"
    /\ UNCHANGED <<world, op, req, waited, script, g_response_received, g_response,
                   g_observe_mode, fresh, clean, reported>>

-----------------------------------------------------------------------------
(***************************************************************************)
(* Server and network.                                                     *)
(***************************************************************************)

\* The server handles a request.
server_answers(m) ==
    /\ m \in requests
    /\ requests' = requests \ {m}
    /\ responses' = With(responses,
                         [req |-> m.req, op |-> m.op, kind |-> "answer",
                          body |-> IF m.op = "sidcheck" THEN server_sids ELSE "data"])
    /\ registered' = IF m.op = "observe" THEN m.req ELSE registered
    /\ UNCHANGED <<client, server_sids, was_ours>>

server_notifies ==
    /\ registered # 0
    /\ responses' = With(responses, [req |-> registered, op |-> "observe",
                                     kind |-> "note", body |-> "data"])
    /\ UNCHANGED <<client, requests, registered, server_sids, was_ours>>

\* The server drops the observer, or is started again, perhaps with another
\* dictionary.
server_forgets(sids) ==
    /\ registered' = 0
    /\ server_sids' = sids
    /\ was_ours' = (was_ours \/ sids = "ours")
    /\ UNCHANGED <<client, requests, responses>>

lose ==
    /\ \/ \E m \in requests : requests' = requests \ {m} /\ UNCHANGED responses
       \/ \E m \in responses : responses' = responses \ {m} /\ UNCHANGED requests
    /\ UNCHANGED <<client, registered, server_sids, was_ours>>

-----------------------------------------------------------------------------
Init ==
    /\ phase = "start" /\ op = "sidcheck" /\ req = 0 /\ waited = 0
    /\ script = <<>>
    /\ g_response_received = FALSE /\ g_response = NoMessage
    /\ g_observe_mode = FALSE
    /\ requests = {} /\ responses = {} /\ registered = 0
    /\ server_sids \in {"ours", "other"}
    /\ was_ours = (server_sids = "ours")
    /\ fresh = FALSE /\ clean = FALSE
    /\ reported = NoReport

\* What the program does without its user.
Proceed == poll \/ wait_ends \/ listen \/ demo_step

Environment ==
    \/ \E m \in requests : server_answers(m)
    \/ server_notifies
    \/ \E sids \in {"ours", "other"} : server_forgets(sids)
    \/ lose

Next ==
    \/ check_server_sid_compatibility
    \/ cmd_store \/ cmd_fetch \/ cmd_sfetch \/ cmd_get \/ cmd_ipatch
    \/ cmd_post \/ cmd_put \/ cmd_delete \/ cmd_observe \/ cmd_demo
    \/ quit
    \/ \E m \in responses : response_handler(m)
    \/ Proceed
    \/ Environment

Spec == Init /\ [][Next]_vars

\* coap_io_process returns within 100 ms, so the program's own loops go on.
FairSpec == Spec /\ WF_vars(Proceed)

-----------------------------------------------------------------------------
(***************************************************************************)
(* Properties.                                                             *)
(***************************************************************************)

TypeOK ==
    /\ phase \in {"start", "prompt", "wait", "listen", "exited"}
    /\ op \in Command
    /\ req \in 0 .. MaxRequests
    /\ waited \in 0 .. (IF phase = "listen" THEN MaxListen ELSE MaxWait)
    /\ script \in Seq(Command)
    /\ g_response_received \in BOOLEAN
    /\ g_response \in Message \union {NoMessage}
    /\ g_observe_mode \in BOOLEAN
    /\ requests \subseteq [req : 1 .. MaxRequests, op : Command]
    /\ responses \subseteq Message
    /\ registered \in 0 .. MaxRequests
    /\ server_sids \in {"ours", "other"}
    /\ was_ours \in BOOLEAN
    /\ fresh \in BOOLEAN
    /\ clean \in BOOLEAN
    /\ reported \in Report

\* A command that was sent when nothing of an earlier one was under way, no
\* observation included, reports the answer to its own request: the handler
\* may ignore what a message answers as long as commands do not overlap.
OwnAnswer ==
    reported.clean /\ ~reported.timeout => reported.msg.req = reported.req

\* Whatever a command reports as an answer was received while that command
\* ran: nothing is left over from the exchange before, a timeout or a
\* listening phase included.
FreshAnswer ==
    ~reported.timeout => reported.req = req /\ fresh

\* The client gets to its prompt only if the server has had the same SID
\* dictionary: silence, another dictionary and a failed send end it first.
CompatibleServer == phase \in {"prompt", "listen"} => was_ours

Idle == phase = "exited" \/ (phase = "prompt" /\ script = <<>>)

\* Every command comes back to the prompt, the five requests of the demo
\* included, whatever the network and the server do.
CommandsEnd == phase # "start" ~> Idle

\* The help text: get shows the full datastore.  Whatever the command get
\* reports is an answer to a get.
GetShowsDatastore ==
    reported.op = "get" /\ ~reported.timeout => reported.msg.op = "get"
=============================================================================
