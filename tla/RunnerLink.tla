------------------------------- MODULE RunnerLink -------------------------------
(***************************************************************************)
(* A host, the bridge and the runner backend behind it: the requests in    *)
(* the pipe, the task the bridge makes for each, the backend's coroutine   *)
(* that is awaited in it, and the answers in the pipe back.                *)
(*                                                                         *)
(* A task and the coroutine it awaits are one: the tasks of StdioBridge    *)
(* are the calls of RunnerBackend. What happens without an await between   *)
(* is one step here, a step of both modules: reading a frame is also the   *)
(* first step of the call, and the end of a call also writes its answer    *)
(* and releases the request.                                               *)
(***************************************************************************)
EXTENDS Integers, Sequences, FiniteSets

CONSTANTS CodecId, Features, RequiredFeatures, LocalLimits, Offers, RequestIds,
          RunnerIds, Invocations, Calls, MaxPendingCancels,
          Wanted,     \* the requests each call may be: [kind, key, id]
          Unwritable  \* the calls whose runner returns or raises what no reply can hold

VARIABLES configured, limits, negotiated, reader, activeIds, activeWork, task,  \* StdioBridge
          instance, cancelled, active, call,                                    \* RunnerBackend
          closed,   \* the host sends no more
          asked,    \* what each call is, once the host has sent it
          waiting,  \* the host's table: the call it waits for under each id
          got,      \* the answer each call has got
          input,    \* the calls whose frames are not read yet
          output    \* the answers the host has not read yet

bridgeVars  == <<configured, limits, negotiated, reader, activeIds, activeWork, task>>
backendVars == <<instance, cancelled, active, call>>
hostVars    == <<closed, asked, waiting, got>>
vars        == <<bridgeVars, backendVars, hostVars, input, output>>

Bridge == INSTANCE StdioBridge
            WITH Tasks <- Calls, HasResources <- FALSE, IsJsonl <- FALSE, ReplySize <- 0

Backend == INSTANCE RunnerBackend WITH MaxInstances <- 1

NoCall   == "no call"
NotAsked == [kind |-> "none"]
NoAnswer == [answer |-> "none"]

\* The requests a host may send, by kind; the other opcodes are in StdioBridge and Resources.
Requests == [kind : {"run", "cancel", "dispose"}, key : RunnerIds \X Invocations, id : RequestIds]

ASSUME LinkAssumption ==
  /\ MaxPendingCancels \in Nat \ {0}
  /\ RequiredFeatures \subseteq Features
  /\ \A l \in LocalLimits : l \in Bridge!Limits /\ Bridge!Valid(l)
  /\ \A h \in Offers : h \in Bridge!Hellos
  /\ NoCall \notin Calls
  /\ Wanted \in [Calls -> SUBSET Requests]
  /\ Unwritable \subseteq Calls

Outstanding == {c \in Calls : \E id \in RequestIds : waiting[id] = c}
BridgeKind(c) == IF asked[c].kind = "run" THEN "run" ELSE "management"
Management == {c \in Outstanding : BridgeKind(c) = "management"}

\* An answer carries the id of its request; `of` is history.
AnswerTo(c, answer) == [id |-> asked[c].id, answer |-> answer, of |-> c]

--------------------------------------------------------------------------------
(* The host. It uses an id again when it is answered, keeps to the places reserved for  *)
(* management requests, and waits for the acknowledgement of its hello.                 *)

Send(c, request) ==
  /\ negotiated /\ ~closed
  /\ asked[c] = NotAsked /\ waiting[request.id] = NoCall
  /\ request.kind = "run" \/ Cardinality(Management) < limits.reserved
  /\ asked' = [asked EXCEPT ![c] = [kind |-> request.kind, key |-> request.key,
                                    id |-> request.id, after |-> Outstanding]]
  /\ waiting' = [waiting EXCEPT ![request.id] = c]
  /\ input' = Append(input, c)
  /\ UNCHANGED <<bridgeVars, backendVars, closed, got, output>>

\* The answer is taken for the call that waits under its id.
Receive ==
  /\ output # <<>>
  /\ LET answer == Head(output)
     IN /\ got' = [c \in Calls |-> IF waiting[answer.id] = c THEN answer ELSE got[c]]
        /\ waiting' = [waiting EXCEPT ![answer.id] = NoCall]
  /\ output' = Tail(output)
  /\ UNCHANGED <<bridgeVars, backendVars, closed, asked, input>>

Close ==
  /\ ~closed /\ closed' = TRUE
  /\ UNCHANGED <<bridgeVars, backendVars, asked, waiting, got, input, output>>

--------------------------------------------------------------------------------
(* The bridge and the backend *)

Register(r) ==
  Backend!Register(r) /\ UNCHANGED <<bridgeVars, hostVars, input, output>>

\* The initialize request is read and answered before anything else is sent.
Connect(id, hello) ==
  /\ ~negotiated
  /\ Bridge!ReadInitialize(id, hello)
  /\ UNCHANGED <<backendVars, hostVars, input, output>>

\* _reserve refuses the frame, or dispatch hands it to the backend, which may refuse too.
FirstStep(c) ==
  \/ /\ asked[c].kind = "run"
     /\ \E leasesMatch \in BOOLEAN : Backend!RunBatch(c, asked[c].key, leasesMatch, FALSE)
  \/ asked[c].kind = "cancel"  /\ Backend!CancelRunner(c, asked[c].key)
  \/ asked[c].kind = "dispose" /\ Backend!DisposeRunner(c, asked[c].key)

ReadFrame(c) == input # <<>> /\ c = Head(input) /\ input' = Tail(input) /\ UNCHANGED hostVars

\* Wrong: the reader goes on with the frame it has refused
RefuseAndGoOn(c) ==
  /\ ReadFrame(c)
  /\ FirstStep(c)
  /\ Bridge!Refused(asked[c].id, BridgeKind(c))
  /\ task[c] = Bridge!Free
  /\ task' = [task EXCEPT ![c] = [id |-> asked[c].id, kind |-> BridgeKind(c)]]
  /\ output' = Append(output, AnswerTo(c, "refused"))
  /\ UNCHANGED <<configured, limits, negotiated, reader, activeIds, activeWork>>

Refuse(c) ==
  /\ ReadFrame(c)
  /\ Bridge!Refused(asked[c].id, BridgeKind(c))
  /\ Bridge!Reject(asked[c].id, BridgeKind(c))
  /\ output' = Append(output, AnswerTo(c, "refused"))
  /\ UNCHANGED backendVars

Take(c) ==
  /\ ReadFrame(c)
  /\ FirstStep(c)
  /\ IF call'[c].stage = "answered"
     THEN /\ reader = "reading" /\ ~Bridge!Refused(asked[c].id, BridgeKind(c))
          /\ output' = Append(output, AnswerTo(c, call'[c].answer))
          /\ UNCHANGED bridgeVars
     ELSE Bridge!Accept(c, asked[c].id, BridgeKind(c)) /\ UNCHANGED output

RunnerHears(c) ==
  Backend!RunnerHears(c) /\ UNCHANGED <<bridgeVars, hostVars, input, output>>

\* Wrong: a request that raises is never answered
UnansweredRaised(c, answer) == answer = "raised"

\* The task was cancelled (a runner may also catch the CancelledError and return or raise
\* something else), or the runner raised a RunnerInvokeError whose error is not JSON or is
\* over a limit: encoding the error reply raises too.
Unanswered(c, answer) == answer = "raised" /\ (reader = "cancelling" \/ c \in Unwritable)

\* An error is sent instead of a completion that cannot be written; cancel and dispose
\* return nothing.
Reply(c, answer) ==
  {answer} \cup (IF asked[c].kind = "run" /\ c \in Unwritable THEN {"raised"} ELSE {})

\* What the call awaits returns or raises, and _dispatch_and_write ends.
CallEnds(c, answer) ==
  /\ Backend!RunEnds(c, answer) \/ Backend!CancelEnds(c, answer) \/ Backend!DisposeEnds(c, answer)
  /\ Bridge!TaskEnds(c)
  /\ \/ \E reply \in Reply(c, answer) : output' = Append(output, AnswerTo(c, reply))
     \/ Unanswered(c, answer) /\ UNCHANGED output
  /\ UNCHANGED <<hostVars, input>>

\* The reader has come to the end of the input, or waits for the tasks that are left.
Shutdown ==
  /\ \/ closed /\ input = <<>> /\ Bridge!EndOfInput
     \/ Bridge!ShutdownTimeout
     \/ Bridge!Stop
  /\ UNCHANGED <<backendVars, hostVars, input, output>>

Init ==
  /\ Bridge!Init /\ Backend!Init
  /\ closed = FALSE
  /\ asked = [c \in Calls |-> NotAsked]
  /\ waiting = [id \in RequestIds |-> NoCall]
  /\ got = [c \in Calls |-> NoAnswer]
  /\ input = <<>> /\ output = <<>>

Next ==
  \/ \E r \in RunnerIds : Register(r)
  \/ \E id \in RequestIds, hello \in Offers : Connect(id, hello)
  \/ \E c \in Calls : \E request \in Wanted[c] : Send(c, request)
  \/ \E c \in Calls :
       \/ Refuse(c) \/ Take(c) \/ RunnerHears(c)
       \/ \E answer \in Backend!Endings : CallEnds(c, answer)
  \/ Receive \/ Close \/ Shutdown

\* A runner does what cancel asks of it, and ends a run that it was told to end; nothing
\* makes any other run end. The reader reads, the host reads.
Told(c) == call[c].stage = "running" /\ (call[c].heard \/ call[c].told)

Fairness ==
  /\ WF_vars(Receive)
  /\ \A c \in Calls :
       /\ WF_vars(Refuse(c) \/ Take(c))
       /\ WF_vars(RunnerHears(c))
       /\ WF_vars(call[c].stage = "cancelling" /\ \E answer \in Backend!Endings : CallEnds(c, answer))
       /\ WF_vars(call[c].stage = "disposing" /\ \E answer \in Backend!Endings : CallEnds(c, answer))
       /\ WF_vars(Told(c) /\ \E answer \in Backend!Endings : CallEnds(c, answer))

Spec == Init /\ [][Next]_vars /\ Fairness

--------------------------------------------------------------------------------
(* Properties *)

Queued(c)   == {i \in DOMAIN input : input[i] = c}
Answers(c)  == {i \in DOMAIN output : output[i].of = c}
Awaited     == {c \in Calls : call[c].stage \in {"running", "cancelling", "disposing"}}

\* The runner has raised what no reply can hold.
Unwritten(c) == c \in Unwritable /\ call[c].stage = "answered" /\ call[c].answer = "raised"

\* The bridge and the backend agree on what is being worked on. A request is in one place
\* on its way, and whatever is on its way is what the host waits for under its id; nothing
\* the host waits for goes missing before the bridge cancels its tasks, but a request whose
\* runner has raised an error that cannot be written.
Correlated ==
  /\ Bridge!Live = Awaited
  /\ \A c \in Calls :
       LET places == Cardinality(Queued(c)) + Cardinality(Answers(c)) + (IF c \in Awaited THEN 1 ELSE 0)
       IN /\ places <= 1
          /\ places = 1 => waiting[asked[c].id] = c
          /\ c \in Outstanding /\ places = 0 =>
               reader \in {"cancelling", "stopped"} \/ Unwritten(c)

\* The ids the host keeps apart and the places it keeps to are enough: whatever it has in the
\* pipe, the bridge will not take for a duplicate, and refuses none of it but runs.
OnlyRunsRefused ==
  \A c \in Calls :
    /\ Queued(c) # {} => ~Bridge!Duplicate(asked[c].id)
    /\ Queued(c) # {} /\ asked[c].kind # "run" => ~Bridge!Full(asked[c].id, "management")
    /\ got[c] # NoAnswer /\ got[c].answer = "refused" => asked[c].kind = "run"

\* The cancels of a run that were sent while it was outstanding.
CancelsSent(c) == {d \in Calls : /\ asked[c].kind = "run" /\ asked[d].kind = "cancel"
                                 /\ asked[d].key = asked[c].key /\ c \in asked[d].after}

\* A cancel that is sent while a run is outstanding ends it, however many other runs hold
\* the places of the bridge: the run is answered unless runner.cancel raises, the run itself
\* raises an error that cannot be written, or the host closes the input.
CancelledRunAnswered ==
  \A c \in Calls :
    CancelsSent(c) # {} ~> \/ got[c] # NoAnswer \/ closed \/ Unwritten(c)
                           \/ \E d \in CancelsSent(c) : call[d].answer = "raised"

\* What has become of a request, for the host.
Status(c) ==
  IF asked[c] = NotAsked THEN "new"
  ELSE IF got[c] # NoAnswer THEN IF got[c].of = c THEN "answered" ELSE "answered for another"
  ELSE IF Queued(c) # {} \/ Answers(c) # {} \/ c \in Awaited THEN "open" ELSE "lost"

Ledger == INSTANCE RequestLedger WITH status <- [c \in Calls |-> Status(c)]

\* The link implements the ledger: each request is answered once and with its own answer,
\* and while the input is open none is lost but one whose runner raised what cannot be written.
ImplementsLedger == Ledger!Spec
=================================================================================
