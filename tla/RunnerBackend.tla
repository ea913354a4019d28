--------------------------- MODULE RunnerBackend ---------------------------
(***************************************************************************)
(* PythonRunnerBackend: the registry of runners and the bookkeeping that   *)
(* ties runner.cancel and runner.dispose to the invocations of             *)
(* runner.run_batch.  Every call of the three methods is a coroutine of    *)
(* one event loop: it runs without interruption up to its await of the     *)
(* runner, and other calls run while it waits there.                       *)
(***************************************************************************)
EXTENDS Naturals, FiniteSets

CONSTANTS
  RunnerIds,          \* the runner ids a request may name
  Invocations,        \* the invocation ids Core hands out
  Calls,              \* the method calls the host makes, each one once
  MaxPendingCancels,  \* max_pending_cancels of the constructor
  MaxInstances        \* how often register_runner is called for one id

ASSUME BackendAssumption ==
  /\ MaxPendingCancels \in Nat \ {0}
  /\ MaxInstances \in Nat \ {0}

VARIABLES
  instance,    \* _runners: the number of the runner registered last, 0 if none
  cancelled,   \* _cancelled_invocations
  active,      \* _active_invocations
  call         \* the coroutine frame of each call

vars == <<instance, cancelled, active, call>>

Keys == RunnerIds \X Invocations
NoKey == <<>>

(***************************************************************************)
(* A frame.  impl is the runner object the call looked up, told the        *)
(* cancel_requested flag a run was started with, heard whether a run's     *)
(* runner had runner.cancel called for it (for a cancel: whether its       *)
(* runner.cancel took effect).  asked is the flag the request carried;     *)
(* latched and aimed are history: a cancel accepted for no live run and    *)
(* not consumed since, and the live runs an accepted cancel was meant for. *)
(***************************************************************************)
Stages == {"idle", "running", "cancelling", "disposing", "answered"}
Refusals == {"claim_conflict", "not_found", "exhausted"}
Answers == {"none", "ok", "raised"} \cup Refusals

Frames == [stage : Stages, key : Keys \cup {NoKey}, impl : 0..MaxInstances,
           asked : BOOLEAN, told : BOOLEAN, heard : BOOLEAN,
           latched : BOOLEAN, aimed : SUBSET Calls, answer : Answers]

NewFrame == [stage |-> "idle", key |-> NoKey, impl |-> 0,
             asked |-> FALSE, told |-> FALSE, heard |-> FALSE,
             latched |-> FALSE, aimed |-> {}, answer |-> "none"]

Running == {c \in Calls : call[c].stage = "running"}
RunsOf(k) == {c \in Running : call[c].key = k}
Latched == {c \in Calls : call[c].latched}

(* The keys of the runners the registry knows.                             *)
KnownKeys == {k \in Keys : instance[k[1]] > 0}

Init ==
  /\ instance = [r \in RunnerIds |-> 0]
  /\ cancelled = {}
  /\ active = {}
  /\ call = [c \in Calls |-> NewFrame]

-----------------------------------------------------------------------------
(***************************************************************************)
(* Wrong variants of the operators below, each a bug the code could have.  *)
(* No action uses them; substituting one for the operator it is named in   *)
(* its comment shows that a property can fail.                             *)
(***************************************************************************)
UnknownNever(r) == FALSE                             \* Unknown
ConflictLeasesOnly(k, leasesMatch) == ~leasesMatch   \* Conflict
ExhaustedOneLate(k) ==                               \* CancelExhausted
  k \notin active \cup cancelled /\ Cardinality(cancelled) > MaxPendingCancels
RememberedAlways(k) == cancelled \cup {k}            \* Remembered
ClaimDiscardsFirst(k, leasesMatch) == cancelled \ {k} \* PendingAfterClaim
DisposeForgetsAll(r) == {}                           \* PendingAfterDispose
CancelNotAwaited(c, answer) ==                       \* CancelEnds
  /\ call[c].stage = "cancelling"
  /\ call' = [call EXCEPT ![c].stage = "answered", ![c].answer = answer]
  /\ UNCHANGED <<instance, cancelled, active>>

-----------------------------------------------------------------------------
(* register_runner: a second registration of an id replaces the runner.    *)
Register(r) ==
  /\ instance[r] < MaxInstances
  /\ instance' = [instance EXCEPT ![r] = @ + 1]
  /\ UNCHANGED <<cancelled, active, call>>

(* _runner finds nothing under that id. *)
Unknown(r) == instance[r] = 0

(* The call is over: of its frame only the answer is left. *)
Answer(c, answer) ==
  call' = [call EXCEPT ![c] =
             [NewFrame EXCEPT !.stage = "answered", !.answer = answer]]

(* The two claims run_batch_runner refuses: leases other than the context's, *)
(* and an invocation that is already running.                               *)
Conflict(k, leasesMatch) == ~leasesMatch \/ k \in active

(* A run that is not refused for a conflict uses up its remembered cancel.  *)
PendingAfterClaim(k, leasesMatch) ==
  IF Conflict(k, leasesMatch) THEN cancelled ELSE cancelled \ {k}

(***************************************************************************)
(* run_batch_runner up to its await.  leasesMatch: batch.task_leases are   *)
(* ctx.task_lease_ids; asked: ctx.cancel_requested.                        *)
(***************************************************************************)
RunBatch(c, k, leasesMatch, asked) ==
  /\ call[c].stage = "idle"
  /\ cancelled' = PendingAfterClaim(k, leasesMatch)
  /\ \/ /\ Conflict(k, leasesMatch)
        /\ Answer(c, "claim_conflict")
        /\ UNCHANGED active
     \/ /\ ~Conflict(k, leasesMatch) /\ Unknown(k[1])
        /\ Answer(c, "not_found")
        /\ UNCHANGED active
     \/ /\ ~Conflict(k, leasesMatch) /\ ~Unknown(k[1])
        /\ active' = active \cup {k}
        /\ call' = [d \in Calls |->
             IF d = c
             THEN [NewFrame EXCEPT !.stage = "running", !.key = k,
                                   !.impl = instance[k[1]], !.asked = asked,
                                   !.told = asked \/ k \in cancelled]
             ELSE [call[d] EXCEPT !.latched = @ /\ call[d].key # k]]
  /\ UNCHANGED instance

(* The awaited runner.run_batch returns or raises; the finally clause      *)
(* unmarks the invocation.                                                 *)
RunEnds(c, answer) ==
  /\ call[c].stage = "running"
  /\ active' = active \ {call[c].key}
  /\ Answer(c, answer)
  /\ UNCHANGED <<instance, cancelled>>

(* No slot is left to remember the cancel of an invocation not running.    *)
CancelExhausted(k) ==
  k \notin active \cup cancelled /\ Cardinality(cancelled) >= MaxPendingCancels

(* Only the cancel of an invocation that is not running is remembered.     *)
Remembered(k) == IF k \in active THEN cancelled ELSE cancelled \cup {k}

(* cancel_runner up to its await. *)
CancelRunner(c, k) ==
  /\ call[c].stage = "idle"
  /\ \/ /\ Unknown(k[1])
        /\ Answer(c, "not_found")
        /\ UNCHANGED cancelled
     \/ /\ ~Unknown(k[1]) /\ CancelExhausted(k)
        /\ Answer(c, "exhausted")
        /\ UNCHANGED cancelled
     \/ /\ ~Unknown(k[1]) /\ ~CancelExhausted(k)
        /\ cancelled' = Remembered(k)
        /\ call' = [call EXCEPT ![c] =
             [NewFrame EXCEPT !.stage = "cancelling", !.key = k,
                              !.impl = instance[k[1]],
                              !.latched = RunsOf(k) = {}, !.aimed = RunsOf(k)]]
  /\ UNCHANGED <<instance, active>>

(* runner.cancel takes effect: the runner object it was called on tells    *)
(* its run of that invocation.                                             *)
RunnerHears(c) ==
  /\ call[c].stage = "cancelling"
  /\ ~call[c].heard
  /\ call' = [d \in Calls |->
       [call[d] EXCEPT !.heard =
          \/ @
          \/ d = c
          \/ d \in RunsOf(call[c].key) /\ call[d].impl = call[c].impl]]
  /\ UNCHANGED <<instance, cancelled, active>>

(* The awaited runner.cancel returns, its effect done, or it raises, with  *)
(* its effect done or not.  The history of the cancel stays in the frame.  *)
CancelEnds(c, answer) ==
  /\ call[c].stage = "cancelling"
  /\ answer = "ok" => call[c].heard
  /\ call' = [call EXCEPT ![c].stage = "answered", ![c].answer = answer]
  /\ UNCHANGED <<instance, cancelled, active>>

(* The runner's own remembered cancels go with it. *)
PendingAfterDispose(r) == {i \in cancelled : i[1] # r}

(* dispose_runner up to its await. *)
DisposeRunner(c, k) ==
  /\ call[c].stage = "idle"
  /\ \/ /\ Unknown(k[1])
        /\ Answer(c, "not_found")
        /\ UNCHANGED cancelled
     \/ /\ ~Unknown(k[1])
        /\ cancelled' = PendingAfterDispose(k[1])
        /\ call' = [d \in Calls |->
             IF d = c
             THEN [NewFrame EXCEPT !.stage = "disposing", !.key = k,
                                   !.impl = instance[k[1]]]
             ELSE [call[d] EXCEPT !.latched = @ /\ call[d].key[1] # k[1]]]
  /\ UNCHANGED <<instance, active>>

(* The awaited runner.dispose returns or raises. *)
DisposeEnds(c, answer) ==
  /\ call[c].stage = "disposing"
  /\ Answer(c, answer)
  /\ UNCHANGED <<instance, cancelled, active>>

(* How an awaited method of a runner ends; a CancelledError that tears the *)
(* call down at shutdown is one of the things it may raise.                *)
Endings == {"ok", "raised"}

Next ==
  \/ \E r \in RunnerIds : Register(r)
  \/ \E c \in Calls, k \in Keys :
       \/ \E leasesMatch, asked \in BOOLEAN : RunBatch(c, k, leasesMatch, asked)
       \/ CancelRunner(c, k)
       \/ DisposeRunner(c, k)
  \/ \E c \in Calls :
       \/ RunnerHears(c)
       \/ \E answer \in Endings :
            RunEnds(c, answer) \/ CancelEnds(c, answer) \/ DisposeEnds(c, answer)

Spec == Init /\ [][Next]_vars

-----------------------------------------------------------------------------
(* The type of the state.  A cancel is remembered only for a runner the    *)
(* registry knows: run_batch_runner discards one before it looks the       *)
(* runner up, and this is why none is lost when the look-up fails.         *)
TypeOK ==
  /\ instance \in [RunnerIds -> 0..MaxInstances]
  /\ cancelled \in SUBSET KnownKeys
  /\ active \in SUBSET KnownKeys
  /\ call \in [Calls -> Frames]

(* The invocations marked active are exactly those with a live run, and no *)
(* invocation ever has two: the refusal of a duplicate leaves the mark of  *)
(* the run it collides with, whichever of them ends first.                 *)
ActiveMarksLiveRuns ==
  /\ active = {call[c].key : c \in Running}
  /\ \A c, d \in Running : call[c].key = call[d].key => c = d

(* Remembered cancels never exceed max_pending_cancels, and none is        *)
(* remembered for an invocation while it runs, where it would outlive the  *)
(* run it was meant for.                                                   *)
PendingBounded ==
  /\ Cardinality(cancelled) <= MaxPendingCancels
  /\ cancelled \cap active = {}

(* No accepted cancel is lost and none is invented: the remembered         *)
(* invocations are those with a cancel accepted before any run, neither    *)
(* handed to a run nor dropped by a dispose of that very runner since.     *)
PendingIsLatched == cancelled = {call[c].key : c \in Latched}

Starts(c) == call[c].stage = "idle" /\ call'[c].stage = "running"

(* A run starts with cancel_requested exactly when its own context says so *)
(* or a cancel of this runner's invocation was accepted before it and not  *)
(* consumed: neither a cancel of another runner nor a stale one counts.    *)
RunSeesExactlyItsCancels ==
  [][\A c \in Calls : Starts(c) =>
       (call'[c].told <=> \/ call'[c].asked
                          \/ \E d \in Latched : call[d].key = call'[c].key)]_vars

(* A request refused with an error before it reaches a runner leaves the   *)
(* bookkeeping as it found it, so that repeating it later is safe.         *)
RefusalsChangeNothing ==
  [][\A c \in Calls :
       call[c].stage = "idle" /\ call'[c].answer \in Refusals
         => UNCHANGED <<instance, cancelled, active>>]_vars

(* A cancel answered with success has reached the run that was live when   *)
(* it was accepted, unless that run has ended or register_runner has put   *)
(* another object in the place of the runner that executes it.             *)
AnsweredCancelReachedRun ==
  \A c \in Calls : call[c].answer = "ok" =>
    \A d \in call[c].aimed :
      \/ call[d].heard
      \/ call[d].stage = "answered"
      \/ call[d].impl # call[c].impl

-----------------------------------------------------------------------------
(* What the frames of the calls look like between two steps. *)
FramesOK ==
  \A c \in Calls :
    /\ call[c].stage \in {"running", "cancelling", "disposing"}
         => call[c].key \in KnownKeys
    /\ call[c].latched => call[c].key \in Keys
    /\ call[c].latched \/ call[c].aimed # {}
         => call[c].stage \in {"cancelling", "answered"}
    /\ call[c].stage = "idle" => call[c] = NewFrame

(* The run a cancel is aimed at is the one it looked up, until it ends; and *)
(* a cancel that took effect has reached it.                               *)
CancelsOK ==
  \A c \in Calls : \A d \in call[c].aimed :
    /\ \/ call[d].stage = "answered"
       \/ call[d].stage = "running" /\ call[d].key = call[c].key
    /\ call[c].heard \/ call[c].answer = "ok"
         => \/ call[d].heard
            \/ call[d].stage = "answered"
            \/ call[d].impl # call[c].impl

(* The inductive invariant behind the safety properties. *)
IndInv ==
  /\ TypeOK
  /\ FramesOK
  /\ CancelsOK
  /\ ActiveMarksLiveRuns
  /\ PendingBounded
  /\ PendingIsLatched
  /\ IsFiniteSet(cancelled)
=============================================================================
