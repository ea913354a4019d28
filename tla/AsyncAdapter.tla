---------------------------- MODULE AsyncAdapter ----------------------------
(***************************************************************************)
(* TaskAwaitRunnerAdapter under ScalarBatchAdapter: runners written as     *)
(* coroutines that wait for child tasks with ctx.call.  The adapter keeps  *)
(* the coroutine of a task from one run_batch to the next, hands Core the  *)
(* descriptor of the child, and resumes the coroutine when the client has  *)
(* the outcome of the child.                                               *)
(*                                                                         *)
(* Nothing in run_batch yields to the event loop: cancel and dispose fall  *)
(* between two batches, while Core goes on with child tasks at any time.   *)
(***************************************************************************)
EXTENDS Integers, Sequences

CONSTANTS
  Tasks,        \* the tasks of the runner
  Invocations,  \* the invocation ids Core hands out, and uses again
  Unnamed,      \* the empty id, which a RunnerContext has unless it is given one
  MaxEntries,   \* the entries of a batch
  MaxAttempts,  \* how many coroutines are made for each task
  Calls,        \* the calls awaited: <<task, number, attempt>>
  Faults        \* what goes wrong outside the adapter: the runner's code or the
                \* client raises RunnerInvokeError ("structured") or another
                \* exception ("other"), completions cannot be written

ASSUME AdapterAssumption ==
  /\ MaxEntries \in Nat \ {0}
  /\ MaxAttempts \in [Tasks -> Nat]
  /\ Calls \subseteq Tasks \X (Nat \ {0}) \X (Nat \ {0})
  /\ Faults \subseteq {"structured", "other", "unwritable"}

VARIABLES
  coroutine,       \* _invocations
  invocationTask,  \* _invocation_tasks
  batch,           \* the frame of run_batch
  made,            \* how many coroutines were made for each task
  known,           \* the calls whose child descriptor reached Core
  lost,            \* those whose descriptor went with a batch that had no answer
                   \* but an error (history)
  latest,          \* the task each named invocation ran last (history)
  outcomes,        \* the child task ids the client has an outcome of
  failed           \* the latest run_batch was answered with an error, until
                   \* the next one begins

vars == <<coroutine, invocationTask, batch, made, known, lost, latest, outcomes, failed>>

None == <<>>

(* A coroutine: pending is the number of the call it waits for, or waited  *)
(* for last, 0 before the first, over that it has raised; under is the     *)
(* invocation it was last run for (history).                               *)
Coroutines ==
  [attempt : Nat \ {0}, pending : Nat, over : BOOLEAN, under : Invocations]

(* A child task has the id "<parent>:call:<n>", whichever attempt made it. *)
ChildId(c) == <<c[1], c[2]>>

(* The batches Core makes: no task twice. *)
Entries ==
  {s \in UNION {[1..n -> Tasks] : n \in 1..MaxEntries} :
     \A i, j \in DOMAIN s : s[i] = s[j] => i = j}

Init ==
  /\ coroutine = [t \in Tasks |-> None]
  /\ invocationTask = [i \in Invocations |-> None]
  /\ batch = None
  /\ made = [t \in Tasks |-> 0]
  /\ known = {}
  /\ lost = {}
  /\ latest = [i \in Invocations |-> None]
  /\ outcomes = {}
  /\ failed = FALSE

-----------------------------------------------------------------------------
(* run_batch begins, under any invocation id: one that was used before, or *)
(* under which a task waits, too.                                          *)
StartBatch(i, entries) ==
  /\ batch = None
  /\ batch' = [invocation |-> i, rest |-> entries, children |-> {}]
  /\ failed' = FALSE
  /\ UNCHANGED <<coroutine, invocationTask, made, known, lost, latest, outcomes>>

(* The entry of task t is the next one, and a coroutine for t is at hand.  *)
Entry(t) ==
  /\ batch # None
  /\ batch.rest # <<>>
  /\ t = Head(batch.rest)
  /\ coroutine[t] = None => made[t] < MaxAttempts[t]

(* The coroutine run_one goes on with: the one it finds, or a new one.     *)
Current(t) ==
  [IF coroutine[t] = None
     THEN [attempt |-> made[t] + 1, pending |-> 0, over |-> FALSE,
           under |-> batch.invocation]
     ELSE coroutine[t]
   EXCEPT !.under = batch.invocation]

(* Wrong variants of the operators that follow them, each a bug the code   *)
(* could have.                                                             *)
ForgottenOnlyTask(t, index) == index                         \* Forgotten
WaitsNever(t) == FALSE                                       \* Waits
DescriptorAgain(t, n, first) ==                              \* Descriptor
  {<<t, n, Current(t).attempt>>}
DescriptorNever(t, n, first) == {}                           \* Descriptor
TrackedFirst(t) ==                                           \* Tracked
  IF coroutine[t] = None /\ batch.invocation # Unnamed
    THEN [invocationTask EXCEPT ![batch.invocation] = t] ELSE invocationTask
ForgottenOthers(t, index) ==                                 \* Forgotten
  [i \in Invocations |-> IF index[i] = t THEN index[i] ELSE None]

(* _track_invocation *)
Tracked(t) ==
  IF batch.invocation = Unnamed THEN invocationTask
  ELSE [invocationTask EXCEPT ![batch.invocation] = t]

(* _remove_invocation, as far as the index is concerned. *)
Forgotten(t, index) ==
  [i \in Invocations |-> IF index[i] = t THEN None ELSE index[i]]

(* The child the coroutine waits for has no outcome yet. *)
Waits(t) ==
  /\ coroutine[t] # None
  /\ coroutine[t].pending # 0
  /\ <<t, coroutine[t].pending>> \notin outcomes

(* _waiting_result: the descriptor of the child goes with the first result *)
(* that waits for it, and with none after that (without_task).             *)
Descriptor(t, n, first) ==
  IF first THEN {<<t, n, Current(t).attempt>>} ELSE {}

(* A completion is recorded for the entry, with the children it hands on.  *)
EntryCompletes(children) ==
  /\ batch' = [batch EXCEPT !.rest = Tail(@), !.children = @ \cup children]
  /\ UNCHANGED <<known, lost, failed>>

(* No completion of the batch reaches Core: an exception other than        *)
(* RunnerInvokeError leaves run_batch.                                     *)
BatchFails ==
  /\ batch' = None
  /\ lost' = lost \cup batch.children
  /\ failed' = TRUE
  /\ UNCHANGED known

EntryFails(fault) ==
  \/ fault = "structured" /\ EntryCompletes({})
  \/ fault = "other" /\ BatchFails

(* run_one has the coroutine of t at hand, and tracks the invocation.      *)
Runs(t) ==
  /\ Entry(t)
  /\ made' = [made EXCEPT ![t] = Current(t).attempt]
  /\ latest' = IF batch.invocation = Unnamed THEN latest
                 ELSE [latest EXCEPT ![batch.invocation] = t]
  /\ UNCHANGED outcomes

(* run_one when the outcome is not there yet. *)
StillWaiting(t) ==
  /\ Runs(t)
  /\ Waits(t)
  /\ coroutine' = [coroutine EXCEPT ![t] = Current(t)]
  /\ invocationTask' = Tracked(t)
  /\ EntryCompletes(Descriptor(t, Current(t).pending, FALSE))

(* The client raises when it is asked for the outcome. *)
ClientRaises(t, fault) ==
  /\ Runs(t)
  /\ Current(t).pending # 0
  /\ coroutine' = [coroutine EXCEPT ![t] = Current(t)]
  /\ invocationTask' = Tracked(t)
  /\ EntryFails(fault)

(* run_one sends the outcome, or starts the coroutine. *)
Sends(t) == Runs(t) /\ ~Waits(t)

(* The coroutine awaits its n-th call.  It may have made calls that it     *)
(* awaits later or never, and may await a call again that it has awaited.  *)
Awaits(t, n) ==
  /\ Sends(t)
  /\ <<t, n, Current(t).attempt>> \in Calls
  /\ ~Current(t).over
  /\ coroutine' = [coroutine EXCEPT ![t] = [Current(t) EXCEPT !.pending = n]]
  /\ invocationTask' = Tracked(t)
  /\ EntryCompletes(Descriptor(t, n, TRUE))

(* The coroutine returns a result, valid or not, or awaits something else  *)
(* than a call: an invalid result and such an awaitable are structured     *)
(* failures of the entry.                                                  *)
Ends(t) ==
  /\ Sends(t)
  /\ ~Current(t).over
  /\ coroutine' = [coroutine EXCEPT ![t] = None]
  /\ invocationTask' = Forgotten(t, Tracked(t))
  /\ EntryCompletes({})

(* The coroutine raises; the adapter keeps it. *)
Raises(t, fault) ==
  /\ Sends(t)
  /\ ~Current(t).over
  /\ coroutine' = [coroutine EXCEPT ![t] = [Current(t) EXCEPT !.over = TRUE]]
  /\ invocationTask' = Tracked(t)
  /\ EntryFails(fault)

(* A coroutine that has raised cannot be resumed: Python's RuntimeError.   *)
Reuses(t) ==
  /\ Sends(t)
  /\ Current(t).over
  /\ coroutine' = [coroutine EXCEPT ![t] = Current(t)]
  /\ invocationTask' = Tracked(t)
  /\ BatchFails

(* The factory raises instead of giving a coroutine. *)
FactoryRaises(t, fault) ==
  /\ Entry(t)
  /\ coroutine[t] = None
  /\ EntryFails(fault)
  /\ UNCHANGED <<coroutine, invocationTask, made, latest, outcomes>>

(* run_batch returns its CompletionBatch, and the reply with it is written. *)
EndBatch ==
  /\ batch # None
  /\ batch.rest = <<>>
  /\ batch' = None
  /\ known' = known \cup batch.children
  /\ UNCHANGED <<coroutine, invocationTask, made, lost, latest, outcomes, failed>>

(* It returns them, but they cannot be made JSON, or are too long a reply. *)
CompletionsUnwritable ==
  /\ batch # None
  /\ batch.rest = <<>>
  /\ "unwritable" \in Faults
  /\ BatchFails
  /\ UNCHANGED <<coroutine, invocationTask, made, latest, outcomes>>

(* cancel *)
Cancel(i) ==
  /\ batch = None
  /\ invocationTask[i] # None
  /\ coroutine' = [coroutine EXCEPT ![invocationTask[i]] = None]
  /\ invocationTask' = Forgotten(invocationTask[i], invocationTask)
  /\ UNCHANGED <<batch, made, known, lost, latest, outcomes, failed>>

(* dispose *)
Dispose ==
  /\ batch = None
  /\ coroutine' = [t \in Tasks |-> None]
  /\ invocationTask' = [i \in Invocations |-> None]
  /\ UNCHANGED <<batch, made, known, lost, latest, outcomes, failed>>

(* Core has run a child task it knows of: the client can tell its outcome. *)
CoreCompletes(c) ==
  /\ c \in known
  /\ outcomes' = outcomes \cup {ChildId(c)}
  /\ UNCHANGED <<coroutine, invocationTask, batch, made, known, lost, latest, failed>>

Next ==
  \/ \E i \in Invocations :
       Cancel(i) \/ \E entries \in Entries : StartBatch(i, entries)
  \/ \E t \in Tasks :
       \/ StillWaiting(t)
       \/ Ends(t)
       \/ Reuses(t)
       \/ \E n \in {c[2] : c \in Calls} : Awaits(t, n)
       \/ \E fault \in Faults :
            ClientRaises(t, fault) \/ Raises(t, fault) \/ FactoryRaises(t, fault)
  \/ \E c \in Calls : CoreCompletes(c)
  \/ EndBatch
  \/ CompletionsUnwritable
  \/ Dispose

Spec == Init /\ [][Next]_vars

-----------------------------------------------------------------------------
(* The type of the state.  The index never names a task whose coroutine is *)
(* gone: the cancel of a finished invocation finds nothing, rather than a  *)
(* later coroutine of the same task.                                       *)
TypeOK ==
  /\ coroutine \in [Tasks -> Coroutines \cup {None}]
  /\ invocationTask \in [Invocations -> Tasks \cup {None}]
  /\ batch \in [invocation : Invocations, rest : Entries \cup {<<>>},
               children : SUBSET Calls] \cup {None}
  /\ made \in [Tasks -> Nat]
  /\ known \subseteq Calls
  /\ lost \subseteq Calls
  /\ latest \in [Invocations -> Tasks \cup {None}]
  /\ outcomes \subseteq {ChildId(c) : c \in Calls}
  /\ failed \in BOOLEAN
  /\ \A i \in Invocations :
       invocationTask[i] # None => coroutine[invocationTask[i]] # None

(* A coroutine that waits for a child is not touched until the client has  *)
(* the outcome of that very child; it can only be dropped by a cancel or a *)
(* dispose between two batches.                                            *)
ResumedByOutcome ==
  [][\A t \in Tasks :
       /\ coroutine[t] # None
       /\ coroutine[t].pending # 0
       /\ <<t, coroutine[t].pending>> \notin outcomes
       =>
         \/ batch = None /\ coroutine'[t] = None
         \/ /\ coroutine'[t] # None
            /\ coroutine'[t].pending = coroutine[t].pending
            /\ coroutine'[t].over = coroutine[t].over]_vars

(* A coroutine never hands the child of a call out a second time while its *)
(* outcome is outstanding, however often the waiting task is run again and *)
(* whether or not the first time reached Core.  (Once the outcome is there *)
(* a coroutine that awaits the same call again does hand it out again.)    *)
DescriptorOnce ==
  [][batch # None /\ batch' # None =>
       \A c \in batch'.children \ batch.children :
         c \in known \cup lost => ChildId(c) \in outcomes]_vars

(* What an invocation names is a coroutine it has run itself, and not one  *)
(* made later for the same task: a late cancel drops nobody else's work.   *)
NamedByItsRuns ==
  [][\A i \in Invocations :
       LET t == invocationTask'[i]
       IN  t # None =>
             /\ coroutine'[t] # None
             /\ \/ coroutine'[t].under = i
                \/ /\ t = invocationTask[i] /\ coroutine[t] # None
                   /\ coroutine'[t].attempt = coroutine[t].attempt]_vars

(* A child that a task waits for goes missing in one way only: with the    *)
(* completions of a batch that was answered by an error.  Otherwise Core   *)
(* has been handed its descriptor, or the batch at hand will bring it.     *)
ChildAccountedFor ==
  \A t \in Tasks :
    coroutine[t] # None /\ coroutine[t].pending # 0 =>
      <<t, coroutine[t].pending, coroutine[t].attempt>>
        \in known \cup lost \cup (IF batch = None THEN {} ELSE batch.children)

(* The cancel of an invocation finds the task it ran last, if the task's   *)
(* coroutine is kept and was not run under another invocation since: in    *)
(* batches of any size, with ids that are used again, and although every   *)
(* task that ends clears the index.                                        *)
CancelFindsLatest ==
  \A t \in Tasks :
    LET i == coroutine[t].under
    IN  coroutine[t] # None /\ i # Unnamed /\ latest[i] = t => invocationTask[i] = t

(* Every child a task waits for has been handed to Core, or is about to be *)
(* with the completions of the batch: otherwise no outcome will ever come. *)
ChildReachesCore ==
  \A t \in Tasks :
    coroutine[t] # None /\ coroutine[t].pending # 0 =>
      <<t, coroutine[t].pending, coroutine[t].attempt>>
        \in known \cup (IF batch = None THEN {} ELSE batch.children)

(* Every coroutine kept can be dropped by a cancel of the invocation that  *)
(* ran it last.                                                            *)
CancelFindsCoroutine ==
  \A t \in Tasks :
    batch = None /\ coroutine[t] # None /\ coroutine[t].under # Unnamed =>
      invocationTask[coroutine[t].under] = t

(* A failing entry fails alone: run_batch still returns the completions of *)
(* the others.                                                             *)
FailuresIsolated == ~failed
=============================================================================
