------------------------------- MODULE Resources -------------------------------
(***************************************************************************)
(* Resources: the provider of testing/fake_resource_provider.py and the    *)
(* plans of resources/plans.py that work on it.                            *)
(*                                                                         *)
(* Two kinds of actors meet in the provider's tables. Runner code creates  *)
(* resources, takes leases, writes and commits on the event loop, one call *)
(* at a time; requests of the host (exports, commands, command batches and *)
(* sagas) run in a worker thread, which the dispatcher starts. A thread    *)
(* may read while the loop is in the middle of a write: the file is        *)
(* truncated, then filled, and only then is the table changed. `worker` is *)
(* one such thread; they only read, so they do not disturb each other.     *)
(*                                                                         *)
(* The bytes of version v of resource r are the pair <<r, v>>: no two      *)
(* versions are taken to have the same bytes.                              *)
(***************************************************************************)
EXTENDS Naturals, Sequences, SequencesExt, FiniteSets

CONSTANTS Ids,         \* ids the provider may give to resources and stored values
          Kinds,       \* the kinds of resources runner code creates
          Requests,    \* the requests of the host
          Expiries,    \* the ends runner code gives its leases
          MaxVersion,  \* bound on the versions of a resource
          MaxTokens,   \* bound on the leases taken
          MaxStep,     \* bound on the step counter of Core
          None         \* no lease, no write, no request, no file

VARIABLES resources,   \* _resources: the record of each id in use. `data` holds the bytes of
                       \* all versions; the provider keeps the last, the others are history
          values,      \* the keys of _values
          files,       \* the file of each id: its bytes, Torn, or None
          tokens,      \* the lease tokens issued
          writing,     \* the token of the write under way on the event loop
          snapshots,   \* the snapshot descriptors handed out
          now,         \* Core's current step, which runner code passes on
          worker       \* the request the worker thread is executing

vars == <<resources, values, files, tokens, writing, snapshots, now, worker>>

\* What a file holds between its truncation and the last byte written to it.
Torn == <<"torn">>

--------------------------------------------------------------------------------
(* Records *)

ResourceSemantic ==
  {"frozen_value", "versioned_snapshot", "read_only_fact", "cow_versioned_state",
   "capability_resource", "stream_resource", "transaction_resource"}

\* The kinds: what the create_ methods store. A resource with a file is read from it.
MmapKind       == [semantic |-> "frozen_value", file |-> TRUE]
BlobKind       == [semantic |-> "frozen_value", file |-> FALSE]
CowKind        == [semantic |-> "cow_versioned_state", file |-> TRUE]
FactKind       == [semantic |-> "read_only_fact", file |-> FALSE]
StreamKind     == [semantic |-> "stream_resource", file |-> FALSE]
SnapshotKind   == [semantic |-> "versioned_snapshot", file |-> TRUE]
CapabilityKind == [semantic |-> "capability_resource", file |-> FALSE]

\* A reference handed out when r was at version v: both numbers move together.
Ref(r, v) == [id |-> r, version |-> v, generation |-> v]

Refs == {Ref(r, v) : r \in Ids, v \in 1..MaxVersion}

\* The fields of a token are explained at NewToken, those of a request at StartRequest.
Tokens == [number : Nat, id : Ids, owner : {"runner", "resource-plan"},
           expires_at_step : Nat \cup {None}, generation : Nat, base : Nat]

Commands == [capability : Refs, operation : STRING]

Exports == [type : {"export"}, export : Refs, steps : {<<>>}, compensations : {<<>>},
            rollback_guarantee : {FALSE}]
Batches == [type : {"batch"}, export : {None}, steps : Seq(Commands),
            compensations : {<<>>}, rollback_guarantee : BOOLEAN]
Sagas   == [type : {"saga"}, export : {None}, steps : Seq(Commands),
            compensations : Seq(Commands), rollback_guarantee : {FALSE}]

ASSUME ResourcesAssumption ==
  /\ MaxVersion \in Nat \ {0} /\ MaxTokens \in Nat /\ MaxStep \in Nat
  /\ Kinds \subseteq [semantic : ResourceSemantic, file : BOOLEAN]
  /\ Requests \subseteq Exports \cup Batches \cup Sagas
  /\ Expiries \subseteq Nat \cup {None}
  /\ None \notin Tokens

\* Somebody may hold any reference handed out so far.
Held == {ref \in Refs : ref.id \in DOMAIN resources
                          /\ ref.version <= resources[ref.id].version}

\* A plan to write is built from a reference and names its version as the base.
BuildWritePlan(ref) == [resource |-> ref, base_version |-> ref.version]

\* _id counts up: it never gives an id twice.
Fresh(r) == r \notin DOMAIN resources \cup values

--------------------------------------------------------------------------------
(* Reading *)

\* Wrong: the generation of a reference is not compared
ReadableFound(ref) == ref.id \in DOMAIN resources

\* read_resource finds the record, and its generation is that of the reference.
Readable(ref) ==
  /\ ref.id \in DOMAIN resources
  /\ resources[ref.id].generation = ref.generation

\* The bytes it returns.
Data(r) == Last(resources[r].data)
Bytes(r) == IF resources[r].file THEN files[r] ELSE Data(r)

--------------------------------------------------------------------------------
(* Runner code on the event loop. A write is the only call during which the     *)
(* worker thread sees anything; no other call of runner code runs meanwhile.    *)

Idle == writing = None

\* The record of a new resource.
Record(kind, data) ==
  [semantic |-> kind.semantic, file |-> kind.file, version |-> 1, generation |-> 1,
   data |-> <<data>>, lease |-> None]

\* _store_resource, with the file written before it. Nobody knows the id yet.
Store(r, kind, data) ==
  /\ resources' = [x \in DOMAIN resources \cup {r} |->
                     IF x = r THEN Record(kind, data) ELSE resources[x]]
  /\ files' = IF kind.file THEN [files EXCEPT ![r] = data] ELSE files

\* The create_ methods that start from bytes of the caller.
Create(r) ==
  /\ Idle /\ Fresh(r)
  /\ \E kind \in Kinds : Store(r, kind, <<r, 1>>)
  /\ UNCHANGED <<values, tokens, writing, snapshots, now, worker>>

\* copy_on_write: a copy of a readable resource, with bytes of the caller.
CopyOnWrite(r) ==
  /\ Idle /\ Fresh(r)
  /\ \E base \in Held : Readable(base)
  /\ Store(r, CowKind, <<r, 1>>)
  /\ UNCHANGED <<values, tokens, writing, snapshots, now, worker>>

\* Wrong: the plan is not read again before the snapshot is stored
SnapshotUnread(r, ref) ==
  /\ Idle /\ Fresh(r)
  /\ Store(r, SnapshotKind, Bytes(ref.id))
  /\ snapshots' = snapshots \cup {[snapshot |-> r, source |-> ref]}
  /\ UNCHANGED <<values, tokens, writing, now, worker>>

\* snapshot_read_plan: the source is read (by the plan, and once more by the provider),
\* and what was read becomes a resource of its own.
SnapshotReadPlan(r, ref) ==
  /\ Idle /\ Fresh(r)
  /\ Readable(ref)
  /\ Store(r, SnapshotKind, Bytes(ref.id))
  /\ snapshots' = snapshots \cup {[snapshot |-> r, source |-> ref]}
  /\ UNCHANGED <<values, tokens, writing, now, worker>>

\* pack_value of a value too large to stay inline: it takes an id from the same counter.
PackValue(r) ==
  /\ Idle /\ Fresh(r)
  /\ values' = values \cup {r}
  /\ UNCHANGED <<resources, files, tokens, writing, snapshots, now, worker>>

\* The token of a new lease; `number` stands for token_id, `base` is history: the version
\* the writer takes the resource to have.
NewToken(r, owner, expires, base) ==
  [number |-> Cardinality(tokens) + 1, id |-> r, owner |-> owner, expires_at_step |-> expires,
   generation |-> resources[r].generation, base |-> base]

\* acquire_write_lease refuses a resource that has a lease, expired or not; it asks
\* neither for the semantic of the resource nor whether it is sealed.
Leasable(r) ==
  /\ r \in DOMAIN resources
  /\ resources[r].lease = None
  /\ Cardinality(tokens) < MaxTokens

AcquireWriteLease(r, expires) ==
  /\ Idle /\ Leasable(r)
  /\ LET token == NewToken(r, "runner", expires, resources[r].version)
     IN /\ resources' = [resources EXCEPT ![r].lease = token]
        /\ tokens' = tokens \cup {token}
  /\ UNCHANGED <<values, files, writing, snapshots, now, worker>>

Expired(token, step) == token.expires_at_step # None /\ step > token.expires_at_step

\* The checks of write_with_lease.
MayWrite(token, step) ==
  /\ ~Expired(token, step)
  /\ token.id \in DOMAIN resources
  /\ resources[token.id].lease = token

\* write_with_lease up to the call that writes the file, which truncates it first.
StartWriting(token) ==
  /\ resources[token.id].version < MaxVersion
  /\ writing' = token
  /\ resources' = [resources EXCEPT ![token.id].lease = token]
  /\ files' = IF resources[token.id].file THEN [files EXCEPT ![token.id] = Torn] ELSE files

WriteWithLease(token) ==
  /\ Idle /\ MayWrite(token, now)
  /\ StartWriting(token)
  /\ UNCHANGED <<values, tokens, snapshots, now, worker>>

\* Wrong: the plan is compared with its own reference only
MayCommitUnread(plan) ==
  /\ resources[plan.resource.id].semantic = CowKind.semantic
  /\ plan.resource.version = plan.base_version
  /\ Leasable(plan.resource.id)

\* The checks of commit_write_plan, whose read is the generation check.
MayCommit(plan) ==
  /\ resources[plan.resource.id].semantic = CowKind.semantic
  /\ plan.resource.version = plan.base_version
  /\ Readable(plan.resource)
  /\ Leasable(plan.resource.id)

\* commit_write_plan: check, lease and write, without an await between them. The lease has
\* no end, and nobody but the call has its token.
CommitWritePlan(plan) ==
  /\ Idle /\ MayCommit(plan)
  /\ LET token == NewToken(plan.resource.id, "resource-plan", None, plan.base_version)
     IN StartWriting(token) /\ tokens' = tokens \cup {token}
  /\ UNCHANGED <<values, snapshots, now, worker>>

\* Wrong: the updated record keeps the generation
WriteEndsSameGeneration ==
  /\ writing # None
  /\ LET r == writing.id
         v == resources[r].version + 1
     IN /\ files' = IF resources[r].file THEN [files EXCEPT ![r] = <<r, v>>] ELSE files
        /\ resources' = [resources EXCEPT ![r].version = v, ![r].data = Append(@, <<r, v>>),
                                          ![r].lease = None]
  /\ writing' = None
  /\ UNCHANGED <<values, tokens, snapshots, now, worker>>

\* The file is written, and the updated record replaces the old one.
WriteEnds ==
  /\ writing # None
  /\ LET r == writing.id
         v == resources[r].version + 1
     IN /\ files' = IF resources[r].file THEN [files EXCEPT ![r] = <<r, v>>] ELSE files
        /\ resources' = [resources EXCEPT ![r].version = v, ![r].generation = @ + 1,
                                          ![r].data = Append(@, <<r, v>>), ![r].lease = None]
  /\ writing' = None
  /\ UNCHANGED <<values, tokens, snapshots, now, worker>>

\* Wrong: a failed write gives its lease back
WriteFailsReleased ==
  /\ writing # None
  /\ resources[writing.id].file
  /\ writing' = None
  /\ resources' = [resources EXCEPT ![writing.id].lease = None]
  /\ UNCHANGED <<values, files, tokens, snapshots, now, worker>>

\* Path.write_bytes raises: the record keeps version and lease, the file what was written.
WriteFails ==
  /\ writing # None
  /\ resources[writing.id].file
  /\ writing' = None
  /\ UNCHANGED <<resources, values, files, tokens, snapshots, now, worker>>

Tick ==
  /\ now < MaxStep
  /\ now' = now + 1
  /\ UNCHANGED <<resources, values, files, tokens, writing, snapshots, worker>>

--------------------------------------------------------------------------------
(* The worker thread. A request is [type, export, steps, compensations,         *)
(* rollback_guarantee]; a command is [capability, operation]. A single command  *)
(* is a batch of one. `ran` is history: the commands executed so far.           *)

LoopUnchanged == UNCHANGED <<resources, values, files, tokens, writing, snapshots, now>>

At(phase) == worker # None /\ worker.phase = phase

\* to_thread: the request starts. A batch with a rollback guarantee is refused outright.
StartRequest(q) ==
  /\ worker = None
  /\ worker' = [request |-> q, at |-> 1, receipts |-> <<>>, output |-> None,
                failed_step |-> 0, compensation_failures |-> 0, ran |-> <<>>,
                phase |-> IF q.type = "export" THEN "find"
                          ELSE IF q.rollback_guarantee THEN "failed"
                          ELSE IF q.steps = <<>> THEN "done" ELSE "steps"]
  /\ LoopUnchanged

\* The text of the bytes read, or an error if they are no text.
Decodes(bytes) ==
  worker' \in {[worker EXCEPT !.phase = "done", !.output = bytes],
               [worker EXCEPT !.phase = "failed"]}

\* execute_export_plan: read_resource checks the generation...
FindExported ==
  /\ At("find")
  /\ LET ref == worker.request.export
     IN \/ ~Readable(ref) /\ worker' = [worker EXCEPT !.phase = "failed"]
        \/ Readable(ref) /\ resources[ref.id].file
             /\ worker' = [worker EXCEPT !.phase = "read"]
        \/ Readable(ref) /\ ~resources[ref.id].file /\ Decodes(Data(ref.id))
  /\ LoopUnchanged

\* ... and then reads the file, if there is one.
ReadExported ==
  /\ At("read")
  /\ Decodes(files[worker.request.export.id])
  /\ LoopUnchanged

\* execute_command_plan succeeds.
Executes(command) ==
  /\ Readable(command.capability)
  /\ resources[command.capability.id].semantic = CapabilityKind.semantic
  /\ command.operation = "query"

\* Wrong: only as many compensations are tried as steps had been done
AfterFailurePartly(w) ==
  IF w.request.type = "saga" /\ w.at > 1 /\ w.request.compensations # <<>>
  THEN [w EXCEPT !.phase = "compensate", !.failed_step = w.at, !.at = w.at - 1]
  ELSE [w EXCEPT !.phase = "failed", !.failed_step = w.at]

\* What becomes of a batch or a saga whose next command fails: the batch ends without its
\* receipts; the saga goes through its compensations, from the last.
AfterFailure(w) ==
  IF w.request.type = "saga" /\ w.request.compensations # <<>>
  THEN [w EXCEPT !.phase = "compensate", !.failed_step = w.at, !.at = Len(w.request.compensations)]
  ELSE [w EXCEPT !.phase = "failed", !.failed_step = w.at]

RunCommand ==
  /\ At("steps")
  /\ LET steps == worker.request.steps
         w == [worker EXCEPT !.ran = Append(@, <<"step", worker.at>>)]
     IN worker' = IF ~Executes(steps[w.at]) THEN AfterFailure(w)
                  ELSE [w EXCEPT !.receipts = Append(@, steps[w.at].capability),
                                 !.phase = IF w.at = Len(steps) THEN "done" ELSE "steps",
                                 !.at = @ + 1]
  /\ LoopUnchanged

\* _command_failed: a compensation that fails is counted, and the others go on.
Compensate ==
  /\ At("compensate")
  /\ LET command == worker.request.compensations[worker.at]
     IN worker' = [worker EXCEPT
                     !.ran = Append(@, <<"compensation", worker.at>>),
                     !.compensation_failures = IF Executes(command) THEN @ ELSE @ + 1,
                     !.phase = IF worker.at = 1 THEN "failed" ELSE "compensate",
                     !.at = @ - 1]
  /\ LoopUnchanged

\* The thread ends with receipts or an error, and the next request may have it.
RequestEnds ==
  /\ At("done") \/ At("failed")
  /\ worker' = None
  /\ LoopUnchanged

--------------------------------------------------------------------------------
Init ==
  /\ resources = [r \in {} |-> None]
  /\ values = {}
  /\ files = [r \in Ids |-> None]
  /\ tokens = {}
  /\ writing = None
  /\ snapshots = {}
  /\ now = 0
  /\ worker = None

LoopNext ==
  \/ \E r \in Ids :
       \/ Create(r)
       \/ CopyOnWrite(r)
       \/ \E ref \in Held : SnapshotReadPlan(r, ref)
       \/ PackValue(r)
       \/ \E expires \in Expiries : AcquireWriteLease(r, expires)
  \/ \E token \in {t \in tokens : t.owner = "runner"} : WriteWithLease(token)
  \/ \E ref \in Held : CommitWritePlan(BuildWritePlan(ref))
  \/ WriteEnds
  \/ WriteFails
  \/ Tick

WorkerNext ==
  \/ \E q \in Requests : StartRequest(q)
  \/ FindExported
  \/ ReadExported
  \/ RunCommand
  \/ Compensate
  \/ RequestEnds

Next == LoopNext \/ WorkerNext

Spec == Init /\ [][Next]_vars

--------------------------------------------------------------------------------
(* Properties *)

TypeOK ==
  /\ DOMAIN resources \subseteq Ids /\ values \subseteq Ids \ DOMAIN resources
  /\ \A r \in DOMAIN resources :
       /\ resources[r].version \in 1..MaxVersion
       /\ resources[r].generation = resources[r].version
       /\ resources[r].lease \in tokens \cup {None}
  /\ writing # None => resources[writing.id].lease = writing
  /\ now \in 0..MaxStep

\* Runner code relies on leases and the host on generations; whichever way a version came
\* about, the provider keeps the promise of LeasedStore: a version is built on the one it
\* replaces, by a writer that had the resource alone, and a writer leaves in no other way.
Lease(r) == IF r \in DOMAIN resources THEN resources[r].lease ELSE None

Promise == INSTANCE LeasedStore WITH
  version <- [r \in Ids |-> IF r \in DOMAIN resources THEN resources[r].version ELSE 0],
  holder  <- [r \in Ids |-> IF Lease(r) = None THEN 0 ELSE Lease(r).base]

ImplementsLeasedStore == Promise!Spec

\* An export answers with the bytes of the version its reference names. Where they are
\* read from a file, after the generation was checked, they may also be of a later version
\* or of a write under way, but never of an earlier version or of another resource.
ExportedBytes ==
  At("done") /\ worker.request.type = "export" =>
    LET ref == worker.request.export
        data == resources[ref.id].data
    IN \E v \in ref.version..Len(data) :
         \/ v = ref.version /\ worker.output = data[v]
         \/ resources[ref.id].file /\ worker.output \in {Torn, data[v]}

\* A file that does not hold the version its record says belongs to a resource with a
\* lease, so that no commit builds on the resource after a write has failed.
TornIsLeased ==
  \A r \in DOMAIN resources :
    resources[r].file /\ files[r] # Data(r) => resources[r].lease # None

\* A snapshot holds the bytes of the version its descriptor names as the source, or those
\* of a write that failed; nothing that came after.
SnapshotOfItsVersion ==
  \A d \in snapshots :
    resources[d.snapshot].data[1] \in {Torn, resources[d.source.id].data[d.source.version]}

\* A batch or saga ends with a receipt for every command, in order, and no compensation
\* tried; or with none of them, the commands up to the first that failed executed once,
\* and, for a saga, every compensation tried once after them, from the last to the first.
Tried(kind, indices) == [i \in DOMAIN indices |-> <<kind, indices[i]>>]

UpTo(n) == [i \in 1..n |-> i]

RequestEndsWhole ==
  /\ At("done") /\ worker.request.type # "export" =>
       /\ worker.receipts = [i \in DOMAIN worker.request.steps |->
                               worker.request.steps[i].capability]
       /\ worker.ran = Tried("step", UpTo(Len(worker.request.steps)))
  /\ At("failed") =>
       LET undone == IF worker.request.type = "saga" THEN worker.request.compensations ELSE <<>>
       IN worker.ran = Tried("step", UpTo(worker.failed_step))
                         \o Tried("compensation", Reverse(UpTo(Len(undone))))

================================================================================
