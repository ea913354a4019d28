------------------------------- MODULE MCExchange -------------------------------
(***************************************************************************)
(* The instance of Exchange that TLC checks: for every contract a sound    *)
(* document, the same with one field changed to each other thing it may    *)
(* hold, and with one field removed or changed to each wrong thing; frames *)
(* around such documents, sound and with one part of the header damaged,   *)
(* at every limit; and batches of up to two entries and two rows.          *)
(***************************************************************************)
EXTENDS Exchange

Codec == INSTANCE ContractCodec

CodecDepth(doc)        == Codec!Deepest(doc)
CodecWidth(doc)        == Codec!Widest(doc)
CodecLongestBytes(doc) == Codec!LongestBlob(doc)
CodecJsonable(doc)     == Codec!IsJson(doc)
CodecFromJson(kind, doc)  == Codec!Decode(kind, doc)
CodecToJson(kind, val)    == Codec!Encode(kind, val)
CodecRequestFromJson(opcode, payload) == Codec!DecodeRequest(opcode, payload)

MCContract ==
  <<VersionExpectation, StateRef, StateDelta, OrderingRequirement, ResourceRequirement,
    RuntimeError, EffectPrecondition, EffectRequest, DomainEvent, RuntimeEvent,
    TraceSpan, ResourceId, ResourceProviderCompatibility, ResourceTypeDescriptor,
    ResourceLifetime, ResourceAccess, LeaseToken, ExclusiveWriteLease, ResourceCellRef,
    ResourceLease, ResourceRef, ValueRef, ResourceValue, SnapshotDescriptor,
    PatchDescriptor, ReadPlan, WritePlan, StreamPlan, ExportPlan, CommandPlan,
    TransactionPlan, CommandBatch, SagaPlan, PlanReceipt, Task, TaskLease, TaskHandle,
    TaskOutcome, WakeCondition, TaskStepContinuation, TaskAwait, RunnerConcurrency,
    RunnerBatchCapability, RunnerPayloadCapability, RunnerResourceCapability,
    RunnerOrderingCapability, RunnerControlCapability, RunnerDescriptor, RunnerContext,
    RunnerResult, BatchEntry, RowPayload, ColumnPayload, ColumnarPayload,
    BinaryPackedPayload, ResourceSlice, ResourceBackedPayload, BatchPayload,
    ResourceReadView, ResourceWriteLock, DeferredResourceOp, WorkResourcePlan, TaskBatch,
    WorkSet, WorkBatch, EntryCompletion, CompletionBatch, HostExtensionDescriptor,
    PluginBackendDescriptor, CodecDescriptor, BridgeDescriptor,
    SchedulerPolicyDescriptor, WorkflowDescriptor, ContractSurface, SurfaceOccupancy,
    SurfaceOccupancyHandle, ObservabilityOutletProfile, ObservabilityProfile,
    ObservabilityPage, PluginArtifact, PermissionGrant, LifecyclePolicy,
    ProtocolDescriptor, HandlerBinding, PluginProvides, PluginManifest, RuntimeProfile,
    CapabilityProviderSelection, PermissionAuditEntry, RuntimeCapabilityGraph,
    RuntimeLoadPlan, ProtocolHello>>

\* The kinds that the contracts and the requests are put together of.
RECURSIVE KindsIn(_)
KindsOf(fields) == UNION {KindsIn(fields[f]) : f \in DOMAIN fields}
KindsIn(kind) ==
  {kind} \cup
  CASE kind[1] \in {"optional", "default", "skipped", "many", "by key"} -> KindsIn(kind[2])
    [] kind[1] = "fields"   -> KindsOf(kind[2])
    [] kind[1] = "tagged"   -> UNION {KindsOf(kind[4][v]) : v \in DOMAIN kind[4]}
    [] kind[1] = "lifetime" -> KindsIn(kind[2]) \cup KindsIn(kind[3])
    [] OTHER                -> {}

MCKinds == {Str, Scalar} \cup UNION {KindsIn(kind) : kind \in Range(MCContract) \cup Range(RequestOf)}

\* What ContractLevelProofs asks of the kinds.
ASSUME KindsFormed ==
  /\ {RuntimeError, Task, RunBatchRequest, CompletionBatch} \subseteq MCKinds
  /\ \A kind \in MCKinds : Formed(kind, MCKinds)

RECURSIVE Base(_)

AlwaysThere(fields) == {f \in DOMAIN fields : fields[f][1] # "skipped"}
BaseOf(fields) == [f \in AlwaysThere(fields) |-> Base(fields[f])]
VariantsOf(tagged) == {Object(tagged[2] :> Text(v) @@ BaseOf(tagged[4][v])) : v \in DOMAIN tagged[4]}

\* A sound document of the kind.
Base(kind) ==
  CASE kind \in {Str, Scalar}     -> Text("a")
    [] kind \in {Whole, Byte}     -> Number(1)
    [] kind = Bool                -> Flag(FALSE)
    [] kind = Float               -> Real(1)
    [] kind = Json                -> Null
    [] kind[1] \in {"json dict", "by key"} -> Object(NoFields)
    [] kind[1] \in {"many", "pairs"}       -> List(<<>>)
    [] kind = Cause               -> Base(RuntimeError)
    [] kind[1] = "enum"           -> Text(CHOOSE name \in kind[2] : TRUE)
    [] kind[1] = "optional"       -> Null
    [] kind[1] \in {"default", "lifetime"} -> Base(kind[2])
    [] kind[1] = "fields"         -> Object(BaseOf(kind[2]))
    [] kind[1] = "tagged"         -> CHOOSE doc \in VariantsOf(kind) : TRUE

\* Others, but for the fields of a contract in it, which are changed one by one in its own.
RECURSIVE Others(_)
Others(kind) ==
  CASE kind = Str                 -> {Text("b")}
    [] kind = Scalar              -> {Flag(TRUE), Number(1), Real(1)}
    [] kind = Whole               -> {Number(0)}
    [] kind = Byte                -> {Number(0), Number(255)}
    [] kind = Bool                -> {Flag(TRUE)}
    [] kind = Float               -> {Real(0)}
    [] kind = Json                -> {Text("a"), Number(1), List(<<Null, Flag(TRUE)>>), Object("k" :> Real(1))}
    [] kind = JsonDict            -> {Object("k" :> Null)}
    [] kind = Pairs               -> {List(<<List(<<Text("a"), Number(1)>>)>>)}
    [] kind[1] = "enum"           -> {Text(name) : name \in kind[2]}
    [] kind[1] = "optional"       -> {Base(kind[2])} \cup Others(kind[2])
    [] kind[1] = "default"        -> Others(kind[2])
    [] kind[1] = "skipped"        -> Others(kind[2])
    [] kind[1] = "many"           -> {List(<<Base(kind[2])>>)}
                                       \cup {List(<<doc, Base(kind[2])>>) : doc \in Others(kind[2])}
    [] kind[1] = "by key"         -> {Object("k" :> doc) : doc \in {Base(kind[2])} \cup Others(kind[2])}
    [] kind[1] = "tagged"         -> VariantsOf(kind)
    [] kind[1] = "lifetime"       -> Others(kind[2]) \cup {Base(kind[3])}
    [] OTHER                      -> {}

Changed(doc, field, new) == Object(field :> new @@ doc[2])
Without(doc, field) == Object([f \in DOMAIN doc[2] \ {field} |-> doc[2][f]])

\* One field holds something else it may hold.
Changes(doc, fields) ==
  {doc} \cup UNION {{Changed(doc, f, new) : new \in Others(fields[f])} : f \in DOMAIN fields}

FieldsIn(kind, doc) == IF kind[1] = "tagged" THEN kind[4][doc[2][kind[2]][2]]
                       ELSE IF kind[1] = "fields" THEN kind[2] ELSE NoFields

Sounds(kind) ==
  IF kind[1] = "tagged" THEN UNION {Changes(doc, FieldsIn(kind, doc)) : doc \in VariantsOf(kind)}
  ELSE IF kind[1] = "fields" THEN Changes(Base(kind), kind[2])
  ELSE {Base(kind)} \cup Others(kind)

\* What a revision wrote that did not know the fields with a default.
Olds(kind) ==
  IF kind[1] = "fields"
  THEN {Without(Base(kind), f) : f \in {g \in DOMAIN kind[2] : kind[2][g][1] = "default"}}
  ELSE {}

WrongThings == {Null, Text("?"), Text("7"), Number(7), Number(256), Real(7), Flag(TRUE),
                List(<<Null>>), List(<<Blob(1)>>), Object("?" :> Null), Blob(1)}

Damages(kind) ==
  LET doc == Base(kind)
      own == IF doc[1] = "map" THEN DOMAIN doc[2] \cup {"extra"} ELSE {}
  IN WrongThings
       \cup {Without(doc, f) : f \in own}
       \cup {Changed(doc, f, wrong) : f \in own, wrong \in WrongThings}

--------------------------------------------------------------------------------
NoFrame == NoFields

Plain(i, made, docs) ==
  {[codec |-> "none", name |-> i, made |-> made, json |-> doc, frame |-> NoFrame] : doc \in docs}

PlainMessages ==
  UNION {Plain(i, "mirror", Sounds(MCContract[i]))
           \cup Plain(i, "older", Olds(MCContract[i]))
           \cup Plain(i, "other", Damages(MCContract[i])) : i \in DOMAIN MCContract}

Framed(codec, frames) ==
  {[codec |-> codec, name |-> 0, made |-> "other", json |-> Null, frame |-> frame] : frame \in frames}

MCHostLimits   == [frame |-> 110, payload |-> 88, inline |-> 6, line |-> 138, inflight |-> 2, reserved |-> 1]
MCRunnerLimits == [MCHostLimits EXCEPT !.inline = 5, !.line = 134]

\* The payload fills the frame at 86 and its own limit at 88, and the line of the bridge and
\* of the host at 84 and at 88.
Sizes == {40, 84, 85, 86, 87, 88, 89}
MCReplySizes == {40, 85, 87}


Both(opcode, payload) ==
  Framed("binary", {BinaryFrame(1, opcode, RequestFlags(opcode), payload, 40)})
    \cup (IF Jsonable(payload) THEN Framed("jsonl", {JsonlFrame(1, opcode, payload, 40)}) ELSE {})

\* Each request in a frame of either codec.
RequestMessages ==
  UNION {UNION {Both(opcode, doc) : doc \in Sounds(RequestOf[opcode]) \cup Damages(RequestOf[opcode])} :
         opcode \in Served}

RECURSIVE Nested(_)
Nested(depth) == IF depth = 0 THEN Null ELSE List(<<Nested(depth - 1)>>)

\* Requests at the limits of MessagePack: the object around `config` is one level more.
Configs == {Nested(n) : n \in MaxNestingDepth-2..MaxNestingDepth}
             \cup {List([i \in 1..n |-> Null]) : n \in MaxContainerItems..MaxContainerItems+1}
             \cup {Blob(n) : n \in 5..7} \cup {List(<<Blob(6)>>)}

Initialize(config) == Changed(Base(InitializeRequest), "config", config)
Dispose == Base(DisposeRunnerRequest)

BinaryFrames(size) ==
  LET sound == BinaryFrame(1, "runner.dispose", RequestFlags("runner.dispose"), Dispose, size)
  IN {sound}
       \cup {[sound EXCEPT !.prefix = @ - 1], [sound EXCEPT !.prefix = @ + 1],
             [sound EXCEPT !.prefix = HeaderSize - 1], [sound EXCEPT !.body = @ - 1],
             [sound EXCEPT !.prefix = @ - 1, !.payload_len = @ - 1],
             [sound EXCEPT !.payload_len = @ - 1], [sound EXCEPT !.payload_len = @ + 1],
             [sound EXCEPT !.magic = FALSE], [sound EXCEPT !.major = Other],
             [sound EXCEPT !.request_id = 0], [sound EXCEPT !.payload = List(<<>>)]}
       \cup {[sound EXCEPT !.opcode = opcode] : opcode \in Opcodes \cup {"unknown"}}
       \cup {[sound EXCEPT !.flags = flags] :
               flags \in SUBSET {"request", "response", "error", "management", "unknown"}}

JsonlFrames(size) ==
  LET sound == JsonlFrame(1, "runner.dispose", Dispose, size)
  IN {sound}
       \cup {[sound EXCEPT !.payload_len = @ - 1], [sound EXCEPT !.payload_len = @ + 1],
             [sound EXCEPT !.major = Other], [sound EXCEPT !.request_id = 0],
             [sound EXCEPT !.request_id = -1], [sound EXCEPT !.method = "runner.cancel"],
             [sound EXCEPT !.payload = List(<<>>)]}
       \cup {[sound EXCEPT !.opcode = opcode, !.method = opcode] : opcode \in Opcodes \cup {"unknown"}}

FrameMessages ==
  UNION {Both("plugin.initialize", Initialize(config)) : config \in Configs}
    \cup Framed("binary", UNION {BinaryFrames(size) : size \in Sizes})
    \cup Framed("jsonl", UNION {JsonlFrames(size) : size \in Sizes})

--------------------------------------------------------------------------------
TaskRow(id, priority) ==
  Changed(Changed(Base(Task), "task_id", Text(id)), "priority", Number(priority))

\* The rows of one task id are told apart by their priority.
RowItems == {TaskRow("a", 1), TaskRow("a", 2), TaskRow("b", 1),
             Changed(TaskRow("a", 1), "priority", Null),
             Changed(TaskRow("b", 1), "dispatch_lane", Text("?"))}

Entry(id, task) ==
  Changed(Changed(Base(BatchEntry), "entry_id", Text(id)), "task_id", Text(task))

EntryLists == {<<Entry("x", "a")>>, <<Entry("x", "a"), Entry("y", "b")>>,
               <<Entry("x", "b"), Entry("y", "a")>>, <<Entry("x", "a"), Entry("y", "a")>>}

RowLists == UNION {[1..n -> RowItems] : n \in 0..2}

RowLayout(rows) == Object([layout |-> Text("row"), payload |-> Object([rows |-> List(rows)])])
OtherLayouts == {doc \in VariantsOf(BatchPayload) : doc[2].layout # Text("row")}

RunBatch(entries, payload) ==
  Changed(Base(RunBatchRequest), "batch",
          Changed(Changed(Base(WorkBatch), "entries", List(entries)), "payload", payload))

BatchMessages ==
  UNION {Both("runner.run_batch", RunBatch(entries, payload)) :
           entries \in EntryLists,
           payload \in {RowLayout(rows) : rows \in RowLists} \cup OtherLayouts}

MCMessages == PlainMessages \cup RequestMessages \cup FrameMessages \cup BatchMessages

\* A runner returns a result, or one whose output is no JSON; it fails, or raises.
MCOutcomes == {[end |-> "returns", with |-> Base(RunnerResult)],
               [end |-> "returns", with |-> Changed(Base(RunnerResult), "output", Blob(1))],
               [end |-> "fails", with |-> Base(RuntimeError)],
               [end |-> "raises", with |-> ValueError]}

\* What ExchangeProofs asks of them: what can be written at all is what the contracts make.
ASSUME OutcomesTyped ==
  \A outcome \in MCOutcomes :
    IF outcome.end = "raises" THEN Raised(outcome.with)
    ELSE LET kind == IF outcome.end = "returns" THEN RunnerResult ELSE RuntimeError
         IN  \/ Raised(CodecToJson(kind, outcome.with))
             \/ CodecFromJson(kind, outcome.with) = outcome.with
================================================================================
