# A TLA+ development of MutsukiPythonRunnerKit

The kit is the Python side of Runner Link: the process in which Mutsuki Core runs
plugin code written in Python. Core (Rust, not in this repository) sends request
frames over stdio; the kit decodes them, keeps a bounded number of them in flight,
hands each to a runner or to a resource provider, and writes the answers as they
become ready. All paths below are relative to `src/src/mutsuki_runner_kit/`
unless they start with `src/`.

## Inventory

| Component | State | Operations | What makes it correct |
|---|---|---|---|
| Runner backend, `runners/backend.py` | `_runners`, `_cancelled_invocations`, `_active_invocations` | `register_runner`, `run_batch_runner`, `cancel_runner`, `dispose_runner` | one run per invocation; an accepted cancel reaches exactly the run it is for, before or during it; a bounded number of early cancels; a refusal has no effect |
| Hello negotiation, `wire/protocol.py`, `wire/handshake.py` | none | `WireLimits.validate`, `negotiated`, `ProtocolHello.for_codec`, `ProtocolHelloAck.negotiate`, `validate_for` | the two ends' validations agree; limits are never widened |
| Dispatcher, `transport/dispatcher.py` | `_limits`, `_negotiated`, a lock | `dispatch` | nothing before the handshake, one handshake only |
| Stdio bridges, `transport/stdio_jsonl.py`, `stdio_binary.py` | `_limits`, `_active_ids`, `_active_non_management`, the set of tasks | the reader loop of `serve`, `_reserve`, `_dispatch_and_write`, `_release`, shutdown; `handle_request` | capacity kept, management requests not starved, bookkeeping exact, shutdown ends |
| Wire codecs, `wire/jsonl.py`, `binary.py`, `msgpack_structure.py`, `requests.py` | none | encode and decode of frames | a frame accepted means what its sender meant; limits enforced on both sides |
| Async adapter, `runners/async_adapter.py` | `_invocations`, `_invocation_tasks`; per coroutine `_next_call`, `pending` | `run_one`, `run_batch`, `cancel`, `dispose`, `AsyncRunnerContext.call_*` | a coroutine resumes with its own child's outcome; every child reaches Core; a cancel finds what it cancels |
| Scalar adapter, `runners/scalar.py` | none | `run_batch` | one completion per entry, failures isolated |
| Resource plans, `resources/plans.py`, `client.py` | none; works on a provider | read, snapshot, stream, export, command, write plans; command batches; sagas | generation and lease checks hold when the write happens; partial failure is reported |
| Fake provider, `testing/fake_resource_provider.py` | `_values`, `_resources`, `_next`, files | `create_*`, `read_resource`, `acquire_write_lease`, `write_with_lease` | versions grow, one writer at a time |
| Contract mirror, `contracts/` | none | frozen dataclasses, codecs, validation | round trips; batch invariants (`contracts/batch.py`) |
| Testing helpers, benchmarks | - | fixtures, measurements | - |

How they interact. A bridge owns a dispatcher, which owns a backend and an optional
resource handler. The backend calls `run_batch`, `cancel` and `dispose` of a runner;
an async plugin's runner is a `TaskAwaitRunnerAdapter`, which drives itself through a
`ScalarBatchAdapter`. Everything runs on one asyncio event loop, except the blocking
reads of the input and the resource handlers, which run in worker threads. Core is
seen only through frames, invocation ids and `RuntimeClient.task_outcome`.

What is hard here: calls of the backend interleave at every `await` of runner code;
cancels come early, late and twice; two sides compute and check the same limits by
different rules; the reader reserves while tasks release; the shutdown timer races
completions; a coroutine outlives the request that made it and is found again by task
id, while cancels name it by invocation id; runner code raises anything; a thread reads a
file that runner code is writing; a batch is decoded as a whole and run entry by entry; some
ninety contracts are decoded and encoded by different code. The list with
the line of each is `hazards` in `PROJECT.json`.

## Modules

| Module | Models | Extends |
|---|---|---|
| `RunnerBackend` | the backend; `call` holds the coroutine frame of each method call | |
| `RunnerBackendProofs` | theorems about it | `RunnerBackend`, `TLAPS` |
| `WireLimits` | limits, hellos, and the functions on them, as operators | |
| `Handshake` | dispatcher's initialize branch and the host | `WireLimits` |
| `HandshakeProofs` | theorems about it | `Handshake`, `TLAPS` |
| `StdioBridge` | `serve` of either bridge | `WireLimits` |
| `StdioBridgeProofs` | theorems about it | `StdioBridge`, `TLAPS` |
| `AsyncAdapter` | both adapters, coroutines, and Core as far as it completes children | |
| `AsyncAdapterProofs` | theorems about it | `AsyncAdapter`, `TLAPS` |
| `LeasedStore` | abstract: what a provider promises its writers | |
| `Resources` | the provider, the plans, runner code and a worker thread of the host's requests | |
| `ResourcesProofs` | theorems about it, and that it implements `LeasedStore` | `Resources`, `TLAPS` |
| `Contracts` | every contract and request, as the kinds of its fields; no state | |
| `ContractLevel` | `from_json_dict` and `to_json_value` of one level of a document; what its parts are converted to is a parameter | `Contracts` |
| `ContractLevelProofs` | theorems about it | `ContractLevel`, `TLAPS` |
| `Documents` | what the codecs find out by walking a document: depth, width, longest bytes | `Contracts` |
| `ContractCodec` | closes the recursion of `ContractLevel`; `decode_request` | `Documents`, an instance of `ContractLevel` |
| `Frames` | the encoders and decoders of both codecs as lists of checks; the walks are parameters | `Contracts`, `WireLimits` |
| `Exchange` | one message from its frame to its answer, through the scalar adapter; the conversions of contracts are parameters | `Frames` |
| `ExchangeProofs` | theorems about both | `Exchange`, `ContractLevelProofs`, `TLAPS` |
| `RequestLedger` | abstract: what a host relies on for its requests | |
| `RunnerLink` | a host, `StdioBridge` and `RunnerBackend` composed, with the pipes between | instances of the two |
| `RunnerLinkProofs` | theorems about it: what it keeps of its parts, and that it implements `RequestLedger` | `RunnerLink`, `TLAPS`, instances of two proof modules |
| `MC...` | the instance TLC checks | the module it is named after |

Each module has *wrong variants*: no action uses them. Each stands for a bug
the code could have; put in the place of the operator named beside it, it makes the
property that `PROJECT.json` pairs it with fail.

### RunnerBackend

Each method is split at its single `await`, the only point at which another coroutine
can run. `RunBatch`, `CancelRunner` and `DisposeRunner` are the code up to that point
with every early return as a disjunct; `RunEnds`, `CancelEnds` and `DisposeEnds` are the
rest, for a runner that returns or raises. `RunnerHears` is the moment the awaited
`runner.cancel` takes effect; it belongs to runner code, so it happens between the two
halves of a cancel, or not at all if `runner.cancel` raises. `instance` numbers the objects registered under
an id, because `register_runner` replaces a runner while runs of the old object go on.
The fields `latched`, `aimed`, `asked` and `heard` of a frame are history: no guard reads
them. Each element of `Calls` makes one call; the number of calls bounds a run of the
model, and nothing in the code depends on how many went before.

### WireLimits and Handshake

Sizes are integers, and version, codec and schema are the expected one or another. An
offer is any hello of `Offers`, not only a sound one. `Agrees` is the conjunction of the
checks of `negotiate` and of `WireLimits.negotiated`; an exception from either leaves
the dispatcher as it was. The limits on JSONL lines and on inline
resources are not negotiated, as in the code. `_negotiation_lock` is held over code without an await, so the branch is one
action. `HostChecks` is `validate_for`, which the host runs on its side.

### StdioBridge

`ReadInitialize`, `Accept` and `Reject` are one turn of the reader each. A task made by
`create_task` takes its first step before the reader's next frame: the reader has then
to wait for a thread (`asyncio.to_thread`) and the new task is ready at once. That is
why a request that fails before any await has no action of its own: no other step can see
the place it held. `ReadInitialize` answers an initialize request in the same way. Writing an answer
takes a lock that is never contended, as nothing awaits while holding it. `TaskEnds` is
any end of `_dispatch_and_write`, whose `finally` releases in all of them. `EndOfInput` is
the end of the file and the malformed input after which the loop breaks. `Undecodable` is a malformed line
of the JSONL bridge, which is skipped if it names no request and answered if it names one
(`src/tests/test_stdio.py:466` tests the former).

What a reply says is left out but for two things that can end `serve`, because the reader encodes
its replies and looks for a line's identity outside any `try`. One is length (`"overlong"`): `ReplySize` stands for the
longest reply the bridge itself writes, and one that exceeds the limits cannot be encoded. The other is text
(`"garbled"`): a JSONL line that is no UTF-8; one on which `json.loads` raises something else than
`JSONDecodeError` in `_safe_json_identity`; one whose method holds a lone surrogate, which the error reply quotes. When `serve`
has raised, `asyncio.run` cancels what is left. The binary bridge has no such line: its opcodes are numbers, and what it
cannot decode ends the loop.

The direct entry point `handle_request` reserves nothing, and is not modelled. The worker
threads that outlive a cancelled resource request are in `Resources`: they only read.

### AsyncAdapter

`run_batch` never yields to the event loop (`run_one` drives the plugin's coroutine by
hand, and a plugin that awaits anything but a call is refused), so one batch is in
progress at a time, and `Cancel` and `Dispose` fall between batches. Entries are taken in
order; each is one of `StillWaiting`, `ClientRaises`, `Awaits`, `Ends`, `Raises`, `Reuses` and `FactoryRaises`.
`batch.children` are the descriptors in the completions so far. `EndBatch` hands them to
Core; two things lose them (`lost`, a history): `BatchFails`, an exception that `ScalarBatchAdapter` does not catch, and
`CompletionsUnwritable`, completions that cannot be made JSON or are too long a reply, for which an error is sent
(`transport/dispatcher.py:81`, `transport/stdio_jsonl.py:172-186`). The latter needs no exception of plugin code and no
second entry. `CoreCompletes` stands for Core: it completes any child it was handed, at any time.

A batch may run under any invocation id, one under which a task waits included (the tests do this,
`src/tests/test_async_adapter.py:97`), or under the empty one (`Unnamed`, the default of the context), which
`_track_invocation` does not index and no cancel can find. A coroutine may await any of its calls, in any order and
again: nothing keeps a plugin from awaiting a `TaskCallAwaitable` twice, and the descriptor is then handed out twice, the second time when the
child has its outcome already. Assumed of Core: a batch does not name a task twice. A batch with
an undecodable row is answered as a whole (`CompletionBatch.from_error`) and changes no
state of the adapter: it has no action here, but in `Exchange`. A coroutine that awaits something else than a call is closed; one that swallows
`GeneratorExit`, so that `close` raises, is not modelled.

### Resources and LeasedStore

`resources`, `values`, `files` and `tokens` are the provider's tables and files. All
versions' bytes are kept in `data` as history; the provider keeps the last. Runner code calls
one method at a time on the event loop, so every method is one action but the two that write:
`write_with_lease`, and `commit_write_plan` through it, truncate the file, fill it, and only then
change the table. `WriteWithLease` or `CommitWritePlan` is the code up to the truncation,
`WriteEnds` or `WriteFails` the rest. In between, only the worker thread can look. That thread is
`worker`: a request of the host (`dispatch` serves exports, commands, command batches and
sagas through `asyncio.to_thread`), executed command by command. An export checks the generation
in one step (`FindExported`) and reads the file in another (`ReadExported`). Several such threads
only read, so one stands for all. A caller may hold any reference ever handed out (`Held`), and a request may
name a resource that does not exist yet, or a version not reached.

Two simplifications: the bytes of version `v` of `r` are the pair of both, and a torn file
is one value. A plan changed after it was built is not modelled, nor is a restart of the provider,
which would start with empty tables over old files.

`LeasedStore` says what the tables promise together: a version is built on the one it
replaces by a writer that held the resource alone since it was known which version it builds on,
and a writer does not leave without publishing. Under the refinement, a resource's version is the
record's, and the holder is the version its lease's owner takes it to have. Two things the promise does
*not* include are stated separately, because a reviewer may expect more: an export may return bytes newer than
its reference, or torn ones (`ExportedBytes`), and a failed write leaves a file that matches no version, with its
lease in place for good (`TornIsLeased`).

### Contracts, ContractLevel, Documents and ContractCodec

A JSON document is a pair of type and content. `Contracts` gives each of the dataclasses of
`contracts/` and each request of `wire/requests.py` as a record of kinds; a kind is what a field's
helper in `contracts/codec.py` accepts (`as_str`, `optional_int`, `tuple_from_json`, an enum, a
tagged union, ...), defaults and fields that are skipped when empty included. `ContractLevel` is decoding and
encoding by kind, with the conversion of the parts as a parameter; `ContractCodec` puts the two functions in
their own places, which gives the recursion. They are apart because nothing can be proved in a module that
declares a recursive operator. A decoded value is written like the document it encodes to, so that a field lost
on the way is a difference. `TypeError` and `ValueError` are told apart, as callers catch only one
of them (`contracts/batch.py:238`). A dataclass raises for the first bad field; which one does not
matter where both exceptions are handled alike, and `CHOOSE` stands for it.

### Frames and Exchange

A frame is a record of its header's fields, its payload as a document, and lengths; how many bytes a document
takes is free, and damage is a field changed. Each encoder and decoder is the list of its checks in the code's
order with the code each raises, joined by `??`: the first that raises ends it. Walks and conversions recurse
over documents; they are constant operators here (`Depth`, `FromJson`, ...), so that frames and
adapter can be reasoned about whatever they compute, and `MCExchange` gives them the definitions
of `Documents` and `ContractCodec`. `Exchange` takes one message at a time: read and refused or
decoded (`RefuseFrame`, `DecodeMessage`); if it is a batch, checked as a whole (`StartBatch`,
`RejectBatch`, `BatchRaises`) and run entry by entry (`EntryUnknown`, `RunEntry`); encoded and
answered (`EncodeCompletions`, `Reply`). Nothing is kept between messages; what overlapping ones do to
each other is the business of the other modules. `RunEntry` calls any scalar runner: it
returns a result, or one that is no JSON, raises a structured error, or anything else. `OneOutcomeEach` speaks of
the answer, whatever ended the batch: one completion for each entry, or an error in three named cases.

### RunnerLink and RequestLedger

`RunnerLink` instantiates `StdioBridge` and `RunnerBackend` over the same set of calls: a
task of the bridge awaits one coroutine of the backend, so the two have the same name. What the code
does without an await is one action of both: `Take` reads a frame, reserves and runs the call up to
its await; `CallEnds` finishes the call, writes the answer and releases. `input` and `output` are the pipes, which
never fill. The host keeps a table of the call that waits under each id, takes an answer for that call,
uses an id again only when it is answered, keeps to the places reserved for management requests,
and waits for the acknowledgement before it sends anything. Runners are registered once.

`Unwritable` are the calls whose runner returns or raises what no reply can hold: evidence that is not JSON, or beyond a
limit. A completion of this sort is replaced by an error (`Reply`); an error of this sort cannot be
replaced, as encoding it raises out of `_dispatch_and_write`, and the request is never answered though the bridge goes on serving
(`Unanswered`, `transport/stdio_jsonl.py:181-186`). The bridge's own error replies are taken to fit a frame; when they do not is in
`StdioBridge`, and how the replies to a batch fare at each limit is in `Exchange`.

`RequestLedger` is what the host relies on: each request is open, then answered with its own answer, or lost,
which takes a closed input or a request of `Unwritable`. `Status` maps a request's place on its way to these.

## Runs

| Run | Instance | Shows |
|---|---|---|
| `RunnerBackend` | 2 runners, 2 invocations, 4 calls, limit 1, 2 registrations per id | the bookkeeping under all interleavings |
| `Handshake` | limits 1..3, in-flight 2..3; offers 0..3 and each wrong identity | the two ends agree |
| `StdioBridge` | JSONL, 4 places of which 2 reserved, 5 ids, 5 tasks, 7 offers, a resource handler | admission, bookkeeping, limits |
| `StdioShutdown` | JSONL, 4 ids, 4 tasks, inline limits below and at the length of a reply, no resource handler | shutdown ends and releases, and so does a failed `serve` |
| `AsyncBatch` | 2 tasks, one with 2 coroutines of 2 calls and 1, one with 1 of 1; 2 invocations and the empty one; batches of one or two; all faults | where children get lost, what cancels find, resumption, descriptors, and what a cancel can drop |
| `Resources` | 2 ids, all 7 kinds, 3 versions, 2 leases, ends 0 or none, steps 0..1, 7 requests | leases, files, plans, and a thread that reads in between |
| `Exchange` | some ninety contracts, 8 requests, both codecs, limits at which frame, payload, line and inline limits each bind first, batches of 1..2 entries and 0..2 rows | contracts come back, documents are rewritten as they were, frames, completions |
| `RunnerLink` | 2 runs, 1 cancel or dispose, 2 invocations, 3 ids, 3 places or 2, 1 reserved; one run and the cancel may raise what cannot be written | correlation, ledger, no cancel refused, cancellation under load |
| `AsyncIsolation`, `AsyncLostChild`, `AsyncCancel` | as `AsyncBatch`, with structured errors only; with both sorts of errors; with no fault at all | three findings, below |
| `ExchangeIsolation` | as `Exchange` | a finding, below |

Why the bounds are enough. Backend: a conflict needs two calls, a cancel that outlives
or precedes another run needs three, and the fourth exceeds a full table or comes from
the other runner, which shares invocation ids with the first. Handshake: 1..3
gives every order of two limits with and without a gap, and the smallest in-flight limits
at which the reserve's margin is one. Bridge: one request more than the four places, offers
that lower the capacity to three and two, and replies of length two against payload limits of
one to three. Shutdown: inline limit 1 lets an offer lower the payload limit below a reply's length of 2, so
`serve` is ended by a reply and by a line. Async: two calls show a stale pending call and a restarted count, two
coroutines of one task a restart, two entries every effect of one entry on another, two named invocations a task that
waits under both. The second task needs no restart of its own: it is there to be the other entry. Resources: the second id is a
snapshot or copy of the first or a resource of its own; of three versions one is stale, one current and
one to come; two leases are a lease and a commit, or two of either. The sagas have steps that fail first,
second and never, and compensations that fail and succeed. Exchange: fields of a contract are
decoded independently, so one field is varied at a time, through every variant of a union and every enum member, and then
through eleven things it may not hold; sizes step through the limits one byte at a time. The nesting and
container limits are 10 and 22 instead of 64 and 65,536, just above what the requests need. Two
entries and two rows give every assignment of rows to entries: none, shared, swapped, doubled. RunnerLink: two runs
fill the smaller bridge but for the reserved place; the second run can conflict with the first,
or take its id. One run can always be answered, the other and the cancel may not be, so that a loss is
seen beside an answer.

`CHECK_DEADLOCK FALSE` is set where the system may really stop: when every call of the
backend's model has been answered, when the bridge has stopped or failed, and when the
coroutines allowed for each task are used up, or when every call of `RunnerLink` has been answered
and the bridge has stopped.

### Fairness

In `StdioBridge`, only `FairSpec` has any. `asyncio.wait` has a timeout, so
`ShutdownTimeout` is weakly fair while requests are left; the gather that follows returns when all have
ended, so `Stop` is; and a cancelled task ends (`_dispatch_and_write` has no handler for
`CancelledError`, and runner code is assumed not to go on catching it), so `TaskEnds` is once
the reader is cancelling or `serve` has raised. Nothing else is assumed: a runner may take for
ever, and the host may send nothing.

`Spec` of `RunnerLink` has weak fairness of the reader's turns (the event loop runs what is ready)
and of the host's reads, and of runner code in three places: `runner.cancel` does what it is asked to, the
awaited `cancel` and `dispose` return or raise, and a run that heard a cancel or started with
`cancel_requested` ends. No other run has to end. `CancelledRunAnswered` rests on these and on nothing else: a cancel
gets through however many runs hold places, because of the reserved one.

### Findings

1. `AsyncIsolation`: a coroutine that raised a structured error is kept and resumed by the
   next run of its task; Python raises its own `RuntimeError`, which fails the whole batch
   with no completions (`runners/async_adapter.py:238`, `runners/scalar.py:66`, against
   `src/skills/runner-backend/SKILL.md:8-9`).
2. `AsyncLostChild`: a child's descriptor is in the first waiting result only; a later failure in
   the same batch loses it, and the task waits for ever (`runners/async_adapter.py:235`, against
   `src/plans/runner-link-v1.md:46`).
3. `AsyncCancel`: an invocation id leads to the last task of its batch only, so a cancel
   misses the coroutines of the others (`runners/async_adapter.py:282`, against
   `src/skills/runner-backend/SKILL.md:11`).
4. `ExchangeIsolation`: the rows of a batch are decoded as a whole, so one bad row keeps every entry from running,
   those whose own rows are tasks included (`contracts/batch.py:238`, `runners/scalar.py:44`, against
   `src/skills/runner-backend/SKILL.md:9`, which asks for isolated decode failures, and line 14, for tests of partial ones).

The first needs a plugin that raises and the second a plugin that raises or completions that cannot be written; the
third needs only a batch of two, the fourth only a row of another kind. `AsyncBatch` checks what does hold in their place: a child goes missing in no other
way (`ChildAccountedFor`), and a cancel finds the task its invocation ran last (`CancelFindsLatest`). So does
`OneOutcomeEach` of `Exchange` for the fourth.

## Proofs

All theorems hold for every value of the constants that satisfies the module's named
assumptions (`BackendAssumption`; `WireAssumption` with `HandshakeAssumption` or
`BridgeAssumption`; `AdapterAssumption`; `ResourcesAssumption`; `LinkAssumption`; those of `Frames` and
`Exchange`, below), for sets of calls, tasks, ids, resources, requests and messages of any size. Each proof module has an inductive invariant, proves that it
holds at first and that each action preserves it, and derives the properties. TLC checked each
invariant on a run before it was proved.

- `RunnerBackendProofs`. `IndInv` adds to the checked invariants what frames look like
  (`FramesOK`: a frame that waits names a known runner, an unused one is untouched) and where the run
  is that a cancel was aimed at (`CancelsOK`: still live under the cancel's key, or answered).
  Without `FramesOK` nothing ties a waiting run to the registry; without `CancelsOK` a cancel
  could reach a different run that reuses its invocation. The remembered set is carried as
  finite, as cardinalities need it. The two action properties follow from the same invariant:
  `RunSeesExactlyItsCancels` from the equality of the remembered set with the history, and
  `RefusalsChangeNothing` because remembered cancels exist only for known runners,
  which is what makes it harmless to discard before the look-up.
- `HandshakeProofs`. The lemmas carry the arithmetic: an offer that `Agrees` accepts leads
  to an acknowledgement that is valid for the offer, never above it or the local limits
  (`AgreementSound`), and a valid peer's offer fails only at the inline limit. The
  invariant relates limits, offer and acknowledgement.
- `StdioBridgeProofs`. `IndInv` relates the ids and the counter to the tasks, by bijection
  and cardinality, and the number of tasks to the limits. Before the handshake there is no task, which is why
  the limits may shrink at all. `ManagementAdmitted` is the sum of the two bounds.
  `InlineLimitKeepsServing` rests on `payload >= inline` in all valid limits: it says that no reply is too
  long then, and leaves one way in which `serve` ends early, a JSONL line that is no proper text, and none for the binary bridge.
- `AsyncAdapterProofs`. For batches of any size, any faults and ids used again, `IndInv` is the type, both checked invariants, and
  two facts about counts: a kept coroutine is the last made for its task (`KeptOK`); a child that was handed on, to Core, into the
  batch at hand or into a lost one, is of an earlier coroutine, or is the one its coroutine waits for, or has its outcome (`HandedOK`).
  Each entry is one of two sorts, one that keeps its coroutine and one that drops it, with a lemma for each (`KeepsOK`,
  `DropsOK`); the actions are shown to be of one of them. From the invariant come `ChildrenAccountedFor` and
  `LatestCanBeCancelled`, which say how far the findings 2 and 3 go: a child is lost only with the completions of a batch
  answered by an error, and a cancel misses only tasks its invocation did not run last. `DescriptorsAreNew` needs `HandedOK`: a call is
  awaited again only after its outcome came, so while the outcome is outstanding nobody hands the child out a second time.
  `ResumedOnlyByOutcome` follows from the type. What a cancel cannot do, whatever fails and however
  large batches are, is drop somebody else's work (`NamesAreEarned`): an invocation names a coroutine that ran under
  it, and not one made later for the same task. It rests on the part of `TypeOK` that each task in the index has a
  coroutine, before and after the step, and so on `_remove_invocation` dropping *every* invocation id of a
  task, not only the one at hand.
- `ResourcesProofs`. `ResourcesInv` has two parts. The tables (`StoreOK`, `WritingOK`, `SnapshotsOK`):
  a lease is for its own resource and the version that is current; a file holds the last
  version's bytes, or is torn while there is a lease; the write under way has the lease of its resource; the versions that
  snapshots were taken of stay there. Without the lease of the write under way, a second writer could publish
  between its halves. The worker thread (`FrameOK`, `ExportOK`, `StepsOK`, `CompensateOK`): a version named by an
  export is not above the table's, and what ran is the steps up to the current one, then the compensations from the last.
  `KeepsThePromise` is the refinement of `LeasedStore`: initial states map to initial
  states, the end of a write to the publication of the version its writer built on, and every
  other step to a new resource, an admission or a stutter. The proof found two `CASE`
  expressions with overlapping guards, which TLC takes in order and TLA+ does not; they are
  now `IF`s.
- `ExchangeProofs`. Assumed of the parameters: header and envelope have lengths that are natural numbers
  (`FrameAssumption`); the two ends agree on frame and payload limits after the handshake, as `HandshakeProofs` shows
  (`AgreedLimits`); frames are what the decoders read from any bytes, or from a line of JSON without spaces
  (`MessageAssumption`); entries and rows of a decoded batch are sequences (`BatchAssumption`), which `tuple_from_json` makes them; and a
  runner does not return or raise nothing at all, and what it raises is an error (`EndAssumption`). TLC evaluates all of them on `MCExchange`. Nothing is
  assumed of what the conversions compute. The first half has no state: one lemma per encoder and decoder turns
  its list of checks into a conjunction (`BinaryReads`, `BinaryWrites`, `JsonlReads`, ...), and `BinaryExact`
  and `JsonlExact` compare the two, so that `FramesExact` holds for every message at any limits. A limit that only
  one end checks, or a length that is trusted where another rules, would break an equivalence.
  In the second half, `ExchangeInv` says what a batch that was taken is (`Taken`: its frame was accepted, its value is
  the request in it), that the history names entries of it with tasks of their rows (`RanOK`), and how far the
  completions are (`Progress`, `ResultsOK`: the i-th is of the i-th entry, a failure or the result of a
  run). What was answered is either the completions as they were written or the batch was given up (`AnsweredOK`, `GivenUp`): by a row
  before any entry ran, or by the entry that ran last. `TasksMatchEntries` needs that the history is in the order of the entries,
  `EntriesHaveOutcomes` that completions and entries go in step and that no batch is given up in another way, and `RepliesAreRead` that the request was accepted: a reply has its id and opcode, and
  they pass the host's decoder for that reason.
- `ContractLevelProofs`. `AcceptedComesBack`: what `from_json_dict` accepts, `to_json_value` can write, and what it writes is accepted as
  the same value, so that no field is lost between the two functions. It holds for any set of kinds put together as `Formed`
  says (a field that is skipped while empty holds an object, a default is one that is written as it is or left out, ...),
  for any documents closed under lists and objects, and for any conversion that does on every level what
  `ContractLevel` says; these three hypotheses are `KindsOK`, `DocsOK` and `ConversionsOK`, together `Setting`. TLC evaluates
  `Formed` for each kind of the real contracts (`KindsFormed` in `MCExchange`). A document is finite: `Within`, the
  relation of a part to its whole, is well-founded. Induction over it is not available as a rule (see below), so the proof takes a
  minimal document that is accepted and does not come back (`WFMin`) and refutes it (`DocGood`), with one lemma for each kind
  of kind. `Returns` is stronger than the theorem: the written form is JSON, it is `null` only for a value that is, a
  value that is written as it is stays the same, and what may be skipped is an object, which is what the value around it needs. Kinds nest within one document too (an
  optional of a default of a list ...), which is why `Formed` says what may be inside what.
  `ContractsComeBack` in `ExchangeProofs` is the run's property `ComesBack`. Its hypothesis `Conversions` says that `Exchange` is
  given these conversions, that the documents that come are documents, and that a runner's result which can be written at
  all is one that the contract's own decoder makes (TLC: `OutcomesTyped`). Its invariant `ConvertedInv` keeps where the value being
  held was decoded from, and that each completion is made of values that come back.
- `RunnerLinkProofs`. `LinkInv` says where requests are: each is in the input, at the bridge or in the output,
  in one of them once (`PlacesOK`); the host's table waits under its id for everything that is on its
  way, and for nothing that has got lost while the bridge serves, but a request whose runner raised an error that cannot be written
  (`HostOK`); the bridge drains or cancels only
  after the host has closed the input (`ReaderOK`). It is proved together with the backend's `IndInv`, which
  comes from `RunnerBackendProofs` by instantiation. Without the table, an answer that is delivered could go to the call that uses
  its id next; without the reader, a task cancelled at the shutdown would be a request lost while the input is open.
  `RequestsCorrelated` and the refinement `KeepsTheLedger` follow. `BackendInLink` and
  `BridgeInLink` say that the link's steps are steps of its parts, so that what is proved of them holds
  of the two together; `PartsKeepTheirPromises` draws three such conclusions.
  `CancelsGetIn` says that the bridge refuses nothing but runs (`OnlyRunsRefused`). Neither end knows the other's count: the bridge
  counts what it works on, the host what it has not had an answer to. `ReserveInv` relates them: a task of the bridge is for what
  was asked (`TasksOK`), the host has no more management requests open than the limits in force reserve, and nothing open before
  them (`ReserveOK`), and what was refused so far are runs (`RefusalsOK`). A cancel still in the pipe is one the host counts and the
  bridge does not, so a reserved place is free for it. What the bridge owes to this (`ReservationsMatch`, `ManagementAdmitted`) comes from
  `StdioBridgeProofs` by instantiation.

Only model-checked: liveness (`InputEndStops`, `ShutdownReleases`, `CancelledRunAnswered`), which is out of the
prover's reach (the safe half of the last is `OnlyRunsRefused`); and `RoundTrips`, that what this mirror wrote is
rewritten as the very same document and what an older one wrote is accepted, which is about
the concrete documents of the instance. The library's induction theorems take an operator
as a parameter, which the provers cannot instantiate, and nothing can be proved of a recursive operator: hence the
form of `ContractLevelProofs`.

`TypeOK` of `Handshake`, `AsyncAdapter` and `Exchange` is proved (`TypeCorrect`), and in no run: what is not
plain typing in it is part of a property that is.

## Not modelled

- Bytes: how a document is written as JSON or MessagePack, and how long it gets. Lengths are free
  in `Frames`, so every length is covered, but not which document has it. A JSONL line is as compact as the
  encoders write it, with an envelope of one length (`EnvelopeSize`); a host that adds spaces reaches the line limit sooner.
- `handle_request` of the bridges, the direct entry point that tests use: it reserves nothing and
  has no place in the table of requests.
- `resources/client.py` and the plan builders that only make a record; `get_value`; the
  acknowledgement's mapping codec; `wire/schema.py`; diagnostics.
- A provider that restarts, and providers other than the one in the repository.
- How much a pipe holds: a host that does not read blocks the event loop
  (`transport/stdio_jsonl.py:188`).
- The context a resumed coroutine sees (`runners/async_adapter.py:216`): nothing in the kit
  reads it again.
- What an expired lease still promises, and what a cancel owes to a runner that was replaced: the model has both
  situations, but the repository states no property of them.
- Test helpers and benchmarks, no part of the running system.

## Plan

Done: every component listed above as modelled or partly modelled; each safety property that a run checks is a
theorem, but for `RoundTrips` and the four that are findings. Left, and worth doing in this order:

1. Both copies of the limits, the bridge's and the dispatcher's, as variables of their own (`transport/stdio_jsonl.py:126`), and
   the malformed frames of `Undecodable` on the pipe of `RunnerLink`.
2. In `ContractLevelProofs`, that every document the encoder writes is rewritten as the same document, for kinds without the
   conversion of numbers: the provable part of `RoundTrips`.
3. `handle_request` of the bridges and `resources/client.py`, as actions beside those of `StdioBridge` and `Resources`.
