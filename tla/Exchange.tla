-------------------------------- MODULE Exchange --------------------------------
(***************************************************************************)
(* A message on its way through the kit: read from its frame, decoded,     *)
(* and, if it is a batch, run by the adapter for scalar runners            *)
(* (runners/scalar.py), whose completions go back in a frame.              *)
(*                                                                         *)
(* Messages come one at a time. The codecs and the adapter keep no state   *)
(* between them, so messages that overlap do not meet here; where they do, *)
(* it is in the modules RunnerBackend, AsyncAdapter and StdioBridge.       *)
(*                                                                         *)
(* The conversions of the contracts are parameters: they are defined by    *)
(* recursion over documents, in the module ContractCodec.                  *)
(***************************************************************************)
EXTENDS Frames, FiniteSetsExt

CONSTANTS Messages,      \* what may come: see Message
          Contract,      \* the kinds of contracts that come without a frame, by their names
          HostLimits,    \* the limits of the host after the handshake
          RunnerLimits,  \* those of the bridge: frame and payload limits are the same
          Outcomes,      \* what run_one may end with
          ReplySizes,    \* the lengths a reply may have
          FromJson(_, _),        \* from_json_dict of a contract: its value or what it raises
          ToJson(_, _),          \* to_json_dict of a value, or what it raises
          RequestFromJson(_, _)  \* decode_request: the request of an opcode

ASSUME AgreedLimits == /\ {HostLimits, RunnerLimits} \subseteq Limits
                       /\ HostLimits.frame = RunnerLimits.frame
                       /\ HostLimits.payload = RunnerLimits.payload

\* A message is [codec, name, made, json, frame]: the codec of its frame ("none" if a
\* contract is decoded directly), the contract or opcode it is for, whether its maker is
\* this "mirror", an "older" one or anything "other", its document, and its frame.

RequestIn(frame) == RequestFromJson(frame.opcode, frame.payload)

ASSUME MessageAssumption ==
  \A m \in Messages :
    /\ m.codec \in {"none", "jsonl", "binary"}
    /\ m.codec = "binary" => IsBinaryFrame(m.frame)
    /\ m.codec = "jsonl"  => IsJsonlFrame(m.frame)

\* What the codec makes of a batch has its entries, and its rows if it says so, in order.
InOrder(items) == items \in Seq(Range(items))

ASSUME BatchAssumption ==
  \A m \in Messages :
    m.codec # "none" /\ m.frame.opcode = "runner.run_batch" =>
      LET request == RequestIn(m.frame)
          batch   == request[2].batch[2]
          payload == batch.payload[2]
      IN ~Raised(request) =>
           /\ InOrder(batch.entries[2])
           /\ payload.layout = Text("row") => InOrder(payload.payload[2].rows[2])

ASSUME EndAssumption ==
  /\ \A outcome \in Outcomes :
       /\ outcome.end \in {"returns", "fails", "raises"} /\ outcome.with # Null
       /\ outcome.end = "raises" => Raised(outcome.with)
  /\ ReplySizes \subseteq Nat

VARIABLES stage,    \* where the message is
          message,  \* the one that came
          value,    \* what it decoded to
          at,       \* the entry to run next
          results,  \* the completions so far
          ran,      \* history: the entries given to run_one, with the tasks they got
          answer,   \* what dispatch returned or raised
          reply     \* the frames that went back: one or none

vars == <<stage, message, value, at, results, ran, answer, reply>>

Nothing == <<"nothing">>

--------------------------------------------------------------------------------
(* The batch that is run. *)

Batch   == value[2].batch
Entries == Batch[2].entries[2]
Layout  == Batch[2].payload[2].layout
Rows    == Batch[2].payload[2].payload[2].rows[2]

Row(i) == FromJson(Task, Rows[i])

BadRows == {i \in DOMAIN Rows : Raised(Row(i))}

\* What keeps row_payload_tasks from giving tasks, or Null; a layout without rows is reported
\* like a row that is no task.
Fault == IF Layout # Text("row") THEN TypeError
         ELSE IF BadRows = {} THEN Null ELSE Row(Min(BadRows))

\* The errors the kit makes up itself; their texts are not modelled.
ErrorOf(source) == Object([code |-> Text("code"), source |-> Text(source), route |-> Text("route"),
                           lost_capability |-> Null, recovery |-> Null, cause |-> Null,
                           evidence |-> Object(NoFields)])

Completion(entry, result, error) ==
  Object([entry_id |-> entry[2].entry_id, task_id |-> entry[2].task_id,
          result |-> result, error |-> error])

\* CompletionBatch.from_results
FromResults(completions) ==
  Object([batch_id |-> Batch[2].batch_id, tick_id |-> Batch[2].tick_id,
          results |-> List(completions), metadata |-> List(<<>>)])

\* CompletionBatch.from_error: the same error for every entry.
FromError(error) == [i \in DOMAIN Entries |-> Completion(Entries[i], Null, error)]

\* The rows that hold the task of the entry; the index the entry names is not used.
Candidates(entry) == {i \in DOMAIN Rows : Row(i)[2].task_id = entry[2].task_id}

\* Wrong: entries and rows are taken to be in the same order
RowOfByPosition(entry) == at

\* The first of them.
RowOf(entry) == Min(Candidates(entry))

--------------------------------------------------------------------------------
(* Reading *)

Receive ==
  /\ stage = "idle"
  /\ message' \in Messages
  /\ stage' = "sent"
  /\ UNCHANGED <<value, at, results, ran, answer, reply>>

Refusal == CASE message.codec = "none"   -> Accepted
             [] message.codec = "jsonl"  -> JsonlRequestRefusal(message.frame, RunnerLimits)
             [] message.codec = "binary" -> BinaryRequestRefusal(message.frame, RunnerLimits)

\* The frame is refused; the bridge replies, skips it or ends (see StdioBridge).
RefuseFrame ==
  /\ stage = "sent" /\ Refusal # Accepted
  /\ stage' = "refused"
  /\ UNCHANGED <<message, value, at, results, ran, answer, reply>>

\* from_json_dict of a contract, or decode_request.
DecodeMessage ==
  /\ stage = "sent" /\ Refusal = Accepted
  /\ value' = IF message.codec = "none" THEN FromJson(Contract[message.name], message.json)
              ELSE RequestIn(message.frame)
  /\ stage' = IF Raised(value') THEN "refused"
              ELSE IF message.codec # "none" /\ message.frame.opcode = "runner.run_batch"
                   THEN "batch" ELSE "taken"
  /\ UNCHANGED <<message, at, results, ran, answer, reply>>

--------------------------------------------------------------------------------
(* Running. The layouts and rows are looked at before any entry is run. *)

BatchIs(condition, ending) ==
  /\ stage = "batch" /\ condition
  /\ stage' = ending
  /\ UNCHANGED <<message, value, at, ran, reply>>

StartBatch == BatchIs(Fault = Null, "running") /\ UNCHANGED <<results, answer>>

\* Every entry fails with the fault.
RejectBatch ==
  /\ BatchIs(Fault = TypeError, "finished")
  /\ results' = FromError(ErrorOf("runtime.batch_payload"))
  /\ UNCHANGED answer

\* A ValueError is not caught where the rows are decoded, and leaves run_batch.
BatchRaises ==
  /\ BatchIs(Fault = ValueError, "answered")
  /\ answer' = ValueError
  /\ UNCHANGED results

Running == stage = "running" /\ at <= Len(Entries)

\* Wrong: an entry without a row is passed over
EntryUnknownSkipped ==
  /\ Running /\ Candidates(Entries[at]) = {}
  /\ at' = at + 1
  /\ UNCHANGED <<stage, message, value, results, ran, answer, reply>>

EntryUnknown ==
  /\ Running /\ Candidates(Entries[at]) = {}
  /\ results' = Append(results, Completion(Entries[at], Null, ErrorOf("python_scalar_batch_adapter")))
  /\ at' = at + 1
  /\ UNCHANGED <<stage, message, value, ran, answer, reply>>

\* run_one returns a result, raises a RunnerInvokeError, or raises anything else.
RunEntry ==
  /\ Running /\ Candidates(Entries[at]) # {}
  /\ LET task == Row(RowOf(Entries[at]))
         Completes(result, error) ==
           /\ results' = Append(results, Completion(Entries[at], result, error))
           /\ at' = at + 1 /\ UNCHANGED <<stage, answer>>
     IN /\ ran' = Append(ran, [entry |-> at, task |-> task])
        /\ \E outcome \in Outcomes :
             \/ outcome.end = "returns" /\ Completes(outcome.with, Null)
             \/ outcome.end = "fails"   /\ Completes(Null, outcome.with)
             \/ /\ outcome.end = "raises"
                /\ answer' = outcome.with /\ stage' = "answered" /\ UNCHANGED <<results, at>>
  /\ UNCHANGED <<message, value, reply>>

EndBatch ==
  /\ stage = "running" /\ at > Len(Entries)
  /\ stage' = "finished"
  /\ UNCHANGED <<message, value, at, results, ran, answer, reply>>

\* to_json_dict of the completions raises if a runner returned what is no JSON.
EncodeCompletions ==
  /\ stage = "finished"
  /\ answer' = ToJson(CompletionBatch, FromResults(results))
  /\ stage' = "answered"
  /\ UNCHANGED <<message, value, at, results, ran, reply>>

--------------------------------------------------------------------------------
(* Replying *)

ReplyRefusal(payload, size) ==
  IF message.codec = "binary"
  THEN BinaryEncoding(message.frame.request_id, size, payload, RunnerLimits)
  ELSE JsonlEncoding(message.frame.request_id, size, payload, RunnerLimits)

ReplyFrame(ok, payload, size) ==
  IF message.codec = "binary"
  THEN BinaryFrame(message.frame.request_id, message.frame.opcode, ResponseFlags(ok), payload, size)
  ELSE JsonlResponse(message.frame.request_id, message.frame.opcode, ok, payload, size)

\* _dispatch_and_write: the result; an error if there is none or it does not fit; nothing
\* if the error does not fit either.
Reply ==
  /\ stage = "answered"
  /\ \E size, errorSize \in ReplySizes :
       reply' = IF ~Raised(answer) /\ ReplyRefusal(answer, size) = Accepted
                THEN {ReplyFrame(TRUE, answer, size)}
                ELSE IF ReplyRefusal(ErrorOf("python_runtime_wire"), errorSize) = Accepted
                THEN {ReplyFrame(FALSE, ErrorOf("python_runtime_wire"), errorSize)}
                ELSE {}
  /\ stage' = "replied"
  /\ UNCHANGED <<message, value, at, results, ran, answer>>

Forget ==
  /\ stage \in {"refused", "taken", "replied"}
  /\ stage' = "idle"
  /\ message' = Nothing /\ value' = Nothing /\ answer' = Nothing /\ reply' = {}
  /\ at' = 1 /\ results' = <<>> /\ ran' = <<>>

Init ==
  /\ stage = "idle"
  /\ message = Nothing /\ value = Nothing /\ answer = Nothing /\ reply = {}
  /\ at = 1 /\ results = <<>> /\ ran = <<>>

Next == \/ Receive \/ RefuseFrame \/ DecodeMessage
        \/ StartBatch \/ RejectBatch \/ BatchRaises
        \/ EntryUnknown \/ RunEntry \/ EndBatch \/ EncodeCompletions
        \/ Reply \/ Forget

Spec == Init /\ [][Next]_vars

--------------------------------------------------------------------------------
(* Properties *)

\* A message that is being run has come this far.
TypeOK ==
  /\ stage \in {"idle", "sent", "refused", "taken", "batch", "running", "finished",
                "answered", "replied"}
  /\ stage = "running" => Len(results) = at - 1

\* What a contract accepted is written so that it is accepted as the same value: a contract
\* that came by itself, the tasks in the rows of a batch, and the completions that go back,
\* if they can be written at all.
ComesBack ==
  LET Comes(kind, val) == LET again == ToJson(kind, val)
                          IN  ~Raised(again) /\ FromJson(kind, again) = val
  IN /\ stage = "taken" /\ message.codec = "none" => Comes(Contract[message.name], value)
     /\ stage = "running" => \A i \in DOMAIN Rows : Comes(Task, Row(i))
     /\ stage = "replied" /\ ~Raised(answer) => Comes(CompletionBatch, FromResults(results))

\* What a mirror of this revision wrote is accepted, and is written as the same document
\* again; so are the rows of a batch. What an older one wrote is accepted.
RoundTrips ==
  /\ stage = "taken" /\ message.made = "mirror" =>
       ToJson(Contract[message.name], value) = message.json
  /\ stage = "refused" /\ message.codec = "none" => message.made = "other"
  /\ stage = "running" => \A i \in DOMAIN Rows : ToJson(Task, Row(i)) = Rows[i]

\* The frames that are read are exactly those an encoder of the same limits writes for the
\* same id, opcode and payload, whatever bit or length is changed: but for the management
\* flag, which nobody looks at. Of those the host writes, only the ones beyond the two
\* limits that are never negotiated are refused.
Written(frame, limits) ==
  /\ frame.payload[1] = "map"
  /\ frame.opcode \in Opcodes
  /\ IF message.codec = "binary"
     THEN LET size == frame.prefix - HeaderSize
          IN /\ BinaryEncoding(frame.request_id, size, frame.payload, limits) = Accepted
             /\ [frame EXCEPT !.flags = @ \ {"management"}]
                  = BinaryFrame(frame.request_id, frame.opcode, {"request"}, frame.payload, size)
     ELSE /\ JsonlEncoding(frame.request_id, frame.size, frame.payload, limits) = Accepted
          /\ frame = JsonlFrame(frame.request_id, frame.opcode, frame.payload, frame.size)

LocallyRefused(frame) ==
  IF message.codec = "binary" THEN LongestBytes(frame.payload) > RunnerLimits.inline
  ELSE frame.line > RunnerLimits.line

FramesExact ==
  stage = "sent" /\ message.codec # "none" =>
    /\ Refusal = Accepted <=> Written(message.frame, RunnerLimits)
    /\ Written(message.frame, HostLimits) => (Refusal # Accepted <=> LocallyRefused(message.frame))

\* Entries run in their order and none twice, each with a task of its own id that a row of
\* the batch holds.
RunsOwnTask ==
  \A i \in DOMAIN ran :
    /\ ran[i].task[2].task_id = Entries[ran[i].entry][2].task_id
    /\ \E row \in DOMAIN Rows : ran[i].task = Row(row)
    /\ \A j \in DOMAIN ran : i < j => ran[i].entry < ran[j].entry

\* The completions are one for each entry and in the order of the entries, each with a
\* result or an error and never both. An entry that never ran has no result.
Complete ==
  /\ Len(results) = Len(Entries)
  /\ \A i \in DOMAIN results :
       /\ results[i][2].entry_id = Entries[i][2].entry_id
       /\ (results[i][2].result = Null) # (results[i][2].error = Null)
       /\ results[i][2].result # Null => \E n \in DOMAIN ran : ran[n].entry = i

\* A batch gets one completion for each entry, and what is answered is these, if they can be
\* written. It is answered with an error and no completion at all in two other cases only:
\* a row has raised a ValueError and no entry has run; or the last entry that ran has raised,
\* and those before it lose the completions they had.
OneOutcomeEach ==
  stage \in {"finished", "answered", "replied"} =>
    \/ Complete /\ (stage = "finished" \/ answer = ToJson(CompletionBatch, FromResults(results)))
    \/ /\ stage # "finished" /\ Raised(answer)
       /\ \/ ran = <<>> /\ \E row \in BadRows : Row(row) = ValueError
          \/ ran # <<>> /\ ran[Len(ran)].entry = Len(results) + 1

\* An entry whose own row is a task is given to run_one, whatever the other rows hold. The
\* code does not keep to this: see the run ExchangeIsolation.
DecodingIsolated ==
  stage = "finished" /\ Layout = Text("row") =>
    \A i \in DOMAIN Entries :
      (\E row \in DOMAIN Rows \ BadRows : Row(row)[2].task_id = Entries[i][2].task_id)
        => \E n \in DOMAIN ran : ran[n].entry = i

\* A batch that was taken is answered with its own id and opcode in a frame the host reads,
\* unless bytes in it are longer than the host takes, or even the error did not fit.
Answered ==
  stage = "replied" =>
    /\ \A frame \in reply :
         /\ frame.request_id = message.frame.request_id
         /\ frame.opcode = message.frame.opcode
         /\ message.codec = "binary" =>
              \/ BinaryResponseRefusal(frame, HostLimits) = Accepted
              \/ LongestBytes(frame.payload) > HostLimits.inline
         /\ message.codec = "jsonl" => frame.line <= RunnerLimits.line
    /\ reply = {} =>
         \E size \in ReplySizes : ReplyRefusal(ErrorOf("python_runtime_wire"), size) # Accepted
=================================================================================
