---------------------------- MODULE ExchangeProofs ----------------------------
(***************************************************************************)
(* What the frames and the adapter for scalar runners guarantee whatever   *)
(* the limits, the messages and the conversions of the contracts are.      *)
(***************************************************************************)
EXTENDS Exchange, ContractLevelProofs, SequenceTheorems

(* What both ends ask of a payload in a binary frame. *)
Packable(payload, limits) ==
  /\ ~(Depth(payload) > MaxNestingDepth)
  /\ ~(Width(payload) > MaxContainerItems)
  /\ ~(LongestBytes(payload) > limits.inline)

(* The header of a binary frame passes the checks of the decoder. *)
SoundHeader(frame, limits) ==
  /\ HeaderSize <= frame.prefix /\ frame.prefix <= limits.frame
  /\ frame.prefix <= frame.body
  /\ frame.magic /\ frame.major = Current
  /\ frame.flags \subseteq {"request", "response", "error", "management"}
  /\ "request" \in frame.flags <=> "response" \notin frame.flags
  /\ "error" \in frame.flags => "response" \in frame.flags
  /\ frame.request_id > 0 /\ frame.opcode \in Opcodes
  /\ frame.payload_len = frame.prefix - HeaderSize
  /\ frame.payload_len <= limits.payload

(* The errors and results that are given to an entry, and the completions. *)
Given == {outcome.with : outcome \in Outcomes}
           \cup {ErrorOf("runtime.batch_payload"), ErrorOf("python_scalar_batch_adapter")}

Failures(entry)  == {Completion(entry, Null, given) : given \in Given}
Successes(entry) == {Completion(entry, given, Null) : given \in Given}

(* The entries that were given to run_one. *)
Run == {ran[n].entry : n \in DOMAIN ran}

(* A batch that has been taken, and what has been done of it. *)
Ended == {"finished", "answered", "replied"}

Taken ==
  stage \in {"batch", "running"} \cup Ended =>
    /\ message.codec # "none" /\ Refusal = Accepted
    /\ message.frame.opcode = "runner.run_batch"
    /\ value = RequestIn(message.frame) /\ ~Raised(value)

Started ==
  /\ stage \notin {"running"} \cup Ended => at = 1 /\ results = <<>> /\ ran = <<>>
  /\ stage # "replied" => reply = {}

RanOK ==
  /\ InOrder(ran)
  /\ \A n \in DOMAIN ran : ran[n].entry \in DOMAIN Entries
  /\ RunsOwnTask

ResultsOK ==
  /\ InOrder(results)
  /\ Len(results) <= Len(Entries)
  /\ \A i \in DOMAIN results :
       \/ results[i] \in Failures(Entries[i])
       \/ results[i] \in Successes(Entries[i]) /\ i \in Run

Progress ==
  /\ stage = "running" => /\ at \in 1..Len(Entries) + 1
                          /\ Len(results) = at - 1
                          /\ BadRows = {} /\ Layout = Text("row")
                          /\ \A entry \in Run : entry < at
  /\ stage \in {"running", "finished"} => ResultsOK
  /\ stage = "finished" => Len(results) = Len(Entries)

(* What has become of a batch that has been answered: it has its completions, or it was   *)
(* given up before an entry ran, or in the entry that ran last.                           *)
AsWritten == answer = ToJson(CompletionBatch, FromResults(results))

GivenUp ==
  /\ Raised(answer)
  /\ \/ ran = <<>> /\ \E row \in BadRows : Row(row) = ValueError
     \/ ran # <<>> /\ ran[Len(ran)].entry = Len(results) + 1

AnsweredOK ==
  stage \in {"answered", "replied"} =>
    (ResultsOK /\ Len(results) = Len(Entries) /\ AsWritten) \/ GivenUp

ExchangeInv ==
  /\ TypeOK
  /\ stage # "idle" => message \in Messages
  /\ Taken /\ Started /\ RanOK /\ Progress /\ AnsweredOK /\ Answered

-----------------------------------------------------------------------------
(* The checks of the frames, one decoder or encoder at a time. *)

LEMMA HeaderChecks ==
  ASSUME NEW frame, IsBinaryFrame(frame), NEW limits \in Limits
  PROVE  BinaryFrameRefusal(frame, limits) = Accepted <=> SoundHeader(frame, limits)
<1>1. BinaryLengthRefusal(frame, limits) = Accepted <=>
        /\ frame.payload_len = frame.prefix - HeaderSize
        /\ frame.payload_len <= limits.payload
  BY FrameAssumption DEF BinaryLengthRefusal, Fails, ??, Accepted, IsBinaryFrame, Limits
<1> DEFINE length == BinaryLengthRefusal(frame, limits)
<1>2. BinaryFrameRefusal(frame, limits) = Accepted <=>
        /\ ~(frame.prefix < HeaderSize) /\ ~(frame.prefix > limits.frame)
        /\ ~(frame.body < frame.prefix)
        /\ frame.magic /\ frame.major = Current
        /\ frame.flags \subseteq {"request", "response", "error", "management"}
        /\ ~("request" \in frame.flags <=> "response" \in frame.flags)
        /\ "error" \in frame.flags => "response" \in frame.flags
        /\ ~(frame.request_id <= 0) /\ frame.opcode \in Opcodes
        /\ length = Accepted
  BY DEF BinaryFrameRefusal, Fails, ??, Accepted
<1>3. /\ frame.prefix \in Nat /\ frame.body \in Nat /\ frame.request_id \in Nat /\ HeaderSize \in Nat
      /\ limits.frame \in Int
  BY FrameAssumption DEF IsBinaryFrame, Limits
<1> QED
  BY <1>1, <1>2, <1>3 DEF SoundHeader

LEMMA UnpackChecks ==
  ASSUME NEW payload, NEW whole \in BOOLEAN, NEW limits
  PROVE  UnpackRefusal(payload, whole, limits) = Accepted <=> whole /\ Packable(payload, limits)
  BY DEF UnpackRefusal, Packable, Fails, ??, Accepted

LEMMA BinaryReads ==
  ASSUME NEW frame, IsBinaryFrame(frame), NEW limits \in Limits
  PROVE  BinaryRequestRefusal(frame, limits) = Accepted <=>
           /\ SoundHeader(frame, limits) /\ "request" \in frame.flags
           /\ frame.prefix = frame.body /\ Packable(frame.payload, limits)
           /\ frame.payload[1] = "map"
<1> DEFINE header == BinaryFrameRefusal(frame, limits)
           unpack == UnpackRefusal(frame.payload, frame.prefix = frame.body, limits)
<1>1. BinaryRequestRefusal(frame, limits) = Accepted <=>
        /\ header = Accepted /\ "request" \in frame.flags /\ unpack = Accepted
        /\ frame.payload[1] = "map"
  BY DEF BinaryRequestRefusal, Fails, ??, Accepted
<1>2. unpack = Accepted <=> frame.prefix = frame.body /\ Packable(frame.payload, limits)
  BY UnpackChecks
<1> QED
  BY <1>1, <1>2, HeaderChecks

LEMMA BinaryReadsResponse ==
  ASSUME NEW frame, IsBinaryFrame(frame), NEW limits \in Limits
  PROVE  BinaryResponseRefusal(frame, limits) = Accepted <=>
           /\ SoundHeader(frame, limits) /\ "response" \in frame.flags
           /\ frame.prefix = frame.body /\ Packable(frame.payload, limits)
<1> DEFINE header == BinaryFrameRefusal(frame, limits)
           unpack == UnpackRefusal(frame.payload, frame.prefix = frame.body, limits)
<1>1. BinaryResponseRefusal(frame, limits) = Accepted <=>
        header = Accepted /\ "response" \in frame.flags /\ unpack = Accepted
  BY DEF BinaryResponseRefusal, Fails, ??, Accepted
<1>2. unpack = Accepted <=> frame.prefix = frame.body /\ Packable(frame.payload, limits)
  BY UnpackChecks
<1> QED
  BY <1>1, <1>2, HeaderChecks

LEMMA BinaryWrites ==
  ASSUME NEW id \in Int, NEW size \in Int, NEW payload, NEW limits \in Limits
  PROVE  BinaryEncoding(id, size, payload, limits) = Accepted <=>
           /\ Packable(payload, limits)
           /\ id > 0 /\ size <= limits.payload /\ HeaderSize + size <= limits.frame
<1> DEFINE pack == PackRefusal(payload, limits)
<1>1. pack = Accepted <=> Packable(payload, limits)
  BY DEF PackRefusal, Packable, Fails, ??, Accepted
<1>2. BinaryEncoding(id, size, payload, limits) = Accepted <=>
        /\ pack = Accepted /\ ~(id <= 0) /\ ~(size > limits.payload)
        /\ ~(HeaderSize + size > limits.frame)
  BY DEF BinaryEncoding, Fails, ??, Accepted
<1>3. limits.payload \in Int /\ limits.frame \in Int /\ HeaderSize \in Int
  BY FrameAssumption DEF Limits
<1> QED
  BY <1>1, <1>2, <1>3

LEMMA JsonlReads ==
  ASSUME NEW frame, IsJsonlFrame(frame), NEW limits \in Limits
  PROVE  JsonlRequestRefusal(frame, limits) = Accepted <=>
           /\ frame.line <= limits.line /\ frame.request_id > 0 /\ frame.major = Current
           /\ frame.opcode \in Opcodes /\ frame.method = frame.opcode
           /\ frame.payload[1] = "map" /\ frame.payload_len = frame.size
           /\ frame.payload_len <= limits.payload
<1>1. JsonlRequestRefusal(frame, limits) = Accepted <=>
        /\ ~(frame.line > limits.line) /\ ~(frame.request_id <= 0) /\ frame.major = Current
        /\ frame.opcode \in Opcodes /\ frame.method = frame.opcode
        /\ frame.payload[1] = "map" /\ frame.payload_len = frame.size
        /\ ~(frame.payload_len > limits.payload)
  BY DEF JsonlRequestRefusal, Fails, ??, Accepted
<1>2. frame.line \in Int /\ frame.request_id \in Int /\ frame.payload_len \in Int /\ limits.line \in Int /\ limits.payload \in Int
  BY DEF IsJsonlFrame, Limits
<1> QED
  BY <1>1, <1>2

LEMMA JsonlWrites ==
  ASSUME NEW id \in Int, NEW size \in Int, NEW payload, NEW limits \in Limits
  PROVE  JsonlEncoding(id, size, payload, limits) = Accepted <=>
           /\ id > 0 /\ Jsonable(payload) /\ size <= limits.payload
           /\ EnvelopeSize + size <= limits.line
<1>1. JsonlEncoding(id, size, payload, limits) = Accepted <=>
        /\ ~(id <= 0) /\ Jsonable(payload) /\ ~(size > limits.payload)
        /\ ~(EnvelopeSize + size > limits.line)
  BY DEF JsonlEncoding, Fails, ??, Accepted
<1>2. limits.payload \in Int /\ limits.line \in Int /\ EnvelopeSize \in Int
  BY FrameAssumption DEF Limits
<1> QED
  BY <1>1, <1>2

-----------------------------------------------------------------------------
(* A frame is, but for the management flag, one the encoder makes of its   *)
(* id, opcode and payload exactly when its header is that of the encoder.  *)
LEMMA BinaryMade ==
  ASSUME NEW frame, IsBinaryFrame(frame)
  PROVE  LET size == frame.prefix - HeaderSize
         IN  [frame EXCEPT !.flags = @ \ {"management"}]
               = BinaryFrame(frame.request_id, frame.opcode, {"request"}, frame.payload, size)
             <=> /\ frame.body = frame.prefix /\ frame.magic /\ frame.major = Current
                 /\ frame.flags \ {"management"} = {"request"}
                 /\ frame.payload_len = size
<1> DEFINE size  == frame.prefix - HeaderSize
           shown == frame.flags \ {"management"}
           made  == BinaryFrame(frame.request_id, frame.opcode, {"request"}, frame.payload, size)
<1>1. HeaderSize + size = frame.prefix
  BY FrameAssumption DEF IsBinaryFrame
<1>2. made = [prefix |-> frame.prefix, body |-> frame.prefix, magic |-> TRUE,
              major |-> Current, opcode |-> frame.opcode, flags |-> {"request"},
              request_id |-> frame.request_id, payload_len |-> size,
              payload |-> frame.payload]
  BY <1>1 DEF BinaryFrame
<1> HIDE DEF size, made, shown
<1>3. [frame EXCEPT !.flags = shown]
        = [prefix |-> frame.prefix, body |-> frame.body, magic |-> frame.magic,
           major |-> frame.major, opcode |-> frame.opcode, flags |-> shown,
           request_id |-> frame.request_id, payload_len |-> frame.payload_len,
           payload |-> frame.payload]
  BY DEF IsBinaryFrame
<1>4. frame.magic \in BOOLEAN
  BY DEF IsBinaryFrame
<1>5. [frame EXCEPT !.flags = shown] = made
        <=> /\ frame.body = frame.prefix /\ frame.magic /\ frame.major = Current
            /\ shown = {"request"} /\ frame.payload_len = size
  BY <1>2, <1>3, <1>4
<1> QED
  BY <1>5 DEF size, made, shown

LEMMA JsonlMade ==
  ASSUME NEW frame, IsJsonlFrame(frame)
  PROVE  frame = JsonlFrame(frame.request_id, frame.opcode, frame.payload, frame.size)
           <=> /\ frame.major = Current /\ frame.method = frame.opcode
               /\ frame.payload_len = frame.size
<1>1. frame = [line |-> frame.line, major |-> frame.major, opcode |-> frame.opcode,
               method |-> frame.method, request_id |-> frame.request_id,
               payload_len |-> frame.payload_len, size |-> frame.size,
               payload |-> frame.payload]
  BY DEF IsJsonlFrame
<1>2. frame.line = EnvelopeSize + frame.size
  BY DEF IsJsonlFrame
<1> QED
  BY <1>1, <1>2 DEF JsonlFrame

(* The frames that are read are those that are written. *)
LEMMA BinaryExact ==
  ASSUME NEW frame, IsBinaryFrame(frame), NEW limits \in Limits, message.codec = "binary"
  PROVE  BinaryRequestRefusal(frame, limits) = Accepted <=> Written(frame, limits)
<1> DEFINE size == frame.prefix - HeaderSize
<1>1. /\ frame.prefix \in Nat /\ frame.body \in Nat /\ frame.payload_len \in Nat /\ frame.request_id \in Nat /\ HeaderSize \in Nat
      /\ limits.frame \in Int /\ limits.payload \in Int /\ size \in Int
  BY FrameAssumption DEF IsBinaryFrame, Limits
<1>2. BinaryEncoding(frame.request_id, size, frame.payload, limits) = Accepted <=>
        /\ Packable(frame.payload, limits) /\ frame.request_id > 0
        /\ size <= limits.payload /\ HeaderSize + size <= limits.frame
  BY <1>1, BinaryWrites
<1>3. Written(frame, limits) <=>
        /\ frame.payload[1] = "map" /\ frame.opcode \in Opcodes
        /\ Packable(frame.payload, limits) /\ frame.request_id > 0
        /\ size <= limits.payload /\ HeaderSize + size <= limits.frame
        /\ frame.body = frame.prefix /\ frame.magic /\ frame.major = Current
        /\ frame.flags \ {"management"} = {"request"} /\ frame.payload_len = size
  BY <1>2, BinaryMade DEF Written
<1>4. /\ HeaderSize + size = frame.prefix
      /\ HeaderSize <= frame.prefix <=> size >= 0
      /\ frame.payload_len >= 0
  BY <1>1
<1>5. frame.flags \ {"management"} = {"request"} <=>
        /\ frame.flags \subseteq {"request", "response", "error", "management"}
        /\ "request" \in frame.flags /\ "response" \notin frame.flags
        /\ "error" \notin frame.flags
  OBVIOUS
<1> HIDE DEF size
<1>6. SoundHeader(frame, limits) /\ "request" \in frame.flags <=>
        /\ HeaderSize <= frame.prefix /\ frame.prefix <= limits.frame
        /\ frame.prefix <= frame.body
        /\ frame.magic /\ frame.major = Current
        /\ frame.flags \ {"management"} = {"request"}
        /\ frame.request_id > 0 /\ frame.opcode \in Opcodes
        /\ frame.payload_len = size /\ frame.payload_len <= limits.payload
  BY <1>5 DEF SoundHeader, size
<1> QED
  BY <1>1, <1>3, <1>4, <1>6, BinaryReads

LEMMA JsonlExact ==
  ASSUME NEW frame, IsJsonlFrame(frame), NEW limits \in Limits, message.codec = "jsonl"
  PROVE  JsonlRequestRefusal(frame, limits) = Accepted <=> Written(frame, limits)
<1>1. /\ frame.request_id \in Int /\ frame.size \in Int /\ Jsonable(frame.payload)
      /\ frame.line = EnvelopeSize + frame.size
  BY DEF IsJsonlFrame
<1>2. JsonlEncoding(frame.request_id, frame.size, frame.payload, limits) = Accepted <=>
        /\ frame.request_id > 0 /\ frame.size <= limits.payload /\ frame.line <= limits.line
  BY <1>1, JsonlWrites
<1> QED
  BY <1>2, JsonlMade, JsonlReads DEF Written

-----------------------------------------------------------------------------
(* Sequences and the batch at hand. *)

LEMMA LeastOf ==
  ASSUME NEW S, S \subseteq Nat, S # {}
  PROVE  Min(S) \in S
<1> DEFINE R == OpToRel(<, Nat)
<1>1. /\ IsWellFoundedOn(R, Nat)
      /\ \A x, y \in Nat : y < x => <<y, x>> \in R
  BY NatLessThanWellFounded DEF OpToRel
<1> HIDE DEF R
<1>2. PICK x \in S : \A y \in S : <<y, x>> \notin R
  BY <1>1, WFMin
<1>3. ASSUME NEW y \in S PROVE x <= y
  <2>1. x \in Nat /\ y \in Nat /\ ~(y < x)
    BY <1>1, <1>2
  <2> QED
    BY <2>1
<1> QED
  BY <1>3 DEF Min

LEMMA InOrderSeq ==
  ASSUME NEW S, NEW s \in Seq(S)
  PROVE  InOrder(s)
<1>1. s \in [1..Len(s) -> Range(s)] /\ Len(s) \in Nat
  BY DEF Range
<1> QED
  BY <1>1 DEF InOrder

LEMMA InOrderAppend ==
  ASSUME NEW s, InOrder(s), NEW e
  PROVE  /\ InOrder(Append(s, e)) /\ Len(s) \in Nat
         /\ DOMAIN s = 1..Len(s) /\ DOMAIN Append(s, e) = 1..Len(s) + 1
         /\ Len(Append(s, e)) = Len(s) + 1
         /\ \A i \in DOMAIN s : Append(s, e)[i] = s[i]
         /\ Append(s, e)[Len(s) + 1] = e
<1> DEFINE S == Range(s) \cup {e}
<1>1. s \in Seq(S)
  BY DEF InOrder
<1>2. Append(s, e) \in Seq(S)
  BY <1>1
<1> HIDE DEF S
<1>3. InOrder(Append(s, e))
  BY <1>2, InOrderSeq
<1>4. /\ Len(s) \in Nat /\ DOMAIN s = 1..Len(s) /\ DOMAIN Append(s, e) = 1..Len(s) + 1
      /\ Len(Append(s, e)) = Len(s) + 1
  BY <1>1, <1>2
<1>5. e \in S
  BY DEF S
<1> QED
  BY <1>1, <1>3, <1>4, <1>5, AppendProperties

(* The batch is a part of the value. *)
LEMMA SameBatch ==
  ASSUME UNCHANGED value
  PROVE  /\ Batch' = Batch /\ Entries' = Entries /\ Layout' = Layout /\ Rows' = Rows
         /\ BadRows' = BadRows /\ Fault' = Fault /\ \A i : Row(i)' = Row(i)
  BY DEF Batch, Entries, Layout, Rows, BadRows, Fault, Row

LEMMA BatchInOrder ==
  ASSUME ExchangeInv, stage \in {"batch", "running"} \cup Ended
  PROVE  InOrder(Entries) /\ (Layout = Text("row") => InOrder(Rows))
<1>1. /\ message \in Messages /\ message.codec # "none"
      /\ message.frame.opcode = "runner.run_batch"
      /\ value = RequestIn(message.frame) /\ ~Raised(value)
  BY DEF ExchangeInv, Taken, Ended
<1> QED
  BY <1>1, BatchAssumption DEF Entries, Layout, Rows, Batch

LEMMA NoFault ==
  ASSUME ExchangeInv, stage = "batch", Fault = Null
  PROVE  BadRows = {} /\ Layout = Text("row")
<1>1. Layout = Text("row")
  BY DEF Fault, Null, TypeError
<1>2. ASSUME BadRows # {} PROVE FALSE
  <2>1. InOrder(Rows)
    BY <1>1, BatchInOrder
  <2>2. BadRows \subseteq Nat
    BY <2>1 DEF BadRows, InOrder
  <2>3. Raised(Row(Min(BadRows)))
    BY <1>2, <2>2, LeastOf DEF BadRows
  <2>4. Fault = Row(Min(BadRows))
    BY <1>1, <1>2 DEF Fault
  <2> QED
    BY <2>3, <2>4 DEF Raised, Null, TypeError, ValueError
<1> QED
  BY <1>1, <1>2

(* The row of an entry is one of the batch and holds the task of the entry. *)
LEMMA RowOfEntry ==
  ASSUME InOrder(Rows), NEW entry, Candidates(entry) # {}
  PROVE  RowOf(entry) \in DOMAIN Rows /\ Row(RowOf(entry))[2].task_id = entry[2].task_id
<1>1. Candidates(entry) \subseteq Nat
  BY DEF Candidates, InOrder
<1>2. RowOf(entry) \in Candidates(entry)
  BY <1>1, LeastOf DEF RowOf
<1> QED
  BY <1>2 DEF Candidates

(* A completion has its entry's id and either a result or an error. *)
LEMMA CompletionOK ==
  ASSUME NEW entry
  PROVE  /\ \A completion \in Failures(entry) :
              /\ completion[2].entry_id = entry[2].entry_id
              /\ completion[2].result = Null /\ completion[2].error # Null
         /\ \A completion \in Successes(entry) :
              /\ completion[2].entry_id = entry[2].entry_id
              /\ completion[2].result # Null /\ completion[2].error = Null
<1>1. \A given \in Given : given # Null
  BY EndAssumption DEF Given, ErrorOf, Object, Null
<1> QED
  BY <1>1 DEF Failures, Successes, Completion, Object

-----------------------------------------------------------------------------
(* A reply in a frame, as the host sees it. *)
LEMMA ReplyReads ==
  ASSUME message \in Messages, message.codec # "none", Refusal = Accepted,
         NEW ok \in BOOLEAN, NEW payload, NEW size \in ReplySizes,
         ReplyRefusal(payload, size) = Accepted,
         NEW frame, frame = ReplyFrame(ok, payload, size)
  PROVE  /\ frame.request_id = message.frame.request_id
         /\ frame.opcode = message.frame.opcode
         /\ message.codec = "binary" =>
              \/ BinaryResponseRefusal(frame, HostLimits) = Accepted
              \/ LongestBytes(frame.payload) > HostLimits.inline
         /\ message.codec = "jsonl" => frame.line <= RunnerLimits.line
<1> DEFINE id == message.frame.request_id
           opcode == message.frame.opcode
<1>1. /\ HostLimits \in Limits /\ RunnerLimits \in Limits
      /\ HostLimits.frame = RunnerLimits.frame /\ HostLimits.payload = RunnerLimits.payload
  BY AgreedLimits
<1>2. size \in Nat /\ HeaderSize \in Nat
  BY EndAssumption, FrameAssumption
<1>3. CASE message.codec = "binary"
  <2>1. IsBinaryFrame(message.frame)
    BY <1>3, MessageAssumption
  <2>2. BinaryRequestRefusal(message.frame, RunnerLimits) = Accepted
    BY <1>3 DEF Refusal
  <2>3. id \in Nat /\ id > 0 /\ opcode \in Opcodes
    BY <1>1, <2>1, <2>2, BinaryReads DEF SoundHeader, IsBinaryFrame
  <2> HIDE DEF id, opcode
  <2>4. frame = BinaryFrame(id, opcode, ResponseFlags(ok), payload, size)
    BY <1>3 DEF ReplyFrame, id, opcode
  <2>5. BinaryEncoding(id, size, payload, RunnerLimits) = Accepted
    BY <1>3 DEF ReplyRefusal, id
  <2>6. /\ Packable(payload, RunnerLimits)
        /\ size <= RunnerLimits.payload /\ HeaderSize + size <= RunnerLimits.frame
    BY <1>1, <1>2, <2>3, <2>5, BinaryWrites
  <2> DEFINE flags == ResponseFlags(ok)
             full  == HeaderSize + size
  <2>7. /\ full \in Nat /\ full - HeaderSize = size /\ HeaderSize <= full /\ full <= full
    BY <1>2
  <2>8. /\ flags \subseteq {"request", "response", "error", "management"}
        /\ "request" \notin flags /\ "response" \in flags
    <3>1. flags = {"response"} \/ flags = {"response", "error"}
      BY DEF ResponseFlags
    <3> HIDE DEF flags
    <3>2. CASE flags = {"response"}
      BY <3>2
    <3>3. CASE flags = {"response", "error"}
      BY <3>3
    <3> QED
      BY <3>1, <3>2, <3>3
  <2>9. frame = [prefix |-> full, body |-> full, magic |-> TRUE, major |-> Current,
                 opcode |-> opcode, flags |-> flags, request_id |-> id, payload_len |-> size,
                 payload |-> payload]
    BY <2>4 DEF BinaryFrame
  <2>10. full <= HostLimits.frame /\ size <= HostLimits.payload
    BY <1>1, <2>6
  <2> HIDE DEF flags, full
  <2>11. IsBinaryFrame(frame)
    BY <1>2, <2>3, <2>7, <2>8, <2>9 DEF IsBinaryFrame
  <2>12. SoundHeader(frame, HostLimits)
    BY <2>3, <2>7, <2>8, <2>9, <2>10 DEF SoundHeader
  <2>13. BinaryResponseRefusal(frame, HostLimits) = Accepted
           <=> Packable(payload, HostLimits)
    BY <1>1, <2>8, <2>9, <2>11, <2>12, BinaryReadsResponse
  <2>14. Packable(payload, HostLimits) \/ LongestBytes(payload) > HostLimits.inline
    BY <2>6 DEF Packable
  <2> QED
    BY <1>3, <2>9, <2>13, <2>14 DEF id, opcode
<1>4. CASE message.codec = "jsonl"
  <2>1. IsJsonlFrame(message.frame)
    BY <1>4, MessageAssumption
  <2>2. id \in Int
    BY <2>1 DEF IsJsonlFrame
  <2> HIDE DEF id, opcode
  <2>3. JsonlEncoding(id, size, payload, RunnerLimits) = Accepted
    BY <1>4 DEF ReplyRefusal, id
  <2>4. EnvelopeSize + size <= RunnerLimits.line
    BY <1>1, <1>2, <2>2, <2>3, JsonlWrites
  <2>5. frame = JsonlResponse(id, opcode, ok, payload, size)
    BY <1>4 DEF ReplyFrame, id, opcode
  <2>6. frame.line = EnvelopeSize + size /\ frame.opcode = opcode /\ frame.request_id = id
    BY <2>5 DEF JsonlResponse
  <2> QED
    BY <1>4, <2>4, <2>6 DEF id, opcode
<1> QED
  BY <1>3, <1>4, MessageAssumption

(* What is refused, and what the host wrote that is refused. *)
LEMMA ReadsExactly ==
  ASSUME message \in Messages, message.codec # "none"
  PROVE  /\ Refusal = Accepted <=> Written(message.frame, RunnerLimits)
         /\ Written(message.frame, HostLimits) =>
              (Refusal # Accepted <=> LocallyRefused(message.frame))
<1> DEFINE frame == message.frame
<1>1. /\ HostLimits \in Limits /\ RunnerLimits \in Limits
      /\ HostLimits.frame = RunnerLimits.frame /\ HostLimits.payload = RunnerLimits.payload
  BY AgreedLimits
<1>2. CASE message.codec = "binary"
  <2>1. IsBinaryFrame(frame)
    BY <1>2, MessageAssumption
  <2>2. Refusal = BinaryRequestRefusal(frame, RunnerLimits)
    BY <1>2 DEF Refusal
  <2>3. LocallyRefused(frame) <=> LongestBytes(frame.payload) > RunnerLimits.inline
    BY <1>2 DEF LocallyRefused
  <2> HIDE DEF frame
  <2>4. \A limits \in Limits :
          BinaryRequestRefusal(frame, limits) = Accepted <=> Written(frame, limits)
    BY <1>2, <2>1, BinaryExact
  <2>5. SoundHeader(frame, HostLimits) <=> SoundHeader(frame, RunnerLimits)
    BY <1>1 DEF SoundHeader
  <2>6. ASSUME Packable(frame.payload, HostLimits)
        PROVE  Packable(frame.payload, RunnerLimits) <=>
                 ~(LongestBytes(frame.payload) > RunnerLimits.inline)
    BY <2>6 DEF Packable
  <2> QED
    BY <1>1, <2>1, <2>2, <2>3, <2>4, <2>5, <2>6, BinaryReads DEF frame
<1>3. CASE message.codec = "jsonl"
  <2>1. IsJsonlFrame(frame)
    BY <1>3, MessageAssumption
  <2>2. Refusal = JsonlRequestRefusal(frame, RunnerLimits)
    BY <1>3 DEF Refusal
  <2>3. LocallyRefused(frame) <=> frame.line > RunnerLimits.line
    BY <1>3 DEF LocallyRefused
  <2> HIDE DEF frame
  <2>4. \A limits \in Limits :
          JsonlRequestRefusal(frame, limits) = Accepted <=> Written(frame, limits)
    BY <1>3, <2>1, JsonlExact
  <2>5. frame.line \in Int /\ RunnerLimits.line \in Int
    BY <1>1, <2>1 DEF IsJsonlFrame, Limits
  <2>6. frame.line > RunnerLimits.line <=> ~(frame.line <= RunnerLimits.line)
    BY <2>5
  <2> QED
    BY <1>1, <2>1, <2>2, <2>3, <2>4, <2>6, JsonlReads DEF frame
<1> QED
  BY <1>2, <1>3, MessageAssumption

-----------------------------------------------------------------------------
(* What a step leaves as it was. *)

LEMMA TakenKept ==
  ASSUME ExchangeInv, stage \in {"batch", "running"} \cup Ended, UNCHANGED <<message, value>>
  PROVE  Taken'
<1>1. Refusal' = Refusal
  BY DEF Refusal
<1> QED
  BY <1>1 DEF ExchangeInv, Taken, Ended

LEMMA RanKept ==
  ASSUME ExchangeInv, UNCHANGED <<value, ran>>
  PROVE  RanOK'
  BY SameBatch DEF ExchangeInv, RanOK, RunsOwnTask

LEMMA ResultsKept ==
  ASSUME ResultsOK, UNCHANGED <<value, ran, results>>
  PROVE  ResultsOK'
  BY SameBatch DEF ResultsOK, Run

LEMMA AnsweredKept ==
  ASSUME AnsweredOK, stage \in {"answered", "replied"}, UNCHANGED <<value, ran, results, answer>>
  PROVE  AnsweredOK'
<1>1. /\ Batch' = Batch /\ Entries' = Entries /\ BadRows' = BadRows /\ \A i : Row(i)' = Row(i)
  BY SameBatch
<1>2. ResultsOK => ResultsOK'
  BY ResultsKept
<1>3. AsWritten => AsWritten'
  BY <1>1 DEF AsWritten, FromResults
<1>4. GivenUp => GivenUp'
  BY <1>1 DEF GivenUp
<1> QED
  BY <1>1, <1>2, <1>3, <1>4 DEF AnsweredOK

(* One more completion, that of the next entry. *)
LEMMA ResultsGrow ==
  ASSUME ResultsOK, Len(results) + 1 <= Len(Entries), UNCHANGED value, Run \subseteq Run',
         NEW completion, results' = Append(results, completion),
         \/ completion \in Failures(Entries[Len(results) + 1])
         \/ completion \in Successes(Entries[Len(results) + 1]) /\ Len(results) + 1 \in Run'
  PROVE  ResultsOK' /\ Len(results') = Len(results) + 1
<1> DEFINE n == Len(results)
<1>1. InOrder(results)
  BY DEF ResultsOK
<1>2. /\ InOrder(results') /\ n \in Nat /\ DOMAIN results = 1..n
      /\ DOMAIN results' = 1..n + 1 /\ Len(results') = n + 1
      /\ \A i \in DOMAIN results : results'[i] = results[i]
      /\ results'[n + 1] = completion
  BY <1>1, InOrderAppend
<1>3. ASSUME NEW i \in DOMAIN results'
      PROVE  \/ results'[i] \in Failures(Entries[i])
             \/ results'[i] \in Successes(Entries[i]) /\ i \in Run'
  <2>1. CASE i = n + 1
    BY <1>2, <2>1
  <2>2. CASE i # n + 1
    <3>1. i \in DOMAIN results
      BY <1>2, <2>2
    <3> QED
      BY <1>2, <3>1 DEF ResultsOK
  <2> QED
    BY <2>1, <2>2
<1>4. Entries' = Entries
  BY SameBatch
<1>5. \A i : Failures(Entries[i])' = Failures(Entries'[i]) /\ Successes(Entries[i])' = Successes(Entries'[i])
  BY DEF Failures, Successes, Completion, Given
<1> QED
  BY <1>2, <1>3, <1>4, <1>5 DEF ResultsOK, n

-----------------------------------------------------------------------------
(* Every action keeps the invariant. *)

LEMMA InitOK == Init => ExchangeInv
<1> SUFFICES ASSUME Init PROVE ExchangeInv
  OBVIOUS
<1>1. stage = "idle" /\ at = 1 /\ results = <<>> /\ ran = <<>> /\ reply = {}
  BY DEF Init
<1>2. InOrder(ran)
  BY <1>1, InOrderSeq, EmptySeq
<1>3. \A n : n \notin DOMAIN ran
  BY <1>1
<1>4. RanOK
  BY <1>2, <1>3 DEF RanOK, RunsOwnTask
<1> QED
  BY <1>1, <1>4 DEF ExchangeInv, TypeOK, Taken, Started, Progress, AnsweredOK, Answered, Ended

LEMMA ReceiveOK ==
  ASSUME ExchangeInv, Receive
  PROVE  ExchangeInv'
<1>1. /\ stage = "idle" /\ stage' = "sent" /\ message' \in Messages
      /\ UNCHANGED <<value, at, results, ran, answer, reply>>
  BY DEF Receive
<1>2. RanOK'
  BY <1>1, RanKept
<1>3. Started' /\ reply' = {}
  BY <1>1 DEF ExchangeInv, Started, Ended
<1> QED
  BY <1>1, <1>2, <1>3 DEF ExchangeInv, TypeOK, Taken, Progress, AnsweredOK, Answered, Ended

LEMMA RefuseFrameOK ==
  ASSUME ExchangeInv, RefuseFrame
  PROVE  ExchangeInv'
<1>1. /\ stage = "sent" /\ stage' = "refused"
      /\ UNCHANGED <<message, value, at, results, ran, answer, reply>>
  BY DEF RefuseFrame
<1>2. RanOK'
  BY <1>1, RanKept
<1>3. Started' /\ reply' = {}
  BY <1>1 DEF ExchangeInv, Started, Ended
<1> QED
  BY <1>1, <1>2, <1>3 DEF ExchangeInv, TypeOK, Taken, Progress, AnsweredOK, Answered, Ended

LEMMA DecodeMessageOK ==
  ASSUME ExchangeInv, DecodeMessage
  PROVE  ExchangeInv'
<1>1. /\ stage = "sent" /\ Refusal = Accepted
      /\ stage' \in {"refused", "batch", "taken"}
      /\ stage' = "batch" =>
           /\ message.codec # "none" /\ message.frame.opcode = "runner.run_batch"
           /\ ~Raised(value')
      /\ message.codec # "none" => value' = RequestIn(message.frame)
      /\ UNCHANGED <<message, at, results, ran, answer, reply>>
  BY DEF DecodeMessage
<1>2. RanOK'
  <2>1. ran = <<>> /\ InOrder(ran)
    BY <1>1 DEF ExchangeInv, Started, Ended, RanOK
  <2>2. \A n : n \notin DOMAIN ran'
    BY <1>1, <2>1
  <2> QED
    BY <1>1, <2>1, <2>2 DEF RanOK, RunsOwnTask
<1>3. Started' /\ reply' = {}
  BY <1>1 DEF ExchangeInv, Started, Ended
<1>4. Taken'
  <2>1. Refusal' = Refusal
    BY <1>1 DEF Refusal
  <2> QED
    BY <1>1, <2>1 DEF Taken, Ended
<1> QED
  BY <1>1, <1>2, <1>3, <1>4 DEF ExchangeInv, TypeOK, Progress, AnsweredOK, Answered, Ended

LEMMA StartBatchOK ==
  ASSUME ExchangeInv, StartBatch
  PROVE  ExchangeInv'
<1>1. /\ stage = "batch" /\ Fault = Null /\ stage' = "running"
      /\ UNCHANGED <<message, value, at, results, ran, answer, reply>>
  BY DEF StartBatch, BatchIs
<1>2. RanOK' /\ Taken'
  BY <1>1, RanKept, TakenKept
<1>3. at = 1 /\ results = <<>> /\ reply = {}
  BY <1>1 DEF ExchangeInv, Started, Ended
<1>4. InOrder(Entries) /\ BadRows = {} /\ Layout = Text("row")
  BY <1>1, BatchInOrder, NoFault
<1>5. Len(Entries) \in Nat /\ Len(results) = 0 /\ (\A i : i \notin DOMAIN results)
  BY <1>3, <1>4, InOrderAppend
<1>6. ResultsOK
  <2>1. InOrder(results)
    BY <1>3, InOrderSeq, EmptySeq
  <2>2. Len(results) <= Len(Entries)
    BY <1>5
  <2> QED
    BY <1>5, <2>1, <2>2 DEF ResultsOK
<1>7. ResultsOK'
  BY <1>1, <1>6, ResultsKept
<1>8. Progress'
  <2>1. ran' = <<>>
    BY <1>1 DEF ExchangeInv, Started, Ended
  <2>2. Run' = {}
    BY <2>1 DEF Run
  <2> QED
    BY <1>1, <1>3, <1>4, <1>5, <1>7, <2>2, SameBatch DEF Progress
<1> QED
  BY <1>1, <1>2, <1>3, <1>5, <1>8 DEF ExchangeInv, TypeOK, Started, AnsweredOK, Answered, Ended

LEMMA RejectBatchOK ==
  ASSUME ExchangeInv, RejectBatch
  PROVE  ExchangeInv'
<1>1. /\ stage = "batch" /\ stage' = "finished"
      /\ results' = FromError(ErrorOf("runtime.batch_payload"))
      /\ UNCHANGED <<message, value, at, ran, answer, reply>>
  BY DEF RejectBatch, BatchIs
<1>2. RanOK' /\ Taken'
  BY <1>1, RanKept, TakenKept
<1>3. reply = {}
  BY <1>1 DEF ExchangeInv, Started, Ended
<1>4. InOrder(Entries) /\ Entries' = Entries
  BY <1>1, BatchInOrder, SameBatch
<1> DEFINE error == ErrorOf("runtime.batch_payload")
           n == Len(Entries)
<1>5. n \in Nat /\ DOMAIN Entries = 1..n
  BY <1>4, InOrderAppend
<1>6. results' = [i \in 1..n |-> Completion(Entries[i], Null, error)]
  BY <1>1, <1>5 DEF FromError
<1> DEFINE all == {Completion(Entries[i], Null, error) : i \in 1..n}
<1> HIDE DEF n
<1>7. results' \in Seq(all) /\ Len(results') = n /\ DOMAIN results' = 1..n
  BY <1>5, <1>6
<1>8. InOrder(results')
  BY <1>7, InOrderSeq
<1>9. error \in Given
  BY DEF Given
<1>10. \A i \in DOMAIN results' : results'[i] \in Failures(Entries[i])
  BY <1>6, <1>7, <1>9 DEF Failures
<1>11. \A i : Failures(Entries[i])' = Failures(Entries'[i])
  BY DEF Failures, Completion, Given
<1>12. ResultsOK' /\ Len(results') = Len(Entries')
  <2>1. Len(results') = Len(Entries') /\ Len(results') <= Len(Entries')
    BY <1>4, <1>5, <1>7 DEF n
  <2> QED
    BY <1>4, <1>8, <1>10, <1>11, <2>1 DEF ResultsOK
<1> QED
  BY <1>1, <1>2, <1>3, <1>12 DEF ExchangeInv, TypeOK, Started, Progress, AnsweredOK, Answered, Ended

LEMMA BatchRaisesOK ==
  ASSUME ExchangeInv, BatchRaises
  PROVE  ExchangeInv'
<1>1. /\ stage = "batch" /\ stage' = "answered"
      /\ Fault = ValueError /\ answer' = ValueError
      /\ UNCHANGED <<message, value, at, results, ran, reply>>
  BY DEF BatchRaises, BatchIs
<1>2. RanOK' /\ Taken'
  BY <1>1, RanKept, TakenKept
<1>3. reply = {} /\ ran = <<>>
  BY <1>1 DEF ExchangeInv, Started, Ended
<1>4. \E row \in BadRows : Row(row) = ValueError
  <2>1. Layout = Text("row") /\ BadRows # {} /\ Fault = Row(Min(BadRows))
    BY <1>1 DEF Fault, Null, TypeError, ValueError
  <2>2. InOrder(Rows)
    BY <1>1, <2>1, BatchInOrder
  <2>3. BadRows \subseteq Nat
    BY <2>2 DEF BadRows, InOrder
  <2>4. Min(BadRows) \in BadRows
    BY <2>1, <2>3, LeastOf
  <2> QED
    BY <1>1, <2>1, <2>4
<1>5. GivenUp'
  <2>1. BadRows' = BadRows /\ \A i : Row(i)' = Row(i)
    BY <1>1, SameBatch
  <2>2. Raised(answer')
    BY <1>1 DEF Raised, ValueError
  <2> QED
    BY <1>1, <1>3, <1>4, <2>1, <2>2 DEF GivenUp
<1> QED
  BY <1>1, <1>2, <1>3, <1>5 DEF ExchangeInv, TypeOK, Started, Progress, AnsweredOK, Answered, Ended

(* An entry without a row of its own. *)
LEMMA EntryUnknownOK ==
  ASSUME ExchangeInv, EntryUnknown
  PROVE  ExchangeInv'
<1> DEFINE completion == Completion(Entries[at], Null, ErrorOf("python_scalar_batch_adapter"))
<1>1. /\ stage = "running" /\ stage' = "running" /\ at <= Len(Entries) /\ at' = at + 1
      /\ results' = Append(results, completion)
      /\ UNCHANGED <<message, value, ran, answer, reply>>
  BY DEF EntryUnknown, Running
<1>2. RanOK' /\ Taken'
  BY <1>1, RanKept, TakenKept
<1>3. /\ at \in 1..Len(Entries) + 1 /\ Len(results) = at - 1 /\ ResultsOK /\ reply = {}
      /\ BadRows = {} /\ Layout = Text("row")
  BY <1>1 DEF ExchangeInv, Progress, Started, Ended
<1>4. Len(results) + 1 = at /\ Len(Entries) \in Nat
  BY <1>1, <1>3, BatchInOrder, InOrderAppend
<1>5. completion \in Failures(Entries[Len(results) + 1])
  BY <1>4 DEF Failures, Given
<1>6. Run' = Run
  BY <1>1 DEF Run
<1> HIDE DEF completion
<1>7. ResultsOK' /\ Len(results') = Len(results) + 1
  BY <1>1, <1>3, <1>4, <1>5, <1>6, ResultsGrow
<1>8. Progress'
  <2>1. Entries' = Entries /\ BadRows' = BadRows /\ Layout' = Layout
    BY <1>1, SameBatch
  <2>2. at' \in 1..Len(Entries) + 1 /\ Len(results') = at' - 1
    BY <1>1, <1>3, <1>4, <1>7
  <2>3. \A entry \in Run : entry \in DOMAIN Entries /\ entry < at
    BY <1>1 DEF ExchangeInv, Progress, RanOK, Run
  <2>4. DOMAIN Entries = 1..Len(Entries)
    BY <1>1, BatchInOrder, InOrderAppend
  <2>5. \A entry \in Run' : entry < at'
    BY <1>1, <1>3, <1>4, <1>6, <2>3, <2>4
  <2> QED
    BY <1>1, <1>3, <1>7, <2>1, <2>2, <2>5 DEF Progress
<1> QED
  BY <1>1, <1>2, <1>3, <1>8 DEF ExchangeInv, TypeOK, Started, Progress, AnsweredOK, Answered, Ended

(* An entry more in the history, with the task of its row. *)
LEMMA RanGrow ==
  ASSUME RanOK, InOrder(Rows), BadRows = {}, UNCHANGED value,
         at \in DOMAIN Entries, Candidates(Entries[at]) # {}, \A entry \in Run : entry < at,
         ran' = Append(ran, [entry |-> at, task |-> Row(RowOf(Entries[at]))])
  PROVE  /\ RanOK' /\ Run \subseteq Run' /\ at \in Run'
         /\ \A entry \in Run' : entry < at \/ entry = at
         /\ ran' # <<>> /\ ran'[Len(ran')].entry = at
<1> DEFINE last == [entry |-> at, task |-> Row(RowOf(Entries[at]))]
           n    == Len(ran)
<1>1. InOrder(ran)
  BY DEF RanOK
<1>2. /\ last.entry = at
      /\ last.task[2].task_id = Entries[at][2].task_id
      /\ \E row \in DOMAIN Rows : last.task = Row(row)
  BY RowOfEntry
<1> HIDE DEF last
<1>3. /\ InOrder(ran') /\ n \in Nat /\ DOMAIN ran = 1..n /\ DOMAIN ran' = 1..n + 1
      /\ \A i \in DOMAIN ran : ran'[i] = ran[i]
      /\ ran'[n + 1] = last
  BY <1>1, InOrderAppend DEF last
<1>4. /\ Entries' = Entries /\ Rows' = Rows /\ BadRows' = BadRows
      /\ \A i : Row(i)' = Row(i)
  BY SameBatch
<1>5. ASSUME NEW i \in DOMAIN ran'
      PROVE  /\ ran'[i].entry \in DOMAIN Entries
             /\ ran'[i].task[2].task_id = Entries[ran'[i].entry][2].task_id
             /\ \E row \in DOMAIN Rows : ran'[i].task = Row(row)
  <2>1. CASE i = n + 1
    BY <1>2, <1>3, <2>1
  <2>2. CASE i # n + 1
    <3>1. i \in DOMAIN ran
      BY <1>3, <2>2
    <3> QED
      BY <1>3, <3>1 DEF RanOK, RunsOwnTask
  <2> QED
    BY <2>1, <2>2
<1>6. \A i, j \in DOMAIN ran' : i < j => ran'[i].entry < ran'[j].entry
  <2> SUFFICES ASSUME NEW i \in DOMAIN ran', NEW j \in DOMAIN ran', i < j
               PROVE  ran'[i].entry < ran'[j].entry
    OBVIOUS
  <2>1. i \in DOMAIN ran
    BY <1>3
  <2>2. CASE j = n + 1
    BY <1>2, <1>3, <2>1, <2>2 DEF Run
  <2>3. CASE j # n + 1
    <3>1. j \in DOMAIN ran
      BY <1>3, <2>3
    <3> QED
      BY <1>3, <2>1, <3>1 DEF RanOK, RunsOwnTask
  <2> QED
    BY <2>2, <2>3
<1>7. RanOK'
  BY <1>3, <1>4, <1>5, <1>6 DEF RanOK, RunsOwnTask
<1>8. Run \subseteq Run' /\ at \in Run' /\ \A entry \in Run' : entry < at \/ entry = at
  <2>1. n + 1 \in DOMAIN ran' /\ DOMAIN ran \subseteq DOMAIN ran'
    BY <1>3
  <2>2. \A i \in DOMAIN ran' : i \in DOMAIN ran \/ i = n + 1
    BY <1>3
  <2>3. Run \subseteq Run' /\ at \in Run'
    BY <1>2, <1>3, <2>1 DEF Run
  <2>4. ASSUME NEW i \in DOMAIN ran' PROVE ran'[i].entry < at \/ ran'[i].entry = at
    BY <1>2, <1>3, <2>2 DEF Run
  <2> QED
    BY <2>3, <2>4 DEF Run
<1>9. ran' # <<>> /\ ran'[Len(ran')].entry = at
  <2>1. Len(ran') = n + 1
    BY <1>1, InOrderAppend DEF last
  <2> QED
    BY <1>2, <1>3, <2>1
<1> QED
  BY <1>7, <1>8, <1>9

(* An entry with a row of its own: it gets a completion, or ends the batch. *)
LEMMA RunEntryOK ==
  ASSUME ExchangeInv, RunEntry
  PROVE  ExchangeInv'
<1>1. /\ stage = "running" /\ at <= Len(Entries) /\ Candidates(Entries[at]) # {}
      /\ ran' = Append(ran, [entry |-> at, task |-> Row(RowOf(Entries[at]))])
      /\ UNCHANGED <<message, value, reply>>
  BY DEF RunEntry, Running
<1>2. /\ at \in 1..Len(Entries) + 1 /\ Len(results) = at - 1 /\ ResultsOK /\ reply = {}
      /\ BadRows = {} /\ Layout = Text("row") /\ RanOK /\ \A entry \in Run : entry < at
  BY <1>1 DEF ExchangeInv, Progress, Started, Ended
<1>3. /\ InOrder(Rows) /\ Len(Entries) \in Nat /\ DOMAIN Entries = 1..Len(Entries)
  BY <1>1, <1>2, BatchInOrder, InOrderAppend
<1>4. Len(results) + 1 = at /\ at \in DOMAIN Entries
  BY <1>1, <1>2, <1>3
<1>5. /\ RanOK' /\ Run \subseteq Run' /\ at \in Run'
      /\ \A entry \in Run' : entry < at \/ entry = at
      /\ ran' # <<>> /\ ran'[Len(ran')].entry = at
  BY <1>1, <1>2, <1>3, <1>4, RanGrow
<1>6. Taken'
  <2>1. stage' \in {"running", "answered"}
    BY <1>1 DEF RunEntry
  <2> QED
    BY <1>1, TakenKept
<1>7. Entries' = Entries /\ BadRows' = BadRows /\ Layout' = Layout
  BY <1>1, SameBatch
<1>8. PICK outcome \in Outcomes :
        \/ /\ outcome.end = "returns" /\ UNCHANGED stage /\ at' = at + 1
           /\ results' = Append(results, Completion(Entries[at], outcome.with, Null))
        \/ /\ outcome.end = "fails" /\ UNCHANGED stage /\ at' = at + 1
           /\ results' = Append(results, Completion(Entries[at], Null, outcome.with))
        \/ /\ outcome.end = "raises" /\ stage' = "answered" /\ UNCHANGED <<results, at>>
           /\ answer' = outcome.with
  BY DEF RunEntry
<1>9. outcome.with \in Given
  BY DEF Given
<1>10. ASSUME UNCHANGED stage, at' = at + 1, ResultsOK', Len(results') = Len(results) + 1
       PROVE  ExchangeInv'
  <2>1. at' \in 1..Len(Entries) + 1 /\ Len(results') = at' - 1
    BY <1>1, <1>2, <1>3, <1>10
  <2>2. \A entry \in Run' : entry < at'
    <3>1. \A entry \in Run' : entry \in DOMAIN Entries
      BY <1>5, <1>7 DEF RanOK, Run
    <3> QED
      BY <1>2, <1>3, <1>5, <1>10, <3>1
  <2>3. Progress'
    BY <1>1, <1>2, <1>7, <1>10, <2>1, <2>2 DEF Progress
  <2> QED
    BY <1>1, <1>2, <1>5, <1>6, <1>10, <2>1, <2>3
       DEF ExchangeInv, TypeOK, Started, AnsweredOK, Answered, Ended
<1>11. CASE /\ UNCHANGED stage /\ at' = at + 1
            /\ results' = Append(results, Completion(Entries[at], outcome.with, Null))
  <2>1. Completion(Entries[at], outcome.with, Null) \in Successes(Entries[Len(results) + 1])
    BY <1>4, <1>9 DEF Successes
  <2>2. ResultsOK' /\ Len(results') = Len(results) + 1
    BY <1>1, <1>2, <1>4, <1>5, <1>11, <2>1, ResultsGrow
  <2> QED
    BY <1>10, <1>11, <2>2
<1>12. CASE /\ UNCHANGED stage /\ at' = at + 1
            /\ results' = Append(results, Completion(Entries[at], Null, outcome.with))
  <2>1. Completion(Entries[at], Null, outcome.with) \in Failures(Entries[Len(results) + 1])
    BY <1>4, <1>9 DEF Failures
  <2>2. ResultsOK' /\ Len(results') = Len(results) + 1
    BY <1>1, <1>2, <1>4, <1>5, <1>12, <2>1, ResultsGrow
  <2> QED
    BY <1>10, <1>12, <2>2
<1>13. CASE /\ outcome.end = "raises" /\ stage' = "answered" /\ UNCHANGED <<results, at>>
            /\ answer' = outcome.with
  <2>1. Raised(answer')
    BY <1>13, EndAssumption
  <2>2. ran'[Len(ran')].entry = Len(results') + 1
    BY <1>4, <1>5, <1>13
  <2>3. GivenUp'
    BY <1>5, <2>1, <2>2 DEF GivenUp
  <2> QED
    BY <1>1, <1>2, <1>5, <1>6, <1>13, <2>3 DEF ExchangeInv, TypeOK, Started, Progress, AnsweredOK, Answered, Ended
<1> QED
  BY <1>8, <1>11, <1>12, <1>13

LEMMA EndBatchOK ==
  ASSUME ExchangeInv, EndBatch
  PROVE  ExchangeInv'
<1>1. /\ stage = "running" /\ stage' = "finished" /\ at > Len(Entries)
      /\ UNCHANGED <<message, value, at, results, ran, answer, reply>>
  BY DEF EndBatch
<1>2. RanOK' /\ Taken'
  BY <1>1, RanKept, TakenKept
<1>3. at \in 1..Len(Entries) + 1 /\ Len(results) = at - 1 /\ ResultsOK /\ reply = {}
  BY <1>1 DEF ExchangeInv, Progress, Started, Ended
<1>4. ResultsOK' /\ Entries' = Entries
  BY <1>1, <1>3, ResultsKept, SameBatch
<1>5. Len(results) = Len(Entries)
  <2>1. Len(Entries) \in Nat
    BY <1>1, BatchInOrder, InOrderAppend
  <2> QED
    BY <1>1, <1>3, <2>1
<1>6. Progress'
  BY <1>1, <1>4, <1>5 DEF Progress
<1> QED
  BY <1>1, <1>2, <1>3, <1>6 DEF ExchangeInv, TypeOK, Started, AnsweredOK, Answered, Ended

LEMMA EncodeCompletionsOK ==
  ASSUME ExchangeInv, EncodeCompletions
  PROVE  ExchangeInv'
<1>1. /\ stage = "finished" /\ stage' = "answered"
      /\ answer' = ToJson(CompletionBatch, FromResults(results))
      /\ UNCHANGED <<message, value, at, results, ran, reply>>
  BY DEF EncodeCompletions
<1>2. RanOK' /\ Taken'
  BY <1>1, RanKept, TakenKept DEF Ended
<1>3. reply = {} /\ ResultsOK /\ Len(results) = Len(Entries)
  BY <1>1 DEF ExchangeInv, Started, Progress
<1>4. ResultsOK' /\ Len(results') = Len(Entries')
  BY <1>1, <1>3, ResultsKept, SameBatch
<1>5. AsWritten'
  BY <1>1, SameBatch DEF AsWritten, FromResults
<1> QED
  BY <1>1, <1>2, <1>3, <1>4, <1>5
     DEF ExchangeInv, TypeOK, Started, Progress, AnsweredOK, Answered, Ended

(* The frame that goes back, or none. *)
LEMMA ReplyOK ==
  ASSUME ExchangeInv, Reply
  PROVE  ExchangeInv'
<1>1. /\ stage = "answered" /\ stage' = "replied"
      /\ UNCHANGED <<message, value, at, results, ran, answer>>
  BY DEF Reply
<1>2. RanOK' /\ Taken'
  BY <1>1, RanKept, TakenKept DEF Ended
<1>3. message \in Messages /\ message.codec # "none" /\ Refusal = Accepted
  BY <1>1 DEF ExchangeInv, Taken, Ended
<1> DEFINE error == ErrorOf("python_runtime_wire")
<1>4. PICK size \in ReplySizes, errorSize \in ReplySizes :
        \/ /\ ReplyRefusal(answer, size) = Accepted
           /\ reply' = {ReplyFrame(TRUE, answer, size)}
        \/ /\ ReplyRefusal(error, errorSize) = Accepted
           /\ reply' = {ReplyFrame(FALSE, error, errorSize)}
        \/ ReplyRefusal(error, errorSize) # Accepted /\ reply' = {}
  BY DEF Reply
<1> HIDE DEF error
<1>5. ASSUME NEW frame \in reply'
      PROVE  /\ frame.request_id = message.frame.request_id
             /\ frame.opcode = message.frame.opcode
             /\ message.codec = "binary" =>
                  \/ BinaryResponseRefusal(frame, HostLimits) = Accepted
                  \/ LongestBytes(frame.payload) > HostLimits.inline
             /\ message.codec = "jsonl" => frame.line <= RunnerLimits.line
  BY <1>3, <1>4, <1>5, ReplyReads
<1>6. reply' = {} => \E n \in ReplySizes : ReplyRefusal(error, n) # Accepted
  BY <1>4
<1>7. \A payload, n : ReplyRefusal(payload, n)' = ReplyRefusal(payload, n)
  BY <1>1 DEF ReplyRefusal
<1>8. Answered'
  BY <1>1, <1>5, <1>6 DEF Answered, ReplyRefusal, error
<1>9. TypeOK' /\ AnsweredOK'
  BY <1>1, AnsweredKept DEF TypeOK, ExchangeInv
<1> QED
  BY <1>1, <1>2, <1>3, <1>8, <1>9 DEF ExchangeInv, Started, Progress, Ended

LEMMA ForgetOK ==
  ASSUME ExchangeInv, Forget
  PROVE  ExchangeInv'
<1>1. /\ stage' = "idle" /\ at' = 1 /\ results' = <<>> /\ ran' = <<>> /\ reply' = {}
  BY DEF Forget
<1>2. InOrder(ran') /\ \A n : n \notin DOMAIN ran'
  <2>1. InOrder(<<>>)
    BY InOrderSeq, EmptySeq
  <2>2. \A n : n \notin DOMAIN <<>>
    OBVIOUS
  <2> QED
    BY <1>1, <2>1, <2>2
<1>3. RanOK'
  BY <1>2 DEF RanOK, RunsOwnTask
<1> QED
  BY <1>1, <1>3 DEF ExchangeInv, TypeOK, Taken, Started, Progress, AnsweredOK, Answered, Ended

LEMMA IdleOK ==
  ASSUME ExchangeInv, UNCHANGED vars
  PROVE  ExchangeInv'
<1>1. UNCHANGED <<stage, message, value, at, results, ran, answer, reply>>
  BY DEF vars
<1>2. RanOK' /\ (ResultsOK => ResultsOK') /\ Refusal' = Refusal
  BY <1>1, RanKept, ResultsKept DEF Refusal
<1>3. Taken' /\ Started' /\ TypeOK'
  BY <1>1, <1>2 DEF ExchangeInv, Taken, Started, TypeOK
<1>4. Progress'
  BY <1>1, <1>2, SameBatch DEF ExchangeInv, Progress, Run
<1>5. Answered'
  BY <1>1 DEF ExchangeInv, Answered, ReplyRefusal
<1>6. AnsweredOK'
  BY <1>1, AnsweredKept DEF ExchangeInv, AnsweredOK
<1> QED
  BY <1>1, <1>2, <1>3, <1>4, <1>5, <1>6 DEF ExchangeInv

(* The invariant the theorems rest on. *)
THEOREM Invariance == Spec => []ExchangeInv
<1>1. ExchangeInv /\ [Next]_vars => ExchangeInv'
  BY ReceiveOK, RefuseFrameOK, DecodeMessageOK, StartBatchOK, RejectBatchOK, BatchRaisesOK,
     EntryUnknownOK, RunEntryOK, EndBatchOK, EncodeCompletionsOK, ReplyOK, ForgetOK, IdleOK
     DEF Next
<1> QED
  BY InitOK, <1>1, PTL DEF Spec

(* The stages are those of the program, and completions and entries go in step. *)
THEOREM TypeCorrect == Spec => []TypeOK
<1>1. ExchangeInv => TypeOK
  BY DEF ExchangeInv
<1> QED
  BY Invariance, <1>1, PTL

(* Both decoders take exactly the frames the encoders write under the same limits, and of *)
(* those a host with the agreed limits writes they refuse only the ones beyond the inline *)
(* limit or the line limit of the bridge. *)
THEOREM ReadsWhatIsWritten == Spec => []FramesExact
<1>1. ExchangeInv => FramesExact
  BY ReadsExactly DEF ExchangeInv, FramesExact
<1> QED
  BY Invariance, <1>1, PTL

(* The adapter runs the entries of a batch in their order and none twice, each with a     *)
(* task of the batch that has the id the entry names. *)
THEOREM TasksMatchEntries == Spec => []RunsOwnTask
<1>1. ExchangeInv => RunsOwnTask
  BY DEF ExchangeInv, RanOK
<1> QED
  BY Invariance, <1>1, PTL

(* A batch is answered with one completion for each entry, in the order of the entries,   *)
(* each with either a result or an error, and a result only where run_one was called. If  *)
(* it is answered without them, they could not be written, a row raised a ValueError      *)
(* before any entry ran, or the last entry that ran raised: there is no other way.        *)
THEOREM EntriesHaveOutcomes == Spec => []OneOutcomeEach
<1>1. ASSUME ResultsOK, Len(results) = Len(Entries) PROVE Complete
  <2>1. ASSUME NEW i \in DOMAIN results
        PROVE  /\ results[i][2].entry_id = Entries[i][2].entry_id
               /\ (results[i][2].result = Null) # (results[i][2].error = Null)
               /\ results[i][2].result # Null => \E n \in DOMAIN ran : ran[n].entry = i
    <3>1. CASE results[i] \in Failures(Entries[i])
      BY <3>1, CompletionOK
    <3>2. CASE results[i] \in Successes(Entries[i]) /\ i \in Run
      BY <3>2, CompletionOK DEF Run
    <3> QED
      BY <1>1, <3>1, <3>2 DEF ResultsOK
  <2> QED
    BY <1>1, <2>1 DEF Complete
<1>2. ASSUME ExchangeInv PROVE OneOutcomeEach
  <2>1. CASE stage = "finished"
    BY <1>1, <1>2, <2>1 DEF ExchangeInv, Progress, OneOutcomeEach
  <2>2. CASE stage \in {"answered", "replied"}
    BY <1>1, <1>2, <2>2 DEF ExchangeInv, AnsweredOK, AsWritten, GivenUp, OneOutcomeEach
  <2> QED
    BY <2>1, <2>2 DEF OneOutcomeEach
<1> QED
  BY Invariance, <1>2, PTL

(* The reply to a batch has its id and opcode and passes the host's decoder, unless bytes *)
(* in it are longer than the host takes; there is none only if the error does not fit. *)
THEOREM RepliesAreRead == Spec => []Answered
<1>1. ExchangeInv => Answered
  BY DEF ExchangeInv
<1> QED
  BY Invariance, <1>1, PTL

-----------------------------------------------------------------------------
(* What the parameters are: the conversions of ContractLevelProofs, on the *)
(* documents that come and the values that runners return.                 *)
Typed(kind, val) ==
  val \in Docs /\ (~Raised(Encode(kind, val)) => \E doc \in Docs : val = Decode(kind, doc))

Conversions ==
  /\ Setting
  /\ {Task, RunBatchRequest, CompletionBatch} \subseteq Kinds
  /\ \A kind \in Kinds, doc \in Docs :
       FromJson(kind, doc) = Decode(kind, doc) /\ ToJson(kind, doc) = Encode(kind, doc)
  /\ \A doc \in Docs : RequestFromJson("runner.run_batch", doc) = Decode(RunBatchRequest, doc)
  /\ \A m \in Messages : IF m.codec = "none" THEN Contract[m.name] \in Kinds /\ m.json \in Docs
                          ELSE m.frame.payload \in Docs
  /\ {ErrorOf("runtime.batch_payload"), ErrorOf("python_scalar_batch_adapter")} \subseteq Docs
  /\ \A outcome \in Outcomes :
       /\ outcome.end = "returns" => Typed(RunnerResult, outcome.with)
       /\ outcome.end = "fails"   => Typed(RuntimeError, outcome.with)
       /\ outcome.end = "raises"  => Raised(outcome.with)

(* A contract that came has been decoded, the completions are what the host reads, and an *)
(* answer that is no failure is their document.                                           *)
ResultsTyped == results \in Seq(Docs) /\ \A i \in DOMAIN results : Completed(results[i])

ConvertedInv ==
  /\ stage = "taken" /\ message.codec = "none" =>
       value = FromJson(Contract[message.name], message.json) /\ ~Raised(value)
  /\ ResultsTyped
  /\ stage \in {"answered", "replied"} /\ ~Raised(answer) =>
       answer = ToJson(CompletionBatch, FromResults(results))

LEMMA BatchTyped ==
  ASSUME Conversions, ExchangeInv, stage \in {"batch", "running"} \cup Ended
  PROVE  /\ Returns(Str, Batch[2].batch_id) /\ Returns(Str, Batch[2].tick_id)
         /\ \A i \in DOMAIN Entries :
              Returns(Str, Entries[i][2].entry_id) /\ Returns(Str, Entries[i][2].task_id)
         /\ Layout = Text("row") => \A i \in DOMAIN Rows : Rows[i] \in Docs
<1>1. /\ message \in Messages /\ message.codec # "none"
      /\ message.frame.opcode = "runner.run_batch"
      /\ value = RequestIn(message.frame) /\ ~Raised(value)
  BY DEF ExchangeInv, Taken, Ended
<1>2. Decoded(RunBatchRequest, value)
  <2>1. message.frame.payload \in Docs /\ RunBatchRequest \in Kinds
    BY <1>1 DEF Conversions
  <2>2. value = Decode(RunBatchRequest, message.frame.payload)
    BY <1>1, <2>1 DEF Conversions, RequestIn
  <2> QED
    BY <1>1, <2>1, <2>2 DEF Decoded
<1>3. Setting
  BY DEF Conversions
<1>4. /\ Decoded(Str, Batch[2].batch_id) /\ Decoded(Str, Batch[2].tick_id)
      /\ Decoded(Many(BatchEntry), Batch[2].entries) /\ Decoded(BatchPayload, Batch[2].payload)
  BY <1>2, <1>3, BatchDecoded DEF Batch
<1>5. ASSUME NEW i \in DOMAIN Entries
      PROVE  Returns(Str, Entries[i][2].entry_id) /\ Returns(Str, Entries[i][2].task_id)
  BY <1>3, <1>4, EntryDecoded, DecodedReturns DEF Entries
<1>6. ASSUME Layout = Text("row"), NEW i \in DOMAIN Rows PROVE Rows[i] \in Docs
  BY <1>3, <1>4, <1>6, RowDecoded DEF Layout, Rows
<1> QED
  BY <1>3, <1>4, <1>5, <1>6, DecodedReturns

LEMMA EntryKind ==
  ASSUME Conversions
  PROVE  EntryCompletion \in Kinds
<1>1. Setting /\ CompletionBatch \in Kinds
  BY DEF Conversions
<1>2. /\ CompletionBatch[1] = "fields" /\ "results" \in DOMAIN CompletionBatch[2]
      /\ CompletionBatch[2]["results"] = Many(EntryCompletion)
  BY DEF CompletionBatch, Fields
<1>3. Many(EntryCompletion) \in Kinds
  BY <1>1, <1>2, KindIs DEF Formed, IsLeaf, FieldsFormed
<1> QED
  BY <1>1, <1>3, KindIs DEF Formed, IsLeaf, Many

LEMMA ParametersSound ==
  ASSUME Conversions
  PROVE  /\ \A outcome \in Outcomes :
              /\ outcome.end = "returns" => Sound(RunnerResult, outcome.with)
              /\ outcome.end = "fails" => Sound(RuntimeError, outcome.with)
         /\ Sound(RuntimeError, ErrorOf("runtime.batch_payload"))
         /\ Sound(RuntimeError, ErrorOf("python_scalar_batch_adapter"))
<1>1. Setting /\ {RunnerResult, RuntimeError} \subseteq Kinds
  <2>1. Setting
    BY DEF Conversions
  <2>2. EntryCompletion \in Kinds
    BY EntryKind
  <2>3. /\ EntryCompletion[1] = "fields" /\ "result" \in DOMAIN EntryCompletion[2]
        /\ EntryCompletion[2]["result"] = Optional(RunnerResult)
    BY DEF EntryCompletion, Fields
  <2>4. Optional(RunnerResult) \in Kinds
    BY <2>1, <2>2, <2>3, KindIs DEF Formed, IsLeaf, FieldsFormed
  <2>5. RunnerResult \in Kinds
    BY <2>1, <2>4, KindIs DEF Formed, IsLeaf, Optional
  <2>6. RuntimeError \in Kinds
    BY <2>1 DEF Setting, KindsOK
  <2> QED
    BY <2>1, <2>5, <2>6
<1>2. ASSUME NEW kind \in {RunnerResult, RuntimeError}, NEW val, Typed(kind, val)
      PROVE  Sound(kind, val)
  <2>1. val \in Docs /\ ~Raised(val) /\ kind \in Kinds
    BY <1>1, <1>2, Shape DEF Typed
  <2>2. ~Raised(Encode(kind, val)) => Decoded(kind, val)
    BY <1>2, <2>1 DEF Typed, Decoded
  <2> QED
    BY <1>1, <2>1, <2>2, DecodedReturns DEF Sound
<1>3. ASSUME NEW source, ErrorOf(source) \in Docs PROVE Sound(RuntimeError, ErrorOf(source))
  <2>1. Returns(RuntimeError, ErrorOf(source))
    BY <1>1, <1>3, OwnErrorReturns DEF ErrorOf
  <2> QED
    BY <1>3, <2>1 DEF Sound
<1> QED
  BY <1>2, <1>3 DEF Conversions

LEMMA CompletionTyped ==
  ASSUME Conversions, NEW entry,
         Returns(Str, entry[2].entry_id), Returns(Str, entry[2].task_id),
         NEW result, result = Null \/ Sound(RunnerResult, result),
         NEW error, error = Null \/ Sound(RuntimeError, error)
  PROVE  Completion(entry, result, error) \in Docs /\ Completed(Completion(entry, result, error))
<1> DEFINE names  == {"entry_id", "task_id", "result", "error"}
           fields == [entry_id |-> entry[2].entry_id, task_id |-> entry[2].task_id,
                      result |-> result, error |-> error]
<1>1. Setting
  BY DEF Conversions
<1>2. /\ entry[2].entry_id \in Docs /\ entry[2].task_id \in Docs /\ result \in Docs /\ error \in Docs
  BY <1>1 DEF Returns, Sound, Setting, DocsOK
<1>3. /\ DOMAIN fields = names /\ fields = [f \in names |-> fields[f]]
      /\ fields["entry_id"] = entry[2].entry_id /\ fields["task_id"] = entry[2].task_id
      /\ fields["result"] = result /\ fields["error"] = error
  OBVIOUS
<1>4. Completion(entry, result, error) = Object(fields)
  BY DEF Completion
<1> HIDE DEF fields
<1>5. names \in SUBSET STRING
  <2>1. EntryCompletion \in Kinds
    BY EntryKind
  <2>2. EntryCompletion[1] = "fields" /\ DOMAIN EntryCompletion[2] = names
    BY DEF EntryCompletion, Fields
  <2> QED
    BY <1>1, <2>1, <2>2, KindIs DEF Formed, IsLeaf, FieldsFormed
<1>6. fields \in Maps(Docs)
  <2>1. \A f \in names : fields[f] \in Docs
    BY <1>2, <1>3
  <2>2. fields \in [names -> Docs]
    BY <1>3, <2>1
  <2> QED
    BY <1>5, <2>2 DEF Maps
<1>7. Object(fields) \in Docs
  BY <1>1, <1>6 DEF Setting, DocsOK
<1>8. Object(fields)[2] = fields
  BY DEF Object
<1>9. Completed(Object(fields))
  BY <1>3, <1>8 DEF Completed
<1> QED
  BY <1>4, <1>7, <1>9


LEMMA ResultsTypedGrow ==
  ASSUME ResultsTyped, NEW completion \in Docs, Completed(completion),
         results' = Append(results, completion)
  PROVE  ResultsTyped'
<1>1. results \in Seq(Docs)
  BY DEF ResultsTyped
<1>2. /\ results' \in Seq(Docs) /\ DOMAIN results' = 1..Len(results) + 1
      /\ \A i \in DOMAIN results : results'[i] = results[i]
      /\ results'[Len(results) + 1] = completion
      /\ DOMAIN results = 1..Len(results) /\ Len(results) \in Nat
  BY <1>1
<1>3. ASSUME NEW i \in DOMAIN results' PROVE Completed(results'[i])
  <2>1. CASE i = Len(results) + 1
    BY <1>2, <2>1
  <2>2. CASE i # Len(results) + 1
    BY <1>2, <2>2 DEF ResultsTyped
  <2> QED
    BY <2>1, <2>2
<1> QED
  BY <1>2, <1>3 DEF ResultsTyped

LEMMA ConvertedInit ==
  ASSUME Init
  PROVE  ConvertedInv
<1>1. stage = "idle" /\ results = <<>>
  BY DEF Init
<1>2. ResultsTyped
  <2>1. <<>> \in Seq(Docs) /\ DOMAIN <<>> = {}
    OBVIOUS
  <2> QED
    BY <1>1, <2>1 DEF ResultsTyped
<1> QED
  BY <1>1, <1>2 DEF ConvertedInv

LEMMA ConvertedRejectBatch ==
  ASSUME Conversions, ExchangeInv, RejectBatch
  PROVE  ResultsTyped'
<1> DEFINE error == ErrorOf("runtime.batch_payload")
           n == Len(Entries)
<1>1. stage = "batch" /\ results' = FromError(error)
  BY DEF RejectBatch, BatchIs
<1>2. n \in Nat /\ DOMAIN Entries = 1..n
  BY <1>1, BatchInOrder, InOrderAppend
<1>3. results' = [i \in 1..n |-> Completion(Entries[i], Null, error)]
  BY <1>1, <1>2 DEF FromError
<1>4. ASSUME NEW i \in 1..n
      PROVE  Completion(Entries[i], Null, error) \in Docs /\ Completed(Completion(Entries[i], Null, error))
  <2>1. Returns(Str, Entries[i][2].entry_id) /\ Returns(Str, Entries[i][2].task_id)
    BY <1>1, <1>2, BatchTyped
  <2>2. Sound(RuntimeError, error)
    BY ParametersSound
  <2> QED
    BY <2>1, <2>2, CompletionTyped
<1> HIDE DEF n, error
<1>5. results' \in Seq(Docs) /\ DOMAIN results' = 1..n
  BY <1>2, <1>3, <1>4
<1>6. \A i \in DOMAIN results' : Completed(results'[i])
  BY <1>3, <1>4, <1>5
<1> QED
  BY <1>5, <1>6 DEF ResultsTyped

LEMMA ConvertedEntry ==
  ASSUME Conversions, ExchangeInv, ResultsTyped, EntryUnknown \/ RunEntry
  PROVE  ResultsTyped'
<1>1. stage = "running" /\ at <= Len(Entries)
  BY DEF EntryUnknown, RunEntry, Running
<1>2. at \in DOMAIN Entries
  <2>1. Len(Entries) \in Nat /\ DOMAIN Entries = 1..Len(Entries)
    BY <1>1, BatchInOrder, InOrderAppend
  <2>2. at \in 1..Len(Entries) + 1
    BY <1>1 DEF ExchangeInv, Progress
  <2> QED
    BY <1>1, <2>1, <2>2
<1>3. Returns(Str, Entries[at][2].entry_id) /\ Returns(Str, Entries[at][2].task_id)
  BY <1>1, <1>2, BatchTyped
<1>4. CASE EntryUnknown
  <2> DEFINE error == ErrorOf("python_scalar_batch_adapter")
  <2>1. results' = Append(results, Completion(Entries[at], Null, error))
    BY <1>4 DEF EntryUnknown
  <2>2. Sound(RuntimeError, error)
    BY ParametersSound
  <2>3. /\ Completion(Entries[at], Null, error) \in Docs
        /\ Completed(Completion(Entries[at], Null, error))
    BY <1>3, <2>2, CompletionTyped
  <2> QED
    BY <2>1, <2>3, ResultsTypedGrow
<1>5. CASE RunEntry
  <2>1. PICK outcome \in Outcomes :
          \/ /\ outcome.end = "returns"
             /\ results' = Append(results, Completion(Entries[at], outcome.with, Null))
          \/ /\ outcome.end = "fails"
             /\ results' = Append(results, Completion(Entries[at], Null, outcome.with))
          \/ outcome.end = "raises" /\ UNCHANGED results
    BY <1>5 DEF RunEntry
  <2>2. CASE /\ outcome.end = "returns"
             /\ results' = Append(results, Completion(Entries[at], outcome.with, Null))
    <3>1. Sound(RunnerResult, outcome.with)
      BY <2>2, ParametersSound
    <3>2. /\ Completion(Entries[at], outcome.with, Null) \in Docs
          /\ Completed(Completion(Entries[at], outcome.with, Null))
      BY <1>3, <3>1, CompletionTyped
    <3> QED
      BY <2>2, <3>2, ResultsTypedGrow
  <2>3. CASE /\ outcome.end = "fails"
             /\ results' = Append(results, Completion(Entries[at], Null, outcome.with))
    <3>1. Sound(RuntimeError, outcome.with)
      BY <2>3, ParametersSound
    <3>2. /\ Completion(Entries[at], Null, outcome.with) \in Docs
          /\ Completed(Completion(Entries[at], Null, outcome.with))
      BY <1>3, <3>1, CompletionTyped
    <3> QED
      BY <2>3, <3>2, ResultsTypedGrow
  <2>4. CASE UNCHANGED results
    BY <2>4 DEF ResultsTyped
  <2> QED
    BY <2>1, <2>2, <2>3, <2>4
<1> QED
  BY <1>4, <1>5

LEMMA ConvertedStep ==
  ASSUME Conversions, ExchangeInv, ConvertedInv, [Next]_vars
  PROVE  ConvertedInv'
<1>1. ResultsTyped /\ (UNCHANGED results => ResultsTyped')
  BY DEF ConvertedInv, ResultsTyped
<1>2. CASE Receive \/ RefuseFrame \/ StartBatch \/ EndBatch
  BY <1>1, <1>2 DEF ConvertedInv, Receive, RefuseFrame, StartBatch, BatchIs, EndBatch
<1>3. CASE DecodeMessage
  BY <1>1, <1>3 DEF ConvertedInv, DecodeMessage
<1>4. CASE RejectBatch
  BY <1>4, ConvertedRejectBatch DEF ConvertedInv, RejectBatch, BatchIs
<1>5. CASE BatchRaises
  BY <1>1, <1>5, Refusals DEF ConvertedInv, BatchRaises, BatchIs
<1>6. CASE EntryUnknown
  BY <1>1, <1>6, ConvertedEntry DEF ConvertedInv, EntryUnknown, Running
<1>7. CASE RunEntry
  <2>1. ResultsTyped'
    BY <1>1, <1>7, ConvertedEntry
  <2>2. \/ stage' = "running"
        \/ stage' = "answered" /\ \E outcome \in Outcomes : outcome.end = "raises" /\ answer' = outcome.with
    BY <1>7 DEF RunEntry, Running
  <2>3. stage' = "running" \/ Raised(answer')
    BY <2>2 DEF Conversions
  <2> QED
    BY <2>1, <2>2, <2>3 DEF ConvertedInv
<1>8. CASE EncodeCompletions
  <2>1. UNCHANGED <<value, results>>
    BY <1>8 DEF EncodeCompletions
  <2>2. FromResults(results)' = FromResults(results)
    BY <2>1 DEF FromResults, Batch
  <2> QED
    BY <1>1, <1>8, <2>1, <2>2 DEF ConvertedInv, EncodeCompletions
<1>9. CASE Reply
  <2>1. UNCHANGED <<value, results, answer>> /\ stage = "answered" /\ stage' = "replied"
    BY <1>9 DEF Reply
  <2>2. FromResults(results)' = FromResults(results)
    BY <2>1 DEF FromResults, Batch
  <2> QED
    BY <1>1, <2>1, <2>2 DEF ConvertedInv
<1>10. CASE Forget
  <2>1. stage' = "idle" /\ results' = <<>>
    BY <1>10 DEF Forget
  <2>2. <<>> \in Seq(Docs) /\ DOMAIN <<>> = {}
    OBVIOUS
  <2> QED
    BY <2>1, <2>2 DEF ConvertedInv, ResultsTyped
<1>11. CASE UNCHANGED vars
  <2>1. FromResults(results)' = FromResults(results)
    BY <1>11 DEF FromResults, Batch, vars
  <2> QED
    BY <1>1, <1>11, <2>1 DEF ConvertedInv, vars
<1> QED
  BY <1>2, <1>3, <1>4, <1>5, <1>6, <1>7, <1>8, <1>9, <1>10, <1>11 DEF Next

LEMMA ConvertedComesBack ==
  ASSUME Conversions, ExchangeInv, ConvertedInv
  PROVE  ComesBack
<1> DEFINE Comes(kind, val) == ~Raised(ToJson(kind, val)) /\ FromJson(kind, ToJson(kind, val)) = val
<1>1. Setting /\ {Task, CompletionBatch} \subseteq Kinds
  BY DEF Conversions
<1>2. ASSUME NEW kind \in Kinds, NEW val, Returns(kind, val) PROVE Comes(kind, val)
  <2>1. val \in Docs /\ Encode(kind, val) \in Docs /\ Decode(kind, Encode(kind, val)) = val
    BY <1>2 DEF Returns
  <2>2. ToJson(kind, val) = Encode(kind, val) /\ FromJson(kind, Encode(kind, val)) = val
    BY <2>1 DEF Conversions
  <2>3. ~Raised(Encode(kind, val))
    BY <1>1, <2>1, Shape
  <2> QED
    BY <2>2, <2>3
<1>3. ASSUME NEW kind \in Kinds, NEW doc \in Docs, ~Raised(FromJson(kind, doc))
      PROVE  Comes(kind, FromJson(kind, doc))
  <2>1. FromJson(kind, doc) = Decode(kind, doc)
    BY DEF Conversions
  <2>2. Returns(kind, FromJson(kind, doc))
    BY <1>1, <1>3, <2>1, EveryDocGood DEF Good
  <2> QED
    BY <1>2, <2>2
<1> HIDE DEF Comes
<1>4. ASSUME stage = "taken", message.codec = "none" PROVE Comes(Contract[message.name], value)
  <2>1. message \in Messages
    BY <1>4 DEF ExchangeInv
  <2>2. Contract[message.name] \in Kinds /\ message.json \in Docs
    BY <1>4, <2>1 DEF Conversions
  <2>3. value = FromJson(Contract[message.name], message.json) /\ ~Raised(value)
    BY <1>4 DEF ConvertedInv
  <2> QED
    BY <1>3, <2>2, <2>3
<1>5. ASSUME stage = "running", NEW i \in DOMAIN Rows PROVE Comes(Task, Row(i))
  <2>1. Layout = Text("row") /\ BadRows = {}
    BY <1>5 DEF ExchangeInv, Progress
  <2>2. Rows[i] \in Docs /\ ~Raised(Row(i))
    BY <1>5, <2>1, BatchTyped DEF BadRows
  <2> QED
    BY <1>1, <1>3, <2>2 DEF Row
<1>6. ASSUME stage = "replied", ~Raised(answer) PROVE Comes(CompletionBatch, FromResults(results))
  <2> DEFINE all == Completions(Batch[2].batch_id, Batch[2].tick_id, results)
  <2>1. FromResults(results) = all
    BY DEF FromResults, Completions
  <2>2. Returns(Str, Batch[2].batch_id) /\ Returns(Str, Batch[2].tick_id)
    BY <1>6, BatchTyped DEF Ended
  <2>3. results \in Seq(Docs) /\ \A i \in DOMAIN results : Completed(results[i])
    BY DEF ConvertedInv, ResultsTyped
  <2>4. all \in Docs
    <3>1. Batch[2].batch_id \in Docs /\ Batch[2].tick_id \in Docs
      BY <2>2 DEF Returns
    <3> QED
      BY <1>1, <2>3, <3>1, CompletionsDoc
  <2>5. ~Raised(Encode(CompletionBatch, all))
    <3>1. ToJson(CompletionBatch, all) = Encode(CompletionBatch, all)
      BY <1>1, <2>4 DEF Conversions
    <3>2. answer = ToJson(CompletionBatch, all)
      BY <1>6, <2>1 DEF ConvertedInv
    <3> QED
      BY <1>6, <3>1, <3>2
  <2>6. Returns(CompletionBatch, all)
    BY <1>1, <2>2, <2>3, <2>5, CompletionsReturn
  <2> QED
    BY <1>1, <1>2, <2>1, <2>6
<1> QED
  BY <1>4, <1>5, <1>6 DEF ComesBack, Comes

(* Every contract that was accepted, every task in a row of a batch that runs and every     *)
(* batch of completions that can be written is written so that it is read as the same value *)
(* again, whatever documents come and whatever the runners return.                          *)
THEOREM ContractsComeBack == ASSUME Conversions PROVE Spec => []ComesBack
<1>1. Init => ExchangeInv /\ ConvertedInv
  BY InitOK, ConvertedInit
<1>2. ExchangeInv /\ ConvertedInv /\ [Next]_vars => ConvertedInv'
  BY ConvertedStep
<1>3. ExchangeInv /\ ConvertedInv => ComesBack
  BY ConvertedComesBack
<1> QED
  BY Invariance, <1>1, <1>2, <1>3, PTL DEF Spec
=============================================================================
