--------------------------------- MODULE Frames ---------------------------------
(***************************************************************************)
(* The frames of the two codecs (wire/binary.py, wire/msgpack_structure.py *)
(* and wire/jsonl.py): what the encoders write under some limits, and what *)
(* the decoders refuse.                                                    *)
(*                                                                         *)
(* The length of a payload in bytes is an attribute of the frame and not   *)
(* computed from its document. Bits, fields and lengths of a header are    *)
(* the fields of a record. What a walk through the document finds is a     *)
(* parameter: the module Documents has the walks.                          *)
(***************************************************************************)
EXTENDS Contracts, WireLimits

CONSTANTS HeaderSize,        \* HEADER_SIZE
          EnvelopeSize,      \* the bytes of a JSONL line beside its payload
          MaxNestingDepth,   \* MAX_MSGPACK_NESTING_DEPTH
          MaxContainerItems, \* MAX_MSGPACK_CONTAINER_ITEMS
          Depth(_),          \* how deep a document is nested,
          Width(_),          \* the items of its largest container,
          LongestBytes(_),   \* the length of its longest bytes
          Jsonable(_)        \* and whether it is JSON

Served == DOMAIN RequestOf

\* The opcodes of requests a runner sends, which it does not serve.
Opcodes == Served \cup {"task.submit_batch", "task.cancel", "task.outcome",
                        "resource.read.collect", "resource.read.snapshot",
                        "resource.stream.open", "resource.write.commit",
                        "resource.create_blob", "resource.create_cow_state",
                        "resource.create_capability"}

ManagementOpcodes == {"plugin.initialize", "runner.cancel", "runner.dispose"}

ASSUME FrameAssumption == {HeaderSize, EnvelopeSize} \subseteq Nat

\* What a check raises, if anything, and what the first of two does that raises something.
Accepted == ""

Fails(condition, code) == IF condition THEN code ELSE Accepted

first ?? second == IF first = Accepted THEN second ELSE first

--------------------------------------------------------------------------------
(* MessagePack structure. Both ends walk the value before it is used. *)

\* validate_messagepack_structure, and the limits given to unpackb. A payload is `whole` if
\* no byte of it was cut off.
UnpackRefusal(payload, whole, limits) ==
  Fails(~whole, "wire.msgpack_malformed") ??
  Fails(Depth(payload) > MaxNestingDepth, "wire.msgpack_depth") ??
  Fails(Width(payload) > MaxContainerItems, "wire.msgpack_container_limit") ??
  Fails(LongestBytes(payload) > limits.inline, "wire.msgpack_malformed")

\* _validate_value, before packing.
PackRefusal(payload, limits) ==
  Fails(Depth(payload) > MaxNestingDepth, "wire.msgpack_depth") ??
  Fails(Width(payload) > MaxContainerItems, "wire.msgpack_container_limit") ??
  Fails(LongestBytes(payload) > limits.inline, "wire.inline_resource_oversized")

--------------------------------------------------------------------------------
(* Binary frames. `prefix` is the length of the body the frame declares, `body` the bytes  *)
(* there are after it: fewer if the input ends, more if they run into the next frame.     *)

BinaryFrame(id, opcode, flags, payload, size) ==
  [prefix |-> HeaderSize + size, body |-> HeaderSize + size, magic |-> TRUE, major |-> Current,
   opcode |-> opcode, flags |-> flags, request_id |-> id, payload_len |-> size,
   payload |-> payload]

\* The decoder reads these parts of any bytes, or none.
IsBinaryFrame(frame) ==
  frame \in [prefix : Nat, body : Nat, magic : BOOLEAN, major : {Current, Other},
            opcode : {frame.opcode}, flags : {frame.flags}, request_id : Nat,
            payload_len : Nat, payload : {frame.payload}]

RequestFlags(opcode) ==
  IF opcode \in ManagementOpcodes THEN {"request", "management"} ELSE {"request"}

ResponseFlags(ok) == IF ok THEN {"response"} ELSE {"response", "error"}

\* Wrong: only the payload is held against its limit
BinaryEncodingUnframed(id, size, payload, limits) ==
  PackRefusal(payload, limits) ??
  Fails(id <= 0, "wire.request_id_invalid") ??
  Fails(size > limits.payload, "wire.payload_oversized")

\* _encode_frame
BinaryEncoding(id, size, payload, limits) ==
  PackRefusal(payload, limits) ??
  Fails(id <= 0, "wire.request_id_invalid") ??
  Fails(size > limits.payload, "wire.payload_oversized") ??
  Fails(HeaderSize + size > limits.frame, "wire.frame_oversized")

\* Wrong: the length of the payload is taken from the body, and not compared
BinaryLengthUndeclared(frame, limits) ==
  Fails(frame.prefix - HeaderSize > limits.payload, "wire.payload_oversized")

\* The end of _decode_frame: the payload is what follows the header in the bytes read.
BinaryLengthRefusal(frame, limits) ==
  Fails(frame.payload_len # frame.prefix - HeaderSize, "wire.payload_length_mismatch") ??
  Fails(frame.payload_len > limits.payload, "wire.payload_oversized")

\* read_binary_request, _decode_frame
BinaryFrameRefusal(frame, limits) ==
  Fails(frame.prefix < HeaderSize, "wire.frame_truncated") ??
  Fails(frame.prefix > limits.frame, "wire.frame_oversized") ??
  Fails(frame.body < frame.prefix, "wire.frame_truncated") ??
  Fails(~frame.magic, "wire.magic_invalid") ??
  Fails(frame.major # Current, "wire.version_mismatch") ??
  Fails(~(frame.flags \subseteq {"request", "response", "error", "management"}),
        "wire.flags_invalid") ??
  Fails("request" \in frame.flags <=> "response" \in frame.flags, "wire.flags_invalid") ??
  Fails("error" \in frame.flags /\ "response" \notin frame.flags, "wire.flags_invalid") ??
  Fails(frame.request_id <= 0, "wire.request_id_invalid") ??
  Fails(frame.opcode \notin Opcodes, "wire.opcode_unknown") ??
  BinaryLengthRefusal(frame, limits)

\* binary_request_payload
BinaryRequestRefusal(frame, limits) ==
  BinaryFrameRefusal(frame, limits) ??
  Fails("request" \notin frame.flags, "wire.flags_invalid") ??
  UnpackRefusal(frame.payload, frame.prefix = frame.body, limits) ??
  Fails(frame.payload[1] # "map", "TypeError")

\* binary_response_payload
BinaryResponseRefusal(frame, limits) ==
  BinaryFrameRefusal(frame, limits) ??
  Fails("response" \notin frame.flags, "wire.flags_invalid") ??
  UnpackRefusal(frame.payload, frame.prefix = frame.body, limits)

--------------------------------------------------------------------------------
(* JSONL frames. `line` is the length of the line, its end included. *)

JsonlFrame(id, opcode, payload, size) ==
  [line |-> EnvelopeSize + size, major |-> Current, opcode |-> opcode, method |-> opcode,
   request_id |-> id, payload_len |-> size, size |-> size, payload |-> payload]

\* The envelope of a response names no method.
JsonlResponse(id, opcode, ok, payload, size) ==
  [line |-> EnvelopeSize + size, major |-> Current, opcode |-> opcode, request_id |-> id,
   payload_len |-> size, size |-> size, ok |-> ok, payload |-> payload]

\* ... and these of a line of JSON, which is taken to be as compact as the encoders write it:
\* its length follows from that of its payload.
IsJsonlFrame(frame) ==
  /\ frame \in [line : Nat, major : {Current, Other}, opcode : {frame.opcode},
               method : {frame.method}, request_id : Int, payload_len : Int, size : Nat,
               payload : {frame.payload}]
  /\ frame.line = EnvelopeSize + frame.size
  /\ Jsonable(frame.payload)

\* encode_jsonl_request, encode_jsonl_response
JsonlEncoding(id, size, payload, limits) ==
  Fails(id <= 0, "wire.request_id_invalid") ??
  Fails(~Jsonable(payload), "TypeError") ??
  Fails(size > limits.payload, "wire.payload_oversized") ??
  Fails(EnvelopeSize + size > limits.line, "wire.frame_oversized")

\* decode_jsonl_request
JsonlRequestRefusal(frame, limits) ==
  Fails(frame.line > limits.line, "wire.frame_oversized") ??
  Fails(frame.request_id <= 0, "wire.request_id_invalid") ??
  Fails(frame.major # Current, "wire.version_mismatch") ??
  Fails(frame.opcode \notin Opcodes, "wire.opcode_unknown") ??
  Fails(frame.method # frame.opcode, "wire.method_mismatch") ??
  Fails(frame.payload[1] # "map", "TypeError") ??
  Fails(frame.payload_len # frame.size, "wire.payload_length_mismatch") ??
  Fails(frame.payload_len > limits.payload, "wire.payload_oversized")
=================================================================================
