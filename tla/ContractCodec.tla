----------------------------- MODULE ContractCodec -----------------------------
(***************************************************************************)
(* from_json_dict and to_json_value of every contract: ContractLevel, with *)
(* the conversion of the parts by the same functions.                      *)
(***************************************************************************)
EXTENDS Documents

RECURSIVE IsJson(_), Decode(_, _), Encode(_, _)

Level == INSTANCE ContractLevel

IsJson(doc)         == Level!JsonLevel(doc)
Decode(kind, doc)   == Level!DecodeLevel(kind, doc)
Encode(kind, value) == Level!EncodeLevel(kind, value)

\* decode_request. The opcodes of the other direction are refused, after provider_id.
DecodeRequest(opcode, payload) ==
  IF opcode \in DOMAIN RequestOf THEN Decode(RequestOf[opcode], payload)
  ELSE IF Raised(Level!DecodeFields([provider_id |-> ProviderId], payload[2]).provider_id) THEN TypeError
  ELSE ValueError
================================================================================
