----------------------------- MODULE ContractLevel -----------------------------
(***************************************************************************)
(* from_json_dict and to_json_value of one contract, from the kinds of its *)
(* fields. What its parts are converted to is a parameter: ContractCodec   *)
(* closes the recursion. A dataclass decodes its fields one after the      *)
(* other and raises what the first bad one raises; where several are bad,  *)
(* CHOOSE stands for the first.                                            *)
(***************************************************************************)
EXTENDS Contracts

CONSTANTS Decode(_, _),  \* from_json_dict of a part
          Encode(_, _),  \* to_json_value of a part
          IsJson(_)      \* as_json_value takes the part

IsScalar(doc) == doc[1] \in {"str", "bool", "int", "float"}

JsonLevel(doc) ==
  \/ doc = Null
  \/ IsScalar(doc)
  \/ doc[1] \in {"list", "map"} /\ \A i \in DOMAIN doc[2] : IsJson(doc[2][i])

--------------------------------------------------------------------------------
\* A value is what its parts are; if one of them raises, so does the value.
Assemble(type, parts) ==
  IF \E i \in DOMAIN parts : Raised(parts[i])
  THEN parts[CHOOSE i \in DOMAIN parts : Raised(parts[i])]
  ELSE <<type, parts>>

Is(type, doc, value) == IF doc[1] = type THEN value ELSE TypeError

With(field, new, fields) ==
  [f \in {field} \cup DOMAIN fields |-> IF f = field THEN new ELSE fields[f]]

\* float() of a scalar: a string may be a numeral.
ToFloat(doc) ==
  CASE doc[1] = "float" -> doc
    [] doc[1] = "int"   -> Real(doc[2])
    [] doc[1] = "bool"  -> Real(IF doc[2] THEN 1 ELSE 0)
    [] doc[1] = "str"   -> IF \E n \in 0..9 : ToString(n) = doc[2]
                           THEN Real(CHOOSE n \in 0..9 : ToString(n) = doc[2])
                           ELSE ValueError
    [] OTHER            -> TypeError

--------------------------------------------------------------------------------
\* Wrong: a contract does not take what was written before it had the field
AbsentRequired(kind) == IF kind[1] = "skipped" THEN Object(NoFields) ELSE TypeError

\* The field is not in the object.
Absent(kind) == CASE kind[1] = "default" -> Decode(kind[2], kind[3])
                  [] kind[1] = "skipped" -> Decode(kind[2], Object(NoFields))
                  [] OTHER               -> TypeError

DecodeFields(kinds, fields) ==
  [f \in DOMAIN kinds |-> IF f \in DOMAIN fields THEN Decode(kinds[f], fields[f])
                                                 ELSE Absent(kinds[f])]

DecodeAll(kind, parts) == [i \in DOMAIN parts |-> Decode(kind, parts[i])]

DecodeEnum(names, doc) ==
  IF doc[1] # "str" THEN TypeError ELSE IF doc[2] \in names THEN doc ELSE ValueError

\* The tag says which fields there are.
DecodeTagged(tag, unknown, variants, doc) ==
  IF doc[1] # "map" \/ tag \notin DOMAIN doc[2] \/ doc[2][tag][1] # "str" THEN TypeError
  ELSE IF doc[2][tag][2] \notin DOMAIN variants THEN unknown
  ELSE Assemble("map", With(tag, doc[2][tag], DecodeFields(variants[doc[2][tag][2]], doc[2])))

DecodePair(pair) ==
  IF pair[1] # "list" \/ Len(pair[2]) # 2 THEN TypeError
  ELSE Assemble("list", <<Decode(Str, pair[2][1]), Decode(Scalar, pair[2][2])>>)

DecodeLifetime(units, lease, doc) ==
  IF doc[1] = "str" THEN Decode(units, doc)
  ELSE IF doc[1] = "map" /\ DOMAIN doc[2] # DOMAIN FieldsOf(lease) THEN TypeError
  ELSE Decode(lease, doc)

DecodeLevel(kind, doc) ==
  CASE kind[1] \in {"str", "int", "bool"} -> Is(kind[1], doc, doc)
    [] kind[1] = "float"       -> ToFloat(doc)
    [] kind[1] = "byte"        -> IF doc[1] = "int" /\ doc[2] \in 0..255 THEN doc ELSE TypeError
    [] kind[1] = "json"        -> IF IsJson(doc) THEN doc ELSE TypeError
    [] kind[1] = "json dict"   -> IF IsJson(doc) THEN Is("map", doc, doc) ELSE TypeError
    [] kind[1] = "scalar"      -> IF IsScalar(doc) THEN doc ELSE TypeError
    [] kind[1] = "enum"        -> DecodeEnum(kind[2], doc)
    [] kind[1] = "cause"       -> Decode(RuntimeError, doc)
    [] kind[1] = "optional"    -> IF doc = Null THEN Null ELSE Decode(kind[2], doc)
    [] kind[1] \in {"default", "skipped"} -> Decode(kind[2], doc)
    [] kind[1] = "many"        -> Is("list", doc, Assemble("list", DecodeAll(kind[2], doc[2])))
    [] kind[1] = "by key"      -> Is("map", doc, Assemble("map", DecodeAll(kind[2], doc[2])))
    [] kind[1] = "pairs"       -> Is("list", doc, Assemble("list", [i \in DOMAIN doc[2] |->
                                                                    DecodePair(doc[2][i])]))
    [] kind[1] = "fields"      -> Is("map", doc, Assemble("map", DecodeFields(kind[2], doc[2])))
    [] kind[1] = "tagged"      -> DecodeTagged(kind[2], kind[3], kind[4], doc)
    [] kind[1] = "lifetime"    -> DecodeLifetime(kind[2], kind[3], doc)

--------------------------------------------------------------------------------
\* Wrong: what is None is left out as well
KeptUnlessNone(kinds, fields) ==
  {f \in DOMAIN kinds : ~(kinds[f][1] = "skipped" /\ DOMAIN fields[f][2] = {}) /\ fields[f] # Null}

\* A field with skip_serializing_if_empty is left out while it is empty.
Kept(kinds, fields) ==
  {f \in DOMAIN kinds : ~(kinds[f][1] = "skipped" /\ DOMAIN fields[f][2] = {})}

EncodeFields(kinds, fields) ==
  [f \in Kept(kinds, fields) |-> Encode(kinds[f], fields[f])]

EncodeAll(kind, parts) == [i \in DOMAIN parts |-> Encode(kind, parts[i])]

\* The fields of the other variants are left out, and those of this one must be there.
EncodeTagged(tag, unknown, variants, fields) ==
  LET kinds == variants[fields[tag][2]]
      lacks(f) == fields[f] = Null /\ kinds[f][1] \notin {"json", "optional", "default"}
  IN IF fields[tag][2] \notin DOMAIN variants THEN unknown
     ELSE IF \E f \in DOMAIN kinds : lacks(f) THEN TypeError
     ELSE Assemble("map", With(tag, fields[tag], EncodeFields(kinds, fields)))

EncodeLevel(kind, value) ==
  IF value = Null THEN Null ELSE
  CASE kind[1] \in {"optional", "default", "skipped"} -> Encode(kind[2], value)
    [] kind[1] = "cause"    -> Encode(RuntimeError, value)
    [] kind[1] = "many"     -> Assemble("list", EncodeAll(kind[2], value[2]))
    [] kind[1] = "fields"   -> Assemble("map", EncodeFields(kind[2], value[2]))
    [] kind[1] = "tagged"   -> EncodeTagged(kind[2], kind[3], kind[4], value[2])
    [] OTHER                -> IF IsJson(value) THEN value ELSE TypeError
================================================================================
