-------------------------- MODULE ContractLevelProofs --------------------------
(***************************************************************************)
(* Every contract that is accepted comes back: for any kinds put together  *)
(* as those of the contracts are, documents of any size and depth, and any *)
(* conversion that does on each level what ContractLevel says.             *)
(***************************************************************************)
EXTENDS ContractLevel, WellFoundedInduction, TLAPS

CONSTANTS Docs,  \* the documents there are
          Kinds  \* the kinds there are

Maps(S) == UNION {[names -> S] : names \in SUBSET STRING}

\* One document is an item, or the value of a key, of the other.
Within == {pair \in Docs \X Docs :
             /\ pair[2][1] \in {"list", "map"}
             /\ \E i \in DOMAIN pair[2][2] : pair[1] = pair[2][2][i]}

\* Any finite nesting of scalars and bytes in lists and objects.
DocsOK ==
  /\ Null \in Docs
  /\ \A d \in Docs : \/ d = Null
                     \/ d = <<d[1], d[2]>> /\ d[1] \in {"str", "int", "bool", "float", "bytes"}
                     \/ d = List(d[2]) /\ d[2] \in Seq(Docs)
                     \/ d = Object(d[2]) /\ d[2] \in Maps(Docs)
  /\ \A d \in Docs : d[1] = "int" => Real(d[2]) \in Docs
  /\ \A n \in 0..9 : Real(n) \in Docs
  /\ \A items \in Seq(Docs) : List(items) \in Docs
  /\ \A fields \in Maps(Docs) : Object(fields) \in Docs
  /\ IsWellFoundedOn(Within, Docs)

KindsOK ==
  /\ RuntimeError \in Kinds
  /\ \A kind \in Kinds : Formed(kind, Kinds)
  /\ \A kind \in Kinds : kind[1] = "default" => kind[3] \in Docs

\* The conversions are those of ContractLevel, on every level.
ConversionsOK ==
  /\ \A kind \in Kinds, doc \in Docs : Decode(kind, doc) = DecodeLevel(kind, doc)
  /\ \A kind \in Kinds, val \in Docs : Encode(kind, val) = EncodeLevel(kind, val)
  /\ \A doc \in Docs : IsJson(doc) <=> JsonLevel(doc)

Setting == DocsOK /\ KindsOK /\ ConversionsOK

\* A decoded value that comes back, with what the value around it needs to know of it.
Returns(kind, val) ==
  /\ val \in Docs
  /\ Encode(kind, val) \in Docs
  /\ Decode(kind, Encode(kind, val)) = val
  /\ IsJson(Encode(kind, val))
  /\ Encode(kind, val) = Null => val = Null
  /\ val = Null => kind[1] \in {"json", "optional", "default"}
  /\ IsLeaf(kind) => Encode(kind, val) = val
  /\ kind[1] \in {"json dict", "by key", "skipped"} => val[1] = "map"

Good(kind, doc) == ~Raised(Decode(kind, doc)) => Returns(kind, Decode(kind, doc))

--------------------------------------------------------------------------------
(* Documents *)

LEMMA Shape ==
  ASSUME Setting, NEW d \in Docs
  PROVE  /\ d # Null => d[1] # "null"
         /\ ~Raised(d)
         /\ d[1] = "list" => d = List(d[2]) /\ d[2] \in Seq(Docs)
         /\ d[1] = "map" => d = Object(d[2]) /\ d[2] \in Maps(Docs)
         /\ d[1] \in {"null", "str", "int", "bool", "float", "bytes", "list", "map"}
<1>1. \/ d = Null
      \/ d = <<d[1], d[2]>> /\ d[1] \in {"str", "int", "bool", "float", "bytes"}
      \/ d = List(d[2]) /\ d[2] \in Seq(Docs)
      \/ d = Object(d[2]) /\ d[2] \in Maps(Docs)
  BY DEF Setting, DocsOK
<1>2. Null[1] = "null" /\ List(d[2])[1] = "list" /\ Object(d[2])[1] = "map"
  BY DEF Null, List, Object
<1>3. TypeError[1] = "TypeError" /\ ValueError[1] = "ValueError"
  BY DEF TypeError, ValueError
<1>4. d[1] \in {"null", "str", "int", "bool", "float", "bytes", "list", "map"}
  BY <1>1, <1>2
<1>5. ~Raised(d)
  BY <1>3, <1>4 DEF Raised
<1> QED
  BY <1>1, <1>2, <1>4, <1>5

LEMMA Refusals == Raised(TypeError) /\ Raised(ValueError)
  BY DEF Raised

LEMMA Assembled ==
  ASSUME NEW type, NEW parts, ~Raised(Assemble(type, parts))
  PROVE  /\ \A i \in DOMAIN parts : ~Raised(parts[i])
         /\ Assemble(type, parts) = <<type, parts>>
<1>1. ASSUME \E i \in DOMAIN parts : Raised(parts[i]) PROVE FALSE
  <2> DEFINE first == CHOOSE i \in DOMAIN parts : Raised(parts[i])
  <2>1. Raised(parts[first])
    BY <1>1
  <2> QED
    BY <1>1, <2>1 DEF Assemble
<1> QED
  BY <1>1 DEF Assemble

LEMMA AssembledAll ==
  ASSUME NEW type, NEW parts, \A i \in DOMAIN parts : ~Raised(parts[i])
  PROVE  Assemble(type, parts) = <<type, parts>>
  BY DEF Assemble

\* A kind has one shape.
LEMMA KindIs ==
  ASSUME Setting, NEW kind \in Kinds
  PROVE  Formed(kind, Kinds)
  BY DEF Setting, KindsOK

--------------------------------------------------------------------------------
(* Values that are written as they are *)

LEMMA LeafGood ==
  ASSUME Setting, NEW kind \in Kinds, IsLeaf(kind), NEW doc \in Docs
  PROVE  Good(kind, doc)
<1> SUFFICES ASSUME ~Raised(Decode(kind, doc)) PROVE Returns(kind, Decode(kind, doc))
  BY DEF Good
<1> DEFINE val == Decode(kind, doc)
<1>1. val = DecodeLevel(kind, doc)
  BY DEF Setting, ConversionsOK
<1>2. Null[1] = "null" /\ Null \in Docs
  BY DEF Null, Setting, DocsOK
<1>3. \A d \in Docs : IsScalar(d) => IsJson(d) /\ d # Null
  BY <1>2 DEF Setting, ConversionsOK, JsonLevel, IsScalar
<1>4. /\ val \in Docs /\ IsJson(val) /\ DecodeLevel(kind, val) = val
      /\ val = Null => kind[1] = "json"
      /\ kind[1] = "json dict" => val[1] = "map"
  <2>1. CASE kind[1] \in {"str", "int", "bool"}
    <3>1. val = Is(kind[1], doc, doc)
      BY <1>1, <2>1 DEF DecodeLevel
    <3>2. val = doc /\ doc[1] = kind[1]
      BY <3>1, Refusals DEF Is
    <3>3. DecodeLevel(kind, val) = val
      BY <2>1, <3>2 DEF DecodeLevel, Is
    <3> QED
      BY <1>3, <2>1, <3>2, <3>3 DEF IsScalar
  <2>2. CASE kind[1] = "float"
    <3>1. val = ToFloat(doc) /\ DecodeLevel(kind, val) = ToFloat(val)
      BY <1>1, <2>2 DEF DecodeLevel
    <3>2. val \in Docs /\ val[1] = "float"
      <4>1. CASE doc[1] = "float"
        BY <3>1, <4>1 DEF ToFloat
      <4>2. CASE doc[1] = "int"
        <5>1. val = Real(doc[2])
          BY <3>1, <4>2 DEF ToFloat
        <5> QED
          BY <4>2, <5>1 DEF Setting, DocsOK, Real
      <4>3. CASE doc[1] = "bool"
        <5>1. PICK n \in 0..9 : val = Real(n)
          <6>1. 0 \in 0..9 /\ 1 \in 0..9
            OBVIOUS
          <6> QED
            BY <3>1, <4>3, <6>1 DEF ToFloat
        <5> QED
          BY <5>1 DEF Setting, DocsOK, Real
      <4>4. CASE doc[1] = "str"
        <5>1. /\ \E n \in 0..9 : ToString(n) = doc[2]
              /\ val = Real(CHOOSE n \in 0..9 : ToString(n) = doc[2])
          BY <3>1, <4>4, Refusals DEF ToFloat
        <5>2. PICK n \in 0..9 : val = Real(n)
          BY <5>1
        <5> QED
          BY <5>2 DEF Setting, DocsOK, Real
      <4>5. CASE doc[1] \notin {"float", "int", "bool", "str"}
        BY <3>1, <4>5, Refusals DEF ToFloat
      <4> QED
        BY <4>1, <4>2, <4>3, <4>4, <4>5
    <3>3. ToFloat(val) = val
      BY <3>2 DEF ToFloat
    <3> QED
      BY <1>3, <2>2, <3>1, <3>2, <3>3 DEF IsScalar
  <2>3. CASE kind[1] = "byte"
    <3>1. val = IF doc[1] = "int" /\ doc[2] \in 0..255 THEN doc ELSE TypeError
      BY <1>1, <2>3 DEF DecodeLevel
    <3>2. val = doc /\ doc[1] = "int" /\ doc[2] \in 0..255
      BY <3>1, Refusals
    <3>3. DecodeLevel(kind, val) = val
      BY <2>3, <3>2 DEF DecodeLevel
    <3> QED
      BY <1>3, <2>3, <3>2, <3>3 DEF IsScalar
  <2>4. CASE kind[1] = "json"
    <3>1. val = IF IsJson(doc) THEN doc ELSE TypeError
      BY <1>1, <2>4 DEF DecodeLevel
    <3>2. val = doc /\ IsJson(doc)
      BY <3>1, Refusals
    <3> QED
      BY <2>4, <3>2 DEF DecodeLevel
  <2>5. CASE kind[1] = "json dict"
    <3>1. val = IF IsJson(doc) THEN Is("map", doc, doc) ELSE TypeError
      BY <1>1, <2>5 DEF DecodeLevel
    <3>2. val = doc /\ IsJson(doc) /\ doc[1] = "map"
      BY <3>1, Refusals DEF Is
    <3>3. DecodeLevel(kind, val) = val
      BY <2>5, <3>2 DEF DecodeLevel, Is
    <3> QED
      BY <1>2, <2>5, <3>2, <3>3
  <2>6. CASE kind[1] = "scalar"
    <3>1. val = IF IsScalar(doc) THEN doc ELSE TypeError
      BY <1>1, <2>6 DEF DecodeLevel
    <3>2. val = doc /\ IsScalar(doc)
      BY <3>1, Refusals
    <3> QED
      BY <1>3, <2>6, <3>2 DEF DecodeLevel
  <2>7. CASE kind[1] = "enum"
    <3>1. val = DecodeEnum(kind[2], doc)
      BY <1>1, <2>7 DEF DecodeLevel
    <3>2. val = doc /\ doc[1] = "str" /\ doc[2] \in kind[2]
      BY <3>1, Refusals DEF DecodeEnum
    <3>3. DecodeLevel(kind, val) = val
      BY <2>7, <3>2 DEF DecodeLevel, DecodeEnum
    <3> QED
      BY <1>3, <2>7, <3>2, <3>3 DEF IsScalar
  <2> QED
    BY <2>1, <2>2, <2>3, <2>4, <2>5, <2>6, <2>7 DEF IsLeaf
<1> HIDE DEF val
<1>5. Encode(kind, val) = val
  <2>1. Encode(kind, val) = EncodeLevel(kind, val)
    BY <1>4 DEF Setting, ConversionsOK
  <2>2. CASE val = Null
    BY <2>1, <2>2 DEF EncodeLevel
  <2>3. CASE val # Null
    BY <1>4, <2>1, <2>3 DEF EncodeLevel, IsLeaf
  <2> QED
    BY <2>2, <2>3
<1>6. Decode(kind, val) = val
  BY <1>4 DEF Setting, ConversionsOK
<1>7. kind[1] \notin {"by key", "skipped"}
  BY DEF IsLeaf
<1>8. Returns(kind, val)
  BY <1>4, <1>5, <1>6, <1>7 DEF Returns
<1> QED
  BY <1>8 DEF val
--------------------------------------------------------------------------------
(* A map whose values are written as they are, and pairs of such *)

LEMMA ByKeyGood ==
  ASSUME Setting, NEW kind \in Kinds, kind[1] = "by key", NEW doc \in Docs
  PROVE  Good(kind, doc)
<1> SUFFICES ASSUME ~Raised(Decode(kind, doc)) PROVE Returns(kind, Decode(kind, doc))
  BY DEF Good
<1>1. kind[2] \in Kinds /\ IsLeaf(kind[2])
  BY KindIs DEF Formed, IsLeaf
<1> DEFINE parts == DecodeAll(kind[2], doc[2])
           val   == Object(parts)
<1>2. Decode(kind, doc) = Is("map", doc, Assemble("map", parts))
  BY DEF Setting, ConversionsOK, DecodeLevel
<1>3. doc[1] = "map" /\ ~Raised(Assemble("map", parts))
  BY <1>2, Refusals DEF Is
<1>4. /\ Decode(kind, doc) = val
      /\ \A i \in DOMAIN parts : ~Raised(parts[i])
  BY <1>2, <1>3, Assembled DEF Is, Object
<1>5. PICK names \in SUBSET STRING : doc[2] \in [names -> Docs]
  BY <1>3, Shape DEF Maps
<1>6. DOMAIN parts = names /\ \A i \in names : parts[i] = Decode(kind[2], doc[2][i])
  BY <1>5 DEF DecodeAll
<1>7. ASSUME NEW i \in names
      PROVE  parts[i] \in Docs /\ IsJson(parts[i]) /\ Decode(kind[2], parts[i]) = parts[i]
  <2>1. Good(kind[2], doc[2][i])
    BY <1>1, <1>5, LeafGood
  <2>2. Returns(kind[2], parts[i])
    BY <1>4, <1>6, <2>1 DEF Good
  <2> QED
    BY <1>1, <2>2 DEF Returns
<1>8. parts \in [names -> Docs]
  BY <1>6, <1>7 DEF DecodeAll
<1>9. val \in Docs /\ val[1] = "map" /\ val[2] = parts /\ val # Null
  BY <1>8 DEF Setting, DocsOK, Maps, Object, Null
<1> HIDE DEF val
<1>10. IsJson(val)
  BY <1>6, <1>7, <1>9 DEF Setting, ConversionsOK, JsonLevel
<1>11. Encode(kind, val) = val
  BY <1>9, <1>10 DEF Setting, ConversionsOK, EncodeLevel
<1>12. Decode(kind, val) = val
  <2>1. DecodeAll(kind[2], parts) = parts
    BY <1>6, <1>7, <1>8 DEF DecodeAll
  <2>2. Assemble("map", parts) = <<"map", parts>>
    BY <1>4, AssembledAll
  <2>3. Decode(kind, val) = Is("map", val, Assemble("map", DecodeAll(kind[2], val[2])))
    BY <1>9 DEF Setting, ConversionsOK, DecodeLevel
  <2> QED
    BY <1>9, <2>1, <2>2, <2>3 DEF Is, Object, val
<1>13. ~IsLeaf(kind)
  BY DEF IsLeaf
<1> QED
  BY <1>4, <1>9, <1>10, <1>11, <1>12, <1>13 DEF Returns

\* A field that is left out while it is empty.
LEMMA EmptyGood ==
  ASSUME Setting, NEW kind \in Kinds, kind[1] \in {"json dict", "by key"}
  PROVE  /\ Object(NoFields) \in Docs
         /\ Decode(kind, Object(NoFields)) = Object(NoFields)
<1>1. NoFields \in [{} -> Docs] /\ {} \in SUBSET STRING /\ DOMAIN NoFields = {}
  BY DEF NoFields
<1>2. Object(NoFields) \in Docs
  BY <1>1 DEF Setting, DocsOK, Maps
<1> DEFINE none == Object(NoFields)
<1>3. none[1] = "map" /\ none[2] = NoFields
  BY DEF Object
<1> HIDE DEF none
<1>4. Decode(kind, none) = DecodeLevel(kind, none)
  BY <1>2 DEF Setting, ConversionsOK, none
<1>5. CASE kind[1] = "json dict"
  <2>1. IsJson(none)
    BY <1>1, <1>2, <1>3 DEF Setting, ConversionsOK, JsonLevel, none
  <2> QED
    BY <1>2, <1>3, <1>4, <1>5, <2>1 DEF DecodeLevel, Is, none
<1>6. CASE kind[1] = "by key"
  <2>1. DecodeAll(kind[2], NoFields) = NoFields
    BY <1>1 DEF DecodeAll
  <2>2. Assemble("map", NoFields) = <<"map", NoFields>>
    BY <1>1, AssembledAll
  <2>3. Decode(kind, none) = Is("map", none, Assemble("map", DecodeAll(kind[2], none[2])))
    BY <1>4, <1>6 DEF DecodeLevel
  <2> QED
    BY <1>2, <1>3, <2>1, <2>2, <2>3 DEF Is, Object, none
<1> QED
  BY <1>5, <1>6

LEMMA PairGood ==
  ASSUME Setting, {Str, Scalar} \subseteq Kinds, NEW pair \in Docs, ~Raised(DecodePair(pair))
  PROVE  /\ DecodePair(pair) \in Docs /\ IsJson(DecodePair(pair))
         /\ DecodePair(DecodePair(pair)) = DecodePair(pair)
<1> DEFINE key   == Decode(Str, pair[2][1])
           datum == Decode(Scalar, pair[2][2])
           val   == <<key, datum>>
<1>1. /\ pair[1] = "list" /\ Len(pair[2]) = 2
      /\ DecodePair(pair) = Assemble("list", val)
  BY Refusals DEF DecodePair
<1>2. pair[2] \in Seq(Docs)
  BY <1>1, Shape
<1>3. pair[2][1] \in Docs /\ pair[2][2] \in Docs
  BY <1>1, <1>2
<1>4. /\ DecodePair(pair) = List(val)
      /\ ~Raised(key) /\ ~Raised(datum)
  <2>1. DOMAIN val = 1..2 /\ val[1] = key /\ val[2] = datum
    OBVIOUS
  <2> HIDE DEF val
  <2> QED
    BY <1>1, <2>1, Assembled DEF List
<1>5. IsLeaf(Str) /\ IsLeaf(Scalar)
  BY DEF IsLeaf, Str, Scalar
<1>6. Returns(Str, key) /\ Returns(Scalar, datum)
  BY <1>3, <1>4, <1>5, LeafGood DEF Good
<1> HIDE DEF key, datum
<1>7. /\ key \in Docs /\ IsJson(key) /\ Decode(Str, key) = key
      /\ datum \in Docs /\ IsJson(datum) /\ Decode(Scalar, datum) = datum
  BY <1>5, <1>6 DEF Returns
<1>8. val \in Seq(Docs) /\ Len(val) = 2 /\ DOMAIN val = 1..2 /\ val[1] = key /\ val[2] = datum
  BY <1>7
<1>9. List(val) \in Docs /\ List(val)[1] = "list" /\ List(val)[2] = val
  BY <1>8 DEF Setting, DocsOK, List
<1>10. IsJson(List(val))
  BY <1>7, <1>8, <1>9 DEF Setting, ConversionsOK, JsonLevel
<1>11. DecodePair(List(val)) = List(val)
  <2>1. DecodePair(List(val)) = Assemble("list", val)
    BY <1>7, <1>8, <1>9 DEF DecodePair
  <2>2. \A i \in DOMAIN val : ~Raised(val[i])
    BY <1>7, <1>8, Shape
  <2> HIDE DEF val
  <2> QED
    BY <2>1, <2>2, AssembledAll DEF List
<1> QED
  BY <1>4, <1>9, <1>10, <1>11
LEMMA PairsGood ==
  ASSUME Setting, NEW kind \in Kinds, kind[1] = "pairs", NEW doc \in Docs
  PROVE  Good(kind, doc)
<1> SUFFICES ASSUME ~Raised(Decode(kind, doc)) PROVE Returns(kind, Decode(kind, doc))
  BY DEF Good
<1>1. {Str, Scalar} \subseteq Kinds
  BY KindIs DEF Formed, IsLeaf
<1> DEFINE parts == [i \in DOMAIN doc[2] |-> DecodePair(doc[2][i])]
           val   == List(parts)
<1>2. Decode(kind, doc) = Is("list", doc, Assemble("list", parts))
  BY DEF Setting, ConversionsOK, DecodeLevel
<1>3. doc[1] = "list" /\ ~Raised(Assemble("list", parts))
  BY <1>2, Refusals DEF Is
<1>4. /\ Decode(kind, doc) = val
      /\ \A i \in DOMAIN parts : ~Raised(parts[i])
  BY <1>2, <1>3, Assembled DEF Is, List
<1>5. doc[2] \in Seq(Docs)
  BY <1>3, Shape
<1>6. ASSUME NEW i \in DOMAIN doc[2]
      PROVE  /\ DecodePair(doc[2][i]) \in Docs /\ IsJson(DecodePair(doc[2][i]))
             /\ DecodePair(DecodePair(doc[2][i])) = DecodePair(doc[2][i])
  <2>1. doc[2][i] \in Docs
    BY <1>5
  <2>2. ~Raised(DecodePair(doc[2][i]))
    BY <1>4
  <2> QED
    BY <1>1, <2>1, <2>2, PairGood
<1>7. parts \in Seq(Docs) /\ DOMAIN parts = DOMAIN doc[2]
  BY <1>5, <1>6
<1>8. /\ \A i \in DOMAIN parts : IsJson(parts[i]) /\ DecodePair(parts[i]) = parts[i]
      /\ [i \in DOMAIN parts |-> DecodePair(parts[i])] = parts
  BY <1>6, <1>7
<1> HIDE DEF parts
<1>9. val \in Docs /\ val[1] = "list" /\ val[2] = parts /\ val # Null
  BY <1>7 DEF Setting, DocsOK, List, Null
<1> HIDE DEF val
<1>10. IsJson(val)
  BY <1>8, <1>9 DEF Setting, ConversionsOK, JsonLevel
<1>11. Encode(kind, val) = val
  BY <1>9, <1>10 DEF Setting, ConversionsOK, EncodeLevel
<1>12. Decode(kind, val) = val
  <2>1. Assemble("list", parts) = <<"list", parts>>
    BY <1>4, AssembledAll
  <2>2. Decode(kind, val)
          = Is("list", val, Assemble("list", [i \in DOMAIN val[2] |-> DecodePair(val[2][i])]))
    BY <1>9 DEF Setting, ConversionsOK, DecodeLevel
  <2> QED
    BY <1>8, <1>9, <2>1, <2>2 DEF Is, List, val
<1> QED
  BY <1>4, <1>9, <1>10, <1>11, <1>12 DEF Returns, IsLeaf

--------------------------------------------------------------------------------
(* Kinds around another one *)

\* Encoding passes Null on.
LEMMA NullStays ==
  ASSUME Setting, NEW kind \in Kinds
  PROVE  Encode(kind, Null) = Null
  BY DEF Setting, DocsOK, ConversionsOK, EncodeLevel

LEMMA PassedOn ==
  ASSUME Setting, NEW kind \in Kinds, NEW inner \in Kinds, NEW val,
         \/ kind[1] \in {"default", "skipped"} /\ inner = kind[2]
         \/ kind[1] = "cause" /\ inner = RuntimeError,
         Returns(inner, val),
         kind[1] = "skipped" => inner[1] \in {"json dict", "by key"},
         kind[1] = "cause" => val # Null
  PROVE  Returns(kind, val)
<1>1. val \in Docs /\ Encode(inner, val) \in Docs
  BY DEF Returns
<1>2. \A d \in Docs : Decode(kind, d) = Decode(inner, d)
  BY DEF Setting, ConversionsOK, DecodeLevel
<1>3. Encode(kind, val) = Encode(inner, val)
  <2>1. Encode(kind, val) = EncodeLevel(kind, val)
    BY <1>1 DEF Setting, ConversionsOK
  <2>2. CASE val = Null
    BY <2>2, NullStays
  <2>3. CASE val # Null /\ kind[1] \in {"default", "skipped"}
    <3>1. inner = kind[2]
      BY <2>3
    <3>2. EncodeLevel(kind, val) = Encode(kind[2], val)
      BY <2>3 DEF EncodeLevel
    <3> QED
      BY <2>1, <3>1, <3>2
  <2>4. CASE val # Null /\ kind[1] = "cause"
    BY <2>1, <2>4 DEF EncodeLevel
  <2> QED
    BY <2>2, <2>3, <2>4
<1>4. ~IsLeaf(kind)
  BY DEF IsLeaf
<1>5. kind[1] = "skipped" => val[1] = "map" /\ val # Null
  BY DEF Returns, Null
<1> QED
  BY <1>1, <1>2, <1>3, <1>4, <1>5 DEF Returns

LEMMA OptionalReturns ==
  ASSUME Setting, NEW kind \in Kinds, kind[1] = "optional", NEW val,
         val # Null => Returns(kind[2], val)
  PROVE  Returns(kind, val)
<1>1. kind[2] \in Kinds
  BY KindIs DEF Formed, IsLeaf
<1>2. \A d \in Docs : Decode(kind, d) = IF d = Null THEN Null ELSE Decode(kind[2], d)
  BY DEF Setting, ConversionsOK, DecodeLevel
<1>3. Null \in Docs /\ IsJson(Null)
  BY DEF Setting, DocsOK, ConversionsOK, JsonLevel
<1>4. ~IsLeaf(kind)
  BY DEF IsLeaf
<1>5. CASE val = Null
  <2>1. Encode(kind, Null) = Null /\ Decode(kind, Null) = Null
    BY <1>2, <1>3, NullStays
  <2> QED
    BY <1>3, <1>4, <1>5, <2>1 DEF Returns
<1>6. CASE val # Null
  <2>1. val \in Docs
    BY <1>6 DEF Returns
  <2>2. Encode(kind, val) = Encode(kind[2], val)
    BY <1>6, <2>1 DEF Setting, ConversionsOK, EncodeLevel
  <2> QED
    BY <1>2, <1>4, <1>6, <2>2 DEF Returns
<1> QED
  BY <1>5, <1>6

LEMMA OptionalGood ==
  ASSUME Setting, NEW kind \in Kinds, kind[1] = "optional", NEW doc \in Docs,
         doc # Null => Good(kind[2], doc)
  PROVE  Good(kind, doc)
<1>1. Decode(kind, doc) = IF doc = Null THEN Null ELSE Decode(kind[2], doc)
  BY DEF Setting, ConversionsOK, DecodeLevel
<1> QED
  BY <1>1, OptionalReturns DEF Good

--------------------------------------------------------------------------------
(* Lists *)

LEMMA ListReturns ==
  ASSUME Setting, NEW kind \in Kinds, kind[1] = "many", NEW parts \in Seq(Docs),
         \A i \in DOMAIN parts : Returns(kind[2], parts[i])
  PROVE  Returns(kind, List(parts))
<1> DEFINE val  == List(parts)
           outs == EncodeAll(kind[2], parts)
           out  == List(outs)
<1>1. DOMAIN outs = DOMAIN parts /\ \A i \in DOMAIN parts : outs[i] = Encode(kind[2], parts[i])
  BY DEF EncodeAll
<1>2. ASSUME NEW i \in DOMAIN parts
      PROVE  /\ outs[i] \in Docs /\ ~Raised(outs[i]) /\ IsJson(outs[i])
             /\ Decode(kind[2], outs[i]) = parts[i]
  <2>1. outs[i] \in Docs /\ IsJson(outs[i]) /\ Decode(kind[2], outs[i]) = parts[i]
    BY <1>1 DEF Returns
  <2> QED
    BY <2>1, Shape
<1>3. outs \in Seq(Docs)
  <2>1. DOMAIN parts = 1..Len(parts) /\ Len(parts) \in Nat
    OBVIOUS
  <2>2. outs \in [1..Len(parts) -> Docs]
    BY <1>2, <2>1 DEF EncodeAll
  <2> QED
    BY <2>1, <2>2
<1>4. DecodeAll(kind[2], outs) = parts
  BY <1>1, <1>2 DEF DecodeAll
<1>5. \A i \in DOMAIN parts : ~Raised(parts[i])
  BY Shape
<1> HIDE DEF outs
<1>6. /\ val \in Docs /\ val[1] = "list" /\ val[2] = parts /\ val # Null
      /\ out \in Docs /\ out[1] = "list" /\ out[2] = outs /\ out # Null
  BY <1>3 DEF Setting, DocsOK, List, Null
<1> HIDE DEF val, out
<1>7. Encode(kind, val) = out
  <2>1. Encode(kind, val) = Assemble("list", EncodeAll(kind[2], val[2]))
    BY <1>6 DEF Setting, ConversionsOK, EncodeLevel
  <2>2. Assemble("list", outs) = <<"list", outs>>
    BY <1>1, <1>2, AssembledAll
  <2> QED
    BY <1>6, <2>1, <2>2 DEF outs, out, List
<1>8. Decode(kind, out) = val
  <2>1. Decode(kind, out) = Is("list", out, Assemble("list", DecodeAll(kind[2], out[2])))
    BY <1>6 DEF Setting, ConversionsOK, DecodeLevel
  <2>2. Assemble("list", parts) = <<"list", parts>>
    BY <1>5, AssembledAll
  <2> QED
    BY <1>4, <1>6, <2>1, <2>2 DEF Is, val, List
<1>9. IsJson(out)
  BY <1>1, <1>2, <1>6 DEF Setting, ConversionsOK, JsonLevel
<1>10. Returns(kind, val)
  BY <1>6, <1>7, <1>8, <1>9 DEF Returns, IsLeaf
<1> QED
  BY <1>10 DEF val

\* What a list that is accepted decodes to.
LEMMA ManyDecoded ==
  ASSUME Setting, NEW kind \in Kinds, kind[1] = "many", NEW doc \in Docs,
         ~Raised(Decode(kind, doc))
  PROVE  LET parts == DecodeAll(kind[2], doc[2])
         IN  /\ doc[1] = "list" /\ doc[2] \in Seq(Docs)
             /\ Decode(kind, doc) = List(parts)
             /\ \A i \in DOMAIN parts : ~Raised(parts[i])
<1> DEFINE parts == DecodeAll(kind[2], doc[2])
<1>1. Decode(kind, doc) = Is("list", doc, Assemble("list", parts))
  BY DEF Setting, ConversionsOK, DecodeLevel
<1>2. doc[1] = "list" /\ ~Raised(Assemble("list", parts))
  BY <1>1, Refusals DEF Is
<1> HIDE DEF parts
<1>3. /\ Decode(kind, doc) = List(parts)
      /\ \A i \in DOMAIN parts : ~Raised(parts[i])
  BY <1>1, <1>2, Assembled DEF Is, List
<1> QED
  BY <1>2, <1>3, Shape DEF parts

LEMMA ManyGood ==
  ASSUME Setting, NEW kind \in Kinds, kind[1] = "many", NEW doc \in Docs,
         doc[1] = "list" => \A i \in DOMAIN doc[2] : Good(kind[2], doc[2][i])
  PROVE  Good(kind, doc)
<1> SUFFICES ASSUME ~Raised(Decode(kind, doc)) PROVE Returns(kind, Decode(kind, doc))
  BY DEF Good
<1> DEFINE parts == DecodeAll(kind[2], doc[2])
<1>1. /\ doc[1] = "list" /\ doc[2] \in Seq(Docs)
      /\ Decode(kind, doc) = List(parts)
      /\ \A i \in DOMAIN parts : ~Raised(parts[i])
  BY ManyDecoded
<1>2. DOMAIN parts = DOMAIN doc[2] /\ \A i \in DOMAIN doc[2] : parts[i] = Decode(kind[2], doc[2][i])
  BY DEF DecodeAll
<1>3. \A i \in DOMAIN parts : Returns(kind[2], parts[i])
  BY <1>1, <1>2 DEF Good
<1>4. parts \in Seq(Docs)
  <2>1. DOMAIN doc[2] = 1..Len(doc[2]) /\ Len(doc[2]) \in Nat
    BY <1>1
  <2>2. \A i \in DOMAIN doc[2] : parts[i] \in Docs
    BY <1>2, <1>3 DEF Returns
  <2>3. parts \in [1..Len(doc[2]) -> Docs]
    BY <2>1, <2>2 DEF DecodeAll
  <2> QED
    BY <2>1, <2>3
<1> QED
  BY <1>1, <1>3, <1>4, ListReturns

--------------------------------------------------------------------------------
(* The fields of an object *)

\* What was written of the fields is read back, those left out while empty included.
LEMMA FieldsReturn ==
  ASSUME Setting, NEW kinds, FieldsFormed(kinds, Kinds), NEW vals, NEW written,
         \A f \in DOMAIN kinds : Returns(kinds[f], vals[f]),
         \A f \in DOMAIN kinds :
           /\ f \in DOMAIN written <=> f \in Kept(kinds, vals)
           /\ f \in DOMAIN written => written[f] = EncodeFields(kinds, vals)[f]
  PROVE  /\ DecodeFields(kinds, written) = [f \in DOMAIN kinds |-> vals[f]]
         /\ EncodeFields(kinds, vals) \in [Kept(kinds, vals) -> Docs]
         /\ Kept(kinds, vals) \subseteq DOMAIN kinds
         /\ \A f \in Kept(kinds, vals) :
              LET out == EncodeFields(kinds, vals)[f] IN ~Raised(out) /\ IsJson(out)
<1> DEFINE kept == Kept(kinds, vals)
           outs == EncodeFields(kinds, vals)
<1>1. kept \subseteq DOMAIN kinds
  BY DEF Kept
<1>2. DOMAIN outs = kept /\ \A f \in kept : outs[f] = Encode(kinds[f], vals[f])
  BY DEF EncodeFields
<1>3. ASSUME NEW f \in kept
      PROVE  outs[f] \in Docs /\ ~Raised(outs[f]) /\ IsJson(outs[f]) /\ Decode(kinds[f], outs[f]) = vals[f]
  <2>1. Returns(kinds[f], vals[f]) /\ outs[f] = Encode(kinds[f], vals[f])
    BY <1>1, <1>2
  <2> HIDE DEF outs
  <2>2. outs[f] \in Docs /\ IsJson(outs[f]) /\ Decode(kinds[f], outs[f]) = vals[f]
    BY <2>1 DEF Returns
  <2> QED
    BY <2>2, Shape
<1>4. ASSUME NEW f \in DOMAIN kinds, f \notin kept
      PROVE  Absent(kinds[f]) = vals[f]
  <2>1. kinds[f][1] = "skipped" /\ DOMAIN vals[f][2] = {}
    BY <1>4 DEF Kept
  <2>2. vals[f] \in Docs /\ vals[f][1] = "map"
    BY <2>1 DEF Returns
  <2>3. vals[f] = Object(vals[f][2]) /\ vals[f][2] \in Maps(Docs)
    BY <2>2, Shape
  <2>4. vals[f][2] = NoFields
    BY <2>1, <2>3 DEF Maps, NoFields
  <2>5. kinds[f] \in Kinds
    BY DEF FieldsFormed
  <2>6. kinds[f][2] \in Kinds /\ kinds[f][2][1] \in {"json dict", "by key"}
    BY <2>1, <2>5, KindIs DEF Formed, IsLeaf
  <2>7. Absent(kinds[f]) = Decode(kinds[f][2], Object(NoFields))
    BY <2>1 DEF Absent
  <2> QED
    BY <2>3, <2>4, <2>6, <2>7, EmptyGood
<1> HIDE DEF kept, outs
<1>5. outs \in [kept -> Docs]
  <2>1. outs = [f \in kept |-> outs[f]]
    BY <1>2 DEF outs, EncodeFields, kept
  <2> QED
    BY <1>3, <2>1
<1>6. \A f \in DOMAIN kinds :
        (IF f \in DOMAIN written THEN Decode(kinds[f], written[f]) ELSE Absent(kinds[f])) = vals[f]
  BY <1>3, <1>4 DEF kept, outs
<1>7. DecodeFields(kinds, written) = [f \in DOMAIN kinds |-> vals[f]]
  BY <1>6 DEF DecodeFields
<1> QED
  BY <1>1, <1>3, <1>5, <1>7 DEF kept, outs

LEMMA ObjectReturns ==
  ASSUME Setting, NEW kind \in Kinds, kind[1] = "fields", NEW vals,
         vals = [f \in DOMAIN kind[2] |-> vals[f]],
         \A f \in DOMAIN kind[2] : Returns(kind[2][f], vals[f])
  PROVE  Returns(kind, Object(vals))
<1> DEFINE kinds == kind[2]
           outs  == EncodeFields(kinds, vals)
           val   == Object(vals)
           out   == Object(outs)
<1>1. FieldsFormed(kinds, Kinds) /\ DOMAIN kinds \in SUBSET STRING
  BY KindIs DEF Formed, IsLeaf, FieldsFormed
<1>2. \A f \in DOMAIN kinds : Returns(kinds[f], vals[f]) /\ vals[f] \in Docs
  BY DEF Returns
<1>3. vals = [f \in DOMAIN kinds |-> vals[f]] /\ DOMAIN vals = DOMAIN kinds
  OBVIOUS
<1> HIDE DEF kinds
<1>4. DOMAIN outs = Kept(kinds, vals)
  BY DEF EncodeFields
<1>5. /\ DecodeFields(kinds, outs) = vals
      /\ outs \in [Kept(kinds, vals) -> Docs]
      /\ Kept(kinds, vals) \subseteq DOMAIN kinds
      /\ \A f \in Kept(kinds, vals) : ~Raised(outs[f]) /\ IsJson(outs[f])
  <2>1. \A f \in DOMAIN kinds : Returns(kinds[f], vals[f])
    BY <1>2
  <2>2. \A f \in DOMAIN kinds :
          /\ f \in DOMAIN outs <=> f \in Kept(kinds, vals)
          /\ f \in DOMAIN outs => outs[f] = EncodeFields(kinds, vals)[f]
    BY <1>4
  <2>3. DecodeFields(kinds, outs) = [f \in DOMAIN kinds |-> vals[f]]
    BY <1>1, <2>1, <2>2, FieldsReturn
  <2> QED
    BY <1>1, <1>3, <2>1, <2>2, <2>3, FieldsReturn
<1>6. vals \in Maps(Docs) /\ outs \in Maps(Docs)
  <2>1. vals \in [DOMAIN kinds -> Docs]
    BY <1>2, <1>3
  <2>2. Kept(kinds, vals) \in SUBSET STRING
    BY <1>1, <1>5
  <2> HIDE DEF outs
  <2> QED
    BY <1>1, <1>5, <2>1, <2>2 DEF Maps
<1> HIDE DEF outs
<1>7. /\ val \in Docs /\ val[1] = "map" /\ val[2] = vals /\ val # Null
      /\ out \in Docs /\ out[1] = "map" /\ out[2] = outs /\ out # Null
  BY <1>6 DEF Setting, DocsOK, Object, Null
<1> HIDE DEF val, out
<1>8. Encode(kind, val) = out
  <2>1. Encode(kind, val) = Assemble("map", EncodeFields(kind[2], val[2]))
    BY <1>7 DEF Setting, ConversionsOK, EncodeLevel
  <2>2. Assemble("map", outs) = <<"map", outs>>
    BY <1>4, <1>5, AssembledAll
  <2> QED
    BY <1>7, <2>1, <2>2 DEF kinds, outs, out, Object
<1>9. Decode(kind, out) = val
  <2>1. Decode(kind, out) = Is("map", out, Assemble("map", DecodeFields(kind[2], out[2])))
    BY <1>7 DEF Setting, ConversionsOK, DecodeLevel
  <2>2. \A f \in DOMAIN vals : ~Raised(vals[f])
    BY <1>2, <1>3, Shape
  <2>3. Assemble("map", vals) = <<"map", vals>>
    BY <2>2, AssembledAll
  <2> QED
    BY <1>5, <1>7, <2>1, <2>3 DEF Is, kinds, val, Object
<1>10. IsJson(out)
  BY <1>4, <1>5, <1>7 DEF Setting, ConversionsOK, JsonLevel
<1>11. Returns(kind, val)
  BY <1>7, <1>8, <1>9, <1>10 DEF Returns, IsLeaf
<1> QED
  BY <1>11 DEF val

\* What an object that is accepted decodes to.
LEMMA FieldsDecoded ==
  ASSUME Setting, NEW kind \in Kinds, kind[1] = "fields", NEW doc \in Docs,
         ~Raised(Decode(kind, doc))
  PROVE  LET vals == DecodeFields(kind[2], doc[2])
         IN  /\ doc[1] = "map" /\ Decode(kind, doc) = Object(vals)
             /\ \A f \in DOMAIN vals : ~Raised(vals[f])
<1> DEFINE vals == DecodeFields(kind[2], doc[2])
<1>1. Decode(kind, doc) = Is("map", doc, Assemble("map", vals))
  BY DEF Setting, ConversionsOK, DecodeLevel
<1>2. doc[1] = "map" /\ ~Raised(Assemble("map", vals))
  BY <1>1, Refusals DEF Is
<1> HIDE DEF vals
<1>3. /\ Decode(kind, doc) = Object(vals)
      /\ \A f \in DOMAIN vals : ~Raised(vals[f])
  BY <1>1, <1>2, Assembled DEF Is, Object
<1> QED
  BY <1>2, <1>3 DEF vals

LEMMA FieldsGood ==
  ASSUME Setting, NEW kind \in Kinds, kind[1] = "fields", NEW doc \in Docs,
         doc[1] = "map" =>
           \A f \in DOMAIN kind[2] : LET val == DecodeFields(kind[2], doc[2])[f]
                                     IN ~Raised(val) => Returns(kind[2][f], val)
  PROVE  Good(kind, doc)
<1> SUFFICES ASSUME ~Raised(Decode(kind, doc)) PROVE Returns(kind, Decode(kind, doc))
  BY DEF Good
<1> DEFINE vals == DecodeFields(kind[2], doc[2])
<1>1. /\ doc[1] = "map" /\ Decode(kind, doc) = Object(vals)
      /\ \A f \in DOMAIN vals : ~Raised(vals[f])
  BY FieldsDecoded
<1>2. DOMAIN vals = DOMAIN kind[2] /\ vals = [f \in DOMAIN kind[2] |-> vals[f]]
  BY DEF DecodeFields
<1>3. \A f \in DOMAIN kind[2] : Returns(kind[2][f], vals[f])
  BY <1>1, <1>2
<1> HIDE DEF vals
<1> QED
  BY <1>1, <1>2, <1>3, ObjectReturns

--------------------------------------------------------------------------------
(* A tag and the fields that go with it *)

LEMMA TaggedGood ==
  ASSUME Setting, NEW kind \in Kinds, kind[1] = "tagged", NEW doc \in Docs,
         LET kinds == kind[4][doc[2][kind[2]][2]]
             vals  == DecodeFields(kinds, doc[2])
         IN doc[1] = "map" /\ doc[2][kind[2]][2] \in DOMAIN kind[4] =>
              \A f \in DOMAIN kinds : ~Raised(vals[f]) => Returns(kinds[f], vals[f])
  PROVE  Good(kind, doc)
<1> SUFFICES ASSUME ~Raised(Decode(kind, doc)) PROVE Returns(kind, Decode(kind, doc))
  BY DEF Good
<1> DEFINE tag   == kind[2]
           name  == doc[2][tag]
           kinds == kind[4][name[2]]
           vals  == DecodeFields(kinds, doc[2])
           whole == With(tag, name, vals)
           val   == Object(whole)
           outs  == EncodeFields(kinds, whole)
           parts == With(tag, name, outs)
           out   == Object(parts)
<1>1. /\ tag \in STRING /\ Raised(kind[3])
      /\ \A variant \in DOMAIN kind[4] :
           FieldsFormed(kind[4][variant], Kinds) /\ tag \notin DOMAIN kind[4][variant]
  BY KindIs DEF Formed, IsLeaf
<1>2. Decode(kind, doc) = DecodeTagged(tag, kind[3], kind[4], doc)
  BY DEF Setting, ConversionsOK, DecodeLevel
<1>3. /\ doc[1] = "map" /\ tag \in DOMAIN doc[2] /\ name[1] = "str" /\ name[2] \in DOMAIN kind[4]
      /\ Decode(kind, doc) = Assemble("map", whole)
  BY <1>1, <1>2, Refusals DEF DecodeTagged
<1>4. FieldsFormed(kinds, Kinds) /\ tag \notin DOMAIN kinds
  BY <1>1, <1>3
<1>5. /\ Decode(kind, doc) = val
      /\ \A f \in DOMAIN whole : ~Raised(whole[f])
  BY <1>3, Assembled DEF Object
<1>6. name \in Docs /\ IsJson(name) /\ ~Raised(name)
  <2>1. doc[2] \in Maps(Docs)
    BY <1>3, Shape
  <2>2. name \in Docs
    BY <1>3, <2>1 DEF Maps
  <2> QED
    BY <1>3, <2>2, Shape DEF Setting, ConversionsOK, JsonLevel, IsScalar
<1>7. DOMAIN vals = DOMAIN kinds /\ vals = [f \in DOMAIN kinds |-> vals[f]]
  BY DEF DecodeFields
<1>8. /\ DOMAIN whole = {tag} \cup DOMAIN kinds /\ whole[tag] = name
      /\ \A f \in DOMAIN kinds : whole[f] = vals[f]
  BY <1>4, <1>7 DEF With
<1>9. \A f \in DOMAIN kinds : Returns(kinds[f], vals[f])
  BY <1>3, <1>5, <1>8
<1> HIDE DEF vals, kinds, tag, name
<1>10. \A f \in DOMAIN kinds : Returns(kinds[f], whole[f])
  BY <1>8, <1>9
<1>11. whole = With(tag, name, [f \in DOMAIN kinds |-> whole[f]])
  <2>1. [f \in DOMAIN kinds |-> whole[f]] = vals
    BY <1>7, <1>8
  <2> QED
    BY <2>1
<1>12. whole \in Maps(Docs)
  <2>1. \A f \in {tag} \cup DOMAIN kinds : whole[f] \in Docs
    <3> HIDE DEF whole
    <3>1. \A f \in DOMAIN kinds : whole[f] \in Docs
      BY <1>10 DEF Returns
    <3> QED
      BY <1>6, <1>8, <3>1
  <2>2. whole \in [{tag} \cup DOMAIN kinds -> Docs]
    BY <1>7, <2>1 DEF With
  <2>3. {tag} \cup DOMAIN kinds \in SUBSET STRING
    BY <1>1, <1>4 DEF FieldsFormed, tag
  <2> QED
    BY <2>2, <2>3 DEF Maps
<1> HIDE DEF whole
<1>13. DOMAIN outs = Kept(kinds, whole)
  BY DEF EncodeFields
<1>14. Kept(kinds, whole) \subseteq DOMAIN kinds
  BY DEF Kept
<1>15. /\ DOMAIN parts = {tag} \cup Kept(kinds, whole) /\ parts[tag] = name
       /\ \A f \in Kept(kinds, whole) : parts[f] = outs[f]
  BY <1>4, <1>13, <1>14 DEF With
<1> HIDE DEF parts
<1>16. \A f \in DOMAIN kinds :
         /\ f \in DOMAIN parts <=> f \in Kept(kinds, whole)
         /\ f \in DOMAIN parts => parts[f] = outs[f]
  BY <1>4, <1>14, <1>15
<1>17. /\ DecodeFields(kinds, parts) = [f \in DOMAIN kinds |-> whole[f]]
       /\ outs \in [Kept(kinds, whole) -> Docs]
       /\ \A f \in Kept(kinds, whole) : ~Raised(outs[f]) /\ IsJson(outs[f])
  BY <1>4, <1>10, <1>16, FieldsReturn
<1> HIDE DEF outs
<1>18. parts \in Maps(Docs)
  <2>1. \A f \in {tag} \cup Kept(kinds, whole) : parts[f] \in Docs
    BY <1>6, <1>15, <1>17
  <2>2. parts \in [{tag} \cup Kept(kinds, whole) -> Docs]
    BY <1>13, <2>1 DEF With, parts
  <2>3. {tag} \cup Kept(kinds, whole) \in SUBSET STRING
    BY <1>1, <1>4, <1>14 DEF FieldsFormed, tag
  <2> QED
    BY <2>2, <2>3 DEF Maps
<1>19. \A f \in DOMAIN parts : ~Raised(parts[f]) /\ IsJson(parts[f])
  BY <1>6, <1>15, <1>17
<1>20. /\ val \in Docs /\ val[1] = "map" /\ val[2] = whole /\ val # Null
       /\ out \in Docs /\ out[1] = "map" /\ out[2] = parts /\ out # Null
  BY <1>12, <1>18 DEF Setting, DocsOK, Object, Null
<1> HIDE DEF val, out
<1>21. Encode(kind, val) = out
  <2>1. Encode(kind, val) = EncodeTagged(tag, kind[3], kind[4], whole)
    BY <1>20 DEF Setting, ConversionsOK, EncodeLevel, tag
  <2>2. \A f \in DOMAIN kinds : whole[f] = Null => kinds[f][1] \in {"json", "optional", "default"}
    BY <1>10 DEF Returns
  <2>3. whole[tag] = name /\ name[2] \in DOMAIN kind[4] /\ kinds = kind[4][name[2]]
    BY <1>3, <1>8 DEF kinds
  <2>4. EncodeTagged(tag, kind[3], kind[4], whole) = Assemble("map", With(tag, name, outs))
    BY <2>2, <2>3 DEF EncodeTagged, outs
  <2>5. Assemble("map", parts) = <<"map", parts>>
    BY <1>19, AssembledAll
  <2> QED
    BY <2>1, <2>4, <2>5 DEF parts, out, Object
<1>22. Decode(kind, out) = val
  <2>1. Decode(kind, out) = DecodeTagged(tag, kind[3], kind[4], out)
    BY <1>20 DEF Setting, ConversionsOK, DecodeLevel, tag
  <2>2. tag \in DOMAIN parts /\ parts[tag] = name /\ name[1] = "str"
    BY <1>3, <1>15 DEF name
  <2>3. name[2] \in DOMAIN kind[4] /\ kinds = kind[4][name[2]]
    BY <1>3 DEF kinds
  <2>4. DecodeTagged(tag, kind[3], kind[4], out)
          = Assemble("map", With(tag, name, DecodeFields(kinds, parts)))
    BY <1>20, <2>2, <2>3 DEF DecodeTagged
  <2>5. With(tag, name, DecodeFields(kinds, parts)) = whole
    BY <1>11, <1>17
  <2>6. Assemble("map", whole) = <<"map", whole>>
    BY <1>5, AssembledAll
  <2> QED
    BY <2>1, <2>4, <2>5, <2>6 DEF val, Object
<1>23. IsJson(out)
  BY <1>19, <1>20 DEF Setting, ConversionsOK, JsonLevel
<1> QED
  BY <1>5, <1>20, <1>21, <1>22, <1>23 DEF Returns, IsLeaf
--------------------------------------------------------------------------------
(* A field that is not there, and the lifetime of a resource *)

LEMMA AbsentGood ==
  ASSUME Setting, NEW kind \in Kinds, ~Raised(Absent(kind))
  PROVE  Returns(kind, Absent(kind))
<1>1. CASE kind[1] = "default"
  <2> DEFINE inner == kind[2]
             given == kind[3]
  <2>1. inner \in Kinds /\ DefaultFormed(inner, given)
    BY <1>1, KindIs DEF Formed, IsLeaf
  <2>2. given \in Docs
    BY <1>1 DEF Setting, KindsOK
  <2>3. Absent(kind) = Decode(inner, given)
    BY <1>1 DEF Absent
  <2> HIDE DEF inner, given
  <2>4. Good(inner, given)
    <3>1. CASE IsLeaf(inner)
      BY <2>1, <2>2, <3>1, LeafGood
    <3>2. CASE inner[1] = "optional" /\ given = Null
      BY <2>1, <2>2, <3>2, OptionalGood
    <3>3. CASE /\ inner[1] = "tagged" /\ given[1] = "map" /\ DOMAIN given[2] = {inner[2]}
               /\ given[2][inner[2]][2] \in DOMAIN inner[4]
               /\ inner[4][given[2][inner[2]][2]] = NoFields
      <4>1. DOMAIN inner[4][given[2][inner[2]][2]] = {}
        BY <3>3 DEF NoFields
      <4> QED
        BY <2>1, <2>2, <3>3, <4>1, TaggedGood
    <3> QED
      BY <2>1, <3>1, <3>2, <3>3 DEF DefaultFormed
  <2>5. Returns(inner, Absent(kind))
    BY <2>3, <2>4 DEF Good
  <2>6. inner = kind[2]
    BY DEF inner
  <2> QED
    BY <1>1, <2>1, <2>5, <2>6, PassedOn
<1>2. CASE kind[1] = "skipped"
  <2> DEFINE inner == kind[2]
  <2>1. inner \in Kinds /\ inner[1] \in {"json dict", "by key"}
    BY <1>2, KindIs DEF Formed, IsLeaf
  <2>2. Absent(kind) = Decode(inner, Object(NoFields))
    BY <1>2 DEF Absent
  <2> HIDE DEF inner
  <2>3. Object(NoFields) \in Docs
    BY <2>1, EmptyGood
  <2>4. Good(inner, Object(NoFields))
    BY <2>1, <2>3, LeafGood, ByKeyGood DEF IsLeaf
  <2>5. Returns(inner, Absent(kind))
    BY <2>2, <2>4 DEF Good
  <2>6. inner = kind[2]
    BY DEF inner
  <2> QED
    BY <1>2, <2>1, <2>5, <2>6, PassedOn
<1>3. CASE kind[1] \notin {"default", "skipped"}
  BY <1>3, Refusals DEF Absent
<1> QED
  BY <1>1, <1>2, <1>3

\* One of two things: the name of a unit, or an object that is written as it is.
LEMMA LifetimeGood ==
  ASSUME Setting, NEW kind \in Kinds, kind[1] = "lifetime", NEW doc \in Docs
  PROVE  Good(kind, doc)
<1> SUFFICES ASSUME ~Raised(Decode(kind, doc)) PROVE Returns(kind, Decode(kind, doc))
  BY DEF Good
<1> DEFINE val   == Decode(kind, doc)
           units == kind[2]
           lease == kind[3]
<1>1. /\ units \in Kinds /\ lease \in Kinds /\ units[1] = "enum" /\ lease[1] = "fields"
      /\ \A f \in DOMAIN lease[2] : IsLeaf(lease[2][f])
  BY KindIs DEF Formed, IsLeaf, FieldsOf
<1>2. \A d \in Docs : Decode(kind, d) = DecodeLifetime(units, lease, d)
  BY DEF Setting, ConversionsOK, DecodeLevel
<1> HIDE DEF units, lease
<1>3. /\ val \in Docs /\ IsJson(val) /\ val # Null
      /\ Decode(kind, val) = val
  <2>1. CASE doc[1] = "str"
    <3>1. val = Decode(units, doc)
      BY <1>2, <2>1 DEF DecodeLifetime
    <3>2. IsLeaf(units) /\ Returns(units, val)
      BY <1>1, <3>1, LeafGood DEF Good, IsLeaf
    <3>3. val = doc
      <4>1. val = DecodeEnum(units[2], doc)
        BY <1>1, <3>1 DEF Setting, ConversionsOK, DecodeLevel
      <4> QED
        BY <4>1, Refusals DEF DecodeEnum
    <3>4. val # Null
      BY <2>1, <3>3 DEF Null
    <3> HIDE DEF val
    <3>5. val \in Docs /\ IsJson(val)
      BY <3>2 DEF Returns
    <3> QED
      BY <3>3, <3>4, <3>5 DEF val
  <2>2. CASE doc[1] # "str"
    <3>1. val = Decode(lease, doc) /\ (doc[1] = "map" => DOMAIN doc[2] = DOMAIN lease[2])
      BY <1>2, <2>2, Refusals DEF DecodeLifetime, FieldsOf
    <3>2. val = Is("map", doc, Assemble("map", DecodeFields(lease[2], doc[2])))
      BY <1>1, <3>1 DEF Setting, ConversionsOK, DecodeLevel
    <3>3. doc[1] = "map" /\ DOMAIN doc[2] = DOMAIN lease[2]
      BY <3>1, <3>2, Refusals DEF Is
    <3> DEFINE vals == DecodeFields(lease[2], doc[2])
    <3>4. /\ ~Raised(Assemble("map", vals)) /\ val = Assemble("map", vals)
      BY <3>2, <3>3 DEF Is
    <3>5. val = Object(vals) /\ \A f \in DOMAIN vals : ~Raised(vals[f])
      BY <3>4, Assembled DEF Object
    <3>6. doc[2] \in Maps(Docs)
      BY <3>3, Shape
    <3>7. /\ DOMAIN vals = DOMAIN doc[2] /\ vals = [f \in DOMAIN lease[2] |-> vals[f]]
          /\ \A f \in DOMAIN lease[2] : vals[f] = Decode(lease[2][f], doc[2][f])
      BY <3>3 DEF DecodeFields
    <3>8. ASSUME NEW f \in DOMAIN lease[2]
          PROVE  vals[f] \in Docs /\ IsJson(vals[f]) /\ Decode(lease[2][f], vals[f]) = vals[f]
      <4>1. lease[2][f] \in Kinds /\ IsLeaf(lease[2][f])
        BY <1>1, KindIs DEF Formed, FieldsFormed, IsLeaf
      <4>2. doc[2][f] \in Docs
        BY <3>3, <3>6 DEF Maps
      <4>3. Good(lease[2][f], doc[2][f])
        BY <4>1, <4>2, LeafGood
      <4>4. Returns(lease[2][f], vals[f])
        BY <3>3, <3>5, <3>7, <4>3 DEF Good
      <4> HIDE DEF vals
      <4> QED
        BY <4>1, <4>4 DEF Returns
    <3>9. DecodeFields(lease[2], vals) = vals
      BY <3>3, <3>7, <3>8 DEF DecodeFields
    <3>10. vals \in Maps(Docs)
      BY <3>3, <3>6, <3>7, <3>8 DEF Maps
    <3>11. Assemble("map", vals) = <<"map", vals>>
      BY <3>5, AssembledAll
    <3>12. DOMAIN vals = DOMAIN lease[2]
      BY <3>3, <3>7
    <3> HIDE DEF vals, val
    <3>13. val \in Docs /\ val[1] = "map" /\ val[2] = vals /\ val # Null
      BY <3>5, <3>10 DEF Setting, DocsOK, Object, Null
    <3>14. IsJson(val)
      BY <3>8, <3>12, <3>13 DEF Setting, ConversionsOK, JsonLevel
    <3>15. Decode(kind, val) = Decode(lease, val)
      BY <1>2, <3>12, <3>3, <3>13 DEF DecodeLifetime, FieldsOf
    <3>16. Decode(lease, val) = Is("map", val, Assemble("map", DecodeFields(lease[2], val[2])))
      BY <1>1, <3>13 DEF Setting, ConversionsOK, DecodeLevel
    <3> QED
      BY <3>5, <3>9, <3>11, <3>13, <3>14, <3>15, <3>16 DEF Is, Object
  <2> QED
    BY <2>1, <2>2
<1> HIDE DEF val
<1>4. Encode(kind, val) = val
  BY <1>3 DEF Setting, ConversionsOK, EncodeLevel
<1>5. Returns(kind, val)
  BY <1>3, <1>4 DEF Returns, IsLeaf
<1> QED
  BY <1>5 DEF val
--------------------------------------------------------------------------------
(* From the parts of a document to the document, and so to every document *)

LEMMA DocGood ==
  ASSUME Setting, NEW doc \in Docs,
         \A part \in Docs : <<part, doc>> \in Within => \A kind \in Kinds : Good(kind, part)
  PROVE  \A kind \in Kinds : Good(kind, doc)
<1>1. /\ doc[1] = "list" => \A i \in DOMAIN doc[2], kind \in Kinds : Good(kind, doc[2][i])
      /\ doc[1] = "map" => \A f \in DOMAIN doc[2], kind \in Kinds : Good(kind, doc[2][f])
  <2>1. ASSUME doc[1] \in {"list", "map"}, NEW i \in DOMAIN doc[2]
        PROVE  \A kind \in Kinds : Good(kind, doc[2][i])
    <3>1. doc[2][i] \in Docs
      <4>1. CASE doc[1] = "list"
        BY <4>1, Shape
      <4>2. CASE doc[1] = "map"
        <5>1. doc[2] \in Maps(Docs)
          BY <4>2, Shape
        <5> QED
          BY <5>1 DEF Maps
      <4> QED
        BY <2>1, <4>1, <4>2
    <3>2. <<doc[2][i], doc>> \in Within
      BY <2>1, <3>1 DEF Within
    <3> QED
      BY <3>1, <3>2
  <2> QED
    BY <2>1
<1>2. ASSUME NEW kinds, FieldsFormed(kinds, Kinds), doc[1] = "map", NEW f \in DOMAIN kinds,
             ~Raised(DecodeFields(kinds, doc[2])[f])
      PROVE  Returns(kinds[f], DecodeFields(kinds, doc[2])[f])
  <2>1. kinds[f] \in Kinds
    BY <1>2 DEF FieldsFormed
  <2>2. CASE f \in DOMAIN doc[2]
    <3>1. DecodeFields(kinds, doc[2])[f] = Decode(kinds[f], doc[2][f])
      BY <2>2 DEF DecodeFields
    <3> QED
      BY <1>1, <1>2, <2>1, <2>2, <3>1 DEF Good
  <2>3. CASE f \notin DOMAIN doc[2]
    <3>1. DecodeFields(kinds, doc[2])[f] = Absent(kinds[f])
      BY <2>3 DEF DecodeFields
    <3> QED
      BY <1>2, <2>1, <3>1, AbsentGood
  <2> QED
    BY <2>2, <2>3
<1>3. ASSUME NEW kind \in Kinds, kind[1] \notin {"cause", "optional", "default", "skipped"}
      PROVE  Good(kind, doc)
  <2>1. CASE IsLeaf(kind)
    BY <2>1, LeafGood
  <2>2. CASE kind[1] = "pairs"
    BY <2>2, PairsGood
  <2>3. CASE kind[1] = "by key"
    BY <2>3, ByKeyGood
  <2>4. CASE kind[1] = "lifetime"
    BY <2>4, LifetimeGood
  <2>5. CASE kind[1] = "many"
    <3>1. kind[2] \in Kinds
      BY <2>5, KindIs DEF Formed, IsLeaf
    <3> QED
      BY <1>1, <2>5, <3>1, ManyGood
  <2>6. CASE kind[1] = "fields"
    <3>1. FieldsFormed(kind[2], Kinds)
      BY <2>6, KindIs DEF Formed, IsLeaf
    <3> QED
      BY <1>2, <2>6, <3>1, FieldsGood
  <2>7. CASE kind[1] = "tagged"
    <3>1. \A variant \in DOMAIN kind[4] : FieldsFormed(kind[4][variant], Kinds)
      BY <2>7, KindIs DEF Formed, IsLeaf
    <3> QED
      BY <1>2, <2>7, <3>1, TaggedGood
  <2> QED
    BY <1>3, <2>1, <2>2, <2>3, <2>4, <2>5, <2>6, <2>7, KindIs DEF Formed
<1>4. ASSUME NEW kind \in Kinds, kind[1] = "cause" PROVE Good(kind, doc)
  <2>1. RuntimeError \in Kinds /\ RuntimeError[1] = "fields"
    BY DEF Setting, KindsOK, RuntimeError, Fields
  <2>2. Decode(kind, doc) = Decode(RuntimeError, doc)
    BY <1>4 DEF Setting, ConversionsOK, DecodeLevel
  <2>3. Good(RuntimeError, doc)
    BY <1>3, <2>1
  <2> SUFFICES ASSUME ~Raised(Decode(kind, doc)) PROVE Returns(kind, Decode(kind, doc))
    BY DEF Good
  <2> DEFINE val == Decode(RuntimeError, doc)
  <2>4. Returns(RuntimeError, val)
    BY <2>2, <2>3 DEF Good
  <2> HIDE DEF val
  <2>5. val # Null
    BY <2>1, <2>4 DEF Returns
  <2>6. Returns(kind, val)
    BY <1>4, <2>1, <2>4, <2>5, PassedOn
  <2> QED
    BY <2>2, <2>6 DEF val
<1>5. ASSUME NEW kind \in Kinds, kind[1] = "optional" PROVE Good(kind, doc)
  <2>1. kind[2] \in Kinds /\ kind[2][1] \notin {"optional", "default", "skipped"}
    BY <1>5, KindIs DEF Formed, IsLeaf
  <2>2. Good(kind[2], doc)
    BY <1>3, <1>4, <2>1
  <2> QED
    BY <1>5, <2>2, OptionalGood
<1>6. ASSUME NEW kind \in Kinds, kind[1] \in {"default", "skipped"} PROVE Good(kind, doc)
  <2>1. /\ kind[2] \in Kinds /\ kind[2][1] \notin {"default", "skipped"}
        /\ kind[1] = "skipped" => kind[2][1] \in {"json dict", "by key"}
    BY <1>6, KindIs DEF Formed, IsLeaf
  <2>2. Good(kind[2], doc)
    BY <1>3, <1>4, <1>5, <2>1
  <2>3. Decode(kind, doc) = Decode(kind[2], doc)
    BY <1>6 DEF Setting, ConversionsOK, DecodeLevel
  <2> QED
    BY <1>6, <2>1, <2>2, <2>3, PassedOn DEF Good
<1> QED
  BY <1>3, <1>4, <1>5, <1>6

LEMMA EveryDocGood ==
  ASSUME Setting, NEW kind \in Kinds, NEW doc \in Docs
  PROVE  Good(kind, doc)
<1> DEFINE bad == {d \in Docs : \E k \in Kinds : ~Good(k, d)}
<1>1. ASSUME bad # {} PROVE FALSE
  <2>1. PICK least \in bad : \A d \in bad : ~(<<d, least>> \in Within)
    BY <1>1, WFMin DEF Setting, DocsOK
  <2>2. \A part \in Docs : <<part, least>> \in Within => \A k \in Kinds : Good(k, part)
    BY <2>1
  <2> QED
    BY <2>1, <2>2, DocGood
<1> QED
  BY <1>1

\* What to_json_value writes of a contract that from_json_dict accepted, from_json_dict
\* accepts as the same value: nothing is lost on the way to the host and back, also no field
\* that is left out while it is empty, and whatever was accepted can be written.
THEOREM AcceptedComesBack ==
  ASSUME Setting, NEW kind \in Kinds, NEW doc \in Docs, ~Raised(Decode(kind, doc))
  PROVE  LET value == Decode(kind, doc)
         IN  ~Raised(Encode(kind, value)) /\ Decode(kind, Encode(kind, value)) = value
<1>1. Returns(kind, Decode(kind, doc))
  BY EveryDocGood DEF Good
<1>2. /\ Encode(kind, Decode(kind, doc)) \in Docs
      /\ Decode(kind, Encode(kind, Decode(kind, doc))) = Decode(kind, doc)
  BY <1>1 DEF Returns
<1> QED
  BY <1>2, Shape

--------------------------------------------------------------------------------
(* What is in a decoded value was decoded too *)

Decoded(kind, val) == kind \in Kinds /\ \E doc \in Docs : val = Decode(kind, doc) /\ ~Raised(val)

LEMMA DecodedReturns ==
  ASSUME Setting, NEW kind, NEW val, Decoded(kind, val)
  PROVE  Returns(kind, val)
  BY EveryDocGood DEF Good, Decoded

LEMMA PartDecoded ==
  ASSUME Setting, NEW kinds, FieldsFormed(kinds, Kinds), NEW fields \in Maps(Docs),
         NEW f \in DOMAIN kinds, kinds[f][1] \notin {"default", "skipped"},
         ~Raised(DecodeFields(kinds, fields)[f])
  PROVE  Decoded(kinds[f], DecodeFields(kinds, fields)[f])
<1>1. kinds[f] \in Kinds
  BY DEF FieldsFormed
<1>2. CASE f \in DOMAIN fields
  <2>1. fields[f] \in Docs
    <3>1. PICK names \in SUBSET STRING : fields \in [names -> Docs]
      BY DEF Maps
    <3> QED
      BY <1>2, <3>1
  <2>2. DecodeFields(kinds, fields)[f] = Decode(kinds[f], fields[f])
    BY <1>2 DEF DecodeFields
  <2> QED
    BY <1>1, <2>1, <2>2 DEF Decoded
<1>3. CASE f \notin DOMAIN fields
  BY <1>3, Refusals DEF DecodeFields, Absent
<1> QED
  BY <1>2, <1>3

LEMMA FieldDecoded ==
  ASSUME Setting, NEW kind, kind[1] = "fields", NEW val, Decoded(kind, val),
         NEW f \in DOMAIN kind[2], kind[2][f][1] \notin {"default", "skipped"}
  PROVE  Decoded(kind[2][f], val[2][f])
<1>1. PICK doc \in Docs : val = Decode(kind, doc) /\ ~Raised(val)
  BY DEF Decoded
<1>2. kind \in Kinds
  BY DEF Decoded
<1> DEFINE vals == DecodeFields(kind[2], doc[2])
<1>3. /\ doc[1] = "map" /\ val = Object(vals)
      /\ \A g \in DOMAIN vals : ~Raised(vals[g])
  BY <1>1, <1>2, FieldsDecoded
<1>4. DOMAIN vals = DOMAIN kind[2]
  BY DEF DecodeFields
<1>5. FieldsFormed(kind[2], Kinds) /\ doc[2] \in Maps(Docs)
  BY <1>2, <1>3, KindIs, Shape DEF Formed, IsLeaf
<1>6. Decoded(kind[2][f], vals[f])
  BY <1>3, <1>4, <1>5, PartDecoded
<1> HIDE DEF vals
<1> QED
  BY <1>3, <1>6 DEF Object

LEMMA ItemDecoded ==
  ASSUME Setting, NEW kind, kind[1] = "many", NEW val, Decoded(kind, val),
         NEW i \in DOMAIN val[2]
  PROVE  Decoded(kind[2], val[2][i])
<1>1. PICK doc \in Docs : val = Decode(kind, doc) /\ ~Raised(val)
  BY DEF Decoded
<1>2. kind \in Kinds /\ kind[2] \in Kinds
  BY KindIs DEF Formed, IsLeaf, Decoded
<1> DEFINE parts == DecodeAll(kind[2], doc[2])
<1>3. /\ doc[2] \in Seq(Docs) /\ val = List(parts)
      /\ \A n \in DOMAIN parts : ~Raised(parts[n])
  BY <1>1, <1>2, ManyDecoded
<1>4. val[2] = parts /\ DOMAIN parts = DOMAIN doc[2]
  BY <1>3 DEF List, DecodeAll
<1>5. parts[i] = Decode(kind[2], doc[2][i]) /\ doc[2][i] \in Docs
  BY <1>3, <1>4 DEF DecodeAll
<1> HIDE DEF parts
<1> QED
  BY <1>2, <1>3, <1>4, <1>5 DEF Decoded

LEMMA VariantDecoded ==
  ASSUME Setting, NEW kind, kind[1] = "tagged", NEW val, Decoded(kind, val),
         NEW f, LET kinds == kind[4][val[2][kind[2]][2]]
                IN f \in DOMAIN kinds /\ kinds[f][1] \notin {"default", "skipped"}
  PROVE  Decoded(kind[4][val[2][kind[2]][2]][f], val[2][f])
<1>1. PICK doc \in Docs : val = Decode(kind, doc) /\ ~Raised(val)
  BY DEF Decoded
<1>2. kind \in Kinds
  BY DEF Decoded
<1> DEFINE tag   == kind[2]
           name  == doc[2][tag]
           kinds == kind[4][name[2]]
           vals  == DecodeFields(kinds, doc[2])
           whole == With(tag, name, vals)
<1>3. /\ tag \in STRING /\ Raised(kind[3])
      /\ \A variant \in DOMAIN kind[4] :
           FieldsFormed(kind[4][variant], Kinds) /\ tag \notin DOMAIN kind[4][variant]
  BY <1>2, KindIs DEF Formed, IsLeaf
<1>4. val = DecodeTagged(tag, kind[3], kind[4], doc)
  BY <1>1, <1>2 DEF Setting, ConversionsOK, DecodeLevel
<1>5. doc[1] = "map" /\ name[2] \in DOMAIN kind[4] /\ val = Assemble("map", whole)
  BY <1>1, <1>3, <1>4, Refusals DEF DecodeTagged
<1>6. FieldsFormed(kinds, Kinds) /\ tag \notin DOMAIN kinds
  BY <1>3, <1>5
<1>7. /\ val = Object(whole)
      /\ \A g \in DOMAIN whole : ~Raised(whole[g])
  BY <1>1, <1>5, Assembled DEF Object
<1>8. DOMAIN vals = DOMAIN kinds
  BY DEF DecodeFields
<1>9. /\ DOMAIN whole = {tag} \cup DOMAIN kinds /\ whole[tag] = name
      /\ \A g \in DOMAIN kinds : whole[g] = vals[g]
  BY <1>6, <1>8 DEF With
<1>10. doc[2] \in Maps(Docs)
  BY <1>5, Shape
<1> HIDE DEF whole
<1>11. val[2] = whole
  BY <1>7 DEF Object
<1>12. f \in DOMAIN kinds /\ kinds[f][1] \notin {"default", "skipped"}
  BY <1>9, <1>11
<1>13. ~Raised(vals[f]) /\ whole[f] = vals[f]
  BY <1>7, <1>9, <1>12
<1>14. Decoded(kinds[f], vals[f])
  BY <1>6, <1>10, <1>12, <1>13, PartDecoded
<1> QED
  BY <1>9, <1>11, <1>13, <1>14
--------------------------------------------------------------------------------
(* A batch that comes, and the completions that go back *)

LEMMA BatchDecoded ==
  ASSUME Setting, NEW request, Decoded(RunBatchRequest, request)
  PROVE  LET batch == request[2].batch[2]
         IN  /\ Decoded(Str, batch.batch_id) /\ Decoded(Str, batch.tick_id)
             /\ Decoded(Many(BatchEntry), batch.entries)
             /\ Decoded(BatchPayload, batch.payload)
<1> DEFINE batch == request[2].batch
<1>1. /\ RunBatchRequest[1] = "fields" /\ "batch" \in DOMAIN RunBatchRequest[2]
      /\ RunBatchRequest[2]["batch"] = WorkBatch
  BY DEF RunBatchRequest, Fields
<1>2. /\ WorkBatch[1] = "fields"
      /\ {"batch_id", "tick_id", "entries", "payload"} \subseteq DOMAIN WorkBatch[2]
      /\ WorkBatch[2]["batch_id"] = Str /\ WorkBatch[2]["tick_id"] = Str
      /\ WorkBatch[2]["entries"] = Many(BatchEntry) /\ WorkBatch[2]["payload"] = BatchPayload
  BY DEF WorkBatch, Fields
<1>3. WorkBatch[1] \notin {"default", "skipped"}
  BY <1>2
<1>4. Decoded(WorkBatch, batch)
  BY <1>1, <1>3, FieldDecoded
<1>5. Str[1] = "str" /\ Many(BatchEntry)[1] = "many" /\ BatchPayload[1] = "tagged"
  BY DEF Str, Many, BatchPayload, Tagged
<1> HIDE DEF batch
<1>6. ASSUME NEW f \in {"batch_id", "tick_id", "entries", "payload"}
      PROVE  Decoded(WorkBatch[2][f], batch[2][f])
  <2>1. f \in DOMAIN WorkBatch[2] /\ WorkBatch[2][f][1] \notin {"default", "skipped"}
    BY <1>2, <1>5
  <2> QED
    BY <1>2, <1>4, <2>1, FieldDecoded
<1>7. /\ Decoded(Str, batch[2]["batch_id"]) /\ Decoded(Str, batch[2]["tick_id"])
      /\ Decoded(Many(BatchEntry), batch[2]["entries"])
      /\ Decoded(BatchPayload, batch[2]["payload"])
  BY <1>2, <1>6
<1> QED
  BY <1>7 DEF batch

LEMMA EntryDecoded ==
  ASSUME Setting, NEW entries, Decoded(Many(BatchEntry), entries), NEW i \in DOMAIN entries[2]
  PROVE  Decoded(Str, entries[2][i][2].entry_id) /\ Decoded(Str, entries[2][i][2].task_id)
<1> DEFINE entry == entries[2][i]
<1>1. Many(BatchEntry)[1] = "many" /\ Many(BatchEntry)[2] = BatchEntry
  BY DEF Many
<1>2. Decoded(BatchEntry, entry)
  BY <1>1, ItemDecoded
<1>3. /\ BatchEntry[1] = "fields" /\ {"entry_id", "task_id"} \subseteq DOMAIN BatchEntry[2]
      /\ BatchEntry[2]["entry_id"] = Str /\ BatchEntry[2]["task_id"] = Str
  BY DEF BatchEntry, Fields
<1>4. Str[1] = "str"
  BY DEF Str
<1> HIDE DEF entry
<1>5. Decoded(BatchEntry[2]["entry_id"], entry[2]["entry_id"])
  BY <1>2, <1>3, <1>4, FieldDecoded
<1>6. Decoded(BatchEntry[2]["task_id"], entry[2]["task_id"])
  BY <1>2, <1>3, <1>4, FieldDecoded
<1> QED
  BY <1>3, <1>5, <1>6 DEF entry

LEMMA RowDecoded ==
  ASSUME Setting, NEW payload, Decoded(BatchPayload, payload), payload[2].layout = Text("row"),
         NEW i \in DOMAIN payload[2].payload[2].rows[2]
  PROVE  payload[2].payload[2].rows[2][i] \in Docs
<1> DEFINE rows == payload[2].payload[2].rows
<1>1. /\ BatchPayload[1] = "tagged" /\ BatchPayload[2] = "layout"
      /\ "payload" \in DOMAIN BatchPayload[4]["row"]
      /\ BatchPayload[4]["row"]["payload"] = RowPayload
  BY DEF BatchPayload, Tagged
<1>2. /\ RowPayload[1] = "fields" /\ "rows" \in DOMAIN RowPayload[2]
      /\ RowPayload[2]["rows"] = Many(Json)
  BY DEF RowPayload, Fields
<1>3. Many(Json)[1] = "many" /\ Many(Json)[2] = Json
  BY DEF Many
<1>4. payload[2][BatchPayload[2]][2] = "row"
  BY <1>1 DEF Text
<1>5. Decoded(RowPayload, payload[2]["payload"])
  BY <1>1, <1>2, <1>4, VariantDecoded
<1>6. Decoded(Many(Json), payload[2]["payload"][2]["rows"])
  BY <1>2, <1>3, <1>5, FieldDecoded
<1>7. Decoded(Json, rows[2][i])
  BY <1>3, <1>6, ItemDecoded
<1>8. Returns(Json, rows[2][i])
  BY <1>7, DecodedReturns
<1> HIDE DEF rows
<1>9. rows[2][i] \in Docs
  BY <1>8 DEF Returns
<1> QED
  BY <1>9 DEF rows
\* Nothing in an object that can be written is refused.
LEMMA ObjectWritten ==
  ASSUME Setting, NEW kind \in Kinds, kind[1] = "fields", NEW vals \in Maps(Docs),
         ~Raised(Encode(kind, Object(vals))), NEW f \in DOMAIN kind[2], kind[2][f][1] # "skipped"
  PROVE  ~Raised(Encode(kind[2][f], vals[f]))
<1> DEFINE outs == EncodeFields(kind[2], vals)
           val  == Object(vals)
<1>1. val \in Docs /\ val[2] = vals /\ val # Null
  BY DEF Setting, DocsOK, Object, Null
<1> HIDE DEF val
<1>2. Encode(kind, val) = Assemble("map", EncodeFields(kind[2], val[2]))
  BY <1>1 DEF Setting, ConversionsOK, EncodeLevel
<1>3. ~Raised(Assemble("map", outs))
  BY <1>1, <1>2 DEF val
<1>4. f \in DOMAIN outs /\ outs[f] = Encode(kind[2][f], vals[f])
  BY DEF EncodeFields, Kept
<1> HIDE DEF outs
<1> QED
  BY <1>3, <1>4, Assembled

LEMMA ListWritten ==
  ASSUME Setting, NEW kind \in Kinds, kind[1] = "many", NEW parts \in Seq(Docs),
         ~Raised(Encode(kind, List(parts))), NEW i \in DOMAIN parts
  PROVE  ~Raised(Encode(kind[2], parts[i]))
<1> DEFINE outs == EncodeAll(kind[2], parts)
           val  == List(parts)
<1>1. val \in Docs /\ val[2] = parts /\ val # Null
  BY DEF Setting, DocsOK, List, Null
<1> HIDE DEF val
<1>2. Encode(kind, val) = Assemble("list", EncodeAll(kind[2], val[2]))
  BY <1>1 DEF Setting, ConversionsOK, EncodeLevel
<1>3. ~Raised(Assemble("list", outs))
  BY <1>1, <1>2 DEF val
<1>4. i \in DOMAIN outs /\ outs[i] = Encode(kind[2], parts[i])
  BY DEF EncodeAll
<1> HIDE DEF outs
<1> QED
  BY <1>3, <1>4, Assembled

LEMMA OptionalWritten ==
  ASSUME Setting, NEW kind \in Kinds, kind[1] = "optional", NEW val \in Docs, val # Null
  PROVE  Encode(kind, val) = Encode(kind[2], val)
  BY DEF Setting, ConversionsOK, EncodeLevel

\* The parts of a completion come back if they can be written.
Sound(kind, val) == val \in Docs /\ (~Raised(Encode(kind, val)) => Returns(kind, val))

Completed(completion) ==
  /\ completion = Object([f \in {"entry_id", "task_id", "result", "error"} |-> completion[2][f]])
  /\ Returns(Str, completion[2].entry_id) /\ Returns(Str, completion[2].task_id)
  /\ completion[2].result # Null => Sound(RunnerResult, completion[2].result)
  /\ completion[2].error # Null => Sound(RuntimeError, completion[2].error)

LEMMA CompletedReturns ==
  ASSUME Setting, EntryCompletion \in Kinds, NEW completion \in Docs, Completed(completion),
         ~Raised(Encode(EntryCompletion, completion))
  PROVE  Returns(EntryCompletion, completion)
<1> DEFINE kinds == EntryCompletion[2]
           vals  == completion[2]
           names == {"entry_id", "task_id", "result", "error"}
<1>1. /\ EntryCompletion[1] = "fields" /\ DOMAIN kinds = names
      /\ kinds["entry_id"] = Str /\ kinds["task_id"] = Str
      /\ kinds["result"] = Optional(RunnerResult) /\ kinds["error"] = Optional(RuntimeError)
  BY DEF EntryCompletion, Fields
<1>2. \A f \in names : kinds[f] \in Kinds
  BY <1>1, KindIs DEF Formed, IsLeaf, FieldsFormed
<1>3. completion = Object(vals) /\ vals = [f \in names |-> vals[f]]
  BY DEF Completed, Object
<1>4. vals \in Maps(Docs)
  BY <1>3, Shape DEF Object
<1>5. \A f \in names : vals[f] \in Docs
  <2>1. PICK dom \in SUBSET STRING : vals \in [dom -> Docs]
    BY <1>4 DEF Maps
  <2>2. DOMAIN vals = names
    BY <1>3
  <2> QED
    BY <2>1, <2>2
<1> HIDE DEF kinds, vals
<1>6. ASSUME NEW f \in {"result", "error"}, NEW inner \in {RunnerResult, RuntimeError},
             kinds[f] = Optional(inner), vals[f] # Null => Sound(inner, vals[f])
      PROVE  Returns(kinds[f], vals[f])
  <2>1. kinds[f][1] = "optional" /\ kinds[f][2] = inner /\ kinds[f] \in Kinds
    BY <1>2, <1>6 DEF Optional
  <2>2. ASSUME vals[f] # Null PROVE Returns(inner, vals[f])
    <3>1. ~Raised(Encode(kinds[f], vals[f]))
      BY <1>1, <1>3, <1>4, <2>1, ObjectWritten DEF kinds
    <3>2. Encode(kinds[f], vals[f]) = Encode(inner, vals[f])
      BY <1>5, <2>1, <2>2, OptionalWritten
    <3> QED
      BY <1>6, <2>2, <3>1, <3>2 DEF Sound
  <2> QED
    BY <2>1, <2>2, OptionalReturns
<1>7. Returns(kinds["result"], vals["result"]) /\ Returns(kinds["error"], vals["error"])
  BY <1>1, <1>6 DEF Completed, vals
<1>8. Returns(kinds["entry_id"], vals["entry_id"]) /\ Returns(kinds["task_id"], vals["task_id"])
  BY <1>1 DEF Completed, vals
<1>9. \A f \in DOMAIN EntryCompletion[2] : Returns(EntryCompletion[2][f], vals[f])
  BY <1>1, <1>7, <1>8 DEF kinds
<1>10. vals = [f \in DOMAIN EntryCompletion[2] |-> vals[f]]
  BY <1>1, <1>3 DEF kinds
<1>11. Returns(EntryCompletion, Object(vals))
  BY <1>1, <1>9, <1>10, ObjectReturns
<1> QED
  BY <1>3, <1>11

\* The host reads the completions as they are.
Completions(id, tick, results) ==
  Object([batch_id |-> id, tick_id |-> tick, results |-> List(results), metadata |-> List(<<>>)])

LEMMA CompletionsDoc ==
  ASSUME Setting, CompletionBatch \in Kinds, NEW id \in Docs, NEW tick \in Docs,
         NEW results \in Seq(Docs)
  PROVE  Completions(id, tick, results) \in Docs
<1> DEFINE names == {"batch_id", "tick_id", "results", "metadata"}
           vals  == [batch_id |-> id, tick_id |-> tick,
                     results |-> List(results), metadata |-> List(<<>>)]
<1>1. CompletionBatch[1] = "fields" /\ DOMAIN CompletionBatch[2] = names
  BY DEF CompletionBatch, Fields
<1>2. names \in SUBSET STRING
  BY <1>1, KindIs DEF Formed, IsLeaf, FieldsFormed
<1>3. List(results) \in Docs /\ List(<<>>) \in Docs
  <2>1. <<>> \in Seq(Docs)
    OBVIOUS
  <2> QED
    BY <2>1 DEF Setting, DocsOK
<1>4. vals \in [names -> Docs]
  BY <1>3
<1>5. vals \in Maps(Docs)
  BY <1>2, <1>4 DEF Maps
<1> QED
  BY <1>5 DEF Completions, Setting, DocsOK

LEMMA CompletionsReturn ==
  ASSUME Setting, CompletionBatch \in Kinds, NEW id, NEW tick, Returns(Str, id), Returns(Str, tick),
         NEW results \in Seq(Docs), \A i \in DOMAIN results : Completed(results[i]),
         ~Raised(Encode(CompletionBatch, Completions(id, tick, results)))
  PROVE  Returns(CompletionBatch, Completions(id, tick, results))
<1> DEFINE kinds == CompletionBatch[2]
           names == {"batch_id", "tick_id", "results", "metadata"}
           vals  == [batch_id |-> id, tick_id |-> tick,
                     results |-> List(results), metadata |-> List(<<>>)]
<1>1. /\ CompletionBatch[1] = "fields" /\ DOMAIN kinds = names
      /\ kinds["batch_id"] = Str /\ kinds["tick_id"] = Str
      /\ kinds["results"] = Many(EntryCompletion) /\ kinds["metadata"] = Pairs
  BY DEF CompletionBatch, Fields
<1>2. names \in SUBSET STRING /\ \A f \in names : kinds[f] \in Kinds
  BY <1>1, KindIs DEF Formed, IsLeaf, FieldsFormed
<1>3. /\ DOMAIN vals = names /\ vals = [f \in names |-> vals[f]]
      /\ vals["batch_id"] = id /\ vals["tick_id"] = tick
      /\ vals["results"] = List(results) /\ vals["metadata"] = List(<<>>)
  OBVIOUS
<1>4. /\ id \in Docs /\ tick \in Docs /\ List(results) \in Docs /\ List(<<>>) \in Docs
  <2>1. id \in Docs /\ tick \in Docs
    BY DEF Returns
  <2>2. <<>> \in Seq(Docs)
    OBVIOUS
  <2> QED
    BY <2>1, <2>2 DEF Setting, DocsOK
<1> HIDE DEF vals, kinds
<1>5. vals \in Maps(Docs)
  <2>1. \A f \in names : vals[f] \in Docs
    BY <1>3, <1>4
  <2>2. vals \in [names -> Docs]
    BY <1>3, <2>1
  <2> QED
    BY <1>2, <2>2 DEF Maps
<1>6. /\ kinds["results"][1] = "many" /\ kinds["results"][2] = EntryCompletion
      /\ kinds["results"] \in Kinds /\ EntryCompletion \in Kinds
  <2>1. kinds["results"][1] = "many" /\ kinds["results"][2] = EntryCompletion
    BY <1>1 DEF Many
  <2> QED
    BY <1>2, <2>1, KindIs DEF Formed, IsLeaf
<1>7. Returns(kinds["results"], List(results))
  <2>1. ~Raised(Encode(kinds["results"], List(results)))
    BY <1>1, <1>3, <1>5, <1>6, ObjectWritten DEF kinds, vals, Completions
  <2>2. \A i \in DOMAIN results : results[i] \in Docs /\ ~Raised(Encode(EntryCompletion, results[i]))
    BY <1>6, <2>1, ListWritten
  <2>3. \A i \in DOMAIN results : Returns(kinds["results"][2], results[i])
    BY <1>6, <2>2, CompletedReturns
  <2> QED
    BY <1>6, <2>3, ListReturns
<1>8. Returns(kinds["metadata"], List(<<>>))
  <2> DEFINE none == List(<<>>)
  <2>1. kinds["metadata"][1] = "pairs" /\ kinds["metadata"] \in Kinds
    BY <1>1, <1>2 DEF Pairs
  <2>2. none[1] = "list" /\ none[2] = <<>> /\ none \in Docs
    BY <1>4 DEF List
  <2> HIDE DEF none
  <2>3. Decode(kinds["metadata"], none)
          = Is("list", none, Assemble("list", [i \in DOMAIN none[2] |-> DecodePair(none[2][i])]))
    BY <2>1, <2>2 DEF Setting, ConversionsOK, DecodeLevel
  <2>4. [i \in DOMAIN none[2] |-> DecodePair(none[2][i])] = <<>>
    BY <2>2
  <2>5. Assemble("list", <<>>) = <<"list", <<>>>>
    BY AssembledAll
  <2>6. Decode(kinds["metadata"], none) = none
    BY <2>2, <2>3, <2>4, <2>5 DEF Is, none, List
  <2>7. ~Raised(none)
    BY <2>2, Shape
  <2>8. Returns(kinds["metadata"], none)
    BY <2>1, <2>2, <2>6, <2>7, PairsGood DEF Good
  <2> QED
    BY <2>8 DEF none
<1>9. \A f \in DOMAIN CompletionBatch[2] : Returns(CompletionBatch[2][f], vals[f])
  BY <1>1, <1>3, <1>7, <1>8 DEF kinds
<1>10. vals = [f \in DOMAIN CompletionBatch[2] |-> vals[f]]
  BY <1>1, <1>3 DEF kinds
<1>11. Returns(CompletionBatch, Object(vals))
  BY <1>1, <1>9, <1>10, ObjectReturns
<1> QED
  BY <1>11 DEF vals, Completions
\* The errors the kit makes up.
LEMMA OwnErrorReturns ==
  ASSUME Setting, NEW code, NEW source, NEW route, NEW error \in Docs,
         error = Object([code |-> Text(code), source |-> Text(source), route |-> Text(route),
                         lost_capability |-> Null, recovery |-> Null, cause |-> Null,
                         evidence |-> Object(NoFields)])
  PROVE  Returns(RuntimeError, error)
<1> DEFINE kinds == RuntimeError[2]
           vals  == error[2]
           names == {"code", "source", "route", "lost_capability", "recovery", "cause", "evidence"}
<1>1. /\ RuntimeError \in Kinds /\ RuntimeError[1] = "fields" /\ DOMAIN kinds = names
      /\ kinds["code"] = Str /\ kinds["source"] = Str /\ kinds["route"] = Str
      /\ kinds["lost_capability"] = Optional(Str) /\ kinds["recovery"] = Optional(Str)
      /\ kinds["cause"] = Optional(Cause) /\ kinds["evidence"] = Scalars
  BY DEF Setting, KindsOK, RuntimeError, Fields
<1>2. \A f \in names : kinds[f] \in Kinds
  BY <1>1, KindIs DEF Formed, IsLeaf, FieldsFormed
<1>3. /\ DOMAIN vals = names /\ vals = [f \in names |-> vals[f]] /\ error = Object(vals)
      /\ vals["code"] = Text(code) /\ vals["source"] = Text(source) /\ vals["route"] = Text(route)
      /\ vals["lost_capability"] = Null /\ vals["recovery"] = Null /\ vals["cause"] = Null
      /\ vals["evidence"] = Object(NoFields)
  BY DEF Object
<1>4. \A f \in names : vals[f] \in Docs
  <2>1. error[1] = "map"
    BY DEF Object
  <2>2. vals \in Maps(Docs)
    BY <2>1, Shape
  <2>3. PICK dom \in SUBSET STRING : vals \in [dom -> Docs]
    BY <2>2 DEF Maps
  <2> QED
    BY <1>3, <2>3
<1> HIDE DEF kinds, vals
<1>5. ASSUME NEW f \in {"code", "source", "route"} PROVE Returns(kinds[f], vals[f])
  <2>1. kinds[f] = Str /\ kinds[f] \in Kinds /\ vals[f] \in Docs /\ vals[f][1] = "str"
    BY <1>1, <1>2, <1>3, <1>4 DEF Text
  <2>2. Str[1] = "str" /\ IsLeaf(Str)
    BY DEF Str, IsLeaf
  <2>3. Decode(Str, vals[f]) = vals[f]
    BY <2>1, <2>2 DEF Setting, ConversionsOK, DecodeLevel, Is
  <2>4. ~Raised(vals[f])
    BY <2>1, Shape
  <2> QED
    BY <2>1, <2>2, <2>3, <2>4, LeafGood DEF Good
<1>6. ASSUME NEW f \in {"lost_capability", "recovery", "cause"} PROVE Returns(kinds[f], vals[f])
  <2>1. kinds[f][1] = "optional" /\ kinds[f] \in Kinds /\ vals[f] = Null
    BY <1>1, <1>2, <1>3 DEF Optional
  <2> QED
    BY <2>1, OptionalReturns
<1>7. Returns(kinds["evidence"], vals["evidence"])
  <2> DEFINE none == Object(NoFields)
  <2>1. Scalars[1] = "by key"
    BY DEF Scalars, ByKey
  <2>2. kinds["evidence"] = Scalars /\ Scalars \in Kinds
    BY <1>1, <1>2
  <2>3. none \in Docs /\ Decode(Scalars, none) = none
    BY <2>1, <2>2, EmptyGood
  <2>4. vals["evidence"] = none
    BY <1>3
  <2> HIDE DEF none
  <2>5. ~Raised(none) /\ Good(Scalars, none)
    BY <2>1, <2>2, <2>3, ByKeyGood, Shape
  <2> QED
    BY <2>2, <2>3, <2>4, <2>5 DEF Good
<1>8. \A f \in names : Returns(kinds[f], vals[f])
  BY <1>5, <1>6, <1>7
<1>9. \A f \in DOMAIN RuntimeError[2] : Returns(RuntimeError[2][f], vals[f])
  BY <1>1, <1>8 DEF kinds
<1>10. vals = [f \in DOMAIN RuntimeError[2] |-> vals[f]]
  BY <1>1, <1>3 DEF kinds
<1> QED
  BY <1>1, <1>3, <1>9, <1>10, ObjectReturns
================================================================================
