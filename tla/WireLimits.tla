----------------------------- MODULE WireLimits -----------------------------
(***************************************************************************)
(* The limits of one runtime-wire connection, and the computation by which *)
(* the two ends agree on them: ProtocolHello, ProtocolHelloAck.negotiate,  *)
(* ProtocolHelloAck.validate_for and WireLimits.negotiated.                *)
(***************************************************************************)
EXTENDS Integers

CONSTANTS
  CodecId,           \* the codec this end of the connection speaks
  Features,          \* the feature flags a peer may claim
  RequiredFeatures   \* those of them ProtocolHello.for_codec lists

ASSUME WireAssumption == RequiredFeatures \subseteq Features

(* Version, codec and schema of a peer are the ones this end has, or not.  *)
Current == "current"
Other == "other"

SmallerOf(a, b) == IF a <= b THEN a ELSE b

(* WireLimits: sizes in bytes, in-flight requests and those of them kept   *)
(* free for management requests.                                           *)
Limits == [frame : Int, payload : Int, line : Int, inline : Int,
           inflight : Int, reserved : Int]

(* WireLimits.validate *)
Valid(l) ==
  /\ l.frame > 0 /\ l.payload > 0 /\ l.line > 0 /\ l.inline > 0
  /\ l.payload <= l.frame
  /\ l.inline <= l.payload
  /\ l.inflight >= 2
  /\ l.reserved > 0
  /\ l.reserved < l.inflight

(* What ProtocolHello and ProtocolHelloAck carry.                          *)
Hellos ==
  [version : {Current, Other}, codec : {CodecId, Other},
   schema : {Current, Other}, frame : Int, payload : Int, inflight : Int,
   reserved : Int, management : BOOLEAN, features : SUBSET Features]

(* The hello a peer of limits l sends: ProtocolHello.for_codec.            *)
HelloFor(l) ==
  [version |-> Current, codec |-> CodecId, schema |-> Current,
   frame |-> l.frame, payload |-> l.payload, inflight |-> l.inflight,
   reserved |-> l.reserved, management |-> TRUE,
   features |-> RequiredFeatures]

OfferedReserveTooLow(h) ==  \* a wrong variant of OfferedLimitsOK
  /\ h.frame > 0 /\ h.payload > 0 /\ h.inflight > 0 /\ h.reserved > 0
  /\ h.reserved < h.inflight - 1

(* _validate_offered_limits *)
OfferedLimitsOK(h) ==
  /\ h.frame > 0 /\ h.payload > 0 /\ h.inflight > 0 /\ h.reserved > 0
  /\ h.reserved < h.inflight

(* _validate_required_features *)
FeaturesOK(required, offered) ==
  /\ required.management => offered.management
  /\ required.features \subseteq offered.features

(* negotiate raises nothing. *)
Acceptable(h, l) ==
  /\ Valid(l)
  /\ h.version = Current
  /\ h.codec = CodecId
  /\ h.schema = Current
  /\ OfferedLimitsOK(h)
  /\ FeaturesOK([management |-> TRUE, features |-> RequiredFeatures], h)

(* Wrong variants, each a bug the code could have; no module uses them.    *)
AckOfOwnFrame(h, l) ==                                              \* Ack
  [h EXCEPT !.frame = l.frame, !.payload = SmallerOf(h.payload, l.payload),
            !.inflight = SmallerOf(h.inflight, l.inflight),
            !.reserved = SmallerOf(h.reserved, l.reserved)]
AckOfOfferedReserve(h, l) ==                                        \* Ack
  [h EXCEPT !.frame = SmallerOf(h.frame, l.frame),
            !.payload = SmallerOf(h.payload, l.payload),
            !.inflight = SmallerOf(h.inflight, l.inflight)]

(* The acknowledgement negotiate returns. *)
Ack(h, l) ==
  [h EXCEPT !.frame = SmallerOf(h.frame, l.frame),
            !.payload = SmallerOf(h.payload, l.payload),
            !.inflight = SmallerOf(h.inflight, l.inflight),
            !.reserved = SmallerOf(SmallerOf(h.reserved, l.reserved),
                                   h.inflight - 1)]

(* WireLimits.negotiated, before it validates its result.                  *)
Negotiated(l, ack) ==
  [l EXCEPT !.frame = ack.frame, !.payload = ack.payload,
            !.inflight = ack.inflight, !.reserved = ack.reserved]

AgreesUnchecked(h, l) == Acceptable(h, l)  \* a wrong variant of Agrees

(* The initialize request is answered with an acknowledgement: negotiate   *)
(* accepts, and so does the validate() of the limits it leads to.          *)
Agrees(h, l) == Acceptable(h, l) /\ Valid(Negotiated(l, Ack(h, l)))

(* ProtocolHelloAck.validate_for raises nothing: the host that sent hello  *)
(* h takes this acknowledgement.                                           *)
AckValidFor(ack, h) ==
  /\ ack.version = Current
  /\ ack.codec = h.codec
  /\ ack.schema = h.schema
  /\ 0 < ack.frame /\ ack.frame <= h.frame
  /\ 0 < ack.payload /\ ack.payload <= h.payload
  /\ 0 < ack.inflight /\ ack.inflight <= h.inflight
  /\ 0 < ack.reserved /\ ack.reserved <= h.reserved
  /\ ack.reserved < ack.inflight
  /\ FeaturesOK(h, ack)
=============================================================================
