-------------------------- MODULE HandshakeProofs --------------------------
(***************************************************************************)
(* What the handshake establishes, for every set of limits and offers.     *)
(***************************************************************************)
EXTENDS Handshake, TLAPS

(* An agreement on an offer h by a bridge of valid limits l: what the      *)
(* dispatcher goes on with is valid and no wider than either side, and the *)
(* host that offered h takes the acknowledgement.                          *)
LEMMA AgreementSound ==
  ASSUME NEW l \in Limits, Valid(l), NEW h \in Hellos, Agrees(h, l)
  PROVE  /\ Ack(h, l) \in Hellos
         /\ Negotiated(l, Ack(h, l)) \in Limits
         /\ Valid(Negotiated(l, Ack(h, l)))
         /\ AckValidFor(Ack(h, l), h)
         /\ Negotiated(l, Ack(h, l)).inflight <= SmallerOf(h.inflight, l.inflight)
         /\ Negotiated(l, Ack(h, l)).payload <= SmallerOf(h.payload, l.payload)
         /\ Negotiated(l, Ack(h, l)).frame <= l.frame
         /\ Negotiated(l, Ack(h, l)).reserved <= l.reserved
<1>0. \A a, b \in Int : SmallerOf(a, b) \in Int
  BY DEF SmallerOf
<1>1. Ack(h, l) \in Hellos
  <2>1. /\ SmallerOf(h.frame, l.frame) \in Int
        /\ SmallerOf(h.payload, l.payload) \in Int
        /\ SmallerOf(h.inflight, l.inflight) \in Int
        /\ SmallerOf(SmallerOf(h.reserved, l.reserved), h.inflight - 1) \in Int
    BY <1>0 DEF Hellos, Limits
  <2> QED
    BY <2>1 DEF Ack, Hellos
<1>2. Negotiated(l, Ack(h, l)) \in Limits
  BY <1>1 DEF Negotiated, Hellos, Limits
<1>3. AckValidFor(Ack(h, l), h)
  BY DEF Ack, AckValidFor, Agrees, Acceptable, OfferedLimitsOK, FeaturesOK, Valid,
         Hellos, Limits, SmallerOf
<1>4. /\ Negotiated(l, Ack(h, l)).inflight <= SmallerOf(h.inflight, l.inflight)
      /\ Negotiated(l, Ack(h, l)).payload <= SmallerOf(h.payload, l.payload)
      /\ Negotiated(l, Ack(h, l)).frame <= l.frame
      /\ Negotiated(l, Ack(h, l)).reserved <= l.reserved
  BY DEF Ack, Negotiated, Hellos, Limits, SmallerOf
<1> QED
  BY <1>1, <1>2, <1>3, <1>4 DEF Agrees

(* The offer of a peer of valid limits is agreed to whenever its payload   *)
(* limit leaves room for the inline resources this end may send.           *)
LEMMA PeerOfferAgreed ==
  ASSUME NEW l \in Limits, Valid(l), NEW p \in Limits, Valid(p),
         l.inline <= p.payload
  PROVE  Agrees(HelloFor(p), l)
<1>1. Acceptable(HelloFor(p), l)
  BY DEF Acceptable, HelloFor, OfferedLimitsOK, FeaturesOK, Valid, Limits
<1>2. Valid(Negotiated(l, Ack(HelloFor(p), l)))
  BY DEF Negotiated, Ack, HelloFor, SmallerOf, Valid, Limits
<1> QED
  BY <1>1, <1>2 DEF Agrees

-----------------------------------------------------------------------------
(* The inductive invariant: the safety properties, and the acknowledgement *)
(* of an agreement is one the host takes.                                  *)
IndInv ==
  /\ TypeOK
  /\ BothSidesAgree
  /\ HostTakesAcknowledgement
  /\ PeersAgree
  /\ negotiated => AckValidFor(ack, offer)
  /\ configured.inline = limits.inline

LEMMA InitOK == Init => IndInv
<1> SUFFICES ASSUME Init PROVE IndInv
  OBVIOUS
<1> USE HandshakeAssumption DEF Init
<1>1. TypeOK
  BY DEF TypeOK
<1>2. BothSidesAgree
  BY DEF BothSidesAgree, Limits
<1>3. HostTakesAcknowledgement /\ PeersAgree
  BY DEF HostTakesAcknowledgement, PeersAgree
<1> QED
  BY <1>1, <1>2, <1>3 DEF IndInv

LEMMA InitializeOK ==
  ASSUME IndInv, NEW h \in Offers, Initialize(h)
  PROVE  IndInv'
<1>0. h \in Hellos /\ h # None /\ limits \in Limits /\ Valid(limits) /\ configured \in Limits
  BY HandshakeAssumption DEF IndInv, TypeOK, BothSidesAgree, Hellos, None
<1>a. configured' = configured /\ host' = host
  BY DEF Initialize
<1>1. CASE UNCHANGED <<limits, negotiated, offer, ack>> /\ reply' = "already_initialized"
  BY <1>a, <1>1 DEF IndInv, TypeOK, BothSidesAgree, HostTakesAcknowledgement, PeersAgree
<1>2. CASE /\ ~negotiated /\ ~Agrees(h, limits) /\ reply' = "refused" /\ offer' = h
           /\ UNCHANGED <<limits, negotiated, ack>>
  <2>1. TypeOK'
    BY <1>a, <1>2 DEF IndInv, TypeOK
  <2>2. BothSidesAgree'
    BY <1>a, <1>2 DEF IndInv, BothSidesAgree
  <2>3. PeersAgree'
    <3> SUFFICES ASSUME NEW p \in LocalLimits, h = HelloFor(p)
                 PROVE  p.payload < configured.inline
      BY <1>a, <1>2 DEF PeersAgree
    <3>1. p \in Limits /\ Valid(p)
      BY HandshakeAssumption
    <3>2. ~(limits.inline <= p.payload)
      BY <1>0, <1>2, <3>1, PeerOfferAgreed
    <3> QED
      BY <1>0, <3>1, <3>2 DEF IndInv, Limits
  <2>4. HostTakesAcknowledgement'
    BY <1>a DEF IndInv, HostTakesAcknowledgement
  <2> QED
    BY <1>a, <1>2, <2>1, <2>2, <2>3, <2>4 DEF IndInv
<1>3. CASE ~negotiated /\ Agree(h)
  <2> DEFINE A == Ack(h, limits)
             L == Negotiated(limits, A)
  <2>1. /\ A \in Hellos /\ L \in Limits /\ Valid(L) /\ AckValidFor(A, h)
        /\ L.inflight <= SmallerOf(h.inflight, limits.inflight)
        /\ L.payload <= SmallerOf(h.payload, limits.payload)
        /\ L.frame <= limits.frame
        /\ L.reserved <= limits.reserved
    BY <1>0, <1>3, AgreementSound DEF Agree
  <2>2. L.inline = limits.inline
    BY <1>0 DEF Negotiated, Limits
  <2>3. A # None
    BY <2>1 DEF None, Hellos
  <2> HIDE DEF A
  <2>4. /\ limits' = L /\ negotiated' = TRUE /\ reply' = "ack" /\ ack' = A
        /\ offer' = h
    BY <1>3 DEF Agree, A
  <2>5. L = Negotiated(configured, A)
    BY <1>3 DEF IndInv, BothSidesAgree
  <2> HIDE DEF L
  <2>6. TypeOK'
    BY <1>a, <2>1, <2>3, <2>4 DEF IndInv, TypeOK
  <2>7. /\ L.inflight <= configured.inflight /\ L.inflight <= h.inflight
        /\ L.payload <= configured.payload /\ L.payload <= h.payload
        /\ L.frame <= configured.frame /\ L.reserved <= configured.reserved
    BY <1>0, <1>3, <2>1 DEF IndInv, BothSidesAgree, SmallerOf, Limits, Hellos
  <2>8. BothSidesAgree'
    BY <1>a, <2>1, <2>4, <2>5, <2>7 DEF BothSidesAgree
  <2>9. HostTakesAcknowledgement' /\ PeersAgree'
    BY <1>a, <2>4 DEF IndInv, HostTakesAcknowledgement, PeersAgree
  <2> QED
    BY <1>a, <2>1, <2>2, <2>4, <2>6, <2>8, <2>9 DEF IndInv
<1> QED
  BY <1>1, <1>2, <1>3 DEF Initialize

LEMMA HostChecksOK ==
  ASSUME IndInv, HostChecks
  PROVE  IndInv'
<1>1. host' = "connected"
  BY DEF HostChecks, IndInv, TypeOK
<1>2. UNCHANGED <<configured, limits, negotiated, reply, offer, ack>>
  BY DEF HostChecks
<1>3. TypeOK'
  BY <1>1, <1>2 DEF IndInv, TypeOK
<1>4. BothSidesAgree' /\ HostTakesAcknowledgement' /\ PeersAgree'
  BY <1>1, <1>2 DEF IndInv, BothSidesAgree, HostTakesAcknowledgement, PeersAgree
<1> QED
  BY <1>2, <1>3, <1>4 DEF IndInv

LEMMA Invariance == Spec => []IndInv
<1>1. IndInv /\ [Next]_vars => IndInv'
  <2> SUFFICES ASSUME IndInv, [Next]_vars PROVE IndInv'
    OBVIOUS
  <2>1. CASE Next
    BY <2>1, InitializeOK, HostChecksOK DEF Next
  <2>2. CASE UNCHANGED vars
    BY <2>2 DEF vars, IndInv, TypeOK, BothSidesAgree, HostTakesAcknowledgement, PeersAgree
  <2> QED
    BY <2>1, <2>2
<1> QED
  BY InitOK, <1>1, PTL DEF Spec

-----------------------------------------------------------------------------
(* The state has its type, and the dispatcher is marked negotiated exactly *)
(* when an acknowledgement has gone out.                                   *)
THEOREM TypeCorrect == Spec => []TypeOK
  BY Invariance, PTL DEF IndInv

(* Whatever is offered and however often, the dispatcher serves under      *)
(* valid limits within both sides' and equal to those it acknowledged.     *)
THEOREM LimitsAgreed == Spec => []BothSidesAgree
  BY Invariance, PTL DEF IndInv

(* No host turns down an acknowledgement the bridge sends.                 *)
THEOREM AcknowledgementTaken == Spec => []HostTakesAcknowledgement
  BY Invariance, PTL DEF IndInv

(* A peer of valid limits is refused only for our inline resource limit.   *)
THEOREM PeersGetThrough == Spec => []PeersAgree
  BY Invariance, PTL DEF IndInv

(* The agreement is never revised. *)
THEOREM AgreementIsFinal == Spec => AgreedOnce
<1>1. IndInv /\ [Next]_vars => [negotiated => UNCHANGED <<limits, negotiated, ack>>]_vars
  BY DEF Next, Initialize, HostChecks, vars
<1> QED
  BY Invariance, <1>1, PTL DEF Spec, AgreedOnce
=============================================================================
