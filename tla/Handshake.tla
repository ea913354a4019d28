----------------------------- MODULE Handshake -----------------------------
(***************************************************************************)
(* The initialize handshake of one connection: a host that offers hellos,  *)
(* RunnerRequestDispatcher.dispatch of an InitializeRequest, and the check *)
(* of the acknowledgement on the host's side.  A refused offer may be      *)
(* followed by another, and a host may go on offering after an agreement.  *)
(***************************************************************************)
EXTENDS WireLimits

CONSTANTS
  LocalLimits,   \* the limits a bridge may be constructed with
  Offers         \* the hellos a host may send

ASSUME HandshakeAssumption ==
  /\ \A l \in LocalLimits : l \in Limits /\ Valid(l)
  /\ \A h \in Offers : h \in Hellos

VARIABLES
  configured,  \* the limits the bridge was constructed with
  limits,      \* RunnerRequestDispatcher._limits
  negotiated,  \* RunnerRequestDispatcher._negotiated
  reply,       \* how the latest initialize request was answered
  offer,       \* history: the latest hello that was negotiated on
  ack,         \* history: the acknowledgement the host was sent
  host         \* what the host made of that acknowledgement

vars == <<configured, limits, negotiated, reply, offer, ack, host>>

None == <<>>

Init ==
  /\ configured \in LocalLimits
  /\ limits = configured
  /\ negotiated = FALSE
  /\ reply = "none"
  /\ offer = None
  /\ ack = None
  /\ host = "waiting"

-----------------------------------------------------------------------------
(* negotiate accepts h, and the limits in force become the agreed ones.    *)
Agree(h) ==
  /\ Agrees(h, limits)
  /\ limits' = Negotiated(limits, Ack(h, limits))
  /\ negotiated' = TRUE
  /\ reply' = "ack"
  /\ ack' = Ack(h, limits)
  /\ offer' = h

(* A wrong variant of Initialize: a second initialize negotiates again.    *)
InitializeAgain(h) == Agree(h) /\ UNCHANGED <<configured, host>>

(* dispatch of an InitializeRequest. *)
Initialize(h) ==
  /\ \/ /\ negotiated
        /\ reply' = "already_initialized"
        /\ UNCHANGED <<limits, negotiated, offer, ack>>
     \/ /\ ~negotiated /\ ~Agrees(h, limits)
        /\ reply' = "refused"
        /\ offer' = h
        /\ UNCHANGED <<limits, negotiated, ack>>
     \/ ~negotiated /\ Agree(h)
  /\ UNCHANGED <<configured, host>>

(* validate_for: the host checks the acknowledgement against what it       *)
(* offered, and closes the connection if it does not hold.                 *)
HostChecks ==
  /\ host = "waiting"
  /\ ack # None
  /\ host' = IF AckValidFor(ack, offer) THEN "connected" ELSE "rejecting"
  /\ UNCHANGED <<configured, limits, negotiated, reply, offer, ack>>

Next == (\E h \in Offers : Initialize(h)) \/ HostChecks

Spec == Init /\ [][Next]_vars

-----------------------------------------------------------------------------
(* The type of the state.  The dispatcher is marked negotiated as soon as, *)
(* and only if, an acknowledgement has gone out.                           *)
TypeOK ==
  /\ configured \in LocalLimits
  /\ limits \in Limits
  /\ negotiated = (ack # None)
  /\ reply \in {"none", "already_initialized", "refused", "ack"}
  /\ offer \in Offers \cup {None}
  /\ ack \in Hellos \cup {None}
  /\ host \in {"waiting", "connected", "rejecting"}

(* The limits the dispatcher serves under are always valid, never wider    *)
(* than the bridge was configured for, and after the handshake they are    *)
(* the very ones the acknowledgement told the host, none above its offer.  *)
BothSidesAgree ==
  /\ Valid(limits)
  /\ limits.inflight <= configured.inflight
  /\ limits.payload <= configured.payload
  /\ limits.frame <= configured.frame
  /\ limits.reserved <= configured.reserved
  /\ ~negotiated => limits = configured
  /\ negotiated =>
       /\ limits = Negotiated(configured, ack)
       /\ limits.inflight <= offer.inflight
       /\ limits.payload <= offer.payload

(* An offer the bridge agrees to leads to an acknowledgement the host      *)
(* takes: the two independent validations never disagree, which would      *)
(* leave a bridge initialized whose host has hung up.                      *)
HostTakesAcknowledgement == host # "rejecting"

(* The agreement is made once: no later initialize request changes what    *)
(* the connection runs under.                                              *)
AgreedOnce == [][negotiated => UNCHANGED <<limits, negotiated, ack>>]_vars

(* The offer of a peer with valid limits of its own is refused for one     *)
(* reason only: its payload limit is below our inline resource limit,      *)
(* which the handshake does not negotiate.                                 *)
PeersAgree ==
  \A p \in LocalLimits :
    reply = "refused" /\ offer = HelloFor(p) => p.payload < configured.inline
=============================================================================
