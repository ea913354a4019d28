---------------------------- MODULE MCHandshake ----------------------------
(* Handshake for every combination of limits between 1 and 3, and for      *)
(* offers from 0 to 3, those a peer may not make included.                 *)
EXTENDS Handshake

MCLocalLimits ==
  {l \in [frame : 1..3, payload : 1..3, line : {2}, inline : 1..3,
          inflight : 2..3, reserved : 1..2] : Valid(l)}

SoundOffer == HelloFor(CHOOSE l \in MCLocalLimits : l.inline = 1)

(* Every size with the right identity, and every single wrong identity.    *)
MCOffers ==
  {[SoundOffer EXCEPT !.frame = f, !.payload = p, !.inflight = i,
                      !.reserved = r] :
     f \in 0..3, p \in 0..3, i \in 1..3, r \in 0..2}
  \cup {[SoundOffer EXCEPT !.version = Other],
        [SoundOffer EXCEPT !.codec = Other],
        [SoundOffer EXCEPT !.schema = Other],
        [SoundOffer EXCEPT !.management = FALSE],
        [SoundOffer EXCEPT !.features = {}],
        [SoundOffer EXCEPT !.features = Features]}
=============================================================================
