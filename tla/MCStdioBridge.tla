--------------------------- MODULE MCStdioBridge ---------------------------
(* StdioBridge with room for four requests, two of them reserved, offers   *)
(* that keep or lower that, and one place more than the bridge may use.    *)
EXTENDS StdioBridge, TLC

LimitsWith(inline) ==
  [frame |-> 3, payload |-> 3, line |-> 3, inline |-> inline,
   inflight |-> 4, reserved |-> 2]

TightOrRoomy == {LimitsWith(1), LimitsWith(2)}

Offer == HelloFor(LimitsWith(1))
MCOffers ==
  {Offer, [Offer EXCEPT !.inflight = 3],
   [Offer EXCEPT !.inflight = 2, !.reserved = 1], [Offer EXCEPT !.payload = 2],
   [Offer EXCEPT !.payload = 1], [Offer EXCEPT !.inflight = 1],
   [Offer EXCEPT !.codec = Other]}

Symmetry == Permutations(RequestIds) \cup Permutations(Tasks)
=============================================================================
