------------------------------ MODULE MCRunnerLink ------------------------------
(***************************************************************************)
(* RunnerLink with two runs and a cancel of either or a dispose, on a      *)
(* bridge with room for three requests or for two, one of them reserved.   *)
(***************************************************************************)
EXTENDS RunnerLink, TLC

CONSTANTS run1, run2, manage1, r1, i1, i2

MCLimits == {[frame |-> 3, payload |-> 3, line |-> 3, inline |-> 1, inflight |-> 3, reserved |-> 1]}

Wire == INSTANCE WireLimits

Hello == Wire!HelloFor(CHOOSE l \in MCLimits : TRUE)
MCOffers == {Hello, [Hello EXCEPT !.inflight = 2]}

Run(i, id)     == [kind |-> "run", key |-> <<r1, i>>, id |-> id]
Cancel(i, id)  == [kind |-> "cancel", key |-> <<r1, i>>, id |-> id]
Dispose(i, id) == [kind |-> "dispose", key |-> <<r1, i>>, id |-> id]

\* The second run may be one of the same invocation; a cancel may take the id of the first run.
MCWanted ==
  run1 :> {Run(i1, 1)} @@ run2 :> {Run(i1, 2), Run(i2, 2)}
    @@ manage1 :> {Cancel(i1, 3), Cancel(i2, 1), Dispose(i1, 3)}
=================================================================================
