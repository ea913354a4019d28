--------------------------- MODULE MCAsyncAdapter ---------------------------
(* AsyncAdapter on two tasks, for batches of one entry and of two, under   *)
(* invocation ids that are interchangeable but for the empty one.  One     *)
(* task has two coroutines, with two calls and one call to make; the other *)
(* has one coroutine, with one call.                                       *)
EXTENDS AsyncAdapter, TLC

Busy == CHOOSE t \in Tasks : TRUE
MCAttempts == [t \in Tasks |-> IF t = Busy THEN 2 ELSE 1]
MCCalls ==
  {<<Busy, 1, 1>>, <<Busy, 2, 1>>, <<Busy, 1, 2>>}
    \cup {<<t, 1, 1>> : t \in Tasks \ {Busy}}

Symmetry == Permutations(Invocations \ {Unnamed})
=============================================================================
