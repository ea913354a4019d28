-------------------------- MODULE MCRunnerBackend --------------------------
(* RunnerBackend on two runners that share an invocation id, with a limit  *)
(* of one or two remembered cancels that four calls can exceed.            *)
EXTENDS RunnerBackend, TLC

Symmetry ==
  Permutations(RunnerIds) \cup Permutations(Invocations) \cup Permutations(Calls)
=============================================================================
