----------------------------- MODULE MCForkExec -----------------------------
(* Instances of ForkExec for TLC.                                           *)
EXTENDS ForkExec, TLC

\* Argument lists of the same component from calls of Up on different ports.
OneArgList == {<<"ports1">>}
TwoArgLists == {<<"ports1">>, <<"ports2">>}

\* Callers, process numbers and components are interchangeable.
Interchangeable ==
  Permutations(Callers) \cup Permutations(Pids) \cup Permutations(Components)
=============================================================================
