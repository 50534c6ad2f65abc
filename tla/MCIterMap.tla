----------------------------- MODULE MCIterMap -----------------------------
(* TLC instances of IterMap: calls and keys are interchangeable. *)
EXTENDS IterMap, TLC

Symmetry == Permutations(Ops) \cup Permutations(Keys)
===========================================================================
