--------------------------- MODULE MCActiveCache ---------------------------
EXTENDS ActiveCache, TLC

(* Bound: at most so many calls run at a time while one of them is an      *)
(* update that notifies twice; without one, all may run at a time.         *)
CONSTANT MaxBesideTwice

Alike == Permutations(Requests) \cup Permutations(Updates)

MCNext ==
  /\ Next
  /\ \A u \in Updates :
       InFlight(u)' /\ todo'[u] = 2 =>
         Cardinality({ p \in Procs : InFlight(p)' }) <= MaxBesideTwice

MCSpec == Init /\ [][MCNext]_vars
=============================================================================
