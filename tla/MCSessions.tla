----------------------------- MODULE MCSessions -----------------------------
EXTENDS Sessions

CONSTANTS
  r1, r2, c1, c2,
  MaxMade   \* bound: sessions made in a behaviour

Made == { s \in All : state[s] # "none" }

(* Requests, and children, differ by their names only, so that they may be *)
(* taken in order.                                                         *)
InOrder == (r2 \in Made => r1 \in Made) /\ (c2 \in Made => c1 \in Made)

MCNext == Next /\ Cardinality(Made') <= MaxMade /\ InOrder'

MCSpec ==
  /\ Init /\ [][MCNext]_vars
  /\ \A s \in All : WF_vars(Delete(s)) /\ WF_vars(CloseHandler(s))
=============================================================================
