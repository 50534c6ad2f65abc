----------------------------- MODULE MCRegistry -----------------------------
(***************************************************************************)
(* Small instances of Registry: an alias that is also the name of a        *)
(* driver, and a second driver.  The alias is a stranger to the drivers    *)
(* while the driver of its name is not loaded.  Four calls are needed for  *)
(* a connection that Register dropped and one that replaced it to be open  *)
(* together when Unload comes.                                             *)
(***************************************************************************)
EXTENDS Registry, TLC

CONSTANTS MaxUnderWay, \* bound: calls under way together
          Loaders      \* calls that are Loads: an Unload alone removes nothing

MCNext ==
    /\ Next
    /\ Cardinality({c \in Calls : UnderWay(c)'}) <= MaxUnderWay
    /\ \A c \in Loaders : call'[c].pc \in LoadSteps \cup {"idle", "done", "panic"}

MCSpec == Init /\ [][MCNext]_vars

MCFairSpec ==
    MCSpec /\ \A c \in Calls : WF_vars(Proceed(c))
           /\ WF_vars(\E e \in events : RunEvent(e))

Symmetry == Permutations(Calls)
=============================================================================
