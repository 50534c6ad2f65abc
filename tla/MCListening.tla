---------------------------- MODULE MCListening ----------------------------
(***************************************************************************)
(* A small instance of Listening. Without a Listen no Unload removes       *)
(* anything, and calls, names and addresses are interchangeable: one call  *)
(* is a Listen of a given name and address, the others are any. The key    *)
(* that the map has noted for a call before its first use is never read:   *)
(* it is the same for all of them.                                         *)
(***************************************************************************)
EXTENDS Listening

CONSTANTS FirstCall, FirstName, FirstAddr

MCInit == Init /\ \A o \in Calls : name[o] = FirstName

MCNext ==
  /\ Next
  /\ kind'[FirstCall] \in {"none", "listen"}
  /\ want'[FirstCall] \subseteq {FirstName}
  /\ adr'[FirstCall] \in {Nil, FirstAddr}

MCSpec ==
  /\ MCInit /\ [][MCNext]_vars
  /\ \A o \in Calls : WF_vars(Progress(o) /\ Record)
===========================================================================
