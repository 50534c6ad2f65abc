-------------------------- MODULE FilteredCursor --------------------------
(***************************************************************************)
(* What reader.Next promises its caller: a sequence of numbered records,   *)
(* the selected rows of the result in order, that ends either drained      *)
(* (nothing selected is left) or cut (the driver failed). Buffers,         *)
(* look-ahead and goroutines are not seen.  A caller whose reader is       *)
(* closed by another goroutine is "left" with records that are promised    *)
(* nothing; when the reader is "shut" at most one more comes, and then it  *)
(* is "over".                                                              *)
(***************************************************************************)
EXTENDS Integers, Sequences

CONSTANT N

VARIABLES
  selected,  \* the rows of 1..N the caller wants
  out,       \* the records handed out under the promise
  late,      \* how many came after another goroutine closed the reader
  state      \* "open", "drained", "cut", "left", "shut" or "over"

vars == <<selected, out, late, state>>

Pending ==
  { s \in selected : out = << >> \/ out[Len(out)].row < s }

(* The record for row s: s is the next selected row. *)
Deliver(s) ==
  /\ state = "open"
  /\ \A t \in Pending : s <= t
  /\ out' = Append(out, [row |-> s, nr |-> Len(out) + 1,
                         first |-> out = << >>, last |-> Pending = {s}])
  /\ UNCHANGED <<selected, late, state>>

Drain ==
  /\ state = "open"
  /\ Pending = {}
  /\ state' = "drained"
  /\ UNCHANGED <<selected, out, late>>

Cut ==
  /\ state = "open"
  /\ state' = "cut"
  /\ UNCHANGED <<selected, out, late>>

(* Another goroutine begins to close the reader, *)
Leave ==
  /\ state = "open"
  /\ state' = "left"
  /\ UNCHANGED <<selected, out, late>>

(* which goes on to answer calls for a while, *)
Stray ==
  /\ state \in {"left", "shut"}
  /\ state' = IF state = "shut" THEN "over" ELSE "left"
  /\ late' = late + 1
  /\ UNCHANGED <<selected, out>>

(* then takes no new call *)
Shut ==
  /\ state = "left"
  /\ state' \in {"shut", "over"}
  /\ UNCHANGED <<selected, out, late>>

(* and ends the one in progress without a record. *)
End ==
  /\ state = "shut"
  /\ state' = "over"
  /\ UNCHANGED <<selected, out, late>>

Init ==
  /\ selected \in SUBSET (1 .. N)
  /\ out = << >>
  /\ late = 0
  /\ state = "open"

Next ==
  \/ \E s \in Pending : Deliver(s)
  \/ Drain \/ Cut \/ Leave \/ Stray \/ Shut \/ End

Spec == Init /\ [][Next]_vars
===========================================================================
