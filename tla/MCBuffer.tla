------------------------------ MODULE MCBuffer ------------------------------
(***************************************************************************)
(* A small instance of Buffer: chunks of three bytes, so that the middle,  *)
(* the last byte and the boundary of a chunk differ.  No definition of     *)
(* Buffer tells one written byte from another.                             *)
(***************************************************************************)
EXTENDS Buffer

Alike == Permutations(Byte)
=============================================================================
