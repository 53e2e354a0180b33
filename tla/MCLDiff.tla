------------------------------ MODULE MCLDiff -------------------------------
(* An instance of LDiff for TLC. *)
EXTENDS LDiff
=============================================================================
