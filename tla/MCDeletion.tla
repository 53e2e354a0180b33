----------------------------- MODULE MCDeletion -----------------------------
(***************************************************************************)
(* Instances of Deletion for TLC: an object and a child bound to it.       *)
(***************************************************************************)
EXTENDS Deletion

CONSTANTS a, c

MCIds == {a, c}
MCChild == {c}
MCParent == [x \in {c} |-> a]
=============================================================================
