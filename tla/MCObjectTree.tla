---------------------------- MODULE MCObjectTree ----------------------------
(* Instances of ObjectTree for TLC. *)
EXTENDS ObjectTree
=============================================================================
