---------------------------- MODULE MCActionPool ----------------------------
(***************************************************************************)
(* Instances of ActionPool for TLC.                                        *)
(***************************************************************************)
EXTENDS ActionPool
=============================================================================
