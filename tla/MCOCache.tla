------------------------------ MODULE MCOCache ------------------------------
(* An instance of OCache for TLC. *)
EXTENDS OCache
=============================================================================
