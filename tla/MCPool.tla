------------------------------- MODULE MCPool -------------------------------
(* An instance of Pool for TLC. *)
EXTENDS Pool
=============================================================================
