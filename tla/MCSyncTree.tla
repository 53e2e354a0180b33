----------------------------- MODULE MCSyncTree -----------------------------
(* Instances of SyncTree for TLC. *)
EXTENDS SyncTree

CONSTANTS p, q

\* Both peers run head syncs with the other one.
BothSync == [r \in Peers |-> Peers \ {r}]

\* Only p does, as a client with its node.
OneSyncs == [r \in Peers |-> IF r = p THEN {q} ELSE {}]
=============================================================================
