----------------------------- MODULE MCAclState -----------------------------
(* AclState for three accounts.  Two of them are interchangeable.          *)
EXTENDS AclState, TLC

CONSTANTS own, ann, bob

Others == Permutations({ann, bob})
=============================================================================
