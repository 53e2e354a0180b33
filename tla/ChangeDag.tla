----------------------------- MODULE ChangeDag ------------------------------
(***************************************************************************)
(* What an object tree promises to the peers that share it: a growing set  *)
(* of changes, of which every peer has a part that is closed under         *)
(* previous changes. A peer that has the tree makes a change on top of all *)
(* it has; any peer gets changes of another one together with all that     *)
(* come before them.                                                       *)
(***************************************************************************)
EXTENDS FiniteSets

CONSTANTS Peers,
          Changes,   \* the changes that may ever be made
          Root       \* the first one, which makes the tree

ASSUME ChangeDagAssumption == Root \in Changes

VARIABLES prev,      \* prev[c]: the previous changes of c
          have       \* have[p]: the changes p has

dagVars == <<prev, have>>

Made == DOMAIN prev

DagInit ==
    /\ prev = [c \in {Root} |-> {}]
    /\ have \in [Peers -> {{}, {Root}}]

\* The changes of S that nothing in S follows.
HeadsOf(S) == {c \in S : \A n \in S : c \notin prev[n]}

\* A change on top of all that p has.
Make(p, c) ==
    /\ have[p] # {}
    /\ c \in Changes \ Made
    /\ prev' = [x \in Made \cup {c} |-> IF x = c THEN HeadsOf(have[p]) ELSE prev[x]]
    /\ have' = [have EXCEPT ![p] = @ \cup {c}]

\* S is closed under previous changes.
Closed(S) == \A c \in S : prev[c] \subseteq S

\* Some changes of q, of which all that come before are there or come along.
Get(p, q) ==
    /\ \E S \in SUBSET have[q] : /\ Closed(have[p] \cup S)
                                 /\ have' = [have EXCEPT ![p] = @ \cup S]
    /\ UNCHANGED prev

DagNext ==
    \/ \E p \in Peers, c \in Changes : Make(p, c)
    \/ \E p, q \in Peers : Get(p, q)

DagSpec == DagInit /\ [][DagNext]_dagVars

-----------------------------------------------------------------------------
(* Properties *)

\* The changes peers have were made, and so were those they come after.
DagTypeOK ==
    /\ Made \subseteq Changes
    /\ \A c \in Made : prev[c] \subseteq Made
    /\ have \in [Peers -> SUBSET Made]

\* Every peer has the previous changes of all it has.
Complete == \A p \in Peers : Closed(have[p])

\* Peers with the same heads have the same changes: synctree compares heads to
\* tell whether a peer has to be asked.
SameHeadsSameChanges ==
    \A p, q \in Peers : HeadsOf(have[p]) = HeadsOf(have[q]) => have[p] = have[q]

\* No peer ever loses a change, and what a change comes after never changes.
NothingIsLost ==
    [][/\ \A p \in Peers : have[p] \subseteq have'[p]
       /\ \A c \in Made : prev'[c] = prev[c]]_dagVars
=============================================================================
