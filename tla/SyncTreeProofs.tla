--------------------------- MODULE SyncTreeProofs ---------------------------
(***************************************************************************)
(* First ChangeDag: peers that share changes and have the same heads have  *)
(* the same changes, for any number of peers and changes. The induction    *)
(* needs that what a peer has is closed under previous changes, and that   *)
(* changes can be ranked: a peer makes a change after all those it refers  *)
(* to.                                                                     *)
(*                                                                         *)
(* Then SyncTree: its protocol implements ChangeDag, for any peers,        *)
(* changes, sizes of the queues and number of losses. The induction needs  *)
(* that a message on its way carries changes that its sender has: then     *)
(* whatever part of it can be attached is a step Get.                      *)
(*                                                                         *)
(* Last, every batch of an answer is added completely. The induction needs *)
(* that what a peer says it has when it asks it still has when it reads,   *)
(* and of the batches to read that each holds what the peer lacks, by      *)
(* then, of the tree it comes from.                                        *)
(***************************************************************************)
EXTENDS SyncTree, Integers, WellFoundedInduction, TLAPS

(* ChangeDag *)

Ranked ==
    \E N \in Nat : \E rank \in [Made -> 0..N] :
        \A c \in Made : \A b \in prev[c] : rank[b] < rank[c]

DagInv == DagTypeOK /\ Complete /\ Ranked

\* A set of numbers that is not empty and has a bound has a greatest element.
LEMMA GreatestElement ==
    ASSUME NEW N \in Nat, NEW T \in SUBSET (0..N), T # {}
    PROVE  \E m \in T : \A x \in T : x <= m
<1> DEFINE D == {N - x : x \in T}
<1>1. D \subseteq Nat /\ D # {}
    <2>1. PICK t \in T : TRUE
        BY Zenon
    <2>2. N - t \in D
        BY Zenon, <2>1
    <2>3. \A x \in T : x \in 0..N /\ N - x \in Nat
        OBVIOUS
    <2> QED BY Zenon, <2>2, <2>3
<1>2. PICK d \in D : \A y \in D : ~ (<<y, d>> \in OpToRel(<, Nat))
    <2> HIDE DEF D
    <2> QED BY <1>1, WFMin, NatLessThanWellFounded, Zenon
<1>3. \A y \in D : ~ (y < d)
    <2> SUFFICES ASSUME NEW y \in D, y < d PROVE FALSE
        OBVIOUS
    <2>1. y \in Nat /\ d \in Nat
        BY Zenon, <1>1
    <2>2. <<y, d>> \in OpToRel(<, Nat)
        BY Zenon, <2>1 DEF OpToRel
    <2> QED BY <1>2, <2>2, Zenon
<1>4. PICK m \in T : d = N - m
    OBVIOUS
<1>5. \A x \in T : x <= m
    <2> SUFFICES ASSUME NEW x \in T PROVE x <= m
        OBVIOUS
    <2>1. N - x \in D
        OBVIOUS
    <2>2. ~ (N - x < N - m)
        BY <1>3, <1>4, <2>1, Zenon
    <2> QED BY <2>2
<1> QED BY Zenon, <1>5

\* A set of changes that is closed under previous changes and has the heads of
\* another one has all of the other.
LEMMA HeadsDetermine ==
    ASSUME Ranked, NEW A \in SUBSET Made, NEW B \in SUBSET Made,
           Closed(B), HeadsOf(A) \subseteq B
    PROVE  A \subseteq B
<1> SUFFICES ASSUME A \ B # {} PROVE FALSE
    OBVIOUS
<1>1. PICK N \in Nat : \E rank \in [Made -> 0..N] :
            \A c \in Made : \A b \in prev[c] : rank[b] < rank[c]
    BY Zenon DEF Ranked
<1>2. PICK rank \in [Made -> 0..N] : \A c \in Made : \A b \in prev[c] : rank[b] < rank[c]
    BY Zenon, <1>1
<1> DEFINE T == {rank[c] : c \in A \ B}
<1>3. T \in SUBSET (0..N) /\ T # {}
    OBVIOUS
<1>4. PICK m \in T : \A x \in T : x <= m
    <2> HIDE DEF T
    <2> QED BY <1>3, GreatestElement, Zenon
<1>5. PICK c \in A \ B : m = rank[c]
    OBVIOUS
<1>6. c \notin HeadsOf(A)
    BY Zenon, <1>5 DEF HeadsOf
<1>7. PICK n \in A : c \in prev[n]
    BY Zenon, <1>5, <1>6 DEF HeadsOf
<1>8. n \notin B
    BY Zenon, <1>5, <1>7 DEF Closed
<1>9. rank[n] \in T
    BY Zenon, <1>8
<1>10. rank[n] <= rank[c]
    BY Zenon, <1>4, <1>5, <1>9
<1>11. rank[c] < rank[n]
    BY Zenon, <1>2, <1>7
<1>12. rank[c] \in Int /\ rank[n] \in Int
    BY <1>5, <1>7
<1> QED BY <1>10, <1>11, <1>12

\* Every step keeps what peers have complete and the changes ranked.
LEMMA DagStep == DagInv /\ [DagNext]_dagVars => DagInv'
<1> SUFFICES ASSUME DagInv, [DagNext]_dagVars PROVE DagInv'
    OBVIOUS
<1> USE DEF DagInv
<1>1. ASSUME NEW p \in Peers, NEW c \in Changes, Make(p, c) PROVE DagInv'
    <2>1. Made' = Made \cup {c} /\ c \notin Made
        BY Zenon, <1>1 DEF Make, Made
    <2>2. prev'[c] = HeadsOf(have[p]) /\ \A x \in Made : prev'[x] = prev[x]
        BY Zenon, <1>1 DEF Make, Made
    <2>3. HeadsOf(have[p]) \subseteq have[p] /\ have[p] \subseteq Made
        BY Zenon DEF HeadsOf, DagTypeOK
    <2>4. have' = [have EXCEPT ![p] = @ \cup {c}]
        BY Zenon, <1>1 DEF Make
    <2>5. DagTypeOK'
        BY Zenon, <2>1, <2>2, <2>3, <2>4 DEF DagTypeOK
    <2>6. Complete'
        <3> SUFFICES ASSUME NEW q \in Peers, NEW x \in have'[q]
                     PROVE  prev'[x] \subseteq have'[q]
            BY Zenon DEF Complete, Closed
        <3>1. have[q] \subseteq have'[q] /\ have'[q] \subseteq have[q] \cup {c}
            BY Zenon, <2>4 DEF DagTypeOK
        <3>2. CASE x = c
            <4>1. q = p
                BY Zenon, <3>2, <2>1, <2>4 DEF DagTypeOK
            <4> QED BY Zenon, <4>1, <3>1, <3>2, <2>2, <2>3
        <3>3. CASE x # c
            <4>1. x \in have[q] /\ x \in Made
                BY Zenon, <3>1, <3>3 DEF DagTypeOK
            <4> QED BY Zenon, <4>1, <3>1, <2>2 DEF Complete, Closed
        <3> QED BY Zenon, <3>2, <3>3
    <2>7. Ranked'
        <3>1. PICK N \in Nat : \E rank \in [Made -> 0..N] :
                    \A x \in Made : \A b \in prev[x] : rank[b] < rank[x]
            BY Zenon DEF Ranked
        <3>2. PICK rank \in [Made -> 0..N] :
                    \A x \in Made : \A b \in prev[x] : rank[b] < rank[x]
            BY Zenon, <3>1
        <3> DEFINE r == [x \in Made' |-> IF x = c THEN N + 1 ELSE rank[x]]
        <3>3. N + 1 \in Nat /\ r \in [Made' -> 0..(N + 1)]
            BY <2>1
        <3>4. ASSUME NEW x \in Made', NEW b \in prev'[x] PROVE r[b] < r[x]
            <4>1. CASE x = c
                <5>1. b \in Made /\ b # c /\ b \in Made'
                    BY Zenon, <4>1, <2>1, <2>2, <2>3
                <5>2. r[b] = rank[b] /\ r[x] = N + 1 /\ rank[b] \in 0..N
                    BY Zenon, <5>1, <4>1
                <5> QED BY <5>2
            <4>2. CASE x # c
                <5>1. x \in Made /\ b \in prev[x]
                    BY Zenon, <4>2, <2>1, <2>2
                <5>2. b \in Made /\ b # c /\ b \in Made'
                    BY Zenon, <5>1, <2>1 DEF DagTypeOK
                <5>3. r[b] = rank[b] /\ r[x] = rank[x]
                    BY Zenon, <5>1, <5>2, <4>2
                <5> QED BY Zenon, <5>1, <5>3, <3>2
            <4> QED BY Zenon, <4>1, <4>2
        <3> HIDE DEF r
        <3> QED BY Zenon, <3>3, <3>4 DEF Ranked
    <2> QED BY Zenon, <2>5, <2>6, <2>7
<1>2. ASSUME NEW p \in Peers, NEW q \in Peers, Get(p, q) PROVE DagInv'
    <2>1. prev' = prev /\ Made' = Made
        BY Zenon, <1>2 DEF Get, Made
    <2>2. PICK S \in SUBSET have[q] : /\ Closed(have[p] \cup S)
                                      /\ have' = [have EXCEPT ![p] = @ \cup S]
        BY <1>2, Zenon DEF Get
    <2>3. DagTypeOK'
        BY Zenon, <2>1, <2>2 DEF DagTypeOK
    <2>4. Complete'
        BY Zenon, <2>1, <2>2 DEF Complete, Closed, DagTypeOK
    <2>5. Ranked'
        BY Zenon, <2>1 DEF Ranked
    <2> QED BY Zenon, <2>3, <2>4, <2>5
<1>3. CASE UNCHANGED dagVars
    <2>1. prev' = prev /\ have' = have /\ Made' = Made
        BY Zenon, <1>3 DEF dagVars, Made
    <2> QED BY Zenon, <2>1 DEF DagTypeOK, Complete, Closed, Ranked
<1> QED BY Zenon, <1>1, <1>2, <1>3 DEF DagNext

\* The creator alone has the root, which comes after nothing.
LEMMA DagStart == DagInit => DagInv
<1> SUFFICES ASSUME DagInit PROVE DagInv
    OBVIOUS
<1>1. DagTypeOK
    BY Zenon, ChangeDagAssumption DEF DagInit, DagTypeOK, Made
<1>2. Complete
    BY Zenon DEF DagInit, Complete, Closed
<1>3. Ranked
    <2>1. [c \in {Root} |-> 0] \in [Made -> 0..0]
        BY DEF DagInit, Made
    <2>2. \A c \in Made : prev[c] = {}
        BY Zenon DEF DagInit, Made
    <2> QED BY <2>1, <2>2, Zenon DEF Ranked
<1> QED BY Zenon, <1>1, <1>2, <1>3 DEF DagInv

\* What a peer has is complete, and the changes can be ranked.
THEOREM DagInvariance == DagSpec => []DagInv
BY DagStart, DagStep, PTL DEF DagSpec

\* Every peer has, at all times, the previous changes of all it has: AddRawChanges
\* attaches a change only after those.
THEOREM AlwaysComplete == DagSpec => []Complete
<1>1. DagInv => Complete
    BY Zenon DEF DagInv
<1> QED BY <1>1, DagInvariance, PTL

\* Two peers with the same heads have the same changes, which is what synctree and
\* headsync rely on when they compare heads instead of changes.
THEOREM HeadsIdentify == DagSpec => []SameHeadsSameChanges
<1>1. DagInv => SameHeadsSameChanges
    <2> SUFFICES ASSUME DagInv, NEW p \in Peers, NEW q \in Peers,
                        HeadsOf(have[p]) = HeadsOf(have[q])
                 PROVE  have[p] = have[q]
        BY Zenon DEF SameHeadsSameChanges
    <2>1. have[p] \in SUBSET Made /\ have[q] \in SUBSET Made
        BY Zenon DEF DagInv, DagTypeOK
    <2>2. Closed(have[p]) /\ Closed(have[q]) /\ Ranked
        BY Zenon DEF DagInv, Complete
    <2>3. HeadsOf(have[p]) \subseteq have[q] /\ HeadsOf(have[q]) \subseteq have[p]
        BY Zenon DEF HeadsOf
    <2>4. have[p] \subseteq have[q]
        BY <2>1, <2>2, <2>3, HeadsDetermine
    <2>5. have[q] \subseteq have[p]
        BY <2>1, <2>2, <2>3, HeadsDetermine
    <2> QED BY Zenon, <2>4, <2>5
<1> QED BY <1>1, DagInvariance, PTL

\* No peer loses a change, and the previous changes of a change stay what they are.
THEOREM Growing == DagSpec => NothingIsLost
<1> DEFINE Grow == /\ \A p \in Peers : have[p] \subseteq have'[p]
                   /\ \A c \in Made : prev'[c] = prev[c]
<1>1. DagInv /\ [DagNext]_dagVars => [Grow]_dagVars
    <2> SUFFICES ASSUME DagInv, DagNext PROVE Grow
        OBVIOUS
    <2> USE DEF DagInv
    <2>1. ASSUME NEW p \in Peers, NEW c \in Changes, Make(p, c) PROVE Grow
        BY Zenon, <2>1 DEF Make, Made, DagTypeOK
    <2>2. ASSUME NEW p \in Peers, NEW q \in Peers, Get(p, q) PROVE Grow
        BY Zenon, <2>2 DEF Get, DagTypeOK
    <2> QED BY Zenon, <2>1, <2>2 DEF DagNext
<1>2. DagSpec => [][Grow]_dagVars
    BY <1>1, DagInvariance, PTL DEF DagSpec
<1> QED BY Zenon, <1>2 DEF NothingIsLost

-----------------------------------------------------------------------------
(* SyncTree *)

\* Messages with changes of S.
Msg(S) == [heads : SUBSET Changes, changes : SUBSET S]

Queues == [Peers -> [Peers -> Seq(Msg(Changes))]]
Call == [state : {"idle", "sent", "open"}, heads : SUBSET Changes, batches : Seq(Msg(Changes))]
Serving == [on : BOOLEAN, ret : SUBSET SUBSET Changes, empty : BOOLEAN]

\* The head updates of p carry changes of S.
Carry(u, p, S) == \A q \in Peers : u[p][q] \in Seq(Msg(S))

\* The answers of q carry changes of S.
Answer(cs, q, S) == \A p \in Peers : cs[p][q].batches \in Seq(Msg(S))

MsgTypeOK ==
    /\ updates \in Queues
    /\ calls \in [Peers -> [Peers -> Call]]
    /\ queued \in [Peers -> [Peers -> SUBSET SUBSET Changes]]
    /\ serving \in [Peers -> [Peers -> Serving]]

\* What is under way from a peer, by head update or as an answer, the peer has.
SentInv ==
    /\ DagInv
    /\ MsgTypeOK
    /\ \A p \in Peers : Carry(updates, p, have[p])
    /\ \A p \in Peers : Answer(calls, p, have[p])

\* The first message of a queue, and what is left when it is taken off.
LEMMA HeadAndTail ==
    ASSUME NEW T, NEW s \in Seq(T), s # <<>>
    PROVE  Head(s) \in T /\ Tail(s) \in Seq(T)
OBVIOUS

\* Updating one entry of a table of peers by peers.
LEMMA TableUpdate ==
    ASSUME NEW T, NEW f \in [Peers -> [Peers -> T]], NEW p \in Peers, NEW q \in Peers, NEW v \in T
    PROVE  /\ [f EXCEPT ![p][q] = v] \in [Peers -> [Peers -> T]]
           /\ \A r, t \in Peers : [f EXCEPT ![p][q] = v][r][t] = f[r][t] \/
                                  (r = p /\ t = q /\ [f EXCEPT ![p][q] = v][r][t] = v)
OBVIOUS

\* Messages with changes of S are messages with changes of any larger set:
LEMMA SeqMsgMonotone ==
    ASSUME NEW S, NEW T, S \subseteq T, NEW s \in Seq(Msg(S))
    PROVE  s \in Seq(Msg(T))
<1>1. Msg(S) \subseteq Msg(T)
    BY Zenon DEF Msg
<1> QED BY <1>1

\* so a peer that gets more changes still has what it sent with updates,
LEMMA CarryMonotone ==
    ASSUME NEW u, NEW p, NEW S, NEW T, S \subseteq T, Carry(u, p, S)
    PROVE  Carry(u, p, T)
BY Zenon, SeqMsgMonotone DEF Carry

\* and what it sent as answers.
LEMMA AnswerMonotone ==
    ASSUME NEW cs, NEW p, NEW S, NEW T, S \subseteq T, Answer(cs, p, S)
    PROVE  Answer(cs, p, T)
BY Zenon, SeqMsgMonotone DEF Answer

\* The heads of a tree belong to the tree.
LEMMA HeadsOfType ==
    ASSUME NEW S
    PROVE  HeadsOf(S) \subseteq S
BY Zenon DEF HeadsOf

\* What is attached to a complete tree leaves it complete.
LEMMA AttachableClosed ==
    ASSUME NEW p \in Peers, NEW B, Closed(have[p])
    PROVE  /\ Attachable(p, B) \subseteq B
           /\ Closed(have[p] \cup Attachable(p, B))
<1>1. Attachable(p, B) \subseteq B
    BY Zenon DEF Attachable
<1>2. ASSUME NEW c \in have[p] \cup Attachable(p, B)
      PROVE  prev[c] \subseteq have[p] \cup Attachable(p, B)
    <2>1. CASE c \in have[p]
        BY Zenon, <2>1 DEF Closed
    <2>2. CASE c \in Attachable(p, B)
        <3>1. PICK S \in SUBSET (B \ have[p]) : Closed(have[p] \cup S) /\ c \in S
            BY Zenon, <2>2 DEF Attachable
        <3>2. S \subseteq Attachable(p, B)
            BY <3>1, Zenon DEF Attachable
        <3> QED BY Zenon, <3>1, <3>2 DEF Closed
    <2> QED BY Zenon, <2>1, <2>2
<1> QED BY Zenon, <1>1, <1>2 DEF Closed

\* A broadcast of p carries what p has by then.
LEMMA BroadcastCarries ==
    ASSUME NEW S \in SUBSET Changes, NEW u \in Queues, NEW p \in Peers, Carry(u, p, S),
           NEW from \in Peers, NEW hs \in SUBSET Changes, NEW B \in SUBSET S
    PROVE  /\ Broadcast(u, p, from, hs, B) \in Queues
           /\ Carry(Broadcast(u, p, from, hs, B), p, S)
<1> DEFINE sent(q) == [heads |-> hs, changes |-> IF q = from THEN {} ELSE B]
           new(q) == IF q = p \/ Len(u[p][q]) = QueueSize THEN u[p][q]
                     ELSE Append(u[p][q], sent(q))
<1>1. ASSUME NEW q \in Peers PROVE new(q) \in Seq(Msg(S)) /\ new(q) \in Seq(Msg(Changes))
    <2>1. sent(q) \in Msg(S)
        BY Zenon DEF Msg
    <2>2. new(q) \in Seq(Msg(S))
        <3> HIDE DEF sent
        <3> QED BY <2>1 DEF Carry
    <2> QED BY <2>2, SeqMsgMonotone, Zenon
<1>2. Broadcast(u, p, from, hs, B) = [u EXCEPT ![p] = [q \in Peers |-> new(q)]]
    BY Zenon DEF Broadcast
<1> HIDE DEF new
<1> QED BY <1>1, <1>2 DEF Queues, Carry

\* Then every peer still has what it sent.
LEMMA BroadcastSent ==
    ASSUME SentInv, NEW u \in Queues, \A r \in Peers : Carry(u, r, have[r]),
           NEW p \in Peers, NEW S \in SUBSET Changes, have[p] \subseteq S,
           have' = [have EXCEPT ![p] = S],
           NEW from \in Peers, NEW hs \in SUBSET Changes, NEW B \in SUBSET S,
           updates' \in {u, Broadcast(u, p, from, hs, B)}
    PROVE  updates' \in Queues /\ \A r \in Peers : Carry(updates', r, have'[r])
<1>1. \A r \in Peers : have[r] \subseteq have'[r]
    BY Zenon DEF SentInv, DagInv, DagTypeOK
<1>2. have'[p] = S
    BY Zenon DEF SentInv, DagInv, DagTypeOK
<1>3. \A r \in Peers : Carry(u, r, have'[r])
    BY Zenon, <1>1, CarryMonotone
<1>4. CASE updates' = u
    BY Zenon, <1>3, <1>4
<1>5. CASE updates' = Broadcast(u, p, from, hs, B)
    <2>1. Carry(u, p, S)
        BY Zenon, <1>2, <1>3
    <2>2. /\ updates' \in Queues
          /\ Carry(updates', p, S)
          /\ \A r \in Peers : r # p => updates'[r] = u[r]
        <3> DEFINE w == Broadcast(u, p, from, hs, B)
        <3>1. w \in Queues
            BY <2>1, BroadcastCarries, ZenonT(30)
        <3>2. Carry(w, p, S)
            BY <2>1, BroadcastCarries, ZenonT(30)
        <3>3. \A r \in Peers : r # p => w[r] = u[r]
            BY Zenon DEF Broadcast, Queues
        <3>4. updates' = w
            BY Zenon, <1>5
        <3> HIDE DEF w
        <3> QED BY Zenon, <3>1, <3>2, <3>3, <3>4
    <2>3. ASSUME NEW r \in Peers PROVE Carry(updates', r, have'[r])
        <3>1. CASE r = p
            BY Zenon, <3>1, <2>2, <1>2
        <3>2. CASE r # p
            BY Zenon, <3>2, <2>2, <1>3 DEF Carry
        <3> QED BY Zenon, <3>1, <3>2
    <2> QED BY Zenon, <2>2, <2>3
<1> QED BY Zenon, <1>4, <1>5

\* Adding changes that another peer has is a step of ChangeDag.
LEMMA AddIsGet ==
    ASSUME SentInv, NEW u \in Queues, \A r \in Peers : Carry(u, r, have[r]),
           NEW p \in Peers, NEW q \in Peers, NEW hs, NEW B \in SUBSET have[q],
           AddRawChangesFromPeer(u, p, q, hs, B), prev' = prev
    PROVE  /\ Get(p, q)
           /\ updates' \in Queues /\ \A r \in Peers : Carry(updates', r, have'[r])
<1> DEFINE S == have[p] \cup Added(p, hs, B)
<1>1. Closed(have[p])
    BY Zenon DEF SentInv, DagInv, Complete
<1>2. Added(p, hs, B) \subseteq B /\ Closed(S)
    <2>1. CASE hasHeads(p, hs)
        <3>1. Added(p, hs, B) = {} /\ S = have[p]
            BY Zenon, <2>1 DEF Added
        <3> QED BY Zenon, <3>1, <1>1
    <2>2. CASE ~hasHeads(p, hs)
        <3>1. Added(p, hs, B) = Attachable(p, B)
            BY Zenon, <2>2 DEF Added
        <3> QED BY Zenon, <3>1, <1>1, AttachableClosed
    <2> QED BY Zenon, <2>1, <2>2
<1>3. have' = [have EXCEPT ![p] = S]
    BY Zenon DEF AddRawChangesFromPeer
<1>4. Get(p, q)
    BY <1>2, <1>3, Zenon DEF Get
<1>5. S \in SUBSET Changes /\ have[p] \subseteq S
    BY Zenon, <1>2 DEF SentInv, DagInv, DagTypeOK
<1>6. HeadsOf(S) \in SUBSET Changes /\ S \ have[p] \in SUBSET S
    BY Zenon, <1>5, HeadsOfType
<1>7. updates' \in {u, Broadcast(u, p, q, HeadsOf(S), S \ have[p])}
    BY Zenon DEF AddRawChangesFromPeer
<1>8. updates' \in Queues /\ \A r \in Peers : Carry(updates', r, have'[r])
    <2> HIDE DEF S
    <2> QED BY <1>3, <1>5, <1>6, <1>7, BroadcastSent, Zenon
<1> QED BY Zenon, <1>4, <1>8

\* The answer a passes changes of S in portions, up to closed sets, those of A.
IsCut(a, S, A) ==
    \E n \in Nat : \E T \in [0..n -> SUBSET S] :
        /\ T[0] = {}
        /\ \A i \in 1..n : Closed(T[i])
        /\ a = [i \in 1..n |-> Batch(A, T[i] \ T[i - 1])]

LEMMA AnswersCut ==
    ASSUME NEW q \in Peers, NEW hs, NEW a \in Answers(q, hs)
    PROVE  IsCut(a, have[q], have[q] \ Past(have[q], hs \cap have[q]))
<1> DEFINE S == have[q]
           A == S \ Past(S, hs \cap S)
           ways(n) == {[i \in 1..n |-> Batch(A, T[i] \ T[i - 1])] : T \in Cuts(S, A, n)}
<1>1. a \in UNION {ways(n) : n \in 1..Cardinality(A)}
    BY Zenon DEF Answers
<1>2. PICK n \in 1..Cardinality(A) : a \in ways(n)
    <2> HIDE DEF ways, A
    <2> QED BY <1>1, Zenon
<1>3. n \in Nat
    <2>1. n \in Int /\ 1 <= n
        BY <1>2
    <2> QED BY <2>1
<1>4. PICK T \in Cuts(S, A, n) : a = [i \in 1..n |-> Batch(A, T[i] \ T[i - 1])]
    <2> HIDE DEF A, S
    <2> QED BY <1>2, Zenon
<1>5. /\ T \in [0..n -> SUBSET S] /\ T[0] = {}
      /\ \A i \in 1..n : Closed(T[i])
    BY Zenon, <1>4 DEF Cuts
<1> HIDE DEF A, S
<1>6. IsCut(a, S, A)
    BY <1>3, <1>4, <1>5, Zenon DEF IsCut
<1> QED BY Zenon, <1>6 DEF A, S

\* An answer consists of changes that the peer has.
LEMMA AnswersAreHad ==
    ASSUME NEW q \in Peers, have[q] \in SUBSET Changes, NEW hs, NEW a \in Answers(q, hs)
    PROVE  a \in Seq(Msg(have[q]))
<1> DEFINE S == have[q]
           A == S \ Past(S, hs \cap S)
<1>1. ASSUME NEW B \in SUBSET S PROVE Batch(A, B) \in Msg(S)
    BY Zenon, HeadsOfType DEF Msg, Batch
<1>2. IsCut(a, S, A)
    BY Zenon, AnswersCut
<1> HIDE DEF S, A
<1>3. PICK n \in Nat : \E T \in [0..n -> SUBSET S] :
                          a = [i \in 1..n |-> Batch(A, T[i] \ T[i - 1])]
    BY <1>2, Zenon DEF IsCut
<1>4. PICK T \in [0..n -> SUBSET S] : a = [i \in 1..n |-> Batch(A, T[i] \ T[i - 1])]
    BY <1>3, Zenon
<1>5. ASSUME NEW i \in 1..n PROVE Batch(A, T[i] \ T[i - 1]) \in Msg(S)
    <2>1. i \in 0..n
        BY <1>5
    <2>2. T[i] \ T[i - 1] \in SUBSET S
        BY Zenon, <1>4, <2>1
    <2> QED BY <1>1, <2>2, Zenon
<1>6. a \in [1..n -> Msg(S)]
    BY Zenon, <1>4, <1>5
<1> QED BY <1>6 DEF S

\* An action that leaves the trees and the head updates alone.
LEMMA OnlyCalls ==
    ASSUME SentInv, UNCHANGED <<prev, have, updates>>, MsgTypeOK',
           \A p, q \in Peers : \/ calls'[p][q].batches = calls[p][q].batches
                               \/ calls'[p][q].batches \in Seq(Msg(have[q]))
    PROVE  UNCHANGED dagVars /\ SentInv'
<1>1. UNCHANGED dagVars
    BY Zenon DEF dagVars
<1>2. DagInv'
    BY Zenon, <1>1, DagStep DEF SentInv
<1>3. \A p \in Peers : Carry(updates', p, have'[p])
    BY Zenon DEF SentInv, Carry
<1>4. \A p \in Peers : Answer(calls', p, have'[p])
    BY Zenon DEF SentInv, Answer
<1> QED BY Zenon, <1>1, <1>2, <1>3, <1>4 DEF SentInv

\* An action that is a step of ChangeDag keeps what was sent before.
LEMMA DagAction ==
    ASSUME SentInv, DagNext, MsgTypeOK',
           \A p \in Peers : Carry(updates', p, have'[p]),
           \A p, q \in Peers : \/ calls'[p][q].batches = calls[p][q].batches
                               \/ calls'[p][q].batches \in Seq(Msg(have[q]))
    PROVE  SentInv'
<1>1. DagInv'
    BY Zenon, DagStep DEF SentInv
<1>2. \A q \in Peers : have[q] \subseteq have'[q]
    <2>1. ASSUME NEW p \in Peers, NEW c \in Changes, Make(p, c), NEW q \in Peers
          PROVE  have[q] \subseteq have'[q]
        BY Zenon, <2>1 DEF Make, SentInv, DagInv, DagTypeOK
    <2>2. ASSUME NEW p \in Peers, NEW r \in Peers, Get(p, r), NEW q \in Peers
          PROVE  have[q] \subseteq have'[q]
        BY Zenon, <2>2 DEF Get, SentInv, DagInv, DagTypeOK
    <2> QED BY Zenon, <2>1, <2>2 DEF DagNext
<1>3. ASSUME NEW q \in Peers PROVE Answer(calls', q, have'[q])
    <2>1. Answer(calls', q, have[q])
        BY Zenon DEF SentInv, Answer
    <2> QED BY Zenon, <2>1, <1>2, AnswerMonotone
<1> QED BY Zenon, <1>1, <1>3 DEF SentInv

\* The heads a peer sends are changes.
LEMMA HeadsOfPeer ==
    ASSUME DagTypeOK, NEW p \in Peers
    PROVE  HeadsOf(have[p]) \in SUBSET Changes
BY Zenon, HeadsOfType DEF DagTypeOK

\* Every step of the protocol is a step of ChangeDag or changes no tree, and sends only what
\* the sender has.
LEMMA SyncStep == SentInv /\ [Next]_vars => [DagNext]_dagVars /\ SentInv'
<1> SUFFICES ASSUME SentInv, [Next]_vars PROVE [DagNext]_dagVars /\ SentInv'
    OBVIOUS
<1>t. DagTypeOK /\ MsgTypeOK /\ have \in [Peers -> SUBSET Made] /\ Made \subseteq Changes
    BY Zenon DEF SentInv, DagInv, DagTypeOK
<1>h. \A p \in Peers : HeadsOf(have[p]) \in SUBSET Changes
    BY Zenon, <1>t, HeadsOfPeer
<1>0. CASE UNCHANGED vars
    <2>1. UNCHANGED <<prev, have, updates>> /\ calls' = calls /\ MsgTypeOK'
        BY Zenon, <1>0, <1>t DEF vars, MsgTypeOK
    <2> QED BY Zenon, <2>1, OnlyCalls
<1>1. ASSUME NEW p \in Peers, NEW c \in Changes, AddContent(p, c)
      PROVE  [DagNext]_dagVars /\ SentInv'
    <2>1. DagNext
        BY Zenon, <1>1 DEF AddContent, DagNext
    <2>2. have' = [have EXCEPT ![p] = have[p] \cup {c}] /\ have[p] \cup {c} \in SUBSET Changes
        BY Zenon, <1>1, <1>t DEF AddContent, Make
    <2>3. updates' \in {updates, Broadcast(updates, p, p, {c}, {c})}
        BY Zenon, <1>1 DEF AddContent
    <2>4. updates' \in Queues /\ \A r \in Peers : Carry(updates', r, have'[r])
        <3> DEFINE S == have[p] \cup {c}
                   B == {c}
        <3>1. S \in SUBSET Changes /\ have[p] \subseteq S /\ have' = [have EXCEPT ![p] = S]
            BY Zenon, <2>2
        <3>2. B \in SUBSET S /\ B \in SUBSET Changes
            OBVIOUS
        <3>3. updates' \in {updates, Broadcast(updates, p, p, B, B)}
            BY Zenon, <2>3
        <3>4. updates \in Queues /\ \A r \in Peers : Carry(updates, r, have[r])
            BY Zenon DEF SentInv, MsgTypeOK
        <3> HIDE DEF S, B
        <3> QED BY <3>1, <3>2, <3>3, <3>4, BroadcastSent, Zenon
    <2>5. UNCHANGED <<queued, calls, serving>>
        BY Zenon, <1>1 DEF AddContent
    <2>6. MsgTypeOK'
        BY Zenon, <2>4, <2>5, <1>t DEF MsgTypeOK
    <2> QED BY Zenon, <2>1, <2>4, <2>5, <2>6, DagAction
<1>2. ASSUME NEW p \in Peers, NEW q \in Peers, SyncWithPeer(p, q)
      PROVE  [DagNext]_dagVars /\ SentInv'
    <2>1. UNCHANGED <<prev, have, updates>> /\ UNCHANGED <<calls, serving>>
        BY Zenon, <1>2 DEF SyncWithPeer
    <2>2. queued' \in [Peers -> [Peers -> SUBSET SUBSET Changes]]
        BY <1>2, <1>t, <1>h DEF SyncWithPeer, QueueRequest, MsgTypeOK
    <2>3. MsgTypeOK'
        BY Zenon, <2>1, <2>2, <1>t DEF MsgTypeOK
    <2> QED BY Zenon, <2>1, <2>3, OnlyCalls
<1>3. ASSUME NEW p \in Peers, NEW q \in Peers, DropRequest(p, q)
      PROVE  [DagNext]_dagVars /\ SentInv'
    <2>1. UNCHANGED <<prev, have, updates>> /\ UNCHANGED <<calls, serving>>
        BY Zenon, <1>3 DEF DropRequest
    <2>2. MsgTypeOK'
        BY Zenon, <1>3, <2>1, <1>t DEF MsgTypeOK, DropRequest
    <2> QED BY Zenon, <2>1, <2>2, OnlyCalls
<1>4. ASSUME NEW p \in Peers, NEW q \in Peers, ApplyRequest(p, q)
      PROVE  [DagNext]_dagVars /\ SentInv'
    <2>1. UNCHANGED <<prev, have, updates>> /\ UNCHANGED serving
        BY Zenon, <1>4 DEF ApplyRequest
    <2>2. PICK hs \in queued[p][q] :
             calls' = [calls EXCEPT ![p][q] = [state |-> "sent", heads |-> hs, batches |-> <<>>]]
        BY <1>4, Zenon DEF ApplyRequest
    <2>3. [state |-> "sent", heads |-> hs, batches |-> <<>>] \in Call
        BY <1>t DEF Call, MsgTypeOK
    <2>4. MsgTypeOK'
        BY Zenon, <1>4, <2>1, <2>2, <2>3, <1>t DEF MsgTypeOK, ApplyRequest
    <2>5. \A r, t \in Peers : \/ calls'[r][t].batches = calls[r][t].batches
                              \/ calls'[r][t].batches \in Seq(Msg(have[t]))
        BY <2>2, <1>t DEF MsgTypeOK
    <2> QED BY Zenon, <2>1, <2>4, <2>5, OnlyCalls
<1>5. ASSUME NEW p \in Peers, NEW q \in Peers, RefuseStreamRequest(q, p)
      PROVE  [DagNext]_dagVars /\ SentInv'
    <2>1. UNCHANGED <<prev, have, updates>> /\ UNCHANGED serving
        BY Zenon, <1>5 DEF RefuseStreamRequest
    <2>2. calls' = [calls EXCEPT ![p][q] = NoCall]
        BY Zenon, <1>5 DEF RefuseStreamRequest
    <2>3. NoCall \in Call /\ NoCall.batches = <<>>
        BY DEF Call, NoCall
    <2>4. MsgTypeOK'
        BY <1>5, <2>1, <2>2, <2>3, <1>t DEF MsgTypeOK, RefuseStreamRequest, QueueRequest
    <2>5. \A r, t \in Peers : \/ calls'[r][t].batches = calls[r][t].batches
                              \/ calls'[r][t].batches \in Seq(Msg(have[t]))
        <3>1. \A r, t \in Peers : calls'[r][t] = calls[r][t] \/ calls'[r][t] = NoCall
            BY <2>2, <2>3, <1>t, TableUpdate DEF MsgTypeOK
        <3>2. \A t \in Peers : NoCall.batches \in Seq(Msg(have[t]))
            BY <2>3
        <3> QED BY <3>1, <3>2, Zenon
    <2> QED BY Zenon, <2>1, <2>4, <2>5, OnlyCalls
<1>6. ASSUME NEW p \in Peers, NEW q \in Peers, HandleStreamRequest(q, p)
      PROVE  [DagNext]_dagVars /\ SentInv'
    <2> DEFINE hs == calls[p][q].heads
               cur == HeadsOf(have[q])
               none == <<[heads |-> cur, changes |-> {}]>>
    <2>1. UNCHANGED <<prev, have, updates>> /\ UNCHANGED queued
        BY Zenon, <1>6 DEF HandleStreamRequest
    <2>2. PICK a \in IF cur \subseteq hs THEN {none} ELSE Answers(q, hs) :
             calls' = [calls EXCEPT ![p][q] = [state |-> "open", heads |-> {}, batches |-> a]]
        BY <1>6, Zenon DEF HandleStreamRequest
    <2>3. a \in Seq(Msg(have[q]))
        <3>1. CASE a = none
            <4>1. [heads |-> cur, changes |-> {}] \in Msg(have[q])
                BY Zenon, <1>h DEF Msg
            <4> QED BY <3>1, <4>1
        <3>2. CASE a \in Answers(q, hs)
            BY Zenon, <3>2, <1>t, AnswersAreHad
        <3> QED BY Zenon, <2>2, <3>1, <3>2
    <2>4. a \in Seq(Msg(Changes))
        BY Zenon, <2>3, <1>t, SeqMsgMonotone
    <2>5. [state |-> "open", heads |-> {}, batches |-> a] \in Call
        BY Zenon, <2>4 DEF Call
    <2>6. serving' \in [Peers -> [Peers -> Serving]]
        BY <1>6, <1>t, <1>h DEF HandleStreamRequest, MsgTypeOK, Serving
    <2>7. MsgTypeOK'
        BY Zenon, <2>1, <2>2, <2>5, <2>6, <1>t DEF MsgTypeOK
    <2>8. \A r, t \in Peers : \/ calls'[r][t].batches = calls[r][t].batches
                              \/ calls'[r][t].batches \in Seq(Msg(have[t]))
        BY Zenon, <2>2, <2>3, <1>t DEF MsgTypeOK
    <2> QED BY Zenon, <2>1, <2>7, <2>8, OnlyCalls
<1>7. ASSUME NEW p \in Peers, NEW q \in Peers, FinishStreamRequest(q, p)
      PROVE  [DagNext]_dagVars /\ SentInv'
    <2>1. UNCHANGED <<prev, have, updates>> /\ UNCHANGED calls
        BY Zenon, <1>7 DEF FinishStreamRequest
    <2>2. serving[q][p].ret \in SUBSET SUBSET Changes /\ NotServing \in Serving
        BY <1>t DEF MsgTypeOK, Serving, NotServing
    <2>3. queued' \in [Peers -> [Peers -> SUBSET SUBSET Changes]]
        <3>1. \/ queued' = queued
              \/ queued' = [queued EXCEPT ![q][p] = serving[q][p].ret]
            BY <1>7, <1>t DEF FinishStreamRequest, MsgTypeOK
        <3> DEFINE v == serving[q][p].ret
                   T == SUBSET SUBSET Changes
        <3>2. v \in T /\ queued \in [Peers -> [Peers -> T]]
            BY Zenon, <2>2, <1>t DEF MsgTypeOK
        <3> HIDE DEF v, T
        <3>3. [queued EXCEPT ![q][p] = v] \in [Peers -> [Peers -> T]]
            BY Zenon, <3>2, TableUpdate
        <3> QED BY Zenon, <3>1, <3>2, <3>3 DEF v, T
    <2>4. serving' \in [Peers -> [Peers -> Serving]]
        BY Zenon, <1>7, <2>2, <1>t DEF FinishStreamRequest, MsgTypeOK
    <2>5. MsgTypeOK'
        BY Zenon, <2>1, <2>3, <2>4, <1>t DEF MsgTypeOK
    <2> QED BY Zenon, <2>1, <2>5, OnlyCalls
<1>8. ASSUME NEW p \in Peers, NEW q \in Peers, EndOfStream(p, q) \/ BreakStream(p, q)
      PROVE  [DagNext]_dagVars /\ SentInv'
    <2>1. UNCHANGED <<prev, have, updates>> /\ UNCHANGED <<queued, serving>>
        BY Zenon, <1>8 DEF EndOfStream, BreakStream, Lose
    <2>2. calls' = [calls EXCEPT ![p][q] = NoCall]
        BY Zenon, <1>8 DEF EndOfStream, BreakStream
    <2>3. NoCall \in Call /\ NoCall.batches = <<>>
        BY DEF Call, NoCall
    <2>4. MsgTypeOK'
        BY Zenon, <2>1, <2>2, <2>3, <1>t DEF MsgTypeOK
    <2>5. \A r, t \in Peers : \/ calls'[r][t].batches = calls[r][t].batches
                              \/ calls'[r][t].batches \in Seq(Msg(have[t]))
        <3>1. \A r, t \in Peers : calls'[r][t] = calls[r][t] \/ calls'[r][t] = NoCall
            BY <2>2, <2>3, <1>t, TableUpdate DEF MsgTypeOK
        <3>2. \A t \in Peers : NoCall.batches \in Seq(Msg(have[t]))
            BY <2>3
        <3> QED BY <3>1, <3>2, Zenon
    <2> QED BY Zenon, <2>1, <2>4, <2>5, OnlyCalls
<1>u. ASSUME NEW p \in Peers, NEW q \in Peers, updates[q][p] # <<>>
      PROVE  LET u == [updates EXCEPT ![q][p] = Tail(@)] IN
             /\ u \in Queues /\ \A r \in Peers : Carry(u, r, have[r])
             /\ Head(updates[q][p]) \in Msg(have[q])
    <2> DEFINE u == [updates EXCEPT ![q][p] = Tail(@)]
    <2>1. updates[q][p] \in Seq(Msg(Changes)) /\ updates[q][p] \in Seq(Msg(have[q]))
        BY Zenon, <1>t DEF SentInv, MsgTypeOK, Queues, Carry
    <2>2. /\ Tail(updates[q][p]) \in Seq(Msg(Changes))
          /\ Tail(updates[q][p]) \in Seq(Msg(have[q]))
          /\ Head(updates[q][p]) \in Msg(have[q])
        BY <1>u, <2>1, HeadAndTail, Zenon
    <2>3. u \in Queues
        BY Zenon, <2>2, <1>t DEF MsgTypeOK, Queues
    <2>4. ASSUME NEW r \in Peers PROVE Carry(u, r, have[r])
        BY Zenon, <2>2, <1>t DEF SentInv, MsgTypeOK, Queues, Carry
    <2> QED BY <2>2, <2>3, <2>4, Zenon
<1>9. ASSUME NEW p \in Peers, NEW q \in Peers, LoseUpdate(q, p)
      PROVE  [DagNext]_dagVars /\ SentInv'
    <2>1. UNCHANGED dagVars /\ UNCHANGED <<have, queued, calls, serving>>
        BY Zenon, <1>9 DEF LoseUpdate, Lose, dagVars
    <2>2. updates' \in Queues /\ \A r \in Peers : Carry(updates', r, have[r])
        BY <1>9, <1>u, Zenon DEF LoseUpdate
    <2>3. MsgTypeOK'
        BY Zenon, <2>1, <2>2, <1>t DEF MsgTypeOK
    <2>4. DagInv'
        BY Zenon, <2>1, DagStep DEF SentInv
    <2>5. \A r \in Peers : Answer(calls', r, have'[r])
        BY Zenon, <2>1 DEF SentInv
    <2>6. \A r \in Peers : Carry(updates', r, have'[r])
        BY Zenon, <2>1, <2>2
    <2> QED BY Zenon, <2>1, <2>3, <2>4, <2>5, <2>6 DEF SentInv
<1>10. ASSUME NEW p \in Peers, NEW q \in Peers, HandleHeadUpdate(p, q)
       PROVE  [DagNext]_dagVars /\ SentInv'
    <2> DEFINE m == Head(updates[q][p])
               u == [updates EXCEPT ![q][p] = Tail(@)]
    <2>1. UNCHANGED <<prev, calls, serving>> /\ updates[q][p] # <<>>
        BY Zenon, <1>10 DEF HandleHeadUpdate
    <2>2. /\ u \in Queues /\ \A r \in Peers : Carry(u, r, have[r])
          /\ m \in Msg(have[q])
        BY <2>1, <1>u, Zenon
    <2>3. m.changes \in SUBSET have[q]
        BY Zenon, <2>2 DEF Msg
    <2>4. \/ updates' = u /\ UNCHANGED have
          \/ AddRawChangesFromPeer(u, p, q, m.heads, m.changes)
        BY Zenon, <1>10 DEF HandleHeadUpdate
    <2>5. /\ DagNext \/ UNCHANGED dagVars
          /\ updates' \in Queues /\ \A r \in Peers : Carry(updates', r, have'[r])
        <3>1. CASE updates' = u /\ UNCHANGED have
            BY <3>1, <2>1, <2>2, Zenon DEF dagVars
        <3>2. CASE AddRawChangesFromPeer(u, p, q, m.heads, m.changes)
            <4> DEFINE hs == m.heads
                       B == m.changes
            <4>1. AddRawChangesFromPeer(u, p, q, hs, B) /\ B \in SUBSET have[q] /\ prev' = prev
                BY Zenon, <3>2, <2>1, <2>3
            <4> HIDE DEF hs, B, u
            <4>2. /\ Get(p, q)
                  /\ updates' \in Queues /\ \A r \in Peers : Carry(updates', r, have'[r])
                BY <4>1, <2>2, AddIsGet, Zenon
            <4> QED BY Zenon, <4>2 DEF DagNext
        <3> QED BY Zenon, <2>4, <3>1, <3>2
    <2>6. DagInv'
        BY Zenon, <2>5, DagStep DEF SentInv
    <2>7. HeadsOf(have[p])' \in SUBSET Changes
        <3>1. HeadsOf(have[p])' \subseteq have'[p]
            BY Zenon DEF HeadsOf
        <3> QED BY Zenon, <3>1, <2>6 DEF DagInv, DagTypeOK
    <2>8. queued' \in [Peers -> [Peers -> SUBSET SUBSET Changes]]
        <3>1. \/ queued' = queued
              \/ queued' = [queued EXCEPT ![p][q] = {HeadsOf(have[p])'}]
            BY Zenon, <1>10 DEF HandleHeadUpdate, QueueRequest, HeadsOf
        <3> DEFINE v == {HeadsOf(have[p])'}
                   T == SUBSET SUBSET Changes
        <3>2. v \in T /\ queued \in [Peers -> [Peers -> T]]
            BY Zenon, <2>7, <1>t DEF MsgTypeOK
        <3> HIDE DEF v, T
        <3>3. [queued EXCEPT ![p][q] = v] \in [Peers -> [Peers -> T]]
            BY Zenon, <3>2, TableUpdate
        <3> QED BY Zenon, <3>1, <3>2, <3>3 DEF v, T
    <2>9. MsgTypeOK'
        BY Zenon, <2>1, <2>5, <2>8, <1>t DEF MsgTypeOK
    <2>10. CASE DagNext
        BY Zenon, <2>10, <2>1, <2>5, <2>9, DagAction
    <2>11. CASE UNCHANGED dagVars
        <3>1. \A r \in Peers : Answer(calls', r, have'[r])
            BY Zenon, <2>11, <2>1 DEF SentInv, dagVars
        <3> QED BY Zenon, <3>1, <2>11, <2>5, <2>6, <2>9 DEF SentInv
    <2> QED BY Zenon, <2>5, <2>10, <2>11
<1>11. ASSUME NEW p \in Peers, NEW q \in Peers, HandleResponse(p, q)
       PROVE  [DagNext]_dagVars /\ SentInv'
    <2> DEFINE b == Head(calls[p][q].batches)
    <2>1. UNCHANGED <<prev, queued, serving>> /\ calls[p][q].batches # <<>>
        BY Zenon, <1>11 DEF HandleResponse
    <2>2. calls[p][q].batches \in Seq(Msg(have[q])) /\ calls[p][q] \in Call
        BY Zenon, <1>t DEF SentInv, Answer, MsgTypeOK
    <2>3. b \in Msg(have[q]) /\ Tail(calls[p][q].batches) \in Seq(Msg(have[q]))
        BY <2>1, <2>2, HeadAndTail, Zenon
    <2>4. calls' = [calls EXCEPT ![p][q].batches = Tail(calls[p][q].batches)]
        BY Zenon, <1>11, <1>t DEF HandleResponse, MsgTypeOK
    <2>5. Tail(calls[p][q].batches) \in Seq(Msg(Changes))
        BY <2>1, <2>2 DEF Call
    <2>6. calls' \in [Peers -> [Peers -> Call]]
        BY <2>2, <2>4, <2>5, <1>t, Zenon DEF Call, MsgTypeOK
    <2>7. \A r, t \in Peers : \/ calls'[r][t].batches = calls[r][t].batches
                              \/ calls'[r][t].batches \in Seq(Msg(have[t]))
        BY Zenon, <2>2, <2>3, <2>4, <1>t DEF Call, MsgTypeOK
    <2>8. updates \in Queues /\ \A r \in Peers : Carry(updates, r, have[r])
        BY Zenon DEF SentInv, MsgTypeOK
    <2>9. CASE UNCHANGED <<have, updates>>
        <3>1. MsgTypeOK'
            BY Zenon, <2>1, <2>6, <2>9, <1>t DEF MsgTypeOK
        <3> QED BY Zenon, <2>1, <2>7, <2>9, <3>1, OnlyCalls
    <2>10. CASE AddRawChangesFromPeer(updates, p, q, b.heads, b.changes)
        <3> DEFINE hs == b.heads
                   B == b.changes
        <3>1. AddRawChangesFromPeer(updates, p, q, hs, B) /\ B \in SUBSET have[q] /\ prev' = prev
            BY Zenon, <2>10, <2>1, <2>3 DEF Msg
        <3> HIDE DEF hs, B
        <3>2. /\ Get(p, q)
              /\ updates' \in Queues /\ \A r \in Peers : Carry(updates', r, have'[r])
            BY <3>1, <2>8, AddIsGet, Zenon
        <3>3. DagNext
            BY Zenon, <3>2 DEF DagNext
        <3>4. MsgTypeOK'
            BY Zenon, <2>1, <2>6, <3>2, <1>t DEF MsgTypeOK
        <3> QED BY Zenon, <2>7, <3>2, <3>3, <3>4, DagAction
    <2> QED BY Zenon, <1>11, <2>9, <2>10 DEF HandleResponse
<1>12. ASSUME NEW p \in Peers, NEW q \in Peers, LoadTree(p, q)
       PROVE  [DagNext]_dagVars /\ SentInv'
    <2>1. UNCHANGED <<prev, calls, serving>> /\ have[p] = {}
        BY Zenon, <1>12 DEF LoadTree
    <2>2. queued' \in [Peers -> [Peers -> SUBSET SUBSET Changes]]
        BY Zenon, <1>12, <1>t DEF LoadTree, MsgTypeOK
    <2>3. updates \in Queues /\ \A r \in Peers : Carry(updates, r, have[r])
        BY Zenon DEF SentInv, MsgTypeOK
    <2>4. ASSUME NEW S \in SUBSET have[q], Closed(S), have' = [have EXCEPT ![p] = S],
                 updates' \in {updates, Broadcast(updates, p, p, HeadsOf(have[q]), {})}
          PROVE  [DagNext]_dagVars /\ SentInv'
        <3>1. have[p] \cup S = S /\ have[p] \subseteq S /\ S \in SUBSET Changes
            BY Zenon, <2>1, <1>t
        <3>2. Get(p, q)
            BY <2>1, <2>4, <3>1, Zenon DEF Get
        <3>3. DagNext
            BY Zenon, <3>2 DEF DagNext
        <3> DEFINE H == HeadsOf(have[q])
        <3>4. H \in SUBSET Changes /\ {} \in SUBSET S
            BY Zenon, <1>h
        <3>5. updates' \in {updates, Broadcast(updates, p, p, H, {})}
            BY Zenon, <2>4
        <3> HIDE DEF H
        <3>6. updates' \in Queues /\ \A r \in Peers : Carry(updates', r, have'[r])
            BY <2>3, <2>4, <3>1, <3>4, <3>5, BroadcastSent, Zenon
        <3>7. MsgTypeOK'
            BY Zenon, <2>1, <2>2, <3>6, <1>t DEF MsgTypeOK
        <3> QED BY Zenon, <2>1, <3>3, <3>6, <3>7, DagAction
    <2>5. CASE UNCHANGED <<have, updates>>
        <3>1. MsgTypeOK'
            BY Zenon, <2>1, <2>2, <2>5, <1>t DEF MsgTypeOK
        <3> QED BY Zenon, <2>1, <2>5, <3>1, OnlyCalls
    <2>6. CASE /\ have' = [have EXCEPT ![p] = have[q]]
               /\ updates' \in {updates, Broadcast(updates, p, p, HeadsOf(have[q]), {})}
        <3>1. Closed(have[q])
            BY Zenon DEF SentInv, DagInv, Complete
        <3> QED BY <2>4, <2>6, <3>1, Zenon
    <2>7. CASE /\ UNCHANGED updates
               /\ \E T \in SUBSET have[q] : /\ Closed(T) /\ T # have[q]
                                            /\ have' = [have EXCEPT ![p] = T]
        BY <2>4, <2>7, Zenon
    <2> QED BY Zenon, <1>12, <2>5, <2>6, <2>7 DEF LoadTree
<1> QED BY Zenon, <1>0, <1>1, <1>2, <1>3, <1>4, <1>5, <1>6, <1>7, <1>8, <1>9, <1>10, <1>11, <1>12 DEF Next

\* In the beginning nothing is under way, and only the creator has the tree.
LEMMA SyncStart == Init => DagInit /\ SentInv
<1> SUFFICES ASSUME Init PROVE DagInit /\ SentInv
    OBVIOUS
<1>1. DagInit
    BY Zenon, SyncTreeAssumption DEF Init, DagInit
<1>2. DagInv
    BY Zenon, <1>1, DagStart
<1>3. NoCall \in Call /\ NoCall.batches = <<>> /\ NotServing \in Serving
    BY DEF NoCall, Call, NotServing, Serving
<1>4. MsgTypeOK
    BY <1>3 DEF Init, MsgTypeOK, Queues
<1>5. \A p \in Peers : Carry(updates, p, have[p])
    BY DEF Init, Carry
<1>6. \A p \in Peers : Answer(calls, p, have[p])
    <2>1. \A p, q \in Peers : calls[p][q].batches = <<>>
        BY Zenon, <1>3 DEF Init
    <2>2. \A S : <<>> \in Seq(Msg(S))
        OBVIOUS
    <2> QED BY <2>1, <2>2, Zenon DEF Answer
<1> QED BY Zenon, <1>1, <1>2, <1>4, <1>5, <1>6 DEF SentInv

\* Whatever is lost, dropped, repeated or answered late, the trees of the peers are
\* replicas of one growing set of changes: the protocol of synctree implements ChangeDag.
THEOREM Implementation == Spec => ImplementsChangeDag
<1>1. Init => DagInit
    BY Zenon, SyncStart
<1>2. Init => SentInv
    BY Zenon, SyncStart
<1>3. SentInv /\ [Next]_vars => SentInv'
    BY Zenon, SyncStep
<1>4. SentInv /\ [Next]_vars => [DagNext]_dagVars
    BY Zenon, SyncStep
<1>5. Spec => []SentInv
    BY <1>2, <1>3, PTL DEF Spec
<1>6. Spec => DagSpec
    BY <1>1, <1>4, <1>5, PTL DEF Spec, DagSpec
<1> QED BY Zenon, <1>6 DEF ImplementsChangeDag

\* A message under way, a head update or a batch of an answer, never carries a change
\* that its sender does not have.
THEOREM SentIsHad == Spec => []SentInv
<1>1. Init => SentInv
    BY Zenon, SyncStart
<1>2. SentInv /\ [Next]_vars => SentInv'
    BY Zenon, SyncStep
<1> QED BY <1>1, <1>2, PTL DEF Spec

\* In the protocol too, peers with the same heads have the same changes: hasHeads, which
\* decides that nothing has to be asked for, compares heads only.
THEOREM SyncedHeadsIdentify == Spec => []SameHeadsSameChanges
<1>1. Spec => DagSpec
    BY Zenon, Implementation DEF ImplementsChangeDag
<1> QED BY <1>1, HeadsIdentify, PTL

\* In the protocol no peer loses a change, and every peer has the previous changes of all
\* it has.
THEOREM SyncedGrowing == Spec => NothingIsLost /\ []Complete
<1>1. Spec => DagSpec
    BY Zenon, Implementation DEF ImplementsChangeDag
<1> QED BY <1>1, Growing, AlwaysComplete, PTL
-----------------------------------------------------------------------------
(* The batches of an answer *)

\* What p says it has when it asks q, p has.
AskInv ==
    \A p, q \in Peers :
        /\ \A hs \in queued[p][q] \cup serving[p][q].ret : hs \subseteq have[p]
        /\ calls[p][q].heads \subseteq have[p]

\* The batch b takes a peer that has H from the tree S to the tree T.
Portion(b, S, T, H) ==
    /\ Closed(T)
    /\ b.heads = HeadsOf(T \ S)
    /\ b.changes \subseteq T
    /\ T \ S \subseteq H \cup b.changes

\* The batches that p has yet to read take it, one after the other, from a tree
\* T[0] that it has to the trees T[1], T[2] and so on.
Fits(p, bs) ==
    /\ Len(bs) \in Nat
    /\ \E T \in [0..Len(bs) -> SUBSET Made] :
        /\ T[0] \subseteq have[p]
        /\ \A i \in 1..Len(bs) : Portion(bs[i], T[i - 1], T[i], have[p])

ReplyInv ==
    /\ AskInv
    /\ \A p, q \in Peers :
         /\ Fits(p, calls[p][q].batches)
         /\ calls[p][q].batches # <<>> => calls[p][q].state = "open"

\* A step keeps what peers have and what changes come after.
LEMMA StepKeeps ==
    ASSUME DagInv, [DagNext]_dagVars
    PROVE  /\ \A p \in Peers : have[p] \subseteq have'[p]
           /\ \A c \in Made : prev'[c] = prev[c]
           /\ Made \subseteq Made'
<1>1. ASSUME NEW p \in Peers, NEW c \in Changes, Make(p, c)
      PROVE  /\ \A r \in Peers : have[r] \subseteq have'[r]
             /\ \A x \in Made : prev'[x] = prev[x]
             /\ Made \subseteq Made'
    BY Zenon, <1>1 DEF Make, Made, DagInv, DagTypeOK
<1>2. ASSUME NEW p \in Peers, NEW q \in Peers, Get(p, q)
      PROVE  \A r \in Peers : have[r] \subseteq have'[r] /\ prev' = prev
    BY Zenon, <1>2 DEF Get, DagInv, DagTypeOK
<1>3. CASE \E p, q \in Peers : Get(p, q)
    BY Zenon, <1>2, <1>3 DEF Made, Get
<1>4. CASE UNCHANGED dagVars
    BY Zenon, <1>4 DEF dagVars, Made
<1> QED BY <1>1, <1>3, <1>4, Zenon DEF DagNext

\* So a tree that was closed still is, and any part of it has the same heads,
LEMMA ClosedKept ==
    ASSUME DagInv, [DagNext]_dagVars, NEW S \in SUBSET Made
    PROVE  /\ S \in SUBSET Made' /\ HeadsOf(S)' = HeadsOf(S)
           /\ Closed(S) => Closed(S)'
<1>1. \A c \in S : prev'[c] = prev[c]
    BY Zenon, StepKeeps
<1>2. S \in SUBSET Made'
    BY Zenon, StepKeeps
<1>3. HeadsOf(S)' = HeadsOf(S)
    BY Zenon, <1>1 DEF HeadsOf
<1>4. Closed(S) => Closed(S)'
    BY Zenon, <1>1 DEF Closed
<1> QED BY Zenon, <1>2, <1>3, <1>4

\* a batch takes the peer as far as before,
LEMMA PortionKept ==
    ASSUME DagInv, [DagNext]_dagVars, NEW p \in Peers, NEW b,
           NEW S \in SUBSET Made, NEW T \in SUBSET Made, Portion(b, S, T, have[p])
    PROVE  Portion(b, S, T, have[p])'
<1>1. have[p] \subseteq have'[p]
    BY Zenon, StepKeeps
<1>2. Closed(T)'
    BY Zenon, ClosedKept DEF Portion
<1> DEFINE D == T \ S
<1>3. D \in SUBSET Made
    OBVIOUS
<1>4. HeadsOf(D)' = HeadsOf(D)
    <2> HIDE DEF D
    <2> QED BY <1>3, ClosedKept, Zenon
<1> QED BY <1>1, <1>2, <1>4, Zenon DEF Portion

\* and what is left of an answer fits what the peer has by then.
LEMMA FitsKept ==
    ASSUME DagInv, [DagNext]_dagVars, NEW p \in Peers, NEW bs, Fits(p, bs)
    PROVE  Fits(p, bs)'
<1>1. have[p] \subseteq have'[p] /\ Made \subseteq Made'
    BY Zenon, StepKeeps
<1>2. PICK T \in [0..Len(bs) -> SUBSET Made] :
        /\ T[0] \subseteq have[p]
        /\ \A i \in 1..Len(bs) : Portion(bs[i], T[i - 1], T[i], have[p])
    BY Zenon DEF Fits
<1>n. Len(bs) \in Nat
    BY Zenon DEF Fits
<1>3. T \in [0..Len(bs) -> SUBSET Made'] /\ T[0] \subseteq have'[p]
    BY Zenon, <1>1, <1>2
<1>4. ASSUME NEW i \in 1..Len(bs) PROVE Portion(bs[i], T[i - 1], T[i], have[p])'
    <2>1. i \in 0..Len(bs) /\ i - 1 \in 0..Len(bs)
        BY <1>4, <1>n
    <2> DEFINE b == bs[i]
               S == T[i - 1]
               U == T[i]
    <2>2. S \in SUBSET Made /\ U \in SUBSET Made
        BY Zenon, <1>2, <2>1
    <2>3. Portion(b, S, U, have[p])
        BY Zenon, <1>2
    <2> HIDE DEF b, S, U
    <2>4. Portion(b, S, U, have[p])'
        BY <2>2, <2>3, PortionKept, Zenon
    <2> QED BY Zenon, <2>4 DEF b, S, U
<1> QED BY <1>3, <1>4, <1>n, Zenon DEF Fits

\* When all batches were read, nothing is left to fit.
LEMMA NothingFits ==
    ASSUME NEW p \in Peers
    PROVE  Fits(p, <<>>) /\ Fits(p, <<>>)'
<1>1. PICK T : T = [i \in 0..0 |-> {}]
    BY Zenon
<1>2. Len(<<>>) = 0 /\ 1..0 = {} /\ 0 \in 0..0
    OBVIOUS
<1>3. T \in [0..0 -> SUBSET Made] /\ T \in [0..0 -> SUBSET Made'] /\ T[0] = {}
    BY Zenon, <1>1, <1>2
<1> QED BY <1>2, <1>3, Zenon DEF Fits

\* What comes before changes that p has, p has: an answer fits the peer that
\* asked, however much it got since it asked.
LEMMA AnswersFit ==
    ASSUME SentInv, NEW p \in Peers, NEW q \in Peers, NEW hs, hs \subseteq have[p],
           NEW a \in Answers(q, hs)
    PROVE  Fits(p, a)
<1> DEFINE S == have[q]
           A == S \ Past(S, hs \cap S)
<1>1. Closed(S) /\ Closed(have[p]) /\ S \in SUBSET Made
    BY Zenon DEF SentInv, DagInv, Complete, DagTypeOK
<1>2. Past(S, hs \cap S) \subseteq have[p]
    <2>1. Closed(S \cap have[p]) /\ S \cap have[p] \in SUBSET S /\ hs \cap S \subseteq S \cap have[p]
        BY Zenon, <1>1 DEF Closed
    <2> HIDE DEF S
    <2> QED BY Zenon, <2>1 DEF Past
<1>c. IsCut(a, S, A)
    BY Zenon, AnswersCut
<1>a. \A B \in SUBSET S : B \subseteq have[p] \cup (A \cap B)
    BY Zenon, <1>2
<1> HIDE DEF S, A
<1>3. PICK n \in Nat : \E T \in [0..n -> SUBSET S] :
                 /\ T[0] = {}
                 /\ \A i \in 1..n : Closed(T[i])
                 /\ a = [i \in 1..n |-> Batch(A, T[i] \ T[i - 1])]
    BY <1>c, Zenon DEF IsCut
<1>4. PICK T \in [0..n -> SUBSET S] :
                 /\ T[0] = {}
                 /\ \A i \in 1..n : Closed(T[i])
                 /\ a = [i \in 1..n |-> Batch(A, T[i] \ T[i - 1])]
    BY <1>3, Zenon
<1>5. Len(a) = n /\ \A i \in 1..n : a[i] = Batch(A, T[i] \ T[i - 1])
    BY <1>4
<1>6. ASSUME NEW i \in 1..n PROVE Portion(a[i], T[i - 1], T[i], have[p])
    <2>1. i \in 0..n
        BY <1>6
    <2>2. T[i] \in SUBSET S /\ Closed(T[i])
        BY Zenon, <1>4, <2>1
    <2> DEFINE B == T[i] \ T[i - 1]
    <2>3. B \in SUBSET S /\ B \subseteq T[i]
        BY Zenon, <2>2
    <2>4. B \subseteq have[p] \cup (A \cap B)
        <3> HIDE DEF B
        <3> QED BY Zenon, <1>a, <2>3
    <2>5. a[i] = Batch(A, B)
        BY <1>5, Zenon
    <2> HIDE DEF B
    <2>6. a[i].heads = HeadsOf(B) /\ a[i].changes = A \cap B
        BY <2>5 DEF Batch
    <2> QED BY <2>2, <2>3, <2>4, <2>6, Zenon DEF Portion, B
<1>7. T \in [0..n -> SUBSET Made] /\ T[0] \subseteq have[p]
    BY Zenon, <1>1, <1>4
<1> QED BY <1>5, <1>6, <1>7, Zenon DEF Fits

\* The peer has the tree T once it has added the changes of a batch that takes it
\* there.
LEMMA BatchAdded ==
    ASSUME Ranked, NEW p \in Peers, have[p] \in SUBSET Made, Closed(have[p]),
           NEW b, NEW S \in SUBSET Made, NEW T \in SUBSET Made, S \subseteq have[p],
           Portion(b, S, T, have[p])
    PROVE  T \subseteq have[p] \cup Added(p, b.heads, b.changes)
<1> DEFINE B == b.changes \ have[p]
           D == T \ S
<1>1. CASE hasHeads(p, b.heads)
    <2>1. D \in SUBSET Made /\ HeadsOf(D) \subseteq have[p]
        BY Zenon, <1>1 DEF hasHeads, Portion
    <2> HIDE DEF D
    <2>2. D \subseteq have[p]
        BY Zenon, <2>1, HeadsDetermine
    <2> QED BY Zenon, <2>2 DEF D
<1>2. CASE ~hasHeads(p, b.heads)
    <2>1. Added(p, b.heads, b.changes) = Attachable(p, b.changes)
        BY Zenon, <1>2 DEF Added
    <2>2. have[p] \cup B = have[p] \cup T
        BY Zenon DEF Portion
    <2>3. Closed(have[p] \cup B)
        BY Zenon, <2>2 DEF Portion, Closed
    <2>4. B \subseteq Attachable(p, b.changes)
        BY <2>3, Zenon DEF Attachable
    <2> QED BY Zenon, <2>1, <2>2, <2>4
<1> QED BY Zenon, <1>1, <1>2

\* A batch that is read is added completely.
Attached ==
    \A p, q \in Peers :
        /\ calls[p][q].batches # <<>>
        /\ calls'[p][q].batches = Tail(calls[p][q].batches)
        /\ calls'[p][q].state = "open"
        => Head(calls[p][q].batches).heads \subseteq have'[p]

\* No call reads a batch, and one that changes has the heads its peer has.
CallKept(p, q) ==
    \/ calls'[p][q] = calls[p][q]
    \/ calls'[p][q].batches = <<>> /\ calls'[p][q].heads \subseteq have[p] /\ calls'[p][q].state # "open"
    \/ /\ calls[p][q].batches = <<>>
       /\ calls'[p][q].heads \subseteq have[p] /\ calls'[p][q].state = "open"
       /\ Fits(p, calls'[p][q].batches)

\* A step keeps the invariant when new requests are made with heads that the
\* asking peer has, and the answers to read fit.
LEMMA ReplyFrame ==
    ASSUME SentInv, ReplyInv, [DagNext]_dagVars,
           \A p, q \in Peers :
               \A hs \in queued'[p][q] \cup serving'[p][q].ret :
                   hs \in queued[p][q] \cup serving[p][q].ret \/ hs \subseteq have'[p],
           \A p, q \in Peers :
               \/ calls'[p][q] = calls[p][q]
               \/ /\ calls'[p][q].heads \subseteq have'[p]
                  /\ Fits(p, calls[p][q].batches)'
                  /\ calls'[p][q].batches # <<>> => calls'[p][q].state = "open"
    PROVE  ReplyInv'
<1>1. DagInv /\ \A p \in Peers : have[p] \subseteq have'[p]
    BY Zenon, StepKeeps DEF SentInv
<1>2. AskInv'
    <2> SUFFICES ASSUME NEW p \in Peers, NEW q \in Peers
                 PROVE  /\ \A hs \in queued'[p][q] \cup serving'[p][q].ret : hs \subseteq have'[p]
                        /\ calls'[p][q].heads \subseteq have'[p]
        BY Zenon DEF AskInv
    <2>1. \A hs \in queued[p][q] \cup serving[p][q].ret : hs \subseteq have'[p]
        BY Zenon, <1>1 DEF ReplyInv, AskInv
    <2>2. \A hs \in queued'[p][q] \cup serving'[p][q].ret : hs \subseteq have'[p]
        BY <2>1, Zenon
    <2>3. calls'[p][q].heads \subseteq have'[p]
        BY Zenon, <1>1 DEF ReplyInv, AskInv
    <2> QED BY Zenon, <2>2, <2>3
<1>3. ASSUME NEW p \in Peers, NEW q \in Peers
      PROVE  /\ Fits(p, calls[p][q].batches)'
             /\ calls'[p][q].batches # <<>> => calls'[p][q].state = "open"
    <2>1. CASE calls'[p][q] = calls[p][q]
        <3>1. Fits(p, calls[p][q].batches)
            BY Zenon DEF ReplyInv
        <3>2. PICK s : s = calls[p][q].batches
            OBVIOUS
        <3>3. Fits(p, s)
            BY Zenon, <3>1, <3>2
        <3>4. Fits(p, s)'
            BY Zenon, <1>1, <3>3, FitsKept
        <3>5. s = calls'[p][q].batches
            BY <2>1, <3>2, Zenon
        <3>6. Fits(p, calls[p][q].batches)'
            BY <3>4, <3>5, Zenon DEF Fits
        <3> QED BY Zenon, <2>1, <3>6 DEF ReplyInv
    <2> QED BY Zenon, <2>1
<1> QED BY Zenon, <1>2, <1>3 DEF ReplyInv

\* What is left of a sequence when the first element is taken off.
LEMMA TailOf ==
    ASSUME NEW T, NEW s \in Seq(T), s # <<>>
    PROVE  /\ Head(s) = s[1] /\ Tail(s) # s
           /\ Len(s) \in Nat \ {0} /\ Len(Tail(s)) = Len(s) - 1
           /\ \A i \in 1..(Len(s) - 1) : Tail(s)[i] = s[i + 1]
<1>1. Len(Tail(s)) = Len(s) - 1 /\ Len(s) \in Nat \ {0}
    OBVIOUS
<1>2. \A i \in 1..(Len(s) - 1) : Tail(s)[i] = s[i + 1]
    OBVIOUS
<1>3. Tail(s) # s
    <2> SUFFICES ASSUME Tail(s) = s PROVE FALSE
        OBVIOUS
    <2>1. PICK n \in Nat : n = Len(s) /\ n = n - 1
        BY <1>1, Zenon
    <2> QED BY <2>1
<1>4. Head(s) = s[1]
    OBVIOUS
<1> QED BY Zenon, <1>1, <1>2, <1>3, <1>4

\* A step that reads no batch.
LEMMA NoRead ==
    ASSUME SentInv, ReplyInv, [DagNext]_dagVars,
           \A p, q \in Peers :
               \A hs \in queued'[p][q] \cup serving'[p][q].ret :
                   hs \in queued[p][q] \cup serving[p][q].ret \/ hs \subseteq have'[p],
           \A p, q \in Peers : CallKept(p, q)
    PROVE  ReplyInv' /\ Attached
<1>1. DagInv /\ \A p \in Peers : have[p] \subseteq have'[p]
    BY StepKeeps, Zenon DEF SentInv
<1>2. ASSUME NEW p \in Peers, NEW q \in Peers
      PROVE  \/ calls'[p][q] = calls[p][q]
             \/ /\ calls'[p][q].heads \subseteq have'[p]
                /\ Fits(p, calls[p][q].batches)'
                /\ calls'[p][q].batches # <<>> => calls'[p][q].state = "open"
    <2>1. CASE calls'[p][q].batches = <<>> /\ calls'[p][q].heads \subseteq have[p]
        BY <1>1, <2>1, NothingFits, Zenon DEF Fits
    <2>2. CASE calls'[p][q].heads \subseteq have[p] /\ calls'[p][q].state = "open"
               /\ Fits(p, calls'[p][q].batches)
        <3>1. PICK s : s = calls'[p][q].batches
            OBVIOUS
        <3>2. Fits(p, s)
            BY Zenon, <2>2, <3>1
        <3>3. Fits(p, s)'
            BY <1>1, <3>2, FitsKept, Zenon
        <3>4. Fits(p, calls[p][q].batches)'
            BY <3>1, <3>3, Zenon DEF Fits
        <3> QED BY Zenon, <1>1, <2>2, <3>4
    <2> QED BY Zenon, <2>1, <2>2 DEF CallKept
<1>3. ReplyInv'
    BY <1>2, ReplyFrame, Zenon
<1>4. Attached
    <2> SUFFICES ASSUME NEW p \in Peers, NEW q \in Peers, calls[p][q].batches # <<>>,
                        calls'[p][q].batches = Tail(calls[p][q].batches),
                        calls'[p][q].state = "open"
                 PROVE  FALSE
        BY Zenon DEF Attached
    <2>1. calls'[p][q] = calls[p][q]
        BY Zenon DEF CallKept
    <2>2. calls[p][q].batches \in Seq(Msg(Changes))
        BY DEF SentInv, MsgTypeOK, Call
    <2> QED BY <2>1, <2>2, TailOf, Zenon
<1> QED BY Zenon, <1>3, <1>4

\* Reading a batch adds it completely, and then the next one fits.
LEMMA ReadStep ==
    ASSUME SentInv, ReplyInv, [DagNext]_dagVars, NEW p \in Peers, NEW q \in Peers,
           HandleResponse(p, q)
    PROVE  ReplyInv' /\ Attached
<1> DEFINE bs == calls[p][q].batches
           b == Head(bs)
<1>1. /\ UNCHANGED <<prev, queued, serving>> /\ bs # <<>>
      /\ calls' = [calls EXCEPT ![p][q].batches = Tail(@)]
    BY Zenon DEF HandleResponse
<1>2. /\ calls \in [Peers -> [Peers -> Call]] /\ bs \in Seq(Msg(Changes))
      /\ Ranked /\ have \in [Peers -> SUBSET Made] /\ Closed(have[p])
    BY Zenon DEF SentInv, DagInv, DagTypeOK, Complete, MsgTypeOK, Call
<1>3. /\ \A r, t \in Peers : ~(r = p /\ t = q) => calls'[r][t] = calls[r][t]
      /\ calls'[p][q].batches = Tail(bs) /\ calls'[p][q].heads = calls[p][q].heads
      /\ calls'[p][q].state = calls[p][q].state
    BY <1>1, <1>2 DEF Call
<1>4. /\ b = bs[1]
      /\ Len(bs) \in Nat \ {0} /\ Len(Tail(bs)) = Len(bs) - 1
      /\ \A i \in 1..(Len(bs) - 1) : Tail(bs)[i] = bs[i + 1]
    BY <1>1, <1>2, TailOf, Zenon
<1>5. PICK T \in [0..Len(bs) -> SUBSET Made] :
        /\ T[0] \subseteq have[p]
        /\ \A i \in 1..Len(bs) : Portion(bs[i], T[i - 1], T[i], have[p])
    BY Zenon DEF ReplyInv, Fits
<1>n. 1 \in 1..Len(bs) /\ 0 \in 0..Len(bs) /\ 1 \in 0..Len(bs) /\ 1 - 1 = 0
    <2> HIDE DEF bs
    <2> QED BY <1>4
<1>6. T[1] \subseteq have'[p] /\ b.heads \subseteq T[1]
    <2>1. PICK S \in SUBSET Made, U \in SUBSET Made : S = T[0] /\ U = T[1]
        BY Zenon, <1>5, <1>n
    <2>2. Portion(b, S, U, have[p]) /\ S \subseteq have[p]
        <3>1. Portion(bs[1], T[1 - 1], T[1], have[p])
            BY <1>5, <1>n, Zenon
        <3> QED BY Zenon, <1>4, <1>5, <1>n, <2>1, <3>1
    <2>3. b.heads \subseteq U
        <3>1. HeadsOf(U \ S) \subseteq U \ S
            BY Zenon, HeadsOfType
        <3> QED BY Zenon, <2>2, <3>1 DEF Portion
    <2>4. CASE b.changes = {}
        <3>1. U \subseteq have[p] /\ have' = have
            BY <2>2, <2>4, Zenon DEF Portion, HandleResponse
        <3> QED BY Zenon, <2>1, <2>3, <3>1
    <2>5. CASE b.changes # {}
        <3>1. AddRawChangesFromPeer(updates, p, q, b.heads, b.changes)
            BY Zenon, <2>5 DEF HandleResponse
        <3>2. have'[p] = have[p] \cup Added(p, b.heads, b.changes)
            BY <3>1, <1>2, Zenon DEF AddRawChangesFromPeer
        <3> HIDE DEF b
        <3>3. have[p] \in SUBSET Made
            BY Zenon, <1>2
        <3>4. U \subseteq have'[p]
            BY <1>2, <2>2, <3>2, <3>3, BatchAdded, Zenon
        <3> QED BY Zenon, <2>1, <2>3, <3>4
    <2> QED BY Zenon, <2>4, <2>5
<1>7. have[p] \subseteq have'[p] /\ DagInv
    BY Zenon, StepKeeps DEF SentInv
<1>8. Fits(p, calls[p][q].batches)'
    <2>1. PICK s : s = Tail(bs)
        BY Zenon
    <2>2. PICK n \in Nat : n = Len(s) /\ n = Len(bs) - 1
        <3>1. PICK k \in Nat \ {0} : k = Len(bs) /\ Len(s) = k - 1
            BY <1>4, <2>1, Zenon
        <3>2. k - 1 \in Nat
            BY <3>1
        <3> QED BY <3>1, <3>2, Zenon
    <2>3. PICK U : U = [i \in 0..n |-> T[i + 1]]
        BY Zenon
    <2>4. \A i \in 0..n : i + 1 \in 0..Len(bs) /\ i + 1 \in 1..Len(bs)
        <3> HIDE DEF bs
        <3> QED BY <1>4, <2>2
    <2>5. U \in [0..n -> SUBSET Made'] /\ U[0] = T[1]
        <3>1. \A i \in 0..n : T[i + 1] \in SUBSET Made
            BY Zenon, <1>5, <2>4
        <3>2. Made \subseteq Made'
            BY Zenon, <1>7, StepKeeps
        <3>3. 0 \in 0..n /\ 0 + 1 = 1
            BY <2>2
        <3> QED BY Zenon, <2>3, <3>1, <3>2, <3>3
    <2>6. ASSUME NEW i \in 1..n PROVE Portion(s[i], U[i - 1], U[i], have[p])'
        <3>1. i \in 0..n /\ i - 1 \in 0..n /\ i - 1 + 1 = i /\ i + 1 - 1 = i /\ i \in 1..(Len(bs) - 1)
            BY <2>2, <2>6
        <3>2. U[i - 1] = T[i] /\ U[i] = T[i + 1] /\ s[i] = bs[i + 1]
            BY <1>4, <2>1, <2>3, <3>1
        <3>3. i + 1 \in 1..Len(bs)
            BY Zenon, <2>4, <3>1
        <3>4. PICK j \in 1..Len(bs) : j = i + 1 /\ j - 1 = i
            BY <3>1, <3>3
        <3>5. Portion(bs[j], T[j - 1], T[j], have[p])
            BY Zenon, <1>5, <3>4
        <3>6. i \in 0..Len(bs) /\ i + 1 \in 0..Len(bs)
            <4> HIDE DEF bs
            <4> QED BY <1>4, <3>1
        <3> DEFINE d == s[i]
                   V == U[i - 1]
                   W == U[i]
        <3>7. V \in SUBSET Made /\ W \in SUBSET Made
            BY Zenon, <1>5, <3>2, <3>6
        <3>8. Portion(d, V, W, have[p])
            BY Zenon, <3>2, <3>4, <3>5
        <3> HIDE DEF d, V, W
        <3>9. Portion(d, V, W, have[p])'
            BY <1>7, <3>7, <3>8, PortionKept, Zenon
        <3> QED BY Zenon, <3>9 DEF d, V, W
    <2>7. Fits(p, s)'
        <3>1. U[0] \subseteq have'[p]
            BY Zenon, <1>6, <2>5
        <3> QED BY <2>2, <2>5, <2>6, <3>1, Zenon DEF Fits
    <2>8. s = calls'[p][q].batches
        BY Zenon, <1>3, <2>1
    <2> QED BY <2>7, <2>8, Zenon DEF Fits
<1>9. calls'[p][q].heads \subseteq have'[p] /\ calls'[p][q].state = "open"
    BY Zenon, <1>1, <1>3, <1>7 DEF ReplyInv, AskInv
<1>10. ReplyInv'
    <2>1. \A r, t \in Peers :
               \/ calls'[r][t] = calls[r][t]
               \/ /\ calls'[r][t].heads \subseteq have'[r]
                  /\ Fits(r, calls[r][t].batches)'
                  /\ calls'[r][t].batches # <<>> => calls'[r][t].state = "open"
        BY Zenon, <1>3, <1>8, <1>9
    <2>2. \A r, t \in Peers :
               \A hs \in queued'[r][t] \cup serving'[r][t].ret :
                   hs \in queued[r][t] \cup serving[r][t].ret \/ hs \subseteq have'[r]
        BY Zenon, <1>1
    <2> QED BY <2>1, <2>2, ReplyFrame, Zenon
<1>11. Attached
    <2> SUFFICES ASSUME NEW r \in Peers, NEW t \in Peers, calls[r][t].batches # <<>>,
                        calls'[r][t].batches = Tail(calls[r][t].batches)
                 PROVE  Head(calls[r][t].batches).heads \subseteq have'[r]
        BY Zenon DEF Attached
    <2>1. calls[r][t].batches \in Seq(Msg(Changes))
        BY Zenon DEF SentInv, MsgTypeOK, Call
    <2>2. calls'[r][t] # calls[r][t]
        BY <2>1, TailOf, Zenon
    <2>3. r = p /\ t = q
        BY <1>3, <2>2, Zenon
    <2> QED BY Zenon, <1>6, <2>3
<1> QED BY Zenon, <1>10, <1>11

\* Every step keeps the invariant and adds the batch it reads completely.
LEMMA ReplyStep ==
    ASSUME SentInv, ReplyInv, [Next]_vars
    PROVE  ReplyInv' /\ Attached
<1>1. [DagNext]_dagVars
    BY Zenon, SyncStep
<1>2. /\ calls \in [Peers -> [Peers -> Call]]
      /\ queued \in [Peers -> [Peers -> SUBSET SUBSET Changes]]
      /\ serving \in [Peers -> [Peers -> Serving]]
    BY Zenon DEF SentInv, MsgTypeOK
<1>3. \A p \in Peers : HeadsOf(have[p]) \subseteq have[p] /\ have[p] \subseteq have'[p]
    BY Zenon, <1>1, StepKeeps, HeadsOfType DEF SentInv
<1>4. NoCall.batches = <<>> /\ NoCall.heads = {} /\ NoCall.state # "open" /\ NoCall \in Call
    BY DEF NoCall, Call
<1> DEFINE Asks == \A p, q \in Peers :
                      \A hs \in queued'[p][q] \cup serving'[p][q].ret :
                          hs \in queued[p][q] \cup serving[p][q].ret \/ hs \subseteq have'[p]
           Kept == \A p, q \in Peers : CallKept(p, q)
<1>5. ASSUME UNCHANGED calls PROVE Kept
    BY Zenon, <1>5 DEF CallKept
<1>6. ASSUME NEW p \in Peers, NEW q \in Peers, calls' = [calls EXCEPT ![p][q] = NoCall]
      PROVE  Kept
    <2>1. \A r, t \in Peers : calls'[r][t] = calls[r][t] \/ calls'[r][t] = NoCall
        BY <1>2, <1>4, <1>6, TableUpdate
    <2> QED BY Zenon, <1>4, <2>1 DEF CallKept
<1>7. ASSUME UNCHANGED serving, UNCHANGED queued PROVE Asks
    BY Zenon, <1>7
<1>8. ASSUME UNCHANGED serving, NEW p \in Peers, NEW q \in Peers, NEW v \in SUBSET SUBSET Changes,
             queued' = [queued EXCEPT ![p][q] = v],
             \A hs \in v : hs \subseteq have'[p] \/ hs \in serving[p][q].ret
      PROVE  Asks
    <2>1. \A r, t \in Peers : queued'[r][t] = queued[r][t] \/ (r = p /\ t = q /\ queued'[r][t] = v)
        BY Zenon, <1>2, <1>8
    <2> QED BY Zenon, <1>8, <2>1
<1>q. ASSUME Asks, Kept PROVE ReplyInv' /\ Attached
    BY <1>1, <1>q, NoRead, Zenon
<1> HIDE DEF Asks, Kept
<1>9. CASE UNCHANGED vars
    BY Zenon, <1>5, <1>7, <1>9, <1>q DEF vars
<1>10. ASSUME NEW p \in Peers, NEW c \in Changes, AddContent(p, c) PROVE ReplyInv' /\ Attached
    BY Zenon, <1>5, <1>7, <1>10, <1>q DEF AddContent
<1>11. ASSUME NEW p \in Peers, NEW q \in Peers, SyncWithPeer(p, q) PROVE ReplyInv' /\ Attached
    <2> DEFINE v == {HeadsOf(have[p])}
    <2>1. v \in SUBSET SUBSET Changes /\ \A hs \in v : hs \subseteq have'[p]
        BY Zenon, <1>3, HeadsOfPeer DEF SentInv, DagInv
    <2>2. queued' = [queued EXCEPT ![p][q] = v] /\ UNCHANGED <<calls, serving>>
        BY Zenon, <1>11 DEF SyncWithPeer, QueueRequest
    <2> HIDE DEF v
    <2>3. Asks
        BY <1>8, <2>1, <2>2, Zenon
    <2> QED BY Zenon, <1>5, <1>q, <2>2, <2>3
<1>12. ASSUME NEW p \in Peers, NEW q \in Peers, HandleHeadUpdate(p, q) PROVE ReplyInv' /\ Attached
    <2> DEFINE v == {HeadsOf(have'[p])}
    <2>1. UNCHANGED <<calls, serving>> /\ (queued' = queued \/ queued' = [queued EXCEPT ![p][q] = v])
        BY Zenon, <1>12 DEF HandleHeadUpdate, QueueRequest
    <2>2. have'[p] \in SUBSET Changes
        BY Zenon, SyncStep DEF SentInv, DagInv, DagTypeOK
    <2>3. v \in SUBSET SUBSET Changes /\ \A hs \in v : hs \subseteq have'[p]
        BY Zenon, <2>2, HeadsOfType
    <2> HIDE DEF v
    <2>4. Asks
        BY <1>7, <1>8, <2>1, <2>3, Zenon
    <2> QED BY Zenon, <1>5, <1>q, <2>1, <2>4
<1>13. ASSUME NEW p \in Peers, NEW q \in Peers, DropRequest(p, q) \/ LoadTree(p, q)
       PROVE  ReplyInv' /\ Attached
    <2>1. queued' = [queued EXCEPT ![p][q] = {}] /\ UNCHANGED <<calls, serving>>
        BY <1>13, Zenon DEF DropRequest, LoadTree
    <2>2. Asks
        BY Zenon, <1>2, <2>1 DEF Asks
    <2> QED BY Zenon, <1>5, <1>q, <2>1, <2>2
<1>14. ASSUME NEW p \in Peers, NEW q \in Peers, ApplyRequest(p, q) PROVE ReplyInv' /\ Attached
    <2>1. queued' = [queued EXCEPT ![p][q] = {}] /\ UNCHANGED serving
        BY Zenon, <1>14 DEF ApplyRequest
    <2>2. PICK hs \in queued[p][q] :
             calls' = [calls EXCEPT ![p][q] = [state |-> "sent", heads |-> hs, batches |-> <<>>]]
        BY <1>14, Zenon DEF ApplyRequest
    <2>3. hs \subseteq have[p]
        BY Zenon, <2>2 DEF ReplyInv, AskInv
    <2>4. Kept
        BY Zenon, <1>2, <2>2, <2>3 DEF Kept, CallKept
    <2>5. Asks
        BY Zenon, <1>2, <2>1 DEF Asks
    <2> QED BY Zenon, <1>q, <2>4, <2>5
<1>15. ASSUME NEW p \in Peers, NEW q \in Peers, RefuseStreamRequest(q, p) PROVE ReplyInv' /\ Attached
    <2> DEFINE v == {{}}
    <2>1. /\ calls' = [calls EXCEPT ![p][q] = NoCall] /\ UNCHANGED serving
          /\ queued' = queued \/ queued' = [queued EXCEPT ![q][p] = v]
        BY Zenon, <1>15 DEF RefuseStreamRequest, QueueRequest
    <2>2. v \in SUBSET SUBSET Changes /\ \A hs \in v : hs \subseteq have'[q]
        OBVIOUS
    <2> HIDE DEF v
    <2>3. Asks
        BY <1>7, <1>8, <2>1, <2>2, Zenon
    <2> QED BY <1>6, <1>q, <2>1, <2>3, Zenon
<1>16. ASSUME NEW p \in Peers, NEW q \in Peers, HandleStreamRequest(q, p) PROVE ReplyInv' /\ Attached
    <2> DEFINE hs == calls[p][q].heads
               cur == HeadsOf(have[q])
               none == <<[heads |-> cur, changes |-> {}]>>
    <2>1. PICK a \in IF cur \subseteq hs THEN {none} ELSE Answers(q, hs) :
             calls' = [calls EXCEPT ![p][q] = [state |-> "open", heads |-> {}, batches |-> a]]
        BY <1>16, Zenon DEF HandleStreamRequest
    <2>2. hs \subseteq have[p] /\ calls[p][q].batches = <<>>
        BY Zenon, <1>16 DEF ReplyInv, AskInv, HandleStreamRequest
    <2>3. Fits(p, a)
        <3>1. CASE cur \subseteq hs
            <4>1. Len(a) = 1 /\ a[1] = [heads |-> cur, changes |-> {}]
                BY <2>1, <3>1
            <4>2. /\ have[p] \in SUBSET Made /\ Closed(have[p]) /\ Ranked
                  /\ have[q] \in SUBSET Made /\ Closed(have[q])
                BY Zenon DEF SentInv, DagInv, DagTypeOK, Complete
            <4>3. have[q] \subseteq have[p]
                BY <2>2, <3>1, <4>2, HeadsDetermine
            <4>4. PICK T : T = [i \in 0..1 |-> IF i = 0 THEN {} ELSE have[q]]
                BY Zenon
            <4>5. T \in [0..1 -> SUBSET Made] /\ T[0] = {} /\ T[1] = have[q]
                BY <4>2, <4>4
            <4>6. have[q] \ {} = have[q]
                OBVIOUS
            <4>7. PICK b : b = a[1] /\ b.heads = HeadsOf(have[q]) /\ b.changes = {}
                BY <4>1
            <4>8. Portion(b, {}, have[q], have[p])
                BY Zenon, <4>2, <4>3, <4>6, <4>7 DEF Portion
            <4>9. Portion(a[1], T[0], T[1], have[p])
                BY Zenon, <4>5, <4>7, <4>8
            <4>10. ASSUME NEW i \in 1..1 PROVE Portion(a[i], T[i - 1], T[i], have[p])
                <5>1. i = 1 /\ i - 1 = 0
                    OBVIOUS
                <5> QED BY Zenon, <4>9, <5>1
            <4>11. T[0] \subseteq have[p] /\ 1 \in Nat
                BY <4>5
            <4> HIDE DEF none
            <4> QED BY <4>1, <4>5, <4>10, <4>11, Zenon DEF Fits
        <3>2. CASE ~(cur \subseteq hs)
            BY <2>1, <2>2, <3>2, AnswersFit, Zenon
        <3> QED BY Zenon, <3>1, <3>2
    <2>4. Kept
        BY <1>2, <2>1, <2>2, <2>3, Zenon DEF Kept, CallKept
    <2>5. /\ UNCHANGED queued
          /\ serving' = [serving EXCEPT ![q][p] =
                 [on |-> TRUE, ret |-> IF hs = cur \/ hs = {} THEN {} ELSE {cur},
                  empty |-> cur \subseteq hs]]
        BY <1>16, Zenon DEF HandleStreamRequest
    <2>6. Asks
        BY Zenon, <1>2, <1>3, <2>5 DEF Asks
    <2> QED BY Zenon, <1>q, <2>4, <2>6
<1>17. ASSUME NEW p \in Peers, NEW q \in Peers, FinishStreamRequest(q, p) PROVE ReplyInv' /\ Attached
    <2>1. /\ UNCHANGED calls
          /\ queued' = queued \/ queued' = [queued EXCEPT ![q][p] = serving[q][p].ret]
          /\ serving' = [serving EXCEPT ![q][p] = NotServing]
        BY <1>17, <1>2 DEF FinishStreamRequest
    <2>2. NotServing.ret = {}
        BY Zenon DEF NotServing
    <2>3. Asks
        BY <1>2, <2>1, <2>2 DEF Asks
    <2> QED BY <1>5, <1>q, <2>1, <2>3, Zenon
<1>18. ASSUME NEW p \in Peers, NEW q \in Peers, EndOfStream(p, q) \/ BreakStream(p, q)
       PROVE  ReplyInv' /\ Attached
    <2>1. calls' = [calls EXCEPT ![p][q] = NoCall] /\ UNCHANGED <<queued, serving>>
        BY Zenon, <1>18 DEF EndOfStream, BreakStream, Lose
    <2> QED BY <1>6, <1>7, <1>q, <2>1, Zenon
<1>19. ASSUME NEW p \in Peers, NEW q \in Peers, LoseUpdate(p, q) PROVE ReplyInv' /\ Attached
    BY Zenon, <1>5, <1>7, <1>19, <1>q DEF LoseUpdate, Lose
<1>20. ASSUME NEW p \in Peers, NEW q \in Peers, HandleResponse(p, q) PROVE ReplyInv' /\ Attached
    BY Zenon, <1>1, <1>20, ReadStep
<1> QED BY <1>9, <1>10, <1>11, <1>12, <1>13, <1>14, <1>15, <1>16, <1>17, <1>18, <1>19, <1>20,
           Zenon DEF Next

\* Every batch that SendRequest reads is added completely, for any peers, changes,
\* queues and losses: the answer was computed from heads the peer had when it
\* asked, and it has kept them since.
THEOREM AllBatchesAttach == Spec => BatchesAttach
<1>1. Init => ReplyInv
    <2>1. NoCall.batches = <<>> /\ NoCall.heads = {} /\ NotServing.ret = {}
        BY Zenon DEF NoCall, NotServing
    <2> QED BY <2>1, NothingFits DEF Init, ReplyInv, AskInv
<1>2. SentInv /\ ReplyInv /\ [Next]_vars => ReplyInv'
    BY Zenon, ReplyStep
<1>3. SentInv /\ ReplyInv /\ [Next]_vars => [Attached]_vars
    BY Zenon, ReplyStep
<1>4. Spec => [][Attached]_vars
    BY <1>1, <1>2, <1>3, SentIsHad, PTL DEF Spec
<1> QED BY Zenon, <1>4 DEF BatchesAttach, Attached
=============================================================================
