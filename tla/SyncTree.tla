------------------------------ MODULE SyncTree ------------------------------
(***************************************************************************)
(* How the peers of a space bring one object tree in sync (synctree.go,    *)
(* synchandler.go, sync.go, requestmanager.go, objectsync): head updates   *)
(* are broadcast and handled in order, one at a time; a peer that learns   *)
(* of heads it lacks queues a full sync request; the answer comes in       *)
(* batches, and the peer that answers asks back when the heads differ.     *)
(* Messages are lost when a queue is full or a stream breaks, requests     *)
(* when another one for the same tree is under way. The periodic head      *)
(* sync, which a peer runs with its responsible peers only, asks for       *)
(* whatever is still different.                                            *)
(*                                                                         *)
(* A tree is the set of its changes, as in ChangeDag, {} while a peer does *)
(* not have it; no change is a snapshot after the root (see ObjectTree).   *)
(***************************************************************************)
EXTENDS ChangeDag, Sequences, Naturals

CONSTANTS ResponsiblePeers,  \* ResponsiblePeers[p]: the peers p runs head syncs with
          QueueSize,         \* how many head updates wait between two peers
          MaxLoss            \* bound: how many messages and streams get lost

ASSUME SyncTreeAssumption ==
    /\ ResponsiblePeers \in [Peers -> SUBSET Peers]
    /\ QueueSize \in Nat \ {0}
    /\ MaxLoss \in Nat

VARIABLES updates,  \* updates[p][q]: the head updates from p that q has to handle
          queued,   \* queued[p][q]: the request to q in the action pool of p, if any
          calls,    \* calls[p][q]: the call from p that is under way at q
          serving,  \* serving[q][p]: the handler of q for a request from p
          lost      \* how many messages and streams were lost

vars == <<prev, have, updates, queued, calls, serving, lost>>

\* A request is the heads it was made with, and is kept in a set of at most one.
NoCall == [state |-> "idle", heads |-> {}, batches |-> <<>>]
NotServing == [on |-> FALSE, ret |-> {}, empty |-> FALSE]

Init ==
    /\ prev = [c \in {Root} |-> {}]
    /\ \E creator \in Peers : have = [p \in Peers |-> IF p = creator THEN {Root} ELSE {}]
    /\ updates = [p \in Peers |-> [q \in Peers |-> <<>>]]
    /\ queued = [p \in Peers |-> [q \in Peers |-> {}]]
    /\ calls = [p \in Peers |-> [q \in Peers |-> NoCall]]
    /\ serving = [p \in Peers |-> [q \in Peers |-> NotServing]]
    /\ lost = 0

-----------------------------------------------------------------------------
(* Sending *)

\* The queues u[p] after a broadcast of p with its new changes B; the peer they
\* came from gets the heads only, and a full queue takes nothing.
Broadcast(u, p, from, hs, B) ==
    [u EXCEPT ![p] = [q \in Peers |->
        IF q = p \/ Len(u[p][q]) = QueueSize THEN u[p][q]
        ELSE Append(u[p][q], [heads |-> hs, changes |-> IF q = from THEN {} ELSE B])]]

\* The action pool keeps one request for a tree and a peer, the latest.
QueueRequest(rq, p, q, hs) == [rq EXCEPT ![p][q] = {hs}]

-----------------------------------------------------------------------------
(* synctree.go *)

\* AddContent: a change on top of the heads, broadcast to all.
AddContent(p, c) ==
    /\ Make(p, c)
    /\ updates' = Broadcast(updates, p, p, {c}, {c})
    /\ UNCHANGED <<queued, calls, serving, lost>>

hasHeads(p, hs) == hs \subseteq have[p]

\* Faulty variant: changes are taken before those they come after.
Attachable_All(p, B) == B \ have[p]

\* Those of the changes B that can be attached to what p has.
Attachable(p, B) ==
    UNION {S \in SUBSET (B \ have[p]) : Closed(have[p] \cup S)}

\* What AddRawChangesFromPeer adds for changes B that came with the heads hs.
Added(p, hs, B) == IF hasHeads(p, hs) THEN {} ELSE Attachable(p, B)

\* The changes are added and, if there are any, broadcast with the new heads.
AddRawChangesFromPeer(u, p, from, hs, B) ==
    LET S == have[p] \cup Added(p, hs, B) IN
    /\ have' = [have EXCEPT ![p] = S]
    /\ updates' = IF S = have[p] THEN u ELSE Broadcast(u, p, from, HeadsOf(S), S \ have[p])

\* Faulty variant: q is not asked for trees that only p has.
SyncWithPeer_Existing(p, q) ==
    /\ q \in ResponsiblePeers[p]
    /\ HeadsOf(have[p]) # HeadsOf(have[q])
    /\ have[q] # {}
    /\ queued' = QueueRequest(queued, p, q, HeadsOf(have[p]))
    /\ UNCHANGED <<prev, have, updates, calls, serving, lost>>

\* SyncWithPeer, which the tree syncer calls for a tree that the head sync found
\* different at q, or missing there; it loads the tree from q when p does not
\* have it.
SyncWithPeer(p, q) ==
    /\ q \in ResponsiblePeers[p]
    /\ HeadsOf(have[p]) # HeadsOf(have[q])
    /\ queued' = QueueRequest(queued, p, q, HeadsOf(have[p]))
    /\ UNCHANGED <<prev, have, updates, calls, serving, lost>>

-----------------------------------------------------------------------------
(* synchandler.go and objectsync: head updates *)

\* The head update that p got first from q. Its changes are added; p asks q for
\* its tree when the heads of q are not known, or differ after the changes were
\* added.
HandleHeadUpdate(p, q) ==
    LET m == Head(updates[q][p])
        u == [updates EXCEPT ![q][p] = Tail(@)]
        known == IF m.changes = {} THEN hasHeads(p, m.heads)
                 ELSE hasHeads(p, m.heads) \/ HeadsOf(have'[p]) = m.heads
    IN /\ updates[q][p] # <<>>
       /\ IF have[p] = {} \/ m.changes = {} THEN updates' = u /\ UNCHANGED have
          ELSE AddRawChangesFromPeer(u, p, q, m.heads, m.changes)
       /\ queued' = IF have[p] # {} /\ known THEN queued
                    ELSE QueueRequest(queued, p, q, HeadsOf(have'[p]))
       /\ UNCHANGED <<prev, calls, serving, lost>>

-----------------------------------------------------------------------------
(* requestmanager.go and objectsync: requests *)

\* The changes of S, which is closed, that come before those of K or are in K.
Past(S, K) == {c \in S : \A T \in SUBSET S : K \subseteq T /\ Closed(T) => c \in T}

\* The ways to pass the changes of S in n portions, up to T[1], then T[2] and so
\* on, each with some of A and cut before a change of A.
Cuts(S, A, n) ==
    {T \in [0..n -> SUBSET S] :
        /\ T[0] = {}
        /\ T[n] = S
        /\ \A i \in 1..n : /\ Closed(T[i])
                           /\ T[i - 1] \subseteq T[i]
                           /\ A \cap (T[i] \ T[i - 1]) # {}
                           /\ i < n => \E c \in A \ T[i] : prev[c] \subseteq T[i]}

\* The response with those changes of B, which were passed for it, that are in A;
\* its heads are the last of B.
Batch(A, B) == [heads |-> HeadsOf(B), changes |-> A \cap B]

\* Faulty variant: the last changes come first.
Answers_Reversed(q, hs) ==
    LET A == have[q] \ Past(have[q], hs \cap have[q])
    IN UNION {{[i \in 1..n |-> Batch(A, T[n + 1 - i] \ T[n - i])] : T \in Cuts(have[q], A, n)} :
                  n \in 1..Cardinality(A)}

\* The answers to a request with the heads hs: all that does not come before the
\* heads we know, in any number of batches.
Answers(q, hs) ==
    LET A == have[q] \ Past(have[q], hs \cap have[q])
    IN UNION {{[i \in 1..n |-> Batch(A, T[i] \ T[i - 1])] : T \in Cuts(have[q], A, n)} :
                  n \in 1..Cardinality(A)}

\* A worker of the action pool takes the request, but drops it when the call of
\* another one is under way.
DropRequest(p, q) ==
    /\ queued[p][q] # {}
    /\ calls[p][q] # NoCall
    /\ queued' = [queued EXCEPT ![p][q] = {}]
    /\ UNCHANGED <<prev, have, updates, calls, serving, lost>>

\* ApplyRequest, the tree is there: the request is sent.
ApplyRequest(p, q) ==
    /\ have[p] # {}
    /\ calls[p][q] = NoCall
    /\ \E hs \in queued[p][q] :
         calls' = [calls EXCEPT ![p][q] = [state |-> "sent", heads |-> hs, batches |-> <<>>]]
    /\ queued' = [queued EXCEPT ![p][q] = {}]
    /\ UNCHANGED <<prev, have, updates, serving, lost>>

\* ApplyRequest, the tree is missing: it is loaded from q, all of it or, when the
\* stream breaks, the first batches; or not at all. Who waits for the tree waits
\* for the load. All peers learn about a tree with more than the root.
LoadTree(p, q) ==
    /\ have[p] = {}
    /\ queued[p][q] # {}
    /\ queued' = [queued EXCEPT ![p][q] = {}]
    /\ \/ /\ have[q] = {} \/ serving[q][p].on
          /\ UNCHANGED <<have, updates, lost>>
       \/ /\ have[q] # {} /\ ~serving[q][p].on
          /\ have' = [have EXCEPT ![p] = have[q]]
          /\ updates' = IF have[q] = {Root} THEN updates
                        ELSE Broadcast(updates, p, p, HeadsOf(have[q]), {})
          /\ UNCHANGED lost
       \/ /\ have[q] # {} /\ ~serving[q][p].on
          /\ lost < MaxLoss /\ lost' = lost + 1
          /\ \E T \in SUBSET have[q] : /\ Closed(T) /\ T # have[q]
                                       /\ have' = [have EXCEPT ![p] = T]
          /\ UNCHANGED updates
    /\ UNCHANGED <<prev, calls, serving>>

\* The handler of q for the call from p when it cannot be served: another one for
\* the same tree is running, or q does not have the tree, which it then loads.
RefuseStreamRequest(q, p) ==
    /\ calls[p][q].state = "sent"
    /\ serving[q][p].on \/ have[q] = {}
    /\ queued' = IF serving[q][p].on \/ calls[p][q].heads = {} THEN queued
                 ELSE QueueRequest(queued, q, p, {})
    /\ calls' = [calls EXCEPT ![p][q] = NoCall]
    /\ UNCHANGED <<prev, have, updates, serving, lost>>

\* Faulty variant: q asks back even when the heads are the same.
HandleStreamRequest_AlwaysAsks(q, p) ==
    LET hs == calls[p][q].heads
        cur == HeadsOf(have[q])
    IN /\ calls[p][q].state = "sent"
       /\ ~serving[q][p].on
       /\ have[q] # {}
       /\ \E a \in IF cur \subseteq hs THEN {<<[heads |-> cur, changes |-> {}]>>}
                   ELSE Answers(q, hs) :
            calls' = [calls EXCEPT ![p][q] = [state |-> "open", heads |-> {}, batches |-> a]]
       /\ serving' = [serving EXCEPT ![q][p] =
                          [on |-> TRUE, ret |-> {cur}, empty |-> cur \subseteq hs]]
       /\ UNCHANGED <<prev, have, updates, queued, lost>>

\* HandleStreamRequest of q for the call from p: an empty response when p has all
\* heads of q, otherwise what p lacks. q will ask back when the heads differ.
HandleStreamRequest(q, p) ==
    LET hs == calls[p][q].heads
        cur == HeadsOf(have[q])
        ret == IF hs = cur \/ hs = {} THEN {} ELSE {cur}
    IN /\ calls[p][q].state = "sent"
       /\ ~serving[q][p].on
       /\ have[q] # {}
       /\ \E a \in IF cur \subseteq hs THEN {<<[heads |-> cur, changes |-> {}]>>}
                   ELSE Answers(q, hs) :
            calls' = [calls EXCEPT ![p][q] = [state |-> "open", heads |-> {}, batches |-> a]]
       /\ serving' = [serving EXCEPT ![q][p] =
                          [on |-> TRUE, ret |-> ret, empty |-> cur \subseteq hs]]
       /\ UNCHANGED <<prev, have, updates, queued, lost>>

\* All was sent: the request of q to p is queued. When the stream broke before
\* that, it is forgotten, but not after an empty response.
FinishStreamRequest(q, p) ==
    /\ serving[q][p].on
    /\ \/ queued' = [queued EXCEPT ![q][p] = IF serving[q][p].ret = {} THEN @ ELSE serving[q][p].ret]
       \/ calls[p][q].state # "open" /\ ~serving[q][p].empty /\ UNCHANGED queued
    /\ serving' = [serving EXCEPT ![q][p] = NotServing]
    /\ UNCHANGED <<prev, have, updates, calls, lost>>

\* SendRequest of p reads a response from q and adds its changes.
HandleResponse(p, q) ==
    LET b == Head(calls[p][q].batches) IN
    /\ calls[p][q].batches # <<>>
    /\ IF b.changes = {} THEN UNCHANGED <<have, updates>>
       ELSE AddRawChangesFromPeer(updates, p, q, b.heads, b.changes)
    /\ calls' = [calls EXCEPT ![p][q].batches = Tail(@)]
    /\ UNCHANGED <<prev, queued, serving, lost>>

\* SendRequest of p gets to the end of the stream.
EndOfStream(p, q) ==
    /\ calls[p][q].state = "open"
    /\ calls[p][q].batches = <<>>
    /\ ~serving[q][p].on
    /\ calls' = [calls EXCEPT ![p][q] = NoCall]
    /\ UNCHANGED <<prev, have, updates, queued, serving, lost>>

-----------------------------------------------------------------------------
(* The network *)

Lose ==
    /\ lost < MaxLoss
    /\ lost' = lost + 1
    /\ UNCHANGED <<prev, have, serving>>

\* A head update is lost with the stream it was sent over.
LoseUpdate(p, q) ==
    /\ updates[p][q] # <<>>
    /\ updates' = [updates EXCEPT ![p][q] = Tail(@)]
    /\ Lose
    /\ UNCHANGED <<queued, calls>>

\* The stream of a call breaks, on its way to q or while the answer comes; or q
\* refuses the call, because it serves too many others of p.
BreakStream(p, q) ==
    /\ calls[p][q] # NoCall
    /\ calls' = [calls EXCEPT ![p][q] = NoCall]
    /\ Lose
    /\ UNCHANGED <<updates, queued>>

Next ==
    \E p \in Peers :
        \/ \E c \in Changes : AddContent(p, c)
        \/ \E q \in Peers \ {p} :
            \/ SyncWithPeer(p, q)
            \/ HandleHeadUpdate(p, q)
            \/ DropRequest(p, q)
            \/ ApplyRequest(p, q)
            \/ LoadTree(p, q)
            \/ RefuseStreamRequest(q, p)
            \/ HandleStreamRequest(q, p)
            \/ FinishStreamRequest(q, p)
            \/ HandleResponse(p, q)
            \/ EndOfStream(p, q)
            \/ LoseUpdate(p, q)
            \/ BreakStream(p, q)

\* Every handler, worker and stream goes on, and the head sync with responsible
\* peers is periodic; nobody has to make changes.
Fairness ==
    \A p \in Peers :
        /\ \A q \in ResponsiblePeers[p] : WF_vars(SyncWithPeer(p, q))
        /\ \A q \in Peers \ {p} :
            /\ WF_vars(HandleHeadUpdate(p, q))
            /\ WF_vars(DropRequest(p, q) \/ ApplyRequest(p, q) \/ LoadTree(p, q))
            /\ WF_vars(RefuseStreamRequest(q, p) \/ HandleStreamRequest(q, p))
            /\ WF_vars(FinishStreamRequest(q, p))
            /\ WF_vars(HandleResponse(p, q) \/ EndOfStream(p, q))

Spec == Init /\ [][Next]_vars

FairSpec == Spec /\ Fairness

-----------------------------------------------------------------------------
(* Properties *)

\* The types of the variables; no peer holds a change that was never made, and
\* nothing is sent beyond the bound on messages in flight.
TypeOK ==
    /\ DagTypeOK
    /\ \A p, q \in Peers :
        /\ \A i \in DOMAIN updates[p][q] : /\ updates[p][q][i].heads \subseteq Made
                                           /\ updates[p][q][i].changes \subseteq Made
        /\ Len(updates[p][q]) <= QueueSize
        /\ \A hs \in queued[p][q] \cup serving[p][q].ret : hs \subseteq Made
        /\ Cardinality(queued[p][q]) <= 1
        /\ calls[p][q].state \in {"idle", "sent", "open"}
    /\ lost \in 0..MaxLoss

\* Every batch that is read is added completely: what p said it has when it asked,
\* however long ago, and the batches before it hold all that comes before.
BatchesAttach ==
    [][\A p, q \in Peers :
         /\ calls[p][q].batches # <<>>
         /\ calls'[p][q].batches = Tail(calls[p][q].batches)
         /\ calls'[p][q].state = "open"
         => Head(calls[p][q].batches).heads \subseteq have'[p]]_vars

\* The trees of the peers are replicas of one growing set of changes.
ImplementsChangeDag == DagSpec

\* All peers get to have all changes, whatever is lost.
Converges == <>[](\A p, q \in Peers : have[p] = have[q])

Quiet ==
    \A p, q \in Peers : /\ updates[p][q] = <<>>
                        /\ queued[p][q] = {}
                        /\ calls[p][q] = NoCall
                        /\ ~serving[p][q].on

\* The peers do not ask each other for ever.
Quiesces == <>[]Quiet
=============================================================================
