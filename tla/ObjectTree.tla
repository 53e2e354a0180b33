----------------------------- MODULE ObjectTree -----------------------------
(***************************************************************************)
(* The replicas of one object tree (objecttree.go, storage.go): every peer *)
(* keeps the changes it has in storage, in the order of their order ids,   *)
(* and the part from the last common snapshot on in memory. A peer adds    *)
(* content of its own on top of its heads and adds raw changes that it got *)
(* from another peer, in any portion; every call runs under the lock of    *)
(* the tree and is one step. The write of the storage is one transaction,  *)
(* so a crash is a restart from what was stored.                           *)
(*                                                                         *)
(* Changes come from peers that run this code; what the acl says about     *)
(* them is the choice of the validator to refuse a call or to filter it.   *)
(***************************************************************************)
EXTENDS Tree

CONSTANTS Peers,
          Ids,          \* the ids of the changes that will be made, in any order
          LateReducers  \* the peers that mark new changes (newChangeFlusher)

ASSUME ObjectTreeAssumption ==
    /\ Ids \subseteq Nat \ {RootId, NoId}
    /\ LateReducers \subseteq Peers

VARIABLES dag,      \* the changes that were made
          st,       \* st[p]: the storage of the tree at p
          tree,     \* tree[p]: the tree in memory at p
          panicked  \* a call ran into a panic

vars == <<dag, st, tree, panicked>>

Made == DOMAIN dag
Stored(p) == ToSet(st[p].seq)

\* CreateStorageTx and the first build: the peers share the root.
Init ==
    /\ dag = (RootId :> rootChange)
    /\ st = [p \in Peers |-> newStorage]
    /\ tree = [p \in Peers |-> newTree(dag)]
    /\ panicked = FALSE

\* Faulty variant: the change refers to the heads iterated last only.
AddContent_OneHead(p, id, isSnap) ==
    LET t == tree[p]
        d == dag @@ (id :> [prev |-> {t.last}, snap |-> t.root, isSnap |-> isSnap])
        seq == InsertAt(st[p].seq, Index(st[p].seq, t.last) + 1, id)
    IN /\ id \notin Made
       /\ dag' = d
       /\ st' = [st EXCEPT ![p] = AddAll(seq, {id}, IF isSnap THEN id ELSE t.root)]
       /\ tree' = [tree EXCEPT ![p] =
            IF isSnap THEN [att |-> {id}, root |-> id, heads |-> {id}, last |-> id, roots |-> FALSE]
            ELSE [t EXCEPT !.att = @ \cup {id}, !.heads = {id}, !.last = id, !.roots = TRUE]]
       /\ UNCHANGED panicked

\* AddContent: a change on top of all heads, ordered after the head iterated
\* last, is stored and then taken into the tree; a snapshot empties the tree.
AddContent(p, id, isSnap) ==
    LET t == tree[p]
        d == dag @@ (id :> [prev |-> t.heads, snap |-> t.root, isSnap |-> isSnap])
        seq == InsertAt(st[p].seq, Index(st[p].seq, t.last) + 1, id)
    IN /\ id \notin Made
       /\ dag' = d
       /\ st' = [st EXCEPT ![p] = AddAll(seq, {id}, IF isSnap THEN id ELSE t.root)]
       /\ tree' = [tree EXCEPT ![p] =
            IF isSnap THEN [att |-> {id}, root |-> id, heads |-> {id}, last |-> id, roots |-> FALSE]
            ELSE [t EXCEPT !.att = @ \cup {id}, !.heads = {id}, !.last = id, !.roots = TRUE]]
       /\ panicked' = (panicked \/ (~isSnap /\ \E h \in t.heads : NextOf(d, t.att \cup {id}, h) # {id}))

\* FlushAfterBuild, the write and Flush: store the added changes and keep the
\* tree t, reduced before the write or, by the newChangeFlusher, after it. A
\* deferred updater, called in between, may fail: then there is no Flush.
Save(p, t) ==
    LET reduced == reduceTree(dag, t)
        late == p \in LateReducers
        noOrderId == noGap(st[p].seq, topSort(dag, t.att, t.root))
    IN /\ st' = [st EXCEPT ![p] = stored(dag, @, t, IF late THEN t.root ELSE reduced.root)]
       /\ \/ /\ tree' = [tree EXCEPT ![p] = reduced]
             /\ panicked' = (panicked \/ noOrderId \/ reducePanics(dag, t))
          \/ /\ late
             /\ tree' = [tree EXCEPT ![p] = t]
             /\ panicked' = (panicked \/ noOrderId)

\* AddRawChanges, the changes taken: B came from another peer with the snapshot
\* path and the heads given.
AddRawChanges(p, B, path, heads) ==
    /\ Save(p, addChangesToTree(dag, st[p], tree[p], B, path, heads))
    /\ UNCHANGED dag

\* AddRawChanges, the changes refused by the validator, the updater or the
\* storage: the tree in memory is rolled back, or rebuilt from the storage.
AddRawFails(p, B) ==
    LET t == tree[p]
        rebuilds == snapshotNotInTree(dag, t, newChanges(t, B))
    IN /\ rebuilds \/ newAttached(dag, t, B) # {}
       /\ \/ ~rebuilds /\ tree' = [tree EXCEPT ![p].roots = TRUE]
          \/ tree' = [tree EXCEPT ![p] = rebuilt(dag, st[p])]
       /\ UNCHANGED <<dag, st, panicked>>

\* The tree is built from its storage, after a restart or when it is loaded anew.
Reopen(p) ==
    /\ tree' = [tree EXCEPT ![p] = rebuilt(dag, st[p])]
    /\ UNCHANGED <<dag, st, panicked>>

\* What a peer sends: any portion of what it has, with its snapshot path.
Receive(p, q) ==
    \E B \in SUBSET (Stored(q) \ tree[p].att) :
        /\ B # {}
        /\ \/ AddRawChanges(p, B, SnapshotPath(dag, tree[q].root), tree[q].heads)
           \/ AddRawFails(p, B)

Next ==
    \E p \in Peers :
        \/ \E id \in Ids, isSnap \in BOOLEAN : AddContent(p, id, isSnap)
        \/ \E q \in Peers \ {p} : Receive(p, q)
        \/ Reopen(p)

Spec == Init /\ [][Next]_vars

-----------------------------------------------------------------------------
(* Properties *)

\* No call panics: updateHeads always finds an order id between the neighbours of
\* a new change, reduceTree finds the snapshots of all heads, and AddContent
\* makes the only head.
NoPanic == ~panicked

\* The stored changes are complete and in one linear order that extends the order
\* of the previous changes; any two peers agree on the order of the changes they
\* share, however they got them.
AgreedOrder ==
    /\ \A p \in Peers :
         /\ \A i, j \in DOMAIN st[p].seq : st[p].seq[i] = st[p].seq[j] => i = j
         /\ \A c \in Stored(p) : \A b \in dag[c].prev :
              b \in Stored(p) /\ Index(st[p].seq, b) < Index(st[p].seq, c)
    /\ \A p, q \in Peers :
         LET both == Stored(p) \cap Stored(q) IN
         SelectSeq(st[p].seq, LAMBDA c : c \in both) = SelectSeq(st[q].seq, LAMBDA c : c \in both)

\* The tree in memory is the stored changes from its root on, in the same order,
\* and nothing stored is beside the root: a peer may forget what is before it.
\* The heads, in memory and in storage, are the changes that nothing follows.
MemoryIsSuffix ==
    \A p \in Peers :
        LET t == tree[p] IN
        /\ topSort(dag, t.att, t.root) =
             SubSeq(st[p].seq, Index(st[p].seq, t.root), Len(st[p].seq))
        /\ t.last = Last(st[p].seq)
        /\ t.heads = MaximalOf(dag, Stored(p))
        /\ st[p].heads = t.heads

\* A complete answer of q to p, built from what p says it has, brings p to have
\* all that q has.
AnswerSuffices ==
    \A p \in Peers : \A q \in Peers \ {p} :
        LET B == ToSet(loadAfter(dag, st[q], tree[q].root,
                                 SnapshotPath(dag, tree[p].root), tree[p].heads))
            t == addChangesToTree(dag, st[p], tree[p], B,
                                  SnapshotPath(dag, tree[q].root), tree[q].heads)
        IN Stored(q) \subseteq Stored(p) \cup t.att

\* A peer without the tree that fetches it from q in batches cut after K gets all
\* that q has, in the same order, and ends up with the same heads.
Fetches(q, sent, K) ==
    LET batches == NextBatch(sent, K)
        got == fetched(dag, batches)
    IN /\ got[1].t.heads = MaximalOf(dag, ToSet(batches[1]))
       /\ got[Len(batches)].s.seq = st[q].seq
       /\ got[Len(batches)].t.heads = tree[q].heads

\* The snapshot that commonSnapshot finds lies on the snapshot paths of all of S.
Meets(S) == \A c \in S : commonSnapshot(dag, S) \in ToSet(SnapshotPath(dag, c))

\* So it does when it is all in one batch, and when it comes in two if the snapshots
\* meet: the second is added from the one at which its branches meet the first.
FetchSuffices ==
    \A q \in Peers :
        LET sent == loadAfter(dag, st[q], tree[q].root, <<>>, {})
            snaps == {c \in Stored(q) : dag[c].isSnap}
        IN /\ Fetches(q, sent, {})
           /\ (\A a, b \in snaps : Meets({a, b})) =>
                  \A k \in 1 .. Len(sent) - 1 : Fetches(q, sent, {k})

\* When Add reports Append, what was added comes after all that was there, so
\* that a client may go on from the head iterated last.
AppendIsSuffix ==
    [][\A p \in Peers :
         LET new == Stored(p)' \ Stored(p) IN
         /\ new # {}
         /\ tree[p].last \in tree'[p].att
         /\ addMode(dag', tree[p], tree'[p].att, new) = "Append"
         => IsPrefix(st[p].seq, st'[p].seq)]_vars

\* Any two snapshots of a peer meet at one that lies on the snapshot paths of both, as
\* the comment of treeBuilder.commonSnapshot has it.
CommonSnapshotMeets ==
    \A p \in Peers : \A a, b \in {c \in Stored(p) : dag[c].isSnap} : Meets({a, b})

\* The history up to one or two stored changes is all that comes before them, from
\* the snapshot on at which their branches meet.
HistoryIsThePast ==
    \A p \in Peers : \A g, h \in Stored(p) :
        LET snaps == {historySnapshot(dag, c) : c \in {g, h}}
            past == {c \in Stored(p) : /\ c \in Reachable(dag, Stored(p), commonSnapshot(dag, snaps))
                                       /\ {g, h} \cap Reachable(dag, Stored(p), c) # {}}
        IN Meets(snaps) => buildHistory(dag, st[p], {g, h}) = past

\* The replicas are replicas of one growing set of changes.
Dag == INSTANCE ChangeDag WITH Changes <- Ids \cup {RootId}, Root <- RootId,
                               prev <- [c \in Made |-> dag[c].prev],
                               have <- [p \in Peers |-> Stored(p)]

ImplementsChangeDag == Dag!DagSpec
=============================================================================
