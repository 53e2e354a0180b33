-------------------------------- MODULE Tree --------------------------------
(***************************************************************************)
(* The in-memory tree of changes of commonspace/object/tree/objecttree and *)
(* the algorithms on it: tree.go, treeiterator.go, treereduce.go,          *)
(* treebuilder.go, loaditerator.go and util.go.                            *)
(*                                                                         *)
(* A dag d maps every change that was ever made to its previous changes,   *)
(* the snapshot it is based on and whether it is a snapshot itself.        *)
(* Changes are numbers, compared as the code compares ids; RootId is the   *)
(* root of the tree and NoId the empty id.                                 *)
(*                                                                         *)
(* A tree is a record: the attached changes, the root, the heads, the head *)
(* iterated last, and whether there are possible roots. A storage is a     *)
(* record: the changes in the order of their order ids, the heads and the  *)
(* common snapshot.                                                        *)
(***************************************************************************)
EXTENDS Naturals, Sequences, FiniteSets, FiniteSetsExt, SequencesExt

RootId == 0
NoId == 1000

rootChange == [prev |-> {}, snap |-> NoId, isSnap |-> TRUE]

Index(s, c) == CHOOSE i \in DOMAIN s : s[i] = c

\* The changes without a successor in S.
MaximalOf(d, S) == {c \in S : \A n \in S : c \notin d[n].prev}

-----------------------------------------------------------------------------
(* tree.go and treeiterator.go *)

\* The changes of A that follow c; the code keeps them sorted by id.
NextOf(d, A, c) == {n \in A : c \in d[n].prev}

\* The order of iteration of the changes of A from r: depth first, greatest id
\* first, each change before all that were finished earlier.
topSort(d, A, r) ==
    LET finish[x \in (SUBSET A) \X Seq(A)] ==
            IF x[1] = {} THEN x[2]
            ELSE LET c == Max(x[1]) IN
                 finish[<<x[1] \ {c},
                          IF c \in ToSet(x[2]) THEN x[2]
                          ELSE Append(finish[<<NextOf(d, A, c), x[2]>>], c)>>]
    IN Reverse(finish[<<{r}, <<>>>>])

\* Which of the changes C attach to the attached changes A: those whose previous
\* changes are attached, directly or after waiting for changes of C, and whose
\* snapshot is.
attachable(d, A, C) ==
    UNION {B \in SUBSET (C \ A) :
             \A c \in B : d[c].prev \cup {d[c].snap} \subseteq A \cup B}

\* Faulty variant: new changes get order ids after all others.
fillOrder_AtEnd(stored, order) ==
    stored \o SelectSeq(order, LAMBDA c : c \notin ToSet(stored))

\* The changes of order without an order id get one after their predecessor.
fillOrder(stored, order) ==
    LET filled[i \in 0..Len(order)] ==
            IF i = 0 THEN stored
            ELSE IF order[i] \in ToSet(stored) THEN filled[i - 1]
            ELSE InsertAt(filled[i - 1], Index(filled[i - 1], order[i - 1]) + 1, order[i])
    IN filled[Len(order)]

\* There is no id between those of the neighbours of a change without one: the
\* panic of updateHeads.
noGap(stored, order) ==
    \E i, k \in DOMAIN order :
        /\ i + 1 < k
        /\ {order[i], order[k]} \subseteq ToSet(stored)
        /\ \A j \in i + 1 .. k - 1 : order[j] \notin ToSet(stored)
        /\ Index(stored, order[i]) >= Index(stored, order[k])

\* The tree of the changes A with root r, its heads recomputed.
updateHeads(d, A, r, pr) ==
    LET order == topSort(d, A, r) IN
    [att |-> A, root |-> r, heads |-> {c \in ToSet(order) : NextOf(d, A, c) = {}},
     last |-> Last(order), roots |-> pr]

\* The changes that dfsNext visits from c.
Reachable(d, A, c) == ToSet(topSort(d, A, c))

\* Faulty variant: it is enough that the head is still in the tree.
addMode_HeadAttached(d, t, A, C) == IF t.last \in A THEN "Append" ELSE "Rebuild"

\* The mode Tree.Add returns: the new changes C all come after the head iterated
\* last, so iteration may go on from it, or the state has to be rebuilt.
addMode(d, t, A, C) ==
    IF C \cap A \subseteq Reachable(d, A, t.last) THEN "Append" ELSE "Rebuild"

-----------------------------------------------------------------------------
(* treereduce.go *)

\* The changes before c, c excluded.
Before(d, A, c) == {a \in A \ {c} : c \in Reachable(d, A, a)}

makeRootAndRemove(d, t, c) ==
    [t EXCEPT !.att = @ \ Before(d, @, c), !.root = c]

\* The snapshots from c down to the root of the tree, within the attached
\* changes; the last one is NoId when a snapshot is missing.
snapshotsToRoot(d, t, c) ==
    LET down[x \in t.att \cup {NoId}] ==
            IF x \in {t.root, NoId} THEN <<x>>
            ELSE <<x>> \o down[IF d[x].snap \in t.att THEN d[x].snap ELSE NoId]
    IN down[IF c \in t.att THEN c ELSE NoId]

\* The code dereferences nil when a snapshot path leaves the tree.
reducePanics(d, t) ==
    /\ t.roots
    /\ Cardinality(t.heads) > 1
    /\ \E h \in t.heads : Last(snapshotsToRoot(d, t, d[h].snap)) = NoId

\* Faulty variant: only the path of the first head counts.
reduceTree_FirstHead(d, t) ==
    LET first == Min(t.heads)
        sn == IF t.heads = {first} /\ d[first].isSnap THEN first ELSE d[first].snap
    IN IF ~t.roots THEN t
       ELSE [makeRootAndRemove(d, t, sn) EXCEPT !.roots = FALSE]

\* The root moves up to the snapshot at which the paths of all heads meet.
reduceTree(d, t) ==
    LET first == Min(t.heads)
        path == snapshotsToRoot(d, t, d[first].snap)
        meet(h) == LET other == snapshotsToRoot(d, t, d[h].snap)
                       k == Min({i \in DOMAIN other : other[i] \in ToSet(path)})
                   IN Index(path, other[k])
        sn == IF t.heads = {first}
              THEN IF d[first].isSnap THEN first ELSE d[first].snap
              ELSE path[Max({1} \cup {meet(h) : h \in t.heads})]
    IN IF ~t.roots \/ sn \notin t.att THEN t
       ELSE [makeRootAndRemove(d, t, sn) EXCEPT !.roots = FALSE]

-----------------------------------------------------------------------------
(* treebuilder.go, util.go and loaditerator.go *)

\* The snapshots from c down to the root of the tree, in storage.
SnapshotPath(d, c) ==
    LET path[x \in DOMAIN d] == IF x = RootId THEN <<x>> ELSE <<x>> \o path[d[x].snap]
    IN path[c]

SnapshotCounter(d, c) == Len(SnapshotPath(d, c))

\* The last snapshot two paths share, coming from the root.
commonSnapshotForTwoPaths(our, their) ==
    LET i == Max({k \in DOMAIN our : our[k] \in ToSet(their)})
        j == Max({k \in DOMAIN their : their[k] = our[i]})
        same == {n \in 1..i : n <= j /\ \A m \in 0 .. n - 1 : our[i - m] = their[j - m]}
    IN our[i - Max(same) + 1]

\* The snapshot at which the branches of the snapshots S meet: all are taken down
\* to the lowest level, then down one level at a time, dropping each time all
\* but one of those with the same SnapshotId, until one is left.
commonSnapshot(d, S) ==
    LET lowest == Min({SnapshotCounter(d, c) : c \in S})
        level[c \in DOMAIN d] ==
            IF SnapshotCounter(d, c) > lowest THEN level[d[c].snap] ELSE c
        meet[C \in SUBSET DOMAIN d] ==
            LET kept == {Min({c \in C : d[c].snap = s}) : s \in {d[c].snap : c \in C}}
            IN IF Cardinality(kept) = 1 THEN CHOOSE c \in kept : TRUE
               ELSE meet[{d[c].snap : c \in kept}]
    IN meet[{level[c] : c \in S}]

\* The snapshots below the new changes C on the paths of the heads H, and our
\* own one.
lowestSnapshots(d, C, H, our) ==
    LET low[c \in DOMAIN d] ==
            IF c \in C /\ c # RootId THEN low[d[c].snap] ELSE c
    IN {low[IF h = RootId THEN h ELSE d[h].snap] : h \in H \cap C} \cup {our}

\* The tree that buildWithAdded builds from the changes of the storage s that
\* are not before the snapshot sn, and the new changes C.
buildFrom(d, s, sn, C) ==
    LET loaded == ToSet(SubSeq(s.seq, Index(s.seq, sn), Len(s.seq)))
        A == {sn} \cup attachable(d, {sn}, loaded \cup C)
    IN updateHeads(d, A, sn, FALSE)

historySnapshot(d, h) == IF h = RootId THEN h ELSE d[h].snap

\* Faulty variant: everything after the snapshot is left in.
buildHistory_NotCut(d, s, H) ==
    buildFrom(d, s, commonSnapshot(d, {historySnapshot(d, h) : h \in H}), {}).att

\* The tree of a history up to the heads H, which the storage has.
buildHistory(d, s, H) ==
    LET sn == commonSnapshot(d, {historySnapshot(d, h) : h \in H})
        upTo == Max({Index(s.seq, h) : h \in H})
        t == buildFrom(d, [s EXCEPT !.seq = SubSeq(@, 1, upTo)], sn, {})
        leave == {c \in t.att : \E h \in H \cap t.att : h \in Reachable(d, t.att, c)}
    IN leave

\* What the load iterator takes from the storage s: everything from the snapshot cs
\* on, in order, except what those of the heads of the peer that we know come after.
load(d, s, cs, theirHeads) ==
    LET cache == ToSet(SubSeq(s.seq, Index(s.seq, cs), Len(s.seq)))
        removed == {c \in cache : \E b \in theirHeads \cap cache : b \in Reachable(d, cache, c)}
    IN SelectSeq(s.seq, LAMBDA c : c \in cache \ removed)

\* ChangesAfterCommonSnapshotLoader: what is sent to a peer with the given snapshot
\* path and heads, from the common snapshot on.
loadAfter(d, s, ourRoot, theirPath, theirHeads) ==
    load(d, s,
         IF theirPath = <<>> THEN RootId
         ELSE commonSnapshotForTwoPaths(SnapshotPath(d, ourRoot), theirPath),
         theirHeads)

\* Faulty variant: every batch ends one change early.
NextBatch_EndsEarly(sent, K) ==
    LET ends == SetToSortSeq(K \cup {Len(sent)}, <)
    IN [i \in DOMAIN ends |-> SubSeq(sent, IF i = 1 THEN 1 ELSE ends[i - 1] + 1, ends[i] - 1)]

\* What the load iterator sends in batches cut after the positions K.
NextBatch(sent, K) ==
    LET ends == SetToSortSeq(K \cup {Len(sent)}, <)
    IN [i \in DOMAIN ends |-> SubSeq(sent, IF i = 1 THEN 1 ELSE ends[i - 1] + 1, ends[i])]

-----------------------------------------------------------------------------
(* objecttree.go: changes are added to the tree t with the storage s *)

\* Rebuild without new changes: from the stored common snapshot.
rebuilt(d, s) == buildFrom(d, s, s.common, {})

\* Faulty variant: the tree is rebuilt from the snapshot we have.
rebuildSnapshot_Ours(d, s, t, C, path, heads) == t.root

\* Where rebuildFromStorage starts for the new changes C, which came with the
\* snapshot path and the heads given.
rebuildSnapshot(d, s, t, C, path, heads) ==
    LET low == lowestSnapshots(d, C, heads, t.root) IN
    IF path # <<>> THEN commonSnapshotForTwoPaths(SnapshotPath(d, t.root), path)
    ELSE IF Cardinality(low) = 1 THEN CHOOSE c \in low : TRUE
    ELSE commonSnapshot(d, low \cap ToSet(s.seq))

\* rebuildFromStorage with new changes: the old root is restored if there is
\* nothing new after all.
rebuildFromStorage(d, s, old, C, path, heads) ==
    LET t == buildFrom(d, s, rebuildSnapshot(d, s, old, C, path, heads), C)
    IN IF t.heads = old.heads /\ old.root \in t.att /\ old.root # t.root
       THEN makeRootAndRemove(d, t, old.root)
       ELSE t

\* Some change of C is based on a snapshot that is neither the root of the tree
\* nor among the new changes.
snapshotNotInTree(d, t, C) ==
    \E c \in C : d[c].snap \notin {t.root} \cup {x \in C : d[x].isSnap}

\* Which of the changes B the tree lacks, and which of these it can attach.
newChanges(t, B) == B \ t.att
newAttached(d, t, B) == attachable(d, t.att, newChanges(t, B))

\* The tree with the changes B, built anew when a snapshot is missing.
addChangesToTree(d, s, t, B, path, heads) ==
    IF snapshotNotInTree(d, t, newChanges(t, B))
    THEN rebuildFromStorage(d, s, t, newChanges(t, B), path, heads)
    ELSE IF newAttached(d, t, B) = {} THEN t
    ELSE updateHeads(d, t.att \cup newAttached(d, t, B), t.root, TRUE)

\* A tree with the root alone, in storage and in memory.
newStorage == [seq |-> <<RootId>>, heads |-> {RootId}, common |-> RootId]
newTree(d) == updateHeads(d, {RootId}, RootId, FALSE)

\* storage.AddAll: the changes, the heads and the common snapshot, in one
\* transaction.
AddAll(seq, heads, common) == [seq |-> seq, heads |-> heads, common |-> common]

\* The storage with the changes of the tree t. The changes added are those that the
\* storage lacks, because the tree holds all of it from the root on (MemoryIsSuffix);
\* AddAll inserts no change twice.
stored(d, s, t, common) ==
    AddAll(fillOrder(s.seq, topSort(d, t.att, t.root)), t.heads, common)

\* A tree that is fetched: the first batch creates it, the others are added to it,
\* all without a snapshot path.
fetched(d, batches) ==
    LET got[i \in 0..Len(batches)] ==
            IF i = 0 THEN [s |-> newStorage, t |-> newTree(d)]
            ELSE LET B == ToSet(batches[i])
                     t == addChangesToTree(d, got[i - 1].s, got[i - 1].t, B, <<>>, MaximalOf(d, B))
                     r == reduceTree(d, t)
                 IN [s |-> stored(d, got[i - 1].s, t, r.root), t |-> r]
    IN got
=============================================================================
