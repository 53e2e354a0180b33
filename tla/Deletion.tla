------------------------------ MODULE Deletion ------------------------------
(***************************************************************************)
(* Deleting objects of a space on one device, and the diff (the set of ids *)
(* and heads that head sync advertises) that must follow the head storage. *)
(*                                                                         *)
(* Four goroutines meet here.  Tree code creates trees and writes changes. *)
(* The settings object hands the ids deleted in the space to the deletion  *)
(* state.  The delete loop removes the queued trees and the trees bound to *)
(* them.  The head updater replays head-storage events into the diff.  The *)
(* head storage, the tree storage and the settings document survive a      *)
(* crash; everything else is rebuilt by the components' Run, in the order  *)
(* in which the space registers them.                                      *)
(*                                                                         *)
(* The heads of a tree are abstracted to a number: 0 for an entry without  *)
(* heads, 1 for a tree that is only its root, more for later heads.        *)
(***************************************************************************)
EXTENDS Naturals, Sequences, FiniteSets

CONSTANTS Ids,          \* the object ids of the space
          Child,        \* the ids bound to a parent (derived objects)
          Parent,       \* the parent of each of them, a function on Child
          NoId,         \* not an id
          MaxHeads,     \* bound on the successive heads of a tree
          MaxFaults,    \* bound on the writes and deletions that fail and the restarts
          MaxEvents     \* bound on the events that wait for the head updater

ASSUME DeletionAssumption ==
  /\ \A S \in SUBSET Ids : Cardinality(S) \in Nat   \* as when the ids are finitely many
  /\ Child \subseteq Ids
  /\ Parent \in [Child -> Ids \ Child]
  /\ NoId \notin Ids
  /\ MaxHeads \in Nat /\ MaxFaults \in Nat /\ MaxEvents \in Nat

VARIABLES entry,     \* headstorage: the entry of every id
          stored,    \* the ids whose changes are in the tree storage
          settings,  \* the ids deleted in the settings document
          queued, deleted,   \* objectDeletionState
          adding,    \* the ids Add has still to look at, under its lock
          applied,   \* has the settings document been handed to Add?
          notify,    \* a status event committed but not yet enqueued
          events,    \* headUpdater.batcher
          diff,      \* the heads in the diff, 0 for an id not in it
          snapshot,  \* what FillDiff read
          phase,     \* of the space: down, started, filling or up
          todo, kids, target, step,  \* the delete loop
          creating,  \* trees whose creator has passed checkTreeDeleted
          raced,     \* trees stored while they, or their parent, were being deleted
          dirty,     \* ids whose last write failed after its event
          failures, crashes

durable == <<entry, stored, settings, raced>>
state == <<queued, deleted, adding, applied, notify>>
sync == <<events, diff, snapshot, phase>>
loop == <<todo, kids, target, step>>
vars == <<durable, state, sync, loop, creating, dirty, failures, crashes>>

Status == {"none", "not", "queued", "deleted"}
Entry == [status : Status, heads : 0..MaxHeads]
Event == [id : Ids, status : Status \ {"none"}, heads : 0..MaxHeads]

Children(id) == {c \in Child : Parent[c] = id}

\* headStorage.GetEntriesByParentId: an entry names its parent once the tree has
\* been created, which is when it gets heads.
BoundEntries(id) == {c \in Children(id) : entry[c].heads # 0}

Deleting(id) == entry[id].status \in {"queued", "deleted"}
EventOf(id, e) == [id |-> id, status |-> e.status, heads |-> e.heads]

mayFail == failures + crashes < MaxFaults

\* The lock of objectDeletionState is free.
Unlocked == adding = {} /\ notify = <<>>

Init ==
  /\ entry = [id \in Ids |-> [status |-> "none", heads |-> 0]]
  /\ stored = {} /\ settings = {} /\ raced = {}
  /\ queued = {} /\ deleted = {} /\ adding = {} /\ applied = TRUE
  /\ notify = <<>> /\ events = <<>>
  /\ diff = [id \in Ids |-> 0] /\ snapshot = [id \in Ids |-> 0]
  /\ phase = "up"
  /\ todo = {} /\ kids = {} /\ target = NoId /\ step = "idle"
  /\ creating = {} /\ dirty = {} /\ failures = 0 /\ crashes = 0

-----------------------------------------------------------------------------
\* Head storage.

\* headStorage.UpdateEntry of heads leaves the status of the entry alone; an
\* entry that is created has the status DeletedStatusNotDeleted.
WithHeads_Resets(e, h) == [status |-> "not", heads |-> h]
WithHeads(e, h) ==
  [status |-> IF e.status = "none" THEN "not" ELSE e.status, heads |-> h]

\* headStorage.UpdateEntry of the status alone keeps the heads.
WithStatus(e, s) == [e EXCEPT !.status = s]

\* updateStatus commits in a transaction of its own; the observers are told
\* only after that, still under the lock of the deletion state.  An upsert
\* that modifies nothing tells nobody.
updateStatus(id, s) ==
  LET e == WithStatus(entry[id], s) IN
  /\ entry' = [entry EXCEPT ![id] = e]
  /\ notify' = IF e = entry[id] THEN <<>> ELSE <<EventOf(id, e)>>
  /\ dirty' = dirty \ {id}

\* observer.OnUpdate for such an event.
OnUpdate ==
  /\ notify # <<>>
  /\ events' = events \o notify
  /\ notify' = <<>>
  /\ UNCHANGED <<durable, queued, deleted, adding, applied, diff, snapshot,
                 phase, loop, creating, dirty, failures, crashes>>

-----------------------------------------------------------------------------
\* Trees.

\* checkTreeDeleted, after TreeStorage did not find the tree: what PutSyncTree
\* and the remote getter do before they create the storage.  A remote getter
\* then waits for its peer.
checkTreeDeleted(id) ==
  /\ phase = "up" /\ id \notin stored \cup creating
  /\ ~Deleting(id)
  /\ creating' = creating \cup {id}
  /\ UNCHANGED <<durable, state, sync, loop, dirty, failures, crashes>>

\* The entry CreateStorageTx writes: the root as the only head, and queued for
\* deletion if the parent of the new tree is already being deleted.
CreatedEntry(id) ==
  LET e == WithHeads(entry[id], 1) IN
  IF id \in Child /\ Deleting(Parent[id]) THEN WithStatus(e, "queued") ELSE e

\* CreateStorage for a tree made here (h = 1), and the deferred creation of a
\* tree that was fetched (h = 2: the root and the changes in one transaction,
\* an event for each).  The events are enqueued before the commit, which may
\* fail.
CreateStorage(id, h) ==
  LET root == CreatedEntry(id)
      last == WithHeads(root, h)
      told == IF h = 1 THEN <<EventOf(id, root)>>
                       ELSE <<EventOf(id, root), EventOf(id, last)>>
  IN
  /\ phase = "up" /\ id \in creating /\ h \in 1..2 \cap 1..MaxHeads
  /\ Len(events) + h <= MaxEvents
  /\ creating' = creating \ {id}
  /\ events' = events \o told
  /\ \/ /\ entry' = [entry EXCEPT ![id] = last]
        /\ stored' = stored \cup {id}
        /\ raced' = IF last.status = "not" THEN raced ELSE raced \cup {id}
        /\ dirty' = IF h = 1 THEN dirty ELSE dirty \ {id}
        /\ UNCHANGED failures
     \/ /\ mayFail
        /\ failures' = failures + 1
        /\ dirty' = dirty \cup {id}
        /\ UNCHANGED <<entry, stored, raced>>
  /\ UNCHANGED <<settings, state, diff, snapshot, phase, loop, crashes>>

\* storage.AddAll on a tree that is open: the changes and the heads in one
\* transaction, the event before its commit.
AddAll(id) ==
  LET e == WithHeads(entry[id], entry[id].heads + 1) IN
  /\ phase = "up" /\ id \in stored /\ entry[id].heads < MaxHeads
  /\ Len(events) < MaxEvents
  /\ events' = Append(events, EventOf(id, e))
  /\ \/ /\ entry' = [entry EXCEPT ![id] = e]
        /\ dirty' = dirty \ {id}
        /\ UNCHANGED failures
     \/ /\ mayFail
        /\ failures' = failures + 1
        /\ dirty' = dirty \cup {id}
        /\ UNCHANGED entry
  /\ UNCHANGED <<stored, settings, raced, state, diff, snapshot, phase, loop,
                 creating, crashes>>

-----------------------------------------------------------------------------
\* The settings object and the deletion state.

\* settingsObject.DeleteObject: the object and the bound objects known here
\* that are not being deleted yet go into one settings change.  An object that
\* is derived is refused; those made with a parent are (BuildDerivedRoot).
DeleteObject(id) ==
  /\ phase = "up" /\ applied
  /\ id \notin settings /\ entry[id].status # "none" /\ id \notin Child
  /\ settings' = settings \cup {id}
                 \cup {c \in BoundEntries(id) : entry[c].status = "not"}
  /\ applied' = FALSE
  /\ UNCHANGED <<entry, stored, raced, queued, deleted, adding, notify, sync,
                 loop, creating, dirty, failures, crashes>>

\* A settings change made on another device, which knew the bound objects S.
ReceiveSettings(id, S) ==
  /\ phase = "up" /\ applied
  /\ id \notin settings /\ id \notin Child
  /\ settings' = settings \cup {id} \cup S
  /\ applied' = FALSE
  /\ UNCHANGED <<entry, stored, raced, queued, deleted, adding, notify, sync,
                 loop, creating, dirty, failures, crashes>>

\* settingsObject.updateIds: objectDeletionState.Add takes its lock with all
\* the ids of the settings document.
UpdateState ==
  /\ phase # "down" /\ Unlocked /\ ~applied
  /\ applied' = TRUE
  /\ adding' = settings \ (queued \cup deleted)
  /\ UNCHANGED <<durable, queued, deleted, notify, sync, loop, creating, dirty,
                 failures, crashes>>

\* One id of Add.  Where the status cannot be written, the id is left out.
Add(id) ==
  /\ phase # "down" /\ notify = <<>> /\ id \in adding
  /\ adding' = adding \ {id}
  /\ \/ /\ updateStatus(id, "queued")
        /\ queued' = queued \cup {id}
        /\ UNCHANGED failures
     \/ /\ mayFail
        /\ failures' = failures + 1
        /\ UNCHANGED <<entry, notify, dirty, queued>>
  /\ UNCHANGED <<stored, settings, raced, deleted, applied, sync, loop,
                 creating, crashes>>

-----------------------------------------------------------------------------
\* The delete loop.  A pass works through the ids that were queued when it
\* started; after each of them come the trees bound to it.

\* deleteLoop calls deleter.Delete, which reads GetQueued.
StartPass ==
  /\ phase # "down" /\ Unlocked
  /\ step = "idle" /\ todo = {} /\ kids = {} /\ queued # {}
  /\ todo' = queued
  /\ UNCHANGED <<durable, state, sync, kids, target, step, creating, dirty,
                 failures, crashes>>

\* tryMarkDeleted looks for the tree of the next id.
tryMarkDeleted(id) ==
  /\ phase # "down" /\ step = "idle"
  /\ \/ id \in kids /\ kids' = kids \ {id} /\ UNCHANGED todo
     \/ kids = {} /\ id \in todo /\ todo' = todo \ {id} /\ UNCHANGED kids
  /\ target' = id
  /\ step' = IF id \in stored THEN "delete" ELSE "mark"
  /\ UNCHANGED <<durable, state, sync, creating, dirty, failures, crashes>>

\* DeleteTree, if the tree was found, and MarkTreeDeleted otherwise; both are
\* the tree manager's.  A tree that is gone by now counts as deleted.
RemoveTree ==
  /\ phase # "down" /\ step \in {"delete", "mark"}
  /\ stored' = IF step = "delete" THEN stored \ {target} ELSE stored
  /\ step' = "state"
  /\ UNCHANGED <<entry, settings, raced, state, sync, todo, kids, target,
                 creating, dirty, failures, crashes>>

\* The tree manager fails: the pass goes on with the next id.
RemoveTreeFails_GoesOn ==
  /\ phase # "down" /\ step \in {"delete", "mark"} /\ mayFail
  /\ failures' = failures + 1
  /\ step' = "state" /\ UNCHANGED target
  /\ UNCHANGED <<durable, state, sync, todo, kids, creating, dirty, crashes>>
RemoveTreeFails ==
  /\ phase # "down" /\ step \in {"delete", "mark"} /\ mayFail
  /\ failures' = failures + 1
  /\ step' = "idle" /\ target' = NoId
  /\ UNCHANGED <<durable, state, sync, todo, kids, creating, dirty, crashes>>

\* objectDeletionState.Delete.  The maps change even if the status cannot be
\* written.
Delete ==
  /\ phase # "down" /\ Unlocked /\ step = "state"
  /\ queued' = queued \ {target}
  /\ deleted' = deleted \cup {target}
  /\ \/ updateStatus(target, "deleted") /\ UNCHANGED failures
     \/ /\ mayFail
        /\ failures' = failures + 1
        /\ dirty' = dirty \cup {target}
        /\ UNCHANGED <<entry, notify>>
  /\ step' = "children"
  /\ UNCHANGED <<stored, settings, raced, adding, applied, sync, todo, kids,
                 target, creating, crashes>>

\* deleteBoundChildren lists the entries bound to the id that are not deleted.
\* It is not called for a bound object, whose own children nobody lists.
deleteBoundChildren ==
  /\ phase # "down" /\ step = "children"
  /\ \A i \in DOMAIN notify : notify[i].id # target
  /\ kids' = kids \cup {c \in BoundEntries(target) :
                           entry[c].status \in {"not", "queued"}}
  /\ step' = "idle" /\ target' = NoId
  /\ UNCHANGED <<durable, state, sync, todo, creating, dirty, failures, crashes>>

-----------------------------------------------------------------------------
\* Head sync.

\* What the diff shows of an entry: nothing of a deleted one, and nothing of a
\* tree that is only its root.
Shown(e) == IF e.status = "not" /\ e.heads > 1 THEN e.heads ELSE 0

\* What DiffManager.UpdateHeads makes of the diff: a deletion removes the id, an
\* id that is being deleted and a tree that is only its root change nothing.
DiffAfter_OnlyDeleted(e) ==
  IF e.status = "deleted" THEN [diff EXCEPT ![e.id] = 0]
  ELSE IF e.id \in queued \cup deleted \/ e.heads = 1 THEN diff
  ELSE [diff EXCEPT ![e.id] = e.heads]
DiffAfter(e) ==
  IF e.status # "not" THEN [diff EXCEPT ![e.id] = 0]
  ELSE IF e.id \in queued \cup deleted \/ e.heads = 1 THEN diff
  ELSE [diff EXCEPT ![e.id] = e.heads]

\* headUpdater.process for the next event.  For an event that is not a deletion
\* the deletion state is asked, which may be locked.
UpdateHeads ==
  /\ phase = "up" /\ events # <<>>
  /\ Head(events).status = "not" => Unlocked
  /\ diff' = DiffAfter(Head(events))
  /\ events' = Tail(events)
  /\ UNCHANGED <<durable, state, snapshot, phase, loop, creating, dirty,
                 failures, crashes>>

\* FillDiff reads the entries, after settings.Run and before the updater runs;
\* then it sets the diff, and headSync.Run starts the updater.
FillDiffRead ==
  /\ phase = "started" /\ applied /\ adding = {}
  /\ snapshot' = [id \in Ids |-> Shown(entry[id])]
  /\ phase' = "filling"
  /\ UNCHANGED <<durable, state, events, diff, loop, creating, dirty, failures,
                 crashes>>
FillDiffSet ==
  /\ phase = "filling"
  /\ diff' = [id \in Ids |-> IF snapshot[id] # 0 THEN snapshot[id] ELSE diff[id]]
  /\ snapshot' = [id \in Ids |-> 0]
  /\ phase' = "up"
  /\ UNCHANGED <<durable, state, events, loop, creating, dirty, failures, crashes>>

-----------------------------------------------------------------------------
\* Restarting.

Crash ==
  /\ phase # "down" /\ mayFail
  /\ crashes' = crashes + 1
  /\ phase' = "down"
  /\ queued' = {} /\ deleted' = {} /\ adding' = {} /\ applied' = TRUE
  /\ notify' = <<>> /\ events' = <<>>
  /\ diff' = [id \in Ids |-> 0] /\ snapshot' = [id \in Ids |-> 0]
  /\ todo' = {} /\ kids' = {} /\ target' = NoId /\ step' = "idle"
  /\ creating' = {} /\ dirty' = {}
  /\ UNCHANGED <<durable, failures>>

\* Run finds deleted objects, and the objects bound to them that are not.
Gone == {id \in Ids : entry[id].status = "deleted"}
Orphans == {c \in Child : Parent[c] \in Gone /\ entry[c].status = "not"}

\* The entries after the status of the orphans Q was written.
Now(Q) == [id \in Ids |-> IF id \in Q THEN WithStatus(entry[id], "queued") ELSE entry[id]]

\* objectDeletionState.Run: the two maps from the entries, then the orphans,
\* except those whose status cannot be written.  Their events wait for the
\* updater.  The delete loop and settings.Run come next.
Run_NoSettings ==
  /\ phase = "down" /\ phase' = "started"
  /\ deleted' = Gone
  /\ applied' = TRUE
  /\ \E Q \in SUBSET Orphans :
       /\ \/ Q = Orphans /\ UNCHANGED failures
          \/ Q # Orphans /\ mayFail /\ failures' = failures + 1
       /\ entry' = Now(Q)
       /\ queued' = {id \in Ids : Now(Q)[id].status = "queued"}
       /\ \E order \in [1..Cardinality(Q) -> Q] :
            /\ Q = {order[i] : i \in DOMAIN order}
            /\ events' = [i \in DOMAIN order |-> EventOf(order[i], Now(Q)[order[i]])]
  /\ UNCHANGED <<stored, settings, raced, adding, notify, diff, snapshot, loop,
                 creating, dirty, crashes>>
Run ==
  /\ phase = "down" /\ phase' = "started"
  /\ deleted' = Gone
  /\ applied' = FALSE
  /\ \E Q \in SUBSET Orphans :
       /\ \/ Q = Orphans /\ UNCHANGED failures
          \/ Q # Orphans /\ mayFail /\ failures' = failures + 1
       /\ entry' = Now(Q)
       /\ queued' = {id \in Ids : Now(Q)[id].status = "queued"}
       /\ \E order \in [1..Cardinality(Q) -> Q] :
            /\ Q = {order[i] : i \in DOMAIN order}
            /\ events' = [i \in DOMAIN order |-> EventOf(order[i], Now(Q)[order[i]])]
  /\ UNCHANGED <<stored, settings, raced, adding, notify, diff, snapshot, loop,
                 creating, dirty, crashes>>

-----------------------------------------------------------------------------
Deleter ==
  \/ StartPass
  \/ \E id \in Ids : tryMarkDeleted(id)
  \/ RemoveTree
  \/ Delete
  \/ deleteBoundChildren

Next ==
  \/ OnUpdate \/ UpdateHeads \/ FillDiffRead \/ FillDiffSet
  \/ \E id \in Ids : checkTreeDeleted(id) \/ AddAll(id) \/ Add(id) \/ DeleteObject(id)
  \/ \E id \in Ids, h \in 1..2 : CreateStorage(id, h)
  \/ \E id \in Ids : \E S \in SUBSET Children(id) : ReceiveSettings(id, S)
  \/ UpdateState
  \/ Deleter \/ RemoveTreeFails
  \/ Crash \/ Run

Spec == Init /\ [][Next]_vars

\* The goroutines keep running: the delete loop has a ticker, the updater waits
\* on its queue, the components' Run is called again after a crash, and a lock
\* that is taken is released.  Nobody has to create, write or delete a tree.
Fairness ==
  /\ WF_vars(OnUpdate) /\ WF_vars(UpdateHeads)
  /\ WF_vars(FillDiffRead) /\ WF_vars(FillDiffSet) /\ WF_vars(Run)
  /\ WF_vars(UpdateState) /\ WF_vars(\E id \in Ids : Add(id))
  /\ WF_vars(Deleter)

FairSpec == Spec /\ Fairness

-----------------------------------------------------------------------------
\* Properties.

\* Once the updater has caught up, the diff that head sync advertises shows
\* exactly the entries of the head storage that are not being deleted and have
\* more than a root: whatever the order of writes, deletions, FillDiff and
\* drained events, and after any restart.  Only an id whose last write was
\* rolled back after its event was sent may differ, until a write that sends
\* another event the updater does not ignore.
DiffFollowsStorage ==
  (phase = "up" /\ events = <<>> /\ notify = <<>>)
    => \A id \in Ids \ dirty : diff[id] = Shown(entry[id])

\* Deletion is for good: no creation, write, failure or restart gives an entry
\* that is queued or deleted back the status of a live one.
DeletionIsForever ==
  [][\A id \in Ids : Deleting(id) => Deleting(id)']_vars

\* The changes of a deleted tree are gone.  The exception is a tree stored by
\* a creator that passed checkTreeDeleted before the deletion of the tree was
\* recorded, and stored it after the deletion of it, or of its parent, was.
DeletedIsGone ==
  \A id \in Ids \ raced : entry[id].status = "deleted" => id \notin stored

\* Every object deleted in the settings document is deleted on this device in
\* the end, through a crash between any two of the steps.  After a write or the
\* tree manager failed this may take a restart, and so it does for a bound object
\* stored during the deletion of its parent, which is queued again.
SettingsAreApplied ==
  \A id \in Ids :
    (id \in settings)
      ~> (entry[id].status = "deleted" \/ id \in raced \/ failures > 0)
=============================================================================
