--------------------------- MODULE DeletionProofs ---------------------------
(***************************************************************************)
(* Proofs about Deletion, for every set of ids and every bound: a deletion *)
(* is never taken back, the changes of a deleted tree are gone, and the    *)
(* diff shows what the head storage holds once the updater has caught up.  *)
(*                                                                         *)
(* First the inductive invariant, what the operators of the model compute, *)
(* and the steps of the settings object and of the delete loop; then the   *)
(* writes, the updater, FillDiff, restarts and the theorems.               *)
(***************************************************************************)
EXTENDS Deletion, TLAPS

-----------------------------------------------------------------------------
\* The inductive invariant.

\* Of which type the variables are.
StorageTypeOK ==
  /\ entry \in [Ids -> Entry]
  /\ stored \in SUBSET Ids
  /\ raced \in SUBSET Ids
  /\ creating \in SUBSET Ids
  /\ dirty \in SUBSET Ids

SyncTypeOK ==
  /\ events \in Seq(Event)
  /\ notify \in Seq(Event)
  /\ Len(notify) <= 1
  /\ diff \in [Ids -> Nat]
  /\ snapshot \in [Ids -> Nat]
  /\ phase \in {"down", "started", "filling", "up"}

LoopTypeOK ==
  /\ queued \in SUBSET Ids
  /\ deleted \in SUBSET Ids
  /\ todo \in SUBSET Ids
  /\ kids \in SUBSET Ids
  /\ step \in {"idle", "delete", "mark", "state", "children"}
  /\ step # "idle" => target \in Ids

TypeOK == StorageTypeOK /\ SyncTypeOK /\ LoopTypeOK

\* The deletion of the object, or of the one it is bound to, is recorded: a tree
\* stored under this id from now on is queued for deletion at once.
Doomed(id) == Deleting(id) \/ (id \in Child /\ Deleting(Parent[id]))

\* What the deletion state and the delete loop work on is doomed.  Once the loop
\* has found the tree missing, or has removed it, only a creator that raced with
\* it can have brought the tree back.
LoopInv ==
  /\ \A id \in queued : Deleting(id)
  /\ \A id \in todo \cup kids : Doomed(id)
  /\ step # "idle" => Doomed(target)
  /\ step \in {"mark", "state"} => target \notin stored \/ target \in raced
  /\ \A id \in raced : Deleting(id)

\* What an entry says of the tree: a live entry has heads, and it has lost its
\* tree only if it is doomed.  An id the deletion state takes for deleted while
\* its entry says otherwise is one whose status could not be written.
EntryInv ==
  /\ \A id \in Ids : entry[id].status = "none" => entry[id].heads = 0 /\ id \notin stored
  /\ \A id \in Ids : entry[id].status = "not" => entry[id].heads >= 1
  /\ \A id \in Ids : entry[id].status = "not" /\ id \notin stored => Doomed(id)
  /\ creating \cap stored = {}
  /\ \A id \in deleted :
       ~Deleting(id) => id \in dirty /\ id \notin stored /\ Doomed(id)

\* What the diff shows of the id once FillDiff is through; before FillDiff has
\* read the entries, what it is going to read.
Showing(id) ==
  IF phase \in {"down", "started"} THEN Shown(entry[id])
  ELSE IF phase = "filling" /\ snapshot[id] # 0 THEN snapshot[id] ELSE diff[id]

\* The k-th event of s is the last one about the id; s has no event about it.
LastOf(s, k, id) ==
  /\ s[k].id = id
  /\ \A j \in DOMAIN s : j > k => s[j].id # id
NoneOf(s, id) == \A j \in DOMAIN s : s[j].id # id

\* Ids whose waiting events lead the diff to the entry.
Settled(id) == Deleting(id) \/ id \notin dirty

\* The event is right about the entry.
Agrees(ev, id) ==
  IF Deleting(id) THEN ev.status # "not" ELSE ev = EventOf(id, entry[id])

\* Where nothing is announced, the last event that waits is right about the
\* entry, and where no event waits the diff already is.
EventsOK(id) ==
  Settled(id) /\ NoneOf(notify, id) =>
    /\ \A k \in DOMAIN events : LastOf(events, k, id) => Agrees(events[k], id)
    /\ NoneOf(events, id) => Showing(id) = Shown(entry[id])

\* The updater ignores events about a tree that is only its root, so that
\* nothing else may wait or show for it.
RootOK(id) ==
  id \notin dirty /\ ~Deleting(id) /\ entry[id].heads <= 1 =>
    /\ Showing(id) = 0
    /\ \A k \in DOMAIN events :
         events[k].id = id => events[k] = EventOf(id, entry[id])

\* What is announced is a deletion, and a space that has not filled its diff
\* shows nothing.
SyncInv ==
  /\ \A k \in DOMAIN notify : notify[k].status # "not" /\ Deleting(notify[k].id)
  /\ phase \in {"down", "started"} =>
       \A id \in Ids : diff[id] = 0 /\ snapshot[id] = 0
  /\ \A id \in Ids : EventsOK(id) /\ RootOK(id)

IInv == TypeOK /\ LoopInv /\ DeletedIsGone /\ EntryInv /\ SyncInv

-----------------------------------------------------------------------------
\* Entries and sequences of events.

\* Writing heads or a status gives an entry again, and never takes back a
\* deletion.
LEMMA EntryWrites ==
    ASSUME NEW e \in Entry, NEW h \in 0..MaxHeads, NEW s \in Status
    PROVE  /\ WithHeads(e, h) \in Entry
           /\ WithHeads(e, h).heads = h
           /\ WithHeads(e, h).status = IF e.status = "none" THEN "not" ELSE e.status
           /\ WithStatus(e, s) \in Entry
           /\ WithStatus(e, s).status = s
           /\ WithStatus(e, s).heads = e.heads
  BY Zenon DEF WithHeads, WithStatus, Entry, Status

\* The event about an entry that is not empty.
LEMMA EventTyped ==
    ASSUME NEW id \in Ids, NEW e \in Entry, e.status # "none"
    PROVE  /\ EventOf(id, e) \in Event
           /\ EventOf(id, e).id = id
           /\ EventOf(id, e).status = e.status
           /\ EventOf(id, e).heads = e.heads
  BY Zenon DEF EventOf, Event, Entry, Status

\* The sequence t is s with one more event, and s without its first event.
Appended(s, ev, t) ==
  /\ t \in Seq(Event)
  /\ Len(t) = Len(s) + 1
  /\ \A k \in 1..Len(s) : t[k] = s[k]
  /\ t[Len(s) + 1] = ev
Shifted(s, t) ==
  /\ t \in Seq(Event)
  /\ Len(s) >= 1
  /\ Len(t) = Len(s) - 1
  /\ \A k \in 1..Len(t) : t[k] = s[k + 1]

\* After appending an event, every event is that one or one from before.
LEMMA AppendedAny ==
    ASSUME NEW s \in Seq(Event), NEW ev \in Event, NEW t, Appended(s, ev, t)
    PROVE  \A k \in DOMAIN t : t[k] = ev \/ (k \in DOMAIN s /\ t[k] = s[k])
  BY DEF Appended

\* The appended event is the last one about its id.
LEMMA AppendedSame ==
    ASSUME NEW s \in Seq(Event), NEW ev \in Event, NEW t, NEW id,
           Appended(s, ev, t), ev.id = id
    PROVE  /\ ~NoneOf(t, id)
           /\ \A k \in DOMAIN t : LastOf(t, k, id) => t[k] = ev
<1>1. /\ Len(s) \in Nat
      /\ DOMAIN t = 1..(Len(s) + 1)
      /\ t[Len(s) + 1] = ev
  BY DEF Appended
<1> QED
  BY <1>1 DEF LastOf, NoneOf

\* The last event about another id stays the last one about it.
LEMMA AppendedOther ==
    ASSUME NEW s \in Seq(Event), NEW ev \in Event, NEW t, NEW id,
           Appended(s, ev, t), ev.id # id
    PROVE  /\ NoneOf(t, id) => NoneOf(s, id)
           /\ \A k \in DOMAIN t : LastOf(t, k, id) =>
                k \in DOMAIN s /\ t[k] = s[k] /\ LastOf(s, k, id)
<1>1. /\ Len(s) \in Nat
      /\ DOMAIN s = 1..Len(s)
      /\ DOMAIN t = 1..(Len(s) + 1)
      /\ \A k \in 1..Len(s) : t[k] = s[k]
      /\ t[Len(s) + 1] = ev
  BY DEF Appended
<1>2. NoneOf(t, id) => NoneOf(s, id)
  BY <1>1 DEF NoneOf
<1>3. \A k \in DOMAIN t : LastOf(t, k, id) =>
        k \in DOMAIN s /\ t[k] = s[k] /\ LastOf(s, k, id)
  BY <1>1 DEF LastOf
<1> QED
  BY Zenon, <1>2, <1>3

\* What taking the first event does to it.
LEMMA TailEvents ==
    ASSUME NEW s \in Seq(Event), NEW t, NEW id, Shifted(s, t)
    PROVE  /\ 1 \in DOMAIN s
           /\ \A k \in DOMAIN t : k + 1 \in DOMAIN s /\ t[k] = s[k + 1]
           /\ \A k \in DOMAIN t : LastOf(t, k, id) => LastOf(s, k + 1, id)
           /\ NoneOf(t, id) => NoneOf(s, id) \/ LastOf(s, 1, id)
<1>1. /\ Len(s) \in Nat
      /\ Len(s) >= 1
      /\ DOMAIN s = 1..Len(s)
      /\ DOMAIN t = 1..(Len(s) - 1)
      /\ \A k \in 1..(Len(s) - 1) : t[k] = s[k + 1]
  BY DEF Shifted
<1>2. \A j \in DOMAIN s : j > 1 => j - 1 \in DOMAIN t /\ s[j] = t[j - 1]
  BY <1>1
<1>3. \A k \in DOMAIN t : LastOf(t, k, id) => LastOf(s, k + 1, id)
  BY <1>1, <1>2 DEF LastOf
<1>4. NoneOf(t, id) => NoneOf(s, id) \/ LastOf(s, 1, id)
  BY <1>1, <1>2 DEF LastOf, NoneOf
<1> QED
  BY <1>1, <1>3, <1>4

\* Append adds the event.
LEMMA AppendIs ==
    ASSUME NEW s \in Seq(Event), NEW ev \in Event
    PROVE  Appended(s, ev, Append(s, ev))
  BY DEF Appended

\* Tail takes the first one away.
LEMMA TailIs ==
    ASSUME NEW s \in Seq(Event), s # <<>>
    PROVE  Shifted(s, Tail(s)) /\ Head(s) = s[1]
  BY DEF Shifted

\* Appending one or two events.
LEMMA ConcatEvents ==
    ASSUME NEW s \in Seq(Event), NEW a \in Event, NEW b \in Event
    PROVE  /\ s \o <<a>> = Append(s, a)
           /\ s \o <<a, b>> = Append(Append(s, a), b)
           /\ Append(s, a) \in Seq(Event)
           /\ Append(Append(s, a), b) \in Seq(Event)
<1>1. s \o <<a>> = Append(s, a)
  OBVIOUS
<1>2. s \o <<a, b>> = Append(Append(s, a), b)
  <2> DEFINE t == s \o <<a, b>>
             u == Append(Append(s, a), b)
  <2>1. /\ t \in Seq(Event)
        /\ Len(t) = Len(s) + 2
        /\ \A k \in 1..(Len(s) + 2) :
             t[k] = IF k <= Len(s) THEN s[k] ELSE IF k = Len(s) + 1 THEN a ELSE b
    OBVIOUS
  <2>2. /\ u \in Seq(Event)
        /\ Len(u) = Len(s) + 2
        /\ \A k \in 1..(Len(s) + 2) :
             u[k] = IF k <= Len(s) THEN s[k] ELSE IF k = Len(s) + 1 THEN a ELSE b
    OBVIOUS
  <2> HIDE DEF t, u
  <2>3. t = u
    BY <2>1, <2>2
  <2> QED
    BY Zenon, <2>3 DEF t, u
<1> QED
  BY <1>1, <1>2

-----------------------------------------------------------------------------
\* What the actions do to the entries.

\* The entry CreateStorage leaves: it is queued or deleted exactly if the tree
\* was doomed.
LEMMA CreatedEntryIs ==
    ASSUME StorageTypeOK, NEW id \in Ids, NEW h \in 1..2 \cap 1..MaxHeads
    PROVE  LET root == CreatedEntry(id)
               last == WithHeads(root, h)
           IN /\ root \in Entry /\ root.heads = 1
              /\ last \in Entry /\ last.heads = h /\ last.status = root.status
              /\ root.status # "none"
              /\ Doomed(id) <=> root.status # "not"
              /\ Deleting(id) => root.status \in {"queued", "deleted"}
              /\ h = 1 => last = root
<1> DEFINE e == WithHeads(entry[id], 1)
           root == CreatedEntry(id)
           last == WithHeads(root, h)
<1>1. entry[id] \in Entry /\ entry[id].status \in Status /\ 1 \in 0..MaxHeads /\ h \in 0..MaxHeads
  BY DeletionAssumption DEF StorageTypeOK, Entry
<1>2. /\ e \in Entry
      /\ e.heads = 1
      /\ e.status = IF entry[id].status = "none" THEN "not" ELSE entry[id].status
  BY Zenon, <1>1, EntryWrites DEF Status
<1>3. "queued" \in Status
  BY Zenon DEF Status
<1>4. /\ WithStatus(e, "queued") \in Entry
      /\ WithStatus(e, "queued").status = "queued"
      /\ WithStatus(e, "queued").heads = 1
  BY <1>1, <1>2, <1>3, EntryWrites
<1>5. root = IF id \in Child /\ Deleting(Parent[id]) THEN WithStatus(e, "queued") ELSE e
  BY Zenon DEF CreatedEntry
<1> HIDE DEF e
<1>6. root \in Entry /\ root.heads = 1 /\ root.status # "none"
  BY Zenon, <1>2, <1>4, <1>5
<1>7. Doomed(id) <=> root.status # "not"
  BY Zenon, <1>1, <1>2, <1>4, <1>5 DEF Doomed, Deleting, Status
<1>8. Deleting(id) => root.status \in {"queued", "deleted"}
  BY Zenon, <1>1, <1>2, <1>4, <1>5 DEF Doomed, Deleting, Status
<1> HIDE DEF root
<1>9. last \in Entry /\ last.heads = h /\ last.status = root.status
  BY Zenon, <1>1, <1>3, <1>6, EntryWrites
<1>10. h = 1 => last = root
  BY <1>6, <1>9 DEF Entry
<1> QED
  BY Zenon, <1>6, <1>7, <1>8, <1>9, <1>10 DEF root

\* The entry AddAll leaves.
LEMMA AddedEntryIs ==
    ASSUME StorageTypeOK, NEW id \in Ids, entry[id].heads < MaxHeads
    PROVE  LET e == WithHeads(entry[id], entry[id].heads + 1) IN
           /\ e \in Entry
           /\ e.heads = entry[id].heads + 1
           /\ e.status = IF entry[id].status = "none" THEN "not" ELSE entry[id].status
<1>1. entry[id] \in Entry /\ entry[id].heads + 1 \in 0..MaxHeads
  BY DeletionAssumption DEF StorageTypeOK, Entry
<1> QED
  BY <1>1, EntryWrites, Zenon DEF Status

\* The entry updateStatus leaves.
LEMMA StatusEntryIs ==
    ASSUME StorageTypeOK, NEW id \in Ids, NEW s \in {"queued", "deleted"}
    PROVE  LET e == WithStatus(entry[id], s) IN
           /\ e \in Entry
           /\ e.status = s
           /\ e.heads = entry[id].heads
<1>1. entry[id] \in Entry /\ 0 \in 0..MaxHeads /\ s \in Status
  BY DeletionAssumption DEF StorageTypeOK, Entry, Status
<1> QED
  BY <1>1, EntryWrites

\* The effect of a Run that queues the orphans Q.
RunTo(Q) ==
    /\ Q \subseteq Orphans
    /\ entry' = Now(Q)
    /\ Now(Q) \in [Ids -> Entry]
    /\ \A id \in Q : id \in Ids /\ Now(Q)[id].status = "queued"
    /\ \A id \in Ids \ Q : Now(Q)[id] = entry[id]
    /\ queued' = {id \in Ids : Now(Q)[id].status = "queued"}
    /\ deleted' = Gone
    /\ events' \in Seq(Event)
    /\ \A k \in DOMAIN events' : \E id \in Q : events'[k] = EventOf(id, Now(Q)[id])

\* Run leaves entries, and tells of the orphans it queues and of nothing else.
LEMMA RunIs ==
    ASSUME StorageTypeOK, Run
    PROVE  \E Q \in SUBSET Orphans : RunTo(Q)
<1>0. PICK Q \in SUBSET Orphans :
        /\ entry' = Now(Q)
        /\ queued' = {id \in Ids : Now(Q)[id].status = "queued"}
        /\ \E order \in [1..Cardinality(Q) -> Q] :
             events' = [i \in DOMAIN order |-> EventOf(order[i], Now(Q)[order[i]])]
  BY Zenon DEF Run
<1>1. \A id \in Q : id \in Ids
  BY Zenon, <1>0, DeletionAssumption DEF Orphans
<1>2. \A id \in Ids :
        /\ WithStatus(entry[id], "queued") \in Entry
        /\ WithStatus(entry[id], "queued").status = "queued"
  BY Zenon, StatusEntryIs
<1>3. Now(Q) \in [Ids -> Entry]
  BY Zenon, <1>2 DEF Now, StorageTypeOK
<1>4. \A id \in Q : id \in Ids /\ Now(Q)[id].status = "queued"
  BY Zenon, <1>1, <1>2 DEF Now
<1>5. \A id \in Ids \ Q : Now(Q)[id] = entry[id]
  BY Zenon DEF Now
<1>6. /\ entry' = Now(Q)
      /\ queued' = {id \in Ids : Now(Q)[id].status = "queued"}
      /\ deleted' = Gone
  BY Zenon, <1>0 DEF Run
<1>7. PICK order \in [1..Cardinality(Q) -> Q] :
        events' = [i \in DOMAIN order |-> EventOf(order[i], Now(Q)[order[i]])]
  BY Zenon, <1>0
<1>8. Cardinality(Q) \in Nat
  BY Zenon, <1>1, DeletionAssumption
<1>9. \A k \in 1..Cardinality(Q) : EventOf(order[k], Now(Q)[order[k]]) \in Event
  <2> SUFFICES ASSUME NEW k \in 1..Cardinality(Q)
               PROVE  EventOf(order[k], Now(Q)[order[k]]) \in Event
    OBVIOUS
  <2>1. order[k] \in Q
    OBVIOUS
  <2>2. order[k] \in Ids /\ Now(Q)[order[k]] \in Entry /\ Now(Q)[order[k]].status # "none"
    BY Zenon, <1>3, <1>4, <2>1
  <2> QED
    BY Zenon, <2>2, EventTyped
<1>10. /\ events' \in Seq(Event)
       /\ DOMAIN events' = 1..Cardinality(Q)
  BY <1>7, <1>8, <1>9
<1>11. \A k \in DOMAIN events' : \E id \in Q : events'[k] = EventOf(id, Now(Q)[id])
  BY Zenon, <1>7, <1>10
<1> QED
  BY Zenon, <1>0, <1>3, <1>4, <1>5, <1>6, <1>10, <1>11 DEF RunTo

-----------------------------------------------------------------------------
\* A deletion is never taken back.

\* No step gives an entry that is queued or deleted another status.
LEMMA DeletionKept ==
    ASSUME StorageTypeOK, Next
    PROVE  \A id \in Ids : Deleting(id) => Deleting(id)'
<1>1. ASSUME NEW id \in Ids, NEW h \in 1..2, CreateStorage(id, h)
      PROVE  \A x \in Ids : Deleting(x) => Deleting(x)'
  <2>1. h \in 1..2 \cap 1..MaxHeads
    BY Zenon, <1>1 DEF CreateStorage
  <2>2. \/ entry' = [entry EXCEPT ![id] = WithHeads(CreatedEntry(id), h)]
        \/ entry' = entry
    BY <1>1, Zenon DEF CreateStorage
  <2>3. Deleting(id) => WithHeads(CreatedEntry(id), h).status \in {"queued", "deleted"}
    BY Zenon, <2>1, CreatedEntryIs
  <2> QED
    BY Zenon, <2>2, <2>3 DEF Deleting, StorageTypeOK
<1>2. ASSUME NEW id \in Ids, AddAll(id)
      PROVE  \A x \in Ids : Deleting(x) => Deleting(x)'
  <2>1. \/ entry' = [entry EXCEPT ![id] = WithHeads(entry[id], entry[id].heads + 1)]
        \/ entry' = entry
    BY <1>2, Zenon DEF AddAll
  <2>2. Deleting(id) => WithHeads(entry[id], entry[id].heads + 1).status
                          \in {"queued", "deleted"}
    BY Zenon, <1>2, AddedEntryIs DEF AddAll, Deleting
  <2> QED
    BY Zenon, <2>1, <2>2 DEF Deleting, StorageTypeOK
<1>3. ASSUME NEW id \in Ids, Add(id)
      PROVE  \A x \in Ids : Deleting(x) => Deleting(x)'
  <2>1. \/ entry' = [entry EXCEPT ![id] = WithStatus(entry[id], "queued")]
        \/ entry' = entry
    BY <1>3, Zenon DEF Add, updateStatus
  <2>2. WithStatus(entry[id], "queued").status = "queued"
    BY Zenon, StatusEntryIs
  <2> QED
    BY Zenon, <2>1, <2>2 DEF Deleting, StorageTypeOK
<1>4. CASE Delete
  <2>1. \/ entry' = [entry EXCEPT ![target] = WithStatus(entry[target], "deleted")]
        \/ entry' = entry
    BY <1>4, Zenon DEF Delete, updateStatus
  <2>2. target \in Ids => WithStatus(entry[target], "deleted").status = "deleted"
    BY Zenon, StatusEntryIs
  <2> QED
    BY Zenon, <2>1, <2>2 DEF Deleting, StorageTypeOK
<1>5. CASE Run
  BY Zenon, <1>5, RunIs DEF RunTo, Orphans, Deleting
<1>6. ASSUME entry' = entry
      PROVE  \A x \in Ids : Deleting(x) => Deleting(x)'
  BY Zenon, <1>6 DEF Deleting
<1>7. CASE OnUpdate \/ UpdateHeads \/ FillDiffRead \/ FillDiffSet \/ UpdateState \/ Crash
  BY <1>6, <1>7, Zenon DEF OnUpdate, UpdateHeads, FillDiffRead, FillDiffSet, UpdateState,
     Crash, durable
<1>8. CASE StartPass \/ RemoveTree \/ deleteBoundChildren \/ RemoveTreeFails
  BY <1>6, <1>8, Zenon DEF StartPass, RemoveTree, deleteBoundChildren, RemoveTreeFails, durable
<1>9. ASSUME NEW id \in Ids,
             \/ checkTreeDeleted(id) \/ DeleteObject(id) \/ tryMarkDeleted(id)
             \/ \E S \in SUBSET Children(id) : ReceiveSettings(id, S)
      PROVE  \A x \in Ids : Deleting(x) => Deleting(x)'
  BY <1>6, <1>9, Zenon DEF checkTreeDeleted, DeleteObject, tryMarkDeleted, ReceiveSettings, durable
<1> QED
  BY <1>1, <1>2, <1>3, <1>4, <1>5, <1>7, <1>8, <1>9, Zenon DEF Next, Deleter

\* What is doomed stays so.
LEMMA DoomedKept ==
    ASSUME StorageTypeOK, Next
    PROVE  \A id \in Ids : Doomed(id) => Doomed(id)'
<1>1. \A id \in Child : Parent[id] \in Ids
  BY Zenon, DeletionAssumption
<1> QED
  BY <1>1, DeletionKept, Zenon DEF Doomed

-----------------------------------------------------------------------------
\* Types.

\* The ids of the bound objects.
LEMMA ChildIds ==
    ASSUME NEW id
    PROVE  Children(id) \subseteq Ids /\ \A c \in Children(id) : c \in Child /\ Parent[c] = id
  BY Zenon, DeletionAssumption DEF Children

\* What updateStatus does, to an id that is being deleted.
LEMMA updateStatusIs ==
    ASSUME StorageTypeOK, NEW id \in Ids, NEW s \in {"queued", "deleted"},
           updateStatus(id, s)
    PROVE  /\ entry' \in [Ids -> Entry]
           /\ entry'[id].status = s
           /\ entry'[id].heads = entry[id].heads
           /\ \A x \in Ids : x # id => entry'[x] = entry[x]
           /\ dirty' = dirty \ {id}
           /\ notify' \in Seq(Event)
           /\ Len(notify') <= 1
           /\ \A k \in DOMAIN notify' : notify'[k].status = s /\ notify'[k].id = id
           /\ entry'[id] # entry[id] => ~NoneOf(notify', id)
<1> DEFINE e == WithStatus(entry[id], s)
<1>1. e \in Entry /\ e.status = s /\ e.heads = entry[id].heads
  BY Zenon, StatusEntryIs
<1>2. EventOf(id, e) \in Event /\ EventOf(id, e).id = id /\ EventOf(id, e).status = s
  BY Zenon, <1>1, EventTyped
<1>3. /\ entry' = [entry EXCEPT ![id] = e]
      /\ notify' = IF e = entry[id] THEN <<>> ELSE <<EventOf(id, e)>>
      /\ dirty' = dirty \ {id}
  BY Zenon DEF updateStatus
<1> HIDE DEF e
<1>4. /\ entry' \in [Ids -> Entry]
      /\ entry'[id] = e
      /\ \A x \in Ids : x # id => entry'[x] = entry[x]
  BY Zenon, <1>1, <1>3 DEF StorageTypeOK
<1>5. /\ notify' \in Seq(Event)
      /\ Len(notify') <= 1
      /\ \A k \in DOMAIN notify' : notify'[k].status = s /\ notify'[k].id = id
  BY <1>2, <1>3
<1>6. entry'[id] # entry[id] => ~NoneOf(notify', id)
  BY <1>2, <1>3, <1>4 DEF NoneOf
<1> QED
  BY Zenon, <1>1, <1>3, <1>4, <1>5, <1>6

\* What CreateStorage does, for whatever it tells.
LEMMA CreateStorageIs ==
    ASSUME TypeOK, NEW id \in Ids, NEW h \in 1..2, CreateStorage(id, h)
    PROVE  LET root == CreatedEntry(id)
               last == WithHeads(root, h)
           IN /\ events' \in Seq(Event)
              /\ EventOf(id, root) \in Event /\ EventOf(id, last) \in Event
              /\ \/ h = 1 /\ events' = Append(events, EventOf(id, root))
                 \/ /\ h = 2
                    /\ events' = Append(Append(events, EventOf(id, root)), EventOf(id, last))
              /\ \/ entry' = [entry EXCEPT ![id] = last] /\ entry'[id] = last
                 \/ entry' = entry
              /\ entry' \in [Ids -> Entry]
              /\ \A x \in Ids : x # id => entry'[x] = entry[x] /\ (x \in dirty' <=> x \in dirty)
              /\ h \in 1..2 \cap 1..MaxHeads
<1> DEFINE root == CreatedEntry(id)
           last == WithHeads(root, h)
<1>1. h \in 1..2 \cap 1..MaxHeads
  BY Zenon DEF CreateStorage
<1>2. StorageTypeOK /\ SyncTypeOK
  BY Zenon DEF TypeOK
<1>3. root \in Entry /\ root.status # "none" /\ last \in Entry /\ last.status # "none"
  BY Zenon, <1>1, <1>2, CreatedEntryIs
<1>4. EventOf(id, root) \in Event /\ EventOf(id, last) \in Event
  BY Zenon, <1>3, EventTyped
<1>5. /\ events' = events \o (IF h = 1 THEN <<EventOf(id, root)>>
                                       ELSE <<EventOf(id, root), EventOf(id, last)>>)
      /\ entry' = [entry EXCEPT ![id] = last] \/ entry' = entry
      /\ dirty' \in {dirty, dirty \ {id}, dirty \cup {id}}
  BY Zenon DEF CreateStorage
<1> HIDE DEF root, last
<1>6. \/ h = 1 /\ events' = Append(events, EventOf(id, root))
      \/ h = 2 /\ events' = Append(Append(events, EventOf(id, root)), EventOf(id, last))
  <2>1. events \in Seq(Event)
    BY Zenon, <1>2 DEF SyncTypeOK
  <2>2. CASE h = 1
    BY Zenon, <1>4, <1>5, <2>1, <2>2, ConcatEvents
  <2>3. CASE h = 2
    BY Zenon, <1>4, <1>5, <2>1, <2>3, ConcatEvents
  <2> QED
    BY <1>1, <2>2, <2>3
<1>7. events' \in Seq(Event)
  <2>1. events \in Seq(Event)
    BY Zenon, <1>2 DEF SyncTypeOK
  <2> QED
    BY Zenon, <1>4, <1>6, <2>1, ConcatEvents
<1>8. /\ \/ entry' = [entry EXCEPT ![id] = last] /\ entry'[id] = last
         \/ entry' = entry
      /\ entry' \in [Ids -> Entry]
      /\ \A x \in Ids : x # id => entry'[x] = entry[x]
  BY <1>2, <1>3, <1>5, Zenon DEF StorageTypeOK
<1>9. \A x \in Ids : x # id => (x \in dirty' <=> x \in dirty)
  BY Zenon, <1>5
<1> QED
  BY Zenon, <1>1, <1>4, <1>6, <1>7, <1>8, <1>9 DEF root, last

\* What AddAll does.
LEMMA AddAllIs ==
    ASSUME TypeOK, NEW id \in Ids, AddAll(id)
    PROVE  LET e == WithHeads(entry[id], entry[id].heads + 1) IN
           /\ e \in Entry /\ e.status # "none" /\ e.heads = entry[id].heads + 1
           /\ e.status = IF entry[id].status = "none" THEN "not" ELSE entry[id].status
           /\ EventOf(id, e) \in Event
           /\ events' = Append(events, EventOf(id, e))
           /\ events' \in Seq(Event)
           /\ \/ entry' = [entry EXCEPT ![id] = e] /\ entry'[id] = e /\ dirty' = dirty \ {id}
              \/ entry' = entry /\ dirty' = dirty \cup {id}
           /\ entry' \in [Ids -> Entry]
           /\ \A x \in Ids : x # id => entry'[x] = entry[x] /\ (x \in dirty' <=> x \in dirty)
<1> DEFINE e == WithHeads(entry[id], entry[id].heads + 1)
<1>1. StorageTypeOK /\ SyncTypeOK
  BY Zenon DEF TypeOK
<1>2. entry[id].heads < MaxHeads
  BY Zenon DEF AddAll
<1>3. /\ e \in Entry /\ e.status # "none" /\ e.heads = entry[id].heads + 1
      /\ e.status = IF entry[id].status = "none" THEN "not" ELSE entry[id].status
  BY Zenon, <1>1, <1>2, AddedEntryIs
<1>4. EventOf(id, e) \in Event
  BY Zenon, <1>3, EventTyped
<1>5. /\ events' = Append(events, EventOf(id, e))
      /\ \/ entry' = [entry EXCEPT ![id] = e] /\ dirty' = dirty \ {id}
         \/ entry' = entry /\ dirty' = dirty \cup {id}
  BY Zenon DEF AddAll
<1> HIDE DEF e
<1>6. events' \in Seq(Event)
  BY <1>1, <1>4, <1>5 DEF SyncTypeOK
<1>7. /\ \/ entry' = [entry EXCEPT ![id] = e] /\ entry'[id] = e /\ dirty' = dirty \ {id}
         \/ entry' = entry /\ dirty' = dirty \cup {id}
      /\ entry' \in [Ids -> Entry]
      /\ \A x \in Ids : x # id => entry'[x] = entry[x] /\ (x \in dirty' <=> x \in dirty)
  BY Zenon, <1>1, <1>3, <1>5 DEF StorageTypeOK
<1> QED
  BY Zenon, <1>3, <1>4, <1>5, <1>6, <1>7 DEF e

-----------------------------------------------------------------------------
\* What an action leaves alone stays right.

\* The part on the delete loop, where the loop does not move.
LEMMA LoopFrame ==
    ASSUME TypeOK, LoopInv, Next, UNCHANGED <<todo, kids, target, step, stored, raced>>,
           \A id \in queued' : Deleting(id)'
    PROVE  LoopInv'
<1>1. \A id \in Ids : Doomed(id) => Doomed(id)'
  BY Zenon, DoomedKept DEF TypeOK
<1>2. \A id \in Ids : Deleting(id) => Deleting(id)'
  BY Zenon, DeletionKept DEF TypeOK
<1>3. \A id \in (todo \cup kids)' : Doomed(id)'
  BY Zenon, <1>1 DEF LoopInv, TypeOK, LoopTypeOK
<1>4. (step # "idle" => Doomed(target))'
  BY Zenon, <1>1 DEF LoopInv, TypeOK, LoopTypeOK, Doomed, Deleting
<1>5. \A id \in raced' : Deleting(id)'
  BY Zenon, <1>2 DEF LoopInv, TypeOK, StorageTypeOK
<1> QED
  BY Zenon, <1>3, <1>4, <1>5 DEF LoopInv

\* The part on the trees and their entries, where no entry is written.
LEMMA EntryFrame ==
    ASSUME EntryInv, DeletedIsGone, UNCHANGED <<entry, raced, creating, deleted, dirty>>,
           stored' = stored
    PROVE  EntryInv' /\ DeletedIsGone'
<1>1. \A id : (Doomed(id)' <=> Doomed(id)) /\ (Deleting(id)' <=> Deleting(id))
  BY Zenon DEF Doomed, Deleting
<1>2. EntryInv'
  BY Zenon, <1>1 DEF EntryInv
<1>3. DeletedIsGone'
  BY Zenon DEF DeletedIsGone
<1> QED
  BY Zenon, <1>2, <1>3

\* An event that waits for an id is one that waited before.
EventsKept(id) ==
  /\ \A k \in DOMAIN events' : LastOf(events', k, id) =>
       k \in DOMAIN events /\ events'[k] = events[k] /\ LastOf(events, k, id)
  /\ NoneOf(events', id) => NoneOf(events, id)
  /\ \A k \in DOMAIN events' : events'[k].id = id =>
       k \in DOMAIN events /\ events'[k] = events[k]

\* The part on one id of the diff, where nothing about the id changes.
LEMMA IdFrame ==
    ASSUME NEW id \in Ids, EventsOK(id), RootOK(id), EventsKept(id),
           entry'[id] = entry[id], Settled(id)' => Settled(id),
           Showing(id)' = Showing(id),
           NoneOf(notify', id) => NoneOf(notify, id)
    PROVE  EventsOK(id)' /\ RootOK(id)'
<1>1. Deleting(id)' <=> Deleting(id)
  BY Zenon DEF Deleting
<1>2. id \notin dirty' /\ ~Deleting(id) => id \notin dirty
  BY Zenon, <1>1 DEF Settled
<1>3. EventsOK(id)'
  <2> SUFFICES ASSUME Settled(id)', NoneOf(notify, id)'
               PROVE  /\ \A k \in DOMAIN events' :
                           LastOf(events, k, id)' => Agrees(events[k], id)'
                      /\ NoneOf(events, id)' => Showing(id)' = Shown(entry[id])'
    BY Zenon DEF EventsOK
  <2>1. NoneOf(notify, id)
    BY Zenon DEF NoneOf
  <2>2. /\ \A k \in DOMAIN events : LastOf(events, k, id) => Agrees(events[k], id)
        /\ NoneOf(events, id) => Showing(id) = Shown(entry[id])
    BY <2>1, Zenon DEF EventsOK
  <2>3. ASSUME NEW k \in DOMAIN events', LastOf(events, k, id)'
        PROVE  Agrees(events[k], id)'
    <3>1. LastOf(events', k, id)
      BY Zenon, <2>3 DEF LastOf
    <3>2. k \in DOMAIN events /\ events'[k] = events[k] /\ LastOf(events, k, id)
      BY <3>1, Zenon DEF EventsKept
    <3>3. Agrees(events[k], id)
      BY <2>2, <3>2, Zenon
    <3> QED
      BY Zenon, <1>1, <3>2, <3>3 DEF Agrees, EventOf
  <2>4. NoneOf(events, id)' => Showing(id)' = Shown(entry[id])'
    BY Zenon, <2>2 DEF EventsKept, NoneOf, Shown
  <2> QED
    BY Zenon, <2>3, <2>4
<1>4. RootOK(id)'
  BY Zenon, <1>1, <1>2 DEF RootOK, EventsKept, EventOf
<1> QED
  BY Zenon, <1>3, <1>4

\* The part on the diff, where only the tree storage and the loops move.
LEMMA SyncFrame ==
    ASSUME SyncInv, UNCHANGED <<entry, notify, events, diff, snapshot, phase>>,
           dirty \subseteq dirty'
    PROVE  SyncInv'
<1>1. ASSUME NEW id \in Ids
      PROVE  EventsOK(id)' /\ RootOK(id)'
  <2>1. EventsOK(id) /\ RootOK(id)
    BY Zenon DEF SyncInv
  <2>2. EventsKept(id)
    BY Zenon DEF EventsKept
  <2>3. Showing(id)' = Showing(id)
    BY Zenon DEF Showing, Shown
  <2>4. Settled(id)' => Settled(id)
    BY Zenon DEF Settled, Deleting
  <2> QED
    BY Zenon, <2>1, <2>2, <2>3, <2>4, IdFrame
<1>2. \A k \in DOMAIN notify' : notify'[k].status # "not" /\ Deleting(notify[k].id)'
  BY Zenon DEF SyncInv, Deleting
<1> QED
  BY Zenon, <1>1, <1>2 DEF SyncInv

-----------------------------------------------------------------------------
\* The settings object and the delete loop.

\* Nothing the invariant is about changes.
LEMMA SettingsStep ==
    ASSUME IInv, Next, UNCHANGED <<entry, stored, raced, queued, deleted, notify>>,
           UNCHANGED <<sync, loop, dirty>>,
           creating' \in SUBSET Ids, creating' \cap stored = {}
    PROVE  IInv'
<1> USE DEF sync, loop
<1>1. TypeOK'
  BY Zenon DEF IInv, TypeOK, StorageTypeOK, SyncTypeOK, LoopTypeOK
<1>2. LoopInv'
  BY Zenon DEF IInv, LoopInv, Doomed, Deleting
<1>3. DeletedIsGone'
  BY Zenon DEF IInv, DeletedIsGone
<1>4. EntryInv'
  BY Zenon DEF IInv, EntryInv, Doomed, Deleting
<1>5. SyncInv'
  BY Zenon, SyncFrame DEF IInv
<1> QED
  BY Zenon, <1>1, <1>2, <1>3, <1>4, <1>5 DEF IInv

\* The delete loop moves without touching an entry: it may remove the tree it
\* works on, and it goes on to ids that are doomed.
LEMMA LoopStep ==
    ASSUME IInv, Next,
           UNCHANGED <<entry, raced, queued, deleted, notify>>,
           UNCHANGED <<sync, creating, dirty>>,
           todo' \in SUBSET Ids, kids' \in SUBSET Ids,
           \A id \in todo' \cup kids' : Doomed(id),
           step' \in {"idle", "delete", "mark", "state", "children"},
           step' # "idle" => target' \in Ids /\ Doomed(target'),
           \/ stored' = stored
           \/ step # "idle" /\ stored' = stored \ {target},
           step' \in {"mark", "state"} => target' \notin stored' \/ target' \in raced
    PROVE  IInv'
<1> USE DEF sync
<1>1. \A id : (Doomed(id)' <=> Doomed(id)) /\ (Deleting(id)' <=> Deleting(id))
  BY Zenon DEF Doomed, Deleting
<1>2. TypeOK'
  BY Zenon DEF IInv, TypeOK, StorageTypeOK, SyncTypeOK, LoopTypeOK
<1>3. LoopInv'
  <2>1. step' # "idle" => Doomed(target)'
    BY Zenon DEF Doomed, Deleting
  <2> QED
    BY Zenon, <1>1, <2>1 DEF IInv, LoopInv
<1>4. DeletedIsGone'
  BY Zenon DEF IInv, DeletedIsGone
<1>5. EntryInv'
  <2>1. step # "idle" => Doomed(target)
    BY Zenon DEF IInv, LoopInv
  <2> QED
    BY Zenon, <1>1, <2>1 DEF IInv, EntryInv
<1>6. SyncInv'
  BY Zenon, SyncFrame DEF IInv
<1> QED
  BY Zenon, <1>2, <1>3, <1>4, <1>5, <1>6 DEF IInv

\* StartPass takes over what is queued.
LEMMA StartPassStep ==
    ASSUME IInv, Next, StartPass
    PROVE  IInv'
<1>1. /\ UNCHANGED <<entry, raced, queued, deleted, notify>>
      /\ UNCHANGED <<sync, creating, dirty>>
      /\ todo' = queued /\ kids' = kids /\ step = "idle" /\ step' = step /\ stored' = stored
  BY Zenon DEF StartPass, durable, state
<1>2. todo' \in SUBSET Ids /\ kids' \in SUBSET Ids
  BY Zenon, <1>1 DEF IInv, TypeOK, LoopTypeOK
<1>3. \A id \in todo' \cup kids' : Doomed(id)
  BY Zenon, <1>1 DEF IInv, LoopInv, Doomed
<1> QED
  BY Zenon, <1>1, <1>2, <1>3, LoopStep

\* tryMarkDeleted looks whether the tree is there.
LEMMA tryMarkDeletedStep ==
    ASSUME IInv, Next, NEW id \in Ids, tryMarkDeleted(id)
    PROVE  IInv'
<1>1. /\ UNCHANGED <<entry, raced, queued, deleted, notify>>
      /\ UNCHANGED <<sync, creating, dirty>>
      /\ stored' = stored
      /\ target' = id
      /\ step' = IF id \in stored THEN "delete" ELSE "mark"
  BY Zenon DEF tryMarkDeleted, durable, state
<1>2. todo' \subseteq todo /\ kids' \subseteq kids /\ id \in todo \cup kids
  BY Zenon DEF tryMarkDeleted
<1>3. \A x \in todo \cup kids : Doomed(x)
  BY Zenon DEF IInv, LoopInv
<1>4. todo \in SUBSET Ids /\ kids \in SUBSET Ids
  BY Zenon DEF IInv, TypeOK, LoopTypeOK
<1> QED
  BY Zenon, <1>1, <1>2, <1>3, <1>4, LoopStep

\* RemoveTree removes the tree of the target.
LEMMA RemoveTreeStep ==
    ASSUME IInv, Next, RemoveTree
    PROVE  IInv'
<1>1. /\ UNCHANGED <<entry, raced, queued, deleted, notify>>
      /\ UNCHANGED <<sync, creating, dirty>>
      /\ UNCHANGED <<todo, kids, target>>
      /\ step \in {"delete", "mark"}
      /\ step' = "state"
      /\ stored' = IF step = "delete" THEN stored \ {target} ELSE stored
  BY Zenon DEF RemoveTree, state
<1>2. /\ \A x \in todo \cup kids : Doomed(x)
      /\ Doomed(target)
      /\ step = "mark" => target \notin stored \/ target \in raced
  BY Zenon, <1>1 DEF IInv, LoopInv
<1>3. todo \in SUBSET Ids /\ kids \in SUBSET Ids /\ target \in Ids
  BY Zenon, <1>1 DEF IInv, TypeOK, LoopTypeOK
<1> QED
  BY Zenon, <1>1, <1>2, <1>3, LoopStep

\* RemoveTreeFails gives the target up.
LEMMA RemoveTreeFailsStep ==
    ASSUME IInv, Next, RemoveTreeFails
    PROVE  IInv'
<1>1. /\ UNCHANGED <<entry, raced, queued, deleted, notify>>
      /\ UNCHANGED <<sync, creating, dirty>>
      /\ UNCHANGED <<todo, kids, stored>>
      /\ step' = "idle"
  BY Zenon DEF RemoveTreeFails, state, durable
<1>2. \A x \in todo \cup kids : Doomed(x)
  BY Zenon, <1>1 DEF IInv, LoopInv
<1>3. todo \in SUBSET Ids /\ kids \in SUBSET Ids
  BY Zenon, <1>1 DEF IInv, TypeOK, LoopTypeOK
<1> QED
  BY Zenon, <1>1, <1>2, <1>3, LoopStep

\* deleteBoundChildren adds children of the target.  A target that has children
\* is no child, and so it is being deleted itself.
LEMMA deleteBoundChildrenStep ==
    ASSUME IInv, Next, deleteBoundChildren
    PROVE  IInv'
<1>1. /\ UNCHANGED <<entry, raced, queued, deleted, notify>>
      /\ UNCHANGED <<sync, creating, dirty>>
      /\ UNCHANGED <<todo, stored>>
      /\ step = "children"
      /\ step' = "idle"
      /\ kids' \subseteq kids \cup Children(target)
  BY Zenon DEF deleteBoundChildren, BoundEntries, state, durable
<1>2. \A x \in todo \cup kids : Doomed(x)
  BY Zenon, <1>1 DEF IInv, LoopInv
<1>3. \A x \in Children(target) : Doomed(x)
  <2>1. target \in Ids /\ Doomed(target)
    BY Zenon, <1>1 DEF IInv, TypeOK, LoopTypeOK, LoopInv
  <2>2. \A x \in Children(target) : x \in Child /\ Parent[x] = target /\ target \notin Child
    BY Zenon, DeletionAssumption DEF Children
  <2> QED
    BY Zenon, <2>1, <2>2 DEF Doomed
<1>4. todo \in SUBSET Ids /\ kids \in SUBSET Ids /\ Children(target) \subseteq Ids
  BY Zenon, <1>1, ChildIds DEF IInv, TypeOK, LoopTypeOK
<1>5. \A x \in todo' \cup kids' : Doomed(x)
  BY Zenon, <1>1, <1>2, <1>3
<1>6. todo' \in SUBSET Ids /\ kids' \in SUBSET Ids
  BY Zenon, <1>1, <1>4
<1> QED
  BY Zenon, <1>1, <1>5, <1>6, LoopStep

-----------------------------------------------------------------------------
\* Writing a status.

\* The part on the diff, where a status is written and its event announced.
LEMMA StatusSync ==
    ASSUME IInv, NEW id \in Ids, NEW s \in {"queued", "deleted"},
           notify = <<>>, updateStatus(id, s), UNCHANGED sync
    PROVE  SyncInv'
<1>1. /\ entry' \in [Ids -> Entry]
      /\ entry'[id].status = s
      /\ \A x \in Ids : x # id => entry'[x] = entry[x]
      /\ dirty' = dirty \ {id}
      /\ \A k \in DOMAIN notify' : notify'[k].status = s /\ notify'[k].id = id
      /\ entry'[id] # entry[id] => ~NoneOf(notify', id)
  BY updateStatusIs DEF IInv, TypeOK
<1>2. Deleting(id)'
  BY Zenon, <1>1 DEF Deleting
<1>3. \A x \in Ids : EventsKept(x) /\ NoneOf(notify, x)
  BY DEF sync, EventsKept, NoneOf
<1>4. \A x \in Ids : entry'[x] = entry[x] => Showing(x)' = Showing(x)
  BY Zenon DEF sync, Showing, Shown
<1>5. \A x \in Ids : entry'[x] = entry[x] => (Settled(x)' => Settled(x))
  <2>1. \A x \in Ids : entry'[x] = entry[x] => (Deleting(x)' <=> Deleting(x))
    BY Zenon DEF Deleting
  <2> QED
    BY Zenon, <1>1, <1>2, <2>1 DEF Settled
<1>6. ASSUME NEW x \in Ids, entry'[x] = entry[x]
      PROVE  EventsOK(x)' /\ RootOK(x)'
  <2>1. EventsOK(x) /\ RootOK(x)
    BY Zenon DEF IInv, SyncInv
  <2> QED
    BY Zenon, <1>3, <1>4, <1>5, <1>6, <2>1, IdFrame
<1>7. ASSUME entry'[id] # entry[id]
      PROVE  EventsOK(id)' /\ RootOK(id)'
  <2>1. ~NoneOf(notify, id)'
    BY Zenon, <1>1, <1>7 DEF NoneOf
  <2> QED
    BY <1>2, <2>1, Zenon DEF EventsOK, RootOK
<1>8. \A x \in Ids : EventsOK(x)' /\ RootOK(x)'
  BY Zenon, <1>1, <1>6, <1>7
<1>9. \A k \in DOMAIN notify' : notify'[k].status # "not" /\ Deleting(notify[k].id)'
  BY Zenon, <1>1, <1>2 DEF Deleting
<1>10. (phase \in {"down", "started"} => \A x \in Ids : diff[x] = 0 /\ snapshot[x] = 0)'
  BY Zenon DEF IInv, SyncInv, sync
<1> QED
  BY Zenon, <1>8, <1>9, <1>10 DEF SyncInv

\* The part on the entries, where a status is written.
LEMMA StatusEntry ==
    ASSUME IInv, Next, NEW id \in Ids, NEW s \in {"queued", "deleted"},
           updateStatus(id, s), UNCHANGED <<stored, raced, creating>>,
           s = "deleted" => id \notin stored \/ id \in raced,
           \A x \in deleted' : x \in deleted \/ x = id
    PROVE  EntryInv' /\ DeletedIsGone'
<1>1. /\ entry'[id].status = s
      /\ \A x \in Ids : x # id => entry'[x] = entry[x]
      /\ dirty' = dirty \ {id}
      /\ StorageTypeOK
      /\ deleted \in SUBSET Ids
  BY updateStatusIs DEF IInv, TypeOK, LoopTypeOK
<1>2. \A x \in Ids : Doomed(x) => Doomed(x)'
  BY Zenon, <1>1, DoomedKept
<1>3. Deleting(id)' /\ \A x \in Ids : Deleting(x) => Deleting(x)'
  BY Zenon, <1>1, DeletionKept DEF Deleting
<1>4. \A x \in deleted' : ~Deleting(x)' => x \in dirty' /\ x \notin stored' /\ Doomed(x)'
  BY Zenon, <1>1, <1>2, <1>3 DEF IInv, EntryInv
<1>5. EntryInv'
  BY Zenon, <1>1, <1>2, <1>4 DEF IInv, EntryInv
<1>6. DeletedIsGone'
  BY Zenon, <1>1 DEF IInv, DeletedIsGone
<1> QED
  BY Zenon, <1>5, <1>6

\* Add queues an id, or leaves it out.
LEMMA AddStep ==
    ASSUME IInv, Next, NEW id \in Ids, Add(id)
    PROVE  IInv'
<1>1. /\ notify = <<>>
      /\ UNCHANGED <<stored, raced, deleted, sync, loop, creating>>
  BY Zenon DEF Add
<1>2. CASE UNCHANGED <<entry, notify, dirty, queued>>
  <2>1. creating' \in SUBSET Ids /\ creating' \cap stored = {}
    BY Zenon, <1>1 DEF IInv, TypeOK, StorageTypeOK, EntryInv
  <2> QED
    BY Zenon, <1>1, <1>2, <2>1, SettingsStep
<1>3. CASE updateStatus(id, "queued") /\ queued' = queued \cup {id}
  <2>1. SyncInv'
    BY Zenon, <1>1, <1>3, StatusSync
  <2>2. EntryInv' /\ DeletedIsGone'
    BY Zenon, <1>1, <1>3, StatusEntry
  <2>3. /\ StorageTypeOK
        /\ entry' \in [Ids -> Entry]
        /\ entry'[id].status = "queued"
        /\ dirty' = dirty \ {id}
        /\ notify' \in Seq(Event)
        /\ Len(notify') <= 1
    BY Zenon, <1>3, updateStatusIs DEF IInv, TypeOK
  <2>4. TypeOK'
    BY Zenon, <1>1, <1>3, <2>3 DEF IInv, TypeOK, StorageTypeOK, SyncTypeOK, LoopTypeOK, sync, loop
  <2>5. \A x \in queued' : Deleting(x)'
    <3>1. \A x \in Ids : Deleting(x) => Deleting(x)'
      BY Zenon, <2>3, DeletionKept
    <3> QED
      BY Zenon, <1>3, <2>3, <3>1 DEF IInv, LoopInv, TypeOK, LoopTypeOK, Deleting
  <2>6. LoopInv'
    BY Zenon, <1>1, <2>5, LoopFrame DEF IInv, loop
  <2> QED
    BY Zenon, <2>1, <2>2, <2>4, <2>6 DEF IInv
<1> QED
  BY <1>2, <1>3, Zenon DEF Add

\* Delete records a deletion in the maps, and in the entry if it can.
LEMMA DeleteStep ==
    ASSUME IInv, Next, Delete
    PROVE  IInv'
<1>1. /\ notify = <<>>
      /\ step = "state"
      /\ step' = "children"
      /\ queued' = queued \ {target}
      /\ deleted' = deleted \cup {target}
      /\ UNCHANGED <<stored, raced, sync, todo, kids, target, creating>>
  BY Zenon DEF Delete, Unlocked
<1>2. /\ target \in Ids
      /\ Doomed(target)
      /\ target \notin stored \/ target \in raced
      /\ StorageTypeOK
  BY Zenon, <1>1 DEF IInv, TypeOK, LoopTypeOK, LoopInv
<1>3. /\ \A x \in Ids : Deleting(x) => Deleting(x)'
      /\ \A x \in Ids : Doomed(x) => Doomed(x)'
  BY Zenon, <1>2, DeletionKept, DoomedKept
<1>4. LoopInv'
  <2>1. \A x \in queued' : Deleting(x)'
    BY Zenon, <1>1, <1>3 DEF IInv, LoopInv, TypeOK, LoopTypeOK
  <2>2. \A x \in (todo \cup kids)' : Doomed(x)'
    BY Zenon, <1>1, <1>3 DEF IInv, LoopInv, TypeOK, LoopTypeOK
  <2>3. Doomed(target)'
    BY Zenon, <1>1, <1>2, <1>3 DEF Doomed, Deleting
  <2>4. \A x \in raced' : Deleting(x)'
    BY Zenon, <1>1, <1>2, <1>3 DEF IInv, LoopInv, StorageTypeOK
  <2> QED
    BY Zenon, <1>1, <2>1, <2>2, <2>3, <2>4 DEF LoopInv
<1>5. CASE updateStatus(target, "deleted")
  <2>1. SyncInv'
    BY Zenon, <1>1, <1>2, <1>5, StatusSync
  <2>2. EntryInv' /\ DeletedIsGone'
    BY Zenon, <1>1, <1>2, <1>5, StatusEntry
  <2>3. /\ entry' \in [Ids -> Entry]
        /\ dirty' = dirty \ {target}
        /\ notify' \in Seq(Event)
        /\ Len(notify') <= 1
    BY Zenon, <1>2, <1>5, updateStatusIs
  <2>4. TypeOK'
    BY Zenon, <1>1, <1>2, <2>3 DEF IInv, TypeOK, StorageTypeOK, SyncTypeOK, LoopTypeOK, sync
  <2> QED
    BY Zenon, <1>4, <2>1, <2>2, <2>4 DEF IInv
<1>6. CASE dirty' = dirty \cup {target} /\ UNCHANGED <<entry, notify>>
  <2>1. SyncInv'
    BY Zenon, <1>1, <1>6, SyncFrame DEF IInv, sync
  <2>2. TypeOK'
    BY Zenon, <1>1, <1>2, <1>6 DEF IInv, TypeOK, StorageTypeOK, SyncTypeOK, LoopTypeOK, sync
  <2>3. DeletedIsGone'
    BY Zenon, <1>1, <1>6 DEF IInv, DeletedIsGone
  <2>4. \A x : (Deleting(x)' <=> Deleting(x)) /\ (Doomed(x)' <=> Doomed(x))
    BY Zenon, <1>6 DEF Deleting, Doomed
  <2>5. EntryInv'
    BY Zenon, <1>1, <1>2, <1>6, <2>4 DEF IInv, EntryInv, LoopInv
  <2> QED
    BY Zenon, <1>4, <2>1, <2>2, <2>3, <2>5 DEF IInv
<1> QED
  BY <1>5, <1>6, Zenon DEF Delete

-----------------------------------------------------------------------------
\* Writing heads.

\* The part on the diff, where an id is written to and the events end with the
\* one about what is written.
LEMMA WriteSync ==
    ASSUME IInv, phase = "up", UNCHANGED <<notify, diff, snapshot, phase>>,
           NEW id \in Ids, NEW e \in Entry, e.status # "none",
           \A x \in Ids : x # id => /\ entry'[x] = entry[x]
                                    /\ x \in dirty' <=> x \in dirty
                                    /\ EventsKept(x),
           \A k \in DOMAIN events' : LastOf(events', k, id) => events'[k] = EventOf(id, e),
           ~NoneOf(events', id),
           \/ entry'[id] = e
           \/ entry'[id] = entry[id] /\ id \in dirty' /\ (Deleting(id) => e.status # "not"),
           \A x \in Ids : Deleting(x) => Deleting(x)',
           RootOK(id)'
    PROVE  SyncInv'
<1>1. EventOf(id, e).status = e.status
  BY Zenon, EventTyped
<1>2. ASSUME NEW x \in Ids, x # id
      PROVE  EventsOK(x)' /\ RootOK(x)'
  <2>1. EventsOK(x) /\ RootOK(x)
    BY Zenon DEF IInv, SyncInv
  <2>2. Showing(x)' = Showing(x)
    BY Zenon, <1>2 DEF Showing
  <2>3. Settled(x)' => Settled(x)
    BY Zenon, <1>2 DEF Settled, Deleting
  <2>4. NoneOf(notify', x) => NoneOf(notify, x)
    BY Zenon DEF NoneOf
  <2> QED
    BY Zenon, <1>2, <2>1, <2>2, <2>3, <2>4, IdFrame
<1>3. EventsOK(id)'
  <2> SUFFICES ASSUME Settled(id)'
               PROVE  /\ \A k \in DOMAIN events' :
                           LastOf(events, k, id)' => Agrees(events[k], id)'
                      /\ ~NoneOf(events, id)'
    BY Zenon DEF EventsOK
  <2>1. ~NoneOf(events, id)'
    BY Zenon DEF NoneOf
  <2>2. ASSUME NEW k \in DOMAIN events', LastOf(events, k, id)'
        PROVE  Agrees(events[k], id)'
    <3>1. LastOf(events', k, id)
      BY Zenon, <2>2 DEF LastOf
    <3>2. events'[k] = EventOf(id, e)
      BY Zenon, <3>1
    <3>3. CASE entry'[id] = e
      <4>1. Deleting(id)' => e.status # "not"
        BY Zenon, <3>3 DEF Deleting
      <4> QED
        BY Zenon, <1>1, <3>2, <3>3, <4>1 DEF Agrees, EventOf
    <3>4. CASE entry'[id] = entry[id] /\ id \in dirty' /\ (Deleting(id) => e.status # "not")
      <4>1. Deleting(id)' /\ e.status # "not"
        BY Zenon, <3>4 DEF Settled, Deleting
      <4> QED
        BY Zenon, <1>1, <3>2, <4>1 DEF Agrees
    <3> QED
      BY Zenon, <3>3, <3>4
  <2> QED
    BY Zenon, <2>1, <2>2
<1>4. \A x \in Ids : EventsOK(x)' /\ RootOK(x)'
  BY Zenon, <1>2, <1>3
<1>5. \A k \in DOMAIN notify' : notify'[k].status # "not" /\ Deleting(notify[k].id)'
  <2>1. \A k \in DOMAIN notify : notify[k].id \in Ids /\ notify[k].status # "not"
                                 /\ Deleting(notify[k].id)
    <3>1. \A k \in DOMAIN notify : notify[k] \in Event
      BY DEF IInv, TypeOK, SyncTypeOK
    <3>2. \A k \in DOMAIN notify : notify[k].status # "not" /\ Deleting(notify[k].id)
      BY Zenon DEF IInv, SyncInv
    <3> QED
      BY Zenon, <3>1, <3>2 DEF Event
  <2>2. ASSUME NEW k \in DOMAIN notify'
        PROVE  notify'[k].status # "not" /\ Deleting(notify[k].id)'
    <3>1. PICK x \in Ids : x = notify[k].id /\ Deleting(x) /\ notify[k].status # "not"
      BY Zenon, <2>1
    <3>2. Deleting(x)'
      BY Zenon, <3>1
    <3> QED
      BY Zenon, <3>1, <3>2 DEF Deleting
  <2> QED
    BY Zenon, <2>2
<1>6. phase' \notin {"down", "started"}
  OBVIOUS
<1> QED
  BY Zenon, <1>4, <1>5, <1>6 DEF SyncInv

\* An event about another id keeps those about this one.
LEMMA AppendKeeps ==
    ASSUME events \in Seq(Event), NEW ev \in Event, NEW x, ev.id # x,
           Appended(events, ev, events')
    PROVE  EventsKept(x)
<1>1. \A k \in DOMAIN events' : events'[k] = ev \/ (k \in DOMAIN events /\ events'[k] = events[k])
  BY AppendedAny, Zenon
<1>2. /\ NoneOf(events', x) => NoneOf(events, x)
      /\ \A k \in DOMAIN events' : LastOf(events', k, x) =>
           k \in DOMAIN events /\ events'[k] = events[k] /\ LastOf(events, k, x)
  BY AppendedOther, Zenon
<1> QED
  BY <1>1, <1>2, Zenon DEF EventsKept

\* AddAll writes to a tree that is open.
LEMMA AddAllStep ==
    ASSUME IInv, Next, NEW id \in Ids, AddAll(id)
    PROVE  IInv'
<1> DEFINE e == WithHeads(entry[id], entry[id].heads + 1)
<1>1. /\ e \in Entry /\ e.status # "none" /\ e.heads = entry[id].heads + 1
      /\ e.status = IF entry[id].status = "none" THEN "not" ELSE entry[id].status
      /\ EventOf(id, e) \in Event
      /\ events' = Append(events, EventOf(id, e))
      /\ events' \in Seq(Event)
      /\ \/ entry'[id] = e /\ dirty' = dirty \ {id}
         \/ entry' = entry /\ dirty' = dirty \cup {id}
      /\ entry' \in [Ids -> Entry]
      /\ \A x \in Ids : x # id => entry'[x] = entry[x] /\ (x \in dirty' <=> x \in dirty)
  BY Zenon, AddAllIs DEF IInv
<1> HIDE DEF e
<1>2. /\ phase = "up"
      /\ id \in stored
      /\ UNCHANGED <<stored, raced, creating, queued, deleted, notify>>
      /\ UNCHANGED <<diff, snapshot, phase, loop>>
  BY Zenon DEF AddAll, state
<1>3. /\ \A x \in Ids : Deleting(x) => Deleting(x)'
      /\ \A x \in Ids : Doomed(x) => Doomed(x)'
  BY Zenon, DeletionKept, DoomedKept DEF IInv, TypeOK
<1>4. EventOf(id, e).id = id /\ events \in Seq(Event)
  BY Zenon, <1>1, EventTyped DEF IInv, TypeOK, SyncTypeOK
<1>5. entry[id].status # "none" /\ entry[id].heads \in Nat
      /\ (entry[id].status = "not" => entry[id].heads >= 1)
  BY <1>2 DEF IInv, EntryInv, TypeOK, StorageTypeOK, Entry
<1>6. SyncInv'
  <2> DEFINE ev == EventOf(id, e)
  <2>0. ev \in Event /\ ev.id = id /\ Appended(events, ev, events')
    BY Zenon, <1>1, <1>4, AppendIs
  <2> HIDE DEF ev
  <2>1. \A x \in Ids : x # id => EventsKept(x)
    BY <1>4, <2>0, AppendKeeps, Zenon
  <2>2. /\ \A k \in DOMAIN events' : LastOf(events', k, id) => events'[k] = ev
        /\ ~NoneOf(events', id)
    BY <1>4, <2>0, AppendedSame
  <2>3. \A k \in DOMAIN events' : LastOf(events', k, id) => events'[k] = EventOf(id, e)
    BY Zenon, <2>2 DEF ev
  <2>4. Deleting(id) => e.status # "not"
    BY Zenon, <1>1 DEF Deleting
  <2>5. RootOK(id)'
    <3>1. CASE entry'[id] = e
      <4>1. ~Deleting(id)' => entry[id].status = "not"
        BY Zenon, <1>1, <1>5, <3>1 DEF Deleting, IInv, TypeOK, StorageTypeOK, Entry, Status
      <4>2. ~Deleting(id)' => ~(entry'[id].heads <= 1)
        BY <1>1, <1>5, <3>1, <4>1
      <4> QED
        BY <4>2, Zenon DEF RootOK
    <3>2. CASE dirty' = dirty \cup {id}
      <4>1. id \in dirty'
        BY Zenon, <3>2
      <4> QED
        BY <4>1, Zenon DEF RootOK
    <3> QED
      BY Zenon, <1>1, <3>1, <3>2
  <2> QED
    BY Zenon, <1>1, <1>2, <1>3, <2>1, <2>2, <2>3, <2>4, <2>5, WriteSync
<1>7. TypeOK'
  BY Zenon, <1>1, <1>2 DEF IInv, TypeOK, StorageTypeOK, SyncTypeOK, LoopTypeOK, loop
<1>8. LoopInv'
  <2>1. \A x \in queued' : Deleting(x)'
    BY Zenon, <1>2, <1>3 DEF IInv, LoopInv, TypeOK, LoopTypeOK
  <2> QED
    BY Zenon, <1>2, <2>1, LoopFrame DEF IInv, loop
<1>9. DeletedIsGone'
  BY Zenon, <1>1, <1>2 DEF IInv, DeletedIsGone
<1>10. EntryInv'
  <2>1. \A x \in Ids : entry'[x].status = entry[x].status
    BY Zenon, <1>1, <1>5
  <2>2. \A x \in Ids : entry'[x].status = "not" => entry'[x].heads >= 1
    BY <1>1, <1>5 DEF IInv, EntryInv
  <2>3. \A x \in deleted' : ~Deleting(x)' => x \in dirty' /\ x \notin stored' /\ Doomed(x)'
    BY Zenon, <1>1, <1>2, <1>3 DEF IInv, EntryInv, TypeOK, LoopTypeOK
  <2> QED
    BY Zenon, <1>1, <1>2, <1>3, <2>1, <2>2, <2>3 DEF IInv, EntryInv
<1> QED
  BY Zenon, <1>6, <1>7, <1>8, <1>9, <1>10 DEF IInv

\* CreateStorage stores a tree, or is rolled back after its events.
LEMMA CreateStorageStep ==
    ASSUME IInv, Next, NEW id \in Ids, NEW h \in 1..2, CreateStorage(id, h)
    PROVE  IInv'
<1> DEFINE root == CreatedEntry(id)
           last == WithHeads(root, h)
           first == EventOf(id, root)
           ev == EventOf(id, last)
<1>1. /\ events' \in Seq(Event)
      /\ first \in Event /\ ev \in Event
      /\ \/ h = 1 /\ events' = Append(events, first)
         \/ h = 2 /\ events' = Append(Append(events, first), ev)
      /\ entry'[id] = last \/ entry' = entry
      /\ entry' \in [Ids -> Entry]
      /\ \A x \in Ids : x # id => entry'[x] = entry[x] /\ (x \in dirty' <=> x \in dirty)
      /\ h \in 1..2 \cap 1..MaxHeads
  BY Zenon, CreateStorageIs DEF IInv
<1>2. /\ root \in Entry /\ root.heads = 1 /\ root.status # "none"
      /\ last \in Entry /\ last.heads = h /\ last.status = root.status
      /\ Doomed(id) <=> root.status # "not"
      /\ h = 1 => last = root
  BY Zenon, <1>1, CreatedEntryIs DEF IInv, TypeOK
<1>3. first.id = id /\ ev.id = id /\ (h = 1 => first = ev)
  BY Zenon, <1>2, EventTyped
<1>4. /\ phase = "up"
      /\ id \in creating
      /\ creating' = creating \ {id}
      /\ UNCHANGED <<queued, deleted, notify, diff, snapshot, phase, loop>>
  BY Zenon DEF CreateStorage, state
<1>5. \/ /\ entry' = [entry EXCEPT ![id] = last]
         /\ stored' = stored \cup {id}
         /\ raced' = IF last.status = "not" THEN raced ELSE raced \cup {id}
         /\ dirty' = IF h = 1 THEN dirty ELSE dirty \ {id}
      \/ /\ dirty' = dirty \cup {id}
         /\ UNCHANGED <<entry, stored, raced>>
  BY Zenon DEF CreateStorage
<1> HIDE DEF root, last, first, ev
<1>6. /\ events \in Seq(Event)
      /\ id \notin stored
      /\ entry \in [Ids -> Entry]
      /\ deleted \in SUBSET Ids /\ queued \in SUBSET Ids
  BY Zenon, <1>4 DEF IInv, EntryInv, TypeOK, SyncTypeOK, StorageTypeOK, LoopTypeOK
<1>7. /\ \A x \in Ids : Deleting(x) => Deleting(x)'
      /\ \A x \in Ids : Doomed(x) => Doomed(x)'
  BY Zenon, DeletionKept, DoomedKept DEF IInv, TypeOK
<1>8. Deleting(id) => Doomed(id)
  BY Zenon DEF Doomed
<1>9. /\ \A x \in Ids : x # id => EventsKept(x)
      /\ \A k \in DOMAIN events' : LastOf(events', k, id) => events'[k] = ev
      /\ ~NoneOf(events', id)
      /\ h = 1 => \A k \in DOMAIN events' :
                    events'[k] = ev \/ (k \in DOMAIN events /\ events'[k] = events[k])
  <2>1. CASE h = 1
    <3>1. events' = Append(events, ev)
      BY <1>1, <1>3, <2>1
    <3>2. Appended(events, ev, events')
      BY <1>1, <1>6, <3>1, AppendIs, Zenon
    <3>3. \A x \in Ids : x # id => EventsKept(x)
      BY <1>1, <1>3, <1>6, <3>2, AppendKeeps, Zenon
    <3>4. /\ \A k \in DOMAIN events' : LastOf(events', k, id) => events'[k] = ev
          /\ ~NoneOf(events', id)
      BY <1>1, <1>3, <1>6, <3>2, AppendedSame
    <3>5. \A k \in DOMAIN events' :
            events'[k] = ev \/ (k \in DOMAIN events /\ events'[k] = events[k])
      BY <1>1, <1>6, <3>2, AppendedAny
    <3> QED
      BY Zenon, <3>3, <3>4, <3>5
  <2>2. CASE h = 2
    <3> DEFINE mid == Append(events, first)
    <3>0. mid \in Seq(Event) /\ ev \in Event /\ ev.id = id
      BY <1>1, <1>3, <1>6, <2>2
    <3>1. events' = Append(mid, ev)
      BY <1>1, <2>2
    <3>2. Appended(events, first, mid)
      BY <1>1, <1>6, AppendIs, Zenon
    <3> HIDE DEF mid
    <3>3. Appended(mid, ev, events')
      BY <3>0, <3>1, AppendIs, Zenon
    <3>4. ASSUME NEW x \in Ids, x # id
          PROVE  EventsKept(x)
      <4>1. first.id # x /\ ev.id # x
        BY Zenon, <1>3, <3>4
      <4>2. /\ NoneOf(events', x) => NoneOf(mid, x)
            /\ \A k \in DOMAIN events' : LastOf(events', k, x) =>
                 k \in DOMAIN mid /\ events'[k] = mid[k] /\ LastOf(mid, k, x)
        BY Zenon, <3>0, <3>3, <4>1, AppendedOther
      <4>3. /\ NoneOf(mid, x) => NoneOf(events, x)
            /\ \A k \in DOMAIN mid : LastOf(mid, k, x) =>
                 k \in DOMAIN events /\ mid[k] = events[k] /\ LastOf(events, k, x)
        BY <1>1, <1>6, <3>2, <4>1, AppendedOther, Zenon
      <4>4. \A k \in DOMAIN events' : events'[k] = ev \/ (k \in DOMAIN mid /\ events'[k] = mid[k])
        BY <3>0, <3>3, AppendedAny
      <4>5. \A k \in DOMAIN mid : mid[k] = first \/ (k \in DOMAIN events /\ mid[k] = events[k])
        BY <1>1, <1>6, <3>2, AppendedAny
      <4>6. \A k \in DOMAIN events' : events'[k].id = x =>
              k \in DOMAIN events /\ events'[k] = events[k]
        BY Zenon, <4>1, <4>4, <4>5
      <4>7. \A k \in DOMAIN events' : LastOf(events', k, x) =>
              k \in DOMAIN events /\ events'[k] = events[k] /\ LastOf(events, k, x)
        BY Zenon, <4>2, <4>3
      <4> QED
        BY <4>2, <4>3, <4>6, <4>7, Zenon DEF EventsKept
    <3>5. /\ \A k \in DOMAIN events' : LastOf(events', k, id) => events'[k] = ev
          /\ ~NoneOf(events', id)
      BY <3>0, <3>3, AppendedSame
    <3> QED
      BY <2>2, <3>4, <3>5
  <2> QED
    BY <2>1, <2>2
<1>10. RootOK(id)'
  <2> SUFFICES ASSUME id \notin dirty', ~Deleting(id)', entry'[id].heads <= 1
               PROVE  /\ Showing(id)' = 0
                      /\ \A k \in DOMAIN events' :
                           events'[k].id = id => events'[k] = EventOf(id, entry[id])'
    BY Zenon DEF RootOK
  <2>1. /\ entry'[id] = last
        /\ h = 1
        /\ dirty' = dirty
        /\ last.status = "not"
    BY <1>2, <1>5, <1>6 DEF Deleting, Entry, Status
  <2>2. ~Doomed(id) /\ ~Deleting(id)
    BY Zenon, <1>2, <1>8, <2>1
  <2>3. entry[id].status = "none" /\ entry[id].heads = 0
    BY Zenon, <1>6, <2>2 DEF IInv, EntryInv, Deleting, Entry, Status
  <2>4. /\ Showing(id) = 0
        /\ \A k \in DOMAIN events : events[k].id = id => events[k] = EventOf(id, entry[id])
    BY <2>1, <2>2, <2>3 DEF IInv, SyncInv, RootOK
  <2>5. \A k \in DOMAIN events : events[k].id # id
    <3>1. \A k \in DOMAIN events : events[k] \in Event
      BY <1>6
    <3>2. EventOf(id, entry[id]).status = "none"
      BY Zenon, <2>3 DEF EventOf
    <3> QED
      BY Zenon, <2>4, <3>1, <3>2 DEF Event
  <2>6. \A k \in DOMAIN events' : events'[k].id = id => events'[k] = ev
    BY Zenon, <1>9, <2>1, <2>5
  <2>7. Showing(id)' = 0
    BY Zenon, <1>4, <2>4 DEF Showing
  <2> QED
    BY Zenon, <2>1, <2>6, <2>7 DEF ev, EventOf
<1>11. SyncInv'
  <2>1. \A k \in DOMAIN events' : LastOf(events', k, id) => events'[k] = EventOf(id, last)
    BY Zenon, <1>9 DEF ev
  <2>2. \/ entry'[id] = last
        \/ entry'[id] = entry[id] /\ id \in dirty' /\ (Deleting(id) => last.status # "not")
    BY Zenon, <1>2, <1>5, <1>6, <1>8
  <2>3. last.status # "none"
    BY Zenon, <1>2
  <2> QED
    BY Zenon, <1>1, <1>2, <1>4, <1>7, <1>9, <1>10, <2>1, <2>2, <2>3, WriteSync
<1>12. TypeOK'
  BY Zenon, <1>1, <1>4, <1>5 DEF IInv, TypeOK, StorageTypeOK, SyncTypeOK, LoopTypeOK, loop
<1>13. LoopInv'
  <2>1. \A x \in queued' : Deleting(x)'
    BY Zenon, <1>4, <1>6, <1>7 DEF IInv, LoopInv
  <2>2. \A x \in (todo \cup kids)' : Doomed(x)'
    BY Zenon, <1>4, <1>7 DEF IInv, LoopInv, TypeOK, LoopTypeOK, loop
  <2>3. (step # "idle" => Doomed(target))'
    BY Zenon, <1>4, <1>7 DEF IInv, LoopInv, TypeOK, LoopTypeOK, loop, Doomed, Deleting
  <2>4. \A x \in raced' : Deleting(x)'
    <3>1. \A x \in raced : x \in Ids /\ Deleting(x)
      BY Zenon DEF IInv, LoopInv, TypeOK, StorageTypeOK
    <3>2. id \in raced' => id \in raced \/ (entry'[id] = last /\ last.status # "not")
      BY Zenon, <1>5, <1>6
    <3>3. id \in raced' => Deleting(id)'
      BY Zenon, <1>2, <1>7, <3>1, <3>2 DEF Deleting, Entry, Status
    <3> QED
      BY Zenon, <1>5, <1>7, <3>1, <3>3
  <2>5. (step \in {"mark", "state"} => target \notin stored \/ target \in raced)'
    <3>1. step \in {"mark", "state"} => Doomed(target) /\ (target \notin stored \/ target \in raced)
      BY Zenon DEF IInv, LoopInv
    <3>2. step' = step /\ target' = target
      BY Zenon, <1>4 DEF loop
    <3> QED
      BY Zenon, <1>2, <1>5, <3>1, <3>2
  <2> QED
    BY Zenon, <2>1, <2>2, <2>3, <2>4, <2>5 DEF LoopInv
<1>14. DeletedIsGone'
  BY <1>1, <1>2, <1>5, <1>6 DEF IInv, DeletedIsGone
<1>15. EntryInv'
  <2>1. \A x \in Ids : entry'[x].status = "none" => entry'[x].heads = 0 /\ x \notin stored'
    BY Zenon, <1>1, <1>2, <1>5, <1>6 DEF IInv, EntryInv
  <2>2. \A x \in Ids : entry'[x].status = "not" => entry'[x].heads >= 1
    BY <1>1, <1>2, <1>5, <1>6 DEF IInv, EntryInv
  <2>3. \A x \in Ids : entry'[x].status = "not" /\ x \notin stored' => Doomed(x)'
    BY Zenon, <1>1, <1>5, <1>6, <1>7 DEF IInv, EntryInv
  <2>4. creating' \cap stored' = {}
    BY Zenon, <1>4, <1>5, <1>6 DEF IInv, EntryInv
  <2>5. ASSUME NEW x \in deleted', ~Deleting(x)'
        PROVE  x \in dirty' /\ x \notin stored' /\ Doomed(x)'
    <3>1. x \in Ids /\ x \in deleted /\ ~Deleting(x)
      BY Zenon, <1>4, <1>6, <1>7, <2>5
    <3>2. x \in dirty /\ x \notin stored /\ Doomed(x)
      BY Zenon, <3>1 DEF IInv, EntryInv
    <3>3. x = id => entry'[id] # last
      BY Zenon, <1>2, <2>5, <3>2 DEF Deleting, Entry, Status
    <3> QED
      BY Zenon, <1>5, <1>6, <1>7, <3>1, <3>2, <3>3
  <2> QED
    BY Zenon, <2>1, <2>2, <2>3, <2>4, <2>5 DEF EntryInv
<1> QED
  BY Zenon, <1>11, <1>12, <1>13, <1>14, <1>15 DEF IInv

-----------------------------------------------------------------------------
\* Head sync.

\* The parts that are not about the diff, where only the diff moves.
LEMMA OtherParts ==
    ASSUME IInv, UNCHANGED <<durable, queued, deleted, loop, creating, dirty>>
    PROVE  LoopInv' /\ DeletedIsGone' /\ EntryInv' /\ StorageTypeOK' /\ LoopTypeOK'
<1> USE DEF durable, loop
<1>1. LoopInv'
  BY Zenon DEF IInv, LoopInv, Doomed, Deleting
<1>2. DeletedIsGone' /\ EntryInv'
  BY Zenon, EntryFrame DEF IInv
<1>3. StorageTypeOK' /\ LoopTypeOK'
  BY Zenon DEF IInv, TypeOK, StorageTypeOK, LoopTypeOK
<1> QED
  BY Zenon, <1>1, <1>2, <1>3

\* OnUpdate enqueues the event that was announced.
LEMMA OnUpdateStep ==
    ASSUME IInv, OnUpdate
    PROVE  IInv'
<1>1. /\ notify # <<>>
      /\ events' = events \o notify
      /\ notify' = <<>>
      /\ UNCHANGED <<durable, queued, deleted, loop, creating, dirty>>
      /\ UNCHANGED <<diff, snapshot, phase>>
  BY Zenon DEF OnUpdate
<1>2. LoopInv' /\ DeletedIsGone' /\ EntryInv' /\ StorageTypeOK' /\ LoopTypeOK'
  BY Zenon, <1>1, OtherParts
<1>3. PICK ev \in Event : notify = <<ev>>
  <2>1. notify \in Seq(Event) /\ Len(notify) <= 1 /\ notify # <<>>
    BY Zenon, <1>1 DEF IInv, TypeOK, SyncTypeOK
  <2>2. Len(notify) = 1
    <3>1. Len(notify) \in Nat /\ Len(notify) # 0 /\ Len(notify) <= 1
      BY <2>1
    <3>2. \A n \in Nat : n # 0 /\ n <= 1 => n = 1
      OBVIOUS
    <3> QED
      BY <3>1, <3>2, Zenon
  <2>3. notify[1] \in Event /\ notify = <<notify[1]>>
    BY <2>1, <2>2
  <2> QED
    BY Zenon, <2>3
<1>4. events \in Seq(Event)
  BY Zenon DEF IInv, TypeOK, SyncTypeOK
<1>5. events' = Append(events, ev) /\ events' \in Seq(Event)
  BY Zenon, <1>1, <1>3, <1>4, ConcatEvents
<1>6. Appended(events, ev, events')
  BY <1>4, <1>5, AppendIs, Zenon
<1>7. ev.status # "not" /\ Deleting(ev.id) /\ ev.id \in Ids
  <2>1. 1 \in DOMAIN notify /\ notify[1] = ev
    BY <1>3
  <2> QED
    BY Zenon, <2>1 DEF IInv, SyncInv, Event
<1>8. \A x \in Ids : /\ Deleting(x)' <=> Deleting(x)
                     /\ Settled(x)' <=> Settled(x)
                     /\ Showing(x)' = Showing(x)
                     /\ entry'[x] = entry[x]
  BY Zenon, <1>1 DEF Deleting, Settled, Showing, Shown, durable
<1>9. ASSUME NEW x \in Ids, x # ev.id
      PROVE  EventsOK(x)' /\ RootOK(x)'
  <2>1. EventsKept(x)
    BY Zenon, <1>4, <1>6, <1>9, AppendKeeps
  <2>2. NoneOf(notify, x)
    BY <1>3, <1>9 DEF NoneOf
  <2>3. EventsOK(x) /\ RootOK(x)
    BY Zenon DEF IInv, SyncInv
  <2> QED
    BY Zenon, <1>8, <2>1, <2>2, <2>3, IdFrame
<1>10. ASSUME NEW x \in Ids, x = ev.id
       PROVE  EventsOK(x)' /\ RootOK(x)'
  <2>1. Deleting(x)'
    BY Zenon, <1>7, <1>8, <1>10
  <2>2. RootOK(x)'
    BY <2>1, Zenon DEF RootOK
  <2>3. /\ ~NoneOf(events', x)
        /\ \A k \in DOMAIN events' : LastOf(events', k, x) => events'[k] = ev
    BY <1>4, <1>6, <1>10, AppendedSame
  <2>4. ~NoneOf(events, x)'
    BY Zenon, <2>3 DEF NoneOf
  <2>5. ASSUME NEW k \in DOMAIN events', LastOf(events, k, x)'
        PROVE  Agrees(events[k], x)'
    <3>1. LastOf(events', k, x)
      BY Zenon, <2>5 DEF LastOf
    <3>2. events'[k] = ev
      BY Zenon, <2>3, <3>1
    <3> QED
      BY Zenon, <1>7, <2>1, <3>2 DEF Agrees
  <2>6. EventsOK(x)'
    BY <2>4, <2>5, Zenon DEF EventsOK
  <2> QED
    BY Zenon, <2>2, <2>6
<1>11. SyncInv'
  <2>1. \A x \in Ids : EventsOK(x)' /\ RootOK(x)'
    BY Zenon, <1>9, <1>10
  <2>2. DOMAIN notify' = {}
    BY <1>1
  <2>3. (phase \in {"down", "started"} => \A x \in Ids : diff[x] = 0 /\ snapshot[x] = 0)'
    BY Zenon, <1>1 DEF IInv, SyncInv
  <2> QED
    BY Zenon, <2>1, <2>2, <2>3 DEF SyncInv
<1>12. SyncTypeOK'
  BY <1>1, <1>5 DEF IInv, TypeOK, SyncTypeOK
<1> QED
  BY Zenon, <1>2, <1>11, <1>12 DEF IInv, TypeOK

\* UpdateHeads takes the first event.  The one that is the last about an id
\* leaves the diff as the entry is.
LEMMA UpdateHeadsStep ==
    ASSUME IInv, UpdateHeads
    PROVE  IInv'
<1> DEFINE ev == Head(events)
<1>1. /\ phase = "up"
      /\ events # <<>>
      /\ diff' = DiffAfter(ev)
      /\ events' = Tail(events)
      /\ UNCHANGED <<durable, queued, deleted, loop, creating, dirty>>
      /\ UNCHANGED <<notify, snapshot, phase>>
  BY Zenon DEF UpdateHeads, state
<1>2. LoopInv' /\ DeletedIsGone' /\ EntryInv' /\ StorageTypeOK' /\ LoopTypeOK'
  BY Zenon, <1>1, OtherParts
<1>3. events \in Seq(Event) /\ diff \in [Ids -> Nat] /\ entry \in [Ids -> Entry]
  BY Zenon DEF IInv, TypeOK, SyncTypeOK, StorageTypeOK
<1>4. Shifted(events, events') /\ ev = events[1]
  BY Zenon, <1>1, <1>3, TailIs
<1>5. ev \in Event
  BY <1>1, <1>3
<1> HIDE DEF ev
<1>6. ev.id \in Ids /\ ev.heads \in Nat /\ ev.status # "none"
  BY <1>5, DeletionAssumption DEF Event
<1>7. diff' = IF ev.status # "not" THEN [diff EXCEPT ![ev.id] = 0]
              ELSE IF ev.id \in queued \cup deleted \/ ev.heads = 1 THEN diff
              ELSE [diff EXCEPT ![ev.id] = ev.heads]
  BY Zenon, <1>1 DEF DiffAfter
<1>8. diff' \in [Ids -> Nat] /\ \A x \in Ids : x # ev.id => diff'[x] = diff[x]
  BY Zenon, <1>3, <1>6, <1>7
<1>9. \A x \in Ids : /\ Deleting(x)' <=> Deleting(x)
                     /\ Settled(x)' <=> Settled(x)
                     /\ Showing(x) = diff[x]
                     /\ Showing(x)' = diff'[x]
                     /\ entry'[x] = entry[x]
  BY Zenon, <1>1 DEF Deleting, Settled, Showing, durable
<1>10. /\ 1 \in DOMAIN events
       /\ \A k \in DOMAIN events' : k + 1 \in DOMAIN events /\ events'[k] = events[k + 1]
  BY <1>3, <1>4, TailEvents, Zenon
<1>11. ASSUME NEW x \in Ids, EventsOK(x), RootOK(x)
       PROVE  RootOK(x)'
  <2> SUFFICES ASSUME x \notin dirty, ~Deleting(x), entry[x].heads <= 1
               PROVE  /\ diff'[x] = 0
                      /\ \A k \in DOMAIN events' :
                           events'[k].id = x => events'[k] = EventOf(x, entry[x])
    BY Zenon, <1>1, <1>9 DEF RootOK, EventOf
  <2>1. /\ diff[x] = 0
        /\ \A k \in DOMAIN events : events[k].id = x => events[k] = EventOf(x, entry[x])
    BY Zenon, <1>9, <1>11 DEF RootOK
  <2>2. \A k \in DOMAIN events' : events'[k].id = x => events'[k] = EventOf(x, entry[x])
    BY Zenon, <1>10, <2>1
  <2>3. diff'[x] = 0
    <3>1. CASE ev.id # x
      BY Zenon, <1>8, <2>1, <3>1
    <3>2. CASE ev.id = x
      <4>1. ev = EventOf(x, entry[x])
        BY Zenon, <1>4, <1>10, <2>1, <3>2
      <4>2. ev.status = entry[x].status /\ ev.heads = entry[x].heads
        BY Zenon, <4>1 DEF EventOf
      <4>3. entry[x].status \in Status /\ entry[x].heads \in Nat
        BY <1>3, DeletionAssumption DEF Entry
      <4>4. entry[x].status = "not"
        BY Zenon, <1>6, <4>2, <4>3 DEF Status, Deleting
      <4>5. ev.heads = 1
        BY <4>2, <4>3, <4>4 DEF IInv, EntryInv
      <4> QED
        BY Zenon, <1>3, <1>7, <2>1, <4>5
    <3> QED
      BY Zenon, <3>1, <3>2
  <2> QED
    BY Zenon, <2>2, <2>3
<1>12. ASSUME NEW x \in Ids, EventsOK(x), RootOK(x)
       PROVE  EventsOK(x)'
  <2> SUFFICES ASSUME Settled(x), NoneOf(notify, x)
               PROVE  /\ \A k \in DOMAIN events' :
                           LastOf(events, k, x)' => Agrees(events[k], x)'
                      /\ NoneOf(events, x)' => Showing(x)' = Shown(entry[x])'
    <3>1. NoneOf(notify, x)' => NoneOf(notify, x)
      BY Zenon, <1>1 DEF NoneOf
    <3> QED
      BY <1>9, <3>1, Zenon DEF EventsOK
  <2>1. /\ \A k \in DOMAIN events : LastOf(events, k, x) => Agrees(events[k], x)
        /\ NoneOf(events, x) => Showing(x) = Shown(entry[x])
    BY <1>12, Zenon DEF EventsOK
  <2>2. /\ \A k \in DOMAIN events' : LastOf(events', k, x) => LastOf(events, k + 1, x)
        /\ NoneOf(events', x) => NoneOf(events, x) \/ LastOf(events, 1, x)
    BY <1>3, <1>4, TailEvents, Zenon
  <2>3. ASSUME NEW k \in DOMAIN events', LastOf(events, k, x)'
        PROVE  Agrees(events[k], x)'
    <3>1. LastOf(events', k, x)
      BY Zenon, <2>3 DEF LastOf
    <3>2. Agrees(events[k + 1], x) /\ events'[k] = events[k + 1]
      BY Zenon, <1>10, <2>1, <2>2, <3>1
    <3> QED
      BY Zenon, <1>9, <3>2 DEF Agrees, EventOf
  <2>4. ASSUME NoneOf(events, x)'
        PROVE  Showing(x)' = Shown(entry[x])'
    <3>1. NoneOf(events', x)
      BY Zenon, <2>4 DEF NoneOf
    <3>2. CASE NoneOf(events, x)
      <4>1. ev.id # x
        BY Zenon, <1>4, <1>10, <3>2 DEF NoneOf
      <4> QED
        BY Zenon, <1>8, <1>9, <2>1, <3>2, <4>1 DEF Shown
    <3>3. CASE LastOf(events, 1, x)
      <4>1. ev.id = x
        BY Zenon, <1>4, <3>3 DEF LastOf
      <4>2. Agrees(ev, x)
        BY Zenon, <1>4, <1>10, <2>1, <3>3
      <4>3. entry[x].status \in Status /\ entry[x].heads \in Nat
        BY <1>3, DeletionAssumption DEF Entry
      <4>4. CASE Deleting(x)
        <5>1. ev.status # "not"
          BY Zenon, <4>2, <4>4 DEF Agrees
        <5>2. diff'[x] = 0
          BY Zenon, <1>3, <1>6, <1>7, <4>1, <5>1
        <5> QED
          BY Zenon, <1>9, <4>4, <5>2 DEF Shown, Deleting
      <4>5. CASE ~Deleting(x)
        <5>1. ev = EventOf(x, entry[x])
          BY Zenon, <4>2, <4>5 DEF Agrees
        <5>2. ev.status = entry[x].status /\ ev.heads = entry[x].heads
          BY Zenon, <5>1 DEF EventOf
        <5>3. ev.status = "not" /\ ev.heads >= 1
          BY Zenon, <1>6, <4>3, <4>5, <5>2 DEF Status, Deleting, IInv, EntryInv
        <5>4. x \notin dirty
          BY Zenon, <4>5 DEF Settled
        <5>5. x \notin queued \cup deleted
          BY Zenon, <4>5, <5>4 DEF IInv, LoopInv, EntryInv
        <5>6. entry'[x] = entry[x] /\ Showing(x)' = diff'[x]
          BY Zenon, <1>9
        <5>7. CASE ev.heads = 1
          <6>1. diff[x] = 0
            BY <1>9, <1>12, <4>5, <5>2, <5>4, <5>7 DEF RootOK
          <6>2. diff'[x] = 0
            BY Zenon, <1>7, <5>3, <5>7, <6>1
          <6> QED
            BY <4>3, <5>2, <5>6, <5>7, <6>2 DEF Shown
        <5>8. CASE ev.heads # 1
          <6>1. diff'[x] = ev.heads
            BY Zenon, <1>3, <1>6, <1>7, <4>1, <5>3, <5>5, <5>8
          <6>2. entry[x].heads > 1 /\ entry[x].status = "not"
            BY <4>3, <5>2, <5>3, <5>8
          <6>3. Shown(entry[x])' = entry[x].heads
            BY Zenon, <5>6, <6>2 DEF Shown
          <6> QED
            BY Zenon, <5>2, <5>6, <6>1, <6>3
        <5> QED
          BY Zenon, <5>7, <5>8
      <4> QED
        BY Zenon, <4>4, <4>5
    <3> QED
      BY Zenon, <2>2, <3>1, <3>2, <3>3
  <2> QED
    BY Zenon, <2>3, <2>4
<1>13. SyncInv'
  <2>1. \A x \in Ids : EventsOK(x)' /\ RootOK(x)'
    BY Zenon, <1>11, <1>12 DEF IInv, SyncInv
  <2>2. \A k \in DOMAIN notify' : notify'[k].status # "not" /\ Deleting(notify[k].id)'
    BY Zenon, <1>1 DEF IInv, SyncInv, Deleting, durable
  <2>3. phase' \notin {"down", "started"}
    BY Zenon, <1>1
  <2> QED
    BY Zenon, <2>1, <2>2, <2>3 DEF SyncInv
<1>14. SyncTypeOK'
  <2>1. events' \in Seq(Event)
    BY Zenon, <1>4 DEF Shifted
  <2> QED
    BY Zenon, <1>1, <1>8, <2>1 DEF IInv, TypeOK, SyncTypeOK
<1> QED
  BY Zenon, <1>2, <1>13, <1>14 DEF IInv, TypeOK

\* FillDiff reads the entries, and sets the diff to what it read: what shows
\* does not change, at either step.
LEMMA FillDiffStep ==
    ASSUME IInv, FillDiffRead \/ FillDiffSet
    PROVE  IInv'
<1>1. UNCHANGED <<durable, queued, deleted, loop, creating, dirty, events, notify>>
  BY Zenon DEF FillDiffRead, FillDiffSet, state
<1>2. LoopInv' /\ DeletedIsGone' /\ EntryInv' /\ StorageTypeOK' /\ LoopTypeOK'
  BY Zenon, <1>1, OtherParts
<1>3. entry \in [Ids -> Entry] /\ diff \in [Ids -> Nat] /\ snapshot \in [Ids -> Nat]
  BY Zenon DEF IInv, TypeOK, StorageTypeOK, SyncTypeOK
<1>4. \A x \in Ids : Shown(entry[x]) \in Nat
  BY <1>3, DeletionAssumption DEF Shown, Entry
<1>5. /\ \A x \in Ids : Showing(x)' = Showing(x)
      /\ diff' \in [Ids -> Nat] /\ snapshot' \in [Ids -> Nat]
      /\ phase' \in {"filling", "up"}
  <2>1. CASE FillDiffRead
    <3>1. /\ phase = "started" /\ phase' = "filling" /\ diff' = diff
          /\ snapshot' = [id \in Ids |-> Shown(entry[id])]
      BY Zenon, <2>1 DEF FillDiffRead
    <3>2. \A x \in Ids : diff[x] = 0
      BY Zenon, <3>1 DEF IInv, SyncInv
    <3>3. \A x \in Ids : snapshot'[x] = Shown(entry[x])
      BY Zenon, <3>1
    <3>4. \A x \in Ids : Showing(x) = Shown(entry[x])
      BY Zenon, <3>1 DEF Showing
    <3>5. \A x \in Ids : Showing(x)' = IF snapshot'[x] # 0 THEN snapshot'[x] ELSE diff[x]
      BY Zenon, <3>1 DEF Showing
    <3> QED
      BY Zenon, <1>3, <1>4, <3>1, <3>2, <3>3, <3>4, <3>5
  <2>2. CASE FillDiffSet
    <3>1. /\ phase = "filling" /\ phase' = "up"
          /\ diff' = [id \in Ids |-> IF snapshot[id] # 0 THEN snapshot[id] ELSE diff[id]]
          /\ snapshot' = [id \in Ids |-> 0]
      BY Zenon, <2>2 DEF FillDiffSet
    <3>2. \A x \in Ids : Showing(x) = IF snapshot[x] # 0 THEN snapshot[x] ELSE diff[x]
      BY Zenon, <3>1 DEF Showing
    <3>3. \A x \in Ids : Showing(x)' = diff'[x]
      BY Zenon, <3>1 DEF Showing
    <3> QED
      BY Zenon, <1>3, <3>1, <3>2, <3>3
  <2> QED
    BY Zenon, <2>1, <2>2
<1>6. SyncTypeOK'
  BY Zenon, <1>1, <1>5 DEF IInv, TypeOK, SyncTypeOK
<1>7. ASSUME NEW x \in Ids
      PROVE  EventsOK(x)' /\ RootOK(x)'
  <2>1. EventsOK(x) /\ RootOK(x)
    BY Zenon DEF IInv, SyncInv
  <2>2. EventsKept(x)
    BY Zenon, <1>1 DEF EventsKept
  <2>3. Settled(x)' => Settled(x)
    BY Zenon, <1>1 DEF Settled, Deleting, durable
  <2>4. entry'[x] = entry[x] /\ (NoneOf(notify', x) => NoneOf(notify, x))
    BY Zenon, <1>1 DEF durable
  <2> QED
    BY Zenon, <1>5, <2>1, <2>2, <2>3, <2>4, IdFrame
<1>8. \A k \in DOMAIN notify' : notify'[k].status # "not" /\ Deleting(notify[k].id)'
  BY Zenon, <1>1 DEF IInv, SyncInv, Deleting, durable
<1>9. SyncInv'
  BY Zenon, <1>5, <1>7, <1>8 DEF SyncInv
<1> QED
  BY Zenon, <1>2, <1>6, <1>9 DEF IInv, TypeOK

-----------------------------------------------------------------------------
\* Restarting.

\* Crash forgets everything that waits, and with it what was wrong.
LEMMA CrashStep ==
    ASSUME IInv, Crash
    PROVE  IInv'
<1>1. /\ UNCHANGED <<entry, stored, raced>>
      /\ phase' = "down"
      /\ queued' = {} /\ deleted' = {}
      /\ notify' = <<>> /\ events' = <<>>
      /\ diff' = [id \in Ids |-> 0] /\ snapshot' = [id \in Ids |-> 0]
      /\ todo' = {} /\ kids' = {} /\ step' = "idle"
      /\ creating' = {} /\ dirty' = {}
  BY Zenon DEF Crash, durable
<1>2. TypeOK'
  BY <1>1 DEF IInv, TypeOK, StorageTypeOK, SyncTypeOK, LoopTypeOK
<1>3. LoopInv'
  BY Zenon, <1>1 DEF IInv, LoopInv, Deleting
<1>4. DeletedIsGone'
  BY Zenon, <1>1 DEF IInv, DeletedIsGone
<1>5. EntryInv'
  BY Zenon, <1>1 DEF IInv, EntryInv, Doomed, Deleting
<1>6. \A x \in Ids : Showing(x)' = Shown(entry[x])'
  BY Zenon, <1>1 DEF Showing
<1>7. DOMAIN events' = {} /\ DOMAIN notify' = {}
  BY <1>1
<1>8. ASSUME NEW x \in Ids
      PROVE  EventsOK(x)' /\ RootOK(x)'
  <2>1. EventsOK(x)'
    BY <1>6, <1>7, Zenon DEF EventsOK
  <2>2. entry'[x].heads <= 1 => Shown(entry[x])' = 0
    <3>1. entry'[x].heads \in Nat
      BY <1>2, DeletionAssumption DEF TypeOK, StorageTypeOK, Entry
    <3> QED
      BY <3>1 DEF Shown
  <2>3. RootOK(x)'
    BY <1>6, <1>7, <2>2, Zenon DEF RootOK
  <2> QED
    BY Zenon, <2>1, <2>3
<1>9. SyncInv'
  BY Zenon, <1>1, <1>7, <1>8 DEF SyncInv
<1> QED
  BY Zenon, <1>2, <1>3, <1>4, <1>5, <1>9 DEF IInv

\* Run queues the orphans and tells of them.
LEMMA RunStep ==
    ASSUME IInv, Next, Run
    PROVE  IInv'
<1>0. PICK Q \in SUBSET Orphans : RunTo(Q)
  BY Zenon, RunIs DEF IInv, TypeOK
<1>1. /\ entry' = Now(Q)
      /\ Now(Q) \in [Ids -> Entry]
      /\ \A id \in Q : id \in Ids /\ Now(Q)[id].status = "queued"
      /\ \A id \in Ids \ Q : Now(Q)[id] = entry[id]
      /\ queued' = {id \in Ids : Now(Q)[id].status = "queued"}
      /\ deleted' = Gone
      /\ events' \in Seq(Event)
      /\ \A k \in DOMAIN events' : \E id \in Q : events'[k] = EventOf(id, Now(Q)[id])
  BY Zenon, <1>0 DEF RunTo
<1>2. /\ phase = "down" /\ phase' = "started"
      /\ UNCHANGED <<stored, raced, notify, diff, snapshot, loop, creating, dirty>>
  BY Zenon DEF Run
<1>3. /\ \A x \in Ids : Deleting(x) => Deleting(x)'
      /\ \A x \in Ids : Doomed(x) => Doomed(x)'
  BY Zenon, DeletionKept, DoomedKept DEF IInv, TypeOK
<1>4. \A x \in Q : x \in Ids /\ entry[x].status = "not" /\ Deleting(x)'
  <2>1. \A x \in Q : entry[x].status = "not"
    BY Zenon, <1>0 DEF Orphans
  <2> QED
    BY Zenon, <1>1, <2>1 DEF Deleting
<1>5. TypeOK'
  BY Zenon, <1>1, <1>2 DEF IInv, TypeOK, StorageTypeOK, SyncTypeOK, LoopTypeOK, loop, Gone
<1>6. LoopInv'
  <2>1. \A x \in queued' : Deleting(x)'
    BY Zenon, <1>1 DEF Deleting
  <2> QED
    BY Zenon, <1>2, <2>1, LoopFrame DEF IInv, loop
<1>7. \A x \in Ids : entry'[x].status = "deleted" => entry[x].status = "deleted"
  BY Zenon, <1>1
<1>8. DeletedIsGone'
  BY Zenon, <1>2, <1>7 DEF IInv, DeletedIsGone
<1>9. EntryInv'
  <2>1. \A x \in Ids : entry'[x].status \in {"none", "not"} => entry'[x] = entry[x]
    BY Zenon, <1>1
  <2>2. \A x \in deleted' : Deleting(x)'
    BY Zenon, <1>1, <1>3 DEF Gone, Deleting
  <2> QED
    BY Zenon, <1>2, <1>3, <2>1, <2>2 DEF IInv, EntryInv
<1>10. SyncInv'
  <2>1. \A x \in Ids : Showing(x)' = Shown(entry[x])'
    BY Zenon, <1>2 DEF Showing
  <2>2. \A k \in DOMAIN events' : events'[k].status # "not" /\ events'[k].id \in Q
    BY <1>1 DEF EventOf
  <2>3. ASSUME NEW x \in Ids
        PROVE  EventsOK(x)'
    <3>1. ASSUME NEW k \in DOMAIN events', LastOf(events, k, x)'
          PROVE  Agrees(events[k], x)'
      <4>1. events'[k].id = x
        BY Zenon, <3>1 DEF LastOf
      <4>2. Deleting(x)' /\ events'[k].status # "not"
        BY Zenon, <1>4, <2>2, <4>1
      <4> QED
        BY Zenon, <4>2 DEF Agrees
    <3> QED
      BY <2>1, <3>1, Zenon DEF EventsOK
  <2>4. ASSUME NEW x \in Ids
        PROVE  RootOK(x)'
    <3>1. entry'[x].heads <= 1 => Shown(entry[x])' = 0
      <4>1. entry'[x].heads \in Nat
        BY <1>5, DeletionAssumption DEF TypeOK, StorageTypeOK, Entry
      <4> QED
        BY <4>1 DEF Shown
    <3>2. ~Deleting(x)' => \A k \in DOMAIN events' : events'[k].id # x
      BY Zenon, <1>4, <2>2
    <3> QED
      BY <2>1, <3>1, <3>2, Zenon DEF RootOK
  <2>5. \A k \in DOMAIN notify' : notify'[k].status # "not" /\ Deleting(notify[k].id)'
    <3>1. \A k \in DOMAIN notify : notify[k] \in Event
      BY DEF IInv, TypeOK, SyncTypeOK
    <3>2. \A k \in DOMAIN notify : notify[k].id \in Ids
      BY Zenon, <3>1 DEF Event
    <3>3. \A k \in DOMAIN notify : notify[k].status # "not" /\ Deleting(notify[k].id)
      BY Zenon DEF IInv, SyncInv
    <3> QED
      BY Zenon, <1>2, <1>3, <3>2, <3>3 DEF Deleting
  <2>6. \A x \in Ids : diff'[x] = 0 /\ snapshot'[x] = 0
    BY Zenon, <1>2 DEF IInv, SyncInv
  <2> QED
    BY Zenon, <2>3, <2>4, <2>5, <2>6 DEF SyncInv
<1> QED
  BY Zenon, <1>5, <1>6, <1>8, <1>9, <1>10 DEF IInv

-----------------------------------------------------------------------------
\* The theorems.

\* The invariant holds of a space that is up and empty.
LEMMA InitInv ==
    ASSUME Init
    PROVE  IInv
<1> USE DEF Init
<1>1. TypeOK
  BY DeletionAssumption DEF TypeOK, StorageTypeOK, SyncTypeOK, LoopTypeOK, Entry, Status
<1>2. LoopInv /\ DeletedIsGone /\ EntryInv
  BY Zenon DEF LoopInv, DeletedIsGone, EntryInv, Deleting
<1>3. DOMAIN events = {} /\ DOMAIN notify = {}
  OBVIOUS
<1>4. \A x \in Ids : Showing(x) = 0 /\ Shown(entry[x]) = 0
  BY Zenon DEF Showing, Shown
<1>5. \A x \in Ids : EventsOK(x) /\ RootOK(x)
  BY <1>3, <1>4, Zenon DEF EventsOK, RootOK
<1>6. SyncInv
  BY Zenon, <1>3, <1>5 DEF SyncInv
<1> QED
  BY Zenon, <1>1, <1>2, <1>6 DEF IInv

\* Every step keeps it.
LEMMA NextInv ==
    ASSUME IInv, [Next]_vars
    PROVE  IInv'
<1>1. CASE UNCHANGED vars
  <2>1. /\ UNCHANGED <<durable, queued, deleted, loop, creating, dirty>>
        /\ UNCHANGED <<entry, notify, events, diff, snapshot, phase>>
    BY Zenon, <1>1 DEF vars, durable, state, sync
  <2>2. LoopInv' /\ DeletedIsGone' /\ EntryInv' /\ StorageTypeOK' /\ LoopTypeOK'
    BY Zenon, <2>1, OtherParts
  <2>3. SyncTypeOK'
    BY Zenon, <2>1 DEF IInv, TypeOK, SyncTypeOK
  <2>4. SyncInv'
    BY Zenon, <2>1, SyncFrame DEF IInv
  <2> QED
    BY Zenon, <2>2, <2>3, <2>4 DEF IInv, TypeOK
<1>2. ASSUME Next, UpdateState \/ \E id \in Ids : \/ checkTreeDeleted(id) \/ DeleteObject(id)
                     \/ \E S \in SUBSET Children(id) : ReceiveSettings(id, S)
      PROVE  IInv'
  <2>1. /\ UNCHANGED <<entry, stored, raced, queued, deleted, notify>>
        /\ UNCHANGED <<sync, loop, dirty>>
    BY <1>2, Zenon DEF UpdateState, checkTreeDeleted, DeleteObject, ReceiveSettings, durable, state
  <2>2. \/ creating' = creating
        \/ \E id \in Ids \ stored : creating' = creating \cup {id}
    BY <1>2, Zenon DEF UpdateState, checkTreeDeleted, DeleteObject, ReceiveSettings
  <2>3. creating \in SUBSET Ids /\ creating \cap stored = {}
    BY Zenon DEF IInv, TypeOK, StorageTypeOK, EntryInv
  <2>4. creating' \in SUBSET Ids /\ creating' \cap stored = {}
    BY Zenon, <2>2, <2>3
  <2> QED
    BY Zenon, <1>2, <2>1, <2>4, SettingsStep
<1>3. ASSUME Next
      PROVE  IInv'
  BY <1>2, <1>3, Zenon, OnUpdateStep, UpdateHeadsStep, FillDiffStep, AddAllStep, AddStep,
     CreateStorageStep, StartPassStep, tryMarkDeletedStep, RemoveTreeStep,
     RemoveTreeFailsStep, DeleteStep, deleteBoundChildrenStep, CrashStep, RunStep
     DEF Next, Deleter
<1> QED
  BY Zenon, <1>1, <1>3

\* The inductive invariant holds in every reachable state.
LEMMA Invariant == Spec => []IInv
  BY InitInv, NextInv, PTL DEF Spec

\* Deletion is for good: no creation, write, failure or restart gives an entry
\* that is queued or deleted back the status of a live one.
THEOREM DeletionIsForeverHolds == Spec => DeletionIsForever
<1>1. ASSUME IInv, [Next]_vars
      PROVE  [\A id \in Ids : Deleting(id) => Deleting(id)']_vars
  BY Zenon, <1>1, DeletionKept DEF IInv, TypeOK
<1> QED
  BY <1>1, Invariant, PTL DEF Spec, DeletionIsForever

\* The changes of a deleted tree are gone, unless a creator that had passed
\* checkTreeDeleted before the deletion was recorded stored them afterwards.
THEOREM DeletedIsGoneHolds == Spec => []DeletedIsGone
<1>1. IInv => DeletedIsGone
  BY Zenon DEF IInv
<1> QED
  BY <1>1, Invariant, PTL

\* Once the updater has caught up the diff shows the entries of the head storage,
\* whatever the order of writes, deletions, FillDiff, drained events, failures and
\* restarts.
THEOREM DiffFollowsStorageHolds == Spec => []DiffFollowsStorage
<1>1. ASSUME IInv, phase = "up", events = <<>>, notify = <<>>, NEW id \in Ids \ dirty
      PROVE  diff[id] = Shown(entry[id])
  <2>1. Settled(id) /\ NoneOf(notify, id) /\ NoneOf(events, id)
    BY <1>1 DEF Settled, NoneOf
  <2>2. EventsOK(id)
    BY Zenon, <1>1 DEF IInv, SyncInv
  <2>3. Showing(id) = Shown(entry[id])
    BY <2>1, <2>2, Zenon DEF EventsOK
  <2> QED
    BY Zenon, <1>1, <2>3 DEF Showing
<1>2. IInv => DiffFollowsStorage
  BY Zenon, <1>1 DEF DiffFollowsStorage
<1> QED
  BY <1>2, Invariant, PTL

=============================================================================
