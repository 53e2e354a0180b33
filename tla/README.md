# any-sync: a TLA+ model

any-sync synchronises *spaces* between peers that may be offline. A space holds
objects; an object is a tree (a DAG) of signed changes, an access control list
(a log of records) or a key-value store. This directory models the parts of the
code whose correctness depends on interleavings, on the order in which things
arrive, on failures, or on algorithms that are hard to test. TLC checks them on
small instances and TLAPS proves the main results for every instance.

`PROJECT.json` lists the components, the runs, the source lines every definition
stands for, a faulty variant that each property catches, the hazards the
properties are about, the findings and the theorems.

Contents: [the parts](#the-parts-of-the-system), [the modules](#the-modules),
[the runs](#the-runs), [fairness](#fairness), [proofs](#proofs),
[disagreements](#where-code-and-documentation-disagree),
[not modelled](#not-modelled), [how to run](#how-to-run).

## The parts of the system

A device keeps every object tree in storage and the trees in use in memory, in
the **object cache** (`app/ocache`). A change that a client makes is added to
the **object tree** (`commonspace/object/tree/objecttree`), stored, and
broadcast as a head update by the **tree synchronisation**
(`commonspace/object/tree/synctree`, `commonspace/sync`). A peer that learns of
heads it lacks queues a request in an **action pool** (`util/syncqueues`) and
gets the missing changes in batches. What a broadcast has missed is found by
head sync: the **head storage** tells the **diff container** (`app/ldiff`) the
heads of every object, and two devices compare their containers range by range.
The **settings object** and the **deletion state** (`commonspace/settings`,
`deletionstate`, `deletionmanager`) take deleted objects out of storage and
diff. The **access control list** (`commonspace/object/acl/list`) says who may
write and who gets which read key; the coordinator (`acl`) admits its records.
The **key-value store** (`commonspace/object/keyvalue`) has a diff and rounds of
its own. All calls go over connections that the **pool** (`net/pool`) keeps in
two object caches.

## The modules

| module | models | state | a step is |
|---|---|---|---|
| `OCache` | `app/ocache` | the map of entries; of each entry its state, its two channels and its value; the locals of every goroutine | one critical section of `c.mu` or `e.mx`, one call of the loader or the value, one channel operation |
| `Pool` | `net/pool` | the pairs of caches (current, cancelled, closed, being torn down), the slot of one peer id in each, connections with watchers and reports | one read of a cache, one critical section, one channel operation |
| `ActionPool` | `util/syncqueues`: `actionpool.go`, `replaceablequeue.go`, `guard.go` | queues with their entries, ids and counters; callers; workers; the guard | one critical section, one atomic operation, one queue operation |
| `LDiff` | `app/ldiff` | elements and the map of hash ranges of two containers | one `Set` or `RemoveId` |
| `Deletion` | `deletionstate`, `deletionmanager`, `settings`, the head storage and the updater of `headsync` | durable: head entries, stored trees, settings; volatile: deletion state, event queue, diff, delete loop | one storage transaction, one notification, one step of a loop |
| `AclState` | `commonspace/object/acl/list`, admission in `acl` | the state the log leads to, and which read keys each account can decrypt | one record: built, validated, admitted and applied |
| `KeyValue` | `commonspace/object/keyvalue` | per device rows, diff, watermarks, open transaction, rounds, incoming rows | one transaction step, one message, one step of a round |
| `Tree` | pure algorithms of `objecttree`: attaching, order, reduction, rebuilding, `commonSnapshot`, `loadAfter`, history, fetching | none (operators) | |
| `ObjectTree` | `objecttree.go`, `storage.go` on top of `Tree` | the changes made; of each peer the stored sequence and the tree in memory | one call under the lock of the tree |
| `SyncTree` | `synctree`, `synchandler.go`, `requestmanager.go`, `objectsync` | per pair of peers: head updates under way, queued request, open call with its batches, handler | one handler, one message |
| `ChangeDag` | the abstract specification of a tree shared by peers | the changes with their previous changes; what each peer has | make a change; get changes of another peer |

How they fit together:

- `SyncTree` extends `ChangeDag`, and `ObjectTree` is mapped to it by
  `INSTANCE ChangeDag WITH prev <- ..., have <- ...`. Both are shown to
  implement it, so `ObjectTree` (one tree in detail, with messages reduced to
  "any portion of what another peer has") and `SyncTree` (the messages in
  detail, with a tree reduced to its set of changes) meet in one interface.
- `Pool` builds on what `OCache` establishes of a cache: one instance for an id,
  closed once, nothing left open after `Close`. Each cache is one slot there.
- `Deletion` covers four packages that share the head storage, since what could
  go wrong is between them.
- `MC*` modules give the constants of a run their values. The `*Proofs` modules
  hold the proofs.

Definitions have the names of the functions they model. A definition named
`X_Variant` is a plausible mistake in `X`; `PROJECT.json` pairs it with the
property that it breaks.

### Abstractions

- Payloads, encryption and signatures are left out everywhere. Who is given
  which read key is in `AclState`.
- A hash is the value it is computed from; hashes do not collide.
- An order id is a position in a sequence. `NoPanic` includes that `updateHeads`
  finds the neighbours of a new change in order; how long the ids of the library
  get is not modelled.
- Times: the ttl of a cache is the choice of any entries as expired, a deadline
  may pass at any moment, clocks of devices in `KeyValue` show any time.
- What the ACL validator says of changes in `ObjectTree` is a free choice of the
  call to be refused, or of changes to be filtered.
- A batch of ACL contents has any removals, declined requests and revoked invites,
  but at most one approval and one new invite (two new invites of one record would
  have the same id), and no additions of accounts and changes of permissions or
  invites (`Additions`, `Changes`, `InviteChanges`), which are records of their own; a record
  of permission changes has one. The proofs are about such records.
- `HasKey` is that an account can decrypt the latest read key. Without it
  `CurrentReadKey` fails or returns no key, and what needs the key is not built.
- Code outside the repository (the tree manager that removes a tree, the dialer
  of a connection, the consensus node that orders ACL records) is modelled by
  what the code here relies on, and marked external in `PROJECT.json`.

- `getBottomRange` of the diff container takes the part that holds the hash. The code
  computes its number, which is the same for the ranges that get divided there: their sizes
  are powers of two and no smaller than the number of parts (see *ldiff*).
- A peer that refuses a request since it serves too many of the same peer ends the stream, as a
  break does: `BreakStream` stands for both.
- What an answer holds is fixed when the request is handled: the load iterator notes the ids under
  the lock of the tree. Later it reads these from the storage, where they stay.
- A restart of the deletion state (`Run`) is one step: the loops that could see it half done start
  after it.

## The runs

States are distinct states, times those of two workers.

| run | states | time | properties |
|---|---|---|---|
| `acl` | 930,157 | 112 s | `OneOwner`, `RequestsMatch`, `KeysFollowMembers`, `AdminByOwner`, `HistoryIsKept` |
| `deletion` | 523,854 | 85 s | `DiffFollowsStorage`, `DeletedIsGone`, `DeletionIsForever`, `SettingsAreApplied` |
| `key_value` | 162,845 | 48 s | `AdvertisedIsStored`, `DeletedStaysDeleted`, `RowsConverge` |
| `ldiff` | 24,160 | 40 s | `SameHashSameElements`, `DiffIsRight` |
| `object_tree` | 5,035 | 63 s | `NoPanic`, `AgreedOrder`, `MemoryIsSuffix`, `AnswerSuffices`, `FetchSuffices`, `HistoryIsThePast`, `AppendIsSuffix`, `ImplementsChangeDag` |
| `ocache` | 92,286 | 19 s | `ValueClosedOnce`, `NoChannelPanic`, `OneInstance`, `ClosingHasOneCloser`, `NoLeakAfterClose`, `OperationsReturn` |
| `pool` | 334,187 | 59 s | `ReportedOnce`, `ResultsAreCurrent`, `ClosedIsReported` |
| `action_pool` | 389,424 | 121 s | `OneAtATime`, `RemovedOnce`, `EveryRequestEnds` |
| `sync_tree` | 1,128,328 | 78 s | `BatchesAttach`, `ImplementsChangeDag` |
| `sync_tree_live` | 571,468 | 148 s | `Converges`, `Quiesces` |
| `object_tree_common_snapshot` | | | `CommonSnapshotMeets` is violated |
| `key_value_advertised` | | | `StoredIsAdvertised` is violated |

### What they show, and the bounds

**acl.** Three accounts, of which one created the space and the other two are
interchangeable (symmetry), the permissions none, reader and admin, limits that all three
fit in (they only forbid records), and every log of up to six records, batches included. The space
always has one owner; the two indexes of requests agree; a removed account has
no read key made at or after its removal, and a member has the current one unless
a bare permission change made it a member (that record carries no key); admins
are made by the owner, directly or through an invite for admins; and
permissions at an earlier record stay what they were, which the validation of
old changes in object trees relies on (except after `AccountsAdd`, see below).
Five records after the root are enough for the chains that matter: invite,
request, accept, remove, and the same with a change of owner or a read-key
change in between; and an invite, a request of an account that is then added and made
the owner, and the attempt to accept its old request, which would leave the space without
an owner if the coordinator admitted it. Writers are left out of the run: they may manage no more than
readers do. The theorems have all permissions, any limits and none of these bounds.

**deletion.** One tree and a tree bound to it, two successive heads, three
waiting events, and one fault: a failing write, a failing deletion, an orphan that cannot
be queued at a restart, or a crash between any two steps. The diff equals what the head storage says as soon as
the updater has caught up; no deletion is undone; the changes of a deleted tree
are gone; and what the settings document deletes is deleted in the end.
Exceptions are part of the properties and are named in the model: `dirty` (a
write was rolled back after its event had been sent), `raced` (a creator passed
`checkTreeDeleted` before the deletion and stored the tree after it) and
`failures` (a failed deletion waits for the next restart).

**key_value.** Two devices, one of them with the owner's keys, one key and one prefix above it that
gets deleted, two writes, two clock values, one row in flight, an
ACL that one device learns of late, and one fault: a transaction that fails, a
stream that breaks or a restart. The diff advertises nothing that is not
stored, no deleted row comes back, and the devices end up with the same rows.
The key under the prefix is not itself a prefix that gets deleted (see *Where code
and documentation disagree*, key-value store).

**ldiff.** Ids in four positions of a space of 256 hashes that is halved
(the code: 2^64 hashes, 32 parts; only the shape of the tree depends on it),
chosen so that ranges are divided several times and left behind, a threshold of two
elements, two heads, three operations on each side. The threshold is the least for which,
as in the code (32 parts, 256 elements), no range with fewer hashes than parts gets divided
(`2 * DivideFactor <= CompareThreshold + 2`: such a range counts its elements, and once more
those that are set again). Equal hashes mean equal
elements, which is what head sync relies on when it skips a comparison; what
`Diff` and `CompareDiff` report is true; and they miss nothing of what the other
side has, unless a range was left behind (see below).

**object_tree.** Two peers make up to three changes with any ids (ids
break ties in the order), each a snapshot or not, and hand over any portion; calls
are refused, filtered or fail; peers restart. One peer marks new changes
(`newChangeFlusher`), which reduces after the write, and not at all if its listener fails
by then. Three changes besides the
root give two branches with a snapshot on either, and a merge of two branches.
The peers agree on the order of what they share and never
reorder it; memory is the stored order from the root on; nothing panics; an
answer brings the asking peer up to date; fetching gets everything; a history is the
past of its heads; `Append` is reported only if the client may continue from its
last change.

**ocache.** Two goroutines, two ids, any three operations, with failing,
panicking and cancelled loads, values that decline to be closed and
one retry. GC and `Close` get to work through several entries. Values are
closed exactly once and never leak, no channel is closed twice, no goroutine is
left waiting (deadlock is checked, and `OperationsReturn`). `PromptPublish` is
explained below.

**pool.** One `Get`, one `Pick`, one accepted connection, one `Flush`, `Close`,
GC and a connection that breaks, with two connections, two pairs of caches and three
events in all.
Every connection is reported closed at most once; no lookup returns a
connection of a replaced pair, or `ErrClosed` without a `Close`; and a
connection that closed or belongs to a replaced pair is closed and reported in
the end, even one whose dial ends late. Larger instances were checked once and
are too slow to keep: three connections and four events with one caller
(8,070,000 states, safety), two callers that `Get` or `Pick` (1,171,095 states,
with liveness), two `Get` and one `Pick` (824,118 states, safety).

**action_pool.** Two callers add three requests for two objects; the queue has
room for one id and two workers, and is closed as idle and opened again once.
No two actions for an object run at once, in whichever queue;
every request is accounted for once and ends, unless the queue was closed
under it or it was replaced while it was being refused (see below).

**sync_tree, sync_tree_live.** Two peers, of which either made the tree, the root and
two changes, one head
update in flight per direction, so that overflow is the normal case, and one
lost message or broken stream. An answer comes in any number of batches, cut
anywhere. Every batch attaches to what is there, and both trees stay replicas of one
growing set. In `sync_tree` both peers run head syncs with each other, in the live
run only one does, as a client with its node: it asks for a tree also if the other lacks
it, is refused, and the other loads the tree in turn. So the peer that is never the one to ask
first gets everything too, though head updates overflow and a request is lost, and then both
stop asking each other.

## Fairness

All fairness is weak and on steps that the code takes by itself; nobody has to
call an operation, and no fault has to happen.

| module | weakly fair | because |
|---|---|---|
| `OCache` | the next step of each goroutine inside an operation | goroutines are scheduled; the loader and the value return |
| `Pool` | the continuation of calls, watchers, teardowns (one condition for all) | the same; a dial ends, since its context ends with the pair |
| `ActionPool` | steps of a caller in `Replace`, of a worker, closing a queue | workers loop until the queue is closed; actions have the context of the pool |
| `Deletion` | notification, updater, `FillDiff`, `Run`, handing over settings, `Add`, delete loop | the loop has a ticker, the updater waits on its queue, `Run` is called at every start |
| `KeyValue` | commit, handling of a message, arrival of the ACL, rounds | transactions end; head sync is periodic |
| `SyncTree` | `SyncWithPeer` of a peer with those it has as responsible peers; per pair of peers handling of updates, requests, answers and ends of streams | head sync is periodic, with responsible peers only (`diffsyncer.go`, `Sync`); queues have readers; a stream ends or breaks |

No strong fairness is used: faults and new operations are bounded, so a loop that
repeats for ever consists of the code's own steps.

## Proofs

Proved by TLAPS for every value of the constants, from the assumptions named in
the component's module and nothing else.

| theorem | module | statement |
|---|---|---|
| `OneOwnerHolds`, `RequestsMatchHolds`, `KeysFollowMembersHolds` | `AclStateProofs` | the invariants of the run `acl` |
| `AdminByOwnerHolds`, `HistoryIsKeptHolds` | `AclStateProofs` | its two action properties |
| `DiffFollowsStorageHolds`, `DeletedIsGoneHolds` | `DeletionProofs` | the invariants of the run `deletion`: any ids and bound trees, heads, sizes of the event queue and number of failures and crashes |
| `DeletionIsForeverHolds` | `DeletionProofs` | its action property |
| `AdvertisedRowsAreStored` | `KeyValueProofs` | `AdvertisedIsStored`, the invariant of the run `key_value`: any devices, keys, prefixes, batches, clocks and faults |
| `DeletedRowsStayDeleted` | `KeyValueProofs` | its action property `DeletedStaysDeleted`, if no value has a deleted prefix itself as its key, which it needs (see below) |
| `RangesAreRightTheorem` | `LDiffProofs` | after any sets and removals, the ranges reached from the top are a tree that has the hashes and counts of what is in the container: any hash space, division factor, threshold and ids |
| `SameHashTheorem`, `DiffTheorem` | `LDiffProofs` | `SameHashSameElements` and `DiffIsRight`, the invariants of the run `ldiff` |
| `ClosedIsReportedOnce`, `LookupsAreCurrent` | `PoolProofs` | `ReportedOnce` and the action property `ResultsAreCurrent` of the run `pool`: any callers, accepting and flushing goroutines, connections and pairs |
| `ActionsAreGuarded`, `RemovalIsCounted` | `ActionPoolProofs` | `OneAtATime` and the action property `RemovedOnce` of the run `action_pool`: any callers, workers, queues, objects and requests |
| `TypeCorrect`, `ClosedOnce`, `ChannelsClosedOnce`, `SingleInstance`, `UniqueCloser`, `VisibleOpen` | `OCacheProofs` | types, and the safety invariants of the cache: any number of goroutines, ids, entries and operations, with or without `PromptPublish` |
| `NothingLeaks` | `OCacheProofs` | `NoLeakAfterClose`, under `PromptPublish`, which it needs (see below) |
| `AlwaysComplete`, `HeadsIdentify`, `Growing` | `SyncTreeProofs` | `ChangeDag`: peers have the past of what they have; equal heads mean equal changes; nothing is lost |
| `Implementation` | `SyncTreeProofs` | `SyncTree` implements `ChangeDag`, for any peers, changes, queue sizes and number of losses |
| `SentIsHad`, `SyncedHeadsIdentify`, `SyncedGrowing` | `SyncTreeProofs` | no message carries what its sender lacks; the results of `ChangeDag` hold of the protocol |
| `AllBatchesAttach` | `SyncTreeProofs` | `BatchesAttach`: a batch that is read is added completely |

**Object cache.** `OneInstance` and `ValueClosedOnce` are not inductive: whether a
second close can happen depends on where the other goroutines are. `IInv` adds that entries not yet created are blank and that map and
goroutines refer to created ones (`FreshInv`); that the entry of an open value
or of a load that has not failed is the one in the map (`StoredInv`); that a
closing entry has exactly one closer, whose channel is open (`CloserInv`); that
there is one loader, which has not finished (`LoaderInv`); and how often a value
was closed, by the state of its entry and the position of its closer
(`ClosesInv`). Lemmas on the control operators come first, then
the steps that create an entry and load its value, and those that close it.

That nothing leaks is about the end of all operations, when the positions of the goroutines,
which `IInv` speaks of, tell nothing any more. `LeakInv` says who is
going to take care of a value meanwhile. An open entry of a closed cache is ahead of the
pass of `Close`: in its list, or the entry at hand, not yet acquired. A load that has not
ended has a loader, which will see that the cache is closed. An open entry whose load
channel is not closed has a loader about to close it, so that `Close`, which waits for this
channel before it acquires the entry, gives up an entry only for its deadline. When the
deadline has passed, no loader is between publishing a value and closing the channel: this
is what `PromptPublish` gives, and the only place where it is used. In the end there is no
pass, no loader and no closer, hence no open entry.

**Deletion.** Whether the diff is right when the updater has caught up depends on all the
events that wait, on `FillDiff` being under way and on failed writes. `IInv` says
of every id that the *last* event that waits for it agrees with its entry, and, if
none waits, that the diff does, or will once `FillDiff` has added what it has read
(`Showing`). The exceptions are the ones in the property: a
write that was rolled back after its event (`dirty`), until the id is deleted, and a deletion that
is announced but not yet handed to the updater. A tree that is only its root needs more
(`RootOK`): the updater ignores its events, so nothing else may be shown or wait for it.
That no deletion is undone is in the entries alone; that deleted trees are gone needs that all that
the delete loop works on is *doomed* (it or the tree it is bound to is
queued or deleted), and that what it has found missing or removed is
missing until a creator that had passed the check stores it (`LoopInv`, `EntryInv`).
The proof
assumes that the ids are finitely many (in the form that their sets have a number of
elements), since `Run` queues one event for each orphan.

**Changes and their heads.** `SameHeadsSameChanges` takes a merge of branches to become
false and is proved rather than run. It needs an induction along the
previous changes: if a peer has a change, follow it to a head, which the other peer has
too, and with it all that comes before. `DagInv` therefore says that what a peer has is
closed under previous changes and that changes can be ranked (a change is made after
those it refers to). Following a change to a head is a choice of a change of
greatest rank.

**Synchronisation.** A message may arrive long after it was sent, when both
sides have changed. `SentInv` says that whatever is under way from a peer, in a
head update or a batch, the peer has; since peers lose nothing, this stays true, and
what the receiver can attach of it is a step `Get` of `ChangeDag`. Every other
step is a stutter or a `Make`.

That a batch attaches completely depends on what the peer said it has when it
asked, perhaps long ago. `ReplyInv` says that the heads in queued, postponed and sent
requests belong to trees their sender has, and that the batches still to be read
fit (`Fits`): each comes from a complete tree and holds all of it that the reader, by then, lacks. A
batch has the heads of what was passed for it, so that a reader which has the heads, and
ignores the batch, has all of it (`HeadsDetermine`), and the batches after it, however
many, fit what it has then.

**Access control list.** A record may be a batch, whose contents are applied one
after the other to states in between that no replica ever shows, and its effect on
read keys shows only at the end. `AclInv` says that the state is *sane*
(types; at most one owner and no invite that makes one; the two indexes of requests agree, with
distinct ids; there is a latest read key), that there is an owner, and that
removed accounts hold no key of their removal or later while members hold the
latest or were raised without one. The first part of `AclStateProofs` has lemmas for each apply
operation about what it changes, that it keeps a state sane, and
what it does to the history of permissions. The second combines these:
for each kind of record what it may do, with batches cut into three stages
(removals, then an approval, then the rest), and `AclStep`
for a record of any kind. That
there always is an owner comes from the coordinator's check (`AddRecord` in
`acl/acl.go`), which the model has as a guard on the resulting state.

**Key-value store.** A call of `Set` goes through its rows one by one, and each may drop
or replace what an earlier one put in, so what `updateValues` returns is shown by induction over
the rows. The provers take no induction theorem with an operator as a parameter; the proof
gets the induction from the well-foundedness of the numbers, stated of a set: a set of
numbers has a least element (`LeastNat`), hence a set that has 0 and with a
number the next has all of `0 .. n` (`RangeInduction`), and the recursive function of
the model is the one its equations define (`UpdatesDef`, `AcceptedDef`). The
loop invariant for the diff is `Sound`: `pre` has exactly the ids that were touched, with
what the storage had of them, and the other rows are as they were. From it follow both that the
diff fits the rows to be stored and that `Undo` gives back one that fits the rows
there are (`DiffOfTx`), which is what `DiffInv` says while a transaction is open.

For the watermarks (`MarksInv`) it is `Marked`: no row is covered, every watermark row counts,
and for each watermark in memory a row is left that implies it, its own or one of a shorter prefix
that has dropped it. So a restart, which knows the rows only, covers all that was covered
(`MarksRead`). Here the proof failed at first: a value with the key of a deleted prefix has
the id of the watermark row of its device, and replaces it. With keys that overlap TLC
finds the six-step behaviour (delete the prefix, commit, set the key, commit, restart);
the theorem therefore has `Keys \cap DeletePrefixes = {}` as its hypothesis.

**Diff container.** The tree of ranges depends on the history, and the map also has ranges that
nothing leads to any more, so neither property follows from the elements alone. The invariant
`RangesAreRight` says that in each container there is a set of ranges, those reached from the top, that is
`Whole`. It is a tree (`Tree`): the top is divided, a divided range has its parts in the set, and
two ranges are equal, apart, or one lies in a part of the other. Each has the hash
of its parts or, undivided, of its elements (`Hashed`); none counts fewer elements than it has, and an undivided one
no more than it has hashes. Nothing is said of a range left behind, except that it is wide
enough if it is divided and has a small count if not (`Small`).

Within an operation this does not hold: `Partly` is `Whole` except for the hashes of the ranges that lead to
the elements touched. `removeElement` and `addElement` keep it (`Remove`, `Add`), with
the tree of the ranges made below a divided one (`Made`), or
without those below one put together again (`Without`); `recalculateHashes` makes it `Whole` again
(`Recalculate`). While many elements are set, a range counts those already set twice at most
(`Adding`), hence only a wide range is ever divided, and going down ends.

That equal hashes mean equal elements (`SameHash`) is an induction over the size of
ranges, of two trees that may be divided differently. `DiffTheorem` follows the comparison down the
tree of the *other* container. It asks for parts only where that container counts many elements, so that its range is
divided and has its parts in the tree; wherever it compares elements, it
has all of both sides, or the other has none. So a range of its own that was left
behind cannot make it report what is not so; it can make it miss something, by an
old hash that agrees, which is why completeness excludes that case.

**Connection pool.** A connection can be reported by its watcher, by the `Flush` that found it,
or not at all if the pool is closing, and these run in the background long after the pair was
replaced. `IInv` (`PoolProofs`) says that the pairs before the current one are the only ones cancelled
or torn down, unless the pool is closed (`PairInv`); that a slot holds a connection made for it
(`HomeInv`) and that a watcher leaves nothing of it in a cache that is open (`WatcherInv`); that what a lookup has in its
locals is of the pair it has read, and an error of a pair that has ended (`CallerInv`); that a
`Flush` reports only connections it has marked, in a pair that no other has (`FlushInv`); and that what is
not marked is reported by its watcher alone, at its end (`EventInv`). That a result is current comes from
the last check of a lookup, together with `CallerInv`.

**Action pool.** Two actions for one object could run if a queue was closed
while a worker held the object and another was opened. `IInv` (`ActionPoolProofs`) says that
the guard has the object of every action that runs, and of each at most one (`GuardInv`).
`RemovedOnce` needs to know where a request is: with a caller that has yet to enter it, in an entry, or
with a worker, one place at most, and not removed there (`PlaceInv`). That takes that for an
entry at most one of a caller, the queue and a worker has its id (`TokenInv`), so that no two workers
take the same request, and that a caller which has entered its request still has the entry, with its
count, or was replaced (`CallerInv`).

### Only model-checked

- Liveness under fairness (`OperationsReturn`, `ClosedIsReported`,
  `EveryRequestEnds`, `SettingsAreApplied`, `RowsConverge`, `Converges`,
  `Quiesces`) is out of this prover's reach.
- `ObjectTree`: all of it rests on what the recursive algorithms of `Tree` compute (the
  order of the changes, the reduction, the common snapshot, the batches). They are recursive functions
  over trees of changes, sets and sequences; the inductions they need are not worked out.

## Where code and documentation disagree

Two disagreements are runs that TLC refutes:

- **`CommonSnapshotMeets`** (`treebuilder.go`, `commonSnapshot`). The code drops
  snapshots that have the same snapshot below them and returns the one left,
  instead of the one below. Of two sibling snapshots one is returned, which is not
  on the path of the other, and for the example in its comment the code
  returns another snapshot than the comment.
- **`StoredIsAdvertised`** (`innerstorage/keyvaluestorage.go`, `Set`). The diff is
  given the new elements first and then loses all dropped ids. A batch in which
  a watermark drops a row and a later element sets it again leaves the row
  stored but not advertised until a restart.

Others were met while modelling. They are not runs; where a property would be
affected, it names the case as an exception.

- *Object cache.* The comment in `Close` says that "Completed loads win over the
  spent deadline". `load` publishes its value under the lock and closes `e.load` only after
  it; if the deadline of `Close` passes between the two, the entry is given
  up and its value stays open. `PromptPublish = TRUE` excludes this for
  `NoLeakAfterClose`; the proved invariants do not need it.
- *Object tree.* When a tree is fetched in two batches and `commonSnapshot`
  returns a sibling for the second, the heads of the first are lost
  (`FetchSuffices` asks for snapshots that meet).
- *Diff container.* Two empty hashes count as equal ranges, but an empty hash is
  also the answer for a range that is not in the map, so `removedIds` may be
  incomplete (`DiffIsRight` asks for completeness of new and changed ids
  only). Replacing an element counts it again, so that ranges are divided and the
  hash depends on the history (`SameHashSameElements` is one direction only).
  `removeElement` deletes the parts of a range that it puts together again, but not
  the parts of these, which stay in the map with an old hash and are found when the range is
  divided anew. If the other container still has what they had, `Diff` takes them as equal and
  misses it. With 32 hashes, two parts and a threshold of two: the other container has 0, 1 and
  4; this one sets 0, 1, 2 and 8, removes 2, 8 and 0, and sets 8 twice, after which its
  `<<0, 3>>` still has the hash of 0 and 1, and 0 is not reported as new. This is why
  `DiffIsRight` asks for completeness where nothing was left behind; the proof shows
  that it is the only exception.
- *Action pool.* A request that replaced one which is then refused by the full
  queue has an entry and no id in the queue, so it is neither called nor removed
  (`EveryRequestEnds`). A queue closed as idle may take a request with it.
- *Limit* (`util/syncqueues/limit.go`). At the last total the counter goes down by
  two steps, so that peers can get more than the last number of tokens while
  the total is still above it. The limit has no module: it is arithmetic on one counter.
- *Access control list.* An admin may be demoted by another admin who accepts
  the admin's own pending request, though the validator reserves this to the owner; `AccountsAdd`
  starts a new history for an account that had one (`HistoryIsKept` excludes it),
  and leaves its join request pending, which makes `StopSharing` fail; an invite in a
  batch with a removal carries the read key from before the removal.
- *Deletion.* A bound tree that arrives after its parent was deleted is marked as
  queued in the head storage only, and waits there for the next restart; a comment in
  the storage says that the parent takes the child with it.
- *Key-value store.* A device that deletes the prefix `k` and then sets the key `k`
  overwrites its own watermark row; after a restart older rows under `k` are accepted
  again, against the comment of `DeletePrefix` that a dropped row "stays rejected should it
  arrive again". The run keeps keys and deleted prefixes apart, and the theorem has it as a
  hypothesis. `SetRaw`
  removes dropped ids from the index before it indexes the applied rows.

## Not modelled

`PROJECT.json` gives the reason for every package. In short:

- *Synchronous or single-goroutine code with no state that matters*: the
  application container, space wiring, payload building, clients of the
  coordinator, consensus, file, name and payment nodes, node configuration,
  periodic calls, metrics.
- *Cryptography and encoding*: keys, signatures, the handshake's credentials.
- *Replication of the ACL log* (`acl/syncacl`): the consensus nodes order the log,
  so replicas only differ in length; the exchange is that of `SyncTree`.
- *Network layers*: stream pool, peers, transports, RPC, pub/sub. `SyncTree` and
  `Pool` take from them what they promise: queues that drop, streams that
  break, connections that close.
- *Dial policy* (`peerservice`, `quicdemotion`): windows of real time.
- Inside modelled parts: one-to-one spaces and space options in the ACL, the
  decoding of changes, probe requests, the pull filter that makes a device ignore head
  updates of some trees it does not have (`objectsync`, `shouldPull`), the limit of three
  waits for a connection that is being closed again and again (`getIncoming` of the pool: the model
  waits as often as needed, so that a wait without end would show), `GetOneOf` of the pool, closing the action
  pool and the limiter of the key-value store, the rounds of head sync (one comparison
  sees one state of both containers) and sync between peers that refuse each other's
  changes (acceptance depends on the ACL each has; in `SyncTree` all accept).

Most lines of the repository are generated (`*.pb.go`, mocks): about 145,000
lines, of which about 43,000 are written by hand. The share that `PROJECT.json` maps is
therefore small, though it has the core of the packages named above.

## How to run

In this directory, with TLC, the community modules and TLAPS installed:

    tlc -workers 2 -config OCache.cfg MCOCache
    tlapm OCacheProofs.tla

`PROJECT.json` has the module and the configuration of every run. The proofs
take about three quarters of an hour in all, of which `AclStateProofs` and `LDiffProofs` take
more than ten minutes each.
