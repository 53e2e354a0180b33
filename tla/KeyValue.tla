------------------------------ MODULE KeyValue ------------------------------
(***************************************************************************)
(* The key-value store of a space (commonspace/object/keyvalue): rows that *)
(* the newest write of a device wins, deletion watermarks that drop every  *)
(* older row under a prefix, the diff that advertises the rows, the        *)
(* broadcast of what was written and the round of a device with a peer     *)
(* that exchanges what differs.                                            *)
(*                                                                         *)
(* A key is the sequence of its parts.  The values, their encryption and   *)
(* their signatures are left out; the clocks of the devices show any time. *)
(***************************************************************************)
EXTENDS Naturals, Sequences, FiniteSets

CONSTANTS Peers,      \* the devices; every one may write
          Owners,     \* those with the keys of the owner of the space
          Keys,       \* the keys of values
          DeletePrefixes, \* the prefixes that get deleted
          Syncers,    \* those that start rounds with the others
          ApplyBatch, \* applyBatchSize
          MaxTime, MaxWrites, MaxIncoming, MaxAcl, MaxFaults  \* bounds

ASSUME KeyValueAssumption ==
    /\ Owners \subseteq Peers /\ Syncers \subseteq Peers
    /\ \A k \in Keys \cup DeletePrefixes : k \in Seq(Nat) /\ k # <<>>
    /\ ApplyBatch \in Nat \ {0}
    /\ {MaxTime, MaxWrites, MaxIncoming, MaxAcl, MaxFaults} \subseteq Nat

VARIABLES store,    \* store[p]: the rows in the collection
          diff,     \* diff[p]: the diff in memory, timestamps by row id
          marks,    \* marks[p]: the watermarks in memory, timestamps by prefix
          acl,      \* acl[p]: how much of the acl p has
          tx,       \* tx[p]: the transaction of p under way, if any
          rounds,   \* rounds[p][q]: the round of p with q
          incoming, \* incoming[p]: the batches of rows that reached p
          writes, faults

vars == <<store, diff, marks, acl, tx, rounds, incoming, writes, faults>>

Times == 1 .. MaxTime

Id(row) == <<row.key, row.peer>>

Heads(R) == [i \in {Id(r) : r \in R} |-> (CHOOSE r \in R : Id(r) = i).ts]

\* The timestamps f, and those of g for the other ids.
Over(f, g) ==
    [i \in DOMAIN f \cup DOMAIN g |-> IF i \in DOMAIN f THEN f[i] ELSE g[i]]

\* The timestamp of the newest watermark for each prefix among the rows R.
MarksOf(R) ==
    [x \in DeletePrefixes |->
        LET ts == {r.ts : r \in {w \in R : w.del /\ w.key = x}}
        IN IF ts = {} THEN 0 ELSE CHOOSE t \in ts : \A u \in ts : u <= t]

Idle == [state |-> "idle", removed |-> {}, changed |-> {}, ask |-> {},
         pushed |-> <<>>, todo |-> <<>>, sent |-> <<>>]

Init ==
    /\ store = [p \in Peers |-> {}]
    /\ diff = [p \in Peers |-> Heads({})]
    /\ marks = [p \in Peers |-> MarksOf({})]
    /\ acl = [p \in Peers |-> 0]
    /\ tx = [p \in Peers |-> {}]
    /\ rounds = [p \in Peers |-> [q \in Peers |-> Idle]]
    /\ incoming = [p \in Peers |-> {}]
    /\ writes = 0
    /\ faults = 0

-----------------------------------------------------------------------------
(* innerstorage: one call of Set *)

HasPrefix(key, prefix) ==
    Len(prefix) <= Len(key) /\ \A i \in 1 .. Len(prefix) : prefix[i] = key[i]

\* Is a row with this key and timestamp dropped by the watermarks m?
covered(m, key, ts) == \E x \in DeletePrefixes : ts < m[x] /\ HasPrefix(key, x)

\* A watermark w drops every older row under its prefix.
applyWatermark(res, w) ==
    LET old == {r \in res.store : HasPrefix(r.key, w.key) /\ r.ts < w.ts}
    IN [res EXCEPT !.store = @ \ old,
                   !.pre = Over(@, Heads(old)),
                   !.removed = @ \cup {Id(r) : r \in old},
                   !.marks[w.key] = IF w.ts > @ THEN w.ts ELSE @]

\* One row: it is taken if it is newer than the one with its id and not covered.
updateValue(p, res, row) ==
    LET old == {r \in res.store : Id(r) = Id(row)}
        put == [res EXCEPT !.store = (@ \ old) \cup {row},
                           !.pre = Over(@, IF old = {} THEN [i \in {Id(row)} |-> 0] ELSE Heads(old)),
                           !.elements = Over(Heads({row}), @),
                           !.applied = Append(@, row)]
    IN IF \/ covered(marks[p], row.key, row.ts)
          \/ covered(res.marks, row.key, row.ts)
          \/ \E r \in old : r.ts >= row.ts
       THEN res
       ELSE IF row.del THEN applyWatermark(put, row) ELSE put

updateValues(p, rows) ==
    LET res[i \in 0 .. Len(rows)] ==
            IF i = 0 THEN [store |-> store[p], marks |-> MarksOf({}), pre |-> Heads({}),
                           elements |-> Heads({}), removed |-> {}, applied |-> <<>>]
            ELSE updateValue(p, res[i - 1], rows[i])
    IN res[Len(rows)]

Only(f, D) == [i \in D |-> f[i]]

\* The diff d once Set has put the new elements in and taken the dropped ones out.
Advertised(d, res) ==
    LET set == Over(res.elements, d) IN Only(set, DOMAIN set \ res.removed)

\* The diff d put back to what it was before the call.
Undo(d, pre) ==
    LET back == Over(pre, d) IN Only(back, {i \in DOMAIN back : i \in DOMAIN pre => pre[i] > 0})

\* Set up to the commit, on behalf of the round of p with the peers in caller, if any;
\* rows that are all rejected leave nothing to commit.
Set(p, rows, caller) ==
    \E res \in {updateValues(p, rows)} :
    IF DOMAIN res.pre = {} THEN UNCHANGED <<diff, tx>>
    ELSE /\ diff' = [diff EXCEPT ![p] = Advertised(@, res)]
         /\ tx' = [tx EXCEPT ![p] = {[res |-> res, caller |-> caller]}]

\* The transaction commits; what was applied is broadcast, and reaches some.
Commit(p) ==
    \E t \in tx[p] : \E Reached \in SUBSET {q \in Peers \ {p} : Cardinality(incoming[q]) < MaxIncoming} :
        /\ store' = [store EXCEPT ![p] = t.res.store]
        /\ marks' = [marks EXCEPT ![p] = [x \in DeletePrefixes |->
                         IF t.res.marks[x] > @[x] THEN t.res.marks[x] ELSE @[x]]]
        /\ incoming' = [q \in Peers |-> IF q \in Reached THEN incoming[q] \cup {t.res.applied}
                                        ELSE incoming[q]]
        /\ tx' = [tx EXCEPT ![p] = {}]
        /\ UNCHANGED <<diff, acl, rounds, writes, faults>>

\* What waits at q when the round r with it is over: it stores all that it got, once it
\* was told that this is all.
Received(q, r) ==
    IF r.state = "serve" /\ r.pushed # <<>> THEN incoming[q] \cup {r.pushed} ELSE incoming[q]

\* Faulty variant: the diff keeps what the transaction put in.
Rollback_KeepsDiff(p) ==
    \E t \in tx[p] :
        /\ faults < MaxFaults
        /\ tx' = [tx EXCEPT ![p] = {}]
        /\ rounds' = [rounds EXCEPT ![p] = [q \in Peers |-> IF q \in t.caller THEN Idle ELSE @[q]]]
        /\ incoming' = [q \in Peers |-> IF q \in t.caller THEN Received(q, rounds[p][q]) ELSE incoming[q]]
        /\ faults' = faults + 1
        /\ UNCHANGED <<store, diff, marks, acl, writes>>

\* The head update or the commit fails: the call returns the error, and a round with
\* it; its peer keeps what it got.
Rollback(p) ==
    \E t \in tx[p] :
        /\ faults < MaxFaults
        /\ diff' = [diff EXCEPT ![p] = Undo(@, t.res.pre)]
        /\ tx' = [tx EXCEPT ![p] = {}]
        /\ rounds' = [rounds EXCEPT ![p] = [q \in Peers |-> IF q \in t.caller THEN Idle ELSE @[q]]]
        /\ incoming' = [q \in Peers |-> IF q \in t.caller THEN Received(q, rounds[p][q]) ELSE incoming[q]]
        /\ faults' = faults + 1
        /\ UNCHANGED <<store, marks, acl, writes>>

-----------------------------------------------------------------------------
(* keyvaluestorage *)

Unlocked(p) == tx[p] = {}

WatermarkTs(p, key) ==
    LET ts == {0} \cup {marks[p][x] : x \in {y \in DeletePrefixes : HasPrefix(key, y)}}
    IN CHOOSE t \in ts : \A u \in ts : u <= t

\* Sets a value, or a watermark, at the time the clock shows.
signAndStore(p, key, del) ==
    \E ts \in Times :
        /\ Unlocked(p) /\ writes < MaxWrites
        /\ WatermarkTs(p, key) <= ts
        /\ Set(p, <<[key |-> key, peer |-> p, ts |-> ts, del |-> del, acl |-> acl[p]]>>, {})
        /\ writes' = writes + 1
        /\ UNCHANGED <<store, marks, acl, rounds, incoming, faults>>

SetValue(p) == \E k \in Keys : signAndStore(p, k, FALSE)

DeletePrefix(p) == p \in Owners /\ \E x \in DeletePrefixes : signAndStore(p, x, TRUE)

\* A row of another: a watermark must be an owner's, the row newer than what the diff
\* has, and its acl record known.
Accepted(p, r) ==
    /\ r.del => r.peer \in Owners
    /\ Id(r) \in DOMAIN diff[p] => diff[p][Id(r)] < r.ts
    /\ r.acl <= acl[p]

\* The rows that are accepted, in their order.
AcceptedOf(p, rows) ==
    LET acc[i \in 0 .. Len(rows)] ==
            IF i = 0 THEN <<>>
            ELSE IF Accepted(p, rows[i]) THEN Append(acc[i - 1], rows[i]) ELSE acc[i - 1]
    IN acc[Len(rows)]

SetRaw(p, rows, caller) == Set(p, AcceptedOf(p, rows), caller)

\* Rows that came with a broadcast, or were pushed by a peer in its round.
HandleMessage(p) ==
    \E rows \in incoming[p] :
        /\ Unlocked(p)
        /\ SetRaw(p, rows, {})
        /\ incoming' = [incoming EXCEPT ![p] = @ \ {rows}]
        /\ UNCHANGED <<store, marks, acl, rounds, writes, faults>>

-----------------------------------------------------------------------------
(* keyvalue: a round of p with q *)

InRound(p, q, r) ==
    /\ rounds' = [rounds EXCEPT ![p][q] = r]
    /\ UNCHANGED <<store, marks, acl, writes, faults>>

\* Faulty variant: rows that the peer has newer are not asked for.
Compare_NoTheirs(p, q) ==
    LET mine == DOMAIN diff[p]
        theirs == DOMAIN diff[q]
    IN /\ p \in Syncers \ {q}
       /\ rounds[p][q].state = "idle"
       /\ diff[p] # diff[q]
       /\ InRound(p, q, [Idle EXCEPT
              !.state = "push",
              !.removed = mine \ theirs,
              !.changed = {i \in mine \cap theirs : diff[p][i] > diff[q][i]},
              !.ask = theirs \ mine])
       /\ UNCHANGED <<diff, tx, incoming>>

\* The head sync sees that the hashes differ and starts a round, if none runs.
Compare(p, q) ==
    LET mine == DOMAIN diff[p]
        theirs == DOMAIN diff[q]
    IN /\ p \in Syncers \ {q}
       /\ rounds[p][q].state = "idle"
       /\ diff[p] # diff[q]
       /\ InRound(p, q, [Idle EXCEPT
              !.state = "push",
              !.removed = mine \ theirs,
              !.changed = {i \in mine \cap theirs : diff[p][i] > diff[q][i]},
              !.ask = (theirs \ mine) \cup {i \in mine \cap theirs : diff[p][i] < diff[q][i]}])
       /\ UNCHANGED <<diff, tx, incoming>>

\* The row i is loaded, if it is still there.
GetKeyPeerId(p, i) ==
    IF i \in {Id(r) : r \in store[p]} THEN <<CHOOSE r \in store[p] : Id(r) = i>> ELSE <<>>

\* The rows that q lacks are loaded and sent one by one, the changed ones last.
Push(p, q) ==
    LET r == rounds[p][q] IN
    /\ r.state = "push"
    /\ \E i \in IF r.removed # {} THEN r.removed ELSE r.changed :
           InRound(p, q, [r EXCEPT !.removed = @ \ {i}, !.changed = @ \ (IF r.removed = {} THEN {i} ELSE {}),
                                   !.pushed = @ \o GetKeyPeerId(p, i)])
    /\ UNCHANGED <<diff, tx, incoming>>

\* q has got all and sorts what it is asked for, the newest first.
sortIdsNewestFirst(q, ids) ==
    LET head(i) == IF i \in DOMAIN diff[q] THEN diff[q][i] ELSE 0
    IN CHOOSE s \in [1 .. Cardinality(ids) -> ids] :
           /\ \A i \in ids : \E n \in DOMAIN s : s[n] = i
           /\ \A m, n \in DOMAIN s : m < n => head(s[m]) >= head(s[n])

\* The round goes on with what is left to load at q; once all is sent, q goes on to
\* store what it got.
Serving(p, q, r) ==
    /\ InRound(p, q, IF r.todo # <<>> THEN r ELSE [r EXCEPT !.state = "served", !.pushed = <<>>])
    /\ incoming' = IF r.todo # <<>> THEN incoming ELSE [incoming EXCEPT ![q] = Received(q, r)]
    /\ UNCHANGED <<diff, tx>>

Asked(p, q) ==
    LET r == rounds[p][q] IN
    /\ r.state = "push" /\ r.removed \cup r.changed = {}
    /\ Serving(p, q, [r EXCEPT !.state = "serve", !.ask = {}, !.todo = sortIdsNewestFirst(q, r.ask)])

Serve(p, q) ==
    LET r == rounds[p][q] IN
    /\ r.state = "serve"
    /\ Serving(p, q, [r EXCEPT !.todo = Tail(@), !.sent = @ \o GetKeyPeerId(q, Head(r.todo))])

\* p applies a full batch of what it has got, or the last one.
Apply(p, q) ==
    LET r == rounds[p][q]
        n == IF Len(r.sent) < ApplyBatch THEN Len(r.sent) ELSE ApplyBatch
        last == r.state = "served" /\ n = Len(r.sent)
    IN /\ Unlocked(p)
       /\ last \/ (n = ApplyBatch /\ r.state \in {"serve", "served"})
       /\ InRound(p, q, IF last THEN Idle
                        ELSE [r EXCEPT !.sent = SubSeq(@, n + 1, Len(@))])
       /\ SetRaw(p, SubSeq(r.sent, 1, n), IF last THEN {} ELSE {q})
       /\ UNCHANGED incoming

\* The stream breaks; q keeps what it got if it got all.
Break(p, q) ==
    LET r == rounds[p][q] IN
    /\ r.state # "idle" /\ faults < MaxFaults
    /\ rounds' = [rounds EXCEPT ![p][q] = Idle]
    /\ incoming' = [incoming EXCEPT ![q] = Received(q, r)]
    /\ faults' = faults + 1
    /\ UNCHANGED <<store, diff, marks, acl, tx, writes>>

\* Faulty variant: the watermarks are not read from the collection.
New_NoMarks(p) ==
    /\ faults < MaxFaults
    /\ diff' = [diff EXCEPT ![p] = Heads(store[p])]
    /\ marks' = [marks EXCEPT ![p] = MarksOf({})]
    /\ tx' = [tx EXCEPT ![p] = {}]
    /\ rounds' = [a \in Peers |-> [b \in Peers |-> IF p \in {a, b} THEN Idle ELSE rounds[a][b]]]
    /\ incoming' = [incoming EXCEPT ![p] = {}]
    /\ faults' = faults + 1
    /\ UNCHANGED <<store, acl, writes>>

\* p restarts: the diff and the watermarks come from the collection.
New(p) ==
    /\ faults < MaxFaults
    /\ diff' = [diff EXCEPT ![p] = Heads(store[p])]
    /\ marks' = [marks EXCEPT ![p] = MarksOf(store[p])]
    /\ tx' = [tx EXCEPT ![p] = {}]
    /\ rounds' = [a \in Peers |-> [b \in Peers |-> IF p \in {a, b} THEN Idle ELSE rounds[a][b]]]
    /\ incoming' = [incoming EXCEPT ![p] = {}]
    /\ faults' = faults + 1
    /\ UNCHANGED <<store, acl, writes>>

\* The next acl record reaches p.
AclUpdate(p) ==
    /\ acl[p] < MaxAcl
    /\ acl' = [acl EXCEPT ![p] = @ + 1]
    /\ UNCHANGED <<store, diff, marks, tx, rounds, incoming, writes, faults>>

Round(p, q) ==
    \/ Compare(p, q) \/ Push(p, q) \/ Asked(p, q) \/ Serve(p, q) \/ Apply(p, q)

Next ==
    \E p \in Peers :
        \/ SetValue(p) \/ DeletePrefix(p) \/ HandleMessage(p)
        \/ Commit(p) \/ Rollback(p) \/ New(p) \/ AclUpdate(p)
        \/ \E q \in Peers \ {p} : Round(p, q) \/ Break(p, q)

Spec == Init /\ [][Next]_vars

\* Transactions end, handlers run, the head sync is periodic, and the acl is synced.
Fairness ==
    /\ WF_vars(\E p \in Peers : Commit(p))
    /\ WF_vars(\E p \in Peers : HandleMessage(p))
    /\ WF_vars(\E p \in Peers : AclUpdate(p))
    /\ WF_vars(\E p, q \in Peers : Round(p, q))

FairSpec == Spec /\ Fairness

-----------------------------------------------------------------------------
(* Properties *)

\* The diff never advertises what the storage does not hold (the comment in
\* storage.Set): a peer would never send those values again.
AdvertisedIsStored ==
    \A p \in Peers : Unlocked(p) =>
        \A i \in DOMAIN diff[p] : \E r \in store[p] : Id(r) = i /\ r.ts = diff[p][i]

\* And all that is stored is advertised, as TestWatermarkDropsOlderRows has it: the
\* rows a watermark drops go from the storage and from the diff, and newer rows stay
\* in both.
StoredIsAdvertised ==
    \A p \in Peers : Unlocked(p) => {Id(r) : r \in store[p]} \subseteq DOMAIN diff[p]

\* What a watermark has dropped never comes back on that device, also after a
\* restart (the comment of Storage.DeletePrefix).
DeletedStaysDeleted ==
    [][\A p \in Peers :
         /\ \A r \in store'[p] : ~covered(marks'[p], r.key, r.ts)
         /\ \A k \in Keys \cup DeletePrefixes, t \in Times :
                covered(marks[p], k, t) => covered(marks'[p], k, t)]_vars

\* The devices end up with the same rows, in whatever order they got them.
RowsConverge == <>[](\A p, q \in Peers : store[p] = store[q])
=============================================================================
