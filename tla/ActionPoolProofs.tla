-------------------------- MODULE ActionPoolProofs --------------------------
(***************************************************************************)
(* Proofs about ActionPool, for every number of callers, workers, objects, *)
(* requests and queues: no two actions for one object run at once, and     *)
(* onRemove is called once for a request, but for the one exception the    *)
(* property names.                                                         *)
(***************************************************************************)
EXTENDS ActionPool, TLAPS

-----------------------------------------------------------------------------
\* The inductive invariant.

Entry == [req : Requests \cup {NoRequest}, cnt : Nat]
Asked == {"load", "count", "enter", "tryAdd", "undo"}

\* The record of a caller that is in Add.
Busy == [pc : Asked, req : Requests, q : Queues, cur : Nat]

\* The record of a worker that has an id.
Serving == [pc : {"lookup", "take", "action", "remove"}, id : {{o} : o \in Objects},
            req : Requests \cup {NoRequest}]

\* Of which type the variables are.
TypeOK ==
  /\ made \in 0..MaxRequests
  /\ object \in [Requests -> Objects]
  /\ removed \in [Requests -> Nat]
  /\ current \in SUBSET Queues /\ opened \in 0..MaxQueues
  /\ entries \in [Queues -> [Objects -> Entry]]
  /\ batch \in [Queues -> Seq(Objects)]
  /\ cnt \in [Queues -> Nat]
  /\ caller \in [Callers -> Busy \cup {Idle}]
  /\ worker \in [Queues -> [Workers -> Serving \cup {Resting}]]
  /\ guard \in SUBSET Objects

\* The guard has the object of every action that runs, and of each at most one.
GuardInv ==
  /\ \A q \in Queues, w \in Workers : worker[q][w].pc = "action" => worker[q][w].id \subseteq guard
  /\ OneAtATime

\* Who has to see to it that the entry of o in q is served: a caller that has yet
\* to queue the id, the queue, or a worker that took the id from it.
Queueing(c, q, o) == caller[c].pc \in {"tryAdd", "undo"} /\ caller[c].q = q /\ object[caller[c].req] = o
Queued(q, o) == \E i \in DOMAIN batch[q] : batch[q][i] = o
Serves(q, w, o) == worker[q][w].pc = "lookup" /\ worker[q][w].id = {o}

\* There is at most one of these for an object, and then there is an entry.
OneServes(q, o) ==
  /\ \A c, d \in Callers : Queueing(c, q, o) /\ Queueing(d, q, o) => c = d
  /\ \A i, j \in DOMAIN batch[q] : batch[q][i] = o /\ batch[q][j] = o => i = j
  /\ \A v, w \in Workers : Serves(q, v, o) /\ Serves(q, w, o) => v = w
  /\ \A c \in Callers : Queueing(c, q, o) => ~Queued(q, o) /\ entries[q][o] # NoEntry
  /\ \A c \in Callers, w \in Workers : Queueing(c, q, o) => ~Serves(q, w, o)
  /\ \A w \in Workers : Serves(q, w, o) => ~Queued(q, o) /\ entries[q][o] # NoEntry
  /\ Queued(q, o) => entries[q][o] # NoEntry

TokenInv == \A q \in Queues, o \in Objects : OneServes(q, o)

\* Where a request is: with a caller that has yet to enter it, in an entry, or
\* with a worker.
Coming(c, r) == caller[c].pc \in {"load", "count", "enter"} /\ caller[c].req = r
Waits(q, o, r) == entries[q][o].req = r
Runs(q, w, r) == worker[q][w].pc \in {"take", "action", "remove"} /\ worker[q][w].req = r

Nowhere(r) ==
  /\ \A q \in Queues : \A o \in Objects : ~Waits(q, o, r)
  /\ \A q \in Queues : \A w \in Workers : ~Runs(q, w, r)

\* It is in one place at most, and was not removed then.
OnePlace(r) ==
  /\ \A c \in Callers : Coming(c, r) => removed[r] = 0 /\ Nowhere(r)
  /\ \A q \in Queues : \A o \in Objects : Waits(q, o, r) =>
       /\ removed[r] = 0 /\ r <= made /\ object[r] = o
       /\ \A p \in Queues : Waits(p, o, r) => p = q
       /\ \A p \in Queues : \A w \in Workers : ~Runs(p, w, r)
  /\ \A q \in Queues : \A w \in Workers : Runs(q, w, r) =>
       /\ removed[r] = 0 /\ r <= made
       /\ \A p \in Queues : \A v \in Workers : Runs(p, v, r) => p = q /\ v = w
  /\ r > made => removed[r] = 0

PlaceInv == \A r \in Requests : OnePlace(r)

\* A caller that has entered its request has the entry still, or was replaced.
Entered(c) ==
  LET me == caller[c] IN
  caller[c].pc \in {"tryAdd", "undo"} =>
    \/ /\ Waits(me.q, object[me.req], me.req)
       /\ entries[me.q][object[me.req]].cnt = me.cur
    \/ removed[me.req] = 1 /\ Nowhere(me.req)

\* Every caller has a request of its own.
CallerInv ==
  /\ \A c, d \in Callers : caller[c] # Idle /\ caller[d] # Idle /\ caller[c].req = caller[d].req => c = d
  /\ \A c \in Callers : caller[c] # Idle => caller[c].req <= made
  /\ \A c \in Callers : Entered(c)

\* An entry has a request, and so has a worker that took one.
ReqInv ==
  /\ \A q \in Queues, o \in Objects : entries[q][o].req = NoRequest => entries[q][o] = NoEntry
  /\ \A q \in Queues, w \in Workers :
       worker[q][w].pc \in {"take", "action", "remove"} => worker[q][w].req \in Requests

IInv == TypeOK /\ ReqInv /\ GuardInv /\ TokenInv /\ PlaceInv /\ CallerInv

-----------------------------------------------------------------------------
\* Initially.

\* Nobody has asked for anything yet.
LEMMA InitIInv == Init => IInv
<1> SUFFICES ASSUME Init PROVE IInv
  OBVIOUS
<1> USE ActionPoolAssumption DEF Init
<1>1. \A c \in Callers : caller[c] = Idle
  OBVIOUS
<1>2. \A q \in Queues : \A w \in Workers : worker[q][w] = Resting
  OBVIOUS
<1>3. \A q \in Queues : \A o \in Objects : entries[q][o] = NoEntry
  OBVIOUS
<1>4. \A q \in Queues : batch[q] = <<>>
  OBVIOUS
<1>5. NoEntry \in Entry /\ NoEntry.req = NoRequest
  BY Zenon DEF NoEntry, Entry
<1>6. TypeOK
  BY <1>5 DEF TypeOK
<1>7. GuardInv
  BY Zenon, <1>2 DEF GuardInv, OneAtATime, Resting
<1>8. TokenInv
  BY <1>1, <1>2, <1>4 DEF TokenInv, OneServes, Queueing, Queued, Serves, Idle, Resting
<1>9. PlaceInv
  BY Zenon, <1>1, <1>2, <1>3, <1>5 DEF PlaceInv, OnePlace, Nowhere, Coming, Waits, Runs, Idle, Resting, Requests
<1>10. CallerInv
  BY Zenon, <1>1 DEF CallerInv, Entered, Idle
<1>11. ReqInv
  BY Zenon, <1>2, <1>3 DEF ReqInv, Resting
<1> QED
  BY Zenon, <1>6, <1>7, <1>8, <1>9, <1>10, <1>11 DEF IInv

-----------------------------------------------------------------------------
\* The steps.

\* What no step of a worker changes keeps the guard.
LEMMA GuardKept == ASSUME GuardInv, UNCHANGED <<worker, guard>> PROVE GuardInv'
  BY DEF GuardInv, OneAtATime

\* The record of a caller.
LEMMA CallerTyped ==
    ASSUME TypeOK, NEW c \in Callers
    PROVE  /\ Idle.pc = "idle" /\ Idle.req = NoRequest
           /\ caller[c] # Idle <=> caller[c].pc \in Asked
           /\ caller[c] # Idle =>
                /\ caller[c] \in Busy
                /\ caller[c].req \in Requests /\ caller[c].q \in Queues /\ caller[c].cur \in Nat
                /\ object[caller[c].req] \in Objects
  BY DEF TypeOK, Busy, Idle, Asked

\* The record of a worker.
LEMMA WorkerTyped ==
    ASSUME TypeOK, NEW q \in Queues, NEW w \in Workers
    PROVE  /\ Resting.pc = "wait"
           /\ worker[q][w].pc # "wait" =>
                /\ worker[q][w] \in Serving
                /\ \E o \in Objects : worker[q][w].id = {o}
                /\ worker[q][w].req \in Requests \cup {NoRequest}
<1>1. Resting.pc = "wait" /\ worker[q][w] \in Serving \cup {Resting}
  BY Zenon DEF TypeOK, Resting
<1>2. ASSUME worker[q][w] \in Serving
      PROVE  /\ worker[q][w].id \in {{o} : o \in Objects}
             /\ worker[q][w].req \in Requests \cup {NoRequest}
  BY Zenon, <1>2 DEF Serving
<1> QED
  BY Zenon, <1>1, <1>2

\* The entry of an object.
LEMMA EntryTyped ==
    ASSUME TypeOK, ReqInv, NEW q \in Queues, NEW o \in Objects
    PROVE  /\ entries[q][o] \in Entry
           /\ NoEntry \in Entry /\ NoEntry.req = NoRequest /\ NoRequest \notin Requests
           /\ entries[q][o] # NoEntry <=> entries[q][o].req \in Requests
<1>1. entries[q][o] \in Entry /\ NoEntry \in Entry /\ NoEntry.req = NoRequest
  BY Zenon DEF TypeOK, NoEntry, Entry
<1>2. NoRequest \notin Requests
  BY Zenon, ActionPoolAssumption DEF Requests
<1> QED
  BY Zenon, <1>1, <1>2 DEF ReqInv, Entry

\* What it means that a caller goes on, that it returns, and that onRemove is called.
LEMMA PcSet ==
    ASSUME TypeOK, NEW c \in Callers, caller[c] \in Busy, NEW pc \in Asked,
           caller' = [caller EXCEPT ![c].pc = pc]
    PROVE  /\ caller' \in [Callers -> Busy \cup {Idle}]
           /\ caller'[c].pc = pc /\ caller'[c].req = caller[c].req
           /\ caller'[c].q = caller[c].q /\ caller'[c].cur = caller[c].cur
           /\ caller'[c] \in Busy
           /\ \A d \in Callers : d # c => caller'[d] = caller[d]
<1>1. caller \in [Callers -> Busy \cup {Idle}]
  BY Zenon DEF TypeOK
<1>2. /\ caller'[c] = [caller[c] EXCEPT !.pc = pc]
      /\ \A d \in Callers : d # c => caller'[d] = caller[d]
  BY Zenon, <1>1
<1>3. /\ caller'[c] \in Busy /\ caller'[c].pc = pc /\ caller'[c].req = caller[c].req
      /\ caller'[c].q = caller[c].q /\ caller'[c].cur = caller[c].cur
  BY <1>2 DEF Busy
<1> QED
  BY Zenon, <1>1, <1>2, <1>3

\* The call of a caller returns.
LEMMA Returned ==
    ASSUME TypeOK, NEW c \in Callers, caller' = [caller EXCEPT ![c] = Idle]
    PROVE  /\ caller' \in [Callers -> Busy \cup {Idle}] /\ caller'[c] = Idle
           /\ \A d \in Callers : d # c => caller'[d] = caller[d]
  BY Zenon DEF TypeOK

\* onRemove is called for a request.
LEMMA RemoveCalled ==
    ASSUME TypeOK, NEW r \in Requests, Remove(r)
    PROVE  /\ removed' \in [Requests -> Nat] /\ removed'[r] = removed[r] + 1
           /\ \A x \in Requests : x # r => removed'[x] = removed[x]
<1>1. removed \in [Requests -> Nat]
  BY Zenon DEF TypeOK
<1> QED
  BY <1>1 DEF Remove

\* What it means that a worker goes on.
WorkerTo(q, w, e) == worker' = [worker EXCEPT ![q][w] = e]

\* A worker goes on, the others stay where they are.
LEMMA WorkerSet ==
    ASSUME TypeOK, NEW q \in Queues, NEW w \in Workers, NEW e \in Serving \cup {Resting},
           WorkerTo(q, w, e)
    PROVE  /\ worker' \in [Queues -> [Workers -> Serving \cup {Resting}]]
           /\ worker'[q][w] = e
           /\ \A p \in Queues, v \in Workers : p # q \/ v # w => worker'[p][v] = worker[p][v]
<1>1. worker \in [Queues -> [Workers -> Serving \cup {Resting}]]
  BY Zenon DEF TypeOK
<1> QED
  BY <1>1 DEF WorkerTo

\* A step in which nobody gets a new duty to serve the entry of o in q.
LEMMA TokenKept ==
    ASSUME NEW q \in Queues, NEW o \in Objects, OneServes(q, o),
           batch'[q] = batch[q], entries[q][o] # NoEntry => entries'[q][o] # NoEntry,
           \A c \in Callers : Queueing(c, q, o)' => Queueing(c, q, o),
           \A w \in Workers : Serves(q, w, o)' => Serves(q, w, o)
    PROVE  OneServes(q, o)'
<1>1. Queued(q, o)' <=> Queued(q, o)
  BY Zenon DEF Queued
<1> QED
  BY Zenon, <1>1 DEF OneServes

\* A step in which a request goes nowhere.
LEMMA PlaceKept ==
    ASSUME NEW r \in Requests, OnePlace(r), UNCHANGED object, removed'[r] = removed[r],
           made \in Nat, made' \in Nat, made' >= made,
           \A c \in Callers : Coming(c, r)' => Coming(c, r),
           \A q \in Queues, o \in Objects : Waits(q, o, r)' => Waits(q, o, r),
           \A q \in Queues, w \in Workers : Runs(q, w, r)' => Runs(q, w, r)
    PROVE  OnePlace(r)'
<1>1. r \in Nat
  BY DEF Requests
<1>2. Nowhere(r) => Nowhere(r)'
  BY Zenon DEF Nowhere
<1>3. \A c \in Callers : Coming(c, r)' => removed'[r] = 0 /\ Nowhere(r)'
  BY Zenon, <1>2 DEF OnePlace
<1>4. r <= made => r <= made'
  BY <1>1
<1>5. r > made' => r > made
  BY <1>1
<1> QED
  BY <1>3, <1>4, <1>5 DEF OnePlace

\* A step that leaves a caller that has entered its request where it is.
LEMMA EnteredKept ==
    ASSUME NEW c \in Callers, NEW r, Entered(c), UNCHANGED object,
           caller[c].pc \in {"tryAdd", "undo"}, r = caller[c].req,
           caller'[c].req = r, caller'[c].q = caller[c].q, caller'[c].cur = caller[c].cur,
           removed'[r] = removed[r],
           entries'[caller[c].q][object[r]] = entries[caller[c].q][object[r]],
           Nowhere(r) => Nowhere(r)'
    PROVE  Entered(c)'
  BY Zenon DEF Entered, Waits

\* Steps in which no request moves, and the callers keep theirs.
LEMMA CallerKept ==
    ASSUME TypeOK, CallerInv, UNCHANGED <<made, object, removed, entries>>,
           \A c \in Callers : caller'[c] # Idle =>
              /\ caller[c] # Idle /\ caller'[c].req = caller[c].req
              /\ caller'[c].pc \in {"tryAdd", "undo"} =>
                   /\ caller[c].pc \in {"tryAdd", "undo"}
                   /\ caller'[c].q = caller[c].q /\ caller'[c].cur = caller[c].cur,
           \A q \in Queues, w \in Workers, r \in Requests : Runs(q, w, r)' => Runs(q, w, r)
    PROVE  CallerInv'
<1>1. \A r \in Requests : Nowhere(r) => Nowhere(r)'
  BY Zenon DEF Nowhere, Waits
<1>2. ASSUME NEW c \in Callers PROVE Entered(c)'
  <2>1. CASE caller'[c].pc \in {"tryAdd", "undo"}
    <3>1. caller'[c] # Idle
      BY <2>1 DEF Idle
    <3>2. PICK r : r = caller[c].req
      BY Zenon
    <3>3. r \in Requests
      BY Zenon, <3>1, <3>2, CallerTyped
    <3>4. Entered(c)
      BY Zenon DEF CallerInv
    <3> QED
      BY Zenon, <1>1, <2>1, <3>1, <3>2, <3>3, <3>4, EnteredKept
  <2>2. CASE caller'[c].pc \notin {"tryAdd", "undo"}
    BY Zenon, <2>2 DEF Entered
  <2> QED
    BY Zenon, <2>1, <2>2
<1> QED
  BY <1>2 DEF CallerInv

-----------------------------------------------------------------------------
\* Replace, up to the entry.

\* A new request is in no place yet.
LEMMA AddStep == ASSUME IInv, NEW c \in Callers, Add(c) PROVE IInv'
<1> USE DEF IInv
<1>0. current' \in SUBSET Queues /\ opened' \in 0..MaxQueues
  <2>1. current \in SUBSET Queues /\ opened \in 0..MaxQueues
    BY Zenon DEF TypeOK
  <2>2. CASE UNCHANGED <<current, opened>>
    BY Zenon, <2>1, <2>2
  <2>3. CASE opened < MaxQueues /\ opened' = opened + 1 /\ current' = {opened'}
    BY <2>1, <2>3, ActionPoolAssumption DEF Queues
  <2> QED
    BY Zenon, <2>2, <2>3 DEF Add
<1>1. PICK q \in Queues : caller' = [caller EXCEPT ![c] = [pc |-> "load", req |-> made', q |-> q, cur |-> 0]]
  <2>1. PICK q \in current' :
          caller' = [caller EXCEPT ![c] = [pc |-> "load", req |-> made', q |-> q, cur |-> 0]]
    BY Zenon DEF Add
  <2> QED
    BY Zenon, <1>0, <2>1
<1>2. /\ caller[c] = Idle /\ made' = made + 1 /\ made' \in Requests /\ made \in Nat
      /\ UNCHANGED <<object, removed, entries, batch, cnt, worker, guard>>
  BY ActionPoolAssumption DEF Add, TypeOK, Requests, queueVars
<1>3. /\ \A d \in Callers : d # c => caller'[d] = caller[d]
      /\ caller'[c] = [pc |-> "load", req |-> made', q |-> q, cur |-> 0]
  BY Zenon, <1>1 DEF TypeOK
<1>4. caller'[c].pc = "load" /\ caller'[c].req = made' /\ caller'[c] \in Busy
  BY <1>2, <1>3 DEF Busy, Asked
<1>5. TypeOK'
  <2>1. caller' \in [Callers -> Busy \cup {Idle}]
    BY Zenon, <1>1, <1>3, <1>4 DEF TypeOK
  <2>2. made' \in 0..MaxRequests
    BY <1>2 DEF Requests
  <2> QED
    BY Zenon, <1>0, <1>2, <2>1, <2>2 DEF TypeOK
<1>6. GuardInv'
  BY Zenon, <1>2, GuardKept
<1>7. TokenInv'
  <2> SUFFICES ASSUME NEW p \in Queues, NEW o \in Objects PROVE OneServes(p, o)'
    BY Zenon DEF TokenInv
  <2>1. \A d \in Callers : Queueing(d, p, o)' => Queueing(d, p, o)
    BY Zenon, <1>2, <1>3, <1>4 DEF Queueing
  <2>2. \A w \in Workers : Serves(p, w, o)' => Serves(p, w, o)
    BY Zenon, <1>2 DEF Serves
  <2>3. OneServes(p, o)
    BY Zenon DEF TokenInv
  <2> QED
    BY Zenon, <1>2, <2>1, <2>2, <2>3, TokenKept
<1>8. \A r \in Requests : Nowhere(r)' <=> Nowhere(r)
  BY Zenon, <1>2 DEF Nowhere, Waits, Runs
<1>9. PlaceInv'
  <2> SUFFICES ASSUME NEW r \in Requests PROVE OnePlace(r)'
    BY Zenon DEF PlaceInv
  <2>0. OnePlace(r) /\ r \in Nat
    BY DEF PlaceInv, Requests
  <2>1. CASE r # made'
    <3>1. \A d \in Callers : Coming(d, r)' => Coming(d, r)
      BY Zenon, <1>3, <1>4, <2>1 DEF Coming
    <3>2. \A p \in Queues, o \in Objects : Waits(p, o, r)' => Waits(p, o, r)
      BY Zenon, <1>2 DEF Waits
    <3>3. \A p \in Queues, w \in Workers : Runs(p, w, r)' => Runs(p, w, r)
      BY Zenon, <1>2 DEF Runs
    <3>4. made' \in Nat /\ made' >= made /\ removed'[r] = removed[r]
      BY <1>2
    <3> QED
      BY Zenon, <1>2, <2>0, <3>1, <3>2, <3>3, <3>4, PlaceKept
  <2>2. CASE r = made'
    <3>1. r > made /\ ~(r <= made)
      BY <1>2, <2>2
    <3>2. removed'[r] = 0 /\ Nowhere(r)
      BY Zenon, <1>2, <2>0, <3>1 DEF OnePlace, Nowhere
    <3>3. Nowhere(r)'
      BY Zenon, <3>2, <1>8
    <3> QED
      BY Zenon, <3>2, <3>3 DEF OnePlace, Nowhere
  <2> QED
    BY Zenon, <2>1, <2>2
<1>10. CallerInv'
  <2>1. \A d \in Callers : d # c /\ caller'[d] # Idle => caller'[d].req \in Nat /\ caller'[d].req <= made
    BY <1>3, CallerTyped DEF CallerInv, Requests
  <2>2. ASSUME NEW d \in Callers PROVE Entered(d)'
    <3>1. CASE d # c /\ caller[d].pc \in {"tryAdd", "undo"}
      <4>1. PICK r : r = caller[d].req
        BY Zenon
      <4>2. r \in Requests /\ Entered(d)
        BY Zenon, <3>1, <4>1, CallerTyped DEF CallerInv, Asked
      <4> QED
        BY Zenon, <1>2, <1>3, <1>8, <3>1, <4>1, <4>2, EnteredKept
    <3>2. CASE d = c \/ caller[d].pc \notin {"tryAdd", "undo"}
      BY Zenon, <1>3, <1>4, <3>2 DEF Entered
    <3> QED
      BY Zenon, <3>1, <3>2
  <2>3. \A d \in Callers : caller'[d] # Idle => caller'[d].req <= made'
    BY <1>2, <1>4, <2>1
  <2>4. \A d, e \in Callers : caller'[d] # Idle /\ caller'[e] # Idle /\ caller'[d].req = caller'[e].req => d = e
    <3>1. \A d \in Callers : d # c /\ caller'[d] # Idle => caller'[d].req # made'
      BY <1>2, <2>1
    <3> QED
      BY <1>3, <1>4, <3>1 DEF CallerInv
  <2> QED
    BY Zenon, <2>2, <2>3, <2>4 DEF CallerInv
<1>11. ReqInv'
  BY Zenon, <1>2 DEF ReqInv
<1> QED
  BY Zenon, <1>5, <1>6, <1>7, <1>9, <1>10, <1>11

\* Reading the counter, or incrementing it, moves no request.
LEMMA CountStep == ASSUME IInv, NEW c \in Callers, LoadCnt(c) \/ AddCnt(c) PROVE IInv'
<1> USE DEF IInv
<1>1. /\ caller[c].pc \in {"load", "count"} /\ caller[c] # Idle
      /\ caller'[c].pc \in {"count", "enter"} /\ caller'[c].req = caller[c].req
      /\ caller'[c] \in Busy
      /\ caller' \in [Callers -> Busy \cup {Idle}] /\ cnt' \in [Queues -> Nat]
      /\ \A d \in Callers : d # c => caller'[d] = caller[d]
  <2>1. caller[c].pc \in {"load", "count"} /\ caller[c] # Idle
    BY DEF LoadCnt, AddCnt, Idle
  <2>2. caller[c] \in Busy /\ caller[c].q \in Queues
    BY Zenon, <2>1, CallerTyped
  <2>3. CASE LoadCnt(c)
    BY Zenon, <2>1, <2>2, <2>3 DEF LoadCnt, TypeOK, Busy, Asked, queueVars
  <2>4. CASE AddCnt(c)
    <3>1. caller' = [caller EXCEPT ![c].pc = "enter"] /\ "enter" \in Asked
      BY Zenon, <2>4 DEF AddCnt, Asked
    <3>2. cnt' \in [Queues -> Nat]
      BY <2>2, <2>4 DEF AddCnt, TypeOK
    <3> QED
      BY Zenon, <2>1, <2>2, <3>1, <3>2, PcSet
  <2> QED
    BY Zenon, <2>3, <2>4
<1>2. UNCHANGED <<made, object, removed, current, opened, entries, batch, worker, guard>>
  BY Zenon DEF LoadCnt, AddCnt, poolVars, queueVars
<1>3. TypeOK'
  BY Zenon, <1>1, <1>2 DEF TypeOK
<1>4. GuardInv'
  BY Zenon, <1>2, GuardKept
<1>5. TokenInv'
  <2> SUFFICES ASSUME NEW p \in Queues, NEW o \in Objects PROVE OneServes(p, o)'
    BY Zenon DEF TokenInv
  <2>1. \A d \in Callers : Queueing(d, p, o)' => Queueing(d, p, o)
    BY Zenon, <1>1, <1>2 DEF Queueing
  <2>2. \A w \in Workers : Serves(p, w, o)' => Serves(p, w, o)
    BY Zenon, <1>2 DEF Serves
  <2>3. OneServes(p, o)
    BY Zenon DEF TokenInv
  <2> QED
    BY Zenon, <1>2, <2>1, <2>2, <2>3, TokenKept
<1>6. \A p \in Queues, w \in Workers, r \in Requests : Runs(p, w, r)' => Runs(p, w, r)
  BY Zenon, <1>2 DEF Runs
<1>7. PlaceInv'
  <2> SUFFICES ASSUME NEW r \in Requests PROVE OnePlace(r)'
    BY Zenon DEF PlaceInv
  <2>1. \A d \in Callers : Coming(d, r)' => Coming(d, r)
    BY Zenon, <1>1 DEF Coming
  <2>2. \A p \in Queues, o \in Objects : Waits(p, o, r)' => Waits(p, o, r)
    BY Zenon, <1>2 DEF Waits
  <2>3. OnePlace(r) /\ made \in Nat /\ made' \in Nat /\ made' >= made
    BY <1>2 DEF PlaceInv, TypeOK
  <2> QED
    BY Zenon, <1>2, <1>6, <2>1, <2>2, <2>3, PlaceKept
<1>8. CallerInv'
  BY Zenon, <1>1, <1>2, <1>6, CallerKept
<1>9. ReqInv'
  BY Zenon, <1>2 DEF ReqInv
<1> QED
  BY Zenon, <1>3, <1>4, <1>5, <1>7, <1>8, <1>9

\* The one who has to queue the id of a new entry is the only one to serve it; a
\* request that is replaced is in no place any more.
LEMMA EnterStep == ASSUME IInv, NEW c \in Callers, Enter(c) PROVE IInv'
<1> USE DEF IInv
<1>1. PICK me, o, before :
        /\ me = caller[c] /\ o = object[me.req] /\ before = entries[me.q][o]
  BY Zenon
<1>2. PICK r, q : r = me.req /\ q = me.q
  BY Zenon
<1>3. me.pc = "enter" /\ me # Idle
  BY <1>1 DEF Enter, Idle
<1>4. /\ me \in Busy /\ r \in Requests /\ q \in Queues /\ o \in Objects /\ me.cur \in Nat
      /\ object[r] = o /\ r <= made
  BY Zenon, <1>1, <1>2, <1>3, CallerTyped DEF CallerInv
<1>5. Coming(c, r)
  BY Zenon, <1>1, <1>2, <1>3 DEF Coming
<1>6. removed[r] = 0 /\ Nowhere(r)
  BY Zenon, <1>4, <1>5 DEF PlaceInv, OnePlace
<1>7. /\ UNCHANGED <<made, object, current, opened, batch, cnt, worker, guard>>
      /\ entries' = [entries EXCEPT ![q][o] = [req |-> r, cnt |-> me.cur]]
  BY Zenon, <1>1, <1>2 DEF Enter, poolVars
<1>8. /\ entries'[q][o] = [req |-> r, cnt |-> me.cur]
      /\ \A p \in Queues, x \in Objects : p # q \/ x # o => entries'[p][x] = entries[p][x]
  BY Zenon, <1>4, <1>7 DEF TypeOK
<1>9. /\ entries'[q][o].req = r /\ entries'[q][o].cnt = me.cur
      /\ entries'[q][o] \in Entry /\ entries'[q][o] # NoEntry
  BY <1>4, <1>8, ActionPoolAssumption DEF Entry, NoEntry, Requests
<1>10. \/ /\ before # NoEntry /\ Remove(before.req)
          /\ caller' = [caller EXCEPT ![c] = Idle]
       \/ /\ before = NoEntry /\ UNCHANGED removed
          /\ caller' = [caller EXCEPT ![c].pc = "tryAdd"]
  BY Zenon, <1>1 DEF Enter
<1>11. /\ \A d \in Callers : d # c => caller'[d] = caller[d]
       /\ caller' \in [Callers -> Busy \cup {Idle}]
       /\ before # NoEntry => caller'[c] = Idle
       /\ before = NoEntry => /\ caller'[c].pc = "tryAdd" /\ caller'[c].req = r
                              /\ caller'[c].q = q /\ caller'[c].cur = me.cur
  <2>1. CASE before # NoEntry
    BY Zenon, <1>10, <2>1, Returned
  <2>2. CASE before = NoEntry
    <3>1. "tryAdd" \in Asked
      BY Zenon DEF Asked
    <3> QED
      BY <1>1, <1>2, <1>4, <1>10, <2>2, <3>1, PcSet
  <2> QED
    BY Zenon, <2>1, <2>2
<1>12. /\ before # NoEntry =>
            /\ before.req \in Requests /\ before.req # r /\ Waits(q, o, before.req)
            /\ removed'[before.req] = 1
       /\ \A x \in Requests : before = NoEntry \/ x # before.req => removed'[x] = removed[x]
       /\ removed' \in [Requests -> Nat]
  <2>1. CASE before = NoEntry
    BY Zenon, <1>10, <2>1 DEF TypeOK
  <2>2. CASE before # NoEntry
    <3>1. before.req \in Requests /\ Waits(q, o, before.req)
      BY Zenon, <1>1, <1>2, <1>4, <2>2, EntryTyped DEF Waits
    <3>2. before.req # r
      BY Zenon, <1>4, <1>6, <3>1 DEF Nowhere
    <3>3. removed[before.req] = 0
      BY Zenon, <1>4, <3>1 DEF PlaceInv, OnePlace
    <3> QED
      BY <1>10, <2>2, <3>1, <3>2, <3>3, RemoveCalled
  <2> QED
    BY Zenon, <2>1, <2>2
<1>13. TypeOK'
  <2>1. entries' \in [Queues -> [Objects -> Entry]]
    BY <1>4, <1>7, <1>8, <1>9 DEF TypeOK
  <2> QED
    BY Zenon, <1>7, <1>11, <1>12, <2>1 DEF TypeOK
<1>14. GuardInv'
  BY Zenon, <1>7, GuardKept
<1>15. TokenInv'
  <2> SUFFICES ASSUME NEW p \in Queues, NEW x \in Objects PROVE OneServes(p, x)'
    BY Zenon DEF TokenInv
  <2>1. \A w \in Workers : Serves(p, w, x)' <=> Serves(p, w, x)
    BY Zenon, <1>7 DEF Serves
  <2>2. OneServes(p, x)
    BY Zenon DEF TokenInv
  <2>3. CASE before # NoEntry \/ p # q \/ x # o
    <3>1. \A d \in Callers : Queueing(d, p, x)' => Queueing(d, p, x)
      BY <1>4, <1>7, <1>11, <2>3 DEF Queueing, Idle
    <3>2. entries[p][x] # NoEntry => entries'[p][x] # NoEntry
      BY Zenon, <1>8, <1>9
    <3>3. batch'[p] = batch[p]
      BY Zenon, <1>7
    <3> QED
      BY Zenon, <2>1, <2>2, <3>1, <3>2, <3>3, TokenKept
  <2>4. CASE before = NoEntry /\ p = q /\ x = o
    <3>1. entries[p][x] = NoEntry
      BY Zenon, <1>1, <1>2, <2>4
    <3>2. /\ \A d \in Callers : ~Queueing(d, p, x)
          /\ \A w \in Workers : ~Serves(p, w, x)
          /\ ~Queued(p, x)
      BY Zenon, <2>2, <3>1 DEF OneServes
    <3>3. \A d \in Callers : Queueing(d, p, x)' => d = c
      BY Zenon, <1>7, <1>11, <3>2 DEF Queueing
    <3>4. ~Queued(p, x)' /\ \A w \in Workers : ~Serves(p, w, x)'
      BY Zenon, <1>7, <2>1, <3>2 DEF Queued
    <3>5. entries'[p][x] # NoEntry
      BY Zenon, <1>9, <2>4
    <3> QED
      BY Zenon, <3>3, <3>4, <3>5 DEF OneServes, Queued
  <2> QED
    BY Zenon, <2>3, <2>4
<1>16. \A x \in Requests : x # r /\ Nowhere(x) => Nowhere(x)'
  BY <1>7, <1>8, <1>9 DEF Nowhere, Waits, Runs
<1>17. ASSUME before # NoEntry PROVE Nowhere(before.req)'
  <2>1. PICK b \in Requests : b = before.req
    BY Zenon, <1>12, <1>17
  <2>2. b # r /\ Waits(q, o, b) /\ OnePlace(b)
    BY Zenon, <1>12, <1>17, <2>1 DEF PlaceInv
  <2>3. \A p \in Queues : \A x \in Objects : Waits(p, x, b) => p = q /\ x = o
    BY Zenon, <1>4, <2>2 DEF OnePlace
  <2>4. \A p \in Queues : \A x \in Objects : ~Waits(p, x, b)'
    BY Zenon, <1>8, <1>9, <2>2, <2>3 DEF Waits
  <2>5. \A p \in Queues : \A w \in Workers : ~Runs(p, w, b)
    BY Zenon, <1>4, <2>2 DEF OnePlace
  <2>6. \A p \in Queues : \A w \in Workers : ~Runs(p, w, b)'
    BY Zenon, <1>7, <2>5 DEF Runs
  <2>7. Nowhere(b)'
    BY Zenon, <2>4, <2>6 DEF Nowhere
  <2> QED
    BY Zenon, <2>1, <2>7 DEF Nowhere, Waits, Runs
<1>18. PlaceInv'
  <2> SUFFICES ASSUME NEW x \in Requests PROVE OnePlace(x)'
    BY Zenon DEF PlaceInv
  <2>1. OnePlace(x) /\ made \in Nat /\ x \in Nat
    BY DEF PlaceInv, TypeOK, Requests
  <2>2. \A d \in Callers : Coming(d, x)' => Coming(d, x) /\ x # r
    <3>1. \A d \in Callers : d # c /\ caller[d] # Idle => caller[d].req # r
      BY Zenon, <1>1, <1>2, <1>3 DEF CallerInv
    <3> QED
      BY <1>11, <3>1 DEF Coming, Idle
  <2>3. \A p \in Queues, w \in Workers : Runs(p, w, x)' <=> Runs(p, w, x)
    BY Zenon, <1>7 DEF Runs
  <2>4. CASE x # r /\ (before = NoEntry \/ x # before.req)
    <3>1. \A p \in Queues, y \in Objects : Waits(p, y, x)' => Waits(p, y, x)
      BY Zenon, <1>8, <1>9, <2>4 DEF Waits
    <3>2. removed'[x] = removed[x] /\ made' \in Nat /\ made' >= made
      BY <1>7, <1>12, <2>1, <2>4
    <3> QED
      BY Zenon, <1>7, <2>1, <2>2, <2>3, <2>4, <3>1, <3>2, PlaceKept
  <2>5. CASE x = r
    <3>1. removed'[x] = 0
      BY Zenon, <1>4, <1>6, <1>12, <2>5
    <3>2. \A p \in Queues, y \in Objects : Waits(p, y, x)' => p = q /\ y = o
      BY Zenon, <1>6, <1>8, <2>5 DEF Waits, Nowhere
    <3>3. \A p \in Queues, w \in Workers : ~Runs(p, w, x)'
      BY Zenon, <1>6, <2>3, <2>5 DEF Nowhere
    <3>4. object'[x] = o /\ x <= made' /\ ~(x > made')
      BY <1>4, <1>7, <2>1, <2>5
    <3> QED
      BY Zenon, <2>2, <2>5, <3>1, <3>2, <3>3, <3>4 DEF OnePlace
  <2>6. CASE before # NoEntry /\ x = before.req
    <3>1. Nowhere(x)'
      BY Zenon, <1>17, <2>6 DEF Nowhere, Waits, Runs
    <3>2. Waits(q, o, x)
      BY Zenon, <1>12, <2>6
    <3>3. x <= made /\ \A d \in Callers : ~Coming(d, x)
      BY Zenon, <1>4, <2>1, <3>2 DEF OnePlace, Nowhere
    <3>4. \A d \in Callers : ~Coming(d, x)'
      BY Zenon, <2>2, <3>3
    <3>5. ~(x > made')
      BY <1>7, <2>1, <3>3
    <3> QED
      BY Zenon, <3>1, <3>4, <3>5 DEF OnePlace, Nowhere
  <2> QED
    BY Zenon, <2>4, <2>5, <2>6
<1>19. CallerInv'
  <2>1. ASSUME NEW d \in Callers, d # c PROVE Entered(d)'
    <3>1. CASE caller[d].pc \in {"tryAdd", "undo"}
      <4>1. PICK x, p : x = caller[d].req /\ p = caller[d].q
        BY Zenon
      <4>2. /\ caller[d] # Idle /\ x \in Requests /\ p \in Queues /\ object[x] \in Objects
            /\ Entered(d)
        BY Zenon, <3>1, <4>1, CallerTyped DEF CallerInv, Asked
      <4>3. x # r
        BY Zenon, <1>1, <1>2, <1>3, <2>1, <4>1, <4>2 DEF CallerInv
      <4>4. CASE before # NoEntry /\ x = before.req
        <5>1. Nowhere(x)' /\ removed'[x] = 1
          BY Zenon, <1>12, <1>17, <4>4 DEF Nowhere, Waits, Runs
        <5> QED
          BY <1>11, <2>1, <4>1, <5>1 DEF Entered, Nowhere, Waits, Runs
      <4>5. CASE before = NoEntry \/ x # before.req
        <5>1. removed'[x] = removed[x] /\ (Nowhere(x) => Nowhere(x)')
          BY Zenon, <1>12, <1>16, <4>2, <4>3, <4>5
        <5>2. CASE Waits(p, object[x], x)
          <6>1. p # q \/ object[x] # o
            BY Zenon, <1>1, <1>2, <4>2, <4>5, <5>2, EntryTyped DEF Waits
          <6>2. entries'[p][object[x]] = entries[p][object[x]]
            BY Zenon, <1>8, <4>2, <6>1
          <6> QED
            BY Zenon, <1>7, <1>11, <2>1, <3>1, <4>1, <4>2, <5>1, <6>2, EnteredKept
        <5>3. CASE ~Waits(p, object[x], x)
          <6>1. removed[x] = 1 /\ Nowhere(x)
            BY Zenon, <3>1, <4>1, <4>2, <5>3 DEF Entered
          <6>2. removed'[x] = 1 /\ Nowhere(x)'
            BY Zenon, <5>1, <6>1
          <6> QED
            BY <1>11, <2>1, <4>1, <6>2 DEF Entered, Nowhere, Waits, Runs
        <5> QED
          BY Zenon, <5>2, <5>3
      <4> QED
        BY Zenon, <4>4, <4>5
    <3>2. CASE caller[d].pc \notin {"tryAdd", "undo"}
      BY Zenon, <1>11, <2>1, <3>2 DEF Entered
    <3> QED
      BY Zenon, <3>1, <3>2
  <2>2. Entered(c)'
    <3>1. CASE before = NoEntry
      BY Zenon, <1>4, <1>7, <1>9, <1>11, <3>1 DEF Entered, Waits
    <3>2. CASE before # NoEntry
      BY <1>11, <3>2 DEF Entered, Idle
    <3> QED
      BY Zenon, <3>1, <3>2
  <2>3. \A d \in Callers : caller'[d] # Idle => caller[d] # Idle /\ caller'[d].req = caller[d].req
    BY Zenon, <1>1, <1>2, <1>3, <1>11
  <2> QED
    BY Zenon, <1>7, <2>1, <2>2, <2>3 DEF CallerInv
<1>20. ReqInv'
  BY <1>4, <1>7, <1>8, <1>9, ActionPoolAssumption DEF ReqInv, Requests
<1> QED
  BY Zenon, <1>13, <1>14, <1>15, <1>18, <1>19, <1>20

\* The duty to serve the entry goes from the caller to the queue.
LEMMA TryAddStep == ASSUME IInv, NEW c \in Callers, TryAdd(c) PROVE IInv'
<1> USE DEF IInv
<1>1. PICK q, r, o : q = caller[c].q /\ r = caller[c].req /\ o = object[r]
  BY Zenon
<1>2. caller[c].pc = "tryAdd" /\ caller[c] # Idle
  BY DEF TryAdd, Idle
<1>3. caller[c] \in Busy /\ r \in Requests /\ q \in Queues /\ o \in Objects
  BY Zenon, <1>1, <1>2, CallerTyped
<1>4. UNCHANGED <<made, object, removed, current, opened, entries, cnt, worker, guard>>
  BY Zenon DEF TryAdd, poolVars
<1>5. \/ /\ batch' = [batch EXCEPT ![q] = Append(@, o)]
         /\ caller' = [caller EXCEPT ![c] = Idle]
      \/ UNCHANGED batch /\ caller' = [caller EXCEPT ![c].pc = "undo"]
  BY Zenon, <1>1 DEF TryAdd
<1>6. /\ caller' \in [Callers -> Busy \cup {Idle}]
      /\ \A d \in Callers : d # c => caller'[d] = caller[d]
      /\ \/ caller'[c] = Idle
         \/ /\ caller'[c].pc = "undo" /\ caller'[c].req = caller[c].req
            /\ caller'[c].q = caller[c].q /\ caller'[c].cur = caller[c].cur
            /\ UNCHANGED batch
  <2>1. "undo" \in Asked
    BY Zenon DEF Asked
  <2> QED
    BY <1>3, <1>5, <2>1, Returned, PcSet
<1>7. TypeOK'
  <2>1. batch' \in [Queues -> Seq(Objects)]
    <3>1. batch \in [Queues -> Seq(Objects)]
      BY Zenon DEF TypeOK
    <3>2. Append(batch[q], o) \in Seq(Objects)
      BY <1>3, <3>1
    <3> QED
      BY Zenon, <1>5, <3>1, <3>2
  <2> QED
    BY Zenon, <1>4, <1>6, <2>1 DEF TypeOK
<1>8. GuardInv'
  BY Zenon, <1>4, GuardKept
<1>9. TokenInv'
  <2> SUFFICES ASSUME NEW p \in Queues, NEW x \in Objects PROVE OneServes(p, x)'
    BY Zenon DEF TokenInv
  <2>1. \A w \in Workers : Serves(p, w, x)' <=> Serves(p, w, x)
    BY Zenon, <1>4 DEF Serves
  <2>2. \A d \in Callers : Queueing(d, p, x)' => Queueing(d, p, x)
    BY <1>2, <1>4, <1>6 DEF Queueing, Idle
  <2>3. OneServes(p, x) /\ entries'[p][x] = entries[p][x]
    BY Zenon, <1>4 DEF TokenInv
  <2>4. CASE batch'[p] = batch[p]
    BY Zenon, <2>1, <2>2, <2>3, <2>4, TokenKept
  <2>5. CASE p = q /\ batch' = [batch EXCEPT ![q] = Append(@, o)] /\ caller'[c] = Idle
    <3>1. PICK s \in Seq(Objects) : s = batch[q]
      BY Zenon, <1>3 DEF TypeOK
    <3>2. batch'[q] = Append(s, o)
      BY Zenon, <1>3, <2>5, <3>1 DEF TypeOK
    <3>3. /\ DOMAIN Append(s, o) = 1 .. Len(s) + 1 /\ DOMAIN s = 1 .. Len(s) /\ Len(s) \in Nat
          /\ \A i \in 1 .. Len(s) : Append(s, o)[i] = s[i]
          /\ Append(s, o)[Len(s) + 1] = o
      BY <1>3
    <3>4. CASE x # o
      <4>1. Queued(p, x)' <=> Queued(p, x)
        BY <2>5, <3>1, <3>2, <3>3, <3>4 DEF Queued
      <4>2. \A i, j \in DOMAIN s : s[i] = x /\ s[j] = x => i = j
        BY Zenon, <2>3, <2>5, <3>1 DEF OneServes
      <4>3. \A i, j \in DOMAIN Append(s, o) : Append(s, o)[i] = x /\ Append(s, o)[j] = x => i = j
        BY <3>3, <3>4, <4>2
      <4>4. \A i, j \in DOMAIN batch'[p] : batch'[p][i] = x /\ batch'[p][j] = x => i = j
        BY <2>5, <3>2, <4>3
      <4> QED
        BY Zenon, <2>1, <2>2, <2>3, <4>1, <4>4 DEF OneServes
    <3>5. CASE x = o
      <4>1. Queueing(c, p, x)
        BY Zenon, <1>1, <1>2, <2>5, <3>5 DEF Queueing
      <4>2. /\ \A d \in Callers : Queueing(d, p, x) => d = c
            /\ \A w \in Workers : ~Serves(p, w, x)
            /\ ~Queued(p, x) /\ entries[p][x] # NoEntry
        BY Zenon, <2>3, <4>1 DEF OneServes
      <4>3. /\ \A d \in Callers : ~Queueing(d, p, x)'
            /\ \A w \in Workers : ~Serves(p, w, x)'
        <5>1. ~Queueing(c, p, x)'
          BY <2>5 DEF Queueing, Idle
        <5> QED
          BY Zenon, <2>1, <2>2, <4>2, <5>1
      <4>4. \A i \in DOMAIN s : s[i] # o
        BY Zenon, <2>5, <3>1, <3>5, <4>2 DEF Queued
      <4>5. \A i, j \in DOMAIN Append(s, o) : Append(s, o)[i] = o /\ Append(s, o)[j] = o => i = j
        BY <3>3, <4>4
      <4>6. \A i, j \in DOMAIN batch'[p] : batch'[p][i] = x /\ batch'[p][j] = x => i = j
        BY Zenon, <2>5, <3>2, <3>5, <4>5
      <4> QED
        BY Zenon, <2>3, <4>2, <4>3, <4>6 DEF OneServes
    <3> QED
      BY Zenon, <3>4, <3>5
  <2> QED
    <3>1. batch \in [Queues -> Seq(Objects)]
      BY Zenon DEF TypeOK
    <3> QED
      BY Zenon, <1>3, <1>5, <1>6, <2>4, <2>5, <3>1
<1>10. \A p \in Queues, w \in Workers, x \in Requests : Runs(p, w, x)' => Runs(p, w, x)
  BY Zenon, <1>4 DEF Runs
<1>11. PlaceInv'
  <2> SUFFICES ASSUME NEW x \in Requests PROVE OnePlace(x)'
    BY Zenon DEF PlaceInv
  <2>1. \A d \in Callers : Coming(d, x)' => Coming(d, x)
    BY <1>6 DEF Coming, Idle
  <2>2. \A p \in Queues, y \in Objects : Waits(p, y, x)' => Waits(p, y, x)
    BY Zenon, <1>4 DEF Waits
  <2>3. OnePlace(x) /\ made \in Nat /\ made' \in Nat /\ made' >= made
    BY <1>4 DEF PlaceInv, TypeOK
  <2> QED
    BY Zenon, <1>4, <1>10, <2>1, <2>2, <2>3, PlaceKept
<1>12. CallerInv'
  BY Zenon, <1>2, <1>4, <1>6, <1>10, CallerKept
<1>13. ReqInv'
  BY Zenon, <1>4 DEF ReqInv
<1> QED
  BY Zenon, <1>7, <1>8, <1>9, <1>11, <1>12, <1>13

\* The request of the caller is removed, and is in no place then.  The entry of its
\* object, if it stays, has nobody who serves it.
LEMMA UndoStep == ASSUME IInv, NEW c \in Callers, Undo(c) PROVE IInv'
<1> USE DEF IInv
<1>1. PICK q, r, o, cur : q = caller[c].q /\ r = caller[c].req /\ o = object[r] /\ cur = caller[c].cur
  BY Zenon
<1>2. caller[c].pc = "undo" /\ caller[c] # Idle
  BY DEF Undo, Idle
<1>3. r \in Requests /\ q \in Queues /\ o \in Objects /\ r <= made
  BY Zenon, <1>1, <1>2, CallerTyped DEF CallerInv
<1>4. UNCHANGED <<made, object, current, opened, batch, cnt, worker, guard>>
  BY Zenon DEF Undo, poolVars
<1>5. /\ entries' = IF entries[q][o].cnt = cur
                    THEN [entries EXCEPT ![q][o] = NoEntry] ELSE entries
      /\ Remove(r)
      /\ caller' = [caller EXCEPT ![c] = Idle]
  BY Zenon, <1>1 DEF Undo
<1>6. /\ caller' \in [Callers -> Busy \cup {Idle}] /\ caller'[c] = Idle
      /\ \A d \in Callers : d # c => caller'[d] = caller[d]
  BY Zenon, <1>5, Returned
<1>7. /\ removed' \in [Requests -> Nat]
      /\ \A x \in Requests : x # r => removed'[x] = removed[x]
  BY Zenon, <1>3, <1>5, RemoveCalled
<1>8. /\ \A p \in Queues, x \in Objects : p # q \/ x # o => entries'[p][x] = entries[p][x]
      /\ \/ entries'[q][o] = NoEntry
         \/ entries'[q][o] = entries[q][o] /\ entries[q][o].cnt # cur
      /\ entries' \in [Queues -> [Objects -> Entry]]
  <2>1. NoEntry \in Entry /\ entries \in [Queues -> [Objects -> Entry]]
    BY Zenon, <1>3, EntryTyped DEF TypeOK
  <2> QED
    BY Zenon, <1>3, <1>5, <2>1
<1>9. TypeOK'
  BY Zenon, <1>4, <1>6, <1>7, <1>8 DEF TypeOK
<1>10. GuardInv'
  BY Zenon, <1>4, GuardKept
<1>11. Queueing(c, q, o)
  BY Zenon, <1>1, <1>2 DEF Queueing
<1>12. /\ \A d \in Callers : Queueing(d, q, o) => d = c
       /\ \A w \in Workers : ~Serves(q, w, o)
       /\ ~Queued(q, o)
  BY Zenon, <1>3, <1>11 DEF TokenInv, OneServes
<1>13. TokenInv'
  <2> SUFFICES ASSUME NEW p \in Queues, NEW x \in Objects PROVE OneServes(p, x)'
    BY Zenon DEF TokenInv
  <2>1. \A w \in Workers : Serves(p, w, x)' <=> Serves(p, w, x)
    BY Zenon, <1>4 DEF Serves
  <2>2. \A d \in Callers : Queueing(d, p, x)' => Queueing(d, p, x) /\ d # c
    BY <1>4, <1>6 DEF Queueing, Idle
  <2>3. OneServes(p, x) /\ batch'[p] = batch[p]
    BY Zenon, <1>4 DEF TokenInv
  <2>4. CASE p # q \/ x # o
    <3>1. entries[p][x] # NoEntry => entries'[p][x] # NoEntry
      BY Zenon, <1>8, <2>4
    <3> QED
      BY Zenon, <2>1, <2>2, <2>3, <3>1, TokenKept
  <2>5. CASE p = q /\ x = o
    <3>1. ~Queued(p, x)'
      BY Zenon, <1>12, <2>3, <2>5 DEF Queued
    <3>2. \A d \in Callers : ~Queueing(d, p, x)'
      BY Zenon, <1>12, <2>2, <2>5
    <3>3. \A w \in Workers : ~Serves(p, w, x)'
      BY Zenon, <1>12, <2>1, <2>5
    <3> QED
      BY Zenon, <3>1, <3>2, <3>3 DEF OneServes, Queued
  <2> QED
    BY Zenon, <2>4, <2>5
<1>14. \A p \in Queues, y \in Objects, x \in Requests : Waits(p, y, x)' => Waits(p, y, x)
  <2>1. NoEntry.req \notin Requests
    BY Zenon, <1>3, EntryTyped
  <2> QED
    BY Zenon, <1>8, <2>1 DEF Waits
<1>15. \A p \in Queues, w \in Workers, x \in Requests : Runs(p, w, x)' <=> Runs(p, w, x)
  BY Zenon, <1>4 DEF Runs
<1>16. Nowhere(r)'
  <2>0. Entered(c) /\ OnePlace(r)
    BY Zenon, <1>3 DEF CallerInv, PlaceInv
  <2>1. CASE Waits(q, o, r) /\ entries[q][o].cnt = cur
    <3>1. \A p \in Queues : \A w \in Workers : ~Runs(p, w, r)
      BY Zenon, <1>3, <2>0, <2>1 DEF OnePlace
    <3>2. \A p \in Queues : \A y \in Objects : Waits(p, y, r) => p = q /\ y = o
      BY Zenon, <1>3, <2>0, <2>1 DEF OnePlace
    <3>3. entries'[q][o].req # r
      BY Zenon, <1>3, <1>8, <2>1, EntryTyped
    <3>4. \A p \in Queues : \A y \in Objects : ~Waits(p, y, r)'
      BY <1>3, <1>14, <3>2, <3>3 DEF Waits
    <3>5. \A p \in Queues : \A w \in Workers : ~Runs(p, w, r)'
      BY Zenon, <1>3, <1>15, <3>1
    <3> QED
      BY Zenon, <3>4, <3>5 DEF Nowhere
  <2>2. CASE Nowhere(r)
    BY Zenon, <1>3, <1>14, <1>15, <2>2 DEF Nowhere
  <2> QED
    BY Zenon, <1>1, <1>2, <2>0, <2>1, <2>2 DEF Entered
<1>17. PlaceInv'
  <2> SUFFICES ASSUME NEW x \in Requests PROVE OnePlace(x)'
    BY Zenon DEF PlaceInv
  <2>1. OnePlace(x) /\ made \in Nat /\ made' \in Nat /\ made' >= made /\ x \in Nat
    BY <1>4 DEF PlaceInv, TypeOK, Requests
  <2>2. \A d \in Callers : Coming(d, x)' => Coming(d, x) /\ x # r
    BY <1>1, <1>2, <1>6 DEF Coming, CallerInv, Idle
  <2>3. CASE x # r
    <3>1. removed'[x] = removed[x]
      BY Zenon, <1>7, <2>3
    <3> QED
      BY Zenon, <1>4, <1>14, <1>15, <2>1, <2>2, <3>1, PlaceKept
  <2>4. CASE x = r
    <3>1. ~(x > made')
      BY <1>3, <1>4, <2>1, <2>4
    <3>2. Nowhere(x)'
      BY Zenon, <1>16, <2>4
    <3> QED
      BY Zenon, <2>2, <2>4, <3>1, <3>2 DEF OnePlace, Nowhere
  <2> QED
    BY Zenon, <2>3, <2>4
<1>18. CallerInv'
  <2>1. ASSUME NEW d \in Callers PROVE Entered(d)'
    <3>1. CASE d # c /\ caller[d].pc \in {"tryAdd", "undo"}
      <4>1. PICK x, p, y : x = caller[d].req /\ p = caller[d].q /\ y = object[x]
        BY Zenon
      <4>2. /\ caller[d] # Idle /\ x \in Requests /\ p \in Queues /\ y \in Objects
            /\ Entered(d)
        BY Zenon, <3>1, <4>1, CallerTyped DEF CallerInv, Asked
      <4>3. x # r
        BY Zenon, <1>1, <1>2, <3>1, <4>1, <4>2 DEF CallerInv
      <4>4. Queueing(d, p, y)
        BY Zenon, <3>1, <4>1 DEF Queueing
      <4>5. p # q \/ y # o
        BY Zenon, <1>12, <3>1, <4>4
      <4>6. entries'[p][y] = entries[p][y] /\ removed'[x] = removed[x]
        BY Zenon, <1>7, <1>8, <4>2, <4>3, <4>5
      <4>7. Nowhere(x) => Nowhere(x)'
        BY Zenon, <1>14, <1>15, <4>2 DEF Nowhere
      <4> QED
        BY Zenon, <1>4, <1>6, <3>1, <4>1, <4>2, <4>6, <4>7, EnteredKept
    <3>2. CASE d = c \/ caller[d].pc \notin {"tryAdd", "undo"}
      BY <1>6, <3>2 DEF Entered, Idle
    <3> QED
      BY Zenon, <3>1, <3>2
  <2> QED
    BY <1>4, <1>6, <2>1 DEF CallerInv
<1>19. ReqInv'
  <2>1. ASSUME NEW p \in Queues, NEW x \in Objects, entries'[p][x].req = NoRequest
        PROVE  entries'[p][x] = NoEntry
    BY <1>8, <2>1 DEF ReqInv
  <2> QED
    BY Zenon, <1>4, <2>1 DEF ReqInv
<1> QED
  BY Zenon, <1>9, <1>10, <1>13, <1>17, <1>18, <1>19

-----------------------------------------------------------------------------
\* callLoop.

\* A worker that goes on with its request, or returns without one.
LEMMA WorkerStep ==
    ASSUME IInv, NEW q \in Queues, NEW w \in Workers,
           UNCHANGED <<made, object, removed, current, opened, entries, batch, cnt, caller>>,
           guard' \in SUBSET Objects, GuardInv',
           NEW e \in Serving,  WorkerTo(q, w, e),
           worker[q][w].pc \in {"take", "action"}, e.pc \in {"action", "remove"},
           e.req = worker[q][w].req
    PROVE  IInv'
<1> USE DEF IInv
<1>1. /\ worker' \in [Queues -> [Workers -> Serving \cup {Resting}]]
      /\ worker'[q][w] = e
      /\ \A p \in Queues, v \in Workers : p # q \/ v # w => worker'[p][v] = worker[p][v]
  BY Zenon, WorkerSet
<1>2. TypeOK'
  BY Zenon, <1>1 DEF TypeOK
<1>3. TokenInv'
  <2> SUFFICES ASSUME NEW p \in Queues, NEW o \in Objects PROVE OneServes(p, o)'
    BY Zenon DEF TokenInv
  <2>1. \A d \in Callers : Queueing(d, p, o)' => Queueing(d, p, o)
    BY Zenon DEF Queueing
  <2>2. \A v \in Workers : Serves(p, v, o)' => Serves(p, v, o)
    BY Zenon, <1>1 DEF Serves
  <2>3. OneServes(p, o)
    BY Zenon DEF TokenInv
  <2> QED
    BY Zenon, <2>1, <2>2, <2>3, TokenKept
<1>4. \A p \in Queues, v \in Workers, r \in Requests : Runs(p, v, r)' => Runs(p, v, r)
  BY <1>1 DEF Runs
<1>5. PlaceInv'
  <2> SUFFICES ASSUME NEW r \in Requests PROVE OnePlace(r)'
    BY Zenon DEF PlaceInv
  <2>1. \A d \in Callers : Coming(d, r)' => Coming(d, r)
    BY Zenon DEF Coming
  <2>2. \A p \in Queues, o \in Objects : Waits(p, o, r)' => Waits(p, o, r)
    BY Zenon DEF Waits
  <2>3. OnePlace(r) /\ made \in Nat /\ made' \in Nat /\ made' >= made
    BY DEF PlaceInv, TypeOK
  <2> QED
    BY Zenon, <1>4, <2>1, <2>2, <2>3, PlaceKept
<1>6. CallerInv'
  BY Zenon, <1>4, CallerKept
<1>7. ReqInv'
  <2>1. \A p \in Queues, v \in Workers :
          worker'[p][v].pc \in {"take", "action", "remove"} =>
            /\ worker[p][v].pc \in {"take", "action", "remove"}
            /\ worker'[p][v].req = worker[p][v].req
    BY <1>1
  <2> QED
    BY <2>1 DEF ReqInv
<1> QED
  BY Zenon, <1>2, <1>3, <1>5, <1>6, <1>7

\* A worker that has an id goes on with it.
LEMMA ServingPc ==
    ASSUME TypeOK, NEW q \in Queues, NEW w \in Workers, worker[q][w].pc # "wait",
           NEW pc \in {"lookup", "take", "action", "remove"}, NEW e,
           e = [worker[q][w] EXCEPT !.pc = pc]
    PROVE  e \in Serving /\ e.pc = pc /\ e.id = worker[q][w].id /\ e.req = worker[q][w].req
<1>1. worker[q][w] \in Serving
  BY Zenon, WorkerTyped
<1> QED
  BY Zenon, <1>1 DEF Serving

\* The guard lets an action start only if none runs for the object.
LEMMA TryTakeStep ==
    ASSUME IInv, NEW q \in Queues, NEW w \in Workers, tryTake(q, w) PROVE IInv'
<1> USE DEF IInv
<1>1. worker[q][w].pc = "take"
  BY Zenon DEF tryTake
<1>2. PICK o \in Objects : worker[q][w].id = {o}
  BY Zenon, <1>1, WorkerTyped
<1>3. UNCHANGED <<made, object, removed, current, opened, entries, batch, cnt, caller>>
  BY Zenon DEF tryTake, poolVars, queueVars
<1>4. PICK a, b : /\ a = [worker[q][w] EXCEPT !.pc = "remove"]
                  /\ b = [worker[q][w] EXCEPT !.pc = "action"]
  BY Zenon
<1>5. /\ a \in Serving /\ a.pc = "remove" /\ a.req = worker[q][w].req
      /\ b \in Serving /\ b.pc = "action" /\ b.req = worker[q][w].req /\ b.id = {o}
  BY <1>1, <1>2, <1>4, ServingPc
<1>6. CASE o \in guard
  <2>1. WorkerTo(q, w, a) /\ UNCHANGED guard
    BY Zenon, <1>2, <1>4, <1>6 DEF tryTake, WorkerTo
  <2>2. /\ worker'[q][w] = a
        /\ \A p \in Queues, v \in Workers : p # q \/ v # w => worker'[p][v] = worker[p][v]
    BY Zenon, <1>5, <2>1, WorkerSet
  <2>3. GuardInv'
    <3>1. \A p \in Queues, v \in Workers : worker'[p][v].pc = "action" => worker'[p][v] = worker[p][v]
      BY <1>5, <2>2
    <3> QED
      BY <2>1, <3>1 DEF GuardInv, OneAtATime
  <2>4. guard' \in SUBSET Objects
    BY Zenon, <2>1 DEF TypeOK
  <2> QED
    BY Zenon, <1>1, <1>3, <1>5, <2>1, <2>3, <2>4, WorkerStep
<1>7. CASE o \notin guard
  <2>1. WorkerTo(q, w, b) /\ guard' = guard \cup {o}
    BY Zenon, <1>2, <1>4, <1>7 DEF tryTake, WorkerTo
  <2>2. /\ worker'[q][w] = b
        /\ \A p \in Queues, v \in Workers : p # q \/ v # w => worker'[p][v] = worker[p][v]
    BY Zenon, <1>5, <2>1, WorkerSet
  <2>3. \A p \in Queues, v \in Workers : worker[p][v].pc = "action" => worker[p][v].id # {o}
    BY Zenon, <1>7 DEF GuardInv
  <2>4. GuardInv'
    <3>1. \A p \in Queues, v \in Workers : worker'[p][v].pc = "action" => worker'[p][v].id \subseteq guard'
      BY <1>5, <2>1, <2>2 DEF GuardInv
    <3>2. \A q1, q2 \in Queues : \A w1, w2 \in Workers :
            worker'[q1][w1].pc = "action" /\ worker'[q2][w2].pc = "action"
              /\ worker'[q1][w1].id = worker'[q2][w2].id
            => q1 = q2 /\ w1 = w2
      BY <1>5, <2>2, <2>3 DEF GuardInv, OneAtATime
    <3> QED
      BY Zenon, <3>1, <3>2 DEF GuardInv, OneAtATime
  <2>5. guard' \in SUBSET Objects
    BY Zenon, <2>1 DEF TypeOK
  <2> QED
    BY Zenon, <1>1, <1>3, <1>5, <2>1, <2>4, <2>5, WorkerStep
<1> QED
  BY Zenon, <1>6, <1>7

\* Only the action that ends leaves the guard.
LEMMA ReleaseStep ==
    ASSUME IInv, NEW q \in Queues, NEW w \in Workers, release(q, w) PROVE IInv'
<1> USE DEF IInv
<1>1. worker[q][w].pc = "action"
  BY Zenon DEF release
<1>2. UNCHANGED <<made, object, removed, current, opened, entries, batch, cnt, caller>>
  BY Zenon DEF release, poolVars, queueVars
<1>3. PICK a : a = [worker[q][w] EXCEPT !.pc = "remove"]
  BY Zenon
<1>4. a \in Serving /\ a.pc = "remove" /\ a.req = worker[q][w].req
  BY <1>1, <1>3, ServingPc
<1>5. WorkerTo(q, w, a) /\ guard' = guard \ worker[q][w].id
  BY Zenon, <1>3 DEF release, WorkerTo
<1>6. /\ worker'[q][w] = a
      /\ \A p \in Queues, v \in Workers : p # q \/ v # w => worker'[p][v] = worker[p][v]
  BY Zenon, <1>4, <1>5, WorkerSet
<1>7. GuardInv'
  <2>1. ASSUME NEW p \in Queues, NEW v \in Workers, worker'[p][v].pc = "action"
        PROVE  worker'[p][v].id \subseteq guard'
    <3>1. (p # q \/ v # w) /\ worker[p][v].pc = "action" /\ worker'[p][v] = worker[p][v]
      BY Zenon, <1>4, <1>6, <2>1
    <3>2. PICK o \in Objects : worker[p][v].id = {o}
      BY Zenon, <3>1, WorkerTyped
    <3>3. PICK x \in Objects : worker[q][w].id = {x}
      BY Zenon, <1>1, WorkerTyped
    <3>4. worker[p][v].id # worker[q][w].id
      BY Zenon, <1>1, <3>1 DEF GuardInv, OneAtATime
    <3>5. o \in guard
      BY Zenon, <3>1, <3>2 DEF GuardInv
    <3> QED
      BY Zenon, <1>5, <3>1, <3>2, <3>3, <3>4, <3>5
  <2>2. \A p \in Queues, v \in Workers : worker'[p][v].pc = "action" => worker'[p][v] = worker[p][v]
    BY Zenon, <1>4, <1>6
  <2> QED
    BY <2>1, <2>2 DEF GuardInv, OneAtATime
<1>8. guard' \in SUBSET Objects
  BY Zenon, <1>5 DEF TypeOK
<1> QED
  BY Zenon, <1>1, <1>2, <1>4, <1>5, <1>7, <1>8, WorkerStep

\* The duty to serve the entry goes from the queue to the worker.
LEMMA WaitOneStep ==
    ASSUME IInv, NEW q \in Queues, NEW w \in Workers, WaitOne(q, w) PROVE IInv'
<1> USE DEF IInv
<1>1. worker[q][w].pc = "wait" /\ batch[q] # <<>>
  BY Zenon DEF WaitOne
<1>2. UNCHANGED <<made, object, removed, current, opened, entries, cnt, caller, guard>>
  BY Zenon DEF WaitOne, poolVars
<1>3. PICK s \in Seq(Objects) : s = batch[q]
  BY Zenon DEF TypeOK
<1>4. s # <<>> /\ Head(s) \in Objects /\ Tail(s) \in Seq(Objects)
  BY <1>1, <1>3
<1>5. PICK o \in Objects : o = Head(s)
  BY Zenon, <1>4
<1>6. worker[q][w] = Resting
  BY Zenon, <1>1 DEF TypeOK, Serving
<1>7. PICK e : e = [worker[q][w] EXCEPT !.pc = "lookup", !.id = {o}]
  BY Zenon
<1>8. e \in Serving /\ e.pc = "lookup" /\ e.id = {o}
  <2>1. worker[q][w] \in [pc : {"wait"}, id : {{}}, req : {NoRequest}]
    BY <1>6 DEF Resting
  <2> QED
    BY Zenon, <1>7, <2>1 DEF Serving
<1>9. WorkerTo(q, w, e)
  <2>1. worker' = [worker EXCEPT ![q][w].pc = "lookup", ![q][w].id = {o}]
    BY Zenon, <1>3, <1>5 DEF WaitOne
  <2>2. worker \in [Queues -> [Workers -> Serving \cup {Resting}]]
    BY Zenon DEF TypeOK
  <2> QED
    BY Zenon, <1>7, <2>1, <2>2 DEF WorkerTo
<1>10. /\ worker' \in [Queues -> [Workers -> Serving \cup {Resting}]]
       /\ worker'[q][w] = e
       /\ \A p \in Queues, v \in Workers : p # q \/ v # w => worker'[p][v] = worker[p][v]
  BY Zenon, <1>8, <1>9, WorkerSet
<1>11. /\ batch' \in [Queues -> Seq(Objects)] /\ batch'[q] = Tail(s)
       /\ \A p \in Queues : p # q => batch'[p] = batch[p]
  <2>1. batch \in [Queues -> Seq(Objects)]
    BY Zenon DEF TypeOK
  <2>2. batch' = [batch EXCEPT ![q] = Tail(s)]
    BY Zenon, <1>3 DEF WaitOne
  <2> QED
    BY Zenon, <1>4, <2>1, <2>2
<1>12. TypeOK'
  BY Zenon, <1>2, <1>10, <1>11 DEF TypeOK
<1>13. GuardInv'
  <2>1. \A p \in Queues, v \in Workers : worker'[p][v].pc = "action" => worker'[p][v] = worker[p][v]
    BY Zenon, <1>8, <1>10
  <2> QED
    BY <1>2, <2>1 DEF GuardInv, OneAtATime
<1>14. TokenInv'
  <2> SUFFICES ASSUME NEW p \in Queues, NEW x \in Objects PROVE OneServes(p, x)'
    BY Zenon DEF TokenInv
  <2>1. \A d \in Callers : Queueing(d, p, x)' <=> Queueing(d, p, x)
    BY Zenon, <1>2 DEF Queueing
  <2>2. OneServes(p, x) /\ entries'[p][x] = entries[p][x]
    BY Zenon, <1>2 DEF TokenInv
  <2>3. CASE p # q
    <3>1. \A v \in Workers : Serves(p, v, x)' => Serves(p, v, x)
      BY Zenon, <1>10, <2>3 DEF Serves
    <3>2. batch'[p] = batch[p]
      BY Zenon, <1>11, <2>3
    <3> QED
      BY Zenon, <2>1, <2>2, <3>1, <3>2, TokenKept
  <2>4. CASE p = q
    <3>1. /\ DOMAIN s = 1 .. Len(s) /\ Len(s) \in Nat /\ Len(s) # 0 /\ s[1] = o
          /\ DOMAIN Tail(s) = 1 .. Len(s) - 1
          /\ \A i \in 1 .. Len(s) - 1 : Tail(s)[i] = s[i + 1]
      BY <1>4, <1>5
    <3>2. \A i, j \in DOMAIN s : s[i] = x /\ s[j] = x => i = j
      BY Zenon, <1>3, <2>2, <2>4 DEF OneServes
    <3>3. \A i, j \in DOMAIN Tail(s) : Tail(s)[i] = x /\ Tail(s)[j] = x => i = j
      BY <3>1, <3>2
    <3>4. \A i, j \in DOMAIN batch'[p] : batch'[p][i] = x /\ batch'[p][j] = x => i = j
      BY Zenon, <1>11, <2>4, <3>3
    <3>5. CASE x # o
      <4>1. \A v \in Workers : Serves(p, v, x)' => Serves(p, v, x)
        BY Zenon, <1>8, <1>10, <3>5 DEF Serves
      <4>2. \A i \in DOMAIN Tail(s) : Tail(s)[i] = x => \E j \in DOMAIN s : s[j] = x
        BY <3>1
      <4>3. Queued(p, x)' => Queued(p, x)
        BY Zenon, <1>3, <1>11, <2>4, <4>2 DEF Queued
      <4> QED
        BY Zenon, <2>1, <2>2, <3>4, <4>1, <4>3 DEF OneServes
    <3>6. CASE x = o
      <4>1. Queued(p, x)
        BY <1>3, <2>4, <3>1, <3>6 DEF Queued
      <4>2. /\ \A d \in Callers : ~Queueing(d, p, x)
            /\ \A v \in Workers : ~Serves(p, v, x)
            /\ entries[p][x] # NoEntry
        BY Zenon, <2>2, <4>1 DEF OneServes
      <4>3. \A v \in Workers : Serves(p, v, x)' => v = w
        BY Zenon, <1>10, <2>4, <4>2 DEF Serves
      <4>4. \A i \in DOMAIN Tail(s) : Tail(s)[i] # o
        BY <3>1, <3>2, <3>6
      <4>5. ~Queued(p, x)'
        BY Zenon, <1>11, <2>4, <3>6, <4>4 DEF Queued
      <4> QED
        BY Zenon, <2>1, <2>2, <3>4, <4>2, <4>3, <4>5 DEF OneServes
    <3> QED
      BY Zenon, <3>5, <3>6
  <2> QED
    BY Zenon, <2>3, <2>4
<1>15. \A p \in Queues, v \in Workers, x \in Requests : Runs(p, v, x)' => Runs(p, v, x)
  BY <1>8, <1>10 DEF Runs
<1>16. PlaceInv'
  <2> SUFFICES ASSUME NEW x \in Requests PROVE OnePlace(x)'
    BY Zenon DEF PlaceInv
  <2>1. \A d \in Callers : Coming(d, x)' => Coming(d, x)
    BY Zenon, <1>2 DEF Coming
  <2>2. \A p \in Queues, y \in Objects : Waits(p, y, x)' => Waits(p, y, x)
    BY Zenon, <1>2 DEF Waits
  <2>3. OnePlace(x) /\ made \in Nat /\ made' \in Nat /\ made' >= made
    BY <1>2 DEF PlaceInv, TypeOK
  <2> QED
    BY Zenon, <1>2, <1>15, <2>1, <2>2, <2>3, PlaceKept
<1>17. CallerInv'
  BY Zenon, <1>2, <1>15, CallerKept
<1>18. ReqInv'
  BY <1>2, <1>8, <1>10 DEF ReqInv
<1> QED
  BY Zenon, <1>12, <1>13, <1>14, <1>16, <1>17, <1>18

\* There is an entry for the id; its request goes from there to the worker.
LEMMA LookupStep ==
    ASSUME IInv, NEW q \in Queues, NEW w \in Workers, Lookup(q, w) PROVE IInv'
<1> USE DEF IInv
<1>1. worker[q][w].pc = "lookup"
  BY Zenon DEF Lookup
<1>2. PICK o \in Objects : worker[q][w].id = {o}
  BY Zenon, <1>1, WorkerTyped
<1>3. UNCHANGED <<made, object, removed, current, opened, batch, cnt, caller, guard>>
  BY Zenon DEF Lookup, poolVars
<1>4. Serves(q, w, o)
  BY Zenon, <1>1, <1>2 DEF Serves
<1>5. /\ \A d \in Callers : ~Queueing(d, q, o)
      /\ \A v \in Workers : Serves(q, v, o) => v = w
      /\ ~Queued(q, o) /\ entries[q][o] # NoEntry
  BY Zenon, <1>4 DEF TokenInv, OneServes
<1>6. PICK r \in Requests : r = entries[q][o].req
  BY Zenon, <1>5, EntryTyped
<1>7. PICK e : e = [pc |-> "take", id |-> {o}, req |-> r]
  BY Zenon
<1>8. e \in Serving /\ e.pc = "take" /\ e.req = r
  BY Zenon, <1>7 DEF Serving
<1>9. WorkerTo(q, w, e) /\ entries' = [entries EXCEPT ![q][o] = NoEntry]
  BY Zenon, <1>2, <1>5, <1>6, <1>7 DEF Lookup, WorkerTo
<1>10. /\ worker' \in [Queues -> [Workers -> Serving \cup {Resting}]]
       /\ worker'[q][w] = e
       /\ \A p \in Queues, v \in Workers : p # q \/ v # w => worker'[p][v] = worker[p][v]
  BY Zenon, <1>8, <1>9, WorkerSet
<1>11. NoEntry \in Entry /\ NoEntry.req = NoRequest /\ NoRequest \notin Requests
  BY Zenon, EntryTyped
<1>12. /\ entries' \in [Queues -> [Objects -> Entry]] /\ entries'[q][o] = NoEntry
       /\ \A p \in Queues, x \in Objects : p # q \/ x # o => entries'[p][x] = entries[p][x]
  <2>1. entries \in [Queues -> [Objects -> Entry]]
    BY Zenon DEF TypeOK
  <2> QED
    BY Zenon, <1>9, <1>11, <2>1
<1>13. TypeOK'
  BY Zenon, <1>3, <1>10, <1>12 DEF TypeOK
<1>14. GuardInv'
  <2>1. \A p \in Queues, v \in Workers : worker'[p][v].pc = "action" => worker'[p][v] = worker[p][v]
    BY Zenon, <1>8, <1>10
  <2> QED
    BY <1>3, <2>1 DEF GuardInv, OneAtATime
<1>15. TokenInv'
  <2> SUFFICES ASSUME NEW p \in Queues, NEW x \in Objects PROVE OneServes(p, x)'
    BY Zenon DEF TokenInv
  <2>1. \A d \in Callers : Queueing(d, p, x)' <=> Queueing(d, p, x)
    BY Zenon, <1>3 DEF Queueing
  <2>2. \A v \in Workers : Serves(p, v, x)' => Serves(p, v, x) /\ (p # q \/ v # w)
    BY Zenon, <1>8, <1>10 DEF Serves
  <2>3. OneServes(p, x) /\ batch'[p] = batch[p]
    BY Zenon, <1>3 DEF TokenInv
  <2>4. CASE p # q \/ x # o
    <3>1. entries'[p][x] = entries[p][x]
      BY Zenon, <1>12, <2>4
    <3> QED
      BY Zenon, <2>1, <2>2, <2>3, <3>1, TokenKept
  <2>5. CASE p = q /\ x = o
    <3>1. ~Queued(p, x)'
      BY Zenon, <1>5, <2>3, <2>5 DEF Queued
    <3>2. \A d \in Callers : ~Queueing(d, p, x)'
      BY Zenon, <1>5, <2>1, <2>5
    <3>3. \A v \in Workers : ~Serves(p, v, x)'
      BY Zenon, <1>5, <2>2, <2>5
    <3> QED
      BY Zenon, <3>1, <3>2, <3>3 DEF OneServes, Queued
  <2> QED
    BY Zenon, <2>4, <2>5
<1>16. OnePlace(r) /\ Waits(q, o, r)
  BY Zenon, <1>6 DEF PlaceInv, Waits
<1>17. /\ \A p \in Queues, x \in Objects : Waits(p, x, r) => p = q /\ x = o
       /\ \A p \in Queues, v \in Workers : ~Runs(p, v, r)
       /\ removed[r] = 0 /\ r <= made /\ object[r] = o /\ ~Nowhere(r)
  BY Zenon, <1>16 DEF OnePlace, Nowhere
<1>18. \A p \in Queues, y \in Objects, x \in Requests : Waits(p, y, x)' => Waits(p, y, x) /\ x # r
  <2>1. \A p \in Queues, y \in Objects, x \in Requests : Waits(p, y, x)' => Waits(p, y, x) /\ (p # q \/ y # o)
    BY Zenon, <1>11, <1>12 DEF Waits
  <2> QED
    BY Zenon, <1>17, <2>1
<1>19. \A p \in Queues, v \in Workers, x \in Requests : x # r => (Runs(p, v, x)' => Runs(p, v, x))
  BY <1>8, <1>10 DEF Runs
<1>20. PlaceInv'
  <2> SUFFICES ASSUME NEW x \in Requests PROVE OnePlace(x)'
    BY Zenon DEF PlaceInv
  <2>1. OnePlace(x) /\ made \in Nat /\ made' \in Nat /\ made' >= made /\ x \in Nat
    BY <1>3 DEF PlaceInv, TypeOK, Requests
  <2>2. \A d \in Callers : Coming(d, x)' => Coming(d, x)
    BY Zenon, <1>3 DEF Coming
  <2>3. CASE x # r
    <3>1. removed'[x] = removed[x]
      BY Zenon, <1>3
    <3> QED
      BY Zenon, <1>3, <1>18, <1>19, <2>1, <2>2, <2>3, <3>1, PlaceKept
  <2>4. CASE x = r
    <3>1. \A d \in Callers : ~Coming(d, x)'
      BY Zenon, <1>17, <2>1, <2>2, <2>4 DEF OnePlace
    <3>2. \A p \in Queues, y \in Objects : ~Waits(p, y, x)'
      BY Zenon, <1>18, <2>4
    <3>3. \A p \in Queues, v \in Workers : Runs(p, v, x)' => p = q /\ v = w
      BY <1>10, <1>17, <2>4 DEF Runs
    <3>4. removed'[x] = 0 /\ x <= made' /\ ~(x > made')
      BY <1>3, <1>17, <2>1, <2>4
    <3> QED
      BY Zenon, <3>1, <3>2, <3>3, <3>4 DEF OnePlace
  <2> QED
    BY Zenon, <2>3, <2>4
<1>21. CallerInv'
  <2>1. ASSUME NEW d \in Callers PROVE Entered(d)'
    <3>1. CASE caller[d].pc \in {"tryAdd", "undo"}
      <4>1. PICK x, p, y : x = caller[d].req /\ p = caller[d].q /\ y = object[x]
        BY Zenon
      <4>2. x \in Requests /\ p \in Queues /\ y \in Objects /\ Entered(d)
        BY Zenon, <3>1, <4>1, CallerTyped DEF CallerInv, Asked
      <4>3. Queueing(d, p, y)
        BY Zenon, <3>1, <4>1 DEF Queueing
      <4>4. p # q \/ y # o
        BY Zenon, <1>5, <4>3
      <4>5. Waits(p, y, x) \/ Nowhere(x)
        BY Zenon, <3>1, <4>1, <4>2 DEF Entered
      <4>6. x # r
        BY Zenon, <1>17, <4>2, <4>4, <4>5
      <4>7. entries'[p][y] = entries[p][y] /\ removed'[x] = removed[x]
        BY Zenon, <1>3, <1>12, <4>2, <4>4
      <4>8. Nowhere(x) => Nowhere(x)'
        BY Zenon, <1>18, <1>19, <4>2, <4>6 DEF Nowhere
      <4> QED
        BY Zenon, <1>3, <3>1, <4>1, <4>2, <4>7, <4>8, EnteredKept
    <3>2. CASE caller[d].pc \notin {"tryAdd", "undo"}
      BY Zenon, <1>3, <3>2 DEF Entered
    <3> QED
      BY Zenon, <3>1, <3>2
  <2> QED
    BY Zenon, <1>3, <2>1 DEF CallerInv
<1>22. ReqInv'
  <2>1. ASSUME NEW p \in Queues, NEW x \in Objects, entries'[p][x].req = NoRequest
        PROVE  entries'[p][x] = NoEntry
    BY <1>12, <2>1 DEF ReqInv
  <2>2. ASSUME NEW p \in Queues, NEW v \in Workers,
               worker'[p][v].pc \in {"take", "action", "remove"}
        PROVE  worker'[p][v].req \in Requests
    BY Zenon, <1>8, <1>10, <2>2 DEF ReqInv
  <2> QED
    BY Zenon, <2>1, <2>2 DEF ReqInv
<1> QED
  BY Zenon, <1>13, <1>14, <1>15, <1>20, <1>21, <1>22

\* The request of the worker was not removed before.
LEMMA OnRemoveStep ==
    ASSUME IInv, NEW q \in Queues, NEW w \in Workers, onRemove(q, w) PROVE IInv'
<1> USE DEF IInv
<1>1. worker[q][w].pc = "remove"
  BY Zenon DEF onRemove
<1>2. PICK r \in Requests : r = worker[q][w].req
  BY Zenon, <1>1 DEF ReqInv
<1>3. UNCHANGED <<made, object, current, opened, entries, batch, cnt, caller, guard>>
  BY Zenon DEF onRemove, poolVars, queueVars
<1>4. Remove(r) /\ WorkerTo(q, w, Resting)
  BY Zenon, <1>2 DEF onRemove, WorkerTo
<1>5. /\ worker' \in [Queues -> [Workers -> Serving \cup {Resting}]]
      /\ worker'[q][w] = Resting
      /\ \A p \in Queues, v \in Workers : p # q \/ v # w => worker'[p][v] = worker[p][v]
  BY Zenon, <1>4, WorkerSet
<1>6. /\ removed' \in [Requests -> Nat]
      /\ \A x \in Requests : x # r => removed'[x] = removed[x]
  BY Zenon, <1>4, RemoveCalled
<1>7. TypeOK'
  BY Zenon, <1>3, <1>5, <1>6 DEF TypeOK
<1>8. GuardInv'
  <2>1. \A p \in Queues, v \in Workers : worker'[p][v].pc = "action" => worker'[p][v] = worker[p][v]
    BY <1>5 DEF Resting
  <2> QED
    BY <1>3, <2>1 DEF GuardInv, OneAtATime
<1>9. TokenInv'
  <2> SUFFICES ASSUME NEW p \in Queues, NEW x \in Objects PROVE OneServes(p, x)'
    BY Zenon DEF TokenInv
  <2>1. \A d \in Callers : Queueing(d, p, x)' => Queueing(d, p, x)
    BY Zenon, <1>3 DEF Queueing
  <2>2. \A v \in Workers : Serves(p, v, x)' => Serves(p, v, x)
    BY <1>5 DEF Serves, Resting
  <2>3. OneServes(p, x)
    BY Zenon DEF TokenInv
  <2> QED
    BY Zenon, <1>3, <2>1, <2>2, <2>3, TokenKept
<1>10. Runs(q, w, r) /\ OnePlace(r)
  BY Zenon, <1>1, <1>2 DEF Runs, PlaceInv
<1>11. /\ \A p \in Queues, v \in Workers : Runs(p, v, r) => p = q /\ v = w
       /\ \A p \in Queues, y \in Objects : ~Waits(p, y, r)
       /\ \A d \in Callers : ~Coming(d, r)
       /\ r <= made /\ ~Nowhere(r)
  BY Zenon, <1>10 DEF OnePlace, Nowhere
<1>12. \A p \in Queues, v \in Workers, x \in Requests : Runs(p, v, x)' => Runs(p, v, x) /\ x # r
  <2>1. \A p \in Queues, v \in Workers, x \in Requests : Runs(p, v, x)' => Runs(p, v, x) /\ (p # q \/ v # w)
    BY <1>5 DEF Runs, Resting
  <2> QED
    BY Zenon, <1>11, <2>1
<1>13. \A p \in Queues, y \in Objects, x \in Requests : Waits(p, y, x)' <=> Waits(p, y, x)
  BY Zenon, <1>3 DEF Waits
<1>14. PlaceInv'
  <2> SUFFICES ASSUME NEW x \in Requests PROVE OnePlace(x)'
    BY Zenon DEF PlaceInv
  <2>1. OnePlace(x) /\ made \in Nat /\ made' \in Nat /\ made' >= made /\ x \in Nat
    BY <1>3 DEF PlaceInv, TypeOK, Requests
  <2>2. \A d \in Callers : Coming(d, x)' => Coming(d, x)
    BY Zenon, <1>3 DEF Coming
  <2>3. CASE x # r
    <3>1. removed'[x] = removed[x]
      BY Zenon, <1>6, <2>3
    <3> QED
      BY Zenon, <1>3, <1>12, <1>13, <2>1, <2>2, <3>1, PlaceKept
  <2>4. CASE x = r
    <3>1. ~(x > made')
      BY <1>3, <1>11, <2>1, <2>4
    <3> QED
      BY Zenon, <1>11, <1>12, <1>13, <2>2, <2>4, <3>1 DEF OnePlace
  <2> QED
    BY Zenon, <2>3, <2>4
<1>15. CallerInv'
  <2>1. ASSUME NEW d \in Callers PROVE Entered(d)'
    <3>1. CASE caller[d].pc \in {"tryAdd", "undo"}
      <4>1. PICK x, p, y : x = caller[d].req /\ p = caller[d].q /\ y = object[x]
        BY Zenon
      <4>2. x \in Requests /\ p \in Queues /\ y \in Objects /\ Entered(d)
        BY Zenon, <3>1, <4>1, CallerTyped DEF CallerInv, Asked
      <4>3. Waits(p, y, x) \/ Nowhere(x)
        BY Zenon, <3>1, <4>1, <4>2 DEF Entered
      <4>4. x # r
        BY Zenon, <1>11, <4>2, <4>3
      <4>5. entries'[p][y] = entries[p][y] /\ removed'[x] = removed[x]
        BY Zenon, <1>3, <1>6, <4>2, <4>4
      <4>6. Nowhere(x) => Nowhere(x)'
        BY Zenon, <1>12, <1>13, <4>2 DEF Nowhere
      <4> QED
        BY Zenon, <1>3, <3>1, <4>1, <4>2, <4>5, <4>6, EnteredKept
    <3>2. CASE caller[d].pc \notin {"tryAdd", "undo"}
      BY Zenon, <1>3, <3>2 DEF Entered
    <3> QED
      BY Zenon, <3>1, <3>2
  <2> QED
    BY Zenon, <1>3, <2>1 DEF CallerInv
<1>16. ReqInv'
  BY <1>3, <1>5 DEF ReqInv, Resting
<1> QED
  BY Zenon, <1>7, <1>8, <1>9, <1>14, <1>15, <1>16

-----------------------------------------------------------------------------
\* The theorems.

\* A step that only takes a queue from the map, or closes it, or none at all.
LEMMA PoolStep ==
    ASSUME IInv, UNCHANGED <<made, object, removed, opened, entries, batch, cnt, caller, worker, guard>>,
           current' \in SUBSET Queues
    PROVE  IInv'
<1> USE DEF IInv
<1>1. TypeOK'
  BY Zenon DEF TypeOK
<1>2. GuardInv'
  BY Zenon, GuardKept
<1>3. TokenInv'
  BY DEF TokenInv, OneServes, Queueing, Queued, Serves
<1>4. PlaceInv'
  BY DEF PlaceInv, OnePlace, Nowhere, Coming, Waits, Runs
<1>5. CallerInv'
  BY DEF CallerInv, Entered, Nowhere, Waits, Runs
<1>6. ReqInv'
  BY Zenon DEF ReqInv
<1> QED
  BY Zenon, <1>1, <1>2, <1>3, <1>4, <1>5, <1>6

\* Every step keeps the invariant.
LEMMA StepIInv == IInv /\ [Next]_vars => IInv'
<1> SUFFICES ASSUME IInv, [Next]_vars PROVE IInv'
  OBVIOUS
<1>1. ASSUME NEW c \in Callers, Add(c) \/ Replace(c) PROVE IInv'
  BY Zenon, <1>1, AddStep, CountStep, EnterStep, TryAddStep, UndoStep DEF Replace
<1>2. ASSUME NEW q \in Queues, NEW w \in Workers, callLoop(q, w) PROVE IInv'
  BY Zenon, <1>2, WaitOneStep, LookupStep, TryTakeStep, ReleaseStep, OnRemoveStep DEF callLoop
<1>3. current \in SUBSET Queues
  BY Zenon DEF IInv, TypeOK
<1>4. CASE gc
  <2>1. /\ UNCHANGED <<made, object, removed, opened, entries, batch, cnt, caller, worker, guard>>
        /\ current' \in SUBSET Queues
    BY Zenon, <1>4 DEF gc, queueVars
  <2> QED
    BY Zenon, <2>1, PoolStep
<1>5. ASSUME NEW q \in Queues, CloseQueue(q) PROVE IInv'
  <2>1. /\ UNCHANGED <<made, object, removed, opened, entries, batch, cnt, caller, worker, guard>>
        /\ current' \in SUBSET Queues
    BY Zenon, <1>3, <1>5 DEF CloseQueue, queueVars
  <2> QED
    BY Zenon, <2>1, PoolStep
<1>6. CASE UNCHANGED vars
  <2>1. /\ UNCHANGED <<made, object, removed, opened, entries, batch, cnt, caller, worker, guard>>
        /\ current' \in SUBSET Queues
    BY Zenon, <1>3, <1>6 DEF vars, poolVars, queueVars
  <2> QED
    BY Zenon, <2>1, PoolStep
<1> QED
  BY Zenon, <1>1, <1>2, <1>4, <1>5, <1>6 DEF Next

\* The invariant holds always.
LEMMA PoolInvariant == Spec => []IInv
<1> QED
  BY InitIInv, StepIInv, PTL DEF Spec

\* No two actions for one object run at the same time, in however many queues the
\* pool has opened for the peer one after the other.
THEOREM ActionsAreGuarded == Spec => []OneAtATime
<1>1. IInv => OneAtATime
  BY Zenon DEF IInv, GuardInv
<1> QED
  BY <1>1, PoolInvariant, PTL

\* Where onRemove is called for a request, it was not called before, but for a
\* caller whose request was replaced before the queue refused it.
LEMMA RemovedOnceStep ==
    ASSUME IInv, [Next]_vars, NEW r \in Requests, removed[r] > 0, removed'[r] # removed[r]
    PROVE  /\ removed[r] = 1
           /\ \E c \in Callers : caller[c].pc = "undo" /\ caller[c].req = r
<1>0. removed[r] # 0
  BY DEF IInv, TypeOK
<1>1. ASSUME NEW c \in Callers, Enter(c) PROVE FALSE
  <2>1. PICK q, o, b : /\ q = caller[c].q /\ o = object[caller[c].req]
                       /\ b = entries[q][o].req
    BY Zenon
  <2>2. caller[c] # Idle
    BY <1>1 DEF Enter, Idle
  <2>3. q \in Queues /\ o \in Objects
    BY Zenon, <2>1, <2>2, CallerTyped DEF IInv
  <2>4. entries[q][o] # NoEntry /\ Remove(b)
    BY Zenon, <1>1, <2>1 DEF Enter
  <2>5. b \in Requests
    BY Zenon, <2>1, <2>3, <2>4, EntryTyped DEF IInv
  <2>6. b = r
    BY Zenon, <2>4, <2>5, RemoveCalled DEF IInv
  <2>7. Waits(q, o, r)
    BY Zenon, <2>1, <2>6 DEF Waits
  <2> QED
    BY Zenon, <1>0, <2>3, <2>7 DEF IInv, PlaceInv, OnePlace
<1>2. ASSUME NEW c \in Callers, Undo(c)
      PROVE  removed[r] = 1 /\ caller[c].pc = "undo" /\ caller[c].req = r
  <2>1. PICK x, q, o : x = caller[c].req /\ q = caller[c].q /\ o = object[x]
    BY Zenon
  <2>2. caller[c].pc = "undo" /\ caller[c] # Idle /\ Remove(x)
    BY <1>2, <2>1 DEF Undo, Idle
  <2>3. x \in Requests /\ q \in Queues /\ o \in Objects
    BY Zenon, <2>1, <2>2, CallerTyped DEF IInv
  <2>4. x = r
    BY Zenon, <2>2, <2>3, RemoveCalled DEF IInv
  <2>5. Waits(q, o, r) \/ removed[r] = 1
    BY Zenon, <2>1, <2>2, <2>4 DEF IInv, CallerInv, Entered
  <2>6. ~Waits(q, o, r)
    BY Zenon, <1>0, <2>3 DEF IInv, PlaceInv, OnePlace
  <2> QED
    BY Zenon, <2>1, <2>2, <2>4, <2>5, <2>6
<1>3. ASSUME NEW q \in Queues, NEW w \in Workers, onRemove(q, w) PROVE FALSE
  <2>1. PICK x : x = worker[q][w].req
    BY Zenon
  <2>2. worker[q][w].pc = "remove" /\ Remove(x)
    BY Zenon, <1>3, <2>1 DEF onRemove
  <2>3. x \in Requests
    BY Zenon, <2>1, <2>2 DEF IInv, ReqInv
  <2>4. x = r
    BY Zenon, <2>2, <2>3, RemoveCalled DEF IInv
  <2>5. Runs(q, w, r)
    BY Zenon, <2>1, <2>2, <2>4 DEF Runs
  <2> QED
    BY Zenon, <1>0, <2>5 DEF IInv, PlaceInv, OnePlace
<1>4. ASSUME NEW c \in Callers, Add(c) \/ LoadCnt(c) \/ AddCnt(c) \/ TryAdd(c) PROVE FALSE
  BY Zenon, <1>4 DEF Add, LoadCnt, AddCnt, TryAdd
<1>5. ASSUME NEW q \in Queues, NEW w \in Workers,
             WaitOne(q, w) \/ Lookup(q, w) \/ tryTake(q, w) \/ release(q, w)
      PROVE  FALSE
  BY Zenon, <1>5 DEF WaitOne, Lookup, tryTake, release
<1>6. ASSUME gc \/ (\E q \in Queues : CloseQueue(q)) \/ UNCHANGED vars PROVE FALSE
  BY Zenon, <1>6 DEF gc, CloseQueue, vars
<1> QED
  BY Zenon, <1>1, <1>2, <1>3, <1>4, <1>5, <1>6 DEF Next, Replace, callLoop

\* onRemove is called once for a request, with the one exception.
THEOREM RemovalIsCounted == Spec => RemovedOnce
<1>1. IInv /\ [Next]_vars =>
        [\A r \in Requests :
           removed[r] > 0 /\ removed'[r] # removed[r]
           => /\ removed[r] = 1
              /\ \E c \in Callers : caller[c].pc = "undo" /\ caller[c].req = r]_vars
  BY Zenon, RemovedOnceStep
<1> QED
  BY <1>1, PoolInvariant, PTL DEF RemovedOnce, Spec
=============================================================================
