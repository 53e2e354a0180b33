----------------------------- MODULE ActionPool -----------------------------
(***************************************************************************)
(* The pool in which requests to one peer wait for a worker                *)
(* (syncqueues/actionpool.go, replaceablequeue.go, guard.go).  A request   *)
(* for an object that is already waiting takes the place of the earlier    *)
(* one.  The queue of the peer is closed when it is idle and opened again  *)
(* for the next request; the guard keeps two actions for one object from   *)
(* running at the same time, also across two such queues.                  *)
(***************************************************************************)
EXTENDS Naturals, Sequences, FiniteSets

CONSTANTS Callers,      \* goroutines that call Add
          Workers,      \* workers of a queue
          Objects,
          NoRequest,
          QueueSize,    \* size of the queue of ids
          MaxRequests,  \* bound on the calls of Add
          MaxQueues     \* bound on how often the queue is opened

ASSUME ActionPoolAssumption ==
    /\ QueueSize \in Nat \ {0}
    /\ MaxRequests \in Nat /\ MaxQueues \in Nat
    /\ NoRequest \notin 1..MaxRequests

Requests == 1..MaxRequests
Queues == 1..MaxQueues

VARIABLES made,     \* the requests made so far are 1..made
          object,   \* object[r]: the object of a request
          removed,  \* removed[r]: how often onRemove of r was called
          current,  \* the queue in actionPool.queues, if any
          opened,   \* the queues opened so far are 1..opened
          closed,   \* queues that are closed
          dropping, \* queues that gc took from the map but has yet to close
          entries,  \* entries[q][o]: the request that waits, with its cnt
          batch,    \* batch[q]: ids to serve
          cnt,      \* cnt[q]: replaceableQueue.cnt
          caller,   \* what each goroutine in Add and Replace is doing
          worker,   \* what each worker of each queue is doing
          guard     \* the objects with a running action

poolVars == <<current, opened, closed, dropping>>
queueVars == <<entries, batch, cnt>>
vars == <<made, object, removed, poolVars, queueVars, caller, worker, guard>>

NoEntry == [req |-> NoRequest, cnt |-> 0]
Idle == [pc |-> "idle", req |-> NoRequest, q |-> 0, cur |-> 0]
Resting == [pc |-> "wait", id |-> {}, req |-> NoRequest]

Init ==
    /\ made = 0
    /\ object \in [Requests -> Objects]
    /\ removed = [r \in Requests |-> 0]
    /\ current = {} /\ opened = 0 /\ closed = {} /\ dropping = {}
    /\ entries = [q \in Queues |-> [o \in Objects |-> NoEntry]]
    /\ batch = [q \in Queues |-> <<>>]
    /\ cnt = [q \in Queues |-> 0]
    /\ caller = [c \in Callers |-> Idle]
    /\ worker = [q \in Queues |-> [w \in Workers |-> Resting]]
    /\ guard = {}

Remove(r) == removed' = [removed EXCEPT ![r] = @ + 1]

-----------------------------------------------------------------------------
\* actionPool.Add: the queue of the peer, which is opened if there is none.
Add(c) ==
    /\ caller[c] = Idle /\ made < MaxRequests
    /\ made' = made + 1
    /\ \/ /\ current # {}
          /\ UNCHANGED <<current, opened>>
       \/ /\ current = {} /\ opened < MaxQueues
          /\ opened' = opened + 1
          /\ current' = {opened'}
    /\ \E q \in current' :
         caller' = [caller EXCEPT ![c] = [pc |-> "load", req |-> made', q |-> q, cur |-> 0]]
    /\ UNCHANGED <<object, removed, closed, dropping, queueVars, worker, guard>>

\* replaceableQueue.Replace reads the counter and increments it in two steps.
LoadCnt(c) ==
    /\ caller[c].pc = "load"
    /\ caller' = [caller EXCEPT ![c].pc = "count", ![c].cur = cnt[caller[c].q]]
    /\ UNCHANGED <<made, object, removed, poolVars, queueVars, worker, guard>>

AddCnt(c) ==
    /\ caller[c].pc = "count"
    /\ cnt' = [cnt EXCEPT ![caller[c].q] = @ + 1]
    /\ caller' = [caller EXCEPT ![c].pc = "enter"]
    /\ UNCHANGED <<made, object, removed, poolVars, entries, batch, worker, guard>>

\* The request becomes the entry of its object.  An earlier one is removed;
\* without one, the id has to get into the queue.
Enter(c) ==
    LET me == caller[c]
        o == object[me.req]
        before == entries[me.q][o]
    IN /\ me.pc = "enter"
       /\ entries' = [entries EXCEPT ![me.q][o] = [req |-> me.req, cnt |-> me.cur]]
       /\ IF before # NoEntry
          THEN Remove(before.req) /\ caller' = [caller EXCEPT ![c] = Idle]
          ELSE UNCHANGED removed /\ caller' = [caller EXCEPT ![c].pc = "tryAdd"]
       /\ UNCHANGED <<made, object, poolVars, batch, cnt, worker, guard>>

\* batch.TryAdd, outside the lock: the queue may be full or closed.
TryAdd(c) ==
    LET me == caller[c] IN
    /\ me.pc = "tryAdd"
    /\ IF me.q \notin closed /\ Len(batch[me.q]) < QueueSize
       THEN /\ batch' = [batch EXCEPT ![me.q] = Append(@, object[me.req])]
            /\ caller' = [caller EXCEPT ![c] = Idle]
       ELSE /\ caller' = [caller EXCEPT ![c].pc = "undo"]
            /\ UNCHANGED batch
    /\ UNCHANGED <<made, object, removed, poolVars, entries, cnt, worker, guard>>

\* The queue did not take the id: the entry is deleted if it has our cnt, and
\* onRemove is called in any case.
Undo(c) ==
    LET me == caller[c]
        o == object[me.req]
    IN /\ me.pc = "undo"
       /\ entries' = IF entries[me.q][o].cnt = me.cur
                     THEN [entries EXCEPT ![me.q][o] = NoEntry] ELSE entries
       /\ Remove(me.req)
       /\ caller' = [caller EXCEPT ![c] = Idle]
       /\ UNCHANGED <<made, object, poolVars, batch, cnt, worker, guard>>

-----------------------------------------------------------------------------
\* replaceableQueue.callLoop: an id, its entry, the wrapped action, onRemove.
\* An id that was added before the queue was closed may still be served.
WaitOne(q, w) ==
    /\ worker[q][w].pc = "wait" /\ batch[q] # <<>>
    /\ worker' = [worker EXCEPT ![q][w].pc = "lookup", ![q][w].id = {Head(batch[q])}]
    /\ batch' = [batch EXCEPT ![q] = Tail(@)]
    /\ UNCHANGED <<made, object, removed, poolVars, entries, cnt, caller, guard>>

\* Faulty variant: the entry is not deleted.
Lookup_KeepsEntry(q, w) ==
    /\ worker[q][w].pc = "lookup"
    /\ \E o \in worker[q][w].id :
         LET e == entries[q][o] IN
         worker' = [worker EXCEPT ![q][w] =
              IF e = NoEntry THEN Resting ELSE [pc |-> "take", id |-> {o}, req |-> e.req]]
    /\ UNCHANGED <<made, object, removed, poolVars, queueVars, caller, guard>>

Lookup(q, w) ==
    /\ worker[q][w].pc = "lookup"
    /\ \E o \in worker[q][w].id :
         LET e == entries[q][o] IN
         /\ worker' = [worker EXCEPT ![q][w] =
              IF e = NoEntry THEN Resting ELSE [pc |-> "take", id |-> {o}, req |-> e.req]]
         /\ entries' = [entries EXCEPT ![q][o] = NoEntry]
    /\ UNCHANGED <<made, object, removed, poolVars, batch, cnt, caller, guard>>

\* Faulty variant: the guard is not asked.
tryTake_Always(q, w) ==
    /\ worker[q][w].pc = "take"
    /\ guard' = guard \cup worker[q][w].id
    /\ worker' = [worker EXCEPT ![q][w].pc = "action"]
    /\ UNCHANGED <<made, object, removed, poolVars, queueVars, caller>>

\* Faulty variant: onRemove is left out when the action is.
tryTake_NoRemove(q, w) ==
    /\ worker[q][w].pc = "take"
    /\ IF worker[q][w].id \subseteq guard
       THEN worker' = [worker EXCEPT ![q][w] = Resting] /\ UNCHANGED guard
       ELSE /\ guard' = guard \cup worker[q][w].id
            /\ worker' = [worker EXCEPT ![q][w].pc = "action"]
    /\ UNCHANGED <<made, object, removed, poolVars, queueVars, caller>>

\* The wrapped action does nothing while another one for the object runs.
tryTake(q, w) ==
    /\ worker[q][w].pc = "take"
    /\ IF worker[q][w].id \subseteq guard
       THEN worker' = [worker EXCEPT ![q][w].pc = "remove"] /\ UNCHANGED guard
       ELSE /\ guard' = guard \cup worker[q][w].id
            /\ worker' = [worker EXCEPT ![q][w].pc = "action"]
    /\ UNCHANGED <<made, object, removed, poolVars, queueVars, caller>>

\* The action has ended.
release(q, w) ==
    /\ worker[q][w].pc = "action"
    /\ guard' = guard \ worker[q][w].id
    /\ worker' = [worker EXCEPT ![q][w].pc = "remove"]
    /\ UNCHANGED <<made, object, removed, poolVars, queueVars, caller>>

onRemove(q, w) ==
    /\ worker[q][w].pc = "remove"
    /\ Remove(worker[q][w].req)
    /\ worker' = [worker EXCEPT ![q][w] = Resting]
    /\ UNCHANGED <<made, object, poolVars, queueVars, caller, guard>>

-----------------------------------------------------------------------------
\* actionPool.gc takes a queue without ids from the map, and closes it after the
\* lock is released.  A queue that has not served yet counts as idle for long.
gc ==
    /\ \E q \in current : batch[q] = <<>> /\ dropping' = dropping \cup {q}
    /\ opened < MaxQueues
    /\ current' = {}
    /\ UNCHANGED <<made, object, removed, opened, closed, queueVars, caller, worker, guard>>

CloseQueue(q) ==
    /\ q \in dropping
    /\ dropping' = dropping \ {q}
    /\ closed' = closed \cup {q}
    /\ UNCHANGED <<made, object, removed, current, opened, queueVars, caller, worker, guard>>

Replace(c) == LoadCnt(c) \/ AddCnt(c) \/ Enter(c) \/ TryAdd(c) \/ Undo(c)
callLoop(q, w) == WaitOne(q, w) \/ Lookup(q, w) \/ tryTake(q, w) \/ release(q, w) \/ onRemove(q, w)

Next ==
    \/ \E c \in Callers : Add(c) \/ Replace(c)
    \/ \E q \in Queues, w \in Workers : callLoop(q, w)
    \/ gc
    \/ \E q \in Queues : CloseQueue(q)

Spec == Init /\ [][Next]_vars

\* Goroutines go on, and actions end: they have the context of the pool.
FairSpec ==
    /\ Spec
    /\ \A c \in Callers : WF_vars(Replace(c))
    /\ \A q \in Queues : \A w \in Workers : WF_vars(callLoop(q, w))
    /\ \A q \in Queues : WF_vars(CloseQueue(q))

-----------------------------------------------------------------------------
\* "this prevents cases when two simultaneous requests are sent at the same
\* time": no two actions for one object run at once, in whichever queues.
OneAtATime ==
    \A q1, q2 \in Queues : \A w1, w2 \in Workers :
        worker[q1][w1].pc = "action" /\ worker[q2][w2].pc = "action"
          /\ worker[q1][w1].id = worker[q2][w2].id
        => q1 = q2 /\ w1 = w2

\* onRemove, which takes the size of the request off the metric, is called once
\* for a request: a second call can only come from a caller whose request was
\* replaced before the queue refused it.
RemovedOnce ==
    [][\A r \in Requests :
         removed[r] > 0 /\ removed'[r] # removed[r]
         => /\ removed[r] = 1
            /\ \E c \in Callers : caller[c].pc = "undo" /\ caller[c].req = r]_vars

\* Every request ends: its action was called, or skipped, or replaced, or the
\* queue was full, and in each case onRemove was called. The exceptions are a
\* queue that was closed as idle, and a request that was both replaced and
\* refused: the one that replaced it has no id in the queue, or no entry.
EveryRequestEnds ==
    \A r \in Requests :
        (made >= r) ~> \/ removed[r] > 0
                       \/ closed # {}
                       \/ \E x \in Requests : removed[x] > 1
=============================================================================
