------------------------------- MODULE OCache -------------------------------
(***************************************************************************)
(* The object cache of app/ocache (ocache.go, entry.go): a map from ids to *)
(* entries that are loaded on demand by the first caller, shared by all    *)
(* the others, and closed by Remove, RemoveSame, TryRemove, the GC or      *)
(* Close.  Every goroutine that calls the cache is a member of Procs; one  *)
(* step of a process is one critical section of c.mu or of e.mx, one call  *)
(* of the loader or of the value, or one channel operation.                *)
(*                                                                         *)
(* An entry is a number; its value, when it has one, is identified with    *)
(* the entry, since every load and every Add brings an object of its own.  *)
(***************************************************************************)
EXTENDS Naturals, FiniteSets

CONSTANTS
    Procs,           \* goroutines that use the cache
    Ids,             \* object ids
    None,            \* "no entry"
    MaxEntries,      \* bound: entries ever created
    MaxOps,          \* bound: operations ever started
    MaxDeclines,     \* bound: TryClose calls that decline
    MaxLoadRetries,  \* maxLoadRetries
    PromptPublish    \* the deadline of Close outlasts the instructions between
                     \* the unlock in load and its deferred close(e.load)

Entries == 1..MaxEntries

ASSUME OCacheAssumption ==
    /\ MaxEntries \in Nat
    /\ MaxOps \in Nat
    /\ MaxDeclines \in Nat
    /\ MaxLoadRetries \in Nat
    /\ PromptPublish \in BOOLEAN
    /\ None \notin Entries \cup Ids

VARIABLES
    data,      \* c.data
    closed,    \* c.closed
    count,     \* entries created so far
    eid,       \* e.id
    state,     \* e.state
    loadDone,  \* the channel e.load is closed
    loadErr,   \* e.loadErr
    aborted,   \* e.loadAborted
    hasValue,  \* e.value is set
    cancelled, \* e.cancel was called
    chan,      \* number of the channel e.close now holds, 0 for nil
    shut,      \* numbers of the channels of e that are closed
    closes,    \* how often the value of e was closed
    crashed,   \* a closed channel was closed again (a panic in Go)
    pc, op, arg, ent, gen, todo, retries,  \* the locals of a goroutine
    ctx,       \* its context: cannot be cancelled, alive or done
    ops, declines

cacheVars == <<data, closed, count>>
entryVars == <<eid, state, loadDone, loadErr, aborted, hasValue, cancelled,
               chan, shut, closes, crashed>>
procVars  == <<pc, op, arg, ent, gen, todo, retries, ctx>>
bounds    == <<ops, declines>>
vars      == <<cacheVars, entryVars, procVars, bounds>>

EntryStates == {"none", "loading", "active", "closing", "closed"}
Ops == {"none", "Get", "Pick", "WaitClosing", "Remove", "RemoveSame",
        "TryRemove", "GC", "Close"}
PCs == {"idle", "get", "waitClose", "parkClose", "loadFunc", "closeLate",
        "closeLoad", "waitLoad", "removeWaitLoad", "setClosing", "parkClosing",
        "valueClose", "removeDelete", "trySetClosing", "tryClose", "restore",
        "escalate", "tryDelete"}

Init ==
    /\ data = [i \in Ids |-> None]
    /\ closed = FALSE
    /\ count = 0
    /\ eid = [e \in Entries |-> None]
    /\ state = [e \in Entries |-> "none"]
    /\ loadDone = [e \in Entries |-> FALSE]
    /\ loadErr = [e \in Entries |-> "nil"]
    /\ aborted = [e \in Entries |-> FALSE]
    /\ hasValue = [e \in Entries |-> FALSE]
    /\ cancelled = [e \in Entries |-> FALSE]
    /\ chan = [e \in Entries |-> 0]
    /\ shut = [e \in Entries |-> {}]
    /\ closes = [e \in Entries |-> 0]
    /\ crashed = FALSE
    /\ pc = [p \in Procs |-> "idle"]
    /\ op = [p \in Procs |-> "none"]
    /\ arg = [p \in Procs |-> None]
    /\ ent = [p \in Procs |-> None]
    /\ gen = [p \in Procs |-> 0]
    /\ todo = [p \in Procs |-> {}]
    /\ retries = [p \in Procs |-> 0]
    /\ ctx = [p \in Procs |-> "background"]
    /\ ops = 0
    /\ declines = 0
-----------------------------------------------------------------------------
(* Control of a goroutine. *)

Goto(p, label) == pc' = [pc EXCEPT ![p] = label]

Return(p) ==
    /\ Goto(p, "idle")
    /\ op' = [op EXCEPT ![p] = "none"]
    /\ arg' = [arg EXCEPT ![p] = None]
    /\ ent' = [ent EXCEPT ![p] = None]
    /\ gen' = [gen EXCEPT ![p] = 0]
    /\ retries' = [retries EXCEPT ![p] = 0]
    /\ ctx' = [ctx EXCEPT ![p] = "background"]
    /\ UNCHANGED todo

\* Go to label with the entry, stay in the same operation.
Step(p, label) ==
    /\ Goto(p, label)
    /\ UNCHANGED <<op, arg, ent, gen, todo, retries, ctx>>

\* Done with the current entry: GC and Close take the next one of their list.
Finish(p) ==
    \/ /\ todo[p] = {}
       /\ Return(p)
    \/ \E e \in todo[p] :
         /\ todo' = [todo EXCEPT ![p] = @ \ {e}]
         /\ ent' = [ent EXCEPT ![p] = e]
         /\ Goto(p, IF op[p] = "GC" THEN "trySetClosing" ELSE "removeWaitLoad")
         /\ UNCHANGED <<op, arg, gen, retries, ctx>>

\* A goroutine calls an operation with a context that may or may not be
\* cancelled later.
Start(p, o, label, i, e) ==
    /\ pc[p] = "idle"
    /\ ops < MaxOps
    /\ ops' = ops + 1
    /\ op' = [op EXCEPT ![p] = o]
    /\ arg' = [arg EXCEPT ![p] = i]
    /\ ent' = [ent EXCEPT ![p] = e]
    /\ \E c \in {"background", "live"} : ctx' = [ctx EXCEPT ![p] = c]
    /\ Goto(p, label)
    /\ UNCHANGED <<gen, todo, retries, declines>>

\* close(ch) of channel k of entry e: Go panics when it is closed already.
CloseChan(e, k) ==
    /\ shut' = [shut EXCEPT ![e] = @ \cup {k}]
    /\ crashed' = (crashed \/ k \in shut[e])

closeAndDelete(e) ==
    /\ data' = [data EXCEPT ![eid[e]] = None]
    /\ state' = [state EXCEPT ![e] = "closed"]
    /\ CloseChan(e, chan[e])

\* The acquiring half of entry.setClosing.
acquireClosing(e) ==
    /\ state' = [state EXCEPT ![e] = "closing"]
    /\ chan' = [chan EXCEPT ![e] = @ + 1]

ValueClosed(e) == closes' = [closes EXCEPT ![e] = @ + 1]

-----------------------------------------------------------------------------
(* Get and load. *)

Get(p) ==
    /\ \E i \in Ids : Start(p, "Get", "get", i, None)
    /\ UNCHANGED <<cacheVars, entryVars>>

\* Faulty variant: a closing entry counts as missing.
GetLocked_ReplacesClosing(p) ==
    LET i == arg[p]
        e == count + 1
    IN
    /\ pc[p] = "get"
    /\ \/ /\ closed
          /\ Return(p)
          /\ UNCHANGED <<cacheVars, entryVars>>
       \/ /\ ~closed
          /\ data[i] # None /\ state[data[i]] # "closing"
          /\ ent' = [ent EXCEPT ![p] = data[i]]
          /\ Goto(p, "waitClose")
          /\ UNCHANGED <<cacheVars, entryVars, op, arg, gen, todo, retries, ctx>>
       \/ /\ ~closed
          /\ data[i] # None => state[data[i]] = "closing"
          /\ e \in Entries
          /\ count' = e
          /\ data' = [data EXCEPT ![i] = e]
          /\ eid' = [eid EXCEPT ![e] = i]
          /\ state' = [state EXCEPT ![e] = "loading"]
          /\ ent' = [ent EXCEPT ![p] = e]
          /\ Goto(p, "loadFunc")
          /\ UNCHANGED <<closed, loadDone, loadErr, aborted, hasValue, cancelled,
                         chan, shut, closes, crashed,
                         op, arg, gen, todo, retries, ctx>>
    /\ UNCHANGED bounds

\* c.mu section of Get: the caller that finds no entry creates it and becomes
\* its loader (waitClose lets it pass: nobody closes a loading entry).
GetLocked(p) ==
    LET i == arg[p]
        e == count + 1
    IN
    /\ pc[p] = "get"
    /\ \/ /\ closed
          /\ Return(p)
          /\ UNCHANGED <<cacheVars, entryVars>>
       \/ /\ ~closed
          /\ data[i] # None
          /\ ent' = [ent EXCEPT ![p] = data[i]]
          /\ Goto(p, "waitClose")
          /\ UNCHANGED <<cacheVars, entryVars, op, arg, gen, todo, retries, ctx>>
       \/ /\ ~closed
          /\ data[i] = None
          /\ e \in Entries
          /\ count' = e
          /\ data' = [data EXCEPT ![i] = e]
          /\ eid' = [eid EXCEPT ![e] = i]
          /\ state' = [state EXCEPT ![e] = "loading"]
          /\ ent' = [ent EXCEPT ![p] = e]
          /\ Goto(p, "loadFunc")
          /\ UNCHANGED <<closed, loadDone, loadErr, aborted, hasValue, cancelled,
                         chan, shut, closes, crashed,
                         op, arg, gen, todo, retries, ctx>>
    /\ UNCHANGED bounds

\* What Get (reload) and WaitClosing (return) do once the entry is gone.
AfterClose(p) ==
    \/ /\ op[p] = "Get"
       /\ Step(p, "get")
    \/ /\ op[p] = "WaitClosing"
       /\ Return(p)

waitClose(p) ==
    LET e == ent[p] IN
    /\ pc[p] = "waitClose"
    /\ \/ /\ state[e] = "closing"
          /\ Goto(p, "parkClose")
          /\ gen' = [gen EXCEPT ![p] = chan[e]]
          /\ UNCHANGED <<op, arg, ent, todo, retries, ctx>>
       \/ /\ state[e] = "closed"
          /\ AfterClose(p)
       \/ /\ state[e] \notin {"closing", "closed"}
          /\ IF op[p] = "Get" THEN Step(p, "waitLoad") ELSE Return(p)
    /\ UNCHANGED <<cacheVars, entryVars, bounds>>

ParkClose(p) ==
    /\ pc[p] = "parkClose"
    /\ \/ /\ gen[p] \in shut[ent[p]]
          /\ AfterClose(p)
       \/ /\ ctx[p] = "done"
          /\ Return(p)
    /\ UNCHANGED <<cacheVars, entryVars, bounds>>

\* The load context is a child of the context of the first caller.
LoadCtxDone(p) == ctx[p] = "done" \/ cancelled[ent[p]]

\* loadFunc returned a value.
LoadValue(p) ==
    LET e == ent[p] IN
    /\ pc[p] = "loadFunc"
    /\ \/ /\ ~closed
          /\ hasValue' = [hasValue EXCEPT ![e] = TRUE]
          /\ state' = [state EXCEPT ![e] = "active"]
          /\ Step(p, "closeLoad")
          /\ UNCHANGED <<data, loadErr>>
       \/ /\ closed
          /\ loadErr' = [loadErr EXCEPT ![e] = "closed"]
          /\ data' = [data EXCEPT ![eid[e]] = None]
          /\ Step(p, "closeLate")
          /\ UNCHANGED <<hasValue, state>>
    /\ UNCHANGED <<closed, count, eid, loadDone, aborted, cancelled, chan, shut,
                   closes, crashed, bounds>>

\* Faulty variant: a panic of loadFunc leaves the entry as it is.
LoadFails_PanicForgotten(p) ==
    /\ pc[p] = "loadFunc"
    /\ Return(p)
    /\ UNCHANGED <<cacheVars, entryVars, bounds>>

\* loadFunc returned an error or nil, or panicked.  Whether the context was
\* done is read after the return and before the lock, so a context that is done
\* now may have been alive then.
LoadFails(p) ==
    LET e == ent[p] IN
    /\ pc[p] = "loadFunc"
    /\ \/ /\ loadErr' = [loadErr EXCEPT ![e] = "error"]
          /\ \E a \in {FALSE, LoadCtxDone(p)} : aborted' = [aborted EXCEPT ![e] = a]
       \/ /\ loadErr' = [loadErr EXCEPT ![e] = "panic"]
          /\ UNCHANGED aborted
    /\ data' = [data EXCEPT ![eid[e]] = None]
    /\ Step(p, "closeLoad")
    /\ UNCHANGED <<closed, count, eid, state, loadDone, hasValue, cancelled,
                   chan, shut, closes, crashed, bounds>>

\* load's branch for a cache that was closed meanwhile.
CloseLate(p) ==
    /\ pc[p] = "closeLate"
    /\ ValueClosed(ent[p])
    /\ Step(p, "closeLoad")
    /\ UNCHANGED <<cacheVars, eid, state, loadDone, loadErr, aborted, hasValue,
                   cancelled, chan, shut, crashed, bounds>>

\* End of an iteration of Get: retry when somebody else's context killed the
\* load.
GetResult(p) ==
    LET e == ent[p]
        again == /\ loadErr[e] \in {"error", "closed"}
                 /\ ctx[p] # "done"
                 /\ aborted[e]
                 /\ retries[p] < MaxLoadRetries
    IN
    \/ /\ again
       /\ retries' = [retries EXCEPT ![p] = @ + 1]
       /\ Goto(p, "get")
       /\ UNCHANGED <<op, arg, ent, gen, todo, ctx>>
    \/ /\ ~again
       /\ Return(p)

\* The deferred close(e.load).
CloseLoad(p) ==
    LET e == ent[p] IN
    /\ pc[p] = "closeLoad"
    /\ loadDone' = [loadDone EXCEPT ![e] = TRUE]
    /\ crashed' = (crashed \/ loadDone[e])
    /\ GetResult(p)
    /\ UNCHANGED <<cacheVars, eid, state, loadErr, aborted, hasValue, cancelled,
                   chan, shut, closes, bounds>>

\* waitLoad called by Get and Pick: a finished load wins over a done context.
waitLoad(p) ==
    /\ pc[p] = "waitLoad"
    /\ \/ /\ loadDone[ent[p]]
          /\ IF op[p] = "Get" THEN GetResult(p) ELSE Return(p)
       \/ /\ ~loadDone[ent[p]]
          /\ ctx[p] = "done"
          /\ Return(p)
    /\ UNCHANGED <<cacheVars, entryVars, bounds>>
-----------------------------------------------------------------------------
(* Readers and Add. *)

isClosing(e) == state[e] \in {"closing", "closed"}

Pick(p) ==
    /\ ~closed
    /\ \E i \in Ids :
         /\ data[i] # None
         /\ ~isClosing(data[i])
         /\ Start(p, "Pick", "waitLoad", i, data[i])
    /\ UNCHANGED <<cacheVars, entryVars>>

WaitClosing(p) ==
    /\ \E i \in Ids :
         /\ data[i] # None
         /\ Start(p, "WaitClosing", "waitClose", i, data[i])
    /\ UNCHANGED <<cacheVars, entryVars>>

\* Peek does not block: "miss", "busy" or the entry whose value it returns.
Peek(i) ==
    LET e == data[i] IN
    CASE closed \/ e = None -> "miss"
      [] OTHER -> IF isClosing(e) \/ ~loadDone[e] \/ loadErr[e] # "nil" \/ ~hasValue[e]
                  THEN "busy" ELSE "hit"

\* The entries whose values ForEach hands to its callback.
ForEach ==
    IF closed THEN {}
    ELSE {e \in {data[i] : i \in Ids} \ {None} :
            loadDone[e] /\ hasValue[e] /\ ~isClosing(e)}

Add(p) ==
    LET e == count + 1 IN
    /\ pc[p] = "idle"
    /\ ops < MaxOps
    /\ ~closed
    /\ e \in Entries
    /\ \E i \in Ids :
         /\ data[i] = None
         /\ data' = [data EXCEPT ![i] = e]
         /\ eid' = [eid EXCEPT ![e] = i]
    /\ count' = e
    /\ state' = [state EXCEPT ![e] = "active"]
    /\ loadDone' = [loadDone EXCEPT ![e] = TRUE]
    /\ hasValue' = [hasValue EXCEPT ![e] = TRUE]
    /\ ops' = ops + 1
    /\ UNCHANGED <<closed, loadErr, aborted, cancelled, chan, shut, closes,
                   crashed, procVars, declines>>

-----------------------------------------------------------------------------
(* Remove, RemoveSame and the pass of Close: removeCtx. *)

Remove(p) ==
    /\ ~closed
    /\ \E i \in Ids :
         /\ data[i] # None
         /\ Start(p, "Remove", "removeWaitLoad", i, data[i])
    /\ UNCHANGED <<cacheVars, entryVars>>

\* The caller names a value it got earlier; it matches the entry only when that
\* very value is stored.
RemoveSame(p) ==
    /\ ~closed
    /\ \E v \in Entries :
         /\ hasValue[v]
         /\ data[eid[v]] = v
         /\ Start(p, "RemoveSame", "removeWaitLoad", eid[v], v)
    /\ UNCHANGED <<cacheVars, entryVars>>

Close(p) ==
    LET entries == {data[i] : i \in Ids} \ {None} IN
    /\ pc[p] = "idle"
    /\ ops < MaxOps
    /\ ~closed
    /\ closed' = TRUE
    /\ cancelled' = [e \in Entries |-> cancelled[e] \/ e \in entries]
    /\ ops' = ops + 1
    /\ \/ /\ entries = {}
          /\ UNCHANGED procVars
       \/ \E e \in entries :
            /\ Goto(p, "removeWaitLoad")
            /\ op' = [op EXCEPT ![p] = "Close"]
            /\ ent' = [ent EXCEPT ![p] = e]
            /\ todo' = [todo EXCEPT ![p] = entries \ {e}]
            /\ ctx' = [ctx EXCEPT ![p] = "live"]
            /\ UNCHANGED <<arg, gen, retries>>
    /\ UNCHANGED <<data, count, eid, state, loadDone, loadErr, aborted, hasValue,
                   chan, shut, closes, crashed, declines>>

RemoveWaitLoad(p) ==
    LET e == ent[p] IN
    /\ pc[p] = "removeWaitLoad"
    /\ \/ /\ loadDone[e]
          /\ loadErr[e] = "nil"
          /\ Step(p, "setClosing")
       \/ /\ loadDone[e]
          /\ loadErr[e] # "nil"
          /\ Finish(p)
       \/ /\ ~loadDone[e]
          /\ ctx[p] = "done"
          /\ Finish(p)
    /\ UNCHANGED <<cacheVars, entryVars, bounds>>

\* entry.setClosing(ctx, wait = true)
setClosing(p) ==
    LET e == ent[p] IN
    /\ pc[p] = "setClosing"
    /\ \/ /\ state[e] \in {"loading", "closed"}
          /\ Finish(p)
          /\ UNCHANGED <<state, chan>>
       \/ /\ state[e] = "closing"
          /\ Goto(p, "parkClosing")
          /\ gen' = [gen EXCEPT ![p] = chan[e]]
          /\ UNCHANGED <<op, arg, ent, todo, retries, ctx, state, chan>>
       \/ /\ state[e] = "active"
          /\ acquireClosing(e)
          /\ Step(p, "valueClose")
    /\ UNCHANGED <<cacheVars, eid, loadDone, loadErr, aborted, hasValue,
                   cancelled, shut, closes, crashed, bounds>>

\* Faulty variant: a woken closer takes the entry without looking again.
ParkClosing_NoRecheck(p) ==
    /\ pc[p] = "parkClosing"
    /\ gen[p] \in shut[ent[p]]
    /\ acquireClosing(ent[p])
    /\ Step(p, "valueClose")
    /\ UNCHANGED <<cacheVars, eid, loadDone, loadErr, aborted, hasValue,
                   cancelled, shut, closes, crashed, bounds>>

ParkClosing(p) ==
    /\ pc[p] = "parkClosing"
    /\ \/ /\ gen[p] \in shut[ent[p]]
          /\ Step(p, "setClosing")
       \/ /\ ctx[p] = "done"
          /\ Finish(p)
    /\ UNCHANGED <<cacheVars, entryVars, bounds>>

ValueClose(p) ==
    /\ pc[p] = "valueClose"
    /\ ValueClosed(ent[p])
    /\ Step(p, "removeDelete")
    /\ UNCHANGED <<cacheVars, eid, state, loadDone, loadErr, aborted, hasValue,
                   cancelled, chan, shut, crashed, bounds>>

RemoveDelete(p) ==
    /\ pc[p] = "removeDelete"
    /\ closeAndDelete(ent[p])
    /\ Finish(p)
    /\ UNCHANGED <<closed, count, eid, loadDone, loadErr, aborted, hasValue,
                   cancelled, chan, closes, bounds>>

-----------------------------------------------------------------------------
(* TryRemove and the GC: tryCloseEntry. *)

TryRemove(p) ==
    /\ ~closed
    /\ \E i \in Ids :
         /\ data[i] # None
         /\ Start(p, "TryRemove", "trySetClosing", i, data[i])
    /\ UNCHANGED <<cacheVars, entryVars>>

\* Any of the active entries may have outlived its ttl.
GC(p) ==
    /\ pc[p] = "idle"
    /\ ops < MaxOps
    /\ ~closed
    /\ \E expired \in SUBSET {e \in {data[i] : i \in Ids} \ {None} : state[e] = "active"} :
         \E e \in expired :
           /\ Goto(p, "trySetClosing")
           /\ op' = [op EXCEPT ![p] = "GC"]
           /\ ent' = [ent EXCEPT ![p] = e]
           /\ todo' = [todo EXCEPT ![p] = expired \ {e}]
    /\ ops' = ops + 1
    /\ UNCHANGED <<cacheVars, entryVars, arg, gen, retries, ctx, declines>>

\* Faulty variant: an entry that another closer holds is acquired too.
TrySetClosing_AnyState(p) ==
    LET e == ent[p] IN
    /\ pc[p] = "trySetClosing"
    /\ state[e] \in {"active", "closing"}
    /\ acquireClosing(e)
    /\ Step(p, "tryClose")
    /\ UNCHANGED <<cacheVars, eid, loadDone, loadErr, aborted, hasValue,
                   cancelled, shut, closes, crashed, bounds>>

\* entry.setClosing(ctx, wait = false); only an active entry is acquired.
TrySetClosing(p) ==
    LET e == ent[p] IN
    /\ pc[p] = "trySetClosing"
    /\ \/ /\ state[e] = "active"
          /\ acquireClosing(e)
          /\ Step(p, "tryClose")
       \/ /\ state[e] # "active"
          /\ Finish(p)
          /\ UNCHANGED <<state, chan>>
    /\ UNCHANGED <<cacheVars, eid, loadDone, loadErr, aborted, hasValue,
                   cancelled, shut, closes, crashed, bounds>>

\* The value decides whether it closes.
TryClose(p) ==
    /\ pc[p] = "tryClose"
    /\ \/ /\ ValueClosed(ent[p])
          /\ Step(p, "tryDelete")
          /\ UNCHANGED declines
       \/ /\ declines < MaxDeclines
          /\ declines' = declines + 1
          /\ Step(p, "restore")
          /\ UNCHANGED closes
    /\ UNCHANGED <<cacheVars, eid, state, loadDone, loadErr, aborted, hasValue,
                   cancelled, chan, shut, crashed, ops>>

\* Faulty variant: a declined close is abandoned.
Restore_Abandons(p) ==
    /\ pc[p] = "restore"
    /\ Finish(p)
    /\ UNCHANGED <<cacheVars, entryVars, bounds>>

\* Faulty variant: the entry is restored into a closed cache.
Restore_IgnoresClose(p) ==
    LET e == ent[p] IN
    /\ pc[p] = "restore"
    /\ state' = [state EXCEPT ![e] = "active"]
    /\ CloseChan(e, chan[e])
    /\ Finish(p)
    /\ UNCHANGED <<cacheVars, eid, loadDone, loadErr, aborted, hasValue,
                   cancelled, chan, closes, bounds>>

\* A value that declined is active again, unless the cache was closed.
Restore(p) ==
    LET e == ent[p] IN
    /\ pc[p] = "restore"
    /\ \/ /\ ~closed
          /\ state' = [state EXCEPT ![e] = "active"]
          /\ CloseChan(e, chan[e])
          /\ Finish(p)
       \/ /\ closed
          /\ Step(p, "escalate")
          /\ UNCHANGED <<state, shut, crashed>>
    /\ UNCHANGED <<cacheVars, eid, loadDone, loadErr, aborted, hasValue,
                   cancelled, chan, closes, bounds>>

Escalate(p) ==
    /\ pc[p] = "escalate"
    /\ ValueClosed(ent[p])
    /\ Step(p, "tryDelete")
    /\ UNCHANGED <<cacheVars, eid, state, loadDone, loadErr, aborted, hasValue,
                   cancelled, chan, shut, crashed, bounds>>

TryDelete(p) ==
    /\ pc[p] = "tryDelete"
    /\ closeAndDelete(ent[p])
    /\ Finish(p)
    /\ UNCHANGED <<closed, count, eid, loadDone, loadErr, aborted, hasValue,
                   cancelled, chan, closes, bounds>>

-----------------------------------------------------------------------------
(* The context of a call is cancelled, or the deadline of Close passes. *)
Cancel(p) ==
    /\ ctx[p] = "live"
    /\ op[p] = "Close" /\ PromptPublish =>
         ~\E q \in Procs : pc[q] = "closeLoad" /\ loadErr[ent[q]] = "nil"
    /\ ctx' = [ctx EXCEPT ![p] = "done"]
    /\ UNCHANGED <<cacheVars, entryVars, pc, op, arg, ent, gen, todo, retries, bounds>>

Call(p) ==
    \/ Get(p) \/ Pick(p) \/ WaitClosing(p) \/ Add(p) \/ Remove(p)
    \/ RemoveSame(p) \/ TryRemove(p) \/ GC(p) \/ Close(p)

Work(p) ==
    \/ GetLocked(p) \/ waitClose(p) \/ ParkClose(p) \/ LoadValue(p)
    \/ LoadFails(p) \/ CloseLate(p) \/ CloseLoad(p) \/ waitLoad(p)
    \/ RemoveWaitLoad(p) \/ setClosing(p) \/ ParkClosing(p) \/ ValueClose(p)
    \/ RemoveDelete(p) \/ TrySetClosing(p) \/ TryClose(p) \/ Restore(p)
    \/ Escalate(p) \/ TryDelete(p)

Quiescent == \A p \in Procs : pc[p] = "idle"

\* No operation is left to start.
Terminated ==
    /\ Quiescent
    /\ ops = MaxOps
    /\ UNCHANGED vars

Next ==
    \/ \E p \in Procs : Call(p) \/ Work(p) \/ Cancel(p)
    \/ Terminated

Spec == Init /\ [][Next]_vars

\* The scheduler runs every goroutine, and loaders and values return.
Fairness == \A p \in Procs : WF_vars(Work(p))

FairSpec == Spec /\ Fairness

-----------------------------------------------------------------------------
(* Properties. *)

CacheTypeOK ==
    /\ data \in [Ids -> Entries \cup {None}]
    /\ closed \in BOOLEAN
    /\ count \in 0..MaxEntries

EntryTypeOK ==
    /\ eid \in [Entries -> Ids \cup {None}]
    /\ state \in [Entries -> EntryStates]
    /\ loadDone \in [Entries -> BOOLEAN]
    /\ loadErr \in [Entries -> {"nil", "error", "panic", "closed"}]
    /\ aborted \in [Entries -> BOOLEAN]
    /\ hasValue \in [Entries -> BOOLEAN]
    /\ cancelled \in [Entries -> BOOLEAN]
    /\ chan \in [Entries -> Nat]
    /\ shut \in [Entries -> SUBSET Nat]
    /\ closes \in [Entries -> Nat]
    /\ crashed \in BOOLEAN

ProcTypeOK ==
    /\ pc \in [Procs -> PCs]
    /\ op \in [Procs -> Ops]
    /\ arg \in [Procs -> Ids \cup {None}]
    /\ ent \in [Procs -> Entries \cup {None}]
    /\ gen \in [Procs -> Nat]
    /\ todo \in [Procs -> SUBSET Entries]
    /\ retries \in [Procs -> 0..MaxLoadRetries]
    /\ ctx \in [Procs -> {"background", "live", "done"}]

BoundsTypeOK == ops \in 0..MaxOps /\ declines \in 0..MaxDeclines

\* Every variable stays in its range; in particular Get retries a killed load
\* at most maxLoadRetries times.
TypeOK == CacheTypeOK /\ EntryTypeOK /\ ProcTypeOK /\ BoundsTypeOK

\* No value is closed twice, whatever Remove, RemoveSame, TryRemove, GC, Close
\* and a late load do to its entry concurrently.
ValueClosedOnce == \A e \in Entries : closes[e] <= 1

\* No channel is closed twice: neither e.close (setActive, setClosed) nor
\* e.load (load), each of which would panic.
NoChannelPanic == ~crashed

\* The value of e exists and is not closed.
Open(e) ==
    /\ closes[e] = 0
    /\ \/ hasValue[e]
       \/ \E p \in Procs : pc[p] = "closeLate" /\ ent[p] = e

\* There is never a second open instance of an object: the entry of an open
\* value is the one stored under its id, so delete(c.data, e.id) in
\* closeAndDelete and in load never drops a newer entry, and Get cannot start a
\* load while the old value is still open.
OneInstance ==
    \A e, f \in Entries : Open(e) /\ Open(f) /\ eid[e] = eid[f] => e = f

\* An entry that is being closed has exactly one closer, still at work; this is
\* what the goroutines parked on its close channel rely on.
Closer(p, e) ==
    /\ ent[p] = e
    /\ pc[p] \in {"valueClose", "removeDelete", "tryClose", "restore", "escalate", "tryDelete"}

ClosingHasOneCloser ==
    \A e \in Entries :
        state[e] = "closing" => \E p \in Procs : \A q \in Procs : Closer(q, e) <=> q = p

\* What Peek and ForEach hand out is not closed at that moment.
VisibleIsOpen ==
    /\ \A i \in Ids : Peek(i) = "hit" => closes[data[i]] = 0
    /\ \A e \in ForEach : closes[e] = 0

\* Once the cache is closed and the last operation is over, every value that was
\* ever added or loaded is closed and the map is empty: nothing leaks.
NoLeakAfterClose ==
    closed /\ Quiescent =>
        /\ \A e \in Entries : hasValue[e] => closes[e] = 1
        /\ \A i \in Ids : data[i] = None

\* Every operation returns, also under a context that is never cancelled: no
\* goroutine is left parked on a load or close channel.
OperationsReturn == \A p \in Procs : pc[p] # "idle" ~> pc[p] = "idle"
=============================================================================
