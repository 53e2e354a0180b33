-------------------------------- MODULE Pool --------------------------------
(***************************************************************************)
(* The pool of connections (net/pool), seen from one peer id: lookups that *)
(* read one pair of caches and check afterwards that it is still the       *)
(* current one, accepted connections that replace each other, a watcher    *)
(* for every connection, Flush, which swaps the pair and tears the old one *)
(* down in the background, and Close.                                      *)
(*                                                                         *)
(* The caches are those of OCache, here one slot for the id: an entry is   *)
(* loading, active or being closed, and the cache may be closed as a whole.*)
(* Callers wait as long as it takes; connections are numbered.             *)
(***************************************************************************)
EXTENDS Naturals

CONSTANTS Getters,   \* goroutines that call Get
          Pickers,   \* goroutines that call Pick
          Adders,    \* goroutines that accept a connection each
          Flushers,  \* goroutines that call Flush once
          MaxConns,  \* bound on the connections
          MaxPairs,  \* bound on the pairs of caches
          MaxEvents, \* bound on the calls, collections and breaks together
          Retries    \* retries of AddPeer

Callers == Getters \cup Pickers
Conns == 1 .. MaxConns
Pairs == 1 .. MaxPairs
Sides == {"in", "out"}
None == 0
Verdict == MaxConns + 1    \* the object cached for an incompatible version
ErrClosed == MaxConns + 2  \* the error of a cache that is closed

ASSUME PoolAssumption ==
    /\ {MaxConns, MaxEvents, Retries} \subseteq Nat
    /\ MaxPairs \in Nat \ {0}
    /\ Callers \cap (Adders \cup Flushers) = {} /\ Adders \cap Flushers = {}
    /\ "close" \notin Callers \cup Adders \cup Flushers

VARIABLES current,    \* the published pair
          built,      \* how many pairs were built
          swapping,   \* is swapMu held by a Flush?
          cancelled,  \* the pairs whose ctx is cancelled
          shut,       \* the caches that are closed
          slot,       \* slot[c][s]: the entry in a cache
          closed,     \* p.closed
          closing,    \* is closingCtx cancelled?
          torn,       \* the pairs that are being torn down
          toClose,    \* the connections that were found in them
          made, home, \* the connections made, and the cache each was put into
          dead,       \* the connections that are closed
          watcher,    \* the step of the watcher of each connection
          marked,     \* the connections that a Flush reports
          events,     \* how often Closed was reported
          discards,   \* the removals that run in the background
          proc,       \* the steps of the callers
          begun       \* the events so far

cacheVars == <<current, built, swapping, cancelled, shut, closed, closing, torn, toClose>>
connVars == <<made, home, watcher, marked, events, discards>>
vars == <<cacheVars, slot, connVars, dead, proc, begun>>

Empty == [st |-> "none", conn |-> None]
Active(n) == [st |-> "active", conn |-> n]

\* A caller: its step, the pair it reads, the pair it found empty, what it found, if the
\* pair was cancelled then, and how often it tried.
Idle == [pc |-> "idle", c |-> None, missed |-> None, got |-> None,
         cut |-> FALSE, n |-> 0]

Init ==
    /\ current = 1 /\ built = 1 /\ swapping = FALSE
    /\ cancelled = {} /\ shut = {} /\ torn = {} /\ toClose = {}
    /\ slot = [c \in Pairs |-> [s \in Sides |-> Empty]]
    /\ closed = FALSE /\ closing = FALSE
    /\ made = 0 /\ home = [n \in Conns |-> <<None, "in">>]
    /\ dead = {} /\ marked = {} /\ discards = {}
    /\ watcher = [n \in Conns |-> "none"]
    /\ events = [n \in Conns |-> 0]
    /\ proc = [g \in Callers \cup Adders \cup Flushers \cup {"close"} |-> Idle]
    /\ begun = 0

Step(g, r) == proc' = [proc EXCEPT ![g] = r]
Goto(g, pc) == Step(g, [proc[g] EXCEPT !.pc = pc])

\* A call of g is over: what it returned stays.
Over == {"idle", "ok", "failed", "errClosed"}
Return(g, n) ==
    Step(g, [Idle EXCEPT !.pc = CASE n \in Conns -> "ok"
                                  [] n = ErrClosed -> "errClosed"
                                  [] OTHER -> "failed",
                         !.got = n])

Put(c, s, e) == slot' = [slot EXCEPT ![c][s] = e]

OnlyProc == UNCHANGED <<cacheVars, slot, connVars, dead, begun>>

-----------------------------------------------------------------------------
(* What Peek tells of a cache *)

Miss(c, s) == <<c, s>> \in shut \/ slot[c][s].st = "none"
Hit(c, s) == <<c, s>> \notin shut /\ slot[c][s].st = "active"
Busy(c, s) == ~Miss(c, s) /\ ~Hit(c, s)

\* RemoveSame is refused by a closed cache, does nothing if another connection has the
\* entry, and waits for another closer.
CanRemove(c, s, n) == <<c, s>> \in shut \/ slot[c][s] # [st |-> "closing", conn |-> n]
RemoveSame(c, s, n) ==
    IF <<c, s>> \notin shut /\ slot[c][s] = Active(n)
    THEN Put(c, s, Empty) /\ dead' = dead \cup {n}
    ELSE UNCHANGED <<slot, dead>>

-----------------------------------------------------------------------------
(* Get and Pick *)

\* Callers are alike: the next call is made by the first that is free.
Free(S) == LET free == {g \in S : proc[g].pc \in Over}
           IN  IF free = {} THEN {} ELSE {CHOOSE g \in free : TRUE}

Call(g) ==
    /\ g \in Free(Getters) \cup Free(Pickers)
    /\ Step(g, [Idle EXCEPT !.pc = "fast"])
    /\ UNCHANGED <<cacheVars, slot, connVars, dead>>

\* fast: the incoming cache of the current pair.
fast(g) ==
    /\ proc[g].pc = "fast"
    /\ Step(g, [proc[g] EXCEPT
           !.c = current,
           !.pc = IF Hit(current, "in") THEN "fastCheck" ELSE "fastOut",
           !.got = IF Hit(current, "in") THEN slot[current]["in"].conn ELSE None,
           !.missed = IF Miss(current, "in") THEN current ELSE None])
    /\ OnlyProc

\* Then the outgoing one; a miss in both counts if the pair is still current.
fastOut(g) ==
    LET r == proc[g] IN
    /\ r.pc = "fastOut"
    /\ \/ /\ Hit(r.c, "out")
          /\ Step(g, [r EXCEPT !.pc = "fastCheck", !.got = slot[r.c]["out"].conn, !.missed = None])
       \/ /\ Miss(r.c, "out") /\ r.missed = r.c /\ r.c \notin cancelled /\ current = r.c
          /\ IF g \in Pickers THEN Return(g, None) ELSE Goto(g, "lookup")
       \/ /\ ~Hit(r.c, "out")
          /\ ~(Miss(r.c, "out") /\ r.missed = r.c /\ r.c \notin cancelled /\ current = r.c)
          /\ Step(g, [r EXCEPT !.pc = "lookup", !.missed = None])
    /\ OnlyProc

fastCheck(g) ==
    LET r == proc[g] IN
    /\ r.pc = "fastCheck"
    /\ IF r.got \in Conns \ dead /\ current = r.c THEN Return(g, r.got)
       ELSE Step(g, [r EXCEPT !.pc = "lookup", !.got = None])
    /\ OnlyProc

lookup(g) ==
    /\ proc[g].pc = "lookup"
    /\ Step(g, [proc[g] EXCEPT !.c = current, !.got = None,
                               !.pc = IF g \in Getters THEN "getIncoming" ELSE "pickIn"])
    /\ OnlyProc

\* What f found in the pair: a connection or an error.
Found(g, n) == Step(g, [proc[g] EXCEPT !.pc = "found", !.got = n])

\* A connection found closed is removed in the background before the caller looks again.
live(g, s, n) ==
    IF n \in dead
    THEN /\ discards' = discards \cup {<<proc[g].c, s, n>>}
         /\ Step(g, [proc[g] EXCEPT !.pc = "evicting", !.got = n])
    ELSE /\ Found(g, IF n = Verdict THEN None ELSE n)
         /\ UNCHANGED discards

\* The incoming cache: an entry that is being closed is waited for; nothing is said of a
\* pair that is cancelled.
getIncoming(g) ==
    LET r == proc[g] IN
    /\ r.pc = "getIncoming"
    /\ \/ /\ r.missed = r.c
          /\ Step(g, [r EXCEPT !.pc = "get", !.missed = None]) /\ UNCHANGED discards
       \/ /\ r.missed # r.c /\ Hit(r.c, "in")
          /\ live(g, "in", slot[r.c]["in"].conn)
       \/ /\ r.missed # r.c /\ ~Hit(r.c, "in") /\ r.c \in cancelled
          /\ Found(g, ErrClosed) /\ UNCHANGED discards
       \/ /\ r.missed # r.c /\ Miss(r.c, "in") /\ r.c \notin cancelled
          /\ Goto(g, "get") /\ UNCHANGED discards
    /\ UNCHANGED <<cacheVars, slot, made, home, watcher, marked, events, dead, begun>>

\* The outgoing cache, if it is closed or has a value; an entry that is being closed is
\* waited for.
get(g) ==
    LET r == proc[g]  e == slot[r.c]["out"] IN
    /\ r.pc = "get"
    /\ \/ /\ <<r.c, "out">> \in shut
          /\ Found(g, ErrClosed) /\ UNCHANGED discards
       \/ /\ Hit(r.c, "out")
          /\ live(g, "out", e.conn)
    /\ UNCHANGED <<cacheVars, slot, made, home, watcher, marked, events, dead, begun>>

\* The first caller of an empty one loads, and never dials for a pair that is cancelled.
load(g) ==
    LET c == proc[g].c IN
    /\ proc[g].pc = "get" /\ <<c, "out">> \notin shut /\ slot[c]["out"].st = "none"
    /\ IF c \in cancelled THEN Found(g, ErrClosed) /\ UNCHANGED slot
       ELSE Goto(g, "dial") /\ Put(c, "out", [st |-> "loading", conn |-> None])
    /\ UNCHANGED <<cacheVars, connVars, dead, begun>>

\* The value that was loaded.
loaded(g) ==
    /\ proc[g].pc = "loaded"
    /\ live(g, "out", proc[g].got)
    /\ UNCHANGED <<cacheVars, slot, made, home, watcher, marked, events, dead, begun>>

\* Get and Pick wait for a load that another caller has begun.
waitLoad(g) ==
    LET c == proc[g].c IN
    /\ proc[g].pc \in {"get", "pickOut"}
    /\ <<c, "out">> \notin shut /\ slot[c]["out"].st = "loading"
    /\ Goto(g, "waitLoad")
    /\ OnlyProc

\* A wait for a load, for a closer or for a removal ends when the pair is cancelled.
Waits(g) ==
    \/ proc[g].pc \in {"waitLoad", "evicting"}
    \/ proc[g].pc = "get" /\ slot[proc[g].c]["out"].st = "closing"

CutShort(g) ==
    /\ Waits(g) /\ proc[g].c \in cancelled
    /\ Found(g, None)
    /\ OnlyProc

\* The callers that wait for the load of c get what came of it: n, or an error.
Loaded(g, c, n, pc) ==
    proc' = [h \in DOMAIN proc |->
        CASE h = g -> [proc[g] EXCEPT !.pc = pc, !.got = n]
          [] h # g /\ proc[h].c = c /\ proc[h].pc = "waitLoad" ->
                [proc[h] EXCEPT !.got = n, !.pc = IF h \in Pickers THEN "picked" ELSE pc]
          [] OTHER -> proc[h]]

\* The dial succeeds: the watcher starts before the connection is published.
Dialled(g) ==
    /\ proc[g].pc = "dial" /\ made < MaxConns
    /\ made' = made + 1
    /\ home' = [home EXCEPT ![made + 1] = <<proc[g].c, "out">>]
    /\ watcher' = [watcher EXCEPT ![made + 1] = "wait"]
    /\ Step(g, [proc[g] EXCEPT !.pc = "publish", !.got = made + 1])
    /\ UNCHANGED <<cacheVars, slot, marked, events, discards, dead, begun>>

\* It fails, or is cut short; a callers' retry of an aborted load comes down to an error of
\* theirs, since what aborts it is the pair.
DialFails(g) ==
    LET c == proc[g].c IN
    /\ proc[g].pc = "dial"
    /\ Put(c, "out", Empty)
    /\ Loaded(g, c, None, "found")
    /\ UNCHANGED <<cacheVars, connVars, dead, begun>>

\* The version of the peer is incompatible: that is what is cached.
DialRefused(g) ==
    LET c == proc[g].c IN
    /\ proc[g].pc = "dial"
    /\ Put(c, "out", IF <<c, "out">> \in shut THEN Empty ELSE Active(Verdict))
    /\ Loaded(g, c, None, "found")
    /\ UNCHANGED <<cacheVars, connVars, dead, begun>>

\* Faulty variant: the connection is put into a closed cache.
Publish_IntoClosed(g) ==
    LET c == proc[g].c  n == proc[g].got IN
    /\ proc[g].pc = "publish"
    /\ Put(c, "out", Active(n)) /\ Loaded(g, c, n, "loaded") /\ UNCHANGED dead
    /\ UNCHANGED <<cacheVars, connVars, begun>>

\* The load ends: a closed cache closes the connection instead of keeping it.
Publish(g) ==
    LET c == proc[g].c  n == proc[g].got IN
    /\ proc[g].pc = "publish"
    /\ IF <<c, "out">> \in shut
       THEN Put(c, "out", Empty) /\ Loaded(g, c, ErrClosed, "found") /\ dead' = dead \cup {n}
       ELSE Put(c, "out", Active(n)) /\ Loaded(g, c, n, "loaded") /\ UNCHANGED dead
    /\ UNCHANGED <<cacheVars, connVars, begun>>

discard(d) ==
    /\ d \in discards
    /\ closing \/ CanRemove(d[1], d[2], d[3])
    /\ IF closing THEN UNCHANGED <<slot, dead>> ELSE RemoveSame(d[1], d[2], d[3])
    /\ discards' = discards \ {d}
    /\ UNCHANGED <<cacheVars, made, home, watcher, marked, events, proc, begun>>

\* The loop of Get: it starts over unless the pair is cancelled or the pool shuts down.
Redial(g) ==
    LET r == proc[g] IN
    /\ r.pc = "evicting" /\ \A s \in Sides : <<r.c, s, r.got>> \notin discards
    /\ IF r.c \in cancelled THEN Found(g, None)
       ELSE IF closing THEN Found(g, ErrClosed)
       ELSE Step(g, [r EXCEPT !.pc = "getIncoming", !.got = None])
    /\ OnlyProc

\* pick: what a cache holds now.
pick(g) ==
    LET r == proc[g]
        s == IF r.pc = "pickIn" THEN "in" ELSE "out"
        e == slot[r.c][s]
        n == IF Hit(r.c, s) THEN e.conn ELSE None
    IN
    /\ r.pc \in {"pickIn", "pickOut"}
    /\ \/ /\ n \in Conns \ dead /\ Found(g, n)
       \/ /\ n \notin Conns \ dead /\ s = "in" /\ Goto(g, "pickOut")
       \/ /\ n \notin Conns \ dead /\ s = "out"
          /\ <<r.c, s>> \in shut \/ e.st # "loading"
          /\ Found(g, IF <<r.c, s>> \in shut THEN ErrClosed ELSE None)
    /\ OnlyProc

picked(g) ==
    /\ proc[g].pc = "picked"
    /\ Found(g, IF proc[g].got \in dead THEN None ELSE proc[g].got)
    /\ OnlyProc

\* The end of lookup: the ctx of the pair is read, and then the current pair.
Cancelled(g) ==
    /\ proc[g].pc = "found"
    /\ Step(g, [proc[g] EXCEPT !.pc = "recheck", !.cut = proc[g].c \in cancelled])
    /\ OnlyProc

\* Faulty variant: the result is returned whether the pair was replaced or not.
Recheck_NoRetry(g) ==
    LET r == proc[g] IN
    /\ r.pc = "recheck"
    /\ Return(g, IF r.cut THEN ErrClosed ELSE r.got)
    /\ OnlyProc

Recheck(g) ==
    LET r == proc[g] IN
    /\ r.pc = "recheck"
    /\ IF current = r.c THEN Return(g, IF r.cut THEN ErrClosed ELSE r.got)
       ELSE Goto(g, "lookup")
    /\ OnlyProc

-----------------------------------------------------------------------------
(* AddPeer *)

Accept(a) ==
    /\ proc[a].pc \in Over /\ made < MaxConns
    /\ made' = made + 1
    /\ Step(a, [Idle EXCEPT !.pc = "add", !.got = made + 1])
    /\ UNCHANGED <<cacheVars, slot, home, watcher, marked, events, discards, dead>>

\* The lock keeps a swap from coming between reading the pair and adding to it.
addIncoming(a) ==
    LET r == proc[a]  c == current IN
    /\ r.pc = "add"
    /\ \/ /\ closing \/ <<c, "in">> \in shut
          /\ Return(a, ErrClosed) /\ UNCHANGED <<slot, home, watcher>>
       \/ /\ ~closing /\ ~swapping /\ slot[c]["in"].st # "none"
          /\ Step(a, [r EXCEPT !.pc = "exists", !.c = c])
          /\ UNCHANGED <<slot, home, watcher>>
       \/ /\ ~closing /\ ~swapping /\ slot[c]["in"].st = "none"
          /\ Put(c, "in", Active(r.got))
          /\ home' = [home EXCEPT ![r.got] = <<c, "in">>]
          /\ watcher' = [watcher EXCEPT ![r.got] = "wait"]
          /\ Return(a, r.got)
    /\ UNCHANGED <<cacheVars, made, marked, events, discards, dead, begun>>

\* There is a connection: it is removed, or its removal is waited for, a few times; not in a
\* pair that was replaced.
AddPeer(a) ==
    LET r == proc[a]  e == slot[r.c]["in"]  again == [r EXCEPT !.n = r.n + 1] IN
    /\ r.pc = "exists"
    /\ \/ current # r.c /\ Goto(a, "add") /\ UNCHANGED discards
       \/ /\ current = r.c /\ <<r.c, "in">> \in shut
          /\ Return(a, ErrClosed) /\ UNCHANGED discards
       \/ /\ current = r.c /\ <<r.c, "in">> \notin shut /\ r.n >= Retries
          /\ Return(a, None) /\ UNCHANGED discards
       \/ /\ current = r.c /\ <<r.c, "in">> \notin shut /\ r.n < Retries /\ e.st = "active"
          /\ discards' = discards \cup {<<r.c, "in", e.conn>>}
          /\ Step(a, [again EXCEPT !.pc = "replacing", !.missed = e.conn])
       \/ /\ current = r.c /\ <<r.c, "in">> \notin shut /\ r.n < Retries /\ e.st # "active"
          /\ Step(a, [again EXCEPT !.pc = "replacing", !.missed = None]) /\ UNCHANGED discards
    /\ UNCHANGED <<cacheVars, slot, made, home, watcher, marked, events, dead, begun>>

\* Both waits end with the removal or with the pair.
waitClosing(a) ==
    LET r == proc[a] IN
    /\ r.pc = "replacing"
    /\ \/ r.c \in cancelled
       \/ r.missed # None /\ <<r.c, "in", r.missed>> \notin discards
       \/ r.missed = None /\ slot[r.c]["in"].st # "closing"
    /\ Goto(a, "add")
    /\ OnlyProc


-----------------------------------------------------------------------------
(* Flush and Close *)

\* A fresh pair with the dial verdicts of the old one is published,
Flush(f) ==
    /\ proc[f].pc = "idle" /\ ~swapping
    /\ \/ /\ closed
          /\ Return(f, None)
          /\ UNCHANGED <<current, built, swapping, slot>>
       \/ /\ ~closed /\ built < MaxPairs
          /\ built' = built + 1 /\ current' = built + 1 /\ swapping' = TRUE
          /\ slot' = IF slot[current]["out"] = Active(Verdict)
                     THEN [slot EXCEPT ![built + 1]["out"] = Active(Verdict)] ELSE slot
          /\ Step(f, [proc[f] EXCEPT !.pc = "cancel", !.c = current])
    /\ UNCHANGED <<cancelled, shut, closed, closing, torn, toClose, connVars, dead>>

\* the old one is cancelled,
FlushCancel(f) ==
    /\ proc[f].pc = "cancel"
    /\ cancelled' = cancelled \cup {proc[f].c} /\ swapping' = FALSE
    /\ Goto(f, "walk")
    /\ UNCHANGED <<current, built, shut, closed, closing, torn, toClose, slot, connVars, dead, begun>>

\* The loaded connections of a pair, without those that another closer holds.
snapshot(c) == {slot[c][s].conn : s \in {t \in Sides : Hit(c, t)}} \cap Conns

\* Faulty variant: the walk does not mark what it reports.
FlushWalk_NoMarks(f) ==
    /\ proc[f].pc = "walk"
    /\ torn' = torn \cup {proc[f].c} /\ toClose' = toClose \cup snapshot(proc[f].c)
    /\ UNCHANGED marked
    /\ Step(f, [proc[f] EXCEPT !.pc = "notify", !.got = snapshot(proc[f].c)])
    /\ UNCHANGED <<current, built, swapping, cancelled, shut, closed, closing, slot,
                   made, home, watcher, events, discards, dead, begun>>

\* what it holds is marked,
FlushWalk(f) ==
    /\ proc[f].pc = "walk"
    /\ torn' = torn \cup {proc[f].c} /\ toClose' = toClose \cup snapshot(proc[f].c)
    /\ marked' = marked \cup snapshot(proc[f].c)
    /\ Step(f, [proc[f] EXCEPT !.pc = "notify", !.got = snapshot(proc[f].c)])
    /\ UNCHANGED <<current, built, swapping, cancelled, shut, closed, closing, slot,
                   made, home, watcher, events, discards, dead, begun>>

\* and reported, one by one, until the pool shuts down.
FlushNotify(f) ==
    LET r == proc[f] IN
    /\ r.pc = "notify"
    /\ \/ /\ r.got = {} \/ closing
          /\ Return(f, None) /\ UNCHANGED events
       \/ /\ ~closing
          /\ \E n \in r.got :
                /\ events' = [events EXCEPT ![n] = @ + 1]
                /\ Step(f, [r EXCEPT !.got = @ \ {n}])
    /\ UNCHANGED <<cacheVars, slot, made, home, watcher, marked, discards, dead, begun>>

\* closeCaches, in the background: the connections found are closed,
closePeer(n) ==
    /\ n \in toClose \ dead
    /\ dead' = dead \cup {n}
    /\ UNCHANGED <<cacheVars, slot, connVars, proc, begun>>

\* and each cache is marked closed and its entry closed; one that another closer holds, or a
\* load under way, is left to that goroutine.
closeCaches(c, s) ==
    /\ c \in torn /\ <<c, s>> \notin shut
    /\ shut' = shut \cup {<<c, s>>}
    /\ IF slot[c][s].st = "active"
       THEN Put(c, s, Empty) /\ dead' = dead \cup ({slot[c][s].conn} \cap Conns)
       ELSE UNCHANGED <<slot, dead>>
    /\ UNCHANGED <<current, built, swapping, cancelled, closed, closing, torn, toClose, connVars, proc, begun>>

Close ==
    /\ proc["close"].pc = "idle" /\ ~swapping
    /\ closed' = TRUE
    /\ Goto("close", "closing")
    /\ UNCHANGED <<current, built, swapping, cancelled, shut, closing, torn, toClose, slot, connVars, dead>>

closingCancel ==
    /\ proc["close"].pc = "closing"
    /\ closing' = TRUE
    /\ Goto("close", "cancel")
    /\ UNCHANGED <<current, built, swapping, cancelled, shut, closed, torn, toClose, slot, connVars, dead, begun>>

CloseCancel ==
    /\ proc["close"].pc = "cancel"
    /\ cancelled' = cancelled \cup {current} /\ torn' = torn \cup {current}
    /\ toClose' = toClose \cup snapshot(current)
    /\ Return("close", None)
    /\ UNCHANGED <<current, built, swapping, shut, closed, closing, slot, connVars, dead, begun>>

-----------------------------------------------------------------------------
(* Watchers, the GC of the caches, and the peer *)

Watch(n, step) == watcher' = [watcher EXCEPT ![n] = step]

\* evictOnClose: the connection has closed, or the pool shuts down; the load it came from is
\* waited for.
evictOnClose(n) ==
    /\ watcher[n] = "wait"
    /\ \/ closing /\ Watch(n, "done")
       \/ /\ ~closing /\ n \in dead
          /\ home[n] \in shut \/ \A g \in Getters : ~(proc[g].pc = "publish" /\ proc[g].got = n)
          /\ Watch(n, "evict")
    /\ UNCHANGED <<cacheVars, slot, made, home, marked, events, discards, dead, proc, begun>>

Evict(n) ==
    /\ watcher[n] = "evict"
    /\ closing \/ CanRemove(home[n][1], home[n][2], n)
    /\ RemoveSame(home[n][1], home[n][2], n)
    /\ Watch(n, "report")
    /\ UNCHANGED <<cacheVars, made, home, marked, events, discards, proc, begun>>

Report(n) ==
    /\ watcher[n] = "report"
    /\ events' = IF closing \/ n \in marked THEN events ELSE [events EXCEPT ![n] = @ + 1]
    /\ Watch(n, "done")
    /\ UNCHANGED <<cacheVars, slot, made, home, marked, discards, dead, proc, begun>>

\* The GC asks the object if it can close,
TryClose(c, s) ==
    /\ Hit(c, s)
    /\ Put(c, s, [slot[c][s] EXCEPT !.st = "closing"])
    /\ UNCHANGED <<cacheVars, connVars, dead, proc>>

\* and it does, or declines; in a closed cache it is closed all the same.
TryClosed(c, s) ==
    LET n == slot[c][s].conn IN
    /\ slot[c][s].st = "closing"
    /\ \/ Put(c, s, Empty) /\ dead' = dead \cup ({n} \cap Conns)
       \/ <<c, s>> \notin shut /\ Put(c, s, Active(n)) /\ UNCHANGED dead
    /\ UNCHANGED <<cacheVars, connVars, proc, begun>>

\* The connection breaks or the other side closes it.
PeerCloses(n) ==
    /\ n <= made /\ n \notin dead
    /\ dead' = dead \cup {n}
    /\ UNCHANGED <<cacheVars, slot, connVars, proc>>

-----------------------------------------------------------------------------

\* What the callers and the peer may do or not.
Begin ==
    /\ begun < MaxEvents /\ begun' = begun + 1
    /\ \/ \E g \in Callers : Call(g)
       \/ \E a \in Adders : Accept(a)
       \/ \E f \in Flushers : Flush(f)
       \/ Close
       \/ \E c \in Pairs, s \in Sides : TryClose(c, s)
       \/ \E n \in Conns : PeerCloses(n)

\* What goes on by itself.
Lookup(g) ==
    \/ fast(g) \/ fastOut(g) \/ fastCheck(g) \/ lookup(g) \/ getIncoming(g) \/ get(g) \/ load(g)
    \/ waitLoad(g) \/ CutShort(g) \/ Dialled(g) \/ DialFails(g) \/ DialRefused(g) \/ Publish(g) \/ loaded(g)
    \/ Redial(g) \/ pick(g) \/ picked(g) \/ Cancelled(g) \/ Recheck(g)

Continue ==
    \/ \E g \in Callers : Lookup(g)
    \/ \E a \in Adders : addIncoming(a) \/ AddPeer(a) \/ waitClosing(a)
    \/ \E d \in discards : discard(d)
    \/ \E f \in Flushers : FlushCancel(f) \/ FlushWalk(f) \/ FlushNotify(f)
    \/ \E n \in toClose : closePeer(n)
    \/ \E c \in Pairs, s \in Sides : closeCaches(c, s) \/ TryClosed(c, s)
    \/ closingCancel \/ CloseCancel
    \/ \E n \in Conns : evictOnClose(n) \/ Evict(n) \/ Report(n)

\* Every call has returned and every watcher of a closed connection is done.
Rest ==
    /\ \A g \in DOMAIN proc : proc[g].pc \in Over
    /\ \A n \in Conns : n \in dead /\ watcher[n] # "none" => watcher[n] = "done"
    /\ UNCHANGED vars

Next == Begin \/ Continue \/ Rest

Spec == Init /\ [][Next]_vars /\ WF_vars(Continue)

-----------------------------------------------------------------------------
(* Properties *)

\* Every instance of a connection is reported closed at most once, by the Flush that found it
\* in the pair or by its watcher (the invariants at the top of pool.go).
ReportedOnce == \A n \in Conns : events[n] <= 1

\* A lookup returns no connection of a pair that was replaced, however long it dialled or
\* waited, and ErrClosed reaches a caller only if the pool is closed, not if a Flush cut the
\* lookup short (lookup, fast and their comments).
ResultsAreCurrent ==
    [][\A g \in Callers : proc'[g].pc # proc[g].pc =>
           /\ proc'[g].pc = "ok" => home[proc'[g].got][1] = current
           /\ proc'[g].pc = "errClosed" => closed]_vars

\* A pooled connection that has closed is reported, and one in a pair that was replaced is
\* closed as well, in the cache or still being dialled, unless the pool shuts down.
ClosedIsReported ==
    \A n \in Conns :
        home[n][1] # None /\ (n \in dead \/ home[n][1] # current)
            ~> n \in dead /\ (events[n] = 1 \/ closing)

=============================================================================
