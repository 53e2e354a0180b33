----------------------------- MODULE PoolProofs -----------------------------
(***************************************************************************)
(* Proofs about Pool, for any number of callers, of goroutines that accept *)
(* or flush, of connections and of pairs: a connection is reported closed  *)
(* once at most, and a lookup returns what the current pair holds.         *)
(***************************************************************************)
EXTENDS Pool, TLAPS

-----------------------------------------------------------------------------
\* The inductive invariant.

Procs == Callers \cup Adders \cup Flushers \cup {"close"}
Reads == {"fastOut", "fastCheck", "getIncoming", "get", "waitLoad", "dial", "publish", "loaded",
          "evicting", "pickIn", "pickOut", "picked", "found", "recheck"}
Steps == Over \cup Reads \cup {"fast", "lookup", "add", "exists", "replacing",
                              "cancel", "walk", "notify", "closing"}
Record == [pc : Steps, c : Nat, missed : Nat, got : Nat \cup SUBSET Nat, cut : BOOLEAN, n : Nat]
Slot == [st : {"none", "loading", "active", "closing"}, conn : 0 .. MaxConns + 1]

\* Of which type the variables are.
TypeOK ==
  /\ built \in Pairs /\ current = built
  /\ cancelled \subseteq 1 .. built /\ torn \subseteq 1 .. built
  /\ \A x \in shut : x[1] \in torn
  /\ closed \in BOOLEAN /\ closing \in BOOLEAN
  /\ slot \in [Pairs -> [Sides -> Slot]]
  /\ made \in 0 .. MaxConns
  /\ home \in [Conns -> (0 .. MaxPairs) \X Sides]
  /\ watcher \in [Conns -> {"none", "wait", "evict", "report", "done"}]
  /\ events \in [Conns -> Nat]
  /\ proc \in [Procs -> Record]

\* A pair is cancelled or torn down once it was replaced, or the pool is closed.
PairInv ==
  /\ current \in cancelled \cup torn => closed
  /\ closing => closed
  /\ proc["close"].pc \in {"closing", "cancel"} => closed

\* Where a connection is: in the cache it was put into.
In(c, s, n) == slot[c][s].st \in {"active", "closing"} /\ slot[c][s].conn = n

HomeInv ==
  /\ \A c \in Pairs, s \in Sides, n \in Conns : In(c, s, n) => home[n] = <<c, s>>
  /\ \A n \in Conns : n > made => home[n][1] = None
  /\ \A n \in Conns : home[n][1] = None => watcher[n] = "none"
  /\ \A a \in Adders : proc[a].pc \in {"add", "exists", "replacing"} =>
       /\ proc[a].got \in 1 .. made /\ home[proc[a].got][1] = None
       /\ \A b \in Adders : /\ proc[b].pc \in {"add", "exists", "replacing"}
                            /\ proc[b].got = proc[a].got
                            => a = b

\* A watcher that has evicted its connection left nothing of it in a cache.
WatcherInv ==
  \A n \in Conns : watcher[n] \in {"report", "done"} /\ ~closing =>
      \A c \in Pairs, s \in Sides : In(c, s, n) => <<c, s>> \in shut

\* What a caller found is of the pair it reads, and ErrClosed tells of its end.
Holds == {"fastCheck", "publish", "loaded", "picked", "found", "recheck"}

Ended(c) == c \in torn \cup cancelled \/ closing

Fits(g, r) ==
  /\ r.pc \in Reads => r.c \in 1 .. built
  /\ r.pc \in Holds /\ r.got \in Conns => home[r.got][1] = r.c
  /\ r.pc \in {"loaded", "picked", "found", "recheck"} /\ r.got = ErrClosed => Ended(r.c)
  /\ r.pc = "recheck" /\ r.cut => r.c \in cancelled
  /\ r.pc \in {"getIncoming", "get", "dial", "publish", "loaded", "evicting"} => g \in Getters
  /\ r.pc = "publish" =>
       /\ r.got \in Conns /\ home[r.got] = <<r.c, "out">>
       /\ watcher[r.got] = "wait" \/ closing \/ <<r.c, "out">> \in shut

CallerInv == \A g \in Callers : Fits(g, proc[g])

\* A Flush reports what its pair held, which nobody else does.
Flushing(f) == proc[f].pc \in {"cancel", "walk", "notify"}

FlushInv ==
  /\ \A n \in marked : n \in Conns /\ home[n][1] \in torn
  /\ \A f \in Flushers :
       /\ Flushing(f) => proc[f].c \in 1 .. built - 1
       /\ proc[f].pc \in {"cancel", "walk"} => proc[f].c \notin torn
       /\ proc[f].pc = "notify" =>
            /\ proc[f].got \subseteq marked
            /\ \A n \in proc[f].got : home[n][1] = proc[f].c /\ (~closing => events[n] = 0)
       /\ \A e \in Flushers : Flushing(e) /\ Flushing(f) /\ proc[e].c = proc[f].c => e = f

\* What was not marked is reported by its watcher, at the end.
EventInv ==
  \A n \in Conns : /\ events[n] <= 1
                   /\ n \notin marked /\ watcher[n] # "done" => events[n] = 0

IInv == TypeOK /\ PairInv /\ HomeInv /\ WatcherInv /\ CallerInv /\ FlushInv /\ EventInv

-----------------------------------------------------------------------------
\* Initially.

\* The bounds are numbers.
LEMMA Bounds == MaxConns \in Nat /\ MaxPairs \in Nat /\ MaxPairs # 0 /\ 1 \in Pairs
<1>1. MaxConns \in Nat /\ MaxPairs \in Nat /\ MaxPairs # 0
  BY Zenon, PoolAssumption
<1> QED
  BY <1>1 DEF Pairs

\* The record of a goroutine that does nothing.
LEMMA InitRecord == Idle \in Record /\ Idle.pc = "idle"
<1>1. "idle" \in Steps /\ None \in Nat /\ 0 \in Nat /\ FALSE \in BOOLEAN
  BY Zenon DEF None, Steps, Over
<1> QED
  BY Zenon, <1>1 DEF Idle, Record

\* Nothing has happened yet.
LEMMA InitIInv == Init => IInv
<1> SUFFICES ASSUME Init PROVE IInv
  OBVIOUS
<1>1. /\ \A g \in Procs : proc[g] = Idle
      /\ \A c \in Pairs : \A s \in Sides : slot[c][s] = Empty
      /\ \A n \in Conns : home[n] = <<None, "in">> /\ events[n] = 0 /\ watcher[n] = "none"
      /\ built = 1 /\ current = 1 /\ made = 0 /\ marked = {} /\ torn = {} /\ cancelled = {} /\ shut = {}
      /\ closed = FALSE /\ closing = FALSE
  BY Zenon DEF Init, Procs
<1>2. Idle \in Record /\ Idle.pc = "idle"
  BY Zenon, InitRecord
<1>3. Empty \in Slot /\ Empty.st = "none"
  <2>1. "none" \in {"none", "loading", "active", "closing"} /\ None \in 0 .. MaxConns + 1
    BY Bounds DEF None
  <2> QED
    BY Zenon, <2>1 DEF Empty, Slot
<1>4. TypeOK
  <2>1. 1 \in Pairs /\ 0 \in 0 .. MaxConns /\ 0 \in Nat /\ <<None, "in">> \in (0 .. MaxPairs) \X Sides
    BY Bounds DEF None, Sides
  <2>2. slot \in [Pairs -> [Sides -> Slot]]
    BY Zenon, <1>3 DEF Init
  <2>3. proc \in [Procs -> Record]
    BY Zenon, <1>2 DEF Init, Procs
  <2>4. home \in [Conns -> (0 .. MaxPairs) \X Sides] /\ watcher \in [Conns -> {"none", "wait", "evict", "report", "done"}]
        /\ events \in [Conns -> Nat]
    BY Zenon, <2>1 DEF Init
  <2> QED
    BY Zenon, <1>1, <2>1, <2>2, <2>3, <2>4 DEF TypeOK
<1>5. PairInv
  BY Zenon, <1>1, <1>2 DEF PairInv, Procs
<1>6. HomeInv
  BY <1>1, <1>2, <1>3 DEF HomeInv, In, Procs, None
<1>7. WatcherInv
  BY Zenon, <1>1 DEF WatcherInv
<1>8. CallerInv
  BY Zenon, <1>1, <1>2 DEF CallerInv, Fits, Procs, Reads, Holds
<1>9. FlushInv
  BY Zenon, <1>1, <1>2 DEF FlushInv, Flushing, Procs
<1>10. EventInv
  BY <1>1 DEF EventInv
<1> QED
  BY Zenon, <1>4, <1>5, <1>6, <1>7, <1>8, <1>9, <1>10 DEF IInv

-----------------------------------------------------------------------------
\* What the steps leave alone.

\* The groups of goroutines share nobody.
LEMMA Apart ==
    /\ \A g \in Callers : g \in Procs /\ g \notin Adders /\ g \notin Flushers /\ g # "close"
    /\ \A a \in Adders : a \in Procs /\ a \notin Callers /\ a \notin Flushers /\ a # "close"
    /\ \A f \in Flushers : f \in Procs /\ f \notin Callers /\ f \notin Adders /\ f # "close"
    /\ "close" \in Procs /\ "close" \notin Callers /\ "close" \notin Adders /\ "close" \notin Flushers
  BY Zenon, PoolAssumption DEF Procs

\* A step of one goroutine.
LEMMA ProcSet ==
    ASSUME TypeOK, NEW g \in Procs, NEW r \in Record, Step(g, r)
    PROVE  /\ proc' \in [Procs -> Record] /\ proc'[g] = r
           /\ \A h \in Procs : h # g => proc'[h] = proc[h]
<1>1. proc \in [Procs -> Record]
  BY Zenon DEF TypeOK
<1> QED
  BY Zenon, <1>1 DEF Step

\* What never goes back.
Onward ==
  /\ built <= built' /\ torn \subseteq torn' /\ cancelled \subseteq cancelled' /\ shut \subseteq shut'
  /\ closing => closing'
  /\ \A n \in Conns : home[n][1] # None => home'[n] = home[n]

\* What a caller found stays true.
LEMMA FitsKept ==
    ASSUME NEW g, NEW r, Fits(g, r), Onward, built \in Nat, built' \in Nat,
           r.pc = "publish" /\ watcher[r.got] = "wait" =>
              watcher'[r.got] = "wait" \/ closing' \/ <<r.c, "out">> \in shut'
    PROVE  Fits(g, r)'
<1>1. r.c \in 1 .. built => r.c \in 1 .. built' /\ r.c # None
  BY DEF Onward, None
<1>2. r.pc \in Holds => r.pc \in Reads
  BY Zenon DEF Holds, Reads
<1>3. Ended(r.c) => Ended(r.c)'
  BY Zenon DEF Ended, Onward
<1>4. ASSUME r.pc \in Holds, r.got \in Conns
      PROVE  home'[r.got] = home[r.got]
  BY Zenon, <1>1, <1>2, <1>4 DEF Fits, Onward
<1>5. r.pc = "publish" => r.pc \in Holds
  BY Zenon DEF Holds
<1>6. r.pc \in Holds /\ r.got \in Conns => home'[r.got][1] = r.c
  BY Zenon, <1>4 DEF Fits
<1>7. r.pc = "publish" =>
       /\ r.got \in Conns /\ home'[r.got] = <<r.c, "out">>
       /\ watcher'[r.got] = "wait" \/ closing' \/ <<r.c, "out">> \in shut'
  BY Zenon, <1>4, <1>5 DEF Fits, Onward
<1> QED
  BY Zenon, <1>1, <1>3, <1>6, <1>7 DEF Fits, Onward

\* So it does for all callers in a step of somebody else.
LEMMA CallersKept ==
    ASSUME TypeOK, CallerInv, Onward, built' \in Nat, \A g \in Callers : proc'[g] = proc[g],
           \A g \in Callers : proc[g].pc = "publish" /\ watcher[proc[g].got] = "wait" =>
              watcher'[proc[g].got] = "wait" \/ closing' \/ <<proc[g].c, "out">> \in shut'
    PROVE  CallerInv'
<1>1. built \in Nat
  BY DEF TypeOK, Pairs
<1>2. ASSUME NEW g \in Callers PROVE Fits(g, proc[g])'
  <2>1. PICK r : r = proc[g]
    BY Zenon
  <2>2. Fits(g, r)
    BY Zenon, <2>1 DEF CallerInv
  <2>3. Fits(g, r)'
    BY Zenon, <1>1, <2>1, <2>2, FitsKept
  <2>4. proc'[g] = r
    BY Zenon, <2>1
  <2> QED
    BY Zenon, <2>3, <2>4
<1> QED
  BY Zenon, <1>2 DEF CallerInv

\* What the caches hold was put there.
LEMMA HomeKeptAt ==
    ASSUME HomeInv, UNCHANGED <<made, home>>,
           \A n \in Conns : watcher[n] = "none" => watcher'[n] = "none",
           \A c \in Pairs, s \in Sides, n \in Conns : In(c, s, n)' => home[n] = <<c, s>>,
           \A a \in Adders : proc'[a].pc \in {"add", "exists", "replacing"} =>
              proc[a].pc \in {"add", "exists", "replacing"} /\ proc'[a].got = proc[a].got
    PROVE  HomeInv'
<1>1. \A c \in Pairs, s \in Sides, n \in Conns : In(c, s, n)' => home'[n] = <<c, s>>
  BY Zenon DEF HomeInv
<1>2. \A n \in Conns : (n > made' => home'[n][1] = None) /\ (home'[n][1] = None => watcher'[n] = "none")
  BY Zenon DEF HomeInv
<1>3. ASSUME NEW a \in Adders, proc'[a].pc \in {"add", "exists", "replacing"}
      PROVE  /\ proc'[a].got \in 1 .. made' /\ home'[proc'[a].got][1] = None
             /\ \A b \in Adders : /\ proc'[b].pc \in {"add", "exists", "replacing"}
                                  /\ proc'[b].got = proc'[a].got
                                  => a = b
  BY <1>3 DEF HomeInv
<1> QED
  BY Zenon, <1>1, <1>2, <1>3 DEF HomeInv

\* No connection is put anywhere.
LEMMA HomeKept ==
    ASSUME HomeInv, UNCHANGED <<made, home>>,
           \A n \in Conns : watcher[n] = "none" => watcher'[n] = "none",
           \A c \in Pairs, s \in Sides, n \in Conns : In(c, s, n)' => In(c, s, n),
           \A a \in Adders : proc'[a].pc \in {"add", "exists", "replacing"} =>
              proc[a].pc \in {"add", "exists", "replacing"} /\ proc'[a].got = proc[a].got
    PROVE  HomeInv'
<1>1. \A c \in Pairs, s \in Sides, n \in Conns : In(c, s, n)' => home[n] = <<c, s>>
  BY Zenon DEF HomeInv
<1> QED
  BY Zenon, <1>1, HomeKeptAt

\* No connection comes back.
LEMMA WatcherKept ==
    ASSUME WatcherInv, shut \subseteq shut', closing => closing',
           \A c \in Pairs, s \in Sides, n \in Conns : In(c, s, n)' => In(c, s, n),
           \A n \in Conns : watcher'[n] \in {"report", "done"} => closing' \/ watcher[n] \in {"report", "done"}
    PROVE  WatcherInv'
  BY Zenon DEF WatcherInv

\* The Flushes go on as before.
LEMMA FlushKept ==
    ASSUME TypeOK, FlushInv, Onward, built' \in Nat, UNCHANGED marked,
           \A n \in marked : events'[n] = events[n],
           \A f \in Flushers : Flushing(f)' => proc'[f] = proc[f],
           \A f \in Flushers : proc[f].pc \in {"cancel", "walk"} => proc[f].c \notin torn'
    PROVE  FlushInv'
<1>0. built \in Nat /\ torn \subseteq 1 .. built
  BY DEF TypeOK, Pairs
<1>1. \A n \in marked : n \in Conns /\ home[n][1] # None /\ home'[n] = home[n]
  BY <1>0 DEF FlushInv, Onward, None
<1>2. \A n \in marked' : n \in Conns /\ home'[n][1] \in torn'
  BY Zenon, <1>1 DEF FlushInv, Onward
<1>3. ASSUME NEW f \in Flushers
      PROVE  /\ Flushing(f)' => proc'[f].c \in 1 .. built' - 1
             /\ proc'[f].pc \in {"cancel", "walk"} => proc'[f].c \notin torn'
             /\ proc'[f].pc = "notify" =>
                  /\ proc'[f].got \subseteq marked'
                  /\ \A n \in proc'[f].got : home'[n][1] = proc'[f].c /\ (~closing' => events'[n] = 0)
             /\ \A e \in Flushers : Flushing(e)' /\ Flushing(f)' /\ proc'[e].c = proc'[f].c => e = f
  <2>1. \A e \in Flushers : Flushing(e)' => Flushing(e)
    BY Zenon DEF Flushing
  <2>0. Flushing(f)' => proc'[f].pc = proc[f].pc /\ proc'[f].c = proc[f].c /\ proc'[f].got = proc[f].got
    BY Zenon
  <2>2. Flushing(f) => proc[f].c \in 1 .. built' - 1
    BY <1>0 DEF FlushInv, Onward
  <2>3. ASSUME proc[f].pc = "notify"
        PROVE  /\ proc[f].got \subseteq marked
               /\ \A n \in proc[f].got : home'[n][1] = proc[f].c /\ (~closing' => events'[n] = 0)
    <3>1. /\ proc[f].got \subseteq marked
          /\ \A n \in proc[f].got : home[n][1] = proc[f].c /\ (~closing => events[n] = 0)
      BY Zenon, <2>3 DEF FlushInv
    <3>2. closing => closing'
      BY Zenon DEF Onward
    <3>3. \A n \in proc[f].got : home'[n] = home[n] /\ events'[n] = events[n]
      BY Zenon, <1>1, <3>1
    <3> QED
      BY <3>1, <3>2, <3>3
  <2>4. proc'[f].pc \in {"cancel", "walk", "notify"} <=> Flushing(f)'
    BY Zenon DEF Flushing
  <2>5. proc'[f].pc \in {"cancel", "walk"} \/ proc'[f].pc = "notify" => Flushing(f)'
    BY Zenon, <2>4
  <2>6. \A e \in Flushers : Flushing(e)' /\ Flushing(f)' /\ proc'[e].c = proc'[f].c => e = f
    BY Zenon, <2>1 DEF FlushInv
  <2> QED
    BY Zenon, <2>0, <2>1, <2>2, <2>3, <2>5, <2>6
<1> QED
  BY Zenon, <1>2, <1>3 DEF FlushInv

\* A caller goes on alone.
LEMMA CallerStep ==
    ASSUME IInv, NEW g \in Callers, NEW r \in Record, Step(g, r), Fits(g, r),
           UNCHANGED <<current, built, cancelled, shut, slot, closed, closing, torn,
                       made, home, watcher, marked, events>>
    PROVE  IInv'
<1> USE DEF IInv
<1>1. /\ proc' \in [Procs -> Record] /\ proc'[g] = r
      /\ \A h \in Procs : h # g => proc'[h] = proc[h]
  BY Zenon, ProcSet, Apart
<1>2. /\ \A h \in Callers : h # g => proc'[h] = proc[h]
      /\ \A a \in Adders : proc'[a] = proc[a]
      /\ \A f \in Flushers : proc'[f] = proc[f]
      /\ proc'["close"] = proc["close"]
  BY Zenon, <1>1, Apart
<1>3. TypeOK'
  BY Zenon, <1>1 DEF TypeOK
<1>4. PairInv'
  BY Zenon, <1>2 DEF PairInv
<1>5. \A c \in Pairs, s \in Sides, n \in Conns : In(c, s, n)' => In(c, s, n)
  BY Zenon DEF In
<1>6. HomeInv'
  BY Zenon, <1>2, <1>5, HomeKept
<1>7. WatcherInv'
  BY Zenon, <1>5, WatcherKept
<1>8. Onward /\ built \in Nat /\ built' \in Nat
  BY DEF Onward, TypeOK, Pairs
<1>9. CallerInv'
  <2>1. ASSUME NEW h \in Callers PROVE Fits(h, proc[h])'
    <3>1. PICK x : x = proc'[h]
      BY Zenon
    <3>2. Fits(h, x)
      BY Zenon, <1>1, <1>2, <3>1 DEF CallerInv
    <3>3. Fits(h, x)'
      BY Zenon, <1>8, <3>2, FitsKept
    <3> QED
      BY Zenon, <3>1, <3>3
  <2> QED
    BY Zenon, <2>1 DEF CallerInv
<1>10. FlushInv'
  <2>1. \A f \in Flushers : proc[f].pc \in {"cancel", "walk"} => proc[f].c \notin torn'
    BY Zenon DEF FlushInv
  <2> QED
    BY Zenon, <1>2, <1>8, <2>1, FlushKept
<1>11. EventInv'
  BY Zenon DEF EventInv
<1> QED
  BY Zenon, <1>3, <1>4, <1>6, <1>7, <1>9, <1>10, <1>11

-----------------------------------------------------------------------------
\* Get and Pick, as long as they only read.

\* What these steps change are the steps of a caller, and removals in the background.
Reading == UNCHANGED <<current, built, cancelled, shut, slot, closed, closing, torn,
                       made, home, watcher, marked, events>>

\* A caller goes on without having found anything.
LEMMA MoveStep ==
    ASSUME IInv, NEW g \in Callers, NEW r \in Record, Step(g, r), Reading, r.pc \notin Holds,
           r.pc \in Reads => r.c \in 1 .. built,
           r.pc \in {"getIncoming", "get", "dial", "evicting"} => g \in Getters
    PROVE  IInv'
<1>1. r.pc \notin {"fastCheck", "publish", "loaded", "picked", "found", "recheck"}
  BY Zenon DEF Holds
<1>2. Fits(g, r)
  BY Zenon, <1>1 DEF Fits, Holds
<1> QED
  BY Zenon, <1>2, CallerStep DEF Reading

\* The call is over.
LEMMA ReturnStep ==
    ASSUME IInv, NEW g \in Callers, NEW n \in Nat \cup SUBSET Nat, Return(g, n), Reading
    PROVE  IInv'
<1>1. PICK pc \in Over : Step(g, [Idle EXCEPT !.pc = pc, !.got = n])
  BY Zenon DEF Return, Over
<1>2. PICK r : r = [Idle EXCEPT !.pc = pc, !.got = n]
  BY Zenon
<1>3. Idle \in Record /\ pc \in Steps
  BY Zenon, InitRecord DEF Steps
<1>4. r \in Record /\ r.pc = pc
  BY Zenon, <1>2, <1>3 DEF Record
<1>5. pc \notin Holds /\ pc \notin Reads /\ pc \notin {"getIncoming", "get", "dial", "evicting"}
  BY Zenon DEF Over, Holds, Reads
<1>6. Step(g, r)
  BY Zenon, <1>1, <1>2
<1> QED
  BY Zenon, <1>4, <1>5, <1>6, MoveStep

\* The caller has found n.
LEMMA FoundStep ==
    ASSUME IInv, NEW g \in Callers, NEW n \in Nat \cup SUBSET Nat, Found(g, n), Reading,
           proc[g].c \in 1 .. built,
           n \in Conns => home[n][1] = proc[g].c,
           n = ErrClosed => Ended(proc[g].c)
    PROVE  IInv'
<1>1. PICK r : r = [proc[g] EXCEPT !.pc = "found", !.got = n]
  BY Zenon
<1>2. proc[g] \in Record /\ "found" \in Steps
  BY Zenon, Apart DEF IInv, TypeOK, Steps, Reads
<1>3. r \in Record /\ r.pc = "found" /\ r.got = n /\ r.c = proc[g].c
  BY Zenon, <1>1, <1>2 DEF Record
<1>4. Fits(g, r)
  BY Zenon, <1>3 DEF Fits
<1>5. Step(g, r)
  BY Zenon, <1>1 DEF Found
<1> QED
  BY Zenon, <1>3, <1>4, <1>5, CallerStep DEF Reading

\* What a cache holds was put there.
LEMMA HitHome ==
    ASSUME TypeOK, HomeInv, NEW c \in Pairs, NEW s \in Sides, Hit(c, s), NEW n, n = slot[c][s].conn
    PROVE  n \in Nat /\ n # ErrClosed /\ (n \in Conns => home[n][1] = c)
<1>1. slot[c][s] \in Slot
  BY Zenon DEF TypeOK
<1>2. n \in Nat /\ n # ErrClosed
  BY <1>1, Bounds DEF Slot, ErrClosed
<1>3. In(c, s, n)
  BY Zenon DEF Hit, In
<1>4. n \in Conns => home[n] = <<c, s>>
  BY Zenon, <1>3 DEF HomeInv
<1> QED
  BY <1>2, <1>4

\* The record of a caller.
LEMMA CallerTyped ==
    ASSUME IInv, NEW g \in Callers
    PROVE  /\ proc[g] \in Record /\ Fits(g, proc[g])
           /\ proc[g].c \in Nat /\ current \in 1 .. built /\ 1 .. built \subseteq Pairs
<1>1. proc[g] \in Record /\ Fits(g, proc[g])
  BY Zenon, Apart DEF IInv, TypeOK, CallerInv
<1>2. current \in 1 .. built /\ 1 .. built \subseteq Pairs
  BY Bounds DEF IInv, TypeOK, Pairs
<1> QED
  BY Zenon, <1>1, <1>2 DEF Record

\* A caller that reads a pair.
LEMMA Reader ==
    ASSUME IInv, NEW g \in Callers, proc[g].pc \in Reads
    PROVE  proc[g] \in Record /\ Fits(g, proc[g]) /\ proc[g].c \in 1 .. built /\ proc[g].c \in Pairs
<1>1. proc[g] \in Record /\ Fits(g, proc[g]) /\ 1 .. built \subseteq Pairs
  BY Zenon, CallerTyped
<1>2. proc[g].c \in 1 .. built
  BY Zenon, <1>1 DEF Fits
<1> QED
  BY Zenon, <1>1, <1>2

\* What it finds in a cache of the pair was put there.
LEMMA HitCaller ==
    ASSUME IInv, NEW g \in Callers, proc[g].c \in Pairs, NEW s \in Sides, Hit(proc[g].c, s),
           NEW n, n = slot[proc[g].c][s].conn
    PROVE  n \in Nat /\ n # ErrClosed /\ (n \in Conns => home[n][1] = proc[g].c)
<1>1. PICK c : c = proc[g].c
  BY Zenon
<1>2. c \in Pairs /\ Hit(c, s) /\ n = slot[c][s].conn /\ TypeOK /\ HomeInv
  BY Zenon, <1>1 DEF IInv
<1>3. n \in Nat /\ n # ErrClosed /\ (n \in Conns => home[n][1] = c)
  BY Zenon, <1>2, HitHome
<1> QED
  BY Zenon, <1>1, <1>3

\* A caller begins.
LEMMA CallStep == ASSUME IInv, NEW g \in Callers, Call(g) PROVE IInv'
<1>1. PICK r : r = [Idle EXCEPT !.pc = "fast"]
  BY Zenon
<1>2. "fast" \in Steps /\ "fast" \notin Reads /\ "fast" \notin Holds
  BY Zenon DEF Steps, Reads, Holds
<1>3. r \in Record /\ r.pc = "fast"
  BY Zenon, <1>1, <1>2, InitRecord DEF Record
<1>4. Step(g, r) /\ Reading
  BY Zenon, <1>1 DEF Call, Reading, cacheVars, connVars
<1> QED
  BY Zenon, <1>2, <1>3, <1>4, MoveStep

\* The first look, at the current pair.
LEMMA FastStep == ASSUME IInv, NEW g \in Callers, fast(g) PROVE IInv'
<1>1. proc[g] \in Record /\ current \in 1 .. built /\ current \in Pairs /\ "in" \in Sides
  BY Zenon, CallerTyped DEF Sides
<1>2. Reading
  BY Zenon DEF fast, OnlyProc, Reading, cacheVars, connVars
<1>3. PICK pc, got, m : /\ pc = IF Hit(current, "in") THEN "fastCheck" ELSE "fastOut"
                        /\ got = IF Hit(current, "in") THEN slot[current]["in"].conn ELSE None
                        /\ m = IF Miss(current, "in") THEN current ELSE None
  BY Zenon
<1>4. PICK r : r = [proc[g] EXCEPT !.c = current, !.pc = pc, !.got = got, !.missed = m]
  BY Zenon
<1>5. Step(g, r)
  BY Zenon, <1>3, <1>4 DEF fast
<1>6. m \in Nat /\ current \in Nat
  BY <1>1, <1>3 DEF None
<1>7. CASE Hit(current, "in")
  <2>1. got \in Nat /\ got # ErrClosed /\ (got \in Conns => home[got][1] = current)
    BY Zenon, <1>1, <1>3, <1>7, HitHome DEF IInv
  <2>2. r \in Record /\ r.pc = "fastCheck" /\ r.got = got /\ r.c = current
    BY Zenon, <1>1, <1>3, <1>4, <1>6, <1>7, <2>1 DEF Record, Steps, Reads
  <2>3. Fits(g, r)
    BY Zenon, <1>1, <2>1, <2>2 DEF Fits
  <2> QED
    BY Zenon, <1>2, <1>5, <2>2, <2>3, CallerStep DEF Reading
<1>8. CASE ~Hit(current, "in")
  <2>1. r \in Record /\ r.pc = "fastOut" /\ r.c = current
    BY Zenon, <1>1, <1>3, <1>4, <1>6, <1>8 DEF Record, Steps, Reads, None
  <2>2. r.pc \notin Holds /\ r.pc \notin {"getIncoming", "get", "dial", "evicting"}
    BY Zenon, <2>1 DEF Holds
  <2> QED
    BY Zenon, <1>1, <1>2, <1>5, <2>1, <2>2, MoveStep
<1> QED
  BY Zenon, <1>7, <1>8

\* A caller goes on with the pair it reads.
LEMMA GotoStep ==
    ASSUME IInv, NEW g \in Callers, NEW pc \in Steps, Goto(g, pc), Reading, pc \notin Holds,
           pc \in Reads => proc[g].c \in 1 .. built,
           pc \in {"getIncoming", "get", "dial", "evicting"} => g \in Getters
    PROVE  IInv'
<1>1. PICK r : r = [proc[g] EXCEPT !.pc = pc]
  BY Zenon
<1>2. proc[g] \in Record
  BY Zenon, CallerTyped
<1>3. r \in Record /\ r.pc = pc /\ r.c = proc[g].c
  BY Zenon, <1>1, <1>2 DEF Record
<1>4. Step(g, r)
  BY Zenon, <1>1 DEF Goto
<1> QED
  BY Zenon, <1>3, <1>4, MoveStep

\* Then at its other cache.
LEMMA FastOutStep == ASSUME IInv, NEW g \in Callers, fastOut(g) PROVE IInv'
<1>1. proc[g] \in Record /\ proc[g].pc = "fastOut" /\ proc[g].c \in 1 .. built /\ proc[g].c \in Pairs /\ "out" \in Sides
  <2>1. proc[g].pc = "fastOut"
    BY Zenon DEF fastOut
  <2>2. "fastOut" \in Reads /\ "out" \in Sides
    BY Zenon DEF Reads, Sides
  <2> QED
    BY Zenon, <2>1, <2>2, Reader
<1>2. Reading
  BY Zenon DEF fastOut, OnlyProc, Reading, cacheVars, connVars
<1>3. "lookup" \in Steps /\ "lookup" \notin Holds /\ "lookup" \notin Reads
      /\ "lookup" \notin {"getIncoming", "get", "dial", "evicting"} /\ "fastCheck" \in Steps /\ None \in Nat
  BY Zenon DEF Steps, Holds, Reads, None
<1>4. ASSUME Hit(proc[g].c, "out"),
             Step(g, [proc[g] EXCEPT !.pc = "fastCheck", !.got = slot[proc[g].c]["out"].conn, !.missed = None])
      PROVE  IInv'
  <2>1. PICK got : got = slot[proc[g].c]["out"].conn
    BY Zenon
  <2>2. got \in Nat /\ got # ErrClosed /\ (got \in Conns => home[got][1] = proc[g].c)
    BY Zenon, <1>1, <1>4, <2>1, HitCaller
  <2>3. PICK r : r = [proc[g] EXCEPT !.pc = "fastCheck", !.got = got, !.missed = None]
    BY Zenon
  <2>4. r \in Record /\ r.pc = "fastCheck" /\ r.got = got /\ r.c = proc[g].c
    BY Zenon, <1>1, <1>3, <2>2, <2>3 DEF Record
  <2>5. Fits(g, r)
    BY Zenon, <1>1, <2>2, <2>4 DEF Fits
  <2>6. Step(g, r)
    BY Zenon, <1>4, <2>1, <2>3
  <2> QED
    BY Zenon, <1>2, <2>4, <2>5, <2>6, CallerStep DEF Reading
<1>5. ASSUME Step(g, [proc[g] EXCEPT !.pc = "lookup", !.missed = None])
      PROVE  IInv'
  <2>1. PICK r : r = [proc[g] EXCEPT !.pc = "lookup", !.missed = None]
    BY Zenon
  <2>2. r \in Record /\ r.pc = "lookup"
    BY Zenon, <1>1, <1>3, <2>1 DEF Record
  <2>3. Step(g, r)
    BY Zenon, <1>5, <2>1
  <2> QED
    BY Zenon, <1>2, <1>3, <2>2, <2>3, MoveStep
<1>6. ASSUME Goto(g, "lookup") PROVE IInv'
  BY Zenon, <1>2, <1>3, <1>6, GotoStep
<1>7. ASSUME Return(g, None) PROVE IInv'
  BY Zenon, <1>2, <1>3, <1>7, ReturnStep
<1> QED
  BY Zenon, <1>4, <1>5, <1>6, <1>7 DEF fastOut

\* A cache is closed when its pair is torn down.
LEMMA ShutEnded ==
    ASSUME TypeOK, NEW c, NEW s, <<c, s>> \in shut
    PROVE  c \in torn /\ Ended(c)
<1>1. PICK x : x = <<c, s>>
  BY Zenon
<1>2. x[1] \in torn
  BY Zenon, <1>1 DEF TypeOK
<1>3. x[1] = c
  BY Zenon, <1>1
<1> QED
  BY Zenon, <1>2, <1>3 DEF Ended

\* The connection counts if the pair is still the current one.
LEMMA FastCheckStep == ASSUME IInv, NEW g \in Callers, fastCheck(g) PROVE IInv'
<1>1. proc[g] \in Record
  BY Zenon, CallerTyped
<1>2. Reading
  BY Zenon DEF fastCheck, OnlyProc, Reading, cacheVars, connVars
<1>3. CASE proc[g].got \in Conns \ dead /\ current = proc[g].c
  <2>1. PICK n : n = proc[g].got
    BY Zenon
  <2>2. Return(g, n)
    BY Zenon, <1>3, <2>1 DEF fastCheck
  <2>3. n \in Nat
    BY <1>3, <2>1, Bounds DEF Conns
  <2> QED
    BY Zenon, <1>2, <2>2, <2>3, ReturnStep
<1>4. CASE ~(proc[g].got \in Conns \ dead /\ current = proc[g].c)
  <2>1. PICK r : r = [proc[g] EXCEPT !.pc = "lookup", !.got = None]
    BY Zenon
  <2>2. r \in Record /\ r.pc = "lookup"
    BY Zenon, <1>1, <2>1 DEF Record, Steps, None
  <2>3. Step(g, r)
    BY Zenon, <1>4, <2>1 DEF fastCheck
  <2>4. "lookup" \notin Holds /\ "lookup" \notin Reads /\ "lookup" \notin {"getIncoming", "get", "dial", "evicting"}
    BY Zenon DEF Holds, Reads
  <2> QED
    BY Zenon, <1>2, <2>2, <2>3, <2>4, MoveStep
<1> QED
  BY Zenon, <1>3, <1>4

\* The pair is read.
LEMMA LookupStep == ASSUME IInv, NEW g \in Callers, lookup(g) PROVE IInv'
<1>1. proc[g] \in Record /\ current \in 1 .. built
  BY Zenon, CallerTyped
<1>2. Reading
  BY Zenon DEF lookup, OnlyProc, Reading, cacheVars, connVars
<1>3. PICK pc : pc = IF g \in Getters THEN "getIncoming" ELSE "pickIn"
  BY Zenon
<1>4. PICK r : r = [proc[g] EXCEPT !.c = current, !.got = None, !.pc = pc]
  BY Zenon
<1>5. pc \in Steps /\ pc \notin Holds /\ (pc \in {"getIncoming", "get", "dial", "evicting"} => g \in Getters)
  BY Zenon, <1>3 DEF Steps, Holds, Reads
<1>6. r \in Record /\ r.pc = pc /\ r.c = current
  <2>1. current \in Nat /\ None \in Nat
    BY <1>1 DEF None
  <2> QED
    BY Zenon, <1>1, <1>4, <1>5, <2>1 DEF Record
<1>7. Step(g, r)
  BY Zenon, <1>3, <1>4 DEF lookup
<1> QED
  BY Zenon, <1>1, <1>2, <1>5, <1>6, <1>7, MoveStep

\* What a cache of the pair holds, or came of its load, is the result, or is evicted.
LEMMA LiveStep ==
    ASSUME IInv, NEW g \in Getters, NEW s, NEW n \in Nat \cup SUBSET Nat, live(g, s, n), Reading,
           proc[g].c \in 1 .. built,
           n \in Conns => home[n][1] = proc[g].c, n = ErrClosed => Ended(proc[g].c)
    PROVE  IInv'
<1>0. g \in Callers
  BY Zenon DEF Callers
<1>1. proc[g] \in Record
  BY Zenon, <1>0, CallerTyped
<1>2. CASE n \in dead
  <2>1. PICK r : r = [proc[g] EXCEPT !.pc = "evicting", !.got = n]
    BY Zenon
  <2>2. r \in Record /\ r.pc = "evicting" /\ r.c = proc[g].c
    BY Zenon, <1>1, <2>1 DEF Record, Steps, Reads
  <2>3. Step(g, r)
    BY Zenon, <1>2, <2>1 DEF live
  <2>4. "evicting" \notin Holds
    BY Zenon DEF Holds
  <2> QED
    BY Zenon, <1>0, <2>2, <2>3, <2>4, MoveStep
<1>3. CASE n \notin dead
  <2>1. PICK m : m = IF n = Verdict THEN None ELSE n
    BY Zenon
  <2>2. None \in Nat /\ None \notin Conns /\ None # ErrClosed
    BY Bounds DEF None, Conns, ErrClosed
  <2>3. m \in Nat \cup SUBSET Nat /\ (m \in Conns => home[m][1] = proc[g].c) /\ (m = ErrClosed => Ended(proc[g].c))
    BY Zenon, <2>1, <2>2
  <2>4. Found(g, m)
    BY Zenon, <1>3, <2>1 DEF live
  <2> QED
    BY Zenon, <1>0, <2>2, <2>3, <2>4, FoundStep
<1> QED
  BY Zenon, <1>2, <1>3

\* The incoming cache.
LEMMA GetIncomingStep == ASSUME IInv, NEW g \in Callers, getIncoming(g) PROVE IInv'
<1>1. proc[g].pc = "getIncoming"
  BY Zenon DEF getIncoming
<1>2. "getIncoming" \in Reads /\ "in" \in Sides /\ "get" \in Steps /\ "get" \notin Holds /\ None \in Nat
  BY Zenon DEF Reads, Sides, Steps, Holds, None
<1>3. proc[g] \in Record /\ proc[g].c \in 1 .. built /\ proc[g].c \in Pairs /\ Fits(g, proc[g])
  BY Zenon, <1>1, <1>2, Reader
<1>4. g \in Getters
  BY Zenon, <1>1, <1>3 DEF Fits
<1>5. Reading
  BY Zenon DEF getIncoming, Reading, cacheVars
<1>6. ASSUME Step(g, [proc[g] EXCEPT !.pc = "get", !.missed = None]) PROVE IInv'
  <2>1. PICK r : r = [proc[g] EXCEPT !.pc = "get", !.missed = None]
    BY Zenon
  <2>2. r \in Record /\ r.pc = "get" /\ r.c = proc[g].c
    BY Zenon, <1>2, <1>3, <2>1 DEF Record
  <2>3. Step(g, r)
    BY Zenon, <1>6, <2>1
  <2> QED
    BY Zenon, <1>2, <1>3, <1>4, <1>5, <2>2, <2>3, MoveStep
<1>7. ASSUME Hit(proc[g].c, "in"), live(g, "in", slot[proc[g].c]["in"].conn) PROVE IInv'
  <2>1. PICK n : n = slot[proc[g].c]["in"].conn
    BY Zenon
  <2>2. n \in Nat /\ n # ErrClosed /\ (n \in Conns => home[n][1] = proc[g].c)
    BY Zenon, <1>2, <1>3, <1>7, <2>1, HitCaller
  <2>3. live(g, "in", n)
    BY Zenon, <1>7, <2>1
  <2> QED
    BY Zenon, <1>3, <1>4, <1>5, <2>2, <2>3, LiveStep
<1>8. ASSUME proc[g].c \in cancelled, Found(g, ErrClosed) PROVE IInv'
  <2>1. ErrClosed \in Nat /\ ErrClosed \notin Conns
    BY Bounds DEF ErrClosed, Conns
  <2>2. Ended(proc[g].c)
    BY Zenon, <1>8 DEF Ended
  <2> QED
    BY Zenon, <1>3, <1>5, <1>8, <2>1, <2>2, FoundStep
<1>9. ASSUME Goto(g, "get") PROVE IInv'
  BY Zenon, <1>2, <1>3, <1>4, <1>5, <1>9, GotoStep
<1> QED
  BY Zenon, <1>6, <1>7, <1>8, <1>9 DEF getIncoming

\* The outgoing one.
LEMMA GetStep == ASSUME IInv, NEW g \in Callers, get(g) PROVE IInv'
<1>1. proc[g].pc = "get"
  BY Zenon DEF get
<1>2. "get" \in Reads /\ "out" \in Sides
  BY Zenon DEF Reads, Sides
<1>3. proc[g] \in Record /\ proc[g].c \in 1 .. built /\ proc[g].c \in Pairs /\ Fits(g, proc[g])
  BY Zenon, <1>1, <1>2, Reader
<1>4. g \in Getters
  BY Zenon, <1>1, <1>3 DEF Fits
<1>5. Reading
  BY Zenon DEF get, Reading, cacheVars
<1>6. ASSUME <<proc[g].c, "out">> \in shut, Found(g, ErrClosed) PROVE IInv'
  <2>1. ErrClosed \in Nat /\ ErrClosed \notin Conns
    BY Bounds DEF ErrClosed, Conns
  <2>2. Ended(proc[g].c)
    BY Zenon, <1>6, ShutEnded DEF IInv
  <2> QED
    BY Zenon, <1>3, <1>5, <1>6, <2>1, <2>2, FoundStep
<1>7. ASSUME Hit(proc[g].c, "out"), live(g, "out", slot[proc[g].c]["out"].conn) PROVE IInv'
  <2>1. PICK n : n = slot[proc[g].c]["out"].conn
    BY Zenon
  <2>2. n \in Nat /\ n # ErrClosed /\ (n \in Conns => home[n][1] = proc[g].c)
    BY Zenon, <1>2, <1>3, <1>7, <2>1, HitCaller
  <2>3. live(g, "out", n)
    BY Zenon, <1>7, <2>1
  <2> QED
    BY Zenon, <1>3, <1>4, <1>5, <2>2, <2>3, LiveStep
<1> QED
  BY Zenon, <1>6, <1>7 DEF get

\* None and ErrClosed are results and no connections.
LEMMA Errors == /\ None \in Nat /\ None \notin Conns /\ None # ErrClosed
                /\ ErrClosed \in Nat /\ ErrClosed \notin Conns
  BY Bounds DEF None, ErrClosed, Conns

\* The value that was loaded.
LEMMA LoadedStep == ASSUME IInv, NEW g \in Callers, loaded(g) PROVE IInv'
<1>1. proc[g].pc = "loaded"
  BY Zenon DEF loaded
<1>2. "loaded" \in Reads /\ "loaded" \in Holds
  BY Zenon DEF Reads, Holds
<1>3. proc[g] \in Record /\ proc[g].c \in 1 .. built /\ Fits(g, proc[g])
  BY Zenon, <1>1, <1>2, Reader
<1>4. PICK n : n = proc[g].got
  BY Zenon
<1>5. n \in Nat \cup SUBSET Nat
  BY Zenon, <1>3, <1>4 DEF Record
<1>6. g \in Getters /\ (n \in Conns => home[n][1] = proc[g].c) /\ (n = ErrClosed => Ended(proc[g].c))
  BY Zenon, <1>1, <1>2, <1>3, <1>4 DEF Fits
<1>7. Reading /\ live(g, "out", n)
  BY Zenon, <1>4 DEF loaded, Reading, cacheVars
<1> QED
  BY Zenon, <1>3, <1>5, <1>6, <1>7, LiveStep

\* A load that another caller has begun is waited for.
LEMMA WaitLoadStep == ASSUME IInv, NEW g \in Callers, waitLoad(g) PROVE IInv'
<1>1. proc[g].pc \in {"get", "pickOut"}
  BY Zenon DEF waitLoad
<1>2. proc[g].pc \in Reads
  BY Zenon, <1>1 DEF Reads
<1>3. proc[g].c \in 1 .. built
  BY Zenon, <1>2, Reader
<1>4. "waitLoad" \in Steps /\ "waitLoad" \notin Holds /\ "waitLoad" \notin {"getIncoming", "get", "dial", "evicting"}
  BY Zenon DEF Steps, Holds, Reads
<1>5. Reading /\ Goto(g, "waitLoad")
  BY Zenon DEF waitLoad, OnlyProc, Reading, cacheVars, connVars
<1> QED
  BY Zenon, <1>3, <1>4, <1>5, GotoStep

\* A wait ends with the pair.
LEMMA CutShortStep == ASSUME IInv, NEW g \in Callers, CutShort(g) PROVE IInv'
<1>1. proc[g].pc \in {"waitLoad", "evicting", "get"}
  BY Zenon DEF CutShort, Waits
<1>2. proc[g].pc \in Reads
  BY Zenon, <1>1 DEF Reads
<1>3. proc[g].c \in 1 .. built
  BY Zenon, <1>2, Reader
<1>4. Reading /\ Found(g, None)
  BY Zenon DEF CutShort, OnlyProc, Reading, cacheVars, connVars
<1> QED
  BY Zenon, <1>3, <1>4, Errors, FoundStep

\* The eviction is over.
LEMMA RedialStep == ASSUME IInv, NEW g \in Callers, Redial(g) PROVE IInv'
<1>1. proc[g].pc = "evicting"
  BY Zenon DEF Redial
<1>2. "evicting" \in Reads /\ "getIncoming" \in Steps /\ "getIncoming" \notin Holds
  BY Zenon DEF Reads, Steps, Holds
<1>3. proc[g] \in Record /\ proc[g].c \in 1 .. built /\ Fits(g, proc[g])
  BY Zenon, <1>1, <1>2, Reader
<1>4. g \in Getters
  BY Zenon, <1>1, <1>3 DEF Fits
<1>5. Reading
  BY Zenon DEF Redial, OnlyProc, Reading, cacheVars, connVars
<1>6. ASSUME Found(g, None) PROVE IInv'
  BY Zenon, <1>3, <1>5, <1>6, Errors, FoundStep
<1>7. ASSUME closing, Found(g, ErrClosed) PROVE IInv'
  <2>1. Ended(proc[g].c)
    BY Zenon, <1>7 DEF Ended
  <2> QED
    BY Zenon, <1>3, <1>5, <1>7, <2>1, Errors, FoundStep
<1>8. ASSUME Step(g, [proc[g] EXCEPT !.pc = "getIncoming", !.got = None]) PROVE IInv'
  <2>1. PICK r : r = [proc[g] EXCEPT !.pc = "getIncoming", !.got = None]
    BY Zenon
  <2>2. r \in Record /\ r.pc = "getIncoming" /\ r.c = proc[g].c
    BY Zenon, <1>2, <1>3, <2>1, Errors DEF Record
  <2>3. Step(g, r)
    BY Zenon, <1>8, <2>1
  <2> QED
    BY Zenon, <1>2, <1>3, <1>4, <1>5, <2>2, <2>3, MoveStep
<1> QED
  BY Zenon, <1>6, <1>7, <1>8 DEF Redial

\* Pick looks at a cache.
LEMMA PickStep == ASSUME IInv, NEW g \in Callers, pick(g) PROVE IInv'
<1>1. PICK s : s = IF proc[g].pc = "pickIn" THEN "in" ELSE "out"
  BY Zenon
<1>2. PICK n : n = IF Hit(proc[g].c, s) THEN slot[proc[g].c][s].conn ELSE None
  BY Zenon
<1>3. /\ proc[g].pc \in {"pickIn", "pickOut"}
      /\ \/ n \in Conns \ dead /\ Found(g, n)
         \/ Goto(g, "pickOut")
         \/ Found(g, IF <<proc[g].c, s>> \in shut THEN ErrClosed ELSE None)
  BY Zenon, <1>1, <1>2 DEF pick
<1>4. proc[g].pc \in Reads /\ s \in Sides
  BY Zenon, <1>1, <1>3 DEF Reads, Sides
<1>5. proc[g].c \in 1 .. built /\ proc[g].c \in Pairs
  BY Zenon, <1>4, Reader
<1>6. Reading
  BY Zenon DEF pick, OnlyProc, Reading, cacheVars, connVars
<1>7. ASSUME n \in Conns, Found(g, n) PROVE IInv'
  <2>1. Hit(proc[g].c, s) /\ n = slot[proc[g].c][s].conn
    BY Zenon, <1>2, <1>7, Errors
  <2>2. n \in Nat /\ n # ErrClosed /\ (n \in Conns => home[n][1] = proc[g].c)
    BY Zenon, <1>4, <1>5, <2>1, HitCaller
  <2> QED
    BY Zenon, <1>5, <1>6, <1>7, <2>2, FoundStep
<1>8. ASSUME Goto(g, "pickOut") PROVE IInv'
  <2>1. "pickOut" \in Steps /\ "pickOut" \notin Holds /\ "pickOut" \notin {"getIncoming", "get", "dial", "evicting"}
    BY Zenon DEF Steps, Holds, Reads
  <2> QED
    BY Zenon, <1>5, <1>6, <1>8, <2>1, GotoStep
<1>9. ASSUME Found(g, IF <<proc[g].c, s>> \in shut THEN ErrClosed ELSE None) PROVE IInv'
  <2>1. PICK m : m = IF <<proc[g].c, s>> \in shut THEN ErrClosed ELSE None
    BY Zenon
  <2>2. m \in Nat /\ m \notin Conns /\ (m = ErrClosed => Ended(proc[g].c))
    BY Zenon, <2>1, Errors, ShutEnded DEF IInv
  <2>3. Found(g, m)
    BY Zenon, <1>9, <2>1
  <2> QED
    BY Zenon, <1>5, <1>6, <2>2, <2>3, FoundStep
<1> QED
  BY Zenon, <1>3, <1>7, <1>8, <1>9

\* What Pick waited for.
LEMMA PickedStep == ASSUME IInv, NEW g \in Callers, picked(g) PROVE IInv'
<1>1. proc[g].pc = "picked"
  BY Zenon DEF picked
<1>2. "picked" \in Reads /\ "picked" \in Holds
  BY Zenon DEF Reads, Holds
<1>3. proc[g] \in Record /\ proc[g].c \in 1 .. built /\ Fits(g, proc[g])
  BY Zenon, <1>1, <1>2, Reader
<1>4. PICK n : n = IF proc[g].got \in dead THEN None ELSE proc[g].got
  BY Zenon
<1>5. proc[g].got \in Nat \cup SUBSET Nat
  BY Zenon, <1>3 DEF Record
<1>6. n \in Nat \cup SUBSET Nat
  BY Zenon, <1>4, <1>5, Errors
<1>7. (n \in Conns => home[n][1] = proc[g].c) /\ (n = ErrClosed => Ended(proc[g].c))
  BY Zenon, <1>1, <1>2, <1>3, <1>4, Errors DEF Fits
<1>8. Reading /\ Found(g, n)
  BY Zenon, <1>4 DEF picked, OnlyProc, Reading, cacheVars, connVars
<1> QED
  BY Zenon, <1>3, <1>6, <1>7, <1>8, FoundStep

\* The context of the pair is read.
LEMMA CancelledStep == ASSUME IInv, NEW g \in Callers, Cancelled(g) PROVE IInv'
<1>1. proc[g].pc = "found"
  BY Zenon DEF Cancelled
<1>2. "found" \in Reads /\ "found" \in Holds
  BY Zenon DEF Reads, Holds
<1>3. proc[g] \in Record /\ proc[g].c \in 1 .. built /\ Fits(g, proc[g])
  BY Zenon, <1>1, <1>2, Reader
<1>4. PICK cut : cut = (proc[g].c \in cancelled)
  BY Zenon
<1>5. PICK r : r = [proc[g] EXCEPT !.pc = "recheck", !.cut = cut]
  BY Zenon
<1>6. cut \in BOOLEAN /\ "recheck" \in Steps
  BY <1>4 DEF Steps, Reads
<1>7. r \in Record /\ r.pc = "recheck" /\ r.got = proc[g].got /\ r.c = proc[g].c /\ r.cut = cut
  BY Zenon, <1>3, <1>5, <1>6 DEF Record
<1>8. Fits(g, r)
  BY Zenon, <1>1, <1>2, <1>3, <1>4, <1>7 DEF Fits
<1>9. Reading /\ Step(g, r)
  BY Zenon, <1>4, <1>5 DEF Cancelled, OnlyProc, Reading, cacheVars, connVars
<1> QED
  BY Zenon, <1>7, <1>8, <1>9, CallerStep DEF Reading

\* The lookup returns, or starts over.
LEMMA RecheckStep == ASSUME IInv, NEW g \in Callers, Recheck(g) PROVE IInv'
<1>1. proc[g] \in Record
  BY Zenon, CallerTyped
<1>2. Reading
  BY Zenon DEF Recheck, OnlyProc, Reading, cacheVars, connVars
<1>3. PICK n : n = IF proc[g].cut THEN ErrClosed ELSE proc[g].got
  BY Zenon
<1>4. n \in Nat \cup SUBSET Nat
  <2>1. proc[g].got \in Nat \cup SUBSET Nat
    BY Zenon, <1>1 DEF Record
  <2> QED
    BY Zenon, <1>3, <2>1, Errors
<1>5. Return(g, n) \/ Goto(g, "lookup")
  BY Zenon, <1>3 DEF Recheck
<1>6. "lookup" \in Steps /\ "lookup" \notin Holds /\ "lookup" \notin Reads
      /\ "lookup" \notin {"getIncoming", "get", "dial", "evicting"}
  BY Zenon DEF Steps, Holds, Reads
<1>7. CASE Return(g, n)
  BY Zenon, <1>2, <1>4, <1>7, ReturnStep
<1>8. CASE Goto(g, "lookup")
  BY Zenon, <1>2, <1>6, <1>8, GotoStep
<1> QED
  BY Zenon, <1>5, <1>7, <1>8

-----------------------------------------------------------------------------
\* The caches.

\* The one slot that changes.
PutThere(c, s, e) ==
  \A d \in Pairs : \A t \in Sides :
      (d = c /\ t = s => slot'[d][t] = e) /\ (~(d = c /\ t = s) => slot'[d][t] = slot[d][t])

\* A cache gets an entry.
LEMMA PutSlot ==
    ASSUME TypeOK, NEW c, NEW s, NEW e \in Slot, Put(c, s, e)
    PROVE  /\ slot' \in [Pairs -> [Sides -> Slot]]
           /\ PutThere(c, s, e)
<1>1. slot \in [Pairs -> [Sides -> Slot]]
  BY Zenon DEF TypeOK
<1>2. slot' = [slot EXCEPT ![c][s] = e]
  BY Zenon DEF Put
<1>3. \A d \in Pairs : slot'[d] = IF d = c THEN [slot[d] EXCEPT ![s] = e] ELSE slot[d]
  BY Zenon, <1>1, <1>2
<1>4. \A d \in Pairs : [slot[d] EXCEPT ![s] = e] \in [Sides -> Slot]
  BY Zenon, <1>1
<1>5. DOMAIN slot' = Pairs /\ slot' = [d \in Pairs |-> slot'[d]]
  BY Zenon, <1>1, <1>2
<1>6. \A d \in Pairs : slot'[d] \in [Sides -> Slot]
  BY Zenon, <1>1, <1>3, <1>4
<1>7. slot' \in [Pairs -> [Sides -> Slot]]
  BY Zenon, <1>5, <1>6
<1>8. \A d \in Pairs : \A t \in Sides : [slot[d] EXCEPT ![s] = e][t] = IF t = s THEN e ELSE slot[d][t]
  BY Zenon, <1>1
<1> QED
  BY Zenon, <1>3, <1>7, <1>8 DEF PutThere

\* An empty slot, and one that has a connection or a verdict.
LEMMA SlotTyped ==
    /\ Empty \in Slot /\ Empty.st = "none"
    /\ \A n \in 0 .. MaxConns + 1 : Active(n) \in Slot /\ Active(n).st = "active" /\ Active(n).conn = n
<1>1. None \in 0 .. MaxConns + 1
  BY Bounds DEF None
<1> QED
  BY Zenon, <1>1 DEF Empty, Active, Slot

\* A cache gets an entry without a connection, or with the one that it has.
LEMMA PutKept ==
    ASSUME TypeOK, NEW c, NEW s, NEW e \in Slot, Put(c, s, e),
           e.st \in {"active", "closing"} /\ e.conn \in Conns => In(c, s, e.conn)
    PROVE  /\ slot' \in [Pairs -> [Sides -> Slot]]
           /\ \A d \in Pairs, t \in Sides, n \in Conns : In(d, t, n)' => In(d, t, n)
<1>0. /\ slot' \in [Pairs -> [Sides -> Slot]]
      /\ PutThere(c, s, e)
  BY Zenon, PutSlot
<1>1. slot' \in [Pairs -> [Sides -> Slot]]
  BY Zenon, <1>0
<1>2. ASSUME NEW d \in Pairs, NEW t \in Sides, NEW n \in Conns, In(d, t, n)' PROVE In(d, t, n)
  <2>1. (d = c /\ t = s => slot'[d][t] = e) /\ (~(d = c /\ t = s) => slot'[d][t] = slot[d][t])
    BY Zenon, <1>0 DEF PutThere
  <2>2. slot'[d][t].st \in {"active", "closing"} /\ slot'[d][t].conn = n
    BY Zenon, <1>2 DEF In
  <2>3. CASE d = c /\ t = s
    <3>1. e.st \in {"active", "closing"} /\ e.conn = n
      BY Zenon, <2>1, <2>2, <2>3
    <3> QED
      BY Zenon, <2>3, <3>1
  <2>4. CASE ~(d = c /\ t = s)
    BY Zenon, <2>1, <2>2, <2>4 DEF In
  <2> QED
    BY Zenon, <2>3, <2>4
<1> QED
  BY Zenon, <1>1, <1>2

\* A step in the caches and of the watchers.
LEMMA WatchStep ==
    ASSUME IInv, UNCHANGED <<current, built, cancelled, closed, closing, torn, made, home, marked, events, proc>>,
           slot' \in [Pairs -> [Sides -> Slot]],
           shut \subseteq shut', \A x \in shut' : x[1] \in torn,
           \A c \in Pairs, s \in Sides, n \in Conns : In(c, s, n)' => In(c, s, n),
           watcher' \in [Conns -> {"none", "wait", "evict", "report", "done"}], WatcherInv',
           \A n \in Conns : /\ watcher[n] = "none" => watcher'[n] = "none"
                            /\ watcher[n] = "done" => watcher'[n] = "done",
           \A g \in Callers : proc[g].pc = "publish" /\ watcher[proc[g].got] = "wait" =>
              watcher'[proc[g].got] = "wait" \/ closing \/ <<proc[g].c, "out">> \in shut'
    PROVE  IInv'
<1> USE DEF IInv
<1>1. TypeOK'
  BY Zenon DEF TypeOK
<1>2. PairInv'
  BY Zenon DEF PairInv
<1>3. HomeInv'
  BY Zenon, HomeKept
<1>4. Onward /\ built \in Nat /\ built' \in Nat
  BY DEF Onward, TypeOK, Pairs
<1>5. CallerInv'
  BY Zenon, <1>4, CallersKept
<1>6. FlushInv'
  <2>1. \A f \in Flushers : proc[f].pc \in {"cancel", "walk"} => proc[f].c \notin torn'
    BY Zenon DEF FlushInv
  <2> QED
    BY Zenon, <1>4, <2>1, FlushKept
<1>7. EventInv'
  BY Zenon DEF EventInv
<1> QED
  BY Zenon, <1>1, <1>2, <1>3, <1>5, <1>6, <1>7

\* A step in the caches alone.
LEMMA CacheStep ==
    ASSUME IInv, UNCHANGED <<current, built, cancelled, closed, closing, torn, made, home, watcher, marked, events, proc>>,
           slot' \in [Pairs -> [Sides -> Slot]],
           shut \subseteq shut', \A x \in shut' : x[1] \in torn,
           \A c \in Pairs, s \in Sides, n \in Conns : In(c, s, n)' => In(c, s, n)
    PROVE  IInv'
<1>1. watcher' \in [Conns -> {"none", "wait", "evict", "report", "done"}]
  BY Zenon DEF IInv, TypeOK
<1>2. WatcherInv'
  BY Zenon, WatcherKept DEF IInv
<1> QED
  BY Zenon, <1>1, <1>2, WatchStep

\* Nothing happens in the caches.
LEMMA IdleStep ==
    ASSUME IInv, UNCHANGED <<current, built, cancelled, shut, slot, closed, closing, torn,
                             made, home, watcher, marked, events, proc>>
    PROVE  IInv'
<1>1. \A c \in Pairs, s \in Sides, n \in Conns : In(c, s, n)' => In(c, s, n)
  BY Zenon DEF In
<1>2. slot' \in [Pairs -> [Sides -> Slot]] /\ shut \subseteq shut' /\ \A x \in shut' : x[1] \in torn
  BY Zenon DEF IInv, TypeOK
<1> QED
  BY Zenon, <1>1, <1>2, CacheStep

\* The entry of a connection is taken out, or left.
LEMMA RemoveKept ==
    ASSUME TypeOK, NEW c, NEW s, NEW n, RemoveSame(c, s, n)
    PROVE  /\ slot' \in [Pairs -> [Sides -> Slot]]
           /\ \A d \in Pairs, t \in Sides, m \in Conns : In(d, t, m)' => In(d, t, m)
<1>1. CASE <<c, s>> \notin shut /\ slot[c][s] = Active(n)
  <2>1. Put(c, s, Empty)
    BY Zenon, <1>1 DEF RemoveSame
  <2>2. Empty \in Slot /\ Empty.st \notin {"active", "closing"}
    BY Zenon, SlotTyped
  <2> QED
    BY Zenon, <2>1, <2>2, PutKept
<1>2. CASE ~(<<c, s>> \notin shut /\ slot[c][s] = Active(n))
  <2>1. slot' = slot
    BY Zenon, <1>2 DEF RemoveSame
  <2> QED
    BY Zenon, <2>1 DEF In, TypeOK
<1> QED
  BY Zenon, <1>1, <1>2

\* A removal in the background.
LEMMA DiscardStep == ASSUME IInv, NEW d, discard(d) PROVE IInv'
<1>1. UNCHANGED <<current, built, cancelled, shut, closed, closing, torn, made, home, watcher, marked, events, proc>>
  BY Zenon DEF discard, cacheVars
<1>2. shut \subseteq shut' /\ \A x \in shut' : x[1] \in torn
  BY Zenon, <1>1 DEF IInv, TypeOK
<1>3. CASE closing
  BY Zenon, <1>1, <1>3, IdleStep DEF discard
<1>4. CASE ~closing
  <2>1. RemoveSame(d[1], d[2], d[3])
    BY Zenon, <1>4 DEF discard
  <2> QED
    BY Zenon, <1>1, <1>2, <2>1, RemoveKept, CacheStep DEF IInv
<1> QED
  BY Zenon, <1>3, <1>4

\* A connection closes.
LEMMA CloseStep == ASSUME IInv, NEW n, closePeer(n) \/ PeerCloses(n) PROVE IInv'
  BY Zenon, IdleStep DEF closePeer, PeerCloses, cacheVars, connVars

\* A cache is closed.
LEMMA CloseCachesStep == ASSUME IInv, NEW c \in Pairs, NEW s \in Sides, closeCaches(c, s) PROVE IInv'
<1>1. UNCHANGED <<current, built, cancelled, closed, closing, torn, made, home, watcher, marked, events, proc>>
  BY Zenon DEF closeCaches, connVars
<1>2. shut \subseteq shut' /\ \A x \in shut' : x[1] \in torn
  <2>1. shut' = shut \cup {<<c, s>>} /\ c \in torn
    BY Zenon DEF closeCaches
  <2>2. \A x \in shut : x[1] \in torn
    BY Zenon DEF IInv, TypeOK
  <2> QED
    BY <2>1, <2>2
<1>3. Empty \in Slot /\ Empty.st \notin {"active", "closing"} /\ TypeOK
  BY Zenon, SlotTyped DEF IInv
<1>4. CASE slot[c][s].st = "active"
  <2>1. Put(c, s, Empty)
    BY Zenon, <1>4 DEF closeCaches
  <2> QED
    BY Zenon, <1>1, <1>2, <1>3, <2>1, PutKept, CacheStep
<1>5. CASE slot[c][s].st # "active"
  <2>1. slot' = slot
    BY Zenon, <1>5 DEF closeCaches
  <2>2. \A d \in Pairs, t \in Sides, m \in Conns : In(d, t, m)' => In(d, t, m)
    BY Zenon, <2>1 DEF In
  <2>3. slot' \in [Pairs -> [Sides -> Slot]]
    BY Zenon, <1>3, <2>1 DEF TypeOK
  <2> QED
    BY Zenon, <1>1, <1>2, <2>2, <2>3, CacheStep
<1> QED
  BY Zenon, <1>4, <1>5

\* The GC asks.
LEMMA TryCloseStep == ASSUME IInv, NEW c \in Pairs, NEW s \in Sides, TryClose(c, s) PROVE IInv'
<1>1. UNCHANGED <<current, built, cancelled, shut, closed, closing, torn, made, home, watcher, marked, events, proc>>
  BY Zenon DEF TryClose, cacheVars, connVars
<1>2. shut \subseteq shut' /\ \A x \in shut' : x[1] \in torn
  BY Zenon, <1>1 DEF IInv, TypeOK
<1>3. slot[c][s] \in Slot /\ slot[c][s].st = "active" /\ TypeOK
  BY Zenon DEF IInv, TypeOK, TryClose, Hit
<1>4. PICK e : e = [slot[c][s] EXCEPT !.st = "closing"]
  BY Zenon
<1>5. e \in Slot /\ e.conn = slot[c][s].conn
  BY Zenon, <1>3, <1>4 DEF Slot
<1>6. In(c, s, e.conn)
  BY Zenon, <1>3, <1>5 DEF In
<1>7. Put(c, s, e)
  BY Zenon, <1>4 DEF TryClose
<1> QED
  BY Zenon, <1>1, <1>2, <1>3, <1>5, <1>6, <1>7, PutKept, CacheStep

\* The object answers.
LEMMA TryClosedStep == ASSUME IInv, NEW c \in Pairs, NEW s \in Sides, TryClosed(c, s) PROVE IInv'
<1>1. UNCHANGED <<current, built, cancelled, shut, closed, closing, torn, made, home, watcher, marked, events, proc>>
  BY Zenon DEF TryClosed, cacheVars, connVars
<1>2. shut \subseteq shut' /\ \A x \in shut' : x[1] \in torn
  BY Zenon, <1>1 DEF IInv, TypeOK
<1>3. slot[c][s] \in Slot /\ slot[c][s].st = "closing" /\ TypeOK
  BY Zenon DEF IInv, TypeOK, TryClosed
<1>4. PICK n : n = slot[c][s].conn
  BY Zenon
<1>5. n \in 0 .. MaxConns + 1
  BY Zenon, <1>3, <1>4 DEF Slot
<1>6. Empty \in Slot /\ Empty.st \notin {"active", "closing"} /\ Active(n) \in Slot /\ Active(n).conn = n
  BY Zenon, <1>5, SlotTyped
<1>7. In(c, s, n)
  BY Zenon, <1>3, <1>4 DEF In
<1>8. Put(c, s, Empty) \/ Put(c, s, Active(n))
  BY Zenon, <1>4 DEF TryClosed
<1>9. CASE Put(c, s, Empty)
  BY Zenon, <1>1, <1>2, <1>3, <1>6, <1>9, PutKept, CacheStep
<1>10. CASE Put(c, s, Active(n))
  BY Zenon, <1>1, <1>2, <1>3, <1>6, <1>7, <1>10, PutKept, CacheStep
<1> QED
  BY Zenon, <1>8, <1>9, <1>10

-----------------------------------------------------------------------------
\* The watchers.

\* The step of one watcher.
LEMMA WatcherSet ==
    ASSUME TypeOK, NEW n \in Conns, NEW w \in {"none", "wait", "evict", "report", "done"}, Watch(n, w)
    PROVE  /\ watcher' \in [Conns -> {"none", "wait", "evict", "report", "done"}] /\ watcher'[n] = w
           /\ \A m \in Conns : m # n => watcher'[m] = watcher[m]
<1>1. watcher \in [Conns -> {"none", "wait", "evict", "report", "done"}]
  BY Zenon DEF TypeOK
<1> QED
  BY Zenon, <1>1 DEF Watch

\* A connection that is being published is in nobody's cache yet, and its watcher waits.
LEMMA EvictOnCloseStep == ASSUME IInv, NEW n \in Conns, evictOnClose(n) PROVE IInv'
<1>0. TypeOK /\ WatcherInv /\ CallerInv
  BY Zenon DEF IInv
<1>1. UNCHANGED <<current, built, cancelled, shut, slot, closed, closing, torn, made, home, marked, events, proc>>
  BY Zenon DEF evictOnClose, cacheVars
<1>2. slot' \in [Pairs -> [Sides -> Slot]] /\ shut \subseteq shut' /\ \A x \in shut' : x[1] \in torn
  BY Zenon, <1>0, <1>1 DEF TypeOK
<1>3. \A c \in Pairs, s \in Sides, m \in Conns : In(c, s, m)' => In(c, s, m)
  BY Zenon, <1>1 DEF In
<1>4. watcher[n] = "wait"
  BY Zenon DEF evictOnClose
<1>5. CASE closing
  <2>1. Watch(n, "done")
    BY Zenon, <1>5 DEF evictOnClose
  <2>2. /\ watcher' \in [Conns -> {"none", "wait", "evict", "report", "done"}] /\ watcher'[n] = "done"
        /\ \A m \in Conns : m # n => watcher'[m] = watcher[m]
    BY Zenon, <1>0, <2>1, WatcherSet
  <2>3. \A m \in Conns : /\ watcher[m] = "none" => watcher'[m] = "none"
                         /\ watcher[m] = "done" => watcher'[m] = "done"
    BY Zenon, <1>4, <2>2
  <2>4. WatcherInv'
    BY Zenon, <1>1, <1>5 DEF WatcherInv
  <2> QED
    BY Zenon, <1>1, <1>2, <1>3, <1>5, <2>2, <2>3, <2>4, WatchStep
<1>6. CASE ~closing
  <2>1. Watch(n, "evict") /\ (home[n] \in shut \/ \A g \in Getters : ~(proc[g].pc = "publish" /\ proc[g].got = n))
    BY Zenon, <1>6 DEF evictOnClose
  <2>2. /\ watcher' \in [Conns -> {"none", "wait", "evict", "report", "done"}] /\ watcher'[n] = "evict"
        /\ \A m \in Conns : m # n => watcher'[m] = watcher[m]
    BY Zenon, <1>0, <2>1, WatcherSet
  <2>3. \A m \in Conns : /\ watcher[m] = "none" => watcher'[m] = "none"
                         /\ watcher[m] = "done" => watcher'[m] = "done"
                         /\ watcher'[m] \in {"report", "done"} => watcher[m] \in {"report", "done"}
    BY Zenon, <1>4, <2>2
  <2>4. WatcherInv'
    BY Zenon, <1>0, <1>1, <1>3, <2>3, WatcherKept
  <2>5. ASSUME NEW g \in Callers, proc[g].pc = "publish", watcher[proc[g].got] = "wait"
        PROVE  watcher'[proc[g].got] = "wait" \/ closing \/ <<proc[g].c, "out">> \in shut'
    <3>1. Fits(g, proc[g])
      BY Zenon, <1>0 DEF CallerInv
    <3>2. g \in Getters /\ proc[g].got \in Conns /\ home[proc[g].got] = <<proc[g].c, "out">>
      BY Zenon, <2>5, <3>1 DEF Fits
    <3> QED
      BY Zenon, <1>1, <2>1, <2>2, <2>5, <3>2
  <2> QED
    BY Zenon, <1>1, <1>2, <1>3, <2>2, <2>3, <2>4, <2>5, WatchStep
<1> QED
  BY Zenon, <1>5, <1>6

\* What is evicted is in no cache that is open.
LEMMA EvictStep == ASSUME IInv, NEW n \in Conns, Evict(n) PROVE IInv'
<1>0. TypeOK /\ WatcherInv /\ HomeInv
  BY Zenon DEF IInv
<1>1. UNCHANGED <<current, built, cancelled, shut, closed, closing, torn, made, home, marked, events, proc>>
  BY Zenon DEF Evict, cacheVars
<1>2. shut \subseteq shut' /\ \A x \in shut' : x[1] \in torn
  BY Zenon, <1>0, <1>1 DEF TypeOK
<1>3. PICK c, s : c = home[n][1] /\ s = home[n][2]
  BY Zenon
<1>4. RemoveSame(c, s, n) /\ (closing \/ CanRemove(c, s, n)) /\ Watch(n, "report") /\ watcher[n] = "evict"
  BY Zenon, <1>3 DEF Evict
<1>5. /\ slot' \in [Pairs -> [Sides -> Slot]]
      /\ \A d \in Pairs, t \in Sides, m \in Conns : In(d, t, m)' => In(d, t, m)
  BY Zenon, <1>0, <1>4, RemoveKept
<1>6. /\ watcher' \in [Conns -> {"none", "wait", "evict", "report", "done"}] /\ watcher'[n] = "report"
      /\ \A m \in Conns : m # n => watcher'[m] = watcher[m]
  BY Zenon, <1>0, <1>4, WatcherSet
<1>7. \A m \in Conns : /\ watcher[m] = "none" => watcher'[m] = "none"
                       /\ watcher[m] = "done" => watcher'[m] = "done"
                       /\ watcher[m] = "wait" => watcher'[m] = "wait"
  BY Zenon, <1>4, <1>6
<1>8. ASSUME NEW d \in Pairs, NEW t \in Sides, In(d, t, n)', ~closing PROVE <<d, t>> \in shut
  <2>1. In(d, t, n)
    BY Zenon, <1>5, <1>8
  <2>2. home[n] = <<d, t>>
    BY Zenon, <1>0, <2>1 DEF HomeInv
  <2>3. c = d /\ s = t
    BY <1>3, <2>2
  <2>4. slot[d][t] \in Slot
    BY Zenon, <1>0 DEF TypeOK
  <2>5. SUFFICES ASSUME <<d, t>> \notin shut PROVE FALSE
    OBVIOUS
  <2>6. slot[d][t] # [st |-> "closing", conn |-> n]
    BY Zenon, <1>4, <1>8, <2>3, <2>5 DEF CanRemove
  <2>7. slot[d][t] = Active(n)
    BY Zenon, <2>1, <2>4, <2>6 DEF In, Slot, Active
  <2>8. Put(d, t, Empty)
    BY Zenon, <1>4, <2>3, <2>5, <2>7 DEF RemoveSame
  <2>9. Empty \in Slot /\ Empty.st = "none"
    BY Zenon, SlotTyped
  <2>10. PutThere(d, t, Empty)
    BY Zenon, <1>0, <2>8, <2>9, PutSlot
  <2>11. slot'[d][t].st = "none"
    BY Zenon, <2>9, <2>10 DEF PutThere
  <2> QED
    BY Zenon, <1>8, <2>11 DEF In
<1>9. WatcherInv'
  <2>1. ASSUME NEW m \in Conns, watcher'[m] \in {"report", "done"}, ~closing,
               NEW d \in Pairs, NEW t \in Sides, In(d, t, m)'
        PROVE  <<d, t>> \in shut
    <3>1. CASE m = n
      BY Zenon, <1>8, <2>1, <3>1
    <3>2. CASE m # n
      BY Zenon, <1>0, <1>5, <1>6, <2>1, <3>2 DEF WatcherInv
    <3> QED
      BY Zenon, <3>1, <3>2
  <2> QED
    BY Zenon, <1>1, <2>1 DEF WatcherInv
<1>10. \A g \in Callers : proc[g].pc = "publish" /\ watcher[proc[g].got] = "wait" => watcher'[proc[g].got] = "wait"
  <2>1. ASSUME NEW g \in Callers, proc[g].pc = "publish" PROVE proc[g].got \in Conns
    BY Zenon, <2>1 DEF IInv, CallerInv, Fits
  <2> QED
    BY Zenon, <1>7, <2>1
<1> QED
  BY Zenon, <1>1, <1>2, <1>5, <1>6, <1>7, <1>9, <1>10, WatchStep

\* The watcher reports what no Flush does.
LEMMA ReportStep == ASSUME IInv, NEW n \in Conns, Report(n) PROVE IInv'
<1> USE DEF IInv
<1>1. UNCHANGED <<current, built, cancelled, shut, slot, closed, closing, torn, made, home, marked, proc>>
  BY Zenon DEF Report, cacheVars
<1>2. watcher[n] = "report" /\ Watch(n, "done")
  BY Zenon DEF Report
<1>3. /\ watcher' \in [Conns -> {"none", "wait", "evict", "report", "done"}] /\ watcher'[n] = "done"
      /\ \A m \in Conns : m # n => watcher'[m] = watcher[m]
  BY Zenon, <1>2, WatcherSet
<1>4. /\ events' \in [Conns -> Nat] /\ \A m \in Conns : m # n => events'[m] = events[m]
      /\ events'[n] = IF closing \/ n \in marked THEN events[n] ELSE events[n] + 1
  <2>1. events \in [Conns -> Nat]
    BY Zenon DEF TypeOK
  <2>2. events' = IF closing \/ n \in marked THEN events ELSE [events EXCEPT ![n] = @ + 1]
    BY Zenon DEF Report
  <2> QED
    BY <2>1, <2>2
<1>5. TypeOK'
  BY Zenon, <1>1, <1>3, <1>4 DEF TypeOK
<1>6. PairInv'
  BY Zenon, <1>1 DEF PairInv
<1>7. \A c \in Pairs, s \in Sides, m \in Conns : In(c, s, m)' => In(c, s, m)
  BY Zenon, <1>1 DEF In
<1>8. \A m \in Conns : /\ watcher[m] = "none" => watcher'[m] = "none"
                       /\ watcher'[m] \in {"report", "done"} => watcher[m] \in {"report", "done"}
                       /\ watcher[m] = "wait" => watcher'[m] = "wait"
  BY Zenon, <1>2, <1>3
<1>9. HomeInv'
  BY Zenon, <1>1, <1>7, <1>8, HomeKept
<1>10. WatcherInv'
  BY Zenon, <1>1, <1>7, <1>8, WatcherKept
<1>11. Onward /\ built \in Nat /\ built' \in Nat
  BY <1>1 DEF Onward, TypeOK, Pairs
<1>12. CallerInv'
  <2>1. ASSUME NEW g \in Callers, proc[g].pc = "publish" PROVE proc[g].got \in Conns
    BY Zenon, <2>1 DEF CallerInv, Fits
  <2> QED
    BY Zenon, <1>1, <1>8, <1>11, <2>1, CallersKept
<1>13. FlushInv'
  <2>1. \A f \in Flushers : proc[f].pc \in {"cancel", "walk"} => proc[f].c \notin torn'
    BY Zenon, <1>1 DEF FlushInv
  <2>2. \A m \in marked : events'[m] = events[m]
    BY Zenon, <1>4 DEF FlushInv
  <2> QED
    BY Zenon, <1>1, <1>11, <2>1, <2>2, FlushKept
<1>14. EventInv'
  <2>1. \A m \in Conns : events[m] <= 1 /\ (m \notin marked /\ watcher[m] # "done" => events[m] = 0)
    BY Zenon DEF EventInv
  <2>2. \A m \in Conns : events'[m] <= 1 /\ (m \notin marked' /\ watcher'[m] # "done" => events'[m] = 0)
    BY <1>1, <1>2, <1>3, <1>4, <2>1
  <2> QED
    BY Zenon, <2>2 DEF EventInv
<1> QED
  BY Zenon, <1>5, <1>6, <1>9, <1>10, <1>12, <1>13, <1>14

-----------------------------------------------------------------------------
\* Loads.

\* A step of callers that changes a slot.
LEMMA SlotStep ==
    ASSUME IInv, UNCHANGED <<current, built, cancelled, shut, closed, closing, torn, made, home, watcher, marked, events>>,
           slot' \in [Pairs -> [Sides -> Slot]], proc' \in [Procs -> Record],
           \A c \in Pairs, s \in Sides, n \in Conns : In(c, s, n)' => home[n] = <<c, s>>,
           WatcherInv',
           \A g \in Callers : Fits(g, proc'[g]),
           \A h \in Procs \ Callers : proc'[h] = proc[h] \/ proc'[h].pc \in Holds
    PROVE  IInv'
<1> USE DEF IInv
<1>1. TypeOK'
  BY Zenon DEF TypeOK
<1>2. \A h \in Procs : proc'[h].pc \in {"add", "exists", "replacing", "cancel", "walk", "notify", "closing"} =>
         proc'[h].pc \notin Holds
  BY Zenon DEF Holds
<1>3. \A h \in Procs \ Callers : proc'[h].pc \in {"add", "exists", "replacing", "cancel", "walk", "notify", "closing"} =>
         proc'[h] = proc[h]
  BY Zenon, <1>2
<1>4. PairInv'
  <2>1. proc'["close"].pc \in {"closing", "cancel"} => proc["close"].pc \in {"closing", "cancel"}
    BY Zenon, <1>3, Apart
  <2> QED
    BY Zenon, <2>1 DEF PairInv
<1>5. HomeInv'
  <2>1. \A a \in Adders : proc'[a].pc \in {"add", "exists", "replacing"} => proc'[a] = proc[a]
    BY Zenon, <1>3, Apart
  <2> QED
    BY Zenon, <2>1, HomeKeptAt
<1>6. Onward /\ built \in Nat /\ built' \in Nat
  BY DEF Onward, TypeOK, Pairs
<1>7. CallerInv'
  <2>1. ASSUME NEW h \in Callers PROVE Fits(h, proc[h])'
    <3>1. PICK x : x = proc'[h]
      BY Zenon
    <3>2. Fits(h, x)
      BY Zenon, <3>1
    <3>3. Fits(h, x)'
      BY Zenon, <1>6, <3>2, FitsKept
    <3> QED
      BY Zenon, <3>1, <3>3
  <2> QED
    BY Zenon, <2>1 DEF CallerInv
<1>8. FlushInv'
  <2>1. \A f \in Flushers : proc[f].pc \in {"cancel", "walk"} => proc[f].c \notin torn'
    BY Zenon DEF FlushInv
  <2>2. \A f \in Flushers : Flushing(f)' => proc'[f] = proc[f]
    BY Zenon, <1>3, Apart DEF Flushing
  <2> QED
    BY Zenon, <1>6, <2>1, <2>2, FlushKept
<1>9. EventInv'
  BY Zenon DEF EventInv
<1> QED
  BY Zenon, <1>1, <1>4, <1>5, <1>7, <1>8, <1>9

\* Those who wait for a load get what came of it.
LEMMA LoadedProc ==
    ASSUME IInv, NEW g \in Getters, NEW c \in 1 .. built, proc[g].c = c,
           NEW n \in Nat, NEW pc \in {"found", "loaded"}, Loaded(g, c, n, pc),
           n \in Conns => home[n][1] = c, n = ErrClosed => Ended(c)
    PROVE  /\ proc' \in [Procs -> Record]
           /\ \A h \in Callers : Fits(h, proc'[h])
           /\ \A h \in Procs \ Callers : proc'[h] = proc[h] \/ proc'[h].pc \in Holds
<1>0. proc \in [Procs -> Record] /\ g \in Callers /\ g \in Procs
  BY Zenon, Apart DEF IInv, TypeOK, Callers
<1>1. DOMAIN proc = Procs
  BY Zenon, <1>0
<1>2. pc \in Steps /\ "picked" \in Steps /\ pc \in Holds /\ "picked" \in Holds
  BY Zenon DEF Steps, Reads, Holds
<1>3. DOMAIN proc' = Procs /\ proc' = [h \in Procs |-> proc'[h]]
  BY Zenon, <1>1 DEF Loaded
<1>4. ASSUME NEW h \in Procs, NEW q \in {pc, "picked"}, proc'[h] = [proc[h] EXCEPT !.pc = q, !.got = n]
      PROVE  /\ proc'[h] \in Record /\ proc'[h].pc = q /\ proc'[h].got = n /\ proc'[h].c = proc[h].c
             /\ proc'[h].pc \in Holds
  <2>1. proc[h] \in Record
    BY Zenon, <1>0
  <2>2. q \in Steps /\ q \in Holds
    BY Zenon, <1>2
  <2> QED
    BY Zenon, <1>4, <2>1, <2>2 DEF Record
<1>5. ASSUME NEW h \in Callers, NEW q \in {pc, "picked"}, q = pc => h \in Getters, proc[h].c = c,
             proc'[h] = [proc[h] EXCEPT !.pc = q, !.got = n]
      PROVE  Fits(h, proc'[h])
  <2>1. h \in Procs
    BY Zenon, Apart
  <2>2. proc'[h].pc = q /\ proc'[h].got = n /\ proc'[h].c = c
    BY Zenon, <1>4, <1>5, <2>1
  <2>3. q # "publish" /\ q # "recheck" /\ (q \in {"getIncoming", "get", "dial", "publish", "loaded", "evicting"} => h \in Getters)
    BY Zenon, <1>5
  <2> QED
    BY Zenon, <2>2, <2>3 DEF Fits
<1>6. ASSUME NEW h \in Procs
      PROVE  /\ proc'[h] \in Record
             /\ h \in Callers => Fits(h, proc'[h])
             /\ h \notin Callers => proc'[h] = proc[h] \/ proc'[h].pc \in Holds
  <2>1. CASE h = g
    <3>1. proc'[h] = [proc[h] EXCEPT !.pc = pc, !.got = n]
      BY Zenon, <1>0, <1>1, <2>1 DEF Loaded
    <3>2. pc \in {pc, "picked"}
      BY Zenon
    <3> QED
      BY Zenon, <1>0, <1>4, <1>5, <2>1, <3>1, <3>2
  <2>2. CASE h # g /\ proc[h].c = c /\ proc[h].pc = "waitLoad"
    <3>1. PICK q : q = IF h \in Pickers THEN "picked" ELSE pc
      BY Zenon
    <3>2. proc'[h] = [proc[h] EXCEPT !.pc = q, !.got = n]
      <4>1. proc'[h] = [proc[h] EXCEPT !.got = n, !.pc = q]
        BY Zenon, <1>1, <2>2, <3>1 DEF Loaded
      <4>2. proc[h] \in Record
        BY Zenon, <1>0
      <4> QED
        BY Zenon, <4>1, <4>2 DEF Record
    <3>3. q \in {pc, "picked"} /\ (h \in Callers /\ q = pc => h \in Getters)
      <4>1. pc # "picked"
        OBVIOUS
      <4> QED
        BY Zenon, <3>1, <4>1 DEF Callers
    <3> QED
      BY Zenon, <1>4, <1>5, <2>2, <3>2, <3>3
  <2>3. CASE h # g /\ ~(proc[h].c = c /\ proc[h].pc = "waitLoad")
    <3>1. proc'[h] = proc[h]
      BY Zenon, <1>1, <2>3 DEF Loaded
    <3>2. proc[h] \in Record /\ (h \in Callers => Fits(h, proc[h]))
      BY Zenon, <1>0 DEF IInv, CallerInv
    <3> QED
      BY Zenon, <3>1, <3>2
  <2> QED
    BY Zenon, <2>1, <2>2, <2>3
<1>7. proc' \in [Procs -> Record]
  BY Zenon, <1>3, <1>6
<1> QED
  BY Zenon, <1>6, <1>7, Apart

\* A caller of Get at a step of its load.
LEMMA Loader ==
    ASSUME IInv, NEW g \in Callers, proc[g].pc \in {"get", "dial", "publish"}
    PROVE  /\ g \in Getters /\ proc[g] \in Record /\ Fits(g, proc[g])
           /\ proc[g].c \in 1 .. built /\ proc[g].c \in Pairs /\ "out" \in Sides
<1>1. proc[g].pc \in Reads /\ "out" \in Sides
  BY Zenon DEF Reads, Sides
<1>2. proc[g] \in Record /\ Fits(g, proc[g]) /\ proc[g].c \in 1 .. built /\ proc[g].c \in Pairs
  BY Zenon, <1>1, Reader
<1>3. g \in Getters
  BY Zenon, <1>2 DEF Fits
<1> QED
  BY Zenon, <1>1, <1>2, <1>3

\* A load ends without a connection in the cache.
LEMMA LoadEnds ==
    ASSUME IInv, NEW g \in Callers, proc[g].pc \in {"dial", "publish"}, NEW e \in Slot,
           Put(proc[g].c, "out", e), e.st = "active" => e.conn \notin Conns, e.st # "closing",
           NEW n \in {None, ErrClosed}, Loaded(g, proc[g].c, n, "found"), n = ErrClosed => Ended(proc[g].c),
           UNCHANGED <<current, built, cancelled, shut, closed, closing, torn, made, home, watcher, marked, events>>
    PROVE  IInv'
<1>1. PICK c : c = proc[g].c
  BY Zenon
<1>2. g \in Getters /\ c \in 1 .. built /\ TypeOK /\ HomeInv /\ WatcherInv
  BY Zenon, <1>1, Loader DEF IInv
<1>3. Put(c, "out", e) /\ Loaded(g, c, n, "found") /\ (n = ErrClosed => Ended(c))
  BY Zenon, <1>1
<1>4. ~(e.st \in {"active", "closing"} /\ e.conn \in Conns)
  OBVIOUS
<1>5. /\ slot' \in [Pairs -> [Sides -> Slot]]
      /\ \A d \in Pairs, t \in Sides, m \in Conns : In(d, t, m)' => In(d, t, m)
  BY Zenon, <1>2, <1>3, <1>4, PutKept
<1>6. n \in Nat /\ n \notin Conns /\ "found" \in {"found", "loaded"}
  BY Zenon, Errors
<1>7. /\ proc' \in [Procs -> Record]
      /\ \A h \in Callers : Fits(h, proc'[h])
      /\ \A h \in Procs \ Callers : proc'[h] = proc[h] \/ proc'[h].pc \in Holds
  BY Zenon, <1>1, <1>2, <1>3, <1>6, LoadedProc
<1>8. \A d \in Pairs, t \in Sides, m \in Conns : In(d, t, m)' => home[m] = <<d, t>>
  BY Zenon, <1>2, <1>5 DEF HomeInv
<1>9. WatcherInv'
  BY Zenon, <1>2, <1>5, WatcherKept
<1> QED
  BY Zenon, <1>5, <1>7, <1>8, <1>9, SlotStep

\* A load begins, or finds the pair cancelled.
LEMMA LoadStep == ASSUME IInv, NEW g \in Callers, load(g) PROVE IInv'
<1>1. proc[g].pc = "get"
  BY Zenon DEF load
<1>2. /\ g \in Getters /\ proc[g] \in Record /\ Fits(g, proc[g])
      /\ proc[g].c \in 1 .. built /\ proc[g].c \in Pairs /\ "out" \in Sides
  BY Zenon, <1>1, Loader
<1>3. UNCHANGED <<current, built, cancelled, shut, closed, closing, torn, made, home, watcher, marked, events>>
  BY Zenon DEF load, cacheVars, connVars
<1>4. CASE proc[g].c \in cancelled
  <2>1. Found(g, ErrClosed) /\ slot' = slot
    BY Zenon, <1>4 DEF load
  <2>2. Ended(proc[g].c)
    BY Zenon, <1>4 DEF Ended
  <2> QED
    BY Zenon, <1>2, <1>3, <2>1, <2>2, Errors, FoundStep DEF Reading
<1>5. CASE proc[g].c \notin cancelled
  <2>1. PICK e, c, r : /\ e = [st |-> "loading", conn |-> None] /\ c = proc[g].c
                       /\ r = [proc[g] EXCEPT !.pc = "dial"]
    BY Zenon
  <2>2. Put(c, "out", e) /\ Step(g, r)
    BY Zenon, <1>5, <2>1 DEF load, Goto
  <2>3. e \in Slot /\ e.st = "loading"
    BY <2>1, Bounds DEF Slot, None
  <2>4. e.st \notin {"active", "closing"} /\ TypeOK /\ HomeInv /\ WatcherInv
    BY Zenon, <2>3 DEF IInv
  <2>5. /\ slot' \in [Pairs -> [Sides -> Slot]]
        /\ \A d \in Pairs, t \in Sides, m \in Conns : In(d, t, m)' => In(d, t, m)
    BY Zenon, <2>2, <2>3, <2>4, PutKept
  <2>6. r \in Record /\ r.pc = "dial" /\ r.c = c
    BY Zenon, <1>2, <2>1 DEF Record, Steps, Reads
  <2>7. Fits(g, r)
    BY Zenon, <1>2, <2>1, <2>6 DEF Fits, Holds
  <2>8. /\ proc' \in [Procs -> Record] /\ proc'[g] = r
        /\ \A h \in Procs : h # g => proc'[h] = proc[h]
    BY Zenon, <2>2, <2>4, <2>6, ProcSet, Apart
  <2>9. /\ \A h \in Callers : Fits(h, proc'[h])
        /\ \A h \in Procs \ Callers : proc'[h] = proc[h]
    BY Zenon, <2>7, <2>8, Apart DEF IInv, CallerInv
  <2>10. \A d \in Pairs, t \in Sides, m \in Conns : In(d, t, m)' => home[m] = <<d, t>>
    BY Zenon, <2>4, <2>5 DEF HomeInv
  <2>11. WatcherInv'
    BY Zenon, <1>3, <2>4, <2>5, WatcherKept
  <2> QED
    BY Zenon, <1>3, <2>5, <2>8, <2>9, <2>10, <2>11, SlotStep
<1> QED
  BY Zenon, <1>4, <1>5

\* The dial fails, or the version is refused.
LEMMA DialFailsStep == ASSUME IInv, NEW g \in Callers, DialFails(g) \/ DialRefused(g) PROVE IInv'
<1>1. proc[g].pc \in {"dial", "publish"}
  BY Zenon DEF DialFails, DialRefused
<1>2. UNCHANGED <<current, built, cancelled, shut, closed, closing, torn, made, home, watcher, marked, events>>
  BY Zenon DEF DialFails, DialRefused, cacheVars, connVars
<1>3. Verdict \in 0 .. MaxConns + 1 /\ Verdict \notin Conns
  BY Bounds DEF Verdict, Conns
<1>4. PICK e \in {Empty, Active(Verdict)} : Put(proc[g].c, "out", e) /\ Loaded(g, proc[g].c, None, "found")
  BY Zenon DEF DialFails, DialRefused
<1>5. e \in Slot /\ e.st # "closing" /\ (e.st = "active" => e.conn \notin Conns)
  BY Zenon, <1>3, <1>4, SlotTyped
<1>6. None \in {None, ErrClosed} /\ None # ErrClosed
  BY Zenon, Errors
<1> QED
  BY Zenon, <1>1, <1>2, <1>4, <1>5, <1>6, LoadEnds

\* The connection is published, or closed with the cache.
LEMMA PublishStep == ASSUME IInv, NEW g \in Callers, Publish(g) PROVE IInv'
<1>1. proc[g].pc = "publish"
  BY Zenon DEF Publish
<1>2. /\ g \in Getters /\ proc[g] \in Record /\ Fits(g, proc[g])
      /\ proc[g].c \in 1 .. built /\ proc[g].c \in Pairs /\ "out" \in Sides
  BY Zenon, <1>1, Loader
<1>3. UNCHANGED <<current, built, cancelled, shut, closed, closing, torn, made, home, watcher, marked, events>>
  BY Zenon DEF Publish, cacheVars, connVars
<1>4. CASE <<proc[g].c, "out">> \in shut
  <2>1. Put(proc[g].c, "out", Empty) /\ Loaded(g, proc[g].c, ErrClosed, "found")
    BY Zenon, <1>4 DEF Publish
  <2>2. Ended(proc[g].c)
    BY Zenon, <1>4, ShutEnded DEF IInv
  <2>3. Empty \in Slot /\ Empty.st # "active" /\ Empty.st # "closing"
    BY Zenon, SlotTyped
  <2>4. ErrClosed \in {None, ErrClosed} /\ proc[g].pc \in {"dial", "publish"}
    BY Zenon, <1>1
  <2> QED
    BY Zenon, <1>3, <2>1, <2>2, <2>3, <2>4, LoadEnds
<1>5. CASE <<proc[g].c, "out">> \notin shut
  <2>1. PICK c, n : c = proc[g].c /\ n = proc[g].got
    BY Zenon
  <2>2. Put(c, "out", Active(n)) /\ Loaded(g, c, n, "loaded")
    BY Zenon, <1>5, <2>1 DEF Publish
  <2>3. n \in Conns /\ home[n] = <<c, "out">> /\ (watcher[n] = "wait" \/ closing)
    BY Zenon, <1>1, <1>2, <1>5, <2>1 DEF Fits
  <2>4. n \in Nat /\ n \in 0 .. MaxConns + 1 /\ n # ErrClosed
    BY <2>3, Bounds DEF Conns, ErrClosed
  <2>5. Active(n) \in Slot /\ Active(n).conn = n /\ TypeOK /\ HomeInv /\ WatcherInv
    BY Zenon, <2>4, SlotTyped DEF IInv
  <2>6. slot' \in [Pairs -> [Sides -> Slot]] /\ PutThere(c, "out", Active(n))
    BY Zenon, <2>2, <2>5, PutSlot
  <2>7. \A d \in Pairs, t \in Sides, m \in Conns : In(d, t, m)' => In(d, t, m) \/ (m = n /\ d = c /\ t = "out")
    BY Zenon, <2>5, <2>6 DEF In, PutThere
  <2>8. \A d \in Pairs, t \in Sides, m \in Conns : In(d, t, m)' => home[m] = <<d, t>>
    BY Zenon, <2>3, <2>5, <2>7 DEF HomeInv
  <2>9. WatcherInv'
    <3>1. ~closing => watcher[n] \notin {"report", "done"}
      BY Zenon, <2>3
    <3> QED
      BY Zenon, <1>3, <2>5, <2>7, <3>1 DEF WatcherInv
  <2>10. home[n][1] = c /\ c \in 1 .. built /\ "loaded" \in {"found", "loaded"}
    BY <1>2, <2>1, <2>3
  <2>11. /\ proc' \in [Procs -> Record]
         /\ \A h \in Callers : Fits(h, proc'[h])
         /\ \A h \in Procs \ Callers : proc'[h] = proc[h] \/ proc'[h].pc \in Holds
    BY Zenon, <1>2, <2>1, <2>2, <2>4, <2>10, LoadedProc
  <2> QED
    BY Zenon, <1>3, <2>6, <2>8, <2>9, <2>11, SlotStep
<1> QED
  BY Zenon, <1>4, <1>5

-----------------------------------------------------------------------------
\* New connections.

\* A connection that was put nowhere is in no cache and in nobody's hands.
LEMMA Fresh ==
    ASSUME IInv, NEW n \in Conns, home[n][1] = None
    PROVE  /\ watcher[n] = "none"
           /\ \A c \in Pairs, s \in Sides : ~In(c, s, n)
           /\ \A g \in Callers : proc[g].pc \in Holds => proc[g].got # n
           /\ n \notin marked
<1>1. watcher[n] = "none"
  BY Zenon DEF IInv, HomeInv
<1>2. \A c \in Pairs, s \in Sides : ~In(c, s, n)
  <2>1. SUFFICES ASSUME NEW c \in Pairs, NEW s \in Sides, In(c, s, n) PROVE FALSE
    BY Zenon
  <2>2. home[n] = <<c, s>>
    BY Zenon, <2>1 DEF IInv, HomeInv
  <2> QED
    BY <2>2, Bounds DEF Pairs, None
<1>3. ASSUME NEW g \in Callers, proc[g].pc \in Holds, proc[g].got = n PROVE FALSE
  <2>1. proc[g].pc \in Reads
    BY Zenon, <1>3 DEF Holds, Reads
  <2>2. proc[g].c \in 1 .. built /\ Fits(g, proc[g])
    BY Zenon, <2>1, Reader
  <2>3. home[n][1] = proc[g].c
    BY Zenon, <1>3, <2>2 DEF Fits
  <2> QED
    BY <2>2, <2>3 DEF None
<1>4. n \notin marked
  BY DEF IInv, TypeOK, FlushInv, None
<1> QED
  BY Zenon, <1>1, <1>2, <1>3, <1>4

\* No other connection gets anywhere.
OnlyThere(c, s, n) ==
  \A d \in Pairs, t \in Sides, m \in Conns : In(d, t, m)' => In(d, t, m) \/ (m = n /\ d = c /\ t = s)

\* A connection is put into a cache, or is about to be, and its watcher starts.
LEMMA PlaceStep ==
    ASSUME IInv, NEW n \in Conns, home[n][1] = None, NEW c \in Pairs, NEW s \in Sides,
           home' = [home EXCEPT ![n] = <<c, s>>], Watch(n, "wait"),
           UNCHANGED <<current, built, cancelled, shut, closed, closing, torn, marked, events>>,
           made' \in 0 .. MaxConns, made <= made', n <= made',
           slot' \in [Pairs -> [Sides -> Slot]], proc' \in [Procs -> Record],
           OnlyThere(c, s, n),
           \A g \in Callers : proc'[g] = proc[g] \/ Fits(g, proc[g])',
           \A a \in Adders : proc'[a].pc \in {"add", "exists", "replacing"} =>
              proc'[a] = proc[a] /\ proc[a].got # n,
           \A f \in Flushers : proc'[f] = proc[f],
           proc'["close"] = proc["close"]
    PROVE  IInv'
<1> USE DEF IInv
<1>1. /\ home' \in [Conns -> (0 .. MaxPairs) \X Sides] /\ home'[n] = <<c, s>>
      /\ \A m \in Conns : m # n => home'[m] = home[m]
  <2>1. home \in [Conns -> (0 .. MaxPairs) \X Sides]
    BY Zenon DEF TypeOK
  <2>2. <<c, s>> \in (0 .. MaxPairs) \X Sides
    BY Bounds DEF Pairs
  <2> QED
    BY Zenon, <2>1, <2>2
<1>2. /\ watcher' \in [Conns -> {"none", "wait", "evict", "report", "done"}] /\ watcher'[n] = "wait"
      /\ \A m \in Conns : m # n => watcher'[m] = watcher[m]
  BY Zenon, WatcherSet
<1>3. /\ watcher[n] = "none" /\ n \notin marked
      /\ \A d \in Pairs, t \in Sides : ~In(d, t, n)
      /\ \A g \in Callers : proc[g].pc \in Holds => proc[g].got # n
  BY Zenon, Fresh
<1>4. TypeOK'
  BY Zenon, <1>1, <1>2 DEF TypeOK
<1>5. PairInv'
  BY Zenon DEF PairInv
<1>6. Onward /\ built \in Nat /\ built' \in Nat
  <2>1. built \in Nat /\ built <= built
    BY DEF TypeOK, Pairs
  <2> QED
    BY Zenon, <1>1, <2>1 DEF Onward
<1>7. HomeInv'
  <2>1. \A d \in Pairs, t \in Sides, m \in Conns : In(d, t, m)' => home'[m] = <<d, t>>
    <3>1. ASSUME NEW d \in Pairs, NEW t \in Sides, NEW m \in Conns, In(d, t, m)' PROVE home'[m] = <<d, t>>
      <4>1. In(d, t, m) \/ (m = n /\ d = c /\ t = s)
        BY Zenon, <3>1 DEF OnlyThere
      <4>2. CASE In(d, t, m)
        <5>1. home[m] = <<d, t>> /\ m # n
          BY Zenon, <1>3, <4>2 DEF HomeInv
        <5> QED
          BY Zenon, <1>1, <5>1
      <4>3. CASE m = n /\ d = c /\ t = s
        BY Zenon, <1>1, <4>3
      <4> QED
        BY Zenon, <4>1, <4>2, <4>3
    <3> QED
      BY Zenon, <3>1
  <2>2. made \in Nat /\ made' \in Nat /\ n \in Nat
    BY Bounds DEF TypeOK, Conns
  <2>3. \A m \in Conns : m > made' => home'[m][1] = None
    <3>1. \A m \in Conns : m \in Nat
      BY Bounds DEF Conns
    <3>2. \A m \in Conns : m > made' => m > made /\ m # n
      BY <2>2, <3>1
    <3> QED
      BY Zenon, <1>1, <3>2 DEF HomeInv
  <2>4. c # None /\ home'[n][1] = c
    BY <1>1, Bounds DEF Pairs, None
  <2>5. \A m \in Conns : home'[m][1] = None => watcher'[m] = "none"
    <3>1. ASSUME NEW m \in Conns, home'[m][1] = None PROVE watcher'[m] = "none"
      <4>1. m # n
        BY Zenon, <2>4, <3>1
      <4>2. home[m][1] = None /\ watcher'[m] = watcher[m]
        BY Zenon, <1>1, <1>2, <3>1, <4>1
      <4> QED
        BY Zenon, <4>2 DEF HomeInv
    <3> QED
      BY Zenon, <3>1
  <2>6. ASSUME NEW a \in Adders, proc'[a].pc \in {"add", "exists", "replacing"}
        PROVE  /\ proc'[a].got \in 1 .. made' /\ home'[proc'[a].got][1] = None
               /\ \A b \in Adders : /\ proc'[b].pc \in {"add", "exists", "replacing"}
                                    /\ proc'[b].got = proc'[a].got
                                    => a = b
    <3>1. proc'[a] = proc[a] /\ proc[a].got # n
      BY Zenon, <2>6
    <3>2. proc[a].pc \in {"add", "exists", "replacing"}
      BY Zenon, <2>6, <3>1
    <3>3. proc[a].got \in 1 .. made /\ home[proc[a].got][1] = None
      BY Zenon, <3>2 DEF HomeInv
    <3>4. proc[a].got \in 1 .. made' /\ proc[a].got \in Conns
      BY <2>2, <3>3, Bounds DEF TypeOK, Conns
    <3>5. home'[proc[a].got] = home[proc[a].got]
      BY Zenon, <1>1, <3>1, <3>4
    <3>6. ASSUME NEW b \in Adders, proc'[b].pc \in {"add", "exists", "replacing"}, proc'[b].got = proc'[a].got
          PROVE  a = b
      <4>1. proc'[b] = proc[b]
        BY Zenon, <3>6
      <4>2. proc[b].pc \in {"add", "exists", "replacing"} /\ proc[b].got = proc[a].got
        BY Zenon, <3>1, <3>6, <4>1
      <4> QED
        BY Zenon, <3>2, <4>2 DEF HomeInv
    <3> QED
      BY Zenon, <3>1, <3>3, <3>4, <3>5, <3>6
  <2> QED
    BY Zenon, <2>1, <2>3, <2>5, <2>6 DEF HomeInv
<1>8. WatcherInv'
  <2>1. "wait" \notin {"report", "done"}
    OBVIOUS
  <2> QED
    BY Zenon, <1>2, <2>1 DEF WatcherInv, OnlyThere
<1>9. CallerInv'
  <2>1. ASSUME NEW g \in Callers PROVE Fits(g, proc[g])'
    <3>1. CASE Fits(g, proc[g])'
      BY Zenon, <3>1
    <3>2. CASE proc'[g] = proc[g]
      <4>1. PICK r : r = proc[g]
        BY Zenon
      <4>2. Fits(g, r)
        BY Zenon, <4>1 DEF CallerInv
      <4>3. "publish" \in Holds
        BY Zenon DEF Holds
      <4>4. r.pc = "publish" => r.got \in Conns /\ r.got # n
        BY Zenon, <1>3, <4>1, <4>2, <4>3 DEF Fits
      <4>5. r.pc = "publish" /\ watcher[r.got] = "wait" => watcher'[r.got] = "wait"
        BY Zenon, <1>2, <4>4
      <4>6. Fits(g, r)'
        BY Zenon, <1>6, <4>2, <4>5, FitsKept
      <4>7. r = proc'[g]
        BY Zenon, <3>2, <4>1
      <4> QED
        BY Zenon, <4>6, <4>7
    <3> QED
      BY Zenon, <3>1, <3>2
  <2> QED
    BY Zenon, <2>1 DEF CallerInv
<1>10. FlushInv'
  <2>1. \A f \in Flushers : proc[f].pc \in {"cancel", "walk"} => proc[f].c \notin torn'
    BY Zenon DEF FlushInv
  <2> QED
    BY Zenon, <1>6, <2>1, FlushKept
<1>11. EventInv'
  <2>1. "none" # "done"
    OBVIOUS
  <2> QED
    BY Zenon, <1>2, <1>3, <2>1 DEF EventInv
<1> QED
  BY Zenon, <1>4, <1>5, <1>7, <1>8, <1>9, <1>10, <1>11

\* The dial succeeds.
LEMMA DialledStep == ASSUME IInv, NEW g \in Callers, Dialled(g) PROVE IInv'
<1>1. proc[g].pc = "dial"
  BY Zenon DEF Dialled
<1>2. /\ g \in Getters /\ proc[g] \in Record /\ Fits(g, proc[g])
      /\ proc[g].c \in 1 .. built /\ proc[g].c \in Pairs /\ "out" \in Sides
  BY Zenon, <1>1, Loader
<1>3. PICK n, c : n = made + 1 /\ c = proc[g].c
  BY Zenon
<1>4. /\ made < MaxConns /\ made' = n /\ home' = [home EXCEPT ![n] = <<c, "out">>] /\ Watch(n, "wait")
      /\ Step(g, [proc[g] EXCEPT !.pc = "publish", !.got = n])
      /\ UNCHANGED <<current, built, cancelled, shut, closed, closing, torn, slot, marked, events>>
  BY Zenon, <1>3 DEF Dialled, Watch, cacheVars
<1>5. made \in Nat /\ n \in Conns /\ n > made /\ n \in Nat /\ n \in 0 .. MaxConns /\ made <= n /\ n <= n
  BY <1>3, <1>4, Bounds DEF IInv, TypeOK, Conns
<1>6. home[n][1] = None
  BY Zenon, <1>5 DEF IInv, HomeInv
<1>7. PICK r : r = [proc[g] EXCEPT !.pc = "publish", !.got = n]
  BY Zenon
<1>8. r \in Record /\ r.pc = "publish" /\ r.got = n /\ r.c = c /\ Step(g, r)
  BY Zenon, <1>2, <1>3, <1>4, <1>5, <1>7 DEF Record, Steps, Reads
<1>9. /\ proc' \in [Procs -> Record] /\ proc'[g] = r
      /\ \A h \in Procs : h # g => proc'[h] = proc[h]
  BY Zenon, <1>8, ProcSet, Apart DEF IInv
<1>10. home'[n] = <<c, "out">> /\ watcher'[n] = "wait"
  <2>1. home \in [Conns -> (0 .. MaxPairs) \X Sides] /\ watcher \in [Conns -> {"none", "wait", "evict", "report", "done"}]
    BY Zenon DEF IInv, TypeOK
  <2> QED
    BY Zenon, <1>4, <1>5, <2>1 DEF Watch
<1>11. Fits(g, proc[g])'
  <2>1. n # ErrClosed /\ home'[n][1] = c /\ c \in 1 .. built'
    BY <1>2, <1>3, <1>4, <1>5, <1>10, Bounds DEF ErrClosed, Conns
  <2>2. Fits(g, r)'
    BY Zenon, <1>2, <1>5, <1>8, <1>10, <2>1 DEF Fits
  <2> QED
    BY Zenon, <1>9, <2>2
<1>12. /\ slot' \in [Pairs -> [Sides -> Slot]]
       /\ OnlyThere(c, "out", n)
  BY Zenon, <1>4 DEF IInv, TypeOK, In, OnlyThere
<1>13. \A a \in Adders : proc'[a].pc \in {"add", "exists", "replacing"} => proc'[a] = proc[a] /\ proc[a].got # n
  <2>1. \A a \in Adders : proc'[a] = proc[a]
    BY Zenon, <1>9, Apart
  <2>2. \A a \in Adders : proc[a].pc \in {"add", "exists", "replacing"} => proc[a].got \in 1 .. made
    BY Zenon DEF IInv, HomeInv
  <2>3. n \notin 1 .. made
    BY <1>3, <1>5
  <2> QED
    BY Zenon, <2>1, <2>2, <2>3
<1>14. /\ \A h \in Callers : proc'[h] = proc[h] \/ Fits(h, proc[h])'
       /\ \A f \in Flushers : proc'[f] = proc[f]
       /\ proc'["close"] = proc["close"]
  BY Zenon, <1>9, <1>11, Apart
<1>15. c \in Pairs
  BY Zenon, <1>2, <1>3
<1> QED
  BY Zenon, <1>2, <1>4, <1>5, <1>6, <1>9, <1>12, <1>13, <1>14, <1>15, PlaceStep

\* A goroutine of AddPeer goes on alone.
LEMMA AdderStep ==
    ASSUME IInv, NEW a \in Adders, NEW r \in Record, Step(a, r), Reading,
           r.pc \in {"add", "exists", "replacing"} =>
              proc[a].pc \in {"add", "exists", "replacing"} /\ r.got = proc[a].got
    PROVE  IInv'
<1> USE DEF IInv, Reading
<1>1. /\ proc' \in [Procs -> Record] /\ proc'[a] = r
      /\ \A h \in Procs : h # a => proc'[h] = proc[h]
  BY Zenon, ProcSet, Apart
<1>2. /\ \A g \in Callers : proc'[g] = proc[g]
      /\ \A b \in Adders : b # a => proc'[b] = proc[b]
      /\ \A f \in Flushers : proc'[f] = proc[f]
      /\ proc'["close"] = proc["close"]
  BY Zenon, <1>1, Apart
<1>3. TypeOK'
  BY Zenon, <1>1 DEF TypeOK
<1>4. PairInv'
  BY Zenon, <1>2 DEF PairInv
<1>5. \A c \in Pairs, s \in Sides, n \in Conns : In(c, s, n)' => In(c, s, n)
  BY Zenon DEF In
<1>6. HomeInv'
  BY Zenon, <1>1, <1>2, <1>5, HomeKept
<1>7. WatcherInv'
  BY Zenon, <1>5, WatcherKept
<1>8. Onward /\ built \in Nat /\ built' \in Nat
  BY DEF Onward, TypeOK, Pairs
<1>9. CallerInv'
  BY Zenon, <1>2, <1>8, CallersKept
<1>10. FlushInv'
  <2>1. \A f \in Flushers : proc[f].pc \in {"cancel", "walk"} => proc[f].c \notin torn'
    BY Zenon DEF FlushInv
  <2> QED
    BY Zenon, <1>2, <1>8, <2>1, FlushKept
<1>11. EventInv'
  BY Zenon DEF EventInv
<1> QED
  BY Zenon, <1>3, <1>4, <1>6, <1>7, <1>9, <1>10, <1>11

\* What a call leaves behind.
LEMMA Returns ==
    ASSUME NEW g, NEW n \in Nat, Return(g, n)
    PROVE  \E r \in Record : Step(g, r) /\ r.pc \in Over /\ r.got = n
<1>1. PICK pc \in Over : Step(g, [Idle EXCEPT !.pc = pc, !.got = n])
  BY Zenon DEF Return, Over
<1>2. PICK r : r = [Idle EXCEPT !.pc = pc, !.got = n]
  BY Zenon
<1>3. Idle \in Record /\ pc \in Steps
  BY Zenon, InitRecord DEF Steps
<1>4. r \in Record /\ r.pc = pc /\ r.got = n
  BY Zenon, <1>2, <1>3 DEF Record
<1> QED
  BY Zenon, <1>1, <1>2, <1>4

\* AddPeer returns without having added.
LEMMA AdderReturns ==
    ASSUME IInv, NEW a \in Adders, NEW n \in Nat, Return(a, n), Reading
    PROVE  IInv'
<1>1. PICK r \in Record : Step(a, r) /\ r.pc \in Over
  BY Zenon, Returns
<1>2. r.pc \notin {"add", "exists", "replacing"}
  BY Zenon, <1>1 DEF Over
<1> QED
  BY Zenon, <1>1, <1>2, AdderStep

\* AddPeer goes to its next step.
LEMMA AdderGoes ==
    ASSUME IInv, NEW a \in Adders, NEW pc \in Steps, Goto(a, pc), Reading,
           proc[a].pc \in {"add", "exists", "replacing"}
    PROVE  IInv'
<1>1. PICK r : r = [proc[a] EXCEPT !.pc = pc]
  BY Zenon
<1>2. proc[a] \in Record
  BY Zenon, Apart DEF IInv, TypeOK
<1>3. r \in Record /\ r.got = proc[a].got
  BY Zenon, <1>1, <1>2 DEF Record
<1>4. Step(a, r)
  BY Zenon, <1>1 DEF Goto
<1> QED
  BY Zenon, <1>3, <1>4, AdderStep

\* There is a connection already.
LEMMA AddPeerStep == ASSUME IInv, NEW a \in Adders, AddPeer(a) PROVE IInv'
<1>1. proc[a].pc = "exists"
  BY Zenon DEF AddPeer
<1>2. proc[a] \in Record
  BY Zenon, Apart DEF IInv, TypeOK
<1>3. proc[a].pc \in {"add", "exists", "replacing"} /\ "add" \in Steps /\ "replacing" \in Steps
  BY Zenon, <1>1 DEF Steps
<1>4. Reading
  BY Zenon DEF AddPeer, Reading, cacheVars
<1>5. PICK again, e : again = [proc[a] EXCEPT !.n = proc[a].n + 1] /\ e = slot[proc[a].c]["in"]
  BY Zenon
<1>6. again \in Record /\ again.got = proc[a].got
  BY <1>2, <1>5 DEF Record
<1>7. ASSUME NEW m \in Nat, Step(a, [again EXCEPT !.pc = "replacing", !.missed = m]) PROVE IInv'
  <2>1. PICK r : r = [again EXCEPT !.pc = "replacing", !.missed = m]
    BY Zenon
  <2>2. r \in Record /\ r.got = proc[a].got
    BY Zenon, <1>3, <1>6, <2>1 DEF Record
  <2>3. Step(a, r)
    BY Zenon, <1>7, <2>1
  <2> QED
    BY Zenon, <1>3, <1>4, <2>2, <2>3, AdderStep
<1>8. CASE Goto(a, "add")
  BY Zenon, <1>3, <1>4, <1>8, AdderGoes
<1>9. CASE Return(a, ErrClosed) \/ Return(a, None)
  BY Zenon, <1>4, <1>9, Errors, AdderReturns
<1>10. CASE Step(a, [again EXCEPT !.pc = "replacing", !.missed = None])
  BY Zenon, <1>7, <1>10, Errors
<1>11. CASE current = proc[a].c /\ Step(a, [again EXCEPT !.pc = "replacing", !.missed = e.conn])
  <2>1. current \in Pairs /\ "in" \in Sides /\ TypeOK
    BY Zenon, Bounds DEF IInv, TypeOK, Pairs, Sides
  <2>2. e \in Slot
    BY Zenon, <1>5, <1>11, <2>1 DEF TypeOK
  <2>3. e.conn \in Nat
    BY <2>2, Bounds DEF Slot
  <2> QED
    BY Zenon, <1>7, <1>11, <2>3
<1> QED
  BY Zenon, <1>5, <1>8, <1>9, <1>10, <1>11 DEF AddPeer

\* The removal is over.
LEMMA WaitClosingStep == ASSUME IInv, NEW a \in Adders, waitClosing(a) PROVE IInv'
<1>1. proc[a].pc \in {"add", "exists", "replacing"} /\ "add" \in Steps
  BY Zenon DEF waitClosing, Steps
<1>2. Reading /\ Goto(a, "add")
  BY Zenon DEF waitClosing, OnlyProc, Reading, cacheVars, connVars
<1> QED
  BY Zenon, <1>1, <1>2, AdderGoes

\* A connection is accepted.
LEMMA AcceptStep == ASSUME IInv, NEW a \in Adders, Accept(a) PROVE IInv'
<1> USE DEF IInv
<1>1. PICK n, r : n = made + 1 /\ r = [Idle EXCEPT !.pc = "add", !.got = n]
  BY Zenon
<1>2. /\ made < MaxConns /\ made' = n /\ Step(a, r)
      /\ UNCHANGED <<current, built, cancelled, shut, closed, closing, torn, slot, home, watcher, marked, events>>
  BY Zenon, <1>1 DEF Accept, cacheVars
<1>3. made \in Nat /\ n \in Conns /\ n > made /\ n \in Nat /\ n \in 0 .. MaxConns
  BY <1>1, <1>2, Bounds DEF TypeOK, Conns
<1>4. r \in Record /\ r.pc = "add" /\ r.got = n
  BY Zenon, <1>1, <1>3, InitRecord DEF Record, Steps
<1>5. /\ proc' \in [Procs -> Record] /\ proc'[a] = r
      /\ \A h \in Procs : h # a => proc'[h] = proc[h]
  BY Zenon, <1>2, <1>4, ProcSet, Apart
<1>6. /\ \A g \in Callers : proc'[g] = proc[g]
      /\ \A b \in Adders : b # a => proc'[b] = proc[b]
      /\ \A f \in Flushers : proc'[f] = proc[f]
      /\ proc'["close"] = proc["close"]
  BY Zenon, <1>5, Apart
<1>7. TypeOK'
  BY Zenon, <1>2, <1>3, <1>5 DEF TypeOK
<1>8. PairInv'
  BY Zenon, <1>2, <1>6 DEF PairInv
<1>9. \A c \in Pairs, s \in Sides, m \in Conns : In(c, s, m)' => In(c, s, m)
  BY Zenon, <1>2 DEF In
<1>10. HomeInv'
  <2>1. \A c \in Pairs, s \in Sides, m \in Conns : In(c, s, m)' => home'[m] = <<c, s>>
    BY Zenon, <1>2, <1>9 DEF HomeInv
  <2>2. \A m \in Conns : (m > made' => m > made)
    BY <1>1, <1>2, <1>3, Bounds DEF Conns
  <2>3. \A m \in Conns : (m > made' => home'[m][1] = None) /\ (home'[m][1] = None => watcher'[m] = "none")
    BY Zenon, <1>2, <2>2 DEF HomeInv
  <2>4. \A b \in Adders : b # a /\ proc'[b].pc \in {"add", "exists", "replacing"} =>
           proc'[b] = proc[b] /\ proc[b].got \in 1 .. made /\ home[proc[b].got][1] = None
    BY Zenon, <1>6 DEF HomeInv
  <2>5. n \notin 1 .. made /\ 1 .. made \subseteq 1 .. made' /\ n \in 1 .. made'
    BY <1>1, <1>2, <1>3
  <2>6. home[n][1] = None
    BY Zenon, <1>3 DEF HomeInv
  <2>7. ASSUME NEW b \in Adders, proc'[b].pc \in {"add", "exists", "replacing"}
        PROVE  proc'[b].got \in 1 .. made' /\ home'[proc'[b].got][1] = None
    BY Zenon, <1>2, <1>4, <1>5, <2>4, <2>5, <2>6, <2>7
  <2>8. ASSUME NEW b \in Adders, proc'[b].pc \in {"add", "exists", "replacing"},
               NEW d \in Adders, proc'[d].pc \in {"add", "exists", "replacing"}, proc'[d].got = proc'[b].got
        PROVE  b = d
    <3>1. CASE b = a \/ d = a
      BY Zenon, <1>4, <1>5, <2>4, <2>5, <2>8, <3>1
    <3>2. CASE b # a /\ d # a
      <4>1. proc'[b] = proc[b] /\ proc'[d] = proc[d]
        BY Zenon, <1>6, <3>2
      <4>2. /\ proc[b].pc \in {"add", "exists", "replacing"} /\ proc[d].pc \in {"add", "exists", "replacing"}
            /\ proc[d].got = proc[b].got
        BY Zenon, <2>8, <4>1
      <4> QED
        BY Zenon, <4>2 DEF HomeInv
    <3> QED
      BY Zenon, <3>1, <3>2
  <2> QED
    BY Zenon, <2>1, <2>3, <2>7, <2>8 DEF HomeInv
<1>11. WatcherInv'
  BY Zenon, <1>2, <1>9, WatcherKept
<1>12. Onward /\ built \in Nat /\ built' \in Nat
  BY <1>2 DEF Onward, TypeOK, Pairs
<1>13. CallerInv'
  BY Zenon, <1>2, <1>6, <1>12, CallersKept
<1>14. FlushInv'
  <2>1. \A f \in Flushers : proc[f].pc \in {"cancel", "walk"} => proc[f].c \notin torn'
    BY Zenon, <1>2 DEF FlushInv
  <2> QED
    BY Zenon, <1>2, <1>6, <1>12, <2>1, FlushKept
<1>15. EventInv'
  BY Zenon, <1>2 DEF EventInv
<1> QED
  BY Zenon, <1>7, <1>8, <1>10, <1>11, <1>13, <1>14, <1>15

\* It is added to the current pair.
LEMMA AddIncomingStep == ASSUME IInv, NEW a \in Adders, addIncoming(a) PROVE IInv'
<1>0. TypeOK /\ HomeInv
  BY Zenon DEF IInv
<1>1. proc[a].pc = "add"
  BY Zenon DEF addIncoming
<1>2. proc[a] \in Record /\ proc[a].pc \in {"add", "exists", "replacing"}
  BY Zenon, <1>1, Apart DEF IInv, TypeOK
<1>3. UNCHANGED <<current, built, cancelled, shut, closed, closing, torn, made, marked, events>>
  BY Zenon DEF addIncoming, cacheVars
<1>4. current \in Pairs /\ current \in Nat /\ "in" \in Sides
  BY Bounds DEF IInv, TypeOK, Pairs, Sides
<1>5. CASE Return(a, ErrClosed) /\ UNCHANGED <<slot, home, watcher>>
  BY Zenon, <1>3, <1>5, Errors, AdderReturns DEF Reading
<1>6. CASE Step(a, [proc[a] EXCEPT !.pc = "exists", !.c = current]) /\ UNCHANGED <<slot, home, watcher>>
  <2>1. PICK r : r = [proc[a] EXCEPT !.pc = "exists", !.c = current]
    BY Zenon
  <2>2. r \in Record /\ r.got = proc[a].got
    BY Zenon, <1>2, <1>4, <2>1 DEF Record, Steps
  <2>3. Step(a, r)
    BY Zenon, <1>6, <2>1
  <2> QED
    BY Zenon, <1>2, <1>3, <1>6, <2>2, <2>3, AdderStep DEF Reading
<1>7. CASE /\ Put(current, "in", Active(proc[a].got))
           /\ home' = [home EXCEPT ![proc[a].got] = <<current, "in">>]
           /\ watcher' = [watcher EXCEPT ![proc[a].got] = "wait"]
           /\ Return(a, proc[a].got)
  <2>1. PICK n, c : n = proc[a].got /\ c = current
    BY Zenon
  <2>2. n \in 1 .. made /\ home[n][1] = None
    BY Zenon, <1>0, <1>2, <2>1 DEF HomeInv
  <2>3. n \in Conns /\ n \in Nat /\ n \in 0 .. MaxConns + 1 /\ made \in 0 .. MaxConns /\ made <= made /\ n <= made
    BY <1>0, <2>2, Bounds DEF TypeOK, Conns
  <2>4. /\ Put(c, "in", Active(n)) /\ home' = [home EXCEPT ![n] = <<c, "in">>]
        /\ Watch(n, "wait") /\ Return(a, n)
    BY Zenon, <1>7, <2>1 DEF Watch
  <2>5. PICK r \in Record : Step(a, r) /\ r.pc \in Over
    BY Zenon, <2>3, <2>4, Returns
  <2>6. r.pc \notin {"add", "exists", "replacing"}
    BY Zenon, <2>5 DEF Over
  <2>7. /\ proc' \in [Procs -> Record] /\ proc'[a] = r
        /\ \A h \in Procs : h # a => proc'[h] = proc[h]
    BY Zenon, <1>0, <2>5, ProcSet, Apart
  <2>8. /\ \A g \in Callers : proc'[g] = proc[g]
        /\ \A b \in Adders : b # a => proc'[b] = proc[b]
        /\ \A f \in Flushers : proc'[f] = proc[f]
        /\ proc'["close"] = proc["close"]
    BY Zenon, <2>7, Apart
  <2>9. ASSUME NEW b \in Adders, proc'[b].pc \in {"add", "exists", "replacing"}
        PROVE  proc'[b] = proc[b] /\ proc[b].got # n
    <3>1. b # a
      BY Zenon, <2>6, <2>7, <2>9
    <3>2. proc'[b] = proc[b]
      BY Zenon, <2>8, <3>1
    <3>3. proc[b].pc \in {"add", "exists", "replacing"}
      BY Zenon, <2>9, <3>2
    <3> QED
      BY Zenon, <1>0, <1>2, <2>1, <3>1, <3>2, <3>3 DEF HomeInv
  <2>10. Active(n) \in Slot /\ Active(n).conn = n
    BY Zenon, <2>3, SlotTyped
  <2>11. slot' \in [Pairs -> [Sides -> Slot]] /\ PutThere(c, "in", Active(n))
    BY Zenon, <1>0, <2>4, <2>10, PutSlot
  <2>12. OnlyThere(c, "in", n)
    BY Zenon, <2>10, <2>11 DEF In, PutThere, OnlyThere
  <2>13. c \in Pairs
    BY Zenon, <1>4, <2>1
  <2>14. /\ made' \in 0 .. MaxConns /\ made <= made' /\ n <= made'
         /\ UNCHANGED <<current, built, cancelled, shut, closed, closing, torn, marked, events>>
    BY Zenon, <1>3, <2>3
  <2>15. n \in Conns /\ home[n][1] = None /\ home' = [home EXCEPT ![n] = <<c, "in">>] /\ Watch(n, "wait")
    BY Zenon, <2>2, <2>3, <2>4
  <2>16. /\ \A g \in Callers : proc'[g] = proc[g] \/ Fits(g, proc[g])'
         /\ \A f \in Flushers : proc'[f] = proc[f]
         /\ proc'["close"] = proc["close"]
    BY Zenon, <2>8
  <2>17. /\ \A b \in Adders : proc'[b].pc \in {"add", "exists", "replacing"} => proc'[b] = proc[b] /\ proc[b].got # n
         /\ proc' \in [Procs -> Record] /\ slot' \in [Pairs -> [Sides -> Slot]]
    BY Zenon, <2>7, <2>9, <2>11
  <2> QED
    BY Zenon, <1>4, <2>12, <2>13, <2>14, <2>15, <2>16, <2>17, PlaceStep
<1> QED
  BY Zenon, <1>5, <1>6, <1>7 DEF addIncoming

-----------------------------------------------------------------------------
\* Flush and Close.

\* A step of Flush or of Close, as far as the others are concerned.
LEMMA EndStep ==
    ASSUME IInv, TypeOK', PairInv', FlushInv', EventInv', Onward,
           UNCHANGED <<made, home, watcher>>,
           \A c \in Pairs, s \in Sides, n \in Conns : In(c, s, n)' => In(c, s, n),
           \A h \in Callers \cup Adders : proc'[h] = proc[h]
    PROVE  IInv'
<1> USE DEF IInv
<1>1. HomeInv'
  BY Zenon, HomeKept
<1>2. WatcherInv'
  BY Zenon, WatcherKept DEF Onward
<1>3. built' \in Nat
  BY DEF TypeOK, Pairs
<1>4. CallerInv'
  BY Zenon, <1>3, CallersKept
<1> QED
  BY Zenon, <1>1, <1>2, <1>4

\* A Flush goes on or ends, without touching the caches.
LEMMA FlushGoes ==
    ASSUME IInv, NEW f \in Flushers, NEW r \in Record, Step(f, r),
           UNCHANGED <<current, built, shut, closed, closing, slot, made, home, watcher>>,
           cancelled \subseteq cancelled', torn \subseteq torn',
           cancelled' \subseteq 1 .. built, torn' \subseteq 1 .. built,
           current \in cancelled' \cup torn' => closed,
           events' \in [Conns -> Nat], FlushInv', EventInv'
    PROVE  IInv'
<1>0. TypeOK /\ PairInv
  BY Zenon DEF IInv
<1>1. /\ proc' \in [Procs -> Record] /\ proc'[f] = r
      /\ \A h \in Procs : h # f => proc'[h] = proc[h]
  BY Zenon, <1>0, ProcSet, Apart
<1>2. (\A h \in Callers \cup Adders : proc'[h] = proc[h]) /\ proc'["close"] = proc["close"]
  BY Zenon, <1>1, Apart
<1>3. TypeOK'
  <2>1. \A x \in shut' : x[1] \in torn'
    BY Zenon, <1>0 DEF TypeOK
  <2> QED
    BY Zenon, <1>0, <1>1, <2>1 DEF TypeOK
<1>4. PairInv'
  BY Zenon, <1>0, <1>2 DEF PairInv
<1>5. \A c \in Pairs, s \in Sides, n \in Conns : In(c, s, n)' => In(c, s, n)
  BY Zenon DEF In
<1>6. Onward
  <2>1. built <= built'
    BY <1>0 DEF TypeOK, Pairs
  <2> QED
    BY Zenon, <2>1 DEF Onward
<1> QED
  BY Zenon, <1>2, <1>3, <1>4, <1>5, <1>6, EndStep

\* A Flush returns.
LEMMA FlushReturns ==
    ASSUME IInv, NEW f \in Flushers, NEW n \in Nat, Return(f, n), Reading
    PROVE  IInv'
<1> USE DEF IInv, Reading
<1>1. PICK r \in Record : Step(f, r) /\ r.pc \in Over
  BY Zenon, Returns
<1>2. r.pc \notin {"cancel", "walk", "notify"}
  BY Zenon, <1>1 DEF Over
<1>3. /\ proc'[f] = r
      /\ \A h \in Procs : h # f => proc'[h] = proc[h]
  BY Zenon, <1>1, ProcSet, Apart
<1>4. \A e \in Flushers : Flushing(e)' => proc'[e] = proc[e]
  BY Zenon, <1>2, <1>3, Apart DEF Flushing
<1>5. Onward /\ built' \in Nat
  BY DEF Onward, TypeOK, Pairs
<1>6. FlushInv'
  <2>1. \A e \in Flushers : proc[e].pc \in {"cancel", "walk"} => proc[e].c \notin torn'
    BY Zenon DEF FlushInv
  <2> QED
    BY Zenon, <1>4, <1>5, <2>1, FlushKept
<1>7. EventInv'
  BY Zenon DEF EventInv
<1>8. cancelled \subseteq 1 .. built /\ torn \subseteq 1 .. built /\ events' \in [Conns -> Nat]
      /\ (current \in cancelled \cup torn => closed)
  BY Zenon DEF TypeOK, PairInv
<1> QED
  BY Zenon, <1>1, <1>6, <1>7, <1>8, FlushGoes

\* The pair is replaced.
LEMMA FlushStep == ASSUME IInv, NEW f \in Flushers, Flush(f) PROVE IInv'
<1> USE DEF IInv
<1>1. CASE Return(f, None) /\ UNCHANGED <<current, built, swapping, slot>>
  BY Zenon, <1>1, Errors, FlushReturns DEF Flush, Reading, connVars
<1>2. CASE /\ ~closed /\ built < MaxPairs /\ built' = built + 1 /\ current' = built + 1
           /\ slot' = IF slot[current]["out"] = Active(Verdict)
                      THEN [slot EXCEPT ![built + 1]["out"] = Active(Verdict)] ELSE slot
           /\ Step(f, [proc[f] EXCEPT !.pc = "cancel", !.c = current])
  <2>1. UNCHANGED <<cancelled, shut, closed, closing, torn, made, home, watcher, marked, events>>
    BY Zenon DEF Flush, connVars
  <2>2. proc[f].pc = "idle" /\ proc[f] \in Record
    BY Zenon, Apart DEF Flush, TypeOK
  <2>3. PICK r : r = [proc[f] EXCEPT !.pc = "cancel", !.c = current]
    BY Zenon
  <2>4. built \in Nat /\ built >= 1 /\ current = built /\ built' \in Pairs /\ current' = built' /\ built' \in Nat
    BY <1>2, Bounds DEF TypeOK, Pairs
  <2>5. r \in Record /\ r.pc = "cancel" /\ r.c = built
    BY Zenon, <2>2, <2>3, <2>4 DEF Record, Steps
  <2>6. /\ proc' \in [Procs -> Record] /\ proc'[f] = r
        /\ \A h \in Procs : h # f => proc'[h] = proc[h]
    BY Zenon, <1>2, <2>3, <2>5, ProcSet, Apart
  <2>7. /\ \A h \in Callers \cup Adders : proc'[h] = proc[h]
        /\ \A e \in Flushers : e # f => proc'[e] = proc[e]
        /\ proc'["close"] = proc["close"]
    BY Zenon, <2>6, Apart
  <2>8. /\ slot' \in [Pairs -> [Sides -> Slot]]
        /\ \A c \in Pairs, s \in Sides, n \in Conns : In(c, s, n)' => In(c, s, n)
    <3>1. CASE slot[current]["out"] = Active(Verdict)
      <4>1. PICK c : c = built + 1
        BY Zenon
      <4>2. Put(c, "out", Active(Verdict))
        BY Zenon, <1>2, <3>1, <4>1 DEF Put
      <4>3. Verdict \in 0 .. MaxConns + 1 /\ Verdict \notin Conns
        BY Bounds DEF Verdict, Conns
      <4>4. Active(Verdict) \in Slot /\ Active(Verdict).conn \notin Conns
        BY Zenon, <4>3, SlotTyped
      <4> QED
        BY Zenon, <4>2, <4>4, PutKept
    <3>2. CASE slot[current]["out"] # Active(Verdict)
      BY Zenon, <1>2, <3>2 DEF In, TypeOK
    <3> QED
      BY Zenon, <3>1, <3>2
  <2>9. 1 .. built \subseteq 1 .. built' /\ built' \notin 1 .. built /\ built <= built'
    BY <1>2, <2>4
  <2>10. TypeOK'
    BY Zenon, <2>1, <2>4, <2>6, <2>8, <2>9 DEF TypeOK
  <2>11. PairInv'
    BY Zenon, <2>1, <2>4, <2>7, <2>9 DEF PairInv, TypeOK
  <2>12. Onward
    BY Zenon, <2>1, <2>9 DEF Onward
  <2>13. built \notin torn
    BY Zenon, <1>2, <2>4 DEF PairInv
  <2>14. \A e \in Flushers : Flushing(e)' => e = f \/ Flushing(e)
    BY Zenon, <2>7 DEF Flushing
  <2>15. FlushInv'
    <3>1. \A n \in marked' : n \in Conns /\ home'[n][1] \in torn'
      BY Zenon, <2>1 DEF FlushInv
    <3>2. ASSUME NEW e \in Flushers
          PROVE  /\ Flushing(e)' => proc'[e].c \in 1 .. built' - 1
                 /\ proc'[e].pc \in {"cancel", "walk"} => proc'[e].c \notin torn'
                 /\ proc'[e].pc = "notify" =>
                      /\ proc'[e].got \subseteq marked'
                      /\ \A n \in proc'[e].got : home'[n][1] = proc'[e].c /\ (~closing' => events'[n] = 0)
      <4>1. CASE e = f
        <5>1. built \in 1 .. built' - 1 /\ "cancel" # "notify"
          BY <1>2, <2>4
        <5> QED
          BY Zenon, <2>1, <2>5, <2>6, <2>13, <4>1, <5>1
      <4>2. CASE e # f
        <5>1. 1 .. built - 1 \subseteq 1 .. built' - 1
          BY <1>2, <2>4
        <5>2. proc'[e] = proc[e] /\ (Flushing(e)' => Flushing(e))
          BY Zenon, <2>7, <2>14, <4>2
        <5>3. /\ Flushing(e) => proc[e].c \in 1 .. built - 1
              /\ proc[e].pc \in {"cancel", "walk"} => proc[e].c \notin torn
              /\ proc[e].pc = "notify" =>
                   /\ proc[e].got \subseteq marked
                   /\ \A n \in proc[e].got : home[n][1] = proc[e].c /\ (~closing => events[n] = 0)
          BY Zenon DEF FlushInv
        <5> QED
          BY Zenon, <2>1, <5>1, <5>2, <5>3
      <4> QED
        BY Zenon, <4>1, <4>2
    <3>3. ASSUME NEW e \in Flushers, NEW d \in Flushers, Flushing(d)', Flushing(e)', proc'[d].c = proc'[e].c
          PROVE  d = e
      <4>1. \A h \in Flushers : h # f /\ Flushing(h)' => proc'[h] = proc[h] /\ Flushing(h) /\ proc[h].c \in 1 .. built - 1
        BY Zenon, <2>7, <2>14 DEF FlushInv
      <4>2. built \notin 1 .. built - 1
        BY <2>4
      <4>3. CASE d = f \/ e = f
        BY Zenon, <2>5, <2>6, <3>3, <4>1, <4>2, <4>3
      <4>4. CASE d # f /\ e # f
        BY Zenon, <3>3, <4>1, <4>4 DEF FlushInv
      <4> QED
        BY Zenon, <4>3, <4>4
    <3> QED
      BY Zenon, <3>1, <3>2, <3>3 DEF FlushInv
  <2>16. EventInv'
    BY Zenon, <2>1 DEF EventInv
  <2> QED
    BY Zenon, <2>1, <2>7, <2>8, <2>10, <2>11, <2>12, <2>15, <2>16, EndStep
<1> QED
  BY Zenon, <1>1, <1>2 DEF Flush

\* What the invariant tells of a Flush.
LEMMA FlushAt ==
    ASSUME IInv, NEW f \in Flushers, Flushing(f)
    PROVE  /\ proc[f] \in Record /\ proc[f].c \in 1 .. built - 1 /\ proc[f].c \in 1 .. built /\ proc[f].c \in Pairs
           /\ proc[f].c # current
           /\ \A e \in Flushers : e # f /\ Flushing(e) => proc[e].c # proc[f].c
<1>1. proc[f] \in Record /\ proc[f].c \in 1 .. built - 1
  BY Zenon, Apart DEF IInv, TypeOK, FlushInv
<1>2. proc[f].c \in 1 .. built /\ proc[f].c \in Pairs /\ proc[f].c # current
  BY <1>1, Bounds DEF IInv, TypeOK, Pairs
<1>3. \A e \in Flushers : e # f /\ Flushing(e) => proc[e].c # proc[f].c
  BY Zenon DEF IInv, FlushInv
<1> QED
  BY Zenon, <1>1, <1>2, <1>3

\* The Flushes, when one goes on with its pair.
LEMMA FlushOn ==
    ASSUME IInv, NEW f \in Flushers, Flushing(f), NEW r \in Record, Step(f, r), r.c = proc[f].c,
           r.pc \in {"cancel", "walk", "notify"},
           UNCHANGED <<built, closing, home>>,
           \A n \in marked' : n \in Conns /\ home[n][1] \in torn',
           marked \subseteq marked',
           torn' \subseteq torn \cup {proc[f].c},
           r.pc \in {"cancel", "walk"} => r.c \notin torn',
           r.pc = "notify" =>
              r.got \subseteq marked' /\ \A n \in r.got : home[n][1] = r.c /\ (~closing => events'[n] = 0),
           \A n \in Conns : home[n][1] # proc[f].c => events'[n] = events[n]
    PROVE  FlushInv'
<1>1. /\ proc'[f] = r
      /\ \A h \in Procs : h # f => proc'[h] = proc[h]
  BY Zenon, ProcSet, Apart DEF IInv
<1>2. \A e \in Flushers : e # f => proc'[e] = proc[e]
  BY Zenon, <1>1, Apart
<1>3. r.c \in 1 .. built - 1 /\ \A e \in Flushers : e # f /\ Flushing(e) => proc[e].c # r.c
  BY Zenon, FlushAt
<1>4. ASSUME NEW e \in Flushers
      PROVE  /\ Flushing(e)' => proc'[e].c \in 1 .. built' - 1
             /\ proc'[e].pc \in {"cancel", "walk"} => proc'[e].c \notin torn'
             /\ proc'[e].pc = "notify" =>
                  /\ proc'[e].got \subseteq marked'
                  /\ \A n \in proc'[e].got : home'[n][1] = proc'[e].c /\ (~closing' => events'[n] = 0)
  <2>1. CASE e = f
    BY Zenon, <1>1, <1>3, <2>1
  <2>2. CASE e # f
    <3>1. proc'[e] = proc[e]
      BY Zenon, <1>2, <2>2
    <3>2. /\ Flushing(e) => proc[e].c \in 1 .. built - 1
          /\ proc[e].pc \in {"cancel", "walk"} => proc[e].c \notin torn
          /\ proc[e].pc = "notify" =>
               /\ proc[e].got \subseteq marked
               /\ \A n \in proc[e].got : home[n][1] = proc[e].c /\ (~closing => events[n] = 0)
      BY Zenon DEF IInv, FlushInv
    <3>3. proc[e].pc \in {"cancel", "walk"} \/ proc[e].pc = "notify" => proc[e].c # r.c
      <4>1. proc[e].pc \in {"cancel", "walk"} \/ proc[e].pc = "notify" => Flushing(e)
        BY Zenon DEF Flushing
      <4> QED
        BY Zenon, <1>3, <2>2, <4>1
    <3>4. Flushing(e)' => Flushing(e)
      BY Zenon, <3>1 DEF Flushing
    <3>5. \A n \in marked : n \in Conns
      BY Zenon DEF IInv, FlushInv
    <3>6. proc[e].pc = "notify" =>
               /\ proc[e].got \subseteq marked'
               /\ \A n \in proc[e].got : home[n][1] = proc[e].c /\ (~closing => events'[n] = 0)
      BY Zenon, <3>2, <3>3, <3>5
    <3>7. proc[e].pc \in {"cancel", "walk"} => proc[e].c \notin torn'
      BY Zenon, <3>2, <3>3
    <3> QED
      BY Zenon, <3>1, <3>2, <3>4, <3>6, <3>7
  <2> QED
    BY Zenon, <2>1, <2>2
<1>5. ASSUME NEW e \in Flushers, NEW d \in Flushers, Flushing(d)', Flushing(e)', proc'[d].c = proc'[e].c
      PROVE  d = e
  <2>1. \A h \in Flushers : h # f /\ Flushing(h)' => proc'[h] = proc[h] /\ Flushing(h) /\ proc[h].c # r.c
    BY Zenon, <1>2, <1>3 DEF Flushing
  <2>2. CASE d = f \/ e = f
    BY Zenon, <1>1, <1>5, <2>1, <2>2
  <2>3. CASE d # f /\ e # f
    <3>1. Flushing(d) /\ Flushing(e) /\ proc[d].c = proc[e].c
      BY Zenon, <1>5, <2>1, <2>3
    <3> QED
      BY Zenon, <3>1 DEF IInv, FlushInv
  <2> QED
    BY Zenon, <2>2, <2>3
<1> QED
  BY Zenon, <1>4, <1>5 DEF FlushInv

\* The old pair is cancelled.
LEMMA FlushCancelStep == ASSUME IInv, NEW f \in Flushers, FlushCancel(f) PROVE IInv'
<1>0. TypeOK /\ PairInv /\ FlushInv /\ EventInv
  BY Zenon DEF IInv
<1>1. proc[f].pc = "cancel"
  BY Zenon DEF FlushCancel
<1>2. Flushing(f)
  BY Zenon, <1>1 DEF Flushing
<1>3. /\ proc[f] \in Record /\ proc[f].c \in 1 .. built /\ proc[f].c # current
  BY Zenon, <1>2, FlushAt
<1>4. UNCHANGED <<current, built, shut, closed, closing, torn, slot, made, home, watcher, marked, events>>
  BY Zenon DEF FlushCancel, connVars
<1>5. PICK r : r = [proc[f] EXCEPT !.pc = "walk"]
  BY Zenon
<1>6. r \in Record /\ r.pc = "walk" /\ r.c = proc[f].c
  BY Zenon, <1>3, <1>5 DEF Record, Steps
<1>7. Step(f, r) /\ cancelled' = cancelled \cup {proc[f].c}
  BY Zenon, <1>5 DEF FlushCancel, Goto
<1>8. r.c \notin torn' /\ "walk" # "notify" /\ "walk" \in {"cancel", "walk", "notify"}
  BY Zenon, <1>0, <1>1, <1>4, <1>6 DEF FlushInv
<1>9. \A n \in marked' : n \in Conns /\ home[n][1] \in torn'
  BY Zenon, <1>0, <1>4 DEF FlushInv
<1>10. FlushInv'
  BY Zenon, <1>2, <1>4, <1>6, <1>7, <1>8, <1>9, FlushOn
<1>11. EventInv'
  BY Zenon, <1>0, <1>4 DEF EventInv
<1>12. /\ cancelled \subseteq cancelled' /\ torn \subseteq torn' /\ cancelled' \subseteq 1 .. built
       /\ torn' \subseteq 1 .. built /\ (current \in cancelled' \cup torn' => closed)
       /\ events' \in [Conns -> Nat]
  BY Zenon, <1>0, <1>3, <1>4, <1>7 DEF TypeOK, PairInv
<1> QED
  BY Zenon, <1>4, <1>6, <1>7, <1>10, <1>11, <1>12, FlushGoes

\* What the pair holds is marked: nobody has reported it.
LEMMA FlushWalkStep == ASSUME IInv, NEW f \in Flushers, FlushWalk(f) PROVE IInv'
<1>0. TypeOK /\ PairInv /\ FlushInv /\ EventInv /\ HomeInv /\ WatcherInv
  BY Zenon DEF IInv
<1>1. proc[f].pc = "walk"
  BY Zenon DEF FlushWalk
<1>2. Flushing(f)
  BY Zenon, <1>1 DEF Flushing
<1>3. PICK c, S : c = proc[f].c /\ S = snapshot(c)
  BY Zenon
<1>4. proc[f] \in Record /\ c \in 1 .. built /\ c \in Pairs /\ c # current /\ c \notin torn
  <2>1. proc[f].pc \in {"cancel", "walk"}
    BY Zenon, <1>1
  <2> QED
    BY Zenon, <1>0, <1>2, <1>3, <2>1, FlushAt DEF FlushInv
<1>5. UNCHANGED <<current, built, cancelled, shut, closed, closing, slot, made, home, watcher, events>>
  BY Zenon DEF FlushWalk
<1>6. torn' = torn \cup {c} /\ marked' = marked \cup S
  BY Zenon, <1>3 DEF FlushWalk
<1>7. PICK r : r = [proc[f] EXCEPT !.pc = "notify", !.got = S]
  BY Zenon
<1>8. Step(f, r)
  BY Zenon, <1>3, <1>7 DEF FlushWalk
<1>9. ASSUME NEW n \in S PROVE n \in Conns /\ home[n][1] = c /\ (~closing => events[n] = 0)
  <2>1. PICK s \in Sides : Hit(c, s) /\ n = slot[c][s].conn /\ n \in Conns
    BY Zenon, <1>3, <1>9 DEF snapshot
  <2>2. In(c, s, n) /\ <<c, s>> \notin shut
    BY Zenon, <2>1 DEF In, Hit
  <2>3. home[n] = <<c, s>>
    BY Zenon, <1>0, <1>4, <2>1, <2>2 DEF HomeInv
  <2>4. home[n][1] = c
    BY <2>3
  <2>5. n \notin marked
    BY Zenon, <1>0, <1>4, <2>4 DEF FlushInv
  <2>6. ~closing => watcher[n] \notin {"report", "done"}
    BY Zenon, <1>0, <1>4, <2>1, <2>2 DEF WatcherInv
  <2>7. ~closing => watcher[n] # "done"
    BY Zenon, <2>6
  <2> QED
    BY Zenon, <1>0, <2>1, <2>4, <2>5, <2>7 DEF EventInv
<1>10. S \subseteq Nat
  BY <1>9, Bounds DEF Conns
<1>11. r \in Record /\ r.pc = "notify" /\ r.c = c /\ r.got = S
  BY Zenon, <1>3, <1>4, <1>7, <1>10 DEF Record, Steps
<1>12. \A n \in marked' : n \in Conns /\ home[n][1] \in torn'
  BY Zenon, <1>0, <1>6, <1>9 DEF FlushInv
<1>13. marked \subseteq marked' /\ torn' \subseteq torn \cup {proc[f].c} /\ r.got \subseteq marked'
  BY Zenon, <1>3, <1>6, <1>11
<1>14. \A n \in r.got : home[n][1] = r.c /\ (~closing => events'[n] = 0)
  BY Zenon, <1>5, <1>9, <1>11
<1>15. r.c = proc[f].c /\ r.pc \in {"cancel", "walk", "notify"} /\ r.pc \notin {"cancel", "walk"}
  BY Zenon, <1>3, <1>11
<1>16. FlushInv'
  BY Zenon, <1>2, <1>5, <1>8, <1>11, <1>12, <1>13, <1>14, <1>15, FlushOn
<1>17. EventInv'
  BY Zenon, <1>0, <1>5, <1>6 DEF EventInv
<1>18. /\ cancelled \subseteq cancelled' /\ torn \subseteq torn' /\ cancelled' \subseteq 1 .. built
       /\ torn' \subseteq 1 .. built /\ (current \in cancelled' \cup torn' => closed)
       /\ events' \in [Conns -> Nat]
  BY Zenon, <1>0, <1>4, <1>5, <1>6 DEF TypeOK, PairInv
<1> QED
  BY Zenon, <1>5, <1>8, <1>11, <1>16, <1>17, <1>18, FlushGoes

\* A connection is reported.
LEMMA FlushNotifyStep == ASSUME IInv, NEW f \in Flushers, FlushNotify(f) PROVE IInv'
<1>0. TypeOK /\ PairInv /\ FlushInv /\ EventInv
  BY Zenon DEF IInv
<1>1. proc[f].pc = "notify"
  BY Zenon DEF FlushNotify
<1>2. Flushing(f)
  BY Zenon, <1>1 DEF Flushing
<1>3. proc[f] \in Record
  BY Zenon, <1>2, FlushAt
<1>4. UNCHANGED <<current, built, cancelled, shut, closed, closing, torn, slot, made, home, watcher, marked>>
  BY Zenon DEF FlushNotify, cacheVars
<1>5. CASE Return(f, None) /\ UNCHANGED events
  BY Zenon, <1>4, <1>5, Errors, FlushReturns DEF Reading
<1>6. ASSUME ~closing, NEW n \in proc[f].got, events' = [events EXCEPT ![n] = @ + 1],
             Step(f, [proc[f] EXCEPT !.got = @ \ {n}])
      PROVE  IInv'
  <2>1. /\ proc[f].got \subseteq marked
        /\ \A m \in proc[f].got : home[m][1] = proc[f].c /\ events[m] = 0
    BY Zenon, <1>0, <1>1, <1>6 DEF FlushInv
  <2>2. n \in marked /\ n \in Conns /\ events[n] = 0 /\ home[n][1] = proc[f].c
    BY Zenon, <1>0, <2>1 DEF FlushInv
  <2>3. PICK S, r : S = proc[f].got \ {n} /\ r = [proc[f] EXCEPT !.got = S]
    BY Zenon
  <2>4. S \subseteq Nat
    <3>1. \A m \in marked : m \in Conns
      BY Zenon, <1>0 DEF FlushInv
    <3>2. \A m \in Conns : m \in Nat
      BY Bounds DEF Conns
    <3> QED
      BY Zenon, <2>1, <2>3, <3>1, <3>2
  <2>5. r \in Record /\ r.pc = "notify" /\ r.c = proc[f].c /\ r.got = S
    BY Zenon, <1>1, <1>3, <2>3, <2>4 DEF Record
  <2>6. Step(f, r)
    <3>1. [proc[f] EXCEPT !.got = @ \ {n}] = r
      BY Zenon, <1>3, <2>3 DEF Record
    <3> QED
      BY Zenon, <1>6, <3>1
  <2>7. events' \in [Conns -> Nat] /\ events'[n] = 1 /\ \A m \in Conns : m # n => events'[m] = events[m]
    <3>1. events \in [Conns -> Nat]
      BY Zenon, <1>0 DEF TypeOK
    <3> QED
      BY <1>6, <2>2, <3>1
  <2>8. \A m \in S : m \in marked' /\ home[m][1] = r.c /\ (~closing => events'[m] = 0)
    <3>1. \A m \in S : m \in proc[f].got /\ m # n
      BY Zenon, <2>3
    <3>2. \A m \in S : m \in marked /\ m \in Conns
      BY Zenon, <1>0, <2>1, <3>1 DEF FlushInv
    <3> QED
      BY Zenon, <1>4, <2>1, <2>5, <2>7, <3>1, <3>2
  <2>9. \A m \in marked' : m \in Conns /\ home[m][1] \in torn'
    BY Zenon, <1>0, <1>4 DEF FlushInv
  <2>10. \A m \in Conns : home[m][1] # proc[f].c => events'[m] = events[m]
    BY Zenon, <2>2, <2>7
  <2>11. r.pc \in {"cancel", "walk", "notify"} /\ r.pc \notin {"cancel", "walk"}
    BY Zenon, <2>5
  <2>12. marked \subseteq marked' /\ torn' \subseteq torn \cup {proc[f].c} /\ r.got \subseteq marked'
    BY Zenon, <1>4, <2>5, <2>8
  <2>13. \A m \in r.got : home[m][1] = r.c /\ (~closing => events'[m] = 0)
    BY Zenon, <2>5, <2>8
  <2>14. FlushInv'
    BY Zenon, <1>2, <1>4, <2>5, <2>6, <2>9, <2>10, <2>11, <2>12, <2>13, FlushOn
  <2>15. EventInv'
    <3>1. \A m \in Conns : events[m] <= 1 /\ (m \notin marked /\ watcher[m] # "done" => events[m] = 0)
      BY Zenon, <1>0 DEF EventInv
    <3>2. 1 <= 1
      OBVIOUS
    <3>3. \A m \in Conns : events'[m] <= 1 /\ (m \notin marked' /\ watcher'[m] # "done" => events'[m] = 0)
      BY Zenon, <1>4, <2>2, <2>7, <3>1, <3>2
    <3> QED
      BY Zenon, <3>3 DEF EventInv
  <2>16. /\ cancelled \subseteq cancelled' /\ torn \subseteq torn' /\ cancelled' \subseteq 1 .. built
         /\ torn' \subseteq 1 .. built /\ (current \in cancelled' \cup torn' => closed)
    BY Zenon, <1>0, <1>4 DEF TypeOK, PairInv
  <2> QED
    BY Zenon, <1>4, <2>5, <2>6, <2>7, <2>14, <2>15, <2>16, FlushGoes
<1> QED
  BY Zenon, <1>5, <1>6 DEF FlushNotify

\* Close, and the cancellation of the pool and of its pair.
LEMMA CloseSteps == ASSUME IInv, Close \/ closingCancel \/ CloseCancel PROVE IInv'
<1>0. TypeOK /\ PairInv /\ FlushInv /\ EventInv
  BY Zenon DEF IInv
<1>1. UNCHANGED <<current, built, shut, slot, made, home, watcher, marked, events>>
  BY Zenon DEF Close, closingCancel, CloseCancel, connVars
<1>2. proc["close"] \in Record /\ "close" \in Procs /\ current \in 1 .. built /\ built <= built' /\ built' \in Nat
  <2>1. proc["close"] \in Record /\ "close" \in Procs
    BY Zenon, <1>0, Apart DEF TypeOK
  <2> QED
    BY <1>0, <1>1, <2>1 DEF TypeOK, Pairs
<1>3. \E r \in Record : Step("close", r) /\ (r.pc \in {"closing", "cancel"} => closed')
  <2>1. ASSUME NEW pc \in {"closing", "cancel"}, Goto("close", pc), closed'
        PROVE  \E r \in Record : Step("close", r) /\ (r.pc \in {"closing", "cancel"} => closed')
    <3>1. PICK r : r = [proc["close"] EXCEPT !.pc = pc]
      BY Zenon
    <3>2. r \in Record
      BY Zenon, <1>2, <3>1 DEF Record, Steps
    <3> QED
      BY Zenon, <2>1, <3>1, <3>2 DEF Goto
  <2>2. CASE Close
    BY Zenon, <2>1, <2>2 DEF Close
  <2>3. CASE closingCancel
    <3>1. proc["close"].pc \in {"closing", "cancel"}
      BY Zenon, <2>3 DEF closingCancel
    <3>2. closed'
      BY Zenon, <1>0, <2>3, <3>1 DEF closingCancel, PairInv
    <3> QED
      BY Zenon, <2>1, <2>3, <3>2 DEF closingCancel
  <2>4. CASE CloseCancel
    <3>1. PICK r \in Record : Step("close", r) /\ r.pc \in Over
      BY Zenon, <2>4, Errors, Returns DEF CloseCancel
    <3>2. r.pc \notin {"closing", "cancel"}
      BY Zenon, <3>1 DEF Over
    <3> QED
      BY Zenon, <3>1, <3>2
  <2> QED
    BY Zenon, <2>2, <2>3, <2>4
<1>4. PICK r \in Record : Step("close", r) /\ (r.pc \in {"closing", "cancel"} => closed')
  BY Zenon, <1>3
<1>5. /\ proc' \in [Procs -> Record] /\ proc'["close"] = r
      /\ \A h \in Procs : h # "close" => proc'[h] = proc[h]
  BY Zenon, <1>0, <1>2, <1>4, ProcSet
<1>6. (\A h \in Callers \cup Adders : proc'[h] = proc[h]) /\ \A f \in Flushers : proc'[f] = proc[f]
  BY Zenon, <1>5, Apart
<1>7. /\ closed' \in BOOLEAN /\ closing' \in BOOLEAN
      /\ cancelled' \subseteq cancelled \cup {current} /\ torn' \subseteq torn \cup {current}
      /\ cancelled \subseteq cancelled' /\ torn \subseteq torn'
      /\ closing => closing'
  BY Zenon, <1>0 DEF Close, closingCancel, CloseCancel, TypeOK
<1>8. (closing' => closed') /\ (closed => closed') /\ (current \in cancelled' \cup torn' => closed')
  <2>1. CASE Close
    BY Zenon, <2>1 DEF Close
  <2>2. CASE closingCancel
    <3>1. proc["close"].pc \in {"closing", "cancel"}
      BY Zenon, <2>2 DEF closingCancel
    <3> QED
      BY Zenon, <1>0, <2>2, <3>1 DEF closingCancel, PairInv
  <2>3. CASE CloseCancel
    <3>1. proc["close"].pc \in {"closing", "cancel"}
      BY Zenon, <2>3 DEF CloseCancel
    <3> QED
      BY Zenon, <1>0, <2>3, <3>1 DEF CloseCancel, PairInv
  <2> QED
    BY Zenon, <2>1, <2>2, <2>3
<1>9. TypeOK'
  <2>1. \A x \in shut' : x[1] \in torn'
    BY Zenon, <1>0, <1>1, <1>7 DEF TypeOK
  <2>2. cancelled' \subseteq 1 .. built' /\ torn' \subseteq 1 .. built'
    BY Zenon, <1>0, <1>1, <1>2, <1>7 DEF TypeOK
  <2> QED
    BY Zenon, <1>0, <1>1, <1>5, <1>7, <2>1, <2>2 DEF TypeOK
<1>10. PairInv'
  BY Zenon, <1>1, <1>4, <1>5, <1>8 DEF PairInv
<1>11. Onward
  BY Zenon, <1>1, <1>2, <1>7 DEF Onward
<1>12. FlushInv'
  <2>1. ASSUME NEW f \in Flushers, proc[f].pc \in {"cancel", "walk"} PROVE proc[f].c \notin torn'
    <3>1. Flushing(f)
      BY Zenon, <2>1 DEF Flushing
    <3>2. proc[f].c # current
      BY Zenon, <3>1, FlushAt
    <3> QED
      BY Zenon, <1>0, <1>7, <2>1, <3>2 DEF FlushInv
  <2> QED
    BY Zenon, <1>0, <1>1, <1>2, <1>6, <1>11, <2>1, FlushKept
<1>13. EventInv'
  BY Zenon, <1>0, <1>1 DEF EventInv
<1>14. \A c \in Pairs, s \in Sides, n \in Conns : In(c, s, n)' => In(c, s, n)
  BY Zenon, <1>1 DEF In
<1> QED
  BY Zenon, <1>1, <1>6, <1>9, <1>10, <1>11, <1>12, <1>13, <1>14, EndStep

-----------------------------------------------------------------------------
\* The invariant.

\* Every step of a lookup preserves it.
LEMMA LookupSteps == ASSUME IInv, NEW g \in Callers, Lookup(g) PROVE IInv'
<1>1. CASE fast(g) \/ fastOut(g) \/ fastCheck(g) \/ lookup(g) \/ getIncoming(g) \/ get(g)
  BY Zenon, <1>1, FastStep, FastOutStep, FastCheckStep, LookupStep, GetIncomingStep, GetStep
<1>2. CASE load(g) \/ waitLoad(g) \/ CutShort(g) \/ Dialled(g) \/ DialFails(g) \/ DialRefused(g) \/ Publish(g)
  BY Zenon, <1>2, LoadStep, WaitLoadStep, CutShortStep, DialledStep, DialFailsStep, PublishStep
<1>3. CASE loaded(g) \/ Redial(g) \/ pick(g) \/ picked(g) \/ Cancelled(g) \/ Recheck(g)
  BY Zenon, <1>3, LoadedStep, RedialStep, PickStep, PickedStep, CancelledStep, RecheckStep
<1> QED
  BY Zenon, <1>1, <1>2, <1>3 DEF Lookup

\* So does every step.
LEMMA StepIInv == ASSUME IInv, [Next]_vars PROVE IInv'
<1>1. ASSUME NEW g \in Callers, Call(g) \/ Lookup(g) PROVE IInv'
  BY Zenon, <1>1, CallStep, LookupSteps
<1>2. ASSUME NEW a \in Adders, Accept(a) \/ addIncoming(a) \/ AddPeer(a) \/ waitClosing(a) PROVE IInv'
  BY Zenon, <1>2, AcceptStep, AddIncomingStep, AddPeerStep, WaitClosingStep
<1>3. ASSUME NEW f \in Flushers, Flush(f) \/ FlushCancel(f) \/ FlushWalk(f) \/ FlushNotify(f) PROVE IInv'
  BY Zenon, <1>3, FlushStep, FlushCancelStep, FlushWalkStep, FlushNotifyStep
<1>4. ASSUME NEW c \in Pairs, NEW s \in Sides, TryClose(c, s) \/ closeCaches(c, s) \/ TryClosed(c, s) PROVE IInv'
  BY Zenon, <1>4, TryCloseStep, CloseCachesStep, TryClosedStep
<1>5. ASSUME NEW n \in Conns, evictOnClose(n) \/ Evict(n) \/ Report(n) PROVE IInv'
  BY Zenon, <1>5, EvictOnCloseStep, EvictStep, ReportStep
<1>6. ASSUME NEW n, PeerCloses(n) \/ closePeer(n) PROVE IInv'
  BY Zenon, <1>6, CloseStep
<1>7. ASSUME NEW d, discard(d) PROVE IInv'
  BY Zenon, <1>7, DiscardStep
<1>8. ASSUME Close \/ closingCancel \/ CloseCancel PROVE IInv'
  BY Zenon, <1>8, CloseSteps
<1>9. ASSUME UNCHANGED vars PROVE IInv'
  BY Zenon, <1>9, IdleStep DEF vars, cacheVars, connVars
<1>10. CASE Begin
  BY Zenon, <1>1, <1>2, <1>3, <1>4, <1>6, <1>8, <1>10 DEF Begin
<1>11. CASE Continue
  BY Zenon, <1>1, <1>2, <1>3, <1>4, <1>5, <1>6, <1>7, <1>8, <1>11 DEF Continue
<1>12. CASE Rest
  BY Zenon, <1>9, <1>12 DEF Rest
<1> QED
  BY Zenon, <1>9, <1>10, <1>11, <1>12 DEF Next

\* It always holds.
LEMMA PoolInvariant == Spec => []IInv
<1>1. IInv /\ [Next]_vars => IInv'
  BY Zenon, StepIInv
<1> QED
  BY <1>1, InitIInv, PTL DEF Spec

\* A connection is reported closed once at most, by its watcher or by a Flush, for any number
\* of goroutines, connections and pairs.
THEOREM ClosedIsReportedOnce == Spec => []ReportedOnce
<1>1. IInv => ReportedOnce
  BY Zenon DEF IInv, EventInv, ReportedOnce
<1> QED
  BY <1>1, PoolInvariant, PTL

-----------------------------------------------------------------------------
\* What the lookups return.

\* No call of g ends with a connection or with ErrClosed.
Silent(g) == proc'[g].pc # proc[g].pc => proc'[g].pc \notin {"ok", "errClosed"}

\* A step of one goroutine that is not the end of a call.
LEMMA StepSilent ==
    ASSUME TypeOK, NEW h \in Procs, NEW r, Step(h, r), r.pc \notin {"ok", "errClosed"}
    PROVE  \A g \in Callers : Silent(g)
<1>1. proc \in [Procs -> Record]
  BY Zenon DEF TypeOK
<1>2. proc'[h] = r /\ \A g \in Procs : g # h => proc'[g] = proc[g]
  BY Zenon, <1>1 DEF Step
<1> QED
  BY Zenon, <1>2, Apart DEF Silent

\* A step of somebody who is no caller.
LEMMA OthersSilent ==
    ASSUME TypeOK, NEW h \in Procs \ Callers, NEW r, Step(h, r)
    PROVE  \A g \in Callers : Silent(g)
<1>1. proc \in [Procs -> Record]
  BY Zenon DEF TypeOK
<1>2. \A g \in Procs : g # h => proc'[g] = proc[g]
  BY Zenon, <1>1 DEF Step
<1> QED
  BY Zenon, <1>2, Apart DEF Silent

\* A goroutine goes to another step, or has found something.
LEMMA GotoSilent ==
    ASSUME TypeOK, NEW h \in Procs, NEW pc, Goto(h, pc), pc \notin {"ok", "errClosed"}
    PROVE  \A g \in Callers : Silent(g)
<1>1. PICK r : r = [proc[h] EXCEPT !.pc = pc]
  BY Zenon
<1>2. proc[h] \in Record
  BY Zenon DEF TypeOK
<1>3. r.pc = pc
  BY Zenon, <1>1, <1>2 DEF Record
<1> QED
  BY Zenon, <1>1, <1>3, StepSilent DEF Goto

\* A caller has found something.
LEMMA FoundSilent ==
    ASSUME TypeOK, NEW h \in Procs, NEW n, Found(h, n)
    PROVE  \A g \in Callers : Silent(g)
<1>1. PICK r : r = [proc[h] EXCEPT !.pc = "found", !.got = n]
  BY Zenon
<1>2. proc[h] \in Record
  BY Zenon DEF TypeOK
<1>3. r.pc = "found" /\ "found" \notin {"ok", "errClosed"}
  BY Zenon, <1>1, <1>2 DEF Record
<1> QED
  BY Zenon, <1>1, <1>3, StepSilent DEF Found

\* What a cache held, or a load brought.
LEMMA LiveSilent ==
    ASSUME TypeOK, NEW h \in Procs, NEW s, NEW n, live(h, s, n)
    PROVE  \A g \in Callers : Silent(g)
<1>1. CASE n \in dead
  <2>1. PICK r : r = [proc[h] EXCEPT !.pc = "evicting", !.got = n]
    BY Zenon
  <2>2. proc[h] \in Record
    BY Zenon DEF TypeOK
  <2>3. r.pc = "evicting" /\ "evicting" \notin {"ok", "errClosed"}
    BY Zenon, <2>1, <2>2 DEF Record
  <2> QED
    BY Zenon, <1>1, <2>1, <2>3, StepSilent DEF live
<1>2. CASE n \notin dead
  BY Zenon, <1>2, FoundSilent DEF live
<1> QED
  BY Zenon, <1>1, <1>2

\* The end of a load.
LEMMA LoadedSilent ==
    ASSUME TypeOK, NEW h \in Procs, NEW c, NEW n, NEW pc \in {"found", "loaded"}, Loaded(h, c, n, pc)
    PROVE  \A g \in Callers : Silent(g)
<1>1. ASSUME NEW g \in Callers PROVE Silent(g)
  <2>1. proc \in [Procs -> Record] /\ g \in Procs /\ proc[g] \in Record
    BY Zenon, Apart DEF TypeOK
  <2>2. DOMAIN proc = Procs
    BY Zenon, <2>1
  <2>3. \/ proc'[g] = [proc[g] EXCEPT !.pc = pc, !.got = n]
        \/ proc'[g] = [proc[g] EXCEPT !.got = n, !.pc = IF g \in Pickers THEN "picked" ELSE pc]
        \/ proc'[g] = proc[g]
    BY Zenon, <2>1, <2>2 DEF Loaded
  <2>4. proc'[g].pc \in {pc, "picked"} \/ proc'[g] = proc[g]
    BY Zenon, <2>1, <2>3 DEF Record
  <2>5. pc \notin {"ok", "errClosed"} /\ "picked" \notin {"ok", "errClosed"}
    OBVIOUS
  <2> QED
    BY Zenon, <2>4, <2>5 DEF Silent
<1> QED
  BY Zenon, <1>1

\* The end of a call.
LEMMA ReturnResult ==
    ASSUME TypeOK, NEW h \in Procs, NEW n, Return(h, n)
    PROVE  /\ proc'[h].got = n
           /\ proc'[h].pc = "ok" => n \in Conns
           /\ proc'[h].pc = "errClosed" => n = ErrClosed
           /\ \A g \in Procs : g # h => proc'[g] = proc[g]
<1>1. proc \in [Procs -> Record]
  BY Zenon DEF TypeOK
<1>2. PICK pc : pc = CASE n \in Conns -> "ok" [] n = ErrClosed -> "errClosed" [] OTHER -> "failed"
  BY Zenon
<1>3. (pc = "ok" => n \in Conns) /\ (pc = "errClosed" => n = ErrClosed)
  BY Zenon, <1>2
<1>4. PICK r : r = [Idle EXCEPT !.pc = pc, !.got = n]
  BY Zenon
<1>5. r.pc = pc /\ r.got = n
  BY Zenon, <1>4 DEF Idle
<1>6. Step(h, r)
  BY Zenon, <1>2, <1>4 DEF Return
<1>7. proc'[h] = r /\ \A g \in Procs : g # h => proc'[g] = proc[g]
  BY Zenon, <1>1, <1>6 DEF Step
<1> QED
  BY Zenon, <1>3, <1>5, <1>7

\* What a caller gets is of the current pair, or tells that the pool is closed.
Current(g) ==
  proc'[g].pc # proc[g].pc => /\ proc'[g].pc = "ok" => home[proc'[g].got][1] = current
                              /\ proc'[g].pc = "errClosed" => closed

\* So it is in particular if it gets nothing.
LEMMA SilentCurrent == \A g \in Callers : Silent(g) => Current(g)
  BY Zenon DEF Silent, Current

\* The end of a call with n.
LEMMA ReturnCurrent ==
    ASSUME TypeOK, NEW h \in Callers, NEW n, Return(h, n),
           n \in Conns => home[n][1] = current, n = ErrClosed => closed
    PROVE  \A g \in Callers : Current(g)
<1>1. h \in Procs
  BY Zenon, Apart
<1>2. /\ proc'[h].got = n
      /\ proc'[h].pc = "ok" => n \in Conns
      /\ proc'[h].pc = "errClosed" => n = ErrClosed
      /\ \A g \in Procs : g # h => proc'[g] = proc[g]
  BY Zenon, <1>1, ReturnResult
<1> QED
  BY Zenon, <1>2, Apart DEF Current

\* What fast returns.
LEMMA FastCheckCurrent == ASSUME IInv, NEW h \in Callers, fastCheck(h) PROVE \A g \in Callers : Current(g)
<1>0. TypeOK /\ h \in Procs
  BY Zenon, Apart DEF IInv
<1>1. proc[h].pc = "fastCheck"
  BY Zenon DEF fastCheck
<1>2. "fastCheck" \in Reads /\ "fastCheck" \in Holds
  BY Zenon DEF Reads, Holds
<1>3. proc[h] \in Record /\ Fits(h, proc[h])
  BY Zenon, <1>1, <1>2, Reader
<1>4. CASE proc[h].got \in Conns \ dead /\ current = proc[h].c
  <2>1. PICK n : n = proc[h].got
    BY Zenon
  <2>2. n \in Conns /\ home[n][1] = current
    BY Zenon, <1>1, <1>2, <1>3, <1>4, <2>1 DEF Fits
  <2>3. Return(h, n)
    BY Zenon, <1>4, <2>1 DEF fastCheck
  <2> QED
    BY Zenon, <1>0, <2>2, <2>3, Errors, ReturnCurrent
<1>5. CASE ~(proc[h].got \in Conns \ dead /\ current = proc[h].c)
  <2>1. PICK r : r = [proc[h] EXCEPT !.pc = "lookup", !.got = None]
    BY Zenon
  <2>2. r.pc = "lookup" /\ "lookup" \notin {"ok", "errClosed"}
    BY Zenon, <1>3, <2>1 DEF Record
  <2>3. Step(h, r)
    BY Zenon, <1>5, <2>1 DEF fastCheck
  <2> QED
    BY Zenon, <1>0, <2>2, <2>3, StepSilent, SilentCurrent
<1> QED
  BY Zenon, <1>4, <1>5

\* What lookup returns: if its pair is the current one, its end is that of the pool.
LEMMA RecheckCurrent == ASSUME IInv, NEW h \in Callers, Recheck(h) PROVE \A g \in Callers : Current(g)
<1>0. TypeOK /\ PairInv /\ h \in Procs
  BY Zenon, Apart DEF IInv
<1>1. proc[h].pc = "recheck"
  BY Zenon DEF Recheck
<1>2. "recheck" \in Reads /\ "recheck" \in Holds
  BY Zenon DEF Reads, Holds
<1>3. proc[h] \in Record /\ Fits(h, proc[h])
  BY Zenon, <1>1, <1>2, Reader
<1>4. CASE current = proc[h].c
  <2>1. PICK n : n = IF proc[h].cut THEN ErrClosed ELSE proc[h].got
    BY Zenon
  <2>2. Return(h, n)
    BY Zenon, <1>4, <2>1 DEF Recheck
  <2>3. n \in Conns => home[n][1] = current
    BY Zenon, <1>1, <1>2, <1>3, <1>4, <2>1, Errors DEF Fits
  <2>4. n = ErrClosed => closed
    <3>1. CASE proc[h].cut
      BY Zenon, <1>0, <1>1, <1>3, <1>4, <3>1 DEF Fits, PairInv
    <3>2. CASE ~proc[h].cut
      <4>1. proc[h].pc \in {"loaded", "picked", "found", "recheck"}
        BY Zenon, <1>1
      <4>2. n = ErrClosed => Ended(current)
        BY Zenon, <1>3, <1>4, <2>1, <3>2, <4>1 DEF Fits
      <4> QED
        BY Zenon, <1>0, <4>2 DEF Ended, PairInv
    <3> QED
      BY Zenon, <3>1, <3>2
  <2> QED
    BY Zenon, <1>0, <2>2, <2>3, <2>4, ReturnCurrent
<1>5. CASE current # proc[h].c
  <2>1. Goto(h, "lookup") /\ "lookup" \notin {"ok", "errClosed"}
    BY Zenon, <1>5 DEF Recheck
  <2> QED
    BY Zenon, <1>0, <2>1, GotoSilent, SilentCurrent
<1> QED
  BY Zenon, <1>4, <1>5

\* The first look, and what follows it.
LEMMA FastSilent ==
    ASSUME IInv, NEW h \in Callers, Call(h) \/ fast(h) \/ lookup(h)
    PROVE  \A g \in Callers : Silent(g)
<1>0. TypeOK /\ h \in Procs /\ proc[h] \in Record
  BY Zenon, CallerTyped, Apart DEF IInv
<1>1. CASE Call(h)
  <2>1. PICK r : r = [Idle EXCEPT !.pc = "fast"]
    BY Zenon
  <2>2. r.pc \notin {"ok", "errClosed"}
    BY Zenon, <2>1 DEF Idle
  <2> QED
    BY Zenon, <1>0, <1>1, <2>1, <2>2, StepSilent DEF Call
<1>2. CASE fast(h)
  <2>1. PICK pc, got, m : /\ pc = IF Hit(current, "in") THEN "fastCheck" ELSE "fastOut"
                          /\ got = IF Hit(current, "in") THEN slot[current]["in"].conn ELSE None
                          /\ m = IF Miss(current, "in") THEN current ELSE None
    BY Zenon
  <2>2. PICK r : r = [proc[h] EXCEPT !.c = current, !.pc = pc, !.got = got, !.missed = m]
    BY Zenon
  <2>3. r.pc = pc /\ pc \notin {"ok", "errClosed"}
    BY Zenon, <1>0, <2>1, <2>2 DEF Record
  <2>4. Step(h, r)
    BY Zenon, <1>2, <2>1, <2>2 DEF fast
  <2> QED
    BY Zenon, <1>0, <2>3, <2>4, StepSilent
<1>3. CASE lookup(h)
  <2>1. PICK pc : pc = IF h \in Getters THEN "getIncoming" ELSE "pickIn"
    BY Zenon
  <2>2. PICK r : r = [proc[h] EXCEPT !.c = current, !.got = None, !.pc = pc]
    BY Zenon
  <2>3. r.pc = pc /\ pc \notin {"ok", "errClosed"}
    BY Zenon, <1>0, <2>1, <2>2 DEF Record
  <2>4. Step(h, r)
    BY Zenon, <1>3, <2>1, <2>2 DEF lookup
  <2> QED
    BY Zenon, <1>0, <2>3, <2>4, StepSilent
<1> QED
  BY Zenon, <1>1, <1>2, <1>3

\* A miss in both caches ends a Pick without a connection.
LEMMA FastOutCurrent == ASSUME IInv, NEW h \in Callers, fastOut(h) PROVE \A g \in Callers : Current(g)
<1>0. TypeOK /\ h \in Procs /\ proc[h] \in Record
  BY Zenon, CallerTyped, Apart DEF IInv
<1>1. CASE Step(h, [proc[h] EXCEPT !.pc = "fastCheck", !.got = slot[proc[h].c]["out"].conn, !.missed = None])
  <2>1. PICK r : r = [proc[h] EXCEPT !.pc = "fastCheck", !.got = slot[proc[h].c]["out"].conn, !.missed = None]
    BY Zenon
  <2>2. r.pc \notin {"ok", "errClosed"}
    BY Zenon, <1>0, <2>1 DEF Record
  <2> QED
    BY Zenon, <1>0, <1>1, <2>1, <2>2, StepSilent, SilentCurrent
<1>2. CASE Step(h, [proc[h] EXCEPT !.pc = "lookup", !.missed = None])
  <2>1. PICK r : r = [proc[h] EXCEPT !.pc = "lookup", !.missed = None]
    BY Zenon
  <2>2. r.pc \notin {"ok", "errClosed"}
    BY Zenon, <1>0, <2>1 DEF Record
  <2> QED
    BY Zenon, <1>0, <1>2, <2>1, <2>2, StepSilent, SilentCurrent
<1>3. CASE Return(h, None)
  BY Zenon, <1>0, <1>3, Errors, ReturnCurrent
<1>4. CASE Goto(h, "lookup")
  <2>1. "lookup" \notin {"ok", "errClosed"}
    OBVIOUS
  <2> QED
    BY Zenon, <1>0, <1>4, <2>1, GotoSilent, SilentCurrent
<1> QED
  BY Zenon, <1>1, <1>2, <1>3, <1>4 DEF fastOut

\* The steps between.
LEMMA MiddleSilent ==
    ASSUME IInv, NEW h \in Callers,
           getIncoming(h) \/ get(h) \/ load(h) \/ loaded(h) \/ waitLoad(h) \/ CutShort(h) \/ pick(h) \/ picked(h)
    PROVE  \A g \in Callers : Silent(g)
<1>0. TypeOK /\ h \in Procs /\ proc[h] \in Record
  BY Zenon, CallerTyped, Apart DEF IInv
<1>1. ASSUME NEW pc \in {"get", "dial", "waitLoad", "pickOut"}, Goto(h, pc) PROVE \A g \in Callers : Silent(g)
  <2>1. pc \notin {"ok", "errClosed"}
    OBVIOUS
  <2> QED
    BY Zenon, <1>0, <1>1, <2>1, GotoSilent
<1>2. ASSUME NEW n, Found(h, n) PROVE \A g \in Callers : Silent(g)
  BY Zenon, <1>0, <1>2, FoundSilent
<1>3. ASSUME NEW s, NEW n, live(h, s, n) PROVE \A g \in Callers : Silent(g)
  BY Zenon, <1>0, <1>3, LiveSilent
<1>4. CASE getIncoming(h)
  <2>1. CASE Step(h, [proc[h] EXCEPT !.pc = "get", !.missed = None])
    <3>1. PICK r : r = [proc[h] EXCEPT !.pc = "get", !.missed = None]
      BY Zenon
    <3>2. r.pc \notin {"ok", "errClosed"}
      BY Zenon, <1>0, <3>1 DEF Record
    <3> QED
      BY Zenon, <1>0, <2>1, <3>1, <3>2, StepSilent
  <2> QED
    BY Zenon, <1>1, <1>2, <1>3, <1>4, <2>1 DEF getIncoming
<1>5. CASE get(h)
  BY Zenon, <1>2, <1>3, <1>5 DEF get
<1>6. CASE load(h)
  BY Zenon, <1>1, <1>2, <1>6 DEF load
<1>7. CASE loaded(h)
  BY Zenon, <1>3, <1>7 DEF loaded
<1>8. CASE waitLoad(h)
  BY Zenon, <1>1, <1>8 DEF waitLoad
<1>9. CASE CutShort(h)
  BY Zenon, <1>2, <1>9 DEF CutShort
<1>10. CASE pick(h)
  BY Zenon, <1>1, <1>2, <1>10 DEF pick
<1>11. CASE picked(h)
  BY Zenon, <1>2, <1>11 DEF picked
<1> QED
  BY Zenon, <1>4, <1>5, <1>6, <1>7, <1>8, <1>9, <1>10, <1>11

\* The dial, the eviction and the read of the context.
LEMMA DialSilent ==
    ASSUME IInv, NEW h \in Callers,
           Dialled(h) \/ DialFails(h) \/ DialRefused(h) \/ Publish(h) \/ Redial(h) \/ Cancelled(h)
    PROVE  \A g \in Callers : Silent(g)
<1>0. TypeOK /\ h \in Procs /\ proc[h] \in Record
  BY Zenon, CallerTyped, Apart DEF IInv
<1>1. CASE Dialled(h)
  <2>1. PICK r : r = [proc[h] EXCEPT !.pc = "publish", !.got = made + 1]
    BY Zenon
  <2>2. r.pc \notin {"ok", "errClosed"}
    BY Zenon, <1>0, <2>1 DEF Record
  <2> QED
    BY Zenon, <1>0, <1>1, <2>1, <2>2, StepSilent DEF Dialled
<1>2. CASE DialFails(h) \/ DialRefused(h) \/ Publish(h)
  BY Zenon, <1>0, <1>2, LoadedSilent DEF DialFails, DialRefused, Publish
<1>3. CASE Redial(h)
  <2>1. CASE Step(h, [proc[h] EXCEPT !.pc = "getIncoming", !.got = None])
    <3>1. PICK r : r = [proc[h] EXCEPT !.pc = "getIncoming", !.got = None]
      BY Zenon
    <3>2. r.pc \notin {"ok", "errClosed"}
      BY Zenon, <1>0, <3>1 DEF Record
    <3> QED
      BY Zenon, <1>0, <2>1, <3>1, <3>2, StepSilent
  <2> QED
    BY Zenon, <1>0, <1>3, <2>1, FoundSilent DEF Redial
<1>4. CASE Cancelled(h)
  <2>1. PICK cut : cut = (proc[h].c \in cancelled)
    BY Zenon
  <2>2. PICK r : r = [proc[h] EXCEPT !.pc = "recheck", !.cut = cut]
    BY Zenon
  <2>3. r.pc \notin {"ok", "errClosed"}
    BY Zenon, <1>0, <2>2 DEF Record
  <2>4. Step(h, r)
    BY Zenon, <1>4, <2>1, <2>2 DEF Cancelled
  <2> QED
    BY Zenon, <1>0, <2>3, <2>4, StepSilent
<1> QED
  BY Zenon, <1>1, <1>2, <1>3, <1>4

\* Those who are no callers.
LEMMA RestSilent ==
    ASSUME IInv, NEW h \in Procs \ Callers, \E r : Step(h, r)
    PROVE  \A g \in Callers : Current(g)
  BY Zenon, OthersSilent, SilentCurrent DEF IInv

\* In every step.
LEMMA CurrentStep == ASSUME IInv, [Next]_vars PROVE \A g \in Callers : Current(g)
<1>1. ASSUME NEW h \in Callers, Call(h) \/ Lookup(h) PROVE \A g \in Callers : Current(g)
  BY Zenon, <1>1, FastSilent, FastOutCurrent, FastCheckCurrent, MiddleSilent, DialSilent, RecheckCurrent, SilentCurrent
     DEF Lookup
<1>2. ASSUME NEW a \in Adders, Accept(a) \/ addIncoming(a) \/ AddPeer(a) \/ waitClosing(a)
      PROVE  \A g \in Callers : Current(g)
  <2>1. \E r : Step(a, r)
    BY Zenon, <1>2 DEF Accept, addIncoming, AddPeer, waitClosing, Return, Goto
  <2> QED
    BY Zenon, <2>1, Apart, RestSilent
<1>3. ASSUME NEW f \in Flushers, Flush(f) \/ FlushCancel(f) \/ FlushWalk(f) \/ FlushNotify(f)
      PROVE  \A g \in Callers : Current(g)
  <2>1. \E r : Step(f, r)
    BY Zenon, <1>3 DEF Flush, FlushCancel, FlushWalk, FlushNotify, Return, Goto
  <2> QED
    BY Zenon, <2>1, Apart, RestSilent
<1>4. ASSUME Close \/ closingCancel \/ CloseCancel PROVE \A g \in Callers : Current(g)
  <2>1. \E r : Step("close", r)
    BY Zenon, <1>4 DEF Close, closingCancel, CloseCancel, Return, Goto
  <2> QED
    BY Zenon, <2>1, Apart, RestSilent
<1>5. ASSUME proc' = proc PROVE \A g \in Callers : Current(g)
  BY Zenon, <1>5 DEF Current
<1>6. ASSUME NEW c \in Pairs, NEW s \in Sides, TryClose(c, s) \/ closeCaches(c, s) \/ TryClosed(c, s)
      PROVE  \A g \in Callers : Current(g)
  BY Zenon, <1>5, <1>6 DEF TryClose, closeCaches, TryClosed
<1>7. ASSUME NEW n, evictOnClose(n) \/ Evict(n) \/ Report(n) \/ PeerCloses(n) \/ closePeer(n) \/ discard(n)
      PROVE  \A g \in Callers : Current(g)
  BY Zenon, <1>5, <1>7 DEF evictOnClose, Evict, Report, PeerCloses, closePeer, discard
<1>8. CASE Begin
  BY Zenon, <1>1, <1>2, <1>3, <1>4, <1>6, <1>7, <1>8 DEF Begin
<1>9. CASE Continue
  BY Zenon, <1>1, <1>2, <1>3, <1>4, <1>6, <1>7, <1>9 DEF Continue
<1>10. CASE Rest \/ UNCHANGED vars
  BY Zenon, <1>5, <1>10 DEF Rest, vars
<1> QED
  BY Zenon, <1>8, <1>9, <1>10 DEF Next

\* A lookup returns no connection of a pair that was replaced, and ErrClosed only of a pool
\* that is closed.
THEOREM LookupsAreCurrent == Spec => ResultsAreCurrent
<1>1. IInv /\ [Next]_vars =>
        [\A g \in Callers : proc'[g].pc # proc[g].pc =>
           /\ proc'[g].pc = "ok" => home[proc'[g].got][1] = current
           /\ proc'[g].pc = "errClosed" => closed]_vars
  BY Zenon, CurrentStep DEF Current
<1> QED
  BY <1>1, PoolInvariant, PTL DEF ResultsAreCurrent, Spec
=============================================================================
