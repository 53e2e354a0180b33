---------------------------- MODULE OCacheProofs ----------------------------
(***************************************************************************)
(* Proofs about OCache, for any number of goroutines, ids, entries and     *)
(* operations: no value and no channel is closed twice, an entry that is   *)
(* being closed has exactly one closer, an object never has two open       *)
(* instances, and closing the cache leaks nothing.                         *)
(*                                                                         *)
(* First the inductive invariant and what every step proof uses: how the   *)
(* control operators move a goroutine, the steps after which a goroutine   *)
(* is neither loader nor closer of an entry, and what leaves a part of the *)
(* invariant intact.  Then the steps that create an entry and load its     *)
(* value, those that close it, and the theorems.  The last part is about   *)
(* leaks: the pass of Close takes the entries the map held when the cache  *)
(* was closed; an open entry of a closed cache is always ahead of that     *)
(* pass, and a load the pass waited for cannot become open behind it.      *)
(***************************************************************************)
EXTENDS OCache, TLAPS

Known(e) == e \in Entries /\ e <= count

Loader(p, e) == ent[p] = e /\ pc[p] \in {"loadFunc", "closeLate", "closeLoad"}

\* Entries not created yet are blank, the others have an id.
BlankInv ==
    /\ \A e \in Entries :
         e > count => /\ state[e] = "none"
                      /\ ~loadDone[e]
                      /\ ~hasValue[e]
                      /\ loadErr[e] = "nil"
                      /\ closes[e] = 0
                      /\ chan[e] = 0
                      /\ shut[e] = {}
    /\ \A e \in Entries : e <= count => state[e] # "none" /\ eid[e] \in Ids

\* The map holds created entries under their ids.
MapInv == \A i \in Ids : data[i] # None => Known(data[i]) /\ eid[data[i]] = i

\* Where a goroutine is in Get, Pick or WaitClosing.
ArgPCs == {"get", "waitClose", "parkClose", "loadFunc", "closeLate", "closeLoad", "waitLoad"}

\* The goroutines refer to created entries.
RefInv ==
    /\ \A p \in Procs : ent[p] # None => Known(ent[p])
    /\ \A p \in Procs : pc[p] \notin {"idle", "get"} => ent[p] # None
    /\ \A p \in Procs : pc[p] \in ArgPCs => arg[p] \in Ids
    /\ \A p \in Procs : \A e \in todo[p] : Known(e)

FreshInv == BlankInv /\ MapInv /\ RefInv

\* The entry of a value that is not closed, and of a load that has not failed,
\* is the one in the map.
StoredInv ==
    \A e \in Entries :
        \/ state[e] \in {"active", "closing"}
        \/ state[e] = "loading" /\ loadErr[e] = "nil"
        => data[eid[e]] = e

\* A closing entry has exactly one closer, and its close channel is open.
CloserInv ==
    /\ \A e \in Entries : state[e] = "closing" => \E p \in Procs : Closer(p, e)
    /\ \A p \in Procs : \A e \in Entries : Closer(p, e) => state[e] = "closing"
    /\ \A p, q \in Procs : \A e \in Entries : Closer(p, e) /\ Closer(q, e) => p = q
    /\ \A e \in Entries : state[e] = "closing" => chan[e] \notin shut[e]
    /\ \A e \in Entries : \A k \in shut[e] : k <= chan[e]

\* One loader per entry, and it has not finished.
LoaderInv ==
    /\ \A p, q \in Procs : \A e \in Entries : Loader(p, e) /\ Loader(q, e) => p = q
    /\ \A p \in Procs : \A e \in Entries : Loader(p, e) => ~loadDone[e]
    /\ \A p \in Procs :
         pc[p] = "loadFunc" => state[ent[p]] = "loading" /\ loadErr[ent[p]] = "nil"
    /\ \A p \in Procs :
         pc[p] = "closeLate" => /\ closed
                                /\ state[ent[p]] = "loading"
                                /\ loadErr[ent[p]] = "closed"
                                /\ closes[ent[p]] = 0
                                /\ data[eid[ent[p]]] = None
    /\ \A p, q \in Procs :
         pc[p] = "closeLate" /\ pc[q] = "closeLate" /\ eid[ent[p]] = eid[ent[q]] => p = q

\* How often the value of an entry was closed, by the state of the entry and
\* the position of its closer.
ClosesInv ==
    /\ \A e \in Entries : hasValue[e] <=> state[e] \in {"active", "closing", "closed"}
    /\ \A e \in Entries : closes[e] \in {0, 1}
    /\ \A e \in Entries : state[e] = "active" => closes[e] = 0
    /\ \A e \in Entries : state[e] = "loading" /\ loadErr[e] # "closed" => closes[e] = 0
    /\ \A e \in Entries : state[e] = "closed" => closes[e] = 1
    /\ \A p \in Procs :
         pc[p] \in {"valueClose", "tryClose", "restore", "escalate"} => closes[ent[p]] = 0
    /\ \A p \in Procs : pc[p] \in {"removeDelete", "tryDelete"} => closes[ent[p]] = 1

IInv ==
    /\ TypeOK
    /\ FreshInv
    /\ StoredInv
    /\ CloserInv
    /\ LoaderInv
    /\ ClosesInv
    /\ ~crashed

-----------------------------------------------------------------------------
(* Effects of the control operators on the locals of the goroutines. *)

Busy == {"loadFunc", "closeLate", "closeLoad", "valueClose", "removeDelete",
         "tryClose", "restore", "escalate", "tryDelete"}

\* Nothing happens to the other goroutines.
ProcFrame(p) ==
    \A q \in Procs : q # p => /\ pc'[q] = pc[q]
                              /\ ent'[q] = ent[q]
                              /\ arg'[q] = arg[q]
                              /\ todo'[q] = todo[q]

\* p goes on without being the loader or the closer of any entry.
Quiet(p) ==
    /\ ProcTypeOK'
    /\ ProcFrame(p)
    /\ pc'[p] \notin Busy
    /\ pc'[p] \notin {"idle", "get"} => ent'[p] # None
    /\ pc'[p] \in ArgPCs => arg'[p] \in Ids
    /\ ent'[p] # None => Known(ent'[p])
    /\ \A e \in todo'[p] : Known(e)

\* A goroutine that returns is idle.
LEMMA ReturnQuiet ==
    ASSUME IInv, NEW p \in Procs, Return(p)
    PROVE  Quiet(p) /\ pc'[p] = "idle"
<1>1. ProcTypeOK'
  BY OCacheAssumption DEF IInv, TypeOK, ProcTypeOK, Return, Goto, PCs, Ops
<1>2. ProcFrame(p) /\ pc'[p] = "idle" /\ ent'[p] = None /\ todo'[p] = todo[p]
  BY Zenon DEF IInv, TypeOK, ProcTypeOK, Return, Goto, ProcFrame
<1> QED
  BY Zenon, <1>1, <1>2 DEF Quiet, Busy, ArgPCs, IInv, FreshInv, BlankInv, MapInv, RefInv

\* Step moves one goroutine and nothing else.
LEMMA StepEffect ==
    ASSUME ProcTypeOK, NEW p \in Procs, NEW l \in PCs, Step(p, l)
    PROVE  /\ ProcTypeOK'
           /\ ProcFrame(p)
           /\ pc'[p] = l
           /\ ent'[p] = ent[p]
           /\ arg'[p] = arg[p]
           /\ todo'[p] = todo[p]
  BY Zenon DEF ProcTypeOK, Step, Goto, ProcFrame

\* A step to a position that is neither loading nor closing is quiet.
LEMMA StepQuiet ==
    ASSUME IInv, NEW p \in Procs, NEW l \in PCs \ Busy, Step(p, l),
           l # "idle", l \in ArgPCs => arg[p] \in Ids,
           ent[p] # None
    PROVE  Quiet(p) /\ pc'[p] = l
  BY Zenon, StepEffect DEF Quiet, IInv, FreshInv, BlankInv, MapInv, RefInv, TypeOK

\* finish(p) is quiet: the operation returns or goes on with its next entry.
LEMMA FinishQuiet ==
    ASSUME IInv, NEW p \in Procs, Finish(p)
    PROVE  Quiet(p) /\ pc'[p] \in {"idle", "trySetClosing", "removeWaitLoad"}
<1>1. CASE todo[p] = {} /\ Return(p)
  BY Zenon, <1>1, ReturnQuiet
<1>2. ASSUME NEW e \in todo[p],
             todo' = [todo EXCEPT ![p] = @ \ {e}],
             ent' = [ent EXCEPT ![p] = e],
             Goto(p, IF op[p] = "GC" THEN "trySetClosing" ELSE "removeWaitLoad"),
             UNCHANGED <<op, arg, gen, retries, ctx>>
      PROVE  Quiet(p) /\ pc'[p] \in {"idle", "trySetClosing", "removeWaitLoad"}
  <2>1. e \in Entries /\ e # None /\ Known(e)
    BY OCacheAssumption DEF IInv, FreshInv, BlankInv, MapInv, RefInv, TypeOK, ProcTypeOK
  <2>2. ProcTypeOK'
    BY Zenon, <1>2, <2>1 DEF IInv, TypeOK, ProcTypeOK, Goto, PCs
  <2>3. /\ ProcFrame(p)
        /\ pc'[p] \in {"trySetClosing", "removeWaitLoad"}
        /\ ent'[p] = e
        /\ todo'[p] \subseteq todo[p]
    BY Zenon, <1>2 DEF IInv, TypeOK, ProcTypeOK, Goto, ProcFrame
  <2> QED
    BY Zenon, <2>1, <2>2, <2>3 DEF Quiet, Busy, ArgPCs, IInv, FreshInv, BlankInv, MapInv, RefInv
<1> QED
  BY Zenon, <1>1, <1>2 DEF Finish

\* Starting an operation is quiet.
LEMMA StartQuiet ==
    ASSUME IInv, NEW p \in Procs, NEW o \in Ops, NEW l \in PCs \ Busy,
           NEW i \in Ids, NEW e \in Entries \cup {None}, Start(p, o, l, i, e),
           e = None => l = "get",
           e # None => Known(e)
    PROVE  Quiet(p)
<1>1. ProcTypeOK'
  BY Zenon DEF IInv, TypeOK, ProcTypeOK, Start, Goto
<1>2. /\ ProcFrame(p)
      /\ pc'[p] = l
      /\ ent'[p] = e
      /\ arg'[p] = i
      /\ todo'[p] = todo[p]
  BY Zenon DEF IInv, TypeOK, ProcTypeOK, Start, Goto, ProcFrame
<1> QED
  BY Zenon, <1>1, <1>2 DEF Quiet, IInv, FreshInv, BlankInv, MapInv, RefInv

-----------------------------------------------------------------------------
(* Preservation of the invariant, by the kind of step a goroutine takes. *)

\* What FreshInv says about the locals of one goroutine, after a quiet step.
LEMMA QuietFresh ==
    ASSUME IInv, NEW p \in Procs, Quiet(p),
           UNCHANGED <<data, count, eid, state, loadDone, loadErr, hasValue,
                       chan, shut, closes>>
    PROVE  FreshInv'
<1>1. \A q \in Procs : (ent[q] # None => Known(ent[q]))'
  BY Zenon DEF IInv, FreshInv, BlankInv, MapInv, RefInv, Quiet, ProcFrame, Known
<1>2. \A q \in Procs : pc'[q] \notin {"idle", "get"} => ent'[q] # None
  BY Zenon DEF IInv, FreshInv, BlankInv, MapInv, RefInv, Quiet, ProcFrame
<1>3. \A q \in Procs : pc'[q] \in ArgPCs => arg'[q] \in Ids
  BY Zenon DEF IInv, FreshInv, BlankInv, MapInv, RefInv, Quiet, ProcFrame
<1>4. \A q \in Procs : (\A e \in todo[q] : Known(e))'
  BY Zenon DEF IInv, FreshInv, BlankInv, MapInv, RefInv, Quiet, ProcFrame, Known
<1> QED
  BY Zenon, <1>1, <1>2, <1>3, <1>4 DEF IInv, FreshInv, BlankInv, MapInv, RefInv, Known

\* A quiet step of a goroutine that was neither loader nor closer, and that
\* leaves the entries and the map alone (Close also sets c.closed).
LEMMA QuietStep ==
    ASSUME IInv, NEW p \in Procs, Quiet(p), pc[p] \notin Busy,
           UNCHANGED <<data, count, eid, state, loadDone, loadErr, hasValue,
                       chan, shut, closes, crashed>>,
           closed => closed', closed' \in BOOLEAN,
           aborted' \in [Entries -> BOOLEAN],
           cancelled' \in [Entries -> BOOLEAN],
           BoundsTypeOK'
    PROVE  IInv'
<1>1. TypeOK'
  BY Zenon DEF IInv, TypeOK, CacheTypeOK, EntryTypeOK, Quiet
<1>2. FreshInv'
  BY Zenon, QuietFresh
<1>3. StoredInv'
  BY Zenon DEF IInv, StoredInv
<1>4. \A q \in Procs : \A e \in Entries : Closer(q, e)' <=> Closer(q, e)
  BY Zenon DEF Quiet, ProcFrame, Closer, Busy
<1>5. CloserInv'
  BY Zenon, <1>4 DEF IInv, CloserInv
<1>6. \A q \in Procs : \A e \in Entries : Loader(q, e)' <=> Loader(q, e)
  BY Zenon DEF Quiet, ProcFrame, Loader, Busy
<1>7. \A q \in Procs : pc'[q] \in Busy => pc'[q] = pc[q] /\ ent'[q] = ent[q]
  BY Zenon DEF Quiet, ProcFrame
<1>8. LoaderInv'
  BY <1>6, <1>7 DEF IInv, LoaderInv, Busy
<1>9. ClosesInv'
  BY <1>7 DEF IInv, ClosesInv, Busy
<1> QED
  BY Zenon, <1>1, <1>2, <1>3, <1>5, <1>8, <1>9 DEF IInv

\* An operation that starts without touching an entry keeps the invariant.
LEMMA StartStep ==
    ASSUME IInv, NEW p \in Procs, NEW o \in Ops, NEW l \in PCs \ Busy,
           NEW i \in Ids, NEW e \in Entries \cup {None}, Start(p, o, l, i, e),
           e = None => l = "get",
           e # None => Known(e),
           UNCHANGED <<cacheVars, entryVars>>
    PROVE  IInv'
<1>1. Quiet(p)
  BY Zenon, StartQuiet
<1>2. pc[p] \notin Busy
  BY Zenon DEF Start, Busy
<1>3. BoundsTypeOK'
  BY OCacheAssumption DEF IInv, TypeOK, BoundsTypeOK, Start
<1> QED
  BY Zenon, <1>1, <1>2, <1>3, QuietStep
     DEF cacheVars, entryVars, IInv, TypeOK, CacheTypeOK, EntryTypeOK

\* A call that starts on the entry stored under an id.
LEMMA StartStoredStep ==
    ASSUME IInv, NEW p \in Procs, NEW o \in Ops, NEW l \in PCs \ Busy,
           NEW i \in Ids, data[i] # None, Start(p, o, l, i, data[i]),
           UNCHANGED <<cacheVars, entryVars>>
    PROVE  IInv'
<1>1. data[i] \in Entries /\ Known(data[i])
  BY Zenon DEF IInv, FreshInv, BlankInv, MapInv, RefInv, Known
<1> QED
  BY Zenon, <1>1, StartStep

\* The steps of an operation that only move its goroutine.
LEMMA WorkQuiet ==
    ASSUME IInv, NEW p \in Procs, Quiet(p), pc[p] \notin Busy,
           UNCHANGED <<cacheVars, entryVars, bounds>>
    PROVE  IInv'
<1>1. BoundsTypeOK'
  BY Zenon DEF IInv, TypeOK, BoundsTypeOK, bounds
<1> QED
  BY Zenon, <1>1, QuietStep DEF cacheVars, entryVars, IInv, TypeOK, CacheTypeOK, EntryTypeOK

\* An entry is created in the map: by Get, as a loading entry, or by Add.
Creates(i, e) ==
    /\ i \in Ids
    /\ e \in Entries
    /\ e = count + 1
    /\ data[i] = None
    /\ count' = e
    /\ data' = [data EXCEPT ![i] = e]
    /\ eid' = [eid EXCEPT ![e] = i]
    /\ UNCHANGED <<closed, loadErr, aborted, cancelled, chan, shut, closes, crashed>>

-----------------------------------------------------------------------------
(* Facts about one entry or goroutine, and what leaves a part of the       *)
(* invariant intact.                                                       *)

CloserPCs == {"valueClose", "removeDelete", "tryClose", "restore", "escalate", "tryDelete"}

\* The entry a goroutine works on exists.
LEMMA OwnEntry ==
    ASSUME IInv, NEW p \in Procs, pc[p] \notin {"idle", "get"}
    PROVE  ent[p] \in Entries /\ Known(ent[p]) /\ eid[ent[p]] \in Ids /\ ent[p] # None
  BY Zenon DEF IInv, FreshInv, BlankInv, RefInv, Known

\* A created entry is not beyond the count.
LEMMA KnownNotAbove ==
    ASSUME TypeOK, NEW e, Known(e)
    PROVE  ~(e > count) /\ e \in Entries
  BY DEF Known, TypeOK, CacheTypeOK, Entries

\* The map holds an entry that is open or loading.
LEMMA StoredEntry ==
    ASSUME IInv, NEW f \in Entries,
           \/ state[f] \in {"active", "closing"}
           \/ state[f] = "loading" /\ loadErr[f] = "nil"
    PROVE  data[eid[f]] = f /\ eid[f] \in Ids
<1>1. data[eid[f]] = f
  BY Zenon DEF IInv, StoredInv
<1>2. f > count \/ f <= count
  BY DEF IInv, TypeOK, CacheTypeOK, Entries
<1>3. ~(f > count)
  BY Zenon DEF IInv, FreshInv, BlankInv
<1>4. eid[f] \in Ids
  BY Zenon, <1>2, <1>3 DEF IInv, FreshInv, BlankInv
<1> QED
  BY Zenon, <1>1, <1>4

\* BlankInv when only a created entry changes.
LEMMA BlankFrame ==
    ASSUME BlankInv, NEW e \in Entries, ~(e > count), state'[e] # "none",
           count' = count, eid' = eid,
           \A f \in Entries : f # e => /\ state'[f] = state[f]
                                       /\ loadDone'[f] = loadDone[f]
                                       /\ hasValue'[f] = hasValue[f]
                                       /\ loadErr'[f] = loadErr[f]
                                       /\ closes'[f] = closes[f]
                                       /\ chan'[f] = chan[f]
                                       /\ shut'[f] = shut[f]
    PROVE  BlankInv'
<1>1. ASSUME NEW f \in Entries, f > count'
      PROVE  /\ state'[f] = "none"
             /\ ~loadDone'[f]
             /\ ~hasValue'[f]
             /\ loadErr'[f] = "nil"
             /\ closes'[f] = 0
             /\ chan'[f] = 0
             /\ shut'[f] = {}
  BY Zenon, <1>1 DEF BlankInv
<1>2. ASSUME NEW f \in Entries, f <= count'
      PROVE  state'[f] # "none" /\ eid'[f] \in Ids
  BY Zenon, <1>2 DEF BlankInv
<1> QED
  BY Zenon, <1>1, <1>2 DEF BlankInv

\* CloserInv when no entry starts or stops being closed.
LEMMA CloserFrame ==
    ASSUME CloserInv, chan' = chan, shut' = shut,
           \A q \in Procs : \A f \in Entries : Closer(q, f)' <=> Closer(q, f),
           \A f \in Entries : state'[f] = "closing" <=> state[f] = "closing"
    PROVE  CloserInv'
<1>1. \A e \in Entries : state'[e] = "closing" => \E q \in Procs : Closer(q, e)'
  BY Zenon DEF CloserInv
<1>2. \A q \in Procs : \A e \in Entries : Closer(q, e)' => state'[e] = "closing"
  BY Zenon DEF CloserInv
<1>3. \A q, r \in Procs : \A e \in Entries : Closer(q, e)' /\ Closer(r, e)' => q = r
  BY Zenon DEF CloserInv
<1>4. \A e \in Entries : state'[e] = "closing" => chan'[e] \notin shut'[e]
  BY Zenon DEF CloserInv
<1>5. \A e \in Entries : \A k \in shut'[e] : k <= chan'[e]
  BY Zenon DEF CloserInv
<1> QED
  BY Zenon, <1>1, <1>2, <1>3, <1>4, <1>5 DEF CloserInv

\* LoaderInv when no loader starts, and the others find their entries as they
\* were.
LEMMA LoaderFrame ==
    ASSUME LoaderInv, closed' = closed,
           \A q \in Procs : \A f \in Entries : Loader(q, f)' => Loader(q, f) /\ ~loadDone'[f],
           \A q \in Procs : pc'[q] \in {"loadFunc", "closeLate"} =>
             /\ pc'[q] = pc[q]
             /\ ent'[q] = ent[q]
             /\ state'[ent[q]] = state[ent[q]]
             /\ loadErr'[ent[q]] = loadErr[ent[q]]
             /\ closes'[ent[q]] = closes[ent[q]]
             /\ eid'[ent[q]] = eid[ent[q]]
             /\ pc[q] = "closeLate" => data'[eid[ent[q]]] = data[eid[ent[q]]]
    PROVE  LoaderInv'
<1>1. \A q, r \in Procs : \A e \in Entries : Loader(q, e)' /\ Loader(r, e)' => q = r
  BY Zenon DEF LoaderInv
<1>2. \A q \in Procs : \A e \in Entries : Loader(q, e)' => ~loadDone'[e]
  BY Zenon
<1>3. \A q \in Procs : pc'[q] = "loadFunc" =>
        state'[ent'[q]] = "loading" /\ loadErr'[ent'[q]] = "nil"
  BY DEF LoaderInv
<1>4. \A q \in Procs : pc'[q] = "closeLate" => /\ closed'
                                               /\ state'[ent'[q]] = "loading"
                                               /\ loadErr'[ent'[q]] = "closed"
                                               /\ closes'[ent'[q]] = 0
                                               /\ data'[eid'[ent'[q]]] = None
  BY DEF LoaderInv
<1>5. \A q, r \in Procs : pc'[q] = "closeLate" /\ pc'[r] = "closeLate"
                            /\ eid'[ent'[q]] = eid'[ent'[r]] => q = r
  BY DEF LoaderInv
<1> QED
  BY Zenon, <1>1, <1>2, <1>3, <1>4, <1>5 DEF LoaderInv

\* ClosesInv when only e changes.
LEMMA ClosesFrame ==
    ASSUME ClosesInv, NEW e \in Entries,
           \A f \in Entries : f # e => /\ state'[f] = state[f]
                                       /\ hasValue'[f] = hasValue[f]
                                       /\ loadErr'[f] = loadErr[f]
                                       /\ closes'[f] = closes[f],
           hasValue'[e] <=> state'[e] \in {"active", "closing", "closed"},
           closes'[e] \in {0, 1},
           state'[e] = "active" => closes'[e] = 0,
           state'[e] = "loading" /\ loadErr'[e] # "closed" => closes'[e] = 0,
           state'[e] = "closed" => closes'[e] = 1,
           \A q \in Procs : pc'[q] \in CloserPCs =>
             \/ pc'[q] = pc[q] /\ closes'[ent'[q]] = closes[ent[q]]
             \/ closes'[ent'[q]] = IF pc'[q] \in {"removeDelete", "tryDelete"} THEN 1 ELSE 0
    PROVE  ClosesInv'
<1>1. \A f \in Entries : hasValue'[f] <=> state'[f] \in {"active", "closing", "closed"}
  BY Zenon DEF ClosesInv
<1>2. \A f \in Entries : closes'[f] \in {0, 1}
  BY Zenon DEF ClosesInv
<1>3. \A f \in Entries : state'[f] = "active" => closes'[f] = 0
  BY DEF ClosesInv
<1>4. \A f \in Entries : state'[f] = "loading" /\ loadErr'[f] # "closed" => closes'[f] = 0
  BY DEF ClosesInv
<1>5. \A f \in Entries : state'[f] = "closed" => closes'[f] = 1
  BY DEF ClosesInv
<1>6. \A q \in Procs : pc'[q] \in {"valueClose", "tryClose", "restore", "escalate"}
        => closes'[ent'[q]] = 0
  BY DEF ClosesInv, CloserPCs
<1>7. \A q \in Procs : pc'[q] \in {"removeDelete", "tryDelete"} => closes'[ent'[q]] = 1
  BY Zenon DEF ClosesInv, CloserPCs
<1> QED
  BY Zenon, <1>1, <1>2, <1>3, <1>4, <1>5, <1>6, <1>7 DEF ClosesInv

\* p stays with its entry: what RefInv and the type invariant say of the locals.
LEMMA StepRef ==
    ASSUME IInv, NEW p \in Procs, pc[p] \notin {"idle", "get"},
           NEW l \in PCs, l \notin {"idle", "get"}, Step(p, l),
           l \in ArgPCs => pc[p] \in ArgPCs,
           UNCHANGED count
    PROVE  RefInv' /\ ProcTypeOK' /\ ProcFrame(p) /\ pc'[p] = l /\ ent'[p] = ent[p]
<1>1. /\ ProcTypeOK'
      /\ ProcFrame(p)
      /\ pc'[p] = l
      /\ ent'[p] = ent[p]
      /\ arg'[p] = arg[p]
      /\ todo'[p] = todo[p]
  BY Zenon, StepEffect DEF IInv, TypeOK
<1> QED
  BY Zenon, <1>1 DEF IInv, FreshInv, RefInv, Known, ProcFrame

\* Counting a close of the value of e.
LEMMA ValueClosedEffect ==
    ASSUME IInv, NEW e \in Entries, closes[e] = 0, ValueClosed(e)
    PROVE  /\ closes' \in [Entries -> Nat]
           /\ closes'[e] = 1
           /\ \A f \in Entries : f # e => closes'[f] = closes[f]
  BY DEF IInv, TypeOK, EntryTypeOK, ValueClosed

-----------------------------------------------------------------------------
(* The steps that create an entry keep the inductive invariant. *)

\* A created entry is new: nothing refers to it, and only its id is remapped.
LEMMA CreatesFresh ==
    ASSUME IInv, NEW i \in Ids, NEW e \in Entries, Creates(i, e)
    PROVE  /\ CacheTypeOK'
           /\ eid' \in [Entries -> Ids \cup {None}]
           /\ \A f \in Entries : f <= count' <=> (f <= count \/ f = e)
           /\ \A f \in Entries : f # e => eid'[f] = eid[f]
           /\ eid'[e] = i
           /\ \A j \in Ids : j # i => data'[j] = data[j]
           /\ data'[i] = e
           /\ e > count
           /\ \A q \in Procs : ent[q] # e
           /\ \A j \in Ids : data[j] # e
<1>1. CacheTypeOK'
  BY OCacheAssumption DEF IInv, TypeOK, CacheTypeOK, Creates, Entries
<1>2. count \in Nat /\ e = count + 1 /\ count' = e
  BY OCacheAssumption DEF IInv, TypeOK, CacheTypeOK, Creates
<1>3. \A f \in Entries : f <= count' <=> (f <= count \/ f = e)
  BY <1>2, OCacheAssumption DEF Entries
<1>4. /\ eid' \in [Entries -> Ids \cup {None}]
      /\ \A f \in Entries : f # e => eid'[f] = eid[f]
      /\ eid'[e] = i
  BY Zenon DEF IInv, TypeOK, EntryTypeOK, Creates
<1>5. /\ \A j \in Ids : j # i => data'[j] = data[j]
      /\ data'[i] = e
  BY Zenon DEF IInv, TypeOK, CacheTypeOK, Creates
<1>6. ~(e <= count) /\ e > count
  BY <1>2
<1>7. e # None
  BY Zenon, OCacheAssumption
<1>8. \A q \in Procs : ent[q] # e
  BY <1>6, <1>7 DEF IInv, FreshInv, BlankInv, MapInv, RefInv, Known
<1>9. \A j \in Ids : data[j] # e
  BY <1>6, <1>7 DEF IInv, FreshInv, BlankInv, MapInv, RefInv, Known
<1> QED
  BY Zenon, <1>1, <1>3, <1>4, <1>5, <1>6, <1>8, <1>9

\* Add keeps the invariant.
LEMMA AddStep ==
    ASSUME IInv, NEW p \in Procs, Add(p)
    PROVE  IInv'
<1> PICK i \in Ids : /\ data[i] = None
                     /\ data' = [data EXCEPT ![i] = count + 1]
                     /\ eid' = [eid EXCEPT ![count + 1] = i]
  BY Zenon DEF Add
<1> DEFINE e == count + 1
<1>1. e \in Entries /\ Creates(i, e) /\ ~closed
  BY Zenon DEF Add, Creates
<1> HIDE DEF e
<1>2. /\ state' = [state EXCEPT ![e] = "active"]
      /\ loadDone' = [loadDone EXCEPT ![e] = TRUE]
      /\ hasValue' = [hasValue EXCEPT ![e] = TRUE]
      /\ UNCHANGED <<closed, loadErr, aborted, cancelled, chan, shut, closes, crashed>>
      /\ UNCHANGED <<pc, op, arg, ent, gen, todo, retries, ctx>>
      /\ BoundsTypeOK'
  BY OCacheAssumption DEF Add, procVars, e, IInv, TypeOK, BoundsTypeOK
<1>3. TypeOK'
  BY Zenon, <1>1, <1>2, CreatesFresh DEF IInv, TypeOK, EntryTypeOK, ProcTypeOK, EntryStates
<1>4. /\ \A f \in Entries : f # e => /\ state'[f] = state[f]
                                     /\ loadDone'[f] = loadDone[f]
                                     /\ hasValue'[f] = hasValue[f]
      /\ state'[e] = "active"
      /\ loadDone'[e]
      /\ hasValue'[e]
  BY Zenon, <1>1, <1>2 DEF IInv, TypeOK, EntryTypeOK
<1>5. /\ \A q \in Procs : ent'[q] = ent[q] /\ pc'[q] = pc[q] /\ ent[q] # e
      /\ closes[e] = 0
      /\ loadErr[e] = "nil"
  BY <1>1, <1>2, CreatesFresh DEF IInv, FreshInv, BlankInv, MapInv, RefInv
<1>6. FreshInv'
  <2>1. BlankInv'
    <3>1. \A f \in Entries : f > count' => f > count /\ f # e
      BY <1>1, CreatesFresh DEF Creates, IInv, TypeOK, CacheTypeOK, Entries
    <3>2. \A f \in Entries : f <= count' => f = e \/ f <= count
      BY Zenon, <1>1, CreatesFresh
    <3> QED
      BY <1>1, <1>2, <1>4, <3>1, <3>2, CreatesFresh DEF IInv, FreshInv, BlankInv
  <2>2. MapInv'
    BY <1>1, CreatesFresh DEF IInv, FreshInv, MapInv, Known
  <2>3. RefInv'
    BY Zenon, <1>1, <1>2, CreatesFresh DEF IInv, FreshInv, RefInv, Known
  <2> QED
    BY Zenon, <2>1, <2>2, <2>3 DEF FreshInv
<1>7. StoredInv'
  <2> SUFFICES ASSUME NEW f \in Entries,
                      \/ state'[f] \in {"active", "closing"}
                      \/ state'[f] = "loading" /\ loadErr'[f] = "nil"
               PROVE  data'[eid'[f]] = f
    BY Zenon DEF StoredInv
  <2>1. CASE f = e
    BY <1>1, <2>1, CreatesFresh
  <2>2. CASE f # e
    <3>1. data[eid[f]] = f /\ eid[f] \in Ids
      BY Zenon, <1>2, <1>4, <2>2, StoredEntry
    <3>2. eid[f] # i
      BY Zenon, <3>1, OCacheAssumption
    <3> QED
      BY <1>1, <2>2, <3>1, <3>2, CreatesFresh
  <2> QED
    BY Zenon, <2>1, <2>2
<1>8. \A q \in Procs : \A f \in Entries :
        (Closer(q, f)' <=> Closer(q, f)) /\ (Loader(q, f)' <=> Loader(q, f))
  BY Zenon, <1>5 DEF Closer, Loader
<1>9. \A q \in Procs : ~Closer(q, e) /\ ~Loader(q, e)
  BY Zenon, <1>5 DEF Closer, Loader
<1>10. CloserInv'
  <2>1. state[e] = "none"
    BY <1>1, CreatesFresh, Zenon DEF IInv, FreshInv, BlankInv
  <2>2. \A f \in Entries : state'[f] = "closing" <=> state[f] = "closing"
    BY Zenon, <1>4, <2>1
  <2> QED
    BY Zenon, <1>2, <1>8, <2>2, CloserFrame DEF IInv
<1>11. \A q \in Procs : pc'[q] # "closeLate"
  BY Zenon, <1>1, <1>5 DEF IInv, LoaderInv
<1>12. \A q \in Procs : pc'[q] = "loadFunc" =>
         state'[ent'[q]] = "loading" /\ loadErr'[ent'[q]] = "nil"
  <2> SUFFICES ASSUME NEW q \in Procs, pc[q] = "loadFunc"
               PROVE  state'[ent[q]] = "loading" /\ loadErr[ent[q]] = "nil"
    BY Zenon, <1>2, <1>5
  <2>1. state[ent[q]] = "loading" /\ loadErr[ent[q]] = "nil"
    BY Zenon DEF IInv, LoaderInv
  <2>2. pc[q] \notin {"idle", "get"}
    OBVIOUS
  <2> QED
    BY Zenon, <1>4, <1>5, <2>1, <2>2, OwnEntry
<1>13. LoaderInv'
  <2>1. LoaderInv
    BY Zenon DEF IInv
  <2>2. ASSUME NEW q \in Procs, NEW f \in Entries, Loader(q, f)'
        PROVE  ~loadDone'[f]
    <3>1. Loader(q, f) /\ f # e
      BY Zenon, <1>8, <1>9, <2>2
    <3>2. ~loadDone[f]
      BY Zenon, <2>1, <3>1 DEF LoaderInv
    <3> QED
      BY Zenon, <1>4, <3>1, <3>2
  <2>3. \A q, r \in Procs : \A f \in Entries : Loader(q, f)' /\ Loader(r, f)' => q = r
    BY Zenon, <1>8, <2>1 DEF LoaderInv
  <2> QED
    BY Zenon, <1>11, <1>12, <2>2, <2>3 DEF LoaderInv
<1>14. \A q \in Procs : pc'[q] = pc[q] /\ closes'[ent'[q]] = closes[ent[q]]
  BY <1>2, <1>5, Zenon
<1>15. ClosesInv /\ closes' = closes /\ loadErr' = loadErr
  BY Zenon, <1>2 DEF IInv
<1>16. ClosesInv'
  BY Zenon, <1>1, <1>4, <1>5, <1>14, <1>15, ClosesFrame
<1> QED
  BY Zenon, <1>2, <1>3, <1>6, <1>7, <1>10, <1>13, <1>16 DEF IInv

\* The branch of GetLocked that creates a loading entry.
LEMMA GetCreatesStep ==
    ASSUME IInv, NEW p \in Procs, pc[p] = "get", ~closed,
           NEW i \in Ids, NEW e \in Entries, Creates(i, e),
           state' = [state EXCEPT ![e] = "loading"],
           ent' = [ent EXCEPT ![p] = e],
           pc' = [pc EXCEPT ![p] = "loadFunc"],
           UNCHANGED <<loadDone, hasValue, op, arg, gen, todo, retries, ctx, bounds>>
    PROVE  IInv'
<1>1. UNCHANGED <<closed, loadErr, aborted, cancelled, chan, shut, closes, crashed>>
  BY Zenon DEF Creates
<1>2. ProcTypeOK' /\ BoundsTypeOK'
  BY Zenon DEF IInv, TypeOK, ProcTypeOK, BoundsTypeOK, PCs, bounds
<1>3. EntryTypeOK'
  <2>1. state' \in [Entries -> EntryStates]
    BY Zenon DEF IInv, TypeOK, EntryTypeOK, EntryStates
  <2> QED
    BY Zenon, <1>1, <2>1, CreatesFresh DEF IInv, TypeOK, EntryTypeOK
<1>4. TypeOK'
  BY Zenon, <1>2, <1>3, CreatesFresh DEF TypeOK
<1>5. /\ \A f \in Entries : f # e => state'[f] = state[f]
      /\ state'[e] = "loading"
  BY Zenon DEF IInv, TypeOK, EntryTypeOK
<1>6. /\ \A q \in Procs : q # p => ent'[q] = ent[q] /\ pc'[q] = pc[q]
      /\ pc'[p] = "loadFunc"
      /\ ent'[p] = e
      /\ \A q \in Procs : ent[q] # e
  BY CreatesFresh DEF IInv, TypeOK, ProcTypeOK
<1>7. /\ closes[e] = 0
      /\ loadErr[e] = "nil"
      /\ ~loadDone[e]
      /\ ~hasValue[e]
      /\ chan[e] = 0
      /\ shut[e] = {}
  BY Zenon, CreatesFresh DEF IInv, FreshInv, BlankInv, MapInv, RefInv
<1>8. FreshInv'
  <2>1. \A q \in Procs : ent'[q] # None => ent'[q] \in Entries /\ ent'[q] <= count'
    BY <1>6, CreatesFresh DEF IInv, FreshInv, RefInv, Known
  <2>2. e # None
    BY Zenon, OCacheAssumption
  <2>3. BlankInv'
    <3>1. \A f \in Entries : f > count' => f > count /\ f # e
      BY CreatesFresh DEF Creates, IInv, TypeOK, CacheTypeOK, Entries
    <3>2. \A f \in Entries : f <= count' => f = e \/ f <= count
      BY Zenon, CreatesFresh
    <3>3. BlankInv /\ eid'[e] \in Ids /\ \A f \in Entries : f # e => eid'[f] = eid[f]
      BY CreatesFresh DEF IInv, FreshInv
    <3>4. ASSUME NEW f \in Entries, f > count'
          PROVE  /\ state'[f] = "none" /\ ~loadDone'[f] /\ ~hasValue'[f]
                 /\ loadErr'[f] = "nil" /\ closes'[f] = 0
                 /\ chan'[f] = 0 /\ shut'[f] = {}
      BY Zenon, <1>1, <1>5, <3>1, <3>3, <3>4 DEF BlankInv
    <3>5. ASSUME NEW f \in Entries, f <= count'
          PROVE  state'[f] # "none" /\ eid'[f] \in Ids
      <4>1. CASE f = e
        BY Zenon, <1>5, <3>3, <4>1
      <4>2. CASE f # e
        BY Zenon, <1>5, <3>2, <3>3, <3>5, <4>2 DEF BlankInv
      <4> QED
        BY Zenon, <4>1, <4>2
    <3> QED
      BY Zenon, <3>4, <3>5 DEF BlankInv
  <2>4. MapInv'
    BY CreatesFresh DEF IInv, FreshInv, MapInv, Known
  <2>5. RefInv'
    <3>1. arg[p] \in Ids /\ arg' = arg /\ todo' = todo
      BY Zenon DEF IInv, FreshInv, RefInv, ArgPCs
    <3> QED
      BY <1>6, <2>1, <2>2, <3>1, CreatesFresh DEF IInv, FreshInv, RefInv, Known
  <2> QED
    BY Zenon, <2>3, <2>4, <2>5 DEF FreshInv
<1>9. StoredInv'
  <2> SUFFICES ASSUME NEW f \in Entries,
                      \/ state'[f] \in {"active", "closing"}
                      \/ state'[f] = "loading" /\ loadErr'[f] = "nil"
               PROVE  data'[eid'[f]] = f
    BY Zenon DEF StoredInv
  <2>1. CASE f = e
    BY <2>1, CreatesFresh
  <2>2. CASE f # e
    <3>1. data[eid[f]] = f /\ eid[f] \in Ids
      BY Zenon, <1>1, <1>5, <2>2, StoredEntry
    <3>2. eid[f] # i
      BY Zenon, <3>1, OCacheAssumption DEF Creates
    <3> QED
      BY <2>2, <3>1, <3>2, CreatesFresh
  <2> QED
    BY Zenon, <2>1, <2>2
<1>10. \A q \in Procs : \A f \in Entries : Closer(q, f)' <=> Closer(q, f)
  BY Zenon, <1>6 DEF Closer
<1>12. CloserInv'
  <2>1. state[e] = "none"
    BY CreatesFresh, Zenon DEF IInv, FreshInv, BlankInv
  <2>2. \A f \in Entries : state'[f] = "closing" <=> state[f] = "closing"
    BY Zenon, <1>5, <2>1
  <2> QED
    BY Zenon, <1>1, <1>10, <2>2, CloserFrame DEF IInv
<1>13. \A q \in Procs : \A f \in Entries :
         Loader(q, f)' <=> (Loader(q, f) \/ (q = p /\ f = e))
  BY Zenon, <1>6 DEF Loader
<1>14. \A q \in Procs : ~Loader(q, e)
  BY Zenon, <1>6 DEF Loader
<1>15. \A q \in Procs : pc'[q] # "closeLate"
  <2>1. \A q \in Procs : pc[q] # "closeLate"
    BY Zenon DEF IInv, LoaderInv
  <2> QED
    BY Zenon, <1>6, <2>1
<1>16. \A q \in Procs : pc'[q] = "loadFunc" =>
         state'[ent'[q]] = "loading" /\ loadErr'[ent'[q]] = "nil"
  BY <1>1, <1>5, <1>6, <1>7, OwnEntry DEF IInv, LoaderInv
<1>17. LoaderInv'
  <2>1. ASSUME NEW q \in Procs, NEW r \in Procs, NEW f \in Entries,
               Loader(q, f)', Loader(r, f)'
        PROVE  q = r
    <3>1. CASE f = e
      BY Zenon, <1>13, <1>14, <2>1, <3>1
    <3>2. CASE f # e
      <4>1. Loader(q, f) /\ Loader(r, f)
        BY Zenon, <1>13, <2>1, <3>2
      <4> QED
        BY Zenon, <4>1 DEF IInv, LoaderInv
    <3> QED
      BY Zenon, <3>1, <3>2
  <2>2. \A q \in Procs : \A f \in Entries : Loader(q, f)' => ~loadDone'[f]
    BY Zenon, <1>7, <1>13 DEF IInv, LoaderInv
  <2> QED
    BY Zenon, <1>15, <1>16, <2>1, <2>2 DEF LoaderInv
<1>18. \A q \in Procs : pc'[q] \in CloserPCs
                          => pc'[q] = pc[q] /\ closes'[ent'[q]] = closes[ent[q]]
  BY Zenon, <1>1, <1>6 DEF CloserPCs
<1>19. ClosesInv'
  BY Zenon, <1>1, <1>5, <1>7, <1>18, ClosesFrame DEF IInv
<1> QED
  BY Zenon, <1>1, <1>4, <1>8, <1>9, <1>12, <1>17, <1>19 DEF IInv

-----------------------------------------------------------------------------
(* The steps that load the value of an entry keep the inductive invariant. *)

\* A load that succeeds on an open cache keeps the invariant.
LEMMA LoadPublishedStep ==
    ASSUME IInv, NEW p \in Procs, LoadValue(p), ~closed
    PROVE  IInv'
<1> DEFINE e == ent[p]
<1>1. /\ pc[p] = "loadFunc"
      /\ hasValue' = [hasValue EXCEPT ![e] = TRUE]
      /\ state' = [state EXCEPT ![e] = "active"]
      /\ Step(p, "closeLoad")
      /\ UNCHANGED <<data, closed, count, eid, loadDone, loadErr, aborted,
                     cancelled, chan, shut, closes, crashed, bounds>>
  BY Zenon DEF LoadValue
<1>2. /\ e \in Entries
      /\ eid[e] \in Ids
      /\ state[e] = "loading"
      /\ loadErr[e] = "nil"
      /\ closes[e] = 0
      /\ data[eid[e]] = e
  BY Zenon, <1>1, OwnEntry DEF IInv, LoaderInv, ClosesInv, StoredInv
<1>3. RefInv' /\ ProcTypeOK' /\ ProcFrame(p) /\ pc'[p] = "closeLoad" /\ ent'[p] = e
  BY Zenon, <1>1, StepRef DEF PCs, ArgPCs
<1> HIDE DEF e
<1>4. /\ \A f \in Entries : f # e => state'[f] = state[f] /\ hasValue'[f] = hasValue[f]
      /\ state'[e] = "active"
      /\ hasValue'[e]
  BY Zenon, <1>1, <1>2 DEF IInv, TypeOK, EntryTypeOK
<1>5. TypeOK'
  BY Zenon, <1>1, <1>2, <1>3 DEF IInv, TypeOK, CacheTypeOK, EntryTypeOK, BoundsTypeOK, bounds, EntryStates
<1>6. FreshInv'
  BY <1>1, <1>2, <1>3, <1>4 DEF IInv, FreshInv, BlankInv, MapInv, Known
<1>7. StoredInv'
  BY Zenon, <1>1, <1>2, <1>4 DEF IInv, StoredInv
<1>8. \A q \in Procs : \A f \in Entries : Closer(q, f)' <=> Closer(q, f)
  BY Zenon, <1>1, <1>3 DEF Closer, ProcFrame
<1>9. \A f \in Entries : state'[f] = "closing" <=> state[f] = "closing"
  BY Zenon, <1>2, <1>4
<1>10. CloserInv'
  BY Zenon, <1>1, <1>8, <1>9, CloserFrame DEF IInv
<1>11. ent[p] = e
  BY Zenon DEF e
<1>12. \A q \in Procs : \A f \in Entries : Loader(q, f)' <=> Loader(q, f)
  BY Zenon, <1>1, <1>3, <1>11 DEF Loader, ProcFrame
<1>13. \A q \in Procs : q # p /\ pc[q] \in {"loadFunc", "closeLate", "closeLoad"}
                          => ent[q] \in Entries /\ ent[q] # e
  BY <1>1, <1>2, <1>11, OwnEntry, Zenon DEF IInv, LoaderInv, Loader
<1>14. LoaderInv'
  <2>1. \A q \in Procs : pc'[q] \in {"loadFunc", "closeLate"} =>
          pc'[q] = pc[q] /\ ent'[q] = ent[q] /\ state'[ent[q]] = state[ent[q]]
    BY Zenon, <1>3, <1>4, <1>13 DEF ProcFrame
  <2>2. \A q \in Procs : \A f \in Entries : Loader(q, f)' => Loader(q, f) /\ ~loadDone'[f]
    BY Zenon, <1>1, <1>12 DEF IInv, LoaderInv
  <2> QED
    BY <1>1, <2>1, <2>2, LoaderFrame, Zenon DEF IInv
<1>15. ClosesInv'
  <2>1. \A q \in Procs : pc'[q] \in CloserPCs
                          => pc'[q] = pc[q] /\ closes'[ent'[q]] = closes[ent[q]]
    BY <1>1, <1>3, Zenon DEF CloserPCs, ProcFrame
  <2> QED
    BY Zenon, <1>1, <1>2, <1>4, <2>1, ClosesFrame DEF IInv
<1> QED
  BY Zenon, <1>1, <1>5, <1>6, <1>7, <1>10, <1>14, <1>15 DEF IInv

\* A load that does not publish a value: it failed, or the cache is closed.
LEMMA LoadDroppedStep ==
    ASSUME IInv, NEW p \in Procs, pc[p] = "loadFunc",
           NEW x \in {"error", "panic", "closed"},
           NEW l \in {"closeLate", "closeLoad"},
           l = "closeLate" => closed /\ x = "closed",
           loadErr' = [loadErr EXCEPT ![ent[p]] = x],
           data' = [data EXCEPT ![eid[ent[p]]] = None],
           aborted' \in [Entries -> BOOLEAN],
           Step(p, l),
           UNCHANGED <<closed, count, eid, state, loadDone, hasValue, cancelled,
                       chan, shut, closes, crashed, bounds>>
    PROVE  IInv'
<1> DEFINE e == ent[p]
<1>1. /\ e \in Entries
      /\ eid[e] \in Ids
      /\ state[e] = "loading"
      /\ loadErr[e] = "nil"
      /\ closes[e] = 0
      /\ data[eid[e]] = e
  BY Zenon, OwnEntry DEF IInv, LoaderInv, ClosesInv, StoredInv
<1>2. RefInv' /\ ProcTypeOK' /\ ProcFrame(p) /\ pc'[p] = l /\ ent'[p] = e
  BY Zenon, StepRef DEF PCs, ArgPCs
<1>3. ent[p] = e
  BY Zenon
<1>4. /\ loadErr' = [loadErr EXCEPT ![e] = x]
      /\ data' = [data EXCEPT ![eid[e]] = None]
  BY Zenon
<1> HIDE DEF e
<1>5. /\ \A f \in Entries : f # e => loadErr'[f] = loadErr[f]
      /\ loadErr'[e] = x
      /\ \A i \in Ids : i # eid[e] => data'[i] = data[i]
      /\ data'[eid[e]] = None
  BY Zenon, <1>1, <1>4 DEF IInv, TypeOK, EntryTypeOK, CacheTypeOK
<1>6. TypeOK'
  <2>1. CacheTypeOK'
    BY Zenon, <1>1, <1>4 DEF IInv, TypeOK, CacheTypeOK
  <2>2. EntryTypeOK'
    <3>1. loadErr' \in [Entries -> {"nil", "error", "panic", "closed"}]
      BY Zenon, <1>4 DEF IInv, TypeOK, EntryTypeOK
    <3> QED
      BY Zenon, <3>1 DEF IInv, TypeOK, EntryTypeOK
  <2>3. BoundsTypeOK'
    BY Zenon DEF IInv, TypeOK, BoundsTypeOK, bounds
  <2> QED
    BY Zenon, <1>2, <2>1, <2>2, <2>3 DEF TypeOK
<1>7. FreshInv'
  BY <1>1, <1>2, <1>5 DEF IInv, FreshInv, BlankInv, MapInv, Known
<1>8. StoredInv'
  <2> SUFFICES ASSUME NEW f \in Entries,
                      \/ state'[f] \in {"active", "closing"}
                      \/ state'[f] = "loading" /\ loadErr'[f] = "nil"
               PROVE  data'[eid'[f]] = f
    BY Zenon DEF StoredInv
  <2>1. f # e
    BY Zenon, <1>1, <1>5
  <2>2. data[eid[f]] = f /\ eid[f] \in Ids
    BY Zenon, <1>5, <2>1, StoredEntry
  <2> QED
    BY Zenon, <1>1, <1>5, <2>1, <2>2
<1>9. \A q \in Procs : \A f \in Entries : Closer(q, f)' <=> Closer(q, f)
  BY Zenon, <1>2 DEF Closer, ProcFrame
<1>10. CloserInv'
  BY Zenon, <1>9, CloserFrame DEF IInv
<1>11. \A q \in Procs : \A f \in Entries : Loader(q, f)' <=> Loader(q, f)
  BY Zenon, <1>2, <1>3 DEF Loader, ProcFrame
<1>12. \A q \in Procs : q # p /\ pc[q] \in {"loadFunc", "closeLate", "closeLoad"}
                          => ent[q] \in Entries /\ ent[q] # e
  BY Zenon, <1>1, <1>3, OwnEntry DEF IInv, LoaderInv, Loader
<1>13. \A q \in Procs : q # p /\ pc[q] = "closeLate"
                          => eid[ent[q]] # eid[e] /\ eid[ent[q]] \in Ids
  BY <1>1, OwnEntry, OCacheAssumption, Zenon DEF IInv, LoaderInv
<1>14. \A q \in Procs : q # p => pc'[q] = pc[q] /\ ent'[q] = ent[q]
  BY Zenon, <1>2 DEF ProcFrame
<1>15. \A q \in Procs : pc'[q] = "closeLate" => /\ closed'
                                                /\ state'[ent'[q]] = "loading"
                                                /\ loadErr'[ent'[q]] = "closed"
                                                /\ closes'[ent'[q]] = 0
                                                /\ data'[eid'[ent'[q]]] = None
  <2> SUFFICES ASSUME NEW q \in Procs, pc'[q] = "closeLate"
               PROVE  /\ closed
                      /\ state[ent'[q]] = "loading"
                      /\ loadErr'[ent'[q]] = "closed"
                      /\ closes[ent'[q]] = 0
                      /\ data'[eid[ent'[q]]] = None
    OBVIOUS
  <2>1. CASE q = p
    BY Zenon, <1>1, <1>2, <1>5, <2>1
  <2>2. CASE q # p
    <3>1. pc[q] = "closeLate" /\ ent'[q] = ent[q]
      BY Zenon, <1>14, <2>2
    <3>2. /\ ent[q] \in Entries
          /\ ent[q] # e
          /\ eid[ent[q]] # eid[e]
          /\ eid[ent[q]] \in Ids
      BY Zenon, <1>12, <1>13, <2>2, <3>1
    <3>3. /\ closed
          /\ state[ent[q]] = "loading"
          /\ loadErr[ent[q]] = "closed"
          /\ closes[ent[q]] = 0
          /\ data[eid[ent[q]]] = None
      BY Zenon, <3>1 DEF IInv, LoaderInv
    <3> QED
      BY Zenon, <1>5, <3>1, <3>2, <3>3
  <2> QED
    BY <2>1, <2>2, Zenon
<1>16. \A q \in Procs : pc'[q] = "loadFunc" =>
         state'[ent'[q]] = "loading" /\ loadErr'[ent'[q]] = "nil"
  <2> SUFFICES ASSUME NEW q \in Procs, pc'[q] = "loadFunc"
               PROVE  state[ent'[q]] = "loading" /\ loadErr'[ent'[q]] = "nil"
    OBVIOUS
  <2>1. q # p /\ pc[q] = "loadFunc" /\ ent'[q] = ent[q]
    BY Zenon, <1>2, <1>14
  <2>2. ent[q] \in Entries /\ ent[q] # e
    BY Zenon, <1>12, <2>1
  <2>3. state[ent[q]] = "loading" /\ loadErr[ent[q]] = "nil"
    BY Zenon, <2>1 DEF IInv, LoaderInv
  <2> QED
    BY Zenon, <1>5, <2>1, <2>2, <2>3
<1>17. \A q, r \in Procs : pc'[q] = "closeLate" /\ pc'[r] = "closeLate"
                            /\ eid'[ent'[q]] = eid'[ent'[r]] => q = r
  <2> SUFFICES ASSUME NEW q \in Procs, NEW r \in Procs, q # r,
                      pc'[q] = "closeLate", pc'[r] = "closeLate",
                      eid[ent'[q]] = eid[ent'[r]]
               PROVE  FALSE
    OBVIOUS
  <2>1. CASE q = p
    <3>1. r # p /\ pc[r] = "closeLate" /\ ent'[r] = ent[r]
      BY Zenon, <1>14, <2>1
    <3> QED
      BY Zenon, <1>2, <1>13, <2>1, <3>1
  <2>2. CASE r = p
    <3>1. q # p /\ pc[q] = "closeLate" /\ ent'[q] = ent[q]
      BY Zenon, <1>14, <2>2
    <3> QED
      BY Zenon, <1>2, <1>13, <2>2, <3>1
  <2>3. CASE q # p /\ r # p
    <3>1. /\ pc[q] = "closeLate" /\ ent'[q] = ent[q]
          /\ pc[r] = "closeLate" /\ ent'[r] = ent[r]
      BY Zenon, <1>14, <2>3
    <3> QED
      BY Zenon, <3>1 DEF IInv, LoaderInv
  <2> QED
    BY Zenon, <2>1, <2>2, <2>3
<1>18. LoaderInv'
  BY Zenon, <1>11, <1>15, <1>16, <1>17 DEF IInv, LoaderInv
<1>19. ClosesInv'
  <2>1. \A q \in Procs : pc'[q] \in CloserPCs
                          => pc'[q] = pc[q] /\ closes'[ent'[q]] = closes[ent[q]]
    BY <1>2, <1>14, Zenon DEF CloserPCs
  <2>2. hasValue[e] <=> state[e] \in {"active", "closing", "closed"}
    BY Zenon, <1>1 DEF IInv, ClosesInv
  <2> QED
    BY Zenon, <1>1, <1>5, <2>1, <2>2, ClosesFrame DEF IInv
<1> QED
  BY Zenon, <1>6, <1>7, <1>8, <1>10, <1>18, <1>19 DEF IInv

\* A load that returns a value keeps the invariant.
LEMMA LoadValueStep ==
    ASSUME IInv, NEW p \in Procs, LoadValue(p)
    PROVE  IInv'
<1>1. CASE ~closed
  BY Zenon, <1>1, LoadPublishedStep
<1>2. CASE closed
  <2>1. /\ pc[p] = "loadFunc"
        /\ loadErr' = [loadErr EXCEPT ![ent[p]] = "closed"]
        /\ data' = [data EXCEPT ![eid[ent[p]]] = None]
        /\ Step(p, "closeLate")
        /\ UNCHANGED <<closed, count, eid, state, loadDone, aborted, hasValue,
                       cancelled, chan, shut, closes, crashed, bounds>>
    BY Zenon, <1>2 DEF LoadValue
  <2>2. aborted' \in [Entries -> BOOLEAN]
    BY Zenon, <2>1 DEF IInv, TypeOK, EntryTypeOK
  <2> QED
    BY Zenon, <1>2, <2>1, <2>2, LoadDroppedStep
<1> QED
  BY Zenon, <1>1, <1>2

\* A load that fails keeps the invariant.
LEMMA LoadFailsStep ==
    ASSUME IInv, NEW p \in Procs, LoadFails(p)
    PROVE  IInv'
<1>1. /\ pc[p] = "loadFunc"
      /\ data' = [data EXCEPT ![eid[ent[p]]] = None]
      /\ Step(p, "closeLoad")
      /\ UNCHANGED <<closed, count, eid, state, loadDone, hasValue, cancelled,
                     chan, shut, closes, crashed, bounds>>
  BY Zenon DEF LoadFails
<1>2. PICK x \in {"error", "panic"} : loadErr' = [loadErr EXCEPT ![ent[p]] = x]
  BY Zenon DEF LoadFails
<1>3. ent[p] \in Entries
  BY Zenon, <1>1, OwnEntry
<1>4. LoadCtxDone(p) \in BOOLEAN
  BY Zenon, <1>3 DEF LoadCtxDone, IInv, TypeOK, EntryTypeOK
<1>5. aborted' \in [Entries -> BOOLEAN]
  BY Zenon, <1>3, <1>4 DEF LoadFails, IInv, TypeOK, EntryTypeOK
<1> QED
  BY Zenon, <1>1, <1>2, <1>5, LoadDroppedStep

\* Closing a value that arrived after Close keeps the invariant.
LEMMA CloseLateStep ==
    ASSUME IInv, NEW p \in Procs, CloseLate(p)
    PROVE  IInv'
<1> DEFINE e == ent[p]
<1>1. /\ pc[p] = "closeLate"
      /\ ValueClosed(e)
      /\ Step(p, "closeLoad")
      /\ UNCHANGED <<data, closed, count, eid, state, loadDone, loadErr, aborted,
                     hasValue, cancelled, chan, shut, crashed, bounds>>
  BY Zenon DEF CloseLate, cacheVars
<1>2. /\ e \in Entries
      /\ state[e] = "loading"
      /\ loadErr[e] = "closed"
      /\ closes[e] = 0
  BY Zenon, <1>1, OwnEntry DEF IInv, LoaderInv
<1>3. RefInv' /\ ProcTypeOK' /\ ProcFrame(p) /\ pc'[p] = "closeLoad" /\ ent'[p] = e
  BY Zenon, <1>1, StepRef DEF PCs, ArgPCs
<1>4. ent[p] = e
  OBVIOUS
<1> HIDE DEF e
<1>5. /\ closes' \in [Entries -> Nat]
      /\ closes'[e] = 1
      /\ \A f \in Entries : f # e => closes'[f] = closes[f]
  BY Zenon, <1>1, <1>2, ValueClosedEffect
<1>6. TypeOK'
  BY Zenon, <1>1, <1>3, <1>5 DEF IInv, TypeOK, CacheTypeOK, EntryTypeOK, BoundsTypeOK, bounds
<1>7. FreshInv'
  BY <1>1, <1>2, <1>3, <1>5 DEF IInv, FreshInv, BlankInv, MapInv, Known
<1>8. StoredInv'
  BY Zenon, <1>1 DEF IInv, StoredInv
<1>9. \A q \in Procs : \A f \in Entries : Closer(q, f)' <=> Closer(q, f)
  BY <1>1, <1>3, Zenon DEF Closer, ProcFrame
<1>10. CloserInv'
  BY Zenon, <1>1, <1>9, CloserFrame DEF IInv
<1>11. \A q \in Procs : \A f \in Entries : Loader(q, f)' <=> Loader(q, f)
  BY Zenon, <1>1, <1>3, <1>4 DEF Loader, ProcFrame
<1>12. \A q \in Procs : q # p /\ pc[q] \in {"loadFunc", "closeLate", "closeLoad"}
                          => ent[q] \in Entries /\ ent[q] # e
  BY <1>1, <1>2, <1>4, OwnEntry, Zenon DEF IInv, LoaderInv, Loader
<1>13. LoaderInv'
  <2>1. \A q \in Procs : pc'[q] \in {"loadFunc", "closeLate"} =>
          pc'[q] = pc[q] /\ ent'[q] = ent[q] /\ closes'[ent[q]] = closes[ent[q]]
    BY <1>3, <1>5, <1>12, Zenon DEF ProcFrame
  <2>2. \A q \in Procs : \A f \in Entries : Loader(q, f)' => Loader(q, f) /\ ~loadDone'[f]
    BY Zenon, <1>1, <1>11 DEF IInv, LoaderInv
  <2> QED
    BY Zenon, <1>1, <2>1, <2>2, LoaderFrame DEF IInv
<1>14. \A q \in Procs : pc[q] \in CloserPCs => ent[q] \in Entries /\ ent[q] # e
  BY Zenon, <1>2, OwnEntry DEF IInv, CloserInv, Closer, CloserPCs
<1>15. ClosesInv'
  <2>1. \A q \in Procs : pc'[q] \in CloserPCs => pc'[q] = pc[q] /\ ent'[q] = ent[q]
    BY <1>3, Zenon DEF CloserPCs, ProcFrame
  <2>2. \A q \in Procs : pc'[q] \in CloserPCs => closes'[ent'[q]] = closes[ent[q]]
    BY Zenon, <1>5, <1>14, <2>1
  <2>3. hasValue[e] <=> state[e] \in {"active", "closing", "closed"}
    BY Zenon, <1>2 DEF IInv, ClosesInv
  <2> QED
    BY <1>1, <1>2, <1>5, <2>1, <2>2, <2>3, ClosesFrame, Zenon DEF IInv
<1> QED
  BY Zenon, <1>1, <1>6, <1>7, <1>8, <1>10, <1>13, <1>15 DEF IInv

\* close(e.load), after which the loader goes on quietly.
LEMMA CloseLoadStep ==
    ASSUME IInv, NEW p \in Procs, pc[p] = "closeLoad", Quiet(p),
           loadDone' = [loadDone EXCEPT ![ent[p]] = TRUE],
           crashed' = (crashed \/ loadDone[ent[p]]),
           UNCHANGED <<cacheVars, eid, state, loadErr, aborted, hasValue,
                       cancelled, chan, shut, closes, bounds>>
    PROVE  IInv'
<1> DEFINE e == ent[p]
<1>1. e \in Entries /\ Known(e) /\ Loader(p, e)
  BY Zenon, OwnEntry DEF Loader
<1>2. ~loadDone[e] /\ ~crashed'
  BY Zenon, <1>1 DEF IInv, LoaderInv
<1>3. UNCHANGED <<data, closed, count>>
  BY Zenon DEF cacheVars
<1>4. loadDone' = [loadDone EXCEPT ![e] = TRUE]
  OBVIOUS
<1> HIDE DEF e
<1>5. \A f \in Entries : f # e => loadDone'[f] = loadDone[f]
  BY Zenon, <1>4 DEF IInv, TypeOK, EntryTypeOK
<1>6. TypeOK'
  BY Zenon, <1>1, <1>2, <1>3, <1>4
     DEF IInv, TypeOK, CacheTypeOK, EntryTypeOK, BoundsTypeOK, bounds, Quiet
<1>7. RefInv'
  BY Zenon, <1>3 DEF IInv, FreshInv, RefInv, Quiet, ProcFrame, Known
<1>8. FreshInv'
  <2>1. ~(e > count)
    BY Zenon, <1>1, KnownNotAbove DEF IInv
  <2>2. BlankInv'
    BY Zenon, <1>3, <1>5, <2>1 DEF IInv, FreshInv, BlankInv
  <2>3. MapInv'
    BY Zenon, <1>3 DEF IInv, FreshInv, MapInv, Known
  <2> QED
    BY Zenon, <1>7, <2>2, <2>3 DEF FreshInv
<1>9. StoredInv'
  BY Zenon, <1>3 DEF IInv, StoredInv
<1>10. \A q \in Procs : \A f \in Entries : Closer(q, f)' <=> Closer(q, f)
  BY Zenon DEF Closer, Quiet, ProcFrame, Busy
<1>11. CloserInv'
  BY Zenon, <1>10, CloserFrame DEF IInv
<1>12. \A q \in Procs : \A f \in Entries : Loader(q, f)' <=> (Loader(q, f) /\ q # p)
  BY Zenon DEF Loader, Quiet, ProcFrame, Busy
<1>13. \A q \in Procs : q # p => ~Loader(q, e)
  BY Zenon, <1>1 DEF IInv, LoaderInv
<1>14. \A q \in Procs : pc'[q] \in Busy => q # p /\ pc'[q] = pc[q] /\ ent'[q] = ent[q]
  BY Zenon DEF Quiet, ProcFrame
<1>15. LoaderInv'
  <2>1. \A q \in Procs : \A f \in Entries : Loader(q, f)' => Loader(q, f) /\ ~loadDone'[f]
    BY Zenon, <1>5, <1>12, <1>13 DEF IInv, LoaderInv
  <2>2. \A q \in Procs : pc'[q] \in {"loadFunc", "closeLate"}
                          => pc'[q] = pc[q] /\ ent'[q] = ent[q]
    BY Zenon, <1>14 DEF Busy
  <2> QED
    BY Zenon, <1>3, <2>1, <2>2, LoaderFrame DEF IInv
<1>16. ClosesInv'
  <2>1. \A q \in Procs : pc'[q] \in CloserPCs
                          => pc'[q] = pc[q] /\ closes'[ent'[q]] = closes[ent[q]]
    BY Zenon, <1>14 DEF CloserPCs, Busy
  <2>2. /\ hasValue[e] <=> state[e] \in {"active", "closing", "closed"}
        /\ closes[e] \in {0, 1}
        /\ state[e] = "active" => closes[e] = 0
        /\ state[e] = "loading" /\ loadErr[e] # "closed" => closes[e] = 0
        /\ state[e] = "closed" => closes[e] = 1
    BY Zenon, <1>1 DEF IInv, ClosesInv
  <2> QED
    BY <1>1, <2>1, <2>2, ClosesFrame, Zenon DEF IInv
<1> QED
  BY Zenon, <1>2, <1>6, <1>8, <1>9, <1>11, <1>15, <1>16 DEF IInv
-----------------------------------------------------------------------------

(* The steps that close a value keep the inductive invariant. *)

\* Becoming the closer of an active entry keeps the invariant.
LEMMA AcquireStep ==
    ASSUME IInv, NEW p \in Procs, pc[p] \in {"setClosing", "trySetClosing"},
           state[ent[p]] = "active", acquireClosing(ent[p]),
           NEW l \in {"valueClose", "tryClose"}, Step(p, l),
           UNCHANGED <<cacheVars, eid, loadDone, loadErr, aborted, hasValue,
                       cancelled, shut, closes, crashed, bounds>>
    PROVE  IInv'
<1> DEFINE e == ent[p]
<1>1. /\ e \in Entries
      /\ Known(e)
      /\ state[e] = "active"
      /\ ent[p] = e
      /\ state' = [state EXCEPT ![e] = "closing"]
      /\ chan' = [chan EXCEPT ![e] = @ + 1]
  BY Zenon, OwnEntry DEF acquireClosing
<1>2. UNCHANGED <<data, closed, count>>
  BY Zenon DEF cacheVars
<1>3. RefInv' /\ ProcTypeOK' /\ ProcFrame(p) /\ pc'[p] = l /\ ent'[p] = e
  BY Zenon, <1>2, StepRef DEF PCs, ArgPCs
<1> HIDE DEF e
<1>4. /\ \A f \in Entries : f # e => state'[f] = state[f] /\ chan'[f] = chan[f]
      /\ state'[e] = "closing"
      /\ chan'[e] = chan[e] + 1
      /\ chan[e] \in Nat
      /\ shut[e] \subseteq Nat
  BY Zenon, <1>1 DEF IInv, TypeOK, EntryTypeOK
<1>5. TypeOK'
  <2>1. EntryTypeOK'
    BY <1>1 DEF IInv, TypeOK, EntryTypeOK, EntryStates
  <2> QED
    BY Zenon, <1>2, <1>3, <2>1 DEF IInv, TypeOK, CacheTypeOK, BoundsTypeOK, bounds
<1>6. FreshInv'
  <2>1. ~(e > count)
    BY Zenon, <1>1, KnownNotAbove DEF IInv
  <2>2. BlankInv'
    BY Zenon, <1>1, <1>2, <1>4, <2>1, BlankFrame DEF IInv, FreshInv
  <2> QED
    BY Zenon, <1>2, <1>3, <2>2 DEF IInv, FreshInv, MapInv, Known
<1>7. StoredInv'
  BY Zenon, <1>1, <1>2, <1>4 DEF IInv, StoredInv
<1>8. \A q \in Procs : \A f \in Entries :
        Closer(q, f)' <=> (Closer(q, f) \/ (q = p /\ f = e))
  BY Zenon, <1>1, <1>3 DEF Closer, ProcFrame
<1>9. \A q \in Procs : ~Closer(q, e)
  BY Zenon, <1>1 DEF IInv, CloserInv
<1>10. CloserInv'
  <2>1. chan'[e] \notin shut'[e] /\ \A k \in shut'[e] : k <= chan'[e]
    BY <1>1, <1>4 DEF IInv, CloserInv
  <2>2. \A f \in Entries : state'[f] = "closing" => \E q \in Procs : Closer(q, f)'
    BY Zenon, <1>1, <1>4, <1>8 DEF IInv, CloserInv
  <2>3. \A q \in Procs : \A f \in Entries : Closer(q, f)' => state'[f] = "closing"
    BY Zenon, <1>4, <1>8, <1>9 DEF IInv, CloserInv
  <2>4. ASSUME NEW q \in Procs, NEW r \in Procs, NEW f \in Entries,
               Closer(q, f)', Closer(r, f)'
        PROVE  q = r
    <3>1. CASE f = e
      BY Zenon, <1>8, <1>9, <2>4, <3>1
    <3>2. CASE f # e
      BY Zenon, <1>8, <2>4, <3>2 DEF IInv, CloserInv
    <3> QED
      BY Zenon, <3>1, <3>2
  <2> QED
    BY Zenon, <1>4, <2>1, <2>2, <2>3, <2>4 DEF IInv, CloserInv
<1>11. \A q \in Procs : \A f \in Entries : Loader(q, f)' <=> Loader(q, f)
  BY Zenon, <1>3 DEF Loader, ProcFrame
<1>12. \A q \in Procs : pc'[q] \in {"loadFunc", "closeLate"} =>
         /\ q # p
         /\ pc'[q] = pc[q]
         /\ ent'[q] = ent[q]
         /\ ent[q] \in Entries \ {e}
  BY Zenon, <1>1, <1>3, OwnEntry DEF IInv, LoaderInv, ProcFrame
<1>13. LoaderInv'
  <2>1. \A q \in Procs : pc'[q] \in {"loadFunc", "closeLate"} =>
          pc'[q] = pc[q] /\ ent'[q] = ent[q] /\ state'[ent[q]] = state[ent[q]]
    BY Zenon, <1>4, <1>12
  <2>2. \A q \in Procs : \A f \in Entries : Loader(q, f)' => Loader(q, f) /\ ~loadDone'[f]
    BY Zenon, <1>11 DEF IInv, LoaderInv
  <2> QED
    BY Zenon, <1>2, <2>1, <2>2, LoaderFrame DEF IInv
<1>14. hasValue[e] /\ closes[e] = 0
  BY Zenon, <1>1 DEF IInv, ClosesInv
<1>15. ClosesInv'
  <2>1. \A q \in Procs : q # p => pc'[q] = pc[q] /\ closes'[ent'[q]] = closes[ent[q]]
    BY Zenon, <1>3 DEF ProcFrame
  <2>2. pc'[p] \notin {"removeDelete", "tryDelete"} /\ closes'[ent'[p]] = 0
    BY Zenon, <1>3, <1>14
  <2>3. \A q \in Procs : pc'[q] \in CloserPCs =>
          \/ pc'[q] = pc[q] /\ closes'[ent'[q]] = closes[ent[q]]
          \/ closes'[ent'[q]] = IF pc'[q] \in {"removeDelete", "tryDelete"} THEN 1 ELSE 0
    BY Zenon, <2>1, <2>2
  <2> QED
    BY Zenon, <1>1, <1>4, <1>14, <2>3, ClosesFrame DEF IInv
<1> QED
  BY Zenon, <1>5, <1>6, <1>7, <1>10, <1>13, <1>15 DEF IInv

\* The closer goes on: it learns that the value declined, or closes it.
LEMMA CloserMoveStep ==
    ASSUME IInv, NEW p \in Procs,
           pc[p] \in {"valueClose", "tryClose", "restore", "escalate"},
           NEW l \in CloserPCs, Step(p, l),
           \/ l \in {"restore", "escalate"} /\ UNCHANGED closes
           \/ l \in {"removeDelete", "tryDelete"} /\ ValueClosed(ent[p]),
           UNCHANGED <<cacheVars, eid, state, loadDone, loadErr, aborted,
                       hasValue, cancelled, chan, shut, crashed>>,
           BoundsTypeOK'
    PROVE  IInv'
<1> DEFINE e == ent[p]
<1>1. /\ e \in Entries
      /\ Known(e)
      /\ ent[p] = e
      /\ Closer(p, e)
      /\ state[e] = "closing"
      /\ closes[e] = 0
  BY Zenon, OwnEntry DEF IInv, CloserInv, Closer, ClosesInv
<1>2. UNCHANGED <<data, closed, count>>
  BY Zenon DEF cacheVars
<1>3. RefInv' /\ ProcTypeOK' /\ ProcFrame(p) /\ pc'[p] = l /\ ent'[p] = e
  BY Zenon, <1>2, StepRef DEF PCs, ArgPCs, CloserPCs
<1>4. \/ l \in {"restore", "escalate"} /\ closes' = closes
      \/ l \in {"removeDelete", "tryDelete"} /\ ValueClosed(e)
  OBVIOUS
<1> HIDE DEF e
<1>5. /\ closes' \in [Entries -> Nat]
      /\ \A f \in Entries : f # e => closes'[f] = closes[f]
      /\ \/ l \in {"restore", "escalate"} /\ closes'[e] = 0
         \/ l \in {"removeDelete", "tryDelete"} /\ closes'[e] = 1
  <2>1. CASE l \in {"restore", "escalate"} /\ closes' = closes
    <3>1. closes \in [Entries -> Nat]
      BY Zenon DEF IInv, TypeOK, EntryTypeOK
    <3> QED
      BY Zenon, <1>1, <2>1, <3>1
  <2>2. CASE l \in {"removeDelete", "tryDelete"} /\ ValueClosed(e)
    BY Zenon, <1>1, <2>2, ValueClosedEffect
  <2> QED
    BY Zenon, <1>4, <2>1, <2>2
<1>6. TypeOK'
  BY Zenon, <1>2, <1>3, <1>5 DEF IInv, TypeOK, CacheTypeOK, EntryTypeOK
<1>7. FreshInv'
  <2>1. ~(e > count)
    BY Zenon, <1>1, KnownNotAbove DEF IInv
  <2>2. BlankInv'
    BY Zenon, <1>2, <1>5, <2>1 DEF IInv, FreshInv, BlankInv
  <2> QED
    BY Zenon, <1>2, <1>3, <2>2 DEF IInv, FreshInv, MapInv, Known
<1>8. StoredInv'
  BY Zenon, <1>2 DEF IInv, StoredInv
<1>9. \A q \in Procs : \A f \in Entries : Closer(q, f)' <=> Closer(q, f)
  BY Zenon, <1>1, <1>3 DEF Closer, ProcFrame, CloserPCs
<1>10. CloserInv'
  BY Zenon, <1>9, CloserFrame DEF IInv
<1>11. \A q \in Procs : \A f \in Entries : Loader(q, f)' <=> Loader(q, f)
  BY Zenon, <1>3 DEF Loader, ProcFrame, CloserPCs
<1>12. \A q \in Procs : pc'[q] \in {"loadFunc", "closeLate"} =>
         /\ pc'[q] = pc[q]
         /\ ent'[q] = ent[q]
         /\ ent[q] \in Entries \ {e}
  BY Zenon, <1>1, <1>3, OwnEntry DEF IInv, LoaderInv, ProcFrame, CloserPCs
<1>13. LoaderInv'
  <2>1. \A q \in Procs : pc'[q] \in {"loadFunc", "closeLate"} =>
          pc'[q] = pc[q] /\ ent'[q] = ent[q] /\ closes'[ent[q]] = closes[ent[q]]
    BY Zenon, <1>5, <1>12
  <2>2. \A q \in Procs : \A f \in Entries : Loader(q, f)' => Loader(q, f) /\ ~loadDone'[f]
    BY Zenon, <1>11 DEF IInv, LoaderInv
  <2> QED
    BY Zenon, <1>2, <2>1, <2>2, LoaderFrame DEF IInv
<1>14. \A q \in Procs : pc'[q] \in CloserPCs /\ q # p =>
         /\ pc'[q] = pc[q]
         /\ ent'[q] = ent[q]
         /\ ent[q] \in Entries \ {e}
  BY Zenon, <1>1, <1>3, OwnEntry DEF IInv, CloserInv, Closer, ProcFrame, CloserPCs
<1>15. ClosesInv'
  <2>1. hasValue[e]
    BY Zenon, <1>1 DEF IInv, ClosesInv
  <2>2. \A q \in Procs : pc'[q] \in CloserPCs /\ q # p
                          => pc'[q] = pc[q] /\ closes'[ent'[q]] = closes[ent[q]]
    BY Zenon, <1>5, <1>14
  <2>3. closes'[ent'[p]] = IF pc'[p] \in {"removeDelete", "tryDelete"} THEN 1 ELSE 0
    BY Zenon, <1>3, <1>5
  <2>4. \A q \in Procs : pc'[q] \in CloserPCs =>
          \/ pc'[q] = pc[q] /\ closes'[ent'[q]] = closes[ent[q]]
          \/ closes'[ent'[q]] = IF pc'[q] \in {"removeDelete", "tryDelete"} THEN 1 ELSE 0
    BY Zenon, <2>2, <2>3
  <2>5. closes'[e] \in {0, 1}
    BY Zenon, <1>5
  <2> QED
    BY Zenon, <1>1, <1>5, <2>1, <2>4, <2>5, ClosesFrame DEF IInv
<1> QED
  BY Zenon, <1>6, <1>7, <1>8, <1>10, <1>13, <1>15 DEF IInv

\* The closer gives the entry up, with its close channel closed: the value
\* declined and the entry is active again, or the entry is closed and deleted.
LEMMA ReleaseStep ==
    ASSUME IInv, NEW p \in Procs, pc[p] \in CloserPCs, Quiet(p),
           NEW s \in {"active", "closed"},
           state' = [state EXCEPT ![ent[p]] = s],
           CloseChan(ent[p], chan[ent[p]]),
           s = "active" => closes[ent[p]] = 0 /\ UNCHANGED data,
           s = "closed" => /\ closes[ent[p]] = 1
                           /\ data' = [data EXCEPT ![eid[ent[p]]] = None],
           UNCHANGED <<closed, count, eid, loadDone, loadErr, aborted, hasValue,
                       cancelled, chan, closes, bounds>>
    PROVE  IInv'
<1> DEFINE e == ent[p]
           k == chan[e]
<1>1. /\ e \in Entries
      /\ Known(e)
      /\ eid[e] \in Ids
      /\ Closer(p, e)
      /\ state[e] = "closing"
      /\ k \notin shut[e]
      /\ data[eid[e]] = e
  <2>1. e \in Entries /\ Known(e) /\ eid[e] \in Ids
    BY Zenon, OwnEntry DEF CloserPCs
  <2>2. Closer(p, e)
    BY Zenon DEF Closer, CloserPCs
  <2>3. state[e] = "closing" /\ k \notin shut[e]
    BY Zenon, <2>1, <2>2 DEF IInv, CloserInv
  <2> QED
    BY Zenon, <2>1, <2>2, <2>3, StoredEntry
<1>2. /\ k = chan[e]
      /\ state' = [state EXCEPT ![e] = s]
      /\ shut' = [shut EXCEPT ![e] = @ \cup {k}]
      /\ ~crashed'
      /\ s = "active" => closes[e] = 0 /\ data' = data
      /\ s = "closed" => closes[e] = 1 /\ data' = [data EXCEPT ![eid[e]] = None]
  BY Zenon, <1>1 DEF CloseChan, IInv
<1> HIDE DEF e, k
<1>3. /\ \A f \in Entries : f # e => state'[f] = state[f] /\ shut'[f] = shut[f]
      /\ state'[e] = s
      /\ shut'[e] = shut[e] \cup {k}
      /\ k \in Nat
  BY Zenon, <1>1, <1>2 DEF IInv, TypeOK, EntryTypeOK
<1>4. /\ data' \in [Ids -> Entries \cup {None}]
      /\ \A i \in Ids : i # eid[e] => data'[i] = data[i]
      /\ s = "active" => data'[eid[e]] = e
      /\ s = "closed" => data'[eid[e]] = None
  BY Zenon, <1>1, <1>2 DEF IInv, TypeOK, CacheTypeOK
<1>5. EntryTypeOK'
  <2>1. state' \in [Entries -> EntryStates]
    BY Zenon, <1>1, <1>2 DEF IInv, TypeOK, EntryTypeOK, EntryStates
  <2>2. shut' \in [Entries -> SUBSET Nat]
    BY SMTT(30), <1>1, <1>2, <1>3 DEF IInv, TypeOK, EntryTypeOK
  <2>3. crashed' \in BOOLEAN
    BY Zenon DEF CloseChan
  <2> QED
    BY Zenon, <2>1, <2>2, <2>3 DEF IInv, TypeOK, EntryTypeOK
<1>6. TypeOK'
  BY Zenon, <1>4, <1>5 DEF IInv, TypeOK, CacheTypeOK, BoundsTypeOK, bounds, Quiet
<1>7. FreshInv'
  <2>1. ~(e > count)
    BY Zenon, <1>1, KnownNotAbove DEF IInv
  <2>2. BlankInv'
    BY Zenon, <1>3, <2>1 DEF IInv, FreshInv, BlankInv
  <2>3. MapInv'
    BY Zenon, <1>1, <1>4 DEF IInv, FreshInv, MapInv, Known
  <2>4. RefInv'
    BY Zenon DEF IInv, FreshInv, RefInv, Quiet, ProcFrame, Known
  <2> QED
    BY Zenon, <2>2, <2>3, <2>4 DEF FreshInv
<1>8. StoredInv'
  <2> SUFFICES ASSUME NEW f \in Entries,
                      \/ state'[f] \in {"active", "closing"}
                      \/ state'[f] = "loading" /\ loadErr'[f] = "nil"
               PROVE  data'[eid'[f]] = f
    BY Zenon DEF StoredInv
  <2>1. CASE f = e
    BY Zenon, <1>3, <1>4, <2>1
  <2>2. CASE f # e
    <3>1. data[eid[f]] = f /\ eid[f] \in Ids
      BY Zenon, <1>3, <2>2, StoredEntry
    <3> QED
      BY Zenon, <1>1, <1>4, <2>2, <3>1
  <2> QED
    BY Zenon, <2>1, <2>2
<1>9. \A q \in Procs : \A f \in Entries : Closer(q, f)' <=> (Closer(q, f) /\ q # p)
  BY Zenon DEF Closer, Quiet, ProcFrame, Busy
<1>10. \A q \in Procs : q # p => ~Closer(q, e)
  BY Zenon, <1>1 DEF IInv, CloserInv
<1>11. \A f \in Entries : Closer(p, f) => f = e
  BY Zenon, <1>1 DEF Closer
<1>12. CloserInv'
  <2>1. \A f \in Entries : state'[f] = "closing" => \E q \in Procs : Closer(q, f)'
    <3> SUFFICES ASSUME NEW f \in Entries, state'[f] = "closing"
                 PROVE  \E q \in Procs : Closer(q, f)'
      OBVIOUS
    <3>1. f # e /\ state[f] = "closing"
      BY Zenon, <1>3
    <3>2. PICK q \in Procs : Closer(q, f)
      BY Zenon, <3>1 DEF IInv, CloserInv
    <3> QED
      BY Zenon, <1>9, <1>11, <3>1, <3>2
  <2>2. \A q \in Procs : \A f \in Entries : Closer(q, f)' => state'[f] = "closing"
    <3> SUFFICES ASSUME NEW q \in Procs, NEW f \in Entries, Closer(q, f)'
                 PROVE  state'[f] = "closing"
      OBVIOUS
    <3>1. Closer(q, f) /\ f # e
      BY Zenon, <1>9, <1>10
    <3>2. state[f] = "closing"
      BY Zenon, <3>1 DEF IInv, CloserInv
    <3> QED
      BY Zenon, <1>3, <3>1, <3>2
  <2>3. \A q, r \in Procs : \A f \in Entries : Closer(q, f)' /\ Closer(r, f)' => q = r
    BY Zenon, <1>9 DEF IInv, CloserInv
  <2>4. \A f \in Entries : state'[f] = "closing" => chan'[f] \notin shut'[f]
    BY Zenon, <1>3 DEF IInv, CloserInv
  <2>5. \A f \in Entries : \A n \in shut'[f] : n <= chan'[f]
    BY SMTT(30), <1>2, <1>3 DEF IInv, CloserInv
  <2> QED
    BY Zenon, <2>1, <2>2, <2>3, <2>4, <2>5 DEF CloserInv
<1>13. \A q \in Procs : \A f \in Entries : Loader(q, f)' <=> Loader(q, f)
  BY Zenon DEF Loader, Quiet, ProcFrame, Busy, CloserPCs
<1>14. \A q \in Procs : pc'[q] \in {"loadFunc", "closeLate"} =>
         /\ pc'[q] = pc[q]
         /\ ent'[q] = ent[q]
         /\ ent[q] \in Entries \ {e}
  <2> SUFFICES ASSUME NEW q \in Procs, pc'[q] \in {"loadFunc", "closeLate"}
               PROVE  pc'[q] = pc[q] /\ ent'[q] = ent[q] /\ ent[q] \in Entries \ {e}
    OBVIOUS
  <2>1. q # p
    BY Zenon DEF Quiet, Busy
  <2>2. pc'[q] = pc[q] /\ ent'[q] = ent[q]
    BY Zenon, <2>1 DEF Quiet, ProcFrame
  <2>3. state[ent[q]] = "loading"
    BY Zenon, <2>2 DEF IInv, LoaderInv
  <2>4. ent[q] \in Entries
    BY Zenon, <2>2, OwnEntry
  <2> QED
    BY Zenon, <1>1, <2>2, <2>3, <2>4
<1>15. \A q \in Procs : pc[q] = "closeLate" => eid[ent[q]] # eid[e] /\ eid[ent[q]] \in Ids
  <2>1. \A q \in Procs : pc[q] = "closeLate" => data[eid[ent[q]]] = None
    BY Zenon DEF IInv, LoaderInv
  <2>2. e # None
    BY Zenon, <1>1, OCacheAssumption
  <2> QED
    BY Zenon, <1>1, <2>1, <2>2, OwnEntry
<1>16. LoaderInv'
  <2>1. \A q \in Procs : pc'[q] \in {"loadFunc", "closeLate"} =>
          pc'[q] = pc[q] /\ ent'[q] = ent[q] /\ state'[ent[q]] = state[ent[q]]
    BY Zenon, <1>3, <1>14
  <2>2. \A q \in Procs : pc'[q] = "closeLate" => data'[eid[ent[q]]] = data[eid[ent[q]]]
    BY <1>4, <1>14, <1>15
  <2>3. \A q \in Procs : \A f \in Entries : Loader(q, f)' => Loader(q, f) /\ ~loadDone'[f]
    BY Zenon, <1>13 DEF IInv, LoaderInv
  <2> QED
    BY Zenon, <2>1, <2>2, <2>3, LoaderFrame DEF IInv
<1>17. \A q \in Procs : pc'[q] \in CloserPCs
                         => pc'[q] = pc[q] /\ closes'[ent'[q]] = closes[ent[q]]
  BY Zenon DEF Quiet, ProcFrame, Busy, CloserPCs
<1>18. ClosesInv'
  <2>1. hasValue[e]
    BY Zenon, <1>1 DEF IInv, ClosesInv
  <2>2. /\ s = "active" => closes[e] = 0
        /\ s = "closed" => closes[e] = 1
    BY Zenon, <1>2
  <2> QED
    BY <1>1, <1>3, <1>17, <2>1, <2>2, ClosesFrame DEF IInv
<1> QED
  BY Zenon, <1>2, <1>6, <1>7, <1>8, <1>12, <1>16, <1>18 DEF IInv

-----------------------------------------------------------------------------
(* The invariant is inductive. *)

\* The invariant holds initially.
LEMMA InitInv == Init => IInv
<1> SUFFICES ASSUME Init PROVE IInv
  OBVIOUS
<1>1. TypeOK
  <2>1. CacheTypeOK /\ BoundsTypeOK
    <3>1. 0 \in 0..MaxEntries /\ 0 \in 0..MaxOps /\ 0 \in 0..MaxDeclines
      BY OCacheAssumption
    <3> QED
      BY Zenon, <3>1 DEF Init, CacheTypeOK, BoundsTypeOK
  <2>2. EntryTypeOK
    BY Zenon DEF Init, EntryTypeOK, EntryStates
  <2>3. ProcTypeOK
    BY OCacheAssumption DEF Init, ProcTypeOK, PCs, Ops
  <2> QED
    BY Zenon, <2>1, <2>2, <2>3 DEF TypeOK
<1>2. \A e \in Entries : ~(e <= count)
  BY OCacheAssumption DEF Init, Entries
<1>3. FreshInv
  <2>1. BlankInv
    BY Zenon, <1>2 DEF Init, BlankInv
  <2>2. MapInv /\ RefInv
    BY Zenon DEF Init, MapInv, RefInv, ArgPCs
  <2> QED
    BY Zenon, <2>1, <2>2 DEF FreshInv
<1>4. StoredInv /\ ~crashed
  BY Zenon DEF Init, StoredInv
<1>5. CloserInv
  BY Zenon DEF Init, CloserInv, Closer
<1>6. LoaderInv
  BY Zenon DEF Init, LoaderInv, Loader
<1>7. ClosesInv
  BY Zenon DEF Init, ClosesInv
<1> QED
  BY Zenon, <1>1, <1>3, <1>4, <1>5, <1>6, <1>7 DEF IInv

\* Starting an operation keeps the invariant.
LEMMA CallInv ==
    ASSUME IInv, NEW p \in Procs, Call(p)
    PROVE  IInv'
<1>1. CASE Get(p)
  BY Zenon, <1>1, StartStep DEF Get, Ops, PCs, Busy
<1>2. CASE Pick(p)
  BY Zenon, <1>2, StartStoredStep DEF Pick, Ops, PCs, Busy
<1>3. CASE WaitClosing(p)
  BY Zenon, <1>3, StartStoredStep DEF WaitClosing, Ops, PCs, Busy
<1>4. CASE Add(p)
  BY Zenon, <1>4, AddStep
<1>5. CASE Remove(p)
  BY Zenon, <1>5, StartStoredStep DEF Remove, Ops, PCs, Busy
<1>6. CASE RemoveSame(p)
  <2>1. PICK v \in Entries : /\ hasValue[v]
                             /\ data[eid[v]] = v
                             /\ Start(p, "RemoveSame", "removeWaitLoad", eid[v], v)
    BY Zenon, <1>6 DEF RemoveSame
  <2>2. eid[v] \in Ids /\ v # None
    BY <2>1, OCacheAssumption
       DEF IInv, ClosesInv, FreshInv, BlankInv, TypeOK, CacheTypeOK, Entries
  <2>3. Known(v)
    BY Zenon, <2>1, <2>2 DEF IInv, FreshInv, MapInv
  <2> QED
    BY Zenon, <1>6, <2>1, <2>2, <2>3, StartStep DEF RemoveSame, Ops, PCs, Busy
<1>7. CASE TryRemove(p)
  BY Zenon, <1>7, StartStoredStep DEF TryRemove, Ops, PCs, Busy
<1>8. CASE GC(p)
  <2>1. PICK expired \in SUBSET {e \in {data[i] : i \in Ids} \ {None} : state[e] = "active"} :
          \E e \in expired :
             /\ Goto(p, "trySetClosing")
             /\ op' = [op EXCEPT ![p] = "GC"]
             /\ ent' = [ent EXCEPT ![p] = e]
             /\ todo' = [todo EXCEPT ![p] = expired \ {e}]
    BY Zenon, <1>8 DEF GC
  <2>2. PICK e \in expired :
             /\ Goto(p, "trySetClosing")
             /\ op' = [op EXCEPT ![p] = "GC"]
             /\ ent' = [ent EXCEPT ![p] = e]
             /\ todo' = [todo EXCEPT ![p] = expired \ {e}]
    BY Zenon, <2>1
  <2>3. \A f \in expired : Known(f) /\ f \in Entries /\ f # None
    BY DEF IInv, FreshInv, MapInv, Known
  <2>4. /\ pc[p] = "idle"
        /\ UNCHANGED <<cacheVars, entryVars, arg, gen, retries, ctx, declines>>
        /\ ops < MaxOps
        /\ ops' = ops + 1
    BY Zenon, <1>8 DEF GC
  <2>5. ProcTypeOK'
    BY Zenon, <2>2, <2>3, <2>4 DEF Goto, IInv, TypeOK, ProcTypeOK, PCs, Ops
  <2>6. /\ ProcFrame(p)
        /\ pc'[p] = "trySetClosing"
        /\ ent'[p] = e
        /\ todo'[p] \subseteq expired
    BY Zenon, <2>2, <2>4 DEF Goto, IInv, TypeOK, ProcTypeOK, ProcFrame
  <2>7. Quiet(p)
    BY Zenon, <2>3, <2>5, <2>6 DEF Quiet, Busy, ArgPCs
  <2>8. BoundsTypeOK'
    BY <2>4, OCacheAssumption DEF IInv, TypeOK, BoundsTypeOK
  <2> QED
    BY Zenon, <2>4, <2>7, <2>8, QuietStep
       DEF Busy, cacheVars, entryVars, IInv, TypeOK, CacheTypeOK, EntryTypeOK
<1>9. CASE Close(p)
  <2> DEFINE entries == {data[i] : i \in Ids} \ {None}
  <2>1. \A f \in entries : Known(f) /\ f \in Entries /\ f # None
    BY Zenon DEF IInv, FreshInv, MapInv, Known
  <2>2. /\ pc[p] = "idle"
        /\ closed' = TRUE
        /\ ops < MaxOps
        /\ ops' = ops + 1
        /\ UNCHANGED <<data, count, eid, state, loadDone, loadErr, aborted,
                       hasValue, chan, shut, closes, crashed, declines>>
        /\ cancelled' \in [Entries -> BOOLEAN]
    BY Zenon, <1>9 DEF Close
  <2>3. Quiet(p)
    <3>1. CASE UNCHANGED procVars
      BY Zenon, <2>2, <3>1 DEF Quiet, Busy, ArgPCs, procVars, ProcFrame, IInv, TypeOK, ProcTypeOK,
                        FreshInv, RefInv
    <3>2. ASSUME NEW e \in entries,
                 Goto(p, "removeWaitLoad"),
                 op' = [op EXCEPT ![p] = "Close"],
                 ent' = [ent EXCEPT ![p] = e],
                 todo' = [todo EXCEPT ![p] = entries \ {e}],
                 ctx' = [ctx EXCEPT ![p] = "live"],
                 UNCHANGED <<arg, gen, retries>>
          PROVE  Quiet(p)
      <4>1. ProcTypeOK'
        BY Zenon, <2>1, <3>2 DEF Goto, IInv, TypeOK, ProcTypeOK, PCs, Ops
      <4>2. /\ ProcFrame(p)
            /\ pc'[p] = "removeWaitLoad"
            /\ ent'[p] = e
            /\ todo'[p] \subseteq entries
        BY Zenon, <3>2 DEF Goto, IInv, TypeOK, ProcTypeOK, ProcFrame
      <4> HIDE DEF entries
      <4> QED
        BY Zenon, <2>1, <4>1, <4>2 DEF Quiet, Busy, ArgPCs
    <3> QED
      BY Zenon, <1>9, <3>1, <3>2 DEF Close
  <2>4. BoundsTypeOK'
    BY <2>2, OCacheAssumption DEF IInv, TypeOK, BoundsTypeOK
  <2> QED
    BY Zenon, <2>2, <2>3, <2>4, QuietStep DEF Busy, IInv, TypeOK, CacheTypeOK, EntryTypeOK
<1> QED
  BY Zenon, <1>1, <1>2, <1>3, <1>4, <1>5, <1>6, <1>7, <1>8, <1>9 DEF Call

\* Both ends of an iteration of Get leave the goroutine without an entry to load.
LEMMA GetResultQuiet ==
    ASSUME IInv, NEW p \in Procs, pc[p] \in ArgPCs, GetResult(p)
    PROVE  Quiet(p)
<1>1. CASE Return(p)
  BY Zenon, <1>1, ReturnQuiet
<1>2. CASE /\ retries[p] < MaxLoadRetries
           /\ retries' = [retries EXCEPT ![p] = @ + 1]
           /\ Goto(p, "get")
           /\ UNCHANGED <<op, arg, ent, gen, todo, ctx>>
  <2>1. ProcTypeOK'
    BY <1>2, OCacheAssumption DEF Goto, IInv, TypeOK, ProcTypeOK, PCs
  <2>2. /\ ProcFrame(p)
        /\ pc'[p] = "get"
        /\ ent'[p] = ent[p]
        /\ arg'[p] = arg[p]
        /\ todo'[p] = todo[p]
    BY Zenon, <1>2 DEF Goto, IInv, TypeOK, ProcTypeOK, ProcFrame
  <2> QED
    BY Zenon, <2>1, <2>2 DEF Quiet, Busy, ArgPCs, IInv, FreshInv, RefInv
<1> QED
  BY Zenon, <1>1, <1>2 DEF GetResult

\* After a close a goroutine goes on quietly.
LEMMA AfterCloseQuiet ==
    ASSUME IInv, NEW p \in Procs, pc[p] \in ArgPCs \ {"get"}, AfterClose(p)
    PROVE  Quiet(p)
<1>1. arg[p] \in Ids /\ ent[p] # None
  BY Zenon DEF IInv, FreshInv, RefInv, ArgPCs
<1>2. CASE Step(p, "get")
  BY Zenon, <1>1, <1>2, StepQuiet DEF PCs, Busy
<1>3. CASE Return(p)
  BY Zenon, <1>3, ReturnQuiet
<1> QED
  BY Zenon, <1>2, <1>3 DEF AfterClose

\* A goroutine notes the channel it waits for and parks on it.
LEMMA ParkQuiet ==
    ASSUME IInv, NEW p \in Procs, NEW l \in {"parkClose", "parkClosing"},
           pc[p] \in {"waitClose", "setClosing"},
           l = "parkClose" => pc[p] = "waitClose",
           Goto(p, l), gen' = [gen EXCEPT ![p] = chan[ent[p]]],
           UNCHANGED <<op, arg, ent, todo, retries, ctx>>
    PROVE  Quiet(p)
<1>1. ent[p] \in Entries /\ ent[p] # None
  BY Zenon, OwnEntry
<1>2. chan[ent[p]] \in Nat
  BY Zenon, <1>1 DEF IInv, TypeOK, EntryTypeOK
<1>3. ProcTypeOK'
  BY Zenon, <1>2 DEF Goto, IInv, TypeOK, ProcTypeOK, PCs
<1>4. /\ ProcFrame(p)
      /\ pc'[p] = l
      /\ ent'[p] = ent[p]
      /\ arg'[p] = arg[p]
      /\ todo'[p] = todo[p]
  BY Zenon DEF Goto, IInv, TypeOK, ProcTypeOK, ProcFrame
<1> QED
  BY Zenon, <1>1, <1>3, <1>4 DEF Quiet, Busy, ArgPCs, IInv, FreshInv, RefInv

\* The locked part of Get keeps the invariant.
LEMMA GetLockedStep ==
    ASSUME IInv, NEW p \in Procs, GetLocked(p)
    PROVE  IInv'
<1> DEFINE i == arg[p]
           e == count + 1
<1>1. pc[p] = "get" /\ i \in Ids /\ UNCHANGED bounds
  BY Zenon DEF GetLocked, IInv, FreshInv, RefInv, ArgPCs
<1>2. CASE Return(p) /\ UNCHANGED <<cacheVars, entryVars>>
  BY Zenon, <1>1, <1>2, ReturnQuiet, WorkQuiet DEF Busy
<1>3. CASE /\ data[i] # None
           /\ ent' = [ent EXCEPT ![p] = data[i]]
           /\ Goto(p, "waitClose")
           /\ UNCHANGED <<cacheVars, entryVars, op, arg, gen, todo, retries, ctx>>
  <2>1. Known(data[i]) /\ data[i] \in Entries
    BY Zenon, <1>1, <1>3 DEF IInv, FreshInv, MapInv, Known
  <2>2. ProcTypeOK'
    BY Zenon, <1>3, <2>1 DEF Goto, IInv, TypeOK, ProcTypeOK, PCs
  <2>3. /\ ProcFrame(p)
        /\ pc'[p] = "waitClose"
        /\ ent'[p] = data[i]
        /\ arg'[p] = i
        /\ todo'[p] = todo[p]
    BY Zenon, <1>3 DEF Goto, IInv, TypeOK, ProcTypeOK, ProcFrame
  <2>4. Quiet(p)
    BY Zenon, <1>1, <1>3, <2>1, <2>2, <2>3 DEF Quiet, Busy, IInv, FreshInv, RefInv
  <2> QED
    BY Zenon, <1>1, <1>3, <2>4, WorkQuiet DEF Busy
<1>4. CASE /\ ~closed
           /\ data[i] = None
           /\ e \in Entries
           /\ count' = e
           /\ data' = [data EXCEPT ![i] = e]
           /\ eid' = [eid EXCEPT ![e] = i]
           /\ state' = [state EXCEPT ![e] = "loading"]
           /\ ent' = [ent EXCEPT ![p] = e]
           /\ Goto(p, "loadFunc")
           /\ UNCHANGED <<closed, loadDone, loadErr, aborted, hasValue, cancelled,
                          chan, shut, closes, crashed,
                          op, arg, gen, todo, retries, ctx>>
  <2>1. Creates(i, e)
    BY Zenon, <1>1, <1>4 DEF Creates
  <2> HIDE DEF i, e
  <2> QED
    BY Zenon, <1>1, <1>4, <2>1, GetCreatesStep DEF Goto
<1> QED
  BY Zenon, <1>2, <1>3, <1>4 DEF GetLocked

\* A step of a running operation keeps the invariant.
LEMMA WorkInv ==
    ASSUME IInv, NEW p \in Procs, Work(p)
    PROVE  IInv'
<1>1. CASE GetLocked(p)
  BY Zenon, <1>1, GetLockedStep
<1>2. CASE waitClose(p)
  <2>1. pc[p] = "waitClose" /\ arg[p] \in Ids /\ ent[p] # None
    BY Zenon, <1>2 DEF waitClose, IInv, FreshInv, RefInv, ArgPCs
  <2>2. Quiet(p)
    <3>1. CASE Goto(p, "parkClose") /\ gen' = [gen EXCEPT ![p] = chan[ent[p]]]
               /\ UNCHANGED <<op, arg, ent, todo, retries, ctx>>
      BY Zenon, <2>1, <3>1, ParkQuiet
    <3>2. CASE AfterClose(p)
      BY Zenon, <2>1, <3>2, AfterCloseQuiet DEF ArgPCs
    <3>3. CASE Step(p, "waitLoad")
      BY Zenon, <2>1, <3>3, StepQuiet DEF PCs, Busy
    <3>4. CASE Return(p)
      BY Zenon, <3>4, ReturnQuiet
    <3> QED
      BY Zenon, <1>2, <3>1, <3>2, <3>3, <3>4 DEF waitClose
  <2> QED
    BY Zenon, <1>2, <2>1, <2>2, WorkQuiet DEF waitClose, Busy
<1>3. CASE ParkClose(p)
  <2>1. pc[p] = "parkClose" /\ UNCHANGED <<cacheVars, entryVars, bounds>>
    BY Zenon, <1>3 DEF ParkClose
  <2>2. Quiet(p)
    BY Zenon, <1>3, <2>1, AfterCloseQuiet, ReturnQuiet DEF ParkClose, ArgPCs
  <2> QED
    BY Zenon, <2>1, <2>2, WorkQuiet DEF Busy
<1>4. CASE LoadValue(p)
  BY Zenon, <1>4, LoadValueStep
<1>5. CASE LoadFails(p)
  BY Zenon, <1>5, LoadFailsStep
<1>6. CASE CloseLate(p)
  BY Zenon, <1>6, CloseLateStep
<1>7. CASE CloseLoad(p)
  <2>1. pc[p] = "closeLoad" /\ GetResult(p)
    BY Zenon, <1>7 DEF CloseLoad
  <2>2. Quiet(p)
    BY Zenon, <2>1, GetResultQuiet DEF ArgPCs
  <2> QED
    BY Zenon, <1>7, <2>1, <2>2, CloseLoadStep DEF CloseLoad
<1>8. CASE waitLoad(p)
  <2>1. pc[p] = "waitLoad" /\ UNCHANGED <<cacheVars, entryVars, bounds>>
    BY Zenon, <1>8 DEF waitLoad
  <2>2. Quiet(p)
    BY Zenon, <1>8, <2>1, GetResultQuiet, ReturnQuiet DEF waitLoad, ArgPCs
  <2> QED
    BY Zenon, <2>1, <2>2, WorkQuiet DEF Busy
<1>9. CASE RemoveWaitLoad(p)
  <2>1. pc[p] = "removeWaitLoad" /\ UNCHANGED <<cacheVars, entryVars, bounds>>
    BY Zenon, <1>9 DEF RemoveWaitLoad
  <2>2. ent[p] # None
    BY Zenon, <2>1, OwnEntry
  <2>3. Step(p, "setClosing") => Quiet(p)
    BY Zenon, <2>2, StepQuiet DEF PCs, Busy, ArgPCs
  <2>4. Quiet(p)
    BY Zenon, <1>9, <2>3, FinishQuiet DEF RemoveWaitLoad
  <2> QED
    BY Zenon, <2>1, <2>4, WorkQuiet DEF Busy
<1>10. CASE setClosing(p)
  <2>1. /\ pc[p] = "setClosing"
        /\ UNCHANGED <<cacheVars, eid, loadDone, loadErr, aborted, hasValue,
                       cancelled, shut, closes, crashed, bounds>>
    BY Zenon, <1>10 DEF setClosing
  <2>2. CASE Finish(p) /\ UNCHANGED <<state, chan>>
    BY Zenon, <2>1, <2>2, FinishQuiet, WorkQuiet DEF Busy, entryVars
  <2>3. CASE Goto(p, "parkClosing") /\ gen' = [gen EXCEPT ![p] = chan[ent[p]]]
             /\ UNCHANGED <<op, arg, ent, todo, retries, ctx, state, chan>>
    BY Zenon, <2>1, <2>3, ParkQuiet, WorkQuiet DEF Busy, entryVars
  <2>4. CASE state[ent[p]] = "active" /\ acquireClosing(ent[p]) /\ Step(p, "valueClose")
    BY Zenon, <2>1, <2>4, AcquireStep
  <2> QED
    BY Zenon, <1>10, <2>2, <2>3, <2>4 DEF setClosing
<1>11. CASE ParkClosing(p)
  <2>1. pc[p] = "parkClosing" /\ UNCHANGED <<cacheVars, entryVars, bounds>>
    BY Zenon, <1>11 DEF ParkClosing
  <2>2. ent[p] # None
    BY Zenon, <2>1, OwnEntry
  <2>3. Step(p, "setClosing") => Quiet(p)
    BY Zenon, <2>2, StepQuiet DEF PCs, Busy, ArgPCs
  <2>4. Quiet(p)
    BY Zenon, <1>11, <2>3, FinishQuiet DEF ParkClosing
  <2> QED
    BY Zenon, <2>1, <2>4, WorkQuiet DEF Busy
<1>12. CASE ValueClose(p)
  <2>1. BoundsTypeOK'
    BY Zenon, <1>12 DEF ValueClose, bounds, IInv, TypeOK, BoundsTypeOK
  <2> QED
    BY Zenon, <1>12, <2>1, CloserMoveStep DEF ValueClose, CloserPCs
<1>13. CASE RemoveDelete(p)
  <2>1. pc[p] = "removeDelete" /\ Finish(p) /\ closes[ent[p]] = 1
    BY Zenon, <1>13 DEF RemoveDelete, IInv, ClosesInv
  <2> QED
    BY Zenon, <1>13, <2>1, FinishQuiet, ReleaseStep DEF RemoveDelete, closeAndDelete, CloserPCs
<1>14. CASE TrySetClosing(p)
  <2>1. /\ pc[p] = "trySetClosing"
        /\ UNCHANGED <<cacheVars, eid, loadDone, loadErr, aborted, hasValue,
                       cancelled, shut, closes, crashed, bounds>>
    BY Zenon, <1>14 DEF TrySetClosing
  <2>2. CASE Finish(p) /\ UNCHANGED <<state, chan>>
    BY Zenon, <2>1, <2>2, FinishQuiet, WorkQuiet DEF Busy, entryVars
  <2>3. CASE state[ent[p]] = "active" /\ acquireClosing(ent[p]) /\ Step(p, "tryClose")
    BY Zenon, <2>1, <2>3, AcquireStep
  <2> QED
    BY Zenon, <1>14, <2>2, <2>3 DEF TrySetClosing
<1>15. CASE TryClose(p)
  <2>1. BoundsTypeOK'
    BY SMTT(30), <1>15, OCacheAssumption DEF TryClose, IInv, TypeOK, BoundsTypeOK
  <2> QED
    BY Zenon, <1>15, <2>1, CloserMoveStep DEF TryClose, CloserPCs
<1>16. CASE Restore(p)
  <2>1. pc[p] = "restore" /\ closes[ent[p]] = 0
    BY Zenon, <1>16 DEF Restore, IInv, ClosesInv
  <2>2. CASE closed
    <3>1. BoundsTypeOK'
      BY Zenon, <1>16 DEF Restore, bounds, IInv, TypeOK, BoundsTypeOK
    <3> QED
      BY Zenon, <1>16, <2>1, <2>2, <3>1, CloserMoveStep DEF Restore, CloserPCs
  <2>3. CASE ~closed
    BY Zenon, <1>16, <2>1, <2>3, FinishQuiet, ReleaseStep DEF Restore, cacheVars, CloserPCs
  <2> QED
    BY Zenon, <2>2, <2>3
<1>17. CASE Escalate(p)
  <2>1. BoundsTypeOK'
    BY Zenon, <1>17 DEF Escalate, bounds, IInv, TypeOK, BoundsTypeOK
  <2> QED
    BY Zenon, <1>17, <2>1, CloserMoveStep DEF Escalate, CloserPCs
<1>18. CASE TryDelete(p)
  <2>1. pc[p] = "tryDelete" /\ Finish(p) /\ closes[ent[p]] = 1
    BY Zenon, <1>18 DEF TryDelete, IInv, ClosesInv
  <2> QED
    BY Zenon, <1>18, <2>1, FinishQuiet, ReleaseStep DEF TryDelete, closeAndDelete, CloserPCs
<1> QED
  BY Zenon, <1>1, <1>2, <1>3, <1>4, <1>5, <1>6, <1>7, <1>8, <1>9, <1>10, <1>11, <1>12,
     <1>13, <1>14, <1>15, <1>16, <1>17, <1>18 DEF Work

-----------------------------------------------------------------------------
(* The theorems. *)

\* Cancelling a context keeps the invariant.
LEMMA CancelInv ==
    ASSUME IInv, NEW p \in Procs, Cancel(p)
    PROVE  IInv'
<1> USE DEF Cancel, cacheVars, entryVars
<1>1. TypeOK'
  <2>1. ProcTypeOK'
    BY Zenon DEF IInv, TypeOK, ProcTypeOK
  <2>2. BoundsTypeOK'
    BY Zenon DEF IInv, TypeOK, BoundsTypeOK, bounds
  <2>3. CacheTypeOK' /\ EntryTypeOK'
    BY Zenon DEF IInv, TypeOK, CacheTypeOK, EntryTypeOK
  <2> QED
    BY Zenon, <2>1, <2>2, <2>3 DEF TypeOK
<1>2. FreshInv'
  BY Zenon DEF IInv, FreshInv, BlankInv, MapInv, RefInv, Known
<1>3. StoredInv'
  BY Zenon DEF IInv, StoredInv
<1>4. CloserInv'
  BY Zenon DEF IInv, CloserInv, Closer
<1>5. LoaderInv'
  BY Zenon DEF IInv, LoaderInv, Loader
<1>6. ClosesInv' /\ ~crashed'
  BY Zenon DEF IInv, ClosesInv
<1> QED
  BY Zenon, <1>1, <1>2, <1>3, <1>4, <1>5, <1>6 DEF IInv

\* So does a stuttering step.
LEMMA StutterInv ==
    ASSUME IInv, UNCHANGED vars
    PROVE  IInv'
<1>1. /\ UNCHANGED <<data, closed, count>>
      /\ UNCHANGED <<eid, state, loadDone, loadErr, aborted, hasValue>>
      /\ UNCHANGED <<cancelled, chan, shut, closes, crashed>>
      /\ UNCHANGED <<pc, op, arg, ent, gen, todo, retries, ctx>>
      /\ UNCHANGED bounds
  BY Zenon DEF vars, cacheVars, entryVars, procVars
<1>2. TypeOK'
  BY Zenon, <1>1 DEF bounds, IInv, TypeOK, CacheTypeOK, EntryTypeOK, ProcTypeOK, BoundsTypeOK
<1>3. FreshInv'
  BY Zenon, <1>1 DEF IInv, FreshInv, BlankInv, MapInv, RefInv, Known
<1>4. StoredInv' /\ ~crashed'
  BY Zenon, <1>1 DEF IInv, StoredInv
<1>5. CloserInv'
  BY Zenon, <1>1 DEF IInv, CloserInv, Closer
<1>6. LoaderInv'
  BY Zenon, <1>1 DEF IInv, LoaderInv, Loader
<1>7. ClosesInv'
  BY Zenon, <1>1 DEF IInv, ClosesInv
<1> QED
  BY Zenon, <1>2, <1>3, <1>4, <1>5, <1>6, <1>7 DEF IInv

\* The invariant is inductive.
LEMMA NextInv == IInv /\ [Next]_vars => IInv'
<1> SUFFICES ASSUME IInv, [Next]_vars
             PROVE  IInv'
  OBVIOUS
<1>1. CASE \E p \in Procs : Call(p) \/ Work(p) \/ Cancel(p)
  BY Zenon, <1>1, CallInv, WorkInv, CancelInv
<1>2. CASE UNCHANGED vars
  BY Zenon, <1>2, StutterInv
<1> QED
  BY Zenon, <1>1, <1>2 DEF Next, Terminated

\* Every behaviour of the cache, with any number of goroutines, ids, entries and
\* operations, stays within the inductive invariant.
THEOREM Invariance == Spec => []IInv
<1>1. Init => IInv
  BY Zenon, InitInv
<1>2. IInv /\ [Next]_vars => IInv'
  BY Zenon, NextInv
<1> QED
  BY <1>1, <1>2, PTL DEF Spec

\* The variables of the cache, of its entries and of the goroutines keep their
\* types.
THEOREM TypeCorrect == Spec => []TypeOK
<1>1. IInv => TypeOK
  BY Zenon DEF IInv
<1> QED
  BY <1>1, Invariance, PTL

\* No interleaving of Remove, TryRemove, GC, Close and a late load calls Close on
\* a value twice.
THEOREM ClosedOnce == Spec => []ValueClosedOnce
<1>1. IInv => ValueClosedOnce
  BY DEF IInv, ClosesInv, ValueClosedOnce
<1> QED
  BY <1>1, Invariance, PTL

\* No load or close channel is ever closed a second time.
THEOREM ChannelsClosedOnce == Spec => []NoChannelPanic
<1>1. IInv => NoChannelPanic
  BY Zenon DEF IInv, NoChannelPanic
<1> QED
  BY <1>1, Invariance, PTL

\* There is never a second open instance of an object.
THEOREM SingleInstance == Spec => []OneInstance
<1>1. IInv => OneInstance
  <2> SUFFICES ASSUME IInv, NEW e \in Entries, NEW f \in Entries,
                      Open(e), Open(f), eid[e] = eid[f]
               PROVE  e = f
    BY Zenon DEF OneInstance
  <2>1. ASSUME NEW g \in Entries, Open(g), hasValue[g]
        PROVE  data[eid[g]] = g
    <3>1. closes[g] = 0
      BY Zenon, <2>1 DEF Open
    <3>2. state[g] \in {"active", "closing", "closed"}
      BY Zenon, <2>1 DEF IInv, ClosesInv
    <3>3. state[g] # "closed"
      BY <3>1 DEF IInv, ClosesInv
    <3> QED
      BY Zenon, <3>2, <3>3, StoredEntry
  <2>2. \A g \in Entries : g # None
    BY Zenon, OCacheAssumption
  <2>7. ASSUME NEW g \in Entries, Open(g), ~hasValue[g]
        PROVE  data[eid[g]] = None
    BY Zenon, <2>7 DEF Open, IInv, LoaderInv
  <2>3. CASE hasValue[e] /\ hasValue[f]
    BY Zenon, <2>1, <2>3
  <2>4. CASE hasValue[e] /\ ~hasValue[f]
    BY Zenon, <2>1, <2>2, <2>4, <2>7
  <2>5. CASE ~hasValue[e] /\ hasValue[f]
    BY Zenon, <2>1, <2>2, <2>5, <2>7
  <2>6. CASE ~hasValue[e] /\ ~hasValue[f]
    BY Zenon, <2>6 DEF Open, IInv, LoaderInv
  <2> QED
    BY Zenon, <2>3, <2>4, <2>5, <2>6
<1> QED
  BY <1>1, Invariance, PTL

\* A closing entry always has exactly one goroutine that will finish the close.
THEOREM UniqueCloser == Spec => []ClosingHasOneCloser
<1>1. IInv => ClosingHasOneCloser
  BY SMTT(30) DEF IInv, CloserInv, ClosingHasOneCloser
<1> QED
  BY <1>1, Invariance, PTL

\* What Peek and ForEach hand out is not closed.
THEOREM VisibleOpen == Spec => []VisibleIsOpen
<1>1. IInv => VisibleIsOpen
  <2> SUFFICES ASSUME IInv
               PROVE  VisibleIsOpen
    OBVIOUS
  <2>1. \A i \in Ids : data[i] # None => data[i] \in Entries
    BY Zenon DEF IInv, FreshInv, MapInv, Known
  <2>2. \A e \in Entries : hasValue[e] /\ ~isClosing(e) => closes[e] = 0
    BY Zenon DEF IInv, ClosesInv, isClosing
  <2>3. ASSUME NEW i \in Ids, Peek(i) = "hit"
        PROVE  data[i] # None /\ hasValue[data[i]] /\ ~isClosing(data[i])
    BY Zenon, <2>3 DEF Peek
  <2>4. \A e \in ForEach : e \in Entries /\ hasValue[e] /\ ~isClosing(e)
    BY Zenon, <2>1 DEF ForEach
  <2> QED
    BY Zenon, <2>1, <2>2, <2>3, <2>4 DEF VisibleIsOpen
<1> QED
  BY <1>1, Invariance, PTL
-----------------------------------------------------------------------------
(* Nothing leaks when the cache is closed. *)

\* Where the goroutine is that runs Close.
SweepPCs == {"removeWaitLoad", "setClosing", "parkClosing", "valueClose", "removeDelete"}

\* The pass of Close has yet to come to the entry, or is about to acquire it.
Sweeps(p, e) ==
    /\ op[p] = "Close"
    /\ e \in todo[p] \/ (ent[p] = e /\ pc[p] \in {"removeWaitLoad", "setClosing"})

\* What is in the map is being loaded, open or being closed.
Live(e) == state[e] \in {"active", "closing"} \/ (state[e] = "loading" /\ loadErr[e] = "nil")

\* A load that has not ended has a loader, an open entry whose load channel is
\* not closed yet has one that is about to close it, and an open entry of a
\* closed cache is ahead of the pass of Close.
HeldInv(e) ==
    /\ state[e] = "loading" /\ loadErr[e] = "nil" =>
         \E p \in Procs : pc[p] = "loadFunc" /\ ent[p] = e
    /\ state[e] \in {"active", "closing"} =>
         /\ loadErr[e] = "nil"
         /\ loadDone[e] \/ \E p \in Procs : pc[p] = "closeLoad" /\ ent[p] = e
    /\ closed /\ state[e] = "active" => \E p \in Procs : Sweeps(p, e)

\* The pass of Close: it parks only on an entry that another goroutine closes,
\* and when its deadline has passed no loader is about to publish a value.
SweepInv(p) ==
    op[p] = "Close" =>
        /\ closed
        /\ pc[p] \in SweepPCs
        /\ pc[p] = "parkClosing" => state[ent[p]] # "active"
        /\ ctx[p] = "done" =>
             \A q \in Procs : pc[q] = "closeLoad" => loadErr[ent[q]] # "nil"

LeakInv ==
    /\ \A i \in Ids : data[i] # None => Live(data[i])
    /\ \A e \in Entries : HeldInv(e)
    /\ \A p \in Procs : SweepInv(p)

\* The locals of the other goroutines, and the other entries, are left alone.
OnlyProc(p) ==
    \A q \in Procs : q # p => /\ pc'[q] = pc[q] /\ op'[q] = op[q] /\ ent'[q] = ent[q]
                              /\ todo'[q] = todo[q] /\ ctx'[q] = ctx[q]
OnlyEntry(e) ==
    \A f \in Entries : f # e => /\ state'[f] = state[f]
                                /\ loadErr'[f] = loadErr[f]
                                /\ loadDone'[f] = loadDone[f]

\* An entry is held as before when neither it nor its loader takes a step, and
\* Close goes on with its pass.
LEMMA HeldFrame ==
    ASSUME LeakInv, NEW p \in Procs, NEW e, OnlyProc(p), OnlyEntry(e), closed' = closed,
           pc[p] \in {"loadFunc", "closeLoad"} => ent[p] = e,
           NEW f \in Entries, f # e,
           state[f] = "active" /\ Sweeps(p, f) => Sweeps(p, f)'
    PROVE  HeldInv(f)'
<1>1. HeldInv(f)
  BY Zenon DEF LeakInv
<1>2. /\ state'[f] = state[f] /\ loadErr'[f] = loadErr[f] /\ loadDone'[f] = loadDone[f]
  BY Zenon DEF OnlyEntry
<1>3. state[f] = "loading" /\ loadErr[f] = "nil" =>
        \E q \in Procs : pc'[q] = "loadFunc" /\ ent'[q] = f
  BY Zenon, <1>1 DEF HeldInv, OnlyProc
<1>4. state[f] \in {"active", "closing"} =>
        loadErr[f] = "nil" /\ (loadDone[f] \/ \E q \in Procs : pc'[q] = "closeLoad" /\ ent'[q] = f)
  BY Zenon, <1>1 DEF HeldInv, OnlyProc
<1>5. closed /\ state[f] = "active" => \E q \in Procs : Sweeps(q, f)'
  <2> SUFFICES ASSUME closed, state[f] = "active"
               PROVE  \E q \in Procs : Sweeps(q, f)'
    OBVIOUS
  <2>1. PICK q \in Procs : Sweeps(q, f)
    BY Zenon, <1>1 DEF HeldInv
  <2>2. CASE q = p
    BY Zenon, <2>1, <2>2
  <2>3. CASE q # p
    BY Zenon, <2>1, <2>3 DEF Sweeps, OnlyProc
  <2> QED
    BY Zenon, <2>2, <2>3
<1> QED
  BY Zenon, <1>2, <1>3, <1>4, <1>5 DEF HeldInv

\* Once the deadline of Close has passed, no loader comes to publish a value.
LEMMA DeadlineFrame ==
    ASSUME IInv, LeakInv, NEW p \in Procs, NEW e, OnlyProc(p), OnlyEntry(e),
           e \in Entries /\ loadErr'[e] = "nil" => loadErr[e] = "nil",
           pc'[p] = "closeLoad" => ~closed \/ loadErr'[ent'[p]] # "nil",
           NEW q \in Procs, op[q] = "Close", ctx[q] = "done",
           NEW r \in Procs, pc'[r] = "closeLoad"
    PROVE  loadErr'[ent'[r]] # "nil"
<1>1. SweepInv(q)
  BY Zenon DEF LeakInv
<1>2. CASE r = p
  BY Zenon, <1>1, <1>2 DEF SweepInv
<1>3. CASE r # p
  <2>1. pc[r] = "closeLoad" /\ ent'[r] = ent[r]
    BY Zenon, <1>3 DEF OnlyProc
  <2>2. loadErr[ent[r]] # "nil"
    BY Zenon, <1>1, <2>1 DEF SweepInv
  <2>3. ent[r] \in Entries
    BY Zenon, <2>1, OwnEntry
  <2> QED
    BY Zenon, <2>1, <2>2, <2>3 DEF OnlyEntry
<1> QED
  BY Zenon, <1>2, <1>3

\* A step of p that changes the entry e, or none, and keeps its side of the
\* invariant, keeps it.
LEMMA LeakStep ==
    ASSUME IInv, LeakInv, NEW p \in Procs, NEW e, OnlyProc(p), OnlyEntry(e), closed' = closed,
           pc[p] \in {"loadFunc", "closeLoad"} => ent[p] = e,
           \A f \in Entries : f # e /\ state[f] = "active" /\ Sweeps(p, f) => Sweeps(p, f)',
           e \in Entries => /\ loadErr'[e] = "nil" => loadErr[e] = "nil"
                            /\ state'[e] = "active" => state[e] = "active" \/ ~closed
                            /\ HeldInv(e)',
           pc'[p] = "closeLoad" => ~closed \/ loadErr'[ent'[p]] # "nil",
           \A j \in Ids : data'[j] # None =>
             IF data'[j] = e THEN Live(e)' ELSE data'[j] = data[j],
           SweepInv(p)'
    PROVE  LeakInv'
<1>1. \A j \in Ids : data'[j] # None => Live(data[j])'
  <2> SUFFICES ASSUME NEW j \in Ids, data'[j] # None, data'[j] # e
               PROVE  Live(data[j])'
    BY Zenon
  <2>1. data'[j] = data[j] /\ data[j] \in Entries /\ Live(data[j])
    BY Zenon DEF LeakInv, IInv, FreshInv, MapInv, Known
  <2> QED
    BY Zenon, <2>1 DEF Live, OnlyEntry
<1>2. \A f \in Entries : HeldInv(f)'
  BY Zenon, HeldFrame
<1>3. ASSUME NEW q \in Procs, q # p
      PROVE  SweepInv(q)'
  <2> SUFFICES ASSUME op[q] = "Close"
               PROVE  /\ closed'
                      /\ pc'[q] \in SweepPCs
                      /\ pc'[q] = "parkClosing" => state'[ent'[q]] # "active"
                      /\ ctx'[q] = "done" =>
                           \A r \in Procs : pc'[r] = "closeLoad" => loadErr'[ent'[r]] # "nil"
    BY Zenon, <1>3 DEF SweepInv, OnlyProc
  <2>1. SweepInv(q)
    BY Zenon DEF LeakInv
  <2>2. closed' /\ pc'[q] = pc[q] /\ pc[q] \in SweepPCs /\ ent'[q] = ent[q] /\ ctx'[q] = ctx[q]
    BY Zenon, <1>3, <2>1 DEF SweepInv, OnlyProc
  <2>3. ent[q] \in Entries
    BY Zenon, <2>2, OwnEntry DEF SweepPCs
  <2>4. pc[q] = "parkClosing" => state'[ent[q]] # "active"
    BY Zenon, <2>1, <2>2, <2>3 DEF SweepInv, OnlyEntry
  <2>5. ctx[q] = "done" =>
          \A r \in Procs : pc'[r] = "closeLoad" => loadErr'[ent'[r]] # "nil"
    BY Zenon, DeadlineFrame
  <2> QED
    BY Zenon, <2>2, <2>4, <2>5
<1> QED
  BY Zenon, <1>1, <1>2, <1>3 DEF LeakInv

\* A goroutine that runs another operation than Close leaves the entries alone.
LEMMA QuietLeak ==
    ASSUME IInv, LeakInv, NEW p \in Procs, OnlyProc(p), UNCHANGED <<cacheVars, entryVars>>,
           pc[p] \notin {"loadFunc", "closeLoad"}, pc'[p] # "closeLoad",
           op[p] # "Close", op'[p] # "Close"
    PROVE  LeakInv'
<1>1. UNCHANGED <<data, closed, state, loadErr, loadDone>>
  BY Zenon DEF cacheVars, entryVars
<1>2. OnlyEntry(None) /\ None \notin Entries
  BY Zenon, <1>1, OCacheAssumption DEF OnlyEntry
<1>3. SweepInv(p)' /\ \A f \in Entries : ~Sweeps(p, f)
  BY Zenon DEF SweepInv, Sweeps
<1> QED
  BY Zenon, <1>1, <1>2, <1>3, LeakStep

\* Only the pass of Close runs as Close.
LEMMA NotClose ==
    ASSUME LeakInv, NEW p \in Procs, pc[p] \notin SweepPCs
    PROVE  op[p] # "Close"
  BY Zenon DEF LeakInv, SweepInv

\* What the control operators do to the locals the invariant is about.
LEMMA ReturnOnly ==
    ASSUME IInv, NEW p \in Procs, Return(p)
    PROVE  OnlyProc(p) /\ pc'[p] = "idle" /\ op'[p] = "none"
  BY Zenon DEF IInv, TypeOK, ProcTypeOK, Return, Goto, OnlyProc

\* Step moves the goroutine within its operation.
LEMMA StepOnly ==
    ASSUME IInv, NEW p \in Procs, NEW l, Step(p, l)
    PROVE  /\ OnlyProc(p)
           /\ pc'[p] = l
           /\ op' = op /\ ent' = ent /\ todo' = todo /\ ctx' = ctx
  BY Zenon DEF IInv, TypeOK, ProcTypeOK, Step, Goto, OnlyProc

\* Start begins an operation.
LEMMA StartOnly ==
    ASSUME IInv, NEW p \in Procs, NEW o, NEW l, NEW i, NEW e, Start(p, o, l, i, e)
    PROVE  OnlyProc(p) /\ pc[p] = "idle" /\ pc'[p] = l /\ op'[p] = o
  BY Zenon DEF IInv, TypeOK, ProcTypeOK, Start, Goto, OnlyProc

\* Finish ends the operation, or goes on with an entry of the list.
LEMMA FinishOnly ==
    ASSUME IInv, NEW p \in Procs, Finish(p)
    PROVE  /\ OnlyProc(p)
           /\ \/ todo[p] = {} /\ pc'[p] = "idle" /\ op'[p] = "none"
              \/ /\ op'[p] = op[p]
                 /\ ctx'[p] = ctx[p]
                 /\ todo'[p] = todo[p] \ {ent'[p]}
                 /\ pc'[p] = IF op[p] = "GC" THEN "trySetClosing" ELSE "removeWaitLoad"
<1>1. CASE todo[p] = {} /\ Return(p)
  BY Zenon, <1>1, ReturnOnly
<1>2. CASE \E e \in todo[p] :
             /\ todo' = [todo EXCEPT ![p] = @ \ {e}]
             /\ ent' = [ent EXCEPT ![p] = e]
             /\ Goto(p, IF op[p] = "GC" THEN "trySetClosing" ELSE "removeWaitLoad")
             /\ UNCHANGED <<op, arg, gen, retries, ctx>>
  <2>1. PICK e \in todo[p] :
             /\ todo' = [todo EXCEPT ![p] = @ \ {e}]
             /\ ent' = [ent EXCEPT ![p] = e]
             /\ Goto(p, IF op[p] = "GC" THEN "trySetClosing" ELSE "removeWaitLoad")
             /\ UNCHANGED <<op, arg, gen, retries, ctx>>
    BY Zenon, <1>2
  <2>2. OnlyProc(p)
    BY Zenon, <2>1 DEF IInv, TypeOK, ProcTypeOK, Goto, OnlyProc
  <2> QED
    BY Zenon, <2>1, <2>2 DEF IInv, TypeOK, ProcTypeOK, Goto
<1> QED
  BY Zenon, <1>1, <1>2 DEF Finish

\* Close goes on with its pass when it is done with an entry that is not open.
LEMMA FinishLeak ==
    ASSUME IInv, LeakInv, NEW p \in Procs, pc[p] \notin {"loadFunc", "closeLoad"}, Finish(p),
           NEW e, e = ent[p], OnlyEntry(e), closed' = closed,
           e \in Entries => /\ loadErr'[e] = "nil" => loadErr[e] = "nil"
                            /\ state'[e] = "active" => state[e] = "active" \/ ~closed
                            /\ HeldInv(e)',
           \A j \in Ids : data'[j] # None =>
             IF data'[j] = e THEN Live(e)' ELSE data'[j] = data[j]
    PROVE  LeakInv'
<1>1. /\ OnlyProc(p)
      /\ pc'[p] \in {"idle", "trySetClosing", "removeWaitLoad"}
      /\ op'[p] = "Close" => op[p] = "Close" /\ ctx'[p] = ctx[p] /\ pc'[p] = "removeWaitLoad"
  BY Zenon, FinishOnly
<1>2. \A f \in Entries : f # e /\ Sweeps(p, f) => Sweeps(p, f)'
  <2> SUFFICES ASSUME NEW f \in Entries, f # e, op[p] = "Close", f \in todo[p]
               PROVE  Sweeps(p, f)'
    BY Zenon DEF Sweeps
  <2>1. op'[p] = "Close" /\ todo'[p] = todo[p] \ {ent'[p]} /\ pc'[p] = "removeWaitLoad"
    BY Zenon, FinishOnly
  <2> QED
    BY Zenon, <2>1 DEF Sweeps
<1>3. SweepInv(p)'
  <2> SUFFICES ASSUME op[p] = "Close", op'[p] = "Close"
               PROVE  SweepInv(p)'
    BY Zenon, <1>1 DEF SweepInv
  <2>1. closed' /\ pc'[p] = "removeWaitLoad" /\ ctx'[p] = ctx[p]
    BY Zenon, <1>1 DEF LeakInv, SweepInv
  <2>2. ctx[p] = "done" =>
          \A r \in Procs : pc'[r] = "closeLoad" => loadErr'[ent'[r]] # "nil"
    BY Zenon, <1>1, <2>1, DeadlineFrame
  <2> QED
    BY Zenon, <2>1, <2>2 DEF SweepInv, SweepPCs
<1>4. pc'[p] # "closeLoad"
  BY Zenon, <1>1
<1> QED
  BY Zenon, <1>1, <1>2, <1>3, <1>4, LeakStep

\* A goroutine that gives its entry up without having changed it.
LEMMA GivesUpLeak ==
    ASSUME IInv, LeakInv, NEW p \in Procs, pc[p] \notin {"idle", "get", "loadFunc", "closeLoad"},
           Finish(p), UNCHANGED <<cacheVars, entryVars>>,
           op[p] = "Close" => state[ent[p]] # "active"
    PROVE  LeakInv'
<1>1. UNCHANGED <<data, closed, state, loadErr, loadDone>>
  BY Zenon DEF cacheVars, entryVars
<1>2. PICK e \in Entries : e = ent[p] /\ e # None
  BY Zenon, OwnEntry
<1>3. OnlyEntry(None) /\ OnlyEntry(e) /\ OnlyProc(p)
  BY Zenon, <1>1, FinishOnly DEF OnlyEntry
<1>4. HeldInv(e)'
  <2>1. state[e] = "active" => ~Sweeps(p, e)
    BY Zenon, <1>2 DEF Sweeps
  <2> QED
    BY Zenon, <1>1, <1>2, <1>3, <2>1, HeldFrame
<1>5. \A j \in Ids : data[j] = e => Live(e)'
  BY Zenon, <1>1, <1>2 DEF LeakInv, Live
<1> QED
  BY Zenon, <1>1, <1>2, <1>3, <1>4, <1>5, FinishLeak

\* A goroutine goes on with its entry, which it does not change.
LEMMA MoveLeak ==
    ASSUME IInv, LeakInv, NEW p \in Procs, pc[p] \notin {"loadFunc", "closeLoad"},
           NEW l, l # "closeLoad", Step(p, l), UNCHANGED <<data, closed, state, loadErr, loadDone>>,
           op[p] = "Close" => l \in SweepPCs \ {"parkClosing"},
           pc[p] \in {"removeWaitLoad", "setClosing"} => l = "setClosing"
    PROVE  LeakInv'
<1>1. OnlyProc(p) /\ pc'[p] = l /\ op' = op /\ ent' = ent /\ todo' = todo /\ ctx' = ctx
  BY Zenon, StepOnly
<1>2. OnlyEntry(None) /\ None \notin Entries
  BY Zenon, OCacheAssumption DEF OnlyEntry
<1>3. \A f \in Entries : Sweeps(p, f) => Sweeps(p, f)'
  BY Zenon, <1>1 DEF Sweeps
<1>4. SweepInv(p)'
  <2> SUFFICES ASSUME op[p] = "Close"
               PROVE  SweepInv(p)'
    BY Zenon, <1>1 DEF SweepInv
  <2>1. closed'
    BY Zenon DEF LeakInv, SweepInv
  <2>2. ctx[p] = "done" =>
          \A r \in Procs : pc'[r] = "closeLoad" => loadErr'[ent'[r]] # "nil"
    BY Zenon, <1>1, <1>2, DeadlineFrame
  <2> QED
    BY Zenon, <1>1, <2>1, <2>2 DEF SweepInv
<1> QED
  BY Zenon, <1>1, <1>2, <1>3, <1>4, LeakStep

\* Becoming the closer of an open entry.
LEMMA AcquireLeak ==
    ASSUME IInv, LeakInv, NEW p \in Procs, pc[p] \in {"setClosing", "trySetClosing"},
           state[ent[p]] = "active", acquireClosing(ent[p]),
           NEW l \in {"valueClose", "tryClose"}, Step(p, l),
           l = "tryClose" => pc[p] = "trySetClosing",
           UNCHANGED <<data, closed, loadErr, loadDone>>
    PROVE  LeakInv'
<1>1. PICK e \in Entries : e = ent[p]
  BY Zenon, OwnEntry
<1>2. OnlyProc(p) /\ pc'[p] = l /\ op' = op /\ ent' = ent /\ todo' = todo /\ ctx' = ctx
  BY Zenon, StepOnly
<1>3. state'[e] = "closing" /\ OnlyEntry(e)
  BY Zenon, <1>1 DEF acquireClosing, OnlyEntry, IInv, TypeOK, EntryTypeOK
<1>4. /\ loadErr'[e] = "nil"
      /\ loadDone'[e] \/ \E q \in Procs : pc'[q] = "closeLoad" /\ ent'[q] = e
  <2>1. /\ loadErr[e] = "nil"
        /\ loadDone[e] \/ \E q \in Procs : pc[q] = "closeLoad" /\ ent[q] = e
    BY Zenon, <1>1 DEF LeakInv, HeldInv
  <2>2. pc[p] # "closeLoad"
    OBVIOUS
  <2> QED
    BY Zenon, <1>2, <2>1, <2>2 DEF OnlyProc
<1>5. HeldInv(e)' /\ Live(e)'
  BY Zenon, <1>3, <1>4 DEF HeldInv, Live
<1>6. \A f \in Entries : f # e /\ Sweeps(p, f) => Sweeps(p, f)'
  BY Zenon, <1>1, <1>2 DEF Sweeps
<1>7. SweepInv(p)'
  <2> SUFFICES ASSUME op[p] = "Close"
               PROVE  SweepInv(p)'
    BY Zenon, <1>2 DEF SweepInv
  <2>1. closed' /\ pc[p] \in SweepPCs
    BY Zenon DEF LeakInv, SweepInv
  <2>2. pc'[p] = "valueClose"
    BY Zenon, <1>2, <2>1 DEF SweepPCs
  <2>3. ctx[p] = "done" =>
          \A r \in Procs : pc'[r] = "closeLoad" => loadErr'[ent'[r]] # "nil"
    BY Zenon, <1>2, <1>3, <2>2, DeadlineFrame
  <2> QED
    BY Zenon, <1>2, <2>1, <2>2, <2>3 DEF SweepInv, SweepPCs
<1>8. pc[p] \notin {"loadFunc", "closeLoad"} /\ pc'[p] # "closeLoad" /\ state[e] = "active"
  BY Zenon, <1>1, <1>2
<1> QED
  BY Zenon, <1>1, <1>2, <1>3, <1>5, <1>6, <1>7, <1>8, LeakStep

\* Removing an entry from the map, where it is under its id only.
LEMMA DeletedFromMap ==
    ASSUME IInv, NEW e \in Entries, eid[e] \in Ids,
           data' = [data EXCEPT ![eid[e]] = None]
    PROVE  \A j \in Ids : data'[j] # None => data'[j] # e /\ data'[j] = data[j]
<1>1. \A j \in Ids : j # eid[e] => data'[j] = data[j] /\ data[j] # e
  BY Zenon, OCacheAssumption DEF IInv, FreshInv, MapInv, TypeOK, CacheTypeOK
<1>2. data'[eid[e]] = None
  BY Zenon DEF IInv, TypeOK, CacheTypeOK
<1> QED
  BY Zenon, <1>1, <1>2

\* The end of a close.
LEMMA DeleteLeak ==
    ASSUME IInv, LeakInv, NEW p \in Procs, pc[p] \in {"removeDelete", "tryDelete"},
           closeAndDelete(ent[p]), Finish(p), UNCHANGED <<closed, loadErr, loadDone>>
    PROVE  LeakInv'
<1>1. PICK e \in Entries : e = ent[p] /\ eid[e] \in Ids
  BY Zenon, OwnEntry
<1>2. state'[e] = "closed" /\ OnlyEntry(e)
  BY Zenon, <1>1 DEF closeAndDelete, OnlyEntry, IInv, TypeOK, EntryTypeOK
<1>3. \A j \in Ids : data'[j] # None => data'[j] # e /\ data'[j] = data[j]
  BY Zenon, <1>1, DeletedFromMap DEF closeAndDelete
<1>4. HeldInv(e)'
  BY Zenon, <1>2 DEF HeldInv
<1>5. state'[e] # "active" /\ pc[p] \notin {"loadFunc", "closeLoad"} /\ loadErr' = loadErr
  BY Zenon, <1>2
<1> QED
  BY Zenon, <1>1, <1>2, <1>3, <1>4, <1>5, FinishLeak

\* A load that brings no value into the cache takes the entry from the map.
LEMMA DroppedLeak ==
    ASSUME IInv, LeakInv, NEW p \in Procs, pc[p] = "loadFunc",
           NEW x, x # "nil", loadErr' = [loadErr EXCEPT ![ent[p]] = x],
           data' = [data EXCEPT ![eid[ent[p]]] = None],
           NEW l \in {"closeLoad", "closeLate"}, Step(p, l),
           UNCHANGED <<closed, state, loadDone>>
    PROVE  LeakInv'
<1>1. PICK e \in Entries : e = ent[p] /\ eid[e] \in Ids
  BY Zenon, OwnEntry
<1>2. OnlyProc(p) /\ pc'[p] = l /\ op' = op /\ ent' = ent /\ todo' = todo
  BY Zenon, StepOnly
<1>3. loadErr'[e] # "nil" /\ OnlyEntry(e) /\ state' = state
  BY Zenon, <1>1 DEF OnlyEntry, IInv, TypeOK, EntryTypeOK
<1>4. state[e] = "loading"
  BY Zenon, <1>1 DEF IInv, LoaderInv
<1>5. HeldInv(e)'
  BY Zenon, <1>3, <1>4 DEF HeldInv
<1>6. \A j \in Ids : data'[j] # None => data'[j] # e /\ data'[j] = data[j]
  BY Zenon, <1>1, DeletedFromMap
<1>7. op[p] # "Close"
  BY Zenon, NotClose DEF SweepPCs
<1>8. SweepInv(p)' /\ \A f \in Entries : ~Sweeps(p, f)
  BY Zenon, <1>2, <1>7 DEF SweepInv, Sweeps
<1> QED
  BY Zenon, <1>1, <1>2, <1>3, <1>5, <1>6, <1>8, LeakStep

\* A load that ends.
LEMMA LoadLeak ==
    ASSUME IInv, LeakInv, NEW p \in Procs, LoadValue(p) \/ LoadFails(p)
    PROVE  LeakInv'
<1>1. pc[p] = "loadFunc"
  BY Zenon DEF LoadValue, LoadFails
<1>2. CASE LoadFails(p)
  <2>1. /\ data' = [data EXCEPT ![eid[ent[p]]] = None]
        /\ Step(p, "closeLoad")
        /\ UNCHANGED <<closed, state, loadDone>>
    BY Zenon, <1>2 DEF LoadFails
  <2>2. PICK x \in {"error", "panic"} : loadErr' = [loadErr EXCEPT ![ent[p]] = x]
    BY Zenon, <1>2 DEF LoadFails
  <2>3. x # "nil"
    BY Zenon, <2>2
  <2> QED
    BY Zenon, <1>1, <2>1, <2>2, <2>3, DroppedLeak
<1>3. CASE LoadValue(p) /\ closed
  <2>1. /\ data' = [data EXCEPT ![eid[ent[p]]] = None]
        /\ Step(p, "closeLate")
        /\ loadErr' = [loadErr EXCEPT ![ent[p]] = "closed"]
        /\ UNCHANGED <<closed, state, loadDone>>
    BY Zenon, <1>3 DEF LoadValue
  <2>2. "closed" # "nil"
    OBVIOUS
  <2> QED
    BY Zenon, <1>1, <2>1, <2>2, DroppedLeak
<1>4. CASE LoadValue(p) /\ ~closed
  <2>1. /\ state' = [state EXCEPT ![ent[p]] = "active"]
        /\ Step(p, "closeLoad")
        /\ UNCHANGED <<data, closed, loadErr, loadDone>>
    BY Zenon, <1>4 DEF LoadValue
  <2>0. loadErr[ent[p]] = "nil"
    BY Zenon, <1>1 DEF IInv, LoaderInv
  <2>2. PICK e \in Entries : e = ent[p] /\ loadErr[e] = "nil"
    BY Zenon, <1>1, <2>0, OwnEntry
  <2>3. OnlyProc(p) /\ pc'[p] = "closeLoad" /\ op' = op /\ ent' = ent /\ todo' = todo
    BY Zenon, <2>1, StepOnly
  <2>4. state'[e] = "active" /\ OnlyEntry(e)
    BY Zenon, <2>1, <2>2 DEF OnlyEntry, IInv, TypeOK, EntryTypeOK
  <2>5. HeldInv(e)' /\ Live(e)'
    BY Zenon, <1>4, <2>1, <2>2, <2>3, <2>4 DEF HeldInv, Live
  <2>6. op[p] # "Close"
    BY Zenon, <1>1, NotClose DEF SweepPCs
  <2>7. SweepInv(p)' /\ \A f \in Entries : ~Sweeps(p, f)
    BY Zenon, <2>3, <2>6 DEF SweepInv, Sweeps
  <2> QED
    BY Zenon, <1>4, <2>1, <2>2, <2>3, <2>4, <2>5, <2>7, LeakStep
<1> QED
  BY Zenon, <1>2, <1>3, <1>4

\* A late load closes its value.
LEMMA CloseLateLeak ==
    ASSUME IInv, LeakInv, NEW p \in Procs, CloseLate(p)
    PROVE  LeakInv'
<1>1. pc[p] = "closeLate" /\ Step(p, "closeLoad") /\ UNCHANGED <<data, closed, state, loadErr, loadDone>>
  BY Zenon DEF CloseLate, cacheVars
<1>2. OnlyProc(p) /\ pc'[p] = "closeLoad" /\ op' = op /\ ent' = ent /\ todo' = todo
  BY Zenon, <1>1, StepOnly
<1>3. OnlyEntry(None) /\ None \notin Entries
  BY Zenon, <1>1, OCacheAssumption DEF OnlyEntry
<1>4. loadErr[ent[p]] # "nil"
  BY Zenon, <1>1 DEF IInv, LoaderInv
<1>5. op[p] # "Close" /\ pc[p] \notin {"loadFunc", "closeLoad"}
  BY Zenon, <1>1, NotClose DEF SweepPCs
<1>6. SweepInv(p)' /\ \A f \in Entries : ~Sweeps(p, f)
  BY Zenon, <1>2, <1>5 DEF SweepInv, Sweeps
<1> QED
  BY Zenon, <1>1, <1>2, <1>3, <1>4, <1>5, <1>6, LeakStep

\* GetResult starts over or returns.
LEMMA GetResultOnly ==
    ASSUME IInv, NEW p \in Procs, GetResult(p)
    PROVE  OnlyProc(p) /\ pc'[p] \in {"get", "idle"} /\ op'[p] \in {op[p], "none"}
<1>1. CASE Return(p)
  BY Zenon, <1>1, ReturnOnly
<1>2. CASE Goto(p, "get") /\ UNCHANGED <<op, arg, ent, gen, todo, ctx>>
  BY Zenon, <1>2 DEF IInv, TypeOK, ProcTypeOK, Goto, OnlyProc
<1> QED
  BY Zenon, <1>1, <1>2 DEF GetResult

\* The loader closes the load channel.
LEMMA CloseLoadLeak ==
    ASSUME IInv, LeakInv, NEW p \in Procs, CloseLoad(p)
    PROVE  LeakInv'
<1>1. /\ pc[p] = "closeLoad"
      /\ loadDone' = [loadDone EXCEPT ![ent[p]] = TRUE]
      /\ UNCHANGED <<data, closed, state, loadErr>>
      /\ OnlyProc(p) /\ pc'[p] \in {"get", "idle"} /\ op'[p] \in {op[p], "none"}
  BY Zenon, GetResultOnly DEF CloseLoad, cacheVars
<1>2. PICK e \in Entries : e = ent[p]
  BY Zenon, <1>1, OwnEntry
<1>3. loadDone'[e] /\ OnlyEntry(e)
  BY Zenon, <1>1, <1>2 DEF OnlyEntry, IInv, TypeOK, EntryTypeOK
<1>4. op[p] # "Close"
  BY Zenon, <1>1, NotClose DEF SweepPCs
<1>5. op'[p] # "Close" /\ pc'[p] # "closeLoad" /\ pc[p] # "loadFunc"
  BY Zenon, <1>1, <1>4
<1>6. SweepInv(p)' /\ \A f \in Entries : ~Sweeps(p, f)
  BY Zenon, <1>4, <1>5 DEF SweepInv, Sweeps
<1>7. HeldInv(e)'
  <2>1. HeldInv(e)
    BY Zenon DEF LeakInv
  <2>2. state[e] = "loading" /\ loadErr[e] = "nil" =>
          \E q \in Procs : pc'[q] = "loadFunc" /\ ent'[q] = e
    BY Zenon, <1>1, <1>5, <2>1 DEF HeldInv, OnlyProc
  <2>3. closed /\ state[e] = "active" => \E q \in Procs : Sweeps(q, e)'
    BY Zenon, <1>1, <1>6, <2>1 DEF HeldInv, Sweeps, OnlyProc
  <2>4. state[e] \in {"active", "closing"} => loadErr[e] = "nil"
    BY Zenon, <2>1 DEF HeldInv
  <2> QED
    BY Zenon, <1>1, <1>3, <2>2, <2>3, <2>4 DEF HeldInv
<1>8. \A j \in Ids : data'[j] # None => data'[j] = data[j] /\ (data[j] = e => Live(e)')
  BY Zenon, <1>1 DEF LeakInv, Live
<1> QED
  BY Zenon, <1>1, <1>2, <1>3, <1>5, <1>6, <1>7, <1>8, LeakStep

\* An open cache has no pass of Close.
LEMMA NoSweep ==
    ASSUME LeakInv, ~closed, NEW q \in Procs
    PROVE  op[q] # "Close"
  BY Zenon DEF LeakInv, SweepInv

\* A new entry is open already, or p loads it.
LEMMA CreateLeak ==
    ASSUME IInv, LeakInv, NEW p \in Procs, pc[p] \in {"idle", "get"}, ~closed,
           NEW i \in Ids, NEW e \in Entries, Creates(i, e), OnlyProc(p),
           loadErr' = loadErr, OnlyEntry(e), op' = op, pc'[p] # "closeLoad",
           \/ state'[e] = "active" /\ loadDone'[e]
           \/ state'[e] = "loading" /\ pc'[p] = "loadFunc" /\ ent'[p] = e
    PROVE  LeakInv'
<1>1. closed' = closed /\ e > count /\ \A j \in Ids : data'[j] # e => data'[j] = data[j]
  BY Zenon, CreatesFresh DEF Creates
<1>2. loadErr[e] = "nil"
  BY Zenon, <1>1 DEF IInv, FreshInv, BlankInv
<1>3. HeldInv(e)' /\ Live(e)'
  BY Zenon, <1>1, <1>2 DEF HeldInv, Live
<1>4. SweepInv(p)' /\ \A f \in Entries : ~Sweeps(p, f)
  BY Zenon, NoSweep DEF SweepInv, Sweeps
<1>5. pc[p] \notin {"loadFunc", "closeLoad"}
  OBVIOUS
<1> QED
  BY Zenon, <1>1, <1>2, <1>3, <1>4, <1>5, LeakStep

\* Add.
LEMMA AddLeak ==
    ASSUME IInv, LeakInv, NEW p \in Procs, Add(p)
    PROVE  LeakInv'
<1> PICK i \in Ids : /\ data[i] = None
                     /\ data' = [data EXCEPT ![i] = count + 1]
                     /\ eid' = [eid EXCEPT ![count + 1] = i]
  BY Zenon DEF Add
<1>1. PICK e \in Entries : e = count + 1
  BY Zenon DEF Add
<1>2. Creates(i, e) /\ pc[p] = "idle" /\ ~closed /\ loadErr' = loadErr
  BY Zenon, <1>1 DEF Add, Creates
<1>3. /\ state' = [state EXCEPT ![e] = "active"]
      /\ loadDone' = [loadDone EXCEPT ![e] = TRUE]
      /\ UNCHANGED <<pc, op, ent, todo, ctx>>
  BY Zenon, <1>1 DEF Add, procVars
<1>4. state'[e] = "active" /\ loadDone'[e] /\ OnlyEntry(e) /\ OnlyProc(p) /\ pc'[p] # "closeLoad"
  BY Zenon, <1>2, <1>3 DEF IInv, TypeOK, EntryTypeOK, OnlyEntry, OnlyProc
<1> QED
  BY Zenon, <1>2, <1>3, <1>4, CreateLeak

\* The locked part of Get.
LEMMA GetLockedLeak ==
    ASSUME IInv, LeakInv, NEW p \in Procs, GetLocked(p)
    PROVE  LeakInv'
<1>1. pc[p] = "get" /\ arg[p] \in Ids
  BY Zenon DEF GetLocked, IInv, FreshInv, RefInv, ArgPCs
<1>2. op[p] # "Close" /\ pc[p] \notin {"loadFunc", "closeLoad"}
  BY Zenon, <1>1, NotClose DEF SweepPCs
<1>3. CASE Return(p) /\ UNCHANGED <<cacheVars, entryVars>>
  <2>1. OnlyProc(p) /\ pc'[p] # "closeLoad" /\ op'[p] # "Close"
    BY Zenon, <1>3, ReturnOnly
  <2> QED
    BY Zenon, <1>2, <1>3, <2>1, QuietLeak
<1>4. CASE /\ ent' = [ent EXCEPT ![p] = data[arg[p]]]
           /\ Goto(p, "waitClose")
           /\ UNCHANGED <<cacheVars, entryVars, op, arg, gen, todo, retries, ctx>>
  <2>1. OnlyProc(p) /\ pc'[p] # "closeLoad" /\ op' = op
    BY Zenon, <1>4 DEF Goto, OnlyProc, IInv, TypeOK, ProcTypeOK
  <2> QED
    BY Zenon, <1>2, <1>4, <2>1, QuietLeak
<1>5. CASE /\ ~closed
           /\ data[arg[p]] = None
           /\ count + 1 \in Entries
           /\ count' = count + 1
           /\ data' = [data EXCEPT ![arg[p]] = count + 1]
           /\ eid' = [eid EXCEPT ![count + 1] = arg[p]]
           /\ state' = [state EXCEPT ![count + 1] = "loading"]
           /\ ent' = [ent EXCEPT ![p] = count + 1]
           /\ Goto(p, "loadFunc")
           /\ UNCHANGED <<closed, loadDone, loadErr, aborted, hasValue, cancelled,
                          chan, shut, closes, crashed,
                          op, arg, gen, todo, retries, ctx>>
  <2>1. PICK e \in Entries : e = count + 1
    BY Zenon, <1>5
  <2>2. PICK i \in Ids : i = arg[p]
    BY Zenon, <1>1
  <2>3. Creates(i, e) /\ loadErr' = loadErr /\ op' = op
    BY Zenon, <1>5, <2>1, <2>2 DEF Creates
  <2>4. state'[e] = "loading" /\ OnlyEntry(e)
    BY Zenon, <1>5, <2>1 DEF IInv, TypeOK, EntryTypeOK, OnlyEntry
  <2>5. OnlyProc(p) /\ pc'[p] = "loadFunc" /\ ent'[p] = e
    BY Zenon, <1>5, <2>1 DEF Goto, OnlyProc, IInv, TypeOK, ProcTypeOK
  <2>6. pc'[p] # "closeLoad"
    BY Zenon, <2>5
  <2> QED
    BY Zenon, <1>1, <1>5, <2>3, <2>4, <2>5, <2>6, CreateLeak
<1> QED
  BY Zenon, <1>3, <1>4, <1>5 DEF GetLocked

\* Close takes every entry of the map on its list.
LEMMA CloseLeak ==
    ASSUME IInv, LeakInv, NEW p \in Procs, Close(p)
    PROVE  LeakInv'
<1> DEFINE entries == {data[i] : i \in Ids} \ {None}
<1>1. /\ pc[p] = "idle" /\ ~closed /\ closed'
      /\ UNCHANGED <<data, state, loadErr, loadDone>>
  BY Zenon DEF Close
<1>2. /\ OnlyProc(p)
      /\ op'[p] = "Close" => pc'[p] = "removeWaitLoad" /\ ctx'[p] = "live"
      /\ entries # {} => op'[p] = "Close" /\ \A f \in entries : f = ent'[p] \/ f \in todo'[p]
      /\ pc'[p] # "closeLoad"
  <2>1. CASE entries = {} /\ UNCHANGED procVars
    <3>1. op[p] # "Close"
      BY Zenon, <1>1, NoSweep
    <3> QED
      BY Zenon, <1>1, <2>1, <3>1 DEF procVars, OnlyProc
  <2>2. CASE \E e \in entries :
               /\ Goto(p, "removeWaitLoad")
               /\ op' = [op EXCEPT ![p] = "Close"]
               /\ ent' = [ent EXCEPT ![p] = e]
               /\ todo' = [todo EXCEPT ![p] = entries \ {e}]
               /\ ctx' = [ctx EXCEPT ![p] = "live"]
               /\ UNCHANGED <<arg, gen, retries>>
    <3> HIDE DEF entries
    <3> QED
      BY <2>2 DEF Goto, OnlyProc, IInv, TypeOK, ProcTypeOK
  <2> QED
    BY Zenon, <2>1, <2>2 DEF Close
<1>3. ASSUME NEW f \in Entries
      PROVE  HeldInv(f)'
  <2>1. HeldInv(f)
    BY Zenon DEF LeakInv
  <2>2. pc[p] \notin {"loadFunc", "closeLoad"}
    BY Zenon, <1>1
  <2>3. state[f] = "loading" /\ loadErr[f] = "nil" =>
          \E q \in Procs : pc'[q] = "loadFunc" /\ ent'[q] = f
    BY Zenon, <1>2, <2>1, <2>2 DEF HeldInv, OnlyProc
  <2>4. state[f] \in {"active", "closing"} =>
          loadErr[f] = "nil" /\ (loadDone[f] \/ \E q \in Procs : pc'[q] = "closeLoad" /\ ent'[q] = f)
    BY Zenon, <1>2, <2>1, <2>2 DEF HeldInv, OnlyProc
  <2>5. state[f] = "active" => Sweeps(p, f)'
    <3> SUFFICES ASSUME state[f] = "active"
                 PROVE  Sweeps(p, f)'
      OBVIOUS
    <3>1. f \in entries
      BY Zenon, StoredEntry, OCacheAssumption
    <3> HIDE DEF entries
    <3> QED
      BY Zenon, <1>2, <3>1 DEF Sweeps
  <2> QED
    BY Zenon, <1>1, <2>3, <2>4, <2>5 DEF HeldInv
<1>4. ASSUME NEW q \in Procs
      PROVE  SweepInv(q)'
  <2>1. op[q] # "Close"
    BY Zenon, <1>1, NoSweep
  <2>2. CASE q = p
    BY Zenon, <1>1, <1>2, <2>2 DEF SweepInv, SweepPCs
  <2>3. CASE q # p
    BY Zenon, <1>2, <2>1, <2>3 DEF SweepInv, OnlyProc
  <2> QED
    BY Zenon, <2>2, <2>3
<1>5. \A i \in Ids : data'[i] # None => Live(data[i])'
  BY Zenon, <1>1 DEF LeakInv, Live
<1> QED
  BY Zenon, <1>3, <1>4, <1>5 DEF LeakInv

\* Starting an operation.
LEMMA CallLeak ==
    ASSUME IInv, LeakInv, NEW p \in Procs, Call(p)
    PROVE  LeakInv'
<1>1. CASE Add(p)
  BY Zenon, <1>1, AddLeak
<1>2. CASE Close(p)
  BY Zenon, <1>2, CloseLeak
<1>3. CASE GC(p)
  <2>1. /\ pc[p] = "idle" /\ Goto(p, "trySetClosing") /\ op' = [op EXCEPT ![p] = "GC"] /\ ctx' = ctx
        /\ \E e : ent' = [ent EXCEPT ![p] = e]
        /\ \E s : todo' = [todo EXCEPT ![p] = s]
        /\ UNCHANGED <<cacheVars, entryVars>>
    BY Zenon, <1>3 DEF GC
  <2>2. OnlyProc(p) /\ pc'[p] = "trySetClosing" /\ op'[p] = "GC"
    BY Zenon, <2>1 DEF Goto, OnlyProc, IInv, TypeOK, ProcTypeOK
  <2>3. op[p] # "Close" /\ pc[p] \notin {"loadFunc", "closeLoad"}
    BY Zenon, <2>1, NotClose DEF SweepPCs
  <2>4. pc'[p] # "closeLoad" /\ op'[p] # "Close"
    BY Zenon, <2>2
  <2> QED
    BY Zenon, <2>1, <2>2, <2>3, <2>4, QuietLeak
<1>4. CASE Get(p) \/ Pick(p) \/ WaitClosing(p) \/ Remove(p) \/ RemoveSame(p) \/ TryRemove(p)
  <2>1. /\ \E o \in Ops \ {"Close"} : \E l \in PCs \ {"closeLoad"} : \E i, e : Start(p, o, l, i, e)
        /\ UNCHANGED <<cacheVars, entryVars>>
    <3>1. /\ \A o \in {"Get", "Pick", "WaitClosing", "Remove", "RemoveSame", "TryRemove"} :
               o \in Ops \ {"Close"}
          /\ \A l \in {"get", "waitLoad", "waitClose", "removeWaitLoad", "trySetClosing"} :
               l \in PCs \ {"closeLoad"}
      BY Zenon DEF Ops, PCs
    <3> QED
      BY Zenon, <1>4, <3>1 DEF Get, Pick, WaitClosing, Remove, RemoveSame, TryRemove
  <2>2. OnlyProc(p) /\ pc[p] = "idle" /\ pc'[p] # "closeLoad" /\ op'[p] # "Close"
    BY Zenon, <2>1, StartOnly
  <2>3. op[p] # "Close" /\ pc[p] \notin {"loadFunc", "closeLoad"}
    BY Zenon, <2>2, NotClose DEF SweepPCs
  <2> QED
    BY Zenon, <2>1, <2>2, <2>3, QuietLeak
<1> QED
  BY Zenon, <1>1, <1>2, <1>3, <1>4 DEF Call

\* Waiting for a load or a close leaves the entries alone.
LEMMA WaitLeak ==
    ASSUME IInv, LeakInv, NEW p \in Procs, waitClose(p) \/ ParkClose(p) \/ waitLoad(p)
    PROVE  LeakInv'
<1>1. /\ pc[p] \in {"waitClose", "parkClose", "waitLoad"}
      /\ UNCHANGED <<cacheVars, entryVars>>
  BY Zenon DEF waitClose, ParkClose, waitLoad
<1>2. OnlyProc(p) /\ pc'[p] # "closeLoad" /\ op'[p] \in {op[p], "none"}
  <2>1. CASE Return(p)
    BY Zenon, <2>1, ReturnOnly
  <2>2. CASE Step(p, "get") \/ Step(p, "waitLoad")
    BY <2>2, StepOnly
  <2>3. CASE GetResult(p)
    BY Zenon, <2>3, GetResultOnly
  <2>4. CASE /\ Goto(p, "parkClose")
             /\ UNCHANGED <<op, arg, ent, todo, retries, ctx>>
    BY Zenon, <2>4 DEF Goto, OnlyProc, IInv, TypeOK, ProcTypeOK
  <2> QED
    BY Zenon, <2>1, <2>2, <2>3, <2>4 DEF waitClose, ParkClose, waitLoad, AfterClose
<1>3. op[p] # "Close" /\ pc[p] \notin {"loadFunc", "closeLoad"}
  BY Zenon, <1>1, NotClose DEF SweepPCs
<1>4. op'[p] # "Close"
  BY Zenon, <1>2, <1>3
<1> QED
  BY Zenon, <1>1, <1>2, <1>3, <1>4, QuietLeak

\* The way of Remove and of Close to an entry.
LEMMA AcquiringLeak ==
    ASSUME IInv, LeakInv, NEW p \in Procs,
           RemoveWaitLoad(p) \/ setClosing(p) \/ ParkClosing(p) \/ TrySetClosing(p)
    PROVE  LeakInv'
<1>1. SweepInv(p) /\ (pc[p] \notin {"idle", "get"} => ent[p] \in Entries /\ HeldInv(ent[p]))
  BY Zenon, OwnEntry DEF LeakInv
<1>2. CASE RemoveWaitLoad(p)
  <2>1. pc[p] = "removeWaitLoad" /\ UNCHANGED <<cacheVars, entryVars>>
    BY Zenon, <1>2 DEF RemoveWaitLoad
  <2>2. CASE Step(p, "setClosing")
    <3>1. pc[p] \notin {"loadFunc", "closeLoad"} /\ "setClosing" \in SweepPCs \ {"parkClosing"}
          /\ "setClosing" # "closeLoad"
      BY Zenon, <2>1 DEF SweepPCs
    <3> QED
      BY Zenon, <2>1, <2>2, <3>1, MoveLeak DEF cacheVars, entryVars
  <2>3. CASE Finish(p) /\ (loadErr[ent[p]] # "nil" \/ (~loadDone[ent[p]] /\ ctx[p] = "done"))
    <3>1. pc[p] \notin {"idle", "get", "loadFunc", "closeLoad"}
      BY Zenon, <2>1
    <3>2. op[p] = "Close" => state[ent[p]] # "active"
      BY Zenon, <1>1, <2>3, <3>1 DEF HeldInv, SweepInv
    <3> QED
      BY Zenon, <2>1, <2>3, <3>1, <3>2, GivesUpLeak
  <2> QED
    BY Zenon, <1>2, <2>2, <2>3 DEF RemoveWaitLoad
<1>3. CASE setClosing(p)
  <2>1. pc[p] = "setClosing" /\ UNCHANGED <<data, closed, loadErr, loadDone>>
    BY Zenon, <1>3 DEF setClosing, cacheVars
  <2>2. pc[p] \notin {"idle", "get", "loadFunc", "closeLoad"}
    BY Zenon, <2>1
  <2>3. CASE state[ent[p]] \in {"loading", "closed"} /\ Finish(p) /\ UNCHANGED <<state, chan>>
    <3>1. state[ent[p]] # "active"
      BY Zenon, <2>3
    <3>2. UNCHANGED <<cacheVars, entryVars>>
      BY Zenon, <1>3, <2>3 DEF setClosing, entryVars
    <3> QED
      BY Zenon, <2>2, <2>3, <3>1, <3>2, GivesUpLeak
  <2>4. CASE /\ state[ent[p]] = "closing"
             /\ Goto(p, "parkClosing")
             /\ UNCHANGED <<op, arg, ent, todo, retries, ctx, state, chan>>
    <3>1. OnlyProc(p) /\ pc'[p] = "parkClosing" /\ pc'[p] # "closeLoad"
      BY Zenon, <2>4 DEF Goto, OnlyProc, IInv, TypeOK, ProcTypeOK
    <3>2. OnlyEntry(None) /\ None \notin Entries
      BY Zenon, <2>1, <2>4, OCacheAssumption DEF OnlyEntry
    <3>3. \A f \in Entries : state[f] = "active" /\ Sweeps(p, f) => Sweeps(p, f)'
      BY Zenon, <2>4 DEF Sweeps
    <3>4. op[p] = "Close" /\ ctx[p] = "done" =>
            \A r \in Procs : pc'[r] = "closeLoad" => loadErr'[ent'[r]] # "nil"
      BY Zenon, <3>1, <3>2, DeadlineFrame
    <3>5. SweepInv(p)'
      BY Zenon, <1>1, <2>1, <2>4, <3>1, <3>4 DEF SweepInv, SweepPCs
    <3> QED
      BY Zenon, <2>1, <2>2, <2>4, <3>1, <3>2, <3>3, <3>5, LeakStep
  <2>5. CASE state[ent[p]] = "active" /\ acquireClosing(ent[p]) /\ Step(p, "valueClose")
    <3>1. "valueClose" # "tryClose"
      OBVIOUS
    <3> QED
      BY Zenon, <2>1, <2>5, <3>1, AcquireLeak
  <2> QED
    BY Zenon, <1>3, <2>3, <2>4, <2>5 DEF setClosing
<1>4. CASE ParkClosing(p)
  <2>1. pc[p] = "parkClosing" /\ UNCHANGED <<cacheVars, entryVars>>
    BY Zenon, <1>4 DEF ParkClosing
  <2>2. CASE Step(p, "setClosing")
    <3>1. pc[p] \notin {"loadFunc", "closeLoad"} /\ "setClosing" \in SweepPCs \ {"parkClosing"}
          /\ "setClosing" # "closeLoad"
      BY Zenon, <2>1 DEF SweepPCs
    <3> QED
      BY Zenon, <2>1, <2>2, <3>1, MoveLeak DEF cacheVars, entryVars
  <2>3. CASE Finish(p)
    <3>1. pc[p] \notin {"idle", "get", "loadFunc", "closeLoad"}
      BY Zenon, <2>1
    <3>2. op[p] = "Close" => state[ent[p]] # "active"
      BY Zenon, <1>1, <2>1 DEF SweepInv
    <3> QED
      BY Zenon, <2>1, <2>3, <3>1, <3>2, GivesUpLeak
  <2> QED
    BY Zenon, <1>4, <2>2, <2>3 DEF ParkClosing
<1>5. CASE TrySetClosing(p)
  <2>1. pc[p] = "trySetClosing" /\ UNCHANGED <<data, closed, loadErr, loadDone>>
    BY Zenon, <1>5 DEF TrySetClosing, cacheVars
  <2>2. CASE state[ent[p]] = "active" /\ acquireClosing(ent[p]) /\ Step(p, "tryClose")
    BY Zenon, <2>1, <2>2, AcquireLeak
  <2>3. CASE state[ent[p]] # "active" /\ Finish(p) /\ UNCHANGED <<state, chan>>
    <3>1. pc[p] \notin {"idle", "get", "loadFunc", "closeLoad"}
      BY Zenon, <2>1
    <3>2. UNCHANGED <<cacheVars, entryVars>>
      BY Zenon, <1>5, <2>3 DEF TrySetClosing, entryVars
    <3> QED
      BY Zenon, <2>3, <3>1, <3>2, GivesUpLeak
  <2> QED
    BY Zenon, <1>5, <2>2, <2>3 DEF TrySetClosing
<1> QED
  BY Zenon, <1>2, <1>3, <1>4, <1>5

\* The steps of a closer.
LEMMA ClosingLeak ==
    ASSUME IInv, LeakInv, NEW p \in Procs,
           \/ ValueClose(p) \/ RemoveDelete(p) \/ TryClose(p)
           \/ Restore(p) \/ Escalate(p) \/ TryDelete(p)
    PROVE  LeakInv'
<1>1. CASE RemoveDelete(p) \/ TryDelete(p)
  BY Zenon, <1>1, DeleteLeak DEF RemoveDelete, TryDelete
<1>2. CASE ValueClose(p)
  <2>1. /\ pc[p] = "valueClose" /\ Step(p, "removeDelete")
        /\ UNCHANGED <<data, closed, state, loadErr, loadDone>>
    BY Zenon, <1>2 DEF ValueClose, cacheVars
  <2>2. /\ pc[p] \notin {"loadFunc", "closeLoad", "removeWaitLoad", "setClosing"}
        /\ "removeDelete" \in SweepPCs \ {"parkClosing"}
        /\ "removeDelete" # "closeLoad"
    BY Zenon, <2>1 DEF SweepPCs
  <2> QED
    BY Zenon, <2>1, <2>2, MoveLeak
<1>3. CASE \/ TryClose(p) \/ Escalate(p) \/ (Restore(p) /\ closed)
  <2>1. PICK l \in {"tryDelete", "restore", "escalate"} : Step(p, l)
    BY Zenon, <1>3 DEF TryClose, Escalate, Restore
  <2>2. /\ pc[p] \in {"tryClose", "escalate", "restore"}
        /\ UNCHANGED <<data, closed, state, loadErr, loadDone>>
    BY Zenon, <1>3 DEF TryClose, Escalate, Restore, cacheVars
  <2>3. /\ pc[p] \notin {"loadFunc", "closeLoad", "removeWaitLoad", "setClosing"}
        /\ op[p] # "Close"
        /\ l # "closeLoad"
    BY Zenon, <2>1, <2>2, NotClose DEF SweepPCs
  <2> QED
    BY Zenon, <2>1, <2>2, <2>3, MoveLeak
<1>4. CASE Restore(p) /\ ~closed
  <2>1. /\ pc[p] = "restore" /\ Finish(p)
        /\ state' = [state EXCEPT ![ent[p]] = "active"]
        /\ UNCHANGED <<data, closed, loadErr, loadDone>>
    BY Zenon, <1>4 DEF Restore, cacheVars
  <2>2. pc[p] \notin {"idle", "get", "loadFunc", "closeLoad"} /\ pc[p] \in CloserPCs
    BY Zenon, <2>1 DEF CloserPCs
  <2>3. PICK e \in Entries : e = ent[p]
    BY Zenon, <2>2, OwnEntry
  <2>4. state'[e] = "active" /\ OnlyEntry(e) /\ OnlyProc(p)
    BY Zenon, <2>1, <2>3, FinishOnly DEF OnlyEntry, IInv, TypeOK, EntryTypeOK
  <2>5. state[e] = "closing"
    BY Zenon, <2>2, <2>3 DEF IInv, CloserInv, Closer, CloserPCs
  <2>6. /\ loadErr[e] = "nil"
        /\ loadDone[e] \/ \E q \in Procs : pc[q] = "closeLoad" /\ ent[q] = e
    BY Zenon, <2>5 DEF LeakInv, HeldInv
  <2>7. /\ loadErr'[e] = "nil"
        /\ loadDone'[e] \/ \E q \in Procs : pc'[q] = "closeLoad" /\ ent'[q] = e
    BY Zenon, <2>1, <2>2, <2>4, <2>6 DEF OnlyProc
  <2>8. HeldInv(e)' /\ Live(e)'
    BY Zenon, <1>4, <2>1, <2>4, <2>7 DEF HeldInv, Live
  <2> QED
    BY Zenon, <1>4, <2>1, <2>2, <2>3, <2>4, <2>6, <2>8, FinishLeak
<1> QED
  BY Zenon, <1>1, <1>2, <1>3, <1>4

\* The deadline of Close does not pass between the unlock of a loader and its
\* close of the load channel.
LEMMA CancelLeak ==
    ASSUME PromptPublish, IInv, LeakInv, NEW p \in Procs, Cancel(p)
    PROVE  LeakInv'
<1>1. /\ UNCHANGED <<data, closed, state, loadErr, loadDone, pc, op, ent, todo>>
      /\ ctx' = [ctx EXCEPT ![p] = "done"]
      /\ op[p] = "Close" => \A q \in Procs : pc[q] = "closeLoad" => loadErr[ent[q]] # "nil"
  BY Zenon DEF Cancel, cacheVars, entryVars
<1>2. \A e \in Entries : HeldInv(e)'
  BY <1>1 DEF LeakInv, HeldInv, Sweeps
<1>3. \A q \in Procs : q # p => ctx'[q] = ctx[q]
  BY Zenon, <1>1 DEF IInv, TypeOK, ProcTypeOK
<1>4. \A q \in Procs : SweepInv(q)'
  BY Zenon, <1>1, <1>3 DEF LeakInv, SweepInv
<1>5. \A i \in Ids : data'[i] # None => Live(data[i])'
  BY Zenon, <1>1 DEF LeakInv, Live
<1> QED
  BY Zenon, <1>2, <1>4, <1>5 DEF LeakInv

\* The invariant is inductive together with IInv.
LEMMA LeakInductive ==
    ASSUME PromptPublish, IInv, LeakInv, [Next]_vars
    PROVE  LeakInv'
<1>1. ASSUME NEW p \in Procs, Work(p)
      PROVE  LeakInv'
  BY Zenon, <1>1, GetLockedLeak, WaitLeak, LoadLeak, CloseLateLeak, CloseLoadLeak,
     AcquiringLeak, ClosingLeak DEF Work
<1>2. CASE \E p \in Procs : Call(p) \/ Work(p) \/ Cancel(p)
  BY Zenon, <1>1, <1>2, CallLeak, CancelLeak
<1>3. CASE UNCHANGED vars
  <2>1. UNCHANGED <<data, closed, state, loadErr, loadDone, pc, op, ent, todo, ctx>>
    BY Zenon, <1>3 DEF vars, cacheVars, entryVars, procVars
  <2>2. \A e \in Entries : HeldInv(e)'
    BY <2>1 DEF LeakInv, HeldInv, Sweeps
  <2>3. \A q \in Procs : SweepInv(q)'
    BY Zenon, <2>1 DEF LeakInv, SweepInv
  <2>4. \A i \in Ids : data'[i] # None => Live(data[i])'
    BY Zenon, <2>1 DEF LeakInv, Live
  <2> QED
    BY Zenon, <2>2, <2>3, <2>4 DEF LeakInv
<1> QED
  BY Zenon, <1>2, <1>3 DEF Next, Terminated

\* Once the cache is closed and every operation has returned, all values are
\* closed and the map is empty, for any number of goroutines, ids, entries and
\* operations, provided the deadline of Close outlasts the instructions between
\* the unlock of a loader and its close of the load channel.
THEOREM NothingLeaks ==
    ASSUME PromptPublish
    PROVE  Spec => []NoLeakAfterClose
<1>1. Init => LeakInv
  BY DEF Init, LeakInv, HeldInv, SweepInv
<1>2. IInv /\ LeakInv /\ [Next]_vars => LeakInv'
  BY Zenon, LeakInductive
<1>3. IInv /\ LeakInv => NoLeakAfterClose
  <2> SUFFICES ASSUME IInv, LeakInv, closed, Quiescent
               PROVE  /\ \A e \in Entries : hasValue[e] => closes[e] = 1
                      /\ \A i \in Ids : data[i] = None
    BY Zenon DEF NoLeakAfterClose
  <2>1. \A p \in Procs : op[p] # "Close" /\ pc[p] \notin {"loadFunc", "closeLoad"} \cup CloserPCs
    BY Zenon, NotClose DEF Quiescent, SweepPCs, CloserPCs
  <2>2. \A e \in Entries : ~Live(e)
    <3> SUFFICES ASSUME NEW e \in Entries, Live(e)
                 PROVE  FALSE
      OBVIOUS
    <3>1. HeldInv(e)
      BY Zenon DEF LeakInv
    <3>2. CASE state[e] = "closing"
      BY Zenon, <2>1, <3>2 DEF IInv, CloserInv, Closer, CloserPCs
    <3>3. CASE state[e] # "closing"
      BY Zenon, <2>1, <3>1, <3>3 DEF HeldInv, Live, Sweeps
    <3> QED
      BY Zenon, <3>2, <3>3
  <2>3. \A i \in Ids : data[i] = None
    BY Zenon, <2>2 DEF LeakInv, IInv, FreshInv, MapInv, Known
  <2>4. \A e \in Entries : hasValue[e] => state[e] = "closed"
    BY Zenon, <2>2 DEF Live, IInv, ClosesInv
  <2>5. \A e \in Entries : state[e] = "closed" => closes[e] = 1
    BY Zenon DEF IInv, ClosesInv
  <2> QED
    BY Zenon, <2>3, <2>4, <2>5
<1> QED
  BY <1>1, <1>2, <1>3, Invariance, PTL DEF Spec
=============================================================================
