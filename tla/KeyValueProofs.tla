--------------------------- MODULE KeyValueProofs ---------------------------
(***************************************************************************)
(* Proofs about KeyValue: the diff advertises only what is stored, and     *)
(* what a watermark has dropped stays dropped, for any devices, keys,      *)
(* prefixes and bounds.                                                    *)
(*                                                                         *)
(* updateValues goes through the rows of a call one by one, so that what   *)
(* it returns is shown by induction over the rows: from the least number   *)
(* principle comes that a set of numbers that holds 0 and is closed under  *)
(* the successor holds all of 0 .. n, and that the recursive function is   *)
(* defined.  The invariant of the loop is Sound, and Marked of the         *)
(* watermarks in memory raised by those of the transaction.                *)
(*                                                                         *)
(* The invariant of the state relates the three copies of the truth: the   *)
(* diff fits the rows that the transaction under way will store, and once  *)
(* put back the rows that are stored (DiffInv); the watermarks in memory   *)
(* fit the rows, before and after the transaction (MarksInv).  MarksInv    *)
(* needs that no value has a deleted prefix as its key.                    *)
(***************************************************************************)
EXTENDS KeyValue, WellFoundedInduction, TLAPS

-----------------------------------------------------------------------------
(* The state *)

AllKeys == Keys \cup DeletePrefixes

Ids == AllKeys \X Peers

\* The rows that devices write.
Row == {r \in [key : AllKeys, peer : Peers, ts : Times, del : BOOLEAN, acl : Nat] :
            r.key \in IF r.del THEN DeletePrefixes ELSE Keys}

\* Timestamps for some ids.
Partial == UNION {[D -> Nat] : D \in SUBSET Ids}

Marks == [DeletePrefixes -> Nat]

Result == [store : SUBSET Row, marks : Marks, pre : Partial, elements : Partial,
           removed : SUBSET Ids, applied : Seq(Row)]

\* A round; the order of what is asked for is left open.
IsRound(r) ==
    \E ids : r \in [state : {"idle", "push", "serve", "served"},
                    removed : SUBSET Ids, changed : SUBSET Ids, ask : SUBSET Ids,
                    pushed : Seq(Row), todo : {ids}, sent : Seq(Row)]

\* The rounds of every device with every other.
AreRounds(R) ==
    /\ R = [p \in Peers |-> [q \in Peers |-> R[p][q]]]
    /\ \A p, q \in Peers : IsRound(R[p][q])

TypeOK ==
    /\ store \in [Peers -> SUBSET Row]
    /\ diff \in [Peers -> Partial]
    /\ marks \in [Peers -> Marks]
    /\ acl \in [Peers -> Nat]
    /\ tx \in [Peers -> SUBSET [res : Result, caller : SUBSET Peers]]
    /\ AreRounds(rounds)
    /\ incoming \in [Peers -> SUBSET Seq(Row)]

-----------------------------------------------------------------------------
(* What a call of Set keeps *)

\* Some row of S has the id i and the timestamp t.
HasHead(S, i, t) == \E r \in S : Id(r) = i /\ r.ts = t

\* The diff d advertises rows of S only.
Stored(d, S) == \A i \in DOMAIN d : HasHead(S, i, d[i])

\* A transaction of p has the ids it touched in pre, with the timestamps they had in the
\* storage; the others are as they were; and it has the rows of the elements it put in,
\* unless they were dropped again.
Sound(p, res) ==
    /\ DOMAIN res.pre = DOMAIN res.elements \cup res.removed
    /\ \A i \in DOMAIN res.elements \ res.removed : HasHead(res.store, i, res.elements[i])
    /\ \A r \in Row : Id(r) \notin DOMAIN res.pre => (r \in res.store <=> r \in store[p])
    /\ \A i \in DOMAIN res.pre : res.pre[i] = 0 \/ HasHead(store[p], i, res.pre[i])

\* The diff of p advertises what is stored; while a transaction is under way, what it
\* will store, and what is stored, once the diff is put back.
DiffAt(p) ==
    /\ tx[p] = {} => Stored(diff[p], store[p])
    /\ \A t \in tx[p] : /\ Stored(diff[p], t.res.store)
                        /\ Stored(Undo(diff[p], t.res.pre), store[p])

DiffInv == \A p \in Peers : DiffAt(p)

\* The watermarks m and the rows S fit: no row is covered, every watermark of S
\* counts, and one of S stands for every one that counts: its own, or that of a shorter
\* prefix that has dropped it.
Marked(S, m) ==
    /\ \A r \in S : ~covered(m, r.key, r.ts)
    /\ \A w \in S : w.del => w.ts <= m[w.key]
    /\ \A x \in DeletePrefixes :
           m[x] > 0 => \E w \in S : w.del /\ HasPrefix(x, w.key) /\ m[x] <= w.ts

Newer(m, n) == [x \in DeletePrefixes |-> IF n[x] > m[x] THEN n[x] ELSE m[x]]

MarksAt(p) ==
    /\ Marked(store[p], marks[p])
    /\ \A t \in tx[p] : Marked(t.res.store, Newer(marks[p], t.res.marks))

MarksInv == \A p \in Peers : MarksAt(p)

\* A set of naturals that is not empty has a least one.
LEMMA LeastNat ==
    ASSUME NEW S \in SUBSET Nat, S # {}
    PROVE \E n \in S : \A m \in S : n <= m
<1> DEFINE R == {ss \in Nat \X Nat : ss[1] < ss[2]}
<1>1. IsWellFoundedOn(R, Nat)
  BY NatLessThanWellFounded DEF OpToRel
<1> HIDE DEF R
<1>2. \E x \in S : \A y \in S : ~ (<<y, x>> \in R)
  BY Zenon, <1>1, WFMin
<1>3. \A x, y \in Nat : <<y, x>> \in R <=> y < x
  BY DEF R
<1>4. PICK x \in S : \A y \in S : ~ (<<y, x>> \in R)
  BY <1>2
<1>5. ASSUME NEW m \in S PROVE x <= m
  <2>1. x \in Nat /\ m \in Nat
    OBVIOUS
  <2>2. ~ (<<m, x>> \in R)
    BY <1>4, Zenon
  <2>3. ~ (m < x)
    BY <1>3, <2>1, <2>2, Zenon
  <2>4. QED BY <2>1, <2>3
<1>6. QED BY <1>5

\* What holds of zero, and of every number of a range after the one before it, holds of
\* the whole range: induction for a set.
LEMMA RangeInduction ==
    ASSUME NEW n \in Nat, NEW S, 0 \in S, \A i \in 1 .. n : i - 1 \in S => i \in S
    PROVE 0 .. n \subseteq S
<1> DEFINE T == {i \in 0 .. n : i \notin S}
<1> SUFFICES ASSUME T # {} PROVE FALSE
  OBVIOUS
<1>1. T \in SUBSET Nat
  OBVIOUS
<1>2. PICK i \in T : \A m \in T : i <= m
  BY Zenon, <1>1, LeastNat
<1>3. i \in 1 .. n
  OBVIOUS
<1>4. i - 1 \in 0 .. n /\ ~ (i <= i - 1)
  BY <1>3
<1>5. i - 1 \notin T
  BY <1>2, <1>4, Zenon
<1>6. QED BY <1>3, <1>4, <1>5

\* The state in which the rows of a call of updateValues start.
Start(p) == [store |-> store[p], marks |-> MarksOf({}), pre |-> Heads({}),
             elements |-> Heads({}), removed |-> {}, applied |-> <<>>]

\* updateValues takes the rows one after the other: f[i] is the state after the first i.
LEMMA UpdatesDef ==
    ASSUME NEW p, NEW rows, Len(rows) \in Nat
    PROVE \E f : /\ f[0] = Start(p)
                 /\ \A i \in 1 .. Len(rows) : f[i] = updateValue(p, f[i - 1], rows[i])
                 /\ updateValues(p, rows) = f[Len(rows)]
<1> DEFINE Rec(g, n) == [i \in 0 .. n |-> IF i = 0 THEN Start(p)
                                          ELSE updateValue(p, g[i - 1], rows[i])]
           S == {n \in Nat : \E g : g = Rec(g, n)}
<1>1. 0 \in S
  <2>1. PICK g : g = [i \in 0 .. 0 |-> Start(p)]
    BY Zenon
  <2>2. g = Rec(g, 0)
    BY <2>1
  <2>3. QED BY <2>2
<1>2. ASSUME NEW n \in 1 .. Len(rows), n - 1 \in S PROVE n \in S
  <2>1. PICK g : g = Rec(g, n - 1)
    BY <1>2
  <2>2. PICK h : h = [i \in 0 .. n |-> IF i < n THEN g[i] ELSE updateValue(p, g[n - 1], rows[n])]
    BY Zenon
  <2>3. ASSUME NEW i \in 0 .. n
        PROVE h[i] = IF i = 0 THEN Start(p) ELSE updateValue(p, h[i - 1], rows[i])
    <3>1. CASE i = n
      <4>1. n # 0 /\ n - 1 \in 0 .. n /\ n - 1 < n
        OBVIOUS
      <4>2. h[n - 1] = g[n - 1]
        BY <2>2, <4>1
      <4>3. QED BY <2>2, <3>1, <4>1, <4>2
    <3>2. CASE i # n
      <4>1. i \in 0 .. n - 1 /\ i < n
        BY <3>2
      <4>2. h[i] = g[i]
        BY <2>2, <4>1
      <4>3. g[i] = IF i = 0 THEN Start(p) ELSE updateValue(p, g[i - 1], rows[i])
        BY <2>1, <4>1
      <4>4. i # 0 => h[i - 1] = g[i - 1]
        BY <2>2, <4>1
      <4>5. QED BY <4>2, <4>3, <4>4, Zenon
    <3>3. QED BY <3>1, <3>2, Zenon
  <2>4. h = Rec(h, n)
    <3>1. h = [i \in 0 .. n |-> h[i]]
      BY <2>2
    <3>2. QED BY <2>3, <3>1, Zenon
  <2>5. n \in Nat
    OBVIOUS
  <2>6. QED BY <2>4, <2>5, Zenon
<1> HIDE DEF S
<1>3. 0 .. Len(rows) \subseteq S
  BY <1>1, <1>2, RangeInduction, Zenon
<1>4. \E g : g = Rec(g, Len(rows))
  BY <1>3 DEF S
<1>5. PICK f : f = CHOOSE g : g = Rec(g, Len(rows))
  OBVIOUS
<1>6. f = Rec(f, Len(rows))
  BY <1>4, <1>5, Zenon
<1>7. updateValues(p, rows) = f[Len(rows)]
  BY <1>5, Zenon DEF updateValues, Start
<1>8. f[0] = Start(p)
  BY <1>6
<1>9. \A i \in 1 .. Len(rows) : f[i] = updateValue(p, f[i - 1], rows[i])
  BY <1>6
<1>10. QED BY <1>7, <1>8, <1>9, Zenon

\* One row after those accepted so far.
Accept(p, acc, row) == IF Accepted(p, row) THEN Append(acc, row) ELSE acc

\* AcceptedOf takes the rows one after the other: f[i] are those of the first i it accepts.
LEMMA AcceptedDef ==
    ASSUME NEW p, NEW rows, Len(rows) \in Nat
    PROVE \E f : /\ f[0] = <<>>
                 /\ \A i \in 1 .. Len(rows) : f[i] = Accept(p, f[i - 1], rows[i])
                 /\ AcceptedOf(p, rows) = f[Len(rows)]
<1> DEFINE Rec(g, n) == [i \in 0 .. n |-> IF i = 0 THEN <<>>
                                          ELSE Accept(p, g[i - 1], rows[i])]
           S == {n \in Nat : \E g : g = Rec(g, n)}
<1>1. 0 \in S
  <2>1. PICK g : g = [i \in 0 .. 0 |-> <<>>]
    BY Zenon
  <2>2. g = Rec(g, 0)
    BY <2>1
  <2>3. QED BY <2>2
<1>2. ASSUME NEW n \in 1 .. Len(rows), n - 1 \in S PROVE n \in S
  <2>1. PICK g : g = Rec(g, n - 1)
    BY <1>2
  <2>2. PICK h : h = [i \in 0 .. n |-> IF i < n THEN g[i] ELSE Accept(p, g[n - 1], rows[n])]
    BY Zenon
  <2>3. ASSUME NEW i \in 0 .. n
        PROVE h[i] = IF i = 0 THEN <<>> ELSE Accept(p, h[i - 1], rows[i])
    <3>1. CASE i = n
      <4>1. n # 0 /\ n - 1 \in 0 .. n /\ n - 1 < n
        OBVIOUS
      <4>2. h[n - 1] = g[n - 1]
        BY <2>2, <4>1
      <4>3. h[n] = Accept(p, g[n - 1], rows[n])
        BY <2>2, <4>1
      <4>4. QED BY <3>1, <4>1, <4>2, <4>3, Zenon
    <3>2. CASE i # n
      <4>1. i \in 0 .. n - 1 /\ i < n
        BY <3>2
      <4>2. h[i] = g[i]
        BY <2>2, <4>1
      <4>3. g[i] = IF i = 0 THEN <<>> ELSE Accept(p, g[i - 1], rows[i])
        BY <2>1, <4>1
      <4>4. i # 0 => h[i - 1] = g[i - 1]
        BY <2>2, <4>1
      <4>5. QED BY <4>2, <4>3, <4>4, Zenon
    <3>3. QED BY <3>1, <3>2, Zenon
  <2>4. h = Rec(h, n)
    <3>1. h = [i \in 0 .. n |-> h[i]]
      BY <2>2
    <3>2. QED BY <2>3, <3>1, Zenon
  <2>5. n \in Nat
    OBVIOUS
  <2>6. QED BY <2>4, <2>5, Zenon
<1> HIDE DEF S
<1>3. 0 .. Len(rows) \subseteq S
  BY <1>1, <1>2, RangeInduction, Zenon
<1>4. \E g : g = Rec(g, Len(rows))
  BY <1>3 DEF S
<1>5. PICK f : f = CHOOSE g : g = Rec(g, Len(rows))
  OBVIOUS
<1>6. f = Rec(f, Len(rows))
  BY <1>4, <1>5, Zenon
<1>7. AcceptedOf(p, rows) = f[Len(rows)]
  BY <1>5, Zenon DEF AcceptedOf, Accept
<1>8. f[0] = <<>>
  BY <1>6
<1>9. \A i \in 1 .. Len(rows) : f[i] = Accept(p, f[i - 1], rows[i])
  BY <1>6
<1>10. QED BY <1>7, <1>8, <1>9, Zenon

\* What is accepted of a sequence of rows of S is one.
LEMMA AcceptedType ==
    ASSUME NEW p, NEW S, NEW rows \in Seq(S)
    PROVE AcceptedOf(p, rows) \in Seq(S)
<1>1. Len(rows) \in Nat /\ \A i \in 1 .. Len(rows) : rows[i] \in S
  OBVIOUS
<1>2. PICK f : /\ f[0] = <<>>
               /\ \A i \in 1 .. Len(rows) : f[i] = Accept(p, f[i - 1], rows[i])
               /\ AcceptedOf(p, rows) = f[Len(rows)]
  BY <1>1, AcceptedDef, Zenon
<1> DEFINE T == {i \in 0 .. Len(rows) : f[i] \in Seq(S)}
<1>3. 0 \in T
  <2>1. <<>> \in Seq(S) /\ 0 \in 0 .. Len(rows)
    BY <1>1
  <2>2. QED BY <1>2, <2>1, Zenon
<1>4. ASSUME NEW i \in 1 .. Len(rows), i - 1 \in T PROVE i \in T
  <2>1. i \in 0 .. Len(rows)
    BY <1>1
  <2>2. f[i] = Accept(p, f[i - 1], rows[i]) /\ rows[i] \in S /\ f[i - 1] \in Seq(S)
    BY <1>1, <1>2, <1>4, Zenon
  <2>3. f[i] \in Seq(S)
    BY <2>2 DEF Accept
  <2>4. QED BY <2>1, <2>3
<1> HIDE DEF T
<1>5. 0 .. Len(rows) \subseteq T
  BY <1>1, <1>3, <1>4, RangeInduction, Zenon
<1>6. Len(rows) \in T
  BY <1>1, <1>5
<1>7. QED BY <1>2, <1>6 DEF T

-----------------------------------------------------------------------------
(* Helpers *)

\* Over(f, g) has the ids of both, and f's timestamps first.
LEMMA OverType ==
    ASSUME NEW f \in Partial, NEW g \in Partial
    PROVE /\ Over(f, g) \in Partial
          /\ DOMAIN Over(f, g) = DOMAIN f \cup DOMAIN g
          /\ \A i \in DOMAIN f : Over(f, g)[i] = f[i]
          /\ \A i \in DOMAIN g \ DOMAIN f : Over(f, g)[i] = g[i]
<1>1. PICK D \in SUBSET Ids : f \in [D -> Nat]
  BY DEF Partial
<1>2. PICK E \in SUBSET Ids : g \in [E -> Nat]
  BY DEF Partial
<1>3. Over(f, g) \in [D \cup E -> Nat]
  BY <1>1, <1>2 DEF Over
<1>4. Over(f, g) \in Partial
  BY <1>3, D \cup E \in SUBSET Ids DEF Partial
<1>5. QED BY <1>4 DEF Over

\* No timestamp for one id.
LEMMA ZeroType ==
    ASSUME NEW j \in Ids
    PROVE [i \in {j} |-> 0] \in Partial
<1>1. [i \in {j} |-> 0] \in [{j} -> Nat] /\ {j} \in SUBSET Ids
  OBVIOUS
<1>2. QED BY <1>1, Zenon DEF Partial

\* A row's fields.
LEMMA RowFields ==
    ASSUME NEW r \in Row
    PROVE /\ Id(r) \in Ids /\ r.key \in AllKeys /\ r.peer \in Peers
          /\ r.ts \in Nat /\ r.ts > 0 /\ r.del \in BOOLEAN /\ r.acl \in Nat
          /\ r.del => r.key \in DeletePrefixes
          /\ ~r.del => r.key \in Keys
BY KeyValueAssumption DEF Row, Id, Ids, Times

\* Heads has the ids of the rows, each with the timestamp of one of them.
LEMMA HeadsType ==
    ASSUME NEW R \in SUBSET Row
    PROVE /\ Heads(R) \in Partial
          /\ DOMAIN Heads(R) = {Id(r) : r \in R}
          /\ Stored(Heads(R), R)
<1> DEFINE D == {Id(r) : r \in R}
           c(i) == CHOOSE r \in R : Id(r) = i
<1>1. ASSUME NEW i \in D PROVE c(i) \in R /\ Id(c(i)) = i
  <2>1. \E r \in R : Id(r) = i
    BY <1>1, Zenon
  <2>2. QED BY <2>1, Zenon
<1>2. Heads(R) = [i \in D |-> c(i).ts]
  BY Zenon DEF Heads
<1> HIDE DEF c
<1>3. \A i \in D : c(i).ts \in Nat
  BY <1>1, RowFields, Zenon
<1>4. Heads(R) \in [D -> Nat]
  BY <1>2, <1>3
<1>5. D \in SUBSET Ids
  BY RowFields
<1>6. \A i \in D : HasHead(R, i, Heads(R)[i])
  BY <1>1, <1>2, Zenon DEF HasHead
<1>7. QED BY <1>4, <1>5, <1>6 DEF Partial, Stored

\* No rows, no heads.
LEMMA HeadsEmpty == Heads({}) \in Partial /\ DOMAIN Heads({}) = {}
<1>1. {} \in SUBSET Row
  OBVIOUS
<1>2. Heads({}) \in Partial /\ DOMAIN Heads({}) = {Id(r) : r \in {}}
  BY <1>1, HeadsType, Zenon
<1>3. QED BY Zenon, <1>2

\* Keys are sequences.
LEMMA KeyType == AllKeys \subseteq Seq(Nat)
BY KeyValueAssumption DEF AllKeys

\* Every key is a prefix of itself, and a prefix of a prefix is a prefix.
LEMMA PrefixOrder ==
    /\ \A s \in AllKeys : HasPrefix(s, s)
    /\ \A s, t, u \in AllKeys : HasPrefix(t, s) /\ HasPrefix(u, t) => HasPrefix(u, s)
<1>1. ASSUME NEW s \in AllKeys, NEW t \in AllKeys, NEW u \in AllKeys,
             HasPrefix(t, s), HasPrefix(u, t)
      PROVE HasPrefix(u, s)
  <2>1. s \in Seq(Nat) /\ t \in Seq(Nat) /\ u \in Seq(Nat)
    BY KeyType
  <2>2. Len(s) <= Len(t) /\ \A i \in 1 .. Len(s) : s[i] = t[i]
    BY <1>1 DEF HasPrefix
  <2>3. Len(t) <= Len(u) /\ \A i \in 1 .. Len(t) : t[i] = u[i]
    BY <1>1 DEF HasPrefix
  <2>4. Len(s) <= Len(u) /\ \A i \in 1 .. Len(s) : s[i] = u[i]
    BY <2>1, <2>2, <2>3
  <2>5. QED BY <2>4 DEF HasPrefix
<1>2. \A s \in AllKeys : HasPrefix(s, s)
  BY KeyType DEF HasPrefix
<1>3. QED BY <1>1, <1>2

-----------------------------------------------------------------------------
(* One row *)

SameId(S, row) == {r \in S : Id(r) = Id(row)}

\* S with the row put in.
WithRow(S, row) == (S \ SameId(S, row)) \cup {row}

\* The rows of S that the watermark w drops.
Dropped(S, w) == {r \in S : HasPrefix(r.key, w.key) /\ r.ts < w.ts}

\* What the storage S has for the id of a row.
Before(S, row) ==
    IF SameId(S, row) = {} THEN [i \in {Id(row)} |-> 0] ELSE Heads(SameId(S, row))

Rejected(p, res, row) ==
    \/ covered(marks[p], row.key, row.ts)
    \/ covered(res.marks, row.key, row.ts)
    \/ \E r \in SameId(res.store, row) : r.ts >= row.ts

\* put is res with the row put in.
IsPut(res, row, put) ==
    /\ put \in Result
    /\ put.store = WithRow(res.store, row)
    /\ put.marks = res.marks
    /\ put.pre = Over(res.pre, Before(res.store, row))
    /\ put.elements = Over(Heads({row}), res.elements)
    /\ put.removed = res.removed

\* out is res after the watermark w has dropped rows.
IsDrop(res, w, out) ==
    /\ out \in Result
    /\ out.store = res.store \ Dropped(res.store, w)
    /\ out.marks = [res.marks EXCEPT ![w.key] = IF w.ts > @ THEN w.ts ELSE @]
    /\ out.pre = Over(res.pre, Heads(Dropped(res.store, w)))
    /\ out.elements = res.elements
    /\ out.removed = res.removed \cup {Id(r) : r \in Dropped(res.store, w)}

\* applyWatermark drops rows.
LEMMA DropStep ==
    ASSUME NEW res \in Result, NEW w \in Row, w.del
    PROVE IsDrop(res, w, applyWatermark(res, w))
<1> DEFINE old == Dropped(res.store, w)
           ids == {Id(r) : r \in old}
           out == applyWatermark(res, w)
           m == [res.marks EXCEPT ![w.key] = IF w.ts > @ THEN w.ts ELSE @]
<1>1. /\ res.store \in SUBSET Row /\ res.marks \in Marks /\ res.pre \in Partial
      /\ res.removed \in SUBSET Ids
  BY DEF Result
<1>2. old \in SUBSET Row /\ old \subseteq res.store
  BY <1>1 DEF Dropped
<1>3. Heads(old) \in Partial
  BY Zenon, <1>2, HeadsType
<1>4. Over(res.pre, Heads(old)) \in Partial
  BY Zenon, <1>1, <1>3, OverType
<1>5. ids \in SUBSET Ids
  BY <1>2, RowFields
<1>6. m \in Marks
  BY <1>1, RowFields DEF Marks
<1>7. out = [res EXCEPT !.store = @ \ old, !.pre = Over(@, Heads(old)), !.removed = @ \cup ids,
                        !.marks[w.key] = IF w.ts > @ THEN w.ts ELSE @]
  BY Zenon DEF applyWatermark, Dropped
<1> HIDE DEF out, old, ids
<1>8. /\ out.store = res.store \ old
      /\ out.marks = m
      /\ out.pre = Over(res.pre, Heads(old))
      /\ out.elements = res.elements
      /\ out.removed = res.removed \cup ids
      /\ out.applied = res.applied
  BY <1>7 DEF Result
<1>9. out \in Result
  <2>1. /\ res.store \ old \in SUBSET Row /\ res.removed \cup ids \in SUBSET Ids
    BY <1>1, <1>5
  <2>2. PICK a, b, c, d : a = res.store \ old /\ b = Over(res.pre, Heads(old))
                          /\ c = res.removed \cup ids /\ d = m
    BY Zenon
  <2>3. out = [res EXCEPT !.store = a, !.pre = b, !.removed = c, !.marks = d]
    BY <1>7, <2>2 DEF Result
  <2>4. QED BY Zenon, <1>4, <1>6, <2>1, <2>2, <2>3 DEF Result
<1>10. QED BY <1>8, <1>9 DEF IsDrop, old, ids, out

\* updateValue puts the row in, unless it is rejected, and a watermark then drops rows.
LEMMA PutStep ==
    ASSUME NEW p, NEW res \in Result, NEW row \in Row
    PROVE \E put : /\ IsPut(res, row, put)
                   /\ updateValue(p, res, row) =
                        IF Rejected(p, res, row) THEN res
                        ELSE IF row.del THEN applyWatermark(put, row) ELSE put
<1> DEFINE old == {r \in res.store : Id(r) = Id(row)}
           pre == IF old = {} THEN [i \in {Id(row)} |-> 0] ELSE Heads(old)
           put == [res EXCEPT !.store = (@ \ old) \cup {row},
                           !.pre = Over(@, pre),
                           !.elements = Over(Heads({row}), @),
                           !.applied = Append(@, row)]
<1>1. /\ res.store \in SUBSET Row /\ res.pre \in Partial /\ res.elements \in Partial
      /\ res.applied \in Seq(Row)
  BY DEF Result
<1>2. old \in SUBSET Row
  BY <1>1
<1>3. pre \in Partial
  BY Zenon, <1>2, HeadsType, ZeroType, RowFields
<1>4. Heads({row}) \in Partial
  BY Zenon, HeadsType
<1>5. Over(res.pre, pre) \in Partial /\ Over(Heads({row}), res.elements) \in Partial
  BY Zenon, <1>1, <1>3, <1>4, OverType
<1>6. Append(res.applied, row) \in Seq(Row) /\ (res.store \ old) \cup {row} \in SUBSET Row
  BY <1>1
<1>7. old = SameId(res.store, row) /\ pre = Before(res.store, row)
  BY Zenon DEF SameId, Before
<1>8. updateValue(p, res, row) =
         IF \/ covered(marks[p], row.key, row.ts)
            \/ covered(res.marks, row.key, row.ts)
            \/ \E r \in old : r.ts >= row.ts
         THEN res
         ELSE IF row.del THEN applyWatermark(put, row) ELSE put
  BY Zenon DEF updateValue
<1> HIDE DEF old, pre
<1>9. /\ put \in Result
      /\ put.store = (res.store \ old) \cup {row}
      /\ put.marks = res.marks
      /\ put.pre = Over(res.pre, pre)
      /\ put.elements = Over(Heads({row}), res.elements)
      /\ put.removed = res.removed
  BY Zenon, <1>5, <1>6 DEF Result
<1> HIDE DEF put
<1>10. IsPut(res, row, put)
  BY <1>7, <1>9, Zenon DEF IsPut, WithRow
<1>11. QED BY <1>7, <1>8, <1>10, Zenon DEF Rejected

\* What a watermark drops is recorded.
LEMMA DropSound ==
    ASSUME NEW p, NEW res \in Result, NEW w \in Row, NEW out,
           IsDrop(res, w, out), Sound(p, res)
    PROVE Sound(p, out)
<1> DEFINE old == Dropped(res.store, w)
           ids == {Id(r) : r \in old}
<1>1. /\ res.store \in SUBSET Row /\ res.pre \in Partial /\ res.elements \in Partial
      /\ old \subseteq res.store /\ old \in SUBSET Row
  BY DEF Result, Dropped
<1>2. /\ Heads(old) \in Partial /\ DOMAIN Heads(old) = ids /\ Stored(Heads(old), old)
  BY Zenon, <1>1, HeadsType
<1>3. /\ out.store = res.store \ old
      /\ out.pre = Over(res.pre, Heads(old))
      /\ out.elements = res.elements
      /\ out.removed = res.removed \cup ids
  BY DEF IsDrop
<1>4. /\ DOMAIN out.pre = DOMAIN res.pre \cup ids
      /\ \A i \in DOMAIN res.pre : out.pre[i] = res.pre[i]
      /\ \A i \in ids \ DOMAIN res.pre : out.pre[i] = Heads(old)[i]
  <2> HIDE DEF old
  <2>1. /\ DOMAIN Over(res.pre, Heads(old)) = DOMAIN res.pre \cup DOMAIN Heads(old)
        /\ \A i \in DOMAIN res.pre : Over(res.pre, Heads(old))[i] = res.pre[i]
        /\ \A i \in DOMAIN Heads(old) \ DOMAIN res.pre : Over(res.pre, Heads(old))[i] = Heads(old)[i]
    BY <1>1, <1>2, OverType, Zenon
  <2>2. QED BY <1>2, <1>3, <2>1, Zenon
<1> HIDE DEF old
<1>5. DOMAIN out.pre = DOMAIN out.elements \cup out.removed
  BY <1>3, <1>4 DEF Sound
<1>6. ASSUME NEW i \in DOMAIN out.elements \ out.removed
      PROVE HasHead(out.store, i, out.elements[i])
  <2>1. PICK r \in res.store : Id(r) = i /\ r.ts = res.elements[i]
    BY <1>3 DEF Sound, HasHead
  <2>2. r \notin old
    BY <1>3, <2>1
  <2>3. QED BY <1>3, <2>1, <2>2 DEF HasHead
<1>7. ASSUME NEW r \in Row, Id(r) \notin DOMAIN out.pre
      PROVE r \in out.store <=> r \in store[p]
  BY <1>3, <1>4, <1>7 DEF Sound
<1>8. ASSUME NEW i \in DOMAIN out.pre
      PROVE out.pre[i] = 0 \/ HasHead(store[p], i, out.pre[i])
  <2>1. CASE i \in DOMAIN res.pre
    BY <1>4, <2>1 DEF Sound
  <2>2. CASE i \notin DOMAIN res.pre
    <3>1. i \in ids /\ out.pre[i] = Heads(old)[i]
      BY <1>4, <2>2
    <3>2. PICK r \in old : Id(r) = i /\ r.ts = out.pre[i]
      BY <1>2, <3>1 DEF Stored, HasHead
    <3>3. r \in store[p]
      BY <1>1, <2>2, <3>2 DEF Sound
    <3>4. QED BY <3>2, <3>3 DEF HasHead
  <2>3. QED BY <2>1, <2>2
<1>9. QED BY <1>5, <1>6, <1>7, <1>8 DEF Sound

\* What a row replaces is recorded.
LEMMA PutSound ==
    ASSUME NEW p, NEW res \in Result, NEW row \in Row, NEW put,
           IsPut(res, row, put), Sound(p, res)
    PROVE Sound(p, put)
<1> DEFINE old == SameId(res.store, row)
           pre == Before(res.store, row)
           new == Heads({row})
<1>1. /\ res.store \in SUBSET Row /\ res.pre \in Partial /\ res.elements \in Partial
      /\ old \subseteq res.store /\ old \in SUBSET Row /\ \A r \in old : Id(r) = Id(row)
      /\ \A r \in res.store : Id(r) = Id(row) => r \in old
  BY DEF Result, SameId
<1>2. /\ new \in Partial /\ DOMAIN new = {Id(row)} /\ new[Id(row)] = row.ts
  <2>1. new \in Partial /\ DOMAIN new = {Id(r) : r \in {row}} /\ Stored(new, {row})
    BY HeadsType
  <2>2. QED BY <2>1 DEF Stored, HasHead
<1>3. /\ pre \in Partial /\ DOMAIN pre = {Id(row)}
      /\ pre[Id(row)] = 0 \/ HasHead(old, Id(row), pre[Id(row)])
  <2>1. CASE old = {}
    <3>1. pre = [i \in {Id(row)} |-> 0]
      BY <2>1 DEF Before
    <3>2. pre \in Partial
      BY <3>1, ZeroType, RowFields
    <3>3. QED BY <3>1, <3>2
  <2>2. CASE old # {}
    <3>1. pre = Heads(old)
      BY <2>2 DEF Before
    <3>2. pre \in Partial /\ DOMAIN pre = {Id(r) : r \in old} /\ Stored(pre, old)
      BY <1>1, <3>1, HeadsType
    <3>3. DOMAIN pre = {Id(row)}
      BY <1>1, <2>2, <3>2
    <3>4. QED BY <3>2, <3>3 DEF Stored
  <2>3. QED BY <2>1, <2>2
<1>4. /\ put.store = (res.store \ old) \cup {row}
      /\ put.pre = Over(res.pre, pre)
      /\ put.elements = Over(new, res.elements)
      /\ put.removed = res.removed
  BY DEF IsPut, WithRow
<1> HIDE DEF old, pre, new
<1>5. /\ DOMAIN put.pre = DOMAIN res.pre \cup {Id(row)}
      /\ \A i \in DOMAIN res.pre : put.pre[i] = res.pre[i]
      /\ Id(row) \notin DOMAIN res.pre => put.pre[Id(row)] = pre[Id(row)]
  <2>1. /\ DOMAIN Over(res.pre, pre) = DOMAIN res.pre \cup DOMAIN pre
        /\ \A i \in DOMAIN res.pre : Over(res.pre, pre)[i] = res.pre[i]
        /\ \A i \in DOMAIN pre \ DOMAIN res.pre : Over(res.pre, pre)[i] = pre[i]
    BY <1>1, <1>3, OverType, Zenon
  <2>2. QED BY <1>3, <1>4, <2>1
<1>6. /\ DOMAIN put.elements = DOMAIN res.elements \cup {Id(row)}
      /\ \A i \in DOMAIN res.elements \ {Id(row)} : put.elements[i] = res.elements[i]
      /\ put.elements[Id(row)] = row.ts
  <2>1. /\ DOMAIN Over(new, res.elements) = DOMAIN new \cup DOMAIN res.elements
        /\ \A i \in DOMAIN new : Over(new, res.elements)[i] = new[i]
        /\ \A i \in DOMAIN res.elements \ DOMAIN new : Over(new, res.elements)[i] = res.elements[i]
    BY <1>1, <1>2, OverType, Zenon
  <2>2. QED BY <1>2, <1>4, <2>1
<1>7. DOMAIN put.pre = DOMAIN put.elements \cup put.removed
  BY <1>4, <1>5, <1>6 DEF Sound
<1>8. ASSUME NEW i \in DOMAIN put.elements \ put.removed
      PROVE HasHead(put.store, i, put.elements[i])
  <2>1. CASE i = Id(row)
    BY <1>4, <1>6, <2>1 DEF HasHead
  <2>2. CASE i # Id(row)
    <3>1. i \in DOMAIN res.elements \ res.removed /\ put.elements[i] = res.elements[i]
      BY <1>4, <1>6, <2>2
    <3>2. PICK r \in res.store : Id(r) = i /\ r.ts = res.elements[i]
      BY <3>1 DEF Sound, HasHead
    <3>3. r \in put.store
      BY <1>1, <1>4, <2>2, <3>2
    <3>4. QED BY <3>1, <3>2, <3>3 DEF HasHead
  <2>3. QED BY <2>1, <2>2
<1>9. ASSUME NEW r \in Row, Id(r) \notin DOMAIN put.pre
      PROVE r \in put.store <=> r \in store[p]
  <2>1. Id(r) # Id(row) /\ Id(r) \notin DOMAIN res.pre
    BY <1>5, <1>9
  <2>2. r \in put.store <=> r \in res.store
    BY <1>1, <1>4, <2>1
  <2>3. QED BY <2>1, <2>2 DEF Sound
<1>10. ASSUME NEW i \in DOMAIN put.pre
       PROVE put.pre[i] = 0 \/ HasHead(store[p], i, put.pre[i])
  <2>1. CASE i \in DOMAIN res.pre
    BY <1>5, <2>1 DEF Sound
  <2>2. CASE i \notin DOMAIN res.pre
    <3>1. i = Id(row) /\ put.pre[i] = pre[i]
      BY <1>5, <2>2
    <3>2. CASE pre[i] # 0
      <4>1. PICK r \in old : Id(r) = i /\ r.ts = put.pre[i]
        BY <1>3, <3>1, <3>2 DEF HasHead
      <4>2. r \in store[p]
        BY <1>1, <2>2, <4>1 DEF Sound
      <4>3. QED BY <4>1, <4>2 DEF HasHead
    <3>3. QED BY <3>1, <3>2
  <2>3. QED BY <2>1, <2>2
<1>11. QED BY <1>7, <1>8, <1>9, <1>10 DEF Sound

\* The newer of two watermarks covers what either covers.
LEMMA NewerCovers ==
    ASSUME NEW m \in Marks, NEW n \in Marks, NEW k, NEW t \in Nat
    PROVE /\ Newer(m, n) \in Marks
          /\ covered(Newer(m, n), k, t) <=> covered(m, k, t) \/ covered(n, k, t)
<1>1. Newer(m, n) \in Marks
  BY DEF Newer, Marks
<1>2. \A x \in DeletePrefixes : /\ m[x] \in Nat /\ n[x] \in Nat
                                /\ Newer(m, n)[x] = IF n[x] > m[x] THEN n[x] ELSE m[x]
  BY DEF Newer, Marks
<1>3. \A x \in DeletePrefixes : t < Newer(m, n)[x] <=> t < m[x] \/ t < n[x]
  BY <1>2
<1>4. QED BY <1>1, <1>3, Zenon DEF covered

\* A value that is not covered leaves the watermarks as they are.
LEMMA MarkedValue ==
    ASSUME NEW S \in SUBSET Row, NEW m \in Marks, NEW row \in Row, ~row.del,
           Keys \cap DeletePrefixes = {},
           Marked(S, m), ~covered(m, row.key, row.ts)
    PROVE Marked(WithRow(S, row), m)
<1> DEFINE T == WithRow(S, row)
<1>1. \A r \in T : r \in S \/ r = row
  BY DEF WithRow
<1>2. \A r \in T : ~covered(m, r.key, r.ts)
  BY <1>1, Zenon DEF Marked
<1>3. \A w \in T : w.del => w.ts <= m[w.key]
  BY <1>1, Zenon DEF Marked
<1>4. ASSUME NEW x \in DeletePrefixes, m[x] > 0
      PROVE \E w \in T : w.del /\ HasPrefix(x, w.key) /\ m[x] <= w.ts
  <2>1. PICK w \in S : w.del /\ HasPrefix(x, w.key) /\ m[x] <= w.ts
    BY <1>4 DEF Marked
  <2>2. w.key \in DeletePrefixes /\ row.key \in Keys
    BY <2>1, RowFields
  <2>3. Id(w) # Id(row)
    BY <2>2 DEF Id
  <2>4. w \in T
    BY <2>3 DEF SameId, WithRow
  <2>5. QED BY <2>1, <2>4
<1> HIDE DEF T
<1>5. Marked(T, m)
  BY <1>2, <1>3, <1>4 DEF Marked
<1>6. QED BY <1>5 DEF T

\* n has the watermarks m, and v.
Raised(m, v, n) == n[v.key] = v.ts /\ \A x \in DeletePrefixes \ {v.key} : n[x] = m[x]

\* A watermark that is not covered takes the place of those it drops.
LEMMA MarkedWatermark ==
    ASSUME NEW S \in SUBSET Row, NEW m \in Marks, NEW v \in Row, v.del,
           Marked(S, m), ~covered(m, v.key, v.ts), \A r \in SameId(S, v) : r.ts < v.ts,
           NEW n \in Marks, Raised(m, v, n)
    PROVE Marked(WithRow(S, v) \ Dropped(WithRow(S, v), v), n)
<1> DEFINE T == WithRow(S, v) \ Dropped(WithRow(S, v), v)
<1>0. n[v.key] = v.ts /\ \A x \in DeletePrefixes \ {v.key} : n[x] = m[x]
  BY DEF Raised
<1>1. v.key \in DeletePrefixes /\ v.ts \in Nat /\ v.ts > 0 /\ v.key \in AllKeys
  BY RowFields
<1>2. \A x \in DeletePrefixes : m[x] \in Nat /\ n[x] \in Nat
  BY DEF Marks
<1>3. /\ T \in SUBSET Row /\ v \in T
      /\ \A r \in T : (r \in S \/ r = v) /\ ~(HasPrefix(r.key, v.key) /\ r.ts < v.ts)
  BY <1>1 DEF Dropped, WithRow
<1>4. m[v.key] <= v.ts
  <2>1. HasPrefix(v.key, v.key)
    BY <1>1, PrefixOrder
  <2>2. ~ (v.ts < m[v.key])
    BY <1>1, <2>1, Zenon DEF covered
  <2>3. QED BY <1>1, <1>2, <2>2
<1>5. \A x \in DeletePrefixes : m[x] <= n[x]
  BY <1>0, <1>1, <1>2, <1>4
<1>6. ASSUME NEW r \in T PROVE ~covered(n, r.key, r.ts)
  <2>1. SUFFICES ASSUME NEW x \in DeletePrefixes, r.ts < n[x], HasPrefix(r.key, x)
                 PROVE FALSE
    BY Zenon DEF covered
  <2>2. x # v.key
    BY <1>0, <1>3, <2>1
  <2>3. r.ts < m[x]
    BY <1>0, <2>1, <2>2
  <2>4. CASE r \in S
    BY <2>1, <2>3, <2>4, Zenon DEF Marked, covered
  <2>5. CASE r = v
    BY <2>1, <2>3, <2>5, Zenon DEF covered
  <2>6. QED BY <1>3, <2>4, <2>5, Zenon
<1>7. ASSUME NEW w \in T, w.del PROVE w.ts <= n[w.key]
  <2>1. CASE w = v
    BY <1>0, <1>1, <2>1
  <2>2. CASE w \in S
    <3>1. w.ts <= m[w.key] /\ w.key \in DeletePrefixes /\ w.ts \in Nat
      BY <1>7, <2>2, RowFields DEF Marked
    <3>2. QED BY <1>2, <1>5, <3>1
  <2>3. QED BY <1>3, <2>1, <2>2, Zenon
<1>8. ASSUME NEW x \in DeletePrefixes, n[x] > 0
      PROVE \E w \in T : w.del /\ HasPrefix(x, w.key) /\ n[x] <= w.ts
  <2>1. x \in AllKeys
    BY DEF AllKeys
  <2>2. CASE x = v.key
    <3>1. HasPrefix(x, v.key) /\ n[x] <= v.ts
      BY <1>0, <1>1, <2>2, PrefixOrder
    <3>2. QED BY <1>3, <3>1
  <2>3. CASE x # v.key
    <3>1. n[x] = m[x]
      BY <1>0, <2>3
    <3>2. PICK w \in S : w.del /\ HasPrefix(x, w.key) /\ m[x] <= w.ts
      BY <1>8, <3>1 DEF Marked
    <3>3. w.key \in AllKeys /\ w.ts \in Nat
      BY RowFields
    <3>4. CASE w \in T
      BY <3>1, <3>2, <3>4
    <3>5. CASE w \notin T
      <4>1. HasPrefix(w.key, v.key) /\ w.ts < v.ts
        <5>1. CASE w \in SameId(S, v)
          <6>1. w.key = v.key /\ w.ts < v.ts
            BY <5>1 DEF SameId, Id
          <6>2. QED BY <1>1, <6>1, PrefixOrder
        <5>2. CASE w \notin SameId(S, v)
          BY <3>5, <5>2 DEF Dropped, WithRow
        <5>3. QED BY <5>1, <5>2
      <4>2. HasPrefix(x, v.key)
        BY <1>1, <2>1, <3>2, <3>3, <4>1, PrefixOrder, Zenon
      <4>3. n[x] <= v.ts
        BY <1>1, <1>2, <3>1, <3>2, <3>3, <4>1
      <4>4. QED BY <1>3, <4>2, <4>3
    <3>6. QED BY <3>4, <3>5
  <2>4. QED BY <2>2, <2>3
<1> HIDE DEF T
<1>9. Marked(T, n)
  BY <1>6, <1>7, <1>8 DEF Marked
<1>10. QED BY <1>9 DEF T

\* One row keeps a transaction typed and sound.
LEMMA RowSound ==
    ASSUME NEW p, NEW res \in Result, NEW row \in Row, Sound(p, res)
    PROVE updateValue(p, res, row) \in Result /\ Sound(p, updateValue(p, res, row))
<1>1. PICK put : /\ IsPut(res, row, put)
                 /\ updateValue(p, res, row) =
                      IF Rejected(p, res, row) THEN res
                      ELSE IF row.del THEN applyWatermark(put, row) ELSE put
  BY PutStep, Zenon
<1>2. put \in Result /\ Sound(p, put)
  BY <1>1, PutSound, Zenon DEF IsPut
<1>3. CASE row.del
  <2>1. IsDrop(put, row, applyWatermark(put, row))
    BY <1>2, <1>3, DropStep, Zenon
  <2>2. applyWatermark(put, row) \in Result /\ Sound(p, applyWatermark(put, row))
    BY <1>2, <2>1, DropSound, Zenon DEF IsDrop
  <2>3. QED BY <1>1, <1>2, <1>3, <2>2, Zenon
<1>4. CASE ~row.del
  BY <1>1, <1>2, <1>4, Zenon
<1>5. QED BY <1>3, <1>4, Zenon

\* One row keeps the watermarks of a transaction and its rows in step.
LEMMA RowMarked ==
    ASSUME NEW p, marks[p] \in Marks, Keys \cap DeletePrefixes = {},
           NEW res \in Result, NEW row \in Row,
           Marked(res.store, Newer(marks[p], res.marks))
    PROVE Marked(updateValue(p, res, row).store,
                 Newer(marks[p], updateValue(p, res, row).marks))
<1> DEFINE m == Newer(marks[p], res.marks)
           out == updateValue(p, res, row)
<1>1. PICK put : /\ IsPut(res, row, put)
                 /\ out = IF Rejected(p, res, row) THEN res
                          ELSE IF row.del THEN applyWatermark(put, row) ELSE put
  BY PutStep, Zenon
<1>2. res.marks \in Marks /\ res.store \in SUBSET Row /\ row.ts \in Nat
  BY RowFields DEF Result
<1>3. m \in Marks /\ (covered(m, row.key, row.ts) <=> \/ covered(marks[p], row.key, row.ts)
                                                      \/ covered(res.marks, row.key, row.ts))
  BY <1>2, NewerCovers, Zenon
<1> HIDE DEF out
<1>4. CASE Rejected(p, res, row)
  BY <1>1, <1>4, Zenon DEF out
<1>5. CASE ~Rejected(p, res, row) /\ ~row.del
  <2>1. out = put /\ put.marks = res.marks /\ put.store = WithRow(res.store, row)
    BY <1>1, <1>5, Zenon DEF IsPut
  <2>2. ~covered(m, row.key, row.ts)
    BY <1>3, <1>5, Zenon DEF Rejected
  <2>3. Marked(WithRow(res.store, row), m)
    BY <1>2, <1>3, <1>5, <2>2, MarkedValue, Zenon
  <2>4. QED BY <2>1, <2>3, Zenon DEF out
<1>6. CASE ~Rejected(p, res, row) /\ row.del
  <2>1. put \in Result /\ out = applyWatermark(put, row)
    BY <1>1, <1>6, Zenon DEF IsPut
  <2>2. IsDrop(put, row, out)
    BY <1>6, <2>1, DropStep, Zenon
  <2>3. PICK P : P = WithRow(res.store, row)
    OBVIOUS
  <2>4. out.store = P \ Dropped(P, row)
    BY <1>1, <2>2, <2>3, Zenon DEF IsPut, IsDrop
  <2>5. ~covered(m, row.key, row.ts) /\ \A r \in SameId(res.store, row) : ~(r.ts >= row.ts)
    BY <1>3, <1>6, Zenon DEF Rejected
  <2>6. \A r \in SameId(res.store, row) : r.ts < row.ts
    BY <1>2, <2>5, RowFields DEF SameId
  <2>7. out.marks = [res.marks EXCEPT ![row.key] = IF row.ts > @ THEN row.ts ELSE @]
    BY <1>1, <2>2 DEF IsPut, IsDrop
  <2>8. row.key \in DeletePrefixes /\ row.key \in AllKeys
    BY <1>6, RowFields
  <2>9. m[row.key] <= row.ts
    <3>1. HasPrefix(row.key, row.key)
      BY <2>8, PrefixOrder, Zenon
    <3>2. ~ (row.ts < m[row.key])
      BY <2>5, <2>8, <3>1, Zenon DEF covered
    <3>3. m[row.key] \in Nat
      BY <1>3, <2>8 DEF Marks
    <3>4. QED BY <1>2, <3>2, <3>3
  <2>10. PICK n : n = Newer(marks[p], out.marks)
    OBVIOUS
  <2>11. /\ n \in Marks /\ n[row.key] = row.ts
         /\ \A x \in DeletePrefixes \ {row.key} : n[x] = m[x]
    BY <1>2, <2>7, <2>8, <2>9, <2>10 DEF Newer, Marks
  <2>12. Marked(P \ Dropped(P, row), n)
    <3> HIDE DEF m
    <3>1. /\ res.store \in SUBSET Row /\ m \in Marks /\ row.del /\ Marked(res.store, m)
          /\ ~covered(m, row.key, row.ts) /\ \A r \in SameId(res.store, row) : r.ts < row.ts
      BY <1>2, <1>3, <1>6, <2>5, <2>6, Zenon DEF m
    <3>2. n \in Marks /\ Raised(m, row, n)
      BY <2>11, Zenon DEF Raised
    <3>3. Marked(WithRow(res.store, row) \ Dropped(WithRow(res.store, row), row), n)
      BY <3>1, <3>2, MarkedWatermark, Zenon
    <3>4. QED BY <2>3, <3>3, Zenon
  <2>13. QED BY <2>4, <2>10, <2>12, Zenon DEF out
<1>7. QED BY <1>4, <1>5, <1>6, Zenon

\* No watermarks.
LEMMA MarksOfNone == MarksOf({}) = [x \in DeletePrefixes |-> 0] /\ MarksOf({}) \in Marks
<1>1. MarksOf({}) = [x \in DeletePrefixes |-> 0]
  BY DEF MarksOf
<1>2. QED BY <1>1 DEF Marks

\* The state in which a transaction starts.
LEMMA StartSound ==
    ASSUME NEW p, store[p] \in SUBSET Row, marks[p] \in Marks
    PROVE /\ Start(p) \in Result /\ Sound(p, Start(p))
          /\ Start(p).store = store[p] /\ Newer(marks[p], Start(p).marks) = marks[p]
<1>1. /\ Start(p).store = store[p] /\ Start(p).marks = MarksOf({}) /\ Start(p).pre = Heads({})
      /\ Start(p).elements = Heads({}) /\ Start(p).removed = {}
  BY DEF Start
<1>2. Start(p) \in Result
  BY HeadsEmpty, MarksOfNone DEF Start, Result
<1>3. Sound(p, Start(p))
  BY <1>1, HeadsEmpty DEF Sound
<1>4. Newer(marks[p], MarksOf({})) = marks[p]
  BY MarksOfNone DEF Newer, Marks
<1>5. QED BY <1>1, <1>2, <1>3, <1>4, Zenon

\* All rows keep a transaction typed and sound, and its watermarks and its rows in step.
LEMMA UpdatesSound ==
    ASSUME NEW p, store[p] \in SUBSET Row, marks[p] \in Marks, NEW rows \in Seq(Row)
    PROVE /\ updateValues(p, rows) \in Result /\ Sound(p, updateValues(p, rows))
          /\ Keys \cap DeletePrefixes = {} /\ Marked(store[p], marks[p]) =>
                Marked(updateValues(p, rows).store,
                       Newer(marks[p], updateValues(p, rows).marks))
<1>1. Len(rows) \in Nat /\ \A i \in 1 .. Len(rows) : rows[i] \in Row
  OBVIOUS
<1>2. PICK f : /\ f[0] = Start(p)
               /\ \A i \in 1 .. Len(rows) : f[i] = updateValue(p, f[i - 1], rows[i])
               /\ updateValues(p, rows) = f[Len(rows)]
  BY <1>1, UpdatesDef, Zenon
<1> DEFINE Good(i) ==
        /\ f[i] \in Result /\ Sound(p, f[i])
        /\ Keys \cap DeletePrefixes = {} /\ Marked(store[p], marks[p]) =>
               Marked(f[i].store, Newer(marks[p], f[i].marks))
           T == {i \in 0 .. Len(rows) : Good(i)}
<1>3. 0 \in T
  <2>1. Good(0)
    BY <1>2, StartSound, Zenon
  <2>2. 0 \in 0 .. Len(rows)
    BY <1>1
  <2>3. QED BY <2>1, <2>2, Zenon
<1>4. ASSUME NEW i \in 1 .. Len(rows), i - 1 \in T PROVE i \in T
  <2>1. f[i] = updateValue(p, f[i - 1], rows[i]) /\ rows[i] \in Row /\ Good(i - 1)
    BY <1>1, <1>2, <1>4, Zenon
  <2>2. f[i] \in Result /\ Sound(p, f[i])
    BY <2>1, RowSound, Zenon
  <2>3. ASSUME Keys \cap DeletePrefixes = {}, Marked(store[p], marks[p])
        PROVE Marked(f[i].store, Newer(marks[p], f[i].marks))
    BY <2>1, <2>3, RowMarked, Zenon
  <2>4. Good(i)
    BY <2>2, <2>3, Zenon
  <2>5. i \in 0 .. Len(rows)
    BY <1>1
  <2>6. QED BY <2>4, <2>5, Zenon
<1> HIDE DEF T
<1>5. 0 .. Len(rows) \subseteq T
  BY <1>1, <1>3, <1>4, RangeInduction, Zenon
<1>6. Len(rows) \in T
  BY <1>1, <1>5
<1>7. Good(Len(rows))
  BY <1>6, Zenon DEF T
<1>8. QED BY <1>2, <1>7, Zenon

-----------------------------------------------------------------------------
(* The diff *)

\* A part of the timestamps.
LEMMA OnlyType ==
    ASSUME NEW f \in Partial, NEW D \in SUBSET DOMAIN f
    PROVE /\ Only(f, D) \in Partial /\ DOMAIN Only(f, D) = D
          /\ \A i \in D : Only(f, D)[i] = f[i]
<1>1. PICK E \in SUBSET Ids : f \in [E -> Nat]
  BY DEF Partial
<1>2. Only(f, D) \in [D -> Nat] /\ D \in SUBSET Ids
  BY <1>1 DEF Only
<1>3. QED BY <1>2, Zenon DEF Partial, Only

\* With a transaction put in, the diff advertises what will be stored; put back, it
\* advertises what is.
LEMMA DiffOfTx ==
    ASSUME NEW p, NEW d \in Partial, NEW res \in Result, store[p] \in SUBSET Row,
           Sound(p, res), Stored(d, store[p])
    PROVE /\ Advertised(d, res) \in Partial
          /\ Stored(Advertised(d, res), res.store)
          /\ Stored(Undo(Advertised(d, res), res.pre), store[p])
<1> DEFINE set == Over(res.elements, d)
           D == DOMAIN set \ res.removed
           A == Only(set, D)
           back == Over(res.pre, A)
           B == {i \in DOMAIN back : i \in DOMAIN res.pre => res.pre[i] > 0}
           U == Only(back, B)
<1>1. res.elements \in Partial /\ res.pre \in Partial
  BY DEF Result
<1>2. A = Advertised(d, res) /\ U = Undo(A, res.pre)
  BY Zenon DEF Advertised, Undo
<1>3. /\ set \in Partial
      /\ DOMAIN set = DOMAIN res.elements \cup DOMAIN d
      /\ \A i \in DOMAIN res.elements : set[i] = res.elements[i]
      /\ \A i \in DOMAIN d \ DOMAIN res.elements : set[i] = d[i]
  BY <1>1, OverType, Zenon
<1> HIDE DEF set
<1>4. A \in Partial /\ DOMAIN A = D /\ \A i \in D : A[i] = set[i]
  BY <1>3, OnlyType, D \in SUBSET DOMAIN set, Zenon
<1> HIDE DEF A
<1>5. /\ back \in Partial
      /\ DOMAIN back = DOMAIN res.pre \cup DOMAIN A
      /\ \A i \in DOMAIN res.pre : back[i] = res.pre[i]
      /\ \A i \in DOMAIN A \ DOMAIN res.pre : back[i] = A[i]
  BY <1>1, <1>4, OverType, Zenon
<1> HIDE DEF back
<1>6. U \in Partial /\ DOMAIN U = B /\ \A i \in B : U[i] = back[i]
  BY <1>5, OnlyType, B \in SUBSET DOMAIN back, Zenon
<1> HIDE DEF U
<1>7. ASSUME NEW i \in DOMAIN A PROVE HasHead(res.store, i, A[i])
  <2>1. i \in DOMAIN set /\ i \notin res.removed /\ A[i] = set[i]
    BY <1>4
  <2>2. CASE i \in DOMAIN res.elements
    BY <1>3, <2>1, <2>2 DEF Sound
  <2>3. CASE i \notin DOMAIN res.elements
    <3>1. i \in DOMAIN d /\ A[i] = d[i] /\ i \notin DOMAIN res.pre
      BY <1>3, <2>1, <2>3 DEF Sound
    <3>2. PICK r \in store[p] : Id(r) = i /\ r.ts = d[i]
      BY <3>1 DEF Stored, HasHead
    <3>3. r \in res.store
      BY <3>1, <3>2 DEF Sound
    <3>4. QED BY <3>1, <3>2, <3>3 DEF HasHead
  <2>4. QED BY <2>2, <2>3
<1>8. ASSUME NEW i \in DOMAIN U PROVE HasHead(store[p], i, U[i])
  <2>1. i \in DOMAIN back /\ U[i] = back[i] /\ (i \in DOMAIN res.pre => res.pre[i] > 0)
    BY <1>6
  <2>2. CASE i \in DOMAIN res.pre
    <3>1. U[i] = res.pre[i] /\ res.pre[i] > 0
      BY <1>5, <2>1, <2>2
    <3>2. QED BY <2>2, <3>1 DEF Sound
  <2>3. CASE i \notin DOMAIN res.pre
    <3>1. i \in D /\ U[i] = set[i] /\ i \notin DOMAIN res.elements
      BY <1>4, <1>5, <2>1, <2>3 DEF Sound
    <3>2. i \in DOMAIN d /\ U[i] = d[i]
      BY <1>3, <3>1
    <3>3. QED BY <3>2 DEF Stored
  <2>4. QED BY <2>2, <2>3
<1>9. QED BY <1>2, <1>4, <1>7, <1>8, Zenon DEF Stored

\* Undone, a diff still has timestamps.
LEMMA UndoType ==
    ASSUME NEW d \in Partial, NEW pre \in Partial
    PROVE Undo(d, pre) \in Partial
<1> DEFINE back == Over(pre, d)
           B == {i \in DOMAIN back : i \in DOMAIN pre => pre[i] > 0}
<1>1. back \in Partial
  BY Zenon, OverType
<1> HIDE DEF back
<1>2. Only(back, B) \in Partial
  BY <1>1, OnlyType, B \in SUBSET DOMAIN back, Zenon
<1>3. QED BY <1>2, Zenon DEF Undo, back

-----------------------------------------------------------------------------
(* The watermarks after a restart *)

\* A set of times that is not empty has a latest one.
LEMMA LatestTime ==
    ASSUME NEW T \in SUBSET Times, T # {}
    PROVE \E t \in T : \A u \in T : u <= t
<1> DEFINE S == {n \in Nat : MaxTime - n \in T}
<1>1. MaxTime \in Nat /\ \A t \in T : t \in Nat /\ t <= MaxTime
  BY KeyValueAssumption DEF Times
<1>2. \A t \in T : MaxTime - t \in S
  BY <1>1
<1>3. S \in SUBSET Nat /\ S # {}
  BY <1>2
<1>4. PICK n \in S : \A m \in S : n <= m
  BY <1>3, LeastNat, Zenon
<1>5. n \in Nat /\ MaxTime - n \in T
  OBVIOUS
<1>6. ASSUME NEW u \in T PROVE u <= MaxTime - n
  <2>1. n <= MaxTime - u
    BY <1>2, <1>4, Zenon
  <2>2. QED BY <1>1, <1>5, <2>1
<1>7. QED BY <1>5, <1>6, Zenon

\* MarksOf takes the newest watermark of each prefix.
LEMMA MarksOfRows ==
    ASSUME NEW S \in SUBSET Row
    PROVE /\ MarksOf(S) \in Marks
          /\ \A w \in S : w.del => w.ts <= MarksOf(S)[w.key]
          /\ \A x \in DeletePrefixes :
                 MarksOf(S)[x] > 0 => \E w \in S : w.del /\ w.key = x /\ MarksOf(S)[x] = w.ts
<1> DEFINE W(x) == {w \in S : w.del /\ w.key = x}
           T(x) == {r.ts : r \in W(x)}
           M(x) == IF T(x) = {} THEN 0 ELSE CHOOSE t \in T(x) : \A u \in T(x) : u <= t
<1>1. MarksOf(S) = [x \in DeletePrefixes |-> M(x)]
  BY Zenon DEF MarksOf
<1>2. ASSUME NEW x PROVE T(x) \in SUBSET Times
  BY DEF Row
<1>3. ASSUME NEW x, T(x) # {} PROVE M(x) \in T(x) /\ \A u \in T(x) : u <= M(x)
  <2> HIDE DEF T
  <2>1. \E t \in T(x) : \A u \in T(x) : u <= t
    BY <1>2, <1>3, LatestTime, Zenon
  <2>2. QED BY <1>3, <2>1, Zenon
<1> HIDE DEF M
<1>4. ASSUME NEW x PROVE M(x) \in Nat
  <2>1. CASE T(x) = {}
    BY <2>1 DEF M
  <2>2. CASE T(x) # {}
    <3>1. M(x) \in T(x)
      BY <1>3, <2>2, Zenon
    <3>2. M(x) \in Times
      BY <1>2, <3>1, Zenon
    <3>3. QED BY <3>2, KeyValueAssumption DEF Times
  <2>3. QED BY <2>1, <2>2, Zenon
<1>5. MarksOf(S) \in Marks
  BY <1>1, <1>4 DEF Marks
<1>6. ASSUME NEW w \in S, w.del PROVE w.ts <= MarksOf(S)[w.key]
  <2>1. w.key \in DeletePrefixes
    BY <1>6, RowFields
  <2>2. w.ts \in T(w.key)
    BY <1>6
  <2>3. w.ts <= M(w.key)
    BY <1>3, <2>2, Zenon
  <2>4. QED BY <1>1, <2>1, <2>3
<1>7. ASSUME NEW x \in DeletePrefixes, MarksOf(S)[x] > 0
      PROVE \E w \in S : w.del /\ w.key = x /\ MarksOf(S)[x] = w.ts
  <2>1. MarksOf(S)[x] = M(x)
    BY <1>1
  <2>2. T(x) # {}
    BY <1>7, <2>1 DEF M
  <2>3. M(x) \in T(x)
    BY <1>3, <2>2, Zenon
  <2>4. QED BY <2>1, <2>3
<1>8. QED BY <1>5, <1>6, <1>7, Zenon

\* Read from the rows, the watermarks fit them, and cover all that was covered.
LEMMA MarksRead ==
    ASSUME NEW S \in SUBSET Row, NEW m \in Marks, Marked(S, m)
    PROVE /\ Marked(S, MarksOf(S))
          /\ \A k \in AllKeys, t \in Nat : covered(m, k, t) => covered(MarksOf(S), k, t)
<1> DEFINE n == MarksOf(S)
<1>1. /\ n \in Marks
      /\ \A w \in S : w.del => w.ts <= n[w.key]
      /\ \A x \in DeletePrefixes :
             n[x] > 0 => \E w \in S : w.del /\ w.key = x /\ n[x] = w.ts
  BY MarksOfRows, Zenon
<1> HIDE DEF n
<1>2. \A x \in DeletePrefixes : n[x] \in Nat /\ m[x] \in Nat /\ x \in AllKeys
  BY <1>1 DEF Marks, AllKeys
<1>3. ASSUME NEW r \in S, NEW x \in DeletePrefixes, r.ts < n[x], HasPrefix(r.key, x)
      PROVE FALSE
  <2>1. r.ts \in Nat
    BY RowFields
  <2>2. n[x] > 0
    BY <1>2, <1>3, <2>1
  <2>3. PICK w \in S : w.del /\ w.key = x /\ n[x] = w.ts
    BY <1>1, <2>2, Zenon
  <2>4. n[x] <= m[x]
    BY <2>3 DEF Marked
  <2>5. r.ts < m[x]
    BY <1>2, <1>3, <2>1, <2>4
  <2>6. QED BY <1>3, <2>5, Zenon DEF Marked, covered
<1>4. \A x \in DeletePrefixes :
          n[x] > 0 => \E w \in S : w.del /\ HasPrefix(x, w.key) /\ n[x] <= w.ts
  BY <1>1, <1>2, PrefixOrder
<1>5. Marked(S, n)
  BY <1>1, <1>3, <1>4, Zenon DEF Marked, covered
<1>6. ASSUME NEW k \in AllKeys, NEW t \in Nat, covered(m, k, t)
      PROVE covered(n, k, t)
  <2>1. PICK x \in DeletePrefixes : t < m[x] /\ HasPrefix(k, x)
    BY <1>6, Zenon DEF covered
  <2>2. m[x] > 0
    BY <1>2, <2>1
  <2>3. PICK w \in S : w.del /\ HasPrefix(x, w.key) /\ m[x] <= w.ts
    BY <2>2 DEF Marked
  <2>4. w.key \in DeletePrefixes /\ w.key \in AllKeys /\ w.ts \in Nat
    BY <2>3, RowFields
  <2>5. HasPrefix(k, w.key)
    BY <1>2, <2>1, <2>3, <2>4, PrefixOrder, Zenon
  <2>6. w.ts <= n[w.key]
    BY <1>1, <2>3, Zenon
  <2>7. t < n[w.key]
    BY <1>2, <2>1, <2>3, <2>4, <2>6
  <2>8. QED BY <2>4, <2>5, <2>7, Zenon DEF covered
<1>7. QED BY <1>5, <1>6, Zenon DEF n

-----------------------------------------------------------------------------
(* The rounds *)

\* A round takes the place of another.
LEMMA RoundPut ==
    ASSUME NEW p \in Peers, NEW q \in Peers, NEW r, IsRound(r), AreRounds(rounds),
           rounds' = [rounds EXCEPT ![p][q] = r]
    PROVE AreRounds(rounds)'
<1>1. rounds' = [a \in Peers |-> [b \in Peers |->
                    IF a = p /\ b = q THEN r ELSE rounds[a][b]]]
  <2>1. rounds = [a \in Peers |-> [b \in Peers |-> rounds[a][b]]]
    BY Zenon DEF AreRounds
  <2>2. DOMAIN rounds = Peers /\ \A a \in Peers : rounds[a] = [b \in Peers |-> rounds[a][b]]
    BY <2>1, Zenon
  <2>3. rounds' = [a \in Peers |-> IF a = p THEN [rounds[p] EXCEPT ![q] = r] ELSE rounds[a]]
    BY Zenon, <2>2
  <2>4. [rounds[p] EXCEPT ![q] = r] = [b \in Peers |-> IF b = q THEN r ELSE rounds[p][b]]
    BY Zenon, <2>2
  <2>5. ASSUME NEW a \in Peers
        PROVE (IF a = p THEN [rounds[p] EXCEPT ![q] = r] ELSE rounds[a])
                 = [b \in Peers |-> IF a = p /\ b = q THEN r ELSE rounds[a][b]]
    BY <2>2, <2>4, Zenon
  <2>6. QED BY <2>3, <2>5, Zenon
<1>2. \A a, b \in Peers : rounds'[a][b] = IF a = p /\ b = q THEN r ELSE rounds[a][b]
  BY <1>1
<1>3. \A a, b \in Peers : IsRound(rounds'[a][b])
  <2>1. \A a, b \in Peers : IsRound(rounds[a][b])
    BY DEF AreRounds
  <2>2. ASSUME NEW a \in Peers, NEW b \in Peers PROVE IsRound(rounds'[a][b])
    <3>1. rounds'[a][b] = r \/ rounds'[a][b] = rounds[a][b]
      BY <1>2
    <3>2. QED BY <2>1, <3>1
  <2>3. QED BY <2>2, Zenon
<1>4. rounds' = [a \in Peers |-> [b \in Peers |-> rounds'[a][b]]]
  <2>1. ASSUME NEW a \in Peers
        PROVE [b \in Peers |-> IF a = p /\ b = q THEN r ELSE rounds[a][b]]
                 = [b \in Peers |-> rounds'[a][b]]
    BY <1>2, Zenon
  <2>2. QED BY <1>1, <2>1, Zenon
<1>5. QED BY <1>3, <1>4, Zenon DEF AreRounds, IsRound

\* No round runs.
LEMMA IdleRound == IsRound(Idle)
BY DEF Idle, IsRound

\* The fields of a round.
LEMMA RoundFields ==
    ASSUME NEW r, IsRound(r)
    PROVE /\ r.removed \in SUBSET Ids /\ r.changed \in SUBSET Ids /\ r.ask \in SUBSET Ids
          /\ r.pushed \in Seq(Row) /\ r.sent \in Seq(Row)
BY DEF IsRound

\* A device that loads a row has one of its rows.
LEMMA LoadedType ==
    ASSUME NEW p \in Peers, NEW i, store[p] \in SUBSET Row
    PROVE GetKeyPeerId(p, i) \in Seq(Row)
<1>1. CASE i \in {Id(r) : r \in store[p]}
  <2>1. \E r \in store[p] : Id(r) = i
    BY <1>1, Zenon
  <2>2. PICK c : c = CHOOSE r \in store[p] : Id(r) = i
    OBVIOUS
  <2>3. c \in Row
    BY <2>1, <2>2
  <2>4. GetKeyPeerId(p, i) = <<c>>
    BY <1>1, <2>2, Zenon DEF GetKeyPeerId
  <2>5. QED BY <2>3, <2>4
<1>2. CASE i \notin {Id(r) : r \in store[p]}
  <2>1. GetKeyPeerId(p, i) = <<>>
    BY <1>2, Zenon DEF GetKeyPeerId
  <2>2. QED BY <2>1
<1>3. QED BY <1>1, <1>2, Zenon

\* What a device stores of a round is rows.
LEMMA ReceivedType ==
    ASSUME NEW q \in Peers, NEW r, IsRound(r), incoming \in [Peers -> SUBSET Seq(Row)]
    PROVE Received(q, r) \in SUBSET Seq(Row)
<1>1. r.pushed \in Seq(Row) /\ incoming[q] \in SUBSET Seq(Row)
  BY RoundFields, Zenon
<1>2. QED BY <1>1, Zenon DEF Received

-----------------------------------------------------------------------------
(* The inductive invariant *)

IInv == TypeOK /\ DiffInv /\ (Keys \cap DeletePrefixes = {} => MarksInv)

TxType == [res : Result, caller : SUBSET Peers]

\* A device that a step leaves alone keeps its part of the invariant.
LEMMA KeptAt ==
    ASSUME NEW p, store'[p] = store[p], diff'[p] = diff[p], tx'[p] = tx[p],
           marks'[p] = marks[p]
    PROVE (DiffAt(p) => DiffAt(p)') /\ (MarksAt(p) => MarksAt(p)')
BY Zenon DEF DiffAt, MarksAt

\* All devices keep it.
LEMMA KeptAll ==
    ASSUME IInv, UNCHANGED <<store, diff, marks, tx>>
    PROVE DiffInv' /\ (Keys \cap DeletePrefixes = {} => MarksInv')
BY KeptAt, Zenon DEF IInv, DiffInv, MarksInv

\* A step of the device p keeps the invariant if it keeps it at p.
LEMMA KeptBut ==
    ASSUME NEW p \in Peers, IInv,
           \A q \in Peers \ {p} : /\ store'[q] = store[q] /\ diff'[q] = diff[q]
                                  /\ tx'[q] = tx[q] /\ marks'[q] = marks[q],
           DiffAt(p)', Keys \cap DeletePrefixes = {} => MarksAt(p)'
    PROVE DiffInv' /\ (Keys \cap DeletePrefixes = {} => MarksInv')
<1>1. ASSUME NEW q \in Peers PROVE DiffAt(q)'
  <2>1. CASE q = p
    BY <2>1, Zenon
  <2>2. CASE q # p
    <3>1. /\ store'[q] = store[q] /\ diff'[q] = diff[q]
          /\ tx'[q] = tx[q] /\ marks'[q] = marks[q]
      BY <2>2, Zenon
    <3>2. DiffAt(q)
      BY Zenon DEF IInv, DiffInv
    <3>3. QED BY <3>1, <3>2, KeptAt, Zenon
  <2>3. QED BY <2>1, <2>2, Zenon
<1>2. ASSUME NEW q \in Peers, Keys \cap DeletePrefixes = {} PROVE MarksAt(q)'
  <2>1. CASE q = p
    BY <1>2, <2>1, Zenon
  <2>2. CASE q # p
    <3>1. /\ store'[q] = store[q] /\ diff'[q] = diff[q]
          /\ tx'[q] = tx[q] /\ marks'[q] = marks[q]
      BY <2>2, Zenon
    <3>2. MarksAt(q)
      BY <1>2, Zenon DEF IInv, MarksInv
    <3>3. QED BY <3>1, <3>2, KeptAt, Zenon
  <2>3. QED BY <2>1, <2>2, Zenon
<1>3. QED BY <1>1, <1>2, Zenon DEF DiffInv, MarksInv

\* A call of Set up to the commit keeps the invariant.
LEMMA SetKeeps ==
    ASSUME IInv, NEW p \in Peers, Unlocked(p), NEW rows \in Seq(Row),
           NEW caller \in SUBSET Peers, Set(p, rows, caller), UNCHANGED <<store, marks>>
    PROVE /\ diff' \in [Peers -> Partial] /\ tx' \in [Peers -> SUBSET TxType]
          /\ DiffInv' /\ (Keys \cap DeletePrefixes = {} => MarksInv')
<1> DEFINE res == updateValues(p, rows)
<1>1. /\ diff \in [Peers -> Partial] /\ tx \in [Peers -> SUBSET TxType]
      /\ store[p] \in SUBSET Row /\ marks[p] \in Marks /\ diff[p] \in Partial
  BY DEF IInv, TypeOK, TxType
<1>2. CASE UNCHANGED <<diff, tx>>
  BY <1>1, <1>2, KeptAll
<1>3. CASE /\ diff' = [diff EXCEPT ![p] = Advertised(@, res)]
           /\ tx' = [tx EXCEPT ![p] = {[res |-> res, caller |-> caller]}]
  <2>1. /\ res \in Result /\ Sound(p, res)
        /\ Keys \cap DeletePrefixes = {} /\ Marked(store[p], marks[p]) =>
              Marked(res.store, Newer(marks[p], res.marks))
    BY <1>1, UpdatesSound, Zenon
  <2> HIDE DEF res
  <2>2. Stored(diff[p], store[p])
    BY Zenon DEF IInv, DiffInv, DiffAt, Unlocked
  <2>3. /\ Advertised(diff[p], res) \in Partial
        /\ Stored(Advertised(diff[p], res), res.store)
        /\ Stored(Undo(Advertised(diff[p], res), res.pre), store[p])
    BY <1>1, <2>1, <2>2, DiffOfTx, Zenon
  <2>4. PICK t : t = [res |-> res, caller |-> caller]
    BY Zenon
  <2>5. t \in TxType /\ t.res = res
    BY <2>1, <2>4 DEF TxType
  <2>6. /\ diff'[p] = Advertised(diff[p], res) /\ tx'[p] = {t}
        /\ \A q \in Peers \ {p} : diff'[q] = diff[q] /\ tx'[q] = tx[q]
    BY <1>1, <1>3, <2>4
  <2>7. diff' \in [Peers -> Partial] /\ tx' \in [Peers -> SUBSET TxType]
    BY <1>1, <1>3, <2>3, <2>4, <2>5
  <2>8. DiffAt(p)'
    <3>1. tx'[p] # {} /\ \A u \in tx'[p] : u.res = res
      BY <2>5, <2>6
    <3>2. QED BY <2>3, <2>6, <3>1, Zenon DEF DiffAt
  <2>9. ASSUME Keys \cap DeletePrefixes = {} PROVE MarksAt(p)'
    <3>1. Marked(store[p], marks[p])
      BY <2>9, Zenon DEF IInv, MarksInv, MarksAt
    <3>2. Marked(res.store, Newer(marks[p], res.marks))
      BY <2>1, <2>9, <3>1, Zenon
    <3>3. \A u \in tx'[p] : u.res = res
      BY <2>5, <2>6
    <3>4. QED BY <3>1, <3>2, <3>3, Zenon DEF MarksAt
  <2>10. QED BY <2>6, <2>7, <2>8, <2>9, KeptBut, Zenon
<1>4. QED BY <1>2, <1>3, Zenon DEF Set

-----------------------------------------------------------------------------
(* Every step keeps the invariant *)

\* A step that goes on with the rounds and the batches only.
LEMMA OthersKeep ==
    ASSUME IInv, UNCHANGED <<store, diff, marks, acl, tx>>,
           AreRounds(rounds)', incoming' \in [Peers -> SUBSET Seq(Row)]
    PROVE IInv'
<1>1. DiffInv' /\ (Keys \cap DeletePrefixes = {} => MarksInv')
  BY KeptAll, Zenon
<1>2. TypeOK'
  BY Zenon DEF IInv, TypeOK
<1>3. QED BY <1>1, <1>2, Zenon DEF IInv

\* A call of Set with rows that devices have written.
LEMMA CallKeeps ==
    ASSUME IInv, NEW p \in Peers, Unlocked(p), NEW rows \in Seq(Row),
           NEW caller \in SUBSET Peers, Set(p, rows, caller), UNCHANGED <<store, marks, acl>>,
           AreRounds(rounds)', incoming' \in [Peers -> SUBSET Seq(Row)]
    PROVE IInv'
<1>1. /\ diff' \in [Peers -> Partial] /\ tx' \in [Peers -> SUBSET TxType]
      /\ DiffInv' /\ (Keys \cap DeletePrefixes = {} => MarksInv')
  BY SetKeeps, Zenon
<1>2. TypeOK'
  BY <1>1, Zenon DEF IInv, TypeOK, TxType
<1>3. QED BY <1>1, <1>2, Zenon DEF IInv

\* A device writes a value or a watermark.
LEMMA WriteKeeps ==
    ASSUME IInv, NEW p \in Peers, NEW del \in BOOLEAN,
           NEW key \in IF del THEN DeletePrefixes ELSE Keys, signAndStore(p, key, del)
    PROVE IInv' /\ marks' = marks
<1>1. PICK ts \in Times :
        /\ Unlocked(p)
        /\ Set(p, <<[key |-> key, peer |-> p, ts |-> ts, del |-> del, acl |-> acl[p]]>>, {})
        /\ UNCHANGED <<store, marks, acl, rounds, incoming, faults>>
  BY Zenon DEF signAndStore
<1>2. acl[p] \in Nat
  BY DEF IInv, TypeOK
<1>3. [key |-> key, peer |-> p, ts |-> ts, del |-> del, acl |-> acl[p]] \in Row
  BY <1>2 DEF Row, AllKeys
<1>4. <<[key |-> key, peer |-> p, ts |-> ts, del |-> del, acl |-> acl[p]]>> \in Seq(Row)
  BY <1>3
<1>5. AreRounds(rounds)' /\ incoming' \in [Peers -> SUBSET Seq(Row)]
  BY <1>1, Zenon DEF IInv, TypeOK
<1>6. {} \in SUBSET Peers /\ UNCHANGED <<store, marks, acl>> /\ marks' = marks
  BY <1>1, Zenon
<1> DEFINE rows == <<[key |-> key, peer |-> p, ts |-> ts, del |-> del, acl |-> acl[p]]>>
<1>7. rows \in Seq(Row) /\ Set(p, rows, {}) /\ Unlocked(p)
  BY <1>1, <1>4, Zenon
<1> HIDE DEF rows
<1>8. IInv'
  BY <1>5, <1>6, <1>7, CallKeeps, Zenon
<1>9. QED BY <1>6, <1>8, Zenon

\* Rows that came with a broadcast or a round.
LEMMA HandleKeeps ==
    ASSUME IInv, NEW p \in Peers, HandleMessage(p)
    PROVE IInv' /\ marks' = marks
<1>1. PICK rows \in incoming[p] :
        /\ Unlocked(p) /\ Set(p, AcceptedOf(p, rows), {})
        /\ incoming' = [incoming EXCEPT ![p] = @ \ {rows}]
        /\ UNCHANGED <<store, marks, acl, rounds, writes, faults>>
  BY Zenon DEF HandleMessage, SetRaw
<1>2. rows \in Seq(Row)
  BY DEF IInv, TypeOK
<1>3. AcceptedOf(p, rows) \in Seq(Row)
  BY <1>2, AcceptedType, Zenon
<1>4. incoming' \in [Peers -> SUBSET Seq(Row)]
  BY <1>1 DEF IInv, TypeOK
<1>5. AreRounds(rounds)'
  BY <1>1, Zenon DEF IInv, TypeOK
<1>6. {} \in SUBSET Peers /\ UNCHANGED <<store, marks, acl>> /\ marks' = marks
  BY <1>1, Zenon
<1>7. IInv'
  BY <1>1, <1>3, <1>4, <1>5, <1>6, CallKeeps, Zenon
<1>8. QED BY <1>6, <1>7, Zenon

\* What the transaction of a device is.
LEMMA TxFields ==
    ASSUME IInv, NEW p \in Peers, NEW t \in tx[p]
    PROVE /\ t.res.store \in SUBSET Row /\ t.res.marks \in Marks /\ t.res.pre \in Partial
          /\ t.res.applied \in Seq(Row) /\ t.caller \in SUBSET Peers
<1>1. t \in [res : Result, caller : SUBSET Peers]
  BY DEF IInv, TypeOK
<1>2. t.res \in Result /\ t.caller \in SUBSET Peers
  BY <1>1
<1>3. QED BY <1>2 DEF Result

\* A commit: the watermarks can only rise.
LEMMA CommitKeeps ==
    ASSUME IInv, NEW p \in Peers, Commit(p)
    PROVE /\ IInv'
          /\ \A q \in Peers, k \in AllKeys, t \in Nat :
                 covered(marks[q], k, t) => covered(marks'[q], k, t)
<1>1. PICK t \in tx[p] : \E Reached \in SUBSET {q \in Peers \ {p} : Cardinality(incoming[q]) < MaxIncoming} :
        /\ store' = [store EXCEPT ![p] = t.res.store]
        /\ marks' = [marks EXCEPT ![p] = Newer(@, t.res.marks)]
        /\ incoming' = [q \in Peers |-> IF q \in Reached THEN incoming[q] \cup {t.res.applied}
                                        ELSE incoming[q]]
        /\ tx' = [tx EXCEPT ![p] = {}]
        /\ UNCHANGED <<diff, acl, rounds, writes, faults>>
  BY Zenon DEF Commit, Newer
<1>2. /\ t.res.store \in SUBSET Row /\ t.res.marks \in Marks /\ t.res.applied \in Seq(Row)
  BY TxFields, Zenon
<1>3. /\ store \in [Peers -> SUBSET Row] /\ marks \in [Peers -> Marks]
      /\ tx \in [Peers -> SUBSET TxType] /\ incoming \in [Peers -> SUBSET Seq(Row)]
  BY Zenon DEF IInv, TypeOK, TxType
<1>4. /\ store'[p] = t.res.store /\ marks'[p] = Newer(marks[p], t.res.marks)
      /\ tx'[p] = {} /\ diff' = diff
      /\ \A q \in Peers \ {p} : /\ store'[q] = store[q] /\ marks'[q] = marks[q]
                                /\ tx'[q] = tx[q]
  BY <1>1, <1>3
<1>5. ASSUME NEW k, NEW u \in Nat
      PROVE /\ Newer(marks[p], t.res.marks) \in Marks
            /\ covered(marks[p], k, u) => covered(Newer(marks[p], t.res.marks), k, u)
  <2>1. marks[p] \in Marks
    BY <1>3
  <2>2. QED BY <1>2, <2>1, NewerCovers, Zenon
<1>6. Newer(marks[p], t.res.marks) \in Marks
  BY <1>2, <1>3 DEF Newer, Marks
<1>7. DiffAt(p)'
  <2>1. Stored(diff[p], t.res.store)
    BY Zenon DEF IInv, DiffInv, DiffAt
  <2>2. QED BY <1>4, <2>1, Zenon DEF DiffAt
<1>8. ASSUME Keys \cap DeletePrefixes = {} PROVE MarksAt(p)'
  <2>1. Marked(t.res.store, Newer(marks[p], t.res.marks))
    BY <1>8, Zenon DEF IInv, MarksInv, MarksAt
  <2>2. QED BY <1>4, <2>1, Zenon DEF MarksAt
<1>9. DiffInv' /\ (Keys \cap DeletePrefixes = {} => MarksInv')
  BY <1>4, <1>7, <1>8, KeptBut, Zenon
<1>10. /\ store' \in [Peers -> SUBSET Row] /\ marks' \in [Peers -> Marks]
       /\ tx' \in [Peers -> SUBSET TxType]
  BY <1>1, <1>2, <1>3, <1>6
<1>11. incoming' \in [Peers -> SUBSET Seq(Row)]
  BY <1>1, <1>2, <1>3
<1>12. TypeOK'
  BY <1>1, <1>10, <1>11, Zenon DEF IInv, TypeOK, TxType
<1>13. ASSUME NEW q \in Peers, NEW k \in AllKeys, NEW u \in Nat, covered(marks[q], k, u)
       PROVE covered(marks'[q], k, u)
  <2>1. CASE q = p
    BY <1>4, <1>5, <1>13, <2>1, Zenon
  <2>2. CASE q # p
    <3>1. marks'[q] = marks[q]
      BY <1>4, <2>2, Zenon
    <3>2. QED BY <1>13, <3>1, Zenon
  <2>3. QED BY <2>1, <2>2, Zenon
<1>14. QED BY <1>9, <1>12, <1>13, Zenon DEF IInv


\* A transaction fails, and the diff is put back.
LEMMA RollbackKeeps ==
    ASSUME IInv, NEW p \in Peers, Rollback(p)
    PROVE IInv' /\ marks' = marks
<1>1. PICK t \in tx[p] :
        /\ diff' = [diff EXCEPT ![p] = Undo(@, t.res.pre)]
        /\ tx' = [tx EXCEPT ![p] = {}]
        /\ rounds' = [rounds EXCEPT ![p] = [q \in Peers |-> IF q \in t.caller THEN Idle ELSE @[q]]]
        /\ incoming' = [q \in Peers |-> IF q \in t.caller THEN Received(q, rounds[p][q]) ELSE incoming[q]]
        /\ UNCHANGED <<store, marks, acl, writes>>
  BY Zenon DEF Rollback
<1>2. t.res.pre \in Partial
  BY TxFields, Zenon
<1>3. /\ diff \in [Peers -> Partial] /\ tx \in [Peers -> SUBSET TxType] /\ AreRounds(rounds)
  BY Zenon DEF IInv, TypeOK, TxType
<1>4. /\ diff'[p] = Undo(diff[p], t.res.pre) /\ tx'[p] = {}
      /\ store' = store /\ marks' = marks
      /\ \A q \in Peers \ {p} : diff'[q] = diff[q] /\ tx'[q] = tx[q]
  BY <1>1, <1>3
<1>5. diff' \in [Peers -> Partial] /\ tx' \in [Peers -> SUBSET TxType]
  <2>1. diff[p] \in Partial
    BY <1>3
  <2>2. Undo(diff[p], t.res.pre) \in Partial
    BY <1>2, <2>1, UndoType, Zenon
  <2>3. QED BY <1>1, <1>3, <2>2
<1>6. DiffAt(p)'
  <2>1. Stored(Undo(diff[p], t.res.pre), store[p])
    BY Zenon DEF IInv, DiffInv, DiffAt
  <2>2. QED BY <1>4, <2>1, Zenon DEF DiffAt
<1>7. ASSUME Keys \cap DeletePrefixes = {} PROVE MarksAt(p)'
  <2>1. Marked(store[p], marks[p])
    BY <1>7, Zenon DEF IInv, MarksInv, MarksAt
  <2>2. QED BY <1>4, <2>1, Zenon DEF MarksAt
<1>8. DiffInv' /\ (Keys \cap DeletePrefixes = {} => MarksInv')
  BY <1>4, <1>6, <1>7, KeptBut, Zenon
<1>9. AreRounds(rounds)'
  <2>1. \A a, b \in Peers : IsRound(rounds[a][b])
    BY <1>3, Zenon DEF AreRounds
  <2>2. \A a, b \in Peers : rounds'[a][b] = Idle \/ rounds'[a][b] = rounds[a][b]
    BY <1>1, <1>3 DEF AreRounds
  <2>3. \A a, b \in Peers : IsRound(rounds'[a][b])
    BY <2>1, <2>2, IdleRound, Zenon
  <2>4. rounds' = [a \in Peers |-> [b \in Peers |-> rounds'[a][b]]]
    BY Zenon, <1>1, <1>3 DEF AreRounds
  <2>5. QED BY <2>3, <2>4, Zenon DEF AreRounds
<1>10. incoming' \in [Peers -> SUBSET Seq(Row)]
  <2>1. incoming \in [Peers -> SUBSET Seq(Row)] /\ \A q \in Peers : IsRound(rounds[p][q])
    BY <1>3, Zenon DEF IInv, TypeOK, AreRounds
  <2>2. \A q \in Peers : Received(q, rounds[p][q]) \in SUBSET Seq(Row)
    BY <2>1, ReceivedType, Zenon
  <2>3. QED BY <1>1, <2>1, <2>2, Zenon
<1>11. TypeOK'
  BY <1>1, <1>5, <1>9, <1>10, Zenon DEF IInv, TypeOK, TxType
<1>12. QED BY <1>4, <1>8, <1>11, Zenon DEF IInv

\* A restart: the watermarks that the collection has cover all that was covered.
LEMMA NewKeeps ==
    ASSUME IInv, NEW p \in Peers, New(p)
    PROVE /\ IInv'
          /\ Keys \cap DeletePrefixes = {} =>
                \A q \in Peers, k \in AllKeys, t \in Nat :
                    covered(marks[q], k, t) => covered(marks'[q], k, t)
<1>1. /\ diff' = [diff EXCEPT ![p] = Heads(store[p])]
      /\ marks' = [marks EXCEPT ![p] = MarksOf(store[p])]
      /\ tx' = [tx EXCEPT ![p] = {}]
      /\ rounds' = [a \in Peers |-> [b \in Peers |-> IF p \in {a, b} THEN Idle ELSE rounds[a][b]]]
      /\ incoming' = [incoming EXCEPT ![p] = {}]
      /\ UNCHANGED <<store, acl, writes>>
  BY Zenon DEF New
<1>2. /\ diff \in [Peers -> Partial] /\ tx \in [Peers -> SUBSET TxType] /\ AreRounds(rounds)
      /\ marks \in [Peers -> Marks] /\ incoming \in [Peers -> SUBSET Seq(Row)]
      /\ store \in [Peers -> SUBSET Row]
  BY Zenon DEF IInv, TypeOK, TxType
<1>3. store[p] \in SUBSET Row /\ marks[p] \in Marks
  BY <1>2
<1>4. Heads(store[p]) \in Partial /\ Stored(Heads(store[p]), store[p])
  BY <1>3, HeadsType, Zenon
<1>5. MarksOf(store[p]) \in Marks
  BY <1>3, MarksOfRows, Zenon
<1>6. /\ diff'[p] = Heads(store[p]) /\ marks'[p] = MarksOf(store[p]) /\ tx'[p] = {}
      /\ store' = store
      /\ \A q \in Peers \ {p} : /\ diff'[q] = diff[q] /\ tx'[q] = tx[q]
                                /\ marks'[q] = marks[q]
  BY <1>1, <1>2
<1>7. /\ diff' \in [Peers -> Partial] /\ tx' \in [Peers -> SUBSET TxType]
      /\ marks' \in [Peers -> Marks] /\ incoming' \in [Peers -> SUBSET Seq(Row)]
  BY <1>1, <1>2, <1>4, <1>5
<1>8. AreRounds(rounds)'
  <2>1. \A a, b \in Peers : IsRound(rounds[a][b])
    BY <1>2, Zenon DEF AreRounds
  <2>2. \A a, b \in Peers : rounds'[a][b] = Idle \/ rounds'[a][b] = rounds[a][b]
    BY <1>1
  <2>3. \A a, b \in Peers : IsRound(rounds'[a][b])
    BY <2>1, <2>2, IdleRound, Zenon
  <2>4. rounds' = [a \in Peers |-> [b \in Peers |-> rounds'[a][b]]]
    BY <1>1
  <2>5. QED BY <2>3, <2>4, Zenon DEF AreRounds
<1>9. DiffAt(p)'
  BY <1>4, <1>6, Zenon DEF DiffAt
<1>10. ASSUME Keys \cap DeletePrefixes = {}
       PROVE /\ MarksAt(p)'
             /\ \A k \in AllKeys, t \in Nat : covered(marks[p], k, t) => covered(marks'[p], k, t)
  <2>1. Marked(store[p], marks[p])
    BY <1>10, Zenon DEF IInv, MarksInv, MarksAt
  <2>2. /\ Marked(store[p], MarksOf(store[p]))
        /\ \A k \in AllKeys, t \in Nat : covered(marks[p], k, t) => covered(MarksOf(store[p]), k, t)
    BY <1>3, <2>1, MarksRead, Zenon
  <2>3. QED BY <1>6, <2>2, Zenon DEF MarksAt
<1>11. DiffInv' /\ (Keys \cap DeletePrefixes = {} => MarksInv')
  BY <1>6, <1>9, <1>10, KeptBut, Zenon
<1>12. TypeOK'
  BY <1>1, <1>7, <1>8, Zenon DEF IInv, TypeOK, TxType
<1>13. ASSUME Keys \cap DeletePrefixes = {}, NEW q \in Peers, NEW k \in AllKeys, NEW u \in Nat,
              covered(marks[q], k, u)
       PROVE covered(marks'[q], k, u)
  <2>1. CASE q = p
    BY <1>10, <1>13, <2>1, Zenon
  <2>2. CASE q # p
    <3>1. marks'[q] = marks[q]
      BY <1>6, <2>2, Zenon
    <3>2. QED BY <1>13, <3>1, Zenon
  <2>3. QED BY <2>1, <2>2, Zenon
<1>14. QED BY <1>11, <1>12, <1>13, Zenon DEF IInv

\* The next acl record.
LEMMA AclKeeps ==
    ASSUME IInv, NEW p \in Peers, AclUpdate(p)
    PROVE IInv' /\ marks' = marks
<1>1. /\ acl' = [acl EXCEPT ![p] = @ + 1]
      /\ UNCHANGED <<store, diff, marks, tx, rounds, incoming>>
  BY Zenon DEF AclUpdate
<1>2. acl' \in [Peers -> Nat]
  BY <1>1 DEF IInv, TypeOK
<1>3. TypeOK'
  BY <1>1, <1>2, Zenon DEF IInv, TypeOK
<1>4. DiffInv' /\ (Keys \cap DeletePrefixes = {} => MarksInv')
  BY <1>1, KeptAll, Zenon
<1>5. QED BY <1>1, <1>3, <1>4, Zenon DEF IInv


\* A round that compares the diffs.
LEMMA CompareKeeps ==
    ASSUME IInv, NEW p \in Peers, NEW q \in Peers, Compare(p, q)
    PROVE IInv' /\ marks' = marks
<1> DEFINE mine == DOMAIN diff[p]
           theirs == DOMAIN diff[q]
           changed == {i \in mine \cap theirs : diff[p][i] > diff[q][i]}
           ask == (theirs \ mine) \cup {i \in mine \cap theirs : diff[p][i] < diff[q][i]}
           r == [Idle EXCEPT !.state = "push", !.removed = mine \ theirs,
                             !.changed = changed, !.ask = ask]
<1>1. /\ rounds' = [rounds EXCEPT ![p][q] = r]
      /\ UNCHANGED <<store, diff, marks, acl, tx, incoming>>
  BY Zenon DEF Compare, InRound
<1>2. diff[p] \in Partial /\ diff[q] \in Partial
  BY DEF IInv, TypeOK
<1>3. mine \in SUBSET Ids /\ theirs \in SUBSET Ids
  BY <1>2 DEF Partial
<1>4. IsRound(r)
  <2>1. mine \ theirs \in SUBSET Ids /\ changed \in SUBSET Ids /\ ask \in SUBSET Ids
    BY <1>3
  <2> HIDE DEF mine, theirs, changed, ask
  <2>2. PICK ids : Idle \in [state : {"idle", "push", "serve", "served"},
                             removed : SUBSET Ids, changed : SUBSET Ids, ask : SUBSET Ids,
                             pushed : Seq(Row), todo : {ids}, sent : Seq(Row)]
    BY IdleRound, Zenon DEF IsRound
  <2>3. r \in [state : {"idle", "push", "serve", "served"},
               removed : SUBSET Ids, changed : SUBSET Ids, ask : SUBSET Ids,
               pushed : Seq(Row), todo : {ids}, sent : Seq(Row)]
    BY Zenon, <2>1, <2>2
  <2>4. QED BY <2>3, Zenon DEF IsRound
<1> HIDE DEF r
<1>5. AreRounds(rounds) /\ incoming \in [Peers -> SUBSET Seq(Row)]
  BY Zenon DEF IInv, TypeOK
<1>6. AreRounds(rounds)'
  BY <1>1, <1>4, <1>5, RoundPut, Zenon
<1>7. QED BY <1>1, <1>5, <1>6, OthersKeep, Zenon

\* A row is loaded and pushed.
LEMMA PushKeeps ==
    ASSUME IInv, NEW p \in Peers, NEW q \in Peers, Push(p, q)
    PROVE IInv' /\ marks' = marks
<1> DEFINE r == rounds[p][q]
           now(i) == [r EXCEPT !.removed = @ \ {i},
                               !.changed = @ \ (IF r.removed = {} THEN {i} ELSE {}),
                               !.pushed = @ \o GetKeyPeerId(p, i)]
<1>1. PICK i : /\ rounds' = [rounds EXCEPT ![p][q] = now(i)]
               /\ UNCHANGED <<store, diff, marks, acl, tx, incoming>>
  BY Zenon DEF Push, InRound
<1>2. AreRounds(rounds) /\ incoming \in [Peers -> SUBSET Seq(Row)] /\ IsRound(r)
  BY Zenon DEF IInv, TypeOK, AreRounds
<1>3. GetKeyPeerId(p, i) \in Seq(Row)
  <2>1. store[p] \in SUBSET Row
    BY DEF IInv, TypeOK
  <2>2. QED BY <2>1, LoadedType, Zenon
<1>4. IsRound(now(i))
  <2> HIDE DEF r
  <2>1. PICK ids : r \in [state : {"idle", "push", "serve", "served"},
                          removed : SUBSET Ids, changed : SUBSET Ids, ask : SUBSET Ids,
                          pushed : Seq(Row), todo : {ids}, sent : Seq(Row)]
    BY <1>2, Zenon DEF IsRound
  <2>2. r.pushed \o GetKeyPeerId(p, i) \in Seq(Row)
    BY <1>3, <2>1
  <2>3. now(i) \in [state : {"idle", "push", "serve", "served"},
                    removed : SUBSET Ids, changed : SUBSET Ids, ask : SUBSET Ids,
                    pushed : Seq(Row), todo : {ids}, sent : Seq(Row)]
    BY Zenon, <2>1, <2>2
  <2>4. QED BY <2>3, Zenon DEF IsRound
<1> HIDE DEF now
<1>5. AreRounds(rounds)'
  BY <1>1, <1>2, <1>4, RoundPut, Zenon
<1>6. QED BY <1>1, <1>2, <1>5, OthersKeep, Zenon

\* The peer goes on with what it is asked for.
LEMMA ServingKeeps ==
    ASSUME IInv, NEW p \in Peers, NEW q \in Peers, NEW r, IsRound(r), Serving(p, q, r)
    PROVE IInv' /\ marks' = marks
<1> DEFINE now == IF r.todo # <<>> THEN r ELSE [r EXCEPT !.state = "served", !.pushed = <<>>]
<1>1. /\ rounds' = [rounds EXCEPT ![p][q] = now]
      /\ incoming' = IF r.todo # <<>> THEN incoming ELSE [incoming EXCEPT ![q] = Received(q, r)]
      /\ UNCHANGED <<store, diff, marks, acl, tx>>
  BY Zenon DEF Serving, InRound
<1>2. AreRounds(rounds) /\ incoming \in [Peers -> SUBSET Seq(Row)]
  BY Zenon DEF IInv, TypeOK
<1>3. IsRound(now)
  <2>1. PICK ids : r \in [state : {"idle", "push", "serve", "served"},
                          removed : SUBSET Ids, changed : SUBSET Ids, ask : SUBSET Ids,
                          pushed : Seq(Row), todo : {ids}, sent : Seq(Row)]
    BY Zenon DEF IsRound
  <2>2. PICK none : none = <<>> /\ none \in Seq(Row)
    <3>1. <<>> \in Seq(Row)
      OBVIOUS
    <3>2. QED BY <3>1, Zenon
  <2>3. [r EXCEPT !.state = "served", !.pushed = none] \in
            [state : {"idle", "push", "serve", "served"},
             removed : SUBSET Ids, changed : SUBSET Ids, ask : SUBSET Ids,
             pushed : Seq(Row), todo : {ids}, sent : Seq(Row)]
    BY Zenon, <2>1, <2>2
  <2>4. IsRound([r EXCEPT !.state = "served", !.pushed = none])
    BY <2>3, Zenon DEF IsRound
  <2>5. QED BY <2>2, <2>4, Zenon
<1> HIDE DEF now
<1>4. AreRounds(rounds)'
  BY <1>1, <1>2, <1>3, RoundPut, Zenon
<1>5. incoming' \in [Peers -> SUBSET Seq(Row)]
  <2>1. Received(q, r) \in SUBSET Seq(Row)
    BY <1>2, ReceivedType, Zenon
  <2>2. QED BY <1>1, <1>2, <2>1, Zenon
<1>6. QED BY <1>1, <1>4, <1>5, OthersKeep, Zenon

\* The peer has got all, and sorts what it is asked for.
LEMMA AskedKeeps ==
    ASSUME IInv, NEW p \in Peers, NEW q \in Peers, Asked(p, q)
    PROVE IInv' /\ marks' = marks
<1> DEFINE r == rounds[p][q]
           ids == sortIdsNewestFirst(q, r.ask)
           now == [r EXCEPT !.state = "serve", !.ask = {}, !.todo = ids]
<1>1. Serving(p, q, now)
  BY Zenon DEF Asked
<1>2. IsRound(r)
  BY Zenon DEF IInv, TypeOK, AreRounds
<1>3. IsRound(now)
  <2> HIDE DEF r, ids
  <2>1. PICK old : r \in [state : {"idle", "push", "serve", "served"},
                          removed : SUBSET Ids, changed : SUBSET Ids, ask : SUBSET Ids,
                          pushed : Seq(Row), todo : {old}, sent : Seq(Row)]
    BY <1>2, Zenon DEF IsRound
  <2>2. now \in [state : {"idle", "push", "serve", "served"},
                 removed : SUBSET Ids, changed : SUBSET Ids, ask : SUBSET Ids,
                 pushed : Seq(Row), todo : {ids}, sent : Seq(Row)]
    BY Zenon, <2>1
  <2>3. QED BY <2>2, Zenon DEF IsRound
<1> HIDE DEF now
<1>4. QED BY <1>1, <1>3, ServingKeeps, Zenon

\* The peer loads and sends a row.
LEMMA ServeKeeps ==
    ASSUME IInv, NEW p \in Peers, NEW q \in Peers, Serve(p, q)
    PROVE IInv' /\ marks' = marks
<1> DEFINE r == rounds[p][q]
           loaded == GetKeyPeerId(q, Head(r.todo))
           now == [r EXCEPT !.todo = Tail(@), !.sent = @ \o loaded]
<1>1. Serving(p, q, now)
  BY Zenon DEF Serve
<1>2. IsRound(r)
  BY Zenon DEF IInv, TypeOK, AreRounds
<1>3. loaded \in Seq(Row)
  <2>1. store[q] \in SUBSET Row
    BY DEF IInv, TypeOK
  <2>2. QED BY <2>1, LoadedType, Zenon
<1>4. IsRound(now)
  <2> HIDE DEF r, loaded
  <2>1. PICK ids : r \in [state : {"idle", "push", "serve", "served"},
                          removed : SUBSET Ids, changed : SUBSET Ids, ask : SUBSET Ids,
                          pushed : Seq(Row), todo : {ids}, sent : Seq(Row)]
    BY <1>2, Zenon DEF IsRound
  <2>2. r.sent \o loaded \in Seq(Row)
    BY <1>3, <2>1
  <2>3. PICK rest : rest = Tail(r.todo)
    BY Zenon
  <2>4. now \in [state : {"idle", "push", "serve", "served"},
                 removed : SUBSET Ids, changed : SUBSET Ids, ask : SUBSET Ids,
                 pushed : Seq(Row), todo : {rest}, sent : Seq(Row)]
    BY Zenon, <2>1, <2>2, <2>3
  <2>5. QED BY <2>4, Zenon DEF IsRound
<1> HIDE DEF now
<1>5. QED BY <1>1, <1>4, ServingKeeps, Zenon

\* A piece of rows is rows.
LEMMA PieceType ==
    ASSUME NEW S, NEW s \in Seq(S), NEW m \in 1 .. Len(s) + 1, NEW n \in 0 .. Len(s)
    PROVE SubSeq(s, m, n) \in Seq(S)
OBVIOUS

\* A batch of what came is applied.
LEMMA ApplyKeeps ==
    ASSUME IInv, NEW p \in Peers, NEW q \in Peers, Apply(p, q)
    PROVE IInv' /\ marks' = marks
<1> DEFINE r == rounds[p][q]
           n == IF Len(r.sent) < ApplyBatch THEN Len(r.sent) ELSE ApplyBatch
           last == r.state = "served" /\ n = Len(r.sent)
           now == IF last THEN Idle ELSE [r EXCEPT !.sent = SubSeq(@, n + 1, Len(@))]
           rows == AcceptedOf(p, SubSeq(r.sent, 1, n))
           caller == IF last THEN {} ELSE {q}
<1>1. /\ Unlocked(p) /\ Set(p, rows, caller)
      /\ rounds' = [rounds EXCEPT ![p][q] = now]
      /\ UNCHANGED <<store, marks, acl, incoming>>
  BY Zenon DEF Apply, InRound, SetRaw
<1>2. AreRounds(rounds) /\ incoming \in [Peers -> SUBSET Seq(Row)] /\ IsRound(r)
  BY Zenon DEF IInv, TypeOK, AreRounds
<1>3. r.sent \in Seq(Row)
  BY <1>2, RoundFields, Zenon
<1> HIDE DEF r
<1>4. Len(r.sent) \in Nat /\ n \in 0 .. Len(r.sent) /\ n + 1 \in 1 .. Len(r.sent) + 1
  BY <1>3, KeyValueAssumption
<1>5. SubSeq(r.sent, 1, n) \in Seq(Row) /\ SubSeq(r.sent, n + 1, Len(r.sent)) \in Seq(Row)
  <2>1. 1 \in 1 .. Len(r.sent) + 1 /\ Len(r.sent) \in 0 .. Len(r.sent)
    BY <1>4
  <2> HIDE DEF n
  <2>2. QED BY <1>3, <1>4, <2>1, PieceType
<1>6. IsRound(now)
  <2>1. PICK ids : r \in [state : {"idle", "push", "serve", "served"},
                          removed : SUBSET Ids, changed : SUBSET Ids, ask : SUBSET Ids,
                          pushed : Seq(Row), todo : {ids}, sent : Seq(Row)]
    BY <1>2, Zenon DEF IsRound
  <2> HIDE DEF n, last
  <2>2. [r EXCEPT !.sent = SubSeq(@, n + 1, Len(@))] \in
            [state : {"idle", "push", "serve", "served"},
             removed : SUBSET Ids, changed : SUBSET Ids, ask : SUBSET Ids,
             pushed : Seq(Row), todo : {ids}, sent : Seq(Row)]
    BY Zenon, <1>5, <2>1
  <2>3. IsRound([r EXCEPT !.sent = SubSeq(@, n + 1, Len(@))])
    BY <2>2, Zenon DEF IsRound
  <2>4. QED BY <2>3, IdleRound, Zenon
<1>7. rows \in Seq(Row) /\ caller \in SUBSET Peers
  <2> HIDE DEF n, last
  <2>1. rows \in Seq(Row)
    BY <1>5, AcceptedType, Zenon
  <2>2. caller \in SUBSET Peers
    OBVIOUS
  <2>3. QED BY <2>1, <2>2
<1> HIDE DEF now, rows, caller
<1>8. AreRounds(rounds)'
  BY <1>1, <1>2, <1>6, RoundPut, Zenon
<1>9. incoming' \in [Peers -> SUBSET Seq(Row)] /\ UNCHANGED <<store, marks, acl>> /\ marks' = marks
  BY <1>1, <1>2, Zenon
<1>10. IInv'
  BY <1>1, <1>7, <1>8, <1>9, CallKeeps, Zenon
<1>11. QED BY <1>9, <1>10, Zenon

\* The stream breaks.
LEMMA BreakKeeps ==
    ASSUME IInv, NEW p \in Peers, NEW q \in Peers, Break(p, q)
    PROVE IInv' /\ marks' = marks
<1> DEFINE r == rounds[p][q]
<1>1. /\ rounds' = [rounds EXCEPT ![p][q] = Idle]
      /\ incoming' = [incoming EXCEPT ![q] = Received(q, r)]
      /\ UNCHANGED <<store, diff, marks, acl, tx>>
  BY Zenon DEF Break
<1>2. AreRounds(rounds) /\ incoming \in [Peers -> SUBSET Seq(Row)] /\ IsRound(r)
  BY Zenon DEF IInv, TypeOK, AreRounds
<1> HIDE DEF r
<1>3. AreRounds(rounds)'
  BY <1>1, <1>2, IdleRound, RoundPut, Zenon
<1>4. incoming' \in [Peers -> SUBSET Seq(Row)]
  <2>1. Received(q, r) \in SUBSET Seq(Row)
    BY <1>2, ReceivedType, Zenon
  <2>2. QED BY <1>1, <1>2, <2>1, Zenon
<1>5. QED BY <1>1, <1>3, <1>4, OthersKeep, Zenon


\* Every step: the invariant, and what is covered stays covered.
LEMMA NextKeeps ==
    ASSUME IInv, [Next]_vars
    PROVE /\ IInv'
          /\ Keys \cap DeletePrefixes = {} =>
                \A p \in Peers, k \in AllKeys, t \in Nat :
                    covered(marks[p], k, t) => covered(marks'[p], k, t)
<1>1. ASSUME NEW p \in Peers, SetValue(p) PROVE IInv' /\ marks' = marks
  <2>1. PICK k \in Keys : signAndStore(p, k, FALSE)
    BY <1>1, Zenon DEF SetValue
  <2>2. FALSE \in BOOLEAN /\ k \in IF FALSE THEN DeletePrefixes ELSE Keys
    BY Zenon
  <2>3. QED BY <2>1, <2>2, WriteKeeps, Zenon
<1>2. ASSUME NEW p \in Peers, DeletePrefix(p) PROVE IInv' /\ marks' = marks
  <2>1. PICK x \in DeletePrefixes : signAndStore(p, x, TRUE)
    BY <1>2, Zenon DEF DeletePrefix
  <2>2. TRUE \in BOOLEAN /\ x \in IF TRUE THEN DeletePrefixes ELSE Keys
    BY Zenon
  <2>3. QED BY <2>1, <2>2, WriteKeeps, Zenon
<1>3. ASSUME NEW p \in Peers, NEW q \in Peers, Round(p, q) PROVE IInv' /\ marks' = marks
  BY <1>3, CompareKeeps, PushKeeps, AskedKeeps, ServeKeeps, ApplyKeeps, Zenon DEF Round
<1>4. CASE UNCHANGED vars
  <2>1. /\ UNCHANGED <<store, diff, marks, acl, tx>> /\ rounds' = rounds
        /\ incoming' = incoming /\ marks' = marks
    BY <1>4, Zenon DEF vars
  <2>2. AreRounds(rounds)' /\ incoming' \in [Peers -> SUBSET Seq(Row)]
    BY <2>1, Zenon DEF IInv, TypeOK
  <2>3. QED BY <2>1, <2>2, OthersKeep, Zenon
<1>5. CASE Next
  <2>1. PICK p \in Peers :
            \/ SetValue(p) \/ DeletePrefix(p) \/ HandleMessage(p)
            \/ Commit(p) \/ Rollback(p) \/ New(p) \/ AclUpdate(p)
            \/ \E q \in Peers \ {p} : Round(p, q) \/ Break(p, q)
    BY <1>5, Zenon DEF Next
  <2>2. CASE Commit(p)
    BY <2>2, CommitKeeps, Zenon
  <2>3. CASE New(p)
    BY <2>3, NewKeeps, Zenon
  <2>4. CASE \E q \in Peers \ {p} : Round(p, q) \/ Break(p, q)
    BY <1>3, <2>4, BreakKeeps, Zenon
  <2>5. CASE HandleMessage(p) \/ Rollback(p) \/ AclUpdate(p)
    BY <2>5, HandleKeeps, RollbackKeeps, AclKeeps, Zenon
  <2>6. QED BY <1>1, <1>2, <2>1, <2>2, <2>3, <2>4, <2>5, Zenon
<1>6. QED BY <1>4, <1>5, Zenon

\* At the start nothing is stored, advertised or covered.
LEMMA InitHolds ==
    ASSUME Init
    PROVE IInv
<1>1. {} \in SUBSET Row
  OBVIOUS
<1>2. /\ Heads({}) \in Partial /\ DOMAIN Heads({}) = {} /\ MarksOf({}) \in Marks
      /\ MarksOf({}) = [x \in DeletePrefixes |-> 0]
  BY HeadsEmpty, MarksOfNone, Zenon
<1>3. AreRounds(rounds)
  <2>1. \A p, q \in Peers : rounds[p][q] = Idle
    BY Zenon DEF Init
  <2>2. rounds = [p \in Peers |-> [q \in Peers |-> rounds[p][q]]]
    BY Zenon DEF Init
  <2>3. QED BY <2>1, <2>2, IdleRound, Zenon DEF AreRounds
<1>4. /\ store \in [Peers -> SUBSET Row] /\ diff \in [Peers -> Partial]
      /\ marks \in [Peers -> Marks] /\ acl \in [Peers -> Nat]
      /\ tx \in [Peers -> SUBSET [res : Result, caller : SUBSET Peers]]
      /\ incoming \in [Peers -> SUBSET Seq(Row)]
  <2>1. store \in [Peers -> SUBSET Row] /\ diff \in [Peers -> Partial] /\ marks \in [Peers -> Marks]
    BY <1>1, <1>2, Zenon DEF Init
  <2>2. acl \in [Peers -> Nat] /\ incoming \in [Peers -> SUBSET Seq(Row)]
    BY DEF Init
  <2>3. tx \in [Peers -> SUBSET [res : Result, caller : SUBSET Peers]]
    BY Zenon DEF Init
  <2>4. QED BY <2>1, <2>2, <2>3
<1>5. ASSUME NEW p \in Peers
      PROVE store[p] = {} /\ diff[p] = Heads({}) /\ marks[p] = MarksOf({}) /\ tx[p] = {}
  BY Zenon DEF Init
<1>6. DiffInv
  BY <1>2, <1>5, Zenon DEF DiffInv, DiffAt, Stored
<1>7. MarksInv
  <2>1. Marked({}, MarksOf({}))
    <3>1. \A x \in DeletePrefixes : ~(MarksOf({})[x] > 0)
      BY <1>2
    <3>2. QED BY <3>1, Zenon DEF Marked
  <2>2. QED BY <1>5, <2>1, Zenon DEF MarksInv, MarksAt
<1>8. QED BY <1>3, <1>4, <1>6, <1>7, Zenon DEF IInv, TypeOK

\* The invariant holds in every reachable state.
LEMMA Invariant == Spec => []IInv
<1>1. Init => IInv
  BY InitHolds, Zenon
<1>2. IInv /\ [Next]_vars => IInv'
  BY NextKeeps, Zenon
<1>3. QED BY <1>1, <1>2, PTL DEF Spec

-----------------------------------------------------------------------------
(* The theorems *)

\* The diff of a device never advertises a row that its storage does not hold, whatever
\* the calls of Set do, commit or fail, and after a restart.
THEOREM AdvertisedRowsAreStored == Spec => []AdvertisedIsStored
<1>1. IInv => AdvertisedIsStored
  BY Zenon DEF IInv, DiffInv, DiffAt, Stored, HasHead, AdvertisedIsStored, Unlocked
<1>2. QED BY <1>1, Invariant, PTL

\* What a watermark has dropped never comes back on a device, also after a restart, so
\* long as no value has a deleted prefix itself as its key: such a value would take the
\* place of the watermark in the collection.
THEOREM DeletedRowsStayDeleted ==
    ASSUME Keys \cap DeletePrefixes = {}
    PROVE Spec => DeletedStaysDeleted
<1>1. ASSUME IInv, [Next]_vars
      PROVE \A p \in Peers :
                /\ \A r \in store'[p] : ~covered(marks'[p], r.key, r.ts)
                /\ \A k \in Keys \cup DeletePrefixes, t \in Times :
                       covered(marks[p], k, t) => covered(marks'[p], k, t)
  <2>1. /\ IInv'
        /\ \A p \in Peers, k \in AllKeys, t \in Nat :
               covered(marks[p], k, t) => covered(marks'[p], k, t)
    BY <1>1, NextKeeps, Zenon
  <2>2. MarksInv'
    BY <2>1, Zenon DEF IInv
  <2>3. \A p \in Peers : \A r \in store'[p] : ~covered(marks'[p], r.key, r.ts)
    BY <2>2, Zenon DEF MarksInv, MarksAt, Marked
  <2>4. Times \subseteq Nat
    BY DEF Times
  <2>5. QED BY <2>1, <2>3, <2>4, Zenon DEF AllKeys
<1>2. IInv /\ [Next]_vars =>
        [\A p \in Peers :
           /\ \A r \in store'[p] : ~covered(marks'[p], r.key, r.ts)
           /\ \A k \in Keys \cup DeletePrefixes, t \in Times :
                  covered(marks[p], k, t) => covered(marks'[p], k, t)]_vars
  BY <1>1, Zenon
<1>3. QED BY <1>2, Invariant, PTL DEF DeletedStaysDeleted, Spec
=============================================================================
