---------------------------- MODULE LDiffProofs -----------------------------
(***************************************************************************)
(* The diff container for every hash space, division factor and threshold. *)
(* The invariant (RangesAreRight) is about the ranges that are reached     *)
(* from the top: they form a tree (Tree), each has the hash of its parts   *)
(* or of its elements (Hashed), and counts no fewer elements than it has   *)
(* (Whole). Ranges left behind may say anything. During an operation the   *)
(* ranges with the elements that were touched are excepted (Partly,        *)
(* Adding), until their hashes are computed again. Induction is over the   *)
(* size of ranges (SizeInduction).                                         *)
(***************************************************************************)
EXTENDS LDiff, FiniteSetTheorems, WellFoundedInduction, TLAPS

-----------------------------------------------------------------------------
(* The geometry of ranges *)

Size(t) == t[2] - t[1] + 1

\* A range that can be divided.
Wide(t) == DivideFactor <= Size(t)

Has(t, h) == h \in t[1]..t[2]

Inside(t, u) == u[1] <= t[1] /\ t[2] <= u[2]

\* The bounds and the size of a range.
LEMMA TupleType ==
    ASSUME NEW t \in Tuples
    PROVE /\ t = <<t[1], t[2]>> /\ t[1] \in 0..MaxHash /\ t[2] \in 0..MaxHash /\ t[1] <= t[2]
          /\ Size(t) \in Nat /\ Size(t) >= 1 /\ Size(t) <= MaxHash + 1
BY LDiffAssumption DEF Tuples, Size

\* Quotient and remainder.
LEMMA DivMod ==
    ASSUME NEW n \in Nat, NEW d \in Nat, d >= 1
    PROVE n \div d \in Nat /\ n % d \in 0..d - 1 /\ n = d * (n \div d) + (n % d)
OBVIOUS

\* A product grows with its first factor.
LEMMA TimesMonotone ==
    ASSUME NEW i \in Nat, NEW j \in Nat, NEW n \in Nat, i <= j
    PROVE i * n <= j * n
OBVIOUS

\* The parts of a range, by number: they lie in it, are smaller, cover it and are disjoint.
LEMMA Parts ==
    ASSUME NEW t \in Tuples, Wide(t)
    PROVE LET g == genTupleRanges(t) IN
          /\ \A i \in 1..DivideFactor : g[i] \in Tuples /\ Inside(g[i], t) /\ Size(g[i]) < Size(t)
          /\ \A h \in t[1]..t[2] : \E i \in 1..DivideFactor : Has(g[i], h)
          /\ \A i, j \in 1..DivideFactor : \A h \in Int : Has(g[i], h) /\ Has(g[j], h) => i = j
<1> DEFINE a == t[1]
           b == t[2]
           s == b - a + 1
           p == s \div DivideFactor
           m == s % DivideFactor
           g == genTupleRanges(t)
<1>1. /\ a \in Nat /\ b \in Nat /\ a <= b /\ b <= MaxHash /\ MaxHash \in Nat
      /\ DivideFactor \in Nat /\ DivideFactor >= 2
      /\ s \in Nat /\ s >= DivideFactor
  BY TupleType, LDiffAssumption DEF Wide, Size
<1>2. /\ p \in Nat /\ m \in 0..DivideFactor - 1 /\ s = DivideFactor * p + m
      /\ p >= 1
  <2>1. p \in Nat /\ m \in 0..DivideFactor - 1 /\ s = DivideFactor * p + m
    BY <1>1
  <2>2. p >= 1
    BY <1>1
  <2>3. QED BY <2>1, <2>2
<1>3. ASSUME NEW i \in 1..DivideFactor
      PROVE /\ g[i][1] = a + (i - 1) * p
            /\ g[i][2] = a - 1 + i * p + IF i = DivideFactor THEN m ELSE 0
            /\ g[i] = <<g[i][1], g[i][2]>>
  BY Zenon DEF genTupleRanges
<1> HIDE DEF g, m, p
<1>4. ASSUME NEW i \in 1..DivideFactor
      PROVE /\ (i - 1) * p \in Nat /\ i * p = (i - 1) * p + p
            /\ (i < DivideFactor => i * p + p <= DivideFactor * p)
            /\ (i = DivideFactor => i * p = DivideFactor * p)
            /\ DivideFactor * p >= p + p
  <2>1. (i - 1) * p \in Nat /\ i * p = (i - 1) * p + p
    BY <1>1, <1>2
  <2>2. i < DivideFactor => (i + 1) * p <= DivideFactor * p
    BY <1>1, <1>2
  <2>3. (i + 1) * p = i * p + p
    BY <1>1, <1>2
  <2>4. DivideFactor * p >= 2 * p
    BY <1>1, <1>2
  <2>5. QED BY <1>1, <1>2, <2>1, <2>2, <2>3, <2>4
<1>5. ASSUME NEW i \in 1..DivideFactor
      PROVE g[i] \in Tuples /\ Inside(g[i], t) /\ Size(g[i]) < Size(t)
  <2> DEFINE x == (i - 1) * p
             y == i * p
             z == DivideFactor * p
  <2>1. /\ x \in Nat /\ y = x + p /\ z \in Nat /\ z >= p + p
        /\ (i < DivideFactor => y + p <= z) /\ (i = DivideFactor => y = z)
        /\ s = z + m
    BY <1>1, <1>2, <1>4
  <2>2. g[i][1] = a + x /\ g[i][2] = a - 1 + y + IF i = DivideFactor THEN m ELSE 0
    BY <1>3, Zenon
  <2> HIDE DEF x, y, z
  <2>3. /\ g[i][1] \in 0..MaxHash /\ g[i][2] \in 0..MaxHash /\ g[i][1] <= g[i][2]
        /\ a <= g[i][1] /\ g[i][2] <= b
        /\ g[i][2] - g[i][1] + 1 < s
    BY <1>1, <1>2, <2>1, <2>2
  <2>4. g[i] \in Tuples
    BY <1>3, <2>3 DEF Tuples
  <2>5. QED BY <2>3, <2>4 DEF Inside, Size
<1>6. ASSUME NEW h \in a..b
      PROVE \E i \in 1..DivideFactor : Has(g[i], h)
  <2> DEFINE x == h - a
             k == x \div p
  <2>1. x \in Nat /\ h \in Int
    BY <1>1
  <2> HIDE DEF x
  <2>2. k \in Nat /\ x % p \in 0..p - 1 /\ x = p * k + (x % p)
    BY <1>2, <2>1, DivMod, Zenon
  <2> USE DEF x
  <2> HIDE DEF k
  <2>3. k * p <= x /\ x < k * p + p
    BY <1>2, <2>1, <2>2
  <2>4. CASE k < DivideFactor
    <3>1. k + 1 \in 1..DivideFactor
      BY <1>1, <2>2, <2>4
    <3>2. /\ g[k + 1][1] = a + ((k + 1) - 1) * p
          /\ g[k + 1][2] = a - 1 + (k + 1) * p + IF k + 1 = DivideFactor THEN m ELSE 0
      BY <1>3, <3>1, Zenon
    <3>3. ((k + 1) - 1) * p = k * p /\ (k + 1) * p = k * p + p /\ k * p \in Nat
      BY <1>2, <2>2
    <3>4. h \in g[k + 1][1]..g[k + 1][2]
      BY <1>1, <1>2, <2>1, <2>3, <3>2, <3>3
    <3>5. QED BY <3>1, <3>4 DEF Has
  <2>5. CASE k >= DivideFactor
    <3>1. DivideFactor * p <= k * p
      <4>1. DivideFactor <= k
        BY <1>1, <2>2, <2>5
      <4>2. QED BY <1>1, <1>2, <2>2, <4>1, TimesMonotone, Zenon
    <3>2. DivideFactor \in 1..DivideFactor
      BY <1>1
    <3>3. /\ g[DivideFactor][1] = a + (DivideFactor - 1) * p
          /\ g[DivideFactor][2] = a - 1 + DivideFactor * p + m
      <4>1. /\ g[DivideFactor][1] = a + (DivideFactor - 1) * p
            /\ g[DivideFactor][2] = a - 1 + DivideFactor * p
                  + IF DivideFactor = DivideFactor THEN m ELSE 0
        BY <1>3, <3>2, Zenon
      <4>2. QED BY <4>1, Zenon
    <3>4. (DivideFactor - 1) * p = DivideFactor * p - p /\ DivideFactor * p \in Nat
      BY <1>1, <1>2
    <3>5. h \in g[DivideFactor][1]..g[DivideFactor][2]
      <4> DEFINE z == DivideFactor * p
                 w == (DivideFactor - 1) * p
                 v == k * p
      <4>1. w = z - p /\ z \in Nat /\ v \in Nat /\ z <= v /\ v <= x /\ s = z + m
        BY <1>2, <2>2, <2>3, <3>1, <3>4
      <4>2. g[DivideFactor][1] = a + w /\ g[DivideFactor][2] = a - 1 + z + m
        BY <3>3, Zenon
      <4> HIDE DEF z, w, v
      <4>3. QED BY <1>1, <1>2, <2>1, <4>1, <4>2
    <3>6. QED BY <3>2, <3>5 DEF Has
  <2>6. QED BY <1>1, <2>2, <2>4, <2>5
<1>7. ASSUME NEW i \in 1..DivideFactor, NEW j \in 1..DivideFactor, NEW h \in Int, i < j,
             Has(g[i], h), Has(g[j], h)
      PROVE FALSE
  <2>1. i * p <= (j - 1) * p
    BY <1>1, <1>2, <1>7
  <2>2. i < DivideFactor
    BY <1>1, <1>7
  <2>3. h <= a - 1 + i * p
    BY <1>1, <1>2, <1>3, <1>4, <1>7, <2>2 DEF Has
  <2>4. a + (j - 1) * p <= h
    BY <1>1, <1>2, <1>3, <1>4, <1>7 DEF Has
  <2>5. i * p \in Int /\ (j - 1) * p \in Int
    BY <1>2
  <2>6. QED BY <1>1, <2>1, <2>3, <2>4, <2>5
<1>8. ASSUME NEW i \in 1..DivideFactor, NEW j \in 1..DivideFactor, NEW h \in Int,
             Has(g[i], h), Has(g[j], h)
      PROVE i = j
  <2>1. ~ (i < j) /\ ~ (j < i)
    BY <1>7, <1>8, Zenon
  <2>2. QED BY <1>1, <2>1
<1>9. QED BY <1>5, <1>6, <1>8, Zenon DEF g

\* The same of the parts as a set.
LEMMA ChildrenOf ==
    ASSUME NEW t \in Tuples, Wide(t)
    PROVE /\ \A c \in Children(t) : c \in Tuples /\ Inside(c, t) /\ Size(c) < Size(t)
          /\ \A h \in t[1]..t[2] : \E c \in Children(t) : Has(c, h)
          /\ \A c, d \in Children(t) : \A h \in Int : Has(c, h) /\ Has(d, h) => c = d
<1> DEFINE g == genTupleRanges(t)
<1>1. /\ \A i \in 1..DivideFactor : g[i] \in Tuples /\ Inside(g[i], t) /\ Size(g[i]) < Size(t)
      /\ \A h \in t[1]..t[2] : \E i \in 1..DivideFactor : Has(g[i], h)
      /\ \A i, j \in 1..DivideFactor : \A h \in Int : Has(g[i], h) /\ Has(g[j], h) => i = j
  BY Parts, Zenon
<1>2. \A c : c \in Children(t) <=> \E i \in 1..DivideFactor : c = g[i]
  BY Zenon DEF Children
<1> HIDE DEF g
<1>3. ASSUME NEW c \in Children(t) PROVE c \in Tuples /\ Inside(c, t) /\ Size(c) < Size(t)
  <2>1. PICK i \in 1..DivideFactor : c = g[i]
    BY <1>2, Zenon
  <2>2. g[i] \in Tuples /\ Inside(g[i], t) /\ Size(g[i]) < Size(t)
    BY <1>1, Zenon
  <2>3. QED BY <2>1, <2>2, Zenon
<1>4. \A h \in t[1]..t[2] : \E c \in Children(t) : Has(c, h)
  BY <1>1, <1>2, Zenon
<1>5. ASSUME NEW c \in Children(t), NEW d \in Children(t), NEW h \in Int, Has(c, h), Has(d, h)
      PROVE c = d
  <2>1. PICK i \in 1..DivideFactor : c = g[i]
    BY <1>2, Zenon
  <2>2. PICK j \in 1..DivideFactor : d = g[j]
    BY <1>2, Zenon
  <2>3. Has(g[i], h) /\ Has(g[j], h)
    BY <1>5, <2>1, <2>2, Zenon
  <2>4. i = j
    BY <1>1, <2>3, Zenon
  <2>5. QED BY <2>1, <2>2, <2>4, Zenon
<1>6. QED BY <1>3, <1>4, <1>5, Zenon

\* getBottomRange returns the only part that has the hash.
LEMMA BottomRange ==
    ASSUME NEW t \in Tuples, Wide(t), NEW h \in t[1]..t[2]
    PROVE /\ getBottomRange(t, h) \in Children(t)
          /\ Has(getBottomRange(t, h), h)
          /\ \A c \in Children(t) : Has(c, h) => c = getBottomRange(t, h)
<1>1. h \in Int
  BY TupleType
<1>2. \E c \in Children(t) : h \in c[1]..c[2]
  BY ChildrenOf, Zenon DEF Has
<1>3. getBottomRange(t, h) \in Children(t) /\ h \in getBottomRange(t, h)[1]..getBottomRange(t, h)[2]
  BY <1>2, Zenon DEF getBottomRange
<1>4. QED BY <1>1, <1>3, ChildrenOf, Zenon DEF Has

-----------------------------------------------------------------------------
(* Induction *)

\* A set of numbers has a least element.
LEMMA LeastNat ==
    ASSUME NEW S \in SUBSET Nat, S # {}
    PROVE \E n \in S : \A m \in S : n <= m
<1> DEFINE R == {ss \in Nat \X Nat : ss[1] < ss[2]}
<1>1. IsWellFoundedOn(R, Nat)
  BY NatLessThanWellFounded DEF OpToRel
<1> HIDE DEF R
<1>2. \E x \in S : \A y \in S : ~ (<<y, x>> \in R)
  BY Zenon, <1>1, WFMin
<1>3. \A x, y \in Nat : <<y, x>> \in R <=> y < x
  BY DEF R
<1>4. PICK x \in S : \A y \in S : ~ (<<y, x>> \in R)
  BY <1>2
<1>5. ASSUME NEW m \in S PROVE x <= m
  <2>1. x \in Nat /\ m \in Nat
    OBVIOUS
  <2>2. ~ (<<m, x>> \in R)
    BY <1>4, Zenon
  <2>3. ~ (m < x)
    BY <1>3, <2>1, <2>2, Zenon
  <2>4. QED BY <2>1, <2>3
<1>6. QED BY <1>5

\* What holds of zero, and of every number of a range after the one before it, holds of
\* the whole range: induction for a set.
LEMMA RangeInduction ==
    ASSUME NEW n \in Nat, NEW S, 0 \in S, \A i \in 1 .. n : i - 1 \in S => i \in S
    PROVE 0 .. n \subseteq S
<1> DEFINE T == {i \in 0 .. n : i \notin S}
<1> SUFFICES ASSUME T # {} PROVE FALSE
  OBVIOUS
<1>1. T \in SUBSET Nat
  OBVIOUS
<1>2. PICK i \in T : \A m \in T : i <= m
  BY Zenon, <1>1, LeastNat
<1>3. i \in 1 .. n
  OBVIOUS
<1>4. i - 1 \in 0 .. n /\ ~ (i <= i - 1)
  BY <1>3
<1>5. i - 1 \notin T
  BY <1>2, <1>4, Zenon
<1>6. QED BY <1>3, <1>4, <1>5


\* Induction on the size of ranges.
LEMMA SizeInduction ==
    ASSUME NEW S, \A t \in Tuples : (\A u \in Tuples : Size(u) < Size(t) => u \in S) => t \in S
    PROVE Tuples \subseteq S
<1> DEFINE T == {t \in Tuples : t \notin S}
           N == {Size(t) : t \in T}
<1> SUFFICES ASSUME T # {} PROVE FALSE
  OBVIOUS
<1>1. N \in SUBSET Nat /\ N # {}
  BY TupleType
<1>2. PICK n \in N : \A m \in N : n <= m
  BY <1>1, LeastNat, Zenon
<1>3. PICK t \in T : n = Size(t)
  OBVIOUS
<1>4. ASSUME NEW u \in Tuples, Size(u) < Size(t) PROVE u \in S
  <2>1. Size(u) \in Nat /\ Size(t) \in Nat
    BY TupleType
  <2>2. ~ (Size(t) <= Size(u))
    BY <1>4, <2>1
  <2>3. Size(u) \notin N
    BY <1>2, <1>3, <2>2, Zenon
  <2>4. QED BY <2>3
<1>5. QED BY <1>3, <1>4

\* What hashes computes.
LEMMA HashesAre ==
    ASSUME NEW D, D \subseteq Tuples, \A t \in D : Wide(t), NEW H
    PROVE /\ \A t \in D : hashes(D, H)[t] = calcDividedHash([c \in Children(t) |-> hashes(D, H)[c]], t)
          /\ \A t \in Tuples \ D : hashes(D, H)[t] = H[t]
<1> DEFINE Def(g, t) == IF t \in D THEN calcDividedHash([c \in Children(t) |-> g[c]], t) ELSE H[t]
           Up(n) == {t \in Tuples : Size(t) <= n}
           Rec(g, n) == [t \in Up(n) |-> Def(g, t)]
           S == {n \in Nat : \E g : g = Rec(g, n)}
<1>0. MaxHash + 1 \in Nat
  BY LDiffAssumption
<1>1. 0 \in S
  <2>1. Up(0) = {}
    BY TupleType
  <2>2. [t \in Up(0) |-> Def(0, t)] = Rec([t \in Up(0) |-> Def(0, t)], 0)
    BY <2>1
  <2>3. QED BY <2>2
<1>2. ASSUME NEW i \in 1..MaxHash + 1, i - 1 \in S PROVE i \in S
  <2>1. PICK g : g = Rec(g, i - 1)
    BY <1>2
  <2> DEFINE f == [t \in Up(i) |-> Def(g, t)]
  <2>2. ASSUME NEW t \in Up(i) PROVE Def(f, t) = Def(g, t)
    <3> SUFFICES ASSUME t \in D PROVE [c \in Children(t) |-> f[c]] = [c \in Children(t) |-> g[c]]
      BY Zenon
    <3>1. ASSUME NEW c \in Children(t) PROVE f[c] = g[c]
      <4>1. t \in Tuples /\ Wide(t)
        OBVIOUS
      <4>2. c \in Tuples /\ Size(c) < Size(t)
        BY <4>1, ChildrenOf, Zenon
      <4>3. Size(t) <= i /\ Size(c) \in Nat /\ Size(t) \in Nat
        BY <4>1, <4>2, TupleType
      <4>4. c \in Up(i - 1) /\ c \in Up(i)
        BY <1>0, <4>2, <4>3
      <4>5. f[c] = Def(g, c)
        BY <4>4, Zenon
      <4>6. g[c] = Def(g, c)
        BY <2>1, <4>4, Zenon
      <4>7. QED BY <4>5, <4>6, Zenon
    <3>2. QED BY <3>1, Zenon
  <2> HIDE DEF Def
  <2>3. f = Rec(f, i)
    BY <2>2, Zenon
  <2>4. i \in Nat
    OBVIOUS
  <2> HIDE DEF Rec, f
  <2>5. QED BY <2>3, <2>4, Zenon
<1> HIDE DEF Def, S
<1>3. 0..MaxHash + 1 \subseteq S
  BY <1>0, <1>1, <1>2, RangeInduction, Zenon
<1>4. \E g : g = Rec(g, MaxHash + 1)
  <2>1. MaxHash + 1 \in S
    BY <1>0, <1>3
  <2>2. QED BY <2>1, Zenon DEF S
<1>5. Up(MaxHash + 1) = Tuples
  BY TupleType
<1>6. \E g : g = [t \in Tuples |-> Def(g, t)]
  BY <1>4, <1>5, Zenon
<1>7. PICK f : f = CHOOSE g : g = [t \in Tuples |-> Def(g, t)]
  OBVIOUS
<1>8. f = [t \in Tuples |-> Def(f, t)]
  BY <1>6, <1>7, Zenon
<1>9. hashes(D, H) = f
  BY <1>7, Zenon DEF hashes, Def
<1>10. \A t \in Tuples : f[t] = Def(f, t)
  BY <1>8, Zenon
<1>11. QED BY <1>9, <1>10, Zenon DEF Def

-----------------------------------------------------------------------------
(* Hashes *)

\* A hash that is added to those written so far.
Write(s, h) == IF h = <<>> THEN s ELSE Append(s, h)

\* How the hash of a divided range is written, part by part.
LEMMA WrittenDef ==
    ASSUME NEW H, NEW t
    PROVE \E f : /\ f[0] = <<>>
                 /\ \A i \in 1..DivideFactor : f[i] = Write(f[i - 1], H[genTupleRanges(t)[i]])
                 /\ calcDividedHash(H, t) = <<"divided", f[DivideFactor]>>
<1> DEFINE Def(g, i) == Write(g[i - 1], H[genTupleRanges(t)[i]])
           Rec(g, n) == [i \in 0..n |-> IF i = 0 THEN <<>> ELSE Def(g, i)]
           S == {n \in Nat : \E g : g = Rec(g, n)}
<1>0. DivideFactor \in Nat
  BY LDiffAssumption
<1>1. 0 \in S
  <2>1. PICK g : g = [i \in 0..0 |-> <<>>]
    BY Zenon
  <2>2. g = Rec(g, 0)
    BY <2>1
  <2>3. QED BY <2>2
<1>2. ASSUME NEW n \in 1..DivideFactor, n - 1 \in S PROVE n \in S
  <2>1. PICK g : g = Rec(g, n - 1)
    BY <1>2
  <2>2. PICK h : h = [i \in 0..n |-> IF i = 0 THEN <<>> ELSE Def(g, i)]
    BY Zenon
  <2>3. ASSUME NEW i \in 0..n, i # 0 PROVE h[i - 1] = g[i - 1]
    <3>1. i - 1 \in 0..n /\ i - 1 \in 0..n - 1
      BY <1>0, <2>3
    <3>2. h[i - 1] = IF i - 1 = 0 THEN <<>> ELSE Def(g, i - 1)
      BY <2>2, <3>1, Zenon
    <3>3. g[i - 1] = IF i - 1 = 0 THEN <<>> ELSE Def(g, i - 1)
      BY <2>1, <3>1, Zenon
    <3> HIDE DEF Def
    <3>4. QED BY <3>2, <3>3
  <2>4. ASSUME NEW i \in 0..n PROVE h[i] = IF i = 0 THEN <<>> ELSE Def(h, i)
    BY <2>2, <2>3, Zenon
  <2>5. h = Rec(h, n)
    <3>1. DOMAIN h = 0..n /\ h = [i \in DOMAIN h |-> h[i]]
      BY <2>2
    <3> HIDE DEF Def
    <3>2. QED BY <2>4, <3>1
  <2>6. n \in Nat
    BY <1>0
  <2> HIDE DEF Rec
  <2>7. QED BY <2>5, <2>6, Zenon
<1> HIDE DEF S
<1>3. 0..DivideFactor \subseteq S
  BY <1>0, <1>1, <1>2, RangeInduction, Zenon
<1>4. \E g : g = Rec(g, DivideFactor)
  BY <1>0, <1>3 DEF S
<1>5. PICK f : f = CHOOSE g : g = Rec(g, DivideFactor)
  OBVIOUS
<1>6. f = Rec(f, DivideFactor)
  BY <1>4, <1>5, Zenon
<1>7. calcDividedHash(H, t) = <<"divided", f[DivideFactor]>>
  BY <1>5, Zenon DEF calcDividedHash, Write
<1> HIDE DEF Def
<1>8. f[0] = <<>>
  BY <1>0, <1>6
<1>9. \A i \in 1..DivideFactor : f[i] = Def(f, i)
  BY <1>0, <1>6
<1>10. QED BY <1>7, <1>8, <1>9, Zenon DEF Def

\* The hashes s are those of the parts of t that are not empty.
Tells(s, H, t) ==
    \A x : (x # <<>> /\ \E c \in Children(t) : x = H[c]) <=> (\E i \in DOMAIN s : x = s[i])

\* The hash of a divided range tells the hashes of its parts that are not empty.
LEMMA DividedHashOf ==
    ASSUME NEW H, NEW t
    PROVE \E s : calcDividedHash(H, t) = <<"divided", s>> /\ Tells(s, H, t)
<1> DEFINE g == genTupleRanges(t)
           V == {H[g[i]] : i \in 1..DivideFactor}
<1>0. DivideFactor \in Nat
  BY LDiffAssumption
<1>1. PICK f : /\ f[0] = <<>>
               /\ \A i \in 1..DivideFactor : f[i] = Write(f[i - 1], H[g[i]])
               /\ calcDividedHash(H, t) = <<"divided", f[DivideFactor]>>
  BY WrittenDef, Zenon
<1> DEFINE Told(n) == \A x : (x # <<>> /\ \E i \in 1..n : x = H[g[i]]) <=> (\E i \in 1..Len(f[n]) : x = f[n][i])
           T == {n \in 0..DivideFactor : f[n] \in Seq(V) /\ Told(n)}
<1> HIDE DEF g, Told
<1>2. 0 \in T
  <2>1. f[0] \in Seq(V)
    BY <1>1
  <2>2. Told(0)
    BY <1>1 DEF Told
  <2>3. QED BY <1>0, <2>1, <2>2
<1>3. ASSUME NEW n \in 1..DivideFactor, n - 1 \in T PROVE n \in T
  <2>1. f[n - 1] \in Seq(V) /\ Told(n - 1) /\ f[n] = Write(f[n - 1], H[g[n]]) /\ H[g[n]] \in V
    BY <1>1, <1>3, Zenon
  <2> DEFINE s == f[n - 1]
             h == H[g[n]]
  <2>2. \A x : (\E i \in 1..n : x = H[g[i]]) <=> (\E i \in 1..n - 1 : x = H[g[i]]) \/ x = h
    <3>1. 1..n = (1..n - 1) \cup {n}
      BY <1>0
    <3>2. QED BY <3>1, Zenon
  <2>3. \A x : (x # <<>> /\ \E i \in 1..n - 1 : x = H[g[i]]) <=> (\E i \in 1..Len(s) : x = s[i])
    BY <2>1, Zenon DEF Told
  <2>4. f[n] = Write(s, h) /\ s \in Seq(V) /\ h \in V
    BY <2>1, Zenon
  <2> HIDE DEF s, h, V
  <2>5. CASE h = <<>>
    <3>1. f[n] = s
      BY <2>4, <2>5, Zenon DEF Write
    <3>2. Told(n)
      <4>1. ASSUME NEW x
            PROVE (x # <<>> /\ \E i \in 1..n : x = H[g[i]]) <=> (\E i \in 1..Len(f[n]) : x = f[n][i])
        <5>1. (\E i \in 1..n : x = H[g[i]]) <=> (\E i \in 1..n - 1 : x = H[g[i]]) \/ x = h
          BY <2>2, Zenon
        <5>2. (x # <<>> /\ \E i \in 1..n - 1 : x = H[g[i]]) <=> (\E i \in 1..Len(s) : x = s[i])
          BY <2>3, Zenon
        <5>3. QED BY <2>5, <3>1, <5>1, <5>2, Zenon
      <4>2. QED BY <4>1, Zenon DEF Told
    <3>3. QED BY <1>0, <2>4, <3>1, <3>2
  <2>6. CASE h # <<>>
    <3>1. f[n] = Append(s, h) /\ f[n] \in Seq(V)
      BY <2>4, <2>6 DEF Write
    <3>2. \A x : (\E i \in 1..Len(f[n]) : x = f[n][i]) <=> (\E i \in 1..Len(s) : x = s[i]) \/ x = h
      <4>1. Len(s) \in Nat /\ Len(f[n]) = Len(s) + 1 /\ f[n][Len(s) + 1] = h
        BY <2>4, <3>1
      <4>2. \A i \in 1..Len(s) : f[n][i] = s[i]
        BY <2>4, <3>1
      <4>3. 1..Len(f[n]) = (1..Len(s)) \cup {Len(s) + 1}
        BY <4>1
      <4>4. QED BY <4>1, <4>2, <4>3, Zenon
    <3>3. Told(n)
      <4>1. ASSUME NEW x
            PROVE (x # <<>> /\ \E i \in 1..n : x = H[g[i]]) <=> (\E i \in 1..Len(f[n]) : x = f[n][i])
        <5>1. (\E i \in 1..n : x = H[g[i]]) <=> (\E i \in 1..n - 1 : x = H[g[i]]) \/ x = h
          BY <2>2, Zenon
        <5>2. (x # <<>> /\ \E i \in 1..n - 1 : x = H[g[i]]) <=> (\E i \in 1..Len(s) : x = s[i])
          BY <2>3, Zenon
        <5>3. (\E i \in 1..Len(f[n]) : x = f[n][i]) <=> (\E i \in 1..Len(s) : x = s[i]) \/ x = h
          BY <3>2, Zenon
        <5>4. QED BY <2>6, <5>1, <5>2, <5>3, Zenon
      <4>2. QED BY <4>1, Zenon DEF Told
    <3>4. QED BY <1>0, <3>1, <3>3
  <2>7. QED BY <2>5, <2>6, Zenon
<1> HIDE DEF T
<1>4. 0..DivideFactor \subseteq T
  BY <1>0, <1>2, <1>3, RangeInduction, Zenon
<1>5. DivideFactor \in T
  BY <1>0, <1>4
<1>6. f[DivideFactor] \in Seq(V) /\ Told(DivideFactor)
  BY <1>5, Zenon DEF T
<1>7. DOMAIN f[DivideFactor] = 1..Len(f[DivideFactor])
  BY <1>6
<1>8. \A x : (\E c \in Children(t) : x = H[c]) <=> (\E i \in 1..DivideFactor : x = H[g[i]])
  BY Zenon DEF Children, g
<1>9. Tells(f[DivideFactor], H, t)
  BY <1>6, <1>7, <1>8, Zenon DEF Told, Tells
<1>10. QED BY <1>1, <1>9, Zenon

-----------------------------------------------------------------------------
(* The invariant of a container: its elements e, its ranges R, and the ranges L among   *)
(* them that are reached from the top                                                   *)

\* The range t is divided and u lies in one of its parts.
Above(R, t, u) == R[t].div /\ \E c \in Children(t) : Inside(u, c)

Apart(t, u) == t[2] < u[1] \/ u[2] < t[1]

IsRange(x) == x = hashRange(x.div, x.n, x.hash) /\ x.div \in BOOLEAN /\ x.n \in Int

\* The ranges that are reached form a tree.
Tree(R, L) ==
    /\ DOMAIN R \subseteq Tuples
    /\ \A t \in DOMAIN R : IsRange(R[t]) /\ (R[t].div => Wide(t))
    /\ L \subseteq DOMAIN R
    /\ topRange \in L /\ R[topRange].div
    /\ \A t \in L : R[t].div => Children(t) \subseteq L
    /\ \A t, u \in L : t = u \/ Apart(t, u) \/ Above(R, t, u) \/ Above(R, u, t)

\* The hash of the range t is that of its elements, or of the hashes of its parts.
Hashed(e, R, t) ==
    R[t].hash = IF R[t].div THEN calcDividedHash([c \in Children(t) |-> R[c].hash], t)
                ELSE calcElementsHash(e, t)

Elements == [Ids -> Heads \cup {None}]

\* The elements of a range are those of its parts.
LEMMA ElementsInParts ==
    ASSUME NEW e, NEW t \in Tuples, Wide(t), NEW x
    PROVE x \in elementsIn(e, t) <=> \E c \in Children(t) : x \in elementsIn(e, c)
<1>1. ASSUME x \in elementsIn(e, t) PROVE \E c \in Children(t) : x \in elementsIn(e, c)
  <2>1. PICK i \in Ids : e[i] # None /\ i \in t[1]..t[2] /\ x = <<i, e[i]>>
    BY <1>1 DEF elementsIn
  <2>2. PICK c \in Children(t) : Has(c, i)
    BY <2>1, ChildrenOf, Zenon
  <2>3. x \in elementsIn(e, c)
    BY <2>1, <2>2 DEF elementsIn, Has
  <2>4. QED BY <2>3, Zenon
<1>2. ASSUME NEW c \in Children(t), x \in elementsIn(e, c) PROVE x \in elementsIn(e, t)
  <2>1. PICK i \in Ids : e[i] # None /\ i \in c[1]..c[2] /\ x = <<i, e[i]>>
    BY <1>2 DEF elementsIn
  <2>2. c \in Tuples /\ Inside(c, t)
    BY ChildrenOf, Zenon
  <2>3. i \in t[1]..t[2]
    BY <2>1, <2>2, TupleType DEF Inside
  <2>4. QED BY <2>1, <2>3 DEF elementsIn
<1>3. QED BY <1>1, <1>2, Zenon

\* A range with elements has a hash.
LEMMA NotEmpty ==
    ASSUME NEW e, NEW R, NEW t, R[t].div \in BOOLEAN, Hashed(e, R, t), elementsIn(e, t) # {}
    PROVE R[t].hash # <<>>
<1>1. CASE R[t].div
  <2>1. PICK H : R[t].hash = calcDividedHash(H, t)
    BY <1>1, Zenon DEF Hashed
  <2>2. PICK s : R[t].hash = <<"divided", s>>
    BY <2>1, DividedHashOf, Zenon
  <2>3. QED BY <2>2
<1>2. CASE ~R[t].div
  <2>1. R[t].hash = <<"elements", elementsIn(e, t)>>
    BY <1>2, Zenon DEF Hashed, calcElementsHash
  <2>2. QED BY <2>1
<1>3. QED BY <1>1, <1>2

\* Ranges with the same hash, of two containers, have the same elements.
LEMMA SameHash ==
    ASSUME NEW e, NEW R, NEW L, Tree(R, L), \A t \in L : Hashed(e, R, t),
           NEW d, NEW Q, NEW M, Tree(Q, M), \A u \in M : Hashed(d, Q, u)
    PROVE \A t \in L, u \in M : R[t].hash = Q[u].hash => elementsIn(e, t) = elementsIn(d, u)
<1> DEFINE S == {t \in Tuples : t \in L => \A u \in M : R[t].hash = Q[u].hash => elementsIn(e, t) = elementsIn(d, u)}
<1>0. (\A t \in L : R[t].div \in BOOLEAN) /\ (\A u \in M : Q[u].div \in BOOLEAN)
  BY Zenon DEF Tree, IsRange
<1>1. ASSUME NEW t \in Tuples, \A v \in Tuples : Size(v) < Size(t) => v \in S PROVE t \in S
  <2> SUFFICES ASSUME t \in L, NEW u \in M, R[t].hash = Q[u].hash
               PROVE elementsIn(e, t) = elementsIn(d, u)
    BY Zenon
  <2>1. /\ t \in DOMAIN R /\ u \in DOMAIN Q /\ u \in Tuples
        /\ R[t].div \in BOOLEAN /\ Q[u].div \in BOOLEAN
        /\ (R[t].div => Wide(t) /\ Children(t) \subseteq L)
        /\ (Q[u].div => Wide(u) /\ Children(u) \subseteq M)
    BY Zenon DEF Tree, IsRange
  <2>2. /\ R[t].div => R[t].hash = calcDividedHash([c \in Children(t) |-> R[c].hash], t)
        /\ ~R[t].div => R[t].hash = calcElementsHash(e, t)
        /\ Q[u].div => Q[u].hash = calcDividedHash([c \in Children(u) |-> Q[c].hash], u)
        /\ ~Q[u].div => Q[u].hash = calcElementsHash(d, u)
    BY Zenon DEF Hashed
  <2>3. CASE R[t].div /\ Q[u].div
    <3> DEFINE H == [c \in Children(t) |-> R[c].hash]
               I == [c \in Children(u) |-> Q[c].hash]
    <3>0. /\ R[t].hash = calcDividedHash(H, t) /\ Q[u].hash = calcDividedHash(I, u)
          /\ \A c \in Children(t) : H[c] = R[c].hash
          /\ \A c \in Children(u) : I[c] = Q[c].hash
      BY <2>2, <2>3, Zenon
    <3> HIDE DEF H, I
    <3>1. PICK s : calcDividedHash(H, t) = <<"divided", s>> /\ Tells(s, H, t)
      BY DividedHashOf, Zenon
    <3>2. PICK z : calcDividedHash(I, u) = <<"divided", z>> /\ Tells(z, I, u)
      BY DividedHashOf, Zenon
    <3>3. s = z
      <4>1. <<"divided", s>> = <<"divided", z>>
        BY <3>0, <3>1, <3>2, Zenon
      <4>2. QED BY <4>1
    <3>4. \A x : (x # <<>> /\ \E c \in Children(t) : x = R[c].hash)
                 <=> (x # <<>> /\ \E c \in Children(u) : x = Q[c].hash)
      <4>1. ASSUME NEW x
            PROVE (x # <<>> /\ \E c \in Children(t) : x = R[c].hash)
                  <=> (x # <<>> /\ \E c \in Children(u) : x = Q[c].hash)
        <5>1. (\E c \in Children(t) : x = H[c]) <=> (\E c \in Children(t) : x = R[c].hash)
          BY <3>0, Zenon
        <5>2. (\E c \in Children(u) : x = I[c]) <=> (\E c \in Children(u) : x = Q[c].hash)
          BY <3>0, Zenon
        <5>3. (x # <<>> /\ \E c \in Children(t) : x = H[c]) <=> (\E i \in DOMAIN s : x = s[i])
          BY <3>1, Zenon DEF Tells
        <5>4. (x # <<>> /\ \E c \in Children(u) : x = I[c]) <=> (\E i \in DOMAIN s : x = s[i])
          BY <3>2, <3>3, Zenon DEF Tells
        <5>5. QED BY <5>1, <5>2, <5>3, <5>4, Zenon
      <4>2. QED BY <4>1, Zenon
    <3>5. ASSUME NEW c \in Children(t), NEW v \in Children(u), R[c].hash = Q[v].hash
          PROVE elementsIn(e, c) = elementsIn(d, v)
      <4>1. c \in Tuples /\ Size(c) < Size(t)
        BY <2>1, <2>3, ChildrenOf, Zenon
      <4>2. c \in L /\ v \in M
        BY <2>1, <2>3, Zenon
      <4>3. c \in S
        BY <1>1, <4>1, Zenon
      <4>4. QED BY <3>5, <4>2, <4>3, Zenon
    <3>6. ASSUME NEW x \in elementsIn(e, t) PROVE x \in elementsIn(d, u)
      <4>1. PICK c \in Children(t) : x \in elementsIn(e, c)
        BY <2>1, <2>3, ElementsInParts, Zenon
      <4>2. c \in L /\ R[c].div \in BOOLEAN
        BY <1>0, <2>1, <2>3, Zenon
      <4>3. R[c].hash # <<>>
        <5>1. Hashed(e, R, c) /\ elementsIn(e, c) # {}
          BY <4>1, <4>2, Zenon
        <5>2. QED BY <4>2, <5>1, NotEmpty
      <4>4. PICK v \in Children(u) : R[c].hash = Q[v].hash
        BY <3>4, <4>3, Zenon
      <4>5. x \in elementsIn(d, v)
        BY <3>5, <4>1, <4>4, Zenon
      <4>6. QED BY <2>1, <2>3, <4>5, ElementsInParts, Zenon
    <3>7. ASSUME NEW x \in elementsIn(d, u) PROVE x \in elementsIn(e, t)
      <4>1. PICK v \in Children(u) : x \in elementsIn(d, v)
        BY <2>1, <2>3, ElementsInParts, Zenon
      <4>2. v \in M /\ Q[v].div \in BOOLEAN
        BY <1>0, <2>1, <2>3, Zenon
      <4>3. Q[v].hash # <<>>
        <5>1. Hashed(d, Q, v) /\ elementsIn(d, v) # {}
          BY <4>1, <4>2, Zenon
        <5>2. QED BY <4>2, <5>1, NotEmpty
      <4>4. PICK c \in Children(t) : Q[v].hash = R[c].hash
        BY <3>4, <4>3, Zenon
      <4>5. x \in elementsIn(e, c)
        BY <3>5, <4>1, <4>4, Zenon
      <4>6. QED BY <2>1, <2>3, <4>5, ElementsInParts, Zenon
    <3>8. QED BY <3>6, <3>7, Zenon
  <2>4. CASE ~R[t].div /\ ~Q[u].div
    <3> DEFINE E == elementsIn(e, t)
               F == elementsIn(d, u)
    <3>1. R[t].hash = IF E = {} THEN <<>> ELSE <<"elements", E>>
      BY <2>2, <2>4, Zenon DEF calcElementsHash
    <3>2. R[t].hash = IF F = {} THEN <<>> ELSE <<"elements", F>>
      BY <2>2, <2>4, Zenon DEF calcElementsHash
    <3> HIDE DEF E, F
    <3>3. E = F
      <4>1. CASE E = {}
        BY <3>1, <3>2, <4>1
      <4>2. CASE E # {}
        BY <3>1, <3>2, <4>2
      <4>3. QED BY <4>1, <4>2
    <3>4. QED BY <3>3 DEF E, F
  <2>5. CASE R[t].div /\ ~Q[u].div
    <3>0. PICK H : R[t].hash = calcDividedHash(H, t)
      BY <2>2, <2>5, Zenon
    <3>1. PICK s : R[t].hash = <<"divided", s>>
      BY <3>0, DividedHashOf, Zenon
    <3>2. PICK f : Q[u].hash = <<>> \/ Q[u].hash = <<"elements", f>>
      BY <2>2, <2>5, Zenon DEF calcElementsHash
    <3>3. QED BY <3>1, <3>2
  <2>6. CASE ~R[t].div /\ Q[u].div
    <3>0. PICK H : Q[u].hash = calcDividedHash(H, u)
      BY <2>2, <2>6, Zenon
    <3>1. PICK s : Q[u].hash = <<"divided", s>>
      BY <3>0, DividedHashOf, Zenon
    <3>2. PICK f : R[t].hash = <<>> \/ R[t].hash = <<"elements", f>>
      BY <2>2, <2>6, Zenon DEF calcElementsHash
    <3>3. QED BY <3>1, <3>2
  <2>7. QED BY <2>1, <2>3, <2>4, <2>5, <2>6, Zenon
<1> HIDE DEF S
<1>2. Tuples \subseteq S
  BY <1>1, SizeInduction, Zenon
<1>3. L \subseteq Tuples
  BY DEF Tree
<1>4. QED BY <1>2, <1>3, Zenon DEF S

-----------------------------------------------------------------------------
(* Paths *)

\* What lies in a range is no larger, overlaps it and has none but its hashes.
LEMMA InsideFacts ==
    ASSUME NEW t \in Tuples, NEW u \in Tuples, Inside(t, u)
    PROVE /\ Size(t) <= Size(u) /\ ~Apart(t, u)
          /\ \A h \in Int : Has(t, h) => Has(u, h)
          /\ \A v \in Tuples : Inside(u, v) => Inside(t, v)
BY TupleType DEF Inside, Size, Has, Apart

\* A range is not below one that lies in it.
LEMMA NotBelow ==
    ASSUME NEW R, NEW t \in Tuples, NEW u \in Tuples, R[t].div => Wide(t), Inside(t, u), Above(R, t, u)
    PROVE FALSE
<1>1. PICK c \in Children(t) : Inside(u, c)
  BY Zenon DEF Above
<1>2. c \in Tuples /\ Size(c) < Size(t)
  BY ChildrenOf, Zenon DEF Above
<1>3. Size(t) <= Size(u) /\ Size(u) <= Size(c)
  BY <1>1, <1>2, InsideFacts, Zenon
<1>4. Size(t) \in Nat /\ Size(u) \in Nat /\ Size(c) \in Nat
  BY <1>2, TupleType
<1>5. QED BY <1>2, <1>3, <1>4

\* What is below a range lies in it.
LEMMA BelowIsInside ==
    ASSUME NEW R, NEW t \in Tuples, NEW u \in Tuples, R[t].div => Wide(t), Above(R, t, u)
    PROVE Inside(u, t) /\ Size(u) < Size(t)
<1>1. PICK c \in Children(t) : Inside(u, c)
  BY Zenon DEF Above
<1>2. c \in Tuples /\ Inside(c, t) /\ Size(c) < Size(t)
  BY ChildrenOf, Zenon DEF Above
<1>3. Size(u) <= Size(c) /\ Inside(u, t)
  BY <1>1, <1>2, InsideFacts, Zenon
<1>4. Size(t) \in Nat /\ Size(u) \in Nat /\ Size(c) \in Nat
  BY <1>2, TupleType
<1>5. QED BY <1>2, <1>3, <1>4

\* Every range lies in the top range.
LEMMA TopIsAbove ==
    ASSUME NEW t \in Tuples
    PROVE topRange \in Tuples /\ Inside(t, topRange)
BY LDiffAssumption, TupleType DEF topRange, Tuples, Inside

\* How pathTo goes down.
LEMMA DownDef ==
    ASSUME NEW R, NEW L, Tree(R, L), NEW h \in 0..MaxHash
    PROVE \E f : /\ pathTo(R, h) = f[topRange]
                 /\ \A t \in Tuples : Has(t, h) /\ t \in DOMAIN R /\ R[t].div =>
                        f[t] = <<t>> \o f[getBottomRange(t, h)]
                 /\ \A t \in Tuples : Has(t, h) /\ ~(t \in DOMAIN R /\ R[t].div) => f[t] = <<t>>
<1> DEFINE Def(g, t) == IF t \in DOMAIN R /\ R[t].div THEN <<t>> \o g[getBottomRange(t, h)] ELSE <<t>>
           P == {u \in Tuples : h \in u[1]..u[2]}
           Up(n) == {t \in P : Size(t) <= n}
           Rec(g, n) == [t \in Up(n) |-> Def(g, t)]
           S == {n \in Nat : \E g : g = Rec(g, n)}
<1>0. MaxHash + 1 \in Nat
  BY LDiffAssumption
<1>1. 0 \in S
  <2>1. Up(0) = {}
    BY TupleType
  <2>2. [t \in Up(0) |-> Def(0, t)] = Rec([t \in Up(0) |-> Def(0, t)], 0)
    BY <2>1
  <2>3. QED BY <2>2
<1>2. ASSUME NEW i \in 1..MaxHash + 1, i - 1 \in S PROVE i \in S
  <2>1. PICK g : g = Rec(g, i - 1)
    BY <1>2
  <2>0. PICK f : f = [t \in Up(i) |-> Def(g, t)]
    BY Zenon
  <2>2. ASSUME NEW t \in Up(i) PROVE Def(f, t) = Def(g, t)
    <3> DEFINE c == getBottomRange(t, h)
    <3> SUFFICES ASSUME t \in DOMAIN R, R[t].div PROVE f[c] = g[c]
      BY Zenon
    <3>1. t \in Tuples /\ Wide(t) /\ h \in t[1]..t[2] /\ Size(t) <= i
      BY DEF Tree
    <3>2. c \in Children(t) /\ Has(c, h)
      BY <3>1, BottomRange, Zenon
    <3>3. c \in Tuples /\ Size(c) < Size(t)
      BY <3>1, <3>2, ChildrenOf, Zenon
    <3> HIDE DEF c
    <3>4. Size(c) \in Nat /\ Size(t) \in Nat
      BY <3>1, <3>3, TupleType
    <3>5. c \in Up(i - 1) /\ c \in Up(i)
      BY <1>0, <3>1, <3>2, <3>3, <3>4 DEF Has
    <3>6. f[c] = Def(g, c)
      BY <2>0, <3>5, Zenon
    <3>7. g[c] = Def(g, c)
      BY <2>1, <3>5, Zenon
    <3>8. QED BY <3>6, <3>7, Zenon
  <2> HIDE DEF Def
  <2>3. f = Rec(f, i)
    BY <2>0, <2>2, Zenon
  <2>4. i \in Nat
    OBVIOUS
  <2> HIDE DEF Rec
  <2>5. QED BY <2>3, <2>4, Zenon
<1> HIDE DEF Def, S
<1>3. 0..MaxHash + 1 \subseteq S
  BY <1>0, <1>1, <1>2, RangeInduction, Zenon
<1>4. \E g : g = Rec(g, MaxHash + 1)
  <2>1. MaxHash + 1 \in S
    BY <1>0, <1>3
  <2>2. QED BY <2>1, Zenon DEF S
<1>5. Up(MaxHash + 1) = P
  BY TupleType
<1>6. \E g : g = [t \in P |-> Def(g, t)]
  BY <1>4, <1>5, Zenon
<1>7. PICK f : f = CHOOSE g : g = [t \in P |-> Def(g, t)]
  OBVIOUS
<1>8. f = [t \in P |-> Def(f, t)]
  BY <1>6, <1>7, Zenon
<1>9. pathTo(R, h) = f[topRange]
  BY <1>7, Zenon DEF pathTo, Def
<1>10. \A t \in P : f[t] = Def(f, t)
  BY <1>8, Zenon
<1>11. \A t \in Tuples : Has(t, h) => t \in P
  BY DEF Has
<1>12. QED BY <1>9, <1>10, <1>11, Zenon DEF Def

\* The length and the elements of a sequence with t in front.
LEMMA Prepend ==
    ASSUME NEW L, NEW t \in L, NEW s \in Seq(L)
    PROVE /\ <<t>> \o s \in Seq(L) /\ Len(s) \in Nat /\ Len(<<t>> \o s) = Len(s) + 1
          /\ (<<t>> \o s)[1] = t
          /\ \A i \in 1..Len(s) : (<<t>> \o s)[i + 1] = s[i]
OBVIOUS

\* The path s from t down: the ranges with h that are t or below it, the last one undivided
\* and a part of the one before.
IsPath(R, L, h, t, s) ==
    /\ s \in Seq(L) /\ Len(s) >= 1
    /\ \A u : (\E i \in 1..Len(s) : u = s[i]) <=> (u \in L /\ Has(u, h) /\ (u = t \/ Above(R, t, u)))
    /\ ~R[s[Len(s)]].div
    /\ R[t].div => /\ Len(s) >= 2 /\ R[s[Len(s) - 1]].div
                   /\ s[Len(s)] \in Children(s[Len(s) - 1])

\* The ranges with h below t are the part with h and those below it.
LEMMA BelowPart ==
    ASSUME NEW R, NEW L, Tree(R, L), NEW h \in 0..MaxHash, NEW t \in L, Has(t, h), R[t].div,
           NEW u \in L, Has(u, h)
    PROVE LET c == getBottomRange(t, h) IN
          Above(R, t, u) <=> (u = c \/ Above(R, c, u))
<1> DEFINE c == getBottomRange(t, h)
<1>1. /\ t \in Tuples /\ Wide(t) /\ u \in Tuples /\ (R[u].div => Wide(u)) /\ Children(t) \subseteq L
  BY Zenon DEF Tree
<1>2. c \in Children(t) /\ Has(c, h) /\ \A d \in Children(t) : Has(d, h) => d = c
  BY <1>1, BottomRange, Zenon DEF Has
<1> HIDE DEF c
<1>3. c \in Tuples /\ c \in L /\ Inside(c, t) /\ (R[c].div => Wide(c))
  <2>1. c \in Tuples /\ c \in L /\ Inside(c, t)
    BY <1>1, <1>2, ChildrenOf, Zenon
  <2>2. QED BY <2>1, Zenon DEF Tree
<1>4. h \in Int
  BY LDiffAssumption
<1>5. ASSUME Above(R, t, u) PROVE u = c \/ Above(R, c, u)
  <2>1. PICK d \in Children(t) : Inside(u, d)
    BY <1>5, Zenon DEF Above
  <2>2. d \in Tuples
    BY <1>1, ChildrenOf, Zenon
  <2>3. Has(d, h)
    BY <1>1, <1>4, <2>1, <2>2, InsideFacts, Zenon
  <2>4. Inside(u, c)
    BY <1>2, <2>1, <2>3, Zenon
  <2>5. ~Apart(u, c) /\ ~Above(R, u, c)
    BY <1>1, <1>3, <2>4, InsideFacts, NotBelow, Zenon
  <2>6. u = c \/ Apart(u, c) \/ Above(R, u, c) \/ Above(R, c, u)
    BY <1>3, Zenon DEF Tree
  <2>7. QED BY <2>5, <2>6, Zenon
<1>6. ASSUME u = c PROVE Above(R, t, u)
  <2>1. Inside(c, c)
    BY <1>3, TupleType DEF Inside
  <2>2. QED BY <1>2, <1>6, <2>1, Zenon DEF Above
<1>7. ASSUME Above(R, c, u) PROVE Above(R, t, u)
  <2>1. Inside(u, c)
    BY <1>1, <1>3, <1>7, BelowIsInside, Zenon
  <2>2. QED BY <1>2, <2>1, Zenon DEF Above
<1>8. QED BY <1>5, <1>6, <1>7, Zenon DEF c

\* The way down from any range that is reached is a path.
LEMMA PathFrom ==
    ASSUME NEW R, NEW L, Tree(R, L), NEW h \in 0..MaxHash, NEW f,
           \A t \in Tuples : Has(t, h) /\ t \in DOMAIN R /\ R[t].div =>
               f[t] = <<t>> \o f[getBottomRange(t, h)],
           \A t \in Tuples : Has(t, h) /\ ~(t \in DOMAIN R /\ R[t].div) => f[t] = <<t>>
    PROVE \A t \in L : Has(t, h) => IsPath(R, L, h, t, f[t])
<1> DEFINE S == {t \in Tuples : t \in L /\ Has(t, h) => IsPath(R, L, h, t, f[t])}
<1>1. ASSUME NEW t \in Tuples, \A v \in Tuples : Size(v) < Size(t) => v \in S PROVE t \in S
  <2> SUFFICES ASSUME t \in L, Has(t, h) PROVE IsPath(R, L, h, t, f[t])
    BY Zenon
  <2>1. t \in DOMAIN R /\ R[t].div \in BOOLEAN /\ (R[t].div => Wide(t) /\ Children(t) \subseteq L)
    BY Zenon DEF Tree, IsRange
  <2>2. CASE ~R[t].div
    <3>1. f[t] = <<t>>
      BY <2>2, Zenon
    <3>2. \A u : (\E i \in 1..Len(f[t]) : u = f[t][i]) <=> u = t
      BY <3>1
    <3>3. \A u : (u \in L /\ Has(u, h) /\ (u = t \/ Above(R, t, u))) <=> u = t
      BY <2>2, Zenon DEF Above
    <3>4. f[t] \in Seq(L) /\ Len(f[t]) = 1 /\ f[t][1] = t
      BY <3>1
    <3>5. QED BY <2>2, <3>2, <3>3, <3>4 DEF IsPath
  <2>3. CASE R[t].div
    <3> DEFINE c == getBottomRange(t, h)
               s == f[c]
    <3>1. c \in Children(t) /\ Has(c, h)
      BY <2>1, <2>3, BottomRange, Zenon DEF Has
    <3>2. c \in Tuples /\ Size(c) < Size(t) /\ c \in L
      BY <2>1, <2>3, <3>1, ChildrenOf, Zenon
    <3>3. IsPath(R, L, h, c, s)
      BY <1>1, <3>1, <3>2, Zenon
    <3>4. f[t] = <<t>> \o s
      BY <2>1, <2>3, Zenon
    <3>5. ASSUME NEW u \in L, Has(u, h) PROVE Above(R, t, u) <=> (u = c \/ Above(R, c, u))
      BY <2>3, <3>5, BelowPart, Zenon
    <3>6. R[c].div \in BOOLEAN /\ (~R[c].div => s = <<c>>)
      BY <3>1, <3>2, Zenon DEF Tree, IsRange
    <3> HIDE DEF c, s
    <3>7. /\ s \in Seq(L) /\ Len(s) >= 1 /\ Len(s) \in Nat /\ f[t] \in Seq(L) /\ Len(f[t]) = Len(s) + 1
          /\ f[t][1] = t /\ \A i \in 1..Len(s) : f[t][i + 1] = s[i]
      <4>1. s \in Seq(L) /\ Len(s) >= 1
        BY <3>3, Zenon DEF IsPath
      <4>2. QED BY <3>4, <4>1, Prepend
    <3>8. ASSUME NEW u
          PROVE (\E i \in 1..Len(f[t]) : u = f[t][i]) <=> (u \in L /\ Has(u, h) /\ (u = t \/ Above(R, t, u)))
      <4>1. (\E i \in 1..Len(f[t]) : u = f[t][i]) <=> (u = t \/ \E i \in 1..Len(s) : u = s[i])
        <5>1. ASSUME NEW i \in 1..Len(f[t]) PROVE f[t][i] = t \/ \E j \in 1..Len(s) : f[t][i] = s[j]
          <6>1. CASE i = 1
            BY <3>7, <6>1
          <6>2. CASE i # 1
            <7>1. i - 1 \in 1..Len(s) /\ (i - 1) + 1 = i
              BY <3>7, <6>2
            <7>2. f[t][(i - 1) + 1] = s[i - 1]
              BY <3>7, <7>1, Zenon
            <7>3. QED BY <7>1, <7>2
          <6>3. QED BY <6>1, <6>2
        <5>2. \A j \in 1..Len(s) : j + 1 \in 1..Len(f[t]) /\ f[t][j + 1] = s[j]
          BY <3>7
        <5>3. 1 \in 1..Len(f[t]) /\ f[t][1] = t
          BY <3>7
        <5>4. ASSUME NEW i \in 1..Len(f[t]), u = f[t][i] PROVE u = t \/ \E j \in 1..Len(s) : u = s[j]
          BY <5>1, <5>4
        <5>5. ASSUME NEW j \in 1..Len(s), u = s[j] PROVE \E i \in 1..Len(f[t]) : u = f[t][i]
          BY <5>2, <5>5
        <5>6. QED BY <5>3, <5>4, <5>5
      <4>2. (\E i \in 1..Len(s) : u = s[i]) <=> (u \in L /\ Has(u, h) /\ (u = c \/ Above(R, c, u)))
        BY <3>3, Zenon DEF IsPath
      <4>3. QED BY <3>5, <4>1, <4>2, Zenon
    <3>9. ~R[f[t][Len(f[t])]].div
      <4>1. f[t][Len(f[t])] = s[Len(s)]
        BY <3>7
      <4>2. QED BY <3>3, <4>1, Zenon DEF IsPath
    <3>10. Len(f[t]) >= 2 /\ R[f[t][Len(f[t]) - 1]].div /\ f[t][Len(f[t])] \in Children(f[t][Len(f[t]) - 1])
      <4>1. CASE R[c].div
        <5>1. Len(s) >= 2 /\ R[s[Len(s) - 1]].div /\ s[Len(s)] \in Children(s[Len(s) - 1])
          BY <3>3, <4>1, Zenon DEF IsPath
        <5>2. f[t][Len(f[t])] = s[Len(s)] /\ f[t][Len(f[t]) - 1] = s[Len(s) - 1] /\ Len(f[t]) >= 2
          BY <3>7, <5>1
        <5>3. QED BY <5>1, <5>2, Zenon
      <4>2. CASE ~R[c].div
        <5>1. Len(s) = 1 /\ s[1] = c
          BY <3>6, <4>2
        <5>2. Len(f[t]) = 2 /\ f[t][2] = c /\ f[t][1] = t
          BY <3>7, <5>1
        <5>3. QED BY <2>3, <3>1, <5>2
      <4>3. QED BY <3>6, <4>1, <4>2, Zenon
    <3>11. QED BY <3>7, <3>8, <3>9, <3>10 DEF IsPath
  <2>4. QED BY <2>1, <2>2, <2>3, Zenon
<1> HIDE DEF S
<1>2. Tuples \subseteq S
  BY <1>1, SizeInduction, Zenon
<1>3. L \subseteq Tuples
  BY DEF Tree
<1>4. QED BY <1>2, <1>3, Zenon DEF S

\* The path to h has the ranges with h; it ends in an undivided part of a divided range.
LEMMA Path ==
    ASSUME NEW R, NEW L, Tree(R, L), NEW h \in 0..MaxHash
    PROVE LET p == pathTo(R, h) IN
          /\ Len(p) \in Nat /\ Len(p) >= 2
          /\ ToSet(p) = {t \in L : Has(t, h)}
          /\ p[Len(p)] \in L /\ Has(p[Len(p)], h) /\ ~R[p[Len(p)]].div
          /\ p[Len(p) - 1] \in L /\ Has(p[Len(p) - 1], h) /\ R[p[Len(p) - 1]].div
          /\ p[Len(p)] \in Children(p[Len(p) - 1])
<1> DEFINE p == pathTo(R, h)
<1>1. topRange \in L /\ R[topRange].div /\ Has(topRange, h)
  BY DEF Tree, Has, topRange
<1>2. IsPath(R, L, h, topRange, p)
  <2>1. PICK f : /\ pathTo(R, h) = f[topRange]
                 /\ \A t \in Tuples : Has(t, h) /\ t \in DOMAIN R /\ R[t].div =>
                        f[t] = <<t>> \o f[getBottomRange(t, h)]
                 /\ \A t \in Tuples : Has(t, h) /\ ~(t \in DOMAIN R /\ R[t].div) => f[t] = <<t>>
    BY DownDef, Zenon
  <2>2. IsPath(R, L, h, topRange, f[topRange])
    BY <1>1, <2>1, PathFrom, Zenon
  <2>3. QED BY <2>1, <2>2, Zenon
<1>3. ASSUME NEW u \in L PROVE u = topRange \/ Above(R, topRange, u)
  <2>1. u \in Tuples /\ topRange \in Tuples /\ Inside(u, topRange) /\ (R[u].div => Wide(u))
    BY TopIsAbove, Zenon DEF Tree
  <2>2. ~Apart(u, topRange) /\ ~Above(R, u, topRange)
    BY <2>1, InsideFacts, NotBelow, Zenon
  <2>3. QED BY <1>1, <2>2, Zenon DEF Tree
<1> HIDE DEF p
<1>4. /\ p \in Seq(L) /\ Len(p) \in Nat /\ DOMAIN p = 1..Len(p) /\ Len(p) >= 2
      /\ ~R[p[Len(p)]].div /\ R[p[Len(p) - 1]].div /\ p[Len(p)] \in Children(p[Len(p) - 1])
  BY <1>1, <1>2 DEF IsPath
<1>5. \A u : (\E i \in 1..Len(p) : u = p[i]) <=> (u \in L /\ Has(u, h))
  BY <1>2, <1>3, Zenon DEF IsPath
<1>6. Len(p) \in 1..Len(p) /\ Len(p) - 1 \in 1..Len(p)
  BY <1>4
<1>7. ToSet(p) = {t \in L : Has(t, h)}
  <2>1. \A u : u \in ToSet(p) <=> u \in L /\ Has(u, h)
    BY <1>4, <1>5 DEF ToSet
  <2>2. QED BY <2>1, Zenon
<1>8. QED BY <1>4, <1>5, <1>6, <1>7, Zenon DEF p

-----------------------------------------------------------------------------
(* Counting the elements of a range *)

\* A range has no more elements than hashes.
LEMMA Count ==
    ASSUME NEW e, NEW t \in Tuples
    PROVE /\ IsFiniteSet(elementsIn(e, t)) /\ Cardinality(elementsIn(e, t)) \in Nat
          /\ Cardinality(elementsIn(e, t)) <= Size(t)
<1> DEFINE J == {j \in Ids : e[j] # None /\ j \in t[1]..t[2]}
           f == [i \in J |-> <<i, e[i]>>]
<1>1. t[1] \in Int /\ t[2] \in Int /\ t[1] <= t[2]
  BY TupleType
<1>2. IsFiniteSet(t[1]..t[2]) /\ Cardinality(t[1]..t[2]) = Size(t)
  <2>1. IsFiniteSet(t[1]..t[2]) /\ Cardinality(t[1]..t[2]) = IF t[1] > t[2] THEN 0 ELSE t[2] - t[1] + 1
    BY <1>1, FS_Interval, Zenon
  <2>2. QED BY <1>1, <2>1 DEF Size
<1>3. J \in SUBSET (t[1]..t[2])
  BY Zenon
<1>4. IsFiniteSet(J) /\ Cardinality(J) <= Cardinality(t[1]..t[2])
  BY <1>2, <1>3, FS_Subset, Zenon
<1>5. f \in Surjection(J, elementsIn(e, t))
  BY DEF Surjection, elementsIn
<1> HIDE DEF f, J
<1>6. IsFiniteSet(elementsIn(e, t)) /\ Cardinality(elementsIn(e, t)) <= Cardinality(J)
  BY <1>4, <1>5, FS_Surjection, Zenon
<1>7. Cardinality(J) \in Nat /\ Cardinality(elementsIn(e, t)) \in Nat
  BY <1>4, <1>6, FS_CardinalityType, Zenon
<1>8. Size(t) \in Nat
  BY TupleType, Zenon
<1>9. QED BY <1>2, <1>4, <1>6, <1>7, <1>8

\* Only a range that can be divided has too many elements.
LEMMA TooManyIsWide ==
    ASSUME NEW e, NEW t \in Tuples, tooMany(e, t)
    PROVE Wide(t)
<1>1. Cardinality(elementsIn(e, t)) <= Size(t) /\ Cardinality(elementsIn(e, t)) > CompareThreshold
      /\ Cardinality(elementsIn(e, t)) \in Nat /\ Size(t) \in Nat
  BY Count, TupleType, Zenon DEF tooMany
<1>2. QED BY <1>1, LDiffAssumption DEF Wide

\* A range without the hash h has the same elements whatever the head of h.
LEMMA ElementsElsewhere ==
    ASSUME NEW e \in Elements, NEW h \in Ids, NEW x, NEW t, ~Has(t, h)
    PROVE elementsIn([e EXCEPT ![h] = x], t) = elementsIn(e, t)
<1> DEFINE d == [e EXCEPT ![h] = x]
<1>1. \A i \in Ids : i # h => d[i] = e[i]
  BY DEF Elements
<1> HIDE DEF d
<1>2. {j \in Ids : d[j] # None /\ j \in t[1]..t[2]} = {j \in Ids : e[j] # None /\ j \in t[1]..t[2]}
  BY <1>1, Zenon DEF Has
<1>3. elementsIn(d, t) = elementsIn(e, t)
  BY <1>1, <1>2 DEF elementsIn, Has
<1>4. QED BY <1>3 DEF d

\* Setting an element adds one at most.
LEMMA CountSet ==
    ASSUME NEW e \in Elements, NEW h \in Ids, NEW x, NEW t \in Tuples
    PROVE Cardinality(elementsIn([e EXCEPT ![h] = x], t)) <= Cardinality(elementsIn(e, t)) + 1
<1> DEFINE d == [e EXCEPT ![h] = x]
<1>1. \A i \in Ids : d[i] = e[i] \/ (i = h /\ d[i] = x)
  BY DEF Elements
<1> HIDE DEF d
<1>2. elementsIn(d, t) \in SUBSET (elementsIn(e, t) \cup {<<h, x>>})
  BY <1>1 DEF elementsIn
<1> DEFINE E == elementsIn(e, t)
<1>3. IsFiniteSet(E) /\ Cardinality(E) \in Nat /\ Cardinality(elementsIn(d, t)) \in Nat
  BY Count, Zenon
<1>4. IsFiniteSet(E \cup {<<h, x>>})
      /\ Cardinality(E \cup {<<h, x>>}) = IF <<h, x>> \in E THEN Cardinality(E) ELSE Cardinality(E) + 1
  BY <1>3, FS_AddElement, Zenon
<1>5. Cardinality(elementsIn(d, t)) <= Cardinality(E \cup {<<h, x>>})
  BY <1>2, <1>4, FS_Subset, Zenon
<1>6. QED BY <1>3, <1>4, <1>5 DEF d

\* Removing an element takes one away where it was.
LEMMA CountRemove ==
    ASSUME NEW e \in Elements, NEW h \in Ids, e[h] # None, NEW t \in Tuples, Has(t, h)
    PROVE Cardinality(elementsIn([e EXCEPT ![h] = None], t)) = Cardinality(elementsIn(e, t)) - 1
<1> DEFINE d == [e EXCEPT ![h] = None]
           E == elementsIn(e, t)
<1>1. d[h] = None /\ \A i \in Ids : i # h => d[i] = e[i]
  BY DEF Elements
<1> HIDE DEF d
<1>2. elementsIn(d, t) = E \ {<<h, e[h]>>}
  BY <1>1 DEF elementsIn
<1>3. <<h, e[h]>> \in E
  BY DEF elementsIn, Has
<1>4. IsFiniteSet(E)
  BY Count, Zenon
<1> HIDE DEF E
<1>5. Cardinality(E \ {<<h, e[h]>>}) = Cardinality(E) - 1
  BY <1>3, <1>4, FS_RemoveElement, Zenon
<1>6. QED BY <1>2, <1>5 DEF d, E

-----------------------------------------------------------------------------
(* What is known of a range after a step *)

\* The fields of a range.
LEMMA RangeOf ==
    ASSUME NEW d \in BOOLEAN, NEW n \in Int, NEW v
    PROVE LET y == hashRange(d, n, v) IN IsRange(y) /\ y.div = d /\ y.n = n /\ y.hash = v
<1> DEFINE y == hashRange(d, n, v)
<1>1. y.div = d /\ y.n = n /\ y.hash = v
  BY Zenon DEF hashRange
<1> HIDE DEF y
<1>2. y = hashRange(y.div, y.n, y.hash)
  BY <1>1, Zenon DEF y
<1>3. QED BY <1>1, <1>2, Zenon DEF IsRange, y

-----------------------------------------------------------------------------
(* recalculateHashes *)

Touched(t, D) == \E h \in D : Has(t, h)

\* An undivided range does not count too many elements.
Small(R) == \A t \in DOMAIN R : ~R[t].div => R[t].n <= CompareThreshold

\* The ranges L of R tell what is in e.
Whole(e, R, L) ==
    /\ Tree(R, L) /\ Small(R)
    /\ \A t \in L : /\ Hashed(e, R, t) /\ Cardinality(elementsIn(e, t)) <= R[t].n
                    /\ ~R[t].div => R[t].n <= Size(t)

\* They do, but for those with one of the hashes in D.
Partly(e, R, L, D) ==
    /\ Tree(R, L) /\ Small(R)
    /\ \A t \in L : /\ Cardinality(elementsIn(e, t)) <= R[t].n
                    /\ ~Touched(t, D) => Hashed(e, R, t) /\ (~R[t].div => R[t].n <= Size(t))

\* A tree is one as long as the same ranges are divided.
LEMMA SameTree ==
    ASSUME NEW R, NEW L, Tree(R, L), NEW Q, DOMAIN Q = DOMAIN R,
           \A t \in DOMAIN R : IsRange(Q[t]) /\ Q[t].div = R[t].div
    PROVE Tree(Q, L)
<1>1. /\ DOMAIN R \subseteq Tuples /\ L \subseteq DOMAIN R /\ topRange \in L /\ R[topRange].div
      /\ \A t \in DOMAIN R : R[t].div => Wide(t)
      /\ \A t \in L : R[t].div => Children(t) \subseteq L
  BY Zenon DEF Tree
<1>2. \A t \in L : t \in DOMAIN R /\ Q[t].div = R[t].div
  BY <1>1, Zenon
<1>3. ASSUME NEW t \in L, NEW u \in L PROVE t = u \/ Apart(t, u) \/ Above(Q, t, u) \/ Above(Q, u, t)
  <2>1. t = u \/ Apart(t, u) \/ Above(R, t, u) \/ Above(R, u, t)
    BY Zenon DEF Tree
  <2>2. QED BY <1>2, <2>1, Zenon DEF Above
<1>4. \A t \in DOMAIN Q : IsRange(Q[t]) /\ (Q[t].div => Wide(t))
  BY <1>1, Zenon
<1>5. Q[topRange].div /\ \A t \in L : Q[t].div => Children(t) \subseteq L
  BY <1>1, <1>2, Zenon
<1>6. QED BY <1>1, <1>3, <1>4, <1>5, Zenon DEF Tree

\* Q has the ranges of R with the hashes computed anew where they are touched by D.
Anew(e, R, L, D, Q, hash) ==
    /\ DOMAIN Q = DOMAIN R
    /\ \A t \in DOMAIN R : ~(t \in L /\ Touched(t, D)) => Q[t] = R[t]
    /\ \A t \in L : Touched(t, D) =>
          Q[t] = hashRange(R[t].div, IF R[t].div THEN R[t].n ELSE Cardinality(elementsIn(e, t)), hash[t])
    /\ \A t \in L : Touched(t, D) /\ R[t].div =>
          hash[t] = calcDividedHash([c \in Children(t) |-> hash[c]], t)
    /\ \A t \in L : Touched(t, D) /\ ~R[t].div => hash[t] = calcElementsHash(e, t)
    /\ \A t \in L : ~Touched(t, D) => hash[t] = R[t].hash

\* What recalculateHashes makes of the ranges.
LEMMA RecalculateIs ==
    ASSUME NEW e, NEW R, NEW L, Tree(R, L), NEW D, D \subseteq 0..MaxHash
    PROVE \E hash : Anew(e, R, L, D, recalculateHashes(e, R, D), hash)
<1> DEFINE dirty == UNION {ToSet(pathTo(R, h)) : h \in D}
           DD == {t \in dirty : R[t].div}
           HH == [t \in Tuples |-> IF t \in dirty THEN calcElementsHash(e, t) ELSE R[t].hash]
           Q == recalculateHashes(e, R, D)
<1>1. L \subseteq DOMAIN R /\ DOMAIN R \subseteq Tuples /\ \A t \in L : R[t].div => Wide(t)
  BY Zenon DEF Tree
<1>2. \A t : t \in dirty <=> t \in L /\ Touched(t, D)
  <2>1. ASSUME NEW h \in D PROVE ToSet(pathTo(R, h)) = {t \in L : Has(t, h)}
    <3>1. h \in 0..MaxHash
      BY Zenon
    <3>2. QED BY <3>1, Path
  <2>2. \A t : t \in dirty <=> \E h \in D : t \in ToSet(pathTo(R, h))
    BY Zenon
  <2>3. QED BY <2>1, <2>2, Zenon DEF Touched
<1>3. PICK hash : hash = hashes(DD, HH)
  BY Zenon
<1>4. Q = [t \in DOMAIN R |->
             IF t \notin dirty THEN R[t]
             ELSE hashRange(R[t].div, IF R[t].div THEN R[t].n ELSE Cardinality(elementsIn(e, t)), hash[t])]
  BY <1>3, Zenon DEF recalculateHashes
<1>5. \A t \in Tuples : HH[t] = IF t \in dirty THEN calcElementsHash(e, t) ELSE R[t].hash
  BY Zenon
<1> HIDE DEF HH
<1>6. /\ \A t \in DD : hash[t] = calcDividedHash([c \in Children(t) |-> hash[c]], t)
      /\ \A t \in Tuples \ DD : hash[t] = HH[t]
  <2>1. DD \subseteq Tuples /\ \A t \in DD : Wide(t)
    BY <1>1, <1>2, Zenon
  <2> HIDE DEF DD
  <2>2. /\ \A t \in DD : hashes(DD, HH)[t] = calcDividedHash([c \in Children(t) |-> hashes(DD, HH)[c]], t)
        /\ \A t \in Tuples \ DD : hashes(DD, HH)[t] = HH[t]
    BY <2>1, HashesAre, Zenon
  <2>3. QED BY <1>3, <2>2, Zenon
<1> HIDE DEF dirty, Q
<1>7. DOMAIN Q = DOMAIN R /\ \A t \in DOMAIN R : ~(t \in L /\ Touched(t, D)) => Q[t] = R[t]
  BY <1>2, <1>4, Zenon
<1>8. \A t \in L : Touched(t, D) =>
         Q[t] = hashRange(R[t].div, IF R[t].div THEN R[t].n ELSE Cardinality(elementsIn(e, t)), hash[t])
  <2> TAKE t \in L
  <2> HAVE Touched(t, D)
  <2>1. t \in DOMAIN R /\ t \in dirty
    BY <1>1, <1>2, Zenon
  <2>2. QED BY <1>4, <2>1, Zenon
<1>9. \A t \in L : Touched(t, D) /\ R[t].div => hash[t] = calcDividedHash([c \in Children(t) |-> hash[c]], t)
  BY <1>2, <1>6, Zenon
<1>10. ASSUME NEW t \in L, ~(Touched(t, D) /\ R[t].div)
       PROVE hash[t] = IF Touched(t, D) THEN calcElementsHash(e, t) ELSE R[t].hash
  <2>1. t \in Tuples \ DD
    BY <1>1, <1>2, <1>10, Zenon
  <2>2. QED BY <1>2, <1>5, <1>6, <2>1, Zenon
<1>11. /\ \A t \in L : Touched(t, D) /\ ~R[t].div => hash[t] = calcElementsHash(e, t)
       /\ \A t \in L : ~Touched(t, D) => hash[t] = R[t].hash
  BY <1>10, Zenon
<1>12. Anew(e, R, L, D, Q, hash)
  BY <1>7, <1>8, <1>9, <1>11, Zenon DEF Anew
<1>13. QED BY <1>12, Zenon DEF Q

\* recalculateHashes puts right the ranges that were touched.
LEMMA Recalculate ==
    ASSUME NEW e, NEW R, NEW L, NEW D, D \subseteq 0..MaxHash, Partly(e, R, L, D)
    PROVE Whole(e, recalculateHashes(e, R, D), L)
<1> DEFINE Q == recalculateHashes(e, R, D)
<1>0. /\ Tree(R, L) /\ L \subseteq DOMAIN R /\ DOMAIN R \subseteq Tuples
      /\ \A t \in L : R[t].div => Wide(t) /\ Children(t) \subseteq L
      /\ \A t \in DOMAIN R : IsRange(R[t])
  BY Zenon DEF Partly, Tree
<1>10. PICK hash : Anew(e, R, L, D, Q, hash)
  BY <1>0, RecalculateIs, Zenon
<1> HIDE DEF Q
<1>1.
          /\ DOMAIN Q = DOMAIN R
          /\ \A t \in DOMAIN R : ~(t \in L /\ Touched(t, D)) => Q[t] = R[t]
          /\ \A t \in L : Touched(t, D) =>
                Q[t] = hashRange(R[t].div, IF R[t].div THEN R[t].n ELSE Cardinality(elementsIn(e, t)), hash[t])
          /\ \A t \in L : Touched(t, D) /\ R[t].div =>
                hash[t] = calcDividedHash([c \in Children(t) |-> hash[c]], t)
          /\ \A t \in L : Touched(t, D) /\ ~R[t].div => hash[t] = calcElementsHash(e, t)
          /\ \A t \in L : ~Touched(t, D) => hash[t] = R[t].hash
  BY <1>10, Zenon DEF Anew
<1>2. ASSUME NEW t \in L, Touched(t, D)
      PROVE /\ IsRange(Q[t]) /\ Q[t].div = R[t].div /\ Q[t].hash = hash[t]
            /\ Q[t].n = IF R[t].div THEN R[t].n ELSE Cardinality(elementsIn(e, t))
  <2>1. PICK n : n = IF R[t].div THEN R[t].n ELSE Cardinality(elementsIn(e, t))
    BY Zenon
  <2>2. t \in Tuples /\ R[t].div \in BOOLEAN /\ R[t].n \in Int
    BY <1>0, Zenon DEF IsRange
  <2>3. Cardinality(elementsIn(e, t)) \in Int
    BY <2>2, Count
  <2>4. n \in Int
    BY <2>1, <2>2, <2>3, Zenon
  <2>5. Q[t] = hashRange(R[t].div, n, hash[t])
    BY <1>1, <1>2, <2>1, Zenon
  <2>6. PICK y : y = hashRange(R[t].div, n, hash[t])
    BY Zenon
  <2>7. IsRange(y) /\ y.div = R[t].div /\ y.n = n /\ y.hash = hash[t]
    BY <2>2, <2>4, <2>6, RangeOf
  <2>8. QED BY <2>1, <2>5, <2>6, <2>7, Zenon
<1>3. \A t \in DOMAIN R : IsRange(Q[t]) /\ Q[t].div = R[t].div
  BY <1>0, <1>1, <1>2, Zenon
<1>4. Tree(Q, L)
  BY <1>0, <1>1, <1>3, SameTree, Zenon
<1>5. \A t \in L : Q[t].hash = hash[t]
  BY <1>0, <1>1, <1>2, Zenon
<1>6. ASSUME NEW t \in L PROVE Hashed(e, Q, t)
  <2>1. t \in Tuples /\ R[t].div \in BOOLEAN /\ Q[t].div = R[t].div /\ Q[t].hash = hash[t]
    BY <1>0, <1>3, <1>5, Zenon DEF IsRange
  <2>2. CASE R[t].div
    <3>1. [c \in Children(t) |-> Q[c].hash] = [c \in Children(t) |-> hash[c]]
      BY <1>0, <1>5, <2>2, Zenon
    <3>2. CASE Touched(t, D)
      BY <1>1, <2>1, <2>2, <3>1, <3>2, Zenon DEF Hashed
    <3>3. CASE ~Touched(t, D)
      <4>1. \A c \in Children(t) : c \in L /\ ~Touched(c, D)
        <5> TAKE c \in Children(t)
        <5>1. c \in L /\ c \in Tuples /\ Inside(c, t)
          BY <1>0, <2>1, <2>2, ChildrenOf, Zenon
        <5>2. \A h \in Int : Has(c, h) => Has(t, h)
          BY <2>1, <5>1, InsideFacts, Zenon
        <5>3. \A h \in D : h \in Int
          BY LDiffAssumption
        <5>4. QED BY <3>3, <5>1, <5>2, <5>3, Zenon DEF Touched
      <4>2. [c \in Children(t) |-> R[c].hash] = [c \in Children(t) |-> hash[c]]
        BY <1>1, <4>1, Zenon
      <4>3. Hashed(e, R, t) /\ hash[t] = R[t].hash
        BY <1>1, <3>3, Zenon DEF Partly
      <4>4. QED BY <2>1, <2>2, <3>1, <4>2, <4>3, Zenon DEF Hashed
    <3>4. QED BY <3>2, <3>3, Zenon
  <2>3. CASE ~R[t].div
    <3>1. CASE Touched(t, D)
      BY <1>1, <2>1, <2>3, <3>1, Zenon DEF Hashed
    <3>2. CASE ~Touched(t, D)
      <4>1. Hashed(e, R, t) /\ hash[t] = R[t].hash
        BY <1>1, <3>2, Zenon DEF Partly
      <4>2. QED BY <2>1, <2>3, <4>1, Zenon DEF Hashed
    <3>3. QED BY <3>1, <3>2, Zenon
  <2>4. QED BY <2>1, <2>2, <2>3, Zenon
<1>7. ASSUME NEW t \in L
      PROVE Cardinality(elementsIn(e, t)) <= Q[t].n /\ (~Q[t].div => Q[t].n <= Size(t))
  <2>1. t \in Tuples /\ t \in DOMAIN R /\ Q[t].div = R[t].div /\ R[t].div \in BOOLEAN
    BY <1>0, <1>3, Zenon DEF IsRange
  <2>2. Cardinality(elementsIn(e, t)) <= R[t].n
    BY Zenon DEF Partly
  <2>3. Cardinality(elementsIn(e, t)) \in Nat /\ Cardinality(elementsIn(e, t)) <= Size(t)
    BY <2>1, Count, Zenon
  <2>4. CASE Touched(t, D) /\ R[t].div
    BY <1>2, <2>1, <2>2, <2>4, Zenon
  <2>5. CASE Touched(t, D) /\ ~R[t].div
    <3>1. Q[t].n = Cardinality(elementsIn(e, t))
      BY <1>2, <2>5, Zenon
    <3>2. QED BY <2>3, <3>1
  <2>6. CASE ~Touched(t, D)
    <3>1. Q[t] = R[t] /\ (~R[t].div => R[t].n <= Size(t))
      BY <1>1, <2>1, <2>6, Zenon DEF Partly
    <3>2. QED BY <2>2, <3>1, Zenon
  <2>7. QED BY <2>1, <2>4, <2>5, <2>6, Zenon
<1>8. Small(Q)
  <2> SUFFICES ASSUME NEW t \in DOMAIN R, ~Q[t].div PROVE Q[t].n <= CompareThreshold
    BY <1>1, Zenon DEF Small
  <2>1. ~R[t].div /\ R[t].n <= CompareThreshold /\ R[t].n \in Int
    BY <1>0, <1>3, Zenon DEF Partly, Small, IsRange
  <2>2. CASE t \in L /\ Touched(t, D)
    <3>1. Q[t].n = Cardinality(elementsIn(e, t)) /\ Cardinality(elementsIn(e, t)) <= R[t].n
      BY <1>2, <2>1, <2>2, Zenon DEF Partly
    <3>2. Cardinality(elementsIn(e, t)) \in Nat
      BY <1>0, <2>2, Count, Zenon
    <3>3. QED BY <2>1, <3>1, <3>2, LDiffAssumption
  <2>3. CASE ~(t \in L /\ Touched(t, D))
    BY <1>1, <2>1, <2>3, Zenon
  <2>4. QED BY <2>2, <2>3, Zenon
<1>9. QED BY <1>4, <1>6, <1>7, <1>8, Zenon DEF Whole, Q

-----------------------------------------------------------------------------
(* removeElement *)

\* The ranges of L that are not inside a part of t.
Without(L, t) == {u \in L : ~\E c \in Children(t) : Inside(u, c)}

\* The ranges without those below a range that is no longer divided are a tree.
LEMMA JoinedTree ==
    ASSUME NEW R, NEW L, Tree(R, L), NEW p \in L, p # topRange, R[p].div,
           NEW Q, DOMAIN Q = DOMAIN R \ Children(p), ~Q[p].div,
           \A t \in DOMAIN Q : IsRange(Q[t]) /\ (t # p => Q[t].div = R[t].div)
    PROVE /\ Tree(Q, Without(L, p)) /\ p \in Without(L, p)
          /\ \A t \in Without(L, p) : Q[t].div => Children(t) \subseteq Without(L, p)
<1> DEFINE M == Without(L, p)
<1>1. /\ DOMAIN R \subseteq Tuples /\ L \subseteq DOMAIN R /\ topRange \in L /\ R[topRange].div
      /\ \A t \in DOMAIN R : R[t].div => Wide(t)
      /\ \A t \in L : R[t].div => Children(t) \subseteq L
      /\ \A t, u \in L : t = u \/ Apart(t, u) \/ Above(R, t, u) \/ Above(R, u, t)
  BY Zenon DEF Tree
<1>2. p \in Tuples /\ Wide(p) /\ Children(p) \subseteq L
  BY <1>1, Zenon
<1>3. \A c \in Children(p) : c \in Tuples /\ Inside(c, p) /\ Size(c) < Size(p) /\ c \in L
  BY <1>2, ChildrenOf, Zenon
<1>4. \A c \in Children(p) : Inside(c, c)
  BY <1>3, TupleType DEF Inside
<1>5. \A t \in M : t \in L /\ t \in DOMAIN Q /\ t \in Tuples /\ ~\E c \in Children(p) : Inside(t, c)
  BY <1>1, <1>4, Zenon DEF Without
<1>6. \A t \in Tuples : Inside(p, t) => \A c \in Children(p) : ~Inside(t, c)
  <2> TAKE t \in Tuples
  <2> HAVE Inside(p, t)
  <2> TAKE c \in Children(p)
  <2>1. c \in Tuples /\ Size(c) < Size(p) /\ Size(c) \in Int /\ Size(p) \in Int /\ Size(t) \in Int
    BY <1>2, <1>3, TupleType
  <2>2. Size(p) <= Size(t)
    BY <1>2, InsideFacts, Zenon
  <2>3. Inside(t, c) => Size(t) <= Size(c)
    BY <2>1, InsideFacts, Zenon
  <2>4. QED BY <2>1, <2>2, <2>3
<1>7. topRange \in M /\ p \in M
  <2>1. topRange \in Tuples /\ Inside(p, topRange) /\ Inside(p, p)
    BY <1>2, TopIsAbove, TupleType DEF Inside
  <2>2. QED BY <1>1, <1>2, <1>6, <2>1, Zenon DEF Without
<1>8. ASSUME NEW t \in M, t # p, R[t].div, NEW c \in Children(t), NEW d \in Children(p), Inside(c, d)
      PROVE FALSE
  <2>1. t \in L /\ t \in Tuples /\ Wide(t) /\ Children(t) \subseteq L /\ d \in Tuples /\ Inside(d, p)
    BY <1>1, <1>3, <1>5, <1>8, Zenon
  <2>2. c \in L /\ c \in Tuples /\ Inside(c, t) /\ Inside(c, p)
    <3>1. c \in L /\ c \in Tuples /\ Inside(c, t)
      BY <2>1, ChildrenOf, Zenon
    <3>2. QED BY <1>2, <1>8, <2>1, <3>1, InsideFacts, Zenon
  <2>3. ~Apart(t, p)
    BY <1>2, <2>1, <2>2, TupleType DEF Apart, Inside
  <2>4. ~Above(R, p, t)
    BY <1>5, Zenon DEF Above
  <2>5. Above(R, t, p)
    BY <1>1, <1>8, <2>1, <2>3, <2>4, Zenon
  <2>6. PICK b \in Children(t) : Inside(p, b)
    BY <2>5, Zenon DEF Above
  <2>7. b \in Tuples
    BY <2>1, ChildrenOf, Zenon
  <2>8. c[1] \in Int /\ Has(c, c[1])
    BY <2>2, TupleType DEF Has
  <2>9. Has(b, c[1])
    <3>1. Inside(c, b)
      BY <1>2, <2>2, <2>6, <2>7, InsideFacts, Zenon
    <3>2. QED BY <2>2, <2>7, <2>8, <3>1, InsideFacts, Zenon
  <2>10. b = c
    BY <2>1, <2>8, <2>9, ChildrenOf, Zenon
  <2>11. QED BY <1>6, <1>8, <2>2, <2>6, <2>10, Zenon
<1>9. \A t \in M : Q[t].div => t # p /\ R[t].div /\ Children(t) \subseteq M
  <2> TAKE t \in M
  <2> HAVE Q[t].div
  <2>1. t # p /\ R[t].div
    BY <1>5, Zenon
  <2>2. Children(t) \subseteq L
    BY <1>1, <1>5, <2>1, Zenon
  <2>3. QED BY <1>8, <2>1, <2>2, Zenon DEF Without
<1>10. \A t, u \in M : t = u \/ Apart(t, u) \/ Above(Q, t, u) \/ Above(Q, u, t)
  <2> TAKE t, u \in M
  <2>1. t = u \/ Apart(t, u) \/ Above(R, t, u) \/ Above(R, u, t)
    BY <1>1, <1>5, Zenon
  <2>2. ASSUME NEW v \in M, NEW w \in M, Above(R, v, w) PROVE Above(Q, v, w)
    <3>1. v # p
      BY <1>5, <2>2, Zenon DEF Above
    <3>2. Q[v].div = R[v].div
      BY <1>5, <3>1, Zenon
    <3>3. QED BY <2>2, <3>2, Zenon DEF Above
  <2>3. QED BY <2>1, <2>2, Zenon
<1>11. \A t \in DOMAIN Q : IsRange(Q[t]) /\ (Q[t].div => Wide(t))
  BY <1>1, Zenon
<1>12. Q[topRange].div /\ DOMAIN Q \subseteq Tuples /\ M \subseteq DOMAIN Q
  BY <1>1, <1>5, <1>7, Zenon
<1>13. Tree(Q, M)
  BY <1>7, <1>9, <1>10, <1>11, <1>12, Zenon DEF Tree
<1>14. QED BY <1>7, <1>9, <1>13, Zenon

\* What removeElement makes of the ranges.
Shrunk(R, L, h, Q, p, join) ==
    /\ Has(p, h) /\ R[p].div /\ (join => p # topRange /\ R[p].n - 1 <= CompareThreshold)
    /\ DOMAIN Q = IF join THEN DOMAIN R \ Children(p) ELSE DOMAIN R
    /\ \A t \in DOMAIN Q : t \in L /\ Has(t, h) =>
          Q[t] = hashRange(R[t].div /\ ~(join /\ t = p), R[t].n - 1, R[t].hash)
    /\ \A t \in DOMAIN Q : ~(t \in L /\ Has(t, h)) => Q[t] = R[t]

\* removeElement shrinks the ranges in that way.
LEMMA RemoveIs ==
    ASSUME NEW R, NEW L, Tree(R, L), NEW h \in 0..MaxHash
    PROVE \E p \in L, join \in BOOLEAN : Shrunk(R, L, h, removeElement(R, h), p, join)
<1> DEFINE path == pathTo(R, h)
           dirty == ToSet(path)
           p == path[Len(path) - 1]
           join == R[p].n - 1 <= CompareThreshold /\ p # topRange
           Q == removeElement(R, h)
<1>1. p \in L /\ Has(p, h) /\ R[p].div /\ dirty = {t \in L : Has(t, h)}
  BY Path
<1>2. join \in BOOLEAN
  BY Zenon
<1>3. Q = [t \in IF join THEN DOMAIN R \ Children(p) ELSE DOMAIN R |->
             IF t \in dirty
             THEN hashRange(R[t].div /\ ~(join /\ t = p), R[t].n - 1, R[t].hash)
             ELSE R[t]]
  BY Zenon DEF removeElement
<1>4. join => p # topRange /\ R[p].n - 1 <= CompareThreshold
  BY Zenon
<1> HIDE DEF join, p, dirty, Q
<1>5. /\ DOMAIN Q = IF join THEN DOMAIN R \ Children(p) ELSE DOMAIN R
      /\ \A t \in DOMAIN Q : t \in dirty =>
            Q[t] = hashRange(R[t].div /\ ~(join /\ t = p), R[t].n - 1, R[t].hash)
      /\ \A t \in DOMAIN Q : t \notin dirty => Q[t] = R[t]
  BY <1>3, Zenon
<1>6. \A t : t \in dirty <=> t \in L /\ Has(t, h)
  BY <1>1, Zenon
<1>7. /\ \A t \in DOMAIN Q : t \in L /\ Has(t, h) =>
            Q[t] = hashRange(R[t].div /\ ~(join /\ t = p), R[t].n - 1, R[t].hash)
      /\ \A t \in DOMAIN Q : ~(t \in L /\ Has(t, h)) => Q[t] = R[t]
  BY <1>5, <1>6, Zenon
<1>8. Shrunk(R, L, h, Q, p, join)
  BY <1>1, <1>4, <1>5, <1>7, Zenon DEF Shrunk
<1>9. QED BY <1>1, <1>2, <1>8, Zenon DEF Q

\* A range that is not touched stays hashed.
LEMMA StaysHashed ==
    ASSUME NEW e \in Elements, NEW h \in Ids, NEW x, NEW R, NEW t \in Tuples, ~Has(t, h),
           R[t].div => Wide(t), Hashed(e, R, t),
           NEW Q, Q[t] = R[t], R[t].div => \A c \in Children(t) : ~Has(c, h) => Q[c].hash = R[c].hash
    PROVE Hashed([e EXCEPT ![h] = x], Q, t)
<1>1. elementsIn([e EXCEPT ![h] = x], t) = elementsIn(e, t)
  BY ElementsElsewhere
<1>2. calcElementsHash([e EXCEPT ![h] = x], t) = calcElementsHash(e, t)
  BY <1>1, Zenon DEF calcElementsHash
<1>3. ASSUME R[t].div PROVE [c \in Children(t) |-> Q[c].hash] = [c \in Children(t) |-> R[c].hash]
  <2>1. h \in Int
    BY LDiffAssumption
  <2>2. \A c \in Children(t) : ~Has(c, h)
    <3> TAKE c \in Children(t)
    <3>1. c \in Tuples /\ Inside(c, t)
      BY <1>3, ChildrenOf, Zenon
    <3>2. QED BY <2>1, <3>1, InsideFacts, Zenon
  <2>3. QED BY <1>3, <2>2, Zenon
<1> DEFINE d == [e EXCEPT ![h] = x]
<1> HIDE DEF d
<1>4. calcElementsHash(d, t) = calcElementsHash(e, t)
  BY <1>2 DEF d
<1>5. Hashed(d, Q, t)
  BY <1>3, <1>4, Zenon DEF Hashed
<1>6. QED BY <1>5 DEF d

\* After removeElement only the ranges with the removed element are not right yet.
LEMMA Remove ==
    ASSUME NEW e \in Elements, NEW h \in Ids, e[h] # None, NEW R, NEW L, Whole(e, R, L)
    PROVE \E M : Partly([e EXCEPT ![h] = None], removeElement(R, h), M, {h})
<1> DEFINE Q == removeElement(R, h)
           d == [e EXCEPT ![h] = None]
<1>1. /\ Tree(R, L) /\ L \subseteq DOMAIN R /\ DOMAIN R \subseteq Tuples
      /\ \A t \in L : R[t].div => Wide(t) /\ Children(t) \subseteq L
      /\ \A t \in DOMAIN R : IsRange(R[t])
  BY Zenon DEF Whole, Tree
<1>2. h \in 0..MaxHash /\ h \in Int
  BY LDiffAssumption
<1>0. PICK p \in L, join \in BOOLEAN : Shrunk(R, L, h, Q, p, join)
  BY <1>1, <1>2, RemoveIs
<1> HIDE DEF Q
<1>3. /\ Has(p, h) /\ R[p].div /\ (join => p # topRange /\ R[p].n - 1 <= CompareThreshold)
      /\ DOMAIN Q = IF join THEN DOMAIN R \ Children(p) ELSE DOMAIN R
      /\ \A t \in DOMAIN Q : t \in L /\ Has(t, h) =>
            Q[t] = hashRange(R[t].div /\ ~(join /\ t = p), R[t].n - 1, R[t].hash)
      /\ \A t \in DOMAIN Q : ~(t \in L /\ Has(t, h)) => Q[t] = R[t]
  BY <1>0, Zenon DEF Shrunk
<1>4. \A t \in DOMAIN Q : t \in DOMAIN R /\ t \in Tuples
  BY <1>1, <1>3, Zenon
<1>5. ASSUME NEW t \in DOMAIN Q, t \in L, Has(t, h)
      PROVE /\ IsRange(Q[t]) /\ Q[t].n = R[t].n - 1
            /\ Q[t].div = (R[t].div /\ ~(join /\ t = p))
  <2>1. PICK n, div : n = R[t].n - 1 /\ div = (R[t].div /\ ~(join /\ t = p))
    BY Zenon
  <2>2. R[t].n \in Int /\ R[t].div \in BOOLEAN
    BY <1>1, <1>4, Zenon DEF IsRange
  <2>3. n \in Int /\ div \in BOOLEAN
    BY <2>1, <2>2
  <2>4. Q[t] = hashRange(div, n, R[t].hash)
    BY <1>3, <1>5, <2>1, Zenon
  <2>5. PICK y : y = hashRange(div, n, R[t].hash)
    BY Zenon
  <2>6. IsRange(y) /\ y.div = div /\ y.n = n
    BY <2>3, <2>5, RangeOf
  <2>7. QED BY <2>1, <2>4, <2>5, <2>6, Zenon
<1>6. \A t \in DOMAIN Q : IsRange(Q[t]) /\ (~(join /\ t = p) => Q[t].div = R[t].div)
  <2> TAKE t \in DOMAIN Q
  <2>1. CASE t \in L /\ Has(t, h)
    <3>1. R[t].div \in BOOLEAN
      BY <1>1, <1>4, Zenon DEF IsRange
    <3>2. QED BY <1>5, <2>1, <3>1, Zenon
  <2>2. CASE ~(t \in L /\ Has(t, h))
    BY <1>1, <1>3, <1>4, <2>2, Zenon
  <2>3. QED BY <2>1, <2>2, Zenon
<1>7. PICK M : M \subseteq L /\ Tree(Q, M)
  <2>1. CASE ~join
    <3>1. DOMAIN Q = DOMAIN R /\ \A t \in DOMAIN R : IsRange(Q[t]) /\ Q[t].div = R[t].div
      BY <1>3, <1>6, <2>1, Zenon
    <3>2. Tree(Q, L)
      BY <1>1, <3>1, SameTree, Zenon
    <3>3. QED BY <3>2, Zenon
  <2>2. CASE join
    <3>1. DOMAIN Q = DOMAIN R \ Children(p) /\ p # topRange
      BY <1>3, <2>2, Zenon
    <3>2. p \in DOMAIN Q
      <4>1. p \in Tuples /\ Wide(p)
        BY <1>1, <1>3, Zenon
      <4>2. \A c \in Children(p) : Size(c) < Size(p)
        BY <4>1, ChildrenOf, Zenon
      <4>3. Size(p) \in Nat
        BY <4>1, TupleType, Zenon
      <4>4. p \notin Children(p)
        BY <4>2, <4>3
      <4>5. QED BY <1>1, <3>1, <4>4, Zenon
    <3>3. ~Q[p].div
      BY <1>3, <1>5, <2>2, <3>2, Zenon
    <3>4. \A t \in DOMAIN Q : IsRange(Q[t]) /\ (t # p => Q[t].div = R[t].div)
      BY <1>6, Zenon
    <3>5. Tree(Q, Without(L, p))
      BY <1>1, <1>3, <3>1, <3>3, <3>4, JoinedTree, Zenon
    <3>6. QED BY <3>5, Zenon DEF Without
  <2>3. QED BY <2>1, <2>2, Zenon
<1>8. M \subseteq DOMAIN Q /\ \A t \in M : Q[t].div => Children(t) \subseteq M
  BY <1>7, Zenon DEF Tree
<1>9. ASSUME NEW t \in M PROVE Cardinality(elementsIn(d, t)) <= Q[t].n
  <2>1. t \in L /\ t \in DOMAIN Q /\ t \in Tuples
    BY <1>4, <1>7, <1>8, Zenon
  <2>2. Cardinality(elementsIn(e, t)) <= R[t].n
    BY <2>1, Zenon DEF Whole
  <2>3. CASE Has(t, h)
    <3>1. Cardinality(elementsIn(d, t)) = Cardinality(elementsIn(e, t)) - 1
      BY <2>1, <2>3, CountRemove, Zenon
    <3>2. Q[t].n = R[t].n - 1 /\ R[t].n \in Int /\ Cardinality(elementsIn(e, t)) \in Int
      <4>1. Cardinality(elementsIn(e, t)) \in Nat
        BY <2>1, Count, Zenon
      <4>2. R[t].n \in Int
        BY <1>1, <2>1, Zenon DEF IsRange
      <4>3. Q[t].n = R[t].n - 1
        BY <1>5, <2>1, <2>3, Zenon
      <4>4. QED BY <4>1, <4>2, <4>3
    <3> HIDE DEF d
    <3>3. QED BY <2>2, <3>1, <3>2
  <2>4. CASE ~Has(t, h)
    <3>1. elementsIn(d, t) = elementsIn(e, t)
      BY <2>4, ElementsElsewhere
    <3> HIDE DEF d
    <3>2. QED BY <1>3, <2>1, <2>2, <2>4, <3>1, Zenon
  <2>5. QED BY <2>3, <2>4, Zenon
<1>10. ASSUME NEW t \in M, ~Touched(t, {h})
       PROVE Hashed(d, Q, t) /\ (~Q[t].div => Q[t].n <= Size(t))
  <2>1. t \in L /\ t \in DOMAIN Q /\ t \in Tuples /\ ~Has(t, h) /\ Q[t] = R[t]
    BY <1>3, <1>4, <1>7, <1>8, <1>10, Zenon DEF Touched
  <2>2. Hashed(e, R, t) /\ (~R[t].div => R[t].n <= Size(t)) /\ (R[t].div => Wide(t))
    BY <1>1, <2>1, Zenon DEF Whole
  <2>3. R[t].div => \A c \in Children(t) : ~Has(c, h) => Q[c].hash = R[c].hash
    BY <1>3, <1>8, <2>1, Zenon
  <2>4. Hashed(d, Q, t)
    BY <2>1, <2>2, <2>3, StaysHashed, Zenon
  <2>5. QED BY <2>1, <2>2, <2>4, Zenon
<1> HIDE DEF d
<1>11. Small(Q)
  <2> SUFFICES ASSUME NEW t \in DOMAIN Q, ~Q[t].div PROVE Q[t].n <= CompareThreshold
    BY Zenon DEF Small
  <2>1. t \in DOMAIN R /\ R[t].n \in Int /\ R[t].div \in BOOLEAN /\ (~R[t].div => R[t].n <= CompareThreshold)
    BY <1>1, <1>4, Zenon DEF Whole, Small, IsRange
  <2>2. CASE t \in L /\ Has(t, h)
    <3>1. Q[t].n = R[t].n - 1 /\ (R[t].div => join /\ t = p)
      BY <1>5, <2>1, <2>2, Zenon
    <3>2. CASE R[t].div
      BY <1>3, <3>1, <3>2, Zenon
    <3>3. CASE ~R[t].div
      BY <2>1, <3>1, <3>3, LDiffAssumption
    <3>4. QED BY <3>2, <3>3
  <2>3. CASE ~(t \in L /\ Has(t, h))
    BY <1>3, <2>1, <2>3, Zenon
  <2>4. QED BY <2>2, <2>3, Zenon
<1>12. Partly(d, Q, M, {h})
  BY <1>7, <1>9, <1>10, <1>11, Zenon DEF Partly
<1>13. QED BY <1>12, Zenon DEF d, Q

-----------------------------------------------------------------------------
(* makeBottomRanges *)

\* A range that cannot be divided has no part with too many elements.
LEMMA NarrowParts ==
    ASSUME NEW e, NEW t \in Tuples, ~Wide(t), NEW c \in Children(t)
    PROVE ~tooMany(e, c)
<1> DEFINE n == Size(t)
           q == n \div DivideFactor
           r == n % DivideFactor
<1>1. n \in Nat /\ n < DivideFactor /\ DivideFactor \in Nat /\ DivideFactor >= 1
  BY LDiffAssumption, TupleType DEF Wide
<1>2. q \in Nat /\ r \in 0..DivideFactor - 1 /\ n = DivideFactor * q + r
  BY <1>1, DivMod
<1>3. q = 0 /\ r = n
  <2> HIDE DEF n, q, r
  <2>1. CASE q >= 1
    <3>1. 1 * DivideFactor <= q * DivideFactor
      BY <1>1, <1>2, <2>1, TimesMonotone
    <3> DEFINE m == q * DivideFactor
    <3>2. m = DivideFactor * q /\ m \in Int
      BY <1>1, <1>2
    <3> HIDE DEF m
    <3>3. 1 * DivideFactor <= m
      BY <3>1 DEF m
    <3>4. QED BY <1>1, <1>2, <3>2, <3>3
  <2>2. CASE q = 0
    BY <1>1, <1>2, <2>2
  <2>3. QED BY <1>2, <2>1, <2>2
<1>4. t[1] \in Int /\ t[2] \in Int /\ n = t[2] - t[1] + 1
  BY TupleType DEF Size
<1>5. PICK i \in 1..DivideFactor : c = genTupleRanges(t)[i]
  BY Zenon DEF Children
<1>6. c = <<t[1] + (i - 1) * q, t[1] - 1 + i * q + IF i = DivideFactor THEN r ELSE 0>>
  BY <1>5 DEF genTupleRanges, Size
<1> HIDE DEF q, r
<1>7. c = <<t[1] + (i - 1) * 0, t[1] - 1 + i * 0 + IF i = DivideFactor THEN n ELSE 0>>
  BY <1>3, <1>6
<1> HIDE DEF n
<1>8. c = <<t[1], t[1] - 1>> \/ c = <<t[1], t[2]>>
  <2>1. /\ t[1] + (i - 1) * 0 = t[1] /\ t[1] - 1 + i * 0 + 0 = t[1] - 1
        /\ t[1] - 1 + i * 0 + n = t[2]
    BY <1>1, <1>4
  <2>2. CASE i = DivideFactor
    BY <1>7, <2>1, <2>2
  <2>3. CASE i # DivideFactor
    BY <1>7, <2>1, <2>3
  <2>4. QED BY <2>2, <2>3
<1>9. CASE c = <<t[1], t[1] - 1>>
  <2>1. elementsIn(e, c) = {}
    BY <1>4, <1>9, LDiffAssumption DEF elementsIn
  <2>2. Cardinality(elementsIn(e, c)) = 0
    BY <2>1, FS_EmptySet, Zenon
  <2>3. QED BY <2>2, LDiffAssumption DEF tooMany
<1>10. CASE c = <<t[1], t[2]>>
  <2>1. c = t
    BY <1>10, TupleType, Zenon
  <2>2. QED BY <2>1, TooManyIsWide, Zenon
<1>11. QED BY <1>8, <1>9, <1>10, Zenon

\* The ranges f[t] that are made below t.
IsBelow(e, f) ==
    \A t \in Tuples : f[t] = Children(t) \cup UNION {f[c] : c \in {x \in Children(t) : tooMany(e, x)}}

\* rangesToMake is the function that its equation defines.
LEMMA BelowDef ==
    ASSUME NEW e
    PROVE \E f : IsBelow(e, f) /\ \A t : rangesToMake(e, t) = f[t]
<1> DEFINE Def(g, t) == Children(t) \cup UNION {g[c] : c \in {x \in Children(t) : tooMany(e, x)}}
           Up(n) == {t \in Tuples : Size(t) <= n}
           Rec(g, n) == [t \in Up(n) |-> Def(g, t)]
           S == {n \in Nat : \E g : g = Rec(g, n)}
<1>0. MaxHash + 1 \in Nat
  BY LDiffAssumption
<1>1. 0 \in S
  <2>1. Up(0) = {}
    BY TupleType
  <2>2. [t \in Up(0) |-> Def(0, t)] = Rec([t \in Up(0) |-> Def(0, t)], 0)
    BY <2>1
  <2>3. QED BY <2>2
<1>2. ASSUME NEW i \in 1..MaxHash + 1, i - 1 \in S PROVE i \in S
  <2>1. PICK g : g = Rec(g, i - 1)
    BY <1>2
  <2> DEFINE f == [t \in Up(i) |-> Def(g, t)]
  <2>2. ASSUME NEW t \in Up(i) PROVE Def(f, t) = Def(g, t)
    <3>1. ASSUME NEW c \in Children(t), tooMany(e, c) PROVE f[c] = g[c]
      <4>1. t \in Tuples /\ Wide(t)
        BY <3>1, NarrowParts, Zenon
      <4>2. c \in Tuples /\ Size(c) < Size(t)
        BY <4>1, ChildrenOf, Zenon
      <4>3. Size(t) <= i /\ Size(c) \in Nat /\ Size(t) \in Nat
        BY <4>1, <4>2, TupleType
      <4>4. c \in Up(i - 1) /\ c \in Up(i)
        BY <1>0, <4>2, <4>3
      <4>5. f[c] = Def(g, c)
        BY <4>4, Zenon
      <4>6. g[c] = Def(g, c)
        BY <2>1, <4>4, Zenon
      <4>7. QED BY <4>5, <4>6, Zenon
    <3> HIDE DEF f
    <3>2. QED BY <3>1, Zenon
  <2> HIDE DEF Def
  <2>3. f = Rec(f, i)
    BY <2>2, Zenon
  <2>4. i \in Nat
    OBVIOUS
  <2> HIDE DEF Rec, f
  <2>5. QED BY <2>3, <2>4, Zenon
<1> HIDE DEF Def, S
<1>3. 0..MaxHash + 1 \subseteq S
  BY <1>0, <1>1, <1>2, RangeInduction, Zenon
<1>4. \E g : g = Rec(g, MaxHash + 1)
  <2>1. MaxHash + 1 \in S
    BY <1>0, <1>3
  <2>2. QED BY <2>1, Zenon DEF S
<1>5. Up(MaxHash + 1) = Tuples
  BY TupleType
<1>6. \E g : g = [t \in Tuples |-> Def(g, t)]
  BY <1>4, <1>5, Zenon
<1>7. PICK f : f = CHOOSE g : g = [t \in Tuples |-> Def(g, t)]
  OBVIOUS
<1>8. f = [t \in Tuples |-> Def(f, t)]
  BY <1>6, <1>7, Zenon
<1>9. IsBelow(e, f)
  <2>1. \A t \in Tuples : f[t] = Def(f, t)
    BY <1>8, Zenon
  <2>2. QED BY <2>1 DEF Def, IsBelow
<1>10. \A t : rangesToMake(e, t) = f[t]
  BY <1>7, Zenon DEF rangesToMake, Def
<1>11. QED BY <1>9, <1>10, Zenon

\* The ranges B made below t are inside its parts; those with too many elements have their
\* own parts in B, and the others none.
Made(e, t, B) ==
    /\ \A b \in B : b \in Tuples /\ \E c \in Children(t) : Inside(b, c)
    /\ Children(t) \subseteq B
    /\ \A b \in B : tooMany(e, b) => Children(b) \subseteq B
    /\ \A a, b \in B : \/ a = b \/ Apart(a, b)
                       \/ tooMany(e, a) /\ \E c \in Children(a) : Inside(b, c)
                       \/ tooMany(e, b) /\ \E c \in Children(b) : Inside(a, c)

\* The ranges made below a wide range are a tree of their own.
LEMMA BelowIs ==
    ASSUME NEW e, NEW f, IsBelow(e, f)
    PROVE \A t \in Tuples : Wide(t) => Made(e, t, f[t])
<1> DEFINE S == {t \in Tuples : Wide(t) => Made(e, t, f[t])}
<1>1. ASSUME NEW t \in Tuples, \A u \in Tuples : Size(u) < Size(t) => u \in S PROVE t \in S
  <2> SUFFICES ASSUME Wide(t) PROVE Made(e, t, f[t])
    BY Zenon
  <2> DEFINE At(b, c) == b = c \/ (tooMany(e, c) /\ b \in f[c])
  <2>1. \A c \in Children(t) : c \in Tuples /\ Size(c) < Size(t) /\ Inside(c, c)
    <3>1. \A c \in Children(t) : c \in Tuples /\ Size(c) < Size(t)
      BY ChildrenOf, Zenon
    <3>2. QED BY <3>1, TupleType DEF Inside
  <2>2. \A c \in Children(t) : tooMany(e, c) => Wide(c) /\ Made(e, c, f[c]) /\ f[c] \subseteq f[t]
    <3> TAKE c \in Children(t)
    <3> HAVE tooMany(e, c)
    <3>1. Wide(c) /\ Made(e, c, f[c])
      BY <1>1, <2>1, TooManyIsWide, Zenon
    <3>2. f[c] \subseteq f[t]
      BY Zenon DEF IsBelow
    <3>3. QED BY <3>1, <3>2
  <2>3. \A b : b \in f[t] <=> \E c \in Children(t) : At(b, c)
    <3>1. f[t] = Children(t) \cup UNION {f[c] : c \in {x \in Children(t) : tooMany(e, x)}}
      BY Zenon DEF IsBelow
    <3>2. QED BY <3>1, Zenon
  <2>4. ASSUME NEW c \in Children(t), NEW b, At(b, c)
        PROVE /\ b \in Tuples /\ Inside(b, c)
              /\ b # c => tooMany(e, c) /\ b \in f[c] /\ \E x \in Children(c) : Inside(b, x)
    <3>1. CASE b = c
      BY <2>1, <3>1, Zenon
    <3>2. CASE b # c
      <4>1. tooMany(e, c) /\ b \in f[c] /\ Made(e, c, f[c]) /\ Wide(c) /\ c \in Tuples
        BY <2>1, <2>2, <2>4, <3>2, Zenon
      <4>2. b \in Tuples /\ \E x \in Children(c) : Inside(b, x)
        BY <4>1, Zenon DEF Made
      <4>3. PICK x \in Children(c) : Inside(b, x)
        BY <4>2, Zenon
      <4>4. x \in Tuples /\ Inside(x, c)
        BY <4>1, ChildrenOf, Zenon
      <4>5. Inside(b, c)
        BY <4>1, <4>2, <4>3, <4>4, InsideFacts, Zenon
      <4>6. QED BY <4>1, <4>2, <4>5, Zenon
    <3>3. QED BY <3>1, <3>2, Zenon
  <2> HIDE DEF At
  <2>5. \A b \in f[t] : b \in Tuples /\ \E c \in Children(t) : Inside(b, c)
    BY <2>3, <2>4, Zenon
  <2>6. Children(t) \subseteq f[t]
    BY <2>3, Zenon DEF At
  <2>7. ASSUME NEW b \in f[t], tooMany(e, b) PROVE Children(b) \subseteq f[t]
    <3>1. PICK c \in Children(t) : At(b, c)
      BY <2>3, Zenon
    <3>2. tooMany(e, c) /\ Children(b) \subseteq f[c]
      <4>1. CASE b = c
        BY <2>2, <2>7, <4>1, Zenon DEF Made
      <4>2. CASE b # c
        <5>1. tooMany(e, c) /\ b \in f[c]
          BY <2>4, <3>1, <4>2, Zenon
        <5>2. QED BY <2>2, <2>7, <5>1, Zenon DEF Made
      <4>3. QED BY <4>1, <4>2, Zenon
    <3>3. QED BY <2>2, <3>2, Zenon
  <2>8. ASSUME NEW a \in f[t], NEW b \in f[t]
        PROVE \/ a = b \/ Apart(a, b)
              \/ tooMany(e, a) /\ \E c \in Children(a) : Inside(b, c)
              \/ tooMany(e, b) /\ \E c \in Children(b) : Inside(a, c)
    <3>1. PICK c \in Children(t) : At(a, c)
      BY <2>3, Zenon
    <3>2. PICK d \in Children(t) : At(b, d)
      BY <2>3, Zenon
    <3>3. a \in Tuples /\ b \in Tuples /\ c \in Tuples /\ d \in Tuples /\ Inside(a, c) /\ Inside(b, d)
      BY <2>1, <2>4, <3>1, <3>2, Zenon
    <3>4. CASE c # d
      <4>1. \A h \in Int : ~(Has(c, h) /\ Has(d, h))
        BY <3>4, ChildrenOf, Zenon
      <4>2. \A h \in Int : ~(Has(a, h) /\ Has(b, h))
        BY <3>3, <4>1, InsideFacts, Zenon
      <4>3. ~(Has(a, a[1]) /\ Has(b, a[1])) /\ ~(Has(a, b[1]) /\ Has(b, b[1]))
        BY <3>3, <4>2, TupleType
      <4>4. Apart(a, b)
        BY <3>3, <4>3, TupleType DEF Apart, Has
      <4>5. QED BY <4>4
    <3>5. CASE c = d
      <4>1. CASE a = c \/ b = c
        BY <2>4, <3>1, <3>2, <3>5, <4>1, Zenon
      <4>2. CASE a # c /\ b # c
        <5>1. tooMany(e, c) /\ a \in f[c] /\ b \in f[c]
          BY <2>4, <3>1, <3>2, <3>5, <4>2, Zenon
        <5>2. Made(e, c, f[c])
          BY <2>2, <5>1, Zenon
        <5>3. QED BY <5>1, <5>2, Zenon DEF Made
      <4>3. QED BY <4>1, <4>2, Zenon
    <3>6. QED BY <3>4, <3>5, Zenon
  <2>9. QED BY <2>5, <2>6, <2>7, <2>8, Zenon DEF Made
<1> HIDE DEF S
<1>2. Tuples \subseteq S
  BY <1>1, SizeInduction, Zenon
<1>3. QED BY <1>2, Zenon DEF S

\* What makeBottomRanges makes below a range that can be divided.
LEMMA MakeIs ==
    ASSUME NEW e, NEW t \in Tuples, Wide(t)
    PROVE LET B == DOMAIN makeBottomRanges(e, t)
              made == makeBottomRanges(e, t)
          IN /\ Made(e, t, B)
             /\ \A b \in B : /\ IsRange(made[b]) /\ made[b].div = tooMany(e, b)
                             /\ made[b].n = Cardinality(elementsIn(e, b))
                             /\ Hashed(e, made, b)
<1> DEFINE B == rangesToMake(e, t)
           DD == {u \in B : tooMany(e, u)}
           HH == [u \in Tuples |-> calcElementsHash(e, u)]
           made == makeBottomRanges(e, t)
<1>1. Made(e, t, B)
  <2>1. PICK f : IsBelow(e, f) /\ \A u : rangesToMake(e, u) = f[u]
    BY BelowDef
  <2>2. Made(e, t, f[t])
    BY <2>1, BelowIs, Zenon
  <2>3. QED BY <2>1, <2>2, Zenon
<1>2. \A u \in Tuples : HH[u] = calcElementsHash(e, u)
  BY Zenon
<1>3. PICK hash : hash = hashes(DD, HH)
  BY Zenon
<1>4. made = [u \in B |-> hashRange(tooMany(e, u), Cardinality(elementsIn(e, u)), hash[u])]
  BY <1>3, Zenon DEF makeBottomRanges
<1> HIDE DEF HH, B, made
<1>5. B \subseteq Tuples /\ \A u \in DD : u \in B /\ tooMany(e, u) /\ Children(u) \subseteq B
  BY <1>1, Zenon DEF Made
<1>6. /\ \A u \in DD : hash[u] = calcDividedHash([c \in Children(u) |-> hash[c]], u)
      /\ \A u \in Tuples \ DD : hash[u] = HH[u]
  <2>1. DD \subseteq Tuples /\ \A u \in DD : Wide(u)
    BY <1>5, TooManyIsWide, Zenon
  <2> HIDE DEF DD
  <2>2. /\ \A u \in DD : hashes(DD, HH)[u] = calcDividedHash([c \in Children(u) |-> hashes(DD, HH)[c]], u)
        /\ \A u \in Tuples \ DD : hashes(DD, HH)[u] = HH[u]
    BY <2>1, HashesAre, Zenon
  <2>3. QED BY <1>3, <2>2, Zenon
<1>7. DOMAIN made = B
  BY <1>4, Zenon
<1>8. ASSUME NEW b \in B
      PROVE /\ IsRange(made[b]) /\ made[b].div = tooMany(e, b)
            /\ made[b].n = Cardinality(elementsIn(e, b)) /\ made[b].hash = hash[b]
  <2>1. PICK n, div : n = Cardinality(elementsIn(e, b)) /\ div = tooMany(e, b)
    BY Zenon
  <2>2. n \in Int /\ div \in BOOLEAN
    <3>1. n \in Nat
      BY <1>5, <2>1, Count, Zenon
    <3>2. div \in BOOLEAN
      BY <2>1 DEF tooMany
    <3>3. QED BY <3>1, <3>2
  <2>3. made[b] = hashRange(div, n, hash[b])
    BY <1>4, <2>1, Zenon
  <2>4. PICK y : y = hashRange(div, n, hash[b])
    BY Zenon
  <2>5. IsRange(y) /\ y.div = div /\ y.n = n /\ y.hash = hash[b]
    BY <2>2, <2>4, RangeOf
  <2>6. QED BY <2>1, <2>3, <2>4, <2>5, Zenon
<1>9. ASSUME NEW b \in B PROVE Hashed(e, made, b)
  <2>1. made[b].div = tooMany(e, b) /\ made[b].hash = hash[b]
    BY <1>8, Zenon
  <2>2. CASE tooMany(e, b)
    <3>1. b \in DD /\ Children(b) \subseteq B
      BY <1>5, <2>2, Zenon
    <3>2. [c \in Children(b) |-> made[c].hash] = [c \in Children(b) |-> hash[c]]
      BY <1>8, <3>1, Zenon
    <3>3. QED BY <1>6, <2>1, <2>2, <3>1, <3>2, Zenon DEF Hashed
  <2>3. CASE ~tooMany(e, b)
    <3>1. b \in Tuples \ DD
      BY <1>5, <2>3, Zenon
    <3>2. hash[b] = calcElementsHash(e, b)
      BY <1>2, <1>6, <3>1, Zenon
    <3>3. QED BY <2>1, <2>3, <3>2, Zenon DEF Hashed
  <2>4. QED BY <2>2, <2>3, Zenon
<1>10. QED BY <1>1, <1>7, <1>8, <1>9, Zenon DEF made

-----------------------------------------------------------------------------
(* addElement *)

\* How many of the hashes D are in the range t.
HowMany(D, t) == Cardinality({k \in D : Has(t, k)})

\* How many of D are in the range t, and that one more is at most one more.
LEMMA HowManyFacts ==
    ASSUME NEW t \in Tuples, NEW D
    PROVE /\ HowMany(D, t) \in Nat /\ HowMany(D, t) <= Size(t)
          /\ \A h : h \notin D => HowMany(D \cup {h}, t) = IF Has(t, h) THEN HowMany(D, t) + 1 ELSE HowMany(D, t)
<1> DEFINE K == {k \in D : Has(t, k)}
<1>1. t[1] \in Int /\ t[2] \in Int /\ t[1] <= t[2] /\ Size(t) \in Nat
  BY TupleType
<1>2. IsFiniteSet(t[1]..t[2]) /\ Cardinality(t[1]..t[2]) = Size(t)
  <2>1. IsFiniteSet(t[1]..t[2]) /\ Cardinality(t[1]..t[2]) = IF t[1] > t[2] THEN 0 ELSE t[2] - t[1] + 1
    BY <1>1, FS_Interval, Zenon
  <2>2. QED BY <1>1, <2>1 DEF Size
<1>3. K \in SUBSET (t[1]..t[2])
  BY Zenon DEF Has
<1>4. IsFiniteSet(K) /\ Cardinality(K) <= Size(t)
  BY <1>2, <1>3, FS_Subset, Zenon
<1>5. Cardinality(K) \in Nat
  BY <1>4, FS_CardinalityType, Zenon
<1>6. ASSUME NEW h, h \notin D
      PROVE HowMany(D \cup {h}, t) = IF Has(t, h) THEN HowMany(D, t) + 1 ELSE HowMany(D, t)
  <2>1. CASE Has(t, h)
    <3>1. {k \in D \cup {h} : Has(t, k)} = K \cup {h}
      BY <2>1, Zenon
    <3>2. h \notin K
      BY <1>6, Zenon
    <3> HIDE DEF K
    <3>3. Cardinality(K \cup {h}) = Cardinality(K) + 1
      BY <1>4, <3>2, FS_AddElement, Zenon
    <3>4. QED BY <2>1, <3>1, <3>3, Zenon DEF HowMany, K
  <2>2. CASE ~Has(t, h)
    <3>1. {k \in D \cup {h} : Has(t, k)} = K
      BY <2>2, Zenon
    <3>2. QED BY <2>2, <3>1, Zenon DEF HowMany
  <2>3. QED BY <2>1, <2>2, Zenon
<1>7. QED BY <1>4, <1>5, <1>6 DEF HowMany

\* In Q, the range p of R is divided and the ranges B below it are new.
Divides(e, R, p, B, Q) ==
    /\ ~R[p].div /\ Q[p].div /\ Wide(p) /\ Made(e, p, B)
    /\ DOMAIN Q = DOMAIN R \cup B
    /\ \A t \in DOMAIN Q : IsRange(Q[t])
    /\ \A b \in B : Q[b].div = tooMany(e, b)
    /\ \A t \in DOMAIN R \ B : t # p => Q[t].div = R[t].div

\* The ranges made below an undivided range make the tree larger.
LEMMA GrownTree ==
    ASSUME NEW R, NEW L, Tree(R, L), NEW p \in L, NEW e, NEW B, NEW Q, Divides(e, R, p, B, Q)
    PROVE Tree(Q, L \cup B) /\ \A b \in B : b \notin L
<1> USE DEF Divides
<1>1. /\ DOMAIN R \subseteq Tuples /\ L \subseteq DOMAIN R /\ topRange \in L /\ R[topRange].div
      /\ \A t \in DOMAIN R : R[t].div => Wide(t)
      /\ \A t \in L : R[t].div => Children(t) \subseteq L
      /\ \A t, u \in L : t = u \/ Apart(t, u) \/ Above(R, t, u) \/ Above(R, u, t)
  BY Zenon DEF Tree
<1>2. p \in Tuples /\ \A c \in Children(p) : c \in Tuples /\ Inside(c, p) /\ Size(c) < Size(p)
  BY <1>1, ChildrenOf, Zenon
<1>3. ASSUME NEW b \in B
      PROVE /\ b \in Tuples /\ Inside(b, p) /\ Size(b) < Size(p)
            /\ \E c \in Children(p) : Inside(b, c)
  <2>1. b \in Tuples /\ \E c \in Children(p) : Inside(b, c)
    BY Zenon DEF Made
  <2>2. PICK c \in Children(p) : Inside(b, c)
    BY <2>1, Zenon
  <2>3. Inside(b, p) /\ Size(b) <= Size(c) /\ Size(c) < Size(p) /\ c \in Tuples
    BY <1>2, <2>1, <2>2, InsideFacts, Zenon
  <2>4. Size(b) \in Int /\ Size(c) \in Int /\ Size(p) \in Int
    BY <1>2, <2>1, <2>3, TupleType
  <2>5. Size(b) < Size(p)
    BY <2>3, <2>4
  <2>6. QED BY <2>1, <2>3, <2>5, Zenon
<1>4. ASSUME NEW b \in B, b \in L PROVE FALSE
  <2>1. b \in Tuples /\ Inside(b, p) /\ Size(b) < Size(p) /\ (R[b].div => Wide(b))
    BY <1>1, <1>3, <1>4, Zenon
  <2>2. b # p
    BY <1>2, <2>1, TupleType
  <2>3. ~Apart(b, p)
    BY <1>2, <2>1, InsideFacts, Zenon
  <2>4. ~Above(R, b, p)
    BY <1>2, <2>1, NotBelow, Zenon
  <2>5. QED BY <1>1, <1>4, <2>2, <2>3, <2>4, Zenon DEF Above
<1>5. \A t \in L : t # p => Q[t].div = R[t].div
  BY <1>1, <1>4, Zenon
<1>6. ASSUME NEW t \in L, NEW u \in L PROVE t = u \/ Apart(t, u) \/ Above(Q, t, u) \/ Above(Q, u, t)
  <2>1. \A v, w \in L : Above(R, v, w) => Above(Q, v, w)
    BY <1>5, Zenon DEF Above
  <2>2. QED BY <1>1, <2>1, Zenon
<1>7. ASSUME NEW t \in L, NEW b \in B PROVE Apart(t, b) \/ Above(Q, t, b)
  <2>1. b \in Tuples /\ Inside(b, p) /\ \E c \in Children(p) : Inside(b, c)
    BY <1>3, Zenon
  <2>2. t \in Tuples
    BY <1>1, Zenon
  <2>3. CASE t = p
    BY <2>1, <2>3, Zenon DEF Above
  <2>4. CASE Apart(t, p)
    BY <1>2, <2>1, <2>2, <2>4, TupleType DEF Apart, Inside
  <2>5. CASE t # p /\ Above(R, t, p)
    <3>1. PICK c \in Children(t) : Inside(p, c)
      BY <2>5, Zenon DEF Above
    <3>2. c \in Tuples
      <4>1. Wide(t)
        BY <1>1, <2>5, Zenon DEF Above
      <4>2. QED BY <2>2, <4>1, ChildrenOf, Zenon
    <3>3. Inside(b, c)
      BY <1>2, <2>1, <3>1, <3>2, InsideFacts, Zenon
    <3>4. Q[t].div
      BY <1>5, <2>5, Zenon DEF Above
    <3>5. QED BY <3>1, <3>3, <3>4, Zenon DEF Above
  <2>6. QED BY <1>1, <2>3, <2>4, <2>5, Zenon DEF Above
<1>8. ASSUME NEW a \in B, NEW b \in B PROVE a = b \/ Apart(a, b) \/ Above(Q, a, b) \/ Above(Q, b, a)
  BY Zenon DEF Made, Above
<1>9. \A t, u : Apart(t, u) => Apart(u, t)
  BY Zenon DEF Apart
<1>10. \A t, u \in L \cup B : t = u \/ Apart(t, u) \/ Above(Q, t, u) \/ Above(Q, u, t)
  BY <1>6, <1>7, <1>8, <1>9, Zenon
<1>11. \A t \in L \cup B : Q[t].div => Children(t) \subseteq L \cup B
  <2>1. ASSUME NEW t \in B, Q[t].div PROVE Children(t) \subseteq B
    BY <2>1, Zenon DEF Made
  <2>2. ASSUME NEW t \in L, Q[t].div PROVE Children(t) \subseteq L \cup B
    <3>1. CASE t = p
      BY <3>1, Zenon DEF Made
    <3>2. CASE t # p
      BY <1>1, <1>5, <2>2, <3>2, Zenon
    <3>3. QED BY <3>1, <3>2, Zenon
  <2>3. QED BY <2>1, <2>2, Zenon
<1>12. \A t \in DOMAIN Q : Q[t].div => Wide(t)
  <2> TAKE t \in DOMAIN Q
  <2> HAVE Q[t].div
  <2>1. CASE t \in B
    BY <1>3, <2>1, TooManyIsWide, Zenon
  <2>2. CASE t \notin B /\ t # p
    BY <1>1, <2>2, Zenon
  <2>3. QED BY <2>1, <2>2, Zenon
<1>13. topRange # p
  BY <1>1, Zenon
<1>14. DOMAIN Q \subseteq Tuples /\ L \cup B \subseteq DOMAIN Q /\ topRange \in L \cup B /\ Q[topRange].div
  BY <1>1, <1>3, <1>5, <1>13, Zenon
<1>15. Tree(Q, L \cup B)
  BY <1>10, <1>11, <1>12, <1>14, Zenon DEF Tree
<1>16. QED BY <1>4, <1>15, Zenon

\* What addElement makes of the ranges.
Grown(e, R, L, h, Q, leaf, divide, made) ==
    /\ Has(leaf, h) /\ ~R[leaf].div
    /\ divide => R[leaf].n + 1 > CompareThreshold /\ made = makeBottomRanges(e, leaf)
    /\ ~divide => ~(R[leaf].n + 1 > CompareThreshold) /\ DOMAIN made = {}
    /\ DOMAIN Q = DOMAIN R \cup DOMAIN made
    /\ \A t \in DOMAIN made : Q[t] = made[t]
    /\ \A t \in DOMAIN R \ DOMAIN made : t \in L /\ Has(t, h) =>
          Q[t] = hashRange(R[t].div \/ (divide /\ t = leaf), R[t].n + 1, R[t].hash)
    /\ \A t \in DOMAIN R \ DOMAIN made : ~(t \in L /\ Has(t, h)) => Q[t] = R[t]

\* addElement changes the ranges in that way.
LEMMA AddIs ==
    ASSUME NEW e, NEW R, NEW L, Tree(R, L), NEW h \in 0..MaxHash
    PROVE \E leaf \in L, divide \in BOOLEAN : \E made :
              Grown(e, R, L, h, addElement(e, R, h), leaf, divide, made)
<1> DEFINE path == pathTo(R, h)
           dirty == ToSet(path)
           leaf == path[Len(path)]
           divide == R[leaf].n + 1 > CompareThreshold
           made == IF divide THEN makeBottomRanges(e, leaf) ELSE [t \in {} |-> R[t]]
           Q == addElement(e, R, h)
<1>1. leaf \in L /\ Has(leaf, h) /\ ~R[leaf].div /\ dirty = {t \in L : Has(t, h)}
  BY Path
<1>2. divide \in BOOLEAN
  <2>1. R[leaf].n \in Int /\ CompareThreshold \in Int
    BY <1>1, LDiffAssumption DEF Tree, IsRange
  <2>2. QED BY <2>1
<1>3. Q = [t \in DOMAIN R \cup DOMAIN made |->
             IF t \in DOMAIN made THEN made[t]
             ELSE IF t \in dirty
                  THEN hashRange(R[t].div \/ (divide /\ t = leaf), R[t].n + 1, R[t].hash)
             ELSE R[t]]
  BY Zenon DEF addElement
<1>4. (divide => made = makeBottomRanges(e, leaf)) /\ (~divide => DOMAIN made = {})
  BY Zenon
<1>5. divide <=> R[leaf].n + 1 > CompareThreshold
  BY Zenon
<1> HIDE DEF made, divide, leaf, dirty, Q
<1>6. /\ DOMAIN Q = DOMAIN R \cup DOMAIN made
      /\ \A t \in DOMAIN made : Q[t] = made[t]
      /\ \A t \in DOMAIN R \ DOMAIN made : t \in dirty =>
            Q[t] = hashRange(R[t].div \/ (divide /\ t = leaf), R[t].n + 1, R[t].hash)
      /\ \A t \in DOMAIN R \ DOMAIN made : t \notin dirty => Q[t] = R[t]
  BY <1>3, Zenon
<1>7. \A t : t \in dirty <=> t \in L /\ Has(t, h)
  BY <1>1, Zenon
<1>8. /\ \A t \in DOMAIN R \ DOMAIN made : t \in L /\ Has(t, h) =>
            Q[t] = hashRange(R[t].div \/ (divide /\ t = leaf), R[t].n + 1, R[t].hash)
      /\ \A t \in DOMAIN R \ DOMAIN made : ~(t \in L /\ Has(t, h)) => Q[t] = R[t]
  BY <1>6, <1>7, Zenon
<1>9. Grown(e, R, L, h, Q, leaf, divide, made)
  BY <1>1, <1>4, <1>5, <1>6, <1>8, Zenon DEF Grown
<1>10. QED BY <1>1, <1>2, <1>9, Zenon DEF Q

\* While the elements D are set: an undivided range counts each of them at most once more.
Adding(e, R, L, D) ==
    /\ Partly(e, R, L, D)
    /\ \A t \in L : ~R[t].div => R[t].n <= Size(t) + HowMany(D, t)

\* After addElement only the ranges with the elements set so far are not right yet.
LEMMA Add ==
    ASSUME NEW e \in Elements, NEW h \in Ids, NEW x, NEW D, h \notin D, NEW R, NEW L, Adding(e, R, L, D)
    PROVE \E M : Adding([e EXCEPT ![h] = x], addElement([e EXCEPT ![h] = x], R, h), M, D \cup {h})
<1> DEFINE d == [e EXCEPT ![h] = x]
           Q == addElement(d, R, h)
<1>1. /\ Tree(R, L) /\ L \subseteq DOMAIN R /\ DOMAIN R \subseteq Tuples
      /\ \A t \in L : R[t].div => Wide(t) /\ Children(t) \subseteq L
      /\ \A t \in DOMAIN R : IsRange(R[t])
  BY Zenon DEF Adding, Partly, Tree
<1>2. h \in 0..MaxHash /\ h \in Int
  BY LDiffAssumption
<1>0. PICK leaf \in L, divide \in BOOLEAN : \E made : Grown(d, R, L, h, Q, leaf, divide, made)
  BY <1>1, <1>2, AddIs
<1>3. PICK made : Grown(d, R, L, h, Q, leaf, divide, made)
  BY <1>0, Zenon
<1>4. ASSUME NEW t \in Tuples
      PROVE Cardinality(elementsIn(d, t)) <= Cardinality(elementsIn(e, t)) + 1
  BY CountSet
<1>5. ASSUME NEW t \in Tuples, ~Has(t, h)
      PROVE elementsIn(d, t) = elementsIn(e, t)
  BY <1>5, ElementsElsewhere
<1>6. ASSUME NEW t \in Tuples, ~Has(t, h), R[t].div => Wide(t), Hashed(e, R, t),
             Q[t] = R[t], R[t].div => \A c \in Children(t) : ~Has(c, h) => Q[c].hash = R[c].hash
      PROVE Hashed(d, Q, t)
  BY <1>6, StaysHashed
<1> HIDE DEF Q, d
<1> DEFINE B == DOMAIN made
<1>7. /\ Has(leaf, h) /\ ~R[leaf].div
      /\ divide => R[leaf].n + 1 > CompareThreshold /\ made = makeBottomRanges(d, leaf)
      /\ ~divide => ~(R[leaf].n + 1 > CompareThreshold) /\ B = {}
      /\ DOMAIN Q = DOMAIN R \cup B
      /\ \A t \in B : Q[t] = made[t]
      /\ \A t \in DOMAIN R \ B : t \in L /\ Has(t, h) =>
            Q[t] = hashRange(R[t].div \/ (divide /\ t = leaf), R[t].n + 1, R[t].hash)
      /\ \A t \in DOMAIN R \ B : ~(t \in L /\ Has(t, h)) => Q[t] = R[t]
  BY <1>3, Zenon DEF Grown
<1>8. ASSUME divide PROVE Wide(leaf)
  <2>1. leaf \in Tuples /\ R[leaf].n \in Int /\ R[leaf].n <= Size(leaf) + HowMany(D, leaf)
    BY <1>1, <1>7, Zenon DEF Adding, IsRange
  <2>2. HowMany(D, leaf) \in Nat /\ HowMany(D \cup {h}, leaf) <= Size(leaf) /\ Size(leaf) \in Nat
        /\ HowMany(D \cup {h}, leaf) = HowMany(D, leaf) + 1
    BY <1>7, <2>1, HowManyFacts, TupleType, Zenon
  <2>3. QED BY <1>7, <1>8, <2>1, <2>2, LDiffAssumption DEF Wide
<1>9. /\ divide => Made(d, leaf, B)
      /\ \A b \in B : /\ IsRange(made[b]) /\ made[b].div = tooMany(d, b)
                      /\ made[b].n = Cardinality(elementsIn(d, b)) /\ Hashed(d, made, b) /\ b \in Tuples
                      /\ made[b].div => Children(b) \subseteq B
  <2>1. CASE divide
    <3>1. leaf \in Tuples /\ Wide(leaf) /\ made = makeBottomRanges(d, leaf)
      BY <1>1, <1>7, <1>8, <2>1, Zenon
    <3>2. Made(d, leaf, B)
      BY <3>1, MakeIs, Zenon
    <3>3. \A b \in B : /\ IsRange(made[b]) /\ made[b].div = tooMany(d, b)
                       /\ made[b].n = Cardinality(elementsIn(d, b)) /\ Hashed(d, made, b)
      BY <3>1, MakeIs, Zenon
    <3>4. QED BY <3>2, <3>3, Zenon DEF Made
  <2>2. CASE ~divide
    BY <1>7, <2>2, Zenon
  <2>3. QED BY <2>1, <2>2, Zenon
<1> HIDE DEF B
<1>10. ASSUME NEW t \in DOMAIN R \ B, t \in L, Has(t, h)
       PROVE IsRange(Q[t]) /\ Q[t].n = R[t].n + 1 /\ Q[t].div = (R[t].div \/ (divide /\ t = leaf))
  <2>1. PICK n, div : n = R[t].n + 1 /\ div = (R[t].div \/ (divide /\ t = leaf))
    BY Zenon
  <2>2. R[t].n \in Int /\ R[t].div \in BOOLEAN
    BY <1>1, Zenon DEF IsRange
  <2>3. n \in Int /\ div \in BOOLEAN
    BY <2>1, <2>2
  <2>4. Q[t] = hashRange(div, n, R[t].hash)
    BY <1>7, <1>10, <2>1, Zenon
  <2>5. PICK y : y = hashRange(div, n, R[t].hash)
    BY Zenon
  <2>6. IsRange(y) /\ y.div = div /\ y.n = n
    BY <2>3, <2>5, RangeOf
  <2>7. QED BY <2>1, <2>4, <2>5, <2>6, Zenon
<1>11. \A t \in DOMAIN Q : IsRange(Q[t])
  BY <1>1, <1>7, <1>9, <1>10, Zenon
<1>12. \A t \in DOMAIN R \ B : ~(divide /\ t = leaf) => Q[t].div = R[t].div
  <2> TAKE t \in DOMAIN R \ B
  <2> HAVE ~(divide /\ t = leaf)
  <2>1. CASE t \in L /\ Has(t, h)
    <3>1. R[t].div \in BOOLEAN
      BY <1>1, Zenon DEF IsRange
    <3>2. QED BY <1>10, <2>1, <3>1, Zenon
  <2>2. CASE ~(t \in L /\ Has(t, h))
    BY <1>7, <2>2, Zenon
  <2>3. QED BY <2>1, <2>2, Zenon
<1>13. Tree(Q, L \cup B) /\ \A b \in B : b \notin L
  <2>1. CASE divide
    <3>1. leaf \notin B
      <4>1. leaf \in Tuples /\ Wide(leaf)
        BY <1>1, <1>8, <2>1, Zenon
      <4>2. ASSUME leaf \in B PROVE FALSE
        <5>1. PICK c \in Children(leaf) : Inside(leaf, c)
          BY <1>9, <2>1, <4>2, Zenon DEF Made
        <5>2. c \in Tuples /\ Size(c) < Size(leaf) /\ Size(leaf) <= Size(c)
          BY <4>1, <5>1, ChildrenOf, InsideFacts, Zenon
        <5>3. Size(c) \in Int /\ Size(leaf) \in Int
          BY <4>1, <5>2, TupleType
        <5>4. QED BY <5>2, <5>3
      <4>3. QED BY <4>2
    <3>2. Q[leaf].div
      BY <1>1, <1>7, <1>10, <2>1, <3>1, Zenon
    <3>3. Wide(leaf) /\ Made(d, leaf, B) /\ \A b \in B : Q[b].div = tooMany(d, b)
      BY <1>7, <1>8, <1>9, <2>1, Zenon
    <3>4. \A t \in DOMAIN R \ B : t # leaf => Q[t].div = R[t].div
      BY <1>12, Zenon
    <3>5. DOMAIN Q = DOMAIN R \cup B
      BY <1>7, Zenon
    <3>6. Tree(R, L) /\ ~R[leaf].div
      BY <1>1, <1>7, Zenon
    <3>7. Divides(d, R, leaf, B, Q)
      BY <1>11, <3>2, <3>3, <3>4, <3>5, <3>6, Zenon DEF Divides
    <3>8. QED BY <3>6, <3>7, GrownTree, Zenon
  <2>2. CASE ~divide
    <3>1. B = {} /\ DOMAIN Q = DOMAIN R
      BY <1>7, <2>2, Zenon
    <3>2. \A t \in DOMAIN R : IsRange(Q[t]) /\ Q[t].div = R[t].div
      BY <1>11, <1>12, <2>2, <3>1, Zenon
    <3>3. Tree(Q, L)
      BY <1>1, <3>1, <3>2, SameTree, Zenon
    <3>4. L \cup B = L
      BY <3>1, Zenon
    <3>5. QED BY <3>1, <3>3, <3>4, Zenon
  <2>3. QED BY <2>1, <2>2, Zenon
<1>14. ASSUME NEW t \in L \cup B
       PROVE /\ Cardinality(elementsIn(d, t)) <= Q[t].n
             /\ ~Q[t].div => Q[t].n <= Size(t) + HowMany(D \cup {h}, t)
  <2>1. t \in Tuples
    BY <1>1, <1>9, Zenon
  <2>2. /\ HowMany(D, t) \in Nat /\ HowMany(D \cup {h}, t) \in Nat /\ Size(t) \in Nat
        /\ HowMany(D \cup {h}, t) = IF Has(t, h) THEN HowMany(D, t) + 1 ELSE HowMany(D, t)
    BY <2>1, HowManyFacts, TupleType, Zenon
  <2>3. /\ Cardinality(elementsIn(d, t)) \in Nat /\ Cardinality(elementsIn(d, t)) <= Size(t)
        /\ Cardinality(elementsIn(e, t)) \in Nat
    BY <2>1, Count, Zenon
  <2>4. CASE t \in B
    <3>1. Q[t].n = Cardinality(elementsIn(d, t))
      BY <1>7, <1>9, <2>4, Zenon
    <3>2. QED BY <2>2, <2>3, <3>1
  <2>5. CASE t \in L /\ t \notin B
    <3>1. /\ Cardinality(elementsIn(e, t)) <= R[t].n /\ t \in DOMAIN R \ B
          /\ ~R[t].div => R[t].n <= Size(t) + HowMany(D, t)
      BY <1>1, <2>5, Zenon DEF Adding, Partly
    <3>2. R[t].n \in Int /\ R[t].div \in BOOLEAN
      BY <1>1, <3>1, Zenon DEF IsRange
    <3>3. CASE Has(t, h)
      <4>1. Q[t].n = R[t].n + 1 /\ (~Q[t].div => ~R[t].div)
        BY <1>10, <2>5, <3>1, <3>3, Zenon
      <4>2. Cardinality(elementsIn(d, t)) <= Cardinality(elementsIn(e, t)) + 1
        BY <1>4, <2>1, Zenon
      <4>3. HowMany(D \cup {h}, t) = HowMany(D, t) + 1
        BY <2>2, <3>3, Zenon
      <4>4. Cardinality(elementsIn(d, t)) <= Q[t].n
        BY <2>3, <3>1, <3>2, <4>1, <4>2
      <4>5. ASSUME ~Q[t].div PROVE Q[t].n <= Size(t) + HowMany(D \cup {h}, t)
        <5>1. R[t].n <= Size(t) + HowMany(D, t)
          BY <3>1, <4>1, <4>5, Zenon
        <5>2. QED BY <2>2, <3>2, <4>1, <4>3, <5>1
      <4>6. QED BY <4>4, <4>5, Zenon
    <3>4. CASE ~Has(t, h)
      <4>1. Q[t] = R[t]
        BY <1>7, <3>1, <3>4, Zenon
      <4>2. HowMany(D \cup {h}, t) = HowMany(D, t) /\ elementsIn(d, t) = elementsIn(e, t)
        BY <1>5, <2>1, <2>2, <3>4, Zenon
      <4>3. QED BY <3>1, <4>1, <4>2, Zenon
    <3>5. QED BY <3>3, <3>4, Zenon
  <2>6. QED BY <2>4, <2>5, Zenon
<1>15. ASSUME NEW t \in L \cup B, ~Touched(t, D \cup {h})
       PROVE Hashed(d, Q, t) /\ (~Q[t].div => Q[t].n <= Size(t))
  <2>1. ~Touched(t, D) /\ ~Has(t, h)
    BY <1>15, Zenon DEF Touched
  <2>2. CASE t \in B
    <3>1. Q[t] = made[t] /\ Hashed(d, made, t) /\ t \in Tuples
      BY <1>7, <1>9, <2>2, Zenon
    <3>2. made[t].div \in BOOLEAN /\ (made[t].div => Children(t) \subseteq B)
      BY <1>9, <2>2, Zenon DEF IsRange
    <3>3. made[t].div => [c \in Children(t) |-> Q[c].hash] = [c \in Children(t) |-> made[c].hash]
      BY <1>7, <3>2, Zenon
    <3>4. Hashed(d, Q, t)
      BY <3>1, <3>2, <3>3, Zenon DEF Hashed
    <3>5. Q[t].n = Cardinality(elementsIn(d, t))
      BY <1>9, <2>2, <3>1, Zenon
    <3>6. Q[t].n <= Size(t)
      BY <3>1, <3>5, Count, Zenon
    <3>7. QED BY <3>4, <3>6, Zenon
  <2>3. CASE t \in L /\ t \notin B
    <3>1. /\ t \in Tuples /\ t \in DOMAIN R \ B /\ Hashed(e, R, t) /\ (~R[t].div => R[t].n <= Size(t))
          /\ R[t].div => Wide(t) /\ Children(t) \subseteq L
      BY <1>1, <2>1, <2>3, Zenon DEF Adding, Partly
    <3>2. Q[t] = R[t]
      BY <1>7, <2>1, <3>1, Zenon
    <3>3. R[t].div => \A c \in Children(t) : ~Has(c, h) => Q[c].hash = R[c].hash
      BY <1>1, <1>7, <1>13, <3>1, Zenon
    <3>4. Hashed(d, Q, t)
      BY <1>6, <2>1, <3>1, <3>2, <3>3, Zenon
    <3>5. QED BY <3>1, <3>2, <3>4, Zenon
  <2>4. QED BY <2>2, <2>3, Zenon
<1>16. Small(Q)
  <2> SUFFICES ASSUME NEW t \in DOMAIN Q, ~Q[t].div PROVE Q[t].n <= CompareThreshold
    BY Zenon DEF Small
  <2>1. CASE t \in B
    <3>1. ~tooMany(d, t) /\ Q[t].n = Cardinality(elementsIn(d, t)) /\ t \in Tuples
      BY <1>7, <1>9, <2>1, Zenon
    <3>2. Cardinality(elementsIn(d, t)) \in Nat
      BY <3>1, Count, Zenon
    <3>3. QED BY <3>1, <3>2, LDiffAssumption DEF tooMany
  <2>2. CASE t \in DOMAIN R \ B
    <3>1. R[t].n \in Int /\ R[t].div \in BOOLEAN /\ (~R[t].div => R[t].n <= CompareThreshold)
      BY <1>1, <2>2, Zenon DEF Adding, Partly, Small, IsRange
    <3>2. CASE t \in L /\ Has(t, h)
      <4>1. Q[t].n = R[t].n + 1 /\ ~R[t].div /\ ~(divide /\ t = leaf)
        BY <1>10, <2>2, <3>2, Zenon
      <4>2. t = leaf
        <5>1. t \in Tuples /\ leaf \in Tuples
          BY <1>1, <3>2, Zenon
        <5>2. ~Apart(t, leaf)
          BY <1>2, <1>7, <3>2, <5>1, TupleType DEF Apart, Has
        <5>3. ~Above(R, t, leaf) /\ ~Above(R, leaf, t)
          BY <1>7, <4>1, Zenon DEF Above
        <5>4. QED BY <1>1, <3>2, <5>2, <5>3, Zenon DEF Tree
      <4>3. ~(R[t].n + 1 > CompareThreshold)
        BY <1>7, <4>1, <4>2, Zenon
      <4>4. QED BY <3>1, <4>1, <4>3, LDiffAssumption
    <3>3. CASE ~(t \in L /\ Has(t, h))
      BY <1>7, <2>2, <3>1, <3>3, Zenon
    <3>4. QED BY <3>2, <3>3, Zenon
  <2>3. QED BY <1>7, <2>1, <2>2, Zenon
<1>17. Adding(d, Q, L \cup B, D \cup {h})
  BY <1>13, <1>14, <1>15, <1>16, Zenon DEF Adding, Partly
<1>18. QED BY <1>17, Zenon DEF d, Q

-----------------------------------------------------------------------------
(* The operations *)

\* What there is after each of the elements.
Steps(f, x, order, b) ==
    f[0] = x /\ \A i \in 1..Len(order) : f[i] = setOne(f[i - 1], order[i], b[order[i]])

\* setAll goes through the ids step by step.
LEMMA SetAllDef ==
    ASSUME NEW x, NEW order, Len(order) \in Nat, NEW b
    PROVE \E f : Steps(f, x, order, b) /\ setAll(x, order, b) = f[Len(order)]
<1> DEFINE Def(g, i) == setOne(g[i - 1], order[i], b[order[i]])
           Rec(g, n) == [i \in 0..n |-> IF i = 0 THEN x ELSE Def(g, i)]
           S == {n \in Nat : \E g : g = Rec(g, n)}
           N == Len(order)
<1>1. 0 \in S
  <2>1. PICK g : g = [i \in 0..0 |-> x]
    BY Zenon
  <2>2. g = Rec(g, 0)
    BY <2>1
  <2>3. QED BY <2>2
<1>2. ASSUME NEW n \in 1..N, n - 1 \in S PROVE n \in S
  <2>1. PICK g : g = Rec(g, n - 1)
    BY <1>2
  <2>2. PICK h : h = [i \in 0..n |-> IF i = 0 THEN x ELSE Def(g, i)]
    BY Zenon
  <2>3. ASSUME NEW i \in 0..n, i # 0 PROVE h[i - 1] = g[i - 1]
    <3>1. i - 1 \in 0..n /\ i - 1 \in 0..n - 1
      BY <2>3
    <3>2. h[i - 1] = IF i - 1 = 0 THEN x ELSE Def(g, i - 1)
      BY <2>2, <3>1, Zenon
    <3>3. g[i - 1] = IF i - 1 = 0 THEN x ELSE Def(g, i - 1)
      BY <2>1, <3>1, Zenon
    <3> HIDE DEF Def
    <3>4. QED BY <3>2, <3>3
  <2>4. ASSUME NEW i \in 0..n PROVE h[i] = IF i = 0 THEN x ELSE Def(h, i)
    BY <2>2, <2>3, Zenon
  <2>5. h = Rec(h, n)
    <3>1. DOMAIN h = 0..n /\ h = [i \in DOMAIN h |-> h[i]]
      BY <2>2
    <3> HIDE DEF Def
    <3>2. QED BY <2>4, <3>1
  <2>6. n \in Nat
    OBVIOUS
  <2> HIDE DEF Rec
  <2>7. QED BY <2>5, <2>6, Zenon
<1> HIDE DEF S
<1>3. 0..N \subseteq S
  BY <1>1, <1>2, RangeInduction, Zenon
<1>4. \E g : g = Rec(g, N)
  BY <1>3 DEF S
<1>5. PICK f : f = CHOOSE g : g = Rec(g, N)
  OBVIOUS
<1>6. f = Rec(f, N)
  BY <1>4, <1>5, Zenon
<1>7. setAll(x, order, b) = f[N]
  BY <1>5, Zenon DEF setAll
<1> HIDE DEF Def
<1>8. f[0] = x
  BY <1>6
<1>9. \A i \in 1..N : f[i] = Def(f, i)
  BY <1>6
<1>10. Steps(f, x, order, b)
  BY <1>8, <1>9, Zenon DEF Def, Steps
<1>11. QED BY <1>7, <1>10, Zenon

\* Once all are set, the ranges are whole but for those of the elements.
LEMMA SetAll ==
    ASSUME NEW e \in Elements, NEW R, NEW L, Whole(e, R, L),
           NEW order \in Seq(Ids), \A i, j \in 1..Len(order) : order[i] = order[j] => i = j,
           NEW b, \A i \in 1..Len(order) : b[order[i]] \in Heads
    PROVE LET x == setAll(<<e, R>>, order, b)
          IN x[1] \in Elements /\ \E M : Partly(x[1], x[2], M, {order[i] : i \in 1..Len(order)})
<1> DEFINE N == Len(order)
           D(i) == {order[j] : j \in 1..i}
           Good(x, i) == x[1] \in Elements /\ \E M : Adding(x[1], x[2], M, D(i))
<1>0. N \in Nat /\ \A i \in 1..N : order[i] \in Ids
  OBVIOUS
<1>1. PICK f : /\ f[0] = <<e, R>>
               /\ \A i \in 1..N : f[i] = setOne(f[i - 1], order[i], b[order[i]])
               /\ setAll(<<e, R>>, order, b) = f[N]
  <2>1. PICK x : x = <<e, R>>
    BY Zenon
  <2>2. PICK f : Steps(f, x, order, b) /\ setAll(x, order, b) = f[Len(order)]
    BY <1>0, SetAllDef, Zenon
  <2>3. QED BY <2>1, <2>2, Zenon DEF Steps
<1> DEFINE S == {i \in 0..N : Good(f[i], i)}
<1>2. 0 \in S
  <2>1. D(0) = {}
    OBVIOUS
  <2>2. ASSUME NEW t \in L PROVE ~R[t].div => R[t].n <= Size(t) + HowMany({}, t)
    <3>1. {k \in {} : Has(t, k)} = {}
      BY Zenon
    <3>2. HowMany({}, t) = 0
      BY <3>1, FS_EmptySet, Zenon DEF HowMany
    <3>3. t \in Tuples
      BY Zenon DEF Whole, Tree
    <3>4. Size(t) \in Nat
      BY <3>3, TupleType, Zenon
    <3>5. ~R[t].div => R[t].n <= Size(t)
      BY Zenon DEF Whole
    <3>6. QED BY <3>2, <3>4, <3>5
  <2>3. Partly(e, R, L, {})
    BY Zenon DEF Whole, Partly
  <2>4. Adding(e, R, L, {})
    BY <2>2, <2>3, Zenon DEF Adding
  <2>5. f[0][1] = e /\ f[0][2] = R
    BY <1>1
  <2>6. Good(f[0], 0)
    BY <2>1, <2>4, <2>5, Zenon
  <2> HIDE DEF Good
  <2>7. 0 \in 0..N
    BY <1>0
  <2>8. QED BY <2>6, <2>7, Zenon
<1>3. ASSUME NEW i \in 1..N, i - 1 \in S PROVE i \in S
  <2> DEFINE c == f[i - 1][1]
             Q == f[i - 1][2]
             h == order[i]
             head == b[h]
  <2>1. c \in Elements /\ \E M : Adding(c, Q, M, D(i - 1))
    BY <1>3
  <2>2. PICK M : Adding(c, Q, M, D(i - 1))
    BY <2>1
  <2>3. h \in Ids /\ head \in Heads
    BY <1>0
  <2>4. h \notin D(i - 1) /\ D(i) = D(i - 1) \cup {h}
    <3>1. \A j \in 1..i - 1 : j \in 1..N /\ j # i
      BY <1>0
    <3>2. h \notin D(i - 1)
      BY <3>1, Zenon
    <3>3. 1..i = (1..i - 1) \cup {i}
      BY <1>0
    <3>4. D(i) = D(i - 1) \cup {h}
      BY <3>3, Zenon
    <3>5. QED BY <3>2, <3>4
  <2>5. f[i] = setOne(f[i - 1], h, head)
    BY <1>1
  <2> DEFINE d == [c EXCEPT ![h] = head]
  <2>6. f[i] = <<d, addElement(d, Q, h)>>
    BY <2>5, Zenon DEF setOne
  <2> HIDE DEF c, Q, h, head, D
  <2>7. \E K : Adding(d, addElement(d, Q, h), K, D(i - 1) \cup {h})
    BY <2>1, <2>2, <2>3, <2>4, Add
  <2>8. d \in Elements
    BY <2>1, <2>3 DEF Elements
  <2> HIDE DEF d
  <2>9. f[i][1] = d /\ f[i][2] = addElement(d, Q, h)
    BY <2>6
  <2>10. Good(f[i], i)
    BY <2>4, <2>7, <2>8, <2>9, Zenon
  <2>11. i \in 0..N
    BY <1>0
  <2>12. QED BY <2>10, <2>11, Zenon
<1> HIDE DEF Good, S
<1>4. 0..N \subseteq S
  BY <1>0, <1>2, <1>3, RangeInduction, Zenon
<1>5. N \in S
  BY <1>0, <1>4
<1>6. Good(f[N], N)
  BY <1>5, Zenon DEF S
<1>7. QED BY <1>1, <1>6, Zenon DEF Good, Adding

\* The hash of a range without elements, when it is divided.
LEMMA EmptyDividedHash ==
    ASSUME NEW H, NEW t, \A c \in Children(t) : H[c] = <<>>
    PROVE calcDividedHash(H, t) = <<"divided", <<>>>>
<1>1. PICK f : /\ f[0] = <<>>
               /\ \A i \in 1..DivideFactor : f[i] = Write(f[i - 1], H[genTupleRanges(t)[i]])
               /\ calcDividedHash(H, t) = <<"divided", f[DivideFactor]>>
  BY WrittenDef
<1> DEFINE S == {i \in Nat : f[i] = <<>>}
<1>2. DivideFactor \in Nat
  BY LDiffAssumption
<1>3. 0 \in S
  BY <1>1
<1>4. ASSUME NEW i \in 1..DivideFactor, i - 1 \in S PROVE i \in S
  <2>1. H[genTupleRanges(t)[i]] = <<>>
    BY Zenon DEF Children
  <2>2. f[i] = f[i - 1]
    BY <1>1, <2>1, Zenon DEF Write
  <2>3. QED BY <1>2, <1>4, <2>2
<1> HIDE DEF S
<1>5. 0..DivideFactor \subseteq S
  BY <1>2, <1>3, <1>4, RangeInduction, Zenon
<1>6. DivideFactor \in S
  BY <1>2, <1>5
<1>7. QED BY <1>1, <1>6, Zenon DEF S

\* The ranges of a new container are right.
LEMMA NewIsWhole ==
    NoElements \in Elements /\ \E L : Whole(NoElements, newHashRanges, L)
<1> DEFINE R == newHashRanges
           L == {topRange} \cup Children(topRange)
<1>1. topRange \in Tuples /\ Wide(topRange)
  <2>1. topRange \in Tuples
    BY LDiffAssumption DEF topRange, Tuples
  <2>2. Size(topRange) = MaxHash + 1
    BY LDiffAssumption DEF topRange, Size
  <2>3. QED BY <2>1, <2>2, LDiffAssumption DEF Wide
<1>2. ASSUME NEW c \in Children(topRange)
      PROVE c \in Tuples /\ Inside(c, topRange) /\ c # topRange /\ Inside(c, c)
  <2>1. c \in Tuples /\ Inside(c, topRange) /\ Size(c) < Size(topRange)
    BY <1>1, ChildrenOf, Zenon
  <2>2. Inside(c, c) /\ Size(c) \in Nat
    BY <2>1, TupleType DEF Inside
  <2>3. QED BY <2>1, <2>2
<1>3. /\ DOMAIN R = L /\ R[topRange] = hashRange(TRUE, 0, <<"divided", <<>>>>)
      /\ \A c \in Children(topRange) : R[c] = hashRange(FALSE, 0, <<>>)
  BY <1>2, Zenon DEF newHashRanges
<1>4. /\ IsRange(R[topRange]) /\ R[topRange].div /\ R[topRange].n = 0
      /\ R[topRange].hash = <<"divided", <<>>>>
  <2>1. PICK y, v : y = hashRange(TRUE, 0, v) /\ v = <<"divided", <<>>>>
    BY Zenon
  <2>2. PICK b \in BOOLEAN : b = TRUE
    BY Zenon
  <2>3. PICK n \in Int : n = 0
    OBVIOUS
  <2>4. y = hashRange(b, n, v)
    BY <2>1, <2>2, <2>3, Zenon
  <2>5. IsRange(y) /\ y.div = b /\ y.n = n /\ y.hash = v
    BY <2>4, RangeOf
  <2>6. QED BY <1>3, <2>1, <2>2, <2>3, <2>5, Zenon
<1>5. \A c \in Children(topRange) : IsRange(R[c]) /\ ~R[c].div /\ R[c].n = 0 /\ R[c].hash = <<>>
  <2>1. PICK y, v : y = hashRange(FALSE, 0, v) /\ v = <<>>
    BY Zenon
  <2>2. PICK b \in BOOLEAN : b = FALSE
    BY Zenon
  <2>3. PICK n \in Int : n = 0
    OBVIOUS
  <2>4. y = hashRange(b, n, v)
    BY <2>1, <2>2, <2>3, Zenon
  <2>5. IsRange(y) /\ y.div = b /\ y.n = n /\ y.hash = v
    BY <2>4, RangeOf
  <2>6. QED BY <1>3, <2>1, <2>2, <2>3, <2>5, Zenon
<1> HIDE DEF R
<1>6. ASSUME NEW c \in Children(topRange), NEW d \in Children(topRange), c # d PROVE Apart(c, d)
  <2>1. \A h \in Int : ~(Has(c, h) /\ Has(d, h))
    BY <1>1, <1>6, ChildrenOf, Zenon
  <2>2. c \in Tuples /\ d \in Tuples
    BY <1>2, Zenon
  <2>3. ~(Has(c, c[1]) /\ Has(d, c[1])) /\ ~(Has(c, d[1]) /\ Has(d, d[1]))
    BY <2>1, <2>2, TupleType
  <2>4. QED BY <2>2, <2>3, TupleType DEF Apart, Has
<1>7. \A t, u \in L : t = u \/ Apart(t, u) \/ Above(R, t, u) \/ Above(R, u, t)
  <2>1. \A c \in Children(topRange) : Above(R, topRange, c)
    BY <1>2, <1>4, Zenon DEF Above
  <2>2. QED BY <1>6, <2>1, Zenon
<1>8. Tree(R, L)
  BY <1>1, <1>2, <1>3, <1>4, <1>5, <1>7, Zenon DEF Tree
<1>9. \A t : elementsIn(NoElements, t) = {} /\ Cardinality(elementsIn(NoElements, t)) = 0
  <2>1. \A t : elementsIn(NoElements, t) = {}
    BY DEF elementsIn, NoElements
  <2>2. QED BY <2>1, FS_EmptySet, Zenon
<1>10. ASSUME NEW t \in L PROVE Hashed(NoElements, R, t)
  <2>1. CASE t = topRange
    <3>1. PICK H : H = [c \in Children(t) |-> R[c].hash]
      BY Zenon
    <3>2. \A c \in Children(t) : H[c] = <<>>
      BY <1>5, <2>1, <3>1, Zenon
    <3>3. calcDividedHash(H, t) = <<"divided", <<>>>>
      BY <3>2, EmptyDividedHash, Zenon
    <3>4. QED BY <1>4, <2>1, <3>1, <3>3, Zenon DEF Hashed
  <2>2. CASE t \in Children(topRange)
    <3>1. calcElementsHash(NoElements, t) = <<>>
      BY <1>9, Zenon DEF calcElementsHash
    <3>2. QED BY <1>5, <2>2, <3>1, Zenon DEF Hashed
  <2>3. QED BY <2>1, <2>2, Zenon
<1>11. ASSUME NEW t \in L
       PROVE Cardinality(elementsIn(NoElements, t)) <= R[t].n /\ (~R[t].div => R[t].n <= Size(t))
  <2>1. R[t].n = 0 /\ t \in Tuples
    BY <1>1, <1>2, <1>4, <1>5, Zenon
  <2>2. Size(t) \in Nat /\ Cardinality(elementsIn(NoElements, t)) = 0
    BY <1>9, <2>1, TupleType, Zenon
  <2>3. QED BY <2>1, <2>2
<1>12. Small(R)
  <2>1. CompareThreshold \in Nat
    BY LDiffAssumption
  <2>2. \A t \in L : R[t].n = 0
    BY <1>4, <1>5, Zenon
  <2>3. QED BY <1>3, <2>1, <2>2 DEF Small
<1>13. Whole(NoElements, R, L)
  BY <1>8, <1>10, <1>11, <1>12, Zenon DEF Whole
<1>14. NoElements \in Elements
  BY DEF NoElements, Elements
<1>15. QED BY <1>13, <1>14, Zenon DEF R

-----------------------------------------------------------------------------
(* Theorems *)

\* In every container the ranges that are reached from the top tell what its elements are.
\* The others, left behind when a range was put together again, may tell anything.
RangesAreRight ==
    /\ els \in [Replicas -> Elements] /\ DOMAIN ranges = Replicas
    /\ \A r \in Replicas : \E L : Whole(els[r], ranges[r], L)

\* Set keeps the invariant.
LEMMA SetKeeps ==
    ASSUME RangesAreRight, NEW r \in Replicas,
           NEW order \in Seq(Ids), \A i, j \in 1..Len(order) : order[i] = order[j] => i = j,
           NEW b, \A i \in 1..Len(order) : b[order[i]] \in Heads, Set(r, order, b)
    PROVE RangesAreRight'
<1>1. PICK L : Whole(els[r], ranges[r], L)
  BY Zenon DEF RangesAreRight
<1>2. els[r] \in Elements
  BY DEF RangesAreRight
<1>3. PICK x : x = setAll(<<els[r], ranges[r]>>, order, b)
  BY Zenon
<1> DEFINE D == {order[i] : i \in 1..Len(order)}
<1>4. x[1] \in Elements /\ \E M : Partly(x[1], x[2], M, D)
  <2>1. PICK e, R : e = els[r] /\ R = ranges[r]
    BY Zenon
  <2>2. Whole(e, R, L) /\ e \in Elements
    BY <1>1, <1>2, <2>1, Zenon
  <2>3. PICK y : y = setAll(<<e, R>>, order, b)
    BY Zenon
  <2>4. y[1] \in Elements /\ \E M : Partly(y[1], y[2], M, D)
    BY <2>2, <2>3, SetAll
  <2>5. x = y
    BY <1>3, <2>1, <2>3, Zenon
  <2>6. QED BY <2>4, <2>5, Zenon
<1>5. PICK M : Partly(x[1], x[2], M, D)
  BY <1>4, Zenon
<1>6. D \subseteq 0..MaxHash
  <2>1. \A i \in 1..Len(order) : order[i] \in Ids
    OBVIOUS
  <2>2. QED BY <2>1, LDiffAssumption, Zenon
<1> HIDE DEF D
<1>7. Whole(x[1], recalculateHashes(x[1], x[2], D), M)
  BY <1>5, <1>6, Recalculate, Zenon
<1>8. els' = [els EXCEPT ![r] = x[1]] /\ ranges' = [ranges EXCEPT ![r] = recalculateHashes(x[1], x[2], D)]
  BY <1>3 DEF Set, D
<1>9. els' \in [Replicas -> Elements] /\ els'[r] = x[1] /\ \A q \in Replicas : q # r => els'[q] = els[q]
  BY <1>4, <1>8 DEF RangesAreRight
<1>10. /\ DOMAIN ranges' = Replicas /\ ranges'[r] = recalculateHashes(x[1], x[2], D)
       /\ \A q \in Replicas : q # r => ranges'[q] = ranges[q]
  BY <1>8 DEF RangesAreRight
<1>11. ASSUME NEW q \in Replicas PROVE \E K : Whole(els'[q], ranges'[q], K)
  <2>1. CASE q = r
    BY <1>7, <1>9, <1>10, <2>1, Zenon
  <2>2. CASE q # r
    <3>1. els'[q] = els[q] /\ ranges'[q] = ranges[q]
      BY <1>9, <1>10, <2>2, Zenon
    <3>2. \E K : Whole(els[q], ranges[q], K)
      BY Zenon DEF RangesAreRight
    <3>3. QED BY <3>1, <3>2, Zenon
  <2>3. QED BY <2>1, <2>2, Zenon
<1>12. QED BY <1>9, <1>10, <1>11, Zenon DEF RangesAreRight

\* RemoveId keeps the invariant.
LEMMA RemoveKeeps ==
    ASSUME RangesAreRight, NEW r \in Replicas, NEW h \in Ids, RemoveId(r, h)
    PROVE RangesAreRight'
<1>1. PICK L : Whole(els[r], ranges[r], L)
  BY Zenon DEF RangesAreRight
<1>2. els[r] \in Elements /\ els[r][h] # None
  BY DEF RangesAreRight, RemoveId
<1>3. PICK d : d = [els[r] EXCEPT ![h] = None]
  BY Zenon
<1>4. d \in Elements
  BY <1>2, <1>3 DEF Elements
<1>5. PICK M : Partly(d, removeElement(ranges[r], h), M, {h})
  BY <1>1, <1>2, <1>3, Remove
<1>6. {h} \subseteq 0..MaxHash
  BY LDiffAssumption
<1>7. PICK Q : Q = recalculateHashes(d, removeElement(ranges[r], h), {h})
  BY Zenon
<1>8. Whole(d, Q, M)
  BY <1>5, <1>6, <1>7, Recalculate, Zenon
<1>9. els' = [els EXCEPT ![r] = d] /\ ranges' = [ranges EXCEPT ![r] = Q]
  BY <1>3, <1>7 DEF RemoveId
<1>10. els' \in [Replicas -> Elements] /\ els'[r] = d /\ \A q \in Replicas : q # r => els'[q] = els[q]
  BY <1>4, <1>9 DEF RangesAreRight
<1>11. DOMAIN ranges' = Replicas /\ ranges'[r] = Q /\ \A q \in Replicas : q # r => ranges'[q] = ranges[q]
  BY <1>9 DEF RangesAreRight
<1>12. \A q \in Replicas : \E K : Whole(els'[q], ranges'[q], K)
  BY <1>8, <1>10, <1>11, Zenon DEF RangesAreRight
<1>13. QED BY <1>10, <1>11, <1>12, Zenon DEF RangesAreRight

\* However elements were set and removed, the ranges that are reached from the top have the
\* hashes of what is in the container.
THEOREM RangesAreRightTheorem == Spec => []RangesAreRight
<1>1. Init => RangesAreRight
  <2> SUFFICES ASSUME Init PROVE RangesAreRight
    OBVIOUS
  <2>1. els \in [Replicas -> Elements] /\ \A r \in Replicas : els[r] = NoElements
    BY NewIsWhole DEF Init
  <2>2. DOMAIN ranges = Replicas /\ \A r \in Replicas : ranges[r] = newHashRanges
    BY DEF Init
  <2>3. \A r \in Replicas : \E L : Whole(els[r], ranges[r], L)
    BY <2>1, <2>2, NewIsWhole, Zenon
  <2>4. QED BY <2>1, <2>2, <2>3, Zenon DEF RangesAreRight
<1>2. RangesAreRight /\ [Next]_vars => RangesAreRight'
  <2> SUFFICES ASSUME RangesAreRight, [Next]_vars PROVE RangesAreRight'
    OBVIOUS
  <2>1. ASSUME NEW r \in Replicas, NEW S \in SUBSET Ids, NEW h \in Heads, NEW order \in Orders(S),
               Set(r, order, [i \in S |-> h])
        PROVE RangesAreRight'
    <3>1. IsFiniteSet(S)
      <4>1. IsFiniteSet(0..MaxHash)
        BY LDiffAssumption, FS_Interval
      <4>2. S \in SUBSET (0..MaxHash)
        BY LDiffAssumption, Zenon
      <4>3. QED BY <4>1, <4>2, FS_Subset, Zenon
    <3>2. Cardinality(S) \in Nat
      BY <3>1, FS_CardinalityType, Zenon
    <3>3. order \in Seq(Ids) /\ order \in Seq(S) /\ Len(order) = Cardinality(S) /\ DOMAIN order = 1..Len(order)
      BY <3>2 DEF Orders
    <3>4. \A i, j \in 1..Len(order) : order[i] = order[j] => i = j
      BY <3>3, Zenon DEF Orders
    <3>5. PICK b : b = [i \in S |-> h]
      BY Zenon
    <3>6. \A i \in 1..Len(order) : order[i] \in S
      BY <3>3
    <3>7. \A i \in 1..Len(order) : b[order[i]] \in Heads
      BY <3>5, <3>6
    <3>8. Set(r, order, b)
      BY <2>1, <3>5, Zenon
    <3>9. QED BY <3>3, <3>4, <3>7, <3>8, SetKeeps, Zenon
  <2>2. ASSUME NEW r \in Replicas, NEW i \in Ids, NEW h \in Heads, Set(r, <<i>>, [j \in {i} |-> h])
        PROVE RangesAreRight'
    <3>1. PICK order, b : order = <<i>> /\ b = [j \in {i} |-> h]
      BY Zenon
    <3>2. order \in Seq(Ids) /\ \A k, j \in 1..Len(order) : order[k] = order[j] => k = j
      BY <3>1
    <3>3. \A k \in 1..Len(order) : b[order[k]] \in Heads
      BY <3>1
    <3>4. Set(r, order, b)
      BY <2>2, <3>1, Zenon
    <3>5. QED BY <3>2, <3>3, <3>4, SetKeeps, Zenon
  <2>3. ASSUME NEW r \in Replicas, NEW i \in Ids, RemoveId(r, i) PROVE RangesAreRight'
    BY <2>3, RemoveKeeps, Zenon
  <2>4. CASE UNCHANGED vars
    BY <2>4 DEF RangesAreRight, vars
  <2>5. CASE Next
    BY <2>1, <2>2, <2>3, <2>5, Zenon DEF Next
  <2>6. QED BY <2>4, <2>5
<1>3. QED BY <1>1, <1>2, PTL DEF Spec

\* If the ranges are right, the same hash means the same elements.
LEMMA RightIsSame == RangesAreRight => SameHashSameElements
<1> SUFFICES ASSUME RangesAreRight, NEW r \in Replicas, NEW q \in Replicas, Hash(r) = Hash(q)
             PROVE els[r] = els[q]
  BY Zenon DEF SameHashSameElements
<1>1. PICK L : Whole(els[r], ranges[r], L)
  BY Zenon DEF RangesAreRight
<1>2. PICK M : Whole(els[q], ranges[q], M)
  BY Zenon DEF RangesAreRight
<1>3. topRange \in L /\ topRange \in M
  BY <1>1, <1>2, Zenon DEF Whole, Tree
<1>4. elementsIn(els[r], topRange) = elementsIn(els[q], topRange)
  <2>1. /\ Tree(ranges[r], L) /\ \A t \in L : Hashed(els[r], ranges[r], t)
        /\ Tree(ranges[q], M) /\ \A t \in M : Hashed(els[q], ranges[q], t)
    BY <1>1, <1>2, Zenon DEF Whole
  <2>2. \A t \in L, u \in M : ranges[r][t].hash = ranges[q][u].hash =>
            elementsIn(els[r], t) = elementsIn(els[q], u)
    BY <2>1, SameHash
  <2>3. QED BY <1>3, <2>2, Zenon DEF Hash
<1>5. els[r] \in Elements /\ els[q] \in Elements
  BY DEF RangesAreRight
<1>6. ASSUME NEW d \in Elements, NEW e \in Elements, elementsIn(d, topRange) = elementsIn(e, topRange),
             NEW i \in Ids, d[i] # None
      PROVE e[i] = d[i]
  <2>1. i \in 0..MaxHash
    BY LDiffAssumption
  <2>2. <<i, d[i]>> \in elementsIn(d, topRange)
    BY <1>6, <2>1 DEF elementsIn, topRange
  <2>3. PICK j \in Ids : <<i, d[i]>> = <<j, e[j]>>
    BY <1>6, <2>2 DEF elementsIn
  <2>4. QED BY <2>3
<1>7. \A i \in Ids : els[r][i] = els[q][i]
  BY <1>4, <1>5, <1>6, Zenon
<1>8. QED BY <1>5, <1>7 DEF Elements

\* Two containers with the same hash have the same elements, whatever the ids and however
\* they were set and removed: the tree of ranges may differ for the same elements, but
\* never the other way round.
THEOREM SameHashTheorem == Spec => []SameHashSameElements
BY RangesAreRightTheorem, RightIsSame, PTL

-----------------------------------------------------------------------------
(* The comparison *)

\* What a container answers.
LEMMA Answer ==
    ASSUME NEW r, NEW t
    PROVE /\ getRange(r, t, TRUE).elements = elementsIn(els[r], t)
          /\ hasElements(getRange(r, t, TRUE))
          /\ getRange(r, t, TRUE).hash = getRange(r, t, FALSE).hash
          /\ t \in DOMAIN ranges[r] =>
                /\ getRange(r, t, FALSE).hash = ranges[r][t].hash
                /\ getRange(r, t, FALSE).elements = {}
                /\ getRange(r, t, FALSE).count = ranges[r][t].n
                /\ hasElements(getRange(r, t, FALSE)) <=> ranges[r][t].n = 0
          /\ t \notin DOMAIN ranges[r] =>
                /\ getRange(r, t, FALSE).hash = <<>>
                /\ getRange(r, t, FALSE).elements = elementsIn(els[r], t)
                /\ hasElements(getRange(r, t, FALSE))
<1> DEFINE E == elementsIn(els[r], t)
<1>1. PICK a : a = getRange(r, t, TRUE)
  OBVIOUS
<1>2. PICK b : b = getRange(r, t, FALSE)
  OBVIOUS
<1>3. /\ a.elements = E /\ a.count = Cardinality(E)
      /\ a.hash = IF t \in DOMAIN ranges[r] THEN ranges[r][t].hash ELSE <<>>
  BY <1>1 DEF getRange
<1>4. /\ b.elements = IF t \in DOMAIN ranges[r] THEN {} ELSE E
      /\ b.count = IF t \in DOMAIN ranges[r] THEN ranges[r][t].n ELSE Cardinality(E)
      /\ b.hash = IF t \in DOMAIN ranges[r] THEN ranges[r][t].hash ELSE <<>>
  BY <1>2 DEF getRange
<1>5. Cardinality({}) = 0
  BY FS_EmptySet
<1> HIDE DEF E
<1>6. hasElements(a) /\ a.hash = b.hash
  BY <1>3, <1>4, Zenon DEF hasElements
<1>7. t \in DOMAIN ranges[r] => (hasElements(b) <=> ranges[r][t].n = 0)
  BY <1>4, <1>5 DEF hasElements
<1>8. t \notin DOMAIN ranges[r] => hasElements(b)
  BY <1>4 DEF hasElements
<1>9. QED BY <1>1, <1>2, <1>3, <1>4, <1>6, <1>7, <1>8, Zenon DEF E

\* One step of compareResults, where f has the results of the others.
Compared(r, q, greater, f, x) ==
    LET t == x[1]
        my == getRange(r, t, x[2])
        other == getRange(q, t, x[2])
    IN IF my.hash = other.hash THEN NoDiff
       ELSE IF hasElements(other) THEN compareFunc(greater, myElements(r, t, my), other.elements)
       ELSE IF \/ other.count <= CompareThreshold /\ other.elements = {}
               \/ hasElements(my)
            THEN f[<<t, TRUE>>]
       ELSE Merge({f[<<c, FALSE>>] : c \in rangesBelow(t)})

\* Only wide ranges of q are asked for in parts, because the others have few elements.
LEMMA AskedInParts ==
    ASSUME NEW q, NEW M, Whole(els[q], ranges[q], M), NEW x \in Tuples \X BOOLEAN,
           ~hasElements(getRange(q, x[1], x[2]))
    PROVE /\ x = <<x[1], FALSE>> /\ x[1] \in DOMAIN ranges[q]
          /\ ~(/\ getRange(q, x[1], x[2]).count <= CompareThreshold
               /\ getRange(q, x[1], x[2]).elements = {}) => ranges[q][x[1]].div /\ Wide(x[1])
<1> DEFINE t == x[1]
           Q == ranges[q]
<1>1. x[2] = FALSE /\ x = <<t, FALSE>>
  <2>1. x[2] \in BOOLEAN /\ x = <<x[1], x[2]>>
    OBVIOUS
  <2>2. x[2] # TRUE
    BY Answer, Zenon
  <2>3. x[2] = FALSE
    BY <2>1, <2>2, Zenon
  <2>4. QED BY <2>1, <2>3, Zenon
<1>2. t \in DOMAIN Q
  BY <1>1, Answer, Zenon
<1>3. getRange(q, t, FALSE).count = Q[t].n /\ getRange(q, t, FALSE).elements = {}
  BY <1>2, Answer, Zenon
<1>4. Q[t].div \in BOOLEAN /\ (Q[t].div => Wide(t)) /\ (~Q[t].div => Q[t].n <= CompareThreshold)
  BY <1>2, Zenon DEF Whole, Tree, IsRange, Small
<1>5. QED BY <1>1, <1>2, <1>3, <1>4, Zenon

\* f has the result for every range, and for all of its elements.
Compares(r, q, greater, f) ==
    \A x \in Tuples \X BOOLEAN : f[x] = Compared(r, q, greater, f, x)

\* compareResults is the result for the top range of the function that its equation defines.
LEMMA ComparedDef ==
    ASSUME NEW r, NEW q, NEW greater, NEW M, Whole(els[q], ranges[q], M)
    PROVE \E f : compareResults(r, q, greater) = f[<<topRange, FALSE>>] /\ Compares(r, q, greater, f)
<1> DEFINE Def(g, x) == Compared(r, q, greater, g, x)
           X == Tuples \X BOOLEAN
           Rank(x) == 2 * Size(x[1]) - (IF x[2] THEN 1 ELSE 0)
           Up(n) == {x \in X : Rank(x) <= n}
           Rec(g, n) == [x \in Up(n) |-> Def(g, x)]
           S == {n \in Nat : \E g : g = Rec(g, n)}
           N == 2 * (MaxHash + 1)
<1>0. N \in Nat
  BY LDiffAssumption
<1>a. \A x \in X : Rank(x) \in 1..N
  <2> TAKE x \in X
  <2>1. x[1] \in Tuples /\ x[2] \in BOOLEAN
    OBVIOUS
  <2>2. Size(x[1]) \in 1..MaxHash + 1
    BY <2>1, TupleType, LDiffAssumption DEF Size
  <2> HIDE DEF X
  <2>3. QED BY <2>1, <2>2, LDiffAssumption
<1>b. \A t \in Tuples : <<t, TRUE>> \in X /\ <<t, FALSE>> \in X /\ Rank(<<t, TRUE>>) < Rank(<<t, FALSE>>)
  <2> TAKE t \in Tuples
  <2>1. <<t, TRUE>> \in X /\ <<t, FALSE>> \in X
    OBVIOUS
  <2>2. Rank(<<t, TRUE>>) = 2 * Size(t) - 1 /\ Rank(<<t, FALSE>>) = 2 * Size(t) - 0
    OBVIOUS
  <2>3. Size(t) \in Int
    BY TupleType
  <2> HIDE DEF X, Rank
  <2>4. QED BY <2>1, <2>2, <2>3
<1>c. \A t, u \in Tuples : Size(u) < Size(t) => Rank(<<u, FALSE>>) < Rank(<<t, FALSE>>)
  BY TupleType
<1> HIDE DEF N, Rank
<1>1. 0 \in S
  <2>1. Up(0) = {}
    BY <1>a
  <2>2. [x \in Up(0) |-> Def(0, x)] = Rec([x \in Up(0) |-> Def(0, x)], 0)
    BY <2>1
  <2>3. QED BY <2>2
<1>2. ASSUME NEW i \in 1..N, i - 1 \in S PROVE i \in S
  <2>1. PICK g : g = Rec(g, i - 1)
    BY <1>2
  <2> DEFINE f == [x \in Up(i) |-> Def(g, x)]
  <2>a. ASSUME NEW x \in Up(i), NEW y \in X, Rank(y) < Rank(x) PROVE f[y] = g[y]
    <3>1. Rank(x) <= i /\ Rank(x) \in Int /\ Rank(y) \in Int /\ i \in Int /\ x \in X
      BY <1>a, <2>a, <1>0
    <3>2. Rank(y) <= i - 1 /\ Rank(y) <= i
      BY <2>a, <3>1
    <3>3. y \in Up(i - 1) /\ y \in Up(i)
      BY <3>2, Zenon
    <3>4. f[y] = Def(g, y)
      BY <3>3, Zenon
    <3>5. g[y] = Def(g, y)
      BY <2>1, <3>3, Zenon
    <3>6. QED BY <3>4, <3>5, Zenon
  <2> HIDE DEF f
  <2>2. ASSUME NEW x \in Up(i) PROVE Def(f, x) = Def(g, x)
    <3> DEFINE t == x[1]
               my == getRange(r, t, x[2])
               other == getRange(q, t, x[2])
               few == other.count <= CompareThreshold /\ other.elements = {}
    <3>1. x \in X /\ t \in Tuples
      OBVIOUS
    <3>2. CASE my.hash = other.hash \/ hasElements(other)
      BY <3>2, Zenon DEF Compared
    <3>3. CASE ~hasElements(other) /\ (few \/ hasElements(my))
      <4>1. x = <<t, FALSE>>
        BY <3>1, <3>3, AskedInParts, Zenon
      <4>2. f[<<t, TRUE>>] = g[<<t, TRUE>>]
        BY <1>b, <2>a, <3>1, <4>1, Zenon
      <4>3. QED BY <3>3, <4>2, Zenon DEF Compared
    <3>4. CASE ~hasElements(other) /\ ~(few \/ hasElements(my))
      <4>1. x = <<t, FALSE>> /\ Wide(t)
        BY <3>1, <3>4, AskedInParts, Zenon
      <4>2. ASSUME NEW c \in rangesBelow(t) PROVE f[<<c, FALSE>>] = g[<<c, FALSE>>]
        <5>1. c \in Tuples /\ Size(c) < Size(t)
          BY <3>1, <4>1, ChildrenOf, Zenon DEF rangesBelow
        <5>2. QED BY <1>b, <1>c, <2>a, <3>1, <4>1, <5>1, Zenon
      <4>3. {f[<<c, FALSE>>] : c \in rangesBelow(t)} = {g[<<c, FALSE>>] : c \in rangesBelow(t)}
        BY <4>2, Zenon
      <4>4. QED BY <3>4, <4>3, Zenon DEF Compared
    <3>5. QED BY <3>2, <3>3, <3>4, Zenon
  <2> HIDE DEF Def
  <2>3. f = Rec(f, i)
    BY <2>2, Zenon DEF f
  <2>4. i \in Nat
    BY <1>0
  <2> HIDE DEF Rec
  <2>5. QED BY <2>3, <2>4, Zenon
<1> HIDE DEF Def, S
<1>3. 0..N \subseteq S
  BY <1>0, <1>1, <1>2, RangeInduction, Zenon
<1>4. \E g : g = Rec(g, N)
  <2>1. N \in S
    BY <1>0, <1>3
  <2>2. QED BY <2>1, Zenon DEF S
<1>5. Up(N) = X
  BY <1>0, <1>a
<1>6. \E g : g = [x \in X |-> Def(g, x)]
  BY <1>4, <1>5, Zenon
<1>7. PICK f : f = CHOOSE g : g = [x \in X |-> Def(g, x)]
  OBVIOUS
<1>8. f = [x \in X |-> Def(f, x)]
  BY <1>6, <1>7, Zenon
<1>9. Compares(r, q, greater, f)
  BY <1>8, Zenon DEF Def, Compares
<1>10. compareResults(r, q, greater) = f[<<topRange, FALSE>>]
  BY <1>7, Zenon DEF compareResults, Def, Compared
<1>11. QED BY <1>9, <1>10, Zenon

\* D is what the elements my and other differ in.
Reports(D, greater, my, other) ==
    /\ D["new"] = {x[1] : x \in other} \ {x[1] : x \in my}
    /\ D["removed"] = {x[1] : x \in my} \ {x[1] : x \in other}
    /\ ~greater => /\ D["changed"] = {p[1][1] : p \in {x \in Pairs(my, other) : x[1][2] # x[2][2]}}
                   /\ D["their"] = {}
    /\ greater => /\ D["changed"] = {p[1][1] : p \in {x \in Pairs(my, other) : x[1][2] > x[2][2]}}
                  /\ D["their"] = {p[1][1] : p \in {x \in Pairs(my, other) : x[1][2] < x[2][2]}}

\* compareFunc reports what the elements differ in.
LEMMA CompareIs ==
    ASSUME NEW greater \in BOOLEAN, NEW my, NEW other
    PROVE Reports(compareFunc(greater, my, other), greater, my, other)
<1>1. CASE ~greater
  BY <1>1 DEF Reports, compareFunc, compareElementsEqual
<1>2. CASE greater
  BY <1>2 DEF Reports, compareFunc, compareElementsGreater, compareElementsEqual
<1>3. QED BY <1>1, <1>2

Both(r, q, i) == els[r][i] # None /\ els[q][i] # None /\ els[r][i] # els[q][i]

\* All that D reports is so.
Sound(r, q, greater, D) ==
    /\ \A i \in D["new"] : i \in Ids /\ els[q][i] # None /\ els[r][i] = None
    /\ \A i \in D["removed"] : i \in Ids /\ els[r][i] # None /\ els[q][i] = None
    /\ \A i \in D["changed"] : i \in Ids /\ Both(r, q, i) /\ (greater => els[r][i] > els[q][i])
    /\ \A i \in D["their"] : i \in Ids /\ Both(r, q, i) /\ greater /\ els[r][i] < els[q][i]

\* D reports everything of q in the range t that r does not have.
Complete(r, q, D, t) ==
    \A i \in Ids : Has(t, i) /\ els[q][i] # None =>
        /\ els[r][i] = None => i \in D["new"]
        /\ Both(r, q, i) => i \in D["changed"] \cup D["their"]

\* An element of a range is the id and the head of one that is set.
LEMMA ElementIs ==
    ASSUME NEW e, NEW t, NEW x \in elementsIn(e, t)
    PROVE x[1] \in Ids /\ Has(t, x[1]) /\ e[x[1]] # None /\ x[2] = e[x[1]]
BY DEF elementsIn, Has

\* The ids of a set of elements.
LEMMA IdsOf ==
    ASSUME NEW e, NEW t, NEW i
    PROVE i \in {x[1] : x \in elementsIn(e, t)} <=> i \in Ids /\ Has(t, i) /\ e[i] # None
<1>1. ASSUME NEW x \in elementsIn(e, t) PROVE x[1] \in Ids /\ Has(t, x[1]) /\ e[x[1]] # None
  BY ElementIs, Zenon
<1>2. ASSUME i \in Ids, Has(t, i), e[i] # None PROVE \E x \in elementsIn(e, t) : i = x[1]
  <2>1. <<i, e[i]>> \in elementsIn(e, t)
    BY <1>2, Zenon DEF elementsIn, Has
  <2>2. i = <<i, e[i]>>[1]
    OBVIOUS
  <2>3. QED BY <2>1, <2>2, Zenon
<1>3. QED BY <1>1, <1>2

\* The elements of both containers in a range are compared soundly and completely.
LEMMA CompareElements ==
    ASSUME els \in [Replicas -> Elements], NEW r \in Replicas, NEW q \in Replicas,
           NEW greater \in BOOLEAN, NEW t, NEW D,
           D = compareFunc(greater, elementsIn(els[r], t), elementsIn(els[q], t))
    PROVE Sound(r, q, greater, D) /\ Complete(r, q, D, t)
<1> DEFINE my == elementsIn(els[r], t)
           other == elementsIn(els[q], t)
           mine == {x[1] : x \in my}
           others == {x[1] : x \in other}
<1>1. \A i : /\ i \in mine <=> i \in Ids /\ Has(t, i) /\ els[r][i] # None
             /\ i \in others <=> i \in Ids /\ Has(t, i) /\ els[q][i] # None
  BY IdsOf, Zenon
<1>0. Reports(D, greater, my, other)
  BY CompareIs, Zenon
<1>2. D["new"] = others \ mine /\ D["removed"] = mine \ others
  BY <1>0, Zenon DEF Reports
<1>3. ASSUME NEW p \in Pairs(my, other)
      PROVE /\ p[1][1] \in Ids /\ Has(t, p[1][1])
            /\ els[r][p[1][1]] # None /\ els[q][p[1][1]] # None
            /\ p[1][2] = els[r][p[1][1]] /\ p[2][2] = els[q][p[1][1]]
  <2>1. p[1] \in my /\ p[2] \in other /\ p[1][1] = p[2][1]
    BY DEF Pairs
  <2>2. PICK x, y : x = p[1] /\ y = p[2]
    BY Zenon
  <2>3. x \in my /\ y \in other /\ x[1] = y[1]
    BY <2>1, <2>2, Zenon
  <2>4. x[1] \in Ids /\ Has(t, x[1]) /\ els[r][x[1]] # None /\ x[2] = els[r][x[1]]
    BY <2>3, ElementIs, Zenon
  <2>5. els[q][y[1]] # None /\ y[2] = els[q][y[1]]
    BY <2>3, ElementIs, Zenon
  <2>6. QED BY <2>2, <2>3, <2>4, <2>5, Zenon
<1>4. ASSUME NEW i \in Ids, Has(t, i), els[r][i] # None, els[q][i] # None
      PROVE \E p \in Pairs(my, other) : p[1][1] = i /\ p[1][2] = els[r][i] /\ p[2][2] = els[q][i]
  <2> DEFINE x == <<i, els[r][i]>>
             y == <<i, els[q][i]>>
  <2>1. x \in my /\ y \in other
    BY <1>4, Zenon DEF elementsIn, Has
  <2>2. x[1] = i /\ y[1] = i /\ x[2] = els[r][i] /\ y[2] = els[q][i]
    OBVIOUS
  <2> HIDE DEF x, y, my, other
  <2>3. <<x, y>> \in Pairs(my, other) /\ <<x, y>>[1] = x /\ <<x, y>>[2] = y
    BY <2>1, <2>2 DEF Pairs
  <2>4. QED BY <2>2, <2>3, Zenon
<1>5. ASSUME NEW i \in Ids, Both(r, q, i) PROVE els[r][i] \in Nat /\ els[q][i] \in Nat
  BY <1>5, LDiffAssumption DEF Both, Elements
<1>6. CASE ~greater
  <2>1. D["changed"] = {p[1][1] : p \in {x \in Pairs(my, other) : x[1][2] # x[2][2]}} /\ D["their"] = {}
    BY <1>0, <1>6, Zenon DEF Reports
  <2> HIDE DEF my, other, mine, others
  <2>2. \A i : i \in D["changed"] <=> i \in Ids /\ Has(t, i) /\ Both(r, q, i)
    <3> TAKE i
    <3>1. ASSUME i \in D["changed"] PROVE i \in Ids /\ Has(t, i) /\ Both(r, q, i)
      <4>1. PICK p \in Pairs(my, other) : p[1][2] # p[2][2] /\ i = p[1][1]
        BY <2>1, <3>1, Zenon
      <4>2. QED BY <1>3, <4>1, Zenon DEF Both
    <3>2. ASSUME i \in Ids, Has(t, i), Both(r, q, i) PROVE i \in D["changed"]
      <4>1. PICK p \in Pairs(my, other) : p[1][1] = i /\ p[1][2] = els[r][i] /\ p[2][2] = els[q][i]
        BY <1>4, <3>2, Zenon DEF Both
      <4>2. p[1][2] # p[2][2]
        BY <3>2, <4>1, Zenon DEF Both
      <4>3. QED BY <2>1, <4>1, <4>2, Zenon
    <3>3. QED BY <3>1, <3>2, Zenon
  <2>3. Sound(r, q, greater, D)
    BY <1>1, <1>2, <1>6, <2>1, <2>2, Zenon DEF Sound
  <2>4. Complete(r, q, D, t)
    BY <1>1, <1>2, <2>2, Zenon DEF Complete
  <2>5. QED BY <2>3, <2>4
<1>7. CASE greater
  <2>1. /\ D["changed"] = {p[1][1] : p \in {x \in Pairs(my, other) : x[1][2] > x[2][2]}}
        /\ D["their"] = {p[1][1] : p \in {x \in Pairs(my, other) : x[1][2] < x[2][2]}}
    BY <1>0, <1>7, Zenon DEF Reports
  <2> HIDE DEF my, other, mine, others
  <2>2. ASSUME NEW i
        PROVE /\ i \in D["changed"] => i \in Ids /\ Both(r, q, i) /\ els[r][i] > els[q][i]
              /\ i \in D["their"] => i \in Ids /\ Both(r, q, i) /\ els[r][i] < els[q][i]
    <3>1. ASSUME i \in D["changed"] PROVE i \in Ids /\ Both(r, q, i) /\ els[r][i] > els[q][i]
      <4>1. PICK p \in Pairs(my, other) : p[1][2] > p[2][2] /\ i = p[1][1]
        BY <2>1, <3>1, Zenon
      <4>2. i \in Ids /\ els[r][i] # None /\ els[q][i] # None /\ els[r][i] > els[q][i]
        BY <1>3, <4>1, Zenon
      <4>3. els[r][i] \in Nat /\ els[q][i] \in Nat
        BY <4>2, LDiffAssumption DEF Elements
      <4>4. els[r][i] # els[q][i]
        BY <4>2, <4>3
      <4>5. QED BY <4>2, <4>4, Zenon DEF Both
    <3>2. ASSUME i \in D["their"] PROVE i \in Ids /\ Both(r, q, i) /\ els[r][i] < els[q][i]
      <4>1. PICK p \in Pairs(my, other) : p[1][2] < p[2][2] /\ i = p[1][1]
        BY <2>1, <3>2, Zenon
      <4>2. i \in Ids /\ els[r][i] # None /\ els[q][i] # None /\ els[r][i] < els[q][i]
        BY <1>3, <4>1, Zenon
      <4>3. els[r][i] \in Nat /\ els[q][i] \in Nat
        BY <4>2, LDiffAssumption DEF Elements
      <4>4. els[r][i] # els[q][i]
        BY <4>2, <4>3
      <4>5. QED BY <4>2, <4>4, Zenon DEF Both
    <3>3. QED BY <3>1, <3>2, Zenon
  <2>3. ASSUME NEW i \in Ids, Has(t, i), Both(r, q, i) PROVE i \in D["changed"] \cup D["their"]
    <3>1. PICK p \in Pairs(my, other) : p[1][1] = i /\ p[1][2] = els[r][i] /\ p[2][2] = els[q][i]
      BY <1>4, <2>3, Zenon DEF Both
    <3>2. els[r][i] > els[q][i] \/ els[r][i] < els[q][i]
      BY <1>5, <2>3 DEF Both
    <3>3. p[1][2] > p[2][2] \/ p[1][2] < p[2][2]
      BY <3>1, <3>2, Zenon
    <3>4. QED BY <2>1, <3>1, <3>3, Zenon
  <2>4. Sound(r, q, greater, D)
    BY <1>1, <1>2, <1>7, <2>2, Zenon DEF Sound
  <2>5. Complete(r, q, D, t)
    BY <1>1, <1>2, <2>3, Zenon DEF Complete
  <2>6. QED BY <2>4, <2>5
<1>8. QED BY <1>6, <1>7

\* So it is when q has no elements in the range.
LEMMA CompareWithNone ==
    ASSUME NEW r, NEW q, NEW greater \in BOOLEAN, NEW t, elementsIn(els[q], t) = {},
           NEW X, X \subseteq elementsIn(els[r], t)
    PROVE Sound(r, q, greater, compareFunc(greater, X, {}))
<1>1. PICK D : D = compareFunc(greater, X, {})
  OBVIOUS
<1>2. Reports(D, greater, X, {})
  BY <1>1, CompareIs, Zenon
<1>3. Pairs(X, {}) = {}
  BY DEF Pairs
<1>4. D["new"] = {} /\ D["changed"] = {} /\ D["their"] = {} /\ D["removed"] = {x[1] : x \in X}
  BY <1>2, <1>3 DEF Reports
<1>5. ASSUME NEW x \in X PROVE x[1] \in Ids /\ els[r][x[1]] # None /\ els[q][x[1]] = None
  <2>1. x[1] \in Ids /\ Has(t, x[1]) /\ els[r][x[1]] # None
    BY ElementIs, Zenon
  <2>2. QED BY <2>1 DEF elementsIn, Has
<1>6. Sound(r, q, greater, D)
  BY <1>4, <1>5, Zenon DEF Sound
<1>7. QED BY <1>1, <1>6, Zenon

\* An id is in the merged report if it is in one of them.
LEMMA MergeIs ==
    ASSUME NEW DD, NEW k \in Kinds, NEW i
    PROVE i \in Merge(DD)[k] <=> \E D \in DD : i \in D[k]
BY DEF Merge

\* What is found in the parts of a range is found in the range.
LEMMA MergedParts ==
    ASSUME NEW r, NEW q, NEW greater, NEW t \in Tuples, Wide(t), NEW f,
           \A c \in rangesBelow(t) : Sound(r, q, greater, f[<<c, FALSE>>]),
           NEW all \in BOOLEAN,
           all => \A c \in rangesBelow(t) : Complete(r, q, f[<<c, FALSE>>], c),
           NEW D, D = Merge({f[<<c, FALSE>>] : c \in rangesBelow(t)})
    PROVE Sound(r, q, greater, D) /\ (all => Complete(r, q, D, t))
<1> DEFINE DD == {f[<<c, FALSE>>] : c \in rangesBelow(t)}
<1>1. ASSUME NEW k \in Kinds, NEW i
      PROVE i \in D[k] <=> \E c \in rangesBelow(t) : i \in f[<<c, FALSE>>][k]
  <2>1. i \in D[k] <=> \E d \in DD : i \in d[k]
    BY MergeIs, Zenon
  <2>2. QED BY <2>1, Zenon
<1>2. "new" \in Kinds /\ "removed" \in Kinds /\ "changed" \in Kinds /\ "their" \in Kinds
  BY DEF Kinds
<1>3. Sound(r, q, greater, D)
  BY <1>1, <1>2, Zenon DEF Sound
<1>4. ASSUME all PROVE Complete(r, q, D, t)
  <2> SUFFICES ASSUME NEW i \in Ids, Has(t, i), els[q][i] # None
               PROVE /\ els[r][i] = None => i \in D["new"]
                     /\ Both(r, q, i) => i \in D["changed"] \cup D["their"]
    BY Zenon DEF Complete
  <2>1. PICK c \in rangesBelow(t) : Has(c, i)
    BY ChildrenOf, Zenon DEF rangesBelow, Has
  <2>2. /\ els[r][i] = None => i \in f[<<c, FALSE>>]["new"]
        /\ Both(r, q, i) => i \in f[<<c, FALSE>>]["changed"] \cup f[<<c, FALSE>>]["their"]
    BY <1>4, <2>1, Zenon DEF Complete
  <2>3. QED BY <1>1, <1>2, <2>1, <2>2, Zenon
<1>5. QED BY <1>3, <1>4, Zenon

\* Two containers answer the same hash for a range only if they have the same elements
\* there, when no range of r was left behind.
LEMMA SameAnswer ==
    ASSUME NEW r, NEW L, Whole(els[r], ranges[r], L), DOMAIN ranges[r] \subseteq L,
           NEW q, NEW M, Whole(els[q], ranges[q], M),
           NEW t \in M, getRange(r, t, FALSE).hash = getRange(q, t, FALSE).hash
    PROVE elementsIn(els[q], t) # {} => elementsIn(els[r], t) = elementsIn(els[q], t)
<1>1. /\ Tree(ranges[q], M) /\ t \in DOMAIN ranges[q] /\ ranges[q][t].div \in BOOLEAN
      /\ Hashed(els[q], ranges[q], t) /\ \A u \in M : Hashed(els[q], ranges[q], u)
  BY Zenon DEF Whole, Tree, IsRange
<1>2. Tree(ranges[r], L) /\ \A u \in L : Hashed(els[r], ranges[r], u)
  BY Zenon DEF Whole
<1>3. getRange(q, t, FALSE).hash = ranges[q][t].hash
  BY <1>1, Answer, Zenon
<1>4. CASE t \in DOMAIN ranges[r]
  <2>1. getRange(r, t, FALSE).hash = ranges[r][t].hash /\ t \in L
    BY <1>4, Answer, Zenon
  <2>2. ranges[r][t].hash = ranges[q][t].hash
    BY <1>3, <2>1, Zenon
  <2>3. QED BY <1>1, <1>2, <2>1, <2>2, SameHash
<1>5. CASE t \notin DOMAIN ranges[r]
  <2>1. ranges[q][t].hash = <<>>
    BY <1>3, <1>5, Answer, Zenon
  <2>2. QED BY <1>1, <2>1, NotEmpty
<1>6. QED BY <1>4, <1>5

\* A range and a flag are the argument of a comparison.
LEMMA PairOf ==
    ASSUME NEW t \in Tuples, NEW b \in BOOLEAN
    PROVE \E x \in Tuples \X BOOLEAN : x = <<t, b>> /\ x[1] = t /\ x[2] = b
<1>1. <<t, b>> \in Tuples \X BOOLEAN /\ <<t, b>>[1] = t /\ <<t, b>>[2] = b
  OBVIOUS
<1>2. QED BY <1>1, Zenon

\* What is found in a range that q has reached from its top is so, and nothing of q is missed.
LEMMA ComparesRight ==
    ASSUME els \in [Replicas -> Elements], NEW r \in Replicas, NEW q \in Replicas,
           NEW greater \in BOOLEAN, NEW L, Whole(els[r], ranges[r], L),
           NEW M, Whole(els[q], ranges[q], M),
           NEW all \in BOOLEAN, all => DOMAIN ranges[r] \subseteq L,
           NEW f, Compares(r, q, greater, f)
    PROVE \A t \in M : /\ Sound(r, q, greater, f[<<t, FALSE>>])
                       /\ all => Complete(r, q, f[<<t, FALSE>>], t)
<1> DEFINE Right(t) == /\ Sound(r, q, greater, f[<<t, FALSE>>])
                       /\ all => Complete(r, q, f[<<t, FALSE>>], t)
           S == {t \in Tuples : t \in M => Right(t)}
<1>1. ASSUME NEW t \in Tuples, \A u \in Tuples : Size(u) < Size(t) => u \in S PROVE t \in S
  <2> SUFFICES ASSUME t \in M PROVE Right(t)
    BY Zenon
  <2> DEFINE my == getRange(r, t, FALSE)
             other == getRange(q, t, FALSE)
             E == elementsIn(els[r], t)
             F == elementsIn(els[q], t)
  <2>1. /\ t \in DOMAIN ranges[q] /\ ranges[q][t].n \in Int
        /\ Cardinality(F) <= ranges[q][t].n /\ Cardinality(F) \in Nat
        /\ ranges[q][t].div => Wide(t) /\ Children(t) \subseteq M
    BY Count, Zenon DEF Whole, Tree, IsRange
  <2>2. other.elements = {} /\ other.count = ranges[q][t].n /\ (hasElements(other) => ranges[q][t].n = 0)
    BY <2>1, Answer, Zenon
  <2>3. f[<<t, TRUE>>] = IF my.hash = other.hash THEN NoDiff ELSE compareFunc(greater, E, F)
    <3>1. PICK x \in Tuples \X BOOLEAN : x = <<t, TRUE>> /\ x[1] = t /\ x[2] = TRUE
      BY PairOf, Zenon
    <3>2. /\ hasElements(getRange(q, t, TRUE)) /\ hasElements(getRange(r, t, TRUE))
          /\ getRange(q, t, TRUE).elements = F /\ getRange(r, t, TRUE).elements = E
          /\ getRange(r, t, TRUE).hash = my.hash /\ getRange(q, t, TRUE).hash = other.hash
      BY Answer, Zenon
    <3>3. myElements(r, t, getRange(r, t, TRUE)) = E
      BY <3>2, Zenon DEF myElements
    <3>4. f[x] = Compared(r, q, greater, f, x)
      BY Zenon DEF Compares
    <3> HIDE DEF my, other, E, F
    <3>5. QED BY <3>1, <3>2, <3>3, <3>4, Zenon DEF Compared
  <2>4. f[<<t, FALSE>>] =
           IF my.hash = other.hash THEN NoDiff
           ELSE IF hasElements(other) THEN compareFunc(greater, myElements(r, t, my), {})
           ELSE IF ranges[q][t].n <= CompareThreshold \/ hasElements(my) THEN f[<<t, TRUE>>]
           ELSE Merge({f[<<c, FALSE>>] : c \in rangesBelow(t)})
    <3>1. PICK x \in Tuples \X BOOLEAN : x = <<t, FALSE>> /\ x[1] = t /\ x[2] = FALSE
      BY PairOf, Zenon
    <3>2. f[x] = Compared(r, q, greater, f, x)
      BY Zenon DEF Compares
    <3>3. QED BY <2>2, <3>1, <3>2, Zenon DEF Compared
  <2>5. CASE my.hash = other.hash
    <3>1. f[<<t, FALSE>>] = NoDiff
      BY <2>4, <2>5, Zenon
    <3>2. Sound(r, q, greater, NoDiff)
      BY DEF Sound, NoDiff, Kinds
    <3>3. ASSUME all PROVE Complete(r, q, NoDiff, t)
      <4>1. F # {} => E = F
        BY <2>5, <3>3, SameAnswer, Zenon
      <4>2. ASSUME NEW i \in Ids, Has(t, i), els[q][i] # None PROVE els[r][i] = els[q][i]
        <5>1. <<i, els[q][i]>> \in F
          BY <4>2, Zenon DEF elementsIn, Has
        <5>2. <<i, els[q][i]>> \in E
          BY <4>1, <5>1, Zenon
        <5>3. QED BY <5>2 DEF elementsIn
      <4>3. QED BY <4>2, Zenon DEF Complete, Both
    <3>4. QED BY <3>1, <3>2, <3>3, Zenon
  <2>6. CASE my.hash # other.hash /\ hasElements(other)
    <3>1. Cardinality(F) = 0
      BY <2>1, <2>2, <2>6
    <3>2. F = {}
      BY <3>1, Count, FS_EmptySet, Zenon
    <3>3. myElements(r, t, my) \subseteq E
      <4>1. getRange(r, t, TRUE).elements = E /\ (my.elements = {} \/ my.elements = E)
        BY Answer, Zenon
      <4>2. QED BY <4>1, Zenon DEF myElements
    <3>4. f[<<t, FALSE>>] = compareFunc(greater, myElements(r, t, my), {})
      BY <2>4, <2>6, Zenon
    <3>5. Sound(r, q, greater, f[<<t, FALSE>>])
      BY <3>2, <3>3, <3>4, CompareWithNone, Zenon
    <3>6. ASSUME NEW i \in Ids, Has(t, i), els[q][i] # None PROVE FALSE
      BY <3>2, <3>6, Zenon DEF elementsIn, Has
    <3>7. QED BY <3>5, <3>6, Zenon DEF Complete
  <2>7. CASE /\ my.hash # other.hash /\ ~hasElements(other)
             /\ ranges[q][t].n <= CompareThreshold \/ hasElements(my)
    <3>1. f[<<t, FALSE>>] = compareFunc(greater, E, F)
      BY <2>3, <2>4, <2>7, Zenon
    <3>2. QED BY <3>1, CompareElements, Zenon
  <2>8. CASE /\ my.hash # other.hash /\ ~hasElements(other)
             /\ ~(ranges[q][t].n <= CompareThreshold \/ hasElements(my))
    <3>1. f[<<t, FALSE>>] = Merge({f[<<c, FALSE>>] : c \in rangesBelow(t)})
      BY <2>4, <2>8, Zenon
    <3>2. ranges[q][t].div
      BY <2>1, <2>8, Zenon DEF Whole, Small
    <3>3. ASSUME NEW c \in rangesBelow(t) PROVE Right(c)
      <4>1. c \in Tuples /\ Size(c) < Size(t) /\ c \in M
        BY <2>1, <3>2, ChildrenOf, Zenon DEF rangesBelow
      <4>2. c \in S
        BY <1>1, <4>1, Zenon
      <4>3. QED BY <4>1, <4>2, Zenon
    <3>4. /\ \A c \in rangesBelow(t) : Sound(r, q, greater, f[<<c, FALSE>>])
          /\ all => \A c \in rangesBelow(t) : Complete(r, q, f[<<c, FALSE>>], c)
      BY <3>3, Zenon
    <3>5. Wide(t)
      BY <2>1, <3>2, Zenon
    <3>6. PICK D : D = f[<<t, FALSE>>]
      BY Zenon
    <3>7. Sound(r, q, greater, D) /\ (all => Complete(r, q, D, t))
      BY <3>1, <3>4, <3>5, <3>6, MergedParts, Zenon
    <3>8. QED BY <3>6, <3>7, Zenon
  <2>9. QED BY <2>5, <2>6, <2>7, <2>8, Zenon
<1> HIDE DEF S
<1>2. Tuples \subseteq S
  BY <1>1, SizeInduction, Zenon
<1>3. M \subseteq Tuples
  BY Zenon DEF Whole, Tree
<1>4. QED BY <1>2, <1>3, Zenon DEF S

\* Where no range was left behind, all are reached from the top.
LEMMA AllReached ==
    ASSUME NEW r, NEW L, Whole(els[r], ranges[r], L), NoneLeftBehind(r)
    PROVE DOMAIN ranges[r] \subseteq L
<1> DEFINE R == ranges[r]
           T == {t \in DOMAIN R : t \notin L}
           N == {MaxHash + 1 - Size(t) : t \in T}
<1> SUFFICES ASSUME T # {} PROVE FALSE
  OBVIOUS
<1>1. /\ DOMAIN R \subseteq Tuples /\ topRange \in L
      /\ \A t \in DOMAIN R : R[t].div => Wide(t)
      /\ \A t \in L : R[t].div => Children(t) \subseteq L
  BY Zenon DEF Whole, Tree
<1>2. \A t \in DOMAIN R : t = topRange \/ \E u \in DOMAIN R : R[u].div /\ t \in Children(u)
  BY Zenon DEF NoneLeftBehind
<1> HIDE DEF R
<1>3. N \in SUBSET Nat /\ N # {}
  <2>1. \A t \in T : Size(t) \in Nat /\ Size(t) <= MaxHash + 1
    BY <1>1, TupleType, Zenon
  <2>2. \A t \in T : MaxHash + 1 - Size(t) \in Nat
    BY <2>1, LDiffAssumption
  <2>3. QED BY <2>2, Zenon
<1>4. PICK n \in N : \A m \in N : n <= m
  BY <1>3, LeastNat, Zenon
<1>5. PICK t \in T : n = MaxHash + 1 - Size(t)
  BY Zenon
<1>6. PICK u \in DOMAIN R : R[u].div /\ t \in Children(u)
  BY <1>1, <1>2, Zenon
<1>7. t \in Tuples /\ u \in Tuples /\ Size(t) < Size(u)
  BY <1>1, <1>6, ChildrenOf, Zenon
<1>8. ~(n <= MaxHash + 1 - Size(u))
  <2>1. Size(t) \in Int /\ Size(u) \in Int
    BY <1>7, TupleType
  <2>2. QED BY <1>5, <1>7, <2>1, LDiffAssumption
<1>9. u \notin T
  BY <1>4, <1>8, Zenon
<1>10. QED BY <1>1, <1>6, <1>9, Zenon

\* If the ranges are right, the comparison is right.
LEMMA RightIsDiffed == RangesAreRight => DiffIsRight
<1> SUFFICES ASSUME RangesAreRight, NEW r \in Replicas, NEW q \in Replicas
             PROVE LET diff == Diff(r, q)
                       greater == CompareDiff(r, q)
                       real == Difference(r, q)
                   IN /\ \A k \in {"new", "changed", "removed"} : diff[k] \subseteq real[k]
                      /\ \A i \in greater.changed : i \in real.changed /\ els[r][i] > els[q][i]
                      /\ \A i \in greater.their : i \in real.changed /\ els[r][i] < els[q][i]
                      /\ NoneLeftBehind(r) =>
                            /\ \A k \in {"new", "changed"} : real[k] \subseteq diff[k]
                            /\ real.changed \subseteq greater.changed \cup greater.their
  BY Zenon DEF DiffIsRight
<1>1. els \in [Replicas -> Elements]
  BY Zenon DEF RangesAreRight
<1>2. PICK L : Whole(els[r], ranges[r], L)
  BY Zenon DEF RangesAreRight
<1>3. PICK M : Whole(els[q], ranges[q], M)
  BY Zenon DEF RangesAreRight
<1>4. topRange \in M
  BY <1>3, Zenon DEF Whole, Tree
<1>5. PICK all \in BOOLEAN : all = NoneLeftBehind(r)
  BY DEF NoneLeftBehind
<1>6. all => DOMAIN ranges[r] \subseteq L
  BY <1>2, <1>5, AllReached, Zenon
<1>7. ASSUME NEW greater \in BOOLEAN
      PROVE LET D == compareResults(r, q, greater)
            IN Sound(r, q, greater, D) /\ (all => Complete(r, q, D, topRange))
  <2>1. PICK f : compareResults(r, q, greater) = f[<<topRange, FALSE>>] /\ Compares(r, q, greater, f)
    BY <1>3, ComparedDef, Zenon
  <2>2. \A t \in M : /\ Sound(r, q, greater, f[<<t, FALSE>>])
                     /\ all => Complete(r, q, f[<<t, FALSE>>], t)
    BY <1>1, <1>2, <1>3, <1>6, <2>1, ComparesRight
  <2>3. QED BY <1>4, <2>1, <2>2, Zenon
<1>8. PICK diff, greater : diff = Diff(r, q) /\ greater = CompareDiff(r, q)
  BY Zenon
<1>9. /\ Sound(r, q, FALSE, diff) /\ (all => Complete(r, q, diff, topRange))
      /\ Sound(r, q, TRUE, greater) /\ (all => Complete(r, q, greater, topRange))
  BY <1>7, <1>8, Zenon DEF Diff, CompareDiff
<1>10. PICK real : real = Difference(r, q)
  BY Zenon
<1>11. /\ real["new"] = {i \in Ids : els[q][i] # None /\ els[r][i] = None}
       /\ real["removed"] = {i \in Ids : els[r][i] # None /\ els[q][i] = None}
       /\ real["changed"] = {i \in Ids : Both(r, q, i)}
  BY <1>10 DEF Difference, Both
<1>12. \A i \in Ids : Has(topRange, i)
  BY LDiffAssumption DEF Has, topRange
<1>13. /\ diff["new"] \subseteq real["new"] /\ diff["removed"] \subseteq real["removed"]
       /\ diff["changed"] \subseteq real["changed"] /\ diff["their"] = {}
  BY <1>9, <1>11, Zenon DEF Sound
<1>14. /\ \A i \in greater["changed"] : i \in real["changed"] /\ els[r][i] > els[q][i]
       /\ \A i \in greater["their"] : i \in real["changed"] /\ els[r][i] < els[q][i]
  BY <1>9, <1>11, Zenon DEF Sound
<1>15. ASSUME NoneLeftBehind(r)
       PROVE /\ real["new"] \subseteq diff["new"] /\ real["changed"] \subseteq diff["changed"]
             /\ real["changed"] \subseteq greater["changed"] \cup greater["their"]
  <2>1. Complete(r, q, diff, topRange) /\ Complete(r, q, greater, topRange)
    BY <1>5, <1>9, <1>15, Zenon
  <2>2. \A i \in Ids : Both(r, q, i) => els[q][i] # None
    BY Zenon DEF Both
  <2>3. QED BY <1>11, <1>12, <1>13, <2>1, <2>2, Zenon DEF Complete
<1>16. \A k \in {"new", "changed", "removed"} : diff[k] \subseteq real[k]
  BY <1>13
<1>17. ASSUME NoneLeftBehind(r) PROVE \A k \in {"new", "changed"} : real[k] \subseteq diff[k]
  BY <1>15, <1>17
<1>18. QED BY <1>8, <1>10, <1>14, <1>15, <1>16, <1>17

\* Whatever was set and removed before, and however the ranges of the two containers are
\* divided, the comparison reports only what differs, and, unless a range was left behind,
\* everything of the other container that this one lacks.
THEOREM DiffTheorem == Spec => []DiffIsRight
BY RangesAreRightTheorem, RightIsDiffed, PTL
=============================================================================
