------------------------------- MODULE LDiff --------------------------------
(***************************************************************************)
(* The diff container of app/ldiff: a set of elements (an id and a head)   *)
(* and a tree of hash ranges over the hashes of their ids, each with its   *)
(* hash and its count, refined where there are many elements. Two          *)
(* containers are compared by asking for ranges, from the top down.        *)
(*                                                                         *)
(* Ids stand for their hashes, which do not collide, and a hash value is   *)
(* the value it is computed from: <<>> is the empty hash of a range        *)
(* without elements. The code has 2^64 hashes, divides by 32 and compares  *)
(* up to 256 elements at once, so that no range with less than 32 hashes   *)
(* is ever divided, and those that are divided have equal parts.           *)
(***************************************************************************)
EXTENDS Integers, Sequences, FiniteSets

CONSTANTS Replicas,         \* the containers
          Ids,
          Heads,            \* the heads are ordered by CompareDiff alone
          None,             \* the head of an id that is not in a container
          MaxHash,
          DivideFactor,
          CompareThreshold,
          Writers,          \* the containers that change once they are filled
          MaxOps            \* bounds the operations on a container

ASSUME LDiffAssumption ==
    /\ MaxHash \in Nat /\ Ids \subseteq 0..MaxHash
    /\ DivideFactor \in Nat /\ DivideFactor >= 2
    /\ DivideFactor <= MaxHash + 1
    /\ CompareThreshold \in Nat /\ 2 * DivideFactor <= CompareThreshold + 2
    /\ Heads \subseteq Nat /\ None \notin Heads
    /\ Writers \subseteq Replicas
    /\ MaxOps \in Nat

VARIABLES els,     \* els[r]: the head of every id in the container r
          ranges,  \* ranges[r]: what is known of every range of r
          ops      \* ops[r]: how many operations r has had

vars == <<els, ranges, ops>>

Tuples == {t \in (0..MaxHash) \X (0..MaxHash) : t[1] <= t[2]}
topRange == <<0, MaxHash>>

genTupleRanges(t) ==
    LET size == t[2] - t[1] + 1
        per == size \div DivideFactor
    IN [i \in 1..DivideFactor |->
          <<t[1] + (i - 1) * per,
            t[1] - 1 + i * per + IF i = DivideFactor THEN size % DivideFactor ELSE 0>>]

Children(t) == {genTupleRanges(t)[i] : i \in 1..DivideFactor}

getBottomRange(t, h) == CHOOSE c \in Children(t) : h \in c[1]..c[2]

\* What is known of a range: is it divided, its count and its hash.
hashRange(div, n, hash) == [div |-> div, n |-> n, hash |-> hash]

\* The elements of e in the range t.
elementsIn(e, t) == {<<i, e[i]>> : i \in {j \in Ids : e[j] # None /\ j \in t[1]..t[2]}}

calcElementsHash(e, t) ==
    IF elementsIn(e, t) = {} THEN <<>> ELSE <<"elements", elementsIn(e, t)>>

\* The hash of the hashes of the ranges below t, given by H; those of empty
\* ranges add nothing.
calcDividedHash(H, t) ==
    LET written[i \in 0..DivideFactor] ==
            IF i = 0 THEN <<>>
            ELSE LET h == H[genTupleRanges(t)[i]]
                 IN IF h = <<>> THEN written[i - 1] ELSE Append(written[i - 1], h)
    IN <<"divided", written[DivideFactor]>>

\* The hashes of the ranges when those in D are divided, from the bottom up.
hashes(D, H) ==
    LET hash[t \in Tuples] ==
            IF t \in D THEN calcDividedHash([c \in Children(t) |-> hash[c]], t) ELSE H[t]
    IN hash

tooMany(e, t) == Cardinality(elementsIn(e, t)) > CompareThreshold

\* The ranges below t for the elements e: a range with too many elements is divided
\* again.
rangesToMake(e, t) ==
    LET below[u \in Tuples] ==
            Children(u) \cup UNION {below[c] : c \in {x \in Children(u) : tooMany(e, x)}}
    IN below[t]

makeBottomRanges(e, t) ==
    LET B == rangesToMake(e, t)
        hash == hashes({u \in B : tooMany(e, u)}, [u \in Tuples |-> calcElementsHash(e, u)])
    IN [u \in B |-> hashRange(tooMany(e, u), Cardinality(elementsIn(e, u)), hash[u])]

\* The ranges of R from the top down to the undivided one with h.
pathTo(R, h) ==
    LET down[t \in {u \in Tuples : h \in u[1]..u[2]}] ==
            IF t \in DOMAIN R /\ R[t].div THEN <<t>> \o down[getBottomRange(t, h)] ELSE <<t>>
    IN down[topRange]

ToSet(s) == {s[i] : i \in DOMAIN s}

\* Faulty variant: only the undivided ranges are computed anew.
recalculateHashes_LeafOnly(e, R, H) ==
    [t \in DOMAIN R |->
        IF R[t].div THEN R[t] ELSE hashRange(FALSE, R[t].n, calcElementsHash(e, t))]

\* The hashes of the ranges that lead to the elements H, whose ranges are dirty, are
\* computed anew from the bottom up; an undivided range also counts its elements
\* again.
recalculateHashes(e, R, H) ==
    LET dirty == UNION {ToSet(pathTo(R, h)) : h \in H}
        hash == hashes({t \in dirty : R[t].div},
                       [t \in Tuples |-> IF t \in dirty THEN calcElementsHash(e, t) ELSE R[t].hash])
    IN [t \in DOMAIN R |->
          IF t \notin dirty THEN R[t]
          ELSE LET x == R[t]
               IN hashRange(x.div, IF x.div THEN x.n ELSE Cardinality(elementsIn(e, t)), hash[t])]

\* An element with hash h was set: every range on its path counts one more, also
\* when it replaces an element, and the last one is divided when it has too many.
addElement(e, R, h) ==
    LET path == pathTo(R, h)
        dirty == ToSet(path)
        leaf == path[Len(path)]
        divide == R[leaf].n + 1 > CompareThreshold
        made == IF divide THEN makeBottomRanges(e, leaf) ELSE [t \in {} |-> R[t]]
    IN [t \in DOMAIN R \cup DOMAIN made |->
          IF t \in DOMAIN made THEN made[t]
          ELSE IF t \in dirty
               THEN LET x == R[t] IN hashRange(x.div \/ (divide /\ t = leaf), x.n + 1, x.hash)
          ELSE R[t]]

\* An element with hash h was removed: when few are left below the range above,
\* that range is no longer divided.
removeElement(R, h) ==
    LET path == pathTo(R, h)
        dirty == ToSet(path)
        parent == path[Len(path) - 1]
        join == R[parent].n - 1 <= CompareThreshold /\ parent # topRange
    IN [t \in IF join THEN DOMAIN R \ Children(parent) ELSE DOMAIN R |->
          IF t \in dirty
          THEN LET x == R[t] IN hashRange(x.div /\ ~(join /\ t = parent), x.n - 1, x.hash)
          ELSE R[t]]

-----------------------------------------------------------------------------
(* The operations *)

NoElements == [i \in Ids |-> None]

newHashRanges ==
    [t \in {topRange} \cup Children(topRange) |->
        IF t = topRange THEN hashRange(TRUE, 0, <<"divided", <<>>>>) ELSE hashRange(FALSE, 0, <<>>)]

Init ==
    /\ els = [r \in Replicas |-> NoElements]
    /\ ranges = [r \in Replicas |-> newHashRanges]
    /\ ops = [r \in Replicas |-> 0]

\* The ids of S in some order.
Orders(S) ==
    {s \in [1..Cardinality(S) -> S] : \A i, j \in DOMAIN s : s[i] = s[j] => i = j}

\* The elements x[1] and the ranges x[2] once h has the head given.
setOne(x, h, head) ==
    LET e == [x[1] EXCEPT ![h] = head] IN <<e, addElement(e, x[2], h)>>

\* The same for the heads b of the ids in order, one after another.
setAll(x, order, b) ==
    LET done[i \in 0..Len(order)] ==
            IF i = 0 THEN x ELSE setOne(done[i - 1], order[i], b[order[i]])
    IN done[Len(order)]

Set(r, order, b) ==
    LET set == setAll(<<els[r], ranges[r]>>, order, b) IN
    /\ ops[r] < MaxOps
    /\ els' = [els EXCEPT ![r] = set[1]]
    /\ ranges' = [ranges EXCEPT ![r] =
                     recalculateHashes(set[1], set[2], {order[i] : i \in 1..Len(order)})]
    /\ ops' = [ops EXCEPT ![r] = @ + 1]

RemoveId(r, h) ==
    LET e == [els[r] EXCEPT ![h] = None] IN
    /\ ops[r] < MaxOps
    /\ els[r][h] # None
    /\ els' = [els EXCEPT ![r] = e]
    /\ ranges' = [ranges EXCEPT ![r] = recalculateHashes(e, removeElement(@, h), {h})]
    /\ ops' = [ops EXCEPT ![r] = @ + 1]

\* A container is filled at once when a space is opened; then its elements come and
\* go one by one, where there are writers.
Next ==
    \E r \in Replicas :
        \/ \E S \in SUBSET Ids, h \in Heads : \E order \in Orders(S) :
               ops[r] = 0 /\ Set(r, order, [i \in S |-> h])
        \/ \E i \in Ids, h \in Heads : ops[r] > 0 /\ r \in Writers /\ Set(r, <<i>>, [j \in {i} |-> h])
        \/ \E i \in Ids : r \in Writers /\ RemoveId(r, i)

Spec == Init /\ [][Next]_vars

-----------------------------------------------------------------------------
(* The comparison *)

Hash(r) == ranges[r][topRange].hash

\* The answer for the range t; without a range of its own, and when all is asked
\* for, it has the elements.
getRange(r, t, all) ==
    LET has == t \in DOMAIN ranges[r]
        E == IF has /\ ~all THEN {} ELSE elementsIn(els[r], t)
    IN [hash |-> IF has THEN ranges[r][t].hash ELSE <<>>,
        elements |-> E,
        count |-> IF has /\ ~all THEN ranges[r][t].n ELSE Cardinality(E)]

Kinds == {"new", "changed", "their", "removed"}

NoDiff == [k \in Kinds |-> {}]

Merge(D) == [k \in Kinds |-> UNION {d[k] : d \in D}]

\* The pairs of an element of mine and one of the other's with the same id.
Pairs(my, other) == {p \in my \X other : p[1][1] = p[2][1]}

\* What the elements of mine and those of the other differ in.
compareElementsEqual(my, other) ==
    LET mine == {x[1] : x \in my}
        others == {x[1] : x \in other}
    IN [new |-> others \ mine,
        changed |-> {p[1][1] : p \in {x \in Pairs(my, other) : x[1][2] # x[2][2]}},
        their |-> {},
        removed |-> mine \ others]

\* The same where the greater head is the newer one: changed are the elements
\* that I changed.
compareElementsGreater(my, other) ==
    [compareElementsEqual(my, other) EXCEPT
        !.changed = {p[1][1] : p \in {x \in Pairs(my, other) : x[1][2] > x[2][2]}},
        !.their = {p[1][1] : p \in {x \in Pairs(my, other) : x[1][2] < x[2][2]}}]

\* CompareDiff tells who has the greater head, Diff does not.
compareFunc(greater, my, other) ==
    IF greater THEN compareElementsGreater(my, other) ELSE compareElementsEqual(my, other)

hasElements(res) == Cardinality(res.elements) = res.count

myElements(r, t, my) ==
    IF hasElements(my) THEN my.elements ELSE getRange(r, t, TRUE).elements

\* Faulty variant: the last part is forgotten.
rangesBelow_ButLast(t) == {genTupleRanges(t)[i] : i \in 1..DivideFactor - 1}

rangesBelow(t) == Children(t)

\* Container r against q: a range with another hash is compared by its elements
\* when both are known, asked for with its elements when one side has few, and
\* asked for in parts otherwise.
compareResults(r, q, greater) ==
    LET cmp[x \in Tuples \X BOOLEAN] ==
            LET t == x[1]
                my == getRange(r, t, x[2])
                other == getRange(q, t, x[2])
            IN IF my.hash = other.hash THEN NoDiff
               ELSE IF hasElements(other) THEN compareFunc(greater, myElements(r, t, my), other.elements)
               ELSE IF \/ other.count <= CompareThreshold /\ other.elements = {}
                       \/ hasElements(my)
                    THEN cmp[<<t, TRUE>>]
               ELSE Merge({cmp[<<c, FALSE>>] : c \in rangesBelow(t)})
    IN cmp[<<topRange, FALSE>>]

\* What the container r finds to differ from q: new has the ids that only q has,
\* removed those that only r has.
Diff(r, q) == compareResults(r, q, FALSE)

CompareDiff(r, q) == compareResults(r, q, TRUE)

-----------------------------------------------------------------------------
(* Properties *)

\* Reference: the ids in which the containers r and q differ.
Difference(r, q) ==
    LET R == {i \in Ids : els[r][i] # None}
        Q == {i \in Ids : els[q][i] # None}
    IN [new |-> Q \ R, removed |-> R \ Q, changed |-> {i \in R \cap Q : els[r][i] # els[q][i]}]

\* Two containers with the same hash have the same elements: headsync skips the
\* comparison when the hashes agree.
SameHashSameElements == \A r, q \in Replicas : Hash(r) = Hash(q) => els[r] = els[q]

\* Every range of r is the top or a part of a divided range: no range was left behind
\* when the range above it was put together again.
NoneLeftBehind(r) ==
    LET divided == {t \in DOMAIN ranges[r] : ranges[r][t].div}
    IN DOMAIN ranges[r] = {topRange} \cup UNION {Children(t) : t \in divided}

\* Whatever was set and removed before, the comparison reports only what differs,
\* and the comparison by the greater head tells whose head is the newer one. Unless
\* a range was left behind, it finds everything that the other container has and
\* this one does not, or has with another head.
DiffIsRight ==
    \A r, q \in Replicas :
        LET diff == Diff(r, q)
            greater == CompareDiff(r, q)
            real == Difference(r, q)
        IN /\ \A k \in {"new", "changed", "removed"} : diff[k] \subseteq real[k]
           /\ \A i \in greater.changed : i \in real.changed /\ els[r][i] > els[q][i]
           /\ \A i \in greater.their : i \in real.changed /\ els[r][i] < els[q][i]
           /\ NoneLeftBehind(r) =>
                 /\ \A k \in {"new", "changed"} : real[k] \subseteq diff[k]
                 /\ real.changed \subseteq greater.changed \cup greater.their
=============================================================================
