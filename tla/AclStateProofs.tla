-------------------------- MODULE AclStateProofs ----------------------------
(***************************************************************************)
(* The access control list keeps one owner, matching requests, keys that   *)
(* follow the members, admins made by the owner and unchanged histories,   *)
(* for any accounts and any number of records.                             *)
(*                                                                         *)
(* First, what the operators of AclState that apply a content do. Each has *)
(* two lemmas: XState says what of the state it changes (the predicate     *)
(* XEffect), SaneX that owners, requests and keys stay in order.           *)
(*                                                                         *)
(* Then each kind of record has a lemma XGood that it keeps the invariant  *)
(* AclInv, from those lemmas and from AdmitStep, which says what a record  *)
(* may do. A record with several contents is taken in three stages:        *)
(* removals, approvals and the rest.                                       *)
(***************************************************************************)
EXTENDS AclState, Integers, FiniteSetTheorems, WellFoundedInduction, TLAPS

Request == [id : Nat \ {0}, who : Accounts, join : BOOLEAN]
Invite == [id : Nat, anyone : BOOLEAN, perms : Perms, key : Nat]
Change == [rec : Nat, perm : Perms]

State == [n        : Nat,
          perms    : [Accounts -> Perms],
          status   : [Accounts -> Statuses],
          changes  : [Accounts -> Seq(Change)],
          invites  : SUBSET Invite,
          requests : SUBSET Request,
          pending  : [Accounts -> Nat],
          keys     : SUBSET Nat]

\* What updatePermissions changes of st, and what it keeps.
UpdatePermissionsEffect(st, t, a, p, r) ==
    /\ t \in State
    /\ t.n = st.n /\ t.status = st.status /\ t.invites = st.invites
    /\ t.requests = st.requests /\ t.pending = st.pending /\ t.keys = st.keys
    /\ t.perms = [st.perms EXCEPT ![a] = p]
    /\ t.changes = [st.changes EXCEPT ![a] = Append(@, [rec |-> r, perm |-> p])]

\* updatePermissions leads to a state, and appends to the history of one account.
LEMMA UpdatePermissionsState ==
    ASSUME NEW st \in State, NEW a \in Accounts, NEW p \in Perms, NEW r \in Nat
    PROVE  UpdatePermissionsEffect(st, updatePermissions(st, a, p, r), a, p, r)
<1>1. [rec |-> r, perm |-> p] \in Change
    BY Zenon DEF Change
<1>2. [st.perms EXCEPT ![a] = p] \in [Accounts -> Perms]
    BY Zenon DEF State
<1>3. Append(st.changes[a], [rec |-> r, perm |-> p]) \in Seq(Change)
    BY <1>1 DEF State
<1>4. [st.changes EXCEPT ![a] = Append(@, [rec |-> r, perm |-> p])] \in [Accounts -> Seq(Change)]
    BY Zenon, <1>3 DEF State
<1>5. updatePermissions(st, a, p, r) =
      [st EXCEPT !.perms = [st.perms EXCEPT ![a] = p],
                 !.changes = [st.changes EXCEPT ![a] = Append(@, [rec |-> r, perm |-> p])]]
    BY Zenon DEF updatePermissions, State
<1> QED BY <1>2, <1>4, <1>5, Zenon DEF State, UpdatePermissionsEffect

\* The operators that change invites only.
LEMMA InvitesState ==
    ASSUME NEW st \in State, NEW I \in SUBSET Invite
    PROVE  LET t == [st EXCEPT !.invites = I] IN
           /\ t \in State
           /\ t.n = st.n /\ t.status = st.status /\ t.invites = I
           /\ t.requests = st.requests /\ t.pending = st.pending /\ t.keys = st.keys
           /\ t.perms = st.perms /\ t.changes = st.changes
BY Zenon DEF State

\* What applyInvite changes of st, and what it keeps.
InviteEffect(st, t, r, anyone, p, k) ==
    /\ t \in State
    /\ t.n = st.n /\ t.status = st.status
    /\ t.requests = st.requests /\ t.pending = st.pending /\ t.keys = st.keys
    /\ t.perms = st.perms /\ t.changes = st.changes
    /\ \A i \in t.invites : \/ i \in st.invites /\ i.id # r
                            \/ i.id = r /\ i.perms = p

\* applyInvite makes the invite of the record and keeps the others.
LEMMA InviteState ==
    ASSUME NEW st \in State, NEW r \in Nat, NEW anyone \in BOOLEAN, NEW p \in Perms, NEW k \in Nat
    PROVE  InviteEffect(st, applyInvite(st, r, anyone, p, k), r, anyone, p, k)
<1> DEFINE new == [id |-> r, anyone |-> anyone, perms |-> p, key |-> k]
           I == {i \in st.invites : i.id # r} \cup {new}
<1>1. new \in Invite
    BY Zenon DEF Invite
<1>2. I \in SUBSET Invite
    BY Zenon, <1>1 DEF State
<1>3. applyInvite(st, r, anyone, p, k) = [st EXCEPT !.invites = I]
    BY Zenon DEF applyInvite
<1> QED BY <1>2, <1>3, InvitesState DEF InviteEffect

\* What applyInviteChange changes of st, and what it keeps.
InviteChangeEffect(st, t, i, p) ==
    /\ t \in State
    /\ t.n = st.n /\ t.status = st.status
    /\ t.requests = st.requests /\ t.pending = st.pending /\ t.keys = st.keys
    /\ t.perms = st.perms /\ t.changes = st.changes
    /\ \A j \in t.invites : j \in st.invites \/ j.perms = p

\* applyInviteChange changes the permissions of one invite.
LEMMA InviteChangeState ==
    ASSUME NEW st \in State, NEW i \in st.invites, NEW p \in Perms
    PROVE  InviteChangeEffect(st, applyInviteChange(st, i, p), i, p)
<1> DEFINE new == [i EXCEPT !.perms = p]
           I == (st.invites \ {i}) \cup {new}
<1>1. new \in Invite /\ new.perms = p
    BY Zenon DEF Invite, State
<1>2. I \in SUBSET Invite
    BY <1>1, Zenon DEF State
<1>3. applyInviteChange(st, i, p) = [st EXCEPT !.invites = I]
    BY Zenon DEF applyInviteChange
<1> HIDE DEF new
<1> QED BY <1>1, <1>2, <1>3, InvitesState DEF InviteChangeEffect

\* What applyInviteRevokes changes of st, and what it keeps.
InviteRevokesEffect(st, t, ids) ==
    /\ t \in State
    /\ t.n = st.n /\ t.status = st.status
    /\ t.requests = st.requests /\ t.pending = st.pending /\ t.keys = st.keys
    /\ t.perms = st.perms /\ t.changes = st.changes
    /\ t.invites \subseteq st.invites

\* applyInviteRevokes drops the invites it names.
LEMMA InviteRevokesState ==
    ASSUME NEW st \in State, NEW ids
    PROVE  InviteRevokesEffect(st, applyInviteRevokes(st, ids), ids)
<1> DEFINE I == {i \in st.invites : i.id \notin ids}
<1>1. I \in SUBSET Invite
    BY Zenon DEF State
<1>2. applyInviteRevokes(st, ids) = [st EXCEPT !.invites = I]
    BY Zenon DEF applyInviteRevokes
<1> QED BY <1>1, <1>2, InvitesState DEF InviteRevokesEffect

\* The operators that change requests, and the status of accounts.
RequestJoinEffect(st, t, a, r) ==
    /\ t \in State
    /\ t.n = st.n /\ t.invites = st.invites /\ t.keys = st.keys
    /\ t.perms = st.perms /\ t.changes = st.changes
    /\ t.status = [st.status EXCEPT ![a] = "joining"]
    /\ t.requests = st.requests \cup {[id |-> r, who |-> a, join |-> TRUE]}
    /\ t.pending = [st.pending EXCEPT ![a] = r]

\* applyRequestJoin adds a pending request of the account.
LEMMA RequestJoinState ==
    ASSUME NEW st \in State, NEW a \in Accounts, NEW r \in Nat \ {0}
    PROVE  RequestJoinEffect(st, applyRequestJoin(st, a, r), a, r)
<1> DEFINE S == [st.status EXCEPT ![a] = "joining"]
           R == st.requests \cup {[id |-> r, who |-> a, join |-> TRUE]}
           Q == [st.pending EXCEPT ![a] = r]
<1>1. S \in [Accounts -> Statuses]
    BY Zenon DEF State, Statuses
<1>2. R \in SUBSET Request
    <2>1. [id |-> r, who |-> a, join |-> TRUE] \in Request
        BY Zenon DEF Request
    <2> QED BY <2>1, Zenon DEF State
<1>3. Q \in [Accounts -> Nat]
    BY Zenon DEF State
<1>4. applyRequestJoin(st, a, r) = [st EXCEPT !.status = S, !.requests = R, !.pending = Q]
    BY Zenon DEF applyRequestJoin, State
<1> HIDE DEF S, R, Q
<1>5. LET t == applyRequestJoin(st, a, r) IN
      /\ t \in State
      /\ t.n = st.n /\ t.invites = st.invites /\ t.keys = st.keys
      /\ t.perms = st.perms /\ t.changes = st.changes
      /\ t.status = S /\ t.requests = R /\ t.pending = Q
    BY <1>1, <1>2, <1>3, <1>4, Zenon DEF State
<1> QED BY Zenon, <1>5 DEF S, R, Q, RequestJoinEffect

\* What applyRequestRemove changes of st, and what it keeps.
RequestRemoveEffect(st, t, a, r) ==
    /\ t \in State
    /\ t.n = st.n /\ t.invites = st.invites /\ t.keys = st.keys
    /\ t.perms = st.perms /\ t.changes = st.changes
    /\ t.status = [st.status EXCEPT ![a] = "removing"]
    /\ t.requests = st.requests \cup {[id |-> r, who |-> a, join |-> FALSE]}
    /\ t.pending = [st.pending EXCEPT ![a] = r]

\* applyRequestRemove adds a pending request to be removed.
LEMMA RequestRemoveState ==
    ASSUME NEW st \in State, NEW a \in Accounts, NEW r \in Nat \ {0}
    PROVE  RequestRemoveEffect(st, applyRequestRemove(st, a, r), a, r)
<1> DEFINE S == [st.status EXCEPT ![a] = "removing"]
           R == st.requests \cup {[id |-> r, who |-> a, join |-> FALSE]}
           Q == [st.pending EXCEPT ![a] = r]
<1>1. S \in [Accounts -> Statuses]
    BY Zenon DEF State, Statuses
<1>2. R \in SUBSET Request
    <2>1. [id |-> r, who |-> a, join |-> FALSE] \in Request
        BY Zenon DEF Request
    <2> QED BY <2>1, Zenon DEF State
<1>3. Q \in [Accounts -> Nat]
    BY Zenon DEF State
<1>4. applyRequestRemove(st, a, r) = [st EXCEPT !.status = S, !.requests = R, !.pending = Q]
    BY Zenon DEF applyRequestRemove, State
<1> HIDE DEF S, R, Q
<1>5. LET t == applyRequestRemove(st, a, r) IN
      /\ t \in State
      /\ t.n = st.n /\ t.invites = st.invites /\ t.keys = st.keys
      /\ t.perms = st.perms /\ t.changes = st.changes
      /\ t.status = S /\ t.requests = R /\ t.pending = Q
    BY <1>1, <1>2, <1>3, <1>4, Zenon DEF State
<1> QED BY Zenon, <1>5 DEF S, R, Q, RequestRemoveEffect

\* What applyRequestDeclines changes of st, and what it keeps.
RequestDeclinesEffect(st, t, D) ==
    LET who == {r.who : r \in D} IN
    /\ t \in State
    /\ t.n = st.n /\ t.invites = st.invites /\ t.keys = st.keys
    /\ t.perms = st.perms /\ t.changes = st.changes
    /\ t.requests = st.requests \ D
    /\ \A a \in Accounts : t.status[a] = IF a \in who THEN "declined" ELSE st.status[a]
    /\ \A a \in Accounts : t.pending[a] = IF a \in who THEN 0 ELSE st.pending[a]

\* applyRequestDeclines drops the requests it names, pending and recorded.
LEMMA RequestDeclinesState ==
    ASSUME NEW st \in State, NEW D
    PROVE  RequestDeclinesEffect(st, applyRequestDeclines(st, D), D)
<1> DEFINE who == {r.who : r \in D}
           S == [a \in Accounts |-> IF a \in who THEN "declined" ELSE st.status[a]]
           R == st.requests \ D
           Q == [a \in Accounts |-> IF a \in who THEN 0 ELSE st.pending[a]]
<1>1. S \in [Accounts -> Statuses]
    BY Zenon DEF State, Statuses
<1>2. R \in SUBSET Request
    BY Zenon DEF State
<1>3. Q \in [Accounts -> Nat]
    BY Zenon DEF State
<1>4. applyRequestDeclines(st, D) = [st EXCEPT !.status = S, !.requests = R, !.pending = Q]
    BY Zenon DEF applyRequestDeclines, State
<1> HIDE DEF S, R, Q
<1>5. LET t == applyRequestDeclines(st, D) IN
      /\ t \in State
      /\ t.n = st.n /\ t.invites = st.invites /\ t.keys = st.keys
      /\ t.perms = st.perms /\ t.changes = st.changes
      /\ t.status = S /\ t.requests = R /\ t.pending = Q
    BY <1>1, <1>2, <1>3, <1>4, Zenon DEF State
<1> QED BY Zenon, <1>5 DEF S, R, Q, RequestDeclinesEffect

\* What applyRequestCancel changes of st, and what it keeps.
RequestCancelEffect(st, t, r) ==
    /\ t \in State
    /\ t.n = st.n /\ t.invites = st.invites /\ t.keys = st.keys
    /\ t.perms = st.perms /\ t.changes = st.changes
    /\ t.status = [st.status EXCEPT ![r.who] = IF r.join THEN "canceled" ELSE "active"]
    /\ t.requests = st.requests \ {r}
    /\ t.pending = [st.pending EXCEPT ![r.who] = 0]

\* applyRequestCancel drops one request, pending and recorded.
LEMMA RequestCancelState ==
    ASSUME NEW st \in State, NEW r \in st.requests
    PROVE  RequestCancelEffect(st, applyRequestCancel(st, r), r)
<1> DEFINE S == [st.status EXCEPT ![r.who] = IF r.join THEN "canceled" ELSE "active"]
           R == st.requests \ {r}
           Q == [st.pending EXCEPT ![r.who] = 0]
<1>1. S \in [Accounts -> Statuses]
    BY Zenon DEF State, Statuses
<1>2. R \in SUBSET Request
    BY Zenon DEF State
<1>3. Q \in [Accounts -> Nat]
    BY Zenon DEF State
<1>4. applyRequestCancel(st, r) = [st EXCEPT !.status = S, !.requests = R, !.pending = Q]
    BY Zenon DEF applyRequestCancel, State
<1> HIDE DEF S, R, Q
<1>5. LET t == applyRequestCancel(st, r) IN
      /\ t \in State
      /\ t.n = st.n /\ t.invites = st.invites /\ t.keys = st.keys
      /\ t.perms = st.perms /\ t.changes = st.changes
      /\ t.status = S /\ t.requests = R /\ t.pending = Q
    BY <1>1, <1>2, <1>3, <1>4, Zenon DEF State
<1> QED BY Zenon, <1>5 DEF S, R, Q, RequestCancelEffect

\* What applyReadKeyChange changes of st, and what it keeps.
ReadKeyChangeEffect(st, t, r) ==
    /\ t \in State
    /\ t.n = st.n /\ t.status = st.status
    /\ t.requests = st.requests /\ t.pending = st.pending
    /\ t.perms = st.perms /\ t.changes = st.changes
    /\ t.keys = st.keys \cup {r}
    /\ \A j \in t.invites : \E i \in st.invites : j.id = i.id /\ j.perms = i.perms

\* applyReadKeyChange adds the read key of the record and rekeys the open invites.
LEMMA ReadKeyChangeState ==
    ASSUME NEW st \in State, NEW r \in Nat
    PROVE  ReadKeyChangeEffect(st, applyReadKeyChange(st, r), r)
<1> DEFINE K == st.keys \cup {r}
           I == {IF i.anyone THEN [i EXCEPT !.key = r] ELSE i : i \in st.invites}
<1>1. K \in SUBSET Nat
    BY Zenon DEF State
<1>2. ASSUME NEW i \in st.invites
      PROVE  LET j == IF i.anyone THEN [i EXCEPT !.key = r] ELSE i
             IN  j \in Invite /\ j.id = i.id /\ j.perms = i.perms
    BY Zenon DEF State, Invite
<1>3. I \in SUBSET Invite /\ \A j \in I : \E i \in st.invites : j.id = i.id /\ j.perms = i.perms
    BY <1>2, Zenon
<1>4. applyReadKeyChange(st, r) = [st EXCEPT !.keys = K, !.invites = I]
    BY Zenon DEF applyReadKeyChange
<1> HIDE DEF K, I
<1>5. LET t == applyReadKeyChange(st, r) IN
      /\ t \in State
      /\ t.n = st.n /\ t.status = st.status
      /\ t.requests = st.requests /\ t.pending = st.pending
      /\ t.perms = st.perms /\ t.changes = st.changes
      /\ t.keys = K /\ t.invites = I
    BY <1>1, <1>3, <1>4, Zenon DEF State
<1> QED BY Zenon, <1>3, <1>5 DEF K, ReadKeyChangeEffect

\* What applyInviteJoin changes of st, and what it keeps.
InviteJoinEffect(st, t, a, r, i, p) ==
    LET x == IF p = "none" THEN i.perms ELSE p
        asked == {q \in st.requests : q.who = a} IN
    /\ t \in State
    /\ t.n = st.n /\ t.invites = st.invites /\ t.keys = st.keys
    /\ t.perms = [st.perms EXCEPT ![a] = x]
    /\ t.changes = [st.changes EXCEPT ![a] = Append(@, [rec |-> r, perm |-> x])]
    /\ t.status = [st.status EXCEPT ![a] = "active"]
    /\ t.requests = st.requests \ asked
    /\ t.pending = [st.pending EXCEPT ![a] = IF asked = {} THEN @ ELSE 0]

\* applyInviteJoin makes the account active with the permissions of the invite or lower ones.
LEMMA InviteJoinState ==
    ASSUME NEW st \in State, NEW a \in Accounts, NEW r \in Nat, NEW i \in st.invites, NEW p \in Perms
    PROVE  InviteJoinEffect(st, applyInviteJoin(st, a, r, i, p), a, r, i, p)
<1> DEFINE x == IF p = "none" THEN i.perms ELSE p
           asked == {q \in st.requests : q.who = a}
           u == updatePermissions(st, a, x, r)
           S == [st.status EXCEPT ![a] = "active"]
           R == st.requests \ asked
           Q == [st.pending EXCEPT ![a] = IF asked = {} THEN @ ELSE 0]
<1>x. x \in Perms
    BY Zenon DEF State, Invite
<1>1. S \in [Accounts -> Statuses]
    BY Zenon DEF State, Statuses
<1>2. R \in SUBSET Request
    BY Zenon DEF State
<1>3. Q \in [Accounts -> Nat]
    BY Zenon DEF State
<1>u. /\ u \in State
      /\ u.n = st.n /\ u.status = st.status /\ u.invites = st.invites
      /\ u.requests = st.requests /\ u.pending = st.pending /\ u.keys = st.keys
      /\ u.perms = [st.perms EXCEPT ![a] = x]
      /\ u.changes = [st.changes EXCEPT ![a] = Append(@, [rec |-> r, perm |-> x])]
    <2> HIDE DEF x
    <2>1. UpdatePermissionsEffect(st, u, a, x, r)
        BY Zenon, <1>x, UpdatePermissionsState
    <2> HIDE DEF u
    <2> QED BY Zenon, <2>1 DEF UpdatePermissionsEffect
<1>4. applyInviteJoin(st, a, r, i, p) =
      [u EXCEPT !.status[a] = "active", !.requests = @ \ asked,
                !.pending[a] = IF asked = {} THEN @ ELSE 0]
    BY Zenon DEF applyInviteJoin
<1>5. applyInviteJoin(st, a, r, i, p) = [u EXCEPT !.status = S, !.requests = R, !.pending = Q]
    <2> HIDE DEF u, asked
    <2> QED BY <1>4, <1>u, Zenon DEF State
<1> HIDE DEF S, R, Q, u, x
<1>6. LET t == applyInviteJoin(st, a, r, i, p) IN
      /\ t \in State
      /\ t.n = u.n /\ t.invites = u.invites /\ t.keys = u.keys
      /\ t.perms = u.perms /\ t.changes = u.changes
      /\ t.status = S /\ t.requests = R /\ t.pending = Q
    BY <1>1, <1>2, <1>3, <1>5, <1>u, Zenon DEF State
<1> QED BY Zenon, <1>6, <1>u DEF S, R, Q, x, InviteJoinEffect

\* What applyRequestAccept changes of st, and what it keeps.
RequestAcceptEffect(st, t, r, q, p) ==
    /\ t \in State
    /\ t.n = st.n /\ t.invites = st.invites /\ t.keys = st.keys
    /\ t.perms = [st.perms EXCEPT ![q.who] = p]
    /\ t.changes = [st.changes EXCEPT ![q.who] = Append(@, [rec |-> r, perm |-> p])]
    /\ t.status = [st.status EXCEPT ![q.who] = "active"]
    /\ t.requests = st.requests \ {q}
    /\ t.pending = [st.pending EXCEPT ![q.who] = 0]

\* applyRequestAccept makes the account of the request active and drops its requests.
LEMMA RequestAcceptState ==
    ASSUME NEW st \in State, NEW r \in Nat, NEW q \in st.requests, NEW p \in Perms
    PROVE  RequestAcceptEffect(st, applyRequestAccept(st, r, q, p), r, q, p)
<1> DEFINE a == q.who
           u == updatePermissions(st, a, p, r)
           S == [st.status EXCEPT ![a] = "active"]
           R == st.requests \ {q}
           Q == [st.pending EXCEPT ![a] = 0]
<1>a. a \in Accounts
    BY Zenon DEF State, Request
<1>1. S \in [Accounts -> Statuses]
    BY Zenon DEF State, Statuses
<1>2. R \in SUBSET Request
    BY Zenon DEF State
<1>3. Q \in [Accounts -> Nat]
    BY Zenon DEF State
<1>u. /\ u \in State
      /\ u.n = st.n /\ u.status = st.status /\ u.invites = st.invites
      /\ u.requests = st.requests /\ u.pending = st.pending /\ u.keys = st.keys
      /\ u.perms = [st.perms EXCEPT ![a] = p]
      /\ u.changes = [st.changes EXCEPT ![a] = Append(@, [rec |-> r, perm |-> p])]
    <2> HIDE DEF a
    <2>1. UpdatePermissionsEffect(st, u, a, p, r)
        BY Zenon, <1>a, UpdatePermissionsState
    <2> HIDE DEF u
    <2> QED BY Zenon, <2>1 DEF UpdatePermissionsEffect
<1>4. applyRequestAccept(st, r, q, p) =
      [u EXCEPT !.status[a] = "active", !.requests = @ \ {q}, !.pending[a] = 0]
    BY Zenon DEF applyRequestAccept
<1>5. applyRequestAccept(st, r, q, p) = [u EXCEPT !.status = S, !.requests = R, !.pending = Q]
    <2> HIDE DEF u, a
    <2> QED BY <1>4, <1>u, Zenon DEF State
<1> HIDE DEF S, R, Q, u, a
<1>6. LET t == applyRequestAccept(st, r, q, p) IN
      /\ t \in State
      /\ t.n = u.n /\ t.invites = u.invites /\ t.keys = u.keys
      /\ t.perms = u.perms /\ t.changes = u.changes
      /\ t.status = S /\ t.requests = R /\ t.pending = Q
    BY <1>1, <1>2, <1>3, <1>5, <1>u, Zenon DEF State
<1> QED BY Zenon, <1>6, <1>u DEF S, R, Q, a, RequestAcceptEffect

\* What applyAccountsAdd changes of st, and what it keeps.
AccountsAddEffect(st, t, A, p, r) ==
    /\ t \in State
    /\ t.n = st.n /\ t.invites = st.invites /\ t.keys = st.keys
    /\ t.requests = st.requests /\ t.pending = st.pending
    /\ \A a \in Accounts :
         IF a \in A THEN t.perms[a] = p /\ t.status[a] = "active"
         ELSE t.perms[a] = st.perms[a] /\ t.status[a] = st.status[a] /\ t.changes[a] = st.changes[a]

\* applyAccountsAdd gives the accounts permissions and a history of their own.
LEMMA AccountsAddState ==
    ASSUME NEW st \in State, NEW A, NEW p \in Perms, NEW r \in Nat
    PROVE  AccountsAddEffect(st, applyAccountsAdd(st, A, p, r), A, p, r)
<1> DEFINE P == [a \in Accounts |-> IF a \in A THEN p ELSE st.perms[a]]
           S == [a \in Accounts |-> IF a \in A THEN "active" ELSE st.status[a]]
           C == [a \in Accounts |-> IF a \in A THEN <<[rec |-> r, perm |-> p]>> ELSE st.changes[a]]
<1>1. P \in [Accounts -> Perms]
    BY Zenon DEF State
<1>2. S \in [Accounts -> Statuses]
    BY Zenon DEF State, Statuses
<1>3. C \in [Accounts -> Seq(Change)]
    <2>1. [rec |-> r, perm |-> p] \in Change
        BY Zenon DEF Change
    <2>2. <<[rec |-> r, perm |-> p]>> \in Seq(Change)
        BY <2>1
    <2> QED BY Zenon, <2>2 DEF State
<1>4. applyAccountsAdd(st, A, p, r) = [st EXCEPT !.perms = P, !.status = S, !.changes = C]
    BY Zenon DEF applyAccountsAdd, State
<1> HIDE DEF P, S, C
<1>5. LET t == applyAccountsAdd(st, A, p, r) IN
      /\ t \in State
      /\ t.n = st.n /\ t.invites = st.invites /\ t.keys = st.keys
      /\ t.requests = st.requests /\ t.pending = st.pending
      /\ t.perms = P /\ t.status = S /\ t.changes = C
    BY <1>1, <1>2, <1>3, <1>4, Zenon DEF State
<1> QED BY Zenon, <1>5 DEF P, S, C, AccountsAddEffect

\* What applyAccountRemove changes of st, and what it keeps.
AccountRemoveEffect(st, t, A, r) ==
    /\ t \in State
    /\ t.n = st.n /\ t.keys = st.keys \cup {r}
    /\ \A j \in t.invites : \E i \in st.invites : j.id = i.id /\ j.perms = i.perms
    /\ t.requests = {q \in st.requests : \A a \in A : q.id # st.pending[a]}
    /\ \A a \in Accounts :
         IF a \in A
         THEN /\ t.perms[a] = "none" /\ t.status[a] = "removed" /\ t.pending[a] = 0
              /\ t.changes[a] = Append(st.changes[a], [rec |-> r, perm |-> "none"])
         ELSE /\ t.perms[a] = st.perms[a] /\ t.status[a] = st.status[a]
              /\ t.pending[a] = st.pending[a] /\ t.changes[a] = st.changes[a]

\* applyAccountRemove leaves the accounts without permissions and adds a read key.
LEMMA AccountRemoveState ==
    ASSUME NEW st \in State, NEW A, NEW r \in Nat
    PROVE  AccountRemoveEffect(st, applyAccountRemove(st, A, r), A, r)
<1> DEFINE P == [a \in Accounts |-> IF a \in A THEN "none" ELSE st.perms[a]]
           S == [a \in Accounts |-> IF a \in A THEN "removed" ELSE st.status[a]]
           C == [a \in Accounts |->
                   IF a \in A THEN Append(st.changes[a], [rec |-> r, perm |-> "none"]) ELSE st.changes[a]]
           Q == [a \in Accounts |-> IF a \in A THEN 0 ELSE st.pending[a]]
           R == {q \in st.requests : \A a \in A : q.id # st.pending[a]}
           u == [st EXCEPT !.status = S, !.perms = P, !.changes = C, !.pending = Q, !.requests = R]
<1>1. P \in [Accounts -> Perms]
    BY Zenon DEF State, Perms
<1>2. S \in [Accounts -> Statuses]
    BY Zenon DEF State, Statuses
<1>3. C \in [Accounts -> Seq(Change)]
    <2>1. [rec |-> r, perm |-> "none"] \in Change
        BY Zenon DEF Change, Perms
    <2> QED BY <2>1 DEF State
<1>4. Q \in [Accounts -> Nat]
    BY Zenon DEF State
<1>5. R \in SUBSET Request
    BY Zenon DEF State
<1>6. applyAccountRemove(st, A, r) = applyReadKeyChange(u, r)
    BY Zenon DEF applyAccountRemove, State
<1>7. /\ u \in State
      /\ u.n = st.n /\ u.invites = st.invites /\ u.keys = st.keys
      /\ u.perms = P /\ u.status = S /\ u.changes = C /\ u.pending = Q /\ u.requests = R
    <2> HIDE DEF P, S, C, Q, R
    <2> QED BY <1>1, <1>2, <1>3, <1>4, <1>5, Zenon DEF State
<1> HIDE DEF P, S, C, Q, R, u
<1>8. LET t == applyAccountRemove(st, A, r) IN
      /\ t \in State
      /\ t.n = st.n /\ t.keys = st.keys \cup {r}
      /\ \A j \in t.invites : \E i \in st.invites : j.id = i.id /\ j.perms = i.perms
      /\ t.requests = R /\ t.perms = P /\ t.status = S /\ t.pending = Q /\ t.changes = C
    BY <1>6, <1>7, ReadKeyChangeState DEF ReadKeyChangeEffect
<1> QED BY Zenon, <1>8 DEF P, S, C, Q, R, AccountRemoveEffect

-----------------------------------------------------------------------------
(* What all operators keep *)

\* No invite makes an owner, and there is one owner at most.
OwnersOK(st) ==
    /\ \A i \in st.invites : i.perms # "owner"
    /\ \A a, b \in Accounts : st.perms[a] = "owner" /\ st.perms[b] = "owner" => a = b

\* The requests are those of the accounts that have one pending, and have ids of
\* their own, up to that of record r.
RequestsOK(st, r) ==
    /\ \A q \in st.requests : q.id <= r /\ st.pending[q.who] = q.id
    /\ \A a \in Accounts : st.pending[a] # 0 => \E q \in st.requests : q.id = st.pending[a] /\ q.who = a
    /\ \A p, q \in st.requests : p.id = q.id => p = q

\* There is a latest read key, of record r at most.
KeysOK(st, r) ==
    /\ st.keys \subseteq 0..r
    /\ \E k \in st.keys : \A j \in st.keys : j <= k

Sane(st, r) == st \in State /\ OwnersOK(st) /\ RequestsOK(st, r) /\ KeysOK(st, r)

\* What holds of the records up to r holds of those up to r + 1.
LEMMA SaneLater ==
    ASSUME NEW st, NEW r \in Nat, Sane(st, r)
    PROVE  Sane(st, r + 1)
BY DEF Sane, RequestsOK, KeysOK, State, Request

\* An invite keeps owners, requests and keys in order: its permissions are not the owner's.
LEMMA SaneInvite ==
    ASSUME NEW st, NEW r \in Nat, Sane(st, r), NEW id \in Nat,
           NEW anyone \in BOOLEAN, NEW p \in Perms, p # "owner", NEW k \in Nat
    PROVE  Sane(applyInvite(st, id, anyone, p, k), r)
<1> DEFINE t == applyInvite(st, id, anyone, p, k)
<1>1. /\ t \in State
      /\ t.requests = st.requests /\ t.pending = st.pending /\ t.keys = st.keys /\ t.perms = st.perms
      /\ \A i \in t.invites : i \in st.invites \/ i.perms = p
    <2>1. st \in State
        BY Zenon DEF Sane
    <2>2. InviteEffect(st, t, id, anyone, p, k)
        BY Zenon, <2>1, InviteState
    <2> HIDE DEF t
    <2> QED BY <2>2 DEF InviteEffect
<1> HIDE DEF t
<1>2. OwnersOK(t)
    BY Zenon, <1>1 DEF Sane, OwnersOK
<1>3. RequestsOK(t, r)
    BY <1>1 DEF Sane, RequestsOK
<1>4. KeysOK(t, r)
    BY Zenon, <1>1 DEF Sane, KeysOK
<1> QED BY Zenon, <1>1, <1>2, <1>3, <1>4 DEF Sane, t

\* A change of an invite, not to the owner's permissions, keeps them in order.
LEMMA SaneInviteChange ==
    ASSUME NEW st, NEW r \in Nat, Sane(st, r), NEW i \in st.invites, NEW p \in Perms, p # "owner"
    PROVE  Sane(applyInviteChange(st, i, p), r)
<1> DEFINE t == applyInviteChange(st, i, p)
<1>1. /\ t \in State
      /\ t.requests = st.requests /\ t.pending = st.pending /\ t.keys = st.keys /\ t.perms = st.perms
      /\ \A j \in t.invites : j \in st.invites \/ j.perms = p
    <2>1. st \in State
        BY Zenon DEF Sane
    <2>2. InviteChangeEffect(st, t, i, p)
        BY Zenon, <2>1, InviteChangeState
    <2> HIDE DEF t
    <2> QED BY <2>2 DEF InviteChangeEffect
<1> HIDE DEF t
<1>2. OwnersOK(t)
    BY Zenon, <1>1 DEF Sane, OwnersOK
<1>3. RequestsOK(t, r)
    BY <1>1 DEF Sane, RequestsOK
<1>4. KeysOK(t, r)
    BY Zenon, <1>1 DEF Sane, KeysOK
<1> QED BY Zenon, <1>1, <1>2, <1>3, <1>4 DEF Sane, t

\* Revoking invites keeps them in order.
LEMMA SaneInviteRevokes ==
    ASSUME NEW st, NEW r \in Nat, Sane(st, r), NEW ids
    PROVE  Sane(applyInviteRevokes(st, ids), r)
<1> DEFINE t == applyInviteRevokes(st, ids)
<1>1. /\ t \in State
      /\ t.requests = st.requests /\ t.pending = st.pending /\ t.keys = st.keys /\ t.perms = st.perms
      /\ t.invites \subseteq st.invites
    BY Zenon, InviteRevokesState DEF Sane, InviteRevokesEffect
<1> HIDE DEF t
<1>2. OwnersOK(t)
    BY Zenon, <1>1 DEF Sane, OwnersOK
<1>3. RequestsOK(t, r)
    BY <1>1 DEF Sane, RequestsOK
<1>4. KeysOK(t, r)
    BY Zenon, <1>1 DEF Sane, KeysOK
<1> QED BY Zenon, <1>1, <1>2, <1>3, <1>4 DEF Sane, t

\* A new request, with the id of the new record.
LEMMA RequestAdded ==
    ASSUME NEW st, NEW t, NEW r \in Nat, Sane(st, r), t \in State,
           NEW a \in Accounts, NEW q \in Request, q.id = r + 1, q.who = a, st.pending[a] = 0,
           t.requests = st.requests \cup {q}, t.pending = [st.pending EXCEPT ![a] = r + 1],
           t.invites = st.invites, t.keys = st.keys, t.perms = st.perms
    PROVE  Sane(t, r + 1)
<1>1. OwnersOK(t)
    BY DEF Sane, OwnersOK
<1>2. RequestsOK(t, r + 1)
    <2>1. \A p \in t.requests : p.id <= r + 1 /\ t.pending[p.who] = p.id
        BY DEF Sane, RequestsOK, State, Request
    <2>2. \A b \in Accounts : t.pending[b] # 0 => \E p \in t.requests : p.id = t.pending[b] /\ p.who = b
        BY DEF Sane, RequestsOK, State
    <2>3. \A p \in st.requests : p.id # r + 1
        BY DEF Sane, RequestsOK, State, Request
    <2>4. \A p, s \in t.requests : p.id = s.id => p = s
        BY Zenon, <2>3 DEF Sane, RequestsOK
    <2> QED BY Zenon, <2>1, <2>2, <2>4 DEF RequestsOK
<1>3. KeysOK(t, r + 1)
    BY DEF Sane, KeysOK, State
<1> QED BY Zenon, <1>1, <1>2, <1>3 DEF Sane

\* The requests of the accounts in W are gone; nobody becomes an owner.
LEMMA RequestsDropped ==
    ASSUME NEW st, NEW t, NEW r \in Nat, Sane(st, r), t \in State, NEW W,
           t.requests = {q \in st.requests : q.who \notin W},
           \A a \in Accounts : t.pending[a] = IF a \in W THEN 0 ELSE st.pending[a],
           \A i \in t.invites : i.perms # "owner",
           \A a \in Accounts : t.perms[a] = "owner" => st.perms[a] = "owner",
           KeysOK(t, r)
    PROVE  Sane(t, r)
<1>1. OwnersOK(t)
    BY Zenon DEF Sane, OwnersOK
<1>2. RequestsOK(t, r)
    <2>1. \A p \in t.requests : p.id <= r /\ t.pending[p.who] = p.id
        BY Zenon DEF Sane, RequestsOK, State, Request
    <2>2. ASSUME NEW b \in Accounts, t.pending[b] # 0
          PROVE  \E p \in t.requests : p.id = t.pending[b] /\ p.who = b
        <3>1. b \notin W /\ t.pending[b] = st.pending[b]
            BY Zenon, <2>2
        <3>2. PICK p \in st.requests : p.id = st.pending[b] /\ p.who = b
            BY Zenon, <2>2, <3>1 DEF Sane, RequestsOK
        <3>3. p \in t.requests
            BY Zenon, <3>1, <3>2
        <3> QED BY Zenon, <3>1, <3>2, <3>3
    <2>3. \A p, s \in t.requests : p.id = s.id => p = s
        BY Zenon DEF Sane, RequestsOK
    <2> QED BY Zenon, <2>1, <2>2, <2>3 DEF RequestsOK
<1> QED BY Zenon, <1>1, <1>2 DEF Sane

\* An account has one request at most.
LEMMA OneRequest ==
    ASSUME NEW st, NEW r, Sane(st, r), NEW p \in st.requests, NEW q \in st.requests, p.who = q.who
    PROVE  p = q
BY DEF Sane, RequestsOK

\* A request to join, of an account with nothing pending, keeps the requests in order.
LEMMA SaneRequestJoin ==
    ASSUME NEW st, NEW r \in Nat, Sane(st, r), NEW a \in Accounts, st.pending[a] = 0
    PROVE  Sane(applyRequestJoin(st, a, r + 1), r + 1)
<1> DEFINE t == applyRequestJoin(st, a, r + 1)
           q == [id |-> r + 1, who |-> a, join |-> TRUE]
<1>1. /\ t \in State /\ t.invites = st.invites /\ t.keys = st.keys /\ t.perms = st.perms
      /\ t.requests = st.requests \cup {q} /\ t.pending = [st.pending EXCEPT ![a] = r + 1]
    <2>1. st \in State
        BY Zenon DEF Sane
    <2>2. RequestJoinEffect(st, t, a, r + 1)
        BY <2>1, RequestJoinState
    <2> HIDE DEF t
    <2> QED BY Zenon, <2>2 DEF RequestJoinEffect
<1>2. q \in Request /\ q.id = r + 1 /\ q.who = a
    BY DEF Request
<1> HIDE DEF t, q
<1>3. Sane(t, r + 1)
    BY Zenon, <1>1, <1>2, RequestAdded
<1> QED BY Zenon, <1>3 DEF t

\* A request to leave, of an account with nothing pending, keeps the requests in order.
LEMMA SaneRequestRemove ==
    ASSUME NEW st, NEW r \in Nat, Sane(st, r), NEW a \in Accounts, st.pending[a] = 0
    PROVE  Sane(applyRequestRemove(st, a, r + 1), r + 1)
<1> DEFINE t == applyRequestRemove(st, a, r + 1)
           q == [id |-> r + 1, who |-> a, join |-> FALSE]
<1>1. /\ t \in State /\ t.invites = st.invites /\ t.keys = st.keys /\ t.perms = st.perms
      /\ t.requests = st.requests \cup {q} /\ t.pending = [st.pending EXCEPT ![a] = r + 1]
    <2>1. st \in State
        BY Zenon DEF Sane
    <2>2. RequestRemoveEffect(st, t, a, r + 1)
        BY <2>1, RequestRemoveState
    <2> HIDE DEF t
    <2> QED BY Zenon, <2>2 DEF RequestRemoveEffect
<1>2. q \in Request /\ q.id = r + 1 /\ q.who = a
    BY DEF Request
<1> HIDE DEF t, q
<1>3. Sane(t, r + 1)
    BY Zenon, <1>1, <1>2, RequestAdded
<1> QED BY Zenon, <1>3 DEF t

\* Declining requests drops them from both indexes.
LEMMA SaneRequestDeclines ==
    ASSUME NEW st, NEW r \in Nat, Sane(st, r), NEW D, D \subseteq st.requests
    PROVE  Sane(applyRequestDeclines(st, D), r)
<1> DEFINE t == applyRequestDeclines(st, D)
           W == {q.who : q \in D}
<1>1. /\ t \in State /\ t.invites = st.invites /\ t.keys = st.keys /\ t.perms = st.perms
      /\ t.requests = st.requests \ D
      /\ \A a \in Accounts : t.pending[a] = IF a \in W THEN 0 ELSE st.pending[a]
    <2>1. st \in State
        BY Zenon DEF Sane
    <2>2. RequestDeclinesEffect(st, t, D)
        BY Zenon, <2>1, RequestDeclinesState
    <2> HIDE DEF t
    <2> QED BY <2>2 DEF RequestDeclinesEffect
<1>2. \A q \in st.requests : q \in D <=> q.who \in W
    BY Zenon, OneRequest
<1> HIDE DEF t, W
<1>3. t.requests = {q \in st.requests : q.who \notin W}
    BY Zenon, <1>1, <1>2
<1>4. KeysOK(t, r) /\ \A i \in t.invites : i.perms # "owner"
    BY Zenon, <1>1 DEF Sane, KeysOK, OwnersOK
<1>5. Sane(t, r)
    BY Zenon, <1>1, <1>3, <1>4, RequestsDropped
<1> QED BY Zenon, <1>5 DEF t

\* Cancelling a request drops it from both indexes.
LEMMA SaneRequestCancel ==
    ASSUME NEW st, NEW r \in Nat, Sane(st, r), NEW q \in st.requests
    PROVE  Sane(applyRequestCancel(st, q), r)
<1> DEFINE t == applyRequestCancel(st, q)
           W == {q.who}
<1>1. /\ t \in State /\ t.invites = st.invites /\ t.keys = st.keys /\ t.perms = st.perms
      /\ t.requests = st.requests \ {q}
      /\ t.pending = [st.pending EXCEPT ![q.who] = 0]
    BY RequestCancelState, Zenon DEF Sane, RequestCancelEffect
<1>2. t.requests = {p \in st.requests : p.who \notin W}
    BY Zenon, <1>1, OneRequest
<1>3. \A a \in Accounts : t.pending[a] = IF a \in W THEN 0 ELSE st.pending[a]
    BY Zenon, <1>1 DEF Sane, State
<1> HIDE DEF t, W
<1>4. KeysOK(t, r) /\ \A i \in t.invites : i.perms # "owner"
    BY Zenon, <1>1 DEF Sane, KeysOK, OwnersOK
<1>5. Sane(t, r)
    BY <1>1, <1>2, <1>3, <1>4, RequestsDropped, Zenon
<1> QED BY Zenon, <1>5 DEF t

\* Joining by an open invite makes no owner and drops what the account had pending.
LEMMA SaneInviteJoin ==
    ASSUME NEW st, NEW r \in Nat, Sane(st, r), NEW m \in Nat, NEW a \in Accounts,
           NEW i \in st.invites, NEW p \in Perms, p # "owner"
    PROVE  Sane(applyInviteJoin(st, a, m, i, p), r)
<1> DEFINE t == applyInviteJoin(st, a, m, i, p)
           x == IF p = "none" THEN i.perms ELSE p
           asked == {q \in st.requests : q.who = a}
           W == {a}
<1>1. /\ t \in State /\ t.invites = st.invites /\ t.keys = st.keys
      /\ t.perms = [st.perms EXCEPT ![a] = x]
      /\ t.requests = st.requests \ asked
      /\ t.pending = [st.pending EXCEPT ![a] = IF asked = {} THEN @ ELSE 0]
    <2>1. st \in State
        BY Zenon DEF Sane
    <2>2. InviteJoinEffect(st, t, a, m, i, p)
        BY Zenon, <2>1, InviteJoinState
    <2> HIDE DEF t
    <2> QED BY Zenon, <2>2 DEF InviteJoinEffect
<1>2. t.requests = {q \in st.requests : q.who \notin W}
    BY Zenon, <1>1
<1>3. asked = {} => st.pending[a] = 0
    BY Zenon DEF Sane, RequestsOK
<1>4. \A b \in Accounts : t.pending[b] = IF b \in W THEN 0 ELSE st.pending[b]
    <2> HIDE DEF asked, t
    <2> QED BY Zenon, <1>1, <1>3 DEF Sane, State
<1>5. \A b \in Accounts : t.perms[b] = "owner" => st.perms[b] = "owner"
    <2>1. x # "owner"
        BY Zenon DEF Sane, OwnersOK
    <2> HIDE DEF x, t
    <2> QED BY Zenon, <1>1, <2>1 DEF Sane, State
<1> HIDE DEF t, W, x, asked
<1>6. KeysOK(t, r) /\ \A j \in t.invites : j.perms # "owner"
    BY Zenon, <1>1 DEF Sane, KeysOK, OwnersOK
<1>7. Sane(t, r)
    <2>1. t \in State
        BY Zenon, <1>1
    <2> QED BY Zenon, <2>1, <1>2, <1>4, <1>5, <1>6, RequestsDropped
<1> QED BY Zenon, <1>7 DEF t

\* Accepting a request makes no owner and drops it from both indexes.
LEMMA SaneRequestAccept ==
    ASSUME NEW st, NEW r \in Nat, Sane(st, r), NEW m \in Nat, NEW q \in st.requests,
           NEW p \in Perms, p # "owner"
    PROVE  Sane(applyRequestAccept(st, m, q, p), r)
<1> DEFINE t == applyRequestAccept(st, m, q, p)
           W == {q.who}
<1>1. /\ t \in State /\ t.invites = st.invites /\ t.keys = st.keys
      /\ t.perms = [st.perms EXCEPT ![q.who] = p]
      /\ t.requests = st.requests \ {q}
      /\ t.pending = [st.pending EXCEPT ![q.who] = 0]
    <2>1. st \in State
        BY Zenon DEF Sane
    <2>2. RequestAcceptEffect(st, t, m, q, p)
        BY Zenon, <2>1, RequestAcceptState
    <2> HIDE DEF t
    <2> QED BY Zenon, <2>2 DEF RequestAcceptEffect
<1>2. t.requests = {s \in st.requests : s.who \notin W}
    BY Zenon, <1>1, OneRequest
<1>3. \A a \in Accounts : t.pending[a] = IF a \in W THEN 0 ELSE st.pending[a]
    BY Zenon, <1>1 DEF Sane, State
<1>4. \A a \in Accounts : t.perms[a] = "owner" => st.perms[a] = "owner"
    BY Zenon, <1>1 DEF Sane, State
<1> HIDE DEF t, W
<1>5. KeysOK(t, r) /\ \A i \in t.invites : i.perms # "owner"
    BY Zenon, <1>1 DEF Sane, KeysOK, OwnersOK
<1>6. Sane(t, r)
    BY <1>1, <1>2, <1>3, <1>4, <1>5, RequestsDropped, Zenon
<1> QED BY Zenon, <1>6 DEF t

\* Other permissions than the owner's, for an account that is not the owner, keep one owner.
LEMMA SaneUpdatePermissions ==
    ASSUME NEW st, NEW r \in Nat, Sane(st, r), NEW m \in Nat, NEW a \in Accounts,
           NEW p \in Perms, p # "owner"
    PROVE  Sane(updatePermissions(st, a, p, m), r)
<1> DEFINE t == updatePermissions(st, a, p, m)
<1>1. /\ t \in State /\ t.invites = st.invites /\ t.keys = st.keys
      /\ t.perms = [st.perms EXCEPT ![a] = p]
      /\ t.requests = st.requests /\ t.pending = st.pending
    <2>1. st \in State
        BY Zenon DEF Sane
    <2>2. UpdatePermissionsEffect(st, t, a, p, m)
        BY Zenon, <2>1, UpdatePermissionsState
    <2> HIDE DEF t
    <2> QED BY Zenon, <2>2 DEF UpdatePermissionsEffect
<1> HIDE DEF t
<1>2. OwnersOK(t)
    BY Zenon, <1>1 DEF Sane, OwnersOK, State
<1>3. RequestsOK(t, r)
    BY <1>1 DEF Sane, RequestsOK
<1>4. KeysOK(t, r)
    BY Zenon, <1>1 DEF Sane, KeysOK
<1> QED BY Zenon, <1>1, <1>2, <1>3, <1>4 DEF Sane, t

\* Adding accounts with other permissions than the owner's keeps one owner.
LEMMA SaneAccountsAdd ==
    ASSUME NEW st, NEW r \in Nat, Sane(st, r), NEW m \in Nat, NEW A, NEW p \in Perms, p # "owner"
    PROVE  Sane(applyAccountsAdd(st, A, p, m), r)
<1> DEFINE t == applyAccountsAdd(st, A, p, m)
<1>1. /\ t \in State /\ t.invites = st.invites /\ t.keys = st.keys
      /\ t.requests = st.requests /\ t.pending = st.pending
      /\ \A a \in Accounts : t.perms[a] = IF a \in A THEN p ELSE st.perms[a]
    <2>1. st \in State
        BY Zenon DEF Sane
    <2>2. AccountsAddEffect(st, t, A, p, m)
        BY Zenon, <2>1, AccountsAddState
    <2> HIDE DEF t
    <2> QED BY <2>2 DEF AccountsAddEffect
<1> HIDE DEF t
<1>2. OwnersOK(t)
    BY Zenon, <1>1 DEF Sane, OwnersOK, State
<1>3. RequestsOK(t, r)
    BY <1>1 DEF Sane, RequestsOK
<1>4. KeysOK(t, r)
    BY Zenon, <1>1 DEF Sane, KeysOK
<1> QED BY Zenon, <1>1, <1>2, <1>3, <1>4 DEF Sane, t

\* A new read key is the latest one.
LEMMA SaneReadKeyChange ==
    ASSUME NEW st, NEW r \in Nat, Sane(st, r)
    PROVE  Sane(applyReadKeyChange(st, r), r)
<1> DEFINE t == applyReadKeyChange(st, r)
<1>1. /\ t \in State /\ t.perms = st.perms
      /\ t.requests = st.requests /\ t.pending = st.pending /\ t.keys = st.keys \cup {r}
      /\ \A j \in t.invites : \E i \in st.invites : j.id = i.id /\ j.perms = i.perms
    BY Zenon, ReadKeyChangeState DEF Sane, ReadKeyChangeEffect
<1> HIDE DEF t
<1>2. OwnersOK(t)
    BY <1>1, Zenon DEF Sane, OwnersOK, State
<1>3. RequestsOK(t, r)
    BY <1>1 DEF Sane, RequestsOK
<1>4. KeysOK(t, r)
    BY <1>1 DEF Sane, KeysOK
<1> QED BY Zenon, <1>1, <1>2, <1>3, <1>4 DEF Sane, t

\* Removing accounts drops their requests from both indexes and adds the latest read key.
LEMMA SaneAccountRemove ==
    ASSUME NEW st, NEW r \in Nat, Sane(st, r), NEW A \in SUBSET Accounts
    PROVE  Sane(applyAccountRemove(st, A, r), r)
<1> DEFINE t == applyAccountRemove(st, A, r)
<1>1. /\ t \in State /\ t.keys = st.keys \cup {r}
      /\ \A j \in t.invites : \E i \in st.invites : j.id = i.id /\ j.perms = i.perms
      /\ t.requests = {q \in st.requests : \A a \in A : q.id # st.pending[a]}
      /\ \A a \in Accounts : /\ t.perms[a] = IF a \in A THEN "none" ELSE st.perms[a]
                             /\ t.pending[a] = IF a \in A THEN 0 ELSE st.pending[a]
    <2>1. st \in State
        BY Zenon DEF Sane
    <2>2. AccountRemoveEffect(st, t, A, r)
        BY Zenon, <2>1, AccountRemoveState
    <2> HIDE DEF t
    <2> QED BY Zenon, <2>2 DEF AccountRemoveEffect
<1>2. ASSUME NEW q \in st.requests
      PROVE  q.who \in A <=> \E a \in A : q.id = st.pending[a]
    <2>1. ASSUME NEW a \in A, q.id = st.pending[a] PROVE q.who = a
        <3>1. PICK p \in st.requests : p.id = st.pending[a] /\ p.who = a
            BY <2>1 DEF Sane, RequestsOK, State, Request
        <3> QED BY <2>1, <3>1 DEF Sane, RequestsOK
    <2>2. st.pending[q.who] = q.id
        BY Zenon DEF Sane, RequestsOK
    <2> QED BY Zenon, <2>1, <2>2
<1> HIDE DEF t
<1>3. t.requests = {q \in st.requests : q.who \notin A}
    BY <1>1, <1>2
<1>4. KeysOK(t, r)
    BY <1>1 DEF Sane, KeysOK
<1>5. \A i \in t.invites : i.perms # "owner"
    BY <1>1 DEF Sane, OwnersOK
<1>6. Sane(t, r)
    BY <1>1, <1>3, <1>4, <1>5, RequestsDropped
<1> QED BY Zenon, <1>6 DEF t

\* What applyOwnershipChange changes of st, and what it keeps.
OwnershipChangeEffect(st, t, o, a, p, r) ==
    /\ t \in State
    /\ t.n = st.n /\ t.status = st.status /\ t.invites = st.invites
    /\ t.requests = st.requests /\ t.pending = st.pending /\ t.keys = st.keys
    /\ \A b \in Accounts : t.perms[b] = IF b = a THEN "owner" ELSE IF b = o THEN p ELSE st.perms[b]
    /\ \A b \in Accounts \ {o, a} : t.changes[b] = st.changes[b]
    /\ t.changes[o] = Append(st.changes[o], [rec |-> r, perm |-> p])
    /\ t.changes[a] = Append(st.changes[a], [rec |-> r, perm |-> "owner"])

\* applyOwnershipChange makes one account the owner and gives the former owner p.
LEMMA OwnershipChangeState ==
    ASSUME NEW st \in State, NEW o \in Accounts, NEW a \in Accounts, o # a, NEW p \in Perms, NEW r \in Nat
    PROVE  OwnershipChangeEffect(st, applyOwnershipChange(st, o, a, p, r), o, a, p, r)
<1> DEFINE u == updatePermissions(st, o, p, r)
           t == updatePermissions(u, a, "owner", r)
<1>1. UpdatePermissionsEffect(st, u, o, p, r)
    BY Zenon, UpdatePermissionsState
<1>2. u \in State /\ "owner" \in Perms
    <2> HIDE DEF u
    <2> QED BY Zenon, <1>1 DEF UpdatePermissionsEffect, Perms
<1>3. UpdatePermissionsEffect(u, t, a, "owner", r)
    <2> HIDE DEF u
    <2> QED BY Zenon, <1>2, UpdatePermissionsState
<1>4. applyOwnershipChange(st, o, a, p, r) = t
    BY Zenon DEF applyOwnershipChange
<1> HIDE DEF u, t
<1>5. /\ t \in State
      /\ t.n = st.n /\ t.status = st.status /\ t.invites = st.invites
      /\ t.requests = st.requests /\ t.pending = st.pending /\ t.keys = st.keys
    BY Zenon, <1>1, <1>3 DEF UpdatePermissionsEffect
<1>6. \A b \in Accounts : t.perms[b] = IF b = a THEN "owner" ELSE IF b = o THEN p ELSE st.perms[b]
    BY <1>1, <1>2, <1>3 DEF UpdatePermissionsEffect, State
<1>7. /\ u.changes = [st.changes EXCEPT ![o] = Append(@, [rec |-> r, perm |-> p])]
      /\ t.changes = [u.changes EXCEPT ![a] = Append(@, [rec |-> r, perm |-> "owner"])]
      /\ DOMAIN st.changes = Accounts /\ DOMAIN u.changes = Accounts
    BY Zenon, <1>1, <1>2, <1>3 DEF UpdatePermissionsEffect, State
<1>8. /\ \A b \in Accounts \ {o, a} : t.changes[b] = st.changes[b]
      /\ t.changes[o] = Append(st.changes[o], [rec |-> r, perm |-> p])
      /\ t.changes[a] = Append(st.changes[a], [rec |-> r, perm |-> "owner"])
    BY Zenon, <1>7
<1> QED BY Zenon, <1>4, <1>5, <1>6, <1>8 DEF OwnershipChangeEffect

\* An ownership change leaves one owner, the new one.
LEMMA SaneOwnershipChange ==
    ASSUME NEW st, NEW r \in Nat, Sane(st, r), NEW o \in Accounts, NEW a \in Accounts, o # a,
           st.perms[o] = "owner", NEW p \in Perms, p # "owner", NEW m \in Nat
    PROVE  Sane(applyOwnershipChange(st, o, a, p, m), r)
<1> DEFINE t == applyOwnershipChange(st, o, a, p, m)
<1>1. OwnershipChangeEffect(st, t, o, a, p, m)
    BY Zenon, OwnershipChangeState DEF Sane
<1> HIDE DEF t
<1>2. OwnersOK(t)
    BY <1>1, Zenon DEF Sane, OwnersOK, State, OwnershipChangeEffect
<1>3. RequestsOK(t, r)
    BY <1>1 DEF Sane, RequestsOK, OwnershipChangeEffect
<1>4. KeysOK(t, r)
    BY Zenon, <1>1 DEF Sane, KeysOK, OwnershipChangeEffect
<1> QED BY Zenon, <1>1, <1>2, <1>3, <1>4 DEF Sane, t, OwnershipChangeEffect

-----------------------------------------------------------------------------
(* Histories *)

\* The history t goes on from s with changes of record r.
Continues(s, t, r) ==
    /\ Len(s) <= Len(t)
    /\ \A i \in 1..Len(s) : t[i] = s[i]
    /\ \A i \in (Len(s) + 1)..Len(t) : t[i].rec = r

\* A history continues itself.
LEMMA ContinuesSame ==
    ASSUME NEW s \in Seq(Change), NEW r
    PROVE  Continues(s, s, r)
BY DEF Continues

\* A change of record r at the end of what continues a history with r continues it too.
LEMMA ContinuesAppend ==
    ASSUME NEW s \in Seq(Change), NEW t \in Seq(Change), NEW r \in Nat, Continues(s, t, r), NEW p
    PROVE  LET u == Append(t, [rec |-> r, perm |-> p]) IN
           /\ Continues(s, u, r)
           /\ Len(u) > 0 /\ u[Len(u)].rec = r
BY DEF Continues

\* A set of numbers that is not empty and has a bound has a greatest element.
LEMMA GreatestElement ==
    ASSUME NEW N \in Nat, NEW T \in SUBSET (0..N), T # {}
    PROVE  \E m \in T : \A x \in T : x <= m
<1> DEFINE D == {N - x : x \in T}
<1>1. D \subseteq Nat /\ D # {}
    <2>1. PICK t \in T : TRUE
        BY Zenon
    <2>2. N - t \in D
        BY Zenon, <2>1
    <2>3. \A x \in T : x \in 0..N /\ N - x \in Nat
        OBVIOUS
    <2> QED BY Zenon, <2>2, <2>3
<1>2. PICK d \in D : \A y \in D : ~ (<<y, d>> \in OpToRel(<, Nat))
    <2> HIDE DEF D
    <2> QED BY <1>1, WFMin, NatLessThanWellFounded, Zenon
<1>3. \A y \in D : ~ (y < d)
    <2> SUFFICES ASSUME NEW y \in D, y < d PROVE FALSE
        OBVIOUS
    <2>1. y \in Nat /\ d \in Nat
        BY Zenon, <1>1
    <2>2. <<y, d>> \in OpToRel(<, Nat)
        BY Zenon, <2>1 DEF OpToRel
    <2> QED BY <1>2, <2>2, Zenon
<1>4. PICK m \in T : d = N - m
    OBVIOUS
<1>5. \A x \in T : x <= m
    <2> SUFFICES ASSUME NEW x \in T PROVE x <= m
        OBVIOUS
    <2>1. N - x \in D
        OBVIOUS
    <2>2. ~ (N - x < N - m)
        BY <1>3, <1>4, <2>1, Zenon
    <2> QED BY <2>2
<1> QED BY Zenon, <1>5


\* Then the permissions at earlier records are the same.
LEMMA SamePermissions ==
    ASSUME NEW st \in State, NEW u, u.changes \in [Accounts -> Seq(Change)], NEW a \in Accounts,
           NEW r \in Nat, Continues(st.changes[a], u.changes[a], r), NEW m \in Nat, m < r
    PROVE  PermissionsAtRecord(u, a, m) = PermissionsAtRecord(st, a, m)
<1> DEFINE s == st.changes[a]
           t == u.changes[a]
           S == {i \in DOMAIN s : s[i].rec <= m}
           T == {i \in DOMAIN t : t[i].rec <= m}
<1>1. s \in Seq(Change) /\ t \in Seq(Change)
    BY Zenon DEF State
<1>2. Continues(s, t, r)
    OBVIOUS
<1>3. T = S
    <2> HIDE DEF s, t
    <2>1. DOMAIN s = 1..Len(s) /\ DOMAIN t = 1..Len(t) /\ Len(s) \in Nat /\ Len(t) \in Nat
        BY <1>1
    <2>2. \A i \in 1..Len(t) : i \in 1..Len(s) \/ ~(t[i].rec <= m)
        BY <1>2, <2>1 DEF Continues
    <2> QED BY <1>2, <2>1, <2>2 DEF Continues
<1>4. CASE S = {}
    BY Zenon, <1>3, <1>4 DEF PermissionsAtRecord
<1>5. CASE S # {}
    <2> DEFINE c == CHOOSE i \in S : \A j \in S : j <= i
    <2>1. S \in SUBSET (0..Len(s)) /\ Len(s) \in Nat
        BY <1>1
    <2>2. \E i \in S : \A j \in S : j <= i
        <3> HIDE DEF S
        <3> QED BY <1>5, <2>1, GreatestElement, Zenon
    <2>3. c \in S
        <3> HIDE DEF S
        <3> QED BY Zenon, <2>2
    <2>4. t[c] = s[c]
        <3> HIDE DEF c, s, t
        <3> QED BY <1>1, <1>2, <2>3 DEF Continues
    <2>5. PermissionsAtRecord(st, a, m) = s[c].perm
        BY Zenon, <1>5 DEF PermissionsAtRecord
    <2>6. PermissionsAtRecord(u, a, m) = t[c].perm
        BY <1>3, <1>5, Zenon DEF PermissionsAtRecord
    <2> QED BY <2>4, <2>5, <2>6, Zenon
<1> QED BY Zenon, <1>4, <1>5

\* The history t goes on from s, and ends, with record r.
EndsWith(s, t, r) == Continues(s, t, r) /\ Len(t) > 0 /\ t[Len(t)].rec = r

\* A history with one more entry ends with the record of the entry.
LEMMA ContinuesOnce ==
    ASSUME NEW s \in Seq(Change), NEW e \in Change
    PROVE  EndsWith(s, Append(s, e), e.rec)
BY DEF EndsWith, Continues

\* One more entry of the same record continues the history still.
LEMMA ContinuesMore ==
    ASSUME NEW s \in Seq(Change), NEW t \in Seq(Change), NEW e \in Change, Continues(s, t, e.rec)
    PROVE  Continues(s, Append(t, e), e.rec)
BY DEF Continues, Change

-----------------------------------------------------------------------------
(* The contents of a batch *)

\* The stages of a batch: the state s before a content value, t after it.

\* The accounts in R are removed.
RemovedStage(s, t, R) ==
    /\ Sane(t, rec) /\ t.n = s.n
    /\ t.keys = IF R = {} THEN s.keys ELSE s.keys \cup {rec}
    /\ \A j \in t.invites : \E i \in s.invites : j.id = i.id /\ j.perms = i.perms
    /\ \A c \in Accounts :
          IF c \in R THEN /\ t.perms[c] = "none" /\ t.status[c] = "removed"
                          /\ EndsWith(s.changes[c], t.changes[c], rec)
          ELSE /\ t.perms[c] = s.perms[c] /\ t.status[c] = s.status[c]
               /\ t.changes[c] = s.changes[c]

\* applyAccountRemove, or nothing, in a batch.
LEMMA RemovedStageHolds ==
    ASSUME NEW s, Sane(s, rec), rec \in Nat, NEW R \in SUBSET Accounts
    PROVE  RemovedStage(s, IF R = {} THEN s ELSE applyAccountRemove(s, R, rec), R)
<1>1. CASE R = {}
    BY Zenon, <1>1 DEF RemovedStage
<1>2. CASE R # {}
    <2> DEFINE t == applyAccountRemove(s, R, rec)
               e == [rec |-> rec, perm |-> "none"]
    <2>1. AccountRemoveEffect(s, t, R, rec)
        BY Zenon, AccountRemoveState DEF Sane
    <2>2. Sane(t, rec)
        BY Zenon, SaneAccountRemove
    <2>3. e \in Change /\ e.rec = rec
        BY Zenon DEF Change, Perms
    <2> HIDE DEF t
    <2>4. \A c \in R : t.changes[c] = Append(s.changes[c], e)
        BY Zenon, <2>1 DEF AccountRemoveEffect
    <2>5. \A c \in Accounts : s.changes[c] \in Seq(Change)
        BY Zenon DEF Sane, State
    <2> HIDE DEF e, rec
    <2>6. \A c \in R : EndsWith(s.changes[c], t.changes[c], rec)
        BY <2>3, <2>4, <2>5, ContinuesOnce, Zenon
    <2>7. RemovedStage(s, t, R)
        BY Zenon, <1>2, <2>1, <2>2, <2>6 DEF RemovedStage, AccountRemoveEffect
    <2> QED BY Zenon, <1>2, <2>7 DEF t
<1> QED BY Zenon, <1>1, <1>2

\* The account w gets permissions p.
AcceptedStage(s, t, w, p) ==
    /\ Sane(t, rec) /\ t.n = s.n /\ t.keys = s.keys /\ t.invites = s.invites
    /\ t.perms[w] = p /\ t.status[w] = "active"
    /\ t.changes[w] = Append(s.changes[w], [rec |-> rec, perm |-> p])
    /\ \A c \in Accounts \ {w} : /\ t.perms[c] = s.perms[c] /\ t.status[c] = s.status[c]
                                 /\ t.changes[c] = s.changes[c]

\* applyRequestAccept in a batch.
LEMMA AcceptedStageHolds ==
    ASSUME NEW s, Sane(s, rec), rec \in Nat, NEW q \in s.requests, NEW p \in Perms, p # "owner"
    PROVE  AcceptedStage(s, applyRequestAccept(s, rec, q, p), q.who, p)
<1> DEFINE t == applyRequestAccept(s, rec, q, p)
           w == q.who
<1>1. RequestAcceptEffect(s, t, rec, q, p)
    BY Zenon, RequestAcceptState DEF Sane
<1>2. Sane(t, rec)
    BY Zenon, SaneRequestAccept
<1>3. w \in Accounts /\ s \in State
    BY Zenon DEF Sane, State, Request
<1> HIDE DEF t
<1>4. AcceptedStage(s, t, w, p)
    BY Zenon, <1>1, <1>2, <1>3 DEF RequestAcceptEffect, AcceptedStage, State
<1> QED BY Zenon, <1>4 DEF t

\* Requests are declined, invites are revoked, the read key changes and an invite is
\* made: permissions and histories stay, and nobody becomes a removed account.
LaterStage(s, t, K) ==
    /\ Sane(t, rec) /\ t.n = s.n /\ t.perms = s.perms /\ t.changes = s.changes
    /\ \A c \in Accounts : t.status[c] = "removed" => s.status[c] = "removed"
    /\ t.keys = s.keys \cup K

\* applyRequestDeclines in a batch.
LEMMA DeclinedStageHolds ==
    ASSUME NEW s, Sane(s, rec), rec \in Nat, NEW D, D \subseteq s.requests
    PROVE  LaterStage(s, applyRequestDeclines(s, D), {}) /\ applyRequestDeclines(s, D).invites = s.invites
<1> DEFINE t == applyRequestDeclines(s, D)
<1>1. RequestDeclinesEffect(s, t, D)
    BY Zenon, RequestDeclinesState DEF Sane
<1>2. Sane(t, rec)
    BY Zenon, SaneRequestDeclines
<1> HIDE DEF t
<1>3. LaterStage(s, t, {}) /\ t.invites = s.invites
    BY Zenon, <1>1, <1>2 DEF RequestDeclinesEffect, LaterStage
<1> QED BY Zenon, <1>3 DEF t

\* applyInviteRevokes in a batch.
LEMMA RevokedStageHolds ==
    ASSUME NEW s, Sane(s, rec), rec \in Nat, NEW I
    PROVE  /\ LaterStage(s, applyInviteRevokes(s, I), {})
           /\ applyInviteRevokes(s, I).invites \subseteq s.invites
<1> DEFINE t == applyInviteRevokes(s, I)
<1>1. InviteRevokesEffect(s, t, I)
    BY Zenon, InviteRevokesState DEF Sane
<1>2. Sane(t, rec)
    BY Zenon, SaneInviteRevokes
<1> HIDE DEF t
<1>3. LaterStage(s, t, {}) /\ t.invites \subseteq s.invites
    BY Zenon, <1>1, <1>2 DEF InviteRevokesEffect, LaterStage
<1> QED BY Zenon, <1>3 DEF t

\* applyReadKeyChange in a batch.
LEMMA RotatedStageHolds ==
    ASSUME NEW s, Sane(s, rec), rec \in Nat
    PROVE  /\ LaterStage(s, applyReadKeyChange(s, rec), {rec})
           /\ \A j \in applyReadKeyChange(s, rec).invites :
                 \E i \in s.invites : j.id = i.id /\ j.perms = i.perms
<1> DEFINE t == applyReadKeyChange(s, rec)
<1>1. ReadKeyChangeEffect(s, t, rec)
    BY Zenon, ReadKeyChangeState DEF Sane
<1>2. Sane(t, rec)
    BY Zenon, SaneReadKeyChange
<1> HIDE DEF t
<1>3. LaterStage(s, t, {rec}) /\ \A j \in t.invites : \E i \in s.invites : j.id = i.id /\ j.perms = i.perms
    BY Zenon, <1>1, <1>2 DEF ReadKeyChangeEffect, LaterStage
<1> QED BY Zenon, <1>3 DEF t

\* A new invite carries permissions p.
InvitedStage(s, t, p) ==
    LaterStage(s, t, {}) /\ \A i \in t.invites : i \in s.invites \/ i.perms = p

\* applyInvite in a batch.
LEMMA InvitedStageHolds ==
    ASSUME NEW s, Sane(s, rec), rec \in Nat, NEW anyone \in BOOLEAN, NEW p \in Perms, p # "owner",
           NEW k \in Nat
    PROVE  InvitedStage(s, applyInvite(s, rec, anyone, p, k), p)
<1> DEFINE t == applyInvite(s, rec, anyone, p, k)
<1>1. InviteEffect(s, t, rec, anyone, p, k)
    BY Zenon, InviteState DEF Sane
<1>2. Sane(t, rec)
    BY Zenon, SaneInvite
<1> HIDE DEF t
<1>3. InvitedStage(s, t, p)
    BY Zenon, <1>1, <1>2 DEF InviteEffect, LaterStage, InvitedStage
<1> QED BY Zenon, <1>3 DEF t

-----------------------------------------------------------------------------

(* Admission of a record *)

\* A removed account has no read key from its removal on, and a member that was not
\* raised by a permission change has the latest.
HoldersOK ==
    /\ holds \in [Accounts -> SUBSET (0..acl.n)]
    /\ \A a \in Accounts : acl.status[a] = "removed" /\ acl.perms[a] = "none" =>
          /\ Len(acl.changes[a]) > 0
          /\ \A k \in holds[a] : k < acl.changes[a][Len(acl.changes[a])].rec
    /\ \A a \in Members(acl) : CurrentReadKeyId(acl) \in holds[a] \/ a \in raised

AclInv == Sane(acl, acl.n) /\ Owners(acl) # {} /\ HoldersOK

\* What a record may do to the read keys: the state after it is t, and the accounts in
\* given and rotated get keys from it.
KeysStep(t, given, rotated) ==
    /\ t.keys = acl.keys \/ t.keys = acl.keys \cup {rec}
    /\ \A a \in Accounts : t.status[a] = "removed" /\ t.perms[a] = "none" =>
          /\ a \notin given \cup rotated
          /\ \/ /\ acl.status[a] = "removed" /\ acl.perms[a] = "none"
                /\ t.changes[a] = acl.changes[a]
             \/ Len(t.changes[a]) > 0 /\ t.changes[a][Len(t.changes[a])].rec = rec
    /\ \A a \in Accounts : t.perms[a] # "none" =>
          \/ a \in given
          \/ a \in rotated /\ rec \in t.keys
          \/ a \in raised'
          \/ t.keys = acl.keys /\ acl.perms[a] # "none" /\ a \notin raised

\* ... to the admins, the invites for admins and the histories.
AdminStep(author, kind, t) ==
    /\ \A a \in Accounts :
          acl.perms[a] # "admin" /\ t.perms[a] = "admin"
          => acl.perms[author] = "owner" \/ kind = "inviteJoin"
    /\ \A i \in t.invites :
          i.perms = "admin" /\ (\A j \in acl.invites : j.id = i.id => j.perms # "admin")
          => acl.perms[author] = "owner"

HistoryStep(kind, t) ==
    kind # "accountsAdd" => \A a \in Accounts : Continues(acl.changes[a], t.changes[a], rec)

Allowed(author, kind, t, given, rotated) ==
    /\ Sane(t, rec) /\ t.n = acl.n
    /\ KeysStep(t, given, rotated) /\ AdminStep(author, kind, t) /\ HistoryStep(kind, t)

AdminAct ==
    /\ \A a \in Accounts :
          acl.perms[a] # "admin" /\ acl'.perms[a] = "admin"
          => acl.perms[last'.author] = "owner" \/ last'.kind = "inviteJoin"
    /\ \A i \in acl'.invites :
          i.perms = "admin" /\ (\A j \in acl.invites : j.id = i.id => j.perms # "admin")
          => acl.perms[last'.author] = "owner"

HistoryAct ==
    \A a \in Accounts :
       \/ last'.kind = "accountsAdd" \/ acl'.changes[a] = acl.changes[a]
       \/ \A r \in 1..acl.n : PermissionsAtRecord(acl', a, r) = PermissionsAtRecord(acl, a, r)

Good == AclInv' /\ AdminAct /\ HistoryAct

\* The latest read key is one of the keys.
LEMMA CurrentKey ==
    ASSUME NEW st, NEW r \in Nat, Sane(st, r)
    PROVE  /\ CurrentReadKeyId(st) \in st.keys /\ CurrentReadKeyId(st) \in Nat
           /\ r \in st.keys => CurrentReadKeyId(st) = r
<1>1. \E k \in st.keys : \A j \in st.keys : j <= k
    BY Zenon DEF Sane, KeysOK
<1>2. /\ CurrentReadKeyId(st) \in st.keys
      /\ \A j \in st.keys : j <= CurrentReadKeyId(st)
    BY Zenon, <1>1 DEF CurrentReadKeyId
<1> QED BY <1>2 DEF Sane, KeysOK

\* Only the number of records changes when a state is numbered.
LEMMA Numbered ==
    ASSUME NEW t \in State, NEW m \in Nat
    PROVE  LET u == [t EXCEPT !.n = m] IN
           /\ u \in State /\ u.n = m
           /\ u.perms = t.perms /\ u.status = t.status /\ u.changes = t.changes
           /\ u.invites = t.invites /\ u.requests = t.requests /\ u.pending = t.pending
           /\ u.keys = t.keys
BY Zenon DEF State

\* A record that is admitted (AddRecord) and leads to an allowed state keeps the invariant,
\* makes no admin without the owner and changes no earlier permissions.
LEMMA AdmitStep ==
    ASSUME AclInv, NEW author, NEW kind, NEW t, NEW given, NEW rotated,
           Admit(author, kind, t, given, rotated), Allowed(author, kind, t, given, rotated)
    PROVE  Good
<1>1. /\ acl' = [t EXCEPT !.n = @ + 1]
      /\ holds' = [a \in Accounts |->
                     IF a \in given THEN t.keys
                     ELSE IF a \in rotated THEN holds[a] \cup {rec} ELSE holds[a]]
      /\ last' = [author |-> author, kind |-> kind]
      /\ Owners(t) # {}
    BY Zenon DEF Admit, AddRecord, rec
<1>2. Sane(t, rec) /\ t.n = acl.n /\ acl.n \in Nat /\ rec = acl.n + 1 /\ t \in State /\ acl \in State
    BY Zenon DEF Allowed, AclInv, Sane, State, rec
<1>3. /\ acl' \in State /\ acl'.n = rec
      /\ acl'.perms = t.perms /\ acl'.status = t.status /\ acl'.changes = t.changes
      /\ acl'.invites = t.invites /\ acl'.requests = t.requests /\ acl'.pending = t.pending
      /\ acl'.keys = t.keys
    <2>1. acl' = [t EXCEPT !.n = rec] /\ rec \in Nat
        BY <1>1, <1>2 DEF State
    <2> HIDE DEF rec
    <2> QED BY Zenon, <2>1, <1>2, Numbered
<1>4. Sane(acl, acl.n)'
    <2>1. OwnersOK(acl')
        BY Zenon, <1>2, <1>3 DEF Sane, OwnersOK
    <2>2. RequestsOK(acl', rec)
        BY <1>2, <1>3 DEF Sane, RequestsOK
    <2>3. KeysOK(acl', rec)
        BY Zenon, <1>2, <1>3 DEF Sane, KeysOK
    <2>4. Sane(acl', acl'.n)
        BY Zenon, <1>3, <2>1, <2>2, <2>3 DEF Sane
    <2> QED BY Zenon, <2>4 DEF Sane, OwnersOK, RequestsOK, KeysOK
<1>5. Owners(acl)' # {}
    BY Zenon, <1>1, <1>3 DEF Owners
<1>6. HoldersOK'
    <2>1. holds' \in [Accounts -> SUBSET (0..rec)]
        BY <1>1, <1>2 DEF AclInv, HoldersOK, Sane, KeysOK
    <2>2. ASSUME NEW a \in Accounts, acl'.status[a] = "removed", acl'.perms[a] = "none"
          PROVE  /\ Len(acl'.changes[a]) > 0
                 /\ \A k \in holds'[a] : k < acl'.changes[a][Len(acl'.changes[a])].rec
        <3>1. /\ a \notin given \cup rotated
              /\ \/ /\ acl.status[a] = "removed" /\ acl.perms[a] = "none"
                    /\ t.changes[a] = acl.changes[a]
                 \/ Len(t.changes[a]) > 0 /\ t.changes[a][Len(t.changes[a])].rec = rec
            BY Zenon, <2>2, <1>3 DEF Allowed, KeysStep
        <3>2. holds'[a] = holds[a] /\ holds[a] \subseteq 0..acl.n
            BY Zenon, <3>1, <1>1 DEF AclInv, HoldersOK
        <3>3. CASE /\ acl.status[a] = "removed" /\ acl.perms[a] = "none"
                   /\ t.changes[a] = acl.changes[a]
            BY Zenon, <3>2, <3>3, <1>3 DEF AclInv, HoldersOK
        <3>4. CASE Len(t.changes[a]) > 0 /\ t.changes[a][Len(t.changes[a])].rec = rec
            BY <3>2, <3>4, <1>2, <1>3
        <3> QED BY Zenon, <3>1, <3>3, <3>4
    <2>3. ASSUME NEW a \in Accounts, acl'.perms[a] # "none"
          PROVE  CurrentReadKeyId(acl') \in holds'[a] \/ a \in raised'
        <3>1. /\ CurrentReadKeyId(t) \in t.keys
              /\ rec \in t.keys => CurrentReadKeyId(t) = rec
            BY <1>2, CurrentKey
        <3>2. CurrentReadKeyId(acl') = CurrentReadKeyId(t)
            BY Zenon, <1>3 DEF CurrentReadKeyId
        <3>3. \/ a \in given
              \/ a \in rotated /\ rec \in t.keys
              \/ a \in raised'
              \/ t.keys = acl.keys /\ acl.perms[a] # "none" /\ a \notin raised
            BY Zenon, <2>3, <1>3 DEF Allowed, KeysStep
        <3>4. CASE a \in given
            BY Zenon, <3>1, <3>2, <3>4, <1>1
        <3>5. CASE a \in rotated /\ rec \in t.keys
            BY Zenon, <3>1, <3>2, <3>5, <1>1
        <3>6. CASE t.keys = acl.keys /\ acl.perms[a] # "none" /\ a \notin raised
            <4>1. CurrentReadKeyId(t) = CurrentReadKeyId(acl)
                BY Zenon, <3>6 DEF CurrentReadKeyId
            <4>2. CurrentReadKeyId(acl) \in holds[a]
                BY Zenon, <3>6 DEF AclInv, HoldersOK, Members
            <4>3. holds[a] \subseteq holds'[a] \/ a \in given
                BY Zenon, <1>1
            <4> QED BY Zenon, <3>2, <3>4, <4>1, <4>2, <4>3
        <3> QED BY Zenon, <3>3, <3>4, <3>5, <3>6
    <2> QED BY Zenon, <2>1, <2>2, <2>3, <1>3 DEF HoldersOK, Members, CurrentReadKeyId
<1>7. AdminAct
    BY Zenon, <1>1, <1>3 DEF Allowed, AdminStep, AdminAct
<1>8. HistoryAct
    <2> SUFFICES ASSUME NEW a \in Accounts, NEW r \in 1..acl.n, last'.kind # "accountsAdd"
                 PROVE  PermissionsAtRecord(acl', a, r) = PermissionsAtRecord(acl, a, r)
        BY Zenon DEF HistoryAct
    <2>1. Continues(acl.changes[a], acl'.changes[a], rec)
        BY Zenon, <1>1, <1>3 DEF Allowed, HistoryStep
    <2>2. acl'.changes \in [Accounts -> Seq(Change)] /\ r \in Nat /\ rec \in Nat /\ r < rec
        BY <1>2, <1>3 DEF State
    <2> QED BY <2>1, <2>2, <1>2, SamePermissions
<1> QED BY Zenon, <1>4, <1>5, <1>6, <1>7, <1>8 DEF Good, AclInv

-----------------------------------------------------------------------------
(* The records *)

\* The types that the invariant gives to the proofs of the single records.
LEMMA AclTypes ==
    ASSUME AclInv
    PROVE  /\ acl \in State /\ Sane(acl, acl.n) /\ acl.n \in Nat /\ Sane(acl, rec)
           /\ rec \in Nat \ {0} /\ rec = acl.n + 1 /\ CurrentReadKeyId(acl) \in Nat
           /\ GivenPerms \subseteq Perms /\ "none" \in Perms
<1>1. acl \in State /\ Sane(acl, acl.n) /\ acl.n \in Nat
    BY Zenon DEF AclInv, Sane, State
<1>2. Sane(acl, rec)
    BY Zenon, <1>1, SaneLater DEF rec
<1> QED BY <1>1, <1>2, CurrentKey, AclAssumption DEF rec, Perms

\* A record that changes no permissions and no read key.
LEMMA QuietRecord ==
    ASSUME AclInv, NEW author, NEW kind, NEW t, Sane(t, rec), t.n = acl.n,
           t.perms = acl.perms, t.changes = acl.changes, t.keys = acl.keys,
           \A a \in Accounts : t.status[a] = "removed" => acl.status[a] = "removed",
           \A i \in t.invites :
              i.perms = "admin" /\ (\A j \in acl.invites : j.id = i.id => j.perms # "admin")
              => acl.perms[author] = "owner",
           Admit(author, kind, t, {}, {}), raised' = raised
    PROVE  Good
<1>1. KeysStep(t, {}, {})
    BY Zenon DEF KeysStep
<1>2. AdminStep(author, kind, t)
    BY Zenon DEF AdminStep
<1>3. HistoryStep(kind, t)
    BY Zenon, AclTypes, ContinuesSame DEF HistoryStep, State
<1>4. Allowed(author, kind, t, {}, {})
    BY Zenon, <1>1, <1>2, <1>3 DEF Allowed
<1> QED BY Zenon, <1>4, AdmitStep

\* BuildInvite and BuildInviteAnyone: only the owner makes an invite for admins.
LEMMA InviteGood ==
    ASSUME AclInv, NEW a \in Accounts, NEW anyone \in BOOLEAN, NEW p \in GivenPerms \cup {"none"},
           ~anyone => p = "none", BuildInvite(a, anyone, p)
    PROVE  Good
<1> DEFINE k == CurrentReadKeyId(acl)
           t == applyInvite(acl, rec, anyone, p, k)
<1>1. p \in Perms /\ p # "owner" /\ (p = "admin" => acl.perms[a] = "owner")
    BY Zenon, AclTypes DEF BuildInvite, ValidateInvite, Perms
<1>2. Admit(a, "invite", t, {}, {}) /\ raised' = raised
    BY Zenon DEF BuildInvite
<1>3. k \in Nat /\ rec \in Nat /\ acl \in State /\ Sane(acl, rec)
    BY Zenon, AclTypes
<1> HIDE DEF k
<1>4. InviteEffect(acl, t, rec, anyone, p, k)
    BY Zenon, <1>1, <1>3, InviteState
<1>5. Sane(t, rec)
    BY Zenon, <1>1, <1>3, SaneInvite
<1> HIDE DEF t
<1>6. /\ t.n = acl.n /\ t.perms = acl.perms /\ t.changes = acl.changes /\ t.keys = acl.keys
      /\ \A b \in Accounts : t.status[b] = "removed" => acl.status[b] = "removed"
    BY Zenon, <1>1, <1>2, <1>4, <1>5 DEF InviteEffect
<1>7. \A x \in t.invites :
        x.perms = "admin" /\ (\A j \in acl.invites : j.id = x.id => j.perms # "admin")
        => acl.perms[a] = "owner"
    BY Zenon, <1>1, <1>2, <1>4, <1>5 DEF InviteEffect
<1> QED BY Zenon, <1>1, <1>2, <1>3, <1>4, <1>5, <1>6, <1>7, QuietRecord

\* BuildInviteChange: only the owner turns an invite into one for admins.
LEMMA InviteChangeGood ==
    ASSUME AclInv, NEW a \in Accounts, NEW i \in acl.invites, NEW p \in GivenPerms,
           BuildInviteChange(a, i, p)
    PROVE  Good
<1> DEFINE t == applyInviteChange(acl, i, p)
<1>1. p \in Perms /\ p # "owner" /\ (p = "admin" => acl.perms[a] = "owner")
    BY Zenon, AclTypes DEF BuildInviteChange, ValidateInviteChange
<1>2. Admit(a, "inviteChange", t, {}, {}) /\ raised' = raised
    BY Zenon DEF BuildInviteChange
<1>3. rec \in Nat /\ acl \in State /\ Sane(acl, rec)
    BY Zenon, AclTypes
<1>4. InviteChangeEffect(acl, t, i, p)
    BY Zenon, <1>1, <1>3, InviteChangeState
<1>5. Sane(t, rec)
    BY Zenon, <1>1, <1>3, SaneInviteChange
<1> HIDE DEF t
<1>6. /\ t.n = acl.n /\ t.perms = acl.perms /\ t.changes = acl.changes /\ t.keys = acl.keys
      /\ \A b \in Accounts : t.status[b] = "removed" => acl.status[b] = "removed"
    BY Zenon, <1>1, <1>2, <1>4, <1>5 DEF InviteChangeEffect
<1>7. \A x \in t.invites :
        x.perms = "admin" /\ (\A j \in acl.invites : j.id = x.id => j.perms # "admin")
        => acl.perms[a] = "owner"
    BY Zenon, <1>1, <1>2, <1>4, <1>5 DEF InviteChangeEffect
<1> QED BY Zenon, <1>1, <1>2, <1>3, <1>4, <1>5, <1>6, <1>7, QuietRecord

\* BuildInviteRevoke changes invites only.
LEMMA InviteRevokeGood ==
    ASSUME AclInv, NEW a \in Accounts, NEW i \in acl.invites, BuildInviteRevoke(a, i)
    PROVE  Good
<1> DEFINE t == applyInviteRevokes(acl, {i.id})
<1>1. Admit(a, "inviteRevoke", t, {}, {}) /\ raised' = raised
    BY Zenon DEF BuildInviteRevoke
<1>2. rec \in Nat /\ acl \in State /\ Sane(acl, rec)
    BY Zenon, AclTypes
<1>3. InviteRevokesEffect(acl, t, {i.id})
    BY Zenon, <1>2, InviteRevokesState
<1>4. Sane(t, rec)
    BY Zenon, <1>2, SaneInviteRevokes
<1> HIDE DEF t
<1>5. /\ t.n = acl.n /\ t.perms = acl.perms /\ t.changes = acl.changes /\ t.keys = acl.keys
      /\ \A b \in Accounts : t.status[b] = "removed" => acl.status[b] = "removed"
    BY Zenon, <1>1, <1>3, <1>4 DEF InviteRevokesEffect
<1>6. \A x \in t.invites :
        x.perms = "admin" /\ (\A j \in acl.invites : j.id = x.id => j.perms # "admin")
        => acl.perms[a] = "owner"
    BY Zenon, <1>1, <1>3, <1>4 DEF InviteRevokesEffect
<1> QED BY Zenon, <1>1, <1>2, <1>3, <1>4, <1>5, <1>6, QuietRecord

\* BuildRequestJoin changes no permissions and no keys.
LEMMA RequestJoinGood ==
    ASSUME AclInv, NEW a \in Accounts, NEW i \in acl.invites, BuildRequestJoin(a, i)
    PROVE  Good
<1> DEFINE t == applyRequestJoin(acl, a, rec)
<1>1. Admit(a, "requestJoin", t, {}, {}) /\ raised' = raised /\ acl.pending[a] = 0
    BY Zenon DEF BuildRequestJoin, ValidateRequestJoin
<1>2. RequestJoinEffect(acl, t, a, rec)
    BY Zenon, AclTypes, RequestJoinState
<1>3. Sane(t, rec)
    BY Zenon, <1>1, AclTypes, SaneRequestJoin
<1> HIDE DEF t
<1>4. \A b \in Accounts : t.status[b] = "removed" => acl.status[b] = "removed"
    BY Zenon, <1>2, AclTypes DEF RequestJoinEffect, State
<1>5. /\ t.n = acl.n /\ t.perms = acl.perms /\ t.changes = acl.changes /\ t.keys = acl.keys
      /\ \A b \in Accounts : t.status[b] = "removed" => acl.status[b] = "removed"
    BY Zenon, <1>1, <1>2, <1>3, <1>4 DEF RequestJoinEffect
<1>6. \A x \in t.invites :
        x.perms = "admin" /\ (\A j \in acl.invites : j.id = x.id => j.perms # "admin")
        => acl.perms[a] = "owner"
    BY Zenon, <1>1, <1>2, <1>3, <1>4 DEF RequestJoinEffect
<1> QED BY Zenon, <1>1, <1>2, <1>3, <1>4, <1>5, <1>6, QuietRecord

\* BuildRequestRemove changes no permissions and no keys.
LEMMA RequestRemoveGood ==
    ASSUME AclInv, NEW a \in Accounts, BuildRequestRemove(a)
    PROVE  Good
<1> DEFINE t == applyRequestRemove(acl, a, rec)
<1>1. Admit(a, "requestRemove", t, {}, {}) /\ raised' = raised /\ acl.pending[a] = 0
    BY Zenon DEF BuildRequestRemove, ValidateRequestRemove
<1>2. RequestRemoveEffect(acl, t, a, rec)
    BY Zenon, AclTypes, RequestRemoveState
<1>3. Sane(t, rec)
    BY Zenon, <1>1, AclTypes, SaneRequestRemove
<1> HIDE DEF t
<1>4. \A b \in Accounts : t.status[b] = "removed" => acl.status[b] = "removed"
    BY Zenon, <1>2, AclTypes DEF RequestRemoveEffect, State
<1>5. /\ t.n = acl.n /\ t.perms = acl.perms /\ t.changes = acl.changes /\ t.keys = acl.keys
      /\ \A b \in Accounts : t.status[b] = "removed" => acl.status[b] = "removed"
    BY Zenon, <1>1, <1>2, <1>3, <1>4 DEF RequestRemoveEffect
<1>6. \A x \in t.invites :
        x.perms = "admin" /\ (\A j \in acl.invites : j.id = x.id => j.perms # "admin")
        => acl.perms[a] = "owner"
    BY Zenon, <1>1, <1>2, <1>3, <1>4 DEF RequestRemoveEffect
<1> QED BY Zenon, <1>1, <1>2, <1>3, <1>4, <1>5, <1>6, QuietRecord

\* BuildRequestDecline changes no permissions, and nobody becomes a removed account by it.
LEMMA RequestDeclineGood ==
    ASSUME AclInv, NEW a \in Accounts, NEW q \in acl.requests, BuildRequestDecline(a, q)
    PROVE  Good
<1> DEFINE t == applyRequestDeclines(acl, {q})
<1>1. Admit(a, "requestDecline", t, {}, {}) /\ raised' = raised
    BY Zenon DEF BuildRequestDecline
<1>2. RequestDeclinesEffect(acl, t, {q})
    BY Zenon, AclTypes, RequestDeclinesState
<1>3. Sane(t, rec)
    BY Zenon, AclTypes, SaneRequestDeclines
<1> HIDE DEF t
<1>4. \A b \in Accounts : t.status[b] = "removed" => acl.status[b] = "removed"
    BY Zenon, <1>2 DEF RequestDeclinesEffect
<1>5. /\ t.n = acl.n /\ t.perms = acl.perms /\ t.changes = acl.changes /\ t.keys = acl.keys
      /\ \A b \in Accounts : t.status[b] = "removed" => acl.status[b] = "removed"
    BY Zenon, <1>1, <1>2, <1>3, <1>4 DEF RequestDeclinesEffect
<1>6. \A x \in t.invites :
        x.perms = "admin" /\ (\A j \in acl.invites : j.id = x.id => j.perms # "admin")
        => acl.perms[a] = "owner"
    BY Zenon, <1>1, <1>2, <1>3, <1>4 DEF RequestDeclinesEffect
<1> QED BY Zenon, <1>1, <1>2, <1>3, <1>4, <1>5, <1>6, QuietRecord

\* BuildRequestCancel changes no permissions, and nobody becomes a removed account by it.
LEMMA RequestCancelGood ==
    ASSUME AclInv, NEW a \in Accounts, NEW q \in acl.requests, BuildRequestCancel(a, q)
    PROVE  Good
<1> DEFINE t == applyRequestCancel(acl, q)
<1>1. Admit(a, "requestCancel", t, {}, {}) /\ raised' = raised
    BY Zenon DEF BuildRequestCancel
<1>2. RequestCancelEffect(acl, t, q)
    BY Zenon, AclTypes, RequestCancelState
<1>3. Sane(t, rec)
    BY Zenon, AclTypes, SaneRequestCancel
<1> HIDE DEF t
<1>4. \A b \in Accounts : t.status[b] = "removed" => acl.status[b] = "removed"
    BY <1>2, AclTypes DEF RequestCancelEffect, State
<1>5. /\ t.n = acl.n /\ t.perms = acl.perms /\ t.changes = acl.changes /\ t.keys = acl.keys
      /\ \A b \in Accounts : t.status[b] = "removed" => acl.status[b] = "removed"
    BY Zenon, <1>1, <1>2, <1>3, <1>4 DEF RequestCancelEffect
<1>6. \A x \in t.invites :
        x.perms = "admin" /\ (\A j \in acl.invites : j.id = x.id => j.perms # "admin")
        => acl.perms[a] = "owner"
    BY Zenon, <1>1, <1>2, <1>3, <1>4 DEF RequestCancelEffect
<1> QED BY Zenon, <1>1, <1>2, <1>3, <1>4, <1>5, <1>6, QuietRecord

\* A record that gives one account permissions p, and the read keys if given is {a}.
LEMMA PermissionRecord ==
    ASSUME AclInv, NEW author, NEW kind, NEW t, NEW a \in Accounts, NEW p \in Perms, NEW given,
           Sane(t, rec), t.n = acl.n, t.keys = acl.keys, t.invites = acl.invites,
           t.perms = [acl.perms EXCEPT ![a] = p],
           t.changes = [acl.changes EXCEPT ![a] = Append(@, [rec |-> rec, perm |-> p])],
           \A b \in Accounts \ {a} : t.status[b] = acl.status[b],
           given = {} \/ (given = {a} /\ t.status[a] = "active"),
           p = "admin" /\ acl.perms[a] # "admin" => acl.perms[author] = "owner" \/ kind = "inviteJoin",
           a \in given \/ a \in raised' \/ p = "none" \/ (acl.perms[a] # "none" /\ a \notin raised),
           raised \ {a} \subseteq raised',
           Admit(author, kind, t, given, {})
    PROVE  Good
<1>1. acl \in State /\ rec \in Nat
    BY Zenon, AclTypes
<1>2. /\ \A b \in Accounts \ {a} : t.perms[b] = acl.perms[b] /\ t.changes[b] = acl.changes[b]
      /\ t.perms[a] = p /\ t.changes[a] = Append(acl.changes[a], [rec |-> rec, perm |-> p])
    BY Zenon, <1>1 DEF State
<1>3. \A b \in Accounts : acl.changes[b] \in Seq(Change) /\ Continues(acl.changes[b], acl.changes[b], rec)
    BY Zenon, <1>1, ContinuesSame DEF State
<1>4. /\ Continues(acl.changes[a], t.changes[a], rec)
      /\ Len(t.changes[a]) > 0 /\ t.changes[a][Len(t.changes[a])].rec = rec
    <2> HIDE DEF rec
    <2> QED BY <1>1, <1>2, <1>3, ContinuesAppend
<1>5. HistoryStep(kind, t)
    BY Zenon, <1>2, <1>3, <1>4 DEF HistoryStep
<1>6. AdminStep(author, kind, t)
    BY Zenon, <1>2 DEF AdminStep
<1>7. KeysStep(t, given, {})
    <2>1. ASSUME NEW b \in Accounts, t.status[b] = "removed", t.perms[b] = "none"
          PROVE  /\ b \notin given
                 /\ \/ /\ acl.status[b] = "removed" /\ acl.perms[b] = "none"
                       /\ t.changes[b] = acl.changes[b]
                    \/ Len(t.changes[b]) > 0 /\ t.changes[b][Len(t.changes[b])].rec = rec
        BY Zenon, <2>1, <1>2, <1>4
    <2>2. ASSUME NEW b \in Accounts, t.perms[b] # "none"
          PROVE  \/ b \in given
                 \/ b \in raised'
                 \/ acl.perms[b] # "none" /\ b \notin raised
        BY Zenon, <2>2, <1>2
    <2> QED BY Zenon, <2>1, <2>2 DEF KeysStep
<1>8. Allowed(author, kind, t, given, {})
    BY Zenon, <1>5, <1>6, <1>7 DEF Allowed
<1> QED BY Zenon, <1>8, AdmitStep

\* BuildInviteJoinWithoutApprove: the account that joins gets the keys with the invite.
LEMMA InviteJoinGood ==
    ASSUME AclInv, NEW a \in Accounts, NEW i \in acl.invites, NEW p \in GivenPerms,
           BuildInviteJoinWithoutApprove(a, i, p)
    PROVE  Good
<1> DEFINE t == applyInviteJoin(acl, a, rec, i, p)
           x == IF p = "none" THEN i.perms ELSE p
           given == {a}
<1>1. /\ Admit(a, "inviteJoin", t, given, {}) /\ raised' = raised \ {a}
      /\ p \in Perms /\ p # "owner" /\ a \in given
    BY Zenon, AclTypes DEF BuildInviteJoinWithoutApprove, ValidateInviteJoin, IsLessOrEqual
<1>2. InviteJoinEffect(acl, t, a, rec, i, p)
    BY Zenon, <1>1, AclTypes, InviteJoinState
<1>3. Sane(t, rec)
    BY Zenon, <1>1, AclTypes, SaneInviteJoin
<1>4. x \in Perms
    BY Zenon, <1>1, AclTypes DEF State, Invite
<1> HIDE DEF t
<1>5. /\ t.n = acl.n /\ t.keys = acl.keys /\ t.invites = acl.invites
      /\ t.perms = [acl.perms EXCEPT ![a] = x]
      /\ t.changes = [acl.changes EXCEPT ![a] = Append(@, [rec |-> rec, perm |-> x])]
    BY Zenon, <1>2 DEF InviteJoinEffect
<1>6. t.status[a] = "active" /\ \A b \in Accounts \ {a} : t.status[b] = acl.status[b]
    BY Zenon, <1>2, AclTypes DEF InviteJoinEffect, State
<1>7. given = {a} /\ raised \ {a} \subseteq raised'
    BY Zenon, <1>1
<1> HIDE DEF x, given
<1> QED BY <1>1, <1>3, <1>4, <1>5, <1>6, <1>7, PermissionRecord, Zenon

\* BuildRequestAccept: the account accepted gets the keys, and is an admin by the owner only.
LEMMA RequestAcceptGood ==
    ASSUME AclInv, NEW a \in Accounts, NEW q \in acl.requests, NEW p \in GivenPerms,
           BuildRequestAccept(a, q, p)
    PROVE  Good
<1> DEFINE t == applyRequestAccept(acl, rec, q, p)
           w == q.who
           given == {w}
<1>1. /\ Admit(a, "requestAccept", t, given, {}) /\ raised' = raised \ {w}
      /\ p \in Perms /\ p # "owner" /\ (p = "admin" => acl.perms[a] = "owner")
    BY Zenon, AclTypes DEF BuildRequestAccept, ValidateRequestAccept
<1>2. RequestAcceptEffect(acl, t, rec, q, p)
    BY Zenon, <1>1, AclTypes, RequestAcceptState
<1>3. Sane(t, rec)
    BY Zenon, <1>1, AclTypes, SaneRequestAccept
<1>4. w \in Accounts
    BY Zenon, AclTypes DEF State, Request
<1> HIDE DEF t
<1>5. /\ t.n = acl.n /\ t.keys = acl.keys /\ t.invites = acl.invites
      /\ t.perms = [acl.perms EXCEPT ![w] = p]
      /\ t.changes = [acl.changes EXCEPT ![w] = Append(@, [rec |-> rec, perm |-> p])]
    BY Zenon, <1>2 DEF RequestAcceptEffect
<1>6. t.status[w] = "active" /\ \A b \in Accounts \ {w} : t.status[b] = acl.status[b]
    BY Zenon, <1>2, <1>4, AclTypes DEF RequestAcceptEffect, State
<1>7. given = {w} /\ w \in given /\ raised \ {w} \subseteq raised'
    BY Zenon, <1>1
<1> HIDE DEF w, given
<1> QED BY <1>1, <1>3, <1>4, <1>5, <1>6, <1>7, PermissionRecord, Zenon

\* BuildPermissionChanges: an account raised from "none" is remembered in raised, it gets no key.
LEMMA PermissionChangesGood ==
    ASSUME AclInv, NEW a \in Accounts, NEW b \in Accounts, NEW p \in GivenPerms,
           BuildPermissionChanges(a, b, p)
    PROVE  Good
<1> DEFINE t == updatePermissions(acl, b, p, rec)
           given == {}
<1>1. /\ Admit(a, "permissionChange", t, given, {})
      /\ raised' = IF acl.perms[b] = "none" THEN raised \cup {b} ELSE raised
      /\ p \in Perms /\ p # "owner" /\ (p = "admin" => acl.perms[a] = "owner")
    BY Zenon, AclTypes DEF BuildPermissionChanges, ValidatePermissionChange
<1>2. UpdatePermissionsEffect(acl, t, b, p, rec)
    BY Zenon, <1>1, AclTypes, UpdatePermissionsState
<1>3. Sane(t, rec)
    BY Zenon, <1>1, AclTypes, SaneUpdatePermissions
<1> HIDE DEF t
<1>4. /\ t.n = acl.n /\ t.keys = acl.keys /\ t.invites = acl.invites
      /\ t.perms = [acl.perms EXCEPT ![b] = p]
      /\ t.changes = [acl.changes EXCEPT ![b] = Append(@, [rec |-> rec, perm |-> p])]
      /\ \A c \in Accounts \ {b} : t.status[c] = acl.status[c]
    BY Zenon, <1>2 DEF UpdatePermissionsEffect
<1>5. /\ given = {} /\ raised \ {b} \subseteq raised'
      /\ b \in given \/ b \in raised' \/ p = "none" \/ (acl.perms[b] # "none" /\ b \notin raised)
    BY Zenon, <1>1
<1>6. Admit(a, "permissionChange", t, given, {}) /\ p \in Perms /\ (p = "admin" => acl.perms[a] = "owner")
    BY Zenon, <1>1
<1>7. /\ given = {} \/ (given = {b} /\ t.status[b] = "active")
      /\ p = "admin" /\ acl.perms[b] # "admin"
         => acl.perms[a] = "owner" \/ "permissionChange" = "inviteJoin"
    BY Zenon, <1>6
<1> HIDE DEF given
<1> QED BY <1>3, <1>4, <1>5, <1>6, <1>7, PermissionRecord, Zenon

\* BuildOwnershipChange: both accounts keep their keys, and only the owner is the author.
LEMMA OwnershipChangeGood ==
    ASSUME AclInv, NEW a \in Accounts, NEW b \in Accounts, NEW p \in GivenPerms,
           BuildOwnershipChange(a, b, p)
    PROVE  Good
<1> DEFINE t == applyOwnershipChange(acl, a, b, p, rec)
<1>1. /\ Admit(a, "ownershipChange", t, {}, {}) /\ raised' = raised
      /\ p \in Perms /\ p # "owner" /\ p # "none"
      /\ acl.perms[a] = "owner" /\ acl.perms[b] \notin {"none", "owner"} /\ a # b
    BY Zenon, AclTypes DEF BuildOwnershipChange, ValidateOwnershipChange
<1>2. OwnershipChangeEffect(acl, t, a, b, p, rec)
    BY Zenon, <1>1, AclTypes, OwnershipChangeState
<1>3. Sane(t, rec)
    BY Zenon, <1>1, AclTypes, SaneOwnershipChange
<1> HIDE DEF t
<1>4. \A c \in Accounts : acl.changes[c] \in Seq(Change) /\ Continues(acl.changes[c], acl.changes[c], rec)
    BY Zenon, AclTypes, ContinuesSame DEF State
<1>5. \A c \in {a, b} : Continues(acl.changes[c], t.changes[c], rec)
    <2>1. rec \in Nat
        BY Zenon, AclTypes
    <2> DEFINE e == [rec |-> rec, perm |-> p]
               f == [rec |-> rec, perm |-> "owner"]
    <2>2. t.changes[a] = Append(acl.changes[a], e) /\ t.changes[b] = Append(acl.changes[b], f)
        BY Zenon, <1>2 DEF OwnershipChangeEffect
    <2>3. e \in Change /\ e.rec = rec /\ f \in Change /\ f.rec = rec
        BY Zenon, <1>1, <2>1 DEF Change, Perms
    <2> HIDE DEF rec, e, f
    <2>4. EndsWith(acl.changes[a], t.changes[a], rec)
        BY Zenon, <1>4, <2>2, <2>3, ContinuesOnce
    <2>5. EndsWith(acl.changes[b], t.changes[b], rec)
        BY Zenon, <1>4, <2>2, <2>3, ContinuesOnce
    <2> QED BY Zenon, <2>4, <2>5 DEF EndsWith
<1>6. HistoryStep("ownershipChange", t)
    BY Zenon, <1>2, <1>4, <1>5 DEF HistoryStep, OwnershipChangeEffect
<1>7. AdminStep(a, "ownershipChange", t)
    BY Zenon, <1>1 DEF AdminStep
<1>8. KeysStep(t, {}, {})
    BY Zenon, <1>1, <1>2 DEF KeysStep, OwnershipChangeEffect
<1>9. Allowed(a, "ownershipChange", t, {}, {})
    BY Zenon, <1>2, <1>3, <1>6, <1>7, <1>8 DEF Allowed, OwnershipChangeEffect
<1> QED BY Zenon, <1>1, <1>9, AdmitStep

\* BuildAccountsAdd: the accounts added get the keys. Their histories start over, which the
\* property on histories excepts.
LEMMA AccountsAddGood ==
    ASSUME AclInv, NEW a \in Accounts, NEW A \in SUBSET Accounts, NEW p \in GivenPerms,
           BuildAccountsAdd(a, A, p)
    PROVE  Good
<1> DEFINE t == applyAccountsAdd(acl, A, p, rec)
<1>1. /\ Admit(a, "accountsAdd", t, A, {}) /\ raised' = raised \ A
      /\ p \in Perms /\ p # "owner" /\ (p = "admin" => acl.perms[a] = "owner")
    BY Zenon, AclTypes DEF BuildAccountsAdd, ValidateAccountsAdd
<1>2. AccountsAddEffect(acl, t, A, p, rec)
    BY Zenon, <1>1, AclTypes, AccountsAddState
<1>3. Sane(t, rec)
    BY Zenon, <1>1, AclTypes, SaneAccountsAdd
<1> HIDE DEF t
<1>4. HistoryStep("accountsAdd", t)
    BY Zenon DEF HistoryStep
<1>5. AdminStep(a, "accountsAdd", t)
    BY Zenon, <1>1, <1>2 DEF AdminStep, AccountsAddEffect
<1>6. KeysStep(t, A, {})
    BY Zenon, <1>1, <1>2 DEF KeysStep, AccountsAddEffect
<1>7. Allowed(a, "accountsAdd", t, A, {})
    BY Zenon, <1>2, <1>3, <1>4, <1>5, <1>6 DEF Allowed, AccountsAddEffect
<1> QED BY Zenon, <1>1, <1>7, AdmitStep

\* BuildReadKeyChange: every member gets the new key.
LEMMA ReadKeyChangeGood ==
    ASSUME AclInv, NEW a \in Accounts, BuildReadKeyChange(a)
    PROVE  Good
<1> DEFINE t == applyReadKeyChange(acl, rec)
           M == Members(acl)
<1>1. Admit(a, "readKeyChange", t, {}, M) /\ raised' = raised \ M
    BY Zenon DEF BuildReadKeyChange
<1>2. ReadKeyChangeEffect(acl, t, rec)
    BY Zenon, AclTypes, ReadKeyChangeState
<1>3. Sane(t, rec)
    BY Zenon, AclTypes, SaneReadKeyChange
<1>4. \A b \in Accounts : b \in M <=> acl.perms[b] # "none"
    BY Zenon DEF Members
<1> HIDE DEF t, M
<1>5. HistoryStep("readKeyChange", t)
    BY Zenon, <1>2, AclTypes, ContinuesSame DEF HistoryStep, ReadKeyChangeEffect, State
<1>6. AdminStep(a, "readKeyChange", t)
    BY Zenon, <1>2 DEF AdminStep, ReadKeyChangeEffect
<1>7. KeysStep(t, {}, M)
    BY Zenon, <1>2, <1>4 DEF KeysStep, ReadKeyChangeEffect
<1>8. Allowed(a, "readKeyChange", t, {}, M)
    BY Zenon, <1>2, <1>3, <1>5, <1>6, <1>7 DEF Allowed, ReadKeyChangeEffect
<1> QED BY Zenon, <1>1, <1>8, AdmitStep

\* BuildAccountRemove: everyone who stays gets the new key, and those removed do not.
LEMMA AccountRemoveGood ==
    ASSUME AclInv, NEW a \in Accounts, NEW A \in SUBSET Accounts, BuildAccountRemove(a, A)
    PROVE  Good
<1> DEFINE t == applyAccountRemove(acl, A, rec)
           M == Members(acl) \ A
<1>1. Admit(a, "accountRemove", t, {}, M) /\ raised' = raised \ Members(acl)
    BY Zenon DEF BuildAccountRemove
<1>2. AccountRemoveEffect(acl, t, A, rec)
    BY Zenon, AclTypes, AccountRemoveState
<1>3. Sane(t, rec)
    BY Zenon, AclTypes, SaneAccountRemove
<1>4. \A b \in Accounts : b \in M <=> acl.perms[b] # "none" /\ b \notin A
    BY Zenon DEF Members
<1> HIDE DEF t, M
<1>5. \A c \in Accounts : acl.changes[c] \in Seq(Change) /\ Continues(acl.changes[c], acl.changes[c], rec)
    BY Zenon, AclTypes, ContinuesSame DEF State
<1>6. ASSUME NEW c \in A
      PROVE  /\ Continues(acl.changes[c], t.changes[c], rec)
             /\ Len(t.changes[c]) > 0 /\ t.changes[c][Len(t.changes[c])].rec = rec
    <2>1. rec \in Nat
        BY Zenon, AclTypes
    <2> DEFINE s == acl.changes[c]
               e == [rec |-> rec, perm |-> "none"]
    <2>2. t.changes[c] = Append(s, e)
        BY Zenon, <1>2 DEF AccountRemoveEffect
    <2>3. s \in Seq(Change) /\ e \in Change /\ e.rec = rec
        BY Zenon, <1>5, <2>1 DEF Change, Perms
    <2> HIDE DEF rec, s, e
    <2>4. EndsWith(s, t.changes[c], rec)
        BY Zenon, <2>2, <2>3, ContinuesOnce
    <2> QED BY Zenon, <2>4 DEF s, EndsWith
<1>7. HistoryStep("accountRemove", t)
    BY Zenon, <1>2, <1>5, <1>6 DEF HistoryStep, AccountRemoveEffect
<1>8. AdminStep(a, "accountRemove", t)
    BY <1>2 DEF AdminStep, AccountRemoveEffect
<1>9. KeysStep(t, {}, M)
    BY Zenon, <1>2, <1>4, <1>6 DEF KeysStep, AccountRemoveEffect
<1>10. Allowed(a, "accountRemove", t, {}, M)
    BY Zenon, <1>2, <1>3, <1>7, <1>8, <1>9 DEF Allowed, AccountRemoveEffect
<1> QED BY Zenon, <1>1, <1>10, AdmitStep

-----------------------------------------------------------------------------
(* A batch *)

\* What the requests approved do: nothing, or one account w gets permissions p, and
\* only an owner makes it an admin.
ApprovedStage(a, s, t, given) ==
    \/ t = s /\ given = {}
    \/ \E w \in Accounts, p \in Perms :
          /\ given = {w} /\ AcceptedStage(s, t, w, p)
          /\ p = "admin" => s.perms[a] = "owner"
          /\ p # "owner"

\* What declining, revoking, rotating and inviting does.
FinalStage(a, s, t, rotate) ==
    /\ LaterStage(s, t, IF rotate THEN {rec} ELSE {})
    /\ \A j \in t.invites :
          \/ \E i \in s.invites : j.id = i.id /\ j.perms = i.perms
          \/ j.perms = "admin" => s.perms[a] = "owner"

\* Removals, then approvals, then the rest lead to an allowed state: an account removed and
\* approved by the same record is a member again and is given the keys; the members left after
\* the removals, or all of them with a read key change, get the new key.
LEMMA StagesAllowed ==
    ASSUME AclInv, NEW a \in Accounts, NEW R \in SUBSET Accounts, NEW s, NEW t, NEW u,
           NEW rotate \in BOOLEAN, NEW given, NEW rotated,
           RemovedStage(acl, s, R), ApprovedStage(a, s, t, given), FinalStage(a, t, u, rotate),
           raised' = raised \ (given \cup rotated),
           R # {} => rotated = Members(s),
           R = {} /\ rotate => rotated = Members(u),
           R = {} /\ ~rotate => rotated = {}
    PROVE  Allowed(a, "batch", u, given, rotated)
<1>1. Sane(u, rec) /\ u.n = acl.n
    BY Zenon DEF RemovedStage, ApprovedStage, AcceptedStage, FinalStage, LaterStage
<1>2. \A c \in Accounts : Continues(acl.changes[c], s.changes[c], rec)
    BY AclTypes, ContinuesSame, SMTT(20) DEF RemovedStage, EndsWith, State
<1>3. \A c \in Accounts : acl.changes[c] \in Seq(Change) /\ s.changes[c] \in Seq(Change)
    BY Zenon, AclTypes DEF RemovedStage, Sane, State
<1>4. ASSUME NEW w \in Accounts, NEW p \in Perms, AcceptedStage(s, t, w, p)
      PROVE  Continues(acl.changes[w], t.changes[w], rec)
    <2> DEFINE e == [rec |-> rec, perm |-> p]
    <2>1. t.changes[w] = Append(s.changes[w], e) /\ e \in Change /\ e.rec = rec
        BY Zenon, <1>4, AclTypes DEF AcceptedStage, Change
    <2>2. /\ Continues(acl.changes[w], s.changes[w], rec)
          /\ acl.changes[w] \in Seq(Change) /\ s.changes[w] \in Seq(Change)
        BY Zenon, <1>2, <1>3
    <2> HIDE DEF e, rec
    <2> QED BY Zenon, <2>1, <2>2, ContinuesMore
<1>5. \A c \in Accounts : Continues(acl.changes[c], u.changes[c], rec)
    <2>1. u.changes = t.changes
        BY Zenon DEF FinalStage, LaterStage
    <2>2. CASE t = s
        BY Zenon, <1>2, <2>1, <2>2
    <2>3. ASSUME NEW w \in Accounts, NEW p \in Perms, AcceptedStage(s, t, w, p)
          PROVE  \A c \in Accounts : Continues(acl.changes[c], t.changes[c], rec)
        BY Zenon, <1>2, <1>4, <2>3 DEF AcceptedStage
    <2> QED BY Zenon, <2>1, <2>2, <2>3 DEF ApprovedStage
<1>6. HistoryStep("batch", u)
    BY Zenon, <1>5 DEF HistoryStep
<1>7. AdminStep(a, "batch", u)
    <2>1. s.perms[a] = "owner" => acl.perms[a] = "owner"
        BY Zenon DEF RemovedStage
    <2>2. t.perms[a] = "owner" => s.perms[a] = "owner"
        BY Zenon DEF ApprovedStage, AcceptedStage
    <2>3. ASSUME NEW c \in Accounts, acl.perms[c] # "admin", u.perms[c] = "admin"
          PROVE  acl.perms[a] = "owner"
        <3>1. t.perms[c] = "admin"
            BY Zenon, <2>3 DEF FinalStage, LaterStage
        <3>2. s.perms[c] # "admin"
            BY Zenon, <2>3 DEF RemovedStage
        <3> QED BY <2>1, <3>1, <3>2, Zenon DEF ApprovedStage, AcceptedStage
    <2>4. ASSUME NEW j \in u.invites, j.perms = "admin",
                 \A i \in acl.invites : i.id = j.id => i.perms # "admin"
          PROVE  acl.perms[a] = "owner"
        <3>1. t.invites = s.invites
            BY Zenon DEF ApprovedStage, AcceptedStage
        <3>2. CASE \E i \in t.invites : j.id = i.id /\ j.perms = i.perms
            BY <2>4, <3>1, <3>2 DEF RemovedStage
        <3>3. CASE t.perms[a] = "owner"
            BY Zenon, <2>1, <2>2, <3>3
        <3> QED BY Zenon, <2>4, <3>2, <3>3 DEF FinalStage
    <2> QED BY Zenon, <2>3, <2>4 DEF AdminStep
<1>8. KeysStep(u, given, rotated)
    <2>1. u.keys = acl.keys \cup (IF R = {} /\ ~rotate THEN {} ELSE {rec})
        BY Zenon DEF RemovedStage, ApprovedStage, AcceptedStage, FinalStage, LaterStage
    <2>2. \A c \in Accounts \ given : /\ t.perms[c] = s.perms[c] /\ t.status[c] = s.status[c]
                                      /\ t.changes[c] = s.changes[c]
        BY Zenon DEF ApprovedStage, AcceptedStage
    <2>3. \A c \in Accounts : c \in given => t.status[c] # "removed"
        BY Zenon DEF ApprovedStage, AcceptedStage
    <2>4. /\ u.perms = t.perms /\ u.changes = t.changes
          /\ \A c \in Accounts : u.status[c] = "removed" => t.status[c] = "removed"
        BY Zenon DEF FinalStage, LaterStage
    <2>5. \A c \in Accounts : c \in Members(s) <=> s.perms[c] # "none"
        BY Zenon DEF Members
    <2>6. \A c \in Accounts : c \in Members(u) <=> u.perms[c] # "none"
        BY Zenon DEF Members
    <2>7. ASSUME NEW c \in Accounts, u.status[c] = "removed", u.perms[c] = "none"
          PROVE  /\ c \notin given \cup rotated
                 /\ \/ /\ acl.status[c] = "removed" /\ acl.perms[c] = "none"
                       /\ u.changes[c] = acl.changes[c]
                    \/ Len(u.changes[c]) > 0 /\ u.changes[c][Len(u.changes[c])].rec = rec
        <3>1. c \notin given
            BY Zenon, <2>3, <2>4, <2>7
        <3>2. s.perms[c] = "none" /\ s.status[c] = "removed" /\ u.changes[c] = s.changes[c]
            BY Zenon, <2>2, <2>4, <2>7, <3>1
        <3>3. c \notin rotated
            BY Zenon, <2>5, <2>6, <2>7, <3>2
        <3> QED BY Zenon, <3>1, <3>2, <3>3 DEF RemovedStage, EndsWith
    <2>8. ASSUME NEW c \in Accounts, u.perms[c] # "none"
          PROVE  \/ c \in given
                 \/ c \in rotated /\ rec \in u.keys
                 \/ c \in raised'
                 \/ u.keys = acl.keys /\ acl.perms[c] # "none" /\ c \notin raised
        <3>1. SUFFICES ASSUME c \notin given
                       PROVE  \/ c \in rotated /\ rec \in u.keys
                              \/ c \in raised'
                              \/ u.keys = acl.keys /\ acl.perms[c] # "none" /\ c \notin raised
            OBVIOUS
        <3>2. s.perms[c] # "none"
            BY Zenon, <2>2, <2>4, <2>8, <3>1
        <3>3. CASE R # {} \/ rotate
            BY <2>1, <2>5, <2>6, <2>8, <3>2, <3>3, SMTT(20)
        <3>4. CASE R = {} /\ ~rotate
            BY Zenon, <2>1, <3>1, <3>2, <3>4 DEF RemovedStage
        <3> QED BY Zenon, <3>3, <3>4
    <2> QED BY Zenon, <2>1, <2>7, <2>8 DEF KeysStep
<1> QED BY Zenon, <1>1, <1>6, <1>7, <1>8 DEF Allowed

\* The approvals of a batch are none or one.
LEMMA ApprovedStageHolds ==
    ASSUME NEW a, NEW s, Sane(s, rec), rec \in Nat, NEW P \in AtMostOne(Approvals),
           \A x \in P : ValidateRequestAccept(s, a, x.request, x.perms)
    PROVE  ApprovedStage(a, s, IF P = {} THEN s
                               ELSE LET x == CHOOSE x \in P : TRUE
                                    IN applyRequestAccept(s, rec, x.request, x.perms),
                         {x.request.who : x \in P})
<1>1. CASE P = {}
    BY Zenon, <1>1 DEF ApprovedStage
<1>2. CASE P # {}
    <2>1. PICK x \in Approvals : P = {x}
        BY Zenon, <1>2 DEF AtMostOne
    <2>2. (CHOOSE y \in P : TRUE) = x
        BY Zenon, <2>1
    <2>3. x.perms \in GivenPerms /\ GivenPerms \subseteq Perms
        BY <2>1, AclAssumption DEF Approvals, Perms
    <2> DEFINE q == x.request
               p == x.perms
               t == applyRequestAccept(s, rec, q, p)
    <2>4. p \in Perms /\ p # "owner" /\ q \in s.requests /\ (p = "admin" => s.perms[a] = "owner")
        BY Zenon, <2>1, <2>3 DEF ValidateRequestAccept
    <2>5. AcceptedStage(s, t, q.who, p)
        BY Zenon, <2>4, AcceptedStageHolds
    <2>6. q.who \in Accounts
        BY Zenon, <2>4 DEF Sane, State, Request
    <2>7. {y.request.who : y \in P} = {q.who}
        BY Zenon, <2>1
    <2> HIDE DEF q, p, t
    <2>8. ApprovedStage(a, s, t, {q.who})
        BY Zenon, <2>4, <2>5, <2>6 DEF ApprovedStage
    <2> QED BY <1>2, <2>2, <2>7, <2>8, Zenon DEF q, p, t
<1> QED BY Zenon, <1>1, <1>2

\* Declining, revoking, rotating and inviting.
LEMMA FinalStageHolds ==
    ASSUME NEW a \in Accounts, NEW s, Sane(s, rec), rec \in Nat, NEW D, NEW I, NEW rotate \in BOOLEAN,
           NEW N \in AtMostOne(GivenPerms), NEW k \in Nat, NEW s3, NEW s4, NEW s5, NEW s6,
           s3 = applyRequestDeclines(s, D), D \subseteq s.requests,
           s4 = applyInviteRevokes(s3, I),
           s5 = IF rotate THEN applyReadKeyChange(s4, rec) ELSE s4,
           s6 = IF N = {} THEN s5
                ELSE LET p == CHOOSE p \in N : TRUE IN applyInvite(s5, rec, p # "none", p, k),
           \A p \in N : ValidateInvite(s5, a, p # "none", p)
    PROVE  FinalStage(a, s, s6, rotate) /\ s6.perms = s4.perms
<1>1. LaterStage(s, s3, {}) /\ s3.invites = s.invites
    BY Zenon, DeclinedStageHolds
<1>2. LaterStage(s3, s4, {}) /\ s4.invites \subseteq s3.invites
    <2>1. Sane(s3, rec)
        BY Zenon, <1>1 DEF LaterStage
    <2> QED BY Zenon, <2>1, RevokedStageHolds
<1>3. /\ LaterStage(s4, s5, IF rotate THEN {rec} ELSE {})
      /\ \A j \in s5.invites : \E i \in s4.invites : j.id = i.id /\ j.perms = i.perms
    <2>1. Sane(s4, rec)
        BY Zenon, <1>2 DEF LaterStage
    <2>2. CASE rotate
        BY Zenon, <2>1, <2>2, RotatedStageHolds
    <2>3. CASE ~rotate
        BY Zenon, <2>1, <2>3 DEF LaterStage
    <2> QED BY Zenon, <2>2, <2>3
<1>4. /\ LaterStage(s5, s6, {})
      /\ \A i \in s6.invites : i \in s5.invites \/ (i.perms = "admin" => s5.perms[a] = "owner")
    <2>1. Sane(s5, rec)
        BY Zenon, <1>3 DEF LaterStage
    <2>2. CASE N = {}
        BY Zenon, <2>1, <2>2 DEF LaterStage
    <2>3. CASE N # {}
        <3>1. PICK p \in GivenPerms : N = {p}
            BY Zenon, <2>3 DEF AtMostOne
        <3>2. (CHOOSE y \in N : TRUE) = p
            BY Zenon, <3>1
        <3>3. s6 = applyInvite(s5, rec, p # "none", p, k)
            BY <2>3, <3>2, Zenon
        <3>4. p \in Perms /\ p # "owner" /\ (p = "admin" => s5.perms[a] = "owner")
            BY Zenon, <3>1, AclAssumption DEF ValidateInvite, Perms
        <3> DEFINE anyone == p # "none"
        <3>5. anyone \in BOOLEAN
            OBVIOUS
        <3>7. s6 = applyInvite(s5, rec, anyone, p, k)
            BY Zenon, <3>3
        <3> HIDE DEF anyone
        <3>8. p \in Perms /\ p # "owner"
            BY Zenon, <3>4
        <3>6. InvitedStage(s5, s6, p)
            BY Zenon, <2>1, <3>5, <3>7, <3>8, InvitedStageHolds
        <3> QED BY Zenon, <3>4, <3>6 DEF InvitedStage
    <2> QED BY Zenon, <2>2, <2>3
<1>5. LaterStage(s, s6, IF rotate THEN {rec} ELSE {})
    <2>1. LaterStage(s, s4, {})
        BY Zenon, <1>1, <1>2 DEF LaterStage
    <2>2. LaterStage(s, s5, IF rotate THEN {rec} ELSE {})
        BY Zenon, <2>1, <1>3 DEF LaterStage
    <2> QED BY <2>2, <1>4, Zenon DEF LaterStage
<1>6. s5.perms = s.perms /\ s6.perms = s4.perms
    BY Zenon, <1>1, <1>2, <1>3, <1>4 DEF LaterStage
<1>7. ASSUME NEW j \in s6.invites
      PROVE  \/ \E i \in s.invites : j.id = i.id /\ j.perms = i.perms
             \/ j.perms = "admin" => s.perms[a] = "owner"
    BY <1>1, <1>2, <1>3, <1>4, <1>6
<1> QED BY Zenon, <1>5, <1>6, <1>7 DEF FinalStage

\* BuildBatchRequest, for any removals, declines and revocations, with at most one approval
\* and one new invite.
LEMMA BatchGood ==
    ASSUME AclInv, NEW a \in Accounts, NEW R \in SUBSET Accounts,
           NEW P \in AtMostOne(Approvals), NEW D, NEW I, NEW rotate \in BOOLEAN,
           NEW N \in AtMostOne(GivenPerms),
           BuildBatchRequest(a, R, P, D, I, rotate, N)
    PROVE  Good
<1> DEFINE s1 == IF R = {} THEN acl ELSE applyAccountRemove(acl, R, rec)
           s2 == IF P = {} THEN s1
                 ELSE LET x == CHOOSE x \in P : TRUE IN applyRequestAccept(s1, rec, x.request, x.perms)
           s3 == applyRequestDeclines(s2, D)
           s4 == applyInviteRevokes(s3, I)
           s5 == IF rotate THEN applyReadKeyChange(s4, rec) ELSE s4
           s6 == IF N = {} THEN s5
                 ELSE LET p == CHOOSE p \in N : TRUE
                      IN applyInvite(s5, rec, p # "none", p, CurrentReadKeyId(acl))
           given == {x.request.who : x \in P}
           rotated == IF R # {} THEN Members(s1) ELSE IF rotate THEN Members(s4) ELSE {}
           b == Batch(acl, a, R, P, D, I, rotate, N)
<1>1. b.ok /\ Admit(a, "batch", b.st, b.given, b.rotated) /\ raised' = raised \ (b.given \cup b.rotated)
    BY Zenon DEF BuildBatchRequest
<1>2. /\ b.st = s6 /\ b.given = given /\ b.rotated = rotated
      /\ b.ok <=> /\ R # {} \/ P # {} \/ D # {} \/ I # {} \/ N # {} \/ rotate
                  /\ rotate => R = {} /\ P = {} /\ N = {}
                  /\ R # {} => ValidateAccountRemove(acl, a, R)
                  /\ \A x \in P : x.request \in acl.requests /\ ValidateRequestAccept(s1, a, x.request, x.perms)
                  /\ \A d \in D : d \in acl.requests /\ ValidateRequestDecline(s2, a, d)
                  /\ \A id \in I : ValidateInviteRevoke(s3, a, id)
                  /\ rotate => CanManageAccounts(s4.perms[a])
                  /\ \A p \in N : ValidateInvite(s5, a, p # "none", p)
    BY Zenon DEF Batch, rec
<1> HIDE DEF b
<1>3. /\ \A x \in P : ValidateRequestAccept(s1, a, x.request, x.perms)
      /\ D \subseteq s2.requests
      /\ \A p \in N : ValidateInvite(s5, a, p # "none", p)
    BY <1>1, <1>2, Zenon DEF ValidateRequestDecline
<1>4. Admit(a, "batch", s6, given, rotated) /\ raised' = raised \ (given \cup rotated)
    BY <1>1, <1>2, Zenon
<1>5. RemovedStage(acl, s1, R)
    BY AclTypes, RemovedStageHolds, Zenon
<1> HIDE DEF s1
<1>6. ApprovedStage(a, s1, s2, given)
    <2>1. Sane(s1, rec) /\ rec \in Nat
        BY <1>5, AclTypes, SMTT(20) DEF RemovedStage
    <2> QED BY <1>3, <2>1, ApprovedStageHolds, Zenon
<1> HIDE DEF s2, given
<1>7. FinalStage(a, s2, s6, rotate) /\ s6.perms = s4.perms
    <2> DEFINE k == CurrentReadKeyId(acl)
    <2>1. Sane(s2, rec) /\ rec \in Nat
        BY <1>5, <1>6, AclTypes, Zenon DEF RemovedStage, ApprovedStage, AcceptedStage
    <2>2. k \in Nat
        BY Zenon, AclTypes
    <2>3. /\ s3 = applyRequestDeclines(s2, D)
          /\ s4 = applyInviteRevokes(s3, I)
          /\ s5 = IF rotate THEN applyReadKeyChange(s4, rec) ELSE s4
          /\ s6 = IF N = {} THEN s5
                  ELSE LET p == CHOOSE p \in N : TRUE IN applyInvite(s5, rec, p # "none", p, k)
        OBVIOUS
    <2>4. D \subseteq s2.requests /\ \A p \in N : ValidateInvite(s5, a, p # "none", p)
        BY Zenon, <1>3
    <2> HIDE DEF s3, s4, s5, s6, k, rec
    <2> QED BY <2>1, <2>2, <2>3, <2>4, FinalStageHolds, SMTT(30)
<1>8. Members(s6) = Members(s4)
    BY <1>7, Zenon DEF Members
<1>9. /\ R # {} => rotated = Members(s1)
      /\ R = {} /\ rotate => rotated = Members(s6)
      /\ R = {} /\ ~rotate => rotated = {}
    BY Zenon, <1>8
<1> HIDE DEF s6, rotated
<1>10. Allowed(a, "batch", s6, given, rotated)
    BY Zenon, <1>4, <1>5, <1>6, <1>7, <1>9, StagesAllowed
<1> QED BY Zenon, <1>4, <1>10, AdmitStep

-----------------------------------------------------------------------------
(* All steps *)

\* The operations of the client that batch several contents.
LEMMA BatchesGood ==
    ASSUME AclInv, NEW a \in Accounts
    PROVE  /\ StopSharing(a) => Good
           /\ \A rotate \in BOOLEAN : RevokeAllInvites(a, rotate) => Good
           /\ \A i \in acl.invites : RevokeInviteAndRotate(a, i) => Good
           /\ \A p \in GivenPerms : ReplaceInvite(a, p) => Good
           /\ \A R \in SUBSET Accounts : UpdateMembers(a, R) => Good
<1>1. /\ {} \in AtMostOne(Approvals) /\ {} \in AtMostOne(GivenPerms)
      /\ \A p \in GivenPerms : {p} \in AtMostOne(GivenPerms)
      /\ {} \in SUBSET Accounts
    BY Zenon DEF AtMostOne
<1>2. ASSUME StopSharing(a)
      PROVE  Good
    <2> DEFINE R == Members(acl) \ Owners(acl)
               D == JoinRecords(acl)
               I == InviteIds(acl)
    <2>1. BuildBatchRequest(a, R, {}, D, I, FALSE, {})
        BY <1>2, Zenon DEF StopSharing
    <2>2. R \in SUBSET Accounts
        BY Zenon DEF Members
    <2> HIDE DEF R, D, I
    <2> QED BY <1>1, <2>1, <2>2, BatchGood, Zenon
<1>3. ASSUME NEW rotate \in BOOLEAN, RevokeAllInvites(a, rotate)
      PROVE  Good
    <2> DEFINE I == InviteIds(acl)
    <2>1. BuildBatchRequest(a, {}, {}, {}, I, rotate, {})
        BY Zenon, <1>3 DEF RevokeAllInvites
    <2> HIDE DEF I
    <2> QED BY Zenon, <1>1, <2>1, BatchGood
<1>4. ASSUME NEW i \in acl.invites, RevokeInviteAndRotate(a, i)
      PROVE  Good
    <2> DEFINE I == {i.id}
    <2>1. BuildBatchRequest(a, {}, {}, {}, I, TRUE, {})
        BY <1>4, Zenon DEF RevokeInviteAndRotate
    <2> HIDE DEF I
    <2> QED BY <1>1, <2>1, BatchGood, Zenon
<1>5. ASSUME NEW p \in GivenPerms, ReplaceInvite(a, p)
      PROVE  Good
    <2> DEFINE I == InviteIds(acl)
               N == {p}
    <2>1. BuildBatchRequest(a, {}, {}, {}, I, FALSE, N) /\ N \in AtMostOne(GivenPerms)
        BY <1>1, <1>5, Zenon DEF ReplaceInvite
    <2> HIDE DEF I, N
    <2> QED BY <1>1, <2>1, BatchGood, Zenon
<1>6. ASSUME NEW R \in SUBSET Accounts, UpdateMembers(a, R)
      PROVE  Good
    <2>1. PICK P \in AtMostOne(Approvals), N \in AtMostOne(GivenPerms) :
              BuildBatchRequest(a, R, P, {}, {}, FALSE, N)
        BY <1>6, Zenon DEF UpdateMembers
    <2> QED BY <2>1, BatchGood, Zenon
<1> QED BY Zenon, <1>2, <1>3, <1>4, <1>5, <1>6

\* The records about invites.
LEMMA InviteStepGood ==
    ASSUME AclInv, NEW a \in Accounts, InviteStep(a)
    PROVE  Good
<1>1. CASE BuildInvite(a, FALSE, "none")
    BY <1>1, InviteGood, Zenon
<1>2. ASSUME NEW p \in GivenPerms, BuildInvite(a, TRUE, p)
      PROVE  Good
    BY <1>2, InviteGood, Zenon
<1> QED BY <1>1, <1>2, InviteRevokeGood, InviteChangeGood, BatchesGood, Zenon DEF InviteStep

\* The records about requests.
LEMMA RequestStepGood ==
    ASSUME AclInv, NEW a \in Accounts, RequestStep(a)
    PROVE  Good
BY RequestJoinGood, InviteJoinGood, RequestDeclineGood, RequestCancelGood, RequestAcceptGood,
   RequestRemoveGood, SMTT(20) DEF RequestStep

\* The records about members.
LEMMA MemberStepGood ==
    ASSUME AclInv, NEW a \in Accounts, MemberStep(a)
    PROVE  Good
BY Zenon, PermissionChangesGood, OwnershipChangeGood, AccountRemoveGood, AccountsAddGood,
   ReadKeyChangeGood, BatchesGood DEF MemberStep

\* Every step keeps the invariant, makes no admin without the owner and keeps the histories.
LEMMA AclStep ==
    ASSUME AclInv, [Next]_vars
    PROVE  AclInv' /\ [AdminAct]_vars /\ [HistoryAct]_vars
<1>1. CASE Next
    BY <1>1, InviteStepGood, RequestStepGood, MemberStepGood, SMTT(20) DEF Next, Good
<1>2. CASE UNCHANGED vars
    BY Zenon, <1>2 DEF vars, AclInv, Sane, OwnersOK, RequestsOK, KeysOK, HoldersOK, Owners, Members,
                CurrentReadKeyId
<1> QED BY Zenon, <1>1, <1>2

\* applyRoot: the creator is the owner and holds the first read key.
LEMMA AclStart ==
    ASSUME Init
    PROVE  AclInv
<1>1. /\ acl.n = 1 /\ acl.invites = {} /\ acl.requests = {} /\ acl.keys = {1}
      /\ acl.perms = [a \in Accounts |-> IF a = Creator THEN "owner" ELSE "none"]
      /\ acl.status = [a \in Accounts |-> IF a = Creator THEN "active" ELSE "none"]
      /\ acl.pending = [a \in Accounts |-> 0]
      /\ acl.changes = [a \in Accounts |-> IF a = Creator THEN <<[rec |-> 1, perm |-> "owner"]>> ELSE <<>>]
    BY Zenon DEF Init, applyRoot
<1>2. <<[rec |-> 1, perm |-> "owner"]>> \in Seq(Change) /\ <<>> \in Seq(Change)
    BY DEF Change, Perms
<1>3. acl \in State
    <2>1. acl.changes \in [Accounts -> Seq(Change)]
        BY Zenon, <1>1, <1>2
    <2> HIDE DEF Change
    <2> QED BY <1>1, <1>2, AclAssumption DEF State, Init, applyRoot, Perms, Statuses
<1>4. Sane(acl, acl.n)
    BY <1>1, <1>3, AclAssumption DEF Sane, OwnersOK, RequestsOK, KeysOK
<1>5. Owners(acl) # {}
    BY <1>1, AclAssumption, Zenon DEF Owners
<1>6. CurrentReadKeyId(acl) = 1
    BY Zenon, <1>1, <1>4, CurrentKey
<1>7. HoldersOK
    BY <1>1, <1>6, AclAssumption DEF HoldersOK, Init, Members
<1> QED BY Zenon, <1>4, <1>5, <1>7 DEF AclInv

\* AclInv is invariant, for any accounts, permissions given, limits on members and number of
\* records.
THEOREM Invariance == Spec => []AclInv
<1>1. Init => AclInv
    BY Zenon, AclStart
<1>2. AclInv /\ [Next]_vars => AclInv'
    BY Zenon, AclStep
<1> QED BY <1>1, <1>2, PTL DEF Spec

\* OneOwner for every value of the constants: AddRecord admits no record that leaves the space
\* without an owner, and no content makes a second one.
THEOREM OneOwnerHolds == Spec => []OneOwner
<1>1. AclInv => OneOwner
    <2> SUFFICES ASSUME AclInv PROVE OneOwner
        OBVIOUS
    <2>1. PICK o \in Owners(acl) : TRUE
        BY Zenon DEF AclInv
    <2>2. Owners(acl) = {o}
        BY Zenon, <2>1 DEF AclInv, Sane, OwnersOK, Owners
    <2> QED BY Zenon, <2>2, FS_Singleton DEF OneOwner
<1> QED BY <1>1, Invariance, PTL

\* RequestsMatch for every value of the constants: pendingRequests and requestRecords agree
\* after any sequence of records.
THEOREM RequestsMatchHolds == Spec => []RequestsMatch
<1>1. AclInv => RequestsMatch
    BY Zenon DEF AclInv, Sane, RequestsOK, RequestsMatch
<1> QED BY <1>1, Invariance, PTL

\* KeysFollowMembers for every value of the constants: an account that was removed holds no
\* read key of its removal or later, and a member holds the current one or was raised without it.
THEOREM KeysFollowMembersHolds == Spec => []KeysFollowMembers
<1>1. AclInv => KeysFollowMembers
    BY Zenon DEF AclInv, HoldersOK, KeysFollowMembers
<1> QED BY <1>1, Invariance, PTL

\* AdminByOwner for every value of the constants: no record makes an admin, or an invite for
\* admins, unless the owner is its author or the account joins by such an invite.
THEOREM AdminByOwnerHolds == Spec => AdminByOwner
<1>1. AclInv /\ [Next]_vars => [AdminAct]_vars
    BY Zenon, AclStep
<1>2. Spec => [][AdminAct]_vars
    BY <1>1, Invariance, PTL DEF Spec
<1> QED BY Zenon, <1>2 DEF AdminByOwner, AdminAct

\* HistoryIsKept for every value of the constants: what PermissionsAtRecord returns for an
\* earlier record stays, unless accounts are added.
THEOREM HistoryIsKeptHolds == Spec => HistoryIsKept
<1>1. AclInv /\ [Next]_vars => [HistoryAct]_vars
    BY Zenon, AclStep
<1>2. Spec => [][HistoryAct]_vars
    BY <1>1, Invariance, PTL DEF Spec
<1> QED BY Zenon, <1>2 DEF HistoryIsKept, HistoryAct
=============================================================================
