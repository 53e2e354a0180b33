------------------------------ MODULE AclState ------------------------------
(***************************************************************************)
(* The access control list of a space (commonspace/object/acl/list): the   *)
(* state that the log of records leads to, the validation of a record, and *)
(* its admission by the coordinator (acl/acl.go).                          *)
(*                                                                         *)
(* All replicas apply the same log, so there is one state.  A record is    *)
(* built by its author from that state, checked there, and takes effect as *)
(* a whole.  The consensus node (external) takes a record only if it names *)
(* the last one as its previous record, so building, validation and        *)
(* admission are one step.  A record is known by its position in the log,  *)
(* and a read key by the record that introduced it.  Signatures and        *)
(* encryption are left out: who is given which read key is not.            *)
(***************************************************************************)
EXTENDS Naturals, Sequences, FiniteSets

CONSTANTS Accounts,
          Creator,      \* the account that signed the root
          GivenPerms,   \* the permissions that records hand out
          ReadMembers,  \* Limits of the space
          WriteMembers,
          MaxRecords    \* bound on the length of the log

ASSUME AclAssumption ==
    /\ Creator \in Accounts
    /\ GivenPerms \subseteq {"none", "reader", "guest", "writer", "admin", "owner"}
    /\ ReadMembers \in Nat /\ WriteMembers \in Nat /\ MaxRecords \in Nat

Perms == {"none", "reader", "guest", "writer", "admin", "owner"}
Statuses == {"none", "joining", "active", "removed", "declined", "removing", "canceled"}
Records == 1..MaxRecords

VARIABLES acl,     \* AclState
          holds,   \* holds[a]: the records whose read key a has in its own state
          raised,  \* accounts a permission change took from "none", without a key
          last     \* the author and the kind of the last record
vars == <<acl, holds, raised, last>>

-----------------------------------------------------------------------------
\* AclPermissions
CanWrite(p) == p \in {"owner", "admin", "writer"}
CanManageAccounts(p) == p \in {"owner", "admin"}
IsLessOrEqual(p, q) ==
    \/ p = "none"
    \/ p = "reader" /\ q # "none"
    \/ p = "writer" /\ q \in {"writer", "admin"}
    \/ p = "admin" /\ q = "admin"

\* applyRoot.  pending[a] is 0 when a has no pending request; a status of
\* "none" stands for an account that has no state.
applyRoot ==
    [n        |-> 1,
     perms    |-> [a \in Accounts |-> IF a = Creator THEN "owner" ELSE "none"],
     status   |-> [a \in Accounts |-> IF a = Creator THEN "active" ELSE "none"],
     changes  |-> [a \in Accounts |-> IF a = Creator THEN <<[rec |-> 1, perm |-> "owner"]>> ELSE <<>>],
     invites  |-> {},
     requests |-> {},
     pending  |-> [a \in Accounts |-> 0],
     keys     |-> {1}]

CurrentReadKeyId(st) == CHOOSE k \in st.keys : \A j \in st.keys : j <= k
Members(st) == {a \in Accounts : st.perms[a] # "none"}
Owners(st) == {a \in Accounts : st.perms[a] = "owner"}
OpenInvites(st) == {i \in st.invites : i.anyone}
InviteIds(st) == {i.id : i \in st.invites}
JoinRecords(st) == {r \in st.requests : r.join /\ st.pending[r.who] = r.id}

\* updatePermissions
updatePermissions(st, a, p, rec) ==
    [st EXCEPT !.perms[a] = p,
               !.changes[a] = Append(@, [rec |-> rec, perm |-> p])]

\* PermissionsAtRecord: the last change at or before the record.
PermissionsAtRecord(st, a, rec) ==
    LET at == {i \in DOMAIN st.changes[a] : st.changes[a][i].rec <= rec}
    IN IF at = {} THEN "none"
       ELSE st.changes[a][CHOOSE i \in at : \A j \in at : j <= i].perm

-----------------------------------------------------------------------------
(* One operator for what each content value does, one for its validation.  *)

ValidateInvite(st, author, anyone, p) ==
    /\ CanManageAccounts(st.perms[author])
    /\ anyone => /\ p \notin {"owner", "none", "guest"}
                 /\ p = "admin" => st.perms[author] = "owner"

applyInvite(st, rec, anyone, p, key) ==
    [st EXCEPT !.invites = {i \in @ : i.id # rec}
                 \cup {[id |-> rec, anyone |-> anyone, perms |-> p, key |-> key]}]

ValidateInviteChange(st, author, i, p) ==
    /\ CanManageAccounts(st.perms[author])
    /\ i \in st.invites /\ i.anyone /\ i.perms # p
    /\ p \notin {"owner", "none", "guest"}
    /\ p = "admin" => st.perms[author] = "owner"

applyInviteChange(st, i, p) ==
    [st EXCEPT !.invites = (@ \ {i}) \cup {[i EXCEPT !.perms = p]}]

ValidateInviteRevoke(st, author, id) ==
    CanManageAccounts(st.perms[author]) /\ id \in InviteIds(st)

applyInviteRevokes(st, ids) == [st EXCEPT !.invites = {i \in @ : i.id \notin ids}]

ValidateRequestJoin(st, author, i) ==
    /\ i \in st.invites /\ ~i.anyone
    /\ st.perms[author] = "none" /\ st.pending[author] = 0

applyRequestJoin(st, author, rec) ==
    [st EXCEPT !.pending[author] = rec,
               !.requests = @ \cup {[id |-> rec, who |-> author, join |-> TRUE]},
               !.status[author] = "joining"]

ValidateInviteJoin(st, author, i, p) ==
    /\ st.perms[author] = "none"
    /\ i \in st.invites /\ i.anyone
    /\ IsLessOrEqual(p, i.perms)

applyInviteJoin(st, author, rec, i, p) ==
    LET asked == {r \in st.requests : r.who = author} IN
    [updatePermissions(st, author, IF p = "none" THEN i.perms ELSE p, rec) EXCEPT
        !.status[author] = "active",
        !.requests = @ \ asked,
        !.pending[author] = IF asked = {} THEN @ ELSE 0]

ValidateRequestAccept(st, author, r, p) ==
    /\ CanManageAccounts(st.perms[author])
    /\ r \in st.requests
    /\ p # "owner"
    /\ p = "admin" => st.perms[author] = "owner"

\* Faulty variant: the history of the account starts over.
applyRequestAccept_NewHistory(st, rec, r, p) ==
    [st EXCEPT !.perms[r.who] = p,
               !.changes[r.who] = <<[rec |-> rec, perm |-> p]>>,
               !.status[r.who] = "active",
               !.requests = @ \ {r},
               !.pending[r.who] = 0]

applyRequestAccept(st, rec, r, p) ==
    [updatePermissions(st, r.who, p, rec) EXCEPT
        !.status[r.who] = "active",
        !.requests = @ \ {r},
        !.pending[r.who] = 0]

ValidateRequestDecline(st, author, r) ==
    CanManageAccounts(st.perms[author]) /\ r \in st.requests /\ r.join

applyRequestDeclines(st, D) ==
    LET who == {r.who : r \in D} IN
    [st EXCEPT !.status = [a \in Accounts |-> IF a \in who THEN "declined" ELSE @[a]],
               !.requests = @ \ D,
               !.pending = [a \in Accounts |-> IF a \in who THEN 0 ELSE @[a]]]

ValidateRequestCancel(st, author, r) == r \in st.requests /\ r.who = author

applyRequestCancel(st, r) ==
    [st EXCEPT !.status[r.who] = IF r.join THEN "canceled" ELSE "active",
               !.requests = @ \ {r},
               !.pending[r.who] = 0]

ValidateRequestRemove(st, author) ==
    st.perms[author] \notin {"none", "owner"} /\ st.pending[author] = 0

\* The handler itself refuses a guest.
applyRequestRemove(st, author, rec) ==
    [st EXCEPT !.requests = @ \cup {[id |-> rec, who |-> author, join |-> FALSE]},
               !.pending[author] = rec,
               !.status[author] = "removing"]

\* Faulty variant: an admin may name another one.
ValidatePermissionChange_Admin(st, author, a, p) ==
    /\ CanManageAccounts(st.perms[author])
    /\ st.status[a] # "none"
    /\ st.perms[a] \notin {"guest", "owner"}
    /\ st.perms[a] = "admin" => st.perms[author] = "owner"
    /\ p # "owner"
    /\ p = "guest" => st.perms[a] = "reader"

ValidatePermissionChange(st, author, a, p) ==
    /\ CanManageAccounts(st.perms[author])
    /\ st.status[a] # "none"
    /\ st.perms[a] \notin {"guest", "owner"}
    /\ st.perms[a] = "admin" => st.perms[author] = "owner"
    /\ p # "owner"
    /\ p = "admin" => st.perms[author] = "owner"
    /\ p = "guest" => st.perms[a] = "reader"

ValidateOwnershipChange(st, author, a, p) ==
    /\ st.perms[author] = "owner"
    /\ st.perms[a] \notin {"none", "owner"} /\ st.status[a] = "active"
    /\ p \notin {"none", "owner"}

applyOwnershipChange(st, author, a, p, rec) ==
    updatePermissions(updatePermissions(st, author, p, rec), a, "owner", rec)

ValidateAccountsAdd(st, author, A, p) ==
    /\ CanManageAccounts(st.perms[author])
    /\ \A a \in A : st.perms[a] = "none"
    /\ p \notin {"owner", "none"}
    /\ p = "admin" => st.perms[author] = "owner"

\* The state of the account is a new one, with a history of its own.
applyAccountsAdd(st, A, p, rec) ==
    [st EXCEPT
        !.perms = [a \in Accounts |-> IF a \in A THEN p ELSE @[a]],
        !.status = [a \in Accounts |-> IF a \in A THEN "active" ELSE @[a]],
        !.changes = [a \in Accounts |-> IF a \in A THEN <<[rec |-> rec, perm |-> p]>> ELSE @[a]]]

\* applyReadKeyChange: members have to be given the new key, and open invites
\* are given it (validateReadKeyChange compares both lists).
applyReadKeyChange(st, rec) ==
    [st EXCEPT !.keys = @ \cup {rec},
               !.invites = {IF i.anyone THEN [i EXCEPT !.key = rec] ELSE i : i \in @}]

ValidateAccountRemove(st, author, A) ==
    /\ CanManageAccounts(st.perms[author])
    /\ author \notin A
    /\ \A a \in A : /\ st.perms[a] \notin {"none", "owner"}
                    /\ st.perms[a] = "admin" => st.perms[author] = "owner"

\* Faulty variant: pending requests stay.
applyAccountRemove_KeepsPending(st, A, rec) ==
    applyReadKeyChange(
        [st EXCEPT
            !.status = [a \in Accounts |-> IF a \in A THEN "removed" ELSE @[a]],
            !.perms = [a \in Accounts |-> IF a \in A THEN "none" ELSE @[a]],
            !.changes = [a \in Accounts |->
                IF a \in A THEN Append(@[a], [rec |-> rec, perm |-> "none"]) ELSE @[a]],
            !.requests = {r \in @ : \A a \in A : r.id # st.pending[a]}], rec)

applyAccountRemove(st, A, rec) ==
    applyReadKeyChange(
        [st EXCEPT
            !.status = [a \in Accounts |-> IF a \in A THEN "removed" ELSE @[a]],
            !.perms = [a \in Accounts |-> IF a \in A THEN "none" ELSE @[a]],
            !.changes = [a \in Accounts |->
                IF a \in A THEN Append(@[a], [rec |-> rec, perm |-> "none"]) ELSE @[a]],
            !.pending = [a \in Accounts |-> IF a \in A THEN 0 ELSE @[a]],
            !.requests = {r \in @ : \A a \in A : r.id # st.pending[a]}], rec)

-----------------------------------------------------------------------------
(* A record and its admission.                                             *)

Readers(st) == Cardinality(Members(st))
Writers(st) == Cardinality({a \in Accounts : CanWrite(st.perms[a])})

\* Faulty variant: whether there is still an owner is not asked.
AddRecord_NoOwnerCheck(st, new) ==
    /\ ReadMembers > 1 \/ WriteMembers > 1
    /\ \/ Owners(new) # Owners(st)
       \/ /\ Readers(new) > Readers(st) => Readers(new) <= ReadMembers
          /\ Writers(new) > Writers(st) => Writers(new) <= WriteMembers

\* AclService.AddRecord, after the record was applied to a copy of the state:
\* there is an owner, and unless it is another one the limits are observed.
AddRecord(st, new) ==
    /\ ReadMembers > 1 \/ WriteMembers > 1
    /\ Owners(new) # {}
    /\ \/ Owners(new) # Owners(st)
       \/ /\ Readers(new) > Readers(st) => Readers(new) <= ReadMembers
          /\ Writers(new) > Writers(st) => Writers(new) <= WriteMembers

\* The record becomes part of the log.  The accounts in given find in it the
\* current read key, and by unpackAllKeys all earlier ones; a new read key is
\* found by the accounts in rotated.
Admit(author, kind, new, given, rotated) ==
    /\ acl.n < MaxRecords
    /\ AddRecord(acl, new)
    /\ acl' = [new EXCEPT !.n = @ + 1]
    /\ holds' = [a \in Accounts |->
                   IF a \in given THEN new.keys
                   ELSE IF a \in rotated THEN holds[a] \cup {acl.n + 1} ELSE holds[a]]
    /\ last' = [author |-> author, kind |-> kind]

\* The author of a record needs the current read key to hand it on: without one
\* CurrentReadKey returns no key, and nothing can be encrypted with it.
HasKey(a) == CurrentReadKeyId(acl) \in holds[a]
rec == acl.n + 1

Init ==
    /\ acl = applyRoot
    /\ holds = [a \in Accounts |-> IF a = Creator THEN {1} ELSE {}]
    /\ raised = {}
    /\ last = [author |-> Creator, kind |-> "root"]

\* BuildInvite and BuildInviteAnyone
BuildInvite(a, anyone, p) ==
    /\ ValidateInvite(acl, a, anyone, p)
    /\ anyone => HasKey(a)
    /\ Admit(a, "invite", applyInvite(acl, rec, anyone, p, CurrentReadKeyId(acl)), {}, {})
    /\ UNCHANGED raised

BuildInviteChange(a, i, p) ==
    /\ ValidateInviteChange(acl, a, i, p)
    /\ Admit(a, "inviteChange", applyInviteChange(acl, i, p), {}, {})
    /\ UNCHANGED raised

BuildInviteRevoke(a, i) ==
    /\ ValidateInviteRevoke(acl, a, i.id)
    /\ Admit(a, "inviteRevoke", applyInviteRevokes(acl, {i.id}), {}, {})
    /\ UNCHANGED raised

BuildRequestJoin(a, i) ==
    /\ ValidateRequestJoin(acl, a, i)
    /\ Admit(a, "requestJoin", applyRequestJoin(acl, a, rec), {}, {})
    /\ UNCHANGED raised

\* The joining account gets the key from the invite.  If that is not the
\* current key, unpackAllKeys fails in the preflight check.
BuildInviteJoinWithoutApprove(a, i, p) ==
    /\ ValidateInviteJoin(acl, a, i, p)
    /\ i.key = CurrentReadKeyId(acl)
    /\ Admit(a, "inviteJoin", applyInviteJoin(acl, a, rec, i, p), {a}, {})
    /\ raised' = raised \ {a}

BuildRequestAccept(a, r, p) ==
    /\ ValidateRequestAccept(acl, a, r, p)
    /\ HasKey(a)
    /\ Admit(a, "requestAccept", applyRequestAccept(acl, rec, r, p), {r.who}, {})
    /\ raised' = raised \ {r.who}

BuildRequestDecline(a, r) ==
    /\ ValidateRequestDecline(acl, a, r)
    /\ Admit(a, "requestDecline", applyRequestDeclines(acl, {r}), {}, {})
    /\ UNCHANGED raised

BuildRequestCancel(a, r) ==
    /\ ValidateRequestCancel(acl, a, r)
    /\ Admit(a, "requestCancel", applyRequestCancel(acl, r), {}, {})
    /\ UNCHANGED raised

BuildRequestRemove(a) ==
    /\ ValidateRequestRemove(acl, a) /\ acl.perms[a] # "guest"
    /\ Admit(a, "requestRemove", applyRequestRemove(acl, a, rec), {}, {})
    /\ UNCHANGED raised

BuildPermissionChanges(a, b, p) ==
    /\ a # b
    /\ ValidatePermissionChange(acl, a, b, p)
    /\ Admit(a, "permissionChange", updatePermissions(acl, b, p, rec), {}, {})
    /\ raised' = IF acl.perms[b] = "none" THEN raised \cup {b} ELSE raised

BuildOwnershipChange(a, b, p) ==
    /\ ValidateOwnershipChange(acl, a, b, p)
    /\ Admit(a, "ownershipChange", applyOwnershipChange(acl, a, b, p, rec), {}, {})
    /\ UNCHANGED raised

BuildAccountsAdd(a, A, p) ==
    /\ A # {} /\ HasKey(a)
    /\ ValidateAccountsAdd(acl, a, A, p)
    /\ Admit(a, "accountsAdd", applyAccountsAdd(acl, A, p, rec), A, {})
    /\ raised' = raised \ A

BuildReadKeyChange(a) ==
    /\ CanManageAccounts(acl.perms[a]) /\ HasKey(a)
    /\ Admit(a, "readKeyChange", applyReadKeyChange(acl, rec), {}, Members(acl))
    /\ raised' = raised \ Members(acl)

\* Faulty variant: the new key is given to those removed too.
BuildAccountRemove_AllMembers(a, A) ==
    /\ A # {} /\ HasKey(a)
    /\ ValidateAccountRemove(acl, a, A)
    /\ Admit(a, "accountRemove", applyAccountRemove(acl, A, rec), {}, Members(acl))
    /\ raised' = raised \ Members(acl)

BuildAccountRemove(a, A) ==
    /\ A # {} /\ HasKey(a)
    /\ ValidateAccountRemove(acl, a, A)
    /\ Admit(a, "accountRemove", applyAccountRemove(acl, A, rec), {}, Members(acl) \ A)
    /\ raised' = raised \ Members(acl)

-----------------------------------------------------------------------------
(* BuildBatchRequest: one record with several contents, each valid in the  *)
(* state that the ones before it lead to.  R are the accounts removed, P   *)
(* the requests approved (with their permissions), D the requests declined,*)
(* I the invites revoked, rotate says whether a read key change follows    *)
(* and N are the permissions of the new invites, "none" for one that needs *)
(* approval.  All contents are built from the state before the record: a   *)
(* new open invite carries the key that is current there.                  *)

Batch(st, author, R, P, D, I, rotate, N) ==
    LET r  == st.n + 1
        s1 == IF R = {} THEN st ELSE applyAccountRemove(st, R, r)
        s2 == IF P = {} THEN s1
              ELSE LET x == CHOOSE x \in P : TRUE IN applyRequestAccept(s1, r, x.request, x.perms)
        s3 == applyRequestDeclines(s2, D)
        s4 == applyInviteRevokes(s3, I)
        s5 == IF rotate THEN applyReadKeyChange(s4, r) ELSE s4
        s6 == IF N = {} THEN s5
              ELSE LET p == CHOOSE p \in N : TRUE IN applyInvite(s5, r, p # "none", p, CurrentReadKeyId(st))
    IN [ok |-> /\ R # {} \/ P # {} \/ D # {} \/ I # {} \/ N # {} \/ rotate
               /\ rotate => R = {} /\ P = {} /\ N = {}
               /\ R # {} => ValidateAccountRemove(st, author, R)
               /\ \A x \in P : x.request \in st.requests /\ ValidateRequestAccept(s1, author, x.request, x.perms)
               /\ \A d \in D : d \in st.requests /\ ValidateRequestDecline(s2, author, d)
               /\ \A id \in I : ValidateInviteRevoke(s3, author, id)
               /\ rotate => CanManageAccounts(s4.perms[author])
               /\ \A p \in N : ValidateInvite(s5, author, p # "none", p),
        st |-> s6,
        given |-> {x.request.who : x \in P},
        rotated |-> IF R # {} THEN Members(s1) ELSE IF rotate THEN Members(s4) ELSE {}]

BuildBatchRequest(a, R, P, D, I, rotate, N) ==
    LET b == Batch(acl, a, R, P, D, I, rotate, N) IN
    /\ acl.n < MaxRecords /\ CanManageAccounts(acl.perms[a])
    /\ b.ok
    /\ R # {} \/ P # {} \/ rotate \/ N \ {"none"} # {} => HasKey(a)
    /\ Admit(a, "batch", b.st, b.given, b.rotated)
    /\ raised' = raised \ (b.given \cup b.rotated)

\* The payload of StopSharing.
StopSharingBatch(st, a) ==
    Batch(st, a, Members(st) \ Owners(st), {}, JoinRecords(st), InviteIds(st), FALSE, {})

IsEmpty(st) ==
    /\ Cardinality(Members(st)) = 1
    /\ st.invites = {}
    /\ \A a \in Accounts : st.pending[a] = 0

StopSharing(a) ==
    /\ ~IsEmpty(acl)
    /\ BuildBatchRequest(a, Members(acl) \ Owners(acl), {}, JoinRecords(acl), InviteIds(acl), FALSE, {})

\* RevokeAllInvites, RevokeAllInvitesAndRotate and RevokeInviteAndRotate
RevokeAllInvites(a, rotate) ==
    /\ acl.invites # {} \/ rotate
    /\ BuildBatchRequest(a, {}, {}, {}, InviteIds(acl), rotate, {})

RevokeInviteAndRotate(a, i) == BuildBatchRequest(a, {}, {}, {}, {i.id}, TRUE, {})

\* ReplaceInvite: not if there is an equal invite already.
ReplaceInvite(a, p) ==
    /\ \A i \in acl.invites : i.perms # p
    /\ BuildBatchRequest(a, {}, {}, {}, InviteIds(acl), FALSE, {p})

AtMostOne(S) == {{}} \cup {{x} : x \in S}
Approvals == {[request |-> r, perms |-> p] : r \in acl.requests, p \in GivenPerms}

\* A membership update of the application: removals, approvals, new invites.
UpdateMembers(a, R) ==
    /\ R # {} /\ ValidateAccountRemove(acl, a, R)
    /\ \E P \in AtMostOne(Approvals), N \in AtMostOne(GivenPerms) :
          BuildBatchRequest(a, R, P, {}, {}, FALSE, N)

-----------------------------------------------------------------------------
InviteStep(a) ==
    \/ BuildInvite(a, FALSE, "none")
    \/ \E p \in GivenPerms : BuildInvite(a, TRUE, p) \/ ReplaceInvite(a, p)
    \/ \E i \in acl.invites :
          \/ BuildInviteRevoke(a, i)
          \/ RevokeInviteAndRotate(a, i)
          \/ \E p \in GivenPerms : BuildInviteChange(a, i, p)
    \/ \E rotate \in BOOLEAN : RevokeAllInvites(a, rotate)

RequestStep(a) ==
    \/ \E i \in acl.invites :
          \/ BuildRequestJoin(a, i)
          \/ \E p \in GivenPerms : BuildInviteJoinWithoutApprove(a, i, p)
    \/ \E r \in acl.requests :
          \/ BuildRequestDecline(a, r)
          \/ BuildRequestCancel(a, r)
          \/ \E p \in GivenPerms : BuildRequestAccept(a, r, p)
    \/ BuildRequestRemove(a)

MemberStep(a) ==
    \/ \E b \in Accounts, p \in GivenPerms :
          \/ BuildPermissionChanges(a, b, p)
          \/ BuildOwnershipChange(a, b, p)
    \/ \E A \in SUBSET Accounts :
          \/ BuildAccountRemove(a, A)
          \/ \E p \in GivenPerms : BuildAccountsAdd(a, A, p)
          \/ UpdateMembers(a, A)
    \/ BuildReadKeyChange(a)
    \/ StopSharing(a)

Next ==
    /\ acl.n < MaxRecords
    /\ \E a \in Accounts : InviteStep(a) \/ RequestStep(a) \/ MemberStep(a)

Spec == Init /\ [][Next]_vars

-----------------------------------------------------------------------------
(* Properties                                                              *)

\* Whatever is built and admitted, a space has exactly one owner: OwnerPubKey
\* finds one, and it is the only account that passes the owner's checks.
OneOwner == Cardinality(Owners(acl)) = 1

\* pendingRequests and requestRecords describe the same requests, at most one
\* for an account.
RequestsMatch ==
    /\ \A a \in Accounts : acl.pending[a] # 0 => \E r \in acl.requests : r.id = acl.pending[a] /\ r.who = a
    /\ \A r \in acl.requests : acl.pending[r.who] = r.id

\* An account becomes an admin by a record of the owner, or by an open invite
\* that the owner made one for admins (FR1 of the validator).
AdminByOwner ==
    [][/\ \A a \in Accounts :
             acl.perms[a] # "admin" /\ acl'.perms[a] = "admin"
             => acl.perms[last'.author] = "owner" \/ last'.kind = "inviteJoin"
       /\ \A i \in acl'.invites :
             i.perms = "admin" /\ (\A j \in acl.invites : j.id = i.id => j.perms # "admin")
             => acl.perms[last'.author] = "owner"]_vars

\* Read keys follow membership. An account that was removed has no read key made
\* from then on: the record that removes it makes a new one and withholds it. A
\* member can read what is written now, unless a permission change made it a
\* member: that record carries no key.
KeysFollowMembers ==
    /\ \A a \in Accounts : acl.status[a] = "removed" /\ acl.perms[a] = "none" =>
          LET since == acl.changes[a][Len(acl.changes[a])].rec
          IN \A k \in holds[a] : k < since
    /\ \A a \in Members(acl) : CurrentReadKeyId(acl) \in holds[a] \/ a \in raised

\* A record does not change what permissions an account had at an earlier one
\* (which ValidateFull of the object trees asks for), except for an account
\* that is added. Only a history that the record touches can differ.
HistoryIsKept ==
    [][\A a \in Accounts :
          \/ last'.kind = "accountsAdd" \/ acl'.changes[a] = acl.changes[a]
          \/ \A r \in 1..acl.n : PermissionsAtRecord(acl', a, r) = PermissionsAtRecord(acl, a, r)]_vars
=============================================================================
