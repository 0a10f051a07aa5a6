---------------------------- MODULE Organizations ----------------------------
(***************************************************************************)
(* Team organizations, their members and invitations                       *)
(* (apps/api/app/modules/organizations).                                   *)
(*                                                                         *)
(* A request loads the rows it decides on and its write takes effect when  *)
(* the handler's transaction commits; several overlap, under PostgreSQL's  *)
(* READ COMMITTED.  What a request has loaded can be stale by then: only   *)
(* the unique constraints, and the conditional UPDATE by which an          *)
(* invitation is answered, look at the rows as they are.                   *)
(*                                                                         *)
(* Personal organizations refuse every operation below (_reject_personal)  *)
(* and are left to SignIn; names and notifications are left out.           *)
(***************************************************************************)
EXTENDS Naturals, FiniteSets

CONSTANTS Users,
          Orgs,             \* the slugs of team organizations
          Invitations,      \* the ids invitations get
          Requests,         \* requests that run at the same time
          MaxTeamOrgs,      \* MAX_TEAM_ORGS_PER_USER
          Founding          \* how the founder's membership came about

OrgsAssumption ==
    /\ MaxTeamOrgs \in Nat \ {0}
    /\ Founding \notin Invitations

VARIABLES created,          \* the organizations there are
          member,           \* member[o][u]: the membership row of u in o
          invitation,       \* invitation[i]: the invitation row
          txn,              \* what each open request will write
          overlapped        \* organizations that overlapping requests took owners from

vars == <<created, member, invitation, txn, overlapped>>

-----------------------------------------------------------------------------
Roles == {"member", "admin", "owner"}

Rank == [member |-> 0, admin |-> 1, owner |-> 2]

\* A row is identified by what it came from, and is never revived.
NoRow == [role |-> "none", via |-> Founding]

Membership == [role : Roles, via : Invitations \cup {Founding}]

Members(o) == {u \in Users : member[o][u] # NoRow}
Owners(o) == {u \in Users : member[o][u].role = "owner"}

NoInvitation == [state |-> "none", expired |-> FALSE]

Idle == [op |-> "idle"]

\* authz.require_permission with MANAGE_MEMBERS.
MayManage(u, o) == u \in Members(o) /\ Rank[member[o][u].role] >= Rank["admin"]

\* The requests that have an invitation's row locked.
Holders(i) == {r \in Requests : txn[r].op = "answer" /\ txn[r].invitation = i}

\* Invitations of u to o that nobody has answered: the partial unique index.
Pending(o, u) ==
    {i \in Invitations :
        /\ invitation[i].state = "pending"
        /\ invitation[i].org = o
        /\ invitation[i].user = u}

Begin(r, write) ==
    /\ txn[r] = Idle
    /\ txn' = [txn EXCEPT ![r] = write]
    /\ UNCHANGED <<created, member, invitation, overlapped>>

-----------------------------------------------------------------------------
(* What the handlers load and decide.                                      *)

\* create_team_org
CreateTeamOrg(r, u, o) ==
    /\ Cardinality({p \in Orgs : u \in Members(p)}) < MaxTeamOrgs
    /\ Begin(r, [op |-> "create", org |-> o, user |-> u])

OtherOwnersOrEmpty(o, u) == TRUE

\* _owner_count(...) > 1: the check against losing the last owner.
KeepsAnOwner(o, u) == u \in Owners(o) => Cardinality(Owners(o)) > 1

\* update_member_role
UpdateRole(r, actor, o, u, role) ==
    /\ MayManage(actor, o)
    /\ u \in Members(o)
    /\ "owner" \in {role, member[o][u].role} => actor \in Owners(o)
    /\ role # "owner" => KeepsAnOwner(o, u)
    /\ role # member[o][u].role         \* or else there is nothing to flush
    /\ Begin(r, [op |-> "role", org |-> o, user |-> u,
                 via |-> member[o][u].via, role |-> role])

\* remove_member, leave_org
RemoveMember(r, actor, o, u) ==
    /\ u \in Members(o)
    /\ \/ actor = u
       \/ MayManage(actor, o) /\ (u \in Owners(o) => actor \in Owners(o))
    /\ KeepsAnOwner(o, u)
    /\ Begin(r, [op |-> "delete", org |-> o, user |-> u, via |-> member[o][u].via])

\* invite_member; MemberAdd refuses the role owner.
Invite(r, actor, o, u, role, i) ==
    /\ MayManage(actor, o)
    /\ u \notin Members(o)
    /\ Pending(o, u) = {}
    /\ invitation[i] = NoInvitation
    /\ \A q \in Requests : txn[q].op = "invite" => txn[q].invitation # i
    /\ Begin(r, [op |-> "invite", invitation |-> i, org |-> o, user |-> u, role |-> role])

Answered(i) == invitation[i].state \in {"accepted", "refused"}

StillThere(i) == invitation[i].state # "none"

\* The WHERE clause both answers and withdrawals share.
Open(i) == StillThere(i) /\ ~Answered(i)

\* _claim_invitation: a conditional UPDATE, which waits for the row's lock.
Answer(r, i, state) ==
    /\ Open(i)
    /\ ~invitation[i].expired
    /\ Holders(i) = {}
    /\ Begin(r, [op |-> "answer", invitation |-> i, state |-> state,
                 join |-> state = "accepted"
                            /\ invitation[i].user \notin Members(invitation[i].org)])

\* revoke_invitation
Revoke(r, actor, i) ==
    /\ Open(i)
    /\ MayManage(actor, invitation[i].org)
    /\ Holders(i) = {}
    /\ Begin(r, [op |-> "answer", invitation |-> i, state |-> "refused", join |-> FALSE])

-----------------------------------------------------------------------------
(* What the transactions write.                                            *)

SetRow(o, u, row) == member' = [member EXCEPT ![o][u] = row]

\* Requests, other than r, about to take an owner from o.
OwnerTakers(r, o) ==
    {q \in Requests \ {r} :
        /\ txn[q].op \in {"role", "delete"}
        /\ txn[q].org = o
        /\ txn[q].user \in Owners(o)}

NoteOverlap(r, o, u) ==
    overlapped' =
        IF u \in Owners(o) /\ OwnerTakers(r, o) # {} THEN overlapped \cup {o} ELSE overlapped

Finish(r) == txn' = [txn EXCEPT ![r] = Idle]

\* The founder's row; a taken slug refuses the organization.
CommitCreate(r) ==
    LET w == txn[r] IN
    /\ w.op = "create"
    /\ w.org \notin created
    /\ created' = created \cup {w.org}
    /\ SetRow(w.org, w.user, [role |-> "owner", via |-> Founding])
    /\ Finish(r)
    /\ UNCHANGED <<invitation, overlapped>>

\* The row that was loaded is still there.
SameRow(w) ==
    member[w.org][w.user] # NoRow /\ member[w.org][w.user].via = w.via

CommitRole(r) ==
    LET w == txn[r] IN
    /\ w.op = "role"
    /\ SameRow(w)
    /\ SetRow(w.org, w.user, [role |-> w.role, via |-> w.via])
    /\ NoteOverlap(r, w.org, w.user)
    /\ Finish(r)
    /\ UNCHANGED <<created, invitation>>

\* Deleting a row that is gone deletes nothing.
CommitDelete(r) ==
    LET w == txn[r] IN
    /\ w.op = "delete"
    /\ IF SameRow(w)
       THEN SetRow(w.org, w.user, NoRow) /\ NoteOverlap(r, w.org, w.user)
       ELSE UNCHANGED <<member, overlapped>>
    /\ Finish(r)
    /\ UNCHANGED <<created, invitation>>

\* uq_org_invitation_pending
NonePending(o, u) == Pending(o, u) = {}

CommitInvite(r) ==
    LET w == txn[r] IN
    /\ w.op = "invite"
    /\ NonePending(w.org, w.user)
    /\ invitation' = [invitation EXCEPT ![w.invitation] =
            [state |-> "pending", expired |-> FALSE,
             org |-> w.org, user |-> w.user, role |-> w.role]]
    /\ Finish(r)
    /\ UNCHANGED <<created, member, overlapped>>

\* An acceptance that finds no membership inserts it (uq_membership_org_user).
CommitAnswer(r) ==
    LET w == txn[r]
        offer == invitation[w.invitation]
    IN
    /\ w.op = "answer"
    /\ w.join => offer.user \notin Members(offer.org)
    /\ invitation' = [invitation EXCEPT ![w.invitation].state = w.state]
    /\ IF w.join
       THEN SetRow(offer.org, offer.user, [role |-> offer.role, via |-> w.invitation])
       ELSE UNCHANGED member
    /\ Finish(r)
    /\ UNCHANGED <<created, overlapped>>

\* A constraint refuses the write, a later step fails, or the process dies.
Rollback(r) ==
    /\ txn[r] # Idle
    /\ Finish(r)
    /\ UNCHANGED <<created, member, invitation, overlapped>>

\* INVITATION_TTL passes.
Expire(i) ==
    /\ invitation[i].state = "pending"
    /\ ~invitation[i].expired
    /\ invitation' = [invitation EXCEPT ![i].expired = TRUE]
    /\ UNCHANGED <<created, member, txn, overlapped>>

-----------------------------------------------------------------------------
Init ==
    /\ created = {}
    /\ member = [o \in Orgs |-> [u \in Users |-> NoRow]]
    /\ invitation = [i \in Invitations |-> NoInvitation]
    /\ txn = [r \in Requests |-> Idle]
    /\ overlapped = {}

Team(r, actor, o) ==
    \/ CreateTeamOrg(r, actor, o)
    \/ \E u \in Users :
          \/ RemoveMember(r, actor, o, u)
          \/ \E role \in Roles : UpdateRole(r, actor, o, u, role)
          \/ \E role \in Roles \ {"owner"}, i \in Invitations : Invite(r, actor, o, u, role, i)

Respond(r, i) ==
    \/ \E state \in {"accepted", "refused"} : Answer(r, i, state)
    \/ \E actor \in Users : Revoke(r, actor, i)

Commit(r) ==
    CommitCreate(r) \/ CommitRole(r) \/ CommitDelete(r) \/ CommitInvite(r) \/ CommitAnswer(r)

Next ==
    \/ \E r \in Requests :
          \/ \E actor \in Users, o \in Orgs : Team(r, actor, o)
          \/ \E i \in Invitations : Respond(r, i)
          \/ Commit(r)
          \/ Rollback(r)
    \/ \E i \in Invitations : Expire(i)

Spec == Init /\ [][Next]_vars

-----------------------------------------------------------------------------
TypeOK ==
    /\ created \subseteq Orgs
    /\ member \in [Orgs -> [Users -> Membership \cup {NoRow}]]
    /\ \A i \in Invitations : invitation[i].state \in {"none", "pending", "accepted", "refused"}
    /\ \A r \in Requests :
          txn[r].op \in {"idle", "create", "role", "delete", "invite", "answer"}
    /\ overlapped \subseteq Orgs

\* "Offer membership. The invitee decides": whoever is a member and did not
\* found the organization has accepted an invitation to it that nobody had
\* declined or withdrawn, however many sessions answered it at once.
MembersConsented ==
    \A o \in Orgs : \A u \in Members(o) :
        LET i == member[o][u].via IN
        i # Founding =>
            /\ invitation[i].state = "accepted"
            /\ invitation[i].org = o
            /\ invitation[i].user = u

\* One live invitation per person and organization.
OneOfferAtATime ==
    \A o \in Orgs, u \in Users : Cardinality(Pending(o, u)) <= 1

\* An organization keeps an owner as long as no two requests that take one
\* from it overlap: the guards of update_member_role, remove_member and
\* leave_org suffice one at a time, whatever invitations do meanwhile.
OwnedUnlessOverlapped ==
    \A o \in created \ overlapped : Owners(o) # {}
=============================================================================
