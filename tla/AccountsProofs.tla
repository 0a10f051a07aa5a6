--------------------------- MODULE AccountsProofs ---------------------------
(***************************************************************************)
(* The properties MCAccounts states of the five components that decide who *)
(* may act for whom, for any users, rows, limits and overlapping requests. *)
(*                                                                         *)
(* Each component has an inductive invariant of its own, proved on the     *)
(* instance MCAccounts makes of it; together they are AccountsInv.         *)
(***************************************************************************)
EXTENDS MCAccounts, FiniteSetTheorems, TLAPS

-----------------------------------------------------------------------------
(* Every instance has its own name of Cardinality.                         *)

LEMMA SameCardinality ==
    ASSUME NEW S
    PROVE  /\ Org!Cardinality(S) = Cardinality(S)
           /\ Sign!Cardinality(S) = Cardinality(S)
           /\ Api!Cardinality(S) = Cardinality(S)
           /\ Limit!Cardinality(S) = Cardinality(S)
           /\ Api!IsFiniteSet(S) <=> IsFiniteSet(S)
BY DEF Org!Cardinality, Sign!Cardinality, Api!Cardinality, Limit!Cardinality, Cardinality,
       Api!IsFiniteSet, IsFiniteSet

LEMMA KeyAssumptions ==
    /\ IsFiniteSet(Rows) /\ IsFiniteSet(Requests)
    /\ MaxActiveKeys \in Nat \ {0} /\ Cardinality(Requests) \in Nat
<1>1. IsFiniteSet(Rows) /\ IsFiniteSet(Requests) /\ MaxActiveKeys \in Nat \ {0}
  BY AccountsAssumption, SameCardinality DEF Api!KeysAssumption
<1>2. QED
  BY <1>1, FS_CardinalityType


-----------------------------------------------------------------------------
(* Organizations.                                                          *)

Offered == [state : {"pending", "accepted", "refused"}, expired : BOOLEAN,
            org : Orgs, user : Users, role : {"member", "admin"}]

OrgRows ==
    /\ created \subseteq Orgs
    /\ orgOverlapped \subseteq Orgs
    /\ member \in [Orgs -> [Users -> Org!Membership \cup {Org!NoRow}]]
    /\ invitation \in [Offers -> Offered \cup {Org!NoInvitation}]
    /\ orgTxn = [r \in Requests |-> orgTxn[r]]

\* Members and invitations are of organizations there are.
Founded ==
    /\ \A o \in Orgs \ created : Org!Members(o) = {}
    /\ \A i \in Offers : invitation[i] # Org!NoInvitation => invitation[i].org \in created

(***************************************************************************)
(* Neither property is inductive by itself.  That an answer is the only    *)
(* one rests on the row's lock, that an invitation is not overwritten on   *)
(* its id, and that an organization keeps an owner on what the requests    *)
(* that are about to take one have seen: another one, who is still there   *)
(* unless a request that orgOverlapped took him.                              *)
(***************************************************************************)
Spares(w) ==
    w.org \notin orgOverlapped /\ w.user \in Org!Owners(w.org) =>
        \E v \in Org!Owners(w.org) : v # w.user

\* What a request is about to write.
Fits(w) ==
    \/ w.op = "idle"
    \/ w.op = "create" /\ w.org \in Orgs /\ w.user \in Users
    \/ /\ w.op = "role" /\ w.org \in created /\ w.user \in Users
       /\ w.role \in Org!Roles /\ Spares(w)
    \/ w.op = "delete" /\ w.org \in created /\ w.user \in Users /\ Spares(w)
    \/ /\ w.op = "invite" /\ w.invitation \in Offers
       /\ w.org \in created /\ w.user \in Users /\ w.role \in {"member", "admin"}
       /\ invitation[w.invitation] = Org!NoInvitation
    \/ /\ w.op = "answer" /\ w.invitation \in Offers
       /\ invitation[w.invitation].state = "pending"
       /\ w.state \in {"accepted", "refused"} /\ w.join \in BOOLEAN
       /\ w.join => w.state = "accepted"

\* No two requests write an invitation of the same id, or answer the same one.
Collide(v, w) ==
    v.op = w.op /\ v.op \in {"invite", "answer"} /\ v.invitation = w.invitation

Apart == \A r, q \in Requests : r # q => ~Collide(orgTxn[r], orgTxn[q])

OneOffer == \A o \in Orgs, u \in Users : \A i, j \in Org!Pending(o, u) : i = j

OrgInv ==
    /\ OrgRows /\ Founded /\ Apart
    /\ \A r \in Requests : Fits(orgTxn[r])
    /\ Org!MembersConsented /\ OneOffer /\ Org!OwnedUnlessOverlapped

-----------------------------------------------------------------------------
LEMMA OrgStart == ASSUME Org!Init PROVE OrgInv
<1>1. OrgRows /\ Founded
  BY DEF Org!Init, OrgRows, Founded, Org!Members
<1>2. Apart /\ \A r \in Requests : Fits(orgTxn[r])
  BY DEF Org!Init, Apart, Collide, Fits, Org!Idle
<1>3. Org!MembersConsented /\ OneOffer /\ Org!OwnedUnlessOverlapped
  BY DEF Org!Init, Org!MembersConsented, OneOffer, Org!OwnedUnlessOverlapped, Org!Members,
         Org!Pending, Org!NoInvitation
<1>4. QED
  BY <1>1, <1>2, <1>3 DEF OrgInv

\* A request that begins writes nothing yet.
LEMMA BeginPreserves ==
    ASSUME OrgInv, NEW r \in Requests, NEW w, Org!Begin(r, w), Fits(w),
           \A q \in Requests \ {r} : ~Collide(orgTxn[q], w)
    PROVE  OrgInv'
<1>1. orgTxn' = [orgTxn EXCEPT ![r] = w] /\ UNCHANGED <<created, member, invitation, orgOverlapped>>
  BY DEF Org!Begin
<1>2. orgTxn'[r] = w /\ \A q \in Requests \ {r} : orgTxn'[q] = orgTxn[q]
  BY <1>1 DEF OrgInv, OrgRows
<1>3. OrgRows'
  BY <1>1 DEF OrgInv, OrgRows
<1>4. Apart'
  BY <1>2 DEF OrgInv, Apart, Collide
<1>5. \A q \in Requests : Fits(orgTxn[q])'
  <2>1. \A v : Fits(v) => Fits(v)'
    BY <1>1 DEF Fits, Spares, Org!Owners
  <2>2. QED
    BY <1>2, <2>1 DEF OrgInv
<1>6. QED
  BY <1>1, <1>3, <1>4, <1>5 DEF OrgInv, Founded, Org!MembersConsented, OneOffer,
     Org!OwnedUnlessOverlapped, Org!Members, Org!Owners, Org!Pending

\* A request that ends without having written changes no row.
LEMMA EndPreserves ==
    ASSUME OrgInv, NEW r \in Requests, Org!Finish(r),
           UNCHANGED <<created, member, invitation, orgOverlapped>>
    PROVE  OrgInv'
<1>1. orgTxn'[r] = Org!Idle /\ \A q \in Requests \ {r} : orgTxn'[q] = orgTxn[q]
  BY DEF Org!Finish, OrgInv, OrgRows
<1>2. OrgRows'
  BY DEF Org!Finish, OrgInv, OrgRows
<1>3. Apart'
  BY <1>1 DEF OrgInv, Apart, Collide, Org!Idle
<1>4. \A q \in Requests : Fits(orgTxn[q])'
  <2>1. \A v : Fits(v) => Fits(v)'
    BY DEF Fits, Spares, Org!Owners
  <2>2. QED
    BY <1>1, <2>1 DEF OrgInv, Fits, Org!Idle
<1>5. QED
  BY <1>2, <1>3, <1>4 DEF OrgInv, Founded, Org!MembersConsented, OneOffer,
     Org!OwnedUnlessOverlapped, Org!Members, Org!Owners, Org!Pending

-----------------------------------------------------------------------------
(* What the handlers load and decide.                                      *)

\* The check against losing the last owner finds another one.
LEMMA AnotherOwner ==
    ASSUME NEW o, NEW u, Org!KeepsAnOwner(o, u), u \in Org!Owners(o)
    PROVE  \E v \in Org!Owners(o) : v # u
<1>1. Cardinality(Org!Owners(o)) > 1
  BY SameCardinality DEF Org!KeepsAnOwner
<1>2. Cardinality({u}) = 1
  BY FS_Singleton
<1>3. Org!Owners(o) # {u}
  BY <1>1, <1>2
<1>4. QED
  BY <1>3

\* Whoever manages an organization is a member of one that exists.
LEMMA ManagedExists ==
    ASSUME OrgInv, NEW o \in Orgs, NEW u \in Org!Members(o)
    PROVE  o \in created
BY DEF OrgInv, Founded

LEMMA TeamPreserves ==
    ASSUME OrgInv, NEW r \in Requests, NEW actor \in Users, NEW o \in Orgs, Org!Team(r, actor, o)
    PROVE  OrgInv'
<1>1. CASE Org!CreateTeamOrg(r, actor, o)
  <2>. DEFINE w == [op |-> "create", org |-> o, user |-> actor]
  <2>1. Org!Begin(r, w)
    BY <1>1 DEF Org!CreateTeamOrg
  <2>2. Fits(w) /\ \A v : ~Collide(v, w)
    BY DEF Fits, Collide
  <2>. HIDE DEF w
  <2>3. QED
    BY <2>1, <2>2, BeginPreserves
<1>2. ASSUME NEW u \in Users, Org!RemoveMember(r, actor, o, u) PROVE OrgInv'
  <2>. DEFINE w == [op |-> "delete", org |-> o, user |-> u, via |-> member[o][u].via]
  <2>1. Org!Begin(r, w) /\ o \in created
    BY <1>2, ManagedExists DEF Org!RemoveMember
  <2>2. Spares(w)
    BY <1>2, AnotherOwner DEF Org!RemoveMember, Spares
  <2>3. Fits(w) /\ \A v : ~Collide(v, w)
    BY <2>1, <2>2 DEF Fits, Collide
  <2>. HIDE DEF w
  <2>4. QED
    BY <2>1, <2>3, BeginPreserves
<1>3. ASSUME NEW u \in Users, NEW role \in Org!Roles, Org!UpdateRole(r, actor, o, u, role)
      PROVE  OrgInv'
  <2>. DEFINE w == [op |-> "role", org |-> o, user |-> u,
                    via |-> member[o][u].via, role |-> role]
  <2>1. Org!Begin(r, w) /\ o \in created
    BY <1>3, ManagedExists DEF Org!UpdateRole
  <2>2. Spares(w)
    <3>1. u \in Org!Owners(o) => role # "owner"
      BY <1>3 DEF Org!UpdateRole, Org!Owners
    <3>2. QED
      BY <1>3, <3>1, AnotherOwner DEF Org!UpdateRole, Spares
  <2>3. Fits(w) /\ \A v : ~Collide(v, w)
    BY <2>1, <2>2 DEF Fits, Collide
  <2>. HIDE DEF w
  <2>4. QED
    BY <2>1, <2>3, BeginPreserves
<1>4. ASSUME NEW u \in Users, NEW role \in Org!Roles \ {"owner"}, NEW i \in Offers,
             Org!Invite(r, actor, o, u, role, i)
      PROVE  OrgInv'
  <2>. DEFINE w == [op |-> "invite", invitation |-> i, org |-> o, user |-> u, role |-> role]
  <2>1. Org!Begin(r, w) /\ o \in created /\ invitation[i] = Org!NoInvitation
    BY <1>4, ManagedExists DEF Org!Invite, Org!MayManage
  <2>2. Fits(w)
    BY <2>1 DEF Fits, Org!Roles
  <2>3. \A q \in Requests : ~Collide(orgTxn[q], w)
    BY <1>4 DEF Org!Invite, Collide
  <2>. HIDE DEF w
  <2>4. QED
    BY <2>1, <2>2, <2>3, BeginPreserves
<1>5. QED
  BY <1>1, <1>2, <1>3, <1>4 DEF Org!Team

\* An open invitation is one that is pending.
LEMMA OpenIsPending ==
    ASSUME OrgInv, NEW i \in Offers, Org!Open(i)
    PROVE  invitation[i].state = "pending"
<1>1. invitation[i] \in Offered
  BY DEF OrgInv, OrgRows, Org!Open, Org!StillThere, Org!NoInvitation
<1>2. QED
  BY <1>1 DEF Org!Open, Org!Answered, Offered

LEMMA RespondPreserves ==
    ASSUME OrgInv, NEW r \in Requests, NEW i \in Offers, Org!Respond(r, i)
    PROVE  OrgInv'
<1>1. PICK state \in {"accepted", "refused"}, join \in BOOLEAN :
         /\ Org!Begin(r, [op |-> "answer", invitation |-> i, state |-> state, join |-> join])
         /\ join => state = "accepted"
         /\ Org!Open(i) /\ Org!Holders(i) = {}
  BY DEF Org!Respond, Org!Answer, Org!Revoke
<1>. DEFINE w == [op |-> "answer", invitation |-> i, state |-> state, join |-> join]
<1>2. Fits(w)
  BY <1>1, OpenIsPending DEF Fits
<1>3. \A q \in Requests : ~Collide(orgTxn[q], w)
  BY <1>1 DEF Org!Holders, Collide
<1>4. Org!Begin(r, w)
  BY <1>1
<1>. HIDE DEF w
<1>5. QED
  BY <1>2, <1>3, <1>4, BeginPreserves

-----------------------------------------------------------------------------
(* What the transactions write.                                            *)

\* A row that is written is one row of one organization.
LEMMA SetRowEffect ==
    ASSUME OrgRows, NEW o \in Orgs, NEW u \in Users, NEW row \in Org!Membership \cup {Org!NoRow},
           Org!SetRow(o, u, row)
    PROVE  /\ member' \in [Orgs -> [Users -> Org!Membership \cup {Org!NoRow}]]
           /\ member'[o][u] = row
           /\ \A p \in Orgs, v \in Users : p # o \/ v # u => member'[p][v] = member[p][v]
           /\ \A p \in Orgs \ {o} :
                 Org!Owners(p)' = Org!Owners(p) /\ Org!Members(p)' = Org!Members(p)
           /\ row.role = "owner" => Org!Owners(o)' = Org!Owners(o) \cup {u}
           /\ row.role # "owner" => Org!Owners(o)' = Org!Owners(o) \ {u}
           /\ row # Org!NoRow => Org!Members(o)' = Org!Members(o) \cup {u}
           /\ row = Org!NoRow => Org!Members(o)' = Org!Members(o) \ {u}
<1>1. /\ member' \in [Orgs -> [Users -> Org!Membership \cup {Org!NoRow}]]
      /\ member'[o][u] = row
      /\ \A p \in Orgs, v \in Users : p # o \/ v # u => member'[p][v] = member[p][v]
  BY DEF OrgRows, Org!SetRow
<1>2. QED
  BY <1>1 DEF Org!Owners, Org!Members

\* What a transaction that writes does to the requests.
Finished(r) == orgTxn'[r] = Org!Idle /\ \A q \in Requests \ {r} : orgTxn'[q] = orgTxn[q]

LEMMA FinishEffect ==
    ASSUME OrgInv, NEW r \in Requests, Org!Finish(r)
    PROVE  /\ orgTxn' = [q \in Requests |-> orgTxn'[q]]
           /\ Finished(r)
           /\ Apart'
<1>1. orgTxn' = [q \in Requests |-> orgTxn'[q]] /\ Finished(r)
  BY DEF Org!Finish, Finished, OrgInv, OrgRows
<1>2. QED
  BY <1>1 DEF Finished, OrgInv, Apart, Collide, Org!Idle

\* The requests that go on still fit if what they may take still spares an owner
\* and their invitations are as they were.
LEMMA OthersFit ==
    ASSUME OrgInv, NEW r \in Requests, Finished(r), created \subseteq created',
           \A q \in Requests \ {r} :
              /\ orgTxn[q].op \in {"role", "delete"} /\ orgTxn[q].org \in created =>
                    Spares(orgTxn[q])'
              /\ orgTxn[q].op \in {"invite", "answer"} =>
                    invitation'[orgTxn[q].invitation] = invitation[orgTxn[q].invitation]
    PROVE  \A q \in Requests : Fits(orgTxn[q])'
<1>1. Fits(orgTxn[r])'
  BY DEF Finished, Fits, Org!Idle
<1>2. ASSUME NEW q \in Requests \ {r} PROVE Fits(orgTxn[q])'
  <2>1. Fits(orgTxn[q]) /\ orgTxn'[q] = orgTxn[q]
    BY DEF OrgInv, Finished
  <2>2. QED
    BY <2>1 DEF Fits
<1>3. QED
  BY <1>1, <1>2

\* A row that is written is a consenting member's, the others' are as they were.
LEMMA ConsentAfterRow ==
    ASSUME OrgInv, NEW o \in Orgs, NEW u \in Users, NEW row \in Org!Membership \cup {Org!NoRow},
           Org!SetRow(o, u, row),
           \A i \in Offers :
              invitation[i].state = "accepted" => invitation'[i] = invitation[i],
           row # Org!NoRow /\ row.via # None =>
              /\ invitation'[row.via].state = "accepted"
              /\ invitation'[row.via].org = o
              /\ invitation'[row.via].user = u
    PROVE  Org!MembersConsented'
<1>1. SUFFICES ASSUME NEW p \in Orgs, NEW v \in Org!Members(p)', member'[p][v].via # None
               PROVE  /\ invitation'[member'[p][v].via].state = "accepted"
                      /\ invitation'[member'[p][v].via].org = p
                      /\ invitation'[member'[p][v].via].user = v
  BY DEF Org!MembersConsented
<1>2. /\ member'[o][u] = row
      /\ \A q \in Orgs, x \in Users : q # o \/ x # u => member'[q][x] = member[q][x]
  BY SetRowEffect DEF OrgInv
<1>3. v \in Users /\ member'[p][v] # Org!NoRow
  BY DEF Org!Members
<1>4. CASE p = o /\ v = u
  BY <1>1, <1>2, <1>3, <1>4
<1>5. CASE p # o \/ v # u
  <2>1. member'[p][v] = member[p][v] /\ v \in Org!Members(p)
    BY <1>2, <1>3, <1>5 DEF Org!Members
  <2>2. member[p][v].via \in Offers
    BY <1>1, <1>3, <2>1 DEF OrgInv, OrgRows, Org!Membership
  <2>3. QED
    BY <1>1, <2>1, <2>2 DEF OrgInv, Org!MembersConsented
<1>6. QED
  BY <1>4, <1>5

\* create_team_org: the founder is the first owner.
LEMMA CreateCommits ==
    ASSUME OrgInv, NEW r \in Requests, Org!CommitCreate(r)
    PROVE  OrgInv'
<1>. DEFINE row == [role |-> "owner", via |-> None]
<1>1. PICK o \in Orgs, u \in Users : o = orgTxn[r].org /\ u = orgTxn[r].user
  BY DEF OrgInv, Fits, Org!CommitCreate
<1>2. /\ o \notin created
      /\ created' = created \cup {o} /\ Org!SetRow(o, u, row)
      /\ Org!Finish(r) /\ UNCHANGED <<invitation, orgOverlapped>>
  BY <1>1 DEF Org!CommitCreate
<1>3. row \in Org!Membership /\ row # Org!NoRow /\ row.role = "owner" /\ row.via = None
  BY DEF Org!Membership, Org!Roles, Org!NoRow
<1>. HIDE DEF row
<1>4. /\ member' \in [Orgs -> [Users -> Org!Membership \cup {Org!NoRow}]]
      /\ \A p \in Orgs \ {o} : Org!Owners(p)' = Org!Owners(p) /\ Org!Members(p)' = Org!Members(p)
      /\ Org!Owners(o)' = Org!Owners(o) \cup {u}
  BY <1>2, <1>3, SetRowEffect DEF OrgInv
<1>5. /\ orgTxn' = [q \in Requests |-> orgTxn'[q]] /\ Finished(r) /\ Apart'
  BY <1>2, FinishEffect
<1>6. OrgRows'
  BY <1>2, <1>4, <1>5 DEF OrgInv, OrgRows
<1>7. Founded'
  BY <1>2, <1>4 DEF OrgInv, Founded
<1>8. Org!MembersConsented'
  BY <1>2, <1>3, ConsentAfterRow
<1>9. OneOffer'
  BY <1>2 DEF OrgInv, OneOffer, Org!Pending
<1>10. Org!OwnedUnlessOverlapped'
  <2>1. SUFFICES ASSUME NEW p \in created' \ orgOverlapped' PROVE Org!Owners(p)' # {}
    BY DEF Org!OwnedUnlessOverlapped
  <2>2. CASE p = o
    BY <1>4, <2>2
  <2>3. CASE p # o
    <3>1. p \in created /\ p \in Orgs /\ p \notin orgOverlapped
      BY <1>2, <2>1, <2>3 DEF OrgInv, OrgRows
    <3>2. QED
      BY <1>4, <2>3, <3>1 DEF OrgInv, Org!OwnedUnlessOverlapped
  <2>4. QED
    BY <2>2, <2>3
<1>11. \A q \in Requests : Fits(orgTxn[q])'
  <2>1. \A q \in Requests \ {r} :
           orgTxn[q].op \in {"role", "delete"} /\ orgTxn[q].org \in created => Spares(orgTxn[q])'
    <3>1. SUFFICES ASSUME NEW q \in Requests \ {r}, orgTxn[q].org \in created,
                          orgTxn[q].op \in {"role", "delete"}
                   PROVE  Spares(orgTxn[q])'
      OBVIOUS
    <3>2. PICK p, v : p \in Orgs /\ p = orgTxn[q].org /\ v = orgTxn[q].user
      BY <3>1 DEF OrgInv, OrgRows
    <3>3. Spares(orgTxn[q]) /\ orgTxn'[q] = orgTxn[q]
      BY <3>1, <1>5 DEF OrgInv, Fits, Finished
    <3>4. Org!Owners(p)' = Org!Owners(p)
      BY <1>2, <1>4, <3>1, <3>2
    <3>5. QED
      BY <1>2, <3>2, <3>3, <3>4 DEF Spares
  <2>2. QED
    BY <1>2, <1>5, <2>1, OthersFit
<1>12. QED
  BY <1>5, <1>6, <1>7, <1>8, <1>9, <1>10, <1>11 DEF OrgInv

\* A row changed or deleted by a request that loaded it: an owner who is taken
\* leaves another one behind, for the organization and for the other requests,
\* unless one of those was about to take an owner as well.
LEMMA RowCommits ==
    ASSUME OrgInv, NEW r \in Requests, NEW o \in created, NEW u \in Users,
           NEW row \in Org!Membership \cup {Org!NoRow},
           orgTxn[r].op \in {"role", "delete"}, orgTxn[r].org = o, orgTxn[r].user = u,
           row # Org!NoRow => member[o][u] # Org!NoRow /\ row.via = member[o][u].via,
           Org!SetRow(o, u, row), Org!NoteOverlap(r, o, u), Org!Finish(r),
           UNCHANGED <<created, invitation>>
    PROVE  OrgInv'
<1>1. o \in Orgs /\ OrgRows
  BY DEF OrgInv, OrgRows
<1>2. /\ member' \in [Orgs -> [Users -> Org!Membership \cup {Org!NoRow}]]
      /\ \A p \in Orgs \ {o} : Org!Owners(p)' = Org!Owners(p) /\ Org!Members(p)' = Org!Members(p)
      /\ \/ row.role = "owner" /\ Org!Owners(o)' = Org!Owners(o) \cup {u}
         \/ row.role # "owner" /\ Org!Owners(o)' = Org!Owners(o) \ {u}
  BY <1>1, SetRowEffect
<1>3. /\ orgTxn' = [q \in Requests |-> orgTxn'[q]] /\ Finished(r) /\ Apart'
  BY FinishEffect
<1>4. /\ orgOverlapped' \in {orgOverlapped, orgOverlapped \cup {o}}
      /\ o \notin orgOverlapped' /\ u \in Org!Owners(o) => Org!OwnerTakers(r, o) = {}
  BY DEF Org!NoteOverlap
<1>5. OrgRows'
  BY <1>1, <1>2, <1>3, <1>4 DEF OrgRows
<1>6. Founded'
  BY <1>1, <1>2 DEF OrgInv, Founded
<1>7. Org!MembersConsented'
  <2>1. row # Org!NoRow /\ row.via # None =>
              /\ invitation'[row.via].state = "accepted"
              /\ invitation'[row.via].org = o
              /\ invitation'[row.via].user = u
    BY <1>1 DEF OrgInv, Org!MembersConsented, Org!Members
  <2>2. QED
    BY <1>1, <2>1, ConsentAfterRow
<1>8. OneOffer'
  BY DEF OrgInv, OneOffer, Org!Pending
<1>9. Spares(orgTxn[r])
  BY DEF OrgInv, Fits
<1>10. Org!OwnedUnlessOverlapped'
  <2>1. SUFFICES ASSUME NEW p \in created' \ orgOverlapped' PROVE Org!Owners(p)' # {}
    BY DEF Org!OwnedUnlessOverlapped
  <2>2. p \in Orgs /\ p \notin orgOverlapped /\ Org!Owners(p) # {}
    BY <1>4, <2>1 DEF OrgInv, OrgRows, Org!OwnedUnlessOverlapped
  <2>3. CASE p = o
    BY <1>2, <1>9, <2>2, <2>3 DEF Spares
  <2>4. CASE p # o
    BY <1>2, <2>2, <2>4
  <2>5. QED
    BY <2>3, <2>4
<1>11. ASSUME NEW q \in Requests \ {r}, orgTxn[q].org \in created,
              orgTxn[q].op \in {"role", "delete"}
       PROVE  Spares(orgTxn[q])'
  <2>1. PICK p, v : p \in Orgs /\ p = orgTxn[q].org /\ v = orgTxn[q].user
    BY <1>11 DEF OrgInv, OrgRows
  <2>2. Spares(orgTxn[q]) /\ orgTxn'[q] = orgTxn[q]
    BY <1>3, <1>11 DEF OrgInv, Fits, Finished
  <2>3. SUFFICES ASSUME p \notin orgOverlapped', v \in Org!Owners(p)'
                 PROVE  \E x \in Org!Owners(p)' : x # v
    BY <2>1, <2>2 DEF Spares
  <2>4. p \notin orgOverlapped /\ (v \in Org!Owners(p) => \E x \in Org!Owners(p) : x # v)
    BY <1>4, <2>1, <2>2, <2>3 DEF Spares
  <2>5. CASE p # o
    BY <1>2, <2>1, <2>3, <2>4, <2>5
  <2>6. CASE p = o /\ row.role # "owner"
    <3>1. v \in Org!Owners(o) /\ Org!Owners(o)' = Org!Owners(o) \ {u}
      BY <1>2, <2>3, <2>6
    <3>2. u \notin Org!Owners(o)
      <4>1. q \in Org!OwnerTakers(r, o)
        BY <1>11, <2>1, <2>6, <3>1 DEF Org!OwnerTakers
      <4>2. QED
        BY <1>4, <2>3, <2>6, <4>1
    <3>3. QED
      BY <2>4, <2>6, <3>1, <3>2
  <2>7. CASE p = o /\ row.role = "owner"
    <3>1. Org!Owners(o)' = Org!Owners(o) \cup {u}
      BY <1>2, <2>7
    <3>2. Org!Owners(o) # {}
      BY <2>4, <2>7 DEF OrgInv, Org!OwnedUnlessOverlapped
    <3>3. QED
      BY <2>3, <2>4, <2>7, <3>1, <3>2
  <2>8. QED
    BY <2>5, <2>6, <2>7
<1>12. \A q \in Requests : Fits(orgTxn[q])'
  BY <1>3, <1>11, OthersFit
<1>13. QED
  BY <1>3, <1>5, <1>6, <1>7, <1>8, <1>10, <1>12 DEF OrgInv

\* update_member_role
LEMMA RoleCommits ==
    ASSUME OrgInv, NEW r \in Requests, Org!CommitRole(r)
    PROVE  OrgInv'
<1>1. PICK o \in created, u \in Users : o = orgTxn[r].org /\ u = orgTxn[r].user
  BY DEF OrgInv, Fits, Org!CommitRole
<1>. DEFINE row == [role |-> orgTxn[r].role, via |-> orgTxn[r].via]
<1>2. /\ orgTxn[r].op = "role" /\ orgTxn[r].role \in Org!Roles
      /\ member[o][u] # Org!NoRow /\ orgTxn[r].via = member[o][u].via
      /\ Org!SetRow(o, u, row) /\ Org!NoteOverlap(r, o, u) /\ Org!Finish(r)
      /\ UNCHANGED <<created, invitation>>
  BY <1>1 DEF Org!CommitRole, Org!SameRow, OrgInv, Fits
<1>3. row \in Org!Membership /\ row.via = member[o][u].via
  BY <1>1, <1>2 DEF OrgInv, OrgRows, Org!Membership
<1>. HIDE DEF row
<1>4. QED
  BY <1>1, <1>2, <1>3, RowCommits

\* remove_member, leave_org
LEMMA DeleteCommits ==
    ASSUME OrgInv, NEW r \in Requests, Org!CommitDelete(r)
    PROVE  OrgInv'
<1>1. CASE Org!SameRow(orgTxn[r])
  <2>1. PICK o \in created, u \in Users : o = orgTxn[r].org /\ u = orgTxn[r].user
    BY DEF OrgInv, Fits, Org!CommitDelete
  <2>2. /\ orgTxn[r].op = "delete" /\ Org!SetRow(o, u, Org!NoRow) /\ Org!NoteOverlap(r, o, u)
        /\ Org!Finish(r) /\ UNCHANGED <<created, invitation>>
    BY <1>1, <2>1 DEF Org!CommitDelete
  <2>3. QED
    BY <2>1, <2>2, RowCommits
<1>2. CASE ~Org!SameRow(orgTxn[r])
  BY <1>2, EndPreserves DEF Org!CommitDelete
<1>3. QED
  BY <1>1, <1>2

\* invite_member
LEMMA InviteCommits ==
    ASSUME OrgInv, NEW r \in Requests, Org!CommitInvite(r)
    PROVE  OrgInv'
<1>1. PICK i \in Offers, o \in created, u \in Users, role \in {"member", "admin"} :
         /\ i = orgTxn[r].invitation /\ o = orgTxn[r].org
         /\ u = orgTxn[r].user /\ role = orgTxn[r].role
  BY DEF OrgInv, Fits, Org!CommitInvite
<1>. DEFINE offer == [state |-> "pending", expired |-> FALSE, org |-> o, user |-> u, role |-> role]
<1>2. /\ orgTxn[r].op = "invite" /\ invitation[i] = Org!NoInvitation
      /\ Org!Pending(o, u) = {} /\ invitation' = [invitation EXCEPT ![i] = offer]
      /\ Org!Finish(r) /\ UNCHANGED <<created, member, orgOverlapped>>
  BY <1>1 DEF Org!CommitInvite, Org!NonePending, OrgInv, Fits
<1>3. o \in Orgs /\ offer \in Offered
  BY DEF OrgInv, OrgRows, Offered
<1>4. /\ invitation' \in [Offers -> Offered \cup {Org!NoInvitation}]
      /\ invitation'[i] = offer
      /\ \A j \in Offers \ {i} : invitation'[j] = invitation[j]
  BY <1>2, <1>3 DEF OrgInv, OrgRows
<1>5. /\ orgTxn' = [q \in Requests |-> orgTxn'[q]] /\ Finished(r) /\ Apart'
  BY <1>2, FinishEffect
<1>6. OrgRows'
  BY <1>2, <1>4, <1>5 DEF OrgInv, OrgRows
<1>7. Founded'
  BY <1>2, <1>4 DEF OrgInv, Founded, Org!Members
<1>8. Org!MembersConsented'
  <2>1. \A p \in Orgs : \A v \in Org!Members(p) :
           member[p][v].via # None => member[p][v].via \in Offers \ {i}
    BY <1>2 DEF OrgInv, OrgRows, Org!Membership, Org!Members, Org!MembersConsented, Org!NoInvitation
  <2>2. Org!Members(o) = Org!Members(o)' /\ \A p : Org!Members(p)' = Org!Members(p)
    BY <1>2 DEF Org!Members
  <2>3. QED
    BY <1>2, <1>4, <2>1, <2>2 DEF OrgInv, Org!MembersConsented
<1>9. OneOffer'
  <2>1. \A p \in Orgs, v \in Users : p # o \/ v # u => Org!Pending(p, v)' = Org!Pending(p, v)
    BY <1>2, <1>4 DEF Org!Pending, Org!NoInvitation
  <2>2. Org!Pending(o, u)' = {i}
    BY <1>2, <1>4 DEF Org!Pending
  <2>3. QED
    BY <2>1, <2>2 DEF OrgInv, OneOffer
<1>10. Org!OwnedUnlessOverlapped'
  BY <1>2 DEF OrgInv, Org!OwnedUnlessOverlapped, Org!Owners
<1>11. \A q \in Requests : Fits(orgTxn[q])'
  <2>1. \A q \in Requests \ {r} :
          orgTxn[q].op \in {"role", "delete"} => Spares(orgTxn[q])'
    BY <1>2, <1>5 DEF OrgInv, Fits, Spares, Org!Owners, Finished
  <2>2. \A q \in Requests \ {r} :
          orgTxn[q].op \in {"invite", "answer"} =>
             orgTxn[q].invitation \in Offers \ {i}
    BY <1>1, <1>2 DEF OrgInv, Fits, Apart, Collide, Org!NoInvitation
  <2>3. QED
    BY <1>2, <1>4, <1>5, <2>1, <2>2, OthersFit
<1>12. QED
  BY <1>5, <1>6, <1>7, <1>8, <1>9, <1>10, <1>11 DEF OrgInv

\* _claim_invitation, revoke_invitation: the invitation was pending, so nobody
\* is a member through it yet.
LEMMA AnswerCommits ==
    ASSUME OrgInv, NEW r \in Requests, Org!CommitAnswer(r)
    PROVE  OrgInv'
<1>1. PICK i \in Offers, state \in {"accepted", "refused"}, join \in BOOLEAN :
         i = orgTxn[r].invitation /\ state = orgTxn[r].state /\ join = orgTxn[r].join
  BY DEF OrgInv, Fits, Org!CommitAnswer
<1>. DEFINE offer == invitation[i]
            answered == [invitation[i] EXCEPT !.state = state]
<1>2. /\ orgTxn[r].op = "answer" /\ invitation[i].state = "pending"
      /\ join => state = "accepted"
  BY <1>1 DEF Org!CommitAnswer, OrgInv, Fits
<1>3. /\ invitation' = [invitation EXCEPT ![i] = answered]
      /\ join => offer.user \notin Org!Members(offer.org)
      /\ join => Org!SetRow(offer.org, offer.user, [role |-> offer.role, via |-> i])
      /\ ~join => UNCHANGED member
      /\ Org!Finish(r) /\ UNCHANGED <<created, orgOverlapped>>
  BY <1>1 DEF Org!CommitAnswer
<1>4. offer \in Offered /\ offer.org \in created
  BY <1>2 DEF OrgInv, OrgRows, Founded, Org!NoInvitation
<1>5. PICK o \in created, u \in Users, role \in {"member", "admin"} :
         o = offer.org /\ u = offer.user /\ role = offer.role
  BY <1>4 DEF Offered
<1>6. /\ answered \in Offered /\ answered # Org!NoInvitation
      /\ answered.state = state /\ answered.org = o /\ answered.user = u
  BY <1>4, <1>5 DEF Offered, Org!NoInvitation
<1>7. /\ invitation' \in [Offers -> Offered \cup {Org!NoInvitation}]
      /\ invitation'[i] = answered
      /\ \A j \in Offers \ {i} : invitation'[j] = invitation[j]
  BY <1>3, <1>6 DEF OrgInv, OrgRows
<1>. DEFINE row == [role |-> role, via |-> i]
<1>8. row \in Org!Membership /\ row # Org!NoRow /\ row.role # "owner" /\ row.via = i /\ o \in Orgs
  BY DEF Org!Membership, Org!Roles, Org!NoRow, OrgInv, OrgRows
<1>9. join => Org!SetRow(o, u, row) /\ u \notin Org!Members(o)
  BY <1>3, <1>5
<1>. HIDE DEF row, answered
<1>10. \A j \in Offers : invitation[j].state = "accepted" => invitation'[j] = invitation[j]
  BY <1>2, <1>7
<1>11. /\ member' \in [Orgs -> [Users -> Org!Membership \cup {Org!NoRow}]]
       /\ \A p \in Orgs : Org!Owners(p)' = Org!Owners(p)
       /\ \A p \in Orgs \ {o} : Org!Members(p)' = Org!Members(p)
       /\ Org!MembersConsented'
  <2>1. CASE join
    <3>1. /\ member' \in [Orgs -> [Users -> Org!Membership \cup {Org!NoRow}]]
          /\ \A p \in Orgs \ {o} :
                Org!Owners(p)' = Org!Owners(p) /\ Org!Members(p)' = Org!Members(p)
          /\ Org!Owners(o)' = Org!Owners(o) \ {u}
      BY <1>8, <1>9, <2>1, SetRowEffect DEF OrgInv
    <3>2. u \notin Org!Owners(o)
      BY <1>9, <2>1 DEF Org!Owners, Org!Members, Org!NoRow
    <3>3. Org!MembersConsented'
      BY <1>2, <1>6, <1>7, <1>8, <1>9, <1>10, <2>1, ConsentAfterRow
    <3>4. QED
      BY <3>1, <3>2, <3>3
  <2>2. CASE ~join
    <3>1. member' = member
      BY <1>3, <2>2
    <3>2. \A p : Org!Owners(p)' = Org!Owners(p) /\ Org!Members(p)' = Org!Members(p)
      BY <3>1 DEF Org!Owners, Org!Members
    <3>3. Org!MembersConsented'
      <4>1. \A p \in Orgs : \A v \in Org!Members(p) :
               member[p][v].via # None => member[p][v].via \in Offers
        BY DEF OrgInv, OrgRows, Org!Membership, Org!Members
      <4>2. QED
        BY <1>10, <3>1, <3>2, <4>1 DEF OrgInv, Org!MembersConsented
    <3>4. QED
      BY <3>1, <3>2, <3>3 DEF OrgInv, OrgRows
  <2>3. QED
    BY <2>1, <2>2
<1>12. /\ orgTxn' = [q \in Requests |-> orgTxn'[q]] /\ Finished(r) /\ Apart'
  BY <1>3, FinishEffect
<1>13. OrgRows'
  BY <1>3, <1>7, <1>11, <1>12 DEF OrgInv, OrgRows
<1>14. Founded'
  BY <1>3, <1>6, <1>7, <1>11 DEF OrgInv, Founded
<1>15. OneOffer'
  <2>1. \A p \in Orgs, v \in Users : Org!Pending(p, v)' \subseteq Org!Pending(p, v)
    BY <1>2, <1>6, <1>7 DEF Org!Pending
  <2>2. QED
    BY <2>1 DEF OrgInv, OneOffer
<1>16. Org!OwnedUnlessOverlapped'
  BY <1>3, <1>11 DEF OrgInv, OrgRows, Org!OwnedUnlessOverlapped
<1>17. \A q \in Requests : Fits(orgTxn[q])'
  <2>1. ASSUME NEW q \in Requests \ {r},
               orgTxn[q].op \in {"role", "delete"}, orgTxn[q].org \in created
        PROVE  Spares(orgTxn[q])'
    <3>1. PICK p, v : p \in Orgs /\ p = orgTxn[q].org /\ v = orgTxn[q].user
      BY <2>1 DEF OrgInv, OrgRows
    <3>2. Spares(orgTxn[q]) /\ orgTxn'[q] = orgTxn[q] /\ Org!Owners(p)' = Org!Owners(p)
      BY <1>11, <1>12, <2>1, <3>1 DEF OrgInv, Fits, Finished
    <3>3. QED
      BY <1>3, <3>1, <3>2 DEF Spares
  <2>2. \A q \in Requests \ {r} :
          orgTxn[q].op \in {"invite", "answer"} => orgTxn[q].invitation \in Offers \ {i}
    BY <1>1, <1>2 DEF OrgInv, Fits, Apart, Collide, Org!NoInvitation
  <2>3. QED
    BY <1>3, <1>7, <1>12, <2>1, <2>2, OthersFit
<1>18. QED
  BY <1>11, <1>12, <1>13, <1>14, <1>15, <1>16, <1>17 DEF OrgInv

\* The time an invitation stands for passes: who it is for stays.
LEMMA ExpirePreserves ==
    ASSUME OrgInv, NEW i \in Offers, Org!Expire(i)
    PROVE  OrgInv'
<1>. DEFINE late == [invitation[i] EXCEPT !.expired = TRUE]
<1>1. /\ invitation[i].state = "pending" /\ invitation' = [invitation EXCEPT ![i] = late]
      /\ UNCHANGED <<created, member, orgTxn, orgOverlapped>>
  BY DEF Org!Expire
<1>2. invitation[i] \in Offered
  BY <1>1 DEF OrgInv, OrgRows, Org!NoInvitation
<1>3. /\ late \in Offered /\ late # Org!NoInvitation /\ late.state = "pending"
      /\ late.org = invitation[i].org /\ late.user = invitation[i].user
  BY <1>1, <1>2 DEF Offered, Org!NoInvitation
<1>4. /\ invitation' \in [Offers -> Offered \cup {Org!NoInvitation}]
      /\ invitation'[i] = late
      /\ \A j \in Offers \ {i} : invitation'[j] = invitation[j]
  BY <1>1, <1>3 DEF OrgInv, OrgRows
<1>. HIDE DEF late
<1>5. OrgRows' /\ Apart'
  BY <1>1, <1>4 DEF OrgInv, OrgRows, Apart, Collide
<1>6. Founded'
  <2>1. \A o \in Orgs \ created' : Org!Members(o)' = {}
    BY <1>1 DEF OrgInv, Founded, Org!Members
  <2>2. invitation[i].org \in created
    BY <1>1 DEF OrgInv, Founded, Org!NoInvitation
  <2>3. \A j \in Offers : invitation'[j] # Org!NoInvitation => invitation'[j].org \in created'
    BY <1>1, <1>3, <1>4, <2>2 DEF OrgInv, Founded
  <2>4. QED
    BY <2>1, <2>3 DEF Founded
<1>7. Org!MembersConsented'
  <2>1. \A p \in Orgs : \A v \in Org!Members(p) :
           member[p][v].via # None => member[p][v].via \in Offers \ {i}
    BY <1>1 DEF OrgInv, OrgRows, Org!Membership, Org!Members, Org!MembersConsented
  <2>2. \A p : Org!Members(p)' = Org!Members(p)
    BY <1>1 DEF Org!Members
  <2>3. QED
    BY <1>1, <1>4, <2>1, <2>2 DEF OrgInv, Org!MembersConsented
<1>8. OneOffer' /\ Org!OwnedUnlessOverlapped'
  <2>1. \A p \in Orgs, v \in Users : Org!Pending(p, v)' = Org!Pending(p, v)
    BY <1>1, <1>3, <1>4 DEF Org!Pending
  <2>2. QED
    BY <1>1, <2>1 DEF OrgInv, OneOffer, Org!OwnedUnlessOverlapped, Org!Owners
<1>9. \A q \in Requests : Fits(orgTxn[q])'
  <2>1. \A w : Spares(w) => Spares(w)'
    BY <1>1 DEF Spares, Org!Owners
  <2>2. \A w : Fits(w) => Fits(w)'
    BY <1>1, <1>3, <1>4, <2>1 DEF Fits, Org!NoInvitation
  <2>3. QED
    BY <1>1, <2>2 DEF OrgInv
<1>10. QED
  BY <1>5, <1>6, <1>7, <1>8, <1>9 DEF OrgInv

-----------------------------------------------------------------------------
LEMMA OrgStep == ASSUME OrgInv, [Org!Next]_orgVars PROVE OrgInv'
<1>1. ASSUME NEW r \in Requests, Org!Commit(r) PROVE OrgInv'
  BY <1>1, CreateCommits, RoleCommits, DeleteCommits, InviteCommits, AnswerCommits DEF Org!Commit
<1>2. ASSUME NEW r \in Requests, Org!Rollback(r) PROVE OrgInv'
  BY <1>2, EndPreserves DEF Org!Rollback
<1>3. CASE UNCHANGED orgVars
  <2>1. /\ created' = created /\ member' = member /\ invitation' = invitation
        /\ orgTxn' = orgTxn /\ orgOverlapped' = orgOverlapped
    BY <1>3 DEF orgVars
  <2>2. (\A q \in Requests : Fits(orgTxn[q])') /\ Apart' /\ OneOffer'
    BY <2>1 DEF OrgInv, Fits, Spares, Org!Owners, Apart, Collide, OneOffer, Org!Pending
  <2>3. QED
    BY <2>1, <2>2 DEF OrgInv, OrgRows, Founded, Org!MembersConsented, Org!OwnedUnlessOverlapped,
       Org!Members, Org!Owners
<1>4. QED
  BY <1>1, <1>2, <1>3, TeamPreserves, RespondPreserves, ExpirePreserves DEF Org!Next

LEMMA OrgOneOffer == ASSUME OrgInv PROVE Org!OneOfferAtATime
<1>1. SUFFICES ASSUME NEW o \in Orgs, NEW u \in Users
               PROVE  Cardinality(Org!Pending(o, u)) <= 1
  BY SameCardinality DEF Org!OneOfferAtATime
<1>2. CASE Org!Pending(o, u) = {}
  BY <1>2, FS_EmptySet
<1>3. CASE Org!Pending(o, u) # {}
  <2>1. PICK i : Org!Pending(o, u) = {i}
    BY <1>3 DEF OrgInv, OneOffer
  <2>2. Cardinality(Org!Pending(o, u)) = 1
    BY <2>1, FS_Singleton
  <2>3. QED
    BY <2>2
<1>4. QED
  BY <1>2, <1>3

LEMMA OrgTyped == ASSUME OrgInv PROVE Org!TypeOK
<1>1. \A i \in Offers : invitation[i].state \in {"none", "pending", "accepted", "refused"}
  BY DEF OrgInv, OrgRows, Offered, Org!NoInvitation
<1>2. \A r \in Requests :
         orgTxn[r].op \in {"idle", "create", "role", "delete", "invite", "answer"}
  BY DEF OrgInv, Fits
<1>3. QED
  BY <1>1, <1>2 DEF OrgInv, OrgRows, Org!TypeOK

LEMMA OrgPromises ==
    ASSUME OrgInv
    PROVE  /\ Org!TypeOK /\ Org!MembersConsented
           /\ Org!OneOfferAtATime /\ Org!OwnedUnlessOverlapped
BY OrgTyped, OrgOneOffer DEF OrgInv

-----------------------------------------------------------------------------
(* Sign-in and sessions.                                                   *)

LEMMA SignAssumed == Sign!SignInAssumption
BY AccountsAssumption

\* s was issued for n: a nonce signed, or the session it replaced.
IssuedFor(s, n) == session[s] # Sign!NoSession /\ session[s].from = n

\* What an open request has loaded is still what it relies on: the nonce it
\* holds is unspent, and an account once paid somewhere still is.
Pending(r) ==
    /\ signInTxn[r].op = "sign_in" =>
          /\ signInTxn[r].nonce \in Offers /\ signInTxn[r].owner \in Addresses
          /\ signInTxn[r].chain \in Users
          /\ nonce[signInTxn[r].nonce].state = "issued"
          /\ nonce[signInTxn[r].nonce].bound \in {signInTxn[r].owner, None}
          /\ signInTxn[r].payout \/ Sign!PayoutWallets(signInTxn[r].owner) # {}
    /\ signInTxn[r].op = "refresh" =>
          signInTxn[r].session \in Rows /\ session[signInTxn[r].session] # Sign!NoSession
    /\ signInTxn[r].op = "suspend" => signInTxn[r].owner \in Addresses

TxnsPending ==
    /\ signInTxn = [r \in Requests |-> signInTxn[r]]
    /\ \A r \in Requests : Pending(r)

\* The row lock of the conditional UPDATE.
OneSpender ==
    \A q, r \in Requests :
        /\ signInTxn[q].op = "sign_in" /\ signInTxn[r].op = "sign_in"
        /\ signInTxn[q].nonce = signInTxn[r].nonce
        => q = r

OneHeir ==
    \A n \in Offers :
        /\ \A s, t \in Rows : IssuedFor(s, n) /\ IssuedFor(t, n) => s = t
        /\ (\E s \in Rows : IssuedFor(s, n)) <=> nonce[n].state = "consumed"
        /\ \A s \in Rows : IssuedFor(s, n) => nonce[n].bound \in {session[s].owner, None}

\* Exactly one, without counting.
OnePaid ==
    \A a \in Addresses :
        /\ Sign!Wallets(a) # {} => Sign!PayoutWallets(a) # {}
        /\ \A c, d \in Sign!PayoutWallets(a) : c = d

SignInv == Sign!TypeOK /\ TxnsPending /\ OneSpender /\ OneHeir /\ OnePaid

-----------------------------------------------------------------------------
(* Records.                                                                *)

LEMMA SessionFacts ==
    /\ Sign!NoSession.state = "none"
    /\ \A x \in Sign!Session : x # Sign!NoSession /\ x.state # "none"
    /\ \A x \in Sign!Session \cup {Sign!NoSession} : x.state = "none" <=> x = Sign!NoSession
<1>1. Sign!NoSession.state = "none"
  BY DEF Sign!NoSession
<1>2. \A x \in Sign!Session : x.state # "none"
  BY DEF Sign!Session, Sign!Reasons
<1>3. QED
  BY <1>1, <1>2

LEMMA IssuedSession ==
    ASSUME NEW s, NEW a \in Addresses, NEW f \in Offers \cup Rows
    PROVE  /\ Sign!Issued(s, a, f) \in Sign!Session
           /\ Sign!Issued(s, a, f).owner = a /\ Sign!Issued(s, a, f).from = f
           /\ Sign!Issued(s, a, f).state = "live"
BY DEF Sign!Issued, Sign!Session

\* What ending a session, or letting it expire, leaves as it was.
Kept ==
    /\ session' \in [Rows -> Sign!Session \cup {Sign!NoSession}]
    /\ \A s \in Rows :
          /\ session'[s] = Sign!NoSession <=> session[s] = Sign!NoSession
          /\ session[s] # Sign!NoSession =>
                session'[s].owner = session[s].owner /\ session'[s].from = session[s].from
          /\ session'[s].state = "live" => session[s].state = "live"

LEMMA RevokingKeeps ==
    ASSUME Sign!TypeOK, NEW a \in Addresses, NEW reason \in Sign!Reasons,
           session' = Sign!RevokeAll(a, reason)
    PROVE  Kept
<1>1. SUFFICES ASSUME NEW s \in Rows
               PROVE  /\ session'[s] \in Sign!Session \cup {Sign!NoSession}
                      /\ session'[s] = Sign!NoSession <=> session[s] = Sign!NoSession
                      /\ session[s] # Sign!NoSession =>
                            session'[s].owner = session[s].owner
                            /\ session'[s].from = session[s].from
                      /\ session'[s].state = "live" => session[s].state = "live"
  BY DEF Kept, Sign!RevokeAll
<1>2. session[s] \in Sign!Session \cup {Sign!NoSession}
  BY DEF Sign!TypeOK
<1>3. CASE s \in Sign!Live(a)
  <2>1. session[s] \in Sign!Session
    BY <1>2, <1>3 DEF Sign!Live, Sign!SessionsOf
  <2>2. session'[s] = [session[s] EXCEPT !.state = reason]
    BY <1>3 DEF Sign!RevokeAll
  <2>3. /\ session'[s] \in Sign!Session
        /\ session'[s].owner = session[s].owner /\ session'[s].from = session[s].from
    BY <2>1, <2>2 DEF Sign!Session
  <2>4. session[s].state = "live"
    BY <1>3 DEF Sign!Live
  <2>5. QED
    BY <2>1, <2>3, <2>4, SessionFacts
<1>4. CASE s \notin Sign!Live(a)
  <2>1. session'[s] = session[s]
    BY <1>4 DEF Sign!RevokeAll
  <2>2. QED
    BY <1>2, <2>1
<1>5. QED
  BY <1>3, <1>4

LEMMA EndingKeeps ==
    ASSUME Sign!TypeOK, NEW s \in Rows, session[s].state = "live",
           \/ session' = [session EXCEPT ![s].state = "logout"]
           \/ session' = [session EXCEPT ![s].expired = TRUE]
    PROVE  Kept
<1>1. session[s] \in Sign!Session
  BY SessionFacts DEF Sign!TypeOK
<1>2. /\ session'[s] \in Sign!Session
      /\ session'[s].owner = session[s].owner /\ session'[s].from = session[s].from
  <2>1. CASE session' = [session EXCEPT ![s].state = "logout"]
    <3>1. session'[s] = [session[s] EXCEPT !.state = "logout"]
      BY <2>1 DEF Sign!TypeOK
    <3>2. QED
      BY <1>1, <3>1 DEF Sign!Session, Sign!Reasons
  <2>2. CASE session' = [session EXCEPT ![s].expired = TRUE]
    <3>1. session'[s] = [session[s] EXCEPT !.expired = TRUE]
      BY <2>2 DEF Sign!TypeOK
    <3>2. QED
      BY <1>1, <3>1 DEF Sign!Session
  <2>3. QED
    BY <2>1, <2>2
<1>3. \A t \in Rows \ {s} : session'[t] = session[t]
  BY DEF Sign!TypeOK
<1>4. session' \in [Rows -> Sign!Session \cup {Sign!NoSession}]
  <2>1. session' = [t \in Rows |-> session'[t]]
    BY DEF Sign!TypeOK
  <2>2. \A t \in Rows : session'[t] \in Sign!Session \cup {Sign!NoSession}
    BY <1>2, <1>3 DEF Sign!TypeOK
  <2>3. QED
    BY <2>1, <2>2
<1>5. QED
  BY <1>1, <1>2, <1>3, <1>4, SessionFacts DEF Kept

-----------------------------------------------------------------------------
(* Parts of the invariant that an action leaves alone.                     *)

LEMMA KeptHeirs ==
    ASSUME OneHeir, Kept, UNCHANGED nonce
    PROVE  OneHeir'
<1>1. \A s \in Rows, n \in Offers : IssuedFor(s, n)' <=> IssuedFor(s, n)
  BY DEF Kept, IssuedFor
<1>2. \A s \in Rows, n \in Offers : IssuedFor(s, n) => session'[s].owner = session[s].owner
  BY DEF Kept, IssuedFor
<1>3. QED
  BY <1>1, <1>2 DEF OneHeir

\* A request that stays open, over sessions that are kept.
LEMMA KeptPending ==
    ASSUME NEW r \in Requests, Pending(r), signInTxn'[r] = signInTxn[r],
           UNCHANGED <<nonce, wallet>>,
           \A s \in Rows : session[s] # Sign!NoSession => session'[s] # Sign!NoSession
    PROVE  Pending(r)'
BY DEF Pending, Sign!PayoutWallets

\* A request that ends, or begins to do anything but sign in.
LEMMA OneTxn ==
    ASSUME TxnsPending, OneSpender, NEW r \in Requests, NEW write,
           signInTxn' = [signInTxn EXCEPT ![r] = write], write.op # "sign_in",
           \A q \in Requests \ {r} : Pending(q)', Pending(r)'
    PROVE  TxnsPending' /\ OneSpender'
<1>1. /\ signInTxn'[r] = write /\ \A q \in Requests \ {r} : signInTxn'[q] = signInTxn[q]
      /\ signInTxn' = [q \in Requests |-> signInTxn'[q]]
  BY DEF TxnsPending
<1>2. TxnsPending'
  BY <1>1 DEF TxnsPending
<1>3. OneSpender'
  BY <1>1 DEF OneSpender
<1>4. QED
  BY <1>2, <1>3

\* Only the sessions change, and they are kept.
LEMMA SessionsOnly ==
    ASSUME SignInv, Kept, UNCHANGED <<nonce, user, wallet, signInTxn>>
    PROVE  SignInv'
<1>1. Sign!TypeOK'
  BY DEF SignInv, Sign!TypeOK, Kept
<1>2. TxnsPending'
  <2>1. \A r \in Requests : Pending(r)'
    BY KeptPending DEF SignInv, TxnsPending, Kept
  <2>2. QED
    BY <2>1 DEF SignInv, TxnsPending
<1>3. OneSpender'
  BY DEF SignInv, OneSpender
<1>4. OneHeir'
  BY KeptHeirs DEF SignInv
<1>5. OnePaid'
  BY DEF SignInv, OnePaid, Sign!Wallets, Sign!PayoutWallets
<1>6. QED
  BY <1>1, <1>2, <1>3, <1>4, <1>5 DEF SignInv

\* A request ends without writing.
LEMMA Ending ==
    ASSUME SignInv, NEW r \in Requests, Sign!Finish(r), Kept, UNCHANGED <<nonce, wallet>>,
           user' \in [Addresses -> Sign!Statuses \cup {"absent"}]
    PROVE  SignInv'
<1>1. Sign!TypeOK'
  BY DEF SignInv, Sign!TypeOK, Kept
<1>2. signInTxn' = [signInTxn EXCEPT ![r] = Sign!Idle] /\ signInTxn'[r] = Sign!Idle
      /\ \A q \in Requests \ {r} : signInTxn'[q] = signInTxn[q]
  BY DEF Sign!Finish, SignInv, TxnsPending
<1>3. \A q \in Requests \ {r} : Pending(q)'
  BY <1>2, KeptPending DEF SignInv, TxnsPending, Kept
<1>4. Pending(r)'
  BY <1>2 DEF Pending, Sign!Idle
<1>5. TxnsPending' /\ OneSpender'
  <2>1. Sign!Idle.op # "sign_in"
    BY DEF Sign!Idle
  <2>2. QED
    BY <1>2, <1>3, <1>4, <2>1, OneTxn DEF SignInv
<1>6. OneHeir'
  BY KeptHeirs DEF SignInv
<1>7. OnePaid'
  BY DEF SignInv, OnePaid, Sign!Wallets, Sign!PayoutWallets
<1>8. QED
  BY <1>1, <1>5, <1>6, <1>7 DEF SignInv

LEMMA NothingKept == ASSUME Sign!TypeOK, UNCHANGED session PROVE Kept
BY DEF Sign!TypeOK, Kept

-----------------------------------------------------------------------------
(* The actions.                                                            *)

LEMMA IssueNoncePreserves ==
    ASSUME SignInv, NEW n \in Offers, NEW bound \in Addresses \cup {None}, Sign!IssueNonce(n, bound)
    PROVE  SignInv'
<1>1. /\ nonce[n] = Sign!NoNonce /\ UNCHANGED <<user, wallet, session, signInTxn>>
      /\ nonce' = [nonce EXCEPT ![n] = [Sign!NoNonce EXCEPT !.state = "issued", !.bound = bound]]
  BY DEF Sign!IssueNonce
<1>2. /\ nonce[n].state = "none" /\ nonce'[n].state = "issued"
      /\ \A m \in Offers \ {n} : nonce'[m] = nonce[m]
  BY <1>1 DEF Sign!NoNonce, SignInv, Sign!TypeOK
<1>3. Sign!TypeOK'
  <2>1. [Sign!NoNonce EXCEPT !.state = "issued", !.bound = bound] \in Sign!Nonce
    BY DEF Sign!NoNonce, Sign!Nonce
  <2>2. QED
    BY <1>1, <2>1 DEF SignInv, Sign!TypeOK
<1>4. \A r \in Requests : Pending(r)'
  BY <1>1, <1>2 DEF SignInv, TxnsPending, Pending, Sign!PayoutWallets
<1>5. TxnsPending' /\ OneSpender' /\ OnePaid'
  BY <1>1, <1>4 DEF SignInv, TxnsPending, OneSpender, OnePaid, Sign!Wallets, Sign!PayoutWallets
<1>6. OneHeir'
  BY <1>1, <1>2 DEF SignInv, OneHeir, IssuedFor
<1>7. QED
  BY <1>3, <1>5, <1>6 DEF SignInv

LEMMA ExpireNoncePreserves ==
    ASSUME SignInv, NEW n \in Offers, Sign!ExpireNonce(n)
    PROVE  SignInv'
<1>1. /\ UNCHANGED <<user, wallet, session, signInTxn>>
      /\ nonce' = [nonce EXCEPT ![n].expired = TRUE]
  BY DEF Sign!ExpireNonce
<1>2. nonce[n] \in Sign!Nonce /\ nonce'[n] = [nonce[n] EXCEPT !.expired = TRUE]
  BY <1>1 DEF SignInv, Sign!TypeOK
<1>3. /\ nonce' \in [Offers -> Sign!Nonce]
      /\ \A m \in Offers : nonce'[m].state = nonce[m].state /\ nonce'[m].bound = nonce[m].bound
  <2>1. /\ nonce'[n] \in Sign!Nonce /\ nonce'[n].state = nonce[n].state
        /\ nonce'[n].bound = nonce[n].bound
    BY <1>2 DEF Sign!Nonce
  <2>2. QED
    BY <1>1, <2>1 DEF SignInv, Sign!TypeOK
<1>4. Sign!TypeOK'
  BY <1>1, <1>3 DEF SignInv, Sign!TypeOK
<1>5. \A r \in Requests : Pending(r)'
  BY <1>1, <1>3 DEF SignInv, TxnsPending, Pending, Sign!PayoutWallets
<1>6. TxnsPending' /\ OneSpender' /\ OnePaid'
  BY <1>1, <1>5 DEF SignInv, TxnsPending, OneSpender, OnePaid, Sign!Wallets, Sign!PayoutWallets
<1>7. OneHeir'
  BY <1>1, <1>3 DEF SignInv, OneHeir, IssuedFor
<1>8. QED
  BY <1>4, <1>6, <1>7 DEF SignInv

LEMMA SignInPreserves ==
    ASSUME SignInv, NEW r \in Requests, NEW n \in Offers, NEW a \in Addresses, NEW c \in Users,
           Sign!SignIn(r, n, a, c)
    PROVE  SignInv'
<1>. DEFINE write == [op |-> "sign_in", nonce |-> n, owner |-> a, chain |-> c,
                      registers |-> user[a] = "absent",
                      restores |-> user[a] = "suspended_by_user",
                      links |-> wallet[a][c] = "none",
                      payout |-> Sign!FirstToBePaid(a)]
<1>1. /\ nonce[n].state = "issued" /\ Sign!Spending(n) = {} /\ nonce[n].bound \in {a, None}
      /\ signInTxn' = [signInTxn EXCEPT ![r] = write]
      /\ UNCHANGED <<nonce, user, wallet, session>>
  BY DEF Sign!SignIn, Sign!Spendable, Sign!Begin
<1>2. /\ signInTxn'[r] = write /\ \A q \in Requests \ {r} : signInTxn'[q] = signInTxn[q]
      /\ signInTxn' = [q \in Requests |-> signInTxn'[q]]
  BY <1>1 DEF SignInv, TxnsPending
<1>3. /\ write.op = "sign_in" /\ write.nonce = n /\ write.owner = a /\ write.chain = c
      /\ write.payout \/ Sign!PayoutWallets(a) # {}
  BY DEF Sign!FirstToBePaid
<1>. HIDE DEF write
<1>4. Sign!TypeOK'
  BY <1>1 DEF SignInv, Sign!TypeOK
<1>5. \A q \in Requests \ {r} : Pending(q)'
  BY <1>1, <1>2, KeptPending DEF SignInv, TxnsPending
<1>6. Pending(r)'
  BY <1>1, <1>2, <1>3 DEF Pending, Sign!PayoutWallets
<1>7. TxnsPending'
  BY <1>2, <1>5, <1>6 DEF TxnsPending
<1>8. OneSpender'
  <2>1. \A q \in Requests \ {r} : ~(signInTxn[q].op = "sign_in" /\ signInTxn[q].nonce = n)
    BY <1>1 DEF Sign!Spending
  <2>2. QED
    BY <1>2, <1>3, <2>1 DEF SignInv, OneSpender
<1>9. OneHeir' /\ OnePaid'
  BY <1>1 DEF SignInv, OneHeir, IssuedFor, OnePaid, Sign!Wallets, Sign!PayoutWallets
<1>10. QED
  BY <1>4, <1>7, <1>8, <1>9 DEF SignInv

\* Beginning a rotation, or a suspension.
LEMMA SignBeginPreserves ==
    ASSUME SignInv, NEW r \in Requests, NEW write, Sign!Begin(r, write), write.op # "sign_in",
           write.op = "refresh" =>
              write.session \in Rows /\ session[write.session] # Sign!NoSession,
           write.op = "suspend" => write.owner \in Addresses
    PROVE  SignInv'
<1>1. /\ signInTxn' = [signInTxn EXCEPT ![r] = write]
      /\ UNCHANGED <<nonce, user, wallet, session>>
  BY DEF Sign!Begin
<1>2. /\ signInTxn'[r] = write /\ \A q \in Requests \ {r} : signInTxn'[q] = signInTxn[q]
  BY <1>1 DEF SignInv, TxnsPending
<1>3. Sign!TypeOK'
  BY <1>1 DEF SignInv, Sign!TypeOK
<1>4. \A q \in Requests \ {r} : Pending(q)'
  BY <1>1, <1>2, KeptPending DEF SignInv, TxnsPending
<1>5. Pending(r)'
  BY <1>1, <1>2 DEF Pending
<1>6. TxnsPending' /\ OneSpender'
  BY <1>1, <1>4, <1>5, OneTxn DEF SignInv
<1>7. OneHeir' /\ OnePaid'
  BY <1>1 DEF SignInv, OneHeir, IssuedFor, OnePaid, Sign!Wallets, Sign!PayoutWallets
<1>8. QED
  BY <1>3, <1>6, <1>7 DEF SignInv

LEMMA RefreshPreserves ==
    ASSUME SignInv, NEW r \in Requests, NEW s \in Rows, Sign!Refresh(r, s)
    PROVE  SignInv'
<1>. DEFINE write == [op |-> "refresh", session |-> s]
<1>1. write.op = "refresh" /\ write.session = s
  OBVIOUS
<1>2. Sign!Begin(r, write) /\ session[s] # Sign!NoSession
  BY SessionFacts DEF Sign!Refresh, Sign!Rotatable
<1>. HIDE DEF write
<1>3. QED
  BY <1>1, <1>2, SignBeginPreserves

LEMMA SuspendPreserves ==
    ASSUME SignInv, NEW r \in Requests, NEW s \in Rows, Sign!Suspend(r, s)
    PROVE  SignInv'
<1>. DEFINE a == session[s].owner
            write == [op |-> "suspend", owner |-> a, sets |-> user[a] # "suspended_by_user"]
<1>1. write.op = "suspend" /\ write.owner = a
  OBVIOUS
<1>2. Sign!Begin(r, write)
  BY DEF Sign!Suspend
<1>3. a \in Addresses
  <2>1. session[s] \in Sign!Session
    BY SessionFacts DEF Sign!Suspend, Sign!SignedIn, SignInv, Sign!TypeOK
  <2>2. QED
    BY <2>1 DEF Sign!Session
<1>. HIDE DEF write
<1>4. QED
  BY <1>1, <1>2, <1>3, SignBeginPreserves

\* Issuing a session for the nonce that a sign-in holds.
LEMMA CommitSignInPreserves ==
    ASSUME Sign!SignInAssumption, SignInv, NEW r \in Requests, NEW s \in Rows,
           Sign!CommitSignIn(r, s)
    PROVE  SignInv'
<1>. DEFINE w == signInTxn[r]
<1>1. PICK n \in Offers, a \in Addresses, c \in Users :
          /\ n = w.nonce /\ a = w.owner /\ c = w.chain
          /\ nonce[n].state = "issued" /\ nonce[n].bound \in {a, None}
          /\ w.payout \/ Sign!PayoutWallets(a) # {}
  BY DEF Sign!CommitSignIn, SignInv, TxnsPending, Pending
<1>2. /\ w.op = "sign_in" /\ Sign!Insertable(w) /\ session[s] = Sign!NoSession
      /\ nonce' = [nonce EXCEPT ![n].state = "consumed"]
      /\ user' = IF w.registers \/ w.restores THEN [user EXCEPT ![a] = "active"] ELSE user
      /\ wallet' = IF w.links
                   THEN [wallet EXCEPT ![a][c] = IF w.payout THEN "payout" ELSE "plain"]
                   ELSE wallet
      /\ session' = [session EXCEPT ![s] = Sign!Issued(s, a, n)]
      /\ signInTxn' = [signInTxn EXCEPT ![r] = Sign!Idle]
  BY <1>1 DEF Sign!CommitSignIn, Sign!Finish
<1>3. /\ \A m \in Offers \ {n} : nonce'[m] = nonce[m]
      /\ nonce'[n].state = "consumed" /\ nonce'[n].bound = nonce[n].bound
      /\ nonce' \in [Offers -> Sign!Nonce]
  <2>1. nonce[n] \in Sign!Nonce /\ nonce'[n] = [nonce[n] EXCEPT !.state = "consumed"]
    BY <1>2 DEF SignInv, Sign!TypeOK
  <2>2. nonce'[n] \in Sign!Nonce /\ nonce'[n].state = "consumed" /\ nonce'[n].bound = nonce[n].bound
    BY <2>1 DEF Sign!Nonce
  <2>3. QED
    BY <1>2, <2>2 DEF SignInv, Sign!TypeOK
<1>4. /\ session'[s] \in Sign!Session /\ session'[s].owner = a /\ session'[s].from = n
      /\ \A t \in Rows \ {s} : session'[t] = session[t]
      /\ session' \in [Rows -> Sign!Session \cup {Sign!NoSession}]
  BY <1>2, IssuedSession DEF SignInv, Sign!TypeOK
<1>5. session'[s] # Sign!NoSession
  BY <1>4, SessionFacts
<1>6. /\ \A b \in Addresses \ {a} : wallet'[b] = wallet[b]
      /\ \A d \in Users \ {c} : wallet'[a][d] = wallet[a][d]
      /\ wallet' \in [Addresses -> [Users -> {"none", "plain", "payout"}]]
  BY <1>2 DEF SignInv, Sign!TypeOK
<1>7. Sign!TypeOK'
  <2>1. user' \in [Addresses -> Sign!Statuses \cup {"absent"}]
    BY <1>2 DEF SignInv, Sign!TypeOK, Sign!Statuses
  <2>2. QED
    BY <1>3, <1>4, <1>6, <2>1 DEF Sign!TypeOK
<1>8. w.links =>
          /\ wallet[a][c] = "none"
          /\ w.payout => Sign!PayoutWallets(a) = {} /\ wallet'[a][c] = "payout"
          /\ ~w.payout => Sign!PayoutWallets(a) # {} /\ wallet'[a][c] = "plain"
  BY <1>1, <1>2 DEF Sign!Insertable, Sign!OnePayout, SignInv, Sign!TypeOK
<1>9. \A b \in Addresses : Sign!PayoutWallets(b) \subseteq Sign!PayoutWallets(b)'
  <2>1. CASE w.links
    BY <1>6, <1>8, <2>1 DEF Sign!PayoutWallets
  <2>2. CASE ~w.links
    BY <1>2, <2>2 DEF Sign!PayoutWallets
  <2>3. QED
    BY <2>1, <2>2
<1>10. /\ signInTxn'[r] = Sign!Idle /\ \A q \in Requests \ {r} : signInTxn'[q] = signInTxn[q]
  BY <1>2 DEF SignInv, TxnsPending
<1>11. \A q \in Requests \ {r} : Pending(q)'
  <2>1. SUFFICES ASSUME NEW q \in Requests \ {r} PROVE Pending(q)'
    OBVIOUS
  <2>2. Pending(q) /\ signInTxn'[q] = signInTxn[q]
    BY <1>10 DEF SignInv, TxnsPending
  <2>3. signInTxn[q].op = "sign_in" => signInTxn[q].nonce # n
    BY <1>1, <1>2 DEF SignInv, OneSpender
  <2>4. \A t \in Rows : session[t] # Sign!NoSession => session'[t] # Sign!NoSession
    BY <1>2, <1>4
  <2>5. signInTxn[q].op = "sign_in" => nonce'[signInTxn[q].nonce] = nonce[signInTxn[q].nonce]
    BY <1>3, <2>2, <2>3 DEF Pending
  <2>6. signInTxn[q].op = "sign_in" =>
           (signInTxn[q].payout \/ Sign!PayoutWallets(signInTxn[q].owner)' # {})
    BY <1>9, <2>2 DEF Pending
  <2>7. QED
    BY <2>2, <2>4, <2>5, <2>6 DEF Pending, Sign!PayoutWallets
<1>12. TxnsPending' /\ OneSpender'
  <2>1. Pending(r)' /\ Sign!Idle.op # "sign_in"
    BY <1>10 DEF Pending, Sign!Idle
  <2>2. QED
    BY <1>2, <1>11, <2>1, OneTxn DEF SignInv
<1>13. OneHeir'
  <2>1. \A t \in Rows, m \in Offers :
            IssuedFor(t, m)' <=> (t = s /\ m = n) \/ (t # s /\ IssuedFor(t, m))
    BY <1>4, <1>5 DEF IssuedFor
  <2>2. \A t \in Rows : ~IssuedFor(t, n)
    BY <1>1 DEF SignInv, OneHeir
  <2>3. \A m \in Offers : ~IssuedFor(s, m)
    BY <1>2 DEF IssuedFor
  <2>4. ASSUME NEW m \in Offers
        PROVE  /\ \A t, u \in Rows : IssuedFor(t, m)' /\ IssuedFor(u, m)' => t = u
               /\ (\E t \in Rows : IssuedFor(t, m)') <=> nonce'[m].state = "consumed"
               /\ \A t \in Rows :
                     IssuedFor(t, m)' => nonce'[m].bound \in {session'[t].owner, None}
    <3>1. CASE m = n
      BY <1>1, <1>3, <1>4, <2>1, <2>2, <3>1
    <3>2. CASE m # n
      BY <1>3, <1>4, <2>1, <2>3, <3>2 DEF SignInv, OneHeir
    <3>3. QED
      BY <3>1, <3>2
  <2>5. QED
    BY <2>4 DEF OneHeir
<1>14. OnePaid'
  <2>1. SUFFICES ASSUME NEW b \in Addresses
                 PROVE  /\ Sign!Wallets(b)' # {} => Sign!PayoutWallets(b)' # {}
                        /\ \A d, e \in Sign!PayoutWallets(b)' : d = e
    BY DEF OnePaid
  <2>2. CASE b # a \/ ~w.links
    <3>1. wallet'[b] = wallet[b]
      BY <1>2, <1>6, <2>2
    <3>2. QED
      BY <3>1 DEF SignInv, OnePaid, Sign!Wallets, Sign!PayoutWallets
  <2>3. CASE b = a /\ w.links /\ w.payout
    <3>1. Sign!PayoutWallets(a)' = {c}
      BY <1>6, <1>8, <2>3 DEF Sign!PayoutWallets
    <3>2. QED
      BY <2>3, <3>1
  <2>4. CASE b = a /\ w.links /\ ~w.payout
    <3>1. Sign!PayoutWallets(a)' = Sign!PayoutWallets(a)
      BY <1>6, <1>8, <2>4 DEF Sign!PayoutWallets
    <3>2. QED
      BY <1>8, <2>4, <3>1 DEF SignInv, OnePaid
  <2>5. QED
    BY <2>2, <2>3, <2>4
<1>15. QED
  BY <1>7, <1>12, <1>13, <1>14 DEF SignInv

\* A rotated session's successor descends from no nonce.
LEMMA CommitRefreshPreserves ==
    ASSUME Sign!SignInAssumption, SignInv, NEW r \in Requests, NEW new \in Rows,
           Sign!CommitRefresh(r, new)
    PROVE  SignInv'
<1>1. PICK s \in Rows : s = signInTxn[r].session /\ session[s] # Sign!NoSession
  BY DEF Sign!CommitRefresh, SignInv, TxnsPending, Pending
<1>2. /\ session[new] = Sign!NoSession
      /\ session' = [session EXCEPT ![s].state = "rotated",
                                    ![new] = Sign!Issued(new, session[s].owner, s)]
      /\ signInTxn' = [signInTxn EXCEPT ![r] = Sign!Idle]
      /\ UNCHANGED <<nonce, user, wallet>>
  BY <1>1 DEF Sign!CommitRefresh, Sign!Finish
<1>3. session[s] \in Sign!Session /\ session[s].owner \in Addresses
  BY <1>1 DEF SignInv, Sign!TypeOK, Sign!Session
<1>4. /\ session'[s] = [session[s] EXCEPT !.state = "rotated"]
      /\ session'[new] = Sign!Issued(new, session[s].owner, s)
      /\ \A t \in Rows \ {s, new} : session'[t] = session[t]
      /\ session' = [t \in Rows |-> session'[t]]
  BY <1>1, <1>2 DEF SignInv, Sign!TypeOK
<1>5. /\ session'[s] \in Sign!Session /\ session'[s].owner = session[s].owner
      /\ session'[s].from = session[s].from
  BY <1>3, <1>4 DEF Sign!Session, Sign!Reasons
<1>6. session'[new] \in Sign!Session /\ session'[new].from = s
  BY <1>3, <1>4, IssuedSession
<1>7. session' \in [Rows -> Sign!Session \cup {Sign!NoSession}]
  BY <1>4, <1>5, <1>6 DEF SignInv, Sign!TypeOK
<1>8. session'[s] # Sign!NoSession /\ session'[new] # Sign!NoSession
  BY <1>5, <1>6, SessionFacts
<1>9. Sign!TypeOK'
  BY <1>2, <1>7 DEF SignInv, Sign!TypeOK
<1>10. /\ signInTxn'[r] = Sign!Idle /\ \A q \in Requests \ {r} : signInTxn'[q] = signInTxn[q]
  BY <1>2 DEF SignInv, TxnsPending
<1>11. \A t \in Rows : session[t] # Sign!NoSession => session'[t] # Sign!NoSession
  BY <1>4, <1>8
<1>12. \A q \in Requests \ {r} : Pending(q)'
  BY <1>2, <1>10, <1>11, KeptPending DEF SignInv, TxnsPending
<1>13. TxnsPending' /\ OneSpender'
  <2>1. Pending(r)' /\ Sign!Idle.op # "sign_in"
    BY <1>10 DEF Pending, Sign!Idle
  <2>2. QED
    BY <1>2, <1>12, <2>1, OneTxn DEF SignInv
<1>14. OneHeir'
  <2>1. \A t \in Rows, m \in Offers :
            /\ IssuedFor(t, m)' <=> IssuedFor(t, m)
            /\ IssuedFor(t, m) => session'[t].owner = session[t].owner
    <3>1. SUFFICES ASSUME NEW t \in Rows, NEW m \in Offers
                   PROVE  /\ IssuedFor(t, m)' <=> IssuedFor(t, m)
                          /\ IssuedFor(t, m) => session'[t].owner = session[t].owner
      OBVIOUS
    <3>2. CASE t = new
      BY <1>2, <1>6, <3>2 DEF IssuedFor, Sign!SignInAssumption
    <3>3. CASE t = s
      BY <1>1, <1>5, <1>8, <3>3 DEF IssuedFor
    <3>4. CASE t \notin {s, new}
      BY <1>4, <3>4 DEF IssuedFor
    <3>5. QED
      BY <3>2, <3>3, <3>4
  <2>2. QED
    BY <1>2, <2>1 DEF SignInv, OneHeir
<1>15. OnePaid'
  BY <1>2 DEF SignInv, OnePaid, Sign!Wallets, Sign!PayoutWallets
<1>16. QED
  BY <1>9, <1>13, <1>14, <1>15 DEF SignInv

\* An account whose live session is known has an owner.
LEMMA OwnerTyped ==
    ASSUME Sign!TypeOK, NEW s \in Rows, session[s].state # "none"
    PROVE  session[s].owner \in Addresses
<1>1. session[s] \in Sign!Session
  BY SessionFacts DEF Sign!TypeOK
<1>2. QED
  BY <1>1 DEF Sign!Session

LEMMA SessionActionKeeps ==
    ASSUME Sign!TypeOK, NEW s \in Rows,
           \/ Sign!DetectReuse(s) \/ Sign!LogoutAll(s) \/ Sign!ExpireSession(s)
           \/ \E caller \in Rows : Sign!Logout(caller, s)
    PROVE  Kept /\ UNCHANGED <<nonce, user, wallet, signInTxn>>
<1>1. CASE Sign!DetectReuse(s)
  BY <1>1, OwnerTyped, RevokingKeeps DEF Sign!DetectReuse, Sign!Reasons
<1>2. CASE Sign!LogoutAll(s)
  BY <1>2, OwnerTyped, RevokingKeeps DEF Sign!LogoutAll, Sign!SignedIn, Sign!Reasons
<1>3. CASE Sign!ExpireSession(s)
  BY <1>3, EndingKeeps DEF Sign!ExpireSession
<1>4. CASE \E caller \in Rows : Sign!Logout(caller, s)
  BY <1>4, EndingKeeps DEF Sign!Logout
<1>5. QED
  BY <1>1, <1>2, <1>3, <1>4

LEMMA CommitSuspendKeeps ==
    ASSUME SignInv, NEW r \in Requests, Sign!CommitSuspend(r)
    PROVE  /\ Kept /\ Sign!Finish(r) /\ UNCHANGED <<nonce, wallet>>
           /\ user' \in [Addresses -> Sign!Statuses \cup {"absent"}]
<1>1. signInTxn[r].owner \in Addresses
  BY DEF Sign!CommitSuspend, SignInv, TxnsPending, Pending
<1>2. Kept
  BY <1>1, RevokingKeeps DEF Sign!CommitSuspend, SignInv, Sign!Reasons
<1>3. user' \in [Addresses -> Sign!Statuses \cup {"absent"}]
  BY <1>1 DEF Sign!CommitSuspend, SignInv, Sign!TypeOK, Sign!Statuses
<1>4. QED
  BY <1>2, <1>3 DEF Sign!CommitSuspend

LEMMA BarPreserves ==
    ASSUME SignInv, NEW a \in Addresses, Sign!Bar(a)
    PROVE  SignInv'
<1>1. user' \in [Addresses -> Sign!Statuses \cup {"absent"}]
  BY DEF Sign!Bar, SignInv, Sign!TypeOK, Sign!Statuses
<1>2. UNCHANGED <<nonce, wallet, session, signInTxn>>
  BY DEF Sign!Bar
<1>3. Sign!TypeOK'
  BY <1>1, <1>2 DEF SignInv, Sign!TypeOK
<1>4. \A r \in Requests : Pending(r)'
  BY <1>2, KeptPending DEF SignInv, TxnsPending
<1>5. TxnsPending' /\ OneSpender' /\ OneHeir' /\ OnePaid'
  BY <1>2, <1>4 DEF SignInv, TxnsPending, OneSpender, OneHeir, IssuedFor, OnePaid, Sign!Wallets,
                    Sign!PayoutWallets
<1>6. QED
  BY <1>3, <1>5 DEF SignInv

LEMMA SignPreserved ==
    ASSUME Sign!SignInAssumption, SignInv, [Sign!Next]_signVars
    PROVE  SignInv'
<1>1. ASSUME NEW r \in Requests, Sign!Request(r) PROVE SignInv'
  <2>1. CASE \E n \in Offers, a \in Addresses, c \in Users : Sign!SignIn(r, n, a, c)
    BY <2>1, SignInPreserves
  <2>2. CASE \E s \in Rows : Sign!CommitSignIn(r, s)
    BY <2>2, CommitSignInPreserves
  <2>3. CASE \E s \in Rows : Sign!Refresh(r, s)
    BY <2>3, RefreshPreserves
  <2>4. CASE \E s \in Rows : Sign!CommitRefresh(r, s)
    BY <2>4, CommitRefreshPreserves
  <2>5. CASE \E s \in Rows : Sign!Suspend(r, s)
    BY <2>5, SuspendPreserves
  <2>6. CASE Sign!CommitSuspend(r)
    BY <2>6, CommitSuspendKeeps, Ending
  <2>7. CASE Sign!Rollback(r)
    <3>1. Sign!Finish(r) /\ UNCHANGED <<nonce, user, wallet, session>>
      BY <2>7 DEF Sign!Rollback
    <3>2. Kept /\ user' \in [Addresses -> Sign!Statuses \cup {"absent"}]
      BY <3>1, NothingKept DEF SignInv, Sign!TypeOK
    <3>3. QED
      BY <3>1, <3>2, Ending
  <2>8. QED
    BY <1>1, <2>1, <2>2, <2>3, <2>4, <2>5, <2>6, <2>7 DEF Sign!Request
<1>2. ASSUME NEW n \in Offers,
             Sign!ExpireNonce(n) \/ \E bound \in Addresses \cup {None} : Sign!IssueNonce(n, bound)
      PROVE  SignInv'
  BY <1>2, ExpireNoncePreserves, IssueNoncePreserves
<1>3. ASSUME NEW s \in Rows,
             \/ Sign!DetectReuse(s) \/ Sign!LogoutAll(s) \/ Sign!ExpireSession(s)
             \/ \E caller \in Rows : Sign!Logout(caller, s)
      PROVE  SignInv'
  BY <1>3, SessionActionKeeps, SessionsOnly DEF SignInv
<1>4. ASSUME NEW a \in Addresses, Sign!Bar(a) PROVE SignInv'
  BY <1>4, BarPreserves
<1>5. CASE UNCHANGED signVars
  <2>1. Kept /\ UNCHANGED <<nonce, user, wallet, signInTxn>>
    BY <1>5, NothingKept DEF signVars, SignInv
  <2>2. QED
    BY <2>1, SessionsOnly
<1>6. QED
  BY <1>1, <1>2, <1>3, <1>4, <1>5 DEF Sign!Next

LEMMA SignStart == Sign!Init => SignInv
<1>1. SUFFICES ASSUME Sign!Init PROVE SignInv
  OBVIOUS
<1>2. Sign!TypeOK
  BY <1>1 DEF Sign!Init, Sign!TypeOK, Sign!Nonce, Sign!NoNonce
<1>3. TxnsPending /\ OneSpender
  BY <1>1 DEF Sign!Init, TxnsPending, Pending, OneSpender, Sign!Idle
<1>4. OneHeir
  BY <1>1 DEF Sign!Init, OneHeir, IssuedFor, Sign!NoNonce
<1>5. OnePaid
  BY <1>1 DEF Sign!Init, OnePaid, Sign!Wallets, Sign!PayoutWallets
<1>6. QED
  BY <1>2, <1>3, <1>4, <1>5 DEF SignInv

-----------------------------------------------------------------------------
\* A set whose elements are all equal has at most one.
LEMMA AtMostOne ==
    ASSUME NEW S, \A x, y \in S : x = y
    PROVE  Cardinality(S) <= 1 /\ (S # {} => Cardinality(S) = 1)
<1>1. CASE S = {}
  BY <1>1, FS_EmptySet
<1>2. CASE S # {}
  <2>1. PICK x : x \in S
    BY <1>2
  <2>2. S = {x}
    BY <2>1
  <2>3. QED
    BY <2>2, FS_Singleton
<1>3. QED
  BY <1>1, <1>2

LEMMA InvariantSpendsOnce == ASSUME SignInv PROVE Sign!NonceSpentOnce
<1>1. SUFFICES ASSUME NEW n \in Offers
               PROVE  LET heirs == {s \in Rows : session[s] # Sign!NoSession
                                                     /\ session[s].from = n} IN
                      /\ Cardinality(heirs) <= 1
                      /\ heirs # {} <=> nonce[n].state = "consumed"
                      /\ \A s \in heirs : nonce[n].bound \in {session[s].owner, None}
  BY SameCardinality DEF Sign!NonceSpentOnce
<1>. DEFINE heirs == {s \in Rows : session[s] # Sign!NoSession /\ session[s].from = n}
<1>2. \A x, y \in heirs : x = y
  BY DEF SignInv, OneHeir, IssuedFor
<1>3. heirs # {} <=> nonce[n].state = "consumed"
  BY DEF SignInv, OneHeir, IssuedFor
<1>4. \A s \in heirs : nonce[n].bound \in {session[s].owner, None}
  BY DEF SignInv, OneHeir, IssuedFor
<1>. HIDE DEF heirs
<1>5. Cardinality(heirs) <= 1
  BY <1>2, AtMostOne
<1>6. QED
  BY <1>3, <1>4, <1>5 DEF heirs

LEMMA InvariantPaysOnce == ASSUME SignInv PROVE Sign!ExactlyOnePayoutWallet
<1>1. SUFFICES ASSUME NEW a \in Addresses, Sign!Wallets(a) # {}
               PROVE  Cardinality(Sign!PayoutWallets(a)) = 1
  BY SameCardinality DEF Sign!ExactlyOnePayoutWallet
<1>2. Sign!PayoutWallets(a) # {} /\ \A c, d \in Sign!PayoutWallets(a) : c = d
  BY <1>1 DEF SignInv, OnePaid
<1>3. QED
  BY <1>2, AtMostOne

\* A step that opens no session and begins no rotation for a.
LEMMA NothingReopened ==
    ASSUME SignInv, NEW a \in Addresses, Sign!SignedOut(a), Kept,
           \A r \in Requests : signInTxn'[r].op = "refresh" =>
               /\ signInTxn'[r].session \in Rows /\ session[signInTxn'[r].session] # Sign!NoSession
               /\ signInTxn'[r] = signInTxn[r] \/ session[signInTxn'[r].session].owner # a
    PROVE  Sign!SignedOut(a)'
<1>1. Sign!SessionsOf(a)' = Sign!SessionsOf(a)
  BY DEF Sign!SessionsOf, Kept
<1>2. Sign!Live(a)' = {}
  <2>1. Sign!Live(a)' \subseteq Sign!Live(a)
    <3>1. \A s \in Sign!SessionsOf(a) : s \in Rows
      BY DEF Sign!SessionsOf
    <3>2. QED
      BY <1>1, <3>1 DEF Sign!Live, Kept
  <2>2. QED
    BY <2>1 DEF Sign!SignedOut
<1>3. Sign!Rotating(a)' = {}
  <2>1. SUFFICES ASSUME NEW r \in Requests, signInTxn'[r].op = "refresh",
                        session'[signInTxn'[r].session].owner = a
                 PROVE  FALSE
    BY DEF Sign!Rotating
  <2>2. /\ signInTxn'[r].session \in Rows /\ session[signInTxn'[r].session] # Sign!NoSession
        /\ session[signInTxn'[r].session].owner = a
    BY <2>1 DEF Kept
  <2>3. r \in Sign!Rotating(a)
    BY <2>1, <2>2 DEF Sign!Rotating
  <2>4. QED
    BY <2>3 DEF Sign!SignedOut
<1>4. QED
  BY <1>1, <1>2, <1>3 DEF Sign!SignedOut

\* The rotations that are open.
LEMMA RotatesSomething ==
    ASSUME SignInv, NEW r \in Requests, signInTxn[r].op = "refresh"
    PROVE  signInTxn[r].session \in Rows /\ session[signInTxn[r].session] # Sign!NoSession
BY DEF SignInv, TxnsPending, Pending

LEMMA EndingReopensNothing ==
    ASSUME SignInv, NEW r \in Requests, Sign!Finish(r), Kept, NEW a \in Addresses, Sign!SignedOut(a)
    PROVE  Sign!SignedOut(a)'
<1>1. signInTxn'[r].op # "refresh" /\ \A q \in Requests \ {r} : signInTxn'[q] = signInTxn[q]
  BY DEF Sign!Finish, SignInv, TxnsPending, Sign!Idle
<1>2. QED
  BY <1>1, RotatesSomething, NothingReopened

LEMMA BeginReopensNothing ==
    ASSUME SignInv, NEW r \in Requests, NEW write, Sign!Begin(r, write), NEW a \in Addresses,
           Sign!SignedOut(a),
           write.op = "refresh" =>
              /\ write.session \in Rows /\ session[write.session] # Sign!NoSession
              /\ session[write.session].owner # a
    PROVE  Sign!SignedOut(a)'
<1>1. signInTxn'[r] = write /\ \A q \in Requests \ {r} : signInTxn'[q] = signInTxn[q]
  BY DEF Sign!Begin, SignInv, TxnsPending
<1>2. Kept
  BY NothingKept DEF Sign!Begin, SignInv
<1>3. QED
  BY <1>1, <1>2, RotatesSomething, NothingReopened

\* Its successor is another account's.
LEMMA RotationOfAnother ==
    ASSUME SignInv, NEW r \in Requests, NEW new \in Rows, Sign!CommitRefresh(r, new),
           NEW a \in Addresses, Sign!SignedOut(a)
    PROVE  Sign!SignedOut(a)'
<1>1. PICK s \in Rows : s = signInTxn[r].session /\ session[s] # Sign!NoSession
  BY RotatesSomething DEF Sign!CommitRefresh
<1>2. /\ session[new] = Sign!NoSession /\ signInTxn[r].op = "refresh"
      /\ session' = [session EXCEPT ![s].state = "rotated",
                                    ![new] = Sign!Issued(new, session[s].owner, s)]
      /\ signInTxn' = [signInTxn EXCEPT ![r] = Sign!Idle]
  BY <1>1 DEF Sign!CommitRefresh, Sign!Finish
<1>3. session[s].owner # a
  <2>1. session[s].owner = a => r \in Sign!Rotating(a)
    BY <1>1, <1>2 DEF Sign!Rotating
  <2>2. QED
    BY <2>1 DEF Sign!SignedOut
<1>4. session[s] \in Sign!Session /\ session[s].owner \in Addresses
  BY <1>1 DEF SignInv, Sign!TypeOK, Sign!Session
<1>5. /\ session'[s] = [session[s] EXCEPT !.state = "rotated"]
      /\ session'[new] = Sign!Issued(new, session[s].owner, s)
      /\ \A t \in Rows \ {s, new} : session'[t] = session[t]
  BY <1>1, <1>2 DEF SignInv, Sign!TypeOK
<1>6. /\ session'[s].owner = session[s].owner
      /\ session'[new].owner = session[s].owner
  BY <1>4, <1>5, IssuedSession DEF Sign!Session
<1>7. \A t \in Sign!SessionsOf(a) : t \notin {s, new} /\ session'[t] = session[t]
  BY <1>2, <1>3, <1>5 DEF Sign!SessionsOf
<1>8. Sign!SessionsOf(a)' = Sign!SessionsOf(a)
  <2>1. Sign!SessionsOf(a) \subseteq Sign!SessionsOf(a)'
    BY <1>7 DEF Sign!SessionsOf
  <2>2. Sign!SessionsOf(a)' \subseteq Sign!SessionsOf(a)
    BY <1>3, <1>5, <1>6 DEF Sign!SessionsOf
  <2>3. QED
    BY <2>1, <2>2
<1>9. Sign!Live(a)' = {}
  BY <1>7, <1>8 DEF Sign!Live, Sign!SignedOut
<1>10. Sign!Rotating(a)' = {}
  <2>1. signInTxn'[r].op # "refresh" /\ \A q \in Requests \ {r} : signInTxn'[q] = signInTxn[q]
    BY <1>2 DEF SignInv, TxnsPending, Sign!Idle
  <2>2. SUFFICES ASSUME NEW q \in Requests \ {r}, signInTxn[q].op = "refresh",
                        session'[signInTxn[q].session].owner = a
                 PROVE  FALSE
    BY <2>1 DEF Sign!Rotating
  <2>3. PICK t \in Rows : t = signInTxn[q].session /\ session[t] # Sign!NoSession
    BY <2>2, RotatesSomething
  <2>4. t # new /\ session[t].owner = a
    BY <1>2, <1>3, <1>5, <1>6, <2>2, <2>3
  <2>5. q \in Sign!Rotating(a)
    BY <2>2, <2>3, <2>4 DEF Sign!Rotating
  <2>6. QED
    BY <2>5 DEF Sign!SignedOut
<1>11. QED
  BY <1>8, <1>9, <1>10 DEF Sign!SignedOut

LEMMA RequestReopensNothing ==
    ASSUME SignInv, NEW r \in Requests, Sign!Request(r), NEW a \in Addresses, Sign!SignedOut(a)
    PROVE  Sign!SignedOut(a)' \/ \E n \in Offers : nonce[n].state # nonce'[n].state
<1>1. ASSUME NEW n \in Offers, NEW b \in Addresses, NEW c \in Users, Sign!SignIn(r, n, b, c)
      PROVE  Sign!SignedOut(a)'
  <2>1. PICK write : Sign!Begin(r, write) /\ write.op = "sign_in"
    BY <1>1 DEF Sign!SignIn
  <2>2. QED
    BY <2>1, BeginReopensNothing
<1>2. ASSUME NEW s \in Rows, Sign!CommitSignIn(r, s)
      PROVE  \E n \in Offers : nonce[n].state # nonce'[n].state
  <2>1. PICK n \in Offers : n = signInTxn[r].nonce /\ nonce[n].state = "issued"
    BY <1>2 DEF Sign!CommitSignIn, SignInv, TxnsPending, Pending
  <2>2. nonce'[n].state = "consumed"
    <3>1. nonce[n] \in Sign!Nonce /\ nonce'[n] = [nonce[n] EXCEPT !.state = "consumed"]
      BY <1>2, <2>1 DEF Sign!CommitSignIn, SignInv, Sign!TypeOK
    <3>2. QED
      BY <3>1 DEF Sign!Nonce
  <2>3. QED
    BY <2>1, <2>2
<1>3. ASSUME NEW s \in Rows, Sign!Refresh(r, s) PROVE Sign!SignedOut(a)'
  <2>1. PICK write : Sign!Begin(r, write) /\ write.op = "refresh" /\ write.session = s
    BY <1>3 DEF Sign!Refresh
  <2>2. session[s] # Sign!NoSession /\ session[s].state = "live"
    BY <1>3, SessionFacts DEF Sign!Refresh, Sign!Rotatable
  <2>3. session[s].owner # a
    BY <2>2 DEF Sign!SignedOut, Sign!Live, Sign!SessionsOf
  <2>4. QED
    BY <2>1, <2>2, <2>3, BeginReopensNothing
<1>4. ASSUME NEW s \in Rows, Sign!CommitRefresh(r, s) PROVE Sign!SignedOut(a)'
  BY <1>4, RotationOfAnother
<1>5. ASSUME NEW s \in Rows, Sign!Suspend(r, s) PROVE Sign!SignedOut(a)'
  <2>1. PICK write : Sign!Begin(r, write) /\ write.op = "suspend"
    BY <1>5 DEF Sign!Suspend
  <2>2. QED
    BY <2>1, BeginReopensNothing
<1>6. CASE Sign!CommitSuspend(r)
  BY <1>6, CommitSuspendKeeps, EndingReopensNothing
<1>7. CASE Sign!Rollback(r)
  <2>1. Sign!Finish(r) /\ Kept
    BY <1>7, NothingKept DEF Sign!Rollback, SignInv
  <2>2. QED
    BY <2>1, EndingReopensNothing
<1>8. QED
  BY <1>1, <1>2, <1>3, <1>4, <1>5, <1>6, <1>7 DEF Sign!Request

LEMMA NothingReopens ==
    ASSUME Sign!SignInAssumption, SignInv, [Sign!Next]_signVars
    PROVE  [Sign!StaysSignedOut]_signVars
<1>1. SUFFICES ASSUME NEW a \in Addresses, Sign!SignedOut(a)
               PROVE  Sign!SignedOut(a)' \/ \E n \in Offers : nonce[n].state # nonce'[n].state
  BY DEF Sign!StaysSignedOut
<1>2. ASSUME Kept, UNCHANGED signInTxn PROVE Sign!SignedOut(a)'
  BY <1>1, <1>2, RotatesSomething, NothingReopened
<1>3. ASSUME NEW r \in Requests, Sign!Request(r)
      PROVE  Sign!SignedOut(a)' \/ \E n \in Offers : nonce[n].state # nonce'[n].state
  BY <1>1, <1>3, RequestReopensNothing
<1>4. ASSUME NEW n \in Offers,
             Sign!ExpireNonce(n) \/ \E bound \in Addresses \cup {None} : Sign!IssueNonce(n, bound)
      PROVE  Sign!SignedOut(a)'
  <2>1. UNCHANGED <<session, signInTxn>>
    BY <1>4 DEF Sign!ExpireNonce, Sign!IssueNonce
  <2>2. QED
    BY <1>1, <1>2, <2>1, NothingKept DEF SignInv
<1>5. ASSUME NEW s \in Rows,
             \/ Sign!DetectReuse(s) \/ Sign!LogoutAll(s) \/ Sign!ExpireSession(s)
             \/ \E caller \in Rows : Sign!Logout(caller, s)
      PROVE  Sign!SignedOut(a)'
  BY <1>1, <1>2, <1>5, SessionActionKeeps DEF SignInv
<1>6. ASSUME NEW b \in Addresses, Sign!Bar(b) PROVE Sign!SignedOut(a)'
  BY <1>1, <1>2, <1>6, NothingKept DEF Sign!Bar, SignInv
<1>7. CASE UNCHANGED signVars
  BY <1>1, <1>2, <1>7, NothingKept DEF signVars, SignInv
<1>8. QED
  BY <1>1, <1>3, <1>4, <1>5, <1>6, <1>7 DEF Sign!Next

LEMMA SignStep ==
    ASSUME SignInv, [Sign!Next]_signVars
    PROVE  SignInv' /\ (UNCHANGED signVars \/ Sign!StaysSignedOut)
BY SignAssumed, SignPreserved, NothingReopens

LEMMA SignPromises ==
    ASSUME SignInv
    PROVE  Sign!TypeOK /\ Sign!NonceSpentOnce /\ Sign!ExactlyOnePayoutWallet
BY InvariantSpendsOnce, InvariantPaysOnce DEF SignInv

-----------------------------------------------------------------------------
(* API keys.  The limit is read before the key is written, so what counts  *)
(* against it is the active keys and those about to be written; a request  *)
(* that reads it is not among the latter, which is where the one fewer     *)
(* than all the requests comes from.                                       *)

KeyWrites ==
    {Api!Idle}
    \cup [op : {"create"}, creator : Addresses, scopes : SUBSET Scopes]
    \cup [op : {"use"}, key : Rows, row : Api!Key]

KeyRows ==
    /\ key \in [Rows -> Api!Key \cup {Api!NoKey}]
    /\ standing \in [Addresses -> {"member", "gone"}]
    /\ keyTxn \in [Requests -> KeyWrites]

Minting == {r \in Requests : keyTxn[r].op = "create"}

\* A key that is in use was minted.
UsesMinted == \A r \in Requests : keyTxn[r].op = "use" => key[keyTxn[r].key] \in Api!Key

KeysCounted ==
    Cardinality(Api!Active) + Cardinality(Minting) <= MaxActiveKeys + Cardinality(Requests) - 1

KeyInv == KeyRows /\ UsesMinted /\ KeysCounted

LEMMA KeyFacts ==
    /\ \A k \in Api!Key : k.minted = TRUE /\ k # Api!NoKey
    /\ Api!NoKey.minted = FALSE
    /\ Api!Idle.op = "idle"
    /\ \A w \in KeyWrites :
          /\ w.op \in {"idle", "create", "use"}
          /\ w.op = "create" => w \in [op : {"create"}, creator : Addresses, scopes : SUBSET Scopes]
          /\ w.op = "use" => w \in [op : {"use"}, key : Rows, row : Api!Key]
<1>1. Api!NoKey.minted = FALSE /\ Api!Idle.op = "idle"
  BY DEF Api!NoKey, Api!Idle
<1>2. \A k \in Api!Key : k.minted = TRUE
  BY DEF Api!Key
<1>3. QED
  BY <1>1, <1>2 DEF KeyWrites

LEMMA KeySetsFinite ==
    /\ IsFiniteSet(Api!Active) /\ Cardinality(Api!Active) \in Nat
    /\ IsFiniteSet(Minting) /\ Cardinality(Minting) \in Nat
<1>1. Api!Active \subseteq Rows /\ Minting \subseteq Requests
  BY DEF Api!Active, Minting
<1>2. IsFiniteSet(Api!Active) /\ IsFiniteSet(Minting)
  BY <1>1, KeyAssumptions, FS_Subset
<1>3. QED
  BY <1>2, FS_CardinalityType

\* A request that is open loses its place in Minting, and no other changes.
LEMMA KeyRequestEnds ==
    ASSUME KeyInv, NEW r \in Requests, Api!Finish(r),
           key' \in [Rows -> Api!Key \cup {Api!NoKey}],
           \A k \in Rows : key[k] \in Api!Key => key'[k] \in Api!Key,
           standing' = standing,
           Cardinality(Api!Active') + Cardinality(Minting \ {r})
              <= Cardinality(Api!Active) + Cardinality(Minting)
    PROVE  KeyInv'
<1>1. keyTxn' = [keyTxn EXCEPT ![r] = Api!Idle] /\ keyTxn \in [Requests -> KeyWrites]
  BY DEF Api!Finish, KeyInv, KeyRows
<1>2. keyTxn' \in [Requests -> KeyWrites]
  BY <1>1 DEF KeyWrites
<1>3. KeyRows'
  BY <1>2 DEF KeyInv, KeyRows
<1>4. UsesMinted'
  <2>1. SUFFICES ASSUME NEW q \in Requests, keyTxn'[q].op = "use"
                 PROVE  key'[keyTxn'[q].key] \in Api!Key
    BY DEF UsesMinted
  <2>2. q # r /\ keyTxn'[q] = keyTxn[q]
    BY <1>1, <2>1, KeyFacts
  <2>3. keyTxn[q].key \in Rows /\ key[keyTxn[q].key] \in Api!Key
    BY <1>1, <2>1, <2>2, KeyFacts DEF KeyInv, UsesMinted
  <2>4. QED
    BY <2>2, <2>3
<1>5. KeysCounted'
  <2>1. Minting' = Minting \ {r}
    BY <1>1, KeyFacts DEF Minting
  <2>2. Cardinality(Minting \ {r}) \in Nat /\ Cardinality(Api!Active') \in Nat
    <3>1. Api!Active' \subseteq Rows
      BY DEF Api!Active
    <3>2. IsFiniteSet(Api!Active') /\ IsFiniteSet(Minting \ {r})
      BY <3>1, KeySetsFinite, KeyAssumptions, FS_Subset
    <3>3. QED
      BY <3>2, FS_CardinalityType
  <2>3. QED
    BY <2>1, <2>2, KeySetsFinite, KeyAssumptions DEF KeyInv, KeysCounted
<1>6. QED
  BY <1>3, <1>4, <1>5 DEF KeyInv

\* A request that begins joins Minting when it creates a key.
LEMMA KeyRequestBegins ==
    ASSUME KeyInv, NEW r \in Requests, NEW w \in KeyWrites, Api!Begin(r, w),
           w.op = "use" => key[w.key] \in Api!Key,
           w.op = "create" => Api!BelowLimit
    PROVE  KeyInv'
<1>1. /\ keyTxn[r] = Api!Idle /\ keyTxn' = [keyTxn EXCEPT ![r] = w]
      /\ key' = key /\ standing' = standing /\ keyTxn \in [Requests -> KeyWrites]
  BY DEF Api!Begin, KeyInv, KeyRows
<1>2. keyTxn' \in [Requests -> KeyWrites]
  BY <1>1
<1>3. KeyRows' /\ UsesMinted'
  BY <1>1, <1>2 DEF KeyInv, KeyRows, UsesMinted
<1>4. Api!Active' = Api!Active
  BY <1>1 DEF Api!Active
<1>5. r \notin Minting
  BY <1>1, KeyFacts DEF Minting
<1>6. CASE w.op # "create"
  <2>1. Minting' = Minting
    BY <1>1, <1>5, <1>6 DEF Minting
  <2>2. KeysCounted'
    BY <1>4, <2>1 DEF KeyInv, KeysCounted
  <2>3. QED
    BY <1>3, <2>2 DEF KeyInv
<1>7. CASE w.op = "create"
  <2>1. Minting' = Minting \cup {r} /\ Minting' \subseteq Requests
    BY <1>1, <1>5, <1>7 DEF Minting
  <2>2. Cardinality(Minting') = Cardinality(Minting) + 1
    BY <1>5, <2>1, KeySetsFinite, FS_AddElement
  <2>3. Cardinality(Minting') <= Cardinality(Requests)
    BY <2>1, KeyAssumptions, FS_Subset
  <2>4. Cardinality(Api!Active) < MaxActiveKeys
    BY <1>7, SameCardinality DEF Api!BelowLimit
  <2>5. KeysCounted'
    BY <1>4, <2>2, <2>3, <2>4, KeySetsFinite, KeyAssumptions DEF KeysCounted
  <2>6. QED
    BY <1>3, <2>5 DEF KeyInv
<1>8. QED
  BY <1>6, <1>7

\* A step that writes rows and no request: no key becomes active by it.
LEMMA KeyRowsOnly ==
    ASSUME KeyInv, keyTxn' = keyTxn,
           key' \in [Rows -> Api!Key \cup {Api!NoKey}],
           standing' \in [Addresses -> {"member", "gone"}],
           \A k \in Rows : key[k] \in Api!Key => key'[k] \in Api!Key,
           Api!Active' \subseteq Api!Active
    PROVE  KeyInv'
<1>1. KeyRows' /\ UsesMinted'
  <2>1. KeyRows'
    BY DEF KeyInv, KeyRows
  <2>2. \A r \in Requests : keyTxn[r].op = "use" => keyTxn[r].key \in Rows
    BY KeyFacts DEF KeyInv, KeyRows
  <2>3. QED
    BY <2>1, <2>2 DEF KeyInv, UsesMinted
<1>2. Minting' = Minting
  BY DEF Minting
<1>3. /\ Cardinality(Api!Active') <= Cardinality(Api!Active)
      /\ Cardinality(Api!Active') \in Nat
  BY KeySetsFinite, FS_Subset, FS_CardinalityType
<1>4. KeysCounted'
  BY <1>2, <1>3, KeySetsFinite, KeyAssumptions DEF KeyInv, KeysCounted
<1>5. QED
  BY <1>1, <1>4 DEF KeyInv

\* One row is written, over a key that was minted: what an active key needs
\* can only be lost.
LEMMA KeyRowWritten ==
    ASSUME KeyInv, NEW k \in Rows, key[k] \in Api!Key, NEW row \in Api!Key,
           key' = [key EXCEPT ![k] = row], key[k].revoked => row.revoked
    PROVE  /\ key' \in [Rows -> Api!Key \cup {Api!NoKey}]
           /\ \A j \in Rows : key[j] \in Api!Key => key'[j] \in Api!Key
           /\ Api!Active' \subseteq Api!Active
           /\ Api!StaysRevoked
<1>1. /\ key'[k] = row /\ \A j \in Rows \ {k} : key'[j] = key[j]
      /\ key' \in [Rows -> Api!Key \cup {Api!NoKey}]
  BY DEF KeyInv, KeyRows
<1>2. \A j \in Rows : key[j].revoked => (j = k /\ row.revoked) \/ key'[j] = key[j]
  BY <1>1
<1>3. Api!StaysRevoked
  BY <1>1, <1>2 DEF Api!StaysRevoked
<1>4. key[k].minted
  BY KeyFacts
<1>5. Api!Active' \subseteq Api!Active
  BY <1>1, <1>4 DEF Api!Active
<1>6. QED
  BY <1>1, <1>3, <1>5

LEMMA KeyCreates ==
    ASSUME KeyInv, NEW r \in Requests, NEW k \in Rows, Api!CommitCreate(r, k)
    PROVE  KeyInv' /\ Api!StaysRevoked
<1>. DEFINE row == [minted |-> TRUE, creator |-> keyTxn[r].creator, scopes |-> keyTxn[r].scopes,
                    revoked |-> FALSE, expired |-> FALSE, used |-> FALSE]
<1>1. /\ keyTxn[r].op = "create" /\ key[k] = Api!NoKey /\ Api!Finish(r)
      /\ key' = [key EXCEPT ![k] = row] /\ standing' = standing
  BY DEF Api!CommitCreate
<1>2. row \in Api!Key
  BY <1>1, KeyFacts DEF KeyInv, KeyRows, Api!Key
<1>. HIDE DEF row
<1>3. /\ key'[k] = row /\ \A j \in Rows \ {k} : key'[j] = key[j]
      /\ key' \in [Rows -> Api!Key \cup {Api!NoKey}]
  BY <1>1, <1>2 DEF KeyInv, KeyRows
<1>4. ~key[k].minted /\ key[k] \notin Api!Key
  BY <1>1, KeyFacts
<1>5. Api!StaysRevoked
  BY <1>3, <1>4 DEF Api!StaysRevoked
<1>6. Api!Active' \subseteq Api!Active \cup {k}
  BY <1>3 DEF Api!Active
<1>7. Cardinality(Api!Active') <= Cardinality(Api!Active) + 1
  <2>1. k \notin Api!Active
    BY <1>4 DEF Api!Active
  <2>2. /\ Cardinality(Api!Active \cup {k}) = Cardinality(Api!Active) + 1
        /\ IsFiniteSet(Api!Active \cup {k})
    BY <2>1, KeySetsFinite, FS_AddElement
  <2>3. QED
    BY <1>6, <2>2, FS_Subset
<1>8. Cardinality(Minting \ {r}) = Cardinality(Minting) - 1
  BY <1>1, KeySetsFinite, FS_RemoveElement DEF Minting
<1>9. Cardinality(Api!Active') \in Nat
  <2>1. Api!Active' \subseteq Rows
    BY DEF Api!Active
  <2>2. QED
    BY <2>1, KeyAssumptions, FS_Subset, FS_CardinalityType
<1>10. Cardinality(Api!Active') + Cardinality(Minting \ {r})
          <= Cardinality(Api!Active) + Cardinality(Minting)
  BY <1>7, <1>8, <1>9, KeySetsFinite
<1>11. KeyInv'
  BY <1>1, <1>3, <1>4, <1>10, KeyRequestEnds
<1>12. QED
  BY <1>5, <1>11

LEMMA KeyUsed ==
    ASSUME KeyInv, NEW r \in Requests, Api!Use(r)
    PROVE  KeyInv' /\ Api!StaysRevoked
<1>. DEFINE k == keyTxn[r].key
            row == Api!Touched(keyTxn[r].row, key[k])
<1>1. /\ keyTxn[r].op = "use" /\ key' = [key EXCEPT ![k] = row]
      /\ Api!Finish(r) /\ standing' = standing
  BY DEF Api!Use
<1>2. k \in Rows /\ key[k] \in Api!Key
  BY <1>1, KeyFacts DEF KeyInv, KeyRows, UsesMinted
<1>3. row \in Api!Key /\ row.revoked = key[k].revoked
  BY <1>2 DEF Api!Touched, Api!Key
<1>. HIDE DEF k, row
<1>4. /\ key' \in [Rows -> Api!Key \cup {Api!NoKey}]
      /\ \A j \in Rows : key[j] \in Api!Key => key'[j] \in Api!Key
      /\ Api!Active' \subseteq Api!Active
      /\ Api!StaysRevoked
  BY <1>1, <1>2, <1>3, KeyRowWritten
<1>5. /\ Cardinality(Api!Active') <= Cardinality(Api!Active)
      /\ Cardinality(Minting \ {r}) <= Cardinality(Minting)
      /\ Cardinality(Api!Active') \in Nat /\ Cardinality(Minting \ {r}) \in Nat
  BY <1>4, KeySetsFinite, FS_Subset, FS_CardinalityType
<1>6. KeyInv'
  BY <1>1, <1>4, <1>5, KeySetsFinite, KeyRequestEnds
<1>7. QED
  BY <1>4, <1>6

LEMMA KeyRequest ==
    ASSUME KeyInv, NEW r \in Requests, Api!Request(r)
    PROVE  KeyInv' /\ Api!StaysRevoked
<1>1. ASSUME NEW u \in Addresses, NEW scopes \in SUBSET Scopes, Api!Create(r, u, scopes)
      PROVE  KeyInv' /\ Api!StaysRevoked
  <2>. DEFINE w == [op |-> "create", creator |-> u, scopes |-> scopes]
  <2>1. Api!Begin(r, w) /\ Api!BelowLimit
    BY <1>1 DEF Api!Create
  <2>2. w \in KeyWrites /\ w.op = "create"
    BY <1>1 DEF KeyWrites
  <2>3. Api!StaysRevoked
    BY <2>1 DEF Api!Begin, Api!StaysRevoked
  <2>. HIDE DEF w
  <2>4. QED
    BY <2>1, <2>2, <2>3, KeyRequestBegins
<1>2. ASSUME NEW k \in Rows, NEW scope \in Scopes, Api!Authenticate(r, k, {scope})
      PROVE  KeyInv' /\ Api!StaysRevoked
  <2>. DEFINE w == [op |-> "use", key |-> k, row |-> key[k]]
  <2>1. Api!Begin(r, w) /\ k \in Api!Active
    BY <1>2 DEF Api!Authenticate
  <2>2. key[k] \in Api!Key
    BY <2>1, KeyFacts DEF Api!Active, KeyInv, KeyRows
  <2>3. w \in KeyWrites /\ w.op = "use" /\ w.key = k
    BY <2>2 DEF KeyWrites
  <2>4. Api!StaysRevoked
    BY <2>1 DEF Api!Begin, Api!StaysRevoked
  <2>. HIDE DEF w
  <2>5. QED
    BY <2>1, <2>2, <2>3, <2>4, KeyRequestBegins
<1>3. CASE Api!Rollback(r)
  <2>1. Api!Finish(r) /\ key' = key /\ standing' = standing
    BY <1>3 DEF Api!Rollback
  <2>2. Api!StaysRevoked /\ Api!Active' = Api!Active
    BY <2>1 DEF Api!StaysRevoked, Api!Active
  <2>3. Cardinality(Minting \ {r}) <= Cardinality(Minting) /\ Cardinality(Minting \ {r}) \in Nat
    BY KeySetsFinite, FS_Subset, FS_CardinalityType
  <2>4. key' \in [Rows -> Api!Key \cup {Api!NoKey}]
    BY <2>1 DEF KeyInv, KeyRows
  <2>5. Cardinality(Api!Active') + Cardinality(Minting \ {r})
           <= Cardinality(Api!Active) + Cardinality(Minting)
    BY <2>2, <2>3, KeySetsFinite
  <2>6. KeyInv'
    BY <2>1, <2>4, <2>5, KeyRequestEnds
  <2>7. QED
    BY <2>2, <2>6
<1>4. QED
  BY <1>1, <1>2, <1>3, KeyCreates, KeyUsed DEF Api!Request

LEMMA KeyStep ==
    ASSUME KeyInv, [Api!Next]_keyVars
    PROVE  KeyInv' /\ (UNCHANGED keyVars \/ Api!StaysRevoked)
<1>1. ASSUME NEW k \in Rows, NEW u \in Addresses, Api!Revoke(u, k)
      PROVE  KeyInv' /\ Api!StaysRevoked
  <2>. DEFINE row == [key[k] EXCEPT !.revoked = TRUE]
  <2>1. k \in Api!Active /\ key' = [key EXCEPT ![k] = row] /\ UNCHANGED <<standing, keyTxn>>
    BY <1>1 DEF Api!Revoke
  <2>2. key[k] \in Api!Key
    BY <2>1, KeyFacts DEF Api!Active, KeyInv, KeyRows
  <2>3. row \in Api!Key /\ row.revoked
    BY <2>2 DEF Api!Key
  <2>. HIDE DEF row
  <2>4. /\ key' \in [Rows -> Api!Key \cup {Api!NoKey}]
        /\ \A j \in Rows : key[j] \in Api!Key => key'[j] \in Api!Key
        /\ Api!Active' \subseteq Api!Active
        /\ Api!StaysRevoked
    BY <1>1, <2>1, <2>2, <2>3, KeyRowWritten
  <2>5. QED
    BY <2>1, <2>4, KeyRowsOnly DEF KeyInv, KeyRows
<1>2. ASSUME NEW k \in Rows, Api!Age(k)
      PROVE  KeyInv' /\ Api!StaysRevoked
  <2>1. /\ key[k].minted /\ UNCHANGED <<standing, keyTxn>>
        /\ \/ key' = [key EXCEPT ![k].used = FALSE]
           \/ key' = [key EXCEPT ![k].expired = TRUE]
    BY <1>2 DEF Api!Age
  <2>2. key[k] \in Api!Key
    BY <1>2, <2>1, KeyFacts DEF KeyInv, KeyRows
  <2>3. PICK row \in Api!Key : key' = [key EXCEPT ![k] = row] /\ row.revoked = key[k].revoked
    <3>1. CASE key' = [key EXCEPT ![k].used = FALSE]
      <4>1. [key[k] EXCEPT !.used = FALSE] \in Api!Key
        BY <2>2 DEF Api!Key
      <4>2. [key[k] EXCEPT !.used = FALSE].revoked = key[k].revoked
        BY <2>2 DEF Api!Key
      <4>3. QED
        BY <3>1, <4>1, <4>2
    <3>2. CASE key' = [key EXCEPT ![k].expired = TRUE]
      <4>1. [key[k] EXCEPT !.expired = TRUE] \in Api!Key
        BY <2>2 DEF Api!Key
      <4>2. [key[k] EXCEPT !.expired = TRUE].revoked = key[k].revoked
        BY <2>2 DEF Api!Key
      <4>3. QED
        BY <3>2, <4>1, <4>2
    <3>3. QED
      BY <2>1, <3>1, <3>2
  <2>4. /\ key' \in [Rows -> Api!Key \cup {Api!NoKey}]
        /\ \A j \in Rows : key[j] \in Api!Key => key'[j] \in Api!Key
        /\ Api!Active' \subseteq Api!Active
        /\ Api!StaysRevoked
    BY <1>2, <2>2, <2>3, KeyRowWritten
  <2>5. QED
    BY <2>1, <2>4, KeyRowsOnly DEF KeyInv, KeyRows
<1>3. ASSUME NEW u \in Addresses, NEW to \in {"member", "gone"}, Api!ChangeStanding(u, to)
      PROVE  KeyInv' /\ Api!StaysRevoked
  <2>1. standing' = [standing EXCEPT ![u] = to] /\ UNCHANGED <<key, keyTxn>>
    BY <1>3 DEF Api!ChangeStanding
  <2>2. standing' \in [Addresses -> {"member", "gone"}] /\ key' = key
    BY <1>3, <2>1 DEF KeyInv, KeyRows
  <2>3. Api!StaysRevoked /\ Api!Active' = Api!Active
    BY <2>2 DEF Api!StaysRevoked, Api!Active
  <2>4. QED
    BY <2>1, <2>2, <2>3, KeyRowsOnly DEF KeyInv, KeyRows
<1>4. CASE UNCHANGED keyVars
  <2>1. key' = key /\ standing' = standing /\ keyTxn' = keyTxn
    BY <1>4 DEF keyVars
  <2>2. Api!Active' = Api!Active
    BY <2>1 DEF Api!Active
  <2>3. QED
    BY <1>4, <2>1, <2>2, KeyRowsOnly DEF KeyInv, KeyRows
<1>5. QED
  BY <1>1, <1>2, <1>3, <1>4, KeyRequest DEF Api!Next

LEMMA KeyStart == ASSUME Api!Init PROVE KeyInv
<1>1. /\ key = [k \in Rows |-> Api!NoKey] /\ standing = [u \in Addresses |-> "member"]
      /\ keyTxn = [r \in Requests |-> Api!Idle]
  BY DEF Api!Init
<1>2. KeyRows
  BY <1>1 DEF KeyRows, KeyWrites
<1>3. UsesMinted /\ Api!Active = {} /\ Minting = {}
  BY <1>1, KeyFacts DEF UsesMinted, Api!Active, Minting
<1>4. KeysCounted
  BY <1>3, KeyAssumptions, FS_EmptySet DEF KeysCounted
<1>5. QED
  BY <1>2, <1>3, <1>4 DEF KeyInv

LEMMA KeysBounded == ASSUME KeyInv PROVE Api!KeysNearLimit /\ Api!TypeOK
<1>1. Api!KeysNearLimit
  BY KeySetsFinite, KeyAssumptions, SameCardinality DEF KeyInv, KeysCounted, Api!KeysNearLimit
<1>2. Api!TypeOK
  BY KeyFacts DEF KeyInv, KeyRows, Api!TypeOK
<1>3. QED
  BY <1>1, <1>2

-----------------------------------------------------------------------------
(* Proof of an address.  A confirmation that is about to set the flag has  *)
(* compared the token's address with the user's; the comparison stands     *)
(* until it commits, unless a change of address came in between, which is  *)
(* what `overlapped' records.                                              *)

MailWrites ==
    {Mail!Idle}
    \cup [op : {"profile"}, user : Users, email : Emails \cup {""}, clears : BOOLEAN]
    \cup [op : {"issue"}, user : Users, email : Emails, spends : SUBSET Offers]
    \cup [op : {"confirm"}, user : Users, spends : SUBSET Offers, verifies : BOOLEAN]

MailRows ==
    /\ profile \in [Users -> [email : Emails \cup {""}, verified : BOOLEAN]]
    /\ token \in [Offers -> Mail!Token \cup {Mail!NoToken}]
    /\ emailTxn \in [Requests -> MailWrites]
    /\ proven \subseteq Users \X Emails
    /\ emailOverlapped \subseteq Users

\* What r has decided on: the tokens it spends exist, and a confirmation's is
\* the user's.
StillStands(r) ==
    /\ emailTxn[r].op = "issue" => \A t \in emailTxn[r].spends : token[t] \in Mail!Token
    /\ emailTxn[r].op = "confirm" =>
          \E t \in Offers :
             /\ emailTxn[r].spends = {t} /\ token[t] \in Mail!Token
             /\ token[t].user = emailTxn[r].user
             /\ emailTxn[r].verifies /\ emailTxn[r].user \notin emailOverlapped =>
                   profile[emailTxn[r].user].email = token[t].email

MailInv ==
    /\ MailRows
    /\ \A r \in Requests : StillStands(r)
    /\ Mail!ProvenUnlessOverlapped

\* Tokens are spent and expire; whose they are, and what they prove, stays.
TokensStay ==
    /\ token' \in [Offers -> Mail!Token \cup {Mail!NoToken}]
    /\ \A t \in Offers : token[t] \in Mail!Token =>
          /\ token'[t] \in Mail!Token
          /\ token'[t].user = token[t].user /\ token'[t].email = token[t].email

LEMMA MailFacts ==
    /\ Mail!Idle.op = "idle"
    /\ Mail!NoToken.state = "none"
    /\ \A x \in Mail!Token : x.state \in {"live", "consumed"} /\ x # Mail!NoToken
    /\ \A w \in MailWrites :
          /\ w.op = "profile" =>
                w \in [op : {"profile"}, user : Users, email : Emails \cup {""}, clears : BOOLEAN]
          /\ w.op = "issue" =>
                w \in [op : {"issue"}, user : Users, email : Emails, spends : SUBSET Offers]
          /\ w.op = "confirm" =>
                w \in [op : {"confirm"}, user : Users, spends : SUBSET Offers, verifies : BOOLEAN]
<1>1. Mail!Idle.op = "idle" /\ Mail!NoToken.state = "none"
  BY DEF Mail!Idle, Mail!NoToken
<1>2. \A x \in Mail!Token : x.state \in {"live", "consumed"} /\ x # Mail!NoToken
  BY <1>1 DEF Mail!Token
<1>3. QED
  BY <1>1, <1>2 DEF MailWrites

LEMMA MailWriteTyped ==
    ASSUME MailRows, NEW q \in Requests
    PROVE  /\ emailTxn[q].op = "profile" =>
                 /\ emailTxn[q].user \in Users /\ emailTxn[q].email \in Emails \cup {""}
                 /\ emailTxn[q].clears \in BOOLEAN
           /\ emailTxn[q].op = "issue" =>
                 /\ emailTxn[q].user \in Users /\ emailTxn[q].email \in Emails
                 /\ emailTxn[q].spends \subseteq Offers
           /\ emailTxn[q].op = "confirm" =>
                 emailTxn[q].user \in Users /\ emailTxn[q].verifies \in BOOLEAN
<1>. DEFINE w == emailTxn[q]
<1>1. w \in MailWrites
  BY DEF MailRows
<1>2. w.op = "profile" =>
         w \in [op : {"profile"}, user : Users, email : Emails \cup {""}, clears : BOOLEAN]
  BY <1>1, MailFacts
<1>3. w.op = "issue" =>
         w \in [op : {"issue"}, user : Users, email : Emails, spends : SUBSET Offers]
  BY <1>1, MailFacts
<1>4. w.op = "confirm" =>
         w \in [op : {"confirm"}, user : Users, spends : SUBSET Offers, verifies : BOOLEAN]
  BY <1>1, MailFacts
<1>. HIDE DEF w
<1>5. w.op = "profile" => w.user \in Users /\ w.email \in Emails \cup {""} /\ w.clears \in BOOLEAN
  BY <1>2
<1>6. w.op = "issue" => w.user \in Users /\ w.email \in Emails /\ w.spends \subseteq Offers
  BY <1>3
<1>7. w.op = "confirm" => w.user \in Users /\ w.verifies \in BOOLEAN
  BY <1>4
<1>8. QED
  BY <1>5, <1>6, <1>7 DEF w

LEMMA ExistingToken ==
    ASSUME MailRows, NEW t \in Offers, token[t].state = "live"
    PROVE  token[t] \in Mail!Token
BY MailFacts DEF MailRows

LEMMA TokenChanged ==
    ASSUME MailRows, NEW x \in Mail!Token
    PROVE  /\ [x EXCEPT !.state = "consumed"] \in Mail!Token
           /\ [x EXCEPT !.state = "consumed"].user = x.user
           /\ [x EXCEPT !.state = "consumed"].email = x.email
           /\ [x EXCEPT !.expired = TRUE] \in Mail!Token
           /\ [x EXCEPT !.expired = TRUE].user = x.user
           /\ [x EXCEPT !.expired = TRUE].email = x.email
BY DEF Mail!Token

\* A confirmation is as good as it was if neither its token nor its user's
\* address changed, or the change was recorded.
LEMMA ComparisonStands ==
    ASSUME MailInv, TokensStay, emailOverlapped \subseteq emailOverlapped',
           NEW q \in Requests, emailTxn'[q] = emailTxn[q],
           emailTxn[q].op = "confirm" /\ emailTxn[q].user \notin emailOverlapped' =>
              profile'[emailTxn[q].user].email = profile[emailTxn[q].user].email
    PROVE  StillStands(q)'
<1>1. CASE emailTxn[q].op = "issue"
  <2>1. emailTxn[q].spends \subseteq Offers
    BY <1>1, MailWriteTyped DEF MailInv
  <2>2. QED
    BY <1>1, <2>1 DEF MailInv, StillStands, TokensStay
<1>2. CASE emailTxn[q].op = "confirm"
  <2>1. PICK t \in Offers :
           /\ emailTxn[q].spends = {t} /\ token[t] \in Mail!Token
           /\ token[t].user = emailTxn[q].user
           /\ emailTxn[q].verifies /\ emailTxn[q].user \notin emailOverlapped =>
                 profile[emailTxn[q].user].email = token[t].email
    BY <1>2 DEF MailInv, StillStands
  <2>2. /\ token'[t] \in Mail!Token
        /\ token'[t].user = token[t].user /\ token'[t].email = token[t].email
    BY <2>1 DEF TokensStay
  <2>3. QED
    BY <1>2, <2>1, <2>2 DEF StillStands
<1>3. CASE emailTxn[q].op \notin {"issue", "confirm"}
  BY <1>3 DEF StillStands
<1>4. QED
  BY <1>1, <1>2, <1>3

\* A step that changes no profile and proves nothing.
LEMMA ProfilesStay ==
    ASSUME MailInv, TokensStay, UNCHANGED <<profile, proven, emailOverlapped>>,
           emailTxn' \in [Requests -> MailWrites],
           \A q \in Requests : emailTxn'[q] = emailTxn[q] \/ StillStands(q)'
    PROVE  MailInv'
<1>1. MailRows'
  BY DEF MailInv, MailRows, TokensStay
<1>2. \A q \in Requests : StillStands(q)'
  BY ComparisonStands
<1>3. Mail!ProvenUnlessOverlapped'
  BY DEF MailInv, Mail!ProvenUnlessOverlapped
<1>4. QED
  BY <1>1, <1>2, <1>3 DEF MailInv

LEMMA MailRequestBegins ==
    ASSUME MailInv, NEW r \in Requests, NEW w \in MailWrites, Mail!Begin(r, w),
           w.op = "issue" => \A t \in w.spends : token[t] \in Mail!Token,
           w.op = "confirm" =>
              \E t \in Offers :
                 /\ w.spends = {t} /\ token[t] \in Mail!Token /\ token[t].user = w.user
                 /\ w.verifies => profile[w.user].email = token[t].email
    PROVE  MailInv'
<1>1. /\ emailTxn' = [emailTxn EXCEPT ![r] = w] /\ emailTxn \in [Requests -> MailWrites]
      /\ UNCHANGED <<profile, token, proven, emailOverlapped>>
  BY DEF Mail!Begin, MailInv, MailRows
<1>2. TokensStay
  BY <1>1 DEF TokensStay, MailInv, MailRows
<1>3. /\ emailTxn' \in [Requests -> MailWrites] /\ emailTxn'[r] = w
      /\ \A q \in Requests \ {r} : emailTxn'[q] = emailTxn[q]
  BY <1>1
<1>4. StillStands(r)'
  BY <1>1, <1>3 DEF StillStands
<1>5. QED
  BY <1>1, <1>2, <1>3, <1>4, ProfilesStay

LEMMA MailFinished ==
    ASSUME MailInv, NEW r \in Requests, Mail!Finish(r)
    PROVE  /\ emailTxn' \in [Requests -> MailWrites]
           /\ \A q \in Requests \ {r} : emailTxn'[q] = emailTxn[q]
           /\ StillStands(r)'
<1>1. emailTxn' = [emailTxn EXCEPT ![r] = Mail!Idle] /\ emailTxn \in [Requests -> MailWrites]
  BY DEF Mail!Finish, MailInv, MailRows
<1>2. emailTxn' \in [Requests -> MailWrites] /\ emailTxn'[r].op = "idle"
  BY <1>1, MailFacts DEF MailWrites
<1>3. QED
  BY <1>1, <1>2 DEF StillStands

\* Spending tokens.
LEMMA SpentStays ==
    ASSUME MailRows, NEW ts \in SUBSET Offers,
           \A t \in ts : token[t] \in Mail!Token, token' = Mail!Spent(ts)
    PROVE  TokensStay
<1>1. SUFFICES ASSUME NEW t \in Offers
               PROVE  /\ token'[t] \in Mail!Token \cup {Mail!NoToken}
                      /\ token[t] \in Mail!Token =>
                            /\ token'[t] \in Mail!Token
                            /\ token'[t].user = token[t].user /\ token'[t].email = token[t].email
  <2>1. token' = [t \in Offers |-> token'[t]]
    BY DEF Mail!Spent
  <2>2. QED
    BY <2>1 DEF TokensStay
<1>2. CASE t \in ts
  <2>1. token'[t] = [token[t] EXCEPT !.state = "consumed"]
    BY <1>2 DEF Mail!Spent
  <2>2. QED
    BY <1>2, <2>1, TokenChanged
<1>3. CASE t \notin ts
  <2>1. token'[t] = token[t]
    BY <1>3 DEF Mail!Spent
  <2>2. QED
    BY <2>1 DEF MailRows
<1>4. QED
  BY <1>2, <1>3

\* The tokens spent, and the one an issue inserts.
LEMMA MailIssues ==
    ASSUME MailInv, NEW r \in Requests, NEW t \in Offers, Mail!CommitIssue(r, t)
    PROVE  MailInv'
<1>. DEFINE w == emailTxn[r]
            new == [state |-> "live", user |-> w.user, email |-> w.email, expired |-> FALSE]
            spent == Mail!Spent(w.spends)
<1>1. /\ w.op = "issue" /\ token[t] = Mail!NoToken /\ Mail!Finish(r)
      /\ token' = [spent EXCEPT ![t] = new]
      /\ UNCHANGED <<profile, proven, emailOverlapped>>
  BY DEF Mail!CommitIssue
<1>2. /\ w.user \in Users /\ w.email \in Emails
      /\ \A s \in w.spends : token[s] \in Mail!Token
  BY <1>1, MailWriteTyped DEF MailInv, StillStands
<1>3. new \in Mail!Token
  BY <1>2 DEF Mail!Token
<1>. HIDE DEF new
<1>4. TokensStay
  <2>1. \A s \in Offers : token[s] \in Mail!Token => s # t
    BY <1>1, MailFacts
  <2>2. spent = [s \in Offers |-> spent[s]]
    BY DEF Mail!Spent
  <2>3. /\ token' = [s \in Offers |-> token'[s]]
        /\ token'[t] = new /\ \A s \in Offers \ {t} : token'[s] = spent[s]
    BY <1>1, <2>2
  <2>4. ASSUME NEW s \in Offers
        PROVE  /\ spent[s] \in Mail!Token \cup {Mail!NoToken}
               /\ token[s] \in Mail!Token =>
                     /\ spent[s] \in Mail!Token
                     /\ spent[s].user = token[s].user /\ spent[s].email = token[s].email
    <3>1. CASE s \in w.spends
      <4>1. spent[s] = [token[s] EXCEPT !.state = "consumed"]
        BY <3>1 DEF Mail!Spent
      <4>2. token[s] \in Mail!Token
        BY <1>2, <3>1
      <4>. HIDE DEF spent
      <4>3. QED
        BY <4>1, <4>2, TokenChanged DEF MailInv
    <3>2. CASE s \notin w.spends
      <4>1. spent[s] = token[s]
        BY <3>2 DEF Mail!Spent
      <4>2. QED
        BY <4>1 DEF MailInv, MailRows
    <3>3. QED
      BY <3>1, <3>2
  <2>. HIDE DEF spent
  <2>5. QED
    BY <1>3, <2>1, <2>3, <2>4 DEF TokensStay
<1>5. QED
  BY <1>1, <1>4, MailFinished, ProfilesStay

\* A change of address: the flag is cleared, or the change overlapped a
\* confirmation; and confirmations under way for that user are marked too.
LEMMA MailChanges ==
    ASSUME MailInv, NEW r \in Requests, Mail!CommitProfile(r)
    PROVE  MailInv'
<1>. DEFINE w == emailTxn[r]
            verified == profile[w.user].verified /\ ~w.clears
            row == [email |-> w.email, verified |-> verified]
<1>1. /\ w.op = "profile" /\ Mail!Finish(r) /\ token' = token /\ proven' = proven
      /\ profile' = [profile EXCEPT ![w.user] = row]
      /\ emailOverlapped' = IF Mail!Others(r, "confirm", w.user) # {} \/ verified
                            THEN emailOverlapped \cup {w.user} ELSE emailOverlapped
  BY DEF Mail!CommitProfile
<1>2. w.user \in Users /\ w.email \in Emails \cup {""} /\ w.clears \in BOOLEAN
  BY <1>1, MailWriteTyped DEF MailInv
<1>3. /\ row \in [email : Emails \cup {""}, verified : BOOLEAN]
      /\ row.verified = verified
  BY <1>2
<1>. HIDE DEF verified, row
<1>4. /\ emailOverlapped \subseteq emailOverlapped' /\ emailOverlapped' \subseteq Users
      /\ verified => w.user \in emailOverlapped'
      /\ Mail!Others(r, "confirm", w.user) # {} => w.user \in emailOverlapped'
  BY <1>1, <1>2 DEF MailInv, MailRows
<1>5. /\ profile'[w.user] = row /\ \A u \in Users \ {w.user} : profile'[u] = profile[u]
      /\ profile' \in [Users -> [email : Emails \cup {""}, verified : BOOLEAN]]
  BY <1>1, <1>2, <1>3 DEF MailInv, MailRows
<1>6. TokensStay
  BY <1>1 DEF TokensStay, MailInv, MailRows
<1>7. MailRows'
  BY <1>1, <1>4, <1>5, <1>6, MailFinished DEF MailInv, MailRows, TokensStay
<1>8. ASSUME NEW q \in Requests PROVE StillStands(q)'
  <2>1. CASE q = r
    BY <1>1, <2>1, MailFinished
  <2>2. CASE q # r
    <3>1. emailTxn'[q] = emailTxn[q]
      BY <1>1, <2>2, MailFinished
    <3>2. ASSUME emailTxn[q].op = "confirm", emailTxn[q].user \notin emailOverlapped'
          PROVE  profile'[emailTxn[q].user].email = profile[emailTxn[q].user].email
      <4>1. emailTxn[q].user \in Users
        BY <3>2, MailWriteTyped DEF MailInv
      <4>2. emailTxn[q].user # w.user
        BY <1>4, <2>2, <3>2 DEF Mail!Others
      <4>3. QED
        BY <1>5, <4>1, <4>2
    <3>3. QED
      BY <1>4, <1>6, <3>1, <3>2, ComparisonStands
  <2>3. QED
    BY <2>1, <2>2
<1>9. Mail!ProvenUnlessOverlapped'
  <2>1. SUFFICES ASSUME NEW u \in Users, u \notin emailOverlapped', profile'[u].verified
                 PROVE  <<u, profile'[u].email>> \in proven'
    BY DEF Mail!ProvenUnlessOverlapped
  <2>2. u # w.user
    BY <1>3, <1>4, <1>5, <2>1
  <2>3. QED
    BY <1>1, <1>4, <1>5, <2>1, <2>2 DEF MailInv, Mail!ProvenUnlessOverlapped
<1>10. QED
  BY <1>7, <1>8, <1>9 DEF MailInv

LEMMA MailConfirms ==
    ASSUME MailInv, NEW r \in Requests, Mail!CommitConfirm(r)
    PROVE  MailInv'
<1>. DEFINE w == emailTxn[r]
<1>1. /\ w.op = "confirm" /\ Mail!Finish(r) /\ token' = Mail!Spent(w.spends)
      /\ profile' = IF w.verifies THEN [profile EXCEPT ![w.user].verified = TRUE] ELSE profile
      /\ proven' = IF w.verifies
                   THEN proven \cup {<<w.user, token[s].email>> : s \in w.spends} ELSE proven
      /\ emailOverlapped' = emailOverlapped
  BY DEF Mail!CommitConfirm
<1>2. w.user \in Users /\ w.verifies \in BOOLEAN
  BY <1>1, MailWriteTyped DEF MailInv
<1>3. PICK t \in Offers :
         /\ w.spends = {t} /\ token[t] \in Mail!Token /\ token[t].user = w.user
         /\ w.verifies /\ w.user \notin emailOverlapped => profile[w.user].email = token[t].email
  BY <1>1 DEF MailInv, StillStands
<1>4. TokensStay
  BY <1>1, <1>3, SpentStays DEF MailInv
<1>5. CASE ~w.verifies
  BY <1>1, <1>4, <1>5, MailFinished, ProfilesStay
<1>6. CASE w.verifies
  <2>1. proven' = proven \cup {<<w.user, token[t].email>>}
    BY <1>1, <1>3, <1>6
  <2>2. profile' = [profile EXCEPT ![w.user].verified = TRUE]
    BY <1>1, <1>6
  <2>3. profile[w.user] \in [email : Emails \cup {""}, verified : BOOLEAN]
    BY <1>2 DEF MailInv, MailRows
  <2>4. /\ [profile[w.user] EXCEPT !.verified = TRUE]
              \in [email : Emails \cup {""}, verified : BOOLEAN]
        /\ [profile[w.user] EXCEPT !.verified = TRUE].email = profile[w.user].email
    BY <2>3
  <2>5. /\ profile'[w.user].email = profile[w.user].email
        /\ \A u \in Users \ {w.user} : profile'[u] = profile[u]
        /\ profile' \in [Users -> [email : Emails \cup {""}, verified : BOOLEAN]]
    BY <1>2, <2>2, <2>4 DEF MailInv, MailRows
  <2>6. token[t].email \in Emails
    BY <1>3 DEF Mail!Token
  <2>7. MailRows'
    <3>1. <<w.user, token[t].email>> \in Users \X Emails
      BY <1>2, <2>6
    <3>2. proven' \subseteq Users \X Emails
      BY <2>1, <3>1 DEF MailInv, MailRows
    <3>3. emailTxn' \in [Requests -> MailWrites]
      BY <1>1, MailFinished
    <3>4. QED
      BY <1>1, <1>4, <2>5, <3>2, <3>3 DEF MailInv, MailRows, TokensStay
  <2>8. ASSUME NEW q \in Requests PROVE StillStands(q)'
    <3>1. CASE q = r
      BY <1>1, <3>1, MailFinished
    <3>2. CASE q # r
      <4>1. emailTxn'[q] = emailTxn[q]
        BY <1>1, <3>2, MailFinished
      <4>2. emailTxn[q].op = "confirm" => emailTxn[q].user \in Users
        BY MailWriteTyped DEF MailInv
      <4>3. QED
        BY <1>1, <1>4, <2>5, <4>1, <4>2, ComparisonStands
    <3>3. QED
      BY <3>1, <3>2
  <2>9. Mail!ProvenUnlessOverlapped'
    <3>1. SUFFICES ASSUME NEW u \in Users, u \notin emailOverlapped, profile'[u].verified
                   PROVE  <<u, profile'[u].email>> \in proven'
      BY <1>1 DEF Mail!ProvenUnlessOverlapped
    <3>2. CASE u = w.user
      BY <1>3, <1>6, <2>1, <2>5, <3>1, <3>2
    <3>3. CASE u # w.user
      BY <2>1, <2>5, <3>1, <3>3 DEF MailInv, Mail!ProvenUnlessOverlapped
    <3>4. QED
      BY <3>2, <3>3
  <2>10. QED
    BY <2>7, <2>8, <2>9 DEF MailInv
<1>7. QED
  BY <1>5, <1>6

LEMMA MailRequest ==
    ASSUME MailInv, NEW r \in Requests, Mail!Request(r)
    PROVE  MailInv'
<1>1. ASSUME NEW u \in Users, Mail!Issue(r, u) PROVE MailInv'
  <2>. DEFINE w == [op |-> "issue", user |-> u, email |-> profile[u].email,
                    spends |-> Mail!LiveTokens(u)]
  <2>1. Mail!Begin(r, w) /\ profile[u].email # ""
    BY <1>1 DEF Mail!Issue, Mail!Provable
  <2>2. profile[u].email \in Emails
    BY <2>1 DEF MailInv, MailRows
  <2>3. /\ Mail!LiveTokens(u) \subseteq Offers
        /\ \A t \in Mail!LiveTokens(u) : token[t] \in Mail!Token
    BY ExistingToken DEF Mail!LiveTokens, MailInv
  <2>4. /\ w \in [op : {"issue"}, user : Users, email : Emails, spends : SUBSET Offers]
        /\ w.op = "issue" /\ w.spends = Mail!LiveTokens(u)
    BY <2>2, <2>3
  <2>5. w \in MailWrites
    BY <2>4 DEF MailWrites
  <2>. HIDE DEF w
  <2>6. QED
    BY <2>1, <2>3, <2>4, <2>5, MailRequestBegins
<1>2. ASSUME NEW u \in Users, NEW e \in Emails \cup {""}, Mail!UpdateProfile(r, u, e)
      PROVE  MailInv'
  <2>. DEFINE w == [op |-> "profile", user |-> u, email |-> e, clears |-> profile[u].verified]
  <2>1. Mail!Begin(r, w)
    BY <1>2 DEF Mail!UpdateProfile
  <2>2. profile[u].verified \in BOOLEAN
    BY DEF MailInv, MailRows
  <2>3. w \in MailWrites /\ w.op = "profile"
    BY <2>2 DEF MailWrites
  <2>. HIDE DEF w
  <2>4. QED
    BY <2>1, <2>3, MailRequestBegins
<1>3. ASSUME NEW t \in Offers, Mail!Confirm(r, t) PROVE MailInv'
  <2>. DEFINE verifies == profile[token[t].user].email = token[t].email
              w == [op |-> "confirm", user |-> token[t].user, spends |-> {t},
                    verifies |-> verifies]
  <2>1. Mail!Begin(r, w) /\ token[t].state = "live"
    BY <1>3 DEF Mail!Confirm, Mail!StillTheAddress
  <2>2. token[t] \in Mail!Token
    BY <2>1, ExistingToken DEF MailInv
  <2>3. token[t].user \in Users /\ verifies \in BOOLEAN
    BY <2>2 DEF Mail!Token
  <2>. HIDE DEF verifies
  <2>4. /\ w \in MailWrites /\ w.op = "confirm" /\ w.user = token[t].user
        /\ w.spends = {t} /\ w.verifies = verifies
    BY <2>3 DEF MailWrites
  <2>. HIDE DEF w
  <2>5. w.verifies => profile[w.user].email = token[t].email
    BY <2>4 DEF verifies
  <2>6. QED
    BY <2>1, <2>2, <2>4, <2>5, MailRequestBegins
<1>4. CASE Mail!Rollback(r)
  <2>1. Mail!Finish(r) /\ UNCHANGED <<profile, token, proven, emailOverlapped>>
    BY <1>4 DEF Mail!Rollback
  <2>2. TokensStay
    BY <2>1 DEF TokensStay, MailInv, MailRows
  <2>3. QED
    BY <2>1, <2>2, MailFinished, ProfilesStay
<1>5. QED
  BY <1>1, <1>2, <1>3, <1>4, MailIssues, MailChanges, MailConfirms DEF Mail!Request

LEMMA MailStep == ASSUME MailInv, [Mail!Next]_mailVars PROVE MailInv'
<1>1. ASSUME NEW t \in Offers, Mail!ExpireToken(t) PROVE MailInv'
  <2>1. /\ token[t].state = "live" /\ token' = [token EXCEPT ![t].expired = TRUE]
        /\ UNCHANGED <<profile, emailTxn, proven, emailOverlapped>>
    BY <1>1 DEF Mail!ExpireToken
  <2>2. token[t] \in Mail!Token
    BY <2>1, ExistingToken DEF MailInv
  <2>3. /\ token'[t] = [token[t] EXCEPT !.expired = TRUE]
        /\ token' = [s \in Offers |-> token'[s]]
        /\ \A s \in Offers \ {t} : token'[s] = token[s]
    BY <2>1 DEF MailInv, MailRows
  <2>4. token'[t] \in Mail!Token /\ token'[t].user = token[t].user /\ token'[t].email = token[t].email
    BY <2>2, <2>3, TokenChanged DEF MailInv
  <2>5. TokensStay
    BY <2>3, <2>4 DEF TokensStay, MailInv, MailRows
  <2>6. QED
    BY <2>1, <2>5, ProfilesStay DEF MailInv, MailRows
<1>2. CASE UNCHANGED mailVars
  <2>1. UNCHANGED <<profile, token, emailTxn, proven, emailOverlapped>>
    BY <1>2 DEF mailVars
  <2>2. TokensStay
    BY <2>1 DEF TokensStay, MailInv, MailRows
  <2>3. QED
    BY <2>1, <2>2, ProfilesStay DEF MailInv, MailRows
<1>3. QED
  BY <1>1, <1>2, MailRequest DEF Mail!Next

LEMMA MailStart == ASSUME Mail!Init PROVE MailInv
<1>1. /\ profile = [u \in Users |-> [email |-> "", verified |-> FALSE]]
      /\ token = [t \in Offers |-> Mail!NoToken] /\ proven = {} /\ emailOverlapped = {}
      /\ emailTxn = [r \in Requests |-> Mail!Idle]
  BY DEF Mail!Init
<1>2. MailRows
  BY <1>1 DEF MailRows, MailWrites
<1>3. \A r \in Requests : StillStands(r)
  BY <1>1, MailFacts DEF StillStands
<1>4. Mail!ProvenUnlessOverlapped
  BY <1>1 DEF Mail!ProvenUnlessOverlapped
<1>5. QED
  BY <1>2, <1>3, <1>4 DEF MailInv

LEMMA MailTyped == ASSUME MailInv PROVE Mail!TypeOK
BY DEF MailInv, MailRows, Mail!TypeOK

-----------------------------------------------------------------------------
(* The rate limiter.  Requests of one window that arrive close together    *)
(* are counted by one counter: it is there, and counts them, from the      *)
(* first of them until nobody can be late for the last.                    *)

Starts == {Limit!WindowStart(t) : t \in 0 .. MaxTime}

Span(s) == s .. Limit!MinN(s + Window - 1, MaxTime)

Places(f, times) == UNION {{t} \X (1 .. f[t]) : t \in times}

Tally(f, times) == Cardinality(Places(f, times))

Of(c, s) == <<Limit!Identity(c), s>>

Counters == [Limit!Keys -> [count : Nat, expires : Nat]]

Tallies == [Callers -> [0 .. MaxTime -> Nat]]

LimitRows ==
    /\ now \in 0 .. MaxTime /\ arrivals \in Nat
    /\ counter \in Counters
    /\ arriving \in [Requests -> [caller : Callers, at : 0 .. MaxTime] \cup {Limit!Nobody}]
    /\ admitted \in Tallies /\ prompt \in Tallies

Timely ==
    \A p \in Requests :
        arriving[p] # Limit!Nobody => arriving[p].at <= now /\ now <= arriving[p].at + MaxDelay

ExpireInTime == \A k \in Limit!Keys : counter[k].expires <= now + Limit!TimeToLive

\* Who arrives at these times reaches Redis by then, and a counter is not gone
\* by then if it counted any of them.
Close(times, delay, by) == \A t \in times : t + delay <= by /\ by <= t + Window

\* What a counter k tells of a tally of requests that it counted.
Told(f, k, time, times, by) ==
    /\ Tally(f, times) <= Quota
    /\ time <= by =>
          /\ Tally(f, times) <= k.count
          /\ Tally(f, times) > 0 => k.expires > by

AllTold(f, counters, time, delay) ==
    \A c \in Callers, s \in Starts :
        \A times \in SUBSET Span(s), by \in Nat :
            Close(times, delay, by) => Told(f[c], counters[Of(c, s)], time, times, by)

UsedUp ==
    \A c \in Callers, s \in Starts :
        Limit!MinN(counter[Of(c, s)].count, Quota) <= Tally(admitted[c], Span(s))

LimitInv ==
    /\ LimitRows /\ Timely /\ ExpireInTime
    /\ AllTold(admitted, counter, now, MaxDelay)
    /\ AllTold(prompt, counter, now, 1)
    /\ UsedUp

LEMMA LimitAssumptions ==
    /\ Quota \in Nat \ {0} /\ Window \in Nat \ {0} /\ MaxTime \in Nat /\ MaxArrivals \in Nat
    /\ MaxDelay \in Nat /\ 2 * MaxDelay <= Window + 2
BY AccountsAssumption DEF Limit!LimitAssumption

-----------------------------------------------------------------------------
(* Windows.                                                                *)

LEMMA StartOf ==
    ASSUME NEW t \in Nat
    PROVE  /\ Limit!WindowStart(t) \in Nat
           /\ Limit!WindowStart(t) <= t /\ t < Limit!WindowStart(t) + Window
           /\ \E q \in Nat : Limit!WindowStart(t) = Window * q
<1>1. Window \in Nat \ {0}
  BY LimitAssumptions
<1>2. t % Window \in 0 .. Window - 1 /\ t % Window <= t
  BY <1>1
<1>3. t = Window * (t \div Window) + (t % Window) /\ t \div Window \in Nat
  BY <1>1
<1>4. t - (t % Window) = Window * (t \div Window)
  BY <1>1, <1>2, <1>3
<1>5. QED
  BY <1>1, <1>2, <1>3, <1>4 DEF Limit!WindowStart

\* Starts are a window apart.
LEMMA Aligned ==
    ASSUME NEW p \in Nat, NEW q \in Nat, NEW f \in Nat, NEW t \in Nat,
           Window * p <= f, f < Window * p + Window,
           Window * q <= t, t < Window * q + Window, f <= t, t < f + Window
    PROVE  Window * q = Window * p \/ Window * q = Window * p + Window
<1>1. Window \in Nat \ {0}
  BY LimitAssumptions
<1>2. q >= p
  BY <1>1, Z3
<1>3. q <= p + 1
  BY <1>1, Z3
<1>4. q = p \/ q = p + 1
  BY <1>2, <1>3
<1>5. QED
  BY <1>1, <1>4

LEMMA NextStart ==
    ASSUME NEW f \in Nat, NEW t \in Nat, f <= t, t < f + Window
    PROVE  \/ Limit!WindowStart(t) = Limit!WindowStart(f)
           \/ Limit!WindowStart(t) = Limit!WindowStart(f) + Window
<1>1. PICK p \in Nat : Limit!WindowStart(f) = Window * p
  BY StartOf
<1>2. PICK q \in Nat : Limit!WindowStart(t) = Window * q
  BY StartOf
<1>3. /\ Window * p <= f /\ f < Window * p + Window
      /\ Window * q <= t /\ t < Window * q + Window
  BY <1>1, <1>2, StartOf
<1>4. Window * q = Window * p \/ Window * q = Window * p + Window
  BY <1>3, Aligned
<1>5. QED
  BY <1>1, <1>2, <1>4

LEMMA InSpan ==
    ASSUME NEW s \in Starts, NEW t \in 0 .. MaxTime
    PROVE  /\ s \in Nat
           /\ Span(s) \subseteq 0 .. MaxTime
           /\ t \in Span(Limit!WindowStart(t)) /\ Limit!WindowStart(t) \in Starts
           /\ t \in Span(s) => Limit!WindowStart(t) = s
<1>1. PICK u \in 0 .. MaxTime : s = Limit!WindowStart(u)
  BY DEF Starts
<1>2. MaxTime \in Nat /\ Window \in Nat \ {0} /\ t \in Nat /\ u \in Nat
  BY LimitAssumptions
<1>3. s \in Nat /\ s <= u
  BY <1>1, <1>2, StartOf
<1>4. Limit!WindowStart(t) \in Nat /\ Limit!WindowStart(t) <= t /\ t < Limit!WindowStart(t) + Window
  BY <1>2, StartOf
<1>5. t \in Span(Limit!WindowStart(t)) /\ Limit!WindowStart(t) \in Starts
  BY <1>2, <1>4 DEF Span, Limit!MinN, Starts
<1>6. Span(s) \subseteq 0 .. MaxTime
  BY <1>2, <1>3 DEF Span, Limit!MinN
<1>7. ASSUME t \in Span(s) PROVE Limit!WindowStart(t) = s
  <2>1. s <= t /\ t < s + Window
    BY <1>2, <1>3, <1>7 DEF Span, Limit!MinN
  <2>2. PICK p \in Nat : s = Window * p
    BY <1>1, <1>2, StartOf
  <2>3. PICK q \in Nat : Limit!WindowStart(t) = Window * q
    BY <1>2, StartOf
  <2>4. /\ Window * p <= s /\ s < Window * p + Window
        /\ Window * q <= t /\ t < Window * q + Window
    BY <1>2, <1>3, <1>4, <2>2, <2>3
  <2>5. Window * q = Window * p \/ Window * q = Window * p + Window
    BY <1>2, <1>3, <2>1, <2>4, Aligned
  <2>6. QED
    BY <1>2, <1>3, <1>4, <2>1, <2>2, <2>3, <2>5
<1>8. QED
  BY <1>3, <1>5, <1>6, <1>7

-----------------------------------------------------------------------------
(* Counting.                                                               *)

\* A place is a time and a number.
LEMMA PlaceOf ==
    ASSUME NEW f, NEW times, NEW a
    PROVE  a \in Places(f, times)
              <=> a = <<a[1], a[2]>> /\ a[1] \in times /\ a[2] \in 1 .. f[a[1]]
<1>1. a \in Places(f, times) <=> \E t \in times : a \in {t} \X (1 .. f[t])
  BY DEF Places
<1>2. ASSUME NEW t
      PROVE  a \in {t} \X (1 .. f[t]) <=> a = <<a[1], a[2]>> /\ a[1] = t /\ a[2] \in 1 .. f[t]
  OBVIOUS
<1>3. QED
  BY <1>1, <1>2

LEMMA PlacesFinite ==
    ASSUME NEW f \in [0 .. MaxTime -> Nat], NEW times \in SUBSET (0 .. MaxTime)
    PROVE  IsFiniteSet(Places(f, times)) /\ Tally(f, times) \in Nat
<1>1. IsFiniteSet(times)
  <2>1. 0 \in Int /\ MaxTime \in Int
    BY LimitAssumptions
  <2>2. IsFiniteSet(0 .. MaxTime)
    BY <2>1, FS_Interval
  <2>3. QED
    BY <2>2, FS_Subset
<1>. DEFINE Column(t) == {t} \X (1 .. f[t])
            Columns == {Column(t) : t \in times}
            column == [t \in times |-> Column(t)]
<1>2. IsFiniteSet(Columns)
  <2>1. column \in Surjection(times, Columns)
    BY DEF Surjection
  <2>. HIDE DEF Columns, column
  <2>2. QED
    BY <1>1, <2>1, FS_Surjection
<1>3. \A t \in times : IsFiniteSet(Column(t))
  <2>1. SUFFICES ASSUME NEW t \in times PROVE IsFiniteSet(Column(t))
    OBVIOUS
  <2>2. f[t] \in Int /\ 1 \in Int
    OBVIOUS
  <2>3. IsFiniteSet({t}) /\ IsFiniteSet(1 .. f[t])
    BY <2>2, FS_Interval, FS_Singleton
  <2>4. QED
    BY <2>3, FS_Product
<1>4. \A C \in Columns : IsFiniteSet(C)
  BY <1>3
<1>5. IsFiniteSet(UNION Columns)
  <2>. HIDE DEF Columns
  <2>. QED
    BY <1>2, <1>4, FS_UNION
<1>6. IsFiniteSet(Places(f, times))
  BY <1>5 DEF Places
<1>7. QED
  BY <1>6, FS_CardinalityType DEF Tally

LEMMA TallyNone ==
    ASSUME NEW f, NEW times, \A t \in times : f[t] = 0
    PROVE  Tally(f, times) = 0
<1>1. \A a : a \notin Places(f, times)
  BY PlaceOf
<1>2. Places(f, times) = {}
  BY <1>1
<1>3. QED
  BY <1>2, FS_EmptySet DEF Tally

LEMMA TallyUp ==
    ASSUME NEW f \in [0 .. MaxTime -> Nat], NEW times \in SUBSET (0 .. MaxTime),
           NEW t \in times
    PROVE  Tally([f EXCEPT ![t] = @ + 1], times) = Tally(f, times) + 1
<1>. DEFINE g == [f EXCEPT ![t] = @ + 1]
            new == <<t, f[t] + 1>>
<1>1. g[t] = f[t] + 1 /\ (\A u \in times \ {t} : g[u] = f[u]) /\ f[t] \in Nat
  OBVIOUS
<1>2. new[1] = t /\ new[2] = f[t] + 1
  OBVIOUS
<1>. HIDE DEF g
<1>3. new \notin Places(f, times)
  <2>1. ~(f[t] + 1 \in 1 .. f[t])
    BY <1>1
  <2>. HIDE DEF new
  <2>2. new \in Places(f, times) => new[2] \in 1 .. f[new[1]]
    BY PlaceOf
  <2>3. QED
    BY <1>2, <2>1, <2>2
<1>4. Places(g, times) = Places(f, times) \cup {new}
  <2>1. ASSUME NEW a
        PROVE  a \in Places(g, times) <=> a \in Places(f, times) \/ a = new
    <3>1. CASE a = <<a[1], a[2]>> /\ a[1] = t
      <4>1. a[2] \in 1 .. g[t] <=> a[2] \in 1 .. f[t] \/ a[2] = f[t] + 1
        BY <1>1
      <4>2. a = new <=> a[2] = f[t] + 1
        BY <3>1
      <4>. HIDE DEF new
      <4>3. QED
        BY <3>1, <4>1, <4>2, PlaceOf
    <3>2. CASE ~(a = <<a[1], a[2]>> /\ a[1] = t)
      <4>1. a # new
        BY <3>2
      <4>2. a = <<a[1], a[2]>> /\ a[1] \in times => g[a[1]] = f[a[1]]
        BY <1>1, <3>2
      <4>. HIDE DEF new
      <4>3. /\ a \in Places(g, times)
                  <=> a = <<a[1], a[2]>> /\ a[1] \in times /\ a[2] \in 1 .. g[a[1]]
            /\ a \in Places(f, times)
                  <=> a = <<a[1], a[2]>> /\ a[1] \in times /\ a[2] \in 1 .. f[a[1]]
        BY PlaceOf
      <4>4. QED
        BY <4>1, <4>2, <4>3
    <3>3. QED
      BY <3>1, <3>2
  <2>. HIDE DEF new
  <2>2. QED
    BY <2>1
<1>. HIDE DEF new
<1>5. Cardinality(Places(f, times) \cup {new}) = Cardinality(Places(f, times)) + 1
  BY <1>3, PlacesFinite, FS_AddElement
<1>6. QED
  BY <1>4, <1>5 DEF Tally, g

LEMMA TallySame ==
    ASSUME NEW f, NEW g, NEW times, \A u \in times : g[u] = f[u]
    PROVE  Tally(g, times) = Tally(f, times)
<1>1. \A a : a \in Places(g, times) <=> a \in Places(f, times)
  BY PlaceOf
<1>2. Places(g, times) = Places(f, times)
  BY <1>1
<1>3. QED
  BY <1>2 DEF Tally

LEMMA TallyJoin ==
    ASSUME NEW f \in [0 .. MaxTime -> Nat],
           NEW A \in SUBSET (0 .. MaxTime), NEW B \in SUBSET (0 .. MaxTime),
           NEW times, times \subseteq A \cup B
    PROVE  Tally(f, times) \in Nat /\ Tally(f, times) <= Tally(f, A) + Tally(f, B)
<1>1. Places(f, times) \subseteq Places(f, A) \cup Places(f, B)
  BY DEF Places
<1>2. IsFiniteSet(Places(f, A)) /\ IsFiniteSet(Places(f, B))
  BY PlacesFinite
<1>3. /\ IsFiniteSet(Places(f, A) \cup Places(f, B))
      /\ Cardinality(Places(f, A) \cup Places(f, B))
            = Cardinality(Places(f, A)) + Cardinality(Places(f, B))
              - Cardinality(Places(f, A) \cap Places(f, B))
  BY <1>2, FS_Union
<1>4. Cardinality(Places(f, A) \cap Places(f, B)) \in Nat
  BY <1>2, FS_Intersection, FS_CardinalityType
<1>5. /\ Cardinality(Places(f, A)) \in Nat /\ Cardinality(Places(f, B)) \in Nat
      /\ Cardinality(Places(f, times)) \in Nat
      /\ Cardinality(Places(f, times)) <= Cardinality(Places(f, A) \cup Places(f, B))
  BY <1>1, <1>2, <1>3, FS_Subset, FS_CardinalityType
<1>6. QED
  BY <1>3, <1>4, <1>5 DEF Tally

\* The properties count the same places.
LEMMA ArrivedIsTally ==
    ASSUME NEW f, NEW times, NEW t
    PROVE  Limit!Arrived(f, times) = Tally(f, times) /\ Limit!Stretch(t) = Span(t)
BY SameCardinality DEF Limit!Arrived, Tally, Places, Limit!Stretch, Span

\* The same party, and nobody else, has the same counter.
LEMMA SameCounter ==
    ASSUME NEW c, NEW d
    PROVE  Limit!SameParty(c, d) <=> Limit!Identity(c) = Limit!Identity(d)
<1>1. CASE c.account # None
  BY <1>1 DEF Limit!SameParty, Limit!Identity
<1>2. CASE c.account = None /\ c.key # None
  BY <1>2 DEF Limit!SameParty, Limit!Identity
<1>3. CASE c.account = None /\ c.key = None
  BY <1>3 DEF Limit!SameParty, Limit!Identity
<1>4. QED
  BY <1>1, <1>2, <1>3

LEMMA CounterOf ==
    ASSUME NEW c \in Callers, NEW s \in Starts
    PROVE  Of(c, s) \in Limit!Keys
BY DEF Of, Limit!Keys, Limit!Identities, Starts

-----------------------------------------------------------------------------
(* Steps.                                                                  *)

LEMMA LimitStart == ASSUME Limit!Init PROVE LimitInv
<1>1. /\ now = 0 /\ arrivals = 0 /\ counter = [k \in Limit!Keys |-> Limit!NoCounter]
      /\ arriving = [p \in Requests |-> Limit!Nobody]
      /\ admitted = [c \in Callers |-> [t \in 0 .. MaxTime |-> 0]] /\ prompt = admitted
  BY DEF Limit!Init
<1>2. /\ Limit!NoCounter \in [count : Nat, expires : Nat]
      /\ Limit!NoCounter.count = 0 /\ Limit!NoCounter.expires = 0
  BY DEF Limit!NoCounter
<1>3. LimitRows
  BY <1>1, <1>2, LimitAssumptions DEF LimitRows, Counters, Tallies
<1>4. Timely /\ ExpireInTime
  BY <1>1, <1>2, LimitAssumptions DEF Timely, ExpireInTime, Limit!TimeToLive
<1>5. \A s \in Starts : Span(s) \subseteq 0 .. MaxTime
  <2>1. 0 \in 0 .. MaxTime
    BY LimitAssumptions
  <2>2. QED
    BY <2>1, InSpan
<1>6. ASSUME NEW c \in Callers, NEW s \in Starts, NEW times \in SUBSET Span(s)
      PROVE  Tally(admitted[c], times) = 0 /\ counter[Of(c, s)].count = 0
  <2>1. \A t \in times : admitted[c][t] = 0
    BY <1>1, <1>5
  <2>2. QED
    BY <1>1, <1>2, <2>1, TallyNone, CounterOf
<1>7. AllTold(admitted, counter, now, MaxDelay) /\ AllTold(prompt, counter, now, 1)
  <2>1. ASSUME NEW c \in Callers, NEW s \in Starts, NEW times \in SUBSET Span(s), NEW by
        PROVE  Told(admitted[c], counter[Of(c, s)], now, times, by)
    BY <1>6, LimitAssumptions DEF Told
  <2>2. prompt = admitted
    BY <1>1
  <2>3. QED
    BY <2>1, <2>2 DEF AllTold
<1>8. UsedUp
  BY <1>6, LimitAssumptions DEF UsedUp, Limit!MinN
<1>9. QED
  BY <1>3, <1>4, <1>7, <1>8 DEF LimitInv

\* Steps that count nobody.
LEMMA NobodyCounted ==
    ASSUME LimitInv, UNCHANGED <<now, counter, admitted, prompt>>, arrivals' \in Nat,
           arriving' \in [Requests -> [caller : Callers, at : 0 .. MaxTime] \cup {Limit!Nobody}],
           Timely'
    PROVE  LimitInv'
<1>1. LimitRows' /\ ExpireInTime' /\ UsedUp'
  BY DEF LimitInv, LimitRows, ExpireInTime, UsedUp
<1>2. AllTold(admitted, counter, now, MaxDelay)' /\ AllTold(prompt, counter, now, 1)'
  BY DEF LimitInv, AllTold
<1>3. QED
  BY <1>1, <1>2 DEF LimitInv

LEMMA RequestArrives ==
    ASSUME LimitInv, NEW p \in Requests, NEW c \in Callers, Limit!Arrive(p, c)
    PROVE  LimitInv'
<1>. DEFINE w == [caller |-> c, at |-> now]
<1>1. /\ arriving' = [arriving EXCEPT ![p] = w] /\ arrivals' = arrivals + 1
      /\ UNCHANGED <<now, counter, admitted, prompt>>
  BY DEF Limit!Arrive
<1>2. /\ now \in 0 .. MaxTime /\ w \in [caller : Callers, at : 0 .. MaxTime] /\ w.at = now
      /\ arrivals + 1 \in Nat
  BY DEF LimitInv, LimitRows
<1>. HIDE DEF w
<1>3. arriving' \in [Requests -> [caller : Callers, at : 0 .. MaxTime] \cup {Limit!Nobody}]
  BY <1>1, <1>2 DEF LimitInv, LimitRows
<1>4. Timely'
  <2>1. SUFFICES ASSUME NEW q \in Requests, arriving'[q] # Limit!Nobody
                 PROVE  arriving'[q].at <= now' /\ now' <= arriving'[q].at + MaxDelay
    BY DEF Timely
  <2>2. CASE q = p
    BY <1>1, <1>2, <2>2, LimitAssumptions DEF LimitInv, LimitRows
  <2>3. CASE q # p
    BY <1>1, <2>1, <2>3 DEF LimitInv, LimitRows, Timely
  <2>4. QED
    BY <2>2, <2>3
<1>5. QED
  BY <1>1, <1>2, <1>3, <1>4, NobodyCounted

LEMMA RequestLeaves ==
    ASSUME LimitInv, NEW p \in Requests, Limit!Leave(p)
    PROVE  /\ arriving' \in [Requests -> [caller : Callers, at : 0 .. MaxTime]
                                             \cup {Limit!Nobody}]
           /\ arrivals' \in Nat /\ now' = now /\ arriving[p] # Limit!Nobody
           /\ Timely'
<1>1. arriving' \in [Requests -> [caller : Callers, at : 0 .. MaxTime] \cup {Limit!Nobody}]
  BY DEF LimitInv, LimitRows, Limit!Leave
<1>2. Timely'
  BY DEF LimitInv, LimitRows, Timely, Limit!Leave
<1>3. QED
  BY <1>1, <1>2 DEF LimitInv, LimitRows, Limit!Leave

\* What a counter tells stays true when it goes: it tells nothing any more of
\* times that somebody can still be late for.
LEMMA ToldLater ==
    ASSUME NEW f, NEW times, NEW by \in Nat, NEW time \in Nat, Tally(f, times) \in Nat,
           NEW k \in [count : Nat, expires : Nat], NEW l,
           Told(f, k, time, times, by),
           l = k \/ (l.count = 0 /\ k.expires <= time + 1)
    PROVE  Told(f, l, time + 1, times, by)
<1>1. ASSUME time + 1 <= by
      PROVE  Tally(f, times) <= l.count /\ (Tally(f, times) > 0 => l.expires > by)
  <2>1. time <= by
    BY <1>1
  <2>2. CASE l = k
    BY <2>1, <2>2 DEF Told
  <2>3. CASE l.count = 0 /\ k.expires <= time + 1
    <3>1. ~(k.expires > by)
      BY <1>1, <2>3
    <3>2. Tally(f, times) = 0
      BY <2>1, <3>1 DEF Told
    <3>3. QED
      BY <2>3, <3>2
  <2>4. QED
    BY <2>2, <2>3
<1>2. QED
  BY <1>1 DEF Told

LEMMA TimePasses ==
    ASSUME LimitInv, Limit!Tick
    PROVE  LimitInv'
<1>1. /\ now < MaxTime /\ now' = now + 1 /\ UNCHANGED <<arrivals, arriving, admitted, prompt>>
      /\ \A p \in Requests : arriving[p] # Limit!Nobody => now < arriving[p].at + MaxDelay
      /\ counter' = [k \in Limit!Keys |->
                        IF counter[k].expires <= now + 1 THEN Limit!NoCounter ELSE counter[k]]
  BY DEF Limit!Tick
<1>2. /\ now \in 0 .. MaxTime /\ now \in Nat /\ MaxTime \in Nat /\ MaxDelay \in Nat
      /\ Quota \in Nat /\ Window \in Nat \ {0}
  BY LimitAssumptions DEF LimitInv, LimitRows
<1>3. Limit!NoCounter \in [count : Nat, expires : Nat] /\ Limit!NoCounter.count = 0
      /\ Limit!NoCounter.expires = 0
  BY DEF Limit!NoCounter
<1>4. \A k \in Limit!Keys :
         /\ \/ counter'[k] = counter[k]
            \/ counter'[k] = Limit!NoCounter /\ counter[k].expires <= now + 1
         /\ counter[k] \in [count : Nat, expires : Nat]
  BY <1>1, <1>2 DEF LimitInv, LimitRows, Counters
<1>5. LimitRows'
  <2>1. counter' \in Counters
    BY <1>1, <1>3, <1>4 DEF Counters
  <2>2. QED
    BY <1>1, <1>2, <2>1 DEF LimitInv, LimitRows
<1>6. Timely'
  <2>1. SUFFICES ASSUME NEW p \in Requests, arriving[p] # Limit!Nobody
                 PROVE  arriving[p].at <= now + 1 /\ now + 1 <= arriving[p].at + MaxDelay
    BY <1>1 DEF Timely
  <2>2. arriving[p].at <= now /\ now < arriving[p].at + MaxDelay
    BY <1>1, <2>1 DEF LimitInv, Timely
  <2>3. arriving[p].at \in Nat
    BY <2>1 DEF LimitInv, LimitRows
  <2>4. QED
    BY <1>2, <2>2, <2>3
<1>7. ExpireInTime'
  <2>1. SUFFICES ASSUME NEW k \in Limit!Keys
                 PROVE  counter'[k].expires <= now + 1 + Limit!TimeToLive
    BY <1>1 DEF ExpireInTime
  <2>2. counter[k].expires <= now + Limit!TimeToLive /\ counter[k].expires \in Nat
    BY <1>4 DEF LimitInv, ExpireInTime
  <2>3. Limit!TimeToLive \in Nat
    BY <1>2 DEF Limit!TimeToLive
  <2>4. QED
    BY <1>2, <1>3, <1>4, <2>2, <2>3
<1>8. ASSUME NEW f \in Tallies, NEW delay, AllTold(f, counter, now, delay)
      PROVE  AllTold(f, counter', now + 1, delay)
  <2>1. SUFFICES ASSUME NEW c \in Callers, NEW s \in Starts, NEW times \in SUBSET Span(s),
                        NEW by \in Nat, Close(times, delay, by)
                 PROVE  Told(f[c], counter'[Of(c, s)], now + 1, times, by)
    BY DEF AllTold
  <2>2. Told(f[c], counter[Of(c, s)], now, times, by)
    BY <1>8, <2>1 DEF AllTold
  <2>3. Of(c, s) \in Limit!Keys
    BY CounterOf
  <2>4. Tally(f[c], times) \in Nat
    <3>1. f[c] \in [0 .. MaxTime -> Nat] /\ times \in SUBSET (0 .. MaxTime)
      BY <1>2, InSpan DEF Tallies
    <3>2. QED
      BY <3>1, PlacesFinite
  <2>5. QED
    BY <1>2, <1>3, <1>4, <2>2, <2>3, <2>4, ToldLater
<1>9. AllTold(admitted, counter, now, MaxDelay)' /\ AllTold(prompt, counter, now, 1)'
  BY <1>1, <1>8 DEF LimitInv, LimitRows
<1>10. UsedUp'
  <2>1. SUFFICES ASSUME NEW c \in Callers, NEW s \in Starts
                 PROVE  Limit!MinN(counter'[Of(c, s)].count, Quota) <= Tally(admitted[c], Span(s))
    BY <1>1 DEF UsedUp
  <2>2. Limit!MinN(counter[Of(c, s)].count, Quota) <= Tally(admitted[c], Span(s))
    BY DEF LimitInv, UsedUp
  <2>3. Tally(admitted[c], Span(s)) \in Nat
    <3>1. admitted[c] \in [0 .. MaxTime -> Nat] /\ Span(s) \in SUBSET (0 .. MaxTime)
      BY <1>2, InSpan DEF LimitInv, LimitRows, Tallies
    <3>2. QED
      BY <3>1, PlacesFinite
  <2>4. Limit!MinN(0, Quota) = 0
    BY <1>2 DEF Limit!MinN
  <2>5. QED
    BY <1>3, <1>4, <2>2, <2>3, <2>4, CounterOf
<1>11. QED
  BY <1>5, <1>6, <1>7, <1>9, <1>10 DEF LimitInv

LEMMA TallyTyped ==
    ASSUME NEW f \in [0 .. MaxTime -> Nat], NEW t \in 0 .. MaxTime
    PROVE  [f EXCEPT ![t] = @ + 1] \in [0 .. MaxTime -> Nat]
OBVIOUS

LEMMA OneMoreTyped ==
    ASSUME NEW f \in Tallies, NEW c, NEW t \in 0 .. MaxTime
    PROVE  Limit!OneMore(f, c, t) \in Tallies
<1>1. ASSUME NEW d \in Callers
      PROVE  /\ f[d] \in [0 .. MaxTime -> Nat]
             /\ [f[d] EXCEPT ![t] = @ + 1] \in [0 .. MaxTime -> Nat]
  <2>1. f[d] \in [0 .. MaxTime -> Nat]
    BY DEF Tallies
  <2>2. QED
    BY <2>1, TallyTyped
<1>2. QED
  BY <1>1 DEF Limit!OneMore, Tallies

\* One more is one more at its time, for its party.
LEMMA OneMoreCounts ==
    ASSUME NEW f \in Tallies, NEW c \in Callers, NEW d \in Callers, NEW t \in 0 .. MaxTime,
           NEW times \in SUBSET (0 .. MaxTime)
    PROVE  /\ Tally(f[d], times) \in Nat
           /\ Tally(Limit!OneMore(f, c, t)[d], times)
                 = Tally(f[d], times)
                   + IF Limit!SameParty(c, d) /\ t \in times THEN 1 ELSE 0
<1>. DEFINE g == Limit!OneMore(f, c, t)
<1>1. f[d] \in [0 .. MaxTime -> Nat]
  BY DEF Tallies
<1>2. g[d] = IF Limit!SameParty(c, d) THEN [f[d] EXCEPT ![t] = @ + 1] ELSE f[d]
  BY DEF Limit!OneMore
<1>3. Tally(f[d], times) \in Nat
  BY <1>1, PlacesFinite
<1>. HIDE DEF g
<1>4. CASE Limit!SameParty(c, d) /\ t \in times
  <2>1. Tally([f[d] EXCEPT ![t] = @ + 1], times) = Tally(f[d], times) + 1
    BY <1>1, <1>4, TallyUp
  <2>2. Tally(g[d], times) = Tally(f[d], times) + 1
    BY <1>2, <1>4, <2>1
  <2>3. QED
    BY <1>3, <1>4, <2>2 DEF g
<1>5. CASE ~(Limit!SameParty(c, d) /\ t \in times)
  <2>1. \A u \in times : g[d][u] = f[d][u]
    BY <1>1, <1>2, <1>5
  <2>2. Tally(g[d], times) = Tally(f[d], times)
    BY <2>1, TallySame
  <2>3. QED
    BY <1>3, <1>5, <2>2 DEF g
<1>6. QED
  BY <1>4, <1>5

\* What the counters tell after one of them, k, counted a request that arrived
\* at t.
LEMMA ToldCounted ==
    ASSUME NEW f \in Tallies, NEW g, NEW delay \in Nat, NEW counters \in Counters,
           NEW counters2 \in Counters, NEW time \in Nat,
           NEW c \in Callers, NEW t \in 0 .. MaxTime, NEW k, k = Of(c, Limit!WindowStart(t)),
           t <= time,
           \A j \in Limit!Keys \ {k} : counters2[j] = counters[j],
           counters[k].expires <= time + Window + 1, counters2[k].expires = time + Window + 1,
           counters[k].count + 1 <= Quota => counters2[k].count = counters[k].count + 1,
           ~(counters[k].count + 1 <= Quota) => counters2[k].count > Quota,
           \/ g = f
           \/ /\ counters[k].count + 1 <= Quota /\ time <= t + delay
              /\ g = Limit!OneMore(f, c, t),
           AllTold(f, counters, time, delay)
    PROVE  AllTold(g, counters2, time, delay)
<1>1. SUFFICES ASSUME NEW d \in Callers, NEW u \in Starts, NEW times \in SUBSET Span(u),
                      NEW by \in Nat, Close(times, delay, by)
               PROVE  Told(g[d], counters2[Of(d, u)], time, times, by)
  BY DEF AllTold
<1>. DEFINE s == Limit!WindowStart(t)
            m == Tally(f[d], times)
<1>2. /\ Quota \in Nat \ {0} /\ Window \in Nat \ {0} /\ MaxTime \in Nat /\ t \in Nat
      /\ s \in Starts /\ Of(d, u) \in Limit!Keys /\ k \in Limit!Keys
      /\ times \in SUBSET (0 .. MaxTime)
  BY LimitAssumptions, InSpan, CounterOf
<1>3. /\ m \in Nat
      /\ Tally(Limit!OneMore(f, c, t)[d], times)
            = m + IF Limit!SameParty(c, d) /\ t \in times THEN 1 ELSE 0
  BY <1>2, OneMoreCounts
<1>4. Told(f[d], counters[Of(d, u)], time, times, by)
  BY <1>1 DEF AllTold
<1>5. Limit!SameParty(c, d) /\ t \in times <=> Of(d, u) = k /\ t \in times
  <2>1. t \in times => u = s
    BY <1>2, InSpan
  <2>2. QED
    BY <2>1, SameCounter DEF Of
<1>6. counters[k] \in [count : Nat, expires : Nat] /\ counters2[k] \in [count : Nat, expires : Nat]
  BY <1>2 DEF Counters
<1>7. CASE Of(d, u) # k
  <2>1. counters2[Of(d, u)] = counters[Of(d, u)]
    BY <1>2, <1>7
  <2>2. Tally(g[d], times) = m
    BY <1>3, <1>5, <1>7
  <2>3. QED
    BY <1>4, <2>1, <2>2 DEF Told
<1>8. CASE Of(d, u) = k
  <2>. DEFINE n == counters[k].count
              l == counters2[k]
  <2>1. m <= Quota /\ (time <= by => m <= n /\ (m > 0 => counters[k].expires > by))
    BY <1>4, <1>8 DEF Told
  <2>2. CASE g = f \/ t \notin times
    <3>1. Tally(g[d], times) = m
      BY <1>3, <2>2
    <3>2. time <= by => m <= l.count
      BY <1>2, <1>3, <1>6, <2>1
    <3>3. time <= by /\ m > 0 => l.expires > by
      BY <1>2, <1>3, <1>6, <2>1
    <3>4. QED
      BY <1>8, <2>1, <3>1, <3>2, <3>3 DEF Told
  <2>3. CASE g # f /\ t \in times
    <3>1. n + 1 <= Quota /\ time <= t + delay /\ g = Limit!OneMore(f, c, t) /\ l.count = n + 1
      BY <2>3
    <3>2. t + delay <= by /\ by <= t + Window
      BY <1>1, <2>3 DEF Close
    <3>3. time <= by
      BY <1>2, <3>1, <3>2
    <3>4. Tally(g[d], times) = m + 1
      BY <1>3, <1>5, <1>8, <2>3, <3>1
    <3>5. m + 1 <= Quota /\ m + 1 <= l.count
      BY <1>2, <1>3, <1>6, <2>1, <3>1, <3>3
    <3>6. l.expires > by
      BY <1>2, <3>2
    <3>7. QED
      BY <1>8, <3>4, <3>5, <3>6 DEF Told
  <2>4. QED
    BY <2>2, <2>3
<1>9. QED
  BY <1>7, <1>8

\* A request is counted: the counter of its window goes up, and what is let
\* through goes up with it as long as the counter is within the quota.
LEMMA RequestCounted ==
    ASSUME LimitInv, NEW p \in Requests, Limit!Leave(p), Limit!Increment(p)
    PROVE  /\ LimitInv'
           /\ admitted' = admitted =>
                 Quota <= Tally(admitted[arriving[p].caller],
                                Span(Limit!WindowStart(arriving[p].at)))
<1>. DEFINE c == arriving[p].caller
            t == arriving[p].at
            s == Limit!WindowStart(t)
            k == Of(c, s)
            n == counter[k].count
            row == [count |-> Limit!Saturated(n + 1), expires |-> now + Limit!TimeToLive]
<1>1. /\ counter' = [counter EXCEPT ![k] = row]
      /\ n + 1 <= Quota => Limit!Admit(c, t)
      /\ ~(n + 1 <= Quota) => UNCHANGED <<admitted, prompt>>
  BY DEF Limit!Increment, Limit!WithinLimit, Of
<1>2. /\ arriving' \in [Requests -> [caller : Callers, at : 0 .. MaxTime] \cup {Limit!Nobody}]
      /\ arrivals' \in Nat /\ now' = now /\ arriving[p] # Limit!Nobody /\ Timely'
  BY RequestLeaves
<1>3. c \in Callers /\ t \in 0 .. MaxTime /\ t <= now /\ now <= t + MaxDelay /\ now \in 0 .. MaxTime
  BY <1>2 DEF LimitInv, LimitRows, Timely
<1>4. /\ Quota \in Nat \ {0} /\ Window \in Nat \ {0} /\ MaxTime \in Nat /\ MaxDelay \in Nat
      /\ now \in Nat
  BY <1>3, LimitAssumptions
<1>5. /\ s \in Starts /\ t \in Span(s) /\ Span(s) \in SUBSET (0 .. MaxTime)
  <2>1. s \in Starts
    BY <1>3 DEF Starts
  <2>2. QED
    BY <1>3, <2>1, InSpan
<1>6. k \in Limit!Keys /\ n \in Nat /\ counter[k].expires <= now + Window + 1
  <2>1. k \in Limit!Keys
    BY <1>3, <1>5, CounterOf
  <2>2. counter[k].expires <= now + Limit!TimeToLive /\ counter[k] \in [count : Nat, expires : Nat]
    BY <2>1 DEF LimitInv, LimitRows, Counters, ExpireInTime
  <2>3. QED
    BY <1>4, <2>1, <2>2 DEF Limit!TimeToLive
<1>7. /\ row \in [count : Nat, expires : Nat] /\ row.expires = now + Window + 1
      /\ n + 1 <= Quota => row.count = n + 1
      /\ ~(n + 1 <= Quota) => row.count > Quota
  <2>1. Limit!Saturated(n + 1) \in Nat
    BY <1>4, <1>6 DEF Limit!Saturated, Limit!MinN
  <2>2. now + Limit!TimeToLive \in Nat /\ now + Limit!TimeToLive = now + Window + 1
    BY <1>4 DEF Limit!TimeToLive
  <2>3. /\ n + 1 <= Quota => Limit!Saturated(n + 1) = n + 1
        /\ ~(n + 1 <= Quota) => Limit!Saturated(n + 1) > Quota
    BY <1>4, <1>6 DEF Limit!Saturated, Limit!MinN
  <2>4. QED
    BY <2>1, <2>2, <2>3
<1>. HIDE DEF row
<1>8. /\ counter' \in Counters /\ counter \in Counters
      /\ counter'[k] = row /\ \A j \in Limit!Keys \ {k} : counter'[j] = counter[j]
  BY <1>1, <1>6, <1>7 DEF LimitInv, LimitRows, Counters
<1>9. ExpireInTime'
  <2>1. SUFFICES ASSUME NEW j \in Limit!Keys PROVE counter'[j].expires <= now + Limit!TimeToLive
    BY <1>2 DEF ExpireInTime
  <2>2. counter[j].expires <= now + Limit!TimeToLive
    BY DEF LimitInv, ExpireInTime
  <2>3. now + Limit!TimeToLive = now + Window + 1
    BY <1>4 DEF Limit!TimeToLive
  <2>4. QED
    BY <1>4, <1>7, <1>8, <2>2, <2>3
<1>10. /\ ~(n + 1 <= Quota) => admitted' = admitted /\ prompt' = prompt
       /\ n + 1 <= Quota =>
             /\ admitted' = Limit!OneMore(admitted, c, t)
             /\ prompt' = IF now <= t + 1 THEN Limit!OneMore(prompt, c, t) ELSE prompt
  BY <1>1 DEF Limit!Admit
<1>11. admitted \in Tallies /\ prompt \in Tallies /\ admitted' \in Tallies /\ prompt' \in Tallies
  BY <1>3, <1>10, OneMoreTyped DEF LimitInv, LimitRows
<1>12. LimitRows'
  BY <1>2, <1>3, <1>8, <1>11 DEF LimitRows
<1>. HIDE DEF c, t, s, k, n
<1>13. /\ k = Of(c, Limit!WindowStart(t))
       /\ counter'[k].expires = now + Window + 1
       /\ counter[k].count + 1 <= Quota => counter'[k].count = counter[k].count + 1
       /\ ~(counter[k].count + 1 <= Quota) => counter'[k].count > Quota
  BY <1>7, <1>8 DEF k, s, n
<1>14. AllTold(admitted', counter', now, MaxDelay)
  <2>1. AllTold(admitted, counter, now, MaxDelay)
    BY DEF LimitInv
  <2>2. \/ admitted' = admitted
        \/ /\ counter[k].count + 1 <= Quota /\ now <= t + MaxDelay
           /\ admitted' = Limit!OneMore(admitted, c, t)
    BY <1>3, <1>10 DEF n
  <2>3. QED
    BY <1>3, <1>4, <1>6, <1>8, <1>11, <1>13, <2>1, <2>2, ToldCounted
<1>15. AllTold(prompt', counter', now, 1)
  <2>1. AllTold(prompt, counter, now, 1)
    BY DEF LimitInv
  <2>2. \/ prompt' = prompt
        \/ /\ counter[k].count + 1 <= Quota /\ now <= t + 1
           /\ prompt' = Limit!OneMore(prompt, c, t)
    BY <1>10 DEF n
  <2>3. 1 \in Nat
    OBVIOUS
  <2>4. QED
    BY <1>3, <1>4, <1>6, <1>8, <1>11, <1>13, <2>1, <2>2, <2>3, ToldCounted
<1>16. UsedUp'
  <2>1. SUFFICES ASSUME NEW d \in Callers, NEW u \in Starts
                 PROVE  Limit!MinN(counter'[Of(d, u)].count, Quota) <= Tally(admitted'[d], Span(u))
    BY DEF UsedUp
  <2>. DEFINE m == Tally(admitted[d], Span(u))
  <2>2. Limit!MinN(counter[Of(d, u)].count, Quota) <= m
    BY DEF LimitInv, UsedUp
  <2>3. Of(d, u) \in Limit!Keys /\ Span(u) \in SUBSET (0 .. MaxTime)
    BY <1>3, CounterOf, InSpan
  <2>4. /\ m \in Nat
        /\ Tally(Limit!OneMore(admitted, c, t)[d], Span(u))
              = m + IF Limit!SameParty(c, d) /\ t \in Span(u) THEN 1 ELSE 0
    BY <1>3, <1>11, <2>3, OneMoreCounts
  <2>5. m <= Tally(admitted'[d], Span(u)) /\ Tally(admitted'[d], Span(u)) \in Nat
    BY <1>10, <2>4
  <2>6. CASE Of(d, u) # k
    <3>1. counter'[Of(d, u)] = counter[Of(d, u)]
      BY <1>8, <2>3, <2>6
    <3>2. counter[Of(d, u)].count \in Nat
      BY <1>8, <2>3 DEF Counters
    <3>3. QED
      BY <1>4, <2>2, <2>4, <2>5, <3>1, <3>2 DEF Limit!MinN
  <2>7. CASE Of(d, u) = k
    <3>1. Limit!SameParty(c, d) /\ t \in Span(u)
      <4>1. u = s
        BY <2>7 DEF Of, k
      <4>2. QED
        BY <1>5, <2>7, <4>1, SameCounter DEF Of, k
    <3>2. CASE n + 1 <= Quota
      <4>1. Tally(admitted'[d], Span(u)) = m + 1
        BY <1>10, <2>4, <3>1, <3>2
      <4>2. counter'[Of(d, u)].count = n + 1 /\ counter[Of(d, u)].count = n
        BY <1>7, <1>8, <2>7, <3>2 DEF n
      <4>3. n <= m
        BY <1>4, <1>6, <2>2, <3>2, <4>2 DEF Limit!MinN
      <4>4. QED
        BY <1>4, <1>6, <2>4, <3>2, <4>1, <4>2, <4>3 DEF Limit!MinN
    <3>3. CASE ~(n + 1 <= Quota)
      <4>1. counter'[Of(d, u)].count > Quota /\ counter'[Of(d, u)].count \in Nat
        BY <1>7, <1>8, <2>7, <3>3
      <4>2. counter[Of(d, u)].count = n
        BY <2>7 DEF n
      <4>3. Quota <= m
        BY <1>4, <1>6, <2>2, <3>3, <4>2 DEF Limit!MinN
      <4>4. QED
        BY <1>4, <2>4, <2>5, <4>1, <4>3 DEF Limit!MinN
    <3>4. QED
      BY <3>2, <3>3
  <2>8. QED
    BY <2>6, <2>7
<1>17. ASSUME admitted' = admitted
       PROVE  Quota <= Tally(admitted[c], Span(s))
  <2>1. /\ Tally(admitted[c], Span(s)) \in Nat
        /\ Tally(Limit!OneMore(admitted, c, t)[c], Span(s))
              = Tally(admitted[c], Span(s))
                + IF Limit!SameParty(c, c) /\ t \in Span(s) THEN 1 ELSE 0
    BY <1>3, <1>5, <1>11, OneMoreCounts
  <2>2. Limit!SameParty(c, c)
    BY SameCounter
  <2>3. ~(n + 1 <= Quota)
    BY <1>5, <1>10, <1>17, <2>1, <2>2
  <2>4. Limit!MinN(n, Quota) <= Tally(admitted[c], Span(s))
    BY <1>3, <1>5 DEF LimitInv, UsedUp, n, k
  <2>5. QED
    BY <1>4, <1>6, <2>3, <2>4 DEF Limit!MinN
<1>18. AllTold(admitted, counter, now, MaxDelay)' /\ AllTold(prompt, counter, now, 1)'
  BY <1>2, <1>14, <1>15
<1>19. QED
  BY <1>2, <1>9, <1>12, <1>16, <1>17, <1>18 DEF LimitInv, c, s, t

LEMMA LimitStep == ASSUME LimitInv, [Limit!Next]_limitVars PROVE LimitInv'
<1>1. ASSUME NEW p \in Requests, Limit!Consume(p) \/ Limit!PassDegraded(p) PROVE LimitInv'
  <2>1. Limit!Leave(p)
    BY <1>1 DEF Limit!Consume, Limit!PassDegraded
  <2>2. CASE Limit!Increment(p)
    BY <2>1, <2>2, RequestCounted
  <2>3. CASE UNCHANGED <<counter, admitted, prompt>>
    BY <2>1, <2>3, RequestLeaves, NobodyCounted
  <2>4. QED
    BY <1>1, <2>2, <2>3 DEF Limit!Consume, Limit!PassDegraded
<1>2. CASE UNCHANGED limitVars
  <2>1. UNCHANGED <<now, arrivals, counter, arriving, admitted, prompt>>
    BY <1>2 DEF limitVars
  <2>2. /\ arriving' \in [Requests -> [caller : Callers, at : 0 .. MaxTime]
                                         \cup {Limit!Nobody}]
        /\ arrivals' \in Nat /\ Timely'
    BY <2>1 DEF LimitInv, LimitRows, Timely
  <2>3. QED
    BY <2>1, <2>2, NobodyCounted
<1>3. QED
  BY <1>1, <1>2, RequestArrives, TimePasses DEF Limit!Next

-----------------------------------------------------------------------------
(* What is let through.                                                    *)

\* Requests of one window that are close together are at most the quota.
LEMMA CloseOnes ==
    ASSUME NEW f \in Tallies, NEW delay, AllTold(f, counter, now, delay),
           NEW c \in Callers, NEW s \in Starts, NEW times \in SUBSET Span(s),
           NEW by \in Nat, Close(times, delay, by)
    PROVE  Tally(f[c], times) <= Quota
BY DEF AllTold, Told

\* The requests of a window are twice the quota at most: those that reach Redis
\* while any counter of the window is still there, and the late ones.
LEMMA OneWindow ==
    ASSUME LimitInv, NEW c \in Callers, NEW s \in Starts, NEW times \in SUBSET Span(s)
    PROVE  Tally(admitted[c], times) <= 2 * Quota
<1>1. /\ Quota \in Nat /\ Window \in Nat \ {0} /\ MaxTime \in Nat /\ MaxDelay \in Nat
      /\ 2 * MaxDelay <= Window + 2
  BY LimitAssumptions
<1>2. 0 \in 0 .. MaxTime
  BY <1>1
<1>3. s \in Nat /\ Span(s) \subseteq 0 .. MaxTime
  BY <1>2, InSpan
<1>4. \A t \in times : t \in Nat /\ s <= t /\ t <= s + Window - 1
  BY <1>1, <1>3 DEF Span, Limit!MinN
<1>. DEFINE early == {t \in times : t + MaxDelay <= s + Window}
            late == times \ early
<1>5. Close(early, MaxDelay, s + Window)
  BY <1>1, <1>3, <1>4 DEF Close
<1>6. Close(late, MaxDelay, s + Window - 1 + MaxDelay)
  BY <1>1, <1>3, <1>4 DEF Close
<1>7. /\ s + Window \in Nat /\ s + Window - 1 + MaxDelay \in Nat
      /\ early \in SUBSET Span(s) /\ late \in SUBSET Span(s)
      /\ times \subseteq early \cup late
  BY <1>1, <1>3
<1>. HIDE DEF early, late
<1>8. admitted \in Tallies /\ AllTold(admitted, counter, now, MaxDelay)
  BY DEF LimitInv, LimitRows
<1>9. Tally(admitted[c], early) <= Quota /\ Tally(admitted[c], late) <= Quota
  BY <1>5, <1>6, <1>7, <1>8, CloseOnes
<1>10. /\ Tally(admitted[c], times) \in Nat
       /\ Tally(admitted[c], times) <= Tally(admitted[c], early) + Tally(admitted[c], late)
       /\ Tally(admitted[c], early) \in Nat /\ Tally(admitted[c], late) \in Nat
  <2>1. admitted[c] \in [0 .. MaxTime -> Nat]
    BY <1>8 DEF Tallies
  <2>2. early \in SUBSET (0 .. MaxTime) /\ late \in SUBSET (0 .. MaxTime)
    BY <1>3, <1>7
  <2>3. QED
    BY <1>7, <2>1, <2>2, TallyJoin, PlacesFinite
<1>11. QED
  BY <1>1, <1>9, <1>10

\* Any stretch as long as a window lies in two of them.  If the part in the
\* first of them is short, nobody in it is early; else nobody in the second is
\* late.
LEMMA NearlyHolds == ASSUME LimitInv PROVE Limit!LimitNearlyHolds
<1>1. SUFFICES ASSUME NEW c \in Callers, NEW first \in 0 .. MaxTime
               PROVE  /\ Tally(prompt[c], Span(first)) <= 2 * Quota
                      /\ Tally(admitted[c], Span(first)) <= 3 * Quota
  BY ArrivedIsTally DEF Limit!LimitNearlyHolds
<1>. DEFINE s == Limit!WindowStart(first)
            A == {t \in Span(first) : Limit!WindowStart(t) = s}
            B == {t \in Span(first) : Limit!WindowStart(t) = s + Window}
<1>2. /\ Quota \in Nat /\ Window \in Nat \ {0} /\ MaxTime \in Nat /\ MaxDelay \in Nat
      /\ 2 * MaxDelay <= Window + 2 /\ first \in Nat /\ s \in Nat
      /\ s <= first /\ first < s + Window
  BY LimitAssumptions, StartOf
<1>3. \A t \in Span(first) :
         /\ t \in 0 .. MaxTime /\ t \in Nat /\ first <= t /\ t < first + Window
         /\ t \in Span(Limit!WindowStart(t)) /\ Limit!WindowStart(t) \in Starts
         /\ Limit!WindowStart(t) <= t /\ t < Limit!WindowStart(t) + Window
         /\ Limit!WindowStart(t) = s \/ Limit!WindowStart(t) = s + Window
  <2>1. SUFFICES ASSUME NEW t \in Span(first)
                 PROVE  /\ t \in 0 .. MaxTime /\ t \in Nat /\ first <= t /\ t < first + Window
                        /\ t \in Span(Limit!WindowStart(t)) /\ Limit!WindowStart(t) \in Starts
                        /\ Limit!WindowStart(t) <= t /\ t < Limit!WindowStart(t) + Window
                        /\ Limit!WindowStart(t) = s \/ Limit!WindowStart(t) = s + Window
    OBVIOUS
  <2>2. t \in 0 .. MaxTime /\ t \in Nat /\ first <= t /\ t < first + Window
    BY <1>2 DEF Span, Limit!MinN
  <2>3. t \in Span(Limit!WindowStart(t)) /\ Limit!WindowStart(t) \in Starts
    <3>1. Limit!WindowStart(t) \in Starts
      BY <2>2 DEF Starts
    <3>2. QED
      BY <2>2, <3>1, InSpan
  <2>4. QED
    BY <1>2, <2>2, <2>3, NextStart, StartOf
<1>. HIDE DEF s
<1>4. /\ A \in SUBSET Span(s) /\ B \in SUBSET Span(s + Window)
      /\ A \in SUBSET (0 .. MaxTime) /\ B \in SUBSET (0 .. MaxTime)
      /\ Span(first) \subseteq A \cup B
      /\ \A t \in A : t \in Nat /\ first <= t /\ t < s + Window
      /\ \A t \in B : t \in Nat /\ s + Window <= t /\ t < first + Window
  BY <1>3
<1>5. (A # {} => s \in Starts) /\ (B # {} => s + Window \in Starts)
  BY <1>3
<1>. HIDE DEF A, B
<1>6. /\ admitted \in Tallies /\ AllTold(admitted, counter, now, MaxDelay)
      /\ prompt \in Tallies /\ AllTold(prompt, counter, now, 1)
  BY DEF LimitInv, LimitRows
<1>7. ASSUME NEW f \in Tallies
      PROVE  /\ Tally(f[c], {}) = 0
             /\ Tally(f[c], A) \in Nat /\ Tally(f[c], B) \in Nat
             /\ Tally(f[c], Span(first)) \in Nat
             /\ Tally(f[c], Span(first)) <= Tally(f[c], A) + Tally(f[c], B)
  <2>1. f[c] \in [0 .. MaxTime -> Nat]
    BY DEF Tallies
  <2>2. QED
    BY <1>4, <2>1, TallyNone, TallyJoin, PlacesFinite
<1>8. ASSUME NEW f \in Tallies, NEW delay \in Nat, AllTold(f, counter, now, delay)
      PROVE  /\ \A by \in Nat : Close(A, delay, by) => Tally(f[c], A) <= Quota
             /\ \A by \in Nat : Close(B, delay, by) => Tally(f[c], B) <= Quota
  <2>1. (A = {} => Tally(f[c], A) <= Quota) /\ (B = {} => Tally(f[c], B) <= Quota)
    <3>1. Tally(f[c], {}) = 0
      BY <1>7
    <3>2. QED
      BY <1>2, <3>1
  <2>2. ASSUME NEW by \in Nat, A # {}, Close(A, delay, by) PROVE Tally(f[c], A) <= Quota
    BY <1>4, <1>5, <1>8, <2>2, CloseOnes
  <2>3. ASSUME NEW by \in Nat, B # {}, Close(B, delay, by) PROVE Tally(f[c], B) <= Quota
    BY <1>4, <1>5, <1>8, <2>3, CloseOnes
  <2>4. QED
    BY <2>1, <2>2, <2>3
<1>9. Tally(prompt[c], Span(first)) <= 2 * Quota
  <2>1. Close(A, 1, s + Window) /\ Close(B, 1, s + Window + Window)
    BY <1>2, <1>4 DEF Close
  <2>2. s + Window \in Nat /\ s + Window + Window \in Nat /\ 1 \in Nat
    BY <1>2
  <2>3. Tally(prompt[c], A) <= Quota /\ Tally(prompt[c], B) <= Quota
    BY <1>6, <1>8, <2>1, <2>2
  <2>4. QED
    BY <1>2, <1>6, <1>7, <2>3
<1>10. Tally(admitted[c], A) <= 2 * Quota /\ Tally(admitted[c], B) <= 2 * Quota
  <2>1. A # {} => Tally(admitted[c], A) <= 2 * Quota
    BY <1>4, <1>5, OneWindow
  <2>2. B # {} => Tally(admitted[c], B) <= 2 * Quota
    BY <1>4, <1>5, OneWindow
  <2>3. Tally(admitted[c], {}) = 0
    BY <1>6, <1>7
  <2>4. QED
    BY <1>2, <2>1, <2>2, <2>3
<1>11. Tally(admitted[c], A) <= Quota \/ Tally(admitted[c], B) <= Quota
  <2>1. CASE first + 1 >= s + MaxDelay
    <3>1. Close(A, MaxDelay, s + Window - 1 + MaxDelay)
      BY <1>2, <1>4, <2>1 DEF Close
    <3>2. s + Window - 1 + MaxDelay \in Nat
      BY <1>2
    <3>3. QED
      BY <1>2, <1>6, <1>8, <3>1, <3>2
  <2>2. CASE ~(first + 1 >= s + MaxDelay)
    <3>1. Close(B, MaxDelay, s + Window + Window)
      BY <1>2, <1>4, <2>2 DEF Close
    <3>2. s + Window + Window \in Nat
      BY <1>2
    <3>3. QED
      BY <1>2, <1>6, <1>8, <3>1, <3>2
  <2>3. QED
    BY <2>1, <2>2
<1>12. Tally(admitted[c], Span(first)) <= 3 * Quota
  BY <1>2, <1>6, <1>7, <1>10, <1>11
<1>13. QED
  BY <1>9, <1>12

LEMMA RefusedForOwn ==
    ASSUME LimitInv, [Limit!Next]_limitVars
    PROVE  Limit!RefusesForOwnUse
<1>1. SUFFICES ASSUME NEW p \in Requests, arriving[p] # Limit!Nobody,
                      arriving'[p] = Limit!Nobody, counter' # counter, admitted' = admitted
               PROVE  Tally(admitted[arriving[p].caller],
                            Span(Limit!WindowStart(arriving[p].at))) >= Quota
  BY ArrivedIsTally DEF Limit!RefusesForOwnUse
<1>2. CASE UNCHANGED limitVars
  BY <1>1, <1>2 DEF limitVars
<1>3. CASE Limit!Tick
  BY <1>1, <1>3 DEF Limit!Tick
<1>4. ASSUME NEW q \in Requests, NEW c \in Callers, Limit!Arrive(q, c)
      PROVE  FALSE
  BY <1>1, <1>4 DEF Limit!Arrive
<1>5. ASSUME NEW q \in Requests, Limit!Consume(q) \/ Limit!PassDegraded(q)
      PROVE  Tally(admitted[arriving[p].caller],
                   Span(Limit!WindowStart(arriving[p].at))) >= Quota
  <2>1. Limit!Leave(q) /\ Limit!Increment(q)
    BY <1>1, <1>5 DEF Limit!Consume, Limit!PassDegraded
  <2>2. p = q
    BY <1>1, <2>1 DEF LimitInv, LimitRows, Limit!Leave
  <2>3. Quota <= Tally(admitted[arriving[q].caller],
                       Span(Limit!WindowStart(arriving[q].at)))
    BY <1>1, <2>1, RequestCounted
  <2>4. QED
    BY <2>2, <2>3
<1>6. QED
  BY <1>2, <1>3, <1>4, <1>5 DEF Limit!Next

LEMMA LimitTyped == ASSUME LimitInv PROVE Limit!TypeOK
BY DEF LimitInv, LimitRows, Counters, Tallies, Limit!TypeOK


-----------------------------------------------------------------------------
(* Together.                                                               *)

AccountsInv ==
    /\ part \in {"organizations", "sign-in", "e-mail", "keys", "limit"}
    /\ part = "organizations" => OrgInv
    /\ part = "sign-in" => SignInv
    /\ part = "e-mail" => MailInv
    /\ part = "keys" => KeyInv
    /\ part = "limit" => LimitInv

LEMMA Start == Init => AccountsInv
BY OrgStart, SignStart, MailStart, KeyStart, LimitStart DEF Init, AccountsInv

\* A step is one of the component the behaviour is of.
LEMMA OwnStep ==
    ASSUME [Next]_vars
    PROVE  /\ part' = part
           /\ part = "organizations" => [Org!Next]_orgVars
           /\ part = "sign-in" => [Sign!Next]_signVars
           /\ part = "e-mail" => [Mail!Next]_mailVars
           /\ part = "keys" => [Api!Next]_keyVars
           /\ part = "limit" => [Limit!Next]_limitVars
BY DEF Next, vars

LEMMA Step == ASSUME AccountsInv, [Next]_vars PROVE AccountsInv'
BY OwnStep, OrgStep, SignStep, MailStep, KeyStep, LimitStep DEF AccountsInv

LEMMA Invariant == Spec => []AccountsInv
BY Start, Step, PTL DEF Spec

\* Every component's rows are well formed.
THEOREM RowsWellFormed == Spec => []TypeOK
<1>1. AccountsInv => TypeOK
  BY OrgPromises, SignPromises, MailTyped, KeysBounded, LimitTyped DEF AccountsInv, TypeOK
<1>2. QED
  BY <1>1, Invariant, PTL

\* Whoever is a member and did not found the team accepted an invitation that
\* nobody had withdrawn, and has at most one open (organizations/service.py).
THEOREM MembersHaveConsented == Spec => []MembersConsented
<1>1. AccountsInv => MembersConsented
  BY OrgPromises DEF AccountsInv, MembersConsented
<1>2. QED
  BY <1>1, Invariant, PTL

\* A team keeps an owner as long as no two requests that take one from it
\* overlap (update_member_role, remove_member, leave_org).
THEOREM TeamsStayOwned == Spec => []OwnedUnlessOverlapped
<1>1. AccountsInv => OwnedUnlessOverlapped
  BY OrgPromises DEF AccountsInv, OwnedUnlessOverlapped
<1>2. QED
  BY <1>1, Invariant, PTL

\* One session comes of a nonce, however many requests present it at once
\* (consume_nonce).
THEOREM NoncesAreSpentOnce == Spec => []NonceSpentOnce
<1>1. AccountsInv => NonceSpentOnce
  BY SignPromises DEF AccountsInv, NonceSpentOnce
<1>2. QED
  BY <1>1, Invariant, PTL

\* An account with a wallet has exactly one to be paid at, however its
\* sign-ins overlap (_ensure_wallet_record).
THEOREM OneWalletToPay == Spec => []ExactlyOnePayoutWallet
<1>1. AccountsInv => ExactlyOnePayoutWallet
  BY SignPromises DEF AccountsInv, ExactlyOnePayoutWallet
<1>2. QED
  BY <1>1, Invariant, PTL

\* Once its sessions have ended, an account is reopened by a signature only
\* (refresh_session, revoke_all_sessions).
THEOREM OnlySignaturesReopen == Spec => SignedOutUntilSignIn
<1>1. AccountsInv /\ [Next]_vars => [part = "sign-in" => Sign!StaysSignedOut]_signVars
  BY OwnStep, SignStep DEF AccountsInv
<1>2. QED
  BY <1>1, Invariant, PTL DEF Spec, SignedOutUntilSignIn

\* A verified address was proven by a token sent to it, unless a change of
\* address overlapped a confirmation (update_profile, confirm_email_verification).
THEOREM AddressesAreProven == Spec => []ProvenUnlessOverlapped
<1>1. AccountsInv => ProvenUnlessOverlapped
  BY DEF AccountsInv, MailInv, ProvenUnlessOverlapped
<1>2. QED
  BY <1>1, Invariant, PTL

\* No request that loaded a key before its revocation undoes it (revoke_api_key,
\* _touch_last_used).
THEOREM RevokedForGood == Spec => RevocationSticks
<1>1. AccountsInv /\ [Next]_vars => [part = "keys" => Api!StaysRevoked]_keyVars
  BY OwnStep, KeyStep DEF AccountsInv
<1>2. QED
  BY <1>1, Invariant, PTL DEF Spec, RevocationSticks

\* The limit of keys is passed by at most the overlapping requests but one.  If
\* no request takes more than half a window to reach Redis (LimitAssumption), a
\* caller has at most three times its quota let through in any stretch of a
\* window's length, and twice among those that take a second at most; and it is
\* refused only after its own use (create_api_key, rate_limit.check).
THEOREM LimitsPassedByOverlapsOnly == Spec => LimitsNearlyHold
<1>1. AccountsInv => (part = "keys" => Api!KeysNearLimit)
  BY KeysBounded DEF AccountsInv
<1>2. AccountsInv => (part = "limit" => Limit!LimitNearlyHolds)
  BY NearlyHolds DEF AccountsInv
<1>3. AccountsInv /\ [Next]_vars => [part = "limit" => Limit!RefusesForOwnUse]_limitVars
  BY OwnStep, RefusedForOwn DEF AccountsInv
<1>4. QED
  BY <1>1, <1>2, <1>3, Invariant, PTL DEF Spec, LimitsNearlyHold
=============================================================================
