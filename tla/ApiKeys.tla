------------------------------ MODULE ApiKeys --------------------------------
(***************************************************************************)
(* The API keys of one organization (apps/api/app/modules/apikeys) and     *)
(* what a request made with one may do (api/deps.py: get_principal,        *)
(* require_scopes).                                                        *)
(*                                                                         *)
(* Minting loads the number of active keys and inserts later; using a key  *)
(* loads it, and then writes and commits the time of its last use.  Both   *)
(* can be overtaken, by a revocation or by each other.  Names and the      *)
(* secret itself are left out: a key is found by the hash of its token.    *)
(***************************************************************************)
EXTENDS Naturals, FiniteSets

CONSTANTS Keys, Users, Requests,
          Scopes,           \* the scope catalogue
          MaxActiveKeys     \* MAX_ACTIVE_KEYS_PER_ORG

KeysAssumption ==
    /\ MaxActiveKeys \in Nat \ {0}
    /\ IsFiniteSet(Keys)
    /\ IsFiniteSet(Requests)

VARIABLES key,              \* key[k]: the row of api_keys
          standing,         \* standing[u]: whether u may act in the organization
          txn               \* what each open request will write

vars == <<key, standing, txn>>

-----------------------------------------------------------------------------
NoKey == [minted |-> FALSE]

Key == [minted : {TRUE}, creator : Users, scopes : SUBSET Scopes,
        revoked : BOOLEAN, expired : BOOLEAN, used : BOOLEAN]

\* An expired key that nobody revoked still counts.
Active == {k \in Keys : key[k].minted /\ ~key[k].revoked}

Idle == [op |-> "idle"]

Begin(r, write) ==
    /\ txn[r] = Idle
    /\ txn' = [txn EXCEPT ![r] = write]
    /\ UNCHANGED <<key, standing>>

Finish(r) == txn' = [txn EXCEPT ![r] = Idle]

BelowLimit == Cardinality(Active) < MaxActiveKeys

\* create_api_key, by a member whose role permits it.
Create(r, u, scopes) ==
    /\ standing[u] = "member"
    /\ BelowLimit
    /\ Begin(r, [op |-> "create", creator |-> u, scopes |-> scopes])

CommitCreate(r, k) ==
    /\ txn[r].op = "create"
    /\ key[k] = NoKey
    /\ key' = [key EXCEPT ![k] =
            [minted |-> TRUE, creator |-> txn[r].creator, scopes |-> txn[r].scopes,
             revoked |-> FALSE, expired |-> FALSE, used |-> FALSE]]
    /\ Finish(r)
    /\ UNCHANGED standing

\* revoke_api_key: setting an unrevoked key's revocation, whoever does it first.
Revoke(u, k) ==
    /\ standing[u] = "member"
    /\ k \in Active
    /\ key' = [key EXCEPT ![k].revoked = TRUE]
    /\ UNCHANGED <<standing, txn>>

\* The account may act, and is still a member of the key's organization.
MayAct(u) == standing[u] = "member"

\* authenticate, then the scopes the endpoint requires.
Authenticate(r, k, needed) ==
    /\ k \in Active
    /\ ~key[k].expired
    /\ MayAct(key[k].creator)
    /\ needed \subseteq key[k].scopes
    /\ Begin(r, [op |-> "use", key |-> k, row |-> key[k]])

RowAsLoaded(loaded, now) == [loaded EXCEPT !.used = TRUE]

\* _touch_last_used sends the one column that changed, and only once in a
\* while; used says that it has been sent lately.
Touched(loaded, now) == IF loaded.used THEN now ELSE [now EXCEPT !.used = TRUE]

\* The touch is committed, then the handler acts.
Use(r) ==
    LET w == txn[r] IN
    /\ w.op = "use"
    /\ key' = [key EXCEPT ![w.key] = Touched(w.row, key[w.key])]
    /\ Finish(r)
    /\ UNCHANGED standing

\* The handler fails, or the process dies.
Rollback(r) ==
    /\ txn[r] # Idle
    /\ Finish(r)
    /\ UNCHANGED <<key, standing>>

\* LAST_USED_THROTTLE passes; the key's lifetime passes.
Age(k) ==
    /\ key[k].minted
    /\ \/ key[k].used /\ key' = [key EXCEPT ![k].used = FALSE]
       \/ ~key[k].expired /\ key' = [key EXCEPT ![k].expired = TRUE]
    /\ UNCHANGED <<standing, txn>>

\* A member leaves or is removed, and may be invited again; an account is
\* suspended, and reinstated (Organizations, SignIn).
ChangeStanding(u, to) ==
    /\ standing[u] # to
    /\ standing' = [standing EXCEPT ![u] = to]
    /\ UNCHANGED <<key, txn>>

-----------------------------------------------------------------------------
Init ==
    /\ key = [k \in Keys |-> NoKey]
    /\ standing = [u \in Users |-> "member"]
    /\ txn = [r \in Requests |-> Idle]

Request(r) ==
    \/ \E u \in Users, scopes \in SUBSET Scopes : Create(r, u, scopes)
    \/ \E k \in Keys : CommitCreate(r, k) \/ \E scope \in Scopes : Authenticate(r, k, {scope})
    \/ Use(r)
    \/ Rollback(r)

Next ==
    \/ \E r \in Requests : Request(r)
    \/ \E k \in Keys : Age(k) \/ \E u \in Users : Revoke(u, k)
    \/ \E u \in Users, to \in {"member", "gone"} : ChangeStanding(u, to)

Spec == Init /\ [][Next]_vars

-----------------------------------------------------------------------------
TypeOK ==
    /\ key \in [Keys -> Key \cup {NoKey}]
    /\ standing \in [Users -> {"member", "gone"}]
    /\ \A r \in Requests : txn[r].op \in {"idle", "create", "use"}

\* The limit is read before the key is written, so overlapping requests can
\* pass it together; they never pass it by more than the requests there are
\* besides one (create_api_key).
KeysNearLimit == Cardinality(Active) <= MaxActiveKeys + Cardinality(Requests) - 1

\* A revoked key stays revoked, although requests that loaded it before still
\* write its row (revoke_api_key, _touch_last_used).
StaysRevoked == \A k \in Keys : key[k].minted /\ key[k].revoked => key'[k].revoked

RevocationSticks == [][StaysRevoked]_vars
=============================================================================
