------------------------------- MODULE SignIn --------------------------------
(***************************************************************************)
(* Signing in with a wallet, and the sessions that follow                  *)
(* (apps/api/app/modules/auth/service.py, api/deps.py).                    *)
(*                                                                         *)
(* A handler is one READ COMMITTED transaction.  Where it decides on rows  *)
(* it has loaded without a lock (the user, the wallets, the session to     *)
(* rotate), loading and committing are two steps here, and others commit   *)
(* in between; a single conditional UPDATE is one step.  A sign-in spends  *)
(* its nonce by such an UPDATE first, and holds that row's lock until it   *)
(* ends.                                                                   *)
(*                                                                         *)
(* A sign-in that fails is rolled back whole (get_db): it leaves nothing,  *)
(* not even its nonce spent.  The personal organization of a new user is created *)
(* in the same transaction and has the same key, so it is not told apart   *)
(* from the user.  Times are flags that are set when they have passed.     *)
(***************************************************************************)
EXTENDS Naturals, FiniteSets

CONSTANTS Addresses,        \* wallets; the account of one is its user
          Chains,           \* accepted_chain_ids
          Nonces,
          Sessions,
          Requests,         \* requests that run at the same time
          Anyone            \* the address of a nonce that is not bound

SignInAssumption ==
    /\ Anyone \notin Addresses
    /\ Nonces \cap Sessions = {}

VARIABLES nonce,            \* nonce[n]: the row of siwe_nonces
          user,             \* user[a]: the status of a's account
          wallet,           \* wallet[a][c]: the row of a on chain c
          session,          \* session[s]: the row of sessions
          txn               \* what each open request will write

vars == <<nonce, user, wallet, session, txn>>

-----------------------------------------------------------------------------
NoNonce == [state |-> "none", bound |-> Anyone, expired |-> FALSE]

Nonce == [state : {"none", "issued", "consumed"},
          bound : Addresses \cup {Anyone}, expired : BOOLEAN]

Statuses == {"active", "suspended_by_user", "suspended_by_admin"}

Barred(status) == status = "suspended_by_admin"

\* A session remembers, for the properties, what it was issued for.
NoSession == [state |-> "none"]

Reasons == {"rotated", "logout", "logout_all", "reuse_detected", "self_suspended"}

Session == [state : {"live"} \cup Reasons, owner : Addresses,
            from : Nonces \cup Sessions, expired : BOOLEAN]

SessionsOf(a) == {s \in Sessions : session[s] # NoSession /\ session[s].owner = a}

Live(a) == {s \in SessionsOf(a) : session[s].state = "live"}

Wallets(a) == {c \in Chains : wallet[a][c] # "none"}
PayoutWallets(a) == {c \in Chains : wallet[a][c] = "payout"}

Idle == [op |-> "idle"]

Begin(r, write) ==
    /\ txn[r] = Idle
    /\ txn' = [txn EXCEPT ![r] = write]
    /\ UNCHANGED <<nonce, user, wallet, session>>

Finish(r) == txn' = [txn EXCEPT ![r] = Idle]

\* The open requests that have spent n and not committed.
Spending(n) == {r \in Requests : txn[r].op = "sign_in" /\ txn[r].nonce = n}

\* The open requests that rotate a session of a.
Rotating(a) == {r \in Requests : txn[r].op = "refresh" /\ session[txn[r].session].owner = a}

\* get_current_user: the session behind an access token.
SignedIn(s) ==
    /\ session[s].state = "live"
    /\ ~session[s].expired
    /\ ~Barred(user[session[s].owner])

\* The rows after every live session of a is revoked.
RevokeAll(a, reason) ==
    [s \in Sessions |->
        IF s \in Live(a) THEN [session[s] EXCEPT !.state = reason] ELSE session[s]]

Issued(s, a, from) == [state |-> "live", owner |-> a, from |-> from, expired |-> FALSE]

-----------------------------------------------------------------------------
(* Nonces and signing in.                                                  *)

\* issue_nonce
IssueNonce(n, bound) ==
    /\ nonce[n] = NoNonce
    /\ nonce' = [nonce EXCEPT ![n] = [NoNonce EXCEPT !.state = "issued", !.bound = bound]]
    /\ UNCHANGED <<user, wallet, session, txn>>

CheckedOnly(n) == nonce[n].state = "issued"

\* The UPDATE of consume_nonce finds the row as it is, once nobody holds it.
Spendable(n) == nonce[n].state = "issued" /\ Spending(n) = {}

AnotherIsThere(a) == PayoutWallets(a) # {}

\* "The first verified wallet becomes the payout target."
FirstToBePaid(a) == PayoutWallets(a) = {}

\* sign_in, with a message of a on chain c: what it loads of the account.  It
\* goes on to CommitSignIn if the signature is a's.
SignIn(r, n, a, c) ==
    /\ Spendable(n)
    /\ ~nonce[n].expired
    /\ nonce[n].bound \in {a, Anyone}
    /\ ~Barred(user[a])
    /\ Begin(r, [op |-> "sign_in", nonce |-> n, owner |-> a, chain |-> c,
                 registers |-> user[a] = "absent",
                 restores |-> user[a] = "suspended_by_user",
                 links |-> wallet[a][c] = "none",
                 payout |-> FirstToBePaid(a)])

\* uq_wallets_one_payout_per_user
OnePayout(w) == w.links /\ w.payout => PayoutWallets(w.owner) = {}

\* The unique constraints accept the rows a sign-in inserts.
Insertable(w) ==
    /\ w.registers => user[w.owner] = "absent"
    /\ w.links => wallet[w.owner][w.chain] = "none"
    /\ OnePayout(w)

CommitSignIn(r, s) ==
    LET w == txn[r] IN
    /\ w.op = "sign_in"
    /\ Insertable(w)
    /\ session[s] = NoSession
    /\ nonce' = [nonce EXCEPT ![w.nonce].state = "consumed"]
    /\ user' = IF w.registers \/ w.restores
               THEN [user EXCEPT ![w.owner] = "active"] ELSE user
    /\ wallet' = IF w.links
                 THEN [wallet EXCEPT ![w.owner][w.chain] =
                          IF w.payout THEN "payout" ELSE "plain"]
                 ELSE wallet
    /\ session' = [session EXCEPT ![s] = Issued(s, w.owner, w.nonce)]
    /\ Finish(r)

-----------------------------------------------------------------------------
(* Sessions.                                                               *)

NotYetRotated(s) == session[s].state \notin {"none", "rotated"}

\* The branch of refresh_session that goes on.
Rotatable(s) == session[s].state = "live"

\* refresh_session, with a token that is still good when it is loaded.
Refresh(r, s) ==
    /\ Rotatable(s)
    /\ ~session[s].expired
    /\ ~Barred(user[session[s].owner])
    /\ Begin(r, [op |-> "refresh", session |-> s])

\* Whatever became of the session meanwhile, it ends as rotated.
CommitRefresh(r, new) ==
    LET s == txn[r].session IN
    /\ txn[r].op = "refresh"
    /\ session[new] = NoSession
    /\ session' = [session EXCEPT ![s].state = "rotated",
                                  ![new] = Issued(new, session[s].owner, s)]
    /\ Finish(r)
    /\ UNCHANGED <<nonce, user, wallet>>

\* refresh_session, with a token that was rotated: committed at once.
DetectReuse(s) ==
    /\ session[s].state = "rotated"
    /\ session' = RevokeAll(session[s].owner, "reuse_detected")
    /\ UNCHANGED <<nonce, user, wallet, txn>>

\* revoke_session, with the refresh token, which the account has; or
\* revoke_session_by_id, whose UPDATE asks for the account.
Logout(caller, s) ==
    /\ SignedIn(caller)
    /\ session[s].state = "live" /\ session[s].owner = session[caller].owner
    /\ session' = [session EXCEPT ![s].state = "logout"]
    /\ UNCHANGED <<nonce, user, wallet, txn>>

\* revoke_all_sessions
LogoutAll(caller) ==
    /\ SignedIn(caller)
    /\ session' = RevokeAll(session[caller].owner, "logout_all")
    /\ UNCHANGED <<nonce, user, wallet, txn>>

\* suspend_own_account
Suspend(r, caller) ==
    /\ SignedIn(caller)
    /\ Begin(r, [op |-> "suspend", owner |-> session[caller].owner,
                 sets |-> user[session[caller].owner] # "suspended_by_user"])

CommitSuspend(r) ==
    LET w == txn[r] IN
    /\ w.op = "suspend"
    /\ user' = IF w.sets THEN [user EXCEPT ![w.owner] = "suspended_by_user"] ELSE user
    /\ session' = RevokeAll(w.owner, "self_suspended")
    /\ Finish(r)
    /\ UNCHANGED <<nonce, wallet>>

\* The signature fails, a constraint refuses a row, or the process dies.
Rollback(r) ==
    /\ txn[r] # Idle
    /\ Finish(r)
    /\ UNCHANGED <<nonce, user, wallet, session>>

-----------------------------------------------------------------------------
(* Time, and the operator.                                                 *)

ExpireNonce(n) ==
    /\ nonce[n].state = "issued"
    /\ ~nonce[n].expired
    /\ nonce' = [nonce EXCEPT ![n].expired = TRUE]
    /\ UNCHANGED <<user, wallet, session, txn>>

ExpireSession(s) ==
    /\ session[s].state = "live"
    /\ ~session[s].expired
    /\ session' = [session EXCEPT ![s].expired = TRUE]
    /\ UNCHANGED <<nonce, user, wallet, txn>>

\* SUSPENDED_BY_ADMIN, and DEACTIVATED, are set by hand in the database.
Bar(a) ==
    /\ user[a] \in Statuses
    /\ user' = [user EXCEPT ![a] = IF Barred(@) THEN "active" ELSE "suspended_by_admin"]
    /\ UNCHANGED <<nonce, wallet, session, txn>>

-----------------------------------------------------------------------------
Init ==
    /\ nonce = [n \in Nonces |-> NoNonce]
    /\ user = [a \in Addresses |-> "absent"]
    /\ wallet = [a \in Addresses |-> [c \in Chains |-> "none"]]
    /\ session = [s \in Sessions |-> NoSession]
    /\ txn = [r \in Requests |-> Idle]

Request(r) ==
    \/ \E n \in Nonces, a \in Addresses, c \in Chains : SignIn(r, n, a, c)
    \/ \E s \in Sessions :
          CommitSignIn(r, s) \/ Refresh(r, s) \/ CommitRefresh(r, s) \/ Suspend(r, s)
    \/ CommitSuspend(r)
    \/ Rollback(r)

Next ==
    \/ \E r \in Requests : Request(r)
    \/ \E n \in Nonces :
          ExpireNonce(n) \/ \E bound \in Addresses \cup {Anyone} : IssueNonce(n, bound)
    \/ \E s \in Sessions :
          \/ DetectReuse(s) \/ LogoutAll(s) \/ ExpireSession(s)
          \/ \E caller \in Sessions : Logout(caller, s)
    \/ \E a \in Addresses : Bar(a)

Spec == Init /\ [][Next]_vars

-----------------------------------------------------------------------------
TypeOK ==
    /\ nonce \in [Nonces -> Nonce]
    /\ user \in [Addresses -> Statuses \cup {"absent"}]
    /\ wallet \in [Addresses -> [Chains -> {"none", "plain", "payout"}]]
    /\ session \in [Sessions -> Session \cup {NoSession}]

\* A captured signature cannot be replayed: however many requests present the
\* same nonce, one session comes of it, for an address it was issued to, and
\* then it is consumed (consume_nonce).
NonceSpentOnce ==
    \A n \in Nonces :
        LET heirs == {s \in Sessions : session[s] # NoSession /\ session[s].from = n} IN
        /\ Cardinality(heirs) <= 1
        /\ heirs # {} => nonce[n].state = "consumed"
        /\ \A s \in heirs : nonce[n].bound \in {session[s].owner, Anyone}

\* "The nonce is consumed before the signature is verified so that a failed
\* verification still burns it": a request that has spent a nonce ends with the
\* nonce consumed, also when the signature is not what it should be (sign_in,
\* get_db).
FailedAttemptBurns ==
    [][\A r \in Requests :
          txn[r].op = "sign_in" /\ txn'[r] = Idle =>
              nonce'[txn[r].nonce].state = "consumed"]_vars

\* Once every session of an account has been ended, by whatever way, and no
\* rotation is under way, only a wallet signature opens another one: no old
\* refresh token does (refresh_session, revoke_all_sessions).
SignedOut(a) == SessionsOf(a) # {} /\ Live(a) = {} /\ Rotating(a) = {}

StaysSignedOut ==
    \A a \in Addresses :
        SignedOut(a) =>
            SignedOut(a)' \/ \E n \in Nonces : nonce[n].state # nonce'[n].state

SignedOutUntilSignIn == [][StaysSignedOut]_vars

\* An account with a wallet has exactly one to be paid at, also when its first
\* two sign-ins overlap (_ensure_wallet_record).
ExactlyOnePayoutWallet ==
    \A a \in Addresses : Wallets(a) # {} => Cardinality(PayoutWallets(a)) = 1
=============================================================================
