----------------------------- MODULE MCAccounts ------------------------------
(***************************************************************************)
(* Who may act for whom: five components that share no state, checked in   *)
(* one run.  A behaviour is a behaviour of one of them, chosen at the      *)
(* start, so their state spaces add up instead of multiplying; the others' *)
(* variables have no value of their kind in it.  As each component has its *)
(* own rows, the same few values serve as the ids of all of them.  The     *)
(* sets and limits of the run are in Accounts.cfg; the theorems about this *)
(* module are for any.                                                     *)
(***************************************************************************)
EXTENDS Naturals, FiniteSets, TLC

CONSTANTS Users, Orgs, Offers, MaxTeamOrgs,     \* organizations
          Addresses,                            \* sign-in; who mints keys
          Emails,
          Rows, Scopes, MaxActiveKeys,          \* sessions and keys
          Requests,
          Callers, Quota, Window,
          MaxTime, MaxArrivals, MaxDelay,
          None

VARIABLES part,
          created, member, invitation, orgTxn, orgOverlapped,
          nonce, user, wallet, session, signInTxn,
          profile, token, emailTxn, proven, emailOverlapped,
          key, standing, keyTxn,
          now, arrivals, counter, arriving, admitted, prompt

orgVars == <<created, member, invitation, orgTxn, orgOverlapped>>
signVars == <<nonce, user, wallet, session, signInTxn>>
mailVars == <<profile, token, emailTxn, proven, emailOverlapped>>
keyVars == <<key, standing, keyTxn>>
limitVars == <<now, arrivals, counter, arriving, admitted, prompt>>

vars == <<part, orgVars, signVars, mailVars, keyVars, limitVars>>

\* An account and an anonymous caller behind one address.
Neighbours ==
    LET here == [network |-> "n", host |-> 1] IN
    {[account |-> "a", key |-> None, address |-> here],
     [account |-> None, key |-> None, address |-> here]}

Org == INSTANCE Organizations
       WITH Invitations <- Offers, Founding <- None, txn <- orgTxn, overlapped <- orgOverlapped

Sign == INSTANCE SignIn
        WITH Chains <- Users, Nonces <- Offers, Sessions <- Rows,
             Anyone <- None, txn <- signInTxn

Mail == INSTANCE EmailProof
        WITH Tokens <- Offers, NoEmail <- "", txn <- emailTxn, overlapped <- emailOverlapped

Api == INSTANCE ApiKeys
       WITH Keys <- Rows, Users <- Addresses, txn <- keyTxn

Limit == INSTANCE RateLimit WITH Requests <- Quota, Replicas <- Requests

ASSUME AccountsAssumption ==
    /\ Org!OrgsAssumption
    /\ Sign!SignInAssumption
    /\ Mail!EmailAssumption
    /\ Api!KeysAssumption
    /\ Limit!LimitAssumption

NoOrg == created = 0 /\ member = 0 /\ invitation = 0 /\ orgTxn = 0 /\ orgOverlapped = 0
NoSign == nonce = 0 /\ user = 0 /\ wallet = 0 /\ session = 0 /\ signInTxn = 0
NoMail == profile = 0 /\ token = 0 /\ emailTxn = 0 /\ proven = 0 /\ emailOverlapped = 0
NoApi == key = 0 /\ standing = 0 /\ keyTxn = 0
NoLimit ==
    /\ now = 0 /\ arrivals = 0 /\ counter = 0 /\ arriving = 0
    /\ admitted = 0 /\ prompt = 0

Init ==
    \/ part = "organizations" /\ Org!Init /\ NoSign /\ NoMail /\ NoApi /\ NoLimit
    \/ part = "sign-in" /\ Sign!Init /\ NoOrg /\ NoMail /\ NoApi /\ NoLimit
    \/ part = "e-mail" /\ Mail!Init /\ NoOrg /\ NoSign /\ NoApi /\ NoLimit
    \/ part = "keys" /\ Api!Init /\ NoOrg /\ NoSign /\ NoMail /\ NoLimit
    \/ part = "limit" /\ Limit!Init /\ NoOrg /\ NoSign /\ NoMail /\ NoApi

Next ==
    /\ UNCHANGED part
    /\ \/ /\ part = "organizations" /\ Org!Next
          /\ UNCHANGED <<signVars, mailVars, keyVars, limitVars>>
       \/ /\ part = "sign-in" /\ Sign!Next
          /\ UNCHANGED <<orgVars, mailVars, keyVars, limitVars>>
       \/ /\ part = "e-mail" /\ Mail!Next
          /\ UNCHANGED <<orgVars, signVars, keyVars, limitVars>>
       \/ /\ part = "keys" /\ Api!Next
          /\ UNCHANGED <<orgVars, signVars, mailVars, limitVars>>
       \/ /\ part = "limit" /\ Limit!Next
          /\ UNCHANGED <<orgVars, signVars, mailVars, keyVars>>

Spec == Init /\ [][Next]_vars

Symmetry ==
    UNION {Permutations(S) : S \in {Users, Offers, Rows, Requests}}

-----------------------------------------------------------------------------
(* The properties are those of the components, by the same names.          *)

\* The rows of every component are well formed.
TypeOK ==
    CASE part = "organizations" -> Org!TypeOK
      [] part = "sign-in" -> Sign!TypeOK
      [] part = "e-mail" -> Mail!TypeOK
      [] part = "keys" -> Api!TypeOK
      [] part = "limit" -> Limit!TypeOK

\* Membership follows an accepted invitation, one at a time
\* (organizations/service.py).
MembersConsented ==
    part = "organizations" => Org!MembersConsented /\ Org!OneOfferAtATime

\* A team keeps an owner unless two requests overlap (organizations/service.py).
OwnedUnlessOverlapped == part = "organizations" => Org!OwnedUnlessOverlapped

\* A captured signature cannot be replayed (auth/service.py, consume_nonce).
NonceSpentOnce == part = "sign-in" => Sign!NonceSpentOnce

\* An account with a wallet has one to be paid at (auth/service.py).
ExactlyOnePayoutWallet == part = "sign-in" => Sign!ExactlyOnePayoutWallet

\* A signed-out account stays so until a signature (auth/service.py).
SignedOutUntilSignIn == [][part = "sign-in" => Sign!StaysSignedOut]_signVars

\* A verified address was proven, unless requests overlap (auth/service.py).
ProvenUnlessOverlapped == part = "e-mail" => Mail!ProvenUnlessOverlapped

\* A revoked key stays revoked (apikeys/service.py).
RevocationSticks == [][part = "keys" => Api!StaysRevoked]_keyVars

\* Limits are passed by what overlaps only: the keys of an organization by the
\* requests that counted them at once, a caller's requests by those around the
\* end of a window and those that are late to reach Redis; and who is refused
\* has used the limit up (apikeys/service.py, core/rate_limit.py).
LimitsNearlyHold ==
    /\ [](part = "keys" => Api!KeysNearLimit)
    /\ [](part = "limit" => Limit!LimitNearlyHolds)
    /\ [][part = "limit" => Limit!RefusesForOwnUse]_limitVars
=============================================================================
