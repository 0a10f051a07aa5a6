----------------------------- MODULE EmailProof ------------------------------
(***************************************************************************)
(* The e-mail address on a profile and the tokens that prove it            *)
(* (apps/api/app/modules/auth/service.py: update_profile,                  *)
(* issue_email_verification, confirm_email_verification).                  *)
(*                                                                         *)
(* A handler loads the user and commits later; its UPDATE sends the        *)
(* columns it changed.  Tokens are spent by conditional UPDATEs, which     *)
(* wait for the transaction that holds the row.  The rest of the profile,  *)
(* and how the mail travels, are left out.                                 *)
(***************************************************************************)
EXTENDS Naturals, FiniteSets

CONSTANTS Users, Emails, Tokens, Requests,
          NoEmail           \* email IS NULL

EmailAssumption == NoEmail \notin Emails

VARIABLES profile,          \* profile[u]: the two columns of the user's row
          token,            \* token[t]: the row of email_verification_tokens
          txn,              \* what each open request will write
          proven,           \* pairs <<u, e>> for which u spent a token sent to e
          overlapped        \* users whose confirmation overlapped a change of address

vars == <<profile, token, txn, proven, overlapped>>

-----------------------------------------------------------------------------
NoToken == [state |-> "none"]

Token == [state : {"live", "consumed"}, user : Users, email : Emails, expired : BOOLEAN]

Idle == [op |-> "idle"]

Finish(r) == txn' = [txn EXCEPT ![r] = Idle]

Begin(r, write) ==
    /\ txn[r] = Idle
    /\ txn' = [txn EXCEPT ![r] = write]
    /\ UNCHANGED <<profile, token, proven, overlapped>>

LiveTokens(u) == {t \in Tokens : token[t].state = "live" /\ token[t].user = u}

\* The tokens whose rows an open request has updated.
Locked == UNION {txn[r].spends : r \in {q \in Requests : txn[q].op \in {"issue", "confirm"}}}

\* Requests other than r of the given kind on u's row.
Others(r, op, u) == {q \in Requests \ {r} : txn[q].op = op /\ txn[q].user = u}

-----------------------------------------------------------------------------
\* update_profile: another address clears the verification that was loaded.
UpdateProfile(r, u, e) ==
    /\ e # profile[u].email
    /\ Begin(r, [op |-> "profile", user |-> u, email |-> e, clears |-> profile[u].verified])

\* The unique index on the address and email_verified_requires_email.
Acceptable(u, e, verified) ==
    /\ e # NoEmail => \A v \in Users \ {u} : profile[v].email # e
    /\ verified => e # NoEmail

CommitProfile(r) ==
    LET w == txn[r]
        verified == profile[w.user].verified /\ ~w.clears
    IN
    /\ w.op = "profile"
    /\ Acceptable(w.user, w.email, verified)
    /\ profile' = [profile EXCEPT ![w.user] = [email |-> w.email, verified |-> verified]]
    /\ overlapped' = IF Others(r, "confirm", w.user) # {} \/ verified
                     THEN overlapped \cup {w.user} ELSE overlapped
    /\ Finish(r)
    /\ UNCHANGED <<token, proven>>

Unverified(u) == ~profile[u].verified

\* Nothing to prove without an address, or once it is proven.
Provable(u) == profile[u].email # NoEmail /\ ~profile[u].verified

\* issue_email_verification: earlier tokens are spent by one UPDATE.
Issue(r, u) ==
    /\ Provable(u)
    /\ LiveTokens(u) \cap Locked = {}
    /\ Begin(r, [op |-> "issue", user |-> u, email |-> profile[u].email,
                 spends |-> LiveTokens(u)])

Spent(ts) == [t \in Tokens |-> IF t \in ts THEN [token[t] EXCEPT !.state = "consumed"] ELSE token[t]]

CommitIssue(r, t) ==
    LET w == txn[r] IN
    /\ w.op = "issue"
    /\ token[t] = NoToken
    /\ token' = [Spent(w.spends) EXCEPT
                    ![t] = [state |-> "live", user |-> w.user, email |-> w.email,
                            expired |-> FALSE]]
    /\ Finish(r)
    /\ UNCHANGED <<profile, proven, overlapped>>

SentToUser(t) == TRUE

\* The comparison with the address the user has when it is loaded.
StillTheAddress(t) == profile[token[t].user].email = token[t].email

\* confirm_email_verification: the token is spent by a conditional UPDATE,
\* then the user is loaded.
Confirm(r, t) ==
    /\ token[t].state = "live"
    /\ ~token[t].expired
    /\ t \notin Locked
    /\ Begin(r, [op |-> "confirm", user |-> token[t].user, spends |-> {t},
                 verifies |-> StillTheAddress(t)])

\* The spend is committed either way; the address only if it matched.
CommitConfirm(r) ==
    LET w == txn[r]
        now == profile[w.user].email
    IN
    /\ w.op = "confirm"
    /\ w.verifies => Acceptable(w.user, now, TRUE)
    /\ token' = Spent(w.spends)
    /\ profile' = IF w.verifies THEN [profile EXCEPT ![w.user].verified = TRUE] ELSE profile
    /\ proven' = IF w.verifies
                 THEN proven \cup {<<w.user, token[t].email>> : t \in w.spends} ELSE proven
    /\ Finish(r)
    /\ UNCHANGED overlapped

\* A constraint refuses the row, a later step fails, or the process dies.
Rollback(r) ==
    /\ txn[r] # Idle
    /\ Finish(r)
    /\ UNCHANGED <<profile, token, proven, overlapped>>

ExpireToken(t) ==
    /\ token[t].state = "live"
    /\ ~token[t].expired
    /\ token' = [token EXCEPT ![t].expired = TRUE]
    /\ UNCHANGED <<profile, txn, proven, overlapped>>

-----------------------------------------------------------------------------
Init ==
    /\ profile = [u \in Users |-> [email |-> NoEmail, verified |-> FALSE]]
    /\ token = [t \in Tokens |-> NoToken]
    /\ txn = [r \in Requests |-> Idle]
    /\ proven = {}
    /\ overlapped = {}

Request(r) ==
    \/ \E u \in Users : Issue(r, u) \/ \E e \in Emails \cup {NoEmail} : UpdateProfile(r, u, e)
    \/ \E t \in Tokens : Confirm(r, t) \/ CommitIssue(r, t)
    \/ CommitProfile(r) \/ CommitConfirm(r) \/ Rollback(r)

Next ==
    \/ \E r \in Requests : Request(r)
    \/ \E t \in Tokens : ExpireToken(t)

Spec == Init /\ [][Next]_vars

-----------------------------------------------------------------------------
TypeOK ==
    /\ profile \in [Users -> [email : Emails \cup {NoEmail}, verified : BOOLEAN]]
    /\ token \in [Tokens -> Token \cup {NoToken}]
    /\ proven \subseteq Users \X Emails
    /\ overlapped \subseteq Users

\* The same, for users none of whose confirmations overlapped a change of the
\* address: tokens sent to an address that was given up, replaced, or has
\* expired verify nothing, however late they are used.
ProvenUnlessOverlapped ==
    \A u \in Users \ overlapped :
        profile[u].verified => <<u, profile[u].email>> \in proven
=============================================================================
