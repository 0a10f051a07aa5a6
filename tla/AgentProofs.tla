----------------------------- MODULE AgentProofs -----------------------------
(***************************************************************************)
(* What an agent has proved to control: the domain of its web site and a   *)
(* GitHub account (agents/service.py, domain_check.py, github_check.py).   *)
(* A challenge names a token; the operator shows it at the domain or in a  *)
(* public gist; a verification loads agent and challenge, looks for the    *)
(* token over the network, and writes what it found over the rows as they  *)
(* are by then.  An UPDATE sets the columns that differ from the row as it *)
(* was loaded.  What raises an error is rolled back, the attempt it        *)
(* counted included.                                                       *)
(***************************************************************************)
EXTENDS Naturals, FiniteSets

CONSTANTS Requests,
          Domains,
          Logins,    \* GitHub accounts
          MaxIssued, \* bound: challenges issued
          MaxSites   \* bound: changes of the web site

None == "none"
Claims == Domains \cup Logins

AgentProofsAssumption ==
    /\ Domains \cap Logins = {} /\ None \notin Claims
    /\ MaxIssued \in Nat \ {0} /\ MaxSites \in Nat

VARIABLES agent,      \* its row: site, proofs and tier
          challenge,  \* per claim: the token issued last, and whether it was seen
          shown,      \* per claim: the token that can be read there, or 0
          txn,        \* per request: what it has loaded
          issued,     \* challenges issued so far
          sites,      \* changes of the web site so far
          overlapped, \* whether two requests about the same rows have overlapped
          read        \* per claim: the tokens that were found there

vars == <<agent, challenge, shown, txn, issued, sites, overlapped, read>>

Idle == [kind |-> "none"]

Tiers == {"unverified", "domain_verified"}
Agent == [site : Domains \cup {None}, domain : Domains \cup {None},
          dated : BOOLEAN, tier : Tiers, github : Logins \cup {None}]
\* Token 0 stands for a challenge that was never asked for.
Challenge == [token : 0 .. MaxIssued, verified : BOOLEAN]

\* A tier above unverified requires the proof, and the proof has its date.
AgentChecks(row) ==
    /\ row.tier = "unverified" \/ row.domain # None
    /\ row.domain = None <=> ~row.dated

\* A date is always another one.
Written(committed, loaded, new, dates) ==
    [c \in DOMAIN committed |->
        IF new[c] # loaded[c] \/ c \in dates THEN new[c] ELSE committed[c]]

Writing(q) == txn[q] # Idle
Verifying(q, c) == txn[q].kind = "verify" /\ txn[q].claim = c

-----------------------------------------------------------------------------
\* create_domain_challenge, create_github_challenge: a fresh token each time.
Reissued(c) == [token |-> challenge[c].token + 1, verified |-> FALSE]

IssueChallenge(c) ==
    /\ issued < MaxIssued /\ issued' = issued + 1
    /\ challenge' = [challenge EXCEPT ![c] = Reissued(c)]
    /\ overlapped' = (overlapped \/ \E q \in Requests : Verifying(q, c))
    /\ UNCHANGED <<agent, shown, txn, sites, read>>

\* The operator shows the token in place of what was there, and may remove it.
ShowToken(c) ==
    /\ shown[c] # challenge[c].token
    /\ shown' = [shown EXCEPT ![c] = challenge[c].token]
    /\ UNCHANGED <<agent, challenge, txn, issued, sites, overlapped, read>>

HideToken(c) ==
    /\ shown[c] # 0
    /\ shown' = [shown EXCEPT ![c] = 0]
    /\ UNCHANGED <<agent, challenge, txn, issued, sites, overlapped, read>>

-----------------------------------------------------------------------------
(* A verification.                                                         *)

StartVerify(p, c) ==
    /\ txn[p] = Idle
    /\ challenge[c].token # 0
    /\ txn' = [txn EXCEPT ![p] = [kind |-> "verify", claim |-> c, agent |-> agent,
                                  challenge |-> challenge[c], found |-> FALSE]]
    /\ overlapped' = (overlapped \/ \E q \in Requests : Writing(q))
    /\ UNCHANGED <<agent, challenge, shown, issued, sites, read>>

\* check_dns_txt, check_well_known, check_gist.
Observed(c, token) == shown[c] = token

Look(p) ==
    LET t == txn[p] IN
    /\ t.kind = "verify" /\ ~t.found
    /\ Observed(t.claim, t.challenge.token)
    /\ txn' = [txn EXCEPT ![p].found = TRUE]
    /\ read' = [read EXCEPT ![t.claim] = @ \cup {shown[t.claim]}]
    /\ UNCHANGED <<agent, challenge, shown, issued, sites, overlapped>>

DomainOnly(row, c) ==
    IF c \in Logins THEN [row EXCEPT !.github = c]
    ELSE [row EXCEPT !.domain = c, !.dated = TRUE]
\* The tier is only ever raised from the floor.
Proven(row, c) ==
    IF c \in Logins THEN [row EXCEPT !.github = c]
    ELSE [row EXCEPT !.domain = c, !.dated = TRUE, !.tier = "domain_verified"]

CommitVerify(p) ==
    LET t == txn[p] IN
    /\ t.kind = "verify" /\ t.found
    /\ agent' = Written(agent, t.agent, Proven(t.agent, t.claim),
                       IF t.claim \in Domains THEN {"dated"} ELSE {})
    /\ AgentChecks(agent')
    /\ challenge' = [challenge EXCEPT ![t.claim] =
                        Written(@, t.challenge, [t.challenge EXCEPT !.verified = TRUE], {"verified"})]
    /\ txn' = [txn EXCEPT ![p] = Idle]
    /\ UNCHANGED <<shown, issued, sites, overlapped, read>>

-----------------------------------------------------------------------------
(* update_agent with a web site: a proof of another domain ends.           *)

StartUpdate(p, site) ==
    /\ txn[p] = Idle
    /\ site # agent.site
    /\ sites < MaxSites
    /\ sites' = sites + 1
    /\ txn' = [txn EXCEPT ![p] = [kind |-> "update", agent |-> agent, site |-> site]]
    /\ overlapped' = (overlapped \/ \E q \in Requests : Writing(q))
    /\ UNCHANGED <<agent, challenge, shown, issued, read>>

Moved(row, site) ==
    IF row.domain \in {None, site} THEN [row EXCEPT !.site = site]
    ELSE [row EXCEPT !.site = site, !.domain = None, !.dated = FALSE, !.tier = "unverified"]

CommitUpdate(p) ==
    LET t == txn[p] IN
    /\ t.kind = "update"
    /\ agent' = Written(agent, t.agent, Moved(t.agent, t.site), {})
    /\ AgentChecks(agent')
    /\ txn' = [txn EXCEPT ![p] = Idle]
    /\ UNCHANGED <<challenge, shown, issued, sites, overlapped, read>>

\* The challenge has expired, the token is not there, the network fails, or the
\* tables refuse: nothing of the request remains.
Fail(p) ==
    /\ txn[p] # Idle
    /\ txn' = [txn EXCEPT ![p] = Idle]
    /\ UNCHANGED <<agent, challenge, shown, issued, sites, overlapped, read>>

-----------------------------------------------------------------------------
Init ==
    /\ agent = [site |-> None, domain |-> None, dated |-> FALSE, tier |-> "unverified", github |-> None]
    /\ challenge = [c \in Claims |-> [token |-> 0, verified |-> FALSE]]
    /\ shown = [c \in Claims |-> 0]
    /\ txn = [p \in Requests |-> Idle]
    /\ issued = 0 /\ sites = 0 /\ overlapped = FALSE
    /\ read = [c \in Claims |-> {}]

Next ==
    \/ \E c \in Claims : IssueChallenge(c) \/ ShowToken(c) \/ HideToken(c)
    \/ \E p \in Requests :
          \/ \E c \in Claims : StartVerify(p, c)
          \/ \E site \in Domains \cup {None} : StartUpdate(p, site)
          \/ Look(p) \/ CommitVerify(p) \/ CommitUpdate(p) \/ Fail(p)

Spec == Init /\ [][Next]_vars

-----------------------------------------------------------------------------
TypeOK ==
    /\ agent \in Agent /\ AgentChecks(agent)
    /\ challenge \in [Claims -> Challenge]
    /\ \A c \in Claims : shown[c] <= challenge[c].token

\* "None is granted without the corresponding proof having been performed": the
\* tier and the verified domain come and go together, through verifications of
\* several domains and changes of site.  Only requests that overlapped leave a
\* domain verified at the lowest tier (verify_domain_challenge, update_agent).
TierFollowsProof == ~overlapped => (agent.tier # "unverified" <=> agent.domain # None)

\* A proof is of a token issued for that very claim that could be read there,
\* and a challenge issued again is not verified before its new token is read,
\* unless that was under way (verify_domain_challenge, create_domain_challenge).
ProvenByToken ==
    \A c \in Claims :
        /\ c \in {agent.domain, agent.github} => read[c] # {}
        /\ ~overlapped /\ challenge[c].verified => challenge[c].token \in read[c]

\* The host a proof is shown for is the site's, or was proved after the site
\* was set: a change of site ends the proof of any other domain (update_agent).
ProofEndsWithSite ==
    agent'.site # agent.site /\ ~overlapped => agent'.domain \in {None, agent'.site}

=============================================================================
