-------------------------- MODULE SettlementAdvice --------------------------
(***************************************************************************)
(* What the API tells a party of an escrow it can do (settlement_options   *)
(* in orders/service.py), next to what the contract lets it do.  The API   *)
(* reads the escrow, the pause switch and its own clock, and repeats the   *)
(* contract's conditions in another language.                              *)
(*                                                                         *)
(* The API knows people by the account they sign in with, and their roles  *)
(* by its own tables: who placed the order, who is a member of the         *)
(* organization of its agent.  Neither need hold an address of the escrow, *)
(* which anybody may have paid for and which pays the agent's wallet.  Its *)
(* clock is taken to be the block's.                                       *)
(***************************************************************************)
EXTENDS AgoreumEscrow

CONSTANTS OrderedBy,        \* OrderedBy[e]: buyer_id of the order that e is for
          Team              \* Team[e]: the members of its agent's organization, if any

ASSUME AdviceAssumption ==
    /\ OrderedBy \in [Escrows -> Accounts]
    /\ Team \in [Escrows -> SUBSET Accounts]

\* _as_moment: zero is no time at all; a set of at most one.
AsMoment(timestamp) == IF timestamp = 0 THEN {} ELSE {timestamp}

\* decode_get_escrow: what is decisive of an escrow.
OnChain(d) ==
    [status |-> d.status, deadline |-> AsMoment(d.deliveryDeadline),
     autoRelease |-> AsMoment(d.autoReleaseAt)]

\* _contract_is_paused: a switch that cannot be read counts as not paused.
ReadPaused(readable) == readable /\ paused

\* _roles_of: more than one, when one person is both.  The arbiter is the one
\* of the API's settings.
RolesOf(a, e) ==
    {r \in {"buyer", "provider", "arbiter"} :
        CASE r = "buyer"    -> a = OrderedBy[e]
          [] r = "provider" -> a \in Team[e]
          [] r = "arbiter"  -> a = Arbiter}

\* _terminal_reason, where it gives none.
StillLive(chain) == chain.status = "Funded"

Passed(moment) == \E t \in moment : now >= t
PassedStrictly(moment) == \E t \in moment : now > t

ReleaseOffered(chain, roles) ==
    StillLive(chain) /\ ("buyer" \in roles \/ Passed(chain.autoRelease))

RefundOfferedLate(chain, roles) ==
    /\ StillLive(chain)
    /\ "provider" \in roles \/ ("buyer" \in roles /\ PassedStrictly(chain.deadline))
RefundOffered(chain, roles) ==
    /\ StillLive(chain)
    /\ "provider" \in roles \/ ("buyer" \in roles /\ Passed(chain.deadline))

DisputeOffered(chain, roles, isPaused) ==
    StillLive(chain) /\ roles \cap {"buyer", "provider"} # {} /\ ~isPaused

\* settlement_options: the actions that a is offered, reading e now.
Options(e, a, readable) ==
    LET chain == OnChain(escrow[e])
        roles == RolesOf(a, e)
    IN {action \in {"release", "refund", "dispute"} :
            CASE action = "release" -> ReleaseOffered(chain, roles)
              [] action = "refund"  -> RefundOffered(chain, roles)
              [] action = "dispute" -> DisputeOffered(chain, roles, ReadPaused(readable))}

-----------------------------------------------------------------------------
\* What the contract would accept of a.
Accepted(e, a) ==
    LET d == escrow[e] IN
    {action \in {"release", "refund", "dispute"} :
        /\ Payable(d)
        /\ CASE action = "release" -> MayRelease(a, d)
             [] action = "refund"  -> MayRefund(a, d)
             [] action = "dispute" -> ~paused /\ a \in {d.buyer, d.provider}}

\* Those as whom a may act by the roles the API gives it; Zero, no party of any
\* escrow, stands for what the contract would accept of everybody.
ActsAs(e, a) ==
    {Zero} \cup {p \in {escrow[e].buyer} : "buyer" \in RolesOf(a, e)}
           \cup {p \in {escrow[e].provider} : "provider" \in RolesOf(a, e)}

OpenToRoles(e, a) == UNION {Accepted(e, p) : p \in ActsAs(e, a)}

\* The API's roles are those of a's own address.
HoldsItsRoles(e, a) ==
    /\ "buyer" \in RolesOf(a, e) <=> a = escrow[e].buyer
    /\ "provider" \in RolesOf(a, e) <=> a = escrow[e].provider

\* "Availability mirrors the contract's own conditions": in every state of the
\* escrow and at every moment, what is offered is what the contract would accept
\* of the parties whose roles the person has.  It would accept that of the
\* person too, where the person's address is the party's: not of every member of
\* a provider's organization.  When the pause switch cannot be read, a dispute
\* at most is offered besides (settlement_options).
AdviceMatchesContract ==
    \A e \in Escrows, a \in Accounts :
        /\ Options(e, a, TRUE) = OpenToRoles(e, a)
        /\ Options(e, a, FALSE) \ {"dispute"} = OpenToRoles(e, a) \ {"dispute"}
        /\ OpenToRoles(e, a) \subseteq Options(e, a, FALSE)
        /\ HoldsItsRoles(e, a) => OpenToRoles(e, a) = Accepted(e, a)
=============================================================================
