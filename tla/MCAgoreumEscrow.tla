-------------------------- MODULE MCAgoreumEscrow ---------------------------
(***************************************************************************)
(* Instances of AgoreumEscrow over one token for TLC.  Basis points are    *)
(* quarters with a ceiling of one half, so that one and two units round    *)
(* differently.                                                            *)
(***************************************************************************)
EXTENDS SettlementAdvice

CONSTANTS alice, bob, ops, usd

OneToken == {usd}
NothingSkimmed == [t \in OneToken |-> 0]

\* Alice and Bob can afford an escrow; the operator starts with nothing.
Endowed ==
    [t \in OneToken |-> [a \in {alice, bob, ops} |->
        CASE a = alice -> 3 [] a = bob -> 1 [] a = ops -> 0]]

\* Alice ordered through the first escrow, from a team without Alice; Bob
\* through the second, from an agent whose wallet outlived its team.
BuyersOnRecord == [e \in 1 .. 2 |-> IF e = 1 THEN alice ELSE bob]
TeamsOnRecord == [e \in 1 .. 2 |-> IF e = 1 THEN {bob, ops} ELSE {}]
=============================================================================
