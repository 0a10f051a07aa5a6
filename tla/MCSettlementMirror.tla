------------------------- MODULE MCSettlementMirror -------------------------
(***************************************************************************)
(* SettlementMirror for TLC: one escrow over an ordinary token and one     *)
(* that keeps a unit of each transfer.  Basis points are quarters with a   *)
(* ceiling of one half, so that one, two and three units round differently. *)
(***************************************************************************)
EXTENDS SettlementMirror

CONSTANTS alice, bob, ops, usd, skim

TwoTokens == {usd, skim}
SkimSkimmed == [t \in TwoTokens |-> IF t = skim THEN 1 ELSE 0]

\* Alice and Bob can afford an escrow; the operator starts with nothing.
Endowed ==
    [t \in TwoTokens |-> [a \in {alice, bob, ops} |->
        CASE a = alice -> 3 [] a = bob -> 1 [] a = ops -> 0]]
=============================================================================
