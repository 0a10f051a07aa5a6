---------------------------- MODULE EscrowLedger ----------------------------
(***************************************************************************)
(* What the escrow contract promises, with none of its rules about who may *)
(* call what and when: a conditional payment.  An escrow takes one deposit *)
(* from its buyer, may be frozen once, and is closed once, by paying the   *)
(* whole deposit out to its provider, its buyer and a fee recipient.  The  *)
(* fee is bounded by a fixed share of what the provider earned.            *)
(*                                                                         *)
(* AgoreumEscrow is shown to implement this specification.                 *)
(***************************************************************************)
EXTENDS Naturals

CONSTANTS Escrows,          \* escrow identifiers
          Accounts,         \* externally owned accounts
          Tokens,           \* ERC-20 tokens
          Vault,            \* the account that holds deposits
          BpsDenominator,
          MaxFeeBps

VARIABLES phase,            \* "absent", "open", "frozen" or "closed"
          terms,            \* buyer, provider, token and amount of a deposit
          wallet            \* token balances of every account

ledgerVars == <<phase, terms, wallet>>

\* Move v of token t between two accounts.
Move(w, t, from, to, v) == [w EXCEPT ![t][from] = @ - v, ![t][to] = @ + v]

Init ==
    /\ phase = [e \in Escrows |-> "absent"]
    /\ \A t \in Tokens : wallet[t][Vault] = 0

Deposit(e) ==
    /\ phase[e] = "absent"
    /\ \E b, p \in Accounts, t \in Tokens : \E a \in 1 .. wallet[t][b] :
          /\ b # p
          /\ terms' = [terms EXCEPT ![e] = [buyer |-> b, provider |-> p,
                                            token |-> t, amount |-> a]]
          /\ wallet' = Move(wallet, t, b, Vault, a)
    /\ phase' = [phase EXCEPT ![e] = "open"]

Freeze(e) ==
    /\ phase[e] = "open"
    /\ phase' = [phase EXCEPT ![e] = "frozen"]
    /\ UNCHANGED <<terms, wallet>>

\* The whole deposit leaves the vault, in three parts.
Close(e) ==
    /\ phase[e] \in {"open", "frozen"}
    /\ LET d == terms[e] IN
       \E toBuyer, fee \in 0 .. d.amount, recipient \in Accounts :
          LET share == d.amount - toBuyer IN
          /\ toBuyer + fee <= d.amount
          /\ fee * BpsDenominator <= share * MaxFeeBps
          /\ wallet' = Move(Move(Move(wallet,
                            d.token, Vault, d.provider, share - fee),
                            d.token, Vault, d.buyer, toBuyer),
                            d.token, Vault, recipient, fee)
    /\ phase' = [phase EXCEPT ![e] = "closed"]
    /\ UNCHANGED terms

Next == \E e \in Escrows : Deposit(e) \/ Freeze(e) \/ Close(e)

Spec == Init /\ [][Next]_ledgerVars
=============================================================================
