----------------------------- MODULE TokenLedger -----------------------------
(***************************************************************************)
(* What a bridge promises of one native token: a vault on the home chain,  *)
(* and the claims on it that each destination holds.  A claim is created   *)
(* only against a deposit, moves between destinations, and ends by a       *)
(* withdrawal or by the loss of its wrapped tokens.                        *)
(***************************************************************************)
EXTENDS Naturals

CONSTANTS
    N,                        \* destinations are 1..N
    Amounts                   \* amounts and fees of one step

VARIABLES vault, claims
ledgerVars == << vault, claims >>

LedgerInit ==
    /\ vault = 0
    /\ claims = [d \in 1..N |-> 0]

Deposit(d, amount) ==
    /\ vault' = vault + amount
    /\ claims' = [claims EXCEPT ![d] = @ + amount]

Withdraw(s, amount) ==
    /\ amount <= claims[s]
    /\ amount <= vault
    /\ vault' = vault - amount
    /\ claims' = [claims EXCEPT ![s] = @ - amount]

\* The fee of the second message leaves the vault.
Move(s, d, amount, fee) ==
    /\ fee <= amount
    /\ amount <= claims[s]
    /\ fee <= vault
    /\ vault' = vault - fee
    /\ LET withdrawn == [claims EXCEPT ![s] = @ - amount]
       IN  claims' = [withdrawn EXCEPT ![d] = @ + (amount - fee)]

Lose(s, amount) ==
    /\ amount <= claims[s]
    /\ claims' = [claims EXCEPT ![s] = @ - amount]
    /\ UNCHANGED vault

LedgerNext ==
    \E s \in 1..N, amount \in Amounts :
        \/ Deposit(s, amount)
        \/ Withdraw(s, amount)
        \/ Lose(s, amount)
        \/ \E d \in 1..N, fee \in Amounts : Move(s, d, amount, fee)

LedgerSpec == LedgerInit /\ [][LedgerNext]_ledgerVars
=============================================================================
