----------------------------- MODULE MCAccounts -----------------------------
(***************************************************************************)
(* Three transactions in two blocks, of nine kinds, from one funded user. *)
(* The dynamic-fee one costs the copy of the accounts twice what Geth      *)
(* takes for it, so the second of two is refused.                          *)
(***************************************************************************)
EXTENDS StateCommitment, AccountClaims, TLC

CONSTANTS a, b

GenesisAllocation == a :> 60
TwoBlocks == [n \in 0..MaxBlock |-> <<0, 2, 3>>[n + 1]]

First == ContractAddress(a, 0)

\* A plain transfer, and what the other kinds change about it.
Transfer == [from |-> a, to |-> b, value |-> 9, gas |-> 3, used |-> 2,
             dynamic |-> FALSE, price |-> 1, tip |-> 0, data |-> FALSE,
             reverts |-> FALSE, inner |-> 0]

TransactionKinds ==
  {Transfer,
   [Transfer EXCEPT !.from = b, !.to = a, !.value = 2],
   [Transfer EXCEPT !.to = a],
   [Transfer EXCEPT !.dynamic = TRUE, !.price = 2, !.tip = 2, !.gas = 8,
                    !.used = 8],
   [Transfer EXCEPT !.to = New, !.data = TRUE, !.value = 0],
   [Transfer EXCEPT !.to = New, !.data = TRUE, !.reverts = TRUE],
   [Transfer EXCEPT !.to = First, !.data = TRUE, !.value = 3],
   [Transfer EXCEPT !.to = First, !.data = TRUE, !.reverts = TRUE],
   [Transfer EXCEPT !.to = First, !.data = TRUE, !.inner = 4]}

\* Addresses of two bytes: a and b, then the contracts by nonce and creator.
Number(address) ==
  CASE address = a -> 0
    [] address = b -> 1
    [] OTHER -> 2 + 2 * address.nonce + (IF address.creator = a THEN 0 ELSE 1)

AddressKey(address) == <<Number(address) \div Radix, Number(address) % Radix>>

=============================================================================
