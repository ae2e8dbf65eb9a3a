--------------------------- MODULE AccountClaims ---------------------------
(***************************************************************************)
(* What the README says of the account copy and the code does not keep.    *)
(***************************************************************************)
EXTENDS AccountState

(***************************************************************************)
(* README.md:17, "Maintains account balances and nonces with cryptographic *)
(* integrity": with no crash, no failed answer and none but plain          *)
(* transfers, the copy agrees with Geth's ledger.  The first transaction   *)
(* that does not use up its gas limit breaks it: the rest of the limit is  *)
(* refunded although it was never paid.                                    *)
(***************************************************************************)
BalancesMaintained ==
  Undisturbed /\ Between /\ (\A i \in 1..MaxTx : Plain(chain[i])) =>
    \A u \in Users :
      GetAccount(accounts, u).balance
        = GetAccount(Ledger(Done), u).balance

=============================================================================
