------------------------------ MODULE MCTxPool ------------------------------
(***************************************************************************)
(* Three transactions for TLC: one of a larger gas limit than the others,  *)
(* and one that is refused; and two clients.  The same transaction may be  *)
(* sent more than once.                                                    *)
(***************************************************************************)
EXTENDS TxPool

CONSTANTS low, high, refused, k, l

GasLimits == [t \in Txs |-> IF t = high THEN 2 ELSE 1]

=============================================================================
