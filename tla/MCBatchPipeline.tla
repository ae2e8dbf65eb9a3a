-------------------------- MODULE MCBatchPipeline --------------------------
(***************************************************************************)
(* Small chains for TLC.  Five transactions in three blocks, the second of *)
(* them empty: a batch that ends with its block, one that ends inside a    *)
(* block, and a transaction left over, further from the first batch than   *)
(* the channel lets the indexer run ahead.                                 *)
(***************************************************************************)
EXTENDS PipelineLedger, PipelineClaims

BlocksOfFive  == [b \in 0..MaxBlock |-> <<0, 2, 2, 5>>[b + 1]]

\* Four transactions in two blocks: batch 1 ends inside block 2.
BlocksOfFour == [b \in 0..MaxBlock |-> <<0, 1, 4>>[b + 1]]

=============================================================================
