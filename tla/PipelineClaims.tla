--------------------------- MODULE PipelineClaims ---------------------------
(***************************************************************************)
(* What the README and the flow diagram (docs/arc.puml) say of batches and *)
(* the pipeline does not keep.  Each of these is refuted by a run.         *)
(***************************************************************************)
EXTENDS BatchPipeline

(***************************************************************************)
(* arc.puml:48, "Compute State Diff (Pre/Post State Roots)": the pre-state *)
(* root of a batch is the post-state root of the batch before it.          *)
(***************************************************************************)
PreRootChains ==
  \A n \in DOMAIN dbBatch :
    n > 1 => dbBatch[n].pre = dbBatch[n - 1].post

(***************************************************************************)
(* README.md:12, "Maintains transaction finality and consistency": a batch *)
(* settled on Junction is never settled again with other transactions.  A  *)
(* crash before the next partial batch is saved breaks it: partial_batch   *)
(* still names the settled batch, which is filled up and settled again.    *)
(***************************************************************************)
SettledTxsFinal ==
  \A s, t \in settled : s.no = t.no => s.root.txs = t.root.txs

=============================================================================
