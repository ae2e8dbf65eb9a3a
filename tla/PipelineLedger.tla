--------------------------- MODULE PipelineLedger ---------------------------
(***************************************************************************)
(* The batching pipeline implements the settlement ledger: entry n is the  *)
(* value under batch_<n>, its status is read off the two progress flags.   *)
(***************************************************************************)
EXTENDS BatchPipeline

StatusOf(b) == CASE b.verified  -> "verified"
                 [] b.submitted /\ ~b.verified -> "submitted"
                 [] OTHER       -> "published"

StoredLedger == [n \in DOMAIN dbBatch |->
                   [content |-> dbBatch[n].txs,
                    status  |-> StatusOf(dbBatch[n])]]

Ledger == INSTANCE SettlementLedger
            WITH Contents <- [1..BatchSize -> Tx], Due <- Slice,
                 ledger <- StoredLedger

(***************************************************************************)
(* With crashes at any point, only the last batch is ever rewritten, and a *)
(* new one is begun only when the last is verified.                        *)
(***************************************************************************)
ImplementsLedger == Ledger!Spec

(***************************************************************************)
(* Without crashes, batch n holds the n-th slice of the chain, and a batch *)
(* that a failed proof sends back to CreateBatch keeps its transactions.   *)
(***************************************************************************)
ImplementsStrictLedger == Ledger!StrictSpec

=============================================================================
