--------------------------- MODULE BatchPipeline ---------------------------
(***************************************************************************)
(* The batching pipeline of the trusted sequencer (batch/batch.go): the    *)
(* block indexer and the batch builder, two goroutines joined by a bounded *)
(* channel, the LevelDB keys they share with each other and with the next  *)
(* incarnation of the process, and the three remote services a batch is    *)
(* taken to (DA layer, Junction, prover).  A crash may fall between any    *)
(* two database writes or remote calls; start.go then brings the process   *)
(* up again from what the databases hold.                                  *)
(*                                                                         *)
(* A transaction is its position in the chain: 1, 2, 3, ... in block       *)
(* order.  Hashing is injective, so a hash is the record of what was       *)
(* hashed, and a state root is the history of the writes made to the state *)
(* database (nonces grow with every write of a sender, so two histories    *)
(* without a genesis reload in them have different roots).                 *)
(***************************************************************************)
EXTENDS Integers, Sequences, FiniteSets

CONSTANTS
  BatchSize,   \* transactions in a batch; 128 in the code
  ChanCap,     \* capacity of txChan; 128 in the code
  MaxBlock,    \* bound: the last block Geth produces
  TxsUpTo,     \* TxsUpTo[b]: how many transactions blocks 1..b hold
  FaultKinds,  \* which failures the environment shows
  MaxCrashes,  \* bound: crashes of the process
  MaxFaults    \* bound: failures of the other kinds

(***************************************************************************)
(*  "crash"  : the process dies and is started again                       *)
(*  "reject" : ProcessTransaction returns an error before any write        *)
(*  "blob"   : SubmitToDA returns an error instead of retrying             *)
(*  "noack"  : a remote service did its work, but the answer is lost       *)
(*  "prover" : ProverGenerate gives up on a non-retryable status           *)
(***************************************************************************)
AllFaults == {"crash", "reject", "blob", "noack", "prover"}

(***************************************************************************)
(* BatchSize > 1 is used: a batch of one would never be preceded by a      *)
(* saved partial batch, so its number would not survive a restart.         *)
(***************************************************************************)
ASSUME PipelineAssumption ==
  /\ BatchSize \in Nat /\ BatchSize > 1
  /\ ChanCap \in Nat /\ ChanCap > 0
  /\ MaxBlock \in Nat
  /\ TxsUpTo \in [0..MaxBlock -> Nat]
  /\ TxsUpTo[0] = 0
  /\ \A b, c \in 0..MaxBlock : b <= c => TxsUpTo[b] <= TxsUpTo[c]
  /\ FaultKinds \subseteq AllFaults
  /\ MaxCrashes \in Nat
  /\ MaxFaults \in Nat

VARIABLES
  \* What survives a crash: batchDB, txnDB and the state database.
  dbLastBlock,  \* key last_block; 0 when absent
  dbPartial,    \* key partial_batch; its no is 0 when absent
  dbBatch,      \* keys batch_<n>
  dbHash,       \* keys batch_<n>_hash
  dbState,      \* keys state_<n>
  dbProof,      \* keys proof_<n>: the hash the proof is for
  txnDB,        \* keys tx_<hash>: the transactions stored
  evm,          \* the state database, as the sequence of writes to it
  \* What the remote services hold.
  daBlobs,      \* the transaction lists published on the DA layer
  metadata,     \* the batch metadata recorded by Junction
  settled,      \* the batches recorded by Junction
  \* The start-up code and the indexing goroutine.
  ipc, lastBlock, pos,
  \* The channel between the goroutines.
  txChan,
  \* The batching goroutine.
  bpc, batchNo, txBuffer, totalGas, batch,
  \* The environment.
  head,         \* latest block of Geth
  crashes, faults

\* The keys the indexer writes, and those the builder writes.
chainKeys == <<dbLastBlock, dbState, txnDB, evm>>
batchKeys == <<dbPartial, dbBatch, dbHash, dbProof>>
durable  == <<chainKeys, batchKeys>>
services == <<daBlobs, metadata, settled>>
indexer  == <<ipc, lastBlock, pos>>
builder  == <<bpc, batchNo, txBuffer, totalGas, batch>>
environ  == <<head, crashes, faults>>

vars == <<durable, services, indexer, txChan, builder, environ>>

----------------------------------------------------------------------------
(***************************************************************************)
(* Values.                                                                 *)
(***************************************************************************)
Tx == 1..TxsUpTo[MaxBlock]

Write == [op : {"genesis", "from", "to"}, tx : Nat]
Root  == Seq(Write)
NoRoot == <<>>                       \* the empty string of an absent key

HashOf(txs, post) == [kind |-> "batch", txs |-> txs, post |-> post]
ZeroHash == [kind |-> "zero", txs |-> <<>>, post |-> <<>>]
NoHash   == [kind |-> "none", txs |-> <<>>, post |-> <<>>]
Hash == [kind : {"batch", "zero", "none"}, txs : Seq(Tx), post : Root]

NoDA == <<>>                         \* the commitment "0x0" of a failed call

(***************************************************************************)
(* A batch: its transactions, the hash of its predecessor, the two state   *)
(* roots, the gas metadata (one unit per transaction), the DA commitment   *)
(* and the two progress flags.                                             *)
(***************************************************************************)
Batch == [no : Nat, txs : Seq(Tx), prev : Hash, pre : Root, post : Root,
          gas : Nat, da : Seq(Tx), submitted : BOOLEAN, verified : BOOLEAN]

NoBatch == [no |-> 0, txs |-> <<>>, prev |-> NoHash, pre |-> NoRoot,
            post |-> NoRoot, gas |-> 0, da |-> NoDA,
            submitted |-> FALSE, verified |-> FALSE]

CurrentHash(b) == HashOf(b.txs, b.post)

Partial   == [no : Nat, txs : Seq(Tx), gas : Nat]
NoPartial == [no |-> 0, txs |-> <<>>, gas |-> 0]

(***************************************************************************)
(* Put and Get of the key-value store.  Get of an absent key gives nil,    *)
(* which each caller turns into a default of its own.                      *)
(***************************************************************************)
EmptyDB == [k \in {} |-> 0]
Put(db, key, value) ==
  [k \in DOMAIN db \cup {key} |-> IF k = key THEN value ELSE db[k]]
Get(db, key, absent) == IF key \in DOMAIN db THEN db[key] ELSE absent

\* The accounts a root is computed from, read in one snapshot.
GetAllAccounts == evm

\* Mutant: last_block is not read back.
RestartBlockAlwaysOne == 1

\* Where the indexer takes up its work after a start.
RestartBlock == IF dbLastBlock = 0 THEN 1 ELSE dbLastBlock

\* Mutant: the number in partial_batch is not read back.
RestartBatchAlwaysOne == 1

\* And the batch the builder takes up.
RestartBatch == IF dbPartial.no > 0 THEN dbPartial.no ELSE 1

\* Mutant: the key of the batch itself instead of that of its predecessor.
PrevHashOfSameBatch(n) == IF n = 1 THEN ZeroHash ELSE Get(dbHash, n, NoHash)

\* The hash CreateBatch chains batch n to.
PrevHash(n) == IF n = 1 THEN ZeroHash ELSE Get(dbHash, n - 1, NoHash)

----------------------------------------------------------------------------
Init ==
  /\ dbLastBlock = 0
  /\ dbPartial = NoPartial
  /\ dbBatch = EmptyDB
  /\ dbHash = EmptyDB
  /\ dbState = EmptyDB
  /\ dbProof = EmptyDB
  /\ txnDB = {}
  /\ evm = <<>>
  /\ daBlobs = {} /\ metadata = {} /\ settled = {}
  /\ ipc = "start" /\ lastBlock = 0 /\ pos = 0
  /\ txChan = <<>>
  /\ bpc = "down" /\ batchNo = 0 /\ txBuffer = <<>> /\ totalGas = 0
  /\ batch = NoBatch
  /\ head = 0 /\ crashes = 0 /\ faults = 0

(***************************************************************************)
(* Start-up.  Only a database without last_block has genesis loaded; the   *)
(* genesis root is then stored as state_0.                                 *)
(***************************************************************************)
LoadGenesis ==
  /\ ipc = "start"
  /\ dbLastBlock = 0
  /\ evm' = Append(evm, [op |-> "genesis", tx |-> 0])
  /\ ipc' = "state0"
  /\ UNCHANGED <<dbLastBlock, dbState, txnDB, batchKeys, services, lastBlock,
                 pos, txChan, builder, environ>>

PutGenesisRoot ==
  /\ ipc = "state0"
  /\ dbState' = Put(dbState, 0, GetAllAccounts)
  /\ ipc' = "load"
  /\ UNCHANGED <<dbLastBlock, txnDB, evm, batchKeys, services, lastBlock,
                 pos, txChan, builder, environ>>

SkipGenesis ==
  /\ ipc = "start"
  /\ dbLastBlock # 0
  /\ ipc' = "load"
  /\ UNCHANGED <<durable, services, lastBlock, pos, txChan, builder, environ>>

(***************************************************************************)
(* ProcessBlocks reads its progress back, makes the channel and starts the *)
(* batching goroutine.                                                     *)
(***************************************************************************)
LoadProgress ==
  /\ ipc = "load"
  /\ lastBlock' = RestartBlock
  /\ batchNo' = RestartBatch
  /\ txBuffer' = dbPartial.txs
  /\ totalGas' = dbPartial.gas
  /\ txChan' = <<>>
  /\ batch' = NoBatch
  /\ ipc' = "fetch"
  /\ bpc' = "collect"
  /\ UNCHANGED <<durable, services, pos, environ>>

----------------------------------------------------------------------------
\* Mutant: starts with the last transaction of the block before.
FetchBlockFromZero ==
  /\ ipc = "fetch"
  /\ lastBlock <= head
  /\ pos' = TxsUpTo[lastBlock - 1]
  /\ ipc' = IF pos' >= TxsUpTo[lastBlock] THEN "commit" ELSE "from"
  /\ UNCHANGED <<durable, services, lastBlock, txChan, builder, environ>>

(***************************************************************************)
(* The indexing goroutine.  Failed block requests are repeated every five  *)
(* seconds and change nothing; a failed trace or balance request leaves a  *)
(* placeholder in data that is not modelled.                               *)
(***************************************************************************)
FetchBlock ==
  /\ ipc = "fetch"
  /\ lastBlock <= head
  /\ pos' = TxsUpTo[lastBlock - 1] + 1
  /\ ipc' = IF pos' > TxsUpTo[lastBlock] THEN "commit" ELSE "from"
  /\ UNCHANGED <<durable, services, lastBlock, txChan, builder, environ>>

(***************************************************************************)
(* ProcessTransaction writes the sender's account, asks Geth for the state *)
(* of a contract where there is one, and then writes the recipient's       *)
(* account, its storage included: two writes, and in between another       *)
(* goroutine may read.                                                     *)
(***************************************************************************)
UpdateSender ==
  /\ ipc = "from"
  /\ evm' = Append(evm, [op |-> "from", tx |-> pos])
  /\ ipc' = "to"
  /\ UNCHANGED <<dbLastBlock, dbState, txnDB, batchKeys, services, lastBlock,
                 pos, txChan, builder, environ>>

UpdateRecipient ==
  /\ ipc = "to"
  /\ evm' = Append(evm, [op |-> "to", tx |-> pos])
  /\ ipc' = "store"
  /\ UNCHANGED <<dbLastBlock, dbState, txnDB, batchKeys, services, lastBlock,
                 pos, txChan, builder, environ>>

\* Geth does not say what gas was used, or the balance is too small: an error
\* the indexer does not look at.
RejectTransaction ==
  /\ "reject" \in FaultKinds /\ faults < MaxFaults
  /\ ipc = "from"
  /\ ipc' = "store"
  /\ faults' = faults + 1
  /\ UNCHANGED <<durable, services, lastBlock, pos, txChan, builder, head,
                 crashes>>

StoreTx ==
  /\ ipc = "store"
  /\ txnDB' = txnDB \cup {pos}
  /\ ipc' = "send"
  /\ UNCHANGED <<dbLastBlock, dbState, evm, batchKeys, services, lastBlock,
                 pos, txChan, builder, environ>>

\* Mutant: the channel has no capacity.
SendTxUnbounded ==
  /\ ipc = "send"
  /\ txChan' = Append(txChan, pos)
  /\ pos' = pos + 1
  /\ ipc' = IF pos' > TxsUpTo[lastBlock] THEN "commit" ELSE "from"
  /\ UNCHANGED <<durable, services, lastBlock, builder, environ>>

\* Mutant: a send that does not wait (select with a default).
SendTxNonBlocking ==
  /\ ipc = "send"
  /\ txChan' = IF Len(txChan) < ChanCap THEN Append(txChan, pos) ELSE txChan
  /\ pos' = pos + 1
  /\ ipc' = IF pos' > TxsUpTo[lastBlock] THEN "commit" ELSE "from"
  /\ UNCHANGED <<durable, services, lastBlock, builder, environ>>

SendTx ==
  /\ ipc = "send"
  /\ Len(txChan) < ChanCap
  /\ txChan' = Append(txChan, pos)
  /\ pos' = pos + 1
  /\ ipc' = IF pos' > TxsUpTo[lastBlock] THEN "commit" ELSE "from"
  /\ UNCHANGED <<durable, services, lastBlock, builder, environ>>

CommitBlock ==
  /\ ipc = "commit"
  /\ lastBlock' = lastBlock + 1
  /\ dbLastBlock' = lastBlock'
  /\ ipc' = "fetch"
  /\ UNCHANGED <<dbState, txnDB, evm, batchKeys, services, pos, txChan,
                 builder, environ>>

Indexer ==
  \/ LoadGenesis \/ PutGenesisRoot \/ SkipGenesis \/ LoadProgress
  \/ FetchBlock \/ UpdateSender \/ UpdateRecipient \/ RejectTransaction
  \/ StoreTx \/ SendTx \/ CommitBlock

----------------------------------------------------------------------------
(***************************************************************************)
(* The batching goroutine.                                                 *)
(***************************************************************************)
TakeTx ==
  /\ bpc = "collect"
  /\ txChan # <<>>
  /\ txBuffer' = Append(txBuffer, Head(txChan))
  /\ txChan' = Tail(txChan)
  /\ totalGas' = totalGas + 1
  /\ bpc' = IF Len(txBuffer') >= BatchSize THEN "create" ELSE "partial"
  /\ UNCHANGED <<durable, services, indexer, batchNo, batch, environ>>

\* Five seconds without a transaction; the timer starts with each select.
CollectTimeout ==
  /\ bpc = "collect"
  /\ txChan = <<>>
  /\ bpc' = IF txBuffer = <<>> THEN "collect" ELSE "partial"
  /\ UNCHANGED <<durable, services, indexer, txChan, batchNo, txBuffer,
                 totalGas, batch, environ>>

SavePartial ==
  /\ bpc = "partial"
  /\ dbPartial' = [no |-> batchNo, txs |-> txBuffer, gas |-> totalGas]
  /\ bpc' = "collect"
  /\ UNCHANGED <<chainKeys, dbBatch, dbHash, dbProof, services, indexer,
                 txChan, batchNo, txBuffer, totalGas, batch, environ>>

(***************************************************************************)
(* CreateBatch reads the state database as the indexer has left it by now. *)
(***************************************************************************)
CreateBatch ==
  /\ bpc = "create"
  /\ batch' = [no |-> batchNo,
               txs |-> SubSeq(txBuffer, 1, BatchSize),
               prev |-> PrevHash(batchNo),
               pre |-> Get(dbState, batchNo - 1, NoRoot),
               post |-> GetAllAccounts,
               gas |-> totalGas,
               da |-> NoDA,
               submitted |-> FALSE,
               verified |-> FALSE]
  /\ bpc' = "da"
  /\ UNCHANGED <<durable, services, indexer, txChan, batchNo, txBuffer,
                 totalGas, environ>>

SubmitToDA ==
  /\ bpc = "da"
  /\ daBlobs' = daBlobs \cup {batch.txs}
  /\ batch' = [batch EXCEPT !.da = batch.txs]
  /\ bpc' = "save1"
  /\ UNCHANGED <<durable, metadata, settled, indexer, txChan, batchNo,
                 txBuffer, totalGas, environ>>

\* The blob cannot be built: the batch goes on with the commitment "0x0".
BlobError ==
  /\ "blob" \in FaultKinds /\ faults < MaxFaults
  /\ bpc = "da"
  /\ bpc' = "save1"
  /\ faults' = faults + 1
  /\ UNCHANGED <<durable, services, indexer, txChan, batchNo, txBuffer,
                 totalGas, batch, head, crashes>>

(***************************************************************************)
(* SaveBatch, called after the DA submission, after the metadata and after *)
(* the settlement: the batch under one key, then its hash under another.   *)
(***************************************************************************)
PutBatch ==
  /\ bpc \in {"save1", "save2", "save3"}
  /\ dbBatch' = Put(dbBatch, batch.no, batch)
  /\ bpc' = CASE bpc = "save1" -> "hash1"
              [] bpc = "save2" -> "hash2"
              [] bpc = "save3" -> "hash3"
  /\ UNCHANGED <<chainKeys, dbPartial, dbHash, dbProof, services, indexer,
                 txChan, batchNo, txBuffer, totalGas, batch, environ>>

\* Mutant: goes on to the prover without SubmitBatchMetadata.
PutHashSkipMetadata ==
  /\ bpc \in {"hash1", "hash2"}
  /\ dbHash' = Put(dbHash, batch.no, CurrentHash(batch))
  /\ bpc' = "prove"
  /\ UNCHANGED <<chainKeys, dbPartial, dbBatch, dbProof, services, indexer,
                 txChan, batchNo, txBuffer, totalGas, batch, environ>>

PutHash ==
  /\ bpc \in {"hash1", "hash2"}
  /\ dbHash' = Put(dbHash, batch.no, CurrentHash(batch))
  /\ bpc' = IF bpc = "hash1" THEN "metadata" ELSE "prove"
  /\ UNCHANGED <<chainKeys, dbPartial, dbBatch, dbProof, services, indexer,
                 txChan, batchNo, txBuffer, totalGas, batch, environ>>

\* Mutant: the last transaction of the batch stays in the buffer.
FinishBatchKeepsLast ==
  /\ bpc = "hash3"
  /\ dbHash' = Put(dbHash, batch.no, CurrentHash(batch))
  /\ batchNo' = batchNo + 1
  /\ txBuffer' = SubSeq(txBuffer, BatchSize, Len(txBuffer))
  /\ totalGas' = 0
  /\ batch' = NoBatch
  /\ bpc' = IF txBuffer' = <<>> THEN "collect" ELSE "partial"
  /\ UNCHANGED <<chainKeys, dbPartial, dbBatch, dbProof, services, indexer,
                 txChan, environ>>

\* Mutant: the goroutine returns after a batch.
FinishBatchStops ==
  /\ bpc = "hash3"
  /\ dbHash' = Put(dbHash, batch.no, CurrentHash(batch))
  /\ batchNo' = batchNo + 1
  /\ txBuffer' = SubSeq(txBuffer, BatchSize + 1, Len(txBuffer))
  /\ totalGas' = 0
  /\ batch' = NoBatch
  /\ bpc' = "down"
  /\ UNCHANGED <<chainKeys, dbPartial, dbBatch, dbProof, services, indexer,
                 txChan, environ>>

(***************************************************************************)
(* The hash of the last SaveBatch; then the builder moves on to the next   *)
(* batch.  An empty buffer is not saved, so partial_batch stays behind.    *)
(***************************************************************************)
FinishBatch ==
  /\ bpc = "hash3"
  /\ dbHash' = Put(dbHash, batch.no, CurrentHash(batch))
  /\ batchNo' = batchNo + 1
  /\ txBuffer' = SubSeq(txBuffer, BatchSize + 1, Len(txBuffer))
  /\ totalGas' = 0
  /\ batch' = NoBatch
  /\ bpc' = IF txBuffer' = <<>> THEN "collect" ELSE "partial"
  /\ UNCHANGED <<chainKeys, dbPartial, dbBatch, dbProof, services, indexer,
                 txChan, environ>>

(***************************************************************************)
(* The calls to Junction are repeated until one is acknowledged; a failed  *)
(* attempt without effect changes nothing.                                 *)
(***************************************************************************)
MetadataOf(b) == [no |-> b.no, da |-> b.da]

\* Mutant: goes on after a failed attempt, as if it had succeeded.
SubmitBatchMetadataGivesUp ==
  /\ bpc = "metadata"
  /\ \/ metadata' = metadata \cup {MetadataOf(batch)}
     \/ UNCHANGED metadata
  /\ batch' = [batch EXCEPT !.submitted = TRUE]
  /\ bpc' = "save2"
  /\ UNCHANGED <<durable, daBlobs, settled, indexer, txChan, batchNo,
                 txBuffer, totalGas, environ>>

SubmitBatchMetadata ==
  /\ bpc = "metadata"
  /\ metadata' = metadata \cup {MetadataOf(batch)}
  /\ batch' = [batch EXCEPT !.submitted = TRUE]
  /\ bpc' = "save2"
  /\ UNCHANGED <<durable, daBlobs, settled, indexer, txChan, batchNo,
                 txBuffer, totalGas, environ>>

ProverGenerate ==
  /\ bpc = "prove"
  /\ bpc' = "proof"
  /\ UNCHANGED <<durable, services, indexer, txChan, batchNo, txBuffer,
                 totalGas, batch, environ>>

\* Mutant: the buffer is emptied when the prover gives up.
ProverErrorDropsBatch ==
  /\ "prover" \in FaultKinds /\ faults < MaxFaults
  /\ bpc = "prove"
  /\ batch' = NoBatch
  /\ bpc' = "collect"
  /\ faults' = faults + 1
  /\ txBuffer' = <<>>
  /\ UNCHANGED <<durable, services, indexer, txChan, batchNo,
                 totalGas, head, crashes>>

\* Mutant: waits for another transaction before it tries again.
ProverErrorAwaitsTx ==
  /\ "prover" \in FaultKinds /\ faults < MaxFaults
  /\ bpc = "prove"
  /\ batch' = NoBatch
  /\ bpc' = "collect"
  /\ faults' = faults + 1
  /\ UNCHANGED <<durable, services, indexer, txChan, batchNo, txBuffer,
                 totalGas, head, crashes>>

\* The loop starts over with a full buffer, so the batch is created again.
ProverError ==
  /\ "prover" \in FaultKinds /\ faults < MaxFaults
  /\ bpc = "prove"
  /\ batch' = NoBatch
  /\ bpc' = "create"
  /\ faults' = faults + 1
  /\ UNCHANGED <<durable, services, indexer, txChan, batchNo, txBuffer,
                 totalGas, head, crashes>>

PutProof ==
  /\ bpc = "proof"
  /\ dbProof' = Put(dbProof, batch.no, CurrentHash(batch))
  /\ bpc' = "settle"
  /\ UNCHANGED <<chainKeys, dbPartial, dbBatch, dbHash, services, indexer,
                 txChan, batchNo, txBuffer, totalGas, batch, environ>>

\* SubmitBatch is given a proof and a previous hash, and sends neither.
SettlementOf(b) ==
  [no |-> b.no, root |-> CurrentHash(b), prev |-> NoHash, proof |-> NoHash]

SubmitBatch ==
  /\ bpc = "settle"
  /\ settled' = settled \cup {SettlementOf(batch)}
  /\ batch' = [batch EXCEPT !.verified = TRUE]
  /\ bpc' = "save3"
  /\ UNCHANGED <<durable, daBlobs, metadata, indexer, txChan, batchNo,
                 txBuffer, totalGas, environ>>

\* Mutant: a settlement without an answer creates the batch anew.
LostAnswerStartsOver ==
  /\ "noack" \in FaultKinds /\ faults < MaxFaults
  /\ bpc = "settle"
  /\ settled' = settled \cup {SettlementOf(batch)}
  /\ bpc' = "create"
  /\ batch' = NoBatch
  /\ faults' = faults + 1
  /\ UNCHANGED <<durable, daBlobs, metadata, indexer, txChan, batchNo,
                 txBuffer, totalGas, head, crashes>>

(***************************************************************************)
(* A remote service takes the message and its answer is lost: the builder  *)
(* stays where it is and will send the message again.                      *)
(***************************************************************************)
LostAnswer ==
  /\ "noack" \in FaultKinds /\ faults < MaxFaults
  /\ \/ /\ bpc = "da"
        /\ daBlobs' = daBlobs \cup {batch.txs}
        /\ UNCHANGED <<metadata, settled>>
     \/ /\ bpc = "metadata"
        /\ metadata' = metadata \cup {MetadataOf(batch)}
        /\ UNCHANGED <<daBlobs, settled>>
     \/ /\ bpc = "settle"
        /\ settled' = settled \cup {SettlementOf(batch)}
        /\ UNCHANGED <<daBlobs, metadata>>
  /\ faults' = faults + 1
  /\ UNCHANGED <<durable, indexer, txChan, builder, head, crashes>>

Builder ==
  \/ TakeTx \/ CollectTimeout \/ SavePartial \/ CreateBatch
  \/ SubmitToDA \/ BlobError \/ PutBatch \/ PutHash \/ FinishBatch
  \/ SubmitBatchMetadata \/ ProverGenerate \/ ProverError \/ PutProof
  \/ SubmitBatch \/ LostAnswer

----------------------------------------------------------------------------
(***************************************************************************)
(* The environment: Geth appends blocks, and the process may die and be    *)
(* started again with the databases as they are.                           *)
(***************************************************************************)
NewBlock ==
  /\ head < MaxBlock
  /\ head' = head + 1
  /\ UNCHANGED <<durable, services, indexer, txChan, builder, crashes, faults>>

Crash ==
  /\ "crash" \in FaultKinds /\ crashes < MaxCrashes
  /\ ipc # "start"
  /\ crashes' = crashes + 1
  /\ ipc' = "start" /\ lastBlock' = 0 /\ pos' = 0
  /\ txChan' = <<>>
  /\ bpc' = "down" /\ batchNo' = 0 /\ txBuffer' = <<>> /\ totalGas' = 0
  /\ batch' = NoBatch
  /\ UNCHANGED <<durable, services, head, faults>>

Next == Indexer \/ Builder \/ NewBlock \/ Crash

Spec == Init /\ [][Next]_vars

(***************************************************************************)
(* The Go scheduler runs both goroutines, and no remote call fails for     *)
(* ever (MaxFaults), so each goroutine that can move moves.                *)
(***************************************************************************)
FairSpec == Spec /\ WF_vars(Indexer) /\ WF_vars(Builder)

----------------------------------------------------------------------------
(***************************************************************************)
(* Properties.                                                             *)
(***************************************************************************)

DurableOK ==
  /\ dbLastBlock \in 0..(MaxBlock + 1)
  /\ dbPartial \in Partial
  /\ DOMAIN dbBatch \subseteq Nat
  /\ \A n \in DOMAIN dbBatch : dbBatch[n] \in Batch
  /\ DOMAIN dbHash \subseteq Nat
  /\ \A n \in DOMAIN dbHash : dbHash[n] \in Hash
  /\ DOMAIN dbState \subseteq Nat
  /\ \A n \in DOMAIN dbState : dbState[n] \in Root
  /\ DOMAIN dbProof \subseteq Nat
  /\ \A n \in DOMAIN dbProof : dbProof[n] \in Hash
  /\ txnDB \subseteq Tx
  /\ evm \in Root

ServicesOK ==
  /\ daBlobs \subseteq Seq(Tx)
  /\ metadata \subseteq [no : Nat, da : Seq(Tx)]
  /\ settled \subseteq [no : Nat, root : Hash, prev : Hash, proof : Hash]

InBlock == {"from", "to", "store", "send"}

IndexerOK ==
  /\ ipc \in {"start", "state0", "load", "fetch", "commit"} \cup InBlock
  /\ lastBlock \in 0..(MaxBlock + 1)
  /\ pos \in Nat
  /\ ipc \in {"fetch", "commit"} \cup InBlock => lastBlock > 0
  /\ ipc \in {"commit"} \cup InBlock => lastBlock <= MaxBlock
  /\ ipc \in InBlock => pos \in Tx /\ pos <= TxsUpTo[lastBlock]

\* The places of the builder where it holds a batch.
Working == {"da", "save1", "hash1", "metadata", "save2", "hash2", "prove",
            "proof", "settle", "save3", "hash3"}

BuilderOK ==
  /\ bpc \in {"down", "collect", "partial", "create"} \cup Working
  /\ batchNo \in Nat
  /\ txBuffer \in Seq(Tx)
  /\ bpc \in {"create"} \cup Working => Len(txBuffer) >= BatchSize
  /\ totalGas \in Nat
  /\ batch \in Batch

EnvironOK ==
  /\ head \in 0..MaxBlock
  /\ crashes \in 0..MaxCrashes
  /\ faults \in 0..MaxFaults

\* The type invariant.  A transaction in work is one of the block in work.
TypeOK ==
  DurableOK /\ ServicesOK /\ IndexerOK /\ txChan \in Seq(Tx) /\ BuilderOK
    /\ EnvironOK

(***************************************************************************)
(* Every stored batch after the first names, as its predecessor's hash,    *)
(* the hash of the batch stored before it, and that one is verified:       *)
(* batches are settled one at a time and chained by CreateBatch, whatever  *)
(* crashes fall between the two Puts of SaveBatch.                         *)
(***************************************************************************)
HashChain ==
  \A n \in DOMAIN dbBatch :
    n > 1 => /\ n - 1 \in DOMAIN dbBatch /\ n - 1 \in DOMAIN dbHash
             /\ dbBatch[n].prev = dbHash[n - 1]
             /\ dbHash[n - 1] = CurrentHash(dbBatch[n - 1])
             /\ dbBatch[n - 1].verified

(***************************************************************************)
(* HashChain made inductive.  Until the first transaction of batch n + 1   *)
(* is saved in partial_batch, a restart comes back to batch n, so all      *)
(* batches before the restart number are final and the builder is never    *)
(* more than one batch ahead of it.                                        *)
(***************************************************************************)
Complete(n) ==
  /\ n \in DOMAIN dbBatch /\ n \in DOMAIN dbHash
  /\ dbHash[n] = CurrentHash(dbBatch[n])
  /\ dbBatch[n].verified

StoreInv ==
  /\ DOMAIN dbBatch \subseteq 1..RestartBatch
  /\ \A n \in 1..(RestartBatch - 1) : Complete(n)
  /\ \A n \in DOMAIN dbBatch :
       n > 1 => n - 1 \in DOMAIN dbHash /\ dbBatch[n].prev = dbHash[n - 1]

BuilderInv ==
  /\ bpc # "down" => batchNo \in {RestartBatch, RestartBatch + 1}
  /\ bpc = "collect" /\ batchNo = RestartBatch + 1 => txBuffer = <<>>
  /\ bpc # "down" /\ batchNo = RestartBatch + 1 =>
       bpc \in {"collect", "partial"} /\ Complete(RestartBatch)
  /\ bpc \in Working =>
       batch.no = batchNo /\ batch.prev = PrevHash(batchNo)
  /\ bpc \in {"save3", "hash3"} => batch.verified
  /\ bpc = "hash3" =>
       batchNo \in DOMAIN dbBatch /\ dbBatch[batchNo] = batch

\* A saved partial batch is never full, and a full buffer never over-full.
BufferInv ==
  /\ Len(dbPartial.txs) < BatchSize
  /\ bpc \in {"collect", "partial"} => Len(txBuffer) < BatchSize
  /\ bpc \in {"create"} \cup Working => Len(txBuffer) = BatchSize

ChainInv == StoreInv /\ BuilderInv /\ BufferInv

(***************************************************************************)
(* The progress flags of a stored batch tell the truth about the remote    *)
(* services: a submitted batch has its metadata on Junction, a verified    *)
(* one is settled under its own hash and has its proof in proof_<n>.       *)
(***************************************************************************)
DurableFlagsBacked ==
  \A n \in DOMAIN dbBatch :
    /\ dbBatch[n].submitted => MetadataOf(dbBatch[n]) \in metadata
    /\ dbBatch[n].verified =>
         /\ dbBatch[n].submitted
         /\ SettlementOf(dbBatch[n]) \in settled
         /\ n \in DOMAIN dbProof /\ dbProof[n] = CurrentHash(dbBatch[n])

(***************************************************************************)
(* Junction sees batches in order and complete: a settled batch comes      *)
(* after the metadata for just these transactions, whose blob (if one      *)
(* could be built) is on the DA layer, and after its predecessor.          *)
(***************************************************************************)
SettlementOrder ==
  \A s \in settled :
    /\ \E m \in metadata :
         /\ m.no = s.no /\ m.da \in {s.root.txs, NoDA}
         /\ m.da # NoDA => m.da \in daBlobs
    /\ s.no > 1 => \E t \in settled : t.no = s.no - 1

(***************************************************************************)
(* Without crashes batch n holds exactly the n-th BatchSize transactions   *)
(* of the chain, each once and in block order, and is charged their gas.   *)
(***************************************************************************)
Slice(n) == [i \in 1..BatchSize |-> (n - 1) * BatchSize + i]

InOrderExactlyOnce ==
  \A n \in DOMAIN dbBatch :
    dbBatch[n].txs = Slice(n) /\ dbBatch[n].gas = BatchSize

(***************************************************************************)
(* How far a post-state root can be ahead of its batch: without crashes it *)
(* covers all of the batch (but for the rejected transactions) and no more *)
(* than what fits in the channel and the indexer's hands beyond it.        *)
(***************************************************************************)
Sent(root) == {root[i].tx : i \in {j \in DOMAIN root : root[j].op = "from"}}

LeadBounded ==
  \A n \in DOMAIN dbBatch :
    LET applied == Sent(dbBatch[n].post)
    IN /\ "reject" \notin FaultKinds => 1..(n * BatchSize) \subseteq applied
       /\ applied \subseteq 1..(n * BatchSize + ChanCap + 1)

\* Without crashes Junction never sees two different roots for one batch,
\* whatever answers are lost and whatever proofs fail.
NoEquivocation ==
  \A s, t \in settled : s.no = t.no => s = t

(***************************************************************************)
(* What crashes can do to a settlement: a batch number may be settled      *)
(* again, but only with another last transaction.  The partial batch is    *)
(* saved after every transaction but the one that fills it, so a restart   *)
(* takes up all but that one.                                              *)
(***************************************************************************)
SettledAgree ==
  \A s, t \in settled :
    s.no = t.no => \A i \in 1..(BatchSize - 1) : s.root.txs[i] = t.root.txs[i]

(***************************************************************************)
(* What crashes can lose: of the transactions in committed blocks, each    *)
(* crash loses what is in the channel, the one taken from it and not yet   *)
(* saved, and the last one of a finished batch that a restart fills again  *)
(* (partial_batch stays behind until its successor has a transaction); all *)
(* others are in a stored batch, the partial one or on their way.          *)
(***************************************************************************)
SetOf(seq) == {seq[i] : i \in DOMAIN seq}
OnTheWay == SetOf(txChan) \cup SetOf(txBuffer) \cup SetOf(dbPartial.txs)
Batched  == UNION {SetOf(dbBatch[n].txs) : n \in DOMAIN dbBatch}
Committed == 1..(IF dbLastBlock = 0 THEN 0 ELSE TxsUpTo[dbLastBlock - 1])

LossBounded ==
  Cardinality(Committed \ (OnTheWay \cup Batched)) <= crashes * (ChanCap + 2)

(***************************************************************************)
(* Across restarts, a transaction of a committed block is never applied to *)
(* the state again: the indexer starts over at last_block and not before.  *)
(***************************************************************************)
CommittedNeverReplayed ==
  [][evm' # evm /\ evm'[Len(evm')].op # "genesis"
       => dbLastBlock = 0 \/ evm'[Len(evm')].tx > TxsUpTo[dbLastBlock - 1]
    ]_vars

\* Without crashes every full slice of the chain is eventually settled.
EverySliceSettles ==
  \A n \in 1..(TxsUpTo[MaxBlock] \div BatchSize) :
    (TxsUpTo[head] >= n * BatchSize)
      ~> (\E s \in settled : s.no = n /\ s.root.txs = Slice(n))

\* Whatever crashes, every block of Geth is eventually committed: the
\* indexer is never blocked for ever on a channel nobody drains.
EveryBlockCommitted ==
  \A b \in 1..MaxBlock : (head >= b) ~> (dbLastBlock > b)

============================================================================
