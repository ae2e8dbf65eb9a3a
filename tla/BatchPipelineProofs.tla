------------------------ MODULE BatchPipelineProofs ------------------------
(***************************************************************************)
(* Proofs about the batching pipeline for every value of its constants:    *)
(* type correctness, the invariant ChainInv of the batch store, from it    *)
(* the unbroken chain of batch hashes, and FlagInv, which relates the      *)
(* store to the remote services.                                           *)
(***************************************************************************)
EXTENDS BatchPipeline, SequenceTheorems, TLAPS

(***************************************************************************)
(* Put keeps a database a function on numbers with values of one type.     *)
(***************************************************************************)
LEMMA PutTyped ==
  ASSUME NEW S, NEW db, NEW k \in Nat, NEW v \in S,
         DOMAIN db \subseteq Nat, \A n \in DOMAIN db : db[n] \in S
  PROVE  /\ DOMAIN Put(db, k, v) \subseteq Nat
         /\ \A n \in DOMAIN Put(db, k, v) : Put(db, k, v)[n] \in S
  BY DEF Put

\* The hash of a batch is a hash.
LEMMA CurrentHashTyped ==
  ASSUME NEW b \in Batch
  PROVE  CurrentHash(b) \in Hash
  BY DEF Batch, CurrentHash, HashOf, Hash

\* So are the hash of an absent key and the one batch 1 starts from.
LEMMA NoHashTyped == NoHash \in Hash /\ ZeroHash \in Hash
  BY DEF NoHash, ZeroHash, Hash, Root

\* The builder's empty hands are of the type of a batch.
LEMMA NoBatchTyped == NoBatch \in Batch
  BY NoHashTyped DEF NoBatch, Batch, NoRoot, Root, NoDA

\* Batches are numbered.
LEMMA BatchNoTyped ==
  ASSUME NEW b \in Batch
  PROVE  b.no \in Nat
  BY DEF Batch

\* What CreateBatch cuts off the buffer: as many transactions as it asks for.
LEMMA BatchOfBuffer ==
  ASSUME NEW s \in Seq(Tx), NEW n \in Nat, n <= Len(s)
  PROVE  SubSeq(s, 1, n) \in Seq(Tx) /\ Len(SubSeq(s, 1, n)) = n
<1>1. \A i \in 1..n : s[i] \in Tx
  BY ElementOfSeq, LenProperties
<1> QED  BY <1>1, SubSeqProperties

\* What FinishBatch leaves of the buffer is a buffer.
LEMMA RestOfBuffer ==
  ASSUME NEW s \in Seq(Tx), NEW n \in Nat
  PROVE  SubSeq(s, n + 1, Len(s)) \in Seq(Tx)
<1>1. \A i \in (n + 1)..Len(s) : s[i] \in Tx
  BY ElementOfSeq, LenProperties
<1> QED  BY <1>1, SubSeqProperties, LenProperties

(***************************************************************************)
(* Every step keeps TypeOK.  It is inductive as it stands, because it says *)
(* of each place of the indexer and the builder what they hold there: a    *)
(* transaction of the block in work, at least BatchSize transactions.      *)
(***************************************************************************)
LEMMA TypeStep ==
  TypeOK /\ [Next]_vars => TypeOK'
<1> SUFFICES ASSUME TypeOK, [Next]_vars PROVE TypeOK'
  OBVIOUS
<1> USE DEF TypeOK
<1>w. ASSUME NEW w \in Write, evm \in Root  PROVE Append(evm, w) \in Root
  BY <1>w DEF Root
<1>1. CASE LoadGenesis
  <2>1. DurableOK'
    BY <1>1, <1>w
    DEF LoadGenesis, DurableOK, durable, chainKeys, batchKeys, Root, Write
  <2>2. IndexerOK'
    BY <1>1 DEF LoadGenesis, IndexerOK, indexer, InBlock
  <2>3. ServicesOK' /\ txChan' \in Seq(Tx) /\ BuilderOK' /\ EnvironOK'
    BY <1>1
    DEF LoadGenesis, ServicesOK, services, BuilderOK, builder, Working,
        EnvironOK, environ
  <2> QED  BY <2>1, <2>2, <2>3 DEF TypeOK
<1>2. CASE PutGenesisRoot
  <2>1. DurableOK'
    BY <1>2, PutTyped
    DEF PutGenesisRoot, DurableOK, durable, chainKeys, batchKeys,
        GetAllAccounts
  <2>2. IndexerOK'
    BY <1>2 DEF PutGenesisRoot, IndexerOK, indexer, InBlock
  <2>3. ServicesOK' /\ txChan' \in Seq(Tx) /\ BuilderOK' /\ EnvironOK'
    BY <1>2
    DEF PutGenesisRoot, ServicesOK, services, BuilderOK, builder, Working,
        EnvironOK, environ
  <2> QED  BY <2>1, <2>2, <2>3 DEF TypeOK
<1>3. CASE SkipGenesis
  <2>1. IndexerOK'
    BY <1>3 DEF SkipGenesis, IndexerOK, indexer, InBlock
  <2>2. DurableOK' /\ ServicesOK' /\ txChan' \in Seq(Tx) /\ BuilderOK'
        /\ EnvironOK'
    BY <1>3
    DEF SkipGenesis, DurableOK, durable, chainKeys, batchKeys, ServicesOK,
        services, BuilderOK, builder, Working, EnvironOK, environ
  <2> QED  BY <2>1, <2>2 DEF TypeOK
<1>4. CASE LoadProgress
  <2>1. IndexerOK'
    BY <1>4, PipelineAssumption
    DEF LoadProgress, IndexerOK, indexer, InBlock, RestartBlock, DurableOK
  <2>2. txChan' \in Seq(Tx)
    BY <1>4 DEF LoadProgress
  <2>3. BuilderOK'
    BY <1>4, NoBatchTyped, PipelineAssumption
    DEF LoadProgress, BuilderOK, builder, Working, RestartBatch, DurableOK,
        Partial
  <2>4. DurableOK' /\ ServicesOK' /\ EnvironOK'
    BY <1>4
    DEF LoadProgress, DurableOK, durable, chainKeys, batchKeys, ServicesOK,
        services, EnvironOK, environ
  <2> QED  BY <2>1, <2>2, <2>3, <2>4 DEF TypeOK
<1>5. CASE FetchBlock
  <2>1. IndexerOK'
    BY <1>5, PipelineAssumption
    DEF FetchBlock, IndexerOK, indexer, InBlock, Tx, EnvironOK
  <2>2. DurableOK' /\ ServicesOK' /\ txChan' \in Seq(Tx) /\ BuilderOK'
        /\ EnvironOK'
    BY <1>5
    DEF FetchBlock, DurableOK, durable, chainKeys, batchKeys, ServicesOK,
        services, BuilderOK, builder, Working, EnvironOK, environ
  <2> QED  BY <2>1, <2>2 DEF TypeOK
<1>6. CASE UpdateSender
  <2>1. DurableOK'
    BY <1>6, <1>w
    DEF UpdateSender, DurableOK, durable, chainKeys, batchKeys, Root, Write,
        IndexerOK
  <2>2. IndexerOK'
    BY <1>6 DEF UpdateSender, IndexerOK, indexer, InBlock
  <2>3. ServicesOK' /\ txChan' \in Seq(Tx) /\ BuilderOK' /\ EnvironOK'
    BY <1>6
    DEF UpdateSender, ServicesOK, services, BuilderOK, builder, Working,
        EnvironOK, environ
  <2> QED  BY <2>1, <2>2, <2>3 DEF TypeOK
<1>7. CASE UpdateRecipient
  <2>1. DurableOK'
    BY <1>7, <1>w
    DEF UpdateRecipient, DurableOK, durable, chainKeys, batchKeys, Root,
        Write, IndexerOK
  <2>2. IndexerOK'
    BY <1>7 DEF UpdateRecipient, IndexerOK, indexer, InBlock
  <2>3. ServicesOK' /\ txChan' \in Seq(Tx) /\ BuilderOK' /\ EnvironOK'
    BY <1>7
    DEF UpdateRecipient, ServicesOK, services, BuilderOK, builder, Working,
        EnvironOK, environ
  <2> QED  BY <2>1, <2>2, <2>3 DEF TypeOK
<1>8. CASE RejectTransaction
  <2>1. IndexerOK'
    BY <1>8 DEF RejectTransaction, IndexerOK, indexer, InBlock
  <2>2. EnvironOK'
    BY <1>8, PipelineAssumption DEF RejectTransaction, EnvironOK, environ
  <2>3. DurableOK' /\ ServicesOK' /\ txChan' \in Seq(Tx) /\ BuilderOK'
    BY <1>8
    DEF RejectTransaction, DurableOK, durable, chainKeys, batchKeys,
        ServicesOK, services, BuilderOK, builder, Working
  <2> QED  BY <2>1, <2>2, <2>3 DEF TypeOK
<1>9. CASE StoreTx
  <2>1. DurableOK'
    BY <1>9 DEF StoreTx, DurableOK, durable, chainKeys, batchKeys, IndexerOK
  <2>2. IndexerOK'
    BY <1>9 DEF StoreTx, IndexerOK, indexer, InBlock
  <2>3. ServicesOK' /\ txChan' \in Seq(Tx) /\ BuilderOK' /\ EnvironOK'
    BY <1>9
    DEF StoreTx, ServicesOK, services, BuilderOK, builder, Working, EnvironOK,
        environ
  <2> QED  BY <2>1, <2>2, <2>3 DEF TypeOK
<1>10. CASE SendTx
  <2>1. IndexerOK'
    BY <1>10, PipelineAssumption DEF SendTx, IndexerOK, indexer, InBlock, Tx
  <2>2. txChan' \in Seq(Tx)
    BY <1>10 DEF SendTx, IndexerOK
  <2>3. DurableOK' /\ ServicesOK' /\ BuilderOK' /\ EnvironOK'
    BY <1>10
    DEF SendTx, DurableOK, durable, chainKeys, batchKeys, ServicesOK,
        services, BuilderOK, builder, Working, EnvironOK, environ
  <2> QED  BY <2>1, <2>2, <2>3 DEF TypeOK
<1>11. CASE CommitBlock
  <2>1. DurableOK'
    BY <1>11, PipelineAssumption
    DEF CommitBlock, DurableOK, durable, chainKeys, batchKeys, IndexerOK
  <2>2. IndexerOK'
    BY <1>11, PipelineAssumption DEF CommitBlock, IndexerOK, indexer, InBlock
  <2>3. ServicesOK' /\ txChan' \in Seq(Tx) /\ BuilderOK' /\ EnvironOK'
    BY <1>11
    DEF CommitBlock, ServicesOK, services, BuilderOK, builder, Working,
        EnvironOK, environ
  <2> QED  BY <2>1, <2>2, <2>3 DEF TypeOK
<1>12. CASE TakeTx
  <2>1. txChan' \in Seq(Tx)
    BY <1>12 DEF TakeTx
  <2>2. BuilderOK'
    BY <1>12 DEF TakeTx, BuilderOK, builder, Working
  <2>3. DurableOK' /\ ServicesOK' /\ IndexerOK' /\ EnvironOK'
    BY <1>12
    DEF TakeTx, DurableOK, durable, chainKeys, batchKeys, ServicesOK,
        services, IndexerOK, indexer, InBlock, EnvironOK, environ
  <2> QED  BY <2>1, <2>2, <2>3 DEF TypeOK
<1>13. CASE CollectTimeout
  <2>1. BuilderOK'
    BY <1>13 DEF CollectTimeout, BuilderOK, builder, Working
  <2>2. DurableOK' /\ ServicesOK' /\ IndexerOK' /\ txChan' \in Seq(Tx)
        /\ EnvironOK'
    BY <1>13
    DEF CollectTimeout, DurableOK, durable, chainKeys, batchKeys, ServicesOK,
        services, IndexerOK, indexer, InBlock, EnvironOK, environ
  <2> QED  BY <2>1, <2>2 DEF TypeOK
<1>14. CASE SavePartial
  <2>1. DurableOK'
    BY <1>14
    DEF SavePartial, DurableOK, durable, chainKeys, batchKeys, Partial,
        BuilderOK
  <2>2. BuilderOK'
    BY <1>14 DEF SavePartial, BuilderOK, builder, Working
  <2>3. ServicesOK' /\ IndexerOK' /\ txChan' \in Seq(Tx) /\ EnvironOK'
    BY <1>14
    DEF SavePartial, ServicesOK, services, IndexerOK, indexer, InBlock,
        EnvironOK, environ
  <2> QED  BY <2>1, <2>2, <2>3 DEF TypeOK
<1>15. CASE CreateBatch
  <2>a. SubSeq(txBuffer, 1, BatchSize) \in Seq(Tx)
    BY <1>15, PipelineAssumption, BatchOfBuffer DEF CreateBatch, BuilderOK
  <2>b. PrevHash(batchNo) \in Hash
    BY NoHashTyped DEF PrevHash, Get, DurableOK
  <2>c. Get(dbState, batchNo - 1, NoRoot) \in Root
    BY DEF Get, DurableOK, NoRoot, Root
  <2>d. batch' \in Batch
    BY <1>15, <2>a, <2>b, <2>c
    DEF CreateBatch, Batch, GetAllAccounts, NoDA, BuilderOK, DurableOK
  <2>1. BuilderOK'
    BY <1>15, <2>d DEF CreateBatch, BuilderOK, Working
  <2>2. DurableOK' /\ ServicesOK' /\ IndexerOK' /\ txChan' \in Seq(Tx)
        /\ EnvironOK'
    BY <1>15
    DEF CreateBatch, DurableOK, durable, chainKeys, batchKeys, ServicesOK,
        services, IndexerOK, indexer, InBlock, EnvironOK, environ
  <2> QED  BY <2>1, <2>2 DEF TypeOK
<1>16. CASE SubmitToDA
  <2>1. ServicesOK'
    BY <1>16 DEF SubmitToDA, ServicesOK, services, Batch, BuilderOK
  <2>2. BuilderOK'
    BY <1>16 DEF SubmitToDA, BuilderOK, builder, Working, Batch
  <2>3. DurableOK' /\ IndexerOK' /\ txChan' \in Seq(Tx) /\ EnvironOK'
    BY <1>16
    DEF SubmitToDA, DurableOK, durable, chainKeys, batchKeys, IndexerOK,
        indexer, InBlock, EnvironOK, environ
  <2> QED  BY <2>1, <2>2, <2>3 DEF TypeOK
<1>17. CASE BlobError
  <2>1. BuilderOK'
    BY <1>17 DEF BlobError, BuilderOK, builder, Working
  <2>2. EnvironOK'
    BY <1>17, PipelineAssumption DEF BlobError, EnvironOK, environ
  <2>3. DurableOK' /\ ServicesOK' /\ IndexerOK' /\ txChan' \in Seq(Tx)
    BY <1>17
    DEF BlobError, DurableOK, durable, chainKeys, batchKeys, ServicesOK,
        services, IndexerOK, indexer, InBlock
  <2> QED  BY <2>1, <2>2, <2>3 DEF TypeOK
<1>18. CASE PutBatch
  <2>1. DurableOK'
    BY <1>18, PutTyped, BatchNoTyped
    DEF PutBatch, DurableOK, durable, chainKeys, batchKeys, BuilderOK
  <2>2. BuilderOK'
    <3>1. /\ UNCHANGED <<batchNo, txBuffer, totalGas, batch>>
          /\ bpc \in Working /\ bpc' \in Working
      BY <1>18 DEF PutBatch, builder, Working
    <3> QED  BY <3>1 DEF BuilderOK
  <2>3. ServicesOK' /\ IndexerOK' /\ txChan' \in Seq(Tx) /\ EnvironOK'
    BY <1>18
    DEF PutBatch, ServicesOK, services, IndexerOK, indexer, InBlock,
        EnvironOK, environ
  <2> QED  BY <2>1, <2>2, <2>3 DEF TypeOK
<1>19. CASE PutHash
  <2>1. DurableOK'
    <3>1. /\ dbHash' = Put(dbHash, batch.no, CurrentHash(batch))
          /\ UNCHANGED <<chainKeys, dbPartial, dbBatch, dbProof>>
      BY <1>19 DEF PutHash, durable, batchKeys
    <3>2. batch \in Batch /\ batch.no \in Nat
      BY BatchNoTyped DEF BuilderOK
    <3> QED
      BY <3>1, <3>2, PutTyped, CurrentHashTyped DEF DurableOK, chainKeys
  <2>2. BuilderOK'
    BY <1>19 DEF PutHash, BuilderOK, builder, Working
  <2>3. ServicesOK' /\ IndexerOK' /\ txChan' \in Seq(Tx) /\ EnvironOK'
    BY <1>19
    DEF PutHash, ServicesOK, services, IndexerOK, indexer, InBlock, EnvironOK,
        environ
  <2> QED  BY <2>1, <2>2, <2>3 DEF TypeOK
<1>20. CASE FinishBatch
  <2>1. DurableOK'
    BY <1>20, PutTyped, CurrentHashTyped
    DEF FinishBatch, DurableOK, durable, chainKeys, batchKeys, BuilderOK,
        Batch
  <2>2. BuilderOK'
    BY <1>20, NoBatchTyped, RestOfBuffer, PipelineAssumption
    DEF FinishBatch, BuilderOK, Working
  <2>3. ServicesOK' /\ IndexerOK' /\ txChan' \in Seq(Tx) /\ EnvironOK'
    BY <1>20
    DEF FinishBatch, ServicesOK, services, IndexerOK, indexer, InBlock,
        EnvironOK, environ
  <2> QED  BY <2>1, <2>2, <2>3 DEF TypeOK
<1>21. CASE SubmitBatchMetadata
  <2>1. ServicesOK'
    BY <1>21
    DEF SubmitBatchMetadata, ServicesOK, services, MetadataOf, Batch,
        BuilderOK
  <2>2. BuilderOK'
    BY <1>21 DEF SubmitBatchMetadata, BuilderOK, builder, Working, Batch
  <2>3. DurableOK' /\ IndexerOK' /\ txChan' \in Seq(Tx) /\ EnvironOK'
    BY <1>21
    DEF SubmitBatchMetadata, DurableOK, durable, chainKeys, batchKeys,
        IndexerOK, indexer, InBlock, EnvironOK, environ
  <2> QED  BY <2>1, <2>2, <2>3 DEF TypeOK
<1>22. CASE ProverGenerate
  <2>1. BuilderOK'
    BY <1>22 DEF ProverGenerate, BuilderOK, builder, Working
  <2>2. DurableOK' /\ ServicesOK' /\ IndexerOK' /\ txChan' \in Seq(Tx)
        /\ EnvironOK'
    BY <1>22
    DEF ProverGenerate, DurableOK, durable, chainKeys, batchKeys, ServicesOK,
        services, IndexerOK, indexer, InBlock, EnvironOK, environ
  <2> QED  BY <2>1, <2>2 DEF TypeOK
<1>23. CASE ProverError
  <2>1. BuilderOK'
    BY <1>23, NoBatchTyped DEF ProverError, BuilderOK, builder, Working
  <2>2. EnvironOK'
    BY <1>23, PipelineAssumption DEF ProverError, EnvironOK, environ
  <2>3. DurableOK' /\ ServicesOK' /\ IndexerOK' /\ txChan' \in Seq(Tx)
    BY <1>23
    DEF ProverError, DurableOK, durable, chainKeys, batchKeys, ServicesOK,
        services, IndexerOK, indexer, InBlock
  <2> QED  BY <2>1, <2>2, <2>3 DEF TypeOK
<1>24. CASE PutProof
  <2>1. DurableOK'
    BY <1>24, PutTyped, CurrentHashTyped
    DEF PutProof, DurableOK, durable, chainKeys, batchKeys, BuilderOK, Batch
  <2>2. BuilderOK'
    BY <1>24 DEF PutProof, BuilderOK, builder, Working
  <2>3. ServicesOK' /\ IndexerOK' /\ txChan' \in Seq(Tx) /\ EnvironOK'
    BY <1>24
    DEF PutProof, ServicesOK, services, IndexerOK, indexer, InBlock,
        EnvironOK, environ
  <2> QED  BY <2>1, <2>2, <2>3 DEF TypeOK
<1>25. CASE SubmitBatch
  <2>1. ServicesOK'
    BY <1>25, CurrentHashTyped, NoHashTyped
    DEF SubmitBatch, ServicesOK, services, SettlementOf, Batch, BuilderOK
  <2>2. BuilderOK'
    BY <1>25 DEF SubmitBatch, BuilderOK, builder, Working, Batch
  <2>3. DurableOK' /\ IndexerOK' /\ txChan' \in Seq(Tx) /\ EnvironOK'
    BY <1>25
    DEF SubmitBatch, DurableOK, durable, chainKeys, batchKeys, IndexerOK,
        indexer, InBlock, EnvironOK, environ
  <2> QED  BY <2>1, <2>2, <2>3 DEF TypeOK
<1>26. CASE LostAnswer
  <2>1. ServicesOK'
    BY <1>26, CurrentHashTyped, NoHashTyped
    DEF LostAnswer, ServicesOK, services, SettlementOf, MetadataOf, Batch,
        BuilderOK
  <2>2. EnvironOK'
    BY <1>26, PipelineAssumption DEF LostAnswer, EnvironOK, environ
  <2>3. DurableOK' /\ IndexerOK' /\ txChan' \in Seq(Tx) /\ BuilderOK'
    BY <1>26
    DEF LostAnswer, DurableOK, durable, chainKeys, batchKeys, IndexerOK,
        indexer, InBlock, BuilderOK, builder, Working
  <2> QED  BY <2>1, <2>2, <2>3 DEF TypeOK
<1>27. CASE NewBlock
  <2>1. EnvironOK'
    BY <1>27, PipelineAssumption DEF NewBlock, EnvironOK, environ
  <2>2. DurableOK' /\ ServicesOK' /\ IndexerOK' /\ txChan' \in Seq(Tx)
        /\ BuilderOK'
    BY <1>27
    DEF NewBlock, DurableOK, durable, chainKeys, batchKeys, ServicesOK,
        services, IndexerOK, indexer, InBlock, BuilderOK, builder, Working
  <2> QED  BY <2>1, <2>2 DEF TypeOK
<1>28. CASE Crash
  <2>1. IndexerOK'
    BY <1>28, PipelineAssumption DEF Crash, IndexerOK, indexer, InBlock
  <2>2. txChan' \in Seq(Tx)
    BY <1>28 DEF Crash
  <2>3. BuilderOK'
    BY <1>28, NoBatchTyped DEF Crash, BuilderOK, builder, Working
  <2>4. EnvironOK'
    BY <1>28, PipelineAssumption DEF Crash, EnvironOK, environ
  <2>5. DurableOK' /\ ServicesOK'
    BY <1>28
    DEF Crash, DurableOK, durable, chainKeys, batchKeys, ServicesOK, services
  <2> QED  BY <2>1, <2>2, <2>3, <2>4, <2>5 DEF TypeOK
<1>29. CASE UNCHANGED vars
  BY <1>29 DEF vars, durable, chainKeys, batchKeys, services, indexer,
    builder, environ, DurableOK, ServicesOK, IndexerOK, BuilderOK, EnvironOK
<1> QED
  BY <1>1, <1>2, <1>3, <1>4, <1>5, <1>6, <1>7, <1>8, <1>9, <1>10, <1>11,
     <1>12, <1>13, <1>14, <1>15, <1>16, <1>17, <1>18, <1>19, <1>20, <1>21,
     <1>22, <1>23, <1>24, <1>25, <1>26, <1>27, <1>28, <1>29
  DEF Next, Indexer, Builder

(***************************************************************************)
(* Type correctness for every chain, batch size, channel capacity and set  *)
(* of failures: no goroutine reads a key, a buffer or a block outside of   *)
(* what it has set up before.                                              *)
(***************************************************************************)
THEOREM TypeCorrect == Spec => []TypeOK
<1>1. Init => TypeOK
  BY PipelineAssumption, NoBatchTyped
  DEF Init, TypeOK, DurableOK, ServicesOK, IndexerOK, BuilderOK, EnvironOK,
      Partial, NoPartial, EmptyDB, Root, InBlock, Working
<1> QED  BY <1>1, TypeStep, PTL DEF Spec

\* The number of the first batch after a restart is positive.
LEMMA RestartBatchTyped ==
  ASSUME TypeOK
  PROVE  RestartBatch \in Nat \ {0}
  BY DEF TypeOK, DurableOK, Partial, RestartBatch

\* The indexer's steps and the services do not touch what ChainInv is about.
LEMMA ChainFrame ==
  ChainInv /\ UNCHANGED <<batchKeys, builder>> => ChainInv'
  BY DEF ChainInv, StoreInv, BuilderInv, BufferInv, Complete, RestartBatch,
         PrevHash, Get, CurrentHash, HashOf, batchKeys, builder

(***************************************************************************)
(* Every step keeps ChainInv.  The steps that matter are SavePartial, which*)
(* moves the restart number on and may do so only when the batch before is *)
(* complete; PutBatch and PutHash, which write at the restart number and   *)
(* so never under a batch another one is chained to; and FinishBatch, which*)
(* leaves a complete batch and an empty buffer behind.                     *)
(***************************************************************************)
LEMMA ChainStep ==
  TypeOK /\ ChainInv /\ [Next]_vars => ChainInv'
<1> SUFFICES ASSUME TypeOK, ChainInv, [Next]_vars PROVE ChainInv'
  OBVIOUS
<1> DEFINE R == RestartBatch
<1>r. R \in Nat /\ R > 0
  BY RestartBatchTyped
<1>t. batchNo \in Nat /\ txBuffer \in Seq(Tx) /\ BatchSize \in Nat
      /\ BatchSize > 1
  BY PipelineAssumption DEF TypeOK, BuilderOK
<1>1. CASE \/ LoadGenesis \/ PutGenesisRoot \/ SkipGenesis \/ FetchBlock
           \/ UpdateSender \/ UpdateRecipient \/ RejectTransaction \/ StoreTx
           \/ SendTx \/ CommitBlock \/ LostAnswer \/ NewBlock
  <2>1. UNCHANGED <<batchKeys, builder>>
    BY <1>1 DEF LoadGenesis, PutGenesisRoot, SkipGenesis, FetchBlock,
       UpdateSender, UpdateRecipient, RejectTransaction, StoreTx, SendTx,
       CommitBlock, LostAnswer, NewBlock, durable
  <2> QED  BY <2>1, ChainFrame
<1>2. CASE LoadProgress
  <2>1. UNCHANGED batchKeys /\ batchNo' = R /\ bpc' = "collect"
        /\ txBuffer' = dbPartial.txs
    BY <1>2 DEF LoadProgress, durable
  <2>2. StoreInv'
    BY <2>1
    DEF ChainInv, StoreInv, Complete, RestartBatch, CurrentHash, HashOf,
        batchKeys
  <2>3. BuilderInv'
    BY <2>1, <1>r DEF BuilderInv, RestartBatch, batchKeys, Working
  <2>4. BufferInv'
    BY <2>1 DEF ChainInv, BufferInv, batchKeys, Working
  <2> QED  BY <2>2, <2>3, <2>4 DEF ChainInv
<1>3. CASE TakeTx
  <2>1. /\ UNCHANGED batchKeys /\ UNCHANGED <<batchNo, batch>>
        /\ bpc = "collect" /\ Len(txBuffer') = Len(txBuffer) + 1
        /\ bpc' = IF Len(txBuffer') >= BatchSize THEN "create" ELSE "partial"
    BY <1>3, <1>t DEF TakeTx, durable
  <2>2. StoreInv'
    BY <2>1
    DEF ChainInv, StoreInv, Complete, RestartBatch, CurrentHash, HashOf,
        batchKeys
  <2>3. BufferInv'
    BY <2>1, <1>t DEF ChainInv, BufferInv, batchKeys, Working
  <2>4. batchNo = R + 1 => bpc' = "partial"
    BY <2>1, <1>t DEF ChainInv, BuilderInv
  <2>5. BuilderInv'
    BY <2>1, <2>4, <1>r
    DEF ChainInv, BuilderInv, RestartBatch, Complete, CurrentHash, HashOf,
        batchKeys, Working
  <2> QED  BY <2>2, <2>3, <2>5 DEF ChainInv
<1>4. CASE CollectTimeout
  <2>1. UNCHANGED <<batchKeys, batchNo, txBuffer, batch>> /\ bpc = "collect"
        /\ bpc' = IF txBuffer = <<>> THEN "collect" ELSE "partial"
    BY <1>4 DEF CollectTimeout, durable
  <2>2. StoreInv' /\ BufferInv'
    BY <2>1
    DEF ChainInv, StoreInv, BufferInv, Complete, RestartBatch, CurrentHash,
        HashOf, batchKeys, Working
  <2>3. BuilderInv'
    BY <2>1, <1>r
    DEF ChainInv, BuilderInv, RestartBatch, Complete, CurrentHash, HashOf,
        batchKeys, Working
  <2> QED  BY <2>2, <2>3 DEF ChainInv
<1>5. CASE SavePartial
  <2>1. /\ UNCHANGED <<dbBatch, dbHash, batchNo, txBuffer, batch>>
        /\ bpc = "partial" /\ bpc' = "collect"
        /\ dbPartial'.no = batchNo /\ dbPartial'.txs = txBuffer
    BY <1>5 DEF SavePartial
  <2>2. batchNo \in {R, R + 1} /\ (batchNo = R + 1 => Complete(R))
    BY <2>1 DEF ChainInv, BuilderInv
  <2>3. RestartBatch' = batchNo
    BY <2>1, <2>2, <1>r DEF RestartBatch
  <2>4. \A n : Complete(n)' <=> Complete(n)
    BY <2>1 DEF Complete, CurrentHash, HashOf
  <2>5. StoreInv'
    BY <2>1, <2>2, <2>3, <2>4, <1>r DEF ChainInv, StoreInv
  <2>6. BuilderInv'
    BY <2>1, <2>3, <1>t DEF BuilderInv, Working
  <2>7. BufferInv'
    BY <2>1 DEF ChainInv, BufferInv, Working
  <2> QED  BY <2>5, <2>6, <2>7 DEF ChainInv
<1>6. ASSUME UNCHANGED <<dbPartial, dbBatch, dbHash, batchNo, txBuffer>>,
             bpc \in {"create"} \cup Working, bpc' \in {"create"} \cup Working,
             bpc' \in Working =>
               batch'.no = batchNo /\ batch'.prev = PrevHash(batchNo),
             bpc' \in {"save3", "hash3"} => batch'.verified,
             bpc' # "hash3"
      PROVE  ChainInv'
  <2>1. batchNo = R
    BY <1>6 DEF ChainInv, BuilderInv, Working
  <2>2. StoreInv' /\ BufferInv'
    BY <1>6
    DEF ChainInv, StoreInv, BufferInv, Complete, RestartBatch, CurrentHash,
        HashOf, Working
  <2>3. BuilderInv'
    BY <1>6, <2>1, <1>r DEF BuilderInv, RestartBatch, PrevHash, Get, Working
  <2> QED  BY <2>2, <2>3 DEF ChainInv
<1>7. CASE CreateBatch
  BY <1>7, <1>6 DEF CreateBatch, durable, chainKeys, batchKeys, Working
<1>8. CASE SubmitToDA \/ BlobError \/ SubmitBatchMetadata \/ SubmitBatch
           \/ ProverGenerate \/ PutProof \/ ProverError
  <2>1. UNCHANGED <<dbPartial, dbBatch, dbHash, batchNo, txBuffer>>
    BY <1>8 DEF SubmitToDA, BlobError, SubmitBatchMetadata, SubmitBatch,
       ProverGenerate, PutProof, ProverError, durable, batchKeys, builder
  <2>2. bpc \in Working /\ bpc' \in {"create"} \cup Working /\ bpc' # "hash3"
    BY <1>8 DEF SubmitToDA, BlobError, SubmitBatchMetadata, SubmitBatch,
       ProverGenerate, PutProof, ProverError, Working
  <2>3. batch.no = batchNo /\ batch.prev = PrevHash(batchNo) /\ batch \in Batch
    BY <2>2 DEF ChainInv, BuilderInv, TypeOK, BuilderOK
  <2>4. bpc' \in Working => batch'.no = batchNo
        /\ batch'.prev = PrevHash(batchNo)
    BY <1>8, <2>3 DEF SubmitToDA, BlobError, SubmitBatchMetadata, SubmitBatch,
       ProverGenerate, PutProof, ProverError, Working, Batch
  <2>5. bpc' \in {"save3", "hash3"} => batch'.verified
    BY <1>8, <2>3 DEF SubmitToDA, BlobError, SubmitBatchMetadata, SubmitBatch,
       ProverGenerate, PutProof, ProverError, Batch
  <2> QED  BY <2>1, <2>2, <2>4, <2>5, <1>6
<1>9. CASE PutBatch
  <2>1. /\ bpc \in {"save1", "save2", "save3"}
        /\ bpc' \in {"hash1", "hash2", "hash3"}
        /\ bpc' = "hash3" => bpc = "save3"
        /\ UNCHANGED <<dbPartial, dbHash, batchNo, txBuffer, batch>>
        /\ dbBatch' = Put(dbBatch, batch.no, batch)
    BY <1>9 DEF PutBatch
  <2>2. batchNo = R /\ batch.no = R /\ batch.prev = PrevHash(R)
    BY <2>1 DEF ChainInv, BuilderInv, Working
  <2>3. DOMAIN dbBatch' = DOMAIN dbBatch \cup {R} /\ dbBatch'[R] = batch
        /\ \A n \in DOMAIN dbBatch : n # R => dbBatch'[n] = dbBatch[n]
    BY <2>1, <2>2 DEF Put
  <2>4. RestartBatch' = R
    BY <2>1 DEF RestartBatch
  <2>5. \A n \in 1..(R - 1) : Complete(n)'
    <3> SUFFICES ASSUME NEW n \in 1..(R - 1) PROVE Complete(n)'
      OBVIOUS
    <3>1. Complete(n) /\ n # R
      BY <1>r DEF ChainInv, StoreInv
    <3> QED  BY <3>1, <2>1, <2>3 DEF Complete, CurrentHash, HashOf
  <2>6. R > 1 => R - 1 \in DOMAIN dbHash /\ batch.prev = dbHash[R - 1]
    <3>1. R > 1 => Complete(R - 1)
      BY <1>r DEF ChainInv, StoreInv
    <3> QED  BY <3>1, <2>2, <1>r DEF Complete, PrevHash, Get
  <2>7. StoreInv'
    BY <2>1, <2>3, <2>4, <2>5, <2>6, <1>r DEF ChainInv, StoreInv
  <2>8. BuilderInv'
    BY <2>1, <2>2, <2>3, <2>4, <1>r
    DEF ChainInv, BuilderInv, PrevHash, Get, Working
  <2>9. BufferInv'
    BY <2>1 DEF ChainInv, BufferInv, Working
  <2> QED  BY <2>7, <2>8, <2>9 DEF ChainInv
<1>10. ASSUME bpc \in Working,
              dbHash' = Put(dbHash, batch.no, CurrentHash(batch)),
              UNCHANGED <<dbPartial, dbBatch>>
       PROVE  /\ StoreInv'
              /\ batchNo = R /\ batch.no = R /\ RestartBatch' = R
              /\ PrevHash(R)' = PrevHash(R)
              /\ R \in DOMAIN dbHash' /\ dbHash'[R] = CurrentHash(batch)
  <2>1. batchNo = R /\ batch.no = R
    BY <1>10 DEF ChainInv, BuilderInv, Working
  <2>2. DOMAIN dbHash' = DOMAIN dbHash \cup {R}
        /\ dbHash'[R] = CurrentHash(batch)
        /\ \A n \in DOMAIN dbHash : n # R => dbHash'[n] = dbHash[n]
    BY <1>10, <2>1 DEF Put
  <2>3. RestartBatch' = R
    BY <1>10 DEF RestartBatch
  <2>4. \A n \in 1..(R - 1) : Complete(n)'
    BY <1>10, <2>2, <1>r DEF ChainInv, StoreInv, Complete, CurrentHash, HashOf
  <2>5. StoreInv'
    BY <1>10, <2>2, <2>3, <2>4, <1>r DEF ChainInv, StoreInv
  <2>6. PrevHash(R)' = PrevHash(R)
    BY <2>2, <2>3, <1>r DEF PrevHash, Get
  <2> QED  BY <2>1, <2>2, <2>3, <2>5, <2>6
<1>11. CASE PutHash
  <2>1. /\ bpc \in {"hash1", "hash2"} /\ bpc' \in {"metadata", "prove"}
        /\ UNCHANGED <<dbPartial, dbBatch, batchNo, txBuffer, batch>>
        /\ dbHash' = Put(dbHash, batch.no, CurrentHash(batch))
    BY <1>11 DEF PutHash
  <2>2. /\ StoreInv' /\ batchNo = R /\ batch.no = R /\ RestartBatch' = R
        /\ PrevHash(R)' = PrevHash(R)
    BY <2>1, <1>10 DEF Working
  <2>3. BuilderInv'
    BY <2>1, <2>2, <1>r DEF ChainInv, BuilderInv, PrevHash, Working
  <2>4. BufferInv'
    BY <2>1 DEF ChainInv, BufferInv, Working
  <2> QED  BY <2>2, <2>3, <2>4 DEF ChainInv
<1>12. CASE FinishBatch
  <2>1. /\ bpc = "hash3" /\ UNCHANGED <<dbPartial, dbBatch>>
        /\ dbHash' = Put(dbHash, batch.no, CurrentHash(batch))
        /\ batchNo' = batchNo + 1
        /\ txBuffer' = SubSeq(txBuffer, BatchSize + 1, Len(txBuffer))
        /\ bpc' = IF txBuffer' = <<>> THEN "collect" ELSE "partial"
    BY <1>12 DEF FinishBatch
  <2>2. /\ StoreInv' /\ batchNo = R /\ RestartBatch' = R
        /\ R \in DOMAIN dbHash' /\ dbHash'[R] = CurrentHash(batch)
    BY <2>1, <1>10 DEF Working
  <2>3. Len(txBuffer) = BatchSize
    BY <2>1 DEF ChainInv, BufferInv, Working
  <2>4. txBuffer' = <<>> /\ bpc' = "collect"
    BY <2>1, <2>3, <1>t, SubSeqEmpty
  <2>5. R \in DOMAIN dbBatch /\ dbBatch[R] = batch /\ batch.verified
    BY <2>1, <2>2 DEF ChainInv, BuilderInv
  <2>6. Complete(R)'
    BY <2>1, <2>2, <2>5 DEF Complete, CurrentHash, HashOf
  <2>7. BuilderInv'
    BY <2>1, <2>2, <2>4, <2>6, <1>r DEF BuilderInv, Complete, Working
  <2>8. BufferInv'
    BY <2>1, <2>4, <1>t DEF ChainInv, BufferInv, Working
  <2> QED  BY <2>2, <2>7, <2>8 DEF ChainInv
<1>13. CASE Crash
  <2>1. UNCHANGED batchKeys /\ bpc' = "down"
    BY <1>13 DEF Crash, durable
  <2> QED
    BY <2>1 DEF ChainInv, StoreInv, BuilderInv, BufferInv, Complete,
       RestartBatch, CurrentHash, HashOf, batchKeys, Working
<1>14. CASE UNCHANGED vars
  BY <1>14, ChainFrame DEF vars, durable
<1> QED
  BY <1>1, <1>2, <1>3, <1>4, <1>5, <1>7, <1>8, <1>9, <1>11, <1>12, <1>13, <1>14
  DEF Next, Indexer, Builder

(***************************************************************************)
(* Whatever crashes and failures fall between its steps, the builder is at *)
(* most one batch ahead of the restart number, all batches before that     *)
(* number are verified and hashed, and the buffer is never over-full.      *)
(***************************************************************************)
THEOREM ChainCorrect == Spec => []ChainInv
<1>1. Init => ChainInv
  BY PipelineAssumption
  DEF Init, ChainInv, StoreInv, BuilderInv, BufferInv, RestartBatch,
      NoPartial, EmptyDB, Working
<1> QED  BY <1>1, TypeCorrect, ChainStep, PTL DEF Spec

(***************************************************************************)
(* The chain of batch hashes in batchDB is unbroken: each stored batch     *)
(* names the hash of a verified, stored predecessor.                       *)
(***************************************************************************)
THEOREM HashChainCorrect == Spec => []HashChain
<1>1. TypeOK /\ ChainInv => HashChain
  <2> SUFFICES ASSUME TypeOK, ChainInv, NEW n \in DOMAIN dbBatch, n > 1
               PROVE  /\ n - 1 \in DOMAIN dbBatch /\ n - 1 \in DOMAIN dbHash
                      /\ dbBatch[n].prev = dbHash[n - 1]
                      /\ dbHash[n - 1] = CurrentHash(dbBatch[n - 1])
                      /\ dbBatch[n - 1].verified
    BY DEF HashChain
  <2>1. n - 1 \in 1..(RestartBatch - 1)
    BY RestartBatchTyped DEF ChainInv, StoreInv
  <2> QED  BY <2>1 DEF ChainInv, StoreInv, Complete
<1> QED  BY <1>1, TypeCorrect, ChainCorrect, PTL

----------------------------------------------------------------------------
(***************************************************************************)
(* The batch store and the remote services: the progress flags of a stored *)
(* batch tell the truth, Junction sees batches in order, and a committed   *)
(* block is never applied again.                                           *)
(***************************************************************************)

(***************************************************************************)
(* What the builder knows of the batch in its hands at each place.  The    *)
(* conjunct on the stored copy is the point: after a crash the builder     *)
(* works again on a batch that may be stored as verified with a proof for  *)
(* its old content; the first SaveBatch takes that flag back before        *)
(* PutProof replaces the proof.                                            *)
(***************************************************************************)
Recorded == {"save2", "hash2", "prove", "proof", "settle", "save3", "hash3"}
Reported == {"save3", "hash3"}

HandInv ==
  /\ bpc \in Working => batch.da \in {batch.txs, NoDA}
  /\ bpc \in Working => (batch.submitted <=> bpc \in Recorded)
  /\ bpc \in Working => (batch.verified <=> bpc \in Reported)
  /\ bpc \in Recorded => MetadataOf(batch) \in metadata
  /\ bpc \in {"settle"} \cup Reported =>
       batchNo \in DOMAIN dbProof /\ dbProof[batchNo] = CurrentHash(batch)
  /\ bpc \in Reported => SettlementOf(batch) \in settled

CopyInv ==
  /\ bpc \in Working \ {"da", "save1", "hash3"} =>
       (batchNo \in DOMAIN dbBatch => ~dbBatch[batchNo].verified)
  /\ \A n \in DOMAIN dbBatch : dbBatch[n].no = n

BlobInv ==
  /\ bpc \in Working /\ batch.da # NoDA => batch.da \in daBlobs
  /\ \A m \in metadata : m.da # NoDA => m.da \in daBlobs

ServiceInv == HandInv /\ CopyInv /\ BlobInv
FlagInv == ServiceInv /\ DurableFlagsBacked /\ SettlementOrder

(***************************************************************************)
(* Where the indexer is in the chain, compared with what it has stored.    *)
(***************************************************************************)
PlaceInv ==
  /\ ipc \in {"fetch", "commit"} \cup InBlock =>
       dbLastBlock = 0 \/ lastBlock = dbLastBlock
  /\ ipc \in InBlock => pos > TxsUpTo[lastBlock - 1]

(***************************************************************************)
(* Every step keeps PlaceInv: only CommitBlock stores last_block, and it   *)
(* stores the number the indexer goes on with.                             *)
(***************************************************************************)
LEMMA PlaceStep ==
  TypeOK /\ PlaceInv /\ [Next]_vars => PlaceInv'
<1> SUFFICES ASSUME TypeOK, PlaceInv, [Next]_vars PROVE PlaceInv'
  OBVIOUS
<1> USE DEF PlaceInv, InBlock
<1>1. CASE LoadGenesis \/ PutGenesisRoot \/ SkipGenesis \/ Crash
  BY <1>1 DEF LoadGenesis, PutGenesisRoot, SkipGenesis, Crash
<1>2. CASE LoadProgress
  BY <1>2 DEF LoadProgress, RestartBlock, durable, chainKeys
<1>3. CASE FetchBlock
  <2>1. TxsUpTo[lastBlock - 1] \in Nat
    BY <1>3, PipelineAssumption DEF FetchBlock, TypeOK, IndexerOK, EnvironOK
  <2> QED  BY <1>3, <2>1 DEF FetchBlock, durable, chainKeys
<1>4. CASE UpdateSender \/ UpdateRecipient \/ RejectTransaction \/ StoreTx
  BY <1>4 DEF UpdateSender, UpdateRecipient, RejectTransaction, StoreTx,
     durable, chainKeys
<1>5. CASE SendTx
  <2>1. TxsUpTo[lastBlock - 1] \in Nat /\ pos \in Nat
    BY <1>5, PipelineAssumption DEF SendTx, TypeOK, IndexerOK
  <2> QED  BY <1>5, <2>1 DEF SendTx, durable, chainKeys
<1>6. CASE CommitBlock
  BY <1>6 DEF CommitBlock
<1>7. CASE Builder \/ NewBlock
  <2>1. UNCHANGED <<dbLastBlock, ipc, lastBlock, pos>>
    BY <1>7 DEF Builder, NewBlock, TakeTx, CollectTimeout, SavePartial,
       CreateBatch, SubmitToDA, BlobError, PutBatch, PutHash, FinishBatch,
       SubmitBatchMetadata, ProverGenerate, ProverError, PutProof,
       SubmitBatch, LostAnswer, indexer, durable, chainKeys
  <2> QED  BY <2>1
<1>8. CASE UNCHANGED vars
  BY <1>8 DEF vars, durable, chainKeys, indexer
<1> QED
  BY <1>1, <1>2, <1>3, <1>4, <1>5, <1>6, <1>7, <1>8 DEF Next, Indexer

(***************************************************************************)
(* The indexer never applies a transaction of a committed block again,     *)
(* wherever it was interrupted: the writes of a step are those of the      *)
(* block in work, which is the one after last_block.                       *)
(***************************************************************************)
THEOREM NeverReplayed == Spec => CommittedNeverReplayed
<1>1. Init => PlaceInv
  BY DEF Init, PlaceInv, InBlock
<1>2. TypeOK /\ PlaceInv /\ [Next]_vars =>
        [evm' # evm /\ evm'[Len(evm')].op # "genesis"
           => dbLastBlock = 0 \/ evm'[Len(evm')].tx > TxsUpTo[dbLastBlock - 1]
        ]_vars
  <2> SUFFICES ASSUME TypeOK, PlaceInv, [Next]_vars,
                      evm' # evm, evm'[Len(evm')].op # "genesis",
                      dbLastBlock # 0
               PROVE  evm'[Len(evm')].tx > TxsUpTo[dbLastBlock - 1]
    OBVIOUS
  <2>1. evm \in Seq(Write)
    BY DEF TypeOK, DurableOK, Root
  <2>2. ASSUME NEW w, evm' = Append(evm, w)  PROVE evm'[Len(evm')] = w
    BY <2>1, <2>2
  <2>3. CASE LoadGenesis
    BY <2>2, <2>3 DEF LoadGenesis
  <2>4. CASE UpdateSender \/ UpdateRecipient
    <3>1. lastBlock = dbLastBlock /\ pos > TxsUpTo[lastBlock - 1]
      BY <2>4 DEF UpdateSender, UpdateRecipient, PlaceInv, InBlock
    <3>2. evm'[Len(evm')].tx = pos
      BY <2>2, <2>4 DEF UpdateSender, UpdateRecipient
    <3> QED  BY <3>1, <3>2
  <2>5. CASE ~(LoadGenesis \/ UpdateSender \/ UpdateRecipient)
    <3>1. UNCHANGED evm
      BY <2>5 DEF Next, Indexer, PutGenesisRoot, SkipGenesis, LoadProgress,
         FetchBlock, RejectTransaction, StoreTx, SendTx, CommitBlock,
         Builder, TakeTx, CollectTimeout, SavePartial, CreateBatch,
         SubmitToDA, BlobError, PutBatch, PutHash, FinishBatch,
         SubmitBatchMetadata, ProverGenerate, ProverError, PutProof,
         SubmitBatch, LostAnswer, NewBlock, Crash, vars, durable, chainKeys
    <3> QED  BY <3>1
  <2> QED  BY <2>3, <2>4, <2>5
<1> QED
  BY <1>1, <1>2, PlaceStep, TypeCorrect, PTL DEF Spec, CommittedNeverReplayed

(***************************************************************************)
(* Steps that leave the stored batches, the proofs and the services alone  *)
(* and after which the builder holds no batch.                             *)
(***************************************************************************)
LEMMA FlagFrame ==
  ASSUME FlagInv, UNCHANGED <<dbBatch, dbProof, services>>,
         bpc' \notin Working \/ UNCHANGED builder
  PROVE  FlagInv'
BY DEF FlagInv, ServiceInv, HandInv, CopyInv, BlobInv, DurableFlagsBacked,
   SettlementOrder, services, builder, Working, Recorded, Reported,
   MetadataOf, SettlementOf, CurrentHash, HashOf

\* A settlement or a record of metadata more takes nothing away.
LEMMA FlagsMonotone ==
  ASSUME DurableFlagsBacked, UNCHANGED <<dbBatch, dbProof>>,
         metadata \subseteq metadata', settled \subseteq settled'
  PROVE  DurableFlagsBacked'
BY DEF DurableFlagsBacked, MetadataOf, SettlementOf, CurrentHash, HashOf

LEMMA OrderMonotone ==
  ASSUME SettlementOrder, UNCHANGED settled,
         metadata \subseteq metadata', daBlobs \subseteq daBlobs'
  PROVE  SettlementOrder'
BY DEF SettlementOrder

(***************************************************************************)
(* The settlement of the batch in hand keeps the order: its metadata is on *)
(* Junction, and its predecessor is complete, hence verified, hence        *)
(* settled.                                                                *)
(***************************************************************************)
LEMMA SettleInOrder ==
  ASSUME TypeOK, ChainInv, FlagInv, bpc = "settle",
         settled' = settled \cup {SettlementOf(batch)},
         UNCHANGED <<metadata, daBlobs>>
  PROVE  SettlementOrder'
<1>1. /\ MetadataOf(batch) \in metadata /\ batch.da \in {batch.txs, NoDA}
      /\ batch.da # NoDA => batch.da \in daBlobs
  BY DEF FlagInv, ServiceInv, HandInv, BlobInv, Working, Recorded
<1>2. batch.no = RestartBatch
  BY DEF ChainInv, BuilderInv, Working
<1>3. ASSUME RestartBatch > 1
      PROVE  \E t \in settled : t.no = RestartBatch - 1
  <2>1. Complete(RestartBatch - 1)
    BY <1>3, RestartBatchTyped DEF ChainInv, StoreInv
  <2>2. /\ SettlementOf(dbBatch[RestartBatch - 1]) \in settled
        /\ dbBatch[RestartBatch - 1].no = RestartBatch - 1
    BY <2>1 DEF Complete, FlagInv, DurableFlagsBacked, ServiceInv, CopyInv
  <2> QED  BY <2>2 DEF SettlementOf
<1>4. /\ SettlementOf(batch).no = batch.no
      /\ SettlementOf(batch).root.txs = batch.txs
      /\ MetadataOf(batch).no = batch.no /\ MetadataOf(batch).da = batch.da
  BY DEF SettlementOf, MetadataOf, CurrentHash, HashOf
<1> QED
  BY <1>1, <1>2, <1>3, <1>4 DEF FlagInv, SettlementOrder

(***************************************************************************)
(* Every step keeps FlagInv.                                               *)
(***************************************************************************)
LEMMA FlagStep ==
  TypeOK /\ ChainInv /\ FlagInv /\ [Next]_vars => FlagInv'
<1> SUFFICES ASSUME TypeOK, ChainInv, FlagInv, [Next]_vars PROVE FlagInv'
  OBVIOUS
<1>b. batch \in Batch /\ (bpc \in Working => batch.no = batchNo)
  BY DEF TypeOK, BuilderOK, ChainInv, BuilderInv
<1>1. CASE \/ LoadGenesis \/ PutGenesisRoot \/ SkipGenesis \/ LoadProgress
           \/ FetchBlock \/ UpdateSender \/ UpdateRecipient
           \/ RejectTransaction \/ StoreTx \/ SendTx \/ CommitBlock
           \/ NewBlock \/ Crash \/ UNCHANGED vars
  <2>1. UNCHANGED <<dbBatch, dbProof, services>>
    BY <1>1 DEF LoadGenesis, PutGenesisRoot, SkipGenesis, LoadProgress,
       FetchBlock, UpdateSender, UpdateRecipient, RejectTransaction, StoreTx,
       SendTx, CommitBlock, NewBlock, Crash, vars, durable, batchKeys
  <2>2. bpc' \notin Working \/ UNCHANGED builder
    BY <1>1 DEF LoadGenesis, PutGenesisRoot, SkipGenesis, LoadProgress,
       FetchBlock, UpdateSender, UpdateRecipient, RejectTransaction, StoreTx,
       SendTx, CommitBlock, NewBlock, Crash, vars, Working
  <2> QED  BY <2>1, <2>2, FlagFrame
<1>2. CASE TakeTx \/ CollectTimeout \/ SavePartial \/ FinishBatch
           \/ ProverError
  <2>1. UNCHANGED <<dbBatch, dbProof, services>> /\ bpc' \notin Working
    BY <1>2 DEF TakeTx, CollectTimeout, SavePartial, FinishBatch,
       ProverError, durable, batchKeys, Working
  <2> QED  BY <2>1, FlagFrame
<1>3. CASE CreateBatch
  <2>1. /\ UNCHANGED <<dbBatch, dbProof, services>> /\ bpc' = "da"
        /\ batch'.da = NoDA /\ ~batch'.submitted /\ ~batch'.verified
    BY <1>3 DEF CreateBatch, durable, batchKeys
  <2>2. ServiceInv'
    BY <2>1 DEF FlagInv, ServiceInv, HandInv, CopyInv, BlobInv, services,
       Working, Recorded, Reported
  <2>3. DurableFlagsBacked' /\ SettlementOrder'
    BY <2>1, FlagsMonotone, OrderMonotone DEF FlagInv, services
  <2> QED  BY <2>2, <2>3 DEF FlagInv
<1>4. CASE SubmitToDA \/ BlobError
  <2>1. /\ UNCHANGED <<dbBatch, dbProof, metadata, settled, batchNo>>
        /\ bpc = "da" /\ bpc' = "save1" /\ daBlobs \subseteq daBlobs'
        /\ batch'.submitted = batch.submitted
        /\ batch'.verified = batch.verified
        /\ batch'.txs = batch.txs
        /\ \/ batch'.da = batch.txs /\ batch.txs \in daBlobs'
           \/ batch'.da = batch.da
    BY <1>4, <1>b DEF SubmitToDA, BlobError, durable, batchKeys, services,
       Batch
  <2>2. HandInv' /\ CopyInv'
    BY <2>1 DEF FlagInv, ServiceInv, HandInv, CopyInv, Working, Recorded,
       Reported
  <2>3. BlobInv'
    BY <2>1 DEF FlagInv, ServiceInv, BlobInv, Working
  <2>4. DurableFlagsBacked' /\ SettlementOrder'
    BY <2>1, FlagsMonotone, OrderMonotone DEF FlagInv
  <2> QED  BY <2>2, <2>3, <2>4 DEF FlagInv, ServiceInv
<1>5. CASE PutBatch
  <2>1. /\ bpc \in {"save1", "save2", "save3"} /\ bpc \in Working
        /\ bpc' = CASE bpc = "save1" -> "hash1"
                    [] bpc = "save2" -> "hash2"
                    [] bpc = "save3" -> "hash3"
        /\ UNCHANGED <<dbProof, services, batchNo, batch>>
        /\ dbBatch' = Put(dbBatch, batch.no, batch)
    BY <1>5 DEF PutBatch, Working
  <2>2. batch.no = batchNo
    BY <2>1, <1>b
  <2>3. DOMAIN dbBatch' = DOMAIN dbBatch \cup {batchNo}
        /\ dbBatch'[batchNo] = batch
        /\ \A n \in DOMAIN dbBatch : n # batchNo => dbBatch'[n] = dbBatch[n]
    BY <2>1, <2>2 DEF Put
  <2>4. HandInv'
    BY <2>1 DEF FlagInv, ServiceInv, HandInv, services, Working, Recorded,
       Reported, MetadataOf, SettlementOf, CurrentHash, HashOf
  <2>5. CopyInv' /\ BlobInv'
    BY <2>1, <2>2, <2>3 DEF FlagInv, ServiceInv, HandInv, CopyInv, BlobInv,
       services, Working, Reported
  <2>6. /\ batch.submitted => MetadataOf(batch) \in metadata
        /\ batch.verified =>
             /\ batch.submitted /\ SettlementOf(batch) \in settled
             /\ batchNo \in DOMAIN dbProof
             /\ dbProof[batchNo] = CurrentHash(batch)
    BY <2>1 DEF FlagInv, ServiceInv, HandInv, Recorded, Reported
  <2>7. DurableFlagsBacked'
    BY <2>1, <2>3, <2>6 DEF FlagInv, DurableFlagsBacked, services,
       MetadataOf, SettlementOf, CurrentHash, HashOf
  <2>8. SettlementOrder'
    BY <2>1, OrderMonotone DEF FlagInv, services
  <2> QED  BY <2>4, <2>5, <2>7, <2>8 DEF FlagInv, ServiceInv
<1>6. CASE PutHash \/ ProverGenerate
  <2>1. /\ UNCHANGED <<dbBatch, dbProof, services, batchNo, batch>>
        /\ \/ bpc = "hash1" /\ bpc' = "metadata"
           \/ bpc = "hash2" /\ bpc' = "prove"
           \/ bpc = "prove" /\ bpc' = "proof"
    BY <1>6 DEF PutHash, ProverGenerate, durable, batchKeys
  <2>2. ServiceInv'
    BY <2>1 DEF FlagInv, ServiceInv, HandInv, CopyInv, BlobInv, services,
       Working, Recorded, Reported, MetadataOf
  <2>3. DurableFlagsBacked' /\ SettlementOrder'
    BY <2>1, FlagsMonotone, OrderMonotone DEF FlagInv, services
  <2> QED  BY <2>2, <2>3 DEF FlagInv
<1>7. CASE SubmitBatchMetadata
  <2>1. /\ bpc = "metadata" /\ bpc' = "save2"
        /\ UNCHANGED <<dbBatch, dbProof, daBlobs, settled, batchNo>>
        /\ metadata' = metadata \cup {MetadataOf(batch)}
        /\ MetadataOf(batch') = MetadataOf(batch)
        /\ batch'.submitted /\ batch'.verified = batch.verified
        /\ batch'.txs = batch.txs /\ batch'.da = batch.da
    BY <1>7, <1>b DEF SubmitBatchMetadata, durable, batchKeys, Batch,
       MetadataOf
  <2>2. HandInv'
    BY <2>1 DEF FlagInv, ServiceInv, HandInv, Working, Recorded, Reported,
       MetadataOf
  <2>3. CopyInv' /\ BlobInv'
    BY <2>1 DEF FlagInv, ServiceInv, CopyInv, BlobInv, Working, MetadataOf
  <2>4. DurableFlagsBacked' /\ SettlementOrder'
    BY <2>1, FlagsMonotone, OrderMonotone DEF FlagInv
  <2> QED  BY <2>2, <2>3, <2>4 DEF FlagInv, ServiceInv
<1>8. CASE PutProof
  <2>1. /\ bpc = "proof" /\ bpc \in Working /\ bpc' = "settle"
        /\ UNCHANGED <<dbBatch, services, batchNo, batch>>
        /\ dbProof' = Put(dbProof, batch.no, CurrentHash(batch))
    BY <1>8 DEF PutProof, Working
  <2>2. /\ dbProof'[batchNo] = CurrentHash(batch)
        /\ DOMAIN dbProof' = DOMAIN dbProof \cup {batchNo}
        /\ \A n \in DOMAIN dbProof : n # batchNo => dbProof'[n] = dbProof[n]
    BY <2>1, <1>b DEF Put
  <2>3. batchNo \in DOMAIN dbBatch => ~dbBatch[batchNo].verified
    BY <2>1 DEF FlagInv, ServiceInv, CopyInv
  <2>4. ServiceInv'
    BY <2>1, <2>2 DEF FlagInv, ServiceInv, HandInv, CopyInv, BlobInv,
       services, Working, Recorded, Reported, MetadataOf, CurrentHash, HashOf
  <2>5. DurableFlagsBacked'
    BY <2>1, <2>2, <2>3 DEF FlagInv, DurableFlagsBacked, services,
       MetadataOf, SettlementOf, CurrentHash, HashOf
  <2>6. SettlementOrder'
    BY <2>1, OrderMonotone DEF FlagInv, services
  <2> QED  BY <2>4, <2>5, <2>6 DEF FlagInv
<1>9. CASE SubmitBatch
  <2>1. /\ bpc = "settle" /\ bpc' = "save3"
        /\ UNCHANGED <<dbBatch, dbProof, daBlobs, metadata, batchNo>>
        /\ settled' = settled \cup {SettlementOf(batch)}
        /\ MetadataOf(batch') = MetadataOf(batch)
        /\ SettlementOf(batch') = SettlementOf(batch)
        /\ CurrentHash(batch') = CurrentHash(batch)
        /\ batch'.submitted = batch.submitted /\ batch'.verified
        /\ batch'.txs = batch.txs /\ batch'.da = batch.da
    BY <1>9, <1>b DEF SubmitBatch, durable, batchKeys, Batch, MetadataOf,
       SettlementOf, CurrentHash, HashOf
  <2>2. HandInv'
    BY <2>1 DEF FlagInv, ServiceInv, HandInv, Working, Recorded, Reported
  <2>3. CopyInv' /\ BlobInv'
    BY <2>1 DEF FlagInv, ServiceInv, CopyInv, BlobInv, Working
  <2>4. DurableFlagsBacked' /\ SettlementOrder'
    BY <2>1, FlagsMonotone, SettleInOrder DEF FlagInv
  <2> QED  BY <2>2, <2>3, <2>4 DEF FlagInv, ServiceInv
<1>10. CASE LostAnswer
  <2>1. /\ UNCHANGED <<dbBatch, dbProof, bpc, batchNo, batch>>
        /\ \/ /\ daBlobs \subseteq daBlobs'
              /\ UNCHANGED <<metadata, settled>>
           \/ /\ bpc = "metadata"
              /\ metadata' = metadata \cup {MetadataOf(batch)}
              /\ UNCHANGED <<daBlobs, settled>>
           \/ /\ bpc = "settle"
              /\ settled' = settled \cup {SettlementOf(batch)}
              /\ UNCHANGED <<daBlobs, metadata>>
    BY <1>10 DEF LostAnswer, durable, batchKeys, builder
  <2>2. /\ metadata \subseteq metadata' /\ settled \subseteq settled'
        /\ daBlobs \subseteq daBlobs'
    BY <2>1
  <2>3. HandInv'
    BY <2>1, <2>2 DEF FlagInv, ServiceInv, HandInv, Recorded, Reported,
       MetadataOf, SettlementOf, CurrentHash, HashOf
  <2>4. CopyInv'
    BY <2>1 DEF FlagInv, ServiceInv, CopyInv
  <2>5. BlobInv'
    BY <2>1, <2>2 DEF FlagInv, ServiceInv, BlobInv, Working, MetadataOf
  <2>6. DurableFlagsBacked' /\ SettlementOrder'
    BY <2>1, <2>2, FlagsMonotone, OrderMonotone, SettleInOrder DEF FlagInv
  <2> QED  BY <2>3, <2>4, <2>5, <2>6 DEF FlagInv, ServiceInv
<1> QED
  BY <1>1, <1>2, <1>3, <1>4, <1>5, <1>6, <1>7, <1>8, <1>9, <1>10
  DEF Next, Indexer, Builder

LEMMA FlagCorrect == Spec => []FlagInv
<1>1. Init => FlagInv
  BY DEF Init, FlagInv, ServiceInv, HandInv, CopyInv, BlobInv,
     DurableFlagsBacked, SettlementOrder, EmptyDB, Working, Recorded, Reported
<1> QED  BY <1>1, FlagStep, TypeCorrect, ChainCorrect, PTL DEF Spec

(***************************************************************************)
(* What the sequencer has stored about its dealings with the services is   *)
(* true, wherever it crashed and whatever answers were lost.               *)
(***************************************************************************)
THEOREM FlagsBackedCorrect == Spec => []DurableFlagsBacked
BY FlagCorrect, PTL DEF FlagInv

(***************************************************************************)
(* Junction sees the metadata of a batch before its settlement, and never  *)
(* a batch before the one with the number below.                           *)
(***************************************************************************)
THEOREM SettlementOrderCorrect == Spec => []SettlementOrder
BY FlagCorrect, PTL DEF FlagInv

=============================================================================
