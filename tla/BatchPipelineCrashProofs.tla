---------------------- MODULE BatchPipelineCrashProofs ----------------------
(***************************************************************************)
(* Proofs about what a crash does to the batching pipeline, for every      *)
(* value of the constants: how a batch that is settled again may differ,   *)
(* how many transactions of committed blocks are lost, and that the batch  *)
(* store remains a ledger that changes at its end only.                    *)
(***************************************************************************)
EXTENDS BatchPipelineProofs, PipelineLedger, FiniteSetTheorems

(***************************************************************************)
(* The builder is down until the indexer has started it, and everything    *)
(* between the two databases is empty by then.                             *)
(***************************************************************************)
DownInv ==
  /\ bpc = "down" <=> ipc \in {"start", "state0", "load"}
  /\ bpc = "down" => txChan = <<>> /\ txBuffer = <<>>
  /\ Len(txChan) <= ChanCap
  /\ dbLastBlock = 0 /\ bpc # "down" => lastBlock = 1

(***************************************************************************)
(* What partial_batch is to the buffer: its beginning, short of at most    *)
(* the transaction that came last; or, once the buffer belongs to the next *)
(* batch, the beginning of the finished one.                               *)
(***************************************************************************)
Begins(s, t) ==
  /\ Len(s) <= Len(t) /\ Len(t) <= Len(s) + 1
  /\ \A i \in 1..Len(s) : t[i] = s[i]

HeldInv ==
  /\ dbPartial.no = 0 => dbPartial.txs = <<>>
  /\ bpc = "partial" => txBuffer # <<>>
  /\ bpc # "down" /\ batchNo = RestartBatch =>
       /\ Begins(dbPartial.txs, txBuffer)
       /\ bpc = "collect" => txBuffer = dbPartial.txs
  /\ bpc # "down" /\ batchNo = RestartBatch + 1 =>
       /\ Len(txBuffer) <= 1
       /\ Begins(dbPartial.txs, dbBatch[RestartBatch].txs)
       /\ Len(dbBatch[RestartBatch].txs) = BatchSize
  /\ bpc \in Working => batch.txs = txBuffer

HoldInv == DownInv /\ HeldInv

(***************************************************************************)
(* What a settlement of the batch a restart comes back to has in common    *)
(* with partial_batch: all but its last transaction.                       *)
(***************************************************************************)
SettledInv ==
  /\ \A s \in settled :
       s.no \in 1..RestartBatch /\ Len(s.root.txs) = BatchSize
  /\ \A s \in settled :
       s.no = RestartBatch =>
         /\ Len(dbPartial.txs) = BatchSize - 1
         /\ Begins(dbPartial.txs, s.root.txs)
  /\ SettledAgree

----------------------------------------------------------------------------
LEMMA DownStep ==
  TypeOK /\ DownInv /\ [Next]_vars => DownInv'
<1> SUFFICES ASSUME TypeOK, DownInv, [Next]_vars PROVE DownInv'
  OBVIOUS
<1> USE DEF DownInv
<1>t. /\ txChan \in Seq(Tx) /\ ChanCap \in Nat /\ ChanCap > 0
      /\ lastBlock \in Nat
      /\ bpc = "down" <=> ipc \in {"start", "state0", "load"}
  BY PipelineAssumption DEF TypeOK, IndexerOK
<1>1. CASE LoadGenesis \/ PutGenesisRoot \/ SkipGenesis
  BY <1>1 DEF LoadGenesis, PutGenesisRoot, SkipGenesis, builder, durable,
     chainKeys
<1>2. CASE LoadProgress
  BY <1>2, <1>t DEF LoadProgress, RestartBlock, durable, chainKeys
<1>3. CASE FetchBlock \/ UpdateSender \/ UpdateRecipient
           \/ RejectTransaction \/ StoreTx
  BY <1>3 DEF FetchBlock, UpdateSender, UpdateRecipient, RejectTransaction,
     StoreTx, builder, durable, chainKeys
<1>4. CASE SendTx
  BY <1>4, <1>t DEF SendTx, builder, durable, chainKeys
<1>5. CASE CommitBlock
  BY <1>5, <1>t DEF CommitBlock, builder
<1>6. CASE TakeTx
  BY <1>6, <1>t DEF TakeTx, indexer, durable, chainKeys
<1>7. CASE Builder /\ ~TakeTx
  <2>1. bpc # "down" /\ bpc' # "down"
    BY <1>7 DEF Builder, CollectTimeout, SavePartial, CreateBatch,
       SubmitToDA, BlobError, PutBatch, PutHash, FinishBatch,
       SubmitBatchMetadata, ProverGenerate, ProverError, PutProof,
       SubmitBatch, LostAnswer, builder
  <2>2. UNCHANGED <<dbLastBlock, ipc, lastBlock, txChan>>
    BY <1>7 DEF Builder, CollectTimeout, SavePartial, CreateBatch,
       SubmitToDA, BlobError, PutBatch, PutHash, FinishBatch,
       SubmitBatchMetadata, ProverGenerate, ProverError, PutProof,
       SubmitBatch, LostAnswer, indexer, durable, chainKeys
  <2> QED  BY <2>1, <2>2
<1>8. CASE NewBlock \/ UNCHANGED vars
  BY <1>8 DEF NewBlock, vars, indexer, builder, durable, chainKeys
<1>9. CASE Crash
  BY <1>9, <1>t DEF Crash
<1> QED
  BY <1>1, <1>2, <1>3, <1>4, <1>5, <1>6, <1>7, <1>8, <1>9 DEF Next, Indexer

(***************************************************************************)
(* The steps that HeldInv does not depend on.                              *)
(***************************************************************************)
LEMMA HeldFrame ==
  ASSUME HeldInv, UNCHANGED <<dbPartial, dbBatch, bpc, batchNo, txBuffer, batch>>
  PROVE  HeldInv'
BY DEF HeldInv, Begins, RestartBatch, Working

\* A sequence begins with itself, and with all of it but the last element.
LEMMA BeginsItself ==
  ASSUME NEW s \in Seq(Tx)
  PROVE  Begins(s, s) /\ \A e \in Tx : Begins(s, Append(s, e))
BY DEF Begins

(***************************************************************************)
(* Every step keeps HeldInv: a transaction is saved before the next one is *)
(* taken, unless it fills the batch or is the first of the next.           *)
(***************************************************************************)
LEMMA HeldStep ==
  TypeOK /\ ChainInv /\ HeldInv /\ [Next]_vars => HeldInv'
<1> SUFFICES ASSUME TypeOK, ChainInv, HeldInv, [Next]_vars PROVE HeldInv'
  OBVIOUS
<1> DEFINE R == RestartBatch
<1>r. R \in Nat /\ R > 0
  BY RestartBatchTyped
<1>t. /\ batchNo \in Nat /\ txBuffer \in Seq(Tx) /\ BatchSize \in Nat
      /\ BatchSize > 1 /\ dbPartial.txs \in Seq(Tx) /\ batch \in Batch
      /\ txChan \in Seq(Tx)
  BY PipelineAssumption DEF TypeOK, BuilderOK, DurableOK, Partial
<1>1. CASE \/ LoadGenesis \/ PutGenesisRoot \/ SkipGenesis \/ FetchBlock
           \/ UpdateSender \/ UpdateRecipient \/ RejectTransaction \/ StoreTx
           \/ SendTx \/ CommitBlock \/ LostAnswer \/ NewBlock
           \/ UNCHANGED vars
  <2>1. UNCHANGED <<dbPartial, dbBatch, bpc, batchNo, txBuffer, batch>>
    BY <1>1 DEF LoadGenesis, PutGenesisRoot, SkipGenesis, FetchBlock,
       UpdateSender, UpdateRecipient, RejectTransaction, StoreTx, SendTx,
       CommitBlock, LostAnswer, NewBlock, vars, durable, batchKeys, builder
  <2> QED  BY <2>1, HeldFrame
<1>2. CASE LoadProgress
  <2>1. /\ UNCHANGED dbPartial /\ batchNo' = R /\ bpc' = "collect"
        /\ txBuffer' = dbPartial.txs
    BY <1>2 DEF LoadProgress, durable, batchKeys
  <2>2. RestartBatch' = R
    BY <2>1 DEF RestartBatch
  <2> QED
    BY <2>1, <2>2, <1>r, <1>t, BeginsItself DEF HeldInv, Working, Begins
<1>3. CASE TakeTx
  <2>1. /\ UNCHANGED <<dbPartial, dbBatch, batchNo>> /\ bpc = "collect"
        /\ Head(txChan) \in Tx
        /\ txBuffer' = Append(txBuffer, Head(txChan))
        /\ bpc' \in {"create", "partial"}
    BY <1>3, <1>t DEF TakeTx, durable, batchKeys
  <2>2. RestartBatch' = R
    BY <2>1 DEF RestartBatch
  <2>3. txBuffer' # <<>> /\ Len(txBuffer') = Len(txBuffer) + 1
    BY <2>1, <1>t
  <2>4. batchNo = R => Begins(dbPartial.txs, txBuffer')
    BY <2>1, <1>t, BeginsItself DEF HeldInv
  <2>5. batchNo = R + 1 => Len(txBuffer') <= 1
    BY <2>1, <2>3 DEF ChainInv, BuilderInv
  <2> QED
    BY <2>1, <2>2, <2>3, <2>4, <2>5 DEF HeldInv, Begins, Working
<1>4. CASE CollectTimeout
  <2>1. /\ UNCHANGED <<dbPartial, dbBatch, batchNo, txBuffer, batch>>
        /\ bpc = "collect"
        /\ bpc' = IF txBuffer = <<>> THEN "collect" ELSE "partial"
    BY <1>4 DEF CollectTimeout, durable, batchKeys
  <2> QED  BY <2>1 DEF HeldInv, Begins, RestartBatch, Working
<1>5. CASE SavePartial
  <2>1. /\ bpc = "partial" /\ bpc' = "collect" /\ UNCHANGED <<batchNo, txBuffer>>
        /\ dbPartial'.no = batchNo /\ dbPartial'.txs = txBuffer
    BY <1>5 DEF SavePartial
  <2>2. batchNo \in {R, R + 1}
    BY <2>1 DEF ChainInv, BuilderInv
  <2>3. RestartBatch' = batchNo /\ batchNo > 0
    BY <2>1, <2>2, <1>r DEF RestartBatch
  <2> QED
    BY <2>1, <2>3, <1>t, BeginsItself DEF HeldInv, Working
<1>6. CASE CreateBatch
  <2>1. /\ UNCHANGED <<dbPartial, dbBatch, batchNo, txBuffer>>
        /\ bpc = "create" /\ bpc' = "da"
        /\ batch'.txs = SubSeq(txBuffer, 1, BatchSize)
    BY <1>6 DEF CreateBatch, durable, batchKeys
  <2>2. Len(txBuffer) = BatchSize
    BY <2>1 DEF ChainInv, BufferInv
  <2>3. batch'.txs = txBuffer
    BY <2>1, <2>2, <1>t, SubSeqFull
  <2> QED  BY <2>1, <2>3 DEF HeldInv, Begins, RestartBatch
<1>7. CASE SubmitToDA \/ BlobError \/ SubmitBatchMetadata \/ SubmitBatch
           \/ ProverGenerate \/ PutProof \/ PutHash \/ ProverError
  <2>1. /\ UNCHANGED <<dbPartial, dbBatch, batchNo, txBuffer>>
        /\ bpc \in Working /\ bpc' \in {"create"} \cup Working
    BY <1>7 DEF SubmitToDA, BlobError, SubmitBatchMetadata, SubmitBatch,
       ProverGenerate, PutProof, PutHash, ProverError, durable, batchKeys,
       builder, Working
  <2>2. bpc' \in Working => batch'.txs = batch.txs
    BY <1>7, <1>t DEF SubmitToDA, BlobError, SubmitBatchMetadata, SubmitBatch,
       ProverGenerate, PutProof, PutHash, ProverError, Batch, Working
  <2> QED  BY <2>1, <2>2 DEF HeldInv, Begins, RestartBatch, Working
<1>8. CASE PutBatch
  <2>1. /\ UNCHANGED <<dbPartial, batchNo, txBuffer, batch>>
        /\ bpc \in Working /\ bpc' \in Working
    BY <1>8 DEF PutBatch, Working
  <2>2. batchNo = R /\ RestartBatch' = R
    BY <2>1 DEF ChainInv, BuilderInv, Working, RestartBatch
  <2> QED  BY <2>1, <2>2, <1>r DEF HeldInv, Begins, Working
<1>9. CASE FinishBatch
  <2>1. /\ UNCHANGED <<dbPartial, dbBatch>> /\ bpc = "hash3"
        /\ batchNo' = batchNo + 1
        /\ txBuffer' = SubSeq(txBuffer, BatchSize + 1, Len(txBuffer))
        /\ bpc' = IF txBuffer' = <<>> THEN "collect" ELSE "partial"
    BY <1>9 DEF FinishBatch
  <2>2. /\ Len(txBuffer) = BatchSize /\ batchNo = R /\ batch.txs = txBuffer
        /\ dbBatch[R] = batch /\ Begins(dbPartial.txs, txBuffer)
    BY <2>1 DEF ChainInv, BufferInv, BuilderInv, HeldInv, Working
  <2>3. txBuffer' = <<>> /\ bpc' = "collect"
    BY <2>1, <2>2, <1>t, SubSeqEmpty
  <2>4. RestartBatch' = R
    BY <2>1 DEF RestartBatch
  <2>5. Begins(dbPartial.txs, dbBatch[R].txs) /\ Len(dbBatch[R].txs) = BatchSize
    BY <2>2
  <2> QED  BY <2>1, <2>2, <2>3, <2>4, <2>5, <1>r DEF HeldInv, Begins, Working
<1>10. CASE Crash
  BY <1>10 DEF Crash, HeldInv, durable, batchKeys, Working
<1> QED
  BY <1>1, <1>2, <1>3, <1>4, <1>5, <1>6, <1>7, <1>8, <1>9, <1>10
  DEF Next, Indexer, Builder

LEMMA HoldCorrect == Spec => []HoldInv
<1>1. Init => HoldInv
  BY PipelineAssumption
  DEF Init, HoldInv, DownInv, HeldInv, NoPartial, Working
<1>2. TypeOK /\ ChainInv /\ HoldInv /\ [Next]_vars => HoldInv'
  BY DownStep, HeldStep DEF HoldInv
<1> QED  BY <1>1, <1>2, TypeCorrect, ChainCorrect, PTL DEF Spec

----------------------------------------------------------------------------
(***************************************************************************)
(* What is settled now agrees with what was settled under the same number: *)
(* both begin with partial_batch, which has all but the last transaction.  *)
(***************************************************************************)
LEMMA SettleAgain ==
  ASSUME TypeOK, ChainInv, HoldInv, SettledInv, bpc = "settle",
         UNCHANGED dbPartial, settled' = settled \cup {SettlementOf(batch)}
  PROVE  SettledInv'
<1> DEFINE R == RestartBatch
           u == SettlementOf(batch)
<1>t. /\ R \in Nat /\ R > 0 /\ R = RestartBatch' /\ BatchSize \in Nat
      /\ BatchSize > 1 /\ txBuffer \in Seq(Tx) /\ dbPartial.txs \in Seq(Tx)
  BY RestartBatchTyped, PipelineAssumption
  DEF TypeOK, DurableOK, Partial, BuilderOK, RestartBatch
<1>1. batchNo = R /\ batch.no = R /\ Len(txBuffer) = BatchSize
  BY DEF ChainInv, BuilderInv, BufferInv, Working
<1>2. u.no = R /\ u.root.txs = txBuffer /\ Begins(dbPartial.txs, txBuffer)
  BY <1>1 DEF HoldInv, HeldInv, SettlementOf, CurrentHash, HashOf, Working
<1>3. Len(dbPartial.txs) = BatchSize - 1
  <2>1. Len(dbPartial.txs) < BatchSize /\ Len(txBuffer) <= Len(dbPartial.txs) + 1
    BY <1>2 DEF ChainInv, BufferInv, Begins
  <2> QED  BY <2>1, <1>1, <1>t
<1>4. ASSUME NEW s \in settled, s.no = R
      PROVE  \A i \in 1..(BatchSize - 1) : s.root.txs[i] = u.root.txs[i]
  BY <1>2, <1>3, <1>4 DEF SettledInv, Begins
<1>5. SettledAgree'
  BY <1>2, <1>4 DEF SettledAgree, SettledInv
<1>6. \A s \in settled' : s.no \in 1..R /\ Len(s.root.txs) = BatchSize
  BY <1>1, <1>2, <1>t DEF SettledInv
<1>7. \A s \in settled' : s.no = R => Begins(dbPartial.txs, s.root.txs)
  BY <1>2 DEF SettledInv
<1>8. UNCHANGED dbPartial
  OBVIOUS
<1> QED  BY <1>3, <1>5, <1>6, <1>7, <1>8, <1>t DEF SettledInv, Begins

(***************************************************************************)
(* Every step keeps SettledInv.  Once the number in partial_batch is one   *)
(* that is settled, SavePartial can only write what is there already,      *)
(* because nothing but the last transaction is missing; and when the       *)
(* number moves on, nothing is settled under the new one.                  *)
(***************************************************************************)
LEMMA SettledStep ==
  TypeOK /\ ChainInv /\ HoldInv /\ SettledInv /\ [Next]_vars => SettledInv'
<1> SUFFICES ASSUME TypeOK, ChainInv, HoldInv, SettledInv, [Next]_vars
             PROVE  SettledInv'
  OBVIOUS
<1> DEFINE R == RestartBatch
<1>t. /\ R \in Nat /\ R > 0 /\ batchNo \in Nat /\ BatchSize \in Nat
      /\ txBuffer \in Seq(Tx) /\ dbPartial.txs \in Seq(Tx)
  BY RestartBatchTyped, PipelineAssumption
  DEF TypeOK, DurableOK, Partial, BuilderOK
<1>1. CASE SavePartial
  <2>1. /\ bpc = "partial" /\ UNCHANGED settled
        /\ dbPartial'.no = batchNo /\ dbPartial'.txs = txBuffer
    BY <1>1 DEF SavePartial, services
  <2>2. batchNo \in {R, R + 1} /\ Len(txBuffer) < BatchSize
    BY <2>1 DEF ChainInv, BuilderInv, BufferInv
  <2>3. RestartBatch' = batchNo
    BY <2>1, <2>2, <1>t DEF RestartBatch
  <2>4. CASE batchNo = R + 1
    <3>1. \A s \in settled : s.no \in 1..R /\ Len(s.root.txs) = BatchSize
      BY DEF SettledInv
    <3>2. \A s \in settled : s.no \in 1..(R + 1) /\ s.no # R + 1
      BY <3>1, <1>t
    <3> QED
      BY <2>1, <2>3, <2>4, <3>1, <3>2 DEF SettledInv, SettledAgree
  <2>5. CASE batchNo = R
    <3>1. Begins(dbPartial.txs, txBuffer)
      BY <2>1, <2>5 DEF HoldInv, HeldInv
    <3>2. ASSUME NEW s \in settled, s.no = R
          PROVE  Len(txBuffer) = BatchSize - 1 /\ Begins(txBuffer, s.root.txs)
      <4>1. Len(dbPartial.txs) = BatchSize - 1 /\ Begins(dbPartial.txs, s.root.txs)
        BY <3>2 DEF SettledInv
      <4>2. Len(txBuffer) = Len(dbPartial.txs)
        BY <4>1, <3>1, <2>2, <1>t DEF Begins
      <4> QED  BY <4>1, <4>2, <3>1 DEF Begins
    <3> QED
      BY <2>1, <2>3, <2>5, <3>2 DEF SettledInv, SettledAgree
  <2> QED  BY <2>2, <2>4, <2>5
<1>2. CASE SubmitBatch
  BY <1>2, SettleAgain DEF SubmitBatch, durable, batchKeys
<1>3. CASE LostAnswer
  <2>1. /\ UNCHANGED dbPartial
        /\ \/ UNCHANGED settled
           \/ /\ bpc = "settle"
              /\ settled' = settled \cup {SettlementOf(batch)}
    BY <1>3 DEF LostAnswer, durable, batchKeys
  <2>2. CASE UNCHANGED settled
    BY <2>1, <2>2 DEF SettledInv, SettledAgree, RestartBatch, Begins
  <2> QED  BY <2>1, <2>2, SettleAgain
<1>4. CASE ~(SavePartial \/ SubmitBatch \/ LostAnswer)
  <2>1. UNCHANGED <<dbPartial, settled>>
    BY <1>4 DEF Next, Indexer, Builder, LoadGenesis, PutGenesisRoot,
       SkipGenesis, LoadProgress, FetchBlock, UpdateSender, UpdateRecipient,
       RejectTransaction, StoreTx, SendTx, CommitBlock, TakeTx,
       CollectTimeout, CreateBatch, SubmitToDA, BlobError, PutBatch, PutHash,
       FinishBatch, SubmitBatchMetadata, ProverGenerate, ProverError,
       PutProof, NewBlock, Crash, vars, durable, batchKeys, services
  <2> QED  BY <2>1 DEF SettledInv, SettledAgree, RestartBatch, Begins
<1> QED  BY <1>1, <1>2, <1>3, <1>4

(***************************************************************************)
(* Two settlements of one batch number, before and after any crashes, have *)
(* all transactions in common but the last.                                *)
(***************************************************************************)
THEOREM SettledAgreeCorrect == Spec => []SettledAgree
<1>1. Init => SettledInv
  BY DEF Init, SettledInv, SettledAgree
<1>2. SettledInv => SettledAgree
  BY DEF SettledInv
<1> QED
  BY <1>1, <1>2, SettledStep, TypeCorrect, ChainCorrect, HoldCorrect, PTL
  DEF Spec

----------------------------------------------------------------------------

(***************************************************************************)
(* What is not lost: the transactions on their way, and those of the       *)
(* batches before the one in work, which nothing writes any more.          *)
(***************************************************************************)
InWork == IF bpc = "down" THEN RestartBatch ELSE batchNo
Final  == UNION {SetOf(dbBatch[n].txs) : n \in 1..(InWork - 1)}
Safe   == OnTheWay \cup Final

(***************************************************************************)
(* The transactions of the block in work are safe as soon as they are      *)
(* sent, and each crash costs the channel and two more.                    *)
(***************************************************************************)
LossInv ==
  /\ ipc \in InBlock => (TxsUpTo[lastBlock - 1] + 1)..(pos - 1) \subseteq Safe
  /\ ipc = "commit" =>
       (TxsUpTo[lastBlock - 1] + 1)..TxsUpTo[lastBlock] \subseteq Safe
  /\ Cardinality(Committed \ Safe) <= crashes * (ChanCap + 2)

\* The elements of a sequence that has grown, or lost its head.
LEMMA SetOfGrown ==
  ASSUME NEW s \in Seq(Tx), NEW e \in Tx
  PROVE  SetOf(Append(s, e)) = SetOf(s) \cup {e}
<1> DEFINE t == Append(s, e)
<1>1. /\ Len(s) \in Nat /\ DOMAIN s = 1..Len(s)
      /\ DOMAIN t = 1..(Len(s) + 1) /\ t[Len(s) + 1] = e
      /\ \A i \in 1..Len(s) : t[i] = s[i]
  BY AppendProperties, LenProperties
<1>2. \A i \in 1..(Len(s) + 1) : i = Len(s) + 1 \/ i \in 1..Len(s)
  BY <1>1
<1>3. \A i \in 1..Len(s) : i \in 1..(Len(s) + 1)
  BY <1>1
<1>4. Len(s) + 1 \in 1..(Len(s) + 1)
  BY <1>1
<1> HIDE DEF t
<1> QED  BY <1>1, <1>2, <1>3, <1>4 DEF SetOf

LEMMA SetOfTail ==
  ASSUME NEW s \in Seq(Tx), s # <<>>
  PROVE  SetOf(s) = SetOf(Tail(s)) \cup {Head(s)}
<1>1. /\ Len(s) \in Nat /\ Len(s) > 0 /\ Head(s) = s[1]
      /\ DOMAIN s = 1..Len(s) /\ DOMAIN Tail(s) = 1..(Len(s) - 1)
      /\ \A i \in 1..(Len(s) - 1) : Tail(s)[i] = s[i + 1]
  BY HeadTailProperties, EmptySeq, LenProperties
<1>2. ASSUME NEW i \in 1..Len(s)
      PROVE  s[i] \in SetOf(Tail(s)) \cup {Head(s)}
  <2>1. CASE i = 1
    BY <2>1, <1>1
  <2>2. CASE i # 1
    <3>1. i - 1 \in 1..(Len(s) - 1) /\ Tail(s)[i - 1] = s[i]
      BY <2>2, <1>1
    <3> QED  BY <3>1, <1>1 DEF SetOf
  <2> QED  BY <2>1, <2>2
<1>3. \A i \in 1..(Len(s) - 1) : Tail(s)[i] \in SetOf(s)
  BY <1>1 DEF SetOf
<1> QED  BY <1>1, <1>2, <1>3 DEF SetOf

\* It has no more elements than it is long.
LEMMA SetOfSize ==
  ASSUME NEW s \in Seq(Tx)
  PROVE  IsFiniteSet(SetOf(s)) /\ Cardinality(SetOf(s)) <= Len(s)
<1>1. Len(s) \in Nat /\ DOMAIN s = 1..Len(s)
  BY LenProperties
<1>2. s \in Surjection(1..Len(s), SetOf(s))
  BY <1>1 DEF Surjection, SetOf
<1> QED
  BY <1>1, <1>2, FS_SurjCardinalityBound, FS_NatSurjection
  DEF ExistsSurjection

\* What begins with a sequence holds its elements, and one more at most.
LEMMA BeginsElements ==
  ASSUME NEW s \in Seq(Tx), NEW t \in Seq(Tx), Begins(s, t)
  PROVE  SetOf(s) \subseteq SetOf(t) /\ SetOf(t) \subseteq SetOf(s) \cup {t[Len(t)]}
<1>1. Len(s) \in Nat /\ Len(t) \in Nat /\ DOMAIN s = 1..Len(s)
      /\ DOMAIN t = 1..Len(t)
  BY LenProperties
<1>2. ASSUME NEW i \in 1..Len(s)
      PROVE  s[i] \in SetOf(t)
  <2>1. i \in DOMAIN t /\ t[i] = s[i]
    BY <1>1 DEF Begins
  <2> QED  BY <2>1 DEF SetOf
<1>3. ASSUME NEW i \in 1..Len(t), i # Len(t)
      PROVE  t[i] \in SetOf(s)
  <2>1. Len(t) <= Len(s) + 1 /\ Len(s) \in Nat /\ Len(t) \in Nat
    BY <1>1 DEF Begins
  <2>2. i \in 1..Len(s)
    BY <1>3, <2>1
  <2>3. t[i] = s[i]
    BY <2>2 DEF Begins
  <2> QED  BY <1>1, <2>2, <2>3 DEF SetOf
<1> QED  BY <1>1, <1>2, <1>3 DEF SetOf

\* One element more is one more at most.
LEMMA OneMore ==
  ASSUME NEW S, NEW x, IsFiniteSet(S)
  PROVE  /\ IsFiniteSet(S \cup {x}) /\ Cardinality(S \cup {x}) \in Nat
         /\ Cardinality(S \cup {x}) <= Cardinality(S) + 1
<1>1. /\ IsFiniteSet(S \cup {x})
      /\ Cardinality(S \cup {x}) =
           IF x \in S THEN Cardinality(S) ELSE Cardinality(S) + 1
  BY FS_AddElement
<1>2. Cardinality(S) \in Nat /\ Cardinality(S \cup {x}) \in Nat
  BY <1>1, FS_CardinalityType
<1> QED  BY <1>1, <1>2

\* Taking away one transaction at a time, a crash loses so many.
LEMMA LostByCrash ==
  ASSUME NEW A, NEW B, NEW s \in Seq(Tx), NEW a, NEW b, IsFiniteSet(A),
         B \subseteq A \cup SetOf(s) \cup {a, b}
  PROVE  Cardinality(B) <= Cardinality(A) + Len(s) + 2
<1> DEFINE C == A \cup SetOf(s)
<1>1. /\ IsFiniteSet(SetOf(s)) /\ Cardinality(SetOf(s)) <= Len(s)
      /\ Len(s) \in Nat /\ Cardinality(SetOf(s)) \in Nat
      /\ Cardinality(A) \in Nat
  BY SetOfSize, FS_CardinalityType
<1>2. IsFiniteSet(C) /\ Cardinality(C) <= Cardinality(A) + Len(s)
      /\ Cardinality(C) \in Nat
  <2>1. IsFiniteSet(C) /\ Cardinality(C) = Cardinality(A)
          + Cardinality(SetOf(s)) - Cardinality(A \cap SetOf(s))
    BY <1>1, FS_Union
  <2>2. Cardinality(A \cap SetOf(s)) \in Nat
    BY FS_Subset, FS_CardinalityType
  <2>3. Cardinality(C) <= Cardinality(A) + Cardinality(SetOf(s))
    BY <1>1, <2>1, <2>2
  <2>4. Cardinality(C) \in Nat
    BY <2>1, FS_CardinalityType
  <2> HIDE DEF C
  <2> QED  BY <1>1, <2>1, <2>3, <2>4
<1>3. IsFiniteSet(C \cup {a}) /\ Cardinality(C \cup {a}) <= Cardinality(C) + 1
      /\ Cardinality(C \cup {a}) \in Nat
  BY <1>2, OneMore
<1>4. IsFiniteSet((C \cup {a}) \cup {b})
      /\ Cardinality((C \cup {a}) \cup {b}) <= Cardinality(C \cup {a}) + 1
      /\ Cardinality((C \cup {a}) \cup {b}) \in Nat
  BY <1>3, OneMore
<1>5. Cardinality(B) <= Cardinality((C \cup {a}) \cup {b})
      /\ Cardinality(B) \in Nat
  BY <1>4, FS_Subset, FS_CardinalityType
<1> QED  BY <1>1, <1>2, <1>3, <1>4, <1>5


(***************************************************************************)
(* No step but a crash loses anything.  SavePartial overwrites only what   *)
(* the buffer or the finished batch has; FinishBatch empties the buffer    *)
(* when it is stored.                                                      *)
(***************************************************************************)
LEMMA SafeStep ==
  ASSUME TypeOK, ChainInv, HoldInv, [Next]_vars, ~Crash
  PROVE  Safe \subseteq Safe'
<1> DEFINE R == RestartBatch
<1>t. /\ R \in Nat /\ R > 0 /\ batchNo \in Nat /\ txBuffer \in Seq(Tx)
      /\ txChan \in Seq(Tx) /\ dbPartial.txs \in Seq(Tx)
  BY RestartBatchTyped DEF TypeOK, DurableOK, Partial, BuilderOK
<1>f. ASSUME UNCHANGED <<dbPartial, dbBatch, txChan, txBuffer, InWork>>
      PROVE  Safe \subseteq Safe'
  BY <1>f DEF Safe, OnTheWay, Final, SetOf
<1>1. CASE \/ LoadGenesis \/ PutGenesisRoot \/ SkipGenesis \/ FetchBlock
           \/ UpdateSender \/ UpdateRecipient \/ RejectTransaction \/ StoreTx
           \/ CommitBlock \/ NewBlock \/ LostAnswer \/ UNCHANGED vars
  <2>1. UNCHANGED <<dbPartial, dbBatch, txChan, txBuffer, bpc, batchNo>>
    BY <1>1 DEF LoadGenesis, PutGenesisRoot, SkipGenesis, FetchBlock,
       UpdateSender, UpdateRecipient, RejectTransaction, StoreTx,
       CommitBlock, NewBlock, LostAnswer, vars, durable, batchKeys, builder
  <2> QED  BY <2>1, <1>f DEF InWork, RestartBatch
<1>2. CASE \/ CollectTimeout \/ CreateBatch \/ SubmitToDA \/ BlobError
           \/ PutHash \/ SubmitBatchMetadata \/ ProverGenerate
           \/ ProverError \/ PutProof \/ SubmitBatch
  <2>1. UNCHANGED <<dbPartial, dbBatch, txChan, txBuffer, batchNo>>
    BY <1>2 DEF CollectTimeout, CreateBatch, SubmitToDA, BlobError, PutHash,
       SubmitBatchMetadata, ProverGenerate, ProverError, PutProof,
       SubmitBatch, durable, batchKeys, builder
  <2>2. bpc # "down" /\ bpc' # "down"
    BY <1>2 DEF CollectTimeout, CreateBatch, SubmitToDA, BlobError, PutHash,
       SubmitBatchMetadata, ProverGenerate, ProverError, PutProof, SubmitBatch
  <2> QED  BY <2>1, <2>2, <1>f DEF InWork
<1>3. CASE LoadProgress
  <2>1. /\ UNCHANGED <<dbPartial, dbBatch>> /\ bpc' = "collect"
        /\ txBuffer' = dbPartial.txs /\ batchNo' = R /\ txChan' = <<>>
    BY <1>3 DEF LoadProgress, durable, batchKeys
  <2>2. bpc = "down" /\ txChan = <<>> /\ txBuffer = <<>>
    BY <1>3 DEF LoadProgress, HoldInv, DownInv
  <2>3. InWork' = InWork
    BY <2>1, <2>2 DEF InWork
  <2> QED  BY <2>1, <2>2, <2>3 DEF Safe, OnTheWay, Final, SetOf
<1>4. CASE SendTx
  <2>1. /\ UNCHANGED <<dbPartial, dbBatch, txBuffer, bpc, batchNo>>
        /\ txChan' = Append(txChan, pos) /\ pos \in Tx
    BY <1>4 DEF SendTx, durable, batchKeys, builder, TypeOK, IndexerOK,
       InBlock
  <2>2. SetOf(txChan) \subseteq SetOf(txChan')
    BY <2>1, <1>t, SetOfGrown
  <2>3. InWork' = InWork
    BY <2>1 DEF InWork, RestartBatch
  <2>4. Final' = Final
    BY <2>1, <2>3 DEF Final, SetOf
  <2>5. SetOf(txBuffer)' = SetOf(txBuffer)
        /\ SetOf(dbPartial.txs)' = SetOf(dbPartial.txs)
        /\ SetOf(txChan)' = SetOf(txChan')
    BY <2>1 DEF SetOf
  <2> QED  BY <2>2, <2>4, <2>5 DEF Safe, OnTheWay
<1>5. CASE TakeTx
  <2>1. /\ UNCHANGED <<dbPartial, dbBatch, batchNo>>
        /\ bpc # "down" /\ bpc' # "down"
        /\ txChan # <<>> /\ Head(txChan) \in Tx
        /\ txBuffer' = Append(txBuffer, Head(txChan))
        /\ txChan' = Tail(txChan)
    BY <1>5, <1>t DEF TakeTx, durable, batchKeys
  <2>2. SetOf(txChan) \cup SetOf(txBuffer) = SetOf(txChan') \cup SetOf(txBuffer')
    BY <2>1, <1>t, SetOfGrown, SetOfTail
  <2>3. InWork' = InWork
    BY <2>1 DEF InWork
  <2>4. Final' = Final
    BY <2>1, <2>3 DEF Final, SetOf
  <2>5. SetOf(txBuffer)' = SetOf(txBuffer')
        /\ SetOf(dbPartial.txs)' = SetOf(dbPartial.txs)
        /\ SetOf(txChan)' = SetOf(txChan')
    BY <2>1 DEF SetOf
  <2> QED  BY <2>2, <2>4, <2>5 DEF Safe, OnTheWay
<1>6. CASE SavePartial
  <2>1. /\ UNCHANGED <<dbBatch, batchNo, txBuffer, txChan>>
        /\ bpc = "partial" /\ bpc' = "collect" /\ dbPartial'.txs = txBuffer
    BY <1>6 DEF SavePartial
  <2>2. InWork = batchNo /\ InWork' = batchNo
    BY <2>1 DEF InWork
  <2>3. Final' = Final
    BY <2>1, <2>2 DEF Final, SetOf
  <2>4. SetOf(dbPartial.txs) \subseteq SetOf(txBuffer) \cup Final
    <3>1. CASE batchNo = R
      BY <2>1, <3>1, <1>t, BeginsElements DEF HoldInv, HeldInv
    <3>2. CASE batchNo = R + 1
      <4>1. Begins(dbPartial.txs, dbBatch[R].txs)
        BY <2>1, <3>2 DEF HoldInv, HeldInv
      <4>2. dbBatch[R].txs \in Seq(Tx)
        <5>1. R \in DOMAIN dbBatch
          BY <2>1, <3>2 DEF ChainInv, BuilderInv, Complete
        <5> QED  BY <5>1 DEF TypeOK, DurableOK, Batch
      <4>3. SetOf(dbPartial.txs) \subseteq SetOf(dbBatch[R].txs)
        BY <4>1, <4>2, <1>t, BeginsElements
      <4>4. R \in 1..(InWork - 1)
        BY <2>2, <3>2, <1>t
      <4> QED  BY <4>3, <4>4 DEF Final
    <3> QED  BY <2>1, <3>1, <3>2 DEF ChainInv, BuilderInv
  <2>5. SetOf(txBuffer)' = SetOf(txBuffer) /\ SetOf(txChan)' = SetOf(txChan)
    BY <2>1 DEF SetOf
  <2> QED  BY <2>3, <2>4, <2>5 DEF Safe, OnTheWay
<1>7. CASE PutBatch
  <2>1. /\ UNCHANGED <<dbPartial, batchNo, txBuffer, txChan>>
        /\ bpc \in Working /\ bpc # "down" /\ bpc' # "down"
        /\ dbBatch' = Put(dbBatch, batch.no, batch)
    BY <1>7 DEF PutBatch, Working
  <2>2. batchNo = R /\ batch.no = R
    BY <2>1 DEF ChainInv, BuilderInv, Working
  <2>3. \A n \in 1..(R - 1) : dbBatch'[n] = dbBatch[n]
    BY <2>1, <2>2, <1>t DEF ChainInv, StoreInv, Complete, Put
  <2>4. InWork = R /\ InWork' = R
    BY <2>1, <2>2 DEF InWork
  <2>5. Final' = Final
    BY <2>3, <2>4 DEF Final, SetOf
  <2> QED  BY <2>1, <2>5 DEF Safe, OnTheWay, SetOf
<1>8. CASE FinishBatch
  <2>1. /\ UNCHANGED <<dbPartial, dbBatch, txChan>> /\ bpc = "hash3"
        /\ batchNo' = batchNo + 1 /\ bpc' # "down"
    BY <1>8 DEF FinishBatch
  <2>2. batchNo = R /\ dbBatch[R].txs = txBuffer
    BY <2>1 DEF ChainInv, BuilderInv, HoldInv, HeldInv, Working
  <2>3. InWork = R /\ InWork' = R + 1
    BY <2>1, <2>2 DEF InWork
  <2>4. Final \subseteq Final'
    BY <2>1, <2>3, <1>t DEF Final, SetOf
  <2>5. SetOf(txBuffer) \subseteq Final'
    <3>1. R \in 1..(InWork' - 1)
      BY <2>3, <1>t
    <3>2. SetOf(txBuffer) = SetOf(dbBatch'[R].txs)
      BY <2>1, <2>2
    <3> QED  BY <3>1, <3>2 DEF Final, SetOf
  <2>6. SetOf(txChan)' = SetOf(txChan)
        /\ SetOf(dbPartial.txs)' = SetOf(dbPartial.txs)
    BY <2>1 DEF SetOf
  <2> QED  BY <2>4, <2>5, <2>6 DEF Safe, OnTheWay
<1> QED
  BY <1>1, <1>2, <1>3, <1>4, <1>5, <1>6, <1>7, <1>8 DEF Next, Indexer, Builder

(***************************************************************************)
(* A crash loses the channel, and of the buffer and the finished batch the *)
(* one transaction each that partial_batch does not have.                  *)
(***************************************************************************)
LEMMA SafeCrash ==
  ASSUME TypeOK, ChainInv, HoldInv, Crash
  PROVE  \E a, b : Safe \subseteq Safe' \cup SetOf(txChan) \cup {a, b}
<1> DEFINE R == RestartBatch
           P == SetOf(dbPartial.txs)
           Old == UNION {SetOf(dbBatch[n].txs) : n \in 1..(R - 1)}
<1>t. /\ R \in Nat /\ R > 0 /\ batchNo \in Nat /\ txBuffer \in Seq(Tx)
      /\ dbPartial.txs \in Seq(Tx)
  BY RestartBatchTyped DEF TypeOK, DurableOK, Partial, BuilderOK
<1>1. /\ UNCHANGED <<dbPartial, dbBatch>> /\ bpc' = "down"
      /\ txChan' = <<>> /\ txBuffer' = <<>>
  BY DEF Crash, durable, batchKeys
<1>2. P \cup Old \subseteq Safe'
  BY <1>1 DEF Safe, OnTheWay, Final, InWork, RestartBatch, SetOf
<1>3. CASE bpc = "down"
  <2>1. Safe \subseteq P \cup Old
    BY <1>3 DEF HoldInv, DownInv, Safe, OnTheWay, Final, InWork, SetOf
  <2> QED  BY <2>1, <1>2
<1>4. CASE bpc # "down" /\ batchNo = R
  <2>1. Begins(dbPartial.txs, txBuffer)
    BY <1>4 DEF HoldInv, HeldInv
  <2>2. SetOf(txBuffer) \subseteq P \cup {txBuffer[Len(txBuffer)]}
    BY <2>1, <1>t, BeginsElements
  <2>3. Final = Old
    BY <1>4 DEF Final, InWork
  <2>4. Safe \subseteq Safe' \cup SetOf(txChan) \cup {txBuffer[Len(txBuffer)], 0}
    BY <2>2, <2>3, <1>2 DEF Safe, OnTheWay
  <2> QED  BY <2>4
<1>5. CASE bpc # "down" /\ batchNo = R + 1
  <2> DEFINE done == dbBatch[R].txs
  <2>1. Begins(dbPartial.txs, done) /\ Len(txBuffer) <= 1
    BY <1>5 DEF HoldInv, HeldInv
  <2>2. done \in Seq(Tx)
    <3>1. R \in DOMAIN dbBatch
      BY <1>5 DEF ChainInv, BuilderInv, Complete
    <3> QED  BY <3>1 DEF TypeOK, DurableOK, Batch
  <2>3. SetOf(done) \subseteq P \cup {done[Len(done)]}
    BY <2>1, <2>2, <1>t, BeginsElements
  <2>4. Final \subseteq Old \cup SetOf(done)
    <3>1. InWork - 1 = R /\ \A n \in 1..R : n = R \/ n \in 1..(R - 1)
      BY <1>5, <1>t DEF InWork
    <3> QED  BY <3>1 DEF Final
  <2>5. SetOf(txBuffer) \subseteq {txBuffer[1]}
    <3>1. DOMAIN txBuffer = 1..Len(txBuffer) /\ Len(txBuffer) \in Nat
      BY <1>t, LenProperties
    <3>2. \A i \in DOMAIN txBuffer : i = 1
      BY <2>1, <3>1
    <3> QED  BY <3>2 DEF SetOf
  <2>6. Safe \subseteq
          Safe' \cup SetOf(txChan) \cup {txBuffer[1], done[Len(done)]}
    BY <2>3, <2>4, <2>5, <1>2 DEF Safe, OnTheWay
  <2> QED  BY <2>6
<1> QED  BY <1>3, <1>4, <1>5 DEF ChainInv, BuilderInv


\* The transactions of committed blocks are finitely many.
LEMMA CommittedFinite ==
  ASSUME TypeOK
  PROVE  IsFiniteSet(Committed)
<1>1. \E k \in Nat : Committed = 1..k
  BY PipelineAssumption DEF TypeOK, DurableOK, Committed
<1> QED  BY <1>1, FS_Interval

(***************************************************************************)
(* Every step keeps LossInv: CommitBlock adds to the committed ones only   *)
(* transactions that have been sent.                                       *)
(***************************************************************************)
LEMMA LossStep ==
  TypeOK /\ ChainInv /\ HoldInv /\ PlaceInv /\ LossInv /\ [Next]_vars /\ TypeOK'
    => LossInv'
<1> SUFFICES ASSUME TypeOK, ChainInv, HoldInv, PlaceInv, LossInv, [Next]_vars,
                    TypeOK'
             PROVE  LossInv'
  OBVIOUS
<1> DEFINE Missing == Committed \ Safe
           Below == TxsUpTo[lastBlock - 1]
<1>t. /\ ChanCap \in Nat /\ crashes \in Nat /\ lastBlock \in Nat /\ pos \in Nat
      /\ txChan \in Seq(Tx) /\ Len(txChan) \in Nat
  BY PipelineAssumption DEF TypeOK, IndexerOK, EnvironOK
<1>c. /\ IsFiniteSet(Missing) /\ Cardinality(Missing) \in Nat
      /\ Cardinality(Missing) <= crashes * (ChanCap + 2)
  BY CommittedFinite, FS_Subset, FS_CardinalityType DEF LossInv
<1>m. ASSUME Missing' \subseteq Missing, UNCHANGED crashes
      PROVE  Cardinality(Missing') <= crashes' * (ChanCap + 2)
  <2>1. Cardinality(Missing') <= Cardinality(Missing)
        /\ Cardinality(Missing') \in Nat
    BY <1>m, <1>c, FS_Subset, FS_CardinalityType
  <2>2. crashes * (ChanCap + 2) \in Nat
    BY <1>t
  <2> QED  BY <2>1, <2>2, <1>c, <1>m
<1>1. CASE Crash
  <2>1. /\ crashes' = crashes + 1 /\ Committed' = Committed /\ ipc' = "start"
    BY <1>1 DEF Crash, Committed, durable, chainKeys
  <2>2. PICK a, b : Safe \subseteq Safe' \cup SetOf(txChan) \cup {a, b}
    BY <1>1, SafeCrash
  <2>3. Missing' \subseteq Missing \cup SetOf(txChan) \cup {a, b}
    BY <2>1, <2>2
  <2>4. Cardinality(Missing') <= Cardinality(Missing) + Len(txChan) + 2
    BY <2>3, <1>c, <1>t, LostByCrash
  <2>5. Len(txChan) <= ChanCap
    BY DEF HoldInv, DownInv
  <2>6. Cardinality(Missing') \in Nat
    <3>1. Missing' \subseteq Committed
      BY <2>1
    <3> QED  BY <3>1, CommittedFinite, FS_Subset, FS_CardinalityType
  <2>7. (crashes + 1) * (ChanCap + 2) = crashes * (ChanCap + 2) + (ChanCap + 2)
        /\ crashes * (ChanCap + 2) \in Nat
    BY <1>t
  <2>8. Cardinality(Missing') <= crashes' * (ChanCap + 2)
    <3> HIDE DEF Missing
    <3> QED  BY <2>1, <2>4, <2>5, <2>6, <2>7, <1>c, <1>t
  <2> QED  BY <2>1, <2>8 DEF LossInv, InBlock
<1>2. CASE FetchBlock
  <2>1. Safe \subseteq Safe'
    BY <1>2, SafeStep DEF FetchBlock, Crash
  <2>2. /\ lastBlock' = lastBlock /\ UNCHANGED <<dbLastBlock, crashes>>
        /\ pos' = Below + 1 /\ ipc' = IF pos' > TxsUpTo[lastBlock] THEN "commit" ELSE "from"
    BY <1>2 DEF FetchBlock, durable, chainKeys, environ
  <2>3. Below \in Nat /\ TxsUpTo[lastBlock] \in Nat
    BY <1>2, PipelineAssumption DEF FetchBlock, TypeOK, IndexerOK, EnvironOK
  <2>4. Committed' = Committed
    BY <2>2 DEF Committed
  <2>5. Missing' \subseteq Missing
    BY <2>1, <2>4
  <2>6. (Below + 1)..(pos' - 1) = {}
    BY <2>2, <2>3
  <2>7. ipc' = "commit" => (Below + 1)..TxsUpTo[lastBlock] = {}
    BY <2>2, <2>3
  <2> QED  BY <2>2, <2>5, <2>6, <2>7, <1>m DEF LossInv
<1>3. CASE SendTx
  <2>1. Safe \subseteq Safe'
    BY <1>3, SafeStep DEF SendTx, Crash
  <2>2. /\ lastBlock' = lastBlock /\ UNCHANGED <<dbLastBlock, crashes>>
        /\ ipc = "send" /\ pos' = pos + 1 /\ txChan' = Append(txChan, pos)
        /\ ipc' = IF pos' > TxsUpTo[lastBlock] THEN "commit" ELSE "from"
    BY <1>3 DEF SendTx, durable, chainKeys, environ, indexer
  <2>3. /\ Below \in Nat /\ TxsUpTo[lastBlock] \in Nat /\ pos \in Tx
        /\ pos > Below
    BY <2>2, PipelineAssumption DEF TypeOK, IndexerOK, PlaceInv, InBlock
  <2>4. Committed' = Committed
    BY <2>2 DEF Committed
  <2>5. Missing' \subseteq Missing
    BY <2>1, <2>4
  <2>6. pos \in Safe'
    <3>1. pos \in SetOf(txChan')
      BY <2>2, <2>3, <1>t, SetOfGrown
    <3> QED  BY <3>1 DEF Safe, OnTheWay, SetOf
  <2>7. (Below + 1)..(pos - 1) \subseteq Safe'
    BY <2>1, <2>2 DEF LossInv, InBlock
  <2>8. \A i \in (Below + 1)..pos : i = pos \/ i \in (Below + 1)..(pos - 1)
    BY <2>3, <1>t
  <2>9. (Below + 1)..pos \subseteq Safe'
    BY <2>6, <2>7, <2>8
  <2>10. pos' - 1 = pos
    BY <2>2, <1>t
  <2>11. ipc' = "commit" =>
           (Below + 1)..TxsUpTo[lastBlock] \subseteq (Below + 1)..pos
    BY <2>2, <2>3, <1>t
  <2> QED  BY <2>2, <2>5, <2>9, <2>10, <2>11, <1>m DEF LossInv
<1>4. CASE CommitBlock
  <2>1. Safe \subseteq Safe'
    BY <1>4, SafeStep DEF CommitBlock, Crash
  <2>2. /\ ipc = "commit" /\ ipc' = "fetch" /\ lastBlock' = lastBlock + 1
        /\ dbLastBlock' = lastBlock + 1 /\ UNCHANGED crashes
    BY <1>4 DEF CommitBlock, environ
  <2>3. /\ lastBlock > 0 /\ Below \in Nat /\ TxsUpTo[lastBlock] \in Nat
        /\ dbLastBlock \in Nat
    <3>1. lastBlock \in 1..MaxBlock
      BY <2>2, PipelineAssumption DEF TypeOK, IndexerOK
    <3>2. dbLastBlock \in Nat
      BY PipelineAssumption DEF TypeOK, DurableOK
    <3> QED  BY <3>1, <3>2, PipelineAssumption
  <2>4. Committed' = 1..TxsUpTo[lastBlock]
    BY <2>2, <2>3, <1>t DEF Committed
  <2>5. Committed = 1..Below
    <3>1. CASE dbLastBlock = 0
      <4>1. lastBlock = 1
        BY <2>2, <3>1 DEF HoldInv, DownInv
      <4>2. Below = 0
        BY <4>1, PipelineAssumption
      <4> QED  BY <3>1, <4>2 DEF Committed
    <3>2. CASE dbLastBlock # 0
      BY <2>2, <3>2 DEF PlaceInv, Committed
    <3> QED  BY <3>1, <3>2
  <2>6. (Below + 1)..TxsUpTo[lastBlock] \subseteq Safe
    BY <2>2 DEF LossInv
  <2>7. \A i \in 1..TxsUpTo[lastBlock] :
          i \in 1..Below \/ i \in (Below + 1)..TxsUpTo[lastBlock]
    BY <2>3
  <2>8. Missing' \subseteq Missing
    BY <2>1, <2>4, <2>5, <2>6, <2>7
  <2> QED  BY <2>2, <2>8, <1>m DEF LossInv, InBlock
<1>5. CASE ~(Crash \/ FetchBlock \/ SendTx \/ CommitBlock)
  <2>1. Safe \subseteq Safe'
    BY <1>5, SafeStep
  <2>2. UNCHANGED <<dbLastBlock, crashes>>
    BY <1>5 DEF Next, Indexer, Builder, LoadGenesis, PutGenesisRoot,
       SkipGenesis, LoadProgress, UpdateSender, UpdateRecipient,
       RejectTransaction, StoreTx, TakeTx, CollectTimeout, SavePartial,
       CreateBatch, SubmitToDA, BlobError, PutBatch, PutHash, FinishBatch,
       SubmitBatchMetadata, ProverGenerate, ProverError, PutProof,
       SubmitBatch, LostAnswer, NewBlock, vars, durable, chainKeys, environ
  <2>3. \/ ipc' \notin {"commit"} \cup InBlock
        \/ /\ UNCHANGED <<lastBlock, pos>>
           /\ ipc' = "commit" <=> ipc = "commit"
           /\ ipc' \in InBlock <=> ipc \in InBlock
    BY <1>5 DEF Next, Indexer, Builder, LoadGenesis, PutGenesisRoot,
       SkipGenesis, LoadProgress, UpdateSender, UpdateRecipient,
       RejectTransaction, StoreTx, TakeTx, CollectTimeout, SavePartial,
       CreateBatch, SubmitToDA, BlobError, PutBatch, PutHash, FinishBatch,
       SubmitBatchMetadata, ProverGenerate, ProverError, PutProof,
       SubmitBatch, LostAnswer, NewBlock, vars, indexer, InBlock
  <2>4. Missing' \subseteq Missing
    BY <2>1, <2>2 DEF Committed
  <2>5. Cardinality(Missing') <= crashes' * (ChanCap + 2)
    BY <2>2, <2>4, <1>m
  <2> QED  BY <2>1, <2>3, <2>5 DEF LossInv
<1> QED  BY <1>1, <1>2, <1>3, <1>4, <1>5

(***************************************************************************)
(* The transactions of committed blocks that are neither on their way nor  *)
(* in a stored batch are no more than ChanCap + 2 for each crash.          *)
(***************************************************************************)
THEOREM LossBoundedCorrect == Spec => []LossBounded
<1>1. Init => PlaceInv /\ LossInv
  <2> SUFFICES ASSUME Init PROVE PlaceInv /\ LossInv
    OBVIOUS
  <2>1. Committed \ Safe = {}
    BY DEF Init, Committed
  <2>2. Cardinality(Committed \ Safe) = 0
    BY <2>1, FS_EmptySet
  <2>3. crashes * (ChanCap + 2) = 0
    BY PipelineAssumption DEF Init
  <2> QED  BY <2>2, <2>3 DEF Init, PlaceInv, LossInv, InBlock
<1>2. TypeOK /\ ChainInv /\ LossInv => LossBounded
  <2> SUFFICES ASSUME TypeOK, ChainInv, LossInv PROVE LossBounded
    OBVIOUS
  <2>1. 1..(InWork - 1) \subseteq DOMAIN dbBatch
    <3>1. /\ RestartBatch \in Nat /\ RestartBatch > 0 /\ batchNo \in Nat
      BY RestartBatchTyped DEF TypeOK, BuilderOK
    <3>2. \A n \in 1..(RestartBatch - 1) : n \in DOMAIN dbBatch
      BY DEF ChainInv, StoreInv, Complete
    <3>3. \/ InWork = RestartBatch
          \/ InWork = RestartBatch + 1 /\ RestartBatch \in DOMAIN dbBatch
      BY DEF InWork, ChainInv, BuilderInv, Complete
    <3>4. \A n \in 1..RestartBatch :
            n = RestartBatch \/ n \in 1..(RestartBatch - 1)
      BY <3>1
    <3> QED  BY <3>1, <3>2, <3>3, <3>4
  <2>2. Final \subseteq Batched
    BY <2>1 DEF Final, Batched
  <2>3. Committed \ (OnTheWay \cup Batched) \subseteq Committed \ Safe
    BY <2>2 DEF Safe
  <2>4. IsFiniteSet(Committed \ Safe)
        /\ IsFiniteSet(Committed \ (OnTheWay \cup Batched))
    BY CommittedFinite, FS_Subset
  <2>5. Cardinality(Committed \ (OnTheWay \cup Batched))
          <= Cardinality(Committed \ Safe)
        /\ Cardinality(Committed \ Safe) \in Nat
        /\ Cardinality(Committed \ (OnTheWay \cup Batched)) \in Nat
    BY <2>3, <2>4, FS_Subset, FS_CardinalityType
  <2>6. crashes * (ChanCap + 2) \in Nat
    BY PipelineAssumption DEF TypeOK, EnvironOK
  <2> QED  BY <2>5, <2>6 DEF LossInv, LossBounded
<1> QED
  BY <1>1, <1>2, LossStep, PlaceStep, TypeCorrect, ChainCorrect, HoldCorrect,
     PTL DEF Spec


----------------------------------------------------------------------------
(***************************************************************************)
(* The stored copy of the batch in hand: from the first SaveBatch on it    *)
(* has the same transactions, and its status is the one of the last        *)
(* SaveBatch.  (CopyInv says that it is not verified before the last.)     *)
(***************************************************************************)
Published == {"hash1", "metadata", "save2"}
Submitted == {"hash2", "prove", "proof", "settle", "save3"}

StoredInv ==
  /\ bpc \in Published \cup Submitted =>
       batchNo \in DOMAIN dbBatch /\ dbBatch[batchNo].txs = batch.txs
  /\ bpc \in Published => ~dbBatch[batchNo].submitted
  /\ bpc \in Submitted => dbBatch[batchNo].submitted

LEMMA StoredStep ==
  TypeOK /\ ChainInv /\ FlagInv /\ StoredInv /\ [Next]_vars => StoredInv'
<1> SUFFICES ASSUME TypeOK, ChainInv, FlagInv, StoredInv, [Next]_vars
             PROVE  StoredInv'
  OBVIOUS
<1>b. batch \in Batch
  BY DEF TypeOK, BuilderOK
<1>1. CASE PutBatch
  <2>1. /\ bpc \in {"save1", "save2", "save3"} /\ bpc \in Working
        /\ bpc' = CASE bpc = "save1" -> "hash1"
                    [] bpc = "save2" -> "hash2"
                    [] bpc = "save3" -> "hash3"
        /\ UNCHANGED <<batchNo, batch>>
        /\ dbBatch' = Put(dbBatch, batch.no, batch)
    BY <1>1 DEF PutBatch, Working
  <2>2. batch.no = batchNo /\ (batch.submitted <=> bpc \in Recorded)
    BY <2>1 DEF ChainInv, BuilderInv, FlagInv, ServiceInv, HandInv
  <2>3. batchNo \in DOMAIN dbBatch' /\ dbBatch'[batchNo] = batch
    BY <2>1, <2>2 DEF Put
  <2> QED
    BY <2>1, <2>2, <2>3 DEF StoredInv, Published, Submitted, Recorded
<1>2. CASE PutHash \/ SubmitBatchMetadata \/ ProverGenerate \/ PutProof
           \/ SubmitBatch \/ LostAnswer
  <2>1. /\ UNCHANGED <<dbBatch, batchNo>> /\ batch'.txs = batch.txs
        /\ bpc' \in Published => bpc \in Published
        /\ bpc' \in Submitted => bpc \in Submitted
    BY <1>2, <1>b DEF PutHash, SubmitBatchMetadata, ProverGenerate, PutProof,
       SubmitBatch, LostAnswer, durable, batchKeys, builder, Published,
       Submitted, Batch
  <2> QED  BY <2>1 DEF StoredInv
<1>3. CASE \/ CollectTimeout \/ TakeTx \/ SavePartial \/ CreateBatch
           \/ SubmitToDA \/ BlobError \/ FinishBatch \/ ProverError
           \/ LoadProgress \/ Crash
  <2>1. bpc' \notin Published \cup Submitted
    BY <1>3 DEF CollectTimeout, TakeTx, SavePartial, CreateBatch, SubmitToDA,
       BlobError, FinishBatch, ProverError, LoadProgress, Crash, Published,
       Submitted
  <2> QED  BY <2>1 DEF StoredInv
<1>4. CASE \/ LoadGenesis \/ PutGenesisRoot \/ SkipGenesis \/ FetchBlock
           \/ UpdateSender \/ UpdateRecipient \/ RejectTransaction \/ StoreTx
           \/ SendTx \/ CommitBlock \/ NewBlock \/ UNCHANGED vars
  <2>1. UNCHANGED <<dbBatch, bpc, batchNo, batch>>
    BY <1>4 DEF LoadGenesis, PutGenesisRoot, SkipGenesis, FetchBlock,
       UpdateSender, UpdateRecipient, RejectTransaction, StoreTx, SendTx,
       CommitBlock, NewBlock, vars, durable, batchKeys, builder
  <2> QED  BY <2>1 DEF StoredInv
<1> QED  BY <1>1, <1>2, <1>3, <1>4 DEF Next, Indexer, Builder

LEMMA StoredCorrect == Spec => []StoredInv
<1>1. Init => StoredInv
  BY DEF Init, StoredInv, Published, Submitted
<1> QED
  BY <1>1, StoredStep, TypeCorrect, ChainCorrect, FlagCorrect, PTL DEF Spec

(***************************************************************************)
(* The batch store as a sequence.                                          *)
(***************************************************************************)
Status   == {"published", "submitted", "verified"}
Stored   == [content : Seq(Tx), status : Status]
EntryOf(b) == [content |-> b.txs, status |-> StatusOf(b)]

LEMMA StatusTyped ==
  ASSUME NEW b \in Batch
  PROVE  /\ EntryOf(b) \in Stored
         /\ b.verified => StatusOf(b) = "verified"
         /\ b.submitted /\ ~b.verified => StatusOf(b) = "submitted"
         /\ ~b.submitted /\ ~b.verified => StatusOf(b) = "published"
<1>1. b.verified \in BOOLEAN /\ b.submitted \in BOOLEAN /\ b.txs \in Seq(Tx)
  BY DEF Batch
<1>2. CASE b.verified
  <2>1. StatusOf(b) = "verified"
    BY <1>2 DEF StatusOf
  <2> QED  BY <1>1, <1>2, <2>1 DEF EntryOf, Stored, Status
<1>3. CASE b.submitted /\ ~b.verified
  <2>1. StatusOf(b) = "submitted"
    BY <1>3 DEF StatusOf
  <2> QED  BY <1>1, <1>3, <2>1 DEF EntryOf, Stored, Status
<1>4. CASE ~b.submitted /\ ~b.verified
  <2>1. StatusOf(b) = "published"
    BY <1>4 DEF StatusOf
  <2> QED  BY <1>1, <1>4, <2>1 DEF EntryOf, Stored, Status
<1> QED  BY <1>1, <1>2, <1>3, <1>4

LEMMA StoreAsSequence ==
  ASSUME NEW db, NEW k \in Nat, DOMAIN db = 1..k,
         \A n \in 1..k : db[n] \in Batch,
         NEW s, s = [n \in DOMAIN db |-> EntryOf(db[n])]
  PROVE  /\ s \in Seq(Stored) /\ Len(s) = k
         /\ \A n \in 1..k : s[n] = EntryOf(db[n])
<1>1. \A n \in 1..k : EntryOf(db[n]) \in Stored
  BY StatusTyped
<1>2. s \in [1..k -> Stored]
  BY <1>1
<1>3. s \in Seq(Stored)
  BY <1>2, SeqDef
<1>4. Len(s) = k
  BY <1>2, <1>3, LenProperties
<1> QED  BY <1>3, <1>4

(***************************************************************************)
(* The stored batches are numbered from 1 up to the restart number, or to  *)
(* the one before.                                                         *)
(***************************************************************************)
LEMMA StoreNumbered ==
  ASSUME TypeOK, ChainInv
  PROVE  /\ DOMAIN dbBatch =
              1..(IF RestartBatch \in DOMAIN dbBatch THEN RestartBatch
                                                     ELSE RestartBatch - 1)
         /\ StoredLedger = [n \in DOMAIN dbBatch |-> EntryOf(dbBatch[n])]
         /\ \A n \in DOMAIN dbBatch : dbBatch[n] \in Batch
<1>1. RestartBatch \in Nat /\ RestartBatch > 0
  BY RestartBatchTyped
<1>2. /\ DOMAIN dbBatch \subseteq 1..RestartBatch
      /\ 1..(RestartBatch - 1) \subseteq DOMAIN dbBatch
  BY DEF ChainInv, StoreInv, Complete
<1>3. \A n \in 1..RestartBatch :
        n = RestartBatch \/ n \in 1..(RestartBatch - 1)
  BY <1>1
<1>4. RestartBatch \notin 1..(RestartBatch - 1)
  BY <1>1
<1> QED
  BY <1>1, <1>2, <1>3, <1>4 DEF StoredLedger, EntryOf, TypeOK, DurableOK

(***************************************************************************)
(* SaveBatch puts an entry after the last one or in its place.             *)
(***************************************************************************)
LEMMA SaveAsEntry ==
  ASSUME TypeOK, ChainInv, TypeOK', ChainInv', PutBatch
  PROVE  /\ StoredLedger \in Seq(Stored)
         /\ batchNo = RestartBatch
         /\ batchNo \notin DOMAIN dbBatch =>
              /\ Len(StoredLedger) = batchNo - 1
              /\ StoredLedger' = Append(StoredLedger, EntryOf(batch))
         /\ batchNo \in DOMAIN dbBatch =>
              /\ Len(StoredLedger) = batchNo
              /\ StoredLedger[batchNo] = EntryOf(dbBatch[batchNo])
              /\ StoredLedger' =
                   [StoredLedger EXCEPT ![batchNo] = EntryOf(batch)]
<1> DEFINE R == RestartBatch
           k == IF R \in DOMAIN dbBatch THEN R ELSE R - 1
           s == StoredLedger
           t == StoredLedger'
           e == EntryOf(batch)
<1>1. /\ R \in Nat /\ R > 0 /\ k \in Nat
  BY RestartBatchTyped
<1>2. /\ bpc \in Working /\ UNCHANGED dbPartial
      /\ dbBatch' = Put(dbBatch, batch.no, batch)
  BY DEF PutBatch, Working
<1>3. batchNo = R /\ batch.no = R /\ RestartBatch' = R
  BY <1>2 DEF ChainInv, BuilderInv, Working, RestartBatch
<1>4. /\ DOMAIN dbBatch = 1..k
      /\ s = [n \in DOMAIN dbBatch |-> EntryOf(dbBatch[n])]
      /\ \A n \in 1..k : dbBatch[n] \in Batch
  BY StoreNumbered
<1>5. /\ s \in Seq(Stored) /\ Len(s) = k
      /\ \A n \in 1..k : s[n] = EntryOf(dbBatch[n])
  BY <1>1, <1>4, StoreAsSequence
<1>6. /\ DOMAIN dbBatch' = 1..R
      /\ dbBatch'[R] = batch
      /\ \A n \in 1..(R - 1) : dbBatch'[n] = dbBatch[n]
  <2>1. DOMAIN dbBatch' = DOMAIN dbBatch \cup {R}
    BY <1>2, <1>3 DEF Put
  <2>2. 1..k \cup {R} = 1..R
    BY <1>1
  <2>3. \A n \in 1..(R - 1) : n \in 1..k /\ n # R
    BY <1>1
  <2> QED  BY <1>2, <1>3, <1>4, <2>1, <2>2, <2>3 DEF Put
<1>7. t = [n \in DOMAIN dbBatch' |-> EntryOf(dbBatch'[n])]
  BY DEF StoredLedger, EntryOf
<1>8. \A n \in 1..R : dbBatch'[n] \in Batch
  BY <1>6 DEF TypeOK, DurableOK
<1>9. /\ t \in Seq(Stored) /\ Len(t) = R
      /\ \A n \in 1..R : t[n] = EntryOf(dbBatch'[n])
  BY <1>1, <1>6, <1>7, <1>8, StoreAsSequence
<1>10. e \in Stored /\ t[R] = e /\ \A n \in 1..(R - 1) : t[n] = s[n]
  <2>1. \A n \in 1..(R - 1) : n \in 1..k /\ n \in 1..R
    BY <1>1
  <2>2. R \in 1..R
    BY <1>1
  <2> QED  BY <1>5, <1>6, <1>8, <1>9, <2>1, <2>2, StatusTyped
<1> HIDE DEF s, t, e
<1>11. CASE R \notin DOMAIN dbBatch
  <2>1. Len(s) = R - 1
    BY <1>5, <1>11
  <2> DEFINE u == Append(s, e)
  <2>2. /\ u \in Seq(Stored) /\ Len(u) = R /\ u[R] = e
        /\ \A n \in 1..(R - 1) : u[n] = s[n]
    BY <1>1, <1>5, <1>10, <2>1, AppendProperties
  <2> HIDE DEF u
  <2>3. \A n \in 1..R : t[n] = u[n]
    BY <1>1, <1>10, <2>2
  <2>4. t = u
    BY <1>9, <2>2, <2>3, SeqEqual
  <2>5. t = Append(s, e)
    BY <2>4 DEF u
  <2> QED  BY <1>3, <1>5, <1>11, <2>1, <2>5 DEF s, t, e
<1>12. CASE R \in DOMAIN dbBatch
  <2>1. Len(s) = R /\ R \in 1..Len(s)
    BY <1>1, <1>5, <1>12
  <2> DEFINE u == [s EXCEPT ![R] = e]
  <2>2. /\ u \in Seq(Stored) /\ Len(u) = R
        /\ \A n \in 1..R : u[n] = IF n = R THEN e ELSE s[n]
    BY <1>5, <1>10, <2>1, ExceptSeq
  <2> HIDE DEF u
  <2>3. \A n \in 1..R : t[n] = u[n]
    BY <1>1, <1>10, <2>2
  <2>4. t = u
    BY <1>9, <2>2, <2>3, SeqEqual
  <2>5. t = [s EXCEPT ![R] = e]
    BY <2>4 DEF u
  <2>6. s[R] = EntryOf(dbBatch[R])
    BY <1>5, <1>12, <2>1
  <2> QED  BY <1>3, <1>5, <1>12, <2>1, <2>5, <2>6 DEF s, t, e
<1> QED  BY <1>11, <1>12


\* To set the status of an entry is to set the entry.
LEMMA StatusSet ==
  ASSUME NEW s \in Seq(Stored), NEW k \in 1..Len(s), NEW status \in Status
  PROVE  [s EXCEPT ![k].status = status]
           = [s EXCEPT ![k] = [content |-> s[k].content, status |-> status]]
<1> DEFINE r == s[k]
<1>1. r \in [content : Seq(Tx), status : Status]
  BY ElementOfSeq DEF Stored
<1> HIDE DEF r
<1>2. [r EXCEPT !.status = status] = [content |-> r.content, status |-> status]
  BY <1>1
<1>3. [s EXCEPT ![k].status = status]
        = [s EXCEPT ![k] = [s[k] EXCEPT !.status = status]]
  OBVIOUS
<1> QED  BY <1>2, <1>3 DEF r

(***************************************************************************)
(* What the first SaveBatch of a batch does to the ledger: a new entry     *)
(* after a verified one, or the last entry made again.                     *)
(***************************************************************************)
LEMMA FirstSave ==
  ASSUME TypeOK, ChainInv, FlagInv, HeldInv, TypeOK', ChainInv',
         PutBatch, bpc = "save1"
  PROVE  /\ batch.txs \in [1..BatchSize -> Tx]
         /\ batchNo \notin DOMAIN dbBatch =>
              Ledger!Publish(batch.txs) /\ Len(StoredLedger) + 1 = batchNo
         /\ batchNo \in DOMAIN dbBatch =>
              /\ Ledger!Reopen(batch.txs) /\ StoredLedger # <<>>
              /\ Ledger!Last = EntryOf(dbBatch[batchNo])
<1> DEFINE R == RestartBatch
<1>1. /\ StoredLedger \in Seq(Stored) /\ batchNo = R
      /\ R \in Nat /\ R > 0 /\ Len(StoredLedger) \in Nat
      /\ StoredLedger = <<>> <=> Len(StoredLedger) = 0
  BY SaveAsEntry, RestartBatchTyped, LenProperties, EmptySeq
<1>2. batch \in Batch /\ ~batch.submitted /\ ~batch.verified
      /\ EntryOf(batch) = [content |-> batch.txs, status |-> "published"]
  <2>1. batch \in Batch /\ ~batch.submitted /\ ~batch.verified
    BY DEF TypeOK, BuilderOK, FlagInv, ServiceInv, HandInv, Working,
       Recorded, Reported
  <2> QED  BY <2>1, StatusTyped DEF EntryOf
<1>3. batch.txs \in [1..BatchSize -> Tx]
  <2>1. batch.txs = txBuffer /\ Len(txBuffer) = BatchSize
        /\ txBuffer \in Seq(Tx)
    BY DEF HeldInv, ChainInv, BufferInv, Working, TypeOK, BuilderOK
  <2> QED  BY <2>1, LenProperties
<1>4. CASE batchNo \notin DOMAIN dbBatch
  <2>1. /\ Len(StoredLedger) = R - 1
        /\ StoredLedger' = Append(StoredLedger, EntryOf(batch))
    BY <1>1, <1>4, SaveAsEntry
  <2>2. ASSUME StoredLedger # <<>>
        PROVE  StoredLedger[Len(StoredLedger)].status = "verified"
    <3>1. R - 1 \in 1..(R - 1)
      BY <1>1, <2>1, <2>2
    <3>2. R - 1 \in DOMAIN dbBatch /\ dbBatch[R - 1].verified
      BY <3>1 DEF ChainInv, StoreInv, Complete
    <3>3. dbBatch[R - 1] \in Batch
      BY <3>2 DEF TypeOK, DurableOK
    <3>4. StatusOf(dbBatch[R - 1]) = "verified"
      BY <3>2, <3>3, StatusTyped
    <3> QED  BY <2>1, <3>2, <3>4 DEF StoredLedger
  <2>3. Ledger!Publish(batch.txs)
    BY <1>2, <2>1, <2>2
    DEF Ledger!Publish, Ledger!Last, Ledger!OpenEntry
  <2> QED  BY <1>1, <1>3, <1>4, <2>1, <2>3
<1>5. CASE batchNo \in DOMAIN dbBatch
  <2>1. /\ Len(StoredLedger) = R
        /\ StoredLedger[R] = EntryOf(dbBatch[R])
        /\ StoredLedger' = [StoredLedger EXCEPT ![R] = EntryOf(batch)]
    BY <1>1, <1>5, SaveAsEntry
  <2>2. StoredLedger # <<>>
    BY <1>1, <2>1
  <2>3. Ledger!Reopen(batch.txs)
    BY <1>2, <2>1, <2>2 DEF Ledger!Reopen, Ledger!OpenEntry
  <2> QED  BY <1>1, <1>3, <1>5, <2>1, <2>2, <2>3 DEF Ledger!Last
<1> QED  BY <1>4, <1>5

\* The second and the third SaveBatch move the status of the last entry on.
LEMMA LaterSave ==
  ASSUME TypeOK, ChainInv, FlagInv, StoredInv, TypeOK', ChainInv',
         PutBatch, bpc # "save1"
  PROVE  Ledger!Submit \/ Ledger!Settle
<1> DEFINE R == RestartBatch
<1>1. /\ StoredLedger \in Seq(Stored) /\ batchNo = R
      /\ R \in Nat /\ R > 0
      /\ StoredLedger = <<>> <=> Len(StoredLedger) = 0
  BY SaveAsEntry, RestartBatchTyped, LenProperties, EmptySeq
<1>2. /\ bpc \in {"save2", "save3"}
      /\ batchNo \in DOMAIN dbBatch /\ dbBatch[R].txs = batch.txs
      /\ ~dbBatch[R].verified
      /\ bpc = "save2" => ~dbBatch[R].submitted
      /\ bpc = "save3" => dbBatch[R].submitted
      /\ batch \in Batch /\ dbBatch[R] \in Batch
      /\ batch.submitted /\ (batch.verified <=> bpc = "save3")
  <2>1. bpc \in {"save2", "save3"}
    BY DEF PutBatch
  <2>2. batchNo \in DOMAIN dbBatch /\ dbBatch[R].txs = batch.txs
        /\ (bpc = "save2" => ~dbBatch[R].submitted)
        /\ (bpc = "save3" => dbBatch[R].submitted)
    BY <1>1, <2>1 DEF StoredInv, Published, Submitted
  <2>3. ~dbBatch[R].verified /\ batch.submitted
        /\ (batch.verified <=> bpc = "save3")
    BY <1>1, <2>1, <2>2 DEF FlagInv, ServiceInv, CopyInv, HandInv, Working,
       Recorded, Reported
  <2>4. batch \in Batch /\ dbBatch[R] \in Batch
    BY <1>1, <2>2 DEF TypeOK, DurableOK, BuilderOK
  <2> QED  BY <2>1, <2>2, <2>3, <2>4
<1>3. /\ Len(StoredLedger) = R /\ R \in 1..Len(StoredLedger)
      /\ StoredLedger # <<>>
      /\ StoredLedger[R] = EntryOf(dbBatch[R])
      /\ StoredLedger' = [StoredLedger EXCEPT ![R] = EntryOf(batch)]
  BY <1>1, <1>2, SaveAsEntry
<1>4. StoredLedger[R].content = batch.txs
  BY <1>2, <1>3 DEF EntryOf
<1>5. CASE bpc = "save2"
  <2>1. StatusOf(batch) = "submitted" /\ StatusOf(dbBatch[R]) = "published"
    BY <1>2, <1>5, StatusTyped
  <2>2. StoredLedger' = [StoredLedger EXCEPT ![R].status = "submitted"]
    BY <1>1, <1>3, <1>4, <2>1, StatusSet DEF EntryOf, Status
  <2>3. StoredLedger[R].status = "published"
    BY <1>3, <2>1 DEF EntryOf
  <2> QED  BY <1>3, <2>2, <2>3 DEF Ledger!Submit, Ledger!Last
<1>6. CASE bpc = "save3"
  <2>1. StatusOf(batch) = "verified" /\ StatusOf(dbBatch[R]) = "submitted"
    BY <1>2, <1>6, StatusTyped
  <2>2. StoredLedger' = [StoredLedger EXCEPT ![R].status = "verified"]
    BY <1>1, <1>3, <1>4, <2>1, StatusSet DEF EntryOf, Status
  <2>3. StoredLedger[R].status = "submitted"
    BY <1>3, <2>1 DEF EntryOf
  <2> QED  BY <1>3, <2>2, <2>3 DEF Ledger!Settle, Ledger!Last
<1> QED  BY <1>2, <1>5, <1>6

\* Only SaveBatch changes what is stored.
LEMMA LedgerFrame ==
  ASSUME [Next]_vars, ~PutBatch
  PROVE  UNCHANGED StoredLedger
<1>1. UNCHANGED dbBatch
  BY DEF Next, Indexer, Builder, LoadGenesis, PutGenesisRoot, SkipGenesis,
     LoadProgress, FetchBlock, UpdateSender, UpdateRecipient,
     RejectTransaction, StoreTx, SendTx, CommitBlock, TakeTx, CollectTimeout,
     SavePartial, CreateBatch, SubmitToDA, BlobError, PutHash, FinishBatch,
     SubmitBatchMetadata, ProverGenerate, ProverError, PutProof, SubmitBatch,
     LostAnswer, NewBlock, Crash, vars, durable, batchKeys
<1> QED  BY <1>1 DEF StoredLedger, StatusOf

LEMMA EmptyLedger == Init => Ledger!Init
<1> SUFFICES ASSUME Init PROVE StoredLedger = <<>>
  BY DEF Ledger!Init
<1>1. DOMAIN dbBatch = 1..0
  BY DEF Init, EmptyDB
<1>2. StoredLedger = [n \in DOMAIN dbBatch |-> EntryOf(dbBatch[n])]
  BY DEF StoredLedger, EntryOf
<1>3. StoredLedger \in Seq(Stored) /\ Len(StoredLedger) = 0
  BY <1>1, <1>2, StoreAsSequence
<1> QED  BY <1>3, EmptySeq

(***************************************************************************)
(* Whatever crashes and failures, the batch store is a ledger: each step   *)
(* of the pipeline adds an entry after a verified one, moves the status of *)
(* the last one, makes the last one again, or leaves it alone.             *)
(***************************************************************************)
THEOREM ImplementsLedgerCorrect == Spec => ImplementsLedger
<1>1. TypeOK /\ ChainInv /\ FlagInv /\ HoldInv /\ StoredInv /\ [Next]_vars
        /\ TypeOK' /\ ChainInv'
      => [Ledger!Next]_StoredLedger
  <2> SUFFICES ASSUME TypeOK, ChainInv, FlagInv, HoldInv, StoredInv,
                      [Next]_vars, TypeOK', ChainInv'
               PROVE  [Ledger!Next]_StoredLedger
    OBVIOUS
  <2>1. CASE PutBatch /\ bpc = "save1"
    BY <2>1, FirstSave DEF HoldInv, Ledger!Next
  <2>2. CASE PutBatch /\ bpc # "save1"
    BY <2>2, LaterSave DEF Ledger!Next
  <2>3. CASE ~PutBatch
    BY <2>3, LedgerFrame
  <2> QED  BY <2>1, <2>2, <2>3
<1> QED
  BY <1>1, EmptyLedger, TypeCorrect, ChainCorrect, FlagCorrect, HoldCorrect,
     StoredCorrect, PTL
  DEF Spec, ImplementsLedger, Ledger!Spec


============================================================================
