--------------------- MODULE BatchPipelineNormalProofs ----------------------
(***************************************************************************)
(* Proofs about the batching pipeline as long as it has not crashed, for   *)
(* every value of the constants and any number of other failures: batches  *)
(* are the slices of the chain, each is settled under one root, state      *)
(* roots run ahead of their batches by a known amount, and the batch store *)
(* is the strict ledger.                                                   *)
(***************************************************************************)
EXTENDS BatchPipelineCrashProofs

(***************************************************************************)
(* Before the first start is over, nothing is stored.                      *)
(***************************************************************************)
FreshInv ==
  bpc = "down" /\ crashes = 0 =>
    /\ dbBatch = EmptyDB /\ dbPartial = NoPartial /\ dbLastBlock = 0
    /\ settled = {} /\ Sent(evm) = {}

(***************************************************************************)
(* The transactions between the indexer and the batch in work follow one   *)
(* another without a gap: Before of them are in earlier batches, then come *)
(* the buffer, the channel and the one in the hands of the indexer.        *)
(***************************************************************************)
Before == (batchNo - 1) * BatchSize
Total  == Before + Len(txBuffer) + Len(txChan)

QueueInv ==
  /\ \A i \in 1..Len(txBuffer) : txBuffer[i] = Before + i
  /\ \A i \in 1..Len(txChan) : txChan[i] = Before + Len(txBuffer) + i
  /\ totalGas = Len(txBuffer)
  /\ ipc \in InBlock => pos = Total + 1
  /\ ipc = "commit" => Total = TxsUpTo[lastBlock]
  /\ ipc = "fetch" => Total = TxsUpTo[lastBlock - 1]

SliceInv ==
  /\ bpc \in Working => batch.txs = Slice(batchNo) /\ batch.gas = BatchSize
  /\ InOrderExactlyOnce

FlowInv == bpc # "down" /\ crashes = 0 => QueueInv /\ SliceInv

(***************************************************************************)
(* A settlement is of an earlier batch, or it is the one of the batch in   *)
(* hand: after it has been sent the batch is not made again.               *)
(***************************************************************************)
OnceInv ==
  crashes = 0 =>
    /\ \A s \in settled :
         \/ s.no < batchNo
         \/ /\ s.no = batchNo /\ bpc \in {"settle", "save3", "hash3"}
            /\ s = SettlementOf(batch)
    /\ NoEquivocation

\* The stored copy of the batch in work is not verified before its last save.
AgainInv ==
  crashes = 0 /\ bpc \notin {"down", "hash3"} =>
    (batchNo \in DOMAIN dbBatch => ~dbBatch[batchNo].verified)

(***************************************************************************)
(* The state database has been written for the transactions sent so far    *)
(* and the one in the hands of the indexer.                                *)
(***************************************************************************)
Applied == IF ipc \in {"to", "store", "send"} THEN Total + 1 ELSE Total

Covers(root, n) ==
  /\ "reject" \notin FaultKinds => 1..(n * BatchSize) \subseteq Sent(root)
  /\ Sent(root) \subseteq 1..(n * BatchSize + ChanCap + 1)

LeadInv ==
  bpc # "down" /\ crashes = 0 =>
    /\ Sent(evm) \subseteq 1..Applied
    /\ "reject" \notin FaultKinds => 1..Applied \subseteq Sent(evm)
    /\ bpc \in Working => Covers(batch.post, batchNo)
    /\ LeadBounded

----------------------------------------------------------------------------
\* The senders that have been written after one more write.
LEMMA SentGrown ==
  ASSUME NEW s \in Seq(Write), NEW w \in Write
  PROVE  /\ w.op # "from" => Sent(Append(s, w)) = Sent(s)
         /\ w.op = "from" => Sent(Append(s, w)) = Sent(s) \cup {w.tx}
<1> DEFINE t == Append(s, w)
<1>1. /\ Len(s) \in Nat /\ DOMAIN s = 1..Len(s)
      /\ DOMAIN t = 1..(Len(s) + 1) /\ t[Len(s) + 1] = w
      /\ \A i \in 1..Len(s) : t[i] = s[i]
  BY AppendProperties, LenProperties
<1>2. \A i \in 1..(Len(s) + 1) : i = Len(s) + 1 \/ i \in 1..Len(s)
  BY <1>1
<1>3. \A i \in 1..Len(s) : i \in 1..(Len(s) + 1)
  BY <1>1
<1>4. Len(s) + 1 \in 1..(Len(s) + 1)
  BY <1>1
<1> HIDE DEF t
<1> QED  BY <1>1, <1>2, <1>3, <1>4 DEF Sent

(***************************************************************************)
(* Steps of the builder happen while it is up and leave it up, and only a  *)
(* crash or the start takes it from one to the other.                      *)
(***************************************************************************)
LEMMA BuilderIsUp ==
  ASSUME Builder
  PROVE  bpc # "down" /\ bpc' # "down" /\ UNCHANGED <<crashes, dbLastBlock, evm>>
BY DEF Builder, TakeTx, CollectTimeout, SavePartial, CreateBatch,
   SubmitToDA, BlobError, PutBatch, PutHash, FinishBatch,
   SubmitBatchMetadata, ProverGenerate, ProverError, PutProof, SubmitBatch,
   LostAnswer, builder, environ, durable, chainKeys

LEMMA FreshStep ==
  TypeOK /\ DownInv /\ FreshInv /\ [Next]_vars => FreshInv'
<1> SUFFICES ASSUME TypeOK, DownInv, FreshInv, [Next]_vars PROVE FreshInv'
  OBVIOUS
<1>1. CASE LoadGenesis
  <2>1. /\ UNCHANGED <<bpc, crashes, dbBatch, dbPartial, dbLastBlock, settled>>
        /\ evm' = Append(evm, [op |-> "genesis", tx |-> 0])
    BY <1>1 DEF LoadGenesis, batchKeys, builder, environ, services
  <2>2. Sent(evm') = Sent(evm)
    BY <2>1, SentGrown DEF TypeOK, DurableOK, Root, Write
  <2> QED  BY <2>1, <2>2 DEF FreshInv, Sent
<1>2. CASE PutGenesisRoot \/ SkipGenesis \/ NewBlock \/ UNCHANGED vars
  BY <1>2 DEF PutGenesisRoot, SkipGenesis, NewBlock, vars, FreshInv, Sent,
     durable, chainKeys, batchKeys, builder, environ, services
<1>3. CASE LoadProgress
  BY <1>3 DEF LoadProgress, FreshInv
<1>4. CASE FetchBlock \/ UpdateSender \/ UpdateRecipient
           \/ RejectTransaction \/ StoreTx \/ SendTx \/ CommitBlock
  <2>1. bpc # "down" /\ UNCHANGED bpc
    BY <1>4 DEF FetchBlock, UpdateSender, UpdateRecipient, RejectTransaction,
       StoreTx, SendTx, CommitBlock, DownInv, builder
  <2> QED  BY <2>1 DEF FreshInv
<1>5. CASE Builder
  BY <1>5, BuilderIsUp DEF FreshInv
<1>6. CASE Crash
  BY <1>6 DEF Crash, FreshInv, TypeOK, EnvironOK
<1> QED  BY <1>1, <1>2, <1>3, <1>4, <1>5, <1>6 DEF Next, Indexer

\* What QueueInv is about.
LEMMA QueueFrame ==
  ASSUME QueueInv,
         UNCHANGED <<batchNo, txBuffer, txChan, totalGas, lastBlock, pos>>,
         \/ UNCHANGED ipc
         \/ ipc \in InBlock /\ ipc' \in InBlock
  PROVE  QueueInv'
BY DEF QueueInv, Total, Before, InBlock

(***************************************************************************)
(* Every step keeps QueueInv: a transaction moves from one place to the    *)
(* next, first in first out.                                               *)
(***************************************************************************)
LEMMA QueueStep ==
  ASSUME TypeOK, ChainInv, HoldInv, PlaceInv, FreshInv, FlowInv, [Next]_vars,
         bpc' # "down", crashes' = 0
  PROVE  QueueInv'
<1>t. /\ batchNo \in Nat /\ BatchSize \in Nat /\ BatchSize > 1
      /\ txBuffer \in Seq(Tx) /\ Len(txBuffer) \in Nat
      /\ txChan \in Seq(Tx) /\ Len(txChan) \in Nat
      /\ lastBlock \in Nat /\ pos \in Nat /\ totalGas \in Nat
  BY PipelineAssumption, LenProperties DEF TypeOK, BuilderOK, IndexerOK
<1>b. Before \in Int /\ Total \in Int /\ Total = Before + Len(txBuffer) + Len(txChan)
  BY <1>t DEF Before, Total
<1>q. ASSUME bpc # "down", UNCHANGED crashes
      PROVE  QueueInv /\ SliceInv
  BY <1>q DEF FlowInv
<1>1. CASE LoadGenesis \/ PutGenesisRoot \/ SkipGenesis
  <2>1. bpc = "down" /\ UNCHANGED bpc
    BY <1>1 DEF LoadGenesis, PutGenesisRoot, SkipGenesis, HoldInv, DownInv,
       builder
  <2> QED  BY <2>1
<1>2. CASE LoadProgress
  <2>1. dbPartial = NoPartial /\ dbLastBlock = 0
    BY <1>2 DEF LoadProgress, HoldInv, DownInv, FreshInv, environ
  <2>2. /\ batchNo' = 1 /\ txBuffer' = <<>> /\ txChan' = <<>>
        /\ totalGas' = 0 /\ lastBlock' = 1 /\ ipc' = "fetch"
    BY <1>2, <2>1 DEF LoadProgress, RestartBatch, RestartBlock, NoPartial
  <2>3. Before' = 0
    BY <2>2, <1>t DEF Before
  <2>4. Total' = 0 /\ Len(txBuffer') = 0 /\ Len(txChan') = 0
    BY <2>2, <2>3 DEF Total
  <2> QED
    BY <2>2, <2>4, PipelineAssumption DEF QueueInv, InBlock
<1>3. CASE UpdateSender \/ UpdateRecipient \/ RejectTransaction \/ StoreTx
  <2>1. /\ UNCHANGED <<bpc, batchNo, txBuffer, txChan, totalGas, lastBlock,
                       pos, crashes>>
        /\ ipc \in InBlock /\ ipc' \in InBlock
    BY <1>3 DEF UpdateSender, UpdateRecipient, RejectTransaction, StoreTx,
       builder, environ, InBlock
  <2> QED  BY <2>1, <1>q, QueueFrame
<1>4. CASE NewBlock \/ CollectTimeout \/ SavePartial \/ CreateBatch
           \/ SubmitToDA \/ BlobError \/ PutBatch \/ PutHash
           \/ SubmitBatchMetadata \/ ProverGenerate \/ ProverError
           \/ PutProof \/ SubmitBatch \/ LostAnswer \/ UNCHANGED vars
  <2>1. UNCHANGED <<batchNo, txBuffer, txChan, totalGas, lastBlock, pos, ipc,
                    crashes>>
    BY <1>4 DEF NewBlock, CollectTimeout, SavePartial, CreateBatch,
       SubmitToDA, BlobError, PutBatch, PutHash, SubmitBatchMetadata,
       ProverGenerate, ProverError, PutProof, SubmitBatch, LostAnswer, vars,
       builder, environ, indexer
  <2>2. bpc # "down"
    BY <1>4, BuilderIsUp DEF Builder, NewBlock, vars, builder
  <2> QED  BY <2>1, <2>2, <1>q, QueueFrame
<1>5. CASE FetchBlock
  <2>1. /\ UNCHANGED <<bpc, batchNo, txBuffer, txChan, totalGas, lastBlock,
                       crashes>>
        /\ ipc = "fetch" /\ lastBlock <= head
        /\ pos' = TxsUpTo[lastBlock - 1] + 1
        /\ ipc' = IF pos' > TxsUpTo[lastBlock] THEN "commit" ELSE "from"
    BY <1>5 DEF FetchBlock, builder, environ
  <2>2. /\ TxsUpTo[lastBlock - 1] \in Nat /\ TxsUpTo[lastBlock] \in Nat
        /\ TxsUpTo[lastBlock - 1] <= TxsUpTo[lastBlock]
    BY <2>1, PipelineAssumption DEF TypeOK, IndexerOK, EnvironOK
  <2>3. QueueInv
    BY <2>1, <1>q
  <2>4. Total' = Total /\ Before' = Before /\ Total = TxsUpTo[lastBlock - 1]
    BY <2>1, <2>3 DEF QueueInv, Total, Before
  <2> QED  BY <2>1, <2>2, <2>3, <2>4 DEF QueueInv, InBlock
<1>6. CASE SendTx
  <2>1. /\ UNCHANGED <<bpc, batchNo, txBuffer, totalGas, lastBlock, crashes>>
        /\ ipc = "send" /\ txChan' = Append(txChan, pos) /\ pos' = pos + 1
        /\ ipc' = IF pos' > TxsUpTo[lastBlock] THEN "commit" ELSE "from"
    BY <1>6 DEF SendTx, builder, environ, indexer
  <2>2. pos \in Tx /\ pos <= TxsUpTo[lastBlock] /\ TxsUpTo[lastBlock] \in Nat
    BY <2>1, PipelineAssumption DEF TypeOK, IndexerOK, InBlock
  <2>3. QueueInv
    BY <2>1, <1>q
  <2>4. /\ Len(txChan') = Len(txChan) + 1
        /\ txChan'[Len(txChan) + 1] = pos
        /\ \A i \in 1..Len(txChan) : txChan'[i] = txChan[i]
    BY <2>1, <2>2, <1>t, AppendProperties
  <2>5. Before' = Before /\ Total' = Total + 1 /\ pos = Total + 1
    BY <2>1, <2>3, <2>4, <1>t, <1>b DEF QueueInv, InBlock, Total, Before
  <2>6. \A i \in 1..Len(txChan') : txChan'[i] = Before + Len(txBuffer) + i
    <3>1. \A i \in 1..Len(txChan') : i = Len(txChan) + 1 \/ i \in 1..Len(txChan)
      BY <2>4, <1>t
    <3>2. txChan'[Len(txChan) + 1] = Before + Len(txBuffer) + (Len(txChan) + 1)
      BY <2>4, <2>5, <1>t, <1>b
    <3> QED  BY <2>3, <2>4, <3>1, <3>2 DEF QueueInv
  <2>7. ipc' \in InBlock => pos' = Total' + 1
    BY <2>1, <2>5, <1>t
  <2>8. ipc' = "commit" => Total' = TxsUpTo[lastBlock]
    BY <2>1, <2>2, <2>5, <1>t
  <2>9. ipc' # "fetch"
    BY <2>1
  <2> QED  BY <2>1, <2>3, <2>5, <2>6, <2>7, <2>8, <2>9 DEF QueueInv
<1>7. CASE CommitBlock
  <2>1. /\ UNCHANGED <<bpc, batchNo, txBuffer, txChan, totalGas, crashes>>
        /\ ipc = "commit" /\ ipc' = "fetch" /\ lastBlock' = lastBlock + 1
    BY <1>7 DEF CommitBlock, builder, environ
  <2>2. QueueInv
    BY <2>1, <1>q
  <2>3. Total' = Total /\ Before' = Before /\ lastBlock' - 1 = lastBlock
    BY <2>1, <1>t DEF Total, Before
  <2> QED  BY <2>1, <2>2, <2>3 DEF QueueInv, InBlock
<1>8. CASE TakeTx
  <2>1. /\ UNCHANGED <<batchNo, ipc, lastBlock, pos, crashes>>
        /\ bpc = "collect" /\ txChan # <<>>
        /\ txBuffer' = Append(txBuffer, Head(txChan))
        /\ txChan' = Tail(txChan) /\ totalGas' = totalGas + 1
    BY <1>8 DEF TakeTx, indexer, environ
  <2>2. QueueInv
    BY <2>1, <1>q
  <2>3. /\ Head(txChan) \in Tx /\ Head(txChan) = txChan[1] /\ Len(txChan) > 0
        /\ Len(txChan') = Len(txChan) - 1
        /\ \A i \in 1..(Len(txChan) - 1) : txChan'[i] = txChan[i + 1]
    BY <2>1, <1>t, HeadTailProperties, EmptySeq
  <2>4. /\ Len(txBuffer') = Len(txBuffer) + 1
        /\ txBuffer'[Len(txBuffer) + 1] = Head(txChan)
        /\ \A i \in 1..Len(txBuffer) : txBuffer'[i] = txBuffer[i]
    BY <2>1, <2>3, <1>t, AppendProperties
  <2>5. Before' = Before /\ Total' = Total
    BY <2>1, <2>3, <2>4, <1>t, <1>b DEF Total, Before
  <2>6. \A i \in 1..Len(txBuffer') : txBuffer'[i] = Before + i
    <3>1. txChan[1] = Before + Len(txBuffer) + 1
      BY <2>2, <2>3, <1>t DEF QueueInv
    <3>2. txBuffer'[Len(txBuffer) + 1] = Before + (Len(txBuffer) + 1)
      BY <2>3, <2>4, <3>1, <1>t, <1>b
    <3>3. \A i \in 1..Len(txBuffer') :
            i = Len(txBuffer) + 1 \/ i \in 1..Len(txBuffer)
      BY <2>4, <1>t
    <3> QED  BY <2>2, <2>4, <3>2, <3>3 DEF QueueInv
  <2>7. \A i \in 1..Len(txChan') : txChan'[i] = Before + Len(txBuffer') + i
    <3> SUFFICES ASSUME NEW i \in 1..Len(txChan')
                 PROVE  txChan'[i] = Before + Len(txBuffer') + i
      OBVIOUS
    <3>1. i \in Int /\ i \in 1..(Len(txChan) - 1) /\ i + 1 \in 1..Len(txChan)
      BY <2>3, <1>t
    <3>2. txChan'[i] = txChan[i + 1]
      BY <2>3, <3>1
    <3>3. txChan[i + 1] = Before + Len(txBuffer) + (i + 1)
      BY <2>2, <3>1 DEF QueueInv
    <3> QED  BY <2>4, <3>1, <3>2, <3>3, <1>t, <1>b
  <2>8. totalGas' = Len(txBuffer')
    BY <2>1, <2>2, <2>4 DEF QueueInv
  <2> QED  BY <2>1, <2>2, <2>5, <2>6, <2>7, <2>8 DEF QueueInv
<1>9. CASE FinishBatch
  <2>1. /\ UNCHANGED <<ipc, lastBlock, pos, txChan, crashes>> /\ bpc = "hash3"
        /\ batchNo' = batchNo + 1 /\ totalGas' = 0
        /\ txBuffer' = SubSeq(txBuffer, BatchSize + 1, Len(txBuffer))
    BY <1>9 DEF FinishBatch, indexer, environ
  <2>2. QueueInv
    BY <2>1, <1>q
  <2>3. Len(txBuffer) = BatchSize
    BY <2>1 DEF ChainInv, BufferInv, Working
  <2>4. txBuffer' = <<>> /\ Len(txBuffer') = 0
    BY <2>1, <2>3, <1>t, SubSeqEmpty
  <2>5. Before' = Before + BatchSize
    BY <2>1, <1>t DEF Before
  <2>6. Total' = Total
    BY <2>1, <2>3, <2>4, <2>5, <1>t, <1>b DEF Total
  <2>7. \A i \in 1..Len(txChan) : txChan[i] = Before' + Len(txBuffer') + i
    BY <2>2, <2>3, <2>4, <2>5, <1>t, <1>b DEF QueueInv
  <2>8. \A i \in 1..Len(txBuffer') : txBuffer'[i] = Before' + i
    BY <2>4
  <2> QED  BY <2>1, <2>2, <2>4, <2>6, <2>7, <2>8 DEF QueueInv
<1>10. CASE Crash
  BY <1>10 DEF Crash
<1> QED
  BY <1>1, <1>2, <1>3, <1>4, <1>5, <1>6, <1>7, <1>8, <1>9, <1>10
  DEF Next, Indexer, Builder

\* A full buffer whose transactions follow one another is a slice.
LEMMA BufferIsSlice ==
  ASSUME TypeOK, QueueInv, Len(txBuffer) = BatchSize
  PROVE  SubSeq(txBuffer, 1, BatchSize) = Slice(batchNo)
<1>1. txBuffer \in Seq(Tx) /\ SubSeq(txBuffer, 1, BatchSize) = txBuffer
  BY SubSeqFull DEF TypeOK, BuilderOK
<1>2. txBuffer \in [1..BatchSize -> Tx]
  BY <1>1, LenProperties
<1>3. \A i \in 1..BatchSize : txBuffer[i] = (batchNo - 1) * BatchSize + i
  BY DEF QueueInv, Before
<1> QED  BY <1>1, <1>2, <1>3 DEF Slice

\* Every step keeps SliceInv.
LEMMA SliceStep ==
  ASSUME TypeOK, ChainInv, HoldInv, FreshInv, FlowInv, [Next]_vars,
         bpc' # "down", crashes' = 0
  PROVE  SliceInv'
<1>b. batch \in Batch
  BY DEF TypeOK, BuilderOK
<1>q. ASSUME bpc # "down", UNCHANGED crashes
      PROVE  QueueInv /\ SliceInv
  BY <1>q DEF FlowInv
<1>n. \A n : Slice(n)' = Slice(n)
  BY DEF Slice
<1>1. CASE LoadGenesis \/ PutGenesisRoot \/ SkipGenesis
  <2>1. bpc = "down" /\ UNCHANGED bpc
    BY <1>1 DEF LoadGenesis, PutGenesisRoot, SkipGenesis, HoldInv, DownInv,
       builder
  <2> QED  BY <2>1
<1>2. CASE LoadProgress
  <2>1. dbBatch' = EmptyDB /\ bpc' = "collect"
    BY <1>2 DEF LoadProgress, HoldInv, DownInv, FreshInv, environ, durable,
       batchKeys
  <2> QED
    BY <2>1 DEF SliceInv, InOrderExactlyOnce, EmptyDB, Working
<1>3. CASE \/ UpdateSender \/ UpdateRecipient \/ RejectTransaction \/ StoreTx
           \/ FetchBlock \/ SendTx \/ CommitBlock \/ NewBlock \/ LostAnswer
           \/ UNCHANGED vars
  <2>1. UNCHANGED <<bpc, batchNo, batch, dbBatch, crashes>>
    BY <1>3 DEF UpdateSender, UpdateRecipient, RejectTransaction, StoreTx,
       FetchBlock, SendTx, CommitBlock, NewBlock, LostAnswer, vars, builder,
       environ, durable, batchKeys
  <2> QED  BY <2>1, <1>q, <1>n DEF SliceInv, InOrderExactlyOnce
<1>4. CASE TakeTx \/ CollectTimeout \/ SavePartial \/ FinishBatch
           \/ ProverError
  <2>1. bpc # "down" /\ bpc' \notin Working /\ UNCHANGED <<dbBatch, crashes>>
    BY <1>4 DEF TakeTx, CollectTimeout, SavePartial, FinishBatch,
       ProverError, durable, batchKeys, environ, Working
  <2> QED  BY <2>1, <1>q, <1>n DEF SliceInv, InOrderExactlyOnce
<1>5. CASE CreateBatch
  <2>1. /\ bpc = "create" /\ UNCHANGED <<dbBatch, batchNo, crashes>>
        /\ batch'.txs = SubSeq(txBuffer, 1, BatchSize)
        /\ batch'.gas = totalGas
    BY <1>5 DEF CreateBatch, durable, batchKeys, environ
  <2>2. Len(txBuffer) = BatchSize
    BY <2>1 DEF ChainInv, BufferInv
  <2>3. QueueInv /\ SliceInv
    BY <2>1, <1>q
  <2>4. batch'.txs = Slice(batchNo) /\ batch'.gas = BatchSize
    BY <2>1, <2>2, <2>3, BufferIsSlice DEF QueueInv
  <2> QED  BY <2>1, <2>3, <2>4, <1>n DEF SliceInv, InOrderExactlyOnce
<1>6. CASE SubmitToDA \/ BlobError \/ PutHash \/ SubmitBatchMetadata
           \/ ProverGenerate \/ PutProof \/ SubmitBatch
  <2>1. /\ bpc \in Working /\ bpc # "down"
        /\ UNCHANGED <<dbBatch, batchNo, crashes>>
        /\ batch'.txs = batch.txs /\ batch'.gas = batch.gas
    BY <1>6, <1>b DEF SubmitToDA, BlobError, PutHash, SubmitBatchMetadata,
       ProverGenerate, PutProof, SubmitBatch, durable, batchKeys, environ,
       builder, Working, Batch
  <2> QED  BY <2>1, <1>q, <1>n DEF SliceInv, InOrderExactlyOnce
<1>7. CASE PutBatch
  <2>1. /\ bpc \in Working /\ bpc # "down"
        /\ UNCHANGED <<batch, batchNo, crashes>>
        /\ dbBatch' = Put(dbBatch, batch.no, batch)
    BY <1>7 DEF PutBatch, environ, Working
  <2>2. batch.no = batchNo /\ SliceInv
    BY <2>1, <1>q DEF ChainInv, BuilderInv
  <2>3. /\ DOMAIN dbBatch' = DOMAIN dbBatch \cup {batchNo}
        /\ dbBatch'[batchNo] = batch
        /\ \A n \in DOMAIN dbBatch : n # batchNo => dbBatch'[n] = dbBatch[n]
    BY <2>1, <2>2 DEF Put
  <2>4. \A n \in DOMAIN dbBatch' :
          dbBatch'[n].txs = Slice(n) /\ dbBatch'[n].gas = BatchSize
    BY <2>1, <2>2, <2>3 DEF SliceInv, InOrderExactlyOnce
  <2> QED  BY <2>1, <2>2, <2>4, <1>n DEF SliceInv, InOrderExactlyOnce
<1>8. CASE Crash
  BY <1>8 DEF Crash
<1> QED
  BY <1>1, <1>2, <1>3, <1>4, <1>5, <1>6, <1>7, <1>8
  DEF Next, Indexer, Builder

LEMMA FlowStep ==
  TypeOK /\ ChainInv /\ HoldInv /\ PlaceInv /\ FreshInv /\ FlowInv
    /\ [Next]_vars => FlowInv'
BY QueueStep, SliceStep DEF FlowInv

(***************************************************************************)
(* Every step keeps OnceInv and AgainInv.                                  *)
(***************************************************************************)
LEMMA OnceStep ==
  TypeOK /\ ChainInv /\ HoldInv /\ FreshInv /\ OnceInv /\ [Next]_vars
    => OnceInv'
<1> SUFFICES ASSUME TypeOK, ChainInv, HoldInv, FreshInv, OnceInv, [Next]_vars,
                    crashes' = 0
             PROVE  OnceInv'
  BY DEF OnceInv
<1>b. batch \in Batch /\ batchNo \in Nat
  BY DEF TypeOK, BuilderOK
<1>1. CASE Crash
  BY <1>1 DEF Crash, TypeOK, EnvironOK
<1>2. CASE LoadProgress
  BY <1>2 DEF LoadProgress, HoldInv, DownInv, FreshInv, OnceInv,
     NoEquivocation, environ, services
<1>3. CASE \/ LoadGenesis \/ PutGenesisRoot \/ SkipGenesis \/ FetchBlock
           \/ UpdateSender \/ UpdateRecipient \/ RejectTransaction \/ StoreTx
           \/ SendTx \/ CommitBlock \/ NewBlock \/ UNCHANGED vars
  <2>1. UNCHANGED <<settled, bpc, batchNo, batch, crashes>>
    BY <1>3 DEF LoadGenesis, PutGenesisRoot, SkipGenesis, FetchBlock,
       UpdateSender, UpdateRecipient, RejectTransaction, StoreTx, SendTx,
       CommitBlock, NewBlock, vars, services, builder, environ
  <2> QED
    BY <2>1 DEF OnceInv, NoEquivocation, SettlementOf, CurrentHash, HashOf
<1>4. CASE \/ TakeTx \/ CollectTimeout \/ SavePartial \/ CreateBatch
           \/ SubmitToDA \/ BlobError \/ PutHash \/ SubmitBatchMetadata
           \/ ProverGenerate \/ ProverError \/ PutProof
  <2>1. /\ bpc \notin {"settle", "save3", "hash3"}
        /\ UNCHANGED <<settled, batchNo, crashes>>
    BY <1>4 DEF TakeTx, CollectTimeout, SavePartial, CreateBatch, SubmitToDA,
       BlobError, PutHash, SubmitBatchMetadata, ProverGenerate, ProverError,
       PutProof, services, environ, builder
  <2> QED  BY <2>1 DEF OnceInv, NoEquivocation
<1>5. CASE PutBatch
  <2>1. /\ bpc \in {"settle", "save3", "hash3"} =>
             bpc' \in {"settle", "save3", "hash3"}
        /\ UNCHANGED <<settled, batchNo, batch, crashes>>
    BY <1>5 DEF PutBatch, services, environ
  <2> QED
    BY <2>1 DEF OnceInv, NoEquivocation, SettlementOf, CurrentHash, HashOf
<1>6. CASE FinishBatch
  <2>1. batchNo' = batchNo + 1 /\ UNCHANGED <<settled, crashes>>
    BY <1>6 DEF FinishBatch, services, environ
  <2>2. \A s \in settled : s.no \in Nat
    BY DEF TypeOK, ServicesOK
  <2>3. \A s \in settled : s.no < batchNo'
    BY <2>1, <2>2, <1>b DEF OnceInv
  <2> QED  BY <2>1, <2>3 DEF OnceInv, NoEquivocation
<1>7. ASSUME bpc = "settle", bpc' \in {"settle", "save3"},
             settled' \in {settled, settled \cup {SettlementOf(batch)}},
             SettlementOf(batch') = SettlementOf(batch),
             UNCHANGED <<batchNo, crashes>>
      PROVE  OnceInv'
  <2>1. SettlementOf(batch).no = batchNo
    BY <1>7 DEF SettlementOf, ChainInv, BuilderInv, Working
  <2>2. \A s \in settled' : \/ s.no < batchNo
                            \/ s.no = batchNo /\ s = SettlementOf(batch)
    BY <1>7, <2>1 DEF OnceInv
  <2>3. \A s, t \in settled' : s.no = t.no => s = t
    <3> SUFFICES ASSUME NEW s \in settled', NEW t \in settled', s.no = t.no
                 PROVE  s = t
      OBVIOUS
    <3>1. CASE s.no < batchNo
      <4>1. s \in settled /\ t \in settled
        BY <1>7, <1>b, <2>1, <3>1
      <4> QED  BY <1>7, <4>1 DEF OnceInv, NoEquivocation
    <3>2. CASE ~(s.no < batchNo)
      BY <2>2, <3>2
    <3> QED  BY <3>1, <3>2
  <2>4. SettlementOf(batch)' = SettlementOf(batch')
    BY DEF SettlementOf, CurrentHash, HashOf
  <2> QED  BY <1>7, <2>2, <2>3, <2>4 DEF OnceInv, NoEquivocation
<1>8. CASE SubmitBatch
  <2>1. /\ bpc = "settle" /\ bpc' = "save3"
        /\ settled' = settled \cup {SettlementOf(batch)}
        /\ UNCHANGED <<batchNo, crashes>>
        /\ batch' = [batch EXCEPT !.verified = TRUE]
    BY <1>8 DEF SubmitBatch, environ
  <2>2. SettlementOf(batch') = SettlementOf(batch)
    BY <2>1, <1>b DEF SettlementOf, CurrentHash, HashOf, Batch
  <2> QED  BY <2>1, <2>2, <1>7
<1>9. CASE LostAnswer
  <2>1. /\ UNCHANGED <<bpc, batchNo, batch, crashes>>
        /\ \/ UNCHANGED settled
           \/ bpc = "settle" /\ settled' = settled \cup {SettlementOf(batch)}
    BY <1>9 DEF LostAnswer, builder
  <2>2. CASE UNCHANGED settled
    BY <2>1, <2>2
    DEF OnceInv, NoEquivocation, SettlementOf, CurrentHash, HashOf
  <2>3. CASE bpc = "settle" /\ settled' = settled \cup {SettlementOf(batch)}
    BY <2>1, <2>3, <1>7
  <2> QED  BY <2>1, <2>2, <2>3
<1> QED
  BY <1>1, <1>2, <1>3, <1>4, <1>5, <1>6, <1>8, <1>9
  DEF Next, Indexer, Builder

LEMMA AgainStep ==
  TypeOK /\ ChainInv /\ ChainInv' /\ FlagInv /\ HoldInv /\ FreshInv /\ AgainInv
    /\ [Next]_vars => AgainInv'
<1> SUFFICES ASSUME TypeOK, ChainInv, ChainInv', FlagInv, HoldInv, FreshInv,
                    AgainInv, [Next]_vars, crashes' = 0,
                    bpc' \notin {"down", "hash3"}, batchNo' \in DOMAIN dbBatch'
             PROVE  ~dbBatch'[batchNo'].verified
  BY DEF AgainInv
<1>1. CASE Crash
  BY <1>1 DEF Crash
<1>2. CASE LoadProgress
  BY <1>2 DEF LoadProgress, HoldInv, DownInv, FreshInv, environ, durable,
     batchKeys, EmptyDB
<1>3. CASE \/ LoadGenesis \/ PutGenesisRoot \/ SkipGenesis \/ FetchBlock
           \/ UpdateSender \/ UpdateRecipient \/ RejectTransaction \/ StoreTx
           \/ SendTx \/ CommitBlock \/ NewBlock \/ LostAnswer
           \/ UNCHANGED vars
  <2>1. UNCHANGED <<dbBatch, bpc, batchNo, crashes>>
    BY <1>3 DEF LoadGenesis, PutGenesisRoot, SkipGenesis, FetchBlock,
       UpdateSender, UpdateRecipient, RejectTransaction, StoreTx, SendTx,
       CommitBlock, NewBlock, LostAnswer, vars, durable, batchKeys, builder,
       environ
  <2> QED  BY <2>1 DEF AgainInv
<1>4. CASE \/ TakeTx \/ CollectTimeout \/ SavePartial \/ CreateBatch
           \/ SubmitToDA \/ BlobError \/ PutHash \/ SubmitBatchMetadata
           \/ ProverGenerate \/ ProverError \/ PutProof \/ SubmitBatch
  <2>1. /\ bpc \notin {"down", "hash3"}
        /\ UNCHANGED <<dbBatch, batchNo, crashes>>
    BY <1>4 DEF TakeTx, CollectTimeout, SavePartial, CreateBatch, SubmitToDA,
       BlobError, PutHash, SubmitBatchMetadata, ProverGenerate, ProverError,
       PutProof, SubmitBatch, durable, batchKeys, environ, builder
  <2> QED  BY <2>1 DEF AgainInv
<1>5. CASE PutBatch
  <2>1. /\ bpc \in {"save1", "save2"} /\ UNCHANGED batchNo
        /\ dbBatch' = Put(dbBatch, batch.no, batch)
    BY <1>5 DEF PutBatch
  <2>2. batch.no = batchNo /\ ~batch.verified
    BY <2>1 DEF ChainInv, BuilderInv, FlagInv, ServiceInv, HandInv, Working,
       Reported
  <2> QED  BY <2>1, <2>2 DEF Put
<1>6. CASE FinishBatch
  <2>1. batchNo' = batchNo + 1 /\ bpc = "hash3" /\ UNCHANGED <<dbBatch, dbPartial>>
    BY <1>6 DEF FinishBatch
  <2>2. batchNo = RestartBatch /\ DOMAIN dbBatch \subseteq 1..RestartBatch
    BY <2>1 DEF ChainInv, BuilderInv, StoreInv, Working
  <2>3. RestartBatch \in Nat
    BY RestartBatchTyped
  <2> QED  BY <2>1, <2>2, <2>3
<1> QED
  BY <1>1, <1>2, <1>3, <1>4, <1>5, <1>6 DEF Next, Indexer, Builder

(***************************************************************************)
(* How many transactions have been sent follows from where the indexer is. *)
(***************************************************************************)
Reached == IF ipc \in InBlock THEN pos - 1
           ELSE IF ipc = "commit" THEN TxsUpTo[lastBlock]
           ELSE TxsUpTo[lastBlock - 1]

LEMMA TotalPlaced ==
  TypeOK /\ DownInv /\ QueueInv /\ bpc # "down"
    => /\ Total = Reached /\ Reached \in Int
       /\ Len(txBuffer) \in Nat /\ Len(txChan) \in Nat /\ Before \in Int
       /\ Total = Before + Len(txBuffer) + Len(txChan)
<1> SUFFICES ASSUME TypeOK, DownInv, QueueInv, bpc # "down"
             PROVE  /\ Total = Reached /\ Reached \in Int
                    /\ Len(txBuffer) \in Nat /\ Len(txChan) \in Nat
                    /\ Before \in Int
                    /\ Total = Before + Len(txBuffer) + Len(txChan)
  OBVIOUS
<1>1. /\ batchNo \in Nat /\ BatchSize \in Nat
      /\ Len(txBuffer) \in Nat /\ Len(txChan) \in Nat /\ pos \in Nat
  BY PipelineAssumption, LenProperties DEF TypeOK, BuilderOK, IndexerOK
<1>2. /\ Before \in Int /\ Total \in Int
      /\ Total = Before + Len(txBuffer) + Len(txChan)
  BY <1>1 DEF Before, Total
<1>3. ipc \in {"fetch", "commit"} \cup InBlock
  BY DEF DownInv, TypeOK, IndexerOK
<1>4. CASE ipc \in InBlock
  BY <1>1, <1>2, <1>4 DEF QueueInv, Reached
<1>5. CASE ipc \in {"fetch", "commit"}
  BY <1>2, <1>5 DEF QueueInv, Reached, InBlock
<1> QED  BY <1>1, <1>2, <1>3, <1>4, <1>5

(***************************************************************************)
(* Every step keeps LeadInv.  The state database runs ahead of the batch   *)
(* in work by what is in the channel and in the hands of the indexer; the  *)
(* root of the batch is the state when the batch is created.               *)
(***************************************************************************)
LEMMA LeadStep ==
  ASSUME TypeOK, TypeOK', ChainInv, HoldInv, HoldInv', FreshInv, FlowInv,
         FlowInv', LeadInv, [Next]_vars, bpc' # "down", crashes' = 0
  PROVE  LeadInv'
<1>t. /\ batch \in Batch /\ batchNo \in Nat /\ evm \in Seq(Write)
      /\ BatchSize \in Nat /\ ChanCap \in Nat
  BY PipelineAssumption DEF TypeOK, BuilderOK, DurableOK, Root
<1>p. Total' = Reached'
  <2>1. (TypeOK /\ DownInv /\ QueueInv /\ bpc # "down" => Total = Reached)'
    BY TotalPlaced, PTL
  <2> QED  BY <2>1 DEF FlowInv, HoldInv
<1>q. ASSUME bpc # "down", UNCHANGED crashes
      PROVE  /\ QueueInv /\ Total = Reached /\ Reached \in Int
             /\ Len(txBuffer) \in Nat /\ Len(txChan) \in Nat
             /\ Total = Before + Len(txBuffer) + Len(txChan) /\ Before \in Int
             /\ Sent(evm) \subseteq 1..Applied
             /\ "reject" \notin FaultKinds => 1..Applied \subseteq Sent(evm)
             /\ bpc \in Working => Covers(batch.post, batchNo)
             /\ LeadBounded
  BY <1>q, TotalPlaced DEF FlowInv, HoldInv, LeadInv
<1>e. \A r : Sent(r)' = Sent(r')
  BY DEF Sent
<1>a. ASSUME Covers(batch.post, batchNo)' \/ bpc' \notin Working,
             LeadBounded', Sent(evm') \subseteq 1..(Applied'),
             "reject" \notin FaultKinds => 1..(Applied') \subseteq Sent(evm')
      PROVE  LeadInv'
  BY <1>a, <1>e DEF LeadInv
\* The steps that write neither the state nor a batch.
<1>f. ASSUME bpc # "down", UNCHANGED <<evm, dbBatch, crashes>>,
             Applied' = Applied,
             \/ bpc' \notin Working
             \/ bpc \in Working /\ UNCHANGED batchNo /\ batch'.post = batch.post
      PROVE  LeadInv'
  <2>1. LeadBounded'
    BY <1>q, <1>f, <1>e DEF LeadBounded
  <2>2. Covers(batch.post, batchNo)' \/ bpc' \notin Working
    BY <1>q, <1>f, <1>e DEF Covers
  <2>3. /\ Sent(evm') \subseteq 1..(Applied')
        /\ "reject" \notin FaultKinds => 1..(Applied') \subseteq Sent(evm')
    BY <1>q, <1>f
  <2> QED  BY <1>a, <2>1, <2>2, <2>3
<1>1. CASE LoadGenesis \/ PutGenesisRoot \/ SkipGenesis
  <2>1. bpc = "down" /\ UNCHANGED bpc
    BY <1>1 DEF LoadGenesis, PutGenesisRoot, SkipGenesis, HoldInv, DownInv,
       builder
  <2> QED  BY <2>1
<1>2. CASE LoadProgress
  <2>1. /\ dbPartial = NoPartial /\ dbBatch' = EmptyDB
        /\ Sent(evm) = {} /\ evm' = evm
    BY <1>2 DEF LoadProgress, HoldInv, DownInv, FreshInv, environ, durable,
       batchKeys, chainKeys
  <2>2. /\ batchNo' = 1 /\ txBuffer' = <<>> /\ txChan' = <<>>
        /\ ipc' = "fetch" /\ bpc' = "collect"
    BY <1>2, <2>1 DEF LoadProgress, RestartBatch, NoPartial
  <2>3. Applied' = 0
    BY <2>2, <1>t DEF Applied, Total, Before
  <2> QED
    BY <1>a, <2>1, <2>2, <2>3 DEF LeadBounded, EmptyDB, Working
<1>3. CASE FetchBlock \/ StoreTx
  <2>1. /\ UNCHANGED <<evm, dbBatch, crashes, bpc, batch, batchNo, txBuffer,
                       txChan>>
        /\ \/ ipc = "fetch" /\ ipc' \in {"commit", "from"}
           \/ ipc = "store" /\ ipc' = "send"
    BY <1>3 DEF FetchBlock, StoreTx, durable, chainKeys, batchKeys, builder,
       environ
  <2>2. Applied' = Applied
    BY <2>1 DEF Applied, Total, Before
  <2> QED  BY <2>1, <2>2, <1>f
<1>4. CASE UpdateRecipient
  <2>1. /\ UNCHANGED <<dbBatch, crashes, bpc, batch, batchNo, txBuffer, txChan>>
        /\ ipc = "to" /\ ipc' = "store" /\ pos \in Nat
        /\ evm' = Append(evm, [op |-> "to", tx |-> pos])
    BY <1>4 DEF UpdateRecipient, batchKeys, builder, environ, TypeOK,
       IndexerOK
  <2>2. Sent(evm') = Sent(evm)
    BY <2>1, <1>t, SentGrown DEF Write
  <2>3. Applied' = Applied
    BY <2>1 DEF Applied, Total, Before
  <2>4. LeadBounded' /\ (Covers(batch.post, batchNo)' \/ bpc' \notin Working)
    BY <2>1, <1>q, <1>e DEF LeadBounded, Covers
  <2> QED  BY <1>a, <1>q, <2>1, <2>2, <2>3, <2>4
<1>5. CASE UpdateSender
  <2>1. /\ UNCHANGED <<dbBatch, crashes, bpc, batch, batchNo, txBuffer, txChan>>
        /\ ipc = "from" /\ ipc' = "to" /\ pos \in Nat /\ pos > 0
        /\ evm' = Append(evm, [op |-> "from", tx |-> pos])
    BY <1>5, PipelineAssumption DEF UpdateSender, batchKeys, builder, environ,
       TypeOK, IndexerOK, InBlock, Tx
  <2>2. bpc # "down"
    BY <2>1
  <2>3. Sent(evm') = Sent(evm) \cup {pos}
    BY <2>1, <1>t, SentGrown DEF Write
  <2>4. Total' = Total
    BY <2>1 DEF Total, Before
  <2>5. Applied = Total /\ Applied' = Total + 1 /\ pos = Total + 1
    BY <2>1, <2>2, <2>4, <1>q DEF Applied, QueueInv, InBlock
  <2>6. Total \in Int /\ Total >= 0
    BY <2>1, <2>2, <2>5, <1>q
  <2>7. 1..(Total + 1) = 1..Total \cup {Total + 1}
    BY <2>6
  <2>8. LeadBounded' /\ (Covers(batch.post, batchNo)' \/ bpc' \notin Working)
    BY <2>1, <1>q, <1>e DEF LeadBounded, Covers
  <2>9. /\ Sent(evm') \subseteq 1..(Applied')
        /\ "reject" \notin FaultKinds => 1..(Applied') \subseteq Sent(evm')
    BY <2>1, <2>2, <2>3, <2>5, <2>7, <1>q
  <2> QED  BY <1>a, <2>8, <2>9
<1>6. CASE RejectTransaction
  <2>1. /\ UNCHANGED <<evm, dbBatch, crashes, bpc, batch, batchNo, txBuffer,
                       txChan>>
        /\ ipc = "from" /\ ipc' = "store" /\ "reject" \in FaultKinds
    BY <1>6 DEF RejectTransaction, durable, chainKeys, batchKeys, builder
  <2>2. bpc # "down"
    BY <2>1
  <2>3. Total' = Total
    BY <2>1 DEF Total, Before
  <2>4. Applied = Total /\ Applied' = Total + 1 /\ Total \in Int
    BY <2>1, <2>2, <2>3, <1>q DEF Applied
  <2>5. 1..Total \subseteq 1..(Total + 1)
    BY <2>4
  <2>6. LeadBounded' /\ (Covers(batch.post, batchNo)' \/ bpc' \notin Working)
    BY <2>1, <1>q, <1>e DEF LeadBounded, Covers
  <2> QED  BY <1>a, <1>q, <2>1, <2>2, <2>4, <2>5, <2>6
<1>7. CASE SendTx
  <2>1. /\ UNCHANGED <<evm, dbBatch, crashes, bpc, batch, batchNo, txBuffer>>
        /\ ipc = "send" /\ ipc' \in {"commit", "from"}
        /\ txChan' = Append(txChan, pos) /\ pos \in Tx
    BY <1>7 DEF SendTx, durable, chainKeys, batchKeys, builder, environ,
       TypeOK, IndexerOK, InBlock
  <2>2. bpc # "down"
    BY <2>1
  <2>3. Len(txChan') = Len(txChan) + 1
    BY <2>1, AppendProperties DEF TypeOK
  <2>4. Total' = Total + 1
    BY <2>1, <2>2, <2>3, <1>q DEF Total, Before
  <2>5. Applied' = Applied
    BY <2>1, <2>4 DEF Applied
  <2> QED  BY <2>1, <2>2, <2>5, <1>f
<1>8. CASE CommitBlock
  <2>1. /\ UNCHANGED <<evm, dbBatch, crashes, bpc, batch, batchNo, txBuffer,
                       txChan>>
        /\ ipc = "commit" /\ ipc' = "fetch"
    BY <1>8 DEF CommitBlock, batchKeys, builder, environ
  <2>2. Applied' = Applied
    BY <2>1 DEF Applied, Total, Before
  <2> QED  BY <2>1, <2>2, <1>f
<1>9. CASE NewBlock \/ UNCHANGED vars
  <2>1. UNCHANGED <<evm, dbBatch, crashes, bpc, batch, batchNo, txBuffer,
                    txChan, ipc>>
    BY <1>9 DEF NewBlock, vars, durable, chainKeys, batchKeys, builder,
       environ, indexer
  <2>2. Applied' = Applied
    BY <2>1 DEF Applied, Total, Before
  <2> QED  BY <2>1, <2>2, <1>f
<1>10. ASSUME Builder
       PROVE  bpc # "down" /\ UNCHANGED <<crashes, evm>> /\ Applied' = Applied
  <2>1. bpc # "down" /\ UNCHANGED <<crashes, evm>>
    BY <1>10, BuilderIsUp
  <2>2. UNCHANGED <<ipc, lastBlock, pos>>
    BY <1>10 DEF Builder, TakeTx, CollectTimeout, SavePartial, CreateBatch,
       SubmitToDA, BlobError, PutBatch, PutHash, FinishBatch,
       SubmitBatchMetadata, ProverGenerate, ProverError, PutProof,
       SubmitBatch, LostAnswer, indexer
  <2>3. Total' = Total
    BY <2>1, <2>2, <1>p, <1>q DEF Reached
  <2> QED  BY <2>1, <2>2, <2>3 DEF Applied
<1>11. CASE TakeTx \/ CollectTimeout \/ SavePartial \/ FinishBatch
            \/ ProverError
  <2>1. bpc' \notin Working /\ UNCHANGED dbBatch
    BY <1>11 DEF TakeTx, CollectTimeout, SavePartial, FinishBatch,
       ProverError, durable, batchKeys, Working
  <2> QED  BY <2>1, <1>10, <1>11, <1>f DEF Builder
<1>12. CASE CreateBatch
  <2>1. /\ bpc = "create" /\ bpc' = "da"
        /\ UNCHANGED <<dbBatch, batchNo, txBuffer>> /\ batch'.post = evm
    BY <1>12 DEF CreateBatch, durable, batchKeys, GetAllAccounts
  <2>2. bpc # "down" /\ UNCHANGED <<crashes, evm>> /\ Applied' = Applied
    BY <1>10, <1>12 DEF Builder
  <2>3. Len(txBuffer) = BatchSize
    BY <2>1 DEF ChainInv, BufferInv
  <2>4. Len(txChan) <= ChanCap
    BY DEF HoldInv, DownInv
  <2>5. Before + BatchSize = batchNo * BatchSize
    BY <1>t DEF Before
  <2>6. batchNo * BatchSize \in Int
    BY <1>t
  <2> DEFINE covered == batchNo * BatchSize
  <2> HIDE DEF covered
  <2>7. Total = covered + Len(txChan)
    BY <2>2, <2>3, <2>5, <1>q, <1>t DEF covered
  <2>8. /\ Applied \in Int /\ covered \in Int
        /\ covered <= Applied /\ Applied <= covered + ChanCap + 1
    BY <2>2, <2>4, <2>6, <2>7, <1>q, <1>t DEF Applied, covered
  <2>9. 1..covered \subseteq 1..Applied
        /\ 1..Applied \subseteq 1..(covered + ChanCap + 1)
    BY <2>8, <1>t
  <2>10. Covers(batch.post, batchNo)'
    BY <2>1, <2>2, <2>9, <1>q, <1>e DEF Covers, covered
  <2>11. LeadBounded'
    BY <2>1, <2>2, <1>q, <1>e DEF LeadBounded
  <2> QED  BY <1>a, <1>q, <2>2, <2>10, <2>11
<1>13. CASE SubmitToDA \/ BlobError \/ PutHash \/ SubmitBatchMetadata
            \/ ProverGenerate \/ PutProof \/ SubmitBatch \/ LostAnswer
  <2>1. /\ UNCHANGED <<dbBatch, batchNo>> /\ batch'.post = batch.post
        /\ bpc \in Working
    BY <1>13, <1>t DEF SubmitToDA, BlobError, PutHash, SubmitBatchMetadata,
       ProverGenerate, PutProof, SubmitBatch, LostAnswer, durable, batchKeys,
       builder, Working, Batch
  <2> QED  BY <2>1, <1>10, <1>13, <1>f DEF Builder
<1>14. CASE PutBatch
  <2>1. /\ bpc \in Working /\ UNCHANGED <<batch, batchNo>>
        /\ dbBatch' = Put(dbBatch, batch.no, batch)
    BY <1>14 DEF PutBatch, Working
  <2>2. bpc # "down" /\ UNCHANGED <<crashes, evm>> /\ Applied' = Applied
    BY <1>10, <1>14 DEF Builder
  <2>3. batch.no = batchNo /\ Covers(batch.post, batchNo) /\ LeadBounded
    BY <2>1, <2>2, <1>q DEF ChainInv, BuilderInv
  <2>4. /\ DOMAIN dbBatch' = DOMAIN dbBatch \cup {batchNo}
        /\ dbBatch'[batchNo] = batch
        /\ \A n \in DOMAIN dbBatch : n # batchNo => dbBatch'[n] = dbBatch[n]
    BY <2>1, <2>3 DEF Put
  <2>5. \A n \in DOMAIN dbBatch' : Covers(dbBatch'[n].post, n)
    BY <2>3, <2>4 DEF LeadBounded, Covers
  <2>6. LeadBounded'
    BY <2>5, <1>e DEF LeadBounded, Covers
  <2>7. Covers(batch.post, batchNo)'
    BY <2>1, <2>3, <1>e DEF Covers
  <2> QED  BY <1>a, <1>q, <2>2, <2>6, <2>7
<1>15. CASE Crash
  BY <1>15 DEF Crash
<1> QED
  BY <1>1, <1>2, <1>3, <1>4, <1>5, <1>6, <1>7, <1>8, <1>9, <1>11, <1>12,
     <1>13, <1>14, <1>15
  DEF Next, Indexer, Builder

(***************************************************************************)
(* The invariants together.                                                *)
(***************************************************************************)
NormalInv == FreshInv /\ FlowInv /\ OnceInv /\ AgainInv /\ LeadInv

LEMMA NormalCorrect == Spec => []NormalInv
<1>1. Init => NormalInv
  <2> SUFFICES ASSUME Init PROVE NormalInv
    OBVIOUS
  <2>1. FreshInv
    BY DEF Init, FreshInv, Sent
  <2>2. FlowInv /\ OnceInv /\ AgainInv /\ LeadInv
    BY DEF Init, FlowInv, OnceInv, NoEquivocation, AgainInv, LeadInv
  <2> QED  BY <2>1, <2>2 DEF NormalInv
<1>2. TypeOK /\ TypeOK' /\ ChainInv /\ ChainInv' /\ FlagInv /\ HoldInv
        /\ HoldInv' /\ PlaceInv /\ NormalInv /\ [Next]_vars => NormalInv'
  <2> SUFFICES ASSUME TypeOK, TypeOK', ChainInv, ChainInv', FlagInv, HoldInv,
                      HoldInv', PlaceInv, NormalInv, [Next]_vars
               PROVE  NormalInv'
    OBVIOUS
  <2> USE DEF NormalInv
  <2>1. FreshInv'
    BY FreshStep DEF HoldInv
  <2>2. FlowInv'
    BY FlowStep
  <2>3. OnceInv' /\ AgainInv'
    BY OnceStep, AgainStep
  <2>4. LeadInv'
    BY <2>2, LeadStep DEF LeadInv
  <2> QED  BY <2>1, <2>2, <2>3, <2>4
<1>3. Init => PlaceInv
  BY DEF Init, PlaceInv, InBlock
<1> QED
  BY <1>1, <1>2, <1>3, PlaceStep, TypeCorrect, ChainCorrect, FlagCorrect,
     HoldCorrect, PTL DEF Spec

(***************************************************************************)
(* Until the first crash every stored batch n holds the n-th slice of the  *)
(* chain, each transaction once and in block order, with its gas, whatever *)
(* else fails: the channel and the buffer lose and swap nothing.           *)
(***************************************************************************)
THEOREM InOrderCorrect == Spec => [](crashes = 0 => InOrderExactlyOnce)
<1>1. NormalInv => (crashes = 0 => InOrderExactlyOnce)
  BY DEF NormalInv, FreshInv, FlowInv, SliceInv, InOrderExactlyOnce, EmptyDB
<1> QED  BY <1>1, NormalCorrect, PTL

(***************************************************************************)
(* Until the first crash Junction never sees two roots for one batch       *)
(* number, whatever answers are lost and proofs fail: once a batch has     *)
(* been sent to Junction, the builder does not create it again.            *)
(***************************************************************************)
THEOREM NoEquivocationCorrect == Spec => [](crashes = 0 => NoEquivocation)
<1>1. NormalInv => (crashes = 0 => NoEquivocation)
  BY DEF NormalInv, OnceInv
<1> QED  BY <1>1, NormalCorrect, PTL

(***************************************************************************)
(* Until the first crash the post-state root of a stored batch covers its  *)
(* transactions, but for the rejected ones, and at most ChanCap + 1 more:  *)
(* what CreateBatch reads from the state database while the indexer goes   *)
(* on writing it.                                                          *)
(***************************************************************************)
THEOREM LeadBoundedCorrect == Spec => [](crashes = 0 => LeadBounded)
<1>1. NormalInv => (crashes = 0 => LeadBounded)
  BY DEF NormalInv, FreshInv, LeadInv, LeadBounded, EmptyDB
<1> QED  BY <1>1, NormalCorrect, PTL

(***************************************************************************)
(* In a system that does not crash the batch store is the strict ledger:   *)
(* entry n is published with the n-th slice of the chain, and a failed     *)
(* proof, which sends the builder back to CreateBatch, makes it again with *)
(* the same transactions and only while it is not verified.                *)
(***************************************************************************)
THEOREM ImplementsStrictLedgerCorrect ==
  ASSUME MaxCrashes = 0
  PROVE  Spec => ImplementsStrictLedger
<1>1. TypeOK /\ TypeOK' /\ ChainInv /\ ChainInv' /\ FlagInv /\ HoldInv
        /\ StoredInv /\ NormalInv /\ [Next]_vars
      => [Ledger!StrictNext]_StoredLedger
  <2> SUFFICES ASSUME TypeOK, TypeOK', ChainInv, ChainInv', FlagInv, HoldInv,
                      StoredInv, NormalInv, [Next]_vars
               PROVE  [Ledger!StrictNext]_StoredLedger
    OBVIOUS
  <2>1. crashes = 0
    BY DEF TypeOK, EnvironOK
  <2>2. CASE PutBatch /\ bpc = "save1"
    <3>1. batch.txs = Slice(batchNo) /\ InOrderExactlyOnce
      BY <2>1, <2>2 DEF NormalInv, FlowInv, SliceInv, Working
    <3>2. CASE batchNo \notin DOMAIN dbBatch
      <4>1. Ledger!Publish(batch.txs) /\ Len(StoredLedger) + 1 = batchNo
        BY <2>2, <3>2, FirstSave DEF HoldInv
      <4> QED  BY <3>1, <4>1 DEF Ledger!StrictNext
    <3>3. CASE batchNo \in DOMAIN dbBatch
      <4>1. /\ Ledger!Reopen(batch.txs) /\ StoredLedger # <<>>
            /\ Ledger!Last = EntryOf(dbBatch[batchNo])
        BY <2>2, <3>3, FirstSave DEF HoldInv
      <4>2. dbBatch[batchNo].txs = batch.txs
        BY <3>1, <3>3 DEF InOrderExactlyOnce
      <4>3. dbBatch[batchNo] \in Batch /\ ~dbBatch[batchNo].verified
        BY <2>1, <2>2, <3>3 DEF TypeOK, DurableOK, NormalInv, AgainInv
      <4>4. StatusOf(dbBatch[batchNo]) # "verified"
        <5>1. dbBatch[batchNo].submitted \in BOOLEAN
          BY <4>3 DEF Batch
        <5> QED  BY <4>3, <5>1, StatusTyped
      <4>5. Ledger!Last.content = batch.txs /\ Ledger!Last.status # "verified"
        BY <4>1, <4>2, <4>4 DEF EntryOf
      <4> QED  BY <4>1, <4>5 DEF Ledger!StrictNext
    <3> QED  BY <3>2, <3>3
  <2>3. CASE PutBatch /\ bpc # "save1"
    BY <2>3, LaterSave DEF Ledger!StrictNext
  <2>4. CASE ~PutBatch
    BY <2>4, LedgerFrame
  <2> QED  BY <2>2, <2>3, <2>4
<1> QED
  BY <1>1, EmptyLedger, TypeCorrect, ChainCorrect, FlagCorrect, HoldCorrect,
     StoredCorrect, NormalCorrect, PTL
  DEF Spec, ImplementsStrictLedger, Ledger!StrictSpec

============================================================================
