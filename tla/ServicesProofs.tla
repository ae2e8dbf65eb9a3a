--------------------------- MODULE ServicesProofs ---------------------------
(***************************************************************************)
(* Proofs about the remote calls and the queries for every number of       *)
(* batches: type correctness, the growing waits, the loop that nothing     *)
(* ends, the refinement of the strict ledger, and what readers are told.   *)
(***************************************************************************)
EXTENDS BatchQueries, SequenceTheorems, TLAPS

Status   == {"published", "submitted", "verified"}
EntrySet == [content : 1..MaxBatch, status : Status]

\* The larger of two numbers.
LEMMA MaxOfTwo ==
  ASSUME NEW a \in Int, NEW b \in Int, b <= a
  PROVE  Max({a, b}) = a
<1>1. a \in {a, b} /\ \A y \in {a, b} : a >= y
  OBVIOUS
<1>2. \A x \in {a, b} : (\A y \in {a, b} : x >= y) => x = a
  OBVIOUS
<1> QED  BY <1>1, <1>2 DEF Max

\* The smaller of two numbers.
LEMMA MinOfTwo ==
  ASSUME NEW a \in Int, NEW b \in Int
  PROVE  Min({a, b}) = IF a <= b THEN a ELSE b
<1>1. ASSUME NEW m \in {a, b}, \A y \in {a, b} : m =< y
      PROVE  m = IF a <= b THEN a ELSE b
  BY <1>1
<1>2. \E m \in {a, b} : \A y \in {a, b} : m =< y
  <2>1. CASE a <= b
    BY <2>1
  <2>2. CASE ~(a <= b)
    BY <2>2
  <2> QED  BY <2>1, <2>2
<1> QED  BY <1>1, <1>2 DEF Min

(***************************************************************************)
(* Where the builder is in relation to what is stored.  While batch no is  *)
(* made, all before it are verified under their own content; no itself is  *)
(* stored or not, and once it is saved its status follows from the place   *)
(* of the builder.                                                         *)
(***************************************************************************)
Saved(status) == Len(ledger) = no /\ ledger[no].status = status

StoreInv ==
  /\ ledger \in Seq(EntrySet)
  /\ no \in Nat \ {0} /\ no <= MaxBatch + 1
  /\ stage # "create" => no <= MaxBatch
  /\ Len(ledger) \in {no - 1, no}
  /\ \A n \in 1..(no - 1) :
       ledger[n].content = n /\ ledger[n].status = "verified"
  /\ Len(ledger) = no =>
       /\ no <= MaxBatch /\ ledger[no].content = no
       /\ ledger[no].status # "verified"
  /\ stage \in {"metadata", "save2"} => Saved("published")
  /\ stage \in {"prove", "settle", "save3"} => Saved("submitted")

\* A step that leaves the store, the number and, within a batch, the demands
\* on what is stored alone keeps the invariant.
LEMMA StoreFrame ==
  ASSUME StoreInv, UNCHANGED <<no, ledger>>,
         stage' = stage \/ stage' \in {"create", "da", "save1"}
           \/ (stage = "metadata" /\ stage' = "save2")
           \/ (stage = "prove" /\ stage' = "settle")
           \/ (stage = "settle" /\ stage' = "save3"),
         stage' # "create" => no <= MaxBatch
  PROVE  StoreInv'
  BY DEF StoreInv, Saved

\* What SaveBatch makes of the store: entry no is set, the others stay.
LEMMA Saving ==
  ASSUME StoreInv, NEW status \in Status, no <= MaxBatch, SaveBatch(status)
  PROVE  /\ ledger' \in Seq(EntrySet)
         /\ Len(ledger') = no
         /\ ledger'[no] = [content |-> no, status |-> status]
         /\ \A n \in 1..(no - 1) : ledger'[n] = ledger[n]
<1> DEFINE e(n) == IF n = no THEN Entry(status) ELSE ledger[n]
<1>1. no \in Nat /\ Len(ledger) \in Nat /\ Len(ledger) \in {no - 1, no}
  BY DEF StoreInv
<1>2. Max({no, Len(ledger)}) = no
  BY <1>1, MaxOfTwo
<1>3. ledger' = [n \in 1..no |-> e(n)]
  BY <1>2 DEF SaveBatch
<1>4. \A n \in 1..no : e(n) \in EntrySet
  <2> SUFFICES ASSUME NEW n \in 1..no PROVE e(n) \in EntrySet
    OBVIOUS
  <2>1. CASE n = no
    BY <2>1, <1>1 DEF StoreInv, Entry, EntrySet
  <2>2. CASE n # no
    <3>1. n \in 1..Len(ledger)
      BY <2>2, <1>1
    <3> QED  BY <2>2, <3>1, ElementOfSeq DEF StoreInv
  <2> QED  BY <2>1, <2>2
<1>5. ledger' \in Seq(EntrySet) /\ Len(ledger') = no
  <2> HIDE DEF e
  <2> QED  BY <1>1, <1>3, <1>4
<1> QED  BY <1>1, <1>3, <1>5 DEF Entry, StoreInv

\* Saved in the middle of its making, the batch is the last one stored.
LEMMA SavingOn ==
  ASSUME StoreInv, NEW status \in {"published", "submitted"}, no <= MaxBatch,
         SaveBatch(status), no' = no,
         stage' = IF status = "published" THEN "metadata" ELSE "prove"
  PROVE  StoreInv'
<1>1. /\ ledger' \in Seq(EntrySet) /\ Len(ledger') = no
      /\ ledger'[no] = [content |-> no, status |-> status]
      /\ \A n \in 1..(no - 1) : ledger'[n] = ledger[n]
  BY Saving DEF Status
<1>2. /\ ledger'[no].content = no
      /\ ledger'[no].status = status /\ status # "verified"
  BY <1>1
<1>3. ASSUME NEW n \in 1..(no' - 1)
      PROVE  ledger'[n].content = n /\ ledger'[n].status = "verified"
  BY <1>1 DEF StoreInv
<1>4. /\ no' \in Nat \ {0} /\ no' <= MaxBatch /\ no' <= MaxBatch + 1
      /\ Len(ledger') \in {no' - 1, no'}
  BY <1>1 DEF StoreInv
<1>5. /\ stage' \in {"metadata", "save2"} => Saved("published")'
      /\ stage' \in {"prove", "settle", "save3"} => Saved("submitted")'
  BY <1>1, <1>2 DEF Saved
<1> QED  BY <1>1, <1>2, <1>3, <1>4, <1>5 DEF StoreInv

\* Every step of the builder and its services keeps StoreInv.
LEMMA StoreStep == StoreInv /\ [Next]_vars => StoreInv'
<1> SUFFICES ASSUME StoreInv, [Next]_vars PROVE StoreInv'
  OBVIOUS
<1>m. MaxBatch \in Nat /\ no \in Nat \ {0}
  BY RemoteAssumption DEF StoreInv
<1>1. CASE CreateBatch
  BY <1>1, StoreFrame DEF CreateBatch, Go
<1>2. CASE SubmitToDA \/ BlobError
  BY <1>2, StoreFrame DEF SubmitToDA, BlobError, Go, StoreInv
<1>3. CASE DAFails \/ AnswerLost \/ JunctionFails \/ ProverFails
  <2>1. UNCHANGED <<stage, no, ledger>>
    BY <1>3 DEF DAFails, AnswerLost, JunctionFails, ProverFails
  <2> QED  BY <2>1, StoreFrame DEF StoreInv
<1>4. CASE SubmitBatchMetadata \/ SubmitBatch \/ ProverGenerate \/ ProverGivesUp
  BY <1>4, StoreFrame
  DEF SubmitBatchMetadata, SubmitBatch, ProverGenerate, ProverGivesUp, Go,
      StoreInv
<1>5. CASE SavePublished
  <2>1. /\ SaveBatch("published") /\ no' = no /\ no <= MaxBatch
        /\ stage' = "metadata"
    BY <1>5 DEF SavePublished, Go, StoreInv
  <2> QED  BY <2>1, <1>m, SavingOn
<1>6. CASE SaveSubmitted
  <2>1. /\ SaveBatch("submitted") /\ no' = no /\ no <= MaxBatch
        /\ stage' = "prove"
    BY <1>6 DEF SaveSubmitted, Go, StoreInv
  <2> QED  BY <2>1, <1>m, SavingOn
<1>7. CASE SaveVerified
  <2>1. /\ SaveBatch("verified") /\ no' = no + 1 /\ no <= MaxBatch
        /\ stage' = "create"
    BY <1>7 DEF SaveVerified, Go, StoreInv
  <2>2. "verified" \in Status
    BY DEF Status
  <2>3. /\ ledger' \in Seq(EntrySet) /\ Len(ledger') = no
        /\ ledger'[no] = [content |-> no, status |-> "verified"]
        /\ \A n \in 1..(no - 1) : ledger'[n] = ledger[n]
    BY <2>1, <2>2, Saving
  <2>4. ASSUME NEW n \in 1..(no' - 1)
        PROVE  ledger'[n].content = n /\ ledger'[n].status = "verified"
    <3>1. CASE n = no
      BY <2>3, <3>1
    <3>2. CASE n # no
      <4>1. n \in 1..(no - 1)
        BY <2>1, <3>2, <1>m
      <4> QED  BY <2>3, <4>1 DEF StoreInv
    <3> QED  BY <3>1, <3>2
  <2> QED  BY <2>1, <2>3, <2>4, <1>m DEF StoreInv, Saved
<1>8. CASE AwaitTransactions \/ UNCHANGED vars
  BY <1>8, StoreFrame DEF AwaitTransactions, vars, builder, StoreInv
<1> QED
  BY <1>1, <1>2, <1>3, <1>4, <1>5, <1>6, <1>7, <1>8 DEF Next, Local

(***************************************************************************)
(* Whatever fails and however often, the stored batches are those made so  *)
(* far, all but the one in work verified with the content due.             *)
(***************************************************************************)
THEOREM StoreCorrect == Spec => []StoreInv
<1>1. Init => StoreInv
  BY RemoteAssumption DEF Init, StoreInv, Saved
<1> QED  BY <1>1, StoreStep, PTL DEF Spec

----------------------------------------------------------------------------
(***************************************************************************)
(* The counters of a call: the last wait is never above the next, which is *)
(* what makes the waits grow.                                              *)
(***************************************************************************)
CallInv ==
  /\ daClient \in DAClients /\ strict \in BOOLEAN
  /\ stage \in Calls \cup {"create", "save1", "save2", "save3"}
  /\ backoff \in {1, 2, 4, 8, 16, 32, 64}
  /\ attempt \in 1..AttemptCap
  /\ wait \in 0..64 /\ (wait # 0 => stage \in Calls)
  /\ stage = "da" => wait <= backoff
  /\ stage = "prove" => wait <= ProverWait(attempt)
  /\ metadata \subseteq 1..MaxBatch /\ settled \subseteq 1..MaxBatch

\* The wait after an attempt, and the attempt that follows.
LEMMA ProverWaits ==
  ASSUME NEW k \in 1..AttemptCap
  PROVE  /\ ProverWait(k) \in 0..60
         /\ Min({k + 1, AttemptCap}) \in 1..AttemptCap
         /\ ProverWait(k) <= ProverWait(Min({k + 1, AttemptCap}))
<1> DEFINE m == Min({k + 1, AttemptCap})
<1>1. m = IF k + 1 <= 62 THEN k + 1 ELSE 62
  BY MinOfTwo DEF AttemptCap
<1>2. m \in 1..AttemptCap
  BY <1>1 DEF AttemptCap
<1>3. ASSUME NEW i \in 1..AttemptCap
      PROVE  ProverWait(i) = IF i - 1 <= 60 THEN i - 1 ELSE 60
  BY MinOfTwo DEF ProverWait
<1>4. ProverWait(k) = IF k - 1 <= 60 THEN k - 1 ELSE 60
  BY <1>3
<1>5. ProverWait(m) = IF m - 1 <= 60 THEN m - 1 ELSE 60
  BY <1>2, <1>3
<1> HIDE DEF m
<1>6. ProverWait(k) <= ProverWait(m)
  BY <1>1, <1>4, <1>5 DEF AttemptCap
<1> QED  BY <1>2, <1>4, <1>6 DEF m, AttemptCap

\* A step to another place, with the counters reset.
LEMMA CallReset ==
  ASSUME CallInv, Go(stage'), UNCHANGED config,
         stage' \in Calls \cup {"create", "save1", "save2", "save3"},
         metadata' \subseteq 1..MaxBatch, settled' \subseteq 1..MaxBatch
  PROVE  CallInv'
<1>1. wait' = 0 /\ backoff' = 1 /\ attempt' = 1 /\ attempt' \in 1..AttemptCap
  BY DEF Go, AttemptCap
<1>2. wait' <= ProverWait(attempt')
  <2>1. 1 \in 1..AttemptCap
    BY DEF AttemptCap
  <2>2. ProverWait(1) \in 0..60
    BY <2>1, ProverWaits
  <2> QED  BY <1>1, <2>2
<1>3. UNCHANGED <<daClient, strict>>
  BY DEF config
<1> QED  BY <1>1, <1>2, <1>3 DEF CallInv

\* Every step of the builder and its services keeps CallInv.
LEMMA CallStep == StoreInv /\ CallInv /\ [Next]_vars => CallInv'
<1> SUFFICES ASSUME StoreInv, CallInv, [Next]_vars PROVE CallInv'
  OBVIOUS
<1>m. no \in Nat \ {0} /\ (stage # "create" => no \in 1..MaxBatch)
  BY RemoteAssumption DEF StoreInv
<1>1. CASE CreateBatch \/ SavePublished \/ SaveSubmitted \/ SaveVerified
             \/ SubmitToDA \/ BlobError \/ ProverGenerate \/ ProverGivesUp
  <2>1. /\ Go(stage') /\ UNCHANGED <<config, junction>>
        /\ stage' \in Calls \cup {"create", "save1", "save2", "save3"}
    BY <1>1 DEF CreateBatch, SavePublished, SaveSubmitted, SaveVerified,
       SubmitToDA, BlobError, ProverGenerate, ProverGivesUp, Calls, Go
  <2>2. metadata' \subseteq 1..MaxBatch /\ settled' \subseteq 1..MaxBatch
    BY <2>1 DEF junction, CallInv
  <2> QED  BY <2>1, <2>2, CallReset
<1>2. CASE SubmitBatchMetadata \/ SubmitBatch
  <2>1. /\ Go(stage') /\ UNCHANGED config
        /\ stage' \in Calls \cup {"create", "save1", "save2", "save3"}
    BY <1>2 DEF SubmitBatchMetadata, SubmitBatch, Calls, Go
  <2>2. metadata' \subseteq 1..MaxBatch /\ settled' \subseteq 1..MaxBatch
    BY <1>2, <1>m DEF SubmitBatchMetadata, SubmitBatch, CallInv
  <2> QED  BY <2>1, <2>2, CallReset
<1>3. CASE DAFails
  <2>1. /\ wait' = backoff /\ stage = "da"
        /\ backoff' = IF backoff < 60 THEN 2 * backoff ELSE backoff
        /\ UNCHANGED <<daClient, strict, stage, attempt, metadata, settled>>
    BY <1>3 DEF DAFails, NextBackoff, config, junction
  <2>2. /\ backoff' \in {1, 2, 4, 8, 16, 32, 64}
        /\ wait' <= backoff' /\ wait' \in 0..64
    BY <2>1 DEF CallInv
  <2> QED  BY <2>1, <2>2 DEF CallInv, Calls
<1>4. CASE ProverFails
  <2>1. /\ wait' = ProverWait(attempt) /\ stage = "prove"
        /\ attempt' = Min({attempt + 1, AttemptCap})
        /\ UNCHANGED <<daClient, strict, stage, backoff, metadata, settled>>
    BY <1>4 DEF ProverFails, config, junction
  <2>2. attempt \in 1..AttemptCap
    BY DEF CallInv
  <2>3. /\ wait' \in 0..60 /\ attempt' \in 1..AttemptCap
        /\ wait' <= ProverWait(attempt')
    BY <2>1, <2>2, ProverWaits
  <2>4. wait' \in 0..64
    BY <2>3
  <2> QED  BY <2>1, <2>3, <2>4 DEF CallInv, Calls
<1>5. CASE AnswerLost \/ JunctionFails
  <2>1. /\ wait' = 5 /\ stage \in {"metadata", "settle"}
        /\ UNCHANGED <<daClient, strict, stage, backoff, attempt>>
    BY <1>5 DEF AnswerLost, JunctionFails, config
  <2>2. metadata' \subseteq 1..MaxBatch /\ settled' \subseteq 1..MaxBatch
    BY <1>5, <1>m DEF AnswerLost, JunctionFails, junction, CallInv
  <2> QED  BY <2>1, <2>2 DEF CallInv, Calls
<1>6. CASE AwaitTransactions \/ UNCHANGED vars
  <2>1. UNCHANGED <<daClient, strict, stage, backoff, attempt, wait, metadata,
                    settled>>
    BY <1>6 DEF AwaitTransactions, vars, config, builder, junction
  <2>2. ProverWait(attempt') = ProverWait(attempt)
    BY <2>1
  <2> QED  BY <2>1, <2>2 DEF CallInv, Calls
<1> QED
  BY <1>1, <1>2, <1>3, <1>4, <1>5, <1>6 DEF Next, Local

\* Both invariants hold whatever the services do.
LEMMA InvsCorrect == Spec => [](StoreInv /\ CallInv)
<1>1. Init => CallInv
  BY ProverWaits DEF Init, CallInv, AttemptCap
<1> QED  BY <1>1, CallStep, StoreStep, StoreCorrect, PTL DEF Spec

\* The type invariant follows.
LEMMA TypeFollows == StoreInv /\ CallInv => TypeOK
<1> SUFFICES ASSUME StoreInv, CallInv PROVE TypeOK
  OBVIOUS
<1>1. no \in 1..(MaxBatch + 1)
  BY RemoteAssumption DEF StoreInv
<1>2. ASSUME NEW n \in DOMAIN ledger
      PROVE  ledger[n] \in [content : 1..MaxBatch, status : Status]
  <2>1. ledger \in Seq(EntrySet) /\ DOMAIN ledger = 1..Len(ledger)
    BY DEF StoreInv
  <2>2. ledger[n] \in EntrySet
    BY <2>1, ElementOfSeq
  <2> QED  BY <2>2 DEF EntrySet
<1> QED  BY <1>1, <1>2 DEF CallInv, TypeOK, Status

(***************************************************************************)
(* Type correctness: the store holds batches with the content and the      *)
(* status they may have, and the counters of the calls stay in their       *)
(* ranges however many attempts fail.                                      *)
(***************************************************************************)
THEOREM ServicesTyped == Spec => []TypeOK
BY InvsCorrect, TypeFollows, PTL

(***************************************************************************)
(* The waits of a call grow and are bounded, after any number of attempts. *)
(***************************************************************************)
THEOREM WaitsAlwaysGrow == Spec => WaitsGrow
<1>1. CallInv /\ [Next]_vars =>
        [stage' = stage /\ stage \in {"da", "prove"} =>
           wait' >= wait /\ wait' <= LongestWait]_vars
  <2> SUFFICES ASSUME CallInv, Next, stage' = stage, stage \in {"da", "prove"}
               PROVE  wait' >= wait /\ wait' <= LongestWait
    OBVIOUS
  <2>1. CASE DAFails
    BY <2>1 DEF DAFails, CallInv, LongestWait
  <2>2. CASE ProverFails
    <3>1. attempt \in 1..AttemptCap
      BY DEF CallInv
    <3>2. ProverWait(attempt) \in 0..60
      BY <3>1, ProverWaits
    <3> QED  BY <2>2, <3>2 DEF ProverFails, CallInv, LongestWait
  <2>3. CASE AwaitTransactions
    BY <2>3 DEF AwaitTransactions
  <2> QED
    BY <2>1, <2>2, <2>3 DEF Next, Local, CreateBatch, SavePublished,
       SaveSubmitted, SaveVerified, SubmitToDA, BlobError,
       SubmitBatchMetadata, SubmitBatch, AnswerLost, JunctionFails,
       ProverGenerate, ProverGivesUp, Go
<1> QED  BY <1>1, InvsCorrect, PTL DEF Spec, WaitsGrow

(***************************************************************************)
(* A builder whose recorded message is refused stays where it is for good, *)
(* and the store with it.                                                  *)
(***************************************************************************)
THEOREM StuckStays == Spec => StuckForEver
<1>1. [Next]_vars => [Stuck => Stuck' /\ UNCHANGED ledger]_vars
  <2> SUFFICES ASSUME Next, Stuck PROVE Stuck' /\ UNCHANGED ledger
    OBVIOUS
  <2>1. CASE AnswerLost \/ JunctionFails
    BY <2>1 DEF AnswerLost, JunctionFails, Stuck, Refused, config, junction
  <2>2. CASE AwaitTransactions
    BY <2>2 DEF AwaitTransactions, Stuck
  <2> QED
    BY <2>1, <2>2 DEF Next, Local, CreateBatch, SavePublished,
       SaveSubmitted, SaveVerified, SubmitToDA, BlobError, DAFails,
       SubmitBatchMetadata, SubmitBatch, ProverGenerate, ProverFails,
       ProverGivesUp, Stuck
<1> QED  BY <1>1, PTL DEF Spec, StuckForEver

----------------------------------------------------------------------------
\* SaveBatch appends to the store or replaces its last entry.
LEMMA SaveAsSequence ==
  ASSUME StoreInv, NEW status \in Status, no <= MaxBatch, SaveBatch(status)
  PROVE  /\ Len(ledger) = no - 1 =>
              ledger' = Append(ledger, [content |-> no, status |-> status])
         /\ Len(ledger) = no =>
              ledger' = [ledger EXCEPT ![no] =
                           [content |-> no, status |-> status]]
<1> DEFINE e == [content |-> no, status |-> status]
<1>1. /\ ledger' \in Seq(EntrySet) /\ Len(ledger') = no /\ ledger'[no] = e
      /\ \A n \in 1..(no - 1) : ledger'[n] = ledger[n]
  BY Saving
<1>2. /\ ledger \in Seq(EntrySet) /\ no \in Nat \ {0} /\ no \in 1..MaxBatch
  BY RemoteAssumption DEF StoreInv
<1>3. e \in EntrySet
  BY <1>2 DEF EntrySet
<1> HIDE DEF e
<1>4. ASSUME Len(ledger) = no - 1 PROVE ledger' = Append(ledger, e)
  <2> DEFINE t == Append(ledger, e)
  <2>1. /\ t \in Seq(EntrySet) /\ Len(t) = no /\ t[no] = e
        /\ \A n \in 1..(no - 1) : t[n] = ledger[n]
    BY <1>2, <1>3, <1>4, AppendProperties
  <2> HIDE DEF t
  <2>2. \A n \in 1..Len(ledger') : ledger'[n] = t[n]
    BY <1>1, <1>2, <2>1
  <2>3. ledger' = t
    BY <1>1, <2>1, <2>2, SeqEqual
  <2> QED  BY <2>3 DEF t
<1>5. ASSUME Len(ledger) = no PROVE ledger' = [ledger EXCEPT ![no] = e]
  <2> DEFINE t == [ledger EXCEPT ![no] = e]
  <2>1. /\ t \in Seq(EntrySet) /\ Len(t) = no
        /\ \A n \in 1..no : t[n] = IF n = no THEN e ELSE ledger[n]
    BY <1>2, <1>3, <1>5, ExceptSeq
  <2> HIDE DEF t
  <2>2. \A n \in 1..Len(ledger') : ledger'[n] = t[n]
    BY <1>1, <1>2, <2>1
  <2>3. ledger' = t
    BY <1>1, <2>1, <2>2, SeqEqual
  <2> QED  BY <2>3 DEF t
<1> QED  BY <1>4, <1>5 DEF e

\* To set the status of the last entry is to set the entry.
LEMMA StatusSet ==
  ASSUME StoreInv, Len(ledger) = no, NEW status \in Status
  PROVE  [ledger EXCEPT ![no].status = status]
           = [ledger EXCEPT ![no] = [content |-> no, status |-> status]]
<1> DEFINE r == ledger[no]
<1>1. r \in EntrySet /\ r.content = no
  BY ElementOfSeq DEF StoreInv
<1>2. r \in [content : 1..MaxBatch, status : Status]
  BY <1>1 DEF EntrySet
<1> HIDE DEF r
<1>3. [r EXCEPT !.status = status] = [content |-> no, status |-> status]
  BY <1>1, <1>2
<1>4. [ledger EXCEPT ![no].status = status]
        = [ledger EXCEPT ![no] = [ledger[no] EXCEPT !.status = status]]
  OBVIOUS
<1> QED  BY <1>3, <1>4 DEF r

\* Every step of the builder is one of the strict ledger, or leaves it alone.
LEMMA LedgerStep == StoreInv /\ [Next]_vars => [Ledger!StrictNext]_ledger
<1> SUFFICES ASSUME StoreInv, [Next]_vars, ledger' # ledger
             PROVE  Ledger!StrictNext
  OBVIOUS
<1>m. MaxBatch \in Nat /\ no \in Nat \ {0} /\ ledger \in Seq(EntrySet)
  BY RemoteAssumption DEF StoreInv
<1>e. ledger = <<>> <=> Len(ledger) = 0
  BY <1>m, EmptySeq
<1>1. CASE SavePublished
  <2>1. SaveBatch("published") /\ no <= MaxBatch /\ "published" \in Status
    BY <1>1 DEF SavePublished, StoreInv, Status
  <2>2. CASE Len(ledger) = no - 1
    <3>1. ledger' = Append(ledger, [content |-> no, status |-> "published"])
      BY <2>1, <2>2, SaveAsSequence
    <3>2. ledger # <<>> => ledger[Len(ledger)].status = "verified"
      <4>1. ledger # <<>> => Len(ledger) \in 1..(no - 1)
        BY <1>m, <1>e, <2>2
      <4> QED  BY <4>1 DEF StoreInv
    <3>3. Len(ledger) + 1 = no
      BY <1>m, <2>2
    <3> QED
      BY <3>1, <3>2, <3>3
      DEF Ledger!StrictNext, Ledger!Publish, Ledger!Last, Ledger!OpenEntry, Due
  <2>3. CASE Len(ledger) = no
    <3>1. ledger' = [ledger EXCEPT ![no] =
                       [content |-> no, status |-> "published"]]
      BY <2>1, <2>3, SaveAsSequence
    <3>2. ledger[no].content = no /\ ledger[no].status # "verified"
      BY <2>3 DEF StoreInv
    <3>3. ledger # <<>>
      BY <1>m, <1>e, <2>3
    <3> QED
      BY <2>3, <3>1, <3>2, <3>3
      DEF Ledger!StrictNext, Ledger!Reopen, Ledger!Last, Ledger!OpenEntry
  <2> QED  BY <2>2, <2>3 DEF StoreInv
<1>2. CASE SaveSubmitted
  <2>1. SaveBatch("submitted") /\ no <= MaxBatch /\ "submitted" \in Status
    BY <1>2 DEF SaveSubmitted, StoreInv, Status
  <2>2. Len(ledger) = no /\ ledger[no].status = "published"
    BY <1>2 DEF SaveSubmitted, StoreInv, Saved
  <2>3. ledger' = [ledger EXCEPT ![no] =
                     [content |-> no, status |-> "submitted"]]
    BY <2>1, <2>2, SaveAsSequence
  <2>4. ledger' = [ledger EXCEPT ![no].status = "submitted"]
    BY <2>1, <2>2, <2>3, StatusSet
  <2>5. ledger # <<>>
    BY <1>m, <1>e, <2>2
  <2> QED
    BY <2>2, <2>4, <2>5 DEF Ledger!StrictNext, Ledger!Submit, Ledger!Last
<1>3. CASE SaveVerified
  <2>1. SaveBatch("verified") /\ no <= MaxBatch /\ "verified" \in Status
    BY <1>3 DEF SaveVerified, StoreInv, Status
  <2>2. Len(ledger) = no /\ ledger[no].status = "submitted"
    BY <1>3 DEF SaveVerified, StoreInv, Saved
  <2>3. ledger' = [ledger EXCEPT ![no] =
                     [content |-> no, status |-> "verified"]]
    BY <2>1, <2>2, SaveAsSequence
  <2>4. ledger' = [ledger EXCEPT ![no].status = "verified"]
    BY <2>1, <2>2, <2>3, StatusSet
  <2>5. ledger # <<>>
    BY <1>m, <1>e, <2>2
  <2> QED
    BY <2>2, <2>4, <2>5 DEF Ledger!StrictNext, Ledger!Settle, Ledger!Last
<1>4. CASE ~(SavePublished \/ SaveSubmitted \/ SaveVerified)
  <2>1. UNCHANGED ledger
    BY <1>4 DEF Next, Local, CreateBatch, AwaitTransactions, SubmitToDA,
       BlobError, DAFails, SubmitBatchMetadata, SubmitBatch, AnswerLost,
       JunctionFails, ProverGenerate, ProverFails, ProverGivesUp, vars
  <2> QED  BY <2>1
<1> QED  BY <1>1, <1>2, <1>3, <1>4

(***************************************************************************)
(* The builder with its retry loops, over services that fail, lose answers *)
(* and give up without a bound, implements the strict ledger: batches are  *)
(* stored one at a time, in order and with the content due, a verified one *)
(* is never written again.                                                 *)
(***************************************************************************)
THEOREM CallsImplementStrictLedger == Spec => CallsImplementLedger
<1>1. Init => Ledger!Init
  BY DEF Init, Ledger!Init
<1> QED
  BY <1>1, LedgerStep, StoreCorrect, PTL
  DEF Spec, CallsImplementLedger, Ledger!StrictSpec

----------------------------------------------------------------------------
(***************************************************************************)
(* What a reader relies on while the builder goes on: the store gets no    *)
(* shorter, and a verified batch stays as it is.                           *)
(***************************************************************************)
LEMMA StoreGrows ==
  ASSUME StoreInv, [Next]_vars
  PROVE  /\ Len(ledger') >= Len(ledger)
         /\ \A n \in DOMAIN ledger : Verified(n) => Verified(n)'
<1>m. MaxBatch \in Nat /\ no \in Nat \ {0} /\ ledger \in Seq(EntrySet)
      /\ Len(ledger) \in {no - 1, no}
  BY RemoteAssumption DEF StoreInv
<1>1. ASSUME NEW status \in Status, SaveBatch(status), no <= MaxBatch
      PROVE  /\ Len(ledger') >= Len(ledger)
             /\ \A n \in DOMAIN ledger : Verified(n) => Verified(n)'
  <2>1. /\ ledger' \in Seq(EntrySet) /\ Len(ledger') = no
        /\ \A n \in 1..(no - 1) : ledger'[n] = ledger[n]
    BY <1>1, Saving
  <2>2. ASSUME NEW n \in DOMAIN ledger, Verified(n)
        PROVE  Verified(n)'
    <3>1. n \in 1..Len(ledger)
      BY <1>m
    <3>2. n # no
      BY <2>2, <3>1, <1>m DEF Verified, StoreInv
    <3>3. n \in 1..(no - 1) /\ n \in DOMAIN ledger'
      BY <1>m, <2>1, <3>1, <3>2
    <3> QED  BY <2>1, <2>2, <3>3 DEF Verified
  <2> QED  BY <1>m, <2>1, <2>2
<1>2. CASE SavePublished \/ SaveSubmitted \/ SaveVerified
  <2>1. no <= MaxBatch /\ \E status \in Status : SaveBatch(status)
    BY <1>2 DEF SavePublished, SaveSubmitted, SaveVerified, StoreInv, Status
  <2> QED  BY <1>1, <2>1
<1>3. CASE ~(SavePublished \/ SaveSubmitted \/ SaveVerified)
  <2>1. UNCHANGED ledger
    BY <1>3 DEF Next, Local, CreateBatch, AwaitTransactions, SubmitToDA,
       BlobError, DAFails, SubmitBatchMetadata, SubmitBatch, AnswerLost,
       JunctionFails, ProverGenerate, ProverFails, ProverGivesUp, vars
  <2> QED  BY <1>m, <2>1 DEF Verified
<1> QED  BY <1>2, <1>3

(***************************************************************************)
(* Where a handler of getLatestBatch is: every key before the one it is at *)
(* is stored, and once it has met a missing one, nothing newer than what   *)
(* it reads was there when the request came in, or was answered before.    *)
(***************************************************************************)
QueryInv ==
  /\ rpc \in {"idle", "scan", "read"}
  /\ since \in 0..Len(ledger) /\ answer.no \in 0..Len(ledger)
  /\ rpc = "scan" => batchNo \in 1..(Len(ledger) + 1)
  /\ rpc = "read" => /\ batchNo \in 1..Len(ledger)
                     /\ batchNo >= since /\ batchNo >= answer.no

\* A key is found exactly when it is stored.
LEMMA Found ==
  ASSUME StoreInv, NEW n \in Nat
  PROVE  /\ Get(n) = NoBatch <=> n \notin 1..Len(ledger)
         /\ n \in 1..Len(ledger) =>
              Get(n) = [no |-> n, status |-> ledger[n].status]
         /\ Get(n).no \in {0, n}
<1>1. DOMAIN ledger = 1..Len(ledger) /\ Len(ledger) \in Nat
  BY DEF StoreInv
<1>2. CASE n \in 1..Len(ledger)
  <2>1. Get(n) = [no |-> n, status |-> ledger[n].status]
    BY <1>1, <1>2 DEF Get
  <2>2. Get(n).no = n /\ NoBatch.no = 0 /\ n # 0
    BY <1>2, <2>1 DEF NoBatch
  <2> QED  BY <1>2, <2>1, <2>2
<1>3. CASE n \notin 1..Len(ledger)
  BY <1>1, <1>3 DEF Get, NoBatch
<1> QED  BY <1>2, <1>3

\* A reply that says verified names a verified batch.
LEMMA ReplyTrue ==
  ASSUME StoreInv, NEW n \in Nat, Get(n).status = "verified"
  PROVE  Get(n).no = n /\ Verified(n)
<1>1. n \in 1..Len(ledger)
  BY Found DEF NoBatch
<1>2. Get(n) = [no |-> n, status |-> ledger[n].status]
  BY <1>1, Found
<1>3. DOMAIN ledger = 1..Len(ledger)
  BY DEF StoreInv
<1> QED  BY <1>1, <1>2, <1>3 DEF Verified

\* The reader writes nothing: its steps are stutters of the builder.
LEMMA QueryStep ==
  QueryNext \/ UNCHANGED allVars => [Next]_vars
BY DEF QueryNext, GetLatestBatch, ScanNext, ScanEnds, ReadLatest,
   GetBatchByNumber, allVars

\* So what the theorems above say holds with readers as well.
LEMMA ReaderStutters == QuerySpec => Spec
<1>1. QueryInit => Init
  BY DEF QueryInit
<1> QED  BY <1>1, QueryStep, PTL DEF QuerySpec, Spec

\* Every step of builder and reader keeps QueryInv.
LEMMA ReaderStep ==
  StoreInv /\ StoreInv' /\ QueryInv /\ [QueryNext]_allVars => QueryInv'
<1> SUFFICES ASSUME StoreInv, StoreInv', QueryInv, [QueryNext]_allVars
             PROVE  QueryInv'
  OBVIOUS
<1>m. Len(ledger) \in Nat /\ Len(ledger') \in Nat
  BY DEF StoreInv
<1>1. CASE Next /\ UNCHANGED reader
  <2>1. Len(ledger') >= Len(ledger)
    BY <1>1, StoreGrows
  <2>2. UNCHANGED <<rpc, batchNo, since, answer>>
    BY <1>1 DEF reader
  <2> QED  BY <1>m, <2>1, <2>2 DEF QueryInv
<1>2. CASE GetLatestBatch
  BY <1>2, <1>m DEF GetLatestBatch, QueryInv, vars
<1>3. CASE ScanNext
  <2>1. batchNo \in 1..Len(ledger)
    BY <1>3, <1>m, Found DEF ScanNext, QueryInv
  <2> QED  BY <1>3, <1>m, <2>1 DEF ScanNext, QueryInv, vars
<1>4. CASE ScanEnds
  <2>1. batchNo = Len(ledger) + 1
    BY <1>4, <1>m, Found DEF ScanEnds, QueryInv
  <2> QED  BY <1>4, <1>m, <2>1 DEF ScanEnds, QueryInv, vars
<1>5. CASE ReadLatest
  <2>1. batchNo \in 1..Len(ledger) /\ batchNo \in Nat
    BY <1>5, <1>m DEF ReadLatest, QueryInv
  <2>2. answer'.no = batchNo
    BY <1>5, <2>1, Found DEF ReadLatest
  <2> QED  BY <1>5, <1>m, <2>1, <2>2 DEF ReadLatest, QueryInv, vars
<1>6. CASE GetBatchByNumber
  BY <1>6, <1>m DEF GetBatchByNumber, QueryInv, vars
<1>7. CASE UNCHANGED allVars
  BY <1>7 DEF allVars, vars, reader, QueryInv
<1> QED
  BY <1>1, <1>2, <1>3, <1>4, <1>5, <1>6, <1>7 DEF QueryNext

\* Every step of builder and reader keeps what was answered true.
LEMMA FinalStep ==
  StoreInv /\ QueryInv /\ VerifiedIsFinal /\ [QueryNext]_allVars
    => VerifiedIsFinal'
<1> SUFFICES ASSUME StoreInv, QueryInv, VerifiedIsFinal, [QueryNext]_allVars,
                    NEW n \in final'
             PROVE  Verified(n)'
  BY DEF VerifiedIsFinal
<1>1. [Next]_vars
  BY QueryStep
<1>2. Verified(n) => Verified(n)'
  BY <1>1, StoreGrows DEF Verified
<1>3. CASE n \in final
  BY <1>2, <1>3 DEF VerifiedIsFinal
<1>4. CASE n \notin final
  <2>1. ReadLatest \/ GetBatchByNumber
    BY <1>4 DEF QueryNext, GetLatestBatch, ScanNext, ScanEnds, allVars, reader
  <2>2. \E k \in Nat : n = Get(k).no /\ Get(k).status = "verified"
    <3>1. CASE ReadLatest
      <4>1. batchNo \in Nat
        BY <3>1 DEF ReadLatest, QueryInv, StoreInv
      <4> QED  BY <1>4, <3>1, <4>1 DEF ReadLatest, Answered
    <3>2. CASE GetBatchByNumber
      BY <1>4, <3>2, RemoteAssumption DEF GetBatchByNumber, Answered
    <3> QED  BY <2>1, <3>1, <3>2
  <2> QED  BY <1>2, <2>2, ReplyTrue
<1> QED  BY <1>3, <1>4

\* All of it together, in every state of builder and reader.
LEMMA QueriesCorrect ==
  QuerySpec => [](StoreInv /\ QueryInv /\ VerifiedIsFinal)
<1>1. QueryInit => StoreInv /\ QueryInv /\ VerifiedIsFinal
  BY RemoteAssumption
  DEF QueryInit, Init, StoreInv, Saved, QueryInv, NoBatch, VerifiedIsFinal
<1>2. StoreInv /\ QueryInv /\ VerifiedIsFinal /\ [QueryNext]_allVars
        => StoreInv' /\ QueryInv' /\ VerifiedIsFinal'
  <2>1. [QueryNext]_allVars => [Next]_vars
    BY QueryStep
  <2> QED  BY <2>1, StoreStep, ReaderStep, FinalStep
<1> QED  BY <1>1, <1>2, PTL DEF QuerySpec

(***************************************************************************)
(* What a reader was told is verified stays verified, whatever the         *)
(* services do to the batches that follow.                                 *)
(***************************************************************************)
THEOREM AnswersAreFinal == QuerySpec => []VerifiedIsFinal
BY QueriesCorrect, PTL

(***************************************************************************)
(* The scan of getLatestBatch over a growing store ends at a batch no      *)
(* older than the newest when the request came in.                         *)
(***************************************************************************)
THEOREM LatestIsFound == QuerySpec => LatestFound
<1>1. StoreInv /\ QueryInv /\ [QueryNext]_allVars =>
        [rpc = "read" /\ rpc' = "idle"
           => /\ answer'.no >= since /\ answer'.no >= answer.no
              /\ answer' # NoBatch
              /\ \A n \in 1..(answer'.no - 1) : Verified(n)]_allVars
  <2> SUFFICES ASSUME StoreInv, QueryInv, QueryNext,
                      rpc = "read", rpc' = "idle"
               PROVE  /\ answer'.no >= since /\ answer'.no >= answer.no
                      /\ answer' # NoBatch
                      /\ \A n \in 1..(answer'.no - 1) : Verified(n)
    OBVIOUS
  <2>1. ReadLatest
    BY DEF QueryNext, GetLatestBatch, ScanNext, ScanEnds, GetBatchByNumber,
       reader
  <2>2. /\ Len(ledger) \in Nat /\ DOMAIN ledger = 1..Len(ledger)
        /\ batchNo \in 1..Len(ledger) /\ batchNo \in Nat
        /\ batchNo >= since /\ batchNo >= answer.no
    BY DEF QueryInv, StoreInv
  <2>3. answer' # NoBatch /\ answer'.no = batchNo
    BY <2>1, <2>2, Found DEF ReadLatest
  <2>4. ASSUME NEW n \in 1..(batchNo - 1) PROVE Verified(n)
    <3>1. Len(ledger) <= no /\ no \in Nat
      BY DEF StoreInv
    <3>2. n \in 1..Len(ledger)
      BY <2>2
    <3>3. n <= batchNo - 1 /\ batchNo <= Len(ledger)
      BY <2>2
    <3>4. n \in 1..(no - 1)
      BY <2>2, <3>1, <3>2, <3>3
    <3> QED  BY <2>2, <3>2, <3>4 DEF StoreInv, Verified
  <2> QED  BY <2>2, <2>3, <2>4
<1> QED  BY <1>1, QueriesCorrect, PTL DEF QuerySpec, LatestFound

=============================================================================
