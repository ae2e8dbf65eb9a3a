---------------------------- MODULE RemoteCalls ----------------------------
(***************************************************************************)
(* How the batching goroutine takes a batch to the DA layer (batch/da),    *)
(* to Junction (junction/client.go) and to the prover                      *)
(* (prover/proverClient.go), attempt by attempt: what each client repeats, *)
(* how long it waits, and when it gives up.  BatchPipeline takes a call    *)
(* for one step; here a failed attempt is a step of its own, and nothing   *)
(* bounds how many there are.                                              *)
(*                                                                         *)
(* Whether Junction takes a batch number twice is not said in this         *)
(* repository: strict, fixed at the start, covers both.                    *)
(***************************************************************************)
EXTENDS Integers, Sequences, FiniteSetsExt

CONSTANTS
  MaxBatch,  \* bound: batches made
  DAClients  \* the configured DA layers considered

ASSUME RemoteAssumption ==
  MaxBatch \in Nat /\ DAClients \subseteq {"celestia", "avail"}

VARIABLES
  \* The configuration.
  daClient, strict,
  \* The builder: its place, the number of the batch, and of the call it is in
  \* the next backoff of the DA client, the attempt of the prover client and
  \* the seconds slept last.
  stage, no, backoff, attempt, wait,
  \* The batch store, entry n being what is under batch_<n>.
  ledger,
  \* What Junction has recorded, by batch number.
  metadata, settled

config   == <<daClient, strict>>
builder  == <<stage, no, backoff, attempt, wait>>
junction == <<metadata, settled>>
vars == <<config, builder, ledger, junction>>

Init ==
  /\ daClient \in DAClients /\ strict \in BOOLEAN
  /\ stage = "create" /\ no = 1
  /\ backoff = 1 /\ attempt = 1 /\ wait = 0
  /\ ledger = <<>>
  /\ metadata = {} /\ settled = {}

\* On to another place of the builder; a call begins with its counters reset.
Go(place) ==
  stage' = place /\ wait' = 0 /\ backoff' = 1 /\ attempt' = 1

CreateBatch ==
  /\ stage = "create" /\ no <= MaxBatch
  /\ Go("da")
  /\ UNCHANGED <<config, no, ledger, junction>>

\* The batches of the model are made; the builder waits for transactions.
AwaitTransactions ==
  /\ stage = "create" /\ no > MaxBatch
  /\ UNCHANGED vars

----------------------------------------------------------------------------
(***************************************************************************)
(* SubmitToDA of both clients: repeated for ever, with a backoff that is   *)
(* doubled while it is below a minute.  Only Celestia's can give up, when  *)
(* the blob cannot be built; the batch then goes on without a commitment.  *)
(***************************************************************************)
SubmitToDA ==
  /\ stage = "da"
  /\ Go("save1")
  /\ UNCHANGED <<config, no, ledger, junction>>

\* The blob is made once, before the first attempt.
BlobError ==
  /\ stage = "da" /\ daClient = "celestia" /\ wait = 0
  /\ Go("save1")
  /\ UNCHANGED <<config, no, ledger, junction>>

\* Mutant: doubled without a limit.
NextBackoffUnlimited(seconds) == IF seconds < 500 THEN 2 * seconds ELSE seconds

\* Mutant: the backoff starts over after a minute.
NextBackoffStartsOver(seconds) == IF seconds < 60 THEN 2 * seconds ELSE 1

NextBackoff(seconds) == IF seconds < 60 THEN 2 * seconds ELSE seconds

\* No answer within the minute, an error, or a blob that was not included.
DAFails ==
  /\ stage = "da"
  /\ wait' = backoff
  /\ backoff' = NextBackoff(backoff)
  /\ UNCHANGED <<config, stage, no, attempt, ledger, junction>>

----------------------------------------------------------------------------
(***************************************************************************)
(* SaveBatch, three times: the batch as it was created, submitted and      *)
(* verified.                                                               *)
(***************************************************************************)
Entry(status) == [content |-> no, status |-> status]

SaveBatch(status) ==
  ledger' = [n \in 1..Max({no, Len(ledger)}) |->
               IF n = no THEN Entry(status) ELSE ledger[n]]

SavePublished ==
  /\ stage = "save1"
  /\ SaveBatch("published")
  /\ Go("metadata")
  /\ UNCHANGED <<config, no, junction>>

SaveSubmitted ==
  /\ stage = "save2"
  /\ SaveBatch("submitted")
  /\ Go("prove")
  /\ UNCHANGED <<config, no, junction>>

\* Mutant: the batch number is not counted up.
SaveVerifiedSameNumber ==
  /\ stage = "save3"
  /\ SaveBatch("verified")
  /\ no' = no
  /\ Go("create")
  /\ UNCHANGED <<config, junction>>

SaveVerified ==
  /\ stage = "save3"
  /\ SaveBatch("verified")
  /\ no' = no + 1
  /\ Go("create")
  /\ UNCHANGED <<config, junction>>

----------------------------------------------------------------------------
(***************************************************************************)
(* SubmitBatchMetadata and SubmitBatch: repeated every five seconds until  *)
(* a transaction is answered with code 0.                                  *)
(***************************************************************************)
Refused(recorded) == strict /\ no \in recorded

\* Mutant: any answer will do, whatever its code.
SubmitBatchMetadataAnyCode ==
  /\ stage = "metadata"
  /\ metadata' = metadata \cup {no}
  /\ Go("save2")
  /\ UNCHANGED <<config, no, ledger, settled>>

SubmitBatchMetadata ==
  /\ stage = "metadata" /\ ~Refused(metadata)
  /\ metadata' = metadata \cup {no}
  /\ Go("save2")
  /\ UNCHANGED <<config, no, ledger, settled>>

\* Mutant: a batch whose answer was lost is not submitted again.
SubmitBatchOnce ==
  /\ stage = "settle" /\ no \notin settled
  /\ settled' = settled \cup {no}
  /\ Go("save3")
  /\ UNCHANGED <<config, no, ledger, metadata>>

SubmitBatch ==
  /\ stage = "settle" /\ ~Refused(settled)
  /\ settled' = settled \cup {no}
  /\ Go("save3")
  /\ UNCHANGED <<config, no, ledger, metadata>>

\* Recorded, but the answer does not come back.
AnswerLost ==
  /\ \/ stage = "metadata" /\ metadata' = metadata \cup {no} /\ UNCHANGED settled
     \/ stage = "settle" /\ settled' = settled \cup {no} /\ UNCHANGED metadata
  /\ wait' = 5
  /\ UNCHANGED <<config, stage, no, backoff, attempt, ledger>>

\* Too little balance, no connection, or an answer with another code.
JunctionFails ==
  /\ stage \in {"metadata", "settle"}
  /\ wait' = 5
  /\ UNCHANGED <<config, stage, no, backoff, attempt, ledger, junction>>

----------------------------------------------------------------------------
(***************************************************************************)
(* ProverGenerate: attempt k is followed by a wait of k - 1 seconds, at    *)
(* most 60.  Attempts are counted up to AttemptCap, beyond which nothing   *)
(* changes.                                                                *)
(***************************************************************************)
AttemptCap == 62

ProverGenerate ==
  /\ stage = "prove"
  /\ Go("settle")
  /\ UNCHANGED <<config, no, ledger, junction>>

ProverWait(k) == Min({k - 1, 60})

\* No answer within five minutes, one that does not parse, or one that reports
\* a failure: a 400 or a 404 whose body arrives is among them.
ProverFails ==
  /\ stage = "prove"
  /\ wait' = ProverWait(attempt)
  /\ attempt' = Min({attempt + 1, AttemptCap})
  /\ UNCHANGED <<config, stage, no, backoff, ledger, junction>>

\* Mutant: the batch is skipped.
ProverGivesUpSkips ==
  /\ stage = "prove"
  /\ Go("create")
  /\ no' = no + 1
  /\ UNCHANGED <<config, ledger, junction>>

\* Only such a status with a body that breaks off ends the call; the loop of
\* the builder then creates the batch again.
ProverGivesUp ==
  /\ stage = "prove"
  /\ Go("create")
  /\ UNCHANGED <<config, no, ledger, junction>>

Local == CreateBatch \/ SavePublished \/ SaveSubmitted \/ SaveVerified

Next ==
  \/ Local \/ AwaitTransactions
  \/ SubmitToDA \/ BlobError \/ DAFails
  \/ SubmitBatchMetadata \/ SubmitBatch \/ AnswerLost \/ JunctionFails
  \/ ProverGenerate \/ ProverFails \/ ProverGivesUp

Spec == Init /\ [][Next]_vars

(***************************************************************************)
(* The builder's own steps are taken, and a service that is asked for ever *)
(* is not for ever out of reach: an attempt it would serve is served.      *)
(***************************************************************************)
Fairness ==
  /\ WF_vars(Local)
  /\ SF_vars(SubmitToDA) /\ SF_vars(SubmitBatchMetadata)
  /\ SF_vars(ProverGenerate) /\ SF_vars(SubmitBatch)

FairSpec == Spec /\ Fairness

----------------------------------------------------------------------------
(***************************************************************************)
(* Properties.                                                             *)
(***************************************************************************)

Calls == {"da", "metadata", "prove", "settle"}

\* The type invariant.  A sleep belongs to a call.
TypeOK ==
  /\ daClient \in DAClients /\ strict \in BOOLEAN
  /\ stage \in Calls \cup {"create", "save1", "save2", "save3"}
  /\ no \in 1..(MaxBatch + 1)
  /\ backoff \in {1, 2, 4, 8, 16, 32, 64}
  /\ attempt \in 1..AttemptCap
  /\ wait \in 0..64 /\ (wait # 0 => stage \in Calls)
  /\ \A n \in DOMAIN ledger :
       ledger[n] \in [content : 1..MaxBatch,
                      status : {"published", "submitted", "verified"}]
  /\ metadata \subseteq 1..MaxBatch /\ settled \subseteq 1..MaxBatch

(***************************************************************************)
(* However many attempts a call takes, the pauses between them never get   *)
(* shorter and never longer than LongestWait: for the DA layer 64 seconds, *)
(* the first power of two not below a minute.                              *)
(***************************************************************************)
LongestWait == IF stage = "da" THEN 64 ELSE 60

WaitsGrow ==
  [][stage' = stage /\ stage \in {"da", "prove"} =>
       wait' >= wait /\ wait' <= LongestWait]_vars

(***************************************************************************)
(* However often each service fails, loses an answer or gives up, the      *)
(* stored batches advance one at a time and in order, each with the        *)
(* content due, and only a batch not yet verified is made again.           *)
(***************************************************************************)
Due(n) == n

Ledger == INSTANCE SettlementLedger WITH Contents <- 1..MaxBatch

CallsImplementLedger == Ledger!StrictSpec

(***************************************************************************)
(* A Junction that does not take a number twice, and has recorded the one  *)
(* the builder repeats: an answer was lost, or the prover was given up     *)
(* after the metadata were recorded.                                       *)
(***************************************************************************)
Stuck == \/ stage = "metadata" /\ Refused(metadata)
         \/ stage = "settle" /\ Refused(settled)

(***************************************************************************)
(* It holds the builder for ever: the message it repeats is refused every  *)
(* time, and no other step is open to it.                                  *)
(***************************************************************************)
StuckForEver == [][Stuck => Stuck' /\ UNCHANGED ledger]_vars

(***************************************************************************)
(* And nothing else does.  However often each service fails, loses an      *)
(* answer or gives up, every batch begun is verified in the end, unless it *)
(* is stuck.                                                               *)
(***************************************************************************)
Verified(n) == n \in DOMAIN ledger /\ ledger[n].status = "verified"

EveryBatchVerified ==
  \A n \in 1..MaxBatch : (no = n) ~> (Verified(n) \/ Stuck)

=============================================================================
