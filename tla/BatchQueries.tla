---------------------------- MODULE BatchQueries ----------------------------
(***************************************************************************)
(* The two RPC methods that read the batch store while the builder writes  *)
(* it (proxy/proxy.go).  getLatestBatch looks at batch_1, batch_2, ... one *)
(* Get after the other until a key is missing, and then reads the one      *)
(* before; getBatchByNumber is a single Get.                               *)
(***************************************************************************)
EXTENDS RemoteCalls

VARIABLES
  rpc,      \* place of the handler: idle, scan, read
  batchNo,  \* the key the handler is at
  since,    \* history: the batches stored when the request came in
  answer,   \* the last answer of getLatestBatch
  final     \* history: the batches answered as verified by either method

reader == <<rpc, batchNo, since, answer, final>>
allVars == <<vars, reader>>

\* batchDB.Get and the status of what it returns.
NoBatch == [no |-> 0, status |-> "none"]
Get(n) == IF n \in DOMAIN ledger THEN [no |-> n, status |-> ledger[n].status]
                                 ELSE NoBatch

QueryInit ==
  /\ Init
  /\ rpc = "idle" /\ batchNo = 0 /\ since = 0
  /\ answer = NoBatch /\ final = {}

Answered(reply) ==
  final' = final \cup (IF reply.status = "verified" THEN {reply.no} ELSE {})

GetLatestBatch ==
  /\ rpc = "idle"
  /\ rpc' = "scan" /\ batchNo' = 1 /\ since' = Len(ledger)
  /\ UNCHANGED <<vars, answer, final>>

ScanNext ==
  /\ rpc = "scan" /\ Get(batchNo) # NoBatch
  /\ batchNo' = batchNo + 1
  /\ UNCHANGED <<vars, rpc, since, answer, final>>

\* Mutant: the number is not taken back by one.
ScanEndsBehind ==
  /\ rpc = "scan" /\ Get(batchNo) = NoBatch
  /\ batchNo' = batchNo
  /\ rpc' = IF batchNo' < 1 THEN "idle" ELSE "read"
  /\ UNCHANGED <<vars, since, answer, final>>

\* With no batch at all the request ends in an error.
ScanEnds ==
  /\ rpc = "scan" /\ Get(batchNo) = NoBatch
  /\ batchNo' = batchNo - 1
  /\ rpc' = IF batchNo' < 1 THEN "idle" ELSE "read"
  /\ UNCHANGED <<vars, since, answer, final>>

ReadLatest ==
  /\ rpc = "read"
  /\ answer' = Get(batchNo)
  /\ Answered(answer')
  /\ rpc' = "idle"
  /\ UNCHANGED <<vars, batchNo, since>>

GetBatchByNumber ==
  /\ rpc = "idle"
  /\ \E n \in 1..MaxBatch : Answered(Get(n))
  /\ UNCHANGED <<vars, rpc, batchNo, since, answer>>

QueryNext ==
  \/ Next /\ UNCHANGED reader
  \/ GetLatestBatch \/ ScanNext \/ ScanEnds \/ ReadLatest \/ GetBatchByNumber

QuerySpec == QueryInit /\ [][QueryNext]_allVars /\ Fairness

----------------------------------------------------------------------------
(***************************************************************************)
(* Properties.                                                             *)
(***************************************************************************)

(***************************************************************************)
(* getLatestBatch finds a batch although the store grows under its scan:   *)
(* one at least as new as the newest when the request came in, and every   *)
(* batch before the one it answers with is verified.                       *)
(***************************************************************************)
LatestFound ==
  [][rpc = "read" /\ rpc' = "idle"
       => /\ answer'.no >= since /\ answer'.no >= answer.no
          /\ answer' # NoBatch
          /\ \A n \in 1..(answer'.no - 1) : Verified(n)]_allVars

(***************************************************************************)
(* What a reader has once been told is verified stays so: neither method   *)
(* ever answers otherwise, whatever the services do to later batches.      *)
(***************************************************************************)
VerifiedIsFinal == \A n \in final : Verified(n)

=============================================================================
