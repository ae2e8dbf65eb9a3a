------------------------------- MODULE TxPool -------------------------------
(***************************************************************************)
(* The way of a raw transaction from a client to Geth: the JSON-RPC        *)
(* handler (proxy.handleRPC) checks it, stores it in txnDB and adds it to  *)
(* the pool; the pool's goroutine (TxPool.Process) takes the whole pool,   *)
(* sorts it by gas limit and sends it to Geth, holding the mutex that the  *)
(* handlers need for AddTx all the while.  (The WebSocket handler answers  *)
(* the same request with the transaction's hash and does nothing.)         *)
(***************************************************************************)
EXTENDS Naturals, Sequences, FiniteSets, Functions

CONSTANTS
  Clients,      \* the handler goroutines of concurrent requests
  Txs,          \* the transactions clients send
  Gas,          \* Gas[t]: the gas limit of t
  Refused,      \* those the handler finds a fault with
  MaxRequests,  \* bound: requests sent by all clients
  MaxErrors,    \* bound: calls to Geth that return an error
  MaxCrashes    \* bound: crashes of the process

ASSUME PoolAssumption ==
  /\ Txs # {}
  /\ Gas \in [Txs -> Nat]
  /\ Refused \subseteq Txs
  /\ MaxRequests \in Nat /\ MaxErrors \in Nat /\ MaxCrashes \in Nat

VARIABLES
  handler,   \* handler[c]: where the request of c is, and its transaction
  answers,   \* the answers given so far
  requests,  \* how many requests were sent
  txnDB,     \* keys tx_<hex>, on disk
  txs,       \* TxPool.txs
  locked,    \* TxPool.mutex is held by Process
  txList,    \* the sorted transactions Process has still to send
  added,     \* added[t]: how often this process has added t to the pool
  offered,   \* offered[t]: how often it has sent t to Geth
  known,     \* the transactions Geth has
  errors, crashes

pool   == <<txs, locked, txList>>
counts == <<added, offered>>
vars   == <<handler, answers, requests, txnDB, pool, counts, known, errors,
            crashes>>

Answer == [tx : Txs, ok : BOOLEAN]

SomeTx == CHOOSE t \in Txs : TRUE
Idle   == [pc |-> "idle", tx |-> SomeTx]

Init ==
  /\ handler = [c \in Clients |-> Idle]
  /\ answers = {} /\ requests = 0
  /\ txnDB = {}
  /\ txs = <<>> /\ locked = FALSE /\ txList = <<>>
  /\ added = [t \in Txs |-> 0] /\ offered = [t \in Txs |-> 0]
  /\ known = {}
  /\ errors = 0 /\ crashes = 0

----------------------------------------------------------------------------
\* Mutant: every check passes.
AdmittedUnchecked(t) == TRUE

(***************************************************************************)
(* The handlers.  A transaction is refused whose hex does not decode (a 0x *)
(* in front is not stripped), whose bytes are not RLP of a transaction (a  *)
(* typed transaction in its own envelope is not), whose signature does not *)
(* verify, or which asks for no gas.                                       *)
(***************************************************************************)
Admitted(t) == t \notin Refused

SendRequest(c) ==
  /\ handler[c].pc = "idle"
  /\ requests < MaxRequests /\ requests' = requests + 1

DenyRequest(c, t) ==
  /\ SendRequest(c)
  /\ ~Admitted(t)
  /\ answers' = answers \cup {[tx |-> t, ok |-> FALSE]}
  /\ UNCHANGED <<handler, txnDB, pool, counts, known, errors, crashes>>

AdmitRequest(c, t) ==
  /\ SendRequest(c)
  /\ Admitted(t)
  /\ handler' = [handler EXCEPT ![c] = [pc |-> "put", tx |-> t]]
  /\ UNCHANGED <<answers, txnDB, pool, counts, known, errors, crashes>>

AnswerOk(t) == answers' = answers \cup {[tx |-> t, ok |-> TRUE]}

PutTx(c) ==
  /\ handler[c].pc = "put"
  /\ txnDB' = txnDB \cup {handler[c].tx}
  /\ handler' = [handler EXCEPT ![c].pc = "add"]
  /\ UNCHANGED <<answers, requests, pool, counts, known, errors, crashes>>

\* Mutant: appends without the mutex.
AddTxUnlocked(c) ==
  /\ handler[c].pc = "add"
  /\ txs' = Append(txs, handler[c].tx)
  /\ added' = [added EXCEPT ![handler[c].tx] = @ + 1]
  /\ AnswerOk(handler[c].tx)
  /\ handler' = [handler EXCEPT ![c] = Idle]
  /\ UNCHANGED <<requests, txnDB, locked, txList, offered, known, errors,
                 crashes>>

\* The append under the mutex, and the answer with the transaction's hash.
AddTx(c) ==
  /\ handler[c].pc = "add"
  /\ ~locked
  /\ txs' = Append(txs, handler[c].tx)
  /\ added' = [added EXCEPT ![handler[c].tx] = @ + 1]
  /\ AnswerOk(handler[c].tx)
  /\ handler' = [handler EXCEPT ![c] = Idle]
  /\ UNCHANGED <<requests, txnDB, locked, txList, offered, known, errors,
                 crashes>>

Handler ==
  \E c \in Clients :
    \/ \E t \in Txs : DenyRequest(c, t) \/ AdmitRequest(c, t)
    \/ PutTx(c)
    \/ AddTx(c)

----------------------------------------------------------------------------
(***************************************************************************)
(* TxPool.Process.  sort.Slice is not stable: any order by decreasing gas  *)
(* may come out.                                                           *)
(***************************************************************************)
GasOrders(s) ==
  {[i \in DOMAIN s |-> s[p[i]]] : p \in
    {q \in Bijection(DOMAIN s, DOMAIN s) :
       \A i, j \in DOMAIN s : i < j => Gas[s[q[i]]] >= Gas[s[q[j]]]}}

\* With an empty pool Process sleeps for a second and looks again.
Sleep ==
  /\ ~locked
  /\ txs = <<>>
  /\ UNCHANGED vars

TakePool ==
  /\ ~locked
  /\ txs # <<>>
  /\ locked' = TRUE
  /\ txList' \in GasOrders(txs)
  /\ UNCHANGED <<handler, answers, requests, txnDB, txs, counts, known,
                 errors, crashes>>

Offer(t) ==
  /\ locked /\ txList # <<>> /\ t = Head(txList)
  /\ txList' = Tail(txList)
  /\ offered' = [offered EXCEPT ![t] = @ + 1]
  /\ UNCHANGED <<handler, answers, requests, txnDB, locked, added, crashes>>

\* Geth takes the transaction, or says that it is already known.
SendRawTransaction ==
  \E t \in Txs :
    /\ Offer(t)
    /\ known' = known \cup {t}
    /\ UNCHANGED <<txs, errors>>

\* Any other error, of the call or of Geth; the call may have got through.
SendFails ==
  /\ errors < MaxErrors
  /\ errors' = errors + 1
  /\ \E t \in Txs :
       /\ Offer(t)
       /\ known' \in {known, known \cup {t}}
       /\ txs' = Append(txs, t)

\* Mutant: the mutex is not released.
ClearPoolKeepsLock ==
  /\ locked /\ txList = <<>>
  /\ txs' = <<>>
  /\ UNCHANGED <<handler, answers, requests, txnDB, txList, locked, counts,
                 known, errors, crashes>>

ClearPool ==
  /\ locked /\ txList = <<>>
  /\ txs' = <<>>
  /\ locked' = FALSE
  /\ UNCHANGED <<handler, answers, requests, txnDB, txList, counts, known,
                 errors, crashes>>

Process == Sleep \/ TakePool \/ SendRawTransaction \/ SendFails \/ ClearPool

----------------------------------------------------------------------------
\* The pool is in memory only; txnDB is not read again after a restart.
Crash ==
  /\ crashes < MaxCrashes
  /\ crashes' = crashes + 1
  /\ handler' = [c \in Clients |-> Idle]
  /\ txs' = <<>> /\ locked' = FALSE /\ txList' = <<>>
  /\ added' = [t \in Txs |-> 0] /\ offered' = [t \in Txs |-> 0]
  /\ UNCHANGED <<answers, requests, txnDB, known, errors>>

Next == Handler \/ Process \/ Crash

Spec == Init /\ [][Next]_vars

(***************************************************************************)
(* Process and the handlers run, and every call to Geth returns.  A Go     *)
(* mutex hands itself to a goroutine that has waited for a millisecond, so *)
(* AddTx gets it although Process takes it back at once: strong fairness.  *)
(***************************************************************************)
FairSpec ==
  /\ Spec
  /\ WF_vars(Process)
  /\ \A c \in Clients : WF_vars(PutTx(c)) /\ SF_vars(AddTx(c))

----------------------------------------------------------------------------
(***************************************************************************)
(* Properties.                                                             *)
(***************************************************************************)

\* The type invariant.  No refused transaction is stored, pooled or sent.
Checked == Txs \ Refused

TypeOK ==
  /\ handler \in [Clients -> [pc : {"idle", "put", "add"}, tx : Txs]]
  /\ answers \subseteq Answer
  /\ requests \in 0..MaxRequests
  /\ txnDB \subseteq Checked
  /\ txs \in Seq(Checked) /\ locked \in BOOLEAN /\ txList \in Seq(Checked)
  /\ added \in [Txs -> Nat] /\ offered \in [Txs -> Nat]
  /\ known \subseteq Checked
  /\ errors \in 0..MaxErrors /\ crashes \in 0..MaxCrashes

(***************************************************************************)
(* Since the process started, every transaction added to the pool is in    *)
(* it, in the hands of Process, or was sent to Geth, exactly once for each *)
(* time it was added: the clearing at the end of a pass wipes out no       *)
(* addition, and no pass sends what an earlier pass has sent.              *)
(***************************************************************************)
Copies(s, t) == Cardinality({i \in DOMAIN s : s[i] = t})

OfferedOnce ==
  \A t \in Txs :
    added[t] = offered[t] + Copies(IF locked THEN txList ELSE txs, t)

\* What was added to the pool is eventually sent to Geth, or the process dies.
AddedIsOffered ==
  \A t \in Txs : (added[t] > offered[t]) ~> (added[t] = offered[t])

\* A handler is never held up for ever by the passes of Process.
RequestIsAnswered ==
  \A c \in Clients : (handler[c].pc # "idle") ~> (handler[c].pc = "idle")

----------------------------------------------------------------------------
(***************************************************************************)
(* A claim of the log that the code does not keep.                         *)
(***************************************************************************)

\* pool.go:66, "Failed to send tx %s, retrying": a transaction that Geth did
\* not take stays in the pool.  The clearing of the pool takes it out.
FailedIsRetried ==
  \A t \in Txs :
    offered[t] > 0 => t \in known \cup Range(txs) \cup Range(txList)

=============================================================================
