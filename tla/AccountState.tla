---------------------------- MODULE AccountState ----------------------------
(***************************************************************************)
(* The sequencer's own copy of the Ethereum accounts (state/state.go) and  *)
(* how ProcessTransaction (state/processor.go) brings it forward, one      *)
(* mined transaction after the other: the state roots of the batches are   *)
(* computed from it.  It never executes a transaction; it moves balances   *)
(* by a formula of its own and asks the node behind RpcClient              *)
(* (eth/rpc.go) for the gas used and for the storage of a contract.  What  *)
(* Geth does to its accounts for the same transactions is the reference    *)
(* ledger GethLedger.                                                      *)
(*                                                                         *)
(* The crash model is that of BatchPipeline: the account database and      *)
(* last_block survive, and a block not yet committed is read again.        *)
(***************************************************************************)
EXTENDS Integers, Sequences, FiniteSets, FiniteSetsExt

CONSTANTS
  Users,       \* externally owned accounts
  New,         \* the missing recipient of a contract creation
  Genesis,     \* the balances genesis.json allocates to some of them
  Slots,       \* the storage slots of a contract
  Kinds,       \* the transactions users send
  BaseFee,     \* Geth's base fee, taken to be constant
  MaxBlock,    \* bound: the last block Geth produces
  TxsUpTo,     \* TxsUpTo[b]: how many transactions blocks 1..b hold
  MaxCrashes,  \* bound: crashes of the process
  MaxFaults    \* bound: failed or empty answers to GetGasUsed

\* A deployed contract's address is a function of its creator and the nonce.
ContractAddress(creator, nonce) == [creator |-> creator, nonce |-> nonce]
MaxTx == TxsUpTo[MaxBlock]
Contracts == {ContractAddress(u, n) : u \in Users, n \in 0..(MaxCrashes + 1) * MaxTx}
Address   == Users \cup Contracts

(***************************************************************************)
(* A transaction: value and gas limit, the gas it really uses, its price   *)
(* (the fee cap, for a dynamic-fee one) and tip, whether it has call data, *)
(* whether it reverts, and what the called contract pays back to the       *)
(* sender by an internal transfer.                                         *)
(***************************************************************************)
Transaction ==
  [from : Users, to : Address \cup {New}, value : Nat, gas : Nat, used : Nat,
   dynamic : BOOLEAN, price : Nat, tip : Nat, data : BOOLEAN,
   reverts : BOOLEAN, inner : Nat]

ASSUME AccountAssumption ==
  /\ DOMAIN Genesis \subseteq Users /\ \A u \in DOMAIN Genesis : Genesis[u] \in Nat
  /\ \A t \in Kinds : t \in Transaction /\ t.used <= t.gas
                     /\ (t.inner > 0 => t.to \in Contracts)
  /\ Users \cap Contracts = {} /\ New \notin Address
  /\ BaseFee \in Nat /\ \A t \in Kinds : t.price >= BaseFee
  /\ MaxBlock \in Nat \ {0}
  /\ TxsUpTo \in [0..MaxBlock -> Nat] /\ TxsUpTo[0] = 0
  /\ \A b, c \in 0..MaxBlock : b <= c => TxsUpTo[b] <= TxsUpTo[c]
  /\ MaxCrashes \in Nat /\ MaxFaults \in Nat

(***************************************************************************)
(* An account as it is stored.  A slot is in storage when a value has been *)
(* fetched for it.                                                         *)
(***************************************************************************)
Account == [balance : Int, nonce : Nat, code : BOOLEAN, storage : SUBSET Slots]

\* CreateAccount: whatever was under the address is replaced.
CreateAccount(balance) ==
  [balance |-> balance, nonce |-> 0, code |-> FALSE, storage |-> {}]

\* GetAccount of an address that is not stored is an empty account.
EmptyAccount == CreateAccount(0)
GetAccount(db, a) == IF a \in DOMAIN db THEN db[a] ELSE EmptyAccount

SaveAccount(db, a, account) ==
  [x \in DOMAIN db \cup {a} |-> IF x = a THEN account ELSE db[x]]

\* UpdateAccount keeps the code and the storage of what is stored.
UpdateAccount(db, a, balance, nonce) ==
  SaveAccount(db, a, [GetAccount(db, a) EXCEPT !.balance = balance,
                                               !.nonce = nonce])

SetStorage(db, a, slot) ==
  SaveAccount(db, a, [GetAccount(db, a) EXCEPT !.storage = @ \cup {slot}])

----------------------------------------------------------------------------
(***************************************************************************)
(* Geth's ledger: what it charges, pays out and creates.  A transaction is *)
(* mined only when it is valid.                                            *)
(***************************************************************************)
EffectivePrice(t) ==
  IF t.dynamic THEN Min({t.price, BaseFee + t.tip}) ELSE t.price

GethTarget(ledger, t) ==
  IF t.to = New THEN ContractAddress(t.from, GetAccount(ledger, t.from).nonce)
                ELSE t.to

Valid(ledger, t) ==
  LET payer  == GetAccount(ledger, t.from)
      target == GetAccount(ledger, t.to)
  IN /\ payer.balance >= t.value + t.gas * t.price
     /\ t.to \in Contracts => target.code
     /\ t.to \in Contracts /\ ~t.reverts => t.inner <= target.balance + t.value

GethApply(ledger, t) ==
  LET target == GethTarget(ledger, t)
      moved  == IF t.reverts THEN 0 ELSE t.value - t.inner
      payer  == GetAccount(ledger, t.from)
      paid   == UpdateAccount(ledger, t.from,
                  payer.balance - moved - t.used * EffectivePrice(t),
                  payer.nonce + 1)
      account == GetAccount(paid, target)
  IN IF t.reverts
     THEN paid
     ELSE SaveAccount(paid, target,
            [account EXCEPT !.balance = @ + moved,
                            !.nonce = IF t.to = New THEN 1 ELSE @,
                            !.code  = @ \/ t.to = New])

GenesisLedger == [u \in DOMAIN Genesis |-> CreateAccount(Genesis[u])]

\* GethLedger(txs)[n]: the ledger after the first n of the transactions.
GethLedger(txs) ==
  LET Ledger[n \in 0..Len(txs)] ==
        IF n = 0 THEN GenesisLedger ELSE GethApply(Ledger[n - 1], txs[n])
  IN Ledger

\* The chains Geth can produce, of transactions of the given kinds.
Chains ==
  {txs \in [1..MaxTx -> Kinds] :
     \A i \in 1..MaxTx : Valid(GethLedger(txs)[i - 1], txs[i])}

----------------------------------------------------------------------------
VARIABLES
  chain,        \* the mined transactions in block order
  \* What survives a crash.
  dbLastBlock,  \* key last_block of batchDB; 0 when absent
  accounts,     \* the account database: address -> account
  \* The indexing goroutine.
  ipc, lastBlock, pos,
  todo,         \* the fetched slots still to be written
  \* History.
  refused,      \* the transactions ProcessTransaction returned an error for
  unmetered,    \* those last charged without their receipt
  crashes, faults

durable == <<dbLastBlock, accounts>>
indexer == <<ipc, lastBlock, pos, todo>>
history == <<refused, unmetered, crashes, faults>>
vars == <<chain, durable, indexer, history>>

Init ==
  /\ chain \in Chains
  /\ dbLastBlock = 0
  /\ accounts = [a \in {} |-> EmptyAccount]
  /\ ipc = "start" /\ lastBlock = 0 /\ pos = 0 /\ todo = {}
  /\ refused = {} /\ unmetered = {} /\ crashes = 0 /\ faults = 0

(***************************************************************************)
(* Start-up.  Genesis accounts are created over whatever an earlier start  *)
(* left under their addresses; other accounts stay.  The account of the    *)
(* signer is never created, GetAccount returning no error for it.          *)
(***************************************************************************)
LoadGenesis ==
  /\ ipc = "start" /\ dbLastBlock = 0
  /\ accounts' = [a \in DOMAIN accounts \cup DOMAIN Genesis |->
                    IF a \in DOMAIN Genesis THEN CreateAccount(Genesis[a])
                                            ELSE accounts[a]]
  /\ ipc' = "fetch" /\ lastBlock' = 1
  /\ UNCHANGED <<chain, dbLastBlock, pos, todo, history>>

\* Mutant: progress is not read back.
ResumeAtFirst ==
  /\ ipc = "start" /\ dbLastBlock # 0
  /\ ipc' = "fetch" /\ lastBlock' = 1
  /\ UNCHANGED <<chain, durable, pos, todo, history>>

Resume ==
  /\ ipc = "start" /\ dbLastBlock # 0
  /\ ipc' = "fetch" /\ lastBlock' = dbLastBlock
  /\ UNCHANGED <<chain, durable, pos, todo, history>>

AtTransaction(p) == IF p > TxsUpTo[lastBlock] THEN "commit" ELSE "from"

FetchBlock ==
  /\ ipc = "fetch" /\ lastBlock <= MaxBlock
  /\ pos' = TxsUpTo[lastBlock - 1] + 1
  /\ ipc' = AtTransaction(pos')
  /\ UNCHANGED <<chain, durable, lastBlock, todo, history>>

\* All blocks are processed; the indexer asks for a new one for ever.
AwaitBlock ==
  /\ ipc = "fetch" /\ lastBlock > MaxBlock
  /\ UNCHANGED vars

CommitBlock ==
  /\ ipc = "commit"
  /\ lastBlock' = lastBlock + 1 /\ dbLastBlock' = lastBlock'
  /\ ipc' = "fetch"
  /\ UNCHANGED <<chain, accounts, pos, todo, history>>

----------------------------------------------------------------------------
(***************************************************************************)
(* ProcessTransaction.  The sender first.                                  *)
(***************************************************************************)
tx == chain[pos]
sender == GetAccount(accounts, tx.from)

\* An EIP-1559 transaction is charged the fee cap and the tip on top of it.
GasPrice(t) == IF t.dynamic THEN t.price + t.tip ELSE t.price

TotalCost(t, used) == t.value + used * GasPrice(t)

Refund(t, used) == (t.gas - used) * GasPrice(t)

\* Mutant: the balance is not looked at.
AcceptsAnyBalance(used) == used <= tx.gas

Accepts(used) == used <= tx.gas /\ sender.balance >= TotalCost(tx, used)

\* GetGasUsed: the receipt's gas, or, for a receipt not there yet, zero: the
\* answer is null, which unmarshals without an error.
GasUsedAnswer(used) ==
  \/ /\ used = tx.used
     /\ unmetered' = unmetered \ {pos}
     /\ UNCHANGED faults
  \/ /\ used = 0
     /\ unmetered' = unmetered \cup {pos}
     /\ faults < MaxFaults /\ faults' = faults + 1

\* The sender pays the gas used and is refunded what is left of the limit.
UpdateSender ==
  /\ ipc = "from"
  /\ \E used \in {0, tx.used} :
       /\ GasUsedAnswer(used)
       /\ Accepts(used)
       /\ accounts' = UpdateAccount(accounts, tx.from,
            sender.balance - TotalCost(tx, used) + Refund(tx, used),
            sender.nonce + 1)
  /\ ipc' = "to"
  /\ UNCHANGED <<chain, dbLastBlock, lastBlock, pos, todo, refused, crashes>>

\* ProcessTransaction returns; its error, if any, is dropped by ProcessBlocks.
NextTransaction ==
  /\ pos' = pos + 1
  /\ ipc' = AtTransaction(pos')
  /\ UNCHANGED <<chain, dbLastBlock, lastBlock>>

\* The three attempts of Call all fail, or the balance is too small.
RejectTransaction ==
  /\ ipc = "from"
  /\ \/ faults < MaxFaults /\ faults' = faults + 1
     \/ ~Accepts(tx.used) /\ UNCHANGED faults
  /\ refused' = refused \cup {pos}
  /\ NextTransaction
  /\ UNCHANGED <<accounts, todo, unmetered, crashes>>

\* Mutant: the nonce after the increment.
TargetAfterIncrement ==
  IF tx.to = New THEN ContractAddress(tx.from, sender.nonce) ELSE tx.to

(***************************************************************************)
(* The recipient.  The address of a new contract is computed from the      *)
(* sender's nonce in this database, not from the transaction's.            *)
(***************************************************************************)
Target == IF tx.to = New THEN ContractAddress(tx.from, sender.nonce - 1)
                         ELSE tx.to
recipient == GetAccount(accounts, Target)

\* Mutant: every recipient is taken for a new one.
AlwaysFresh(t, account) == TRUE

\* Mutant: the balance of a recipient is not looked at.
FreshByNonce(t, account) == t.to = New \/ account.nonce = 0

\* Created anew: a contract, and an account without balance and nonce.
Fresh(t, account) ==
  t.to = New \/ (account.balance = 0 /\ account.nonce = 0)

\* No write stores code, so only the contract creation fetches.
Fetches ==
  /\ tx.data
  /\ tx.to = New \/ (~Fresh(tx, recipient) /\ recipient.code)

(***************************************************************************)
(* FetchContractState gives the slots the transaction wrote; none when it  *)
(* fails, which is only logged.                                            *)
(***************************************************************************)
FetchContractState ==
  /\ ipc = "to" /\ Fetches
  /\ todo' \in SUBSET Slots
  /\ ipc' = "slots"
  /\ UNCHANGED <<chain, durable, lastBlock, pos, history>>

\* The slots come out of a map, in any order, and are written one by one.
SetNextStorage ==
  /\ ipc = "slots"
  /\ \E slot \in todo :
       /\ accounts' = SetStorage(accounts, Target, slot)
       /\ todo' = todo \ {slot}
  /\ UNCHANGED <<chain, dbLastBlock, ipc, lastBlock, pos, history>>

\* Mutant: a new contract keeps the slots written for it.
UpdateRecipientKeepsSlots ==
  /\ \/ ipc = "to" /\ ~Fetches
     \/ ipc = "slots" /\ todo = {}
  /\ accounts' =
       UpdateAccount(accounts, Target,
                     IF Fresh(tx, recipient) THEN tx.value
                                             ELSE recipient.balance + tx.value,
                     recipient.nonce)
  /\ NextTransaction
  /\ UNCHANGED <<todo, history>>

\* Then the account itself: creating it drops the slots just written.
UpdateRecipient ==
  /\ \/ ipc = "to" /\ ~Fetches
     \/ ipc = "slots" /\ todo = {}
  /\ accounts' =
       IF Fresh(tx, recipient)
       THEN SaveAccount(accounts, Target, CreateAccount(tx.value))
       ELSE UpdateAccount(accounts, Target, recipient.balance + tx.value,
                          recipient.nonce)
  /\ NextTransaction
  /\ UNCHANGED <<todo, history>>

Indexer ==
  \/ LoadGenesis \/ Resume \/ FetchBlock \/ AwaitBlock \/ CommitBlock
  \/ UpdateSender \/ RejectTransaction
  \/ FetchContractState \/ SetNextStorage \/ UpdateRecipient

Crash ==
  /\ crashes < MaxCrashes
  /\ ipc # "start"
  /\ crashes' = crashes + 1
  /\ ipc' = "start" /\ lastBlock' = 0 /\ pos' = 0 /\ todo' = {}
  /\ UNCHANGED <<chain, durable, refused, unmetered, faults>>

Next == Indexer \/ Crash

Spec == Init /\ [][Next]_vars

----------------------------------------------------------------------------
(***************************************************************************)
(* Properties.                                                             *)
(***************************************************************************)

InTransaction == {"from", "to", "slots"}

\* The type invariant; no balance is ever negative.
TypeOK ==
  /\ chain \in Seq(Kinds) /\ Len(chain) = MaxTx
  /\ dbLastBlock \in 0..(MaxBlock + 1)
  /\ DOMAIN accounts \subseteq Address
  /\ \A a \in DOMAIN accounts :
       accounts[a] \in Account /\ accounts[a].balance >= 0
  /\ ipc \in {"start", "fetch", "commit"} \cup InTransaction
  /\ lastBlock \in 0..(MaxBlock + 1)
  /\ pos \in 0..(MaxTx + 1)
  /\ ipc \in InTransaction => pos \in 1..MaxTx
  /\ todo \subseteq Slots
  /\ refused \subseteq 1..MaxTx /\ unmetered \subseteq 1..MaxTx
  /\ crashes \in 0..MaxCrashes /\ faults \in 0..MaxFaults

\* How many transactions are behind the indexer when it is between two.
Done == IF ipc = "fetch" THEN TxsUpTo[lastBlock - 1] ELSE pos - 1
Between == ipc \in {"fetch", "from", "commit"}

SentBy(u) == {i \in 1..Done : chain[i].from = u}
Undisturbed == crashes = 0 /\ refused = {}

\* Geth's ledger after the first n transactions, and the account paid by the
\* n-th one.
Ledger(n) == GethLedger(chain)[n]
Paid(n)   == GethTarget(Ledger(n - 1), chain[n])

\* The gas the copy was told the n-th transaction has used.
Metered(n) == IF n \in unmetered THEN 0 ELSE chain[n].used

(***************************************************************************)
(* How far the balances drift from Geth's when no transaction is refused   *)
(* or repeated: by the refund of gas nobody paid for, by what is charged   *)
(* for the gas the receipt names and not what Geth charges (the tip on top *)
(* of the fee cap, or nothing at all for a receipt not there yet), by the  *)
(* value of a reverted transaction and by internal transfers, and by       *)
(* nothing else, whatever accounts are created, paid and called in         *)
(* whatever order.                                                         *)
(***************************************************************************)
SenderGap(t, used) ==
  Refund(t, used) + (t.used * EffectivePrice(t) - used * GasPrice(t))
    - (IF t.reverts THEN t.value ELSE t.inner)
RecipientGap(t) == IF t.reverts THEN t.value ELSE t.inner

Gap(a, n) ==
  (IF chain[n].from = a THEN SenderGap(chain[n], Metered(n)) ELSE 0)
    + (IF Paid(n) = a THEN RecipientGap(chain[n]) ELSE 0)

\* Sums(f)[n]: the sum of f[1] to f[n].
Sums(f) ==
  LET Sum[n \in 0..MaxTx] == IF n = 0 THEN 0 ELSE Sum[n - 1] + f[n]
  IN Sum

Drift(a) == Sums([n \in 1..MaxTx |-> Gap(a, n)])

BalanceDrift ==
  Undisturbed /\ Between =>
    \A a \in Address :
      GetAccount(accounts, a).balance - GetAccount(Ledger(Done), a).balance
        = Drift(a)[Done]

(***************************************************************************)
(* Nonces and contract addresses follow Geth's as long as no transaction   *)
(* is refused or repeated: every user's nonce is Geth's, and the contracts *)
(* held are those Geth has created or, the creation reverting, would have. *)
(***************************************************************************)
GethContracts(n) == {Paid(i) : i \in {j \in 1..n : chain[j].to = New}}

NoncesAndContractsAgree ==
  Undisturbed /\ Between =>
    /\ \A u \in Users : GetAccount(accounts, u).nonce
                          = GetAccount(Ledger(Done), u).nonce
    /\ DOMAIN accounts \ Users = GethContracts(Done)

(***************************************************************************)
(* Without crashes and failed answers ProcessTransaction refuses nothing   *)
(* Geth has mined, as long as no fee is overcharged, no value of a         *)
(* reverted transaction is moved and no contract pays out: then the copy   *)
(* is never poorer than Geth's ledger.                                     *)
(***************************************************************************)
Plain(t) == ~t.dynamic /\ ~t.reverts /\ t.inner = 0

MinedNeverRefused ==
  crashes = 0 /\ faults = 0 /\ (\A i \in 1..MaxTx : Plain(chain[i]))
    => refused = {}

(***************************************************************************)
(* Whatever crashes, no transaction is lost, and each crash repeats at     *)
(* most the transactions of the block in work: a user's nonce is at least  *)
(* the number of transactions processed that were not refused, and exceeds *)
(* the number processed by no more than a block of them per crash.         *)
(***************************************************************************)
LargestBlock == Max({TxsUpTo[b] - TxsUpTo[b - 1] : b \in 1..MaxBlock})

NonceBounds ==
  Between =>
    \A u \in Users :
      LET nonce == GetAccount(accounts, u).nonce
      IN /\ nonce >= Cardinality(SentBy(u) \ refused)
         /\ nonce <= Cardinality(SentBy(u)) + crashes * LargestBlock

=============================================================================
