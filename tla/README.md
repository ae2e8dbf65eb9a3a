# A TLA+ development of the trusted sequencer

The trusted sequencer takes raw transactions from clients to a Geth node,
follows the blocks Geth produces, replays their transactions on a small account
database of its own, groups them into batches of 128, and takes each batch to a
data availability (DA) layer, to the Junction chain and to a prover. This
directory holds TLA+ models of it, the runs of TLC on small instances and proofs
checked by TLAPS. Paths below are those of the repository; `batch.go:291` is a
line of `src/batch/batch.go`.

## 1. Inventory

| Part | Code | State it keeps | Operations |
|---|---|---|---|
| Batching pipeline | `batch/batch.go` | `lastBlock`; `txChan` (128); `batchNo`, the four buffers, `totalGas`; keys `last_block`, `partial_batch`, `batch_<n>`, `batch_<n>_hash`, `proof_<n>`, `state_0` | `ProcessBlocks` (indexer and builder goroutines), `CreateBatch`, `SaveBatch` |
| Start-up | `cmd/sequencer/commands/start.go` | none | open databases and clients, load genesis once, start pool, pipeline and servers |
| LevelDB store | `db/` | keys and values | `Put`, `Get` (nil when absent) |
| EVM state | `state/state.go`, `state/processor.go` | `account:<address>` | `LoadGenesis`, `ProcessTransaction`, `GetAllAccounts` |
| State tree | `state/spt.go` | none | `CalculateStateHashSPT` |
| Junction client | `junction/client.go` | account | `SubmitBatchMetadata`, `SubmitBatch`, both until acknowledged |
| Prover client | `prover/` | none | `ProverGenerate`, until a proof or a non-retryable error |
| DA clients | `batch/da/` | session | `SubmitToDA`, until acknowledged |
| Transaction pool | `pool/pool.go` | `txs`, `mutex` | `AddTx`, `Process` |
| JSON-RPC proxy | `proxy/proxy.go` | keys `tx_<hex>` | `eth_sendRawTransaction`, `getLatestBatch`, `getBatchByNumber`, anything else is passed to Geth |
| WebSocket proxy | `proxy/proxy.go` | per connection: `send` (256), `mu`, `closed`, `subscriptions`; manager: `clients` | reading and writing pump, one goroutine per subscription, register and unregister |
| Geth clients | `eth/` | none | `Call` (three attempts), `GetGasUsed`, `FetchContractState` |
| Configuration | `config/`, `commands/init.go` | TOML file | load, save, init |

How they interact:

- a client's transaction: handler -> `txnDB` -> pool (mutex) -> Geth. Blocks come
  back from Geth; nothing ties a pooled transaction to the block it appears in;
- a block's transaction: indexer -> account database (two writes) -> `txnDB` ->
  `txChan` -> builder -> `partial_batch` -> batch -> DA -> `batch_<n>` -> Junction
  -> prover -> Junction. The builder reads the account database the indexer
  writes; both write `batchDB`, under different keys;
- the next incarnation of the process takes up what the three databases hold;
- a WebSocket peer: reading pump, writing pump and subscriptions meet at the
  channel `send` and the mutex `mu`; the manager closes the channel.

What is hard, and which properties make each part correct:

- **Pipeline.** Two goroutines, three databases, three remote services and no
  transaction that spans any of them. Correct means: batches form a hash chain
  without holes (`HashChain`), what is stored about a batch is true of the remote
  services (`DurableFlagsBacked`), Junction sees them in order
  (`SettlementOrder`), each transaction is batched once and in order
  (`InOrderExactlyOnce`), a committed block is never applied again
  (`CommittedNeverReplayed`), and everything is settled in the end
  (`EverySliceSettles`, `EveryBlockCommitted`).
- **Pool.** One mutex held over network calls; the slice is cleared by length at
  the end of a pass. Correct means: nothing is wiped out or sent twice
  (`OfferedOnce`), nobody waits for ever (`RequestIsAnswered`).
- **WebSocket.** A mutex held while sending into a bounded channel whose receiver
  needs the mutex and holds it while it writes to a peer that may not read, and
  channels that others close. Correct means: order (`InOrder`), an orderly close
  (`ClosedInOrder`), no second close of a channel (`MappedAreOpen`), an end for every
  goroutine (`Teardown`, `CancelledEnds`).
- **EVM state.** A copy of Geth's ledger kept by other rules than Geth's, without
  a transaction around its writes, fed by answers that may be missing. Correct
  means: it drifts from Geth's ledger by what is known and by nothing else
  (`BalanceDrift`), agrees on nonces and created contracts
  (`NoncesAndContractsAgree`), refuses nothing Geth has mined
  (`MinedNeverRefused`), and a crash repeats no more than a block
  (`NonceBounds`).
- **Roots.** Correct means: a root does not depend on the order of a Go map
  (`RootUnique`), binds every account (`RootBinds`), and every list of
  transactions (`MerkleRootBinds`).
- **Retry loops.** Correct means: however long a service is away, the builder
  makes progress and only forward (`CallsImplementLedger`, `EveryBatchVerified`),
  and waits longer and longer, up to a limit (`WaitsGrow`).
- **Queries.** A scan over a store that grows meanwhile must find a batch
  (`LatestFound`), and what it has told a reader must stay true
  (`VerifiedIsFinal`).

## 2. Modules

| Module | Models |
|---|---|
| `BatchPipeline` | start-up, indexer, channel, builder, the databases, the three services, crashes and failures |
| `SettlementLedger` | abstract: the ledger a reader of `batch_<n>` may rely on |
| `PipelineLedger` | the refinement mapping from `BatchPipeline` to `SettlementLedger` |
| `PipelineClaims` | statements of the docs the pipeline does not keep |
| `MCBatchPipeline` | the chains TLC is given |
| `BatchPipelineProofs` | type correctness, `ChainInv`, `HashChain`; `CommittedNeverReplayed`, `DurableFlagsBacked`, `SettlementOrder` |
| `BatchPipelineCrashProofs` | `SettledAgree`, `LossBounded`, `ImplementsLedger` |
| `BatchPipelineNormalProofs` | `InOrderExactlyOnce`, `NoEquivocation`, `LeadBounded`, `ImplementsStrictLedger` |
| `AccountState` | the account database: genesis, `ProcessTransaction` write by write, the answers of Geth, crashes; beside it Geth's own ledger |
| `AccountClaims` | what the repository's README says of balances and the code does not keep |
| `StateTree` | `accountToValue` with its RLP encoding and the tree of `CalculateStateHashSPT`, as operators |
| `MerkleTree` | `computeMerkleRoot` and a reference definition of it |
| `StateCommitment`, `MCAccounts` | composes the three: the roots of the account databases that `AccountState` reaches |
| `AccountStateProofs` | all the properties of `AccountState`, and `RootUnique` |
| `CommitmentProofs` | that roots bind what they are computed from: `MerkleRootBinds`, `RootBinds` and the theorems behind them |
| `RemoteCalls` | the loops of the DA, Junction and prover clients, attempt by attempt; implements `SettlementLedger` |
| `BatchQueries`, `MCServices` | `getLatestBatch` and `getBatchByNumber` beside the builder of `RemoteCalls` |
| `ServicesProofs` | the type invariant and all the safety properties of `RemoteCalls` and `BatchQueries`, the refinement among them |
| `TxPool`, `MCTxPool` | handler, `txnDB`, pool, Geth's answers, crashes |
| `TxPoolProofs` | its type invariant and `OfferedOnce` |
| `WebSocketClient`, `MCWebSocketClient` | one WebSocket connection |
| `WebSocketClientProofs` | the safety properties of the connection, that a standoff is for ever, and that only the peer ends a blocked write |

### BatchPipeline

A transaction is its position in the chain. `TxsUpTo[b]` says how many
transactions blocks 1 to `b` hold, so the chain is a constant and Geth only
reveals it (`NewBlock`). A hash is the record of what was hashed, so hashing is
injective. A state root is the sequence of writes made to the account database
so far; `evm` is that sequence. Two things follow from this choice: the model can say
which transactions a root covers, and it takes for granted that a root is a
function of the accounts. `StateCommitment` looks into both (see `RootUnique` and
`RootBinds` below).

| Model | Code |
|---|---|
| `LoadGenesis`, `PutGenesisRoot`, `SkipGenesis` | start.go:147-158 |
| `LoadProgress` (with `RestartBlock`, `RestartBatch`) | batch.go:83-125 |
| `FetchBlock`, `StoreTx`, `SendTx`, `CommitBlock` | batch.go:198-293 |
| `UpdateSender`, `UpdateRecipient`, `RejectTransaction` | processor.go:94-222 |
| `TakeTx`, `CollectTimeout`, `SavePartial` | batch.go:126-143, 181-193 |
| `CreateBatch` | batch.go:357-428 |
| `SubmitToDA`, `BlobError` | batch/da/celestia.go:42-74, avail.go:36-69 |
| `PutBatch`, `PutHash` | batch.go:468-482, called at 151, 155, 171 |
| `SubmitBatchMetadata`, `SubmitBatch`, `LostAnswer` | junction/client.go:112-216 |
| `ProverGenerate`, `ProverError`, `PutProof` | prover/proverClient.go:64-111, batch.go:156-168 |
| `FinishBatch` | batch.go:171-178 |

The control state `ipc` of the indexer and `bpc` of the builder name the next
step. Each database write and each remote call is a step; what lies between two of
them touches only the goroutine's own variables and belongs to the step before.
`UpdateRecipient` stands for several writes (`SetStorage` and then the account);
it is one step because no property tells them apart.

A failed attempt that had no effect (a block request, a broadcast that did not
get through) changes nothing and is not a step of its own. `LostAnswer` is the
failed attempt that did have an effect. `FaultKinds`, `MaxFaults` and
`MaxCrashes` say which failures a run shows, and how many.

### TxPool

`Refused` is the set of transactions that fail one of the handler's checks. The
handler's two steps outside the mutex (`PutTx`, `AddTx`) interleave with the
steps of a pass: `TakePool` (lock, decode, sort), one `Offer` per transaction,
`ClearPool`. `sort.Slice` is not stable, so `GasOrders` is the set of all orders
by decreasing gas. `added` and `offered` only count, for the properties.

### AccountState and StateCommitment

The database is a function from the stored addresses to records; an address that
is not stored reads as an empty account, as in `GetAccount`. `ProcessTransaction`
is cut at its database writes: `UpdateSender`, then `FetchContractState` and one
`SetNextStorage` per slot, then `UpdateRecipient`; a crash may fall between any two.

| Model | Code |
|---|---|
| `LoadGenesis`, `Resume` | processor.go:47-92, batch.go:83-98 |
| `FetchBlock`, `AwaitBlock`, `CommitBlock` | batch.go:198-236, 291-293 |
| `GasPrice`, `TotalCost`, `Refund`, `Accepts` | processor.go:114-152 |
| `UpdateSender`, `RejectTransaction` | processor.go:127-156 |
| `GasUsedAnswer` | eth/rpc.go:74-86 |
| `Target`, `Fresh`, `UpdateRecipient` | processor.go:158-166, 185-221 |
| `Fetches`, `FetchContractState`, `SetNextStorage` | processor.go:168-183, 201-214, eth/rpc.go:88-140 |
| `CreateAccount`, `UpdateAccount`, `SetStorage`, ... | state.go:32-145 |

`LoadGenesis` writes its accounts in one step: a crash in between is followed by
another `LoadGenesis`, which overwrites them all, and nothing reads them before.

What Geth does is external and modelled from its rules: a mined transaction was
affordable under the fee cap; the sender pays value and gas used at the effective
price; a revert moves no value; a contract may pay back to the sender (`inner`).
`GethLedger` is its ledger after each transaction of a list. `Chains` is the set of
all lists of transactions of the given kinds that Geth would mine one after the
other, and TLC starts from each of them. `BalanceDrift` then says of every address
what the difference to Geth's ledger is made of: gas refunded but never charged, the
price above the one Geth charges, the value of reverted transactions (which for a
reverted creation stands on the contract that Geth does not have), and internal
payments. A receipt that is missing makes the first of them larger: with gas used 0
the whole limit is refunded and nothing charged (`Metered`; `unmetered` remembers
which receipts were missing). `Drift` adds these gaps up over the chain. The property
speaks of all behaviours but those in which a transaction was refused or a crash
had a block read twice.

A stored account is hashed as it is: the leaf of the tree has the encoded account
itself in place of a hash, so leaves have different lengths and stand unhashed next
to 32-byte hashes. `StateTree` has RLP byte by byte, with its headers for long
payloads, and makes Keccak injective. `RootBinds` asks whether a database that differs in one
balance, nonce, slot or account, or has two accounts exchanged, can have the same
root; it cannot, since RLP lists carry their own length.

| Model | Code |
|---|---|
| `AccountToValue`, `EncodeStorage`, `EncodeCode` | spt.go:126-152; `Header`, `EncodeInt`, `EncodeList` are `go-ethereum/rlp` |
| `Nodes`, `Below` | `Insert`, spt.go:64-77: the nodes are the prefixes of the keys |
| `HashOf`, `Digest`, `Zeros` | `hash`, spt.go:42-62 |
| `StateRoot`, `StateRoots` | spt.go:95-115, 160-185, one root for each order of the maps |
| `LeafHash`, `Leaves`, `Pair`, `Rounds`, `MerkleRoot` | `computeMerkleRoot`, batch.go:430-454 |

`RootUnique` says that map order does not show, but only because of something else:
the storage written for a new contract is dropped again when the contract is
created (processor.go:178, 185), and since no code is ever stored
(`CreateAccount`, `UpdateAccount`) later calls fetch nothing. So a stored account
never keeps two slots, except during a fetch and after a crash in one, which the
property leaves out and where two roots do come out.

### RemoteCalls and BatchQueries

`BatchPipeline` takes a remote call for one step and counts failures; `RemoteCalls`
has each attempt, any number of them, and no crash. `wait` is what was slept last,
`backoff` and `attempt` the local variables of the loops. `Go` leaves a call and
resets them, as entering a function does.

| Model | Code |
|---|---|
| `SubmitToDA`, `BlobError`, `DAFails`, `NextBackoff` | celestia.go:44-73, avail.go:37-68 |
| `SubmitBatchMetadata`, `SubmitBatch`, `AnswerLost`, `JunctionFails` | junction/client.go:74-216 |
| `ProverGenerate`, `ProverFails`, `ProverWait`, `ProverGivesUp` | prover/proverClient.go:34-111 |
| `SavePublished`, `SaveSubmitted`, `SaveVerified` | batch.go:151, 155, 170-178 |
| `GetLatestBatch`, `ScanNext`, `ScanEnds`, `ReadLatest` | proxy.go:804-879 |
| `GetBatchByNumber` | proxy.go:881-965 |

Whether Junction takes the same batch number twice cannot be read off this
repository, so `strict` is chosen at the start and both are checked.

### WebSocketClient

`Enqueue` is `c.send <- m` with `mu` held. It waits while the channel is full, so
the pump that waits in it keeps `mu`. `SendOnClosed` is the panic of a send on a
closed channel, after which every goroutine is dead, as a panic in any goroutine
ends a Go process. `PeerGone` breaks the connection: reads fail from then on, a
write may still succeed or fail until one side closes the connection.

`stalled` says that the peer is there but reads nothing, once the buffers of the
network are full. The code sets a read deadline (proxy.go:284) but no write deadline,
so a write hangs then, and since the writing pump writes with `mu` held
(`LockForWrite` to `WriteMessages`, `WritePing`, `WriteClose`), `mu` with it, until
the peer reads again (`PeerResumes`), goes away, or the connection is closed on this
side. `ReadDeadline` makes reads fail after a minute without a pong; that closes the
connection if the reading pump is in a read to see it. If it waits for `mu` instead
(`Blocked`), nobody closes anything.

| Model | Code |
|---|---|
| `Connect`, `Unregister` | proxy.go:250-274, 94-99 |
| `ReadRequest`, `LockForResponse`, `SendResponse` | proxy.go:290-326 |
| `ReadDeadline`, `ReadError`, `CloseConnection` | proxy.go:284-297, 278-281 |
| `Subscribe`, `Unsubscribe` | proxy.go:429-485 |
| `Receive`, `ReceiveClosed`, `Tick`, `LockForWrite` | proxy.go:340-341, 367-368 |
| `WriteMessages`, `WritePing`, `WriteClose`, `ExitWriter` | proxy.go:342-376, 332-336 |
| `StartSubscription`, `Event`, `LockForNotification`, `SendNotification`, `Cancelled`, `ExitSubscription` | proxy.go:501-700 |

## 3. Runs

`BatchSize`, `ChanCap` and `SendCap` are 128, 128 and 256 in the code. What
matters about them is their relation to the chain and to the number of messages;
the bounds are chosen to have all cases with the smallest values:

- `BatchSize = 2`: a batch may fill up inside a block, at its end, or across an
  empty block, and a batch can be preceded by a saved partial batch. The proofs
  hold for every size above 1;
- `ChanCap = 1`: the channel is full and empty in turn, and the chain is longer
  than what a batch, the channel and the indexer's hand hold together, so that
  `LeadBounded` does exclude something;
- the chains hold two full batches and a rest (`BlocksOfFive`, with an empty
  block) or two batches (`BlocksOfFour`);
- one crash and one failure of another kind, anywhere: the crash may fall before,
  into or after the failure and the recovery from it. A second crash makes the run
  too long for the reserved time; the theorems of section 5 about it hold for any
  number of crashes, and `LossBounded` counts them;
- `Accounts`: three transactions in blocks of two and one, so that one block can be
  broken off in its middle and one cannot; two users of whom one has a genesis
  balance, all nine kinds of transaction in every valid order; addresses of two
  bytes and a tree of radix 5, so that keys share their first byte or do not; lists
  of 127, 128 and 129 transactions for the Merkle root;
- `Services`: two batches, so that one has a predecessor, and unbounded failures.
  The attempts of the prover client are counted up to `AttemptCap`, where the wait
  has stopped growing.

| Run | Bounds | Shows |
|---|---|---|
| `PipelineNormal` | 5 transactions in 3 blocks, two failures, no crash | `InOrderExactlyOnce`, `NoEquivocation`, `LeadBounded`, `ImplementsStrictLedger`, `EverySliceSettles` |
| `PipelineCrash` | 4 transactions in 2 blocks, one crash and one other failure | `TypeOK`, `HashChain`, `ChainInv`, `DurableFlagsBacked`, `SettlementOrder`, `SettledAgree`, `LossBounded`, `ImplementsLedger`, `CommittedNeverReplayed`, `EveryBlockCommitted` |
| `Accounts` | 3 transactions in 2 blocks, 9 kinds, one crash and one missing answer | `TypeOK`, `BalanceDrift`, `NoncesAndContractsAgree`, `MinedNeverRefused`, `NonceBounds`, `RootUnique`, `RootBinds`, `MerkleRootBinds` |
| `Services` | 2 batches, both DA clients, both kinds of Junction, one reader | `TypeOK`, `WaitsGrow`, `CallsImplementLedger`, `EveryBatchVerified`, `StuckForEver`, `LatestFound`, `VerifiedIsFinal` |
| `Pool` | 2 clients, 3 transactions (one refused), 4 requests, one failed call, one crash | `TypeOK`, `OfferedOnce`, `AddedIsOffered`, `RequestIsAnswered` |
| `Socket` | 2 subscriptions, channel of 1, 3 requests, one event, one ping; the peer stalls and resumes any number of times | `TypeOK`, `InOrder`, `ClosedInOrder`, `MappedAreOpen`, `Teardown`, `CancelledEnds` |

`InOrderExactlyOnce`, `NoEquivocation` and the strict ledger hold only without
crashes. With crashes three properties say what is left of them. `ImplementsLedger`:
only the last batch is ever rewritten, and a new one is begun only when the last one
is verified. `SettledAgree`: a number may be settled twice, but only with another
last transaction (`ClaimFinality` shows one). `LossBounded`: of the transactions of
committed blocks each crash loses at most those in the channel, the one just taken
and not yet saved, and the one that had filled a batch which the restart fills anew:
130 in the code. `PipelineCrash` has crashes that lose two; all three in one crash need
a fifth transaction, to fill the batch anew (blocks of four and one), and the theorem
covers that. The other side of it is repetition: a crash inside a block reads the block
again.

`BalanceDrift` and `NoncesAndContractsAgree` leave out behaviours with a crash or a
refused transaction; a refused or repeated one does shift the nonces of its sender,
and with them the addresses of the contracts it creates, for good
(processor.go:161). What the two say is that nothing else does, missing receipts
included. `MinedNeverRefused` leaves out crashes, missing answers and the kinds of
transaction that make the copy poorer than Geth's ledger: two dynamic-fee transactions
of one sender are enough for the second to be refused. `NonceBounds` is for all
behaviours; it is also what shows that genesis is loaded again by no restart but one
before the first committed block (start.go:148).

Some properties say more than their run can show. Failures in `PipelineNormal`
include the refusal of a transaction, for which `LeadBounded` claims no lower end of
the covered range, so that TLC checks its upper end there, and `LeadBoundedCorrect`
proves both for every set of failures. `LossBounded` has no behaviour in its run that
attains the bound. `MerkleRootBinds` compares lists of different lengths, while
`CreateBatch` only ever passes 128 transactions; of the program it says that two
batches do not share a root.

`Teardown` and `CancelledEnds` have two ways out, `Standoff` (someone waits for room
with `mu` held while the writing pump waits for `mu` or has ended) and `Blocked`, and
both count only if the connection stays in them for ever: a write that hangs for a
while, or one that hangs while the reading pump can see the deadline, is no excuse. Without
either of the two exceptions, TLC finds a counterexample.

`EveryBatchVerified` has one way out, `Stuck`: a Junction that does not take a
number twice has recorded the one the builder repeats. It is reached by one lost
answer, or by the prover giving up after the metadata are out, and `StuckForEver`
says that there is no way back.

`Socket` turns deadlock checking off because a connection that has ended takes no
further step. Nothing else stops: the pipeline waits for transactions
(`CollectTimeout`), the pool sleeps (`Sleep`), the indexer asks for blocks
(`AwaitBlock`).

### Fairness

- Pipeline: weak fairness of the indexer and of the builder. The Go scheduler runs
  both, remote calls are repeated until they succeed, and `MaxFaults` says that
  they succeed in the end. `NewBlock` and `Crash` need not happen.
- Pool: weak fairness of `Process` and `PutTx`, strong fairness of `AddTx`,
  because a Go mutex is handed to a goroutine that has waited for a millisecond,
  though `Process` takes it back at once. It is assumed that every call to Geth
  returns; the RPC client has no timeout.
- Remote calls: weak fairness of the builder's own steps; strong fairness of the
  successful attempt of each call, which is an assumption about the environment: a
  service that is asked for ever is not for ever out of reach when asked. Without
  it the code retries for ever and promises nothing. A refusal by a strict Junction
  is not an attempt it would serve, so fairness does not help there.
- WebSocket: strong fairness of each goroutine, for the mutex as above and because
  a select takes either of two ready channels in the end. A write to the connection
  is not assumed to end: its step is enabled only while the peer reads, has gone, or
  the connection is closed on this side, and no fairness makes the peer do either.
  The read deadline passes while the peer stalls (weak fairness), for a peer that
  reads nothing does not answer pings, and the deadline is a timer of this process.
  Requests, events, ticks and what the peer does need not happen.

### Mutants

Each checked property is matched with an operator that stands in front of the
definition it mutates, under the comment `Mutant:`. It is that definition with a
plausible mistake; put in its place, the property is violated under the same
configuration. No module uses these operators otherwise.

## 4. Where code and documentation disagree

Each of these runs ends in a counterexample to one statement.

| Run | Statement | What the code does |
|---|---|---|
| `ClaimPreRoot` | arc.puml:48, pre- and post-state roots | batch.go:369 reads `state_<n-1>`; only `state_0` is ever written, so from batch 2 on the pre-state root is empty |
| `ClaimBalances` | README.md:17, account balances | processor.go:148 refunds gas the sender was never charged for, so one plain transfer makes the copy differ from Geth's ledger |
| `ClaimFinality` | README.md:12, finality | batch.go:182 leaves `partial_batch` naming the batch just settled; a crash then has it filled up and settled again with another last transaction |
| `ClaimRetry` | pool.go:66, "retrying" | pool.go:72 empties the slice to which the failed transaction was just appended |
| `ClaimSocketStalls` | proxy.go:330, the pump pumps | a sender waits for room with the mutex held that the pump waits for |
| `ClaimSocketPanics` | proxy.go:545, `!client.closed` | the manager closes the channel before the flag is set, and if the pump died of a write error it never is set |

Met on the way, without a run of their own:

- README.md:11, "deterministic execution order": the post-state root of a batch
  covers as many later transactions as the indexer happens to have applied
  (`LeadBounded` gives the bound), so it depends on scheduling;
- README.md:10, batches of 128: batch.go:293 stores `last_block` while transactions
  of the block are only in memory; a crash drops them from every batch
  (`LossBounded` gives the bound);
- README.md:17, "balances and nonces": a crash inside a block applies its first
  transactions twice (`NonceBounds`); a reverted transaction moves its value and
  internal transfers are not seen (`BalanceDrift`); the signer's account is never
  created, as `GetAccount` returns no error for an absent one (processor.go:79), and
  `ProcessBlockRewards` is never called;
- README.md:16, "smart contract deployments": the code and the storage fetched for a
  new contract are not stored (processor.go:162-185): `CreateAccount` writes neither,
  and overwrites the slots written just before. The fetch itself names the block by
  a decimal number (batch.go:233), where Geth's RPC wants a hexadecimal one, so that
  on such a node it fails and is only logged;
- README.md:40, EIP-1559: fee cap plus tip is charged (processor.go:119), while Geth
  charges at most the fee cap;
- README.md:21, arc.puml:57, "guarantees permanent access": after an error of
  `SubmitToDA` the batch is settled with the commitment `0x0` (batch.go:408);
- README.md:26, arc.puml:80, proofs on Junction: `SubmitBatch` ignores the proof,
  the public inputs and the previous hash and sends them empty
  (junction/client.go:194-196);
- README.md:40, EIP-1559: a typed transaction in the envelope form clients send is
  refused by `rlp.DecodeBytes` (proxy.go:756); README.md:139: a `0x` in front of
  the hex is refused (proxy.go:747);
- proxy.go:284-288 sets a read deadline that pings are to renew, but no write
  deadline is set anywhere: a write to a peer that stays and does not read
  (proxy.go:341-373) keeps `mu`, and if the reading pump waits for `mu` at 322, 450 or
  475, no deadline ends the connection (`Blocked`, `BlockedUntilPeer`);
- proxy.go:424, "Add transaction to pool": the WebSocket handler answers with the
  hash and adds nothing;
- proverClient.go:100, "non-retryable HTTP status codes": `http.Client.Do` returns
  no error for them, so the check is reached only if reading the body fails;
  otherwise the request is repeated for ever;
- celestia.go:68, "cap at 1 minute": the backoff ends at 64 seconds.

## 5. Proofs

The theorems about the pipeline hold for every `BatchSize > 1`, every channel capacity, every chain,
every set of failures and any number of crashes. They rest on
`PipelineAssumption` alone: the sizes are positive, and `TxsUpTo` starts at 0 and
does not decrease. `BatchSize > 1` is needed: with batches of one transaction the
buffer is never saved in between and no restart would know the batch number.

- `TypeCorrect`: `Spec => []TypeOK`. `TypeOK` has the type of every variable and,
  as it is needed for induction, that the position of the indexer lies in the
  block in work and that a builder that creates or holds a batch has a full
  buffer. One step per action.
- `ChainCorrect`: `Spec => []ChainInv`, by induction with `TypeOK`. `HashChain`
  alone is not inductive: it does not say that the builder will chain the next
  batch to the right one. `ChainInv` adds the reason. Until the first transaction
  of batch n + 1 is saved, a restart comes back to n, so the batches before
  `RestartBatch` are complete (stored, hashed, verified) and nothing touches them
  any more (`StoreInv`); the builder works on `RestartBatch`, or is one ahead with
  an empty buffer or about to save (`BuilderInv`); and a saved partial batch is
  never full (`BufferInv`), so that a restart does not find a batch ready to be
  created under an old number. The batch in work itself may be stored with a hash
  of an earlier attempt: that is the crash between the two Puts of `SaveBatch`, and
  it is why `Complete` is claimed of the earlier batches only.
- `HashChainCorrect`: `Spec => []HashChain`, from `ChainCorrect`.
- `NeverReplayed`: `Spec => CommittedNeverReplayed`, from `PlaceInv`: while it
  works on a block, the indexer is at the block after the last committed one and
  behind that one's last transaction.
- `FlagsBackedCorrect`, `SettlementOrderCorrect`: from `FlagInv`, which says for
  each place of the builder what is known of the batch in its hands (`HandInv`)
  and of the stored copy (`CopyInv`). The delicate step is `PutProof` after a
  restart: it replaces the proof of a batch that may be stored as verified for its
  old content; it is safe because the first `SaveBatch` has cleared the flag by
  then.

`ServicesProofs` is about the retry loops and the queries, for every number of
batches, any set of the two DA clients, and any number of failed attempts. It rests
on `RemoteAssumption` alone, that these are a number and such a set.

- `StoreCorrect`: `Spec => []StoreInv`. The invariant relates the place of the
  builder to the store: the batches before the one in work are verified under their
  content, the one in work is stored or not, and from the first `SaveBatch` to the
  last its status follows from the place. It is needed because `SaveBatch` writes
  whatever the place calls for, without a look at what is stored.
- `CallsImplementStrictLedger`: `Spec => CallsImplementLedger`. The mapping is the
  identity on `ledger`. Given `StoreInv`, the first save is `Publish` or, after the
  prover was given up, `Reopen` with the same content; the second is `Submit`, the
  third `Settle`; every other step is a stutter.
- `ServicesTyped` and `WaitsAlwaysGrow`, from `CallInv`: the last wait of a call is
  never above the next one.
- `StuckStays`: needs no invariant; every step open to a stuck builder is one that
  fails.
- `AnswersAreFinal` and `LatestIsFound`: `QuerySpec => []VerifiedIsFinal` and
  `QuerySpec => LatestFound`. `QueryInv` says what the scan knows although the store
  changes between its reads; it holds because the store never gets shorter and a
  verified batch stays as it is (`StoreGrows`). `ReaderStutters` carries the theorems
  about `Spec` over to `QuerySpec`.

`BatchPipelineCrashProofs` and `BatchPipelineNormalProofs` rest on
`PipelineAssumption` too, and build on the invariants above.

- `SettledAgreeCorrect`: `Spec => []SettledAgree`. The property speaks of pairs of
  settlements, possibly with crashes in between; what ties the second to the first is
  `partial_batch`. `HeldInv` says what it has in common with the buffer: the buffer
  begins with it and is longer by at most the transaction that came last, or, once the
  buffer belongs to the next batch, the finished batch is. `SettledInv` says the same of
  everything settled under the number a restart comes back to.
- `LossBoundedCorrect`: `Spec => []LossBounded`. `LossInv` accounts for the block in
  work as well, whose transactions are not committed yet but will be without being
  sent again; and each of the three places that a crash empties (channel, hand of the
  builder, last place of a finished batch) is shown to cost what the bound says.
- `ImplementsLedgerCorrect`: `Spec => ImplementsLedger`. Every step is a step of
  `SettlementLedger` or a stutter under the mapping of `PipelineLedger`. `StoredInv`
  adds what is stored of the batch in hand between its first and its last save:
  without it the second save could be of another batch than the first.
- `InOrderCorrect`, `NoEquivocationCorrect`, `LeadBoundedCorrect`:
  `Spec => [](crashes = 0 => ...)`, so the constants may allow crashes, and the
  statement is about every behaviour up to its first one. `QueueInv` is the reason for the order:
  full batches, buffer, channel and the indexer's position are adjacent intervals of
  the chain. `OnceInv` is the reason for the single root: after a batch has been sent to
  Junction, the builder reaches `CreateBatch` only with the next number. `LeadInv`
  bounds `evm` by the same intervals.
- `ImplementsStrictLedgerCorrect`: with `MaxCrashes = 0`,
  `Spec => ImplementsStrictLedger`. A prover that gave up sends the builder back to
  `CreateBatch`, which repeats the entry with the same content: this needs `SliceInv`.

`AccountStateProofs` rests on `AccountAssumption`: Geth's rules as far as they are
about single transactions (gas used within the limit, price not below the base fee,
internal payments by contracts only), contract addresses that are nobody's own, and
blocks as for the pipeline. It holds for every chain that Geth can produce from any
set of kinds, any genesis and any number of crashes and missing answers. `GethLedger`,
`Drift` and `GethContracts` are defined over the length of the chain, so most of it is
induction over naturals: `SetInduction` states it for a set, which unlike an operator
the provers can instantiate, and follows from the library's theorem that `<` is well
founded.

- `TypeCorrect`, with the solvency of every account, and `NonceBoundsCorrect`:
  `Spec => []NonceBounds`. `NonceBounds` is not inductive, since it is silent while a
  transaction is in work and after a crash; `NonceInv` counts the transactions
  charged so far, at every step and whatever the indexer repeats.
- `BalanceDriftCorrect` (with any number of missing receipts),
  `NoncesAndContractsAgreeCorrect`: from `AgreeInv`, which
  relates the copy to Geth's ledger between two transactions (`Follows`) and after
  the sender of one was charged and before its recipient is paid (`Midway`).
  `LedgerOK` is about Geth's side: no contract has an address that a creator
  has yet to reach, so the copy never finds a balance where it creates one.
- `MinedNeverRefusedCorrect`: on plain chains the drift of the sender is not negative,
  so that what was enough for Geth is enough for the copy.
- `RootUniqueCorrect`: for every radix and keys. `BareInv` says that no account has
  code, hence that slots are fetched for the contract in creation only, hence that no
  account keeps two of them.

`TxPoolProofs` (with `PoolAssumption`): `TypeCorrect`, which includes that a refused
transaction gets nowhere (`HandlerInv` keeps what the handler has checked between its
steps), and `OfferedOnceCorrect`. The latter counts copies of a transaction over the
pool, the list of `Process` and the calls made; the lemmas on `Copies` say how
appending, taking the head and sorting change the count.

`WebSocketClientProofs` (with `ClientAssumption`): `TypeCorrect`; `InOrderCorrect` and
`ClosedInOrderCorrect` from `HandInv`, which says when the writing pump holds a
message, and that it says goodbye only on a closed and empty channel;
`OpenInv` adds that it is the end of the reading pump that brings the close about, so
that this pump never answers into a closed channel; `MappedAreOpenCorrect` from `MapInv`, by which a
subscription is taken out of the map in the step that closes its channel and its ID is
never used again; and `StuckForEver`: once the reading pump waits for
room and the writing pump for the mutex (or is gone), no step of anybody ends it.
`BlockedUntilPeer` says of a write that hangs while the reading pump waits for the
mutex that only the peer ends it. These two are the reason why `Teardown` has to leave
these states out. `LockInv` says who holds the mutex.

`CommitmentProofs` rests on `AccountAssumption` and `CommitmentAssumption`: a radix, a
length of addresses and a length of the placeholder above 0, and keys that tell
addresses apart. The code justifies the last one, for `SaveAccount` stores each address
in lower case (state.go:56), so no address is there in two spellings. Hashes have no
collisions, which is in the model and not in an assumption: a digest is the record of
what was hashed. It is also a symbol unlike any byte, where the code has 32 bytes. No
more is told apart by that than can be told in the code: addresses all have the same
length, so the children of one node are all accounts or all digests of a known length,
and a missing one can only be mistaken for a digest of nothing but zeros.

- `MerkleRootIsTree`: the rounds of `computeMerkleRoot` give the tree that splits a list
  at the largest power of two below its length. The reference has that power by
  halving, as the rounds halve the list, so one round on a list is one step down in
  the recursion of the tree (`HalvedTree`), by induction on the length.
- `MerkleRootInjective`: no two lists share a root, of whatever lengths, by induction
  over both trees (`TreeBinds`); with the carried hash paired with itself, as the mutant
  has it, lists of three and four would. `MerkleRootBindsCorrect`:
  `Spec => []MerkleRootBinds`, for every set of batch sizes.
- `AccountToValueInjective`: an account is read back from its value in one way. The
  lemmas say of each encoding that it is a code: no word of it continues another
  (`IntParse`, `ListParse`), so what follows a word is known once the word is. A list
  of storage entries is a concatenation of such words, of which `FlattenParse` says
  that equal ones have equal parts.
- `StateRootInjective`: two sets of encoded accounts with one root are the same set. A
  node's hash is over the concatenated hashes of its children, and these are of three
  kinds, encoded accounts, digests and zeros. Their first symbols tell the kinds
  apart and each kind is a code (`WordsCode`), so a node binds each child
  (`SameChildren`), and by induction from the leaves all accounts below it (`TreesBind`).
- `RootsBindAccounts`: no two databases have a root in common, in whatever order their
  maps are walked, and `RootBindsCorrect`: `Spec => []RootBinds`. What the state
  adds is that every account can be encoded: `TypeCorrect` has balances that are never
  negative, on which RLP would fail and the root would be empty (spt.go:177-180).

So every safety property and every invariant the passing runs check is stated by a
theorem. Only model-checked is all liveness (`EverySliceSettles`, `EveryBlockCommitted`,
`AddedIsOffered`, `RequestIsAnswered`, `Teardown`, `CancelledEnds`,
`EveryBatchVerified`): fairness and `ENABLED` are out of the provers' reach here.

No module declares a `RECURSIVE` operator: recursion is by recursive functions and
folds. A recursive function is defined by a CHOOSE, so a proof about one has to show
first that such a function exists (`Descent`, `TreeExists`).

## 6. Assumptions and what is not modelled

- A crash is the death of the process: a LevelDB `Put` that returned survives it
  (the code writes without sync, so a power failure could lose more). LevelDB does
  not return errors; but for the pool's handler, start-up and the processor, the
  code does not look at them.
- Geth does not reorganise its chain; the code has no provision for it.
- In `BatchPipeline` Junction and the DA layer accept a second submission;
  `RemoteCalls` shows what follows if Junction does not. After a crash between
  submission and save such a Junction would hold the pipeline in the same way.
- In `BatchPipeline` a root is a function of the accounts; `RootUnique` says when
  that is so.
- Keccak and SHA-256 are injective. RLP is modelled for all numbers and
  payloads; a storage entry is a number that stands for its key and value; SHA-256 of
  two concatenated hashes is taken as a hash of the pair, which 32 bytes on each side
  justify.
- Amounts in `AccountState` are integers without a width (`big.Int` in the code).
  Nonces and gas are `uint64` there and stay far from overflow.
- The base fee is constant, and block rewards and withdrawals of Geth are left out:
  they would be one more difference to Geth's ledger.
- Data without influence on the control is left out: traces, balances before and
  after, timestamps, namespaces, the commitment.
- Not modelled: the waits of `RpcClient.Call`; the choice of `FetchContractState`
  between the trace and ten guessed slots (any set of slots may come back); the
  decoding of transactions for the answers of the queries; the pass through to Geth;
  configuration and `init`, which are sequential file handling; the manager's
  broadcast branches and `ProcessBlockRewards`, `ComputeStateRoots`, `DeleteAccount`,
  `GetStorage`, `SPT.Get`, which nothing calls.
- Subscriptions stay behind when a connection ends (nobody closes `subChan`, and
  `sub.Err` is not watched). `Teardown` therefore speaks of the two pumps only.

## 7. Plan

Done: `BatchPipeline` with its ledger, claims and proofs; `TxPool` and
`WebSocketClient` with theirs; `AccountState` with `StateTree`, `MerkleTree`,
`StateCommitment` and the proofs about the accounts; `RemoteCalls` with
`BatchQueries` and their proofs; `CommitmentProofs`. Every safety property has a
theorem. Left:

1. Nonces in `TxPool`, so that the order of a pass can be judged by what Geth does
   with a gap.
