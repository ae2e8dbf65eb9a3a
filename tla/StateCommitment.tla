-------------------------- MODULE StateCommitment --------------------------
(***************************************************************************)
(* What a batch commits to: the accounts as ProcessTransaction leaves them *)
(* (AccountState), under the state root computed from them (StateTree),    *)
(* and its transactions under their Merkle root (MerkleTree).  CreateBatch *)
(* reads the accounts from another goroutine, in whatever state the        *)
(* indexer has them.                                                       *)
(***************************************************************************)
EXTENDS AccountState, MerkleTree, StateTree

CONSTANT BatchSizes  \* numbers of transactions in a batch

ASSUME CommitmentAssumption ==
  /\ BatchSizes \subseteq Nat \ {0}
  /\ Radix \in Nat \ {0} /\ KeyLen \in Nat \ {0} /\ ZeroLen \in Nat \ {0}
  /\ \A a \in Address : KeyOf(a) \in [1..KeyLen -> 0..Radix - 1]
  /\ \A a, b \in Address : KeyOf(a) = KeyOf(b) => a = b
  /\ Slots \subseteq Nat /\ IsFiniteSet(Slots)

Roots(db) == StateRoots(db)

(***************************************************************************)
(* The order in which Go walks a map shows in no state root, as long as    *)
(* there was no crash and no contract is being fetched.  The slots of one  *)
(* contract are encoded in map order, and it is only because creating the  *)
(* contract drops what was fetched that a root is computed from no more    *)
(* than one slot.                                                          *)
(***************************************************************************)
RootUnique ==
  crashes = 0 /\ ipc # "slots" => Cardinality(Roots(accounts)) = 1

(***************************************************************************)
(* A state root binds every account: no database that differs in one       *)
(* balance, nonce or slot, lacks an account or has two of them exchanged   *)
(* has the root of this one, although the leaves are not hashed and differ *)
(* in length.                                                              *)
(***************************************************************************)
Variants(db) ==
  LET With(a, account) == SaveAccount(db, a, account)
      Richer(a)     == With(a, [db[a] EXCEPT !.balance = @ + 1])
      Busier(a)     == With(a, [db[a] EXCEPT !.nonce = @ + 1])
      Toggled(a, s) == With(a, [db[a] EXCEPT !.storage = SymDiff(@, {s})])
      Without(a)    == [x \in DOMAIN db \ {a} |-> db[x]]
      Exchanged(a, b) == [With(a, db[b]) EXCEPT ![b] = db[a]]
  IN UNION {{Richer(a), Busier(a), Without(a)}
              \cup {Toggled(a, s) : s \in Slots}
              \cup {Exchanged(a, b) : b \in {x \in DOMAIN db : db[x] # db[a]}}
              : a \in DOMAIN db}

RootBinds ==
  LET roots == Roots(accounts)
  IN \A other \in Variants(accounts) :
       \A root \in Roots(other) : root \notin roots

(***************************************************************************)
(* The Merkle root of a batch has the reference's shape, whatever the      *)
(* number of its transactions: a full batch, less, or one more.  And it    *)
(* binds the list: no two lists of transactions, of the same length or     *)
(* not, share a root, as they would if an odd hash were paired with        *)
(* itself.  The lists are made of the transactions of the chain at hand.   *)
(***************************************************************************)
AtStart == ipc = "start" /\ crashes = 0
BatchOf(n) == [i \in 1..n |-> <<i, chain[1 + (i % MaxTx)]>>]

Lists == UNION {[1..n -> {chain[i] : i \in 1..MaxTx}] : n \in 0..5}

MerkleRootBinds ==
  AtStart =>
    /\ \A n \in BatchSizes : MerkleRoot(BatchOf(n)) = TreeOf(BatchOf(n))
    /\ Cardinality({MerkleRoot(txs) : txs \in Lists}) = Cardinality(Lists)

=============================================================================
