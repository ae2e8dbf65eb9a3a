------------------------- MODULE AccountStateProofs -------------------------
(***************************************************************************)
(* Proofs about the sequencer's copy of the accounts (AccountState) and    *)
(* the state roots computed from it (StateCommitment), for every chain,    *)
(* kind of transaction, gas price, genesis and number of crashes.          *)
(*                                                                         *)
(*   ControlInv   where the indexer is, relative to the block on disk      *)
(*   AccountsInv  types, solvency and nonces of the stored accounts, the   *)
(*                nonces against the number of transactions charged        *)
(*   LedgerOK     Geth's ledger along a chain: no reachable-state          *)
(*                invariant but a fact about every n, by induction         *)
(*   AgreeInv     the copy against that ledger, between two transactions   *)
(*                and in the middle of one                                 *)
(*   BareInv      what is left in storage, for the roots                   *)
(*                                                                         *)
(* The ledger and the drift are recursive functions.  What is said of them *)
(* for every n is proved by induction over a set of naturals, from the     *)
(* library's theorem that < is well founded on them.                       *)
(***************************************************************************)
EXTENDS StateCommitment, WellFoundedInduction, FiniteSetTheorems, SequenceTheorems,
        TLAPS

(***************************************************************************)
(* Induction over the naturals, for a set instead of a predicate.          *)
(***************************************************************************)
LEMMA LeastElement ==
  ASSUME NEW T \in SUBSET Nat, T # {}
  PROVE  \E x \in T : \A y \in T : x <= y
<1> DEFINE R == {ss \in Nat \X Nat : ss[1] < ss[2]}
<1>1. IsWellFoundedOn(R, Nat)
  BY NatLessThanWellFounded DEF OpToRel
<1>2. PICK x \in T : \A y \in T : ~ (<<y, x>> \in R)
  <2> HIDE DEF R
  <2> QED  BY <1>1, WFMin
<1>3. \A y \in T : ~ (y < x)
  BY <1>2
<1> QED  BY <1>3

LEMMA SetInduction ==
  ASSUME NEW S, 0 \in S, \A n \in Nat : n \in S => n + 1 \in S
  PROVE  \A n \in Nat : n \in S
<1> SUFFICES ASSUME NEW n \in Nat, n \notin S PROVE FALSE
  OBVIOUS
<1>1. PICK x \in Nat \ S : \A y \in Nat \ S : x <= y
  BY LeastElement
<1>2. x - 1 \in Nat /\ x - 1 \in S
  BY <1>1
<1> QED  BY <1>1, <1>2

(***************************************************************************)
(* Geth's ledger is defined by recursion over the transactions.            *)
(***************************************************************************)
LEMMA LedgerStep ==
  ASSUME NEW txs, Len(txs) \in Nat
  PROVE  /\ GethLedger(txs)[0] = GenesisLedger
         /\ \A n \in 1..Len(txs) :
              GethLedger(txs)[n] = GethApply(GethLedger(txs)[n - 1], txs[n])
<1> DEFINE Body(f, i) == IF i = 0 THEN GenesisLedger
                                  ELSE GethApply(f[i - 1], txs[i])
           S == {n \in Nat : \E f : f = [i \in 0..n |-> Body(f, i)]}
<1>1. 0 \in S
  <2> DEFINE f == [i \in 0..0 |-> GenesisLedger]
  <2>1. f = [i \in 0..0 |-> Body(f, i)]
    OBVIOUS
  <2> QED  BY <2>1
<1>2. ASSUME NEW n \in Nat, n \in S
      PROVE  n + 1 \in S
  <2>1. PICK f : f = [i \in 0..n |-> Body(f, i)]
    BY <1>2
  <2> DEFINE g == [i \in 0..(n + 1) |->
                     IF i = n + 1 THEN GethApply(f[n], txs[n + 1]) ELSE f[i]]
  <2>2. ASSUME NEW i \in 0..(n + 1)
        PROVE  g[i] = Body(g, i)
    <3>1. CASE i = n + 1
      BY <3>1
    <3>2. CASE i = 0
      BY <3>2, <2>1
    <3>3. CASE i \in 1..n
      <4>1. g[i] = f[i] /\ g[i - 1] = f[i - 1]
        BY <3>3
      <4>2. f[i] = Body(f, i)
        BY <3>3, <2>1
      <4> QED  BY <4>1, <4>2, <3>3
    <3> QED  BY <3>1, <3>2, <3>3
  <2>3. g = [i \in 0..(n + 1) |-> Body(g, i)]
    BY <2>2
  <2> HIDE DEF g
  <2> QED  BY <2>3
<1>3. Len(txs) \in S
  <2> HIDE DEF S
  <2> QED  BY <1>1, <1>2, SetInduction
<1>4. PICK f : f = [i \in 0..Len(txs) |-> Body(f, i)]
  BY <1>3
<1> DEFINE L == GethLedger(txs)
<1>5. L = [i \in 0..Len(txs) |-> Body(L, i)]
  BY <1>4 DEF GethLedger
<1> HIDE DEF L
<1>6. L[0] = GenesisLedger
  BY <1>5
<1>7. \A n \in 1..Len(txs) : L[n] = GethApply(L[n - 1], txs[n])
  BY <1>5
<1> QED  BY <1>6, <1>7 DEF L

\* And so are the sums of a sequence of numbers.
LEMMA SumsStep ==
  ASSUME NEW g, MaxTx \in Nat
  PROVE  /\ Sums(g)[0] = 0
         /\ \A n \in 1..MaxTx : Sums(g)[n] = Sums(g)[n - 1] + g[n]
<1> DEFINE Body(f, i) == IF i = 0 THEN 0 ELSE f[i - 1] + g[i]
           S == {n \in Nat : \E f : f = [i \in 0..n |-> Body(f, i)]}
<1>1. 0 \in S
  <2> DEFINE f == [i \in 0..0 |-> 0]
  <2>1. f = [i \in 0..0 |-> Body(f, i)]
    OBVIOUS
  <2> QED  BY <2>1
<1>2. ASSUME NEW n \in Nat, n \in S
      PROVE  n + 1 \in S
  <2>1. PICK f : f = [i \in 0..n |-> Body(f, i)]
    BY <1>2
  <2> DEFINE h == [i \in 0..(n + 1) |->
                     IF i = n + 1 THEN f[n] + g[n + 1] ELSE f[i]]
  <2>2. ASSUME NEW i \in 0..(n + 1)
        PROVE  h[i] = Body(h, i)
    <3>1. CASE i = n + 1
      BY <3>1
    <3>2. CASE i = 0
      BY <3>2, <2>1
    <3>3. CASE i \in 1..n
      <4>1. h[i] = f[i] /\ h[i - 1] = f[i - 1]
        BY <3>3
      <4>2. f[i] = Body(f, i)
        BY <3>3, <2>1
      <4> QED  BY <4>1, <4>2, <3>3
    <3> QED  BY <3>1, <3>2, <3>3
  <2>3. h = [i \in 0..(n + 1) |-> Body(h, i)]
    BY <2>2
  <2> HIDE DEF h
  <2> QED  BY <2>3
<1>3. MaxTx \in S
  <2> HIDE DEF S
  <2> QED  BY <1>1, <1>2, SetInduction
<1>4. PICK f : f = [i \in 0..MaxTx |-> Body(f, i)]
  BY <1>3
<1> DEFINE D == Sums(g)
<1>5. D = [i \in 0..MaxTx |-> Body(D, i)]
  BY <1>4 DEF Sums
<1> HIDE DEF D
<1>6. D[0] = 0
  BY <1>5
<1>7. \A n \in 1..MaxTx : D[n] = D[n - 1] + g[n]
  BY <1>5
<1> QED  BY <1>6, <1>7 DEF D

\* The drift of an account is such a sum.
LEMMA DriftStep ==
  ASSUME NEW a, MaxTx \in Nat
  PROVE  /\ Drift(a)[0] = 0
         /\ \A n \in 1..MaxTx : Drift(a)[n] = Drift(a)[n - 1] + Gap(a, n)
<1> DEFINE g == [n \in 1..MaxTx |-> Gap(a, n)]
<1>1. \A n \in 1..MaxTx : g[n] = Gap(a, n)
  OBVIOUS
<1> HIDE DEF g
<1>2. Drift(a) = Sums(g)
  BY DEF Drift, g
<1> QED  BY <1>1, <1>2, SumsStep

\* Sums up to m depend on the numbers up to m only.
LEMMA SumsAgree ==
  ASSUME NEW f, NEW g, MaxTx \in Nat, NEW m \in 0..MaxTx,
         \A i \in 1..m : f[i] = g[i]
  PROVE  Sums(f)[m] = Sums(g)[m]
<1> DEFINE S == {n \in Nat : n <= m => Sums(f)[n] = Sums(g)[n]}
<1>1. 0 \in S
  BY SumsStep
<1>2. ASSUME NEW n \in Nat, n \in S
      PROVE  n + 1 \in S
  <2> SUFFICES ASSUME n + 1 <= m PROVE Sums(f)[n + 1] = Sums(g)[n + 1]
    OBVIOUS
  <2> DEFINE k == n + 1
  <2>1. k \in 1..m /\ k \in 1..MaxTx /\ k - 1 = n /\ Sums(f)[n] = Sums(g)[n]
    BY <1>2
  <2> HIDE DEF k
  <2>2. Sums(f)[k] = Sums(f)[n] + f[k] /\ Sums(g)[k] = Sums(g)[n] + g[k]
    BY <2>1, SumsStep
  <2> QED  BY <2>1, <2>2 DEF k
<1> HIDE DEF S
<1>3. \A n \in Nat : n \in S
  BY <1>1, <1>2, SetInduction
<1> QED  BY <1>3 DEF S

(***************************************************************************)
(* The blocks.                                                             *)
(***************************************************************************)
LEMMA BlockFacts ==
  /\ MaxTx \in Nat
  /\ \A b \in 0..MaxBlock : TxsUpTo[b] \in 0..MaxTx
  /\ \A b \in 1..MaxBlock : TxsUpTo[b - 1] <= TxsUpTo[b]
  /\ TxsUpTo[0] = 0
  BY AccountAssumption DEF MaxTx

\* The largest block is a block: the set of their sizes has a maximum, for
\* its least upper bound is in it.
LEMMA LargestBlockFacts ==
  /\ LargestBlock \in 0..MaxTx
  /\ \A b \in 1..MaxBlock : TxsUpTo[b] - TxsUpTo[b - 1] <= LargestBlock
<1> DEFINE Sizes  == {TxsUpTo[b] - TxsUpTo[b - 1] : b \in 1..MaxBlock}
           Bounds == {n \in Nat : \A size \in Sizes : size <= n}
<1>1. Sizes \subseteq 0..MaxTx /\ MaxTx \in Nat
  <2>1. ASSUME NEW b \in 1..MaxBlock
        PROVE  TxsUpTo[b] - TxsUpTo[b - 1] \in 0..MaxTx
    <3>1. b \in 0..MaxBlock /\ b - 1 \in 0..MaxBlock
      BY AccountAssumption
    <3>2. TxsUpTo[b] \in 0..MaxTx /\ TxsUpTo[b - 1] \in 0..MaxTx
          /\ TxsUpTo[b - 1] <= TxsUpTo[b] /\ MaxTx \in Nat
      BY <3>1, BlockFacts
    <3> QED  BY <3>2
  <2> QED  BY <2>1, BlockFacts
<1>2. TxsUpTo[1] - TxsUpTo[0] \in Sizes
  BY AccountAssumption
<1> HIDE DEF Sizes
<1>3. MaxTx \in Bounds /\ Bounds \subseteq Nat
  BY <1>1
<1>4. PICK m \in Bounds : \A n \in Bounds : m <= n
  BY <1>3, LeastElement
<1>5. m \in Sizes
  <2> SUFFICES ASSUME m \notin Sizes PROVE FALSE
    OBVIOUS
  <2>1. \A size \in Sizes : size < m /\ size \in Nat
    <3>1. \A size \in Sizes : size <= m
      BY <1>4
    <3>2. \A size \in Sizes : size \in Nat /\ size # m
      BY <1>1
    <3> QED  BY <3>1, <3>2, <1>3
  <2>2. m \in Nat /\ m # 0
    <3>1. PICK size \in Sizes : TRUE
      BY <1>2
    <3> QED  BY <3>1, <2>1, <1>3
  <2>3. m - 1 \in Nat /\ \A size \in Sizes : size <= m - 1
    BY <2>1, <2>2
  <2>4. m - 1 \in Bounds
    BY <2>3
  <2> QED  BY <2>2, <2>4, <1>4
<1>6. \A size \in Sizes : m >= size
  BY <1>4, <1>1
<1>7. LargestBlock = CHOOSE x \in Sizes : \A y \in Sizes : x >= y
  BY DEF LargestBlock, Max, Sizes
<1>8. LargestBlock \in Sizes /\ \A y \in Sizes : LargestBlock >= y
  BY <1>5, <1>6, <1>7
<1>9. \A b \in 1..MaxBlock : TxsUpTo[b] - TxsUpTo[b - 1] \in Sizes
  BY DEF Sizes
<1>10. LargestBlock \in 0..MaxTx
  BY <1>8, <1>1
<1> QED
  <2>1. ASSUME NEW b \in 1..MaxBlock
        PROVE  TxsUpTo[b] - TxsUpTo[b - 1] <= LargestBlock
    BY <1>1, <1>8, <1>9, <1>10
  <2> QED  BY <2>1, <1>10

----------------------------------------------------------------------------
(***************************************************************************)
(* Account databases: the copy's and Geth's.                               *)
(***************************************************************************)
Typed(db) == DOMAIN db \subseteq Address /\ \A a \in DOMAIN db : db[a] \in Account

\* The addresses stored.
Stored(db) == DOMAIN db

Solvent(db) == \A a \in DOMAIN db : db[a].balance >= 0

LEMMA CreateTyped ==
  ASSUME NEW balance \in Int
  PROVE  /\ CreateAccount(balance) \in Account
         /\ CreateAccount(balance).balance = balance
         /\ CreateAccount(balance).nonce = 0
         /\ ~CreateAccount(balance).code
         /\ CreateAccount(balance).storage = {}
  BY DEF CreateAccount, Account

LEMMA GetTyped ==
  ASSUME NEW db, Typed(db), NEW a
  PROVE  /\ GetAccount(db, a) \in Account
         /\ Solvent(db) => GetAccount(db, a).balance >= 0
         /\ a \notin Stored(db) =>
              /\ GetAccount(db, a).balance = 0 /\ GetAccount(db, a).nonce = 0
              /\ ~GetAccount(db, a).code
  BY CreateTyped DEF Typed, Solvent, Stored, GetAccount, EmptyAccount

LEMMA SaveTyped ==
  ASSUME NEW db, Typed(db), NEW a \in Address, NEW account \in Account
  PROVE  /\ Typed(SaveAccount(db, a, account))
         /\ Solvent(db) /\ account.balance >= 0
              => Solvent(SaveAccount(db, a, account))
         /\ Stored(SaveAccount(db, a, account)) = Stored(db) \cup {a}
         /\ GetAccount(SaveAccount(db, a, account), a) = account
         /\ \A x : x # a => GetAccount(SaveAccount(db, a, account), x)
                              = GetAccount(db, x)
  BY DEF Typed, Solvent, Stored, SaveAccount, GetAccount

LEMMA UpdateTyped ==
  ASSUME NEW db, Typed(db), NEW a \in Address, NEW balance \in Int,
         NEW nonce \in Nat, NEW new, new = UpdateAccount(db, a, balance, nonce)
  PROVE  /\ Typed(new)
         /\ Solvent(db) /\ balance >= 0 => Solvent(new)
         /\ Stored(new) = Stored(db) \cup {a}
         /\ GetAccount(new, a).balance = balance
         /\ GetAccount(new, a).nonce = nonce
         /\ GetAccount(new, a).code = GetAccount(db, a).code
         /\ \A x : x # a => GetAccount(new, x) = GetAccount(db, x)
<1> DEFINE old     == GetAccount(db, a)
           account == [old EXCEPT !.balance = balance, !.nonce = nonce]
<1>1. old \in Account
  BY GetTyped
<1>2. /\ account \in Account
      /\ account.balance = balance /\ account.nonce = nonce
      /\ account.code = old.code
  BY <1>1 DEF Account
<1>3. UpdateAccount(db, a, balance, nonce) = SaveAccount(db, a, account)
  BY DEF UpdateAccount
<1> HIDE DEF account
<1>4. /\ Typed(new)
      /\ Solvent(db) /\ balance >= 0 => Solvent(new)
      /\ Stored(new) = Stored(db) \cup {a}
      /\ GetAccount(new, a) = account
      /\ \A x : x # a => GetAccount(new, x) = GetAccount(db, x)
  <2> DEFINE saved == SaveAccount(db, a, account)
  <2>1. /\ Typed(saved)
        /\ Solvent(db) /\ account.balance >= 0 => Solvent(saved)
        /\ Stored(saved) = Stored(db) \cup {a}
        /\ GetAccount(saved, a) = account
        /\ \A x : x # a => GetAccount(saved, x) = GetAccount(db, x)
    <3> HIDE DEF old
    <3> QED  BY <1>2, SaveTyped
  <2>2. new = saved
    BY <1>3
  <2>3. account.balance = balance
    BY <1>2
  <2> HIDE DEF saved
  <2> QED  BY <2>1, <2>2, <2>3
<1> QED  BY <1>2, <1>4

LEMMA StorageTyped ==
  ASSUME NEW db, Typed(db), NEW a \in Address, NEW slot \in Slots,
         NEW new, new = SetStorage(db, a, slot)
  PROVE  /\ Typed(new)
         /\ Solvent(db) => Solvent(new)
         /\ Stored(new) = Stored(db) \cup {a}
         /\ GetAccount(new, a).balance = GetAccount(db, a).balance
         /\ GetAccount(new, a).nonce = GetAccount(db, a).nonce
         /\ \A x : x # a => GetAccount(new, x) = GetAccount(db, x)
<1> DEFINE old     == GetAccount(db, a)
           account == [old EXCEPT !.storage = @ \cup {slot}]
<1>1. old \in Account
  BY GetTyped
<1>2. /\ account \in Account
      /\ account.balance = old.balance /\ account.nonce = old.nonce
  BY <1>1 DEF Account
<1>3. Solvent(db) => old.balance >= 0
  BY GetTyped
<1>4. SetStorage(db, a, slot) = SaveAccount(db, a, account)
  BY DEF SetStorage
<1> HIDE DEF account
<1>5. /\ Typed(new)
      /\ Solvent(db) /\ account.balance >= 0 => Solvent(new)
      /\ Stored(new) = Stored(db) \cup {a}
      /\ GetAccount(new, a) = account
      /\ \A x : x # a => GetAccount(new, x) = GetAccount(db, x)
  <2> DEFINE saved == SaveAccount(db, a, account)
  <2>1. /\ Typed(saved)
        /\ Solvent(db) /\ account.balance >= 0 => Solvent(saved)
        /\ Stored(saved) = Stored(db) \cup {a}
        /\ GetAccount(saved, a) = account
        /\ \A x : x # a => GetAccount(saved, x) = GetAccount(db, x)
    <3> HIDE DEF old
    <3> QED  BY <1>2, SaveTyped
  <2>2. new = saved
    BY <1>4
  <2> HIDE DEF saved
  <2> QED  BY <2>1, <2>2
<1> QED  BY <1>2, <1>3, <1>5

----------------------------------------------------------------------------
(***************************************************************************)
(* The indexer's place: which block it is in, and that the block on disk   *)
(* is the one in work, so that a restart repeats no other.                 *)
(***************************************************************************)
PlaceInv ==
  /\ ipc = "start" => lastBlock = 0 /\ pos = 0
  /\ ipc # "start" =>
       /\ lastBlock \in 1..(MaxBlock + 1)
       /\ dbLastBlock = lastBlock \/ (dbLastBlock = 0 /\ lastBlock = 1)
  /\ ipc \notin {"start", "fetch"} => lastBlock \in 1..MaxBlock
  /\ ipc \in InTransaction =>
       pos \in (TxsUpTo[lastBlock - 1] + 1)..TxsUpTo[lastBlock]
  /\ ipc = "commit" => pos = TxsUpTo[lastBlock] + 1

\* What TypeOK says of the other variables than accounts.
ControlOK ==
  /\ dbLastBlock \in 0..(MaxBlock + 1)
  /\ ipc \in {"start", "fetch", "commit"} \cup InTransaction
  /\ lastBlock \in 0..(MaxBlock + 1)
  /\ pos \in 0..(MaxTx + 1)
  /\ todo \subseteq Slots
  /\ refused \subseteq 1..MaxTx /\ unmetered \subseteq 1..MaxTx
  /\ crashes \in 0..MaxCrashes /\ faults \in 0..MaxFaults

ControlInv == chain \in Chains /\ ControlOK /\ PlaceInv

LEMMA ChainTyped ==
  ASSUME chain \in Chains
  PROVE  /\ chain \in Seq(Kinds) /\ Len(chain) = MaxTx
         /\ \A i \in 1..MaxTx : chain[i] \in Kinds
<1>1. chain \in [1..MaxTx -> Kinds] /\ MaxTx \in Nat
  BY BlockFacts DEF Chains
<1>2. chain \in Seq(Kinds)
  BY <1>1, SeqDef
<1>3. DOMAIN chain = 1..MaxTx /\ DOMAIN chain = 1..Len(chain) /\ Len(chain) \in Nat
  BY <1>1, <1>2, LenProperties
<1> QED  BY <1>1, <1>2, <1>3

LEMMA InBlock ==
  ASSUME ControlInv, ipc \in InTransaction
  PROVE  /\ lastBlock \in 1..MaxBlock
         /\ TxsUpTo[lastBlock - 1] \in 0..MaxTx /\ TxsUpTo[lastBlock] \in 0..MaxTx
         /\ pos \in 1..MaxTx
         /\ chain[pos] \in Kinds /\ chain[pos] \in Transaction
         /\ chain[pos].used <= chain[pos].gas
<1>1. lastBlock \in 1..MaxBlock
      /\ pos \in (TxsUpTo[lastBlock - 1] + 1)..TxsUpTo[lastBlock]
  BY DEF ControlInv, PlaceInv, InTransaction
<1>2. lastBlock \in 0..MaxBlock /\ lastBlock - 1 \in 0..MaxBlock
  BY <1>1, AccountAssumption
<1>3. TxsUpTo[lastBlock - 1] \in 0..MaxTx /\ TxsUpTo[lastBlock] \in 0..MaxTx
      /\ MaxTx \in Nat
  BY <1>2, BlockFacts
<1>4. pos \in 1..MaxTx
  BY <1>1, <1>3
<1>5. chain[pos] \in Kinds
  BY <1>4, ChainTyped DEF ControlInv
<1> QED  BY <1>1, <1>3, <1>4, <1>5, AccountAssumption

\* The place after a transaction.
LEMMA NextPlace ==
  ASSUME ControlInv, ipc \in InTransaction, NextTransaction
  PROVE  /\ UNCHANGED <<chain, dbLastBlock, lastBlock>>
         /\ pos' = pos + 1
         /\ PlaceInv'
         /\ ipc' \in {"commit", "from"} /\ pos' \in 0..(MaxTx + 1)
<1>1. /\ UNCHANGED <<chain, dbLastBlock, lastBlock>> /\ pos' = pos + 1
      /\ ipc' = IF pos' > TxsUpTo[lastBlock] THEN "commit" ELSE "from"
  BY DEF NextTransaction, AtTransaction
<1>2. /\ lastBlock \in 1..MaxBlock /\ pos \in 1..MaxTx
      /\ TxsUpTo[lastBlock - 1] \in 0..MaxTx /\ TxsUpTo[lastBlock] \in 0..MaxTx
  BY InBlock
<1>3. /\ pos \in (TxsUpTo[lastBlock - 1] + 1)..TxsUpTo[lastBlock]
      /\ dbLastBlock = lastBlock \/ (dbLastBlock = 0 /\ lastBlock = 1)
  BY DEF ControlInv, PlaceInv, InTransaction
<1>4. MaxTx \in Nat /\ MaxBlock \in Nat
  BY BlockFacts, AccountAssumption
<1>5. CASE pos + 1 > TxsUpTo[lastBlock]
  <2>1. ipc' = "commit" /\ pos' = TxsUpTo[lastBlock] + 1 /\ pos' \in 0..(MaxTx + 1)
    BY <1>1, <1>2, <1>3, <1>4, <1>5
  <2>2. lastBlock' \in 1..(MaxBlock + 1) /\ lastBlock' \in 1..MaxBlock
    BY <1>1, <1>2, <1>4
  <2> QED  BY <1>1, <1>3, <2>1, <2>2 DEF PlaceInv, InTransaction
<1>6. CASE ~(pos + 1 > TxsUpTo[lastBlock])
  <2>1. /\ ipc' = "from" /\ pos' \in 0..(MaxTx + 1)
        /\ pos' \in (TxsUpTo[lastBlock - 1] + 1)..TxsUpTo[lastBlock]
    BY <1>1, <1>2, <1>3, <1>4, <1>6
  <2>2. lastBlock' \in 1..(MaxBlock + 1) /\ lastBlock' \in 1..MaxBlock
    BY <1>1, <1>2, <1>4
  <2> QED  BY <1>1, <1>3, <2>1, <2>2 DEF PlaceInv, InTransaction
<1> QED  BY <1>5, <1>6

LEMMA ControlStep == ControlInv /\ [Next]_vars => ControlInv'
<1> SUFFICES ASSUME ControlInv, [Next]_vars PROVE ControlInv'
  OBVIOUS
<1>a. MaxTx \in Nat /\ MaxBlock \in Nat \ {0}
      /\ MaxCrashes \in Nat /\ MaxFaults \in Nat
  BY BlockFacts, AccountAssumption
<1>b. chain \in Chains /\ ControlOK /\ PlaceInv
  BY DEF ControlInv
\* A step of one transaction that does not end it.
<1>s. ASSUME UNCHANGED <<chain, dbLastBlock, lastBlock, pos, refused, crashes>>,
             ipc \in InTransaction, ipc' \in InTransaction,
             todo' \subseteq Slots, faults' \in 0..MaxFaults,
             unmetered' \subseteq 1..MaxTx
      PROVE  ControlInv'
  <2>1. PlaceInv'
    BY <1>s, <1>b DEF PlaceInv, InTransaction
  <2> QED  BY <1>s, <1>b, <2>1 DEF ControlOK, ControlInv
<1>f. ASSUME NEW used \in {0, tx.used}, GasUsedAnswer(used)
      PROVE  /\ faults' \in 0..MaxFaults
             /\ pos \in 1..MaxTx => unmetered' \subseteq 1..MaxTx
  <2>1. faults' \in 0..MaxFaults
    BY <1>f, <1>a, <1>b DEF GasUsedAnswer, ControlOK
  <2>2. unmetered' \subseteq unmetered \cup {pos} /\ unmetered \subseteq 1..MaxTx
    BY <1>f, <1>b DEF GasUsedAnswer, ControlOK
  <2> QED  BY <2>1, <2>2
<1>1. CASE LoadGenesis
  <2>1. /\ ipc' = "fetch" /\ lastBlock' = 1 /\ dbLastBlock = 0
        /\ UNCHANGED <<chain, dbLastBlock, pos, todo, refused, unmetered,
                       crashes, faults>>
    BY <1>1 DEF LoadGenesis, history
  <2>2. PlaceInv'
    BY <2>1, <1>a DEF PlaceInv, InTransaction
  <2>3. lastBlock' \in 0..(MaxBlock + 1)
    BY <2>1, <1>a
  <2> QED  BY <2>1, <2>2, <2>3, <1>b DEF ControlOK, ControlInv
<1>2. CASE Resume
  <2>1. /\ ipc' = "fetch" /\ lastBlock' = dbLastBlock /\ dbLastBlock # 0
        /\ UNCHANGED <<chain, dbLastBlock, pos, todo, refused, unmetered,
                       crashes, faults>>
    BY <1>2 DEF Resume, history, durable
  <2>2. PlaceInv'
    BY <2>1, <1>a, <1>b DEF PlaceInv, InTransaction, ControlOK
  <2> QED  BY <2>1, <2>2, <1>b DEF ControlOK, ControlInv
<1>3. CASE FetchBlock
  <2>1. /\ ipc = "fetch" /\ lastBlock <= MaxBlock
        /\ pos' = TxsUpTo[lastBlock - 1] + 1
        /\ ipc' = IF pos' > TxsUpTo[lastBlock] THEN "commit" ELSE "from"
        /\ UNCHANGED <<chain, dbLastBlock, lastBlock, todo, refused, unmetered,
                       crashes, faults>>
    BY <1>3 DEF FetchBlock, AtTransaction, history, durable
  <2>2. /\ lastBlock \in 1..MaxBlock
        /\ dbLastBlock = lastBlock \/ (dbLastBlock = 0 /\ lastBlock = 1)
    BY <2>1, <1>a, <1>b DEF PlaceInv
  <2>3. lastBlock - 1 \in 0..MaxBlock /\ lastBlock \in 0..MaxBlock
    BY <2>2, <1>a
  <2>4. /\ TxsUpTo[lastBlock - 1] \in 0..MaxTx /\ TxsUpTo[lastBlock] \in 0..MaxTx
        /\ TxsUpTo[lastBlock - 1] <= TxsUpTo[lastBlock]
    BY <2>2, <2>3, BlockFacts
  <2>5. pos' \in 0..(MaxTx + 1)
    BY <2>1, <2>4, <1>a
  <2>6. /\ ipc' = "commit" => pos' = TxsUpTo[lastBlock] + 1
        /\ ipc' = "from"
             => pos' \in (TxsUpTo[lastBlock - 1] + 1)..TxsUpTo[lastBlock]
    BY <2>1, <2>4
  <2>7. ipc' \in {"commit", "from"} /\ lastBlock \in 1..(MaxBlock + 1)
    BY <2>1, <2>2, <1>a
  <2>8. PlaceInv'
    BY <2>1, <2>2, <2>6, <2>7 DEF PlaceInv, InTransaction
  <2> QED  BY <2>1, <2>5, <2>7, <2>8, <1>b DEF ControlOK, ControlInv, InTransaction
<1>4. CASE CommitBlock
  <2>1. /\ ipc = "commit" /\ ipc' = "fetch"
        /\ lastBlock' = lastBlock + 1 /\ dbLastBlock' = lastBlock'
        /\ UNCHANGED <<chain, pos, todo, refused, unmetered,
                       crashes, faults>>
    BY <1>4 DEF CommitBlock, history
  <2>2. lastBlock \in 1..MaxBlock
    BY <2>1, <1>b DEF PlaceInv
  <2>3. lastBlock' \in 1..(MaxBlock + 1) /\ lastBlock' \in 0..(MaxBlock + 1)
    BY <2>1, <2>2, <1>a
  <2>4. PlaceInv'
    BY <2>1, <2>3 DEF PlaceInv, InTransaction
  <2> QED  BY <2>1, <2>3, <2>4, <1>b DEF ControlOK, ControlInv
<1>5. CASE UpdateSender
  <2>1. /\ ipc = "from" /\ ipc' = "to"
        /\ UNCHANGED <<chain, dbLastBlock, lastBlock, pos, todo, refused, crashes>>
    BY <1>5 DEF UpdateSender
  <2>2. faults' \in 0..MaxFaults /\ unmetered' \subseteq 1..MaxTx
    <3>1. pos \in 1..MaxTx
      BY <2>1, InBlock DEF InTransaction
    <3> QED  BY <3>1, <1>5, <1>f DEF UpdateSender
  <2> QED  BY <2>1, <2>2, <1>b, <1>s DEF ControlOK, InTransaction
<1>6. CASE RejectTransaction
  <2>1. /\ ipc = "from" /\ NextTransaction /\ refused' = refused \cup {pos}
        /\ UNCHANGED <<todo, unmetered, crashes>>
    BY <1>6 DEF RejectTransaction
  <2>2. faults' \in 0..MaxFaults
    BY <1>6, <1>a, <1>b DEF RejectTransaction, ControlOK
  <2>3. ipc \in InTransaction
    BY <2>1 DEF InTransaction
  <2>4. /\ PlaceInv' /\ UNCHANGED <<chain, dbLastBlock, lastBlock>>
        /\ ipc' \in {"commit", "from"} /\ pos' \in 0..(MaxTx + 1)
    BY <2>1, <2>3, NextPlace
  <2>5. pos \in 1..MaxTx
    BY <2>3, InBlock
  <2> QED  BY <2>1, <2>2, <2>4, <2>5, <1>b DEF ControlOK, ControlInv, InTransaction
<1>7. CASE FetchContractState
  <2>1. /\ ipc = "to" /\ ipc' = "slots" /\ todo' \subseteq Slots
        /\ UNCHANGED <<chain, dbLastBlock, lastBlock, pos, refused, unmetered,
                       crashes, faults>>
    BY <1>7 DEF FetchContractState, history, durable
  <2> QED  BY <2>1, <1>b, <1>s DEF ControlOK, InTransaction
<1>8. CASE SetNextStorage
  <2>1. /\ ipc = "slots" /\ todo' \subseteq todo
        /\ UNCHANGED <<chain, dbLastBlock, ipc, lastBlock, pos, refused, unmetered,
                       crashes, faults>>
    BY <1>8 DEF SetNextStorage, history
  <2>2. todo' \subseteq Slots
    BY <2>1, <1>b DEF ControlOK
  <2> QED  BY <2>1, <2>2, <1>b, <1>s DEF ControlOK, InTransaction
<1>9. CASE UpdateRecipient
  <2>1. /\ ipc \in {"to", "slots"} /\ NextTransaction
        /\ UNCHANGED <<todo, refused, unmetered,
                       crashes, faults>>
    BY <1>9 DEF UpdateRecipient, history
  <2>2. ipc \in InTransaction
    BY <2>1 DEF InTransaction
  <2>3. /\ PlaceInv' /\ UNCHANGED <<chain, dbLastBlock, lastBlock>>
        /\ ipc' \in {"commit", "from"} /\ pos' \in 0..(MaxTx + 1)
    BY <2>1, <2>2, NextPlace
  <2> QED  BY <2>1, <2>3, <1>b DEF ControlOK, ControlInv, InTransaction
<1>10. CASE Crash
  <2>1. /\ ipc' = "start" /\ lastBlock' = 0 /\ pos' = 0 /\ todo' = {}
        /\ UNCHANGED <<chain, dbLastBlock, refused, unmetered, faults>>
    BY <1>10 DEF Crash, durable
  <2>2. crashes' \in 0..MaxCrashes
    BY <1>10, <1>a, <1>b DEF Crash, ControlOK
  <2>3. PlaceInv' /\ pos' \in 0..(MaxTx + 1) /\ lastBlock' \in 0..(MaxBlock + 1)
    BY <2>1, <1>a DEF PlaceInv, InTransaction
  <2> QED  BY <2>1, <2>2, <2>3, <1>b DEF ControlOK, ControlInv
<1>11. CASE AwaitBlock \/ UNCHANGED vars
  <2>1. UNCHANGED <<chain, dbLastBlock, ipc, lastBlock, pos, todo, refused, unmetered,
                       crashes, faults>>
    BY <1>11 DEF AwaitBlock, vars, durable, indexer, history
  <2> QED  BY <2>1, <1>b DEF ControlInv, ControlOK, PlaceInv
<1> QED
  BY <1>1, <1>2, <1>3, <1>4, <1>5, <1>6, <1>7, <1>8, <1>9, <1>10, <1>11
  DEF Next, Indexer

LEMMA ControlCorrect == Spec => []ControlInv
<1>1. Init => ControlInv
  <2> SUFFICES ASSUME Init PROVE ControlInv
    OBVIOUS
  <2>1. MaxTx \in Nat /\ MaxBlock \in Nat /\ MaxCrashes \in Nat /\ MaxFaults \in Nat
    BY BlockFacts, AccountAssumption
  <2>2. PlaceInv
    BY DEF Init, PlaceInv, InTransaction
  <2> QED  BY <2>1, <2>2 DEF Init, ControlInv, ControlOK
<1> QED  BY <1>1, ControlStep, PTL DEF Spec

----------------------------------------------------------------------------
(***************************************************************************)
(* The transactions one user has sent, counted.                            *)
(***************************************************************************)
SentTo(u, n) == {i \in 1..n : chain[i].from = u}

LEMMA SentFinite ==
  ASSUME NEW u, NEW n \in Nat
  PROVE  /\ IsFiniteSet(SentTo(u, n))
         /\ Cardinality(SentTo(u, n)) \in 0..n
         /\ Cardinality(SentTo(u, n)) \in Nat
<1>1. /\ IsFiniteSet(1..n) /\ Cardinality(1..n) = n
      /\ SentTo(u, n) \in SUBSET (1..n)
  BY FS_Interval DEF SentTo
<1>2. IsFiniteSet(SentTo(u, n)) /\ Cardinality(SentTo(u, n)) <= n
  BY <1>1, FS_Subset
<1> QED  BY <1>2, FS_CardinalityType

LEMMA SentLess ==
  ASSUME NEW u, NEW n \in Nat, NEW R
  PROVE  /\ IsFiniteSet(SentTo(u, n) \ R)
         /\ Cardinality(SentTo(u, n) \ R) \in Nat
<1>1. IsFiniteSet(SentTo(u, n) \ R)
  BY SentFinite, FS_Difference
<1> QED  BY <1>1, FS_CardinalityType

\* One more transaction.
LEMMA SentNext ==
  ASSUME NEW u, NEW n \in Nat, NEW R,
         NEW one, one = IF chain[n + 1].from = u THEN 1 ELSE 0
  PROVE  /\ Cardinality(SentTo(u, n + 1)) = Cardinality(SentTo(u, n)) + one
         /\ Cardinality(SentTo(u, n + 1) \ R) <= Cardinality(SentTo(u, n) \ R) + one
<1>1. /\ IsFiniteSet(SentTo(u, n)) /\ IsFiniteSet(SentTo(u, n) \ R)
      /\ Cardinality(SentTo(u, n)) \in Nat
      /\ Cardinality(SentTo(u, n) \ R) \in Nat
  BY SentFinite, SentLess
<1>2. CASE chain[n + 1].from = u
  <2>1. /\ SentTo(u, n + 1) = SentTo(u, n) \cup {n + 1}
        /\ n + 1 \notin SentTo(u, n)
    BY <1>2 DEF SentTo
  <2>2. Cardinality(SentTo(u, n + 1)) = Cardinality(SentTo(u, n)) + 1
    BY <1>1, <2>1, FS_AddElement
  <2> DEFINE Old == SentTo(u, n) \ R
             More == Old \cup {n + 1}
             Both == SentTo(u, n + 1) \ R
  <2>3. Both \in SUBSET More
    BY <2>1
  <2>4. Cardinality(Both) \in Nat /\ IsFiniteSet(Old) /\ Cardinality(Old) \in Nat
    <3>1. n + 1 \in Nat
      OBVIOUS
    <3>2. Cardinality(Both) \in Nat
      BY <3>1, SentLess
    <3> QED  BY <3>2, SentLess
  <2> HIDE DEF Old, Both
  <2>5. /\ IsFiniteSet(More)
        /\ Cardinality(More) = IF n + 1 \in Old THEN Cardinality(Old)
                                                ELSE Cardinality(Old) + 1
    BY <2>4, FS_AddElement
  <2> HIDE DEF More
  <2>6. Cardinality(Both) <= Cardinality(More)
    BY <2>3, <2>5, FS_Subset
  <2>7. Cardinality(Both) <= Cardinality(Old) + 1
    BY <2>4, <2>5, <2>6
  <2> QED  BY <1>2, <2>2, <2>7 DEF Both, Old
<1>3. CASE chain[n + 1].from # u
  <2>1. SentTo(u, n + 1) = SentTo(u, n)
    BY <1>3 DEF SentTo
  <2> QED  BY <1>1, <1>3, <2>1
<1> QED  BY <1>2, <1>3

\* Several more.
LEMMA SentMore ==
  ASSUME NEW u, NEW n \in Nat, NEW m \in Nat, n <= m, NEW R
  PROVE  /\ Cardinality(SentTo(u, m)) <= Cardinality(SentTo(u, n)) + (m - n)
         /\ Cardinality(SentTo(u, n) \ R) <= Cardinality(SentTo(u, m) \ R)
<1> DEFINE More == (n + 1)..m
<1>1. /\ IsFiniteSet(More) /\ Cardinality(More) = m - n
      /\ IsFiniteSet(SentTo(u, n)) /\ IsFiniteSet(SentTo(u, m) \ R)
      /\ Cardinality(SentTo(u, n)) \in Nat
  <2>1. /\ Cardinality(More) = IF n + 1 > m THEN 0 ELSE m - (n + 1) + 1
        /\ IsFiniteSet(More)
    BY FS_Interval
  <2>2. Cardinality(More) = m - n
    BY <2>1
  <2> QED  BY <2>1, <2>2, SentFinite, SentLess
<1>2. /\ SentTo(u, m) \in SUBSET (SentTo(u, n) \cup More)
      /\ SentTo(u, n) \ R \in SUBSET (SentTo(u, m) \ R)
  BY DEF SentTo
<1> HIDE DEF More
<1>3. /\ IsFiniteSet(SentTo(u, n) \cup More)
      /\ IsFiniteSet(SentTo(u, n) \cap More)
      /\ Cardinality(SentTo(u, n) \cup More)
           = Cardinality(SentTo(u, n)) + Cardinality(More)
               - Cardinality(SentTo(u, n) \cap More)
  BY <1>1, FS_Union, FS_Intersection
<1>4. Cardinality(SentTo(u, n) \cap More) \in Nat
  BY <1>3, FS_CardinalityType
<1>5. /\ Cardinality(SentTo(u, m)) <= Cardinality(SentTo(u, n) \cup More)
      /\ Cardinality(SentTo(u, n) \ R) <= Cardinality(SentTo(u, m) \ R)
  BY <1>1, <1>2, <1>3, FS_Subset
<1>6. Cardinality(SentTo(u, m)) \in Nat
  BY SentFinite
<1> QED  BY <1>1, <1>3, <1>4, <1>5, <1>6

(***************************************************************************)
(* NonceBounds, and TypeOK of the accounts.  Charged is how many of the    *)
(* transactions the senders have been charged for, or have been refused;   *)
(* after a crash, those of the blocks before the one to be repeated.       *)
(***************************************************************************)
Charged ==
  IF ipc = "start" THEN IF dbLastBlock = 0 THEN 0 ELSE TxsUpTo[dbLastBlock - 1]
  ELSE IF ipc = "fetch" THEN TxsUpTo[lastBlock - 1]
  ELSE IF ipc \in {"to", "slots"} THEN pos
  ELSE pos - 1

Nonce(u) == GetAccount(accounts, u).nonce

NonceInv ==
  \A u \in Users :
    /\ Nonce(u) >= Cardinality(SentTo(u, Charged) \ refused)
    /\ Nonce(u) <= Cardinality(SentTo(u, Charged)) + crashes * LargestBlock

\* The sender of a transaction in work has been charged.
PaidInv == ipc \in {"to", "slots"} => sender.nonce >= 1

AccountsInv == Typed(accounts) /\ Solvent(accounts) /\ NonceInv /\ PaidInv

LEMMA MulNat ==
  /\ \A x, y \in Nat : x * y \in Nat
  /\ \A x, y, z \in Nat : x <= y => x * z <= y * z /\ z * x <= z * y
<1>1. \A x, y \in Nat : x * y \in Nat
  OBVIOUS
<1>2. ASSUME NEW x \in Nat, NEW y \in Nat, NEW z \in Nat, x <= y
      PROVE  x * z <= y * z /\ z * x <= z * y
  <2>1. y * z = x * z + (y - x) * z /\ (y - x) * z \in Nat
    BY <1>2
  <2> QED  BY <2>1
<1> QED  BY <1>1, <1>2

LEMMA ChargedTyped ==
  ASSUME ControlInv
  PROVE  /\ Charged \in 0..MaxTx /\ Charged \in Nat
         /\ ipc = "from" => Charged = pos - 1 /\ pos - 1 \in Nat
         /\ ipc \in {"to", "slots"} => Charged = pos
<1>a. MaxTx \in Nat /\ MaxBlock \in Nat /\ ControlOK /\ PlaceInv
  BY BlockFacts, AccountAssumption DEF ControlInv
<1>1. CASE ipc = "start"
  <2>1. CASE dbLastBlock = 0
    BY <1>1, <2>1, <1>a DEF Charged
  <2>2. CASE dbLastBlock # 0
    <3>1. dbLastBlock - 1 \in 0..MaxBlock
      BY <2>2, <1>a DEF ControlOK
    <3> QED  BY <3>1, <2>2, <1>1, <1>a, BlockFacts DEF Charged
  <2> QED  BY <2>1, <2>2
<1>2. CASE ipc = "fetch"
  <2>1. lastBlock - 1 \in 0..MaxBlock
    BY <1>2, <1>a DEF PlaceInv
  <2> QED  BY <2>1, <1>2, <1>a, BlockFacts DEF Charged
<1>3. CASE ipc \in InTransaction
  <2>1. pos \in 1..MaxTx
    BY <1>3, InBlock
  <2> QED  BY <2>1, <1>3, <1>a DEF Charged, InTransaction
<1>4. CASE ipc = "commit"
  <2>1. pos = TxsUpTo[lastBlock] + 1 /\ lastBlock \in 0..MaxBlock
    BY <1>4, <1>a DEF PlaceInv
  <2>2. TxsUpTo[lastBlock] \in 0..MaxTx
    BY <2>1, BlockFacts
  <2> QED  BY <2>1, <2>2, <1>4, <1>a DEF Charged
<1> QED  BY <1>a, <1>1, <1>2, <1>3, <1>4 DEF ControlOK

\* The nonces are small enough for the addresses there are.
LEMMA NonceTyped ==
  ASSUME ControlInv, NonceInv, NEW u \in Users, Nonce(u) \in Nat, Nonce(u) >= 1
  PROVE  /\ Nonce(u) - 1 \in Nat
         /\ ContractAddress(u, Nonce(u) - 1) \in Contracts
<1> DEFINE n == Nonce(u)
           c == Cardinality(SentTo(u, Charged))
<1>1. n \in Nat /\ n >= 1 /\ n <= c + crashes * LargestBlock
  BY DEF NonceInv
<1>2. c \in 0..Charged /\ Charged \in 0..MaxTx /\ MaxTx \in Nat
  BY ChargedTyped, SentFinite, BlockFacts
<1>3. /\ LargestBlock \in Nat /\ LargestBlock <= MaxTx
      /\ crashes \in Nat /\ MaxCrashes \in Nat /\ crashes <= MaxCrashes
  BY <1>2, LargestBlockFacts, AccountAssumption DEF ControlInv, ControlOK
<1>4. /\ crashes * LargestBlock <= MaxCrashes * LargestBlock
      /\ MaxCrashes * LargestBlock <= MaxCrashes * MaxTx
      /\ crashes * LargestBlock \in Nat /\ MaxCrashes * LargestBlock \in Nat
      /\ MaxCrashes * MaxTx \in Nat
  BY <1>2, <1>3, MulNat
<1>5. (MaxCrashes + 1) * MaxTx = MaxCrashes * MaxTx + MaxTx
  BY <1>2, <1>3
<1> HIDE DEF n, c
<1>6. n - 1 \in 0..(MaxCrashes + 1) * MaxTx
  BY <1>1, <1>2, <1>3, <1>4, <1>5
<1>7. n - 1 \in Nat
  BY <1>1
<1> QED  BY <1>6, <1>7 DEF n, Contracts

LEMMA CostTyped ==
  ASSUME NEW t \in Transaction, NEW used \in Nat, used <= t.gas
  PROVE  /\ GasPrice(t) \in Nat /\ TotalCost(t, used) \in Nat
         /\ Refund(t, used) \in Nat
<1>1. /\ t.price \in Nat /\ t.tip \in Nat /\ t.value \in Nat /\ t.gas \in Nat
      /\ t.gas - used \in Nat
  BY DEF Transaction
<1>2. GasPrice(t) \in Nat
  BY <1>1 DEF GasPrice
<1>3. used * GasPrice(t) \in Nat /\ (t.gas - used) * GasPrice(t) \in Nat
  BY <1>1, <1>2, MulNat
<1> QED  BY <1>1, <1>2, <1>3 DEF TotalCost, Refund

LEMMA InWork ==
  ASSUME ControlInv, Typed(accounts), ipc \in InTransaction
  PROVE  /\ tx \in Transaction /\ tx \in Kinds /\ tx.used <= tx.gas
         /\ tx.used \in Nat /\ tx.gas \in Nat /\ tx.value \in Nat
         /\ tx.from \in Users /\ tx.from \in Address
         /\ sender \in Account /\ sender.nonce = Nonce(tx.from)
         /\ sender.nonce \in Nat /\ sender.balance \in Int
         /\ Solvent(accounts) => sender.balance >= 0
<1>1. tx \in Transaction /\ tx \in Kinds /\ tx.used <= tx.gas
  BY InBlock DEF tx
<1>2. /\ tx.used \in Nat /\ tx.gas \in Nat /\ tx.value \in Nat
      /\ tx.from \in Users /\ tx.from \in Address
  BY <1>1 DEF Transaction, Address
<1>3. sender \in Account /\ (Solvent(accounts) => sender.balance >= 0)
  BY GetTyped DEF sender
<1>4. sender.nonce \in Nat /\ sender.balance \in Int
  BY <1>3 DEF Account
<1> QED  BY <1>1, <1>2, <1>3, <1>4 DEF sender, Nonce

\* What UpdateSender does to the sender, whatever gas it is told was used.
LEMMA SenderStep ==
  ASSUME ControlInv, Typed(accounts), Solvent(accounts), ipc = "from",
         NEW used \in {0, tx.used}, Accepts(used),
         accounts' = UpdateAccount(accounts, tx.from,
                       sender.balance - TotalCost(tx, used) + Refund(tx, used),
                       sender.nonce + 1)
  PROVE  /\ Typed(accounts') /\ Solvent(accounts')
         /\ GetAccount(accounts', tx.from).balance
              = sender.balance - TotalCost(tx, used) + Refund(tx, used)
         /\ GetAccount(accounts', tx.from).nonce = sender.nonce + 1
         /\ \A a : a # tx.from => GetAccount(accounts', a) = GetAccount(accounts, a)
         /\ Stored(accounts') = Stored(accounts) \cup {tx.from}
<1> DEFINE balance == sender.balance - TotalCost(tx, used) + Refund(tx, used)
           nonce   == sender.nonce + 1
<1>0. ipc \in InTransaction
  BY DEF InTransaction
<1>1. /\ tx \in Transaction /\ used \in Nat /\ used <= tx.gas
      /\ tx.from \in Address /\ sender.nonce \in Nat /\ sender.balance \in Int
  BY <1>0, InWork
<1>2. TotalCost(tx, used) \in Nat /\ Refund(tx, used) \in Nat
  BY <1>1, CostTyped
<1>3. sender.balance >= TotalCost(tx, used)
  BY DEF Accepts
<1>4. balance \in Int /\ balance >= 0 /\ nonce \in Nat
  BY <1>1, <1>2, <1>3
<1> HIDE DEF balance, nonce
<1>5. accounts' = UpdateAccount(accounts, tx.from, balance, nonce)
  BY DEF balance, nonce
<1> DEFINE payer == tx.from
<1>6. /\ Typed(accounts') /\ Solvent(accounts')
      /\ GetAccount(accounts', payer).balance = balance
      /\ GetAccount(accounts', payer).nonce = nonce
      /\ \A a : a # payer => GetAccount(accounts', a) = GetAccount(accounts, a)
      /\ Stored(accounts') = Stored(accounts) \cup {payer}
  <2>1. payer \in Address /\ accounts' = UpdateAccount(accounts, payer, balance, nonce)
    BY <1>1, <1>5
  <2> HIDE DEF payer
  <2>2. /\ Typed(accounts')
        /\ Stored(accounts') = Stored(accounts) \cup {payer}
        /\ GetAccount(accounts', payer).balance = balance
        /\ GetAccount(accounts', payer).nonce = nonce
        /\ \A a : a # payer => GetAccount(accounts', a) = GetAccount(accounts, a)
    BY <2>1, <1>4, UpdateTyped
  <2>3. Solvent(accounts')
    BY <2>1, <1>4, UpdateTyped
  <2> QED  BY <2>2, <2>3
<1> QED  BY <1>6 DEF balance, nonce

LEMMA TargetTyped ==
  ASSUME ControlInv, AccountsInv, ipc \in {"to", "slots"}
  PROVE  /\ Target \in Address
         /\ tx.to # New => Target = tx.to
         /\ tx.to = New => Target = ContractAddress(tx.from, sender.nonce - 1)
                           /\ Target \in Contracts /\ sender.nonce - 1 \in Nat
         /\ recipient \in Account /\ recipient.balance >= 0
<1>0. ipc \in InTransaction /\ Typed(accounts) /\ Solvent(accounts)
  BY DEF InTransaction, AccountsInv
<1>1. /\ tx \in Transaction /\ tx.from \in Users
      /\ sender.nonce = Nonce(tx.from) /\ sender.nonce \in Nat
  BY <1>0, InWork
<1>2. sender.nonce >= 1 /\ NonceInv
  BY DEF AccountsInv, PaidInv
<1>3. /\ ContractAddress(tx.from, sender.nonce - 1) \in Contracts
      /\ sender.nonce - 1 \in Nat
  BY <1>1, <1>2, NonceTyped
<1>5. tx.to \in Address \cup {New}
  BY <1>1 DEF Transaction
<1>6. Target \in Address
  BY <1>3, <1>5 DEF Target, Address
<1>7. recipient \in Account /\ recipient.balance >= 0
  BY <1>0, GetTyped DEF recipient
<1> QED  BY <1>3, <1>6, <1>7 DEF Target

\* What SetNextStorage and UpdateRecipient do to the accounts.
LEMMA StorageStep ==
  ASSUME ControlInv, AccountsInv, SetNextStorage
  PROVE  /\ Typed(accounts') /\ Solvent(accounts')
         /\ Stored(accounts') = Stored(accounts) \cup {Target}
         /\ \A a : /\ GetAccount(accounts', a).balance
                        = GetAccount(accounts, a).balance
                   /\ GetAccount(accounts', a).nonce
                        = GetAccount(accounts, a).nonce
<1>1. PICK slot \in todo : accounts' = SetStorage(accounts, Target, slot)
  BY DEF SetNextStorage
<1>2. slot \in Slots
  BY DEF ControlInv, ControlOK
<1>3. Target \in Address
  BY TargetTyped DEF SetNextStorage
<1>4. Typed(accounts) /\ Solvent(accounts)
  BY DEF AccountsInv
<1> DEFINE target == Target
<1> HIDE DEF target
<1>5. target \in Address /\ accounts' = SetStorage(accounts, target, slot)
  BY <1>1, <1>3 DEF target
<1>6. /\ Typed(accounts') /\ Solvent(accounts')
      /\ Stored(accounts') = Stored(accounts) \cup {target}
      /\ GetAccount(accounts', target).balance = GetAccount(accounts, target).balance
      /\ GetAccount(accounts', target).nonce = GetAccount(accounts, target).nonce
      /\ \A x : x # target => GetAccount(accounts', x) = GetAccount(accounts, x)
  BY <1>2, <1>4, <1>5, StorageTyped
<1> QED  BY <1>6 DEF target

LEMMA RecipientStep ==
  ASSUME ControlInv, AccountsInv, UpdateRecipient
  PROVE  /\ Typed(accounts') /\ Solvent(accounts')
         /\ Stored(accounts') = Stored(accounts) \cup {Target}
         /\ GetAccount(accounts', Target).balance
              = (IF Fresh(tx, recipient) THEN 0 ELSE recipient.balance) + tx.value
         /\ Target \in Users
              => GetAccount(accounts', Target).nonce = recipient.nonce
         /\ \A a : a # Target => GetAccount(accounts', a) = GetAccount(accounts, a)
<1>1. ipc \in {"to", "slots"} /\ ipc \in InTransaction
  BY DEF UpdateRecipient, InTransaction
<1>2. Typed(accounts) /\ Solvent(accounts)
  BY DEF AccountsInv
<1>3. /\ Target \in Address /\ recipient \in Account /\ recipient.balance >= 0
      /\ Target \in Users => tx.to # New
  BY <1>1, TargetTyped, AccountAssumption
<1>4. recipient.balance \in Int /\ recipient.nonce \in Nat /\ tx.value \in Nat
  BY <1>1, <1>2, <1>3, InWork DEF Account
<1> DEFINE target == Target
<1>5. target \in Address
  BY <1>3
<1>6. CASE Fresh(tx, recipient)
  <2> DEFINE account == CreateAccount(tx.value)
  <2>1. account \in Account /\ account.balance = tx.value /\ account.nonce = 0
    BY <1>4, CreateTyped
  <2>2. account.balance >= 0 /\ account.balance = 0 + tx.value
    BY <2>1, <1>4
  <2>3. Target \in Users => recipient.nonce = account.nonce
    BY <2>1, <1>3, <1>6 DEF Fresh
  <2>4. accounts' = SaveAccount(accounts, target, account)
    BY <1>6 DEF UpdateRecipient
  <2> DEFINE saved == SaveAccount(accounts, target, account)
  <2> HIDE DEF target, account
  <2>5. /\ Typed(saved)
        /\ Solvent(accounts) /\ account.balance >= 0 => Solvent(saved)
        /\ Stored(saved) = Stored(accounts) \cup {target}
        /\ GetAccount(saved, target) = account
        /\ \A x : x # target => GetAccount(saved, x) = GetAccount(accounts, x)
    BY <2>1, <1>2, <1>5, SaveTyped
  <2>6. accounts' = saved
    BY <2>4
  <2> HIDE DEF saved
  <2>7. /\ Typed(accounts') /\ Solvent(accounts')
        /\ Stored(accounts') = Stored(accounts) \cup {target}
        /\ GetAccount(accounts', target) = account
        /\ \A x : x # target => GetAccount(accounts', x) = GetAccount(accounts, x)
    BY <2>2, <2>5, <2>6, <1>2
  <2> QED  BY <2>2, <2>3, <2>7, <1>6 DEF target
<1>7. CASE ~Fresh(tx, recipient)
  <2> DEFINE balance == recipient.balance + tx.value
             nonce   == recipient.nonce
  <2>1. balance \in Int /\ balance >= 0 /\ nonce \in Nat
    BY <1>3, <1>4
  <2>2. accounts' = UpdateAccount(accounts, target, balance, nonce)
    BY <1>7 DEF UpdateRecipient
  <2> HIDE DEF target, balance, nonce
  <2>3. /\ Typed(accounts') /\ Solvent(accounts')
        /\ Stored(accounts') = Stored(accounts) \cup {target}
        /\ GetAccount(accounts', target).balance = balance
        /\ GetAccount(accounts', target).nonce = nonce
        /\ \A x : x # target => GetAccount(accounts', x) = GetAccount(accounts, x)
    BY <2>1, <2>2, <1>2, <1>5, UpdateTyped
  <2> QED  BY <2>3, <1>7 DEF target, balance, nonce
<1> QED  BY <1>6, <1>7

\* A step that charges nobody.
LEMMA NonceKept ==
  ASSUME NonceInv, UNCHANGED <<chain, refused, crashes>>, Charged' = Charged,
         \A u \in Users : GetAccount(accounts', u).nonce
                            = GetAccount(accounts, u).nonce
  PROVE  NonceInv'
<1>1. \A u : SentTo(u, Charged)' = SentTo(u, Charged)
  BY DEF SentTo
<1>2. \A u \in Users : Nonce(u)' = Nonce(u)
  BY DEF Nonce
<1> QED  BY <1>1, <1>2 DEF NonceInv

\* One more transaction is behind: its sender was charged once more, or it
\* was refused.
LEMMA NonceCharged ==
  ASSUME ControlInv, NonceInv, Typed(accounts), ipc = "from",
         UNCHANGED <<chain, refused, crashes>>, Charged' = Charged + 1,
         GetAccount(accounts', tx.from).nonce = sender.nonce + 1,
         \A a : a # tx.from => GetAccount(accounts', a) = GetAccount(accounts, a)
  PROVE  NonceInv'
<1>1. Charged = pos - 1 /\ pos - 1 \in Nat /\ pos \in Nat /\ Charged' = pos
      /\ Charged + 1 = pos
  BY ChargedTyped DEF ControlInv, ControlOK
<1>2. tx.from \in Users /\ sender.nonce = Nonce(tx.from) /\ sender.nonce \in Nat
  BY InWork DEF InTransaction
<1>3. crashes \in Nat /\ LargestBlock \in Nat
  BY LargestBlockFacts, BlockFacts, AccountAssumption DEF ControlInv, ControlOK
<1> DEFINE extra == crashes * LargestBlock
<1>4. extra \in Nat /\ extra' = extra
  BY <1>3, MulNat
<1> HIDE DEF extra
<1>5. ASSUME NEW u \in Users
      PROVE  /\ Nonce(u)' >= Cardinality(SentTo(u, pos) \ refused)
             /\ Nonce(u)' <= Cardinality(SentTo(u, pos)) + extra
  <2> DEFINE one  == IF tx.from = u THEN 1 ELSE 0
             old  == Cardinality(SentTo(u, Charged))
             oldR == Cardinality(SentTo(u, Charged) \ refused)
             new  == Cardinality(SentTo(u, pos))
             newR == Cardinality(SentTo(u, pos) \ refused)
  <2>1. Nonce(u) >= oldR /\ Nonce(u) <= old + extra
    BY DEF NonceInv, extra
  <2>2. Nonce(u)' = Nonce(u) + one
    <3>1. CASE u = tx.from
      BY <3>1, <1>2 DEF Nonce
    <3>2. CASE u # tx.from
      <4>1. Nonce(u)' = Nonce(u) /\ Nonce(u) \in Nat /\ one = 0
        BY <3>2, GetTyped DEF Nonce, Account
      <4> QED  BY <4>1
    <3> QED  BY <3>1, <3>2
  <2>3. new = old + one /\ newR <= oldR + one
    <3>1. one = IF chain[Charged + 1].from = u THEN 1 ELSE 0
      BY <1>1 DEF tx
    <3>2. Charged \in Nat
      BY <1>1
    <3> HIDE DEF one
    <3>3. /\ Cardinality(SentTo(u, Charged + 1)) = old + one
          /\ Cardinality(SentTo(u, Charged + 1) \ refused) <= oldR + one
      BY <3>1, <3>2, SentNext
    <3> QED  BY <3>3, <1>1
  <2>4. old \in Nat /\ oldR \in Nat /\ new \in Nat /\ newR \in Nat
    BY <1>1, SentFinite, SentLess
  <2>5. Nonce(u) \in Nat
    BY GetTyped DEF Nonce, Account
  <2> HIDE DEF old, oldR, new, newR
  <2>6. Nonce(u)' >= newR /\ Nonce(u)' <= new + extra
    BY <2>1, <2>2, <2>3, <2>4, <2>5, <1>4
  <2> QED  BY <2>6 DEF new, newR
<1>6. \A u : SentTo(u, Charged)' = SentTo(u, pos)
  BY <1>1 DEF SentTo
<1> QED  BY <1>4, <1>5, <1>6 DEF NonceInv, extra

LEMMA NonceRefused ==
  ASSUME ControlInv, NonceInv, Typed(accounts), ipc = "from",
         UNCHANGED <<chain, accounts, crashes>>, Charged' = Charged + 1,
         refused' = refused \cup {pos}
  PROVE  NonceInv'
<1>1. Charged = pos - 1 /\ pos - 1 \in Nat /\ pos \in Nat /\ Charged' = pos
      /\ Charged <= pos
  BY ChargedTyped DEF ControlInv, ControlOK
<1>3. crashes \in Nat /\ LargestBlock \in Nat
  BY LargestBlockFacts, BlockFacts, AccountAssumption DEF ControlInv, ControlOK
<1> DEFINE extra == crashes * LargestBlock
<1>4. extra \in Nat /\ extra' = extra
  BY <1>3, MulNat
<1> HIDE DEF extra
<1>5. ASSUME NEW u \in Users
      PROVE  /\ Nonce(u)' >= Cardinality(SentTo(u, pos) \ refused')
             /\ Nonce(u)' <= Cardinality(SentTo(u, pos)) + extra
  <2> DEFINE old  == Cardinality(SentTo(u, Charged))
             oldR == Cardinality(SentTo(u, Charged) \ refused)
             new  == Cardinality(SentTo(u, pos))
             newR == Cardinality(SentTo(u, pos) \ refused')
  <2>1. Nonce(u) >= oldR /\ Nonce(u) <= old + extra /\ Nonce(u)' = Nonce(u)
    BY DEF NonceInv, extra, Nonce
  <2>2. SentTo(u, pos) \ refused' \in SUBSET (SentTo(u, Charged) \ refused)
    BY <1>1 DEF SentTo
  <2>3. newR <= oldR
    BY <2>2, <1>1, SentLess, FS_Subset
  <2>4. old <= new
    <3>1. /\ SentTo(u, Charged) \in SUBSET SentTo(u, pos)
          /\ IsFiniteSet(SentTo(u, pos))
      <4>1. SentTo(u, Charged) \in SUBSET SentTo(u, pos)
        BY <1>1 DEF SentTo
      <4> QED  BY <4>1, <1>1, SentFinite
    <3> QED  BY <3>1, FS_Subset
  <2>5. old \in Nat /\ oldR \in Nat /\ new \in Nat /\ newR \in Nat
    BY <1>1, SentFinite, SentLess
  <2>6. Nonce(u) \in Nat
    BY GetTyped DEF Nonce, Account
  <2> HIDE DEF old, oldR, new, newR
  <2>7. Nonce(u)' >= newR /\ Nonce(u)' <= new + extra
    BY <2>1, <2>3, <2>4, <2>5, <2>6, <1>4
  <2> QED  BY <2>7 DEF new, newR
<1>6. \A u : SentTo(u, Charged)' = SentTo(u, pos)
  BY <1>1 DEF SentTo
<1> QED  BY <1>4, <1>5, <1>6 DEF NonceInv, extra

\* A crash: the transactions of the block in work are to be repeated.
LEMMA NonceCrash ==
  ASSUME ControlInv, NonceInv, Typed(accounts), Crash
  PROVE  NonceInv'
<1>1. /\ ipc # "start" /\ crashes' = crashes + 1 /\ ipc' = "start"
      /\ UNCHANGED <<chain, dbLastBlock, accounts, refused>>
  BY DEF Crash, durable
<1>2. MaxTx \in Nat /\ MaxBlock \in Nat \ {0} /\ PlaceInv /\ ControlOK
  BY BlockFacts, AccountAssumption DEF ControlInv
<1>3. /\ lastBlock \in 1..(MaxBlock + 1)
      /\ dbLastBlock = lastBlock \/ (dbLastBlock = 0 /\ lastBlock = 1)
      /\ lastBlock - 1 \in 0..MaxBlock
  BY <1>1, <1>2 DEF PlaceInv
<1>4. Charged' = TxsUpTo[lastBlock - 1] /\ Charged' \in 0..MaxTx
  <2>1. Charged' = IF dbLastBlock = 0 THEN 0 ELSE TxsUpTo[dbLastBlock - 1]
    BY <1>1 DEF Charged
  <2>2. TxsUpTo[lastBlock - 1] \in 0..MaxTx /\ TxsUpTo[0] = 0
    BY <1>3, BlockFacts
  <2> QED  BY <1>3, <2>1, <2>2
<1>5. LargestBlock \in 0..MaxTx /\ LargestBlock \in Nat /\ crashes \in Nat
  BY <1>2, LargestBlockFacts, AccountAssumption DEF ControlOK
<1>6. Charged' <= Charged /\ Charged - Charged' <= LargestBlock
  <2>1. CASE ipc = "fetch"
    <3>1. Charged = Charged'
      BY <2>1, <1>4 DEF Charged
    <3> QED  BY <3>1, <1>4, <1>5, <1>2
  <2>2. CASE ipc # "fetch"
    <3>1. lastBlock \in 1..MaxBlock
      BY <2>2, <1>1, <1>2 DEF PlaceInv
    <3>2. /\ TxsUpTo[lastBlock] - TxsUpTo[lastBlock - 1] <= LargestBlock
          /\ TxsUpTo[lastBlock - 1] <= TxsUpTo[lastBlock]
          /\ TxsUpTo[lastBlock] \in 0..MaxTx
      BY <3>1, LargestBlockFacts, BlockFacts
    <3>3. Charged \in TxsUpTo[lastBlock - 1]..TxsUpTo[lastBlock]
      <4>1. CASE ipc = "commit"
        BY <4>1, <1>2, <1>4, <3>2 DEF PlaceInv, Charged
      <4>2. CASE ipc \in InTransaction
        <5>1. pos \in (TxsUpTo[lastBlock - 1] + 1)..TxsUpTo[lastBlock]
          BY <4>2, <1>2 DEF PlaceInv
        <5>2. Charged = pos \/ Charged = pos - 1
          BY <4>2 DEF Charged, InTransaction
        <5> QED  BY <5>1, <5>2, <3>2, <1>4
      <4> QED  BY <4>1, <4>2, <2>2, <1>1, <1>2 DEF ControlOK
    <3> QED  BY <3>2, <3>3, <1>4, <1>5, <1>2
  <2> QED  BY <2>1, <2>2
<1> DEFINE base  == Charged'
           extra == crashes * LargestBlock
<1>7. /\ base \in Nat /\ Charged \in Nat /\ base <= Charged
      /\ Charged - base <= LargestBlock
  BY <1>4, <1>6, <1>2, ChargedTyped
<1>8. extra \in Nat /\ extra' = extra + LargestBlock
  <2>1. (crashes + 1) * LargestBlock = crashes * LargestBlock + LargestBlock
    BY <1>5
  <2>2. LargestBlock' = LargestBlock
    BY DEF LargestBlock
  <2> QED  BY <2>1, <2>2, <1>1, <1>5, MulNat
<1> HIDE DEF base, extra
<1>9. ASSUME NEW u \in Users
      PROVE  /\ Nonce(u)' >= Cardinality(SentTo(u, base) \ refused)
             /\ Nonce(u)' <= Cardinality(SentTo(u, base)) + extra'
  <2> DEFINE old  == Cardinality(SentTo(u, Charged))
             oldR == Cardinality(SentTo(u, Charged) \ refused)
             new  == Cardinality(SentTo(u, base))
             newR == Cardinality(SentTo(u, base) \ refused)
  <2>1. Nonce(u) >= oldR /\ Nonce(u) <= old + extra /\ Nonce(u)' = Nonce(u)
    BY <1>1 DEF NonceInv, extra, Nonce
  <2>2. old <= new + (Charged - base) /\ newR <= oldR
    BY <1>7, SentMore
  <2>3. old \in Nat /\ oldR \in Nat /\ new \in Nat /\ newR \in Nat
    BY <1>7, SentFinite, SentLess
  <2>4. Nonce(u) \in Nat
    BY GetTyped DEF Nonce, Account
  <2> HIDE DEF old, oldR, new, newR
  <2>5. Nonce(u)' >= newR /\ Nonce(u)' <= new + (extra + LargestBlock)
    BY <2>1, <2>2, <2>3, <2>4, <1>5, <1>7, <1>8
  <2> QED  BY <2>5, <1>8 DEF new, newR
<1>10. \A u : SentTo(u, Charged)' = SentTo(u, base)
  BY <1>1 DEF SentTo, base
<1> QED  BY <1>1, <1>9, <1>10 DEF NonceInv, extra

LEMMA GenesisStep ==
  ASSUME Typed(accounts), Solvent(accounts), LoadGenesis
  PROVE  /\ Typed(accounts') /\ Solvent(accounts')
         /\ Stored(accounts') = Stored(accounts) \cup DOMAIN Genesis
         /\ \A a \in DOMAIN Genesis :
              /\ GetAccount(accounts', a) = CreateAccount(Genesis[a])
              /\ GetAccount(accounts', a).nonce = 0
         /\ \A a : a \notin DOMAIN Genesis =>
              GetAccount(accounts', a) = GetAccount(accounts, a)
<1>1. /\ DOMAIN Genesis \subseteq Address
      /\ \A a \in DOMAIN Genesis : Genesis[a] \in Nat
  BY AccountAssumption DEF Address
<1>2. \A a \in DOMAIN Genesis :
        /\ CreateAccount(Genesis[a]) \in Account
        /\ CreateAccount(Genesis[a]).balance >= 0
        /\ CreateAccount(Genesis[a]).nonce = 0
  BY <1>1, CreateTyped
<1>3. accounts' = [a \in DOMAIN accounts \cup DOMAIN Genesis |->
                     IF a \in DOMAIN Genesis THEN CreateAccount(Genesis[a])
                                             ELSE accounts[a]]
  BY DEF LoadGenesis
<1>4. /\ DOMAIN accounts' = DOMAIN accounts \cup DOMAIN Genesis
      /\ \A a \in DOMAIN Genesis : accounts'[a] = CreateAccount(Genesis[a])
      /\ \A a \in DOMAIN accounts :
           a \notin DOMAIN Genesis => accounts'[a] = accounts[a]
  BY <1>3
<1>5. Typed(accounts') /\ Solvent(accounts')
  BY <1>1, <1>2, <1>4 DEF Typed, Solvent
<1> QED  BY <1>2, <1>4, <1>5 DEF Stored, GetAccount

(***************************************************************************)
(* AccountsInv is inductive, with ControlInv.                              *)
(***************************************************************************)
LEMMA AccountsStep == ControlInv /\ AccountsInv /\ [Next]_vars => AccountsInv'
<1> SUFFICES ASSUME ControlInv, AccountsInv, [Next]_vars
             PROVE  AccountsInv'
  OBVIOUS
<1>a. Typed(accounts) /\ Solvent(accounts) /\ NonceInv /\ PaidInv
  BY DEF AccountsInv
<1>b. MaxTx \in Nat /\ MaxBlock \in Nat \ {0} /\ ControlOK /\ PlaceInv
  BY BlockFacts, AccountAssumption DEF ControlInv
<1>c. Charged \in Nat
  BY ChargedTyped
\* Steps that leave the accounts alone.
<1>k. ASSUME UNCHANGED <<chain, accounts, refused, crashes>>, Charged' = Charged,
             PaidInv'
      PROVE  AccountsInv'
  <2>1. \A u \in Users : GetAccount(accounts', u).nonce
                           = GetAccount(accounts, u).nonce
    BY <1>k
  <2>2. NonceInv'
    BY <2>1, <1>k, <1>a, NonceKept
  <2> QED  BY <2>2, <1>k, <1>a DEF AccountsInv, Typed, Solvent
<1>1. CASE LoadGenesis
  <2>1. /\ ipc = "start" /\ dbLastBlock = 0 /\ ipc' = "fetch" /\ lastBlock' = 1
        /\ UNCHANGED <<chain, refused, crashes>>
    BY <1>1 DEF LoadGenesis, history
  <2>2. Charged = 0 /\ Charged' = 0
    BY <2>1, BlockFacts DEF Charged
  <2>3. ASSUME NEW u \in Users
        PROVE  /\ Nonce(u)' >= Cardinality(SentTo(u, Charged)' \ refused')
               /\ Nonce(u)' <= Cardinality(SentTo(u, Charged)')
                                 + crashes' * LargestBlock'
    <3>1. SentTo(u, Charged)' = {} /\ SentTo(u, Charged) = {}
      BY <2>2 DEF SentTo
    <3>2. Cardinality({}) = 0 /\ {} \ refused' = {} /\ {} \ refused = {}
      BY FS_EmptySet
    <3>3. crashes * LargestBlock \in Nat /\ crashes' * LargestBlock' = crashes * LargestBlock
      <4>1. crashes \in Nat /\ LargestBlock \in Nat
        BY <1>b, LargestBlockFacts, AccountAssumption DEF ControlOK
      <4> QED  BY <4>1, <2>1, MulNat DEF LargestBlock
    <3>4. Nonce(u) >= 0 /\ Nonce(u) <= 0 + crashes * LargestBlock
      BY <3>1, <3>2, <1>a DEF NonceInv
    <3>5. Nonce(u)' = 0 \/ Nonce(u)' = Nonce(u)
      BY <1>1, <1>a, GenesisStep DEF Nonce
    <3>6. Nonce(u)' >= 0 /\ Nonce(u)' <= 0 + crashes * LargestBlock
      BY <3>3, <3>4, <3>5
    <3> QED  BY <3>1, <3>2, <3>3, <3>6
  <2>4. NonceInv'
    BY <2>3 DEF NonceInv
  <2>5. PaidInv'
    BY <2>1 DEF PaidInv
  <2> QED  BY <1>1, <1>a, <2>4, <2>5, GenesisStep DEF AccountsInv
<1>2. CASE Resume
  <2>1. /\ ipc = "start" /\ dbLastBlock # 0
        /\ ipc' = "fetch" /\ lastBlock' = dbLastBlock
        /\ UNCHANGED <<chain, accounts, refused, crashes>>
    BY <1>2 DEF Resume, durable, history
  <2> QED  BY <2>1, <1>k DEF Charged, PaidInv
<1>3. CASE FetchBlock
  <2>1. /\ ipc = "fetch" /\ ipc' \in {"commit", "from"}
        /\ lastBlock <= MaxBlock /\ pos' = TxsUpTo[lastBlock - 1] + 1
        /\ UNCHANGED <<chain, accounts, refused, crashes>>
    BY <1>3 DEF FetchBlock, AtTransaction, durable, history
  <2>2. Charged = TxsUpTo[lastBlock - 1] /\ Charged' = pos' - 1
    BY <2>1 DEF Charged
  <2>3. pos' = Charged + 1 /\ Charged' = Charged
    BY <2>1, <2>2, <1>c
  <2> QED  BY <2>1, <2>3, <1>k DEF PaidInv
<1>4. CASE CommitBlock
  <2>1. /\ ipc = "commit" /\ ipc' = "fetch" /\ lastBlock' = lastBlock + 1
        /\ UNCHANGED <<chain, accounts, refused, crashes>>
    BY <1>4 DEF CommitBlock, history
  <2>2. lastBlock \in 1..MaxBlock /\ pos = TxsUpTo[lastBlock] + 1
    BY <2>1, <1>b DEF PlaceInv
  <2>3. lastBlock' - 1 = lastBlock /\ pos - 1 = TxsUpTo[lastBlock]
    <3>1. TxsUpTo[lastBlock] \in 0..MaxTx
      BY <2>2, <1>b, BlockFacts
    <3> QED  BY <2>1, <2>2, <3>1, <1>b
  <2>4. Charged' = Charged
    BY <2>1, <2>3 DEF Charged
  <2> QED  BY <2>1, <2>4, <1>k DEF PaidInv
<1>5. CASE UpdateSender
  <2>1. /\ ipc = "from" /\ ipc' = "to"
        /\ UNCHANGED <<chain, pos, refused, crashes>>
    BY <1>5 DEF UpdateSender
  <2>2. PICK used \in {0, tx.used} :
          /\ Accepts(used)
          /\ accounts' = UpdateAccount(accounts, tx.from,
               sender.balance - TotalCost(tx, used) + Refund(tx, used),
               sender.nonce + 1)
    BY <1>5 DEF UpdateSender
  <2>3. /\ Typed(accounts') /\ Solvent(accounts')
        /\ GetAccount(accounts', tx.from).nonce = sender.nonce + 1
        /\ \A a : a # tx.from => GetAccount(accounts', a) = GetAccount(accounts, a)
    BY <2>1, <2>2, <1>a, SenderStep
  <2>4. Charged' = Charged + 1
    <3>1. Charged = pos - 1 /\ pos \in Nat
      BY <2>1, <1>b, ChargedTyped DEF ControlOK
    <3>2. Charged' = pos
      BY <2>1 DEF Charged
    <3> QED  BY <3>1, <3>2
  <2>5. NonceInv'
    BY <2>1, <2>3, <2>4, <1>a, NonceCharged
  <2>6. PaidInv'
    <3>1. sender' = GetAccount(accounts', tx.from)
      BY <2>1 DEF sender, tx
    <3>2. sender.nonce \in Nat
      BY <2>1, <1>a, InWork DEF InTransaction
    <3>3. sender'.nonce >= 1
      BY <3>1, <3>2, <2>3
    <3> QED  BY <3>3 DEF PaidInv
  <2> QED  BY <2>3, <2>5, <2>6 DEF AccountsInv
<1>6. CASE RejectTransaction
  <2>1. /\ ipc = "from" /\ NextTransaction /\ refused' = refused \cup {pos}
        /\ UNCHANGED <<accounts, crashes>>
    BY <1>6 DEF RejectTransaction
  <2>2. /\ UNCHANGED chain /\ pos' = pos + 1 /\ ipc' \in {"commit", "from"}
    BY <2>1, NextPlace DEF InTransaction
  <2>3. Charged' = Charged + 1
    <3>1. Charged = pos - 1 /\ pos \in Nat
      BY <2>1, <1>b, ChargedTyped DEF ControlOK
    <3>2. Charged' = pos' - 1
      BY <2>2 DEF Charged
    <3> QED  BY <2>2, <3>1, <3>2
  <2>4. NonceInv'
    BY <2>1, <2>2, <2>3, <1>a, NonceRefused
  <2>5. PaidInv'
    BY <2>2 DEF PaidInv
  <2> QED  BY <2>1, <2>4, <2>5, <1>a DEF AccountsInv, Typed, Solvent
<1>7. CASE FetchContractState
  <2>1. /\ ipc = "to" /\ ipc' = "slots"
        /\ UNCHANGED <<chain, accounts, pos, refused, crashes>>
    BY <1>7 DEF FetchContractState, durable, history
  <2>2. Charged' = Charged /\ sender' = sender
    BY <2>1 DEF Charged, sender, tx
  <2> QED  BY <2>1, <2>2, <1>a, <1>k DEF PaidInv
<1>8. CASE SetNextStorage
  <2>1. /\ ipc = "slots" /\ UNCHANGED <<chain, ipc, pos, refused, crashes>>
    BY <1>8 DEF SetNextStorage, history
  <2>2. /\ Typed(accounts') /\ Solvent(accounts')
        /\ \A a : GetAccount(accounts', a).nonce = GetAccount(accounts, a).nonce
    BY <1>8, StorageStep
  <2>3. Charged' = Charged /\ sender'.nonce = sender.nonce
    BY <2>1, <2>2 DEF Charged, sender, tx
  <2>4. NonceInv'
    BY <2>1, <2>2, <2>3, <1>a, NonceKept
  <2>5. PaidInv'
    BY <2>1, <2>3, <1>a DEF PaidInv
  <2> QED  BY <2>2, <2>4, <2>5 DEF AccountsInv
<1>9. CASE UpdateRecipient
  <2>1. /\ ipc \in {"to", "slots"} /\ NextTransaction
        /\ UNCHANGED <<refused, crashes>>
    BY <1>9 DEF UpdateRecipient, history
  <2>2. UNCHANGED chain /\ pos' = pos + 1 /\ ipc' \in {"commit", "from"}
    BY <2>1, NextPlace DEF InTransaction
  <2>3. Charged' = Charged
    <3>1. Charged = pos /\ pos \in Nat
      BY <2>1, <1>b, ChargedTyped DEF ControlOK
    <3>2. Charged' = pos' - 1
      BY <2>2 DEF Charged
    <3> QED  BY <2>2, <3>1, <3>2
  <2>4. Typed(accounts') /\ Solvent(accounts')
    BY <1>9, RecipientStep
  <2>5. ASSUME NEW u \in Users
        PROVE  GetAccount(accounts', u).nonce = GetAccount(accounts, u).nonce
    <3>1. CASE u = Target
      BY <3>1, <1>9, RecipientStep DEF recipient
    <3>2. CASE u # Target
      <4>1. GetAccount(accounts', u) = GetAccount(accounts, u)
        BY <3>2, <1>9, RecipientStep
      <4> QED  BY <4>1
    <3> QED  BY <3>1, <3>2
  <2>6. NonceInv'
    BY <2>1, <2>2, <2>3, <2>5, <1>a, NonceKept
  <2>7. PaidInv'
    BY <2>2 DEF PaidInv
  <2> QED  BY <2>4, <2>6, <2>7 DEF AccountsInv
<1>10. CASE Crash
  <2>1. ipc' = "start" /\ UNCHANGED accounts
    BY <1>10 DEF Crash, durable
  <2>2. NonceInv'
    BY <1>10, <1>a, NonceCrash
  <2> QED  BY <2>1, <2>2, <1>a DEF AccountsInv, PaidInv, Typed, Solvent
<1>11. CASE AwaitBlock \/ UNCHANGED vars
  <2>1. UNCHANGED <<chain, dbLastBlock, accounts, ipc, lastBlock, pos, refused,
                    crashes>>
    BY <1>11 DEF AwaitBlock, vars, durable, indexer, history
  <2>2. Charged' = Charged /\ sender' = sender
    BY <2>1 DEF Charged, sender, tx
  <2>3. PaidInv'
    BY <2>1, <2>2, <1>a DEF PaidInv
  <2> QED  BY <2>1, <2>2, <2>3, <1>k
<1> QED
  BY <1>1, <1>2, <1>3, <1>4, <1>5, <1>6, <1>7, <1>8, <1>9, <1>10, <1>11
  DEF Next, Indexer

LEMMA AccountsCorrect == Spec => []AccountsInv
<1>1. Init => AccountsInv
  <2> SUFFICES ASSUME Init PROVE AccountsInv
    OBVIOUS
  <2>1. DOMAIN accounts = {}
    BY DEF Init
  <2>2. Typed(accounts) /\ Solvent(accounts)
    BY <2>1 DEF Typed, Solvent
  <2>3. Charged = 0
    BY DEF Init, Charged
  <2>4. ASSUME NEW u \in Users
        PROVE  /\ Nonce(u) >= Cardinality(SentTo(u, Charged) \ refused)
               /\ Nonce(u) <= Cardinality(SentTo(u, Charged)) + crashes * LargestBlock
    <3>1. SentTo(u, Charged) = {} /\ {} \ refused = {} /\ Cardinality({}) = 0
      BY <2>3, FS_EmptySet DEF SentTo
    <3>2. Nonce(u) = 0
      BY <2>1, <2>2, GetTyped DEF Nonce, Stored
    <3>3. crashes = 0 /\ LargestBlock \in Nat
      BY LargestBlockFacts, BlockFacts DEF Init
    <3> QED  BY <3>1, <3>2, <3>3
  <2> QED  BY <2>2, <2>4 DEF Init, AccountsInv, NonceInv, PaidInv
<1> QED  BY <1>1, AccountsStep, ControlCorrect, PTL DEF Spec

(***************************************************************************)
(* Every variable keeps its type, no balance becomes negative, and the     *)
(* indexer never reads a transaction outside its block.                    *)
(***************************************************************************)
THEOREM TypeCorrect == Spec => []TypeOK
<1>1. ControlInv /\ AccountsInv => TypeOK
  <2> SUFFICES ASSUME ControlInv, AccountsInv PROVE TypeOK
    OBVIOUS
  <2>1. chain \in Seq(Kinds) /\ Len(chain) = MaxTx
    BY ChainTyped DEF ControlInv
  <2>2. DOMAIN accounts \subseteq Address
        /\ \A a \in DOMAIN accounts :
             accounts[a] \in Account /\ accounts[a].balance >= 0
    BY DEF AccountsInv, Typed, Solvent
  <2>3. ipc \in InTransaction => pos \in 1..MaxTx
    BY InBlock
  <2> QED  BY <2>1, <2>2, <2>3 DEF ControlInv, ControlOK, TypeOK
<1> QED  BY <1>1, ControlCorrect, AccountsCorrect, PTL

(***************************************************************************)
(* Whatever crashes and whatever answers fail, the copy loses no           *)
(* transaction's nonce, and repeats at most one block of them per crash.   *)
(***************************************************************************)
THEOREM NonceBoundsCorrect == Spec => []NonceBounds
<1>1. ControlInv /\ AccountsInv => NonceBounds
  <2> SUFFICES ASSUME ControlInv, AccountsInv, Between, NEW u \in Users
               PROVE  /\ Nonce(u) >= Cardinality(SentBy(u) \ refused)
                      /\ Nonce(u) <= Cardinality(SentBy(u)) + crashes * LargestBlock
    BY DEF NonceBounds, Nonce
  <2>1. Done = Charged
    BY DEF Between, Done, Charged
  <2>2. SentBy(u) = SentTo(u, Charged)
    BY <2>1 DEF SentBy, SentTo
  <2> QED  BY <2>2 DEF AccountsInv, NonceInv
<1> QED  BY <1>1, ControlCorrect, AccountsCorrect, PTL

----------------------------------------------------------------------------
(***************************************************************************)
(* Geth's ledger along the chain.                                          *)
(***************************************************************************)
LEMMA PriceTyped ==
  ASSUME NEW t \in Kinds
  PROVE  /\ t \in Transaction /\ t.used <= t.gas
         /\ EffectivePrice(t) \in Nat /\ GasPrice(t) \in Nat
         /\ t.used * EffectivePrice(t) \in Nat /\ t.used * GasPrice(t) \in Nat
<1>1. /\ t \in Transaction /\ t.used <= t.gas /\ BaseFee \in Nat
      /\ t.price \in Nat /\ t.tip \in Nat /\ t.used \in Nat
  BY AccountAssumption DEF Transaction
<1>2. EffectivePrice(t) \in Nat
  <2> DEFINE S == {t.price, BaseFee + t.tip}
  <2>1. PICK x \in S : \A y \in S : x <= y
    BY <1>1
  <2>2. Min(S) \in S
    BY <2>1 DEF Min
  <2>3. Min(S) \in Nat
    BY <2>2, <1>1
  <2> QED  BY <2>3, <1>1 DEF EffectivePrice
<1>3. GasPrice(t) \in Nat
  BY <1>1, CostTyped
<1> QED  BY <1>1, <1>2, <1>3, MulNat

\* What a transaction moves from its sender to its target.
Moved(t) == IF t.reverts THEN 0 ELSE t.value - t.inner

LEMMA GethStep ==
  ASSUME NEW db, Typed(db), NEW t \in Kinds, NEW target \in Address,
         target = GethTarget(db, t), t.to = New => target \in Contracts,
         NEW new, new = GethApply(db, t)
  PROVE  /\ Typed(new)
         /\ Stored(new) \subseteq Stored(db) \cup {t.from, target}
         /\ GetAccount(new, t.from).nonce = GetAccount(db, t.from).nonce + 1
         /\ \A u \in Users : u # t.from =>
              GetAccount(new, u).nonce = GetAccount(db, u).nonce
         /\ \A a : GetAccount(new, a).balance
              = GetAccount(db, a).balance
                  - (IF a = t.from THEN Moved(t) + t.used * EffectivePrice(t)
                                   ELSE 0)
                  + (IF a = target THEN Moved(t) ELSE 0)
<1> DEFINE payer   == GetAccount(db, t.from)
           balance == payer.balance - Moved(t) - t.used * EffectivePrice(t)
           nonce   == payer.nonce + 1
           paid    == UpdateAccount(db, t.from, balance, nonce)
           account == GetAccount(paid, target)
           changed == [account EXCEPT !.balance = @ + Moved(t),
                                      !.nonce = IF t.to = New THEN 1 ELSE @,
                                      !.code  = @ \/ t.to = New]
<1>1. /\ t.from \in Users /\ t.from \in Address /\ Moved(t) \in Int
      /\ t.used * EffectivePrice(t) \in Int
  BY PriceTyped DEF Transaction, Address, Moved
<1>2. payer \in Account /\ payer.balance \in Int /\ payer.nonce \in Nat
  BY GetTyped DEF Account
<1>3. balance \in Int /\ nonce \in Nat
  BY <1>1, <1>2
<1>4. new = IF t.reverts THEN paid ELSE SaveAccount(paid, target, changed)
  BY DEF GethApply, Moved
<1>5. /\ Typed(paid)
      /\ Stored(paid) = Stored(db) \cup {t.from}
      /\ GetAccount(paid, t.from).balance = balance
      /\ GetAccount(paid, t.from).nonce = nonce
      /\ \A x : x # t.from => GetAccount(paid, x) = GetAccount(db, x)
  <2> DEFINE from == t.from
  <2>1. from \in Address /\ paid = UpdateAccount(db, from, balance, nonce)
    BY <1>1
  <2> HIDE DEF from, paid, balance, nonce
  <2>2. /\ Typed(paid)
        /\ Stored(paid) = Stored(db) \cup {from}
        /\ GetAccount(paid, from).balance = balance
        /\ GetAccount(paid, from).nonce = nonce
        /\ \A x : x # from => GetAccount(paid, x) = GetAccount(db, x)
    BY <2>1, <1>3, UpdateTyped
  <2> QED  BY <2>2 DEF from
<1>6. \A a : GetAccount(paid, a).balance
               = GetAccount(db, a).balance
                   - (IF a = t.from THEN Moved(t) + t.used * EffectivePrice(t)
                                    ELSE 0)
  <2> SUFFICES ASSUME NEW a
               PROVE  GetAccount(paid, a).balance
                        = GetAccount(db, a).balance
                            - (IF a = t.from
                               THEN Moved(t) + t.used * EffectivePrice(t) ELSE 0)
    OBVIOUS
  <2>1. CASE a = t.from
    <3>1. balance = payer.balance - (Moved(t) + t.used * EffectivePrice(t))
      BY <1>1, <1>2
    <3> QED  BY <3>1, <1>5, <2>1
  <2>2. CASE a # t.from
    <3>1. GetAccount(paid, a) = GetAccount(db, a)
      BY <1>5, <2>2
    <3>2. GetAccount(db, a).balance \in Int
      BY GetTyped DEF Account
    <3> QED  BY <3>1, <3>2, <2>2
  <2> QED  BY <2>1, <2>2
<1> HIDE DEF paid, balance, nonce
<1>7. account \in Account /\ account.balance \in Int /\ account.nonce \in Nat
  BY <1>5, GetTyped DEF Account
<1>8. /\ changed \in Account /\ changed.balance = account.balance + Moved(t)
      /\ t.to # New => changed.nonce = account.nonce
  <2> DEFINE code == account.code \/ t.to = New
             n    == IF t.to = New THEN 1 ELSE account.nonce
             b    == account.balance + Moved(t)
  <2>1. code \in BOOLEAN
    OBVIOUS
  <2>2. n \in Nat /\ b \in Int
    BY <1>1, <1>7
  <2>3. changed = [account EXCEPT !.balance = b, !.nonce = n, !.code = code]
    OBVIOUS
  <2> HIDE DEF account, changed, code, n, b
  <2>4. changed \in Account /\ changed.balance = b /\ changed.nonce = n
    BY <2>1, <2>2, <2>3, <1>7 DEF Account
  <2> QED  BY <2>4 DEF b, n
<1>9. target \in Users => t.to # New
  BY AccountAssumption
<1>10. CASE t.reverts
  <2>1. Moved(t) = 0 /\ new = paid
    BY <1>4, <1>10 DEF Moved
  <2>2. \A a : GetAccount(db, a).balance \in Int
    BY GetTyped DEF Account
  <2> QED  BY <2>1, <2>2, <1>1, <1>5, <1>6 DEF nonce
<1>11. CASE ~t.reverts
  <2> DEFINE saved == SaveAccount(paid, target, changed)
  <2> HIDE DEF account, changed
  <2>1. /\ Typed(saved)
        /\ Stored(saved) = Stored(paid) \cup {target}
        /\ GetAccount(saved, target) = changed
        /\ \A x : x # target => GetAccount(saved, x) = GetAccount(paid, x)
    BY <1>5, <1>8, SaveTyped
  <2>2. new = saved
    BY <1>4, <1>11
  <2> HIDE DEF saved
  <2>3. \A u \in Users : GetAccount(new, u).nonce = GetAccount(paid, u).nonce
    BY <2>1, <2>2, <1>8, <1>9 DEF account
  <2>4. \A a : GetAccount(new, a).balance
                 = GetAccount(paid, a).balance + (IF a = target THEN Moved(t) ELSE 0)
    <3> SUFFICES ASSUME NEW a
                 PROVE  GetAccount(new, a).balance = GetAccount(paid, a).balance
                          + (IF a = target THEN Moved(t) ELSE 0)
      OBVIOUS
    <3>1. CASE a = target
      BY <3>1, <2>1, <2>2, <1>8 DEF account
    <3>2. CASE a # target
      <4>1. GetAccount(paid, a).balance \in Int
        BY <1>5, GetTyped DEF Account
      <4>2. GetAccount(new, a) = GetAccount(paid, a)
        BY <3>2, <2>1, <2>2
      <4> QED  BY <4>1, <4>2, <3>2
    <3> QED  BY <3>1, <3>2
  <2> QED  BY <2>1, <2>2, <2>3, <2>4, <1>1, <1>5, <1>6 DEF nonce
<1> QED  BY <1>10, <1>11

(***************************************************************************)
(* The ledger after n transactions: nobody has sent more than n, and the   *)
(* contracts held were created at nonces their creators have passed.       *)
(***************************************************************************)
LedgerOK(n) ==
  /\ Typed(Ledger(n))
  /\ \A u \in Users : GetAccount(Ledger(n), u).nonce <= n
  /\ Stored(Ledger(n)) \cap Contracts \subseteq GethContracts(n)
  /\ \A i \in 1..n : chain[i].to = New =>
       /\ Paid(i) \in Contracts
       /\ Paid(i).creator = chain[i].from
       /\ Paid(i).nonce < GetAccount(Ledger(n), chain[i].from).nonce

LEMMA LedgerOf ==
  ASSUME chain \in Chains
  PROVE  /\ Ledger(0) = GenesisLedger
         /\ \A n \in 1..MaxTx :
              /\ Ledger(n) = GethApply(Ledger(n - 1), chain[n])
              /\ Valid(Ledger(n - 1), chain[n])
              /\ chain[n] \in Kinds
<1>1. Len(chain) = MaxTx /\ MaxTx \in Nat
  BY ChainTyped, BlockFacts
<1>2. \A n \in 1..MaxTx : Valid(Ledger(n - 1), chain[n])
  BY DEF Chains, Ledger
<1> QED  BY <1>1, <1>2, LedgerStep, ChainTyped DEF Ledger

\* The account paid by a transaction is one of the addresses there are.
LEMMA PaidTyped ==
  ASSUME chain \in Chains, NEW n \in 1..MaxTx, LedgerOK(n - 1)
  PROVE  /\ Paid(n) \in Address
         /\ chain[n].to = New =>
              /\ Paid(n) \in Contracts
              /\ Paid(n).creator = chain[n].from
              /\ Paid(n).nonce = GetAccount(Ledger(n - 1), chain[n].from).nonce
         /\ chain[n].to # New => Paid(n) = chain[n].to
         /\ Paid(n) \in Contracts /\ chain[n].to # New
              => Paid(n) \in GethContracts(n - 1)
<1> DEFINE t == chain[n]
           k == GetAccount(Ledger(n - 1), t.from).nonce
<1>1. t \in Kinds /\ t \in Transaction /\ Valid(Ledger(n - 1), t)
  BY LedgerOf, AccountAssumption
<1>2. t.from \in Users /\ t.to \in Address \cup {New}
  BY <1>1 DEF Transaction
<1>3. k \in Nat /\ k <= n - 1
  BY <1>2, GetTyped DEF LedgerOK, Account
<1>4. MaxTx \in Nat /\ MaxCrashes \in Nat /\ (MaxCrashes + 1) * MaxTx >= MaxTx
  <2>1. MaxTx \in Nat /\ MaxCrashes \in Nat
    BY BlockFacts, AccountAssumption
  <2>2. (MaxCrashes + 1) * MaxTx = MaxCrashes * MaxTx + MaxTx
    BY <2>1
  <2> QED  BY <2>1, <2>2, MulNat
<1>5. k \in 0..(MaxCrashes + 1) * MaxTx
  BY <1>3, <1>4
<1>6. ContractAddress(t.from, k) \in Contracts
  BY <1>2, <1>5 DEF Contracts
<1>7. /\ ContractAddress(t.from, k).creator = t.from
      /\ ContractAddress(t.from, k).nonce = k
  BY DEF ContractAddress
<1>8. CASE t.to = New
  BY <1>6, <1>7, <1>8 DEF Paid, GethTarget, Address
<1>9. CASE t.to # New
  <2>1. Paid(n) = t.to
    BY <1>9 DEF Paid, GethTarget
  <2>2. t.to \in Contracts => GetAccount(Ledger(n - 1), t.to).code
    BY <1>1 DEF Valid
  <2>3. t.to \in Contracts => t.to \in Stored(Ledger(n - 1))
    BY <2>2, GetTyped DEF LedgerOK
  <2> QED  BY <2>1, <2>3, <1>2, <1>9 DEF LedgerOK
<1> QED  BY <1>8, <1>9

LEMMA LedgerCorrect ==
  ASSUME chain \in Chains
  PROVE  \A n \in 0..MaxTx : LedgerOK(n)
<1> DEFINE S == {n \in Nat : n <= MaxTx => LedgerOK(n)}
<1>a. MaxTx \in Nat
  BY BlockFacts
<1>1. 0 \in S
  <2>1. Ledger(0) = GenesisLedger
    BY LedgerOf
  <2>2. /\ DOMAIN GenesisLedger = DOMAIN Genesis
        /\ \A u \in DOMAIN Genesis :
             GenesisLedger[u] \in Account /\ GenesisLedger[u].nonce = 0
    BY AccountAssumption, CreateTyped DEF GenesisLedger
  <2>3. DOMAIN Genesis \subseteq Users /\ Users \cap Contracts = {}
    BY AccountAssumption
  <2>4. Typed(GenesisLedger) /\ Stored(GenesisLedger) \cap Contracts = {}
    BY <2>2, <2>3 DEF Typed, Stored, Address
  <2>5. \A u \in Users : GetAccount(GenesisLedger, u).nonce = 0
    BY <2>2, CreateTyped DEF GetAccount, EmptyAccount
  <2> QED  BY <2>1, <2>4, <2>5 DEF LedgerOK
<1>2. ASSUME NEW m \in Nat, m \in S
      PROVE  m + 1 \in S
  <2> SUFFICES ASSUME m + 1 <= MaxTx PROVE LedgerOK(m + 1)
    OBVIOUS
  <2> DEFINE n == m + 1
             t == chain[n]
             old == Ledger(m)
             new == Ledger(n)
  <2>1. n \in 1..MaxTx /\ n - 1 = m /\ LedgerOK(m)
    BY <1>2, <1>a
  <2>2. t \in Kinds /\ t.from \in Users
    BY <2>1, LedgerOf, PriceTyped DEF Transaction
  <2>3. Typed(old) /\ new = GethApply(old, t) /\ Paid(n) = GethTarget(old, t)
    BY <2>1, LedgerOf DEF LedgerOK, Paid
  <2>4. /\ Paid(n) \in Address
        /\ t.to = New =>
             /\ Paid(n) \in Contracts /\ Paid(n).creator = t.from
             /\ Paid(n).nonce = GetAccount(old, t.from).nonce
        /\ Paid(n) \in Contracts /\ t.to # New => Paid(n) \in GethContracts(m)
    BY <2>1, PaidTyped
  <2> HIDE DEF n, t, old, new
  <2>5. /\ Typed(new)
        /\ Stored(new) \subseteq Stored(old) \cup {t.from, Paid(n)}
        /\ GetAccount(new, t.from).nonce = GetAccount(old, t.from).nonce + 1
        /\ \A u \in Users : u # t.from =>
             GetAccount(new, u).nonce = GetAccount(old, u).nonce
    BY <2>2, <2>3, <2>4, GethStep
  <2>6. \A u \in Users : GetAccount(old, u).nonce \in Nat
    BY <2>3, GetTyped DEF Account
  <2>7. \A u \in Users : /\ GetAccount(new, u).nonce <= n
                         /\ GetAccount(new, u).nonce >= GetAccount(old, u).nonce
    <3> SUFFICES ASSUME NEW u \in Users
                 PROVE  /\ GetAccount(new, u).nonce <= n
                        /\ GetAccount(new, u).nonce >= GetAccount(old, u).nonce
      OBVIOUS
    <3>1. GetAccount(old, u).nonce <= m
      BY <2>1 DEF LedgerOK, old
    <3>2. GetAccount(new, u).nonce \in
            {GetAccount(old, u).nonce, GetAccount(old, u).nonce + 1}
      BY <2>5
    <3> QED  BY <3>1, <3>2, <2>6 DEF n
  <2>8. GethContracts(m) \subseteq GethContracts(n)
        /\ (t.to = New => Paid(n) \in GethContracts(n))
    BY DEF GethContracts, n, t
  <2>9. Stored(new) \cap Contracts \subseteq GethContracts(n)
    <3>1. Stored(old) \cap Contracts \subseteq GethContracts(m)
      BY <2>1 DEF LedgerOK, old
    <3>2. t.from \notin Contracts
      BY <2>2, AccountAssumption
    <3> QED  BY <3>1, <3>2, <2>4, <2>5, <2>8
  <2>10. ASSUME NEW i \in 1..n, chain[i].to = New
         PROVE  /\ Paid(i) \in Contracts
                /\ Paid(i).creator = chain[i].from
                /\ Paid(i).nonce < GetAccount(new, chain[i].from).nonce
    <3>1. CASE i = n
      <4>1. chain[i] = t
        BY <3>1 DEF t
      <4>2. GetAccount(old, t.from).nonce < GetAccount(new, t.from).nonce
        BY <2>2, <2>5, <2>6
      <4> QED  BY <2>4, <2>10, <3>1, <4>1, <4>2
    <3>2. CASE i # n
      <4>1. i \in 1..m
        BY <3>2 DEF n
      <4>2. /\ Paid(i) \in Contracts
            /\ Paid(i).creator = chain[i].from
            /\ Paid(i).nonce < GetAccount(old, chain[i].from).nonce
        BY <4>1, <2>1, <2>10 DEF LedgerOK, old
      <4>3. Paid(i).nonce \in Nat
        BY <4>2 DEF Contracts, ContractAddress
      <4>4. chain[i].from \in Users
        BY <4>2 DEF Contracts, ContractAddress
      <4>5. /\ GetAccount(old, chain[i].from).nonce \in Nat
            /\ GetAccount(new, chain[i].from).nonce
                 >= GetAccount(old, chain[i].from).nonce
            /\ GetAccount(new, chain[i].from).nonce \in Nat
        BY <4>4, <2>5, <2>6, <2>7, GetTyped DEF Account
      <4> QED  BY <4>2, <4>3, <4>5
    <3> QED  BY <3>1, <3>2
  <2>11. LedgerOK(n)
    BY <2>5, <2>7, <2>9, <2>10 DEF LedgerOK, new
  <2> QED  BY <2>11 DEF n
<1> HIDE DEF S
<1>3. \A n \in Nat : n \in S
  BY <1>1, <1>2, SetInduction
<1> QED  BY <1>3, <1>a DEF S

----------------------------------------------------------------------------
(***************************************************************************)
(* The copy follows Geth's ledger as long as nothing goes wrong: after n   *)
(* transactions; and in the middle of the one after, whose sender has paid *)
(* and whose target has not been paid.  A new contract's account is worth  *)
(* nothing before it is created, so that creating it destroys no balance.  *)
(***************************************************************************)
Follows(n) ==
  /\ \A u \in Users : GetAccount(accounts, u).nonce
                        = GetAccount(Ledger(n), u).nonce
  /\ \A a \in Address : GetAccount(accounts, a).balance
                          = GetAccount(Ledger(n), a).balance + Drift(a)[n]
  /\ Stored(accounts) \cap Contracts = GethContracts(n)

\* What the sender in work has got on balance.
Gain == Refund(tx, Metered(pos)) - TotalCost(tx, Metered(pos))

Midway(n) ==
  /\ \A u \in Users : GetAccount(accounts, u).nonce
                        = GetAccount(Ledger(n), u).nonce
                            + (IF u = tx.from THEN 1 ELSE 0)
  /\ \A a \in Address :
       GetAccount(accounts, a).balance
         = GetAccount(Ledger(n), a).balance + Drift(a)[n]
             + (IF a = tx.from THEN Gain ELSE 0)
  /\ GethContracts(n) \subseteq Stored(accounts)
  /\ Stored(accounts) \cap Contracts \subseteq GethContracts(n) \cup {Target}
  /\ tx.to = New => recipient.balance = 0

AgreeInv ==
  /\ crashes = 0 /\ ipc = "start" => dbLastBlock = 0 /\ Stored(accounts) = {}
  /\ Undisturbed /\ Between => Follows(Done)
  /\ Undisturbed /\ ipc \in {"to", "slots"} => Midway(pos - 1)

GoodInv == ControlInv /\ AccountsInv /\ AgreeInv

LEMMA DoneTyped ==
  ASSUME ControlInv
  PROVE  /\ Between => Done \in 0..MaxTx
         /\ ipc \in InTransaction => pos \in 1..MaxTx /\ pos - 1 \in 0..MaxTx
<1>a. MaxTx \in Nat /\ MaxBlock \in Nat /\ ControlOK /\ PlaceInv
  BY BlockFacts, AccountAssumption DEF ControlInv
<1>1. CASE ipc = "fetch"
  <2>1. lastBlock - 1 \in 0..MaxBlock
    BY <1>1, <1>a DEF PlaceInv
  <2> QED  BY <2>1, <1>1, <1>a, BlockFacts DEF Done, InTransaction
<1>2. CASE ipc \in InTransaction
  <2>1. pos \in 1..MaxTx
    BY <1>2, InBlock
  <2> QED  BY <2>1, <1>2, <1>a DEF Done, InTransaction
<1>3. CASE ipc = "commit"
  <2>1. pos = TxsUpTo[lastBlock] + 1 /\ lastBlock \in 0..MaxBlock
    BY <1>3, <1>a DEF PlaceInv
  <2>2. TxsUpTo[lastBlock] \in 0..MaxTx
    BY <2>1, BlockFacts
  <2> QED  BY <2>1, <2>2, <1>3, <1>a DEF Done, InTransaction
<1> QED  BY <1>a, <1>1, <1>2, <1>3 DEF Between, InTransaction

\* Ledger and contracts do not depend on where the indexer is, and the drift
\* after n transactions on no answer to a later one.
LEMMA ChainOnly ==
  ASSUME UNCHANGED chain
  PROVE  /\ \A n : Ledger(n)' = Ledger(n) /\ Paid(n)' = Paid(n)
         /\ \A n : GethContracts(n)' = GethContracts(n)
<1>1. \A n : Ledger(n)' = Ledger(n) /\ Paid(n)' = Paid(n)
  BY DEF Ledger, Paid
<1>2. \A n : GethContracts(n)' = GethContracts(n)
  BY <1>1 DEF GethContracts
<1> QED  BY <1>1, <1>2

LEMMA DriftStable ==
  ASSUME UNCHANGED chain, NEW m \in 0..MaxTx, NEW a,
         \A i \in 1..m : i \in unmetered' <=> i \in unmetered
  PROVE  (Drift(a)')[m] = Drift(a)[m]
<1> DEFINE f == [n \in 1..MaxTx |-> Gap(a, n)]
           g == [n \in 1..MaxTx |-> Gap(a, n)']
<1>a. MaxTx \in Nat
  BY BlockFacts
<1>1. ASSUME NEW i \in 1..m
      PROVE  f[i] = g[i]
  <2>1. Metered(i)' = Metered(i)
    BY DEF Metered
  <2>2. Paid(i)' = Paid(i)
    BY ChainOnly
  <2>3. Gap(a, i)' = Gap(a, i)
    BY <2>1, <2>2 DEF Gap
  <2> QED  BY <2>3, <1>a
<1>2. Drift(a) = Sums(f) /\ Drift(a)' = Sums(g)
  BY DEF Drift
<1> HIDE DEF f, g
<1> QED  BY <1>a, <1>1, <1>2, SumsAgree

\* The gas used, or none at all.
LEMMA MeteredTyped ==
  ASSUME NEW n, chain[n] \in Kinds
  PROVE  /\ Metered(n) \in {0, chain[n].used} /\ Metered(n) \in Nat
         /\ Metered(n) <= chain[n].gas
<1>1. chain[n].used \in Nat /\ chain[n].used <= chain[n].gas /\ chain[n].gas \in Nat
  BY PriceTyped DEF Transaction
<1> QED  BY <1>1 DEF Metered

LEMMA GapTyped ==
  ASSUME NEW n, chain[n] \in Kinds
  PROVE  /\ SenderGap(chain[n], Metered(n)) \in Int
         /\ RecipientGap(chain[n]) \in Int
         /\ \A a : Gap(a, n) \in Int
<1> DEFINE t == chain[n]
           used == Metered(n)
<1>1. /\ t \in Transaction /\ t.used \in Nat /\ t.value \in Nat /\ t.inner \in Nat
      /\ t.used <= t.gas /\ used \in Nat /\ used <= t.gas
  BY PriceTyped, MeteredTyped DEF Transaction
<1>2. GasPrice(t) \in Nat /\ EffectivePrice(t) \in Nat /\ Refund(t, used) \in Nat
  BY <1>1, PriceTyped, CostTyped
<1>3. t.used * EffectivePrice(t) \in Nat /\ used * GasPrice(t) \in Nat
  BY <1>1, <1>2, MulNat
<1>4. (IF t.reverts THEN t.value ELSE t.inner) \in Int
  BY <1>1
<1> HIDE DEF t, used
<1>5. SenderGap(t, used) \in Int /\ RecipientGap(t) \in Int
  BY <1>2, <1>3, <1>4 DEF SenderGap, RecipientGap
<1> QED  BY <1>5 DEF Gap, t, used

LEMMA DriftTyped ==
  ASSUME chain \in Chains, NEW a
  PROVE  \A n \in 0..MaxTx : Drift(a)[n] \in Int
<1> DEFINE S == {n \in Nat : n <= MaxTx => Drift(a)[n] \in Int}
<1>a. MaxTx \in Nat
  BY BlockFacts
<1>1. 0 \in S
  BY <1>a, DriftStep
<1>2. ASSUME NEW m \in Nat, m \in S
      PROVE  m + 1 \in S
  <2> SUFFICES ASSUME m + 1 <= MaxTx PROVE Drift(a)[m + 1] \in Int
    OBVIOUS
  <2>1. m + 1 \in 1..MaxTx /\ Drift(a)[m] \in Int
    BY <1>2, <1>a
  <2>2. Drift(a)[m + 1] = Drift(a)[m] + Gap(a, m + 1)
    BY <2>1, <1>a, DriftStep
  <2>3. Gap(a, m + 1) \in Int
    BY <2>1, LedgerOf, GapTyped
  <2> QED  BY <2>1, <2>2, <2>3
<1> HIDE DEF S
<1>3. \A n \in Nat : n \in S
  BY <1>1, <1>2, SetInduction
<1> QED  BY <1>3, <1>a DEF S

\* The types of what the copy is compared with.
LEMMA LedgerTyped ==
  ASSUME chain \in Chains, NEW n \in 0..MaxTx
  PROVE  /\ Typed(Ledger(n)) /\ LedgerOK(n)
         /\ \A a : /\ GetAccount(Ledger(n), a).nonce \in Nat
                   /\ GetAccount(Ledger(n), a).balance \in Int
                   /\ Drift(a)[n] \in Int
         /\ GethContracts(n) \subseteq Contracts
<1>1. LedgerOK(n) /\ Typed(Ledger(n))
  BY LedgerCorrect DEF LedgerOK
<1>2. \A a : /\ GetAccount(Ledger(n), a).nonce \in Nat
             /\ GetAccount(Ledger(n), a).balance \in Int
  BY <1>1, GetTyped DEF Account
<1>3. GethContracts(n) \subseteq Contracts
  BY <1>1 DEF LedgerOK, GethContracts
<1> QED  BY <1>1, <1>2, <1>3, DriftTyped

\* The gaps are what the two ledgers do differently.
LEMMA GapMeaning ==
  ASSUME NEW t \in Kinds, NEW used \in Nat, used <= t.gas
  PROVE  /\ Refund(t, used) - TotalCost(t, used)
              = SenderGap(t, used) - (Moved(t) + t.used * EffectivePrice(t))
         /\ t.value = Moved(t) + RecipientGap(t)
         /\ Refund(t, used) - TotalCost(t, used) \in Int
         /\ SenderGap(t, used) \in Int /\ RecipientGap(t) \in Int
         /\ Moved(t) \in Int /\ t.value \in Nat
         /\ t.used * EffectivePrice(t) \in Nat
<1> DEFINE back  == Refund(t, used)
           paid  == used * GasPrice(t)
           due   == t.used * EffectivePrice(t)
           inner == IF t.reverts THEN t.value ELSE t.inner
<1>1. /\ t \in Transaction /\ t.used \in Nat /\ t.value \in Nat /\ t.inner \in Nat
  BY PriceTyped DEF Transaction
<1>2. /\ GasPrice(t) \in Nat /\ EffectivePrice(t) \in Nat
      /\ back \in Nat /\ due \in Nat
  BY <1>1, PriceTyped, CostTyped
<1>3. paid \in Nat
  BY <1>2, MulNat
<1>4. inner \in Nat /\ t.value = Moved(t) + inner /\ Moved(t) \in Int
  BY <1>1 DEF Moved
<1>5. SenderGap(t, used) = back + (due - paid) - inner
  BY DEF SenderGap
<1>6. TotalCost(t, used) = t.value + paid /\ RecipientGap(t) = inner
  BY DEF TotalCost, RecipientGap
<1> HIDE DEF back, paid, due, inner
<1>7. /\ back - (t.value + paid) = back + (due - paid) - inner - (Moved(t) + due)
      /\ back - (t.value + paid) \in Int
      /\ back + (due - paid) - inner \in Int
  BY <1>1, <1>2, <1>3, <1>4
<1> QED
  <2>1. Refund(t, used) = back /\ t.used * EffectivePrice(t) = due
    BY DEF back, due
  <2> DEFINE cost == TotalCost(t, used)
             gap  == SenderGap(t, used)
  <2>2. cost = t.value + paid /\ gap = back + (due - paid) - inner
    BY <1>5, <1>6
  <2> HIDE DEF cost, gap
  <2>3. /\ back - cost = gap - (Moved(t) + due)
        /\ back - cost \in Int /\ gap \in Int
    BY <2>2, <1>1, <1>2, <1>3, <1>4
  <2> QED  BY <1>1, <1>2, <1>4, <1>6, <2>1, <2>3 DEF cost, gap

\* Follows and Midway of the next state.
LEMMA FollowsNext ==
  ASSUME UNCHANGED <<chain, unmetered>>, NEW n \in 0..MaxTx, Done' = n,
         \A u \in Users : GetAccount(accounts', u).nonce
                            = GetAccount(Ledger(n), u).nonce,
         \A a \in Address : GetAccount(accounts', a).balance
                              = GetAccount(Ledger(n), a).balance + Drift(a)[n],
         Stored(accounts') \cap Contracts = GethContracts(n)
  PROVE  Follows(Done)'
<1>1. Ledger(Done)' = Ledger(n)
  BY DEF Ledger
<1>2. \A a : (Drift(a)[Done])' = Drift(a)[n]
  BY DriftStable
<1>3. GethContracts(Done)' = GethContracts(n)
  <2>1. \A i : Paid(i)' = Paid(i)
    BY ChainOnly
  <2> QED  BY <2>1 DEF GethContracts
<1>4. Stored(accounts)' = Stored(accounts')
  BY DEF Stored
<1> QED  BY <1>1, <1>2, <1>3, <1>4 DEF Follows, GetAccount

LEMMA MidwayNext ==
  ASSUME UNCHANGED <<chain, pos>>, NEW n \in 0..MaxTx, n = pos - 1,
         \A i \in 1..n : i \in unmetered' <=> i \in unmetered,
         \A u \in Users : GetAccount(accounts', u).nonce
                            = GetAccount(Ledger(n), u).nonce
                                + (IF u = tx.from THEN 1 ELSE 0),
         \A a \in Address :
           GetAccount(accounts', a).balance
             = GetAccount(Ledger(n), a).balance + Drift(a)[n]
                 + (IF a = tx.from THEN Gain' ELSE 0),
         GethContracts(n) \subseteq Stored(accounts'),
         Stored(accounts') \cap Contracts \subseteq GethContracts(n) \cup {Target'},
         tx.to = New => recipient'.balance = 0
  PROVE  Midway(pos - 1)'
<1>1. Ledger(pos - 1)' = Ledger(n)
  BY DEF Ledger
<1>2. \A a : (Drift(a)[pos - 1])' = Drift(a)[n]
  BY DriftStable
<1>3. GethContracts(pos - 1)' = GethContracts(n)
  <2>1. \A i : Paid(i)' = Paid(i)
    BY ChainOnly
  <2> QED  BY <2>1 DEF GethContracts
<1>4. Stored(accounts)' = Stored(accounts') /\ tx' = tx
  BY DEF Stored, tx
<1> QED  BY <1>1, <1>2, <1>3, <1>4 DEF Midway, GetAccount

\* The sender is charged: from Follows to Midway.
LEMMA SenderAgrees ==
  ASSUME GoodInv, UpdateSender, Undisturbed'
  PROVE  Midway(pos - 1)'
<1>1. /\ ipc = "from" /\ UNCHANGED <<chain, pos, refused, crashes>>
      /\ ControlInv /\ AccountsInv /\ Typed(accounts) /\ Solvent(accounts)
  BY DEF UpdateSender, GoodInv, AccountsInv
<1>2. PICK used \in {0, tx.used} :
        /\ GasUsedAnswer(used)
        /\ Accepts(used)
        /\ accounts' = UpdateAccount(accounts, tx.from,
             sender.balance - TotalCost(tx, used) + Refund(tx, used),
             sender.nonce + 1)
  BY DEF UpdateSender
<1>3. /\ used = Metered(pos)' /\ tx' = tx
      /\ \A i : i # pos => (i \in unmetered' <=> i \in unmetered)
  BY <1>1, <1>2 DEF GasUsedAnswer, Metered, tx
<1>4. Undisturbed
  BY <1>1 DEF Undisturbed
<1> DEFINE n == pos - 1
<1>5. n \in 0..MaxTx /\ Done = n /\ Follows(n)
  BY <1>1, <1>4, DoneTyped DEF GoodInv, AgreeInv, Between, Done, InTransaction
<1> HIDE DEF n
<1>6. /\ tx \in Kinds /\ tx.from \in Users /\ tx.from \in Address
      /\ sender.nonce \in Nat /\ sender.balance \in Int
  BY <1>1, InWork DEF InTransaction
<1> DEFINE cost == TotalCost(tx, used)
           back == Refund(tx, used)
<1>7. cost \in Nat /\ back \in Nat
  <2>1. used \in Nat /\ used <= tx.gas /\ tx \in Transaction
    BY <1>1, <1>2, InWork DEF InTransaction
  <2> QED  BY <2>1, CostTyped
<1>8. /\ GetAccount(accounts', tx.from).balance = sender.balance - cost + back
      /\ GetAccount(accounts', tx.from).nonce = sender.nonce + 1
      /\ \A a : a # tx.from => GetAccount(accounts', a) = GetAccount(accounts, a)
      /\ Stored(accounts') = Stored(accounts) \cup {tx.from}
  BY <1>1, <1>2, SenderStep
<1>9. chain \in Chains
  BY <1>1 DEF ControlInv
<1>10. ASSUME NEW u \in Users
       PROVE  GetAccount(accounts', u).nonce
                = GetAccount(Ledger(n), u).nonce + (IF u = tx.from THEN 1 ELSE 0)
  <2>1. /\ GetAccount(accounts, u).nonce = GetAccount(Ledger(n), u).nonce
        /\ GetAccount(Ledger(n), u).nonce \in Nat
    BY <1>5, <1>9, LedgerTyped DEF Follows
  <2>2. CASE u = tx.from
    BY <2>1, <2>2, <1>8 DEF sender
  <2>3. CASE u # tx.from
    BY <2>1, <2>3, <1>8
  <2> QED  BY <2>2, <2>3
<1>11. ASSUME NEW a \in Address
       PROVE  GetAccount(accounts', a).balance
                = GetAccount(Ledger(n), a).balance + Drift(a)[n]
                    + (IF a = tx.from THEN Gain' ELSE 0)
  <2>1. /\ GetAccount(accounts, a).balance
             = GetAccount(Ledger(n), a).balance + Drift(a)[n]
        /\ GetAccount(Ledger(n), a).balance \in Int /\ Drift(a)[n] \in Int
    BY <1>5, <1>9, LedgerTyped DEF Follows
  <2>2. CASE a = tx.from
    <3>1. /\ sender.balance = GetAccount(accounts, a).balance
          /\ GetAccount(accounts', a).balance = sender.balance - cost + back
      BY <2>2, <1>8 DEF sender
    <3>2. Gain' = back - cost
      BY <1>3 DEF Gain, Refund, TotalCost, GasPrice
    <3> HIDE DEF cost, back
    <3> QED  BY <2>1, <2>2, <3>1, <3>2, <1>7
  <2>3. CASE a # tx.from
    BY <2>1, <2>3, <1>8
  <2> QED  BY <2>2, <2>3
<1>12. /\ tx.from \notin Contracts
       /\ Stored(accounts) \cap Contracts = GethContracts(n)
       /\ Stored(accounts') \cap Contracts = GethContracts(n)
       /\ GethContracts(n) \subseteq Stored(accounts')
  BY <1>5, <1>6, <1>8, AccountAssumption DEF Follows
\* The address of a new contract is one no contract of its creator has.
<1>13. ASSUME tx.to = New
       PROVE  recipient'.balance = 0
  <2> DEFINE target == Target'
  <2>1. target = ContractAddress(tx.from, sender.nonce)
    <3>1. tx' = tx /\ sender' = GetAccount(accounts', tx.from)
      BY <1>1 DEF tx, sender
    <3>2. sender'.nonce - 1 = sender.nonce
      BY <3>1, <1>6, <1>8
    <3> QED  BY <3>1, <3>2, <1>13 DEF Target
  <2>2. sender.nonce = GetAccount(Ledger(n), tx.from).nonce
    BY <1>5, <1>6 DEF Follows, sender
  <2>3. target \notin GethContracts(n)
    <3> SUFFICES ASSUME NEW i \in 1..n, chain[i].to = New, target = Paid(i)
                 PROVE  FALSE
      BY DEF GethContracts
    <3>1. /\ Paid(i).creator = chain[i].from
          /\ Paid(i).nonce < GetAccount(Ledger(n), chain[i].from).nonce
      BY <1>5, <1>9, LedgerTyped DEF LedgerOK
    <3>2. Paid(i).creator = tx.from /\ Paid(i).nonce = sender.nonce
      BY <2>1 DEF ContractAddress
    <3> QED  BY <3>1, <3>2, <2>2, <1>6
  <2>4. target \in Contracts
    <3>1. n + 1 = pos /\ n + 1 \in 1..MaxTx /\ (n + 1) - 1 = n
      BY <1>1, DoneTyped DEF n, InTransaction
    <3>2. LedgerOK(n)
      BY <1>5, <1>9, LedgerTyped
    <3>3. tx = chain[n + 1]
      BY <3>1 DEF tx
    <3>4. Paid(n + 1) \in Contracts
      BY <3>1, <3>2, <3>3, <1>9, <1>13, PaidTyped
    <3>5. Paid(n + 1) = ContractAddress(tx.from, GetAccount(Ledger(n), tx.from).nonce)
      BY <3>1, <3>3, <1>13 DEF Paid, GethTarget
    <3> QED  BY <3>4, <3>5, <2>1, <2>2
  <2>5. target \notin Stored(accounts) /\ target # tx.from
    BY <2>3, <2>4, <1>12
  <2>6. GetAccount(accounts, target).balance = 0
    BY <2>5, <1>1, GetTyped
  <2>7. recipient' = GetAccount(accounts', target)
    BY DEF recipient
  <2> QED  BY <2>5, <2>6, <2>7, <1>8
<1>14. /\ n = pos - 1
       /\ \A i \in 1..n : i \in unmetered' <=> i \in unmetered
  BY <1>1, <1>3, <1>5, BlockFacts DEF n
<1> QED
  BY <1>1, <1>5, <1>10, <1>11, <1>12, <1>13, <1>14, MidwayNext

\* The target is paid: from Midway to Follows, one transaction further.
LEMMA RecipientAgrees ==
  ASSUME GoodInv, UpdateRecipient, Undisturbed
  PROVE  Follows(Done)'
<1>1. /\ ipc \in {"to", "slots"} /\ ipc \in InTransaction /\ NextTransaction
      /\ ControlInv /\ AccountsInv /\ Typed(accounts)
      /\ chain \in Chains /\ UNCHANGED unmetered
  BY DEF UpdateRecipient, GoodInv, AccountsInv, ControlInv, InTransaction,
     history
<1>2. UNCHANGED chain /\ pos' = pos + 1 /\ ipc' \in {"commit", "from"}
  BY <1>1, NextPlace
<1>3. Midway(pos - 1) /\ pos \in 1..MaxTx /\ pos - 1 \in 0..MaxTx
  BY <1>1, DoneTyped DEF GoodInv, AgreeInv
<1> DEFINE n == pos
           m == pos - 1
<1>4. Done' = n /\ n \in 1..MaxTx /\ n \in 0..MaxTx /\ m \in 0..MaxTx /\ n - 1 = m
  <2>1. Done' = pos' - 1
    BY <1>2 DEF Done
  <2>2. MaxTx \in Nat
    BY BlockFacts
  <2> QED  BY <2>1, <2>2, <1>2, <1>3
<1>5. /\ tx = chain[n] /\ tx \in Kinds /\ tx.from \in Users
      /\ sender.nonce \in Nat
  BY <1>1, InWork DEF tx
<1>6. Midway(m)
  BY <1>3
<1> HIDE DEF n, m
<1>7. /\ Ledger(n) = GethApply(Ledger(m), tx) /\ LedgerOK(m)
      /\ Typed(Ledger(m)) /\ Typed(Ledger(n))
  BY <1>1, <1>4, <1>5, LedgerOf, LedgerTyped
<1>8. Target = Paid(n) /\ Target = GethTarget(Ledger(m), tx)
  <2>1. Paid(n) = GethTarget(Ledger(m), tx)
    BY <1>4, <1>5 DEF Paid
  <2>2. sender.nonce - 1 = GetAccount(Ledger(m), tx.from).nonce
    <3>1. /\ sender.nonce = GetAccount(Ledger(m), tx.from).nonce + 1
          /\ GetAccount(Ledger(m), tx.from).nonce \in Nat
      BY <1>1, <1>4, <1>5, <1>6, LedgerTyped DEF Midway, sender
    <3> QED  BY <3>1
  <2> QED  BY <2>1, <2>2 DEF Target, GethTarget
<1>9. /\ Target \in Address /\ (tx.to = New => Target \in Contracts)
      /\ Target \in Contracts /\ tx.to # New => Target \in GethContracts(m)
  <2>1. /\ Paid(n) \in Address
        /\ tx.to = New => Paid(n) \in Contracts
        /\ Paid(n) \in Contracts /\ tx.to # New => Paid(n) \in GethContracts(m)
    BY <1>1, <1>4, <1>5, <1>7, PaidTyped
  <2> QED  BY <2>1, <1>8
<1>10. /\ GetAccount(Ledger(n), tx.from).nonce
            = GetAccount(Ledger(m), tx.from).nonce + 1
       /\ \A u \in Users : u # tx.from =>
            GetAccount(Ledger(n), u).nonce = GetAccount(Ledger(m), u).nonce
       /\ \A a : GetAccount(Ledger(n), a).balance
            = GetAccount(Ledger(m), a).balance
                - (IF a = tx.from THEN Moved(tx) + tx.used * EffectivePrice(tx)
                                  ELSE 0)
                + (IF a = Target THEN Moved(tx) ELSE 0)
  BY <1>5, <1>7, <1>8, <1>9, GethStep
<1>11. /\ Stored(accounts') = Stored(accounts) \cup {Target}
       /\ GetAccount(accounts', Target).balance
            = (IF Fresh(tx, recipient) THEN 0 ELSE recipient.balance) + tx.value
       /\ Target \in Users
            => GetAccount(accounts', Target).nonce = recipient.nonce
       /\ \A a : a # Target => GetAccount(accounts', a) = GetAccount(accounts, a)
  BY <1>1, RecipientStep
<1>12. ASSUME NEW u \in Users
       PROVE  GetAccount(accounts', u).nonce = GetAccount(Ledger(n), u).nonce
  <2>1. GetAccount(accounts', u).nonce = GetAccount(accounts, u).nonce
    BY <1>11 DEF recipient
  <2>2. /\ GetAccount(accounts, u).nonce
             = GetAccount(Ledger(m), u).nonce + (IF u = tx.from THEN 1 ELSE 0)
        /\ GetAccount(Ledger(m), u).nonce \in Nat
    BY <1>1, <1>4, <1>6, LedgerTyped DEF Midway
  <2> QED  BY <2>1, <2>2, <1>10
<1>13. ASSUME NEW a \in Address
       PROVE  GetAccount(accounts', a).balance
                = GetAccount(Ledger(n), a).balance + Drift(a)[n]
  <2> DEFINE old    == GetAccount(accounts, a).balance
             new    == GetAccount(accounts', a).balance
             before == GetAccount(Ledger(m), a).balance
             after  == GetAccount(Ledger(n), a).balance
             fee    == tx.used * EffectivePrice(tx)
             told   == Metered(n)
             change == Refund(tx, told) - TotalCost(tx, told)
             val    == tx.value
             drift  == Drift(a)[m]
  <2>1. /\ old = before + drift + (IF a = tx.from THEN change ELSE 0)
        /\ before \in Int /\ drift \in Int
    BY <1>1, <1>4, <1>6, LedgerTyped DEF Midway, Gain, n
  <2>2. after = before - (IF a = tx.from THEN Moved(tx) + fee ELSE 0)
                  + (IF a = Target THEN Moved(tx) ELSE 0)
    BY <1>10
  <2>3. Drift(a)[n] = drift + ((IF a = tx.from THEN SenderGap(tx, told) ELSE 0)
                               + (IF a = Target THEN RecipientGap(tx) ELSE 0))
    <3>1. Drift(a)[n] = Drift(a)[n - 1] + Gap(a, n)
      BY <1>4, BlockFacts, DriftStep
    <3>2. Gap(a, n) = (IF a = tx.from THEN SenderGap(tx, told) ELSE 0)
                        + (IF a = Target THEN RecipientGap(tx) ELSE 0)
      BY <1>5, <1>8 DEF Gap
    <3> QED  BY <3>1, <3>2, <1>4
  <2>4. /\ change = SenderGap(tx, told) - (Moved(tx) + fee)
        /\ val = Moved(tx) + RecipientGap(tx)
        /\ change \in Int /\ SenderGap(tx, told) \in Int /\ RecipientGap(tx) \in Int
        /\ Moved(tx) \in Int /\ fee \in Nat /\ val \in Nat
    <3>1. told \in Nat /\ told <= tx.gas
      BY <1>5, MeteredTyped
    <3> HIDE DEF told
    <3> QED  BY <1>5, <3>1, GapMeaning
  <2>5. new = old + (IF a = Target THEN val ELSE 0)
    <3>1. old \in Int
      BY <2>1, <2>4
    <3>2. CASE a = Target
      <4>1. /\ new = (IF Fresh(tx, recipient) THEN 0 ELSE old) + val
            /\ recipient.balance = old
        BY <3>2, <1>11 DEF recipient
      <4>2. Fresh(tx, recipient) => old = 0
        BY <4>1, <1>6 DEF Fresh, Midway
      <4> QED  BY <3>1, <3>2, <4>1, <4>2
    <3>3. CASE a # Target
      BY <3>1, <3>3, <1>11
    <3> QED  BY <3>2, <3>3
  <2> DEFINE gapS == SenderGap(tx, told)
             gapR == RecipientGap(tx)
             move == Moved(tx)
             driftN == Drift(a)[n]
  <2> HIDE DEF old, new, before, after, fee, told, change, val, drift, gapS, gapR, move,
               driftN
  <2>6. new = after + driftN
    <3>1. /\ old = before + drift + (IF a = tx.from THEN change ELSE 0)
          /\ after = before - (IF a = tx.from THEN move + fee ELSE 0)
                       + (IF a = Target THEN move ELSE 0)
          /\ driftN = drift + ((IF a = tx.from THEN gapS ELSE 0)
                               + (IF a = Target THEN gapR ELSE 0))
      BY <2>1, <2>2, <2>3 DEF gapS, gapR, move, driftN
    <3>2. /\ change = gapS - (move + fee) /\ val = move + gapR
          /\ change \in Int /\ gapS \in Int /\ gapR \in Int /\ move \in Int
          /\ fee \in Nat /\ val \in Nat /\ before \in Int /\ drift \in Int
      BY <2>1, <2>4 DEF gapS, gapR, move
    <3>3. CASE a = tx.from /\ a = Target
      <4>1. /\ old = before + drift + change /\ after = before - (move + fee) + move
            /\ driftN = drift + (gapS + gapR) /\ new = old + val
        BY <3>1, <3>3, <2>5
      <4> QED  BY <4>1, <3>2
    <3>4. CASE a = tx.from /\ a # Target
      BY <3>1, <3>2, <3>4, <2>5
    <3>5. CASE a # tx.from /\ a = Target
      BY <3>1, <3>2, <3>5, <2>5
    <3>6. CASE a # tx.from /\ a # Target
      BY <3>1, <3>2, <3>6, <2>5
    <3> QED  BY <3>3, <3>4, <3>5, <3>6
  <2> QED  BY <2>6 DEF new, after, driftN
<1>14. Stored(accounts') \cap Contracts = GethContracts(n)
  <2>1. /\ GethContracts(n) \subseteq Contracts
        /\ GethContracts(n)
             = GethContracts(m) \cup (IF tx.to = New THEN {Paid(n)} ELSE {})
    <3>1. GethContracts(n) \subseteq Contracts
      BY <1>1, <1>4, LedgerTyped
    <3>2. 1..n = (1..m) \cup {n}
      BY <1>4
    <3>3. GethContracts(n)
             = GethContracts(m) \cup (IF tx.to = New THEN {Paid(n)} ELSE {})
      BY <3>2, <1>5 DEF GethContracts
    <3> QED  BY <3>1, <3>3
  <2>2. /\ GethContracts(m) \subseteq Stored(accounts)
        /\ Stored(accounts) \cap Contracts \subseteq GethContracts(m) \cup {Target}
    BY <1>6 DEF Midway
  <2> QED  BY <2>1, <2>2, <1>8, <1>9, <1>11
<1> QED  BY <1>1, <1>2, <1>4, <1>12, <1>13, <1>14, FollowsNext

(***************************************************************************)
(* AgreeInv is inductive, with ControlInv and AccountsInv.                 *)
(***************************************************************************)
LEMMA AgreeStep == GoodInv /\ [Next]_vars => AgreeInv'
<1> SUFFICES ASSUME GoodInv, [Next]_vars PROVE AgreeInv'
  OBVIOUS
<1>a. /\ ControlInv /\ AccountsInv /\ AgreeInv /\ chain \in Chains
      /\ ControlOK /\ PlaceInv /\ MaxTx \in Nat
  BY BlockFacts DEF GoodInv, ControlInv
<1>b. crashes \in Nat
  BY <1>a, AccountAssumption DEF ControlOK
\* A step between two transactions that leaves the accounts alone.
<1>k. ASSUME UNCHANGED <<chain, accounts, refused, unmetered,
                   crashes>>,
             Between, ipc' \notin {"start", "to", "slots"}, Done' = Done
      PROVE  AgreeInv'
  <2>1. Undisturbed' => Follows(Done)'
    <3> SUFFICES ASSUME Undisturbed' PROVE Follows(Done)'
      OBVIOUS
    <3>1. Follows(Done)
      BY <1>a, <1>k DEF AgreeInv, Undisturbed
    <3> DEFINE n == Done
    <3>2. /\ Done' = n
          /\ \A u \in Users : GetAccount(accounts', u).nonce
                                = GetAccount(Ledger(n), u).nonce
          /\ \A a \in Address : GetAccount(accounts', a).balance
                                  = GetAccount(Ledger(n), a).balance + Drift(a)[n]
          /\ Stored(accounts') \cap Contracts = GethContracts(n)
      BY <3>1, <1>k DEF Follows
    <3>3. n \in 0..MaxTx
      BY <1>a, <1>k, DoneTyped
    <3> HIDE DEF n
    <3> QED  BY <3>2, <3>3, <1>k, FollowsNext
  <2> QED  BY <2>1, <1>k DEF AgreeInv
<1>1. CASE LoadGenesis
  <2>1. /\ ipc = "start" /\ dbLastBlock = 0 /\ ipc' = "fetch" /\ lastBlock' = 1
        /\ UNCHANGED <<chain, dbLastBlock, refused, unmetered,
                   crashes>>
    BY <1>1 DEF LoadGenesis, history
  <2>2. Undisturbed' => Follows(Done)'
    <3> SUFFICES ASSUME Undisturbed' PROVE Follows(Done)'
      OBVIOUS
    <3>1. DOMAIN accounts = {}
      BY <2>1, <1>a DEF AgreeInv, Undisturbed, Stored
    <3>2. accounts' = GenesisLedger
      BY <3>1, <1>1 DEF LoadGenesis, GenesisLedger
    <3>3. Ledger(0) = GenesisLedger /\ Done' = 0 /\ 0 \in 0..MaxTx
      BY <1>a, <2>1, LedgerOf, BlockFacts DEF Done
    <3>4. \A a : Drift(a)[0] = 0
      BY <1>a, DriftStep
    <3>5. GethContracts(0) = {}
      BY DEF GethContracts
    <3>6. \A a : GetAccount(Ledger(0), a).balance
                   = GetAccount(Ledger(0), a).balance + Drift(a)[0]
      <4>1. \A a : GetAccount(Ledger(0), a).balance \in Int
        BY <1>a, <3>3, LedgerTyped
      <4> QED  BY <4>1, <3>4
    <3>7. Stored(Ledger(0)) \cap Contracts = {}
      BY <1>a, <3>3, <3>5, LedgerTyped DEF LedgerOK
    <3>8. accounts' = Ledger(0)
      BY <3>2, <3>3
    <3> QED  BY <2>1, <3>3, <3>5, <3>6, <3>7, <3>8, FollowsNext
  <2> QED  BY <2>1, <2>2 DEF AgreeInv
<1>2. CASE Resume
  <2>1. /\ ipc = "start" /\ dbLastBlock # 0 /\ ipc' = "fetch"
        /\ UNCHANGED <<refused, unmetered,
                   crashes>>
    BY <1>2 DEF Resume, history
  <2>2. crashes # 0
    BY <2>1, <1>a DEF AgreeInv
  <2> QED  BY <2>1, <2>2 DEF AgreeInv, Undisturbed
<1>3. CASE FetchBlock
  <2>1. /\ ipc = "fetch" /\ ipc' \in {"commit", "from"}
        /\ pos' = TxsUpTo[lastBlock - 1] + 1
        /\ UNCHANGED <<chain, accounts, refused, unmetered,
                   crashes>>
    BY <1>3 DEF FetchBlock, AtTransaction, durable, history
  <2>2. Done = TxsUpTo[lastBlock - 1] /\ Done' = pos' - 1 /\ Between
    BY <2>1 DEF Done, Between
  <2>3. Done \in 0..MaxTx
    BY <1>a, <2>2, DoneTyped
  <2>4. Done' = Done
    BY <2>1, <2>2, <2>3, <1>a
  <2> QED  BY <2>1, <2>2, <2>4, <1>k
<1>4. CASE CommitBlock
  <2>1. /\ ipc = "commit" /\ ipc' = "fetch" /\ lastBlock' = lastBlock + 1
        /\ UNCHANGED <<chain, accounts, refused, unmetered,
                   crashes>>
    BY <1>4 DEF CommitBlock, history
  <2>2. lastBlock \in 1..MaxBlock /\ pos = TxsUpTo[lastBlock] + 1
    BY <2>1, <1>a DEF PlaceInv
  <2>3. lastBlock' - 1 = lastBlock /\ pos - 1 = TxsUpTo[lastBlock]
    <3>1. TxsUpTo[lastBlock] \in 0..MaxTx
      BY <2>2, AccountAssumption, BlockFacts
    <3> QED  BY <2>1, <2>2, <3>1, <1>a, AccountAssumption
  <2>4. Done' = Done /\ Between
    BY <2>1, <2>3 DEF Done, Between
  <2> QED  BY <2>1, <2>4, <1>k
<1>5. CASE UpdateSender
  <2>1. ipc' = "to" /\ UNCHANGED pos
    BY <1>5 DEF UpdateSender
  <2>2. Undisturbed' => Midway(pos - 1)'
    BY <1>5, SenderAgrees
  <2> QED  BY <2>1, <2>2 DEF AgreeInv, Between
<1>6. CASE RejectTransaction
  <2>1. refused' # {} /\ ipc = "from" /\ NextTransaction
    BY <1>6 DEF RejectTransaction
  <2>2. ipc' \in {"commit", "from"}
    BY <1>a, <2>1, NextPlace DEF InTransaction
  <2> QED  BY <2>1, <2>2 DEF AgreeInv, Undisturbed
<1>7. CASE FetchContractState
  <2>1. /\ ipc = "to" /\ ipc' = "slots"
        /\ UNCHANGED <<chain, accounts, pos, refused, unmetered,
                   crashes>>
    BY <1>7 DEF FetchContractState, durable, history
  <2>2. Undisturbed' => Midway(pos - 1)'
    <3> SUFFICES ASSUME Undisturbed' PROVE Midway(pos - 1)'
      OBVIOUS
    <3>1. Midway(pos - 1)
      BY <2>1, <1>a DEF AgreeInv, Undisturbed
    <3>2. Target' = Target /\ recipient' = recipient /\ Gain' = Gain
      BY <2>1 DEF Target, recipient, sender, tx, Gain, Metered, Refund,
         TotalCost, GasPrice
    <3>4. pos - 1 \in 0..MaxTx
      BY <2>1, <1>a, DoneTyped DEF InTransaction
    <3> DEFINE n == pos - 1
    <3>3. /\ n = pos - 1
          /\ \A u \in Users : GetAccount(accounts', u).nonce
                                = GetAccount(Ledger(n), u).nonce
                                    + (IF u = tx.from THEN 1 ELSE 0)
          /\ \A a \in Address :
               GetAccount(accounts', a).balance
                 = GetAccount(Ledger(n), a).balance + Drift(a)[n]
                     + (IF a = tx.from THEN Gain' ELSE 0)
          /\ GethContracts(n) \subseteq Stored(accounts')
          /\ Stored(accounts') \cap Contracts \subseteq GethContracts(n) \cup {Target'}
          /\ tx.to = New => recipient'.balance = 0
      BY <3>1, <3>2, <2>1 DEF Midway
    <3>5. n \in 0..MaxTx
      BY <3>4
    <3> HIDE DEF n
    <3> QED  BY <3>3, <3>5, <2>1, MidwayNext
  <2> QED  BY <2>1, <2>2 DEF AgreeInv, Between
<1>8. CASE SetNextStorage
  <2>1. /\ ipc = "slots" /\ ipc' = "slots"
        /\ UNCHANGED <<chain, pos, refused, unmetered,
                   crashes>>
    BY <1>8 DEF SetNextStorage, history
  <2>2. /\ Stored(accounts') = Stored(accounts) \cup {Target}
        /\ \A a : /\ GetAccount(accounts', a).balance
                       = GetAccount(accounts, a).balance
                  /\ GetAccount(accounts', a).nonce
                       = GetAccount(accounts, a).nonce
    BY <1>8, <1>a, StorageStep
  <2>3. Undisturbed' => Midway(pos - 1)'
    <3> SUFFICES ASSUME Undisturbed' PROVE Midway(pos - 1)'
      OBVIOUS
    <3>1. Midway(pos - 1)
      BY <2>1, <1>a DEF AgreeInv, Undisturbed
    <3>2. Target' = Target
      <4>1. tx' = tx /\ sender'.nonce = sender.nonce
        BY <2>1, <2>2 DEF sender, tx
      <4> QED  BY <4>1 DEF Target
    <3>3. recipient'.balance = recipient.balance
      BY <3>2, <2>2 DEF recipient
    <3>5. Gain' = Gain
      BY <2>1 DEF tx, Gain, Metered, Refund, TotalCost, GasPrice
    <3>6. pos - 1 \in 0..MaxTx
      BY <2>1, <1>a, DoneTyped DEF InTransaction
    <3> DEFINE n == pos - 1
    <3>4. /\ n = pos - 1
          /\ \A u \in Users : GetAccount(accounts', u).nonce
                                = GetAccount(Ledger(n), u).nonce
                                    + (IF u = tx.from THEN 1 ELSE 0)
          /\ \A a \in Address :
               GetAccount(accounts', a).balance
                 = GetAccount(Ledger(n), a).balance + Drift(a)[n]
                     + (IF a = tx.from THEN Gain' ELSE 0)
          /\ GethContracts(n) \subseteq Stored(accounts')
          /\ Stored(accounts') \cap Contracts \subseteq GethContracts(n) \cup {Target'}
          /\ tx.to = New => recipient'.balance = 0
      BY <3>1, <3>2, <3>3, <3>5, <2>2 DEF Midway
    <3>7. n \in 0..MaxTx
      BY <3>6
    <3> HIDE DEF n
    <3> QED  BY <3>4, <3>7, <2>1, MidwayNext
  <2> QED  BY <2>1, <2>3 DEF AgreeInv, Between
<1>9. CASE UpdateRecipient
  <2>1. /\ ipc \in {"to", "slots"} /\ NextTransaction
        /\ UNCHANGED <<refused, unmetered,
                   crashes>>
    BY <1>9 DEF UpdateRecipient, history
  <2>2. ipc' \in {"commit", "from"}
    BY <1>a, <2>1, NextPlace DEF InTransaction
  <2>3. Undisturbed' => Undisturbed
    BY <2>1 DEF Undisturbed
  <2>4. Undisturbed' => Follows(Done)'
    BY <1>9, <2>3, RecipientAgrees
  <2> QED  BY <2>2, <2>4 DEF AgreeInv
<1>10. CASE Crash
  <2>1. crashes' # 0
    BY <1>10, <1>b DEF Crash
  <2> QED  BY <2>1 DEF AgreeInv, Undisturbed
<1>11. CASE AwaitBlock \/ UNCHANGED vars
  <2>1. UNCHANGED <<chain, dbLastBlock, accounts, ipc, lastBlock, pos, todo, refused,
                    unmetered, crashes>>
    BY <1>11 DEF AwaitBlock, vars, durable, indexer, history
  <2>2. CASE Between
    <3>1. Done' = Done /\ ipc' \notin {"start", "to", "slots"}
      BY <2>1, <2>2 DEF Done, Between
    <3> QED  BY <3>1, <2>1, <2>2, <1>k
  <2>3. CASE ipc \in {"to", "slots"}
    <3>1. Undisturbed' => Midway(pos - 1)'
      <4> SUFFICES ASSUME Undisturbed' PROVE Midway(pos - 1)'
        OBVIOUS
      <4>1. Midway(pos - 1)
        BY <2>1, <2>3, <1>a DEF AgreeInv, Undisturbed
      <4>2. Target' = Target /\ recipient' = recipient /\ Gain' = Gain
        BY <2>1 DEF Target, recipient, sender, tx, Gain, Metered, Refund,
           TotalCost, GasPrice
      <4>4. pos - 1 \in 0..MaxTx
        BY <2>3, <1>a, DoneTyped DEF InTransaction
      <4> DEFINE n == pos - 1
      <4>3. /\ n = pos - 1
            /\ \A u \in Users : GetAccount(accounts', u).nonce
                                  = GetAccount(Ledger(n), u).nonce
                                      + (IF u = tx.from THEN 1 ELSE 0)
            /\ \A a \in Address :
                 GetAccount(accounts', a).balance
                   = GetAccount(Ledger(n), a).balance + Drift(a)[n]
                       + (IF a = tx.from THEN Gain' ELSE 0)
            /\ GethContracts(n) \subseteq Stored(accounts')
            /\ Stored(accounts') \cap Contracts
                 \subseteq GethContracts(n) \cup {Target'}
            /\ tx.to = New => recipient'.balance = 0
        BY <4>1, <4>2, <2>1 DEF Midway
      <4>5. n \in 0..MaxTx
        BY <4>4
      <4> HIDE DEF n
      <4> QED  BY <4>3, <4>5, <2>1, MidwayNext
    <3> QED  BY <3>1, <2>1, <2>3 DEF AgreeInv, Between
  <2>4. CASE ipc = "start"
    BY <2>1, <2>4, <1>a DEF AgreeInv, Between, Stored
  <2> QED  BY <2>2, <2>3, <2>4, <1>a DEF ControlOK, Between, InTransaction
<1> QED
  BY <1>1, <1>2, <1>3, <1>4, <1>5, <1>6, <1>7, <1>8, <1>9, <1>10, <1>11
  DEF Next, Indexer

LEMMA GoodCorrect == Spec => []GoodInv
<1>1. Init => AgreeInv
  BY DEF Init, AgreeInv, Between, Stored
<1> QED  BY <1>1, AgreeStep, ControlCorrect, AccountsCorrect, PTL DEF Spec, GoodInv

(***************************************************************************)
(* As long as no transaction is refused or repeated, every balance of the  *)
(* copy differs from Geth's by the sum of the gaps the code is known to    *)
(* make, after every transaction, whatever receipts are missing and        *)
(* whatever accounts the transactions create, pay and call.                *)
(***************************************************************************)
THEOREM BalanceDriftCorrect == Spec => []BalanceDrift
<1>1. GoodInv => BalanceDrift
  <2> SUFFICES ASSUME GoodInv, Undisturbed, Between, NEW a \in Address
               PROVE  GetAccount(accounts, a).balance
                        - GetAccount(Ledger(Done), a).balance = Drift(a)[Done]
    BY DEF BalanceDrift
  <2> DEFINE n == Done
  <2>1. chain \in Chains /\ n \in 0..MaxTx /\ Follows(n)
    BY DoneTyped DEF GoodInv, ControlInv, AgreeInv
  <2> HIDE DEF n
  <2>2. /\ GetAccount(accounts, a).balance
             = GetAccount(Ledger(n), a).balance + Drift(a)[n]
        /\ GetAccount(Ledger(n), a).balance \in Int /\ Drift(a)[n] \in Int
    BY <2>1, LedgerTyped DEF Follows
  <2> QED  BY <2>2 DEF n
<1> QED  BY <1>1, GoodCorrect, PTL

(***************************************************************************)
(* As long as no transaction is refused or repeated the nonces are Geth's, *)
(* and so are the addresses of the contracts, which the copy computes from *)
(* its own nonces.                                                         *)
(***************************************************************************)
THEOREM NoncesAndContractsAgreeCorrect == Spec => []NoncesAndContractsAgree
<1>1. GoodInv => NoncesAndContractsAgree
  <2> SUFFICES ASSUME GoodInv, Undisturbed, Between
               PROVE  /\ \A u \in Users : GetAccount(accounts, u).nonce
                                            = GetAccount(Ledger(Done), u).nonce
                      /\ DOMAIN accounts \ Users = GethContracts(Done)
    BY DEF NoncesAndContractsAgree
  <2>1. Follows(Done)
    BY DEF GoodInv, AgreeInv
  <2>2. DOMAIN accounts \ Users = Stored(accounts) \cap Contracts
    BY AccountAssumption DEF GoodInv, AccountsInv, Typed, Stored, Address
  <2> QED  BY <2>1, <2>2 DEF Follows
<1> QED  BY <1>1, GoodCorrect, PTL

----------------------------------------------------------------------------
(***************************************************************************)
(* The drift of plain transactions is in the user's favour: it is the      *)
(* refund.                                                                 *)
(***************************************************************************)
LEMMA PlainDrift ==
  ASSUME chain \in Chains, \A i \in 1..MaxTx : Plain(chain[i]), NEW a
  PROVE  \A n \in 0..MaxTx : Drift(a)[n] >= 0
<1> DEFINE S == {n \in Nat : n <= MaxTx => Drift(a)[n] >= 0}
<1>a. MaxTx \in Nat
  BY BlockFacts
<1>1. 0 \in S
  BY <1>a, DriftStep
<1>2. ASSUME NEW m \in Nat, m \in S
      PROVE  m + 1 \in S
  <2> SUFFICES ASSUME m + 1 <= MaxTx PROVE Drift(a)[m + 1] >= 0
    OBVIOUS
  <2> DEFINE n == m + 1
             t == chain[n]
  <2>1. n \in 1..MaxTx /\ m \in 0..MaxTx /\ Drift(a)[m] >= 0 /\ n - 1 = m
    BY <1>2, <1>a
  <2>2. t \in Kinds /\ Plain(t)
    BY <2>1, LedgerOf
  <2> DEFINE told == Metered(n)
  <2>7. told \in {0, t.used} /\ told \in Nat /\ told <= t.gas
    BY <2>2, MeteredTyped
  <2> HIDE DEF n, t, told
  <2>3. /\ SenderGap(t, told) >= 0 /\ RecipientGap(t) = 0
        /\ SenderGap(t, told) \in Int
    <3>1. /\ GasPrice(t) = EffectivePrice(t) /\ GasPrice(t) \in Nat
          /\ t.used \in Nat /\ ~t.reverts /\ t.inner = 0
      BY <2>2, PriceTyped DEF Plain, GasPrice, EffectivePrice, Transaction
    <3> DEFINE due  == t.used * EffectivePrice(t)
               paid == told * GasPrice(t)
               back == Refund(t, told)
    <3>2. due \in Nat /\ (paid = 0 \/ paid = due)
      <4>1. told = 0 => paid = 0
        BY <3>1
      <4>2. told = t.used => paid = due
        BY <3>1
      <4>3. due \in Nat
        BY <2>2, PriceTyped
      <4> QED  BY <2>7, <4>1, <4>2, <4>3
    <3>3. back \in Nat
      BY <2>2, <2>7, PriceTyped, CostTyped
    <3>4. SenderGap(t, told) = back + (due - paid) - 0 /\ RecipientGap(t) = 0
      BY <3>1 DEF SenderGap, RecipientGap
    <3> HIDE DEF due, paid, back
    <3> QED  BY <3>2, <3>3, <3>4
  <2>4. Gap(a, n) \in Int /\ Gap(a, n) >= 0
    BY <2>3 DEF Gap, t, told
  <2>5. Drift(a)[n] = Drift(a)[m] + Gap(a, n) /\ Drift(a)[m] \in Int
    BY <2>1, <1>a, DriftStep, DriftTyped
  <2>6. Drift(a)[n] >= 0
    BY <2>1, <2>4, <2>5
  <2> QED  BY <2>6 DEF n
<1> HIDE DEF S
<1>3. \A n \in Nat : n \in S
  BY <1>1, <1>2, SetInduction
<1> QED  BY <1>3, <1>a DEF S

(***************************************************************************)
(* Without crashes and failed answers ProcessTransaction refuses no plain  *)
(* transaction Geth has mined: the sender of the next one has at least     *)
(* what it has in Geth's ledger, where it was enough for the whole gas     *)
(* limit.                                                                  *)
(***************************************************************************)
THEOREM MinedNeverRefusedCorrect == Spec => []MinedNeverRefused
<1>1. Init => MinedNeverRefused
  BY DEF Init, MinedNeverRefused
<1>2. MinedNeverRefused /\ GoodInv /\ [Next]_vars => MinedNeverRefused'
  <2> SUFFICES ASSUME MinedNeverRefused, GoodInv, [Next]_vars,
                      crashes' = 0, faults' = 0,
                      \A i \in 1..MaxTx : Plain(chain'[i])
               PROVE  refused' = {}
    BY DEF MinedNeverRefused
  <2>1. /\ UNCHANGED chain
        /\ crashes' \in {crashes, crashes + 1} /\ faults' \in {faults, faults + 1}
    BY DEF Next, Indexer, LoadGenesis, Resume, FetchBlock, AwaitBlock, CommitBlock,
           UpdateSender, GasUsedAnswer, RejectTransaction, NextTransaction,
           FetchContractState, SetNextStorage, UpdateRecipient, Crash, vars,
           durable, indexer, history
  <2>2. crashes \in Nat /\ faults \in Nat /\ chain \in Chains /\ ControlInv
    BY AccountAssumption DEF GoodInv, ControlInv, ControlOK
  <2>3. crashes = 0 /\ faults = 0 /\ UNCHANGED <<crashes, faults>>
    BY <2>1, <2>2
  <2>4. \A i \in 1..MaxTx : Plain(chain[i])
    BY <2>1
  <2>5. refused = {} /\ Undisturbed
    BY <2>3, <2>4 DEF MinedNeverRefused, Undisturbed
  <2>6. ~RejectTransaction
    <3> SUFFICES ASSUME RejectTransaction PROVE FALSE
      OBVIOUS
    <3>1. ipc = "from" /\ ~Accepts(tx.used)
      BY <2>3 DEF RejectTransaction
    <3> DEFINE n == pos - 1
    <3>2. /\ n \in 0..MaxTx /\ Follows(n) /\ pos \in 1..MaxTx
          /\ Valid(Ledger(n), tx) /\ Plain(tx)
      <4>1. /\ pos \in 1..MaxTx /\ n \in 0..MaxTx /\ Done = n
        BY <3>1, <2>2, DoneTyped DEF Done, InTransaction
      <4>2. Follows(n)
        BY <4>1, <3>1, <2>5 DEF GoodInv, AgreeInv, Between
      <4> QED  BY <4>1, <4>2, <2>2, <2>4, LedgerOf DEF tx
    <3> HIDE DEF n
    <3>3. /\ tx \in Transaction /\ tx.used <= tx.gas /\ tx.from \in Address
          /\ tx.used \in Nat /\ tx.gas \in Nat /\ tx.value \in Nat
          /\ sender.balance \in Int
      BY <3>1, <2>2, InWork DEF GoodInv, AccountsInv, InTransaction
    <3>4. /\ sender.balance = GetAccount(Ledger(n), tx.from).balance
                                + Drift(tx.from)[n]
          /\ GetAccount(Ledger(n), tx.from).balance \in Int
          /\ Drift(tx.from)[n] \in Int /\ Drift(tx.from)[n] >= 0
      BY <2>2, <2>4, <3>2, <3>3, LedgerTyped, PlainDrift DEF Follows, sender
    <3>5. GetAccount(Ledger(n), tx.from).balance >= tx.value + tx.gas * tx.price
      BY <3>2 DEF Valid
    <3>6. /\ TotalCost(tx, tx.used) = tx.value + tx.used * tx.price
          /\ tx.used * tx.price <= tx.gas * tx.price
          /\ tx.used * tx.price \in Nat /\ tx.gas * tx.price \in Nat
      BY <3>2, <3>3, MulNat DEF Plain, TotalCost, GasPrice, Transaction
    <3> DEFINE used  == tx.used * tx.price
               limit == tx.gas * tx.price
               cost  == TotalCost(tx, tx.used)
    <3>7. sender.balance >= cost
      <4>1. /\ cost = tx.value + used /\ used <= limit
            /\ used \in Nat /\ limit \in Nat
            /\ GetAccount(Ledger(n), tx.from).balance >= tx.value + limit
        BY <3>5, <3>6
      <4> HIDE DEF used, limit, cost
      <4> QED  BY <3>3, <3>4, <4>1
    <3> QED  BY <3>1, <3>3, <3>7 DEF Accepts
  <2>7. UNCHANGED refused
    BY <2>6 DEF Next, Indexer, LoadGenesis, Resume, FetchBlock, AwaitBlock,
                CommitBlock, UpdateSender, FetchContractState, SetNextStorage,
                UpdateRecipient, Crash, vars, durable, indexer, history
  <2> QED  BY <2>5, <2>7
<1> QED  BY <1>1, <1>2, GoodCorrect, PTL DEF Spec

----------------------------------------------------------------------------
(***************************************************************************)
(* The state root is computed from accounts without storage, outside a     *)
(* contract creation.  No write stores code, so slots are fetched for the  *)
(* contract in creation only; and creating it drops them.  A crash between *)
(* the two leaves them.                                                    *)
(***************************************************************************)
BareInv ==
  /\ \A a \in Address : ~GetAccount(accounts, a).code
  /\ ipc = "slots" => tx.to = New
  /\ crashes = 0 => \A a \in Address : GetAccount(accounts, a).storage # {}
                                         => ipc = "slots" /\ a = Target

LEMMA UpdateKeeps ==
  ASSUME NEW db, Typed(db), NEW a \in Address, NEW balance \in Int,
         NEW nonce \in Nat, NEW new, new = UpdateAccount(db, a, balance, nonce)
  PROVE  \A x : /\ GetAccount(new, x).code = GetAccount(db, x).code
                /\ GetAccount(new, x).storage = GetAccount(db, x).storage
<1> DEFINE old     == GetAccount(db, a)
           account == [old EXCEPT !.balance = balance, !.nonce = nonce]
<1>1. old \in Account
  BY GetTyped
<1>2. /\ account \in Account
      /\ account.code = old.code /\ account.storage = old.storage
  BY <1>1 DEF Account
<1>3. new = SaveAccount(db, a, account)
  BY DEF UpdateAccount
<1> HIDE DEF account
<1>4. /\ GetAccount(new, a) = account
      /\ \A x : x # a => GetAccount(new, x) = GetAccount(db, x)
  <2> HIDE DEF old
  <2> QED  BY <1>2, <1>3, SaveTyped
<1> QED  BY <1>2, <1>4

LEMMA StorageKeeps ==
  ASSUME NEW db, Typed(db), NEW a \in Address, NEW slot \in Slots,
         NEW new, new = SetStorage(db, a, slot)
  PROVE  /\ \A x : GetAccount(new, x).code = GetAccount(db, x).code
         /\ \A x : x # a => GetAccount(new, x) = GetAccount(db, x)
<1> DEFINE old     == GetAccount(db, a)
           account == [old EXCEPT !.storage = @ \cup {slot}]
<1>1. old \in Account
  BY GetTyped
<1>2. account \in Account /\ account.code = old.code
  BY <1>1 DEF Account
<1>3. new = SaveAccount(db, a, account)
  BY DEF SetStorage
<1> HIDE DEF account
<1>4. /\ GetAccount(new, a) = account
      /\ \A x : x # a => GetAccount(new, x) = GetAccount(db, x)
  <2> HIDE DEF old
  <2> QED  BY <1>2, <1>3, SaveTyped
<1> QED  BY <1>2, <1>4

LEMMA BareStep ==
  ControlInv /\ AccountsInv /\ BareInv /\ [Next]_vars => BareInv'
<1> SUFFICES ASSUME ControlInv, AccountsInv, BareInv, [Next]_vars
             PROVE  BareInv'
  OBVIOUS
<1>a. Typed(accounts) /\ Solvent(accounts) /\ crashes \in Nat
  BY AccountAssumption DEF AccountsInv, ControlInv, ControlOK
\* Steps that leave code and storage alone and are not in a creation.
<1>k. ASSUME \A a \in Address :
               /\ GetAccount(accounts', a).code = GetAccount(accounts, a).code
               /\ GetAccount(accounts', a).storage = GetAccount(accounts, a).storage,
             ipc # "slots", ipc' # "slots", UNCHANGED crashes
      PROVE  BareInv'
  BY <1>k DEF BareInv, GetAccount, EmptyAccount, CreateAccount
<1>1. CASE LoadGenesis
  <2>1. /\ ipc = "start" /\ ipc' = "fetch" /\ UNCHANGED crashes
    BY <1>1 DEF LoadGenesis, history
  <2>2. ASSUME NEW a \in Address
        PROVE  /\ ~GetAccount(accounts', a).code
               /\ crashes = 0 => GetAccount(accounts', a).storage = {}
    <3>1. CASE a \in DOMAIN Genesis
      <4>1. GetAccount(accounts', a) = CreateAccount(Genesis[a]) /\ Genesis[a] \in Int
        BY <3>1, <1>1, <1>a, GenesisStep, AccountAssumption
      <4> QED  BY <4>1, CreateTyped DEF BareInv, CreateAccount
    <3>2. CASE a \notin DOMAIN Genesis
      <4>1. GetAccount(accounts', a) = GetAccount(accounts, a)
        BY <3>2, <1>1, <1>a, GenesisStep
      <4> QED  BY <4>1, <2>1 DEF BareInv
    <3> QED  BY <3>1, <3>2
  <2>3. \A a : GetAccount(accounts, a)' = GetAccount(accounts', a)
    BY DEF GetAccount, EmptyAccount, CreateAccount
  <2> QED  BY <2>1, <2>2, <2>3 DEF BareInv
<1>2. CASE Resume \/ FetchBlock \/ CommitBlock \/ RejectTransaction
  <2>1. /\ ipc # "slots" /\ ipc' # "slots" /\ UNCHANGED <<accounts, crashes>>
    BY <1>2 DEF Resume, FetchBlock, CommitBlock, RejectTransaction, NextTransaction,
                AtTransaction, durable, history
  <2> QED  BY <2>1, <1>k
<1>3. CASE UpdateSender
  <2>1. /\ ipc = "from" /\ ipc' = "to" /\ UNCHANGED crashes
    BY <1>3 DEF UpdateSender
  <2>2. PICK used \in {0, tx.used} :
          /\ accounts' = UpdateAccount(accounts, tx.from,
               sender.balance - TotalCost(tx, used) + Refund(tx, used),
               sender.nonce + 1)
    BY <1>3 DEF UpdateSender
  <2>3. /\ tx \in Transaction /\ used \in Nat /\ used <= tx.gas
        /\ tx.from \in Address /\ sender.nonce \in Nat /\ sender.balance \in Int
    BY <2>1, <1>a, InWork DEF InTransaction
  <2>4. TotalCost(tx, used) \in Nat /\ Refund(tx, used) \in Nat
    BY <2>3, CostTyped
  <2> DEFINE balance == sender.balance - TotalCost(tx, used) + Refund(tx, used)
             nonce   == sender.nonce + 1
             payer   == tx.from
  <2>5. balance \in Int /\ nonce \in Nat /\ payer \in Address
    BY <2>3, <2>4
  <2>6. accounts' = UpdateAccount(accounts, payer, balance, nonce)
    BY <2>2
  <2> HIDE DEF balance, nonce, payer
  <2>7. \A x : /\ GetAccount(accounts', x).code = GetAccount(accounts, x).code
               /\ GetAccount(accounts', x).storage = GetAccount(accounts, x).storage
    BY <2>5, <2>6, <1>a, UpdateKeeps
  <2> QED  BY <2>1, <2>7, <1>k
<1>4. CASE FetchContractState
  <2>1. /\ ipc = "to" /\ ipc' = "slots" /\ Fetches
        /\ UNCHANGED <<chain, accounts, pos, crashes>>
    BY <1>4 DEF FetchContractState, durable, history
  <2>2. ~recipient.code
    BY <2>1, TargetTyped DEF BareInv, recipient
  <2>3. tx.to = New /\ tx' = tx
    BY <2>1, <2>2 DEF Fetches, tx
  <2>4. \A a : GetAccount(accounts, a)' = GetAccount(accounts, a)
    BY <2>1 DEF GetAccount, EmptyAccount, CreateAccount
  <2> QED  BY <2>1, <2>3, <2>4 DEF BareInv
<1>5. CASE SetNextStorage
  <2>1. /\ ipc = "slots" /\ UNCHANGED <<chain, ipc, pos, crashes>>
    BY <1>5 DEF SetNextStorage, history
  <2>2. PICK slot \in todo : accounts' = SetStorage(accounts, Target, slot)
    BY <1>5 DEF SetNextStorage
  <2>3. slot \in Slots /\ Target \in Address
    BY <2>1, TargetTyped DEF ControlInv, ControlOK
  <2> DEFINE target == Target
  <2>4. target \in Address /\ accounts' = SetStorage(accounts, target, slot)
    BY <2>2, <2>3
  <2> HIDE DEF target
  <2>5. /\ \A x : GetAccount(accounts', x).code = GetAccount(accounts, x).code
        /\ \A x : x # target => GetAccount(accounts', x) = GetAccount(accounts, x)
    BY <2>3, <2>4, <1>a, StorageKeeps
  <2>6. Target' = Target /\ tx' = tx
    <3>1. tx' = tx
      BY <2>1 DEF tx
    <3>2. sender'.nonce = sender.nonce
      BY <1>5, <3>1, StorageStep DEF sender
    <3> QED  BY <3>1, <3>2 DEF Target
  <2>7. \A a : GetAccount(accounts, a)' = GetAccount(accounts', a)
    BY DEF GetAccount, EmptyAccount, CreateAccount
  <2> QED  BY <2>1, <2>5, <2>6, <2>7 DEF BareInv, target
<1>6. CASE UpdateRecipient
  <2>1. /\ ipc \in {"to", "slots"} /\ UNCHANGED crashes /\ ipc' # "slots"
    BY <1>6 DEF UpdateRecipient, NextTransaction, AtTransaction, history
  <2>2. /\ Target \in Address /\ recipient \in Account
        /\ recipient.balance \in Int /\ recipient.nonce \in Nat /\ tx.value \in Nat
    BY <2>1, <1>a, TargetTyped, InWork DEF Account, InTransaction
  <2> DEFINE target == Target
  <2>3. CASE Fresh(tx, recipient)
    <3> DEFINE account == CreateAccount(tx.value)
    <3>1. /\ account \in Account /\ ~account.code /\ account.storage = {}
      BY <2>2, CreateTyped
    <3>2. target \in Address /\ accounts' = SaveAccount(accounts, target, account)
      BY <2>2, <2>3, <1>6 DEF UpdateRecipient
    <3> HIDE DEF target, account
    <3>3. /\ GetAccount(accounts', target) = account
          /\ \A x : x # target => GetAccount(accounts', x) = GetAccount(accounts, x)
      BY <3>1, <3>2, <1>a, SaveTyped
    <3>4. \A a : GetAccount(accounts, a)' = GetAccount(accounts', a)
      BY DEF GetAccount, EmptyAccount, CreateAccount
    <3> QED  BY <2>1, <3>1, <3>3, <3>4 DEF BareInv, target
  <2>4. CASE ~Fresh(tx, recipient)
    <3>1. ipc = "to"
      BY <2>1, <2>4 DEF BareInv, Fresh
    <3> DEFINE balance == recipient.balance + tx.value
               nonce   == recipient.nonce
    <3>2. /\ balance \in Int /\ nonce \in Nat /\ target \in Address
          /\ accounts' = UpdateAccount(accounts, target, balance, nonce)
      BY <2>2, <2>4, <1>6 DEF UpdateRecipient
    <3> HIDE DEF target, balance, nonce
    <3>3. \A x : /\ GetAccount(accounts', x).code = GetAccount(accounts, x).code
                 /\ GetAccount(accounts', x).storage
                      = GetAccount(accounts, x).storage
      BY <3>2, <1>a, UpdateKeeps
    <3> QED  BY <2>1, <3>1, <3>3, <1>k
  <2> QED  BY <2>3, <2>4
<1>7. CASE Crash
  <2>1. ipc' = "start" /\ crashes' # 0 /\ UNCHANGED accounts
    BY <1>7, <1>a DEF Crash, durable
  <2>2. \A a : GetAccount(accounts, a)' = GetAccount(accounts, a)
    BY <2>1 DEF GetAccount, EmptyAccount, CreateAccount
  <2> QED  BY <2>1, <2>2 DEF BareInv
<1>8. CASE AwaitBlock \/ UNCHANGED vars
  <2>1. UNCHANGED <<chain, accounts, ipc, pos, crashes>>
    BY <1>8 DEF AwaitBlock, vars, durable, indexer, history
  <2>2. \A a : GetAccount(accounts, a)' = GetAccount(accounts, a)
    BY <2>1 DEF GetAccount, EmptyAccount, CreateAccount
  <2>3. Target' = Target /\ tx' = tx
    BY <2>1 DEF Target, sender, tx
  <2> QED  BY <2>1, <2>2, <2>3 DEF BareInv
<1> QED
  BY <1>1, <1>2, <1>3, <1>4, <1>5, <1>6, <1>7, <1>8 DEF Next, Indexer

\* No entries, no order of them.
NoEntries == [i \in 1..0 |-> 0]

LEMMA NoOrder == SetToSeqs({}) = {NoEntries}
<1>1. Cardinality({}) = Cardinality({})
  BY DEF Cardinality, Cardinality
<1>2. Cardinality({}) = 0
  BY <1>1, FS_EmptySet
<1>3. NoEntries \in [1..0 -> {}]
  BY DEF NoEntries
<1>4. \A f \in [1..0 -> {}] : f = NoEntries
  BY DEF NoEntries
<1>5. SetToSeqs({})
        = {f \in [1..0 -> {}] : \A i, j \in 1..0 : i # j => f[i] # f[j]}
  BY <1>2 DEF SetToSeqs
<1> QED  BY <1>3, <1>4, <1>5

LEMMA OneRoot ==
  ASSUME NEW db, \A a \in DOMAIN db : db[a].storage = {}
  PROVE  Cardinality(Roots(db)) = 1
<1> DEFINE orders(a)  == SetToSeqs(db[a].storage)
           picks      == {pick \in [DOMAIN db -> UNION {orders(a) : a \in DOMAIN db}] :
                            \A a \in DOMAIN db : pick[a] \in orders(a)}
           root(pick) == StateRoot([a \in DOMAIN db |->
                           AccountToValue(db[a], pick[a])])
           only       == [a \in DOMAIN db |-> NoEntries]
<1>1. \A a \in DOMAIN db : orders(a) = {NoEntries}
  BY NoOrder
<1>2. Roots(db) = {root(pick) : pick \in picks}
  BY DEF Roots, StateRoots
<1> HIDE DEF orders
<1>3. picks = {only}
  <2>1. only \in picks
    BY <1>1
  <2>2. ASSUME NEW pick \in picks PROVE pick = only
    BY <1>1, <2>2
  <2> QED  BY <2>1, <2>2
<1> HIDE DEF picks, root, only
<1>4. Roots(db) = {root(only)}
  BY <1>2, <1>3
<1> QED  BY <1>4, FS_Singleton

(***************************************************************************)
(* Outside a contract creation and without a crash there is one state root *)
(* for the accounts at hand, in whatever order Go walks its maps.          *)
(***************************************************************************)
THEOREM RootUniqueCorrect == Spec => []RootUnique
<1>1. Init => BareInv
  <2> SUFFICES ASSUME Init PROVE BareInv
    OBVIOUS
  <2>1. \A a : GetAccount(accounts, a) = CreateAccount(0) /\ ipc = "start"
    BY DEF Init, GetAccount, EmptyAccount
  <2> QED  BY <2>1, CreateTyped DEF BareInv
<1>2. AccountsInv /\ BareInv => RootUnique
  <2> SUFFICES ASSUME AccountsInv, BareInv, crashes = 0, ipc # "slots"
               PROVE  Cardinality(Roots(accounts)) = 1
    BY DEF RootUnique
  <2>1. \A a \in DOMAIN accounts : accounts[a].storage = {}
    BY DEF AccountsInv, Typed, BareInv, GetAccount
  <2> QED  BY <2>1, OneRoot
<1> QED  BY <1>1, <1>2, BareStep, ControlCorrect, AccountsCorrect, PTL DEF Spec

=============================================================================
