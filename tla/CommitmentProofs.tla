-------------------------- MODULE CommitmentProofs --------------------------
(***************************************************************************)
(* What a batch commits to binds what it is computed from, for every list  *)
(* of transactions, number of accounts, length of addresses and radix.     *)
(*                                                                         *)
(*   Merkle root   the rounds of pairing are the tree with the largest     *)
(*                 power of two on the left, and no two lists share a root *)
(*   RLP           the encodings are codes: no word continues another, so  *)
(*                 what follows one is known                               *)
(*   accounts      the value of an account tells its fields and its slots  *)
(*   state root    a node binds the accounts below it, from the leaves up  *)
(*   RootBinds     of the accounts as the indexer can have them            *)
(*                                                                         *)
(* A digest is the record of what was hashed (MerkleTree, StateTree): all  *)
(* of this is said of a hash without collisions.                           *)
(***************************************************************************)
EXTENDS AccountStateProofs

(***************************************************************************)
(* Complete induction over the naturals, and lists as functions.           *)
(***************************************************************************)
LEMMA CompleteInduction ==
  ASSUME NEW S, \A n \in Nat : (\A m \in 0..(n - 1) : m \in S) => n \in S
  PROVE  \A n \in Nat : n \in S
<1> SUFFICES ASSUME NEW n \in Nat, n \notin S PROVE FALSE
  OBVIOUS
<1>1. PICK x \in Nat \ S : \A y \in Nat \ S : x <= y
  BY LeastElement
<1>2. \A m \in 0..(x - 1) : m \in S
  BY <1>1
<1> QED  BY <1>1, <1>2

(***************************************************************************)
(* A function on the naturals whose value at n follows from its value at a *)
(* smaller number, except on the set B, exists.  Its approximations up to  *)
(* k exist for every k and agree where they overlap.                       *)
(***************************************************************************)
Descends(B, V, base, down, step) ==
  /\ B \subseteq Nat /\ base \in V
  /\ down \in [Nat -> Nat] /\ \A n \in Nat \ B : down[n] < n
  /\ step \in [Nat -> [V -> V]]

SolvedBy(f, B, V, base, down, step) ==
  /\ f \in [Nat -> V]
  /\ \A n \in B : f[n] = base
  /\ \A n \in Nat \ B : f[n] = step[n][f[down[n]]]

LEMMA Descent ==
  ASSUME NEW B, NEW V, NEW base, NEW down, NEW step,
         Descends(B, V, base, down, step)
  PROVE  \E f : SolvedBy(f, B, V, base, down, step)
<1> USE DEF Descends
<1> DEFINE Upto(f, k) == /\ f \in [0..k -> V]
                         /\ \A n \in 0..k :
                              f[n] = IF n \in B THEN base ELSE step[n][f[down[n]]]
           S == {k \in Nat : \E f : Upto(f, k)}
<1>0. ASSUME NEW n \in Nat, NEW k \in Nat, n \notin B, n <= k
      PROVE  down[n] \in 0..k /\ down[n] \in 0..(n - 1)
  BY <1>0
<1>1. ASSUME NEW n \in Nat, \A m \in 0..(n - 1) : m \in S
      PROVE  n \in S
  <2>1. PICK f : n = 0 \/ Upto(f, n - 1)
    <3>1. n = 0 \/ n - 1 \in 0..(n - 1)
      OBVIOUS
    <3>2. n = 0 \/ n - 1 \in S
      <4> HIDE DEF S
      <4> QED  BY <1>1, <3>1
    <3> HIDE DEF Upto
    <3> QED  BY <3>2
  <2> DEFINE new == IF n \in B THEN base ELSE step[n][f[down[n]]]
             g == [m \in 0..n |-> IF m = n THEN new ELSE f[m]]
  <2>2. new \in V
    <3> SUFFICES ASSUME n \notin B PROVE step[n][f[down[n]]] \in V
      OBVIOUS
    <3>1. down[n] \in 0..(n - 1) /\ Upto(f, n - 1)
      BY <1>0, <2>1
    <3>2. f[down[n]] \in V
      BY <3>1
    <3> QED  BY <3>2
  <2>3. g \in [0..n -> V]
    <3> SUFFICES ASSUME NEW m \in 0..n PROVE g[m] \in V
      OBVIOUS
    <3>1. CASE m = n
      BY <3>1, <2>2
    <3>2. CASE m # n
      <4>1. m \in 0..(n - 1) /\ Upto(f, n - 1)
        BY <3>2, <2>1
      <4> QED  BY <3>2, <4>1
    <3> QED  BY <3>1, <3>2
  <2>4. ASSUME NEW m \in 0..n
        PROVE  g[m] = IF m \in B THEN base ELSE step[m][g[down[m]]]
    <3>1. m \notin B => down[m] \in 0..n /\ down[m] # n /\ g[down[m]] = f[down[m]]
      BY <1>0
    <3>2. CASE m = n
      BY <3>1, <3>2
    <3>3. CASE m # n
      <4>1. m \in 0..(n - 1) /\ Upto(f, n - 1)
        BY <3>3, <2>1
      <4>2. f[m] = IF m \in B THEN base ELSE step[m][f[down[m]]]
        BY <4>1
      <4> QED  BY <3>1, <3>3, <4>2
    <3> QED  BY <3>2, <3>3
  <2> HIDE DEF g
  <2>5. Upto(g, n)
    BY <2>3, <2>4
  <2> QED  BY <2>5
<1>2. \A k \in Nat : k \in S
  <2> HIDE DEF S
  <2> QED  BY <1>1, CompleteInduction
<1>3. ASSUME NEW j \in Nat, NEW k \in Nat, NEW f, NEW g, Upto(f, j), Upto(g, k)
      PROVE  \A n \in Nat : n <= j /\ n <= k => f[n] = g[n]
  <2> DEFINE T == {n \in Nat : n <= j /\ n <= k => f[n] = g[n]}
  <2>1. ASSUME NEW n \in Nat, \A m \in 0..(n - 1) : m \in T
        PROVE  n \in T
    <3> SUFFICES ASSUME n <= j, n <= k PROVE f[n] = g[n]
      OBVIOUS
    <3>1. n \notin B => f[down[n]] = g[down[n]]
      <4> SUFFICES ASSUME n \notin B PROVE f[down[n]] = g[down[n]]
        OBVIOUS
      <4> DEFINE m == down[n]
      <4>1. m \in 0..(n - 1)
        BY <1>0
      <4> HIDE DEF m
      <4>2. m \in T /\ m <= j /\ m <= k
        BY <4>1, <2>1
      <4> QED  BY <4>2 DEF m
    <3>2. /\ f[n] = IF n \in B THEN base ELSE step[n][f[down[n]]]
          /\ g[n] = IF n \in B THEN base ELSE step[n][g[down[n]]]
      BY <1>3, SMTT(30)
    <3> QED  BY <3>1, <3>2
  <2>2. \A n \in Nat : n \in T
    <3> HIDE DEF T
    <3> QED  BY <2>1, CompleteInduction
  <2> QED  BY <2>2
<1> DEFINE Approx(k) == CHOOSE f : Upto(f, k)
           whole == [k \in Nat |-> Approx(k)[k]]
<1>4. ASSUME NEW k \in Nat PROVE Upto(Approx(k), k)
  <2>1. \E f : Upto(f, k)
    BY <1>2
  <2> HIDE DEF Upto
  <2> QED  BY <2>1
<1> HIDE DEF Approx
<1>5. whole \in [Nat -> V]
  BY <1>4
<1>6. ASSUME NEW n \in Nat
      PROVE  whole[n] = IF n \in B THEN base ELSE step[n][whole[down[n]]]
  <2>1. Approx(n)[n] = IF n \in B THEN base ELSE step[n][Approx(n)[down[n]]]
    BY <1>4
  <2>2. n \notin B => Approx(n)[down[n]] = whole[down[n]]
    <3> SUFFICES ASSUME n \notin B PROVE Approx(n)[down[n]] = whole[down[n]]
      OBVIOUS
    <3> DEFINE m == down[n]
    <3>1. m \in Nat /\ m <= n
      BY <1>0
    <3> HIDE DEF m, Upto
    <3>2. Approx(n)[m] = Approx(m)[m]
      BY <3>1, <1>3, <1>4
    <3> QED  BY <3>1, <3>2 DEF m
  <2> QED  BY <2>1, <2>2
<1> HIDE DEF whole
<1> QED  BY <1>5, <1>6 DEF SolvedBy

LEMMA ListLen ==
  ASSUME NEW n \in Nat, NEW s, s = [i \in 1..n |-> s[i]]
  PROVE  s \in Seq({s[i] : i \in 1..n}) /\ Len(s) = n /\ DOMAIN s = 1..n
<1> DEFINE S == {s[i] : i \in 1..n}
<1>1. s \in [1..n -> S]
  OBVIOUS
<1>2. s \in Seq(S)
  BY <1>1
<1> HIDE DEF S
<1>3. Len(s) \in Nat /\ DOMAIN s = 1..Len(s)
  BY <1>2
<1>4. 1..Len(s) = 1..n
  BY <1>1, <1>3
<1>5. Len(s) = n
  BY <1>3, <1>4
<1> QED  BY <1>2, <1>3, <1>5 DEF S

----------------------------------------------------------------------------
(***************************************************************************)
(* How many hashes are left after each round.                              *)
(***************************************************************************)
LEMMA LeftStep ==
  ASSUME NEW n \in Nat
  PROVE  /\ Left(n)[0] = n
         /\ \A round \in 1..n : Left(n)[round] = (Left(n)[round - 1] + 1) \div 2
<1> DEFINE Body(f, i) == IF i = 0 THEN n ELSE (f[i - 1] + 1) \div 2
           S == {k \in Nat : \E f : f = [i \in 0..k |-> Body(f, i)]}
<1>1. 0 \in S
  <2> DEFINE f == [i \in 0..0 |-> n]
  <2>1. f = [i \in 0..0 |-> Body(f, i)]
    OBVIOUS
  <2> QED  BY <2>1
<1>2. ASSUME NEW k \in Nat, k \in S
      PROVE  k + 1 \in S
  <2>1. PICK f : f = [i \in 0..k |-> Body(f, i)]
    BY <1>2
  <2> DEFINE g == [i \in 0..(k + 1) |->
                     IF i = k + 1 THEN (f[k] + 1) \div 2 ELSE f[i]]
  <2>2. ASSUME NEW i \in 0..(k + 1)
        PROVE  g[i] = Body(g, i)
    <3>1. CASE i = k + 1
      BY <3>1
    <3>2. CASE i = 0
      BY <3>2, <2>1
    <3>3. CASE i \in 1..k
      <4>1. g[i] = f[i] /\ g[i - 1] = f[i - 1]
        BY <3>3
      <4>2. f[i] = Body(f, i)
        BY <3>3, <2>1
      <4> QED  BY <4>1, <4>2, <3>3
    <3> QED  BY <3>1, <3>2, <3>3
  <2>3. g = [i \in 0..(k + 1) |-> Body(g, i)]
    BY <2>2
  <2> HIDE DEF g
  <2> QED  BY <2>3
<1>3. n \in S
  <2> HIDE DEF S
  <2> QED  BY <1>1, <1>2, SetInduction
<1>4. PICK f : f = [i \in 0..n |-> Body(f, i)]
  BY <1>3
<1> DEFINE L == Left(n)
<1>5. L = [i \in 0..n |-> Body(L, i)]
  BY <1>4 DEF Left
<1> HIDE DEF L
<1>6. L[0] = n
  BY <1>5
<1>7. \A round \in 1..n : L[round] = (L[round - 1] + 1) \div 2
  BY <1>5
<1> QED  BY <1>6, <1>7 DEF L

\* Never none, and one after as many rounds as there are hashes.
LEMMA LeftFacts ==
  ASSUME NEW n \in Nat, n >= 1
  PROVE  /\ \A round \in 0..n : Left(n)[round] \in Nat /\ Left(n)[round] >= 1
         /\ Left(n)[n] = 1
<1> DEFINE S == {r \in Nat : r <= n => /\ Left(n)[r] \in Nat /\ Left(n)[r] >= 1
                                       /\ Left(n)[r] = 1 \/ Left(n)[r] <= n - r}
<1>1. 0 \in S
  BY LeftStep
<1>2. ASSUME NEW r \in Nat, r \in S
      PROVE  r + 1 \in S
  <2> SUFFICES ASSUME r + 1 <= n
               PROVE  /\ Left(n)[r + 1] \in Nat /\ Left(n)[r + 1] >= 1
                      /\ Left(n)[r + 1] = 1 \/ Left(n)[r + 1] <= n - (r + 1)
    OBVIOUS
  <2>1. /\ Left(n)[r] \in Nat /\ Left(n)[r] >= 1
        /\ Left(n)[r] = 1 \/ Left(n)[r] <= n - r
    BY <1>2
  <2>2. Left(n)[r + 1] = (Left(n)[r] + 1) \div 2
    <3>1. r + 1 \in 1..n /\ (r + 1) - 1 = r
      OBVIOUS
    <3> QED  BY <3>1, LeftStep
  <2> DEFINE x == Left(n)[r]
  <2>3. x \in Nat /\ x >= 1 /\ (x = 1 \/ x <= n - r)
    BY <2>1
  <2> HIDE DEF x
  <2>4. LET y == (x + 1) \div 2
        IN y \in Nat /\ y >= 1 /\ (y = 1 \/ y <= n - (r + 1))
    BY <2>3
  <2> QED  BY <2>2, <2>4 DEF x
<1>3. \A r \in Nat : r \in S
  <2> HIDE DEF S
  <2> QED  BY <1>1, <1>2, SetInduction
<1>4. ASSUME NEW r \in 0..n
      PROVE  /\ Left(n)[r] \in Nat /\ Left(n)[r] >= 1
             /\ Left(n)[r] = 1 \/ Left(n)[r] <= n - r
  BY <1>3
<1>5. n \in 0..n
  OBVIOUS
<1>6. Left(n)[n] = 1
  <2>1. /\ Left(n)[n] \in Nat /\ Left(n)[n] >= 1
        /\ Left(n)[n] = 1 \/ Left(n)[n] <= n - n
    BY <1>4, <1>5
  <2> QED  BY <2>1
<1> QED  BY <1>4, <1>6

\* The rounds themselves.
LEMMA RoundsStep ==
  ASSUME NEW hashes, Len(hashes) \in Nat
  PROVE  LET R    == Rounds(hashes)
             left == Left(Len(hashes))
         IN  /\ R[0] = [i \in 1..left[0] |-> hashes[i]]
             /\ \A round \in 1..Len(hashes) :
                  R[round] = [i \in 1..left[round] |->
                                Pair(R[round - 1], left[round - 1], i)]
<1> DEFINE n == Len(hashes)
           R == Rounds(hashes)
           left == Left(n)
           Body(f, r) == [i \in 1..left[r] |->
                            IF r = 0 THEN hashes[i]
                                     ELSE Pair(f[r - 1], left[r - 1], i)]
           S == {k \in Nat : \E f : f = [r \in 0..k |-> Body(f, r)]}
<1>0. ASSUME NEW f, NEW g, NEW r, r = 0 \/ f[r - 1] = g[r - 1]
      PROVE  Body(f, r) = Body(g, r)
  BY <1>0
<1>a. n \in Nat
  OBVIOUS
<1> HIDE DEF Body, n, R, left
<1>1. 0 \in S
  <2> DEFINE f == [r \in 0..0 |-> Body(<<>>, 0)]
  <2>1. f = [r \in 0..0 |-> Body(f, r)]
    BY <1>0
  <2> QED  BY <2>1
<1>2. ASSUME NEW k \in Nat, k \in S
      PROVE  k + 1 \in S
  <2>1. PICK f : f = [r \in 0..k |-> Body(f, r)]
    BY <1>2
  <2> DEFINE g == [r \in 0..(k + 1) |-> IF r = k + 1 THEN Body(f, k + 1) ELSE f[r]]
  <2>2. ASSUME NEW r \in 0..(k + 1)
        PROVE  g[r] = Body(g, r)
    <3>1. CASE r = k + 1
      <4>1. g[r] = Body(f, r) /\ g[r - 1] = f[r - 1]
        BY <3>1
      <4> QED  BY <4>1, <1>0
    <3>2. CASE r \in 0..k
      <4>1. g[r] = f[r] /\ (r = 0 \/ g[r - 1] = f[r - 1])
        BY <3>2
      <4>2. f[r] = Body(f, r)
        BY <3>2, <2>1
      <4>3. Body(f, r) = Body(g, r)
        BY <4>1, <1>0
      <4> QED  BY <4>1, <4>2, <4>3
    <3> QED  BY <3>1, <3>2
  <2>3. g = [r \in 0..(k + 1) |-> Body(g, r)]
    BY <2>2
  <2> HIDE DEF g
  <2> QED  BY <2>3
<1>3. n \in S
  <2> HIDE DEF S
  <2> QED  BY <1>a, <1>1, <1>2, SetInduction
<1>4. PICK f : f = [r \in 0..n |-> Body(f, r)]
  BY <1>3
<1>5. R = [r \in 0..n |-> Body(R, r)]
  <2>1. Rounds(hashes) = CHOOSE h : h = [r \in 0..n |-> Body(h, r)]
    BY DEF Rounds, Body, n, left
  <2> QED  BY <2>1, <1>4 DEF R
<1>6. \A r \in 0..n : R[r] = Body(R, r)
  BY <1>5
<1>7. R[0] = [i \in 1..left[0] |-> hashes[i]]
  BY <1>6, <1>a DEF Body
<1>8. ASSUME NEW r \in 1..n
      PROVE  R[r] = [i \in 1..left[r] |-> Pair(R[r - 1], left[r - 1], i)]
  BY <1>6, <1>a DEF Body
<1> QED  BY <1>7, <1>8 DEF n, R, left

----------------------------------------------------------------------------
(***************************************************************************)
(* The reference tree: where a list of hashes is split.                    *)
(***************************************************************************)
LEMMA SplitStep ==
  \A n \in Nat : SplitPoint[n] = IF n <= 2 THEN 1 ELSE 2 * SplitPoint[(n + 1) \div 2]
<1> DEFINE B    == {n \in Nat : n <= 2}
           down == [n \in Nat |-> (n + 1) \div 2]
           step == [n \in Nat |-> [x \in Nat |-> 2 * x]]
<1>1. Descends(B, Nat, 1, down, step)
  BY DEF Descends
<1>2. PICK f : SolvedBy(f, B, Nat, 1, down, step)
  <2> HIDE DEF B, down, step
  <2> QED  BY <1>1, Descent
<1>3. ASSUME NEW n \in Nat
      PROVE  f[n] = IF n <= 2 THEN 1 ELSE 2 * f[(n + 1) \div 2]
  <2>1. down[n] = (n + 1) \div 2 /\ f[(n + 1) \div 2] \in Nat
    BY <1>2 DEF SolvedBy
  <2> QED  BY <1>2, <2>1 DEF SolvedBy
<1>4. f = [n \in Nat |-> IF n <= 2 THEN 1 ELSE 2 * f[(n + 1) \div 2]]
  <2>1. f = [n \in Nat |-> f[n]]
    BY <1>2 DEF SolvedBy
  <2> QED  BY <1>3, <2>1
<1>5. SplitPoint = [n \in Nat |-> IF n <= 2 THEN 1
                                          ELSE 2 * SplitPoint[(n + 1) \div 2]]
  BY <1>4 DEF SplitPoint
<1> QED  BY <1>5

LEMMA SplitFacts ==
  /\ \A n \in Nat : SplitPoint[n] \in Nat /\ SplitPoint[n] >= 1
  /\ \A n \in Nat : n >= 2 => SplitPoint[n] < n
<1> DEFINE Good(n) == /\ SplitPoint[n] \in Nat /\ SplitPoint[n] >= 1
                      /\ n >= 2 => SplitPoint[n] < n
           S == {n \in Nat : Good(n)}
<1>1. ASSUME NEW n \in Nat, \A m \in 0..(n - 1) : m \in S
      PROVE  n \in S
  <2>1. CASE n <= 2
    BY <2>1, SplitStep
  <2>2. CASE n > 2
    <3> DEFINE m == (n + 1) \div 2
    <3>1. m \in 0..(n - 1) /\ m >= 2 /\ 2 * m <= n + 1
      BY <2>2
    <3>2. SplitPoint[n] = 2 * SplitPoint[m]
      BY <2>2, SplitStep
    <3> HIDE DEF m
    <3>3. SplitPoint[m] \in Nat /\ SplitPoint[m] >= 1 /\ SplitPoint[m] < m
      BY <1>1, <3>1
    <3>4. SplitPoint[n] \in Nat /\ SplitPoint[n] >= 1 /\ SplitPoint[n] < n
      BY <3>1, <3>2, <3>3
    <3> QED  BY <3>4
  <2> QED  BY <2>1, <2>2
<1>2. \A n \in Nat : n \in S
  <2> HIDE DEF S
  <2> QED  BY <1>1, CompleteInduction
<1> QED  BY <1>2


(***************************************************************************)
(* The subtrees of a list: a single hash is its own, and a longer segment  *)
(* is split.                                                               *)
(***************************************************************************)
LEMMA SubtreesStep ==
  ASSUME NEW hashes, Len(hashes) \in Nat
  PROVE  LET T == Subtrees(hashes)
         IN  /\ \A from \in 1..Len(hashes) : T[1][from] = hashes[from]
             /\ \A n \in 2..Len(hashes) : \A from \in 1..(Len(hashes) + 1 - n) :
                  T[n][from] = NodeHash(T[SplitPoint[n]][from],
                                        T[n - SplitPoint[n]][from + SplitPoint[n]])
<1> DEFINE N == Len(hashes)
           T == Subtrees(hashes)
           Body(f, n) ==
             [from \in 1..(N + 1 - n) |->
                IF n = 1 THEN hashes[from]
                ELSE NodeHash(f[SplitPoint[n]][from],
                              f[n - SplitPoint[n]][from + SplitPoint[n]])]
           S == {k \in Nat : \E f : f = [n \in 1..k |-> Body(f, n)]}
<1>a. N \in Nat
  OBVIOUS
<1>0. ASSUME NEW f, NEW g, NEW n,
             n = 1 \/ (f[SplitPoint[n]] = g[SplitPoint[n]]
                       /\ f[n - SplitPoint[n]] = g[n - SplitPoint[n]])
      PROVE  Body(f, n) = Body(g, n)
  BY <1>0
<1>b. \A n \in Nat : n >= 2 => /\ SplitPoint[n] \in 1..(n - 1)
                               /\ n - SplitPoint[n] \in 1..(n - 1)
  BY SplitFacts
<1> HIDE DEF Body, N, T
<1>1. 0 \in S
  <2> DEFINE f == [n \in 1..0 |-> Body(<<>>, n)]
  <2>1. f = [n \in 1..0 |-> Body(f, n)]
    OBVIOUS
  <2> QED  BY <2>1
<1>2. ASSUME NEW k \in Nat, k \in S
      PROVE  k + 1 \in S
  <2>1. PICK f : f = [n \in 1..k |-> Body(f, n)]
    BY <1>2
  <2> DEFINE g == [n \in 1..(k + 1) |-> IF n = k + 1 THEN Body(f, k + 1) ELSE f[n]]
  <2>0. \A n \in 1..k : g[n] = f[n]
    OBVIOUS
  <2>2. ASSUME NEW n \in 1..(k + 1)
        PROVE  g[n] = Body(g, n)
    <3> DEFINE s == SplitPoint[n]
    <3>1. n = 1 \/ (s \in 1..k /\ n - s \in 1..k)
      BY <1>b
    <3>2. n = 1 \/ (f[s] = g[s] /\ f[n - s] = g[n - s])
      BY <3>1, <2>0
    <3>3. Body(f, n) = Body(g, n)
      BY <3>2, <1>0
    <3>4. g[n] = Body(f, n)
      <4>1. CASE n = k + 1
        BY <4>1
      <4>2. CASE n \in 1..k
        BY <4>2, <2>1
      <4> QED  BY <4>1, <4>2
    <3> QED  BY <3>3, <3>4
  <2>3. g = [n \in 1..(k + 1) |-> Body(g, n)]
    BY <2>2
  <2> HIDE DEF g
  <2> QED  BY <2>3
<1>3. N \in S
  <2> HIDE DEF S
  <2> QED  BY <1>a, <1>1, <1>2, SetInduction
<1>4. PICK f : f = [n \in 1..N |-> Body(f, n)]
  BY <1>3
<1>5. T = [n \in 1..N |-> Body(T, n)]
  <2>1. Subtrees(hashes) = CHOOSE h : h = [n \in 1..N |-> Body(h, n)]
    BY DEF Subtrees, Body, N
  <2> QED  BY <2>1, <1>4 DEF T
<1>6. \A n \in 1..N : T[n] = Body(T, n)
  BY <1>5
<1>7. ASSUME NEW from \in 1..N PROVE T[1][from] = hashes[from]
  <2>1. T[1] = Body(T, 1) /\ from \in 1..(N + 1 - 1)
    BY <1>6, <1>a
  <2> QED  BY <2>1 DEF Body
<1>8. ASSUME NEW n \in 2..N, NEW from \in 1..(N + 1 - n)
      PROVE  T[n][from] = NodeHash(T[SplitPoint[n]][from],
                                   T[n - SplitPoint[n]][from + SplitPoint[n]])
  <2>1. T[n] = Body(T, n) /\ n # 1
    BY <1>6, <1>a
  <2> QED  BY <2>1 DEF Body
<1> QED  BY <1>7, <1>8 DEF N, T

(***************************************************************************)
(* A round of the loop leaves the tree of a list as it is: the subtree of  *)
(* a segment is that of the pairs it consists of.  The segment begins at   *)
(* the left of a pair and is made of whole pairs, or ends with the list.   *)
(***************************************************************************)
LEMMA HalvedTree ==
  ASSUME NEW hashes, NEW half, Len(hashes) \in Nat, Len(hashes) >= 1,
         Len(half) = (Len(hashes) + 1) \div 2,
         \A i \in 1..((Len(hashes) + 1) \div 2) :
           half[i] = Pair(hashes, Len(hashes), i)
  PROVE  Subtrees(half)[Len(half)][1] = Subtrees(hashes)[Len(hashes)][1]
<1> DEFINE N == Len(hashes)
           T == Subtrees(hashes)
           U == Subtrees(half)
           H == (N + 1) \div 2
           Fits(n, from) == /\ from % 2 = 1
                            /\ \/ n % 2 = 0 /\ from + n <= N + 1
                               \/ from + n = N + 1
           S == {n \in Nat : n \in 1..N =>
                   \A from \in 1..N : Fits(n, from) =>
                     T[n][from] = U[(n + 1) \div 2][(from + 1) \div 2]}
<1>1. /\ \A from \in 1..N : T[1][from] = hashes[from]
      /\ \A n \in 2..N : \A from \in 1..(N + 1 - n) :
           T[n][from] = NodeHash(T[SplitPoint[n]][from],
                                 T[n - SplitPoint[n]][from + SplitPoint[n]])
  BY SubtreesStep
<1>2. /\ \A from \in 1..H : U[1][from] = half[from]
      /\ \A n \in 2..H : \A from \in 1..(H + 1 - n) :
           U[n][from] = NodeHash(U[SplitPoint[n]][from],
                                 U[n - SplitPoint[n]][from + SplitPoint[n]])
  <2>1. Len(half) \in Nat
    OBVIOUS
  <2> QED  BY <2>1, SubtreesStep
<1>a. /\ N \in Nat /\ N >= 1 /\ Len(half) = H
      /\ \A i \in 1..H : half[i] = Pair(hashes, N, i)
  OBVIOUS
<1> HIDE DEF N, T, U
<1>3. ASSUME NEW n \in Nat, \A m \in 0..(n - 1) : m \in S
      PROVE  n \in S
  <2> SUFFICES ASSUME n \in 1..N, NEW from \in 1..N, Fits(n, from)
               PROVE  T[n][from] = U[(n + 1) \div 2][(from + 1) \div 2]
    OBVIOUS
  <2> DEFINE at == (from + 1) \div 2
  <2>0. /\ at \in 1..H /\ from = 2 * at - 1 /\ from \in 1..(N + 1 - n)
        /\ H \in Nat /\ N \in Nat
    BY <1>a
  <2>z. half[at] = Pair(hashes, N, at)
    BY <2>0, <1>a
  <2>1. CASE n = 1
    <3>1. from = N /\ ~(2 * at <= N)
      BY <2>0, <2>1
    <3>3. (n + 1) \div 2 = 1
      BY <2>1
    <3> HIDE DEF at, H
    <3>2. half[at] = hashes[from]
      BY <2>0, <2>z, <3>1 DEF Pair
    <3> QED  BY <2>0, <2>1, <3>2, <3>3, <1>1, <1>2 DEF at
  <2>2. CASE n = 2
    <3>1. 2 * at <= N /\ from + 1 \in 1..N /\ 2 * at = from + 1
          /\ 2 \in 2..N /\ from \in 1..(N + 1 - 2)
      BY <2>0, <2>2
    <3>2. half[at] = NodeHash(hashes[from], hashes[from + 1])
      BY <2>0, <2>z, <3>1 DEF Pair
    <3>3. SplitPoint[2] = 1 /\ 2 - 1 = 1 /\ (n + 1) \div 2 = 1
      BY <2>2, SplitStep
    <3>4. T[2][from] = NodeHash(T[1][from], T[1][from + 1])
      <4>1. T[2][from] = NodeHash(T[SplitPoint[2]][from],
                                  T[2 - SplitPoint[2]][from + SplitPoint[2]])
        BY <3>1, <1>1
      <4> QED  BY <4>1, <3>3
    <3>5. T[2][from] = half[at] /\ U[1][at] = half[at]
      BY <2>0, <3>1, <3>2, <3>4, <1>1, <1>2
    <3> QED  BY <2>2, <3>3, <3>5
  <2>3. CASE n > 2
    <3> DEFINE m == (n + 1) \div 2
               s == SplitPoint[n]
               t == SplitPoint[m]
    <3>1. m \in 2..H /\ m \in 0..(n - 1) /\ at \in 1..(H + 1 - m) /\ n \in 2..N
          /\ (n = 2 * m \/ n = 2 * m - 1)
      BY <2>0, <2>3
    <3>2. s = 2 * t
      BY <2>3, SplitStep
    <3>3. t \in Nat /\ t >= 1 /\ t < m
      BY <3>1, SplitFacts
    <3> HIDE DEF m, s, t, at
    <3>4. U[m][at] = NodeHash(U[t][at], U[m - t][at + t])
      BY <3>1, <1>2 DEF t
    <3>5. T[n][from] = NodeHash(T[s][from], T[n - s][from + s])
      BY <3>1, <2>0, <1>1 DEF s
    <3>6. T[s][from] = U[t][at]
      <4>1. s \in 0..(n - 1) /\ s \in 1..N /\ Fits(s, from) /\ (s + 1) \div 2 = t
        BY <3>1, <3>2, <3>3, <2>0
      <4>2. s \in S
        BY <4>1, <1>3
      <4>3. T[s][from] = U[(s + 1) \div 2][(from + 1) \div 2]
        BY <4>1, <4>2
      <4> QED  BY <4>1, <4>3 DEF at
    <3>7. T[n - s][from + s] = U[m - t][at + t]
      <4> DEFINE k == n - s
                 f == from + s
      <4>1. /\ k \in 0..(n - 1) /\ k \in 1..N /\ f \in 1..N
            /\ (k + 1) \div 2 = m - t /\ (f + 1) \div 2 = at + t
        BY <3>1, <3>2, <3>3, <2>0
      <4>2. Fits(k, f)
        BY <3>1, <3>2, <3>3, <2>0
      <4>3. k \in S
        BY <4>1, <1>3
      <4> HIDE DEF k, f
      <4>4. T[k][f] = U[(k + 1) \div 2][(f + 1) \div 2]
        BY <4>1, <4>2, <4>3
      <4> QED  BY <4>1, <4>4 DEF k, f
    <3>8. T[n][from] = U[m][at]
      BY <3>4, <3>5, <3>6, <3>7
    <3> QED  BY <3>8 DEF m, at
  <2>4. n = 1 \/ n = 2 \/ n > 2
    OBVIOUS
  <2> QED  BY <2>1, <2>2, <2>3, <2>4
<1>4. \A n \in Nat : n \in S
  <2> HIDE DEF S
  <2> QED  BY <1>3, CompleteInduction
<1>5. ASSUME NEW n \in 1..N, NEW from \in 1..N, Fits(n, from)
      PROVE  T[n][from] = U[(n + 1) \div 2][(from + 1) \div 2]
  <2>1. n \in S
    BY <1>4, <1>a
  <2> HIDE DEF Fits
  <2> QED  BY <2>1, <1>5
<1>6. /\ N \in 1..N /\ 1 \in 1..N /\ Fits(N, 1) /\ (1 + 1) \div 2 = 1
  BY <1>a
<1>7. T[N][1] = U[H][1]
  <2> HIDE DEF Fits
  <2> QED  BY <1>5, <1>6
<1> QED  BY <1>7, <1>a DEF N, T, U


(***************************************************************************)
(* computeMerkleRoot returns the root of the reference tree, for every     *)
(* list of transactions.                                                   *)
(***************************************************************************)
LEMMA LeavesFacts ==
  ASSUME NEW txs, Len(txs) \in Nat
  PROVE  /\ Len(Leaves(txs)) = Len(txs)
         /\ \A i \in 1..Len(txs) : Leaves(txs)[i] = LeafHash(txs[i])
<1> DEFINE n == Len(txs)
           s == Leaves(txs)
<1>1. s = [i \in 1..n |-> LeafHash(txs[i])] /\ n \in Nat
  BY DEF Leaves
<1> HIDE DEF n, s
<1>2. s = [i \in 1..n |-> s[i]]
  BY <1>1
<1>3. Len(s) = n
  BY <1>1, <1>2, ListLen
<1>4. \A i \in 1..n : s[i] = LeafHash(txs[i])
  BY <1>1
<1> QED  BY <1>3, <1>4 DEF n, s

THEOREM MerkleRootIsTree ==
  ASSUME NEW txs, Len(txs) \in Nat, Len(txs) >= 1, txs # <<>>
  PROVE  MerkleRoot(txs) = TreeOf(txs)
<1> DEFINE n == Len(txs)
           hashes == Leaves(txs)
           R == Rounds(hashes)
           left == Left(n)
           root(r) == Subtrees(R[r])[Len(R[r])][1]
<1>1. n \in Nat /\ n >= 1 /\ Len(hashes) = n
  BY LeavesFacts
<1>2. /\ R[0] = [i \in 1..left[0] |-> hashes[i]]
      /\ \A r \in 1..n : R[r] = [i \in 1..left[r] |-> Pair(R[r - 1], left[r - 1], i)]
  <2> DEFINE N == Len(hashes)
  <2>1. N \in Nat
    BY <1>1
  <2>2. /\ R[0] = [i \in 1..Left(N)[0] |-> hashes[i]]
        /\ \A r \in 1..N : R[r] = [i \in 1..Left(N)[r] |->
                                   Pair(R[r - 1], Left(N)[r - 1], i)]
    <3> HIDE DEF hashes
    <3> QED  BY <2>1, RoundsStep
  <2>3. N = n
    BY <1>1
  <2> HIDE DEF N, R, n, hashes
  <2> QED  BY <2>2, <2>3
<1>3. \A r \in 0..n : left[r] \in Nat /\ left[r] >= 1
  BY <1>1, LeftFacts
<1>4. left[n] = 1 /\ left[0] = n
  BY <1>1, LeftFacts, LeftStep
<1>5. \A r \in 1..n : left[r] = (left[r - 1] + 1) \div 2
  BY <1>1, LeftStep
<1>6. MerkleRoot(txs) = R[n][1] /\ TreeOf(txs) = Subtrees(hashes)[n][1]
  BY DEF MerkleRoot, TreeOf
<1>7. hashes = [i \in 1..n |-> hashes[i]]
  BY DEF Leaves
<1> HIDE DEF n, hashes, R, left
<1>8. ASSUME NEW r \in 0..n
      PROVE  Len(R[r]) = left[r]
  <2>1. R[r] = [i \in 1..left[r] |-> R[r][i]]
    <3>1. CASE r = 0
      BY <3>1, <1>2
    <3>2. CASE r \in 1..n
      BY <3>2, <1>2
    <3> QED  BY <1>1, <3>1, <3>2
  <2> QED  BY <2>1, <1>3, ListLen
<1>9. R[0] = hashes
  BY <1>2, <1>4, <1>7
<1> DEFINE S == {r \in Nat : r <= n => root(r) = root(0)}
<1>10. ASSUME NEW r \in Nat, r \in S
       PROVE  r + 1 \in S
  <2> SUFFICES ASSUME r + 1 <= n PROVE root(r + 1) = root(r)
    BY <1>1, <1>10
  <2> DEFINE old == R[r]
             new == R[r + 1]
             half == (left[r] + 1) \div 2
  <2>1. /\ r \in 0..n /\ r + 1 \in 1..n /\ r + 1 \in 0..n /\ (r + 1) - 1 = r
    BY <1>1
  <2>2. Len(old) = left[r] /\ Len(new) = left[r + 1] /\ left[r + 1] = half
    BY <2>1, <1>5, <1>8
  <2>3. left[r] \in Nat /\ left[r] >= 1
    BY <2>1, <1>3
  <2>4. new = [i \in 1..half |-> Pair(old, left[r], i)]
    <3>1. R[r + 1] = [i \in 1..left[r + 1] |-> Pair(R[(r + 1) - 1], left[(r + 1) - 1], i)]
      BY <2>1, <1>2
    <3> QED  BY <2>1, <2>2, <3>1
  <2> HIDE DEF old, new
  <2>5. /\ Len(old) \in Nat /\ Len(old) >= 1 /\ Len(new) = (Len(old) + 1) \div 2
        /\ \A i \in 1..((Len(old) + 1) \div 2) : new[i] = Pair(old, Len(old), i)
    BY <2>2, <2>3, <2>4
  <2>6. Subtrees(new)[Len(new)][1] = Subtrees(old)[Len(old)][1]
    BY <2>5, HalvedTree
  <2> QED  BY <2>6 DEF old, new
<1>11. n \in S
  <2>1. 0 \in S
    OBVIOUS
  <2> HIDE DEF S
  <2> QED  BY <1>1, <1>10, <2>1, SetInduction
<1>12. root(n) = root(0)
  BY <1>1, <1>11
<1>13. root(0) = Subtrees(hashes)[n][1]
  BY <1>1, <1>9
<1>14. root(n) = R[n][1]
  <2>1. n \in 0..n
    BY <1>1
  <2>2. Len(R[n]) = 1
    BY <2>1, <1>4, <1>8
  <2>3. Subtrees(R[n])[1][1] = R[n][1]
    BY <2>2, SubtreesStep
  <2> QED  BY <2>2, <2>3
<1> QED  BY <1>6, <1>12, <1>13, <1>14


(***************************************************************************)
(* And the root determines the list: the tree of one hash is a leaf, and   *)
(* two nodes are equal only when the two lists below them, which are split *)
(* at a point that depends on their length alone, are equal.               *)
(***************************************************************************)
LEMMA HashFacts ==
  /\ \A x, y : LeafHash(x) = LeafHash(y) => x = y
  /\ \A x : LeafHash(x) # EmptyRoot
  /\ \A x, y : NodeHash(x, y) # EmptyRoot
  /\ \A x, y, z : LeafHash(x) # NodeHash(y, z)
  /\ \A x, y, z, w : NodeHash(x, y) = NodeHash(z, w) => x = z /\ y = w
<1>1. ASSUME NEW x, NEW y, LeafHash(x) = LeafHash(y) PROVE x = y
  BY <1>1 DEF LeafHash
<1>2. ASSUME NEW x PROVE LeafHash(x) # EmptyRoot
  <2>1. DOMAIN LeafHash(x) # DOMAIN EmptyRoot
    BY DEF LeafHash, EmptyRoot
  <2> QED  BY <2>1
<1>3. ASSUME NEW x, NEW y PROVE NodeHash(x, y) # EmptyRoot
  <2>1. DOMAIN NodeHash(x, y) # DOMAIN EmptyRoot
    BY DEF NodeHash, EmptyRoot
  <2> QED  BY <2>1
<1>4. ASSUME NEW x, NEW y, NEW z PROVE LeafHash(x) # NodeHash(y, z)
  <2>1. DOMAIN LeafHash(x) # DOMAIN NodeHash(y, z)
    BY DEF LeafHash, NodeHash
  <2> QED  BY <2>1
<1>5. ASSUME NEW x, NEW y, NEW z, NEW w, NodeHash(x, y) = NodeHash(z, w)
      PROVE  x = z /\ y = w
  BY <1>5 DEF NodeHash
<1> QED  BY <1>1, <1>2, <1>3, <1>4, <1>5

LEMMA TreeBinds ==
  ASSUME NEW s, NEW t, Len(s) \in Nat, Len(s) >= 1, Len(t) \in Nat, Len(t) >= 1,
         TreeOf(s) = TreeOf(t)
  PROVE  Len(s) = Len(t) /\ \A i \in 1..Len(s) : s[i] = t[i]
<1> DEFINE N == Len(s)
           M == Len(t)
           A == Subtrees(Leaves(s))
           B == Subtrees(Leaves(t))
           Binds(n) == \A m \in 1..M :
                         \A f \in 1..(N + 1 - n), g \in 1..(M + 1 - m) :
                           A[n][f] = B[m][g]
                             => n = m /\ \A i \in 0..(n - 1) : s[f + i] = t[g + i]
           S == {n \in Nat : n \in 1..N => Binds(n)}
<1>0. A[N][1] = B[M][1] /\ N >= 1 /\ M >= 1
  BY DEF TreeOf
<1>1. /\ N \in Nat
      /\ \A f \in 1..N : A[1][f] = LeafHash(s[f])
      /\ \A n \in 2..N : \A f \in 1..(N + 1 - n) :
           A[n][f] = NodeHash(A[SplitPoint[n]][f],
                              A[n - SplitPoint[n]][f + SplitPoint[n]])
  BY LeavesFacts, SubtreesStep
<1>2. /\ M \in Nat
      /\ \A g \in 1..M : B[1][g] = LeafHash(t[g])
      /\ \A m \in 2..M : \A g \in 1..(M + 1 - m) :
           B[m][g] = NodeHash(B[SplitPoint[m]][g],
                              B[m - SplitPoint[m]][g + SplitPoint[m]])
  BY LeavesFacts, SubtreesStep
<1> HIDE DEF N, M, A, B
<1>3. ASSUME NEW n \in Nat, \A k \in 0..(n - 1) : k \in S
      PROVE  n \in S
  <2> SUFFICES ASSUME n \in 1..N, NEW m \in 1..M,
                      NEW f \in 1..(N + 1 - n), NEW g \in 1..(M + 1 - m),
                      A[n][f] = B[m][g]
               PROVE  n = m /\ \A i \in 0..(n - 1) : s[f + i] = t[g + i]
    OBVIOUS
  <2>1. CASE n = 1
    <3>1. f \in 1..N /\ A[1][f] = LeafHash(s[f])
      BY <2>1, <1>1
    <3>2. m = 1
      <4> SUFFICES ASSUME m \in 2..M PROVE FALSE
        BY <1>2
      <4>1. B[m][g] = NodeHash(B[SplitPoint[m]][g],
                               B[m - SplitPoint[m]][g + SplitPoint[m]])
        BY <1>2
      <4> QED  BY <2>1, <3>1, <4>1, HashFacts
    <3>3. g \in 1..M /\ B[1][g] = LeafHash(t[g])
      BY <3>2, <1>2
    <3>4. s[f] = t[g]
      BY <2>1, <3>1, <3>2, <3>3, HashFacts
    <3>5. \A i \in 0..(n - 1) : f + i = f /\ g + i = g
      BY <2>1, <1>1, <1>2
    <3> QED  BY <2>1, <3>2, <3>4, <3>5
  <2>2. CASE n \in 2..N
    <3> DEFINE k == SplitPoint[n]
               l == SplitPoint[m]
    <3>1. A[n][f] = NodeHash(A[k][f], A[n - k][f + k])
      BY <2>2, <1>1
    <3>2. m \in 2..M
      <4> SUFFICES ASSUME m = 1 PROVE FALSE
        BY <1>2
      <4>1. g \in 1..M /\ B[1][g] = LeafHash(t[g])
        BY <1>2
      <4> QED  BY <3>1, <4>1, HashFacts
    <3>3. B[m][g] = NodeHash(B[l][g], B[m - l][g + l])
      BY <3>2, <1>2
    <3>4. A[k][f] = B[l][g] /\ A[n - k][f + k] = B[m - l][g + l]
      <4>1. NodeHash(A[k][f], A[n - k][f + k]) = NodeHash(B[l][g], B[m - l][g + l])
        BY <3>1, <3>3
      <4> HIDE DEF k, l
      <4> QED  BY <4>1, HashFacts
    <3>5. k \in 1..(n - 1) /\ l \in 1..(m - 1)
      BY <2>2, <3>2, SplitFacts
    <3> HIDE DEF k, l
    <3>6. k = l /\ \A i \in 0..(k - 1) : s[f + i] = t[g + i]
      <4>1. /\ k \in 0..(n - 1) /\ k \in 1..N /\ l \in 1..M
            /\ f \in 1..(N + 1 - k) /\ g \in 1..(M + 1 - l)
        BY <3>5, <1>1, <1>2
      <4>2. k \in S
        BY <4>1, <1>3
      <4> QED  BY <3>4, <4>1, <4>2
    <3>7. n - k = m - l /\ \A i \in 0..(n - k - 1) : s[f + k + i] = t[g + l + i]
      <4> DEFINE nn == n - k
                 mm == m - l
                 ff == f + k
                 gg == g + l
      <4>1. /\ nn \in 0..(n - 1) /\ nn \in 1..N /\ mm \in 1..M
            /\ ff \in 1..(N + 1 - nn) /\ gg \in 1..(M + 1 - mm)
        BY <3>5, <1>1, <1>2
      <4>2. nn \in S /\ A[nn][ff] = B[mm][gg]
        BY <3>4, <4>1, <1>3
      <4> HIDE DEF nn, mm, ff, gg
      <4>3. nn = mm /\ \A i \in 0..(nn - 1) : s[ff + i] = t[gg + i]
        BY <4>1, <4>2
      <4> QED  BY <4>3 DEF nn, mm, ff, gg
    <3>8. n = m
      BY <3>5, <3>6, <3>7
    <3>9. ASSUME NEW i \in 0..(n - 1) PROVE s[f + i] = t[g + i]
      <4>1. CASE i < k
        BY <4>1, <3>5, <3>6
      <4>2. CASE ~(i < k)
        <5> DEFINE j == i - k
        <5>1. j \in 0..(n - k - 1) /\ f + k + j = f + i /\ g + l + j = g + i
          BY <4>2, <3>5, <3>6, <1>1, <1>2
        <5> HIDE DEF j
        <5>2. s[f + k + j] = t[g + l + j]
          BY <5>1, <3>7
        <5> QED  BY <5>1, <5>2
      <4> QED  BY <4>1, <4>2
    <3> QED  BY <3>8, <3>9
  <2>3. n = 1 \/ n \in 2..N
    BY <1>1
  <2> QED  BY <2>1, <2>2, <2>3
<1>4. \A n \in Nat : n \in S
  <2> HIDE DEF S
  <2> QED  BY <1>3, CompleteInduction
<1>5. ASSUME NEW n \in 1..N PROVE Binds(n)
  <2>1. n \in Nat
    BY <1>1
  <2>2. n \in S
    <3> HIDE DEF S
    <3> QED  BY <2>1, <1>4
  <2> HIDE DEF Binds
  <2> QED  BY <2>2
<1>6. N = M /\ \A i \in 0..(N - 1) : s[1 + i] = t[1 + i]
  <2>1. N \in 1..N /\ M \in 1..M /\ 1 \in 1..(N + 1 - N) /\ 1 \in 1..(M + 1 - M)
    BY <1>0, <1>1, <1>2
  <2> QED  BY <1>0, <1>5, <2>1
<1>7. ASSUME NEW i \in 1..N PROVE s[i] = t[i]
  <2>1. i - 1 \in 0..(N - 1) /\ 1 + (i - 1) = i
    BY <1>1
  <2> QED  BY <1>6, <2>1
<1> QED  BY <1>6, <1>7 DEF N, M

(***************************************************************************)
(* No two lists of transactions have the same Merkle root, of whatever     *)
(* length they are.                                                        *)
(***************************************************************************)
THEOREM MerkleRootInjective ==
  ASSUME NEW V, NEW s \in Seq(V), NEW t \in Seq(V), MerkleRoot(s) = MerkleRoot(t)
  PROVE  s = t
<1> DEFINE Tree(u) == Subtrees(Leaves(u))[Len(u)][1]
<1>1. ASSUME NEW u \in Seq(V), u # <<>>
      PROVE  Len(u) \in Nat /\ Len(u) >= 1 /\ MerkleRoot(u) = Tree(u)
  <2>1. Len(u) \in Nat /\ Len(u) >= 1
    BY <1>1
  <2> QED  BY <1>1, <2>1, MerkleRootIsTree DEF TreeOf
<1>2. ASSUME NEW u \in Seq(V), u # <<>>
      PROVE  MerkleRoot(u) # EmptyRoot
  <2>0. MerkleRoot(u) = Tree(u)
    BY <1>1, <1>2
  <2>1. Len(u) \in Nat /\ Len(u) >= 1
    BY <1>1, <1>2
  <2>2. CASE Len(u) = 1
    <3>1. Tree(u) = LeafHash(u[1])
      BY <2>2, LeavesFacts, SubtreesStep, SMTT(30)
    <3> QED  BY <2>0, <3>1, HashFacts
  <2>3. CASE Len(u) >= 2
    <3>1. Tree(u) = NodeHash(Subtrees(Leaves(u))[SplitPoint[Len(u)]][1],
                      Subtrees(Leaves(u))[Len(u) - SplitPoint[Len(u)]][1 + SplitPoint[Len(u)]])
      <4>1. Len(Leaves(u)) = Len(u) /\ Len(u) \in 2..Len(u) /\ 1 \in 1..(Len(u) + 1 - Len(u))
        BY <2>1, <2>3, LeavesFacts
      <4> QED  BY <4>1, SubtreesStep
    <3> QED  BY <2>0, <3>1, HashFacts
  <2>4. Len(u) = 1 \/ Len(u) >= 2
    <3> DEFINE n == Len(u)
    <3>1. n \in Nat /\ n >= 1
      BY <2>1
    <3> HIDE DEF n
    <3>2. n = 1 \/ n >= 2
      BY <3>1
    <3> QED  BY <3>2 DEF n
  <2> QED  BY <2>2, <2>3, <2>4
<1>3. MerkleRoot(<<>>) = EmptyRoot
  BY DEF MerkleRoot
<1>4. CASE s = <<>> \/ t = <<>>
  BY <1>2, <1>3, <1>4
<1>5. CASE s # <<>> /\ t # <<>>
  <2>1. /\ Len(s) \in Nat /\ Len(s) >= 1 /\ Len(t) \in Nat /\ Len(t) >= 1
        /\ TreeOf(s) = TreeOf(t)
    BY <1>1, <1>5 DEF TreeOf
  <2>2. Len(s) = Len(t) /\ \A i \in 1..Len(s) : s[i] = t[i]
    BY <2>1, TreeBinds
  <2> QED  BY <2>2, SeqEqual
<1> QED  BY <1>4, <1>5

(***************************************************************************)
(* The lists of n elements of a finite set are finitely many.              *)
(***************************************************************************)
LEMMA ListsFinite ==
  ASSUME NEW V, IsFiniteSet(V)
  PROVE  \A n \in Nat : IsFiniteSet([1..n -> V])
<1> DEFINE S == {n \in Nat : IsFiniteSet([1..n -> V])}
<1>1. 0 \in S
  <2> DEFINE none == [i \in 1..0 |-> 0]
  <2>1. none \in [1..0 -> V]
    OBVIOUS
  <2>2. \A f \in [1..0 -> V] : f = none
    OBVIOUS
  <2>3. [1..0 -> V] = {none}
    BY <2>1, <2>2
  <2> QED  BY <2>3, FS_Singleton
<1>2. ASSUME NEW n \in Nat, n \in S
      PROVE  n + 1 \in S
  <2> DEFINE A == [1..n -> V]
             B == [1..(n + 1) -> V]
             add == [p \in A \X V |-> [i \in 1..(n + 1) |->
                                         IF i = n + 1 THEN p[2] ELSE p[1][i]]]
  <2>1. IsFiniteSet(A \X V)
    BY <1>2, FS_Product
  <2>2. add \in [A \X V -> B]
    OBVIOUS
  <2>3. ASSUME NEW s \in B
        PROVE  \E p \in A \X V : add[p] = s
    <3> DEFINE front == [i \in 1..n |-> s[i]]
               p == <<front, s[n + 1]>>
    <3>1. front \in A /\ p \in A \X V
      OBVIOUS
    <3>2. p[1] = front /\ p[2] = s[n + 1]
      OBVIOUS
    <3>3. \A i \in 1..n : front[i] = s[i]
      OBVIOUS
    <3> HIDE DEF p, front
    <3>4. add[p] = [i \in 1..(n + 1) |-> IF i = n + 1 THEN p[2] ELSE p[1][i]]
      BY <3>1
    <3>5. \A i \in 1..(n + 1) : add[p][i] = s[i]
      BY <3>2, <3>3, <3>4
    <3>6. add[p] = s
      <4>1. add[p] = [i \in 1..(n + 1) |-> add[p][i]]
        BY <3>4
      <4>2. s = [i \in 1..(n + 1) |-> s[i]]
        OBVIOUS
      <4> QED  BY <4>1, <4>2, <3>5
    <3> QED  BY <3>1, <3>6
  <2> HIDE DEF A, B, add
  <2>4. add \in Surjection(A \X V, B)
    BY <2>2, <2>3 DEF Surjection
  <2>5. IsFiniteSet(B)
    BY <2>1, <2>4, FS_Surjection
  <2> QED  BY <2>5 DEF B
<1> HIDE DEF S
<1>3. \A n \in Nat : n \in S
  BY <1>1, <1>2, SetInduction
<1> QED  BY <1>3 DEF S

(***************************************************************************)
(* The Merkle root of a batch has the reference's shape and binds the list *)
(* of its transactions (MerkleRootBinds), whatever the chain and the sizes *)
(* of the batches.                                                         *)
(***************************************************************************)
THEOREM MerkleRootBindsCorrect == Spec => []MerkleRootBinds
<1>1. ASSUME NEW n \in BatchSizes
      PROVE  MerkleRoot(BatchOf(n)) = TreeOf(BatchOf(n))
  <2> DEFINE txs == BatchOf(n)
  <2>1. n \in Nat /\ n >= 1
    BY CommitmentAssumption
  <2>2. txs = [i \in 1..n |-> txs[i]]
    BY DEF BatchOf
  <2> HIDE DEF txs
  <2>3. Len(txs) = n
    BY <2>1, <2>2, ListLen
  <2>4. txs # <<>>
    BY <2>1, <2>3
  <2> QED  BY <2>1, <2>3, <2>4, MerkleRootIsTree DEF txs
<1>2. Cardinality({MerkleRoot(txs) : txs \in Lists}) = Cardinality(Lists)
  <2> DEFINE V == {chain[i] : i \in 1..MaxTx}
             roots == {MerkleRoot(txs) : txs \in Lists}
             root == [txs \in Lists |-> MerkleRoot(txs)]
  <2>1. IsFiniteSet(V)
    <3> DEFINE f == [i \in 1..MaxTx |-> chain[i]]
    <3>1. f \in Surjection(1..MaxTx, V)
      BY DEF Surjection
    <3>2. IsFiniteSet(1..MaxTx)
      BY BlockFacts, FS_Interval
    <3> HIDE DEF f, V
    <3> QED  BY <3>1, <3>2, FS_Surjection
  <2>2. IsFiniteSet(Lists)
    <3> DEFINE parts == {[1..n -> V] : n \in 0..5}
               part == [n \in 0..5 |-> [1..n -> V]]
    <3>1. part \in Surjection(0..5, parts)
      BY DEF Surjection
    <3>2. \A T \in parts : IsFiniteSet(T)
      <4> HIDE DEF V
      <4>1. \A n \in Nat : IsFiniteSet([1..n -> V])
        BY <2>1, ListsFinite
      <4>2. ASSUME NEW n \in 0..5 PROVE IsFiniteSet(part[n])
        <5>1. part[n] = [1..n -> V] /\ n \in Nat
          OBVIOUS
        <5> HIDE DEF part
        <5> QED  BY <5>1, <4>1
      <4>3. \A T \in parts : \E n \in 0..5 : T = part[n]
        OBVIOUS
      <4> HIDE DEF part, parts
      <4> QED  BY <4>2, <4>3
    <3>3. Lists = UNION parts
      BY DEF Lists
    <3>4. IsFiniteSet(0..5)
      <4>1. 0 \in Int /\ 5 \in Int
        OBVIOUS
      <4> QED  BY <4>1, FS_Interval
    <3> HIDE DEF parts, part
    <3>5. IsFiniteSet(parts)
      BY <3>1, <3>4, FS_Surjection
    <3> QED  BY <3>2, <3>3, <3>5, FS_UNION
  <2>3. Lists \subseteq Seq(V)
    <3> SUFFICES ASSUME NEW n \in 0..5, NEW txs \in [1..n -> V]
                 PROVE  txs \in Seq(V)
      BY DEF Lists
    <3> HIDE DEF V
    <3> QED  OBVIOUS
  <2> HIDE DEF V
  <2>4. \A s, t \in Lists : MerkleRoot(s) = MerkleRoot(t) => s = t
    BY <2>3, MerkleRootInjective
  <2>5. root \in Bijection(Lists, roots)
    <3>1. root \in [Lists -> roots] /\ \A t \in roots : \E txs \in Lists : root[txs] = t
      OBVIOUS
    <3>2. \A s, t \in Lists : root[s] = root[t] => s = t
      BY <2>4
    <3> HIDE DEF root, roots
    <3> QED  BY <3>1, <3>2 DEF Bijection, Injection, IsInjective, Surjection
  <2>6. ExistsBijection(Lists, roots)
    <3> HIDE DEF root, roots
    <3> QED  BY <2>5 DEF ExistsBijection
  <2> HIDE DEF roots
  <2>7. Cardinality(roots) = Cardinality(Lists)
    BY <2>2, <2>6, FS_Bijection
  <2> QED  BY <2>7 DEF roots
<1>3. MerkleRootBinds
  BY <1>1, <1>2 DEF MerkleRootBinds
<1> QED  BY <1>3, PTL

----------------------------------------------------------------------------
(***************************************************************************)
(* RLP.  Every encoding can be told from what follows it: it is a code, in *)
(* which no word continues another.                                        *)
(***************************************************************************)
Bytes == {Byte(n) : n \in Nat}

Alphabet(U) == Bytes \subseteq U

LEMMA ByteInjective ==
  ASSUME NEW m, NEW n, Byte(m) = Byte(n)
  PROVE  m = n
  BY DEF Byte

(***************************************************************************)
(* Concatenation by another name, which the provers do not look into.      *)
(***************************************************************************)
Cat(s, x) == s \o x

LEMMA CatIn ==
  ASSUME NEW U, NEW s \in Seq(U), NEW x \in Seq(U)
  PROVE  Cat(s, x) \in Seq(U)
  BY ConcatProperties DEF Cat

LEMMA CatAssociative ==
  ASSUME NEW U, NEW r \in Seq(U), NEW s \in Seq(U), NEW x \in Seq(U)
  PROVE  Cat(Cat(r, s), x) = Cat(r, Cat(s, x))
  BY ConcatAssociative DEF Cat

LEMMA CatSame ==
  ASSUME NEW U, NEW r \in Seq(U), NEW x \in Seq(U), NEW y \in Seq(U),
         Cat(r, x) = Cat(r, y)
  PROVE  x = y
  BY ConcatSimplifications, Zenon DEF Cat

\* Equal beginnings can be cancelled, when they are of the same length.
LEMMA Cancel ==
  ASSUME NEW U, NEW r \in Seq(U), NEW s \in Seq(U), NEW x \in Seq(U),
         NEW y \in Seq(U), Len(r) = Len(s), Cat(r, x) = Cat(s, y)
  PROVE  r = s /\ x = y
<1> DEFINE n == Len(r)
           w == Cat(r, x)
<1>1. n \in Nat /\ Len(s) = n
  BY LenProperties
<1>2. w = Cat(s, y)
  OBVIOUS
<1>3. ASSUME NEW i \in 1..n PROVE r[i] = s[i]
  <2>1. w[i] = r[i]
    BY <1>1, ConcatProperties, LenProperties DEF Cat
  <2>2. Cat(s, y)[i] = s[i]
    BY <1>1, ConcatProperties, LenProperties DEF Cat
  <2> QED  BY <1>2, <2>1, <2>2
<1>4. r = s
  BY <1>1, <1>3, SeqEqual
<1>5. Cat(r, x) = Cat(r, y)
  BY <1>4
<1> QED  BY <1>4, <1>5, CatSame

LEMMA FirstSymbol ==
  ASSUME NEW U, NEW s \in Seq(U), NEW x \in Seq(U), Len(s) >= 1
  PROVE  /\ Cat(s, x) \in Seq(U) /\ Len(Cat(s, x)) >= 1
         /\ Cat(s, x)[1] = s[1]
  BY ConcatProperties, LenProperties DEF Cat

LEMMA ByteAt ==
  ASSUME NEW o \in Nat, NEW l \in Nat
  PROVE  o + 55 + l = o + (55 + l) /\ Byte(o + 55 + l) \in Bytes
  BY DEF Bytes

LEMMA BigEndianStep ==
  /\ \A n \in Nat : BigEndian[n] \in Seq(Bytes)
  /\ BigEndian[0] = <<>>
  /\ \A n \in Nat : n # 0 => BigEndian[n] = Append(BigEndian[n \div 256], Byte(n % 256))
<1> DEFINE V    == Seq(Bytes)
           down == [n \in Nat |-> n \div 256]
           step == [n \in Nat |-> [s \in V |-> Append(s, Byte(n % 256))]]
<1>e. <<>> \in V
  OBVIOUS
<1>a. ASSUME NEW n \in Nat, NEW s \in V PROVE Append(s, Byte(n % 256)) \in V
  <2>1. Byte(n % 256) \in Bytes
    BY DEF Bytes
  <2> QED  BY <2>1
<1> HIDE DEF V
<1>1. Descends({0}, V, <<>>, down, step)
  <2>2. step \in [Nat -> [V -> V]]
    BY <1>a
  <2>3. down \in [Nat -> Nat] /\ \A n \in Nat \ {0} : down[n] < n
    OBVIOUS
  <2> HIDE DEF down, step
  <2> QED  BY <1>e, <2>2, <2>3 DEF Descends
<1>2. PICK f : SolvedBy(f, {0}, V, <<>>, down, step)
  <2> HIDE DEF down, step
  <2> QED  BY <1>1, Descent
<1>3. f \in [Nat -> V] /\ f[0] = <<>>
  BY <1>2 DEF SolvedBy
<1>4. ASSUME NEW n \in Nat, n # 0
      PROVE  f[n] = Append(f[n \div 256], Byte(n % 256))
  <2>1. f[n] = step[n][f[down[n]]] /\ down[n] = n \div 256
    BY <1>2, <1>4 DEF SolvedBy
  <2>2. f[n \div 256] \in V
    BY <1>3
  <2> QED  BY <2>1, <2>2
<1>5. f = [n \in Nat |-> IF n = 0 THEN <<>>
                         ELSE Append(f[n \div 256], Byte(n % 256))]
  <2>1. f = [n \in Nat |-> f[n]]
    BY <1>3
  <2>2. \A n \in Nat : f[n] = IF n = 0 THEN <<>>
                              ELSE Append(f[n \div 256], Byte(n % 256))
    BY <1>3, <1>4
  <2> QED  BY <2>1, <2>2
<1>6. BigEndian = [n \in Nat |-> IF n = 0 THEN <<>>
                                 ELSE Append(BigEndian[n \div 256], Byte(n % 256))]
  BY <1>5, ZenonT(30) DEF BigEndian
<1>7. \A n \in Nat : BigEndian[n] = IF n = 0 THEN <<>>
                                    ELSE Append(BigEndian[n \div 256], Byte(n % 256))
  BY <1>6
<1>8. ASSUME NEW n \in Nat PROVE BigEndian[n] \in V
  <2> DEFINE S == {k \in Nat : BigEndian[k] \in V}
  <2>1. ASSUME NEW k \in Nat, \A m \in 0..(k - 1) : m \in S
        PROVE  k \in S
    <3>1. CASE k = 0
      <4>1. BigEndian[k] \in V
        BY <3>1, <1>7, <1>e
      <4> QED  BY <4>1
    <3>2. CASE k # 0
      <4>1. k \div 256 \in 0..(k - 1)
        BY <3>2
      <4>2. k \div 256 \in S
        <5> HIDE DEF S
        <5> QED  BY <4>1, <2>1
      <4>3. BigEndian[k] = Append(BigEndian[k \div 256], Byte(k % 256))
        BY <3>2, <1>7
      <4>4. BigEndian[k] \in V
        BY <4>2, <4>3, <1>a
      <4> QED  BY <4>4
    <3> QED  BY <3>1, <3>2
  <2>2. \A k \in Nat : k \in S
    <3> HIDE DEF S
    <3> QED  BY <2>1, CompleteInduction
  <2> QED  BY <2>2
<1>9. \A n \in Nat : BigEndian[n] \in V
  BY <1>8
<1>10. BigEndian[0] = <<>>
  BY <1>7
<1>11. \A n \in Nat : n # 0 => BigEndian[n] = Append(BigEndian[n \div 256], Byte(n % 256))
  BY <1>7
<1> QED  BY <1>9, <1>10, <1>11 DEF V

\* Different numbers have different bytes.
LEMMA BigEndianInjective ==
  /\ \A m, n \in Nat : BigEndian[m] = BigEndian[n] => m = n
  /\ \A n \in Nat : /\ BigEndian[n] \in Seq(Bytes) /\ Len(BigEndian[n]) \in Nat
                    /\ n # 0 => Len(BigEndian[n]) >= 1
<1>1. ASSUME NEW n \in Nat
      PROVE  /\ BigEndian[n] \in Seq(Bytes) /\ Len(BigEndian[n]) \in Nat
             /\ n # 0 => Len(BigEndian[n]) >= 1
  <2>1. BigEndian[n] \in Seq(Bytes)
    BY BigEndianStep
  <2>2. Len(BigEndian[n]) \in Nat
    BY <2>1, LenProperties
  <2>3. ASSUME n # 0 PROVE Len(BigEndian[n]) >= 1
    <3> DEFINE s == BigEndian[n \div 256]
               b == Byte(n % 256)
    <3>0. n \div 256 \in Nat /\ b \in Bytes
      BY DEF Bytes
    <3>1. s \in Seq(Bytes) /\ BigEndian[n] = Append(s, b)
      BY <2>3, <3>0, BigEndianStep, ZenonT(30)
    <3> HIDE DEF s, b
    <3>2. Len(Append(s, b)) = Len(s) + 1 /\ Len(s) \in Nat
      BY <3>0, <3>1, AppendProperties, LenProperties
    <3> QED  BY <3>1, <3>2
  <2> QED  BY <2>1, <2>2, <2>3
<1> DEFINE S == {n \in Nat : \A m \in Nat : BigEndian[m] = BigEndian[n] => m = n}
<1>2. ASSUME NEW n \in Nat, \A k \in 0..(n - 1) : k \in S
      PROVE  n \in S
  <2> SUFFICES ASSUME NEW m \in Nat, BigEndian[m] = BigEndian[n]
               PROVE  m = n
    OBVIOUS
  <2>1. CASE n = 0 \/ m = 0
    <3>1. Len(BigEndian[0]) = 0
      BY BigEndianStep
    <3> QED  BY <2>1, <3>1, <1>1
  <2>2. CASE n # 0 /\ m # 0
    <3> DEFINE s == BigEndian[n \div 256]
               t == BigEndian[m \div 256]
               b == Byte(n % 256)
               c == Byte(m % 256)
    <3>0. n \div 256 \in 0..(n - 1) /\ n \div 256 \in Nat /\ m \div 256 \in Nat
      BY <2>2
    <3>1. s \in Seq(Bytes) /\ t \in Seq(Bytes) /\ Append(t, c) = Append(s, b)
      <4>1. s \in Seq(Bytes) /\ t \in Seq(Bytes)
        BY <3>0, BigEndianStep, SMTT(30)
      <4>2. BigEndian[n] = Append(s, b) /\ BigEndian[m] = Append(t, c)
        BY <2>2, BigEndianStep, ZenonT(30)
      <4> QED  BY <4>1, <4>2
    <3>2. b \in Bytes /\ c \in Bytes
      BY DEF Bytes
    <3>3. s = t /\ b = c
      <4> HIDE DEF s, t, b, c
      <4> QED  BY <3>1, <3>2, AppendInjective
    <3>4. n % 256 = m % 256
      BY <3>3, ByteInjective
    <3>6. m \div 256 = n \div 256
      <4>1. n \div 256 \in S
        <5> HIDE DEF S
        <5> QED  BY <3>0, <1>2
      <4> QED  BY <3>3, <3>0, <4>1
    <3> QED  BY <3>4, <3>6
  <2> QED  BY <2>1, <2>2
<1>3. \A n \in Nat : n \in S
  <2> HIDE DEF S
  <2> QED  BY <1>2, CompleteInduction
<1> QED  BY <1>1, <1>3

LEMMA BytesIn ==
  ASSUME NEW U, Alphabet(U), NEW s \in Seq(Bytes)
  PROVE  s \in Seq(U)
  BY SeqMonotonic DEF Alphabet

LEMMA HeaderForm ==
  ASSUME NEW o \in Nat, NEW n \in Nat
  PROVE  /\ Header(o, n) \in Seq(Bytes) /\ Len(Header(o, n)) >= 1
         /\ Header(o, n)[1] = Byte(o + (IF n < 56 THEN n ELSE 55 + Len(BigEndian[n])))
<1>1. CASE n < 56
  <2>1. Header(o, n) = <<Byte(o + n)>> /\ Byte(o + n) \in Bytes
    BY <1>1 DEF Header, Bytes
  <2> QED  BY <1>1, <2>1
<1>2. CASE ~(n < 56)
  <2> DEFINE s == BigEndian[n]
             h == <<Byte(o + 55 + Len(s))>>
  <2>1. s \in Seq(Bytes) /\ Len(s) \in Nat
    BY BigEndianInjective
  <2>2. Header(o, n) = Cat(h, s)
    BY <1>2 DEF Header, Cat
  <2>3. h \in Seq(Bytes) /\ Len(h) = 1 /\ h[1] = Byte(o + (55 + Len(s)))
    <3> DEFINE b == Byte(o + 55 + Len(s))
    <3>1. b = Byte(o + (55 + Len(s))) /\ b \in Bytes
      BY <2>1, ByteAt, Zenon
    <3>2. h = <<b>>
      OBVIOUS
    <3> HIDE DEF s, b, h
    <3> QED  BY <3>1, <3>2
  <2> HIDE DEF h, s
  <2>4. Len(h) >= 1
    BY <2>3
  <2>5. Cat(h, s) \in Seq(Bytes) /\ Len(Cat(h, s)) >= 1 /\ Cat(h, s)[1] = h[1]
    BY <2>1, <2>3, <2>4, FirstSymbol, Zenon
  <2> QED  BY <1>2, <2>2, <2>3, <2>5 DEF s
<1> QED  BY <1>1, <1>2

\* The header tells the length, and where the payload begins.
LEMMA HeaderParse ==
  ASSUME NEW U, Alphabet(U), NEW o \in Nat, NEW m \in Nat, NEW n \in Nat,
         NEW x \in Seq(U), NEW y \in Seq(U), Cat(Header(o, m), x) = Cat(Header(o, n), y)
  PROVE  m = n /\ x = y
<1> DEFINE f == Header(o, m)
           g == Header(o, n)
           s == BigEndian[m]
           t == BigEndian[n]
<1>1. /\ f \in Seq(U) /\ Len(f) >= 1 /\ g \in Seq(U) /\ Len(g) >= 1
      /\ f[1] = Byte(o + (IF m < 56 THEN m ELSE 55 + Len(s)))
      /\ g[1] = Byte(o + (IF n < 56 THEN n ELSE 55 + Len(t)))
  BY HeaderForm, BytesIn
<1>2. /\ s \in Seq(U) /\ t \in Seq(U) /\ Len(s) \in Nat /\ Len(t) \in Nat
      /\ ~(m < 56) => Len(s) >= 1
      /\ ~(n < 56) => Len(t) >= 1
  BY BigEndianInjective, BytesIn
<1>3. f[1] = g[1]
  <2> HIDE DEF f, g
  <2>1. Cat(f, x)[1] = f[1] /\ Cat(g, y)[1] = g[1]
    BY <1>1, FirstSymbol
  <2>2. Cat(f, x) = Cat(g, y)
    BY DEF f, g
  <2> QED  BY <2>1, <2>2
<1> DEFINE k == IF m < 56 THEN m ELSE 55 + Len(s)
           l == IF n < 56 THEN n ELSE 55 + Len(t)
<1>4. k = l
  <2> DEFINE kk == o + k
             ll == o + l
  <2>1. k \in Nat /\ l \in Nat
    <3> HIDE DEF s, t
    <3> QED  BY <1>2
  <2>2. Byte(kk) = Byte(ll)
    BY <1>1, <1>3
  <2> HIDE DEF kk, ll
  <2>3. kk = ll
    BY <2>2, ByteInjective
  <2> HIDE DEF k, l
  <2> QED  BY <2>1, <2>3 DEF kk, ll
<1>5. CASE m < 56
  <2>1. m = n
    <3> HIDE DEF s, t
    <3> QED  BY <1>2, <1>4, <1>5
  <2>2. f = g
    BY <2>1
  <2> HIDE DEF f, g
  <2> QED  BY <2>1, <2>2, <1>1, Cancel DEF f, g
<1>6. CASE ~(m < 56)
  <2>1. Len(s) = Len(t) /\ ~(n < 56)
    <3> HIDE DEF s, t
    <3> QED  BY <1>2, <1>4, <1>6
  <2> DEFINE h == <<Byte(o + 55 + Len(s))>>
             j == <<Byte(o + 55 + Len(t))>>
  <2>2. f = Cat(h, s) /\ g = Cat(j, t)
    BY <1>6, <2>1 DEF Header, Cat
  <2>3. h \in Seq(U) /\ j \in Seq(U) /\ Len(h) = 1 /\ Len(j) = 1
    <3> DEFINE b == Byte(o + 55 + Len(s))
               c == Byte(o + 55 + Len(t))
    <3>1. b \in U /\ c \in U
      BY <1>2, ByteAt, Zenon DEF Alphabet
    <3>2. h = <<b>> /\ j = <<c>>
      OBVIOUS
    <3> HIDE DEF s, t, b, c, h, j
    <3> QED  BY <3>1, <3>2
  <2> HIDE DEF f, g, h, j, s, t
  <2>4. Len(f) = Len(g)
    <3>1. Len(Cat(h, s)) = Len(h) + Len(s) /\ Len(Cat(j, t)) = Len(j) + Len(t)
      BY <2>3, <1>2, ConcatProperties, ZenonT(30) DEF Cat
    <3> QED  BY <2>1, <2>2, <2>3, <3>1, Zenon
  <2>5. f = g /\ x = y
    BY <2>4, <1>1, Cancel DEF f, g
  <2>6. s = t
    BY <2>2, <2>3, <2>5, <1>2, Cancel, ZenonT(30)
  <2> QED  BY <2>5, <2>6, BigEndianInjective DEF s, t
<1> QED  BY <1>5, <1>6

LEMMA PayloadParse ==
  ASSUME NEW U, Alphabet(U), NEW o \in Nat, NEW s \in Seq(U), NEW t \in Seq(U),
         NEW x \in Seq(U), NEW y \in Seq(U),
         Cat(Cat(Header(o, Len(s)), s), x) = Cat(Cat(Header(o, Len(t)), t), y)
  PROVE  s = t /\ x = y
<1> DEFINE m == Len(s)
           n == Len(t)
           f == Header(o, m)
           g == Header(o, n)
           u == Cat(s, x)
           v == Cat(t, y)
<1>0. m \in Nat /\ n \in Nat
  BY LenProperties
<1>1. f \in Seq(U) /\ g \in Seq(U)
  BY <1>0, HeaderForm, BytesIn
<1>2. u \in Seq(U) /\ v \in Seq(U)
  BY CatIn
<1>3. Cat(Cat(f, s), x) = Cat(Cat(g, t), y)
  OBVIOUS
<1> HIDE DEF m, n, f, g
<1>4. Cat(Cat(f, s), x) = Cat(f, u)
  BY <1>1, CatAssociative
<1>5. Cat(Cat(g, t), y) = Cat(g, v)
  BY <1>1, CatAssociative
<1> HIDE DEF u, v
<1>6. Cat(Header(o, m), u) = Cat(Header(o, n), v)
  BY <1>3, <1>4, <1>5 DEF f, g
<1>7. m = n /\ u = v
  BY <1>0, <1>2, <1>6, HeaderParse
<1> QED  BY <1>7, Cancel DEF m, n, u, v

LEMMA EncodeIntForm ==
  ASSUME NEW n \in Nat
  PROVE  /\ EncodeInt(n) \in Seq(Bytes) /\ Len(EncodeInt(n)) >= 1
         /\ n \in 1..127 => EncodeInt(n)[1] = Byte(n)
         /\ n \notin 1..127 => \E k \in Nat : EncodeInt(n)[1] = Byte(128 + k)
<1>1. CASE n \in 1..127
  <2>1. EncodeInt(n) = <<Byte(n)>> /\ Byte(n) \in Bytes
    BY <1>1 DEF EncodeInt, Bytes
  <2> QED  BY <1>1, <2>1
<1>2. CASE n \notin 1..127
  <2> DEFINE s == BigEndian[n]
             h == Header(128, Len(s))
  <2>1. s \in Seq(Bytes) /\ Len(s) \in Nat
    BY BigEndianInjective
  <2>2. EncodeInt(n) = Cat(h, s)
    BY <1>2 DEF EncodeInt, Cat
  <2> HIDE DEF s
  <2>3. /\ h \in Seq(Bytes) /\ Len(h) >= 1
        /\ \E k \in Nat : h[1] = Byte(128 + k)
    <3> DEFINE l == Len(s)
               k == IF l < 56 THEN l ELSE 55 + Len(BigEndian[l])
    <3>1. h \in Seq(Bytes) /\ Len(h) >= 1 /\ h[1] = Byte(128 + k)
      BY <2>1, HeaderForm
    <3>2. k \in Nat
      BY <2>1, BigEndianInjective
    <3> HIDE DEF k, h
    <3> QED  BY <3>1, <3>2
  <2> HIDE DEF h
  <2>4. Cat(h, s) \in Seq(Bytes) /\ Len(Cat(h, s)) >= 1 /\ Cat(h, s)[1] = h[1]
    BY <2>1, <2>3, FirstSymbol, Zenon
  <2> QED  BY <1>2, <2>2, <2>3, <2>4
<1> QED  BY <1>1, <1>2

LEMMA IntParse ==
  ASSUME NEW U, Alphabet(U), NEW m \in Nat, NEW n \in Nat,
         NEW x \in Seq(U), NEW y \in Seq(U), Cat(EncodeInt(m), x) = Cat(EncodeInt(n), y)
  PROVE  m = n /\ x = y
<1> DEFINE f == EncodeInt(m)
           g == EncodeInt(n)
<1>1. /\ f \in Seq(U) /\ Len(f) >= 1 /\ g \in Seq(U) /\ Len(g) >= 1
      /\ m \in 1..127 => f[1] = Byte(m)
      /\ n \in 1..127 => g[1] = Byte(n)
      /\ m \notin 1..127 => \E k \in Nat : f[1] = Byte(128 + k)
      /\ n \notin 1..127 => \E k \in Nat : g[1] = Byte(128 + k)
  BY EncodeIntForm, BytesIn
<1>2. f[1] = g[1]
  <2>1. Cat(f, x) = Cat(g, y)
    OBVIOUS
  <2> HIDE DEF f, g
  <2>2. Cat(f, x)[1] = f[1] /\ Cat(g, y)[1] = g[1]
    BY <1>1, FirstSymbol
  <2> QED  BY <2>1, <2>2
<1>3. CASE m \in 1..127 /\ n \in 1..127
  <2>1. m = n
    BY <1>1, <1>2, <1>3, ByteInjective
  <2> QED  BY <2>1, <1>1, Cancel
<1>4. CASE m \notin 1..127 /\ n \notin 1..127
  <2> DEFINE s == BigEndian[m]
             t == BigEndian[n]
  <2>1. s \in Seq(U) /\ t \in Seq(U)
    BY BigEndianInjective, BytesIn
  <2>2. f = Cat(Header(128, Len(s)), s) /\ g = Cat(Header(128, Len(t)), t)
    BY <1>4 DEF EncodeInt, Cat
  <2>3. Cat(f, x) = Cat(g, y)
    OBVIOUS
  <2> HIDE DEF f, g, s, t
  <2>4. 128 \in Nat
    OBVIOUS
  <2>5. Cat(Cat(Header(128, Len(s)), s), x) = Cat(Cat(Header(128, Len(t)), t), y)
    BY <2>2, <2>3
  <2>6. s = t /\ x = y
    BY <2>1, <2>4, <2>5, PayloadParse
  <2> QED  BY <2>6, BigEndianInjective DEF s, t
<1>5. CASE m \in 1..127 /\ n \notin 1..127
  <2> HIDE DEF f, g
  <2>1. PICK k \in Nat : Byte(m) = Byte(128 + k)
    BY <1>1, <1>2, <1>5
  <2>2. m = 128 + k
    BY <2>1, ByteInjective
  <2> QED  BY <2>2, <1>5
<1>6. CASE m \notin 1..127 /\ n \in 1..127
  <2> HIDE DEF f, g
  <2>1. PICK k \in Nat : Byte(n) = Byte(128 + k)
    BY <1>1, <1>2, <1>6
  <2>2. n = 128 + k
    BY <2>1, ByteInjective
  <2> QED  BY <2>2, <1>6
<1> QED  BY <1>3, <1>4, <1>5, <1>6

LEMMA ListForm ==
  ASSUME NEW s \in Seq(Bytes)
  PROVE  /\ EncodeList(s) \in Seq(Bytes) /\ Len(EncodeList(s)) >= 1
         /\ \E k \in Nat : EncodeList(s)[1] = Byte(192 + k)
<1> DEFINE l == Len(s)
           h == Header(192, l)
           k == IF l < 56 THEN l ELSE 55 + Len(BigEndian[l])
<1>1. l \in Nat
  BY LenProperties
<1>2. h \in Seq(Bytes) /\ Len(h) >= 1 /\ h[1] = Byte(192 + k)
  BY <1>1, HeaderForm, ZenonT(30)
<1>3. k \in Nat
  BY <1>1, BigEndianInjective
<1>4. EncodeList(s) = Cat(h, s)
  BY DEF EncodeList, Cat
<1> HIDE DEF h, k
<1>5. Cat(h, s) \in Seq(Bytes) /\ Len(Cat(h, s)) >= 1 /\ Cat(h, s)[1] = h[1]
  BY <1>2, FirstSymbol, Zenon
<1> QED  BY <1>2, <1>3, <1>4, <1>5

LEMMA ListParse ==
  ASSUME NEW U, Alphabet(U), NEW s \in Seq(U), NEW t \in Seq(U),
         NEW x \in Seq(U), NEW y \in Seq(U), Cat(EncodeList(s), x) = Cat(EncodeList(t), y)
  PROVE  s = t /\ x = y
<1> DEFINE o == 192
<1>1. o \in Nat
  OBVIOUS
<1>2. Cat(Cat(Header(o, Len(s)), s), x) = Cat(Cat(Header(o, Len(t)), t), y)
  BY DEF EncodeList, Cat
<1> HIDE DEF o
<1> QED  BY <1>1, <1>2, PayloadParse

----------------------------------------------------------------------------
(***************************************************************************)
(* FlattenSeq.  A list of words of a code is known from what it flattens   *)
(* to, its length included.                                                *)
(***************************************************************************)
IsCode(C, U) ==
  /\ C \subseteq Seq(U) /\ \A s \in C : Len(s) >= 1
  /\ \A s, t \in C, x, y \in Seq(U) : Cat(s, x) = Cat(t, y) => s = t

\* F[i] is the concatenation of the first i of the n words of c.
Concats(F, U, n, c) ==
  /\ c \in [1..n -> Seq(U)] /\ F \in [0..n -> Seq(U)] /\ F[0] = <<>>
  /\ \A i \in 1..n : F[i] = Cat(F[i - 1], c[i])

LEMMA FlattenStep ==
  ASSUME NEW U, NEW n \in Nat, NEW c \in [1..n -> Seq(U)]
  PROVE  \E F : Concats(F, U, n, c) /\ FlattenSeq(c) = F[n]
<1> DEFINE Body(f, i) == IF i = 1 THEN c[i] ELSE Cat(f[i - 1], c[i])
           S == {k \in Nat : \E f : f = [i \in 1..k |-> Body(f, i)]}
<1>0. ASSUME NEW f, NEW g, NEW i, i = 1 \/ f[i - 1] = g[i - 1]
      PROVE  Body(f, i) = Body(g, i)
  BY <1>0
<1>l. Len(c) = n
  BY LenProperties
<1>e. /\ <<>> \in Seq(U)
      /\ \A i \in 1..n : Body(<<>>, 1) = c[1] /\ Cat(<<>>, c[i]) = c[i]
  BY ConcatEmptySeq DEF Cat
<1> HIDE DEF Body
<1>1. 0 \in S
  <2> DEFINE f == [i \in 1..0 |-> Body(<<>>, 0)]
  <2>1. f = [i \in 1..0 |-> Body(f, i)]
    OBVIOUS
  <2> QED  BY <2>1
<1>2. ASSUME NEW k \in Nat, k \in S
      PROVE  k + 1 \in S
  <2>1. PICK f : f = [i \in 1..k |-> Body(f, i)]
    BY <1>2
  <2> DEFINE g == [i \in 1..(k + 1) |-> IF i = k + 1 THEN Body(f, k + 1) ELSE f[i]]
  <2>2. ASSUME NEW i \in 1..(k + 1)
        PROVE  g[i] = Body(g, i)
    <3>1. CASE i = k + 1
      <4>1. g[i] = Body(f, i) /\ (i = 1 \/ g[i - 1] = f[i - 1])
        BY <3>1
      <4> QED  BY <4>1, <1>0
    <3>2. CASE i \in 1..k
      <4>1. g[i] = f[i] /\ (i = 1 \/ g[i - 1] = f[i - 1])
        BY <3>2
      <4>2. f[i] = Body(f, i)
        BY <3>2, <2>1
      <4>3. Body(f, i) = Body(g, i)
        BY <4>1, <1>0
      <4> QED  BY <4>1, <4>2, <4>3
    <3> QED  BY <3>1, <3>2
  <2>3. g = [i \in 1..(k + 1) |-> Body(g, i)]
    BY <2>2
  <2> HIDE DEF g
  <2> QED  BY <2>3
<1>3. n \in S
  <2> HIDE DEF S
  <2> QED  BY <1>1, <1>2, SetInduction
<1> DEFINE flatten == CHOOSE f : f = [i \in 1..n |-> Body(f, i)]
<1>4. flatten = [i \in 1..n |-> Body(flatten, i)]
  BY <1>3
<1>5. n # 0 => FlattenSeq(c) = flatten[n]
  BY <1>l DEF FlattenSeq, Body, Cat
<1> HIDE DEF flatten
<1> DEFINE F == [i \in 0..n |-> IF i = 0 THEN <<>> ELSE flatten[i]]
<1>6. ASSUME NEW i \in 1..n PROVE F[i] = Cat(F[i - 1], c[i])
  <2>1. F[i] = Body(flatten, i)
    <3>1. F[i] = flatten[i]
      OBVIOUS
    <3>2. \A j \in 1..n : flatten[j] = Body(flatten, j)
      BY <1>4
    <3> QED  BY <3>1, <3>2
  <2>2. CASE i = 1
    BY <2>1, <2>2, <1>e DEF Body
  <2>3. CASE i # 1
    <3>1. F[i - 1] = flatten[i - 1]
      BY <2>3
    <3>2. Body(flatten, i) = Cat(flatten[i - 1], c[i])
      BY <2>3 DEF Body
    <3> QED  BY <2>1, <3>1, <3>2
  <2> QED  BY <2>2, <2>3
<1>7. FlattenSeq(c) = F[n]
  <2>1. CASE n = 0
    <3>1. FlattenSeq(c) = c /\ c = <<>>
      BY <1>l, <2>1, EmptySeq DEF FlattenSeq
    <3> QED  BY <2>1, <3>1
  <2>2. CASE n # 0
    BY <2>2, <1>5
  <2> QED  BY <2>1, <2>2
<1>8. F[0] = <<>>
  OBVIOUS
<1> HIDE DEF F
<1>9. ASSUME NEW i \in 0..n PROVE F[i] \in Seq(U)
  <2> DEFINE T == {k \in Nat : k <= n => F[k] \in Seq(U)}
  <2>1. 0 \in T
    BY <1>8, <1>e
  <2>2. ASSUME NEW k \in Nat, k \in T PROVE k + 1 \in T
    <3> SUFFICES ASSUME k + 1 <= n PROVE F[k + 1] \in Seq(U)
      OBVIOUS
    <3>1. F[k + 1] = Cat(F[k], c[k + 1]) /\ c[k + 1] \in Seq(U)
      <4>1. k + 1 \in 1..n /\ (k + 1) - 1 = k
        OBVIOUS
      <4> QED  BY <4>1, <1>6
    <3>2. F[k] \in Seq(U)
      BY <2>2
    <3> QED  BY <3>1, <3>2, CatIn
  <2>3. \A k \in Nat : k \in T
    <3> HIDE DEF T
    <3> QED  BY <2>1, <2>2, SetInduction
  <2> QED  BY <2>3
<1>10. F \in [0..n -> Seq(U)]
  <2>1. F = [i \in 0..n |-> F[i]]
    BY DEF F
  <2> QED  BY <2>1, <1>9
<1>11. Concats(F, U, n, c)
  BY <1>6, <1>8, <1>10 DEF Concats
<1> QED  BY <1>7, <1>11

\* The whole begins with every one of its parts.
Continues(F, U, n) == \A k \in 0..n : \E x \in Seq(U) : F[n] = Cat(F[k], x)

LEMMA ConcatsPrefix ==
  ASSUME NEW U, NEW n \in Nat, NEW c, NEW F, Concats(F, U, n, c)
  PROVE  Continues(F, U, n)
<1>a. ASSUME NEW k \in 0..n PROVE F[k] \in Seq(U)
  BY DEF Concats
<1>b. ASSUME NEW k \in 1..n PROVE F[k] = Cat(F[k - 1], c[k]) /\ c[k] \in Seq(U)
  BY DEF Concats
<1> DEFINE S == {m \in Nat : m <= n =>
                   \A k \in 0..m : \E x \in Seq(U) : F[m] = Cat(F[k], x)}
<1>0. ASSUME NEW s \in Seq(U)
      PROVE  <<>> \in Seq(U) /\ s = Cat(s, <<>>)
  BY ConcatEmptySeq DEF Cat
<1>1. 0 \in S
  <2>1. F[0] \in Seq(U)
    BY <1>a
  <2>2. <<>> \in Seq(U) /\ F[0] = Cat(F[0], <<>>)
    BY <2>1, <1>0
  <2>3. \A k \in 0..0 : k = 0
    OBVIOUS
  <2>4. \A k \in 0..0 : \E x \in Seq(U) : F[0] = Cat(F[k], x)
    BY <2>2, <2>3, Zenon
  <2> QED  BY <2>4
<1>2. ASSUME NEW m \in Nat, m \in S PROVE m + 1 \in S
  <2> SUFFICES ASSUME m + 1 <= n, NEW k \in 0..(m + 1)
               PROVE  \E x \in Seq(U) : F[m + 1] = Cat(F[k], x)
    OBVIOUS
  <2>1. /\ F[m + 1] = Cat(F[m], c[m + 1]) /\ c[m + 1] \in Seq(U)
        /\ F[k] \in Seq(U) /\ F[m + 1] \in Seq(U)
    <3>1. m + 1 \in 1..n /\ m + 1 \in 0..n /\ k \in 0..n /\ (m + 1) - 1 = m
      OBVIOUS
    <3>2. F[m + 1] = Cat(F[(m + 1) - 1], c[m + 1]) /\ c[m + 1] \in Seq(U)
      BY <3>1, <1>b
    <3>3. F[k] \in Seq(U) /\ F[m + 1] \in Seq(U)
      BY <3>1, <1>a
    <3> QED  BY <3>1, <3>2, <3>3
  <2>2. CASE k = m + 1
    <3>1. <<>> \in Seq(U) /\ F[m + 1] = Cat(F[m + 1], <<>>)
      BY <2>1, <1>0
    <3> QED  BY <3>1, <2>2
  <2>3. CASE k # m + 1
    <3>1. k \in 0..m /\ m <= n
      BY <2>3
    <3>2. PICK x \in Seq(U) : F[m] = Cat(F[k], x)
      BY <3>1, <1>2
    <3> DEFINE p == F[k]
               q == c[m + 1]
               y == Cat(x, q)
    <3>3. p \in Seq(U) /\ q \in Seq(U)
      BY <2>1
    <3>4. F[m + 1] = Cat(Cat(p, x), q)
      BY <2>1, <3>2
    <3> HIDE DEF p, q
    <3>5. y \in Seq(U) /\ Cat(Cat(p, x), q) = Cat(p, y)
      BY <3>3, CatIn, CatAssociative
    <3> HIDE DEF y
    <3> QED  BY <3>4, <3>5 DEF p
  <2> QED  BY <2>2, <2>3
<1>3. \A m \in Nat : m \in S
  <2> HIDE DEF S
  <2> QED  BY <1>1, <1>2, SetInduction
<1> QED  BY <1>3 DEF Continues

ListOf(c, n, C) == c \in [1..n -> C]

LEMMA FlattenParse ==
  ASSUME NEW U, NEW C, IsCode(C, U), NEW m \in Nat, NEW n \in Nat,
         NEW c, ListOf(c, m, C), NEW d, ListOf(d, n, C),
         FlattenSeq(c) = FlattenSeq(d)
  PROVE  m = n /\ c = d
<1>w. c \in [1..m -> C] /\ d \in [1..n -> C]
  BY DEF ListOf
<1>0. c \in [1..m -> Seq(U)] /\ d \in [1..n -> Seq(U)]
  BY <1>w DEF IsCode
<1>1. PICK F : Concats(F, U, m, c) /\ FlattenSeq(c) = F[m]
  BY <1>0, FlattenStep
<1>2. PICK G : Concats(G, U, n, d) /\ FlattenSeq(d) = G[n]
  BY <1>0, FlattenStep
<1>3. F[m] = G[n]
  BY <1>1, <1>2
<1>4. /\ \A k \in 0..m : F[k] \in Seq(U)
      /\ \A k \in 0..n : G[k] \in Seq(U)
      /\ F[0] = <<>> /\ G[0] = <<>>
      /\ \A k \in 0..(m - 1) : F[k + 1] = Cat(F[k], c[k + 1])
      /\ \A k \in 0..(n - 1) : G[k + 1] = Cat(G[k], d[k + 1])
  <2>1. ASSUME NEW k \in 0..(m - 1) PROVE F[k + 1] = Cat(F[k], c[k + 1])
    <3>1. k + 1 \in 1..m /\ (k + 1) - 1 = k
      OBVIOUS
    <3> QED  BY <3>1, <1>1 DEF Concats
  <2>2. ASSUME NEW k \in 0..(n - 1) PROVE G[k + 1] = Cat(G[k], d[k + 1])
    <3>1. k + 1 \in 1..n /\ (k + 1) - 1 = k
      OBVIOUS
    <3> QED  BY <3>1, <1>2 DEF Concats
  <2> QED  BY <2>1, <2>2, <1>1, <1>2 DEF Concats
<1>p. /\ \A k \in 0..m : \E x \in Seq(U) : F[m] = Cat(F[k], x)
      /\ \A k \in 0..n : \E x \in Seq(U) : G[n] = Cat(G[k], x)
  <2>1. Concats(F, U, m, c) /\ Concats(G, U, n, d)
    BY <1>1, <1>2
  <2>2. Continues(F, U, m) /\ Continues(G, U, n)
    BY <2>1, ConcatsPrefix
  <2> QED  BY <2>2 DEF Continues
<1>5. ASSUME NEW k \in 0..(m - 1)
      PROVE  /\ c[k + 1] \in C /\ c[k + 1] \in Seq(U)
             /\ \E x \in Seq(U) : F[m] = Cat(F[k], Cat(c[k + 1], x))
  <2>1. c[k + 1] \in C /\ c[k + 1] \in Seq(U) /\ k + 1 \in 0..m /\ F[k] \in Seq(U)
    BY <1>w, <1>0, <1>4
  <2>2. PICK x \in Seq(U) : F[m] = Cat(F[k + 1], x)
    <3>1. k + 1 \in 0..m
      OBVIOUS
    <3> QED  BY <3>1, <1>p
  <2>3. Cat(Cat(F[k], c[k + 1]), x) = Cat(F[k], Cat(c[k + 1], x))
    BY <2>1, CatAssociative
  <2> QED  BY <2>1, <2>2, <2>3, <1>4
<1>6. ASSUME NEW k \in 0..(n - 1)
      PROVE  /\ d[k + 1] \in C /\ d[k + 1] \in Seq(U)
             /\ \E x \in Seq(U) : G[n] = Cat(G[k], Cat(d[k + 1], x))
  <2>1. d[k + 1] \in C /\ d[k + 1] \in Seq(U) /\ k + 1 \in 0..n /\ G[k] \in Seq(U)
    BY <1>w, <1>0, <1>4, SMTT(30)
  <2>2. PICK x \in Seq(U) : G[n] = Cat(G[k + 1], x)
    <3>1. k + 1 \in 0..n
      OBVIOUS
    <3> QED  BY <3>1, <1>p
  <2>3. Cat(Cat(G[k], d[k + 1]), x) = Cat(G[k], Cat(d[k + 1], x))
    BY <2>1, CatAssociative
  <2> QED  BY <2>1, <2>2, <2>3, <1>4
<1> DEFINE S == {k \in Nat : k <= m /\ k <= n =>
                   F[k] = G[k] /\ \A i \in 1..k : c[i] = d[i]}
<1>7. 0 \in S
  BY <1>4
<1>8. ASSUME NEW k \in Nat, k \in S PROVE k + 1 \in S
  <2> SUFFICES ASSUME k + 1 <= m, k + 1 <= n
               PROVE  F[k + 1] = G[k + 1] /\ \A i \in 1..(k + 1) : c[i] = d[i]
    OBVIOUS
  <2>0. k \in 0..(m - 1) /\ k \in 0..(n - 1) /\ k \in 0..m
    OBVIOUS
  <2>1. F[k] = G[k] /\ F[k] \in Seq(U) /\ \A i \in 1..k : c[i] = d[i]
    BY <1>8, <1>4, <2>0
  <2>2. PICK x \in Seq(U) : F[m] = Cat(F[k], Cat(c[k + 1], x))
    BY <2>0, <1>5
  <2>3. PICK y \in Seq(U) : G[n] = Cat(G[k], Cat(d[k + 1], y))
    BY <2>0, <1>6
  <2> DEFINE u == Cat(c[k + 1], x)
             v == Cat(d[k + 1], y)
  <2>4. u \in Seq(U) /\ v \in Seq(U)
    BY <2>0, <1>5, <1>6, CatIn
  <2>5. Cat(F[k], u) = Cat(F[k], v)
    BY <1>3, <2>1, <2>2, <2>3
  <2>6. u = v
    <3> HIDE DEF u, v
    <3> QED  BY <2>1, <2>4, <2>5, CatSame
  <2>7. c[k + 1] = d[k + 1]
    <3> DEFINE p == c[k + 1]
               q == d[k + 1]
    <3>1. p \in C /\ q \in C
      BY <2>0, <1>5, <1>6
    <3>2. Cat(p, x) = Cat(q, y)
      BY <2>6
    <3> HIDE DEF p, q
    <3>3. p = q
      BY <3>1, <3>2 DEF IsCode
    <3> QED  BY <3>3 DEF p, q
  <2>8. F[k + 1] = G[k + 1]
    BY <2>0, <2>1, <2>7, <1>4
  <2>9. \A i \in 1..(k + 1) : i \in 1..k \/ i = k + 1
    OBVIOUS
  <2> QED  BY <2>1, <2>7, <2>8, <2>9
<1>9. \A k \in Nat : k \in S
  <2> HIDE DEF S
  <2> QED  BY <1>7, <1>8, SetInduction
\* The shorter list is not followed by anything in the longer one.
<1>10. ASSUME NEW r \in Seq(U), NEW w \in Seq(U), NEW x \in Seq(U), Len(w) >= 1
       PROVE  r # Cat(r, Cat(w, x))
  <2>1. Cat(w, x) \in Seq(U) /\ Len(Cat(w, x)) >= 1
    BY <1>10, FirstSymbol
  <2>2. Cat(r, <<>>) = r /\ <<>> \in Seq(U) /\ Len(<<>>) = 0
    BY ConcatEmptySeq DEF Cat
  <2> SUFFICES ASSUME r = Cat(r, Cat(w, x)) PROVE FALSE
    OBVIOUS
  <2> DEFINE u == Cat(w, x)
             e == <<>>
  <2>3. Cat(r, e) = Cat(r, u) /\ e \in Seq(U) /\ u \in Seq(U)
    BY <2>1, <2>2
  <2>4. e = u
    <3> HIDE DEF e, u
    <3> QED  BY <2>3, CatSame
  <2> QED  BY <2>1, <2>2, <2>4
<1>11. ~(m < n)
  <2> SUFFICES ASSUME m < n PROVE FALSE
    OBVIOUS
  <2>0. m \in 0..(n - 1) /\ m \in 0..m
    OBVIOUS
  <2>1. F[m] = G[m] /\ F[m] \in Seq(U)
    BY <1>9, <1>4, <2>0
  <2>2. PICK x \in Seq(U) : G[n] = Cat(G[m], Cat(d[m + 1], x))
    BY <2>0, <1>6
  <2>3. d[m + 1] \in Seq(U) /\ Len(d[m + 1]) >= 1
    BY <2>0, <1>6 DEF IsCode
  <2> QED  BY <2>1, <2>2, <2>3, <1>3, <1>10
<1>12. ~(n < m)
  <2> SUFFICES ASSUME n < m PROVE FALSE
    OBVIOUS
  <2>0. n \in 0..(m - 1) /\ n \in 0..n
    OBVIOUS
  <2>1. F[n] = G[n] /\ G[n] \in Seq(U)
    BY <1>9, <1>4, <2>0
  <2>2. PICK x \in Seq(U) : F[m] = Cat(F[n], Cat(c[n + 1], x))
    BY <2>0, <1>5
  <2>3. c[n + 1] \in Seq(U) /\ Len(c[n + 1]) >= 1
    BY <2>0, <1>5 DEF IsCode
  <2> QED  BY <2>1, <2>2, <2>3, <1>3, <1>10
<1>13. m = n
  BY <1>11, <1>12
<1>14. \A i \in 1..m : c[i] = d[i]
  BY <1>13, <1>9
<1> QED  BY <1>w, <1>13, <1>14

----------------------------------------------------------------------------
(***************************************************************************)
(* An encoded account.  The parts of the struct follow one another, and so *)
(* do the entries of its storage.                                          *)
(***************************************************************************)
Entry(slot) == EncodeList(Cat(EncodeInt(slot), EncodeInt(slot)))
Entries     == {Entry(slot) : slot \in Nat}

LEMMA BytesAlphabet == Alphabet(Bytes)
  BY DEF Alphabet

LEMMA ListInjective ==
  ASSUME NEW s \in Seq(Bytes), NEW t \in Seq(Bytes), EncodeList(s) = EncodeList(t)
  PROVE  s = t
<1> DEFINE x == <<>>
<1>1. x \in Seq(Bytes)
  OBVIOUS
<1> HIDE DEF x
<1>2. Cat(EncodeList(s), x) = Cat(EncodeList(t), x)
  OBVIOUS
<1> QED  BY <1>1, <1>2, ListParse, BytesAlphabet

LEMMA EntryCode ==
  /\ IsCode(Entries, Bytes)
  /\ \A m, n \in Nat : Entry(m) = Entry(n) => m = n
<1> DEFINE pair(n) == Cat(EncodeInt(n), EncodeInt(n))
<1>1. ASSUME NEW n \in Nat
      PROVE  pair(n) \in Seq(Bytes) /\ EncodeInt(n) \in Seq(Bytes)
  BY EncodeIntForm, CatIn
<1>2. ASSUME NEW m \in Nat, NEW n \in Nat, pair(m) = pair(n) PROVE m = n
  BY <1>1, <1>2, IntParse, BytesAlphabet
<1>3. ASSUME NEW n \in Nat
      PROVE  Entry(n) \in Seq(Bytes) /\ Len(Entry(n)) >= 1
  BY <1>1, ListForm DEF Entry
<1>4. ASSUME NEW m \in Nat, NEW n \in Nat, NEW x \in Seq(Bytes), NEW y \in Seq(Bytes),
             Cat(Entry(m), x) = Cat(Entry(n), y)
      PROVE  m = n
  <2>1. Entry(m) = EncodeList(pair(m)) /\ Entry(n) = EncodeList(pair(n))
    BY DEF Entry
  <2> DEFINE s == pair(m)
             t == pair(n)
  <2>2. s \in Seq(Bytes) /\ t \in Seq(Bytes)
    BY <1>1
  <2>3. Cat(EncodeList(s), x) = Cat(EncodeList(t), y)
    BY <1>4, <2>1
  <2> HIDE DEF s, t
  <2>4. s = t
    BY <2>2, <2>3, ListParse, BytesAlphabet
  <2> QED  BY <2>4, <1>2 DEF s, t
<1>5. ASSUME NEW m \in Nat, NEW n \in Nat, Entry(m) = Entry(n) PROVE m = n
  <2>1. pair(m) = pair(n)
    BY <1>1, <1>5, ListInjective DEF Entry
  <2> QED  BY <2>1, <1>2
<1> HIDE DEF pair
<1>6. Entries \subseteq Seq(Bytes) /\ \A s \in Entries : Len(s) >= 1
  BY <1>3 DEF Entries
<1>7. ASSUME NEW s \in Entries, NEW t \in Entries, NEW x \in Seq(Bytes),
             NEW y \in Seq(Bytes), Cat(s, x) = Cat(t, y)
      PROVE  s = t
  <2>1. PICK m \in Nat : s = Entry(m)
    BY DEF Entries
  <2>2. PICK n \in Nat : t = Entry(n)
    BY DEF Entries
  <2>3. m = n
    BY <2>1, <2>2, <1>4, <1>7
  <2> QED  BY <2>1, <2>2, <2>3
<1> QED  BY <1>5, <1>6, <1>7 DEF IsCode

LEMMA StorageForm ==
  ASSUME NEW n \in Nat, NEW e \in [1..n -> Nat]
  PROVE  LET c == [i \in 1..n |-> Entry(e[i])]
         IN  /\ c \in [1..n -> Entries] /\ FlattenSeq(c) \in Seq(Bytes)
             /\ EncodeStorage(e) = EncodeList(FlattenSeq(c))
<1> DEFINE c == [i \in 1..n |-> Entry(e[i])]
<1>1. c \in [1..n -> Entries]
  BY DEF Entries
<1>2. EncodeStorage(e) = EncodeList(FlattenSeq(c))
  <2>1. c = [i \in DOMAIN e |-> EncodeList(EncodeInt(e[i]) \o EncodeInt(e[i]))]
    BY DEF Entry, Cat
  <2> QED  BY <2>1 DEF EncodeStorage
<1> HIDE DEF c
<1>3. c \in [1..n -> Seq(Bytes)]
  BY <1>1, EntryCode DEF IsCode
<1>4. PICK F : Concats(F, Bytes, n, c) /\ FlattenSeq(c) = F[n]
  BY <1>3, FlattenStep
<1>5. FlattenSeq(c) \in Seq(Bytes)
  BY <1>4 DEF Concats
<1> QED  BY <1>1, <1>2, <1>5 DEF c

LEMMA StorageInjective ==
  ASSUME NEW m \in Nat, NEW n \in Nat, NEW e \in [1..m -> Nat], NEW f \in [1..n -> Nat],
         EncodeStorage(e) = EncodeStorage(f)
  PROVE  m = n /\ e = f
<1> DEFINE c == [i \in 1..m |-> Entry(e[i])]
           d == [i \in 1..n |-> Entry(f[i])]
           s == FlattenSeq(c)
           t == FlattenSeq(d)
<1>1. /\ c \in [1..m -> Entries] /\ s \in Seq(Bytes)
      /\ EncodeStorage(e) = EncodeList(s)
  BY StorageForm
<1>2. /\ d \in [1..n -> Entries] /\ t \in Seq(Bytes)
      /\ EncodeStorage(f) = EncodeList(t)
  BY StorageForm
<1>3. s = t
  <2> HIDE DEF s, t
  <2> QED  BY <1>1, <1>2, ListInjective
<1>4. m = n /\ c = d
  <2>1. ListOf(c, m, Entries) /\ ListOf(d, n, Entries)
    BY <1>1, <1>2 DEF ListOf
  <2>2. FlattenSeq(c) = FlattenSeq(d) /\ IsCode(Entries, Bytes)
    BY <1>3, EntryCode
  <2> HIDE DEF c, d
  <2> QED  BY <2>1, <2>2, FlattenParse
<1>5. ASSUME NEW i \in 1..m PROVE e[i] = f[i]
  <2>1. c[i] = d[i] /\ c[i] = Entry(e[i]) /\ d[i] = Entry(f[i])
    BY <1>4
  <2>2. e[i] \in Nat /\ f[i] \in Nat
    BY <1>4
  <2> HIDE DEF c, d
  <2> QED  BY <2>1, <2>2, EntryCode
<1> HIDE DEF c, d, s, t
<1> QED  BY <1>4, <1>5

\* The values of accounts, as far as the tree is concerned.
Values == {EncodeList(s) : s \in Seq(Bytes)}

Encodable(account) ==
  account.balance \in Nat /\ account.nonce \in Nat /\ account.code \in BOOLEAN

\* What AccountToValue encodes, from the first part to the last.
Parts(account, entries) ==
  Cat(EncodeInt(account.balance),
      Cat(EncodeInt(account.nonce),
          Cat(EncodeCode(account.code), EncodeStorage(entries))))

LEMMA AccountForm ==
  ASSUME NEW account, Encodable(account), NEW n \in Nat, NEW e \in [1..n -> Nat]
  PROVE  /\ EncodeInt(account.balance) \in Seq(Bytes)
         /\ EncodeInt(account.nonce) \in Seq(Bytes)
         /\ EncodeCode(account.code) \in Seq(Bytes)
         /\ EncodeStorage(e) \in Seq(Bytes)
         /\ Cat(EncodeCode(account.code), EncodeStorage(e)) \in Seq(Bytes)
         /\ Cat(EncodeInt(account.nonce),
                Cat(EncodeCode(account.code), EncodeStorage(e))) \in Seq(Bytes)
         /\ Parts(account, e) \in Seq(Bytes)
         /\ AccountToValue(account, e) = EncodeList(Parts(account, e))
<1> DEFINE b == EncodeInt(account.balance)
           k == EncodeInt(account.nonce)
           c == EncodeCode(account.code)
           s == EncodeStorage(e)
<1>1. b \in Seq(Bytes) /\ k \in Seq(Bytes)
  BY EncodeIntForm DEF Encodable
<1>2. c \in Seq(Bytes)
  BY EncodeIntForm DEF EncodeCode
<1>3. s \in Seq(Bytes)
  BY StorageForm, ListForm, ZenonT(30)
<1>4. AccountToValue(account, e) = EncodeList(Cat(Cat(Cat(b, k), c), s))
  BY DEF AccountToValue, Cat
<1>5. Parts(account, e) = Cat(b, Cat(k, Cat(c, s)))
  BY DEF Parts
<1> HIDE DEF b, k, c, s
<1>6. Cat(c, s) \in Seq(Bytes) /\ Cat(b, k) \in Seq(Bytes)
  BY <1>1, <1>2, <1>3, CatIn
<1>7. Cat(k, Cat(c, s)) \in Seq(Bytes)
  BY <1>1, <1>6, CatIn
<1>8. Cat(b, Cat(k, Cat(c, s))) \in Seq(Bytes)
  BY <1>1, <1>7, CatIn
<1>9. Cat(Cat(Cat(b, k), c), s) = Cat(Cat(b, k), Cat(c, s))
  BY <1>2, <1>3, <1>6, CatAssociative
<1>10. Cat(Cat(b, k), Cat(c, s)) = Cat(b, Cat(k, Cat(c, s)))
  BY <1>1, <1>6, CatAssociative
<1> QED  BY <1>1, <1>2, <1>3, <1>4, <1>5, <1>6, <1>7, <1>8, <1>9, <1>10
         DEF b, k, c, s

(***************************************************************************)
(* The value of an account tells everything that was encoded: its balance, *)
(* nonce and code, and the entries of its storage in their order.          *)
(***************************************************************************)
THEOREM AccountToValueInjective ==
  ASSUME NEW a, NEW b, Encodable(a), Encodable(b), NEW m \in Nat, NEW n \in Nat,
         NEW e, ListOf(e, m, Nat), NEW f, ListOf(f, n, Nat),
         AccountToValue(a, e) = AccountToValue(b, f)
  PROVE  /\ a.balance = b.balance /\ a.nonce = b.nonce /\ a.code = b.code
         /\ m = n /\ e = f
<1>l. e \in [1..m -> Nat] /\ f \in [1..n -> Nat]
  BY DEF ListOf
<1> DEFINE ca == EncodeCode(a.code)
           cb == EncodeCode(b.code)
           sa == EncodeStorage(e)
           sb == EncodeStorage(f)
           x2 == Cat(ca, sa)
           y2 == Cat(cb, sb)
           x1 == Cat(EncodeInt(a.nonce), x2)
           y1 == Cat(EncodeInt(b.nonce), y2)
<1>0. /\ Parts(a, e) \in Seq(Bytes) /\ Parts(b, f) \in Seq(Bytes)
      /\ EncodeList(Parts(a, e)) = EncodeList(Parts(b, f))
      /\ sa \in Seq(Bytes) /\ sb \in Seq(Bytes)
      /\ x2 \in Seq(Bytes) /\ y2 \in Seq(Bytes)
      /\ x1 \in Seq(Bytes) /\ y1 \in Seq(Bytes)
  <2>1. /\ Parts(a, e) \in Seq(Bytes) /\ sa \in Seq(Bytes)
        /\ x2 \in Seq(Bytes) /\ x1 \in Seq(Bytes)
        /\ AccountToValue(a, e) = EncodeList(Parts(a, e))
    BY <1>l, AccountForm
  <2>2. /\ Parts(b, f) \in Seq(Bytes) /\ sb \in Seq(Bytes)
        /\ y2 \in Seq(Bytes) /\ y1 \in Seq(Bytes)
        /\ AccountToValue(b, f) = EncodeList(Parts(b, f))
    BY <1>l, AccountForm
  <2> QED  BY <2>1, <2>2
<1>1. Parts(a, e) = Parts(b, f)
  BY <1>0, ListInjective
<1>2. /\ Parts(a, e) = Cat(EncodeInt(a.balance), x1)
      /\ Parts(b, f) = Cat(EncodeInt(b.balance), y1)
  BY DEF Parts
<1>n. /\ a.balance \in Nat /\ a.nonce \in Nat /\ a.code \in BOOLEAN
      /\ b.balance \in Nat /\ b.nonce \in Nat /\ b.code \in BOOLEAN
  BY DEF Encodable
<1>3. a.balance = b.balance /\ x1 = y1
  <2>1. Cat(EncodeInt(a.balance), x1) = Cat(EncodeInt(b.balance), y1)
    BY <1>1, <1>2
  <2> HIDE DEF x1, y1
  <2> QED  BY <2>1, <1>0, <1>n, IntParse, BytesAlphabet, SMTT(30)
<1>4. a.nonce = b.nonce /\ x2 = y2
  <2>1. Cat(EncodeInt(a.nonce), x2) = Cat(EncodeInt(b.nonce), y2)
    BY <1>3
  <2> HIDE DEF x2, y2
  <2> QED  BY <2>1, <1>0, <1>n, IntParse, BytesAlphabet
<1>5. a.code = b.code /\ sa = sb
  <2> DEFINE u == IF a.code THEN 1 ELSE 0
             v == IF b.code THEN 1 ELSE 0
  <2>1. Cat(EncodeInt(u), sa) = Cat(EncodeInt(v), sb)
    BY <1>4 DEF EncodeCode
  <2>2. u \in Nat /\ v \in Nat
    OBVIOUS
  <2>3. u = v /\ sa = sb
    <3> HIDE DEF u, v, sa, sb
    <3> QED  BY <2>1, <2>2, <1>0, IntParse, BytesAlphabet
  <2> QED  BY <2>3, <1>n
<1>6. m = n /\ e = f
  BY <1>l, <1>5, StorageInjective
<1> QED  BY <1>3, <1>4, <1>5, <1>6

----------------------------------------------------------------------------
(***************************************************************************)
(* What an inner node is hashed over: values of accounts, digests and the  *)
(* placeholder of a missing child.  They are told apart by their first     *)
(* symbol, although they differ in length, and none continues another.     *)
(***************************************************************************)
IsDigest(w) == \E s : w = Digest(s)
Words(U)    == {w \in Seq(U) : w \in Values \/ IsDigest(w) \/ w = Zeros}

LEMMA ZeroWord ==
  Zeros \in Seq(Bytes) /\ Len(Zeros) = ZeroLen /\ ZeroLen >= 1 /\ Zeros[1] = Byte(0)
<1>1. ZeroLen \in Nat /\ ZeroLen >= 1
  BY CommitmentAssumption
<1>2. Byte(0) \in Bytes
  BY DEF Bytes
<1>3. Zeros \in [1..ZeroLen -> Bytes] /\ Zeros[1] = Byte(0)
  BY <1>1, <1>2 DEF Zeros
<1>4. Zeros \in Seq(Bytes)
  BY <1>1, <1>3
<1>5. Len(Zeros) = ZeroLen
  BY <1>1, <1>3, <1>4, LenProperties
<1> QED  BY <1>1, <1>3, <1>4, <1>5

LEMMA ValueWord ==
  ASSUME NEW w \in Values
  PROVE  /\ w \in Seq(Bytes) /\ Len(w) >= 1
         /\ \E k \in Nat : k >= 192 /\ w[1] = Byte(k)
<1>1. PICK s \in Seq(Bytes) : w = EncodeList(s)
  BY DEF Values
<1>2. w \in Seq(Bytes) /\ Len(w) >= 1
  BY <1>1, ListForm
<1>3. PICK k \in Nat : w[1] = Byte(192 + k)
  BY <1>1, ListForm
<1>4. 192 + k \in Nat /\ 192 + k >= 192
  OBVIOUS
<1> QED  BY <1>2, <1>3, <1>4

LEMMA DigestWord ==
  ASSUME NEW w, IsDigest(w)
  PROVE  Len(w) = 1 /\ w = <<w[1]>> /\ \A n : w[1] # Byte(n)
<1>1. PICK s : w = <<[digest |-> s]>>
  BY DEF IsDigest, Digest
<1>2. \A n : [digest |-> s] # Byte(n)
  BY DEF Byte
<1> QED  BY <1>1, <1>2

\* A child is never mistaken for a missing one.
LEMMA NotZeros ==
  ASSUME NEW w, w \in Values \/ IsDigest(w)
  PROVE  w # Zeros
<1>1. CASE w \in Values
  <2>1. PICK k \in Nat : k >= 192 /\ w[1] = Byte(k)
    BY <1>1, ValueWord
  <2>2. Byte(k) # Byte(0)
    BY <2>1, ByteInjective
  <2> QED  BY <2>1, <2>2, ZeroWord
<1>2. CASE IsDigest(w)
  BY <1>2, DigestWord, ZeroWord
<1> QED  BY <1>1, <1>2

LEMMA WordsCode ==
  ASSUME NEW U, Alphabet(U)
  PROVE  IsCode(Words(U), U)
<1>1. ASSUME NEW w \in Words(U)
      PROVE  /\ w \in Seq(U) /\ Len(w) >= 1
             /\ w \in Values \/ IsDigest(w) \/ w = Zeros
             /\ w \in Values => \E k \in Nat : k >= 192 /\ w[1] = Byte(k)
             /\ IsDigest(w) => Len(w) = 1 /\ \A n : w[1] # Byte(n)
             /\ w = Zeros => w[1] = Byte(0)
  <2>1. w \in Seq(U) /\ (w \in Values \/ IsDigest(w) \/ w = Zeros)
    BY DEF Words
  <2>2. w \in Values => Len(w) >= 1 /\ \E k \in Nat : k >= 192 /\ w[1] = Byte(k)
    BY ValueWord
  <2>3. IsDigest(w) => Len(w) = 1 /\ \A n : w[1] # Byte(n)
    BY DigestWord
  <2>4. w = Zeros => Len(w) >= 1 /\ w[1] = Byte(0)
    BY ZeroWord
  <2> QED  BY <2>1, <2>2, <2>3, <2>4
<1>2. ASSUME NEW s \in Words(U), NEW t \in Words(U), NEW x \in Seq(U),
             NEW y \in Seq(U), Cat(s, x) = Cat(t, y)
      PROVE  s = t
  <2>0. s \in Seq(U) /\ t \in Seq(U) /\ Len(s) >= 1 /\ Len(t) >= 1
    BY <1>1
  <2>1. s[1] = t[1]
    <3>1. Cat(s, x)[1] = s[1] /\ Cat(t, y)[1] = t[1]
      BY <2>0, FirstSymbol
    <3> QED  BY <1>2, <3>1
  <2>2. CASE s \in Values /\ t \in Values
    <3>1. PICK u \in Seq(Bytes) : s = EncodeList(u)
      BY <2>2 DEF Values
    <3>2. PICK v \in Seq(Bytes) : t = EncodeList(v)
      BY <2>2 DEF Values
    <3>3. u \in Seq(U) /\ v \in Seq(U)
      BY BytesIn
    <3>4. Cat(EncodeList(u), x) = Cat(EncodeList(v), y)
      BY <1>2, <3>1, <3>2
    <3>5. u = v
      BY <3>3, <3>4, ListParse
    <3> QED  BY <3>1, <3>2, <3>5
  <2>3. CASE Len(s) = Len(t)
    BY <2>0, <2>3, <1>2, Cancel
  <2>4. CASE s = Zeros /\ t = Zeros
    BY <2>4
  <2>5. CASE s \in Values /\ t \notin Values
    <3>1. PICK k \in Nat : k >= 192 /\ s[1] = Byte(k)
      BY <2>5, <1>1
    <3>2. ~IsDigest(t)
      BY <3>1, <2>1, <1>1
    <3>3. Byte(k) = Byte(0)
      BY <3>1, <3>2, <2>1, <2>5, <1>1
    <3>4. k = 0
      BY <3>3, ByteInjective
    <3> QED  BY <3>1, <3>4
  <2>6. CASE s \notin Values /\ t \in Values
    <3>1. PICK k \in Nat : k >= 192 /\ t[1] = Byte(k)
      BY <2>6, <1>1
    <3>2. ~IsDigest(s)
      BY <3>1, <2>1, <1>1
    <3>3. Byte(k) = Byte(0)
      BY <3>1, <3>2, <2>1, <2>6, <1>1
    <3>4. k = 0
      BY <3>3, ByteInjective
    <3> QED  BY <3>1, <3>4
  <2>7. CASE s \notin Values /\ t \notin Values
    <3>1. CASE IsDigest(s)
      <4>1. IsDigest(t)
        BY <3>1, <2>1, <2>7, <1>1
      <4> QED  BY <3>1, <4>1, <2>3, <1>1
    <3>2. CASE s = Zeros
      <4>1. t = Zeros
        BY <3>2, <2>1, <2>7, <1>1
      <4> QED  BY <3>2, <4>1
    <3> QED  BY <3>1, <3>2, <2>7, <1>1
  <2> QED  BY <2>2, <2>5, <2>6, <2>7
<1>3. Words(U) \subseteq Seq(U)
  BY DEF Words
<1>4. \A w \in Words(U) : Len(w) >= 1
  BY <1>1
<1> HIDE DEF Words
<1> QED  BY <1>2, <1>3, <1>4 DEF IsCode

(***************************************************************************)
(* The nodes of the tree and the accounts below them.                      *)
(***************************************************************************)
LEMMA NodeFacts ==
  ASSUME NEW p \in Nodes
  PROVE  /\ Len(p) \in 0..KeyLen /\ p \in Seq(0..Radix - 1)
         /\ DOMAIN p = 1..Len(p)
         /\ \A i \in 0..Radix - 1 : Len(p) # KeyLen =>
              /\ Append(p, i) \in Nodes
              /\ Len(Append(p, i)) = Len(p) + 1
              /\ DOMAIN Append(p, i) = 1..(Len(p) + 1)
              /\ Append(p, i)[Len(p) + 1] = i
              /\ \A j \in 1..Len(p) : Append(p, i)[j] = p[j]
<1> DEFINE D == 0..Radix - 1
<1>1. KeyLen \in Nat
  BY CommitmentAssumption
<1>2. PICK n \in 0..KeyLen : p \in [1..n -> D]
  BY DEF Nodes
<1>3. n \in Nat
  BY <1>1
<1> HIDE DEF D
<1>4. p \in Seq(D) /\ Len(p) = n /\ DOMAIN p = 1..n
  BY <1>2, <1>3, LenProperties
<1>5. ASSUME NEW i \in D, n # KeyLen
      PROVE  /\ Append(p, i) \in Nodes
             /\ Len(Append(p, i)) = n + 1
             /\ DOMAIN Append(p, i) = 1..(n + 1)
             /\ Append(p, i)[n + 1] = i
             /\ \A j \in 1..n : Append(p, i)[j] = p[j]
  <2> DEFINE q == Append(p, i)
  <2>1. /\ q \in Seq(D) /\ Len(q) = n + 1 /\ q[n + 1] = i
        /\ \A j \in 1..n : q[j] = p[j]
    BY <1>4, AppendProperties
  <2> HIDE DEF q
  <2>2. DOMAIN q = 1..(n + 1) /\ q \in [1..(n + 1) -> D]
    BY <2>1, LenProperties
  <2>3. n + 1 \in 0..KeyLen
    BY <1>1, <1>3, <1>5
  <2>4. q \in Nodes
    BY <2>2, <2>3 DEF Nodes, D
  <2> QED  BY <2>1, <2>2, <2>4 DEF q
<1> QED  BY <1>2, <1>4, <1>5 DEF D

LEMMA RootNode == <<>> \in Nodes /\ Len(<<>>) = 0 /\ KeyLen \in Nat /\ KeyLen # 0
<1>1. KeyLen \in Nat \ {0}
  BY CommitmentAssumption
<1>2. <<>> \in [1..0 -> 0..Radix - 1] /\ 0 \in 0..KeyLen
  BY <1>1
<1>3. <<>> \in Nodes
  BY <1>2 DEF Nodes
<1> QED  BY <1>1, <1>3

Keyed(values) == DOMAIN values \subseteq Address

LEMMA BelowChild ==
  ASSUME NEW values, NEW p \in Nodes, Len(p) # KeyLen, NEW i \in 0..Radix - 1
  PROVE  Below(values, Append(p, i)) =
           {a \in Below(values, p) : KeyOf(a)[Len(p) + 1] = i}
<1> DEFINE n == Len(p)
           q == Append(p, i)
<1>1. /\ n \in Nat /\ DOMAIN p = 1..n /\ DOMAIN q = 1..(n + 1)
      /\ q[n + 1] = i /\ \A j \in 1..n : q[j] = p[j]
  BY NodeFacts
<1> HIDE DEF n, q
<1>2. ASSUME NEW a
      PROVE  (\A j \in DOMAIN q : KeyOf(a)[j] = q[j])
               <=> (\A j \in DOMAIN p : KeyOf(a)[j] = p[j]) /\ KeyOf(a)[n + 1] = i
  <2>1. 1..(n + 1) = 1..n \cup {n + 1}
    BY <1>1
  <2> QED  BY <1>1, <2>1
<1>3. Below(values, q) = {a \in Below(values, p) : KeyOf(a)[n + 1] = i}
  BY <1>2 DEF Below
<1> QED  BY <1>3 DEF n, q

\* Every account below an inner node is below one of its children.
LEMMA BelowSome ==
  ASSUME NEW values, Keyed(values), NEW p \in Nodes, Len(p) # KeyLen,
         NEW a \in Below(values, p)
  PROVE  KeyOf(a)[Len(p) + 1] \in 0..Radix - 1
<1>1. a \in Address
  BY DEF Below, Keyed
<1>2. KeyOf(a) \in [1..KeyLen -> 0..Radix - 1] /\ KeyLen \in Nat
  BY <1>1, CommitmentAssumption
<1>3. Len(p) + 1 \in 1..KeyLen
  BY <1>2, NodeFacts
<1> QED  BY <1>2, <1>3

\* A leaf has one account.
LEMMA BelowLeaf ==
  ASSUME NEW p \in Nodes, Len(p) = KeyLen, NEW v, Keyed(v), NEW w, Keyed(w),
         NEW a \in Below(v, p), NEW b \in Below(w, p)
  PROVE  a = b
<1>1. a \in Address /\ b \in Address
  BY DEF Below, Keyed
<1>2. KeyOf(a) \in [1..KeyLen -> 0..Radix - 1] /\ KeyOf(b) \in [1..KeyLen -> 0..Radix - 1]
  BY <1>1, CommitmentAssumption
<1>3. \A i \in 1..KeyLen : KeyOf(a)[i] = KeyOf(b)[i]
  <2>1. DOMAIN p = 1..KeyLen
    BY NodeFacts
  <2> QED  BY <2>1 DEF Below
<1>4. KeyOf(a) = KeyOf(b)
  BY <1>2, <1>3
<1> QED  BY <1>1, <1>4, CommitmentAssumption

----------------------------------------------------------------------------
(***************************************************************************)
(* The hashes of the nodes.  A node's hash follows from those of its       *)
(* children, so hashes exist for all of them, from the leaves up.          *)
(***************************************************************************)
IsTree(values, H) == H = [p \in Nodes |-> HashOf(values, H, p)]

Child(values, H, p, i) ==
  IF Below(values, Append(p, i - 1)) # {} THEN H[Append(p, i - 1)] ELSE Zeros

ChildList(values, H, p) == [i \in 1..Radix |-> Child(values, H, p, i)]

LEMMA HashOfForm ==
  ASSUME NEW values, NEW H, NEW p \in Nodes
  PROVE  /\ Len(p) = KeyLen =>
              HashOf(values, H, p) = values[CHOOSE a \in Below(values, p) : TRUE]
         /\ Len(p) # KeyLen =>
              HashOf(values, H, p) = Digest(FlattenSeq(ChildList(values, H, p)))
<1> DEFINE children == {KeyOf(a)[Len(p) + 1] : a \in Below(values, p)}
           list == [i \in 1..Radix |->
                      IF i - 1 \in children THEN H[Append(p, i - 1)] ELSE Zeros]
<1>1. HashOf(values, H, p) =
        IF Len(p) = KeyLen THEN values[CHOOSE a \in Below(values, p) : TRUE]
                           ELSE Digest(FlattenSeq(list))
  BY DEF HashOf
<1>2. ASSUME Len(p) # KeyLen PROVE list = ChildList(values, H, p)
  <2>1. ASSUME NEW i \in 1..Radix
        PROVE  i - 1 \in children <=> Below(values, Append(p, i - 1)) # {}
    <3> DEFINE j == i - 1
    <3>1. j \in 0..Radix - 1
      BY CommitmentAssumption
    <3> HIDE DEF j
    <3>2. Below(values, Append(p, j)) =
            {a \in Below(values, p) : KeyOf(a)[Len(p) + 1] = j}
      BY <1>2, <3>1, BelowChild
    <3>3. j \in children <=> Below(values, Append(p, j)) # {}
      BY <3>2
    <3> QED  BY <3>3 DEF j
  <2>2. \A i \in 1..Radix :
          (IF i - 1 \in children THEN H[Append(p, i - 1)] ELSE Zeros)
            = Child(values, H, p, i)
    BY <2>1 DEF Child
  <2> HIDE DEF children
  <2> QED  BY <2>2 DEF ChildList
<1> HIDE DEF list
<1> QED  BY <1>1, <1>2

LEMMA TreeExists ==
  ASSUME NEW values
  PROVE  \E H : IsTree(values, H)
<1> DEFINE Upto(H, k) == H = [p \in Nodes |-> IF Len(p) + k >= KeyLen
                                              THEN HashOf(values, H, p) ELSE <<>>]
           S == {k \in Nat : \E H : Upto(H, k)}
<1>a. KeyLen \in Nat /\ Radix \in Nat
  BY CommitmentAssumption
<1>0. ASSUME NEW p \in Nodes, NEW G, NEW H,
             Len(p) # KeyLen => \A i \in 0..Radix - 1 : G[Append(p, i)] = H[Append(p, i)]
      PROVE  HashOf(values, G, p) = HashOf(values, H, p)
  <2>1. CASE Len(p) = KeyLen
    BY <2>1, HashOfForm
  <2>2. CASE Len(p) # KeyLen
    <3>1. ASSUME NEW i \in 1..Radix
          PROVE  Child(values, G, p, i) = Child(values, H, p, i)
      <4>1. i - 1 \in 0..Radix - 1
        BY <1>a
      <4> QED  BY <4>1, <2>2, <1>0 DEF Child
    <3>2. ChildList(values, G, p) = ChildList(values, H, p)
      BY <3>1 DEF ChildList
    <3> QED  BY <2>2, <3>2, HashOfForm
  <2> QED  BY <2>1, <2>2
<1>1. 0 \in S
  <2> DEFINE H == [p \in Nodes |-> IF Len(p) + 0 >= KeyLen
                                   THEN HashOf(values, <<>>, p) ELSE <<>>]
  <2>1. ASSUME NEW p \in Nodes, Len(p) + 0 >= KeyLen
        PROVE  HashOf(values, <<>>, p) = HashOf(values, H, p)
    <3>1. Len(p) = KeyLen
      BY <2>1, <1>a, NodeFacts
    <3> QED  BY <3>1, HashOfForm
  <2>2. Upto(H, 0)
    BY <2>1
  <2> HIDE DEF H
  <2> QED  BY <2>2
<1>2. ASSUME NEW k \in Nat, k \in S
      PROVE  k + 1 \in S
  <2>1. PICK G : Upto(G, k)
    BY <1>2
  <2> DEFINE H == [p \in Nodes |-> IF Len(p) + (k + 1) >= KeyLen
                                   THEN HashOf(values, G, p) ELSE <<>>]
  <2>2. ASSUME NEW p \in Nodes, Len(p) + k >= KeyLen
        PROVE  H[p] = G[p]
    <3>1. Len(p) \in Nat
      BY NodeFacts
    <3>2. H[p] = HashOf(values, G, p)
      BY <3>1, <2>2, <1>a
    <3>3. G[p] = HashOf(values, G, p)
      BY <2>1, <2>2
    <3> QED  BY <3>2, <3>3
  <2>h. H = [p \in Nodes |-> IF Len(p) + (k + 1) >= KeyLen
                             THEN HashOf(values, G, p) ELSE <<>>]
    OBVIOUS
  <2> HIDE DEF H
  <2>3. ASSUME NEW p \in Nodes, Len(p) + (k + 1) >= KeyLen
        PROVE  HashOf(values, G, p) = HashOf(values, H, p)
    <3>1. ASSUME Len(p) # KeyLen, NEW i \in 0..Radix - 1
          PROVE  G[Append(p, i)] = H[Append(p, i)]
      <4>1. Append(p, i) \in Nodes /\ Len(Append(p, i)) = Len(p) + 1 /\ Len(p) \in Nat
        BY <3>1, NodeFacts
      <4> DEFINE q == Append(p, i)
      <4>2. Len(q) + k >= KeyLen /\ q \in Nodes
        BY <4>1, <2>3, <1>a
      <4> HIDE DEF q
      <4>3. H[q] = G[q]
        BY <4>2, <2>2
      <4> QED  BY <4>3 DEF q
    <3> QED  BY <3>1, <1>0
  <2>4. Upto(H, k + 1)
    <3>1. \A p \in Nodes :
            (IF Len(p) + (k + 1) >= KeyLen THEN HashOf(values, G, p) ELSE <<>>)
              = (IF Len(p) + (k + 1) >= KeyLen THEN HashOf(values, H, p) ELSE <<>>)
      BY <2>3
    <3> QED  BY <3>1, <2>h
  <2> HIDE DEF Upto
  <2> QED  BY <2>4
<1>3. KeyLen \in S
  <2> HIDE DEF S
  <2> QED  BY <1>1, <1>2, <1>a, SetInduction
<1>4. PICK H : Upto(H, KeyLen)
  BY <1>3
<1>5. \A p \in Nodes : Len(p) + KeyLen >= KeyLen
  BY NodeFacts, <1>a
<1>6. IsTree(values, H)
  BY <1>4, <1>5 DEF IsTree
<1> QED  BY <1>6

LEMMA RootForm ==
  ASSUME NEW values, DOMAIN values # {}
  PROVE  \E H : IsTree(values, H) /\ StateRoot(values) = H[<<>>]
<1> DEFINE Hash == CHOOSE H : H = [p \in Nodes |-> HashOf(values, H, p)]
<1>1. Hash = [p \in Nodes |-> HashOf(values, Hash, p)]
  BY TreeExists DEF IsTree
<1>2. StateRoot(values) = Hash[<<>>]
  BY DEF StateRoot
<1>3. IsTree(values, Hash)
  BY <1>1 DEF IsTree
<1> HIDE DEF Hash
<1> QED  BY <1>2, <1>3

\* The hash of a leaf is the value of its account, any other is a digest.
LEMMA TreeStep ==
  ASSUME NEW values, NEW H, IsTree(values, H), NEW p \in Nodes
  PROVE  /\ Len(p) = KeyLen => H[p] = values[CHOOSE a \in Below(values, p) : TRUE]
         /\ Len(p) # KeyLen => H[p] = Digest(FlattenSeq(ChildList(values, H, p)))
<1>1. H[p] = HashOf(values, H, p)
  BY DEF IsTree
<1> QED  BY <1>1, HashOfForm

Valued(values) == Keyed(values) /\ \A a \in DOMAIN values : values[a] \in Values

LEMMA HashWord ==
  ASSUME NEW values, Valued(values), NEW H, IsTree(values, H), NEW p \in Nodes,
         Below(values, p) # {}
  PROVE  H[p] \in Values \/ IsDigest(H[p])
<1>1. CASE Len(p) = KeyLen
  <2> DEFINE a == CHOOSE x \in Below(values, p) : TRUE
  <2>1. a \in Below(values, p)
    OBVIOUS
  <2>2. a \in DOMAIN values
    BY <2>1 DEF Below
  <2>3. H[p] = values[a]
    BY <1>1, TreeStep
  <2> HIDE DEF a
  <2> QED  BY <2>2, <2>3 DEF Valued
<1>2. CASE Len(p) # KeyLen
  BY <1>2, TreeStep DEF IsDigest
<1> QED  BY <1>1, <1>2

LEMMA ChildWord ==
  ASSUME NEW values, Valued(values), NEW H, IsTree(values, H), NEW p \in Nodes,
         Len(p) # KeyLen, NEW i \in 1..Radix
  PROVE  LET c == Child(values, H, p, i)
         IN  /\ c \in Values \/ IsDigest(c) \/ c = Zeros
             /\ c = Zeros <=> Below(values, Append(p, i - 1)) = {}
<1> DEFINE q == Append(p, i - 1)
<1>1. q \in Nodes
  <2>1. i - 1 \in 0..Radix - 1
    BY CommitmentAssumption
  <2> QED  BY <2>1, NodeFacts
<1>2. Child(values, H, p, i) = IF Below(values, q) # {} THEN H[q] ELSE Zeros
  BY DEF Child
<1> HIDE DEF q
<1>3. Below(values, q) # {} => H[q] \in Values \/ IsDigest(H[q])
  BY <1>1, HashWord
<1> QED  BY <1>2, <1>3, NotZeros DEF q

\* Two inner nodes of one hash have children of the same hashes.
LEMMA SameChildren ==
  ASSUME NEW v, Valued(v), NEW H, IsTree(v, H), NEW w, Valued(w), NEW G, IsTree(w, G),
         NEW p \in Nodes, Len(p) # KeyLen, H[p] = G[p]
  PROVE  \A i \in 1..Radix : Child(v, H, p, i) = Child(w, G, p, i)
<1> DEFINE c == ChildList(v, H, p)
           d == ChildList(w, G, p)
           U == Bytes \cup {c[i][1] : i \in 1..Radix} \cup {d[i][1] : i \in 1..Radix}
<1>0. Radix \in Nat
  BY CommitmentAssumption
<1>1. FlattenSeq(c) = FlattenSeq(d)
  <2>1. H[p] = Digest(FlattenSeq(c)) /\ G[p] = Digest(FlattenSeq(d))
    BY TreeStep
  <2> HIDE DEF c, d
  <2>2. Digest(FlattenSeq(c)) = Digest(FlattenSeq(d))
    BY <2>1
  <2> QED  BY <2>2 DEF Digest
<1>2. ASSUME NEW i \in 1..Radix
      PROVE  /\ c[i] = Child(v, H, p, i) /\ d[i] = Child(w, G, p, i)
             /\ c[i] \in Values \/ IsDigest(c[i]) \/ c[i] = Zeros
             /\ d[i] \in Values \/ IsDigest(d[i]) \/ d[i] = Zeros
  <2>1. c[i] = Child(v, H, p, i) /\ d[i] = Child(w, G, p, i)
    BY DEF ChildList
  <2> QED  BY <2>1, ChildWord
<1>3. c = [i \in 1..Radix |-> c[i]] /\ d = [i \in 1..Radix |-> d[i]]
  BY DEF ChildList
<1> HIDE DEF c, d
<1>4. Alphabet(U)
  BY DEF Alphabet
<1>5. ASSUME NEW i \in 1..Radix
      PROVE  c[i][1] \in U /\ d[i][1] \in U
  OBVIOUS
<1> HIDE DEF U
<1>6. ASSUME NEW x, x \in Values \/ IsDigest(x) \/ x = Zeros, x[1] \in U
      PROVE  x \in Words(U)
  <2>1. CASE x \in Values \/ x = Zeros
    <3>1. x \in Seq(Bytes)
      BY <2>1, ValueWord, ZeroWord
    <3>2. x \in Seq(U)
      BY <3>1, <1>4, BytesIn
    <3> QED  BY <3>2, <1>6 DEF Words
  <2>2. CASE IsDigest(x)
    <3>1. x = <<x[1]>>
      BY <2>2, DigestWord
    <3> DEFINE y == x[1]
    <3>2. y \in U
      BY <1>6
    <3> HIDE DEF y
    <3>3. <<y>> \in Seq(U)
      BY <3>2
    <3>4. x \in Seq(U)
      BY <3>1, <3>3 DEF y
    <3> QED  BY <3>4, <1>6 DEF Words
  <2> QED  BY <2>1, <2>2, <1>6
<1>7. ASSUME NEW i \in 1..Radix
      PROVE  c[i] \in Words(U) /\ d[i] \in Words(U)
  BY <1>2, <1>5, <1>6
<1>8. ListOf(c, Radix, Words(U)) /\ ListOf(d, Radix, Words(U))
  BY <1>3, <1>7 DEF ListOf
<1>9. IsCode(Words(U), U)
  BY <1>4, WordsCode
<1>10. c = d
  BY <1>0, <1>1, <1>8, <1>9, FlattenParse
<1> QED  BY <1>2, <1>10

----------------------------------------------------------------------------
(***************************************************************************)
(* The hash of a node binds the accounts below it and their values: from   *)
(* the leaves up, k levels at a time.                                      *)
(***************************************************************************)
SameBelow(v, w, p) ==
  Below(v, p) = Below(w, p) /\ \A a \in Below(v, p) : v[a] = w[a]

Binds(v, H, w, G, p) ==
  Below(v, p) # {} /\ Below(w, p) # {} /\ H[p] = G[p] => SameBelow(v, w, p)

LEMMA LeafBinds ==
  ASSUME NEW v, Valued(v), NEW H, IsTree(v, H), NEW w, Valued(w), NEW G, IsTree(w, G),
         NEW p \in Nodes, Len(p) = KeyLen
  PROVE  Binds(v, H, w, G, p)
<1> SUFFICES ASSUME Below(v, p) # {}, Below(w, p) # {}, H[p] = G[p]
             PROVE  SameBelow(v, w, p)
  BY DEF Binds
<1> DEFINE a == CHOOSE x \in Below(v, p) : TRUE
           b == CHOOSE x \in Below(w, p) : TRUE
<1>1. a \in Below(v, p) /\ b \in Below(w, p)
  OBVIOUS
<1>2. H[p] = v[a] /\ G[p] = w[b]
  BY TreeStep
<1> HIDE DEF a, b
<1>3. Keyed(v) /\ Keyed(w)
  BY DEF Valued
<1>4. /\ \A x \in Below(v, p) : x = b
      /\ \A x \in Below(w, p) : a = x
  BY <1>1, <1>3, BelowLeaf
<1>5. Below(v, p) = {a} /\ Below(w, p) = {a} /\ a = b
  BY <1>1, <1>4
<1> QED  BY <1>2, <1>5 DEF SameBelow

LEMMA InnerBinds ==
  ASSUME NEW v, Valued(v), NEW H, IsTree(v, H), NEW w, Valued(w), NEW G, IsTree(w, G),
         NEW p \in Nodes, Len(p) # KeyLen,
         \A i \in 0..Radix - 1 : Binds(v, H, w, G, Append(p, i))
  PROVE  Binds(v, H, w, G, p)
<1> SUFFICES ASSUME H[p] = G[p] PROVE SameBelow(v, w, p)
  BY DEF Binds
<1>1. ASSUME NEW i \in 0..Radix - 1
      PROVE  SameBelow(v, w, Append(p, i))
  <2> DEFINE j == i + 1
             q == Append(p, i)
  <2>1. j \in 1..Radix /\ j - 1 = i
    BY CommitmentAssumption
  <2>2. /\ Child(v, H, p, j) = IF Below(v, q) # {} THEN H[q] ELSE Zeros
        /\ Child(w, G, p, j) = IF Below(w, q) # {} THEN G[q] ELSE Zeros
    BY <2>1 DEF Child
  <2>3. Append(p, j - 1) = q
    BY <2>1
  <2>4. Binds(v, H, w, G, q)
    OBVIOUS
  <2> HIDE DEF j, q
  <2>5. Child(v, H, p, j) = Child(w, G, p, j)
    BY <2>1, SameChildren
  <2>6. /\ Child(v, H, p, j) = Zeros <=> Below(v, q) = {}
        /\ Child(w, G, p, j) = Zeros <=> Below(w, q) = {}
    BY <2>1, <2>3, ChildWord
  <2>7. CASE Below(v, q) = {}
    <3>1. Below(w, q) = {}
      BY <2>5, <2>6, <2>7
    <3> QED  BY <2>7, <3>1 DEF SameBelow, q
  <2>8. CASE Below(v, q) # {}
    <3>1. Below(w, q) # {}
      BY <2>5, <2>6, <2>8
    <3>2. SameBelow(v, w, q)
      BY <2>2, <2>4, <2>5, <2>8, <3>1 DEF Binds
    <3> QED  BY <3>2 DEF q
  <2> QED  BY <2>7, <2>8
<1>2. Keyed(v) /\ Keyed(w)
  BY DEF Valued
<1>3. ASSUME NEW x, NEW y, Keyed(x), NEW a \in Below(x, p),
             \A i \in 0..Radix - 1 :
               /\ Below(x, Append(p, i)) = Below(y, Append(p, i))
               /\ \A b \in Below(x, Append(p, i)) : x[b] = y[b]
      PROVE  a \in Below(y, p) /\ x[a] = y[a]
  <2> DEFINE i == KeyOf(a)[Len(p) + 1]
             q == Append(p, i)
  <2>1. i \in 0..Radix - 1
    BY <1>3, BelowSome
  <2>2. Below(x, q) = Below(y, q) /\ \A b \in Below(x, q) : x[b] = y[b]
    BY <2>1, <1>3
  <2> DEFINE k == i
  <2>3. a \in {b \in Below(x, p) : KeyOf(b)[Len(p) + 1] = k}
    OBVIOUS
  <2> HIDE DEF k
  <2>4. k \in 0..Radix - 1
    BY <2>1 DEF k
  <2>5. /\ Below(x, Append(p, k)) = {b \in Below(x, p) : KeyOf(b)[Len(p) + 1] = k}
        /\ Below(y, Append(p, k)) = {b \in Below(y, p) : KeyOf(b)[Len(p) + 1] = k}
    BY <2>4, BelowChild
  <2>6. Append(p, k) = q
    BY DEF k
  <2> HIDE DEF q
  <2>7. a \in Below(x, q) /\ a \in Below(y, q)
    BY <2>2, <2>3, <2>5, <2>6
  <2>8. a \in Below(y, p)
    BY <2>5, <2>6, <2>7
  <2> QED  BY <2>2, <2>7, <2>8
<1>4. \A i \in 0..Radix - 1 :
        /\ Below(v, Append(p, i)) = Below(w, Append(p, i))
        /\ \A a \in Below(v, Append(p, i)) : v[a] = w[a]
        /\ \A a \in Below(w, Append(p, i)) : w[a] = v[a]
  BY <1>1 DEF SameBelow
<1>5. ASSUME NEW a \in Below(v, p) PROVE a \in Below(w, p) /\ v[a] = w[a]
  BY <1>2, <1>3, <1>4
<1>6. ASSUME NEW a \in Below(w, p) PROVE a \in Below(v, p)
  BY <1>2, <1>3, <1>4
<1> QED  BY <1>5, <1>6 DEF SameBelow

LEMMA TreesBind ==
  ASSUME NEW v, Valued(v), NEW H, IsTree(v, H), NEW w, Valued(w), NEW G, IsTree(w, G)
  PROVE  \A p \in Nodes : Binds(v, H, w, G, p)
<1> DEFINE S == {k \in Nat : \A p \in Nodes :
                   Len(p) + k = KeyLen => Binds(v, H, w, G, p)}
<1>a. KeyLen \in Nat
  BY RootNode
<1>1. 0 \in S
  <2>1. ASSUME NEW p \in Nodes, Len(p) + 0 = KeyLen PROVE Binds(v, H, w, G, p)
    <3>1. Len(p) = KeyLen
      BY <2>1, NodeFacts, <1>a
    <3> QED  BY <3>1, LeafBinds
  <2> QED  BY <2>1
<1>2. ASSUME NEW k \in Nat, k \in S PROVE k + 1 \in S
  <2>1. ASSUME NEW p \in Nodes, Len(p) + (k + 1) = KeyLen
        PROVE  Binds(v, H, w, G, p)
    <3>1. Len(p) \in Nat
      BY NodeFacts
    <3>2. Len(p) # KeyLen
      BY <2>1, <3>1, <1>a
    <3>3. ASSUME NEW i \in 0..Radix - 1
          PROVE  Binds(v, H, w, G, Append(p, i))
      <4> DEFINE q == Append(p, i)
      <4>1. q \in Nodes /\ Len(q) = Len(p) + 1
        BY <3>2, NodeFacts
      <4> HIDE DEF q
      <4>2. Len(q) + k = KeyLen
        BY <4>1, <2>1, <3>1, <1>a
      <4>3. Binds(v, H, w, G, q)
        BY <4>1, <4>2, <1>2
      <4> QED  BY <4>3 DEF q
    <3> QED  BY <3>2, <3>3, InnerBinds
  <2> QED  BY <2>1
<1>3. \A k \in Nat : k \in S
  <2> HIDE DEF S
  <2> QED  BY <1>1, <1>2, SetInduction
<1> SUFFICES ASSUME NEW p \in Nodes PROVE Binds(v, H, w, G, p)
  OBVIOUS
<1> DEFINE k == KeyLen - Len(p)
<1>4. k \in Nat /\ Len(p) + k = KeyLen
  BY NodeFacts, <1>a
<1> HIDE DEF k
<1>5. k \in S
  BY <1>3, <1>4
<1> QED  BY <1>4, <1>5

(***************************************************************************)
(* CalculateStateHashSPT binds the values it is given: of two maps from    *)
(* addresses to account values, whatever they hold, with one root, every   *)
(* address is in both or in neither, and has one value.  The leaves are    *)
(* not hashed, and a root could otherwise be that of other accounts whose  *)
(* bytes only happen to line up.                                           *)
(***************************************************************************)
THEOREM StateRootInjective ==
  ASSUME NEW v, Valued(v), NEW w, Valued(w), StateRoot(v) = StateRoot(w)
  PROVE  DOMAIN v = DOMAIN w /\ \A a \in DOMAIN v : v[a] = w[a]
<1>1. \A x : Below(x, <<>>) = DOMAIN x
  BY DEF Below
<1>2. ASSUME NEW x, DOMAIN x # {}, NEW H, IsTree(x, H)
      PROVE  H[<<>>] # <<>>
  <2>1. IsDigest(H[<<>>])
    BY <1>2, RootNode, TreeStep DEF IsDigest
  <2>2. Len(H[<<>>]) = 1
    BY <2>1, DigestWord
  <2> QED  BY <2>2
<1>3. ASSUME NEW x, DOMAIN x = {} PROVE StateRoot(x) = <<>>
  BY <1>3 DEF StateRoot
<1>4. ASSUME NEW x, DOMAIN x # {} PROVE StateRoot(x) # <<>>
  <2>1. PICK H : IsTree(x, H) /\ StateRoot(x) = H[<<>>]
    BY <1>4, RootForm
  <2> QED  BY <2>1, <1>2, <1>4
<1>5. CASE DOMAIN v = {}
  <2>1. DOMAIN w = {}
    BY <1>3, <1>4, <1>5
  <2> QED  BY <2>1, <1>5
<1>6. CASE DOMAIN v # {}
  <2>1. DOMAIN w # {}
    BY <1>3, <1>4, <1>6
  <2>2. PICK H : IsTree(v, H) /\ StateRoot(v) = H[<<>>]
    BY <1>6, RootForm
  <2>3. PICK G : IsTree(w, G) /\ StateRoot(w) = G[<<>>]
    BY <2>1, RootForm
  <2> DEFINE p == <<>>
  <2>4. p \in Nodes
    BY RootNode
  <2>5. Below(v, p) = DOMAIN v /\ Below(w, p) = DOMAIN w /\ H[p] = G[p]
    BY <1>1, <2>2, <2>3
  <2> HIDE DEF p
  <2>6. Binds(v, H, w, G, p)
    BY <2>2, <2>3, <2>4, TreesBind
  <2>7. SameBelow(v, w, p)
    BY <2>1, <2>5, <2>6, <1>6 DEF Binds
  <2> QED  BY <2>5, <2>7 DEF SameBelow
<1> QED  BY <1>5, <1>6

----------------------------------------------------------------------------
(***************************************************************************)
(* From the values to the accounts: the entries of the storage come in any *)
(* order, and all of it is among them.                                     *)
(***************************************************************************)
LEMMA EntriesOfStorage ==
  ASSUME NEW S, S \subseteq Slots, NEW e \in SetToSeqs(S)
  PROVE  LET n == Cardinality(S)
         IN  /\ n \in Nat /\ e \in [1..n -> Nat]
             /\ S = {e[i] : i \in 1..n}
<1> DEFINE n == Cardinality(S)
<1>1. IsFiniteSet(S) /\ n \in Nat /\ S \subseteq Nat
  BY CommitmentAssumption, FS_Subset, FS_CardinalityType
<1>2. e \in [1..n -> S] /\ \A i, j \in 1..n : i # j => e[i] # e[j]
  BY DEF SetToSeqs
<1> DEFINE D == 1..n
<1>3. IsFiniteSet(D) /\ Cardinality(D) = n
  <2> HIDE DEF n
  <2> QED  BY <1>1, FS_Interval
<1>4. e \in Injection(D, S)
  BY <1>2 DEF Injection, IsInjective
<1>5. e \in Surjection(D, S)
  <2> HIDE DEF D
  <2> QED  BY <1>1, <1>3, <1>4, FS_Injection
<1>6. \A s \in S : \E i \in 1..n : e[i] = s
  BY <1>5 DEF Surjection
<1> HIDE DEF n
<1>7. S = {e[i] : i \in 1..n}
  BY <1>2, <1>6
<1>8. e \in [1..n -> Nat]
  BY <1>1, <1>2
<1> QED  BY <1>1, <1>7, <1>8 DEF n

\* The values a root of the accounts is computed from.
IsPick(db, pick) == \A a \in DOMAIN db : pick[a] \in SetToSeqs(db[a].storage)
ValuesOf(db, pick) == [a \in DOMAIN db |-> AccountToValue(db[a], pick[a])]

LEMMA RootOf ==
  ASSUME NEW db, NEW root \in Roots(db)
  PROVE  \E pick : IsPick(db, pick) /\ root = StateRoot(ValuesOf(db, pick))
<1> DEFINE orders(a) == SetToSeqs(db[a].storage)
           picks == {pick \in [DOMAIN db -> UNION {orders(a) : a \in DOMAIN db}] :
                       \A a \in DOMAIN db : pick[a] \in orders(a)}
<1>1. Roots(db) = {StateRoot([a \in DOMAIN db |->
                     AccountToValue(db[a], pick[a])]) : pick \in picks}
  BY DEF Roots, StateRoots
<1>2. PICK pick \in picks : root = StateRoot(ValuesOf(db, pick))
  <2> HIDE DEF picks
  <2> QED  BY <1>1 DEF ValuesOf
<1> QED  BY <1>2 DEF IsPick

LEMMA AccountFacts ==
  ASSUME NEW db, Typed(db), Solvent(db), NEW a \in DOMAIN db
  PROVE  /\ Encodable(db[a]) /\ db[a].storage \subseteq Slots
         /\ db[a] = [balance |-> db[a].balance, nonce |-> db[a].nonce,
                     code |-> db[a].code, storage |-> db[a].storage]
<1>1. db[a] \in Account /\ db[a].balance >= 0
  BY DEF Typed, Solvent
<1> QED  BY <1>1 DEF Account, Encodable

LEMMA ValuesValued ==
  ASSUME NEW db, Typed(db), Solvent(db), NEW pick, IsPick(db, pick)
  PROVE  Valued(ValuesOf(db, pick))
<1>1. ASSUME NEW a \in DOMAIN db
      PROVE  AccountToValue(db[a], pick[a]) \in Values
  <2> DEFINE S == db[a].storage
             e == pick[a]
             n == Cardinality(S)
  <2>1. S \subseteq Slots /\ e \in SetToSeqs(S)
    BY AccountFacts DEF IsPick
  <2>2. n \in Nat /\ e \in [1..n -> Nat]
    BY <2>1, EntriesOfStorage
  <2>3. Encodable(db[a])
    BY AccountFacts
  <2> HIDE DEF e, n
  <2>4. /\ Parts(db[a], e) \in Seq(Bytes)
        /\ AccountToValue(db[a], e) = EncodeList(Parts(db[a], e))
    BY <2>2, <2>3, AccountForm
  <2> QED  BY <2>4 DEF Values, e
<1> QED  BY <1>1 DEF Valued, Keyed, ValuesOf, Typed

(***************************************************************************)
(* A state root binds the accounts: two databases the indexer could have,  *)
(* of which one root can be computed, are the same, account for account,   *)
(* in balance, nonce, code and slots.                                      *)
(***************************************************************************)
THEOREM RootsBindAccounts ==
  ASSUME NEW db, Typed(db), Solvent(db), NEW other, Typed(other), Solvent(other),
         NEW root \in Roots(db), root \in Roots(other)
  PROVE  DOMAIN db = DOMAIN other /\ \A a \in DOMAIN db : db[a] = other[a]
<1>1. PICK p : IsPick(db, p) /\ root = StateRoot(ValuesOf(db, p))
  BY RootOf
<1>2. PICK q : IsPick(other, q) /\ root = StateRoot(ValuesOf(other, q))
  BY RootOf
<1> DEFINE v == ValuesOf(db, p)
           w == ValuesOf(other, q)
<1>3. Valued(v) /\ Valued(w)
  BY <1>1, <1>2, ValuesValued
<1>4. DOMAIN v = DOMAIN db /\ DOMAIN w = DOMAIN other
  BY DEF ValuesOf
<1>5. DOMAIN v = DOMAIN w /\ \A a \in DOMAIN v : v[a] = w[a]
  <2>1. StateRoot(v) = StateRoot(w)
    BY <1>1, <1>2
  <2> HIDE DEF v, w
  <2> QED  BY <1>3, <2>1, StateRootInjective
<1>6. ASSUME NEW a \in DOMAIN db PROVE db[a] = other[a]
  <2>0. a \in DOMAIN other
    BY <1>4, <1>5
  <2> DEFINE S == db[a].storage
             T == other[a].storage
             m == Cardinality(S)
             n == Cardinality(T)
             e == p[a]
             f == q[a]
  <2>1. AccountToValue(db[a], e) = AccountToValue(other[a], f)
    <3>1. v[a] = w[a]
      BY <1>4, <1>5
    <3> QED  BY <3>1, <2>0 DEF ValuesOf
  <2>2. m \in Nat /\ e \in [1..m -> Nat] /\ S = {e[i] : i \in 1..m}
    <3>1. S \subseteq Slots /\ e \in SetToSeqs(S)
      BY <1>1, AccountFacts DEF IsPick
    <3> QED  BY <3>1, EntriesOfStorage
  <2>3. n \in Nat /\ f \in [1..n -> Nat] /\ T = {f[i] : i \in 1..n}
    <3>1. T \subseteq Slots /\ f \in SetToSeqs(T)
      BY <1>2, <2>0, AccountFacts DEF IsPick
    <3> QED  BY <3>1, EntriesOfStorage
  <2>4. Encodable(db[a]) /\ Encodable(other[a])
    BY <2>0, AccountFacts
  <2>5. /\ db[a].balance = other[a].balance /\ db[a].nonce = other[a].nonce
        /\ db[a].code = other[a].code /\ m = n /\ e = f
    <3>1. ListOf(e, m, Nat) /\ ListOf(f, n, Nat)
      BY <2>2, <2>3 DEF ListOf
    <3> HIDE DEF e, f, m, n
    <3> QED  BY <3>1, <2>1, <2>2, <2>3, <2>4, AccountToValueInjective
  <2>6. S = T
    <3> HIDE DEF e, f, m, n, S, T
    <3> QED  BY <2>2, <2>3, <2>5
  <2> QED  BY <2>0, <2>5, <2>6, AccountFacts
<1> QED  BY <1>4, <1>5, <1>6

\* A variant of the accounts is one the indexer could have, and not the same.
LEMMA VariantFacts ==
  ASSUME NEW db, Typed(db), Solvent(db), NEW other \in Variants(db)
  PROVE  /\ Typed(other) /\ Solvent(other)
         /\ ~(DOMAIN db = DOMAIN other /\ \A a \in DOMAIN db : db[a] = other[a])
<1>1. ASSUME NEW a \in DOMAIN db, NEW account \in Account, account.balance >= 0,
             account # db[a], other = SaveAccount(db, a, account)
      PROVE  /\ Typed(other) /\ Solvent(other) /\ other[a] # db[a]
  <2>1. a \in Address
    BY DEF Typed
  <2> QED  BY <1>1, <2>1, SaveTyped DEF SaveAccount
<1>2. ASSUME NEW a \in DOMAIN db PROVE db[a] \in Account /\ db[a].balance >= 0
  BY DEF Typed, Solvent
<1>3. ASSUME NEW a \in DOMAIN db,
             other = SaveAccount(db, a, [db[a] EXCEPT !.balance = @ + 1])
      PROVE  Typed(other) /\ Solvent(other) /\ other[a] # db[a]
  <2> DEFINE account == [db[a] EXCEPT !.balance = @ + 1]
  <2>1. account \in Account /\ account.balance >= 0 /\ account # db[a]
    BY <1>2 DEF Account
  <2> HIDE DEF account
  <2>2. other = SaveAccount(db, a, account)
    BY <1>3 DEF account
  <2> QED  BY <2>1, <2>2, <1>1
<1>4. ASSUME NEW a \in DOMAIN db,
             other = SaveAccount(db, a, [db[a] EXCEPT !.nonce = @ + 1])
      PROVE  Typed(other) /\ Solvent(other) /\ other[a] # db[a]
  <2> DEFINE account == [db[a] EXCEPT !.nonce = @ + 1]
  <2>1. account \in Account /\ account.balance >= 0 /\ account # db[a]
    BY <1>2 DEF Account
  <2> HIDE DEF account
  <2>2. other = SaveAccount(db, a, account)
    BY <1>4 DEF account
  <2> QED  BY <2>1, <2>2, <1>1
<1>5. ASSUME NEW a \in DOMAIN db, NEW s \in Slots,
             other = SaveAccount(db, a, [db[a] EXCEPT !.storage = SymDiff(@, {s})])
      PROVE  Typed(other) /\ Solvent(other) /\ other[a] # db[a]
  <2> DEFINE account == [db[a] EXCEPT !.storage = SymDiff(@, {s})]
  <2>1. SymDiff(db[a].storage, {s}) \subseteq Slots
    BY <1>2 DEF Account, SymDiff
  <2>2. SymDiff(db[a].storage, {s}) # db[a].storage
    BY DEF SymDiff
  <2>3. account \in Account /\ account.balance >= 0
    BY <1>2, <2>1 DEF Account
  <2>4. account.storage = SymDiff(db[a].storage, {s})
    BY <1>2 DEF Account
  <2> HIDE DEF account
  <2>5. other = SaveAccount(db, a, account) /\ account # db[a]
    BY <1>5, <2>2, <2>4 DEF account
  <2> QED  BY <2>3, <2>5, <1>1
<1>6. ASSUME NEW a \in DOMAIN db, other = [x \in DOMAIN db \ {a} |-> db[x]]
      PROVE  Typed(other) /\ Solvent(other) /\ a \notin DOMAIN other
  BY <1>6 DEF Typed, Solvent
<1>7. ASSUME NEW a \in DOMAIN db, NEW b \in DOMAIN db, db[b] # db[a],
             other = [SaveAccount(db, a, db[b]) EXCEPT ![b] = db[a]]
      PROVE  Typed(other) /\ Solvent(other) /\ other[a] # db[a]
  <2>1. DOMAIN other = DOMAIN db
    BY <1>7 DEF SaveAccount
  <2>2. \A x \in DOMAIN db : other[x] = IF x = b THEN db[a]
                                        ELSE IF x = a THEN db[b] ELSE db[x]
    BY <1>7 DEF SaveAccount
  <2>3. a # b
    BY <1>7
  <2> QED  BY <2>1, <2>2, <2>3, <1>7 DEF Typed, Solvent
<1>8. PICK a \in DOMAIN db :
        \/ other = SaveAccount(db, a, [db[a] EXCEPT !.balance = @ + 1])
        \/ other = SaveAccount(db, a, [db[a] EXCEPT !.nonce = @ + 1])
        \/ other = [x \in DOMAIN db \ {a} |-> db[x]]
        \/ \E s \in Slots :
             other = SaveAccount(db, a, [db[a] EXCEPT !.storage = SymDiff(@, {s})])
        \/ \E b \in DOMAIN db :
             db[b] # db[a] /\ other = [SaveAccount(db, a, db[b]) EXCEPT ![b] = db[a]]
  BY Zenon DEF Variants
<1> QED  BY <1>3, <1>4, <1>5, <1>6, <1>7, <1>8

(***************************************************************************)
(* In every reachable state no root of the accounts is one of accounts     *)
(* that differ in a balance, a nonce, a slot or an address, or have two    *)
(* accounts exchanged: what a batch commits to is this state and no other. *)
(***************************************************************************)
THEOREM RootBindsCorrect == Spec => []RootBinds
<1>1. AccountsInv => RootBinds
  <2> SUFFICES ASSUME AccountsInv, NEW other \in Variants(accounts),
                      NEW root \in Roots(other), root \in Roots(accounts)
               PROVE  FALSE
    BY DEF RootBinds
  <2>1. Typed(accounts) /\ Solvent(accounts)
    BY DEF AccountsInv
  <2>2. /\ Typed(other) /\ Solvent(other)
        /\ ~(DOMAIN accounts = DOMAIN other
               /\ \A a \in DOMAIN accounts : accounts[a] = other[a])
    BY <2>1, VariantFacts
  <2> QED  BY <2>1, <2>2, RootsBindAccounts
<1> QED  BY <1>1, AccountsCorrect, PTL

=============================================================================
