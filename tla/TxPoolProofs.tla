--------------------------- MODULE TxPoolProofs -----------------------------
(***************************************************************************)
(* Proofs about the transaction pool for any number of clients, requests,  *)
(* failed calls and crashes: type correctness, which includes that no      *)
(* refused transaction gets anywhere, and that every transaction added to  *)
(* the pool is sent to Geth once.                                          *)
(***************************************************************************)
EXTENDS TxPool, SequenceTheorems, FiniteSetTheorems, TLAPS

\* What goes through the pool and the list of Process.
LEMMA CheckedSeq ==
  ASSUME NEW s \in Seq(Checked), s # <<>>
  PROVE  Head(s) \in Checked /\ Tail(s) \in Seq(Checked)
  BY HeadTailProperties

\* A sorted pool is a pool of the same transactions.
LEMMA OrderTyped ==
  ASSUME NEW s \in Seq(Checked), NEW u \in GasOrders(s)
  PROVE  /\ u \in Seq(Checked)
         /\ \E p \in Bijection(DOMAIN s, DOMAIN s) :
              u = [i \in DOMAIN s |-> s[p[i]]]
<1>1. PICK p \in Bijection(DOMAIN s, DOMAIN s) :
        u = [i \in DOMAIN s |-> s[p[i]]]
  BY DEF GasOrders
<1>2. /\ DOMAIN s = 1..Len(s) /\ Len(s) \in Nat
      /\ \A i \in 1..Len(s) : s[i] \in Checked
  BY LenProperties, ElementOfSeq
<1>3. \A i \in DOMAIN s : p[i] \in DOMAIN s
  BY DEF Bijection, Injection
<1>4. u \in [1..Len(s) -> Checked]
  BY <1>1, <1>2, <1>3
<1> QED  BY <1>1, <1>2, <1>4, SeqDef

(***************************************************************************)
(* TypeOK is inductive together with what AdmitRequest has checked: the    *)
(* transaction of a request that is stored and pooled is not refused.      *)
(***************************************************************************)
HandlerInv ==
  \A c \in Clients : handler[c].pc # "idle" => handler[c].tx \in Checked

AllInv == TypeOK /\ HandlerInv

LEMMA TypeStep == AllInv /\ [Next]_vars => AllInv'
<1> SUFFICES ASSUME AllInv, [Next]_vars PROVE AllInv'
  OBVIOUS
<1> USE PoolAssumption DEF AllInv, TypeOK
<1> DEFINE Place == [pc : {"idle", "put", "add"}, tx : Txs]
<1>i. Idle \in Place /\ Idle.pc = "idle"
  BY DEF Idle, SomeTx
<1>e. <<>> \in Seq(Checked)
  BY EmptySeq
<1>a. ASSUME NEW t \in Checked
      PROVE  Append(txs, t) \in Seq(Checked)
  BY <1>a, AppendProperties
\* A step that leaves the handlers alone.
<1>h. ASSUME TypeOK', UNCHANGED handler
      PROVE  AllInv'
  BY <1>h DEF HandlerInv
<1>1. ASSUME NEW c \in Clients, NEW t \in Txs, DenyRequest(c, t)
      PROVE  AllInv'
  <2>1. UNCHANGED <<handler, txnDB, txs, locked, txList, added, offered,
                    known, errors, crashes>>
    BY <1>1 DEF DenyRequest, pool, counts
  <2>2. requests' \in 0..MaxRequests
    BY <1>1 DEF DenyRequest, SendRequest
  <2>3. [tx |-> t, ok |-> FALSE] \in Answer
    BY DEF Answer
  <2>4. answers' \subseteq Answer
    BY <1>1, <2>3 DEF DenyRequest
  <2> QED  BY <2>1, <2>2, <2>4, <1>h
<1>2. ASSUME NEW c \in Clients, NEW t \in Txs, AdmitRequest(c, t)
      PROVE  AllInv'
  <2>1. UNCHANGED <<answers, txnDB, txs, locked, txList, added, offered,
                    known, errors, crashes>>
    BY <1>2 DEF AdmitRequest, pool, counts
  <2>2. requests' \in 0..MaxRequests
    BY <1>2 DEF AdmitRequest, SendRequest
  <2>3. handler' = [handler EXCEPT ![c] = [pc |-> "put", tx |-> t]]
        /\ t \in Checked
    BY <1>2 DEF AdmitRequest, Admitted, Checked
  <2>4. handler' \in [Clients -> Place] /\ HandlerInv'
    BY <2>3 DEF HandlerInv
  <2> QED  BY <2>1, <2>2, <2>4
<1>3. ASSUME NEW c \in Clients, PutTx(c)
      PROVE  AllInv'
  <2>1. UNCHANGED <<answers, requests, txs, locked, txList, added, offered,
                    known, errors, crashes>>
    BY <1>3 DEF PutTx, pool, counts
  <2>2. handler[c] \in Place /\ handler[c].tx \in Checked
    BY <1>3 DEF PutTx, HandlerInv
  <2>3. txnDB' \subseteq Checked
    BY <1>3, <2>2 DEF PutTx
  <2>4. /\ handler' \in [Clients -> Place]
        /\ handler'[c].tx = handler[c].tx
        /\ \A d \in Clients : d # c => handler'[d] = handler[d]
    BY <1>3, <2>2 DEF PutTx
  <2> QED  BY <2>1, <2>2, <2>3, <2>4 DEF HandlerInv
<1>4. ASSUME NEW c \in Clients, AddTx(c)
      PROVE  AllInv'
  <2>1. UNCHANGED <<requests, txnDB, locked, txList, offered, known, errors,
                    crashes>>
    BY <1>4 DEF AddTx
  <2>2. handler[c].tx \in Checked /\ handler[c].tx \in Txs
    BY <1>4 DEF AddTx, HandlerInv, Checked
  <2>a. [tx |-> handler[c].tx, ok |-> TRUE] \in Answer
    BY <2>2 DEF Answer
  <2>3. answers' \subseteq Answer
    BY <1>4, <2>a DEF AddTx, AnswerOk
  <2>4. txs' \in Seq(Checked) /\ added' \in [Txs -> Nat]
    BY <1>4, <1>a, <2>2 DEF AddTx
  <2>5. handler' \in [Clients -> Place] /\ HandlerInv'
    BY <1>4, <1>i DEF AddTx, HandlerInv
  <2> QED  BY <2>1, <2>3, <2>4, <2>5
<1>5. CASE TakePool
  <2>1. UNCHANGED <<handler, answers, requests, txnDB, txs, added, offered,
                    known, errors, crashes>> /\ locked' \in BOOLEAN
    BY <1>5 DEF TakePool, counts
  <2>2. txList' \in Seq(Checked)
    BY <1>5, OrderTyped DEF TakePool
  <2> QED  BY <2>1, <2>2, <1>h
<1>6. ASSUME NEW t \in Txs, Offer(t)
      PROVE  /\ UNCHANGED <<handler, answers, requests, txnDB, locked, added,
                            crashes>>
             /\ txList' \in Seq(Checked) /\ offered' \in [Txs -> Nat]
             /\ t \in Checked
  BY <1>6, CheckedSeq DEF Offer
<1>7. CASE SendRawTransaction
  <2>1. PICK t \in Txs : Offer(t) /\ known' = known \cup {t}
                         /\ UNCHANGED <<txs, errors>>
    BY <1>7 DEF SendRawTransaction
  <2> QED  BY <2>1, <1>6, <1>h
<1>8. CASE SendFails
  <2>1. errors' \in 0..MaxErrors
    BY <1>8 DEF SendFails
  <2>2. PICK t \in Txs : /\ Offer(t)
                         /\ known' \in {known, known \cup {t}}
                         /\ txs' = Append(txs, t)
    BY <1>8 DEF SendFails
  <2>3. known' \subseteq Checked /\ txs' \in Seq(Checked)
    BY <2>2, <1>6, <1>a
  <2> QED  BY <2>1, <2>2, <2>3, <1>6, <1>h
<1>9. CASE ClearPool
  BY <1>9, <1>e, <1>h DEF ClearPool, counts
<1>10. CASE Crash
  <2>1. UNCHANGED <<answers, requests, txnDB, known, errors>>
    BY <1>10 DEF Crash
  <2>4. txs' \in Seq(Checked) /\ txList' \in Seq(Checked)
        /\ locked' \in BOOLEAN
    BY <1>10, <1>e DEF Crash
  <2>5. crashes' \in 0..MaxCrashes
    BY <1>10 DEF Crash
  <2>2. added' \in [Txs -> Nat] /\ offered' \in [Txs -> Nat]
    BY <1>10 DEF Crash
  <2>3. handler' \in [Clients -> Place] /\ HandlerInv'
    BY <1>10, <1>i DEF Crash, HandlerInv
  <2> QED  BY <2>1, <2>2, <2>3, <2>4, <2>5
<1>11. CASE Sleep \/ UNCHANGED vars
  BY <1>11, <1>h DEF Sleep, vars, pool, counts
<1> QED
  BY <1>1, <1>2, <1>3, <1>4, <1>5, <1>7, <1>8, <1>9, <1>10, <1>11
  DEF Next, Handler, Process

LEMMA AllCorrect == Spec => []AllInv
<1>1. Init => AllInv
  <2> SUFFICES ASSUME Init PROVE AllInv
    OBVIOUS
  <2>1. Idle \in [pc : {"idle", "put", "add"}, tx : Txs] /\ Idle.pc = "idle"
    BY PoolAssumption DEF Idle, SomeTx
  <2>2. /\ handler \in [Clients -> [pc : {"idle", "put", "add"}, tx : Txs]]
        /\ HandlerInv
    BY <2>1 DEF Init, HandlerInv
  <2>3. /\ <<>> \in Seq(Checked)
        /\ 0 \in 0..MaxRequests /\ 0 \in 0..MaxErrors /\ 0 \in 0..MaxCrashes
    BY PoolAssumption, EmptySeq
  <2>4. added \in [Txs -> Nat] /\ offered \in [Txs -> Nat]
    BY DEF Init
  <2> QED  BY <2>2, <2>3, <2>4 DEF Init, AllInv, TypeOK
<1> QED  BY <1>1, TypeStep, PTL DEF Spec

(***************************************************************************)
(* Every variable keeps its type, and a transaction the handler finds a    *)
(* fault with is never stored, pooled or sent.                             *)
(***************************************************************************)
THEOREM TypeCorrect == Spec => []TypeOK
<1>1. AllInv => TypeOK
  BY DEF AllInv
<1> QED  BY <1>1, AllCorrect, PTL

----------------------------------------------------------------------------
(***************************************************************************)
(* OfferedOnce.  How often a transaction is in a sequence.                 *)
(***************************************************************************)
Places(s, t) == {i \in DOMAIN s : s[i] = t}

LEMMA SameSize ==
  ASSUME NEW S, NEW T, IsFiniteSet(S), NEW f \in [S -> T],
         \A a, b \in S : f[a] = f[b] => a = b,
         \A b \in T : \E a \in S : f[a] = b
  PROVE  Cardinality(T) = Cardinality(S)
<1>1. f \in Bijection(S, T)
  BY DEF Bijection, Injection, Surjection, IsInjective
<1>2. ExistsBijection(S, T)
  BY <1>1 DEF ExistsBijection
<1> QED  BY <1>2, FS_Bijection

LEMMA PlacesFinite ==
  ASSUME NEW s \in Seq(Txs), NEW t
  PROVE  /\ IsFiniteSet(Places(s, t))
         /\ Copies(s, t) = Cardinality(Places(s, t))
         /\ Copies(s, t) \in Nat
<1>1. DOMAIN s = 1..Len(s) /\ Len(s) \in Nat
  BY LenProperties
<1>2. Places(s, t) \in SUBSET (1..Len(s)) /\ IsFiniteSet(1..Len(s))
  BY <1>1, FS_Interval DEF Places
<1>3. IsFiniteSet(Places(s, t))
  BY <1>2, FS_Subset
<1>4. Copies(s, t) = Cardinality(Places(s, t))
  BY DEF Copies, Places
<1> QED  BY <1>3, <1>4, FS_CardinalityType

LEMMA CopiesEmpty ==
  ASSUME NEW t
  PROVE  Copies(<<>>, t) = 0
<1>1. Places(<<>>, t) = {}
  BY DEF Places
<1> QED  BY <1>1, FS_EmptySet DEF Copies, Places

LEMMA CopiesAppend ==
  ASSUME NEW s \in Seq(Txs), NEW u \in Txs, NEW t
  PROVE  Copies(Append(s, u), t) = Copies(s, t) + (IF t = u THEN 1 ELSE 0)
<1> DEFINE s2 == Append(s, u)
           n  == Len(s)
<1>1. /\ n \in Nat /\ DOMAIN s = 1..n
      /\ s2 \in Seq(Txs) /\ Len(s2) = n + 1
      /\ s2[n + 1] = u /\ \A i \in 1..n : s2[i] = s[i]
  BY LenProperties, AppendProperties
<1>2. DOMAIN s2 = 1..(n + 1)
  BY <1>1, LenProperties
<1> HIDE DEF s2, n
<1>3. /\ IsFiniteSet(Places(s, t)) /\ Copies(s, t) = Cardinality(Places(s, t))
      /\ Copies(s2, t) = Cardinality(Places(s2, t)) /\ Copies(s, t) \in Nat
  BY <1>1, PlacesFinite
<1>4. CASE t = u
  <2>1. Places(s2, t) = Places(s, t) \cup {n + 1} /\ n + 1 \notin Places(s, t)
    BY <1>1, <1>2, <1>4 DEF Places
  <2>2. Cardinality(Places(s2, t)) = Cardinality(Places(s, t)) + 1
    BY <2>1, <1>3, FS_AddElement
  <2> QED  BY <2>2, <1>3, <1>4 DEF s2
<1>5. CASE t # u
  <2>1. Places(s2, t) = Places(s, t)
    BY <1>1, <1>2, <1>5 DEF Places
  <2> QED  BY <2>1, <1>3, <1>5 DEF s2
<1> QED  BY <1>4, <1>5

LEMMA CopiesTail ==
  ASSUME NEW s \in Seq(Txs), s # <<>>, NEW t
  PROVE  Copies(s, t) = Copies(Tail(s), t) + (IF t = Head(s) THEN 1 ELSE 0)
<1> DEFINE r == Tail(s)
           n == Len(r)
<1>1. /\ n \in Nat /\ DOMAIN r = 1..n /\ r \in Seq(Txs)
      /\ Len(s) = n + 1 /\ DOMAIN s = 1..(n + 1)
      /\ s[1] = Head(s) /\ \A i \in 1..n : r[i] = s[i + 1]
  <2>1. Len(s) \in Nat /\ DOMAIN s = 1..Len(s) /\ Len(s) # 0
    BY LenProperties, EmptySeq
  <2>2. r \in Seq(Txs) /\ Len(r) = Len(s) - 1
        /\ \A i \in 1..Len(r) : r[i] = s[i + 1]
    BY HeadTailProperties
  <2>3. DOMAIN r = 1..Len(r) /\ Len(r) \in Nat
    BY <2>2, LenProperties
  <2> QED  BY <2>1, <2>2, <2>3
<1> HIDE DEF r, n
<1> DEFINE P == Places(r, t)
           Q == Places(s, t) \ {1}
           f == [i \in P |-> i + 1]
<1>2. /\ IsFiniteSet(P) /\ Copies(r, t) = Cardinality(P)
      /\ IsFiniteSet(Places(s, t)) /\ Copies(s, t) = Cardinality(Places(s, t))
      /\ Copies(s, t) \in Nat /\ Copies(r, t) \in Nat
  BY <1>1, PlacesFinite
<1>3. P \subseteq 1..n /\ Q \subseteq 2..(n + 1)
  BY <1>1 DEF Places
<1>4. \A i \in P : i + 1 \in Q
  BY <1>1 DEF Places
<1>5. \A j \in Q : j - 1 \in P /\ (j - 1) + 1 = j
  BY <1>1 DEF Places
<1> HIDE DEF P, Q
<1>6. f \in [P -> Q]
  BY <1>4
<1>7. \A a, b \in P : f[a] = f[b] => a = b
  BY <1>3
<1>8. \A b \in Q : \E a \in P : f[a] = b
  BY <1>5
<1> HIDE DEF f
<1>9. Cardinality(Q) = Cardinality(P)
  BY <1>2, <1>6, <1>7, <1>8, SameSize
<1>10. Cardinality(Q) = IF 1 \in Places(s, t) THEN Cardinality(Places(s, t)) - 1
                                              ELSE Cardinality(Places(s, t))
  BY <1>2, FS_RemoveElement DEF Q
<1>11. 1 \in Places(s, t) <=> t = Head(s)
  BY <1>1 DEF Places
<1> QED  BY <1>2, <1>9, <1>10, <1>11 DEF r

\* Sorting keeps every transaction as often as it was there.
LEMMA CopiesSorted ==
  ASSUME NEW s \in Seq(Checked), NEW u \in GasOrders(s), NEW t
  PROVE  Copies(u, t) = Copies(s, t)
<1>1. PICK p \in Bijection(DOMAIN s, DOMAIN s) :
        u = [i \in DOMAIN s |-> s[p[i]]]
  BY OrderTyped
<1>2. /\ p \in [DOMAIN s -> DOMAIN s]
      /\ \A a, b \in DOMAIN s : p[a] = p[b] => a = b
      /\ \A b \in DOMAIN s : \E a \in DOMAIN s : p[a] = b
  BY DEF Bijection, Injection, Surjection, IsInjective
<1>3. s \in Seq(Txs) /\ u \in Seq(Txs)
  <2>1. u \in Seq(Checked)
    BY OrderTyped
  <2> QED  BY <2>1, SeqMonotonic DEF Checked
<1> DEFINE P == Places(u, t)
           Q == Places(s, t)
           f == [i \in P |-> p[i]]
<1>4. /\ IsFiniteSet(P) /\ Copies(u, t) = Cardinality(P)
      /\ Copies(s, t) = Cardinality(Q)
  BY <1>3, PlacesFinite
<1>5. /\ P \subseteq DOMAIN s /\ \A i \in P : p[i] \in Q
      /\ \A i \in DOMAIN s : p[i] \in Q => i \in P
      /\ Q \subseteq DOMAIN s
  BY <1>1, <1>2 DEF Places
<1> HIDE DEF P, Q
<1>6. f \in [P -> Q]
  BY <1>5
<1>7. \A a, b \in P : f[a] = f[b] => a = b
  BY <1>2, <1>5
<1>8. \A b \in Q : \E a \in P : f[a] = b
  BY <1>2, <1>5
<1> HIDE DEF f
<1> QED  BY <1>4, <1>6, <1>7, <1>8, SameSize


(***************************************************************************)
(* OfferedOnce is inductive with TypeOK: the variables it is about change  *)
(* in AddTx, in the steps of Process and in a crash.                       *)
(***************************************************************************)
LEMMA OfferedStep == AllInv /\ OfferedOnce /\ [Next]_vars => OfferedOnce'
<1> SUFFICES ASSUME AllInv, OfferedOnce, [Next]_vars
             PROVE  OfferedOnce'
  OBVIOUS
<1>t. /\ txs \in Seq(Txs) /\ txList \in Seq(Txs) /\ txs \in Seq(Checked)
      /\ locked \in BOOLEAN
      /\ added \in [Txs -> Nat] /\ offered \in [Txs -> Nat]
  <2>1. txs \in Seq(Checked) /\ txList \in Seq(Checked)
    BY DEF AllInv, TypeOK
  <2>2. txs \in Seq(Txs) /\ txList \in Seq(Txs)
    BY <2>1, SeqMonotonic DEF Checked
  <2> QED  BY <2>1, <2>2 DEF AllInv, TypeOK
<1>c. \A t \in Txs : Copies(txs, t) \in Nat /\ Copies(txList, t) \in Nat
  BY <1>t, PlacesFinite
<1>e. \A t \in Txs : Copies(<<>>, t) = 0
  BY CopiesEmpty
\* The invariant before the step, by who holds the pool.
<1>o. \A t \in Txs :
        added[t] = offered[t] + (IF locked THEN Copies(txList, t)
                                           ELSE Copies(txs, t))
  BY DEF OfferedOnce
\* The invariant after it.
<1>p. ASSUME \A t \in Txs :
               added'[t] = offered'[t] + (IF locked' THEN Copies(txList', t)
                                                     ELSE Copies(txs', t))
      PROVE  OfferedOnce'
  BY <1>p DEF OfferedOnce
<1>1. ASSUME UNCHANGED <<txs, locked, txList, added, offered>>
      PROVE  OfferedOnce'
  BY <1>1, <1>o, <1>p
<1>2. ASSUME NEW c \in Clients,
             \/ PutTx(c)
             \/ \E t \in Txs : DenyRequest(c, t) \/ AdmitRequest(c, t)
      PROVE  OfferedOnce'
  <2>1. UNCHANGED <<txs, locked, txList, added, offered>>
    BY <1>2 DEF PutTx, DenyRequest, AdmitRequest, pool, counts
  <2> QED  BY <2>1, <1>1
<1>3. ASSUME NEW c \in Clients, AddTx(c)
      PROVE  OfferedOnce'
  <2> DEFINE u == handler[c].tx
  <2>1. u \in Txs
    BY <1>3 DEF AddTx, AllInv, TypeOK
  <2>2. /\ ~locked /\ ~locked' /\ txs' = Append(txs, u)
        /\ added' = [added EXCEPT ![u] = @ + 1] /\ offered' = offered
    BY <1>3, <1>t DEF AddTx
  <2> HIDE DEF u
  <2>3. ASSUME NEW t \in Txs
        PROVE  added'[t] = offered'[t] + Copies(txs', t)
    <3>1. Copies(txs', t) = Copies(txs, t) + (IF t = u THEN 1 ELSE 0)
      BY <2>1, <2>2, <1>t, CopiesAppend
    <3>2. added'[t] = added[t] + (IF t = u THEN 1 ELSE 0)
      BY <2>1, <2>2, <1>t
    <3>3. added[t] = offered[t] + Copies(txs, t) /\ offered'[t] = offered[t]
      BY <2>2, <1>o
    <3>4. offered[t] \in Nat /\ Copies(txs, t) \in Nat
      BY <1>t, <1>c
    <3> QED  BY <3>1, <3>2, <3>3, <3>4
  <2> QED  BY <2>2, <2>3, <1>p
<1>4. CASE TakePool
  <2>1. /\ ~locked /\ locked' /\ txList' \in GasOrders(txs)
        /\ UNCHANGED <<added, offered>>
    BY <1>4 DEF TakePool, counts
  <2>2. \A t \in Txs : Copies(txList', t) = Copies(txs, t)
    BY <2>1, <1>t, CopiesSorted
  <2> QED  BY <2>1, <2>2, <1>o, <1>p
<1>5. ASSUME NEW u \in Txs, Offer(u)
      PROVE  OfferedOnce'
  <2>1. /\ locked /\ locked' /\ txList # <<>> /\ u = Head(txList)
        /\ txList' = Tail(txList)
        /\ offered' = [offered EXCEPT ![u] = @ + 1] /\ added' = added
    BY <1>5, <1>t DEF Offer
  <2>2. ASSUME NEW t \in Txs
        PROVE  added'[t] = offered'[t] + Copies(txList', t)
    <3>1. Copies(txList, t) = Copies(txList', t) + (IF t = u THEN 1 ELSE 0)
      BY <2>1, <1>t, CopiesTail
    <3>2. offered'[t] = offered[t] + (IF t = u THEN 1 ELSE 0)
      BY <2>1, <1>t
    <3>3. added[t] = offered[t] + Copies(txList, t) /\ added'[t] = added[t]
      BY <2>1, <1>o
    <3>4. Tail(txList) \in Seq(Txs)
      BY <2>1, <1>t, HeadTailProperties
    <3>5. offered[t] \in Nat /\ Copies(txList', t) \in Nat
      BY <3>4, <2>1, <1>t, PlacesFinite
    <3> QED  BY <3>1, <3>2, <3>3, <3>5
  <2> QED  BY <2>1, <2>2, <1>p
<1>6. CASE SendRawTransaction \/ SendFails
  BY <1>5, <1>6 DEF SendRawTransaction, SendFails
<1>7. CASE ClearPool
  <2>1. /\ locked /\ ~locked' /\ txList = <<>> /\ txs' = <<>>
        /\ UNCHANGED <<added, offered>>
    BY <1>7 DEF ClearPool, counts
  <2> QED  BY <2>1, <1>e, <1>o, <1>p
<1>8. CASE Crash
  <2>1. /\ ~locked' /\ txs' = <<>>
        /\ \A t \in Txs : added'[t] = 0 /\ offered'[t] = 0
    BY <1>8 DEF Crash
  <2> QED  BY <2>1, <1>e, <1>p
<1>9. CASE Sleep \/ UNCHANGED vars
  BY <1>9, <1>1 DEF Sleep, vars, pool, counts
<1> QED
  BY <1>2, <1>3, <1>4, <1>6, <1>7, <1>8, <1>9 DEF Next, Handler, Process

(***************************************************************************)
(* Every transaction the process has added to the pool is in the pool, in  *)
(* the list that Process sends from, or was sent to Geth, once for each    *)
(* time it was added.                                                      *)
(***************************************************************************)
THEOREM OfferedOnceCorrect == Spec => []OfferedOnce
<1>1. Init => OfferedOnce
  BY CopiesEmpty DEF Init, OfferedOnce
<1> QED  BY <1>1, OfferedStep, AllCorrect, PTL DEF Spec


=============================================================================
