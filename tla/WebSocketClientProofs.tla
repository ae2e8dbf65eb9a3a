----------------------- MODULE WebSocketClientProofs ------------------------
(***************************************************************************)
(* Proofs about one WebSocket connection, for any number of subscriptions, *)
(* any capacity of the channel and any number of requests and events: type *)
(* correctness, who holds the mutex, the order of the messages, and what   *)
(* the closing handshake guarantees.                                       *)
(***************************************************************************)
EXTENDS WebSocketClient, SequenceTheorems, TLAPS

(***************************************************************************)
(* The mutex is held by just the goroutine that is in its critical section *)
(* (Go has no record of the owner), until a panic ends all of them.        *)
(***************************************************************************)
LockInv ==
  /\ wpc # "dead" =>
       /\ rpc # "dead" /\ \A s \in Subs : spc[s] # "dead"
       /\ mu = "reader" <=> rpc = "send"
       /\ mu = "writer" <=> wpc \in {"write", "ping", "shut"}
       /\ \A s \in Subs : mu = s <=> spc[s] = "send"
  /\ wpc = "dead" => rpc = "dead" /\ \A s \in Subs : spc[s] = "dead"

(***************************************************************************)
(* The manager knows the client, and its channel is open, from Connect to  *)
(* the end of the reading pump, which is the one that unregisters it.      *)
(***************************************************************************)
Reading == {"read", "subscribe", "unsubscribe", "lock", "send", "unregister"}

OpenInv ==
  /\ rpc = "new" <=> wpc = "new"
  /\ rpc \in Reading => registered /\ ~sendClosed
  /\ sendClosed => ~registered /\ rpc \in {"close", "done", "dead"}

(***************************************************************************)
(* The writing pump has a message in its hand only between taking it and   *)
(* writing it, and takes the end of the channel for the end of the stream  *)
(* only when the channel is empty and closed.                              *)
(***************************************************************************)
HandInv ==
  /\ wpc \in {"new", "select", "tick", "ping", "end", "shut"} => hand = <<>>
  /\ wpc \in {"end", "shut"} => send = <<>> /\ sendClosed
  /\ closed => wpc \in {"exit", "done"} /\ sendClosed
  /\ InOrder
  /\ ClosedInOrder

(***************************************************************************)
(* A key comes into the map for a subscription that is new, so that its    *)
(* channel cannot have been closed before.                                 *)
(***************************************************************************)
MapInv ==
  /\ MappedAreOpen
  /\ \A s \in subscriptions \cup cancelled : spc[s] # "new"
  /\ rpc = "subscribe" => spc[target] = "new"

----------------------------------------------------------------------------
\* What the peer does, and the passing of the read deadline.
Peer == PeerGone \/ PeerStalls \/ PeerResumes \/ ReadDeadline

\* It changes the link only.
LEMMA PeerStep ==
  ASSUME Peer
  PROVE  /\ conn' \in {conn, "lapsed", "broken"}
         /\ stalled \in BOOLEAN => stalled' \in BOOLEAN
         /\ UNCHANGED <<registered, send, sendClosed, queued, mu, closed,
                        subscriptions, cancelled, rpc, target, wpc, hand,
                        written, spc, requests, events, pings>>
<1> USE DEF channel, mapping, reader, writer, bounds
<1>1. CASE PeerGone
  BY <1>1 DEF PeerGone
<1>2. CASE PeerStalls
  BY <1>2 DEF PeerStalls
<1>3. CASE PeerResumes
  BY <1>3 DEF PeerResumes
<1>4. CASE ReadDeadline
  BY <1>4 DEF ReadDeadline
<1> QED  BY <1>1, <1>2, <1>3, <1>4 DEF Peer

(***************************************************************************)
(* Every step keeps TypeOK; it is inductive, because it has the number of  *)
(* messages in the channel and the target of a request in it.              *)
(***************************************************************************)
LEMMA TypeStep == TypeOK /\ [Next]_vars => TypeOK'
<1> SUFFICES ASSUME TypeOK, [Next]_vars PROVE TypeOK'
  OBVIOUS
<1> USE ClientAssumption
<1>e. ASSUME Enqueue, TypeOK
      PROVE  /\ send' \in Seq(Nat) /\ Len(send') <= SendCap
             /\ queued' \in Nat /\ sendClosed' \in BOOLEAN /\ mu' = "free"
  <2>1. /\ send \in Seq(Nat) /\ queued' \in Nat /\ Len(send) < SendCap
        /\ send' = Append(send, queued')
        /\ mu' = "free" /\ sendClosed' \in BOOLEAN
    BY <1>e DEF Enqueue, TypeOK
  <2>2. send' \in Seq(Nat) /\ Len(send') = Len(send) + 1
    BY <2>1, AppendProperties
  <2>3. Len(send) \in Nat
    BY <2>1, LenProperties
  <2> QED  BY <2>1, <2>2, <2>3
<1>1. CASE Connect \/ Peer \/ SendOnClosed
  <2>1. CASE Connect
    BY <2>1 DEF TypeOK, link, Connect, channel, reader, writer, mapping, bounds
  <2>2. CASE Peer
    <3>1. conn' \in {"open", "lapsed", "broken", "closed"} /\ stalled' \in BOOLEAN
      BY <2>2, PeerStep DEF TypeOK
    <3>2. UNCHANGED <<registered, send, sendClosed, queued, mu, closed,
                      subscriptions, cancelled, rpc, target, wpc, hand,
                      written, spc, requests, events, pings>>
      BY <2>2, PeerStep
    <3> QED  BY <3>1, <3>2 DEF TypeOK
  <2>3. CASE SendOnClosed
    BY <2>3 DEF TypeOK, SendOnClosed, channel, reader, writer, mapping, bounds
  <2> QED  BY <1>1, <2>1, <2>2, <2>3
<1>2. CASE ReadRequest
  BY <1>2 DEF TypeOK, link, ReadRequest, channel, writer, mapping
<1>3. CASE Subscribe \/ Unsubscribe \/ LockForResponse
  BY <1>3 DEF TypeOK, link, Subscribe, Unsubscribe, LockForResponse, channel,
     writer, mapping, bounds
<1>4. CASE SendResponse
  <2>1. Enqueue
    BY <1>4 DEF SendResponse
  <2> QED
    BY <1>4, <1>e, <2>1 DEF TypeOK, link, SendResponse, writer, mapping, bounds
<1>5. CASE ReadError \/ Unregister \/ CloseConnection
  <2>1. CASE ReadError
    BY <2>1 DEF TypeOK, link, ReadError, channel, writer, mapping, bounds
  <2>2. CASE Unregister
    BY <2>2 DEF TypeOK, link, Unregister, channel, writer, mapping, bounds
  <2>3. CASE CloseConnection
    BY <2>3 DEF TypeOK, CloseConnection, channel, writer, mapping, bounds
  <2> QED  BY <1>5, <2>1, <2>2, <2>3
<1>6. CASE Receive
  <2>1. send # <<>> /\ send \in Seq(Nat) /\ send' = Tail(send)
        /\ hand' = <<Head(send)>>
    BY <1>6 DEF TypeOK, Receive
  <2>2. Head(send) \in Nat /\ send' \in Seq(Nat) /\ Len(send') = Len(send) - 1
    BY <2>1, HeadTailProperties
  <2>3. hand' \in Seq(Nat) /\ Len(send') <= SendCap
    BY <2>1, <2>2, LenProperties DEF TypeOK
  <2> QED
    BY <1>6, <2>2, <2>3 DEF TypeOK, link, Receive, reader, mapping, bounds
<1>7. CASE ReceiveClosed \/ LockForWrite
  <2>1. CASE ReceiveClosed
    BY <2>1 DEF TypeOK, link, ReceiveClosed, channel, reader, mapping, bounds
  <2>2. CASE LockForWrite
    BY <2>2 DEF TypeOK, link, LockForWrite, channel, reader, mapping, bounds
  <2> QED  BY <1>7, <2>1, <2>2
<1>12. CASE WritePing
  BY <1>12 DEF TypeOK, link, WritePing, channel, reader, mapping, bounds
<1>13. CASE WriteClose \/ ExitWriter
  BY <1>13 DEF TypeOK, link, WriteClose, ExitWriter, channel, reader, mapping,
     bounds
<1>8. CASE Tick
  BY <1>8 DEF TypeOK, link, Tick, channel, reader, mapping
<1>9. CASE WriteMessages
  <2>1. <<>> \in Seq(Nat) /\ Len(<<>>) = 0
    BY EmptySeq
  <2>2. written \o hand \in Seq(Nat) /\ send \in Seq(Nat)
    BY ConcatProperties DEF TypeOK
  <2>3. written \o hand \o send \in Seq(Nat)
    BY <2>2, ConcatProperties
  <2>4. /\ written' \in {written, written \o hand \o send} /\ hand' = <<>>
        /\ send' \in {send, <<>>} /\ wpc' \in {"select", "exit"}
        /\ mu' = "free"
    BY <1>9 DEF WriteMessages
  <2>5. written' \in Seq(Nat) /\ hand' \in Seq(Nat) /\ send' \in Seq(Nat)
        /\ Len(send') <= SendCap
    <3>1. written' \in Seq(Nat)
      BY <2>3, <2>4 DEF TypeOK
    <3>2. hand' \in Seq(Nat)
      BY <2>1, <2>4
    <3>3. send' = <<>> => Len(send') = 0 /\ send' \in Seq(Nat)
      BY <2>1, Zenon
    <3>4. send' \in Seq(Nat) /\ Len(send') <= SendCap
      BY <2>4, <3>3 DEF TypeOK
    <3> QED  BY <3>1, <3>2, <3>4
  <2> QED
    BY <1>9, <2>4, <2>5 DEF TypeOK, link, WriteMessages, reader, mapping, bounds
<1>10. ASSUME NEW s \in Subs, Event(s) \/ Subscription(s)
       PROVE  TypeOK'
  <2>1. CASE StartSubscription(s) \/ Cancelled(s) \/ LockForNotification(s)
    <3>1. PICK pc \in {"wait", "send", "exit"} : spc' = [spc EXCEPT ![s] = pc]
      BY <2>1 DEF StartSubscription, Cancelled, LockForNotification
    <3>2. spc' \in [Subs -> {"new", "start", "wait", "lock", "send", "exit",
                             "done", "dead"}]
      BY <3>1 DEF TypeOK
    <3>3. UNCHANGED <<conn, stalled, registered, send, sendClosed, queued, closed,
                      subscriptions, cancelled, rpc, target, wpc, hand,
                      written, requests, events, pings>>
      BY <2>1 DEF StartSubscription, Cancelled, LockForNotification, link,
         channel, mapping, reader, writer, bounds
    <3>4. mu' \in {mu, s}
      BY <2>1 DEF StartSubscription, Cancelled, LockForNotification
    <3> QED  BY <3>2, <3>3, <3>4 DEF TypeOK
  <2>5. CASE ExitSubscription(s)
    BY <2>5 DEF TypeOK, link, ExitSubscription, channel, reader, writer, bounds
  <2>2. CASE Event(s)
    BY <2>2 DEF TypeOK, link, Event, channel, reader, writer, mapping
  <2>3. CASE SendNotification(s)
    <3>1. Enqueue
      BY <2>3 DEF SendNotification
    <3> QED
      BY <2>3, <1>e, <3>1
      DEF TypeOK, link, SendNotification, reader, writer, mapping, bounds
  <2> QED  BY <1>10, <2>1, <2>2, <2>3, <2>5 DEF Subscription
<1>11. CASE UNCHANGED vars
  BY <1>11 DEF TypeOK, link, vars, channel, reader, writer, mapping, bounds
<1> QED
  BY <1>1, <1>2, <1>3, <1>4, <1>5, <1>6, <1>7, <1>8, <1>9, <1>10, <1>11,
     <1>12, <1>13
  DEF Next, Peer, Reader, Writer

(***************************************************************************)
(* Every variable keeps its type; in particular the channel never holds    *)
(* more than its capacity, since every sender waits for room.              *)
(***************************************************************************)
THEOREM TypeCorrect == Spec => []TypeOK
<1>1. Init => TypeOK
  <2>1. <<>> \in Seq(Nat) /\ Len(<<>>) = 0
    BY EmptySeq
  <2>2. 0 \in 0..MaxRequests /\ 0 \in 0..MaxEvents /\ 0 \in 0..MaxPings
        /\ 0 <= SendCap
    BY ClientAssumption
  <2> SUFFICES ASSUME Init PROVE TypeOK
    OBVIOUS
  <2>3. send \in Seq(Nat) /\ hand \in Seq(Nat) /\ written \in Seq(Nat)
        /\ Len(send) = 0
    BY <2>1 DEF Init
  <2>4. /\ spc \in [Subs -> {"new", "start", "wait", "lock", "send", "exit",
                             "done", "dead"}]
        /\ subscriptions \subseteq Subs /\ cancelled \subseteq Subs
        /\ target \in Subs \cup {NoSub}
    BY DEF Init
  <2> QED  BY <2>2, <2>3, <2>4 DEF Init, TypeOK
<1> QED  BY <1>1, TypeStep, PTL DEF Spec

----------------------------------------------------------------------------
(***************************************************************************)
(* Every step keeps LockInv: a goroutine enters its critical section only  *)
(* while mu is free, and leaves it freeing mu.                             *)
(***************************************************************************)
LEMMA LockStep ==
  TypeOK /\ LockInv /\ OpenInv /\ [Next]_vars => LockInv'
<1> SUFFICES ASSUME TypeOK, LockInv, OpenInv, [Next]_vars PROVE LockInv'
  OBVIOUS
<1>n. \A s \in Subs : s # "free" /\ s # "reader" /\ s # "writer"
  BY ClientAssumption
<1>1. CASE SendOnClosed
  BY <1>1 DEF SendOnClosed, LockInv
\* The steps of the pumps outside their critical sections.
<1>2. CASE \/ Connect \/ ReadRequest \/ Unsubscribe \/ ReadError
           \/ Unregister \/ CloseConnection
  <2>1. /\ UNCHANGED <<mu, spc>> /\ rpc' # "dead" /\ rpc # "dead"
        /\ rpc' # "send" /\ rpc # "send"
        /\ \/ UNCHANGED wpc
           \/ wpc' = "select" /\ rpc = "new"
    BY <1>2 DEF Connect, ReadRequest, Unsubscribe, ReadError, Unregister,
       CloseConnection, writer
  <2>2. rpc = "new" => wpc = "new"
    BY DEF OpenInv
  <2> QED  BY <2>1, <2>2 DEF LockInv
<1>8. CASE Subscribe
  <2>1. /\ UNCHANGED <<mu, wpc>> /\ rpc' = "lock" /\ rpc = "subscribe"
        /\ target \in Subs /\ mu = "free"
        /\ spc' = [spc EXCEPT ![target] = "start"]
    BY <1>8 DEF Subscribe, TypeOK, writer
  <2>2. \A s \in Subs : spc'[s] = IF s = target THEN "start" ELSE spc[s]
    BY <2>1 DEF TypeOK
  <2> QED  BY <2>1, <2>2, <1>n DEF LockInv
<1>9. CASE Peer \/ Tick \/ Receive \/ ReceiveClosed \/ ExitWriter
           \/ UNCHANGED vars
  <2>1. UNCHANGED <<mu, spc, rpc>>
    BY <1>9, PeerStep DEF Tick, Receive, ReceiveClosed, ExitWriter, vars,
       reader
  <2>2. \/ UNCHANGED wpc
        \/ /\ wpc \notin {"dead", "write", "ping", "shut"}
           /\ wpc' \notin {"dead", "write", "ping", "shut"}
    BY <1>9, PeerStep DEF Tick, Receive, ReceiveClosed, ExitWriter, vars,
       writer
  <2> QED  BY <2>1, <2>2 DEF LockInv
<1>3. CASE LockForResponse
  BY <1>3, <1>n DEF LockForResponse, LockInv, writer
<1>4. CASE SendResponse
  BY <1>4, <1>n DEF SendResponse, Enqueue, LockInv, writer
<1>5. CASE LockForWrite
  BY <1>5, <1>n DEF LockForWrite, LockInv, reader
<1>6. CASE WriteMessages \/ WritePing \/ WriteClose
  <2>1. /\ wpc \in {"write", "ping", "shut"} /\ wpc' \in {"select", "exit"}
        /\ mu' = "free" /\ UNCHANGED <<rpc, spc>>
    BY <1>6 DEF WriteMessages, WritePing, WriteClose, reader
  <2> QED  BY <2>1, <1>n DEF LockInv
<1>7. ASSUME NEW s \in Subs, Event(s) \/ Subscription(s)
      PROVE  LockInv'
  <2>1. UNCHANGED <<rpc, wpc>>
    BY <1>7 DEF Event, Subscription, StartSubscription, LockForNotification,
       SendNotification, Cancelled, ExitSubscription, reader, writer
  <2>2. PICK pc : spc' = [spc EXCEPT ![s] = pc] /\ pc # "dead"
    BY <1>7 DEF Event, Subscription, StartSubscription, LockForNotification,
       SendNotification, Cancelled, ExitSubscription
  <2>3. \A r \in Subs : spc'[r] = IF r = s THEN pc ELSE spc[r]
    BY <2>2 DEF TypeOK
  <2>4. spc[s] # "dead"
    BY <1>7 DEF Event, Subscription, StartSubscription, LockForNotification,
       SendNotification, Cancelled, ExitSubscription
  <2>5. \/ spc[s] = "send" /\ spc'[s] # "send" /\ mu' = "free"
        \/ spc[s] # "send" /\ spc'[s] = "send" /\ mu = "free" /\ mu' = s
        \/ spc[s] # "send" /\ spc'[s] # "send" /\ mu' = mu
    BY <1>7 DEF Event, Subscription, StartSubscription, LockForNotification,
       SendNotification, Enqueue, Cancelled, ExitSubscription, TypeOK
  <2> QED  BY <2>1, <2>2, <2>3, <2>4, <2>5, <1>n DEF LockInv
<1> QED
  BY <1>1, <1>2, <1>3, <1>4, <1>5, <1>6, <1>7, <1>8, <1>9
  DEF Next, Peer, Reader, Writer

(***************************************************************************)
(* Every step keeps OpenInv.                                               *)
(***************************************************************************)
LEMMA OpenStep == LockInv /\ OpenInv /\ [Next]_vars => OpenInv'
<1> SUFFICES ASSUME LockInv, OpenInv, [Next]_vars PROVE OpenInv'
  OBVIOUS
<1> USE DEF OpenInv, Reading
<1>1. CASE Connect \/ SendOnClosed \/ ReadRequest \/ Tick
  BY <1>1 DEF Connect, SendOnClosed, ReadRequest, Tick, LockInv, reader,
     writer, channel
<1>6. CASE Peer
  BY <1>6, PeerStep
<1>2. CASE Subscribe \/ Unsubscribe \/ LockForResponse \/ SendResponse
           \/ ReadError \/ Unregister \/ CloseConnection
  BY <1>2 DEF Subscribe, Unsubscribe, LockForResponse, SendResponse, Enqueue,
     ReadError, Unregister, CloseConnection, writer, channel
<1>3. CASE Writer
  BY <1>3 DEF Writer, Receive, ReceiveClosed, LockForWrite, WriteMessages,
     WritePing, WriteClose, ExitWriter, reader, channel
<1>4. ASSUME NEW s \in Subs, Event(s) \/ Subscription(s)
      PROVE  OpenInv'
  BY <1>4 DEF Event, Subscription, StartSubscription, LockForNotification,
     SendNotification, Enqueue, Cancelled, ExitSubscription, reader, writer,
     channel
<1>5. CASE UNCHANGED vars
  BY <1>5 DEF vars, reader, writer, channel
<1> QED  BY <1>1, <1>2, <1>3, <1>4, <1>5, <1>6 DEF Next, Peer, Reader

(***************************************************************************)
(* Every step keeps MapInv.                                                *)
(***************************************************************************)
LEMMA MapStep == TypeOK /\ MapInv /\ [Next]_vars => MapInv'
<1> SUFFICES ASSUME TypeOK, MapInv, [Next]_vars PROVE MapInv'
  OBVIOUS
<1> USE DEF MapInv, MappedAreOpen
<1>1. CASE Connect \/ Peer \/ SendOnClosed \/ Tick \/ Writer \/ UNCHANGED vars
  <2>1. CASE SendOnClosed
    <3>1. /\ UNCHANGED <<subscriptions, cancelled>> /\ rpc' = "dead"
          /\ spc' = [s \in Subs |-> "dead"]
      BY <2>1 DEF SendOnClosed, mapping
    <3>2. \A s \in Subs : spc'[s] = "dead"
      BY <3>1
    <3> QED  BY <3>1, <3>2 DEF TypeOK
  <2>2. CASE Connect \/ Peer \/ Tick \/ Writer \/ UNCHANGED vars
    <3>1. /\ UNCHANGED <<subscriptions, cancelled, spc, target>>
          /\ rpc' = "subscribe" => rpc = "subscribe"
      BY <2>2, PeerStep DEF Connect, Tick, Writer, Receive, ReceiveClosed,
         LockForWrite, WriteMessages, WritePing, WriteClose, ExitWriter,
         mapping, reader, vars
    <3> QED  BY <3>1
  <2> QED  BY <1>1, <2>1, <2>2
<1>2. CASE ReadRequest
  BY <1>2 DEF ReadRequest, mapping
<1>3. CASE Subscribe
  <2>1. /\ rpc = "subscribe" /\ target \in Subs /\ rpc' = "lock"
        /\ subscriptions' = subscriptions \cup {target} /\ UNCHANGED cancelled
    BY <1>3 DEF Subscribe, TypeOK
  <2>2. \A s \in Subs : spc'[s] = IF s = target THEN "start" ELSE spc[s]
    BY <1>3 DEF Subscribe, TypeOK
  <2> QED  BY <2>1, <2>2 DEF TypeOK
<1>4. CASE Unsubscribe
  BY <1>4 DEF Unsubscribe
<1>5. CASE \/ LockForResponse \/ SendResponse \/ ReadError \/ Unregister
           \/ CloseConnection
  <2>1. UNCHANGED <<subscriptions, cancelled, spc>> /\ rpc' # "subscribe"
    BY <1>5 DEF LockForResponse, SendResponse, ReadError, Unregister,
       CloseConnection, mapping
  <2> QED  BY <2>1
<1>6. ASSUME NEW s \in Subs, Event(s) \/ Subscription(s)
      PROVE  MapInv'
  <2>1. /\ UNCHANGED <<cancelled, rpc, target>> /\ spc[s] # "new"
        /\ subscriptions' \subseteq subscriptions
    BY <1>6 DEF Event, Subscription, StartSubscription, LockForNotification,
       SendNotification, Cancelled, ExitSubscription, reader, mapping
  <2>2. PICK pc : spc' = [spc EXCEPT ![s] = pc] /\ pc # "new"
    BY <1>6 DEF Event, Subscription, StartSubscription, LockForNotification,
       SendNotification, Cancelled, ExitSubscription
  <2>3. \A r \in Subs : spc'[r] = IF r = s THEN pc ELSE spc[r]
    BY <2>2 DEF TypeOK
  <2> QED  BY <2>1, <2>2, <2>3 DEF TypeOK
<1> QED
  BY <1>1, <1>2, <1>3, <1>4, <1>5, <1>6 DEF Next, Peer, Reader

(***************************************************************************)
(* The messages sent, as a sequence.                                       *)
(***************************************************************************)
UpTo(n) == [i \in 1..n |-> i]

LEMMA OneMoreMessage ==
  ASSUME NEW n \in Nat
  PROVE  UpTo(n) \in Seq(Nat) /\ Append(UpTo(n), n + 1) = UpTo(n + 1)
<1>1. ASSUME NEW m \in Nat
      PROVE  UpTo(m) \in Seq(Nat) /\ Len(UpTo(m)) = m
             /\ \A i \in 1..m : UpTo(m)[i] = i
  <2>1. UpTo(m) \in [1..m -> Nat]
    BY DEF UpTo
  <2>2. UpTo(m) \in Seq(Nat)
    BY <2>1, SeqDef
  <2>3. DOMAIN UpTo(m) = 1..Len(UpTo(m)) /\ Len(UpTo(m)) \in Nat
    BY <2>2, LenProperties
  <2> QED  BY <2>1, <2>2, <2>3 DEF UpTo
<1> DEFINE s == UpTo(n)
           t == UpTo(n + 1)
           u == Append(s, n + 1)
<1>2. s \in Seq(Nat) /\ Len(s) = n /\ \A i \in 1..n : s[i] = i
  BY <1>1
<1>3. t \in Seq(Nat) /\ Len(t) = n + 1 /\ \A i \in 1..(n + 1) : t[i] = i
  BY <1>1
<1> HIDE DEF s, t
<1>4. u \in Seq(Nat) /\ Len(u) = n + 1 /\ u[n + 1] = n + 1
      /\ \A i \in 1..n : u[i] = i
  BY <1>2, AppendProperties
<1> HIDE DEF u
<1>5. \A i \in 1..(n + 1) : u[i] = t[i]
  BY <1>3, <1>4
<1>6. u = t
  BY <1>3, <1>4, <1>5, SeqEqual
<1> QED  BY <1>2, <1>6 DEF s, t, u

\* The library states this for sequences over any set.
LEMMA MessagesAssociative ==
  ASSUME NEW s \in Seq(Nat), NEW h \in Seq(Nat), NEW r \in Seq(Nat)
  PROVE  (s \o h) \o r = s \o (h \o r)
  BY SMT

\* A message that is sent goes behind all the others: the order stands.
LEMMA EnqueueInOrder ==
  ASSUME TypeOK, Enqueue, UNCHANGED <<written, hand>>,
         written \o hand \o send = UpTo(queued)
  PROVE  written' \o hand' \o send' = UpTo(queued')
<1> DEFINE front == written \o hand
<1>1. /\ queued \in Nat /\ queued' = queued + 1 /\ queued' \in Nat
      /\ send \in Seq(Nat) /\ send' = Append(send, queued')
      /\ front \in Seq(Nat)
  BY ConcatProperties DEF TypeOK, Enqueue
<1> HIDE DEF front
<1>2. <<queued'>> \in Seq(Nat)
  BY <1>1
<1>3. front \o Append(send, queued') = (front \o send) \o <<queued'>>
  BY <1>1, <1>2, AppendIsConcat, MessagesAssociative
<1>4. UpTo(queued) \in Seq(Nat) /\ Append(UpTo(queued), queued + 1) = UpTo(queued + 1)
  BY <1>1, OneMoreMessage
<1>5. front \o send = UpTo(queued)
  BY DEF front
<1>6. UpTo(queued) \o <<queued'>> = Append(UpTo(queued), queued')
  BY <1>1, <1>4, AppendIsConcat
<1>7. front \o send' = UpTo(queued')
  BY <1>1, <1>3, <1>4, <1>5, <1>6
<1> QED  BY <1>7 DEF front

\* Neither when the first of them is taken out of the channel.
LEMMA FirstMovesOn ==
  ASSUME NEW s \in Seq(Nat), NEW t \in Seq(Nat), t # <<>>
  PROVE  s \o <<Head(t)>> \o Tail(t) = s \o t
<1> DEFINE h == <<Head(t)>>
           r == Tail(t)
<1>1. h \in Seq(Nat) /\ r \in Seq(Nat) /\ h \o r = t
  BY HeadTailProperties
<1> HIDE DEF h, r
<1>2. (s \o h) \o r = s \o (h \o r)
  BY <1>1, MessagesAssociative
<1>3. s \o h \o r = s \o t
  BY <1>1, <1>2
<1> QED  BY <1>3 DEF h, r

(***************************************************************************)
(* Every step keeps HandInv.                                               *)
(***************************************************************************)
LEMMA HandStep ==
  TypeOK /\ LockInv /\ OpenInv /\ OpenInv' /\ HandInv /\ [Next]_vars => HandInv'
<1> SUFFICES ASSUME TypeOK, LockInv, OpenInv, OpenInv', HandInv, [Next]_vars
             PROVE  HandInv'
  OBVIOUS
<1>n. \A s \in Subs : s # "free" /\ s # "reader" /\ s # "writer"
  BY ClientAssumption
<1>q. /\ InOrder <=> (wpc \notin {"exit", "done", "dead"} =>
                        written \o hand \o send = UpTo(queued))
      /\ InOrder' <=> (wpc' \notin {"exit", "done", "dead"} =>
                        written' \o hand' \o send' = UpTo(queued'))
      /\ ClosedInOrder <=> (closed => /\ written = UpTo(queued)
                                      /\ rpc # "send"
                                      /\ \A s \in Subs : spc[s] # "send"
                                      /\ sendClosed /\ ~registered)
      /\ ClosedInOrder' <=> (closed' => /\ written' = UpTo(queued')
                                        /\ rpc' # "send"
                                        /\ \A s \in Subs : spc'[s] # "send"
                                        /\ sendClosed' /\ ~registered')
  BY DEF InOrder, ClosedInOrder, UpTo
<1> HIDE DEF InOrder, ClosedInOrder
<1>t. /\ written \in Seq(Nat) /\ hand \in Seq(Nat) /\ send \in Seq(Nat)
      /\ written \o hand \in Seq(Nat)
  BY ConcatProperties DEF TypeOK
<1>c. ASSUME sendClosed, UNCHANGED <<sendClosed, registered>>
      PROVE  ~registered'
  BY <1>c DEF OpenInv
\* The steps of the goroutines that neither send nor write.
<1>1. CASE Peer \/ ReadRequest \/ ReadError \/ CloseConnection \/ Tick
           \/ UNCHANGED vars
  <2>1. CASE Peer
    BY <2>1, <1>q, PeerStep DEF HandInv
  <2>2. CASE ReadRequest
    BY <2>2, <1>q DEF HandInv, ReadRequest, channel, reader, writer
  <2>3. CASE ReadError
    BY <2>3, <1>q DEF HandInv, ReadError, channel, reader, writer
  <2>4. CASE CloseConnection
    BY <2>4, <1>q DEF HandInv, CloseConnection, channel, reader, writer
  <2>5. CASE Tick
    BY <2>5, <1>q DEF HandInv, Tick, channel, reader, writer
  <2>6. CASE UNCHANGED vars
    BY <2>6, <1>q DEF HandInv, vars, channel, reader, writer
  <2> QED  BY <1>1, <2>1, <2>2, <2>3, <2>4, <2>5, <2>6
<1>2. CASE Connect
  BY <1>2, <1>q DEF HandInv, OpenInv, Connect, channel
<1>3. CASE Unregister
  BY <1>3, <1>q DEF HandInv, Unregister, writer
<1>4. CASE Subscribe \/ Unsubscribe
  <2>1. UNCHANGED <<registered, channel, closed, writer>> /\ rpc' # "send"
    BY <1>4 DEF Subscribe, Unsubscribe
  <2>2. \A s \in Subs : spc'[s] = "send" => spc[s] = "send"
    BY <1>4 DEF Subscribe, Unsubscribe, TypeOK
  <2> QED  BY <2>1, <2>2, <1>q DEF HandInv, channel, writer
<1>5. CASE LockForResponse
  BY <1>5, <1>q DEF HandInv, LockForResponse, channel, writer
<1>6. CASE SendResponse
  <2>1. Enqueue /\ UNCHANGED <<written, hand, wpc, closed>> /\ rpc = "send"
    BY <1>6 DEF SendResponse, writer
  <2>2. wpc \notin {"exit", "done", "dead"} =>
          written' \o hand' \o send' = UpTo(queued')
    BY <2>1, <1>q, EnqueueInOrder DEF HandInv
  <2>3. ~sendClosed
    BY <2>1 DEF Enqueue
  <2> QED  BY <2>1, <2>2, <2>3, <1>q DEF HandInv
<1>7. CASE Receive
  <2>1. /\ wpc = "select" /\ wpc' = "lock" /\ send # <<>>
        /\ hand' = <<Head(send)>> /\ send' = Tail(send)
        /\ UNCHANGED <<closed, written, queued>>
    BY <1>7 DEF Receive
  <2>2. ~closed /\ hand = <<>> /\ written \o hand \o send = UpTo(queued)
    BY <2>1, <1>q DEF HandInv
  <2>3. Head(send) \in Nat /\ Tail(send) \in Seq(Nat)
    BY <2>1, <1>t, HeadTailProperties
  <2>4. written \o hand' \o send' = written \o send
    BY <2>1, <1>t, FirstMovesOn
  <2>5. written \o hand \o send = written \o send
    BY <2>2, <1>t, ConcatEmptySeq
  <2> QED  BY <2>1, <2>2, <2>4, <2>5, <1>q DEF HandInv
<1>8. CASE ReceiveClosed
  BY <1>8, <1>q DEF HandInv, ReceiveClosed, channel, reader
<1>9. CASE LockForWrite
  BY <1>9, <1>q DEF HandInv, LockForWrite, channel, reader
<1>10. CASE WriteMessages
  <2>1. /\ wpc = "write" /\ hand' = <<>> /\ UNCHANGED <<closed, queued>>
        /\ \/ /\ written' = written \o hand \o send
              /\ send' = <<>> /\ wpc' = "select"
           \/ wpc' = "exit"
    BY <1>10 DEF WriteMessages
  <2>2. ~closed /\ written \o hand \o send = UpTo(queued)
    BY <2>1, <1>q DEF HandInv
  <2>3. CASE wpc' = "exit"
    BY <2>1, <2>2, <2>3, <1>q DEF HandInv
  <2>4. CASE written' = written \o hand \o send /\ send' = <<>> /\ wpc' = "select"
    <3>1. written' \in Seq(Nat)
      BY <2>4, <1>t, ConcatProperties
    <3>2. written' \o hand' \o send' = written'
      BY <2>1, <2>4, <3>1, ConcatEmptySeq
    <3> QED  BY <2>1, <2>2, <2>4, <3>2, <1>q DEF HandInv
  <2> QED  BY <2>1, <2>3, <2>4
<1>11. CASE WritePing
  BY <1>11, <1>q DEF HandInv, WritePing, channel, reader
<1>12. CASE WriteClose
  <2>1. /\ wpc = "shut" /\ wpc' = "exit"
        /\ UNCHANGED <<send, sendClosed, queued, registered, rpc, spc, written>>
    BY <1>12 DEF WriteClose, channel, reader
  <2>2. send = <<>> /\ sendClosed /\ hand = <<>>
        /\ written \o hand \o send = UpTo(queued)
    BY <2>1, <1>q DEF HandInv
  <2>3. written = UpTo(queued)
    BY <2>2, <1>t, ConcatEmptySeq
  <2>4. rpc # "send" /\ \A s \in Subs : spc[s] # "send"
    BY <2>1, <1>n DEF LockInv
  <2>5. ~registered
    BY <2>2 DEF OpenInv
  <2> QED  BY <2>1, <2>2, <2>3, <2>4, <2>5, <1>q DEF HandInv
<1>13. CASE ExitWriter
  BY <1>13, <1>q DEF HandInv, ExitWriter, channel, reader
<1>14. CASE SendOnClosed
  <2>1. wpc' = "dead" /\ UNCHANGED closed /\ ~closed
    BY <1>14, <1>q DEF SendOnClosed, HandInv
  <2> QED  BY <2>1, <1>q DEF HandInv
<1>15. ASSUME NEW s \in Subs, Event(s) \/ Subscription(s)
       PROVE  HandInv'
  <2>1. UNCHANGED <<closed, rpc, wpc, written, hand, sendClosed, registered>>
    BY <1>15 DEF Event, Subscription, StartSubscription, LockForNotification,
       SendNotification, Enqueue, Cancelled, ExitSubscription, reader, writer,
       channel
  <2>2. \/ UNCHANGED <<send, queued>>
        \/ Enqueue
    BY <1>15 DEF Event, Subscription, StartSubscription, LockForNotification,
       SendNotification, Cancelled, ExitSubscription, channel
  <2>3. closed => \A r \in Subs : spc'[r] # "send"
    <3>1. PICK pc : spc' = [spc EXCEPT ![s] = pc] /\ (closed => pc # "send")
      BY <1>15 DEF Event, Subscription, StartSubscription, LockForNotification,
         SendNotification, Cancelled, ExitSubscription
    <3>2. \A r \in Subs : spc'[r] = IF r = s THEN pc ELSE spc[r]
      BY <3>1 DEF TypeOK
    <3> QED  BY <3>1, <3>2, <1>q DEF HandInv
  <2>4. CASE UNCHANGED <<send, queued>>
    BY <2>1, <2>3, <2>4, <1>q DEF HandInv
  <2>5. CASE Enqueue
    <3>1. ~sendClosed
      BY <2>5 DEF Enqueue
    <3>2. wpc \notin {"exit", "done", "dead"} =>
            written' \o hand' \o send' = UpTo(queued')
      BY <2>1, <2>5, <1>q, EnqueueInOrder DEF HandInv
    <3> QED  BY <2>1, <3>1, <3>2, <1>q DEF HandInv
  <2> QED  BY <2>2, <2>4, <2>5
<1> QED
  BY <1>1, <1>2, <1>3, <1>4, <1>5, <1>6, <1>7, <1>8, <1>9, <1>10, <1>11,
     <1>12, <1>13, <1>14, <1>15 DEF Next, Peer, Reader, Writer

LEMMA ClientCorrect == Spec => [](LockInv /\ OpenInv /\ MapInv /\ HandInv)
<1>1. Init => LockInv /\ OpenInv /\ MapInv
  BY ClientAssumption DEF Init, LockInv, OpenInv, Reading, MapInv, MappedAreOpen
<1>2. Init => HandInv
  <2> SUFFICES ASSUME Init PROVE HandInv
    OBVIOUS
  <2>1. UpTo(0) = <<>>
    <3>1. UpTo(0) \in Seq(Nat)
      BY OneMoreMessage
    <3>2. DOMAIN UpTo(0) = 1..0 /\ DOMAIN UpTo(0) = 1..Len(UpTo(0))
          /\ Len(UpTo(0)) \in Nat
      BY <3>1, LenProperties DEF UpTo
    <3> QED  BY <3>1, <3>2, EmptySeq
  <2>2. written \o hand \o send = <<>>
    BY EmptySeq, ConcatEmptySeq DEF Init
  <2> QED
    BY <2>1, <2>2 DEF Init, HandInv, InOrder, ClosedInOrder, UpTo
<1> QED
  BY <1>1, <1>2, LockStep, OpenStep, MapStep, HandStep, TypeCorrect, PTL DEF Spec

(***************************************************************************)
(* While the writing pump lives, the peer gets the messages as they were   *)
(* sent, by whichever goroutine: none lost, none twice, none overtaking    *)
(* another.                                                                *)
(***************************************************************************)
THEOREM InOrderCorrect == Spec => []InOrder
<1>1. HandInv => InOrder
  BY DEF HandInv
<1> QED  BY <1>1, ClientCorrect, PTL

(***************************************************************************)
(* The closing handshake of writePump (the flag closed and the close       *)
(* message) comes after every message, and nobody sends after it.          *)
(***************************************************************************)
THEOREM ClosedInOrderCorrect == Spec => []ClosedInOrder
<1>1. HandInv => ClosedInOrder
  BY DEF HandInv
<1> QED  BY <1>1, ClientCorrect, PTL

(***************************************************************************)
(* No key in the map has a closed channel, so that eth_unsubscribe never   *)
(* closes a channel a second time, which would end the process.            *)
(***************************************************************************)
THEOREM MappedAreOpenCorrect == Spec => []MappedAreOpen
<1>1. MapInv => MappedAreOpen
  BY DEF MapInv
<1> QED  BY <1>1, ClientCorrect, PTL

\* A standoff of the reading pump.
Stuck == rpc = "send" /\ Standoff

(***************************************************************************)
(* A standoff in which the reading pump waits for room is for ever: no     *)
(* step ends it, since the writing pump needs mu or is gone, and the       *)
(* manager closes the channel only for a reading pump that has ended.      *)
(***************************************************************************)
THEOREM StuckForEver == Spec => [][Stuck => Stuck']_vars
<1>1. TypeOK /\ LockInv /\ OpenInv /\ [Next]_vars => [Stuck => Stuck']_vars
  <2> SUFFICES ASSUME TypeOK, LockInv, OpenInv, Next, Stuck PROVE Stuck'
    BY DEF vars
  <2> USE DEF Stuck, Standoff
  <2>1. /\ rpc = "send" /\ mu = "reader" /\ ~sendClosed
        /\ wpc \in {"lock", "tick", "done"} /\ Len(send) = SendCap
        /\ ~(Len(send) < SendCap)
    BY ClientAssumption DEF LockInv
  <2>2. CASE \/ Connect \/ ReadRequest \/ Reader \/ Tick \/ Writer
             \/ SendOnClosed
    BY <2>1, <2>2 DEF Connect, ReadRequest, Reader, Subscribe, Unsubscribe,
       LockForResponse, SendResponse, Enqueue, ReadError, Unregister,
       CloseConnection, Tick, Writer, Receive, ReceiveClosed, LockForWrite,
       WriteMessages, WritePing, WriteClose, ExitWriter, SendOnClosed
  <2>3. CASE Peer
    BY <2>1, <2>3, PeerStep
  <2>4. ASSUME NEW s \in Subs, Event(s) \/ Subscription(s)
        PROVE  Stuck'
    BY <2>1, <2>4 DEF Event, Subscription, StartSubscription,
       LockForNotification, SendNotification, Enqueue, Cancelled,
       ExitSubscription, channel, reader, writer
  <2> QED  BY <2>2, <2>3, <2>4 DEF Next, Peer
<1> QED  BY <1>1, TypeCorrect, ClientCorrect, PTL DEF Spec

(***************************************************************************)
(* A write that hangs while the reading pump waits for mu ends by the peer *)
(* only: nothing on this side, the read deadline included, ends it.        *)
(***************************************************************************)
THEOREM BlockedUntilPeer ==
  Spec => [][Blocked => Blocked' \/ PeerResumes \/ PeerGone]_vars
<1>1. LockInv /\ [Next]_vars
        => [Blocked => Blocked' \/ PeerResumes \/ PeerGone]_vars
  <2> SUFFICES ASSUME LockInv, Next, Blocked, ~PeerResumes, ~PeerGone
               PROVE  Blocked'
    BY DEF vars
  <2> USE DEF Blocked, CanWrite, CanFail
  <2>1. /\ mu = "writer" /\ wpc \in {"write", "ping"}
        /\ rpc \in {"lock", "subscribe", "unsubscribe"}
        /\ \A s \in Subs : spc[s] # "send"
        /\ stalled /\ conn \notin {"broken", "closed"}
    BY ClientAssumption DEF LockInv
  <2>2. CASE \/ Connect \/ ReadRequest \/ Reader \/ Tick \/ Writer
             \/ SendOnClosed
    BY <2>1, <2>2 DEF Connect, ReadRequest, Reader, Subscribe, Unsubscribe,
       LockForResponse, SendResponse, ReadError, Unregister, CloseConnection,
       Tick, Writer, Receive, ReceiveClosed, LockForWrite, WriteMessages,
       WritePing, WriteClose, ExitWriter, SendOnClosed
  <2>3. CASE PeerStalls \/ ReadDeadline
    BY <2>1, <2>3 DEF PeerStalls, ReadDeadline, reader, writer
  <2>4. ASSUME NEW s \in Subs, Event(s) \/ Subscription(s)
        PROVE  Blocked'
    BY <2>1, <2>4 DEF Event, Subscription, StartSubscription,
       LockForNotification, SendNotification, Cancelled, ExitSubscription,
       link, reader, writer
  <2> QED  BY <2>2, <2>3, <2>4 DEF Next
<1> QED  BY <1>1, ClientCorrect, PTL DEF Spec

=============================================================================
