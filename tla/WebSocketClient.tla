-------------------------- MODULE WebSocketClient --------------------------
(***************************************************************************)
(* One WebSocket connection of the proxy: the two pumps, the subscription  *)
(* goroutines it has started, and the manager that closes its send         *)
(* channel.  They share the bounded channel, the mutex mu that is held     *)
(* while sending into it, the flag closed and the map of subscriptions.    *)
(* The manager serves all connections but never waits for one, so that     *)
(* connections do not influence each other and one of them is enough.      *)
(*                                                                         *)
(* Nothing in the program sends on the manager's channels broadcast and    *)
(* subscriptionEvents, so their branches never run.                        *)
(***************************************************************************)
EXTENDS Naturals, Sequences

CONSTANTS
  Subs,        \* the subscription IDs
  SendCap,     \* capacity of the send channel; 256 in the code
  MaxRequests, \* bound: requests of the peer
  MaxEvents,   \* bound: new heads and logs from Geth
  MaxPings     \* bound: ticks of the ping timer

ASSUME ClientAssumption ==
  /\ SendCap \in Nat /\ SendCap > 0
  /\ MaxRequests \in Nat /\ MaxEvents \in Nat /\ MaxPings \in Nat
  /\ Subs \cap {"free", "reader", "writer"} = {}

VARIABLES
  conn,          \* "open", "lapsed" (its read deadline), "broken", "closed"
  stalled,       \* the peer is there and reads nothing: a write hangs
  registered,    \* the client is in manager.clients
  send, sendClosed,  \* the channel: numbers of the messages in it
  mu,            \* who holds the mutex
  closed,        \* the flag of that name
  subscriptions, \* the keys of the map
  cancelled,     \* the subscriptions whose channel was closed
  rpc, target,   \* the reading pump, and the subscription it works on
  wpc, hand,     \* the writing pump, and the message it has received
  spc,           \* spc[s]: the goroutine of subscription s
  queued,        \* how many messages were sent into the channel
  written,       \* the messages written to the connection
  requests, events, pings

channel == <<send, sendClosed, queued>>
reader  == <<rpc, target>>
writer  == <<wpc, hand, written>>
mapping == <<subscriptions, cancelled>>
bounds  == <<requests, events, pings>>
link == <<conn, stalled>>
vars == <<link, registered, channel, mu, closed, mapping, reader, writer,
          spc, bounds>>

NoSub == "none"

Init ==
  /\ conn = "open" /\ stalled = FALSE /\ registered = FALSE
  /\ send = <<>> /\ sendClosed = FALSE /\ queued = 0
  /\ mu = "free" /\ closed = FALSE
  /\ subscriptions = {} /\ cancelled = {}
  /\ rpc = "new" /\ target = NoSub
  /\ wpc = "new" /\ hand = <<>> /\ written = <<>>
  /\ spc = [s \in Subs |-> "new"]
  /\ requests = 0 /\ events = 0 /\ pings = 0

----------------------------------------------------------------------------
(***************************************************************************)
(* handleWebSocket: the manager registers the client, the pumps start.     *)
(***************************************************************************)
Connect ==
  /\ rpc = "new"
  /\ registered' = TRUE
  /\ rpc' = "read" /\ wpc' = "select"
  /\ UNCHANGED <<link, channel, mu, closed, mapping, target, hand, written,
                 spc, bounds>>

(***************************************************************************)
(* The peer goes away, so that reads fail and writes do in the end; or     *)
(* stays and reads nothing for a while, so that a write hangs once the     *)
(* buffers are full.                                                       *)
(***************************************************************************)
PeerGone ==
  /\ conn \in {"open", "lapsed"}
  /\ conn' = "broken" /\ stalled' = FALSE
  /\ UNCHANGED <<registered, channel, mu, closed, mapping, reader, writer,
                 spc, bounds>>

PeerStalls ==
  /\ conn \in {"open", "lapsed"} /\ ~stalled
  /\ stalled' = TRUE
  /\ UNCHANGED <<conn, registered, channel, mu, closed, mapping, reader,
                 writer, spc, bounds>>

PeerResumes ==
  /\ stalled
  /\ stalled' = FALSE
  /\ UNCHANGED <<conn, registered, channel, mu, closed, mapping, reader,
                 writer, spc, bounds>>

\* A minute without a pong, and what came before is read: reads fail for good.
ReadDeadline ==
  /\ conn = "open"
  /\ conn' = "lapsed"
  /\ UNCHANGED <<stalled, registered, channel, mu, closed, mapping, reader,
                 writer, spc, bounds>>

\* Whether a write can succeed, and whether it can fail.  There is no write
\* deadline: to a peer that is there and reads nothing it does neither.
CanWrite == ~stalled /\ conn # "closed"
CanFail  == conn \in {"broken", "closed"}

\* Mutant: does not wait for room.
EnqueueUnbounded ==
  /\ ~sendClosed
  /\ queued' = queued + 1
  /\ send' = Append(send, queued')
  /\ mu' = "free"
  /\ UNCHANGED sendClosed

(***************************************************************************)
(* Sending with mu held: into the channel if there is room, else waiting.  *)
(***************************************************************************)
Enqueue ==
  /\ ~sendClosed
  /\ Len(send) < SendCap
  /\ queued' = queued + 1
  /\ send' = Append(send, queued')
  /\ mu' = "free"
  /\ UNCHANGED sendClosed

\* A send on a closed channel is a panic, and ends the whole process.
SendOnClosed ==
  /\ sendClosed
  /\ rpc = "send" \/ \E s \in Subs : spc[s] = "send"
  /\ rpc' = "dead" /\ wpc' = "dead" /\ spc' = [s \in Subs |-> "dead"]
  /\ conn' = "closed" /\ stalled' = FALSE
  /\ UNCHANGED <<registered, channel, mu, closed, mapping, target, hand,
                 written, bounds>>

----------------------------------------------------------------------------
(***************************************************************************)
(* readPump and handleWebSocketRPC.                                        *)
(***************************************************************************)
ReadRequest ==
  /\ rpc = "read" /\ conn = "open"
  /\ requests < MaxRequests
  /\ requests' = requests + 1
  /\ \/ rpc' = "lock" /\ UNCHANGED target
     \/ \E s \in Subs : spc[s] = "new" /\ rpc' = "subscribe" /\ target' = s
     \/ \E s \in Subs : rpc' = "unsubscribe" /\ target' = s
  /\ UNCHANGED <<link, registered, channel, mu, closed, mapping, writer, spc,
                 events, pings>>

Subscribe ==
  /\ rpc = "subscribe"
  /\ mu = "free"
  /\ subscriptions' = subscriptions \cup {target}
  /\ spc' = [spc EXCEPT ![target] = "start"]
  /\ rpc' = "lock"
  /\ UNCHANGED <<link, registered, channel, mu, closed, cancelled, target,
                 writer, bounds>>

\* Mutant: the channel of the subscription is not closed.
UnsubscribeForgetsChannel ==
  /\ rpc = "unsubscribe"
  /\ mu = "free"
  /\ subscriptions' = subscriptions \ {target}
  /\ rpc' = "lock"
  /\ UNCHANGED <<link, registered, channel, mu, closed, cancelled, target,
                 writer, spc, bounds>>

\* Mutant: the key stays in the map.
UnsubscribeKeepsKey ==
  /\ rpc = "unsubscribe"
  /\ mu = "free"
  /\ cancelled' = cancelled \cup (subscriptions \cap {target})
  /\ rpc' = "lock"
  /\ UNCHANGED <<link, registered, channel, mu, closed, subscriptions, target,
                 writer, spc, bounds>>

Unsubscribe ==
  /\ rpc = "unsubscribe"
  /\ mu = "free"
  /\ cancelled' = cancelled \cup (subscriptions \cap {target})
  /\ subscriptions' = subscriptions \ {target}
  /\ rpc' = "lock"
  /\ UNCHANGED <<link, registered, channel, mu, closed, target, writer, spc,
                 bounds>>

LockForResponse ==
  /\ rpc = "lock"
  /\ mu = "free"
  /\ IF closed THEN rpc' = "read" /\ UNCHANGED mu
               ELSE rpc' = "send" /\ mu' = "reader"
  /\ UNCHANGED <<link, registered, channel, closed, mapping, target, writer,
                 spc, bounds>>

SendResponse ==
  /\ rpc = "send"
  /\ Enqueue
  /\ rpc' = "read"
  /\ UNCHANGED <<link, registered, closed, mapping, target, writer, spc,
                 bounds>>

\* Mutant: the loop goes on after a read error.
ReadErrorReadsOn ==
  /\ rpc = "read" /\ conn # "open"
  /\ rpc' = "read"
  /\ UNCHANGED <<link, registered, channel, mu, closed, mapping, target,
                 writer, spc, bounds>>

ReadError ==
  /\ rpc = "read" /\ conn # "open"
  /\ rpc' = "unregister"
  /\ UNCHANGED <<link, registered, channel, mu, closed, mapping, target,
                 writer, spc, bounds>>

\* The manager takes the client out and closes its channel, once.
Unregister ==
  /\ rpc = "unregister"
  /\ registered' = FALSE
  /\ sendClosed' = (sendClosed \/ registered)
  /\ rpc' = "close"
  /\ UNCHANGED <<link, send, queued, mu, closed, mapping, target, writer,
                 spc, bounds>>

CloseConnection ==
  /\ rpc = "close"
  /\ conn' = "closed" /\ stalled' = FALSE
  /\ rpc' = "done"
  /\ UNCHANGED <<registered, channel, mu, closed, mapping, target, writer,
                 spc, bounds>>

Reader ==
  \/ Subscribe \/ Unsubscribe \/ LockForResponse \/ SendResponse
  \/ ReadError \/ Unregister \/ CloseConnection

----------------------------------------------------------------------------
(***************************************************************************)
(* writePump.                                                              *)
(***************************************************************************)
Receive ==
  /\ wpc = "select" /\ send # <<>>
  /\ hand' = <<Head(send)>>
  /\ send' = Tail(send)
  /\ wpc' = "lock"
  /\ UNCHANGED <<link, registered, sendClosed, queued, mu, closed, mapping,
                 reader, written, spc, bounds>>

ReceiveClosed ==
  /\ wpc = "select" /\ send = <<>> /\ sendClosed
  /\ wpc' = "end"
  /\ UNCHANGED <<link, registered, channel, mu, closed, mapping, reader, hand,
                 written, spc, bounds>>

Tick ==
  /\ wpc = "select"
  /\ pings < MaxPings
  /\ pings' = pings + 1
  /\ wpc' = "tick"
  /\ UNCHANGED <<link, registered, channel, mu, closed, mapping, reader, hand,
                 written, spc, requests, events>>

(***************************************************************************)
(* Whatever the pump writes, it writes with mu held.                       *)
(***************************************************************************)
LockForWrite ==
  /\ mu = "free"
  /\ mu' = "writer"
  /\ \/ wpc = "lock" /\ wpc' = "write"
     \/ wpc = "tick" /\ wpc' = "ping"
     \/ wpc = "end"  /\ wpc' = "shut"
  /\ UNCHANGED <<link, registered, channel, closed, mapping, reader, hand,
                 written, spc, bounds>>

\* Mutant: the messages behind the first are taken out but not written.
WriteMessagesDropsRest ==
  /\ wpc = "write"
  /\ mu' = "free"
  /\ send' = <<>> /\ hand' = <<>>
  /\ \/ CanWrite /\ written' = written \o hand /\ wpc' = "select"
     \/ CanFail /\ wpc' = "exit" /\ UNCHANGED written
  /\ UNCHANGED <<link, registered, sendClosed, queued, closed, mapping,
                 reader, spc, bounds>>

\* The message at hand, then as many as are in the channel by now.  The error
\* may show only when they have been taken out.
WriteMessages ==
  /\ wpc = "write"
  /\ mu' = "free"
  /\ hand' = <<>>
  /\ \/ /\ CanWrite
        /\ written' = written \o hand \o send
        /\ send' = <<>>
        /\ wpc' = "select"
     \/ /\ CanFail
        /\ send' \in {send, <<>>}
        /\ wpc' = "exit"
        /\ UNCHANGED written
  /\ UNCHANGED <<link, registered, sendClosed, queued, closed, mapping,
                 reader, spc, bounds>>

WritePing ==
  /\ wpc = "ping"
  /\ mu' = "free"
  /\ \/ CanWrite /\ wpc' = "select"
     \/ CanFail /\ wpc' = "exit"
  /\ UNCHANGED <<link, registered, channel, closed, mapping, reader, hand,
                 written, spc, bounds>>

\* Whether the close message can be written or not.
WriteClose ==
  /\ wpc = "shut"
  /\ CanWrite \/ CanFail
  /\ mu' = "free"
  /\ closed' = TRUE
  /\ wpc' = "exit"
  /\ UNCHANGED <<link, registered, channel, mapping, reader, hand, written,
                 spc, bounds>>

ExitWriter ==
  /\ wpc = "exit"
  /\ conn' = "closed" /\ stalled' = FALSE
  /\ wpc' = "done"
  /\ UNCHANGED <<registered, channel, mu, closed, mapping, reader, hand,
                 written, spc, bounds>>

Writer ==
  \/ Receive \/ ReceiveClosed \/ LockForWrite \/ WriteMessages \/ WritePing
  \/ WriteClose \/ ExitWriter

----------------------------------------------------------------------------
(***************************************************************************)
(* handleSubscription: one goroutine for each subscription.                *)
(***************************************************************************)
\* Geth accepts the subscription or refuses it.
StartSubscription(s) ==
  /\ spc[s] = "start"
  /\ \E pc \in {"wait", "exit"} : spc' = [spc EXCEPT ![s] = pc]
  /\ UNCHANGED <<link, registered, channel, mu, closed, mapping, reader,
                 writer, bounds>>

Event(s) ==
  /\ spc[s] = "wait"
  /\ events < MaxEvents
  /\ events' = events + 1
  /\ spc' = [spc EXCEPT ![s] = "lock"]
  /\ UNCHANGED <<link, registered, channel, mu, closed, mapping, reader,
                 writer, requests, pings>>

LockForNotification(s) ==
  /\ spc[s] = "lock"
  /\ mu = "free"
  /\ IF closed THEN spc' = [spc EXCEPT ![s] = "wait"] /\ UNCHANGED mu
               ELSE spc' = [spc EXCEPT ![s] = "send"] /\ mu' = s
  /\ UNCHANGED <<link, registered, channel, closed, mapping, reader, writer,
                 bounds>>

SendNotification(s) ==
  /\ spc[s] = "send"
  /\ Enqueue
  /\ spc' = [spc EXCEPT ![s] = "wait"]
  /\ UNCHANGED <<link, registered, closed, mapping, reader, writer, bounds>>

\* The channel of the subscription is closed.
Cancelled(s) ==
  /\ spc[s] = "wait" /\ s \in cancelled
  /\ spc' = [spc EXCEPT ![s] = "exit"]
  /\ UNCHANGED <<link, registered, channel, mu, closed, mapping, reader,
                 writer, bounds>>

ExitSubscription(s) ==
  /\ spc[s] = "exit"
  /\ mu = "free"
  /\ subscriptions' = subscriptions \ {s}
  /\ spc' = [spc EXCEPT ![s] = "done"]
  /\ UNCHANGED <<link, registered, channel, mu, closed, cancelled, reader,
                 writer, bounds>>

Subscription(s) ==
  \/ StartSubscription(s) \/ LockForNotification(s) \/ SendNotification(s)
  \/ Cancelled(s) \/ ExitSubscription(s)

----------------------------------------------------------------------------
Next ==
  \/ Connect \/ PeerGone \/ PeerStalls \/ PeerResumes \/ ReadDeadline
  \/ ReadRequest \/ Reader \/ Tick \/ Writer
  \/ \E s \in Subs : Event(s) \/ Subscription(s)
  \/ SendOnClosed

Spec == Init /\ [][Next]_vars

(***************************************************************************)
(* Every goroutine runs.  A Go mutex does not starve a goroutine that      *)
(* waits for it, and a select with two ready channels takes either in the  *)
(* end: strong fairness.  A write ends when the peer reads, is gone, or    *)
(* the connection is closed here, and is not assumed to end otherwise.  A  *)
(* peer that reads nothing answers no ping, so that the read deadline      *)
(* passes.  Requests, heads, ticks and what the peer does need not come.   *)
(***************************************************************************)
FairSpec ==
  /\ Spec
  /\ WF_vars(Connect)
  /\ SF_vars(Reader)
  /\ SF_vars(Writer)
  /\ \A s \in Subs : SF_vars(Subscription(s))
  /\ WF_vars(SendOnClosed)
  /\ WF_vars(stalled /\ ReadDeadline)

----------------------------------------------------------------------------
(***************************************************************************)
(* Properties.                                                             *)
(***************************************************************************)

\* The type invariant.
TypeOK ==
  /\ conn \in {"open", "lapsed", "broken", "closed"} /\ stalled \in BOOLEAN
  /\ registered \in BOOLEAN
  /\ send \in Seq(Nat) /\ Len(send) <= SendCap /\ sendClosed \in BOOLEAN
  /\ mu \in {"free", "reader", "writer"} \cup Subs /\ closed \in BOOLEAN
  /\ subscriptions \subseteq Subs /\ cancelled \subseteq Subs
  /\ rpc \in {"new", "read", "subscribe", "unsubscribe", "lock", "send",
              "unregister", "close", "done", "dead"}
  /\ target \in Subs \cup {NoSub}
  /\ rpc \in {"subscribe", "unsubscribe"} => target \in Subs
  /\ wpc \in {"new", "select", "lock", "write", "tick", "ping", "end", "shut",
             "exit", "done", "dead"}
  /\ hand \in Seq(Nat) /\ written \in Seq(Nat) /\ queued \in Nat
  /\ spc \in [Subs -> {"new", "start", "wait", "lock", "send", "exit", "done",
                       "dead"}]
  /\ requests \in 0..MaxRequests /\ events \in 0..MaxEvents
  /\ pings \in 0..MaxPings

(***************************************************************************)
(* What the peer has received, what the writing pump holds and what waits  *)
(* in the channel are together all the messages that were sent, in the     *)
(* order in which they were: nothing is lost, repeated or reordered while  *)
(* the writing pump lives.                                                 *)
(***************************************************************************)
InOrder ==
  wpc \notin {"exit", "done", "dead"} =>
    written \o hand \o send = [i \in 1..queued |-> i]

(***************************************************************************)
(* When the writing pump says that the connection was closed in order,     *)
(* every message sent before is written, nobody is about to send another,  *)
(* and the manager has forgotten the client.                               *)
(***************************************************************************)
ClosedInOrder ==
  closed => /\ written = [i \in 1..queued |-> i]
            /\ rpc # "send" /\ \A s \in Subs : spc[s] # "send"
            /\ sendClosed /\ ~registered

(***************************************************************************)
(* The channel of a subscription is closed once only (a second close is a  *)
(* panic): Unsubscribe closes that of any key it finds in the map, and it  *)
(* and the goroutine of the subscription both take keys out.               *)
(***************************************************************************)
MappedAreOpen == subscriptions \cap cancelled = {}

Panicked == wpc = "dead"

(***************************************************************************)
(* Somebody holds mu and waits for room in the channel, while the writing  *)
(* pump waits for mu, or has ended and will not make room any more.        *)
(***************************************************************************)
Standoff ==
  /\ rpc = "send" \/ \E s \in Subs : spc[s] = "send"
  /\ Len(send) = SendCap /\ ~sendClosed
  /\ wpc \in {"lock", "tick", "done"}

(***************************************************************************)
(* The writing pump holds mu in a write that hangs, and the reading pump   *)
(* waits for mu instead of reading, so that no deadline can close the      *)
(* connection.                                                             *)
(***************************************************************************)
Blocked ==
  /\ wpc \in {"write", "ping"} /\ ~CanWrite /\ ~CanFail
  /\ rpc \in {"lock", "subscribe", "unsubscribe"}

(***************************************************************************)
(* When the connection can be read no more both pumps end and the client   *)
(* is forgotten, a write that hangs notwithstanding.  Only the panic that  *)
(* NoSendOnClosed denies can come in between, or a standoff or a blocked   *)
(* reading pump that lasts for ever.                                       *)
(***************************************************************************)
Teardown ==
  \/ (conn # "open") ~>
       (rpc = "done" /\ wpc = "done" /\ ~registered) \/ Panicked
  \/ <>[](Standoff \/ Blocked)

(***************************************************************************)
(* The goroutine of a cancelled subscription ends, in whatever state the   *)
(* cancellation finds it, with the same exceptions.                        *)
(***************************************************************************)
CancelledEnds ==
  \/ \A s \in Subs :
       (rpc = "unsubscribe" /\ target = s /\ s \in subscriptions)
         ~> (spc[s] = "done" \/ Panicked)
  \/ <>[](Standoff \/ Blocked)

----------------------------------------------------------------------------
(***************************************************************************)
(* Claims of comments that the code does not keep.                         *)
(***************************************************************************)

(***************************************************************************)
(* proxy.go:330, "writePump pumps messages from the hub to the WebSocket   *)
(* connection": while the connection stands, and the peer never stops      *)
(* reading, a message in the channel is eventually written.  With the      *)
(* channel full, a sender that holds mu and waits for room and the writing *)
(* pump that has taken a message and waits for mu wait for each other.     *)
(***************************************************************************)
EveryMessageWritten ==
  []~stalled =>
    \A i \in 1..(MaxRequests + MaxEvents) :
      (queued >= i) ~> (Len(written) >= i \/ conn # "open")

(***************************************************************************)
(* proxy.go:545, "if !client.closed" before the send: no notification is   *)
(* sent on a closed channel.  The manager closes the channel before the    *)
(* writing pump sets the flag, and when the pump has died of a write error *)
(* it never sets it.                                                       *)
(***************************************************************************)
NoSendOnClosed == ~Panicked

=============================================================================
