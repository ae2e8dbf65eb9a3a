-------------------------- MODULE SettlementLedger --------------------------
(***************************************************************************)
(* What the batch store promises to its readers (the RPC methods that look *)
(* for the latest batch, and the next incarnation of the sequencer): a     *)
(* ledger that grows at its end only, one entry at a time, in which every  *)
(* entry but the last is verified and never touched again.                 *)
(***************************************************************************)
EXTENDS Naturals, Sequences

CONSTANTS
  Contents,  \* what an entry may hold: the transactions of one batch
  Due(_)     \* Due(n): what entry n holds when nothing goes wrong

VARIABLE ledger

Entry == [content : Contents,
          status : {"published", "submitted", "verified"}]

Last == ledger[Len(ledger)]
OpenEntry(c) == [content |-> c, status |-> "published"]

Init == ledger = <<>>

Publish(c) ==
  /\ ledger # <<>> => Last.status = "verified"
  /\ ledger' = Append(ledger, OpenEntry(c))

Submit ==
  /\ ledger # <<>> /\ Last.status = "published"
  /\ ledger' = [ledger EXCEPT ![Len(ledger)].status = "submitted"]

Settle ==
  /\ ledger # <<>> /\ Last.status = "submitted"
  /\ ledger' = [ledger EXCEPT ![Len(ledger)].status = "verified"]

\* The last entry is made again, from the transactions at hand.
Reopen(c) ==
  /\ ledger # <<>>
  /\ ledger' = [ledger EXCEPT ![Len(ledger)] = OpenEntry(c)]

Next ==
  \/ \E c \in Contents : Publish(c) \/ Reopen(c)
  \/ Submit
  \/ Settle

Spec == Init /\ [][Next]_ledger

(***************************************************************************)
(* The same without crashes: entry n holds what is due, and an entry is    *)
(* made again only before it is verified, with the content it had.         *)
(***************************************************************************)
StrictNext ==
  \/ Publish(Due(Len(ledger) + 1))
  \/ /\ ledger # <<>> /\ Last.status # "verified"
     /\ Reopen(Last.content)
  \/ Submit
  \/ Settle

StrictSpec == Init /\ [][StrictNext]_ledger

=============================================================================
