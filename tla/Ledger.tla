------------------------------- MODULE Ledger -------------------------------
(***************************************************************************)
(* What the inference broker promises its callers, with no files, calls,   *)
(* clock or crashes: a ledger of jobs that moves only along the life cycle *)
(* of README "Allocation and recovery", never gives out a slot twice, and  *)
(* hands out at most one permission to send for a job.                     *)
(***************************************************************************)
EXTENDS Integers, FiniteSets

CONSTANTS Ids, Backends, Groups, GroupOf, Slots

VARIABLES
  book,      \* the entry of each job
  used,      \* lease numbers that have been given out
  permits    \* permissions to send: <<id, lease, backend>>

ledger == <<book, used, permits>>

Blank == [st |-> "none", lease |-> 0, backend |-> 0, outcome |-> "none"]

Taken(bk, g) == {i \in Ids : bk[i].st \in {"placed", "sent"} /\ GroupOf[bk[i].backend] = g}

(* An entry that newly carries a lease carries one that was never used.    *)
Fresh(a, b) == b.lease \in used' \ used

(* The moves of one entry.  A restart may take an unsent placement back,   *)
(* sent work keeps its lease and backend until it is over, and what is     *)
(* over stays as it is.                                                    *)
Moves(a, b) ==
  \/ b = a
  \/ a.st = "none" /\ (b.st = "waiting" \/ (b.st = "placed" /\ Fresh(a, b)))
  \/ a.st = "waiting" /\ (b.st = "over" \/ (b.st \in {"placed", "sent"} /\ Fresh(a, b)))
  \/ a.st = "placed" /\ \/ b.st = "waiting"
                        \/ b.st = "sent" /\ b.lease = a.lease /\ b.backend = a.backend
                        \/ b.st = "over" /\ b.lease = a.lease
  \/ a.st = "sent" /\ b.st = "over" /\ b.lease = a.lease

Permit(i) ==
  /\ book'[i].st = "sent"
  /\ \A p \in permits : p[1] # i
  /\ permits' = permits \cup {<<i, book'[i].lease, book'[i].backend>>}

Init ==
  /\ book = [i \in Ids |-> Blank]
  /\ used = {} /\ permits = {}

Step ==
  /\ used \subseteq used'
  /\ \A i \in Ids : Moves(book[i], book'[i])
  /\ \A g \in Groups : Cardinality(Taken(book', g)) <= Slots[g]
  /\ permits' = permits \/ \E i \in Ids : Permit(i)

Spec == Init /\ [][Step]_ledger
=============================================================================
