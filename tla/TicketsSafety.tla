--------------------------- MODULE TicketsSafety ---------------------------
(***************************************************************************)
(* What the key broker promises about its tickets and accounts.            *)
(***************************************************************************)
EXTENDS Tickets

States == {"none", "minted", "counted", "sending", "answered", "uncertain", "refused"}
ThreadStates ==
  Authorizing \cup {"idle", "send", "calling", "answered", "unsent", "uncertain", "settle"}

(* Every variable has its type; no charge is ever taken back twice.        *)
TypeOK ==
  /\ file \in [Ids -> [st : States, req : Requests \cup {NoOne}, over : BOOLEAN]]
  /\ answer \subseteq Ids /\ minted \in 0..MaxTickets /\ flights \subseteq Ids
  /\ lock \in Threads \cup {NoOne}
  /\ spend \in 0..Ceiling
  /\ member \in [day : 0..MaxDay, spent : 0..MemberDay, total : 0..MemberTotal]
  /\ usage \in [day : 0..MaxDay, calls : 0..PerDay] /\ day \in 0..MaxDay
  /\ thr \in [Threads -> [pc : ThreadStates, req : Requests \cup {NoOne},
                          id : 0..MaxTickets, day : 0..MaxDay]]
  /\ given \subseteq Ids /\ called \in [Ids -> Nat]
  /\ reset \in Nat /\ raced \subseteq Ids /\ resets \in 0..MaxResets /\ faults \in 0..MaxFaults

(* The provider calls started so far: the n-th one under each ticket.      *)
Started == UNION {{i} \X (1..called[i]) : i \in Ids}
Calls == Cardinality(Started)

(* Tickets a caller holds that the journal would still forward.            *)
Usable == {i \in given : file[i].st = "counted"}

(* ticket.rs: "over by one, never under".  Whatever crashes, fails, is     *)
(* refunded, retried or authorized twice at once between the ticket, the   *)
(* three accounts and the transport, every call that was started, and      *)
(* every ticket that can still be sent, is charged to the row, and the     *)
(* calls to the member.                                                    *)
NeverUnder ==
  /\ Calls + Cardinality(Usable) <= spend + reset
  /\ Calls <= member.total

(* "A retry is never a second provider call": at most one call is started  *)
(* under a ticket, unless two authorizes had it in hand at once: authorize *)
(* picks the minted ticket up without a lock, and the slower one makes it  *)
(* usable again after it was called.                                       *)
OneCall == \A i \in Ids \ raced : called[i] <= 1

(* A ticket found in `answered' replays: its answer is there.  Only a      *)
(* refused authorize that ran beside another one of the same ticket may    *)
(* remove the answer (Tickets::remove takes no lock).                      *)
AnswerRetained == \A i \in Ids \ raced : file[i].st = "answered" => i \in answer

(* A ticket may be presented again only if its forward never started: once *)
(* the provider was called the journal never says counted again, and a     *)
(* settled ticket only disappears.  Only a second authorize that had the   *)
(* ticket in hand beside the first may write over it.                      *)
CalledIsClosed ==
  [][\A i \in Ids \ raced :
       /\ called'[i] > 0 => ~Live(file'[i].st)
       /\ Settled(file[i].st) /\ file'[i] # file[i]
            => file'[i].st = "none" \/ file'[i] = [file[i] EXCEPT !.over = TRUE]]_vars
=============================================================================
