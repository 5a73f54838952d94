------------------------------ MODULE Tickets ------------------------------
(***************************************************************************)
(* The key broker's provider role (mini-keys): tickets, the forward        *)
(* journal and the pool accounts.  One thread per connection; files are    *)
(* replaced by rename; a ticket is written before its call is counted and  *)
(* moves to `sending' before the transport starts.                         *)
(***************************************************************************)
EXTENDS Integers, FiniteSets

CONSTANTS
  Requests,     \* exact authorize requests (row, runner, owner, body digest)
  Threads,      \* connection threads of one uid
  MaxTickets,   \* bound on minted tickets
  MaxLive,      \* ticket::MAX_LIVE_PER_PEER
  PerDay,       \* caps.per_day (the runner's calls)
  MemberDay,    \* caps.member: the member's share of a day, in calls
  MemberTotal,  \* and of all time
  Ceiling,      \* caps.spend: the row's ceiling, in calls
  MaxDay,       \* bound on midnights
  MaxResets,    \* bound on the operator's resets of the spend total
  MaxFaults     \* bound on crashes and failed writes

ASSUME TicketsAssumption ==
  /\ {MaxTickets, MaxLive, PerDay, MemberDay, MemberTotal, Ceiling} \subseteq Nat
  /\ {MaxDay, MaxResets, MaxFaults} \subseteq Nat

Ids == 1..MaxTickets
NoOne == "none"

ASSUME ThreadsAssumption == NoOne \notin Threads /\ IsFiniteSet(Threads)

VARIABLES
  file,     \* SPOOL/tickets/ID.json: state, request, whether its time is over
  answer,   \* the tickets with an ID.answer
  minted,   \* ticket ids drawn so far
  flights,  \* in_flight
  lock,     \* holder of the provider's authority lock
  spend,    \* spend.json, in calls
  member,   \* members.json: the member's day, what it spent then and in all
  usage,    \* usage.json: the runner's day and calls
  day,      \* the calendar
  thr,      \* the connection threads
  given,    \* tickets a caller has
  called,   \* provider calls started under each ticket
  reset,    \* calls the operator has taken off the spend total
  raced,    \* history: tickets two authorizes had in hand at once
  resets, faults

files == <<file, answer>>
accounts == <<spend, member, usage>>
ghost == <<called, reset, raced>>
bounds == <<resets, faults>>
vars == <<files, minted, flights, lock, accounts, day, thr, given, ghost, bounds>>

NoTicket == [st |-> "none", req |-> NoOne, over |-> FALSE]
IdleThread == [pc |-> "idle", req |-> NoOne, id |-> 0, day |-> 0]
Live(st) == st \in {"minted", "counted"}
Settled(st) == st \in {"answered", "uncertain", "refused"}

Init ==
  /\ file = [i \in Ids |-> NoTicket] /\ answer = {} /\ minted = 0
  /\ flights = {} /\ lock = NoOne
  /\ spend = 0 /\ member = [day |-> 0, spent |-> 0, total |-> 0]
  /\ usage = [day |-> 0, calls |-> 0]
  /\ day = 0 /\ thr = [t \in Threads |-> IdleThread] /\ given = {}
  /\ called = [i \in Ids |-> 0] /\ reset = 0 /\ raced = {}
  /\ resets = 0 /\ faults = 0

Fault == faults < MaxFaults /\ faults' = faults + 1 /\ UNCHANGED resets

(* put writes the caller's whole copy of the ticket: it brings back a file  *)
(* that has been removed and overwrites whatever state the file has.       *)
Put(i, r, st) == file' = [file EXCEPT ![i] = [st |-> st, req |-> r, over |-> FALSE]]
Mark(i, r, st) ==
  file' = [file EXCEPT ![i] = [st |-> st, req |-> r, over |-> @.over /\ ~Settled(st)]]
Becomes(t, pc) == thr' = [thr EXCEPT ![t].pc = pc]
Ends(t) == thr' = [thr EXCEPT ![t] = IdleThread]

-----------------------------------------------------------------------------
(* provider-authorize.                                                     *)

Authorizing == {"grant", "spend", "member", "count", "refund_spend", "refund_member",
                "uncharge", "refused", "counted"}
InHand(i) == \E t \in Threads : thr[t].pc \in Authorizing /\ thr[t].id = i

LiveTickets == {i \in Ids : Live(file[i].st) /\ ~file[i].over}
FindRequest(r) == {i \in LiveTickets : file[i].req = r}

Granting(t, r, i) == thr' = [thr EXCEPT ![t] = [pc |-> "grant", req |-> r, id |-> i, day |-> day]]

(* A counted ticket of the same request is handed out again and nothing is *)
(* counted; a minted one is counted under its own id; otherwise a new id   *)
(* is drawn.  utc_day is read here, before the authority lock.  No lock is *)
(* held from here to pool_grant's: a retry may find the minted ticket of   *)
(* an authorize that still runs.                                           *)
Authorize(t, r) ==
  /\ thr[t].pc = "idle"
  /\ \/ \E i \in FindRequest(r) :
          \/ file[i].st = "counted" /\ given' = given \cup {i} /\ UNCHANGED <<thr, minted, raced>>
          \/ /\ file[i].st = "minted" /\ Granting(t, r, i) /\ UNCHANGED <<minted, given>>
             /\ raced' = IF InHand(i) THEN raced \cup {i} ELSE raced
     \/ /\ FindRequest(r) = {} /\ Cardinality(LiveTickets) < MaxLive
        /\ minted < MaxTickets /\ minted' = minted + 1
        /\ Granting(t, r, minted + 1) /\ UNCHANGED <<given, raced>>
  /\ UNCHANGED <<files, flights, lock, accounts, day, called, reset, bounds>>

SpentOn(d) == IF member.day = d THEN member.spent ELSE 0
CallsOn(d) == IF usage.day = d THEN usage.calls ELSE 0

(* Mutant: the day's last call is allowed once more.                       *)
MemberRoomLate(d) == member.total < MemberTotal /\ SpentOn(d) <= MemberDay

MemberRoom(d) == member.total < MemberTotal /\ SpentOn(d) < MemberDay

(* Mutant: the ticket is usable before its call is charged.                *)
PoolGrantCounted(t) ==
  /\ thr[t].pc = "grant" /\ lock = NoOne
  /\ spend < Ceiling /\ MemberRoom(thr[t].day)
  /\ Put(thr[t].id, thr[t].req, "counted") /\ lock' = t /\ Becomes(t, "spend")
  /\ UNCHANGED <<answer, minted, flights, accounts, day, given, ghost, bounds>>

(* pool_grant under the authority lock: every check, then the ticket.      *)
PoolGrant(t) ==
  /\ thr[t].pc = "grant" /\ lock = NoOne
  /\ \/ /\ spend < Ceiling /\ MemberRoom(thr[t].day)
        /\ Put(thr[t].id, thr[t].req, "minted") /\ lock' = t /\ Becomes(t, "spend")
        /\ UNCHANGED bounds
     \/ /\ IF spend < Ceiling /\ MemberRoom(thr[t].day) THEN Fault ELSE UNCHANGED bounds
        /\ Becomes(t, "refused") /\ UNCHANGED <<file, lock>>
  /\ UNCHANGED <<answer, minted, flights, accounts, day, given, ghost>>

(* The lock could not be had within two seconds.                           *)
GrantBusy(t) ==
  /\ thr[t].pc = "grant" /\ lock # NoOne /\ Becomes(t, "refused")
  /\ UNCHANGED <<files, minted, flights, lock, accounts, day, given, ghost, bounds>>

(* charge_spend and charge_member look at their own ceilings once more.    *)
ChargeSpend(t) ==
  /\ thr[t].pc = "spend"
  /\ \/ /\ spend < Ceiling /\ spend' = spend + 1
        /\ Becomes(t, "member") /\ UNCHANGED <<lock, bounds>>
     \/ /\ IF spend < Ceiling THEN Fault ELSE UNCHANGED bounds
        /\ Becomes(t, "refused") /\ lock' = NoOne /\ UNCHANGED spend
  /\ UNCHANGED <<files, minted, flights, member, usage, day, given, ghost>>

(* charge_member begins the member's day again whenever the caller's day   *)
(* is not the recorded one.                                                *)
MemberCharged(d, n) == [day |-> d, spent |-> SpentOn(d) + n, total |-> member.total + n]

ChargeMember(t) ==
  /\ thr[t].pc = "member"
  /\ \/ /\ MemberRoom(thr[t].day) /\ member' = MemberCharged(thr[t].day, 1)
        /\ Becomes(t, "count") /\ UNCHANGED bounds
     \/ /\ IF MemberRoom(thr[t].day) THEN Fault ELSE UNCHANGED bounds
        /\ Becomes(t, "uncharge") /\ UNCHANGED member
  /\ UNCHANGED <<files, minted, flights, lock, spend, usage, day, given, ghost>>

CountCall(t) ==
  /\ thr[t].pc = "count"
  /\ \/ /\ CallsOn(thr[t].day) < PerDay
        /\ usage' = [day |-> thr[t].day, calls |-> CallsOn(thr[t].day) + 1]
        /\ Becomes(t, "counted") /\ lock' = NoOne /\ UNCHANGED bounds
     \/ /\ IF CallsOn(thr[t].day) < PerDay THEN Fault ELSE UNCHANGED bounds
        /\ Becomes(t, "refund_spend") /\ UNCHANGED <<usage, lock>>
  /\ UNCHANGED <<files, minted, flights, spend, member, day, given, ghost>>

(* Charges are taken back one file at a time; an error leaves the rest.    *)
RefundSpend(t) ==
  /\ thr[t].pc \in {"uncharge", "refund_spend"}
  /\ \/ /\ spend' = spend - 1 /\ UNCHANGED bounds
        /\ IF thr[t].pc = "uncharge" THEN Becomes(t, "refused") /\ lock' = NoOne
                                     ELSE Becomes(t, "refund_member") /\ UNCHANGED lock
     \/ Fault /\ Becomes(t, "refused") /\ lock' = NoOne /\ UNCHANGED spend
  /\ UNCHANGED <<files, minted, flights, member, usage, day, given, ghost>>

RefundMember(t) ==
  /\ thr[t].pc = "refund_member" /\ Becomes(t, "refused") /\ lock' = NoOne
  /\ \/ /\ member' = MemberCharged(thr[t].day, -1) /\ UNCHANGED bounds
     \/ Fault /\ UNCHANGED member
  /\ UNCHANGED <<files, minted, flights, spend, usage, day, given, ghost>>

(* A refused authorize removes the ticket it named, after the lock.        *)
Refused(t) ==
  /\ thr[t].pc = "refused" /\ Ends(t)
  /\ file' = [file EXCEPT ![thr[t].id] = NoTicket] /\ answer' = answer \ {thr[t].id}
  /\ UNCHANGED <<minted, flights, lock, accounts, day, given, ghost, bounds>>

(* The ticket is handed out; the reply may be lost.                        *)
HandOut(t) ==
  /\ thr[t].pc = "counted" /\ Ends(t)
  /\ \/ /\ Put(thr[t].id, thr[t].req, "counted") /\ UNCHANGED bounds
        /\ \E g \in {given, given \cup {thr[t].id}} : given' = g
     \/ Fault /\ UNCHANGED <<file, given>>
  /\ UNCHANGED <<answer, minted, flights, lock, accounts, day, ghost>>

(* The operator's reset removes spend.json under the authority lock.       *)
ResetPoolSpend ==
  /\ resets < MaxResets /\ resets' = resets + 1 /\ lock = NoOne
  /\ reset' = reset + spend /\ spend' = 0
  /\ UNCHANGED <<files, minted, flights, lock, member, usage, day, thr, given, called, raced, faults>>

-----------------------------------------------------------------------------
(* provider-forward of a ticket.                                           *)

(* Mutant: the forward is only remembered in memory.                       *)
ForwardUnmarked(t, i) ==
  /\ thr[t].pc = "idle" /\ i \in given /\ file[i].st = "counted"
  /\ ~file[i].over /\ i \notin flights /\ flights' = flights \cup {i}
  /\ thr' = [thr EXCEPT ![t] = [pc |-> "send", req |-> file[i].req, id |-> i, day |-> 0]]
  /\ UNCHANGED <<files, minted, lock, accounts, day, given, ghost, bounds>>

(* Everything up to the durable `sending' happens under the ticket guard.  *)
(* An answered ticket replays its answer; a sending, uncertain, minted or  *)
(* refused one is refused: none of these changes anything.                 *)
Forward(t, i) ==
  /\ thr[t].pc = "idle" /\ i \in given /\ file[i].st = "counted"
  /\ \/ /\ ~file[i].over /\ i \notin flights
        /\ flights' = flights \cup {i} /\ Mark(i, file[i].req, "sending")
        /\ thr' = [thr EXCEPT ![t] = [pc |-> "send", req |-> file[i].req, id |-> i, day |-> 0]]
     \/ Mark(i, file[i].req, "refused") /\ UNCHANGED <<flights, thr>>  \* expired, or a body it may not carry
  /\ UNCHANGED <<answer, minted, lock, accounts, day, given, ghost, bounds>>

(* send: the child starts, or the spool or the spawn fails before anything *)
(* leaves the box.                                                         *)
Send(t) ==
  /\ thr[t].pc = "send"
  /\ \/ called' = [called EXCEPT ![thr[t].id] = @ + 1] /\ Becomes(t, "calling") /\ UNCHANGED bounds
     \/ Fault /\ Becomes(t, "unsent") /\ UNCHANGED called
  /\ UNCHANGED <<files, minted, flights, lock, accounts, day, given, reset, raced>>

(* The child ends with a response, whole or not, or the caller has gone.   *)
SendEnds(t) ==
  /\ thr[t].pc = "calling"
  /\ \E end \in {"answered", "uncertain"} : Becomes(t, end)
  /\ UNCHANGED <<files, minted, flights, lock, accounts, day, given, ghost, bounds>>

Land(t) == flights' = flights \ {thr[t].id} /\ Ends(t)

(* Mutant: the error of put_answer is ignored.                             *)
PutAnswerIgnored(t) ==
  /\ thr[t].pc = "answered" /\ Becomes(t, "settle")
  /\ \/ answer' = answer \cup {thr[t].id} /\ UNCHANGED bounds
     \/ Fault /\ UNCHANGED answer
  /\ UNCHANGED <<file, minted, flights, lock, accounts, day, given, ghost>>

(* put_answer, then the ticket: two renames.                               *)
PutAnswer(t) ==
  /\ thr[t].pc = "answered"
  /\ \/ /\ answer' = answer \cup {thr[t].id} /\ Becomes(t, "settle") /\ UNCHANGED <<flights, bounds>>
     \/ Fault /\ Land(t) /\ UNCHANGED answer
  /\ UNCHANGED <<file, minted, lock, accounts, day, given, ghost>>

Settle(t) ==
  /\ thr[t].pc \in {"settle", "unsent", "uncertain"}
  /\ LET st == [settle |-> "answered", unsent |-> "counted", uncertain |-> "uncertain"] IN
     \/ Mark(thr[t].id, thr[t].req, st[thr[t].pc]) /\ UNCHANGED bounds
     \/ Fault /\ UNCHANGED file
  /\ Land(t)
  /\ UNCHANGED <<answer, minted, lock, accounts, day, given, ghost>>

-----------------------------------------------------------------------------
(* Time passes over a ticket: a live one expires, a settled one outlives   *)
(* its retention.                                                          *)
Ages(i) ==
  /\ file[i].st # "none" /\ ~file[i].over
  /\ file' = [file EXCEPT ![i].over = TRUE]
  /\ UNCHANGED <<answer, minted, flights, lock, accounts, day, thr, given, ghost, bounds>>

Midnight ==
  /\ day < MaxDay /\ day' = day + 1
  /\ UNCHANGED <<files, minted, flights, lock, accounts, thr, given, ghost, bounds>>

(* The broker dies and is started again: Tickets::open sweeps.  A ticket   *)
(* left in `sending' is kept for ever; an answer without ticket goes.      *)
Swept == {i \in Ids : file[i].over /\ file[i].st # "sending"}
(* Mutant: a ticket the dead process left in `sending' is usable again.    *)
RestartRecovers ==
  /\ Fault
  /\ thr' = [t \in Threads |-> IdleThread] /\ flights' = {} /\ lock' = NoOne
  /\ file' = [i \in Ids |-> IF file[i].st = "sending" THEN [file[i] EXCEPT !.st = "counted"] ELSE file[i]]
  /\ UNCHANGED <<answer, minted, accounts, day, given, ghost>>

Restart ==
  /\ Fault
  /\ thr' = [t \in Threads |-> IdleThread] /\ flights' = {} /\ lock' = NoOne
  /\ file' = [i \in Ids |-> IF i \in Swept THEN NoTicket ELSE file[i]]
  /\ answer' = {i \in answer \ Swept : file[i].st # "none"}
  /\ UNCHANGED <<minted, accounts, day, given, ghost>>

Next ==
  \/ \E t \in Threads :
       \/ \E r \in Requests : Authorize(t, r)
       \/ PoolGrant(t) \/ GrantBusy(t) \/ ChargeSpend(t) \/ ChargeMember(t)
       \/ CountCall(t) \/ RefundSpend(t) \/ RefundMember(t) \/ Refused(t) \/ HandOut(t)
       \/ \E i \in Ids : Forward(t, i)
       \/ Send(t) \/ SendEnds(t) \/ PutAnswer(t) \/ Settle(t)
  \/ \E i \in Ids : Ages(i)
  \/ ResetPoolSpend \/ Midnight \/ Restart

Spec == Init /\ [][Next]_vars
=============================================================================
