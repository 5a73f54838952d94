--------------------------- MODULE TicketsProofs ---------------------------
(***************************************************************************)
(* Proofs about the key broker's tickets, for any number of threads,       *)
(* tickets, crashes and failed writes.  Authorizes of one request may run  *)
(* at once; what is said of a single ticket is said of the tickets that no *)
(* two authorizes had in hand together (`raced').                          *)
(***************************************************************************)
EXTENDS TicketsSafety, FiniteSetTheorems, TLAPS

-----------------------------------------------------------------------------
(* The inductive invariant                                                 *)

ThreadType ==
  [pc : ThreadStates, req : Requests \cup {NoOne}, id : 0..MaxTickets, day : 0..MaxDay]

(* The steps of pool_grant taken under the authority lock.                 *)
Holding == {"spend", "member", "count", "refund_spend", "refund_member", "uncharge"}

(* The steps of a forward.                                                 *)
Forwarding == {"send", "calling", "answered", "unsent", "uncertain", "settle"}

(* The lock is held by the thread inside pool_grant, and by no other.      *)
LockInv == \A t \in Threads : thr[t].pc \in Holding <=> lock = t

(* What the checks made under the lock still say when the accounts are     *)
(* written, and what a refund will find to take back.                      *)
PhaseOK(t) ==
  /\ thr[t].pc = "spend" => spend < Ceiling
  /\ thr[t].pc \in {"spend", "member"} => MemberRoom(thr[t].day)
  /\ thr[t].pc \in {"member", "count", "refund_spend", "uncharge"} => spend >= 1
  /\ thr[t].pc \in {"count", "refund_spend", "refund_member"} =>
       member.day = thr[t].day /\ member.spent >= 1 /\ member.total >= 1

(* A thread that authorizes has a ticket that was drawn and, unless a      *)
(* second one has it too, that nobody was given.                           *)
AuthorizeOK(t) ==
  thr[t].pc \in Authorizing =>
    /\ thr[t].id \in 1..minted
    /\ thr[t].id \notin raced =>
         /\ thr[t].id \notin given /\ called[thr[t].id] = 0
         /\ file[thr[t].id].st \in {"none", "minted"}

(* A thread that forwards has a ticket somebody was given, in flight and   *)
(* marked sending, and its own step says whether the provider was called.  *)
ForwardOK(t) ==
  thr[t].pc \in Forwarding =>
    /\ thr[t].id \in Ids /\ thr[t].id \in given
    /\ thr[t].id \notin raced =>
         /\ thr[t].id \in flights /\ file[thr[t].id].st = "sending"
         /\ called[thr[t].id] = IF thr[t].pc \in {"send", "unsent"} THEN 0 ELSE 1
         /\ thr[t].pc = "settle" => thr[t].id \in answer

(* Two busy threads have the same ticket only after a race for it.         *)
ApartInv ==
  \A t, u \in Threads :
    t # u /\ thr[t].pc # "idle" /\ thr[u].pc # "idle"
      => thr[t].id # thr[u].id \/ thr[t].id \in raced

(* What a ticket's file says about its call.                               *)
TicketOK(i) ==
  /\ i > minted => file[i].st = "none" /\ called[i] = 0 /\ i \notin given
  /\ i \notin raced =>
       /\ file[i].st = "minted" => called[i] = 0 /\ i \notin given
       /\ file[i].st = "counted" => called[i] = 0
       /\ file[i].st = "answered" => i \in answer
       /\ called[i] <= 1

PhaseInv == \A t \in Threads : PhaseOK(t)
JournalInv ==
  /\ \A t \in Threads : AuthorizeOK(t) /\ ForwardOK(t)
  /\ ApartInv
  /\ \A i \in Ids : TicketOK(i)

Inv == TypeOK /\ LockInv /\ PhaseInv /\ JournalInv

-----------------------------------------------------------------------------
(* What a step does to the threads                                         *)

(* The constants are natural numbers.                                      *)
LEMMA Naturals ==
  /\ MaxTickets \in Nat /\ PerDay \in Nat /\ MemberDay \in Nat
  /\ MemberTotal \in Nat /\ Ceiling \in Nat
  /\ MaxDay \in Nat /\ MaxResets \in Nat /\ MaxFaults \in Nat
BY TicketsAssumption

(* A fault is counted within its bound.                                    *)
LEMMA FaultCounted ==
  ASSUME TypeOK, faults' = faults \/ (faults < MaxFaults /\ faults' = faults + 1)
  PROVE  faults' \in 0..MaxFaults
BY Naturals DEF TypeOK

(* Only thread t takes the step.                                           *)
Alone(t) == \A u \in Threads : u # t => thr'[u] = thr[u]

(* A thread that goes on keeps its request, its ticket and its day.        *)
LEMMA BecomesEffect ==
  ASSUME TypeOK, NEW t \in Threads, NEW pc \in ThreadStates, Becomes(t, pc)
  PROVE  /\ thr' \in [Threads -> ThreadType] /\ Alone(t)
         /\ thr'[t].pc = pc /\ thr'[t].id = thr[t].id
         /\ thr'[t].req = thr[t].req /\ thr'[t].day = thr[t].day
BY DEF TypeOK, Becomes, ThreadType, Alone

(* A thread that ends is idle.                                             *)
LEMMA EndsEffect ==
  ASSUME TypeOK, NEW t \in Threads, Ends(t)
  PROVE  /\ thr' \in [Threads -> ThreadType] /\ Alone(t)
         /\ thr'[t].pc = "idle"
BY Naturals DEF TypeOK, Ends, ThreadType, IdleThread, ThreadStates, NoOne, Alone

FileType == [Ids -> [st : States, req : Requests \cup {NoOne}, over : BOOLEAN]]

(* put writes one ticket.                                                  *)
LEMMA PutEffect ==
  ASSUME TypeOK, NEW i \in Ids, NEW r \in Requests \cup {NoOne}, NEW st \in States, Put(i, r, st)
  PROVE  /\ file' \in FileType /\ \A j \in Ids : j # i => file'[j] = file[j]
         /\ file'[i].st = st /\ file'[i].req = r
BY DEF TypeOK, FileType, Put

(* The journal's mark writes one ticket.                                   *)
LEMMA MarkEffect ==
  ASSUME TypeOK, NEW i \in Ids, NEW r \in Requests \cup {NoOne}, NEW st \in States, Mark(i, r, st)
  PROVE  /\ file' \in FileType /\ \A j \in Ids : j # i => file'[j] = file[j]
         /\ file'[i].st = st
<1>1. (file[i].over /\ ~Settled(st)) \in BOOLEAN
  OBVIOUS
<1>. QED
  BY <1>1 DEF TypeOK, FileType, Mark

(* A busy thread's ticket has been drawn.                                  *)
LEMMA BusyTicket ==
  ASSUME Inv, NEW t \in Threads, thr[t].pc # "idle"
  PROVE  /\ thr[t].id \in Ids /\ thr[t].id \in 1..minted
         /\ thr[t].pc \in Authorizing \/ thr[t].pc \in Forwarding
<1>1. thr[t].pc \in Authorizing \/ thr[t].pc \in Forwarding
  BY DEF Inv, TypeOK, ThreadStates, Forwarding
<1>2. minted \in 0..MaxTickets /\ MaxTickets \in Nat
  BY Naturals DEF Inv, TypeOK
<1>3. AuthorizeOK(t) /\ ForwardOK(t) /\ \A i \in Ids : TicketOK(i)
  BY DEF Inv, JournalInv
<1>4. CASE thr[t].pc \in Authorizing
  BY <1>1, <1>2, <1>3, <1>4 DEF AuthorizeOK, Ids
<1>5. CASE thr[t].pc \in Forwarding
  <2>1. thr[t].id \in Ids /\ thr[t].id \in given
    BY <1>3, <1>5 DEF ForwardOK
  <2>2. ~(thr[t].id > minted)
    BY <1>3, <2>1 DEF TicketOK
  <2>. QED
    BY <1>1, <1>2, <2>1, <2>2 DEF Ids
<1>. QED
  BY <1>1, <1>4, <1>5

(* One thread at a time is inside pool_grant.                              *)
LEMMA OneHolder ==
  ASSUME LockInv, NEW t \in Threads, thr[t].pc \in Holding
  PROVE  lock = t /\ \A u \in Threads : u # t => thr[u].pc \notin Holding
BY DEF LockInv

(* A step outside pool_grant that leaves the accounts alone.               *)
LEMMA OutsideTheLock ==
  ASSUME Inv, NEW t \in Threads, Alone(t),
         thr[t].pc \notin Holding, thr'[t].pc \notin Holding,
         UNCHANGED <<lock, spend, member>>
  PROVE  LockInv' /\ PhaseInv'
<1>1. LockInv'
  BY DEF Inv, LockInv, Alone
<1>2. PhaseInv'
  BY DEF Inv, PhaseInv, PhaseOK, Alone, Holding, MemberRoom, SpentOn
<1>. QED
  BY <1>1, <1>2

(* A step inside pool_grant keeps the lock as long as it stays inside.     *)
LEMMA UnderTheLock ==
  ASSUME Inv, NEW t \in Threads, Alone(t), thr[t].pc \in Holding,
         lock' = (IF thr'[t].pc \in Holding THEN lock ELSE NoOne), PhaseOK(t)'
  PROVE  LockInv' /\ PhaseInv'
<1>1. lock = t /\ \A u \in Threads : u # t => thr[u].pc \notin Holding
  BY OneHolder DEF Inv
<1>2. LockInv'
  BY <1>1, ThreadsAssumption DEF LockInv, Alone
<1>3. \A u \in Threads : u # t => PhaseOK(u)'
  BY <1>1 DEF PhaseOK, Alone, Holding
<1>. QED
  BY <1>2, <1>3 DEF PhaseInv

(* A busy thread's step touches its own ticket i alone: what is known of   *)
(* the other threads and the other tickets stays true.                     *)
LEMMA OneTicketStep ==
  ASSUME Inv, NEW t \in Threads, thr[t].pc # "idle", Alone(t),
         NEW i \in Ids, i = thr[t].id,
         thr'[t].pc = "idle" \/ thr'[t].id = i,
         minted' = minted, raced' = raced, given \subseteq given',
         \A j \in Ids : j # i =>
           /\ file'[j] = file[j] /\ called'[j] = called[j]
           /\ (j \in given' <=> j \in given) /\ (j \in flights' <=> j \in flights)
           /\ (j \in answer' <=> j \in answer),
         AuthorizeOK(t)', ForwardOK(t)', TicketOK(i)'
  PROVE  JournalInv'
<1>1. \A u \in Threads : u # t /\ thr[u].pc # "idle" =>
        thr[u].id \in Ids /\ (thr[u].id # i \/ i \in raced)
  BY BusyTicket DEF Inv, JournalInv, ApartInv
<1>2. \A u \in Threads : u # t => AuthorizeOK(u)'
  <2>. SUFFICES ASSUME NEW u \in Threads, u # t, thr'[u].pc \in Authorizing
                PROVE  AuthorizeOK(u)'
    BY DEF AuthorizeOK
  <2>1. thr'[u] = thr[u] /\ AuthorizeOK(u) /\ thr[u].pc # "idle"
    BY DEF Inv, JournalInv, Alone, Authorizing
  <2>2. CASE thr[u].id # i
    <3>1. /\ file'[thr[u].id] = file[thr[u].id] /\ called'[thr[u].id] = called[thr[u].id]
          /\ (thr[u].id \in given' <=> thr[u].id \in given)
      BY <1>1, <2>1, <2>2
    <3>. QED
      BY <2>1, <3>1 DEF AuthorizeOK
  <2>3. CASE thr[u].id = i /\ i \in raced
    BY <2>1, <2>3 DEF AuthorizeOK
  <2>. QED
    BY <1>1, <2>1, <2>2, <2>3
<1>3. \A u \in Threads : u # t => ForwardOK(u)'
  <2>. SUFFICES ASSUME NEW u \in Threads, u # t, thr'[u].pc \in Forwarding
                PROVE  ForwardOK(u)'
    BY DEF ForwardOK
  <2>1. thr'[u] = thr[u] /\ ForwardOK(u) /\ thr[u].pc # "idle"
    BY DEF Inv, JournalInv, Alone, Forwarding
  <2>2. CASE thr[u].id # i
    BY <1>1, <2>1, <2>2 DEF ForwardOK
  <2>3. CASE thr[u].id = i /\ i \in raced
    BY <2>1, <2>3 DEF ForwardOK
  <2>. QED
    BY <1>1, <2>1, <2>2, <2>3
<1>4. ApartInv'
  BY <1>1 DEF Inv, JournalInv, ApartInv, Alone
<1>5. \A j \in Ids : j # i => TicketOK(j)'
  BY DEF Inv, JournalInv, TicketOK
<1>. QED
  BY <1>2, <1>3, <1>4, <1>5 DEF JournalInv

(* While the tickets stay as they are, an authorize goes from step to step *)
(* without disturbing what is known of them.                               *)
LEMMA AuthorizeGoesOn ==
  ASSUME Inv, NEW t \in Threads, NEW pc \in Authorizing,
         thr[t].pc \in Authorizing, Becomes(t, pc),
         UNCHANGED <<file, answer, minted, flights, given, called, raced>>
  PROVE  JournalInv'
<1>1. Alone(t) /\ thr'[t].pc = pc /\ thr'[t].id = thr[t].id /\ thr'[t].req = thr[t].req
  BY BecomesEffect DEF Inv, ThreadStates
<1>2. thr[t].pc # "idle" /\ thr'[t].pc \notin Forwarding
  BY <1>1 DEF Authorizing, Forwarding
<1>3. thr[t].id \in Ids
  BY <1>2, BusyTicket
<1>4. AuthorizeOK(t)'
  BY <1>1 DEF Inv, JournalInv, AuthorizeOK
<1>5. ForwardOK(t)'
  BY <1>2 DEF ForwardOK
<1>6. TicketOK(thr[t].id) /\ \A i \in Ids : TicketOK(i) => TicketOK(i)'
  BY <1>3 DEF Inv, JournalInv, TicketOK
<1>. QED
  BY <1>1, <1>2, <1>3, <1>4, <1>5, <1>6, OneTicketStep

-----------------------------------------------------------------------------
(* Every action of an authorize preserves the invariant                    *)

(* A thread that could not have the lock gives up its grant.               *)
LEMMA GrantBusyKeeps ==
  ASSUME Inv, NEW t \in Threads, GrantBusy(t)
  PROVE  Inv'
<1>1. /\ UNCHANGED <<file, answer, minted, flights, lock, spend, member, usage, day,
                     given, called, raced, reset, resets, faults>>
      /\ thr[t].pc = "grant" /\ Becomes(t, "refused")
  BY DEF GrantBusy, files, accounts, ghost, bounds
<1>2. thr' \in [Threads -> ThreadType] /\ Alone(t) /\ thr'[t].pc = "refused"
  BY <1>1, BecomesEffect DEF Inv, ThreadStates, Authorizing
<1>3. JournalInv'
  BY <1>1, AuthorizeGoesOn DEF Authorizing
<1>4. TypeOK'
  BY <1>1, <1>2 DEF Inv, TypeOK, ThreadType
<1>5. LockInv' /\ PhaseInv'
  BY <1>1, <1>2, OutsideTheLock DEF Holding
<1>. QED
  BY <1>3, <1>4, <1>5 DEF Inv

(* charge_spend: the row is charged within its ceiling.                    *)
LEMMA ChargeSpendKeeps ==
  ASSUME Inv, NEW t \in Threads, ChargeSpend(t)
  PROVE  Inv'
<1>1. /\ UNCHANGED <<file, answer, minted, flights, member, usage, day, given, called, raced, reset>>
      /\ thr[t].pc = "spend"
  BY DEF ChargeSpend, files, ghost
<1>2. PICK pc \in {"member", "refused"} :
        /\ Becomes(t, pc)
        /\ \/ pc = "member" /\ spend' = spend + 1 /\ UNCHANGED <<lock, resets, faults>>
           \/ /\ pc = "refused" /\ lock' = NoOne /\ UNCHANGED <<spend, resets>>
              /\ faults' = faults \/ (faults < MaxFaults /\ faults' = faults + 1)
  BY DEF ChargeSpend, Fault, bounds
<1>3. /\ thr' \in [Threads -> ThreadType] /\ Alone(t)
      /\ thr'[t].pc = pc /\ thr'[t].day = thr[t].day
  BY <1>2, BecomesEffect DEF Inv, ThreadStates, Authorizing
<1>4. JournalInv'
  BY <1>1, <1>2, AuthorizeGoesOn DEF Authorizing
<1>5. spend \in 0..Ceiling /\ spend < Ceiling /\ MemberRoom(thr[t].day)
  BY <1>1 DEF Inv, TypeOK, PhaseInv, PhaseOK
<1>6. TypeOK'
  <2>1. faults \in 0..MaxFaults /\ lock \in Threads \cup {NoOne}
    BY DEF Inv, TypeOK
  <2>2. /\ spend' \in 0..Ceiling /\ faults' \in 0..MaxFaults /\ resets' = resets
        /\ lock' \in Threads \cup {NoOne}
    BY <1>2, <1>5, <2>1, Naturals
  <2>. QED
    BY <1>1, <1>3, <2>2 DEF Inv, TypeOK, ThreadType
<1>7. LockInv' /\ PhaseInv'
  <2>1. pc = "member" => spend' >= 1 /\ MemberRoom(thr[t].day)'
    BY <1>1, <1>2, <1>3, <1>5 DEF MemberRoom, SpentOn
  <2>2. PhaseOK(t)'
    BY <1>2, <1>3, <2>1 DEF PhaseOK
  <2>. QED
    BY <1>1, <1>2, <1>3, <2>2, UnderTheLock DEF Holding
<1>. QED
  BY <1>4, <1>6, <1>7 DEF Inv

(* charge_member: the member is charged within its share.                  *)
LEMMA ChargeMemberKeeps ==
  ASSUME Inv, NEW t \in Threads, ChargeMember(t)
  PROVE  Inv'
<1>1. /\ UNCHANGED <<file, answer, minted, flights, lock, spend, usage, day, given, called, raced, reset>>
      /\ thr[t].pc = "member"
  BY DEF ChargeMember, files, ghost
<1>2. PICK pc \in {"count", "uncharge"} :
        /\ Becomes(t, pc)
        /\ \/ pc = "count" /\ member' = MemberCharged(thr[t].day, 1) /\ UNCHANGED <<resets, faults>>
           \/ /\ pc = "uncharge" /\ UNCHANGED <<member, resets>>
              /\ faults' = faults \/ (faults < MaxFaults /\ faults' = faults + 1)
  BY DEF ChargeMember, Fault, bounds
<1>3. /\ thr' \in [Threads -> ThreadType] /\ Alone(t)
      /\ thr'[t].pc = pc /\ thr'[t].day = thr[t].day
  BY <1>2, BecomesEffect DEF Inv, ThreadStates, Authorizing
<1>4. JournalInv'
  BY <1>1, <1>2, AuthorizeGoesOn DEF Authorizing
<1>5. spend \in 0..Ceiling /\ spend >= 1 /\ MemberRoom(thr[t].day) /\ thr[t].day \in 0..MaxDay
  BY <1>1 DEF Inv, TypeOK, PhaseInv, PhaseOK
<1>6. member \in [day : 0..MaxDay, spent : 0..MemberDay, total : 0..MemberTotal]
  BY DEF Inv, TypeOK
<1>7. member' = MemberCharged(thr[t].day, 1) =>
        /\ member' \in [day : 0..MaxDay, spent : 0..MemberDay, total : 0..MemberTotal]
        /\ member'.day = thr[t].day /\ member'.spent >= 1 /\ member'.total >= 1
  BY <1>5, <1>6, Naturals DEF MemberRoom, SpentOn, MemberCharged
<1>8. TypeOK'
  <2>1. faults \in 0..MaxFaults
    BY DEF Inv, TypeOK
  <2>2. /\ faults' \in 0..MaxFaults /\ resets' = resets
        /\ member' \in [day : 0..MaxDay, spent : 0..MemberDay, total : 0..MemberTotal]
    BY <1>2, <1>6, <1>7, <2>1, Naturals
  <2>. QED
    BY <1>1, <1>3, <2>2 DEF Inv, TypeOK, ThreadType
<1>9. LockInv' /\ PhaseInv'
  <2>1. PhaseOK(t)'
    BY <1>1, <1>2, <1>3, <1>5, <1>7 DEF PhaseOK
  <2>. QED
    BY <1>1, <1>2, <1>3, <2>1, UnderTheLock DEF Holding
<1>. QED
  BY <1>4, <1>8, <1>9 DEF Inv

(* count_call: the runner's day is counted, or the refunds begin.          *)
LEMMA CountCallKeeps ==
  ASSUME Inv, NEW t \in Threads, CountCall(t)
  PROVE  Inv'
<1>1. /\ UNCHANGED <<file, answer, minted, flights, spend, member, day, given, called, raced, reset>>
      /\ thr[t].pc = "count"
  BY DEF CountCall, files, ghost
<1>2. PICK pc \in {"counted", "refund_spend"} :
        /\ Becomes(t, pc)
        /\ \/ /\ pc = "counted" /\ CallsOn(thr[t].day) < PerDay
              /\ usage' = [day |-> thr[t].day, calls |-> CallsOn(thr[t].day) + 1]
              /\ lock' = NoOne /\ UNCHANGED <<resets, faults>>
           \/ /\ pc = "refund_spend" /\ UNCHANGED <<usage, lock, resets>>
              /\ faults' = faults \/ (faults < MaxFaults /\ faults' = faults + 1)
  BY DEF CountCall, Fault, bounds
<1>3. /\ thr' \in [Threads -> ThreadType] /\ Alone(t)
      /\ thr'[t].pc = pc /\ thr'[t].day = thr[t].day
  BY <1>2, BecomesEffect DEF Inv, ThreadStates, Authorizing
<1>4. JournalInv'
  BY <1>1, <1>2, AuthorizeGoesOn DEF Authorizing
<1>5. TypeOK'
  <2>1. /\ faults \in 0..MaxFaults /\ lock \in Threads \cup {NoOne} /\ thr[t].day \in 0..MaxDay
        /\ usage \in [day : 0..MaxDay, calls : 0..PerDay]
    BY DEF Inv, TypeOK
  <2>2. CallsOn(thr[t].day) < PerDay =>
          [day |-> thr[t].day, calls |-> CallsOn(thr[t].day) + 1] \in [day : 0..MaxDay, calls : 0..PerDay]
    <3>1. CallsOn(thr[t].day) \in 0..PerDay
      BY <2>1, Naturals DEF CallsOn
    <3>. QED
      BY <2>1, <3>1, Naturals
  <2>3. usage' \in [day : 0..MaxDay, calls : 0..PerDay]
    <3>1. \/ usage' = usage
          \/ /\ CallsOn(thr[t].day) < PerDay
             /\ usage' = [day |-> thr[t].day, calls |-> CallsOn(thr[t].day) + 1]
      BY <1>2
    <3>. QED
      BY <3>1, <2>1, <2>2
  <2>4. faults' \in 0..MaxFaults
    BY <1>2, FaultCounted DEF Inv
  <2>5. resets' = resets /\ lock' \in Threads \cup {NoOne}
    BY <1>2, <2>1
  <2>. QED
    BY <1>1, <1>3, <2>3, <2>4, <2>5 DEF Inv, TypeOK, ThreadType
<1>6. LockInv' /\ PhaseInv'
  <2>1. PhaseOK(t)'
    BY <1>1, <1>2, <1>3 DEF Inv, PhaseInv, PhaseOK
  <2>. QED
    BY <1>1, <1>2, <1>3, <2>1, UnderTheLock DEF Holding
<1>. QED
  BY <1>4, <1>5, <1>6 DEF Inv

(* The row's charge is taken back: it was made by this thread.             *)
LEMMA RefundSpendKeeps ==
  ASSUME Inv, NEW t \in Threads, RefundSpend(t)
  PROVE  Inv'
<1>1. /\ UNCHANGED <<file, answer, minted, flights, member, usage, day, given, called, raced, reset>>
      /\ thr[t].pc \in {"uncharge", "refund_spend"}
  BY DEF RefundSpend, files, ghost
<1>2. PICK pc \in {"refused", "refund_member"} :
        /\ Becomes(t, pc)
        /\ \/ spend' = spend - 1 /\ UNCHANGED <<resets, faults>>
           \/ UNCHANGED <<spend, resets>> /\ faults < MaxFaults /\ faults' = faults + 1
        /\ \/ pc = "refused" /\ lock' = NoOne
           \/ pc = "refund_member" /\ lock' = lock /\ thr[t].pc = "refund_spend"
  BY DEF RefundSpend, Fault, bounds
<1>3. /\ thr' \in [Threads -> ThreadType] /\ Alone(t)
      /\ thr'[t].pc = pc /\ thr'[t].day = thr[t].day
  BY <1>2, BecomesEffect DEF Inv, ThreadStates, Authorizing
<1>4. JournalInv'
  BY <1>1, <1>2, AuthorizeGoesOn DEF Authorizing
<1>5. spend \in 0..Ceiling /\ spend >= 1
  BY <1>1 DEF Inv, TypeOK, PhaseInv, PhaseOK
<1>6. TypeOK'
  <2>1. spend' = spend \/ spend' = spend - 1
    BY <1>2
  <2>2. resets' = resets /\ lock' \in Threads \cup {NoOne}
    BY <1>2 DEF Inv, TypeOK
  <2>3. faults' \in 0..MaxFaults
    BY <1>2, FaultCounted DEF Inv
  <2>4. Ceiling \in Nat
    BY Naturals
  <2>5. spend' \in 0..Ceiling
    BY ONLY <2>1, <1>5, <2>4
  <2>. QED
    BY <1>1, <1>3, <2>2, <2>3, <2>5 DEF Inv, TypeOK, ThreadType
<1>7. LockInv' /\ PhaseInv'
  <2>1. PhaseOK(t)'
    BY <1>1, <1>2, <1>3 DEF Inv, PhaseInv, PhaseOK
  <2>. QED
    BY <1>1, <1>2, <1>3, <2>1, UnderTheLock DEF Holding
<1>. QED
  BY <1>4, <1>6, <1>7 DEF Inv

(* The member's charge is taken back on the day it was made.               *)
LEMMA RefundMemberKeeps ==
  ASSUME Inv, NEW t \in Threads, RefundMember(t)
  PROVE  Inv'
<1>1. /\ UNCHANGED <<file, answer, minted, flights, spend, usage, day, given, called, raced, reset, resets>>
      /\ thr[t].pc = "refund_member" /\ Becomes(t, "refused") /\ lock' = NoOne
      /\ \/ member' = MemberCharged(thr[t].day, -1) /\ faults' = faults
         \/ member' = member /\ faults < MaxFaults /\ faults' = faults + 1
  BY DEF RefundMember, Fault, files, ghost, bounds
<1>2. thr' \in [Threads -> ThreadType] /\ Alone(t) /\ thr'[t].pc = "refused"
  BY <1>1, BecomesEffect DEF Inv, ThreadStates, Authorizing
<1>3. JournalInv'
  BY <1>1, AuthorizeGoesOn DEF Authorizing
<1>4. TypeOK'
  <2>1. /\ member \in [day : 0..MaxDay, spent : 0..MemberDay, total : 0..MemberTotal]
        /\ thr[t].day \in 0..MaxDay /\ faults \in 0..MaxFaults
    BY DEF Inv, TypeOK
  <2>2. member.day = thr[t].day /\ member.spent >= 1 /\ member.total >= 1
    BY <1>1 DEF Inv, PhaseInv, PhaseOK
  <2>3. MemberCharged(thr[t].day, -1)
          \in [day : 0..MaxDay, spent : 0..MemberDay, total : 0..MemberTotal]
    BY <2>1, <2>2, Naturals DEF MemberCharged, SpentOn
  <2>4. member' \in [day : 0..MaxDay, spent : 0..MemberDay, total : 0..MemberTotal]
    BY <1>1, <2>1, <2>3
  <2>5. faults' \in 0..MaxFaults /\ lock' \in Threads \cup {NoOne}
    BY <1>1, FaultCounted DEF Inv
  <2>. QED
    BY <1>1, <1>2, <2>4, <2>5 DEF Inv, TypeOK, ThreadType
<1>5. LockInv' /\ PhaseInv'
  <2>1. PhaseOK(t)'
    BY <1>2 DEF PhaseOK
  <2>. QED
    BY <1>1, <1>2, <2>1, UnderTheLock DEF Holding
<1>. QED
  BY <1>3, <1>4, <1>5 DEF Inv

(* pool_grant takes the lock with its checks fresh, or refuses.            *)
LEMMA PoolGrantKeeps ==
  ASSUME Inv, NEW t \in Threads, PoolGrant(t)
  PROVE  Inv'
<1>1. /\ UNCHANGED <<answer, minted, flights, spend, member, usage, day, given, called, raced, reset, resets>>
      /\ thr[t].pc = "grant" /\ lock = NoOne
  BY DEF PoolGrant, Fault, accounts, ghost, bounds
<1>2. CASE /\ spend < Ceiling /\ MemberRoom(thr[t].day)
           /\ Put(thr[t].id, thr[t].req, "minted") /\ lock' = t /\ Becomes(t, "spend")
           /\ UNCHANGED faults
  <2>1. /\ thr' \in [Threads -> ThreadType] /\ Alone(t) /\ thr'[t].pc = "spend"
        /\ thr'[t].id = thr[t].id /\ thr'[t].req = thr[t].req /\ thr'[t].day = thr[t].day
    BY <1>2, BecomesEffect DEF Inv, ThreadStates, Authorizing
  <2>2. thr[t].id \in Ids /\ thr[t].id \in 1..minted /\ thr[t].req \in Requests \cup {NoOne}
    BY <1>1, BusyTicket DEF Inv, TypeOK
  <2>3. /\ file' \in FileType
        /\ \A j \in Ids : j # thr[t].id => file'[j] = file[j]
        /\ file'[thr[t].id].st = "minted" /\ file'[thr[t].id].req = thr[t].req
    BY <1>2, <2>2, PutEffect DEF Inv, States
  <2>4. AuthorizeOK(t)
    BY DEF Inv, JournalInv
  <2>5. thr[t].id \notin raced => thr[t].id \notin given /\ called[thr[t].id] = 0
    BY <1>1, <2>4 DEF AuthorizeOK, Authorizing
  <2>6. AuthorizeOK(t)' /\ ForwardOK(t)'
    BY <1>1, <2>1, <2>2, <2>3, <2>5 DEF AuthorizeOK, ForwardOK, Forwarding
  <2>7. \A i \in Ids : i = thr[t].id => TicketOK(i)'
    BY <1>1, <2>2, <2>3, <2>5 DEF Inv, TypeOK, TicketOK
  <2>8. JournalInv'
    BY <1>1, <2>1, <2>2, <2>3, <2>6, <2>7, OneTicketStep
  <2>9. LockInv'
    BY <1>1, <1>2, <2>1, ThreadsAssumption DEF Inv, LockInv, Alone, Holding
  <2>10. PhaseInv'
    <3>1. \A u \in Threads : thr[u].pc \notin Holding
      BY <1>1, ThreadsAssumption DEF Inv, LockInv
    <3>2. \A u \in Threads : u # t => PhaseOK(u)'
      BY <2>1, <3>1 DEF Alone, PhaseOK, Holding
    <3>3. PhaseOK(t)'
      BY <1>1, <1>2, <2>1 DEF PhaseOK, MemberRoom, SpentOn
    <3>. QED
      BY <3>2, <3>3 DEF PhaseInv
  <2>11. TypeOK'
    BY <1>1, <1>2, <2>1, <2>3 DEF Inv, TypeOK, ThreadType, FileType
  <2>. QED
    BY <2>8, <2>9, <2>10, <2>11 DEF Inv
<1>3. CASE /\ UNCHANGED <<file, lock>> /\ Becomes(t, "refused")
           /\ faults' = faults \/ (faults < MaxFaults /\ faults' = faults + 1)
  <2>1. thr' \in [Threads -> ThreadType] /\ Alone(t) /\ thr'[t].pc = "refused"
    BY <1>3, BecomesEffect DEF Inv, ThreadStates, Authorizing
  <2>2. JournalInv'
    BY <1>1, <1>3, AuthorizeGoesOn DEF Authorizing
  <2>3. faults' \in 0..MaxFaults
    BY <1>3, FaultCounted DEF Inv
  <2>4. TypeOK'
    BY <1>1, <1>3, <2>1, <2>3 DEF Inv, TypeOK, ThreadType, FileType
  <2>5. LockInv' /\ PhaseInv'
    BY <1>1, <1>3, <2>1, OutsideTheLock DEF Holding
  <2>. QED
    BY <2>2, <2>4, <2>5 DEF Inv
<1>. QED
  BY <1>2, <1>3 DEF PoolGrant, Fault, bounds

(* A refused authorize removes a ticket nobody was given.                  *)
LEMMA RefusedKeeps ==
  ASSUME Inv, NEW t \in Threads, Refused(t)
  PROVE  Inv'
<1>1. /\ UNCHANGED <<minted, flights, lock, spend, member, usage, day, given, called, raced, reset, resets, faults>>
      /\ thr[t].pc = "refused" /\ Ends(t) /\ answer' = answer \ {thr[t].id}
      /\ file' = [file EXCEPT ![thr[t].id] = NoTicket]
  BY DEF Refused, accounts, ghost, bounds
<1>2. thr' \in [Threads -> ThreadType] /\ Alone(t) /\ thr'[t].pc = "idle"
  BY <1>1, EndsEffect DEF Inv
<1>3. thr[t].id \in Ids /\ thr[t].id \in 1..minted /\ AuthorizeOK(t)
  BY <1>1, BusyTicket DEF Inv, JournalInv
<1>4. /\ file' \in FileType
      /\ \A j \in Ids : j # thr[t].id => file'[j] = file[j]
      /\ file'[thr[t].id].st = "none"
      /\ thr[t].id \notin raced => called[thr[t].id] = 0
  BY <1>1, <1>3 DEF Inv, TypeOK, FileType, NoTicket, States, AuthorizeOK, Authorizing
<1>5. AuthorizeOK(t)' /\ ForwardOK(t)'
  BY <1>2 DEF AuthorizeOK, ForwardOK, Forwarding, Authorizing
<1>6. \A i \in Ids : i = thr[t].id => TicketOK(i)'
  BY <1>1, <1>3, <1>4 DEF Inv, TypeOK, TicketOK
<1>7. JournalInv'
  BY <1>1, <1>2, <1>3, <1>4, <1>5, <1>6, OneTicketStep
<1>8. TypeOK'
  BY <1>1, <1>2, <1>4 DEF Inv, TypeOK, ThreadType, FileType
<1>9. LockInv' /\ PhaseInv'
  BY <1>1, <1>2, OutsideTheLock DEF Holding
<1>. QED
  BY <1>7, <1>8, <1>9 DEF Inv

(* The ticket is counted, and its caller may get it.                       *)
LEMMA HandOutKeeps ==
  ASSUME Inv, NEW t \in Threads, HandOut(t)
  PROVE  Inv'
<1>1. /\ UNCHANGED <<answer, minted, flights, lock, spend, member, usage, day, called, raced, reset, resets>>
      /\ thr[t].pc = "counted" /\ Ends(t)
      /\ \/ /\ Put(thr[t].id, thr[t].req, "counted") /\ faults' = faults
            /\ given' = given \/ given' = given \cup {thr[t].id}
         \/ UNCHANGED <<file, given>> /\ faults < MaxFaults /\ faults' = faults + 1
  BY DEF HandOut, Fault, accounts, ghost, bounds
<1>2. thr' \in [Threads -> ThreadType] /\ Alone(t) /\ thr'[t].pc = "idle"
  BY <1>1, EndsEffect DEF Inv
<1>3. thr[t].id \in Ids /\ thr[t].id \in 1..minted /\ AuthorizeOK(t) /\ TicketOK(thr[t].id)
  BY <1>1, BusyTicket DEF Inv, JournalInv
<1>4. /\ thr[t].id \notin raced => called[thr[t].id] = 0
      /\ thr[t].req \in Requests \cup {NoOne}
  BY <1>1, <1>3 DEF Inv, TypeOK, AuthorizeOK, Authorizing
<1>5. /\ file' \in FileType
      /\ \A j \in Ids : j # thr[t].id => file'[j] = file[j]
      /\ file'[thr[t].id].st = "counted" \/ (file' = file /\ given' = given)
  <2>1. CASE Put(thr[t].id, thr[t].req, "counted")
    BY <1>3, <1>4, <2>1, PutEffect DEF Inv, States
  <2>2. CASE UNCHANGED <<file, given>>
    BY <2>2 DEF Inv, TypeOK, FileType
  <2>. QED
    BY <1>1, <2>1, <2>2
<1>6. /\ given' \subseteq Ids /\ given \subseteq given'
      /\ \A j \in Ids : j # thr[t].id => (j \in given' <=> j \in given)
  BY <1>1, <1>3 DEF Inv, TypeOK
<1>7. AuthorizeOK(t)' /\ ForwardOK(t)'
  BY <1>2 DEF AuthorizeOK, ForwardOK, Forwarding, Authorizing
<1>8. \A i \in Ids : i = thr[t].id => TicketOK(i)'
  BY <1>1, <1>3, <1>4, <1>5 DEF Inv, TypeOK, TicketOK
<1>9. JournalInv'
  BY <1>1, <1>2, <1>3, <1>5, <1>6, <1>7, <1>8, OneTicketStep
<1>10. faults' \in 0..MaxFaults
  BY <1>1, FaultCounted DEF Inv
<1>11. TypeOK'
  BY <1>1, <1>2, <1>5, <1>6, <1>10 DEF Inv, TypeOK, ThreadType, FileType
<1>12. LockInv' /\ PhaseInv'
  BY <1>1, <1>2, OutsideTheLock DEF Holding
<1>. QED
  BY <1>9, <1>11, <1>12 DEF Inv

(* A ticket that is picked up minted is raced from now on if an authorize  *)
(* has it already; a new ticket is in nobody's hands.                      *)
LEMMA AuthorizeKeeps ==
  ASSUME Inv, NEW t \in Threads, NEW r \in Requests, Authorize(t, r)
  PROVE  Inv'
<1>1. /\ UNCHANGED <<file, answer, flights, lock, spend, member, usage, day, called, reset, resets, faults>>
      /\ thr[t].pc = "idle"
  BY DEF Authorize, files, accounts, ghost, bounds
<1>2. minted \in 0..MaxTickets /\ MaxTickets \in Nat /\ day \in 0..MaxDay
  BY Naturals DEF Inv, TypeOK
<1>3. CASE \E i \in FindRequest(r) : given' = given \cup {i} /\ file[i].st = "counted" /\ UNCHANGED <<thr, minted, raced>>
  <2>1. PICK i \in Ids : file[i].st = "counted" /\ given' = given \cup {i}
    BY <1>3 DEF FindRequest, LiveTickets
  <2>2. \A j \in Ids : TicketOK(j)'
    <3>. SUFFICES ASSUME NEW j \in Ids PROVE TicketOK(j)'
      OBVIOUS
    <3>1. TicketOK(j) /\ TicketOK(i)
      BY DEF Inv, JournalInv
    <3>. QED
      BY <1>1, <1>3, <2>1, <3>1 DEF TicketOK
  <2>3. \A u \in Threads : AuthorizeOK(u)'
    <3>. SUFFICES ASSUME NEW u \in Threads, thr'[u].pc \in Authorizing
                  PROVE  AuthorizeOK(u)'
      BY DEF AuthorizeOK
    <3>1. thr' = thr /\ minted' = minted /\ raced' = raced
      BY <1>3
    <3>2. AuthorizeOK(u)
      BY DEF Inv, JournalInv
    <3>3. thr[u].id # i \/ i \in raced
      BY <2>1, <3>1, <3>2 DEF AuthorizeOK
    <3>. QED
      BY <1>1, <2>1, <3>1, <3>2, <3>3, BusyTicket DEF AuthorizeOK
  <2>4. \A u \in Threads : ForwardOK(u)'
    BY <1>1, <1>3, <2>1 DEF Inv, JournalInv, ForwardOK
  <2>5. ApartInv'
    BY <1>3 DEF Inv, JournalInv, ApartInv
  <2>6. TypeOK'
    BY <1>1, <1>3, <2>1 DEF Inv, TypeOK
  <2>7. LockInv' /\ PhaseInv'
    BY <1>1, <1>3 DEF Inv, LockInv, PhaseInv, PhaseOK, MemberRoom, SpentOn
  <2>. QED
    BY <2>2, <2>3, <2>4, <2>5, <2>6, <2>7 DEF Inv, JournalInv
<1>4. CASE \E i \in Ids :
             /\ Granting(t, r, i) /\ given' = given
             /\ \/ /\ minted' = minted /\ file[i].st = "minted"
                   /\ raced' = IF InHand(i) THEN raced \cup {i} ELSE raced
                \/ minted < MaxTickets /\ minted' = minted + 1 /\ i = minted' /\ raced' = raced
  <2>1. PICK i \in Ids :
             /\ Granting(t, r, i) /\ given' = given
             /\ \/ /\ minted' = minted /\ file[i].st = "minted"
                   /\ raced' = IF InHand(i) THEN raced \cup {i} ELSE raced
                \/ minted < MaxTickets /\ minted' = minted + 1 /\ i = minted' /\ raced' = raced
    BY <1>4
  <2>2. /\ thr' \in [Threads -> ThreadType] /\ Alone(t)
        /\ thr'[t].pc = "grant" /\ thr'[t].id = i /\ thr'[t].req = r
    BY <1>2, <2>1 DEF Inv, TypeOK, Granting, ThreadType, ThreadStates, Authorizing, Alone, Ids
  <2>r. raced \subseteq raced' /\ raced' \subseteq Ids /\ raced' \subseteq raced \cup {i}
    BY <2>1 DEF Inv, TypeOK
  <2>3. i \in 1..minted' /\ minted' \in 0..MaxTickets
    <3>1. TicketOK(i)
      BY DEF Inv, JournalInv
    <3>. QED
      BY <1>2, <2>1, <3>1 DEF TicketOK, Ids
  <2>4. i \notin raced =>
          i \notin given /\ called[i] = 0 /\ file[i].st \in {"none", "minted"}
    <3>1. TicketOK(i)
      BY DEF Inv, JournalInv
    <3>2. CASE file[i].st = "minted"
      BY <3>1, <3>2 DEF TicketOK
    <3>3. CASE i = minted + 1
      BY <1>2, <3>1, <3>3 DEF TicketOK
    <3>. QED
      BY <2>1, <3>2, <3>3
  <2>5. \A u \in Threads : u # t /\ thr[u].pc # "idle" => thr[u].id # i \/ i \in raced'
    <3>. SUFFICES ASSUME NEW u \in Threads, u # t, thr[u].pc # "idle", thr[u].id = i, i \notin raced
                  PROVE  i \in raced'
      BY <2>r
    <3>1. AuthorizeOK(u) /\ ForwardOK(u) /\ thr[u].id \in 1..minted
      BY BusyTicket DEF Inv, JournalInv
    <3>2. thr[u].pc \in Authorizing
      BY <2>4, <3>1, BusyTicket DEF ForwardOK
    <3>3. raced' = IF InHand(i) THEN raced \cup {i} ELSE raced
      BY <1>2, <2>1, <3>1
    <3>. QED
      BY <3>2, <3>3 DEF InHand
  <2>6. \A u \in Threads : AuthorizeOK(u)'
    <3>1. AuthorizeOK(t)'
      BY <1>1, <2>1, <2>2, <2>r, <2>3, <2>4 DEF AuthorizeOK
    <3>2. \A u \in Threads : u # t => AuthorizeOK(u)'
      <4>. SUFFICES ASSUME NEW u \in Threads, u # t, thr'[u].pc \in Authorizing
                    PROVE  AuthorizeOK(u)'
        BY DEF AuthorizeOK
      <4>1. thr'[u] = thr[u] /\ AuthorizeOK(u)
        BY <2>2 DEF Alone, Inv, JournalInv
      <4>2. thr'[u].id \in 1..minted'
        BY <1>2, <2>1, <4>1 DEF AuthorizeOK
      <4>. QED
        BY <1>1, <2>1, <2>r, <4>1, <4>2 DEF AuthorizeOK
    <3>. QED
      BY <3>1, <3>2
  <2>7. \A u \in Threads : ForwardOK(u)'
    <3>. SUFFICES ASSUME NEW u \in Threads, thr'[u].pc \in Forwarding
                  PROVE  ForwardOK(u)'
      BY DEF ForwardOK
    <3>1. thr'[u] = thr[u] /\ ForwardOK(u)
      BY <2>2 DEF Inv, JournalInv, Forwarding, Alone
    <3>. QED
      BY <1>1, <2>1, <2>r, <3>1 DEF ForwardOK
  <2>8. ApartInv'
    BY <2>2, <2>5, <2>r DEF Inv, JournalInv, ApartInv, Alone
  <2>9. \A j \in Ids : TicketOK(j)'
    <3>. SUFFICES ASSUME NEW j \in Ids PROVE TicketOK(j)'
      OBVIOUS
    <3>1. TicketOK(j)
      BY DEF Inv, JournalInv
    <3>2. j > minted' => j > minted
      BY <1>2, <2>1 DEF Ids
    <3>. QED
      BY <1>1, <2>1, <2>r, <3>1, <3>2 DEF TicketOK
  <2>10. TypeOK'
    BY <1>1, <2>1, <2>2, <2>r, <2>3 DEF Inv, TypeOK, ThreadType
  <2>11. LockInv' /\ PhaseInv'
    BY <1>1, <2>2, OutsideTheLock DEF Holding
  <2>. QED
    BY <2>6, <2>7, <2>8, <2>9, <2>10, <2>11 DEF Inv, JournalInv
<1>5. FindRequest(r) \subseteq {i \in Ids : file[i].req = r}
  BY DEF FindRequest, LiveTickets
<1>6. minted < MaxTickets => minted + 1 \in Ids
  BY <1>2 DEF Ids
<1>. QED
  BY <1>3, <1>4, <1>5, <1>6 DEF Authorize

-----------------------------------------------------------------------------
(* Every action of a forward preserves the invariant                       *)

(* A forward takes a counted ticket that is not in flight.                 *)
LEMMA ForwardKeeps ==
  ASSUME Inv, NEW t \in Threads, NEW i \in Ids, Forward(t, i)
  PROVE  Inv'
<1>1. /\ UNCHANGED <<answer, minted, lock, spend, member, usage, day, given, called, raced, reset, resets, faults>>
      /\ thr[t].pc = "idle" /\ i \in given /\ file[i].st = "counted"
  BY DEF Forward, accounts, ghost, bounds
<1>2. TicketOK(i) /\ file[i].req \in Requests \cup {NoOne}
  BY DEF Inv, JournalInv, TypeOK
<1>3. PICK st \in {"sending", "refused"} : Mark(i, file[i].req, st)
  BY DEF Forward
<1>4. /\ file' \in FileType /\ \A j \in Ids : j # i => file'[j] = file[j]
      /\ file'[i].st = st
  BY <1>2, <1>3, MarkEffect DEF Inv, States
<1>5. \A u \in Threads : AuthorizeOK(u) /\ (thr[u].pc \in Authorizing => thr[u].id \in Ids /\ (thr[u].id # i \/ i \in raced))
  BY <1>1, BusyTicket DEF Inv, JournalInv, AuthorizeOK, Authorizing
<1>6. \A u \in Threads : ForwardOK(u) /\ (thr[u].pc \in Forwarding => thr[u].id \in Ids /\ (thr[u].id # i \/ i \in raced))
  BY <1>1 DEF Inv, JournalInv, ForwardOK
<1>7. \A j \in Ids : TicketOK(j)'
  BY <1>1, <1>2, <1>4 DEF Inv, JournalInv, TicketOK
<1>8. CASE /\ i \notin flights /\ flights' = flights \cup {i} /\ Mark(i, file[i].req, "sending")
           /\ thr' = [thr EXCEPT ![t] = [pc |-> "send", req |-> file[i].req, id |-> i, day |-> 0]]
  <2>1. file'[i].st = "sending"
    BY <1>2, <1>8, MarkEffect DEF Inv, States
  <2>2. /\ thr' \in [Threads -> ThreadType] /\ Alone(t)
        /\ thr'[t].pc = "send" /\ thr'[t].id = i
    <3>1. i \in 0..MaxTickets /\ 0 \in 0..MaxDay /\ "send" \in ThreadStates
      BY Naturals DEF Ids, ThreadStates
    <3>. QED
      BY <1>2, <1>8, <3>1 DEF Inv, TypeOK, ThreadType, Alone
  <2>3. \A u \in Threads : AuthorizeOK(u)'
    <3>. SUFFICES ASSUME NEW u \in Threads, thr'[u].pc \in Authorizing
                  PROVE  AuthorizeOK(u)'
      BY DEF AuthorizeOK
    <3>1. thr'[u] = thr[u]
      BY <2>2 DEF Alone, Authorizing
    <3>. QED
      BY <1>1, <1>4, <1>5, <3>1 DEF AuthorizeOK
  <2>4. \A u \in Threads : ForwardOK(u)'
    <3>1. ForwardOK(t)'
      BY <1>1, <1>2, <1>8, <2>1, <2>2 DEF ForwardOK, TicketOK
    <3>2. \A u \in Threads : u # t => ForwardOK(u)'
      BY <1>1, <1>4, <1>6, <1>8, <2>2 DEF ForwardOK, Alone
    <3>. QED
      BY <3>1, <3>2
  <2>5. ApartInv'
    <3>1. \A u \in Threads : u # t /\ thr[u].pc # "idle" => thr[u].id # i \/ i \in raced
      BY <1>5, <1>6, BusyTicket
    <3>. QED
      BY <1>1, <2>2, <3>1 DEF Inv, JournalInv, ApartInv, Alone
  <2>6. TypeOK'
    BY <1>1, <1>4, <1>8, <2>2 DEF Inv, TypeOK, ThreadType, FileType
  <2>7. LockInv' /\ PhaseInv'
    BY <1>1, <2>2, OutsideTheLock DEF Holding
  <2>. QED
    BY <1>7, <2>3, <2>4, <2>5, <2>6, <2>7 DEF Inv, JournalInv
<1>9. CASE UNCHANGED <<flights, thr>>
  <2>1. \A u \in Threads : AuthorizeOK(u)'
    BY <1>1, <1>4, <1>5, <1>9 DEF AuthorizeOK
  <2>2. \A u \in Threads : ForwardOK(u)'
    BY <1>1, <1>4, <1>6, <1>9 DEF ForwardOK
  <2>3. ApartInv'
    BY <1>1, <1>9 DEF Inv, JournalInv, ApartInv
  <2>4. TypeOK'
    BY <1>1, <1>4, <1>9 DEF Inv, TypeOK, FileType
  <2>5. LockInv' /\ PhaseInv'
    BY <1>1, <1>9 DEF Inv, LockInv, PhaseInv, PhaseOK, MemberRoom, SpentOn
  <2>. QED
    BY <1>7, <2>1, <2>2, <2>3, <2>4, <2>5 DEF Inv, JournalInv
<1>. QED
  BY <1>8, <1>9 DEF Forward

(* The transport starts under a ticket without a call.                     *)
LEMMA SendKeeps ==
  ASSUME Inv, NEW t \in Threads, Send(t)
  PROVE  Inv'
<1>1. /\ UNCHANGED <<file, answer, minted, flights, lock, spend, member, usage, day, given, raced, reset, resets>>
      /\ thr[t].pc = "send"
  BY DEF Send, Fault, files, accounts, bounds
<1>2. PICK pc \in {"calling", "unsent"} :
        /\ Becomes(t, pc)
        /\ \/ /\ pc = "calling" /\ called' = [called EXCEPT ![thr[t].id] = @ + 1]
              /\ faults' = faults
           \/ pc = "unsent" /\ called' = called /\ faults < MaxFaults /\ faults' = faults + 1
  BY DEF Send, Fault, bounds
<1>3. /\ thr' \in [Threads -> ThreadType] /\ Alone(t)
      /\ thr'[t].pc = pc /\ thr'[t].id = thr[t].id
  BY <1>2, BecomesEffect DEF Inv, ThreadStates
<1>4. thr[t].id \in Ids /\ thr[t].id \in 1..minted /\ ForwardOK(t)
  BY <1>1, BusyTicket DEF Inv, JournalInv
<1>5. /\ called' \in [Ids -> Nat] /\ \A j \in Ids : j # thr[t].id => called'[j] = called[j]
      /\ thr[t].id \notin raced => called'[thr[t].id] = IF pc = "calling" THEN 1 ELSE 0
  BY <1>1, <1>2, <1>4 DEF Inv, TypeOK, ForwardOK, Forwarding
<1>6. AuthorizeOK(t)' /\ ForwardOK(t)'
  BY <1>1, <1>2, <1>3, <1>4, <1>5 DEF AuthorizeOK, ForwardOK, Forwarding, Authorizing
<1>7. \A i \in Ids : i = thr[t].id => TicketOK(i)'
  BY <1>1, <1>2, <1>4, <1>5 DEF Inv, TypeOK, TicketOK, ForwardOK, Forwarding
<1>8. JournalInv'
  BY <1>1, <1>3, <1>4, <1>5, <1>6, <1>7, OneTicketStep
<1>9. faults' \in 0..MaxFaults
  BY <1>2, FaultCounted DEF Inv
<1>10. TypeOK'
  BY <1>1, <1>3, <1>5, <1>9 DEF Inv, TypeOK, ThreadType
<1>11. LockInv' /\ PhaseInv'
  BY <1>1, <1>2, <1>3, OutsideTheLock DEF Holding
<1>. QED
  BY <1>8, <1>10, <1>11 DEF Inv

(* The end of the child says nothing to the journal yet.                   *)
LEMMA SendEndsKeeps ==
  ASSUME Inv, NEW t \in Threads, SendEnds(t)
  PROVE  Inv'
<1>1. /\ UNCHANGED <<file, answer, minted, flights, lock, spend, member, usage, day, given, called, raced,
                     reset, resets, faults>>
      /\ thr[t].pc = "calling"
  BY DEF SendEnds, files, accounts, ghost, bounds
<1>2. PICK pc \in {"answered", "uncertain"} : Becomes(t, pc)
  BY DEF SendEnds
<1>3. /\ thr' \in [Threads -> ThreadType] /\ Alone(t)
      /\ thr'[t].pc = pc /\ thr'[t].id = thr[t].id
  BY <1>2, BecomesEffect DEF Inv, ThreadStates
<1>4. thr[t].id \in Ids /\ ForwardOK(t) /\ TicketOK(thr[t].id)
  BY <1>1, BusyTicket DEF Inv, JournalInv
<1>5. AuthorizeOK(t)' /\ ForwardOK(t)'
  BY <1>1, <1>2, <1>3, <1>4 DEF AuthorizeOK, ForwardOK, Forwarding, Authorizing
<1>6. \A i \in Ids : i = thr[t].id => TicketOK(i)'
  BY <1>1, <1>4 DEF TicketOK
<1>7. JournalInv'
  BY <1>1, <1>3, <1>4, <1>5, <1>6, OneTicketStep
<1>8. TypeOK'
  BY <1>1, <1>3 DEF Inv, TypeOK, ThreadType
<1>9. LockInv' /\ PhaseInv'
  BY <1>1, <1>2, <1>3, OutsideTheLock DEF Holding
<1>. QED
  BY <1>7, <1>8, <1>9 DEF Inv

(* The answer is there before the ticket says answered.                    *)
LEMMA PutAnswerKeeps ==
  ASSUME Inv, NEW t \in Threads, PutAnswer(t)
  PROVE  Inv'
<1>1. /\ UNCHANGED <<file, minted, lock, spend, member, usage, day, given, called, raced, reset, resets>>
      /\ thr[t].pc = "answered"
      /\ faults' = faults \/ (faults < MaxFaults /\ faults' = faults + 1)
  BY DEF PutAnswer, Fault, accounts, ghost, bounds
<1>2. thr[t].id \in Ids /\ ForwardOK(t) /\ TicketOK(thr[t].id)
  BY <1>1, BusyTicket DEF Inv, JournalInv
<1>3. /\ thr' \in [Threads -> ThreadType] /\ Alone(t)
      /\ answer' \subseteq Ids /\ flights' \subseteq Ids
      /\ \A j \in Ids : j # thr[t].id =>
           (j \in flights' <=> j \in flights) /\ (j \in answer' <=> j \in answer)
      /\ thr[t].id \in answer => thr[t].id \in answer'
      /\ \/ thr'[t].pc = "idle"
         \/ /\ thr'[t].pc = "settle" /\ thr'[t].id = thr[t].id
            /\ thr[t].id \in answer' /\ flights' = flights
  <2>1. CASE answer' = answer \cup {thr[t].id} /\ Becomes(t, "settle") /\ flights' = flights
    BY <1>2, <2>1, BecomesEffect DEF Inv, TypeOK, ThreadStates
  <2>2. CASE Land(t) /\ answer' = answer
    BY <1>2, <2>2, EndsEffect DEF Inv, TypeOK, Land
  <2>. QED
    BY <2>1, <2>2 DEF PutAnswer
<1>4. AuthorizeOK(t)' /\ ForwardOK(t)'
  BY <1>1, <1>2, <1>3 DEF AuthorizeOK, ForwardOK, Forwarding, Authorizing
<1>5. \A i \in Ids : i = thr[t].id => TicketOK(i)'
  BY <1>1, <1>2, <1>3 DEF TicketOK
<1>6. JournalInv'
  BY <1>1, <1>2, <1>3, <1>4, <1>5, OneTicketStep
<1>7. faults' \in 0..MaxFaults
  BY <1>1, FaultCounted DEF Inv
<1>8. TypeOK'
  BY <1>1, <1>3, <1>7 DEF Inv, TypeOK, ThreadType
<1>9. LockInv' /\ PhaseInv'
  BY <1>1, <1>3, OutsideTheLock DEF Holding
<1>. QED
  BY <1>6, <1>8, <1>9 DEF Inv

(* The ticket is settled as its call went, or stays sending.               *)
LEMMA SettleKeeps ==
  ASSUME Inv, NEW t \in Threads, Settle(t)
  PROVE  Inv'
<1>1. /\ UNCHANGED <<answer, minted, lock, spend, member, usage, day, given, called, raced, reset, resets>>
      /\ thr[t].pc \in {"settle", "unsent", "uncertain"}
      /\ faults' = faults \/ (faults < MaxFaults /\ faults' = faults + 1)
      /\ flights' = flights \ {thr[t].id} /\ Ends(t)
  BY DEF Settle, Fault, Land, accounts, ghost, bounds
<1>2. /\ thr[t].id \in Ids /\ thr[t].req \in Requests \cup {NoOne}
      /\ ForwardOK(t) /\ TicketOK(thr[t].id)
  BY <1>1, BusyTicket DEF Inv, TypeOK, JournalInv
<1>3. thr' \in [Threads -> ThreadType] /\ Alone(t) /\ thr'[t].pc = "idle"
  BY <1>1, EndsEffect DEF Inv
<1>4. /\ file' \in FileType /\ \A j \in Ids : j # thr[t].id => file'[j] = file[j]
      /\ \/ thr[t].id \in raced
         \/ file'[thr[t].id].st = "sending"
         \/ file'[thr[t].id].st = "answered" /\ thr[t].pc = "settle"
         \/ file'[thr[t].id].st = "counted" /\ thr[t].pc = "unsent"
         \/ file'[thr[t].id].st = "uncertain"
  <2>1. CASE file' = file
    BY <1>1, <1>2, <2>1 DEF Inv, TypeOK, FileType, ForwardOK, Forwarding
  <2>2. CASE \E st \in {"answered", "counted", "uncertain"} :
               /\ Mark(thr[t].id, thr[t].req, st)
               /\ st = "answered" => thr[t].pc = "settle"
               /\ st = "counted" => thr[t].pc = "unsent"
    BY <1>2, <2>2, MarkEffect DEF Inv, States
  <2>. QED
    BY <1>1, <2>1, <2>2 DEF Settle
<1>5. AuthorizeOK(t)' /\ ForwardOK(t)'
  BY <1>3 DEF AuthorizeOK, ForwardOK, Forwarding, Authorizing
<1>6. \A i \in Ids : i = thr[t].id => TicketOK(i)'
  BY <1>1, <1>2, <1>4 DEF TicketOK, ForwardOK, Forwarding
<1>7. JournalInv'
  BY <1>1, <1>2, <1>3, <1>4, <1>5, <1>6, OneTicketStep
<1>8. faults' \in 0..MaxFaults
  BY <1>1, FaultCounted DEF Inv
<1>9. TypeOK'
  BY <1>1, <1>3, <1>4, <1>8 DEF Inv, TypeOK, ThreadType, FileType
<1>10. LockInv' /\ PhaseInv'
  BY <1>1, <1>3, OutsideTheLock DEF Holding
<1>. QED
  BY <1>7, <1>9, <1>10 DEF Inv

-----------------------------------------------------------------------------
(* Time, the operator and a crash preserve the invariant                   *)

(* Time over a ticket changes nothing the invariant looks at.              *)
LEMMA AgesKeeps ==
  ASSUME Inv, NEW i \in Ids, Ages(i)
  PROVE  Inv'
<1>1. /\ UNCHANGED <<answer, minted, flights, lock, spend, member, usage, day, thr, given, called, raced,
                     reset, resets, faults>>
      /\ file' = [file EXCEPT ![i].over = TRUE]
  BY DEF Ages, accounts, ghost, bounds
<1>2. /\ file' \in FileType
      /\ \A j \in Ids : file'[j].st = file[j].st /\ file'[j].req = file[j].req
  BY <1>1 DEF Inv, TypeOK, FileType
<1>3. TypeOK'
  BY <1>1, <1>2 DEF Inv, TypeOK, FileType
<1>4. LockInv' /\ PhaseInv'
  BY <1>1 DEF Inv, LockInv, PhaseInv, PhaseOK, MemberRoom, SpentOn
<1>5. \A t \in Threads : AuthorizeOK(t)'
  BY <1>1, <1>2, BusyTicket DEF Inv, JournalInv, AuthorizeOK, Authorizing
<1>6. \A t \in Threads : ForwardOK(t)'
  BY <1>1, <1>2 DEF Inv, JournalInv, ForwardOK
<1>7. ApartInv' /\ \A j \in Ids : TicketOK(j)'
  BY <1>1, <1>2 DEF Inv, JournalInv, ApartInv, TicketOK
<1>. QED
  BY <1>3, <1>4, <1>5, <1>6, <1>7 DEF Inv, JournalInv

(* The operator's reset waits for the lock: no refund is under way.        *)
LEMMA ResetPoolSpendKeeps ==
  ASSUME Inv, ResetPoolSpend
  PROVE  Inv'
<1>1. /\ UNCHANGED <<file, answer, minted, flights, lock, member, usage, day, thr, given, called, raced, faults>>
      /\ lock = NoOne /\ spend' = 0 /\ reset' = reset + spend
      /\ resets < MaxResets /\ resets' = resets + 1
  BY DEF ResetPoolSpend, files
<1>2. TypeOK'
  <2>1. spend \in 0..Ceiling /\ reset \in Nat /\ resets \in 0..MaxResets
    BY DEF Inv, TypeOK
  <2>2. spend' \in 0..Ceiling /\ reset' \in Nat /\ resets' \in 0..MaxResets
    BY <1>1, <2>1, Naturals
  <2>. QED
    BY <1>1, <2>2 DEF Inv, TypeOK
<1>3. LockInv'
  BY <1>1 DEF Inv, LockInv
<1>4. PhaseInv'
  <2>1. \A t \in Threads : thr[t].pc \notin Holding
    BY <1>1, ThreadsAssumption DEF Inv, LockInv
  <2>. QED
    BY <1>1, <2>1 DEF PhaseInv, PhaseOK, Holding
<1>5. JournalInv'
  BY <1>1 DEF Inv, JournalInv, AuthorizeOK, ForwardOK, ApartInv, TicketOK
<1>. QED
  BY <1>2, <1>3, <1>4, <1>5 DEF Inv

(* A new day leaves the days the threads have read.                        *)
LEMMA MidnightKeeps ==
  ASSUME Inv, Midnight
  PROVE  Inv'
<1>1. /\ UNCHANGED <<file, answer, minted, flights, lock, spend, member, usage, thr, given, called, raced,
                     reset, resets, faults>>
      /\ day < MaxDay /\ day' = day + 1
  BY DEF Midnight, files, accounts, ghost, bounds
<1>2. TypeOK'
  <2>1. day' \in 0..MaxDay
    BY <1>1, Naturals DEF Inv, TypeOK
  <2>. QED
    BY <1>1, <2>1 DEF Inv, TypeOK
<1>3. LockInv' /\ PhaseInv'
  BY <1>1 DEF Inv, LockInv, PhaseInv, PhaseOK, MemberRoom, SpentOn
<1>4. JournalInv'
  BY <1>1 DEF Inv, JournalInv, AuthorizeOK, ForwardOK, ApartInv, TicketOK
<1>. QED
  BY <1>2, <1>3, <1>4 DEF Inv

(* The threads, the lock and in_flight are gone; the files are as the      *)
(* sweep leaves them.                                                      *)
LEMMA RestartKeeps ==
  ASSUME Inv, Restart
  PROVE  Inv'
<1>1. /\ UNCHANGED <<minted, spend, member, usage, day, given, called, raced, reset, resets>>
      /\ faults < MaxFaults /\ faults' = faults + 1
      /\ thr' = [t \in Threads |-> IdleThread] /\ flights' = {} /\ lock' = NoOne
      /\ file' = [i \in Ids |-> IF i \in Swept THEN NoTicket ELSE file[i]]
      /\ answer' = {i \in answer \ Swept : file[i].st # "none"}
  BY DEF Restart, Fault, accounts, ghost
<1>2. thr' \in [Threads -> ThreadType] /\ \A t \in Threads : thr'[t].pc = "idle"
  BY <1>1, Naturals DEF ThreadType, IdleThread, ThreadStates
<1>3. /\ file' \in FileType
      /\ \A j \in Ids : file'[j].st = "none" \/ (file'[j] = file[j] /\ (j \in answer /\ file[j].st # "none" => j \in answer'))
  BY <1>1 DEF Inv, TypeOK, FileType, NoTicket, States
<1>4. TypeOK'
  <2>1. faults' \in 0..MaxFaults
    BY <1>1, FaultCounted DEF Inv
  <2>2. answer' \subseteq Ids /\ flights' \subseteq Ids
    BY <1>1 DEF Inv, TypeOK
  <2>. QED
    BY <1>1, <1>2, <1>3, <2>1, <2>2 DEF Inv, TypeOK, ThreadType, FileType
<1>5. LockInv' /\ PhaseInv'
  BY <1>1, <1>2, ThreadsAssumption DEF LockInv, PhaseInv, PhaseOK, Holding
<1>6. \A t \in Threads : AuthorizeOK(t)' /\ ForwardOK(t)'
  BY <1>2 DEF AuthorizeOK, ForwardOK, Authorizing, Forwarding
<1>7. ApartInv' /\ \A j \in Ids : TicketOK(j)'
  BY <1>1, <1>2, <1>3 DEF Inv, JournalInv, ApartInv, TicketOK
<1>. QED
  BY <1>4, <1>5, <1>6, <1>7 DEF Inv, JournalInv

(* The broker starts without tickets.                                      *)
LEMMA InitInv ==
  ASSUME Init
  PROVE  Inv
<1>1. /\ file = [i \in Ids |-> NoTicket] /\ answer = {} /\ minted = 0 /\ flights = {} /\ lock = NoOne
      /\ spend = 0 /\ member = [day |-> 0, spent |-> 0, total |-> 0]
      /\ usage = [day |-> 0, calls |-> 0] /\ day = 0
      /\ thr = [t \in Threads |-> IdleThread] /\ given = {}
      /\ called = [i \in Ids |-> 0] /\ reset = 0 /\ raced = {} /\ resets = 0 /\ faults = 0
  BY DEF Init
<1>2. /\ thr \in [Threads -> ThreadType] /\ \A t \in Threads : thr[t].pc = "idle"
      /\ file \in FileType /\ \A i \in Ids : file[i].st = "none"
  BY <1>1, Naturals DEF ThreadType, FileType, IdleThread, NoTicket, ThreadStates, States
<1>3. TypeOK
  <2>1. /\ member \in [day : 0..MaxDay, spent : 0..MemberDay, total : 0..MemberTotal]
        /\ usage \in [day : 0..MaxDay, calls : 0..PerDay] /\ called \in [Ids -> Nat]
    BY <1>1, Naturals
  <2>. QED
    BY <1>1, <1>2, <2>1, Naturals DEF TypeOK, ThreadType, FileType
<1>4. LockInv /\ PhaseInv
  BY <1>1, <1>2, ThreadsAssumption DEF LockInv, PhaseInv, PhaseOK, Holding
<1>5. JournalInv
  BY <1>1, <1>2 DEF JournalInv, AuthorizeOK, ForwardOK, Authorizing, Forwarding, ApartInv, TicketOK
<1>. QED
  BY <1>3, <1>4, <1>5 DEF Inv

(* Every step of the broker preserves the invariant.                       *)
LEMMA NextKeeps ==
  ASSUME Inv, [Next]_vars
  PROVE  Inv'
<1>1. ASSUME UNCHANGED vars PROVE Inv'
  BY <1>1 DEF vars, files, accounts, ghost, bounds, Inv, TypeOK, LockInv, PhaseInv, PhaseOK,
     MemberRoom, SpentOn, JournalInv, AuthorizeOK, ForwardOK, ApartInv, TicketOK
<1>2. ASSUME NEW t \in Threads, NEW r \in Requests, Authorize(t, r) PROVE Inv'
  BY <1>2, AuthorizeKeeps
<1>3. ASSUME NEW t \in Threads,
             \/ PoolGrant(t) \/ GrantBusy(t) \/ ChargeSpend(t) \/ ChargeMember(t)
             \/ CountCall(t) \/ RefundSpend(t) \/ RefundMember(t) \/ Refused(t) \/ HandOut(t)
      PROVE Inv'
  BY <1>3, PoolGrantKeeps, GrantBusyKeeps, ChargeSpendKeeps, ChargeMemberKeeps, CountCallKeeps,
     RefundSpendKeeps, RefundMemberKeeps, RefusedKeeps, HandOutKeeps
<1>4. ASSUME NEW t \in Threads, NEW i \in Ids, Forward(t, i) PROVE Inv'
  BY <1>4, ForwardKeeps
<1>5. ASSUME NEW t \in Threads, Send(t) \/ SendEnds(t) \/ PutAnswer(t) \/ Settle(t) PROVE Inv'
  BY <1>5, SendKeeps, SendEndsKeeps, PutAnswerKeeps, SettleKeeps
<1>6. ASSUME NEW i \in Ids, Ages(i) PROVE Inv'
  BY <1>6, AgesKeeps
<1>7. ASSUME ResetPoolSpend \/ Midnight \/ Restart PROVE Inv'
  BY <1>7, ResetPoolSpendKeeps, MidnightKeeps, RestartKeeps
<1>. QED
  BY <1>1, <1>2, <1>3, <1>4, <1>5, <1>6, <1>7 DEF Next

(* Types; no charge is taken back twice (spend and the member's accounts   *)
(* never go below zero or above their ceilings).                           *)
THEOREM TicketsTyped == Spec => []TypeOK
<1>1. Init => Inv
  BY InitInv
<1>2. Inv /\ [Next]_vars => Inv'
  BY NextKeeps
<1>3. Inv => TypeOK
  BY DEF Inv
<1>. QED
  BY <1>1, <1>2, <1>3, PTL DEF Spec

(* "A retry is never a second provider call": under a ticket the transport *)
(* starts at most once (forward_with), whatever crashes, fails or is       *)
(* retried, unless two authorizes had the ticket in hand at once;          *)
(* overlapping authorizes are part of Spec.                                *)
THEOREM AtMostOneCall == Spec => []OneCall
<1>1. Init => Inv
  BY InitInv
<1>2. Inv /\ [Next]_vars => Inv'
  BY NextKeeps
<1>3. Inv => OneCall
  BY DEF Inv, JournalInv, TicketOK, OneCall
<1>. QED
  BY <1>1, <1>2, <1>3, PTL DEF Spec

(* A ticket found answered has its answer file: put_answer's rename comes  *)
(* before the ticket's, and no removal separates the two, except that of a *)
(* refused authorize beside another one of the same ticket (OneCall's      *)
(* exception).                                                             *)
THEOREM AnswersRetained == Spec => []AnswerRetained
<1>1. Init => Inv
  BY InitInv
<1>2. Inv /\ [Next]_vars => Inv'
  BY NextKeeps
<1>3. Inv => AnswerRetained
  BY DEF Inv, JournalInv, TicketOK, AnswerRetained
<1>. QED
  BY <1>1, <1>2, <1>3, PTL DEF Spec

(* A settled ticket is only removed or marked as over.                     *)
LEMMA SettledStays ==
  ASSUME Inv, [Next]_vars, NEW i \in Ids \ raced, Settled(file[i].st), file'[i] # file[i]
  PROVE  file'[i].st = "none" \/ file'[i] = [file[i] EXCEPT !.over = TRUE]
<1>1. file \in FileType
  BY DEF Inv, TypeOK, FileType
<1>2. \A t \in Threads : thr[t].pc # "idle" => thr[t].id \in Ids /\ thr[t].id # i
  <2>. SUFFICES ASSUME NEW t \in Threads, thr[t].pc # "idle", thr[t].id = i PROVE FALSE
    BY BusyTicket
  <2>1. AuthorizeOK(t) /\ ForwardOK(t) /\ (thr[t].pc \in Authorizing \/ thr[t].pc \in Forwarding)
    BY BusyTicket DEF Inv, JournalInv
  <2>. QED
    BY <2>1 DEF AuthorizeOK, ForwardOK, Settled
<1>3. ASSUME NEW t \in Threads, NEW j \in Ids, j # i, NEW r, NEW st,
             Put(j, r, st) \/ Mark(j, r, st)
      PROVE  file'[i] = file[i]
  BY <1>1, <1>3 DEF Put, Mark, FileType
<1>4. ASSUME NEW t \in Threads,
             PoolGrant(t) \/ HandOut(t) \/ Settle(t)
      PROVE  file'[i] = file[i]
  <2>1. thr[t].pc # "idle"
    BY <1>4 DEF PoolGrant, HandOut, Settle
  <2>2. CASE PoolGrant(t)
    BY <1>2, <1>3, <2>1, <2>2 DEF PoolGrant
  <2>3. CASE HandOut(t)
    BY <1>2, <1>3, <2>1, <2>3 DEF HandOut
  <2>4. CASE Settle(t)
    BY <1>2, <1>3, <2>1, <2>4 DEF Settle
  <2>. QED
    BY <1>4, <2>2, <2>3, <2>4
<1>5. ASSUME NEW t \in Threads, Refused(t)
      PROVE  file'[i] = file[i]
  BY <1>1, <1>2, <1>5 DEF Refused, FileType
<1>6. ASSUME NEW t \in Threads, NEW j \in Ids, Forward(t, j)
      PROVE  file'[i] = file[i]
  <2>1. j # i
    BY <1>6 DEF Forward, Settled
  <2>. QED
    BY <1>3, <1>6, <2>1 DEF Forward
<1>7. ASSUME NEW j \in Ids, Ages(j)
      PROVE  file'[i] = file[i] \/ file'[i] = [file[i] EXCEPT !.over = TRUE]
  BY <1>1, <1>7 DEF Ages, FileType
<1>8. ASSUME Restart
      PROVE  file'[i] = file[i] \/ file'[i].st = "none"
  BY <1>8 DEF Restart, NoTicket
<1>. QED
  BY <1>4, <1>5, <1>6, <1>7, <1>8 DEF Next, vars, files, Authorize, GrantBusy, ChargeSpend,
     ChargeMember, CountCall, RefundSpend, RefundMember, Send, SendEnds, PutAnswer,
     ResetPoolSpend, Midnight

(* The step that makes a ticket raced finds it minted and without a call.  *)
LEMMA RacedUncalled ==
  ASSUME Inv, [Next]_vars, NEW i \in Ids, i \notin raced, i \in raced'
  PROVE  ~(called'[i] > 0)
<1>1. \E t \in Threads, r \in Requests : Authorize(t, r)
  BY DEF Next, vars, ghost, PoolGrant, GrantBusy, ChargeSpend, ChargeMember, CountCall,
     RefundSpend, RefundMember, Refused, HandOut, Forward, Send, SendEnds, PutAnswer, Settle,
     Ages, ResetPoolSpend, Midnight, Restart
<1>2. called' = called /\ file[i].st = "minted"
  BY <1>1 DEF Authorize
<1>3. TicketOK(i)
  BY DEF Inv, JournalInv
<1>. QED
  BY <1>2, <1>3 DEF TicketOK

(* Once the provider was called under a ticket the journal never offers it *)
(* again, and a settled ticket only disappears, unless two authorizes had  *)
(* the ticket in hand at once.                                             *)
THEOREM CalledStaysClosed == Spec => CalledIsClosed
<1>1. Init => Inv
  BY InitInv
<1>2. Inv /\ [Next]_vars => Inv'
  BY NextKeeps
<1>3. Inv /\ Inv' /\ [Next]_vars =>
        [\A i \in Ids \ raced :
           /\ called'[i] > 0 => ~Live(file'[i].st)
           /\ Settled(file[i].st) /\ file'[i] # file[i]
                => file'[i].st = "none" \/ file'[i] = [file[i] EXCEPT !.over = TRUE]]_vars
  <2>. SUFFICES ASSUME Inv, Inv', [Next]_vars, NEW i \in Ids \ raced
                PROVE  /\ called'[i] > 0 => ~Live(file'[i].st)
                       /\ Settled(file[i].st) /\ file'[i] # file[i]
                            => file'[i].st = "none" \/ file'[i] = [file[i] EXCEPT !.over = TRUE]
    OBVIOUS
  <2>1. TicketOK(i)' /\ TicketOK(i)
    BY DEF Inv, JournalInv
  <2>2. called'[i] > 0 => ~Live(file'[i].st)
    <3>1. CASE i \notin raced'
      BY <2>1, <3>1 DEF TicketOK, Live
    <3>2. CASE i \in raced'
      BY <2>1, <3>2, RacedUncalled
    <3>. QED
      BY <3>1, <3>2
  <2>. QED
    BY <2>2, SettledStays
<1>. QED
  BY <1>1, <1>2, <1>3, PTL DEF Spec, CalledIsClosed

-----------------------------------------------------------------------------
(* Over by one, never under                                                *)

(* The steps of an authorize that has charged the row, or the member.      *)
RowPcs == {"member", "count", "refund_spend", "uncharge", "counted"}
MemberPcs == {"count", "refund_spend", "refund_member", "counted"}

(* A charge is where its call is: in the hands of a thread that authorizes *)
(* or that has not sent yet, in a counted ticket, or in a started call.    *)
Carriers(pcs) == {t \in Threads : thr[t].pc \in pcs \cup {"send", "unsent"}}
CountedTickets == {i \in Ids : file[i].st = "counted"}
Owed(pcs) == Calls + Cardinality(CountedTickets) + Cardinality(Carriers(pcs))

(* No charge is missing, at any point between the files.                   *)
PaidInv ==
  /\ IsFiniteSet(Started)
  /\ Owed(RowPcs) <= spend + reset
  /\ Owed(MemberPcs) <= member.total

(* One element more or less is one more or less.                           *)
LEMMA Counting ==
  ASSUME NEW S, IsFiniteSet(S), NEW T, NEW x
  PROVE  /\ Cardinality(S) \in Nat
         /\ T \subseteq S => IsFiniteSet(T) /\ Cardinality(T) <= Cardinality(S)
         /\ T \subseteq S \cup {x} => Cardinality(T) <= Cardinality(S) + 1
         /\ T \subseteq S \ {x} /\ x \in S => Cardinality(T) <= Cardinality(S) - 1
<1>1. /\ IsFiniteSet(S \cup {x}) /\ IsFiniteSet(S \ {x})
      /\ Cardinality(S) \in Nat
  BY FS_AddElement, FS_RemoveElement, FS_CardinalityType
<1>2. T \subseteq S => IsFiniteSet(T) /\ Cardinality(T) <= Cardinality(S)
  BY FS_Subset
<1>3. T \subseteq S \cup {x} => Cardinality(T) <= Cardinality(S) + 1
  <2>1. Cardinality(S \cup {x}) <= Cardinality(S) + 1
    BY <1>1, FS_AddElement
  <2>2. T \subseteq S \cup {x} => Cardinality(T) <= Cardinality(S \cup {x}) /\ Cardinality(T) \in Nat
    BY <1>1, FS_Subset, FS_CardinalityType
  <2>3. Cardinality(S \cup {x}) \in Nat
    BY <1>1, FS_CardinalityType
  <2>. QED
    BY <1>1, <2>1, <2>2, <2>3
<1>4. T \subseteq S \ {x} /\ x \in S => Cardinality(T) <= Cardinality(S) - 1
  <2>1. x \in S => Cardinality(S \ {x}) = Cardinality(S) - 1
    BY FS_RemoveElement
  <2>2. T \subseteq S \ {x} => Cardinality(T) <= Cardinality(S \ {x})
    BY <1>1, FS_Subset
  <2>. QED
    BY <2>1, <2>2
<1>. QED
  BY <1>1, <1>2, <1>3, <1>4

(* What is counted here is finite.                                         *)
LEMMA FiniteTickets ==
  ASSUME NEW S \in SUBSET Ids
  PROVE  IsFiniteSet(S) /\ Cardinality(S) \in Nat
<1>1. IsFiniteSet(Ids)
  BY FS_Interval, Naturals DEF Ids
<1>. QED
  BY <1>1, Counting

(* So are the threads that carry a charge.                                 *)
LEMMA FiniteCarriers ==
  ASSUME NEW S \in SUBSET Threads
  PROVE  IsFiniteSet(S) /\ Cardinality(S) \in Nat
BY ThreadsAssumption, Counting

(* A thread's step changes the carriers by that thread.                    *)
LEMMA ThreadCarries ==
  ASSUME NEW t \in Threads, Alone(t), NEW pcs
  PROVE  /\ Cardinality(Carriers(pcs)) \in Nat /\ Cardinality(Carriers(pcs)') \in Nat
         /\ Cardinality(Carriers(pcs)') <= Cardinality(Carriers(pcs)) + 1
         /\ (thr'[t].pc \in pcs \cup {"send", "unsent"} => thr[t].pc \in pcs \cup {"send", "unsent"})
              => Cardinality(Carriers(pcs)') <= Cardinality(Carriers(pcs))
         /\ thr[t].pc \in pcs \cup {"send", "unsent"} /\ thr'[t].pc \notin pcs \cup {"send", "unsent"}
              => Cardinality(Carriers(pcs)') <= Cardinality(Carriers(pcs)) - 1
<1>. DEFINE S == Carriers(pcs)
            T == {u \in Threads : thr'[u].pc \in pcs \cup {"send", "unsent"}}
<1>1. Carriers(pcs)' = T
  BY DEF Carriers
<1>2. IsFiniteSet(S) /\ IsFiniteSet(T)
  BY FiniteCarriers DEF Carriers
<1>3. T \subseteq S \cup {t}
  BY DEF Carriers, Alone
<1>4. (thr'[t].pc \in pcs \cup {"send", "unsent"} => thr[t].pc \in pcs \cup {"send", "unsent"}) => T \subseteq S
  BY DEF Carriers, Alone
<1>5. thr[t].pc \in pcs \cup {"send", "unsent"} /\ thr'[t].pc \notin pcs \cup {"send", "unsent"}
        => T \subseteq S \ {t} /\ t \in S
  BY DEF Carriers, Alone
<1>6. Cardinality(S) \in Nat /\ Cardinality(T) \in Nat
  BY <1>2, FS_CardinalityType
<1>. HIDE DEF S, T
<1>7. /\ Cardinality(T) <= Cardinality(S) + 1
      /\ T \subseteq S => Cardinality(T) <= Cardinality(S)
      /\ T \subseteq S \ {t} /\ t \in S => Cardinality(T) <= Cardinality(S) - 1
  BY <1>2, <1>3, Counting
<1>. QED
  BY <1>1, <1>4, <1>5, <1>6, <1>7 DEF S

(* A step that writes ticket i changes the counted tickets by i.           *)
LEMMA TicketCarries ==
  ASSUME NEW i \in Ids, \A j \in Ids : j # i => file'[j].st = file[j].st
  PROVE  /\ Cardinality(CountedTickets) \in Nat /\ Cardinality(CountedTickets') \in Nat
         /\ Cardinality(CountedTickets') <= Cardinality(CountedTickets) + 1
         /\ file'[i].st # "counted" => Cardinality(CountedTickets') <= Cardinality(CountedTickets)
         /\ file[i].st = "counted" /\ file'[i].st # "counted"
              => Cardinality(CountedTickets') <= Cardinality(CountedTickets) - 1
<1>. DEFINE S == CountedTickets
            T == {j \in Ids : file'[j].st = "counted"}
<1>1. CountedTickets' = T
  BY DEF CountedTickets
<1>2. IsFiniteSet(S) /\ IsFiniteSet(T)
  BY FiniteTickets DEF CountedTickets
<1>3. /\ T \subseteq S \cup {i}
      /\ file'[i].st # "counted" => T \subseteq S
      /\ file[i].st = "counted" /\ file'[i].st # "counted" => T \subseteq S \ {i} /\ i \in S
  BY DEF CountedTickets
<1>4. Cardinality(S) \in Nat /\ Cardinality(T) \in Nat
  BY <1>2, FS_CardinalityType
<1>. HIDE DEF S, T
<1>5. /\ Cardinality(T) <= Cardinality(S) + 1
      /\ T \subseteq S => Cardinality(T) <= Cardinality(S)
      /\ T \subseteq S \ {i} /\ i \in S => Cardinality(T) <= Cardinality(S) - 1
  BY <1>2, <1>3, Counting
<1>. QED
  BY <1>1, <1>3, <1>4, <1>5 DEF S

(* A step that leaves the files alone leaves the counted tickets.          *)
LEMMA TicketsRest ==
  ASSUME \A j \in Ids : file'[j].st = "counted" => file[j].st = "counted"
  PROVE  /\ Cardinality(CountedTickets) \in Nat /\ Cardinality(CountedTickets') \in Nat
         /\ Cardinality(CountedTickets') <= Cardinality(CountedTickets)
<1>. DEFINE T == {j \in Ids : file'[j].st = "counted"}
<1>1. CountedTickets' = T /\ T \subseteq CountedTickets /\ CountedTickets \subseteq Ids /\ T \subseteq Ids
  BY DEF CountedTickets
<1>2. IsFiniteSet(CountedTickets) /\ Cardinality(CountedTickets) \in Nat /\ Cardinality(T) \in Nat
  BY <1>1, FiniteTickets
<1>. HIDE DEF T
<1>3. Cardinality(T) <= Cardinality(CountedTickets)
  BY <1>1, <1>2, Counting
<1>. QED
  BY <1>1, <1>2, <1>3

(* The calls started: the same, or one more.                               *)
LEMMA CallsRest ==
  ASSUME IsFiniteSet(Started), called' = called
  PROVE  IsFiniteSet(Started') /\ Calls \in Nat /\ Calls' = Calls
BY FS_CardinalityType DEF Started, Calls

(* A started call is one more.                                             *)
LEMMA CallsGrow ==
  ASSUME TypeOK, IsFiniteSet(Started), NEW i \in Ids, called' = [called EXCEPT ![i] = @ + 1]
  PROVE  IsFiniteSet(Started') /\ Calls \in Nat /\ Calls' \in Nat /\ Calls' <= Calls + 1
<1>. DEFINE T == UNION {{j} \X (1..called'[j]) : j \in Ids}
            x == <<i, called[i] + 1>>
<1>1. Started' = T
  BY DEF Started
<1>2. called[i] \in Nat /\ called'[i] = called[i] + 1 /\ \A j \in Ids : j # i => called'[j] = called[j]
  BY DEF TypeOK
<1>3. T \subseteq Started \cup {x}
  <2>. SUFFICES ASSUME NEW y \in T PROVE y \in Started \/ y = x
    OBVIOUS
  <2>1. PICK j \in Ids : y \in {j} \X (1..called'[j])
    OBVIOUS
  <2>2. CASE j # i
    BY <1>2, <2>1, <2>2 DEF Started
  <2>3. CASE j = i
    <3>1. PICK n \in 1..(called[i] + 1) : y = <<i, n>>
      BY <1>2, <2>1, <2>3
    <3>2. n \in 1..called[i] \/ n = called[i] + 1
      BY <1>2
    <3>. QED
      BY <3>1, <3>2 DEF Started
  <2>. QED
    BY <2>2, <2>3
<1>. HIDE DEF T, x
<1>4. IsFiniteSet(Started \cup {x})
  BY FS_AddElement
<1>5. IsFiniteSet(T)
  BY <1>3, <1>4, FS_Subset
<1>6. Cardinality(T) \in Nat /\ Cardinality(Started) \in Nat
  BY <1>5, FS_CardinalityType
<1>7. Cardinality(T) <= Cardinality(Started) + 1
  BY <1>3, Counting
<1>. QED
  BY <1>1, <1>5, <1>6, <1>7 DEF Calls

(* The accounts are numbers.                                               *)
LEMMA AccountsAre ==
  ASSUME TypeOK
  PROVE  spend \in Nat /\ reset \in Nat /\ member.total \in Nat
BY Naturals DEF TypeOK

(* A thread's step that neither starts a call nor counts a ticket, and     *)
(* after which the thread carries only what it carried before.             *)
LEMMA PaidQuiet ==
  ASSUME Inv, PaidInv, NEW t \in Threads, Alone(t),
         called' = called, UNCHANGED <<spend, member, reset>>,
         \A j \in Ids : file'[j].st = "counted" => file[j].st = "counted",
         \A pcs \in {RowPcs, MemberPcs} :
           thr'[t].pc \in pcs \cup {"send", "unsent"} => thr[t].pc \in pcs \cup {"send", "unsent"}
  PROVE  PaidInv'
<1>1. IsFiniteSet(Started') /\ Calls \in Nat /\ Calls' = Calls
  BY CallsRest DEF PaidInv
<1>2. /\ Cardinality(CountedTickets) \in Nat /\ Cardinality(CountedTickets') \in Nat
      /\ Cardinality(CountedTickets') <= Cardinality(CountedTickets)
  BY TicketsRest
<1>3. /\ Cardinality(Carriers(RowPcs)) \in Nat /\ Cardinality(Carriers(RowPcs)') \in Nat
      /\ Cardinality(Carriers(RowPcs)') <= Cardinality(Carriers(RowPcs))
  BY ThreadCarries
<1>4. /\ Cardinality(Carriers(MemberPcs)) \in Nat /\ Cardinality(Carriers(MemberPcs)') \in Nat
      /\ Cardinality(Carriers(MemberPcs)') <= Cardinality(Carriers(MemberPcs))
  BY ThreadCarries
<1>5. spend \in Nat /\ reset \in Nat /\ member.total \in Nat
  BY AccountsAre DEF Inv
<1>. QED
  BY <1>1, <1>2, <1>3, <1>4, <1>5 DEF PaidInv, Owed

(* The steps of an authorize before, between and after its charges: what   *)
(* the thread carries it had, and no ticket becomes counted.               *)
LEMMA AuthorizePaid ==
  ASSUME Inv, PaidInv, NEW t \in Threads,
         \/ \E r \in Requests : Authorize(t, r)
         \/ PoolGrant(t) \/ GrantBusy(t) \/ CountCall(t) \/ Refused(t)
  PROVE  PaidInv'
<1>1. called' = called /\ UNCHANGED <<spend, member, reset>>
  BY DEF Authorize, PoolGrant, GrantBusy, CountCall, Refused, accounts, ghost
<1>2. \A j \in Ids : file'[j].st = "counted" => file[j].st = "counted"
  <2>1. ASSUME PoolGrant(t) PROVE \A j \in Ids : file'[j].st = "counted" => file[j].st = "counted"
    <3>1. thr[t].id \in Ids /\ thr[t].req \in Requests \cup {NoOne}
      BY <2>1, BusyTicket DEF PoolGrant, Inv, TypeOK
    <3>2. CASE Put(thr[t].id, thr[t].req, "minted")
      BY <3>1, <3>2, PutEffect DEF Inv, States
    <3>. QED
      BY <2>1, <3>2 DEF PoolGrant
  <2>2. ASSUME Refused(t) PROVE \A j \in Ids : file'[j].st = "counted" => file[j].st = "counted"
    BY <2>2 DEF Refused, Inv, TypeOK, NoTicket
  <2>. QED
    BY <2>1, <2>2 DEF Authorize, GrantBusy, CountCall, files
<1>3. /\ Alone(t)
      /\ \A pcs \in {RowPcs, MemberPcs} :
           thr'[t].pc \in pcs \cup {"send", "unsent"} => thr[t].pc \in pcs \cup {"send", "unsent"}
  <2>1. CASE \E r \in Requests : Authorize(t, r)
    <3>1. CASE thr' = thr
      BY <3>1 DEF Alone
    <3>2. CASE \E r, i : Granting(t, r, i)
      <4>1. Alone(t) /\ thr'[t].pc = "grant"
        BY <3>2 DEF Granting, Alone, Inv, TypeOK
      <4>. QED
        BY <4>1 DEF RowPcs, MemberPcs
    <3>. QED
      BY <2>1, <3>1, <3>2 DEF Authorize
  <2>2. CASE PoolGrant(t) \/ GrantBusy(t)
    <3>1. PICK pc \in {"spend", "refused"} : Becomes(t, pc)
      BY <2>2 DEF PoolGrant, GrantBusy
    <3>2. Alone(t) /\ thr'[t].pc = pc
      BY <3>1, BecomesEffect DEF Inv, ThreadStates, Authorizing
    <3>. QED
      BY <3>2 DEF RowPcs, MemberPcs
  <2>3. CASE CountCall(t)
    <3>1. thr[t].pc = "count" /\ \E pc \in {"counted", "refund_spend"} : Becomes(t, pc)
      BY <2>3 DEF CountCall
    <3>2. Alone(t) /\ thr'[t].pc \in {"counted", "refund_spend"}
      BY <3>1, BecomesEffect DEF Inv, ThreadStates, Authorizing
    <3>. QED
      BY <3>1, <3>2 DEF RowPcs, MemberPcs
  <2>4. CASE Refused(t)
    <3>1. Alone(t) /\ thr'[t].pc = "idle"
      BY <2>4, EndsEffect DEF Refused, Inv
    <3>. QED
      BY <3>1 DEF RowPcs, MemberPcs
  <2>. QED
    BY <2>1, <2>2, <2>3, <2>4
<1>. QED
  BY <1>1, <1>2, <1>3, PaidQuiet

(* charge_spend pays before the thread carries the charge.                 *)
LEMMA ChargeSpendPaid ==
  ASSUME Inv, PaidInv, NEW t \in Threads, ChargeSpend(t)
  PROVE  PaidInv'
<1>1. called' = called /\ file' = file /\ UNCHANGED <<member, reset>> /\ thr[t].pc = "spend"
  BY DEF ChargeSpend, files, ghost
<1>2. CASE spend' = spend + 1 /\ Becomes(t, "member")
  <2>1. Alone(t) /\ thr'[t].pc = "member"
    BY <1>2, BecomesEffect DEF Inv, ThreadStates, Authorizing
  <2>2. IsFiniteSet(Started') /\ Calls \in Nat /\ Calls' = Calls
    BY <1>1, CallsRest DEF PaidInv
  <2>3. /\ Cardinality(CountedTickets) \in Nat /\ Cardinality(CountedTickets') \in Nat
        /\ Cardinality(CountedTickets') <= Cardinality(CountedTickets)
    BY <1>1, TicketsRest
  <2>4. /\ Cardinality(Carriers(RowPcs)) \in Nat /\ Cardinality(Carriers(RowPcs)') \in Nat
        /\ Cardinality(Carriers(RowPcs)') <= Cardinality(Carriers(RowPcs)) + 1
    BY <2>1, ThreadCarries
  <2>5. /\ Cardinality(Carriers(MemberPcs)) \in Nat /\ Cardinality(Carriers(MemberPcs)') \in Nat
        /\ Cardinality(Carriers(MemberPcs)') <= Cardinality(Carriers(MemberPcs))
    <3>1. thr'[t].pc \notin MemberPcs \cup {"send", "unsent"}
      BY <2>1 DEF MemberPcs
    <3>. QED
      BY <2>1, <3>1, ThreadCarries
  <2>6. spend \in Nat /\ reset \in Nat /\ member.total \in Nat
    BY AccountsAre DEF Inv
  <2>. QED
    BY <1>1, <1>2, <2>2, <2>3, <2>4, <2>5, <2>6 DEF PaidInv, Owed
<1>3. CASE spend' = spend /\ Becomes(t, "refused")
  <2>1. Alone(t) /\ thr'[t].pc = "refused"
    BY <1>3, BecomesEffect DEF Inv, ThreadStates, Authorizing
  <2>2. \A pcs \in {RowPcs, MemberPcs} : thr'[t].pc \notin pcs \cup {"send", "unsent"}
    BY <2>1 DEF RowPcs, MemberPcs
  <2>. QED
    BY <1>1, <1>3, <2>1, <2>2, PaidQuiet
<1>. QED
  BY <1>2, <1>3 DEF ChargeSpend

(* charge_member pays before the thread carries the charge.                *)
LEMMA ChargeMemberPaid ==
  ASSUME Inv, PaidInv, NEW t \in Threads, ChargeMember(t)
  PROVE  PaidInv'
<1>1. called' = called /\ file' = file /\ UNCHANGED <<spend, reset>> /\ thr[t].pc = "member"
  BY DEF ChargeMember, files, ghost
<1>2. CASE member' = MemberCharged(thr[t].day, 1) /\ Becomes(t, "count")
  <2>1. Alone(t) /\ thr'[t].pc = "count"
    BY <1>2, BecomesEffect DEF Inv, ThreadStates, Authorizing
  <2>2. IsFiniteSet(Started') /\ Calls \in Nat /\ Calls' = Calls
    BY <1>1, CallsRest DEF PaidInv
  <2>3. /\ Cardinality(CountedTickets) \in Nat /\ Cardinality(CountedTickets') \in Nat
        /\ Cardinality(CountedTickets') <= Cardinality(CountedTickets)
    BY <1>1, TicketsRest
  <2>4. /\ Cardinality(Carriers(RowPcs)) \in Nat /\ Cardinality(Carriers(RowPcs)') \in Nat
        /\ Cardinality(Carriers(RowPcs)') <= Cardinality(Carriers(RowPcs))
    <3>1. thr[t].pc \in RowPcs \cup {"send", "unsent"}
      BY <1>1 DEF RowPcs
    <3>. QED
      BY <2>1, <3>1, ThreadCarries
  <2>5. /\ Cardinality(Carriers(MemberPcs)) \in Nat /\ Cardinality(Carriers(MemberPcs)') \in Nat
        /\ Cardinality(Carriers(MemberPcs)') <= Cardinality(Carriers(MemberPcs)) + 1
    BY <2>1, ThreadCarries
  <2>6. spend \in Nat /\ reset \in Nat /\ member.total \in Nat
    BY AccountsAre DEF Inv
  <2>7. member'.total = member.total + 1
    BY <1>2 DEF MemberCharged
  <2>. QED
    BY <1>1, <2>2, <2>3, <2>4, <2>5, <2>6, <2>7 DEF PaidInv, Owed
<1>3. CASE member' = member /\ Becomes(t, "uncharge")
  <2>1. Alone(t) /\ thr'[t].pc = "uncharge"
    BY <1>3, BecomesEffect DEF Inv, ThreadStates, Authorizing
  <2>2. \A pcs \in {RowPcs, MemberPcs} :
          thr'[t].pc \in pcs \cup {"send", "unsent"} => thr[t].pc \in pcs \cup {"send", "unsent"}
    BY <1>1, <2>1 DEF RowPcs, MemberPcs
  <2>. QED
    BY <1>1, <1>3, <2>1, <2>2, PaidQuiet
<1>. QED
  BY <1>2, <1>3 DEF ChargeMember

(* A refund takes back what the thread carried, and the thread lets go.    *)
LEMMA RefundSpendPaid ==
  ASSUME Inv, PaidInv, NEW t \in Threads, RefundSpend(t)
  PROVE  PaidInv'
<1>1. /\ called' = called /\ file' = file /\ UNCHANGED <<member, reset>>
      /\ thr[t].pc \in {"uncharge", "refund_spend"}
  BY DEF RefundSpend, files, ghost
<1>2. CASE /\ spend' = spend - 1
           /\ \/ thr[t].pc = "uncharge" /\ Becomes(t, "refused")
              \/ thr[t].pc = "refund_spend" /\ Becomes(t, "refund_member")
  <2>1. /\ Alone(t)
        /\ \/ thr[t].pc = "uncharge" /\ thr'[t].pc = "refused"
           \/ thr[t].pc = "refund_spend" /\ thr'[t].pc = "refund_member"
    BY <1>2, BecomesEffect DEF Inv, ThreadStates, Authorizing
  <2>2. IsFiniteSet(Started') /\ Calls \in Nat /\ Calls' = Calls
    BY <1>1, CallsRest DEF PaidInv
  <2>3. /\ Cardinality(CountedTickets) \in Nat /\ Cardinality(CountedTickets') \in Nat
        /\ Cardinality(CountedTickets') <= Cardinality(CountedTickets)
    BY <1>1, TicketsRest
  <2>4. /\ Cardinality(Carriers(RowPcs)) \in Nat /\ Cardinality(Carriers(RowPcs)') \in Nat
        /\ Cardinality(Carriers(RowPcs)') <= Cardinality(Carriers(RowPcs)) - 1
    <3>1. thr[t].pc \in RowPcs \cup {"send", "unsent"} /\ thr'[t].pc \notin RowPcs \cup {"send", "unsent"}
      BY <2>1 DEF RowPcs
    <3>. QED
      BY <2>1, <3>1, ThreadCarries
  <2>5. /\ Cardinality(Carriers(MemberPcs)) \in Nat /\ Cardinality(Carriers(MemberPcs)') \in Nat
        /\ Cardinality(Carriers(MemberPcs)') <= Cardinality(Carriers(MemberPcs))
    <3>1. thr'[t].pc \in MemberPcs \cup {"send", "unsent"} => thr[t].pc \in MemberPcs \cup {"send", "unsent"}
      BY <2>1 DEF MemberPcs
    <3>. QED
      BY <2>1, <3>1, ThreadCarries
  <2>6. spend \in Nat /\ reset \in Nat /\ member.total \in Nat
    BY AccountsAre DEF Inv
  <2>. QED
    BY <1>1, <1>2, <2>2, <2>3, <2>4, <2>5, <2>6 DEF PaidInv, Owed
<1>3. CASE spend' = spend /\ Becomes(t, "refused")
  <2>1. Alone(t) /\ thr'[t].pc = "refused"
    BY <1>3, BecomesEffect DEF Inv, ThreadStates, Authorizing
  <2>2. \A pcs \in {RowPcs, MemberPcs} : thr'[t].pc \notin pcs \cup {"send", "unsent"}
    BY <2>1 DEF RowPcs, MemberPcs
  <2>. QED
    BY <1>1, <1>3, <2>1, <2>2, PaidQuiet
<1>. QED
  BY <1>1, <1>2, <1>3 DEF RefundSpend

(* The member's refund likewise.                                           *)
LEMMA RefundMemberPaid ==
  ASSUME Inv, PaidInv, NEW t \in Threads, RefundMember(t)
  PROVE  PaidInv'
<1>1. /\ called' = called /\ file' = file /\ UNCHANGED <<spend, reset>>
      /\ thr[t].pc = "refund_member" /\ Becomes(t, "refused")
  BY DEF RefundMember, files, ghost
<1>2. Alone(t) /\ thr'[t].pc = "refused"
  BY <1>1, BecomesEffect DEF Inv, ThreadStates, Authorizing
<1>3. \A pcs \in {RowPcs, MemberPcs} : thr'[t].pc \notin pcs \cup {"send", "unsent"}
  BY <1>2 DEF RowPcs, MemberPcs
<1>4. CASE member' = MemberCharged(thr[t].day, -1)
  <2>2. IsFiniteSet(Started') /\ Calls \in Nat /\ Calls' = Calls
    BY <1>1, CallsRest DEF PaidInv
  <2>3. /\ Cardinality(CountedTickets) \in Nat /\ Cardinality(CountedTickets') \in Nat
        /\ Cardinality(CountedTickets') <= Cardinality(CountedTickets)
    BY <1>1, TicketsRest
  <2>4. /\ Cardinality(Carriers(RowPcs)) \in Nat /\ Cardinality(Carriers(RowPcs)') \in Nat
        /\ Cardinality(Carriers(RowPcs)') <= Cardinality(Carriers(RowPcs))
    BY <1>2, <1>3, ThreadCarries
  <2>5. /\ Cardinality(Carriers(MemberPcs)) \in Nat /\ Cardinality(Carriers(MemberPcs)') \in Nat
        /\ Cardinality(Carriers(MemberPcs)') <= Cardinality(Carriers(MemberPcs)) - 1
    <3>1. thr[t].pc \in MemberPcs \cup {"send", "unsent"}
      BY <1>1 DEF MemberPcs
    <3>. QED
      BY <1>2, <1>3, <3>1, ThreadCarries
  <2>6. spend \in Nat /\ reset \in Nat /\ member.total \in Nat
    BY AccountsAre DEF Inv
  <2>7. member'.total = member.total - 1
    BY <1>4, <2>6 DEF MemberCharged
  <2>. QED
    BY <1>1, <2>2, <2>3, <2>4, <2>5, <2>6, <2>7 DEF PaidInv, Owed
<1>5. CASE member' = member
  BY <1>1, <1>2, <1>3, <1>5, PaidQuiet
<1>. QED
  BY <1>4, <1>5 DEF RefundMember

(* A thread that lets go of its charge hands it on to one ticket at most.  *)
LEMMA HandedOn ==
  ASSUME Inv, PaidInv, NEW t \in Threads, Alone(t), called' = called,
         UNCHANGED <<spend, member, reset>>,
         NEW i \in Ids, \A j \in Ids : j # i => file'[j].st = file[j].st,
         thr[t].pc \in {"counted", "unsent"}, thr'[t].pc = "idle"
  PROVE  PaidInv'
<1>1. IsFiniteSet(Started') /\ Calls \in Nat /\ Calls' = Calls
  BY CallsRest DEF PaidInv
<1>2. /\ Cardinality(CountedTickets) \in Nat /\ Cardinality(CountedTickets') \in Nat
      /\ Cardinality(CountedTickets') <= Cardinality(CountedTickets) + 1
  BY TicketCarries
<1>3. \A pcs \in {RowPcs, MemberPcs} :
        thr[t].pc \in pcs \cup {"send", "unsent"} /\ thr'[t].pc \notin pcs \cup {"send", "unsent"}
  BY DEF RowPcs, MemberPcs
<1>4. /\ Cardinality(Carriers(RowPcs)) \in Nat /\ Cardinality(Carriers(RowPcs)') \in Nat
      /\ Cardinality(Carriers(RowPcs)') <= Cardinality(Carriers(RowPcs)) - 1
  BY <1>3, ThreadCarries
<1>5. /\ Cardinality(Carriers(MemberPcs)) \in Nat /\ Cardinality(Carriers(MemberPcs)') \in Nat
      /\ Cardinality(Carriers(MemberPcs)') <= Cardinality(Carriers(MemberPcs)) - 1
  BY <1>3, ThreadCarries
<1>6. spend \in Nat /\ reset \in Nat /\ member.total \in Nat
  BY AccountsAre DEF Inv
<1>. QED
  BY <1>1, <1>2, <1>4, <1>5, <1>6 DEF PaidInv, Owed

(* Handing out puts the charge into the ticket.                            *)
LEMMA HandOutPaid ==
  ASSUME Inv, PaidInv, NEW t \in Threads, HandOut(t)
  PROVE  PaidInv'
<1>1. called' = called /\ UNCHANGED <<spend, member, reset>> /\ thr[t].pc = "counted"
  BY DEF HandOut, accounts, ghost
<1>2. Alone(t) /\ thr'[t].pc = "idle"
  BY EndsEffect DEF HandOut, Inv
<1>3. thr[t].id \in Ids /\ thr[t].req \in Requests \cup {NoOne}
  BY <1>1, BusyTicket DEF Inv, TypeOK
<1>4. \A j \in Ids : j # thr[t].id => file'[j].st = file[j].st
  <2>1. CASE Put(thr[t].id, thr[t].req, "counted")
    BY <1>3, <2>1, PutEffect DEF Inv, States
  <2>2. CASE file' = file
    BY <2>2
  <2>. QED
    BY <2>1, <2>2 DEF HandOut
<1>. QED
  BY <1>1, <1>2, <1>3, <1>4, HandedOn

(* A forward takes the charge out of the ticket.                           *)
LEMMA ForwardPaid ==
  ASSUME Inv, PaidInv, NEW t \in Threads, NEW i \in Ids, Forward(t, i)
  PROVE  PaidInv'
<1>1. called' = called /\ UNCHANGED <<spend, member, reset>> /\ file[i].st = "counted"
  BY DEF Forward, accounts, ghost
<1>2. /\ \A j \in Ids : j # i => file'[j].st = file[j].st
      /\ file'[i].st # "counted"
  <2>1. PICK st \in {"sending", "refused"} : Mark(i, file[i].req, st)
    BY DEF Forward
  <2>2. file[i].req \in Requests \cup {NoOne}
    BY DEF Inv, TypeOK
  <2>. QED
    BY <2>1, <2>2, MarkEffect DEF Inv, States
<1>3. Alone(t)
  BY DEF Forward, Alone, Inv, TypeOK
<1>4. IsFiniteSet(Started') /\ Calls \in Nat /\ Calls' = Calls
  BY <1>1, CallsRest DEF PaidInv
<1>5. /\ Cardinality(CountedTickets) \in Nat /\ Cardinality(CountedTickets') \in Nat
      /\ Cardinality(CountedTickets') <= Cardinality(CountedTickets) - 1
  BY <1>1, <1>2, TicketCarries
<1>6. \A pcs \in {RowPcs, MemberPcs} :
        /\ Cardinality(Carriers(pcs)) \in Nat /\ Cardinality(Carriers(pcs)') \in Nat
        /\ Cardinality(Carriers(pcs)') <= Cardinality(Carriers(pcs)) + 1
  BY <1>3, ThreadCarries
<1>7. spend \in Nat /\ reset \in Nat /\ member.total \in Nat
  BY AccountsAre DEF Inv
<1>. QED
  BY <1>1, <1>4, <1>5, <1>6, <1>7 DEF PaidInv, Owed

(* The charge goes with the call that starts.                              *)
LEMMA SendPaid ==
  ASSUME Inv, PaidInv, NEW t \in Threads, Send(t)
  PROVE  PaidInv'
<1>1. /\ UNCHANGED <<file, spend, member, reset>> /\ thr[t].pc = "send"
      /\ thr[t].id \in Ids
  BY BusyTicket DEF Send, accounts, files
<1>2. CASE called' = [called EXCEPT ![thr[t].id] = @ + 1] /\ Becomes(t, "calling")
  <2>1. Alone(t) /\ thr'[t].pc = "calling"
    BY <1>2, BecomesEffect DEF Inv, ThreadStates
  <2>2. PICK i \in Ids : i = thr[t].id
    BY <1>1
  <2>3. IsFiniteSet(Started') /\ Calls \in Nat /\ Calls' \in Nat /\ Calls' <= Calls + 1
    BY <1>2, <2>2, CallsGrow DEF Inv, PaidInv
  <2>4. /\ Cardinality(CountedTickets) \in Nat /\ Cardinality(CountedTickets') \in Nat
        /\ Cardinality(CountedTickets') <= Cardinality(CountedTickets)
    BY <1>1, TicketsRest
  <2>5. \A pcs \in {RowPcs, MemberPcs} :
          thr[t].pc \in pcs \cup {"send", "unsent"} /\ thr'[t].pc \notin pcs \cup {"send", "unsent"}
    BY <1>1, <2>1 DEF RowPcs, MemberPcs
  <2>6. /\ Cardinality(Carriers(RowPcs)) \in Nat /\ Cardinality(Carriers(RowPcs)') \in Nat
        /\ Cardinality(Carriers(RowPcs)') <= Cardinality(Carriers(RowPcs)) - 1
    BY <2>1, <2>5, ThreadCarries
  <2>7. /\ Cardinality(Carriers(MemberPcs)) \in Nat /\ Cardinality(Carriers(MemberPcs)') \in Nat
        /\ Cardinality(Carriers(MemberPcs)') <= Cardinality(Carriers(MemberPcs)) - 1
    BY <2>1, <2>5, ThreadCarries
  <2>8. spend \in Nat /\ reset \in Nat /\ member.total \in Nat
    BY AccountsAre DEF Inv
  <2>. QED
    BY <1>1, <2>3, <2>4, <2>6, <2>7, <2>8 DEF PaidInv, Owed
<1>3. CASE called' = called /\ Becomes(t, "unsent")
  <2>1. Alone(t)
    BY <1>3, BecomesEffect DEF Inv, ThreadStates
  <2>. QED
    BY <1>1, <1>3, <2>1, PaidQuiet
<1>. QED
  BY <1>2, <1>3 DEF Send

(* A started call leaves nothing to carry; an unsent one goes back into    *)
(* its ticket.                                                             *)
LEMMA EndPaid ==
  ASSUME Inv, PaidInv, NEW t \in Threads, SendEnds(t) \/ PutAnswer(t) \/ Settle(t)
  PROVE  PaidInv'
<1>1. called' = called /\ UNCHANGED <<spend, member, reset>>
  BY DEF SendEnds, PutAnswer, Settle, accounts, ghost
<1>2. CASE SendEnds(t) \/ PutAnswer(t)
  <2>1. \/ \E pc \in {"answered", "uncertain", "settle"} : Becomes(t, pc)
        \/ Ends(t)
    BY <1>2 DEF SendEnds, PutAnswer, Land
  <2>2. Alone(t) /\ thr'[t].pc \in {"answered", "uncertain", "settle", "idle"}
    BY <2>1, BecomesEffect, EndsEffect DEF Inv, ThreadStates
  <2>3. \A pcs \in {RowPcs, MemberPcs} : thr'[t].pc \notin pcs \cup {"send", "unsent"}
    BY <2>2 DEF RowPcs, MemberPcs
  <2>4. file' = file
    BY <1>2 DEF SendEnds, PutAnswer, files
  <2>. QED
    BY <1>1, <2>2, <2>3, <2>4, PaidQuiet
<1>3. CASE Settle(t)
  <2>1. Alone(t) /\ thr'[t].pc = "idle" /\ thr[t].pc \in {"settle", "unsent", "uncertain"}
    BY <1>3, EndsEffect DEF Inv, Settle, Land
  <2>2. thr[t].id \in Ids /\ thr[t].req \in Requests \cup {NoOne}
    BY <2>1, BusyTicket DEF Inv, TypeOK
  <2>3. \/ file' = file
        \/ /\ \A j \in Ids : j # thr[t].id => file'[j].st = file[j].st
           /\ thr[t].pc # "unsent" => file'[thr[t].id].st # "counted"
    <3>1. \/ file' = file
          \/ \E st \in {"answered", "counted", "uncertain"} :
               Mark(thr[t].id, thr[t].req, st) /\ (thr[t].pc # "unsent" => st # "counted")
      BY <1>3, <2>1 DEF Settle
    <3>. QED
      BY <2>2, <3>1, MarkEffect DEF Inv, States
  <2>4. CASE thr[t].pc = "unsent"
    BY <1>1, <2>1, <2>2, <2>3, <2>4, HandedOn
  <2>5. CASE thr[t].pc # "unsent"
    <3>1. \A pcs \in {RowPcs, MemberPcs} : thr'[t].pc \notin pcs \cup {"send", "unsent"}
      BY <2>1 DEF RowPcs, MemberPcs
    <3>. QED
      BY <1>1, <2>1, <2>2, <2>3, <2>5, <3>1, PaidQuiet
  <2>. QED
    BY <2>4, <2>5
<1>. QED
  BY <1>2, <1>3

(* Time counts no ticket; the operator's reset is added to what was paid.  *)
LEMMA TimePaid ==
  ASSUME Inv, PaidInv,
         UNCHANGED vars \/ (\E i \in Ids : Ages(i)) \/ ResetPoolSpend \/ Midnight
  PROVE  PaidInv'
<1>1. /\ called' = called /\ thr' = thr /\ member' = member
      /\ spend' + reset' = spend + reset
  <2>1. spend \in Nat /\ reset \in Nat
    BY AccountsAre DEF Inv
  <2>. QED
    BY <2>1 DEF vars, Ages, ResetPoolSpend, Midnight, accounts, ghost
<1>2. \A j \in Ids : file'[j].st = file[j].st
  <2>1. ASSUME NEW i \in Ids, Ages(i) PROVE \A j \in Ids : file'[j].st = file[j].st
    BY <2>1 DEF Ages, Inv, TypeOK
  <2>. QED
    BY <2>1 DEF vars, files, ResetPoolSpend, Midnight
<1>3. IsFiniteSet(Started') /\ Calls \in Nat /\ Calls' = Calls
  BY <1>1, CallsRest DEF PaidInv
<1>4. CountedTickets' = CountedTickets /\ \A pcs \in {RowPcs, MemberPcs} : Carriers(pcs)' = Carriers(pcs)
  BY <1>1, <1>2 DEF CountedTickets, Carriers
<1>. QED
  BY <1>1, <1>3, <1>4 DEF PaidInv, Owed

(* A crash loses what the threads carried and counts nothing anew.         *)
LEMMA RestartPaid ==
  ASSUME Inv, PaidInv, Restart
  PROVE  PaidInv'
<1>1. /\ called' = called /\ UNCHANGED <<spend, member, reset>>
      /\ thr' = [t \in Threads |-> IdleThread]
      /\ file' = [i \in Ids |-> IF i \in Swept THEN NoTicket ELSE file[i]]
  BY DEF Restart, accounts, ghost
<1>2. \A j \in Ids : file'[j].st = "counted" => file[j].st = "counted"
  BY <1>1 DEF NoTicket
<1>3. IsFiniteSet(Started') /\ Calls \in Nat /\ Calls' = Calls
  BY <1>1, CallsRest DEF PaidInv
<1>4. /\ Cardinality(CountedTickets) \in Nat /\ Cardinality(CountedTickets') \in Nat
      /\ Cardinality(CountedTickets') <= Cardinality(CountedTickets)
  BY <1>2, TicketsRest
<1>5. \A pcs \in {RowPcs, MemberPcs} :
        /\ Cardinality(Carriers(pcs)') = 0 /\ Cardinality(Carriers(pcs)) \in Nat
  <2>. SUFFICES ASSUME NEW pcs \in {RowPcs, MemberPcs}
                PROVE  Cardinality(Carriers(pcs)') = 0 /\ Cardinality(Carriers(pcs)) \in Nat
    OBVIOUS
  <2>1. Carriers(pcs)' = {}
    BY <1>1 DEF Carriers, IdleThread, RowPcs, MemberPcs
  <2>2. Carriers(pcs) \subseteq Threads
    BY DEF Carriers
  <2>. QED
    BY <2>1, <2>2, FiniteCarriers, FS_EmptySet
<1>6. spend \in Nat /\ reset \in Nat /\ member.total \in Nat
  BY AccountsAre DEF Inv
<1>. QED
  BY <1>1, <1>3, <1>4, <1>5, <1>6 DEF PaidInv, Owed

(* At the start nothing is owed.                                           *)
LEMMA InitPaid ==
  ASSUME Init
  PROVE  PaidInv
<1>1. /\ file = [i \in Ids |-> NoTicket] /\ thr = [t \in Threads |-> IdleThread]
      /\ called = [i \in Ids |-> 0] /\ spend = 0 /\ reset = 0 /\ member.total = 0
  BY DEF Init
<1>2. CountedTickets = {} /\ Carriers(RowPcs) = {} /\ Carriers(MemberPcs) = {}
  BY <1>1 DEF CountedTickets, Carriers, NoTicket, IdleThread, RowPcs, MemberPcs
<1>3. Started = {}
  <2>1. \A i \in Ids : 1..called[i] = {}
    BY <1>1
  <2>. QED
    BY <2>1 DEF Started
<1>4. Cardinality({}) = 0 /\ IsFiniteSet({})
  BY FS_EmptySet
<1>. QED
  BY <1>1, <1>2, <1>3, <1>4 DEF PaidInv, Owed, Calls

(* Every step keeps everything paid.                                       *)
LEMMA PaidKeeps ==
  ASSUME Inv, PaidInv, [Next]_vars
  PROVE  PaidInv'
<1>1. ASSUME NEW t \in Threads,
             \/ \E r \in Requests : Authorize(t, r)
             \/ PoolGrant(t) \/ GrantBusy(t) \/ ChargeSpend(t) \/ ChargeMember(t)
             \/ CountCall(t) \/ RefundSpend(t) \/ RefundMember(t) \/ Refused(t) \/ HandOut(t)
             \/ \E i \in Ids : Forward(t, i)
             \/ Send(t) \/ SendEnds(t) \/ PutAnswer(t) \/ Settle(t)
      PROVE  PaidInv'
  BY <1>1, AuthorizePaid, ChargeSpendPaid, ChargeMemberPaid, RefundSpendPaid, RefundMemberPaid,
     HandOutPaid, ForwardPaid, SendPaid, EndPaid
<1>2. ASSUME UNCHANGED vars \/ (\E i \in Ids : Ages(i)) \/ ResetPoolSpend \/ Midnight
      PROVE  PaidInv'
  BY <1>2, TimePaid
<1>3. ASSUME Restart PROVE PaidInv'
  BY <1>3, RestartPaid
<1>. QED
  BY <1>1, <1>2, <1>3 DEF Next

(* "over by one, never under": whatever crashes, fails, is refunded,       *)
(* retried or authorized twice at once between the ticket, the three       *)
(* accounts and the transport, every call that was started and every       *)
(* ticket that can still be sent is charged to the row, and every call to  *)
(* the member.                                                             *)
THEOREM NeverUndercharged == Spec => []NeverUnder
<1>1. Init => Inv /\ PaidInv
  BY InitInv, InitPaid
<1>2. (Inv /\ PaidInv) /\ [Next]_vars => (Inv /\ PaidInv)'
  BY NextKeeps, PaidKeeps
<1>3. Inv /\ PaidInv => NeverUnder
  <2>. SUFFICES ASSUME Inv, PaidInv PROVE NeverUnder
    OBVIOUS
  <2>1. Usable \subseteq CountedTickets /\ CountedTickets \subseteq Ids
    BY DEF Usable, CountedTickets, Inv, TypeOK
  <2>2. IsFiniteSet(CountedTickets) /\ Cardinality(CountedTickets) \in Nat /\ Cardinality(Usable) \in Nat
    BY <2>1, FiniteTickets
  <2>3. Cardinality(Usable) <= Cardinality(CountedTickets)
    BY <2>1, <2>2, Counting
  <2>4. Calls \in Nat
    BY FS_CardinalityType DEF PaidInv, Calls
  <2>5. Cardinality(Carriers(RowPcs)) \in Nat /\ Cardinality(Carriers(MemberPcs)) \in Nat
    <3>1. Carriers(RowPcs) \subseteq Threads /\ Carriers(MemberPcs) \subseteq Threads
      BY DEF Carriers
    <3>. QED
      BY <3>1, FiniteCarriers
  <2>6. spend \in Nat /\ reset \in Nat /\ member.total \in Nat
    BY AccountsAre DEF Inv
  <2>. QED
    BY <2>2, <2>3, <2>4, <2>5, <2>6 DEF PaidInv, Owed, NeverUnder
<1>. QED
  BY <1>1, <1>2, <1>3, PTL DEF Spec
=============================================================================
