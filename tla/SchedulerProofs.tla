--------------------------- MODULE SchedulerProofs ---------------------------
(***************************************************************************)
(* Proofs about the inference broker, for every configuration and any      *)
(* number of crashes and failed writes: its types, at most one permission  *)
(* to send for a job (SendInv is inductive), and what it counts: slots,    *)
(* live jobs, leases, receipts (BookInv).                                  *)
(*                                                                         *)
(* Every operation of the core moves the job records forward (Follows).    *)
(* The candidate of a call therefore always agrees with the archive and    *)
(* records every permission, and each rename of save() hands that over to  *)
(* the files.                                                              *)
(*                                                                         *)
(* Most operations of the core only ease it (Eases): they end, send or     *)
(* requeue jobs, and give out no slot and no lease.  What does give them   *)
(* out, placement and admission, is treated on its own.                    *)
(***************************************************************************)
EXTENDS SchedulerSafety, FiniteSetTheorems, TLAPS

-----------------------------------------------------------------------------
(* Types                                                                   *)

(* The absent job is the only job in no state.                             *)
LEMMA JobForms ==
  /\ NoJob \in JobType /\ NoJob.st = "none"
  /\ \A j \in JobType : j.st # "none" =>
       /\ j \in JobRecords
       /\ Holds(j) => j.backend \in Backends
BY DEF NoJob, JobType, JobRecords

(* A new job (enqueue) is a job.                                           *)
LEMMA JobIsJob ==
  ASSUME NEW ctl \in Controllers, NEW body \in Bodies, NEW d \in Nat, NEW o \in Nat
  PROVE  Job(ctl, body, d, o) \in JobType
BY DEF Job, NoJob, JobType, JobRecords, NoLease, NoBackend, Holds

(* Ending a job (State::Terminal) leaves a job.                            *)
LEMMA TerminalType ==
  ASSUME NEW j \in JobType, j.st # "none", NEW out \in Outcomes
  PROVE  Terminal(j, out) \in JobType
BY JobForms DEF Terminal, JobType, JobRecords, NoBackend, Holds

(* Saturating subtraction gives a natural number, whatever is subtracted.  *)
LEMMA SatSubNat ==
  ASSUME NEW a \in Nat, NEW b
  PROVE  SatSub(a, b) \in Nat
BY DEF SatSub

(* Saturating addition stays natural.                                      *)
LEMMA SatAddNat ==
  ASSUME NEW a \in Nat, NEW b \in Nat
  PROVE  SatAdd(a, b) \in Nat
BY ConfigAssumption DEF SatAdd

(* Refunds keep the service counters natural (credit).                     *)
LEMMA CreditedType ==
  ASSUME NEW c \in CoreType, NEW S
  PROVE  Credited(c, S) \in [Principals -> Nat]
<1>1. c.service \in [Principals -> Nat]
  BY DEF CoreType
<1>. QED
  BY <1>1, SatSubNat DEF Credited

(* Ending unsent jobs keeps the core well typed.                           *)
LEMMA RetireType ==
  ASSUME NEW c \in CoreType, NEW S, NEW out \in Outcomes,
         \A i \in S \cap Ids : c.jobs[i].st # "none"
  PROVE  Retire(c, S, out) \in CoreType
<1>1. [i \in Ids |-> IF i \in S THEN Terminal(c.jobs[i], out) ELSE c.jobs[i]]
        \in [Ids -> JobType]
  BY TerminalType DEF CoreType
<1>. QED
  BY <1>1, CreditedType DEF Retire, CoreType

(* schedule()'s first pass.                                                *)
LEMMA ExpireType ==
  ASSUME NEW c \in CoreType, NEW t
  PROVE  Expire(c, t) \in CoreType
BY RetireType DEF Expire, Outcomes

(* The principal of a job is a principal.                                  *)
LEMMA PrincipalType ==
  ASSUME NEW j \in JobType, j.st # "none"
  PROVE  Principal(j) \in Principals
BY JobForms, ConfigAssumption DEF Principal, JobRecords

(* Only principals have live work.                                         *)
LEMMA MembersType ==
  ASSUME NEW c \in CoreType
  PROVE  Members(c) \subseteq Principals
BY PrincipalType DEF Members, LiveIds, Live, CoreType

(* advance_floor.                                                          *)
LEMMA AdvanceFloorType ==
  ASSUME NEW c \in CoreType
  PROVE  /\ AdvanceFloor(c) \in CoreType
         /\ AdvanceFloor(c).jobs = c.jobs
         /\ AdvanceFloor(c).next = c.next
         /\ AdvanceFloor(c).draining = c.draining
<1>. DEFINE least == {p \in Members(c) :
                        \A q \in Members(c) : Committed(c, p) <= Committed(c, q)}
            p0 == CHOOSE p \in least : TRUE
<1>1. \A p \in Principals : Committed(c, p) \in Nat
  BY SatSubNat DEF Committed, CoreType
<1>2. least \subseteq Principals
  BY MembersType
<1>3. least # {} => Committed(c, p0) \in Nat
  BY <1>1, <1>2
<1>. HIDE DEF least
<1>4. AdvanceFloor(c) = IF \E p \in least : Committed(c, p) > c.floor
                        THEN [c EXCEPT !.floor = Committed(c, p0)] ELSE c
  BY DEF AdvanceFloor, least
<1>. QED
  BY <1>3, <1>4 DEF CoreType

(* schedule() up to its next choice.                                       *)
LEMMA TurnType ==
  ASSUME NEW c \in CoreType
  PROVE  /\ Turn(c) \in CoreType
         /\ Turn(c).jobs = c.jobs
BY AdvanceFloorType DEF Turn

(* Placing a queued job.                                                   *)
LEMMA PlacedType ==
  ASSUME NEW c \in CoreType, NEW i \in Ids, NEW b \in Backends, NEW t \in Nat,
         c.jobs[i].st = "queued"
  PROVE  Placed(c, i, b, t) \in CoreType
<1>. DEFINE j == c.jobs[i]
            cost == Cost[<<j.body, b>>]
            k == [j EXCEPT !.st = "placed", !.lease = c.next, !.backend = b,
                           !.est = cost, !.expires = Lower(t + LeaseMs, j.deadline)]
<1>1. j \in JobRecords /\ c.next \in Nat
  BY JobForms DEF CoreType
<1>2. cost \in Nat
  BY <1>1, ConfigAssumption DEF JobRecords
<1>3. Lower(t + LeaseMs, j.deadline) \in Nat
  BY <1>1, ConfigAssumption DEF JobRecords, Lower
<1>4. k \in JobType
  BY <1>1, <1>2, <1>3 DEF JobType, JobRecords
<1>5. Principal(j) \in Principals
  BY PrincipalType DEF CoreType
<1>. HIDE DEF cost, k
<1>6. Placed(c, i, b, t) = [c EXCEPT !.next = @ + 1,
                                     !.service[Principal(j)] = @ + cost,
                                     !.jobs[i] = k]
  BY DEF Placed, cost, k
<1>. DEFINE js == [c.jobs EXCEPT ![i] = k]
            sv == [c.service EXCEPT ![Principal(j)] = @ + cost]
<1>7. js \in [Ids -> JobType] /\ sv \in [Principals -> Nat]
  BY <1>2, <1>4, <1>5 DEF CoreType
<1>8. Placed(c, i, b, t) = [c EXCEPT !.next = c.next + 1, !.service = sv, !.jobs = js]
  BY <1>6 DEF CoreType
<1>9. c.next + 1 \in Nat
  BY <1>1
<1>. HIDE DEF js, sv, j
<1>. QED
  BY <1>7, <1>8, <1>9 DEF CoreType

(* Admitting a new job.                                                    *)
LEMMA AdmittedType ==
  ASSUME NEW c \in CoreType, NEW ctl \in Controllers, NEW i \in Ids,
         NEW body \in Bodies, NEW d \in Nat
  PROVE  Admitted(c, ctl, i, body, d) \in CoreType
<1>. DEFINE e == AdvanceFloor([c EXCEPT !.next = @ + 1])
            p == PrincipalOf[ctl]
<1>1. [c EXCEPT !.next = @ + 1] \in CoreType
  BY DEF CoreType
<1>2. e \in CoreType
  BY <1>1, AdvanceFloorType
<1>3. Job(ctl, body, d, c.next) \in JobType
  BY JobIsJob DEF CoreType
<1>4. p \in Principals
  BY ConfigAssumption
<1>5. e.service[p] \in Nat /\ e.floor \in Nat
  BY <1>2, <1>4 DEF CoreType
<1>6. Higher(e.service[p], e.floor) \in Nat
  BY <1>5 DEF Higher
<1>. HIDE DEF e
<1>7. Admitted(c, ctl, i, body, d) =
        [e EXCEPT !.service[p] = IF p \in Members(e) THEN @ ELSE Higher(@, e.floor),
                  !.jobs[i] = Job(ctl, body, d, c.next)]
  BY DEF Admitted, e
<1>. DEFINE js == [e.jobs EXCEPT ![i] = Job(ctl, body, d, c.next)]
            sv == [e.service EXCEPT ![p] = IF p \in Members(e) THEN @ ELSE Higher(@, e.floor)]
<1>8. js \in [Ids -> JobType] /\ sv \in [Principals -> Nat]
  BY <1>2, <1>3, <1>4, <1>5, <1>6 DEF CoreType
<1>9. Admitted(c, ctl, i, body, d) = [e EXCEPT !.service = sv, !.jobs = js]
  BY <1>2, <1>7 DEF CoreType
<1>. HIDE DEF js, sv
<1>. QED
  BY <1>2, <1>8, <1>9 DEF CoreType

(* Dispatching a placed job.                                               *)
LEMMA DispatchedType ==
  ASSUME NEW c \in CoreType, NEW i \in Ids, NEW t \in Nat, c.jobs[i].st = "placed"
  PROVE  Dispatched(c, i, t) \in CoreType
<1>1. c.jobs[i] \in JobRecords /\ c.jobs[i].backend \in Backends
  BY JobForms DEF CoreType, Holds
<1>2. [c.jobs[i] EXCEPT !.st = "dispatched", !.started = t, !.expires = 0, !.stop = FALSE]
        \in JobType
  BY <1>1 DEF JobType, JobRecords
<1>. QED
  BY <1>2 DEF Dispatched, CoreType

(* Completing a job that holds a slot.                                     *)
LEMMA CompletedType ==
  ASSUME NEW c \in CoreType, NEW i \in Ids, NEW e \in Nat, NEW out \in Outcomes,
         Holds(c.jobs[i])
  PROVE  Completed(c, i, e, out) \in CoreType
<1>. DEFINE p == Principal(c.jobs[i])
            used == SatAdd(SatSub(c.service[p], c.jobs[i].est), e)
<1>1. c.jobs[i] \in JobType /\ c.jobs[i].st # "none"
  BY DEF CoreType, Holds
<1>2. p \in Principals
  BY <1>1, PrincipalType
<1>3. c.service[p] \in Nat
  BY <1>2 DEF CoreType
<1>4. used \in Nat
  BY <1>3, SatSubNat, SatAddNat
<1>5. Terminal(c.jobs[i], out) \in JobType
  BY <1>1, TerminalType
<1>. HIDE DEF used, p
<1>6. Completed(c, i, e, out) =
        [c EXCEPT !.service[p] = used, !.jobs[i] = Terminal(@, out),
                  !.floor = IF LiveIds(c) = {i} THEN Higher(@, used) ELSE @]
  BY DEF Completed, used, p
<1>7. Higher(c.floor, used) \in Nat
  BY <1>4 DEF Higher, CoreType
<1>. DEFINE js == [c.jobs EXCEPT ![i] = Terminal(@, out)]
            sv == [c.service EXCEPT ![p] = used]
            fl == IF LiveIds(c) = {i} THEN Higher(c.floor, used) ELSE c.floor
<1>8. js \in [Ids -> JobType] /\ sv \in [Principals -> Nat] /\ fl \in Nat
  BY <1>2, <1>4, <1>5, <1>7 DEF CoreType
<1>9. Completed(c, i, e, out) = [c EXCEPT !.service = sv, !.jobs = js, !.floor = fl]
  BY <1>6 DEF CoreType
<1>. HIDE DEF js, sv, fl
<1>. QED
  BY <1>8, <1>9 DEF CoreType

(* An unconfirmed end.                                                     *)
LEMMA UnconfirmedType ==
  ASSUME NEW c \in CoreType, NEW i \in Ids, Crossed(c.jobs[i])
  PROVE  Unconfirmed(c, i) \in CoreType
<1>1. c.jobs[i] \in JobRecords /\ c.jobs[i].backend \in Backends
  BY JobForms DEF CoreType, Holds, Crossed
<1>2. [c.jobs[i] EXCEPT !.st = "uncertain", !.stop = FALSE] \in JobType
  BY <1>1 DEF JobType, JobRecords
<1>. QED
  BY <1>2 DEF Unconfirmed, CoreType

(* Cancelling.                                                             *)
LEMMA CancelledType ==
  ASSUME NEW c \in CoreType, NEW i \in Ids
  PROVE  Cancelled(c, i) \in CoreType
<1>1. CASE c.jobs[i].st \in {"queued", "placed"}
  BY <1>1, RetireType DEF Cancelled, Outcomes
<1>2. CASE c.jobs[i].st = "dispatched"
  <2>1. c.jobs[i] \in JobRecords /\ c.jobs[i].backend \in Backends
    BY <1>2, JobForms DEF CoreType, Holds
  <2>2. [c.jobs[i] EXCEPT !.stop = TRUE] \in JobType
    BY <2>1 DEF JobType, JobRecords
  <2>. QED
    BY <1>2, <2>2 DEF Cancelled, CoreType
<1>. QED
  BY <1>1, <1>2 DEF Cancelled

(* Draining and resuming.                                                  *)
LEMMA DrainingType ==
  ASSUME NEW c \in CoreType, NEW enabled \in BOOLEAN
  PROVE  Draining(c, enabled) \in CoreType
<1>1. [c EXCEPT !.draining = enabled] \in CoreType
  BY DEF CoreType
<1>. QED
  BY <1>1, RetireType DEF Draining, Outcomes

(* An operator's resolve.                                                  *)
LEMMA ResolvedType ==
  ASSUME NEW c \in CoreType, NEW i \in Ids, NEW t \in Nat
  PROVE  Resolved(c, i, t) \in CoreType
<1>1. CASE Crossed(c.jobs[i])
  <2>1. c.jobs[i] \in JobRecords
    BY <1>1, JobForms DEF CoreType, Crossed
  <2>2. SatSub(t, c.jobs[i].started) * UsPerMs \in Nat
    BY <2>1, SatSubNat, ConfigAssumption DEF JobRecords
  <2>. QED
    BY <1>1, <2>2, CompletedType DEF Resolved, Outcomes, Holds, Crossed
<1>. QED
  BY <1>1 DEF Resolved

(* Recovery of one job and of the core.                                    *)
LEMMA RecoveredJobType ==
  ASSUME NEW j \in JobType
  PROVE  RecoveredJob(j) \in JobType
<1>1. CASE j.st = "placed"
  <2>1. j \in JobRecords
    BY <1>1, JobForms
  <2>2. Requeued(j) \in JobType
    BY <2>1 DEF Requeued, JobType, JobRecords, NoLease, NoBackend, Holds
  <2>. QED
    BY <1>1, <2>2, TerminalType DEF RecoveredJob, Outcomes
<1>2. CASE j.st = "dispatched"
  <2>1. j \in JobRecords /\ j.backend \in Backends
    BY <1>2, JobForms DEF Holds
  <2>. QED
    BY <1>2, <2>1 DEF RecoveredJob, JobType, JobRecords
<1>. QED
  BY <1>1, <1>2 DEF RecoveredJob

(* A process that reopens on a well-typed image recovers to a well-typed  *)
(* state (Service::open).                                                 *)
LEMMA RecoveredType ==
  ASSUME NEW c \in CoreType
  PROVE  Recovered(c) \in CoreType
<1>1. [i \in Ids |-> RecoveredJob(c.jobs[i])] \in [Ids -> JobType]
  BY RecoveredJobType DEF CoreType
<1>. QED
  BY <1>1, CreditedType DEF Recovered, CoreType

(* Looking up an archived job.                                             *)
LEMMA AddressedType ==
  ASSUME TypeOK, NEW i \in Ids
  PROVE  Addressed(i) \in CoreType
BY DEF Addressed, TypeOK, CoreType

(* The steps every controller call ends with.                              *)
LEMMA RescheduleType ==
  ASSUME TypeOK, NEW c \in CoreType, Reschedule(c),
         asked' \in Permissions \cup {NoAsk}, running' \subseteq Permissions
  PROVE  TypeOK'
<1>1. Turn(Expire(c, now)) \in CoreType
  BY ExpireType, TurnType
<1>. QED
  BY <1>1 DEF TypeOK, Reschedule, Phases

(* The steps every operator call starts with.                              *)
LEMMA OperateType ==
  ASSUME TypeOK, NEW c \in CoreType, NEW t \in Nat, Operate(c, t),
         running' \subseteq Permissions
  PROVE  TypeOK'
<1>1. Turn(Expire(c, t)) \in CoreType
  BY ExpireType, TurnType
<1>. QED
  BY <1>1 DEF TypeOK, Operate, Phases

(* A call that ends without effect (Service::execute).                     *)
LEMMA DiscardType ==
  ASSUME TypeOK, Discard, UNCHANGED running
  PROVE  TypeOK'
BY DEF TypeOK, Discard, Phases

(* A process that goes down (the main function's exit on an error).        *)
LEMMA GoDownType ==
  ASSUME TypeOK, GoDown, UNCHANGED <<disk, archive, sent, running>>, faults' \in Nat
  PROVE  TypeOK'
BY DEF TypeOK, GoDown, Phases

LEMMA SaveFailedType ==
  ASSUME TypeOK, SaveFailed, faults' \in Nat
  PROVE  TypeOK'
<1>1. CASE opening
  BY <1>1, GoDownType DEF SaveFailed
<1>2. CASE ~opening
  BY <1>2 DEF SaveFailed, TypeOK, Phases
<1>. QED
  BY <1>1, <1>2

(* The archive is a finite set.                                            *)
LEMMA ArchivedFinite ==
  /\ IsFiniteSet(Archived) /\ Cardinality(Archived) \in Nat
  /\ IsFiniteSet(DrainedReceipts) /\ Cardinality(DrainedReceipts) \in Nat
<1>1. Archived \subseteq Ids /\ DrainedReceipts \subseteq Ids
  BY DEF Archived, DrainedReceipts
<1>. QED
  BY <1>1, FS_Subset, FS_CardinalityType, ConfigAssumption

(* Every step keeps the types.                                             *)
LEMMA TypeStep ==
  ASSUME TypeOK, [Next]_vars
  PROVE  TypeOK'
<1>1. ASSUME NEW t \in Times, Begin(t) PROVE TypeOK'
  <2>1. t \in Nat /\ Turn(Expire(core, t)) \in CoreType
    BY ExpireType, TurnType, ConfigAssumption DEF TypeOK
  <2>. QED
    BY <1>1, <2>1 DEF Begin, TypeOK, Phases
<1>2. CASE PlaceNext
  <2>1. PICK ch \in Best(cand) : cand' = Turn(Placed(cand, ch[1], ch[2], now))
    BY <1>2 DEF PlaceNext
  <2>2. /\ ch[1] \in Ids /\ ch[2] \in Backends
        /\ cand.jobs[ch[1]].st = "queued"
    BY <2>1 DEF Best, Offers
  <2>3. cand' \in CoreType
    BY <2>1, <2>2, PlacedType, TurnType DEF TypeOK
  <2>. QED
    BY <1>2, <2>3 DEF PlaceNext, TypeOK
<1>3. CASE PlaceOverflows
  BY <1>3, DiscardType DEF PlaceOverflows
<1>4. CASE Refuse
  BY <1>4, DiscardType DEF Refuse
<1>5. ASSUME NEW r \in Requests, Enqueue(r[1], r[2], r[3], r[4]) PROVE TypeOK'
  <2>1. r[1] \in Controllers /\ r[2] \in Ids /\ r[3] \in Bodies /\ r[4] \in Nat
    BY ConfigAssumption
  <2>2. Admitted(Addressed(r[2]), r[1], r[2], r[3], r[4]) \in CoreType
    BY <2>1, AddressedType, AdmittedType
  <2>. QED
    BY <1>5, <2>2, RescheduleType DEF Enqueue, TypeOK
<1>6. ASSUME NEW r \in Requests, EnqueueAgain(r[1], r[2], r[3]) PROVE TypeOK'
  <2>1. r[2] \in Ids
    BY ConfigAssumption
  <2>. QED
    BY <1>6, <2>1, AddressedType, RescheduleType DEF EnqueueAgain, TypeOK
<1>7. ASSUME NEW ctl \in Controllers, NEW i \in Ids, Inspect(ctl, i) PROVE TypeOK'
  BY <1>7, AddressedType, RescheduleType DEF Inspect, TypeOK
<1>8. ASSUME NEW ctl \in Controllers, NEW i \in Ids, NEW lease \in 1..(cand.next - 1),
             Dispatch(ctl, i, lease)
      PROVE  TypeOK'
  <2>1. Addressed(i) \in CoreType /\ Addressed(i).jobs[i].st = "placed"
    BY <1>8, AddressedType DEF Dispatch
  <2>2. Dispatched(Addressed(i), i, now) \in CoreType
    BY <2>1, DispatchedType DEF TypeOK
  <2>3. Addressed(i).jobs[i].backend \in Backends
    BY <2>1, JobForms DEF CoreType, Holds
  <2>4. lease \in Nat
    BY DEF TypeOK, CoreType
  <2>5. asked' \in Permissions
    BY <1>8, <2>3, <2>4 DEF Dispatch, Permissions
  <2>. QED
    BY <1>8, <2>2, <2>5, RescheduleType DEF Dispatch, TypeOK
<1>9. ASSUME NEW ctl \in Controllers, NEW i \in Ids, NEW lease \in 1..(cand.next - 1),
             NEW out \in Reports, Finish(ctl, i, lease, out)
      PROVE  TypeOK'
  <2>. DEFINE j == Addressed(i).jobs[i]
  <2>1. Addressed(i) \in CoreType /\ running' \subseteq Permissions /\ asked' = asked
    BY <1>9, AddressedType DEF Finish, TypeOK
  <2>2. CASE LateReport(j, lease, out) /\ Reschedule(Addressed(i))
    BY <2>1, <2>2, RescheduleType DEF TypeOK
  <2>3. CASE EndReport(j, lease, out)
             /\ Reschedule(Completed(Addressed(i), i, Elapsed(j, out, now), out))
    <3>1. Holds(j) /\ out \in Outcomes
      BY <2>3, ConfigAssumption DEF EndReport, Holds, Crossed, Outcomes
    <3>2. j \in JobRecords
      BY <2>1, <3>1, JobForms DEF CoreType, Holds
    <3>3. Elapsed(j, out, now) \in Nat
      BY <3>2, SatSubNat, ConfigAssumption DEF Elapsed, JobRecords, TypeOK
    <3>4. Completed(Addressed(i), i, Elapsed(j, out, now), out) \in CoreType
      BY <2>1, <3>1, <3>3, CompletedType
    <3>. QED
      BY <2>1, <2>3, <3>4, RescheduleType DEF TypeOK
  <2>4. CASE UncertainReport(j, lease, out) /\ Reschedule(Unconfirmed(Addressed(i), i))
    <3>1. Unconfirmed(Addressed(i), i) \in CoreType
      BY <2>1, <2>4, UnconfirmedType DEF UncertainReport
    <3>. QED
      BY <2>1, <2>4, <3>1, RescheduleType DEF TypeOK
  <2>. QED
    BY <1>9, <2>2, <2>3, <2>4 DEF Finish
<1>10. ASSUME NEW ctl \in Controllers, NEW i \in Ids, Cancel(ctl, i) PROVE TypeOK'
  BY <1>10, AddressedType, CancelledType, RescheduleType DEF Cancel, TypeOK
<1>11. ASSUME NEW t \in Times, Status(t) PROVE TypeOK'
  BY <1>11, OperateType, ConfigAssumption DEF Status, TypeOK
<1>12. ASSUME NEW t \in Times, NEW enabled \in Drains, Drain(enabled, t) PROVE TypeOK'
  BY <1>12, DrainingType, OperateType, ConfigAssumption DEF Drain, TypeOK
<1>13. ASSUME NEW t \in Times, NEW i \in Resolves, Resolve(i, t) PROVE TypeOK'
  <2>1. t \in Nat /\ i \in Ids /\ core \in CoreType
    BY ConfigAssumption DEF TypeOK
  <2>2. Resolved(core, i, t) \in CoreType
    BY <2>1, ResolvedType
  <2>3. running' \subseteq Permissions
    BY <1>13 DEF Resolve, TypeOK
  <2>. QED
    BY <1>13, <2>1, <2>2, <2>3, OperateType DEF Resolve
<1>14. CASE Unchanged
  BY <1>14, DiscardType DEF Unchanged
<1>15. CASE SaveTerminal
  BY <1>15 DEF SaveTerminal, TypeOK, Phases
<1>16. ASSUME NEW i \in Ids, ArchiveReceipt(i) PROVE TypeOK'
  <2>1. cand.jobs[i] \in JobType
    BY DEF TypeOK, CoreType
  <2>2. cand' \in CoreType
    BY <1>16, JobForms DEF ArchiveReceipt, TypeOK, CoreType
  <2>3. archive' \in [Ids -> JobType] /\ receipts' \in Nat /\ drained' \in Nat
    BY <1>16, <2>1 DEF ArchiveReceipt, TypeOK
  <2>. QED
    BY <1>16, <2>2, <2>3 DEF ArchiveReceipt, TypeOK
<1>17. CASE ArchiveRefuses
  BY <1>17, SaveFailedType DEF ArchiveRefuses, TypeOK
<1>18. CASE Commit
  <2>1. Stamped(cand) \in CoreType
    BY DEF Stamped, TypeOK, CoreType
  <2>2. sent' \subseteq Permissions /\ running' \subseteq Permissions
    BY <1>18 DEF Commit, TypeOK
  <2>. QED
    BY <1>18, <2>1, <2>2 DEF Commit, TypeOK, Phases
<1>19. CASE WriteFails
  BY <1>19, SaveFailedType DEF WriteFails, TypeOK
<1>20. CASE Crash
  BY <1>20, GoDownType DEF Crash, TypeOK
<1>21. CASE Stop
  BY <1>21, GoDownType DEF Stop, TypeOK
<1>22. CASE Open
  <2>1. OpenDrained \in Nat
    BY ArchivedFinite DEF OpenDrained, TypeOK, CoreType
  <2>. QED
    BY <1>22, <2>1, ArchivedFinite, RecoveredType DEF Open, TypeOK, Phases
<1>23. CASE UNCHANGED vars
  BY <1>23 DEF vars, TypeOK
<1>. QED
  BY <1>1, <1>2, <1>3, <1>4, <1>5, <1>6, <1>7, <1>8, <1>9, <1>10, <1>11, <1>12,
     <1>13, <1>14, <1>15, <1>16, <1>17, <1>18, <1>19, <1>20, <1>21, <1>22, <1>23
     DEF Next, Call, Operator, Save, Fault

(* The broker's state and files always have their types.                   *)
THEOREM TypeCorrect == Spec => []TypeOK
<1>1. Init => TypeOK
  <2>1. NewCore \in CoreType
    BY JobForms DEF NewCore, CoreType
  <2>2. [i \in Ids |-> NoJob] \in [Ids -> JobType]
    BY JobForms
  <2>3. ASSUME Init
        PROVE  /\ disk = NewCore /\ core = NewCore /\ cand = NewCore
               /\ archive = [i \in Ids |-> NoJob]
               /\ pc = "down" /\ opening = FALSE /\ now = 0
               /\ receipts = 0 /\ drained = 0 /\ faults = 0
               /\ asked = NoAsk /\ sent = {} /\ running = {}
    BY <2>3 DEF Init
  <2>. QED
    BY <2>1, <2>2, <2>3 DEF TypeOK, Phases
<1>. QED
  BY <1>1, TypeStep, PTL DEF Spec


-----------------------------------------------------------------------------
(* How the operations of the core move a job                               *)

(* Core d holds a record for exactly the jobs of c, each moved forward.    *)
Follows(c, d) ==
  \A i \in Ids : /\ Advances(c.jobs[i], d.jobs[i])
                 /\ c.jobs[i].st = "none" => d.jobs[i].st = "none"

(* Moving forward composes.                                                *)
LEMMA AdvancesTrans ==
  ASSUME NEW j, NEW k, NEW l, Advances(j, k), Advances(k, l)
  PROVE  Advances(j, l)
BY DEF Advances, KeepsSlot, Crossed

(* What keeps all jobs follows.                                            *)
LEMMA FollowsSame ==
  ASSUME NEW c, NEW d, d.jobs = c.jobs
  PROVE  Follows(c, d)
BY DEF Follows, Advances, KeepsSlot, Crossed

(* Following composes.                                                     *)
LEMMA FollowsTrans ==
  ASSUME NEW c, NEW d, NEW e, Follows(c, d), Follows(d, e)
  PROVE  Follows(c, e)
BY AdvancesTrans DEF Follows

(* Changing one live record into a further one follows.                    *)
LEMMA FollowsOne ==
  ASSUME NEW c \in CoreType, NEW d, NEW i \in Ids, NEW k,
         d.jobs = [c.jobs EXCEPT ![i] = k],
         Advances(c.jobs[i], k), c.jobs[i].st # "none"
  PROVE  Follows(c, d)
<1>1. SUFFICES ASSUME NEW n \in Ids
               PROVE  /\ Advances(c.jobs[n], d.jobs[n])
                      /\ c.jobs[n].st = "none" => d.jobs[n].st = "none"
  BY DEF Follows
<1>2. CASE n = i
  BY <1>2 DEF CoreType
<1>3. CASE n # i
  BY <1>3 DEF CoreType, Advances, KeepsSlot, Crossed
<1>. QED
  BY <1>2, <1>3

(* Ending jobs that were never sent follows (credit, State::Terminal).     *)
LEMMA FollowsRetire ==
  ASSUME NEW c \in CoreType, NEW S, NEW out,
         \A i \in S \cap Ids : c.jobs[i].st \in {"queued", "placed"}
  PROVE  Follows(c, Retire(c, S, out))
<1>1. Retire(c, S, out).jobs =
        [i \in Ids |-> IF i \in S THEN Terminal(c.jobs[i], out) ELSE c.jobs[i]]
  BY DEF Retire, CoreType
<1>2. SUFFICES ASSUME NEW n \in Ids
               PROVE  /\ Advances(c.jobs[n], Retire(c, S, out).jobs[n])
                      /\ c.jobs[n].st = "none" => Retire(c, S, out).jobs[n].st = "none"
  BY DEF Follows
<1>3. CASE n \in S
  <2>1. c.jobs[n] \in JobRecords
    BY <1>3, JobForms DEF CoreType
  <2>2. Terminal(c.jobs[n], out).st = "terminal"
    BY <2>1 DEF Terminal, JobRecords
  <2>. QED
    BY <1>1, <1>3, <2>2 DEF Advances, Crossed
<1>4. CASE n \notin S
  BY <1>1, <1>4 DEF Advances, KeepsSlot, Crossed
<1>. QED
  BY <1>3, <1>4

(* The expiry pass and the floor of schedule() follow.                     *)
LEMMA FollowsTurn ==
  ASSUME NEW c \in CoreType, NEW t
  PROVE  /\ Follows(c, Expire(c, t))
         /\ Follows(c, Turn(Expire(c, t)))
<1>1. Follows(c, Expire(c, t))
  BY FollowsRetire DEF Expire
<1>2. Follows(Expire(c, t), Turn(Expire(c, t)))
  BY ExpireType, TurnType, FollowsSame
<1>. QED
  BY <1>1, <1>2, FollowsTrans

(* Placing a queued job follows.                                           *)
LEMMA FollowsPlaced ==
  ASSUME NEW c \in CoreType, NEW i \in Ids, NEW b \in Backends, NEW t \in Nat,
         c.jobs[i].st = "queued"
  PROVE  Follows(c, Placed(c, i, b, t))
<1>. DEFINE k == [c.jobs[i] EXCEPT !.st = "placed", !.lease = c.next, !.backend = b,
                            !.est = Cost[<<c.jobs[i].body, b>>],
                            !.expires = Lower(t + LeaseMs, c.jobs[i].deadline)]
<1>1. Placed(c, i, b, t).jobs = [c.jobs EXCEPT ![i] = k]
  BY DEF Placed, CoreType
<1>2. c.jobs[i] \in JobRecords
  BY JobForms DEF CoreType
<1>3. k.st = "placed"
  BY <1>2 DEF JobRecords
<1>. HIDE DEF k
<1>4. Advances(c.jobs[i], k)
  BY <1>3 DEF Advances, Crossed
<1>. QED
  BY <1>1, <1>4, FollowsOne

(* Sending a placed job follows, under the lease of the placement.         *)
LEMMA FollowsDispatched ==
  ASSUME NEW c \in CoreType, NEW i \in Ids, NEW t \in Nat, c.jobs[i].st = "placed"
  PROVE  /\ Follows(c, Dispatched(c, i, t))
         /\ Dispatched(c, i, t).jobs[i].st = "dispatched"
         /\ Dispatched(c, i, t).jobs[i].lease = c.jobs[i].lease
<1>. DEFINE k == [c.jobs[i] EXCEPT !.st = "dispatched", !.started = t,
                                   !.expires = 0, !.stop = FALSE]
<1>1. Dispatched(c, i, t).jobs = [c.jobs EXCEPT ![i] = k]
  BY DEF Dispatched, CoreType
<1>2. c.jobs[i] \in JobRecords
  BY JobForms DEF CoreType
<1>3. k.st = "dispatched" /\ k.lease = c.jobs[i].lease
  BY <1>2 DEF JobRecords
<1>. HIDE DEF k
<1>4. Advances(c.jobs[i], k)
  BY <1>3 DEF Advances, Crossed
<1>. QED
  BY <1>1, <1>3, <1>4, FollowsOne DEF CoreType

(* The outcomes that may end sent work.                                    *)
SentEnds == {"ended", "not-sent", "operator-resolved"}

(* Completing a job that holds a slot follows.                             *)
LEMMA FollowsCompleted ==
  ASSUME NEW c \in CoreType, NEW i \in Ids, NEW e, NEW out \in SentEnds,
         Holds(c.jobs[i])
  PROVE  Follows(c, Completed(c, i, e, out))
<1>1. Completed(c, i, e, out).jobs = [c.jobs EXCEPT ![i] = Terminal(c.jobs[i], out)]
  BY DEF Completed, CoreType
<1>2. c.jobs[i] \in JobRecords
  BY JobForms DEF CoreType, Holds
<1>3. /\ Terminal(c.jobs[i], out).st = "terminal"
      /\ Terminal(c.jobs[i], out).outcome = out
      /\ Terminal(c.jobs[i], out).lease = c.jobs[i].lease
  BY <1>2 DEF Terminal, JobRecords
<1>4. Advances(c.jobs[i], Terminal(c.jobs[i], out))
  BY <1>3 DEF Advances, KeepsSlot, Crossed, Holds, SentEnds
<1>. QED
  BY <1>1, <1>4, FollowsOne DEF Holds

(* An unconfirmed end follows.                                             *)
LEMMA FollowsUnconfirmed ==
  ASSUME NEW c \in CoreType, NEW i \in Ids, Crossed(c.jobs[i])
  PROVE  Follows(c, Unconfirmed(c, i))
<1>. DEFINE k == [c.jobs[i] EXCEPT !.st = "uncertain", !.stop = FALSE]
<1>1. Unconfirmed(c, i).jobs = [c.jobs EXCEPT ![i] = k]
  BY DEF Unconfirmed, CoreType
<1>2. c.jobs[i] \in JobRecords
  BY JobForms DEF CoreType, Crossed
<1>3. k.st = "uncertain" /\ k.lease = c.jobs[i].lease /\ k.backend = c.jobs[i].backend
  BY <1>2 DEF JobRecords
<1>. HIDE DEF k
<1>4. Advances(c.jobs[i], k)
  BY <1>3 DEF Advances, KeepsSlot, Crossed
<1>. QED
  BY <1>1, <1>4, FollowsOne DEF Crossed

(* Cancelling follows: sent work only gets its stop flag.                  *)
LEMMA FollowsCancelled ==
  ASSUME NEW c \in CoreType, NEW i \in Ids
  PROVE  Follows(c, Cancelled(c, i))
<1>1. CASE c.jobs[i].st \in {"queued", "placed"}
  BY <1>1, FollowsRetire DEF Cancelled
<1>2. CASE c.jobs[i].st = "dispatched"
  <2>. DEFINE k == [c.jobs[i] EXCEPT !.stop = TRUE]
  <2>1. Cancelled(c, i).jobs = [c.jobs EXCEPT ![i] = k]
    BY <1>2 DEF Cancelled, CoreType
  <2>2. c.jobs[i] \in JobRecords
    BY <1>2, JobForms DEF CoreType
  <2>3. k.st = c.jobs[i].st /\ k.lease = c.jobs[i].lease /\ k.backend = c.jobs[i].backend
    BY <2>2 DEF JobRecords
  <2>. HIDE DEF k
  <2>4. Advances(c.jobs[i], k)
    BY <1>2, <2>3 DEF Advances, KeepsSlot, Crossed
  <2>. QED
    BY <1>2, <2>1, <2>4, FollowsOne
<1>3. CASE c.jobs[i].st \notin {"queued", "placed", "dispatched"}
  BY <1>3, FollowsSame DEF Cancelled
<1>. QED
  BY <1>1, <1>2, <1>3

(* Draining follows: it ends only what was never sent.                     *)
LEMMA FollowsDraining ==
  ASSUME NEW c \in CoreType, NEW enabled \in BOOLEAN
  PROVE  Follows(c, Draining(c, enabled))
<1>. DEFINE d == [c EXCEPT !.draining = enabled]
<1>1. d \in CoreType /\ Follows(c, d)
  <2>1. d \in CoreType /\ d.jobs = c.jobs
    BY DEF CoreType
  <2>. QED
    BY <2>1, FollowsSame
<1>. HIDE DEF d
<1>2. Draining(c, enabled) =
        IF enabled
        THEN Retire(d, {i \in Ids : d.jobs[i].st \in {"queued", "placed"}}, "drained")
        ELSE d
  BY DEF Draining, d
<1>3. Follows(d, Draining(c, enabled))
  BY <1>1, <1>2, FollowsRetire, FollowsSame
<1>. QED
  BY <1>1, <1>3, FollowsTrans

(* An operator's resolve follows.                                          *)
LEMMA FollowsResolved ==
  ASSUME NEW c \in CoreType, NEW i \in Ids, NEW t \in Nat
  PROVE  Follows(c, Resolved(c, i, t))
<1>1. CASE Crossed(c.jobs[i])
  BY <1>1, FollowsCompleted DEF Resolved, Holds, Crossed, SentEnds
<1>2. CASE ~Crossed(c.jobs[i])
  BY <1>2, FollowsSame DEF Resolved
<1>. QED
  BY <1>1, <1>2

(* Recovery follows: sent work becomes uncertain under its lease.          *)
LEMMA FollowsRecovered ==
  ASSUME NEW c \in CoreType
  PROVE  Follows(c, Recovered(c))
<1>1. Recovered(c).jobs = [i \in Ids |-> RecoveredJob(c.jobs[i])]
  BY DEF Recovered, CoreType
<1>2. SUFFICES ASSUME NEW n \in Ids
               PROVE  /\ Advances(c.jobs[n], RecoveredJob(c.jobs[n]))
                      /\ c.jobs[n].st = "none" => RecoveredJob(c.jobs[n]).st = "none"
  BY <1>1 DEF Follows
<1>3. CASE c.jobs[n].st = "placed"
  <2>1. c.jobs[n] \in JobRecords
    BY <1>3, JobForms DEF CoreType
  <2>2. RecoveredJob(c.jobs[n]).st \in {"terminal", "queued"}
    BY <1>3, <2>1 DEF RecoveredJob, Terminal, Requeued, JobRecords
  <2>. QED
    BY <1>3, <2>2 DEF Advances, Crossed
<1>4. CASE c.jobs[n].st = "dispatched"
  <2>1. c.jobs[n] \in JobRecords
    BY <1>4, JobForms DEF CoreType
  <2>2. /\ RecoveredJob(c.jobs[n]).st = "uncertain"
        /\ RecoveredJob(c.jobs[n]).lease = c.jobs[n].lease
        /\ RecoveredJob(c.jobs[n]).backend = c.jobs[n].backend
    BY <1>4, <2>1 DEF RecoveredJob, JobRecords
  <2>. QED
    BY <1>4, <2>2 DEF Advances, KeepsSlot, Crossed
<1>5. CASE c.jobs[n].st \notin {"placed", "dispatched"}
  <2>1. RecoveredJob(c.jobs[n]) = c.jobs[n]
    BY <1>5 DEF RecoveredJob
  <2>. QED
    BY <2>1 DEF Advances, KeepsSlot, Crossed
<1>. QED
  BY <1>3, <1>4, <1>5

-----------------------------------------------------------------------------
(* What the candidate keeps                                                *)

(* The part of SendInv that speaks of one core: it agrees with the         *)
(* archive, records every permission and is ahead of the files.            *)
Sound(c) ==
  /\ Agrees(c) /\ Honours(c)
  /\ \A i \in Ids : Advances(Durable(i), Record(c, i))

(* A core that follows a sound core is sound, and its records advance.     *)
LEMMA SoundFollows ==
  ASSUME TypeOK, ArchiveInv, NEW c \in CoreType, NEW d \in CoreType,
         Sound(c), Follows(c, d)
  PROVE  /\ Sound(d)
         /\ \A i \in Ids : Advances(Record(c, i), Record(d, i))
<1>1. \A i \in Ids : Advances(Record(c, i), Record(d, i))
  BY DEF Follows, Record, Advances, KeepsSlot, Crossed
<1>2. Agrees(d)
  BY DEF Sound, Agrees, ArchiveInv, Follows, Advances
<1>3. Honours(d)
  <2>1. SUFFICES ASSUME NEW s \in sent
                 PROVE  Sealed(Record(d, s[1])) /\ Record(d, s[1]).lease = s[2]
    BY DEF Honours
  <2>2. s[1] \in Ids
    BY DEF TypeOK, Permissions
  <2>3. Sealed(Record(c, s[1])) /\ Record(c, s[1]).lease = s[2]
    BY DEF Sound, Honours
  <2>4. Advances(Record(c, s[1]), Record(d, s[1]))
    BY <1>1, <2>2
  <2>. QED
    BY <2>3, <2>4 DEF Sealed, Advances, KeepsSlot, Crossed
<1>4. \A i \in Ids : Advances(Durable(i), Record(d, i))
  BY <1>1, AdvancesTrans DEF Sound
<1>. QED
  BY <1>1, <1>2, <1>3, <1>4 DEF Sound

(* The files are sound with respect to themselves.                         *)
LEMMA SoundDisk ==
  ASSUME FilesInv
  PROVE  Sound(disk)
BY DEF FilesInv, Sound, Durable, Advances, KeepsSlot, Crossed

(* Taking in the receipt of the addressed job changes no record.           *)
LEMMA SoundAddressed ==
  ASSUME TypeOK, ArchiveInv, Sound(cand), NEW i \in Ids
  PROVE  /\ Sound(Addressed(i))
         /\ \A k \in Ids : Record(Addressed(i), k) = Record(cand, k)
         /\ Addressed(i).jobs[i] = Record(cand, i)
<1>1. /\ \A k \in Ids : Record(Addressed(i), k) = Record(cand, k)
      /\ Addressed(i).jobs[i] = Record(cand, i)
  BY DEF Addressed, Record, TypeOK, CoreType
<1>2. Agrees(Addressed(i))
  BY DEF Sound, Agrees, Addressed, TypeOK, CoreType
<1>3. Honours(Addressed(i))
  BY <1>1 DEF Sound, Honours, TypeOK, Permissions
<1>. QED
  BY <1>1, <1>2, <1>3 DEF Sound

(* Admitting an identity nobody has a record of keeps the core sound.      *)
LEMMA SoundAdmitted ==
  ASSUME TypeOK, ArchiveInv, NEW c \in CoreType, Sound(c),
         NEW ctl \in Controllers, NEW i \in Ids, NEW body \in Bodies, NEW t \in Nat,
         Record(c, i).st = "none"
  PROVE  Sound(Admitted(c, ctl, i, body, t))
<1>. DEFINE d == Admitted(c, ctl, i, body, t)
            j == Job(ctl, body, t, c.next)
<1>1. d.jobs = [c.jobs EXCEPT ![i] = j]
  <2>1. [c EXCEPT !.next = @ + 1] \in CoreType
    BY DEF CoreType
  <2>2. AdvanceFloor([c EXCEPT !.next = @ + 1]) \in CoreType
    BY <2>1, AdvanceFloorType
  <2>3. AdvanceFloor([c EXCEPT !.next = @ + 1]).jobs = c.jobs
    BY <2>1, AdvanceFloorType DEF CoreType
  <2>. QED
    BY <2>2, <2>3 DEF Admitted, CoreType
<1>2. j.st = "queued"
  BY DEF Job, NoJob
<1>. HIDE DEF d, j
<1>3. archive[i].st = "none"
  BY DEF Record
<1>4. \A k \in Ids \ {i} : d.jobs[k] = c.jobs[k] /\ Record(d, k) = Record(c, k)
  BY <1>1 DEF Record, CoreType
<1>5. Agrees(d)
  BY <1>3, <1>4 DEF Sound, Agrees
<1>6. Honours(d)
  BY <1>4 DEF Sound, Honours, TypeOK, Permissions, Sealed, Crossed
<1>7. \A k \in Ids : Advances(Durable(k), Record(d, k))
  <2>1. Durable(i).st = "none"
    BY DEF Sound, Advances
  <2>2. Advances(Durable(i), Record(d, i))
    BY <2>1 DEF Advances, Crossed
  <2>. QED
    BY <1>4, <2>2 DEF Sound
<1>. QED
  BY <1>5, <1>6, <1>7 DEF Sound, d

-----------------------------------------------------------------------------
(* The parts of a call                                                     *)

(* Soundness depends on the files and the permissions only.                *)
LEMMA SoundUnchanged ==
  ASSUME NEW c, Sound(c), UNCHANGED <<disk, archive, sent>>, c = cand'
  PROVE  Sound(cand)'
BY DEF Sound, Agrees, Honours, Record, Durable

(* A controller call that turns the sound core c into its new candidate    *)
(* and asks for nothing to be sent.                                        *)
LEMMA RescheduleSends ==
  ASSUME TypeOK, SendInv, pc = "schedule", NEW c \in CoreType, Sound(c),
         Reschedule(c), asked' = asked
  PROVE  SendInv'
<1>1. Sound(Turn(Expire(c, now)))
  BY FollowsTurn, ExpireType, TurnType, SoundFollows DEF SendInv
<1>2. Sound(cand)'
  BY <1>1, SoundUnchanged DEF Reschedule
<1>3. asked' = NoAsk
  BY DEF SendInv, AskedInv
<1>4. ArchiveInv' /\ PhaseInv' /\ AtMostOnceSend'
  BY DEF SendInv, ArchiveInv, PhaseInv, AtMostOnceSend, Reschedule
<1>5. FilesInv'
  BY DEF SendInv, FilesInv, Agrees, Honours, Record, Reschedule
<1>. QED
  BY <1>2, <1>3, <1>4, <1>5 DEF SendInv, CandInv, Sound, AskedInv

(* An operator call that starts from a core following the saved one.       *)
LEMMA OperateSends ==
  ASSUME TypeOK, SendInv, NEW c \in CoreType, NEW t, Follows(core, c), Operate(c, t)
  PROVE  SendInv'
<1>1. core = disk
  BY DEF Operate, SendInv, PhaseInv
<1>2. Sound(c)
  BY <1>1, SoundDisk, SoundFollows DEF SendInv, TypeOK
<1>3. Sound(Turn(Expire(c, t)))
  BY <1>2, FollowsTurn, ExpireType, TurnType, SoundFollows DEF SendInv
<1>4. Sound(cand)'
  BY <1>3, SoundUnchanged DEF Operate
<1>5. asked' = NoAsk
  BY DEF SendInv, AskedInv, Operate
<1>6. ArchiveInv' /\ PhaseInv' /\ AtMostOnceSend'
  BY <1>1 DEF SendInv, ArchiveInv, PhaseInv, AtMostOnceSend, Operate
<1>7. FilesInv'
  BY DEF SendInv, FilesInv, Agrees, Honours, Record, Operate
<1>. QED
  BY <1>4, <1>5, <1>6, <1>7 DEF SendInv, CandInv, Sound, AskedInv

(* A step that leaves the files and the permissions alone and forgets the  *)
(* candidate: the call is dropped, the process is poisoned or goes down.   *)
LEMMA ForgetSends ==
  ASSUME TypeOK, SendInv, UNCHANGED <<disk, archive, sent>>, asked' = NoAsk,
         \/ pc' = "poisoned"
         \/ pc' \in {"down", "idle"} /\ cand' = disk /\ core' = disk
  PROVE  SendInv'
<1>1. ArchiveInv' /\ PhaseInv' /\ AtMostOnceSend' /\ AskedInv'
  BY DEF SendInv, ArchiveInv, PhaseInv, AtMostOnceSend, AskedInv
<1>2. FilesInv'
  BY DEF SendInv, FilesInv, Agrees, Honours, Record
<1>3. pc' # "poisoned" => Sound(cand)'
  BY SoundDisk, SoundUnchanged DEF SendInv
<1>. QED
  BY <1>1, <1>2, <1>3 DEF SendInv, CandInv, Sound

-----------------------------------------------------------------------------
(* The steps                                                               *)

(* Sending: the permission asked for is new and is in the candidate.       *)
LEMMA DispatchSends ==
  ASSUME TypeOK, SendInv, NEW ctl \in Controllers, NEW i \in Ids, NEW lease,
         Dispatch(ctl, i, lease)
  PROVE  SendInv'
<1>. DEFINE a == Addressed(i)
            d == Dispatched(a, i, now)
            e == Turn(Expire(d, now))
<1>1. pc = "schedule" /\ Sound(cand) /\ cand' = e
  BY DEF Dispatch, Settled, SendInv, CandInv, Sound, Reschedule
<1>2. Sound(a) /\ a \in CoreType /\ a.jobs[i] = Record(cand, i)
  BY <1>1, SoundAddressed, AddressedType DEF SendInv
<1>3. a.jobs[i].st = "placed" /\ a.jobs[i].lease = lease
  BY DEF Dispatch
<1>4. d \in CoreType /\ now \in Nat
  BY <1>2, <1>3, DispatchedType DEF TypeOK
<1>5. /\ Follows(a, d)
      /\ d.jobs[i].st = "dispatched" /\ d.jobs[i].lease = lease
  BY <1>2, <1>3, <1>4, FollowsDispatched
<1>6. e \in CoreType /\ Follows(d, e)
  BY <1>4, FollowsTurn, ExpireType, TurnType
<1>7. Sound(d)
  BY <1>2, <1>4, <1>5, SoundFollows DEF SendInv
<1>8. Sound(e) /\ Sealed(Record(e, i)) /\ Record(e, i).lease = lease
  <2>1. Sound(e) /\ Advances(Record(d, i), Record(e, i))
    BY <1>4, <1>6, <1>7, SoundFollows DEF SendInv
  <2>2. Record(d, i) = d.jobs[i]
    BY <1>5 DEF Record
  <2>. QED
    BY <1>5, <2>1, <2>2 DEF Advances, Crossed, KeepsSlot, Sealed
<1>9. \A s \in sent : s[1] # i
  BY <1>1, <1>2, <1>3 DEF Sound, Honours, Sealed, Crossed
<1>. HIDE DEF a, d, e
<1>10. UNCHANGED <<disk, archive, core, sent>> /\ pc' = "reschedule"
  BY DEF Dispatch, Reschedule
<1>11. Sound(cand)'
  BY <1>1, <1>8, <1>10, SoundUnchanged
<1>12. ArchiveInv' /\ PhaseInv' /\ AtMostOnceSend'
  BY <1>1, <1>10 DEF SendInv, ArchiveInv, PhaseInv, AtMostOnceSend
<1>13. FilesInv'
  BY <1>10 DEF SendInv, FilesInv, Agrees, Honours, Record
<1>14. asked'[1] = i /\ asked'[2] = lease
  BY DEF Dispatch
<1>15. AskedInv'
  BY <1>1, <1>8, <1>9, <1>10, <1>14 DEF AskedInv, Record
<1>. QED
  BY <1>11, <1>12, <1>13, <1>15 DEF SendInv, CandInv, Sound

(* Publishing a receipt moves a record from the candidate to the archive.  *)
LEMMA ArchiveSends ==
  ASSUME TypeOK, SendInv, NEW i \in Ids, ArchiveReceipt(i)
  PROVE  SendInv'
<1>1. /\ pc = "archive" /\ pc' = "archive" /\ UNCHANGED <<disk, core, asked, sent>>
      /\ cand.jobs[i].st = "terminal"
      /\ cand'.jobs = [cand.jobs EXCEPT ![i] = NoJob]
  BY DEF ArchiveReceipt, FirstTerminal, TerminalIds, TypeOK, CoreType
<1>2. /\ archive'[i] = cand.jobs[i]
      /\ archive[i] = cand.jobs[i] \/ archive[i].st = "none"
      /\ \A k \in Ids \ {i} : archive'[k] = archive[k]
  BY DEF ArchiveReceipt, TypeOK
<1>3. disk.jobs[i] = cand.jobs[i]
  BY <1>1, JobForms DEF SendInv, PhaseInv
<1>4. /\ \A k \in Ids : Record(cand, k)' = Record(cand, k)
      /\ \A k \in Ids : Durable(k)' = Durable(k)
  BY <1>1, <1>2, <1>3, JobForms DEF Record, Durable, TypeOK, CoreType
<1>5. ArchiveInv'
  BY <1>1, <1>2 DEF SendInv, ArchiveInv
<1>6. PhaseInv'
  BY <1>1, <1>2, <1>3 DEF SendInv, PhaseInv, TypeOK, CoreType
<1>7. Agrees(disk)' /\ Agrees(cand)'
  BY <1>1, <1>2, <1>3, JobForms DEF SendInv, FilesInv, CandInv, Agrees, TypeOK, CoreType
<1>8. Honours(disk)' /\ Honours(cand)'
  BY <1>1, <1>4 DEF SendInv, FilesInv, CandInv, Honours, TypeOK, Permissions, Durable
<1>9. AskedInv' /\ AtMostOnceSend'
  BY <1>1, <1>4 DEF SendInv, AskedInv, AtMostOnceSend
<1>. QED
  BY <1>1, <1>4, <1>5, <1>6, <1>7, <1>8, <1>9 DEF SendInv, FilesInv, CandInv

(* Committing: the candidate becomes the file, then the reply may arrive.  *)
LEMMA CommitSends ==
  ASSUME TypeOK, SendInv, Commit
  PROVE  SendInv'
<1>1. pc # "poisoned" /\ Sound(cand)
  BY DEF Commit, ToSave, Settled, SendInv, CandInv, Sound
<1>2. /\ disk'.jobs = cand.jobs /\ core' = disk' /\ cand' = disk'
      /\ archive' = archive /\ pc' = "idle" /\ asked' = NoAsk
  BY DEF Commit, Stamped, TypeOK, CoreType
<1>3. \A i \in Ids : Durable(i)' = Record(cand, i) /\ Record(cand, i)' = Record(cand, i)
  BY <1>2 DEF Durable, Record
<1>4. ArchiveInv' /\ PhaseInv' /\ AskedInv'
  BY <1>2 DEF SendInv, ArchiveInv, PhaseInv, AskedInv
<1>5. Agrees(disk)'
  BY <1>1, <1>2 DEF Sound, Agrees
<1>6. Honours(disk)' /\ AtMostOnceSend'
  <2>1. CASE sent' = sent
    BY <1>1, <1>3, <2>1 DEF SendInv, Sound, Honours, AtMostOnceSend, TypeOK,
       Permissions, Durable
  <2>2. CASE asked # NoAsk /\ sent' = sent \cup {asked}
    <3>1. /\ asked[1] \in Ids
          /\ Sealed(Record(cand, asked[1])) /\ Record(cand, asked[1]).lease = asked[2]
          /\ \A s \in sent : s[1] # asked[1]
      BY <2>2 DEF SendInv, AskedInv
    <3>2. \A s \in sent : s[1] \in Ids
      BY DEF TypeOK, Permissions
    <3>3. \A s \in sent' : Sealed(Record(cand, s[1])) /\ Record(cand, s[1]).lease = s[2]
                           /\ s[1] \in Ids
      BY <1>1, <2>2, <3>1, <3>2 DEF Sound, Honours
    <3>4. AtMostOnceSend'
      BY <2>2, <3>1 DEF SendInv, AtMostOnceSend
    <3>. QED
      BY <1>3, <3>3, <3>4 DEF Honours, Durable
  <2>. QED
    BY <2>1, <2>2 DEF Commit
<1>7. Sound(cand)'
  BY <1>2, <1>5, <1>6 DEF Sound, Durable, Advances, KeepsSlot, Crossed
<1>. QED
  BY <1>4, <1>5, <1>6, <1>7 DEF SendInv, FilesInv, CandInv, Sound

(* Saving the whole transition hands the candidate over to the snapshot.   *)
LEMMA SaveTerminalSends ==
  ASSUME TypeOK, SendInv, SaveTerminal
  PROVE  SendInv'
<1>1. pc # "poisoned" /\ Sound(cand)
  BY DEF SaveTerminal, ToSave, Settled, SendInv, CandInv, Sound
<1>2. /\ disk' = cand /\ cand' = cand /\ pc' = "archive"
      /\ UNCHANGED <<archive, core, sent, asked>>
  BY DEF SaveTerminal
<1>3. ArchiveInv' /\ PhaseInv' /\ AtMostOnceSend'
  BY <1>2 DEF SendInv, ArchiveInv, PhaseInv, AtMostOnceSend
<1>4. AskedInv'
  BY <1>2 DEF SendInv, AskedInv, Record
<1>5. FilesInv'
  BY <1>1, <1>2 DEF FilesInv, Sound, Agrees, Honours, Record
<1>6. Sound(cand)'
  BY <1>2, <1>5 DEF FilesInv, Sound, Agrees, Honours, Record, Durable, Advances,
     KeepsSlot, Crossed
<1>. QED
  BY <1>3, <1>4, <1>5, <1>6 DEF SendInv, CandInv, Sound

(* A failed save leaves the files as they were.                            *)
LEMMA SaveFailedSends ==
  ASSUME TypeOK, SendInv, SaveFailed
  PROVE  SendInv'
<1>1. CASE opening
  BY <1>1, ForgetSends DEF SaveFailed, GoDown
<1>2. CASE ~opening
  BY <1>2, ForgetSends DEF SaveFailed
<1>. QED
  BY <1>1, <1>2

(* A controller's call.                                                    *)
LEMMA CallSends ==
  ASSUME TypeOK, SendInv, Call
  PROVE  SendInv'
<1>1. CASE Refuse
  BY <1>1, ForgetSends DEF Refuse, Settled, Discard, SendInv, PhaseInv
<1>2. ASSUME NEW r \in Requests, Enqueue(r[1], r[2], r[3], r[4])
      PROVE  SendInv'
  <2>1. r[1] \in Controllers /\ r[2] \in Ids /\ r[3] \in Bodies /\ r[4] \in Nat
    BY ConfigAssumption
  <2>2. pc = "schedule" /\ Sound(cand)
    BY <1>2 DEF Enqueue, Settled, SendInv, CandInv, Sound
  <2>3. /\ Addressed(r[2]) \in CoreType /\ Sound(Addressed(r[2]))
        /\ Record(Addressed(r[2]), r[2]).st = "none"
    BY <1>2, <2>1, <2>2, AddressedType, SoundAddressed DEF Enqueue, SendInv
  <2>4. Admitted(Addressed(r[2]), r[1], r[2], r[3], r[4]) \in CoreType
    BY <2>1, <2>3, AdmittedType
  <2>5. Sound(Admitted(Addressed(r[2]), r[1], r[2], r[3], r[4]))
    BY <2>1, <2>3, SoundAdmitted DEF SendInv
  <2>. QED
    BY <1>2, <2>2, <2>4, <2>5, RescheduleSends DEF Enqueue
<1>3. ASSUME NEW i \in Ids, pc = "schedule"
      PROVE  /\ Addressed(i) \in CoreType /\ Sound(Addressed(i))
             /\ Reschedule(Addressed(i)) /\ asked' = asked => SendInv'
  <2>1. Sound(cand)
    BY <1>3 DEF SendInv, CandInv, Sound
  <2>2. Addressed(i) \in CoreType /\ Sound(Addressed(i))
    BY <2>1, AddressedType, SoundAddressed DEF SendInv
  <2>. QED
    BY <1>3, <2>2, RescheduleSends
<1>4. ASSUME NEW i \in Ids, pc = "schedule", NEW d \in CoreType,
             Follows(Addressed(i), d), Reschedule(d), asked' = asked
      PROVE  SendInv'
  BY <1>3, <1>4, SoundFollows, RescheduleSends DEF SendInv
<1>5. ASSUME NEW r \in Requests, EnqueueAgain(r[1], r[2], r[3])
      PROVE  SendInv'
  BY <1>3, <1>5, ConfigAssumption DEF EnqueueAgain, Settled
<1>6. ASSUME NEW ctl \in Controllers, NEW i \in Ids, Inspect(ctl, i)
      PROVE  SendInv'
  BY <1>3, <1>6 DEF Inspect, Settled
<1>7. ASSUME NEW ctl \in Controllers, NEW i \in Ids, NEW lease \in 1..(cand.next - 1),
             NEW out \in Reports, Finish(ctl, i, lease, out)
      PROVE  SendInv'
  <2>. DEFINE j == Addressed(i).jobs[i]
              e == Elapsed(j, out, now)
  <2>1. pc = "schedule" /\ asked' = asked /\ Addressed(i) \in CoreType
    BY <1>7, AddressedType DEF Finish, Settled
  <2>2. CASE Reschedule(Addressed(i))
    BY <1>3, <2>1, <2>2
  <2>3. CASE EndReport(j, lease, out) /\ Reschedule(Completed(Addressed(i), i, e, out))
    <3>1. Holds(j) /\ out \in SentEnds /\ out \in Outcomes
      BY <2>3 DEF EndReport, Holds, Crossed, SentEnds, Outcomes
    <3>2. j \in JobRecords
      BY <2>1, <3>1, JobForms DEF CoreType, Holds
    <3>3. e \in Nat
      BY <3>2, SatSubNat, ConfigAssumption DEF Elapsed, TypeOK, JobRecords
    <3>. QED
      BY <1>4, <2>1, <2>3, <3>1, <3>3, CompletedType, FollowsCompleted
  <2>4. CASE UncertainReport(j, lease, out) /\ Reschedule(Unconfirmed(Addressed(i), i))
    BY <1>4, <2>1, <2>4, UnconfirmedType, FollowsUnconfirmed DEF UncertainReport
  <2>. QED
    BY <1>7, <2>2, <2>3, <2>4 DEF Finish
<1>8. ASSUME NEW ctl \in Controllers, NEW i \in Ids, Cancel(ctl, i)
      PROVE  SendInv'
  BY <1>3, <1>4, <1>8, CancelledType, FollowsCancelled DEF Cancel, Settled
<1>. QED
  BY <1>1, <1>2, <1>5, <1>6, <1>7, <1>8, DispatchSends DEF Call

(* One turn of the placement loop.                                         *)
LEMMA PlaceSends ==
  ASSUME TypeOK, SendInv, PlaceNext
  PROVE  SendInv'
<1>1. PICK ch \in Best(cand) : cand' = Turn(Placed(cand, ch[1], ch[2], now))
  BY DEF PlaceNext
<1>2. ch[1] \in Ids /\ ch[2] \in Backends /\ cand.jobs[ch[1]].st = "queued"
  BY DEF Best, Offers
<1>. DEFINE d == Placed(cand, ch[1], ch[2], now)
<1>3. d \in CoreType /\ Follows(cand, d)
  BY <1>2, PlacedType, FollowsPlaced DEF TypeOK
<1>4. Turn(d) \in CoreType /\ Follows(cand, Turn(d))
  BY <1>3, TurnType, FollowsSame, FollowsTrans
<1>5. Sound(cand)
  BY DEF PlaceNext, SendInv, CandInv, Sound
<1>6. cand \in CoreType
  BY DEF TypeOK
<1>7. /\ Sound(Turn(d))
      /\ \A i \in Ids : Advances(Record(cand, i), Record(Turn(d), i))
  BY <1>4, <1>5, <1>6, SoundFollows DEF SendInv
<1>. HIDE DEF d
<1>8. /\ cand' = Turn(d) /\ UNCHANGED <<disk, archive, core, pc, asked, sent>>
      /\ pc \in {"schedule", "reschedule"}
  BY <1>1 DEF PlaceNext, d
<1>9. Sound(cand)'
  BY <1>7, <1>8, SoundUnchanged
<1>10. \A i \in Ids : Advances(Record(cand, i), Record(cand, i)')
  BY <1>7, <1>8 DEF Record
<1>11. AskedInv'
  BY <1>8, <1>10 DEF SendInv, AskedInv, Advances, Sealed, KeepsSlot, Crossed
<1>12. ArchiveInv' /\ PhaseInv' /\ AtMostOnceSend'
  BY <1>8 DEF SendInv, ArchiveInv, PhaseInv, AtMostOnceSend
<1>13. FilesInv'
  BY <1>8 DEF SendInv, FilesInv, Agrees, Honours, Record
<1>. QED
  BY <1>9, <1>11, <1>12, <1>13 DEF SendInv, CandInv, Sound

(* An operator's call.                                                     *)
LEMMA OperatorSends ==
  ASSUME TypeOK, SendInv, NEW t \in Times,
         \/ Status(t)
         \/ \E enabled \in Drains : Drain(enabled, t)
         \/ \E i \in Resolves : Resolve(i, t)
  PROVE  SendInv'
<1>1. core \in CoreType /\ t \in Nat
  BY ConfigAssumption DEF TypeOK
<1>2. CASE Status(t)
  BY <1>1, <1>2, FollowsSame, OperateSends DEF Status
<1>3. ASSUME NEW enabled \in Drains, Drain(enabled, t)
      PROVE  SendInv'
  <2>1. enabled \in BOOLEAN
    BY ConfigAssumption
  <2>. QED
    BY <1>1, <1>3, <2>1, DrainingType, FollowsDraining, OperateSends DEF Drain
<1>4. ASSUME NEW i \in Resolves, Resolve(i, t)
      PROVE  SendInv'
  <2>1. i \in Ids
    BY ConfigAssumption
  <2>. QED
    BY <1>1, <1>4, <2>1, ResolvedType, FollowsResolved, OperateSends DEF Resolve
<1>. QED
  BY <1>2, <1>3, <1>4

(* Beginning a call, and opening the service: the candidate follows the    *)
(* saved core.                                                             *)
LEMMA BeginSends ==
  ASSUME TypeOK, SendInv, NEW d \in CoreType, Follows(disk, d), cand' = d, core' = disk,
         pc \in {"idle", "down"}, pc' \in {"open", "schedule"}, asked' = asked,
         UNCHANGED <<disk, archive, sent>>
  PROVE  SendInv'
<1>1. Sound(d)
  BY SoundDisk, SoundFollows DEF SendInv, TypeOK
<1>2. Sound(cand)'
  BY <1>1, SoundUnchanged
<1>3. ArchiveInv' /\ PhaseInv' /\ AtMostOnceSend' /\ AskedInv'
  BY DEF SendInv, ArchiveInv, PhaseInv, AtMostOnceSend, AskedInv
<1>4. FilesInv'
  BY DEF SendInv, FilesInv, Agrees, Honours, Record
<1>. QED
  BY <1>2, <1>3, <1>4 DEF SendInv, CandInv, Sound

(* Every step keeps the invariant.                                         *)
LEMMA SendStep ==
  ASSUME TypeOK, SendInv, [Next]_vars
  PROVE  SendInv'
<1>1. ASSUME NEW t \in Times, Begin(t)
      PROVE  SendInv'
  <2>1. core = disk /\ Turn(Expire(disk, t)) \in CoreType /\ Follows(disk, Turn(Expire(disk, t)))
    BY <1>1, FollowsTurn, ExpireType, TurnType DEF Begin, SendInv, PhaseInv, TypeOK
  <2>. QED
    BY <1>1, <2>1, BeginSends DEF Begin
<1>2. CASE PlaceNext
  BY <1>2, PlaceSends
<1>3. CASE PlaceOverflows
  BY <1>3, ForgetSends DEF PlaceOverflows, Discard, SendInv, PhaseInv
<1>4. CASE Call
  BY <1>4, CallSends
<1>5. CASE Operator
  BY <1>5, OperatorSends DEF Operator
<1>6. CASE Unchanged
  BY <1>6, ForgetSends DEF Unchanged, Settled, Discard, SendInv, PhaseInv
<1>7. CASE Save
  BY <1>7, SaveTerminalSends, ArchiveSends, SaveFailedSends, CommitSends
     DEF Save, ArchiveRefuses
<1>8. CASE WriteFails
  BY <1>8, SaveFailedSends DEF WriteFails
<1>9. CASE Crash
  BY <1>9, ForgetSends DEF Crash, GoDown
<1>10. CASE Stop
  BY <1>10, ForgetSends DEF Stop, GoDown
<1>11. CASE Open
  <2>1. Recovered(disk) \in CoreType /\ Follows(disk, Recovered(disk))
    BY RecoveredType, FollowsRecovered DEF TypeOK
  <2>. QED
    BY <1>11, <2>1, BeginSends DEF Open
<1>12. CASE UNCHANGED vars
  BY <1>12 DEF vars, SendInv, ArchiveInv, PhaseInv, FilesInv, CandInv, AskedInv,
     AtMostOnceSend, Agrees, Honours, Record, Durable
<1>. QED
  BY <1>1, <1>2, <1>3, <1>4, <1>5, <1>6, <1>7, <1>8, <1>9, <1>10, <1>11, <1>12
     DEF Next, Fault

(* What a restart would find moves forward with every step.                *)
LEMMA DurableStep ==
  ASSUME TypeOK, SendInv, [Next]_vars
  PROVE  \A i \in Ids : Advances(Durable(i), Durable(i)')
<1>1. CASE UNCHANGED <<disk, archive>>
  BY <1>1 DEF Durable, Record, Advances, KeepsSlot, Crossed
<1>2. CASE SaveTerminal
  BY <1>2 DEF SaveTerminal, ToSave, Settled, SendInv, CandInv, Durable, Record
<1>3. CASE Commit
  <2>1. pc # "poisoned" /\ disk'.jobs = cand.jobs /\ archive' = archive
    BY <1>3 DEF Commit, ToSave, Settled, Stamped, TypeOK, CoreType
  <2>. QED
    BY <2>1 DEF SendInv, CandInv, Durable, Record
<1>4. ASSUME NEW n \in Ids, ArchiveReceipt(n)
      PROVE  \A i \in Ids : Advances(Durable(i), Durable(i)')
  <2>1. cand.jobs[n].st = "terminal" /\ UNCHANGED disk /\ pc = "archive"
    BY <1>4 DEF ArchiveReceipt, FirstTerminal, TerminalIds
  <2>2. disk.jobs[n] = cand.jobs[n]
    BY <2>1, JobForms DEF SendInv, PhaseInv
  <2>3. \A i \in Ids : Durable(i)' = Durable(i)
    BY <1>4, <2>1, <2>2 DEF ArchiveReceipt, Durable, Record, TypeOK
  <2>. QED
    BY <2>3 DEF Advances, KeepsSlot, Crossed
<1>5. CASE Call
  BY <1>1, <1>5 DEF Call, Refuse, Discard, Enqueue, EnqueueAgain, Inspect, Dispatch,
     Finish, Cancel, Reschedule
<1>6. CASE Operator
  BY <1>1, <1>6 DEF Operator, Status, Drain, Resolve, Operate
<1>7. CASE ArchiveRefuses \/ Fault \/ Stop
  BY <1>1, <1>7 DEF ArchiveRefuses, Fault, WriteFails, Crash, Stop, SaveFailed
<1>8. CASE PlaceNext \/ PlaceOverflows \/ Unchanged \/ Open
  BY <1>1, <1>8 DEF PlaceNext, PlaceOverflows, Unchanged, Discard, Open
<1>9. CASE \E t \in Times : Begin(t)
  BY <1>1, <1>9 DEF Begin
<1>10. CASE UNCHANGED vars
  BY <1>1, <1>10 DEF vars
<1>. QED
  BY <1>2, <1>3, <1>4, <1>5, <1>6, <1>7, <1>8, <1>9, <1>10 DEF Next, Save

-----------------------------------------------------------------------------
(* SendInv holds for ever: memory, candidate, snapshot and archive stay in *)
(* the relation each step of a call needs.                                 *)
THEOREM SendInvariant == Spec => []SendInv
<1>1. Init => SendInv
  <2>1. SUFFICES ASSUME Init PROVE SendInv
    OBVIOUS
  <2>2. \A i \in Ids : NewCore.jobs[i] = NoJob /\ archive[i] = NoJob
    BY <2>1 DEF Init, NewCore
  <2>3. /\ disk = NewCore /\ core = NewCore /\ cand = NewCore
        /\ pc = "down" /\ asked = NoAsk /\ sent = {}
    BY <2>1 DEF Init
  <2>4. ArchiveInv /\ PhaseInv /\ AskedInv /\ AtMostOnceSend
    BY <2>2, <2>3, JobForms DEF ArchiveInv, PhaseInv, AskedInv, AtMostOnceSend
  <2>5. FilesInv /\ CandInv
    BY <2>2, <2>3, JobForms DEF FilesInv, CandInv, Agrees, Honours, Durable, Record,
       Advances, Crossed
  <2>. QED
    BY <2>4, <2>5 DEF SendInv
<1>. QED
  BY <1>1, SendStep, TypeCorrect, PTL DEF Spec

(* A job is permitted to send at most once, in every configuration and     *)
(* over any number of crashes, failed writes and lost replies.             *)
THEOREM SentAtMostOnce == Spec => []AtMostOnceSend
<1>1. SendInv => AtMostOnceSend
  BY DEF SendInv
<1>. QED
  BY <1>1, SendInvariant, PTL

(* A permission a caller holds is recorded on disk under its lease.        *)
THEOREM PermissionsOnDisk == Spec => []PermissionDurable
<1>1. SendInv => PermissionDurable
  BY DEF SendInv, FilesInv, Honours, PermissionDurable, Durable, Sealed, Crossed
<1>. QED
  BY <1>1, SendInvariant, PTL

(* No step of the broker forgets an accepted job.                          *)
THEOREM JobsRemembered == Spec => NeverForgotten
<1>1. TypeOK /\ SendInv /\ [Next]_vars
      => [\A i \in Ids : Durable(i).st # "none" => Durable(i)'.st # "none"]_vars
  BY DurableStep DEF Advances
<1>. QED
  BY <1>1, TypeCorrect, SendInvariant, PTL DEF Spec, NeverForgotten

(* No step of the broker changes the record of a job that has ended.       *)
THEOREM OutcomesFinal == Spec => OutcomeFinal
<1>1. TypeOK /\ SendInv /\ [Next]_vars
      => [\A i \in Ids : Durable(i).st = "terminal" => Durable(i)' = Durable(i)]_vars
  BY DurableStep DEF Advances
<1>. QED
  BY <1>1, TypeCorrect, SendInvariant, PTL DEF Spec, OutcomeFinal

(* No step of the broker takes the slot, the lease or the backend of sent  *)
(* work away before its end is reported or attested.                       *)
THEOREM SlotsKept == Spec => SentKeepsSlot
<1>1. TypeOK /\ SendInv /\ [Next]_vars
      => [\A i \in Ids : Crossed(Durable(i)) => KeepsSlot(Durable(i), Durable(i)')]_vars
  BY DurableStep DEF Advances
<1>. QED
  BY <1>1, TypeCorrect, SendInvariant, PTL DEF Spec, SentKeepsSlot

-----------------------------------------------------------------------------
(* What a core keeps                                                       *)

(* The bounds of Config on one core.                                       *)
Bounded(c) ==
  /\ \A g \in Groups : Cardinality(Occupied(c, g)) <= Slots[g]
  /\ \A p \in Principals : Cardinality(ActiveOf(c, p)) <= MaxActive
  /\ Cardinality(LiveIds(c)) <= MaxJobs

(* The leases of a job: the one in force and those a restart superseded.   *)
Leases(j) == {j.lease} \cup j.superseded
Tidy(j) ==
  /\ j.lease \notin j.superseded /\ NoLease \notin j.superseded
  /\ Holds(j) => j.lease # NoLease

(* The serial of a core is ahead of all its leases, and no two records     *)
(* share one.                                                              *)
Numbered(c) ==
  /\ NoLease < c.next
  /\ \A i \in Ids : Tidy(Record(c, i)) /\ Leases(Record(c, i)) \subseteq NoLease..(c.next - 1)
  /\ \A i, k \in Ids : i # k => Leases(Record(c, i)) \cap Leases(Record(c, k)) \subseteq {NoLease}

(* The job of permission r holds its slot under its lease.                 *)
Runs(c, r) ==
  /\ Crossed(c.jobs[r[1]])
  /\ c.jobs[r[1]].lease = r[2] /\ c.jobs[r[1]].backend = r[3]

(* The records j and k have the same entry in the ledger.                  *)
Same(j, k) ==
  /\ k.st = j.st \/ (Crossed(j) /\ Crossed(k))
  /\ k.lease = j.lease /\ k.backend = j.backend /\ k.outcome = j.outcome

(* How one operation, other than placement, admission and recovery, moves  *)
(* a record.                                                               *)
Hops(j, k) ==
  \/ Same(j, k)
  \/ j.st = "queued" /\ k.st = "terminal"
  \/ j.st = "placed" /\ k.st = "terminal" /\ k.lease = j.lease
  \/ j.st = "placed" /\ Crossed(k) /\ k.lease = j.lease /\ k.backend = j.backend
  \/ Crossed(j) /\ k.st = "terminal" /\ k.lease = j.lease

(* How far the running call has moved a durable record, in a core whose    *)
(* serial is hi.                                                           *)
Moved(j, k, hi) ==
  \/ Hops(j, k)
  \/ j.st = "none" /\ k.st = "queued"
  \/ j.st = "none" /\ k.st = "placed" /\ disk.next <= k.lease /\ k.lease < hi
  \/ /\ j.st = "queued" /\ (k.st = "placed" \/ Crossed(k))
     /\ disk.next <= k.lease /\ k.lease < hi

(* Operation results that give out nothing.                                *)
Eases(j, k) ==
  /\ k.st = "none" <=> j.st = "none"
  /\ Live(k) => Live(j)
  /\ Holds(k) => /\ Holds(j) /\ k.controller = j.controller
                 /\ k.backend = j.backend /\ k.lease = j.lease
  /\ Tidy(j) => Tidy(k)
  /\ Leases(k) \subseteq Leases(j) \cup {NoLease}

(* Core d comes from c by such results, S being the jobs whose execution   *)
(* is reported over.                                                       *)
Calms(c, d, S) ==
  /\ d.next = c.next
  /\ d.archived = c.archived /\ d.archivedDrained = c.archivedDrained
  /\ \A i \in Ids : Eases(c.jobs[i], d.jobs[i])
  /\ \A i \in Ids \ S : Crossed(c.jobs[i]) => Crossed(d.jobs[i])

Hopping(c, d) == \A i \in Ids : Hops(c.jobs[i], d.jobs[i])

-----------------------------------------------------------------------------
(* The inductive invariant                                                 *)

(* Memory counts the receipts, the snapshot never counts more than there   *)
(* are, and counts the drained ones rightly when it counts all.            *)
CountInv ==
  /\ pc # "down" => receipts = Cardinality(Archived) /\ drained = Cardinality(DrainedReceipts)
  /\ disk.archived <= Cardinality(Archived)
  /\ disk.archived = Cardinality(Archived) =>
       disk.archivedDrained = Cardinality(DrainedReceipts)
  /\ pc # "poisoned" => /\ cand.archived = disk.archived
                        /\ cand.archivedDrained = disk.archivedDrained

SizeInv == Bounded(disk) /\ Bounded(core) /\ Bounded(cand)

(* What runs holds its slot in the snapshot and in the candidate.          *)
RunInv ==
  /\ \A r \in running : Runs(disk, r)
  /\ pc # "poisoned" => \A r \in running : Runs(cand, r)
  /\ asked # NoAsk => Runs(cand, asked)

LeaseInv == Numbered(disk) /\ (pc # "poisoned" => Numbered(cand))

(* The candidate is ahead of the files by moves of the ledger; before a    *)
(* call is executed it has admitted nothing.                               *)
MoveInv ==
  pc # "poisoned" =>
    /\ disk.next <= cand.next
    /\ pc = "schedule" => \A i \in Ids : Durable(i).st = "none" => Record(cand, i).st = "none"
    /\ \A i \in Ids : \/ Moved(Durable(i), Record(cand, i), cand.next)
                      \/ /\ pc = "open"
                         /\ Durable(i).st = "placed" /\ Record(cand, i).st = "queued"

BookInv == CountInv /\ SizeInv /\ RunInv /\ LeaseInv /\ MoveInv

-----------------------------------------------------------------------------
(* How the operations move one record                                      *)

(* Keeping a record eases it, and easing composes.                         *)
LEMMA EasesSame ==
  ASSUME NEW j
  PROVE  Eases(j, j) /\ Hops(j, j)
BY DEF Eases, Hops, Same

LEMMA EasesTrans ==
  ASSUME NEW j, NEW k, NEW l, Eases(j, k), Eases(k, l)
  PROVE  Eases(j, l)
<1>1. Leases(l) \subseteq Leases(j) \cup {NoLease}
  BY DEF Eases
<1>. QED
  BY <1>1 DEF Eases

(* The moves of one call compose.                                          *)
LEMMA HopsTrans ==
  ASSUME NEW j, NEW k, NEW l, Hops(j, k), Hops(k, l)
  PROVE  Hops(j, l)
BY DEF Hops, Same, Crossed

(* Ending a job keeps its leases and gives out nothing (State::Terminal).  *)
LEMMA TerminalEases ==
  ASSUME NEW j \in JobType, j.st # "none", NEW out
  PROVE  /\ Eases(j, Terminal(j, out))
         /\ Live(j) => Hops(j, Terminal(j, out))
<1>1. j \in JobRecords
  BY JobForms
<1>2. /\ Terminal(j, out).st = "terminal" /\ Terminal(j, out).lease = j.lease
      /\ Terminal(j, out).superseded = j.superseded
  BY <1>1 DEF Terminal, JobRecords
<1>3. Eases(j, Terminal(j, out))
  BY <1>2 DEF Eases, Live, Holds, Tidy, Leases
<1>4. Live(j) => j.st = "queued" \/ j.st = "placed" \/ Crossed(j)
  BY <1>1 DEF Live, Crossed, JobRecords
<1>. QED
  BY <1>2, <1>3, <1>4 DEF Hops

(* Sending a placed job keeps its lease and its slot (State::Dispatched).  *)
LEMMA DispatchEases ==
  ASSUME NEW j \in JobType, j.st = "placed", NEW t
  PROVE  LET k == [j EXCEPT !.st = "dispatched", !.started = t, !.expires = 0, !.stop = FALSE]
         IN  Eases(j, k) /\ Hops(j, k)
<1>. DEFINE k == [j EXCEPT !.st = "dispatched", !.started = t, !.expires = 0, !.stop = FALSE]
<1>1. j \in JobRecords
  BY JobForms
<1>2. /\ k.st = "dispatched" /\ k.lease = j.lease /\ k.backend = j.backend
      /\ k.superseded = j.superseded /\ k.controller = j.controller
  BY <1>1 DEF JobRecords
<1>. HIDE DEF k
<1>3. Eases(j, k)
  BY <1>2 DEF Eases, Live, Holds, Tidy, Leases
<1>4. Hops(j, k)
  BY <1>2 DEF Hops, Crossed
<1>. QED
  BY <1>3, <1>4 DEF k

(* Sent work whose flags change keeps lease and slot.                      *)
LEMMA SentEases ==
  ASSUME NEW j \in JobType, Crossed(j), NEW k, Crossed(k),
         k.lease = j.lease, k.backend = j.backend, k.outcome = j.outcome,
         k.superseded = j.superseded, k.controller = j.controller
  PROVE  Eases(j, k) /\ Hops(j, k)
<1>1. Eases(j, k)
  BY DEF Eases, Live, Holds, Crossed, Tidy, Leases
<1>2. Hops(j, k)
  BY DEF Hops, Same
<1>. QED
  BY <1>1, <1>2

(* Recovery: an unsent placement goes back to the queue and its lease to   *)
(* the superseded ones, or ends; sent work becomes uncertain.              *)
LEMMA RecoveryEases ==
  ASSUME NEW j \in JobType
  PROVE  /\ Eases(j, RecoveredJob(j))
         /\ Crossed(j) => Crossed(RecoveredJob(j))
         /\ \/ Hops(j, RecoveredJob(j))
            \/ j.st = "placed" /\ RecoveredJob(j).st = "queued"
<1>1. CASE j.st = "placed"
  <2>1. j \in JobRecords
    BY <1>1, JobForms
  <2>2. /\ Requeued(j).st = "queued" /\ Requeued(j).lease = NoLease
        /\ Requeued(j).superseded = j.superseded \cup {j.lease}
    BY <2>1 DEF Requeued, JobRecords
  <2>3. Eases(j, Requeued(j))
    BY <1>1, <2>2 DEF Eases, Live, Holds, Tidy, Leases
  <2>4. Eases(j, Terminal(j, "not-sent")) /\ Hops(j, Terminal(j, "not-sent"))
    BY <1>1, TerminalEases DEF Live
  <2>5. RecoveredJob(j) = Terminal(j, "not-sent") \/ RecoveredJob(j) = Requeued(j)
    BY <1>1 DEF RecoveredJob
  <2>. QED
    BY <1>1, <2>2, <2>3, <2>4, <2>5 DEF Crossed
<1>2. CASE j.st = "dispatched"
  <2>1. j \in JobRecords
    BY <1>2, JobForms
  <2>. DEFINE k == [j EXCEPT !.st = "uncertain", !.stop = FALSE]
  <2>2. /\ k.st = "uncertain" /\ k.lease = j.lease /\ k.backend = j.backend
        /\ k.superseded = j.superseded /\ k.controller = j.controller
        /\ k.outcome = j.outcome
    BY <2>1 DEF JobRecords
  <2>3. RecoveredJob(j) = k
    BY <1>2 DEF RecoveredJob
  <2>. HIDE DEF k
  <2>. QED
    BY <1>2, <2>2, <2>3, SentEases DEF Crossed
<1>3. CASE j.st \notin {"placed", "dispatched"}
  BY <1>3, EasesSame DEF RecoveredJob, Crossed
<1>. QED
  BY <1>1, <1>2, <1>3

-----------------------------------------------------------------------------
(* How the operations move the core                                        *)

(* A core that keeps jobs and counters is calm; calm composes.             *)
LEMMA CalmsSame ==
  ASSUME NEW c, NEW d, NEW S, d.jobs = c.jobs, d.next = c.next,
         d.archived = c.archived, d.archivedDrained = c.archivedDrained
  PROVE  Calms(c, d, S) /\ Hopping(c, d)
BY EasesSame DEF Calms, Hopping

LEMMA CalmsTrans ==
  ASSUME NEW c, NEW d, NEW e, NEW S, Calms(c, d, S), Calms(d, e, {})
  PROVE  Calms(c, e, S)
BY EasesTrans DEF Calms

LEMMA HoppingTrans ==
  ASSUME NEW c, NEW d, NEW e, Hopping(c, d), Hopping(d, e)
  PROVE  Hopping(c, e)
BY HopsTrans DEF Hopping

(* Moving one record.                                                      *)
LEMMA CalmsOne ==
  ASSUME NEW c \in CoreType, NEW d, NEW S, NEW i \in Ids, NEW k,
         d.jobs = [c.jobs EXCEPT ![i] = k], d.next = c.next,
         d.archived = c.archived, d.archivedDrained = c.archivedDrained,
         Eases(c.jobs[i], k), Hops(c.jobs[i], k),
         i \in S \/ (Crossed(c.jobs[i]) => Crossed(k))
  PROVE  Calms(c, d, S) /\ Hopping(c, d)
<1>1. \A n \in Ids : d.jobs[n] = IF n = i THEN k ELSE c.jobs[n]
  BY DEF CoreType
<1>2. \A n \in Ids : Eases(c.jobs[n], d.jobs[n]) /\ Hops(c.jobs[n], d.jobs[n])
  BY <1>1, EasesSame
<1>3. \A n \in Ids \ S : Crossed(c.jobs[n]) => Crossed(d.jobs[n])
  BY <1>1
<1>. QED
  BY <1>2, <1>3 DEF Calms, Hopping

(* Ending jobs that were never sent.                                       *)
LEMMA RetireCalms ==
  ASSUME NEW c \in CoreType, NEW S, NEW out,
         \A i \in S \cap Ids : c.jobs[i].st \in {"queued", "placed"}
  PROVE  Calms(c, Retire(c, S, out), {}) /\ Hopping(c, Retire(c, S, out))
<1>. DEFINE d == Retire(c, S, out)
<1>1. /\ d.jobs = [i \in Ids |-> IF i \in S THEN Terminal(c.jobs[i], out) ELSE c.jobs[i]]
      /\ d.next = c.next /\ d.archived = c.archived
      /\ d.archivedDrained = c.archivedDrained
  BY DEF Retire, CoreType
<1>. HIDE DEF d
<1>2. ASSUME NEW n \in Ids
      PROVE  /\ Eases(c.jobs[n], d.jobs[n]) /\ Hops(c.jobs[n], d.jobs[n])
             /\ Crossed(c.jobs[n]) => Crossed(d.jobs[n])
  <2>1. CASE n \in S
    <3>1. c.jobs[n] \in JobType /\ c.jobs[n].st \in {"queued", "placed"}
      BY <2>1 DEF CoreType
    <3>2. c.jobs[n].st # "none" /\ Live(c.jobs[n]) /\ ~Crossed(c.jobs[n])
      BY <3>1 DEF Live, Crossed
    <3>. QED
      BY <1>1, <2>1, <3>1, <3>2, TerminalEases
  <2>2. CASE n \notin S
    BY <1>1, <2>2, EasesSame
  <2>. QED
    BY <2>1, <2>2
<1>. QED
  BY <1>1, <1>2 DEF Calms, Hopping, d

(* The expiry pass, and the floor.                                         *)
LEMMA ExpireCalms ==
  ASSUME NEW c \in CoreType, NEW t
  PROVE  Calms(c, Expire(c, t), {}) /\ Hopping(c, Expire(c, t))
BY RetireCalms DEF Expire

LEMMA AdvanceFloorCalms ==
  ASSUME NEW c \in CoreType, NEW S
  PROVE  Calms(c, AdvanceFloor(c), S) /\ Hopping(c, AdvanceFloor(c))
<1>1. /\ AdvanceFloor(c).archived = c.archived
      /\ AdvanceFloor(c).archivedDrained = c.archivedDrained
  BY DEF AdvanceFloor, CoreType
<1>. QED
  BY <1>1, AdvanceFloorType, CalmsSame

LEMMA TurnCalms ==
  ASSUME NEW c \in CoreType, NEW S
  PROVE  Calms(c, Turn(c), S) /\ Hopping(c, Turn(c))
BY AdvanceFloorCalms, CalmsSame DEF Turn

(* schedule() up to its first placement.                                   *)
LEMMA ScheduleCalms ==
  ASSUME NEW c \in CoreType, NEW t
  PROVE  /\ Calms(c, Turn(Expire(c, t)), {}) /\ Hopping(c, Turn(Expire(c, t)))
         /\ Turn(Expire(c, t)) \in CoreType
         /\ Turn(Expire(c, t)).jobs = Expire(c, t).jobs
BY ExpireCalms, ExpireType, TurnCalms, TurnType, CalmsTrans, HoppingTrans

LEMMA DispatchedCalms ==
  ASSUME NEW c \in CoreType, NEW i \in Ids, NEW t \in Nat, c.jobs[i].st = "placed"
  PROVE  Calms(c, Dispatched(c, i, t), {}) /\ Hopping(c, Dispatched(c, i, t))
<1>. DEFINE k == [c.jobs[i] EXCEPT !.st = "dispatched", !.started = t,
                                   !.expires = 0, !.stop = FALSE]
            d == Dispatched(c, i, t)
<1>1. /\ d.jobs = [c.jobs EXCEPT ![i] = k]
      /\ d.next = c.next /\ d.archived = c.archived
      /\ d.archivedDrained = c.archivedDrained
  BY DEF Dispatched, CoreType
<1>2. Eases(c.jobs[i], k) /\ Hops(c.jobs[i], k)
  BY DispatchEases DEF CoreType
<1>3. ~Crossed(c.jobs[i])
  BY DEF Crossed
<1>. HIDE DEF k, d
<1>4. Calms(c, d, {}) /\ Hopping(c, d)
  BY <1>1, <1>2, <1>3, CalmsOne
<1>. QED
  BY <1>4 DEF d

(* Completing i calms the core, and may end the execution of i only.       *)
LEMMA CompletedCalms ==
  ASSUME NEW c \in CoreType, NEW i \in Ids, NEW e, NEW out, Holds(c.jobs[i])
  PROVE  Calms(c, Completed(c, i, e, out), {i}) /\ Hopping(c, Completed(c, i, e, out))
<1>. DEFINE d == Completed(c, i, e, out)
<1>1. /\ d.jobs = [c.jobs EXCEPT ![i] = Terminal(c.jobs[i], out)]
      /\ d.next = c.next /\ d.archived = c.archived
      /\ d.archivedDrained = c.archivedDrained
  BY DEF Completed, CoreType
<1>2. c.jobs[i] \in JobType /\ c.jobs[i].st # "none" /\ Live(c.jobs[i])
  BY DEF CoreType, Holds, Live
<1>3. Eases(c.jobs[i], Terminal(c.jobs[i], out)) /\ Hops(c.jobs[i], Terminal(c.jobs[i], out))
  BY <1>2, TerminalEases
<1>. HIDE DEF d
<1>4. Calms(c, d, {i}) /\ Hopping(c, d)
  BY <1>1, <1>3, CalmsOne
<1>. QED
  BY <1>4 DEF d

LEMMA UnconfirmedCalms ==
  ASSUME NEW c \in CoreType, NEW i \in Ids, Crossed(c.jobs[i])
  PROVE  Calms(c, Unconfirmed(c, i), {}) /\ Hopping(c, Unconfirmed(c, i))
<1>. DEFINE k == [c.jobs[i] EXCEPT !.st = "uncertain", !.stop = FALSE]
            d == Unconfirmed(c, i)
<1>1. /\ d.jobs = [c.jobs EXCEPT ![i] = k]
      /\ d.next = c.next /\ d.archived = c.archived
      /\ d.archivedDrained = c.archivedDrained
  BY DEF Unconfirmed, CoreType
<1>2. c.jobs[i] \in JobType /\ c.jobs[i] \in JobRecords
  BY JobForms DEF CoreType, Crossed
<1>3. /\ k.st = "uncertain" /\ k.lease = c.jobs[i].lease /\ k.backend = c.jobs[i].backend
      /\ k.superseded = c.jobs[i].superseded /\ k.controller = c.jobs[i].controller
      /\ k.outcome = c.jobs[i].outcome
  BY <1>2 DEF JobRecords
<1>. HIDE DEF k, d
<1>4. Crossed(k)
  BY <1>3 DEF Crossed
<1>5. Eases(c.jobs[i], k) /\ Hops(c.jobs[i], k)
  BY <1>2, <1>3, <1>4, SentEases
<1>6. Calms(c, d, {}) /\ Hopping(c, d)
  BY <1>1, <1>4, <1>5, CalmsOne
<1>. QED
  BY <1>6 DEF d

LEMMA CancelledCalms ==
  ASSUME NEW c \in CoreType, NEW i \in Ids
  PROVE  Calms(c, Cancelled(c, i), {}) /\ Hopping(c, Cancelled(c, i))
<1>1. CASE c.jobs[i].st \in {"queued", "placed"}
  BY <1>1, RetireCalms DEF Cancelled
<1>2. CASE c.jobs[i].st = "dispatched"
  <2>. DEFINE k == [c.jobs[i] EXCEPT !.stop = TRUE]
              d == Cancelled(c, i)
  <2>1. /\ d.jobs = [c.jobs EXCEPT ![i] = k]
        /\ d.next = c.next /\ d.archived = c.archived
        /\ d.archivedDrained = c.archivedDrained
    BY <1>2 DEF Cancelled, CoreType
  <2>2. c.jobs[i] \in JobType /\ c.jobs[i] \in JobRecords
    BY <1>2, JobForms DEF CoreType
  <2>3. /\ k.st = c.jobs[i].st /\ k.lease = c.jobs[i].lease
        /\ k.backend = c.jobs[i].backend /\ k.superseded = c.jobs[i].superseded
        /\ k.controller = c.jobs[i].controller /\ k.outcome = c.jobs[i].outcome
    BY <2>2 DEF JobRecords
  <2>. HIDE DEF k, d
  <2>4. Crossed(c.jobs[i]) /\ Crossed(k)
    BY <1>2, <2>3 DEF Crossed
  <2>5. Eases(c.jobs[i], k) /\ Hops(c.jobs[i], k)
    BY <2>2, <2>3, <2>4, SentEases
  <2>6. Calms(c, d, {}) /\ Hopping(c, d)
    BY <2>1, <2>4, <2>5, CalmsOne
  <2>. QED
    BY <2>6 DEF d
<1>3. CASE c.jobs[i].st \notin {"queued", "placed", "dispatched"}
  BY <1>3, CalmsSame DEF Cancelled
<1>. QED
  BY <1>1, <1>2, <1>3

LEMMA DrainingCalms ==
  ASSUME NEW c \in CoreType, NEW enabled \in BOOLEAN
  PROVE  Calms(c, Draining(c, enabled), {}) /\ Hopping(c, Draining(c, enabled))
<1>. DEFINE d == [c EXCEPT !.draining = enabled]
<1>1. /\ d \in CoreType /\ d.jobs = c.jobs /\ d.next = c.next
      /\ d.archived = c.archived /\ d.archivedDrained = c.archivedDrained
  BY DEF CoreType
<1>. HIDE DEF d
<1>2. Calms(c, d, {}) /\ Hopping(c, d)
  BY <1>1, CalmsSame
<1>3. Draining(c, enabled) =
        IF enabled
        THEN Retire(d, {i \in Ids : d.jobs[i].st \in {"queued", "placed"}}, "drained")
        ELSE d
  BY DEF Draining, d
<1>4. Calms(d, Draining(c, enabled), {}) /\ Hopping(d, Draining(c, enabled))
  BY <1>1, <1>3, RetireCalms, CalmsSame
<1>. QED
  BY <1>2, <1>4, CalmsTrans, HoppingTrans

LEMMA ResolvedCalms ==
  ASSUME NEW c \in CoreType, NEW i \in Ids, NEW t \in Nat
  PROVE  Calms(c, Resolved(c, i, t), {i}) /\ Hopping(c, Resolved(c, i, t))
<1>1. CASE Crossed(c.jobs[i])
  BY <1>1, CompletedCalms DEF Resolved, Holds, Crossed
<1>2. CASE ~Crossed(c.jobs[i])
  BY <1>2, CalmsSame DEF Resolved
<1>. QED
  BY <1>1, <1>2

LEMMA RecoveredCalms ==
  ASSUME NEW c \in CoreType
  PROVE  /\ Calms(c, Recovered(c), {})
         /\ \A i \in Ids : \/ Hops(c.jobs[i], Recovered(c).jobs[i])
                           \/ /\ c.jobs[i].st = "placed"
                              /\ Recovered(c).jobs[i].st = "queued"
<1>1. /\ Recovered(c).jobs = [i \in Ids |-> RecoveredJob(c.jobs[i])]
      /\ Recovered(c).next = c.next /\ Recovered(c).archived = c.archived
      /\ Recovered(c).archivedDrained = c.archivedDrained
  BY DEF Recovered, CoreType
<1>2. \A i \in Ids : c.jobs[i] \in JobType
  BY DEF CoreType
<1>. QED
  BY <1>1, <1>2, RecoveryEases DEF Calms

-----------------------------------------------------------------------------
(* The bounds of a core                                                    *)

(* Sets of jobs are finite, and counted.                                   *)
LEMMA JobsFinite ==
  ASSUME NEW S \in SUBSET Ids
  PROVE  IsFiniteSet(S) /\ Cardinality(S) \in Nat
BY FS_Subset, FS_CardinalityType, ConfigAssumption

LEMMA FewerJobs ==
  ASSUME NEW S \in SUBSET Ids, NEW T, T \subseteq S
  PROVE  Cardinality(T) <= Cardinality(S) /\ Cardinality(T) \in Nat
BY JobsFinite, FS_Subset

LEMMA OneMoreJob ==
  ASSUME NEW S \in SUBSET Ids, NEW T, NEW i \in Ids, T \subseteq S \cup {i}
  PROVE  Cardinality(T) <= Cardinality(S) + 1 /\ Cardinality(T) \in Nat
<1>1. S \cup {i} \in SUBSET Ids
  OBVIOUS
<1>2. Cardinality(T) <= Cardinality(S \cup {i}) /\ Cardinality(T) \in Nat
  BY <1>1, FewerJobs
<1>3. Cardinality(S \cup {i}) = IF i \in S THEN Cardinality(S) ELSE Cardinality(S) + 1
  BY JobsFinite, FS_AddElement
<1>4. Cardinality(S) \in Nat
  BY JobsFinite
<1>. QED
  BY <1>2, <1>3, <1>4

(* A core that takes no slot and adds no live job stays within its bounds. *)
LEMMA BoundedFewer ==
  ASSUME NEW c, NEW d, Bounded(c),
         \A i \in Ids : /\ Live(d.jobs[i]) => Live(c.jobs[i])
                        /\ Holds(d.jobs[i]) => /\ Holds(c.jobs[i])
                                               /\ d.jobs[i].controller = c.jobs[i].controller
                                               /\ d.jobs[i].backend = c.jobs[i].backend
  PROVE  Bounded(d)
<1>1. ASSUME NEW g \in Groups PROVE Cardinality(Occupied(d, g)) <= Slots[g]
  <2>1. Occupied(d, g) \subseteq Occupied(c, g) /\ Occupied(c, g) \in SUBSET Ids
    BY DEF Occupied
  <2>2. Cardinality(Occupied(d, g)) <= Cardinality(Occupied(c, g))
    BY <2>1, FewerJobs
  <2>3. Cardinality(Occupied(c, g)) <= Slots[g] /\ Slots[g] \in Nat
    BY ConfigAssumption DEF Bounded
  <2>4. Cardinality(Occupied(c, g)) \in Nat /\ Cardinality(Occupied(d, g)) \in Nat
    BY <2>1, FewerJobs, JobsFinite
  <2>. QED
    BY <2>2, <2>3, <2>4
<1>2. ASSUME NEW p \in Principals PROVE Cardinality(ActiveOf(d, p)) <= MaxActive
  <2>1. ActiveOf(d, p) \subseteq ActiveOf(c, p) /\ ActiveOf(c, p) \in SUBSET Ids
    BY DEF ActiveOf, Principal
  <2>2. Cardinality(ActiveOf(d, p)) <= Cardinality(ActiveOf(c, p))
    BY <2>1, FewerJobs
  <2>3. Cardinality(ActiveOf(c, p)) <= MaxActive /\ MaxActive \in Nat
    BY ConfigAssumption DEF Bounded
  <2>4. Cardinality(ActiveOf(c, p)) \in Nat /\ Cardinality(ActiveOf(d, p)) \in Nat
    BY <2>1, FewerJobs, JobsFinite
  <2>. QED
    BY <2>2, <2>3, <2>4
<1>3. Cardinality(LiveIds(d)) <= MaxJobs
  <2>1. LiveIds(d) \subseteq LiveIds(c) /\ LiveIds(c) \in SUBSET Ids
    BY DEF LiveIds
  <2>2. Cardinality(LiveIds(d)) <= Cardinality(LiveIds(c))
    BY <2>1, FewerJobs
  <2>3. Cardinality(LiveIds(c)) <= MaxJobs /\ MaxJobs \in Nat
    BY ConfigAssumption DEF Bounded
  <2>4. Cardinality(LiveIds(c)) \in Nat /\ Cardinality(LiveIds(d)) \in Nat
    BY <2>1, FewerJobs, JobsFinite
  <2>. QED
    BY <2>2, <2>3, <2>4
<1>. QED
  BY <1>1, <1>2, <1>3 DEF Bounded

(* The shape of a placement: one record gets the next lease and a slot.    *)
LEMMA PlacedForm ==
  ASSUME NEW c \in CoreType, NEW i \in Ids, NEW b, NEW t, c.jobs[i].st = "queued"
  PROVE  /\ Placed(c, i, b, t).next = c.next + 1
         /\ Placed(c, i, b, t).archived = c.archived
         /\ Placed(c, i, b, t).archivedDrained = c.archivedDrained
         /\ \A n \in Ids \ {i} : Placed(c, i, b, t).jobs[n] = c.jobs[n]
         /\ Placed(c, i, b, t).jobs[i].st = "placed"
         /\ Placed(c, i, b, t).jobs[i].lease = c.next
         /\ Placed(c, i, b, t).jobs[i].backend = b
         /\ Placed(c, i, b, t).jobs[i].superseded = c.jobs[i].superseded
         /\ Placed(c, i, b, t).jobs[i].controller = c.jobs[i].controller
<1>. DEFINE k == [c.jobs[i] EXCEPT !.st = "placed", !.lease = c.next, !.backend = b,
                            !.est = Cost[<<c.jobs[i].body, b>>],
                            !.expires = Lower(t + LeaseMs, c.jobs[i].deadline)]
            d == Placed(c, i, b, t)
<1>1. /\ d.jobs = [c.jobs EXCEPT ![i] = k]
      /\ d.next = c.next + 1 /\ d.archived = c.archived
      /\ d.archivedDrained = c.archivedDrained
  BY DEF Placed, CoreType
<1>2. c.jobs[i] \in JobRecords
  BY JobForms DEF CoreType
<1>3. /\ k.st = "placed" /\ k.lease = c.next /\ k.backend = b
      /\ k.superseded = c.jobs[i].superseded /\ k.controller = c.jobs[i].controller
  BY <1>2 DEF JobRecords
<1>. HIDE DEF k
<1>4. \A n \in Ids : d.jobs[n] = IF n = i THEN k ELSE c.jobs[n]
  BY <1>1 DEF CoreType
<1>. HIDE DEF d
<1>5. /\ \A n \in Ids \ {i} : d.jobs[n] = c.jobs[n]
      /\ d.jobs[i] = k
  BY <1>4
<1>. QED
  BY <1>1, <1>3, <1>5 DEF d

(* An offer leaves room for its placement: slot and active bound hold      *)
(* afterwards (candidates, group, active).                                 *)
LEMMA PlacedBounded ==
  ASSUME NEW c \in CoreType, NEW ch \in Offers(c), NEW t \in Nat, Bounded(c)
  PROVE  Bounded(Placed(c, ch[1], ch[2], t))
<1>. DEFINE i == ch[1]
            b == ch[2]
            d == Placed(c, i, b, t)
<1>1. /\ i \in Ids /\ b \in Backends /\ c.jobs[i].st = "queued"
      /\ Cardinality(ActiveOf(c, Principal(c.jobs[i]))) < MaxActive
      /\ b \in Feasible(c, i)
  BY DEF Offers
<1>2. Cardinality(Occupied(c, GroupOf[b])) < Slots[GroupOf[b]]
  BY <1>1 DEF Feasible
<1>3. /\ \A n \in Ids \ {i} : d.jobs[n] = c.jobs[n]
      /\ d.jobs[i].st = "placed" /\ d.jobs[i].backend = b
      /\ d.jobs[i].controller = c.jobs[i].controller
  BY <1>1, PlacedForm
<1>. HIDE DEF d, i, b
<1>4. ASSUME NEW g \in Groups PROVE Cardinality(Occupied(d, g)) <= Slots[g]
  <2>1. Occupied(c, g) \in SUBSET Ids
    BY DEF Occupied
  <2>2. Cardinality(Occupied(c, g)) <= Slots[g] /\ Slots[g] \in Nat
    BY ConfigAssumption DEF Bounded
  <2>3. Cardinality(Occupied(c, g)) \in Nat
    BY <2>1, JobsFinite
  <2>4. CASE g = GroupOf[b]
    <3>1. Occupied(d, g) \subseteq Occupied(c, g) \cup {i}
      BY <1>3 DEF Occupied
    <3>2. Cardinality(Occupied(d, g)) <= Cardinality(Occupied(c, g)) + 1
          /\ Cardinality(Occupied(d, g)) \in Nat
      BY <1>1, <2>1, <3>1, OneMoreJob
    <3>. QED
      BY <1>2, <2>2, <2>3, <2>4, <3>2
  <2>5. CASE g # GroupOf[b]
    <3>1. Occupied(d, g) \subseteq Occupied(c, g)
      BY <1>3, <2>5 DEF Occupied
    <3>2. Cardinality(Occupied(d, g)) <= Cardinality(Occupied(c, g))
          /\ Cardinality(Occupied(d, g)) \in Nat
      BY <2>1, <3>1, FewerJobs
    <3>. QED
      BY <2>2, <2>3, <3>2
  <2>. QED
    BY <2>4, <2>5
<1>5. ASSUME NEW p \in Principals PROVE Cardinality(ActiveOf(d, p)) <= MaxActive
  <2>1. ActiveOf(c, p) \in SUBSET Ids
    BY DEF ActiveOf
  <2>2. Cardinality(ActiveOf(c, p)) <= MaxActive /\ MaxActive \in Nat
    BY ConfigAssumption DEF Bounded
  <2>3. Cardinality(ActiveOf(c, p)) \in Nat
    BY <2>1, JobsFinite
  <2>4. CASE p = Principal(c.jobs[i])
    <3>1. ActiveOf(d, p) \subseteq ActiveOf(c, p) \cup {i}
      BY <1>3 DEF ActiveOf
    <3>2. Cardinality(ActiveOf(d, p)) <= Cardinality(ActiveOf(c, p)) + 1
          /\ Cardinality(ActiveOf(d, p)) \in Nat
      BY <1>1, <2>1, <3>1, OneMoreJob
    <3>. QED
      BY <1>1, <2>2, <2>3, <2>4, <3>2
  <2>5. CASE p # Principal(c.jobs[i])
    <3>1. ActiveOf(d, p) \subseteq ActiveOf(c, p)
      BY <1>3, <2>5 DEF ActiveOf, Principal
    <3>2. Cardinality(ActiveOf(d, p)) <= Cardinality(ActiveOf(c, p))
          /\ Cardinality(ActiveOf(d, p)) \in Nat
      BY <2>1, <3>1, FewerJobs
    <3>. QED
      BY <2>2, <2>3, <3>2
  <2>. QED
    BY <2>4, <2>5
<1>6. Cardinality(LiveIds(d)) <= MaxJobs
  <2>1. LiveIds(d) \subseteq LiveIds(c) /\ LiveIds(c) \in SUBSET Ids
    BY <1>1, <1>3 DEF LiveIds, Live
  <2>2. Cardinality(LiveIds(d)) <= Cardinality(LiveIds(c)) /\ Cardinality(LiveIds(d)) \in Nat
    BY <2>1, FewerJobs
  <2>3. Cardinality(LiveIds(c)) <= MaxJobs /\ MaxJobs \in Nat
    BY ConfigAssumption DEF Bounded
  <2>4. Cardinality(LiveIds(c)) \in Nat
    BY <2>1, JobsFinite
  <2>. QED
    BY <2>2, <2>3, <2>4
<1>7. Bounded(d)
  BY <1>4, <1>5, <1>6 DEF Bounded
<1>. QED
  BY <1>7 DEF d, i, b

(* The shape of an admission.                                              *)
LEMMA AdmittedForm ==
  ASSUME NEW c \in CoreType, NEW ctl, NEW i \in Ids, NEW body, NEW t
  PROVE  /\ Admitted(c, ctl, i, body, t).next = c.next + 1
         /\ Admitted(c, ctl, i, body, t).archived = c.archived
         /\ Admitted(c, ctl, i, body, t).archivedDrained = c.archivedDrained
         /\ \A n \in Ids \ {i} : Admitted(c, ctl, i, body, t).jobs[n] = c.jobs[n]
         /\ Admitted(c, ctl, i, body, t).jobs[i].st = "queued"
         /\ Admitted(c, ctl, i, body, t).jobs[i].lease = NoLease
         /\ Admitted(c, ctl, i, body, t).jobs[i].superseded = {}
         /\ Admitted(c, ctl, i, body, t).jobs[i].deadline = t
<1>. DEFINE d == Admitted(c, ctl, i, body, t)
            j == Job(ctl, body, t, c.next)
            s == [c EXCEPT !.next = @ + 1]
            e == AdvanceFloor(s)
<1>1. /\ s \in CoreType /\ s.jobs = c.jobs /\ s.next = c.next + 1
      /\ s.archived = c.archived /\ s.archivedDrained = c.archivedDrained
  BY DEF CoreType
<1>. HIDE DEF s
<1>2. /\ e \in CoreType /\ e.jobs = c.jobs /\ e.next = c.next + 1
  BY <1>1, AdvanceFloorType
<1>3. e.archived = c.archived /\ e.archivedDrained = c.archivedDrained
  BY <1>1, AdvanceFloorCalms DEF Calms
<1>. HIDE DEF e
<1>4. d = [e EXCEPT !.service[PrincipalOf[ctl]] =
                        IF PrincipalOf[ctl] \in Members(e) THEN @ ELSE Higher(@, e.floor),
                    !.jobs[i] = j]
  BY DEF Admitted, e, s
<1>. HIDE DEF j
<1>5. /\ d.jobs = [c.jobs EXCEPT ![i] = j] /\ d.next = c.next + 1
      /\ d.archived = c.archived /\ d.archivedDrained = c.archivedDrained
  BY <1>2, <1>3, <1>4 DEF CoreType
<1>. HIDE DEF d
<1>6. \A n \in Ids : d.jobs[n] = IF n = i THEN j ELSE c.jobs[n]
  BY <1>5 DEF CoreType
<1>7. /\ j.st = "queued" /\ j.lease = NoLease /\ j.superseded = {} /\ j.deadline = t
  BY DEF j, Job, NoJob
<1>8. /\ \A n \in Ids \ {i} : d.jobs[n] = c.jobs[n]
      /\ d.jobs[i] = j
  BY <1>6
<1>. QED
  BY <1>5, <1>7, <1>8 DEF d

(* Admission checks the bound on live jobs first.                          *)
LEMMA AdmittedBounded ==
  ASSUME NEW c \in CoreType, NEW ctl, NEW i \in Ids, NEW body, NEW t, Bounded(c),
         Cardinality(LiveIds(c)) < MaxJobs
  PROVE  Bounded(Admitted(c, ctl, i, body, t))
<1>. DEFINE d == Admitted(c, ctl, i, body, t)
<1>1. /\ \A n \in Ids \ {i} : d.jobs[n] = c.jobs[n]
      /\ d.jobs[i].st = "queued"
  BY AdmittedForm
<1>. HIDE DEF d
<1>2. ASSUME NEW g \in Groups PROVE Cardinality(Occupied(d, g)) <= Slots[g]
  <2>1. Occupied(d, g) \subseteq Occupied(c, g) /\ Occupied(c, g) \in SUBSET Ids
    BY <1>1 DEF Occupied, Holds
  <2>2. Cardinality(Occupied(d, g)) <= Cardinality(Occupied(c, g))
        /\ Cardinality(Occupied(d, g)) \in Nat
    BY <2>1, FewerJobs
  <2>3. Cardinality(Occupied(c, g)) <= Slots[g] /\ Slots[g] \in Nat
    BY ConfigAssumption DEF Bounded
  <2>4. Cardinality(Occupied(c, g)) \in Nat
    BY <2>1, JobsFinite
  <2>. QED
    BY <2>2, <2>3, <2>4
<1>3. ASSUME NEW p \in Principals PROVE Cardinality(ActiveOf(d, p)) <= MaxActive
  <2>1. ActiveOf(d, p) \subseteq ActiveOf(c, p) /\ ActiveOf(c, p) \in SUBSET Ids
    BY <1>1 DEF ActiveOf, Holds
  <2>2. Cardinality(ActiveOf(d, p)) <= Cardinality(ActiveOf(c, p))
        /\ Cardinality(ActiveOf(d, p)) \in Nat
    BY <2>1, FewerJobs
  <2>3. Cardinality(ActiveOf(c, p)) <= MaxActive /\ MaxActive \in Nat
    BY ConfigAssumption DEF Bounded
  <2>4. Cardinality(ActiveOf(c, p)) \in Nat
    BY <2>1, JobsFinite
  <2>. QED
    BY <2>2, <2>3, <2>4
<1>4. Cardinality(LiveIds(d)) <= MaxJobs
  <2>1. LiveIds(d) \subseteq LiveIds(c) \cup {i} /\ LiveIds(c) \in SUBSET Ids
    BY <1>1 DEF LiveIds
  <2>2. Cardinality(LiveIds(d)) <= Cardinality(LiveIds(c)) + 1 /\ Cardinality(LiveIds(d)) \in Nat
    BY <2>1, OneMoreJob
  <2>3. Cardinality(LiveIds(c)) \in Nat /\ MaxJobs \in Nat
    BY <2>1, JobsFinite, ConfigAssumption
  <2>. QED
    BY <2>2, <2>3
<1>5. Bounded(d)
  BY <1>2, <1>3, <1>4 DEF Bounded
<1>. QED
  BY <1>5 DEF d

-----------------------------------------------------------------------------
(* Leases and moves                                                        *)

(* What gives out nothing keeps the numbering.                             *)
LEMMA NumberedCalms ==
  ASSUME NEW c \in CoreType, NEW d, NEW S, Numbered(c), Calms(c, d, S)
  PROVE  Numbered(d)
<1>1. ASSUME NEW i \in Ids
      PROVE  /\ Tidy(Record(d, i))
             /\ Leases(Record(d, i)) \subseteq Leases(Record(c, i)) \cup {NoLease}
  <2>1. Eases(c.jobs[i], d.jobs[i]) /\ Tidy(Record(c, i))
    BY DEF Calms, Numbered
  <2>. QED
    BY <2>1 DEF Record, Eases
<1>2. NoLease < c.next /\ d.next = c.next
  BY DEF Numbered, Calms
<1>3. \A i \in Ids : Leases(Record(d, i)) \subseteq NoLease..(d.next - 1)
  <2>1. NoLease \in NoLease..(d.next - 1)
    BY <1>2 DEF NoLease, CoreType
  <2>. QED
    BY <1>1, <1>2, <2>1 DEF Numbered
<1>4. ASSUME NEW i \in Ids, NEW k \in Ids, i # k
      PROVE  Leases(Record(d, i)) \cap Leases(Record(d, k)) \subseteq {NoLease}
  <2>1. Leases(Record(c, i)) \cap Leases(Record(c, k)) \subseteq {NoLease}
    BY <1>4 DEF Numbered
  <2>. QED
    BY <1>1, <2>1
<1>. QED
  BY <1>1, <1>2, <1>3, <1>4 DEF Numbered

(* The records decide, not where they are kept.                            *)
LEMMA NumberedRecords ==
  ASSUME NEW c, NEW d, Numbered(c), d.next = c.next,
         \A i \in Ids : Record(d, i) = Record(c, i)
  PROVE  Numbered(d)
BY DEF Numbered

(* A placement carries the next serial as its lease.                       *)
LEMMA PlacedNumbered ==
  ASSUME NEW c \in CoreType, NEW i \in Ids, NEW b, NEW t, c.jobs[i].st = "queued",
         Numbered(c)
  PROVE  Numbered(Placed(c, i, b, t))
<1>. DEFINE d == Placed(c, i, b, t)
<1>1. /\ d.next = c.next + 1
      /\ \A n \in Ids \ {i} : d.jobs[n] = c.jobs[n]
      /\ d.jobs[i].st = "placed" /\ d.jobs[i].lease = c.next
      /\ d.jobs[i].superseded = c.jobs[i].superseded
  BY PlacedForm
<1>. HIDE DEF d
<1>2. \A n \in Ids \ {i} : Record(d, n) = Record(c, n)
  BY <1>1 DEF Record
<1>3. /\ Record(c, i).superseded = c.jobs[i].superseded
      /\ Record(d, i).superseded = c.jobs[i].superseded /\ Record(d, i).lease = c.next
  BY <1>1 DEF Record
<1>4. c.next \in Nat /\ NoLease < c.next
  BY DEF CoreType, Numbered
<1>5. \A n \in Ids : Leases(Record(c, n)) \subseteq NoLease..(c.next - 1)
  BY DEF Numbered
<1>6. \A n \in Ids : c.next \notin Leases(Record(c, n))
  BY <1>4, <1>5 DEF NoLease
<1>7. Leases(Record(d, i)) = {c.next} \cup Record(c, i).superseded
  BY <1>3 DEF Leases
<1>8. Tidy(Record(d, i))
  <2>1. NoLease \notin Record(c, i).superseded /\ c.next \notin Record(c, i).superseded
    BY <1>6 DEF Numbered, Tidy, Leases
  <2>2. c.next # NoLease
    BY <1>4 DEF NoLease
  <2>. QED
    BY <1>3, <2>1, <2>2 DEF Tidy
<1>9. /\ Leases(Record(d, i)) \subseteq Leases(Record(c, i)) \cup {c.next}
      /\ \A n \in Ids \ {i} : Leases(Record(d, n)) = Leases(Record(c, n))
  BY <1>2, <1>7 DEF Leases
<1>10. \A n \in Ids : Leases(Record(d, n)) \subseteq NoLease..(d.next - 1)
  <2>1. NoLease..(c.next - 1) \subseteq NoLease..(d.next - 1) /\ c.next \in NoLease..(d.next - 1)
    BY <1>1, <1>4 DEF NoLease
  <2>. QED
    BY <1>5, <1>9, <2>1
<1>11. ASSUME NEW n \in Ids, NEW m \in Ids, n # m
       PROVE  Leases(Record(d, n)) \cap Leases(Record(d, m)) \subseteq {NoLease}
  <2>1. Leases(Record(c, n)) \cap Leases(Record(c, m)) \subseteq {NoLease}
    BY <1>11 DEF Numbered
  <2>2. CASE n = i
    BY <1>6, <1>9, <1>11, <2>1, <2>2
  <2>3. CASE m = i
    BY <1>6, <1>9, <1>11, <2>1, <2>3
  <2>. QED
    BY <1>9, <2>1, <2>2, <2>3
<1>12. \A n \in Ids : Tidy(Record(d, n))
  BY <1>2, <1>8 DEF Numbered
<1>13. NoLease < d.next
  BY <1>1, <1>4 DEF NoLease
<1>14. Numbered(d)
  BY <1>10, <1>11, <1>12, <1>13 DEF Numbered
<1>. QED
  BY <1>14 DEF d

(* A new job has no lease.                                                 *)
LEMMA AdmittedNumbered ==
  ASSUME NEW c \in CoreType, NEW ctl, NEW i \in Ids, NEW body, NEW t, Numbered(c)
  PROVE  Numbered(Admitted(c, ctl, i, body, t))
<1>. DEFINE d == Admitted(c, ctl, i, body, t)
<1>1. /\ d.next = c.next + 1
      /\ \A n \in Ids \ {i} : d.jobs[n] = c.jobs[n]
      /\ d.jobs[i].st = "queued" /\ d.jobs[i].lease = NoLease /\ d.jobs[i].superseded = {}
  BY AdmittedForm
<1>. HIDE DEF d
<1>2. \A n \in Ids \ {i} : Record(d, n) = Record(c, n)
  BY <1>1 DEF Record
<1>3. Record(d, i) = d.jobs[i]
  BY <1>1 DEF Record
<1>4. c.next \in Nat /\ NoLease < c.next
  BY DEF CoreType, Numbered
<1>5. Leases(Record(d, i)) = {NoLease} /\ Tidy(Record(d, i))
  BY <1>1, <1>3 DEF Leases, Tidy, Holds
<1>6. NoLease..(c.next - 1) \subseteq NoLease..(d.next - 1) /\ NoLease \in NoLease..(d.next - 1)
  BY <1>1, <1>4 DEF NoLease
<1>7. NoLease < d.next
  BY <1>1, <1>4 DEF NoLease
<1>8. \A n \in Ids : Tidy(Record(d, n)) /\ Leases(Record(d, n)) \subseteq NoLease..(d.next - 1)
  BY <1>2, <1>5, <1>6 DEF Numbered
<1>9. \A n, m \in Ids : n # m =>
        Leases(Record(d, n)) \cap Leases(Record(d, m)) \subseteq {NoLease}
  BY <1>2, <1>5 DEF Numbered
<1>10. Numbered(d)
  BY <1>7, <1>8, <1>9 DEF Numbered
<1>. QED
  BY <1>10 DEF d

(* A permission whose job is not reported over still runs.                 *)
LEMMA RunsCalms ==
  ASSUME NEW c, NEW d, NEW S, Calms(c, d, S), NEW r, Runs(c, r), r[1] \in Ids \ S
  PROVE  Runs(d, r)
BY DEF Calms, Runs, Eases, Crossed, Holds

(* Placement leaves what runs alone.                                       *)
LEMMA RunsPlaced ==
  ASSUME NEW c \in CoreType, NEW i \in Ids, NEW b, NEW t, c.jobs[i].st = "queued",
         NEW r, Runs(c, r), r[1] \in Ids
  PROVE  Runs(Placed(c, i, b, t), r)
<1>1. r[1] # i
  BY DEF Runs, Crossed
<1>. QED
  BY <1>1, PlacedForm DEF Runs

(* One more operation moves a durable record along, unless the call has    *)
(* just admitted it.                                                       *)
LEMMA MovedHops ==
  ASSUME NEW j, NEW k, NEW l, NEW hi, Moved(j, k, hi), Hops(k, l),
         j.st = "none" => k.st = "none" \/ l = k
  PROVE  Moved(j, l, hi)
BY DEF Moved, Hops, Same, Crossed

(* A later serial allows the same moves.                                   *)
LEMMA MovedLater ==
  ASSUME NEW j, NEW k, NEW hi \in Nat, Moved(j, k, hi), k.lease \in Nat
  PROVE  Moved(j, k, hi + 1)
BY DEF Moved

-----------------------------------------------------------------------------
(* What the candidate of a call keeps                                      *)

(* The part of the invariant that speaks of one core.                      *)
Fit(c) ==
  /\ Bounded(c) /\ Numbered(c)
  /\ c.archived = disk.archived /\ c.archivedDrained = disk.archivedDrained
  /\ disk.next <= c.next
  /\ \A i \in Ids : Moved(Durable(i), Record(c, i), c.next)

(* The core has admitted nothing that the files do not know.               *)
Unborn(c) == \A i \in Ids : Durable(i).st = "none" => Record(c, i).st = "none"

LEMMA FitDisk ==
  ASSUME TypeOK, Bounded(disk), Numbered(disk)
  PROVE  Fit(disk) /\ Unborn(disk)
<1>1. disk.next <= disk.next
  BY DEF TypeOK, CoreType
<1>2. \A i \in Ids : Moved(Durable(i), Record(disk, i), disk.next)
  BY EasesSame DEF Durable, Moved
<1>. QED
  BY <1>1, <1>2 DEF Fit, Unborn, Durable

LEMMA BoundedUnchanged ==
  ASSUME NEW c, Bounded(c), c = cand'
  PROVE  Bounded(cand)'
BY DEF Bounded, Occupied, ActiveOf, LiveIds

LEMMA FitUnchanged ==
  ASSUME NEW c, Fit(c), UNCHANGED <<disk, archive>>, c = cand'
  PROVE  Fit(cand)'
<1>1. Bounded(cand)'
  BY BoundedUnchanged DEF Fit
<1>2. Numbered(cand)'
  BY DEF Fit, Numbered, Record
<1>. QED
  BY <1>1, <1>2 DEF Fit, Moved, Durable, Record

LEMMA UnbornUnchanged ==
  ASSUME NEW c, Unborn(c), UNCHANGED <<disk, archive>>, c = cand'
  PROVE  Unborn(cand)'
BY DEF Unborn, Durable, Record

(* An operation that gives out nothing keeps a core fit.                   *)
LEMMA FitCalms ==
  ASSUME NEW c \in CoreType, NEW d \in CoreType, NEW S, Fit(c),
         Calms(c, d, S), Hopping(c, d),
         \A i \in Ids : Durable(i).st = "none" =>
                          Record(c, i).st = "none" \/ d.jobs[i] = c.jobs[i]
  PROVE  Fit(d)
<1>1. Bounded(d)
  BY BoundedFewer DEF Fit, Calms, Eases
<1>2. Numbered(d)
  BY NumberedCalms DEF Fit
<1>3. ASSUME NEW i \in Ids PROVE Moved(Durable(i), Record(d, i), c.next)
  <2>1. Hops(c.jobs[i], d.jobs[i]) /\ Eases(c.jobs[i], d.jobs[i])
    BY DEF Hopping, Calms
  <2>2. Hops(Record(c, i), Record(d, i))
    BY <2>1, EasesSame DEF Record, Eases
  <2>3. d.jobs[i] = c.jobs[i] => Record(d, i) = Record(c, i)
    BY DEF Record
  <2>4. Moved(Durable(i), Record(c, i), c.next)
    BY DEF Fit
  <2>. QED
    BY <2>2, <2>3, <2>4, MovedHops
<1>. QED
  BY <1>1, <1>2, <1>3 DEF Fit, Calms

LEMMA UnbornCalms ==
  ASSUME NEW c, NEW d, NEW S, Unborn(c), Calms(c, d, S)
  PROVE  Unborn(d)
BY DEF Unborn, Calms, Eases, Record

(* So does schedule() before its first placement.                          *)
LEMMA FitSchedule ==
  ASSUME NEW c \in CoreType, NEW t, Fit(c), Unborn(c)
  PROVE  Fit(Turn(Expire(c, t))) /\ Unborn(Turn(Expire(c, t)))
BY ScheduleCalms, FitCalms, UnbornCalms DEF Unborn

(* A placement under the next lease keeps a core fit.                      *)
LEMMA FitPlaced ==
  ASSUME NEW c \in CoreType, NEW ch \in Offers(c), NEW t \in Nat, Fit(c), disk.next \in Nat
  PROVE  Fit(Placed(c, ch[1], ch[2], t))
<1>. DEFINE i == ch[1]
            b == ch[2]
            d == Placed(c, i, b, t)
<1>1. i \in Ids /\ b \in Backends /\ c.jobs[i].st = "queued"
  BY DEF Offers
<1>2. Bounded(d)
  BY PlacedBounded DEF Fit
<1>. HIDE DEF i, b
<1>3. Numbered(d)
  BY <1>1, PlacedNumbered DEF Fit
<1>4. /\ d.next = c.next + 1 /\ d.archived = c.archived
      /\ d.archivedDrained = c.archivedDrained
      /\ \A n \in Ids \ {i} : d.jobs[n] = c.jobs[n]
      /\ d.jobs[i].st = "placed" /\ d.jobs[i].lease = c.next
  BY <1>1, PlacedForm
<1>. HIDE DEF d
<1>5. c.next \in Nat /\ disk.next <= c.next
  BY DEF CoreType, Fit
<1>6. \A n \in Ids : Moved(Durable(n), Record(c, n), c.next)
  BY DEF Fit
<1>7. Moved(Durable(i), Record(d, i), d.next)
  <2>1. Record(c, i) = c.jobs[i] /\ Record(d, i) = d.jobs[i]
    BY <1>1, <1>4 DEF Record
  <2>2. Durable(i).st \in {"none", "queued"}
    BY <1>1, <1>6, <2>1 DEF Moved, Hops, Same, Crossed
  <2>3. disk.next <= d.jobs[i].lease /\ d.jobs[i].lease < d.next
    BY <1>4, <1>5
  <2>. QED
    BY <1>4, <2>1, <2>2, <2>3 DEF Moved
<1>8. ASSUME NEW n \in Ids \ {i} PROVE Moved(Durable(n), Record(d, n), d.next)
  <2>1. Record(d, n) = Record(c, n)
    BY <1>4 DEF Record
  <2>2. Record(c, n).lease \in NoLease..(c.next - 1)
    BY DEF Fit, Numbered, Leases
  <2>3. Record(c, n).lease \in Nat
    BY <1>5, <2>2 DEF NoLease
  <2>. QED
    BY <1>4, <1>5, <1>6, <2>1, <2>3, MovedLater
<1>9. disk.next <= d.next
  BY <1>4, <1>5
<1>10. Fit(d)
  BY <1>2, <1>3, <1>4, <1>7, <1>8, <1>9 DEF Fit
<1>. QED
  BY <1>10 DEF d, i, b

(* Looking up a receipt changes no record and no bound.                    *)
LEMMA FitAddressed ==
  ASSUME TypeOK, ArchiveInv, Fit(cand), Unborn(cand), NEW i \in Ids
  PROVE  /\ Fit(Addressed(i)) /\ Unborn(Addressed(i))
         /\ \A r \in running : Runs(cand, r) => Runs(Addressed(i), r)
<1>. DEFINE d == Addressed(i)
<1>1. /\ d.next = cand.next /\ d.archived = cand.archived
      /\ d.archivedDrained = cand.archivedDrained
      /\ \A n \in Ids : d.jobs[n] = IF n = i THEN Record(cand, i) ELSE cand.jobs[n]
  BY DEF Addressed, Record, TypeOK, CoreType
<1>2. \A n \in Ids : Record(d, n) = Record(cand, n)
  BY <1>1 DEF Record
<1>3. \A n \in Ids : \/ d.jobs[n] = cand.jobs[n]
                     \/ d.jobs[n].st \in {"none", "terminal"}
  BY <1>1 DEF Record, ArchiveInv
<1>. HIDE DEF d
<1>4. Bounded(d)
  BY <1>3, BoundedFewer DEF Fit, Live, Holds
<1>5. Numbered(d)
  BY <1>1, <1>2, NumberedRecords DEF Fit
<1>6. Fit(d) /\ Unborn(d)
  BY <1>1, <1>2, <1>4, <1>5 DEF Fit, Unborn
<1>7. ASSUME NEW r \in running, Runs(cand, r) PROVE Runs(d, r)
  <2>1. r[1] \in Ids
    BY DEF TypeOK, Permissions
  <2>2. d.jobs[r[1]] = cand.jobs[r[1]]
    BY <1>1, <1>7, <2>1 DEF Record, Runs, Crossed
  <2>. QED
    BY <1>7, <2>2 DEF Runs
<1>. QED
  BY <1>6, <1>7 DEF d

(* Admission of an identity nobody knows keeps a core fit.                 *)
LEMMA FitAdmitted ==
  ASSUME NEW c \in CoreType, Fit(c), disk.next \in Nat,
         NEW ctl, NEW i \in Ids, NEW body, NEW t,
         c.jobs[i].st = "none", archive[i].st = "none",
         Cardinality(LiveIds(c)) < MaxJobs
  PROVE  Fit(Admitted(c, ctl, i, body, t))
<1>. DEFINE d == Admitted(c, ctl, i, body, t)
<1>1. Bounded(d)
  BY AdmittedBounded DEF Fit
<1>2. Numbered(d)
  BY AdmittedNumbered DEF Fit
<1>3. /\ d.next = c.next + 1 /\ d.archived = c.archived
      /\ d.archivedDrained = c.archivedDrained
      /\ \A n \in Ids \ {i} : d.jobs[n] = c.jobs[n]
      /\ d.jobs[i].st = "queued"
  BY AdmittedForm
<1>. HIDE DEF d
<1>4. c.next \in Nat /\ disk.next <= c.next
  BY DEF CoreType, Fit
<1>5. \A n \in Ids : Moved(Durable(n), Record(c, n), c.next)
  BY DEF Fit
<1>6. Moved(Durable(i), Record(d, i), d.next)
  <2>1. Record(c, i).st = "none" /\ Record(d, i).st = "queued"
    BY <1>3 DEF Record
  <2>2. Durable(i).st = "none"
    BY <1>5, <2>1 DEF Moved, Hops, Same, Crossed
  <2>. QED
    BY <2>1, <2>2 DEF Moved
<1>7. ASSUME NEW n \in Ids \ {i} PROVE Moved(Durable(n), Record(d, n), d.next)
  <2>1. Record(d, n) = Record(c, n)
    BY <1>3 DEF Record
  <2>2. Record(c, n).lease \in NoLease..(c.next - 1)
    BY DEF Fit, Numbered, Leases
  <2>3. Record(c, n).lease \in Nat
    BY <1>4, <2>2 DEF NoLease
  <2>. QED
    BY <1>3, <1>4, <1>5, <2>1, <2>3, MovedLater
<1>8. disk.next <= d.next
  BY <1>3, <1>4
<1>9. Fit(d)
  BY <1>1, <1>2, <1>3, <1>6, <1>7, <1>8 DEF Fit
<1>. QED
  BY <1>9 DEF d

(* A job that is not yet due survives the expiry pass of its own enqueue.  *)
LEMMA NotDue ==
  ASSUME NEW c \in CoreType, NEW i \in Ids, NEW t \in Nat,
         c.jobs[i].st = "queued", c.jobs[i].deadline > t
  PROVE  Turn(Expire(c, t)).jobs[i] = c.jobs[i]
<1>. DEFINE S == {n \in Ids : \/ c.jobs[n].st = "queued" /\ c.jobs[n].deadline <= t
                              \/ c.jobs[n].st = "placed" /\ c.jobs[n].expires <= t}
<1>1. c.jobs[i].deadline \in Nat
  BY JobForms DEF CoreType, JobRecords
<1>2. i \notin S
  BY <1>1
<1>. HIDE DEF S
<1>3. Expire(c, t) = Retire(c, S, "expired")
  BY DEF Expire, S
<1>4. Retire(c, S, "expired").jobs[i] = c.jobs[i]
  BY <1>2 DEF Retire, CoreType
<1>. QED
  BY <1>3, <1>4, ScheduleCalms

-----------------------------------------------------------------------------
(* The steps                                                               *)

(* The counters of the archive, where the files stay as they are.          *)
LEMMA CountUnchanged ==
  ASSUME CountInv, UNCHANGED <<disk, archive>>,
         pc' # "down" => pc # "down" /\ UNCHANGED <<receipts, drained>>,
         pc' # "poisoned" => /\ cand'.archived = disk.archived
                             /\ cand'.archivedDrained = disk.archivedDrained
  PROVE  CountInv'
<1>1. Archived' = Archived /\ DrainedReceipts' = DrainedReceipts
  BY DEF Archived, DrainedReceipts
<1>. QED
  BY <1>1 DEF CountInv

LEMMA SizeUnchanged ==
  ASSUME SizeInv, UNCHANGED disk, core' \in {core, disk}, Bounded(cand)'
  PROVE  SizeInv'
<1>1. Bounded(disk)' /\ Bounded(core)'
  BY DEF SizeInv, Bounded, Occupied, ActiveOf, LiveIds
<1>. QED
  BY <1>1 DEF SizeInv

LEMMA DiskNumbered ==
  ASSUME Numbered(disk), UNCHANGED <<disk, archive>>
  PROVE  Numbered(disk)'
BY DEF Numbered, Record

(* A step of a call to a fit candidate.                                    *)
LEMMA BookCall ==
  ASSUME BookInv, NEW d, cand' = d, Fit(d),
         pc \in {"idle", "schedule", "reschedule"},
         pc' = "reschedule" \/ (pc' = "schedule" /\ Unborn(d)),
         UNCHANGED <<disk, archive, core, receipts, drained>>,
         running' \subseteq running, \A r \in running' : Runs(d, r),
         asked' # NoAsk => Runs(d, asked')
  PROVE  BookInv'
<1>1. Fit(cand)' /\ (pc' = "schedule" => Unborn(cand)')
  BY FitUnchanged, UnbornUnchanged
<1>2. CountInv'
  BY CountUnchanged DEF BookInv, Fit
<1>3. SizeInv'
  BY <1>1, SizeUnchanged DEF BookInv, Fit
<1>4. LeaseInv'
  BY <1>1, DiskNumbered DEF BookInv, LeaseInv, Fit
<1>5. RunInv'
  BY DEF BookInv, RunInv, Runs
<1>6. MoveInv'
  BY <1>1 DEF MoveInv, Fit, Unborn
<1>. QED
  BY <1>2, <1>3, <1>4, <1>5, <1>6 DEF BookInv

(* A step that drops the candidate.                                        *)
LEMMA BookForget ==
  ASSUME TypeOK, BookInv, UNCHANGED <<disk, archive, running>>, asked' = NoAsk,
         pc' = "down" \/ (pc # "down" /\ UNCHANGED <<receipts, drained>>),
         \/ pc' = "poisoned" /\ core' = core /\ cand' = core
         \/ pc' \in {"down", "idle"} /\ cand' = disk /\ core' = disk
  PROVE  BookInv'
<1>1. CountInv'
  BY CountUnchanged DEF BookInv
<1>2. Bounded(cand)'
  BY BoundedUnchanged DEF BookInv, SizeInv
<1>3. SizeInv'
  BY <1>2, SizeUnchanged DEF BookInv
<1>4. pc' # "poisoned" => Fit(cand)'
  BY FitDisk, FitUnchanged DEF BookInv, SizeInv, LeaseInv
<1>5. LeaseInv'
  BY <1>4, DiskNumbered DEF BookInv, LeaseInv, Fit
<1>6. RunInv'
  BY DEF BookInv, RunInv, Runs
<1>7. MoveInv'
  BY <1>4 DEF MoveInv, Fit
<1>. QED
  BY <1>1, <1>3, <1>5, <1>6, <1>7 DEF BookInv

(* Beginning a call.                                                       *)
LEMMA BeginBook ==
  ASSUME TypeOK, SendInv, BookInv, NEW t, Begin(t)
  PROVE  BookInv'
<1>. DEFINE d == Turn(Expire(disk, t))
<1>1. core = disk /\ disk \in CoreType /\ cand = disk /\ asked = NoAsk
  BY DEF Begin, SendInv, PhaseInv, AskedInv, TypeOK
<1>2. Fit(disk) /\ Unborn(disk)
  BY FitDisk DEF BookInv, SizeInv, LeaseInv
<1>3. Fit(d) /\ Unborn(d)
  BY <1>1, <1>2, FitSchedule
<1>4. ASSUME NEW r \in running PROVE Runs(d, r)
  <2>1. Runs(disk, r) /\ r[1] \in Ids
    BY DEF BookInv, RunInv, TypeOK, Permissions
  <2>. QED
    BY <1>1, <2>1, ScheduleCalms, RunsCalms
<1>. HIDE DEF d
<1>5. cand' = d
  BY <1>1 DEF Begin, d
<1>. QED
  BY <1>1, <1>3, <1>4, <1>5, BookCall DEF Begin

(* One turn of the placement loop.                                         *)
LEMMA PlaceBook ==
  ASSUME TypeOK, SendInv, BookInv, PlaceNext
  PROVE  BookInv'
<1>1. PICK ch \in Best(cand) : cand' = Turn(Placed(cand, ch[1], ch[2], now))
  BY DEF PlaceNext
<1>2. ch \in Offers(cand) /\ ch[1] \in Ids /\ ch[2] \in Backends
      /\ cand.jobs[ch[1]].st = "queued"
  BY DEF Best, Offers
<1>3. cand \in CoreType /\ now \in Nat /\ disk.next \in Nat
  BY DEF TypeOK, CoreType
<1>4. pc \in {"schedule", "reschedule"} /\ Fit(cand) /\ (pc = "schedule" => Unborn(cand))
  BY DEF PlaceNext, BookInv, CountInv, SizeInv, LeaseInv, MoveInv, Fit, Unborn
<1>. DEFINE d == Placed(cand, ch[1], ch[2], now)
<1>5. d \in CoreType /\ Fit(d)
  BY <1>2, <1>3, <1>4, PlacedType, FitPlaced
<1>6. pc = "schedule" => Unborn(d)
  <2>1. \A n \in Ids \ {ch[1]} : d.jobs[n] = cand.jobs[n]
    BY <1>2, <1>3, PlacedForm
  <2>2. Record(cand, ch[1]).st # "none"
    BY <1>2 DEF Record
  <2>. HIDE DEF d
  <2>. QED
    BY <1>4, <2>1, <2>2 DEF Unborn, Record
<1>7. ASSUME NEW r, r[1] \in Ids, Runs(cand, r) PROVE Runs(d, r)
  BY <1>2, <1>3, <1>7, RunsPlaced
<1>. HIDE DEF d
<1>. DEFINE e == Turn(d)
<1>8. /\ e \in CoreType /\ Calms(d, e, {}) /\ Hopping(d, e) /\ e.jobs = d.jobs
  BY <1>5, TurnCalms, TurnType
<1>9. Fit(e) /\ (pc = "schedule" => Unborn(e))
  BY <1>5, <1>6, <1>8, FitCalms, UnbornCalms
<1>10. ASSUME NEW r, r[1] \in Ids, Runs(cand, r) PROVE Runs(e, r)
  BY <1>7, <1>8, <1>10 DEF Runs
<1>11. cand' = e
  BY <1>1 DEF e, d
<1>. HIDE DEF e
<1>12. \A r \in running : Runs(e, r)
  BY <1>4, <1>10 DEF BookInv, RunInv, TypeOK, Permissions
<1>13. asked # NoAsk => Runs(e, asked)
  BY <1>10 DEF BookInv, RunInv, SendInv, AskedInv
<1>. QED
  BY <1>4, <1>9, <1>11, <1>12, <1>13, BookCall DEF PlaceNext

(* A controller's call that turns the fit core c into its candidate.       *)
LEMMA RescheduleBook ==
  ASSUME TypeOK, SendInv, BookInv, pc = "schedule", NEW c \in CoreType,
         Fit(c), Unborn(c), Reschedule(c), running' \subseteq running,
         \A r \in running' : Runs(c, r),
         asked' = asked \/ (asked'[1] \in Ids /\ Runs(c, asked'))
  PROVE  BookInv'
<1>. DEFINE d == Turn(Expire(c, now))
<1>1. Fit(d)
  BY FitSchedule
<1>2. Calms(c, d, {})
  BY ScheduleCalms
<1>3. \A r \in running' : r[1] \in Ids
  BY DEF TypeOK, Permissions
<1>4. \A r \in running' : Runs(d, r)
  BY <1>2, <1>3, RunsCalms
<1>5. asked = NoAsk
  BY DEF SendInv, AskedInv
<1>6. asked' # NoAsk => Runs(d, asked')
  BY <1>2, <1>5, RunsCalms
<1>. HIDE DEF d
<1>7. cand' = d
  BY DEF Reschedule, d
<1>. QED
  BY <1>1, <1>4, <1>6, <1>7, BookCall DEF Reschedule

(* The candidate a controller's call starts from.                          *)
LEMMA CallStarts ==
  ASSUME TypeOK, SendInv, BookInv, pc = "schedule", NEW i \in Ids
  PROVE  /\ Addressed(i) \in CoreType
         /\ Fit(Addressed(i)) /\ Unborn(Addressed(i))
         /\ \A r \in running : Runs(Addressed(i), r) /\ r[1] \in Ids
<1>1. Fit(cand) /\ Unborn(cand)
  BY DEF BookInv, CountInv, SizeInv, LeaseInv, MoveInv, Fit, Unborn
<1>2. \A r \in running : Runs(cand, r) /\ r[1] \in Ids
  BY DEF BookInv, RunInv, TypeOK, Permissions
<1>. QED
  BY <1>1, <1>2, FitAddressed, AddressedType DEF SendInv

(* A call whose operation gives out nothing; S are the jobs it reports     *)
(* over.                                                                   *)
LEMMA CallBook ==
  ASSUME TypeOK, SendInv, BookInv, pc = "schedule", NEW i \in Ids, NEW S,
         NEW d \in CoreType, Calms(Addressed(i), d, S), Hopping(Addressed(i), d),
         Reschedule(d), running' \subseteq running, \A r \in running' : r[1] \notin S,
         asked' = asked \/ (asked'[1] \in Ids /\ Runs(d, asked'))
  PROVE  BookInv'
<1>1. /\ Addressed(i) \in CoreType
      /\ Fit(Addressed(i)) /\ Unborn(Addressed(i))
      /\ \A r \in running : Runs(Addressed(i), r) /\ r[1] \in Ids
  BY CallStarts
<1>2. Fit(d) /\ Unborn(d)
  BY <1>1, FitCalms, UnbornCalms DEF Unborn
<1>3. \A r \in running' : Runs(d, r)
  BY <1>1, RunsCalms
<1>. QED
  BY <1>2, <1>3, RescheduleBook

LEMMA EnqueueBook ==
  ASSUME TypeOK, SendInv, BookInv, NEW ctl \in Controllers, NEW i \in Ids,
         NEW body \in Bodies, NEW t \in Nat, Enqueue(ctl, i, body, t)
  PROVE  BookInv'
<1>. DEFINE c == Addressed(i)
            a == Admitted(c, ctl, i, body, t)
            d == Turn(Expire(a, now))
<1>1. pc = "schedule" /\ asked = NoAsk /\ now \in Nat /\ disk.next \in Nat
  BY DEF Enqueue, Settled, SendInv, AskedInv, TypeOK, CoreType
<1>2. /\ c \in CoreType /\ Fit(c) /\ Unborn(c)
      /\ \A r \in running : Runs(c, r) /\ r[1] \in Ids
  BY <1>1, CallStarts
<1>3. /\ c.jobs[i].st = "none" /\ Cardinality(LiveIds(c)) < MaxJobs /\ t > now
  BY DEF Enqueue, Admissible
<1>4. archive[i].st = "none"
  BY <1>3 DEF Addressed, TypeOK, CoreType
<1>5. cand' = d
  BY DEF Enqueue, Reschedule
<1>. HIDE DEF c
<1>6. a \in CoreType /\ Fit(a)
  BY <1>1, <1>2, <1>3, <1>4, AdmittedType, FitAdmitted
<1>7. /\ \A n \in Ids \ {i} : a.jobs[n] = c.jobs[n]
      /\ a.jobs[i].st = "queued" /\ a.jobs[i].deadline = t
  BY <1>2, AdmittedForm
<1>. HIDE DEF a
<1>8. /\ d \in CoreType /\ Calms(a, d, {}) /\ Hopping(a, d)
      /\ d.jobs[i] = a.jobs[i]
  BY <1>1, <1>3, <1>6, <1>7, ScheduleCalms, NotDue
<1>. HIDE DEF d
<1>9. ASSUME NEW n \in Ids, Durable(n).st = "none"
      PROVE  Record(a, n).st = "none" \/ d.jobs[n] = a.jobs[n]
  BY <1>2, <1>7, <1>8, <1>9 DEF Unborn, Record
<1>10. Fit(d)
  BY <1>6, <1>8, <1>9, FitCalms
<1>11. ASSUME NEW r \in running PROVE Runs(d, r)
  <2>1. r[1] \in Ids /\ r[1] # i /\ Runs(a, r)
    BY <1>2, <1>3, <1>7 DEF Runs, Crossed
  <2>. QED
    BY <1>8, <2>1, RunsCalms
<1>. QED
  BY <1>1, <1>5, <1>10, <1>11, BookCall DEF Enqueue, Reschedule

LEMMA DispatchBook ==
  ASSUME TypeOK, SendInv, BookInv, NEW ctl, NEW i \in Ids, NEW lease,
         Dispatch(ctl, i, lease)
  PROVE  BookInv'
<1>. DEFINE c == Addressed(i)
            d == Dispatched(c, i, now)
<1>1. /\ pc = "schedule" /\ c.jobs[i].st = "placed" /\ c.jobs[i].lease = lease
      /\ asked' = <<i, lease, c.jobs[i].backend>> /\ Reschedule(d) /\ running' = running
      /\ now \in Nat
  BY DEF Dispatch, Settled, TypeOK
<1>2. c \in CoreType
  BY AddressedType
<1>3. d \in CoreType /\ Calms(c, d, {}) /\ Hopping(c, d)
  BY <1>1, <1>2, DispatchedType, DispatchedCalms
<1>4. /\ d.jobs[i].st = "dispatched" /\ d.jobs[i].lease = lease
  BY <1>1, <1>2, FollowsDispatched
<1>5. d.jobs[i].backend = c.jobs[i].backend
  BY <1>3, <1>4 DEF Calms, Eases, Holds
<1>. HIDE DEF d, c
<1>6. asked'[1] \in Ids /\ Runs(d, asked')
  BY <1>1, <1>4, <1>5 DEF Runs, Crossed
<1>. QED
  BY <1>1, <1>3, <1>6, CallBook DEF c

LEMMA FinishBook ==
  ASSUME TypeOK, SendInv, BookInv, NEW ctl, NEW i \in Ids, NEW lease, NEW out,
         Finish(ctl, i, lease, out)
  PROVE  BookInv'
<1>. DEFINE c == Addressed(i)
            j == c.jobs[i]
            e == Elapsed(j, out, now)
<1>1. /\ pc = "schedule" /\ asked' = asked /\ c \in CoreType /\ running' \subseteq running
      /\ running' = {r \in running : \/ r[1] # i \/ r[2] # lease
                                     \/ out \notin {"ended", "not-sent"}}
  BY AddressedType DEF Finish, Settled
<1>2. \A r \in running : Runs(c, r)
  BY <1>1, CallStarts
<1>3. CASE Reschedule(c)
  <2>1. Calms(c, c, {}) /\ Hopping(c, c)
    BY CalmsSame
  <2>. QED
    BY <1>1, <1>3, <2>1, CallBook
<1>4. CASE EndReport(j, lease, out) /\ Reschedule(Completed(c, i, e, out))
  <2>1. Holds(j) /\ out \in Outcomes /\ out \in {"ended", "not-sent"} /\ j.lease = lease
    BY <1>4 DEF EndReport, Holds, Crossed, Outcomes
  <2>2. j \in JobRecords
    BY <1>1, <2>1, JobForms DEF CoreType, Holds
  <2>3. e \in Nat
    BY <2>2, SatSubNat, ConfigAssumption DEF Elapsed, TypeOK, JobRecords
  <2>4. Completed(c, i, e, out) \in CoreType
    BY <1>1, <2>1, <2>3, CompletedType
  <2>5. Calms(c, Completed(c, i, e, out), {i}) /\ Hopping(c, Completed(c, i, e, out))
    BY <1>1, <2>1, CompletedCalms
  <2>6. \A r \in running' : r[1] \notin {i}
    BY <1>1, <1>2, <2>1 DEF Runs
  <2>. QED
    BY <1>1, <1>4, <2>4, <2>5, <2>6, CallBook
<1>5. CASE UncertainReport(j, lease, out) /\ Reschedule(Unconfirmed(c, i))
  BY <1>1, <1>5, UnconfirmedType, UnconfirmedCalms, CallBook DEF UncertainReport
<1>. QED
  BY <1>3, <1>4, <1>5 DEF Finish

LEMMA ControllerBook ==
  ASSUME TypeOK, SendInv, BookInv, Call
  PROVE  BookInv'
<1>1. CASE Refuse
  BY <1>1, BookForget DEF Refuse, Settled, Discard, SendInv, PhaseInv
<1>2. ASSUME NEW r \in Requests, Enqueue(r[1], r[2], r[3], r[4])
      PROVE  BookInv'
  BY <1>2, EnqueueBook, ConfigAssumption
<1>3. ASSUME NEW i \in Ids, pc = "schedule", Reschedule(Addressed(i)),
             UNCHANGED <<asked, running>>
      PROVE  BookInv'
  <2>1. Addressed(i) \in CoreType
    BY AddressedType
  <2>2. Calms(Addressed(i), Addressed(i), {}) /\ Hopping(Addressed(i), Addressed(i))
    BY CalmsSame
  <2>. QED
    BY <1>3, <2>1, <2>2, CallBook
<1>4. ASSUME NEW r \in Requests, EnqueueAgain(r[1], r[2], r[3])
      PROVE  BookInv'
  BY <1>3, <1>4, ConfigAssumption DEF EnqueueAgain, Settled
<1>5. ASSUME NEW ctl \in Controllers, NEW i \in Ids, Inspect(ctl, i)
      PROVE  BookInv'
  BY <1>3, <1>5 DEF Inspect, Settled
<1>6. ASSUME NEW ctl \in Controllers, NEW i \in Ids, Cancel(ctl, i)
      PROVE  BookInv'
  BY <1>6, AddressedType, CancelledType, CancelledCalms, CallBook DEF Cancel, Settled
<1>. QED
  BY <1>1, <1>2, <1>4, <1>5, <1>6, DispatchBook, FinishBook DEF Call

(* An operator's call, which starts from the saved core.                   *)
LEMMA OperateBook ==
  ASSUME TypeOK, SendInv, BookInv, NEW t, NEW S, NEW c \in CoreType,
         Calms(disk, c, S), Hopping(disk, c), Operate(c, t),
         running' \subseteq running, \A r \in running' : r[1] \notin S
  PROVE  BookInv'
<1>. DEFINE d == Turn(Expire(c, t))
<1>1. disk \in CoreType /\ asked = NoAsk /\ pc = "idle"
  BY DEF Operate, SendInv, AskedInv, TypeOK
<1>2. Fit(disk) /\ Unborn(disk)
  BY FitDisk DEF BookInv, SizeInv, LeaseInv
<1>3. Fit(c) /\ Unborn(c)
  BY <1>1, <1>2, FitCalms, UnbornCalms DEF Unborn
<1>4. Fit(d)
  BY <1>3, FitSchedule
<1>5. ASSUME NEW r \in running' PROVE Runs(d, r)
  <2>1. Runs(disk, r) /\ r[1] \in Ids \ S
    BY DEF BookInv, RunInv, TypeOK, Permissions
  <2>2. Runs(c, r)
    BY <2>1, RunsCalms
  <2>. QED
    BY <2>1, <2>2, ScheduleCalms, RunsCalms
<1>. HIDE DEF d
<1>6. cand' = d
  BY DEF Operate, d
<1>. QED
  BY <1>1, <1>4, <1>5, <1>6, BookCall DEF Operate

LEMMA OperatorBook ==
  ASSUME TypeOK, SendInv, BookInv, Operator
  PROVE  BookInv'
<1>1. PICK t \in Times : \/ Status(t)
                         \/ \E enabled \in Drains : Drain(enabled, t)
                         \/ \E i \in Resolves : Resolve(i, t)
  BY DEF Operator
<1>2. t \in Nat /\ core \in CoreType
  BY ConfigAssumption DEF TypeOK
<1>3. pc = "idle" => core = disk
  BY DEF SendInv, PhaseInv
<1>4. CASE Status(t)
  <2>1. Calms(core, core, {}) /\ Hopping(core, core)
    BY CalmsSame
  <2>. QED
    BY <1>2, <1>3, <1>4, <2>1, OperateBook DEF Status, Operate
<1>5. ASSUME NEW enabled \in Drains, Drain(enabled, t)
      PROVE  BookInv'
  <2>1. enabled \in BOOLEAN
    BY ConfigAssumption
  <2>. QED
    BY <1>2, <1>3, <1>5, <2>1, DrainingType, DrainingCalms, OperateBook DEF Drain, Operate
<1>6. ASSUME NEW i \in Resolves, Resolve(i, t)
      PROVE  BookInv'
  <2>1. i \in Ids
    BY ConfigAssumption
  <2>2. running' \subseteq running /\ \A r \in running' : r[1] \notin {i}
    BY <1>6 DEF Resolve
  <2>. QED
    BY <1>2, <1>3, <1>6, <2>1, <2>2, ResolvedType, ResolvedCalms, OperateBook
       DEF Resolve, Operate
<1>. QED
  BY <1>1, <1>4, <1>5, <1>6

(* Opening the service.                                                    *)
LEMMA OpenBook ==
  ASSUME TypeOK, SendInv, BookInv, Open
  PROVE  BookInv'
<1>. DEFINE d == Recovered(disk)
<1>1. /\ disk \in CoreType /\ asked' = NoAsk /\ pc = "down" /\ pc' = "open"
      /\ cand' = d /\ core' = disk /\ UNCHANGED <<disk, archive, running>>
  BY DEF Open, SendInv, AskedInv, TypeOK
<1>2. /\ Calms(disk, d, {})
      /\ \A i \in Ids : \/ Hops(disk.jobs[i], d.jobs[i])
                        \/ disk.jobs[i].st = "placed" /\ d.jobs[i].st = "queued"
  BY <1>1, RecoveredCalms
<1>3. Bounded(d)
  BY <1>2, BoundedFewer DEF BookInv, SizeInv, Calms, Eases
<1>4. Numbered(d)
  BY <1>1, <1>2, NumberedCalms DEF BookInv, LeaseInv
<1>. HIDE DEF d
<1>5. SizeInv'
  BY <1>1, <1>3, BoundedUnchanged, SizeUnchanged DEF BookInv
<1>6. LeaseInv'
  <2>1. Numbered(cand)'
    BY <1>1, <1>4 DEF Numbered, Record
  <2>. QED
    BY <1>1, <2>1, DiskNumbered DEF BookInv, LeaseInv
<1>7. RunInv'
  <2>1. ASSUME NEW r \in running PROVE Runs(d, r)
    <3>1. Runs(disk, r) /\ r[1] \in Ids
      BY DEF BookInv, RunInv, TypeOK, Permissions
    <3>. QED
      BY <1>2, <3>1, RunsCalms
  <2>. QED
    BY <1>1, <2>1 DEF BookInv, RunInv, Runs
<1>8. MoveInv'
  <2>1. disk.next <= d.next
    BY <1>1, <1>2 DEF Calms, CoreType
  <2>2. ASSUME NEW i \in Ids
        PROVE  \/ Moved(Durable(i), Record(d, i), d.next)
               \/ Durable(i).st = "placed" /\ Record(d, i).st = "queued"
    <3>1. Eases(disk.jobs[i], d.jobs[i])
      BY <1>2 DEF Calms
    <3>. QED
      BY <1>2, <3>1, EasesSame DEF Durable, Record, Moved, Eases
  <2>. QED
    BY <1>1, <2>1, <2>2 DEF MoveInv, Durable, Record, Moved
<1>9. CountInv'
  <2>1. Archived' = Archived /\ DrainedReceipts' = DrainedReceipts
    BY <1>1 DEF Archived, DrainedReceipts
  <2>2. receipts' = Cardinality(Archived) /\ drained' = OpenDrained
    BY DEF Open
  <2>3. OpenDrained = Cardinality(DrainedReceipts)
    BY DEF OpenDrained, BookInv, CountInv
  <2>4. d.archived = disk.archived /\ d.archivedDrained = disk.archivedDrained
    BY <1>2 DEF Calms
  <2>. QED
    BY <1>1, <2>1, <2>2, <2>3, <2>4 DEF BookInv, CountInv
<1>. QED
  BY <1>5, <1>6, <1>7, <1>8, <1>9 DEF BookInv

(* The first rename of a save: the snapshot becomes the candidate.         *)
LEMMA SaveTerminalBook ==
  ASSUME TypeOK, SendInv, BookInv, SaveTerminal
  PROVE  BookInv'
<1>1. /\ pc \in {"reschedule", "open"} /\ pc' = "archive"
      /\ disk' = cand /\ UNCHANGED <<archive, core, cand, receipts, drained, asked, running>>
  BY DEF SaveTerminal, ToSave, Settled
<1>2. CountInv'
  <2>1. Archived' = Archived /\ DrainedReceipts' = DrainedReceipts
    BY <1>1 DEF Archived, DrainedReceipts
  <2>. QED
    BY <1>1, <2>1 DEF BookInv, CountInv
<1>3. SizeInv'
  BY <1>1 DEF BookInv, SizeInv, Bounded, Occupied, ActiveOf, LiveIds
<1>4. LeaseInv'
  BY <1>1 DEF BookInv, LeaseInv, Numbered, Record
<1>5. RunInv'
  BY <1>1 DEF BookInv, RunInv, Runs
<1>6. MoveInv'
  <2>1. cand.next <= cand.next
    BY DEF TypeOK, CoreType
  <2>. QED
    BY <1>1, <2>1, EasesSame DEF MoveInv, Moved, Durable, Record
<1>. QED
  BY <1>2, <1>3, <1>4, <1>5, <1>6 DEF BookInv

(* Publishing a receipt.                                                   *)
LEMMA ArchiveBook ==
  ASSUME TypeOK, SendInv, BookInv, NEW n \in Ids, ArchiveReceipt(n)
  PROVE  BookInv'
<1>1. /\ pc = "archive" /\ pc' = "archive" /\ cand.jobs[n].st = "terminal"
      /\ cand' = [cand EXCEPT !.jobs[n] = NoJob]
      /\ UNCHANGED <<disk, core, asked, running>>
  BY DEF ArchiveReceipt, FirstTerminal, TerminalIds
<1>2. disk.jobs[n] = cand.jobs[n]
  BY <1>1, JobForms DEF SendInv, PhaseInv
<1>3. /\ cand'.next = cand.next /\ cand'.archived = cand.archived
      /\ cand'.archivedDrained = cand.archivedDrained
      /\ \A i \in Ids : cand'.jobs[i] = IF i = n THEN NoJob ELSE cand.jobs[i]
  BY <1>1 DEF TypeOK, CoreType
<1>4. /\ archive'[n] = cand.jobs[n]
      /\ \A i \in Ids \ {n} : archive'[i] = archive[i]
      /\ archive[n] = cand.jobs[n] \/ archive[n].st = "none"
  BY DEF ArchiveReceipt, TypeOK
<1>5. \A i \in Ids : /\ Durable(i)' = Durable(i)
                     /\ Record(cand, i)' = Record(cand, i)
  BY <1>1, <1>2, <1>3, <1>4, JobForms DEF Durable, Record
<1>6. SizeInv'
  <2>1. Bounded(cand')
    <3>1. \A i \in Ids : cand'.jobs[i] = cand.jobs[i] \/ cand'.jobs[i].st = "none"
      BY <1>3, JobForms
    <3>. QED
      BY <3>1, BoundedFewer DEF BookInv, SizeInv, Live, Holds
  <2>2. Bounded(cand)'
    BY <2>1, BoundedUnchanged
  <2>. QED
    BY <1>1, <2>2, SizeUnchanged DEF BookInv
<1>7. LeaseInv'
  <2>1. Numbered(disk)'
    BY <1>1, <1>5 DEF BookInv, LeaseInv, Numbered, Durable
  <2>2. Numbered(cand)'
    BY <1>1, <1>3, <1>5 DEF BookInv, LeaseInv, Numbered
  <2>. QED
    BY <2>1, <2>2 DEF LeaseInv
<1>8. RunInv'
  <2>1. ASSUME NEW r, r[1] \in Ids, Runs(cand, r) PROVE Runs(cand', r)
    <3>1. r[1] # n
      BY <1>1, <2>1 DEF Runs, Crossed
    <3>. QED
      BY <1>3, <2>1, <3>1 DEF Runs
  <2>2. \A r \in running : Runs(cand', r)
    BY <1>1, <2>1 DEF BookInv, RunInv, TypeOK, Permissions
  <2>3. asked # NoAsk => Runs(cand', asked)
    BY <2>1 DEF BookInv, RunInv, SendInv, AskedInv
  <2>. QED
    BY <1>1, <2>2, <2>3 DEF BookInv, RunInv, Runs
<1>9. MoveInv'
  BY <1>1, <1>3, <1>5 DEF BookInv, MoveInv, Moved
<1>10. CountInv'
  <2>1. CASE archive[n] = cand.jobs[n] /\ UNCHANGED <<archive, receipts, drained>>
    <3>1. Archived' = Archived /\ DrainedReceipts' = DrainedReceipts
      BY <2>1 DEF Archived, DrainedReceipts
    <3>. QED
      BY <1>1, <1>3, <2>1, <3>1 DEF BookInv, CountInv
  <2>2. CASE /\ archive[n].st = "none" /\ receipts' = receipts + 1
             /\ drained' = drained + (IF cand.jobs[n].outcome = "drained" THEN 1 ELSE 0)
    <3>1. Archived' = Archived \cup {n} /\ n \notin Archived
      BY <1>1, <1>4, <2>2 DEF Archived
    <3>2. DrainedReceipts' = IF cand.jobs[n].outcome = "drained"
                             THEN DrainedReceipts \cup {n} ELSE DrainedReceipts
      BY <1>1, <1>4, <2>2 DEF Archived, DrainedReceipts
    <3>3. n \notin DrainedReceipts
      BY <3>1 DEF DrainedReceipts
    <3>4. Cardinality(Archived') = Cardinality(Archived) + 1
      BY <3>1, ArchivedFinite, FS_AddElement
    <3>5. Cardinality(DrainedReceipts') =
            Cardinality(DrainedReceipts) + (IF cand.jobs[n].outcome = "drained" THEN 1 ELSE 0)
      <4>1. CASE cand.jobs[n].outcome = "drained"
        <5>1. DrainedReceipts' = DrainedReceipts \cup {n}
          BY <3>2, <4>1
        <5>2. Cardinality(DrainedReceipts \cup {n}) = Cardinality(DrainedReceipts) + 1
          BY <3>3, ArchivedFinite, FS_AddElement
        <5>. QED
          BY <4>1, <5>1, <5>2
      <4>2. CASE cand.jobs[n].outcome # "drained"
        <5>1. DrainedReceipts' = DrainedReceipts
          BY <3>2, <4>2
        <5>. QED
          BY <4>2, <5>1, ArchivedFinite
      <4>. QED
        BY <4>1, <4>2
    <3>6. /\ Cardinality(Archived) \in Nat /\ Cardinality(DrainedReceipts) \in Nat
          /\ disk.archived \in Nat
      BY ArchivedFinite DEF TypeOK, CoreType
    <3>7. /\ Cardinality(Archived)' = Cardinality(Archived')
          /\ Cardinality(DrainedReceipts)' = Cardinality(DrainedReceipts')
      OBVIOUS
    <3>. QED
      BY <1>1, <1>3, <2>2, <3>4, <3>5, <3>6, <3>7 DEF BookInv, CountInv
  <2>. QED
    BY <2>1, <2>2 DEF ArchiveReceipt
<1>. QED
  BY <1>6, <1>7, <1>8, <1>9, <1>10 DEF BookInv

(* The retiring snapshot.                                                  *)
LEMMA CommitBook ==
  ASSUME TypeOK, SendInv, BookInv, Commit
  PROVE  BookInv'
<1>. DEFINE d == Stamped(cand)
<1>1. /\ pc \in {"reschedule", "open", "archive"} /\ pc' = "idle" /\ asked' = NoAsk
      /\ disk' = d /\ core' = d /\ cand' = d /\ UNCHANGED <<archive, receipts, drained>>
      /\ \/ running' = running
         \/ asked # NoAsk /\ running' = running \cup {asked}
  BY DEF Commit, ToSave, Settled
<1>2. /\ d.jobs = cand.jobs /\ d.next = cand.next
      /\ d.archived = receipts /\ d.archivedDrained = drained
  BY DEF Stamped, TypeOK, CoreType
<1>. HIDE DEF d
<1>3. CountInv'
  <2>1. Archived' = Archived /\ DrainedReceipts' = DrainedReceipts
    BY <1>1 DEF Archived, DrainedReceipts
  <2>2. receipts <= receipts
    BY DEF TypeOK
  <2>. QED
    BY <1>1, <1>2, <2>1, <2>2 DEF BookInv, CountInv
<1>4. SizeInv'
  BY <1>1, <1>2 DEF BookInv, SizeInv, Bounded, Occupied, ActiveOf, LiveIds
<1>5. LeaseInv'
  BY <1>1, <1>2 DEF BookInv, LeaseInv, Numbered, Record
<1>6. RunInv'
  BY <1>1, <1>2 DEF BookInv, RunInv, Runs
<1>7. MoveInv'
  <2>1. d.next <= d.next
    BY <1>2 DEF TypeOK, CoreType
  <2>. QED
    BY <1>1, <2>1, EasesSame DEF MoveInv, Moved, Durable, Record
<1>. QED
  BY <1>3, <1>4, <1>5, <1>6, <1>7 DEF BookInv

(* A failed save.                                                          *)
LEMMA SaveFailedBook ==
  ASSUME TypeOK, SendInv, BookInv, pc # "down", SaveFailed
  PROVE  BookInv'
<1>1. CASE opening
  BY <1>1, BookForget DEF SaveFailed, GoDown
<1>2. CASE ~opening
  BY <1>2, BookForget DEF SaveFailed
<1>. QED
  BY <1>1, <1>2

(* Every step keeps the books.                                             *)
LEMMA BookStep ==
  ASSUME TypeOK, SendInv, BookInv, [Next]_vars
  PROVE  BookInv'
<1>1. CASE \E t \in Times : Begin(t)
  BY <1>1, BeginBook
<1>2. CASE PlaceNext
  BY <1>2, PlaceBook
<1>3. CASE PlaceOverflows
  BY <1>3, BookForget DEF PlaceOverflows, Discard, SendInv, PhaseInv
<1>4. CASE Call
  BY <1>4, ControllerBook
<1>5. CASE Operator
  BY <1>5, OperatorBook
<1>6. CASE Unchanged
  BY <1>6, BookForget DEF Unchanged, Settled, Discard, SendInv, PhaseInv
<1>7. CASE Save
  BY <1>7, SaveTerminalBook, ArchiveBook, SaveFailedBook, CommitBook DEF Save, ArchiveRefuses
<1>8. CASE WriteFails
  BY <1>8, SaveFailedBook DEF WriteFails, ToSave, Settled
<1>9. CASE Crash
  BY <1>9, BookForget DEF Crash, GoDown
<1>10. CASE Stop
  BY <1>10, BookForget DEF Stop, GoDown
<1>11. CASE Open
  BY <1>11, OpenBook
<1>12. CASE UNCHANGED vars
  <2>1. /\ UNCHANGED <<disk, archive, core, cand, pc, receipts, drained, asked, running>>
        /\ Archived' = Archived /\ DrainedReceipts' = DrainedReceipts
    BY <1>12 DEF vars, Archived, DrainedReceipts
  <2>2. CountInv'
    BY <2>1 DEF BookInv, CountInv
  <2>3. SizeInv'
    BY <2>1 DEF BookInv, SizeInv, Bounded, Occupied, ActiveOf, LiveIds
  <2>4. LeaseInv'
    BY <2>1 DEF BookInv, LeaseInv, Numbered, Record
  <2>5. RunInv'
    BY <2>1 DEF BookInv, RunInv, Runs
  <2>6. MoveInv'
    BY <2>1 DEF BookInv, MoveInv, Moved, Durable, Record
  <2>. QED
    BY <2>2, <2>3, <2>4, <2>5, <2>6 DEF BookInv
<1>. QED
  BY <1>1, <1>2, <1>3, <1>4, <1>5, <1>6, <1>7, <1>8, <1>9, <1>10, <1>11, <1>12
     DEF Next, Fault

-----------------------------------------------------------------------------
(* The books of the broker are always in order: counters, bounds, leases   *)
(* and moves relate to each other and to the files as every step relies.   *)
THEOREM BookInvariant == Spec => []BookInv
<1>1. Init => BookInv
  <2>1. SUFFICES ASSUME Init PROVE BookInv
    OBVIOUS
  <2>2. /\ disk = NewCore /\ core = NewCore /\ cand = NewCore
        /\ archive = [i \in Ids |-> NoJob] /\ pc = "down"
        /\ asked = NoAsk /\ running = {}
    BY <2>1 DEF Init
  <2>3. /\ \A i \in Ids : NewCore.jobs[i] = NoJob /\ archive[i] = NoJob
        /\ NewCore.next = 1 /\ NewCore.archived = 0 /\ NewCore.archivedDrained = 0
    BY <2>2 DEF NewCore
  <2>4. NoJob.st = "none" /\ NoJob.lease = NoLease /\ NoJob.superseded = {}
    BY DEF NoJob
  <2>5. Archived = {} /\ DrainedReceipts = {} /\ Cardinality({}) = 0
    BY <2>3, <2>4, FS_EmptySet DEF Archived, DrainedReceipts
  <2>6. CountInv
    BY <2>2, <2>3, <2>5 DEF CountInv
  <2>7. Bounded(NewCore)
    <3>1. /\ \A g \in Groups : Occupied(NewCore, g) = {}
          /\ \A p \in Principals : ActiveOf(NewCore, p) = {}
          /\ LiveIds(NewCore) = {}
      BY <2>3, <2>4 DEF Occupied, ActiveOf, LiveIds, Live, Holds
    <3>2. /\ \A g \in Groups : 0 <= Slots[g]
          /\ 0 <= MaxActive /\ 0 <= MaxJobs
      BY ConfigAssumption
    <3>. QED
      BY <2>5, <3>1, <3>2 DEF Bounded
  <2>8. Numbered(NewCore)
    <3>1. \A i \in Ids : Record(NewCore, i) = NoJob
      BY <2>3, <2>4 DEF Record
    <3>2. Leases(NoJob) = {NoLease} /\ Tidy(NoJob)
      BY <2>4 DEF Leases, Tidy, Holds
    <3>. QED
      BY <2>3, <3>1, <3>2 DEF Numbered, NoLease
  <2>9. MoveInv
    BY <2>2, <2>3, EasesSame DEF MoveInv, Moved, Durable
  <2>. QED
    BY <2>2, <2>6, <2>7, <2>8, <2>9 DEF BookInv, SizeInv, LeaseInv, RunInv
<1>. QED
  BY <1>1, BookStep, TypeCorrect, SendInvariant, PTL DEF Spec

(* The allocation in the file and in memory respects the slots of every    *)
(* group, the active bound of every member and the bound on live jobs, in  *)
(* every configuration and after any number of restarts.                   *)
THEOREM AllocationBounded == Spec => []AllocationBounds
<1>1. BookInv => AllocationBounds
  BY DEF BookInv, SizeInv, Bounded, AllocationBounds
<1>. QED
  BY <1>1, BookInvariant, PTL

(* What may still be executing fits the physical slots: every execution    *)
(* not reported over holds, in the snapshot, the slot it was sent under.   *)
THEOREM PhysicallyBounded == Spec => []PhysicalCapacity
<1>1. ASSUME TypeOK, BookInv PROVE PhysicalCapacity
  <2>1. SUFFICES ASSUME NEW g \in Groups
                 PROVE  Cardinality({r \in running : GroupOf[r[3]] = g}) <= Slots[g]
    BY DEF PhysicalCapacity
  <2>. DEFINE R == {r \in running : GroupOf[r[3]] = g}
              O == Occupied(disk, g)
              f == [r \in R |-> r[1]]
  <2>2. O \in SUBSET Ids /\ IsFiniteSet(O) /\ Cardinality(O) \in Nat
    BY JobsFinite DEF Occupied
  <2>3. ASSUME NEW r \in R
        PROVE  /\ r[1] \in O
               /\ r = <<r[1], disk.jobs[r[1]].lease, disk.jobs[r[1]].backend>>
    <3>1. r \in Permissions /\ Runs(disk, r) /\ GroupOf[r[3]] = g
      BY <1>1 DEF BookInv, RunInv, TypeOK
    <3>2. r[1] \in O
      BY <3>1 DEF Permissions, Runs, Occupied, Crossed, Holds
    <3>3. r = <<r[1], disk.jobs[r[1]].lease, disk.jobs[r[1]].backend>>
      BY <3>1 DEF Permissions, Runs
    <3>. QED
      BY <3>2, <3>3
  <2>. HIDE DEF O, R
  <2>4. f \in Injection(R, O)
    BY <2>3 DEF Injection, IsInjective
  <2>. HIDE DEF f
  <2>5. Cardinality(R) <= Cardinality(O) /\ Cardinality(R) \in Nat
    BY <2>2, <2>4, FS_Injection, FS_CardinalityType
  <2>6. Cardinality(O) <= Slots[g] /\ Slots[g] \in Nat
    BY <1>1, ConfigAssumption DEF BookInv, SizeInv, Bounded, O
  <2>7. Cardinality(R) <= Slots[g]
    BY <2>2, <2>5, <2>6
  <2>. QED
    BY <2>7 DEF R
<1>. QED
  BY <1>1, TypeCorrect, BookInvariant, PTL

(* A lease number names one placement of one job for ever.                 *)
THEOREM LeasesUnique == Spec => []LeasesNameOnePlacement
<1>1. ASSUME TypeOK, BookInv PROVE LeasesNameOnePlacement
  <2>1. Numbered(disk) /\ disk.next \in Nat
    BY <1>1 DEF BookInv, LeaseInv, TypeOK, CoreType
  <2>2. \A i \in Ids : LeasesOf(i) = Leases(Record(disk, i))
    BY DEF LeasesOf, Leases, Durable
  <2>3. ASSUME NEW i \in Ids PROVE \A l \in LeasesOf(i) : l < disk.next
    <3>1. LeasesOf(i) \subseteq NoLease..(disk.next - 1)
      BY <2>1, <2>2 DEF Numbered
    <3>. QED
      BY <2>1, <3>1 DEF NoLease
  <2>4. \A i \in Ids : Durable(i).lease \notin Durable(i).superseded
    BY <2>1 DEF Numbered, Tidy, Durable
  <2>5. \A i, k \in Ids : i # k => LeasesOf(i) \cap LeasesOf(k) \subseteq {NoLease}
    BY <2>1, <2>2 DEF Numbered
  <2>. QED
    BY <2>3, <2>4, <2>5 DEF LeasesNameOnePlacement
<1>. QED
  BY <1>1, TypeCorrect, BookInvariant, PTL

(* Service::open refuses no pair of files the broker leaves behind.        *)
THEOREM NeverRefused == Spec => []ReopenNeverRefused
<1>1. ASSUME TypeOK, SendInv, BookInv PROVE ReopenNeverRefused
  <2>1. disk.archived <= Cardinality(Archived) /\ disk.archived \in Nat
        /\ Cardinality(Archived) \in Nat
    BY <1>1, ArchivedFinite DEF BookInv, CountInv, TypeOK, CoreType
  <2>2. \A i \in Archived : disk.jobs[i].st = "none" \/ disk.jobs[i] = archive[i]
    BY <1>1 DEF SendInv, FilesInv, Agrees, Archived
  <2>. QED
    BY <2>1, <2>2 DEF ReopenNeverRefused, OpenRefused
<1>. QED
  BY <1>1, TypeCorrect, SendInvariant, BookInvariant, PTL

(* The counters a status reports are those of the archive, whether open    *)
(* rebuilt them or took them from the snapshot.                            *)
THEOREM SummaryExact == Spec => []ArchiveSummaryExact
<1>1. BookInv => ArchiveSummaryExact
  BY DEF BookInv, CountInv, ArchiveSummaryExact
<1>. QED
  BY <1>1, BookInvariant, PTL

-----------------------------------------------------------------------------
(* The ledger                                                              *)

Book == [i \in Ids |-> Entry(Durable(i))]
Used == 1..(disk.next - 1)

(* What an entry shows of a record.                                        *)
LEMMA EntryForm ==
  ASSUME NEW j
  PROVE  /\ Entry(j).lease = j.lease /\ Entry(j).backend = j.backend
         /\ Entry(j).outcome = j.outcome
         /\ j.st = "queued" => Entry(j).st = "waiting"
         /\ Crossed(j) => Entry(j).st = "sent"
         /\ j.st = "terminal" => Entry(j).st = "over"
         /\ j.st \in {"none", "placed"} => Entry(j).st = j.st
<1>1. /\ Entry(j).lease = j.lease /\ Entry(j).backend = j.backend
      /\ Entry(j).outcome = j.outcome
      /\ Entry(j).st = CASE j.st = "queued" -> "waiting"
                         [] Crossed(j) -> "sent"
                         [] j.st = "terminal" -> "over"
                         [] OTHER -> j.st
  BY DEF Entry
<1>. QED
  BY <1>1 DEF Crossed

LEMMA EntrySame ==
  ASSUME NEW j, NEW k, Same(j, k), k.st \in {"none", "queued", "placed", "dispatched",
                                             "uncertain", "terminal"}
  PROVE  Entry(k) = Entry(j)
<1>1. (CASE j.st = "queued" -> "waiting" [] Crossed(j) -> "sent"
         [] j.st = "terminal" -> "over" [] OTHER -> j.st)
      = (CASE k.st = "queued" -> "waiting" [] Crossed(k) -> "sent"
           [] k.st = "terminal" -> "over" [] OTHER -> k.st)
  BY DEF Same, Crossed
<1>. QED
  BY <1>1 DEF Entry, Same

(* What a call does to a durable record is a move of its entry.            *)
LEMMA MovesEntry ==
  ASSUME NEW j, NEW k, disk.next \in Nat, disk'.next \in Nat, NoLease < disk.next,
         k.lease \in Nat,
         k.st \in {"none", "queued", "placed", "dispatched", "uncertain", "terminal"},
         \/ Moved(j, k, disk'.next)
         \/ j.st = "placed" /\ k.st = "queued"
  PROVE  L!Moves(Entry(j), Entry(k))
<1>1. ASSUME disk.next <= k.lease, k.lease < disk'.next
      PROVE  L!Fresh(Entry(j), Entry(k))
  <2>1. k.lease \in (1..(disk'.next - 1)) \ (1..(disk.next - 1))
    BY <1>1 DEF NoLease
  <2>2. Entry(k).lease = k.lease
    BY EntryForm
  <2>. QED
    BY <2>1, <2>2 DEF L!Fresh
<1>2. CASE Same(j, k)
  BY <1>2, EntrySame DEF L!Moves
<1>3. CASE j.st = "none" /\ k.st = "queued"
  BY <1>3, EntryForm DEF L!Moves
<1>4. CASE j.st = "none" /\ k.st = "placed" /\ disk.next <= k.lease /\ k.lease < disk'.next
  BY <1>1, <1>4, EntryForm DEF L!Moves
<1>5. CASE /\ j.st = "queued" /\ (k.st = "placed" \/ Crossed(k))
           /\ disk.next <= k.lease /\ k.lease < disk'.next
  BY <1>1, <1>5, EntryForm DEF L!Moves
<1>6. CASE j.st = "queued" /\ k.st = "terminal"
  BY <1>6, EntryForm DEF L!Moves
<1>7. CASE j.st = "placed" /\ (k.st = "queued" \/ (k.st = "terminal" /\ k.lease = j.lease))
  BY <1>7, EntryForm DEF L!Moves
<1>8. CASE j.st = "placed" /\ Crossed(k) /\ k.lease = j.lease /\ k.backend = j.backend
  BY <1>8, EntryForm DEF L!Moves
<1>9. CASE Crossed(j) /\ k.st = "terminal" /\ k.lease = j.lease
  BY <1>9, EntryForm DEF L!Moves
<1>. QED
  BY <1>2, <1>3, <1>4, <1>5, <1>6, <1>7, <1>8, <1>9 DEF Moved, Hops

(* The record of a job is a job.                                           *)
LEMMA RecordType ==
  ASSUME TypeOK, NEW c \in CoreType, NEW i \in Ids
  PROVE  /\ Record(c, i) \in JobType
         /\ Record(c, i).st \in {"none", "queued", "placed", "dispatched",
                                 "uncertain", "terminal"}
         /\ Record(c, i).lease \in Nat
<1>1. Record(c, i) \in JobType
  BY DEF Record, TypeOK, CoreType
<1>2. CASE Record(c, i) = NoJob
  BY <1>1, <1>2 DEF NoJob, NoLease
<1>3. CASE Record(c, i) \in JobRecords
  BY <1>1, <1>3 DEF JobRecords
<1>. QED
  BY <1>1, <1>2, <1>3 DEF JobType

(* The ledger's slots are those the candidate gives out.                   *)
LEMMA TakenBound ==
  ASSUME TypeOK, ArchiveInv, Bounded(cand), NEW bk, NEW g \in Groups,
         \A i \in Ids : bk[i] = Entry(Record(cand, i))
  PROVE  Cardinality(L!Taken(bk, g)) <= Slots[g]
<1>1. ASSUME NEW i \in Ids, Entry(Record(cand, i)).st \in {"placed", "sent"}
      PROVE  Holds(cand.jobs[i]) /\ Entry(Record(cand, i)).backend = cand.jobs[i].backend
  <2>. DEFINE k == Record(cand, i)
  <2>1. k.st \in {"none", "queued", "placed", "dispatched", "uncertain", "terminal"}
    BY RecordType DEF TypeOK
  <2>2. Holds(k)
    BY <1>1, <2>1, EntryForm DEF Holds, Crossed
  <2>3. k = cand.jobs[i]
    BY <2>2 DEF Record, ArchiveInv, Holds
  <2>. QED
    BY <2>2, <2>3, EntryForm
<1>2. L!Taken(bk, g) \subseteq Occupied(cand, g)
  BY <1>1 DEF L!Taken, Occupied
<1>3. Occupied(cand, g) \in SUBSET Ids
  BY DEF Occupied
<1>4. Cardinality(L!Taken(bk, g)) <= Cardinality(Occupied(cand, g))
      /\ Cardinality(L!Taken(bk, g)) \in Nat /\ Cardinality(Occupied(cand, g)) \in Nat
  BY <1>2, <1>3, FewerJobs, JobsFinite
<1>5. Cardinality(Occupied(cand, g)) <= Slots[g] /\ Slots[g] \in Nat
  BY ConfigAssumption DEF Bounded
<1>. QED
  BY <1>4, <1>5

(* The ledger counts as the broker does.                                   *)
LEMMA SameCardinality == \A S : L!Cardinality(S) = Cardinality(S)
BY DEF L!Cardinality, Cardinality

(* A rename of the snapshot is a step of the ledger.                       *)
LEMMA SaveRefines ==
  ASSUME TypeOK, SendInv, BookInv, SaveTerminal \/ Commit
  PROVE  L!Step
<1>1. /\ pc # "poisoned" /\ UNCHANGED archive
      /\ disk'.jobs = cand.jobs /\ disk'.next = cand.next
      /\ \/ sent' = sent
         \/ asked # NoAsk /\ sent' = sent \cup {asked}
  BY DEF SaveTerminal, Commit, ToSave, Settled, Stamped, TypeOK, CoreType
<1>2. cand \in CoreType /\ disk.next \in Nat /\ disk'.next \in Nat /\ disk.next <= disk'.next
  BY <1>1 DEF TypeOK, CoreType, BookInv, MoveInv
<1>3. NoLease < disk.next
  BY DEF BookInv, LeaseInv, Numbered
<1>4. \A i \in Ids : Durable(i)' = Record(cand, i)
  BY <1>1 DEF Durable, Record
<1>5. /\ \A i \in Ids : Book[i] = Entry(Durable(i))
      /\ \A i \in Ids : Book'[i] = Entry(Record(cand, i))
  <2>1. \A i \in Ids : Book'[i] = Entry(Durable(i)')
    BY DEF Book, Entry, Crossed
  <2>. QED
    BY <1>4, <2>1 DEF Book
<1>6. Used \subseteq Used'
  BY <1>2 DEF Used
<1>7. \A i \in Ids : L!Moves(Book[i], Book'[i])
  <2>1. SUFFICES ASSUME NEW i \in Ids PROVE L!Moves(Entry(Durable(i)), Entry(Record(cand, i)))
    BY <1>5
  <2>2. \/ Moved(Durable(i), Record(cand, i), disk'.next)
        \/ Durable(i).st = "placed" /\ Record(cand, i).st = "queued"
    BY <1>1 DEF BookInv, MoveInv
  <2>3. /\ Record(cand, i).st \in {"none", "queued", "placed", "dispatched",
                                   "uncertain", "terminal"}
        /\ Record(cand, i).lease \in Nat
    BY <1>2, RecordType
  <2>. QED
    BY <1>2, <1>3, <2>2, <2>3, MovesEntry
<1>8. \A g \in Groups : Cardinality(L!Taken(Book', g)) <= Slots[g]
  BY <1>5, TakenBound DEF SendInv, BookInv, SizeInv
<1>9. sent' = sent \/ \E i \in Ids : L!Permit(i)
  <2>1. SUFFICES ASSUME asked # NoAsk, sent' = sent \cup {asked}
                 PROVE  L!Permit(asked[1]) /\ asked[1] \in Ids
    BY <1>1
  <2>2. /\ asked[1] \in Ids /\ Runs(cand, asked) /\ \A s \in sent : s[1] # asked[1]
        /\ asked \in Permissions
    BY <2>1 DEF SendInv, AskedInv, BookInv, RunInv, TypeOK
  <2>3. Record(cand, asked[1]) = cand.jobs[asked[1]]
    BY <2>2 DEF Record, Runs, Crossed
  <2>4. /\ Book'[asked[1]].st = "sent" /\ Book'[asked[1]].lease = asked[2]
        /\ Book'[asked[1]].backend = asked[3]
    BY <1>5, <2>2, <2>3, EntryForm DEF Runs
  <2>5. asked = <<asked[1], Book'[asked[1]].lease, Book'[asked[1]].backend>>
    BY <2>2, <2>4 DEF Permissions
  <2>. QED
    BY <2>1, <2>2, <2>4, <2>5 DEF L!Permit, Book
<1>10. L!Step <=> /\ Used \subseteq Used'
                  /\ \A i \in Ids : L!Moves(Book[i], Book'[i])
                  /\ \A g \in Groups : Cardinality(L!Taken(Book', g)) <= Slots[g]
                  /\ sent' = sent \/ \E i \in Ids : L!Permit(i)
  BY SameCardinality DEF L!Step, Book, Used
<1>. QED
  BY <1>6, <1>7, <1>8, <1>9, <1>10

(* The files of the broker implement the ledger: every step of calls,      *)
(* saves, crashes and restarts is one of its steps, or a stutter.          *)
THEOREM LedgerKept == Spec => ImplementsLedger
<1>1. Init => L!Init
  <2>1. SUFFICES ASSUME Init PROVE L!Init
    OBVIOUS
  <2>2. /\ disk = NewCore /\ archive = [i \in Ids |-> NoJob] /\ sent = {}
    BY <2>1 DEF Init
  <2>3. disk.next = 1 /\ \A i \in Ids : disk.jobs[i] = NoJob /\ archive[i] = NoJob
    BY <2>2 DEF NewCore
  <2>4. \A i \in Ids : Durable(i) = NoJob
    BY <2>3 DEF Durable, Record
  <2>5. Entry(NoJob) = L!Blank
    BY DEF Entry, NoJob, L!Blank, NoLease, NoBackend, Crossed
  <2>6. 1..(disk.next - 1) = {}
    BY <2>3
  <2>. QED
    BY <2>2, <2>4, <2>5, <2>6 DEF L!Init
<1>2. TypeOK /\ SendInv /\ BookInv /\ [Next]_vars
      => [L!Step]_<<Book, Used, sent>>
  <2>1. SUFFICES ASSUME TypeOK, SendInv, BookInv, [Next]_vars
                 PROVE  [L!Step]_<<Book, Used, sent>>
    OBVIOUS
  <2>2. CASE UNCHANGED <<disk, archive, sent>>
    BY <2>2 DEF Book, Used, Durable, Record, Entry, Crossed
  <2>3. CASE SaveTerminal \/ Commit
    BY <2>1, <2>3, SaveRefines
  <2>4. ASSUME NEW n \in Ids, ArchiveReceipt(n)
        PROVE  UNCHANGED <<Book, Used, sent>>
    <3>1. cand.jobs[n].st = "terminal" /\ UNCHANGED <<disk, sent>> /\ pc = "archive"
      BY <2>4 DEF ArchiveReceipt, FirstTerminal, TerminalIds
    <3>2. disk.jobs[n] = cand.jobs[n]
      BY <2>1, <3>1, JobForms DEF SendInv, PhaseInv
    <3>3. \A i \in Ids : Durable(i)' = Durable(i)
      BY <2>1, <2>4, <3>1, <3>2 DEF ArchiveReceipt, Durable, Record, TypeOK
    <3>4. \A i \in Ids : Entry(Durable(i))' = Entry(Durable(i))
      BY <3>3 DEF Entry, Crossed
    <3>. QED
      BY <3>1, <3>4 DEF Book, Used
  <2>5. CASE Call
    BY <2>2, <2>5 DEF Call, Refuse, Discard, Enqueue, EnqueueAgain, Inspect, Dispatch,
       Finish, Cancel, Reschedule
  <2>6. CASE Operator
    BY <2>2, <2>6 DEF Operator, Status, Drain, Resolve, Operate
  <2>7. CASE ArchiveRefuses \/ Fault \/ Stop
    BY <2>2, <2>7 DEF ArchiveRefuses, Fault, WriteFails, Crash, Stop, SaveFailed
  <2>8. CASE PlaceNext \/ PlaceOverflows \/ Unchanged \/ Open
    BY <2>2, <2>8 DEF PlaceNext, PlaceOverflows, Unchanged, Discard, Open
  <2>9. CASE \E t \in Times : Begin(t)
    BY <2>2, <2>9 DEF Begin
  <2>10. CASE UNCHANGED vars
    BY <2>2, <2>10 DEF vars
  <2>. QED
    BY <2>1, <2>3, <2>4, <2>5, <2>6, <2>7, <2>8, <2>9, <2>10 DEF Next, Save
<1>3. Spec => L!Init /\ [][L!Step]_<<Book, Used, sent>>
  BY <1>1, <1>2, TypeCorrect, SendInvariant, BookInvariant, PTL DEF Spec
<1>4. L!Spec <=> L!Init /\ [][L!Step]_<<Book, Used, sent>>
  BY DEF L!Spec, L!ledger, Book, Used
<1>. QED
  BY <1>3, <1>4 DEF ImplementsLedger
=============================================================================
