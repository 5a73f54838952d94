------------------------- MODULE ProviderSlotProofs -------------------------
(***************************************************************************)
(* Proofs about the provider path and its inference slots: the inference   *)
(* broker takes a slot for free only when it is, and a delivered reply can *)
(* always be settled.  For any number of attempts, prompts, bodies and     *)
(* faults, as long as the key broker can write its ticket journal.         *)
(*                                                                         *)
(* Three parties report on a slot: the gateway's guard, the controller and *)
(* the broker itself.  GuardInv says that a guard is held for one frame    *)
(* and that a report is of the frame that left; RecoverInv that an attempt *)
(* which left keeps its lease and its funds for as long as its reply is    *)
(* heard or awaited.                                                       *)
(***************************************************************************)
EXTENDS ProviderPaidProofs

-----------------------------------------------------------------------------
(* The inductive invariant of frames and slots                             *)

JobFields == {"st", "lease", "stale", "out"}

(* The request an attempt, a command or the gateway is about.              *)
Ask(r) == <<r.prompt, r.body>>

(* A dispatched job is not placed again.                                   *)
Dispatched == {"sent", "uncertain"}
Launched == Dispatched \cup {"over"}

(* The broker takes the slot of the job for free; it is free.              *)
Freed(k) == job[k].st = "over" /\ job[k].out \in {"ended", "notsent"}
Free(k) == \A a \in Attempts : Request(a) = k => a \notin exec /\ key[a] # "held"

(* Without the broker there are no jobs.                                   *)
JobInv ==
  /\ DOMAIN job = Jobs
  /\ \A k \in Jobs : /\ DOMAIN job[k] = JobFields
                     /\ ~Homelab => job[k].st = "none" /\ job[k].stale = {}
                     /\ Freed(k) => Free(k)
  /\ gw.pc \in {"prepare", "enqueue", "queued"} => Homelab

(* A reply the journal, a command or the gateway knows was received.       *)
ReplyInv ==
  /\ \A a \in exec : a \in Attempts /\ key[a] \in {"sent", "cut"}
  /\ journal.attempt.id = 0 => journal.attempt = NoAttempt
  /\ journal.attempt.outcome \in Received => key[journal.attempt.id] \in Received
  /\ \A r \in journal.replays : r.att # 0 => key[r.att] \in Received
  /\ \A c \in Queued : c.op = "outcome" /\ c.out \in Received => key[c.att] \in Received
  /\ gw.pc = "drop" => /\ gw.out \in {"notsent", "uncertain"} \cup Received
                       /\ gw.out \in Received => key[gw.att] \in Received

(* The gateway handed over the frame of its own placement, or none.        *)
Handed == gw.pc \in {"inflight", "drop"}
Dispatching == live /\ (gw.pc = "forward" \/ (gw.pc = "before" /\ gw.reply = "ok"))

(* What may have left was dispatched; a guard is held for nothing else.    *)
SlotInv ==
  \A a \in Attempts : Request(a) \in Jobs =>
    /\ Homelab /\ key[a] \notin Lapsed => job[Request(a)].st \in Launched
    /\ gw.lease # 0 /\ Request(a) = Ask(gw) /\ ~(Handed /\ a = gw.att) => key[a] \in Lapsed
    /\ Homelab /\ Dispatching /\ a = gw.att => job[Request(a)].st \in Dispatched

GuardInv == JobInv /\ ReplyInv /\ SlotInv

-----------------------------------------------------------------------------
(* What becomes of the jobs                                                *)

(* A dispatched job stays dispatched or is over; a slot is given back only *)
(* when it is free.                                                        *)
JobsKept ==
  /\ DOMAIN job' = Jobs /\ UNCHANGED route
  /\ \A k \in Jobs : /\ DOMAIN job'[k] = JobFields
                     /\ ~Homelab => job'[k] = job[k]
                     /\ job[k].st \in Launched => job'[k].st \in Launched
                     /\ Freed(k)' => Free(k)
StaysDispatched == \A k \in Jobs : job[k].st \in Dispatched => job'[k].st \in Dispatched

LEMMA JobUnchanged ==
  ASSUME JobInv, UNCHANGED <<job, route>>
  PROVE  JobsKept /\ StaysDispatched
BY DEF JobInv, JobsKept, StaysDispatched, Freed

(* The record of one job changes.                                          *)
LEMMA JobMoves ==
  ASSUME JobInv, UNCHANGED route, NEW k, NEW r, job' = [job EXCEPT ![k] = r],
         k \in Jobs => /\ DOMAIN r = JobFields /\ Homelab
                       /\ job[k].st \in Launched => r.st \in Launched
                       /\ r.st = "over" /\ r.out \in {"ended", "notsent"} => Freed(k) \/ Free(k)
  PROVE  /\ JobsKept
         /\ (k \in Jobs => (job[k].st \in Dispatched => r.st \in Dispatched)) => StaysDispatched
<1>1. DOMAIN job' = Jobs /\ \A x \in Jobs : job'[x] = IF x = k THEN r ELSE job[x]
  BY DEF JobInv
<1>2. ASSUME NEW x \in Jobs, x # k
      PROVE  job'[x] = job[x]
  BY <1>1, <1>2
<1>3. CASE k \in Jobs
  <2>1. job'[k] = r /\ Homelab
    BY <1>1, <1>3
  <2>2. Freed(k)' => Free(k)
    BY <1>3, <2>1 DEF JobInv, Freed
  <2> QED
    BY <1>1, <1>2, <1>3, <2>1, <2>2 DEF JobInv, JobsKept, StaysDispatched, Freed
<1>4. CASE k \notin Jobs
  BY <1>1, <1>2, <1>4 DEF JobInv, JobsKept, StaysDispatched, Freed
<1> QED
  BY <1>3, <1>4

(* A finish the broker accepts frees the slot only if it says so.          *)
LEMMA FinishedMoves ==
  ASSUME JobInv, UNCHANGED route, NEW k, NEW l, NEW out, FinishAccepted(k, l, out),
         job' = Finished(k, l, out),
         k \in Jobs => out = "uncertain" \/ Free(k)
  PROVE  JobsKept
<1>1. CASE job' = job
  BY <1>1, JobUnchanged
<1>2. CASE job' # job
  <2>1. /\ l \notin job[k].stale /\ job[k].st \in {"placed", "sent", "uncertain"}
        /\ job' = IF out = "uncertain" THEN [job EXCEPT ![k].st = "uncertain"]
                  ELSE [job EXCEPT ![k].st = "over", ![k].out = out]
    BY <1>2, Zenon DEF Finished, FinishAccepted
  <2>2. k \in Jobs => Homelab
    BY <2>1 DEF JobInv
  <2>3. CASE out = "uncertain"
    <3>1. job' = [job EXCEPT ![k] = [job[k] EXCEPT !.st = "uncertain"]]
      BY <2>1, <2>3
    <3>2. PICK r : r = [job[k] EXCEPT !.st = "uncertain"]
      OBVIOUS
    <3>3. k \in Jobs => DOMAIN r = JobFields /\ r.st = "uncertain"
      BY <3>2 DEF JobInv, JobFields
    <3> QED
      BY <2>2, <3>1, <3>2, <3>3, JobMoves DEF Launched, Dispatched
  <2>4. CASE out # "uncertain"
    <3>1. PICK r : r = [job[k] EXCEPT !.st = "over", !.out = out]
      OBVIOUS
    <3>2. job' = [job EXCEPT ![k] = r]
      <4>1. [job EXCEPT ![k].st = "over", ![k].out = out]
              = [job EXCEPT ![k] = [job[k] EXCEPT !.st = "over", !.out = out]]
        BY DEF JobInv
      <4> QED
        BY <2>1, <2>4, <3>1, <4>1
    <3>3. k \in Jobs => DOMAIN r = JobFields /\ r.st = "over"
      BY <3>1, Zenon DEF JobInv, JobFields
    <3> QED
      BY <2>2, <2>4, <3>2, <3>3, JobMoves DEF Launched
  <2> QED
    BY <2>3, <2>4
<1> QED
  BY <1>1, <1>2

(* A frame that is the current attempt's own, refused or received.         *)
LEMMA AttemptFree ==
  ASSUME GroundInv, OnceInv, ReplyInv, journal.attempt.id # 0,
         key[journal.attempt.id] \in Lapsed \cup Received
  PROVE  Free(Ask(journal.attempt))
<1>1. Request(journal.attempt.id) = Ask(journal.attempt)
  BY DEF OnceInv, RequestInv, Ask
<1>2. PICK i \in Attempts : i = journal.attempt.id
  BY OpenedAttempt DEF GroundInv
<1>3. SUFFICES ASSUME NEW a \in Attempts, Request(a) = Request(i)
               PROVE  a \notin exec /\ key[a] # "held"
  BY <1>1, <1>2 DEF Free
<1>4. key[a] \in Lapsed \cup Received
  BY <1>2, <1>3 DEF OnceInv, PairInv
<1>5. key[a] \notin {"sent", "cut", "held"}
  BY <1>4 DEF Lapsed, Received
<1> QED
  BY <1>5 DEF ReplyInv

(* The frames of the request a guard is held for.                          *)
LEMMA GuardFree ==
  ASSUME ReplyInv, SlotInv, gw.lease # 0, Ask(gw) \in Jobs,
         Handed => key[gw.att] \in Lapsed \cup Received
  PROVE  Free(Ask(gw))
<1>1. SUFFICES ASSUME NEW a \in Attempts, Request(a) = Ask(gw)
               PROVE  a \notin exec /\ key[a] # "held"
  BY DEF Free
<1>2. key[a] \in Lapsed \cup Received
  BY <1>1 DEF SlotInv
<1>3. key[a] \notin {"sent", "cut", "held"}
  BY <1>2 DEF Lapsed, Received
<1> QED
  BY <1>3 DEF ReplyInv

(* Placement::finish by the controller: it says not sent, or ended, only   *)
(* of an attempt whose frame lapsed, or was answered.                      *)
LEMMA FinishPlacementMoves ==
  ASSUME GroundInv, OnceInv, JobInv, ReplyInv, NEW out, FinishPlacement(journal.attempt, out),
         journal.attempt.id # 0 =>
           out = "uncertain" \/ key[journal.attempt.id] \in Lapsed \cup Received
  PROVE  JobsKept
<1>1. UNCHANGED route
  BY DEF FinishPlacement, terms
<1>2. CASE journal.attempt.lease = 0
  BY <1>1, <1>2, JobUnchanged DEF FinishPlacement
<1>3. CASE journal.attempt.lease # 0
  <2>1. journal.attempt.id # 0
    BY <1>3, NoPendingOp DEF ReplyInv, NoAttempt
  <2>2. PICK k : k = Ask(journal.attempt)
    OBVIOUS
  <2>3. /\ FinishAccepted(k, journal.attempt.lease, out)
        /\ job' = Finished(k, journal.attempt.lease, out)
    BY <1>3, <2>2 DEF FinishPlacement, FinishOk, Ask
  <2>4. out = "uncertain" \/ Free(k)
    BY <2>1, <2>2, AttemptFree
  <2> QED
    BY <1>1, <2>3, <2>4, FinishedMoves
<1> QED
  BY <1>2, <1>3

(* The controller finishes a placement, dispatches it, or leaves it alone. *)
LEMMA HandlersJobs ==
  ASSUME PurseInv, SendInv, OnceInv, JobInv, ReplyInv, Controller \/ AbortRefused
  PROVE  JobsKept /\ (Dispatching => StaysDispatched)
<1>0. GroundInv /\ Shapes
  BY DEF PurseInv, SendInv
<1>1. CASE UNCHANGED slot
  BY <1>1, JobUnchanged DEF slot, terms
<1>2. Unsent => key[journal.attempt.id] \in Lapsed \/ journal.attempt.id = 0
  <2>1. journal.attempt.id # 0 => journal.attempt.id \in Attempts
    BY <1>0, OpenedAttempt DEF GroundInv
  <2> QED
    BY <2>1 DEF Unsent, SendInv, PaidInv, Lapsed
<1>3. Dispatching => ctl.pc = "loop" /\ ctl.mode = "prompt"
  BY DEF Dispatching, SendInv, GateInv, Granted
<1>4. CASE RetireRefused
  <2>1. UNCHANGED slot \/ (Unsent /\ FinishPlacement(journal.attempt, "notsent"))
    BY <1>4, Zenon DEF RetireRefused
  <2>2. ctl.pc # "loop"
    BY <1>4 DEF RetireRefused
  <2> QED
    BY <1>0, <1>1, <1>2, <1>3, <2>1, <2>2, FinishPlacementMoves
<1>5. CASE AbortRefused
  <2>1. Unsent /\ FinishPlacement(journal.attempt, "notsent") /\ ctl.mode = "ready"
    BY <1>5 DEF AbortRefused, AtEase
  <2> QED
    BY <1>0, <1>2, <1>3, <2>1, FinishPlacementMoves
<1>6. CASE RecoverDelivered
  <2>1. UNCHANGED slot \/ (Delivered /\ FinishPlacement(journal.attempt, "ended"))
    BY <1>6, Zenon DEF RecoverDelivered
  <2>2. Delivered /\ journal.attempt.id # 0 => key[journal.attempt.id] \in Received
    BY DEF Delivered, ReplyInv
  <2>3. ctl.pc # "loop"
    BY <1>6 DEF RecoverDelivered
  <2> QED
    BY <1>0, <1>1, <1>3, <2>1, <2>2, <2>3, FinishPlacementMoves
<1>7. CASE AuditEvidence
  <2>1. UNCHANGED slot \/ FinishPlacement(journal.attempt, AuditPath)
    BY <1>7, Zenon DEF AuditEvidence
  <2>2. ctl.pc # "loop"
    BY <1>7 DEF AuditEvidence
  <2>3. PICK out : out = AuditPath
    OBVIOUS
  <2>4. journal.attempt.id # 0 =>
          out = "uncertain" \/ key[journal.attempt.id] \in Lapsed \cup Received
    BY <1>2, <2>3 DEF AuditPath, SendInv, PaidInv, ReplyInv
  <2> QED
    BY <1>0, <1>1, <1>3, <2>1, <2>2, <2>3, <2>4, FinishPlacementMoves
<1>8. CASE ProviderBeforeSend
  <2>1. PICK k : k = Ask(journal.attempt)
    OBVIOUS
  <2>2. UNCHANGED route
    BY <1>8 DEF ProviderBeforeSend, terms
  <2>3. CASE UNCHANGED job
    BY <2>2, <2>3, JobUnchanged
  <2>4. CASE job' # job
    <3>1. Homelab /\ job' = [job EXCEPT ![k].st = "sent"]
      BY <1>8, <2>1, <2>4, Zenon DEF ProviderBeforeSend, Ask
    <3>2. PICK r : r = [job[k] EXCEPT !.st = "sent"]
      OBVIOUS
    <3>3. k \in Jobs => DOMAIN r = JobFields /\ r.st = "sent"
      BY <3>2 DEF JobInv, JobFields
    <3>4. job' = [job EXCEPT ![k] = r]
      BY <3>1, <3>2
    <3> QED
      BY <2>2, <3>1, <3>3, <3>4, JobMoves DEF Launched, Dispatched
  <2> QED
    BY <2>3, <2>4
<1>9. CASE CallReturns \/ RetryPending
  BY <1>1, <1>9 DEF CallReturns, CallConfirmed, CallRefused, CallBeforeSpawn, CallUncertain,
     SettleAfresh, RetryPending
<1>10. ASSUME NEW pc, NEW label, AfterSettle(pc, label, "clear")
       PROVE  UNCHANGED slot
  BY <1>10 DEF AfterSettle
<1>11. CASE \/ ProviderPrepare \/ ProviderReserve \/ ProviderOutcome \/ ProviderDelivery
            \/ ProviderSettle \/ ReserveAttach \/ ReserveMark \/ ReserveSubmit \/ ReservePermit
            \/ ReserveFails \/ ForgetAttempt \/ RecoveredDelivery \/ FenceProvider \/ FencedPurse
            \/ AuditSettle \/ Aborted
  BY <1>1, <1>11 DEF ProviderPrepare, ProviderReserve, ProviderOutcome, ProviderDelivery,
     ProviderSettle, ReserveAttach, ReserveMark, ReserveSubmit, ReservePermit, ReserveFails,
     ReserveStops, ForgetAttempt, RecoveredDelivery, FenceProvider, FencedPurse, AuditSettle, Aborted
<1> QED
  BY <1>1, <1>4, <1>5, <1>6, <1>7, <1>8, <1>9, <1>10, <1>11 DEF Controller

(* A job's record gets two new fields.                                     *)
LEMMA TwoFields ==
  ASSUME JobInv, NEW k, NEW v, NEW w
  PROVE  /\ [job EXCEPT ![k].st = v, ![k].out = w]
              = [job EXCEPT ![k] = [job[k] EXCEPT !.st = v, !.out = w]]
         /\ [job EXCEPT ![k].st = v, ![k].lease = w]
              = [job EXCEPT ![k] = [job[k] EXCEPT !.st = v, !.lease = w]]
BY DEF JobInv

(* Guard::drop: not sent when nothing was handed over or the frame lapsed, *)
(* ended when it was answered.                                             *)
LEMMA GuardFinishMoves ==
  ASSUME JobInv, ReplyInv, SlotInv, UNCHANGED route, NEW out, GuardFinish(out),
         Handed => out = "uncertain" \/ key[gw.att] \in Lapsed \cup Received
  PROVE  JobsKept
<1>1. CASE UNCHANGED job
  BY <1>1, JobUnchanged
<1>2. CASE job' # job
  <2>1. PICK k : k = Ask(gw)
    OBVIOUS
  <2>2. gw.lease # 0 /\ FinishAccepted(k, gw.lease, out) /\ job' = Finished(k, gw.lease, out)
    BY <1>2, <2>1, Zenon DEF GuardFinish, Ask
  <2>3. k \in Jobs => out = "uncertain" \/ Free(k)
    BY <2>1, <2>2, GuardFree
  <2> QED
    BY <2>2, <2>3, FinishedMoves
<1> QED
  BY <1>1, <1>2

(* The job is enqueued, or the request failed before it was.               *)
LEMMA EnqueuedJob ==
  ASSUME PlanEnqueue, NEW k, k = Ask(gw), NEW r,
         r = [job[k] EXCEPT !.st = IF job[k].st = "none" THEN "waiting" ELSE job[k].st]
  PROVE  UNCHANGED job \/ job' = [job EXCEPT ![k] = r]
<1>1. UNCHANGED job \/ job' = [job EXCEPT ![k].st = IF @ = "none" THEN "waiting" ELSE @]
  BY DEF PlanEnqueue, Ask
<1> QED
  BY <1>1

LEMMA GatewayJobs ==
  ASSUME SendInv, JobInv, ReplyInv, SlotInv, Gateway \/ (\E b \in Bodies : Accept(b))
  PROVE  JobsKept /\ (Dispatching => StaysDispatched)
<1>1. CASE UNCHANGED slot
  BY <1>1, JobUnchanged DEF slot, terms
<1>2. CASE PlanEnqueue
  <2>1. PICK k : k = Ask(gw)
    OBVIOUS
  <2>2. gw.pc = "enqueue" /\ UNCHANGED route
    BY <1>2 DEF PlanEnqueue, terms
  <2>3. PICK r : r = [job[k] EXCEPT !.st = IF job[k].st = "none" THEN "waiting" ELSE job[k].st]
    OBVIOUS
  <2>4. UNCHANGED job \/ job' = [job EXCEPT ![k] = r]
    BY <1>2, <2>1, <2>3, EnqueuedJob
  <2>5. k \in Jobs => /\ DOMAIN r = JobFields /\ r.out = job[k].out
                      /\ r.st = IF job[k].st = "none" THEN "waiting" ELSE job[k].st
    BY <2>3 DEF JobInv, JobFields
  <2>6. Homelab /\ ~Dispatching
    BY <2>2 DEF JobInv, Dispatching
  <2>7. CASE UNCHANGED job
    BY <2>2, <2>7, JobUnchanged
  <2>8. CASE job' = [job EXCEPT ![k] = r]
    BY <2>2, <2>5, <2>6, <2>8, JobMoves DEF Launched, Dispatched, Freed
  <2> QED
    BY <2>4, <2>7, <2>8
<1>3. CASE PlanPoll
  <2>1. PICK k : k = Ask(gw)
    OBVIOUS
  <2>2. /\ gw.pc = "queued" /\ UNCHANGED route
        /\ \/ UNCHANGED job
           \/ job' = [job EXCEPT ![k].st = "over", ![k].out = "dropped"]
    BY <1>3, <2>1 DEF PlanPoll, Ask, terms
  <2>3. Homelab /\ ~Dispatching
    BY <2>2 DEF JobInv, Dispatching
  <2>4. CASE UNCHANGED job
    BY <2>2, <2>4, JobUnchanged
  <2>5. CASE job' = [job EXCEPT ![k].st = "over", ![k].out = "dropped"]
    <3>1. PICK r : r = [job[k] EXCEPT !.st = "over", !.out = "dropped"]
      OBVIOUS
    <3>2. job' = [job EXCEPT ![k] = r]
      BY <2>5, <3>1, TwoFields
    <3>3. k \in Jobs => DOMAIN r = JobFields /\ r.st = "over" /\ r.out = "dropped"
      BY <3>1, Zenon DEF JobInv, JobFields
    <3> QED
      BY <2>2, <2>3, <3>2, <3>3, JobMoves DEF Launched
  <2> QED
    BY <2>2, <2>4, <2>5
<1>4. CASE DropGuard
  <2>1. PICK out : out = IF gw.out \in Received THEN "ended" ELSE gw.out
    OBVIOUS
  <2>2. GuardFinish(out) /\ gw.pc = "drop" /\ UNCHANGED route
    BY <1>4, <2>1 DEF DropGuard, terms
  <2>3. out = "uncertain" \/ key[gw.att] \in Lapsed \cup Received
    BY <2>1, <2>2 DEF ReplyInv, SendInv, GateInv
  <2> QED
    BY <2>2, <2>3, GuardFinishMoves DEF Dispatching
<1>5. CASE ReleaseGuard
  <2>1. GuardFinish("notsent") /\ gw.pc = "release" /\ UNCHANGED route
    BY <1>5 DEF ReleaseGuard, terms
  <2> QED
    BY <2>1, GuardFinishMoves DEF Dispatching, Handed
<1>6. CASE \/ PrepareAnswered \/ ReserveAnswered \/ BeforeAnswered \/ Forward \/ ForwardEnds
           \/ OutcomeAnswered \/ Deliver \/ DeliveryAnswered \/ (\E b \in Bodies : Accept(b))
  BY <1>1, <1>6 DEF PrepareAnswered, ReserveAnswered, BeforeAnswered, Forward, ForwardEnds,
     OutcomeAnswered, Deliver, DeliveryAnswered, Accept
<1> QED
  BY <1>2, <1>3, <1>4, <1>5, <1>6 DEF Gateway

LEMMA BrokerJobs ==
  ASSUME JobInv, Broker
  PROVE  JobsKept /\ StaysDispatched
<1>1. CASE BrokerRestarts
  <2>1. Homelab /\ UNCHANGED route /\ DOMAIN job' = Jobs
    BY <1>1 DEF BrokerRestarts, terms
  <2>2. ASSUME NEW k \in Jobs
        PROVE  \/ job'[k] = job[k]
               \/ /\ DOMAIN job'[k] = JobFields
                  /\ job[k].st = "placed" /\ job'[k].st = "waiting"
               \/ /\ DOMAIN job'[k] = JobFields
                  /\ job[k].st = "sent" /\ job'[k].st = "uncertain"
    <3> DEFINE w == [job[k] EXCEPT !.st = "waiting", !.stale = job[k].stale \cup {job[k].lease},
                                   !.lease = 0]
               u == [job[k] EXCEPT !.st = "uncertain"]
    <3>1. /\ job[k].st = "placed" => job'[k] = w
          /\ job[k].st = "sent" => job'[k] = u
          /\ job[k].st \notin {"placed", "sent"} => job'[k] = job[k]
      BY <1>1 DEF BrokerRestarts
    <3>2. DOMAIN w = JobFields /\ w.st = "waiting" /\ DOMAIN u = JobFields /\ u.st = "uncertain"
      BY Zenon DEF JobInv, JobFields
    <3> QED
      BY <3>1, <3>2
  <2>3. ASSUME NEW k \in Jobs
        PROVE  Freed(k)' => Free(k)
    BY <2>2 DEF JobInv, Freed
  <2> QED
    BY <2>1, <2>2, <2>3 DEF JobInv, JobsKept, StaysDispatched, Launched, Dispatched
<1>2. CASE \E k \in Jobs : BrokerPlaces(k) \/ BrokerDrops(k)
  <2>1. PICK k \in Jobs : BrokerPlaces(k) \/ BrokerDrops(k)
    BY <1>2
  <2>2. PICK x, y : /\ x = [job[k] EXCEPT !.st = "placed", !.lease = serial + 1]
                    /\ y = [job[k] EXCEPT !.st = "over", !.out = "dropped"]
    OBVIOUS
  <2>3. /\ UNCHANGED route /\ job[k].st \in {"waiting", "placed"}
        /\ job' = [job EXCEPT ![k] = x] \/ job' = [job EXCEPT ![k] = y]
    BY <2>1, <2>2, TwoFields DEF BrokerPlaces, BrokerDrops, terms
  <2>4. /\ DOMAIN x = JobFields /\ DOMAIN y = JobFields
        /\ x.st = "placed" /\ y.st = "over" /\ y.out = "dropped"
    BY <2>2, Zenon DEF JobInv, JobFields
  <2>5. Homelab
    BY <2>3 DEF JobInv
  <2> QED
    BY <2>3, <2>4, <2>5, JobMoves DEF Launched, Dispatched
<1> QED
  BY <1>1, <1>2 DEF Broker

-----------------------------------------------------------------------------
(* What a handler does to gateway, commands and attempt                    *)

(* The gateway may get an answer; commands only leave.                     *)
Answered == /\ DOMAIN gw' = GatewayFields /\ gw'.pc = gw.pc /\ gw'.out = gw.out
            /\ gw'.prompt = gw.prompt /\ gw'.body = gw.body /\ gw'.lease = gw.lease
            /\ gw'.att = gw.att \/ gw.pc = "reserve"
            /\ gw'.reply = gw.reply \/ gw.pc # "before" \/ ProviderBeforeSend
            /\ Queued' \subseteq Queued

LEMMA ReplyKeeps ==
  ASSUME DOMAIN gw = GatewayFields, NEW op, NEW r, Reply(op, r),
         op \in {"prepare", "reserve", "outcome", "delivery"} \/ ProviderBeforeSend,
         r = "permit" => op = "reserve", Queued' \subseteq Queued
  PROVE  Answered
<1> DEFINE x == IF r = "permit" THEN journal.attempt.id ELSE gw.att
<1>1. gw' = gw \/ (gw.pc = op /\ gw' = [gw EXCEPT !.reply = r, !.att = x])
  BY Zenon DEF Reply
<1>2. gw.pc = op => x = gw.att \/ gw.pc = "reserve"
  OBVIOUS
<1> HIDE DEF x
<1>3. CASE gw.pc = op /\ gw' = [gw EXCEPT !.reply = r, !.att = x]
  <2>1. /\ DOMAIN gw' = GatewayFields /\ gw'.pc = gw.pc /\ gw'.out = gw.out
        /\ gw'.prompt = gw.prompt /\ gw'.body = gw.body /\ gw'.lease = gw.lease /\ gw'.att = x
    BY <1>3, Zenon DEF GatewayFields
  <2>2. gw.pc # "before" \/ ProviderBeforeSend
    BY <1>3
  <2> QED
    BY <1>2, <1>3, <2>1, <2>2 DEF Answered
<1> QED
  BY <1>1, <1>3 DEF Answered

(* The handlers leave the frames, the lease of the gateway and the terms   *)
(* of the inference broker alone.                                          *)
LEMMA HandlersLeave ==
  ASSUME GroundInv, Controller \/ AbortRefused
  PROVE  UNCHANGED <<live, open, key, exec, serial, route>> /\ Answered
<1>0. /\ DOMAIN gw = GatewayFields
      /\ (UNCHANGED <<gw, cmds>> => Answered)
      /\ (UNCHANGED cmds => Queued' \subseteq Queued)
  BY DEF GroundInv, Answered, Queued
<1>1. ASSUME NEW op, Handling(op)
      PROVE  UNCHANGED <<live, open>> /\ Queued' \subseteq Queued
  BY <1>1, HandlingEffect DEF Handling
<1>2. ASSUME CallFailed, UNCHANGED cmds
      PROVE  Answered
  BY <1>0, <1>2, ReplyKeeps DEF CallFailed
<1>3. CASE CallReturns
  <2>1. CallFailed \/ UNCHANGED gw
    BY <1>3, Zenon DEF CallReturns, CallConfirmed, CallRefused, CallBeforeSpawn, CallUncertain,
       SettleAfresh, gateway
  <2>2. UNCHANGED <<live, open, key, exec, serial, route, cmds>>
    BY <1>3 DEF CallReturns, CallConfirmed, CallRefused, CallBeforeSpawn, CallUncertain,
       SettleAfresh, gateway, upstream, slot, terms
  <2> QED
    BY <1>0, <1>2, <2>1, <2>2
<1>4. CASE ProviderPrepare \/ ProviderReserve \/ ProviderBeforeSend \/ ProviderOutcome
           \/ ProviderDelivery
  <2>1. UNCHANGED <<key, exec, serial, route>>
    BY <1>4 DEF ProviderPrepare, ProviderReserve, ProviderBeforeSend, ProviderOutcome,
       ProviderDelivery, upstream, slot, terms
  <2>2. \E op : Handling(op)
    BY <1>4, Zenon DEF ProviderPrepare, ProviderReserve, ProviderBeforeSend, ProviderOutcome,
       ProviderDelivery
  <2>3. UNCHANGED <<live, open>> /\ Queued' \subseteq Queued
    BY <1>1, <2>2
  <2>4. UNCHANGED gw => Answered
    BY <1>0, <2>3 DEF Answered
  <2>5. CASE ProviderPrepare
    <3>1. \E r \in {"err", "skip", "plan"} : Reply("prepare", r)
      BY <2>5, Zenon DEF ProviderPrepare
    <3> QED
      BY <1>0, <2>1, <2>3, <3>1, ReplyKeeps
  <2>6. CASE ProviderReserve
    <3>1. UNCHANGED gw \/ \E r \in {"err", "replay"} : Reply("reserve", r)
      BY <2>6, Zenon DEF ProviderReserve
    <3> QED
      BY <1>0, <2>1, <2>3, <2>4, <3>1, ReplyKeeps
  <2>7. CASE ProviderBeforeSend
    <3>1. \E r \in {"err", "ok"} : Reply("before", r)
      BY <2>7, Zenon DEF ProviderBeforeSend
    <3> QED
      BY <1>0, <2>1, <2>3, <2>7, <3>1, ReplyKeeps
  <2>8. CASE ProviderOutcome
    <3>1. \E r \in {"err", "ok"} : Reply("outcome", r)
      BY <2>8, Zenon DEF ProviderOutcome
    <3> QED
      BY <1>0, <2>1, <2>3, <3>1, ReplyKeeps
  <2>9. CASE ProviderDelivery
    <3>1. Reply("delivery", "ok")
      BY <2>9, Zenon DEF ProviderDelivery
    <3> QED
      BY <1>0, <2>1, <2>3, <3>1, ReplyKeeps
  <2> QED
    BY <1>4, <2>5, <2>6, <2>7, <2>8, <2>9
<1>5. CASE ReservePermit \/ ReserveFails
  <2>1. Reply("reserve", "permit") \/ Reply("reserve", "err")
    BY <1>5, Zenon DEF ReservePermit, ReserveFails, ReserveStops
  <2>2. UNCHANGED <<live, open, key, exec, serial, route, cmds>>
    BY <1>5 DEF ReservePermit, ReserveFails, ReserveStops, upstream, slot, terms
  <2> QED
    BY <1>0, <2>1, <2>2, ReplyKeeps
<1>6. CASE UNCHANGED <<live, open, key, exec, serial, route, cmds, gw>>
  BY <1>0, <1>6
<1>7. CASE ReserveAttach \/ ReserveSubmit \/ AuditSettle \/ ProviderSettle \/ ReserveMark
           \/ ForgetAttempt \/ RecoveredDelivery \/ FencedPurse \/ Aborted \/ RetryPending
           \/ FenceProvider
  BY <1>6, <1>7 DEF ReserveAttach, ReserveSubmit, AuditSettle, ProviderSettle, ReserveMark,
     ForgetAttempt, RecoveredDelivery, FencedPurse, Aborted, RetryPending, FenceProvider,
     gateway, upstream, slot, terms
<1>8. ASSUME NEW pc, NEW label, AfterSettle(pc, label, "clear")
      PROVE  UNCHANGED <<live, open, key, exec, serial, route, cmds, gw>>
  BY <1>8 DEF AfterSettle, gateway, upstream, slot, terms
<1>9. ASSUME NEW att, NEW out, FinishPlacement(att, out)
      PROVE  UNCHANGED <<serial, route>>
  BY <1>9 DEF FinishPlacement, terms
<1>10. CASE RecoverDelivered \/ AuditEvidence \/ AbortRefused \/ RetireRefused
  <2>1. UNCHANGED <<live, open, key, exec, cmds, gw>>
    BY <1>10 DEF RecoverDelivered, AuditEvidence, AbortRefused, RetireRefused, gateway, upstream
  <2>2. UNCHANGED slot \/ \E att, out : FinishPlacement(att, out)
    BY <1>10, Zenon DEF RecoverDelivered, AuditEvidence, AbortRefused, RetireRefused
  <2>3. UNCHANGED <<serial, route>>
    BY <1>9, <2>2 DEF slot, terms
  <2> QED
    BY <1>6, <2>1, <2>3
<1> QED
  BY <1>3, <1>4, <1>5, <1>6, <1>7, <1>8, <1>10 DEF Controller

(* What a handler does to the attempt: it opens one for a command, marks   *)
(* it, records its outcome, or what an audit takes for it, leaves request, *)
(* mark and outcome alone, or forgets it.                                  *)
Opened ==
  \E c \in Queued : /\ journal'.attempt.id = journal.next /\ journal'.attempt.id # 0
                    /\ Ask(journal'.attempt) = Ask(c) /\ journal'.attempt.lease = c.lease
                    /\ ~journal'.attempt.sent /\ journal'.attempt.outcome = "none"
Marked ==
  /\ RequestKept /\ journal.attempt.id # 0
  /\ journal'.attempt.outcome = journal.attempt.outcome /\ journal'.attempt.sent
Noted ==
  \E c \in Queued : /\ c.op = "outcome" /\ c.att = journal.attempt.id /\ journal.attempt.id # 0
                    /\ RequestKept /\ journal'.attempt.sent = journal.attempt.sent
                    /\ journal.attempt.outcome = "none" /\ journal'.attempt.outcome = c.out
                    /\ c.out \in Received => journal.attempt.sent
Plain ==
  \/ journal'.attempt = journal.attempt
  \/ /\ RequestKept /\ journal.attempt.id # 0
     /\ journal'.attempt.sent = journal.attempt.sent
     /\ journal'.attempt.outcome = journal.attempt.outcome
Audited ==
  /\ RequestKept /\ journal.attempt.id # 0 /\ journal'.attempt.sent = journal.attempt.sent
  /\ journal.attempt.outcome = "none" /\ journal'.attempt.outcome = "uncertain"
Remembered ==
  /\ journal'.prompt = journal.prompt /\ journal'.child = journal.child
  /\ \A r \in journal'.replays :
       r \in journal.replays \/ (/\ r.att = journal.attempt.id
                                 /\ journal.attempt.outcome \in Received)

LEMMA CoordinatesName ==
  ASSUME PurseInv, SendInv, Coordinates \/ AuditCoordinates
  PROVE  journal.attempt.id # 0 /\ cell.by = journal.attempt.id
<1>1. ~Idle(cell.status)
  BY DEF Coordinates, AuditCoordinates, Idle
<1> QED
  BY <1>1, HeldIsAttempt DEF SendInv, PaidInv

LEMMA ReserveKind ==
  ASSUME PurseInv, SendInv, ProviderReserve
  PROVE  Remembered /\ (Opened \/ Plain)
<1> DEFINE c == Head(cmds)
           a == [NoAttempt EXCEPT !.id = journal.next, !.prompt = c.prompt,
                                  !.body = c.body, !.lease = c.lease]
           j == [journal EXCEPT !.next = @ + 1, !.settlement = 0, !.attempt = a]
<1>1. c \in Queued
  BY HandlingEffect DEF ProviderReserve, SendInv
<1>2. UNCHANGED journal \/ journal' = j
  BY Zenon DEF ProviderReserve, controller
<1>3. /\ a.id = journal.next /\ a.prompt = c.prompt /\ a.body = c.body /\ a.lease = c.lease
      /\ a.sent = FALSE /\ a.outcome = "none"
  <2>1. /\ a.id = journal.next /\ a.prompt = c.prompt /\ a.body = c.body /\ a.lease = c.lease
        /\ a.sent = NoAttempt.sent /\ a.outcome = NoAttempt.outcome
    BY NoPendingOp, Zenon DEF AttemptFields
  <2> QED
    BY <2>1, NoPendingOp
<1> HIDE DEF c, a
<1>4. /\ j.attempt = a /\ j.prompt = journal.prompt /\ j.child = journal.child
      /\ j.replays = journal.replays
  BY Zenon DEF PurseInv, Shapes, JournalFields
<1> HIDE DEF j
<1>5. journal.next # 0
  BY AttemptsBound DEF SendInv, GroundInv
<1> QED
  BY <1>1, <1>2, <1>3, <1>4, <1>5 DEF Opened, Plain, Remembered, Ask

LEMMA RecordKind ==
  ASSUME PurseInv, SendInv, ProviderBeforeSend \/ ProviderOutcome
  PROVE  Remembered /\ (Marked \/ Noted \/ Plain)
<1>0. Shapes /\ GroundInv
  BY DEF PurseInv, SendInv
<1>1. CASE ProviderBeforeSend
  <2>1. JournalKept /\ RequestKept /\ (UNCHANGED journal \/ MaySend(Head(cmds)))
    BY <1>0, <1>1, BeforeSendRequest
  <2>2. MaySend(Head(cmds)) => journal.attempt.id # 0
    BY CoordinatesName DEF MaySend
  <2>3. UNCHANGED journal \/ /\ journal'.attempt.outcome = journal.attempt.outcome
                             /\ journal'.attempt.sent = TRUE
    BY <1>0, <1>1, BeforeSendEffect
  <2>4. Remembered
    BY <2>1 DEF JournalKept, Remembered
  <2>5. UNCHANGED journal => Plain
    BY DEF Plain
  <2>6. Marked \/ Plain
    BY <2>1, <2>2, <2>3, <2>5, Zenon DEF Marked
  <2> QED
    BY <2>4, <2>6
<1>2. CASE ProviderOutcome
  <2>1. Head(cmds) \in Queued /\ Head(cmds).op = "outcome"
    BY <1>0, <1>2, HandlingEffect DEF ProviderOutcome
  <2>2. Head(cmds).att # 0
    BY <2>1 DEF SendInv, GateInv
  <2>3. CASE UNCHANGED journal
    BY <2>3 DEF Remembered, Plain
  <2>4. CASE ~UNCHANGED journal
    <3>1. /\ JournalKept /\ RequestKept /\ journal.attempt.id = Head(cmds).att
          /\ journal'.attempt.outcome = Head(cmds).out
          /\ journal'.attempt.sent = journal.attempt.sent
          /\ journal.attempt.outcome = "none"
          /\ Head(cmds).out \in Received => journal.attempt.sent
      BY <1>0, <1>2, <2>4, OutcomeRequest
    <3>2. Noted
      BY <2>1, <2>2, <3>1, Zenon DEF Noted
    <3> QED
      BY <3>1, <3>2 DEF JournalKept, Remembered
  <2> QED
    BY <2>3, <2>4
<1> QED
  BY <1>1, <1>2

LEMMA PlainKind ==
  ASSUME PurseInv, SendInv, ReplyInv, Controller \/ AbortRefused,
         ~ProviderReserve, ~ProviderBeforeSend, ~ProviderOutcome
  PROVE  Remembered /\ (Plain \/ Audited \/ journal'.attempt = NoAttempt)
<1>0. Shapes /\ GroundInv
  BY DEF PurseInv, SendInv
<1>1. CASE CallReturns \/ RetryPending
  BY <1>0, <1>1, CallReturnsEffect DEF JournalKept, Remembered, Plain
<1>2. CASE UNCHANGED journal
  BY <1>2 DEF Remembered, Plain
<1>3. ASSUME NEW op, NEW label, NEW charge, NEW then, op # "none",
             BeginCall(journal, op, label, charge, then)
      PROVE  Remembered /\ Plain
  BY <1>0, <1>3, BeginCallEffect DEF Shapes, Remembered, Plain
<1>4. CASE ProviderPrepare \/ ReservePermit \/ ReserveFails \/ FencedPurse
  BY <1>2, <1>4 DEF ProviderPrepare, ReservePermit, ReserveFails, ReserveStops, FencedPurse,
     controller
<1>5. CASE ReserveAttach \/ ReserveSubmit \/ AuditSettle
  BY <1>3, <1>5 DEF ReserveAttach, ReserveSubmit, AuditSettle
<1>6. CASE ProviderSettle
  <2>1. \/ \E charge : BeginCall(journal, "settle", "settle", charge, "settled")
        \/ UNCHANGED journal
    BY <1>6, Zenon DEF ProviderSettle
  <2> QED
    BY <1>2, <1>3, <2>1
<1>7. ASSUME NEW pc, NEW label, AfterSettle(pc, label, "clear")
      PROVE  Remembered /\ Plain
  <2>1. BeginCall(journal, "disconnect", label, 0, "clear") \/ UNCHANGED journal
    BY <1>7, Zenon DEF AfterSettle
  <2> QED
    BY <1>2, <1>3, <2>1 DEF Remembered, Plain
<1>8. CASE ReserveMark \/ ProviderDelivery
  <2> DEFINE r == [att |-> journal.attempt.id, prompt |-> journal.attempt.prompt,
                   body |-> journal.attempt.body, out |-> journal.attempt.outcome]
             R == journal.replays \cup {r}
  <2>1. \/ UNCHANGED journal
        \/ \E h : journal' = [journal EXCEPT !.hold = h]
        \/ journal.attempt.outcome \in Received /\ journal' = [journal EXCEPT !.replays = R]
    BY <1>8, Zenon DEF ReserveMark, ProviderDelivery, controller
  <2>2. ASSUME NEW h, journal' = [journal EXCEPT !.hold = h]
        PROVE  Remembered /\ Plain
    BY <1>0, <2>2 DEF Shapes, JournalFields, Remembered, Plain
  <2>3. \A x \in R : x \in journal.replays \/ x.att = journal.attempt.id
    OBVIOUS
  <2> HIDE DEF R
  <2>4. CASE journal.attempt.outcome \in Received /\ journal' = [journal EXCEPT !.replays = R]
    <3>1. /\ journal'.prompt = journal.prompt /\ journal'.child = journal.child
          /\ journal'.replays = R /\ journal'.attempt = journal.attempt
      BY <1>0, <2>4 DEF Shapes, JournalFields
    <3> QED
      BY <2>3, <2>4, <3>1 DEF Remembered, Plain
  <2> QED
    BY <1>2, <2>1, <2>2, <2>4
<1>9. CASE journal' = [journal EXCEPT !.attempt = NoAttempt]
  BY <1>0, <1>9 DEF Shapes, JournalFields, Remembered
<1>10. CASE journal' = [journal EXCEPT !.attempt = NoAttempt, !.hold = NoHold]
  <2>1. /\ journal'.prompt = journal.prompt /\ journal'.child = journal.child
        /\ journal'.attempt = NoAttempt /\ journal'.replays = journal.replays
    BY <1>0, <1>10, Zenon DEF Shapes, JournalFields
  <2> QED
    BY <2>1 DEF Remembered
<1>11. CASE ForgetAttempt \/ RecoveredDelivery \/ Aborted \/ RetireRefused
  BY <1>2, <1>9, <1>10, <1>11, Zenon DEF ForgetAttempt, RecoveredDelivery, Aborted, RetireRefused
<1>12. CASE RecoverDelivered
  <2>1. \/ BeginCall(journal, "settle", "recovery_settle", Quote, "cleared")
        \/ UNCHANGED journal
        \/ journal' = [journal EXCEPT !.attempt = NoAttempt]
    BY <1>12, Zenon DEF RecoverDelivered
  <2> QED
    BY <1>2, <1>3, <1>9, <2>1
<1>13. CASE FenceProvider
  <2>1. \/ BeginCall(journal, "disconnect", "fence", 0, "fenced")
        \/ \E f : journal' = [journal EXCEPT !.fenced = f]
    BY <1>13, Zenon DEF FenceProvider
  <2>2. ASSUME NEW f, journal' = [journal EXCEPT !.fenced = f]
        PROVE  Remembered /\ Plain
    BY <1>0, <2>2 DEF Shapes, JournalFields, Remembered, Plain
  <2> QED
    BY <1>3, <2>1, <2>2
<1>14. CASE AbortRefused
  <2>1. \/ BeginCall(journal, "disconnect", "abort_disconnect", 0, "aborted")
        \/ UNCHANGED journal
    BY <1>14, Zenon DEF AbortRefused
  <2> QED
    BY <1>2, <1>3, <2>1
<1>15. CASE AuditEvidence
  <2>1. PICK j \in {journal, AuditRecorded, AuditQuoted} :
          \/ journal' = j
          \/ BeginCall(j, "disconnect", "audit_fence", 0, "audit_settle")
          \/ UNCHANGED journal
    BY <1>15, AuditCases
  <2>2. /\ DOMAIN j = JournalFields /\ j.hold = journal.hold
        /\ j.prompt = journal.prompt /\ j.child = journal.child /\ j.replays = journal.replays
        /\ j.attempt.id = journal.attempt.id /\ j.attempt.prompt = journal.attempt.prompt
        /\ j.attempt.body = journal.attempt.body /\ j.attempt.lease = journal.attempt.lease
        /\ j.attempt.sent = journal.attempt.sent
        /\ \/ j.attempt.outcome = journal.attempt.outcome
           \/ journal.attempt.outcome = "none" /\ j.attempt.outcome = "uncertain"
    BY <1>0, AuditJournal
  <2>3. ASSUME journal.attempt.id = 0
        PROVE  j.attempt = journal.attempt
    <3>1. journal.attempt = NoAttempt
      BY <2>3 DEF ReplyInv
    <3>2. ~AuditQuotes
      BY <3>1, NoPendingOp DEF AuditQuotes, AuditPath, Unsent
    <3>3. PICK o, q : o = "none" /\ q = FALSE
      OBVIOUS
    <3>4. AuditRecorded = [journal EXCEPT !.attempt.outcome = o]
      BY <3>1, <3>2, <3>3, NoPendingOp, Zenon DEF AuditRecorded
    <3>5. DOMAIN AuditRecorded = JournalFields /\ AuditRecorded.attempt = [NoAttempt EXCEPT !.outcome = o]
      BY <1>0, <3>1, <3>4 DEF Shapes, JournalFields
    <3>6. AuditRecorded.attempt = NoAttempt
      BY <3>3, <3>5 DEF NoAttempt
    <3>7. AuditQuoted = [AuditRecorded EXCEPT !.attempt.quoted = q]
      <4>1. NoAttempt.quoted = FALSE
        BY DEF NoAttempt
      <4> QED
        BY <3>2, <3>3, <3>6, <4>1, Zenon DEF AuditQuoted
    <3>8. AuditQuoted.attempt = [NoAttempt EXCEPT !.quoted = q]
      BY <3>5, <3>6, <3>7 DEF JournalFields
    <3>9. AuditQuoted.attempt = NoAttempt
      BY <3>3, <3>8 DEF NoAttempt
    <3> QED
      BY <3>1, <3>6, <3>9
  <2>4. CASE UNCHANGED journal
    BY <1>2, <2>4
  <2>5. ASSUME /\ journal'.attempt = j.attempt /\ journal'.prompt = j.prompt
               /\ journal'.child = j.child /\ journal'.replays = j.replays
        PROVE  Remembered /\ (Plain \/ Audited)
    BY <2>2, <2>3, <2>5 DEF Remembered, Plain, Audited, RequestKept
  <2>6. CASE BeginCall(j, "disconnect", "audit_fence", 0, "audit_settle")
    BY <1>0, <2>2, <2>5, <2>6, BeginCallEffect DEF Shapes
  <2> QED
    BY <2>1, <2>4, <2>5, <2>6
<1> QED
  BY <1>1, <1>4, <1>5, <1>6, <1>7, <1>8, <1>11, <1>12, <1>13, <1>14, <1>15 DEF Controller

(* Every handler, then, does one of these.                                 *)
LEMMA HandlersKind ==
  ASSUME PurseInv, SendInv, ReplyInv, Controller \/ AbortRefused
  PROVE  /\ Remembered
         /\ Opened \/ Marked \/ Noted \/ Audited \/ Plain \/ journal'.attempt = NoAttempt
BY ReserveKind, RecordKind, PlainKind

-----------------------------------------------------------------------------
(* What keeps the invariant                                                *)

(* Only an attempt that is opened gets its request.                        *)
RequestsStay == \A a \in Attempts : a # journal.next => Request(a)' = Request(a)

LEMMA RequestsKeep ==
  ASSUME OnceInv, [Next]_vars
  PROVE  RequestsStay
<1>0. DOMAIN hist = Attempts /\ \A a \in Attempts : DOMAIN hist[a] = {"prompt", "body"}
  BY DEF OnceInv, RequestInv
<1>1. CASE UNCHANGED hist
  BY <1>1 DEF RequestsStay, Request
<1>2. CASE ProviderReserve
  <2>1. UNCHANGED hist \/ \E x : hist' = [hist EXCEPT ![journal.next] = x]
    BY <1>2, Zenon DEF ProviderReserve, ghost
  <2> QED
    BY <1>0, <1>1, <2>1 DEF RequestsStay, Request
<1>4. CASE Controller /\ ~ProviderReserve
  BY <1>1, <1>4 DEF Controller, CallReturns, CallConfirmed, CallRefused, CallBeforeSpawn,
     CallUncertain, SettleAfresh, ProviderPrepare, ProviderBeforeSend, ProviderOutcome,
     ProviderDelivery,
     ProviderSettle, ReserveAttach, ReserveMark, ReserveSubmit, ReservePermit, ReserveFails,
     ReserveStops, AfterSettle, ForgetAttempt, RetryPending, RetireRefused, RecoverDelivered,
     RecoveredDelivery, FenceProvider, FencedPurse, AuditEvidence, AuditSettle, Aborted, ghost
<1>5. CASE Gateway \/ (\E b \in Bodies : Accept(b))
  BY <1>1, <1>5 DEF Gateway, PrepareAnswered, PlanEnqueue, PlanPoll, ReserveAnswered,
     BeforeAnswered, Forward, ForwardEnds, DropGuard, ReleaseGuard, OutcomeAnswered, Deliver,
     DeliveryAnswered, Accept, GatewayStep, ghost
<1>6. CASE Prompting \/ Operator \/ Crash
  BY <1>1, <1>6 DEF Prompting, StartPrompt, HardStop, WorkerDeadline, EndPrompt, Drained,
     Disconnect, Operator, Recover, ReconcileAudited, AbortRefused, Crash, ghost
<1>7. CASE Native \/ Broker \/ Upstream \/ UNCHANGED vars
  BY <1>1, <1>7 DEF Native, OwnerMoves, Custody, Broker, BrokerRestarts, BrokerPlaces,
     BrokerDrops, Upstream, BrokerRefuses, UpstreamSend, UpstreamReplies, UpstreamCut,
     UpstreamEnds, TicketJournalFails, vars, ghost
<1> QED
  BY <1>2, <1>4, <1>5, <1>6, <1>7 DEF Next

(* Nothing starts upstream, and a guard is not held for anything new.      *)
NothingStarts == \A a \in Attempts : a \in exec' \/ key'[a] = "held" => a \in exec \/ key[a] = "held"
GuardKept ==
  /\ gw'.pc \in {"prepare", "enqueue", "queued"} =>
       Homelab \/ gw.pc \in {"prepare", "enqueue", "queued"}
  /\ gw'.lease # 0 =>
       \/ /\ gw'.lease = gw.lease /\ Ask(gw') = Ask(gw)
          /\ Handed => Handed' /\ gw'.att = gw.att
       \/ Homelab /\ job[Ask(gw')].st = "placed"
  /\ Homelab /\ Dispatching' =>
       \/ Dispatching /\ StaysDispatched /\ gw'.att = gw.att
       \/ \A k \in Jobs : k = Request(gw.att)' => job'[k].st \in Dispatched

LEMMA GuardFrame ==
  ASSUME GroundInv, GuardInv, JobsKept, RequestsStay, FramesKept, NothingStarts, GuardKept
  PROVE  JobInv' /\ SlotInv'
<1>1. ASSUME NEW a \in Attempts, Request(a)' # Request(a)
      PROVE  a \notin exec' /\ key'[a] \in Lapsed /\ a # gw.att
  <2>1. a = journal.next
    BY <1>1 DEF RequestsStay
  <2>2. journal.next \in Nat /\ gw.att \in 0..(journal.next - 1)
    BY DEF GroundInv
  <2>3. key[a] = "none" /\ a # gw.att
    BY <2>1, <2>2 DEF GroundInv
  <2>4. a \notin exec
    BY <2>3 DEF GuardInv, ReplyInv
  <2> QED
    BY <2>3, <2>4 DEF NothingStarts, FramesKept, Lapsed
<1>2. JobInv'
  <2>1. ASSUME NEW k \in Jobs, Freed(k)'
        PROVE  Free(k)'
    <3>1. Free(k)
      BY <2>1 DEF JobsKept
    <3>2. ASSUME NEW a \in Attempts, Request(a)' = k
          PROVE  a \notin exec' /\ key'[a] # "held"
      <4>1. CASE Request(a) = k
        BY <3>1, <4>1 DEF Free, NothingStarts
      <4>2. CASE Request(a) # k
        BY <1>1, <3>2, <4>2 DEF Lapsed
      <4> QED
        BY <4>1, <4>2
    <3> QED
      BY <3>2 DEF Free
  <2>2. Homelab' <=> Homelab
    BY DEF JobsKept, Homelab
  <2> QED
    BY <2>1, <2>2 DEF JobsKept, JobInv, GuardInv, GuardKept
<1>3. SlotInv'
  <2>1. SUFFICES ASSUME NEW a \in Attempts, Request(a)' \in Jobs
                 PROVE  /\ Homelab' /\ key'[a] \notin Lapsed => job'[Request(a)'].st \in Launched
                        /\ gw'.lease # 0 /\ Request(a)' = Ask(gw') /\ ~(Handed' /\ a = gw'.att)
                             => key'[a] \in Lapsed
                        /\ Homelab' /\ Dispatching' /\ a = gw'.att
                             => job'[Request(a)'].st \in Dispatched
    BY Zenon DEF SlotInv, Ask, Lapsed, Launched, Dispatched
  <2>2. PICK k \in Jobs : k = Request(a)'
    BY <2>1
  <2>3. Homelab' <=> Homelab
    BY DEF JobsKept, Homelab
  <2>4. ASSUME Homelab, key'[a] \notin Lapsed
        PROVE  job'[k].st \in Launched
    <3>1. key[a] \notin Lapsed /\ Request(a) = k
      BY <1>1, <2>2, <2>4 DEF FramesKept
    <3> QED
      BY <2>4, <3>1 DEF GuardInv, SlotInv, JobsKept
  <2>5. ASSUME gw'.lease # 0, k = Ask(gw'), ~(Handed' /\ a = gw'.att), key'[a] \notin Lapsed
        PROVE  FALSE
    <3>1. key[a] \notin Lapsed /\ Request(a) = k
      BY <1>1, <2>2, <2>5 DEF FramesKept
    <3>2. CASE Homelab /\ job[Ask(gw')].st = "placed"
      BY <2>5, <3>1, <3>2 DEF GuardInv, SlotInv, Launched, Dispatched
    <3>3. CASE /\ gw'.lease = gw.lease /\ Ask(gw') = Ask(gw)
               /\ Handed => Handed' /\ gw'.att = gw.att
      BY <2>5, <3>1, <3>3 DEF GuardInv, SlotInv
    <3> QED
      BY <2>5, <3>2, <3>3 DEF GuardKept
  <2>6. ASSUME Homelab, Dispatching', a = gw'.att
        PROVE  job'[k].st \in Dispatched
    <3>1. CASE Dispatching /\ StaysDispatched /\ gw'.att = gw.att
      <4>1. Request(a) = k
        BY <1>1, <2>2, <2>6, <3>1
      <4> QED
        BY <2>6, <3>1, <4>1 DEF GuardInv, SlotInv, StaysDispatched
    <3>2. CASE \A x \in Jobs : x = Request(gw.att)' => job'[x].st \in Dispatched
      BY <2>2, <2>6, <3>2 DEF Request
    <3> QED
      BY <2>6, <3>1, <3>2 DEF GuardKept
  <2> QED
    BY <2>2, <2>3, <2>4, <2>5, <2>6
<1> QED
  BY <1>2, <1>3

(* The handlers of the controller.                                         *)
LEMMA HandlersReply ==
  ASSUME PurseInv, SendInv, ReplyInv, Controller \/ AbortRefused
  PROVE  ReplyInv'
<1>0. GroundInv
  BY DEF SendInv
<1>1. UNCHANGED <<key, exec>> /\ Answered
  BY <1>0, HandlersLeave
<1>2. /\ Remembered
      /\ Opened \/ Marked \/ Noted \/ Audited \/ Plain \/ journal'.attempt = NoAttempt
  BY HandlersKind
<1>3. NoAttempt.id = 0 /\ NoAttempt.outcome = "none" /\ "none" \notin Received
  BY DEF NoAttempt, Received
<1>4. /\ journal'.attempt.id = 0 => journal'.attempt = NoAttempt
      /\ journal'.attempt.outcome \in Received => key[journal'.attempt.id] \in Received
  <2>1. CASE Opened
    BY <1>3, <2>1 DEF Opened
  <2>2. CASE Marked
    BY <2>2 DEF Marked, RequestKept, ReplyInv
  <2>3. CASE Noted
    BY <2>3 DEF Noted, RequestKept, ReplyInv
  <2>4. CASE Plain
    BY <2>4 DEF Plain, RequestKept, ReplyInv
  <2>6. CASE Audited
    BY <2>6 DEF Audited, RequestKept, Received
  <2>5. CASE journal'.attempt = NoAttempt
    BY <1>3, <2>5
  <2> QED
    BY <1>2, <2>1, <2>2, <2>3, <2>4, <2>5, <2>6
<1>5. \A r \in journal'.replays : r.att # 0 => key[r.att] \in Received
  BY <1>2 DEF Remembered, ReplyInv
<1>6. gw'.pc = "drop" => /\ gw'.out \in {"notsent", "uncertain"} \cup Received
                         /\ gw'.out \in Received => key[gw'.att] \in Received
  BY <1>1 DEF Answered, ReplyInv
<1>7. \A c \in Queued' : c.op = "outcome" /\ c.out \in Received => key[c.att] \in Received
  BY <1>1 DEF Answered, ReplyInv
<1>8. \A a \in exec' : a \in Attempts /\ key'[a] \in {"sent", "cut"}
  BY <1>1 DEF ReplyInv
<1>9. key' = key
  BY <1>1
<1> QED
  BY <1>4, <1>5, <1>6, <1>7, <1>8, <1>9, Zenon DEF ReplyInv, Received

LEMMA HandlersGuard ==
  ASSUME PurseInv, SendInv, OnceInv, GuardInv, Controller \/ AbortRefused
  PROVE  GuardInv'
<1>0. GroundInv /\ Shapes
  BY DEF PurseInv, SendInv
<1>1. UNCHANGED <<live, key, exec>> /\ Answered
  BY <1>0, HandlersLeave
<1>2. JobsKept /\ (Dispatching => StaysDispatched)
  BY HandlersJobs DEF GuardInv
<1>3. RequestsStay
  BY RequestsKeep DEF Next, Operator
<1>4. FramesKept /\ NothingStarts
  BY <1>1 DEF FramesKept, NothingStarts
<1>5. ASSUME Homelab, Dispatching', ~Dispatching
      PROVE  \A k \in Jobs : k = Request(gw.att)' => job'[k].st \in Dispatched
  <2>1. /\ live /\ gw.pc = "before" /\ gw.reply # "ok" /\ gw'.reply = "ok"
        /\ ProviderBeforeSend /\ gw'.att = gw.att
    BY <1>1, <1>5 DEF Dispatching, Answered
  <2>2. \E r \in {"err", "ok"} : Reply("before", r) /\ (r = "ok" => MaySend(Head(cmds)) /\
          job' = [job EXCEPT ![<<journal.attempt.prompt, journal.attempt.body>>].st = "sent"])
    BY <1>5, <2>1, Zenon DEF ProviderBeforeSend
  <2>3. job' = [job EXCEPT ![<<journal.attempt.prompt, journal.attempt.body>>].st = "sent"]
    BY <1>0, <2>1, <2>2, ReplyEffect DEF GroundInv
  <2>4. journal.attempt.id = gw.att /\ gw.att # 0
    BY <2>1 DEF SendInv, GateInv, Granted
  <2>5. UNCHANGED hist
    BY <2>1 DEF ProviderBeforeSend, ghost
  <2>6. Request(gw.att)' = <<journal.attempt.prompt, journal.attempt.body>>
    BY <2>1, <2>4, <2>5 DEF OnceInv, RequestInv, Request
  <2>7. \A k \in Jobs : k = <<journal.attempt.prompt, journal.attempt.body>> =>
          job'[k] = [job[k] EXCEPT !.st = "sent"]
    BY <2>3 DEF GuardInv, JobInv
  <2> QED
    BY <2>6, <2>7 DEF GuardInv, JobInv, JobFields, Dispatched
<1>6. GuardKept
  <2>1. gw'.pc = gw.pc /\ gw'.lease = gw.lease /\ Ask(gw') = Ask(gw)
    BY <1>1 DEF Answered, Ask
  <2>2. Handed => Handed' /\ gw'.att = gw.att
    BY <1>1 DEF Answered, Handed
  <2>3. Dispatching => gw'.att = gw.att
    BY <1>1 DEF Answered, Dispatching
  <2> QED
    BY <1>2, <1>5, <2>1, <2>2, <2>3 DEF GuardKept
<1> QED
  BY <1>0, <1>2, <1>3, <1>4, <1>6, GuardFrame, HandlersReply DEF GuardInv

(* Those who leave the attempt alone and take nothing back from a frame.   *)
LEMMA ReplyFrame ==
  ASSUME SendInv, OnceInv, ReplyInv,
         journal'.attempt = journal.attempt, journal'.replays \subseteq journal.replays,
         \A a \in Attempts : key[a] \in Received => key'[a] \in Received,
         \A a \in exec' : a \in Attempts /\ key'[a] \in {"sent", "cut"},
         \A c \in Queued' : \/ c \in Queued \/ c.op # "outcome" \/ c.out \notin Received
                            \/ gw.pc = "drop" /\ c.att = gw.att /\ c.out = gw.out,
         gw'.pc = "drop" => \/ gw.pc = "drop" /\ gw'.att = gw.att /\ gw'.out = gw.out
                            \/ gw'.out \in {"notsent", "uncertain"}
                            \/ gw'.out \in Received /\ key'[gw'.att] \in Received
  PROVE  ReplyInv'
<1>0. GroundInv /\ journal.next \in Nat
  BY DEF SendInv, GroundInv
<1>1. \A a \in 1..(journal.next - 1) : a \in Attempts
  BY <1>0, OpenedAttempt
<1>2. \A a \in 0..(journal.next - 1) : a # 0 => a \in Attempts
  BY <1>0, <1>1
<1>3. {"notsent", "uncertain"} \cap Received = {}
  BY DEF Received
<1>4. /\ journal'.attempt.id = 0 => journal'.attempt = NoAttempt
      /\ journal'.attempt.outcome \in Received => key'[journal'.attempt.id] \in Received
  <2>1. journal.attempt.outcome \in Received => journal.attempt.id # 0
    BY DEF ReplyInv, NoAttempt, Received
  <2> QED
    BY <1>0, <1>2, <2>1 DEF ReplyInv, GroundInv
<1>5. \A r \in journal'.replays : r.att # 0 => key'[r.att] \in Received
  BY <1>1 DEF ReplyInv, OnceInv, RequestInv
<1>6. gw.pc = "drop" => /\ gw.out \in {"notsent", "uncertain"} \cup Received
                        /\ gw.out \in Received => key'[gw.att] \in Received
  <2>1. gw.pc = "drop" => gw.att \in Attempts
    BY <1>0, <1>2 DEF SendInv, GateInv, GroundInv
  <2> QED
    BY <2>1 DEF ReplyInv
<1>7. \A c \in Queued' : c.op = "outcome" /\ c.out \in Received => key'[c.att] \in Received
  <2>1. \A c \in Queued : c.op = "outcome" => c.att \in Attempts
    BY <1>0, <1>2 DEF SendInv, GateInv, GroundInv
  <2> QED
    BY <1>6, <2>1 DEF ReplyInv
<1>8. gw'.pc = "drop" => /\ gw'.out \in {"notsent", "uncertain"} \cup Received
                         /\ gw'.out \in Received => key'[gw'.att] \in Received
  BY <1>3, <1>6
<1> QED
  BY <1>4, <1>5, <1>7, <1>8, Zenon DEF ReplyInv, Received

(* How the gateway moves on: its guard is for the same request or a new    *)
(* placement, and an outcome it posts is the one it saw.                   *)
GatewayMoves ==
  /\ GuardKept
  /\ \A c \in Queued' : \/ c \in Queued \/ c.op # "outcome" \/ c.out \notin Received
                        \/ gw.pc = "drop" /\ c.att = gw.att /\ c.out = gw.out
  /\ gw'.pc = "drop" => \/ gw.pc = "drop" /\ gw'.att = gw.att /\ gw'.out = gw.out
                        \/ gw'.out \in {"notsent", "uncertain"}
                        \/ gw'.out \in Received /\ key[gw'.att] \in Received

(* A gateway that goes on to a step without frame, or to its end.          *)
LEMMA GoesOn ==
  ASSUME GuardInv, gw'.pc \notin {"prepare", "enqueue", "queued", "drop", "before", "forward"}
                   \/ (Homelab /\ gw'.pc \in {"prepare", "enqueue", "queued"}),
         gw'.lease # 0 => gw'.lease = gw.lease /\ Ask(gw') = Ask(gw) /\ ~Handed,
         \A c \in Queued' : c \in Queued \/ c.op # "outcome" \/ c.out \notin Received
                            \/ (gw.pc = "drop" /\ c.att = gw.att /\ c.out = gw.out)
  PROVE  GatewayMoves
<1>1. ~Dispatching' /\ gw'.pc # "drop"
  BY DEF Dispatching
<1> QED
  BY <1>1 DEF GatewayMoves, GuardKept

LEMMA LeaveGoesOn ==
  ASSUME GroundInv, GuardInv, Leave, ~Handed, UNCHANGED cmds
  PROVE  GatewayMoves
<1>0. DOMAIN gw = GatewayFields /\ Queued' = Queued
  BY DEF GroundInv, Queued
<1>1. CASE gw' = IdleGateway
  BY <1>0, <1>1, GoesOn DEF IdleGateway
<1>2. CASE gw' = [gw EXCEPT !.pc = "release", !.reply = "none"]
  <2>1. /\ gw'.pc = "release" /\ gw'.lease = gw.lease
        /\ gw'.prompt = gw.prompt /\ gw'.body = gw.body
    BY <1>0, <1>2, Zenon DEF GatewayFields
  <2> QED
    BY <1>0, <2>1, GoesOn DEF Ask
<1> QED
  BY <1>1, <1>2 DEF Leave

(* The gateway asks, waits for a placement, and leaves.                    *)
LEMMA AskingMoves ==
  ASSUME GroundInv, GuardInv,
         \/ (\E b \in Bodies : Accept(b)) \/ PrepareAnswered \/ PlanEnqueue \/ PlanPoll
  PROVE  GatewayMoves
<1>0. DOMAIN gw = GatewayFields /\ (UNCHANGED cmds => Queued' = Queued)
  BY DEF GroundInv, Queued
<1>1. CASE \E b \in Bodies : Accept(b)
  <2>1. PICK b \in Bodies : Accept(b)
    BY <1>1
  <2>2. gw'.lease = 0 /\ gw'.pc = IF Homelab THEN "prepare" ELSE "reserve"
    <3>1. PICK p, q : p = (IF Homelab THEN "prepare" ELSE "reserve") /\ q = journal.prompt
      OBVIOUS
    <3>2. gw' = [IdleGateway EXCEPT !.pc = p, !.prompt = q, !.body = b]
      BY <2>1, <3>1 DEF Accept
    <3>3. DOMAIN IdleGateway = GatewayFields /\ IdleGateway.lease = 0
      BY DEF IdleGateway, GatewayFields
    <3>4. gw'.pc = p /\ gw'.lease = IdleGateway.lease
      BY <3>2, <3>3, Zenon DEF GatewayFields
    <3> QED
      BY <3>1, <3>3, <3>4
  <2>3. Post(gw'.pc, 0, 0, "none")
    BY <2>1 DEF Accept
  <2>4. \A c \in Queued' : c \in Queued \/ c.op # "outcome"
    BY <2>2, <2>3, PostEffect
  <2> QED
    BY <2>2, <2>4, GoesOn
<1>2. CASE PrepareAnswered
  <2>0. gw.pc = "prepare" /\ Homelab
    BY <1>2 DEF PrepareAnswered, GuardInv, JobInv
  <2>1. CASE gw' = [gw EXCEPT !.pc = "enqueue", !.reply = "none"] /\ UNCHANGED cmds
    <3>1. /\ gw'.pc = "enqueue" /\ gw'.lease = gw.lease
          /\ gw'.prompt = gw.prompt /\ gw'.body = gw.body
      BY <1>0, <2>1, Zenon DEF GatewayFields
    <3> QED
      BY <1>0, <2>0, <2>1, <3>1, GoesOn DEF Ask, Handed
  <2>2. CASE /\ gw' = [gw EXCEPT !.pc = "reserve", !.reply = "none"]
             /\ Post("reserve", 0, 0, "none")
    <3>1. /\ gw'.pc = "reserve" /\ gw'.lease = gw.lease
          /\ gw'.prompt = gw.prompt /\ gw'.body = gw.body
      BY <1>0, <2>2, Zenon DEF GatewayFields
    <3>2. \A c \in Queued' : c \in Queued \/ c.op # "outcome"
      BY <2>2, PostEffect
    <3> QED
      BY <2>0, <3>1, <3>2, GoesOn DEF Ask, Handed
  <2>3. CASE Leave /\ UNCHANGED cmds
    BY <2>0, <2>3, LeaveGoesOn DEF Handed
  <2> QED
    BY <1>2, <2>1, <2>2, <2>3, Zenon DEF PrepareAnswered
<1>3. CASE PlanEnqueue
  <2>0. gw.pc = "enqueue" /\ Homelab /\ UNCHANGED cmds
    BY <1>3 DEF PlanEnqueue, GuardInv, JobInv
  <2>1. CASE gw' = [gw EXCEPT !.pc = "queued"]
    <3>1. /\ gw'.pc = "queued" /\ gw'.lease = gw.lease
          /\ gw'.prompt = gw.prompt /\ gw'.body = gw.body
      BY <1>0, <2>1 DEF GatewayFields
    <3> QED
      BY <1>0, <2>0, <3>1, GoesOn DEF Ask, Handed
  <2>2. CASE Leave
    BY <2>0, <2>2, LeaveGoesOn DEF Handed
  <2> QED
    BY <1>3, <2>1, <2>2, Zenon DEF PlanEnqueue
<1>4. CASE PlanPoll
  <2>0. gw.pc = "queued" /\ Homelab
    BY <1>4 DEF PlanPoll, GuardInv, JobInv
  <2>1. CASE Leave /\ UNCHANGED cmds
    BY <2>0, <2>1, LeaveGoesOn DEF Handed
  <2>2. PICK k, l : k = Ask(gw) /\ l = job[k].lease
    OBVIOUS
  <2>3. CASE /\ job[k].st = "placed" /\ gw' = [gw EXCEPT !.pc = "reserve", !.lease = l]
             /\ Post("reserve", 0, l, "none")
    <3>1. gw'.pc = "reserve" /\ gw'.prompt = gw.prompt /\ gw'.body = gw.body
      BY <1>0, <2>3, Zenon DEF GatewayFields
    <3>2. \A c \in Queued' : c \in Queued \/ c.op # "outcome"
      BY <2>3, PostEffect
    <3>3. Ask(gw') = k
      BY <2>2, <3>1 DEF Ask
    <3> QED
      BY <2>0, <2>3, <3>1, <3>2, <3>3 DEF GatewayMoves, GuardKept, Dispatching
  <2> QED
    BY <1>4, <2>1, <2>2, <2>3, Zenon DEF PlanPoll, Ask
<1> QED
  BY <1>1, <1>2, <1>3, <1>4

(* The gateway is answered, hears of its frame, drops its guard, reports.  *)
LEMMA SendingMoves ==
  ASSUME GroundInv, GuardInv, UNCHANGED live, Dispatching => StaysDispatched,
         \/ ReserveAnswered \/ BeforeAnswered \/ ForwardEnds \/ DropGuard \/ ReleaseGuard
         \/ OutcomeAnswered \/ Deliver \/ DeliveryAnswered
  PROVE  GatewayMoves
<1>0. DOMAIN gw = GatewayFields /\ (UNCHANGED cmds => Queued' = Queued)
  BY DEF GroundInv, Queued
<1>1. CASE ReserveAnswered
  <2>0. gw.pc = "reserve"
    BY <1>1 DEF ReserveAnswered
  <2>1. CASE Leave /\ UNCHANGED cmds
    BY <2>0, <2>1, LeaveGoesOn DEF Handed
  <2>2. CASE /\ gw' = [gw EXCEPT !.pc = "before", !.reply = "none"]
             /\ Post("before", gw.att, 0, "none")
    <3>1. /\ gw'.pc = "before" /\ gw'.reply = "none" /\ gw'.lease = gw.lease
          /\ gw'.prompt = gw.prompt /\ gw'.body = gw.body
      BY <1>0, <2>2, Zenon DEF GatewayFields
    <3>2. \A c \in Queued' : c \in Queued \/ c.op # "outcome"
      BY <2>2, PostEffect
    <3> QED
      BY <2>0, <3>1, <3>2 DEF GatewayMoves, GuardKept, Ask, Handed, Dispatching
  <2> QED
    BY <1>1, <2>1, <2>2, Zenon DEF ReserveAnswered
<1>2. CASE BeforeAnswered
  <2>0. gw.pc = "before"
    BY <1>2 DEF BeforeAnswered
  <2>1. CASE /\ live /\ gw.reply = "ok" /\ UNCHANGED cmds
             /\ gw' = [gw EXCEPT !.pc = "forward", !.reply = "none"]
    <3>1. /\ gw'.pc = "forward" /\ gw'.lease = gw.lease /\ gw'.att = gw.att
          /\ gw'.prompt = gw.prompt /\ gw'.body = gw.body
      BY <1>0, <2>1, Zenon DEF GatewayFields
    <3>2. Dispatching
      BY <2>0, <2>1 DEF Dispatching
    <3> QED
      BY <1>0, <2>0, <2>1, <3>1, <3>2 DEF GatewayMoves, GuardKept, Ask, Handed
  <2>2. CASE /\ gw' = [gw EXCEPT !.pc = "outcome", !.out = "refused", !.reply = "none"]
             /\ Post("outcome", gw.att, 0, "notsent")
    <3>1. /\ gw'.pc = "outcome" /\ gw'.lease = gw.lease
          /\ gw'.prompt = gw.prompt /\ gw'.body = gw.body
      BY <1>0, <2>2, Zenon DEF GatewayFields
    <3>2. \A c \in Queued' : c \in Queued \/ c.out \notin Received
      BY <2>2, PostEffect DEF Received
    <3> QED
      BY <2>0, <3>1, <3>2, GoesOn DEF Ask, Handed
  <2> QED
    BY <1>2, <2>1, <2>2, Zenon DEF BeforeAnswered
<1>3. CASE ForwardEnds
  <2>1. gw.pc = "inflight" /\ UNCHANGED cmds
    BY <1>3 DEF ForwardEnds
  <2>2. PICK o : /\ gw' = [gw EXCEPT !.pc = "drop", !.out = o]
                 /\ o \in {"notsent", "uncertain"} \/ (o \in Received /\ o = key[gw.att])
    BY <1>3, Zenon DEF ForwardEnds
  <2>3. /\ gw'.pc = "drop" /\ gw'.lease = gw.lease /\ gw'.att = gw.att /\ gw'.out = o
        /\ gw'.prompt = gw.prompt /\ gw'.body = gw.body
    BY <1>0, <2>2, Zenon DEF GatewayFields
  <2> QED
    BY <1>0, <2>1, <2>2, <2>3 DEF GatewayMoves, GuardKept, Ask, Handed, Dispatching
<1>4. CASE DropGuard
  <2>1. /\ gw.pc = "drop" /\ gw' = [gw EXCEPT !.pc = "outcome", !.lease = 0, !.reply = "none"]
        /\ Post("outcome", gw.att, 0, gw.out)
    BY <1>4 DEF DropGuard
  <2>2. gw'.pc = "outcome" /\ gw'.lease = 0
    BY <1>0, <2>1, Zenon DEF GatewayFields
  <2>3. \A c \in Queued' : c \in Queued \/ (c.att = gw.att /\ c.out = gw.out)
    BY <2>1, PostEffect
  <2> QED
    BY <2>1, <2>2, <2>3, GoesOn
<1>5. CASE ReleaseGuard \/ DeliveryAnswered
  <2>1. gw' = IdleGateway /\ UNCHANGED cmds
    BY <1>5 DEF ReleaseGuard, DeliveryAnswered
  <2> QED
    BY <1>0, <2>1, GoesOn DEF IdleGateway
<1>6. CASE OutcomeAnswered
  <2>0. gw.pc = "outcome" /\ UNCHANGED cmds
    BY <1>6 DEF OutcomeAnswered
  <2>1. CASE Leave
    BY <2>0, <2>1, LeaveGoesOn DEF Handed
  <2>2. CASE gw' = [gw EXCEPT !.pc = "deliver", !.reply = "none"]
    <3>1. /\ gw'.pc = "deliver" /\ gw'.lease = gw.lease
          /\ gw'.prompt = gw.prompt /\ gw'.body = gw.body
      BY <1>0, <2>2, Zenon DEF GatewayFields
    <3> QED
      BY <1>0, <2>0, <3>1, GoesOn DEF Ask, Handed
  <2> QED
    BY <1>6, <2>1, <2>2, Zenon DEF OutcomeAnswered
<1>7. CASE Deliver
  <2>1. gw.pc = "deliver" /\ gw' = [gw EXCEPT !.pc = "delivery"]
    BY <1>7 DEF Deliver
  <2>2. /\ gw'.pc = "delivery" /\ gw'.lease = gw.lease
        /\ gw'.prompt = gw.prompt /\ gw'.body = gw.body
    BY <1>0, <2>1 DEF GatewayFields
  <2>3. \E r : Post("delivery", gw.att, 0, r)
    BY <1>7, Zenon DEF Deliver
  <2>4. \A c \in Queued' : c \in Queued \/ c.op # "outcome"
    BY <2>3, PostEffect
  <2> QED
    BY <2>1, <2>2, <2>4, GoesOn DEF Ask, Handed
<1> QED
  BY <1>1, <1>2, <1>3, <1>4, <1>5, <1>6, <1>7

LEMMA GatewayGuard ==
  ASSUME PurseInv, SendInv, OnceInv, GuardInv,
         (Gateway /\ ~Forward) \/ (\E b \in Bodies : Accept(b))
  PROVE  GuardInv'
<1>0. GroundInv
  BY DEF SendInv
<1>1. UNCHANGED <<journal, live, key, exec>>
  <2>1. CASE Gateway /\ ~Forward
    BY <2>1 DEF Gateway, PrepareAnswered, PlanEnqueue, PlanPoll, ReserveAnswered, BeforeAnswered,
       ForwardEnds, DropGuard, ReleaseGuard, OutcomeAnswered, Deliver, DeliveryAnswered,
       GatewayStep, controller, upstream
  <2>2. CASE \E b \in Bodies : Accept(b)
    BY <2>2 DEF Accept, GatewayStep, controller, upstream
  <2> QED
    BY <2>1, <2>2
<1>2. JobsKept /\ (Dispatching => StaysDispatched)
  BY GatewayJobs DEF GuardInv
<1>3. GatewayMoves
  BY <1>0, <1>1, <1>2, AskingMoves, SendingMoves DEF Gateway
<1>4. RequestsStay /\ FramesKept /\ NothingStarts
  BY <1>1, RequestsKeep DEF Next, FramesKept, NothingStarts
<1>5. JobInv' /\ SlotInv'
  BY <1>0, <1>2, <1>3, <1>4, GuardFrame DEF GatewayMoves
<1>6. ReplyInv'
  <2>1. \A a \in exec' : a \in Attempts /\ key'[a] \in {"sent", "cut"}
    BY <1>1 DEF GuardInv, ReplyInv
  <2> QED
    BY <1>1, <1>3, <2>1, ReplyFrame DEF GatewayMoves, GuardInv
<1> QED
  BY <1>5, <1>6 DEF GuardInv

(* forward_once: the frame handed over is of a job that was dispatched.    *)
LEMMA ForwardGuard ==
  ASSUME PurseInv, SendInv, OnceInv, GuardInv, Forward
  PROVE  GuardInv'
<1>0. /\ GroundInv /\ DOMAIN gw = GatewayFields /\ gw.pc = "forward"
      /\ UNCHANGED <<journal, hist, live, exec, cmds, job, route>>
  BY DEF SendInv, GroundInv, Forward, GatewayStep, controller, ghost, slot, terms
<1>1. JobsKept /\ RequestsStay
  BY <1>0, JobUnchanged, RequestsKeep DEF GuardInv, Next, Gateway
<1>2. gw.att \in Attempts /\ key[gw.att] = "none"
  BY <1>0, OpenedAttempt DEF SendInv, GateInv, Granted, GroundInv
<1>3. CASE gw' = [gw EXCEPT !.pc = "drop", !.out = "notsent"] /\ UNCHANGED key
  <2>1. /\ gw'.pc = "drop" /\ gw'.lease = gw.lease /\ gw'.att = gw.att /\ gw'.out = "notsent"
        /\ gw'.prompt = gw.prompt /\ gw'.body = gw.body
    BY <1>0, <1>3, Zenon DEF GatewayFields
  <2>2. GuardKept /\ FramesKept /\ NothingStarts
    BY <1>0, <1>3, <2>1 DEF GuardKept, Ask, Handed, Dispatching, FramesKept, NothingStarts
  <2>3. Queued' = Queued /\ \A a \in exec' : a \in Attempts /\ key'[a] \in {"sent", "cut"}
    BY <1>0, <1>3 DEF Queued, GuardInv, ReplyInv
  <2>4. ReplyInv'
    BY <1>0, <1>3, <2>1, <2>3, ReplyFrame DEF GuardInv
  <2> QED
    BY <1>0, <1>1, <2>2, <2>4, GuardFrame DEF GuardInv
<1>4. CASE /\ live /\ key' = [key EXCEPT ![gw.att] = "held"]
           /\ gw' = [gw EXCEPT !.pc = "inflight"]
  <2>1. PICK g \in Attempts : g = gw.att
    BY <1>2
  <2>2. /\ gw'.pc = "inflight" /\ gw'.lease = gw.lease /\ gw'.att = g
        /\ gw'.prompt = gw.prompt /\ gw'.body = gw.body
    BY <1>0, <1>4, <2>1 DEF GatewayFields
  <2>3. key'[g] = "held" /\ \A a \in Attempts : a # g => key'[a] = key[a]
    BY <1>0, <1>4, <2>1 DEF GroundInv
  <2>4. Dispatching
    BY <1>0, <1>4 DEF Dispatching
  <2>5. Request(g) \in Jobs => /\ Homelab => job[Request(g)].st \in Dispatched
                               /\ ~Freed(Request(g))
    BY <2>1, <2>4 DEF GuardInv, SlotInv, JobInv, Freed, Dispatched
  <2>6. \A a \in Attempts : Request(a)' = Request(a)
    BY <1>0 DEF Request
  <2>7. Homelab' <=> Homelab
    BY <1>0 DEF Homelab
  <2>8. JobInv'
    <3>1. ASSUME NEW k \in Jobs, Freed(k)'
          PROVE  Free(k)'
      <4>1. Freed(k) /\ Free(k)
        BY <1>0, <3>1 DEF Freed, GuardInv, JobInv
      <4>2. Request(g) # k
        BY <2>5, <4>1
      <4>3. \A a \in Attempts : Request(a) = k => a \notin exec' /\ key'[a] # "held"
        BY <1>0, <2>3, <4>1, <4>2 DEF Free
      <4> QED
        BY <2>6, <4>3 DEF Free
    <3> QED
      BY <1>0, <2>2, <2>7, <3>1 DEF GuardInv, JobInv
  <2>9. SlotInv'
    <3>1. SUFFICES ASSUME NEW a \in Attempts, Request(a) \in Jobs
                   PROVE  /\ Homelab /\ key'[a] \notin Lapsed => job[Request(a)].st \in Launched
                          /\ gw.lease # 0 /\ Request(a) = Ask(gw) /\ a # g => key'[a] \in Lapsed
      <4>1. ~Dispatching' /\ Handed' /\ Ask(gw)' = Ask(gw)
        BY <2>2 DEF Dispatching, Handed, Ask
      <4> QED
        BY <1>0, <2>2, <2>6, <2>7, <3>1, <4>1 DEF SlotInv, Lapsed, Launched, Dispatched
    <3>2. CASE a = g
      BY <2>5, <3>1, <3>2 DEF Launched
    <3>3. CASE a # g
      BY <2>1, <2>3, <3>1, <3>3 DEF GuardInv, SlotInv
    <3> QED
      BY <3>2, <3>3
  <2>10. ReplyInv'
    <3>1. Queued' = Queued
      BY <1>0 DEF Queued
    <3>2. \A a \in Attempts : key[a] \in Received => key'[a] \in Received
      BY <1>2, <2>1, <2>3 DEF Received
    <3>3. \A a \in exec' : a \in Attempts /\ key'[a] \in {"sent", "cut"}
      BY <1>0, <1>2, <2>1, <2>3 DEF GuardInv, ReplyInv
    <3> QED
      BY <1>0, <2>2, <3>1, <3>2, <3>3, ReplyFrame DEF GuardInv
  <2> QED
    BY <2>8, <2>9, <2>10 DEF GuardInv
<1> QED
  BY <1>3, <1>4, Zenon DEF Forward

(* Upstream executes only frames it has.                                   *)
LEMMA UpstreamGuard ==
  ASSUME ~DiskFaults, SendInv, OnceInv, GuardInv, Upstream
  PROVE  GuardInv'
<1>0. /\ GroundInv /\ UNCHANGED <<journal, gw, live, cmds, job, route>>
  BY DEF SendInv, Upstream, BrokerRefuses, UpstreamSend, UpstreamReplies, UpstreamCut,
     UpstreamEnds, TicketJournalFails, controller, gateway, slot, terms
<1>1. JobsKept /\ StaysDispatched /\ RequestsStay
  BY <1>0, JobUnchanged, RequestsKeep DEF GuardInv, Next
<1>2. PICK a \in Attempts : \/ BrokerRefuses(a) \/ UpstreamSend(a) \/ UpstreamReplies(a)
                            \/ UpstreamCut(a) \/ UpstreamEnds(a)
  BY DEF Upstream, TicketJournalFails
<1>3. \A b \in Attempts : b # a => key'[b] = key[b] /\ (b \in exec' => b \in exec)
  BY <1>0, <1>2 DEF BrokerRefuses, UpstreamSend, UpstreamReplies, UpstreamCut, UpstreamEnds,
     GroundInv, upstream
<1>4. \/ key[a] = "held" /\ key'[a] = "refused" /\ exec' = exec
      \/ key[a] = "held" /\ key'[a] = "sent" /\ exec' = exec \cup {a}
      \/ key[a] = "sent" /\ key'[a] \in Received /\ exec' = exec \ {a}
      \/ key[a] = "sent" /\ key'[a] = "cut" /\ exec' = exec
      \/ key[a] = "cut" /\ key'[a] = key[a] /\ exec' = exec \ {a}
  BY <1>0, <1>2 DEF BrokerRefuses, UpstreamSend, UpstreamReplies, UpstreamCut, UpstreamEnds,
     GroundInv
<1>5. \A b \in exec : b \in Attempts /\ key[b] \in {"sent", "cut"}
  BY DEF GuardInv, ReplyInv
<1>6. \A b \in exec' : b \in Attempts /\ key'[b] \in {"sent", "cut"}
  BY <1>3, <1>4, <1>5
<1>7. FramesKept /\ NothingStarts
  BY <1>3, <1>4 DEF FramesKept, NothingStarts, Lapsed, Received
<1>8. \A b \in Attempts : key[b] \in Received => key'[b] \in Received
  BY <1>3, <1>4 DEF Received
<1>9. GuardKept
  BY <1>0, <1>1 DEF GuardKept, Handed, Dispatching
<1>10. ReplyInv'
  <2>1. Queued' = Queued
    BY <1>0 DEF Queued
  <2>2. gw'.pc = "drop" => gw.pc = "drop" /\ gw'.att = gw.att /\ gw'.out = gw.out
    BY <1>0
  <2> QED
    BY <1>0, <1>6, <1>8, <2>1, <2>2, ReplyFrame DEF GuardInv
<1> QED
  BY <1>0, <1>1, <1>7, <1>9, <1>10, GuardFrame DEF GuardInv

(* Whoever else leaves frames and gateway alone, or takes the gateway down.*)
LEMMA AsideGuard ==
  ASSUME SendInv, OnceInv, GuardInv, [Next]_vars, UNCHANGED <<key, exec>>,
         JobsKept, StaysDispatched,
         journal'.attempt = journal.attempt, journal'.replays \subseteq journal.replays,
         gw' = gw \/ gw' = IdleGateway, live' => live \/ gw'.pc = "idle",
         cmds' = cmds \/ cmds' = <<>>
  PROVE  GuardInv'
<1>0. GroundInv
  BY DEF SendInv
<1>1. RequestsStay /\ FramesKept /\ NothingStarts
  BY RequestsKeep DEF FramesKept, NothingStarts
<1>2. IdleGateway.pc = "idle" /\ IdleGateway.lease = 0
  BY DEF IdleGateway
<1>3. GuardKept
  BY <1>2 DEF GuardKept, Handed, Dispatching
<1>4. Queued' \subseteq Queued
  BY DEF Queued
<1>5. gw'.pc = "drop" => gw.pc = "drop" /\ gw'.att = gw.att /\ gw'.out = gw.out
  BY <1>2
<1>6. ReplyInv'
  <2>1. \A a \in exec' : a \in Attempts /\ key'[a] \in {"sent", "cut"}
    BY DEF GuardInv, ReplyInv
  <2> QED
    BY <1>4, <1>5, <2>1, ReplyFrame DEF GuardInv
<1> QED
  BY <1>0, <1>1, <1>3, <1>6, GuardFrame DEF GuardInv

LEMMA PromptGuard ==
  ASSUME PurseInv, SendInv, OnceInv, GuardInv,
         \/ StartPrompt \/ EndPrompt \/ Drained \/ Disconnect \/ Crash \/ Recover
         \/ ReconcileAudited
  PROVE  GuardInv'
<1>1. UNCHANGED <<key, exec, job, route>>
  BY DEF StartPrompt, EndPrompt, Drained, Disconnect, Crash, Recover, ReconcileAudited, upstream,
     slot, terms
<1>2. journal'.attempt = journal.attempt
  BY PromptEffect DEF PurseInv
<1>3. journal'.replays \subseteq journal.replays
  <2>1. CASE StartPrompt \/ Disconnect \/ Recover
    <3>1. journal'.replays = {} \/ journal'.replays = journal.replays
      BY <2>1, Zenon DEF StartPrompt, Disconnect, Recover, PurseInv, Shapes, JournalFields
    <3> QED
      BY <3>1
  <2>2. CASE Drained
    BY <2>2 DEF Drained, PurseInv, Shapes, JournalFields
  <2>3. CASE EndPrompt \/ Crash \/ ReconcileAudited
    BY <2>3 DEF EndPrompt, Crash, ReconcileAudited
  <2> QED
    BY <2>1, <2>2, <2>3
<1>4. /\ gw' = gw \/ gw' = IdleGateway
      /\ cmds' = cmds \/ cmds' = <<>>
      /\ live' => live \/ gw'.pc = "idle"
  BY DEF StartPrompt, EndPrompt, Drained, Disconnect, Crash, Recover, ReconcileAudited, gateway
<1>5. JobsKept /\ StaysDispatched
  BY <1>1, JobUnchanged DEF GuardInv
<1>6. Next
  BY DEF Next, Prompting, Operator
<1> QED
  BY <1>1, <1>2, <1>3, <1>4, <1>5, <1>6, AsideGuard

LEMMA BystandersGuard ==
  ASSUME SendInv, OnceInv, GuardInv,
         HardStop \/ WorkerDeadline \/ Native \/ Broker \/ UNCHANGED vars
  PROVE  GuardInv'
<1>1. UNCHANGED <<journal, key, exec, gw, cmds>> /\ (live' => live)
  <2>1. CASE HardStop \/ WorkerDeadline
    BY <2>1 DEF HardStop, WorkerDeadline, controller, upstream
  <2>2. CASE Native \/ Broker \/ UNCHANGED vars
    <3>1. UNCHANGED <<journal, key, exec, gateway>>
      BY <2>2 DEF Native, OwnerMoves, Custody, Broker, BrokerRestarts, BrokerPlaces, BrokerDrops,
         vars, controller, upstream
    <3> QED
      BY <3>1 DEF gateway
  <2> QED
    BY <2>1, <2>2
<1>2. JobsKept /\ StaysDispatched
  <2>1. CASE Broker
    BY <2>1, BrokerJobs DEF GuardInv
  <2>2. CASE HardStop \/ WorkerDeadline \/ Native \/ UNCHANGED vars
    <3>1. UNCHANGED <<job, route>>
      BY <2>2 DEF HardStop, WorkerDeadline, Native, OwnerMoves, Custody, vars, slot, terms
    <3> QED
      BY <3>1, JobUnchanged DEF GuardInv
  <2> QED
    BY <2>1, <2>2
<1>3. [Next]_vars
  BY DEF Next, Prompting
<1> QED
  BY <1>1, <1>2, <1>3, AsideGuard

(* The invariant holds at the start.                                       *)
LEMMA GuardInitially ==
  ASSUME Init
  PROVE  GuardInv
<1>1. /\ journal.attempt = NoAttempt /\ journal.replays = {}
      /\ gw = IdleGateway /\ cmds = <<>> /\ exec = {}
      /\ key = [a \in Attempts |-> "none"]
      /\ job = [k \in Jobs |-> [st |-> "none", lease |-> 0, stale |-> {}, out |-> "none"]]
  BY DEF Init
<1>2. Queued = {}
  BY <1>1 DEF Queued
<1>3. IdleGateway.pc = "idle" /\ IdleGateway.lease = 0 /\ NoAttempt.outcome = "none"
  BY DEF IdleGateway, NoAttempt
<1>4. JobInv
  BY <1>1, <1>3 DEF JobInv, JobFields, Freed
<1>5. ReplyInv
  BY <1>1, <1>2, <1>3 DEF ReplyInv, Received
<1>6. SlotInv
  BY <1>1, <1>3 DEF SlotInv, Lapsed, Dispatching
<1> QED
  BY <1>4, <1>5, <1>6 DEF GuardInv

(* Every step keeps it.                                                    *)
LEMMA GuardInductive ==
  ASSUME ~DiskFaults, PurseInv, SendInv, OnceInv, GuardInv, [Next]_vars
  PROVE  GuardInv'
<1>1. CASE Controller \/ AbortRefused
  BY <1>1, HandlersGuard
<1>2. CASE (Gateway /\ ~Forward) \/ (\E b \in Bodies : Accept(b))
  BY <1>2, GatewayGuard
<1>3. CASE Forward
  BY <1>3, ForwardGuard
<1>4. CASE Upstream
  BY <1>4, UpstreamGuard
<1>5. CASE \/ StartPrompt \/ EndPrompt \/ Drained \/ Disconnect \/ Crash \/ Recover
           \/ ReconcileAudited
  BY <1>5, PromptGuard
<1>6. CASE HardStop \/ WorkerDeadline \/ Native \/ Broker \/ UNCHANGED vars
  BY <1>6, BystandersGuard
<1> QED
  BY <1>1, <1>2, <1>3, <1>4, <1>5, <1>6 DEF Next, Prompting, Operator

(* The inductive invariants of requests and slots hold throughout.         *)
THEOREM GuardInvariant == ASSUME ~DiskFaults PROVE Spec => [](OnceInv /\ GuardInv)
<1>1. Init => OnceInv /\ GuardInv
  BY OnceInitially, GuardInitially
<1>2. PurseInv /\ SendInv /\ OnceInv /\ GuardInv /\ [Next]_vars => OnceInv' /\ GuardInv'
  BY OnceInductive, GuardInductive
<1> QED
  BY <1>1, <1>2, SendInvariant, PTL DEF Spec

(* The inference broker takes a slot for free only when nothing of the job *)
(* executes upstream or can still start: guard, audit, recovery and abort  *)
(* report `ended' or `not sent' of the job's one frame that may have left, *)
(* and of no other (Guard::drop, Placement::finish, metered_audit_path).   *)
THEOREM SlotsTrue == ASSUME ~DiskFaults PROVE Spec => []SlotTruth
<1>1. GuardInv => SlotTruth
  BY DEF GuardInv, JobInv, SlotTruth, Freed, Free, Request
<1> QED
  BY <1>1, GuardInvariant, PTL

-----------------------------------------------------------------------------
(* The inductive invariant of leases and ends                              *)

(* Whoever asks, asks for a job; a lease is the inference broker's.        *)
LinkInv ==
  /\ journal.prompt \in 0..MaxPrompts /\ (open => journal.prompt # 0)
  /\ gw.pc # "idle" => Ask(gw) \in Jobs
  /\ gw.pc = "idle" => gw.lease = 0
  /\ gw.lease # 0 => Homelab
  /\ \A c \in Queued : Ask(c) \in Jobs /\ (c.lease # 0 => Homelab)
  /\ journal.attempt.id # 0 => /\ Ask(journal.attempt) \in Jobs
                               /\ journal.attempt.lease # 0 => Homelab

(* A lease taken back is not given again.                                  *)
LeaseInv ==
  /\ serial \in Nat
  /\ \A k \in Jobs : /\ job[k].lease \in 0..serial /\ job[k].stale \subseteq 1..serial
                     /\ job[k].lease \notin job[k].stale
                     /\ job[k].st = "placed" => job[k].lease # 0

(* The broker has not heard that the current attempt was not sent.         *)
Ends == LET k == Ask(journal.attempt) IN
        journal.attempt.sent /\ (journal.attempt.lease # 0 /\ job[k].st = "over" => job[k].out = "ended")

(* The gateway waits for its frame, or has yet to say what became of it.   *)
Awaiting == gw.pc = "inflight" \/ (gw.pc = "drop" /\ gw.out # "notsent")

(* A reply the controller hears or may hear of.                            *)
Heard == \/ journal.attempt.outcome \in Received
         \/ /\ journal.attempt.outcome = "none"
            /\ \E c \in Queued : /\ c.op = "outcome" /\ c.out \in Received
                                 /\ c.att = journal.attempt.id

EndInv ==
  /\ journal.attempt.sent /\ journal.attempt.lease # 0 =>
       LET k == Ask(journal.attempt) IN
       job[k].st \in Launched /\ job[k].lease = journal.attempt.lease
  /\ Heard => Ends
  /\ Awaiting => \A c \in Queued : c.op = "outcome" => c.att # gw.att
  /\ Awaiting /\ gw.att = journal.attempt.id =>
       journal.attempt.outcome \in {"none", "uncertain"} /\ Ends
  /\ gw.lease # 0 /\ gw.lease = journal.attempt.lease /\ Ask(gw) = Ask(journal.attempt) => ~Heard

(* A reserve the host may still admit names the root at which the hold was *)
(* marked: whoever moves the purse first moves its root.                   *)
Submitted ==
  IF Idle(cell.status)
  THEN /\ journal.pending.root \in 0..cell.root
       /\ journal.pending.root = cell.root => cell.gen = journal.hold.gen
  ELSE cell.status = "reserved" /\ cell.gen = journal.hold.gen

(* A hold the journal knows of is at the host as it was recorded.          *)
FundsInv ==
  /\ journal.hold.st = "confirmed" =>
       AuditCoordinates \/ \E c \in calls : c.key.op = "settle" /\ c.st = "committed"
  /\ journal.hold.st = "submitted" => Submitted
  /\ journal.hold.st = "none" => journal.hold = NoHold
  /\ cell.root \in Nat

(* The hold of a delivered reply is confirmed, or settled.                 *)
DeliveryInv ==
  Delivered /\ journal.attempt.id # 0 =>
    /\ journal.attempt.outcome \in Received
    /\ \/ journal.hold.st = "confirmed"
       \/ journal.hold.st = "none" /\ journal.settlement = journal.attempt.id

-----------------------------------------------------------------------------
(* Whoever asks, asks for a job                                            *)

(* What the handlers do to the attempt they keep.                          *)
LEMMA HandlersLink ==
  ASSUME PurseInv, SendInv, ReplyInv, LinkInv, Controller \/ AbortRefused
  PROVE  LinkInv'
<1>0. GroundInv
  BY DEF SendInv
<1>1. UNCHANGED <<open, route>> /\ Answered
  BY <1>0, HandlersLeave
<1>2. /\ journal'.prompt = journal.prompt
      /\ Opened \/ Marked \/ Noted \/ Audited \/ Plain \/ journal'.attempt = NoAttempt
  BY HandlersKind DEF Remembered
<1>3. Homelab' <=> Homelab
  BY <1>1 DEF Homelab
<1>4. Ask(gw)' = Ask(gw) /\ gw'.pc = gw.pc /\ gw'.lease = gw.lease /\ Queued' \subseteq Queued
  BY <1>1 DEF Answered, Ask
<1>5. journal'.attempt.id # 0 => /\ Ask(journal'.attempt) \in Jobs
                                 /\ journal'.attempt.lease # 0 => Homelab
  <2>1. CASE Opened
    BY <2>1 DEF Opened, LinkInv
  <2>2. CASE Marked \/ Noted \/ Audited
    BY <2>2 DEF Marked, Noted, Audited, RequestKept, LinkInv, Ask
  <2>3. CASE Plain
    BY <2>3 DEF Plain, RequestKept, LinkInv, Ask
  <2>4. CASE journal'.attempt = NoAttempt
    BY <2>4 DEF NoAttempt
  <2> QED
    BY <1>2, <2>1, <2>2, <2>3, <2>4
<1>6. Ask(journal.attempt)' = Ask(journal'.attempt)
  BY DEF Ask
<1> QED
  BY <1>1, <1>2, <1>3, <1>4, <1>5, <1>6 DEF LinkInv

(* A gateway that goes on for the same request, or is idle.                *)
SameAsk == \/ gw'.pc = "idle" /\ gw'.lease = 0
           \/ /\ gw.pc # "idle" /\ gw'.pc # "idle" /\ Ask(gw') = Ask(gw)
              /\ \/ gw'.lease \in {0, gw.lease}
                 \/ /\ gw.pc = "queued" /\ gw'.lease = job[Ask(gw)].lease
                    /\ job[Ask(gw)].st = "placed"
NewAsk == /\ gw'.pc # "idle" /\ gw'.lease = 0 /\ open
          /\ gw'.prompt = journal.prompt /\ gw'.body \in Bodies

(* What the gateway posts: what it asks, and what became of its frame.     *)
Posted(c) == /\ Ask(c) = Ask(gw') /\ c.lease \in {0, gw'.lease} /\ gw'.pc # "idle"
             /\ c.op = "outcome" /\ c.out \in Received => Awaiting /\ c.att = gw.att /\ gw'.lease = 0
             /\ Awaiting' => c.op # "outcome"

(* The steps of the gateway but the hand-over.                             *)
GatewayGoes ==
  /\ SameAsk \/ NewAsk
  /\ \A c \in Queued' : c \in Queued \/ Posted(c)
  /\ Awaiting' => Awaiting /\ gw'.att = gw.att

LEMMA LeaveGoes ==
  ASSUME GroundInv, gw.pc # "idle", Leave, UNCHANGED cmds
  PROVE  GatewayGoes
<1>0. DOMAIN gw = GatewayFields /\ Queued' = Queued
  BY DEF GroundInv, Queued
<1>1. CASE gw' = IdleGateway
  BY <1>0, <1>1 DEF IdleGateway, GatewayGoes, SameAsk, Awaiting
<1>2. CASE gw' = [gw EXCEPT !.pc = "release", !.reply = "none"]
  <2>1. /\ gw'.pc = "release" /\ gw'.lease = gw.lease
        /\ gw'.prompt = gw.prompt /\ gw'.body = gw.body
    BY <1>0, <1>2, Zenon DEF GatewayFields
  <2> QED
    BY <1>0, <2>1 DEF GatewayGoes, SameAsk, Awaiting, Ask
<1> QED
  BY <1>1, <1>2 DEF Leave

(* A command that reports no outcome.                                      *)
LEMMA PostGoes ==
  ASSUME GroundInv, NEW op, NEW att, NEW lease, NEW out, Post(op, att, lease, out),
         op # "outcome", lease \in {0, gw'.lease}, gw'.pc # "idle"
  PROVE  \A c \in Queued' : c \in Queued \/ Posted(c)
BY PostEffect DEF Posted, Ask

LEMMA AskingGoes ==
  ASSUME GroundInv,
         \/ (\E b \in Bodies : Accept(b)) \/ PrepareAnswered \/ PlanEnqueue \/ PlanPoll
  PROVE  GatewayGoes
<1>0. DOMAIN gw = GatewayFields /\ (UNCHANGED cmds => Queued' = Queued)
  BY DEF GroundInv, Queued
<1>1. CASE \E b \in Bodies : Accept(b)
  <2>1. PICK b \in Bodies : Accept(b)
    BY <1>1
  <2>2. PICK p, q : p = (IF Homelab THEN "prepare" ELSE "reserve") /\ q = journal.prompt
    OBVIOUS
  <2>3. gw' = [IdleGateway EXCEPT !.pc = p, !.prompt = q, !.body = b]
    BY <2>1, <2>2 DEF Accept
  <2>4. DOMAIN IdleGateway = GatewayFields /\ IdleGateway.lease = 0
    BY DEF IdleGateway, GatewayFields
  <2>5. gw'.pc = p /\ gw'.lease = IdleGateway.lease /\ gw'.prompt = q /\ gw'.body = b
    BY <2>3, <2>4, Zenon DEF GatewayFields
  <2>6. gw'.pc \in {"prepare", "reserve"} /\ gw'.lease = 0
    BY <2>2, <2>4, <2>5
  <2>7. Post(gw'.pc, 0, 0, "none") /\ open
    BY <2>1 DEF Accept
  <2>8. \A c \in Queued' : c \in Queued \/ Posted(c)
    BY <2>6, <2>7, PostGoes
  <2> QED
    BY <2>2, <2>5, <2>6, <2>7, <2>8 DEF GatewayGoes, NewAsk, Awaiting
<1>2. CASE PrepareAnswered
  <2>0. gw.pc = "prepare"
    BY <1>2 DEF PrepareAnswered
  <2>1. CASE gw' = [gw EXCEPT !.pc = "enqueue", !.reply = "none"] /\ UNCHANGED cmds
    <3>1. /\ gw'.pc = "enqueue" /\ gw'.lease = gw.lease
          /\ gw'.prompt = gw.prompt /\ gw'.body = gw.body
      BY <1>0, <2>1, Zenon DEF GatewayFields
    <3> QED
      BY <1>0, <2>0, <2>1, <3>1 DEF GatewayGoes, SameAsk, Awaiting, Ask
  <2>2. CASE /\ gw' = [gw EXCEPT !.pc = "reserve", !.reply = "none"]
             /\ Post("reserve", 0, 0, "none")
    <3>1. /\ gw'.pc = "reserve" /\ gw'.lease = gw.lease
          /\ gw'.prompt = gw.prompt /\ gw'.body = gw.body
      BY <1>0, <2>2, Zenon DEF GatewayFields
    <3>2. \A c \in Queued' : c \in Queued \/ Posted(c)
      BY <2>2, <3>1, PostGoes
    <3> QED
      BY <2>0, <3>1, <3>2 DEF GatewayGoes, SameAsk, Awaiting, Ask
  <2>3. CASE Leave /\ UNCHANGED cmds
    BY <2>0, <2>3, LeaveGoes
  <2> QED
    BY <1>2, <2>1, <2>2, <2>3, Zenon DEF PrepareAnswered
<1>3. CASE PlanEnqueue
  <2>0. gw.pc = "enqueue" /\ UNCHANGED cmds
    BY <1>3 DEF PlanEnqueue
  <2>1. CASE gw' = [gw EXCEPT !.pc = "queued"]
    <3>1. /\ gw'.pc = "queued" /\ gw'.lease = gw.lease
          /\ gw'.prompt = gw.prompt /\ gw'.body = gw.body
      BY <1>0, <2>1 DEF GatewayFields
    <3> QED
      BY <1>0, <2>0, <3>1 DEF GatewayGoes, SameAsk, Awaiting, Ask
  <2>2. CASE Leave
    BY <2>0, <2>2, LeaveGoes
  <2> QED
    BY <1>3, <2>1, <2>2, Zenon DEF PlanEnqueue
<1>4. CASE PlanPoll
  <2>0. gw.pc = "queued"
    BY <1>4 DEF PlanPoll
  <2>1. CASE Leave /\ UNCHANGED cmds
    BY <2>0, <2>1, LeaveGoes
  <2>2. PICK k, l : k = Ask(gw) /\ l = job[k].lease
    OBVIOUS
  <2>3. CASE /\ job[k].st = "placed" /\ gw' = [gw EXCEPT !.pc = "reserve", !.lease = l]
             /\ Post("reserve", 0, l, "none")
    <3>1. /\ gw'.pc = "reserve" /\ gw'.prompt = gw.prompt /\ gw'.body = gw.body
          /\ gw'.lease = l
      BY <1>0, <2>3, Zenon DEF GatewayFields
    <3>2. \A c \in Queued' : c \in Queued \/ Posted(c)
      BY <2>3, <3>1, PostGoes
    <3>3. Ask(gw') = k
      BY <2>2, <3>1 DEF Ask
    <3> QED
      BY <2>0, <2>2, <2>3, <3>1, <3>2, <3>3 DEF GatewayGoes, SameAsk, Awaiting
  <2> QED
    BY <1>4, <2>1, <2>2, <2>3, Zenon DEF PlanPoll, Ask
<1> QED
  BY <1>1, <1>2, <1>3, <1>4

LEMMA SendingGoes ==
  ASSUME GroundInv,
         \/ ReserveAnswered \/ BeforeAnswered \/ ForwardEnds \/ DropGuard \/ ReleaseGuard
         \/ OutcomeAnswered \/ Deliver \/ DeliveryAnswered
  PROVE  GatewayGoes
<1>0. DOMAIN gw = GatewayFields /\ (UNCHANGED cmds => Queued' = Queued)
  BY DEF GroundInv, Queued
<1>1. CASE ReserveAnswered
  <2>0. gw.pc = "reserve"
    BY <1>1 DEF ReserveAnswered
  <2>1. CASE Leave /\ UNCHANGED cmds
    BY <2>0, <2>1, LeaveGoes
  <2>2. CASE /\ gw' = [gw EXCEPT !.pc = "before", !.reply = "none"]
             /\ Post("before", gw.att, 0, "none")
    <3>1. /\ gw'.pc = "before" /\ gw'.lease = gw.lease
          /\ gw'.prompt = gw.prompt /\ gw'.body = gw.body
      BY <1>0, <2>2, Zenon DEF GatewayFields
    <3>2. \A c \in Queued' : c \in Queued \/ Posted(c)
      BY <2>2, <3>1, PostGoes
    <3> QED
      BY <2>0, <3>1, <3>2 DEF GatewayGoes, SameAsk, Awaiting, Ask
  <2> QED
    BY <1>1, <2>1, <2>2, Zenon DEF ReserveAnswered
<1>2. CASE BeforeAnswered
  <2>0. gw.pc = "before"
    BY <1>2 DEF BeforeAnswered
  <2>1. CASE UNCHANGED cmds /\ gw' = [gw EXCEPT !.pc = "forward", !.reply = "none"]
    <3>1. /\ gw'.pc = "forward" /\ gw'.lease = gw.lease
          /\ gw'.prompt = gw.prompt /\ gw'.body = gw.body
      BY <1>0, <2>1, Zenon DEF GatewayFields
    <3> QED
      BY <1>0, <2>0, <2>1, <3>1 DEF GatewayGoes, SameAsk, Awaiting, Ask
  <2>2. CASE /\ gw' = [gw EXCEPT !.pc = "outcome", !.out = "refused", !.reply = "none"]
             /\ Post("outcome", gw.att, 0, "notsent")
    <3>1. /\ gw'.pc = "outcome" /\ gw'.lease = gw.lease
          /\ gw'.prompt = gw.prompt /\ gw'.body = gw.body
      BY <1>0, <2>2, Zenon DEF GatewayFields
    <3>2. \A c \in Queued' : c \in Queued \/ Posted(c)
      BY <2>2, <3>1, PostEffect DEF Posted, Ask, Awaiting, Received
    <3> QED
      BY <2>0, <3>1, <3>2 DEF GatewayGoes, SameAsk, Awaiting, Ask
  <2> QED
    BY <1>2, <2>1, <2>2, Zenon DEF BeforeAnswered
<1>3. CASE ForwardEnds
  <2>1. gw.pc = "inflight" /\ UNCHANGED cmds
    BY <1>3 DEF ForwardEnds
  <2>2. PICK o : gw' = [gw EXCEPT !.pc = "drop", !.out = o]
    BY <1>3, Zenon DEF ForwardEnds
  <2>3. /\ gw'.pc = "drop" /\ gw'.lease = gw.lease /\ gw'.att = gw.att
        /\ gw'.prompt = gw.prompt /\ gw'.body = gw.body
    BY <1>0, <2>2, Zenon DEF GatewayFields
  <2> QED
    BY <1>0, <2>1, <2>3 DEF GatewayGoes, SameAsk, Awaiting, Ask
<1>4. CASE DropGuard
  <2>1. /\ gw.pc = "drop" /\ gw' = [gw EXCEPT !.pc = "outcome", !.lease = 0, !.reply = "none"]
        /\ Post("outcome", gw.att, 0, gw.out)
    BY <1>4 DEF DropGuard
  <2>2. /\ gw'.pc = "outcome" /\ gw'.lease = 0
        /\ gw'.prompt = gw.prompt /\ gw'.body = gw.body
    BY <1>0, <2>1, Zenon DEF GatewayFields
  <2>3. \A c \in Queued' : c \in Queued \/ Posted(c)
    BY <2>1, <2>2, PostEffect DEF Posted, Ask, Awaiting, Received
  <2> QED
    BY <2>1, <2>2, <2>3 DEF GatewayGoes, SameAsk, Awaiting, Ask
<1>5. CASE ReleaseGuard \/ DeliveryAnswered
  <2>1. gw' = IdleGateway /\ UNCHANGED cmds
    BY <1>5 DEF ReleaseGuard, DeliveryAnswered
  <2> QED
    BY <1>0, <2>1 DEF IdleGateway, GatewayGoes, SameAsk, Awaiting
<1>6. CASE OutcomeAnswered
  <2>0. gw.pc = "outcome" /\ UNCHANGED cmds
    BY <1>6 DEF OutcomeAnswered
  <2>1. CASE Leave
    BY <2>0, <2>1, LeaveGoes
  <2>2. CASE gw' = [gw EXCEPT !.pc = "deliver", !.reply = "none"]
    <3>1. /\ gw'.pc = "deliver" /\ gw'.lease = gw.lease
          /\ gw'.prompt = gw.prompt /\ gw'.body = gw.body
      BY <1>0, <2>2, Zenon DEF GatewayFields
    <3> QED
      BY <1>0, <2>0, <3>1 DEF GatewayGoes, SameAsk, Awaiting, Ask
  <2> QED
    BY <1>6, <2>1, <2>2, Zenon DEF OutcomeAnswered
<1>7. CASE Deliver
  <2>1. gw.pc = "deliver" /\ gw' = [gw EXCEPT !.pc = "delivery"]
    BY <1>7 DEF Deliver
  <2>2. /\ gw'.pc = "delivery" /\ gw'.lease = gw.lease
        /\ gw'.prompt = gw.prompt /\ gw'.body = gw.body
    BY <1>0, <2>1 DEF GatewayFields
  <2>3. \E r : Post("delivery", gw.att, 0, r)
    BY <1>7, Zenon DEF Deliver
  <2>4. \A c \in Queued' : c \in Queued \/ Posted(c)
    BY <2>2, <2>3, PostGoes
  <2> QED
    BY <2>1, <2>2, <2>4 DEF GatewayGoes, SameAsk, Awaiting, Ask
<1> QED
  BY <1>1, <1>2, <1>3, <1>4, <1>5, <1>6, <1>7

LEMMA GatewayWalks ==
  ASSUME GroundInv, (Gateway /\ ~Forward) \/ (\E b \in Bodies : Accept(b))
  PROVE  GatewayGoes
BY AskingGoes, SendingGoes DEF Gateway

LEMMA GatewayLink ==
  ASSUME GuardInv, LinkInv, GatewayGoes, UNCHANGED <<journal, open, route>>
  PROVE  LinkInv'
<1>1. Homelab' <=> Homelab
  BY DEF Homelab
<1>2. NewAsk => Ask(gw') \in Jobs
  <2>1. NewAsk => journal.prompt \in Prompts /\ MaxPrompts \in Nat
    BY ProviderAssumption DEF NewAsk, LinkInv, Prompts
  <2> QED
    BY <2>1 DEF NewAsk, Ask, Jobs
<1>3. /\ gw'.pc # "idle" => Ask(gw') \in Jobs
      /\ gw'.pc = "idle" => gw'.lease = 0
      /\ gw'.lease # 0 => Homelab
  BY <1>2 DEF GatewayGoes, SameAsk, NewAsk, LinkInv, GuardInv, JobInv
<1>4. \A c \in Queued' : Ask(c) \in Jobs /\ (c.lease # 0 => Homelab)
  BY <1>3 DEF GatewayGoes, Posted, LinkInv
<1>5. Ask(gw)' = Ask(gw') /\ Ask(journal.attempt)' = Ask(journal.attempt)
  BY DEF Ask
<1> QED
  BY <1>1, <1>3, <1>4, <1>5 DEF LinkInv

LEMMA AsideLink ==
  ASSUME LinkInv, UNCHANGED route, journal'.attempt = journal.attempt,
         journal'.prompt \in 0..MaxPrompts, open' => journal'.prompt # 0,
         gw' = IdleGateway \/ (/\ gw'.pc = gw.pc /\ gw'.lease = gw.lease
                               /\ gw'.prompt = gw.prompt /\ gw'.body = gw.body),
         cmds' = cmds \/ cmds' = <<>>
  PROVE  LinkInv'
<1>1. Homelab' <=> Homelab
  BY DEF Homelab
<1>2. Queued' \subseteq Queued
  BY DEF Queued
<1>3. IdleGateway.pc = "idle" /\ IdleGateway.lease = 0
  BY DEF IdleGateway
<1>4. /\ gw'.pc # "idle" => Ask(gw') \in Jobs
      /\ gw'.pc = "idle" => gw'.lease = 0
      /\ gw'.lease # 0 => Homelab
  BY <1>3 DEF LinkInv, Ask
<1>5. Ask(gw)' = Ask(gw') /\ Ask(journal.attempt)' = Ask(journal.attempt)
  BY DEF Ask
<1> QED
  BY <1>1, <1>2, <1>4, <1>5 DEF LinkInv

LEMMA ForwardLink ==
  ASSUME GroundInv, LinkInv, Forward
  PROVE  LinkInv'
<1>0. DOMAIN gw = GatewayFields /\ gw.pc = "forward" /\ UNCHANGED <<journal, open, cmds, route>>
  BY DEF GroundInv, Forward, GatewayStep, controller, slot, terms
<1>1. /\ gw'.pc \in {"inflight", "drop"} /\ gw'.lease = gw.lease
      /\ gw'.prompt = gw.prompt /\ gw'.body = gw.body
  <2>1. CASE gw' = [gw EXCEPT !.pc = "inflight"]
    BY <1>0, <2>1 DEF GatewayFields
  <2>2. CASE gw' = [gw EXCEPT !.pc = "drop", !.out = "notsent"]
    <3>1. /\ gw'.pc = "drop" /\ gw'.lease = gw.lease
          /\ gw'.prompt = gw.prompt /\ gw'.body = gw.body
      BY <1>0, <2>2, Zenon DEF GatewayFields
    <3> QED
      BY <3>1
  <2> QED
    BY <2>1, <2>2, Zenon DEF Forward
<1>2. SameAsk /\ Queued' = Queued
  BY <1>0, <1>1 DEF SameAsk, Ask, Queued
<1>3. Ask(gw)' = Ask(gw) /\ Ask(journal.attempt)' = Ask(journal.attempt)
  BY <1>0, <1>1 DEF Ask
<1>4. Homelab' <=> Homelab
  BY <1>0 DEF Homelab
<1> QED
  BY <1>0, <1>1, <1>2, <1>3, <1>4 DEF LinkInv

LEMMA PromptLink ==
  ASSUME PurseInv, LinkInv,
         \/ StartPrompt \/ EndPrompt \/ Drained \/ Disconnect \/ Crash \/ Recover
         \/ ReconcileAudited
  PROVE  LinkInv'
<1>1. UNCHANGED route /\ journal'.attempt = journal.attempt
  BY PromptEffect DEF PurseInv, StartPrompt, EndPrompt, Drained, Disconnect, Crash, Recover,
     ReconcileAudited, slot, terms
<1>2. (gw' = gw \/ gw' = IdleGateway) /\ (cmds' = cmds \/ cmds' = <<>>)
  BY DEF StartPrompt, EndPrompt, Drained, Disconnect, Crash, Recover, ReconcileAudited, gateway
<1>3. journal'.prompt \in 0..MaxPrompts /\ (open' => journal'.prompt # 0)
  <2>1. CASE StartPrompt
    <3>1. PICK p : p = journal.prompt + 1
      OBVIOUS
    <3>2. journal' = [journal EXCEPT !.prompt = p, !.child = p, !.replays = {}]
      BY <2>1, <3>1 DEF StartPrompt
    <3>3. journal'.prompt = p
      BY <3>2, Zenon DEF PurseInv, Shapes, JournalFields
    <3>4. journal.prompt < MaxPrompts /\ journal.prompt \in 0..MaxPrompts /\ MaxPrompts \in Nat
      BY <2>1, ProviderAssumption DEF StartPrompt, LinkInv
    <3> QED
      BY <3>1, <3>3, <3>4
  <2>2. CASE EndPrompt \/ ReconcileAudited
    BY <2>2 DEF EndPrompt, ReconcileAudited, gateway, LinkInv
  <2>3. CASE Drained
    BY <2>3 DEF Drained, PurseInv, Shapes, JournalFields, LinkInv
  <2>4. CASE Disconnect
    <3>1. journal'.prompt = journal.prompt
      BY <2>4, Zenon DEF Disconnect, PurseInv, Shapes, JournalFields
    <3> QED
      BY <2>4, <3>1 DEF Disconnect, LinkInv
  <2>5. CASE Recover
    <3>1. journal'.prompt = journal.prompt
      BY <2>5, Zenon DEF Recover, PurseInv, Shapes, JournalFields
    <3> QED
      BY <2>5, <3>1 DEF Recover, LinkInv
  <2>6. CASE Crash
    BY <2>6 DEF Crash, LinkInv
  <2> QED
    BY <2>1, <2>2, <2>3, <2>4, <2>5, <2>6
<1> QED
  BY <1>1, <1>2, <1>3, AsideLink

LEMMA BystandersLink ==
  ASSUME LinkInv, HardStop \/ WorkerDeadline \/ Native \/ Broker \/ Upstream \/ UNCHANGED vars
  PROVE  LinkInv'
<1>1. UNCHANGED <<journal, open, gw, cmds, route>>
  BY DEF HardStop, WorkerDeadline, Native, OwnerMoves, Custody, Broker, BrokerRestarts,
     BrokerPlaces, BrokerDrops, Upstream, BrokerRefuses, UpstreamSend, UpstreamReplies,
     UpstreamCut, UpstreamEnds, TicketJournalFails, vars, controller, gateway, slot, terms
<1> QED
  BY <1>1, AsideLink DEF LinkInv

-----------------------------------------------------------------------------
(* What becomes of the leases                                              *)

(* The broker heard of a job that it was not sent, or dropped it.          *)
Denied(jobs, k) == jobs[k].st = "over" /\ jobs[k].out # "ended"

(* A dispatched job keeps its lease.                                       *)
LeaseKept == \A k \in Jobs : job[k].st \in Launched =>
               job'[k].st \in Launched /\ job'[k].lease = job[k].lease

(* The broker is not told that the attempt was not sent whose reply is     *)
(* heard or awaited.                                                       *)
Telling == Heard \/ (Awaiting /\ gw.att = journal.attempt.id)
Undenied == Telling /\ journal.attempt.lease # 0 /\ Denied(job', Ask(journal.attempt)) =>
              Denied(job, Ask(journal.attempt))

LEMMA LeasesUnchanged ==
  ASSUME LeaseInv, UNCHANGED <<job, serial>>
  PROVE  LeaseInv' /\ LeaseKept /\ Undenied
BY DEF LeaseInv, LeaseKept, Undenied, Denied

(* The record of one job changes.                                          *)
LEMMA LeaseMoves ==
  ASSUME JobInv, LeaseInv, NEW k \in Jobs, NEW r, job' = [job EXCEPT ![k] = r],
         serial' \in Nat, serial =< serial',
         r.lease \in 0..serial', r.stale \subseteq 1..serial', r.lease \notin r.stale,
         r.st = "placed" => r.lease # 0,
         job[k].st \in Launched => r.st \in Launched /\ r.lease = job[k].lease
  PROVE  /\ LeaseInv' /\ LeaseKept /\ job'[k] = r
         /\ \A x \in Jobs : x # k => job'[x] = job[x]
<1>1. job'[k] = r /\ \A x \in Jobs : x # k => job'[x] = job[x]
  BY DEF JobInv
<1>2. ASSUME NEW x \in Jobs
      PROVE  /\ job'[x].lease \in 0..serial' /\ job'[x].stale \subseteq 1..serial'
             /\ job'[x].lease \notin job'[x].stale
             /\ job'[x].st = "placed" => job'[x].lease # 0
  <2>1. CASE x = k
    BY <1>1, <2>1
  <2>2. CASE x # k
    <3>1. /\ job[x].lease \in 0..serial /\ job[x].stale \subseteq 1..serial
          /\ job[x].lease \notin job[x].stale /\ serial \in Nat
          /\ job[x].st = "placed" => job[x].lease # 0
      BY DEF LeaseInv
    <3>2. 0..serial \subseteq 0..serial' /\ 1..serial \subseteq 1..serial'
      BY <3>1
    <3> QED
      BY <1>1, <2>2, <3>1, <3>2
  <2> QED
    BY <2>1, <2>2
<1>3. LeaseInv'
  BY <1>2 DEF LeaseInv
<1>4. LeaseKept
  BY <1>1 DEF LeaseKept
<1> QED
  BY <1>1, <1>3, <1>4

(* An accepted finish.                                                     *)
LEMMA FinishedLeases ==
  ASSUME JobInv, LeaseInv, UNCHANGED serial, NEW k \in Jobs, NEW l, NEW out,
         FinishAccepted(k, l, out), job' = Finished(k, l, out)
  PROVE  /\ LeaseInv' /\ LeaseKept
         /\ \A x \in Jobs : Denied(job', x) =>
              \/ Denied(job, x)
              \/ x = k /\ l = job[k].lease /\ out \notin {"ended", "uncertain"}
<1>1. CASE job' = job
  BY <1>1, LeasesUnchanged DEF Denied
<1>2. CASE job' # job
  <2>1. /\ l \notin job[k].stale /\ job[k].st \in {"placed", "sent", "uncertain"}
        /\ l = job[k].lease
        /\ job' = IF out = "uncertain" THEN [job EXCEPT ![k].st = "uncertain"]
                  ELSE [job EXCEPT ![k].st = "over", ![k].out = out]
    BY <1>2, Zenon DEF Finished, FinishAccepted
  <2>2. /\ job[k].lease \in 0..serial' /\ job[k].stale \subseteq 1..serial'
        /\ job[k].lease \notin job[k].stale /\ serial' \in Nat /\ serial =< serial'
    BY DEF LeaseInv
  <2>3. CASE out = "uncertain"
    <3>1. PICK r : r = [job[k] EXCEPT !.st = "uncertain"]
      OBVIOUS
    <3>2. job' = [job EXCEPT ![k] = r]
      BY <2>1, <2>3, <3>1
    <3>3. r.st = "uncertain" /\ r.lease = job[k].lease /\ r.stale = job[k].stale
      BY <3>1, Zenon DEF JobInv, JobFields
    <3>4. job[k].st \in Launched => r.st \in Launched /\ r.lease = job[k].lease
      BY <3>3 DEF Launched, Dispatched
    <3>5. /\ LeaseInv' /\ LeaseKept /\ job'[k] = r
          /\ \A x \in Jobs : x # k => job'[x] = job[x]
      BY <2>2, <3>2, <3>3, <3>4, LeaseMoves
    <3> QED
      BY <3>3, <3>5 DEF Denied
  <2>4. CASE out # "uncertain"
    <3>1. PICK r : r = [job[k] EXCEPT !.st = "over", !.out = out]
      OBVIOUS
    <3>2. job' = [job EXCEPT ![k] = r]
      BY <2>1, <2>4, <3>1, TwoFields
    <3>3. r.st = "over" /\ r.lease = job[k].lease /\ r.stale = job[k].stale /\ r.out = out
      BY <3>1, Zenon DEF JobInv, JobFields
    <3>4. job[k].st \in Launched => r.st \in Launched /\ r.lease = job[k].lease
      BY <3>3 DEF Launched
    <3>5. /\ LeaseInv' /\ LeaseKept /\ job'[k] = r
          /\ \A x \in Jobs : x # k => job'[x] = job[x]
      BY <2>2, <3>2, <3>3, <3>4, LeaseMoves
    <3> QED
      BY <2>1, <2>4, <3>3, <3>5 DEF Denied
  <2> QED
    BY <2>3, <2>4
<1> QED
  BY <1>1, <1>2

(* Placement::finish by the controller.                                    *)
LEMMA PlacementLeases ==
  ASSUME JobInv, ReplyInv, LinkInv, LeaseInv, NEW out, FinishPlacement(journal.attempt, out),
         Telling => out \in {"ended", "uncertain"}
  PROVE  LeaseInv' /\ LeaseKept /\ Undenied
<1>1. UNCHANGED serial
  BY DEF FinishPlacement, terms
<1>2. CASE journal.attempt.lease = 0
  BY <1>1, <1>2, LeasesUnchanged DEF FinishPlacement
<1>3. CASE journal.attempt.lease # 0
  <2>1. journal.attempt.id # 0
    BY <1>3, NoPendingOp DEF ReplyInv, NoAttempt
  <2>2. PICK k \in Jobs : k = Ask(journal.attempt)
    BY <2>1 DEF LinkInv
  <2>3. /\ FinishAccepted(k, journal.attempt.lease, out)
        /\ job' = Finished(k, journal.attempt.lease, out)
    BY <1>3, <2>2 DEF FinishPlacement, FinishOk, Ask
  <2> QED
    BY <1>1, <2>2, <2>3, FinishedLeases DEF Undenied
<1> QED
  BY <1>2, <1>3

(* The handlers of the controller.                                         *)
LEMMA HandlersLeases ==
  ASSUME PurseInv, SendInv, JobInv, ReplyInv, LinkInv, LeaseInv, EndInv, Controller \/ AbortRefused
  PROVE  LeaseInv' /\ LeaseKept /\ Undenied
<1>0. UNCHANGED serial
  BY HandlersLeave DEF SendInv
<1>1. CASE UNCHANGED slot
  BY <1>1, LeasesUnchanged DEF slot, terms
<1>2. Unsent \/ journal.attempt.outcome = "notsent" => ~Telling
  BY DEF Unsent, Telling, EndInv, Heard, Ends, Received
<1>3. CASE RetireRefused
  <2>1. UNCHANGED slot \/ (Unsent /\ FinishPlacement(journal.attempt, "notsent"))
    BY <1>3, Zenon DEF RetireRefused
  <2> QED
    BY <1>1, <1>2, <2>1, PlacementLeases
<1>4. CASE AbortRefused
  <2>1. Unsent /\ FinishPlacement(journal.attempt, "notsent")
    BY <1>4 DEF AbortRefused
  <2> QED
    BY <1>2, <2>1, PlacementLeases
<1>5. CASE RecoverDelivered
  <2>1. UNCHANGED slot \/ FinishPlacement(journal.attempt, "ended")
    BY <1>5, Zenon DEF RecoverDelivered
  <2> QED
    BY <1>1, <2>1, PlacementLeases
<1>6. CASE AuditEvidence
  <2>1. UNCHANGED slot \/ FinishPlacement(journal.attempt, AuditPath)
    BY <1>6, Zenon DEF AuditEvidence
  <2>2. PICK out : out = AuditPath
    OBVIOUS
  <2>3. Telling => out \in {"ended", "uncertain"}
    BY <1>2, <2>2 DEF AuditPath
  <2> QED
    BY <1>1, <2>1, <2>2, <2>3, PlacementLeases
<1>7. CASE ProviderBeforeSend
  <2>1. PICK k : k = Ask(journal.attempt)
    OBVIOUS
  <2>2. CASE UNCHANGED job
    BY <1>0, <2>2, LeasesUnchanged
  <2>3. CASE job' # job
    <3>1. Homelab /\ MaySend(Head(cmds)) /\ job' = [job EXCEPT ![k].st = "sent"]
      BY <1>7, <2>1, <2>3, Zenon DEF ProviderBeforeSend, Ask
    <3>2. job[k].st = "placed" /\ Coordinates
      BY <2>1, <3>1 DEF MaySend, Ask
    <3>3. k \in Jobs
      BY <2>1, <3>2, CoordinatesName DEF LinkInv
    <3>4. PICK r : r = [job[k] EXCEPT !.st = "sent"]
      OBVIOUS
    <3>5. r.st = "sent" /\ r.lease = job[k].lease /\ r.stale = job[k].stale
      BY <3>3, <3>4, Zenon DEF JobInv, JobFields
    <3>6. job' = [job EXCEPT ![k] = r]
      BY <3>1, <3>4
    <3>7. /\ job[k].lease \in 0..serial' /\ job[k].stale \subseteq 1..serial'
          /\ job[k].lease \notin job[k].stale /\ serial' \in Nat /\ serial =< serial'
      BY <1>0, <3>3 DEF LeaseInv
    <3>8. job[k].st \notin Launched
      BY <3>2 DEF Launched, Dispatched
    <3>9. LeaseInv' /\ LeaseKept /\ job'[k] = r
      BY <3>3, <3>5, <3>6, <3>7, <3>8, LeaseMoves
    <3> QED
      BY <2>1, <3>5, <3>9 DEF Undenied, Denied
  <2> QED
    BY <2>2, <2>3
<1>8. CASE CallReturns \/ RetryPending
  BY <1>1, <1>8 DEF CallReturns, CallConfirmed, CallRefused, CallBeforeSpawn, CallUncertain,
     SettleAfresh, RetryPending
<1>9. ASSUME NEW pc, NEW label, AfterSettle(pc, label, "clear")
      PROVE  UNCHANGED slot
  BY <1>9 DEF AfterSettle
<1>10. CASE \/ ProviderPrepare \/ ProviderReserve \/ ProviderOutcome \/ ProviderDelivery
            \/ ProviderSettle \/ ReserveAttach \/ ReserveMark \/ ReserveSubmit \/ ReservePermit
            \/ ReserveFails \/ ForgetAttempt \/ RecoveredDelivery \/ FenceProvider \/ FencedPurse
            \/ AuditSettle \/ Aborted
  BY <1>1, <1>10 DEF ProviderPrepare, ProviderReserve, ProviderOutcome, ProviderDelivery,
     ProviderSettle, ReserveAttach, ReserveMark, ReserveSubmit, ReservePermit, ReserveFails,
     ReserveStops, ForgetAttempt, RecoveredDelivery, FenceProvider, FencedPurse, AuditSettle, Aborted
<1> QED
  BY <1>1, <1>3, <1>4, <1>5, <1>6, <1>7, <1>8, <1>9, <1>10 DEF Controller

(* The job of an attempt whose reply is heard or awaited.                  *)
LEMMA TellingKnown ==
  ASSUME EndInv, Telling, journal.attempt.lease # 0
  PROVE  /\ Ends /\ job[Ask(journal.attempt)].st \in Launched
         /\ job[Ask(journal.attempt)].lease = journal.attempt.lease
<1>1. Ends
  BY DEF EndInv, Telling
<1>2. journal.attempt.sent
  BY <1>1 DEF Ends
<1> QED
  BY <1>1, <1>2 DEF EndInv

(* An attempt with a lease is about a job.                                 *)
LEMMA LeasedAsk ==
  ASSUME ReplyInv, LinkInv, journal.attempt.lease # 0
  PROVE  journal.attempt.id # 0 /\ Ask(journal.attempt) \in Jobs
BY DEF ReplyInv, LinkInv, NoAttempt

(* A placement taken back before it was used.                              *)
LEMMA DroppedLeases ==
  ASSUME JobInv, ReplyInv, LinkInv, LeaseInv, EndInv, UNCHANGED serial, NEW k \in Jobs,
         job[k].st \in {"waiting", "placed"},
         job' = [job EXCEPT ![k].st = "over", ![k].out = "dropped"]
  PROVE  LeaseInv' /\ LeaseKept /\ Undenied
<1>1. PICK r : r = [job[k] EXCEPT !.st = "over", !.out = "dropped"]
  OBVIOUS
<1>2. job' = [job EXCEPT ![k] = r]
  BY <1>1, TwoFields
<1>3. r.st = "over" /\ r.lease = job[k].lease /\ r.stale = job[k].stale
  BY <1>1, Zenon DEF JobInv, JobFields
<1>4. /\ job[k].lease \in 0..serial' /\ job[k].stale \subseteq 1..serial'
      /\ job[k].lease \notin job[k].stale /\ serial' \in Nat /\ serial =< serial'
  BY DEF LeaseInv
<1>5. job[k].st \notin Launched
  BY DEF Launched, Dispatched
<1>6. /\ LeaseInv' /\ LeaseKept
      /\ \A x \in Jobs : x # k => job'[x] = job[x]
  BY <1>2, <1>3, <1>4, <1>5, LeaseMoves
<1>7. Telling /\ journal.attempt.lease # 0 => Ask(journal.attempt) # k
  BY <1>5, TellingKnown
<1>8. journal.attempt.lease # 0 => Ask(journal.attempt) \in Jobs
  BY LeasedAsk
<1>9. Undenied
  BY <1>6, <1>7, <1>8 DEF Undenied, Denied
<1> QED
  BY <1>6, <1>9

(* Guard::drop.  Of a guard that may say not sent, no reply is heard.      *)
LEMMA GuardLeases ==
  ASSUME JobInv, ReplyInv, LinkInv, LeaseInv, EndInv, UNCHANGED serial, gw.pc # "idle",
         NEW out, GuardFinish(out), out \in {"ended", "uncertain"} \/ ~Awaiting
  PROVE  LeaseInv' /\ LeaseKept /\ Undenied
<1>1. CASE UNCHANGED job
  BY <1>1, LeasesUnchanged
<1>2. CASE job' # job
  <2>1. PICK k \in Jobs : k = Ask(gw)
    BY DEF LinkInv
  <2>2. gw.lease # 0 /\ FinishAccepted(k, gw.lease, out) /\ job' = Finished(k, gw.lease, out)
    BY <1>2, <2>1, Zenon DEF GuardFinish, Ask
  <2>3. /\ LeaseInv' /\ LeaseKept
        /\ \A x \in Jobs : Denied(job', x) =>
             \/ Denied(job, x)
             \/ x = k /\ gw.lease = job[k].lease /\ out \notin {"ended", "uncertain"}
    BY <2>2, FinishedLeases
  <2>4. ASSUME Telling, journal.attempt.lease # 0, Ask(journal.attempt) = k,
               gw.lease = job[k].lease, out \notin {"ended", "uncertain"}
        PROVE  FALSE
    <3>1. ~Awaiting /\ Heard
      BY <2>4 DEF Telling
    <3>2. gw.lease = journal.attempt.lease
      BY <2>4, TellingKnown
    <3> QED
      BY <2>1, <2>2, <2>4, <3>1, <3>2 DEF EndInv
  <2>5. journal.attempt.lease # 0 => Ask(journal.attempt) \in Jobs
    BY LeasedAsk
  <2>6. Undenied
    BY <2>3, <2>4, <2>5 DEF Undenied
  <2> QED
    BY <2>3, <2>6
<1> QED
  BY <1>1, <1>2

(* The gateway thread.                                                     *)
LEMMA GatewayLeases ==
  ASSUME JobInv, ReplyInv, LinkInv, LeaseInv, EndInv, Gateway \/ (\E b \in Bodies : Accept(b))
  PROVE  LeaseInv' /\ LeaseKept /\ Undenied
<1>1. CASE UNCHANGED slot
  BY <1>1, LeasesUnchanged DEF slot, terms
<1>2. CASE PlanEnqueue
  <2>1. PICK k \in Jobs : k = Ask(gw)
    BY <1>2 DEF PlanEnqueue, LinkInv
  <2>2. PICK r : r = [job[k] EXCEPT !.st = IF job[k].st = "none" THEN "waiting" ELSE job[k].st]
    OBVIOUS
  <2>0. UNCHANGED serial /\ (UNCHANGED job \/ job' = [job EXCEPT ![k] = r])
    BY <1>2, <2>1, <2>2, EnqueuedJob DEF PlanEnqueue, terms
  <2>a. CASE UNCHANGED job
    BY <2>0, <2>a, LeasesUnchanged
  <2>3. SUFFICES ASSUME job' = [job EXCEPT ![k] = r]
                 PROVE  LeaseInv' /\ LeaseKept /\ Undenied
    BY <2>0, <2>a
  <2>4. /\ r.out = job[k].out /\ r.lease = job[k].lease /\ r.stale = job[k].stale
        /\ r.st = IF job[k].st = "none" THEN "waiting" ELSE job[k].st
    BY <2>2 DEF JobInv, JobFields
  <2>5. /\ job[k].lease \in 0..serial' /\ job[k].stale \subseteq 1..serial'
        /\ job[k].lease \notin job[k].stale /\ serial' \in Nat /\ serial =< serial'
        /\ r.st = "placed" => r.lease # 0
    BY <2>0, <2>4 DEF LeaseInv
  <2>6. job[k].st \in Launched => r.st \in Launched /\ r.lease = job[k].lease
    BY <2>4 DEF Launched, Dispatched
  <2>7. /\ LeaseInv' /\ LeaseKept /\ job'[k] = r
        /\ \A x \in Jobs : x # k => job'[x] = job[x]
    BY <2>3, <2>4, <2>5, <2>6, LeaseMoves
  <2>8. \A x \in Jobs : Denied(job', x) => Denied(job, x)
    BY <2>4, <2>7 DEF Denied
  <2> QED
    BY <2>7, <2>8, LeasedAsk DEF Undenied
<1>3. CASE PlanPoll
  <2>1. PICK k \in Jobs : k = Ask(gw)
    BY <1>3 DEF PlanPoll, LinkInv
  <2>2. /\ UNCHANGED serial
        /\ \/ UNCHANGED job
           \/ /\ job[k].st \in {"waiting", "placed"}
              /\ job' = [job EXCEPT ![k].st = "over", ![k].out = "dropped"]
    BY <1>3, <2>1 DEF PlanPoll, Ask, terms
  <2> QED
    BY <2>2, LeasesUnchanged, DroppedLeases
<1>4. CASE DropGuard
  <2>1. PICK out : out = IF gw.out \in Received THEN "ended" ELSE gw.out
    OBVIOUS
  <2>2. GuardFinish(out) /\ gw.pc = "drop" /\ UNCHANGED serial
    BY <1>4, <2>1 DEF DropGuard, terms
  <2>3. out \in {"ended", "uncertain"} \/ ~Awaiting
    BY <2>1, <2>2 DEF ReplyInv, Awaiting
  <2> QED
    BY <2>2, <2>3, GuardLeases
<1>5. CASE ReleaseGuard
  <2>1. GuardFinish("notsent") /\ gw.pc = "release" /\ UNCHANGED serial
    BY <1>5 DEF ReleaseGuard, terms
  <2> QED
    BY <2>1, GuardLeases DEF Awaiting
<1>6. CASE \/ PrepareAnswered \/ ReserveAnswered \/ BeforeAnswered \/ Forward \/ ForwardEnds
           \/ OutcomeAnswered \/ Deliver \/ DeliveryAnswered \/ (\E b \in Bodies : Accept(b))
  BY <1>1, <1>6 DEF PrepareAnswered, ReserveAnswered, BeforeAnswered, Forward, ForwardEnds,
     OutcomeAnswered, Deliver, DeliveryAnswered, Accept
<1> QED
  BY <1>2, <1>3, <1>4, <1>5, <1>6 DEF Gateway

(* The inference broker.  A restart takes back only placements not used.   *)
LEMMA BrokerLeases ==
  ASSUME JobInv, ReplyInv, LinkInv, LeaseInv, EndInv, Broker
  PROVE  LeaseInv' /\ LeaseKept /\ Undenied
<1>1. CASE BrokerRestarts
  <2>1. UNCHANGED serial
    BY <1>1 DEF BrokerRestarts, terms
  <2>2. ASSUME NEW k \in Jobs
        PROVE  /\ job'[k].lease \in 0..serial /\ job'[k].stale \subseteq 1..serial
               /\ job'[k].lease \notin job'[k].stale
               /\ job'[k].st = "placed" => job'[k].lease # 0
               /\ job[k].st \in Launched =>
                    job'[k].st \in Launched /\ job'[k].lease = job[k].lease
               /\ Denied(job', k) => Denied(job, k)
    <3>0. /\ job[k].lease \in 0..serial /\ job[k].stale \subseteq 1..serial
          /\ job[k].lease \notin job[k].stale /\ serial \in Nat
          /\ job[k].st = "placed" => job[k].lease # 0
      BY DEF LeaseInv
    <3>1. PICK w, u : /\ w = [job[k] EXCEPT !.st = "waiting", !.lease = 0,
                                           !.stale = job[k].stale \cup {job[k].lease}]
                      /\ u = [job[k] EXCEPT !.st = "uncertain"]
      OBVIOUS
    <3>2. /\ job[k].st = "placed" => job'[k] = w
          /\ job[k].st = "sent" => job'[k] = u
          /\ job[k].st \notin {"placed", "sent"} => job'[k] = job[k]
      BY <1>1, <3>1 DEF BrokerRestarts
    <3>3. /\ w.st = "waiting" /\ w.lease = 0 /\ w.stale = job[k].stale \cup {job[k].lease}
          /\ u.st = "uncertain" /\ u.lease = job[k].lease /\ u.stale = job[k].stale
      BY <3>1, Zenon DEF JobInv, JobFields
    <3>4. CASE job[k].st = "placed"
      BY <3>0, <3>2, <3>3, <3>4 DEF Launched, Dispatched, Denied
    <3>5. CASE job[k].st = "sent"
      BY <3>0, <3>2, <3>3, <3>5 DEF Launched, Dispatched, Denied
    <3>6. CASE job[k].st \notin {"placed", "sent"}
      BY <3>0, <3>2, <3>6 DEF Denied
    <3> QED
      BY <3>4, <3>5, <3>6
  <2>3. LeaseInv' /\ LeaseKept
    BY <2>1, <2>2 DEF LeaseInv, LeaseKept
  <2> QED
    BY <2>2, <2>3, LeasedAsk DEF Undenied
<1>2. ASSUME NEW k \in Jobs, BrokerPlaces(k)
      PROVE  LeaseInv' /\ LeaseKept /\ Undenied
  <2>1. PICK r : r = [job[k] EXCEPT !.st = "placed", !.lease = serial + 1]
    OBVIOUS
  <2>2. serial' = serial + 1 /\ job[k].st = "waiting" /\ job' = [job EXCEPT ![k] = r]
    BY <1>2, <2>1, TwoFields DEF BrokerPlaces
  <2>3. r.st = "placed" /\ r.lease = serial + 1 /\ r.stale = job[k].stale
    BY <2>1, Zenon DEF JobInv, JobFields
  <2>4. serial \in Nat /\ job[k].stale \subseteq 1..serial
    BY DEF LeaseInv
  <2>5. /\ r.lease \in 0..serial' /\ r.stale \subseteq 1..serial' /\ r.lease \notin r.stale
        /\ serial' \in Nat /\ serial =< serial' /\ r.lease # 0
    BY <2>2, <2>3, <2>4
  <2>6. job[k].st \notin Launched
    BY <2>2 DEF Launched, Dispatched
  <2>7. /\ LeaseInv' /\ LeaseKept /\ job'[k] = r
        /\ \A x \in Jobs : x # k => job'[x] = job[x]
    BY <2>2, <2>5, <2>6, LeaseMoves
  <2>8. \A x \in Jobs : Denied(job', x) => Denied(job, x)
    BY <2>3, <2>7 DEF Denied
  <2> QED
    BY <2>7, <2>8, LeasedAsk DEF Undenied
<1>3. ASSUME NEW k \in Jobs, BrokerDrops(k)
      PROVE  LeaseInv' /\ LeaseKept /\ Undenied
  BY <1>3, DroppedLeases DEF BrokerDrops, terms
<1> QED
  BY <1>1, <1>2, <1>3 DEF Broker

-----------------------------------------------------------------------------
(* The ends of attempts                                                    *)

(* The attempt stays as it is, with its request.                           *)
RecordKept == /\ RequestKept /\ journal'.attempt.sent = journal.attempt.sent
              /\ journal'.attempt.outcome = journal.attempt.outcome

(* Nothing new is heard but what is awaited, and no guard is taken over.   *)
Listens ==
  /\ \A c \in Queued' : c.op = "outcome" /\ c.out \in Received =>
       c \in Queued \/ (Awaiting /\ c.att = gw.att /\ gw'.lease = 0)
  /\ Awaiting' => /\ Awaiting /\ gw'.att = gw.att
                  /\ \A c \in Queued' : c.op = "outcome" => c \in Queued
  /\ gw'.lease # 0 => \/ gw'.lease = gw.lease /\ Ask(gw') = Ask(gw)
                      \/ gw'.lease = job[Ask(gw')].lease /\ job[Ask(gw')].st = "placed"

LEMMA EndFrame ==
  ASSUME ReplyInv, LinkInv, EndInv, LeaseKept, Undenied, RecordKept, Listens
  PROVE  EndInv'
<1>0. PICK k : k = Ask(journal.attempt)
  OBVIOUS
<1>1. Ask(journal.attempt)' = k /\ Ask(journal'.attempt) = k /\ Ask(gw)' = Ask(gw')
  BY <1>0 DEF Ask, RecordKept, RequestKept
<1>2. /\ journal'.attempt.id = journal.attempt.id /\ journal'.attempt.lease = journal.attempt.lease
      /\ journal'.attempt.sent = journal.attempt.sent
      /\ journal'.attempt.outcome = journal.attempt.outcome
  BY DEF RecordKept, RequestKept
<1>3. Telling => Ends
  BY DEF Telling, EndInv
<1>4. ASSUME Telling
      PROVE  Ends'
  <2>1. journal'.attempt.sent
    BY <1>2, <1>3, <1>4 DEF Ends
  <2>2. ASSUME journal.attempt.lease # 0, Denied(job', k)
        PROVE  FALSE
    BY <1>0, <1>3, <1>4, <2>2 DEF Undenied, Denied, Ends
  <2> QED
    BY <1>1, <1>2, <2>1, <2>2 DEF Ends, Denied
<1>5. ASSUME Heard'
      PROVE  Telling
  <2>1. CASE journal'.attempt.outcome \in Received
    BY <1>2, <2>1 DEF Telling, Heard
  <2>2. CASE /\ journal'.attempt.outcome = "none"
             /\ \E c \in Queued' : /\ c.op = "outcome" /\ c.out \in Received
                                   /\ c.att = journal'.attempt.id
    BY <1>2, <2>2 DEF Telling, Heard, Listens
  <2> QED
    BY <1>5, <2>1, <2>2 DEF Heard
<1>6. journal'.attempt.sent /\ journal'.attempt.lease # 0 =>
        job'[k].st \in Launched /\ job'[k].lease = journal'.attempt.lease
  BY <1>0, <1>2, LeasedAsk DEF LeaseKept, EndInv
<1>7. Awaiting' => \A c \in Queued' : c.op = "outcome" => c.att # gw'.att
  BY DEF Listens, EndInv
<1>8. Awaiting' /\ gw'.att = journal'.attempt.id =>
        Telling /\ journal'.attempt.outcome \in {"none", "uncertain"}
  BY <1>2 DEF Listens, EndInv, Telling
<1>9. ASSUME gw'.lease # 0, gw'.lease = journal'.attempt.lease, Ask(gw') = k, Heard'
      PROVE  FALSE
  <2>1. Heard
    <3>1. CASE journal'.attempt.outcome \in Received
      BY <1>2, <3>1 DEF Heard
    <3>2. CASE /\ journal'.attempt.outcome = "none"
               /\ \E c \in Queued' : /\ c.op = "outcome" /\ c.out \in Received
                                     /\ c.att = journal'.attempt.id
      BY <1>2, <1>9, <3>2 DEF Heard, Listens
    <3> QED
      BY <1>9, <3>1, <3>2 DEF Heard
  <2>2. job[k].st \in Launched
    BY <1>0, <1>2, <1>9, <2>1, TellingKnown DEF Telling
  <2>3. CASE gw'.lease = gw.lease /\ Ask(gw') = Ask(gw)
    BY <1>0, <1>2, <1>9, <2>1, <2>3 DEF EndInv
  <2>4. CASE job[Ask(gw')].st = "placed"
    BY <1>9, <2>2, <2>4 DEF Launched, Dispatched
  <2> QED
    BY <1>9, <2>3, <2>4 DEF Listens
<1> QED
  BY <1>1, <1>4, <1>5, <1>6, <1>7, <1>8, <1>9 DEF EndInv

(* The gateway, and those who take it down or leave it alone.              *)
LEMMA GatewayListens ==
  ASSUME GatewayGoes
  PROVE  Listens
<1>1. \A c \in Queued' : c.op = "outcome" /\ c.out \in Received =>
        c \in Queued \/ (Awaiting /\ c.att = gw.att /\ gw'.lease = 0)
  BY DEF GatewayGoes, Posted
<1>2. Awaiting' => /\ Awaiting /\ gw'.att = gw.att
                   /\ \A c \in Queued' : c.op = "outcome" => c \in Queued
  BY DEF GatewayGoes, Posted
<1>3. gw'.lease # 0 => \/ gw'.lease = gw.lease /\ Ask(gw') = Ask(gw)
                       \/ gw'.lease = job[Ask(gw')].lease /\ job[Ask(gw')].st = "placed"
  BY DEF GatewayGoes, SameAsk, NewAsk
<1> QED
  BY <1>1, <1>2, <1>3 DEF Listens

LEMMA AsideListens ==
  ASSUME gw' = gw \/ gw' = IdleGateway, cmds' = cmds \/ cmds' = <<>>
  PROVE  Listens
<1>1. Queued' \subseteq Queued
  BY DEF Queued
<1>2. CASE gw' = gw
  BY <1>1, <1>2 DEF Listens, Awaiting, Ask
<1>3. CASE gw' = IdleGateway
  BY <1>1, <1>3 DEF Listens, Awaiting, IdleGateway
<1> QED
  BY <1>2, <1>3

LEMMA AnsweredListens ==
  ASSUME Answered
  PROVE  Listens /\ (Awaiting' => Awaiting /\ gw'.att = gw.att) /\ Ask(gw') = Ask(gw)
<1>1. Awaiting' => Awaiting /\ gw'.att = gw.att
  BY DEF Answered, Awaiting
<1>2. Ask(gw') = Ask(gw) /\ gw'.lease = gw.lease /\ Queued' \subseteq Queued
  BY DEF Answered, Ask
<1> QED
  BY <1>1, <1>2 DEF Listens

(* A new attempt, of which nobody has heard, or none at all.               *)
LEMMA FreshEnd ==
  ASSUME SendInv, EndInv, Answered, ~journal'.attempt.sent, journal'.attempt.outcome = "none",
         journal'.attempt.id \in {0, journal.next}
  PROVE  EndInv'
<1>1. Awaiting' => Awaiting /\ gw'.att = gw.att
  BY AnsweredListens
<1>2. Queued' \subseteq Queued
  BY DEF Answered
<1>3. journal.next \in Nat
  BY AttemptsBound DEF SendInv, GroundInv
<1>4. \A c \in Queued : c.op = "outcome" => c.att # journal'.attempt.id
  BY <1>3 DEF SendInv, GroundInv, GateInv
<1>5. Awaiting => gw.att # journal'.attempt.id
  BY <1>3 DEF SendInv, GroundInv, GateInv, Awaiting
<1>6. ~Heard'
  BY <1>2, <1>4 DEF Heard, Received
<1>7. Awaiting' => \A c \in Queued' : c.op = "outcome" => c.att # gw'.att
  BY <1>1, <1>2 DEF EndInv
<1> QED
  BY <1>1, <1>5, <1>6, <1>7 DEF EndInv

(* provider_before_send: the lease of the attempt is that of the job.      *)
LEMMA BeforeSendEnd ==
  ASSUME PurseInv, SendInv, JobInv, ReplyInv, LinkInv, EndInv, LeaseKept, Undenied, Answered,
         ProviderBeforeSend
  PROVE  EndInv'
<1>0. Listens
  BY AnsweredListens
<1>1. CASE UNCHANGED journal
  <2>1. RecordKept
    BY <1>1 DEF RecordKept, RequestKept
  <2> QED
    BY <1>0, <2>1, EndFrame
<1>2. CASE ~UNCHANGED journal
  <2>1. /\ RequestKept /\ MaySend(Head(cmds))
        /\ journal'.attempt.outcome = journal.attempt.outcome
    BY <1>2, BeforeSendRequest, BeforeSendEffect DEF PurseInv
  <2>2. PICK k : k = Ask(journal.attempt)
    OBVIOUS
  <2>3. /\ ~journal.attempt.sent /\ journal.attempt.outcome = "none"
        /\ Homelab => job[k].st = "placed" /\ job[k].lease = journal.attempt.lease
    BY <2>1, <2>2 DEF MaySend, Ask
  <2>4. ~Telling
    BY <2>3 DEF Telling, EndInv, Ends
  <2>5. ~Heard'
    BY <2>1, <2>3, <2>4 DEF Heard, Telling, Answered, RequestKept, Received
  <2>6. Awaiting' => /\ gw'.att # journal'.attempt.id
                     /\ \A c \in Queued' : c.op = "outcome" => c.att # gw'.att
    BY <2>1, <2>4, AnsweredListens DEF Telling, EndInv, Answered, RequestKept
  <2>7. ASSUME journal'.attempt.lease # 0
        PROVE  job'[k].st = "sent" /\ job'[k].lease = journal'.attempt.lease
    <3>1. journal.attempt.lease # 0 /\ k \in Jobs /\ Homelab
      BY <2>1, <2>2, <2>7, LeasedAsk DEF RequestKept, LinkInv
    <3>2. job' = [job EXCEPT ![k].st = "sent"]
      BY <1>2, <2>2, <3>1, Zenon DEF ProviderBeforeSend, Ask
    <3>3. job'[k] = [job[k] EXCEPT !.st = "sent"]
      BY <3>1, <3>2 DEF JobInv
    <3>4. job'[k].st = "sent" /\ job'[k].lease = job[k].lease
      BY <3>1, <3>3 DEF JobInv, JobFields
    <3> QED
      BY <2>1, <2>3, <3>1, <3>4 DEF RequestKept
  <2>8. Ask(journal.attempt)' = k
    BY <2>1, <2>2 DEF Ask, RequestKept
  <2> QED
    BY <2>5, <2>6, <2>7, <2>8 DEF EndInv, Launched, Dispatched
<1> QED
  BY <1>1, <1>2

(* provider_record_outcome: what is recorded was heard.                    *)
LEMMA OutcomeEnd ==
  ASSUME PurseInv, SendInv, ReplyInv, LinkInv, EndInv, LeaseKept, Undenied, Answered,
         ProviderOutcome
  PROVE  EndInv'
<1>0. Listens /\ Shapes /\ GroundInv
  BY AnsweredListens DEF PurseInv, SendInv
<1>1. CASE UNCHANGED journal
  <2>1. RecordKept
    BY <1>1 DEF RecordKept, RequestKept
  <2> QED
    BY <1>0, <2>1, EndFrame
<1>2. CASE ~UNCHANGED journal
  <2>1. PICK c \in Queued : c = Head(cmds) /\ c.op = "outcome"
    BY <1>0, HandlingEffect DEF ProviderOutcome
  <2>2. /\ RequestKept /\ journal.attempt.id = c.att
        /\ journal'.attempt.outcome = c.out
        /\ journal'.attempt.sent = journal.attempt.sent
        /\ journal.attempt.outcome = "none"
    BY <1>0, <1>2, <2>1, OutcomeRequest
  <2>3. PICK k : k = Ask(journal.attempt)
    OBVIOUS
  <2>4. Ask(journal.attempt)' = k /\ Ask(journal'.attempt) = k /\ Ask(gw)' = Ask(gw)
    BY <2>2, <2>3, AnsweredListens DEF Ask, RequestKept
  <2>5. Queued' \subseteq Queued /\ gw'.lease = gw.lease
    BY DEF Answered
  <2>6. Heard' => Heard
    BY <2>1, <2>2, <2>5 DEF Heard, RequestKept
  <2>7. Awaiting' => /\ gw'.att # journal'.attempt.id
                     /\ \A d \in Queued' : d.op = "outcome" => d.att # gw'.att
    BY <2>1, <2>2, <2>5, AnsweredListens DEF EndInv, RequestKept
  <2>8. journal'.attempt.sent /\ journal'.attempt.lease # 0 =>
          job'[k].st \in Launched /\ job'[k].lease = journal'.attempt.lease
    BY <2>2, <2>3, LeasedAsk DEF LeaseKept, EndInv, RequestKept
  <2>9. Heard => Ends'
    <3>1. Heard => Ends
      BY DEF EndInv
    <3>2. ASSUME Heard, journal.attempt.lease # 0, Denied(job', k)
          PROVE  FALSE
      BY <2>3, <3>1, <3>2 DEF Undenied, Telling, Denied, Ends
    <3> QED
      BY <2>2, <2>4, <3>1, <3>2 DEF Ends, Denied, RequestKept
  <2>10. gw'.lease # 0 /\ gw'.lease = journal'.attempt.lease /\ Ask(gw) = k => ~Heard
    BY <2>2, <2>3, <2>5 DEF EndInv, RequestKept
  <2> QED
    BY <2>4, <2>6, <2>7, <2>8, <2>9, <2>10 DEF EndInv
<1> QED
  BY <1>1, <1>2

(* An audit takes what was not heard of for uncertain.                     *)
LEMMA AuditedEnd ==
  ASSUME LinkInv, ReplyInv, EndInv, LeaseKept, Undenied, Answered, Listens, Audited
  PROVE  EndInv'
<1>1. /\ journal'.attempt.id = journal.attempt.id /\ journal'.attempt.lease = journal.attempt.lease
      /\ journal'.attempt.sent = journal.attempt.sent /\ journal'.attempt.outcome = "uncertain"
  BY DEF Audited, RequestKept
<1>2. PICK k : k = Ask(journal.attempt)
  OBVIOUS
<1>3. Ask(journal.attempt)' = k /\ Ask(journal'.attempt) = k
  BY <1>2 DEF Audited, Ask, RequestKept
<1>4. ~Heard'
  BY <1>1 DEF Heard, Received
<1>5. journal'.attempt.sent /\ journal'.attempt.lease # 0 =>
        job'[k].st \in Launched /\ job'[k].lease = journal'.attempt.lease
  BY <1>1, <1>2, LeasedAsk DEF LeaseKept, EndInv
<1>6. Awaiting' => \A c \in Queued' : c.op = "outcome" => c.att # gw'.att
  BY DEF Listens, EndInv
<1>7. ASSUME Awaiting', gw'.att = journal'.attempt.id
      PROVE  Ends'
  <2>1. Awaiting /\ gw.att = journal.attempt.id
    BY <1>1, <1>7 DEF Listens
  <2>2. Ends /\ Telling
    BY <2>1 DEF EndInv, Telling
  <2>3. journal.attempt.lease # 0 => ~Denied(job', k)
    BY <1>2, <2>2 DEF Undenied, Denied, Ends
  <2> QED
    BY <1>1, <1>3, <2>2, <2>3 DEF Ends, Denied
<1> QED
  BY <1>1, <1>3, <1>4, <1>5, <1>6, <1>7 DEF EndInv

LEMMA HandlersEnd ==
  ASSUME PurseInv, SendInv, GuardInv, LinkInv, LeaseInv, EndInv, Controller \/ AbortRefused
  PROVE  LeaseInv' /\ EndInv'
<1>0. JobInv /\ ReplyInv /\ GroundInv
  BY DEF GuardInv, SendInv
<1>1. LeaseInv' /\ LeaseKept /\ Undenied
  BY <1>0, HandlersLeases
<1>2. Answered /\ Listens
  BY <1>0, HandlersLeave, AnsweredListens
<1>3. CASE Plain
  <2>1. RecordKept
    BY <1>3 DEF Plain, RecordKept, RequestKept
  <2> QED
    BY <1>0, <1>1, <1>2, <2>1, EndFrame
<1>4. CASE journal'.attempt = NoAttempt
  BY <1>1, <1>2, <1>4, FreshEnd, NoPendingOp
<1>5. CASE Opened
  BY <1>1, <1>2, <1>5, FreshEnd DEF Opened
<1>6. CASE ProviderBeforeSend
  BY <1>0, <1>1, <1>2, <1>6, BeforeSendEnd
<1>7. CASE ProviderOutcome
  BY <1>0, <1>1, <1>2, <1>7, OutcomeEnd
<1>8. CASE Audited
  BY <1>0, <1>1, <1>2, <1>8, AuditedEnd
<1> QED
  BY <1>0, <1>3, <1>4, <1>5, <1>6, <1>7, <1>8, ReserveKind, PlainKind

(* forward_once: the frame handed over is of a job that was dispatched.    *)
LEMMA ForwardEnd ==
  ASSUME PurseInv, SendInv, OnceInv, GuardInv, LinkInv, LeaseInv, EndInv, Forward
  PROVE  LeaseInv' /\ EndInv'
<1>0. /\ gw.pc = "forward" /\ DOMAIN gw = GatewayFields /\ JobInv /\ ReplyInv
      /\ UNCHANGED <<journal, cmds, job, serial>>
  BY DEF Forward, GatewayStep, controller, slot, terms, SendInv, GroundInv, GuardInv
<1>1. LeaseInv' /\ LeaseKept /\ Undenied
  BY <1>0, LeasesUnchanged
<1>2. RecordKept /\ Queued' = Queued
  BY <1>0 DEF RecordKept, RequestKept, Queued
<1>3. CASE gw' = [gw EXCEPT !.pc = "drop", !.out = "notsent"]
  <2>1. /\ gw'.pc = "drop" /\ gw'.out = "notsent" /\ gw'.lease = gw.lease
        /\ gw'.prompt = gw.prompt /\ gw'.body = gw.body
    BY <1>0, <1>3, Zenon DEF GatewayFields
  <2>2. Listens
    BY <1>2, <2>1 DEF Listens, Awaiting, Ask
  <2> QED
    BY <1>0, <1>1, <1>2, <2>2, EndFrame
<1>4. CASE live /\ gw' = [gw EXCEPT !.pc = "inflight"]
  <2>1. /\ gw'.pc = "inflight" /\ gw'.lease = gw.lease /\ gw'.att = gw.att
        /\ gw'.prompt = gw.prompt /\ gw'.body = gw.body
    BY <1>0, <1>4 DEF GatewayFields
  <2>2. Ask(gw)' = Ask(gw) /\ Ask(journal.attempt)' = Ask(journal.attempt)
    BY <1>0, <2>1 DEF Ask
  <2>3. (Heard' <=> Heard) /\ (Ends' <=> Ends)
    BY <1>0, <1>2, <2>2 DEF Heard, Ends
  <2>4. /\ \A c \in Queued : c.op = "outcome" => c.att # gw.att
        /\ journal.attempt.id = gw.att /\ journal.attempt.outcome = "none"
        /\ journal.attempt.sent /\ gw.att # 0
    BY <1>0, <1>4 DEF SendInv, GateInv, Granted
  <2>5. ASSUME journal.attempt.lease # 0
        PROVE  job[Ask(journal.attempt)].st # "over"
    <3>1. Ask(journal.attempt) \in Jobs /\ Homelab
      BY <1>0, <2>5, LeasedAsk DEF LinkInv
    <3>2. Request(gw.att) = Ask(journal.attempt)
      BY <2>4 DEF OnceInv, RequestInv, Ask
    <3>3. gw.att \in Attempts
      BY <2>4, OpenedAttempt DEF SendInv, GroundInv
    <3>4. job[Request(gw.att)].st \in Dispatched
      BY <1>0, <1>4, <3>1, <3>2, <3>3 DEF GuardInv, SlotInv, Dispatching
    <3> QED
      BY <3>2, <3>4 DEF Dispatched
  <2>6. Ends
    BY <2>4, <2>5 DEF Ends
  <2> QED
    BY <1>0, <1>1, <1>2, <2>1, <2>2, <2>3, <2>4, <2>6 DEF EndInv
<1> QED
  BY <1>3, <1>4, Zenon DEF Forward

-----------------------------------------------------------------------------
(* The hold of a delivered reply                                           *)

HeldInv == FundsInv /\ DeliveryInv

(* A settle the host has admitted and the journal has not confirmed.       *)
Settles == \E c \in calls : c.key.op = "settle" /\ c.st = "committed"

(* What is said of the attempt stays, or it is forgotten.                  *)
Remembers ==
  /\ journal'.replays \subseteq journal.replays
  /\ \/ journal'.attempt.id = 0
     \/ /\ journal'.attempt.id = journal.attempt.id
        /\ \/ journal'.attempt.outcome = journal.attempt.outcome
           \/ journal.attempt.outcome = "none"

(* Purse and hold are left alone.                                          *)
LEMMA HeldFrame ==
  ASSUME HeldInv, UNCHANGED cell, journal'.hold = journal.hold,
         calls' = calls \/ ~Settles, journal'.settlement = journal.settlement, Remembers,
         journal.hold.st = "submitted" => journal'.pending = journal.pending
  PROVE  HeldInv'
<1>1. FundsInv'
  <2>1. AuditCoordinates' <=> AuditCoordinates
    BY DEF AuditCoordinates
  <2>2. journal.hold.st = "submitted" => Submitted'
    BY DEF HeldInv, FundsInv, Submitted, Idle
  <2> QED
    BY <2>1, <2>2 DEF HeldInv, FundsInv, Settles
<1>2. ASSUME Delivered', journal'.attempt.id # 0
      PROVE  /\ journal'.attempt.outcome \in Received
             /\ \/ journal'.hold.st = "confirmed"
                \/ journal'.hold.st = "none" /\ journal'.settlement = journal'.attempt.id
  <2>1. Delivered /\ journal.attempt.id # 0 /\ journal'.attempt.id = journal.attempt.id
    BY <1>2 DEF Remembers, Delivered
  <2>2. journal.attempt.outcome \in Received /\ journal.attempt.outcome # "none"
    BY <2>1 DEF HeldInv, DeliveryInv, Received
  <2>3. journal'.attempt.outcome = journal.attempt.outcome
    BY <1>2, <2>1, <2>2 DEF Remembers
  <2> QED
    BY <2>1, <2>2, <2>3 DEF HeldInv, DeliveryInv
<1> QED
  BY <1>1, <1>2 DEF HeldInv, DeliveryInv

(* While no call is pending, none is admitted.                             *)
LEMMA NothingSettles ==
  ASSUME PurseInv, journal.pending = NoPending \/ PendingCall.st # "committed"
  PROVE  ~Settles
<1>1. CASE journal.pending = NoPending
  BY <1>1 DEF PurseInv, CallInv, Settles
<1>2. CASE journal.pending # NoPending
  BY <1>2, PendingIsCall DEF PurseInv, Settles
<1> QED
  BY <1>1, <1>2

(* A call begins.                                                          *)
LEMMA BeginHeld ==
  ASSUME PurseInv, HeldInv, NEW j, NEW op, NEW label, NEW charge, NEW then,
         DOMAIN j = JournalFields, j.hold = journal.hold, j.pending = journal.pending,
         j.settlement = journal.settlement, j.replays = journal.replays,
         j.attempt.id = journal.attempt.id,
         \/ j.attempt.outcome = journal.attempt.outcome
         \/ journal.attempt.outcome = "none",
         BeginCall(j, op, label, charge, then), op # "none",
         op = "reserve" => journal.hold.st = "marked" /\ cell.gen = journal.hold.gen
  PROVE  HeldInv'
<1>0. Shapes /\ DOMAIN j.hold = HoldFields
  BY DEF PurseInv, Shapes
<1>1. /\ journal.pending = NoPending /\ UNCHANGED cell
      /\ journal'.attempt = j.attempt /\ journal'.replays = j.replays
      /\ journal'.settlement = journal.settlement
      /\ journal'.hold.st = IF op = "reserve" THEN "submitted" ELSE journal.hold.st
      /\ journal'.hold.gen = journal.hold.gen
      /\ journal.hold = NoHold /\ op # "reserve" => journal'.hold = NoHold
  BY <1>0, BeginCallEffect
<1>2. ~Settles
  BY <1>1, NothingSettles
<1>3. op = "reserve" => Idle(cell.status) /\ journal'.pending.root = cell.root
  BY <1>0, UnsubmittedIdle, BeginCallEffect DEF Unsubmitted
<1>4. FundsInv'
  <2>1. journal'.hold.st = "confirmed" => AuditCoordinates'
    BY <1>1, <1>2 DEF HeldInv, FundsInv, Settles, AuditCoordinates
  <2>2. journal'.hold.st = "submitted" => Submitted'
    <3>1. journal.hold.st # "submitted"
      BY <1>1, NoPendingOp DEF PurseInv, HoldInv
    <3> QED
      BY <1>1, <1>3, <3>1 DEF HeldInv, FundsInv, Submitted, Idle
  <2>3. (journal'.hold.st = "none" => journal'.hold = NoHold) /\ cell'.root \in Nat
    BY <1>1 DEF HeldInv, FundsInv
  <2> QED
    BY <2>1, <2>2, <2>3 DEF FundsInv
<1>5. DeliveryInv'
  <2>1. Delivered' <=> Delivered
    BY <1>1 DEF Delivered
  <2> QED
    BY <1>1, <2>1 DEF HeldInv, DeliveryInv, Received
<1> QED
  BY <1>4, <1>5 DEF HeldInv

(* A call is confirmed: the host has its funds, or its charge.             *)
LEMMA ConfirmedHeld ==
  ASSUME PurseInv, HeldInv, journal.pending # NoPending, PendingCall.st = "committed",
         journal' = Confirmed, UNCHANGED cell
  PROVE  HeldInv'
<1>0. PICK c \in calls : calls = {c} /\ c.st = "committed" /\ c.key.op = journal.pending.op
  BY PendingIsCall DEF PurseInv, CallOK
<1>1. /\ journal'.attempt = journal.attempt /\ journal'.replays = journal.replays
      /\ journal.pending.op = "reserve" =>
           journal'.hold.st = "confirmed" /\ journal'.hold.gen = journal.hold.gen
      /\ journal.pending.op = "settle" =>
           journal'.hold = NoHold /\ journal'.settlement = journal.attempt.id
      /\ journal.pending.op # "settle" => journal'.settlement = journal.settlement
      /\ journal.pending.op \notin {"reserve", "settle"} => journal'.hold = journal.hold
  BY ConfirmedEffect DEF PurseInv
<1>2. Delivered' <=> Delivered
  BY <1>1 DEF Delivered
<1>3. CASE journal.pending.op = "reserve"
  <2>1. journal.hold.st = "submitted" /\ Submitted /\ ~Idle(cell.status)
    BY <1>0, <1>3 DEF PurseInv, HoldInv, HeldInv, FundsInv
  <2>2. cell.status = "reserved" /\ cell.gen = journal.hold.gen
    BY <2>1 DEF Submitted
  <2>3. AuditCoordinates'
    BY <1>1, <1>3, <2>2 DEF AuditCoordinates
  <2>4. FundsInv'
    BY <1>1, <1>3, <2>3 DEF HeldInv, FundsInv
  <2>5. DeliveryInv'
    BY <1>1, <1>2, <1>3, <2>1 DEF HeldInv, DeliveryInv
  <2> QED
    BY <2>4, <2>5 DEF HeldInv
<1>4. CASE journal.pending.op = "settle"
  <2>1. FundsInv'
    BY <1>1, <1>4, NoPendingOp DEF HeldInv, FundsInv
  <2>2. DeliveryInv'
    BY <1>1, <1>2, <1>4, NoPendingOp DEF HeldInv, DeliveryInv
  <2> QED
    BY <2>1, <2>2 DEF HeldInv
<1>5. CASE journal.pending.op \notin {"reserve", "settle"}
  <2>1. ~Settles
    BY <1>0, <1>5 DEF Settles
  <2>2. Remembers
    BY <1>1 DEF Remembers
  <2>3. journal.hold.st # "submitted"
    BY <1>5 DEF PurseInv, HoldInv
  <2> QED
    BY <1>1, <1>5, <2>1, <2>2, <2>3, HeldFrame
<1> QED
  BY <1>3, <1>4, <1>5

(* A call that was not admitted is given up.                               *)
LEMMA DroppedHeld ==
  ASSUME PurseInv, HeldInv, journal.pending # NoPending, PendingCall.st # "committed",
         NEW st \in {"refused", "marked"}, UNCHANGED cell,
         journal' = [journal EXCEPT !.pending = NoPending,
                       !.hold.st = IF journal.pending.op = "reserve" THEN st ELSE @]
  PROVE  HeldInv'
<1>1. /\ journal'.attempt = journal.attempt /\ journal'.replays = journal.replays
      /\ journal'.settlement = journal.settlement
      /\ journal.hold = NoHold /\ journal.pending.op # "reserve" => journal'.hold = NoHold
      /\ journal'.hold.st = IF journal.pending.op = "reserve" THEN st ELSE journal.hold.st
      /\ journal'.hold.gen = journal.hold.gen
  BY DroppedEffect DEF PurseInv
<1>2. ~Settles /\ (Delivered' <=> Delivered)
  BY <1>1, NothingSettles DEF Delivered
<1>3. journal.pending.op = "reserve" <=> journal.hold.st = "submitted"
  BY DEF PurseInv, HoldInv
<1>4. FundsInv'
  <2>1. journal'.hold.st = "confirmed" => AuditCoordinates'
    BY <1>1, <1>2 DEF HeldInv, FundsInv, Settles, AuditCoordinates
  <2>2. journal'.hold.st # "submitted"
    BY <1>1, <1>3
  <2>3. (journal'.hold.st = "none" => journal'.hold = NoHold) /\ cell'.root \in Nat
    BY <1>1 DEF HeldInv, FundsInv
  <2> QED
    BY <2>1, <2>2, <2>3 DEF FundsInv
<1>5. DeliveryInv'
  BY <1>1, <1>2, <1>3 DEF HeldInv, DeliveryInv
<1> QED
  BY <1>4, <1>5 DEF HeldInv

LEMMA ClearedHeld ==
  ASSUME PurseInv, HeldInv, journal.pending # NoPending, PendingCall.st # "committed",
         journal' = [journal EXCEPT !.pending = NoPending], UNCHANGED cell,
         journal.pending.op # "reserve"
  PROVE  HeldInv'
<1>1. /\ journal'.attempt = journal.attempt /\ journal'.replays = journal.replays
      /\ journal'.settlement = journal.settlement /\ journal'.hold = journal.hold
  BY SlotCleared DEF PurseInv
<1>2. journal.hold.st # "submitted"
  BY DEF PurseInv, HoldInv
<1> QED
  BY <1>1, <1>2, NothingSettles, HeldFrame DEF Remembers

(* A call goes on without being admitted.                                  *)
LEMMA DecidedHeld ==
  ASSUME PurseInv, HeldInv, NEW c \in calls, c.st # "committed", UNCHANGED <<journal, cell>>
  PROVE  HeldInv'
<1>1. ~Settles
  BY DEF PurseInv, CallInv, Settles
<1> QED
  BY <1>1, HeldFrame DEF Remembers

(* The host admits a call.                                                 *)
LEMMA AdmitHeld ==
  ASSUME PurseInv, HeldInv, NEW c \in calls, Applies(c.key), Admit(c), c.st # "committed",
         UNCHANGED journal
  PROVE  HeldInv'
<1>0. DOMAIN cell = CellFields /\ cell' = After(c.key, c.att) /\ calls' = Decided(c, "committed")
  BY DEF PurseInv, Shapes, Admit
<1>1. /\ c.key.op \in {"attach", "reserve", "settle", "disconnect"}
      /\ c.key.op = "reserve" => cell'.status = "reserved"
      /\ c.key.op = "disconnect" => \/ cell.status = "attached" /\ cell'.status = "detached"
                                    \/ cell.status = "reserved" /\ cell'.status = "fenced"
      /\ c.key.op = "disconnect" => cell'.gen = cell.gen + 1
      /\ c.key.op = "reserve" => cell.status = "attached" /\ cell'.gen = cell.gen
      /\ cell'.root = cell.root + 1
  BY <1>0, AfterEffect
<1>2. PICK d : calls' = {d} /\ d.key = c.key /\ d.st = "committed"
  BY <1>0, DecidedEffect
<1>3. ~Settles
  BY DEF PurseInv, CallInv, Settles
<1>4. c.key = journal.pending
  BY DEF PurseInv, CallInv, CallOK
<1>5. FundsInv'
  <2>1. (journal.hold.st = "none" => journal.hold = NoHold) /\ cell'.root \in Nat
    BY <1>1 DEF HeldInv, FundsInv
  <2>2. CASE c.key.op = "attach"
    BY <2>1, <2>2 DEF PurseInv, HoldInv, FundsInv
  <2>3. CASE c.key.op = "reserve"
    <3>1. journal.hold.st = "submitted" /\ Submitted
      BY <1>4, <2>3 DEF PurseInv, HoldInv, HeldInv, FundsInv
    <3>2. cell.gen = journal.hold.gen
      BY <1>1, <1>4, <2>3, <3>1 DEF Submitted, Idle, Applies
    <3>3. Submitted'
      BY <1>1, <2>3, <3>2 DEF Submitted, Idle
    <3> QED
      BY <2>1, <3>1, <3>3 DEF FundsInv
  <2>4. CASE c.key.op = "settle"
    <3>1. journal.hold.st = "confirmed"
      BY <2>4 DEF PurseInv, HoldInv
    <3> QED
      BY <1>2, <2>1, <2>4, <3>1 DEF FundsInv
  <2>5. CASE c.key.op = "disconnect"
    <3>1. journal.hold.st # "submitted"
      BY <1>4, <2>5 DEF PurseInv, HoldInv
    <3>2. journal.hold.st = "confirmed" => AuditCoordinates
      BY <1>3 DEF HeldInv, FundsInv, Settles
    <3>3. journal.hold.st = "confirmed" => AuditCoordinates'
      BY <1>1, <2>5, <3>2 DEF AuditCoordinates
    <3> QED
      BY <2>1, <3>1, <3>3 DEF FundsInv
  <2> QED
    BY <1>1, <2>2, <2>3, <2>4, <2>5
<1>6. DeliveryInv'
  BY DEF HeldInv, DeliveryInv, Delivered
<1> QED
  BY <1>5, <1>6 DEF HeldInv

(* The custody child of a call, and the purse's owner.                     *)
LEMMA NativeHeld ==
  ASSUME PurseInv, HeldInv, Native
  PROVE  HeldInv'
<1>1. CASE OwnerMoves
  <2>1. /\ cell'.root = cell.root + 1 /\ Idle(cell.status) /\ Idle(cell'.status)
    BY <1>1, OwnerEffect DEF PurseInv, Shapes, Idle
  <2>2. cell.root \in Nat /\ cell'.root \in Nat
    BY <2>1 DEF HeldInv, FundsInv
  <2>3. UNCHANGED <<journal, calls>>
    BY <1>1 DEF OwnerMoves, controller
  <2>4. FundsInv'
    <3>1. journal.hold.st = "submitted" => Submitted'
      BY <2>1, <2>2, <2>3 DEF HeldInv, FundsInv, Submitted, Idle
    <3>2. ~AuditCoordinates
      BY <2>1 DEF AuditCoordinates, Idle
    <3> QED
      BY <2>2, <2>3, <3>1, <3>2 DEF HeldInv, FundsInv
  <2>5. DeliveryInv'
    BY <2>3 DEF HeldInv, DeliveryInv, Delivered
  <2> QED
    BY <2>4, <2>5 DEF HeldInv
<1>2. ASSUME NEW c \in calls, Custody(c)
      PROVE  HeldInv'
  <2>1. UNCHANGED journal
    BY <1>2 DEF Custody, controller
  <2>2. \/ c.st # "committed" /\ UNCHANGED cell
        \/ c.st = "sealed" /\ Decide(c)
        \/ c.st = "contended" /\ Applies(c.key) /\ Admit(c)
    BY <1>2, Zenon DEF Custody
  <2>3. CASE c.st # "committed" /\ UNCHANGED cell
    BY <2>1, <2>3, DecidedHeld
  <2>4. CASE c.st = "sealed" /\ Decide(c)
    BY <2>1, <2>4, DecidedHeld, AdmitHeld DEF Decide
  <2>5. CASE c.st = "contended" /\ Applies(c.key) /\ Admit(c)
    BY <2>1, <2>5, AdmitHeld
  <2> QED
    BY <2>2, <2>3, <2>4, <2>5
<1> QED
  BY <1>1, <1>2 DEF Native

(* A call returns to its handler, or is taken up again.                    *)
LEMMA ReturnsHeld ==
  ASSUME PurseInv, HeldInv, CallReturns \/ RetryPending
  PROVE  HeldInv'
<1>0. UNCHANGED journal /\ UNCHANGED <<cell, calls>> => HeldInv'
  BY HeldFrame DEF Remembers
<1>1. CASE CallConfirmed
  BY <1>1, ConfirmedHeld DEF CallConfirmed, PurseInv, PcInv
<1>2. CASE CallRefused
  BY <1>2, DroppedHeld DEF CallRefused, RefusedCall, PurseInv, PcInv
<1>3. CASE CallBeforeSpawn
  BY <1>3, DroppedHeld DEF CallBeforeSpawn, PurseInv, PcInv
<1>4. CASE CallUncertain
  BY <1>0, <1>4 DEF CallUncertain, purse
<1>5. CASE SettleAfresh
  <2>1. journal.pending # NoPending /\ journal.pending.label = "settle"
    BY <1>5 DEF SettleAfresh, PurseInv, PcInv
  <2>2. journal.pending.op = "settle"
    BY <2>1, PendingIsCall DEF PurseInv, CallOK
  <2> QED
    BY <1>5, <2>1, <2>2, ClearedHeld DEF SettleAfresh
<1>6. CASE RetryPending
  <2>1. CASE UNCHANGED <<journal, purse>>
    BY <1>0, <2>1 DEF purse
  <2>2. CASE /\ journal.pending # NoPending /\ PendingCall.st = "unsigned"
             /\ journal' = RefusedCall /\ UNCHANGED cell
    BY <2>2, DroppedHeld DEF RefusedCall
  <2>3. CASE /\ journal.pending # NoPending /\ PendingCall.st \in {"rejected", "expired"}
             /\ journal' = [journal EXCEPT !.pending = NoPending] /\ UNCHANGED cell
    <3>1. journal.pending.op # "reserve"
      BY <2>3, PendingIsCall DEF PurseInv, CallOK
    <3> QED
      BY <2>3, <3>1, ClearedHeld
  <2>4. CASE /\ journal.pending # NoPending /\ PendingCall.st = "committed"
             /\ journal' = Confirmed /\ UNCHANGED cell
    BY <2>4, ConfirmedHeld
  <2>5. CASE /\ journal.pending # NoPending /\ PendingCall.st = "sealed"
             /\ Decide(PendingCall) /\ UNCHANGED journal
    <3>1. PendingCall \in calls
      BY <2>5, PendingIsCall DEF PurseInv
    <3> QED
      BY <2>5, <3>1, DecidedHeld, AdmitHeld DEF Decide
  <2> QED
    BY <1>6, <2>1, <2>2, <2>3, <2>4, <2>5, Zenon DEF RetryPending
<1> QED
  BY <1>1, <1>2, <1>3, <1>4, <1>5, <1>6 DEF CallReturns

(* provider_reserve: of a new attempt nothing was delivered.               *)
LEMMA ReserveHeld ==
  ASSUME PurseInv, SendInv, OnceInv, HeldInv, ProviderReserve
  PROVE  HeldInv'
<1>0. DOMAIN journal = JournalFields /\ UNCHANGED <<cell, calls>>
  BY DEF PurseInv, Shapes, ProviderReserve, purse
<1>1. CASE UNCHANGED journal
  BY <1>0, <1>1, HeldFrame DEF Remembers
<1>2. CASE ~UNCHANGED journal
  <2> DEFINE a == [NoAttempt EXCEPT !.id = journal.next, !.prompt = Head(cmds).prompt,
                                    !.body = Head(cmds).body, !.lease = Head(cmds).lease]
  <2>1. journal.hold = NoHold
        /\ journal' = [journal EXCEPT !.next = @ + 1, !.settlement = 0, !.attempt = a]
    BY <1>2, Zenon DEF ProviderReserve, Unresolved, controller
  <2>2. a.id = journal.next
    BY Zenon DEF NoAttempt
  <2> HIDE DEF a
  <2>3. PICK n : journal' = [journal EXCEPT !.next = n, !.settlement = 0, !.attempt = a]
    BY <2>1
  <2>4. /\ journal'.hold = journal.hold /\ journal'.replays = journal.replays
        /\ journal'.attempt = a
    BY <1>0, <2>3, Zenon DEF JournalFields
  <2>5. journal.next \in Nat \ {0}
    BY AttemptsBound DEF SendInv, GroundInv
  <2>6. ~Delivered'
    <3>1. \A r \in journal.replays : r.att # journal.next
      BY <2>5 DEF OnceInv, RequestInv
    <3> QED
      BY <2>2, <2>4, <3>1 DEF Delivered
  <2>7. FundsInv'
    BY <1>0, <2>1, <2>4, NoPendingOp DEF HeldInv, FundsInv
  <2> QED
    BY <2>6, <2>7 DEF HeldInv, DeliveryInv
<1> QED
  BY <1>1, <1>2

(* The records of a send, an outcome and a delivery.                       *)
LEMMA RecordsHeld ==
  ASSUME PurseInv, HeldInv, ProviderBeforeSend \/ ProviderOutcome \/ ProviderDelivery
  PROVE  HeldInv'
<1>0. /\ Shapes /\ DOMAIN journal = JournalFields /\ DOMAIN journal.attempt = AttemptFields
      /\ UNCHANGED <<cell, calls>>
  BY DEF PurseInv, Shapes, ProviderBeforeSend, ProviderOutcome, ProviderDelivery, purse
<1>1. CASE UNCHANGED journal
  BY <1>0, <1>1, HeldFrame DEF Remembers
<1>2. CASE ProviderBeforeSend /\ ~UNCHANGED journal
  <2>1. journal' = [journal EXCEPT !.attempt.sent = TRUE]
    BY <1>2, Zenon DEF ProviderBeforeSend
  <2>2. /\ journal'.hold = journal.hold /\ journal'.replays = journal.replays
        /\ journal'.settlement = journal.settlement /\ journal'.pending = journal.pending
        /\ journal'.attempt = [journal.attempt EXCEPT !.sent = TRUE]
    BY <1>0, <2>1 DEF JournalFields
  <2>3. /\ journal'.attempt.id = journal.attempt.id
        /\ journal'.attempt.outcome = journal.attempt.outcome
    BY <1>0, <2>2 DEF AttemptFields
  <2> QED
    BY <1>0, <2>2, <2>3, HeldFrame DEF Remembers
<1>3. CASE ProviderOutcome /\ ~UNCHANGED journal
  <2> DEFINE g == GateAfter(journal.attempt.body, Head(cmds).out)
             recorded == [journal EXCEPT !.attempt.outcome = Head(cmds).out, !.gate = g]
             quoted == [recorded EXCEPT !.attempt.quoted = TRUE]
  <2>1. /\ journal.attempt.outcome = "none"
        /\ journal' = recorded \/ journal' = quoted
    BY <1>3, Zenon DEF ProviderOutcome, controller
  <2> HIDE DEF g
  <2>2. /\ DOMAIN recorded = JournalFields /\ recorded.hold = journal.hold
        /\ recorded.replays = journal.replays /\ recorded.settlement = journal.settlement
        /\ recorded.pending = journal.pending
        /\ recorded.attempt = [journal.attempt EXCEPT !.outcome = Head(cmds).out]
    BY <1>0, Zenon DEF JournalFields
  <2> HIDE DEF recorded
  <2>3. DOMAIN recorded.attempt = AttemptFields /\ recorded.attempt.id = journal.attempt.id
    BY <1>0, <2>2 DEF AttemptFields
  <2>4. /\ quoted.hold = recorded.hold /\ quoted.replays = recorded.replays
        /\ quoted.settlement = recorded.settlement /\ quoted.pending = recorded.pending
        /\ quoted.attempt = [recorded.attempt EXCEPT !.quoted = TRUE]
    BY <2>2 DEF JournalFields
  <2> HIDE DEF quoted
  <2>5. quoted.attempt.id = recorded.attempt.id
    BY <2>3, <2>4 DEF AttemptFields
  <2> QED
    BY <1>0, <2>1, <2>2, <2>3, <2>4, <2>5, HeldFrame DEF Remembers
<1>4. CASE ProviderDelivery /\ ~UNCHANGED journal
  <2> DEFINE r == [att |-> journal.attempt.id, prompt |-> journal.attempt.prompt,
                   body |-> journal.attempt.body, out |-> journal.attempt.outcome]
             R == journal.replays \cup {r}
  <2>1. /\ journal.attempt.outcome \in Received /\ journal.hold.st = "confirmed"
        /\ journal' = [journal EXCEPT !.replays = R]
    BY <1>4, Zenon DEF ProviderDelivery, controller
  <2> HIDE DEF R
  <2>2. journal'.hold = journal.hold /\ journal'.attempt = journal.attempt
    BY <1>0, <2>1 DEF JournalFields
  <2>3. FundsInv'
    BY <1>0, <2>1, <2>2 DEF HeldInv, FundsInv, AuditCoordinates
  <2> QED
    BY <2>1, <2>2, <2>3 DEF HeldInv, DeliveryInv
<1> QED
  BY <1>1, <1>2, <1>3, <1>4

(* The handlers of the controller.                                         *)
LEMMA HandlersHeld ==
  ASSUME PurseInv, SendInv, OnceInv, HeldInv, Controller \/ AbortRefused
  PROVE  HeldInv'
<1>0. /\ Shapes /\ DOMAIN journal = JournalFields /\ DOMAIN journal.attempt = AttemptFields
  BY DEF PurseInv, Shapes
<1>1. CASE CallReturns \/ RetryPending
  BY <1>1, ReturnsHeld
<1>2. CASE UNCHANGED <<journal, purse>>
  BY <1>2, HeldFrame DEF Remembers, purse
<1>3. ASSUME NEW op, NEW label, NEW charge, NEW then, op \notin {"none", "reserve"},
             BeginCall(journal, op, label, charge, then)
      PROVE  HeldInv'
  BY <1>0, <1>3, BeginHeld
<1>4. CASE ProviderPrepare \/ ReservePermit \/ ReserveFails \/ FencedPurse
  BY <1>2, <1>4 DEF ProviderPrepare, ReservePermit, ReserveFails, ReserveStops, FencedPurse,
     controller
<1>5. CASE ReserveAttach \/ AuditSettle
  BY <1>3, <1>5 DEF ReserveAttach, AuditSettle
<1>6. CASE ReserveSubmit
  <2>1. journal.hold.st = "marked" /\ cell.gen = journal.hold.gen
    BY <1>6 DEF ReserveSubmit, PurseInv, PcInv
  <2> QED
    BY <1>0, <1>6, <2>1, BeginHeld DEF ReserveSubmit
<1>7. CASE ProviderSettle
  <2>1. \/ \E charge : BeginCall(journal, "settle", "settle", charge, "settled")
        \/ UNCHANGED <<journal, purse>>
    BY <1>7, Zenon DEF ProviderSettle
  <2> QED
    BY <1>2, <1>3, <2>1
<1>8. ASSUME NEW pc, NEW label, AfterSettle(pc, label, "clear")
      PROVE  HeldInv'
  <2>1. BeginCall(journal, "disconnect", label, 0, "clear") \/ UNCHANGED <<journal, purse>>
    BY <1>8, Zenon DEF AfterSettle
  <2> QED
    BY <1>2, <1>3, <2>1
<1>9. CASE ReserveMark
  <2>1. PICK h : h.st = "marked" /\ journal' = [journal EXCEPT !.hold = h]
    BY <1>9 DEF ReserveMark
  <2>2. /\ journal'.hold = h /\ journal'.attempt = journal.attempt
        /\ journal'.replays = journal.replays
    BY <1>0, <2>1 DEF JournalFields
  <2>3. journal.attempt.outcome = "none"
    BY <1>9 DEF ReserveMark, SendInv, OpenInv, Opening
  <2>4. ~(Delivered /\ journal.attempt.id # 0)
    BY <2>3 DEF HeldInv, DeliveryInv, Received
  <2>5. DeliveryInv'
    BY <2>2, <2>4 DEF DeliveryInv, Delivered
  <2>6. UNCHANGED cell
    BY <1>9 DEF ReserveMark, purse
  <2> QED
    BY <2>1, <2>2, <2>5, <2>6 DEF HeldInv, FundsInv
<1>10. CASE journal' = [journal EXCEPT !.attempt = NoAttempt] /\ UNCHANGED purse
  BY <1>0, <1>10, HeldFrame, NoPendingOp DEF JournalFields, Remembers, purse
<1>11. CASE journal' = [journal EXCEPT !.attempt = NoAttempt, !.hold = NoHold] /\ UNCHANGED purse
  <2>1. journal'.attempt = NoAttempt /\ journal'.hold = NoHold
    BY <1>0, <1>11, Zenon DEF JournalFields
  <2> QED
    BY <1>11, <2>1, NoPendingOp DEF HeldInv, FundsInv, DeliveryInv, purse
<1>12. CASE ForgetAttempt \/ RecoveredDelivery \/ Aborted \/ RetireRefused
  BY <1>2, <1>10, <1>11, <1>12, Zenon DEF ForgetAttempt, RecoveredDelivery, Aborted, RetireRefused
<1>13. CASE RecoverDelivered
  <2>1. \/ BeginCall(journal, "settle", "recovery_settle", Quote, "cleared")
        \/ UNCHANGED <<journal, purse>>
        \/ journal' = [journal EXCEPT !.attempt = NoAttempt] /\ UNCHANGED purse
    BY <1>13, Zenon DEF RecoverDelivered
  <2> QED
    BY <1>2, <1>3, <1>10, <2>1
<1>14. CASE FenceProvider
  <2>1. \/ BeginCall(journal, "disconnect", "fence", 0, "fenced")
        \/ \E f : journal' = [journal EXCEPT !.fenced = f] /\ UNCHANGED purse
    BY <1>14, Zenon DEF FenceProvider
  <2>2. ASSUME NEW f, journal' = [journal EXCEPT !.fenced = f], UNCHANGED purse
        PROVE  HeldInv'
    BY <1>0, <2>2, HeldFrame DEF JournalFields, Remembers, purse
  <2> QED
    BY <1>3, <2>1, <2>2
<1>15. CASE AbortRefused
  <2>1. \/ BeginCall(journal, "disconnect", "abort_disconnect", 0, "aborted")
        \/ UNCHANGED <<journal, purse>>
    BY <1>15, Zenon DEF AbortRefused
  <2> QED
    BY <1>2, <1>3, <2>1
<1>16. CASE AuditEvidence
  <2>1. PICK j \in {journal, AuditRecorded, AuditQuoted} :
          \/ journal' = j /\ UNCHANGED purse
          \/ BeginCall(j, "disconnect", "audit_fence", 0, "audit_settle")
          \/ UNCHANGED <<journal, purse>>
    BY <1>16, AuditCases
  <2>2. /\ DOMAIN j = JournalFields /\ j.hold = journal.hold
        /\ j.pending = journal.pending /\ j.settlement = journal.settlement
        /\ j.replays = journal.replays /\ j.attempt.id = journal.attempt.id
        /\ \/ j.attempt.outcome = journal.attempt.outcome
           \/ journal.attempt.outcome = "none"
    BY <1>0, AuditJournal
  <2>3. CASE BeginCall(j, "disconnect", "audit_fence", 0, "audit_settle")
    BY <2>2, <2>3, BeginHeld
  <2>4. CASE journal' = j /\ UNCHANGED purse
    BY <2>2, <2>4, HeldFrame DEF Remembers, purse
  <2> QED
    BY <1>2, <2>1, <2>3, <2>4
<1> QED
  BY <1>1, <1>4, <1>5, <1>6, <1>7, <1>8, <1>9, <1>12, <1>13, <1>14, <1>15, <1>16, ReserveHeld,
     RecordsHeld DEF Controller

(* Prompts, crash, recovery and repair leave purse and attempt alone.      *)
LEMMA PromptHeld ==
  ASSUME PurseInv, HeldInv,
         \/ StartPrompt \/ EndPrompt \/ Drained \/ Disconnect \/ Crash \/ Recover
         \/ ReconcileAudited
  PROVE  HeldInv'
<1>1. /\ UNCHANGED <<cell, calls>>
      /\ journal'.attempt = journal.attempt /\ journal'.hold = journal.hold
  BY PromptEffect DEF PurseInv
<1>2. /\ journal'.replays = {} \/ journal'.replays = journal.replays
      /\ journal'.settlement = journal.settlement
  <2>1. CASE StartPrompt \/ Disconnect \/ Recover
    BY <2>1, Zenon DEF StartPrompt, Disconnect, Recover, PurseInv, Shapes, JournalFields
  <2>2. CASE Drained
    BY <2>2 DEF Drained, PurseInv, Shapes, JournalFields
  <2>3. CASE EndPrompt \/ Crash \/ ReconcileAudited
    BY <2>3 DEF EndPrompt, Crash, ReconcileAudited
  <2> QED
    BY <2>1, <2>2, <2>3
<1>3. Remembers
  BY <1>1, <1>2 DEF Remembers
<1>4. journal'.pending = journal.pending
  BY PromptEffect DEF PurseInv
<1> QED
  BY <1>1, <1>2, <1>3, <1>4, HeldFrame

(* Gateway, brokers and deadlines do not touch the purse.                  *)
LEMMA OthersHeld ==
  ASSUME PurseInv, HeldInv,
         \/ Gateway \/ HardStop \/ WorkerDeadline \/ Broker \/ Upstream \/ UNCHANGED vars
         \/ (\E b \in Bodies : Accept(b))
  PROVE  HeldInv'
<1>1. CASE UNCHANGED vars
  BY <1>1, HeldFrame DEF Remembers, vars, controller, purse
<1>2. CASE ~UNCHANGED vars
  BY <1>2, OthersLeave, HeldFrame DEF Remembers
<1> QED
  BY <1>1, <1>2

-----------------------------------------------------------------------------
(* The steps that leave the attempt as it is                               *)

LEMMA GatewayEnd ==
  ASSUME PurseInv, SendInv, OnceInv, GuardInv, LinkInv, LeaseInv, EndInv,
         Gateway \/ (\E b \in Bodies : Accept(b))
  PROVE  LeaseInv' /\ EndInv'
<1>1. CASE Forward
  BY <1>1, ForwardEnd
<1>2. CASE ~Forward
  <2>1. LeaseInv' /\ LeaseKept /\ Undenied
    BY GatewayLeases DEF GuardInv
  <2>2. Listens
    BY <1>2, GatewayWalks, GatewayListens DEF SendInv
  <2>3. RecordKept
    BY OthersLeave DEF RecordKept, RequestKept
  <2> QED
    BY <2>1, <2>2, <2>3, EndFrame DEF GuardInv
<1> QED
  BY <1>1, <1>2

LEMMA PromptEnd ==
  ASSUME PurseInv, GuardInv, LinkInv, LeaseInv, EndInv,
         \/ StartPrompt \/ EndPrompt \/ Drained \/ Disconnect \/ Crash \/ Recover
         \/ ReconcileAudited
  PROVE  LeaseInv' /\ EndInv'
<1>1. UNCHANGED <<job, serial>>
  BY DEF StartPrompt, EndPrompt, Drained, Disconnect, Crash, Recover, ReconcileAudited, slot, terms
<1>2. LeaseInv' /\ LeaseKept /\ Undenied
  BY <1>1, LeasesUnchanged
<1>3. (gw' = gw \/ gw' = IdleGateway) /\ (cmds' = cmds \/ cmds' = <<>>)
  BY DEF StartPrompt, EndPrompt, Drained, Disconnect, Crash, Recover, ReconcileAudited, gateway
<1>4. RecordKept
  BY PromptEffect DEF PurseInv, RecordKept, RequestKept
<1> QED
  BY <1>2, <1>3, <1>4, AsideListens, EndFrame DEF GuardInv

LEMMA BystandersEnd ==
  ASSUME GuardInv, LinkInv, LeaseInv, EndInv,
         HardStop \/ WorkerDeadline \/ Native \/ Broker \/ Upstream \/ UNCHANGED vars
  PROVE  LeaseInv' /\ EndInv'
<1>1. UNCHANGED <<journal, gw, cmds>>
  BY DEF HardStop, WorkerDeadline, Native, OwnerMoves, Custody, Broker, BrokerRestarts,
     BrokerPlaces, BrokerDrops, Upstream, BrokerRefuses, UpstreamSend, UpstreamReplies,
     UpstreamCut, UpstreamEnds, TicketJournalFails, vars, controller, gateway
<1>2. LeaseInv' /\ LeaseKept /\ Undenied
  <2>1. CASE Broker
    BY <2>1, BrokerLeases DEF GuardInv
  <2>2. CASE HardStop \/ WorkerDeadline \/ Native \/ Upstream \/ UNCHANGED vars
    <3>1. UNCHANGED <<job, serial>>
      BY <2>2 DEF HardStop, WorkerDeadline, Native, OwnerMoves, Custody, Upstream, BrokerRefuses,
         UpstreamSend, UpstreamReplies, UpstreamCut, UpstreamEnds, TicketJournalFails, vars, slot,
         terms
    <3> QED
      BY <3>1, LeasesUnchanged
  <2> QED
    BY <2>1, <2>2
<1>3. RecordKept
  BY <1>1 DEF RecordKept, RequestKept
<1> QED
  BY <1>1, <1>2, <1>3, AsideListens, EndFrame DEF GuardInv

-----------------------------------------------------------------------------
(* Delivered replies can be settled                                        *)

(* Leases, ends and holds together.                                        *)
RecoverInv == LinkInv /\ LeaseInv /\ EndInv /\ HeldInv

(* The invariant holds at the start.                                       *)
LEMMA RecoverInitially ==
  ASSUME Init
  PROVE  RecoverInv
<1>1. /\ journal.attempt = NoAttempt /\ journal.hold = NoHold /\ journal.replays = {}
      /\ journal.prompt = 0 /\ ~open /\ gw = IdleGateway /\ cmds = <<>> /\ serial = 0
      /\ job = [k \in Jobs |-> [st |-> "none", lease |-> 0, stale |-> {}, out |-> "none"]]
  BY DEF Init
<1>2. Queued = {}
  BY <1>1 DEF Queued
<1>3. /\ IdleGateway.pc = "idle" /\ IdleGateway.lease = 0 /\ NoHold.st = "none"
      /\ NoAttempt.id = 0 /\ ~NoAttempt.sent /\ NoAttempt.outcome = "none"
  BY DEF IdleGateway, NoAttempt, NoHold
<1>4. LinkInv
  BY <1>1, <1>2, <1>3, ProviderAssumption DEF LinkInv
<1>5. LeaseInv
  BY <1>1 DEF LeaseInv
<1>6. EndInv
  BY <1>1, <1>2, <1>3 DEF EndInv, Heard, Awaiting, Received
<1>7. HeldInv
  <2>1. cell.root \in Nat
    BY DEF Init
  <2> QED
    BY <1>1, <1>3, <2>1 DEF HeldInv, FundsInv, DeliveryInv
<1> QED
  BY <1>4, <1>5, <1>6, <1>7 DEF RecoverInv

(* Every step keeps it.                                                    *)
LEMMA RecoverInductive ==
  ASSUME PurseInv, SendInv, OnceInv, GuardInv, RecoverInv, [Next]_vars
  PROVE  RecoverInv'
<1>1. CASE Controller \/ AbortRefused
  BY <1>1, HandlersLink, HandlersEnd, HandlersHeld DEF RecoverInv, GuardInv
<1>2. CASE Gateway \/ (\E b \in Bodies : Accept(b))
  <2>1. LinkInv'
    <3>1. CASE Forward
      BY <3>1, ForwardLink DEF SendInv, RecoverInv
    <3>2. CASE ~Forward
      <4>1. GatewayGoes
        BY <1>2, <3>2, GatewayWalks DEF SendInv
      <4>2. UNCHANGED journal
        BY <1>2, OthersLeave
      <4>3. GatewayStep /\ UNCHANGED terms
        BY <1>2, <3>2, Zenon DEF Gateway, Accept, PrepareAnswered, PlanEnqueue, PlanPoll, ReserveAnswered,
           BeforeAnswered, ForwardEnds, DropGuard, ReleaseGuard, OutcomeAnswered, Deliver,
           DeliveryAnswered, slot
      <4>4. UNCHANGED <<open, route>>
        BY <4>3 DEF GatewayStep, terms
      <4> QED
        BY <4>1, <4>2, <4>4, GatewayLink DEF RecoverInv
    <3> QED
      BY <3>1, <3>2
  <2> QED
    BY <1>2, <2>1, GatewayEnd, OthersHeld DEF RecoverInv
<1>3. CASE \/ StartPrompt \/ EndPrompt \/ Drained \/ Disconnect \/ Crash \/ Recover
           \/ ReconcileAudited
  BY <1>3, PromptLink, PromptEnd, PromptHeld DEF RecoverInv
<1>4. CASE HardStop \/ WorkerDeadline \/ Native \/ Broker \/ Upstream \/ UNCHANGED vars
  BY <1>4, BystandersLink, BystandersEnd, OthersHeld, NativeHeld DEF RecoverInv
<1> QED
  BY <1>1, <1>2, <1>3, <1>4 DEF Next, Prompting, Operator

(* The inductive invariant of leases, ends and holds holds throughout.     *)
THEOREM RecoverInvariant == ASSUME ~DiskFaults PROVE Spec => []RecoverInv
<1>1. Init => RecoverInv
  BY RecoverInitially
<1>2. PurseInv /\ SendInv /\ OnceInv /\ GuardInv /\ RecoverInv /\ [Next]_vars => RecoverInv'
  BY RecoverInductive
<1> QED
  BY <1>1, <1>2, SendInvariant, GuardInvariant, PTL DEF Spec

(* A received reply: its hold and its lease can be finished.               *)
LEMMA ReplyRecoverable ==
  ASSUME PurseInv, GuardInv, RecoverInv
  PROVE  DeliveredRecoverable
<1> SUFFICES ASSUME journal.attempt # NoAttempt, journal.pending = NoPending, Delivered
             PROVE  (SettledHere \/ AuditCoordinates) /\ FinishOk(journal.attempt, "ended")
  BY DEF DeliveredRecoverable
<1>1. journal.attempt.id # 0
  BY DEF GuardInv, ReplyInv
<1>2. /\ journal.attempt.outcome \in Received
      /\ \/ journal.hold.st = "confirmed"
         \/ journal.hold.st = "none" /\ journal.settlement = journal.attempt.id
  BY <1>1 DEF RecoverInv, HeldInv, DeliveryInv
<1>3. SettledHere \/ AuditCoordinates
  <2>1. CASE journal.hold.st = "confirmed"
    BY <2>1, NothingSettles DEF RecoverInv, HeldInv, FundsInv, Settles
  <2>2. CASE journal.hold.st = "none" /\ journal.settlement = journal.attempt.id
    <3>1. journal.hold = NoHold
      BY <2>2 DEF RecoverInv, HeldInv, FundsInv
    <3>2. Idle(cell.status)
      BY <2>2 DEF PurseInv, HoldInv, HoldRecorded, CellInv, Idle
    <3> QED
      BY <2>2, <3>1, <3>2 DEF SettledHere
  <2> QED
    BY <1>2, <2>1, <2>2
<1>4. FinishOk(journal.attempt, "ended")
  <2>1. CASE journal.attempt.lease = 0
    BY <2>1 DEF FinishOk
  <2>2. CASE journal.attempt.lease # 0
    <3> DEFINE k == Ask(journal.attempt)
    <3>1. k \in Jobs
      BY <1>1 DEF RecoverInv, LinkInv
    <3>2. Ends
      BY <1>2 DEF RecoverInv, EndInv, Heard
    <3>3. job[k].st \in Launched /\ job[k].lease = journal.attempt.lease
      BY <2>2, <3>2 DEF RecoverInv, EndInv, Ends
    <3>4. job[k].lease \notin job[k].stale
      BY <3>1 DEF RecoverInv, LeaseInv
    <3>5. job[k].st = "over" => job[k].out = "ended"
      BY <2>2, <3>2 DEF Ends
    <3> QED
      BY <3>3, <3>4, <3>5 DEF FinishOk, FinishAccepted, Launched, Dispatched, Ask
  <2> QED
    BY <2>1, <2>2
<1> QED
  BY <1>3, <1>4

(* A reply that was delivered can always be settled, or is recognised as   *)
(* settled, whatever a crash, a lost answer, a fence or a restart of the   *)
(* inference broker fell between: purse and placement accept the recovery  *)
(* (recover_delivered_provider_response, provider_audit_coordinates).      *)
THEOREM DeliveriesRecoverable == ASSUME ~DiskFaults PROVE Spec => []DeliveredRecoverable
<1>1. PurseInv /\ GuardInv /\ RecoverInv => DeliveredRecoverable
  BY ReplyRecoverable
<1> QED
  BY <1>1, SendInvariant, GuardInvariant, RecoverInvariant, PTL
=============================================================================
