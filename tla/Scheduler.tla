------------------------------ MODULE Scheduler ------------------------------
(***************************************************************************)
(* The inference broker (native/inference-scheduler): one process that     *)
(* allocates the slots of physical capacity groups to the jobs of several  *)
(* controllers, and keeps every allocation in a snapshot file and in a     *)
(* directory of immutable terminal receipts.                               *)
(*                                                                         *)
(* The broker serves one call at a time.  A call works on a private        *)
(* candidate `cand' and becomes visible only when the candidate replaces   *)
(* the snapshot, so what interleaves is: which call comes next and what    *)
(* its wall clock says, where a crash or a failed write falls between the  *)
(* file renames of one save, and which replies reach their caller.         *)
(* core.rs runs its placement loop inside a call; here one turn of that    *)
(* loop is one step on the private candidate.                              *)
(***************************************************************************)
EXTENDS Integers, FiniteSets, FiniteSetsExt

CONSTANTS
  Ids,            \* job identities, ordered as the BTreeMap orders them
  Controllers,    \* registered controllers
  Principals,     \* members the controllers act for
  PrincipalOf,    \* Controllers -> Principals (Registration.principal)
  PoolOf,         \* Controllers -> pools (Registration.pool)
  Backends,       \* backend names, ordered as the BTreeMap orders them
  BackendPool,    \* Backends -> pools
  Groups,         \* physical capacity groups
  GroupOf,        \* Backends -> Groups
  Slots,          \* Groups -> number of slots (Config.groups)
  Bodies,         \* request contents (digest, model, token bounds, endpoints)
  ModelOf,        \* Bodies -> model names
  Fits,           \* Bodies -> backends whose endpoint and model serve it
  Cost,           \* Bodies \X Backends -> estimated microseconds
  Requests,       \* <<controller, id, body, deadline>> of the calls to enqueue
  Reports,        \* the outcomes controllers report with Finish
  Drains,         \* the settings the operator asks for with Drain
  Resolves,       \* the jobs the operator asks to resolve
  Times,          \* readings of the wall clock, in milliseconds
  LeaseMs,        \* Config.lease_ms
  UsPerMs,        \* 1000 in the code
  MaxJobs, MaxQueued, MaxActive, MaxReceipts,   \* Config bounds
  MaxGuards,      \* MAX_UNSENT_LEASE_GUARDS
  MaxU64,         \* u64::MAX
  MaxFaults,      \* bound on crashes and failed writes, not in the code
  None            \* the controller and body of an absent job

(* Config::validate, and the wiring of the configuration maps.             *)
ASSUME ConfigAssumption ==
  /\ Ids \subseteq Nat \ {0} /\ IsFiniteSet(Ids)
  /\ Backends \subseteq Nat \ {0}
  /\ None \notin Controllers /\ None \notin Bodies
  /\ PrincipalOf \in [Controllers -> Principals]
  /\ GroupOf \in [Backends -> Groups]
  /\ Slots \in [Groups -> Nat \ {0}]
  /\ Fits \in [Bodies -> SUBSET Backends]
  /\ Cost \in [Bodies \X Backends -> Nat]
  /\ Requests \subseteq Controllers \X Ids \X Bodies \X Nat
  /\ Reports \subseteq {"ended", "not-sent", "uncertain", "cancelled", "expired",
                      "drained", "operator-resolved"}
  /\ Drains \subseteq BOOLEAN /\ Resolves \subseteq Ids
  /\ Times \subseteq Nat
  /\ LeaseMs \in Nat \ {0} /\ UsPerMs \in Nat \ {0}
  /\ MaxJobs \in Nat \ {0} /\ MaxQueued \in Nat \ {0} /\ MaxActive \in Nat \ {0}
  /\ MaxReceipts \in Nat /\ MaxReceipts >= MaxJobs
  /\ MaxGuards \in Nat /\ MaxU64 \in Nat \ {0} /\ MaxFaults \in Nat

VARIABLES
  disk,      \* state.json: a Core
  archive,   \* receipts/: the terminal job kept under each id
  core,      \* Service.core
  cand,      \* the candidate `next' of the call being served
  pc,        \* where the broker process is
  opening,   \* the running save belongs to Service::open
  now,       \* the wall clock reading of the call being served
  receipts, drained,   \* Service.receipts, Service.drained_receipts
  asked,     \* the <<id, lease, backend>> this call would permit to send
  sent,      \* history: every permission to send a caller has received
  running,   \* history: those whose execution is not reported over
  faults     \* crashes and failed writes so far

vars == <<disk, archive, core, cand, pc, opening, now, receipts, drained,
          asked, sent, running, faults>>

-----------------------------------------------------------------------------
(* Jobs                                                                    *)

NoLease == 0
NoBackend == 0
NoAsk == <<0, 0, 0>>

Outcomes == {"ended", "not-sent", "uncertain", "cancelled", "expired",
             "drained", "operator-resolved"}

NoJob == [st |-> "none", controller |-> None, body |-> None, deadline |-> 0,
          order |-> 0, lease |-> NoLease, backend |-> NoBackend, expires |-> 0,
          started |-> 0, est |-> 0, stop |-> FALSE, outcome |-> "none",
          superseded |-> {}]

Job(ctl, body, deadline, order) ==
  [NoJob EXCEPT !.st = "queued", !.controller = ctl, !.body = body,
                !.deadline = deadline, !.order = order]

(* Mutant: the lease is forgotten with the placement.                      *)
TerminalNoLease(j, out) ==
  [j EXCEPT !.st = "terminal", !.outcome = out, !.backend = NoBackend, !.lease = NoLease,
            !.expires = 0, !.started = 0, !.est = 0, !.stop = FALSE]

(* A terminal job keeps the exact lease it ended under, if it had one.     *)
Terminal(j, out) ==
  [j EXCEPT !.st = "terminal", !.outcome = out, !.backend = NoBackend,
            !.expires = 0, !.started = 0, !.est = 0, !.stop = FALSE]

Principal(j) == PrincipalOf[j.controller]
Live(j) == j.st \notin {"none", "terminal"}
Holds(j) == j.st \in {"placed", "dispatched", "uncertain"}
Crossed(j) == j.st \in {"dispatched", "uncertain"}

JobRecords ==
  [st : {"queued", "placed", "dispatched", "uncertain", "terminal"},
   controller : Controllers, body : Bodies, deadline : Nat, order : Nat,
   lease : Nat, backend : Backends \cup {NoBackend}, expires : Nat,
   started : Nat, est : Nat, stop : BOOLEAN, outcome : Outcomes \cup {"none"},
   superseded : SUBSET Nat]

JobType == {NoJob} \cup {j \in JobRecords : Holds(j) => j.backend \in Backends}

-----------------------------------------------------------------------------
(* The core: the part of the state that is one snapshot file               *)

NewCore ==
  [jobs |-> [i \in Ids |-> NoJob], service |-> [p \in Principals |-> 0],
   next |-> 1, floor |-> 0, draining |-> FALSE,
   archived |-> 0, archivedDrained |-> 0]

CoreType ==
  [jobs : [Ids -> JobType], service : [Principals -> Nat], next : Nat,
   floor : Nat, draining : BOOLEAN, archived : Nat, archivedDrained : Nat]

LiveIds(c) == {i \in Ids : Live(c.jobs[i])}
TerminalIds(c) == {i \in Ids : c.jobs[i].st = "terminal"}
QueuedOf(c, p) == {i \in Ids : c.jobs[i].st = "queued" /\ Principal(c.jobs[i]) = p}
Occupied(c, g) == {i \in Ids : Holds(c.jobs[i]) /\ GroupOf[c.jobs[i].backend] = g}
ActiveOf(c, p) == {i \in Ids : Holds(c.jobs[i]) /\ Principal(c.jobs[i]) = p}
Members(c) == {Principal(c.jobs[i]) : i \in LiveIds(c)}

(* Mutant: neither a clock that stepped back nor a refund is clamped.      *)
SubUnsaturated(a, b) == a - b

(* u64 arithmetic that saturates instead of wrapping.                      *)
SatSub(a, b) == IF b \in 0..a THEN a - b ELSE 0
SatAdd(a, b) == IF a + b > MaxU64 THEN MaxU64 ELSE a + b

Estimates(c, S, p) ==
  MapThenSumSet(LAMBDA i : c.jobs[i].est,
                {i \in S : c.jobs[i].st # "none" /\ Principal(c.jobs[i]) = p})

Credited(c, S) == [p \in Principals |-> SatSub(c.service[p], Estimates(c, S, p))]

(* Service a principal has really used: what it was charged less what its  *)
(* running placements only reserve.                                        *)
Committed(c, p) == SatSub(c.service[p], Estimates(c, ActiveOf(c, p), p))

AdvanceFloor(c) ==
  LET least == {p \in Members(c) :
                  \A q \in Members(c) : Committed(c, p) <= Committed(c, q)}
  IN  IF \E p \in least : Committed(c, p) > c.floor
      THEN [c EXCEPT !.floor = Committed(c, CHOOSE p \in least : TRUE)]
      ELSE c

(* End the unsent jobs S, refunding what their placements reserved.        *)
Retire(c, S, out) ==
  [c EXCEPT !.jobs = [i \in Ids |-> IF i \in S THEN Terminal(c.jobs[i], out)
                                               ELSE c.jobs[i]],
            !.service = Credited(c, S)]

(* Mutant: placements have no expiry.                                      *)
ExpireQueuedOnly(c, t) ==
  Retire(c, {i \in Ids : c.jobs[i].st = "queued" /\ c.jobs[i].deadline <= t}, "expired")

Expire(c, t) ==
  Retire(c, {i \in Ids : \/ c.jobs[i].st = "queued" /\ c.jobs[i].deadline <= t
                         \/ c.jobs[i].st = "placed" /\ c.jobs[i].expires <= t},
         "expired")

(* schedule() up to the choice of its next placement: the floor advances   *)
(* at the head of every turn of the loop, which draining skips.            *)
Turn(c) == IF c.draining THEN c ELSE AdvanceFloor(c)

-----------------------------------------------------------------------------
(* Placement                                                               *)

Eligible(b, ctl, body) == BackendPool[b] = PoolOf[ctl] /\ b \in Fits[body]

(* Mutant: off by one in the slots of a group.                             *)
FeasibleOneMore(c, i) ==
  {b \in Backends : /\ Eligible(b, c.jobs[i].controller, c.jobs[i].body)
                    /\ Cardinality(Occupied(c, GroupOf[b])) <= Slots[GroupOf[b]]}

Feasible(c, i) ==
  {b \in Backends : /\ Eligible(b, c.jobs[i].controller, c.jobs[i].body)
                    /\ Cardinality(Occupied(c, GroupOf[b])) < Slots[GroupOf[b]]}

Family(j) == <<Principal(j), PoolOf[j.controller], ModelOf[j.body]>>

(* A family offers only its oldest job that some backend can take now.     *)
Offers(c) ==
  {ch \in Ids \X Backends :
     LET j == c.jobs[ch[1]] IN
     /\ j.st = "queued"
     /\ Cardinality(ActiveOf(c, Principal(j))) < MaxActive
     /\ ch[2] \in Feasible(c, ch[1])
     /\ \A k \in Ids :
          /\ c.jobs[k].st = "queued"
          /\ Family(c.jobs[k]) = Family(j)
          /\ c.jobs[k].order < j.order
          => Feasible(c, k) = {}}

Key(c, ch) ==
  LET j == c.jobs[ch[1]]
  IN  <<c.service[Principal(j)], j.order, Cost[<<j.body, ch[2]>>], ch[2]>>

Before(k, l) ==
  \E n \in 1..4 : k[n] < l[n] /\ \A m \in 1..(n - 1) : k[m] = l[m]

Best(c) ==
  {ch \in Offers(c) : \A o \in Offers(c) \ {ch} : Before(Key(c, ch), Key(c, o))}

Overflows(c, ch) ==
  LET j == c.jobs[ch[1]]
  IN  \/ c.next = MaxU64
      \/ c.service[Principal(j)] + Cost[<<j.body, ch[2]>>] > MaxU64

Lower(a, b) == IF a < b THEN a ELSE b
Higher(a, b) == IF a < b THEN b ELSE a

(* Mutant: the placement reuses the serial of the admission as its lease.  *)
PlacedUnderOrder(c, i, b, t) ==
  LET j == c.jobs[i]
      cost == Cost[<<j.body, b>>]
  IN  [c EXCEPT !.service[Principal(j)] = @ + cost,
                !.jobs[i] = [j EXCEPT !.st = "placed", !.lease = j.order,
                                      !.backend = b, !.est = cost,
                                      !.expires = Lower(t + LeaseMs, j.deadline)]]

(* Mutant: the reservation is not charged.                                 *)
PlacedUncharged(c, i, b, t) ==
  LET j == c.jobs[i]
  IN  [c EXCEPT !.next = @ + 1,
                !.jobs[i] = [j EXCEPT !.st = "placed", !.lease = c.next,
                                      !.backend = b, !.est = Cost[<<j.body, b>>],
                                      !.expires = Lower(t + LeaseMs, j.deadline)]]

Placed(c, i, b, t) ==
  LET j == c.jobs[i]
      cost == Cost[<<j.body, b>>]
  IN  [c EXCEPT !.next = @ + 1,
                !.service[Principal(j)] = @ + cost,
                !.jobs[i] = [j EXCEPT !.st = "placed", !.lease = c.next,
                                      !.backend = b, !.est = cost,
                                      !.expires = Lower(t + LeaseMs, j.deadline)]]

-----------------------------------------------------------------------------
(* Operations of the core                                                  *)

Admissible(c, ctl, body, deadline, t) ==
  /\ ~c.draining
  /\ deadline > t
  /\ Cardinality(LiveIds(c)) < MaxJobs
  /\ Cardinality(QueuedOf(c, PrincipalOf[ctl])) < MaxQueued
  /\ \E b \in Backends : Eligible(b, ctl, body)
  /\ c.next < MaxU64

(* Mutant: a member comes back with the service it left with.              *)
AdmittedAtOldService(c, ctl, i, body, deadline) ==
  [AdvanceFloor([c EXCEPT !.next = @ + 1]) EXCEPT
     !.jobs[i] = Job(ctl, body, deadline, c.next)]

(* A principal without live work rejoins at the virtual floor.             *)
Admitted(c, ctl, i, body, deadline) ==
  LET p == PrincipalOf[ctl]
      d == AdvanceFloor([c EXCEPT !.next = @ + 1])
  IN  [d EXCEPT !.service[p] = IF p \in Members(d) THEN @ ELSE Higher(@, d.floor),
                !.jobs[i] = Job(ctl, body, deadline, c.next)]

Dispatched(c, i, t) ==
  [c EXCEPT !.jobs[i] = [@ EXCEPT !.st = "dispatched", !.started = t,
                                  !.expires = 0, !.stop = FALSE]]

Elapsed(j, out, t) == IF out = "not-sent" THEN 0 ELSE SatSub(t, j.started) * UsPerMs

(* The estimate is refunded, the time really used is charged; the last job *)
(* to end carries the virtual floor forward.                               *)
Completed(c, i, elapsed, out) ==
  LET p == Principal(c.jobs[i])
      used == SatAdd(SatSub(c.service[p], c.jobs[i].est), elapsed)
  IN  [c EXCEPT !.service[p] = used,
                !.jobs[i] = Terminal(@, out),
                !.floor = IF LiveIds(c) = {i} THEN Higher(@, used) ELSE @]

Unconfirmed(c, i) ==
  [c EXCEPT !.jobs[i] = [@ EXCEPT !.st = "uncertain", !.stop = FALSE]]

(* The reports a finish accepts, and what each does.                       *)
LateReport(j, lease, out) ==
  \/ lease \in j.superseded /\ out = "not-sent"
  \/ /\ lease \notin j.superseded
     /\ j.st = "terminal" /\ lease # NoLease /\ j.lease = lease
     /\ \/ j.outcome = out
        \/ j.outcome = "operator-resolved" /\ out \in {"ended", "not-sent", "uncertain"}
        \/ out = "not-sent" /\ j.outcome \in {"expired", "cancelled", "drained"}

(* Mutant: a report is not compared with the lease in force.               *)
EndReportAnyLease(j, lease, out) ==
  /\ lease \notin j.superseded
  /\ \/ j.st = "placed" /\ out = "not-sent"
     \/ Crossed(j) /\ out \in {"ended", "not-sent"}

EndReport(j, lease, out) ==
  /\ lease \notin j.superseded
  /\ j.lease = lease
  /\ \/ j.st = "placed" /\ out = "not-sent"
     \/ Crossed(j) /\ out \in {"ended", "not-sent"}

UncertainReport(j, lease, out) ==
  /\ lease \notin j.superseded
  /\ j.lease = lease
  /\ Crossed(j) /\ out = "uncertain"

Resolvable(j) ==
  Crossed(j) \/ (j.st = "terminal" /\ j.outcome = "operator-resolved")

Resolved(c, i, t) ==
  IF Crossed(c.jobs[i])
  THEN Completed(c, i, SatSub(t, c.jobs[i].started) * UsPerMs, "operator-resolved")
  ELSE c

(* Mutant: a cancel overrides an outcome that is already recorded.         *)
CancelledAgain(c, i) ==
  IF Crossed(c.jobs[i]) THEN c ELSE Retire(c, {i}, "cancelled")

(* Cancelling sent work only asks for a stop; the slot stays taken.        *)
Cancelled(c, i) ==
  CASE c.jobs[i].st \in {"queued", "placed"} -> Retire(c, {i}, "cancelled")
    [] c.jobs[i].st = "dispatched" -> [c EXCEPT !.jobs[i].stop = TRUE]
    [] OTHER -> c

(* Mutant: a drain ends whatever is live.                                  *)
DrainingAll(c, enabled) ==
  LET d == [c EXCEPT !.draining = enabled]
  IN  IF enabled THEN Retire(d, LiveIds(d), "drained") ELSE d

Draining(c, enabled) ==
  LET d == [c EXCEPT !.draining = enabled]
  IN  IF enabled
      THEN Retire(d, {i \in Ids : d.jobs[i].st \in {"queued", "placed"}}, "drained")
      ELSE d

Requeued(j) ==
  [j EXCEPT !.st = "queued", !.superseded = @ \cup {j.lease}, !.lease = NoLease,
            !.backend = NoBackend, !.expires = 0, !.est = 0]

(* Mutant: sent work goes back to the queue like unsent work.              *)
RecoveredJobResends(j) == IF Holds(j) THEN Requeued(j) ELSE j

RecoveredJob(j) ==
  CASE j.st = "placed" ->
         IF Cardinality(j.superseded) >= MaxGuards /\ j.lease \notin j.superseded
         THEN Terminal(j, "not-sent") ELSE Requeued(j)
    [] j.st = "dispatched" -> [j EXCEPT !.st = "uncertain", !.stop = FALSE]
    [] OTHER -> j

(* Mutant: the restart refunds sent work too.                              *)
RecoveredRefundsSent(c) ==
  [c EXCEPT !.jobs = [i \in Ids |-> RecoveredJob(c.jobs[i])],
            !.service = Credited(c, {i \in Ids : Holds(c.jobs[i])})]

Recovered(c) ==
  [c EXCEPT !.jobs = [i \in Ids |-> RecoveredJob(c.jobs[i])],
            !.service = Credited(c, {i \in Ids : c.jobs[i].st = "placed"})]

-----------------------------------------------------------------------------
(* Serving a call                                                          *)

Archived == {i \in Ids : archive[i].st # "none"}
DrainedReceipts == {i \in Archived : archive[i].outcome = "drained"}

Init ==
  /\ disk = NewCore /\ archive = [i \in Ids |-> NoJob]
  /\ core = NewCore /\ cand = NewCore
  /\ pc = "down" /\ opening = FALSE /\ now = 0
  /\ receipts = 0 /\ drained = 0
  /\ asked = NoAsk /\ sent = {} /\ running = {} /\ faults = 0

(* The process is gone; core and cand hold no memory until the next open.  *)
GoDown ==
  /\ pc' = "down" /\ core' = disk /\ cand' = disk
  /\ opening' = FALSE /\ now' = 0 /\ asked' = NoAsk
  /\ receipts' = 0 /\ drained' = 0

(* The call ends without an effect: its candidate is dropped.              *)
Discard ==
  /\ pc' = "idle" /\ cand' = core /\ now' = 0 /\ asked' = NoAsk
  /\ UNCHANGED <<disk, archive, core, opening, receipts, drained, sent, faults>>

Begin(t) ==
  /\ pc = "idle"
  /\ now' = t
  /\ cand' = Turn(Expire(core, t))
  /\ pc' = "schedule"
  /\ UNCHANGED <<disk, archive, core, opening, receipts, drained, asked, sent,
                 running, faults>>

(* One turn of the placement loop of schedule(): place the best choice.    *)
PlaceNext ==
  /\ pc \in {"schedule", "reschedule"}
  /\ ~cand.draining
  /\ \E ch \in Best(cand) :
       /\ ~Overflows(cand, ch)
       /\ cand' = Turn(Placed(cand, ch[1], ch[2], now))
  /\ UNCHANGED <<disk, archive, core, pc, opening, now, receipts, drained,
                 asked, sent, running, faults>>

(* A counter of the chosen placement would overflow: the call is refused.  *)
PlaceOverflows ==
  /\ pc \in {"schedule", "reschedule"}
  /\ ~cand.draining
  /\ \E ch \in Best(cand) : Overflows(cand, ch)
  /\ Discard
  /\ UNCHANGED running

(* schedule() has returned: nothing is left to place.                      *)
Settled(phase) ==
  /\ pc = phase
  /\ cand.draining \/ Offers(cand) = {}

(* The candidate with the receipt of the addressed job, if it is archived. *)
Addressed(i) ==
  IF cand.jobs[i].st = "none" THEN [cand EXCEPT !.jobs[i] = archive[i]] ELSE cand

(* inspect(): a job answers only to the controller that owns it.           *)
Owns(ctl, j) == j.st # "none" /\ j.controller = ctl

Reschedule(c) ==
  /\ cand' = Turn(Expire(c, now))
  /\ pc' = "reschedule"
  /\ UNCHANGED <<disk, archive, core, opening, now, receipts, drained, sent, faults>>

(* Some call that a check refuses: an unregistered or foreign controller,  *)
(* an unknown job, a stale lease, a full queue, a conflicting identity.    *)
Refuse ==
  /\ Settled("schedule")
  /\ Discard
  /\ UNCHANGED running

ArchiveRoom(c) == receipts + Cardinality(LiveIds(c)) + 1 <= MaxReceipts

Enqueue(ctl, i, body, deadline) ==
  /\ Settled("schedule")
  /\ Addressed(i).jobs[i].st = "none"
  /\ ArchiveRoom(Addressed(i))
  /\ Admissible(Addressed(i), ctl, body, deadline, now)
  /\ Reschedule(Admitted(Addressed(i), ctl, i, body, deadline))
  /\ UNCHANGED <<asked, running>>

(* The same request again: the retained job answers, its deadline stands.  *)
EnqueueAgain(ctl, i, body) ==
  /\ Settled("schedule")
  /\ Owns(ctl, Addressed(i).jobs[i])
  /\ Addressed(i).jobs[i].body = body
  /\ Reschedule(Addressed(i))
  /\ UNCHANGED <<asked, running>>

Inspect(ctl, i) ==
  /\ Settled("schedule")
  /\ Owns(ctl, Addressed(i).jobs[i])
  /\ Reschedule(Addressed(i))
  /\ UNCHANGED <<asked, running>>

Dispatch(ctl, i, lease) ==
  LET j == Addressed(i).jobs[i] IN
  /\ Settled("schedule")
  /\ Owns(ctl, j)
  /\ j.st = "placed" /\ j.lease = lease /\ now < j.expires
  /\ Reschedule(Dispatched(Addressed(i), i, now))
  /\ asked' = <<i, lease, j.backend>>
  /\ UNCHANGED running

(* A report that an execution ended is made when it has: from then on the  *)
(* lease no longer stands for anything running.                            *)
Finish(ctl, i, lease, out) ==
  LET j == Addressed(i).jobs[i] IN
  /\ Settled("schedule")
  /\ Owns(ctl, j)
  /\ \/ LateReport(j, lease, out) /\ Reschedule(Addressed(i))
     \/ /\ EndReport(j, lease, out)
        /\ Reschedule(Completed(Addressed(i), i, Elapsed(j, out, now), out))
     \/ UncertainReport(j, lease, out) /\ Reschedule(Unconfirmed(Addressed(i), i))
  /\ running' = {r \in running : \/ r[1] # i \/ r[2] # lease
                                 \/ out \notin {"ended", "not-sent"}}
  /\ UNCHANGED asked

Cancel(ctl, i) ==
  /\ Settled("schedule")
  /\ Owns(ctl, Addressed(i).jobs[i])
  /\ Reschedule(Cancelled(Addressed(i), i))
  /\ UNCHANGED <<asked, running>>

(* The operator's calls start from the core itself, before any schedule(). *)
Operate(c, t) ==
  /\ pc = "idle"
  /\ now' = t
  /\ cand' = Turn(Expire(c, t))
  /\ pc' = "reschedule"
  /\ UNCHANGED <<disk, archive, core, opening, receipts, drained, asked, sent,
                 faults>>

Status(t) == Operate(core, t) /\ UNCHANGED running

Drain(enabled, t) == Operate(Draining(core, enabled), t) /\ UNCHANGED running

(* The operator attests that the physical execution of i is over.          *)
Resolve(i, t) ==
  /\ Resolvable(core.jobs[i])
  /\ Operate(Resolved(core, i, t), t)
  /\ running' = {r \in running : r[1] # i}

-----------------------------------------------------------------------------
(* Saving                                                                  *)

(* The second schedule() is done and changed nothing: reply at once.       *)
Unchanged ==
  /\ Settled("reschedule")
  /\ cand = core
  /\ Discard
  /\ UNCHANGED running

(* A changed candidate, or a recovered one, is saved.                      *)
ToSave == (Settled("reschedule") /\ cand # core) \/ pc = "open"

(* Mutant: receipts are published before the snapshot.                     *)
SaveTerminalSkipped ==
  /\ ToSave
  /\ TerminalIds(cand) # {}
  /\ pc' = "archive"
  /\ now' = 0
  /\ UNCHANGED <<disk, archive, core, cand, opening, receipts, drained, asked, sent,
                 running, faults>>

(* The whole transition is on disk before any receipt is published.        *)
SaveTerminal ==
  /\ ToSave
  /\ TerminalIds(cand) # {}
  /\ disk' = cand
  /\ pc' = "archive"
  /\ now' = 0
  /\ UNCHANGED <<archive, core, cand, opening, receipts, drained, asked, sent,
                 running, faults>>

FirstTerminal(i) == i \in TerminalIds(cand) /\ \A k \in TerminalIds(cand) : i <= k

(* Mutant: a full archive drops the receipt.                               *)
ArchiveReceiptDrops(i) ==
  /\ pc = "archive"
  /\ FirstTerminal(i)
  /\ archive' = IF receipts < MaxReceipts THEN [archive EXCEPT ![i] = cand.jobs[i]]
                                          ELSE archive
  /\ receipts' = Lower(receipts + 1, MaxReceipts)
  /\ cand' = [cand EXCEPT !.jobs[i] = NoJob]
  /\ UNCHANGED <<disk, core, pc, opening, now, drained, asked, sent, running, faults>>

ArchiveReceipt(i) ==
  /\ pc = "archive"
  /\ FirstTerminal(i)
  /\ \/ /\ archive[i] = cand.jobs[i]
        /\ UNCHANGED <<archive, receipts, drained>>
     \/ /\ archive[i].st = "none"
        /\ receipts < MaxReceipts
        /\ archive' = [archive EXCEPT ![i] = cand.jobs[i]]
        /\ receipts' = receipts + 1
        /\ drained' = drained + (IF cand.jobs[i].outcome = "drained" THEN 1 ELSE 0)
  /\ cand' = [cand EXCEPT !.jobs[i] = NoJob]
  /\ UNCHANGED <<disk, core, pc, opening, now, asked, sent, running, faults>>

(* save() failed: a running broker is poisoned, an opening one exits.      *)
SaveFailed ==
  IF opening
  THEN /\ GoDown
       /\ UNCHANGED <<disk, archive, sent, running>>
  ELSE /\ pc' = "poisoned" /\ cand' = core /\ now' = 0 /\ asked' = NoAsk
       /\ UNCHANGED <<disk, archive, core, opening, receipts, drained, sent, running>>

(* The archive budget is spent, or a different receipt is already there.   *)
ArchiveRefuses ==
  /\ pc = "archive"
  /\ \E i \in Ids : /\ FirstTerminal(i)
                    /\ archive[i] # cand.jobs[i]
                    /\ archive[i].st # "none" \/ receipts >= MaxReceipts
  /\ SaveFailed
  /\ UNCHANGED faults

Stamped(c) == [c EXCEPT !.archived = receipts, !.archivedDrained = drained]

(* The retiring snapshot, then the reply: only now may a caller send.  The *)
(* reply of a dispatch may also be lost.                                   *)
Commit ==
  /\ ToSave \/ pc = "archive"
  /\ TerminalIds(cand) = {}
  /\ disk' = Stamped(cand) /\ core' = Stamped(cand) /\ cand' = Stamped(cand)
  /\ pc' = "idle" /\ opening' = FALSE /\ now' = 0 /\ asked' = NoAsk
  /\ \/ UNCHANGED <<sent, running>>
     \/ /\ asked # NoAsk
        /\ sent' = sent \cup {asked} /\ running' = running \cup {asked}
  /\ UNCHANGED <<archive, receipts, drained, faults>>

(* A write or a rename of save() fails; the files keep their old content.  *)
WriteFails ==
  /\ ToSave \/ pc = "archive"
  /\ faults < MaxFaults
  /\ faults' = faults + 1
  /\ SaveFailed

Crash ==
  /\ pc # "down"
  /\ faults < MaxFaults
  /\ faults' = faults + 1
  /\ GoDown
  /\ UNCHANGED <<disk, archive, sent, running>>

(* A poisoned broker refuses every call until it is restarted.             *)
Stop ==
  /\ pc = "poisoned"
  /\ GoDown
  /\ UNCHANGED <<disk, archive, sent, running, faults>>

(* Service::open: count the receipts, refuse a snapshot that lost some or  *)
(* that contradicts one, recover, and save.                                *)
OpenRefused ==
  \/ Cardinality(Archived) < disk.archived
  \/ \E i \in Archived : disk.jobs[i].st # "none" /\ disk.jobs[i] # archive[i]

(* Mutant: the summary of the snapshot is always believed.                 *)
OpenDrainedFromSnapshot == disk.archivedDrained

OpenDrained ==
  IF Cardinality(Archived) # disk.archived
  THEN Cardinality(DrainedReceipts) ELSE disk.archivedDrained

(* Mutant: the recovered core is not saved until a call changes it.        *)
OpenUnsaved ==
  /\ pc = "down"
  /\ ~OpenRefused
  /\ receipts' = Cardinality(Archived)
  /\ drained' = OpenDrained
  /\ core' = Recovered(disk) /\ cand' = Recovered(disk)
  /\ pc' = "idle"
  /\ UNCHANGED <<disk, archive, opening, now, asked, sent, running, faults>>

Open ==
  /\ pc = "down"
  /\ ~OpenRefused
  /\ receipts' = Cardinality(Archived)
  /\ drained' = OpenDrained
  /\ core' = disk /\ cand' = Recovered(disk)
  /\ pc' = "open" /\ opening' = TRUE
  /\ UNCHANGED <<disk, archive, now, asked, sent, running, faults>>

-----------------------------------------------------------------------------
Call ==
  \/ Refuse
  \/ \E r \in Requests : Enqueue(r[1], r[2], r[3], r[4]) \/ EnqueueAgain(r[1], r[2], r[3])
  \/ \E ctl \in Controllers, i \in Ids :
       \/ Inspect(ctl, i)
       \/ \E lease \in 1..(cand.next - 1) :
            \/ Dispatch(ctl, i, lease)
            \/ \E out \in Reports : Finish(ctl, i, lease, out)
       \/ Cancel(ctl, i)

Operator ==
  \E t \in Times :
    \/ Status(t)
    \/ \E enabled \in Drains : Drain(enabled, t)
    \/ \E i \in Resolves : Resolve(i, t)

Save ==
  \/ SaveTerminal
  \/ \E i \in Ids : ArchiveReceipt(i)
  \/ ArchiveRefuses
  \/ Commit

Fault == WriteFails \/ Crash

Next ==
  \/ \E t \in Times : Begin(t)
  \/ PlaceNext \/ PlaceOverflows
  \/ Call \/ Operator
  \/ Unchanged \/ Save
  \/ Fault \/ Stop \/ Open

Spec == Init /\ [][Next]_vars
=============================================================================
