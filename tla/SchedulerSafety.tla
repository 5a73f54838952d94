--------------------------- MODULE SchedulerSafety ---------------------------
(***************************************************************************)
(* What the inference broker promises, over every order of calls, crash,   *)
(* failed write, lost reply and restart.                                   *)
(***************************************************************************)
EXTENDS Scheduler

Phases == {"down", "open", "idle", "schedule", "reschedule", "archive", "poisoned"}

Permissions == Ids \X Nat \X Backends

(* Every variable of the broker and of its two files has its type.         *)
TypeOK ==
  /\ disk \in CoreType /\ core \in CoreType /\ cand \in CoreType
  /\ archive \in [Ids -> JobType]
  /\ pc \in Phases /\ opening \in BOOLEAN /\ now \in Nat
  /\ receipts \in Nat /\ drained \in Nat /\ faults \in Nat
  /\ asked \in Permissions \cup {NoAsk}
  /\ sent \subseteq Permissions /\ running \subseteq Permissions

(* The record of job i that a restart would find: in the snapshot, or else *)
(* in the archive.                                                         *)
Record(c, i) == IF c.jobs[i].st = "none" THEN archive[i] ELSE c.jobs[i]
Durable(i) == Record(disk, i)

-----------------------------------------------------------------------------
(* Sending                                                                 *)

(* No job is ever permitted to send twice: Dispatch acknowledges at most   *)
(* one lease of an identity, however often the broker crashed, requeued    *)
(* it, archived it or was asked again in between.                          *)
AtMostOnceSend == \A a, b \in sent : a[1] = b[1] => a = b

(* A permission to send that a caller holds is on disk, under its exact    *)
(* lease, as sent or as ended, at every moment a crash could fall.         *)
PermissionDurable ==
  \A s \in sent : /\ Durable(s[1]).lease = s[2]
                  /\ Durable(s[1]).st \in {"dispatched", "uncertain", "terminal"}

(* What may still be executing never exceeds the slots of its physical     *)
(* group: no restart, stale report, expiry or drain frees the slot of sent *)
(* work (group(), finish, recover).                                        *)
PhysicalCapacity ==
  \A g \in Groups : Cardinality({r \in running : GroupOf[r[3]] = g}) <= Slots[g]

(* The allocation the broker keeps, in the file and in memory, respects    *)
(* group slots, the active bound per principal and the bound on live jobs, *)
(* also after restarts have requeued placements.                           *)
AllocationBounds ==
  \A c \in {disk, core, cand} :
    /\ \A g \in Groups : Cardinality(Occupied(c, g)) <= Slots[g]
    /\ \A p \in Principals : Cardinality(ActiveOf(c, p)) <= MaxActive
    /\ Cardinality(LiveIds(c)) <= MaxJobs

(* Every lease number names one placement of one job: neither another job  *)
(* nor a later placement of the same job carries it, and the serial is     *)
(* ahead of all of them.  A stale report can therefore not hit a newer     *)
(* lease (superseded_unsent).                                              *)
LeasesOf(i) == {Durable(i).lease} \cup Durable(i).superseded
LeasesNameOnePlacement ==
  /\ \A i \in Ids : /\ Durable(i).lease \notin Durable(i).superseded
                    /\ \A l \in LeasesOf(i) : l < disk.next
  /\ \A i, k \in Ids : i # k => LeasesOf(i) \cap LeasesOf(k) \subseteq {NoLease}

-----------------------------------------------------------------------------
(* The two files                                                           *)

(* Wherever a crash falls between the renames of a save, Service::open     *)
(* finds a snapshot and an archive that agree: it never refuses to start.  *)
ReopenNeverRefused == ~OpenRefused

(* The summary counters are those of the archive whenever a status could   *)
(* report them, also when open() had to decide whether to rebuild them.    *)
ArchiveSummaryExact ==
  pc \in {"open", "idle", "schedule", "reschedule"} =>
    /\ receipts = Cardinality(Archived)
    /\ drained = Cardinality(DrainedReceipts)

(* Every accepted live job still fits the archive: "Admission reserves     *)
(* this much disk for every accepted live job before allowing provider     *)
(* work" (service.rs).                                                     *)
ArchiveReserved == Cardinality(Archived \cup LiveIds(disk)) <= MaxReceipts

-----------------------------------------------------------------------------
(* What a job's durable record may become                                  *)

(* An accepted job is never forgotten: its record leaves the snapshot only *)
(* when its receipt is in the archive.                                     *)
NeverForgotten == [][\A i \in Ids : Durable(i).st # "none" => Durable(i)'.st # "none"]_vars

(* A recorded outcome is final: no later report, retry, drain, resolve or  *)
(* restart changes the durable record of a terminal job.                   *)
OutcomeFinal == [][\A i \in Ids : Durable(i).st = "terminal" => Durable(i)' = Durable(i)]_vars

(* The slot of sent work is given up only for an end reported under its    *)
(* exact lease or attested by the operator; until then it keeps lease and  *)
(* backend.                                                                *)
KeepsSlot(j, k) ==
  /\ k.lease = j.lease
  /\ \/ Crossed(k) /\ k.backend = j.backend
     \/ k.st = "terminal" /\ k.outcome \in {"ended", "not-sent", "operator-resolved"}
SentKeepsSlot == [][\A i \in Ids : Crossed(Durable(i)) => KeepsSlot(Durable(i), Durable(i)')]_vars

(* The files of the broker, read together, implement the ledger: the       *)
(* snapshot and the archive are its book, the serial its used leases, the  *)
(* acknowledged dispatches its permissions.                                *)
Entry(j) ==
  [st |-> CASE j.st = "queued" -> "waiting"
            [] Crossed(j) -> "sent"
            [] j.st = "terminal" -> "over"
            [] OTHER -> j.st,
   lease |-> j.lease, backend |-> j.backend, outcome |-> j.outcome]

L == INSTANCE Ledger WITH
       book <- [i \in Ids |-> Entry(Durable(i))],
       used <- 1..(disk.next - 1),
       permits <- sent

ImplementsLedger == L!Spec

-----------------------------------------------------------------------------
(* Why a job is permitted at most once                                     *)

(* A record is never dropped, past the send boundary it keeps its slot     *)
(* until it ends, and the end is final.                                    *)
Sealed(j) == Crossed(j) \/ j.st = "terminal"
Advances(j, k) ==
  /\ j.st # "none" => k.st # "none"
  /\ j.st = "terminal" => k = j
  /\ Crossed(j) => KeepsSlot(j, k)

(* A core agrees with the archive when it holds no other record of an      *)
(* archived job, and honours the permissions when it records all of them.  *)
Agrees(c) ==
  \A i \in Ids : archive[i].st # "none" => c.jobs[i].st = "none" \/ c.jobs[i] = archive[i]
Honours(c) ==
  \A s \in sent : Sealed(Record(c, s[1])) /\ Record(c, s[1]).lease = s[2]

(* What relates memory, candidate and files at each point of a call: the   *)
(* strengthening from which the send and record properties follow.         *)
ArchiveInv == \A i \in Ids : archive[i].st \in {"none", "terminal"}
PhaseInv ==
  /\ pc \notin {"archive", "poisoned"} => core = disk
  /\ pc \in {"down", "idle"} => cand = disk
  /\ pc = "archive" =>
       \A i \in Ids : cand.jobs[i] = disk.jobs[i]
                       \/ (cand.jobs[i] = NoJob /\ archive[i] = disk.jobs[i])
FilesInv == Agrees(disk) /\ Honours(disk)
CandInv ==
  pc # "poisoned" =>
    /\ Agrees(cand) /\ Honours(cand)
    /\ \A i \in Ids : Advances(Durable(i), Record(cand, i))
AskedInv ==
  asked # NoAsk =>
    /\ pc \in {"reschedule", "archive"}
    /\ asked[1] \in Ids
    /\ Sealed(Record(cand, asked[1])) /\ Record(cand, asked[1]).lease = asked[2]
    /\ \A s \in sent : s[1] # asked[1]

SendInv ==
  /\ ArchiveInv /\ PhaseInv /\ FilesInv /\ CandInv /\ AskedInv
  /\ AtMostOnceSend

-----------------------------------------------------------------------------
(* Fair service                                                            *)

(* Every refund gives back exactly what a placement reserved: the service  *)
(* of a principal always covers its open reservations, so the saturating   *)
(* subtraction of credit() never clamps.                                   *)
RefundsCovered ==
  \A c \in {disk, core, cand}, p \in Principals :
    Estimates(c, ActiveOf(c, p), p) <= c.service[p]

(* Idle time buys no preference: the service a member with live work has   *)
(* used is never below the virtual floor (advance_floor, enqueue,          *)
(* complete).                                                              *)
NoCatchUp ==
  \A c \in {disk, core, cand} : \A p \in Members(c) : Committed(c, p) >= c.floor

(* Used service and the floor only grow in the snapshot, also across a     *)
(* crash that undoes a placement: a restart refunds reservations, never    *)
(* work.                                                                   *)
ServiceMonotone ==
  [][/\ disk'.floor >= disk.floor
     /\ \A p \in Principals : Committed(disk', p) >= Committed(disk, p)]_vars

-----------------------------------------------------------------------------
(* Progress                                                                *)

(* The broker's own steps and its restart always go on; controllers poll   *)
(* their jobs (Plan::wait, every 100 ms), also when the wall clock is past *)
(* every deadline.                                                         *)
Late == CHOOSE t \in Times : \A u \in Times : u <= t
Own == PlaceNext \/ PlaceOverflows \/ Call \/ Unchanged \/ Save \/ Stop \/ Open
Poll == \E ctl \in Controllers, i \in Ids : now = Late /\ Inspect(ctl, i)
FairSpec ==
  /\ Spec
  /\ WF_vars(Own)
  /\ SF_vars(Begin(Late))
  /\ SF_vars(Poll)

(* No accepted job waits for ever: it is sent, or it ends.                 *)
Decided ==
  \A i \in Ids : disk.jobs[i].st \in {"queued", "placed"}
                 ~> disk.jobs[i].st \notin {"queued", "placed"}

(* Every terminal job reaches the archive and leaves the snapshot.         *)
Retired ==
  \A i \in Ids : disk.jobs[i].st = "terminal"
                 ~> (disk.jobs[i].st = "none" /\ archive[i].st = "terminal")
=============================================================================
