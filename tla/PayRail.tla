------------------------------- MODULE PayRail -------------------------------
(***************************************************************************)
(* The payment rail in detail: the watcher and its tick (PayWatch), the    *)
(* observer `mini pay observe` (resource-client/src/pay.rs) and the        *)
(* kernel's two receivers of finalized transfers, ordinary reports         *)
(* (Kernel/PayObservation.lean) and self-enrollments                       *)
(* (Kernel/PayEnrolReceiver.lean).                                         *)
(*                                                                         *)
(* The observer signs each submission against a view it has just read, and *)
(* retains the attempt with a marker before the frame leaves.  The Host    *)
(* may answer late, or after the observer was killed; others may report at *)
(* the same tip, tick the clock or write the pay cell in between.  An      *)
(* accepted submission spends the nullifier of each of its transfers and   *)
(* the tick nullifier of its tip.                                          *)
(***************************************************************************)
EXTENDS PayWatch

CONSTANTS
    Ids,            \* names of retained attempts (reused once dead)
    MaxFaults,      \* bound: lost answers and unavailable services
    MaxOthers,      \* bound: commits of others
    MinTickSlots,   \* tariff.minTickSlots
    SignedMemos     \* TRUE: enrollment memos are v2 (signed); FALSE: v1

ASSUME RailAssumption ==
    /\ {MaxFaults, MaxOthers, MinTickSlots} \subseteq Nat
    /\ SignedMemos \in BOOLEAN

VARIABLES
    kclock,     \* the clock cell's slot
    ktip,       \* the pay cell's chain tip (0: none yet)
    spentTips,  \* tips whose tick nullifier is spent
    minted,     \* how often each transfer was credited (capped at 2)
    attempts,   \* retained attempts that recovery may still act on
    landed,     \* attempts the Host has committed
    flight,     \* submitted ingresses the Host has not handled
    at,         \* where the observer is
    mode,       \* "batch", "probe" or "enrol"
    todo,       \* records still to submit in this mode, in order
    sent,       \* the submission in hand
    seenClock,  \* the clock of the view the submission was built on
    answer,     \* the Host's answer to it
    stale,      \* one stale answer was already retried
    batchStale, \* the same, of the batch a probe came from
    skipped,    \* attempts whose lookup did not decide in this run
    code,       \* the exit status raised so far
    faults, others

kernelVars == <<kclock, ktip, spentTips, minted>>
custodyVars == <<attempts, landed, flight>>
obsVars == <<at, mode, todo, sent, seenClock, answer, stale,
             batchStale, skipped, code>>
budgetVars == <<faults, others>>
railVars == <<watchVars, kernelVars, custodyVars, obsVars, budgetVars>>

NoSend == [id |-> 0, kind |-> "none", recs |-> {}, tip |-> 0, stale |-> FALSE]
NoAttempt == [kind |-> "none", recs |-> {}, decision |-> "none", after |-> FALSE]

Credits(rs) == [i \in 1..MaxTx |-> IF i \in rs /\ minted[i] < 2 THEN minted[i] + 1 ELSE minted[i]]

\* Every commit that writes the pay cell or the authority changes a root that a
\* submission pins; its refusal is stalePay or staleAuthority, acted on alike.
Staled(m) == [m EXCEPT !.stale = m.id # 0]

-----------------------------------------------------------------------------
(* The kernel.                                                             *)

TickConsumed(m) == m.tip \in spentTips

\* preflight: a spent transfer nullifier, or the tip's tick nullifier.
Consumed(m) == m.recs \cap decided # {} \/ m.tip \in spentTips

\* planReport, decideObservations, then the durable preflight.
ReportAnswer(m) ==
    IF m.stale THEN "stalePay"
    ELSE IF m.tip < ktip THEN "tipRegressing"
    ELSE IF m.tip < kclock THEN "tipBehindClock"
    ELSE IF m.recs = {} /\ m.tip < kclock + MinTickSlots THEN "tickTooSoon"
    ELSE IF \E i \in m.recs : chain[i].kind = "poison" THEN "perObservation"
    ELSE IF Consumed(m) THEN "alreadyConsumed"
    ELSE "confirmed"

\* The self-enrollment receiver: the same gates in its own order.
EnrolAnswer(m) ==
    IF m.stale THEN "stalePay"
    ELSE IF m.tip < kclock THEN "tipBehindClock"
    ELSE IF m.tip < ktip THEN "tipRegressing"
    ELSE IF \E i \in m.recs : chain[i].kind = "poison" THEN "perObservation"
    ELSE IF Consumed(m) THEN "alreadyConsumed"
    ELSE "confirmed"

HostAnswer(m) == IF m.kind = "enrol" THEN EnrolAnswer(m) ELSE ReportAnswer(m)

\* An admitted submission: credits, both nullifiers, chain tip and clock.
Commit(rs, tip) ==
    /\ decided' = decided \cup rs
    /\ spentTips' = spentTips \cup {tip}
    /\ ktip' = tip
    /\ kclock' = tip
    /\ minted' = Credits(rs)

\* The Host handles one ingress.  The observer has its answer only if it still
\* waits for this submission.
HostHandles ==
    \E m \in flight :
        LET a == HostAnswer(m)
            rest == flight \ {m}
            waited == at = "wait" /\ sent.id = m.id
        IN  /\ IF a = "confirmed"
               THEN /\ Commit(m.recs, m.tip)
                    /\ landed' = IF attempts[m.id].kind = "none" THEN landed ELSE landed \cup {m.id}
                    /\ flight' = {Staled(n) : n \in rest}
                    /\ sent' = Staled(sent)
               ELSE /\ flight' = rest
                    /\ UNCHANGED <<decided, kernelVars, landed, sent>>
            /\ IF waited THEN answer' = a /\ at' = "answered" ELSE UNCHANGED <<answer, at>>
            /\ UNCHANGED <<chainVars, receipts, tickVars, faultVars, attempts, mode, todo,
                           seenClock, stale, batchStale, skipped, code, budgetVars>>

\* Somebody else's report at a tip: a manual heartbeat, a second observer.
OtherReports ==
    /\ others < MaxOthers
    /\ others' = others + 1
    /\ \E tip \in 1..top : \E rs \in SUBSET {i \in Decidable : chain[i].slot =< tip} :
          LET m == [id |-> 0, kind |-> "report", recs |-> rs, tip |-> tip, stale |-> FALSE]
          IN  /\ \A i \in rs : chain[i].index = "book"
              /\ ReportAnswer(m) = "confirmed"
              /\ Commit(rs, tip)
    /\ flight' = {Staled(n) : n \in flight}
    /\ sent' = Staled(sent)
    /\ UNCHANGED <<chainVars, receipts, tickVars, faultVars, attempts, landed, at, mode, todo,
                   seenClock, answer, stale, batchStale, skipped, code, faults>>

\* The clock receiver asserts a later slot; no pay cell is written.
ClockTicks ==
    /\ others < MaxOthers
    /\ others' = others + 1
    /\ \E s \in Slots : s > kclock /\ kclock' = s
    /\ UNCHANGED <<watchVars, ktip, spentTips, minted, custodyVars, obsVars, faults>>

\* An assignment or a tariff change writes the pay cell, a grant the authority.
PayCellWrites ==
    /\ others < MaxOthers
    /\ others' = others + 1
    /\ flight # {} \/ sent.id # 0
    /\ flight' = {Staled(n) : n \in flight}
    /\ sent' = Staled(sent)
    /\ UNCHANGED <<watchVars, kernelVars, attempts, landed, at, mode, todo,
                   seenClock, answer, stale, batchStale, skipped, code, faults>>

-----------------------------------------------------------------------------
(* The observer: settle what an earlier run left.                          *)

KeepWatch == UNCHANGED <<chainVars, tickVars, faultVars>>
Raise(c) == code' = IF c > code THEN c ELSE code
Dead(id) == [attempts EXCEPT ![id] = NoAttempt]

ObserveStarts ==
    /\ pc = "observe"
    /\ at = "off"
    /\ at' = "resolve"
    /\ code' = 0
    /\ skipped' = {}
    /\ UNCHANGED <<watchVars, kernelVars, custodyVars, mode, todo, sent,
                   seenClock, answer, stale, batchStale, budgetVars>>

Unlinked(id) == attempts[id].recs \ receipts

\* A decided attempt: write the receipts its records lack, one link at a time.
\* With all of them written, recovery never acts on the attempt again.
LinkOne(id) ==
    /\ attempts[id].decision = "credited"
    /\ \E i \in Unlinked(id) : receipts' = receipts \cup {i}
    /\ UNCHANGED <<decided, kernelVars, custodyVars>>

Linked(id) == attempts[id].decision = "credited" /\ Unlinked(id) = {}

ResolveLinks ==
    /\ at = "resolve"
    /\ \E id \in Ids : LinkOne(id)
    /\ KeepWatch
    /\ UNCHANGED <<obsVars, budgetVars>>

ResolveClears ==
    /\ at = "resolve"
    /\ \E id \in Ids : /\ Linked(id)
                       /\ attempts' = Dead(id)
                       /\ landed' = landed \ {id}
    /\ UNCHANGED <<watchVars, kernelVars, flight, obsVars, budgetVars>>

Unsettled(id) == attempts[id].kind # "none" /\ attempts[id].decision = "none" /\ id \notin skipped

\* Self-enrollments are resolved before reports.
NextUnsettled(id) ==
    /\ at = "resolve"
    /\ \A j \in Ids : attempts[j].decision # "credited"
    /\ Unsettled(id)
    /\ attempts[id].kind = "report" => \A j \in Ids : Unsettled(j) => attempts[j].kind = "report"

\* A confirmed lookup of a report, or of a v2 enrollment, whose source status is
\* published once and read back.
NeedsAfterView(id) == attempts[id].kind = "enrol" /\ ~SignedMemos

LookupConfirmed ==
    /\ \E id \in Ids :
          /\ NextUnsettled(id)
          /\ id \in landed
          /\ ~NeedsAfterView(id)
          /\ attempts' = [attempts EXCEPT ![id].decision = "credited"]
    /\ UNCHANGED <<watchVars, kernelVars, landed, flight, obsVars, budgetVars>>

\* A v1 enrollment is classified from the enrollment view read after it
\* (enrol_decided): enrolment-after.bin is created, and creating it again
\* fails, which ends the run with an error.
LookupReadsAfter ==
    /\ \E id \in Ids :
          /\ NextUnsettled(id)
          /\ id \in landed
          /\ NeedsAfterView(id)
          /\ \/ /\ ~attempts[id].after
                /\ attempts' = [attempts EXCEPT ![id].after = TRUE]
                /\ at' = "classify"
                /\ sent' = [NoSend EXCEPT !.id = id]
                /\ UNCHANGED code
             \/ /\ attempts[id].after
                /\ at' = "ended"
                /\ Raise(1)
                /\ UNCHANGED <<attempts, sent>>
    /\ UNCHANGED <<watchVars, kernelVars, landed, flight, mode, todo, seenClock,
                   answer, stale, batchStale, skipped, budgetVars>>

LookupClassified ==
    /\ at = "classify"
    /\ attempts' = [attempts EXCEPT ![sent.id].decision = "credited"]
    /\ at' = "resolve"
    /\ sent' = NoSend
    /\ UNCHANGED <<watchVars, kernelVars, landed, flight, mode, todo, seenClock,
                   answer, stale, batchStale, skipped, code, budgetVars>>

LookupAbsentCredits ==
    /\ \E id \in Ids : /\ NextUnsettled(id)
                       /\ id \notin landed
                       /\ attempts' = [attempts EXCEPT ![id].decision = "credited"]
    /\ UNCHANGED <<watchVars, kernelVars, landed, flight, obsVars, budgetVars>>

\* `absent`: the records are simply observed again.  The frame of a run that
\* was killed may still be on its way.
LookupAbsent ==
    /\ \E id \in Ids : /\ NextUnsettled(id)
                       /\ id \notin landed
                       /\ attempts' = Dead(id)
    /\ UNCHANGED <<watchVars, kernelVars, landed, flight, obsVars, budgetVars>>

\* The lookup does not decide, or a self-enrollment's needs the operator socket
\* this run was not given: exit 4, the run goes on.
LookupUndecided ==
    /\ faults < MaxFaults
    /\ faults' = faults + 1
    /\ \E id \in Ids : NextUnsettled(id) /\ skipped' = skipped \cup {id}
    /\ Raise(4)
    /\ UNCHANGED <<watchVars, kernelVars, custodyVars, at, mode, todo, sent, seenClock,
                   answer, stale, batchStale, others>>

InOrder(S) == Reverse(Newest(S))

AllResolved ==
    /\ at = "resolve"
    /\ \A id \in Ids : ~Unsettled(id) /\ attempts[id].decision # "credited"

\* Route: drop the receipted records, set the enrollment index's aside.  With no
\* ordinary record, the enrollment is this tip's submission.
Route ==
    /\ AllResolved
    /\ LET open == obsFile.recs \ receipts
           book == {i \in open : chain[i].index = "book"}
           enrol == open \ book
       IN  IF book = {} /\ enrol # {}
           THEN mode' = "enrol" /\ todo' = InOrder(enrol)
           ELSE mode' = "batch" /\ todo' = InOrder(book)
    /\ at' = "build"
    /\ stale' = FALSE
    /\ batchStale' = FALSE
    /\ UNCHANGED <<watchVars, kernelVars, custodyVars, sent, seenClock, answer, skipped, code,
                   budgetVars>>

\* A run without --enrol-capability has only enrollment records: none is
\* submitted (exit 3).  Counted with the faults: such runs are bounded.
EnrolUnconfigured ==
    /\ AllResolved
    /\ faults < MaxFaults
    /\ faults' = faults + 1
    /\ obsFile.recs \ receipts # {}
    /\ \A i \in obsFile.recs \ receipts : chain[i].index = "enrol"
    /\ at' = "ended"
    /\ Raise(3)
    /\ UNCHANGED <<watchVars, kernelVars, custodyVars, mode, todo, sent, seenClock, answer, stale,
                   batchStale, skipped, others>>

\* A call of the run returns Err: a view that cannot be read, an ingress not
\* signed, an answer, a decision or a link not written.  The run ends with what
\* it has retained, and with status 1 unless it had raised a higher one.
ObserveErrs ==
    /\ at \in {"resolve", "classify", "build", "mark", "answered", "link", "settle"}
    /\ faults < MaxFaults
    /\ faults' = faults + 1
    /\ at' = "ended"
    /\ Raise(1)
    /\ UNCHANGED <<watchVars, kernelVars, custodyVars, mode, todo, sent, seenClock, answer, stale,
                   batchStale, skipped, others>>

-----------------------------------------------------------------------------
(* The observer: one submission.                                           *)

InHand == IF mode = "batch" THEN ToSet(todo) ELSE {Head(todo)}

FreeIds == {id \in Ids : attempts[id].kind = "none" /\ \A m \in flight : m.id # id}

\* build_report / enrol_records: read the view, pin its roots, sign.
Build ==
    /\ at = "build"
    /\ \E id \in FreeIds :
          /\ \A j \in FreeIds : id =< j
          /\ sent' = [id |-> id, kind |-> IF mode = "enrol" THEN "enrol" ELSE "report",
                      recs |-> InHand, tip |-> obsFile.tip, stale |-> FALSE]
    /\ seenClock' = kclock
    /\ at' = "mark"
    /\ UNCHANGED <<watchVars, kernelVars, custodyVars, mode, todo, answer, stale,
                   batchStale, skipped, code, budgetVars>>

\* submit_once: the marker is durable before the frame leaves.
Mark ==
    /\ at = "mark"
    /\ attempts' = [attempts EXCEPT ![sent.id] =
                       [kind |-> sent.kind, recs |-> sent.recs, decision |-> "none", after |-> FALSE]]
    /\ at' = "send"
    /\ UNCHANGED <<watchVars, kernelVars, landed, flight, mode, todo, sent, seenClock,
                   answer, stale, batchStale, skipped, code, budgetVars>>

Send ==
    /\ at = "send"
    /\ flight' = flight \cup {sent}
    /\ at' = "wait"
    /\ UNCHANGED <<watchVars, kernelVars, attempts, landed, mode, todo, sent, seenClock,
                   answer, stale, batchStale, skipped, code, budgetVars>>

\* The transport loses the answer; the ingress may still be handled.
AnswerLost ==
    /\ at = "wait"
    /\ faults < MaxFaults
    /\ faults' = faults + 1
    /\ answer' = "undecided"
    /\ at' = "answered"
    /\ UNCHANGED <<watchVars, kernelVars, custodyVars, mode, todo, sent, seenClock,
                   stale, batchStale, skipped, code, others>>

\* The native verifier of a self-enrollment is unavailable: nothing is decided.
VerifierFails ==
    /\ at = "wait"
    /\ sent.kind = "enrol"
    /\ sent \in flight
    /\ faults < MaxFaults
    /\ faults' = faults + 1
    /\ flight' = flight \ {sent}
    /\ answer' = "verifier"
    /\ at' = "answered"
    /\ UNCHANGED <<watchVars, kernelVars, attempts, landed, mode, todo, sent, seenClock,
                   stale, batchStale, skipped, code, others>>

-----------------------------------------------------------------------------
(* The observer: act on the answer.  An attempt that got a decision other  *)
(* than a credit is never looked at again.                                 *)

Answered(as) == at = "answered" /\ answer \in as

\* `confirmed`: the decision is published, then the receipts are linked.  A v1
\* enrollment first reads the view after it.
OnConfirmed ==
    /\ Answered({"confirmed"})
    /\ IF NeedsAfterView(sent.id) /\ ~attempts[sent.id].after
       THEN /\ attempts' = [attempts EXCEPT ![sent.id].after = TRUE]
            /\ UNCHANGED at
       ELSE /\ attempts' = [attempts EXCEPT ![sent.id].decision = "credited"]
            /\ at' = "link"
    /\ UNCHANGED <<watchVars, kernelVars, landed, flight, mode, todo, sent, seenClock,
                   answer, stale, batchStale, skipped, code, budgetVars>>

Link ==
    /\ at = "link"
    /\ LinkOne(sent.id)
    /\ KeepWatch
    /\ UNCHANGED <<obsVars, budgetVars>>

\* The accepted submission spent the tip: the rest waits for the next one.  A
\* transfer another attempt found already decided goes on to the next record.
LinksDone ==
    /\ at = "link"
    /\ Linked(sent.id)
    /\ attempts' = Dead(sent.id)
    /\ landed' = landed \ {sent.id}
    /\ at' = IF answer = "confirmed" THEN "ended" ELSE "next"
    /\ UNCHANGED <<watchVars, kernelVars, flight, mode, todo, sent, seenClock, answer,
                   stale, batchStale, skipped, code, budgetVars>>

\* Re-read and re-sign once; a second stale answer is a refusal.  So a batch is
\* built at most three times (stale, probed or settled, empty) and the bound of
\* observe_records' loop, 2 * records + 4, is never reached.
OnStale ==
    /\ Answered({"stalePay"})
    /\ attempts' = Dead(sent.id)
    /\ IF stale
       THEN at' = "ended" /\ Raise(3) /\ UNCHANGED stale
       ELSE at' = "build" /\ stale' = TRUE /\ UNCHANGED code
    /\ UNCHANGED <<watchVars, kernelVars, landed, flight, mode, todo, sent, seenClock,
                   answer, batchStale, skipped, budgetVars>>

OnTipUndecided ==
    /\ Answered({"tipBehindClock", "tickTooSoon", "tipRegressing"})
    /\ attempts' = Dead(sent.id)
    /\ at' = "ended"
    /\ Raise(4)
    /\ UNCHANGED <<watchVars, kernelVars, landed, flight, mode, todo, sent, seenClock,
                   answer, stale, batchStale, skipped, budgetVars>>

\* Waiting ends the run without raising its status; a regressing tip is refused.
OnTip ==
    /\ Answered({"tipBehindClock", "tickTooSoon", "tipRegressing"})
    /\ attempts' = Dead(sent.id)
    /\ at' = "ended"
    /\ IF answer = "tipRegressing" THEN Raise(3) ELSE UNCHANGED code
    /\ UNCHANGED <<watchVars, kernelVars, landed, flight, mode, todo, sent, seenClock,
                   answer, stale, batchStale, skipped, budgetVars>>

TickPassed == seenClock > sent.tip \/ kclock > sent.tip

\* tick_may_be_spent: the clock of the view before, or of a view read now, has
\* reached the tip.
TickMayBeSpent == seenClock >= sent.tip \/ kclock >= sent.tip

\* `alreadyConsumed`: the tip's nullifier may be the spent one (wait for a newer
\* tip); otherwise one of the records is.  A batch of several is probed.
OnConsumed ==
    /\ Answered({"alreadyConsumed"})
    /\ IF TickMayBeSpent
       THEN /\ at' = "ended"
            /\ attempts' = Dead(sent.id)
            /\ UNCHANGED <<mode, stale, batchStale, code>>
       ELSE CASE Cardinality(sent.recs) = 1 /\ mode = "enrol" ->
                    /\ attempts' = [attempts EXCEPT ![sent.id].decision = "credited"]
                    /\ at' = "link"
                    /\ UNCHANGED <<mode, stale, batchStale, code>>
              [] Cardinality(sent.recs) = 1 /\ mode # "enrol" ->
                    /\ at' = "settle"
                    /\ attempts' = Dead(sent.id)
                    /\ UNCHANGED <<mode, stale, batchStale, code>>
              [] Cardinality(sent.recs) > 1 ->
                    /\ at' = "build"
                    /\ mode' = "probe"
                    /\ stale' = FALSE
                    /\ batchStale' = stale
                    /\ attempts' = Dead(sent.id)
                    /\ UNCHANGED code
              [] OTHER ->
                    /\ at' = "ended"
                    /\ Raise(3)
                    /\ attempts' = Dead(sent.id)
                    /\ UNCHANGED <<mode, stale, batchStale>>
    /\ UNCHANGED <<watchVars, kernelVars, landed, flight, todo, sent, seenClock, answer,
                   skipped, budgetVars>>

\* settle_one of a spent record: its receipt.  The decision "alreadyCredited" is
\* not linked by recovery: a kill before the link has the record probed again.
Settle ==
    /\ at = "settle"
    /\ receipts' = receipts \cup sent.recs
    /\ at' = "next"
    /\ KeepWatch
    /\ UNCHANGED <<decided, kernelVars, custodyVars, mode, todo, sent, seenClock, answer,
                   stale, batchStale, skipped, code, budgetVars>>

\* A per-observation refusal: a record alone is quarantined (no receipt, exit
\* 3) and the next one is tried at the same tip; a batch is probed.
OnPerObservation ==
    /\ Answered({"perObservation"})
    /\ attempts' = Dead(sent.id)
    /\ IF Cardinality(sent.recs) = 1
       THEN at' = "next" /\ Raise(3) /\ UNCHANGED <<mode, stale, batchStale>>
       ELSE at' = "build" /\ mode' = "probe" /\ stale' = FALSE /\ batchStale' = stale /\ UNCHANGED code
    /\ UNCHANGED <<watchVars, kernelVars, landed, flight, todo, sent, seenClock, answer,
                   skipped, budgetVars>>

\* The next record at the same tip.  Ordinary records exhausted: an empty
\* report (a heartbeat) goes out.  Enrollment records exhausted: the run ends.
NextRecord ==
    /\ at = "next"
    /\ LET rest == IF mode = "batch" THEN <<>> ELSE Tail(todo)
       IN  /\ todo' = rest
           /\ mode' = IF mode = "probe" /\ rest = <<>> THEN "batch" ELSE mode
           /\ stale' = IF mode = "enrol" THEN FALSE
                       ELSE IF mode = "probe" /\ rest # <<>> THEN FALSE
                       ELSE IF mode = "probe" THEN batchStale ELSE stale
           /\ at' = IF mode = "enrol" /\ rest = <<>> THEN "ended" ELSE "build"
    /\ UNCHANGED <<watchVars, kernelVars, custodyVars, sent, seenClock, answer, batchStale,
                   skipped, code, budgetVars>>

\* Undecided: exit 4, the attempt is kept for an exact lookup.  A failed
\* verifier decided nothing: exit 4, nothing to look up.
OnUndecided ==
    /\ Answered({"undecided", "verifier"})
    /\ Raise(4)
    /\ at' = "ended"
    /\ attempts' = IF answer = "verifier" THEN Dead(sent.id) ELSE attempts
    /\ UNCHANGED <<watchVars, kernelVars, landed, flight, mode, todo, sent, seenClock,
                   answer, stale, batchStale, skipped, budgetVars>>

ObserveEndsAcknowledged ==
    /\ at = "ended"
    /\ pc' = "ack"
    /\ cur' = cur
    /\ at' = "off"
    /\ sent' = NoSend
    /\ todo' = <<>>
    /\ seenClock' = 0
    /\ answer' = "none"
    /\ code' = 0
    /\ mode' = "batch"
    /\ stale' = FALSE
    /\ batchStale' = FALSE
    /\ skipped' = {}
    /\ UNCHANGED <<chainVars, hostVars, cursor, pending, archive, quarantined, obsFile, faultVars,
                   kernelVars, custodyVars, budgetVars>>

\* The process exits; 0 and 3 let the script acknowledge the tick.
ObserveEnds ==
    /\ at = "ended"
    /\ pc' = IF code \in {0, 3} THEN "ack" ELSE "idle"
    /\ cur' = IF code \in {0, 3} THEN cur ELSE NoTick
    /\ at' = "off"
    /\ sent' = NoSend
    /\ todo' = <<>>
    /\ seenClock' = 0
    /\ answer' = "none"
    /\ code' = 0
    /\ mode' = "batch"
    /\ stale' = FALSE
    /\ batchStale' = FALSE
    /\ skipped' = {}
    /\ UNCHANGED <<chainVars, hostVars, cursor, pending, archive, quarantined, obsFile, faultVars,
                   kernelVars, custodyVars, budgetVars>>

\* A kill takes the observer with it; its attempts and its frames stay.
RailKill ==
    /\ Kill
    /\ at' = "off"
    /\ sent' = NoSend
    /\ todo' = <<>>
    /\ seenClock' = 0
    /\ answer' = "none"
    /\ code' = 0
    /\ mode' = "batch"
    /\ stale' = FALSE
    /\ batchStale' = FALSE
    /\ skipped' = {}
    /\ UNCHANGED <<kernelVars, custodyVars, budgetVars>>

-----------------------------------------------------------------------------

RailInit ==
    /\ WatchInit
    /\ kclock = 0
    /\ ktip = 0
    /\ spentTips = {}
    /\ minted = [i \in 1..MaxTx |-> 0]
    /\ attempts = [id \in Ids |-> NoAttempt]
    /\ landed = {}
    /\ flight = {}
    /\ at = "off"
    /\ mode = "batch"
    /\ todo = <<>>
    /\ sent = NoSend
    /\ seenClock = 0
    /\ answer = "none"
    /\ stale = FALSE
    /\ batchStale = FALSE
    /\ skipped = {}
    /\ code = 0
    /\ faults = 0
    /\ others = 0

\* The watcher's and the operator's own steps, the observer idle.
Beside(A) == A /\ UNCHANGED <<kernelVars, custodyVars, obsVars, budgetVars>>

ResolveStep ==
    ResolveLinks \/ ResolveClears \/ LookupConfirmed \/ LookupReadsAfter \/ LookupClassified
    \/ LookupAbsent \/ Route

SubmitStep == Build \/ Mark \/ Send

AnswerStep ==
    OnConfirmed \/ Link \/ LinksDone \/ OnStale \/ OnTip \/ OnConsumed \/ Settle
    \/ OnPerObservation \/ NextRecord \/ OnUndecided

ObserverStep == ObserveStarts \/ ResolveStep \/ SubmitStep \/ AnswerStep \/ ObserveEnds

RailNext ==
    \/ Beside(Finalize)
    \/ Beside(ScriptStep)
    \/ Beside(QuarantineStep)
    \/ RailKill
    \/ HostHandles
    \/ OtherReports
    \/ ClockTicks
    \/ PayCellWrites
    \/ ObserverStep
    \/ LookupUndecided
    \/ EnrolUnconfigured
    \/ ObserveErrs
    \/ AnswerLost
    \/ VerifierFails

RailSpec == RailInit /\ [][RailNext]_railVars

\* The timer starts the script again; the script and the observer run; the Host
\* handles what reached it.  Nothing is assumed of the chain, the operator or
\* anyone else.
RailLiveSpec ==
    /\ RailSpec
    /\ WF_railVars(Beside(ScriptStep))
    /\ WF_railVars(ObserverStep)
    /\ WF_railVars(Beside(RemovePending))
    /\ WF_railVars(HostHandles)
=============================================================================
