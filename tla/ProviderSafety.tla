--------------------------- MODULE ProviderSafety ---------------------------
(***************************************************************************)
(* What the provider path promises: purse, sends and slots agree, over     *)
(* every order of gateway, controller, custody, brokers, hard stop, crash  *)
(* and repair.                                                             *)
(***************************************************************************)
EXTENDS Provider

(* A settlement as unsent (0; a source quote that amounts to nothing is a  *)
(* Quote) is a promise that nothing was sent: whoever made it (the         *)
(* gateway's NotSent, an audit of an attempt without send mark) was right, *)
(* and stays right, although the key broker may still hold a frame when the*)
(* controller decides (provider_settle, metered_audit_path).               *)
ZeroMeansUnsent ==
  \A a \in Attempts : \A i \in 1..Len(settled[a]) : settled[a][i] = 0 => ~WentUpstream(a)

(* The purse is charged at most once for an attempt, however often a       *)
(* settle was prepared afresh, resubmitted, recovered or audited, and the  *)
(* journal forgets an attempt that was sent only after it was charged.     *)
EverySendPaidOnce ==
  \A a \in Attempts :
    /\ Len(settled[a]) <= 1
    /\ WentUpstream(a) /\ journal.attempt.id # a => settled[a] = <<Quote>>

(* Whenever the host holds funds of the purse, the journal names the       *)
(* attempt they are held for and knows its reserve was submitted: no crash *)
(* between save and submission leaves a hold nobody accounts for           *)
(* (mark_hold, record_reserve_confirmation, retire_refused).               *)
HoldRecorded ==
  cell.status \in {"reserved", "fenced"} =>
    /\ journal.hold.st \in {"submitted", "confirmed"}
    /\ journal.attempt.id = cell.by

(* Within a prompt the same request bytes go upstream at most once; a      *)
(* repeat is served from the replay cache or refused, also after a lost    *)
(* acknowledgement (provider_replay, homelab operation identity).          *)
NoSecondSend ==
  \A a, b \in Attempts :
    WentUpstream(a) /\ WentUpstream(b) /\ a # b =>
      <<hist[a].prompt, hist[a].body>> # <<hist[b].prompt, hist[b].body>>

(* A reply that was delivered to the agent and not yet settled can always  *)
(* be settled or recognised as settled by the automatic recovery, wherever *)
(* a crash, a lost answer or a fence fell: delivery is never unpayable     *)
(* (recover_delivered_provider_response, provider_audit_coordinates).      *)
DeliveredRecoverable ==
  journal.attempt # NoAttempt /\ journal.pending = NoPending /\ Delivered =>
    (SettledHere \/ AuditCoordinates) /\ FinishOk(journal.attempt, "ended")

(* The inference broker believes a slot is free (ended, not sent) only     *)
(* when nothing of that job executes upstream or can still start: the      *)
(* assumption that module Scheduler makes about reports.  The guard's drop *)
(* in the gateway, the controller's dispatch and the audit report          *)
(* independently of each other (Guard::drop, Placement::finish).           *)
SlotTruth ==
  \A k \in Jobs : job[k].st = "over" /\ job[k].out \in {"ended", "notsent"} =>
    \A a \in Attempts : <<hist[a].prompt, hist[a].body>> = k => a \notin exec /\ key[a] # "held"

(* The purse, what left, and the charges, together refine PaidCalls: no    *)
(* request leaves without funds held or paid for it.                       *)
Promise == INSTANCE PaidCalls WITH
  Calls <- Attempts, Price <- Quote, held <- cell.by,
  left <- {a \in Attempts : WentUpstream(a)}, charged <- settled
ImplementsPaidCalls == Promise!Spec

-----------------------------------------------------------------------------
(* Progress.  The threads run, a custody child is bounded by its deadline, *)
(* the worker by its own, a runtime that went down is started again, and   *)
(* a stopped prompt drains.  Nothing is assumed of the upstream, the       *)
(* brokers, the agent, the operator or the owner.                          *)

FairSpec ==
  /\ Spec
  /\ WF_vars(Controller) /\ WF_vars(Gateway)
  /\ WF_vars(\E c \in calls : Custody(c))
  /\ WF_vars(WorkerDeadline) /\ WF_vars(EndPrompt) /\ WF_vars(Drained \/ Disconnect)
  /\ WF_vars(ctl.mode = "down" /\ Recover)

(* The gateway thread always comes back, whatever is lost or refused.      *)
GatewayReturns == gw.pc # "idle" ~> gw.pc = "idle"

(* The runtime always comes back to where it can be asked to repair: no    *)
(* gateway waits for a controller that waits for the gateway, and no       *)
(* recovery loops (drain_provider, disconnect, recover).                   *)
RuntimeReturns == ctl.mode # "ready" ~> ctl.mode = "ready"
=============================================================================
