------------------------------ MODULE Provider ------------------------------
(***************************************************************************)
(* One provider call of a grain task: the gateway thread that serves the   *)
(* agent's request (provider.rs, homelab.rs), the controller that owns the *)
(* journal, the purse hold and the settlement (main.rs), and what they     *)
(* talk to: the Mini host that holds the purse, the key broker that sends  *)
(* upstream, and the inference broker that lends the slot.                 *)
(*                                                                         *)
(* The journal is written whole by every save(); a step of the model ends  *)
(* with a save, so `journal' is both memory and journal.json.  The worker  *)
(* (agent), the purse's owner and the operator are the environment.        *)
(***************************************************************************)
EXTENDS Integers, Sequences, FiniteSets

CONSTANTS
  Bodies,        \* exact request bodies the agent may post
  MaxAttempts,   \* bound on provider attempts
  MaxPrompts,    \* bound on prompts
  MaxFaults,     \* bound on crashes, lost answers, refusals and foreign purse writes
  MaxTries,      \* provider_failure::MAX_TRIES
  Routes,        \* the routes a task may be configured with
  DiskFaults     \* the key broker's ticket journal may fail to write

ASSUME ProviderAssumption ==
  /\ MaxAttempts \in Nat /\ MaxPrompts \in Nat /\ MaxFaults \in Nat
  /\ MaxTries \in Nat \ {0}
  /\ Routes \subseteq {"direct", "homelab"} /\ DiskFaults \in BOOLEAN

Attempts == 1..MaxAttempts
Prompts == 1..MaxPrompts
Jobs == Prompts \X Bodies

VARIABLES
  journal,   \* journal.json
  ctl,       \* controller thread: mode, pc, what follows a call, provider_lease
  cancelled, \* the hard-stop flag
  gw,        \* the gateway thread that serves the one active request
  live,      \* the gateway's prompt lease: not revoked, worker deadline not passed
  open,      \* the controller still holds the receiver of the command channel
  cmds,      \* ProviderCommand channel
  cell,      \* the purse at the host: status, generation, root, who reserved it
  calls,     \* native calls not yet forgotten, with the state of their custody child
  settled,   \* charges the host admitted for each attempt
  key,       \* the key broker: state of the frame of each attempt
  exec,      \* attempts whose request may be executing upstream
  job,       \* the inference broker's record of each job
  serial,    \* its last lease
  route,     \* the task's route, fixed when it is configured
  hist,      \* the request of each attempt
  faults

controller == <<journal, ctl>>
gateway == <<gw, live, open, cmds, cancelled>>
purse == <<cell, calls, settled>>
upstream == <<key, exec>>
terms == <<serial, route>>   \* what only a placement, or nothing, changes
slot == <<job, terms>>
ghost == hist
vars == <<controller, gateway, purse, upstream, slot, ghost, faults>>

(* task.homelab is configured: calls need a broker slot.                   *)
Homelab == route = "homelab"

NoAttempt == [id |-> 0, prompt |-> 0, body |-> "none", lease |-> 0,
              sent |-> FALSE, outcome |-> "none", quoted |-> FALSE]
NoHold == [st |-> "none", root |-> 0, gen |-> 0]
NoPending == [op |-> "none", label |-> "none", charge |-> 0, root |-> 0]
NoGate == [body |-> "none", failures |-> 0]
IdleGateway == [pc |-> "idle", prompt |-> 0, body |-> "none", att |-> 0, lease |-> 0,
                out |-> "none", reply |-> "none"]

(* `settled' keeps what kind of settlement was admitted, not its amount: 0 *)
(* is the "0" of a call that was not sent, Quote the host's source quote   *)
(* of a call that was, whose amount may be nothing too (pin.per_op).       *)
Quote == 1
Received == {"ok", "retryable"}

Init ==
  /\ route \in Routes
  /\ journal = [next |-> 1, prompt |-> 0, child |-> 0, fenced |-> FALSE,
                attempt |-> NoAttempt, hold |-> NoHold, pending |-> NoPending,
                settlement |-> 0, replays |-> {}, gate |-> NoGate]
  /\ ctl = [mode |-> "ready", pc |-> "loop", then |-> "loop", lease |-> 0]
  /\ cancelled = FALSE /\ live = FALSE /\ open = FALSE
  /\ gw = IdleGateway /\ cmds = <<>>
  /\ cell = [status |-> "detached", gen |-> 0, root |-> 0, by |-> 0]
  /\ calls = {} /\ settled = [a \in Attempts |-> <<>>]
  /\ key = [a \in Attempts |-> "none"] /\ exec = {}
  /\ job = [k \in Jobs |-> [st |-> "none", lease |-> 0, stale |-> {}, out |-> "none"]]
  /\ serial = 0
  /\ hist = [a \in Attempts |-> [prompt |-> 0, body |-> "none"]]
  /\ faults = 0

Fault == faults < MaxFaults /\ faults' = faults + 1

-----------------------------------------------------------------------------
(* The Mini host.  A call names the root it was prepared against; the host *)
(* admits it once, only if that root is current and the grain law has the  *)
(* edge: attach and every disconnect open a new generation.                *)

Applies(c) ==
  /\ c.root = cell.root
  /\ CASE c.op = "attach"     -> cell.status = "detached"
       [] c.op = "reserve"    -> cell.status = "attached"
       [] c.op = "settle"     -> cell.status \in {"reserved", "fenced"}
       [] c.op = "disconnect" -> cell.status \in {"attached", "reserved"}
       [] OTHER -> FALSE

After(c, att) ==
  LET moved == [cell EXCEPT !.root = @ + 1]
      turned == [moved EXCEPT !.gen = @ + 1]
  IN CASE c.op = "attach"  -> [turned EXCEPT !.status = "attached"]
       [] c.op = "reserve" -> [moved EXCEPT !.status = "reserved", !.by = att]
       [] c.op = "settle"  -> [moved EXCEPT !.by = 0,
                                 !.status = IF cell.status = "reserved" THEN "attached" ELSE "detached"]
       [] OTHER -> [turned EXCEPT !.status = IF cell.status = "attached" THEN "detached" ELSE "fenced"]

Decided(c, st) == (calls \ {c}) \cup {[c EXCEPT !.st = st]}

Admit(c) ==
  /\ cell' = After(c.key, c.att)
  /\ calls' = Decided(c, "committed")
  /\ settled' = IF c.key.op = "settle"
                THEN [settled EXCEPT ![cell.by] = Append(@, c.key.charge)] ELSE settled

Decide(c) ==
  \/ Applies(c.key) /\ Admit(c)
  \/ ~Applies(c.key) /\ calls' = Decided(c, "refused") /\ UNCHANGED <<cell, settled>>

(* The calls whose custody is guarded, and those of them that answer       *)
(* contention instead of waiting for the host's decision.                  *)
Guarded(c) == c.key.label \in {"settle", "recovery_settle", "fence"}
Contends(c) == c.key.label \in {"settle", "recovery_settle"}

(* The custody child of a call assembles it (call.bin), or is refused      *)
(* before signing, or is stopped; then it submits.  A contended submission *)
(* is admitted later or expires.  The child outlives a controller crash.   *)
Custody(c) ==
  /\ \/ /\ c.st = "preparing" /\ calls' = Decided(c, "sealed")
        /\ UNCHANGED <<cell, settled, faults>>
     \/ /\ c.st = "preparing" /\ Fault
        /\ \E st \in {"unsigned", "dead"} \cup (IF Guarded(c) THEN {"rejected"} ELSE {}) :
              calls' = Decided(c, st)
        /\ UNCHANGED <<cell, settled>>
     \/ c.st = "sealed" /\ Decide(c) /\ UNCHANGED faults
     \/ /\ c.st = "sealed" /\ Contends(c) /\ Fault
        /\ calls' = Decided(c, "contended") /\ UNCHANGED <<cell, settled>>
     \/ c.st = "contended" /\ Applies(c.key) /\ Admit(c) /\ UNCHANGED faults
     \/ /\ c.st = "contended" /\ calls' = Decided(c, "expired")
        /\ UNCHANGED <<cell, settled, faults>>
  /\ UNCHANGED <<controller, gateway, upstream, slot, ghost>>

(* The purse's owner attaches or detaches the idle purse, or it is         *)
(* refilled; a reserved purse is left to the runtime.                      *)
OwnerMoves ==
  /\ Fault
  /\ cell.status \in {"attached", "detached"}
  /\ \E status \in {"attached", "detached"} :
       cell' = [cell EXCEPT !.root = @ + 1, !.status = status,
                  !.gen = IF status = cell.status THEN @ ELSE @ + 1]
  /\ UNCHANGED <<controller, gateway, calls, settled, upstream, slot, ghost>>

-----------------------------------------------------------------------------
(* The key broker and what is upstream of it (external).  It holds a frame *)
(* only once it is whole; it refuses before it spawns the transport.       *)

BrokerRefuses(a) ==
  /\ key[a] = "held" /\ Fault
  /\ key' = [key EXCEPT ![a] = "refused"]
  /\ UNCHANGED <<controller, gateway, purse, exec, slot, ghost>>

UpstreamSend(a) ==
  /\ key[a] = "held"
  /\ key' = [key EXCEPT ![a] = "sent"] /\ exec' = exec \cup {a}
  /\ UNCHANGED <<controller, gateway, purse, slot, ghost, faults>>

UpstreamReplies(a) ==
  /\ key[a] = "sent"
  /\ \E r \in Received : key' = [key EXCEPT ![a] = r]
  /\ exec' = exec \ {a}
  /\ UNCHANGED <<controller, gateway, purse, slot, ghost, faults>>

(* The transport ends without a whole reply; upstream may still execute.   *)
UpstreamCut(a) ==
  /\ key[a] = "sent" /\ Fault
  /\ key' = [key EXCEPT ![a] = "cut"]
  /\ UNCHANGED <<controller, gateway, purse, exec, slot, ghost>>

UpstreamEnds(a) ==
  /\ key[a] = "cut" /\ a \in exec /\ exec' = exec \ {a}
  /\ UNCHANGED <<controller, gateway, purse, key, slot, ghost, faults>>

(* forward_ticket: the answer of a finished call could not be journaled,   *)
(* so the broker answers with the refusal "ticket-journal".                *)
TicketJournalFails(a) ==
  /\ DiskFaults /\ ~Homelab /\ key[a] = "sent" /\ Fault
  /\ key' = [key EXCEPT ![a] = "sent_refused"] /\ exec' = exec \ {a}
  /\ UNCHANGED <<controller, gateway, purse, slot, ghost>>

WentUpstream(a) == key[a] \in {"sent", "cut", "sent_refused"} \cup Received

-----------------------------------------------------------------------------
(* The inference broker (external here; module Scheduler is its model).    *)

BrokerPlaces(k) ==
  /\ job[k].st = "waiting"
  /\ serial' = serial + 1
  /\ job' = [job EXCEPT ![k].st = "placed", ![k].lease = serial + 1]
  /\ UNCHANGED <<controller, gateway, purse, upstream, route, ghost, faults>>

BrokerDrops(k) ==
  /\ job[k].st \in {"waiting", "placed"} /\ Fault
  /\ job' = [job EXCEPT ![k].st = "over", ![k].out = "dropped"]
  /\ UNCHANGED <<controller, gateway, purse, upstream, terms, ghost>>

BrokerRestarts ==
  /\ Homelab /\ Fault
  /\ job' = [k \in Jobs |->
       CASE job[k].st = "placed" ->
              [job[k] EXCEPT !.st = "waiting", !.stale = @ \cup {job[k].lease}, !.lease = 0]
         [] job[k].st = "sent" -> [job[k] EXCEPT !.st = "uncertain"]
         [] OTHER -> job[k]]
  /\ UNCHANGED <<controller, gateway, purse, upstream, terms, ghost>>

FinishAccepted(k, l, out) ==
  \/ l \in job[k].stale /\ out = "notsent"
  \/ /\ l \notin job[k].stale /\ l = job[k].lease
     /\ \/ job[k].st = "placed" /\ out = "notsent"
        \/ job[k].st \in {"sent", "uncertain"}
        \/ job[k].st = "over" /\ (job[k].out = out \/ (job[k].out = "dropped" /\ out = "notsent"))

Finished(k, l, out) ==
  IF l \in job[k].stale \/ job[k].st = "over" THEN job
  ELSE IF out = "uncertain" THEN [job EXCEPT ![k].st = "uncertain"]
  ELSE [job EXCEPT ![k].st = "over", ![k].out = out]

(* Placement::finish of an attempt: without a placement there is nothing   *)
(* to finish; a refusal of the broker stops the caller.                    *)
FinishOk(att, out) ==
  att.lease = 0 \/ FinishAccepted(<<att.prompt, att.body>>, att.lease, out)

FinishPlacement(att, out) ==
  /\ FinishOk(att, out)
  /\ job' = IF att.lease = 0 THEN job ELSE Finished(<<att.prompt, att.body>>, att.lease, out)
  /\ UNCHANGED terms

-----------------------------------------------------------------------------
(* The controller.  `mode' is what the runtime is doing, `pc' the step of  *)
(* the handler that runs; one handler runs at a time.                      *)

LeaseCurrent(l) ==
  l # 0 /\ ctl.lease = l /\ journal.child = l /\ ~cancelled /\ ~journal.fenced

Idle(status) == status \in {"attached", "detached"}

Coordinates == /\ journal.hold.st = "confirmed" /\ cell.status = "reserved"
               /\ cell.gen = journal.hold.gen

AuditCoordinates == /\ journal.hold.st = "confirmed"
                    /\ \/ cell.status = "reserved" /\ cell.gen = journal.hold.gen
                       \/ cell.status = "fenced" /\ cell.gen = journal.hold.gen + 1

Goto(pc) == [ctl EXCEPT !.pc = pc]
Back == [ctl EXCEPT !.pc = "loop", !.then = "loop",
           !.mode = IF @ \in {"recover", "disconnect", "audit", "refused"} THEN "ready" ELSE @]

Reply(op, r) == gw' = IF gw.pc = op /\ gw.reply = "none"
                      THEN [gw EXCEPT !.reply = r, !.att = IF r = "permit" THEN journal.attempt.id ELSE @]
                      ELSE gw

(* transition_as_with_witness, up to the spawn of the custody child.       *)
BeginCall(j, op, label, charge, then) ==
  LET p == [op |-> op, label |-> label, charge |-> charge, root |-> cell.root] IN
  /\ j.pending = NoPending
  /\ journal' = [j EXCEPT !.pending = p, !.hold.st = IF op = "reserve" THEN "submitted" ELSE @]
  /\ calls' = calls \cup {[key |-> p, att |-> j.attempt.id, st |-> "preparing"]}
  /\ ctl' = [ctl EXCEPT !.pc = "call", !.then = then]
  /\ UNCHANGED <<cell, settled>>

PendingCall == CHOOSE c \in calls : c.key = journal.pending
Undecided == {c \in calls : c.st \in {"preparing", "sealed", "contended"}}

(* Mutant: a confirmed settle does not name its attempt.                   *)
ConfirmedAnonymous ==
  LET j == [journal EXCEPT !.pending = NoPending] IN
  CASE journal.pending.op = "reserve" -> [j EXCEPT !.hold.st = "confirmed"]
    [] journal.pending.op = "settle"  -> [j EXCEPT !.hold = NoHold]
    [] OTHER -> j

Confirmed ==
  LET j == [journal EXCEPT !.pending = NoPending] IN
  CASE journal.pending.op = "reserve" -> [j EXCEPT !.hold.st = "confirmed"]
    [] journal.pending.op = "settle"  -> [j EXCEPT !.hold = NoHold, !.settlement = journal.attempt.id]
    [] OTHER -> j

RefusedCall ==
  [journal EXCEPT !.pending = NoPending,
     !.hold.st = IF journal.pending.op = "reserve" THEN "refused" ELSE @]

(* The handler's transition failed: the gateway's reserve is answered, a   *)
(* disconnect goes on to fence the purse, every other caller gives up.     *)
CallFailed ==
  /\ ctl' = IF ctl.mode = "disconnect" /\ ctl.then = "cleared" THEN Goto("fence") ELSE Back
  /\ IF journal.pending.op \in {"attach", "reserve"} THEN Reply("reserve", "err") ELSE UNCHANGED gw

CallConfirmed ==
  /\ ctl.pc = "call" /\ PendingCall.st = "committed"
  /\ journal' = Confirmed /\ calls' = Undecided /\ ctl' = Goto(ctl.then)
  /\ UNCHANGED <<gateway, cell, settled, upstream, slot, ghost, faults>>

CallRefused ==
  /\ ctl.pc = "call" /\ PendingCall.st \in {"refused", "unsigned"}
  /\ journal' = RefusedCall /\ calls' = Undecided /\ CallFailed
  /\ UNCHANGED <<live, open, cmds, cancelled, cell, settled, upstream, slot, ghost, faults>>

(* Mutant: the hard stop gives up a call that may be submitted.            *)
CallBeforeReap ==
  /\ ctl.pc = "call" /\ cancelled /\ journal.pending.op \in {"attach", "reserve"}
  /\ PendingCall.st \in {"preparing", "sealed"}
  /\ journal' = [journal EXCEPT !.pending = NoPending,
                   !.hold.st = IF journal.pending.op = "reserve" THEN "marked" ELSE @]
  /\ CallFailed
  /\ UNCHANGED <<live, open, cmds, cancelled, purse, upstream, slot, ghost, faults>>

(* The hard stop reached the spawn gate first: no custody child exists.    *)
CallBeforeSpawn ==
  /\ ctl.pc = "call" /\ cancelled /\ journal.pending.op \in {"attach", "reserve"}
  /\ PendingCall.st = "preparing"
  /\ journal' = [journal EXCEPT !.pending = NoPending,
                   !.hold.st = IF journal.pending.op = "reserve" THEN "marked" ELSE @]
  /\ calls' = calls \ {PendingCall} /\ CallFailed
  /\ UNCHANGED <<live, open, cmds, cancelled, cell, settled, upstream, slot, ghost, faults>>

(* Mutant: a custody child that died is waited for.                        *)
CallWaits ==
  /\ ctl.pc = "call"
  /\ \/ PendingCall.st \in {"contended", "expired"} /\ UNCHANGED faults
     \/ PendingCall.st \in {"sealed", "committed", "refused"} /\ Fault
  /\ CallFailed
  /\ UNCHANGED <<journal, live, open, cmds, cancelled, purse, upstream, slot, ghost>>

(* No definite answer: the pending attempt is kept.                        *)
CallUncertain ==
  /\ ctl.pc = "call"
  /\ \/ PendingCall.st \in {"rejected", "dead", "contended", "expired"} /\ UNCHANGED faults
     \/ PendingCall.st \in {"sealed", "committed", "refused"} /\ Fault
  /\ CallFailed
  /\ UNCHANGED <<journal, live, open, cmds, cancelled, purse, upstream, slot, ghost>>

(* retire_reaped_settle_rejection: the settle was never signed and its     *)
(* custody child is reaped, so provider_settle prepares afresh; when it    *)
(* finds less than that proved, the call stays pending (CallUncertain).    *)
SettleAfresh ==
  /\ ctl.pc = "call" /\ journal.pending.label = "settle"
  /\ PendingCall.st \in {"rejected", "dead"}
  /\ journal' = [journal EXCEPT !.pending = NoPending] /\ calls' = Undecided
  /\ ctl' = Goto("settle")
  /\ UNCHANGED <<gateway, cell, settled, upstream, slot, ghost, faults>>

CallReturns == CallConfirmed \/ CallRefused \/ CallBeforeSpawn \/ CallUncertain \/ SettleAfresh

(* Mutant: a delivered reply is not found again.                           *)
ReplaysForgotten(prompt, body) == {}

Replays(prompt, body) == {r \in journal.replays : r.prompt = prompt /\ r.body = body}

Handling(op) == /\ ctl.pc = "loop" /\ ctl.mode \in {"prompt", "drain"}
                /\ cmds # <<>> /\ Head(cmds).op = op /\ cmds' = Tail(cmds)
                /\ UNCHANGED <<live, open, cancelled>>

ProviderPrepare ==
  /\ Handling("prepare")
  /\ Reply("prepare", CASE ~LeaseCurrent(Head(cmds).prompt) -> "err"
                       [] /\ LeaseCurrent(Head(cmds).prompt)
                          /\ Replays(Head(cmds).prompt, Head(cmds).body) # {} -> "skip"
                       [] OTHER -> "plan")
  /\ UNCHANGED <<controller, purse, upstream, slot, ghost, faults>>

Verified(c) == IF Homelab
               THEN /\ job[<<c.prompt, c.body>>].st = "placed"
                    /\ job[<<c.prompt, c.body>>].lease = c.lease
               ELSE TRUE

Unresolved == \/ journal.pending # NoPending \/ journal.hold # NoHold
              \/ journal.attempt # NoAttempt

(* provider_reserve up to the durable attempt.                             *)
ProviderReserve ==
  /\ Handling("reserve")
  /\ LET c == Head(cmds) IN
     CASE ~LeaseCurrent(c.prompt) \/ Unresolved ->
            Reply("reserve", "err") /\ UNCHANGED <<controller, ghost>>
       [] LeaseCurrent(c.prompt) /\ ~Unresolved /\ Replays(c.prompt, c.body) # {} ->
            Reply("reserve", "replay") /\ UNCHANGED <<controller, ghost>>
       [] OTHER ->
            IF \/ journal.gate.body = c.body /\ journal.gate.failures >= MaxTries
               \/ journal.next > MaxAttempts
               \/ ~Verified(c)
            THEN Reply("reserve", "err") /\ UNCHANGED <<controller, ghost>>
            ELSE /\ journal' = [journal EXCEPT !.next = @ + 1, !.settlement = 0,
                      !.attempt = [NoAttempt EXCEPT !.id = journal.next, !.prompt = c.prompt,
                                                    !.body = c.body, !.lease = c.lease]]
                 /\ hist' = [hist EXCEPT ![journal.next] = [prompt |-> c.prompt, body |-> c.body]]
                 /\ ctl' = Goto("opened")
                 /\ UNCHANGED gw
  /\ UNCHANGED <<purse, upstream, slot, faults>>

(* The rest of provider_reserve: attach if needed, mark the hold, reserve. *)
ReserveStops(pc) ==
  /\ ctl.pc = pc /\ Reply("reserve", "err") /\ ctl' = Back
  /\ UNCHANGED <<journal, live, open, cmds, cancelled, purse, upstream, slot, ghost, faults>>

ReserveAttach ==
  /\ ctl.pc = "opened" /\ cell.status = "detached" /\ LeaseCurrent(journal.attempt.prompt)
  /\ BeginCall(journal, "attach", "attach", 0, "mark")
  /\ UNCHANGED <<gateway, upstream, slot, ghost, faults>>

ReserveMark ==
  /\ \/ ctl.pc = "opened" /\ cell.status = "attached"
     \/ ctl.pc = "mark"
  /\ LeaseCurrent(journal.attempt.prompt)
  /\ journal' = [journal EXCEPT !.hold = [st |-> "marked", root |-> cell.root, gen |-> cell.gen]]
  /\ ctl' = Goto("reserve")
  /\ UNCHANGED <<gateway, purse, upstream, slot, ghost, faults>>

ReserveSubmit ==
  /\ ctl.pc = "reserve" /\ LeaseCurrent(journal.attempt.prompt)
  /\ cell.root = journal.hold.root /\ cell.gen = journal.hold.gen
  /\ BeginCall(journal, "reserve", "reserve", 0, "permit")
  /\ UNCHANGED <<gateway, upstream, slot, ghost, faults>>

ReservePermit ==
  /\ ctl.pc = "permit" /\ LeaseCurrent(journal.attempt.prompt)
  /\ Reply("reserve", "permit") /\ ctl' = Back
  /\ UNCHANGED <<journal, live, open, cmds, cancelled, purse, upstream, slot, ghost, faults>>

ReserveFails ==
  \/ ReserveStops("opened") /\ ~(Idle(cell.status) /\ LeaseCurrent(journal.attempt.prompt))
  \/ \E pc \in {"mark", "permit"} : ReserveStops(pc) /\ ~LeaseCurrent(journal.attempt.prompt)
  \/ /\ ReserveStops("reserve")
     /\ \/ ~LeaseCurrent(journal.attempt.prompt)
        \/ cell.root # journal.hold.root \/ cell.gen # journal.hold.gen

(* provider_before_send: the broker is told first, then the durable mark.  *)
MaySend(c) ==
  LET a == journal.attempt IN
  /\ LeaseCurrent(c.prompt) /\ journal.pending = NoPending /\ Coordinates
  /\ a.id = c.att /\ a.prompt = c.prompt /\ ~a.sent /\ a.outcome = "none"
  /\ Homelab => /\ job[<<a.prompt, a.body>>].st = "placed"
                /\ job[<<a.prompt, a.body>>].lease = a.lease

(* Mutant: the send mark is not saved.                                     *)
SendUnmarked ==
  /\ Handling("before")
  /\ IF MaySend(Head(cmds)) THEN Reply("before", "ok") ELSE Reply("before", "err")
  /\ UNCHANGED <<controller, purse, upstream, slot, ghost, faults>>

ProviderBeforeSend ==
  /\ Handling("before")
  /\ LET k == <<journal.attempt.prompt, journal.attempt.body>>
         dispatched == IF Homelab THEN job' = [job EXCEPT ![k].st = "sent"] ELSE UNCHANGED job
     IN \/ /\ MaySend(Head(cmds)) /\ dispatched /\ UNCHANGED faults
           /\ journal' = [journal EXCEPT !.attempt.sent = TRUE] /\ Reply("before", "ok")
        \/ /\ MaySend(Head(cmds)) /\ Homelab /\ dispatched /\ Fault  \* its answer is lost
           /\ Reply("before", "err") /\ UNCHANGED journal
        \/ /\ ~MaySend(Head(cmds)) /\ Reply("before", "err")
           /\ UNCHANGED <<journal, job, faults>>
  /\ UNCHANGED <<ctl, purse, upstream, terms, ghost>>

GateAfter(body, out) ==
  CASE out = "retryable" ->
         [body |-> body, failures |-> IF journal.gate.body = body THEN journal.gate.failures + 1 ELSE 1]
    [] out = "ok" /\ journal.gate.body = body -> NoGate
    [] OTHER -> journal.gate

(* provider_record_outcome, then the source quote of a complete reply, and *)
(* for a call not sent, once its gateway has the answer, a zero settle.    *)
ProviderOutcome ==
  /\ Handling("outcome")
  /\ LET c == Head(cmds)
         acknowledged == gw.pc = "outcome" /\ gw.reply = "none"
         recorded == [journal EXCEPT !.attempt.outcome = c.out,
                                     !.gate = GateAfter(journal.attempt.body, c.out)]
     IN IF \/ journal.attempt.id # c.att \/ journal.attempt.outcome # "none"
           \/ c.out \in Received /\ ~journal.attempt.sent
        THEN Reply("outcome", "err") /\ UNCHANGED <<controller, faults>>
        ELSE \/ /\ c.out \in Received
                /\ LeaseCurrent(journal.attempt.prompt) /\ Coordinates
                /\ journal' = [recorded EXCEPT !.attempt.quoted = TRUE]
                /\ Reply("outcome", "ok") /\ UNCHANGED <<ctl, faults>>
             \/ /\ c.out \in Received                     \* provider_await_host
                /\ IF LeaseCurrent(journal.attempt.prompt) /\ Coordinates
                   THEN Fault ELSE UNCHANGED faults
                /\ journal' = recorded /\ Reply("outcome", "err") /\ UNCHANGED ctl
             \/ /\ c.out = "uncertain"
                /\ journal' = recorded /\ Reply("outcome", "ok") /\ UNCHANGED <<ctl, faults>>
             \/ /\ c.out = "notsent"
                /\ journal' = recorded /\ Reply("outcome", "ok")
                /\ ctl' = IF acknowledged THEN Goto("settle") ELSE ctl
                /\ UNCHANGED faults
  /\ UNCHANGED <<purse, upstream, slot, ghost>>

(* provider_delivery: the replay entry is durable before the settle.       *)
ProviderDelivery ==
  /\ Handling("delivery")
  /\ LET c == Head(cmds)
         a == journal.attempt
     IN IF a.id # c.att \/ ~a.sent \/ a.outcome \notin Received
           \/ c.out = "failed" \/ ~a.quoted \/ journal.hold.st # "confirmed"
        THEN UNCHANGED controller
        ELSE /\ journal' = [journal EXCEPT !.replays = @ \cup
                  {[att |-> a.id, prompt |-> a.prompt, body |-> a.body, out |-> a.outcome]}]
             /\ ctl' = Goto("settle")
  /\ Reply("delivery", "ok")
  /\ UNCHANGED <<purse, upstream, slot, ghost, faults>>

(* provider_settle.                                                        *)
SettleReady == /\ ~cancelled /\ Coordinates /\ journal.pending = NoPending
               /\ \/ journal.attempt.outcome \in Received /\ journal.attempt.quoted
                  \/ journal.attempt.outcome = "notsent"

ProviderSettle ==
  /\ ctl.pc = "settle"
  /\ IF SettleReady
     THEN BeginCall(journal, "settle", "settle",
                    IF journal.attempt.outcome = "notsent" THEN 0 ELSE Quote, "settled")
     ELSE ctl' = Back /\ UNCHANGED <<journal, purse>>
  /\ UNCHANGED <<gateway, upstream, slot, ghost, faults>>

(* After a settlement: disconnect what is left attached, then forget.      *)
AfterSettle(pc, label, next) ==
  /\ ctl.pc = pc
  /\ IF cell.status = "attached"
     THEN BeginCall(journal, "disconnect", label, 0, next)
     ELSE /\ ctl' = IF cell.status = "detached" THEN Goto(next) ELSE Back
          /\ UNCHANGED <<journal, purse>>
  /\ UNCHANGED <<gateway, upstream, slot, ghost, faults>>

ForgetAttempt ==
  /\ ctl.pc = "clear"
  /\ journal' = [journal EXCEPT !.attempt = NoAttempt] /\ ctl' = Back
  /\ UNCHANGED <<gateway, purse, upstream, slot, ghost, faults>>

-----------------------------------------------------------------------------
(* Prompts.  The hard stop and the worker deadline act on the gateway's    *)
(* lease from other threads.                                               *)

StartPrompt ==
  /\ ctl.mode = "ready" /\ ctl.pc = "loop" /\ journal.prompt < MaxPrompts
  /\ ~Unresolved /\ ~journal.fenced /\ journal.child = 0
  /\ gw.pc = "idle"      \* bound: no gateway thread survives from an earlier prompt
  /\ journal' = [journal EXCEPT !.prompt = @ + 1, !.child = journal.prompt + 1, !.replays = {}]
  /\ ctl' = [ctl EXCEPT !.mode = "prompt", !.lease = journal.prompt + 1]
  /\ live' = TRUE /\ open' = TRUE /\ cancelled' = FALSE /\ cmds' = <<>>
  /\ UNCHANGED <<gw, purse, upstream, slot, ghost, faults>>

HardStop ==
  /\ ctl.mode \in {"prompt", "drain"} /\ ~cancelled
  /\ cancelled' = TRUE /\ live' = FALSE
  /\ UNCHANGED <<controller, gw, open, cmds, purse, upstream, slot, ghost, faults>>

WorkerDeadline ==
  /\ ctl.mode = "prompt" /\ live /\ live' = FALSE
  /\ UNCHANGED <<controller, gw, open, cmds, cancelled, purse, upstream, slot, ghost, faults>>

EndPrompt ==
  /\ ctl.mode = "prompt" /\ ctl.pc = "loop"
  /\ ctl' = [ctl EXCEPT !.mode = "drain", !.lease = 0] /\ live' = FALSE
  /\ UNCHANGED <<journal, gw, open, cmds, cancelled, purse, upstream, slot, ghost, faults>>

(* The prompt ended well: the worker is reaped; or it failed, was stopped, *)
(* or the gateway did not drain within 45 s: disconnect().                 *)
Drained ==
  /\ ctl.mode = "drain" /\ ctl.pc = "loop" /\ gw.pc = "idle" /\ cmds = <<>> /\ ~cancelled
  /\ journal' = [journal EXCEPT !.child = 0]
  /\ \E pc \in {"loop", "retire"} :
       ctl' = [ctl EXCEPT !.mode = IF pc = "loop" THEN "ready" ELSE "refused", !.pc = pc]
  /\ open' = FALSE
  /\ UNCHANGED <<gw, live, cmds, cancelled, purse, upstream, slot, ghost, faults>>

Disconnect ==
  /\ ctl.mode = "drain" /\ ctl.pc = "loop"
  /\ IF gw.pc = "idle" /\ cmds = <<>> THEN UNCHANGED faults ELSE Fault
  /\ journal' = [journal EXCEPT !.child = 0, !.fenced = TRUE]
  /\ ctl' = [ctl EXCEPT !.mode = "disconnect", !.pc = "pending"]
  /\ cancelled' = TRUE /\ open' = FALSE /\ cmds' = <<>>
  /\ UNCHANGED <<gw, live, purse, upstream, slot, ghost>>

Crash ==
  /\ ctl.mode # "down" /\ Fault
  /\ ctl' = [mode |-> "down", pc |-> "loop", then |-> "loop", lease |-> 0]
  /\ gw' = IdleGateway /\ live' = FALSE /\ open' = FALSE /\ cmds' = <<>> /\ cancelled' = FALSE
  /\ UNCHANGED <<journal, purse, upstream, slot, ghost>>

-----------------------------------------------------------------------------
(* Recovery: recover() at startup and at reattach, disconnect() after a    *)
(* hard stop, and the first half of the operator's audit.                  *)

Recover ==
  /\ ctl.pc = "loop"
  /\ ctl.mode = "down" \/ (ctl.mode = "ready" /\ journal.fenced /\ journal.child = 0)
  /\ journal' = [journal EXCEPT !.fenced = @ \/ journal.child # 0, !.child = 0]
  /\ ctl' = [ctl EXCEPT !.mode = "recover", !.pc = "pending"]
  /\ cancelled' = FALSE
  /\ UNCHANGED <<gw, live, open, cmds, purse, upstream, slot, ghost, faults>>

AfterPending == IF ctl.mode = "audit" THEN "audit" ELSE "retire"

(* retry_pending_slot: retire what never reached signing, confirm what the *)
(* host has, submit an absent call once more; otherwise keep it.           *)
RetryPending ==
  /\ ctl.pc = "pending"
  /\ \/ /\ journal.pending = NoPending
        /\ ctl' = Goto(AfterPending) /\ UNCHANGED <<journal, purse>>
     \/ /\ journal.pending # NoPending /\ PendingCall.st = "unsigned"
        /\ journal' = RefusedCall /\ calls' = Undecided
        /\ ctl' = Goto(AfterPending) /\ UNCHANGED <<cell, settled>>
     \/ /\ journal.pending # NoPending /\ PendingCall.st \in {"rejected", "expired"}
        /\ journal' = [journal EXCEPT !.pending = NoPending] /\ calls' = Undecided
        /\ ctl' = Goto(AfterPending) /\ UNCHANGED <<cell, settled>>
     \/ /\ journal.pending # NoPending /\ PendingCall.st = "committed"
        /\ journal' = Confirmed /\ calls' = Undecided
        /\ ctl' = Goto(AfterPending) /\ UNCHANGED <<cell, settled>>
     \/ /\ journal.pending # NoPending /\ PendingCall.st = "sealed"
        /\ Decide(PendingCall) /\ UNCHANGED journal
        /\ ctl' = IF Applies(journal.pending) THEN ctl ELSE Back
     \/ /\ journal.pending # NoPending
        /\ PendingCall.st \in {"preparing", "dead", "contended", "refused"}
        /\ ctl' = Back /\ UNCHANGED <<journal, purse>>
  /\ UNCHANGED <<gateway, upstream, slot, ghost, faults>>

NotSubmitted == journal.hold.st \in {"marked", "refused"}
AtOrigin == Idle(cell.status) /\ (journal.hold # NoHold => cell.root = journal.hold.root)
(* Mutant: an attempt without outcome counts as unsent.                    *)
UnsentByOutcome == journal.attempt.outcome = "none"

Unsent == ~journal.attempt.sent /\ journal.attempt.outcome = "none"

(* retire_refused_provider_request.                                        *)
RetireRefused ==
  /\ ctl.pc = "retire"
  /\ LET next == IF ctl.mode = "refused" THEN Back ELSE Goto("deliver") IN
     IF journal.attempt # NoAttempt /\ Unsent /\ NotSubmitted /\ journal.pending = NoPending
     THEN \/ /\ AtOrigin /\ FinishPlacement(journal.attempt, "notsent")
             /\ journal' = [journal EXCEPT !.attempt = NoAttempt, !.hold = NoHold]
             /\ ctl' = next
          \/ /\ ~(AtOrigin /\ FinishOk(journal.attempt, "notsent"))
             /\ ctl' = IF ctl.mode = "disconnect" THEN Goto("deliver") ELSE Back
             /\ UNCHANGED <<journal, slot>>
     ELSE ctl' = next /\ UNCHANGED <<journal, slot>>
  /\ UNCHANGED <<gateway, purse, upstream, ghost, faults>>

SettledHere == /\ journal.hold = NoHold /\ journal.settlement = journal.attempt.id
               /\ Idle(cell.status)
Delivered == \E r \in journal.replays : r.att = journal.attempt.id

(* What reconcile_provider_evidence must find retained before it finishes  *)
(* the slot, and what only the signed state shows, checked afterwards.     *)
Retained == journal.hold # NoHold \/ journal.settlement = journal.attempt.id
Evident == SettledHere \/ AuditCoordinates

(* recover_delivered_provider_response: a delivered reply is settled at    *)
(* its retained quote, or recognised as settled.                           *)
RecoverDelivered ==
  /\ ctl.pc = "deliver"
  /\ LET fails == /\ ctl' = IF ctl.mode = "disconnect" THEN Goto("fence") ELSE Back
                  /\ UNCHANGED <<journal, purse>>
     IN IF journal.attempt = NoAttempt \/ journal.pending # NoPending \/ ~Delivered
        THEN ctl' = Goto("fence") /\ UNCHANGED <<journal, purse, slot>>
        ELSE \/ ~(Retained /\ FinishOk(journal.attempt, "ended")) /\ fails /\ UNCHANGED slot
             \/ /\ Retained /\ FinishPlacement(journal.attempt, "ended")
                /\ \/ /\ SettledHere /\ journal' = [journal EXCEPT !.attempt = NoAttempt]
                      /\ ctl' = Goto("fence") /\ UNCHANGED purse
                   \/ /\ AuditCoordinates
                      /\ BeginCall(journal, "settle", "recovery_settle", Quote, "cleared")
                   \/ ~Evident /\ fails
  /\ UNCHANGED <<gateway, upstream, ghost, faults>>

RecoveredDelivery ==
  /\ ctl.pc = "cleared"
  /\ journal' = [journal EXCEPT !.attempt = NoAttempt] /\ ctl' = Goto("fence")
  /\ UNCHANGED <<gateway, purse, upstream, slot, ghost, faults>>

(* fence_provider: a reserved purse is disconnected and stays held for the *)
(* audit; an idle one is left to its owner, and the fence is lifted.       *)
FenceProvider ==
  /\ ctl.pc = "fence"
  /\ LET settledAttempt == /\ journal.hold = NoHold /\ journal.pending = NoPending
                           /\ journal.attempt # NoAttempt /\ journal.settlement # 0
         lifted == IF settledAttempt THEN Delivered ELSE Idle(cell.status)
     IN IF journal.fenced /\ ~settledAttempt /\ cell.status = "reserved" /\ journal.pending = NoPending
        THEN BeginCall(journal, "disconnect", "fence", 0, "fenced")
        ELSE /\ journal' = [journal EXCEPT !.fenced = @ /\ ~lifted]
             /\ ctl' = Back /\ UNCHANGED purse
  /\ UNCHANGED <<gateway, upstream, slot, ghost, faults>>

FencedPurse ==
  /\ ctl.pc = "fenced" /\ ctl' = Back
  /\ UNCHANGED <<journal, gateway, purse, upstream, slot, ghost, faults>>

-----------------------------------------------------------------------------
(* The operator: `reconcile provider audited' and `... abort'.             *)

AtEase == ctl.mode = "ready" /\ ctl.pc = "loop" /\ journal.child = 0 /\ journal.attempt # NoAttempt

ReconcileAudited ==
  /\ AtEase /\ ctl' = [ctl EXCEPT !.mode = "audit", !.pc = "pending"]
  /\ UNCHANGED <<journal, gateway, purse, upstream, slot, ghost, faults>>

(* metered_audit_path: what the retained attempt proves.                   *)
AuditPath == IF journal.attempt.outcome = "notsent" \/ Unsent THEN "notsent"
             ELSE IF journal.attempt.outcome \in Received THEN "ended" ELSE "uncertain"

(* Mutant: what is uncertain is not charged.                               *)
AuditChargeLenient == IF AuditPath = "ended" THEN Quote ELSE 0

AuditCharge == IF AuditPath = "notsent" THEN 0 ELSE Quote

(* A call that crossed the send boundary is charged what the host quotes,  *)
(* once; one that crashed there is first recorded as uncertain.            *)
AuditQuotes == journal.hold # NoHold /\ AuditPath # "notsent" /\ ~journal.attempt.quoted
AuditRecorded ==
  [journal EXCEPT !.attempt.outcome = IF AuditQuotes /\ @ = "none" THEN "uncertain" ELSE @]
AuditQuoted == [AuditRecorded EXCEPT !.attempt.quoted = IF AuditQuotes THEN TRUE ELSE @]

(* reconcile_provider_evidence: evidence and quote, then the slot, then    *)
(* the signed state; each of them may stop the audit where it stands.      *)
AuditEvidence ==
  /\ ctl.pc = "audit"
  /\ \/ ~Retained /\ ctl' = Back /\ UNCHANGED <<journal, purse, slot, faults>>
     \/ /\ AuditQuotes /\ (IF AuditCoordinates THEN Fault ELSE UNCHANGED faults)
        /\ journal' = AuditRecorded /\ ctl' = Back /\ UNCHANGED <<purse, slot>>
     \/ /\ Retained /\ (AuditQuotes => AuditCoordinates) /\ UNCHANGED faults
        /\ \/ /\ ~FinishOk(journal.attempt, AuditPath)
              /\ journal' = AuditQuoted /\ ctl' = Back /\ UNCHANGED <<purse, slot>>
           \/ /\ FinishPlacement(journal.attempt, AuditPath)
              /\ \/ SettledHere /\ ctl' = Goto("audited") /\ UNCHANGED <<journal, purse>>
                 \/ /\ AuditCoordinates
                    /\ IF cell.status = "reserved"
                       THEN BeginCall(AuditQuoted, "disconnect", "audit_fence", 0, "audit_settle")
                       ELSE journal' = AuditQuoted /\ ctl' = Goto("audit_settle") /\ UNCHANGED purse
                 \/ ~Evident /\ journal' = AuditQuoted /\ ctl' = Back /\ UNCHANGED purse
  /\ UNCHANGED <<gateway, upstream, ghost>>

AuditSettle ==
  /\ ctl.pc = "audit_settle"
  /\ BeginCall(journal, "settle", "audit_settle", AuditCharge, "audited")
  /\ UNCHANGED <<gateway, upstream, slot, ghost, faults>>

(* abort_refused_provider_request by the operator.                         *)
AbortRefused ==
  /\ AtEase /\ journal.pending = NoPending /\ Unsent
  /\ journal.hold = NoHold \/ NotSubmitted
  /\ AtOrigin /\ FinishPlacement(journal.attempt, "notsent")
  /\ IF cell.status = "attached"
     THEN BeginCall(journal, "disconnect", "abort_disconnect", 0, "aborted")
     ELSE ctl' = Goto("aborted") /\ UNCHANGED <<journal, purse>>
  /\ UNCHANGED <<gateway, upstream, ghost, faults>>

Aborted ==
  /\ ctl.pc = "aborted"
  /\ journal' = [journal EXCEPT !.attempt = NoAttempt, !.hold = NoHold] /\ ctl' = Back
  /\ UNCHANGED <<gateway, purse, upstream, slot, ghost, faults>>

-----------------------------------------------------------------------------
(* The gateway thread.  gw.lease is the placement guard it holds, 0 none;  *)
(* leaving early drops the guard with NotSent.                             *)

Post(op, att, lease, out) ==
  cmds' = IF open THEN Append(cmds, [op |-> op, prompt |-> gw'.prompt, body |-> gw'.body,
                                     att |-> att, lease |-> lease, out |-> out])
          ELSE cmds

GatewayStep == UNCHANGED <<controller, live, open, cancelled, purse, ghost>>

Accept(b) ==
  /\ gw.pc = "idle" /\ live /\ open
  /\ gw' = [IdleGateway EXCEPT !.pc = IF Homelab THEN "prepare" ELSE "reserve",
                               !.prompt = journal.prompt, !.body = b]
  /\ Post(gw'.pc, 0, 0, "none")
  /\ GatewayStep /\ UNCHANGED <<upstream, slot, faults>>

Leave == gw' = IF gw.lease = 0 THEN IdleGateway ELSE [gw EXCEPT !.pc = "release", !.reply = "none"]

PrepareAnswered ==
  /\ gw.pc = "prepare"
  /\ \/ live /\ gw.reply = "plan"
        /\ gw' = [gw EXCEPT !.pc = "enqueue", !.reply = "none"] /\ UNCHANGED cmds
     \/ live /\ gw.reply = "skip"
        /\ gw' = [gw EXCEPT !.pc = "reserve", !.reply = "none"] /\ Post("reserve", 0, 0, "none")
     \/ (~live \/ gw.reply = "err") /\ Leave /\ UNCHANGED cmds
  /\ GatewayStep /\ UNCHANGED <<upstream, slot, faults>>

(* Plan::wait: enqueue (an exact repeat returns the retained job), poll,   *)
(* cancel once the prompt is no longer active.                             *)
PlanEnqueue ==
  /\ gw.pc = "enqueue"
  /\ LET k == <<gw.prompt, gw.body>>
         enqueued == [job EXCEPT ![k].st = IF @ = "none" THEN "waiting" ELSE @]
     IN \/ job' = enqueued /\ gw' = [gw EXCEPT !.pc = "queued"] /\ UNCHANGED faults
        \/ job' \in {job, enqueued} /\ Leave /\ Fault   \* the request failed, or its answer is lost
  /\ GatewayStep /\ UNCHANGED <<cmds, upstream, terms>>

PlanPoll ==
  /\ gw.pc = "queued"
  /\ LET k == <<gw.prompt, gw.body>> IN
     \/ /\ ~live /\ Leave
        /\ \/ /\ job[k].st \in {"waiting", "placed"} /\ UNCHANGED faults
              /\ job' = [job EXCEPT ![k].st = "over", ![k].out = "dropped"]
           \/ UNCHANGED job /\ IF job[k].st \in {"waiting", "placed"} THEN Fault ELSE UNCHANGED faults
        /\ UNCHANGED cmds
     \/ live /\ Leave /\ Fault /\ UNCHANGED <<cmds, job>>      \* an inspect that fails: no cancel
     \/ /\ live /\ job[k].st = "placed"
        /\ gw' = [gw EXCEPT !.pc = "reserve", !.lease = job[k].lease]
        /\ Post("reserve", 0, job[k].lease, "none") /\ UNCHANGED <<job, faults>>
     \/ /\ live /\ job[k].st \in {"sent", "uncertain", "over"}
        /\ Leave /\ UNCHANGED <<cmds, job, faults>>
  /\ GatewayStep /\ UNCHANGED <<upstream, terms>>

ReserveAnswered ==
  /\ gw.pc = "reserve"
  /\ \/ /\ live /\ gw.reply = "permit"
        /\ gw' = [gw EXCEPT !.pc = "before", !.reply = "none"] /\ Post("before", gw.att, 0, "none")
     \/ (~live \/ gw.reply \in {"err", "replay"}) /\ Leave /\ UNCHANGED cmds
  /\ GatewayStep /\ UNCHANGED <<upstream, slot, faults>>

BeforeAnswered ==
  /\ gw.pc = "before"
  /\ \/ /\ live /\ gw.reply = "ok"
        /\ gw' = [gw EXCEPT !.pc = "forward", !.reply = "none"] /\ UNCHANGED cmds
     \/ /\ ~live \/ gw.reply = "err"
        /\ gw' = [gw EXCEPT !.pc = "outcome", !.out = "refused", !.reply = "none"]
        /\ Post("outcome", gw.att, 0, "notsent")
  /\ GatewayStep /\ UNCHANGED <<upstream, slot, faults>>

(* forward_once: with_send_gate makes the hand-over atomic with revoke.    *)
Forward ==
  /\ gw.pc = "forward"
  /\ \/ /\ live /\ key' = [key EXCEPT ![gw.att] = "held"]
        /\ gw' = [gw EXCEPT !.pc = "inflight"] /\ UNCHANGED faults
     \/ /\ IF live THEN Fault ELSE UNCHANGED faults     \* the broker never had the whole frame
        /\ gw' = [gw EXCEPT !.pc = "drop", !.out = "notsent"] /\ UNCHANGED key
  /\ GatewayStep /\ UNCHANGED <<cmds, exec, slot>>

ForwardEnds ==
  /\ gw.pc = "inflight"
  /\ \/ /\ key[gw.att] \in {"refused", "sent_refused"} /\ UNCHANGED faults
        /\ gw' = [gw EXCEPT !.pc = "drop", !.out = "notsent"]
     \/ /\ key[gw.att] \in Received /\ UNCHANGED faults
        /\ gw' = [gw EXCEPT !.pc = "drop", !.out = key[gw.att]]
     \/ /\ IF live /\ key[gw.att] # "cut" THEN Fault ELSE UNCHANGED faults   \* deadline, truncated, withheld
        /\ gw' = [gw EXCEPT !.pc = "drop", !.out = "uncertain"]
  /\ GatewayStep /\ UNCHANGED <<cmds, upstream, slot>>

(* Guard::drop: a finish the broker refuses or never gets changes nothing. *)
GuardFinish(out) ==
  LET k == <<gw.prompt, gw.body>> IN
  \/ /\ gw.lease # 0 /\ FinishAccepted(k, gw.lease, out)
     /\ job' = Finished(k, gw.lease, out) /\ UNCHANGED faults
  \/ gw.lease # 0 /\ FinishAccepted(k, gw.lease, out) /\ Fault /\ UNCHANGED job
  \/ (gw.lease = 0 \/ ~FinishAccepted(k, gw.lease, out)) /\ UNCHANGED <<job, faults>>

(* Mutant: the guard reports every forward as ended.                       *)
DropGuardEnded ==
  /\ gw.pc = "drop"
  /\ GuardFinish(IF gw.out = "notsent" THEN gw.out ELSE "ended")
  /\ gw' = [gw EXCEPT !.pc = "outcome", !.lease = 0, !.reply = "none"]
  /\ Post("outcome", gw.att, 0, gw.out)
  /\ GatewayStep /\ UNCHANGED <<upstream, terms>>

DropGuard ==
  /\ gw.pc = "drop"
  /\ GuardFinish(IF gw.out \in Received THEN "ended" ELSE gw.out)
  /\ gw' = [gw EXCEPT !.pc = "outcome", !.lease = 0, !.reply = "none"]
  /\ Post("outcome", gw.att, 0, gw.out)
  /\ GatewayStep /\ UNCHANGED <<upstream, terms>>

ReleaseGuard ==
  /\ gw.pc = "release" /\ GuardFinish("notsent") /\ gw' = IdleGateway
  /\ GatewayStep /\ UNCHANGED <<cmds, upstream, terms>>

(* Mutant: the outcome is waited for without an end.                       *)
OutcomeWaits ==
  /\ gw.pc = "outcome"
  /\ IF gw.reply = "ok" /\ gw.out \in Received
     THEN gw' = [gw EXCEPT !.pc = "deliver", !.reply = "none"]
     ELSE gw.reply # "none" /\ Leave
  /\ GatewayStep /\ UNCHANGED <<cmds, upstream, slot, faults>>

(* report_outcome_waiting: the wait ends with the lease and its 30 s floor;*)
(* report_outcome of a refused send boundary with the floor alone.         *)
OutcomeAnswered ==
  /\ gw.pc = "outcome"
  /\ IF gw.reply = "ok" /\ gw.out \in Received
     THEN gw' = [gw EXCEPT !.pc = "deliver", !.reply = "none"]
     ELSE /\ gw.reply # "none" \/ ~live \/ ~open \/ gw.out = "refused"
          /\ Leave
  /\ GatewayStep /\ UNCHANGED <<cmds, upstream, slot, faults>>

Deliver ==
  /\ gw.pc = "deliver"
  /\ gw' = [gw EXCEPT !.pc = "delivery"]
  /\ \E r \in IF live THEN {"delivered", "failed"} ELSE {"failed"} : Post("delivery", gw.att, 0, r)
  /\ GatewayStep /\ UNCHANGED <<upstream, slot, faults>>

DeliveryAnswered ==      \* or 30 s passed
  /\ gw.pc = "delivery" /\ gw' = IdleGateway
  /\ GatewayStep /\ UNCHANGED <<cmds, upstream, slot, faults>>

-----------------------------------------------------------------------------
Controller ==
  \/ CallReturns \/ ProviderPrepare \/ ProviderReserve \/ ProviderBeforeSend
  \/ ProviderOutcome \/ ProviderDelivery \/ ProviderSettle
  \/ ReserveAttach \/ ReserveMark \/ ReserveSubmit \/ ReservePermit \/ ReserveFails
  \/ AfterSettle("settled", "disconnect", "clear")
  \/ AfterSettle("audited", "audit_disconnect", "clear")
  \/ ForgetAttempt \/ RetryPending \/ RetireRefused \/ RecoverDelivered \/ RecoveredDelivery
  \/ FenceProvider \/ FencedPurse \/ AuditEvidence \/ AuditSettle \/ Aborted

Gateway ==
  \/ PrepareAnswered \/ PlanEnqueue \/ PlanPoll \/ ReserveAnswered \/ BeforeAnswered
  \/ Forward \/ ForwardEnds \/ DropGuard \/ ReleaseGuard \/ OutcomeAnswered
  \/ Deliver \/ DeliveryAnswered

Prompting == StartPrompt \/ HardStop \/ WorkerDeadline \/ EndPrompt \/ Drained \/ Disconnect
Operator == Recover \/ ReconcileAudited \/ AbortRefused
Native == OwnerMoves \/ (\E c \in calls : Custody(c))
Broker == BrokerRestarts \/ (\E k \in Jobs : BrokerPlaces(k) \/ BrokerDrops(k))
Upstream == \E a \in Attempts : \/ BrokerRefuses(a) \/ UpstreamSend(a) \/ UpstreamReplies(a)
                               \/ UpstreamCut(a) \/ UpstreamEnds(a) \/ TicketJournalFails(a)

Next == \/ Controller \/ Gateway \/ Prompting \/ Operator \/ Native \/ Broker \/ Upstream
        \/ Crash \/ (\E b \in Bodies : Accept(b))

Spec == Init /\ [][Next]_vars
=============================================================================
