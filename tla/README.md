# TLA+ models of minidregg's inference and payment services

minidregg is a large repository: a Lean kernel with its proofs (`Kernel/`,
`Host/`, `Theory/`, `Compiler/` ...), and native Rust services around it
(`native/`). The Lean part states and proves its own theorems. The native
services are where processes crash, replies get lost, files are renamed and
callers retry, and nothing in the repository explores those orders
systematically. This project models the two paths on which such an order costs
somebody money:

* the **inference path**: an agent's request goes through the grain runtime,
  which holds funds of a purse for it, borrows an accelerator slot from the
  inference broker, lets the key broker send it, and settles the purse;
* the **payment path**: finalized transfers of a chain are read by the pay
  watcher, reported to the kernel by `mini pay observe`, and credited.

## 1. Inventory

### Parts of the system

| part | state it keeps | operations | hard behaviour | correct when |
|---|---|---|---|---|
| broker core (`inference-scheduler/src/core.rs`) | jobs (queued, placed, dispatched, uncertain, terminal), service accounts, serial, virtual floor, drain flag | enqueue, schedule, inspect, dispatch, finish, resolve, cancel, set_draining, recover | stale leases, late and repeated reports, expiry by wall clock, counters at their limits | one placement per lease, group capacity respected, sent work never released early, refunds exact, idle time buys nothing |
| broker service (`service.rs`) | `state.json`, `receipts/`, memory, poison flag | open, save, execute, operator calls | crash or failed write between the renames of a save, lost replies, full archive | nothing is acknowledged before it is durable, nothing durable is lost or rewritten, every crash state reopens |
| wire protocol (`lib.rs`, `main.rs`) | none | frames on a Unix socket | a reply that does not arrive | — |
| homelab adapter (`grain-runtime/src/homelab.rs`) | a plan, then a guard on a lease | wait (enqueue, poll, cancel), verify, dispatch, finish on drop | the drop of the guard races the controller's reports | a slot is reported free only when nothing runs in it |
| grain runtime, provider path (`grain-runtime/src/main.rs`, `provider*.rs`) | `journal.json` (attempt, hold, pending native call, replay cache, retry gate), the gateway's command channel | reserve, before-send, outcome, delivery, settle, stop, drain, disconnect, recover, audit | gateway and controller threads, custody children, lost answers, a purse that others write, a crash between any two saves | a charge matches at most one send, every send is charged, an unsent call costs nothing |
| mini-keys, provider role (`mini-keys/src/server`, `credentials`) | tickets, answers, spend, member and usage accounts | authorize, forward, sweep, restart, reset | four files per authorize, one thread per connection, failed writes | calls never exceed charges, a ticket is sent once, an answered ticket replays |
| pay watcher (`pay-watcher`, `deploy/pay/mini-pay-watcher`) | pending tick, archive, quarantine, enrollment cursor | run, republish, publish, acknowledge, quarantine | endpoints that disagree or lie, a kill or power loss between renames | the cursor passes nothing undecided, no audit event is lost, no tick ID is reused |
| observer (`resource-client/src/pay.rs`, `mini pay observe`) | retained attempts, receipts | resolve, route, batch, probe, enrol, link receipts | stale views, refusals that do not say why, lost answers, frames that land after a kill | a receipt means decided |
| payment receivers (`Kernel/PayObservation*.lean`, `PayEnrolReceiver.lean`) | clock, chain tip, nullifiers | admit a report or an enrollment | competing reports at one tip | a transfer is credited once |
| world admission (`Kernel/World.lean`) | receipts, nonces, purses | admit a command | replay, stale root | exactly-once admission (proved in Lean) |
| mini-sdk attempts (`mini-sdk/src`) | prepared and sent attempts, lock, consent | prepare, send, settle, recover | crash around the send, retry | an attempt is re-sent only byte for byte |
| private backend, joint agreement | agreement sessions | propose, sign, verify | partial signing | both or neither hold the agreement |
| spk host (`spk-host`) | grains, sessions, dispatch fence | launch, dispatch, stop | stop racing dispatch | nothing runs behind a closed fence |
| web front ends, discord entrance, the rest of the resource client, support libraries, prover, deployment | see `PROJECT.json` | | | |

`PROJECT.json` lists every part with the reason for what is not modelled, and
under `hazards`, at their lines, the places where an order of events that no
test produces could go wrong.

### How the provider path interacts

The *gateway* thread serves one request of the agent at a time and talks to the
*controller*, which owns the journal, over a command channel: `Prepare` (homelab
only), `Reserve`, `BeforeSend`, `Outcome`, `Delivery`. The controller answers
each; the gateway stops waiting when the prompt's lease ends. Between the
answers, the gateway borrows a slot from the inference broker and hands the frame
to the key broker. The controller changes the purse through native calls, each
prepared and submitted by a *custody child* with a deadline; the answer may be
lost although the Host admitted the call. A hard stop, the worker's deadline or
a crash may fall anywhere. Recovery decides from journal and purse alone whether
an attempt was sent, delivered, settled or never left.

### How the payment path interacts

A timer starts the script `mini-pay-watcher`. The watcher reads every endpoint
at one tip, keeps what all agree on, writes `pending.json`, then
`observations.json`, then the enrollment cursor; the script runs `mini pay
observe` on the observations and, if that exits 0 or 3, moves the tick to
`ticks/`. The observer first settles what an earlier run left (exact lookup at
the Host), then submits ordinary records as one report, or record by record when
the batch was refused, or an enrollment when there is no ordinary record. Each
submission is signed against a view just read. The kernel spends one nullifier
per transfer and one per tip.

### How the broker's parts interact

Controllers (one per Hermes agent; several may act for one member, the
*principal*) call the broker over a private socket. `Service::serve` handles one
connection at a time, so calls never overlap. A call

1. clones the core into a candidate and runs `schedule()` on it at the current
   wall clock (expiry, floor, placement loop);
2. loads the archived receipt of the addressed job, if the candidate has none;
3. applies the operation, or refuses and drops the candidate;
4. runs `schedule()` again;
5. if the candidate differs from the core, saves it: snapshot with the terminal
   jobs, one receipt file per terminal job, snapshot without them, each a write
   to a temporary file and a rename;
6. replaces the core and replies.

An error in step 5 poisons the process. A restart reads the snapshot, compares
it with the archive, turns unsent placements back into queued jobs and sent ones
into uncertain ones, and saves. `Dispatch` is the only reply that permits a
caller to send; the caller later reports `Finish`, or an operator attests the
end with `Resolve`.

## 2. Modules

| module | content | composes |
|---|---|---|
| `Scheduler` | the broker: core operations as operators on a core record, calls, saving, crashing and opening as actions | |
| `SchedulerSafety` | its properties, the inductive invariant, the refinement mapping, fairness and progress | implements `Ledger` |
| `Ledger` | abstract promise: a book of jobs, used leases and permissions | |
| `MCScheduler` | the instances of `Scheduler` that TLC checks | |
| `SchedulerProofs`, `SchedulerServiceProofs` | types, sends and records, counts, bounds, leases and the refinement; the accounts | |
| `Provider` | gateway, controller, custody, purse, key broker, inference broker as the runtime sees them | |
| `ProviderSafety` | its properties, refinement mapping, fairness | implements `PaidCalls` |
| `PaidCalls` | abstract promise: a call leaves only under cover and is settled once, for nothing only if it never left | |
| `ProviderProofs`, `ProviderPaidProofs`, `ProviderSlotProofs` | purse and holds; sends, payments and the refinement; slots, leases and recovery | |
| `Tickets`, `TicketsSafety`, `TicketsProofs` | the key broker's tickets and accounts, their properties, the theorems | |
| `PayWatch`, `PayWatchSafety` | watcher and tick script; observer and kernel only as far as the watcher relies on them | |
| `PayRail`, `PayRailSafety` | observer and payment receivers in detail, together with the watcher's own steps | extends `PayWatch`, and implements its specification |
| `PayWatchProofs`, `PayRailProofs` | the theorems about both | |

Mutated definitions (the plausible bugs under which each property must fail,
listed in `PROJECT.json`) stand directly before the definitions they change.

### Scheduler

#### State

| variable | code |
|---|---|
| `disk` | `state.json` |
| `archive` | `receipts/<id>` |
| `core`, `receipts`, `drained` | `Service.core`, `.receipts`, `.drained_receipts` |
| `cand`, `now`, `asked` | the local `next` of the running call, its clock reading, and the permission its reply would carry |
| `pc`, `opening` | where the process is: down, in `open`'s save, idle, in the first or second `schedule()`, between the renames of a save, poisoned |
| `sent`, `running` | history: permissions that reached a caller, and those whose execution is not reported over |
| `faults` | crashes and failed writes so far (bound of the instance) |

A job is one record with the union of the fields of `State`'s variants. A field
the code's variant does not have holds 0; lease 0 is `None`.

#### Actions

A call is a sequence of steps on the private candidate: `Begin` (or an
operator's `Status`, `Drain`, `Resolve`), `PlaceNext` for every turn of the
placement loop, one of `Refuse`, `Enqueue`, `EnqueueAgain`, `Inspect`,
`Dispatch`, `Finish`, `Cancel`, again `PlaceNext`, then `Unchanged` or a save:
`SaveTerminal`, `ArchiveReceipt` for every terminal job in key order, `Commit`.
The candidate is invisible outside the call, so the split only adds places for a
crash, and it lets placement be an iteration instead of a recursion. Every step
of a save is a real crash point. `PlaceOverflows`, `ArchiveRefuses` and
`WriteFails` are the error paths; `Crash` may strike anywhere; `Stop` is the
restart a poisoned broker asks for; `Open` is `Service::open` up to its save.

#### Abstractions

* Identities, controllers, members and bodies are model values. Identity and
  backend order are numbers, because the code iterates sorted maps.
* `eligible` keeps the pool comparison; endpoint, model, context, output and
  tool checks are the relation `Fits`. The estimated cost is the table `Cost`;
  it cannot overflow in the code, since an eligible request has
  `max_input + max_output <= context < 2^32` and unit costs below `2^32`.
* A refusal is one action (`Refuse`) that is possible whenever a call has been
  scheduled: every refusing check drops the candidate, and some call that a
  check refuses always exists (an unknown job).
* `enqueue` ends with a `schedule()` of its own, followed by the one of
  `execute` at the same clock reading. The second finds nothing to expire,
  place or advance, and both are one `Reschedule`.
* `running` is the world outside: a report that an execution ended, or that
  nothing was sent, and an operator's resolve, are assumed to be true when made.
  For the runtime's reports `SlotTruth` (run `provider`) checks this assumption.
* The clock reading of a call is any of `Times`: it may jump and step back.

Not modelled: the byte budget of the archive (the receipt count is), the attempt
string, pages of `Status`, file ownership and permissions, the state lock,
framing, a changed configuration, and loss of completed renames in a power
failure (the code does not fsync; a process crash is modelled, a machine crash
is not).

### Provider

| variable | code |
|---|---|
| `journal` | `journal.json`: attempt, hold, pending call, replays, retry gate, settlement. Each step ends with the save the code makes, so memory and file are one variable |
| `ctl` | the controller: what it is doing (`mode`), the step of the handler (`pc`), what follows a native call |
| `gw`, `live`, `open`, `cmds`, `cancelled` | the gateway thread, the prompt lease, the receiver of the channel, its queue, the hard-stop flag |
| `cell`, `calls`, `settled` | the purse at the Host, native calls with their custody child, the settlements the Host admitted |
| `key`, `exec` | the key broker's frame of each attempt, what may be executing upstream |
| `job`, `serial` | the inference broker's jobs as its replies show them |
| `route` | `task.homelab`: direct, or through the inference broker |
| `hist`, `faults` | history of the attempts, bound of the instance |

One action per handler (`ProviderReserve` and its `Reserve...` steps around each
native call, `ProviderBeforeSend`, `ProviderOutcome`, `ProviderDelivery`,
`ProviderSettle`), per step of the gateway (`Accept` to `DeliveryAnswered`,
`DropGuard`), per way a prompt ends (`HardStop`, `WorkerDeadline`, `EndPrompt`,
`Drained`, `Disconnect`), and per step of recovery and audit (`RetryPending`,
`RetireRefused`, `RecoverDelivered`, `FenceProvider`, `Audit...`, `Abort...`). A
native call is `BeginCall`, custody steps, and one of the `Call...` returns.

`Applies` and `After` are the grain law of `Kernel/AgentGrain.lean` for the hard
attachment the provider path uses: attach and every disconnect open a new
generation, a settle returns a fenced purse to detached, and a call is admitted
only at the root it was prepared against. The audit keeps the code's order:
evidence is recorded (a crash after the send becomes `uncertain`), the quote
retained, the slot reported, and only then is the signed state compared; it may
stop after each of them with what it has already done.

Abstractions: one request in the gateway at a time; request bodies are model
values; `settled` keeps the kind of a settlement and not its amount: 0 is the
settlement of a call that was not sent, `Quote` the Host's source quote, which
may amount to nothing (a refused reply costs `pin.per_op`); the number of fresh settle preparations
(`PROVIDER_SETTLE_FRESH_PREPARES` = 3) is not reached because a fresh
preparation needs a fault and the runs allow two; the replay bound of 16 and the
request budget of a prompt are not reached (`MaxAttempts` plays the budget);
channel capacity and back-off are left out; a scheduler request that fails in
the middle of `Plan::wait` is a fault. Key broker, inference broker and upstream
may do whatever their interface lets the runtime see. Of the purse's owner less
is assumed possible than the grain law permits: the owner attaches, detaches and
refills the idle purse at any time, but leaves a reserved purse to the runtime.
The law would also let an owner settle, interrupt or cancel it
(`AgentGrain.lean:139`); then the purse no longer tells the runtime what became
of its hold, and only the operator's audit is left.

### Tickets

| variable | code |
|---|---|
| `file`, `answer` | `SPOOL/tickets/ID.json` and `ID.answer` |
| `spend`, `member`, `usage` | `spend.json`, `members.json`, `usage.json` |
| `lock`, `flights` | the authority lock, `in_flight` |
| `thr` | the connection threads, each with the day it has read |
| `given`, `called`, `reset`, `raced` | history: tickets callers hold, provider calls started, what the operator reset, tickets that two authorizes had in hand at once |

`Authorize`, `PoolGrant`, `ChargeSpend`, `ChargeMember`, `CountCall`, the
refunds, `Refused` and `HandOut` are the steps of one authorize; `Forward`,
`Send`, `SendEnds`, `PutAnswer` and `Settle` those of one forward. Every write
may fail, `Restart` may fall anywhere, `Midnight` and `Ages` move the two clocks.

Abstractions: one member, one runner, one row; amounts are counted in calls.
A caller may repeat an authorize while its first connection is still served: the
code enforces nothing else, and the second thread then picks up the first one's
minted ticket. `raced` remembers those tickets, and the properties that such a
repeat breaks (section 4) except exactly them. The cap checks of `charge_spend`
and `charge_member` repeat those of `pool_grant` under the same lock and are not
repeated in the model. Rows granted to a user (`authorize_grant`), the temporary file that `write_durable`
shares, the discord relay, the audit log and sealing are not modelled.

### PayWatch and PayRail

| variable | code |
|---|---|
| `chain`, `top` | the finalized transfers; a position stands for a signature |
| `decided`, `minted`, `kclock`, `ktip`, `spentTips` | nullifiers, credits, clock cell, chain tip, tick nullifiers |
| `cursor`, `pending`, `archive`, `quarantined`, `obsFile` | the files of the tick directory |
| `cur`, `pc` | the tick in the watcher's memory, where the script is |
| `synced`, `crashes`, `outage` | the files at the start of the run, kills and power losses |
| `attempts`, `landed`, `flight`, `receipts` | retained attempts, what the Host committed, frames on their way, receipts |
| `at`, `mode`, `todo`, `sent`, `seenClock`, `answer`, `stale`, `batchStale`, `skipped`, `code` | the running observer |

`Run` reads the endpoints and concludes; `Stage`, `Publish`, `WriteCursor`,
`Acknowledge`, `RemovePending`, `Quarantine` are the file operations, each a
crash point; `PowerFails` undoes any subset of a run's renames of `pending.json`
and the cursor, which `write_atomic` does not sync. In `PayWatch`, `HostDecides`,
`ObserverLinks` and `ObserverEnds` say what the watcher relies on. `PayRail`
replaces them: `ObserveStarts`, the `Lookup...` steps of recovery, `Route`,
`Build`, `Mark`, `Send`, one action per kind of answer, `Link`, `ObserveEnds`;
an undecided lookup is skipped, a missing enrollment capability ends the run
waiting (`EnrolUnconfigured`), and an `Err` of any call ends it with what is
retained (`ObserveErrs`). `HostHandles` is the order of refusals of the two
receivers, `OtherReports`, `ClockTicks` and `PayCellWrites` what others commit in
between.

Abstractions: one token account per index; the RPC calls of one run are one
step; the tip of a run is any slot up to the newest; a dishonest endpoint
departs from the truth on one transfer per run; the two reads of `read_view` are
one step; the pinned root of a submission is a flag that every write of the pay
cell sets; attempts on which recovery never acts again are forgotten and their
names reused; the answer `stalePay` stands for `staleAuthority` too, which the
observer treats alike; the bound `2 * records + 4` of its loop is never reached,
because a stale answer is retried only once. The script's service lock makes quarantine and tick exclusive. Not
modelled: the page window of ordinary indexes (a documented hole for dust),
configuration changes, the non-durable mode, `--hold`, `--resume`, `audit` and
the address and book verbs, prices, leases and the authority cell.

## 3. Runs

| run | instance | question | distinct states |
|---|---|---|---|
| `crash` | 2 jobs of 2 members, 1 slot, 2 faults, 2 clock readings, drain, cancel, resolve, all reports | does any order of calls, crashes between renames, failed writes and lost replies break the promise of the ledger? | 282 k |
| `share` | 3 jobs of 2 members (two controllers of one member), 2 backends, active bound 1, no faults | are bounds, accounts and the virtual floor right? | 251 k |
| `limits` | job bound 1, archive of 1 receipt, `MaxU64` = 5, one fault | are records and permissions safe when serial, service and archive are exhausted? | 10 k |
| `live` | as `crash` with 1 fault | is every job decided, every receipt published? | 110 k |
| `reserve` | 3 jobs, archive of 2 receipts | expected violation | |
| `provider` | 2 attempts, 2 prompts, both routes, 2 faults of any kind except the key broker's disk | do purse, journal, slot and what went upstream always agree? | 3.8 M |
| `provider_live` | 1 attempt, both routes, 2 faults, disk faults included | is a hold always accounted for, and does everybody come back? | 178 k |
| `tickets_crash` | 1 request, 2 threads, 2 tickets, 2 days, 1 reset, 1 fault, overlapping authorizes | does any crash, failed write or overlap leave a call uncharged, and a ticket that was not raced sent twice, reopened or without its answer? | 6.4 M |
| `paywatch_tick` | 2 endpoints, one dishonest, 2 transfers of 3 kinds, 2 ticks, 2 kills or power losses | can cursor, audit bundles or tick IDs go wrong? | 2.0 M |
| `payrail` | 2 transfers on 2 indexes, one may be refused for ever, 1 fault, 1 commit of others, unsigned memos | is a receipt always true, is nothing credited twice, and is what the watcher relies on kept? | 5.1 M |
| `payrail_live` | 1 transfer, signed memos, 1 kill, 1 fault | is every tick settled, every landed transfer receipted? | 111 k |
| `paywatch_quarantine` | 1 transfer, 1 kill | expected violation | |

What the properties say:

* *Broker.* `AtMostOnceSend`, `PermissionDurable`: a job is permitted to send
  once, and the permission is on disk under its lease before and after any
  crash. `SendInv` is the inductive invariant of section 5, and implies both.
  `PhysicalCapacity`: what may be executing never exceeds a group's slots (the
  outside world, `running`; `AllocationBounds` is about the broker's own books).
  `LeasesNameOnePlacement`: a stale report cannot hit a newer lease.
  `ReopenNeverRefused`: no crash leaves files that `open` rejects.
  `ArchiveSummaryExact`: the counters a status reports are those of the archive.
  `NeverForgotten`, `OutcomeFinal`, `SentKeepsSlot`: what a durable record may
  become. `ServiceMonotone`, `RefundsCovered`, `NoCatchUp`: the fairness
  accounts. `ImplementsLedger`; `Decided`, `Retired`: progress.
* *Provider.* `ZeroMeansUnsent`: a settlement as unsent is never wrong, also later.
  `EverySendPaidOnce`: at most one charge, and an attempt that was sent is
  forgotten only once charged. `NoSecondSend`: the same bytes go upstream once
  per prompt. `DeliveredRecoverable`: a delivered reply never becomes unpayable.
  `SlotTruth`: the runtime reports a slot free only when it is. `HoldRecorded`:
  held funds always have an attempt in the journal. `ImplementsPaidCalls`;
  `GatewayReturns`, `RuntimeReturns`: progress.
* *Tickets.* `NeverUnder`: "over by one, never under", for the row and for the
  member, raced tickets included. Of every ticket that was not raced: `OneCall`,
  one provider call; `AnswerRetained`, once answered it can replay;
  `CalledIsClosed`, once called it is never open again, and settled it only
  disappears.
* *Payments.* `CursorLosesNothing`: every transfer up to the cursor is decided or
  a permanent skip. `AuditEventsRetained`: every below-floor transfer it passed
  is in a retained bundle (kills, not power losses). `TickIdsUnique`.
  `ReceiptMeansDecided`: a receipt, which hides a transfer from the watcher for
  good, is never false. `CreditedOnce`. `ImplementsWatch`: watcher, observer and
  kernel in detail implement `PayWatch`. `TickSettles`: no tick is in the
  way for ever. `LandedIsReceipted`: every transfer of a committed submission gets
  its receipt, unless the operator quarantined the tick it belongs to.

### Bounds

*Broker.* Two jobs and one slot are enough for every pairwise interference the
code knows: capacity, floor, lease and archive order all compare two jobs. The
third job of `share` adds the choice within a family. Two faults allow a crash
during the recovery from a crash, and with a guard bound of 1 they reach the
exhausted guard set. Two clock readings, one before and one after every
deadline, cover expiry on both sides and a clock that steps back.

*Provider.* Two attempts let a second request meet whatever the first left, in
the same prompt or the next; with two faults a crash falls into the recovery
from another fault. One body in `provider` means that both attempts ask for the
same bytes, the case the replay cache and the broker's job identity are for.

*Tickets.* Two threads of one request produce every pair of authorize and
forward that interleaves, on one ticket or, once the first is settled, on two;
one fault falls into any of their steps; ceilings of two and three calls are reached and
refused; one midnight and one reset separate the three accounts.

*Payments.* Two transfers in two slots are listed together or apart, and one can
wait below the other, which is what the cursor must not step over; two ticks let
a second tick meet what the first left pending, archived or quarantined. `payrail`
has no kills, which `payrail_live` and, for the watcher's own files,
`paywatch_tick` have.

Provider, ticket and payment runs do not check for deadlock: these systems stop
legitimately when their bounds are used up and nothing is pending.

### Fairness

* `SchedulerSafety!FairSpec`: the broker goes on with a call it has read and a
  save it has started, and is started again after it stopped (its README
  requires a supervisor); calls keep arriving when the wall clock is past every
  deadline, some of them polls of a job (`Plan::wait` polls every 100 ms).
  Nothing is assumed about `Finish`, `Cancel`, `Drain` or `Resolve`; sent work is
  *not* claimed to end.
* `ProviderSafety!FairSpec`: the controller and gateway threads run; a custody
  child ends (its deadline); the worker's deadline, the end of a prompt and the
  drain timeout come; a runtime that is down is started again. Nothing is
  assumed of the upstream, the two brokers, the agent, the operator or the owner.
* `RailLiveSpec`: the timer starts the script again, script and observer take
  their steps, the Host handles what reached it. Nothing is assumed of the
  chain, the operator or other reporters.
* `WayOutSpec` (the violated run): as above, and the operator keeps trying to
  quarantine (strong fairness).

## 4. Where the code and its words part

### Violated runs

`reserve`: `service.rs:35` says that admission reserves archive room for every
accepted live job. `execute` adds the receipt counter to the live jobs of the
candidate. Jobs that the call's own `schedule()` has just expired are no longer
live in the candidate and not yet in the receipt counter, so they are reserved
nowhere. TLC finds the shortest case: budget 2; job 1 with deadline 1 and job 2
are live; at time 1 job 3 is enqueued, job 1 expires in the same call, and three
jobs now need two receipts. The job that ends last cannot be archived: the save
fails with `terminal receipt archive exhausted`, the broker is poisoned, and
every restart fails in the same place until the budget is raised. `limits` shows
that no record or permission is lost on that path.

`paywatch_quarantine`: `quarantine_tick` writes `quarantine/ID.json` and then
removes `pending.json`. Killed in between, every later quarantine of the tick
finds its own file and refuses with `quarantine collision`: the operator's way
out of a pending tick is closed.

### Known counterexamples

These are what the passing runs except or assume away: `raced` in the ticket
properties, `DiskFaults = FALSE` in `provider`, `SignedMemos = TRUE` in
`payrail_live`, `~outage` in `AuditEventsRetained`. Each is reproduced by one change
of a configuration file, or by the formula given.

| change | what TLC then violates | why |
|---|---|---|
| `OneCall`, `AnswerRetained` or `CalledIsClosed` without `\ raced` | itself, also with `MaxFaults = 0` | `authorize` holds no guard on the ticket it finds (`server/provider.rs:155`); a retry that found it minted, while the first authorize still ran, writes `counted` over the `sending` or `answered` of a forward (`:223`), or when refused removes ticket and answer (`:219`, `ticket.rs:244`); `ticket.rs:15` says "A retry is never a second provider call". The second call is charged: `NeverUnder` excepts nothing |
| `DiskFaults = TRUE` in `ProviderPaid.cfg` | `ZeroMeansUnsent` | `forward_ticket` answers a refusal when its journal write fails after the send (`server/provider.rs:516`); `grain-runtime/src/provider.rs:1648` says the broker "refuses only before it sends", and the runtime settles the call as unsent |
| `SignedMemos = FALSE` in `PayRailLive.cfg` | `TickSettles` | `enrol_decided` creates `enrolment-after` with create_new before it publishes its decision (`pay.rs:1517`); killed in between, every later observe fails, against `mini-pay-watcher:26` "Kill it anywhere and the next tick converges" |
| `AuditEventsRetained` without `~outage` | itself | `write_atomic` (`pay-watcher/src/main.rs:92`) syncs nothing, so a power loss can keep the cursor and lose the bundle; `mini-pay-watcher:9` says "fsynced BEFORE cursor advance", `pay-watcher/README.md:75` "Directory entries are synced" |
| `MaxLive = 1` and `Cardinality(LiveTickets) <= MaxLive` in `TicketsCrash.cfg` | the formula | the bound on live tickets is checked before the ticket is written, with no lock around both (`server/provider.rs:161`) |

Read in the source while modelling, and kept by the models as the code has it:

* `authorize` reads the day before it waits for the authority lock;
  `charge_member` restarts the member's day whenever the caller's day differs
  from the recorded one, in either direction, so a late call of yesterday clears
  today's share (`credentials/store.rs:759`).
* A delivered retryable reply is replayed to the same bytes within the prompt
  (`grain-runtime/src/main.rs:9605`), where `provider_failure.rs:85` says that a
  later request is a new reserve; and the one retry gate forgets a request's
  failures when another request fails in between (`provider_failure.rs:214`).
* An ordinary record that is refused for ever makes the observer spend every tip
  on an empty report while an enrollment waits (`pay.rs:1353`).
* In `tick_may_be_spent` the second read of the clock adds nothing once the root
  of the pay cell is pinned; it is the `>=` that matters (mutant `TickPassed`).

## 5. Proofs

All five components have theorems. TLAPS checks them for every value of the
constants that satisfies the named assumption of the model: `ConfigAssumption`
for the broker (`Config::validate` with the types of the configuration maps; any
finite set of identities, any number of faults), and the corresponding
assumptions of `Tickets`, `PayWatch`, `PayRail` and `Provider`. Two modules
assume one thing more, because of a counterexample of section 4:

| module | assumption | without it |
|---|---|---|
| `ProviderPaidProofs`, `ProviderSlotProofs` | `~DiskFaults`: the key broker's journal write after a send succeeds | `ZeroMeansUnsent` fails |

Each proof has the same shape: an invariant that says what every step relies on,
one lemma per action that it is kept, and the properties as consequences. The
invariants were checked with TLC on the instances of section 3 before they were
proved.

### The inference broker

* `SchedulerProofs`: `TypeCorrect`, `Spec => []TypeOK`, with one lemma per
  operation of the core; `SendInvariant`, and from it `SentAtMostOnce`,
  `PermissionsOnDisk`, and the action properties `JobsRemembered`
  (`NeverForgotten`), `OutcomesFinal` (`OutcomeFinal`), `SlotsKept`
  (`SentKeepsSlot`).
  In the same module `BookInvariant`, and from it `AllocationBounded`,
  `PhysicallyBounded` (`PhysicalCapacity`), `LeasesUnique`
  (`LeasesNameOnePlacement`), `NeverRefused` (`ReopenNeverRefused`),
  `SummaryExact` (`ArchiveSummaryExact`) and `LedgerKept` (`ImplementsLedger`).
* `SchedulerServiceProofs`: `ServiceInvariant`, and from it `RefundsAreCovered`
  (`RefundsCovered`), `IdleBuysNothing` (`NoCatchUp`) and `ServiceNeverFalls`
  (`ServiceMonotone`).

`AtMostOnceSend` says nothing about files, so it is not inductive. `SendInv` adds
what each step of a call relies on:

* `ArchiveInv`: receipts are terminal;
* `PhaseInv`: how memory and candidate relate to the snapshot at each `pc`; in the
  middle of a save, a job is missing from the candidate only if its receipt
  equals the snapshot's record;
* `FilesInv`: the snapshot agrees with the archive, and together they record every
  permission, sealed under its lease;
* `CandInv`: the same for the candidate, whose records are moreover ahead of the
  durable ones (`Advances`: never dropped, sent work keeps its slot, ends are
  final);
* `AskedInv`: the permission a pending dispatch asks for is recorded in the
  candidate, and nobody has one for that job.

The argument has two layers. `Follows(c, d)` says that core `d` has a record for
exactly the jobs of `c`, each advanced; it is transitive, and every operation of
the core (`Expire`, `Turn`, `Placed`, `Dispatched`, `Completed`, `Unconfirmed`,
`Cancelled`, `Draining`, `Resolved`, `Recovered`) follows, by one lemma each.
`SoundFollows` then carries agreement, permissions and advancement from a core to
any that follows it. The two operations that do change which jobs have a record
are separate: `SoundAddressed` (a receipt is taken in, no record changes) and
`SoundAdmitted` (only an identity without snapshot record and without receipt is
admitted: this is where the receipt lookup before enqueue is needed). Each rename
of a save then hands the candidate's soundness over to the files.

`BookInv` is about what the broker counts:

* `CountInv`: the receipt counters are those of the archive, or of what a restart
  will find there;
* `SizeInv`: the bounds of `Config` on snapshot, memory and candidate;
* `RunInv`: whatever may be executing holds its slot, under its lease, in the
  snapshot and in the candidate;
* `LeaseInv`: the serial is ahead of every lease, and no two records share one;
* `MoveInv`: the candidate is ahead of the files by moves the ledger knows.

Most operations only ease a core: they end, send or requeue jobs and hand out
neither slots nor leases, so bounds and leases carry over by one lemma
(`Eases`). Placement, where `Feasible` is needed, and admission are treated on
their own. `PhysicalCapacity` needs `RunInv` and the bound on the snapshot: the
executions map one to one into the slots the snapshot holds.

The accounts are sums over sets of jobs. `SchedulerServiceProofs` first shows
what `MapThenSumSet` computes: the recursive equation of the fold has a solution
in the natural numbers, only one, and any job can be taken out of the sum
(`SumRemove`, `SumSplit`); the induction is on sets, each time by a smallest set
for which the statement fails. `ServiceInv` then says of the snapshot, memory and
candidate that reservations are covered, that service and floor fit a `u64`, that
waiting jobs reserve nothing and that no member with live work is below the
floor, and of the candidate that it takes nothing back from the snapshot. That
waiting jobs reserve nothing is what makes a refund exact: expiry and drain sum
over queued and placed jobs alike. The bound is what makes `complete()` safe: its
saturating addition may clamp, but never below the service that is left.

### The key broker

`TicketsProofs`: `TicketsTyped`, `AtMostOneCall` (`OneCall`), `AnswersRetained`,
`CalledStaysClosed` (`CalledIsClosed`), `NeverUndercharged` (`NeverUnder`), all of
the specification in which authorizes overlap. The first three except the raced
tickets, because there they are false (section 4); `NeverUndercharged`
and the types except nothing. The
invariant ties each thread's step to the lock it holds, to the journal state of
its ticket and to what it has charged so far. For `NeverUnder`, `PaidInv` counts
the tickets whose charge has reached the account and not been given back; the
account is at least their number.

### The payment path

`PayWatchProofs`: `CursorIsSafe` (`CursorLosesNothing`), `AuditEventsKept`,
`IdsStayUnique` (`TickIdsUnique`). The invariant says that every cursor on the disk or in
memory is safe (each enrolled transfer below it is decided, dust or void), that
the dust below it is in a bundle, and that the ids in use differ. That a listing of a finite
set of events exists is proved by a least counterexample.

`PayRailProofs`: `RailImplementsWatch` (the observer and the receivers in detail
implement the watcher's specification), `ReceiptsAreTrue`
(`ReceiptMeansDecided`), `NeverCreditedTwice` (`CreditedOnce`). Because of the
refinement, `RailCursorIsSafe` is the cursor theorem of `PayWatch` carried over.

### The provider path

`ProviderProofs`: `PurseInvariant` and `HoldsRecorded` (`HoldRecorded`), with
disk faults or without. `PurseInv` says that at most one call to the world is in
flight, how its possible effects relate purse and hold, and what the
controller's next step may assume about both.

`ProviderPaidProofs`: `SendInvariant`, then `SendsPaidOnce` (`EverySendPaidOnce`),
`ZeroIsUnsent` (`ZeroMeansUnsent`), `PromiseKept` (`ImplementsPaidCalls`), and
`SentOnce` (`NoSecondSend`). `SendInv` says that an attempt the controller has not
recorded is known to nobody, that whatever may be upstream is held or paid, and
that a granted gateway with a live lease has a controller waiting and a purse that
holds its money. For `SentOnce`, `OnceInv` ties each attempt to the request it was
opened for: what may have left in the current prompt is the current attempt or has
its entry in the replay cache, and an attempt is opened only for a request that
has none. Forgetting an attempt is the step that could break it, so the entry must
be there before.

`ProviderSlotProofs` is about the slots of the inference broker: `GuardInvariant`
and `SlotsTrue` (`SlotTruth`), `RecoverInvariant` and `DeliveriesRecoverable`
(`DeliveredRecoverable`).

`GuardInv` has three parts. `SlotInv`: a frame that may have left has a job that
was dispatched, and while the gateway holds a guard, no frame of the same request
other than the one it handed over itself can be upstream. `ReplyInv`: a reply
that journal, replay cache, a command on its way or the gateway speaks of is one
the key broker has. `JobInv`: a slot given back is free. The gateway's guard,
`provider_settle`, the audit, the recovery and the abort each report an end on
their own knowledge; one lemma each shows that this knowledge implies the slot is
free.

`DeliveredRecoverable` promises that two other parties, the host and the
inference broker, accept what recovery will ask of them. Its invariant
`RecoverInv` joins

* `LinkInv`: whoever asks, asks for a job the broker can know, and a lease is held
  only on the homelab route;
* `LeaseInv`: a lease taken back is never given again, and the lease of a job is
  not among those taken back;
* `EndInv`: an attempt that was marked sent has a dispatched job under its own
  lease; while its reply is heard, queued or awaited, the broker has not been told
  that it was not sent, and no gateway still holds a guard under that lease once
  the reply is heard;
* `FundsInv`: a confirmed hold is at the host under the recorded generation, or
  one later behind a fence, unless its settle is admitted and not yet confirmed;
  a reserve that may still be admitted names the root at which the hold was
  marked (`Submitted`), so an attach of the owner in between, which opens a new
  generation, makes the host refuse it;
* `DeliveryInv`: the hold of a delivered reply is confirmed, or settled under the
  attempt's identity.

The subtle steps are those in which a report of one party crosses one of another:
the guard dropped before the outcome is queued, the broker restarting after the
dispatch, and a fence admitted after the delivery.

### Only model-checked

* Progress (`Decided`, `Retired`, `TickSettles` and the others under fairness):
  out of the prover's reach.
* Nothing else: every invariant, action property and refinement of the passing
  runs is stated by a theorem, under the assumptions of the table above.

## 6. Not modelled, and plan

Not modelled, with the reasons in `PROJECT.json`: the Lean kernel except the
payment receivers (it carries its own proofs), cryptography, the front ends, and
everything of the grain runtime, the resource client and mini-keys outside the
two paths. Most of the repository's lines are Lean proofs, user interface, wire
formats and tests, so the share of mapped lines stays small although the two
paths are covered.

Next:

1. `Provider` with an owner who moves the reserved purse: what the audit still finds
   out, and what it has to leave to the operator.
2. The proofs of `Provider` with disk faults: what the purse still guarantees when a
   call is charged nothing although it left.
3. Components that would be worth a module of their own: the dispatch fence of
   the spk host (`dispatch_fence.rs`), attempt custody in mini-sdk with world
   admission, and the agreement of the private backend.
