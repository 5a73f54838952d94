------------------------- MODULE ProviderPaidProofs -------------------------
(***************************************************************************)
(* Proofs that the provider path implements PaidCalls: no request leaves   *)
(* without funds held or paid for it, an attempt is settled at most once,  *)
(* and for nothing only if it never left and never will; and that the same *)
(* bytes leave at most once in a prompt.  They hold for any number of      *)
(* attempts, prompts and faults, as long as the key broker can write its   *)
(* ticket journal (~DiskFaults).                                           *)
(***************************************************************************)
EXTENDS ProviderProofs

-----------------------------------------------------------------------------
(* The inductive invariant of sends and settlements                        *)

GatewayFields == {"pc", "prompt", "body", "att", "lease", "out", "reply"}
KeyStates == {"none", "held", "refused", "sent", "cut"} \cup Received

(* A frame the key broker never had or refused: nothing left, nothing will.*)
Lapsed == {"none", "refused"}

(* The commands on their way to the controller.                            *)
Queued == {cmds[i] : i \in 1..Len(cmds)}

(* The key broker and the purse know only attempts the journal has opened. *)
GroundInv ==
  /\ journal.next \in 1..(MaxAttempts + 1)
  /\ journal.attempt.id \in 0..(journal.next - 1)
  /\ DOMAIN gw = GatewayFields /\ gw.att \in 0..(journal.next - 1)
  /\ \E S : cmds \in Seq(S)
  /\ \A c \in Queued : c.att \in 0..(journal.next - 1)
  /\ settled \in [Attempts -> {<<>>, <<0>>, <<Quote>>}]
  /\ key \in [Attempts -> KeyStates]
  /\ \A a \in Attempts : a >= journal.next => settled[a] = <<>> /\ key[a] = "none"

(* The controller opens an attempt: nobody else knows it yet.              *)
Opening == \/ ctl.pc \in {"opened", "mark", "reserve", "permit"}
           \/ ctl.pc = "call" /\ ctl.then \in {"mark", "permit"}
Unheld == \/ ctl.pc \in {"opened", "mark", "reserve"}
          \/ ctl.pc = "call" /\ ctl.then = "mark"

OpenInv ==
  /\ Opening => /\ journal.attempt.id # 0 /\ ~journal.attempt.sent
                /\ journal.attempt.outcome = "none" /\ gw.att # journal.attempt.id
                /\ \A c \in Queued : c.att # journal.attempt.id
  /\ Unheld => settled[journal.attempt.id] = <<>>
  /\ journal.pending.op = "reserve" =>
       /\ journal.attempt.id # 0 /\ ~journal.attempt.sent
       /\ settled[journal.attempt.id] = <<>>

(* A charge of a settle, and what it says about the frame.                 *)
ChargeOK(c) ==
  c.key.op = "settle" => /\ c.key.charge \in {0, Quote}
                         /\ c.key.charge = 0 /\ c.att # 0 => key[c.att] \in Lapsed

(* What may be upstream is held or paid for.                               *)
PaidInv ==
  /\ cell.by # 0 => settled[cell.by] = <<>>
  /\ ~Idle(cell.status) => cell.by # 0
  /\ \A a \in Attempts :
       /\ key[a] # "none" /\ journal.attempt.id = a => journal.attempt.sent
       /\ key[a] \notin Lapsed => cell.by = a \/ settled[a] = <<Quote>>
  /\ journal.attempt.outcome = "notsent" => key[journal.attempt.id] \in Lapsed
  /\ \A c \in calls : ChargeOK(c)

(* The gateway has a permit and has not handed its frame over.             *)
Granted == gw.pc \in {"before", "forward"} \/ (gw.pc = "reserve" /\ gw.reply = "permit")

(* While its lease lives, the controller keeps the attempt as it is and    *)
(* the purse reserved; a frame that may leave is marked as sent.           *)
GateInv ==
  /\ live => ctl.mode = "prompt"
  /\ gw.reply = "permit" => gw.pc = "reserve"
  /\ Granted => /\ gw.att # 0 /\ key[gw.att] = "none"
                /\ \A c \in Queued : c.op = "outcome" => c.att # gw.att
  /\ Granted /\ live => /\ journal.attempt.id = gw.att /\ journal.attempt.outcome = "none"
                        /\ ctl.pc = "loop" /\ journal.pending = NoPending /\ cell.by = gw.att
  /\ live /\ (gw.pc = "forward" \/ (gw.pc = "before" /\ gw.reply = "ok")) => journal.attempt.sent
  /\ gw.pc \in {"inflight", "drop"} => gw.att # 0
  /\ gw.pc = "drop" /\ gw.out = "notsent" => key[gw.att] \in Lapsed
  /\ \A c \in Queued : c.op = "outcome" =>
       c.att # 0 /\ (c.out = "notsent" => key[c.att] \in Lapsed)

SendInv == GroundInv /\ OpenInv /\ PaidInv /\ GateInv

-----------------------------------------------------------------------------
(* What the updates do                                                     *)

(* The bound on attempts is a natural number.                              *)
LEMMA AttemptsBound ==
  /\ MaxAttempts \in Nat
  /\ \A a : a \in Attempts <=> a \in Nat /\ a # 0 /\ a =< MaxAttempts
<1>1. MaxAttempts \in Nat
  BY ProviderAssumption
<1>2. \A a : a \in 1..MaxAttempts <=> a \in Nat /\ a # 0 /\ a =< MaxAttempts
  BY <1>1
<1>3. Attempts = 1..MaxAttempts
  BY DEF Attempts
<1> QED
  BY <1>1, <1>2, <1>3, Zenon

(* An attempt the journal has opened.                                      *)
LEMMA OpenedAttempt ==
  ASSUME GroundInv, NEW a \in 0..(journal.next - 1), a # 0
  PROVE  a \in Attempts
<1>1. MaxAttempts \in Nat /\ journal.next \in 1..(MaxAttempts + 1)
  BY AttemptsBound DEF GroundInv
<1>2. a \in Nat /\ a # 0 /\ a =< MaxAttempts
  BY <1>1
<1> QED
  BY <1>2, AttemptsBound, Zenon

(* The purse holds funds for the journal's attempt alone.                  *)
LEMMA HeldIsAttempt ==
  ASSUME PurseInv, GroundInv, cell.by # 0
  PROVE  cell.by = journal.attempt.id /\ cell.by \in Attempts /\ ~Idle(cell.status)
<1>1. ~Idle(cell.status) /\ cell.by = journal.attempt.id
  BY DEF PurseInv, CellInv, HoldInv, HoldRecorded, Idle
<1> QED
  BY <1>1, OpenedAttempt DEF GroundInv

(* An answer reaches the gateway that waits for it, once.                  *)
LEMMA ReplyEffect ==
  ASSUME DOMAIN gw = GatewayFields, NEW op, NEW r, Reply(op, r)
  PROVE  /\ DOMAIN gw' = GatewayFields /\ gw'.pc = gw.pc /\ gw'.out = gw.out
         /\ \/ gw' = gw
            \/ /\ gw.pc = op /\ gw.reply = "none" /\ gw'.reply = r
               /\ gw'.att = IF r = "permit" THEN journal.attempt.id ELSE gw.att
<1> DEFINE x == IF r = "permit" THEN journal.attempt.id ELSE gw.att
<1>1. CASE /\ gw.pc = op /\ gw.reply = "none"
           /\ gw' = [gw EXCEPT !.reply = r, !.att = x]
  <2> HIDE DEF x
  <2>1. /\ DOMAIN gw' = GatewayFields /\ gw'.pc = gw.pc /\ gw'.out = gw.out
        /\ gw'.reply = r /\ gw'.att = x
    BY <1>1, Zenon DEF GatewayFields
  <2> QED
    BY <1>1, <2>1 DEF x
<1>2. CASE gw' = gw
  BY <1>2
<1> QED
  BY <1>1, <1>2, Zenon DEF Reply

(* An idle gateway.                                                        *)
LEMMA IdleGatewayShape ==
  /\ DOMAIN IdleGateway = GatewayFields /\ IdleGateway.att = 0 /\ IdleGateway.pc = "idle"
  /\ IdleGateway.reply = "none"
BY DEF IdleGateway, GatewayFields

(* The queue is a sequence; the handled command leaves it.                 *)
LEMMA HandlingEffect ==
  ASSUME GroundInv, NEW op, Handling(op)
  PROVE  /\ ctl.pc = "loop" /\ Head(cmds).op = op /\ Head(cmds) \in Queued
         /\ (\E S : cmds' \in Seq(S)) /\ Queued' \subseteq Queued
         /\ UNCHANGED live
<1>1. PICK S : cmds \in Seq(S)
  BY DEF GroundInv
<1>2. /\ ctl.pc = "loop" /\ cmds # <<>> /\ Head(cmds).op = op /\ cmds' = Tail(cmds)
      /\ UNCHANGED live
  BY DEF Handling
<1>3. /\ cmds' \in Seq(S) /\ Len(cmds') = Len(cmds) - 1 /\ Len(cmds) \in Nat \ {0}
      /\ \A i \in 1..Len(cmds') : cmds'[i] = cmds[i + 1]
  BY <1>1, <1>2
<1>4. Head(cmds) = cmds[1] /\ 1 \in 1..Len(cmds)
  BY <1>1, <1>2, <1>3
<1>5. Queued' \subseteq Queued
  <2>1. \A i \in 1..Len(cmds') : i + 1 \in 1..Len(cmds)
    BY <1>3
  <2> QED
    BY <1>3, <2>1 DEF Queued
<1> QED
  BY <1>2, <1>3, <1>4, <1>5 DEF Queued

(* A command of the gateway joins the queue while the channel is open.     *)
LEMMA PostEffect ==
  ASSUME GroundInv, NEW op, NEW att, NEW lease, NEW out, Post(op, att, lease, out)
  PROVE  /\ \E S : cmds' \in Seq(S)
         /\ \A c \in Queued' :
              \/ c \in Queued
              \/ /\ c.op = op /\ c.att = att /\ c.out = out
                 /\ c.prompt = gw'.prompt /\ c.body = gw'.body /\ c.lease = lease
<1> DEFINE d == [op |-> op, prompt |-> gw'.prompt, body |-> gw'.body,
                 att |-> att, lease |-> lease, out |-> out]
<1>1. PICK S : cmds \in Seq(S)
  BY DEF GroundInv
<1>2. /\ d.op = op /\ d.att = att /\ d.out = out
      /\ d.prompt = gw'.prompt /\ d.body = gw'.body /\ d.lease = lease
  OBVIOUS
<1>3. cmds' = Append(cmds, d) \/ cmds' = cmds
  BY DEF Post
<1> HIDE DEF d
<1>4. CASE cmds' = cmds
  BY <1>1, <1>4 DEF Queued
<1>5. CASE cmds' = Append(cmds, d)
  <2>1. cmds \in Seq(S \cup {d})
    BY <1>1, SeqMonotonic
  <2>2. /\ cmds' \in Seq(S \cup {d}) /\ Len(cmds') = Len(cmds) + 1
        /\ \A i \in 1..Len(cmds') : cmds'[i] = IF i =< Len(cmds) THEN cmds[i] ELSE d
    BY <1>5, <2>1
  <2>3. Len(cmds) \in Nat
    BY <1>1
  <2>4. \A i \in 1..Len(cmds') : cmds'[i] = d \/ (i \in 1..Len(cmds) /\ cmds'[i] = cmds[i])
    BY <2>2, <2>3
  <2>5. \A c \in Queued' : c = d \/ c \in Queued
    BY <2>4 DEF Queued
  <2> QED
    BY <1>2, <2>2, <2>5
<1> QED
  BY <1>3, <1>4, <1>5

-----------------------------------------------------------------------------
(* Kinds of steps                                                          *)

(* The attempt stays as it is.                                             *)
AttemptKept == /\ journal'.attempt.id = journal.attempt.id
               /\ journal'.attempt.sent = journal.attempt.sent
               /\ journal'.attempt.outcome = journal.attempt.outcome

(* It is kept, or its outcome recorded.                                    *)
Recorded == /\ journal'.attempt.id = journal.attempt.id
            /\ journal'.attempt.sent = journal.attempt.sent
            /\ journal'.attempt.outcome = "notsent" => key[journal.attempt.id] \in Lapsed

(* The gateway may get an answer, but no permit; commands only leave.      *)
Quiet == /\ UNCHANGED <<key, live>>
         /\ DOMAIN gw' = GatewayFields
         /\ gw'.pc = gw.pc /\ gw'.att = gw.att /\ gw'.out = gw.out
         /\ gw'.reply = "permit" => gw.reply = "permit"
         /\ (\E S : cmds' \in Seq(S)) /\ Queued' \subseteq Queued

(* A step of the controller that opens nothing and settles nothing.        *)
LEMMA OrdinaryKeeps ==
  ASSUME PurseInv, SendInv, Quiet, UNCHANGED settled, cell'.by = cell.by,
         Idle(cell'.status) <=> Idle(cell.status),
         journal'.next = journal.next,
         AttemptKept \/ Recorded \/ journal'.attempt = NoAttempt,
         journal'.pending.op = "reserve" =>
           (journal.pending.op = "reserve" \/ Unheld) /\ (AttemptKept \/ Recorded),
         \A c \in calls' : ChargeOK(c),
         Opening' => Opening /\ AttemptKept, Unheld' => Unheld,
         ctl.mode = "prompt" => ctl'.mode = "prompt",
         live /\ Granted => AttemptKept /\ ctl'.pc = "loop" /\ journal'.pending = NoPending,
         live /\ gw.pc = "before" /\ gw'.reply = "ok" => gw.reply = "ok"
  PROVE  SendInv'
<1>0. Recorded \/ journal'.attempt = NoAttempt
  BY DEF Recorded, AttemptKept, SendInv, PaidInv
<1>1. GroundInv'
  <2>1. journal'.attempt.id \in 0..(journal.next - 1)
    BY <1>0, NoPendingOp DEF SendInv, GroundInv, Recorded
  <2> QED
    BY <2>1 DEF SendInv, GroundInv, Quiet
<1>2. OpenInv'
  <2>1. Unheld' => Opening'
    BY DEF Unheld, Opening
  <2>2. Unheld' => settled'[journal'.attempt.id] = <<>>
    BY <2>1 DEF SendInv, OpenInv, AttemptKept
  <2>3. Opening' => /\ journal'.attempt.id # 0 /\ ~journal'.attempt.sent
                    /\ journal'.attempt.outcome = "none" /\ gw'.att # journal'.attempt.id
                    /\ \A c \in Queued' : c.att # journal'.attempt.id
    BY DEF SendInv, OpenInv, AttemptKept, Quiet
  <2>4. journal'.pending.op = "reserve" =>
          /\ journal'.attempt.id # 0 /\ ~journal'.attempt.sent
          /\ settled'[journal'.attempt.id] = <<>>
    BY DEF SendInv, OpenInv, AttemptKept, Recorded, Unheld, Opening
  <2> QED
    BY <2>2, <2>3, <2>4 DEF OpenInv
<1>3. PaidInv'
  <2>1. \A c \in calls' : ChargeOK(c)'
    BY DEF ChargeOK, Quiet
  <2>2. \A a \in Attempts : key[a] # "none" /\ journal'.attempt.id = a => journal'.attempt.sent
    <3>1. CASE Recorded
      BY <3>1 DEF SendInv, PaidInv, Recorded
    <3>2. CASE journal'.attempt = NoAttempt
      BY <3>2, NoPendingOp, AttemptsBound
    <3> QED
      BY <1>0, <3>1, <3>2
  <2>3. journal'.attempt.outcome = "notsent" => key[journal'.attempt.id] \in Lapsed
    BY <1>0, NoPendingOp DEF Recorded
  <2> QED
    BY <2>1, <2>2, <2>3 DEF SendInv, PaidInv, Quiet
<1>4. GateInv'
  <2>1. Granted' => Granted
    BY DEF Granted, Quiet
  <2>2. (live' => ctl'.mode = "prompt") /\ (gw'.reply = "permit" => gw'.pc = "reserve")
    BY DEF SendInv, GateInv, Quiet
  <2>3. Granted' => /\ gw'.att # 0 /\ key'[gw'.att] = "none"
                    /\ \A c \in Queued' : c.op = "outcome" => c.att # gw'.att
    BY <2>1 DEF SendInv, GateInv, Quiet
  <2>4. Granted' /\ live' =>
          /\ journal'.attempt.id = gw'.att /\ journal'.attempt.outcome = "none"
          /\ ctl'.pc = "loop" /\ journal'.pending = NoPending /\ cell'.by = gw'.att
    BY <2>1 DEF SendInv, GateInv, Quiet, AttemptKept
  <2>5. live' /\ (gw'.pc = "forward" \/ (gw'.pc = "before" /\ gw'.reply = "ok")) =>
          journal'.attempt.sent
    <3>1. SUFFICES ASSUME live', gw'.pc = "forward" \/ (gw'.pc = "before" /\ gw'.reply = "ok")
                   PROVE  journal'.attempt.sent
      OBVIOUS
    <3>2. live /\ (gw.pc = "forward" \/ (gw.pc = "before" /\ gw.reply = "ok"))
      BY <3>1 DEF Quiet
    <3>3. live /\ Granted
      BY <3>2 DEF Granted
    <3> QED
      BY <3>2, <3>3 DEF SendInv, GateInv, AttemptKept
  <2>6. /\ gw'.pc \in {"inflight", "drop"} => gw'.att # 0
        /\ gw'.pc = "drop" /\ gw'.out = "notsent" => key'[gw'.att] \in Lapsed
        /\ \A c \in Queued' : c.op = "outcome" =>
             c.att # 0 /\ (c.out = "notsent" => key'[c.att] \in Lapsed)
    BY DEF SendInv, GateInv, Quiet
  <2> QED
    BY <2>2, <2>3, <2>4, <2>5, <2>6 DEF GateInv
<1> QED
  BY <1>1, <1>2, <1>3, <1>4 DEF SendInv

(* While a granted gateway's lease lives, the controller waits for it.     *)
LEMMA Ungranted ==
  ASSUME SendInv, ctl.pc # "loop" \/ ctl.mode # "prompt"
  PROVE  ~(live /\ Granted) /\ (live => gw.pc # "before")
BY DEF SendInv, GateInv, Granted

(* A step that does not touch the gateway.                                 *)
LEMMA QuietGateway ==
  ASSUME SendInv, UNCHANGED <<gw, live, cmds, key>>
  PROVE  Quiet
BY DEF SendInv, GroundInv, Quiet, Queued

(* A step that answers the gateway, but with no permit.                    *)
LEMMA QuietReply ==
  ASSUME SendInv, UNCHANGED <<live, key>>, NEW op, NEW r, r # "permit", Reply(op, r),
         cmds' = cmds \/ ((\E S : cmds' \in Seq(S)) /\ Queued' \subseteq Queued)
  PROVE  /\ Quiet
         /\ gw'.reply = gw.reply \/ (gw.pc = op /\ gw'.reply = r)
<1>1. DOMAIN gw = GatewayFields /\ (\E S : cmds \in Seq(S))
  BY DEF SendInv, GroundInv
<1>2. /\ DOMAIN gw' = GatewayFields /\ gw'.pc = gw.pc /\ gw'.out = gw.out
      /\ \/ gw' = gw
         \/ gw.pc = op /\ gw.reply = "none" /\ gw'.reply = r /\ gw'.att = gw.att
  BY <1>1, ReplyEffect
<1>3. (\E S : cmds' \in Seq(S)) /\ Queued' \subseteq Queued
  BY <1>1 DEF Queued
<1> QED
  BY <1>2, <1>3 DEF Quiet

(* A native call begins: a settle's charge says what it knows.             *)
LEMMA BeginCovers ==
  ASSUME PurseInv, SendInv, NEW j, NEW op \in {"attach", "reserve", "settle", "disconnect"},
         NEW label, NEW charge, NEW then,
         DOMAIN j = JournalFields, j.hold = journal.hold, j.pending = journal.pending,
         j.next = journal.next, j.attempt.id = journal.attempt.id,
         j.attempt.sent = journal.attempt.sent,
         \/ j.attempt.outcome = journal.attempt.outcome
         \/ j.attempt.outcome = "uncertain" /\ then \notin {"mark", "permit"},
         BeginCall(j, op, label, charge, then),
         UNCHANGED <<gw, live, cmds, key>>,
         op = "settle" => /\ charge \in {0, Quote}
                          /\ charge = 0 /\ journal.attempt.id # 0 =>
                               key[journal.attempt.id] \in Lapsed,
         op = "reserve" => Unheld, then \in {"mark", "permit"} => Opening, then = "mark" => Unheld,
         ctl.pc # "loop" \/ ctl.mode # "prompt"
  PROVE  SendInv'
<1>1. Shapes /\ DOMAIN j.hold = HoldFields
  BY DEF PurseInv, Shapes
<1>2. /\ journal.pending = NoPending /\ UNCHANGED <<cell, settled>>
      /\ journal'.attempt = j.attempt /\ journal'.next = j.next
      /\ journal'.pending.op = op /\ journal'.pending.charge = charge
      /\ \E c : /\ calls' = calls \cup {c} /\ DOMAIN c = CallFields
                /\ c.key = journal'.pending /\ c.att = j.attempt.id /\ c.st = "preparing"
      /\ ctl'.pc = "call" /\ ctl'.then = then /\ ctl'.mode = ctl.mode
  BY <1>1, BeginCallEffect
<1>3. AttemptKept \/ (Recorded /\ then \notin {"mark", "permit"})
  BY <1>2 DEF AttemptKept, Recorded
<1>4. calls = {}
  BY <1>2 DEF PurseInv, CallInv
<1>5. \A c \in calls' : ChargeOK(c)
  BY <1>2, <1>4 DEF ChargeOK
<1>6. Quiet /\ ~(live /\ Granted) /\ (live => gw.pc # "before")
  BY QuietGateway, Ungranted
<1>7. (Opening' => Opening /\ AttemptKept) /\ (Unheld' => Unheld)
  BY <1>2, <1>3 DEF Opening, Unheld
<1> QED
  BY <1>2, <1>3, <1>5, <1>6, <1>7, OrdinaryKeeps DEF Idle

(* A pending call is dropped or confirmed; the attempt stays.              *)
LEMMA EndCovers ==
  ASSUME PurseInv, SendInv, Quiet, UNCHANGED <<settled, cell>>, journal'.next = journal.next,
         journal'.attempt = journal.attempt, calls' \subseteq calls,
         journal'.pending.op = "reserve" => journal.pending.op = "reserve",
         Opening' => Opening, Unheld' => Unheld,
         ctl.mode = "prompt" => ctl'.mode = "prompt",
         ctl.pc # "loop" \/ ctl.mode # "prompt"
  PROVE  SendInv'
<1>1. AttemptKept /\ \A c \in calls' : ChargeOK(c)
  BY DEF AttemptKept, SendInv, PaidInv
<1>2. ~(live /\ Granted) /\ (live => gw.pc # "before")
  BY Ungranted
<1> QED
  BY <1>1, <1>2, OrdinaryKeeps DEF Idle

(* The answer of a failed transition.                                      *)
LEMMA CallFailedQuiet ==
  ASSUME SendInv, CallFailed, UNCHANGED <<live, cmds, key>>
  PROVE  Quiet
<1>1. CASE UNCHANGED gw
  BY <1>1, QuietGateway
<1>2. CASE Reply("reserve", "err")
  BY <1>2, QuietReply
<1> QED
  BY <1>1, <1>2 DEF CallFailed

(* CallConfirmed: the reserve that is confirmed is the one of the attempt  *)
(* that opens.                                                             *)
LEMMA CallConfirmedCovers ==
  ASSUME PurseInv, SendInv, CallConfirmed
  PROVE  SendInv'
<1>1. /\ ctl.pc = "call" /\ PendingCall.st = "committed"
      /\ journal' = Confirmed /\ calls' = Undecided /\ ctl' = Goto(ctl.then)
      /\ UNCHANGED <<cell, settled, gw, live, cmds, key>>
  BY DEF CallConfirmed, gateway, upstream
<1>2. /\ journal'.pending = NoPending /\ journal'.attempt = journal.attempt
      /\ journal'.next = journal.next
  BY <1>1, ConfirmedEffect DEF PurseInv
<1>3. ctl'.pc = ctl.then /\ ctl'.then = ctl.then /\ ctl'.mode = ctl.mode
  BY <1>1, GotoEffect DEF PurseInv
<1>4. ctl.then \in {"mark", "permit", "settled", "cleared", "audited", "clear", "fenced",
                    "audit_settle", "aborted"}
  BY <1>1 DEF PurseInv, PcInv, ThenInv
<1>5. (Opening' => Opening) /\ (Unheld' => Unheld)
  BY <1>1, <1>3, <1>4 DEF Opening, Unheld
<1>6. calls' \subseteq calls /\ Quiet
  BY <1>1, QuietGateway DEF Undecided
<1> QED
  BY <1>1, <1>2, <1>3, <1>5, <1>6, NoPendingOp, EndCovers

(* CallRefused, CallBeforeSpawn, CallUncertain: the transition failed.     *)
LEMMA CallFailsCovers ==
  ASSUME PurseInv, SendInv, CallRefused \/ CallBeforeSpawn \/ CallUncertain
  PROVE  SendInv'
<1>1. /\ ctl.pc = "call" /\ CallFailed /\ UNCHANGED <<cell, settled, live, cmds, key>>
      /\ calls' \subseteq calls
  <2>1. CASE CallRefused
    BY <2>1 DEF CallRefused, upstream, Undecided
  <2>2. CASE CallBeforeSpawn
    BY <2>2 DEF CallBeforeSpawn, upstream
  <2>3. CASE CallUncertain
    BY <2>3 DEF CallUncertain, upstream, purse
  <2> QED
    BY <2>1, <2>2, <2>3
<1>2. /\ journal'.attempt = journal.attempt /\ journal'.next = journal.next
      /\ journal'.pending.op = "reserve" => journal.pending.op = "reserve"
  <2>1. CASE CallRefused
    <3>1. journal' = RefusedCall
      BY <2>1 DEF CallRefused
    <3> QED
      BY <3>1, DroppedEffect, NoPendingOp DEF PurseInv, RefusedCall
  <2>2. CASE CallBeforeSpawn
    <3>1. journal' = [journal EXCEPT !.pending = NoPending,
                        !.hold.st = IF journal.pending.op = "reserve" THEN "marked" ELSE @]
      BY <2>2, Zenon DEF CallBeforeSpawn
    <3> QED
      BY <3>1, DroppedEffect, NoPendingOp DEF PurseInv
  <2>3. CASE CallUncertain
    BY <2>3 DEF CallUncertain
  <2> QED
    BY <2>1, <2>2, <2>3
<1>3. ctl'.pc \in {"loop", "fence"} /\ (ctl.mode = "prompt" => ctl'.mode = "prompt")
  BY <1>1, CallFailedEffect DEF PurseInv
<1>4. ~Opening' /\ ~Unheld'
  BY <1>3 DEF Opening, Unheld
<1>5. Quiet
  BY <1>1, CallFailedQuiet
<1> QED
  BY <1>1, <1>2, <1>3, <1>4, <1>5, EndCovers

(* SettleAfresh.                                                           *)
LEMMA SettleAfreshCovers ==
  ASSUME PurseInv, SendInv, SettleAfresh
  PROVE  SendInv'
<1>1. /\ ctl.pc = "call" /\ journal' = [journal EXCEPT !.pending = NoPending]
      /\ calls' = Undecided /\ ctl' = Goto("settle")
      /\ UNCHANGED <<cell, settled, gw, live, cmds, key>>
  BY DEF SettleAfresh, gateway, upstream
<1>2. /\ journal'.pending = NoPending /\ journal'.attempt = journal.attempt
      /\ journal'.next = journal.next
  BY <1>1, SlotCleared DEF PurseInv
<1>3. ctl'.pc = "settle" /\ ctl'.mode = ctl.mode
  BY <1>1, GotoEffect DEF PurseInv
<1>4. ~Opening' /\ ~Unheld'
  BY <1>3 DEF Opening, Unheld
<1>5. calls' \subseteq calls /\ Quiet
  BY <1>1, QuietGateway DEF Undecided
<1> QED
  BY <1>1, <1>2, <1>3, <1>4, <1>5, NoPendingOp, EndCovers

-----------------------------------------------------------------------------
(* The host and the custody child                                          *)

(* The handler neither opens an attempt nor ends a prompt.                 *)
Stays == /\ Opening' => Opening
         /\ Unheld' => Unheld
         /\ ctl.mode = "prompt" => ctl'.mode = "prompt"

(* A call moves; nothing is held or settled by it.                         *)
LEMMA MovedCovers ==
  ASSUME PurseInv, SendInv, NEW c \in calls, NEW st, calls' = Decided(c, st),
         UNCHANGED <<journal, settled, key, gw, live, cmds>>, Stays,
         cell'.by = cell.by, Idle(cell'.status) <=> Idle(cell.status)
  PROVE  SendInv'
<1>1. PICK d : calls' = {d} /\ d.key = c.key /\ d.att = c.att
  BY DecidedEffect
<1>2. \A x \in calls' : ChargeOK(x)
  BY <1>1 DEF SendInv, PaidInv, ChargeOK
<1>3. AttemptKept /\ Quiet
  BY QuietGateway DEF AttemptKept
<1>4. journal.pending # NoPending
  BY DEF PurseInv, CallInv
<1>5. ~(live /\ Granted)
  BY <1>4 DEF SendInv, GateInv
<1>6. live /\ gw.pc = "before" => Granted
  BY DEF Granted
<1> QED
  BY <1>2, <1>3, <1>5, <1>6, OrdinaryKeeps DEF Stays

(* Funds are held for the journal's attempt, which is not paid for.        *)
LEMMA HoldCovers ==
  ASSUME PurseInv, SendInv, NEW c \in calls, NEW st, calls' = Decided(c, st),
         c.key.op = "reserve", cell.status = "attached",
         cell'.by = c.att, ~Idle(cell'.status),
         UNCHANGED <<journal, settled, key, gw, live, cmds>>, Stays
  PROVE  /\ SendInv' /\ cell.by = 0 /\ c.att \in Attempts
         /\ settled[c.att] = <<>> /\ key[c.att] = "none"
<1>1. PICK d : calls' = {d} /\ d.key = c.key /\ d.att = c.att
  BY DecidedEffect
<1>2. /\ c.key = journal.pending /\ c.att = journal.attempt.id /\ journal.pending # NoPending
  BY DEF PurseInv, CallInv, CallOK
<1>3. /\ journal.attempt.id # 0 /\ ~journal.attempt.sent /\ settled[journal.attempt.id] = <<>>
  BY <1>2 DEF SendInv, OpenInv
<1>4. cell.by = 0
  BY DEF PurseInv, CellInv, Idle
<1>5. c.att \in Attempts
  BY <1>2, <1>3, OpenedAttempt DEF SendInv, GroundInv
<1>6. key[c.att] = "none"
  BY <1>2, <1>3, <1>5 DEF SendInv, PaidInv
<1>7. GroundInv'
  BY DEF SendInv, GroundInv, Queued
<1>8. OpenInv'
  <2>1. Queued' = Queued
    BY DEF Queued
  <2> QED
    BY <2>1 DEF SendInv, OpenInv, Stays
<1>9. PaidInv'
  <2>1. \A x \in calls' : ChargeOK(x)'
    BY <1>1, <1>2 DEF ChargeOK
  <2>2. \A a \in Attempts : key[a] \notin Lapsed => settled[a] = <<Quote>>
    BY <1>4, AttemptsBound DEF SendInv, PaidInv
  <2> QED
    BY <1>2, <1>3, <2>1, <2>2 DEF SendInv, PaidInv
<1>10. ~(live /\ Granted)
  BY <1>2 DEF SendInv, GateInv
<1>11. GateInv'
  <2>1. Queued' = Queued /\ Granted' = Granted
    BY DEF Queued, Granted
  <2> QED
    BY <1>10, <2>1 DEF SendInv, GateInv, Stays
<1> QED
  BY <1>3, <1>4, <1>5, <1>6, <1>2, <1>7, <1>8, <1>9, <1>11 DEF SendInv

(* The attempt that is held for is settled, at zero only if it never left. *)
LEMMA SettleCovers ==
  ASSUME PurseInv, SendInv, NEW c \in calls, NEW st, calls' = Decided(c, st),
         c.key.op = "settle", cell.status \in {"reserved", "fenced"},
         cell'.by = 0, Idle(cell'.status),
         settled' = [settled EXCEPT ![cell.by] = Append(@, c.key.charge)],
         UNCHANGED <<journal, key, gw, live, cmds>>, Stays
  PROVE  /\ SendInv' /\ cell.by \in Attempts /\ c.key.charge \in {0, Quote}
         /\ c.key.charge = 0 => key[cell.by] \in Lapsed
         /\ settled' = [settled EXCEPT ![cell.by] = <<c.key.charge>>]
<1>1. PICK d : calls' = {d} /\ d.key = c.key /\ d.att = c.att
  BY DecidedEffect
<1>2. /\ c.key = journal.pending /\ c.att = journal.attempt.id /\ journal.pending # NoPending
  BY DEF PurseInv, CallInv, CallOK
<1>3. cell.by # 0 /\ cell.by = journal.attempt.id
  BY DEF PurseInv, HoldInv, HoldRecorded, SendInv, PaidInv, Idle
<1>4. cell.by \in Attempts
  BY <1>3, HeldIsAttempt DEF SendInv
<1>5. /\ c.key.charge \in {0, Quote}
      /\ c.key.charge = 0 => key[cell.by] \in Lapsed
  BY <1>2, <1>3 DEF SendInv, PaidInv, ChargeOK
<1>6. settled[cell.by] = <<>>
  BY <1>3 DEF SendInv, PaidInv
<1>7. settled' = [settled EXCEPT ![cell.by] = <<c.key.charge>>]
  <2>1. settled \in [Attempts -> {<<>>, <<0>>, <<Quote>>}]
    BY DEF SendInv, GroundInv
  <2>2. Append(settled[cell.by], c.key.charge) = <<c.key.charge>>
    BY <1>6
  <2> QED
    BY <1>4, <2>1, <2>2
<1>8. /\ settled' \in [Attempts -> {<<>>, <<0>>, <<Quote>>}]
      /\ settled'[cell.by] = <<c.key.charge>>
      /\ \A a \in Attempts : a # cell.by => settled'[a] = settled[a]
  BY <1>4, <1>5, <1>7 DEF SendInv, GroundInv
<1>9. GroundInv'
  <2>1. \A a \in Attempts : a >= journal.next => a # cell.by
    BY <1>3, <1>4, AttemptsBound DEF SendInv, GroundInv
  <2> QED
    BY <1>8, <2>1 DEF SendInv, GroundInv, Queued
<1>10. ~Unheld
  <2>1. ctl.pc \in {"opened", "mark", "reserve"} => journal.pending = NoPending
    BY DEF PurseInv, PcInv
  <2>2. ctl.pc = "call" /\ ctl.then = "mark" => journal.pending.op = "attach"
    BY DEF PurseInv, PcInv, ThenInv
  <2> QED
    BY <1>2, <2>1, <2>2 DEF Unheld
<1>11. OpenInv'
  <2>1. Queued' = Queued
    BY DEF Queued
  <2> QED
    BY <1>2, <1>10, <2>1 DEF SendInv, OpenInv, Stays
<1>12. PaidInv'
  <2>1. \A x \in calls' : ChargeOK(x)'
    BY <1>1 DEF SendInv, PaidInv, ChargeOK
  <2>2. \A a \in Attempts : key[a] \notin Lapsed => settled'[a] = <<Quote>>
    BY <1>5, <1>8 DEF SendInv, PaidInv
  <2> QED
    BY <2>1, <2>2 DEF SendInv, PaidInv
<1>13. ~(live /\ Granted)
  BY <1>2 DEF SendInv, GateInv
<1>14. GateInv'
  <2>1. Queued' = Queued /\ Granted' = Granted
    BY DEF Queued, Granted
  <2> QED
    BY <1>13, <2>1 DEF SendInv, GateInv, Stays
<1> QED
  BY <1>4, <1>5, <1>7, <1>9, <1>11, <1>12, <1>14 DEF SendInv

(* What the admission of a call does to the promise.                       *)
Promised == /\ UNCHANGED key
            /\ \/ cell'.by = cell.by /\ UNCHANGED settled
               \/ /\ cell.by = 0 /\ cell'.by \in Attempts /\ UNCHANGED settled
                  /\ settled[cell'.by] = <<>> /\ key[cell'.by] = "none"
               \/ /\ cell.by \in Attempts /\ cell'.by = 0
                  /\ \E ch \in {0, Quote} :
                       /\ settled' = [settled EXCEPT ![cell.by] = <<ch>>]
                       /\ ch = 0 => key[cell.by] \in Lapsed

(* The host admits a call.                                                 *)
LEMMA AdmitCovers ==
  ASSUME PurseInv, SendInv, NEW c \in calls, Applies(c.key), Admit(c),
         UNCHANGED <<journal, key, gw, live, cmds>>, Stays
  PROVE  SendInv' /\ Promised
<1>1. /\ c.key.op \in {"attach", "reserve", "settle", "disconnect"}
      /\ c.key.op = "attach" =>
           cell.status = "detached" /\ cell'.status = "attached" /\ cell'.by = cell.by
      /\ c.key.op = "reserve" =>
           cell.status = "attached" /\ cell'.status = "reserved" /\ cell'.by = c.att
      /\ c.key.op = "settle" =>
           /\ cell.status \in {"reserved", "fenced"}
           /\ cell'.status \in {"attached", "detached"} /\ cell'.by = 0
      /\ c.key.op = "disconnect" =>
           /\ cell'.by = cell.by
           /\ \/ cell.status = "attached" /\ cell'.status = "detached"
              \/ cell.status = "reserved" /\ cell'.status = "fenced"
  BY AfterEffect DEF Admit, PurseInv, Shapes
<1>2. calls' = Decided(c, "committed")
  BY DEF Admit
<1>3. c.key.op # "settle" => settled' = settled
  BY DEF Admit
<1>4. CASE c.key.op \in {"attach", "disconnect"}
  <2>1. cell'.by = cell.by /\ (Idle(cell'.status) <=> Idle(cell.status)) /\ settled' = settled
    BY <1>1, <1>3, <1>4 DEF Idle
  <2> QED
    BY <1>2, <2>1, MovedCovers DEF Promised
<1>5. CASE c.key.op = "reserve"
  <2>1. /\ cell.status = "attached" /\ cell'.by = c.att /\ ~Idle(cell'.status)
        /\ settled' = settled
    BY <1>1, <1>3, <1>5 DEF Idle
  <2> QED
    BY <1>2, <1>5, <2>1, HoldCovers DEF Promised
<1>6. CASE c.key.op = "settle"
  <2>1. /\ cell.status \in {"reserved", "fenced"} /\ cell'.by = 0 /\ Idle(cell'.status)
    BY <1>1, <1>6 DEF Idle
  <2>2. settled' = [settled EXCEPT ![cell.by] = Append(@, c.key.charge)]
    BY <1>6 DEF Admit
  <2> QED
    BY <1>2, <1>6, <2>1, <2>2, SettleCovers DEF Promised
<1> QED
  BY <1>1, <1>4, <1>5, <1>6

(* The host decides a call it holds.                                       *)
LEMMA DecideCovers ==
  ASSUME PurseInv, SendInv, NEW c \in calls, Decide(c),
         UNCHANGED <<journal, key, gw, live, cmds>>, Stays
  PROVE  SendInv' /\ Promised
<1>1. CASE Applies(c.key) /\ Admit(c)
  BY <1>1, AdmitCovers
<1>2. CASE calls' = Decided(c, "refused") /\ UNCHANGED <<cell, settled>>
  BY <1>2, MovedCovers DEF Promised, Idle
<1> QED
  BY <1>1, <1>2 DEF Decide

(* The custody child of a call.                                            *)
LEMMA CustodyCovers ==
  ASSUME PurseInv, SendInv, NEW c \in calls, Custody(c)
  PROVE  SendInv' /\ Promised
<1>1. UNCHANGED <<journal, ctl, key, gw, live, cmds>>
  BY DEF Custody, controller, gateway, upstream
<1>2. Stays
  BY <1>1 DEF Stays, Opening, Unheld
<1>3. CASE Decide(c)
  BY <1>1, <1>2, <1>3, DecideCovers
<1>4. ASSUME NEW st, calls' = Decided(c, st), UNCHANGED <<cell, settled>>
      PROVE  SendInv' /\ Promised
  BY <1>1, <1>2, <1>4, MovedCovers DEF Promised, Idle
<1>5. CASE Applies(c.key) /\ Admit(c)
  BY <1>1, <1>2, <1>5, AdmitCovers
<1>6. Decide(c) \/ (Applies(c.key) /\ Admit(c))
      \/ \E st : calls' = Decided(c, st) /\ UNCHANGED <<cell, settled>>
  BY Zenon DEF Custody
<1> QED
  BY <1>3, <1>4, <1>5, <1>6

(* The purse's owner moves the idle purse.                                 *)
LEMMA OwnerCovers ==
  ASSUME PurseInv, SendInv, OwnerMoves
  PROVE  SendInv' /\ Promised
<1>1. UNCHANGED <<journal, ctl, key, gw, live, cmds, calls, settled>>
  BY DEF OwnerMoves, controller, gateway, upstream
<1>2. DOMAIN cell = CellFields
  BY DEF PurseInv, Shapes
<1>3. /\ cell'.by = cell.by
      /\ cell.status \in {"attached", "detached"} /\ cell'.status \in {"attached", "detached"}
  BY <1>2, OwnerEffect
<1>5. Idle(cell'.status) <=> Idle(cell.status)
  BY <1>3 DEF Idle
<1>6. AttemptKept /\ Quiet /\ (Opening' = Opening) /\ (Unheld' = Unheld)
  BY <1>1, QuietGateway DEF AttemptKept, Opening, Unheld
<1>7. \A c \in calls' : ChargeOK(c)
  BY <1>1 DEF SendInv, PaidInv
<1>8. live /\ Granted => ctl.pc = "loop" /\ journal.pending = NoPending
  BY DEF SendInv, GateInv
<1> QED
  BY <1>1, <1>3, <1>5, <1>6, <1>7, <1>8, OrdinaryKeeps DEF Promised

(* retry_pending_slot.                                                     *)
LEMMA RetryPendingCovers ==
  ASSUME PurseInv, SendInv, RetryPending
  PROVE  SendInv' /\ Promised
<1>1. /\ ctl.pc = "pending" /\ AfterPending \in {"audit", "retire"}
      /\ UNCHANGED <<gw, live, cmds, key>>
  BY DEF RetryPending, AfterPending, gateway, upstream
<1>2. Quiet
  BY <1>1, QuietGateway
<1>3. ASSUME ctl' = Goto(AfterPending) \/ ctl' = Back \/ ctl' = ctl
      PROVE  Stays
  <2>1. /\ ctl'.pc \in {"audit", "retire", "loop", "pending"}
        /\ ctl.mode = "prompt" => ctl'.mode = "prompt"
    <3>1. CASE ctl' = Goto(AfterPending)
      BY <1>1, <3>1, GotoEffect DEF PurseInv
    <3>2. CASE ctl' = Back
      BY <3>2, BackEffect DEF PurseInv
    <3>3. CASE ctl' = ctl
      BY <1>1, <3>3
    <3> QED
      BY <1>3, <3>1, <3>2, <3>3
  <2> QED
    BY <2>1 DEF Stays, Opening, Unheld
<1>4. ASSUME journal'.next = journal.next, journal'.attempt = journal.attempt,
             journal'.pending.op = "reserve" => journal.pending.op = "reserve",
             calls' \subseteq calls, Stays, UNCHANGED <<cell, settled>>
      PROVE  SendInv' /\ Promised
  BY <1>1, <1>2, <1>4, EndCovers DEF Stays, Promised
<1>5. CASE /\ UNCHANGED <<journal, purse>>
           /\ ctl' = Goto(AfterPending) \/ ctl' = Back
  BY <1>3, <1>4, <1>5 DEF purse
<1>6. CASE /\ journal' = RefusedCall /\ calls' = Undecided
           /\ ctl' = Goto(AfterPending) /\ UNCHANGED <<cell, settled>>
  <2>1. /\ journal'.pending = NoPending /\ journal'.attempt = journal.attempt
        /\ journal'.next = journal.next
    BY <1>6, DroppedEffect DEF PurseInv, RefusedCall
  <2> QED
    BY <1>3, <1>4, <1>6, <2>1, NoPendingOp DEF Undecided
<1>7. CASE /\ journal' = [journal EXCEPT !.pending = NoPending] /\ calls' = Undecided
           /\ ctl' = Goto(AfterPending) /\ UNCHANGED <<cell, settled>>
  <2>1. /\ journal'.pending = NoPending /\ journal'.attempt = journal.attempt
        /\ journal'.next = journal.next
    BY <1>7, SlotCleared DEF PurseInv
  <2> QED
    BY <1>3, <1>4, <1>7, <2>1, NoPendingOp DEF Undecided
<1>8. CASE /\ journal' = Confirmed /\ calls' = Undecided
           /\ ctl' = Goto(AfterPending) /\ UNCHANGED <<cell, settled>>
  <2>1. /\ journal'.pending = NoPending /\ journal'.attempt = journal.attempt
        /\ journal'.next = journal.next
    BY <1>8, ConfirmedEffect DEF PurseInv
  <2> QED
    BY <1>3, <1>4, <1>8, <2>1, NoPendingOp DEF Undecided
<1>9. CASE /\ journal.pending # NoPending /\ Decide(PendingCall) /\ UNCHANGED journal
           /\ ctl' = ctl \/ ctl' = Back
  <2>1. PendingCall \in calls
    BY <1>9, PendingIsCall DEF PurseInv
  <2> QED
    BY <1>1, <1>3, <1>9, <2>1, DecideCovers
<1>10. \/ /\ UNCHANGED <<journal, purse>>
          /\ ctl' = Goto(AfterPending) \/ ctl' = Back
       \/ /\ journal' = RefusedCall /\ calls' = Undecided
          /\ ctl' = Goto(AfterPending) /\ UNCHANGED <<cell, settled>>
       \/ /\ journal' = [journal EXCEPT !.pending = NoPending] /\ calls' = Undecided
          /\ ctl' = Goto(AfterPending) /\ UNCHANGED <<cell, settled>>
       \/ /\ journal' = Confirmed /\ calls' = Undecided
          /\ ctl' = Goto(AfterPending) /\ UNCHANGED <<cell, settled>>
       \/ /\ journal.pending # NoPending /\ Decide(PendingCall) /\ UNCHANGED journal
          /\ ctl' = ctl \/ ctl' = Back
  BY Zenon DEF RetryPending
<1> QED
  BY <1>5, <1>6, <1>7, <1>8, <1>9, <1>10, Zenon

-----------------------------------------------------------------------------
(* The handlers of the controller                                          *)

(* provider_reserve opens an attempt nobody knows.                         *)
LEMMA OpenCovers ==
  ASSUME PurseInv, SendInv, NEW a, a.id = journal.next, ~a.sent, a.outcome = "none",
         ~Unresolved, journal.next =< MaxAttempts,
         journal'.next = journal.next + 1, journal'.attempt = a,
         journal'.pending = journal.pending, ctl'.pc = "opened", ctl'.mode = ctl.mode,
         UNCHANGED <<cell, calls, settled, key>>, Quiet, gw' = gw
  PROVE  SendInv'
<1>1. journal.pending = NoPending /\ journal.attempt = NoAttempt /\ calls = {}
  BY DEF Unresolved, PurseInv, CallInv
<1>2. journal.next \in Attempts
  BY AttemptsBound DEF SendInv, GroundInv
<1>3. settled[journal.next] = <<>> /\ key[journal.next] = "none"
  BY <1>2, AttemptsBound DEF SendInv, GroundInv
<1>4. GroundInv'
  <2>1. /\ journal.next \in 1..(MaxAttempts + 1) /\ MaxAttempts \in Nat
        /\ gw.att \in 0..(journal.next - 1)
        /\ \A c \in Queued : c.att \in 0..(journal.next - 1)
    BY AttemptsBound DEF SendInv, GroundInv
  <2>2. /\ journal'.next \in 1..(MaxAttempts + 1)
        /\ journal'.attempt.id \in 0..(journal'.next - 1)
        /\ gw'.att \in 0..(journal'.next - 1)
    BY <2>1
  <2>3. \A c \in Queued' : c.att \in 0..(journal'.next - 1)
    BY <2>1 DEF Quiet
  <2>4. \A b \in Attempts : b >= journal'.next => b >= journal.next
    BY <2>1, AttemptsBound
  <2> QED
    BY <2>2, <2>3, <2>4 DEF SendInv, GroundInv, Quiet
<1>5. OpenInv'
  <2>1. /\ journal.next # 0 /\ gw.att # journal.next
        /\ \A c \in Queued : c.att # journal.next
    BY DEF SendInv, GroundInv
  <2>2. \A c \in Queued' : c.att # journal'.attempt.id
    BY <2>1 DEF Quiet
  <2> QED
    BY <1>1, <1>3, <2>1, <2>2, NoPendingOp DEF OpenInv
<1>6. PaidInv'
  <2>1. \A b \in Attempts : key'[b] # "none" /\ journal'.attempt.id = b => journal'.attempt.sent
    BY <1>3
  <2>2. calls' = {}
    BY <1>1
  <2> QED
    BY <2>1, <2>2 DEF SendInv, PaidInv, Idle
<1>7. ~(live /\ Granted)
  BY <1>1, NoPendingOp DEF SendInv, GateInv
<1>8. GateInv'
  <2>1. Queued' \subseteq Queued /\ Granted' = Granted /\ live' = live
    BY DEF Quiet, Granted
  <2>2. live /\ (gw.pc = "forward" \/ gw.pc = "before") => Granted
    BY DEF Granted
  <2> QED
    BY <1>7, <2>1, <2>2 DEF SendInv, GateInv
<1> QED
  BY <1>4, <1>5, <1>6, <1>8 DEF SendInv

(* A handled command is answered, and nothing else happens.                *)
LEMMA AnswerCovers ==
  ASSUME PurseInv, SendInv, Quiet, UNCHANGED <<journal, ctl, cell, calls, settled>>,
         live /\ gw.pc = "before" /\ gw'.reply = "ok" => gw.reply = "ok"
  PROVE  SendInv'
<1>1. /\ AttemptKept /\ (Opening' = Opening) /\ (Unheld' = Unheld)
      /\ \A c \in calls' : ChargeOK(c)
  BY DEF AttemptKept, Opening, Unheld, SendInv, PaidInv
<1>2. live /\ Granted => ctl.pc = "loop" /\ journal.pending = NoPending
  BY DEF SendInv, GateInv
<1> QED
  BY <1>1, <1>2, OrdinaryKeeps DEF Idle

(* provider_reserve up to the durable attempt.                             *)
LEMMA ProviderReserveCovers ==
  ASSUME PurseInv, SendInv, ProviderReserve
  PROVE  SendInv'
<1> DEFINE c == Head(cmds)
           a == [NoAttempt EXCEPT !.id = journal.next, !.prompt = c.prompt,
                                  !.body = c.body, !.lease = c.lease]
           j == [journal EXCEPT !.next = @ + 1, !.settlement = 0, !.attempt = a]
<1>1. UNCHANGED <<cell, calls, settled, key, live>> /\ Handling("reserve")
  BY DEF ProviderReserve, Handling, purse, upstream
<1>2. (\E S : cmds' \in Seq(S)) /\ Queued' \subseteq Queued
  BY <1>1, HandlingEffect DEF SendInv
<1>3. ASSUME NEW r \in {"err", "replay"}, Reply("reserve", r), UNCHANGED <<journal, ctl>>
      PROVE  SendInv'
  <2>1. Quiet /\ (gw'.reply = gw.reply \/ gw'.reply = r)
    BY <1>1, <1>2, <1>3, QuietReply
  <2> QED
    BY <1>1, <1>3, <2>1, AnswerCovers
<1>4. CASE /\ ~Unresolved /\ ~(journal.next > MaxAttempts)
           /\ journal' = j /\ ctl' = Goto("opened") /\ UNCHANGED gw
  <2>1. a.id = journal.next /\ a.sent = FALSE /\ a.outcome = "none"
    <3>1. a.id = journal.next /\ a.sent = NoAttempt.sent /\ a.outcome = NoAttempt.outcome
      BY NoPendingOp, Zenon DEF AttemptFields
    <3> QED
      BY <3>1, NoPendingOp
  <2> HIDE DEF a
  <2>2. j.next = journal.next + 1 /\ j.attempt = a /\ j.pending = journal.pending
    BY Zenon DEF PurseInv, Shapes, JournalFields
  <2> HIDE DEF j
  <2>3. ctl'.pc = "opened" /\ ctl'.mode = ctl.mode
    BY <1>4, GotoEffect DEF PurseInv
  <2>4. journal.next =< MaxAttempts
    BY <1>4, AttemptsBound DEF SendInv, GroundInv
  <2>5. Quiet
    BY <1>1, <1>2, <1>4 DEF Quiet, SendInv, GroundInv
  <2> QED
    BY <1>1, <1>4, <2>1, <2>2, <2>3, <2>4, <2>5, OpenCovers
<1>5. \/ \E r \in {"err", "replay"} : Reply("reserve", r) /\ UNCHANGED <<journal, ctl>>
      \/ /\ ~Unresolved /\ ~(journal.next > MaxAttempts)
         /\ journal' = j /\ ctl' = Goto("opened") /\ UNCHANGED gw
  <2> HIDE DEF c
  <2>1. CASE ~LeaseCurrent(c.prompt) \/ Unresolved
    BY <2>1, Zenon DEF ProviderReserve, controller, c
  <2>2. CASE LeaseCurrent(c.prompt) /\ ~Unresolved /\ Replays(c.prompt, c.body) # {}
    BY <2>2, Zenon DEF ProviderReserve, controller, c
  <2>3. CASE LeaseCurrent(c.prompt) /\ ~Unresolved /\ ~(Replays(c.prompt, c.body) # {})
    BY <2>3, Zenon DEF ProviderReserve, controller, c
  <2> QED
    BY <2>1, <2>2, <2>3
<1> QED
  BY <1>3, <1>4, <1>5

(* ProviderPrepare only answers.                                           *)
LEMMA PrepareCovers ==
  ASSUME PurseInv, SendInv, ProviderPrepare
  PROVE  SendInv'
<1>1. /\ UNCHANGED <<journal, ctl, cell, calls, settled, key, live>> /\ Handling("prepare")
  BY DEF ProviderPrepare, Handling, controller, purse, upstream
<1>2. (\E S : cmds' \in Seq(S)) /\ Queued' \subseteq Queued
  BY <1>1, HandlingEffect DEF SendInv
<1>3. PICK r \in {"err", "skip", "plan"} : Reply("prepare", r)
  <2> DEFINE r == CASE ~LeaseCurrent(Head(cmds).prompt) -> "err"
                    [] /\ LeaseCurrent(Head(cmds).prompt)
                       /\ Replays(Head(cmds).prompt, Head(cmds).body) # {} -> "skip"
                    [] OTHER -> "plan"
  <2>1. Reply("prepare", r)
    BY Zenon DEF ProviderPrepare
  <2>2. r \in {"err", "skip", "plan"}
    OBVIOUS
  <2> HIDE DEF r
  <2> QED
    BY <2>1, <2>2
<1>4. Quiet /\ (gw'.reply = gw.reply \/ gw'.reply = r)
  BY <1>1, <1>2, <1>3, QuietReply
<1> QED
  BY <1>1, <1>3, <1>4, AnswerCovers

(* Attach, mark and submit: the attempt opens.                             *)
LEMMA ReserveStepsCover ==
  ASSUME PurseInv, SendInv, ReserveAttach \/ ReserveMark \/ ReserveSubmit
  PROVE  SendInv'
<1>1. DOMAIN journal = JournalFields /\ UNCHANGED <<gw, live, cmds, key>>
  BY DEF PurseInv, Shapes, ReserveAttach, ReserveMark, ReserveSubmit, gateway, upstream
<1>2. CASE ReserveAttach
  <2>1. ctl.pc = "opened" /\ BeginCall(journal, "attach", "attach", 0, "mark")
    BY <1>2 DEF ReserveAttach
  <2>2. Opening /\ Unheld
    BY <2>1 DEF Opening, Unheld
  <2> QED
    BY <1>1, <2>1, <2>2, BeginCovers
<1>3. CASE ReserveSubmit
  <2>1. ctl.pc = "reserve" /\ BeginCall(journal, "reserve", "reserve", 0, "permit")
    BY <1>3 DEF ReserveSubmit
  <2>2. Opening /\ Unheld
    BY <2>1 DEF Opening, Unheld
  <2> QED
    BY <1>1, <2>1, <2>2, BeginCovers
<1>4. CASE ReserveMark
  <2> DEFINE h == [st |-> "marked", root |-> cell.root, gen |-> cell.gen]
  <2>1. /\ ctl.pc \in {"opened", "mark"} /\ journal' = [journal EXCEPT !.hold = h]
        /\ ctl' = Goto("reserve") /\ UNCHANGED <<cell, calls, settled>>
    BY <1>4 DEF ReserveMark, purse
  <2> HIDE DEF h
  <2>2. /\ journal'.attempt = journal.attempt /\ journal'.next = journal.next
        /\ journal'.pending = journal.pending
    BY <1>1, <2>1 DEF JournalFields
  <2>3. ctl'.pc = "reserve" /\ ctl'.mode = ctl.mode
    BY <2>1, GotoEffect DEF PurseInv
  <2>4. Opening /\ Unheld
    BY <2>1 DEF Opening, Unheld
  <2> QED
    BY <1>1, <2>1, <2>2, <2>3, <2>4, QuietGateway, EndCovers
<1> QED
  BY <1>2, <1>3, <1>4

(* A reserve that stops answers with an error.                             *)
LEMMA ReserveFailsCovers ==
  ASSUME PurseInv, SendInv, ReserveFails
  PROVE  SendInv'
<1>1. /\ ctl.pc \in {"opened", "mark", "reserve", "permit"}
      /\ Reply("reserve", "err") /\ ctl' = Back
      /\ UNCHANGED <<journal, live, cmds, cell, calls, settled, key>>
  BY DEF ReserveFails, ReserveStops, purse, upstream
<1>2. ctl'.pc = "loop" /\ (ctl.mode = "prompt" => ctl'.mode = "prompt")
  BY <1>1, BackEffect DEF PurseInv
<1>3. ~Opening' /\ ~Unheld' /\ Quiet
  BY <1>1, <1>2, QuietReply DEF Opening, Unheld
<1> QED
  BY <1>1, <1>2, <1>3, EndCovers

(* The permit: the gateway learns the attempt the purse is held for.       *)
LEMMA ReservePermitCovers ==
  ASSUME PurseInv, SendInv, ReservePermit
  PROVE  SendInv'
<1>1. /\ ctl.pc = "permit" /\ Reply("reserve", "permit") /\ ctl' = Back
      /\ UNCHANGED <<journal, live, cmds, cell, calls, settled, key>>
  BY DEF ReservePermit, purse, upstream
<1>2. ctl'.pc = "loop" /\ (ctl.mode = "prompt" => ctl'.mode = "prompt")
  BY <1>1, BackEffect DEF PurseInv
<1>3. ~Opening' /\ ~Unheld' /\ Queued' = Queued
  BY <1>1, <1>2 DEF Opening, Unheld, Queued
<1>4. CASE gw' = gw
  BY <1>1, <1>2, <1>3, <1>4, QuietGateway, EndCovers
<1>5. CASE /\ DOMAIN gw' = GatewayFields /\ gw'.pc = "reserve" /\ gw'.reply = "permit"
           /\ gw'.att = journal.attempt.id
  <2>1. /\ journal.attempt.id # 0 /\ ~journal.attempt.sent /\ journal.attempt.outcome = "none"
        /\ \A c \in Queued : c.att # journal.attempt.id
    BY <1>1 DEF SendInv, OpenInv, Opening
  <2>2. journal.pending = NoPending /\ ~Idle(cell.status)
    BY <1>1 DEF PurseInv, PcInv
  <2>3. cell.by = journal.attempt.id
    BY <2>2 DEF PurseInv, CellInv, HoldInv, HoldRecorded, Idle
  <2>4. journal.attempt.id \in Attempts
    BY <2>1, OpenedAttempt DEF SendInv, GroundInv
  <2>5. key[journal.attempt.id] = "none"
    BY <2>1, <2>4 DEF SendInv, PaidInv
  <2>6. GroundInv' /\ OpenInv' /\ PaidInv'
    <3>1. GroundInv'
      BY <1>1, <1>3, <1>5 DEF SendInv, GroundInv
    <3>2. OpenInv'
      BY <1>1, <1>3 DEF SendInv, OpenInv
    <3>3. PaidInv'
      BY <1>1 DEF SendInv, PaidInv, ChargeOK, Idle
    <3> QED
      BY <3>1, <3>2, <3>3
  <2>7. GateInv'
    BY <1>1, <1>2, <1>3, <1>5, <2>1, <2>2, <2>3, <2>5 DEF SendInv, GateInv
  <2> QED
    BY <2>6, <2>7 DEF SendInv
<1>6. \/ gw' = gw
      \/ /\ DOMAIN gw' = GatewayFields /\ gw'.pc = "reserve" /\ gw'.reply = "permit"
         /\ gw'.att = journal.attempt.id
  BY <1>1, ReplyEffect DEF SendInv, GroundInv
<1> QED
  BY <1>4, <1>5, <1>6

(* provider_before_send: the mark is set before the gateway may hand over. *)
LEMMA BeforeSendCovers ==
  ASSUME PurseInv, SendInv, ProviderBeforeSend
  PROVE  SendInv'
<1>1. Handling("before") /\ UNCHANGED <<ctl, cell, calls, settled, key, live>>
  BY BeforeSendEffect DEF ProviderBeforeSend, Handling, PurseInv
<1>2. ctl.pc = "loop" /\ (\E S : cmds' \in Seq(S)) /\ Queued' \subseteq Queued
  BY <1>1, HandlingEffect DEF SendInv
<1>3. CASE UNCHANGED journal /\ Reply("before", "err")
  <2>1. Quiet /\ (gw'.reply = gw.reply \/ gw'.reply = "err")
    BY <1>1, <1>2, <1>3, QuietReply
  <2> QED
    BY <1>1, <1>3, <2>1, AnswerCovers
<1>4. CASE /\ MaySend(Head(cmds)) /\ Reply("before", "ok")
           /\ journal'.pending = journal.pending
           /\ journal'.next = journal.next /\ journal'.attempt.id = journal.attempt.id
           /\ journal'.attempt.outcome = journal.attempt.outcome
           /\ journal'.attempt.sent = TRUE
  <2>1. Quiet /\ ~Opening' /\ ~Unheld' /\ journal.pending = NoPending
    BY <1>1, <1>2, <1>4, QuietReply DEF Opening, Unheld, MaySend
  <2>2. GroundInv'
    BY <1>1, <1>4, <2>1 DEF SendInv, GroundInv, Quiet
  <2>3. OpenInv'
    BY <1>4, <2>1, NoPendingOp DEF OpenInv
  <2>4. PaidInv'
    BY <1>1, <1>4 DEF SendInv, PaidInv, ChargeOK, Idle
  <2>5. Granted' => Granted
    BY <2>1 DEF Quiet, Granted
  <2>6. GateInv'
    BY <1>1, <1>4, <2>1, <2>5 DEF SendInv, GateInv, Quiet
  <2> QED
    BY <2>2, <2>3, <2>4, <2>6 DEF SendInv
<1> QED
  BY <1>3, <1>4, BeforeSendEffect DEF PurseInv

(* provider_record_outcome: a gateway that is granted has not reported.    *)
LEMMA OutcomeCovers ==
  ASSUME PurseInv, SendInv, ProviderOutcome
  PROVE  SendInv'
<1>1. Handling("outcome") /\ UNCHANGED <<cell, calls, settled, key, live>>
  BY OutcomeEffect DEF ProviderOutcome, Handling, PurseInv
<1>2. /\ ctl.pc = "loop" /\ (\E S : cmds' \in Seq(S)) /\ Queued' \subseteq Queued
      /\ Head(cmds) \in Queued /\ Head(cmds).op = "outcome"
  BY <1>1, HandlingEffect DEF SendInv
<1>3. \E r \in {"ok", "err"} : Reply("outcome", r)
  BY Zenon DEF ProviderOutcome
<1>4. Quiet /\ (gw'.reply = gw.reply \/ gw.pc = "outcome")
  BY <1>1, <1>2, <1>3, QuietReply
<1>5. CASE UNCHANGED <<journal, ctl>>
  BY <1>1, <1>4, <1>5, AnswerCovers
<1>6. CASE /\ journal.attempt.id = Head(cmds).att
           /\ journal'.pending = journal.pending
           /\ journal'.next = journal.next /\ journal'.attempt.id = journal.attempt.id
           /\ journal'.attempt.outcome = Head(cmds).out
           /\ journal'.attempt.sent = journal.attempt.sent
           /\ ctl' = ctl \/ ctl' = Goto("settle")
  <2>1. Recorded
    BY <1>2, <1>6 DEF Recorded, SendInv, GateInv
  <2>2. ctl'.pc \in {"loop", "settle"} /\ ctl'.mode = ctl.mode
    <3>1. CASE ctl' = ctl
      BY <1>2, <3>1
    <3>2. CASE ctl' = Goto("settle")
      BY <3>2, GotoEffect DEF PurseInv
    <3> QED
      BY <1>6, <3>1, <3>2
  <2>3. ~Opening' /\ ~Unheld'
    BY <2>2 DEF Opening, Unheld
  <2>4. ~(live /\ Granted)
    BY <1>2, <1>6 DEF SendInv, GateInv
  <2>5. \A c \in calls' : ChargeOK(c)
    BY <1>1 DEF SendInv, PaidInv
  <2> QED
    BY <1>1, <1>4, <1>6, <2>1, <2>2, <2>3, <2>4, <2>5, OrdinaryKeeps DEF Idle
<1> QED
  BY <1>5, <1>6, OutcomeEffect DEF PurseInv

(* provider_delivery.                                                      *)
LEMMA DeliveryCovers ==
  ASSUME PurseInv, SendInv, ProviderDelivery
  PROVE  SendInv'
<1>1. /\ Handling("delivery") /\ Reply("delivery", "ok")
      /\ UNCHANGED <<cell, calls, settled, key, live>>
  BY DeliveryEffect DEF ProviderDelivery, Handling, PurseInv
<1>2. ctl.pc = "loop" /\ (\E S : cmds' \in Seq(S)) /\ Queued' \subseteq Queued
  BY <1>1, HandlingEffect DEF SendInv
<1>3. Quiet /\ (gw'.reply = gw.reply \/ gw.pc = "delivery")
  BY <1>1, <1>2, QuietReply
<1>4. CASE UNCHANGED <<journal, ctl>>
  BY <1>1, <1>3, <1>4, AnswerCovers
<1>5. CASE /\ journal.attempt.outcome \in Received
           /\ journal'.pending = journal.pending
           /\ journal'.next = journal.next /\ journal'.attempt = journal.attempt
           /\ ctl' = Goto("settle")
  <2>1. ctl'.pc = "settle" /\ ctl'.mode = ctl.mode
    BY <1>5, GotoEffect DEF PurseInv
  <2>2. AttemptKept /\ ~Opening' /\ ~Unheld' /\ ~(live /\ Granted)
    BY <1>5, <2>1 DEF AttemptKept, Opening, Unheld, SendInv, GateInv, Received
  <2>3. \A c \in calls' : ChargeOK(c)
    BY <1>1 DEF SendInv, PaidInv
  <2> QED
    BY <1>1, <1>3, <1>5, <2>1, <2>2, <2>3, OrdinaryKeeps DEF Idle
<1> QED
  BY <1>4, <1>5, DeliveryEffect DEF PurseInv

(* A handler goes on or ends; of the journal only the fence, the hold or   *)
(* the quote changes.                                                      *)
LEMMA GoesOnCovers ==
  ASSUME PurseInv, SendInv, UNCHANGED <<cell, calls, settled, gw, live, cmds, key>>,
         journal'.next = journal.next, journal'.pending = journal.pending,
         AttemptKept \/ Recorded,
         ctl' = Back \/ (\E pc \in {"loop", "settle", "pending", "retire", "deliver", "fence", "clear",
                                    "audited", "audit_settle", "aborted"} : ctl' = Goto(pc)),
         ctl.pc # "loop" \/ ctl.mode # "prompt"
  PROVE  SendInv'
<1>1. /\ ctl'.pc \in {"loop", "settle", "pending", "retire", "deliver", "fence", "clear", "audited",
                      "audit_settle", "aborted"}
      /\ ctl.mode = "prompt" => ctl'.mode = "prompt"
  <2>1. CASE ctl' = Back
    BY <2>1, BackEffect DEF PurseInv
  <2>2. ASSUME NEW pc \in {"loop", "settle", "pending", "retire", "deliver", "fence", "clear",
                           "audited", "audit_settle", "aborted"}, ctl' = Goto(pc)
        PROVE  ctl'.pc = pc /\ ctl'.mode = ctl.mode
    BY <2>2, GotoEffect DEF PurseInv
  <2> QED
    BY <2>1, <2>2
<1>2. ~Opening' /\ ~Unheld' /\ Quiet /\ ~(live /\ Granted) /\ (live => gw.pc # "before")
  BY <1>1, QuietGateway, Ungranted DEF Opening, Unheld
<1>3. \A c \in calls' : ChargeOK(c)
  BY DEF SendInv, PaidInv
<1> QED
  BY <1>1, <1>2, <1>3, OrdinaryKeeps DEF Idle

(* A handler forgets the attempt.                                          *)
LEMMA ForgetCovers ==
  ASSUME PurseInv, SendInv, UNCHANGED <<cell, calls, settled, gw, live, cmds, key>>,
         journal.pending = NoPending,
         journal' = [journal EXCEPT !.attempt = NoAttempt]
         \/ journal' = [journal EXCEPT !.attempt = NoAttempt, !.hold = NoHold],
         ctl' = Back \/ ctl' = Goto("fence") \/ ctl' = Goto("deliver"),
         ctl.pc # "loop" \/ ctl.mode # "prompt"
  PROVE  SendInv'
<1>1. /\ journal'.attempt = NoAttempt /\ journal'.next = journal.next
      /\ journal'.pending = NoPending
  <2>1. CASE journal' = [journal EXCEPT !.attempt = NoAttempt]
    BY <2>1, Zenon DEF PurseInv, Shapes, JournalFields
  <2>2. CASE journal' = [journal EXCEPT !.attempt = NoAttempt, !.hold = NoHold]
    BY <2>2, Zenon DEF PurseInv, Shapes, JournalFields
  <2> QED
    BY <2>1, <2>2
<1>2. /\ ctl'.pc \in {"loop", "fence", "deliver"}
      /\ ctl.mode = "prompt" => ctl'.mode = "prompt"
  <2>1. CASE ctl' = Back
    BY <2>1, BackEffect DEF PurseInv
  <2>2. CASE ctl' = Goto("fence") \/ ctl' = Goto("deliver")
    BY <2>2, GotoEffect DEF PurseInv
  <2> QED
    BY <2>1, <2>2
<1>3. ~Opening' /\ ~Unheld' /\ Quiet /\ ~(live /\ Granted) /\ (live => gw.pc # "before")
  BY <1>2, QuietGateway, Ungranted DEF Opening, Unheld
<1>4. \A c \in calls' : ChargeOK(c)
  BY DEF SendInv, PaidInv
<1> QED
  BY <1>1, <1>2, <1>3, <1>4, NoPendingOp, OrdinaryKeeps DEF Idle

(* provider_settle: zero only for an outcome "not sent".                   *)
LEMMA ProviderSettleCovers ==
  ASSUME PurseInv, SendInv, ProviderSettle
  PROVE  SendInv'
<1> DEFINE charge == IF journal.attempt.outcome = "notsent" THEN 0 ELSE Quote
<1>1. ctl.pc = "settle" /\ UNCHANGED <<gw, live, cmds, key>> /\ DOMAIN journal = JournalFields
  BY DEF ProviderSettle, gateway, upstream, PurseInv, Shapes
<1>2. CASE BeginCall(journal, "settle", "settle", charge, "settled")
  <2>1. charge \in {0, Quote} /\ (charge = 0 => key[journal.attempt.id] \in Lapsed)
    BY DEF Quote, SendInv, PaidInv
  <2> HIDE DEF charge
  <2> QED
    BY <1>1, <1>2, <2>1, BeginCovers
<1>3. CASE ctl' = Back /\ UNCHANGED <<journal, purse>>
  BY <1>1, <1>3, GoesOnCovers DEF purse, AttemptKept
<1> QED
  BY <1>2, <1>3 DEF ProviderSettle

(* After a settlement.                                                     *)
LEMMA AfterSettleCovers ==
  ASSUME PurseInv, SendInv, NEW pc \in {"settled", "audited"}, NEW label,
         AfterSettle(pc, label, "clear")
  PROVE  SendInv'
<1>1. ctl.pc = pc /\ UNCHANGED <<gw, live, cmds, key>> /\ DOMAIN journal = JournalFields
  BY DEF AfterSettle, gateway, upstream, PurseInv, Shapes
<1>2. CASE BeginCall(journal, "disconnect", label, 0, "clear")
  BY <1>1, <1>2, BeginCovers
<1>3. CASE UNCHANGED <<journal, purse>> /\ (ctl' = Back \/ ctl' = Goto("clear"))
  BY <1>1, <1>3, GoesOnCovers DEF purse, AttemptKept
<1> QED
  BY <1>2, <1>3 DEF AfterSettle

(* ForgetAttempt, RecoveredDelivery and Aborted.                           *)
LEMMA ForgottenCovers ==
  ASSUME PurseInv, SendInv, ForgetAttempt \/ RecoveredDelivery \/ Aborted
  PROVE  SendInv'
<1>1. /\ \/ journal' = [journal EXCEPT !.attempt = NoAttempt]
         \/ journal' = [journal EXCEPT !.attempt = NoAttempt, !.hold = NoHold]
      /\ ctl' = Back \/ ctl' = Goto("fence")
      /\ ctl.pc \in {"clear", "cleared", "aborted"}
  BY Zenon DEF ForgetAttempt, RecoveredDelivery, Aborted
<1>2. UNCHANGED <<cell, calls, settled, gw, live, cmds, key>>
  BY DEF ForgetAttempt, RecoveredDelivery, Aborted, purse, gateway, upstream
<1>3. journal.pending = NoPending
  BY <1>1 DEF PurseInv, PcInv
<1> QED
  BY <1>1, <1>2, <1>3, ForgetCovers

(* retire_refused_provider_request.                                        *)
LEMMA RetireRefusedCovers ==
  ASSUME PurseInv, SendInv, RetireRefused
  PROVE  SendInv'
<1>1. /\ UNCHANGED <<cell, calls, settled, gw, live, cmds, key>>
      /\ ctl.pc = "retire"
  BY DEF RetireRefused, purse, gateway, upstream
<1>2. ctl' = Back \/ ctl' = Goto("deliver")
  BY Zenon DEF RetireRefused
<1>3. \/ UNCHANGED journal
      \/ /\ journal.pending = NoPending
         /\ journal' = [journal EXCEPT !.attempt = NoAttempt, !.hold = NoHold]
  BY Zenon DEF RetireRefused
<1>4. CASE UNCHANGED journal
  BY <1>1, <1>2, <1>4, GoesOnCovers DEF AttemptKept
<1>5. CASE /\ journal.pending = NoPending
           /\ journal' = [journal EXCEPT !.attempt = NoAttempt, !.hold = NoHold]
  BY <1>1, <1>2, <1>5, ForgetCovers
<1> QED
  BY <1>3, <1>4, <1>5

(* recover_delivered_provider_response.                                    *)
LEMMA RecoverDeliveredCovers ==
  ASSUME PurseInv, SendInv, RecoverDelivered
  PROVE  SendInv'
<1>1. ctl.pc = "deliver" /\ UNCHANGED <<gw, live, cmds, key>> /\ DOMAIN journal = JournalFields
  BY DEF RecoverDelivered, gateway, upstream, PurseInv, Shapes
<1>2. CASE UNCHANGED <<journal, purse>> /\ (ctl' = Goto("fence") \/ ctl' = Back)
  BY <1>1, <1>2, GoesOnCovers DEF purse, AttemptKept
<1>3. CASE /\ journal.pending = NoPending
           /\ journal' = [journal EXCEPT !.attempt = NoAttempt]
           /\ ctl' = Goto("fence") /\ UNCHANGED purse
  BY <1>1, <1>3, ForgetCovers DEF purse
<1>4. CASE BeginCall(journal, "settle", "recovery_settle", Quote, "cleared")
  <2>1. Quote \in {0, Quote} /\ Quote # 0
    BY DEF Quote
  <2> QED
    BY <1>1, <1>4, <2>1, BeginCovers
<1>5. \/ UNCHANGED <<journal, purse>> /\ (ctl' = Goto("fence") \/ ctl' = Back)
      \/ /\ journal.pending = NoPending
         /\ journal' = [journal EXCEPT !.attempt = NoAttempt]
         /\ ctl' = Goto("fence") /\ UNCHANGED purse
      \/ BeginCall(journal, "settle", "recovery_settle", Quote, "cleared")
  BY Zenon DEF RecoverDelivered
<1> QED
  BY <1>2, <1>3, <1>4, <1>5

(* fence_provider.                                                         *)
LEMMA FenceCovers ==
  ASSUME PurseInv, SendInv, FenceProvider \/ FencedPurse
  PROVE  SendInv'
<1>1. /\ ctl.pc \in {"fence", "fenced"} /\ UNCHANGED <<gw, live, cmds, key>>
      /\ DOMAIN journal = JournalFields
  BY DEF FenceProvider, FencedPurse, gateway, upstream, PurseInv, Shapes
<1>2. CASE BeginCall(journal, "disconnect", "fence", 0, "fenced")
  BY <1>1, <1>2, BeginCovers
<1>3. ASSUME NEW f, journal' = [journal EXCEPT !.fenced = f], ctl' = Back, UNCHANGED purse
      PROVE  SendInv'
  <2>1. /\ journal'.attempt = journal.attempt /\ journal'.next = journal.next
        /\ journal'.pending = journal.pending
    BY <1>1, <1>3 DEF JournalFields
  <2> QED
    BY <1>1, <1>3, <2>1, GoesOnCovers DEF purse, AttemptKept
<1>4. CASE FencedPurse
  BY <1>1, <1>4, GoesOnCovers DEF FencedPurse, purse, AttemptKept
<1>5. \/ BeginCall(journal, "disconnect", "fence", 0, "fenced")
      \/ \E f : journal' = [journal EXCEPT !.fenced = f] /\ ctl' = Back /\ UNCHANGED purse
      \/ FencedPurse
  BY Zenon DEF FenceProvider
<1> QED
  BY <1>2, <1>3, <1>4, <1>5

(* The operator's audit: its charge is zero only for what was not sent.    *)
LEMMA AuditCovers ==
  ASSUME PurseInv, SendInv, AuditEvidence \/ AuditSettle
  PROVE  SendInv'
<1>1. /\ ctl.pc \in {"audit", "audit_settle"} /\ UNCHANGED <<gw, live, cmds, key>>
      /\ DOMAIN journal = JournalFields
  BY DEF AuditEvidence, AuditSettle, gateway, upstream, PurseInv, Shapes
<1>2. ASSUME NEW j \in {journal, AuditRecorded, AuditQuoted}
      PROVE  /\ DOMAIN j = JournalFields
             /\ j.hold = journal.hold /\ j.pending = journal.pending
             /\ j.next = journal.next /\ j.attempt.id = journal.attempt.id
             /\ j.attempt.sent = journal.attempt.sent
             /\ j.attempt.outcome = journal.attempt.outcome \/ j.attempt.outcome = "uncertain"
  BY <1>2, AuditJournal DEF PurseInv
<1>3. ASSUME NEW j \in {journal, AuditRecorded, AuditQuoted},
             BeginCall(j, "disconnect", "audit_fence", 0, "audit_settle")
      PROVE  SendInv'
  <2>1. /\ DOMAIN j = JournalFields
        /\ j.hold = journal.hold /\ j.pending = journal.pending
        /\ j.next = journal.next /\ j.attempt.id = journal.attempt.id
        /\ j.attempt.sent = journal.attempt.sent
        /\ j.attempt.outcome = journal.attempt.outcome \/ j.attempt.outcome = "uncertain"
    BY <1>2, <1>3
  <2> QED
    BY <1>1, <1>3, <2>1, BeginCovers
<1>4. ASSUME NEW j \in {journal, AuditRecorded, AuditQuoted},
             journal' = j, UNCHANGED purse, ctl' = Back \/ ctl' = Goto("audit_settle")
      PROVE  SendInv'
  <2>1. AttemptKept \/ Recorded
    BY <1>2, <1>4 DEF AttemptKept, Recorded
  <2>2. journal'.next = journal.next /\ journal'.pending = journal.pending
    BY <1>2, <1>4
  <2> QED
    BY <1>1, <1>4, <2>1, <2>2, GoesOnCovers DEF purse
<1>5. CASE UNCHANGED <<journal, purse>> /\ ctl' = Goto("audited")
  BY <1>1, <1>5, GoesOnCovers DEF purse, AttemptKept
<1>6. CASE /\ ctl.pc = "audit_settle"
           /\ BeginCall(journal, "settle", "audit_settle", AuditCharge, "audited")
  <2>1. AuditCharge \in {0, Quote} /\ (AuditCharge = 0 => AuditPath = "notsent")
    BY DEF AuditCharge, Quote
  <2>2. AuditPath = "notsent" => journal.attempt.outcome = "notsent" \/ ~journal.attempt.sent
    BY DEF AuditPath, Unsent
  <2>3. AuditCharge = 0 /\ journal.attempt.id # 0 => key[journal.attempt.id] \in Lapsed
    <3>1. journal.attempt.id # 0 => journal.attempt.id \in Attempts
      BY OpenedAttempt DEF SendInv, GroundInv
    <3> QED
      BY <2>1, <2>2, <3>1 DEF SendInv, PaidInv, Lapsed
  <2> HIDE DEF AuditCharge
  <2> QED
    BY <1>1, <1>6, <2>1, <2>3, BeginCovers
<1>7. CASE AuditEvidence
  BY <1>3, <1>4, <1>5, <1>7, AuditCases
<1> QED
  BY <1>6, <1>7 DEF AuditSettle

(* The operator's abort of what was never submitted.                       *)
LEMMA AbortRefusedCovers ==
  ASSUME PurseInv, SendInv, AbortRefused
  PROVE  SendInv'
<1>1. ctl.mode = "ready" /\ UNCHANGED <<gw, live, cmds, key>> /\ DOMAIN journal = JournalFields
  BY DEF AbortRefused, AtEase, gateway, upstream, PurseInv, Shapes
<1>2. CASE BeginCall(journal, "disconnect", "abort_disconnect", 0, "aborted")
  BY <1>1, <1>2, BeginCovers
<1>3. CASE ctl' = Goto("aborted") /\ UNCHANGED <<journal, purse>>
  BY <1>1, <1>3, GoesOnCovers DEF purse, AttemptKept
<1> QED
  BY <1>2, <1>3 DEF AbortRefused

-----------------------------------------------------------------------------
(* Prompts, stops and crashes                                              *)

(* A step that ends the lease, or starts one with an idle gateway.         *)
LEMMA LeaseCovers ==
  ASSUME PurseInv, SendInv, UNCHANGED <<cell, calls, settled, key>>,
         journal'.attempt = journal.attempt, journal'.pending = journal.pending,
         journal'.next = journal.next, ~Opening' \/ (UNCHANGED ctl),
         gw' = gw \/ gw' = IdleGateway, cmds' = cmds \/ cmds' = <<>>,
         ~live' \/ (gw'.pc = "idle" /\ ctl'.mode = "prompt")
  PROVE  SendInv'
<1>1. /\ IdleGateway.pc = "idle" /\ IdleGateway.att = 0 /\ DOMAIN IdleGateway = GatewayFields
      /\ IdleGateway.reply = "none"
  BY IdleGatewayShape
<1>2. /\ (\E S : cmds' \in Seq(S)) /\ Queued' \subseteq Queued
  <2>1. CASE cmds' = cmds
    BY <2>1 DEF SendInv, GroundInv, Queued
  <2>2. CASE cmds' = <<>>
    <3>1. Len(cmds') = 0 /\ cmds' \in Seq({})
      BY <2>2
    <3> QED
      BY <3>1 DEF Queued
  <2> QED
    BY <2>1, <2>2
<1>3. journal.next \in 1..(MaxAttempts + 1) /\ MaxAttempts \in Nat
  BY AttemptsBound DEF SendInv, GroundInv
<1>4. GroundInv'
  <2>1. DOMAIN gw' = GatewayFields /\ gw'.att \in 0..(journal.next - 1)
    BY <1>1, <1>3 DEF SendInv, GroundInv
  <2> QED
    BY <1>2, <2>1 DEF SendInv, GroundInv
<1>5. OpenInv'
  <2>1. (Opening' => Opening) /\ (Unheld' => Unheld)
    BY DEF Opening, Unheld
  <2> QED
    BY <1>1, <1>2, <2>1 DEF SendInv, OpenInv
<1>6. PaidInv'
  BY DEF SendInv, PaidInv, ChargeOK, Idle
<1>7. GateInv'
  <2>1. gw' = IdleGateway => ~Granted'
    BY <1>1 DEF Granted
  <2>2. gw' = gw => Granted' = Granted
    BY DEF Granted
  <2>3. gw'.pc = "idle" => ~Granted'
    BY DEF Granted
  <2>4. (live' => ctl'.mode = "prompt") /\ (gw'.reply = "permit" => gw'.pc = "reserve")
    BY <1>1 DEF SendInv, GateInv
  <2>5. ~(Granted' /\ live')
    BY <2>3
  <2>6. ~(live' /\ (gw'.pc = "forward" \/ gw'.pc = "before"))
    OBVIOUS
  <2>7. Granted' => /\ gw'.att # 0 /\ key'[gw'.att] = "none"
                    /\ \A c \in Queued' : c.op = "outcome" => c.att # gw'.att
    BY <1>2, <2>1, <2>2 DEF SendInv, GateInv
  <2>8. /\ gw'.pc \in {"inflight", "drop"} => gw'.att # 0
        /\ gw'.pc = "drop" /\ gw'.out = "notsent" => key'[gw'.att] \in Lapsed
        /\ \A c \in Queued' : c.op = "outcome" =>
             c.att # 0 /\ (c.out = "notsent" => key'[c.att] \in Lapsed)
    BY <1>1, <1>2 DEF SendInv, GateInv
  <2> QED
    BY <2>4, <2>5, <2>6, <2>7, <2>8 DEF GateInv
<1> QED
  BY <1>4, <1>5, <1>6, <1>7 DEF SendInv

(* Prompts, crashes and the start of a recovery.                           *)
LEMMA PromptCovers ==
  ASSUME PurseInv, SendInv,
         StartPrompt \/ EndPrompt \/ Drained \/ Disconnect \/ Crash \/ Recover \/ ReconcileAudited
  PROVE  SendInv'
<1>1. /\ UNCHANGED <<cell, calls, settled, key>>
      /\ journal'.attempt = journal.attempt /\ journal'.pending = journal.pending
      /\ journal'.next = journal.next
      /\ ctl'.pc \in {"loop", "retire", "pending"}
  BY PromptEffect DEF PurseInv
<1>2. ~Opening'
  BY <1>1 DEF Opening
<1>3. /\ gw' = gw \/ gw' = IdleGateway
      /\ cmds' = cmds \/ cmds' = <<>>
  BY DEF StartPrompt, EndPrompt, Drained, Disconnect, Crash, Recover, ReconcileAudited, gateway
<1>4. ~live' \/ (gw'.pc = "idle" /\ ctl'.mode = "prompt")
  <2>1. live => ctl.mode = "prompt"
    BY DEF SendInv, GateInv
  <2>2. CASE StartPrompt
    <3>1. ctl'.mode = "prompt"
      BY <2>2, Zenon DEF StartPrompt, PurseInv, Shapes, CtlFields
    <3> QED
      BY <2>2, <3>1 DEF StartPrompt
  <2>3. CASE EndPrompt \/ Crash
    BY <2>3 DEF EndPrompt, Crash
  <2>4. CASE Drained \/ Disconnect \/ Recover \/ ReconcileAudited
    <3>1. ctl.mode # "prompt" /\ live' = live
      BY <2>4 DEF Drained, Disconnect, Recover, ReconcileAudited, AtEase, gateway
    <3> QED
      BY <2>1, <3>1
  <2> QED
    BY <2>2, <2>3, <2>4
<1> QED
  BY <1>1, <1>2, <1>3, <1>4, LeaseCovers

(* The hard stop and the worker deadline revoke the lease.                 *)
LEMMA StopCovers ==
  ASSUME PurseInv, SendInv, HardStop \/ WorkerDeadline
  PROVE  SendInv'
<1>1. UNCHANGED <<journal, ctl, cell, calls, settled, key, gw, cmds>> /\ ~live'
  BY DEF HardStop, WorkerDeadline, controller, purse, upstream
<1> QED
  BY <1>1, LeaseCovers

(* The inference broker's own steps.                                       *)
LEMMA BrokerCovers ==
  ASSUME PurseInv, SendInv, Broker
  PROVE  SendInv' /\ UNCHANGED <<gw, cmds, live, key>>
<1>1. UNCHANGED <<gw, cmds, live, key>>
  BY DEF Broker, BrokerRestarts, BrokerPlaces, BrokerDrops, gateway, upstream
<1>2. UNCHANGED <<journal, ctl, cell, calls, settled>>
  BY OthersLeave
<1>3. Quiet
  BY <1>1, QuietGateway
<1> QED
  BY <1>1, <1>2, <1>3, AnswerCovers

-----------------------------------------------------------------------------
(* The key broker and upstream                                             *)

(* A frame that was handed over moves on.                                  *)
LEMMA FrameCovers ==
  ASSUME PurseInv, SendInv, NEW a \in Attempts, NEW s \in KeyStates,
         key[a] \in {"held", "sent"}, s # "none", key' = [key EXCEPT ![a] = s],
         UNCHANGED <<journal, ctl, cell, calls, settled, gw, cmds, live>>
  PROVE  SendInv'
<1>1. /\ key' \in [Attempts -> KeyStates] /\ key'[a] = s
      /\ \A b : b # a => key'[b] = key[b]
  BY DEF SendInv, GroundInv
<1>2. key[a] # "none" /\ key[a] \notin Lapsed
  BY DEF Lapsed
<1>3. Queued' = Queued /\ Granted' = Granted /\ Opening' = Opening /\ Unheld' = Unheld
  BY DEF Queued, Granted, Opening, Unheld
<1>4. GroundInv'
  BY <1>1, <1>2, <1>3 DEF SendInv, GroundInv
<1>5. OpenInv'
  BY <1>3 DEF SendInv, OpenInv
<1>6. PaidInv'
  <2>1. \A c \in calls : ChargeOK(c)'
    BY <1>1, <1>2 DEF SendInv, PaidInv, ChargeOK
  <2>2. \A b \in Attempts :
          /\ key'[b] # "none" => key[b] # "none"
          /\ key'[b] \notin Lapsed => key[b] \notin Lapsed
    BY <1>1, <1>2
  <2>3. journal.attempt.outcome = "notsent" => key'[journal.attempt.id] \in Lapsed
    BY <1>1, <1>2 DEF SendInv, PaidInv
  <2> QED
    BY <2>1, <2>2, <2>3 DEF SendInv, PaidInv, Idle
<1>7. GateInv'
  BY <1>1, <1>2, <1>3 DEF SendInv, GateInv
<1> QED
  BY <1>4, <1>5, <1>6, <1>7 DEF SendInv

(* Refusals, sends, replies and cuts.                                      *)
LEMMA UpstreamCovers ==
  ASSUME ~DiskFaults, PurseInv, SendInv, NEW a \in Attempts,
         BrokerRefuses(a) \/ UpstreamSend(a) \/ UpstreamReplies(a) \/ UpstreamCut(a)
         \/ UpstreamEnds(a) \/ TicketJournalFails(a)
  PROVE  SendInv'
<1>1. UNCHANGED <<journal, ctl, cell, calls, settled, gw, cmds, live>>
  BY DEF BrokerRefuses, UpstreamSend, UpstreamReplies, UpstreamCut, UpstreamEnds,
         TicketJournalFails, controller, gateway, purse
<1>2. CASE UNCHANGED key
  BY <1>1, <1>2, QuietGateway, AnswerCovers
<1>3. ASSUME NEW s \in KeyStates, key[a] \in {"held", "sent"}, s # "none",
             key' = [key EXCEPT ![a] = s]
      PROVE  SendInv'
  BY <1>1, <1>3, FrameCovers
<1>4. \/ UNCHANGED key
      \/ \E s \in KeyStates : /\ key[a] \in {"held", "sent"} /\ s # "none"
                              /\ key' = [key EXCEPT ![a] = s]
  BY DEF BrokerRefuses, UpstreamSend, UpstreamReplies, UpstreamCut, UpstreamEnds,
         TicketJournalFails, KeyStates, Received
<1> QED
  BY <1>2, <1>3, <1>4

-----------------------------------------------------------------------------
(* The gateway                                                             *)

(* The gateway moves; it reports at most once, and the truth.              *)
LEMMA GatewayCovers ==
  ASSUME PurseInv, SendInv, GatewayStep, UNCHANGED key,
         DOMAIN gw' = GatewayFields, gw'.att \in {0, gw.att},
         \E S : cmds' \in Seq(S),
         \A c \in Queued' :
           \/ c \in Queued
           \/ /\ c.att \in {0, gw.att}
              /\ c.op = "outcome" => /\ c.att # 0 /\ ~Granted'
                                     /\ c.out = "notsent" => key[c.att] \in Lapsed,
         Granted' => Granted /\ gw'.att = gw.att,
         gw'.reply = "permit" => gw'.pc = "reserve",
         gw'.pc = "before" => gw'.reply # "ok" \/ (gw.reply = "ok" /\ gw.pc = "before"),
         gw'.pc = "forward" => \/ gw.pc = "forward"
                               \/ gw.pc = "before" /\ gw.reply = "ok",
         gw'.pc \in {"inflight", "drop"} => gw'.att # 0,
         gw'.pc = "drop" /\ gw'.out = "notsent" => key[gw'.att] \in Lapsed
  PROVE  SendInv'
<1>1. UNCHANGED <<journal, ctl, cell, calls, settled, live>>
  BY DEF GatewayStep, controller, purse
<1>2. /\ gw.att \in 0..(journal.next - 1) /\ 0 \in 0..(journal.next - 1)
      /\ \A c \in Queued : c.att \in 0..(journal.next - 1)
  BY AttemptsBound DEF SendInv, GroundInv
<1>3. GroundInv'
  <2>1. gw'.att \in 0..(journal.next - 1) /\ \A c \in Queued' : c.att \in 0..(journal.next - 1)
    BY <1>2
  <2> QED
    BY <1>1, <2>1 DEF SendInv, GroundInv
<1>4. OpenInv'
  <2>1. Opening' = Opening /\ Unheld' = Unheld
    BY <1>1 DEF Opening, Unheld
  <2> QED
    BY <1>1, <2>1 DEF SendInv, OpenInv
<1>5. PaidInv'
  BY <1>1 DEF SendInv, PaidInv, ChargeOK, Idle
<1>6. GateInv'
  <2>1. Granted' => /\ gw'.att # 0 /\ key'[gw'.att] = "none"
                    /\ \A c \in Queued' : c.op = "outcome" => c.att # gw'.att
    BY DEF SendInv, GateInv
  <2>2. Granted' /\ live' => /\ journal.attempt.id = gw'.att /\ journal.attempt.outcome = "none"
                             /\ ctl.pc = "loop" /\ journal.pending = NoPending
                             /\ cell.by = gw'.att
    BY <1>1 DEF SendInv, GateInv
  <2>3. live' /\ (gw'.pc = "forward" \/ (gw'.pc = "before" /\ gw'.reply = "ok")) =>
          journal.attempt.sent
    BY <1>1 DEF SendInv, GateInv
  <2>4. \A c \in Queued' : c.op = "outcome" =>
          c.att # 0 /\ (c.out = "notsent" => key'[c.att] \in Lapsed)
    BY DEF SendInv, GateInv
  <2>5. live' => ctl'.mode = "prompt"
    BY <1>1 DEF SendInv, GateInv
  <2> QED
    BY <1>1, <2>1, <2>2, <2>3, <2>4, <2>5 DEF GateInv
<1> QED
  BY <1>3, <1>4, <1>5, <1>6 DEF SendInv

(* The gateway has no permit before or after.                              *)
LEMMA IdleGatewayCovers ==
  ASSUME PurseInv, SendInv, GatewayStep, UNCHANGED key,
         DOMAIN gw' = GatewayFields, gw'.att \in {0, gw.att},
         gw'.pc \notin {"before", "forward", "inflight", "drop"}, gw'.reply # "permit",
         cmds' = cmds \/ \E op, att, lease, out : /\ Post(op, att, lease, out) /\ op # "outcome"
                                                  /\ att \in {0, gw.att}
  PROVE  SendInv'
<1>1. ~Granted'
  BY DEF Granted
<1>2. /\ \E S : cmds' \in Seq(S)
      /\ \A c \in Queued' : c \in Queued \/ (c.op # "outcome" /\ c.att \in {0, gw.att})
  <2>1. CASE cmds' = cmds
    BY <2>1 DEF SendInv, GroundInv, Queued
  <2>2. ASSUME NEW op, NEW att, NEW lease, NEW out, Post(op, att, lease, out),
               op # "outcome", att \in {0, gw.att}
        PROVE  /\ \E S : cmds' \in Seq(S)
               /\ \A c \in Queued' : c \in Queued \/ (c.op # "outcome" /\ c.att \in {0, gw.att})
    BY <2>2, PostEffect DEF SendInv
  <2> QED
    BY <2>1, <2>2
<1> QED
  BY <1>1, <1>2, GatewayCovers

(* Leaving early: idle, or the guard is dropped first.                     *)
LEMMA LeaveEffect ==
  ASSUME DOMAIN gw = GatewayFields, Leave
  PROVE  /\ DOMAIN gw' = GatewayFields /\ gw'.att \in {0, gw.att}
         /\ gw'.pc \in {"idle", "release"} /\ gw'.reply = "none"
<1>1. CASE gw' = IdleGateway
  BY <1>1, IdleGatewayShape
<1>2. CASE gw' = [gw EXCEPT !.pc = "release", !.reply = "none"]
  <2>1. /\ DOMAIN gw' = GatewayFields /\ gw'.att = gw.att
        /\ gw'.pc = "release" /\ gw'.reply = "none"
    BY <1>2, Zenon DEF GatewayFields
  <2> QED
    BY <2>1
<1> QED
  BY <1>1, <1>2 DEF Leave

(* The steps of a gateway without a permit.                                *)
LEMMA WaitingCovers ==
  ASSUME PurseInv, SendInv,
         PrepareAnswered \/ PlanEnqueue \/ PlanPoll \/ ReleaseGuard \/ OutcomeAnswered
         \/ Deliver \/ DeliveryAnswered \/ (\E b \in Bodies : Accept(b))
  PROVE  SendInv'
<1>0. DOMAIN gw = GatewayFields
  BY DEF SendInv, GroundInv
<1>1. GatewayStep /\ UNCHANGED key
  BY DEF PrepareAnswered, PlanEnqueue, PlanPoll, ReleaseGuard, OutcomeAnswered, Deliver,
         DeliveryAnswered, Accept, upstream
<1>2. CASE Leave /\ UNCHANGED cmds
  BY <1>0, <1>1, <1>2, LeaveEffect, IdleGatewayCovers
<1>3. CASE gw' = IdleGateway /\ UNCHANGED cmds
  BY <1>1, <1>3, IdleGatewayShape, IdleGatewayCovers
<1>4. CASE /\ \/ gw' = [gw EXCEPT !.pc = "enqueue", !.reply = "none"]
              \/ gw' = [gw EXCEPT !.pc = "reserve", !.reply = "none"]
              \/ gw' = [gw EXCEPT !.pc = "deliver", !.reply = "none"]
           /\ cmds' = cmds \/ Post("reserve", 0, 0, "none")
  <2>1. /\ DOMAIN gw' = GatewayFields /\ gw'.att = gw.att /\ gw'.reply = "none"
        /\ gw'.pc = "enqueue" \/ gw'.pc = "reserve" \/ gw'.pc = "deliver"
    BY <1>0, <1>4, Zenon DEF GatewayFields
  <2> QED
    BY <1>1, <1>4, <2>1, IdleGatewayCovers
<1>5. CASE /\ gw.pc \in {"enqueue", "deliver"}
           /\ cmds' = cmds \/ \E r : Post("delivery", gw.att, 0, r)
           /\ \/ gw' = [gw EXCEPT !.pc = "queued"]
              \/ gw' = [gw EXCEPT !.pc = "delivery"]
  <2>1. /\ DOMAIN gw' = GatewayFields /\ gw'.att = gw.att /\ gw'.reply = gw.reply
        /\ gw'.pc \in {"queued", "delivery"}
    BY <1>0, <1>5 DEF GatewayFields
  <2>2. gw.reply # "permit"
    BY <1>5 DEF SendInv, GateInv
  <2> QED
    BY <1>1, <1>5, <2>1, <2>2, IdleGatewayCovers
<1>6. ASSUME NEW l, gw.pc = "queued", gw' = [gw EXCEPT !.pc = "reserve", !.lease = l],
             Post("reserve", 0, l, "none")
      PROVE  SendInv'
  <2>1. /\ DOMAIN gw' = GatewayFields /\ gw'.att = gw.att /\ gw'.reply = gw.reply
        /\ gw'.pc = "reserve"
    BY <1>0, <1>6, Zenon DEF GatewayFields
  <2>2. gw.reply # "permit"
    BY <1>6 DEF SendInv, GateInv
  <2> QED
    BY <1>1, <1>6, <2>1, <2>2, IdleGatewayCovers
<1>7. ASSUME NEW b, Accept(b)
      PROVE  SendInv'
  <2> DEFINE pc == IF Homelab THEN "prepare" ELSE "reserve"
  <2>1. /\ gw' = [IdleGateway EXCEPT !.pc = pc, !.prompt = journal.prompt, !.body = b]
        /\ Post(gw'.pc, 0, 0, "none")
    BY <1>7, Zenon DEF Accept
  <2>2. pc \in {"prepare", "reserve"}
    OBVIOUS
  <2> HIDE DEF pc
  <2>3. /\ DOMAIN gw' = GatewayFields /\ gw'.att = IdleGateway.att /\ gw'.pc = pc
        /\ gw'.reply = IdleGateway.reply
    BY <2>1, IdleGatewayShape, Zenon DEF GatewayFields
  <2>4. gw'.att = 0 /\ gw'.reply = "none"
    BY <2>3, IdleGatewayShape
  <2> QED
    BY <1>1, <2>1, <2>2, <2>3, <2>4, IdleGatewayCovers
<1>8. CASE PrepareAnswered
  BY <1>2, <1>4, <1>8, Zenon DEF PrepareAnswered
<1>9. CASE PlanEnqueue \/ Deliver
  BY <1>2, <1>5, <1>9, Zenon DEF PlanEnqueue, Deliver
<1>10. CASE PlanPoll
  <2>1. \/ Leave /\ UNCHANGED cmds
        \/ \E l : /\ gw.pc = "queued" /\ gw' = [gw EXCEPT !.pc = "reserve", !.lease = l]
                  /\ Post("reserve", 0, l, "none")
    BY <1>10, Zenon DEF PlanPoll
  <2> QED
    BY <1>2, <1>6, <2>1
<1>11. CASE ReleaseGuard \/ DeliveryAnswered
  BY <1>3, <1>11, Zenon DEF ReleaseGuard, DeliveryAnswered
<1>12. CASE OutcomeAnswered
  BY <1>2, <1>4, <1>12, Zenon DEF OutcomeAnswered
<1> QED
  BY <1>7, <1>8, <1>9, <1>10, <1>11, <1>12

(* A permitted gateway asks to send, reports that it did not, or leaves.   *)
LEMMA AnsweredCovers ==
  ASSUME PurseInv, SendInv, ReserveAnswered \/ BeforeAnswered
  PROVE  SendInv'
<1>0. DOMAIN gw = GatewayFields
  BY DEF SendInv, GroundInv
<1>1. GatewayStep /\ UNCHANGED key
  BY DEF ReserveAnswered, BeforeAnswered, upstream
<1>2. CASE Leave /\ UNCHANGED cmds
  BY <1>0, <1>1, <1>2, LeaveEffect, IdleGatewayCovers
<1>3. CASE /\ gw.pc = "reserve" /\ gw.reply = "permit"
           /\ gw' = [gw EXCEPT !.pc = "before", !.reply = "none"]
           /\ Post("before", gw.att, 0, "none")
  <2>1. /\ DOMAIN gw' = GatewayFields /\ gw'.att = gw.att /\ gw'.pc = "before"
        /\ gw'.reply = "none"
    BY <1>0, <1>3, Zenon DEF GatewayFields
  <2>2. Granted
    BY <1>3 DEF Granted
  <2>3. /\ \E S : cmds' \in Seq(S)
        /\ \A c \in Queued' : c \in Queued \/ (c.op = "before" /\ c.att = gw.att)
    BY <1>3, PostEffect DEF SendInv
  <2> QED
    BY <1>1, <2>1, <2>2, <2>3, GatewayCovers
<1>4. CASE /\ gw.pc = "before" /\ gw.reply = "ok"
           /\ gw' = [gw EXCEPT !.pc = "forward", !.reply = "none"] /\ UNCHANGED cmds
  <2>1. /\ DOMAIN gw' = GatewayFields /\ gw'.att = gw.att /\ gw'.pc = "forward"
        /\ gw'.reply = "none"
    BY <1>0, <1>4, Zenon DEF GatewayFields
  <2>2. Granted /\ Queued' = Queued /\ (\E S : cmds' \in Seq(S))
    BY <1>4 DEF Granted, Queued, SendInv, GroundInv
  <2> QED
    BY <1>1, <1>4, <2>1, <2>2, GatewayCovers
<1>5. CASE /\ gw.pc = "before"
           /\ gw' = [gw EXCEPT !.pc = "outcome", !.out = "refused", !.reply = "none"]
           /\ Post("outcome", gw.att, 0, "notsent")
  <2>1. /\ DOMAIN gw' = GatewayFields /\ gw'.att = gw.att /\ gw'.pc = "outcome"
        /\ gw'.reply = "none"
    BY <1>0, <1>5, Zenon DEF GatewayFields
  <2>2. gw.att # 0 /\ key[gw.att] \in Lapsed
    BY <1>5 DEF SendInv, GateInv, Granted, Lapsed
  <2>3. /\ \E S : cmds' \in Seq(S)
        /\ \A c \in Queued' : c \in Queued \/ (c.op = "outcome" /\ c.att = gw.att)
    BY <1>5, PostEffect DEF SendInv
  <2>4. ~Granted'
    BY <2>1 DEF Granted
  <2> QED
    BY <1>1, <2>1, <2>2, <2>3, <2>4, GatewayCovers
<1>6. \/ Leave /\ UNCHANGED cmds
      \/ /\ gw.pc = "reserve" /\ gw.reply = "permit"
         /\ gw' = [gw EXCEPT !.pc = "before", !.reply = "none"]
         /\ Post("before", gw.att, 0, "none")
      \/ /\ gw.pc = "before" /\ gw.reply = "ok"
         /\ gw' = [gw EXCEPT !.pc = "forward", !.reply = "none"] /\ UNCHANGED cmds
      \/ /\ gw.pc = "before"
         /\ gw' = [gw EXCEPT !.pc = "outcome", !.out = "refused", !.reply = "none"]
         /\ Post("outcome", gw.att, 0, "notsent")
  BY Zenon DEF ReserveAnswered, BeforeAnswered
<1> QED
  BY <1>2, <1>3, <1>4, <1>5, <1>6

(* The hand-over: under a live lease the purse is held for the attempt and *)
(* the journal has its send mark.                                          *)
LEMMA HandOverCovers ==
  ASSUME PurseInv, SendInv, GatewayStep, gw.pc = "forward", live,
         key' = [key EXCEPT ![gw.att] = "held"], gw' = [gw EXCEPT !.pc = "inflight"],
         UNCHANGED cmds
  PROVE  SendInv'
<1>1. UNCHANGED <<journal, ctl, cell, calls, settled, live>>
  BY DEF GatewayStep, controller, purse
<1>2. /\ gw.att # 0 /\ key[gw.att] = "none" /\ journal.attempt.id = gw.att
      /\ journal.attempt.outcome = "none" /\ journal.attempt.sent /\ ctl.pc = "loop"
      /\ journal.pending = NoPending /\ cell.by = gw.att
      /\ \A c \in Queued : c.op = "outcome" => c.att # gw.att
  BY DEF SendInv, GateInv, Granted
<1>3. gw.att \in Attempts
  BY <1>2, OpenedAttempt DEF SendInv, GroundInv
<1>4. calls = {}
  BY <1>2 DEF PurseInv, CallInv
<1>5. /\ DOMAIN gw' = GatewayFields /\ gw'.att = gw.att /\ gw'.pc = "inflight"
      /\ gw'.reply = gw.reply /\ gw'.out = gw.out
  BY DEF SendInv, GroundInv, GatewayFields
<1>6. /\ key' \in [Attempts -> KeyStates] /\ key'[gw.att] = "held"
      /\ \A b : b # gw.att => key'[b] = key[b]
  BY <1>3 DEF SendInv, GroundInv, KeyStates
<1>7. Queued' = Queued /\ ~Granted' /\ ~Opening' /\ ~Unheld'
  BY <1>1, <1>2, <1>5 DEF Queued, Granted, Opening, Unheld
<1>8. GroundInv'
  <2>1. \A a \in Attempts : a >= journal.next => a # gw.att
    BY <1>3, AttemptsBound DEF SendInv, GroundInv
  <2> QED
    BY <1>1, <1>5, <1>6, <1>7, <2>1 DEF SendInv, GroundInv
<1>9. OpenInv'
  BY <1>1, <1>2, <1>7, NoPendingOp DEF OpenInv
<1>10. PaidInv'
  BY <1>1, <1>2, <1>4, <1>6 DEF SendInv, PaidInv, Idle
<1>11. GateInv'
  <2>1. gw.reply # "permit"
    BY DEF SendInv, GateInv
  <2> QED
    BY <1>1, <1>2, <1>5, <1>6, <1>7, <2>1 DEF SendInv, GateInv
<1> QED
  BY <1>8, <1>9, <1>10, <1>11 DEF SendInv

(* The forward and its end, and the report of its outcome.                 *)
LEMMA ForwardCovers ==
  ASSUME PurseInv, SendInv, Forward \/ ForwardEnds \/ DropGuard
  PROVE  SendInv'
<1>0. DOMAIN gw = GatewayFields
  BY DEF SendInv, GroundInv
<1>1. GatewayStep
  BY DEF Forward, ForwardEnds, DropGuard
<1>2. CASE /\ gw.pc = "forward" /\ live
           /\ key' = [key EXCEPT ![gw.att] = "held"] /\ gw' = [gw EXCEPT !.pc = "inflight"]
           /\ UNCHANGED cmds
  BY <1>1, <1>2, HandOverCovers
<1>3. ASSUME NEW o, gw' = [gw EXCEPT !.pc = "drop", !.out = o], UNCHANGED <<key, cmds>>,
             gw.pc \in {"forward", "inflight"},
             o = "notsent" => gw.pc = "forward" \/ key[gw.att] \in {"refused", "sent_refused"}
      PROVE  SendInv'
  <2>1. /\ DOMAIN gw' = GatewayFields /\ gw'.att = gw.att /\ gw'.pc = "drop"
        /\ gw'.reply = gw.reply /\ gw'.out = o
    BY <1>0, <1>3, Zenon DEF GatewayFields
  <2>2. gw.att # 0 /\ gw.reply # "permit" /\ (gw.pc = "forward" => key[gw.att] = "none")
    BY <1>3 DEF SendInv, GateInv, Granted
  <2>3. gw.att \in Attempts
    BY <2>2, OpenedAttempt DEF SendInv, GroundInv
  <2>4. key[gw.att] \in KeyStates
    BY <2>3 DEF SendInv, GroundInv
  <2>5. o = "notsent" => key[gw.att] \in Lapsed
    BY <1>3, <2>2, <2>4 DEF KeyStates, Received, Lapsed
  <2>6. ~Granted' /\ Queued' = Queued /\ (\E S : cmds' \in Seq(S))
    BY <1>3, <2>1 DEF Granted, Queued, SendInv, GroundInv
  <2> QED
    BY <1>1, <1>3, <2>1, <2>2, <2>5, <2>6, GatewayCovers
<1>4. CASE DropGuard
  <2>1. /\ gw.pc = "drop" /\ gw' = [gw EXCEPT !.pc = "outcome", !.lease = 0, !.reply = "none"]
        /\ Post("outcome", gw.att, 0, gw.out) /\ UNCHANGED key
    BY <1>4 DEF DropGuard, upstream
  <2>2. /\ DOMAIN gw' = GatewayFields /\ gw'.att = gw.att /\ gw'.pc = "outcome"
        /\ gw'.reply = "none"
    BY <1>0, <2>1, Zenon DEF GatewayFields
  <2>3. gw.att # 0 /\ (gw.out = "notsent" => key[gw.att] \in Lapsed)
    BY <2>1 DEF SendInv, GateInv
  <2>4. /\ \E S : cmds' \in Seq(S)
        /\ \A c \in Queued' :
             c \in Queued \/ (c.op = "outcome" /\ c.att = gw.att /\ c.out = gw.out)
    BY <2>1, PostEffect DEF SendInv
  <2>5. ~Granted'
    BY <2>2 DEF Granted
  <2> QED
    BY <1>1, <2>1, <2>2, <2>3, <2>4, <2>5, GatewayCovers
<1>5. \/ /\ gw.pc = "forward" /\ live
         /\ key' = [key EXCEPT ![gw.att] = "held"] /\ gw' = [gw EXCEPT !.pc = "inflight"]
         /\ UNCHANGED cmds
      \/ \E o : /\ gw' = [gw EXCEPT !.pc = "drop", !.out = o] /\ UNCHANGED <<key, cmds>>
                /\ gw.pc \in {"forward", "inflight"}
                /\ o = "notsent" => \/ gw.pc = "forward"
                                    \/ key[gw.att] \in {"refused", "sent_refused"}
      \/ DropGuard
  <2>1. CASE Forward
    BY <2>1, Zenon DEF Forward
  <2>2. CASE ForwardEnds
    <3>1. gw.pc = "inflight" /\ UNCHANGED <<key, cmds>>
      BY <2>2 DEF ForwardEnds, upstream
    <3>2. \/ /\ key[gw.att] \in {"refused", "sent_refused"}
             /\ gw' = [gw EXCEPT !.pc = "drop", !.out = "notsent"]
          \/ key[gw.att] \in Received /\ gw' = [gw EXCEPT !.pc = "drop", !.out = key[gw.att]]
          \/ gw' = [gw EXCEPT !.pc = "drop", !.out = "uncertain"]
      BY <2>2, Zenon DEF ForwardEnds
    <3>3. key[gw.att] \in Received => key[gw.att] # "notsent"
      BY DEF Received
    <3> QED
      BY <3>1, <3>2, <3>3
  <2> QED
    BY <2>1, <2>2
<1> QED
  BY <1>2, <1>3, <1>4, <1>5

-----------------------------------------------------------------------------
(* The theorems                                                            *)

(* The invariant holds at the start.                                       *)
LEMMA SendInitially ==
  ASSUME Init
  PROVE  SendInv
<1>1. /\ journal.next = 1 /\ journal.attempt = NoAttempt /\ journal.pending = NoPending
      /\ ctl.pc = "loop" /\ live = FALSE /\ gw = IdleGateway /\ cmds = <<>>
      /\ cell.status = "detached" /\ cell.by = 0
      /\ calls = {} /\ settled = [a \in Attempts |-> <<>>] /\ key = [a \in Attempts |-> "none"]
  BY DEF Init
<1>2. Queued = {} /\ cmds \in Seq({})
  BY <1>1 DEF Queued
<1>3. GroundInv
  BY <1>1, <1>2, IdleGatewayShape, NoPendingOp, AttemptsBound DEF GroundInv, KeyStates
<1>4. OpenInv
  BY <1>1, NoPendingOp DEF OpenInv, Opening, Unheld
<1>5. PaidInv
  BY <1>1, NoPendingOp, AttemptsBound DEF PaidInv, Lapsed, Idle
<1>6. GateInv
  BY <1>1, <1>2, IdleGatewayShape DEF GateInv, Granted
<1> QED
  BY <1>3, <1>4, <1>5, <1>6 DEF SendInv

(* Every step keeps it.                                                    *)
LEMMA SendInductive ==
  ASSUME ~DiskFaults, PurseInv, SendInv, [Next]_vars
  PROVE  SendInv'
<1>1. CASE Controller
  BY <1>1, CallConfirmedCovers, CallFailsCovers, SettleAfreshCovers, RetryPendingCovers,
     PrepareCovers, ProviderReserveCovers, ReserveStepsCover, ReservePermitCovers,
     ReserveFailsCovers, BeforeSendCovers, OutcomeCovers, DeliveryCovers, ProviderSettleCovers,
     AfterSettleCovers, ForgottenCovers, RetireRefusedCovers, RecoverDeliveredCovers,
     FenceCovers, AuditCovers DEF Controller, CallReturns
<1>2. CASE Gateway \/ (\E b \in Bodies : Accept(b))
  BY <1>2, WaitingCovers, AnsweredCovers, ForwardCovers DEF Gateway
<1>3. CASE HardStop \/ WorkerDeadline
  BY <1>3, StopCovers
<1>4. CASE StartPrompt \/ EndPrompt \/ Drained \/ Disconnect \/ Crash \/ Recover
           \/ ReconcileAudited
  BY <1>4, PromptCovers
<1>5. CASE AbortRefused
  BY <1>5, AbortRefusedCovers
<1>6. CASE Native
  BY <1>6, CustodyCovers, OwnerCovers DEF Native
<1>7. CASE Broker
  BY <1>7, BrokerCovers
<1>8. CASE Upstream
  BY <1>8, UpstreamCovers DEF Upstream
<1>9. CASE UNCHANGED vars
  <2>1. UNCHANGED <<journal, ctl, cell, calls, settled, gw, live, cmds, key>>
    BY <1>9 DEF vars, controller, gateway, purse, upstream
  <2> QED
    BY <2>1, QuietGateway, AnswerCovers
<1> QED
  BY <1>1, <1>2, <1>3, <1>4, <1>5, <1>6, <1>7, <1>8, <1>9 DEF Next, Prompting, Operator

(* The inductive invariant of sends and settlements.                       *)
THEOREM SendInvariant == ASSUME ~DiskFaults PROVE Spec => [](PurseInv /\ SendInv)
<1>1. Init => SendInv
  BY SendInitially
<1>2. PurseInv /\ SendInv /\ [Next]_vars => SendInv'
  BY SendInductive
<1> QED
  BY <1>1, <1>2, PurseInvariant, PTL DEF Spec

(* The purse is charged at most once for an attempt, and the journal       *)
(* forgets an attempt that was sent only after it was charged the quote,   *)
(* however often a settle was prepared afresh, resubmitted, recovered or   *)
(* audited.                                                                *)
THEOREM SendsPaidOnce == ASSUME ~DiskFaults PROVE Spec => []EverySendPaidOnce
<1>1. PurseInv /\ SendInv => EverySendPaidOnce
  <2>1. SUFFICES ASSUME PurseInv, SendInv, NEW a \in Attempts
                 PROVE  /\ Len(settled[a]) <= 1
                        /\ WentUpstream(a) /\ journal.attempt.id # a => settled[a] = <<Quote>>
    BY DEF EverySendPaidOnce
  <2>2. settled[a] \in {<<>>, <<0>>, <<Quote>>}
    BY <2>1 DEF SendInv, GroundInv
  <2>3. WentUpstream(a) => cell.by = a \/ settled[a] = <<Quote>>
    BY <2>1 DEF SendInv, PaidInv, WentUpstream, Lapsed, Received
  <2>4. cell.by = a => journal.attempt.id = a
    BY <2>1, HeldIsAttempt, AttemptsBound DEF SendInv
  <2>5. Len(<<>>) =< 1 /\ Len(<<0>>) =< 1 /\ Len(<<Quote>>) =< 1
    BY DEF Quote
  <2>6. Len(settled[a]) =< 1
    BY <2>2, <2>5, Zenon
  <2> QED
    BY <2>3, <2>4, <2>6
<1> QED
  BY <1>1, SendInvariant, PTL

(* A settlement at zero is a promise that nothing was sent, and nothing    *)
(* will be, whoever made it: the gateway's report, or an audit of an       *)
(* attempt without send mark.                                              *)
THEOREM ZeroIsUnsent == ASSUME ~DiskFaults PROVE Spec => []ZeroMeansUnsent
<1>1. PurseInv /\ SendInv => ZeroMeansUnsent
  <2>1. SUFFICES ASSUME PurseInv, SendInv, NEW a \in Attempts, WentUpstream(a)
                 PROVE  \A i \in 1..Len(settled[a]) : settled[a][i] # 0
    BY DEF ZeroMeansUnsent
  <2>2. cell.by = a \/ settled[a] = <<Quote>>
    BY <2>1 DEF SendInv, PaidInv, WentUpstream, Lapsed, Received
  <2>3. cell.by = a => settled[a] = <<>>
    BY <2>1, AttemptsBound DEF SendInv, PaidInv
  <2> QED
    BY <2>2, <2>3 DEF Quote
<1> QED
  BY <1>1, SendInvariant, PTL

-----------------------------------------------------------------------------
(* The provider path implements PaidCalls                                  *)

(* A handler of the controller leaves purse and upstream to others, but    *)
(* for the call it submits again.                                          *)
LEMMA ControllerLeaves ==
  ASSUME PurseInv, SendInv,
         Controller \/ HardStop \/ WorkerDeadline \/ StartPrompt \/ EndPrompt \/ Drained
         \/ Disconnect \/ Crash \/ Recover \/ ReconcileAudited \/ AbortRefused
  PROVE  Promised
<1>1. ASSUME UNCHANGED <<cell, settled, key>> PROVE Promised
  BY <1>1 DEF Promised
<1>2. CASE CallReturns
  BY <1>1, <1>2 DEF CallReturns, CallConfirmed, CallRefused, CallBeforeSpawn, CallUncertain,
     SettleAfresh, purse, upstream
<1>3. CASE ProviderPrepare \/ ProviderReserve \/ ProviderBeforeSend \/ ProviderOutcome
           \/ ProviderDelivery \/ ReserveMark \/ ReservePermit \/ ReserveFails \/ ForgetAttempt
           \/ RetireRefused \/ RecoveredDelivery \/ FencedPurse \/ Aborted
  BY <1>1, <1>3 DEF ProviderPrepare, ProviderReserve, ProviderBeforeSend, ProviderOutcome,
     ProviderDelivery, ReserveMark, ReservePermit, ReserveFails, ReserveStops, ForgetAttempt,
     RetireRefused, RecoveredDelivery, FencedPurse, Aborted, purse, upstream
<1>4. ASSUME NEW j, NEW op, NEW label, NEW charge, NEW then,
             BeginCall(j, op, label, charge, then), UNCHANGED upstream
      PROVE  Promised
  BY <1>1, <1>4 DEF BeginCall, upstream
<1>5. CASE UNCHANGED <<purse, upstream>>
  BY <1>1, <1>5 DEF purse, upstream
<1>6. CASE ProviderSettle
  BY <1>4, <1>5, <1>6, Zenon DEF ProviderSettle
<1>7. CASE ReserveAttach \/ ReserveSubmit \/ AuditSettle
  BY <1>4, <1>7, Zenon DEF ReserveAttach, ReserveSubmit, AuditSettle
<1>8. ASSUME NEW pc, NEW label, AfterSettle(pc, label, "clear")
      PROVE  Promised
  BY <1>4, <1>5, <1>8, Zenon DEF AfterSettle
<1>9. CASE RecoverDelivered \/ FenceProvider
  BY <1>4, <1>5, <1>9, Zenon DEF RecoverDelivered, FenceProvider
<1>10. CASE AuditEvidence
  BY <1>4, <1>5, <1>10, Zenon DEF AuditEvidence
<1>11. CASE AbortRefused
  BY <1>4, <1>5, <1>11, Zenon DEF AbortRefused
<1>12. CASE RetryPending
  BY <1>12, RetryPendingCovers
<1>13. CASE HardStop \/ WorkerDeadline \/ StartPrompt \/ EndPrompt \/ Drained
            \/ Disconnect \/ Crash \/ Recover \/ ReconcileAudited
  BY <1>5, <1>13 DEF HardStop, WorkerDeadline, StartPrompt, EndPrompt, Drained, Disconnect,
     Crash, Recover, ReconcileAudited
<1> QED
  BY <1>2, <1>3, <1>6, <1>7, <1>8, <1>9, <1>10, <1>11, <1>12, <1>13 DEF Controller

(* What went upstream.                                                     *)
Went == {a \in Attempts : WentUpstream(a)}

(* A step of the purse is a step of the promise.                           *)
LEMMA PurseRefines ==
  ASSUME PurseInv, SendInv, Promised
  PROVE  [Promise!Next]_<<cell.by, Went, settled>>
<1>1. Went' = Went
  BY DEF Promised, Went, WentUpstream
<1>2. \A a \in Attempts : key[a] \in Lapsed => a \notin Went
  BY DEF Went, WentUpstream, Lapsed, Received
<1>3. CASE cell'.by = cell.by /\ UNCHANGED settled
  BY <1>1, <1>3
<1>4. CASE /\ cell.by = 0 /\ cell'.by \in Attempts /\ UNCHANGED settled
           /\ settled[cell'.by] = <<>> /\ key[cell'.by] = "none"
  <2>1. cell'.by \notin Went
    BY <1>2, <1>4 DEF Lapsed
  <2>2. Promise!Hold(cell'.by)
    BY <1>1, <1>4, <2>1 DEF Promise!Hold, Went
  <2> QED
    BY <1>4, <2>2 DEF Promise!Next
<1>5. CASE /\ cell.by \in Attempts /\ cell'.by = 0
           /\ \E ch \in {0, Quote} :
                /\ settled' = [settled EXCEPT ![cell.by] = <<ch>>]
                /\ ch = 0 => key[cell.by] \in Lapsed
  <2>1. PICK ch \in {0, Quote} : /\ settled' = [settled EXCEPT ![cell.by] = <<ch>>]
                                 /\ ch = 0 => key[cell.by] \in Lapsed
    BY <1>5
  <2>2. Promise!Settle(cell.by, ch)
    BY <1>1, <1>2, <1>5, <2>1 DEF Promise!Settle, Went
  <2> QED
    BY <1>5, <2>2 DEF Promise!Next
<1> QED
  BY <1>3, <1>4, <1>5 DEF Promised

(* A frame leaves under cover; elsewhere nothing leaves.                   *)
LEMMA FramesRefine ==
  ASSUME ~DiskFaults, PurseInv, SendInv,
         Gateway \/ Broker \/ Upstream \/ (\E b \in Bodies : Accept(b))
  PROVE  [Promise!Next]_<<cell.by, Went, settled>>
<1>1. cell'.by = cell.by /\ UNCHANGED settled
  BY OthersLeave
<1>2. CASE UNCHANGED key
  BY <1>1, <1>2 DEF Went, WentUpstream
<1>3. CASE Forward
  <2>1. gw.pc = "forward" /\ (key' = key \/ key' = [key EXCEPT ![gw.att] = "held"])
    BY <1>3 DEF Forward
  <2>2. gw.att # 0 /\ key[gw.att] = "none"
    BY <2>1 DEF SendInv, GateInv, Granted
  <2>3. gw.att \in Attempts /\ key \in [Attempts -> KeyStates]
    BY <2>2, OpenedAttempt DEF SendInv, GroundInv
  <2>4. \A a \in Attempts : WentUpstream(a)' <=> WentUpstream(a)
    BY <2>1, <2>2, <2>3 DEF WentUpstream, Received
  <2>5. Went' = Went
    BY <2>4 DEF Went
  <2> QED
    BY <1>1, <2>5
<1>4. ASSUME NEW a \in Attempts, UpstreamSend(a)
      PROVE  Promise!Leave(a)
  <2>1. key[a] = "held" /\ key' = [key EXCEPT ![a] = "sent"] /\ key \in [Attempts -> KeyStates]
    BY <1>4 DEF UpstreamSend, SendInv, GroundInv
  <2>2. cell.by = a \/ settled[a] = <<Quote>>
    BY <2>1 DEF SendInv, PaidInv, Lapsed
  <2>3. /\ \A b \in Attempts : WentUpstream(b)' <=> (WentUpstream(b) \/ b = a)
        /\ ~WentUpstream(a)
    BY <2>1 DEF WentUpstream, Received
  <2>4. Went' = Went \cup {a} /\ a \notin Went
    BY <2>3 DEF Went
  <2> QED
    BY <1>1, <2>2, <2>4 DEF Promise!Leave, Promise!Covered, Went
<1>5. ASSUME NEW a \in Attempts,
             BrokerRefuses(a) \/ UpstreamReplies(a) \/ UpstreamCut(a)
      PROVE  Went' = Went
  <2>1. PICK s : /\ key' = [key EXCEPT ![a] = s] /\ s \in {"refused", "cut"} \cup Received
                 /\ IF s = "refused" THEN key[a] = "held" ELSE key[a] = "sent"
    BY <1>5 DEF BrokerRefuses, UpstreamReplies, UpstreamCut, Received
  <2>2. key \in [Attempts -> KeyStates]
    BY DEF SendInv, GroundInv
  <2>3. \A b \in Attempts : WentUpstream(b)' <=> WentUpstream(b)
    BY <2>1, <2>2 DEF WentUpstream, Received
  <2> QED
    BY <2>3 DEF Went
<1>6. CASE Upstream
  <2>1. UNCHANGED key \/ \E a \in Attempts : \/ UpstreamSend(a) \/ BrokerRefuses(a)
                                            \/ UpstreamReplies(a) \/ UpstreamCut(a)
    BY <1>6 DEF Upstream, UpstreamEnds, TicketJournalFails
  <2> QED
    BY <1>1, <1>2, <1>4, <1>5, <2>1 DEF Promise!Next
<1>7. CASE Gateway \/ Broker \/ (\E b \in Bodies : Accept(b))
  <2>1. UNCHANGED key \/ Forward
    BY <1>7 DEF Gateway, PrepareAnswered, PlanEnqueue, PlanPoll, ReserveAnswered, BeforeAnswered,
       ForwardEnds, DropGuard, ReleaseGuard, OutcomeAnswered, Deliver, DeliveryAnswered,
       Accept, Broker, BrokerRestarts, BrokerPlaces, BrokerDrops, upstream
  <2> QED
    BY <1>2, <1>3, <2>1
<1> QED
  BY <1>6, <1>7

(* No request leaves without funds held or paid for it, an attempt is      *)
(* settled once, and for nothing only if it never left and never will:     *)
(* gateway, controller, custody and brokers together implement PaidCalls.  *)
THEOREM PromiseKept == ASSUME ~DiskFaults PROVE Spec => ImplementsPaidCalls
<1>1. Init => Promise!Init
  <2>1. SUFFICES ASSUME Init PROVE Promise!Init
    OBVIOUS
  <2>2. cell.by = 0 /\ settled = [a \in Attempts |-> <<>>] /\ key = [a \in Attempts |-> "none"]
    BY <2>1 DEF Init
  <2>3. {a \in Attempts : WentUpstream(a)} = {}
    BY <2>2 DEF WentUpstream, Received
  <2> QED
    BY <2>2, <2>3 DEF Promise!Init
<1>2. PurseInv /\ SendInv /\ [Next]_vars => [Promise!Next]_<<cell.by, Went, settled>>
  <2>1. SUFFICES ASSUME PurseInv, SendInv, [Next]_vars
                 PROVE  [Promise!Next]_<<cell.by, Went, settled>>
    OBVIOUS
  <2>2. CASE Promised
    BY <2>1, <2>2, PurseRefines
  <2>3. CASE Controller \/ HardStop \/ WorkerDeadline \/ StartPrompt \/ EndPrompt \/ Drained
             \/ Disconnect \/ Crash \/ Recover \/ ReconcileAudited \/ AbortRefused
    BY <2>1, <2>2, <2>3, ControllerLeaves
  <2>4. CASE Native
    BY <2>1, <2>2, <2>4, CustodyCovers, OwnerCovers DEF Native
  <2>5. CASE Gateway \/ Broker \/ Upstream \/ (\E b \in Bodies : Accept(b))
    BY <2>1, <2>5, FramesRefine
  <2>6. CASE UNCHANGED vars
    BY <2>2, <2>6 DEF vars, purse, upstream, Promised
  <2> QED
    BY <2>1, <2>3, <2>4, <2>5, <2>6 DEF Next, Prompting, Operator
<1>3. Spec => [](PurseInv /\ SendInv)
  BY SendInvariant
<1>4. Promise!Spec <=> Promise!Init /\ [][Promise!Next]_<<cell.by, Went, settled>>
  BY DEF Promise!Spec, Went
<1> QED
  BY <1>1, <1>2, <1>3, <1>4, PTL DEF Spec, ImplementsPaidCalls
-----------------------------------------------------------------------------
(* The inductive invariant of requests and replays                         *)

(* The request an attempt was opened for.                                  *)
Request(a) == <<hist[a].prompt, hist[a].body>>

(* The handlers of a prompt that end with the attempt forgotten.           *)
Settling == \/ ctl.pc \in {"settle", "settled", "clear"}
            \/ ctl.pc = "call" /\ ctl.then \in {"settled", "clear"}

(* Attempts and replay entries name their request; no request is of a      *)
(* prompt yet to come.                                                     *)
RequestInv ==
  /\ journal.prompt \in Nat /\ journal.child \in {0, journal.prompt}
  /\ DOMAIN hist = Attempts
  /\ \A a \in Attempts : /\ DOMAIN hist[a] = {"prompt", "body"}
                         /\ hist[a].prompt \in 0..journal.prompt
  /\ journal.attempt.id # 0 =>
       Request(journal.attempt.id) = <<journal.attempt.prompt, journal.attempt.body>>
  /\ \A r \in journal.replays : r.att # 0 =>
       r.att \in 1..(journal.next - 1) /\ Request(r.att) = <<r.prompt, r.body>>

(* What may have left is unlike all else that may have left or may leave.  *)
PairInv ==
  \A a, b \in Attempts :
    /\ a # b /\ key[a] \notin Lapsed
    /\ key[b] \notin Lapsed \/ b = journal.attempt.id
    => Request(a) # Request(b)

(* While a prompt runs, what may have left in it is the current attempt or *)
(* is found in the replay cache; so is an attempt about to be forgotten.   *)
PromptInv ==
  journal.child # 0 =>
    /\ ctl.pc = "loop" \/ Opening \/ Settling
    /\ Settling /\ journal.attempt.id # 0 => Delivered \/ key[journal.attempt.id] \in Lapsed
    /\ \A a \in Attempts :
         key[a] \notin Lapsed /\ a # journal.attempt.id /\ hist[a].prompt = journal.child =>
           Replays(hist[a].prompt, hist[a].body) # {}

OnceInv == RequestInv /\ PairInv /\ PromptInv

(* No request is opened, no frame handed over.                             *)
MemoryKept == /\ journal'.next = journal.next /\ journal'.prompt = journal.prompt
              /\ journal'.child \in {0, journal.child}
              /\ journal'.replays = journal.replays
HistoryKept == /\ DOMAIN hist' = Attempts
               /\ \A a \in Attempts :
                    /\ DOMAIN hist'[a] = DOMAIN hist[a]
                    /\ hist'[a].prompt = hist[a].prompt /\ hist'[a].body = hist[a].body
FramesKept == \A a \in Attempts : key'[a] \notin Lapsed => key[a] \notin Lapsed
RequestKept == /\ journal'.attempt.id = journal.attempt.id
               /\ journal'.attempt.prompt = journal.attempt.prompt
               /\ journal'.attempt.body = journal.attempt.body
               /\ journal'.attempt.lease = journal.attempt.lease
JournalKept == /\ journal'.next = journal.next /\ journal'.prompt = journal.prompt
               /\ journal'.child = journal.child /\ journal'.replays = journal.replays

(* A step that keeps the requests may forget the attempt once no prompt    *)
(* runs or it is being settled.                                            *)
LEMMA OnceFrame ==
  ASSUME GroundInv, OnceInv, MemoryKept, HistoryKept, FramesKept,
         RequestKept \/ (journal'.attempt = NoAttempt /\ (journal'.child = 0 \/ Settling)),
         journal'.child # 0 => /\ ctl'.pc = "loop" \/ Opening' \/ Settling'
                               /\ Settling' => Settling /\ RequestKept
  PROVE  OnceInv'
<1>1. \A a \in Attempts : Request(a)' = Request(a)
  BY DEF HistoryKept, Request
<1>2. \A a \in 1..(journal.next - 1) : a \in Attempts
  <2>1. journal.next \in 1..(MaxAttempts + 1) /\ MaxAttempts \in Nat
    BY AttemptsBound DEF GroundInv
  <2> QED
    BY <2>1, OpenedAttempt
<1>3. RequestInv'
  <2>1. journal'.prompt \in Nat /\ journal'.child \in {0, journal'.prompt} /\ DOMAIN hist' = Attempts
    BY DEF OnceInv, RequestInv, MemoryKept, HistoryKept
  <2>2. \A a \in Attempts : /\ DOMAIN hist'[a] = {"prompt", "body"}
                            /\ hist'[a].prompt \in 0..journal'.prompt
    BY DEF OnceInv, RequestInv, MemoryKept, HistoryKept
  <2>3. journal'.attempt.id # 0 =>
          Request(journal.attempt.id)' = <<journal'.attempt.prompt, journal'.attempt.body>>
    <3>1. SUFFICES ASSUME journal'.attempt.id # 0
                   PROVE  Request(journal.attempt.id)'
                          = <<journal'.attempt.prompt, journal'.attempt.body>>
      OBVIOUS
    <3>2. RequestKept
      BY <3>1, NoPendingOp
    <3>3. journal.attempt.id \in Attempts
      BY <3>1, <3>2, OpenedAttempt DEF GroundInv, RequestKept
    <3> QED
      BY <3>1, <3>2, <3>3 DEF RequestKept, HistoryKept, Request, OnceInv, RequestInv
  <2>4. \A r \in journal'.replays : r.att # 0 =>
          r.att \in 1..(journal'.next - 1) /\ Request(r.att)' = <<r.prompt, r.body>>
    BY <1>1, <1>2 DEF OnceInv, RequestInv, MemoryKept
  <2> QED
    BY <2>1, <2>2, <2>3, <2>4 DEF RequestInv
<1>4. PairInv'
  <2>1. SUFFICES ASSUME NEW a \in Attempts, NEW b \in Attempts, a # b, key'[a] \notin Lapsed,
                        key'[b] \notin Lapsed \/ b = journal'.attempt.id
                 PROVE  Request(a)' # Request(b)'
    BY DEF PairInv, Lapsed
  <2>2. key[a] \notin Lapsed
    BY <2>1 DEF FramesKept
  <2>3. key[b] \notin Lapsed \/ b = journal.attempt.id
    BY <2>1, NoPendingOp, AttemptsBound DEF FramesKept, RequestKept
  <2> QED
    BY <2>1, <2>2, <2>3, <1>1 DEF OnceInv, PairInv
<1>5. PromptInv'
  <2>1. SUFFICES ASSUME journal'.child # 0
                 PROVE  /\ ctl'.pc = "loop" \/ Opening' \/ Settling'
                        /\ Settling' /\ journal'.attempt.id # 0 =>
                             Delivered' \/ key'[journal'.attempt.id] \in Lapsed
                        /\ \A a \in Attempts :
                             key'[a] \notin Lapsed /\ a # journal'.attempt.id
                             /\ hist'[a].prompt = journal'.child =>
                               Replays(hist[a].prompt, hist[a].body)' # {}
    BY DEF PromptInv, Lapsed
  <2>2. journal'.child = journal.child /\ journal.child # 0
    BY <2>1 DEF MemoryKept
  <2>3. ASSUME Settling', journal'.attempt.id # 0
        PROVE  Delivered' \/ key'[journal'.attempt.id] \in Lapsed
    <3>1. Settling /\ RequestKept
      BY <2>1, <2>3
    <3>2. journal.attempt.id # 0 /\ journal.attempt.id \in Attempts
      BY <2>3, <3>1, OpenedAttempt DEF RequestKept, GroundInv
    <3>3. Delivered \/ key[journal.attempt.id] \in Lapsed
      BY <2>2, <3>1, <3>2 DEF OnceInv, PromptInv
    <3>4. CASE Delivered
      BY <3>1, <3>4 DEF Delivered, RequestKept, MemoryKept
    <3>5. CASE key[journal.attempt.id] \in Lapsed
      BY <3>1, <3>2, <3>5 DEF RequestKept, FramesKept
    <3> QED
      BY <3>3, <3>4, <3>5
  <2>4. ASSUME NEW a \in Attempts, key'[a] \notin Lapsed, a # journal'.attempt.id,
               hist'[a].prompt = journal'.child
        PROVE  Replays(hist[a].prompt, hist[a].body)' # {}
    <3>1. key[a] \notin Lapsed /\ hist[a].prompt = journal.child
      BY <2>2, <2>4 DEF FramesKept, HistoryKept
    <3>2. /\ hist'[a].prompt = hist[a].prompt /\ hist'[a].body = hist[a].body
          /\ journal'.replays = journal.replays
      BY DEF HistoryKept, MemoryKept
    <3>3. SUFFICES Replays(hist[a].prompt, hist[a].body) # {}
      BY <3>2 DEF Replays
    <3>4. CASE a # journal.attempt.id
      BY <2>2, <3>1, <3>4 DEF OnceInv, PromptInv
    <3>5. CASE a = journal.attempt.id
      <4>1. Settling
        BY <2>1, <2>4, <3>5 DEF RequestKept
      <4>2. Delivered
        BY <2>2, <3>1, <3>5, <4>1, AttemptsBound DEF OnceInv, PromptInv
      <4>3. PICK r \in journal.replays : r.att = a
        BY <3>5, <4>2 DEF Delivered
      <4>4. <<hist[a].prompt, hist[a].body>> = <<r.prompt, r.body>>
        BY <4>3, AttemptsBound DEF OnceInv, RequestInv, Request
      <4> QED
        BY <4>3, <4>4 DEF Replays
    <3> QED
      BY <3>4, <3>5
  <2> QED
    BY <2>1, <2>3, <2>4
<1> QED
  BY <1>3, <1>4, <1>5 DEF OnceInv

(* A step outside a prompt keeps the requests, or forgets the attempt.     *)
LEMMA OutsideOnce ==
  ASSUME GroundInv, OnceInv, journal.child = 0, MemoryKept, UNCHANGED <<key, hist>>,
         RequestKept \/ journal'.attempt = NoAttempt
  PROVE  OnceInv'
<1>1. HistoryKept /\ FramesKept /\ journal'.child = 0
  BY DEF HistoryKept, FramesKept, MemoryKept, OnceInv, RequestInv
<1> QED
  BY <1>1, OnceFrame

(* The steps a prompt never takes.                                         *)
LEMMA OutsidePrompt ==
  ASSUME OnceInv,
         \/ ctl.pc \in {"pending", "retire", "deliver", "cleared", "fence", "fenced", "audit",
                        "audit_settle", "audited", "aborted"}
         \/ ctl.pc = "call" /\ ctl.then \in {"cleared", "fenced", "audit_settle", "audited",
                                             "aborted"}
  PROVE  journal.child = 0
BY DEF OnceInv, PromptInv, Opening, Settling

(* A native call begins.                                                   *)
LEMMA BeginOnce ==
  ASSUME PurseInv, GroundInv, OnceInv, UNCHANGED <<key, hist>>,
         NEW j, NEW op, NEW label, NEW charge, NEW then,
         BeginCall(j, op, label, charge, then), op # "none",
         DOMAIN j = JournalFields, DOMAIN j.hold = HoldFields,
         j.next = journal.next, j.prompt = journal.prompt, j.child = journal.child,
         j.replays = journal.replays, j.attempt.id = journal.attempt.id,
         j.attempt.prompt = journal.attempt.prompt, j.attempt.body = journal.attempt.body,
         j.attempt.lease = journal.attempt.lease,
         journal.child # 0 =>
           then \in {"mark", "permit"} \/ (then \in {"settled", "clear"} /\ Settling)
  PROVE  OnceInv'
<1>1. /\ journal'.attempt = j.attempt /\ journal'.next = j.next
      /\ journal'.replays = j.replays /\ journal'.prompt = j.prompt /\ journal'.child = j.child
      /\ ctl'.pc = "call" /\ ctl'.then = then
  BY BeginCallEffect DEF PurseInv
<1>2. MemoryKept /\ RequestKept /\ HistoryKept /\ FramesKept
  BY <1>1 DEF MemoryKept, RequestKept, HistoryKept, FramesKept, OnceInv, RequestInv
<1>3. journal'.child # 0 => /\ ctl'.pc = "loop" \/ Opening' \/ Settling'
                            /\ Settling' => Settling /\ RequestKept
  BY <1>1, <1>2 DEF Opening, Settling
<1> QED
  BY <1>2, <1>3, OnceFrame

(* A native call of the journal as it is.                                  *)
LEMMA BeginsOnce ==
  ASSUME PurseInv, GroundInv, OnceInv, UNCHANGED <<key, hist>>,
         NEW op, NEW label, NEW charge, NEW then,
         BeginCall(journal, op, label, charge, then), op # "none",
         journal.child # 0 =>
           then \in {"mark", "permit"} \/ (then \in {"settled", "clear"} /\ Settling)
  PROVE  OnceInv'
BY BeginOnce DEF PurseInv, Shapes

(* The controller moves on and leaves the journal as it is.                *)
LEMMA MovesOnce ==
  ASSUME GroundInv, OnceInv, UNCHANGED <<journal, key, hist>>,
         journal.child # 0 => /\ ctl'.pc = "loop" \/ Opening' \/ Settling'
                              /\ Settling' => Settling
  PROVE  OnceInv'
<1>1. MemoryKept /\ RequestKept /\ HistoryKept /\ FramesKept
  BY DEF MemoryKept, RequestKept, HistoryKept, FramesKept, OnceInv, RequestInv
<1> QED
  BY <1>1, OnceFrame

(* A handler ends, or the next step of the same handler follows.           *)
LEMMA EndsOnce ==
  ASSUME PurseInv, GroundInv, OnceInv, UNCHANGED <<journal, key, hist>>, ctl' = Back
  PROVE  OnceInv'
<1>1. ctl'.pc = "loop"
  BY BackEffect DEF PurseInv
<1>2. ~Settling'
  BY <1>1 DEF Settling
<1> QED
  BY <1>1, <1>2, MovesOnce

(* A call that returns, or is retried, leaves requests and replays alone.  *)
LEMMA CallReturnsEffect ==
  ASSUME Shapes, CallReturns \/ RetryPending
  PROVE  journal'.attempt = journal.attempt /\ JournalKept
<1>1. CASE journal' = Confirmed
  BY <1>1, ConfirmedEffect DEF JournalKept
<1>2. CASE journal' = RefusedCall
  BY <1>2, DroppedEffect DEF RefusedCall, JournalKept
<1>3. CASE CallBeforeSpawn
  BY <1>3, DroppedEffect DEF CallBeforeSpawn, JournalKept
<1>4. CASE UNCHANGED journal
  BY <1>4 DEF JournalKept
<1>5. CASE journal' = [journal EXCEPT !.pending = NoPending]
  BY <1>5 DEF Shapes, JournalFields, JournalKept
<1>6. CASE CallReturns
  BY <1>1, <1>2, <1>3, <1>4, <1>5, <1>6 DEF CallReturns, CallConfirmed, CallRefused,
     CallUncertain, SettleAfresh
<1>7. CASE RetryPending
  BY <1>1, <1>2, <1>4, <1>5, <1>7, Zenon DEF RetryPending
<1> QED
  BY <1>6, <1>7

(* A call returns: confirmed, failed, or a settle to prepare afresh.       *)
LEMMA CallReturnsOnce ==
  ASSUME PurseInv, GroundInv, OnceInv, CallReturns
  PROVE  OnceInv'
<1>0. Shapes /\ ctl.pc = "call"
  BY DEF CallReturns, CallConfirmed, CallRefused, CallBeforeSpawn, CallUncertain, SettleAfresh,
     PurseInv
<1>1. UNCHANGED <<key, hist>>
  BY DEF CallReturns, CallConfirmed, CallRefused, CallBeforeSpawn, CallUncertain, SettleAfresh,
     upstream, ghost
<1>2. HistoryKept /\ FramesKept
  BY <1>1 DEF HistoryKept, FramesKept, OnceInv, RequestInv
<1>3. journal.child # 0 => ctl.then \in {"mark", "permit", "settled", "clear"}
  BY <1>0 DEF OnceInv, PromptInv, Opening, Settling
<1>4. journal'.attempt = journal.attempt /\ JournalKept
  BY <1>0, CallReturnsEffect
<1>5. MemoryKept /\ RequestKept /\ journal'.child = journal.child
  BY <1>4 DEF MemoryKept, RequestKept, JournalKept
<1>6. journal.child # 0 => /\ ctl'.pc = "loop" \/ Opening' \/ Settling'
                           /\ Settling' => Settling
  <2>1. SUFFICES ASSUME journal.child # 0
                 PROVE  (ctl'.pc = "loop" \/ Opening' \/ Settling') /\ (Settling' => Settling)
    OBVIOUS
  <2>2. CASE ctl' = Goto(ctl.then)
    BY <1>0, <1>3, <2>1, <2>2, GotoEffect DEF Opening, Settling
  <2>3. CASE CallFailed
    <3>1. ctl' = Back
      BY <1>3, <2>1, <2>3 DEF CallFailed
    <3>2. ctl'.pc = "loop"
      BY <1>0, <3>1, BackEffect
    <3> QED
      BY <3>2 DEF Settling
  <2>4. CASE SettleAfresh
    <3>1. ctl'.pc = "settle"
      BY <1>0, <2>4, GotoEffect DEF SettleAfresh
    <3>2. CallOK(PendingCall)
      BY <1>0, PendingIsCall DEF PurseInv, PcInv
    <3>3. journal.pending.op = "settle"
      BY <2>4, <3>2 DEF SettleAfresh, CallOK
    <3>4. ctl.then = "settled"
      BY <1>0, <1>3, <2>1, <3>3 DEF PurseInv, PcInv, ThenInv
    <3> QED
      BY <1>0, <3>1, <3>4 DEF Settling
  <2> QED
    BY <2>2, <2>3, <2>4 DEF CallReturns, CallConfirmed, CallRefused, CallBeforeSpawn, CallUncertain
<1> QED
  BY <1>2, <1>5, <1>6, OnceFrame

(* retry_pending_slot.                                                     *)
LEMMA RetryPendingOnce ==
  ASSUME PurseInv, GroundInv, OnceInv, RetryPending
  PROVE  OnceInv'
<1>1. Shapes /\ journal.child = 0 /\ UNCHANGED <<key, hist>>
  BY OutsidePrompt DEF RetryPending, upstream, ghost, PurseInv
<1>2. journal'.attempt = journal.attempt /\ JournalKept
  BY <1>1, CallReturnsEffect
<1> QED
  BY <1>1, <1>2, OutsideOnce DEF MemoryKept, RequestKept, JournalKept

(* An answer to a command leaves the controller's memory alone.            *)
LEMMA PrepareOnce ==
  ASSUME GroundInv, OnceInv, ProviderPrepare
  PROVE  OnceInv'
<1>1. UNCHANGED <<journal, ctl, key, hist>>
  BY DEF ProviderPrepare, controller, upstream, ghost
<1>2. Opening' = Opening /\ Settling' = Settling
  BY <1>1 DEF Opening, Settling
<1> QED
  BY <1>1, <1>2, MovesOnce DEF OnceInv, PromptInv

(* provider_reserve opens an attempt only for a request of the running     *)
(* prompt that the replay cache does not know.                             *)
LEMMA OpensOnce ==
  ASSUME PurseInv, GroundInv, OnceInv, NEW c,
         LeaseCurrent(c.prompt), journal.attempt = NoAttempt, Replays(c.prompt, c.body) = {},
         journal.next =< MaxAttempts, ctl' = Goto("opened"), UNCHANGED key,
         journal' = [journal EXCEPT !.next = @ + 1, !.settlement = 0,
                      !.attempt = [NoAttempt EXCEPT !.id = journal.next, !.prompt = c.prompt,
                                                    !.body = c.body, !.lease = c.lease]],
         hist' = [hist EXCEPT ![journal.next] =
                   [prompt |-> c.prompt, body |-> c.body]]
  PROVE  OnceInv'
<1>0. PICK n : n = journal.next
  OBVIOUS
<1> DEFINE q == [prompt |-> c.prompt, body |-> c.body]
           a == [NoAttempt EXCEPT !.id = n, !.prompt = c.prompt,
                                  !.body = c.body, !.lease = c.lease]
<1>1. /\ a.id = n /\ a.prompt = c.prompt /\ a.body = c.body
  BY Zenon DEF NoAttempt
<1>2. /\ DOMAIN q = {"prompt", "body"} /\ q.prompt = c.prompt /\ q.body = c.body
  OBVIOUS
<1>3. /\ journal'.next = n + 1 /\ journal'.attempt = a /\ journal'.prompt = journal.prompt
      /\ journal'.child = journal.child /\ journal'.replays = journal.replays
  <2>1. journal' = [journal EXCEPT !.next = n + 1, !.settlement = 0, !.attempt = a]
    BY <1>0
  <2> HIDE DEF a
  <2> QED
    BY <2>1, Zenon DEF PurseInv, Shapes, JournalFields
<1> HIDE DEF q, a
<1>4. /\ MaxAttempts \in Nat /\ n \in 1..(MaxAttempts + 1) /\ n \in Attempts
      /\ n \in Nat /\ n # 0
  BY <1>0, AttemptsBound DEF GroundInv
<1>5. key[n] \in Lapsed
  BY <1>0, <1>4 DEF GroundInv, Lapsed
<1>6. /\ hist'[n] = q /\ DOMAIN hist' = Attempts
      /\ \A b \in Attempts : b # n => hist'[b] = hist[b]
  BY <1>0, <1>4 DEF OnceInv, RequestInv, q
<1>7. journal.child = c.prompt /\ c.prompt # 0 /\ c.prompt = journal.prompt /\ journal.prompt \in Nat
  BY DEF LeaseCurrent, OnceInv, RequestInv
<1>8. RequestInv'
  <2>1. \A b \in Attempts : /\ DOMAIN hist'[b] = {"prompt", "body"}
                            /\ hist'[b].prompt \in 0..journal'.prompt
    <3>1. SUFFICES ASSUME NEW b \in Attempts
                   PROVE  /\ DOMAIN hist'[b] = {"prompt", "body"}
                          /\ hist'[b].prompt \in 0..journal.prompt
      BY <1>3
    <3>2. CASE b = n
      BY <1>2, <1>6, <1>7, <3>2
    <3>3. CASE b # n
      BY <1>6, <3>3 DEF OnceInv, RequestInv
    <3> QED
      BY <3>2, <3>3
  <2>2. Request(n)' = <<journal'.attempt.prompt, journal'.attempt.body>>
    BY <1>1, <1>2, <1>3, <1>6 DEF Request
  <2>3. \A r \in journal'.replays : r.att # 0 =>
          r.att \in 1..(journal'.next - 1) /\ Request(r.att)' = <<r.prompt, r.body>>
    <3>1. \A r \in journal.replays : r.att # 0 =>
            r.att \in 1..(n - 1) /\ Request(r.att) = <<r.prompt, r.body>>
      BY <1>0 DEF OnceInv, RequestInv
    <3>2. \A x \in 1..(n - 1) : x \in 1..n /\ x # n /\ x \in Attempts
      <4>1. \A x \in 1..(n - 1) : x \in 1..n /\ x # n /\ x \in Nat /\ x # 0 /\ x =< MaxAttempts
        BY <1>4
      <4> QED
        BY <4>1, AttemptsBound, Zenon
    <3>3. journal'.next - 1 = n
      BY <1>3, <1>4
    <3> QED
      BY <1>3, <1>6, <3>1, <3>2, <3>3 DEF Request
  <2> QED
    BY <1>1, <1>3, <1>6, <1>7, <2>1, <2>2, <2>3 DEF RequestInv, Request
<1>9. \A b \in Attempts : key[b] \notin Lapsed => b # n /\ Request(b) # <<c.prompt, c.body>>
  <2>1. SUFFICES ASSUME NEW b \in Attempts, key[b] \notin Lapsed,
                        Request(b) = <<c.prompt, c.body>>
                 PROVE  FALSE
    BY <1>5
  <2>2. hist[b].prompt = c.prompt /\ hist[b].body = c.body
    BY <2>1 DEF Request
  <2>3. b # journal.attempt.id
    BY NoPendingOp, AttemptsBound
  <2> QED
    BY <1>7, <2>1, <2>2, <2>3 DEF OnceInv, PromptInv
<1>10. PairInv'
  <2>1. SUFFICES ASSUME NEW x \in Attempts, NEW y \in Attempts, x # y, key[x] \notin Lapsed,
                        key[y] \notin Lapsed \/ y = n
                 PROVE  Request(x)' # Request(y)'
    BY <1>1, <1>3 DEF PairInv, Lapsed
  <2>2. x # n /\ Request(x)' = Request(x) /\ Request(x) # <<c.prompt, c.body>>
    BY <1>6, <1>9, <2>1 DEF Request
  <2>3. CASE y = n
    <3>1. Request(y)' = <<c.prompt, c.body>>
      BY <1>2, <1>6, <2>3 DEF Request
    <3> QED
      BY <2>2, <3>1
  <2>4. CASE y # n
    <3>1. Request(y)' = Request(y) /\ key[y] \notin Lapsed
      BY <1>6, <2>1, <2>4 DEF Request
    <3> QED
      BY <2>1, <2>2, <3>1 DEF OnceInv, PairInv
  <2> QED
    BY <2>3, <2>4
<1>11. PromptInv'
  <2>1. ctl'.pc = "opened"
    BY GotoEffect DEF PurseInv
  <2>2. Opening' /\ ~Settling'
    BY <2>1 DEF Opening, Settling
  <2>3. ASSUME NEW x \in Attempts, key'[x] \notin Lapsed, x # journal'.attempt.id,
               hist'[x].prompt = journal'.child
        PROVE  Replays(hist[x].prompt, hist[x].body)' # {}
    <3>1. hist'[x] = hist[x] /\ x # journal.attempt.id
      BY <1>1, <1>3, <1>6, <2>3, NoPendingOp, AttemptsBound
    <3>2. Replays(hist[x].prompt, hist[x].body) # {}
      BY <1>3, <1>7, <2>3, <3>1 DEF OnceInv, PromptInv
    <3> QED
      BY <1>3, <3>1, <3>2 DEF Replays
  <2> QED
    BY <2>2, <2>3 DEF PromptInv, Lapsed
<1> QED
  BY <1>8, <1>10, <1>11 DEF OnceInv

(* provider_reserve.                                                       *)
LEMMA ProviderReserveOnce ==
  ASSUME PurseInv, GroundInv, OnceInv, ProviderReserve
  PROVE  OnceInv'
<1> DEFINE c == Head(cmds)
<1>1. UNCHANGED key
  BY DEF ProviderReserve, upstream
<1>2. CASE UNCHANGED <<journal, ctl, hist>>
  <2>1. Opening' = Opening /\ Settling' = Settling
    BY <1>2 DEF Opening, Settling
  <2> QED
    BY <1>1, <1>2, <2>1, MovesOnce DEF OnceInv, PromptInv
<1>3. \/ UNCHANGED <<journal, ctl, hist>>
      \/ /\ LeaseCurrent(c.prompt) /\ ~Unresolved /\ Replays(c.prompt, c.body) = {}
         /\ ~(journal.next > MaxAttempts)
         /\ journal' = [journal EXCEPT !.next = @ + 1, !.settlement = 0,
                 !.attempt = [NoAttempt EXCEPT !.id = journal.next, !.prompt = c.prompt,
                                               !.body = c.body, !.lease = c.lease]]
         /\ hist' = [hist EXCEPT ![journal.next] =
                      [prompt |-> c.prompt, body |-> c.body]]
         /\ ctl' = Goto("opened")
  BY Zenon DEF ProviderReserve, controller, ghost
<1>4. ~(journal.next > MaxAttempts) => journal.next =< MaxAttempts
  BY AttemptsBound DEF GroundInv
<1>5. ~Unresolved => journal.attempt = NoAttempt
  BY DEF Unresolved
<1> HIDE DEF c
<1> QED
  BY <1>1, <1>2, <1>3, <1>4, <1>5, OpensOnce

(* The rest of provider_reserve.                                           *)
LEMMA ReserveStepsOnce ==
  ASSUME PurseInv, GroundInv, OnceInv,
         ReserveAttach \/ ReserveMark \/ ReserveSubmit \/ ReservePermit \/ ReserveFails
  PROVE  OnceInv'
<1>1. UNCHANGED <<key, hist>>
  BY DEF ReserveAttach, ReserveMark, ReserveSubmit, ReservePermit, ReserveFails, ReserveStops,
     upstream, ghost
<1>2. CASE ReserveAttach
  BY <1>1, <1>2, BeginsOnce DEF ReserveAttach
<1>3. CASE ReserveSubmit
  BY <1>1, <1>3, BeginsOnce DEF ReserveSubmit
<1>4. CASE ReservePermit \/ ReserveFails
  BY <1>1, <1>4, EndsOnce DEF ReservePermit, ReserveFails, ReserveStops
<1>5. CASE ReserveMark
  <2>1. /\ journal'.attempt = journal.attempt /\ journal'.next = journal.next
        /\ journal'.replays = journal.replays /\ journal'.prompt = journal.prompt
        /\ journal'.child = journal.child
    BY <1>5 DEF ReserveMark, PurseInv, Shapes, JournalFields
  <2>2. ctl'.pc = "reserve"
    BY <1>5, GotoEffect DEF ReserveMark, PurseInv
  <2>3. Opening' /\ ~Settling'
    BY <2>2 DEF Opening, Settling
  <2>4. MemoryKept /\ RequestKept /\ HistoryKept /\ FramesKept
    BY <1>1, <2>1 DEF MemoryKept, RequestKept, HistoryKept, FramesKept, OnceInv, RequestInv
  <2> QED
    BY <2>3, <2>4, OnceFrame
<1> QED
  BY <1>2, <1>3, <1>4, <1>5

(* provider_before_send marks the attempt.                                 *)
LEMMA BeforeSendRequest ==
  ASSUME Shapes, ProviderBeforeSend
  PROVE  JournalKept /\ RequestKept /\ (UNCHANGED journal \/ MaySend(Head(cmds)))
<1>1. \/ UNCHANGED journal
      \/ MaySend(Head(cmds)) /\ journal' = [journal EXCEPT !.attempt.sent = TRUE]
  BY Zenon DEF ProviderBeforeSend
<1>2. CASE UNCHANGED journal
  BY <1>2 DEF JournalKept, RequestKept
<1>3. CASE MaySend(Head(cmds)) /\ journal' = [journal EXCEPT !.attempt.sent = TRUE]
  <2>1. JournalKept /\ journal'.attempt = [journal.attempt EXCEPT !.sent = TRUE]
    BY <1>3 DEF Shapes, JournalFields, JournalKept
  <2> QED
    BY <1>3, <2>1 DEF Shapes, AttemptFields, RequestKept
<1> QED
  BY <1>1, <1>2, <1>3

LEMMA BeforeSendOnce ==
  ASSUME PurseInv, GroundInv, OnceInv, ProviderBeforeSend
  PROVE  OnceInv'
<1>1. UNCHANGED <<ctl, key, hist>>
  BY DEF ProviderBeforeSend, upstream, ghost
<1>2. JournalKept /\ RequestKept
  BY BeforeSendRequest DEF PurseInv
<1>3. Opening' = Opening /\ Settling' = Settling
  BY <1>1 DEF Opening, Settling
<1>4. MemoryKept /\ HistoryKept /\ FramesKept
  BY <1>1, <1>2 DEF MemoryKept, JournalKept, HistoryKept, FramesKept, OnceInv, RequestInv
<1> QED
  BY <1>1, <1>2, <1>3, <1>4, OnceFrame DEF OnceInv, PromptInv, JournalKept

(* A handler starts to settle the attempt once its reply is in the cache   *)
(* or its frame lapsed.                                                    *)
LEMMA SettlesOnce ==
  ASSUME PurseInv, GroundInv, OnceInv, UNCHANGED key, HistoryKept, RequestKept,
         journal'.next = journal.next, journal'.prompt = journal.prompt,
         journal'.child = journal.child, journal.replays \subseteq journal'.replays,
         \A r \in journal'.replays : r \in journal.replays \/
           /\ r.att = journal.attempt.id
           /\ r.prompt = journal.attempt.prompt /\ r.body = journal.attempt.body,
         ctl'.pc = "settle",
         \/ \E r \in journal'.replays : r.att = journal.attempt.id
         \/ journal.attempt.id # 0 => key[journal.attempt.id] \in Lapsed
  PROVE  OnceInv'
<1>1. Settling' /\ ~Opening'
  BY DEF Settling, Opening
<1>2. \A a \in 1..(journal.next - 1) : a \in Attempts
  <2>1. journal.next \in 1..(MaxAttempts + 1) /\ MaxAttempts \in Nat
    BY AttemptsBound DEF GroundInv
  <2> QED
    BY <2>1, OpenedAttempt
<1>3. \A a \in Attempts : Request(a)' = Request(a)
  BY DEF HistoryKept, Request
<1>4. journal.attempt.id # 0 =>
        journal.attempt.id \in 1..(journal.next - 1) /\ journal.attempt.id \in Attempts
  BY OpenedAttempt DEF GroundInv
<1>5. RequestInv'
  <2>1. \A a \in Attempts : /\ DOMAIN hist'[a] = {"prompt", "body"}
                            /\ hist'[a].prompt \in 0..journal'.prompt
    BY DEF OnceInv, RequestInv, HistoryKept
  <2>2. \A r \in journal'.replays : r.att # 0 =>
          r.att \in 1..(journal'.next - 1) /\ Request(r.att)' = <<r.prompt, r.body>>
    <3>1. SUFFICES ASSUME NEW r \in journal'.replays, r.att # 0
                   PROVE  r.att \in 1..(journal.next - 1) /\ Request(r.att)' = <<r.prompt, r.body>>
      OBVIOUS
    <3>2. r.att \in 1..(journal.next - 1) /\ Request(r.att) = <<r.prompt, r.body>>
      BY <1>4, <3>1 DEF OnceInv, RequestInv
    <3> QED
      BY <1>2, <1>3, <3>2
  <2>3. journal'.attempt.id # 0 =>
          Request(journal.attempt.id)' = <<journal'.attempt.prompt, journal'.attempt.body>>
    BY <1>4 DEF OnceInv, RequestInv, HistoryKept, RequestKept, Request
  <2> QED
    BY <2>1, <2>2, <2>3 DEF OnceInv, RequestInv, HistoryKept
<1>6. PairInv'
  BY <1>3 DEF OnceInv, PairInv, RequestKept
<1>7. PromptInv'
  <2>1. SUFFICES ASSUME journal.child # 0
                 PROVE  /\ journal'.attempt.id # 0 =>
                             Delivered' \/ key'[journal'.attempt.id] \in Lapsed
                        /\ \A a \in Attempts :
                             key'[a] \notin Lapsed /\ a # journal'.attempt.id
                             /\ hist'[a].prompt = journal'.child =>
                               Replays(hist[a].prompt, hist[a].body)' # {}
    BY <1>1 DEF PromptInv, Lapsed
  <2>2. journal'.attempt.id # 0 => Delivered' \/ key'[journal'.attempt.id] \in Lapsed
    BY DEF Delivered, RequestKept
  <2>3. ASSUME NEW a \in Attempts, key'[a] \notin Lapsed, a # journal'.attempt.id,
               hist'[a].prompt = journal'.child
        PROVE  Replays(hist[a].prompt, hist[a].body)' # {}
    <3>1. Replays(hist[a].prompt, hist[a].body) # {}
      BY <2>1, <2>3 DEF OnceInv, PromptInv, HistoryKept, RequestKept
    <3> QED
      BY <3>1 DEF Replays, HistoryKept
  <2> QED
    BY <2>1, <2>2, <2>3
<1> QED
  BY <1>5, <1>6, <1>7 DEF OnceInv

(* provider_record_outcome writes into the attempt.                        *)
LEMMA OutcomeRequest ==
  ASSUME Shapes, ProviderOutcome
  PROVE  \/ UNCHANGED <<journal, ctl>>
         \/ /\ JournalKept /\ RequestKept /\ journal.attempt.id = Head(cmds).att
            /\ journal'.attempt.outcome = Head(cmds).out
            /\ journal'.attempt.sent = journal.attempt.sent
            /\ journal.attempt.outcome = "none"
            /\ Head(cmds).out \in Received => journal.attempt.sent
            /\ ctl' = ctl \/ (ctl' = Goto("settle") /\ Head(cmds).out = "notsent")
<1> DEFINE c == Head(cmds)
           g == GateAfter(journal.attempt.body, c.out)
           recorded == [journal EXCEPT !.attempt.outcome = c.out, !.gate = g]
           quoted == [recorded EXCEPT !.attempt.quoted = TRUE]
<1>1. /\ recorded.next = journal.next /\ recorded.prompt = journal.prompt
      /\ recorded.child = journal.child /\ recorded.replays = journal.replays
      /\ DOMAIN recorded = JournalFields
      /\ recorded.attempt = [journal.attempt EXCEPT !.outcome = c.out]
  <2> HIDE DEF g, c
  <2> QED
    BY Zenon DEF Shapes, JournalFields
<1>2. /\ recorded.attempt.id = journal.attempt.id /\ DOMAIN recorded.attempt = AttemptFields
      /\ recorded.attempt.prompt = journal.attempt.prompt
      /\ recorded.attempt.body = journal.attempt.body
      /\ recorded.attempt.lease = journal.attempt.lease
      /\ recorded.attempt.sent = journal.attempt.sent /\ recorded.attempt.outcome = c.out
  <2> HIDE DEF recorded, c
  <2> QED
    BY <1>1 DEF Shapes, AttemptFields
<1>3. /\ quoted.next = journal.next /\ quoted.prompt = journal.prompt
      /\ quoted.child = journal.child /\ quoted.replays = journal.replays
      /\ quoted.attempt.id = journal.attempt.id
      /\ quoted.attempt.prompt = journal.attempt.prompt
      /\ quoted.attempt.body = journal.attempt.body
      /\ quoted.attempt.lease = journal.attempt.lease
      /\ quoted.attempt.sent = journal.attempt.sent /\ quoted.attempt.outcome = c.out
  <2> HIDE DEF recorded, c
  <2>1. /\ quoted.next = recorded.next /\ quoted.prompt = recorded.prompt
        /\ quoted.child = recorded.child /\ quoted.replays = recorded.replays
        /\ quoted.attempt = [recorded.attempt EXCEPT !.quoted = TRUE]
    BY <1>1, Zenon DEF JournalFields
  <2> HIDE DEF quoted
  <2> QED
    BY <1>1, <1>2, <2>1 DEF AttemptFields
<1>4. \/ UNCHANGED <<journal, ctl>>
      \/ /\ journal.attempt.id = c.att /\ journal.attempt.outcome = "none"
         /\ c.out \in Received => journal.attempt.sent
         /\ journal' = recorded \/ journal' = quoted
         /\ ctl' = ctl \/ (ctl' = Goto("settle") /\ c.out = "notsent")
  BY Zenon DEF ProviderOutcome, controller
<1> HIDE DEF recorded, quoted
<1> QED
  BY <1>1, <1>2, <1>3, <1>4 DEF JournalKept, RequestKept

(* A call reported as not sent is settled, and its frame lapsed.           *)
LEMMA OutcomeOnce ==
  ASSUME PurseInv, SendInv, OnceInv, ProviderOutcome
  PROVE  OnceInv'
<1> DEFINE c == Head(cmds)
<1>0. Shapes /\ GroundInv /\ Handling("outcome") /\ UNCHANGED <<key, hist>>
  BY DEF ProviderOutcome, upstream, ghost, PurseInv, SendInv
<1>1. c \in Queued /\ c.op = "outcome" /\ ctl.pc = "loop"
  BY <1>0, HandlingEffect
<1>2. CASE UNCHANGED <<journal, ctl>>
  <2>1. Opening' = Opening /\ Settling' = Settling
    BY <1>2 DEF Opening, Settling
  <2> QED
    BY <1>0, <1>2, <2>1, MovesOnce DEF OnceInv, PromptInv
<1>3. CASE /\ JournalKept /\ RequestKept /\ journal.attempt.id = c.att
           /\ ctl' = ctl \/ (ctl' = Goto("settle") /\ c.out = "notsent")
  <2> HIDE DEF c
  <2>1. HistoryKept
    BY <1>0 DEF HistoryKept, OnceInv, RequestInv
  <2>2. CASE ctl' = ctl
    <3>1. MemoryKept /\ FramesKept
      BY <1>0, <1>3 DEF MemoryKept, JournalKept, FramesKept
    <3>2. ctl'.pc = "loop" /\ ~Settling'
      BY <1>1, <2>2 DEF Settling
    <3> QED
      BY <1>0, <1>3, <2>1, <3>1, <3>2, OnceFrame
  <2>3. CASE ctl' = Goto("settle") /\ c.out = "notsent"
    <3>1. ctl'.pc = "settle"
      BY <1>0, <2>3, GotoEffect
    <3>2. key[journal.attempt.id] \in Lapsed
      BY <1>1, <1>3, <2>3 DEF SendInv, GateInv
    <3> QED
      BY <1>0, <1>3, <2>1, <3>1, <3>2, SettlesOnce DEF JournalKept
  <2> QED
    BY <1>3, <2>2, <2>3
<1> QED
  BY <1>0, <1>2, <1>3, OutcomeRequest

(* provider_delivery: the replay entry is there before the settle.         *)
LEMMA DeliveryOnce ==
  ASSUME PurseInv, SendInv, OnceInv, ProviderDelivery
  PROVE  OnceInv'
<1> DEFINE a == journal.attempt
           r == [att |-> a.id, prompt |-> a.prompt, body |-> a.body, out |-> a.outcome]
           R == journal.replays \cup {r}
<1>0. Shapes /\ GroundInv /\ UNCHANGED <<key, hist>>
  BY DEF ProviderDelivery, upstream, ghost, PurseInv, SendInv
<1>1. \/ UNCHANGED <<journal, ctl>>
      \/ /\ journal.attempt.outcome \in Received
         /\ journal' = [journal EXCEPT !.replays = R] /\ ctl' = Goto("settle")
  BY Zenon DEF ProviderDelivery, controller
<1>2. CASE UNCHANGED <<journal, ctl>>
  <2>1. Opening' = Opening /\ Settling' = Settling
    BY <1>2 DEF Opening, Settling
  <2> QED
    BY <1>0, <1>2, <2>1, MovesOnce DEF OnceInv, PromptInv
<1>3. CASE /\ journal.attempt.outcome \in Received
           /\ journal' = [journal EXCEPT !.replays = R] /\ ctl' = Goto("settle")
  <2>1. r.att = a.id /\ r.prompt = a.prompt /\ r.body = a.body
    OBVIOUS
  <2>2. \A x \in R : x \in journal.replays \/ x = r
    OBVIOUS
  <2>3. r \in R /\ journal.replays \subseteq R
    OBVIOUS
  <2> HIDE DEF r, R
  <2>4. /\ journal'.next = journal.next /\ journal'.prompt = journal.prompt
        /\ journal'.child = journal.child /\ journal'.replays = R
        /\ journal'.attempt = journal.attempt
    BY <1>0, <1>3 DEF Shapes, JournalFields
  <2>5. HistoryKept /\ RequestKept
    BY <1>0, <2>4 DEF HistoryKept, RequestKept, OnceInv, RequestInv
  <2>6. ctl'.pc = "settle"
    BY <1>0, <1>3, GotoEffect
  <2> QED
    BY <1>0, <2>1, <2>2, <2>3, <2>4, <2>5, <2>6, SettlesOnce
<1> QED
  BY <1>1, <1>2, <1>3

(* provider_settle, and what follows a settlement.                         *)
LEMMA ProviderSettleOnce ==
  ASSUME PurseInv, GroundInv, OnceInv, ProviderSettle
  PROVE  OnceInv'
<1> DEFINE charge == IF journal.attempt.outcome = "notsent" THEN 0 ELSE Quote
<1>1. Settling /\ UNCHANGED <<key, hist>>
  BY DEF ProviderSettle, Settling, upstream, ghost
<1>2. \/ BeginCall(journal, "settle", "settle", charge, "settled")
      \/ ctl' = Back /\ UNCHANGED journal
  BY Zenon DEF ProviderSettle
<1> HIDE DEF charge
<1> QED
  BY <1>1, <1>2, BeginsOnce, EndsOnce

LEMMA AfterSettleOnce ==
  ASSUME PurseInv, GroundInv, OnceInv, NEW pc \in {"settled", "audited"}, NEW label,
         AfterSettle(pc, label, "clear")
  PROVE  OnceInv'
<1>1. ctl.pc = pc /\ UNCHANGED <<key, hist>>
  BY DEF AfterSettle, upstream, ghost
<1>2. journal.child # 0 => Settling
  BY <1>1, OutsidePrompt DEF Settling
<1>3. \/ BeginCall(journal, "disconnect", label, 0, "clear")
      \/ ctl' = Goto("clear") /\ UNCHANGED journal
      \/ ctl' = Back /\ UNCHANGED journal
  BY Zenon DEF AfterSettle
<1>4. CASE ctl' = Goto("clear") /\ UNCHANGED journal
  <2>1. ctl'.pc = "clear"
    BY <1>4, GotoEffect DEF PurseInv
  <2>2. Settling'
    BY <2>1 DEF Settling
  <2> QED
    BY <1>1, <1>2, <1>4, <2>2, MovesOnce
<1> QED
  BY <1>1, <1>2, <1>3, <1>4, BeginsOnce, EndsOnce

(* The attempt is forgotten: settled, recovered or given up.               *)
LEMMA ForgottenOnce ==
  ASSUME PurseInv, GroundInv, OnceInv,
         ForgetAttempt \/ RecoveredDelivery \/ Aborted \/ FencedPurse
  PROVE  OnceInv'
<1>1. UNCHANGED <<key, hist>>
  BY DEF ForgetAttempt, RecoveredDelivery, Aborted, FencedPurse, upstream, ghost
<1>2. CASE FencedPurse
  BY <1>1, <1>2, EndsOnce DEF FencedPurse
<1>3. CASE ForgetAttempt
  <2>1. /\ journal'.next = journal.next /\ journal'.prompt = journal.prompt
        /\ journal'.child = journal.child /\ journal'.replays = journal.replays
        /\ journal'.attempt = NoAttempt
    BY <1>3 DEF ForgetAttempt, PurseInv, Shapes, JournalFields
  <2>2. Settling /\ ctl'.pc = "loop"
    BY <1>3, BackEffect DEF ForgetAttempt, Settling, PurseInv
  <2>3. ~Settling'
    BY <2>2 DEF Settling
  <2>4. MemoryKept /\ HistoryKept /\ FramesKept
    BY <1>1, <2>1 DEF MemoryKept, HistoryKept, FramesKept, OnceInv, RequestInv
  <2> QED
    BY <2>1, <2>2, <2>3, <2>4, OnceFrame
<1>4. CASE RecoveredDelivery
  <2>1. /\ journal'.next = journal.next /\ journal'.prompt = journal.prompt
        /\ journal'.child = journal.child /\ journal'.replays = journal.replays
        /\ journal'.attempt = NoAttempt
    BY <1>4 DEF RecoveredDelivery, PurseInv, Shapes, JournalFields
  <2>2. journal.child = 0
    BY <1>4, OutsidePrompt DEF RecoveredDelivery
  <2> QED
    BY <1>1, <2>1, <2>2, OutsideOnce DEF MemoryKept
<1>5. CASE Aborted
  <2>1. /\ journal'.next = journal.next /\ journal'.prompt = journal.prompt
        /\ journal'.child = journal.child /\ journal'.replays = journal.replays
        /\ journal'.attempt = NoAttempt
    BY <1>5, Zenon DEF Aborted, PurseInv, Shapes, JournalFields
  <2>2. journal.child = 0
    BY <1>5, OutsidePrompt DEF Aborted
  <2> QED
    BY <1>1, <2>1, <2>2, OutsideOnce DEF MemoryKept
<1> QED
  BY <1>2, <1>3, <1>4, <1>5

(* retire_refused_provider_request, and the operator's abort.              *)
LEMMA RetireRefusedOnce ==
  ASSUME PurseInv, GroundInv, OnceInv, RetireRefused
  PROVE  OnceInv'
<1>1. journal.child = 0 /\ UNCHANGED <<key, hist>>
  BY OutsidePrompt DEF RetireRefused, upstream, ghost
<1>2. \/ UNCHANGED journal
      \/ journal' = [journal EXCEPT !.attempt = NoAttempt, !.hold = NoHold]
  BY Zenon DEF RetireRefused
<1>3. MemoryKept /\ (RequestKept \/ journal'.attempt = NoAttempt)
  <2>1. CASE UNCHANGED journal
    BY <2>1 DEF MemoryKept, RequestKept
  <2>2. CASE journal' = [journal EXCEPT !.attempt = NoAttempt, !.hold = NoHold]
    <3>1. /\ journal'.next = journal.next /\ journal'.prompt = journal.prompt
          /\ journal'.child = journal.child /\ journal'.replays = journal.replays
          /\ journal'.attempt = NoAttempt
      BY <2>2, Zenon DEF PurseInv, Shapes, JournalFields
    <3> QED
      BY <3>1 DEF MemoryKept
  <2> QED
    BY <1>2, <2>1, <2>2
<1> QED
  BY <1>1, <1>3, OutsideOnce

LEMMA AbortRefusedOnce ==
  ASSUME PurseInv, GroundInv, OnceInv, AbortRefused
  PROVE  OnceInv'
<1>1. journal.child = 0 /\ UNCHANGED <<key, hist>>
  BY DEF AbortRefused, AtEase, upstream, ghost
<1>2. \/ BeginCall(journal, "disconnect", "abort_disconnect", 0, "aborted")
      \/ UNCHANGED journal
  BY Zenon DEF AbortRefused
<1> QED
  BY <1>1, <1>2, BeginsOnce, OutsideOnce DEF MemoryKept, RequestKept

(* recover_delivered_provider_response, and fence_provider.                *)
LEMMA RecoverDeliveredOnce ==
  ASSUME PurseInv, GroundInv, OnceInv, RecoverDelivered
  PROVE  OnceInv'
<1>1. journal.child = 0 /\ UNCHANGED <<key, hist>>
  BY OutsidePrompt DEF RecoverDelivered, upstream, ghost
<1>2. \/ BeginCall(journal, "settle", "recovery_settle", Quote, "cleared")
      \/ UNCHANGED journal
      \/ journal' = [journal EXCEPT !.attempt = NoAttempt]
  BY Zenon DEF RecoverDelivered
<1>3. CASE journal' = [journal EXCEPT !.attempt = NoAttempt]
  <2>1. /\ journal'.next = journal.next /\ journal'.prompt = journal.prompt
        /\ journal'.child = journal.child /\ journal'.replays = journal.replays
        /\ journal'.attempt = NoAttempt
    BY <1>3 DEF PurseInv, Shapes, JournalFields
  <2> QED
    BY <1>1, <2>1, OutsideOnce DEF MemoryKept
<1> QED
  BY <1>1, <1>2, <1>3, BeginsOnce, OutsideOnce DEF MemoryKept, RequestKept

LEMMA FenceOnce ==
  ASSUME PurseInv, GroundInv, OnceInv, FenceProvider
  PROVE  OnceInv'
<1>1. journal.child = 0 /\ UNCHANGED <<key, hist>>
  BY OutsidePrompt DEF FenceProvider, upstream, ghost
<1>2. \/ BeginCall(journal, "disconnect", "fence", 0, "fenced")
      \/ \E f : journal' = [journal EXCEPT !.fenced = f]
  BY Zenon DEF FenceProvider
<1>3. ASSUME NEW f, journal' = [journal EXCEPT !.fenced = f]
      PROVE  OnceInv'
  <2>1. /\ journal'.next = journal.next /\ journal'.prompt = journal.prompt
        /\ journal'.child = journal.child /\ journal'.replays = journal.replays
        /\ journal'.attempt = journal.attempt
    BY <1>3 DEF PurseInv, Shapes, JournalFields
  <2> QED
    BY <1>1, <2>1, OutsideOnce DEF MemoryKept, RequestKept
<1> QED
  BY <1>1, <1>2, <1>3, BeginsOnce

(* The operator's audit.                                                   *)
LEMMA AuditOnce ==
  ASSUME PurseInv, GroundInv, OnceInv, AuditEvidence \/ AuditSettle
  PROVE  OnceInv'
<1>1. journal.child = 0 /\ UNCHANGED <<key, hist>>
  BY OutsidePrompt DEF AuditEvidence, AuditSettle, upstream, ghost
<1>2. CASE AuditSettle
  BY <1>1, <1>2, BeginsOnce DEF AuditSettle
<1>3. CASE AuditEvidence
  <2>1. PICK j \in {journal, AuditRecorded, AuditQuoted} :
          \/ UNCHANGED journal
          \/ BeginCall(j, "disconnect", "audit_fence", 0, "audit_settle")
          \/ journal' = j
    BY <1>3, AuditCases, Zenon
  <2>2. /\ DOMAIN j = JournalFields /\ j.hold = journal.hold
        /\ j.next = journal.next /\ j.prompt = journal.prompt
        /\ j.child = journal.child /\ j.replays = journal.replays
        /\ j.attempt.id = journal.attempt.id /\ j.attempt.prompt = journal.attempt.prompt
        /\ j.attempt.body = journal.attempt.body /\ j.attempt.lease = journal.attempt.lease
    BY AuditJournal DEF PurseInv
  <2>3. CASE BeginCall(j, "disconnect", "audit_fence", 0, "audit_settle")
    BY <1>1, <2>2, <2>3, BeginOnce DEF PurseInv, Shapes
  <2>4. CASE journal' = j \/ UNCHANGED journal
    BY <1>1, <2>2, <2>4, OutsideOnce DEF MemoryKept, RequestKept
  <2> QED
    BY <2>1, <2>3, <2>4
<1> QED
  BY <1>2, <1>3

(* A prompt starts with an empty replay cache, and with no request of it.  *)
LEMMA StartPromptOnce ==
  ASSUME PurseInv, GroundInv, OnceInv, StartPrompt
  PROVE  OnceInv'
<1>1. /\ UNCHANGED <<key, hist>> /\ journal.attempt = NoAttempt /\ ctl.pc = "loop"
  BY DEF StartPrompt, Unresolved, upstream, ghost
<1>2. PICK p : p = journal.prompt + 1
  OBVIOUS
<1>3. /\ journal'.next = journal.next /\ journal'.prompt = p
      /\ journal'.child = p /\ journal'.replays = {} /\ journal'.attempt = NoAttempt
  <2>1. journal' = [journal EXCEPT !.prompt = p, !.child = p, !.replays = {}]
    BY <1>2 DEF StartPrompt
  <2> QED
    BY <1>1, <2>1, Zenon DEF PurseInv, Shapes, JournalFields
<1>4. journal.prompt \in Nat /\ p \in Nat /\ p # 0 /\ \A x \in 0..journal.prompt : x # p /\ x \in 0..p
  BY <1>2 DEF OnceInv, RequestInv
<1>5. ctl'.pc = "loop"
  BY <1>1, Zenon DEF StartPrompt, PurseInv, Shapes, CtlFields
<1>6. RequestInv'
  BY <1>1, <1>3, <1>4, NoPendingOp DEF OnceInv, RequestInv, Request
<1>7. PairInv'
  BY <1>1, <1>3 DEF OnceInv, PairInv, Request
<1>8. PromptInv'
  <2>1. \A a \in Attempts : hist'[a].prompt # journal'.child
    BY <1>1, <1>3, <1>4 DEF OnceInv, RequestInv
  <2>2. ~Settling'
    BY <1>5 DEF Settling
  <2> QED
    BY <1>5, <2>1, <2>2 DEF PromptInv
<1> QED
  BY <1>6, <1>7, <1>8 DEF OnceInv

(* The end of a prompt, a crash, the start of a recovery or of an audit.   *)
LEMMA PromptOnce ==
  ASSUME PurseInv, GroundInv, OnceInv,
         EndPrompt \/ Drained \/ Disconnect \/ Crash \/ Recover \/ ReconcileAudited
  PROVE  OnceInv'
<1>1. /\ UNCHANGED <<key, hist>>
  BY DEF EndPrompt, Drained, Disconnect, Crash, Recover, ReconcileAudited, upstream, ghost
<1>2. journal'.attempt = journal.attempt /\ journal'.next = journal.next
  BY PromptEffect DEF PurseInv
<1>3. /\ journal'.replays = journal.replays /\ journal'.prompt = journal.prompt
      /\ journal'.child \in {0, journal.child}
  <2>1. CASE EndPrompt \/ Crash \/ ReconcileAudited
    BY <2>1 DEF EndPrompt, Crash, ReconcileAudited
  <2>2. CASE Drained
    BY <2>2 DEF Drained, PurseInv, Shapes, JournalFields
  <2>3. CASE Disconnect
    <3>1. /\ journal'.replays = journal.replays /\ journal'.prompt = journal.prompt
          /\ journal'.child = 0
      BY <2>3, Zenon DEF Disconnect, PurseInv, Shapes, JournalFields
    <3> QED
      BY <3>1
  <2>4. CASE Recover
    <3>1. /\ journal'.replays = journal.replays /\ journal'.prompt = journal.prompt
          /\ journal'.child = 0
      BY <2>4, Zenon DEF Recover, PurseInv, Shapes, JournalFields
    <3> QED
      BY <3>1
  <2> QED
    BY <2>1, <2>2, <2>3, <2>4
<1>4. journal'.child # 0 => ctl'.pc = "loop"
  <2>1. CASE EndPrompt
    BY <2>1, Zenon DEF EndPrompt, PurseInv, Shapes, CtlFields
  <2>2. CASE Crash
    BY <2>2 DEF Crash
  <2>3. CASE Drained
    BY <2>3 DEF Drained, PurseInv, Shapes, JournalFields
  <2>4. CASE Disconnect
    BY <2>4, Zenon DEF Disconnect, PurseInv, Shapes, JournalFields
  <2>5. CASE Recover
    BY <2>5, Zenon DEF Recover, PurseInv, Shapes, JournalFields
  <2>6. CASE ReconcileAudited
    BY <2>6 DEF ReconcileAudited, AtEase
  <2> QED
    BY <2>1, <2>2, <2>3, <2>4, <2>5, <2>6
<1>5. ctl'.pc = "loop" => ~Settling'
  BY DEF Settling
<1>6. MemoryKept /\ RequestKept /\ HistoryKept /\ FramesKept
  BY <1>1, <1>2, <1>3 DEF MemoryKept, RequestKept, HistoryKept, FramesKept, OnceInv, RequestInv
<1> QED
  BY <1>4, <1>5, <1>6, OnceFrame

(* Whoever leaves the controller alone and hands no frame over.            *)
LEMMA OthersOnce ==
  ASSUME GroundInv, OnceInv, UNCHANGED <<journal, ctl, hist>>, FramesKept
  PROVE  OnceInv'
<1>1. Opening' = Opening /\ Settling' = Settling
  BY DEF Opening, Settling
<1>2. MemoryKept /\ RequestKept /\ HistoryKept
  BY DEF MemoryKept, RequestKept, HistoryKept, OnceInv, RequestInv
<1> QED
  BY <1>1, <1>2, OnceFrame DEF OnceInv, PromptInv

(* Upstream only moves frames that were handed over.                       *)
LEMMA UpstreamOnce ==
  ASSUME GroundInv, OnceInv, Upstream
  PROVE  OnceInv'
<1>1. UNCHANGED <<journal, ctl, hist>>
  BY DEF Upstream, BrokerRefuses, UpstreamSend, UpstreamReplies, UpstreamCut, UpstreamEnds,
     TicketJournalFails, controller, ghost
<1>2. \/ UNCHANGED key
      \/ \E a \in Attempts : key[a] \in {"held", "sent"} /\ \E x : key' = [key EXCEPT ![a] = x]
  BY Zenon DEF Upstream, BrokerRefuses, UpstreamSend, UpstreamReplies, UpstreamCut, UpstreamEnds,
     TicketJournalFails
<1>3. FramesKept
  <2>1. CASE UNCHANGED key
    BY <2>1 DEF FramesKept
  <2>2. CASE \E a \in Attempts : key[a] \in {"held", "sent"} /\ \E x : key' = [key EXCEPT ![a] = x]
    <3>1. PICK a \in Attempts :
            key[a] \in {"held", "sent"} /\ \E x : key' = [key EXCEPT ![a] = x]
      BY <2>2
    <3>2. \A b \in Attempts : b # a => key'[b] = key[b]
      BY <3>1 DEF GroundInv
    <3> QED
      BY <3>1, <3>2 DEF FramesKept, Lapsed
  <2> QED
    BY <1>2, <2>1, <2>2
<1> QED
  BY <1>1, <1>3, OthersOnce

(* forward_once hands over the frame of the current attempt.               *)
LEMMA ForwardOnce ==
  ASSUME PurseInv, SendInv, OnceInv, Forward
  PROVE  OnceInv'
<1>0. GroundInv /\ UNCHANGED <<journal, ctl, hist>> /\ gw.pc = "forward"
  BY DEF SendInv, Forward, GatewayStep, controller, ghost
<1>1. CASE UNCHANGED key
  BY <1>0, <1>1, OthersOnce DEF FramesKept
<1>2. CASE live /\ key' = [key EXCEPT ![gw.att] = "held"]
  <2>1. PICK g : g = gw.att
    OBVIOUS
  <2>2. journal.attempt.id = g /\ g # 0 /\ ctl.pc = "loop"
    BY <1>0, <1>2, <2>1 DEF SendInv, GateInv, Granted
  <2>3. g \in Attempts
    BY <1>0, <2>2, OpenedAttempt DEF GroundInv
  <2>4. \A a \in Attempts : a # g => key'[a] = key[a]
    BY <1>0, <1>2, <2>1 DEF GroundInv
  <2>5. \A a \in Attempts : Request(a)' = Request(a)
    BY <1>0 DEF Request
  <2>6. RequestInv'
    BY <1>0 DEF OnceInv, RequestInv, Request
  <2>7. PairInv'
    <3>1. SUFFICES ASSUME NEW a \in Attempts, NEW b \in Attempts, a # b, key'[a] \notin Lapsed,
                          key'[b] \notin Lapsed \/ b = g
                   PROVE  Request(a) # Request(b)
      BY <1>0, <2>2, <2>5, Zenon DEF PairInv, Lapsed
    <3>2. CASE a = g
      BY <2>2, <2>4, <3>1, <3>2 DEF OnceInv, PairInv
    <3>3. CASE a # g
      BY <2>2, <2>4, <3>1, <3>3 DEF OnceInv, PairInv
    <3> QED
      BY <3>2, <3>3
  <2>8. PromptInv'
    <3>1. ctl'.pc = "loop" /\ ~Settling'
      BY <1>0, <2>2 DEF Settling
    <3>2. ASSUME NEW a \in Attempts, journal.child # 0, key'[a] \notin Lapsed,
                 a # journal'.attempt.id, hist'[a].prompt = journal'.child
          PROVE  Replays(hist[a].prompt, hist[a].body)' # {}
      <4>1. Replays(hist[a].prompt, hist[a].body) # {}
        BY <1>0, <2>2, <2>4, <3>2 DEF OnceInv, PromptInv
      <4> QED
        BY <1>0, <4>1 DEF Replays
    <3> QED
      BY <1>0, <3>1, <3>2 DEF PromptInv, Lapsed
  <2> QED
    BY <2>6, <2>7, <2>8 DEF OnceInv
<1>3. UNCHANGED key \/ (live /\ key' = [key EXCEPT ![gw.att] = "held"])
  BY Zenon DEF Forward
<1> QED
  BY <1>1, <1>2, <1>3

(* The other steps of the gateway, and of everyone else.                   *)
LEMMA BystandersOnce ==
  ASSUME GroundInv, OnceInv,
         \/ (Gateway /\ ~Forward) \/ HardStop \/ WorkerDeadline \/ Broker \/ Native
         \/ (\E b \in Bodies : Accept(b)) \/ UNCHANGED vars
  PROVE  OnceInv'
<1>1. UNCHANGED <<journal, ctl, hist, key>>
  <2>1. CASE Gateway /\ ~Forward
    BY <2>1 DEF Gateway, PrepareAnswered, PlanEnqueue, PlanPoll, ReserveAnswered, BeforeAnswered,
       ForwardEnds, DropGuard, ReleaseGuard, OutcomeAnswered, Deliver, DeliveryAnswered,
       GatewayStep, controller, upstream, ghost
  <2>2. CASE HardStop \/ WorkerDeadline
    BY <2>2 DEF HardStop, WorkerDeadline, controller, upstream, ghost
  <2>3. CASE Broker
    BY <2>3 DEF Broker, BrokerRestarts, BrokerPlaces, BrokerDrops, controller, upstream, ghost
  <2>4. CASE Native
    BY <2>4 DEF Native, OwnerMoves, Custody, controller, upstream, ghost
  <2>5. CASE \E b \in Bodies : Accept(b)
    BY <2>5 DEF Accept, GatewayStep, controller, upstream, ghost
  <2>6. CASE UNCHANGED vars
    BY <2>6 DEF vars, controller, upstream, ghost
  <2> QED
    BY <2>1, <2>2, <2>3, <2>4, <2>5, <2>6
<1> QED
  BY <1>1, OthersOnce DEF FramesKept

(* The invariant holds at the start.                                       *)
LEMMA OnceInitially ==
  ASSUME Init
  PROVE  OnceInv
<1>1. /\ journal.prompt = 0 /\ journal.child = 0 /\ journal.attempt = NoAttempt
      /\ journal.replays = {} /\ key = [a \in Attempts |-> "none"]
      /\ hist = [a \in Attempts |-> [prompt |-> 0, body |-> "none"]]
  BY DEF Init
<1>2. RequestInv
  BY <1>1, NoPendingOp DEF RequestInv
<1>3. PairInv
  BY <1>1 DEF PairInv, Lapsed
<1>4. PromptInv
  BY <1>1 DEF PromptInv
<1> QED
  BY <1>2, <1>3, <1>4 DEF OnceInv

(* Every step keeps it.                                                    *)
LEMMA OnceInductive ==
  ASSUME PurseInv, SendInv, OnceInv, [Next]_vars
  PROVE  OnceInv'
<1>0. GroundInv
  BY DEF SendInv
<1>1. CASE Controller
  BY <1>0, <1>1, CallReturnsOnce, PrepareOnce, ProviderReserveOnce, BeforeSendOnce, OutcomeOnce,
     DeliveryOnce, ProviderSettleOnce, ReserveStepsOnce, AfterSettleOnce, ForgottenOnce,
     RetryPendingOnce, RetireRefusedOnce, RecoverDeliveredOnce, FenceOnce, AuditOnce
     DEF Controller
<1>2. CASE Forward
  BY <1>2, ForwardOnce
<1>3. CASE \/ (Gateway /\ ~Forward) \/ HardStop \/ WorkerDeadline \/ Broker \/ Native
           \/ (\E b \in Bodies : Accept(b)) \/ UNCHANGED vars
  BY <1>0, <1>3, BystandersOnce
<1>4. CASE Upstream
  BY <1>0, <1>4, UpstreamOnce
<1>5. CASE StartPrompt
  BY <1>0, <1>5, StartPromptOnce
<1>6. CASE EndPrompt \/ Drained \/ Disconnect \/ Crash \/ Recover \/ ReconcileAudited
  BY <1>0, <1>6, PromptOnce
<1>7. CASE AbortRefused
  BY <1>0, <1>7, AbortRefusedOnce
<1> QED
  BY <1>1, <1>2, <1>3, <1>4, <1>5, <1>6, <1>7 DEF Next, Prompting, Operator

(* Within a prompt the same request bytes go upstream at most once,        *)
(* whatever crashed, was refused or lost its acknowledgement: what may     *)
(* have left is in the replay cache before its attempt is forgotten.       *)
THEOREM SentOnce == ASSUME ~DiskFaults PROVE Spec => []NoSecondSend
<1>1. Init => OnceInv
  BY OnceInitially
<1>2. PurseInv /\ SendInv /\ OnceInv /\ [Next]_vars => OnceInv'
  BY OnceInductive
<1>3. OnceInv => NoSecondSend
  <2>1. SUFFICES ASSUME OnceInv, NEW a \in Attempts, NEW b \in Attempts,
                        WentUpstream(a), WentUpstream(b), a # b
                 PROVE  Request(a) # Request(b)
    BY DEF NoSecondSend, Request
  <2>2. key[a] \notin Lapsed /\ key[b] \notin Lapsed
    BY <2>1 DEF WentUpstream, Lapsed, Received
  <2> QED
    BY <2>1, <2>2 DEF OnceInv, PairInv
<1> QED
  BY <1>1, <1>2, <1>3, SendInvariant, PTL DEF Spec
=============================================================================
