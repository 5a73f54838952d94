--------------------------- MODULE ProviderProofs ---------------------------
(***************************************************************************)
(* Proofs about the provider path, for any number of attempts, prompts,    *)
(* bodies and faults: whenever the host holds funds of the purse, the      *)
(* journal accounts for them.                                              *)
(***************************************************************************)
EXTENDS ProviderSafety, SequenceTheorems, TLAPS

-----------------------------------------------------------------------------
(* The inductive invariant of journal, purse and native calls              *)

JournalFields == {"next", "prompt", "child", "fenced", "attempt", "hold", "pending",
                  "settlement", "replays", "gate"}
AttemptFields == {"id", "prompt", "body", "lease", "sent", "outcome", "quoted"}
HoldFields == {"st", "root", "gen"}
CtlFields == {"mode", "pc", "then", "lease"}
CellFields == {"status", "gen", "root", "by"}
CallFields == {"key", "att", "st"}

Shapes ==
  /\ DOMAIN journal = JournalFields /\ DOMAIN journal.attempt = AttemptFields
  /\ DOMAIN journal.hold = HoldFields
  /\ DOMAIN ctl = CtlFields /\ DOMAIN cell = CellFields
  /\ \A c \in calls : DOMAIN c = CallFields

(* An idle purse holds funds for nobody.                                   *)
CellInv ==
  /\ cell.status \in {"attached", "detached", "reserved", "fenced"}
  /\ Idle(cell.status) => cell.by = 0

(* One native call at a time: the one the journal calls pending.           *)
CallOK(c) ==
  /\ c.key = journal.pending /\ c.att = journal.attempt.id
  /\ c.key.op \in {"attach", "reserve", "settle", "disconnect"}
  /\ c.key.label \in {"settle", "recovery_settle"} => c.key.op = "settle"
  /\ c.key.label = "fence" => c.key.op = "disconnect"
  /\ c.st \in {"rejected", "contended", "expired"} => c.key.op \in {"settle", "disconnect"}

CallInv ==
  /\ journal.pending = NoPending <=> calls = {}
  /\ \A c, d \in calls : c = d
  /\ \A c \in calls : CallOK(c)

(* What the journal's hold says of the purse while a call is undecided.    *)
HoldInv ==
  /\ HoldRecorded
  /\ journal.hold.st = "submitted" <=> journal.pending.op = "reserve"
  /\ \A c \in calls :
       /\ c.key.op = "attach" => journal.hold.st = "none"
       /\ c.key.op = "reserve" => (c.st = "committed" <=> ~Idle(cell.status))
       /\ c.key.op = "settle" => /\ journal.hold.st = "confirmed"
                                 /\ c.st = "committed" => Idle(cell.status)

(* The states of a hold that was never submitted.                          *)
Unsubmitted == {"none", "marked", "refused"}

(* A confirmed call is followed by the step `next'.                        *)
ThenInv(next, op, st) ==
  \/ next = "mark" /\ op = "attach"
  \/ next = "permit" /\ op = "reserve"
  \/ next \in {"settled", "cleared", "audited"} /\ op = "settle"
  \/ next = "clear" /\ op = "disconnect" /\ st = "none"
  \/ next = "fenced" /\ op = "disconnect"
  \/ next = "audit_settle" /\ op = "disconnect" /\ st = "confirmed"
  \/ next = "aborted" /\ op = "disconnect" /\ st \in Unsubmitted

(* What each step of a handler relies on.                                  *)
PcInv ==
  /\ ctl.pc = "call" =>
       /\ journal.pending # NoPending
       /\ ThenInv(ctl.then, journal.pending.op, journal.hold.st)
  /\ ctl.pc \in {"opened", "mark", "reserve", "permit", "settled", "audited", "clear", "cleared",
                 "fenced", "audit", "audit_settle", "aborted"} => journal.pending = NoPending
  /\ ctl.pc \in {"opened", "mark", "settled", "audited", "clear", "cleared"} =>
       journal.hold.st = "none"
  /\ ctl.pc = "reserve" => journal.hold.st = "marked"
  /\ ctl.pc = "audit_settle" => journal.hold.st = "confirmed"
  /\ ctl.pc = "permit" => ~Idle(cell.status)
  /\ ctl.pc = "aborted" => journal.hold.st \in Unsubmitted

PurseInv == Shapes /\ CellInv /\ CallInv /\ HoldInv /\ PcInv

-----------------------------------------------------------------------------
(* What the updates do                                                     *)

(* Goto moves the handler and nothing else.                                *)
LEMMA GotoEffect ==
  ASSUME Shapes, NEW pc, ctl' = Goto(pc)
  PROVE  /\ DOMAIN ctl' = CtlFields /\ ctl'.pc = pc /\ ctl'.then = ctl.then
         /\ ctl'.mode = ctl.mode /\ ctl'.lease = ctl.lease
BY DEF Shapes, Goto, CtlFields

(* Back ends a handler; it neither begins nor ends a prompt.               *)
LEMMA BackEffect ==
  ASSUME Shapes, ctl' = Back
  PROVE  /\ DOMAIN ctl' = CtlFields /\ ctl'.pc = "loop" /\ ctl'.lease = ctl.lease
         /\ ctl.mode = "prompt" => ctl'.mode = "prompt"
         /\ ctl'.mode \in {ctl.mode, "ready"}
<1>1. DOMAIN ctl' = CtlFields /\ ctl'.pc = "loop" /\ ctl'.lease = ctl.lease
  BY Zenon DEF Shapes, Back, CtlFields
<1>2. ctl'.mode = IF ctl.mode \in {"recover", "disconnect", "audit", "refused"} THEN "ready"
                  ELSE ctl.mode
  BY Zenon DEF Shapes, Back, CtlFields
<1> QED
  BY <1>1, <1>2

(* No pending call has no operation.                                       *)
LEMMA NoPendingOp ==
  /\ NoPending.op = "none" /\ NoHold.st = "none" /\ DOMAIN NoHold = HoldFields
  /\ NoAttempt.id = 0 /\ DOMAIN NoAttempt = AttemptFields
  /\ NoAttempt.sent = FALSE /\ NoAttempt.outcome = "none"
BY DEF NoPending, NoHold, NoAttempt, HoldFields, AttemptFields

(* BeginCall keeps the journal but for the pending call and the hold's     *)
(* state, and spawns one custody child for it.                             *)
LEMMA BeginCallEffect ==
  ASSUME NEW j, NEW op, NEW label, NEW charge, NEW then, Shapes,
         DOMAIN j = JournalFields, DOMAIN j.hold = HoldFields,
         BeginCall(j, op, label, charge, then), op # "none"
  PROVE  /\ j.pending = NoPending /\ UNCHANGED <<cell, settled>>
         /\ DOMAIN journal' = JournalFields /\ DOMAIN journal'.hold = HoldFields
         /\ journal'.attempt = j.attempt /\ journal'.next = j.next
         /\ journal'.replays = j.replays /\ journal'.prompt = j.prompt
         /\ journal'.child = j.child /\ journal'.settlement = j.settlement
         /\ j.hold = NoHold /\ op # "reserve" => journal'.hold = NoHold
         /\ journal'.hold.st = IF op = "reserve" THEN "submitted" ELSE j.hold.st
         /\ journal'.hold.root = j.hold.root /\ journal'.hold.gen = j.hold.gen
         /\ journal'.pending # NoPending /\ journal'.pending.op = op
         /\ journal'.pending.label = label /\ journal'.pending.charge = charge
         /\ journal'.pending.root = cell.root
         /\ \E c : /\ calls' = calls \cup {c} /\ DOMAIN c = CallFields
                   /\ c.key = journal'.pending /\ c.att = j.attempt.id /\ c.st = "preparing"
         /\ DOMAIN ctl' = CtlFields /\ ctl'.pc = "call" /\ ctl'.then = then
         /\ ctl'.mode = ctl.mode /\ ctl'.lease = ctl.lease
<1> DEFINE p == [op |-> op, label |-> label, charge |-> charge, root |-> cell.root]
           c == [key |-> p, att |-> j.attempt.id, st |-> "preparing"]
<1>1. /\ j.pending = NoPending
      /\ journal' = [j EXCEPT !.pending = p, !.hold.st = IF op = "reserve" THEN "submitted" ELSE @]
      /\ calls' = calls \cup {c}
      /\ ctl' = [ctl EXCEPT !.pc = "call", !.then = then]
      /\ UNCHANGED <<cell, settled>>
  BY Zenon DEF BeginCall
<1>2. p.op = op /\ p.label = label /\ p.charge = charge /\ p.root = cell.root /\ p # NoPending
  BY NoPendingOp
<1>3. /\ DOMAIN c = CallFields /\ c.key = p /\ c.att = j.attempt.id /\ c.st = "preparing"
  BY DEF CallFields
<1> HIDE DEF p, c
<1>4. /\ DOMAIN journal' = JournalFields
      /\ journal'.attempt = j.attempt /\ journal'.next = j.next
      /\ journal'.replays = j.replays /\ journal'.prompt = j.prompt
      /\ journal'.child = j.child /\ journal'.pending = p
      /\ journal'.settlement = j.settlement
  BY <1>1, Zenon DEF JournalFields
<1>5. /\ DOMAIN journal'.hold = HoldFields
      /\ journal'.hold.st = IF op = "reserve" THEN "submitted" ELSE j.hold.st
      /\ journal'.hold.root = j.hold.root /\ journal'.hold.gen = j.hold.gen
  BY <1>1, Zenon DEF JournalFields, HoldFields
<1>6. /\ DOMAIN ctl' = CtlFields /\ ctl'.pc = "call" /\ ctl'.then = then
      /\ ctl'.mode = ctl.mode /\ ctl'.lease = ctl.lease
  BY <1>1, Zenon DEF Shapes, CtlFields
<1>7. j.hold = NoHold /\ op # "reserve" => journal'.hold = NoHold
  <2>1. op # "reserve" => journal'.hold = [j.hold EXCEPT !.st = j.hold.st]
    BY <1>1, Zenon DEF JournalFields
  <2> QED
    BY <2>1 DEF NoHold
<1> QED
  BY <1>1, <1>2, <1>3, <1>4, <1>5, <1>6, <1>7

(* The pending call is the only one.                                       *)
LEMMA PendingIsCall ==
  ASSUME CallInv, journal.pending # NoPending
  PROVE  PendingCall \in calls /\ calls = {PendingCall} /\ CallOK(PendingCall)
<1>1. \E c \in calls : c.key = journal.pending
  BY DEF CallInv, CallOK
<1>2. PendingCall \in calls
  BY <1>1 DEF PendingCall
<1> QED
  BY <1>2 DEF CallInv

(* Once it is decided, forgetting what is decided leaves none.             *)
LEMMA UndecidedEmpty ==
  ASSUME CallInv, journal.pending # NoPending,
         PendingCall.st \notin {"preparing", "sealed", "contended"}
  PROVE  Undecided = {}
BY PendingIsCall DEF Undecided

(* What a confirmed call does to the journal.                              *)
LEMMA ConfirmedEffect ==
  ASSUME Shapes, journal' = Confirmed
  PROVE  /\ DOMAIN journal' = JournalFields /\ DOMAIN journal'.hold = HoldFields
         /\ journal'.pending = NoPending
         /\ journal'.attempt = journal.attempt /\ journal'.next = journal.next
         /\ journal'.replays = journal.replays /\ journal'.prompt = journal.prompt
         /\ journal'.child = journal.child
         /\ journal.pending.op = "reserve" =>
              /\ journal'.hold.st = "confirmed" /\ journal'.hold.gen = journal.hold.gen
         /\ journal.pending.op = "settle" =>
              journal'.hold = NoHold /\ journal'.settlement = journal.attempt.id
         /\ journal.pending.op # "settle" => journal'.settlement = journal.settlement
         /\ journal.pending.op \notin {"reserve", "settle"} => journal'.hold = journal.hold
<1> DEFINE j == [journal EXCEPT !.pending = NoPending]
<1>1. /\ DOMAIN j = JournalFields /\ j.hold = journal.hold /\ j.pending = NoPending
      /\ j.attempt = journal.attempt /\ j.next = journal.next /\ j.replays = journal.replays
      /\ j.prompt = journal.prompt /\ j.child = journal.child
      /\ j.settlement = journal.settlement
  BY DEF Shapes, JournalFields
<1>2. Confirmed = CASE journal.pending.op = "reserve" -> [j EXCEPT !.hold.st = "confirmed"]
                    [] journal.pending.op = "settle" ->
                         [j EXCEPT !.hold = NoHold, !.settlement = journal.attempt.id]
                    [] OTHER -> j
  BY Zenon DEF Confirmed
<1> HIDE DEF j
<1>3. CASE journal.pending.op = "reserve"
  <2>1. journal' = [j EXCEPT !.hold.st = "confirmed"]
    BY <1>2, <1>3, Zenon
  <2>2. /\ DOMAIN journal' = JournalFields /\ journal'.pending = j.pending
        /\ journal'.attempt = j.attempt /\ journal'.next = j.next
        /\ journal'.replays = j.replays /\ journal'.prompt = j.prompt
        /\ journal'.child = j.child /\ journal'.settlement = j.settlement
    BY <1>1, <2>1, Zenon DEF JournalFields
  <2>3. journal'.hold = [journal.hold EXCEPT !.st = "confirmed"]
    BY <1>1, <2>1, Zenon DEF JournalFields
  <2>4. /\ DOMAIN journal'.hold = HoldFields /\ journal'.hold.st = "confirmed"
        /\ journal'.hold.gen = journal.hold.gen
    BY <2>3 DEF Shapes, HoldFields
  <2> QED
    BY <1>1, <1>3, <2>2, <2>4
<1>4. CASE journal.pending.op = "settle"
  <2>1. journal' = [j EXCEPT !.hold = NoHold, !.settlement = journal.attempt.id]
    BY <1>2, <1>4, Zenon
  <2> QED
    BY <1>1, <1>4, <2>1, NoPendingOp, Zenon DEF JournalFields
<1>5. CASE journal.pending.op \notin {"reserve", "settle"}
  <2>1. journal' = j
    BY <1>2, <1>5, Zenon
  <2> QED
    BY <1>1, <1>5, <2>1 DEF Shapes
<1> QED
  BY <1>3, <1>4, <1>5

(* A call that was not admitted leaves the pending slot; the hold of a     *)
(* reserve goes to the state st.                                           *)
LEMMA DroppedEffect ==
  ASSUME Shapes, NEW st,
         journal' = [journal EXCEPT !.pending = NoPending,
                       !.hold.st = IF journal.pending.op = "reserve" THEN st ELSE @]
  PROVE  /\ DOMAIN journal' = JournalFields /\ DOMAIN journal'.hold = HoldFields
         /\ journal'.pending = NoPending
         /\ journal'.attempt = journal.attempt /\ journal'.next = journal.next
         /\ journal'.replays = journal.replays /\ journal'.prompt = journal.prompt
         /\ journal'.child = journal.child /\ journal'.settlement = journal.settlement
         /\ journal.hold = NoHold /\ journal.pending.op # "reserve" => journal'.hold = NoHold
         /\ journal'.hold.st = IF journal.pending.op = "reserve" THEN st ELSE journal.hold.st
         /\ journal'.hold.gen = journal.hold.gen
<1>1. /\ DOMAIN journal' = JournalFields /\ journal'.pending = NoPending
      /\ journal'.attempt = journal.attempt /\ journal'.next = journal.next
      /\ journal'.replays = journal.replays /\ journal'.prompt = journal.prompt
      /\ journal'.child = journal.child /\ journal'.settlement = journal.settlement
  BY Zenon DEF Shapes, JournalFields
<1>2. /\ DOMAIN journal'.hold = HoldFields
      /\ journal'.hold.st = IF journal.pending.op = "reserve" THEN st ELSE journal.hold.st
      /\ journal'.hold.gen = journal.hold.gen
  BY Zenon DEF Shapes, JournalFields, HoldFields
<1>3. journal.hold = NoHold /\ journal.pending.op # "reserve" => journal'.hold = NoHold
  <2>1. journal.pending.op # "reserve" =>
          journal'.hold = [journal.hold EXCEPT !.st = journal.hold.st]
    BY Zenon DEF Shapes, JournalFields
  <2> QED
    BY <2>1 DEF NoHold
<1> QED
  BY <1>1, <1>2, <1>3

(* A call leaves the pending slot and the hold stays.                      *)
LEMMA SlotCleared ==
  ASSUME Shapes, journal' = [journal EXCEPT !.pending = NoPending]
  PROVE  /\ DOMAIN journal' = JournalFields /\ journal'.hold = journal.hold
         /\ journal'.pending = NoPending
         /\ journal'.attempt = journal.attempt /\ journal'.next = journal.next
         /\ journal'.replays = journal.replays /\ journal'.prompt = journal.prompt
         /\ journal'.child = journal.child /\ journal'.settlement = journal.settlement
BY DEF Shapes, JournalFields

-----------------------------------------------------------------------------
(* Kinds of steps                                                          *)

(* The steps that rely on nothing.                                         *)
FreePcs == {"loop", "settle", "pending", "retire", "deliver", "fence"}

(* A step that leaves purse, calls, hold and pending alone.                *)
LEMMA PurseFrame ==
  ASSUME PurseInv, Shapes', UNCHANGED <<cell, calls>>,
         journal'.pending = journal.pending, journal'.hold = journal.hold,
         journal'.attempt.id = journal.attempt.id,
         (ctl'.pc = ctl.pc /\ ctl'.then = ctl.then) \/ ctl'.pc \in FreePcs
  PROVE  PurseInv'
<1>1. CellInv'
  BY DEF PurseInv, CellInv, Idle
<1>2. CallInv'
  BY DEF PurseInv, CallInv, CallOK
<1>3. HoldInv'
  BY DEF PurseInv, HoldInv, HoldRecorded, Idle
<1>4. PcInv'
  BY DEF PurseInv, PcInv, ThenInv, FreePcs, Idle
<1> QED
  BY <1>1, <1>2, <1>3, <1>4 DEF PurseInv

(* A call begins.                                                          *)
LEMMA BeginKeeps ==
  ASSUME PurseInv, NEW j, NEW op \in {"attach", "reserve", "settle", "disconnect"},
         NEW label, NEW charge, NEW then,
         DOMAIN j = JournalFields, DOMAIN j.attempt = AttemptFields,
         j.hold = journal.hold, j.pending = journal.pending,
         j.attempt.id = journal.attempt.id,
         BeginCall(j, op, label, charge, then),
         label \in {"settle", "recovery_settle"} => op = "settle",
         label = "fence" => op = "disconnect",
         op = "attach" => journal.hold.st = "none",
         op = "reserve" => Idle(cell.status),
         op = "settle" => journal.hold.st = "confirmed",
         ThenInv(then, op, IF op = "reserve" THEN "submitted" ELSE journal.hold.st)
  PROVE  PurseInv'
<1>1. Shapes /\ DOMAIN j.hold = HoldFields
  BY DEF PurseInv, Shapes
<1>2. /\ j.pending = NoPending /\ UNCHANGED <<cell, settled>>
      /\ DOMAIN journal' = JournalFields /\ DOMAIN journal'.hold = HoldFields
      /\ journal'.attempt = j.attempt
      /\ journal'.hold.st = IF op = "reserve" THEN "submitted" ELSE j.hold.st
      /\ journal'.pending # NoPending /\ journal'.pending.op = op
      /\ journal'.pending.label = label
      /\ DOMAIN ctl' = CtlFields /\ ctl'.pc = "call" /\ ctl'.then = then
  BY <1>1, BeginCallEffect
<1>3. PICK c : /\ calls' = calls \cup {c} /\ DOMAIN c = CallFields
               /\ c.key = journal'.pending /\ c.att = j.attempt.id /\ c.st = "preparing"
  BY <1>1, BeginCallEffect
<1>4. calls' = {c}
  BY <1>2, <1>3 DEF PurseInv, CallInv
<1>5. Shapes'
  BY <1>1, <1>2, <1>3 DEF Shapes
<1>6. CellInv'
  BY <1>2 DEF PurseInv, CellInv, Idle
<1>7. CallOK(c)'
  BY <1>2, <1>3 DEF CallOK
<1>8. CallInv'
  BY <1>2, <1>4, <1>7 DEF CallInv
<1>9. HoldRecorded'
  <2>1. op = "reserve" => ~(cell.status \in {"reserved", "fenced"})
    BY DEF Idle
  <2> QED
    BY <1>2, <2>1 DEF PurseInv, HoldInv, HoldRecorded
<1>10. HoldInv'
  <2>1. journal'.hold.st = "submitted" <=> journal'.pending.op = "reserve"
    BY <1>2, NoPendingOp DEF PurseInv, HoldInv
  <2> QED
    BY <1>2, <1>3, <1>4, <1>9, <2>1 DEF HoldInv, Idle
<1>11. PcInv'
  BY <1>2 DEF PcInv
<1> QED
  BY <1>5, <1>6, <1>8, <1>10, <1>11 DEF PurseInv

(* The pending call ends, and its slot is free.                            *)
LEMMA EndKeeps ==
  ASSUME PurseInv, Shapes', UNCHANGED cell, calls' = {}, journal'.pending = NoPending,
         journal'.attempt.id = journal.attempt.id,
         journal'.hold.st # "submitted",
         ~Idle(cell.status) => journal'.hold.st = "confirmed",
         PcInv'
  PROVE  PurseInv'
<1>1. CellInv'
  BY DEF PurseInv, CellInv, Idle
<1>2. HoldInv'
  BY NoPendingOp DEF PurseInv, HoldInv, HoldRecorded, Idle
<1> QED
  BY <1>1, <1>2 DEF PurseInv, CallInv

(* The attempt or the hold changes while no call is pending and the purse  *)
(* holds nothing.                                                          *)
LEMMA IdleKeeps ==
  ASSUME PurseInv, Shapes', UNCHANGED <<cell, calls>>,
         journal.pending = NoPending, journal'.pending = NoPending, Idle(cell.status),
         journal'.hold.st # "submitted", PcInv'
  PROVE  PurseInv'
<1>1. CellInv'
  BY DEF PurseInv, CellInv, Idle
<1>2. calls = {}
  BY DEF PurseInv, CallInv
<1>3. HoldInv'
  BY <1>2, NoPendingOp DEF HoldInv, HoldRecorded, Idle
<1> QED
  BY <1>1, <1>2, <1>3 DEF PurseInv, CallInv

(* A hold that was never submitted holds nothing.                          *)
LEMMA UnsubmittedIdle ==
  ASSUME PurseInv, journal.hold.st \in Unsubmitted
  PROVE  Idle(cell.status)
BY DEF PurseInv, CellInv, HoldInv, HoldRecorded, Unsubmitted, Idle

(* A step that moves only the handler, to a step that relies on nothing.   *)
LEMMA MovesKeeps ==
  ASSUME PurseInv, UNCHANGED <<journal, cell, calls>>,
         ctl' = Back \/ (\E pc \in FreePcs : ctl' = Goto(pc)) \/ ctl' = ctl
  PROVE  PurseInv'
<1>1. /\ DOMAIN ctl' = CtlFields
      /\ (ctl'.pc = ctl.pc /\ ctl'.then = ctl.then) \/ ctl'.pc \in FreePcs
  <2>1. CASE ctl' = Back
    BY <2>1, BackEffect DEF PurseInv, FreePcs
  <2>2. CASE \E pc \in FreePcs : ctl' = Goto(pc)
    <3>1. PICK pc \in FreePcs : ctl' = Goto(pc)
      BY <2>2
    <3> QED
      BY <3>1, GotoEffect DEF PurseInv
  <2>3. CASE ctl' = ctl
    BY <2>3 DEF PurseInv, Shapes
  <2> QED
    BY <2>1, <2>2, <2>3
<1>2. Shapes'
  BY <1>1 DEF PurseInv, Shapes
<1> QED
  BY <1>1, <1>2, PurseFrame

-----------------------------------------------------------------------------
(* The Host and custody                                                    *)

(* What an admitted call does to the purse.                                *)
LEMMA AfterEffect ==
  ASSUME DOMAIN cell = CellFields, NEW k, NEW att, Applies(k), cell' = After(k, att)
  PROVE  /\ DOMAIN cell' = CellFields
         /\ k.op \in {"attach", "reserve", "settle", "disconnect"}
         /\ k.op = "attach" =>
              cell.status = "detached" /\ cell'.status = "attached" /\ cell'.by = cell.by
         /\ k.op = "reserve" =>
              cell.status = "attached" /\ cell'.status = "reserved" /\ cell'.by = att
         /\ k.op = "settle" =>
              /\ cell.status \in {"reserved", "fenced"}
              /\ cell'.status \in {"attached", "detached"} /\ cell'.by = 0
         /\ k.op = "disconnect" =>
              /\ cell'.by = cell.by
              /\ \/ cell.status = "attached" /\ cell'.status = "detached"
                 \/ cell.status = "reserved" /\ cell'.status = "fenced"
         /\ cell'.root = cell.root + 1
         /\ k.op \in {"attach", "disconnect"} => cell'.gen = cell.gen + 1
         /\ k.op \in {"reserve", "settle"} => cell'.gen = cell.gen
<1> DEFINE moved == [cell EXCEPT !.root = cell.root + 1]
           turned == [moved EXCEPT !.gen = moved.gen + 1]
<1>0. \A f \in {"status", "by"} : moved[f] = cell[f] /\ turned[f] = cell[f]
  BY DEF CellFields
<1>1. /\ DOMAIN moved = CellFields /\ moved.gen = cell.gen /\ moved.root = cell.root + 1
      /\ DOMAIN turned = CellFields /\ turned.gen = cell.gen + 1 /\ turned.root = cell.root + 1
      /\ moved.by = cell.by /\ turned.by = cell.by
  BY <1>0 DEF CellFields
<1>a. cell' = CASE k.op = "attach"  -> [turned EXCEPT !.status = "attached"]
                [] k.op = "reserve" -> [moved EXCEPT !.status = "reserved", !.by = att]
                [] k.op = "settle"  -> [moved EXCEPT !.by = 0,
                      !.status = IF cell.status = "reserved" THEN "attached" ELSE "detached"]
                [] OTHER -> [turned EXCEPT
                      !.status = IF cell.status = "attached" THEN "detached" ELSE "fenced"]
  BY Zenon DEF After
<1> HIDE DEF moved, turned
<1>2. CASE k.op = "attach"
  <2>1. cell' = [turned EXCEPT !.status = "attached"]
    BY <1>2, <1>a, Zenon
  <2>2. cell.status = "detached"
    BY <1>2 DEF Applies
  <2>3. /\ DOMAIN cell' = CellFields /\ cell'.status = "attached" /\ cell'.by = turned.by
        /\ cell'.gen = turned.gen /\ cell'.root = turned.root
    BY <1>1, <2>1, Zenon DEF CellFields
  <2> QED
    BY <1>1, <1>2, <2>2, <2>3
<1>3. CASE k.op = "reserve"
  <2>1. cell' = [moved EXCEPT !.status = "reserved", !.by = att]
    BY <1>3, <1>a, Zenon
  <2>2. cell.status = "attached"
    BY <1>3 DEF Applies
  <2>3. /\ DOMAIN cell' = CellFields /\ cell'.status = "reserved" /\ cell'.by = att
        /\ cell'.gen = moved.gen /\ cell'.root = moved.root
    BY <1>1, <2>1, Zenon DEF CellFields
  <2> QED
    BY <1>1, <1>3, <2>2, <2>3
<1>4. CASE k.op = "settle"
  <2>0. PICK s : s = IF cell.status = "reserved" THEN "attached" ELSE "detached"
    OBVIOUS
  <2>1. cell' = [moved EXCEPT !.by = 0, !.status = s]
    BY <1>4, <1>a, <2>0, Zenon
  <2>2. cell.status \in {"reserved", "fenced"}
    BY <1>4 DEF Applies
  <2>3. s \in {"attached", "detached"}
    BY <2>0
  <2>4. /\ DOMAIN cell' = CellFields /\ cell'.status = s /\ cell'.by = 0
        /\ cell'.gen = moved.gen /\ cell'.root = moved.root
    BY <1>1, <2>1, Zenon DEF CellFields
  <2> QED
    BY <1>1, <1>4, <2>2, <2>3, <2>4
<1>5. CASE k.op = "disconnect"
  <2>0. PICK s : s = IF cell.status = "attached" THEN "detached" ELSE "fenced"
    OBVIOUS
  <2>1. cell.status \in {"attached", "reserved"}
    BY <1>5 DEF Applies
  <2>2. cell' = [turned EXCEPT !.status = s]
    BY <1>5, <1>a, <2>0, Zenon
  <2>3. /\ DOMAIN cell' = CellFields /\ cell'.status = s /\ cell'.by = turned.by
        /\ cell'.gen = turned.gen /\ cell'.root = turned.root
    BY <1>1, <2>2, Zenon DEF CellFields
  <2> QED
    BY <1>1, <1>5, <2>0, <2>1, <2>3
<1>6. k.op \in {"attach", "reserve", "settle", "disconnect"}
  BY DEF Applies
<1> QED
  BY <1>2, <1>3, <1>4, <1>5, <1>6

(* A call is decided: it stays the only one, in its new state.             *)
LEMMA DecidedEffect ==
  ASSUME PurseInv, NEW c \in calls, NEW st, calls' = Decided(c, st)
  PROVE  \E d : /\ calls' = {d} /\ DOMAIN d = CallFields
                /\ d.key = c.key /\ d.att = c.att /\ d.st = st
<1> DEFINE d == [c EXCEPT !.st = st]
<1>1. calls \ {c} = {}
  BY DEF PurseInv, CallInv
<1>2. calls' = {d}
  BY <1>1 DEF Decided
<1>3. /\ DOMAIN d = CallFields /\ d.key = c.key /\ d.att = c.att
      /\ d.st = st
  BY DEF PurseInv, Shapes, CallFields
<1> QED
  BY <1>2, <1>3

(* The handler stays where it is, or goes to a step that relies on nothing.*)
CtlMoves == /\ DOMAIN ctl' = CtlFields
            /\ (ctl'.pc = ctl.pc /\ ctl'.then = ctl.then) \/ ctl'.pc \in FreePcs

(* A call changes its state; the purse changes only if it is admitted.     *)
LEMMA CallMoves ==
  ASSUME PurseInv, NEW c \in calls, NEW st, UNCHANGED journal, CtlMoves,
         calls' = Decided(c, st), DOMAIN cell' = CellFields, CellInv',
         st \in {"rejected", "contended", "expired"} => c.key.op \in {"settle", "disconnect"},
         HoldRecorded',
         c.key.op = "reserve" => (st = "committed" <=> ~Idle(cell'.status)),
         c.key.op = "settle" => (st = "committed" => Idle(cell'.status))
  PROVE  PurseInv'
<1>1. PICK d : /\ calls' = {d} /\ DOMAIN d = CallFields
               /\ d.key = c.key /\ d.att = c.att /\ d.st = st
  BY DecidedEffect
<1>2. Shapes'
  BY <1>1 DEF PurseInv, Shapes, CtlMoves
<1>3. CallOK(c) /\ journal.pending # NoPending
  BY DEF PurseInv, CallInv
<1>4. CallOK(d)'
  BY <1>1, <1>3 DEF CallOK
<1>5. CallInv'
  BY <1>1, <1>3, <1>4 DEF CallInv
<1>6. HoldInv'
  BY <1>1 DEF PurseInv, HoldInv, Idle
<1>7. PcInv'
  <2>1. ctl.pc # "permit"
    BY <1>3 DEF PurseInv, PcInv
  <2> QED
    BY <1>3, <2>1 DEF PurseInv, PcInv, ThenInv, CtlMoves, FreePcs
<1> QED
  BY <1>2, <1>5, <1>6, <1>7 DEF PurseInv

(* The Host admits a call.                                                 *)
LEMMA AdmitKeeps ==
  ASSUME PurseInv, NEW c \in calls, Applies(c.key), Admit(c), c.st # "committed",
         UNCHANGED journal, CtlMoves
  PROVE  PurseInv'
<1>1. /\ DOMAIN cell' = CellFields
      /\ c.key.op \in {"attach", "reserve", "settle", "disconnect"}
      /\ c.key.op = "attach" =>
           cell.status = "detached" /\ cell'.status = "attached" /\ cell'.by = cell.by
      /\ c.key.op = "reserve" =>
           cell.status = "attached" /\ cell'.status = "reserved" /\ cell'.by = c.att
      /\ c.key.op = "settle" =>
           /\ cell.status \in {"reserved", "fenced"}
           /\ cell'.status \in {"attached", "detached"} /\ cell'.by = 0
      /\ c.key.op = "disconnect" =>
           /\ cell'.by = cell.by
           /\ \/ cell.status = "attached" /\ cell'.status = "detached"
              \/ cell.status = "reserved" /\ cell'.status = "fenced"
  <2>1. cell' = After(c.key, c.att) /\ DOMAIN cell = CellFields
    BY DEF Admit, PurseInv, Shapes
  <2> QED
    BY <2>1, AfterEffect
<1>2. CellInv'
  BY <1>1 DEF PurseInv, CellInv, Idle
<1>3. HoldRecorded'
  <2>1. CallOK(c)
    BY DEF PurseInv, CallInv
  <2>2. c.key.op = "reserve" => journal.hold.st = "submitted"
    BY <2>1 DEF PurseInv, HoldInv, CallOK
  <2> QED
    BY <1>1, <2>1, <2>2 DEF PurseInv, HoldInv, HoldRecorded, CallOK
<1>4. calls' = Decided(c, "committed")
  BY DEF Admit
<1> QED
  BY <1>1, <1>2, <1>3, <1>4, CallMoves DEF Idle

(* A call goes on without being admitted.                                  *)
LEMMA CustodyMoves ==
  ASSUME PurseInv, NEW c \in calls, NEW st, UNCHANGED <<journal, cell>>, CtlMoves,
         calls' = Decided(c, st), st # "committed", c.st # "committed",
         st \in {"rejected", "contended", "expired"} => c.key.op \in {"settle", "disconnect"}
  PROVE  PurseInv'
<1>1. DOMAIN cell' = CellFields /\ CellInv' /\ HoldRecorded'
  BY DEF PurseInv, Shapes, CellInv, HoldInv, HoldRecorded, Idle
<1>2. c.key.op = "reserve" => Idle(cell'.status)
  BY DEF PurseInv, HoldInv
<1> QED
  BY <1>1, <1>2, CallMoves

(* The custody child of a call.                                            *)
LEMMA CustodyKeeps ==
  ASSUME PurseInv, NEW c \in calls, Custody(c)
  PROVE  PurseInv'
<1>1. UNCHANGED <<journal, ctl>> /\ CtlMoves
  BY DEF Custody, controller, CtlMoves, PurseInv, Shapes
<1>2. CallOK(c)
  BY DEF PurseInv, CallInv
<1>3. CASE c.st = "preparing" /\ calls' = Decided(c, "sealed") /\ UNCHANGED cell
  BY <1>1, <1>3, CustodyMoves
<1>4. ASSUME c.st = "preparing", UNCHANGED cell,
             NEW st \in {"unsigned", "dead"} \cup (IF Guarded(c) THEN {"rejected"} ELSE {}),
             calls' = Decided(c, st)
      PROVE  PurseInv'
  <2>1. st = "rejected" => c.key.op \in {"settle", "disconnect"}
    BY <1>2, <1>4 DEF Guarded, CallOK
  <2>2. st \notin {"committed", "contended", "expired"}
    BY <1>4
  <2> QED
    BY <1>1, <1>4, <2>1, <2>2, CustodyMoves
<1>5. CASE c.st = "sealed" /\ Decide(c)
  <2>1. CASE Applies(c.key) /\ Admit(c)
    BY <1>1, <1>5, <2>1, AdmitKeeps
  <2>2. CASE calls' = Decided(c, "refused") /\ UNCHANGED cell
    BY <1>1, <1>5, <2>2, CustodyMoves
  <2> QED
    BY <1>5, <2>1, <2>2 DEF Decide
<1>6. CASE c.st = "sealed" /\ Contends(c) /\ calls' = Decided(c, "contended") /\ UNCHANGED cell
  <2>1. c.key.op = "settle"
    BY <1>2, <1>6 DEF CallOK, Contends
  <2> QED
    BY <1>1, <1>6, <2>1, CustodyMoves
<1>7. CASE c.st = "contended" /\ calls' = Decided(c, "expired") /\ UNCHANGED cell
  <2>1. c.key.op \in {"settle", "disconnect"}
    BY <1>2, <1>7 DEF CallOK
  <2> QED
    BY <1>1, <1>7, <2>1, CustodyMoves
<1>8. CASE c.st = "contended" /\ Applies(c.key) /\ Admit(c)
  BY <1>1, <1>8, AdmitKeeps
<1> QED
  BY <1>3, <1>4, <1>5, <1>6, <1>7, <1>8 DEF Custody

(* What the owner may do to the purse.                                     *)
LEMMA OwnerEffect ==
  ASSUME DOMAIN cell = CellFields, OwnerMoves
  PROVE  /\ DOMAIN cell' = CellFields /\ cell'.by = cell.by /\ cell'.root = cell.root + 1
         /\ cell.status \in {"attached", "detached"} /\ cell'.status \in {"attached", "detached"}
<1>1. PICK s \in {"attached", "detached"} :
        cell' = [cell EXCEPT !.root = @ + 1, !.status = s, !.gen = IF s = cell.status THEN @ ELSE @ + 1]
  BY Zenon DEF OwnerMoves
<1>2. PICK g : g = IF s = cell.status THEN cell.gen ELSE cell.gen + 1
  OBVIOUS
<1>3. cell' = [cell EXCEPT !.root = cell.root + 1, !.status = s, !.gen = g]
  BY <1>1, <1>2, Zenon
<1>4. /\ DOMAIN cell' = CellFields /\ cell'.by = cell.by /\ cell'.root = cell.root + 1
      /\ cell'.status = s
  BY <1>3, Zenon DEF CellFields
<1> QED
  BY <1>1, <1>4 DEF OwnerMoves

(* The purse's owner.                                                      *)
LEMMA OwnerKeeps ==
  ASSUME PurseInv, OwnerMoves
  PROVE  PurseInv'
<1>1. UNCHANGED <<journal, ctl, calls>>
  BY DEF OwnerMoves, controller
<1>2. /\ Idle(cell.status) /\ Idle(cell'.status) /\ DOMAIN cell' = CellFields
      /\ cell'.by = cell.by
  <2>1. DOMAIN cell = CellFields
    BY DEF PurseInv, Shapes
  <2> QED
    BY <2>1, OwnerEffect DEF Idle
<1>3. Shapes'
  BY <1>1, <1>2 DEF PurseInv, Shapes
<1>4. CellInv'
  BY <1>2 DEF PurseInv, CellInv, Idle
<1>5. CallInv'
  BY <1>1 DEF PurseInv, CallInv, CallOK
<1>6. HoldInv'
  BY <1>1, <1>2 DEF PurseInv, HoldInv, HoldRecorded, Idle
<1>7. PcInv'
  BY <1>1, <1>2 DEF PurseInv, PcInv, ThenInv
<1> QED
  BY <1>3, <1>4, <1>5, <1>6, <1>7 DEF PurseInv

-----------------------------------------------------------------------------
(* Calls that return                                                       *)

(* A handler whose call failed gives up, or goes on to fence the purse.    *)
LEMMA CallFailedEffect ==
  ASSUME Shapes, CallFailed
  PROVE  /\ DOMAIN ctl' = CtlFields /\ ctl'.pc \in {"loop", "fence"}
         /\ ctl.mode = "prompt" => ctl'.mode = "prompt"
         /\ ctl'.mode = "prompt" => ctl.mode = "prompt"
         /\ ctl'.pc = "loop" \/ ctl.mode = "disconnect"
<1>1. CASE ctl.mode = "disconnect" /\ ctl' = Goto("fence")
  BY <1>1, GotoEffect
<1>2. CASE ctl' = Back
  BY <1>2, BackEffect
<1> QED
  BY <1>1, <1>2 DEF CallFailed

(* Where no call is pending and nothing is relied on.                      *)
LEMMA FreeRelies ==
  ASSUME ctl'.pc \in FreePcs
  PROVE  PcInv'
BY DEF PcInv, FreePcs

(* CallConfirmed: the handler goes on with what it wanted next.            *)
LEMMA CallConfirmedKeeps ==
  ASSUME PurseInv, CallConfirmed
  PROVE  PurseInv'
<1>1. /\ ctl.pc = "call" /\ PendingCall.st = "committed"
      /\ journal' = Confirmed /\ calls' = Undecided /\ ctl' = Goto(ctl.then)
      /\ UNCHANGED cell
  BY DEF CallConfirmed
<1>2. journal.pending # NoPending /\ ThenInv(ctl.then, journal.pending.op, journal.hold.st)
  BY <1>1 DEF PurseInv, PcInv
<1>3. PendingCall \in calls /\ CallOK(PendingCall) /\ calls' = {}
  BY <1>1, <1>2, PendingIsCall, UndecidedEmpty DEF PurseInv
<1>4. /\ journal.pending.op \in {"attach", "reserve", "settle", "disconnect"}
      /\ journal.pending.op = "attach" => journal.hold.st = "none"
      /\ journal.pending.op = "reserve" => ~Idle(cell.status)
      /\ journal.pending.op = "settle" => Idle(cell.status)
      /\ journal.hold.st = "submitted" => journal.pending.op = "reserve"
  BY <1>1, <1>3 DEF PurseInv, HoldInv, CallOK
<1>5. /\ DOMAIN journal' = JournalFields /\ DOMAIN journal'.hold = HoldFields
      /\ journal'.pending = NoPending /\ journal'.attempt = journal.attempt
      /\ journal.pending.op = "reserve" => journal'.hold.st = "confirmed"
      /\ journal.pending.op = "settle" => journal'.hold = NoHold
      /\ journal.pending.op \notin {"reserve", "settle"} => journal'.hold = journal.hold
  BY <1>1, ConfirmedEffect DEF PurseInv
<1>6. DOMAIN ctl' = CtlFields /\ ctl'.pc = ctl.then
  BY <1>1, GotoEffect DEF PurseInv
<1>7. Shapes'
  BY <1>1, <1>3, <1>5, <1>6 DEF PurseInv, Shapes
<1>8. PcInv'
  <2>1. \/ ctl'.pc = "mark" /\ journal'.hold.st = "none"
        \/ ctl'.pc = "permit" /\ ~Idle(cell'.status)
        \/ ctl'.pc \in {"settled", "cleared", "audited"} /\ journal'.hold.st = "none"
        \/ ctl'.pc = "clear" /\ journal'.hold.st = "none"
        \/ ctl'.pc = "fenced"
        \/ ctl'.pc = "audit_settle" /\ journal'.hold.st = "confirmed"
        \/ ctl'.pc = "aborted" /\ journal'.hold.st \in Unsubmitted
    BY <1>1, <1>2, <1>4, <1>5, <1>6, NoPendingOp DEF ThenInv
  <2> QED
    BY <1>5, <2>1 DEF PcInv
<1>9. ~Idle(cell.status) => journal'.hold.st = "confirmed"
  <2>1. ~Idle(cell.status) => journal.hold.st \in {"submitted", "confirmed"}
    BY DEF PurseInv, CellInv, HoldInv, HoldRecorded, Idle
  <2> QED
    BY <1>4, <1>5, <2>1
<1>10. journal'.hold.st # "submitted"
  BY <1>4, <1>5, NoPendingOp
<1> QED
  BY <1>1, <1>3, <1>5, <1>7, <1>8, <1>9, <1>10, EndKeeps

(* A pending call that was not admitted leaves its slot; the hold of a     *)
(* reserve goes back to a state in which it was not submitted.             *)
LEMMA DropKeeps ==
  ASSUME PurseInv, journal.pending # NoPending, PendingCall.st # "committed",
         NEW st \in {"refused", "marked"},
         journal' = [journal EXCEPT !.pending = NoPending,
                       !.hold.st = IF journal.pending.op = "reserve" THEN st ELSE @],
         calls' = {}, UNCHANGED cell, DOMAIN ctl' = CtlFields, ctl'.pc \in FreePcs
  PROVE  PurseInv'
<1>1. /\ DOMAIN journal' = JournalFields /\ DOMAIN journal'.hold = HoldFields
      /\ journal'.pending = NoPending /\ journal'.attempt = journal.attempt
      /\ journal'.hold.st = IF journal.pending.op = "reserve" THEN st ELSE journal.hold.st
  BY DroppedEffect DEF PurseInv
<1>2. Shapes'
  BY <1>1 DEF PurseInv, Shapes
<1>3. PendingCall \in calls /\ CallOK(PendingCall)
  BY PendingIsCall DEF PurseInv
<1>4. journal.pending.op = "reserve" => Idle(cell.status)
  BY <1>3 DEF PurseInv, HoldInv, CallOK
<1>5. journal.hold.st = "submitted" <=> journal.pending.op = "reserve"
  BY DEF PurseInv, HoldInv
<1>6. ~Idle(cell.status) => journal.hold.st \in {"submitted", "confirmed"}
  BY DEF PurseInv, CellInv, HoldInv, HoldRecorded, Idle
<1> QED
  BY <1>1, <1>2, <1>4, <1>5, <1>6, FreeRelies, EndKeeps

(* A pending call that is no reserve leaves its slot.                      *)
LEMMA ClearKeeps ==
  ASSUME PurseInv, journal.pending # NoPending, journal.pending.op # "reserve",
         journal' = [journal EXCEPT !.pending = NoPending],
         calls' = {}, UNCHANGED cell, DOMAIN ctl' = CtlFields,
         ctl'.pc \in FreePcs \cup {"audit"}
  PROVE  PurseInv'
<1>1. /\ DOMAIN journal' = JournalFields /\ journal'.hold = journal.hold
      /\ journal'.pending = NoPending /\ journal'.attempt = journal.attempt
  BY SlotCleared DEF PurseInv
<1>2. Shapes'
  BY <1>1 DEF PurseInv, Shapes
<1>3. journal.hold.st # "submitted"
  BY DEF PurseInv, HoldInv
<1>4. ~Idle(cell.status) => journal.hold.st \in {"submitted", "confirmed"}
  BY DEF PurseInv, CellInv, HoldInv, HoldRecorded, Idle
<1>5. PcInv'
  BY <1>1 DEF PcInv, FreePcs
<1> QED
  BY <1>1, <1>2, <1>3, <1>4, <1>5, EndKeeps

(* CallRefused: refused or never signed.                                   *)
LEMMA CallRefusedKeeps ==
  ASSUME PurseInv, CallRefused
  PROVE  PurseInv'
<1>1. /\ ctl.pc = "call" /\ PendingCall.st \in {"refused", "unsigned"}
      /\ journal' = RefusedCall /\ calls' = Undecided /\ CallFailed /\ UNCHANGED cell
  BY DEF CallRefused
<1>2. journal.pending # NoPending
  BY <1>1 DEF PurseInv, PcInv
<1>3. calls' = {} /\ DOMAIN ctl' = CtlFields /\ ctl'.pc \in FreePcs
  BY <1>1, <1>2, UndecidedEmpty, CallFailedEffect DEF PurseInv, FreePcs
<1> QED
  BY <1>1, <1>2, <1>3, DropKeeps DEF RefusedCall

(* CallBeforeSpawn: the hard stop came first.                              *)
LEMMA CallBeforeSpawnKeeps ==
  ASSUME PurseInv, CallBeforeSpawn
  PROVE  PurseInv'
<1>1. /\ ctl.pc = "call" /\ PendingCall.st = "preparing"
      /\ journal' = [journal EXCEPT !.pending = NoPending,
                       !.hold.st = IF journal.pending.op = "reserve" THEN "marked" ELSE @]
      /\ calls' = calls \ {PendingCall} /\ CallFailed /\ UNCHANGED cell
  BY Zenon DEF CallBeforeSpawn
<1>2. journal.pending # NoPending
  BY <1>1 DEF PurseInv, PcInv
<1>3. calls' = {} /\ DOMAIN ctl' = CtlFields /\ ctl'.pc \in FreePcs
  BY <1>1, <1>2, PendingIsCall, CallFailedEffect DEF PurseInv, FreePcs
<1> QED
  BY <1>1, <1>2, <1>3, DropKeeps

(* CallUncertain: the journal keeps the call.                              *)
LEMMA CallUncertainKeeps ==
  ASSUME PurseInv, CallUncertain
  PROVE  PurseInv'
<1>1. CallFailed /\ UNCHANGED <<journal, cell, calls>>
  BY DEF CallUncertain, purse
<1>2. DOMAIN ctl' = CtlFields /\ ctl'.pc \in FreePcs
  BY <1>1, CallFailedEffect DEF PurseInv, FreePcs
<1>3. Shapes'
  BY <1>1, <1>2 DEF PurseInv, Shapes
<1> QED
  BY <1>1, <1>2, <1>3, PurseFrame

(* SettleAfresh: the settle was never signed.                              *)
LEMMA SettleAfreshKeeps ==
  ASSUME PurseInv, SettleAfresh
  PROVE  PurseInv'
<1>1. /\ ctl.pc = "call" /\ journal.pending.label = "settle"
      /\ PendingCall.st \in {"rejected", "dead"}
      /\ journal' = [journal EXCEPT !.pending = NoPending] /\ calls' = Undecided
      /\ ctl' = Goto("settle") /\ UNCHANGED cell
  BY DEF SettleAfresh
<1>2. journal.pending # NoPending
  BY <1>1 DEF PurseInv, PcInv
<1>3. calls' = {} /\ DOMAIN ctl' = CtlFields /\ ctl'.pc \in FreePcs
  BY <1>1, <1>2, UndecidedEmpty, GotoEffect DEF PurseInv, FreePcs
<1>4. journal.pending.op = "settle"
  BY <1>1, <1>2, PendingIsCall DEF PurseInv, CallOK
<1> QED
  BY <1>1, <1>2, <1>3, <1>4, ClearKeeps

(* RetryPending: drop, confirm, submit once more, or keep the call.        *)
LEMMA RetryPendingKeeps ==
  ASSUME PurseInv, RetryPending
  PROVE  PurseInv'
<1>1. ctl.pc = "pending" /\ AfterPending \in {"audit", "retire"}
  BY DEF RetryPending, AfterPending
<1>2. CASE journal.pending = NoPending /\ ctl' = Goto(AfterPending) /\ UNCHANGED <<journal, purse>>
  <2>1. DOMAIN ctl' = CtlFields /\ ctl'.pc \in {"audit", "retire"}
    BY <1>1, <1>2, GotoEffect DEF PurseInv
  <2>2. Shapes' /\ CellInv' /\ CallInv'
    BY <1>2, <2>1 DEF PurseInv, Shapes, CellInv, CallInv, CallOK, Idle, purse
  <2>3. HoldInv'
    BY <1>2 DEF PurseInv, HoldInv, HoldRecorded, Idle, purse
  <2>4. PcInv'
    BY <1>2, <2>1 DEF PcInv
  <2> QED
    BY <2>2, <2>3, <2>4 DEF PurseInv
<1>3. CASE /\ journal.pending # NoPending /\ PendingCall.st = "unsigned"
           /\ journal' = RefusedCall /\ calls' = Undecided
           /\ ctl' = Goto(AfterPending) /\ UNCHANGED cell
  <2>1. calls' = {} /\ DOMAIN ctl' = CtlFields /\ ctl'.pc \in {"audit", "retire"}
    BY <1>1, <1>3, UndecidedEmpty, GotoEffect DEF PurseInv
  <2>2. /\ DOMAIN journal' = JournalFields /\ DOMAIN journal'.hold = HoldFields
        /\ journal'.pending = NoPending /\ journal'.attempt = journal.attempt
        /\ journal'.hold.st = IF journal.pending.op = "reserve" THEN "refused"
                              ELSE journal.hold.st
    BY <1>3, DroppedEffect DEF PurseInv, RefusedCall
  <2>3. Shapes' /\ PcInv'
    BY <1>3, <2>1, <2>2 DEF PurseInv, Shapes, PcInv
  <2>4. PendingCall \in calls /\ CallOK(PendingCall)
    BY <1>3, PendingIsCall DEF PurseInv
  <2>5. journal.pending.op = "reserve" => Idle(cell.status)
    BY <1>3, <2>4 DEF PurseInv, HoldInv, CallOK
  <2>6. journal.hold.st = "submitted" <=> journal.pending.op = "reserve"
    BY DEF PurseInv, HoldInv
  <2>7. ~Idle(cell.status) => journal.hold.st \in {"submitted", "confirmed"}
    BY DEF PurseInv, CellInv, HoldInv, HoldRecorded, Idle
  <2> QED
    BY <1>3, <2>1, <2>2, <2>3, <2>5, <2>6, <2>7, EndKeeps
<1>4. CASE /\ journal.pending # NoPending /\ PendingCall.st \in {"rejected", "expired"}
           /\ journal' = [journal EXCEPT !.pending = NoPending] /\ calls' = Undecided
           /\ ctl' = Goto(AfterPending) /\ UNCHANGED cell
  <2>1. calls' = {} /\ DOMAIN ctl' = CtlFields /\ ctl'.pc \in FreePcs \cup {"audit"}
    BY <1>1, <1>4, UndecidedEmpty, GotoEffect DEF PurseInv, FreePcs
  <2>2. journal.pending.op # "reserve"
    BY <1>4, PendingIsCall DEF PurseInv, CallOK
  <2> QED
    BY <1>4, <2>1, <2>2, ClearKeeps
<1>5. CASE /\ journal.pending # NoPending /\ PendingCall.st = "committed"
           /\ journal' = Confirmed /\ calls' = Undecided
           /\ ctl' = Goto(AfterPending) /\ UNCHANGED cell
  <2>1. calls' = {} /\ DOMAIN ctl' = CtlFields /\ ctl'.pc \in {"audit", "retire"}
    BY <1>1, <1>5, UndecidedEmpty, GotoEffect DEF PurseInv
  <2>2. /\ DOMAIN journal' = JournalFields /\ DOMAIN journal'.hold = HoldFields
        /\ journal'.pending = NoPending /\ journal'.attempt = journal.attempt
        /\ journal.pending.op = "reserve" => journal'.hold.st = "confirmed"
        /\ journal.pending.op = "settle" => journal'.hold = NoHold
        /\ journal.pending.op \notin {"reserve", "settle"} => journal'.hold = journal.hold
    BY <1>5, ConfirmedEffect DEF PurseInv
  <2>3. Shapes' /\ PcInv'
    BY <1>5, <2>1, <2>2 DEF PurseInv, Shapes, PcInv
  <2>4. PendingCall \in calls /\ CallOK(PendingCall)
    BY <1>5, PendingIsCall DEF PurseInv
  <2>5. journal.pending.op = "settle" => Idle(cell.status)
    BY <1>5, <2>4 DEF PurseInv, HoldInv, CallOK
  <2>6. journal.hold.st = "submitted" <=> journal.pending.op = "reserve"
    BY DEF PurseInv, HoldInv
  <2>7. ~Idle(cell.status) => journal.hold.st \in {"submitted", "confirmed"}
    BY DEF PurseInv, CellInv, HoldInv, HoldRecorded, Idle
  <2>8. journal'.hold.st # "submitted"
    BY <2>2, <2>6, NoPendingOp
  <2> QED
    BY <1>5, <2>1, <2>2, <2>3, <2>5, <2>6, <2>7, <2>8, EndKeeps
<1>6. CASE /\ journal.pending # NoPending /\ PendingCall.st = "sealed"
           /\ Decide(PendingCall) /\ UNCHANGED journal
           /\ ctl' = IF Applies(journal.pending) THEN ctl ELSE Back
  <2>1. PendingCall \in calls
    BY <1>6, PendingIsCall DEF PurseInv
  <2>2. CtlMoves
    <3>1. CASE ctl' = ctl
      BY <3>1 DEF CtlMoves, PurseInv, Shapes
    <3>2. CASE ctl' = Back
      BY <3>2, BackEffect DEF CtlMoves, PurseInv, FreePcs
    <3> QED
      BY <1>6, <3>1, <3>2
  <2>3. CASE Applies(PendingCall.key) /\ Admit(PendingCall)
    BY <1>6, <2>1, <2>2, <2>3, AdmitKeeps
  <2>4. CASE calls' = Decided(PendingCall, "refused") /\ UNCHANGED cell
    BY <1>6, <2>1, <2>2, <2>4, CustodyMoves
  <2> QED
    BY <1>6, <2>3, <2>4 DEF Decide
<1>7. CASE ctl' = Back /\ UNCHANGED <<journal, purse>>
  BY <1>7, MovesKeeps DEF purse
<1> QED
  BY <1>2, <1>3, <1>4, <1>5, <1>6, <1>7 DEF RetryPending

-----------------------------------------------------------------------------
(* Handlers of the controller                                              *)

(* A step of the handler that leaves journal and purse alone.              *)
LEMMA StepKeeps ==
  ASSUME PurseInv, UNCHANGED <<journal, cell, calls>>, DOMAIN ctl' = CtlFields, PcInv'
  PROVE  PurseInv'
<1>1. Shapes' /\ CellInv' /\ CallInv'
  BY DEF PurseInv, Shapes, CellInv, CallInv, CallOK, Idle
<1>2. HoldInv'
  BY DEF PurseInv, HoldInv, HoldRecorded, Idle
<1> QED
  BY <1>1, <1>2 DEF PurseInv

(* provider_reserve up to the durable attempt: the purse is idle.          *)
LEMMA ProviderReserveKeeps ==
  ASSUME PurseInv, ProviderReserve
  PROVE  PurseInv'
<1> DEFINE c == Head(cmds)
           a == [NoAttempt EXCEPT !.id = journal.next, !.prompt = c.prompt,
                                  !.body = c.body, !.lease = c.lease]
           j == [journal EXCEPT !.next = @ + 1, !.settlement = 0, !.attempt = a]
<1>1. UNCHANGED <<cell, calls>>
  BY DEF ProviderReserve, purse
<1>2. CASE UNCHANGED <<journal, ctl>>
  BY <1>1, <1>2, MovesKeeps
<1>3. CASE ~Unresolved /\ journal' = j /\ ctl' = Goto("opened")
  <2>1. DOMAIN a = AttemptFields
    BY NoPendingOp, Zenon DEF AttemptFields
  <2> HIDE DEF a
  <2>2. /\ DOMAIN journal' = JournalFields /\ journal'.attempt = a
        /\ journal'.hold = journal.hold /\ journal'.pending = journal.pending
    BY <1>3, Zenon DEF PurseInv, Shapes, JournalFields
  <2>3. DOMAIN ctl' = CtlFields /\ ctl'.pc = "opened"
    BY <1>3, GotoEffect DEF PurseInv
  <2>4. journal.pending = NoPending /\ journal.hold.st = "none"
    BY <1>3, NoPendingOp DEF Unresolved
  <2>5. Shapes'
    BY <1>1, <2>1, <2>2, <2>3 DEF PurseInv, Shapes
  <2>6. PcInv'
    BY <2>2, <2>3, <2>4 DEF PcInv
  <2>7. Idle(cell.status)
    BY <2>4, UnsubmittedIdle DEF Unsubmitted
  <2> QED
    BY <1>1, <2>2, <2>4, <2>5, <2>6, <2>7, IdleKeeps
<1>4. UNCHANGED <<journal, ctl>> \/ (~Unresolved /\ journal' = j /\ ctl' = Goto("opened"))
  <2>1. CASE ~LeaseCurrent(c.prompt) \/ Unresolved
    BY <2>1, Zenon DEF ProviderReserve, controller
  <2>2. CASE ~(~LeaseCurrent(c.prompt) \/ Unresolved) /\ Replays(c.prompt, c.body) # {}
    BY <2>2, Zenon DEF ProviderReserve, controller
  <2>3. CASE ~(~LeaseCurrent(c.prompt) \/ Unresolved) /\ Replays(c.prompt, c.body) = {}
    BY <2>3, Zenon DEF ProviderReserve, controller
  <2> QED
    BY <2>1, <2>2, <2>3
<1> QED
  BY <1>2, <1>3, <1>4

(* Attaching the purse for an attempt that has no hold.                    *)
LEMMA ReserveAttachKeeps ==
  ASSUME PurseInv, ReserveAttach
  PROVE  PurseInv'
<1>1. ctl.pc = "opened" /\ BeginCall(journal, "attach", "attach", 0, "mark")
  BY DEF ReserveAttach
<1>2. journal.hold.st = "none"
  BY <1>1 DEF PurseInv, PcInv
<1>3. DOMAIN journal = JournalFields /\ DOMAIN journal.attempt = AttemptFields
  BY DEF PurseInv, Shapes
<1> QED
  BY <1>1, <1>2, <1>3, BeginKeeps DEF ThenInv

(* Marking the hold: nothing is held yet.                                  *)
LEMMA ReserveMarkKeeps ==
  ASSUME PurseInv, ReserveMark
  PROVE  PurseInv'
<1> DEFINE h == [st |-> "marked", root |-> cell.root, gen |-> cell.gen]
<1>1. /\ ctl.pc \in {"opened", "mark"} /\ journal' = [journal EXCEPT !.hold = h]
      /\ ctl' = Goto("reserve") /\ UNCHANGED <<cell, calls>>
  BY DEF ReserveMark, purse
<1>2. DOMAIN h = HoldFields /\ h.st = "marked"
  BY DEF HoldFields
<1> HIDE DEF h
<1>3. /\ DOMAIN journal' = JournalFields /\ journal'.attempt = journal.attempt
      /\ journal'.pending = journal.pending /\ journal'.hold = h
  BY <1>1 DEF PurseInv, Shapes, JournalFields
<1>4. DOMAIN ctl' = CtlFields /\ ctl'.pc = "reserve"
  BY <1>1, GotoEffect DEF PurseInv
<1>5. journal.pending = NoPending /\ journal.hold.st = "none"
  BY <1>1 DEF PurseInv, PcInv
<1>6. Shapes'
  BY <1>1, <1>2, <1>3, <1>4 DEF PurseInv, Shapes
<1>7. PcInv'
  BY <1>2, <1>3, <1>4, <1>5 DEF PcInv
<1>8. Idle(cell.status)
  BY <1>5, UnsubmittedIdle DEF Unsubmitted
<1> QED
  BY <1>1, <1>2, <1>3, <1>5, <1>6, <1>7, <1>8, IdleKeeps

(* Submitting the reserve for a marked hold.                               *)
LEMMA ReserveSubmitKeeps ==
  ASSUME PurseInv, ReserveSubmit
  PROVE  PurseInv'
<1>1. ctl.pc = "reserve" /\ BeginCall(journal, "reserve", "reserve", 0, "permit")
  BY DEF ReserveSubmit
<1>2. Idle(cell.status)
  BY <1>1, UnsubmittedIdle DEF PurseInv, PcInv, Unsubmitted
<1>3. DOMAIN journal = JournalFields /\ DOMAIN journal.attempt = AttemptFields
  BY DEF PurseInv, Shapes
<1> QED
  BY <1>1, <1>2, <1>3, BeginKeeps DEF ThenInv

(* The steps of a reserve that only answer.                                *)
LEMMA ReserveAnswersKeep ==
  ASSUME PurseInv, ReservePermit \/ ReserveFails \/ ProviderPrepare \/ FencedPurse
  PROVE  PurseInv'
<1>1. UNCHANGED <<journal, cell, calls>> /\ (ctl' = Back \/ ctl' = ctl)
  BY DEF ReservePermit, ReserveFails, ReserveStops, ProviderPrepare, FencedPurse, purse,
         controller
<1> QED
  BY <1>1, MovesKeeps

(* provider_before_send: the send mark.                                    *)
LEMMA BeforeSendEffect ==
  ASSUME Shapes, ProviderBeforeSend
  PROVE  /\ UNCHANGED <<ctl, cell, calls, settled, key, exec>>
         /\ \/ UNCHANGED journal /\ Reply("before", "err")
            \/ /\ MaySend(Head(cmds)) /\ Reply("before", "ok")
               /\ DOMAIN journal' = JournalFields /\ DOMAIN journal'.attempt = AttemptFields
               /\ journal'.hold = journal.hold /\ journal'.pending = journal.pending
               /\ journal'.next = journal.next /\ journal'.attempt.id = journal.attempt.id
               /\ journal'.attempt.outcome = journal.attempt.outcome
               /\ journal'.attempt.sent = TRUE
<1>1. UNCHANGED <<ctl, cell, calls, settled, key, exec>>
  BY DEF ProviderBeforeSend, purse, upstream
<1>2. CASE /\ MaySend(Head(cmds)) /\ Reply("before", "ok")
           /\ journal' = [journal EXCEPT !.attempt.sent = TRUE]
  <2>1. /\ DOMAIN journal' = JournalFields /\ journal'.hold = journal.hold
        /\ journal'.pending = journal.pending /\ journal'.next = journal.next
        /\ journal'.attempt = [journal.attempt EXCEPT !.sent = TRUE]
    BY <1>2 DEF Shapes, JournalFields
  <2>2. /\ DOMAIN journal'.attempt = AttemptFields
        /\ journal'.attempt.id = journal.attempt.id
        /\ journal'.attempt.outcome = journal.attempt.outcome
        /\ journal'.attempt.sent = TRUE
    BY <2>1 DEF Shapes, AttemptFields
  <2> QED
    BY <1>1, <1>2, <2>1, <2>2
<1>3. CASE UNCHANGED journal /\ Reply("before", "err")
  BY <1>1, <1>3
<1>4. \/ UNCHANGED journal /\ Reply("before", "err")
      \/ /\ MaySend(Head(cmds)) /\ Reply("before", "ok")
         /\ journal' = [journal EXCEPT !.attempt.sent = TRUE]
  BY Zenon DEF ProviderBeforeSend
<1> QED
  BY <1>2, <1>3, <1>4

(* provider_record_outcome.                                                *)
LEMMA OutcomeEffect ==
  ASSUME Shapes, ProviderOutcome
  PROVE  /\ UNCHANGED <<cell, calls, settled, key, exec>>
         /\ \/ UNCHANGED <<journal, ctl>>
            \/ /\ journal.attempt.id = Head(cmds).att /\ journal.attempt.outcome = "none"
               /\ DOMAIN journal' = JournalFields /\ DOMAIN journal'.attempt = AttemptFields
               /\ journal'.hold = journal.hold /\ journal'.pending = journal.pending
               /\ journal'.next = journal.next /\ journal'.attempt.id = journal.attempt.id
               /\ journal'.attempt.outcome = Head(cmds).out
               /\ journal'.attempt.sent = journal.attempt.sent
               /\ ctl' = ctl \/ ctl' = Goto("settle")
<1> DEFINE c == Head(cmds)
           g == GateAfter(journal.attempt.body, c.out)
           recorded == [journal EXCEPT !.attempt.outcome = c.out, !.gate = g]
           quoted == [recorded EXCEPT !.attempt.quoted = TRUE]
<1>1. UNCHANGED <<cell, calls, settled, key, exec>>
  BY DEF ProviderOutcome, purse, upstream
<1>2. /\ DOMAIN recorded = JournalFields
      /\ recorded.hold = journal.hold /\ recorded.pending = journal.pending
      /\ recorded.next = journal.next
      /\ recorded.attempt = [journal.attempt EXCEPT !.outcome = c.out]
  <2> HIDE DEF g, c
  <2> QED
    BY Zenon DEF Shapes, JournalFields
<1>3. /\ DOMAIN recorded.attempt = AttemptFields
      /\ recorded.attempt.id = journal.attempt.id
      /\ recorded.attempt.outcome = c.out
      /\ recorded.attempt.sent = journal.attempt.sent
  <2> HIDE DEF recorded, c
  <2> QED
    BY <1>2 DEF Shapes, AttemptFields
<1>4. /\ DOMAIN quoted = JournalFields /\ DOMAIN quoted.attempt = AttemptFields
      /\ quoted.hold = journal.hold /\ quoted.pending = journal.pending
      /\ quoted.next = journal.next /\ quoted.attempt.id = journal.attempt.id
      /\ quoted.attempt.outcome = c.out
      /\ quoted.attempt.sent = journal.attempt.sent
  <2> HIDE DEF recorded, c
  <2>1. /\ DOMAIN quoted = JournalFields
        /\ quoted.hold = recorded.hold /\ quoted.pending = recorded.pending
        /\ quoted.next = recorded.next
        /\ quoted.attempt = [recorded.attempt EXCEPT !.quoted = TRUE]
    BY <1>2 DEF JournalFields
  <2> HIDE DEF quoted
  <2> QED
    BY <1>2, <1>3, <2>1 DEF AttemptFields
<1>5. \/ UNCHANGED <<journal, ctl>>
      \/ /\ journal.attempt.id = c.att /\ journal.attempt.outcome = "none"
         /\ journal' = recorded \/ journal' = quoted
         /\ ctl' = ctl \/ ctl' = Goto("settle")
  BY Zenon DEF ProviderOutcome, controller
<1> HIDE DEF c, recorded, quoted
<1>6. CASE UNCHANGED <<journal, ctl>>
  BY <1>1, <1>6
<1>7. CASE /\ journal.attempt.id = c.att /\ journal.attempt.outcome = "none"
           /\ journal' = recorded \/ journal' = quoted
           /\ ctl' = ctl \/ ctl' = Goto("settle")
  BY <1>1, <1>2, <1>3, <1>4, <1>7 DEF c
<1> QED
  BY <1>5, <1>6, <1>7

(* provider_delivery: the replay entry.                                    *)
LEMMA DeliveryEffect ==
  ASSUME Shapes, ProviderDelivery
  PROVE  /\ UNCHANGED <<cell, calls, settled, key, exec>>
         /\ \/ UNCHANGED <<journal, ctl>>
            \/ /\ journal.attempt.outcome \in Received
               /\ DOMAIN journal' = JournalFields
               /\ journal'.hold = journal.hold /\ journal'.pending = journal.pending
               /\ journal'.next = journal.next /\ journal'.attempt = journal.attempt
               /\ ctl' = Goto("settle")
<1>1. UNCHANGED <<cell, calls, settled, key, exec>>
  BY DEF ProviderDelivery, purse, upstream
<1>2. \/ UNCHANGED <<journal, ctl>>
      \/ /\ journal.attempt.outcome \in Received
         /\ ctl' = Goto("settle")
         /\ \E r : journal' = [journal EXCEPT !.replays = r]
  BY Zenon DEF ProviderDelivery, controller
<1>3. CASE UNCHANGED <<journal, ctl>>
  BY <1>1, <1>3
<1>4. CASE /\ journal.attempt.outcome \in Received
           /\ ctl' = Goto("settle")
           /\ \E r : journal' = [journal EXCEPT !.replays = r]
  <2>1. PICK r : journal' = [journal EXCEPT !.replays = r]
    BY <1>4
  <2> QED
    BY <1>1, <1>4, <2>1 DEF Shapes, JournalFields
<1> QED
  BY <1>2, <1>3, <1>4

(* The handlers of a send, an outcome and a delivery leave the purse alone.*)
LEMMA RecordsKeep ==
  ASSUME PurseInv, ProviderBeforeSend \/ ProviderOutcome \/ ProviderDelivery
  PROVE  PurseInv'
<1>1. /\ UNCHANGED <<cell, calls>>
      /\ journal'.pending = journal.pending /\ journal'.hold = journal.hold
      /\ journal'.attempt.id = journal.attempt.id
      /\ DOMAIN journal' = JournalFields /\ DOMAIN journal'.attempt = AttemptFields
      /\ ctl' = ctl \/ ctl' = Goto("settle")
  <2>1. CASE ProviderBeforeSend
    BY <2>1, BeforeSendEffect DEF PurseInv, Shapes
  <2>2. CASE ProviderOutcome
    BY <2>2, OutcomeEffect DEF PurseInv, Shapes
  <2>3. CASE ProviderDelivery
    BY <2>3, DeliveryEffect DEF PurseInv, Shapes
  <2> QED
    BY <2>1, <2>2, <2>3
<1>2. /\ DOMAIN ctl' = CtlFields
      /\ (ctl'.pc = ctl.pc /\ ctl'.then = ctl.then) \/ ctl'.pc \in FreePcs
  <2>1. CASE ctl' = ctl
    BY <2>1 DEF PurseInv, Shapes
  <2>2. CASE ctl' = Goto("settle")
    BY <2>2, GotoEffect DEF PurseInv, FreePcs
  <2> QED
    BY <1>1, <2>1, <2>2
<1>3. Shapes'
  BY <1>1, <1>2 DEF PurseInv, Shapes
<1> QED
  BY <1>1, <1>2, <1>3, PurseFrame

(* provider_settle of a confirmed hold.                                    *)
LEMMA ProviderSettleKeeps ==
  ASSUME PurseInv, ProviderSettle
  PROVE  PurseInv'
<1> DEFINE charge == IF journal.attempt.outcome = "notsent" THEN 0 ELSE Quote
<1>1. CASE SettleReady /\ BeginCall(journal, "settle", "settle", charge, "settled")
  <2>1. journal.hold.st = "confirmed"
    BY <1>1 DEF SettleReady, Coordinates
  <2>2. DOMAIN journal = JournalFields /\ DOMAIN journal.attempt = AttemptFields
    BY DEF PurseInv, Shapes
  <2> HIDE DEF charge
  <2> QED
    BY <1>1, <2>1, <2>2, BeginKeeps DEF ThenInv
<1>2. CASE ctl' = Back /\ UNCHANGED <<journal, purse>>
  BY <1>2, MovesKeeps DEF purse
<1> QED
  BY <1>1, <1>2 DEF ProviderSettle

(* After a settlement, under the label of whoever settled.                 *)
LEMMA AfterSettleKeeps ==
  ASSUME PurseInv, NEW pc \in {"settled", "audited"},
         NEW label \in {"disconnect", "audit_disconnect"}, AfterSettle(pc, label, "clear")
  PROVE  PurseInv'
<1>1. journal.pending = NoPending /\ journal.hold.st = "none" /\ ctl.pc = pc
  BY DEF AfterSettle, PurseInv, PcInv
<1>2. CASE BeginCall(journal, "disconnect", label, 0, "clear")
  <2>1. DOMAIN journal = JournalFields /\ DOMAIN journal.attempt = AttemptFields
    BY DEF PurseInv, Shapes
  <2> QED
    BY <1>1, <1>2, <2>1, BeginKeeps DEF ThenInv
<1>3. CASE UNCHANGED <<journal, purse>> /\ ctl' = Back
  BY <1>3, MovesKeeps DEF purse
<1>4. CASE UNCHANGED <<journal, purse>> /\ ctl' = Goto("clear")
  <2>1. DOMAIN ctl' = CtlFields /\ ctl'.pc = "clear"
    BY <1>4, GotoEffect DEF PurseInv
  <2>2. PcInv'
    BY <1>1, <1>4, <2>1 DEF PcInv
  <2> QED
    BY <1>4, <2>1, <2>2, StepKeeps DEF purse
<1> QED
  BY <1>2, <1>3, <1>4 DEF AfterSettle

(* The attempt is forgotten while the purse is idle, and the hold with it  *)
(* or already gone.                                                        *)
LEMMA ForgetKeeps ==
  ASSUME PurseInv, journal.pending = NoPending, journal.hold.st \in Unsubmitted,
         journal' = [journal EXCEPT !.attempt = NoAttempt]
         \/ journal' = [journal EXCEPT !.attempt = NoAttempt, !.hold = NoHold],
         UNCHANGED <<cell, calls>>, DOMAIN ctl' = CtlFields, ctl'.pc \in FreePcs
  PROVE  PurseInv'
<1>1. /\ DOMAIN journal' = JournalFields /\ journal'.attempt = NoAttempt
      /\ journal'.pending = journal.pending
      /\ journal'.hold = journal.hold \/ journal'.hold = NoHold
  <2>1. CASE journal' = [journal EXCEPT !.attempt = NoAttempt]
    BY <2>1, Zenon DEF PurseInv, Shapes, JournalFields
  <2>2. CASE journal' = [journal EXCEPT !.attempt = NoAttempt, !.hold = NoHold]
    BY <2>2, Zenon DEF PurseInv, Shapes, JournalFields
  <2> QED
    BY <2>1, <2>2
<1>2. Shapes' /\ journal'.hold.st # "submitted"
  BY <1>1, NoPendingOp DEF PurseInv, Shapes, Unsubmitted
<1>3. Idle(cell.status)
  BY UnsubmittedIdle
<1> QED
  BY <1>1, <1>2, <1>3, FreeRelies, IdleKeeps

(* ForgetAttempt, RecoveredDelivery and Aborted.                           *)
LEMMA ForgottenKeeps ==
  ASSUME PurseInv, ForgetAttempt \/ RecoveredDelivery \/ Aborted
  PROVE  PurseInv'
<1>1. /\ \/ journal' = [journal EXCEPT !.attempt = NoAttempt]
         \/ journal' = [journal EXCEPT !.attempt = NoAttempt, !.hold = NoHold]
      /\ UNCHANGED <<cell, calls>>
      /\ ctl' = Back \/ ctl' = Goto("fence")
      /\ ctl.pc \in {"clear", "cleared", "aborted"}
  BY Zenon DEF ForgetAttempt, RecoveredDelivery, Aborted, purse
<1>2. journal.pending = NoPending /\ journal.hold.st \in Unsubmitted
  BY <1>1 DEF PurseInv, PcInv, Unsubmitted
<1>3. DOMAIN ctl' = CtlFields /\ ctl'.pc \in FreePcs
  <2>1. CASE ctl' = Back
    BY <2>1, BackEffect DEF PurseInv, FreePcs
  <2>2. CASE ctl' = Goto("fence")
    BY <2>2, GotoEffect DEF PurseInv, FreePcs
  <2> QED
    BY <1>1, <2>1, <2>2
<1> QED
  BY <1>1, <1>2, <1>3, ForgetKeeps

(* retire_refused_provider_request forgets only what was never submitted.  *)
LEMMA RetireRefusedKeeps ==
  ASSUME PurseInv, RetireRefused
  PROVE  PurseInv'
<1>1. UNCHANGED <<cell, calls>>
  BY DEF RetireRefused, purse
<1>2. ctl' = Back \/ ctl' = Goto("deliver")
  BY Zenon DEF RetireRefused
<1>3. \/ UNCHANGED journal
      \/ /\ NotSubmitted /\ journal.pending = NoPending
         /\ journal' = [journal EXCEPT !.attempt = NoAttempt, !.hold = NoHold]
  BY Zenon DEF RetireRefused
<1>4. DOMAIN ctl' = CtlFields /\ ctl'.pc \in FreePcs
  <2>1. CASE ctl' = Back
    BY <2>1, BackEffect DEF PurseInv, FreePcs
  <2>2. CASE ctl' = Goto("deliver")
    BY <2>2, GotoEffect DEF PurseInv, FreePcs
  <2> QED
    BY <1>2, <2>1, <2>2
<1>5. CASE UNCHANGED journal
  BY <1>1, <1>4, <1>5, FreeRelies, StepKeeps
<1>6. CASE /\ NotSubmitted /\ journal.pending = NoPending
           /\ journal' = [journal EXCEPT !.attempt = NoAttempt, !.hold = NoHold]
  <2>1. journal.hold.st \in Unsubmitted
    BY <1>6 DEF NotSubmitted, Unsubmitted
  <2> QED
    BY <1>1, <1>4, <1>6, <2>1, ForgetKeeps
<1> QED
  BY <1>3, <1>5, <1>6

(* recover_delivered_provider_response.                                    *)
LEMMA RecoverDeliveredKeeps ==
  ASSUME PurseInv, RecoverDelivered
  PROVE  PurseInv'
<1>1. CASE UNCHANGED <<journal, purse>> /\ (ctl' = Goto("fence") \/ ctl' = Back)
  BY <1>1, MovesKeeps DEF purse, FreePcs
<1>2. CASE /\ journal.pending = NoPending /\ SettledHere
           /\ journal' = [journal EXCEPT !.attempt = NoAttempt]
           /\ ctl' = Goto("fence") /\ UNCHANGED purse
  <2>1. DOMAIN ctl' = CtlFields /\ ctl'.pc \in FreePcs
    BY <1>2, GotoEffect DEF PurseInv, FreePcs
  <2>2. journal.hold.st \in Unsubmitted
    BY <1>2, NoPendingOp DEF SettledHere, Unsubmitted
  <2> QED
    BY <1>2, <2>1, <2>2, ForgetKeeps DEF purse
<1>3. CASE AuditCoordinates /\ BeginCall(journal, "settle", "recovery_settle", Quote, "cleared")
  <2>1. journal.hold.st = "confirmed"
    BY <1>3 DEF AuditCoordinates
  <2>2. DOMAIN journal = JournalFields /\ DOMAIN journal.attempt = AttemptFields
    BY DEF PurseInv, Shapes
  <2> QED
    BY <1>3, <2>1, <2>2, BeginKeeps DEF ThenInv
<1>4. \/ UNCHANGED <<journal, purse>> /\ (ctl' = Goto("fence") \/ ctl' = Back)
      \/ /\ journal.pending = NoPending /\ SettledHere
         /\ journal' = [journal EXCEPT !.attempt = NoAttempt]
         /\ ctl' = Goto("fence") /\ UNCHANGED purse
      \/ AuditCoordinates /\ BeginCall(journal, "settle", "recovery_settle", Quote, "cleared")
  BY Zenon DEF RecoverDelivered
<1> QED
  BY <1>1, <1>2, <1>3, <1>4

(* fence_provider.                                                         *)
LEMMA FenceProviderKeeps ==
  ASSUME PurseInv, FenceProvider
  PROVE  PurseInv'
<1>1. CASE BeginCall(journal, "disconnect", "fence", 0, "fenced")
  <2>1. DOMAIN journal = JournalFields /\ DOMAIN journal.attempt = AttemptFields
    BY DEF PurseInv, Shapes
  <2> QED
    BY <1>1, <2>1, BeginKeeps DEF ThenInv
<1>2. ASSUME NEW f, journal' = [journal EXCEPT !.fenced = f], ctl' = Back, UNCHANGED purse
      PROVE  PurseInv'
  <2>1. /\ DOMAIN journal' = JournalFields /\ journal'.attempt = journal.attempt
        /\ journal'.hold = journal.hold /\ journal'.pending = journal.pending
    BY <1>2 DEF PurseInv, Shapes, JournalFields
  <2>2. DOMAIN ctl' = CtlFields /\ ctl'.pc \in FreePcs
    BY <1>2, BackEffect DEF PurseInv, FreePcs
  <2>3. Shapes' /\ UNCHANGED <<cell, calls>>
    BY <1>2, <2>1, <2>2 DEF PurseInv, Shapes, purse
  <2> QED
    BY <2>1, <2>2, <2>3, PurseFrame
<1>3. \/ BeginCall(journal, "disconnect", "fence", 0, "fenced")
      \/ \E f : journal' = [journal EXCEPT !.fenced = f] /\ ctl' = Back /\ UNCHANGED purse
  BY Zenon DEF FenceProvider
<1> QED
  BY <1>1, <1>2, <1>3

(* What the audit may record of the attempt before it stops or goes on.    *)
LEMMA AuditJournal ==
  ASSUME Shapes, NEW j \in {journal, AuditRecorded, AuditQuoted}
  PROVE  /\ DOMAIN j = JournalFields /\ DOMAIN j.attempt = AttemptFields
         /\ j.hold = journal.hold /\ j.pending = journal.pending /\ j.next = journal.next
         /\ j.prompt = journal.prompt /\ j.child = journal.child
         /\ j.replays = journal.replays /\ j.settlement = journal.settlement
         /\ j.attempt.id = journal.attempt.id /\ j.attempt.prompt = journal.attempt.prompt
         /\ j.attempt.body = journal.attempt.body /\ j.attempt.lease = journal.attempt.lease
         /\ j.attempt.sent = journal.attempt.sent
         /\ \/ j.attempt.outcome = journal.attempt.outcome
            \/ /\ journal.attempt.outcome = "none" /\ journal.attempt.sent
               /\ j.attempt.outcome = "uncertain"
<1> DEFINE Same(i) ==
      /\ DOMAIN i = JournalFields /\ DOMAIN i.attempt = AttemptFields
      /\ i.hold = journal.hold /\ i.pending = journal.pending /\ i.next = journal.next
      /\ i.prompt = journal.prompt /\ i.child = journal.child
      /\ i.replays = journal.replays /\ i.settlement = journal.settlement
      /\ i.attempt.id = journal.attempt.id /\ i.attempt.prompt = journal.attempt.prompt
      /\ i.attempt.body = journal.attempt.body /\ i.attempt.lease = journal.attempt.lease
      /\ i.attempt.sent = journal.attempt.sent
<1>1. PICK o : o = IF AuditQuotes /\ journal.attempt.outcome = "none" THEN "uncertain"
                   ELSE journal.attempt.outcome
  OBVIOUS
<1>2. AuditRecorded = [journal EXCEPT !.attempt.outcome = o]
  BY <1>1, Zenon DEF AuditRecorded
<1>3. o = journal.attempt.outcome
      \/ (journal.attempt.outcome = "none" /\ journal.attempt.sent /\ o = "uncertain")
  <2>1. AuditQuotes /\ journal.attempt.outcome = "none" => journal.attempt.sent
    BY DEF AuditQuotes, AuditPath, Unsent
  <2> QED
    BY <1>1, <2>1
<1>4. Same(AuditRecorded) /\ AuditRecorded.attempt.outcome = o
  <2>1. /\ AuditRecorded.attempt = [journal.attempt EXCEPT !.outcome = o]
        /\ DOMAIN AuditRecorded = JournalFields
        /\ \A f \in JournalFields \ {"attempt"} : AuditRecorded[f] = journal[f]
    BY <1>2 DEF Shapes, JournalFields
  <2> QED
    BY <2>1 DEF Shapes, JournalFields, AttemptFields
<1>5. PICK q : q = IF AuditQuotes THEN TRUE ELSE AuditRecorded.attempt.quoted
  OBVIOUS
<1>6. AuditQuoted = [AuditRecorded EXCEPT !.attempt.quoted = q]
  BY <1>5, Zenon DEF AuditQuoted
<1>7. Same(AuditQuoted) /\ AuditQuoted.attempt.outcome = o
  <2>1. /\ AuditQuoted.attempt = [AuditRecorded.attempt EXCEPT !.quoted = q]
        /\ DOMAIN AuditQuoted = JournalFields
        /\ \A f \in JournalFields \ {"attempt"} : AuditQuoted[f] = AuditRecorded[f]
    BY <1>4, <1>6 DEF JournalFields
  <2>2. /\ DOMAIN AuditQuoted.attempt = AttemptFields
        /\ \A f \in AttemptFields \ {"quoted"} :
             AuditQuoted.attempt[f] = AuditRecorded.attempt[f]
    BY <1>4, <2>1 DEF AttemptFields
  <2> QED
    BY <1>4, <2>1, <2>2 DEF JournalFields, AttemptFields
<1>8. Same(journal)
  BY DEF Shapes
<1> HIDE DEF Same
<1>9. Same(j) /\ (j.attempt.outcome = journal.attempt.outcome \/ j.attempt.outcome = o)
  BY <1>4, <1>7, <1>8
<1> QED
  BY <1>3, <1>9 DEF Same

(* The audit stops, finds the attempt settled, or goes on to settle it.    *)
LEMMA AuditCases ==
  ASSUME AuditEvidence
  PROVE  \E j \in {journal, AuditRecorded, AuditQuoted} :
           \/ ctl' = Back /\ journal' = j /\ UNCHANGED purse
           \/ SettledHere /\ ctl' = Goto("audited") /\ UNCHANGED <<journal, purse>>
           \/ AuditCoordinates /\ BeginCall(j, "disconnect", "audit_fence", 0, "audit_settle")
           \/ AuditCoordinates /\ journal' = j /\ ctl' = Goto("audit_settle") /\ UNCHANGED purse
<1>1. \/ ctl' = Back /\ journal' = journal /\ UNCHANGED purse
      \/ ctl' = Back /\ journal' = AuditRecorded /\ UNCHANGED purse
      \/ ctl' = Back /\ journal' = AuditQuoted /\ UNCHANGED purse
      \/ SettledHere /\ ctl' = Goto("audited") /\ UNCHANGED <<journal, purse>>
      \/ AuditCoordinates /\ BeginCall(AuditQuoted, "disconnect", "audit_fence", 0, "audit_settle")
      \/ AuditCoordinates /\ journal' = AuditQuoted /\ ctl' = Goto("audit_settle") /\ UNCHANGED purse
  BY Zenon DEF AuditEvidence
<1> QED
  BY <1>1, Zenon

(* The operator's audit.                                                   *)
LEMMA AuditEvidenceKeeps ==
  ASSUME PurseInv, AuditEvidence
  PROVE  PurseInv'
<1>1. ctl.pc = "audit" /\ journal.pending = NoPending /\ Shapes
  BY DEF AuditEvidence, PurseInv, PcInv
<1>0. PICK j \in {journal, AuditRecorded, AuditQuoted} :
        \/ ctl' = Back /\ journal' = j /\ UNCHANGED purse
        \/ SettledHere /\ ctl' = Goto("audited") /\ UNCHANGED <<journal, purse>>
        \/ AuditCoordinates /\ BeginCall(j, "disconnect", "audit_fence", 0, "audit_settle")
        \/ AuditCoordinates /\ journal' = j /\ ctl' = Goto("audit_settle") /\ UNCHANGED purse
  BY AuditCases, Zenon
<1>2. /\ DOMAIN j = JournalFields /\ DOMAIN j.attempt = AttemptFields
      /\ j.hold = journal.hold /\ j.pending = journal.pending
      /\ j.attempt.id = journal.attempt.id
  BY <1>1, AuditJournal
<1>3. CASE SettledHere /\ ctl' = Goto("audited") /\ UNCHANGED <<journal, purse>>
  <2>1. DOMAIN ctl' = CtlFields /\ ctl'.pc = "audited"
    BY <1>3, GotoEffect DEF PurseInv
  <2>2. PcInv'
    BY <1>1, <1>3, <2>1, NoPendingOp DEF PcInv, SettledHere
  <2> QED
    BY <1>3, <2>1, <2>2, StepKeeps DEF purse
<1>4. CASE AuditCoordinates /\ BeginCall(j, "disconnect", "audit_fence", 0, "audit_settle")
  <2>1. journal.hold.st = "confirmed"
    BY <1>4 DEF AuditCoordinates
  <2> QED
    BY <1>2, <1>4, <2>1, BeginKeeps DEF ThenInv
<1>5. CASE /\ journal' = j /\ UNCHANGED purse
           /\ \/ AuditCoordinates /\ ctl' = Goto("audit_settle")
              \/ ctl' = Back
  <2>1. /\ DOMAIN ctl' = CtlFields
        /\ ctl'.pc \in FreePcs \/ (ctl'.pc = "audit_settle" /\ AuditCoordinates)
    BY <1>5, GotoEffect, BackEffect DEF PurseInv, FreePcs
  <2>2. Shapes' /\ UNCHANGED <<cell, calls>>
    BY <1>2, <1>5, <2>1 DEF PurseInv, Shapes, purse
  <2>3. CellInv' /\ CallInv'
    BY <1>2, <1>5, <2>2 DEF PurseInv, CellInv, CallInv, CallOK, Idle
  <2>4. HoldInv'
    BY <1>2, <1>5, <2>2 DEF PurseInv, HoldInv, HoldRecorded, Idle
  <2>5. PcInv'
    BY <1>1, <1>2, <1>5, <2>1 DEF PcInv, AuditCoordinates, FreePcs
  <2> QED
    BY <2>2, <2>3, <2>4, <2>5 DEF PurseInv
<1> QED
  BY <1>0, <1>3, <1>4, <1>5

(* The audit's settlement.                                                 *)
LEMMA AuditSettleKeeps ==
  ASSUME PurseInv, AuditSettle
  PROVE  PurseInv'
<1>1. ctl.pc = "audit_settle"
      /\ BeginCall(journal, "settle", "audit_settle", AuditCharge, "audited")
  BY DEF AuditSettle
<1>2. journal.hold.st = "confirmed"
  BY <1>1 DEF PurseInv, PcInv
<1>3. DOMAIN journal = JournalFields /\ DOMAIN journal.attempt = AttemptFields
  BY DEF PurseInv, Shapes
<1> QED
  BY <1>1, <1>2, <1>3, BeginKeeps DEF ThenInv

(* The operator's abort of what was never submitted.                       *)
LEMMA AbortRefusedKeeps ==
  ASSUME PurseInv, AbortRefused
  PROVE  PurseInv'
<1>1. journal.pending = NoPending /\ journal.hold.st \in Unsubmitted
  BY NoPendingOp DEF AbortRefused, NotSubmitted, Unsubmitted
<1>2. CASE BeginCall(journal, "disconnect", "abort_disconnect", 0, "aborted")
  <2>1. DOMAIN journal = JournalFields /\ DOMAIN journal.attempt = AttemptFields
    BY DEF PurseInv, Shapes
  <2> QED
    BY <1>1, <1>2, <2>1, BeginKeeps DEF ThenInv
<1>3. CASE ctl' = Goto("aborted") /\ UNCHANGED <<journal, purse>>
  <2>1. DOMAIN ctl' = CtlFields /\ ctl'.pc = "aborted"
    BY <1>3, GotoEffect DEF PurseInv
  <2>2. PcInv'
    BY <1>1, <1>3, <2>1 DEF PcInv
  <2> QED
    BY <1>3, <2>1, <2>2, StepKeeps DEF purse
<1> QED
  BY <1>2, <1>3 DEF AbortRefused

-----------------------------------------------------------------------------
(* Prompts, crashes, recovery                                              *)

(* What the steps of a prompt do to journal and handler.                   *)
LEMMA PromptEffect ==
  ASSUME Shapes,
         StartPrompt \/ EndPrompt \/ Drained \/ Disconnect \/ Crash \/ Recover \/ ReconcileAudited
  PROVE  /\ UNCHANGED <<cell, calls, settled, key>>
         /\ DOMAIN journal' = JournalFields /\ journal'.attempt = journal.attempt
         /\ journal'.hold = journal.hold /\ journal'.pending = journal.pending
         /\ journal'.next = journal.next
         /\ DOMAIN ctl' = CtlFields /\ ctl'.pc \in {"loop", "retire", "pending"}
<1>1. UNCHANGED <<cell, calls, settled, key>>
  BY DEF StartPrompt, EndPrompt, Drained, Disconnect, Crash, Recover, ReconcileAudited,
         purse, upstream
<1>2. /\ DOMAIN journal' = JournalFields /\ journal'.attempt = journal.attempt
      /\ journal'.hold = journal.hold /\ journal'.pending = journal.pending
      /\ journal'.next = journal.next
  <2>1. CASE StartPrompt
    BY <2>1, Zenon DEF StartPrompt, Shapes, JournalFields
  <2>2. CASE EndPrompt \/ Crash \/ ReconcileAudited
    BY <2>2 DEF EndPrompt, Crash, ReconcileAudited, Shapes
  <2>3. CASE Drained
    BY <2>3, Zenon DEF Drained, Shapes, JournalFields
  <2>4. CASE Disconnect
    BY <2>4, Zenon DEF Disconnect, Shapes, JournalFields
  <2>5. CASE Recover
    BY <2>5, Zenon DEF Recover, Shapes, JournalFields
  <2> QED
    BY <2>1, <2>2, <2>3, <2>4, <2>5
<1>3. DOMAIN ctl' = CtlFields /\ ctl'.pc \in {"loop", "retire", "pending"}
  <2>1. CASE StartPrompt
    <3>1. DOMAIN ctl' = CtlFields /\ ctl'.pc = ctl.pc /\ ctl.pc = "loop"
      BY <2>1, Zenon DEF StartPrompt, Shapes, CtlFields
    <3> QED
      BY <3>1
  <2>2. CASE EndPrompt
    <3>1. DOMAIN ctl' = CtlFields /\ ctl'.pc = ctl.pc /\ ctl.pc = "loop"
      BY <2>2, Zenon DEF EndPrompt, Shapes, CtlFields
    <3> QED
      BY <3>1
  <2>3. CASE Drained
    <3>1. PICK pc \in {"loop", "retire"} :
            ctl' = [ctl EXCEPT !.mode = IF pc = "loop" THEN "ready" ELSE "refused", !.pc = pc]
      BY <2>3, Zenon DEF Drained
    <3>2. DOMAIN ctl' = CtlFields /\ ctl'.pc = pc
      BY <3>1, Zenon DEF Shapes, CtlFields
    <3> QED
      BY <3>2
  <2>4. CASE Disconnect
    <3>1. DOMAIN ctl' = CtlFields /\ ctl'.pc = "pending"
      BY <2>4, Zenon DEF Disconnect, Shapes, CtlFields
    <3> QED
      BY <3>1
  <2>5. CASE Crash
    BY <2>5 DEF Crash, CtlFields
  <2>6. CASE Recover
    <3>1. DOMAIN ctl' = CtlFields /\ ctl'.pc = "pending"
      BY <2>6, Zenon DEF Recover, Shapes, CtlFields
    <3> QED
      BY <3>1
  <2>7. CASE ReconcileAudited
    <3>1. DOMAIN ctl' = CtlFields /\ ctl'.pc = "pending"
      BY <2>7, Zenon DEF ReconcileAudited, Shapes, CtlFields
    <3> QED
      BY <3>1
  <2> QED
    BY <2>1, <2>2, <2>3, <2>4, <2>5, <2>6, <2>7
<1> QED
  BY <1>1, <1>2, <1>3

(* Prompts, crashes and the start of a recovery leave the purse alone.     *)
LEMMA PromptKeeps ==
  ASSUME PurseInv,
         StartPrompt \/ EndPrompt \/ Drained \/ Disconnect \/ Crash \/ Recover \/ ReconcileAudited
  PROVE  PurseInv'
<1>1. /\ UNCHANGED <<cell, calls>>
      /\ DOMAIN journal' = JournalFields /\ journal'.attempt = journal.attempt
      /\ journal'.hold = journal.hold /\ journal'.pending = journal.pending
      /\ DOMAIN ctl' = CtlFields /\ ctl'.pc \in {"loop", "retire", "pending"}
  BY PromptEffect DEF PurseInv
<1>2. Shapes'
  BY <1>1 DEF PurseInv, Shapes
<1> QED
  BY <1>1, <1>2, PurseFrame DEF FreePcs

(* Gateway, brokers, upstream and the stops leave controller and purse     *)
(* alone.                                                                  *)
LEMMA OthersKeep ==
  ASSUME PurseInv, UNCHANGED <<journal, ctl, cell, calls>>
  PROVE  PurseInv'
BY MovesKeeps

(* Which steps those are.                                                  *)
LEMMA OthersLeave ==
  ASSUME Gateway \/ HardStop \/ WorkerDeadline \/ Broker \/ Upstream
         \/ (\E b \in Bodies : Accept(b))
  PROVE  UNCHANGED <<journal, ctl, cell, calls, settled>>
<1>1. CASE Gateway
  BY <1>1 DEF Gateway, PrepareAnswered, PlanEnqueue, PlanPoll, ReserveAnswered, BeforeAnswered,
     Forward, ForwardEnds, DropGuard, ReleaseGuard, OutcomeAnswered, Deliver, DeliveryAnswered,
     GatewayStep, controller, purse
<1>2. CASE HardStop \/ WorkerDeadline
  BY <1>2 DEF HardStop, WorkerDeadline, controller, purse
<1>3. CASE Broker
  BY <1>3 DEF Broker, BrokerRestarts, BrokerPlaces, BrokerDrops, controller, purse
<1>4. CASE Upstream
  BY <1>4 DEF Upstream, BrokerRefuses, UpstreamSend, UpstreamReplies, UpstreamCut, UpstreamEnds,
     TicketJournalFails, controller, purse
<1>5. CASE \E b \in Bodies : Accept(b)
  BY <1>5 DEF Accept, GatewayStep, controller, purse
<1> QED
  BY <1>1, <1>2, <1>3, <1>4, <1>5

(* The invariant holds at the start.                                       *)
LEMMA PurseInitially ==
  ASSUME Init
  PROVE  PurseInv
<1>1. Shapes
  BY NoPendingOp DEF Init, Shapes, JournalFields, CtlFields, CellFields
<1>2. CellInv /\ CallInv /\ HoldInv /\ PcInv
  BY NoPendingOp DEF Init, CellInv, CallInv, HoldInv, HoldRecorded, PcInv, Idle
<1> QED
  BY <1>1, <1>2 DEF PurseInv

(* Every step keeps it.                                                    *)
LEMMA PurseInductive ==
  ASSUME PurseInv, [Next]_vars
  PROVE  PurseInv'
<1>1. CASE Controller
  BY <1>1, CallConfirmedKeeps, CallRefusedKeeps, CallBeforeSpawnKeeps, CallUncertainKeeps,
     SettleAfreshKeeps, RetryPendingKeeps, ProviderReserveKeeps, ReserveAttachKeeps,
     ReserveMarkKeeps, ReserveSubmitKeeps, ReserveAnswersKeep, RecordsKeep,
     ProviderSettleKeeps, AfterSettleKeeps, ForgottenKeeps, RetireRefusedKeeps,
     RecoverDeliveredKeeps, FenceProviderKeeps, AuditEvidenceKeeps, AuditSettleKeeps
     DEF Controller, CallReturns
<1>2. CASE Gateway \/ HardStop \/ WorkerDeadline \/ Broker \/ Upstream
           \/ (\E b \in Bodies : Accept(b))
  BY <1>2, OthersLeave, OthersKeep
<1>3. CASE StartPrompt \/ EndPrompt \/ Drained \/ Disconnect \/ Crash \/ Recover
           \/ ReconcileAudited
  BY <1>3, PromptKeeps
<1>4. CASE AbortRefused
  BY <1>4, AbortRefusedKeeps
<1>5. CASE Native
  BY <1>5, CustodyKeeps, OwnerKeeps DEF Native
<1>6. CASE UNCHANGED vars
  BY <1>6, OthersKeep DEF vars, controller, purse
<1> QED
  BY <1>1, <1>2, <1>3, <1>4, <1>5, <1>6 DEF Next, Prompting, Operator

(* The inductive invariant of journal, purse and native calls.             *)
THEOREM PurseInvariant == Spec => []PurseInv
<1>1. Init => PurseInv
  BY PurseInitially
<1>2. PurseInv /\ [Next]_vars => PurseInv'
  BY PurseInductive
<1> QED
  BY <1>1, <1>2, PTL DEF Spec

(* Whenever the host holds funds of the purse, the journal names the       *)
(* attempt they are held for and knows its reserve was submitted, whatever *)
(* crashed, was refused, lost, fenced or stopped on the way.               *)
THEOREM HoldsRecorded == Spec => []HoldRecorded
<1>1. PurseInv => HoldRecorded
  BY DEF PurseInv, HoldInv
<1> QED
  BY <1>1, PurseInvariant, PTL
=============================================================================
