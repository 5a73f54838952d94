---------------------------- MODULE PayRailProofs ----------------------------
(***************************************************************************)
(* Proofs about the whole payment rail: a receipt is of a decided          *)
(* transfer, a transfer is credited once, and the observer and the kernel  *)
(* keep every promise the watcher relies on, for any chain, any number of  *)
(* attempts, faults and kills, and any commits of others.                  *)
(***************************************************************************)
EXTENDS PayRailSafety, PayWatchProofs

-----------------------------------------------------------------------------
(* The inductive invariant                                                 *)

AttemptType ==
    [kind : {"none", "report", "enrol"}, recs : SUBSET Nat, decision : {"none", "credited"},
     after : BOOLEAN]
SendType ==
    [id : Ids \cup {0}, kind : {"none", "report", "enrol"}, recs : SUBSET Nat, tip : Nat,
     stale : BOOLEAN]

Submitting == {"mark", "send", "wait", "answered"}
Working == Submitting \cup {"build", "link", "settle", "next"}

RailTypeOK ==
    /\ kclock \in Nat /\ seenClock \in Nat /\ spentTips \subseteq Nat
    /\ minted \in [1..MaxTx -> Nat]
    /\ attempts \in [Ids -> AttemptType] /\ landed \subseteq Ids
    /\ flight \subseteq SendType /\ sent \in SendType
    /\ at \in Working \cup {"off", "resolve", "classify", "ended"}
    /\ mode \in {"batch", "probe", "enrol"}
    /\ todo \in Seq(Nat)

\* The observer runs inside its step of the script.
RunInv == at # "off" => pc = "observe"

\* The clock has reached every spent tip.
ClockInv == \A t \in spentTips : t =< kclock

\* A credit spends its transfer's nullifier.
MintInv == \A i \in Txs : minted[i] =< 1 /\ (minted[i] # 0 => i \in decided)

\* A frame on its way is of its attempt, if that is still kept.
FlightInv ==
    /\ \A m \in flight :
          /\ m.id \in Ids
          /\ m.recs \subseteq Creditable
          /\ attempts[m.id].kind # "none" => attempts[m.id].recs = m.recs
    /\ \A m, n \in flight : m.id = n.id => m = n

\* What a committed or a credited attempt reported is decided.
CustodyInv ==
    /\ \A id \in landed : attempts[id].kind # "none" /\ attempts[id].recs \subseteq decided
    /\ \A id \in Ids : attempts[id].decision = "credited" => attempts[id].recs \subseteq decided

Gone(id) == id \notin landed /\ \A m \in flight : m.id # id

\* What the answer in hand says.
AnswerInv ==
    /\ answer = "confirmed" => sent.recs \subseteq decided
    /\ answer = "alreadyConsumed" => sent.recs \cap decided # {} \/ sent.tip \in spentTips
    /\ answer \notin {"confirmed", "undecided"} => Gone(sent.id)
    /\ answer = "perObservation" => sent.recs # {}

\* The submission in hand.
SentInv ==
    /\ at \in Submitting => /\ sent.id \in Ids
                            /\ sent.recs = InHand
                            /\ sent.recs \subseteq Creditable
    /\ at \in {"mark", "send"} => Gone(sent.id)
    /\ at \in {"send", "wait", "answered"} => attempts[sent.id].recs = sent.recs
    /\ at = "wait" => /\ sent.id \notin landed
                      /\ \A m \in flight : m.id = sent.id => m = sent
    /\ at = "answered" => AnswerInv
    /\ at = "settle" => \E i \in decided : sent.recs = {i}
    /\ at = "link" => sent.id \in Ids
    /\ at = "classify" => sent.id \in landed

\* The records still to submit are credits, and there is one in hand unless
\* the whole batch goes.
TodoInv ==
    /\ ToSet(todo) \subseteq Creditable
    /\ at \in Working /\ mode # "batch" => todo # <<>>

RailInv ==
    /\ RailTypeOK /\ RunInv /\ ClockInv /\ MintInv /\ FlightInv /\ CustodyInv /\ SentInv
    /\ TodoInv

-----------------------------------------------------------------------------
(* What the updates do                                                     *)

\* A commit that writes the pay cell only marks a submission stale.
LEMMA StaledEffect ==
    ASSUME NEW m \in SendType
    PROVE  /\ Staled(m) \in SendType
           /\ Staled(m).id = m.id /\ Staled(m).recs = m.recs /\ Staled(m).tip = m.tip
BY DEF Staled, SendType

\* An attempt is forgotten.
LEMMA DeadEffect ==
    ASSUME RailTypeOK, NEW id \in Ids
    PROVE  /\ Dead(id) \in [Ids -> AttemptType]
           /\ Dead(id)[id].kind = "none" /\ Dead(id)[id].decision = "none"
           /\ \A j \in Ids : j # id => Dead(id)[j] = attempts[j]
<1>1. NoAttempt \in AttemptType /\ NoAttempt.kind = "none" /\ NoAttempt.decision = "none"
  BY DEF NoAttempt, AttemptType
<1>2. attempts \in [Ids -> AttemptType]
  BY DEF RailTypeOK
<1>3. Dead(id) = [attempts EXCEPT ![id] = NoAttempt]
  BY DEF Dead
<1> QED
  BY <1>1, <1>2, <1>3

\* An attempt gets its decision.
LEMMA CreditedEffect ==
    ASSUME RailTypeOK, NEW id \in Ids, NEW a, a = [attempts EXCEPT ![id].decision = "credited"]
    PROVE  /\ a \in [Ids -> AttemptType]
           /\ \A j \in Ids : a[j].kind = attempts[j].kind /\ a[j].recs = attempts[j].recs
           /\ \A j \in Ids : j # id => a[j] = attempts[j]
<1>1. attempts \in [Ids -> AttemptType]
  BY DEF RailTypeOK
<1>2. a = [attempts EXCEPT ![id] = [attempts[id] EXCEPT !.decision = "credited"]]
  BY <1>1
<1>3. attempts[id] \in AttemptType
  BY <1>1
<1>4. /\ [attempts[id] EXCEPT !.decision = "credited"] \in AttemptType
      /\ [attempts[id] EXCEPT !.decision = "credited"].kind = attempts[id].kind
      /\ [attempts[id] EXCEPT !.decision = "credited"].recs = attempts[id].recs
  BY <1>3 DEF AttemptType
<1> QED
  BY <1>1, <1>2, <1>4

\* The view after an enrollment is read.
LEMMA AfterEffect ==
    ASSUME RailTypeOK, NEW id \in Ids, NEW a, a = [attempts EXCEPT ![id].after = TRUE]
    PROVE  /\ a \in [Ids -> AttemptType]
           /\ \A j \in Ids : /\ a[j].kind = attempts[j].kind /\ a[j].recs = attempts[j].recs
                             /\ a[j].decision = attempts[j].decision
<1>1. attempts \in [Ids -> AttemptType]
  BY DEF RailTypeOK
<1>2. a = [attempts EXCEPT ![id] = [attempts[id] EXCEPT !.after = TRUE]]
  BY <1>1
<1>3. attempts[id] \in AttemptType
  BY <1>1
<1>4. /\ [attempts[id] EXCEPT !.after = TRUE] \in AttemptType
      /\ [attempts[id] EXCEPT !.after = TRUE].kind = attempts[id].kind
      /\ [attempts[id] EXCEPT !.after = TRUE].recs = attempts[id].recs
      /\ [attempts[id] EXCEPT !.after = TRUE].decision = attempts[id].decision
  BY <1>3 DEF AttemptType
<1> QED
  BY <1>1, <1>2, <1>4

-----------------------------------------------------------------------------
(* What a change of the attempts keeps                                     *)

\* Forgetting an attempt, its commit with it.
LEMMA DeadKeeps ==
    ASSUME RailInv, NEW id \in Ids, attempts' = Dead(id), landed' = landed \ {id},
           flight' = flight, decided' = decided, Creditable' = Creditable
    PROVE  FlightInv' /\ CustodyInv'
<1>1. RailTypeOK /\ FlightInv /\ CustodyInv /\ landed \subseteq Ids
  BY DEF RailInv, RailTypeOK
<1>2. /\ attempts'[id].kind = "none" /\ attempts'[id].decision = "none"
      /\ \A j \in Ids : j # id => attempts'[j] = attempts[j]
  BY <1>1, DeadEffect
<1>3. FlightInv'
  BY <1>1, <1>2 DEF FlightInv
<1>4. CustodyInv'
  BY <1>1, <1>2 DEF CustodyInv
<1> QED
  BY <1>3, <1>4

\* Deciding an attempt whose records are decided.
LEMMA CreditedKeeps ==
    ASSUME RailInv, NEW id \in Ids, attempts' = [attempts EXCEPT ![id].decision = "credited"],
           attempts[id].recs \subseteq decided,
           landed' = landed, flight' = flight, decided' = decided, Creditable' = Creditable
    PROVE  FlightInv' /\ CustodyInv'
<1>1. RailTypeOK /\ FlightInv /\ CustodyInv /\ landed \subseteq Ids
  BY DEF RailInv, RailTypeOK
<1>2. /\ \A j \in Ids : attempts'[j].kind = attempts[j].kind /\ attempts'[j].recs = attempts[j].recs
      /\ \A j \in Ids : j # id => attempts'[j] = attempts[j]
  BY <1>1, CreditedEffect
<1>3. FlightInv'
  BY <1>1, <1>2 DEF FlightInv
<1>4. CustodyInv'
  BY <1>1, <1>2 DEF CustodyInv
<1> QED
  BY <1>3, <1>4

\* Reading the view after an attempt.
LEMMA AfterKeeps ==
    ASSUME RailInv, NEW id \in Ids, attempts' = [attempts EXCEPT ![id].after = TRUE],
           landed' = landed, flight' = flight, decided' = decided, Creditable' = Creditable
    PROVE  FlightInv' /\ CustodyInv'
<1>1. RailTypeOK /\ FlightInv /\ CustodyInv /\ landed \subseteq Ids
  BY DEF RailInv, RailTypeOK
<1>2. \A j \in Ids : /\ attempts'[j].kind = attempts[j].kind /\ attempts'[j].recs = attempts[j].recs
                     /\ attempts'[j].decision = attempts[j].decision
  BY <1>1, AfterEffect
<1>3. FlightInv'
  BY <1>1, <1>2 DEF FlightInv
<1>4. CustodyInv'
  BY <1>1, <1>2 DEF CustodyInv
<1> QED
  BY <1>3, <1>4

-----------------------------------------------------------------------------
(* Steps of the observer                                                   *)

\* Nothing is in hand in these places.
LEMMA NothingInHand ==
    ASSUME at' \in {"off", "resolve", "build", "next", "ended"}
    PROVE  SentInv'
BY DEF SentInv, Submitting

\* A step that changes none of these keeps the invariant.
LEMMA RailSame ==
    ASSUME RailInv, UNCHANGED <<chain, decided, pc, kclock, seenClock, spentTips, minted,
                                attempts, landed, flight, sent, at, mode, todo, answer>>
    PROVE  RailInv'
<1>1. Creditable' = Creditable
  BY DEF Creditable, Transfers, Truth
<1>2. RailTypeOK' /\ RunInv' /\ ClockInv' /\ MintInv'
  BY DEF RailInv, RailTypeOK, RunInv, ClockInv, MintInv
<1>3. FlightInv' /\ CustodyInv' /\ TodoInv'
  BY <1>1 DEF RailInv, FlightInv, CustodyInv, TodoInv
<1>4. SentInv'
  BY <1>1 DEF RailInv, SentInv, AnswerInv, Gone, InHand
<1> QED
  BY <1>2, <1>3, <1>4 DEF RailInv

\* Linking receipts and starting the observer.
LEMMA LinkingKeeps ==
    ASSUME RailInv, ResolveLinks \/ Link
    PROVE  RailInv'
<1>1. UNCHANGED <<chain, decided, pc, kclock, seenClock, spentTips, minted, attempts, landed,
                  flight, sent, at, mode, todo, answer>>
  BY DEF ResolveLinks, Link, LinkOne, KeepWatch, chainVars, tickVars, faultVars, kernelVars,
         custodyVars, obsVars
<1> QED
  BY <1>1, RailSame

\* The observer starts.
LEMMA ObserveStartsKeeps ==
    ASSUME WatchInv, RailInv, ObserveStarts
    PROVE  RailInv'
<1>1. /\ pc = "observe" /\ at = "off" /\ at' = "resolve"
      /\ UNCHANGED <<chain, decided, pc, kclock, spentTips, minted, attempts, landed,
                      flight, sent, mode, todo, seenClock, answer>>
  BY DEF ObserveStarts, watchVars, kernelVars, custodyVars, obsVars, chainVars, tickVars, hostVars
<1>2. /\ RailTypeOK /\ RunInv /\ ClockInv /\ MintInv /\ FlightInv /\ CustodyInv /\ SentInv
      /\ TodoInv
  BY DEF RailInv
<1>3. Creditable' = Creditable
  BY <1>1 DEF Creditable, Transfers, Truth
<1>4. RailTypeOK'
  BY <1>1, <1>2 DEF RailTypeOK, Working, Submitting
<1>5. RunInv' /\ ClockInv' /\ MintInv'
  BY <1>1, <1>2 DEF RunInv, ClockInv, MintInv
<1>6. FlightInv' /\ CustodyInv'
  BY <1>1, <1>2, <1>3 DEF FlightInv, CustodyInv
<1>7. SentInv'
  BY <1>1, NothingInHand
<1>8. TodoInv'
  BY <1>1, <1>2, <1>3 DEF TodoInv, Working, Submitting
<1> QED
  BY <1>4, <1>5, <1>6, <1>7, <1>8 DEF RailInv

\* A linked attempt is forgotten.
LEMMA ResolveClearsKeeps ==
    ASSUME WatchInv, RailInv, ResolveClears
    PROVE  RailInv'
<1>1. /\ at = "resolve"
      /\ UNCHANGED <<chain, decided, pc, kclock, spentTips, minted, flight, sent, at, mode,
                      todo, seenClock, answer>>
  BY DEF ResolveClears, watchVars, kernelVars, custodyVars, obsVars, chainVars, tickVars, hostVars
<1>2. /\ RailTypeOK /\ RunInv /\ ClockInv /\ MintInv /\ FlightInv /\ CustodyInv /\ SentInv
      /\ TodoInv
  BY DEF RailInv
<1>3. Creditable' = Creditable
  BY <1>1 DEF Creditable, Transfers, Truth
<1> PICK id \in Ids :
        attempts' = Dead(id) /\ landed' = landed \ {id}
  BY DEF ResolveClears, NextUnsettled
<1>4. RailTypeOK'
  <2>1. attempts' \in [Ids -> AttemptType]
    BY <1>2, DeadEffect
  <2> QED
    BY <1>1, <1>2, <2>1 DEF RailTypeOK, Working, Submitting
<1>5. RunInv' /\ ClockInv' /\ MintInv'
  BY <1>1, <1>2 DEF RunInv, ClockInv, MintInv
<1>6. FlightInv' /\ CustodyInv'
  BY <1>1, <1>3, DeadKeeps
<1>7. SentInv'
  BY <1>1, NothingInHand
<1>8. TodoInv'
  BY <1>1, <1>2, <1>3 DEF TodoInv, Working, Submitting
<1> QED
  BY <1>4, <1>5, <1>6, <1>7, <1>8 DEF RailInv

\* A committed attempt is decided.
LEMMA LookupConfirmedKeeps ==
    ASSUME WatchInv, RailInv, LookupConfirmed
    PROVE  RailInv'
<1>1. /\ at = "resolve"
      /\ UNCHANGED <<chain, decided, pc, kclock, spentTips, minted, landed, flight, sent,
                      at, mode, todo, seenClock, answer>>
  BY DEF LookupConfirmed, watchVars, kernelVars, custodyVars, obsVars, chainVars, tickVars, hostVars, NextUnsettled
<1>2. /\ RailTypeOK /\ RunInv /\ ClockInv /\ MintInv /\ FlightInv /\ CustodyInv /\ SentInv
      /\ TodoInv
  BY DEF RailInv
<1>3. Creditable' = Creditable
  BY <1>1 DEF Creditable, Transfers, Truth
<1> PICK id \in Ids :
        /\ id \in landed
        /\ attempts' = [attempts EXCEPT ![id].decision = "credited"]
  BY DEF LookupConfirmed, NextUnsettled
<1>4. RailTypeOK'
  <2>1. attempts' \in [Ids -> AttemptType]
    BY <1>2, CreditedEffect
  <2> QED
    BY <1>1, <1>2, <2>1 DEF RailTypeOK, Working, Submitting
<1>5. RunInv' /\ ClockInv' /\ MintInv'
  BY <1>1, <1>2 DEF RunInv, ClockInv, MintInv
<1>6. FlightInv' /\ CustodyInv'
  <2>1. attempts[id].recs \subseteq decided
    BY <1>2 DEF CustodyInv
  <2> QED
    BY <1>1, <1>3, <2>1, CreditedKeeps
<1>7. SentInv'
  BY <1>1, NothingInHand
<1>8. TodoInv'
  BY <1>1, <1>2, <1>3 DEF TodoInv, Working, Submitting
<1> QED
  BY <1>4, <1>5, <1>6, <1>7, <1>8 DEF RailInv

\* An attempt that is absent is forgotten; its frame may still be on its way.
LEMMA LookupAbsentKeeps ==
    ASSUME WatchInv, RailInv, LookupAbsent
    PROVE  RailInv'
<1>1. /\ at = "resolve"
      /\ UNCHANGED <<chain, decided, pc, kclock, spentTips, minted, landed, flight, sent,
                      at, mode, todo, seenClock, answer>>
  BY DEF LookupAbsent, watchVars, kernelVars, custodyVars, obsVars, chainVars, tickVars, hostVars, NextUnsettled
<1>2. /\ RailTypeOK /\ RunInv /\ ClockInv /\ MintInv /\ FlightInv /\ CustodyInv /\ SentInv
      /\ TodoInv
  BY DEF RailInv
<1>3. Creditable' = Creditable
  BY <1>1 DEF Creditable, Transfers, Truth
<1> PICK id \in Ids :
        id \notin landed /\ attempts' = Dead(id)
  BY DEF LookupAbsent, NextUnsettled
<1>4. RailTypeOK'
  <2>1. attempts' \in [Ids -> AttemptType]
    BY <1>2, DeadEffect
  <2> QED
    BY <1>1, <1>2, <2>1 DEF RailTypeOK, Working, Submitting
<1>5. RunInv' /\ ClockInv' /\ MintInv'
  BY <1>1, <1>2 DEF RunInv, ClockInv, MintInv
<1>6. FlightInv' /\ CustodyInv'
  <2>1. landed' = landed \ {id}
    BY <1>1
  <2> QED
    BY <1>1, <1>3, <2>1, DeadKeeps
<1>7. SentInv'
  BY <1>1, NothingInHand
<1>8. TodoInv'
  BY <1>1, <1>2, <1>3 DEF TodoInv, Working, Submitting
<1> QED
  BY <1>4, <1>5, <1>6, <1>7, <1>8 DEF RailInv

\* A v1 enrollment is classified from the view after it.
LEMMA LookupReadsAfterKeeps ==
    ASSUME WatchInv, RailInv, LookupReadsAfter
    PROVE  RailInv'
<1>1. /\ at = "resolve"
      /\ UNCHANGED <<chain, decided, pc, kclock, spentTips, minted, landed, flight, mode,
                      todo, seenClock, answer>>
  BY DEF LookupReadsAfter, watchVars, kernelVars, custodyVars, obsVars, chainVars, tickVars, hostVars, NextUnsettled
<1>2. /\ RailTypeOK /\ RunInv /\ ClockInv /\ MintInv /\ FlightInv /\ CustodyInv /\ SentInv
      /\ TodoInv
  BY DEF RailInv
<1>3. Creditable' = Creditable
  BY <1>1 DEF Creditable, Transfers, Truth
<1> PICK id \in Ids :
        \/ /\ id \in landed
           /\ attempts' = [attempts EXCEPT ![id].after = TRUE]
           /\ at' = "classify" /\ sent' = [NoSend EXCEPT !.id = id]
        \/ attempts' = attempts /\ at' = "ended" /\ sent' = sent
  BY DEF LookupReadsAfter, NextUnsettled
<1>4. RailTypeOK'
  <2>1. attempts' \in [Ids -> AttemptType]
    BY <1>2, AfterEffect DEF RailTypeOK
  <2>2. sent' \in SendType
    <3>1. [NoSend EXCEPT !.id = id] \in SendType
      BY DEF NoSend, SendType
    <3> QED
      BY <1>2, <3>1 DEF RailTypeOK
  <2> QED
    BY <1>1, <1>2, <2>1, <2>2 DEF RailTypeOK, Working, Submitting
<1>5. RunInv' /\ ClockInv' /\ MintInv'
  BY <1>1, <1>2 DEF RunInv, ClockInv, MintInv
<1>6. FlightInv' /\ CustodyInv'
  <2>1. CASE attempts' = attempts
    BY <2>1, <1>1, <1>2, <1>3 DEF FlightInv, CustodyInv
  <2>2. CASE attempts' = [attempts EXCEPT ![id].after = TRUE]
    BY <2>2, <1>1, <1>3, AfterKeeps
  <2> QED
    BY <2>1, <2>2
<1>7. SentInv'
  <2>1. CASE at' = "ended"
    BY <2>1, NothingInHand
  <2>2. CASE at' = "classify" /\ id \in landed /\ sent' = [NoSend EXCEPT !.id = id]
    <3>1. sent'.id \in landed'
      BY <2>2, <1>1 DEF NoSend
    <3> QED
      BY <2>2, <3>1 DEF SentInv, Submitting
  <2> QED
    BY <2>1, <2>2
<1>8. TodoInv'
  BY <1>1, <1>2, <1>3 DEF TodoInv, Working, Submitting
<1> QED
  BY <1>4, <1>5, <1>6, <1>7, <1>8 DEF RailInv

\* The classified attempt is committed, so its records are decided.
LEMMA LookupClassifiedKeeps ==
    ASSUME WatchInv, RailInv, LookupClassified
    PROVE  RailInv'
<1>1. /\ at = "classify" /\ at' = "resolve" /\ sent' = NoSend
      /\ attempts' = [attempts EXCEPT ![sent.id].decision = "credited"]
      /\ UNCHANGED <<chain, decided, pc, kclock, spentTips, minted, landed, flight, mode,
                      todo, seenClock, answer>>
  BY DEF LookupClassified, watchVars, kernelVars, custodyVars, obsVars, chainVars, tickVars, hostVars
<1>2. /\ RailTypeOK /\ RunInv /\ ClockInv /\ MintInv /\ FlightInv /\ CustodyInv /\ SentInv
      /\ TodoInv
  BY DEF RailInv
<1>3. Creditable' = Creditable
  BY <1>1 DEF Creditable, Transfers, Truth
<1>9. sent.id \in landed /\ sent.id \in Ids /\ attempts[sent.id].recs \subseteq decided
  BY <1>1, <1>2 DEF SentInv, CustodyInv, RailTypeOK
<1>4. RailTypeOK'
  <2>1. attempts' \in [Ids -> AttemptType]
    BY <1>1, <1>2, <1>9, CreditedEffect
  <2>2. NoSend \in SendType
    BY DEF NoSend, SendType
  <2> QED
    BY <1>1, <1>2, <2>1, <2>2 DEF RailTypeOK, Working, Submitting
<1>5. RunInv' /\ ClockInv' /\ MintInv'
  BY <1>1, <1>2 DEF RunInv, ClockInv, MintInv
<1>6. FlightInv' /\ CustodyInv'
  BY <1>1, <1>3, <1>9, CreditedKeeps
<1>7. SentInv'
  BY <1>1, NothingInHand
<1>8. TodoInv'
  BY <1>1, <1>2, <1>3 DEF TodoInv, Working, Submitting
<1> QED
  BY <1>4, <1>5, <1>6, <1>7, <1>8 DEF RailInv

\* A lookup that does not decide, and a run that ends where it stands.
LEMMA GivesUpKeeps ==
    ASSUME WatchInv, RailInv, LookupUndecided \/ EnrolUnconfigured \/ ObserveErrs
    PROVE  RailInv'
<1>1. /\ at # "off" /\ ((at = "resolve" /\ at' = at) \/ at' = "ended")
      /\ UNCHANGED <<chain, decided, pc, kclock, spentTips, minted, attempts, landed,
                      flight, sent, mode, todo, seenClock, answer>>
  BY DEF LookupUndecided, EnrolUnconfigured, ObserveErrs, AllResolved, watchVars, kernelVars, custodyVars,
         obsVars, chainVars, tickVars, hostVars, NextUnsettled
<1>2. /\ RailTypeOK /\ RunInv /\ ClockInv /\ MintInv /\ FlightInv /\ CustodyInv /\ SentInv
      /\ TodoInv
  BY DEF RailInv
<1>3. Creditable' = Creditable
  BY <1>1 DEF Creditable, Transfers, Truth
<1>4. RailTypeOK'
  BY <1>1, <1>2 DEF RailTypeOK, Working, Submitting
<1>5. RunInv' /\ ClockInv' /\ MintInv'
  BY <1>1, <1>2 DEF RunInv, ClockInv, MintInv
<1>6. FlightInv' /\ CustodyInv'
  BY <1>1, <1>2, <1>3 DEF FlightInv, CustodyInv
<1>7. SentInv'
  BY <1>1, NothingInHand
<1>8. TodoInv'
  BY <1>1, <1>2, <1>3 DEF TodoInv, Working, Submitting
<1> QED
  BY <1>4, <1>5, <1>6, <1>7, <1>8 DEF RailInv

\* The observer's order lists its records.
LEMMA InOrderLists ==
    ASSUME WatchTypeOK, NEW S \in SUBSET Creditable
    PROVE  InOrder(S) \in Seq(Nat) /\ ToSet(InOrder(S)) = S /\ (S # {} => InOrder(S) # <<>>)
<1>1. S \in SUBSET (1..Len(chain)) /\ Len(chain) \in Nat
  BY TransfersPositions DEF Creditable
<1> DEFINE q == Newest(S)
           c == Cardinality(S)
<1>2. q \in [1..c -> S] /\ ToSet(q) = S
  BY <1>1, NewestLists DEF Lists
<1>3. c \in Nat
  <2>1. IsFiniteSet(1..Len(chain))
    BY <1>1, FS_Interval
  <2> QED
    BY <1>1, <2>1, FS_Subset, FS_CardinalityType
<1> HIDE DEF q, c
<1>4. q \in Seq(S) /\ Len(q) = c /\ DOMAIN q = 1..c
  BY <1>2, <1>3
<1> DEFINE r == [k \in 1..c |-> q[(c - k) + 1]]
<1>5. InOrder(S) = r
  BY <1>4 DEF InOrder, Reverse, q
<1>6. r \in [1..c -> S]
  BY <1>2, <1>3
<1>7. \A i \in S : \E k \in 1..c : r[k] = i
  <2> SUFFICES ASSUME NEW i \in S PROVE \E k \in 1..c : r[k] = i
    OBVIOUS
  <2>1. PICK k \in 1..c : q[k] = i
    BY <1>2, <1>4 DEF ToSet
  <2>2. (c - k) + 1 \in 1..c /\ (c - ((c - k) + 1)) + 1 = k
    BY <1>3
  <2>3. r[(c - k) + 1] = i
    BY <2>1, <2>2
  <2> QED
    BY <2>2, <2>3
<1> HIDE DEF r
<1>8. ToSet(r) = S
  BY <1>6, <1>7 DEF ToSet
<1>9. r \in Seq(Nat)
  <2>1. S \subseteq Nat
    BY <1>1
  <2>2. r \in [1..c -> Nat]
    BY <1>6, <2>1
  <2> QED
    BY <1>3, <2>2
<1>10. S # {} => r # <<>>
  BY <1>8 DEF ToSet
<1> QED
  BY <1>5, <1>8, <1>9, <1>10

\* Route: the records without a receipt, ordinary ones first.
LEMMA RouteKeeps ==
    ASSUME WatchInv, RailInv, Route
    PROVE  RailInv'
<1>1. /\ at = "resolve" /\ at' = "build"
      /\ UNCHANGED <<chain, decided, pc, kclock, spentTips, minted, attempts, landed,
                      flight, sent, seenClock, answer>>
  BY DEF Route, AllResolved, watchVars, kernelVars, custodyVars, obsVars, chainVars, tickVars, hostVars
<1>2. /\ RailTypeOK /\ RunInv /\ ClockInv /\ MintInv /\ FlightInv /\ CustodyInv /\ SentInv
      /\ TodoInv
  BY DEF RailInv
<1>3. Creditable' = Creditable
  BY <1>1 DEF Creditable, Transfers, Truth
<1>9. /\ mode' \in {"batch", "enrol"} /\ todo' \in Seq(Nat) /\ ToSet(todo') \subseteq Creditable
      /\ mode' = "enrol" => todo' # <<>>
  <2> DEFINE open == obsFile.recs \ receipts
             book == {i \in open : chain[i].index = "book"}
             enrol == open \ book
  <2>1. WatchTypeOK /\ obsFile.recs \subseteq Creditable
    BY DEF WatchInv, CursorInv
  <2>2. book \in SUBSET Creditable /\ enrol \in SUBSET Creditable
    BY <2>1
  <2>3. \/ mode' = "enrol" /\ todo' = InOrder(enrol) /\ enrol # {}
        \/ mode' = "batch" /\ todo' = InOrder(book)
    BY DEF Route
  <2> HIDE DEF book, enrol
  <2> QED
    BY <2>1, <2>2, <2>3, InOrderLists
<1>4. RailTypeOK'
  BY <1>1, <1>2, <1>9 DEF RailTypeOK, Working, Submitting
<1>5. RunInv' /\ ClockInv' /\ MintInv'
  BY <1>1, <1>2 DEF RunInv, ClockInv, MintInv
<1>6. FlightInv' /\ CustodyInv'
  BY <1>1, <1>2, <1>3 DEF FlightInv, CustodyInv
<1>7. SentInv'
  BY <1>1, NothingInHand
<1>8. TodoInv'
  BY <1>1, <1>3, <1>9 DEF TodoInv
<1> QED
  BY <1>4, <1>5, <1>6, <1>7, <1>8 DEF RailInv

\* Build: a fresh attempt, its records in hand.
LEMMA BuildKeeps ==
    ASSUME WatchInv, RailInv, Build
    PROVE  RailInv'
<1>1. /\ at = "build" /\ at' = "mark" /\ seenClock' = kclock
      /\ UNCHANGED <<chain, decided, pc, kclock, spentTips, minted, attempts, landed,
                      flight, mode, todo, answer>>
  BY DEF Build, watchVars, kernelVars, custodyVars, obsVars, chainVars, tickVars, hostVars
<1>2. /\ RailTypeOK /\ RunInv /\ ClockInv /\ MintInv /\ FlightInv /\ CustodyInv /\ SentInv
      /\ TodoInv
  BY DEF RailInv
<1>3. Creditable' = Creditable
  BY <1>1 DEF Creditable, Transfers, Truth
<1>9. PICK id \in Ids :
          /\ attempts[id].kind = "none" /\ \A m \in flight : m.id # id
          /\ sent' = [id |-> id, kind |-> IF mode = "enrol" THEN "enrol" ELSE "report",
                      recs |-> InHand, tip |-> obsFile.tip, stale |-> FALSE]
  BY DEF Build, FreeIds
<1>10. InHand \subseteq Creditable /\ InHand \subseteq Nat
  <2>1. ToSet(todo) \subseteq Creditable /\ todo \in Seq(Nat)
    BY <1>2 DEF TodoInv, RailTypeOK
  <2>2. mode # "batch" => Head(todo) \in ToSet(todo)
    <3>1. mode # "batch" => todo # <<>>
      BY <1>1, <1>2 DEF TodoInv, Working
    <3> QED
      BY <2>1, <3>1 DEF ToSet
  <2>3. Creditable \subseteq Nat
    BY TransfersPositions DEF WatchInv, Creditable
  <2> QED
    BY <2>1, <2>2, <2>3 DEF InHand
<1>4. RailTypeOK'
  <2>1. obsFile.tip \in Nat /\ kclock \in Nat
    BY <1>2 DEF RailTypeOK, WatchInv, WatchTypeOK
  <2>2. sent' \in SendType
    BY <2>1, <1>9, <1>10 DEF SendType
  <2> QED
    BY <1>1, <1>2, <2>1, <2>2 DEF RailTypeOK, Working, Submitting
<1>5. RunInv' /\ ClockInv' /\ MintInv'
  BY <1>1, <1>2 DEF RunInv, ClockInv, MintInv
<1>6. FlightInv' /\ CustodyInv'
  BY <1>1, <1>2, <1>3 DEF FlightInv, CustodyInv
<1>7. SentInv'
  <2>1. sent'.id = id /\ sent'.recs = InHand /\ InHand' = InHand
    BY <1>1, <1>9 DEF InHand
  <2>2. id \notin landed
    BY <1>2, <1>9 DEF CustodyInv
  <2> QED
    BY <1>1, <1>3, <1>9, <1>10, <2>1, <2>2 DEF SentInv, Submitting, Gone
<1>8. TodoInv'
  BY <1>1, <1>2, <1>3 DEF TodoInv, Working, Submitting
<1> QED
  BY <1>4, <1>5, <1>6, <1>7, <1>8 DEF RailInv

\* Mark: the attempt is kept before its frame leaves.
LEMMA MarkKeeps ==
    ASSUME WatchInv, RailInv, Mark
    PROVE  RailInv'
<1>1. /\ at = "mark" /\ at' = "send"
      /\ attempts' = [attempts EXCEPT ![sent.id] =
                        [kind |-> sent.kind, recs |-> sent.recs, decision |-> "none",
                         after |-> FALSE]]
      /\ UNCHANGED <<chain, decided, pc, kclock, spentTips, minted, landed, flight, sent,
                      mode, todo, seenClock, answer>>
  BY DEF Mark, watchVars, kernelVars, custodyVars, obsVars, chainVars, tickVars, hostVars
<1>2. /\ RailTypeOK /\ RunInv /\ ClockInv /\ MintInv /\ FlightInv /\ CustodyInv /\ SentInv
      /\ TodoInv
  BY DEF RailInv
<1>3. Creditable' = Creditable
  BY <1>1 DEF Creditable, Transfers, Truth
<1>9. sent.id \in Ids /\ Gone(sent.id) /\ sent.recs \subseteq Creditable /\ sent.recs = InHand
  BY <1>1, <1>2 DEF SentInv, Submitting
<1>10. /\ attempts' \in [Ids -> AttemptType]
       /\ attempts'[sent.id].recs = sent.recs /\ attempts'[sent.id].decision = "none"
       /\ \A j \in Ids : j # sent.id => attempts'[j] = attempts[j]
  <2> DEFINE a == [kind |-> sent.kind, recs |-> sent.recs, decision |-> "none", after |-> FALSE]
  <2>1. attempts \in [Ids -> AttemptType] /\ sent \in SendType
    BY <1>2 DEF RailTypeOK
  <2>2. a \in AttemptType /\ a.recs = sent.recs /\ a.decision = "none"
    BY <2>1 DEF AttemptType, SendType
  <2>3. attempts' = [attempts EXCEPT ![sent.id] = a]
    BY <1>1
  <2> HIDE DEF a
  <2> QED
    BY <2>1, <2>2, <2>3, <1>9
<1>4. RailTypeOK'
  BY <1>1, <1>2, <1>10 DEF RailTypeOK, Working, Submitting
<1>5. RunInv' /\ ClockInv' /\ MintInv'
  BY <1>1, <1>2 DEF RunInv, ClockInv, MintInv
<1>6. FlightInv' /\ CustodyInv'
  <2>1. landed \subseteq Ids
    BY <1>2 DEF RailTypeOK
  <2>2. FlightInv'
    BY <1>1, <1>2, <1>3, <1>9, <1>10 DEF FlightInv, Gone
  <2>3. CustodyInv'
    BY <1>1, <1>2, <1>9, <1>10, <2>1 DEF CustodyInv, Gone
  <2> QED
    BY <2>2, <2>3
<1>7. SentInv'
  <2>1. InHand' = InHand /\ Gone(sent.id)'
    BY <1>1, <1>9 DEF InHand, Gone
  <2> QED
    BY <1>1, <1>3, <1>9, <1>10, <2>1 DEF SentInv, Submitting
<1>8. TodoInv'
  BY <1>1, <1>2, <1>3 DEF TodoInv, Working, Submitting
<1> QED
  BY <1>4, <1>5, <1>6, <1>7, <1>8 DEF RailInv

\* Send: the frame on its way is the submission in hand.
LEMMA SendKeeps ==
    ASSUME WatchInv, RailInv, Send
    PROVE  RailInv'
<1>1. /\ at = "send" /\ at' = "wait" /\ flight' = flight \cup {sent}
      /\ UNCHANGED <<chain, decided, pc, kclock, spentTips, minted, attempts, landed, sent,
                      mode, todo, seenClock, answer>>
  BY DEF Send, watchVars, kernelVars, custodyVars, obsVars, chainVars, tickVars, hostVars
<1>2. /\ RailTypeOK /\ RunInv /\ ClockInv /\ MintInv /\ FlightInv /\ CustodyInv /\ SentInv
      /\ TodoInv
  BY DEF RailInv
<1>3. Creditable' = Creditable
  BY <1>1 DEF Creditable, Transfers, Truth
<1>9. /\ sent.id \in Ids /\ Gone(sent.id) /\ sent.recs \subseteq Creditable /\ sent.recs = InHand
      /\ attempts[sent.id].recs = sent.recs
  BY <1>1, <1>2 DEF SentInv, Submitting
<1>4. RailTypeOK'
  BY <1>1, <1>2 DEF RailTypeOK, Working, Submitting
<1>5. RunInv' /\ ClockInv' /\ MintInv'
  BY <1>1, <1>2 DEF RunInv, ClockInv, MintInv
<1>6. FlightInv' /\ CustodyInv'
  <2>1. FlightInv'
    BY <1>1, <1>2, <1>3, <1>9 DEF FlightInv, Gone
  <2>2. CustodyInv'
    BY <1>1, <1>2 DEF CustodyInv
  <2> QED
    BY <2>1, <2>2
<1>7. SentInv'
  <2>1. InHand' = InHand
    BY <1>1 DEF InHand
  <2> QED
    BY <1>1, <1>3, <1>9, <2>1 DEF SentInv, Submitting, Gone
<1>8. TodoInv'
  BY <1>1, <1>2, <1>3 DEF TodoInv, Working, Submitting
<1> QED
  BY <1>4, <1>5, <1>6, <1>7, <1>8 DEF RailInv

\* The answer is lost.
LEMMA AnswerLostKeeps ==
    ASSUME WatchInv, RailInv, AnswerLost
    PROVE  RailInv'
<1>1. /\ at = "wait" /\ at' = "answered" /\ answer' = "undecided"
      /\ UNCHANGED <<chain, decided, pc, kclock, spentTips, minted, attempts, landed,
                      flight, sent, mode, todo, seenClock>>
  BY DEF AnswerLost, watchVars, kernelVars, custodyVars, obsVars, chainVars, tickVars, hostVars
<1>2. /\ RailTypeOK /\ RunInv /\ ClockInv /\ MintInv /\ FlightInv /\ CustodyInv /\ SentInv
      /\ TodoInv
  BY DEF RailInv
<1>3. Creditable' = Creditable
  BY <1>1 DEF Creditable, Transfers, Truth
<1>4. RailTypeOK'
  BY <1>1, <1>2 DEF RailTypeOK, Working, Submitting
<1>5. RunInv' /\ ClockInv' /\ MintInv'
  BY <1>1, <1>2 DEF RunInv, ClockInv, MintInv
<1>6. FlightInv' /\ CustodyInv'
  BY <1>1, <1>2, <1>3 DEF FlightInv, CustodyInv
<1>7. SentInv'
  <2>1. InHand' = InHand
    BY <1>1 DEF InHand
  <2> QED
    BY <1>1, <1>2, <1>3, <2>1 DEF SentInv, AnswerInv, Submitting
<1>8. TodoInv'
  BY <1>1, <1>2, <1>3 DEF TodoInv, Working, Submitting
<1> QED
  BY <1>4, <1>5, <1>6, <1>7, <1>8 DEF RailInv

\* The verifier is unavailable: the frame is gone and did not land.
LEMMA VerifierFailsKeeps ==
    ASSUME WatchInv, RailInv, VerifierFails
    PROVE  RailInv'
<1>1. /\ at = "wait" /\ at' = "answered" /\ answer' = "verifier" /\ flight' = flight \ {sent}
      /\ UNCHANGED <<chain, decided, pc, kclock, spentTips, minted, attempts, landed, sent,
                      mode, todo, seenClock>>
  BY DEF VerifierFails, watchVars, kernelVars, custodyVars, obsVars, chainVars, tickVars, hostVars
<1>2. /\ RailTypeOK /\ RunInv /\ ClockInv /\ MintInv /\ FlightInv /\ CustodyInv /\ SentInv
      /\ TodoInv
  BY DEF RailInv
<1>3. Creditable' = Creditable
  BY <1>1 DEF Creditable, Transfers, Truth
<1>4. RailTypeOK'
  BY <1>1, <1>2 DEF RailTypeOK, Working, Submitting
<1>5. RunInv' /\ ClockInv' /\ MintInv'
  BY <1>1, <1>2 DEF RunInv, ClockInv, MintInv
<1>6. FlightInv' /\ CustodyInv'
  <2>1. FlightInv'
    BY <1>1, <1>2, <1>3 DEF FlightInv
  <2>2. CustodyInv'
    BY <1>1, <1>2 DEF CustodyInv
  <2> QED
    BY <2>1, <2>2
<1>7. SentInv'
  <2>1. InHand' = InHand
    BY <1>1 DEF InHand
  <2>2. Gone(sent.id)'
    BY <1>1, <1>2 DEF SentInv, Gone
  <2> QED
    BY <1>1, <1>2, <1>3, <2>1, <2>2 DEF SentInv, AnswerInv, Submitting
<1>8. TodoInv'
  BY <1>1, <1>2, <1>3 DEF TodoInv, Working, Submitting
<1> QED
  BY <1>4, <1>5, <1>6, <1>7, <1>8 DEF RailInv

\* What is in hand when an answer is.
LEMMA AnsweredInHand ==
    ASSUME RailInv, at = "answered"
    PROVE  /\ sent.id \in Ids /\ sent.recs = InHand /\ sent.recs \subseteq Creditable
           /\ attempts[sent.id].recs = sent.recs
           /\ AnswerInv
BY DEF RailInv, SentInv, Submitting

\* tick_may_be_spent is sound: an alreadyConsumed at a tip the clock has not
\* reached is about the record itself.
LEMMA ConsumedAlone ==
    ASSUME WatchInv, RailInv, Answered({"alreadyConsumed"}), ~TickMayBeSpent,
           Cardinality(sent.recs) = 1
    PROVE  \E i \in decided : sent.recs = {i}
<1>1. at = "answered" /\ answer = "alreadyConsumed"
  BY DEF Answered
<1>2. sent.recs \subseteq Creditable /\ (sent.recs \cap decided # {} \/ sent.tip \in spentTips)
  BY <1>1, AnsweredInHand DEF AnswerInv
<1>3. sent.tip \notin spentTips
  <2>1. sent.tip \in Nat /\ kclock \in Nat /\ spentTips \subseteq Nat
    BY DEF RailInv, RailTypeOK, SendType
  <2>2. ~(kclock >= sent.tip)
    BY DEF TickMayBeSpent
  <2> QED
    BY <2>1, <2>2 DEF RailInv, ClockInv
<1>4. IsFiniteSet(sent.recs)
  <2>1. sent.recs \in SUBSET (1..Len(chain)) /\ Len(chain) \in Nat
    BY <1>2, TransfersPositions DEF WatchInv, Creditable
  <2>2. IsFiniteSet(1..Len(chain))
    BY <2>1, FS_Interval
  <2> QED
    BY <2>1, <2>2, FS_Subset
<1>5. PICK i : sent.recs = {i}
  BY <1>4, FS_Singleton
<1> QED
  BY <1>2, <1>3, <1>5

\* A batch that was refused for one of its records has a record to probe.
LEMMA SomethingToProbe ==
    ASSUME RailInv, at = "answered", sent.recs # {}
    PROVE  todo # <<>>
<1>1. sent.recs = InHand /\ (mode # "batch" => todo # <<>>)
  BY AnsweredInHand DEF RailInv, TodoInv, Working, Submitting
<1>2. mode = "batch" => ToSet(todo) # {}
  BY <1>1 DEF InHand
<1> QED
  BY <1>1, <1>2 DEF ToSet

\* A confirmed submission is decided, or its view read first.
LEMMA OnConfirmedKeeps ==
    ASSUME WatchInv, RailInv, OnConfirmed
    PROVE  RailInv'
<1>1. /\ at = "answered" /\ answer = "confirmed"
      /\ \/ attempts' = [attempts EXCEPT ![sent.id].after = TRUE] /\ at' = at
         \/ attempts' = [attempts EXCEPT ![sent.id].decision = "credited"] /\ at' = "link"
      /\ UNCHANGED <<chain, decided, pc, kclock, spentTips, minted, landed, flight, sent,
                      mode, todo, seenClock, answer>>
  BY DEF OnConfirmed, watchVars, kernelVars, custodyVars, obsVars, chainVars, tickVars, hostVars, Answered
<1>2. /\ RailTypeOK /\ RunInv /\ ClockInv /\ MintInv /\ FlightInv /\ CustodyInv /\ SentInv
      /\ TodoInv
  BY DEF RailInv
<1>3. Creditable' = Creditable
  BY <1>1 DEF Creditable, Transfers, Truth
<1>9. /\ sent.id \in Ids /\ sent.recs \subseteq decided /\ attempts[sent.id].recs \subseteq decided
      /\ sent.recs = InHand /\ sent.recs \subseteq Creditable /\ attempts[sent.id].recs = sent.recs
      /\ AnswerInv
  BY <1>1, AnsweredInHand DEF AnswerInv
<1>10. attempts' \in [Ids -> AttemptType] /\ attempts'[sent.id].recs = attempts[sent.id].recs
  BY <1>1, <1>2, <1>9, AfterEffect, CreditedEffect
<1>4. RailTypeOK'
  BY <1>1, <1>2, <1>10 DEF RailTypeOK, Working, Submitting
<1>5. RunInv' /\ ClockInv' /\ MintInv'
  BY <1>1, <1>2 DEF RunInv, ClockInv, MintInv
<1>6. FlightInv' /\ CustodyInv'
  BY <1>1, <1>3, <1>9, AfterKeeps, CreditedKeeps
<1>7. SentInv'
  <2>1. CASE at' = "link"
    BY <2>1, <1>1, <1>9 DEF SentInv, Submitting
  <2>2. CASE at' = at
    <3>1. InHand' = InHand /\ AnswerInv'
      BY <1>1, <1>9 DEF InHand, AnswerInv, Gone
    <3> QED
      BY <2>2, <3>1, <1>1, <1>3, <1>9, <1>10 DEF SentInv, Submitting
  <2> QED
    BY <1>1, <2>1, <2>2
<1>8. TodoInv'
  BY <1>1, <1>2, <1>3 DEF TodoInv, Working, Submitting
<1> QED
  BY <1>4, <1>5, <1>6, <1>7, <1>8 DEF RailInv

\* The attempt whose receipts are linked is forgotten.
LEMMA LinksDoneKeeps ==
    ASSUME WatchInv, RailInv, LinksDone
    PROVE  RailInv'
<1>1. /\ at = "link" /\ at' \in {"ended", "next"}
      /\ attempts' = Dead(sent.id) /\ landed' = landed \ {sent.id}
      /\ UNCHANGED <<chain, decided, pc, kclock, spentTips, minted, flight, sent, mode,
                      todo, seenClock, answer>>
  BY DEF LinksDone, watchVars, kernelVars, custodyVars, obsVars, chainVars, tickVars, hostVars
<1>2. /\ RailTypeOK /\ RunInv /\ ClockInv /\ MintInv /\ FlightInv /\ CustodyInv /\ SentInv
      /\ TodoInv
  BY DEF RailInv
<1>3. Creditable' = Creditable
  BY <1>1 DEF Creditable, Transfers, Truth
<1>9. sent.id \in Ids
  BY <1>1, <1>2 DEF SentInv
<1>4. RailTypeOK'
  <2>1. attempts' \in [Ids -> AttemptType]
    BY <1>1, <1>2, <1>9, DeadEffect
  <2> QED
    BY <1>1, <1>2, <2>1 DEF RailTypeOK, Working, Submitting
<1>5. RunInv' /\ ClockInv' /\ MintInv'
  BY <1>1, <1>2 DEF RunInv, ClockInv, MintInv
<1>6. FlightInv' /\ CustodyInv'
  BY <1>1, <1>3, <1>9, DeadKeeps
<1>7. SentInv'
  BY <1>1, NothingInHand
<1>8. TodoInv'
  BY <1>1, <1>2, <1>3 DEF TodoInv, Working, Submitting
<1> QED
  BY <1>4, <1>5, <1>6, <1>7, <1>8 DEF RailInv

\* A stale answer: sign again once.
LEMMA OnStaleKeeps ==
    ASSUME WatchInv, RailInv, OnStale
    PROVE  RailInv'
<1>1. /\ at = "answered" /\ answer = "stalePay"
      /\ attempts' = Dead(sent.id) /\ at' \in {"ended", "build"}
      /\ UNCHANGED <<chain, decided, pc, kclock, spentTips, minted, landed, flight, sent,
                      mode, todo, seenClock, answer>>
  BY DEF OnStale, watchVars, kernelVars, custodyVars, obsVars, chainVars, tickVars, hostVars, Answered
<1>2. /\ RailTypeOK /\ RunInv /\ ClockInv /\ MintInv /\ FlightInv /\ CustodyInv /\ SentInv
      /\ TodoInv
  BY DEF RailInv
<1>3. Creditable' = Creditable
  BY <1>1 DEF Creditable, Transfers, Truth
<1>9. sent.id \in Ids /\ sent.id \notin landed
  BY <1>1, AnsweredInHand DEF AnswerInv, Gone
<1>4. RailTypeOK'
  <2>1. attempts' \in [Ids -> AttemptType]
    BY <1>1, <1>2, <1>9, DeadEffect
  <2> QED
    BY <1>1, <1>2, <2>1 DEF RailTypeOK, Working, Submitting
<1>5. RunInv' /\ ClockInv' /\ MintInv'
  BY <1>1, <1>2 DEF RunInv, ClockInv, MintInv
<1>6. FlightInv' /\ CustodyInv'
  <2>1. landed' = landed \ {sent.id}
    BY <1>1, <1>9
  <2> QED
    BY <1>1, <1>3, <1>9, <2>1, DeadKeeps
<1>7. SentInv'
  BY <1>1, NothingInHand
<1>8. TodoInv'
  BY <1>1, <1>2, <1>3 DEF TodoInv, Working, Submitting
<1> QED
  BY <1>4, <1>5, <1>6, <1>7, <1>8 DEF RailInv

\* A tip the kernel refuses.
LEMMA OnTipKeeps ==
    ASSUME WatchInv, RailInv, OnTip
    PROVE  RailInv'
<1>1. /\ at = "answered" /\ answer \in {"tipBehindClock", "tickTooSoon", "tipRegressing"}
      /\ attempts' = Dead(sent.id) /\ at' = "ended"
      /\ UNCHANGED <<chain, decided, pc, kclock, spentTips, minted, landed, flight, sent,
                      mode, todo, seenClock, answer>>
  BY DEF OnTip, watchVars, kernelVars, custodyVars, obsVars, chainVars, tickVars, hostVars, Answered
<1>2. /\ RailTypeOK /\ RunInv /\ ClockInv /\ MintInv /\ FlightInv /\ CustodyInv /\ SentInv
      /\ TodoInv
  BY DEF RailInv
<1>3. Creditable' = Creditable
  BY <1>1 DEF Creditable, Transfers, Truth
<1>9. sent.id \in Ids /\ sent.id \notin landed
  BY <1>1, AnsweredInHand DEF AnswerInv, Gone
<1>4. RailTypeOK'
  <2>1. attempts' \in [Ids -> AttemptType]
    BY <1>1, <1>2, <1>9, DeadEffect
  <2> QED
    BY <1>1, <1>2, <2>1 DEF RailTypeOK, Working, Submitting
<1>5. RunInv' /\ ClockInv' /\ MintInv'
  BY <1>1, <1>2 DEF RunInv, ClockInv, MintInv
<1>6. FlightInv' /\ CustodyInv'
  <2>1. landed' = landed \ {sent.id}
    BY <1>1, <1>9
  <2> QED
    BY <1>1, <1>3, <1>9, <2>1, DeadKeeps
<1>7. SentInv'
  BY <1>1, NothingInHand
<1>8. TodoInv'
  BY <1>1, <1>2, <1>3 DEF TodoInv, Working, Submitting
<1> QED
  BY <1>4, <1>5, <1>6, <1>7, <1>8 DEF RailInv

\* A consumed submission: wait, settle the record, or probe the batch.
LEMMA OnConsumedKeeps ==
    ASSUME WatchInv, RailInv, OnConsumed
    PROVE  RailInv'
<1>1. /\ at = "answered" /\ answer = "alreadyConsumed"
      /\ UNCHANGED <<chain, decided, pc, kclock, spentTips, minted, landed, flight, sent,
                      todo, seenClock, answer>>
  BY DEF OnConsumed, watchVars, kernelVars, custodyVars, obsVars, chainVars, tickVars, hostVars, Answered
<1>2. /\ RailTypeOK /\ RunInv /\ ClockInv /\ MintInv /\ FlightInv /\ CustodyInv /\ SentInv
      /\ TodoInv
  BY DEF RailInv
<1>3. Creditable' = Creditable
  BY <1>1 DEF Creditable, Transfers, Truth
<1>9. sent.id \in Ids /\ sent.id \notin landed
  BY <1>1, AnsweredInHand DEF AnswerInv, Gone
<1>10. \/ attempts' = Dead(sent.id) /\ at' = "ended" /\ mode' = mode
       \/ /\ ~TickMayBeSpent /\ Cardinality(sent.recs) = 1 /\ mode' = mode
          /\ \/ at' = "link" /\ attempts' = [attempts EXCEPT ![sent.id].decision = "credited"]
             \/ at' = "settle" /\ attempts' = Dead(sent.id)
       \/ /\ Cardinality(sent.recs) > 1
          /\ attempts' = Dead(sent.id) /\ at' = "build" /\ mode' = "probe"
  BY DEF OnConsumed
<1>11. at' \in {"link", "settle"} => \E i \in decided : sent.recs = {i}
  BY <1>10, ConsumedAlone DEF OnConsumed
<1>12. at' = "link" => attempts[sent.id].recs \subseteq decided
  BY <1>1, <1>11, AnsweredInHand
<1>4. RailTypeOK'
  <2>1. attempts' \in [Ids -> AttemptType]
    BY <1>2, <1>9, <1>10, DeadEffect, CreditedEffect
  <2> QED
    BY <1>1, <1>2, <1>10, <2>1 DEF RailTypeOK, Working, Submitting
<1>5. RunInv' /\ ClockInv' /\ MintInv'
  BY <1>1, <1>2 DEF RunInv, ClockInv, MintInv
<1>6. FlightInv' /\ CustodyInv'
  <2>1. CASE attempts' = Dead(sent.id)
    <3>1. landed' = landed \ {sent.id}
      BY <1>1, <1>9
    <3> QED
      BY <2>1, <3>1, <1>1, <1>3, <1>9, DeadKeeps
  <2>2. CASE at' = "link" /\ attempts' = [attempts EXCEPT ![sent.id].decision = "credited"]
    BY <2>2, <1>1, <1>3, <1>9, <1>12, CreditedKeeps
  <2> QED
    BY <1>10, <2>1, <2>2
<1>7. SentInv'
  <2>1. CASE at' \in {"ended", "build"}
    BY <2>1, NothingInHand
  <2>2. CASE at' \in {"link", "settle"}
    BY <2>2, <1>1, <1>9, <1>11 DEF SentInv, Submitting
  <2> QED
    BY <1>10, <2>1, <2>2
<1>8. TodoInv'
  <2>1. at' = "build" => todo # <<>>
    <3>1. Cardinality(sent.recs) > 1 => sent.recs # {}
      BY FS_EmptySet
    <3> QED
      BY <1>1, <1>10, <3>1, SomethingToProbe
  <2> QED
    BY <1>1, <1>2, <1>3, <1>10, <2>1 DEF TodoInv, Working, Submitting
<1> QED
  BY <1>4, <1>5, <1>6, <1>7, <1>8 DEF RailInv

\* A spent record gets its receipt.
LEMMA SettleKeeps ==
    ASSUME WatchInv, RailInv, Settle
    PROVE  RailInv'
<1>1. /\ at = "settle" /\ at' = "next"
      /\ UNCHANGED <<chain, decided, pc, kclock, spentTips, minted, attempts, landed,
                      flight, sent, mode, todo, seenClock, answer>>
  BY DEF Settle, watchVars, kernelVars, custodyVars, obsVars, chainVars, tickVars, hostVars, KeepWatch
<1>2. /\ RailTypeOK /\ RunInv /\ ClockInv /\ MintInv /\ FlightInv /\ CustodyInv /\ SentInv
      /\ TodoInv
  BY DEF RailInv
<1>3. Creditable' = Creditable
  BY <1>1 DEF Creditable, Transfers, Truth
<1>4. RailTypeOK'
  BY <1>1, <1>2 DEF RailTypeOK, Working, Submitting
<1>5. RunInv' /\ ClockInv' /\ MintInv'
  BY <1>1, <1>2 DEF RunInv, ClockInv, MintInv
<1>6. FlightInv' /\ CustodyInv'
  BY <1>1, <1>2, <1>3 DEF FlightInv, CustodyInv
<1>7. SentInv'
  BY <1>1, NothingInHand
<1>8. TodoInv'
  BY <1>1, <1>2, <1>3 DEF TodoInv, Working, Submitting
<1> QED
  BY <1>4, <1>5, <1>6, <1>7, <1>8 DEF RailInv

\* A refused record is set aside, a refused batch probed.
LEMMA OnPerObservationKeeps ==
    ASSUME WatchInv, RailInv, OnPerObservation
    PROVE  RailInv'
<1>1. /\ at = "answered" /\ answer = "perObservation"
      /\ attempts' = Dead(sent.id)
      /\ \/ at' = "next" /\ mode' = mode
         \/ at' = "build" /\ mode' = "probe"
      /\ UNCHANGED <<chain, decided, pc, kclock, spentTips, minted, landed, flight, sent,
                      todo, seenClock, answer>>
  BY DEF OnPerObservation, watchVars, kernelVars, custodyVars, obsVars, chainVars, tickVars, hostVars, Answered
<1>2. /\ RailTypeOK /\ RunInv /\ ClockInv /\ MintInv /\ FlightInv /\ CustodyInv /\ SentInv
      /\ TodoInv
  BY DEF RailInv
<1>3. Creditable' = Creditable
  BY <1>1 DEF Creditable, Transfers, Truth
<1>9. sent.id \in Ids /\ sent.id \notin landed
  BY <1>1, AnsweredInHand DEF AnswerInv, Gone
<1>4. RailTypeOK'
  <2>1. attempts' \in [Ids -> AttemptType]
    BY <1>1, <1>2, <1>9, DeadEffect
  <2> QED
    BY <1>1, <1>2, <2>1 DEF RailTypeOK, Working, Submitting
<1>5. RunInv' /\ ClockInv' /\ MintInv'
  BY <1>1, <1>2 DEF RunInv, ClockInv, MintInv
<1>6. FlightInv' /\ CustodyInv'
  <2>1. landed' = landed \ {sent.id}
    BY <1>1, <1>9
  <2> QED
    BY <1>1, <1>3, <1>9, <2>1, DeadKeeps
<1>7. SentInv'
  BY <1>1, NothingInHand
<1>8. TodoInv'
  <2>1. todo # <<>>
    BY <1>1, AnsweredInHand, SomethingToProbe DEF AnswerInv
  <2> QED
    BY <1>1, <1>2, <1>3, <2>1 DEF TodoInv
<1> QED
  BY <1>4, <1>5, <1>6, <1>7, <1>8 DEF RailInv

\* The next record at the same tip.
LEMMA NextRecordKeeps ==
    ASSUME WatchInv, RailInv, NextRecord
    PROVE  RailInv'
<1>1. /\ at = "next"
      /\ UNCHANGED <<chain, decided, pc, kclock, spentTips, minted, attempts, landed,
                      flight, sent, seenClock, answer>>
  BY DEF NextRecord, watchVars, kernelVars, custodyVars, obsVars, chainVars, tickVars, hostVars
<1>2. /\ RailTypeOK /\ RunInv /\ ClockInv /\ MintInv /\ FlightInv /\ CustodyInv /\ SentInv
      /\ TodoInv
  BY DEF RailInv
<1>3. Creditable' = Creditable
  BY <1>1 DEF Creditable, Transfers, Truth
<1>9. /\ at' \in {"ended", "build"} /\ mode' \in {mode, "batch"}
      /\ todo' = <<>> \/ (mode # "batch" /\ todo' = Tail(todo))
      /\ at' = "build" /\ mode' # "batch" => todo' # <<>>
  <2> DEFINE rest == IF mode = "batch" THEN <<>> ELSE Tail(todo)
  <2>1. /\ todo' = rest /\ mode' = IF mode = "probe" /\ rest = <<>> THEN "batch" ELSE mode
        /\ at' = IF mode = "enrol" /\ rest = <<>> THEN "ended" ELSE "build"
    BY DEF NextRecord
  <2>2. rest = <<>> \/ (mode # "batch" /\ rest = Tail(todo))
    OBVIOUS
  <2>3. mode \in {"batch", "probe", "enrol"}
    BY <1>2 DEF RailTypeOK
  <2> HIDE DEF rest
  <2> QED
    BY <2>1, <2>2, <2>3
<1>10. todo' \in Seq(Nat) /\ ToSet(todo') \subseteq ToSet(todo)
  <2>1. CASE todo' = <<>>
    BY <2>1 DEF ToSet
  <2>2. CASE mode # "batch" /\ todo' = Tail(todo)
    <3>1. todo \in Seq(Nat) /\ todo # <<>>
      BY <1>1, <1>2, <2>2 DEF RailTypeOK, TodoInv, Working
    <3>2. /\ Tail(todo) \in Seq(Nat) /\ Len(todo) \in Nat
          /\ Len(Tail(todo)) = Len(todo) - 1
          /\ \A k \in 1..Len(Tail(todo)) : Tail(todo)[k] = todo[k + 1] /\ k + 1 \in 1..Len(todo)
      BY <3>1
    <3> QED
      BY <2>2, <3>1, <3>2 DEF ToSet
  <2> QED
    BY <1>9, <2>1, <2>2
<1>4. RailTypeOK'
  BY <1>1, <1>2, <1>9, <1>10 DEF RailTypeOK, Working, Submitting
<1>5. RunInv' /\ ClockInv' /\ MintInv'
  BY <1>1, <1>2 DEF RunInv, ClockInv, MintInv
<1>6. FlightInv' /\ CustodyInv'
  BY <1>1, <1>2, <1>3 DEF FlightInv, CustodyInv
<1>7. SentInv'
  BY <1>9, NothingInHand
<1>8. TodoInv'
  BY <1>1, <1>2, <1>3, <1>9, <1>10 DEF TodoInv, Working, Submitting
<1> QED
  BY <1>4, <1>5, <1>6, <1>7, <1>8 DEF RailInv

\* An undecided attempt is kept; one the verifier did not see is forgotten.
LEMMA OnUndecidedKeeps ==
    ASSUME WatchInv, RailInv, OnUndecided
    PROVE  RailInv'
<1>1. /\ at = "answered" /\ at' = "ended"
      /\ \/ attempts' = attempts
         \/ answer = "verifier" /\ attempts' = Dead(sent.id)
      /\ UNCHANGED <<chain, decided, pc, kclock, spentTips, minted, landed, flight, sent,
                      mode, todo, seenClock, answer>>
  BY DEF OnUndecided, watchVars, kernelVars, custodyVars, obsVars, chainVars, tickVars, hostVars, Answered
<1>2. /\ RailTypeOK /\ RunInv /\ ClockInv /\ MintInv /\ FlightInv /\ CustodyInv /\ SentInv
      /\ TodoInv
  BY DEF RailInv
<1>3. Creditable' = Creditable
  BY <1>1 DEF Creditable, Transfers, Truth
<1>9. answer = "verifier" => sent.id \in Ids /\ sent.id \notin landed
  BY <1>1, AnsweredInHand DEF AnswerInv, Gone
<1>4. RailTypeOK'
  <2>1. attempts' \in [Ids -> AttemptType]
    BY <1>1, <1>2, <1>9, DeadEffect DEF RailTypeOK
  <2> QED
    BY <1>1, <1>2, <2>1 DEF RailTypeOK, Working, Submitting
<1>5. RunInv' /\ ClockInv' /\ MintInv'
  BY <1>1, <1>2 DEF RunInv, ClockInv, MintInv
<1>6. FlightInv' /\ CustodyInv'
  <2>1. CASE attempts' = attempts
    BY <2>1, <1>1, <1>2, <1>3 DEF FlightInv, CustodyInv
  <2>2. CASE answer = "verifier" /\ attempts' = Dead(sent.id)
    <3>1. landed' = landed \ {sent.id}
      BY <2>2, <1>1, <1>9
    <3> QED
      BY <2>2, <3>1, <1>1, <1>3, <1>9, DeadKeeps
  <2> QED
    BY <1>1, <2>1, <2>2
<1>7. SentInv'
  BY <1>1, NothingInHand
<1>8. TodoInv'
  BY <1>1, <1>2, <1>3 DEF TodoInv, Working, Submitting
<1> QED
  BY <1>4, <1>5, <1>6, <1>7, <1>8 DEF RailInv

\* The process exits.
LEMMA ObserveEndsKeeps ==
    ASSUME WatchInv, RailInv, ObserveEnds
    PROVE  RailInv'
<1>1. /\ at' = "off" /\ sent' = NoSend /\ todo' = <<>> /\ seenClock' = 0 /\ mode' = "batch"
      /\ UNCHANGED <<chain, decided, kclock, spentTips, minted, attempts, landed, flight>>
  BY DEF ObserveEnds, watchVars, kernelVars, custodyVars, obsVars, chainVars, tickVars, hostVars
<1>2. /\ RailTypeOK /\ RunInv /\ ClockInv /\ MintInv /\ FlightInv /\ CustodyInv /\ SentInv
      /\ TodoInv
  BY DEF RailInv
<1>3. Creditable' = Creditable
  BY <1>1 DEF Creditable, Transfers, Truth
<1>4. RailTypeOK'
  <2>1. NoSend \in SendType
    BY DEF NoSend, SendType
  <2> QED
    BY <1>1, <1>2, <2>1 DEF RailTypeOK, Working, Submitting
<1>5. RunInv' /\ ClockInv' /\ MintInv'
  BY <1>1, <1>2 DEF RunInv, ClockInv, MintInv
<1>6. FlightInv' /\ CustodyInv'
  BY <1>1, <1>2, <1>3 DEF FlightInv, CustodyInv
<1>7. SentInv'
  BY <1>1, NothingInHand
<1>8. TodoInv'
  BY <1>1 DEF TodoInv, ToSet, Working, Submitting
<1> QED
  BY <1>4, <1>5, <1>6, <1>7, <1>8 DEF RailInv

\* A kill takes the observer with it; attempts and frames stay.
LEMMA RailKillKeeps ==
    ASSUME WatchInv, RailInv, RailKill
    PROVE  RailInv'
<1>1. /\ at' = "off" /\ sent' = NoSend /\ todo' = <<>> /\ seenClock' = 0 /\ mode' = "batch"
      /\ UNCHANGED <<chain, decided, kclock, spentTips, minted, attempts, landed, flight>>
  BY DEF RailKill, watchVars, kernelVars, custodyVars, obsVars, chainVars, tickVars, hostVars, Kill
<1>2. /\ RailTypeOK /\ RunInv /\ ClockInv /\ MintInv /\ FlightInv /\ CustodyInv /\ SentInv
      /\ TodoInv
  BY DEF RailInv
<1>3. Creditable' = Creditable
  BY <1>1 DEF Creditable, Transfers, Truth
<1>4. RailTypeOK'
  <2>1. NoSend \in SendType
    BY DEF NoSend, SendType
  <2> QED
    BY <1>1, <1>2, <2>1 DEF RailTypeOK, Working, Submitting
<1>5. RunInv' /\ ClockInv' /\ MintInv'
  BY <1>1, <1>2 DEF RunInv, ClockInv, MintInv
<1>6. FlightInv' /\ CustodyInv'
  BY <1>1, <1>2, <1>3 DEF FlightInv, CustodyInv
<1>7. SentInv'
  BY <1>1, NothingInHand
<1>8. TodoInv'
  BY <1>1 DEF TodoInv, ToSet, Working, Submitting
<1> QED
  BY <1>4, <1>5, <1>6, <1>7, <1>8 DEF RailInv

-----------------------------------------------------------------------------
(* Steps beside the observer                                               *)

\* What a step of the Host, the chain or anyone else may do to what the
\* observer relies on: more is decided, frames leave or are marked stale.
Aside ==
    /\ UNCHANGED <<attempts, mode, todo>>
    /\ decided \subseteq decided' /\ Creditable \subseteq Creditable' /\ spentTips \subseteq spentTips'
    /\ \/ sent' = sent /\ flight' \subseteq flight
       \/ sent' = Staled(sent) /\ flight' \subseteq {Staled(n) : n \in flight}

\* Every frame left is one that was there, with the same records.
LEMMA FramesStay ==
    ASSUME RailInv, Aside
    PROVE  /\ flight' \subseteq SendType /\ sent' \in SendType
           /\ sent'.id = sent.id /\ sent'.recs = sent.recs /\ sent'.tip = sent.tip
           /\ \A m \in flight' : \E n \in flight : /\ m.id = n.id /\ m.recs = n.recs
                                                   /\ n = sent => m = sent'
           /\ \A m, n \in flight' : m.id = n.id => m = n
<1>1. flight \subseteq SendType /\ sent \in SendType
  BY DEF RailInv, RailTypeOK
<1>2. \A m, n \in flight : m.id = n.id => m = n
  BY DEF RailInv, FlightInv
<1>3. CASE sent' = sent /\ flight' \subseteq flight
  BY <1>1, <1>2, <1>3
<1>4. CASE sent' = Staled(sent) /\ flight' \subseteq {Staled(n) : n \in flight}
  <2>1. \A m \in flight' : \E n \in flight : m = Staled(n)
    BY <1>4
  <2>2. \A n \in flight : /\ Staled(n) \in SendType
                          /\ Staled(n).id = n.id /\ Staled(n).recs = n.recs
    BY <1>1, StaledEffect
  <2>3. /\ sent' \in SendType
        /\ sent'.id = sent.id /\ sent'.recs = sent.recs /\ sent'.tip = sent.tip
    BY <1>1, <1>4, StaledEffect
  <2>4. ASSUME NEW m \in flight', NEW n \in flight', m.id = n.id PROVE m = n
    <3>1. PICK k \in flight : m = Staled(k)
      BY <2>1
    <3>2. PICK l \in flight : n = Staled(l)
      BY <2>1
    <3>3. k.id = l.id
      BY <2>2, <2>4, <3>1, <3>2
    <3> QED
      BY <1>2, <3>1, <3>2, <3>3
  <2>5. ASSUME NEW m \in flight'
        PROVE  /\ m \in SendType
               /\ \E n \in flight : m.id = n.id /\ m.recs = n.recs /\ (n = sent => m = sent')
    <3>1. PICK k \in flight : m = Staled(k)
      BY <2>1
    <3> QED
      BY <1>4, <2>2, <3>1
  <2> QED
    BY <2>3, <2>4, <2>5
<1> QED
  BY <1>3, <1>4 DEF Aside

\* What is kept of the frames and of the attempts, when the newly committed
\* attempts are decided.
LEMMA AsideKeeps ==
    ASSUME RailInv, Aside, landed' \subseteq Ids,
           \A id \in landed' : id \in landed \/ (attempts[id].kind # "none"
                                                 /\ attempts[id].recs \subseteq decided')
    PROVE  FlightInv' /\ CustodyInv'
<1>1. FlightInv /\ CustodyInv
  BY DEF RailInv
<1>2. attempts' = attempts /\ decided \subseteq decided' /\ Creditable \subseteq Creditable'
  BY DEF Aside
<1>3. /\ \A m \in flight' : \E n \in flight : m.id = n.id /\ m.recs = n.recs
      /\ \A m, n \in flight' : m.id = n.id => m = n
  BY FramesStay
<1>4. FlightInv'
  BY <1>1, <1>2, <1>3 DEF FlightInv
<1>5. CustodyInv'
  BY <1>1, <1>2 DEF CustodyInv
<1> QED
  BY <1>4, <1>5

\* What is kept of the submission in hand, when the newly committed attempts
\* had a frame, and not one the observer waits for.
LEMMA AsideSent ==
    ASSUME RailInv, Aside, at' = at, answer' = answer, landed \subseteq landed',
           \A id \in landed' : \/ id \in landed
                               \/ /\ \E m \in flight : m.id = id
                                  /\ ~(at = "wait" /\ sent.id = id)
    PROVE  SentInv' /\ TodoInv'
<1>1. SentInv /\ TodoInv
  BY DEF RailInv
<1>2. /\ UNCHANGED <<attempts, mode, todo, at, answer>>
      /\ decided \subseteq decided' /\ Creditable \subseteq Creditable' /\ spentTips \subseteq spentTips'
  BY DEF Aside
<1>3. /\ sent'.id = sent.id /\ sent'.recs = sent.recs /\ sent'.tip = sent.tip
      /\ \A m \in flight' : \E n \in flight : m.id = n.id /\ (n = sent => m = sent')
  BY FramesStay
<1>4. InHand' = InHand
  BY <1>2 DEF InHand
<1>5. Gone(sent.id) => Gone(sent.id)'
  BY <1>3 DEF Gone
<1>6. AnswerInv => AnswerInv'
  BY <1>2, <1>3, <1>5 DEF AnswerInv
<1>7. TodoInv'
  BY <1>1, <1>2 DEF TodoInv
<1>8. SentInv'
  <2>1. at \in Submitting => /\ sent'.id \in Ids /\ sent'.recs = InHand'
                             /\ sent'.recs \subseteq Creditable'
    BY <1>1, <1>2, <1>3, <1>4 DEF SentInv
  <2>2. at \in {"mark", "send"} => Gone(sent.id)'
    BY <1>1, <1>5 DEF SentInv
  <2>3. at \in {"send", "wait", "answered"} => attempts'[sent'.id].recs = sent'.recs
    BY <1>1, <1>2, <1>3 DEF SentInv
  <2>4. at = "wait" => /\ sent'.id \notin landed'
                       /\ \A m \in flight' : m.id = sent'.id => m = sent'
    BY <1>1, <1>3 DEF SentInv
  <2>5. at = "answered" => AnswerInv'
    BY <1>1, <1>6 DEF SentInv
  <2>6. at = "settle" => \E i \in decided' : sent'.recs = {i}
    BY <1>1, <1>2, <1>3 DEF SentInv
  <2>7. (at = "link" => sent'.id \in Ids) /\ (at = "classify" => sent'.id \in landed')
    BY <1>1, <1>3 DEF SentInv
  <2> QED
    BY <1>2, <1>3, <2>1, <2>2, <2>3, <2>4, <2>5, <2>6, <2>7 DEF SentInv
<1> QED
  BY <1>7, <1>8

\* A commit: its transfers were not decided, its tip is not behind the clock.
LEMMA CommitKeeps ==
    ASSUME RailInv, NEW rs, NEW tip \in Nat, Commit(rs, tip), rs \cap decided = {}, tip >= kclock
    PROVE  /\ ClockInv' /\ MintInv'
           /\ kclock' \in Nat /\ spentTips' \subseteq Nat /\ minted' \in [1..MaxTx -> Nat]
<1>1. /\ decided' = decided \cup rs /\ spentTips' = spentTips \cup {tip} /\ kclock' = tip
      /\ minted' = [i \in 1..MaxTx |-> IF i \in rs /\ minted[i] < 2 THEN minted[i] + 1 ELSE minted[i]]
  BY DEF Commit, Credits
<1>2. kclock \in Nat /\ spentTips \subseteq Nat /\ minted \in [1..MaxTx -> Nat]
  BY DEF RailInv, RailTypeOK
<1>3. ClockInv'
  BY <1>1, <1>2 DEF RailInv, ClockInv
<1>4. minted' \in [1..MaxTx -> Nat]
  BY <1>1, <1>2
<1>5. MintInv'
  <2> SUFFICES ASSUME NEW i \in 1..MaxTx PROVE minted'[i] =< 1 /\ (minted'[i] # 0 => i \in decided')
    BY DEF MintInv, Txs
  <2>1. minted[i] \in Nat /\ minted[i] =< 1 /\ (minted[i] # 0 => i \in decided)
    BY <1>2 DEF RailInv, MintInv, Txs
  <2>2. CASE i \in rs
    <3>1. minted[i] = 0
      BY <2>1, <2>2
    <3>2. minted'[i] = 1
      BY <1>1, <2>2, <3>1
    <3> QED
      BY <1>1, <2>2, <3>2
  <2>3. CASE i \notin rs
    BY <1>1, <2>1, <2>3
  <2> QED
    BY <2>2, <2>3
<1> QED
  BY <1>1, <1>2, <1>3, <1>4, <1>5

\* What an answer of the kernel means.
LEMMA AnswerMeans ==
    ASSUME NEW m, NEW a, a = HostAnswer(m) \/ a = ReportAnswer(m)
    PROVE  /\ a = "confirmed" => /\ m.recs \cap decided = {}
                                 /\ ~(m.tip < kclock)
                                 /\ \A i \in m.recs : chain[i].kind # "poison"
           /\ a = "alreadyConsumed" => m.recs \cap decided # {} \/ m.tip \in spentTips
           /\ a = "perObservation" => m.recs # {}
           /\ a # "undecided"
<1>1. CASE a = ReportAnswer(m)
  BY <1>1 DEF ReportAnswer, Consumed
<1>2. CASE a = EnrolAnswer(m)
  BY <1>2 DEF EnrolAnswer, Consumed
<1> QED
  BY <1>1, <1>2 DEF HostAnswer

\* The Host handles a frame and commits it.
LEMMA HostCommits ==
    ASSUME WatchInv, RailInv, NEW m \in flight, HostAnswer(m) = "confirmed",
           Commit(m.recs, m.tip),
           landed' = IF attempts[m.id].kind = "none" THEN landed ELSE landed \cup {m.id},
           flight' = {Staled(n) : n \in flight \ {m}}, sent' = Staled(sent),
           UNCHANGED <<chain, pc, attempts, mode, todo, seenClock>>,
           \/ at = "wait" /\ sent.id = m.id /\ answer' = "confirmed" /\ at' = "answered"
           \/ ~(at = "wait" /\ sent.id = m.id) /\ answer' = answer /\ at' = at
    PROVE  RailInv'
<1>1. /\ RailTypeOK /\ RunInv /\ ClockInv /\ MintInv /\ FlightInv /\ CustodyInv /\ SentInv
      /\ TodoInv
  BY DEF RailInv
<1>2. m \in SendType /\ m.id \in Ids /\ m.tip \in Nat /\ kclock \in Nat /\ landed \subseteq Ids
  BY <1>1 DEF RailTypeOK, FlightInv, SendType
<1>3. m.recs \cap decided = {} /\ m.tip >= kclock
  <2>1. m.recs \cap decided = {} /\ ~(m.tip < kclock)
    BY AnswerMeans
  <2> QED
    BY <1>2, <2>1
<1>4. /\ ClockInv' /\ MintInv'
      /\ kclock' \in Nat /\ spentTips' \subseteq Nat /\ minted' \in [1..MaxTx -> Nat]
  BY <1>2, <1>3, CommitKeeps
<1>5. decided' = decided \cup m.recs /\ spentTips \subseteq spentTips'
  BY DEF Commit
<1>6. Creditable' = Creditable
  BY DEF Creditable, Transfers, Truth
<1>7. Aside
  BY <1>5, <1>6 DEF Aside
<1>8. /\ flight' \subseteq SendType /\ sent' \in SendType
      /\ sent'.id = sent.id /\ sent'.recs = sent.recs /\ sent'.tip = sent.tip
  BY <1>7, FramesStay
<1>9. RailTypeOK'
  <2>1. landed' \subseteq Ids
    BY <1>2
  <2> QED
    BY <1>1, <1>4, <1>8, <2>1 DEF RailTypeOK, Working, Submitting
<1>10. RunInv'
  BY <1>1 DEF RunInv
<1>11. FlightInv' /\ CustodyInv'
  <2>1. attempts[m.id].kind # "none" => attempts[m.id].recs = m.recs
    BY <1>1 DEF FlightInv
  <2> QED
    BY <1>2, <1>5, <1>7, <2>1, AsideKeeps
<1>12. SentInv' /\ TodoInv'
  <2>1. CASE ~(at = "wait" /\ sent.id = m.id) /\ answer' = answer /\ at' = at
    BY <1>7, <2>1, AsideSent
  <2>2. CASE at = "wait" /\ sent.id = m.id /\ answer' = "confirmed" /\ at' = "answered"
    <3>1. /\ m = sent /\ sent.recs = InHand /\ sent.recs \subseteq Creditable
          /\ attempts[sent.id].recs = sent.recs
      BY <1>1, <2>2 DEF SentInv, Submitting
    <3>2. InHand' = InHand
      BY DEF InHand
    <3>3. AnswerInv'
      BY <2>2, <3>1, <1>5, <1>8 DEF AnswerInv
    <3>4. SentInv'
      BY <2>2, <3>1, <3>2, <3>3, <1>2, <1>6, <1>8 DEF SentInv, Submitting
    <3>5. TodoInv'
      BY <1>1, <1>6, <2>2 DEF TodoInv, Working, Submitting
    <3> QED
      BY <3>4, <3>5
  <2> QED
    BY <2>1, <2>2
<1> QED
  BY <1>4, <1>9, <1>10, <1>11, <1>12 DEF RailInv

\* The Host handles a frame and refuses it.
LEMMA HostRefuses ==
    ASSUME WatchInv, RailInv, NEW m \in flight, HostAnswer(m) # "confirmed",
           flight' = flight \ {m},
           UNCHANGED <<chain, pc, decided, kclock, spentTips, minted, landed, sent, attempts,
                       mode, todo, seenClock>>,
           \/ at = "wait" /\ sent.id = m.id /\ answer' = HostAnswer(m) /\ at' = "answered"
           \/ ~(at = "wait" /\ sent.id = m.id) /\ answer' = answer /\ at' = at
    PROVE  RailInv'
<1>1. /\ RailTypeOK /\ RunInv /\ ClockInv /\ MintInv /\ FlightInv /\ CustodyInv /\ SentInv
      /\ TodoInv
  BY DEF RailInv
<1>2. Creditable' = Creditable
  BY DEF Creditable, Transfers, Truth
<1>3. Aside
  BY <1>2 DEF Aside
<1>4. RailTypeOK'
  BY <1>1 DEF RailTypeOK, Working, Submitting
<1>5. RunInv' /\ ClockInv' /\ MintInv'
  BY <1>1 DEF RunInv, ClockInv, MintInv
<1>6. FlightInv' /\ CustodyInv'
  BY <1>1, <1>3, AsideKeeps DEF RailTypeOK
<1>7. SentInv' /\ TodoInv'
  <2>1. CASE ~(at = "wait" /\ sent.id = m.id) /\ answer' = answer /\ at' = at
    BY <1>3, <2>1, AsideSent
  <2>2. CASE at = "wait" /\ sent.id = m.id /\ answer' = HostAnswer(m) /\ at' = "answered"
    <3>1. /\ m = sent /\ sent.recs = InHand /\ sent.recs \subseteq Creditable /\ sent.id \in Ids
          /\ attempts[sent.id].recs = sent.recs /\ sent.id \notin landed
      BY <1>1, <2>2 DEF SentInv, Submitting
    <3>2. InHand' = InHand
      BY DEF InHand
    <3>3. Gone(sent.id)'
      BY <1>1, <3>1 DEF FlightInv, Gone
    <3>4. AnswerInv'
      <4>1. /\ answer' = "alreadyConsumed" => sent.recs \cap decided # {} \/ sent.tip \in spentTips
            /\ answer' = "perObservation" => sent.recs # {}
            /\ answer' # "confirmed"
        BY <2>2, <3>1, AnswerMeans
      <4> QED
        BY <3>3, <4>1 DEF AnswerInv
    <3>5. SentInv'
      BY <2>2, <3>1, <3>2, <3>4, <1>2 DEF SentInv, Submitting
    <3>6. TodoInv'
      BY <1>1, <1>2, <2>2 DEF TodoInv, Working, Submitting
    <3> QED
      BY <3>5, <3>6
  <2> QED
    BY <2>1, <2>2
<1> QED
  BY <1>4, <1>5, <1>6, <1>7 DEF RailInv

\* The Host handles a frame.
LEMMA HostHandlesKeeps ==
    ASSUME WatchInv, RailInv, HostHandles
    PROVE  RailInv'
<1> PICK m \in flight :
        /\ IF HostAnswer(m) = "confirmed"
           THEN /\ Commit(m.recs, m.tip)
                /\ landed' = IF attempts[m.id].kind = "none" THEN landed ELSE landed \cup {m.id}
                /\ flight' = {Staled(n) : n \in flight \ {m}}
                /\ sent' = Staled(sent)
           ELSE flight' = flight \ {m} /\ UNCHANGED <<decided, kernelVars, landed, sent>>
        /\ IF at = "wait" /\ sent.id = m.id
           THEN answer' = HostAnswer(m) /\ at' = "answered"
           ELSE UNCHANGED <<answer, at>>
        /\ UNCHANGED <<chainVars, tickVars, attempts, mode, todo, seenClock>>
  BY DEF HostHandles
<1>1. UNCHANGED <<chain, pc, attempts, mode, todo, seenClock>>
  BY DEF chainVars, tickVars
<1>2. CASE HostAnswer(m) = "confirmed"
  BY <1>1, <1>2, HostCommits
<1>3. CASE HostAnswer(m) # "confirmed"
  <2>1. UNCHANGED <<decided, kclock, spentTips, minted, landed, sent>> /\ flight' = flight \ {m}
    BY <1>3 DEF kernelVars
  <2> QED
    BY <1>1, <1>3, <2>1, HostRefuses
<1> QED
  BY <1>2, <1>3

\* Somebody else's report.
LEMMA OtherReportsKeeps ==
    ASSUME WatchInv, RailInv, OtherReports
    PROVE  RailInv'
<1>1. /\ flight' = {Staled(n) : n \in flight} /\ sent' = Staled(sent)
      /\ UNCHANGED <<chain, pc, attempts, landed, at, mode, todo, seenClock, answer>>
  BY DEF OtherReports, chainVars, tickVars
<1>2. /\ RailTypeOK /\ RunInv /\ ClockInv /\ MintInv /\ FlightInv /\ CustodyInv /\ SentInv
      /\ TodoInv
  BY DEF RailInv
<1> PICK tip \in 1..top, rs \in SUBSET Decidable :
        /\ ReportAnswer([id |-> 0, kind |-> "report", recs |-> rs, tip |-> tip,
                         stale |-> FALSE]) = "confirmed"
        /\ Commit(rs, tip)
  BY DEF OtherReports
<1>3. tip \in Nat /\ kclock \in Nat
  BY <1>2 DEF RailTypeOK, WatchInv, WatchTypeOK
<1>4. rs \cap decided = {} /\ tip >= kclock
  <2> DEFINE m == [id |-> 0, kind |-> "report", recs |-> rs, tip |-> tip, stale |-> FALSE]
  <2>1. m.recs \cap decided = {} /\ ~(m.tip < kclock)
    BY AnswerMeans
  <2> QED
    BY <2>1, <1>3
<1>5. /\ ClockInv' /\ MintInv'
      /\ kclock' \in Nat /\ spentTips' \subseteq Nat /\ minted' \in [1..MaxTx -> Nat]
  BY <1>3, <1>4, CommitKeeps
<1>6. Aside
  <2>1. decided \subseteq decided' /\ spentTips \subseteq spentTips'
    BY DEF Commit
  <2>2. Creditable' = Creditable
    BY <1>1 DEF Creditable, Transfers, Truth
  <2> QED
    BY <1>1, <2>1, <2>2 DEF Aside
<1>7. RailTypeOK'
  BY <1>1, <1>2, <1>5, <1>6, FramesStay DEF RailTypeOK
<1>8. RunInv'
  BY <1>1, <1>2 DEF RunInv
<1>9. FlightInv' /\ CustodyInv'
  BY <1>1, <1>2, <1>6, AsideKeeps DEF RailTypeOK
<1>10. SentInv' /\ TodoInv'
  BY <1>1, <1>6, AsideSent
<1> QED
  BY <1>5, <1>7, <1>8, <1>9, <1>10 DEF RailInv

\* The clock ticks; an assignment or a tariff change writes the pay cell.
LEMMA OthersKeep ==
    ASSUME WatchInv, RailInv, ClockTicks \/ PayCellWrites
    PROVE  RailInv'
<1>1. /\ \/ sent' = sent /\ flight' = flight
         \/ sent' = Staled(sent) /\ flight' = {Staled(n) : n \in flight}
      /\ UNCHANGED <<chain, decided, pc, spentTips, minted, attempts, landed, at, mode, todo,
                     seenClock, answer>>
  BY DEF ClockTicks, PayCellWrites, watchVars, kernelVars, custodyVars, obsVars
<1>2. /\ RailTypeOK /\ RunInv /\ ClockInv /\ MintInv /\ FlightInv /\ CustodyInv /\ SentInv
      /\ TodoInv
  BY DEF RailInv
<1>3. kclock' \in Nat /\ kclock \in Nat /\ kclock =< kclock'
  <2>1. kclock \in Nat /\ MaxSlot \in Nat
    BY <1>2, IndexAssumption DEF RailTypeOK
  <2> QED
    BY <2>1 DEF ClockTicks, PayCellWrites, kernelVars, Slots
<1>4. Aside
  <2>1. Creditable' = Creditable
    BY <1>1 DEF Creditable, Transfers, Truth
  <2> QED
    BY <1>1, <2>1 DEF Aside
<1>5. RailTypeOK'
  BY <1>1, <1>2, <1>3, <1>4, FramesStay DEF RailTypeOK
<1>6. RunInv' /\ MintInv'
  BY <1>1, <1>2 DEF RunInv, MintInv
<1>7. ClockInv'
  <2>1. \A t \in spentTips : t \in Nat /\ t =< kclock
    BY <1>2 DEF RailTypeOK, ClockInv
  <2> QED
    BY <1>1, <1>3, <2>1 DEF ClockInv
<1>8. FlightInv' /\ CustodyInv'
  BY <1>1, <1>2, <1>4, AsideKeeps DEF RailTypeOK
<1>9. SentInv' /\ TodoInv'
  BY <1>1, <1>4, AsideSent
<1> QED
  BY <1>5, <1>6, <1>7, <1>8, <1>9 DEF RailInv

\* The chain, the script and the operator: the observer does not run while the
\* script is at another step.
LEMMA BesideKeeps ==
    ASSUME WatchInv, RailInv, Beside(Finalize) \/ Beside(ScriptStep) \/ Beside(QuarantineStep)
    PROVE  RailInv'
<1>1. UNCHANGED <<kclock, spentTips, minted, attempts, landed, flight, sent, at, mode, todo,
                  seenClock, answer>>
  BY DEF Beside, kernelVars, custodyVars, obsVars
<1>2. /\ RailTypeOK /\ RunInv /\ ClockInv /\ MintInv /\ FlightInv /\ CustodyInv /\ SentInv
      /\ TodoInv
  BY DEF RailInv
<1>3. decided' = decided /\ (pc = "observe" => pc' = pc)
  BY DEF Beside, Finalize, ScriptStep, QuarantineStep, Run, Republish, Stage, Publish, WriteCursor,
         Acknowledge, Quarantine, RemovePending, hostVars, tickVars
<1>4. Creditable \subseteq Creditable'
  <2>1. CASE Finalize
    BY <2>1, FinalizeExtends DEF WatchInv
  <2>2. CASE ScriptStep \/ QuarantineStep
    <3>1. chain' = chain
      BY <2>2 DEF ScriptStep, QuarantineStep, Run, Republish, Stage, Publish, WriteCursor,
                  Acknowledge, Quarantine, RemovePending, chainVars
    <3> QED
      BY <3>1 DEF Creditable, Transfers, Truth
  <2> QED
    BY <2>1, <2>2 DEF Beside
<1>5. Aside
  BY <1>1, <1>3, <1>4 DEF Aside
<1>6. RailTypeOK' /\ RunInv' /\ ClockInv' /\ MintInv'
  BY <1>1, <1>2, <1>3 DEF RailTypeOK, RunInv, ClockInv, MintInv
<1>7. FlightInv' /\ CustodyInv'
  BY <1>1, <1>2, <1>5, AsideKeeps DEF RailTypeOK
<1>8. SentInv' /\ TodoInv'
  BY <1>1, <1>5, AsideSent
<1> QED
  BY <1>6, <1>7, <1>8 DEF RailInv

-----------------------------------------------------------------------------
(* The rail's steps as the watcher's                                       *)

\* A receipt of a decided transfer, linked while the observer runs.
LEMMA ReceiptImplements ==
    ASSUME pc = "observe", NEW i \in decided, receipts' = receipts \cup {i},
           UNCHANGED <<chainVars, decided, tickVars, faultVars>>
    PROVE  [WatchNext]_watchVars
<1>1. CASE i \in receipts
  <2>1. UNCHANGED watchVars
    BY <1>1 DEF watchVars, chainVars, tickVars, faultVars
  <2> QED
    BY <2>1
<1>2. CASE i \notin receipts
  <2>1. ObserverLinks
    BY <1>2 DEF ObserverLinks
  <2> QED
    BY <2>1 DEF WatchNext
<1> QED
  BY <1>1, <1>2

\* Linking the receipts of a credited attempt, or the one of a spent record.
LEMMA LinksImplement ==
    ASSUME WatchInv, RailInv, ResolveLinks \/ Link \/ Settle
    PROVE  [WatchNext]_watchVars
<1>1. UNCHANGED <<chainVars, decided, tickVars, faultVars>>
  BY DEF ResolveLinks, Link, LinkOne, Settle, KeepWatch
<1>2. at # "off" /\ pc = "observe"
  BY DEF ResolveLinks, Link, Settle, RailInv, RunInv
<1>3. CASE ResolveLinks \/ Link
  <2>1. PICK id \in Ids : LinkOne(id)
    BY <1>3 DEF ResolveLinks, Link, RailInv, SentInv
  <2>2. attempts[id].decision = "credited"
    BY <2>1 DEF LinkOne
  <2>3. attempts[id].recs \subseteq decided
    BY <2>2 DEF RailInv, CustodyInv
  <2>4. PICK i \in decided : receipts' = receipts \cup {i}
    BY <2>1, <2>3 DEF LinkOne, Unlinked
  <2> QED
    BY <1>1, <1>2, <2>4, ReceiptImplements
<1>4. CASE Settle
  <2>1. PICK i \in decided : sent.recs = {i}
    BY <1>4 DEF Settle, RailInv, SentInv
  <2>2. receipts' = receipts \cup {i}
    BY <1>4, <2>1 DEF Settle
  <2> QED
    BY <1>1, <1>2, <2>2, ReceiptImplements
<1> QED
  BY <1>3, <1>4

\* A commit of transfers the kernel may credit.
LEMMA CommitImplements ==
    ASSUME NEW rs, NEW tip, Commit(rs, tip), rs \subseteq Decidable, rs \cap decided = {},
           UNCHANGED <<chainVars, receipts, tickVars, faultVars>>
    PROVE  [WatchNext]_watchVars
<1>1. decided' = decided \cup rs
  BY DEF Commit
<1>2. CASE rs = {}
  <2>1. UNCHANGED watchVars
    BY <1>1, <1>2 DEF watchVars, chainVars, tickVars, faultVars
  <2> QED
    BY <2>1
<1>3. CASE rs # {}
  <2>1. HostDecides
    BY <1>1, <1>3 DEF HostDecides
  <2> QED
    BY <2>1 DEF WatchNext
<1> QED
  BY <1>2, <1>3

\* The Host's answers, and the reports of others.
LEMMA HostImplements ==
    ASSUME WatchInv, RailInv, HostHandles \/ OtherReports
    PROVE  [WatchNext]_watchVars
<1>1. UNCHANGED <<chainVars, receipts, tickVars, faultVars>>
  BY DEF HostHandles, OtherReports
<1>2. CASE HostHandles
  <2> PICK m \in flight :
          IF HostAnswer(m) = "confirmed" THEN Commit(m.recs, m.tip) ELSE decided' = decided
    BY <1>2 DEF HostHandles
  <2>1. CASE HostAnswer(m) = "confirmed"
    <3>1. m.recs \cap decided = {} /\ \A i \in m.recs : chain[i].kind # "poison"
      BY <2>1, AnswerMeans
    <3>2. m.recs \subseteq Creditable
      BY DEF RailInv, FlightInv
    <3>3. m.recs \subseteq Decidable
      BY <3>1, <3>2 DEF Creditable, Decidable
    <3> QED
      BY <1>1, <2>1, <3>1, <3>3, CommitImplements
  <2>2. CASE HostAnswer(m) # "confirmed"
    <3>1. UNCHANGED watchVars
      BY <1>1, <2>2 DEF watchVars, chainVars, tickVars, faultVars
    <3> QED
      BY <3>1
  <2> QED
    BY <2>1, <2>2
<1>3. CASE OtherReports
  <2> PICK tip \in 1..top, rs \in SUBSET Decidable :
          /\ ReportAnswer([id |-> 0, kind |-> "report", recs |-> rs, tip |-> tip,
                           stale |-> FALSE]) = "confirmed"
          /\ Commit(rs, tip)
    BY <1>3 DEF OtherReports
  <2> DEFINE m == [id |-> 0, kind |-> "report", recs |-> rs, tip |-> tip, stale |-> FALSE]
  <2>1. m.recs \cap decided = {}
    BY AnswerMeans
  <2>2. rs \cap decided = {}
    BY <2>1
  <2> QED
    BY <1>1, <2>2, CommitImplements
<1> QED
  BY <1>2, <1>3

\* The end of the observer and a kill.
LEMMA EndsImplement ==
    ASSUME WatchInv, RailInv, ObserveEnds \/ RailKill
    PROVE  [WatchNext]_watchVars
<1>1. CASE ObserveEnds
  <2>1. pc = "observe"
    BY <1>1 DEF ObserveEnds, RailInv, RunInv
  <2>2. ObserverEnds
    BY <1>1, <2>1 DEF ObserveEnds, ObserverEnds
  <2> QED
    BY <2>2 DEF WatchNext
<1>2. CASE RailKill
  BY <1>2 DEF RailKill, WatchNext
<1> QED
  BY <1>1, <1>2

\* The observer's other steps leave everything of the watcher alone.
LEMMA ObserverAlone ==
    ASSUME \/ ObserveStarts \/ ResolveClears \/ LookupConfirmed \/ LookupReadsAfter
           \/ LookupClassified \/ LookupAbsent \/ Route \/ SubmitStep \/ OnConfirmed \/ LinksDone
           \/ OnStale \/ OnTip \/ OnConsumed \/ OnPerObservation \/ NextRecord \/ OnUndecided
           \/ LookupUndecided \/ EnrolUnconfigured \/ ObserveErrs \/ AnswerLost \/ VerifierFails
           \/ ClockTicks \/ PayCellWrites
    PROVE  UNCHANGED watchVars
BY DEF ObserveStarts, ResolveClears, LookupConfirmed, LookupReadsAfter, LookupClassified,
       LookupAbsent, Route, SubmitStep, Build, Mark, Send, OnConfirmed, LinksDone, OnStale, OnTip,
       OnConsumed, OnPerObservation, NextRecord, OnUndecided, LookupUndecided, EnrolUnconfigured,
       ObserveErrs, AnswerLost, VerifierFails, ClockTicks, PayCellWrites

\* Every step of the rail is a step of the watcher's specification, or leaves
\* its variables alone.
LEMMA StepImplements ==
    ASSUME WatchInv, RailInv, [RailNext]_railVars
    PROVE  [WatchNext]_watchVars
<1>1. CASE Beside(Finalize) \/ Beside(ScriptStep) \/ Beside(QuarantineStep)
  BY <1>1 DEF Beside, WatchNext
<1>2. CASE RailKill \/ ObserveEnds
  BY <1>2, EndsImplement
<1>3. CASE HostHandles \/ OtherReports
  BY <1>3, HostImplements
<1>4. CASE \/ ClockTicks \/ PayCellWrites \/ LookupUndecided \/ EnrolUnconfigured \/ ObserveErrs
           \/ AnswerLost \/ VerifierFails
  BY <1>4, ObserverAlone
<1>5. CASE ObserverStep
  <2>1. CASE ObserveStarts \/ SubmitStep
    BY <2>1, ObserverAlone
  <2>2. CASE ResolveStep
    BY <2>2, ObserverAlone, LinksImplement DEF ResolveStep
  <2>3. CASE AnswerStep
    BY <2>3, ObserverAlone, LinksImplement DEF AnswerStep
  <2> QED
    BY <1>5, <1>2, <2>1, <2>2, <2>3 DEF ObserverStep
<1>6. CASE UNCHANGED railVars
  BY <1>6 DEF railVars
<1> QED
  BY <1>1, <1>2, <1>3, <1>4, <1>5, <1>6 DEF RailNext

-----------------------------------------------------------------------------
(* The theorems                                                            *)

\* The invariant holds at the start.
LEMMA RailInitially == RailInit => WatchInv /\ RailInv
<1> SUFFICES ASSUME RailInit PROVE WatchInv /\ RailInv
  OBVIOUS
<1>1. WatchInit /\ WatchInv
  BY WatchInitially DEF RailInit
<1>2. /\ kclock = 0 /\ spentTips = {} /\ minted = [i \in 1..MaxTx |-> 0]
      /\ attempts = [id \in Ids |-> NoAttempt] /\ landed = {} /\ flight = {} /\ at = "off"
      /\ mode = "batch" /\ todo = <<>> /\ sent = NoSend /\ seenClock = 0
  BY DEF RailInit
<1>3. RailTypeOK
  <2>1. NoAttempt \in AttemptType /\ NoSend \in SendType
    BY DEF NoAttempt, AttemptType, NoSend, SendType
  <2>2. minted \in [1..MaxTx -> Nat] /\ attempts \in [Ids -> AttemptType]
    BY <1>2, <2>1
  <2>3. todo \in Seq(Nat)
    BY <1>2
  <2> QED
    BY <1>2, <2>1, <2>2, <2>3 DEF RailTypeOK
<1>4. RunInv /\ ClockInv /\ MintInv
  BY <1>2 DEF RunInv, ClockInv, MintInv, Txs
<1>5. FlightInv /\ CustodyInv
  BY <1>2 DEF FlightInv, CustodyInv, NoAttempt
<1>6. SentInv
  BY <1>2 DEF SentInv, Submitting
<1>7. TodoInv
  BY <1>2 DEF TodoInv, ToSet
<1> QED
  BY <1>1, <1>3, <1>4, <1>5, <1>6, <1>7 DEF RailInv

\* Every step of the rail keeps its invariant.
LEMMA RailInductive ==
    ASSUME WatchInv, RailInv, [RailNext]_railVars
    PROVE  WatchInv' /\ RailInv'
<1>1. WatchInv'
  BY StepImplements, WatchInductive
<1> SUFFICES RailInv'
  BY <1>1
<1>2. CASE Beside(Finalize) \/ Beside(ScriptStep) \/ Beside(QuarantineStep) \/ RailKill
  BY <1>2, BesideKeeps, RailKillKeeps
<1>3. CASE HostHandles \/ OtherReports \/ ClockTicks \/ PayCellWrites
  BY <1>3, HostHandlesKeeps, OtherReportsKeeps, OthersKeep
<1>4. CASE LookupUndecided \/ EnrolUnconfigured \/ ObserveErrs \/ AnswerLost \/ VerifierFails
  BY <1>4, GivesUpKeeps, AnswerLostKeeps, VerifierFailsKeeps
<1>5. CASE ObserverStep
  <2>1. CASE ObserveStarts \/ SubmitStep \/ ObserveEnds
    BY <2>1, ObserveStartsKeeps, BuildKeeps, MarkKeeps, SendKeeps, ObserveEndsKeeps DEF SubmitStep
  <2>2. CASE ResolveStep
    BY <2>2, LinkingKeeps, ResolveClearsKeeps, LookupConfirmedKeeps, LookupReadsAfterKeeps,
       LookupClassifiedKeeps, LookupAbsentKeeps, RouteKeeps DEF ResolveStep
  <2>3. CASE AnswerStep
    BY <2>3, OnConfirmedKeeps, LinkingKeeps, LinksDoneKeeps, OnStaleKeeps, OnTipKeeps,
       OnConsumedKeeps, SettleKeeps, OnPerObservationKeeps, NextRecordKeeps, OnUndecidedKeeps
       DEF AnswerStep
  <2> QED
    BY <1>5, <2>1, <2>2, <2>3 DEF ObserverStep
<1>6. CASE UNCHANGED railVars
  BY <1>6, RailSame DEF railVars, watchVars, kernelVars, custodyVars, obsVars
<1> QED
  BY <1>2, <1>3, <1>4, <1>5, <1>6 DEF RailNext

\* The rail's inductive invariant.
LEMMA RailInvariant == RailSpec => [](WatchInv /\ RailInv)
<1>1. WatchInv /\ RailInv /\ [RailNext]_railVars => (WatchInv /\ RailInv)'
  BY RailInductive
<1> QED
  BY <1>1, RailInitially, PTL DEF RailSpec

\* The observer and the kernel's receivers keep every promise the watcher relies
\* on: the rail implements the watcher's specification.
THEOREM RailImplementsWatch == RailSpec => ImplementsWatch
<1>1. RailInit => WatchInit
  BY DEF RailInit
<1>2. WatchInv /\ RailInv /\ [RailNext]_railVars => [WatchNext]_watchVars
  BY StepImplements
<1> QED
  BY <1>1, <1>2, RailInvariant, PTL DEF RailSpec, ImplementsWatch, WatchSpec

\* tick_may_be_spent closes the false already-credited receipt: every receipt is
\* of a transfer the kernel decided, whatever was committed between the view,
\* the submission and the refusal.
THEOREM ReceiptsAreTrue == RailSpec => []ReceiptMeansDecided
<1>1. WatchInv => ReceiptMeansDecided
  BY DEF WatchInv, DecidedInv, ReceiptMeansDecided
<1> QED
  BY <1>1, RailInvariant, PTL

\* No transfer is credited twice, though its report is retried, looked up as
\* absent while its frame is on its way, or reported by another observer.
THEOREM NeverCreditedTwice == RailSpec => []CreditedOnce
<1>1. RailInv => CreditedOnce
  BY DEF RailInv, MintInv, CreditedOnce
<1> QED
  BY <1>1, RailInvariant, PTL

\* The cursor's safety, proved of the watcher with an abstract observer, holds
\* of the whole rail.
THEOREM RailCursorIsSafe == RailSpec => []CursorLosesNothing
BY RailImplementsWatch, CursorIsSafe, PTL DEF ImplementsWatch
=============================================================================
