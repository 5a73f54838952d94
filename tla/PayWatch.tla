------------------------------ MODULE PayWatch ------------------------------
(***************************************************************************)
(* The payment watcher (native/pay-watcher) and the tick script that runs  *)
(* it (deploy/pay/mini-pay-watcher).                                       *)
(*                                                                         *)
(* One run reads the finalized transfers of every watched index from N     *)
(* endpoints, keeps what all of them agree on, and writes one durable tick *)
(* (pending.json) BEFORE it moves the enrollment cursor.  The script then  *)
(* runs `mini pay observe` on the tick's records and, when that settles,   *)
(* moves the tick to ticks/.  A kill between any two of these steps leaves *)
(* the files as they are; the next run republishes the pending tick.       *)
(*                                                                         *)
(* What the observer and the Host do is here only what the watcher relies  *)
(* on: the kernel decides transfers, and the observer links a receipt for  *)
(* a transfer the kernel has decided.  PayRail gives both in detail and is *)
(* checked to implement this specification.                                *)
(***************************************************************************)
EXTENDS Naturals, Sequences, FiniteSets, SequencesExt

CONSTANTS
    Endpoints,      \* the configured RPC endpoints
    Honest,         \* the endpoints that answer truthfully (or not at all)
    First,          \* transports[0], whose listing advance_cursor walks
    Indexes,        \* watched book indexes: "enrol" and/or "book"
    Kinds,          \* kinds of transfer that may be finalized (see Truth)
    MaxTx, MaxSlot, \* bounds: transfers and slots of the chain
    MaxTicks,       \* bound: durable ticks
    MaxCrash        \* bound: kills of the script and losses of power

ASSUME EndpointAssumption ==
    First \in Endpoints /\ Honest \subseteq Endpoints /\ Honest # {}

ASSUME IndexAssumption ==
    /\ Indexes \subseteq {"enrol", "book"}
    /\ Kinds \subseteq {"credit", "poison", "dust", "void"}
    /\ {MaxTx, MaxSlot, MaxTicks, MaxCrash} \subseteq Nat

VARIABLES
    chain,      \* finalized transfers, oldest first; a position is a signature
    top,        \* the newest finalized slot
    decided,    \* transfers whose nullifier the kernel has spent
    receipts,   \* receipts/SIGNATURE.ADDRESS of the observer's workspace
    cursor,     \* enrol.cursorFile: 0, or the newest settled position
    pending,    \* tick/pending.json
    archive,    \* tick/ticks/ID.json
    quarantined,\* tick/quarantine/ID.json
    obsFile,    \* tick/observations.json
    cur,        \* the tick the running watcher holds in memory
    pc,         \* where the script is
    crashes,    \* kills and power failures so far
    synced,     \* the pending tick and the cursor when this run started
    outage      \* history: power was lost

chainVars == <<chain, top>>
hostVars == <<decided, receipts>>
tickVars == <<cursor, pending, archive, quarantined, obsFile, cur, pc>>
faultVars == <<crashes, synced, outage>>
watchVars == <<chain, top, decided, receipts, cursor, pending, archive,
               quarantined, obsFile, cur, pc, crashes, synced, outage>>

Transfers == DOMAIN chain
Slots == 0..MaxSlot
NoTick == [id |-> 0, tip |-> 0, recs |-> {}, dust |-> {}, before |-> 0, after |-> 0]

-----------------------------------------------------------------------------
(* What an endpoint can answer.                                            *)

Outcomes == {"credit", "dust", "void", "refused"}

\* view_index's verdict on a transfer from its true transaction: below the
\* journal floor only at the enrollment index; "void" is a failed transaction,
\* a zero delta or a net debit; a "poison" credit is one the kernel will refuse
\* on its own merits.
Truth(i) ==
    CASE chain[i].kind = "void" -> "void"
      [] chain[i].kind = "dust" /\ chain[i].index = "enrol" -> "dust"
      [] OTHER -> "credit"

\* An agreed permanent skip: the cursor may pass it (Outcome::settled).
SettledOutcome(o) == o \in {"dust", "void"}

\* Signatures are listed newest first.
Newest(S) ==
    CHOOSE q \in [1..Cardinality(S) -> S] :
        ToSet(q) = S /\ \A m, n \in DOMAIN q : m < n => q[m] > q[n]

\* The account's signatures at or below the tip.  The enrollment index is
\* listed down to the cursor (`until`), every other index whole.
Listing(x, tip) ==
    Newest({i \in Transfers : /\ chain[i].index = x
                              /\ chain[i].slot =< tip
                              /\ x = "enrol" => i > cursor})

TrueView(x, tip) ==
    LET listed == Listing(x, tip)
    IN  [account |-> TRUE,
         listed |-> listed,
         out |-> [i \in ToSet(listed) \ receipts |-> Truth(i)]]

\* The endpoint's answers refuse the whole index for this run.
NoView == [account |-> FALSE, listed |-> <<>>, out |-> [i \in {0} |-> "refused"]]
\* The endpoint lists no token account for the mint.
NoAccount == [account |-> FALSE, listed |-> <<>>, out |-> <<>>]

Drop(f, i) == [j \in DOMAIN f \ {i} |-> f[j]]
Hide(s, i) == SelectSeq(s, LAMBDA j : j # i)

HonestViews(x, tip) ==
    LET v == TrueView(x, tip)
    IN  {v, NoView} \cup {[v EXCEPT !.out[i] = "refused"] : i \in DOMAIN v.out}

\* A dishonest endpoint departs from the truth on one transfer per run: it
\* reorders its listing, omits the transfer from its listing, its answers or
\* both, or gives it another outcome.
AnyViews(x, tip) ==
    LET v == TrueView(x, tip)
    IN  HonestViews(x, tip)
        \cup {NoAccount, [v EXCEPT !.listed = Reverse(v.listed)]}
        \cup {[v EXCEPT !.out[i] = o] : i \in DOMAIN v.out, o \in Outcomes}
        \cup {[v EXCEPT !.out = Drop(v.out, i)] : i \in DOMAIN v.out}
        \cup {[v EXCEPT !.listed = Hide(v.listed, i)] : i \in ToSet(v.listed)}
        \cup {[v EXCEPT !.listed = Hide(v.listed, i), !.out = Drop(v.out, i)] :
                  i \in ToSet(v.listed)}

\* Every combination of answers: the honest endpoints keep to theirs.
IndexViews(x, tip) ==
    LET honest == HonestViews(x, tip)
    IN  {vs \in [Endpoints -> AnyViews(x, tip)] : \A e \in Honest : vs[e] \in honest}

-----------------------------------------------------------------------------
(* One run (watch.rs).                                                     *)

\* The transfers on which every endpoint's answer is the first one's.
Agreed(vs) ==
    {i \in DOMAIN vs[First].out :
        \A e \in Endpoints : /\ i \in DOMAIN vs[e].out
                             /\ vs[e].out[i] = vs[First].out[i]}

\* One refusing endpoint refuses the index.
IndexRefused(vs) == \E e \in Endpoints : vs[e] = NoView

AgreedAs(vs, outcome) ==
    IF IndexRefused(vs) THEN {} ELSE {i \in Agreed(vs) : vs[First].out[i] = outcome}

Settled(vs) == receipts \cup {i \in Agreed(vs) : SettledOutcome(vs[First].out[i])}

\* The endpoints must list the account identically, or the cursor holds.
ListedAlike(vs) ==
    \A e \in Endpoints : vs[e].account /\ vs[e].listed = vs[First].listed

WalkOver(listed, settled) == {listed[k] : k \in {m \in DOMAIN listed : listed[m] \in settled}}

\* The newest entry down from which every listed signature is settled.
Walk(listed, settled) ==
    LET passed == {k \in DOMAIN listed :
                      \A m \in DOMAIN listed : m >= k => listed[m] \in settled}
    IN  {listed[k] : k \in passed}

AdvanceCursor(vs) ==
    LET over == Walk(vs[First].listed, Settled(vs))
    IN  IF IndexRefused(vs) \/ ~ListedAlike(vs) \/ over = {}
        THEN cursor
        ELSE CHOOSE i \in over : \A j \in over : j =< i

\* A quarantined tick keeps its ID: the next one never reuses it.
ArchivedTickId == 1 + Cardinality(archive)
NextTickId ==
    LET ids == {t.id : t \in archive \cup quarantined}
    IN  CHOOSE n \in 1..(MaxTicks + 1) : n - 1 \in ids \cup {0} /\ \A m \in ids : m < n

\* What one run can conclude about one index.
Conclusions(x, tip) ==
    {[credit |-> AgreedAs(vs, "credit"),
      dust |-> AgreedAs(vs, "dust"),
      after |-> IF x = "enrol" THEN AdvanceCursor(vs) ELSE cursor] : vs \in IndexViews(x, tip)}

Report(tip, found) ==
    [id |-> NextTickId,
     tip |-> tip,
     recs |-> UNION {found[x].credit : x \in Indexes},
     dust |-> UNION {found[x].dust : x \in Indexes},
     before |-> cursor,
     after |-> IF "enrol" \in Indexes THEN found["enrol"].after ELSE cursor]

\* No pending tick: read the endpoints at the least finalized slot any of them
\* names (at most the honest one's, so at most `top`).  No agreed tip, or an
\* unreadable receipts directory, exits 2 and changes nothing.
Run ==
    /\ pc = "idle"
    /\ pending = NoTick
    /\ NextTickId =< MaxTicks
    /\ \E tip \in 1..top :
          LET found == [x \in Indexes |-> Conclusions(x, tip)]
          IN  \E f \in {g \in [Indexes -> UNION Range(found)] : \A x \in Indexes : g[x] \in found[x]} :
                 cur' = Report(tip, f)
    /\ pc' = "stage"
    /\ synced' = [pending |-> pending, cursor |-> cursor]
    /\ UNCHANGED <<chainVars, hostVars, cursor, pending, archive, quarantined,
                   obsFile, crashes, outage>>

-----------------------------------------------------------------------------
(* The durable tick (main.rs).                                             *)

\* A pending tick is republished; no endpoint is asked.
Republish ==
    /\ pc = "idle"
    /\ pending # NoTick
    /\ cur' = pending
    /\ pc' = "publish"
    /\ synced' = [pending |-> pending, cursor |-> cursor]
    /\ UNCHANGED <<chainVars, hostVars, cursor, pending, archive, quarantined,
                   obsFile, crashes, outage>>

\* pending.json is written before anything else of the tick.
Stage ==
    /\ pc = "stage"
    /\ pending' = cur
    /\ pc' = "publish"
    /\ UNCHANGED <<chainVars, hostVars, cursor, archive, quarantined, obsFile,
                   cur, faultVars>>

\* publish_tick: a cursor in neither recorded state refuses (exit 2).
Publish ==
    /\ pc = "publish"
    /\ LET known == cursor \in {cur.before, cur.after}
       IN  /\ obsFile' = IF known THEN [tip |-> cur.tip, recs |-> cur.recs] ELSE obsFile
           /\ pc' = IF known THEN "cursor" ELSE "idle"
    /\ UNCHANGED <<chainVars, hostVars, cursor, pending, archive, quarantined,
                   cur, faultVars>>

\* The enrollment cursor moves last; then the script starts the observer.
WriteCursor ==
    /\ pc = "cursor"
    /\ cursor' = cur.after
    /\ pc' = "observe"
    /\ UNCHANGED <<chainVars, hostVars, pending, archive, quarantined, obsFile,
                   cur, faultVars>>

\* acknowledge_tick, after an observer exit of 0 or 3: one rename, unless the
\* pending tick is another one or the archive already has its ID.
Acknowledge ==
    /\ pc = "ack"
    /\ LET fits == pending.id = cur.id /\ \A t \in archive : t.id # pending.id
       IN  /\ archive' = IF fits THEN archive \cup {pending} ELSE archive
           /\ pending' = IF fits THEN NoTick ELSE pending
    /\ pc' = "idle"
    /\ cur' = NoTick
    /\ UNCHANGED <<chainVars, hostVars, cursor, quarantined, obsFile, faultVars>>

\* quarantine_tick, the operator's verb, under the script's lock: the bundle is
\* written to quarantine/ID.json, and only then is pending.json removed.
QuarantineDropped ==
    /\ pc = "idle"
    /\ pending # NoTick
    /\ pc' = "remove"
    /\ UNCHANGED <<chainVars, hostVars, cursor, pending, archive, quarantined,
                   obsFile, cur, faultVars>>
Quarantine ==
    /\ pc = "idle"
    /\ pending # NoTick
    /\ \A t \in quarantined : t.id # pending.id
    /\ quarantined' = quarantined \cup {pending}
    /\ pc' = "remove"
    /\ UNCHANGED <<chainVars, hostVars, cursor, pending, archive, obsFile, cur,
                   faultVars>>

RemovePending ==
    /\ pc = "remove"
    /\ pending' = NoTick
    /\ pc' = "idle"
    /\ UNCHANGED <<chainVars, hostVars, cursor, archive, quarantined, obsFile,
                   cur, faultVars>>

\* A kill: the files stay.
Kill ==
    /\ pc # "idle"
    /\ crashes < MaxCrash
    /\ crashes' = crashes + 1
    /\ pc' = "idle"
    /\ cur' = NoTick
    /\ UNCHANGED <<chainVars, hostVars, cursor, pending, archive, quarantined,
                   obsFile, synced, outage>>

\* Power is lost while a tick is published.  write_atomic syncs neither the
\* file nor its directory, so each rename of this run may or may not have
\* reached the disk.
PowerFails ==
    /\ pc \in {"publish", "cursor", "observe"}
    /\ crashes < MaxCrash
    /\ crashes' = crashes + 1
    /\ pending' \in {pending, synced.pending}
    /\ cursor' \in {cursor, synced.cursor}
    /\ outage' = TRUE
    /\ pc' = "idle"
    /\ cur' = NoTick
    /\ UNCHANGED <<chainVars, hostVars, archive, quarantined, obsFile, synced>>

-----------------------------------------------------------------------------
(* The chain, the kernel and the observer, as the watcher relies on them.  *)

\* A slot is finalized with up to two of the watched accounts' transfers.
Finalize ==
    /\ top < MaxSlot
    /\ top' = top + 1
    /\ \E n \in 0..2 : \E es \in [1..n -> [kind : Kinds, index : Indexes, slot : {top + 1}]] :
          /\ Len(chain) + n =< MaxTx
          /\ chain' = chain \o es
    /\ UNCHANGED <<hostVars, tickVars, faultVars>>

Decidable == {i \in Transfers : Truth(i) = "credit" /\ chain[i].kind # "poison"}

\* The kernel admits a report or an enrollment (of anyone's): it decides
\* transfers it had not decided.
HostDecides ==
    /\ \E S \in SUBSET (Decidable \ decided) : S # {} /\ decided' = decided \cup S
    /\ UNCHANGED <<chainVars, receipts, tickVars, faultVars>>

\* The observer links a receipt of a decided transfer.
ObserverLinks ==
    /\ pc = "observe"
    /\ \E i \in decided \ receipts : receipts' = receipts \cup {i}
    /\ UNCHANGED <<chainVars, decided, tickVars, faultVars>>

\* It exits 0 or 3 (settled: acknowledge) or otherwise (the tick stays).
ObserverEnds ==
    /\ pc = "observe"
    /\ pc' \in {"ack", "idle"}
    /\ cur' = IF pc' = "idle" THEN NoTick ELSE cur
    /\ UNCHANGED <<chainVars, hostVars, cursor, pending, archive, quarantined,
                   obsFile, faultVars>>

WatchInit ==
    /\ chain = <<>>
    /\ top = 0
    /\ decided = {}
    /\ receipts = {}
    /\ cursor = 0
    /\ pending = NoTick
    /\ archive = {}
    /\ quarantined = {}
    /\ obsFile = [tip |-> 0, recs |-> {}]
    /\ cur = NoTick
    /\ pc = "idle"
    /\ crashes = 0
    /\ synced = [pending |-> NoTick, cursor |-> 0]
    /\ outage = FALSE

\* The script's own steps.
ScriptStep == Run \/ Republish \/ Stage \/ Publish \/ WriteCursor \/ Acknowledge
QuarantineStep == Quarantine \/ RemovePending

WatchNext ==
    \/ Finalize
    \/ ScriptStep
    \/ QuarantineStep
    \/ Kill
    \/ PowerFails
    \/ HostDecides
    \/ ObserverLinks
    \/ ObserverEnds

WatchSpec == WatchInit /\ [][WatchNext]_watchVars

\* The timer starts the script again and its steps are taken; the operator
\* quarantines again and again a tick that stays pending.  The observer may
\* never settle it: nothing is assumed of its exit.
WayOutSpec ==
    /\ WatchSpec
    /\ WF_watchVars(ScriptStep)
    /\ WF_watchVars(ObserverEnds)
    /\ SF_watchVars(Quarantine)
    /\ WF_watchVars(RemovePending)
=============================================================================
