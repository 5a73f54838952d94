--------------------------- MODULE PayWatchProofs ---------------------------
(***************************************************************************)
(* Proofs about the payment watcher and its durable tick, for any chain,   *)
(* any endpoints of which one is honest, and any number of ticks, kills    *)
(* and power failures.                                                     *)
(***************************************************************************)
EXTENDS PayWatchSafety, FiniteSetTheorems, WellFoundedInduction, TLAPS

-----------------------------------------------------------------------------
(* The inductive invariant                                                 *)

TickType ==
    [id : Nat, tip : Nat, recs : SUBSET Nat, dust : SUBSET Nat, before : Nat, after : Nat]

EntryType == [kind : Kinds, index : Indexes, slot : Nat]

WatchTypeOK ==
    /\ chain \in Seq(EntryType) /\ top \in Nat
    /\ decided \subseteq Transfers /\ receipts \subseteq Transfers
    /\ cursor \in Nat
    /\ pending \in TickType /\ cur \in TickType
    /\ archive \subseteq TickType /\ quarantined \subseteq TickType
    /\ obsFile \in [tip : Nat, recs : SUBSET Nat]
    /\ synced \in [pending : TickType, cursor : Nat]
    /\ pc \in {"idle", "stage", "publish", "cursor", "observe", "ack", "remove"}
    /\ outage \in BOOLEAN

\* The chain is in the order of its slots.
ChainInv ==
    /\ \A i, j \in Transfers : i =< j => chain[i].slot =< chain[j].slot
    /\ \A i \in Transfers : chain[i].slot =< top

Creditable == {i \in Transfers : Truth(i) = "credit"}

\* The kernel decides credits alone, and a receipt is of a decided transfer.
DecidedInv == decided \subseteq Creditable /\ receipts \subseteq decided

\* A cursor at c loses nothing.
Safe(c) ==
    /\ c =< Len(chain)
    /\ \A i \in Transfers :
          chain[i].index = "enrol" /\ i =< c => i \in decided \/ Truth(i) \in {"dust", "void"}

\* Every cursor value on the disk or in memory is safe, and every record a
\* tick asks the observer to report is a credit.
TickOK(t) == Safe(t.after) /\ t.recs \subseteq Creditable

CursorInv ==
    /\ Safe(cursor) /\ Safe(synced.cursor)
    /\ TickOK(cur) /\ TickOK(pending) /\ TickOK(synced.pending)
    /\ obsFile.recs \subseteq Creditable

\* The tick in memory is the pending one, except before it is staged.
HandInv ==
    /\ pc \in {"publish", "cursor", "observe", "ack"} => cur = pending /\ pending # NoTick
    /\ pc = "stage" => /\ pending = NoTick /\ cur.id # 0 /\ synced.pending = NoTick
                       /\ \A t \in archive \cup quarantined : t.id # cur.id
    /\ pc \in {"publish", "cursor", "observe"} => synced.pending \in {NoTick, pending}
    /\ pc = "remove" => pending \in quarantined

\* The ids of the ticks.
IdInv ==
    /\ pending = NoTick \/ pending.id # 0
    /\ \A t \in archive \cup quarantined : t.id # 0
    /\ \A t \in archive \cup quarantined \cup {pending, cur} : t.id =< MaxTicks
    /\ \A t, u \in archive \cup quarantined \cup {pending} : t.id = u.id => t = u

\* Dust up to c.
Dusty(c) == {i \in Transfers : chain[i].index = "enrol" /\ i =< c /\ Truth(i) = "dust"}
Retained == UNION {t.dust : t \in Bundles}

\* Dust the cursor has passed, or will pass with the tick in hand, is in a
\* bundle.
DustInv ==
    ~outage =>
        /\ Dusty(cursor) \subseteq Retained
        /\ pc = "stage" => Dusty(cur.after) \subseteq Retained \cup cur.dust
        /\ Dusty(pending.after) \subseteq Retained

WatchInv ==
    /\ WatchTypeOK /\ ChainInv /\ DecidedInv /\ CursorInv /\ HandInv /\ IdInv /\ DustInv

-----------------------------------------------------------------------------
(* Numbers and listings                                                    *)

\* Every set of naturals that is not empty has a least element.
LEMMA LeastNatural ==
    ASSUME NEW S \in SUBSET Nat, S # {}
    PROVE  \E n \in S : \A m \in S : n =< m
<1> DEFINE R == OpToRel(<, Nat)
<1>1. IsWellFoundedOn(R, Nat)
  BY NatLessThanWellFounded
<1>2. \A m, n \in Nat : m < n => <<m, n>> \in R
  BY DEF OpToRel
<1> HIDE DEF R
<1>3. PICK n \in S : \A m \in S : ~(<<m, n>> \in R)
  BY <1>1, WFMin
<1>4. \A m \in S : ~(m < n)
  BY <1>2, <1>3
<1> QED
  BY <1>4

\* Every set of naturals that is bounded and not empty has a greatest element.
LEMMA GreatestNatural ==
    ASSUME NEW b \in Nat, NEW S \in SUBSET (0..b), S # {}
    PROVE  \E n \in S : \A m \in S : m =< n
<1> DEFINE T == {b - m : m \in S}
<1>1. T \in SUBSET Nat /\ T # {}
  <2>1. \A m \in S : m \in 0..b
    OBVIOUS
  <2>2. \A m \in S : b - m \in Nat
    BY <2>1
  <2> QED
    BY <2>2
<1>2. PICK t \in T : \A u \in T : t =< u
  BY <1>1, LeastNatural
<1>3. PICK n \in S : t = b - n
  OBVIOUS
<1>4. \A m \in S : b - n =< b - m
  BY <1>2, <1>3
<1>5. \A m \in S : m =< n
  BY <1>4
<1> QED
  BY <1>5

\* q lists the elements of S, the newest first.
Lists(q, S) ==
    /\ q \in [1..Cardinality(S) -> S]
    /\ ToSet(q) = S
    /\ \A m, n \in DOMAIN q : m < n => q[m] > q[n]

\* Putting a newer signature before a listing gives a listing.
LEMMA Prepend ==
    ASSUME NEW n \in Nat, NEW S \in SUBSET (1..n), n \in S,
           NEW q, Lists(q, S \ {n})
    PROVE  \E r : Lists(r, S)
<1> DEFINE R == S \ {n}
           c == Cardinality(R)
           r == [k \in 1..(c + 1) |-> IF k = 1 THEN n ELSE q[k - 1]]
<1>1. IsFiniteSet(S) /\ IsFiniteSet(R)
  <2>1. IsFiniteSet(1..n)
    BY FS_Interval
  <2>2. R \in SUBSET (1..n)
    OBVIOUS
  <2> QED
    BY <2>1, <2>2, FS_Subset
<1>2. Cardinality(S) = c + 1 /\ c \in Nat
  <2>1. IsFiniteSet(S) /\ S = R \cup {n} /\ n \notin R
    BY <1>1
  <2> QED
    BY <2>1, <1>1, FS_AddElement, FS_CardinalityType
<1>3. q \in [1..c -> R] /\ ToSet(q) = R /\ \A a, b \in 1..c : a < b => q[a] > q[b]
  BY DEF Lists
<1> HIDE DEF R, c
<1>4. r \in [1..(c + 1) -> S]
  BY <1>2, <1>3 DEF R
<1>5. ToSet(r) = S
  <2>1. ASSUME NEW i \in S PROVE \E k \in 1..(c + 1) : r[k] = i
    <3>1. CASE i = n
      BY <3>1, <1>2
    <3>2. CASE i # n
      <4>1. PICK k \in 1..c : q[k] = i
        BY <1>3, <3>2 DEF R, ToSet
      <4>2. k + 1 \in 1..(c + 1) /\ r[k + 1] = i
        BY <4>1, <1>2
      <4> QED
        BY <4>2
    <3> QED
      BY <3>1, <3>2
  <2>2. DOMAIN r = 1..(c + 1) /\ \A k \in 1..(c + 1) : r[k] \in S
    BY <1>4
  <2> HIDE DEF r
  <2> QED
    BY <2>1, <2>2 DEF ToSet
<1>6. ASSUME NEW a \in 1..(c + 1), NEW b \in 1..(c + 1), a < b PROVE r[a] > r[b]
  <2>1. b - 1 \in 1..c /\ r[b] = q[b - 1] /\ q[b - 1] \in R
    BY <1>6, <1>2, <1>3
  <2>2. CASE a = 1
    <3>1. r[a] = n
      BY <2>2, <1>2
    <3>2. q[b - 1] \in 1..n /\ q[b - 1] # n
      BY <2>1 DEF R
    <3> QED
      BY <3>1, <3>2, <2>1
  <2>3. CASE a # 1
    <3>1. a - 1 \in 1..c /\ r[a] = q[a - 1] /\ a - 1 < b - 1
      BY <2>3, <1>6, <1>2
    <3> QED
      BY <3>1, <2>1, <1>3
  <2> QED
    BY <2>2, <2>3
<1>7. r \in [1..Cardinality(S) -> S]
  BY <1>4, <1>2
<1>8. DOMAIN r = 1..(c + 1)
  OBVIOUS
<1> HIDE DEF r
<1>9. Lists(r, S)
  BY <1>5, <1>6, <1>7, <1>8 DEF Lists
<1> QED
  BY <1>9

\* Every finite set of signatures can be listed (by the least bound of a set
\* that could not).
LEMMA ListingExists ==
    ASSUME NEW b \in Nat, NEW S \in SUBSET (1..b)
    PROVE  \E q : Lists(q, S)
<1> DEFINE Bad == {n \in Nat : \E T \in SUBSET (1..n) : ~\E q : Lists(q, T)}
<1> SUFFICES ASSUME Bad # {} PROVE FALSE
  OBVIOUS
<1>1. PICK n \in Bad : \A m \in Bad : n =< m
  BY LeastNatural
<1>2. PICK T \in SUBSET (1..n) : ~\E q : Lists(q, T)
  OBVIOUS
<1>3. T # {}
  <2> SUFFICES ASSUME T = {} PROVE FALSE
    OBVIOUS
  <2> DEFINE q == [k \in 1..0 |-> 0]
  <2>1. q \in [1..0 -> {}] /\ DOMAIN q = {}
    OBVIOUS
  <2> HIDE DEF q
  <2>2. ToSet(q) = {}
    BY <2>1 DEF ToSet
  <2>3. Lists(q, {})
    BY <2>1, <2>2, FS_EmptySet DEF Lists
  <2> QED
    BY <2>3, <1>2
<1>4. n # 0 /\ n - 1 \in Nat /\ n - 1 \notin Bad
  <2>1. n \in Nat
    OBVIOUS
  <2>2. PICK k \in T : k \in 1..n
    BY <1>3
  <2>3. n # 0 /\ n - 1 \in Nat /\ ~(n =< n - 1)
    BY <2>1, <2>2
  <2> HIDE DEF Bad
  <2> QED
    BY <2>3, <1>1
<1>5. \A U \in SUBSET (1..(n - 1)) : \E q : Lists(q, U)
  BY <1>4
<1>6. n \in T
  <2> SUFFICES ASSUME n \notin T PROVE FALSE
    OBVIOUS
  <2>1. T \in SUBSET (1..(n - 1))
    BY <1>4
  <2> QED
    BY <2>1, <1>5, <1>2
<1>7. T \ {n} \in SUBSET (1..(n - 1))
  BY <1>4
<1>8. PICK q : Lists(q, T \ {n})
  BY <1>7, <1>5
<1> QED
  BY <1>6, <1>8, <1>2, <1>4, Prepend

\* Newest lists its set.
LEMMA NewestLists ==
    ASSUME NEW b \in Nat, NEW S \in SUBSET (1..b)
    PROVE  Lists(Newest(S), S)
<1>1. PICK q : Lists(q, S)
  BY ListingExists
<1>2. q \in [1..Cardinality(S) -> S]
  BY <1>1 DEF Lists
<1> QED
  BY <1>1, <1>2 DEF Lists, Newest

-----------------------------------------------------------------------------
(* What one run may conclude                                               *)

\* The signatures a listing shows.
Reached(x, tip) ==
    {i \in Transfers : /\ chain[i].index = x
                       /\ chain[i].slot =< tip
                       /\ x = "enrol" => i > cursor}

\* The positions of the chain.
LEMMA TransfersPositions ==
    ASSUME WatchTypeOK
    PROVE  /\ Len(chain) \in Nat
           /\ Transfers = 1..Len(chain)
           /\ Transfers \subseteq Nat
           /\ \A i \in Transfers : chain[i] \in EntryType
BY DEF WatchTypeOK, Transfers

\* A listing shows the signatures it should, the newest first.
LEMMA ListingShows ==
    ASSUME WatchTypeOK, NEW x, NEW tip
    PROVE  Lists(Listing(x, tip), Reached(x, tip))
<1>1. Reached(x, tip) \in SUBSET (1..Len(chain)) /\ Len(chain) \in Nat
  BY TransfersPositions DEF Reached
<1>2. Lists(Newest(Reached(x, tip)), Reached(x, tip))
  BY <1>1, NewestLists
<1> QED
  BY <1>2 DEF Listing, Reached

\* An honest endpoint that answers lists the account as it is, and gives every
\* listed transfer without a receipt its true outcome or none.
LEMMA HonestAnswers ==
    ASSUME WatchTypeOK, NEW x, NEW tip, NEW v \in HonestViews(x, tip), v # NoView
    PROVE  /\ v.listed = Listing(x, tip)
           /\ DOMAIN v.out = Reached(x, tip) \ receipts
           /\ \A i \in DOMAIN v.out : v.out[i] \in {Truth(i), "refused"}
<1> DEFINE t == TrueView(x, tip)
           S == Reached(x, tip) \ receipts
<1>1. ToSet(Listing(x, tip)) = Reached(x, tip)
  BY ListingShows DEF Lists
<1>2. t = [account |-> TRUE, listed |-> Listing(x, tip), out |-> [i \in S |-> Truth(i)]]
  BY <1>1 DEF TrueView
<1> HIDE DEF S
<1>3. CASE v = t
  BY <1>2, <1>3 DEF S
<1>4. ASSUME NEW i \in DOMAIN t.out, v = [t EXCEPT !.out[i] = "refused"]
      PROVE  /\ v.listed = Listing(x, tip)
             /\ DOMAIN v.out = S
             /\ \A j \in DOMAIN v.out : v.out[j] \in {Truth(j), "refused"}
  <2>1. v.listed = t.listed /\ v.out = [t.out EXCEPT ![i] = "refused"]
    BY <1>4, <1>2
  <2>2. t.listed = Listing(x, tip) /\ t.out = [j \in S |-> Truth(j)]
    BY <1>2
  <2>3. v.out = [j \in S |-> IF j = i THEN "refused" ELSE Truth(j)]
    BY <2>1, <2>2
  <2> QED
    BY <2>1, <2>2, <2>3
<1>5. v = t \/ \E i \in DOMAIN t.out : v = [t EXCEPT !.out[i] = "refused"]
  BY DEF HonestViews
<1> QED
  BY <1>3, <1>4, <1>5 DEF S

\* What every endpoint agrees on is what the honest one answered.
LEMMA AgreedIsTrue ==
    ASSUME WatchTypeOK, NEW x, NEW tip, NEW vs \in IndexViews(x, tip), ~IndexRefused(vs)
    PROVE  /\ \A i \in Agreed(vs) : /\ i \in Reached(x, tip) \ receipts
                                    /\ vs[First].out[i] \in {Truth(i), "refused"}
           /\ ListedAlike(vs) => vs[First].listed = Listing(x, tip)
<1>1. PICK e \in Honest : e \in Endpoints
  BY EndpointAssumption
<1>2. vs[e] \in HonestViews(x, tip) /\ vs[e] # NoView
  BY <1>1 DEF IndexViews, IndexRefused
<1>3. /\ vs[e].listed = Listing(x, tip)
      /\ DOMAIN vs[e].out = Reached(x, tip) \ receipts
      /\ \A i \in DOMAIN vs[e].out : vs[e].out[i] \in {Truth(i), "refused"}
  BY <1>2, HonestAnswers
<1>4. \A i \in Agreed(vs) : i \in DOMAIN vs[e].out /\ vs[e].out[i] = vs[First].out[i]
  BY <1>1 DEF Agreed
<1>5. ListedAlike(vs) => vs[e].listed = vs[First].listed
  BY <1>1 DEF ListedAlike
<1> QED
  BY <1>3, <1>4, <1>5

\* The outcomes of Truth.
LEMMA TruthOutcomes ==
    ASSUME NEW i
    PROVE  Truth(i) \in {"void", "dust", "credit"}
BY DEF Truth

\* An agreed credit is a credit and an agreed audit event is dust.
LEMMA AgreedAsTrue ==
    ASSUME WatchTypeOK, NEW x, NEW tip, NEW vs \in IndexViews(x, tip),
           NEW outcome \in {"credit", "dust"}
    PROVE  AgreedAs(vs, outcome) \subseteq {i \in Transfers : Truth(i) = outcome}
<1> SUFFICES ASSUME ~IndexRefused(vs), NEW i \in Agreed(vs), vs[First].out[i] = outcome
             PROVE  i \in Transfers /\ Truth(i) = outcome
  BY DEF AgreedAs
<1>1. i \in Reached(x, tip) /\ vs[First].out[i] \in {Truth(i), "refused"}
  BY AgreedIsTrue
<1> QED
  BY <1>1 DEF Reached

\* The cursor a run computes passes only what is decided or truly a permanent
\* skip, and every dust transfer it newly passes is an audit event of the run.
LEMMA CursorAdvances ==
    ASSUME WatchTypeOK, ChainInv, DecidedInv, Safe(cursor),
           NEW tip \in Nat, NEW vs \in IndexViews("enrol", tip)
    PROVE  /\ AdvanceCursor(vs) \in Nat
           /\ Safe(AdvanceCursor(vs))
           /\ Dusty(AdvanceCursor(vs)) \subseteq Dusty(cursor) \cup AgreedAs(vs, "dust")
<1> DEFINE L == Listing("enrol", tip)
           S == Reached("enrol", tip)
           over == Walk(vs[First].listed, Settled(vs))
<1>0. cursor \in Nat
  BY DEF WatchTypeOK
<1>1. CASE IndexRefused(vs) \/ ~ListedAlike(vs) \/ over = {}
  <2>1. AdvanceCursor(vs) = cursor
    BY <1>1 DEF AdvanceCursor
  <2> QED
    BY <2>1, <1>0
<1>2. CASE ~IndexRefused(vs) /\ ListedAlike(vs) /\ over # {}
  <2>1. vs[First].listed = L
    BY <1>2, AgreedIsTrue
  <2>2. Lists(L, S)
    BY ListingShows
  <2>3. over \in SUBSET S /\ S \in SUBSET (0..Len(chain)) /\ Len(chain) \in Nat
    <3>1. over \subseteq S
      BY <2>1, <2>2 DEF Walk, Lists, ToSet
    <3>2. S \subseteq 1..Len(chain) /\ Len(chain) \in Nat
      BY TransfersPositions DEF Reached
    <3> QED
      BY <3>1, <3>2
  <2>4. PICK g \in over : \A j \in over : j =< g
    <3>1. over \in SUBSET (0..Len(chain)) /\ Len(chain) \in Nat
      BY <2>3
    <3> HIDE DEF over
    <3> QED
      BY <3>1, <1>2, GreatestNatural
  <2> DEFINE c == AdvanceCursor(vs)
  <2>5. c \in over
    <3>1. c = CHOOSE i \in over : \A j \in over : j =< i
      BY <1>2 DEF AdvanceCursor
    <3> HIDE DEF over
    <3> QED
      BY <3>1, <2>4
  <2>6. PICK k \in DOMAIN L : /\ c = L[k]
                              /\ \A m \in DOMAIN L : m >= k => L[m] \in Settled(vs)
    BY <2>5, <2>1 DEF Walk
  <2>7. c \in Transfers /\ c \in 0..Len(chain) /\ c \in Nat /\ chain[c].slot =< tip
    BY <2>5, <2>3 DEF Reached
  <2> HIDE DEF c, over
  <2>8. ASSUME NEW i \in Transfers, chain[i].index = "enrol", i =< c, ~(i =< cursor)
        PROVE  i \in Settled(vs)
    <3>1. i \in Nat /\ c \in Nat /\ chain[i].slot \in Nat /\ chain[c].slot \in Nat
      BY TransfersPositions, <2>7 DEF EntryType
    <3>2. chain[i].slot =< chain[c].slot
      BY <2>8, <2>7 DEF ChainInv
    <3>3. i \in S
      BY <3>1, <3>2, <2>7, <2>8, <1>0 DEF Reached
    <3>4. PICK m \in DOMAIN L : L[m] = i
      BY <3>3, <2>2 DEF Lists, ToSet
    <3>5. DOMAIN L = 1..Cardinality(S) /\ \A a, b \in DOMAIN L : a < b => L[a] > L[b]
      BY <2>2 DEF Lists
    <3>6. m >= k
      <4> SUFFICES ASSUME m < k PROVE FALSE
        <5>1. IsFiniteSet(0..Len(chain))
          BY <2>3, FS_Interval
        <5>2. Cardinality(S) \in Nat
          BY <5>1, <2>3, FS_Subset, FS_CardinalityType
        <5> QED
          BY <5>2, <3>5
      <4>1. L[m] > L[k]
        BY <3>5
      <4> QED
        BY <4>1, <3>4, <2>6, <3>1, <2>8
    <3> QED
      BY <3>4, <3>6, <2>6
  <2>9. ASSUME NEW i \in Settled(vs)
        PROVE  \/ i \in receipts
               \/ /\ Truth(i) \in {"dust", "void"}
                  /\ Truth(i) = "dust" => i \in AgreedAs(vs, "dust")
    <3>1. CASE i \in receipts
      BY <3>1
    <3>2. CASE i \in Agreed(vs) /\ vs[First].out[i] \in {"dust", "void"}
      <4>1. vs[First].out[i] = Truth(i)
        BY <3>2, <1>2, AgreedIsTrue
      <4> QED
        BY <4>1, <3>2, <1>2 DEF AgreedAs
    <3> QED
      BY <3>1, <3>2 DEF Settled, SettledOutcome
  <2>10. Safe(c)
    <3>1. c =< Len(chain)
      BY <2>7, <2>3
    <3>2. ASSUME NEW i \in Transfers, chain[i].index = "enrol", i =< c
          PROVE  i \in decided \/ Truth(i) \in {"dust", "void"}
      <4>1. CASE i =< cursor
        BY <4>1, <3>2 DEF Safe
      <4>2. CASE ~(i =< cursor)
        BY <4>2, <3>2, <2>8, <2>9 DEF DecidedInv
      <4> QED
        BY <4>1, <4>2
    <3> QED
      BY <3>1, <3>2 DEF Safe
  <2>11. ASSUME NEW i \in Dusty(c), i \notin Dusty(cursor)
         PROVE  i \in AgreedAs(vs, "dust")
    <3>1. i \in Transfers /\ chain[i].index = "enrol" /\ i =< c /\ Truth(i) = "dust"
      BY DEF Dusty
    <3>2. ~(i =< cursor)
      BY <3>1, <2>11 DEF Dusty
    <3>3. i \notin receipts
      BY <3>1 DEF DecidedInv, Creditable
    <3> QED
      BY <3>1, <3>2, <3>3, <2>8, <2>9
  <2> QED
    BY <2>7, <2>10, <2>11 DEF c
<1> QED
  BY <1>1, <1>2

\* What a run concludes about an index: the credits are credits, the audit
\* events dust, and the cursor it computes is safe.
LEMMA ConclusionSound ==
    ASSUME WatchTypeOK, ChainInv, DecidedInv, Safe(cursor),
           NEW tip \in Nat, NEW x \in Indexes, NEW c \in Conclusions(x, tip)
    PROVE  /\ c.credit \subseteq Creditable
           /\ c.dust \subseteq Transfers
           /\ x = "enrol" => /\ c.after \in Nat
                             /\ Safe(c.after)
                             /\ Dusty(c.after) \subseteq Dusty(cursor) \cup c.dust
<1>1. PICK vs \in IndexViews(x, tip) :
          c = [credit |-> AgreedAs(vs, "credit"), dust |-> AgreedAs(vs, "dust"),
               after |-> IF x = "enrol" THEN AdvanceCursor(vs) ELSE cursor]
  BY DEF Conclusions
<1>2. c.credit = AgreedAs(vs, "credit") /\ c.dust = AgreedAs(vs, "dust")
  BY <1>1
<1>3. x = "enrol" => c.after = AdvanceCursor(vs)
  BY <1>1
<1>4. AgreedAs(vs, "credit") \subseteq Creditable
  BY AgreedAsTrue DEF Creditable
<1>5. AgreedAs(vs, "dust") \subseteq Transfers
  BY AgreedAsTrue
<1>6. x = "enrol" => /\ AdvanceCursor(vs) \in Nat
                     /\ Safe(AdvanceCursor(vs))
                     /\ Dusty(AdvanceCursor(vs)) \subseteq Dusty(cursor) \cup AgreedAs(vs, "dust")
  BY CursorAdvances
<1> QED
  BY <1>2, <1>3, <1>4, <1>5, <1>6

\* A new tick's ID is above every retained one.
LEMMA NextTickIdFresh ==
    ASSUME WatchTypeOK, IdInv
    PROVE  /\ NextTickId \in 1..(MaxTicks + 1)
           /\ \A t \in archive \cup quarantined : t.id < NextTickId
<1> DEFINE ids == {t.id : t \in archive \cup quarantined}
<1>1. MaxTicks \in Nat
  BY IndexAssumption
<1>2. ids \cup {0} \in SUBSET (0..MaxTicks) /\ ids \cup {0} # {}
  <2>1. \A t \in archive \cup quarantined : t.id \in Nat
    BY DEF WatchTypeOK, TickType
  <2>2. \A t \in archive \cup quarantined : t.id =< MaxTicks
    BY DEF IdInv
  <2> QED
    BY <1>1, <2>1, <2>2
<1>3. \A t \in archive \cup quarantined : t.id \in ids
  OBVIOUS
<1>4. NextTickId = CHOOSE n \in 1..(MaxTicks + 1) : n - 1 \in ids \cup {0} /\ \A m \in ids : m < n
  BY DEF NextTickId
<1> HIDE DEF ids
<1>5. PICK g \in ids \cup {0} : \A m \in ids \cup {0} : m =< g
  BY <1>1, <1>2, GreatestNatural
<1>6. /\ g + 1 \in 1..(MaxTicks + 1)
      /\ (g + 1) - 1 \in ids \cup {0}
      /\ \A m \in ids : m < g + 1
  BY <1>1, <1>2, <1>5
<1>7. NextTickId \in 1..(MaxTicks + 1) /\ \A m \in ids : m < NextTickId
  BY <1>4, <1>6
<1> QED
  BY <1>7, <1>3

\* The tick a run makes.
LEMMA ReportSound ==
    ASSUME WatchTypeOK, ChainInv, DecidedInv, Safe(cursor), IdInv,
           NEW tip \in Nat, NEW f, \A x \in Indexes : f[x] \in Conclusions(x, tip),
           NextTickId =< MaxTicks
    PROVE  LET t == Report(tip, f)
           IN  /\ t \in TickType /\ t.id # 0 /\ t.id =< MaxTicks
               /\ TickOK(t)
               /\ Dusty(t.after) \subseteq Dusty(cursor) \cup t.dust
               /\ \A u \in archive \cup quarantined : u.id # t.id
<1> DEFINE t == Report(tip, f)
<1>1. /\ t.id = NextTickId /\ t.tip = tip /\ t.before = cursor
      /\ t.recs = UNION {f[x].credit : x \in Indexes}
      /\ t.dust = UNION {f[x].dust : x \in Indexes}
      /\ t.after = IF "enrol" \in Indexes THEN f["enrol"].after ELSE cursor
      /\ t = [id |-> t.id, tip |-> t.tip, recs |-> t.recs, dust |-> t.dust,
              before |-> t.before, after |-> t.after]
  BY DEF Report
<1> HIDE DEF t
<1>2. /\ MaxTicks \in Nat /\ NextTickId \in 1..(MaxTicks + 1)
      /\ \A u \in archive \cup quarantined : u.id < NextTickId /\ u.id \in Nat
  BY NextTickIdFresh, IndexAssumption DEF WatchTypeOK, TickType
<1>3. \A x \in Indexes : f[x].credit \subseteq Creditable /\ f[x].dust \subseteq Transfers
  BY ConclusionSound
<1>4. t.recs \subseteq Creditable /\ t.dust \subseteq Transfers
  BY <1>1, <1>3
<1>5. t.recs \subseteq Nat /\ t.dust \subseteq Nat
  BY <1>4, TransfersPositions DEF Creditable
<1>6. /\ t.after \in Nat
      /\ Safe(t.after)
      /\ Dusty(t.after) \subseteq Dusty(cursor) \cup t.dust
  <2>1. CASE "enrol" \in Indexes
    <3>1. t.after = f["enrol"].after /\ f["enrol"].dust \subseteq t.dust
      BY <2>1, <1>1
    <3> QED
      BY <2>1, <3>1, ConclusionSound
  <2>2. CASE "enrol" \notin Indexes
    BY <2>2, <1>1 DEF WatchTypeOK
  <2> QED
    BY <2>1, <2>2
<1>7. t.id \in Nat /\ t.id # 0 /\ t.id =< MaxTicks /\ \A u \in archive \cup quarantined : u.id # t.id
  BY <1>1, <1>2
<1>8. t \in TickType
  <2>1. t.before \in Nat /\ t.tip \in Nat
    BY <1>1 DEF WatchTypeOK
  <2> QED
    BY <1>1, <1>5, <1>6, <1>7, <2>1 DEF TickType
<1> QED
  BY <1>4, <1>6, <1>7, <1>8 DEF TickOK, t

-----------------------------------------------------------------------------
(* Steps of the script                                                     *)

\* A step that changes neither the chain nor what is decided.
Still == UNCHANGED <<chain, top, decided, receipts>>

\* What is said of the chain and of what is decided stays true in such a step.
LEMMA StillSame ==
    ASSUME Still
    PROVE  /\ ChainInv => ChainInv'
           /\ DecidedInv => DecidedInv'
           /\ Transfers' = Transfers /\ Creditable' = Creditable
           /\ \A c : Safe(c)' <=> Safe(c)
           /\ \A c : Dusty(c)' = Dusty(c)
           /\ \A t : TickOK(t)' <=> TickOK(t)
<1> USE DEF Still
<1>1. Transfers' = Transfers
  BY DEF Transfers
<1>2. \A i : Truth(i)' = Truth(i)
  BY DEF Truth
<1>3. Creditable' = Creditable
  BY <1>1, <1>2 DEF Creditable
<1>4. ChainInv => ChainInv'
  BY <1>1 DEF ChainInv
<1>5. DecidedInv => DecidedInv'
  BY <1>3 DEF DecidedInv
<1>6. \A c : Safe(c)' <=> Safe(c)
  BY <1>1, <1>2 DEF Safe
<1>7. \A c : Dusty(c)' = Dusty(c)
  BY <1>1, <1>2 DEF Dusty
<1>8. \A t : TickOK(t)' <=> TickOK(t)
  BY <1>3, <1>6 DEF TickOK
<1> QED
  BY <1>1, <1>3, <1>4, <1>5, <1>6, <1>7, <1>8

\* Stage: the tick becomes a bundle.
LEMMA StageKeeps ==
    ASSUME WatchInv, Stage
    PROVE  WatchInv'
<1>1. /\ pc = "stage" /\ pending' = cur /\ pc' = "publish"
      /\ UNCHANGED <<chain, top, decided, receipts, cursor, archive, quarantined, obsFile,
                     cur, crashes, synced, outage>>
  BY DEF Stage, chainVars, hostVars, faultVars
<1>2. /\ WatchTypeOK /\ ChainInv /\ DecidedInv /\ CursorInv /\ HandInv /\ IdInv /\ DustInv
  BY DEF WatchInv
<1>3. Still
  BY <1>1 DEF Still
<1>4. WatchTypeOK'
  BY <1>1, <1>2 DEF WatchTypeOK, Transfers
<1>5. CursorInv'
  BY <1>1, <1>2, <1>3, StillSame DEF CursorInv
<1>6. HandInv'
  BY <1>1, <1>2 DEF HandInv, NoTick
<1>7. IdInv'
  BY <1>1, <1>2 DEF IdInv, HandInv
<1>8. DustInv'
  BY <1>1, <1>2, <1>3, StillSame DEF DustInv, HandInv, Retained, Bundles, NoTick
<1> QED
  BY <1>2, <1>3, <1>4, <1>5, <1>6, <1>7, <1>8, StillSame DEF WatchInv

\* No tick is a sound one.
LEMMA NoTickIsSafe ==
    ASSUME WatchTypeOK
    PROVE  /\ NoTick \in TickType /\ NoTick.id = 0 /\ NoTick.id =< MaxTicks
           /\ TickOK(NoTick)
           /\ NoTick.dust = {}
           /\ Dusty(NoTick.after) = {}
<1>1. NoTick \in TickType /\ NoTick.id = 0 /\ NoTick.dust = {} /\ NoTick.recs = {} /\ NoTick.after = 0
  BY DEF NoTick, TickType
<1>2. MaxTicks \in Nat
  BY IndexAssumption
<1>3. Len(chain) \in Nat /\ \A i \in Transfers : i \in Nat /\ ~(i =< 0)
  BY TransfersPositions
<1>4. Safe(0) /\ Dusty(0) = {}
  BY <1>3 DEF Safe, Dusty
<1> QED
  BY <1>1, <1>2, <1>4 DEF TickOK

\* Run: the new tick is sound and its ID fresh.
LEMMA RunKeeps ==
    ASSUME WatchInv, Run
    PROVE  WatchInv'
<1>1. /\ pc = "idle" /\ pending = NoTick /\ NextTickId =< MaxTicks /\ pc' = "stage"
      /\ synced' = [pending |-> pending, cursor |-> cursor]
      /\ UNCHANGED <<chain, top, decided, receipts, cursor, pending, archive, quarantined,
                     obsFile, crashes, outage>>
  BY DEF Run, chainVars, hostVars
<1>2. /\ WatchTypeOK /\ ChainInv /\ DecidedInv /\ CursorInv /\ HandInv /\ IdInv /\ DustInv
  BY DEF WatchInv
<1>3. Still
  BY <1>1 DEF Still
<1>9. /\ cur' \in TickType /\ cur'.id # 0 /\ cur'.id =< MaxTicks
      /\ TickOK(cur')
      /\ Dusty(cur'.after) \subseteq Dusty(cursor) \cup cur'.dust
      /\ \A u \in archive \cup quarantined : u.id # cur'.id
  <2> PICK tip \in 1..top :
          \E f : cur' = Report(tip, f) /\ \A x \in Indexes : f[x] \in Conclusions(x, tip)
    BY DEF Run
  <2>1. PICK f : cur' = Report(tip, f) /\ \A x \in Indexes : f[x] \in Conclusions(x, tip)
    OBVIOUS
  <2>2. tip \in Nat
    BY <1>2 DEF WatchTypeOK
  <2>3. Safe(cursor)
    BY <1>2 DEF CursorInv
  <2> QED
    BY <1>1, <1>2, <2>1, <2>2, <2>3, ReportSound
<1>4. WatchTypeOK'
  <2>1. synced' \in [pending : TickType, cursor : Nat]
    BY <1>1, <1>2 DEF WatchTypeOK
  <2> QED
    BY <1>1, <1>2, <1>9, <2>1 DEF WatchTypeOK, Transfers
<1>5. CursorInv'
  <2>1. synced'.pending = pending /\ synced'.cursor = cursor
    BY <1>1
  <2> QED
    BY <1>1, <1>2, <1>3, <1>9, <2>1, StillSame DEF CursorInv
<1>6. HandInv'
  BY <1>1, <1>2, <1>9 DEF HandInv
<1>7. IdInv'
  BY <1>1, <1>2, <1>9 DEF IdInv
<1>8. DustInv'
  BY <1>1, <1>2, <1>3, <1>9, StillSame DEF DustInv, Retained, Bundles
<1> QED
  BY <1>2, <1>3, <1>4, <1>5, <1>6, <1>7, <1>8, StillSame DEF WatchInv

\* Republish: the pending tick is in hand.
LEMMA RepublishKeeps ==
    ASSUME WatchInv, Republish
    PROVE  WatchInv'
<1>1. /\ pc = "idle" /\ pending # NoTick /\ cur' = pending /\ pc' = "publish"
      /\ synced' = [pending |-> pending, cursor |-> cursor]
      /\ UNCHANGED <<chain, top, decided, receipts, cursor, pending, archive, quarantined,
                     obsFile, crashes, outage>>
  BY DEF Republish, chainVars, hostVars
<1>2. /\ WatchTypeOK /\ ChainInv /\ DecidedInv /\ CursorInv /\ HandInv /\ IdInv /\ DustInv
  BY DEF WatchInv
<1>3. Still
  BY <1>1 DEF Still
<1>4. WatchTypeOK'
  <2>1. synced' \in [pending : TickType, cursor : Nat]
    BY <1>1, <1>2 DEF WatchTypeOK
  <2> QED
    BY <1>1, <1>2, <2>1 DEF WatchTypeOK, Transfers
<1>5. CursorInv'
  <2>1. synced'.pending = pending /\ synced'.cursor = cursor
    BY <1>1
  <2> QED
    BY <1>1, <1>2, <1>3, <2>1, StillSame DEF CursorInv
<1>6. HandInv'
  BY <1>1, <1>2 DEF HandInv
<1>7. IdInv'
  BY <1>1, <1>2 DEF IdInv, HandInv
<1>8. DustInv'
  BY <1>1, <1>2, <1>3, StillSame DEF DustInv, HandInv, Retained, Bundles
<1> QED
  BY <1>2, <1>3, <1>4, <1>5, <1>6, <1>7, <1>8, StillSame DEF WatchInv

\* Publish: the records handed to the observer are credits.
LEMMA PublishKeeps ==
    ASSUME WatchInv, Publish
    PROVE  WatchInv'
<1>1. /\ pc = "publish" /\ pc' \in {"cursor", "idle"}
      /\ obsFile' \in {obsFile, [tip |-> cur.tip, recs |-> cur.recs]}
      /\ UNCHANGED <<chain, top, decided, receipts, cursor, pending, archive, quarantined,
                     cur, crashes, synced, outage>>
  BY DEF Publish, chainVars, hostVars, faultVars
<1>2. /\ WatchTypeOK /\ ChainInv /\ DecidedInv /\ CursorInv /\ HandInv /\ IdInv /\ DustInv
  BY DEF WatchInv
<1>3. Still
  BY <1>1 DEF Still
<1>4. WatchTypeOK'
  <2>1. obsFile' \in [tip : Nat, recs : SUBSET Nat]
    BY <1>1, <1>2 DEF WatchTypeOK, TickType
  <2> QED
    BY <1>1, <1>2, <2>1 DEF WatchTypeOK, Transfers
<1>5. CursorInv'
  <2>1. obsFile'.recs \subseteq Creditable
    BY <1>1, <1>2 DEF CursorInv, TickOK
  <2> QED
    BY <1>1, <1>2, <1>3, <2>1, StillSame DEF CursorInv
<1>6. HandInv'
  BY <1>1, <1>2 DEF HandInv
<1>7. IdInv'
  BY <1>1, <1>2 DEF IdInv, HandInv
<1>8. DustInv'
  BY <1>1, <1>2, <1>3, StillSame DEF DustInv, HandInv, Retained, Bundles
<1> QED
  BY <1>2, <1>3, <1>4, <1>5, <1>6, <1>7, <1>8, StillSame DEF WatchInv

\* WriteCursor: the cursor moves to a safe place, the bundle retained.
LEMMA WriteCursorKeeps ==
    ASSUME WatchInv, WriteCursor
    PROVE  WatchInv'
<1>1. /\ pc = "cursor" /\ cursor' = cur.after /\ pc' = "observe"
      /\ UNCHANGED <<chain, top, decided, receipts, pending, archive, quarantined, obsFile,
                     cur, crashes, synced, outage>>
  BY DEF WriteCursor, chainVars, hostVars, faultVars
<1>2. /\ WatchTypeOK /\ ChainInv /\ DecidedInv /\ CursorInv /\ HandInv /\ IdInv /\ DustInv
  BY DEF WatchInv
<1>3. Still
  BY <1>1 DEF Still
<1>4. WatchTypeOK'
  BY <1>1, <1>2 DEF WatchTypeOK, TickType, Transfers
<1>5. CursorInv'
  BY <1>1, <1>2, <1>3, StillSame DEF CursorInv, TickOK
<1>6. HandInv'
  BY <1>1, <1>2 DEF HandInv
<1>7. IdInv'
  BY <1>1, <1>2 DEF IdInv, HandInv
<1>8. DustInv'
  BY <1>1, <1>2, <1>3, StillSame DEF DustInv, HandInv, Retained, Bundles
<1> QED
  BY <1>2, <1>3, <1>4, <1>5, <1>6, <1>7, <1>8, StillSame DEF WatchInv

\* Acknowledge: the pending tick goes to the archive, whole.
LEMMA AcknowledgeKeeps ==
    ASSUME WatchInv, Acknowledge
    PROVE  WatchInv'
<1>1. /\ pc = "ack" /\ pc' = "idle" /\ cur' = NoTick
      /\ \/ archive' = archive \cup {pending} /\ pending' = NoTick
         \/ archive' = archive /\ pending' = pending
      /\ UNCHANGED <<chain, top, decided, receipts, cursor, quarantined, obsFile, crashes,
                     synced, outage>>
  BY DEF Acknowledge, chainVars, hostVars, faultVars
<1>2. /\ WatchTypeOK /\ ChainInv /\ DecidedInv /\ CursorInv /\ HandInv /\ IdInv /\ DustInv
  BY DEF WatchInv
<1>3. Still
  BY <1>1 DEF Still
<1>4. WatchTypeOK'
  BY <1>1, <1>2, NoTickIsSafe DEF WatchTypeOK, Transfers
<1>5. CursorInv'
  BY <1>1, <1>2, <1>3, StillSame, NoTickIsSafe DEF CursorInv
<1>6. HandInv'
  BY <1>1, <1>2 DEF HandInv
<1>7. IdInv'
  <2>1. archive' \cup quarantined' \cup {pending'} \subseteq archive \cup quarantined \cup {pending, NoTick}
    BY <1>1
  <2>2. CASE archive' = archive \cup {pending} /\ pending' = NoTick
    <3>1. pending # NoTick
      BY <1>1, <1>2 DEF HandInv
    <3> QED
      BY <1>1, <1>2, <2>2, <3>1, NoTickIsSafe DEF IdInv
  <2>3. CASE archive' = archive /\ pending' = pending
    BY <1>1, <1>2, <2>3, NoTickIsSafe DEF IdInv
  <2> QED
    BY <1>1, <2>2, <2>3
<1>8. DustInv'
  <2>1. Bundles' = Bundles
    BY <1>1 DEF Bundles
  <2>2. Retained' = Retained
    BY <2>1 DEF Retained
  <2> QED
    BY <1>1, <1>2, <1>3, <2>2, StillSame, NoTickIsSafe DEF DustInv
<1> QED
  BY <1>2, <1>3, <1>4, <1>5, <1>6, <1>7, <1>8, StillSame DEF WatchInv

\* Quarantine: the bundle is written first.
LEMMA QuarantineKeeps ==
    ASSUME WatchInv, Quarantine
    PROVE  WatchInv'
<1>1. /\ pc = "idle" /\ pending # NoTick /\ pc' = "remove"
      /\ quarantined' = quarantined \cup {pending}
      /\ UNCHANGED <<chain, top, decided, receipts, cursor, pending, archive, obsFile, cur,
                     crashes, synced, outage>>
  BY DEF Quarantine, chainVars, hostVars, faultVars
<1>2. /\ WatchTypeOK /\ ChainInv /\ DecidedInv /\ CursorInv /\ HandInv /\ IdInv /\ DustInv
  BY DEF WatchInv
<1>3. Still
  BY <1>1 DEF Still
<1>4. WatchTypeOK'
  BY <1>1, <1>2 DEF WatchTypeOK, Transfers
<1>5. CursorInv'
  BY <1>1, <1>2, <1>3, StillSame DEF CursorInv
<1>6. HandInv'
  BY <1>1, <1>2 DEF HandInv
<1>7. IdInv'
  BY <1>1, <1>2 DEF IdInv, HandInv
<1>8. DustInv'
  <2>1. Bundles' = Bundles
    BY <1>1 DEF Bundles
  <2>2. Retained' = Retained
    BY <2>1 DEF Retained
  <2> QED
    BY <1>1, <1>2, <1>3, <2>2, StillSame DEF DustInv
<1> QED
  BY <1>2, <1>3, <1>4, <1>5, <1>6, <1>7, <1>8, StillSame DEF WatchInv

\* RemovePending: the pending tick is in quarantine.
LEMMA RemovePendingKeeps ==
    ASSUME WatchInv, RemovePending
    PROVE  WatchInv'
<1>1. /\ pc = "remove" /\ pending' = NoTick /\ pc' = "idle"
      /\ UNCHANGED <<chain, top, decided, receipts, cursor, archive, quarantined, obsFile,
                     cur, crashes, synced, outage>>
  BY DEF RemovePending, chainVars, hostVars, faultVars
<1>2. /\ WatchTypeOK /\ ChainInv /\ DecidedInv /\ CursorInv /\ HandInv /\ IdInv /\ DustInv
  BY DEF WatchInv
<1>3. Still
  BY <1>1 DEF Still
<1>4. WatchTypeOK'
  BY <1>1, <1>2, NoTickIsSafe DEF WatchTypeOK, Transfers
<1>5. CursorInv'
  BY <1>1, <1>2, <1>3, StillSame, NoTickIsSafe DEF CursorInv
<1>6. HandInv'
  BY <1>1, <1>2 DEF HandInv
<1>7. IdInv'
  BY <1>1, <1>2, NoTickIsSafe DEF IdInv, HandInv
<1>8. DustInv'
  <2>1. Bundles' = Bundles
    BY <1>1, <1>2 DEF Bundles, HandInv
  <2>2. Retained' = Retained
    BY <2>1 DEF Retained
  <2> QED
    BY <1>1, <1>2, <1>3, <2>2, StillSame, NoTickIsSafe DEF DustInv
<1> QED
  BY <1>2, <1>3, <1>4, <1>5, <1>6, <1>7, <1>8, StillSame DEF WatchInv

\* A kill leaves the files.
LEMMA KillKeeps ==
    ASSUME WatchInv, Kill
    PROVE  WatchInv'
<1>1. /\ pc' = "idle" /\ cur' = NoTick
      /\ UNCHANGED <<chain, top, decided, receipts, cursor, pending, archive, quarantined,
                     obsFile, synced, outage>>
  BY DEF Kill, chainVars, hostVars
<1>2. /\ WatchTypeOK /\ ChainInv /\ DecidedInv /\ CursorInv /\ HandInv /\ IdInv /\ DustInv
  BY DEF WatchInv
<1>3. Still
  BY <1>1 DEF Still
<1>4. WatchTypeOK'
  BY <1>1, <1>2, NoTickIsSafe DEF WatchTypeOK, Transfers
<1>5. CursorInv'
  BY <1>1, <1>2, <1>3, StillSame, NoTickIsSafe DEF CursorInv
<1>6. HandInv'
  BY <1>1, <1>2 DEF HandInv
<1>7. IdInv'
  BY <1>1, <1>2, NoTickIsSafe DEF IdInv
<1>8. DustInv'
  BY <1>1, <1>2, <1>3, StillSame DEF DustInv, HandInv, Retained, Bundles
<1> QED
  BY <1>2, <1>3, <1>4, <1>5, <1>6, <1>7, <1>8, StillSame DEF WatchInv

\* A power failure may undo the renames of this run, no more.
LEMMA PowerFailsKeeps ==
    ASSUME WatchInv, PowerFails
    PROVE  WatchInv'
<1>1. /\ pc' = "idle" /\ cur' = NoTick /\ outage' = TRUE
      /\ pc \in {"publish", "cursor", "observe"}
      /\ pending' \in {pending, synced.pending} /\ cursor' \in {cursor, synced.cursor}
      /\ UNCHANGED <<chain, top, decided, receipts, archive, quarantined, obsFile, synced>>
  BY DEF PowerFails, chainVars, hostVars
<1>2. /\ WatchTypeOK /\ ChainInv /\ DecidedInv /\ CursorInv /\ HandInv /\ IdInv /\ DustInv
  BY DEF WatchInv
<1>3. Still
  BY <1>1 DEF Still
<1>4. WatchTypeOK'
  <2>1. synced.pending \in TickType /\ synced.cursor \in Nat
    BY <1>2 DEF WatchTypeOK
  <2> QED
    BY <1>1, <1>2, <2>1, NoTickIsSafe DEF WatchTypeOK, Transfers
<1>5. CursorInv'
  BY <1>1, <1>2, <1>3, StillSame, NoTickIsSafe DEF CursorInv
<1>6. HandInv'
  BY <1>1, <1>2 DEF HandInv
<1>7. IdInv'
  <2>1. pending' = pending \/ pending' = NoTick
    BY <1>1, <1>2 DEF HandInv
  <2> QED
    BY <1>1, <1>2, <2>1, NoTickIsSafe DEF IdInv
<1>8. DustInv'
  BY <1>1 DEF DustInv
<1> QED
  BY <1>2, <1>3, <1>4, <1>5, <1>6, <1>7, <1>8, StillSame DEF WatchInv

\* The observer ends: acknowledge, or leave the tick.
LEMMA ObserverEndsKeeps ==
    ASSUME WatchInv, ObserverEnds
    PROVE  WatchInv'
<1>1. /\ pc = "observe" /\ pc' \in {"ack", "idle"} /\ cur' = IF pc' = "idle" THEN NoTick ELSE cur
      /\ UNCHANGED <<chain, top, decided, receipts, cursor, pending, archive, quarantined,
                     obsFile, crashes, synced, outage>>
  BY DEF ObserverEnds, chainVars, hostVars, faultVars
<1>2. /\ WatchTypeOK /\ ChainInv /\ DecidedInv /\ CursorInv /\ HandInv /\ IdInv /\ DustInv
  BY DEF WatchInv
<1>3. Still
  BY <1>1 DEF Still
<1>4. WatchTypeOK'
  BY <1>1, <1>2, NoTickIsSafe DEF WatchTypeOK, Transfers
<1>5. CursorInv'
  BY <1>1, <1>2, <1>3, StillSame, NoTickIsSafe DEF CursorInv
<1>6. HandInv'
  BY <1>1, <1>2 DEF HandInv
<1>7. IdInv'
  BY <1>1, <1>2, NoTickIsSafe DEF IdInv
<1>8. DustInv'
  BY <1>1, <1>2, <1>3, StillSame DEF DustInv, HandInv, Retained, Bundles
<1> QED
  BY <1>2, <1>3, <1>4, <1>5, <1>6, <1>7, <1>8, StillSame DEF WatchInv

-----------------------------------------------------------------------------
(* Steps of the chain, the kernel and the observer                         *)

\* The kernel decides more credits, the observer links more of the decided ones.
LEMMA HostKeeps ==
    ASSUME WatchInv, UNCHANGED <<chainVars, tickVars, faultVars>>,
           decided \subseteq decided', decided' \subseteq Creditable, receipts' \subseteq decided'
    PROVE  WatchInv'
<1>1. UNCHANGED <<chain, top, cursor, pending, archive, quarantined, obsFile, cur, pc,
                  crashes, synced, outage>>
  BY DEF chainVars, tickVars, faultVars
<1>2. /\ WatchTypeOK /\ ChainInv /\ DecidedInv /\ CursorInv /\ HandInv /\ IdInv /\ DustInv
  BY DEF WatchInv
<1>3. Transfers' = Transfers /\ \A i : Truth(i)' = Truth(i)
  BY <1>1 DEF Transfers, Truth
<1>4. Creditable' = Creditable
  BY <1>3 DEF Creditable
<1>5. \A c : Safe(c) => Safe(c)'
  BY <1>1, <1>3 DEF Safe
<1>6. \A t : TickOK(t) => TickOK(t)'
  BY <1>4, <1>5 DEF TickOK
<1>7. \A c : Dusty(c)' = Dusty(c)
  BY <1>1, <1>3 DEF Dusty
<1>8. WatchTypeOK'
  <2>1. decided' \subseteq Transfers /\ receipts' \subseteq Transfers
    BY DEF Creditable
  <2> QED
    BY <1>1, <1>2, <1>3, <2>1 DEF WatchTypeOK
<1>9. ChainInv' /\ DecidedInv'
  BY <1>1, <1>2, <1>3, <1>4 DEF ChainInv, DecidedInv
<1>10. CursorInv'
  BY <1>1, <1>2, <1>4, <1>5, <1>6 DEF CursorInv
<1>11. HandInv' /\ IdInv'
  BY <1>1, <1>2 DEF HandInv, IdInv
<1>12. DustInv'
  BY <1>1, <1>2, <1>7 DEF DustInv, Retained, Bundles
<1> QED
  BY <1>8, <1>9, <1>10, <1>11, <1>12 DEF WatchInv

\* The kernel's and the observer's steps are of that kind.
LEMMA HostDecidesKeeps ==
    ASSUME WatchInv, HostDecides
    PROVE  WatchInv'
<1>1. /\ \E S \in SUBSET (Decidable \ decided) : decided' = decided \cup S
      /\ receipts' = receipts /\ UNCHANGED <<chainVars, tickVars, faultVars>>
  BY DEF HostDecides
<1>2. Decidable \subseteq Creditable
  BY DEF Decidable, Creditable
<1>3. decided \subseteq Creditable /\ receipts \subseteq decided
  BY DEF WatchInv, DecidedInv
<1> QED
  BY <1>1, <1>2, <1>3, HostKeeps

\* The observer links receipts.
LEMMA ObserverLinksKeeps ==
    ASSUME WatchInv, ObserverLinks
    PROVE  WatchInv'
<1>1. /\ \E i \in decided \ receipts : receipts' = receipts \cup {i}
      /\ decided' = decided /\ UNCHANGED <<chainVars, tickVars, faultVars>>
  BY DEF ObserverLinks
<1>2. decided \subseteq Creditable /\ receipts \subseteq decided
  BY DEF WatchInv, DecidedInv
<1> QED
  BY <1>1, <1>2, HostKeeps

\* Finalize appends to the chain: the older transfers stay what they are.
LEMMA FinalizeExtends ==
    ASSUME WatchTypeOK, Finalize
    PROVE  /\ chain' \in Seq(EntryType)
           /\ Len(chain) \in Nat /\ Len(chain') \in Nat /\ Len(chain) =< Len(chain')
           /\ Transfers = 1..Len(chain) /\ Transfers' = 1..Len(chain')
           /\ Transfers \subseteq Transfers'
           /\ \A i \in Transfers : chain'[i] = chain[i] /\ Truth(i)' = Truth(i)
           /\ \A i \in Transfers' : i \notin Transfers => chain'[i].slot = top'
           /\ Creditable \subseteq Creditable'
<1>1. top' = top + 1
  BY DEF Finalize
<1>2. WatchTypeOK
  OBVIOUS
<1> PICK n \in 0..2 :
        \E es \in [1..n -> [kind : Kinds, index : Indexes, slot : {top + 1}]] : chain' = chain \o es
  BY DEF Finalize
<1>3. PICK es \in [1..n -> [kind : Kinds, index : Indexes, slot : {top + 1}]] : chain' = chain \o es
  OBVIOUS
<1>4. top \in Nat /\ chain \in Seq(EntryType)
  BY <1>2 DEF WatchTypeOK
<1>5. /\ es \in Seq(EntryType) /\ Len(es) = n /\ n \in Nat
      /\ \A k \in 1..n : es[k].slot = top + 1
  <2>1. \A k \in 1..n : es[k] \in EntryType /\ es[k].slot = top + 1
    BY <1>4 DEF EntryType
  <2>2. es \in [1..n -> EntryType]
    BY <2>1
  <2> QED
    BY <2>1, <2>2
<1>6. /\ chain' \in Seq(EntryType)
      /\ Len(chain') = Len(chain) + n
      /\ \A i \in 1..Len(chain) : chain'[i] = chain[i]
      /\ \A i \in 1..Len(chain') : i > Len(chain) => chain'[i].slot = top + 1
  <2>1. chain' \in Seq(EntryType) /\ Len(chain') = Len(chain) + n
    BY <1>3, <1>4, <1>5
  <2>2. \A i \in 1..Len(chain) : chain'[i] = chain[i]
    BY <1>3, <1>4, <1>5
  <2>3. ASSUME NEW i \in 1..Len(chain'), i > Len(chain) PROVE chain'[i].slot = top + 1
    <3>1. Len(chain) \in Nat /\ i \in 1..(Len(chain) + n)
      BY <2>1, <1>4
    <3>2. chain'[i] = es[i - Len(chain)] /\ i - Len(chain) \in 1..n
      BY <3>1, <2>3, <1>3, <1>4, <1>5
    <3> QED
      BY <3>2, <1>5
  <2> QED
    BY <2>1, <2>2, <2>3
<1>7. /\ Len(chain) \in Nat /\ Len(chain') \in Nat /\ Len(chain) =< Len(chain')
      /\ Transfers = 1..Len(chain) /\ Transfers' = 1..Len(chain')
      /\ Transfers \subseteq Transfers'
  BY <1>4, <1>5, <1>6 DEF Transfers
<1>8. \A i \in Transfers : chain'[i] = chain[i] /\ Truth(i)' = Truth(i)
  BY <1>6, <1>7 DEF Truth
<1>9. Creditable \subseteq Creditable'
  BY <1>7, <1>8 DEF Creditable
<1>10. \A i \in Transfers' : i \notin Transfers => chain'[i].slot = top'
  BY <1>1, <1>6, <1>7
<1> QED
  BY <1>6, <1>7, <1>8, <1>9, <1>10

\* Finalize: what is said of the older transfers stays true, and the new ones
\* are beyond every cursor.
LEMMA FinalizeKeeps ==
    ASSUME WatchInv, Finalize
    PROVE  WatchInv'
<1>1. /\ top' = top + 1
      /\ UNCHANGED <<decided, receipts, cursor, pending, archive, quarantined, obsFile, cur,
                     pc, crashes, synced, outage>>
  BY DEF Finalize, hostVars, tickVars, faultVars
<1>2. /\ WatchTypeOK /\ ChainInv /\ DecidedInv /\ CursorInv /\ HandInv /\ IdInv /\ DustInv
  BY DEF WatchInv
<1>3. top \in Nat
  BY <1>2 DEF WatchTypeOK
<1>4. chain' \in Seq(EntryType) /\ \A i \in Transfers' : i \notin Transfers => chain'[i].slot = top'
  BY <1>2, FinalizeExtends
<1>5. /\ Len(chain) \in Nat /\ Len(chain') \in Nat /\ Len(chain) =< Len(chain')
      /\ Transfers = 1..Len(chain) /\ Transfers' = 1..Len(chain')
      /\ Transfers \subseteq Transfers'
  BY <1>2, FinalizeExtends
<1>6. \A i \in Transfers : chain'[i] = chain[i] /\ Truth(i)' = Truth(i)
  BY <1>2, FinalizeExtends
<1>7. Creditable \subseteq Creditable'
  BY <1>2, FinalizeExtends
<1>8. ASSUME NEW c \in Nat, c =< Len(chain), NEW i \in Transfers', i =< c PROVE i \in Transfers
  BY <1>5, <1>8
<1>9. \A c \in Nat : Safe(c) => Safe(c)' /\ Dusty(c)' = Dusty(c)
  <2> SUFFICES ASSUME NEW c \in Nat, Safe(c) PROVE Safe(c)' /\ Dusty(c)' = Dusty(c)
    OBVIOUS
  <2>1. c =< Len(chain) /\ c =< Len(chain')
    BY <1>5 DEF Safe
  <2>2. Safe(c)'
    BY <2>1, <1>1, <1>6, <1>8 DEF Safe
  <2>3. Dusty(c)' = Dusty(c)
    BY <2>1, <1>5, <1>6, <1>8 DEF Dusty
  <2> QED
    BY <2>2, <2>3
<1>10. WatchTypeOK'
  BY <1>1, <1>2, <1>3, <1>4, <1>5 DEF WatchTypeOK
<1>11. ChainInv'
  <2>1. \A i \in Transfers' : chain'[i].slot =< top'
    <3>1. \A i \in Transfers : chain[i].slot =< top /\ chain[i].slot \in Nat
      BY <1>2, TransfersPositions DEF ChainInv, EntryType
    <3>2. ASSUME NEW i \in Transfers' PROVE chain'[i].slot =< top'
      <4>1. CASE i \in Transfers
        <5>1. chain'[i].slot = chain[i].slot
          BY <4>1, <1>6
        <5> QED
          BY <4>1, <5>1, <3>1, <1>1, <1>3
      <4>2. CASE i \notin Transfers
        <5>1. chain'[i].slot = top'
          BY <4>2, <1>1, <1>4, <1>5
        <5> QED
          BY <5>1, <1>1, <1>3
      <4> QED
        BY <4>1, <4>2
    <3> QED
      BY <3>2
  <2>2. ASSUME NEW i \in Transfers', NEW j \in Transfers', i =< j
        PROVE  chain'[i].slot =< chain'[j].slot
    <3>1. CASE j \in Transfers
      BY <3>1, <2>2, <1>2, <1>5, <1>6 DEF ChainInv
    <3>2. CASE j \notin Transfers
      <4>1. chain'[j].slot = top'
        BY <3>2, <1>1, <1>4, <1>5
      <4> QED
        BY <4>1, <2>1
    <3> QED
      BY <3>1, <3>2
  <2> QED
    BY <2>1, <2>2 DEF ChainInv
<1>12. DecidedInv'
  BY <1>1, <1>2, <1>7 DEF DecidedInv
<1>13. /\ cursor \in Nat /\ synced.cursor \in Nat /\ cur.after \in Nat /\ pending.after \in Nat
       /\ synced.pending.after \in Nat
  <2>1. synced.pending \in TickType /\ synced.cursor \in Nat
    BY <1>2 DEF WatchTypeOK
  <2> QED
    BY <1>2, <2>1 DEF WatchTypeOK, TickType
<1>14. CursorInv'
  BY <1>1, <1>2, <1>7, <1>9, <1>13 DEF CursorInv, TickOK
<1>15. HandInv' /\ IdInv'
  BY <1>1, <1>2 DEF HandInv, IdInv
<1>16. DustInv'
  <2>1. Safe(cursor) /\ Safe(pending.after) /\ Safe(cur.after)
    BY <1>2 DEF CursorInv, TickOK
  <2> QED
    BY <1>1, <1>2, <1>9, <1>13, <2>1 DEF DustInv, Retained, Bundles
<1> QED
  BY <1>10, <1>11, <1>12, <1>14, <1>15, <1>16 DEF WatchInv

-----------------------------------------------------------------------------
(* The theorems                                                            *)

\* The invariant holds at the start.
LEMMA WatchInitially == WatchInit => WatchInv
<1> SUFFICES ASSUME WatchInit PROVE WatchInv
  OBVIOUS
<1>1. /\ chain = <<>> /\ top = 0 /\ decided = {} /\ receipts = {} /\ cursor = 0
      /\ pending = NoTick /\ archive = {} /\ quarantined = {}
      /\ obsFile = [tip |-> 0, recs |-> {}] /\ cur = NoTick /\ pc = "idle"
      /\ synced = [pending |-> NoTick, cursor |-> 0] /\ outage = FALSE
  BY DEF WatchInit
<1>2. Transfers = {} /\ Len(chain) = 0
  BY <1>1 DEF Transfers
<1>3. NoTick \in TickType
  BY DEF NoTick, TickType
<1>4. WatchTypeOK
  <2>1. chain \in Seq(EntryType)
    BY <1>1
  <2>2. obsFile \in [tip : Nat, recs : SUBSET Nat] /\ synced \in [pending : TickType, cursor : Nat]
    BY <1>1, <1>3
  <2> QED
    BY <1>1, <1>2, <1>3, <2>1, <2>2 DEF WatchTypeOK
<1>5. ChainInv /\ DecidedInv
  BY <1>1, <1>2 DEF ChainInv, DecidedInv
<1>6. Safe(0) /\ TickOK(NoTick)
  BY <1>2, <1>4, NoTickIsSafe DEF Safe
<1>7. CursorInv
  <2>1. synced.pending = NoTick /\ synced.cursor = 0 /\ obsFile.recs = {}
    BY <1>1
  <2> QED
    BY <1>1, <1>6, <2>1 DEF CursorInv
<1>8. HandInv /\ IdInv
  BY <1>1, <1>4, NoTickIsSafe DEF HandInv, IdInv
<1>9. DustInv
  BY <1>1, <1>2 DEF DustInv, Dusty
<1> QED
  BY <1>4, <1>5, <1>7, <1>8, <1>9 DEF WatchInv

\* A step that changes nothing keeps the invariant.
LEMMA WatchStuttering ==
    ASSUME WatchInv, UNCHANGED watchVars
    PROVE  WatchInv'
<1>1. UNCHANGED <<chain, top, decided, receipts, cursor, pending, archive, quarantined,
                  obsFile, cur, pc, crashes, synced, outage>>
  BY DEF watchVars
<1> QED
  BY <1>1, HostKeeps DEF chainVars, tickVars, faultVars, WatchInv, DecidedInv

\* Every step of the watcher keeps its invariant.
LEMMA WatchInductive == WatchInv /\ [WatchNext]_watchVars => WatchInv'
<1> SUFFICES ASSUME WatchInv, [WatchNext]_watchVars PROVE WatchInv'
  OBVIOUS
<1>1. CASE ScriptStep
  BY <1>1, RunKeeps, RepublishKeeps, StageKeeps, PublishKeeps, WriteCursorKeeps,
     AcknowledgeKeeps DEF ScriptStep
<1>2. CASE QuarantineStep
  BY <1>2, QuarantineKeeps, RemovePendingKeeps DEF QuarantineStep
<1>3. CASE Finalize \/ HostDecides \/ ObserverLinks \/ ObserverEnds
  BY <1>3, FinalizeKeeps, HostDecidesKeeps, ObserverLinksKeeps, ObserverEndsKeeps
<1>4. CASE Kill \/ PowerFails
  BY <1>4, KillKeeps, PowerFailsKeeps
<1>5. CASE UNCHANGED watchVars
  BY <1>5, WatchStuttering
<1> QED
  BY <1>1, <1>2, <1>3, <1>4, <1>5 DEF WatchNext

\* The watcher's inductive invariant.
LEMMA WatchInvariant == WatchSpec => []WatchInv
BY WatchInitially, WatchInductive, PTL DEF WatchSpec

\* What the invariant says of the three properties.
LEMMA WatchImplies == WatchInv => CursorLosesNothing /\ AuditEventsRetained /\ TickIdsUnique
<1> SUFFICES ASSUME WatchInv PROVE CursorLosesNothing /\ AuditEventsRetained /\ TickIdsUnique
  OBVIOUS
<1>1. CursorLosesNothing
  BY DEF WatchInv, CursorInv, Safe, CursorLosesNothing
<1>2. AuditEventsRetained
  BY DEF WatchInv, DustInv, Dusty, Retained, AuditEventsRetained
<1>3. TickIdsUnique
  BY DEF WatchInv, IdInv, Bundles, TickIdsUnique
<1> QED
  BY <1>1, <1>2, <1>3

\* watch.rs's claim that the cursor can lose nothing: for any chain, whatever
\* the dishonest endpoints answer and wherever the script is killed or power is
\* lost, every enrollment transfer up to the cursor is decided by the kernel or
\* in truth a permanent skip.
THEOREM CursorIsSafe == WatchSpec => []CursorLosesNothing
BY WatchInvariant, WatchImplies, PTL

\* Wherever a process is killed, the audit event of every below-floor transfer
\* the cursor has passed is in a bundle that is kept (short of a power failure).
THEOREM AuditEventsKept == WatchSpec => []AuditEventsRetained
BY WatchInvariant, WatchImplies, PTL

\* next_tick_id: no two retained bundles share an ID, whatever was acknowledged,
\* quarantined or killed half way.
THEOREM IdsStayUnique == WatchSpec => []TickIdsUnique
BY WatchInvariant, WatchImplies, PTL
=============================================================================
