----------------------- MODULE SchedulerServiceProofs -----------------------
(***************************************************************************)
(* What the inference broker charges.  For every configuration and any     *)
(* number of crashes, a refund never takes back more than was reserved, no *)
(* member with live work is below the virtual floor, and the service a     *)
(* member has used never falls in the snapshot.                            *)
(*                                                                         *)
(* The reservations of a member are a sum over a set of jobs.  The first   *)
(* part shows what such a sum is; an argument by induction on the set is   *)
(* made with a smallest set for which it fails.                            *)
(***************************************************************************)
EXTENDS SchedulerProofs, WellFoundedInduction

-----------------------------------------------------------------------------
(* Sums of estimates                                                       *)

(* The estimates of the jobs in S together.                                *)
Sum(jobs, S) == MapThenSumSet(LAMBDA i : jobs[i].est, S)

(* The equation that defines the sum, over all subsets of S at once.       *)
Pick(s) == CHOOSE x \in s : TRUE
Adds(jobs, S, f) ==
  [s \in SUBSET S |-> IF s = {} THEN 0 ELSE jobs[Pick(s)].est + f[s \ {Pick(s)}]]
Sums(jobs, S) == CHOOSE f : f = Adds(jobs, S, f)

(* The estimates of the jobs in S are numbers.                             *)
Priced(jobs, S) == IsFiniteSet(S) /\ \A i \in S : jobs[i].est \in Nat

(* The fold of MapThenSumSet is the chosen solution of the equation.       *)
LEMMA SumIsFold == \A jobs, S : Sum(jobs, S) = Sums(jobs, S)[S]
BY Zenon DEF Sum, Sums, Adds, Pick, MapThenSumSet, MapThenFoldSet

(* Among sets of subsets of a finite set, one has no smaller one.          *)
LEMMA SmallestSet ==
  ASSUME NEW U, IsFiniteSet(U), NEW Bad \in SUBSET SUBSET U, Bad # {}
  PROVE  \E T \in Bad : IsFiniteSet(T) /\ \A s \in SUBSET T : s # T => s \notin Bad
<1>. DEFINE R == StrictSubsetOrdering(U)
<1>1. IsWellFoundedOn(R, SUBSET U)
  BY FS_StrictSubsetOrderingWellFounded, FS_FiniteSubsetsOfFinite
<1>2. \A s, T \in SUBSET U : s \subseteq T /\ s # T => <<s, T>> \in R
  BY DEF StrictSubsetOrdering
<1>. HIDE DEF R
<1>3. PICK T \in Bad : \A s \in Bad : ~(<<s, T>> \in R)
  BY <1>1, WFMin
<1>4. IsFiniteSet(T)
  BY FS_Subset
<1>. QED
  BY <1>2, <1>3, <1>4

(* What is chosen of a set is in it.                                       *)
LEMMA PickIn == \A s : s # {} => Pick(s) \in s
BY DEF Pick

(* Two solutions agree where both are defined.                             *)
LEMMA SumsUnique ==
  ASSUME NEW jobs, NEW S, NEW T, NEW f, NEW g, IsFiniteSet(S),
         f = Adds(jobs, S, f), g = Adds(jobs, T, g)
  PROVE  \A s \in SUBSET S : s \in SUBSET T => f[s] = g[s]
<1>. DEFINE Bad == {s \in SUBSET S : s \in SUBSET T /\ f[s] # g[s]}
<1>. SUFFICES ASSUME Bad # {} PROVE FALSE
  OBVIOUS
<1>0. Bad \in SUBSET SUBSET S /\ \A s \in Bad : s \in SUBSET T /\ f[s] # g[s]
  OBVIOUS
<1>. HIDE DEF Bad
<1>1. PICK s \in Bad : \A r \in SUBSET s : r # s => r \notin Bad
  BY <1>0, SmallestSet, Zenon
<1>2. s \in SUBSET S /\ s \in SUBSET T /\ f[s] # g[s]
  BY <1>0
<1>3. CASE s = {}
  BY <1>2, <1>3 DEF Adds
<1>4. CASE s # {}
  <2>. DEFINE r == s \ {Pick(s)}
  <2>1. r \in SUBSET s /\ r # s
    BY <1>4, PickIn
  <2>2. r \notin Bad
    BY <1>1, <2>1
  <2>3. f[r] = g[r]
    BY <1>2, <2>1, <2>2 DEF Bad
  <2>4. f[s] = jobs[Pick(s)].est + f[r] /\ g[s] = jobs[Pick(s)].est + g[r]
    BY <1>2, <1>4 DEF Adds
  <2>. QED
    BY <1>2, <2>3, <2>4
<1>. QED
  BY <1>3, <1>4

(* The equation has a solution in the natural numbers, so the sum is it.   *)
LEMMA SumsSolve ==
  ASSUME NEW jobs, NEW S, Priced(jobs, S)
  PROVE  /\ Sums(jobs, S) = Adds(jobs, S, Sums(jobs, S))
         /\ Sums(jobs, S) \in [SUBSET S -> Nat]
<1>. DEFINE Good(T) == /\ Sums(jobs, T) = Adds(jobs, T, Sums(jobs, T))
                       /\ Sums(jobs, T) \in [SUBSET T -> Nat]
            Bad == {T \in SUBSET S : ~Good(T)}
<1>. SUFFICES ASSUME Bad # {} PROVE FALSE
  OBVIOUS
<1>. HIDE DEF Good
<1>0. Bad \in SUBSET SUBSET S /\ \A s \in SUBSET S : s \in Bad <=> ~Good(s)
  OBVIOUS
<1>. HIDE DEF Bad
<1>1. PICK T \in Bad : IsFiniteSet(T) /\ \A s \in SUBSET T : s # T => s \notin Bad
  BY <1>0, SmallestSet, Zenon DEF Priced
<1>2. T \in SUBSET S /\ ~Good(T)
  BY <1>0
<1>3. \A s \in SUBSET T : s # T => Good(s) /\ IsFiniteSet(s)
  BY <1>0, <1>1, <1>2, FS_Subset
<1>. DEFINE f == [s \in SUBSET T |->
                    IF s = {} THEN 0
                    ELSE jobs[Pick(s)].est + Sums(jobs, s \ {Pick(s)})[s \ {Pick(s)}]]
<1>4. \A s \in SUBSET T : s # {} => /\ Pick(s) \in s
                                    /\ s \ {Pick(s)} \in SUBSET T
                                    /\ s \ {Pick(s)} # T /\ s \ {Pick(s)} # s
  BY PickIn
<1>5. f \in [SUBSET T -> Nat]
  <2>1. ASSUME NEW s \in SUBSET T, s # {}
        PROVE  jobs[Pick(s)].est + Sums(jobs, s \ {Pick(s)})[s \ {Pick(s)}] \in Nat
    <3>1. jobs[Pick(s)].est \in Nat
      BY <1>2, <1>4, <2>1 DEF Priced
    <3>2. Good(s \ {Pick(s)})
      BY <1>3, <1>4, <2>1
    <3>3. Sums(jobs, s \ {Pick(s)})[s \ {Pick(s)}] \in Nat
      BY <3>2 DEF Good
    <3>. QED
      BY <3>1, <3>3
  <2>. QED
    BY <2>1
<1>6. ASSUME NEW s \in SUBSET T, s # T PROVE f[s] = Sums(jobs, s)[s]
  <2>1. CASE s = {}
    BY <1>3, <1>6, <2>1 DEF Good, Adds
  <2>2. CASE s # {}
    <3>. DEFINE r == s \ {Pick(s)}
    <3>1. r \in SUBSET T /\ r # T /\ r \in SUBSET s
      BY <1>4, <2>2
    <3>2. Sums(jobs, s)[r] = Sums(jobs, r)[r]
      <4>1. Good(s) /\ Good(r) /\ IsFiniteSet(s)
        BY <1>3, <1>6, <3>1
      <4>. HIDE DEF r
      <4>2. \A q \in SUBSET s : q \in SUBSET r => Sums(jobs, s)[q] = Sums(jobs, r)[q]
        BY <4>1, SumsUnique DEF Good
      <4>. QED
        BY <3>1, <4>2
    <3>3. Sums(jobs, s)[s] = jobs[Pick(s)].est + Sums(jobs, s)[r]
      <4>. HIDE DEF r
      <4>1. \A g : g = Adds(jobs, s, g) => g[s] = jobs[Pick(s)].est + g[r]
        BY <2>2 DEF Adds, r
      <4>. QED
        BY <1>3, <1>6, <4>1 DEF Good
    <3>. QED
      BY <2>2, <3>2, <3>3
  <2>. QED
    BY <2>1, <2>2
<1>7. f = Adds(jobs, T, f)
  <2>1. ASSUME NEW s \in SUBSET T, s # {}
        PROVE  f[s] = jobs[Pick(s)].est + f[s \ {Pick(s)}]
    BY <1>4, <1>6, <2>1
  <2>2. {} \in SUBSET T => f[{}] = 0
    OBVIOUS
  <2>3. f = [s \in SUBSET T |-> f[s]]
    OBVIOUS
  <2>. HIDE DEF f
  <2>4. \A s \in SUBSET T : f[s] = IF s = {} THEN 0 ELSE jobs[Pick(s)].est + f[s \ {Pick(s)}]
    BY <2>1, <2>2
  <2>. QED
    BY <2>3, <2>4 DEF Adds
<1>. HIDE DEF f
<1>8. Sums(jobs, T) = Adds(jobs, T, Sums(jobs, T))
  BY <1>7, Zenon DEF Sums
<1>9. \A s \in SUBSET T : Sums(jobs, T)[s] = f[s]
  BY <1>1, <1>7, <1>8, SumsUnique
<1>10. Sums(jobs, T) = [s \in SUBSET T |-> Sums(jobs, T)[s]]
  BY <1>8 DEF Adds
<1>11. Sums(jobs, T) \in [SUBSET T -> Nat]
  BY <1>5, <1>9, <1>10
<1>. QED
  BY <1>2, <1>8, <1>11 DEF Good

(* The sum over no jobs, and over some job and the others.                 *)
LEMMA SumStep ==
  ASSUME NEW jobs, NEW S, Priced(jobs, S)
  PROVE  /\ Sum(jobs, S) \in Nat
         /\ S = {} => Sum(jobs, S) = 0
         /\ S # {} => Sum(jobs, S) = jobs[Pick(S)].est + Sum(jobs, S \ {Pick(S)})
<1>1. S \in SUBSET S /\ Sum(jobs, S) = Sums(jobs, S)[S]
  BY SumIsFold
<1>2. /\ Sums(jobs, S) = Adds(jobs, S, Sums(jobs, S))
      /\ Sums(jobs, S) \in [SUBSET S -> Nat]
  BY SumsSolve
<1>3. S = {} => Sums(jobs, S)[S] = 0
  BY <1>2 DEF Adds
<1>4. ASSUME S # {}
      PROVE  Sum(jobs, S) = jobs[Pick(S)].est + Sum(jobs, S \ {Pick(S)})
  <2>. DEFINE r == S \ {Pick(S)}
  <2>1. r \in SUBSET S /\ r \in SUBSET r
    OBVIOUS
  <2>2. Priced(jobs, r)
    BY <2>1, FS_Subset DEF Priced
  <2>3. \A g : g = Adds(jobs, S, g) => g[S] = jobs[Pick(S)].est + g[r]
    BY <1>4 DEF Adds
  <2>. HIDE DEF r
  <2>4. Sums(jobs, r) = Adds(jobs, r, Sums(jobs, r))
    BY <2>2, SumsSolve
  <2>5. \A q \in SUBSET S : q \in SUBSET r => Sums(jobs, S)[q] = Sums(jobs, r)[q]
    BY <1>2, <2>4, SumsUnique DEF Priced
  <2>6. Sums(jobs, S)[r] = Sum(jobs, r)
    BY <2>1, <2>5, SumIsFold
  <2>7. Sums(jobs, S)[S] = jobs[Pick(S)].est + Sums(jobs, S)[r]
    BY <1>2, <2>3
  <2>. QED
    BY <1>1, <2>6, <2>7 DEF r
<1>. QED
  BY <1>1, <1>2, <1>3, <1>4

(* Fewer priced jobs are priced.                                           *)
LEMMA PricedSubset ==
  ASSUME NEW jobs, NEW S, Priced(jobs, S), NEW T \in SUBSET S
  PROVE  Priced(jobs, T)
BY FS_Subset DEF Priced

(* Any job can be taken out of a sum.                                      *)
LEMMA SumRemove ==
  ASSUME NEW jobs, NEW S, Priced(jobs, S), NEW i \in S
  PROVE  Sum(jobs, S) = jobs[i].est + Sum(jobs, S \ {i})
<1>. DEFINE Good(T) == \A x \in T : Sum(jobs, T) = jobs[x].est + Sum(jobs, T \ {x})
            Bad == {T \in SUBSET S : ~Good(T)}
<1>. HIDE DEF Good
<1>. SUFFICES ASSUME Bad # {} PROVE FALSE
  BY DEF Good
<1>0. Bad \in SUBSET SUBSET S /\ \A s \in SUBSET S : s \in Bad <=> ~Good(s)
  OBVIOUS
<1>. HIDE DEF Bad
<1>1. PICK T \in Bad : \A s \in SUBSET T : s # T => s \notin Bad
  BY <1>0, SmallestSet, Zenon DEF Priced
<1>2. T \in SUBSET S /\ ~Good(T) /\ Priced(jobs, T)
  BY <1>0, PricedSubset
<1>3. \A s \in SUBSET T : s # T => Good(s) /\ Priced(jobs, s)
  BY <1>0, <1>1, <1>2, PricedSubset
<1>4. PICK x \in T : Sum(jobs, T) # jobs[x].est + Sum(jobs, T \ {x})
  BY <1>2 DEF Good
<1>. DEFINE y == Pick(T)
<1>5. y \in T /\ Sum(jobs, T) = jobs[y].est + Sum(jobs, T \ {y})
  BY <1>2, <1>4, PickIn, SumStep
<1>. HIDE DEF y
<1>6. x # y
  BY <1>4, <1>5
<1>. DEFINE Tx == T \ {x}  Ty == T \ {y}  Txy == (T \ {x}) \ {y}
<1>7. /\ Tx \in SUBSET T /\ Tx # T /\ y \in Tx
      /\ Ty \in SUBSET T /\ Ty # T /\ x \in Ty
      /\ Tx \ {y} = Txy /\ Ty \ {x} = Txy /\ Txy \in SUBSET T
  BY <1>4, <1>5, <1>6
<1>. HIDE DEF Tx, Ty, Txy
<1>8. Sum(jobs, Tx) = jobs[y].est + Sum(jobs, Txy)
  BY <1>3, <1>7 DEF Good
<1>9. Sum(jobs, Ty) = jobs[x].est + Sum(jobs, Txy)
  BY <1>3, <1>7 DEF Good
<1>10. jobs[x].est \in Nat /\ jobs[y].est \in Nat /\ Sum(jobs, Txy) \in Nat
  BY <1>2, <1>4, <1>5, <1>7, PricedSubset, SumStep DEF Priced
<1>11. Sum(jobs, T) # jobs[x].est + Sum(jobs, Tx) /\ Sum(jobs, T) = jobs[y].est + Sum(jobs, Ty)
  BY <1>4, <1>5 DEF Tx, Ty
<1>. QED
  BY <1>8, <1>9, <1>10, <1>11

(* A sum over a set is the sum over a part and the sum over the rest.      *)
LEMMA SumSplit ==
  ASSUME NEW jobs, NEW S, Priced(jobs, S), NEW U \in SUBSET S
  PROVE  Sum(jobs, S) = Sum(jobs, U) + Sum(jobs, S \ U)
<1>. DEFINE Good(T) == Sum(jobs, S) = Sum(jobs, T) + Sum(jobs, S \ T)
            Bad == {T \in SUBSET S : ~Good(T)}
<1>. HIDE DEF Good
<1>. SUFFICES ASSUME Bad # {} PROVE FALSE
  BY DEF Good
<1>0. Bad \in SUBSET SUBSET S /\ \A s \in SUBSET S : s \in Bad <=> ~Good(s)
  OBVIOUS
<1>. HIDE DEF Bad
<1>1. PICK T \in Bad : \A s \in SUBSET T : s # T => s \notin Bad
  BY <1>0, SmallestSet, Zenon DEF Priced
<1>2. T \in SUBSET S /\ ~Good(T) /\ Priced(jobs, T)
  BY <1>0, PricedSubset
<1>3. T # {}
  <2>1. {} \in SUBSET S /\ S \ {} = S
    OBVIOUS
  <2>2. Sum(jobs, {}) = 0 /\ Sum(jobs, S) \in Nat
    BY <2>1, PricedSubset, SumStep
  <2>. QED
    BY <1>2, <2>1, <2>2 DEF Good
<1>4. PICK x : x \in T
  BY <1>3
<1>. DEFINE R == T \ {x}  Q == S \ T  P == S \ (T \ {x})
<1>5. /\ R \in SUBSET T /\ R # T /\ R \in SUBSET S /\ x \in P
      /\ P \ {x} = Q /\ P \in SUBSET S /\ Q \in SUBSET S /\ P = S \ R
  BY <1>2, <1>4
<1>6. R = T \ {x} /\ Q = S \ T
  OBVIOUS
<1>. HIDE DEF R, Q, P
<1>7. Good(R)
  BY <1>0, <1>1, <1>5
<1>8. Sum(jobs, T) = jobs[x].est + Sum(jobs, R)
  BY <1>2, <1>4, <1>6, SumRemove
<1>9. Priced(jobs, P) /\ Priced(jobs, Q) /\ Priced(jobs, R)
  BY <1>5, PricedSubset
<1>10. Sum(jobs, P) = jobs[x].est + Sum(jobs, Q)
  BY <1>5, <1>9, SumRemove
<1>11. /\ jobs[x].est \in Nat /\ Sum(jobs, R) \in Nat /\ Sum(jobs, Q) \in Nat
  BY <1>2, <1>4, <1>9, SumStep DEF Priced
<1>12. Sum(jobs, S) = Sum(jobs, R) + Sum(jobs, P)
  BY <1>5, <1>7 DEF Good
<1>13. Sum(jobs, S) = Sum(jobs, T) + Sum(jobs, Q)
  BY <1>8, <1>10, <1>11, <1>12
<1>. QED
  BY <1>2, <1>6, <1>13 DEF Good

(* The sum depends on the estimates alone.                                 *)
LEMMA SumSame ==
  ASSUME NEW jobs, NEW kobs, NEW S, Priced(jobs, S),
         \A i \in S : kobs[i].est = jobs[i].est
  PROVE  Priced(kobs, S) /\ Sum(kobs, S) = Sum(jobs, S)
<1>. DEFINE Good(T) == Sum(kobs, T) = Sum(jobs, T)
            Bad == {T \in SUBSET S : ~Good(T)}
<1>a. Priced(kobs, S)
  BY DEF Priced
<1>. HIDE DEF Good
<1>. SUFFICES ASSUME Bad # {} PROVE FALSE
  BY <1>a DEF Good
<1>0. Bad \in SUBSET SUBSET S /\ \A s \in SUBSET S : s \in Bad <=> ~Good(s)
  OBVIOUS
<1>. HIDE DEF Bad
<1>1. PICK T \in Bad : \A s \in SUBSET T : s # T => s \notin Bad
  BY <1>0, SmallestSet, Zenon DEF Priced
<1>2. T \in SUBSET S /\ ~Good(T) /\ Priced(jobs, T) /\ Priced(kobs, T)
  BY <1>0, <1>a, PricedSubset
<1>3. T # {}
  BY <1>2, SumStep DEF Good
<1>4. PICK x : x \in T
  BY <1>3
<1>. DEFINE R == T \ {x}
<1>5. R \in SUBSET T /\ R # T /\ R \in SUBSET S
  BY <1>2, <1>4
<1>6. /\ Sum(jobs, T) = jobs[x].est + Sum(jobs, R)
      /\ Sum(kobs, T) = kobs[x].est + Sum(kobs, R)
  BY <1>2, <1>4, SumRemove
<1>. HIDE DEF R
<1>7. Good(R)
  BY <1>0, <1>1, <1>5
<1>8. kobs[x].est = jobs[x].est
  BY <1>2, <1>4
<1>. QED
  BY <1>2, <1>6, <1>7, <1>8 DEF Good

(* Jobs without an estimate add nothing.                                   *)
LEMMA SumZero ==
  ASSUME NEW jobs, NEW S, IsFiniteSet(S), \A i \in S : jobs[i].est = 0
  PROVE  Priced(jobs, S) /\ Sum(jobs, S) = 0
<1>. DEFINE Bad == {T \in SUBSET S : Sum(jobs, T) # 0}
<1>a. Priced(jobs, S)
  BY DEF Priced
<1>. SUFFICES ASSUME Bad # {} PROVE FALSE
  BY <1>a
<1>0. Bad \in SUBSET SUBSET S /\ \A s \in SUBSET S : s \in Bad <=> Sum(jobs, s) # 0
  OBVIOUS
<1>. HIDE DEF Bad
<1>1. PICK T \in Bad : \A s \in SUBSET T : s # T => s \notin Bad
  BY <1>0, SmallestSet, Zenon
<1>2. T \in SUBSET S /\ Sum(jobs, T) # 0 /\ Priced(jobs, T)
  BY <1>0, <1>a, PricedSubset
<1>3. T # {}
  BY <1>2, SumStep
<1>4. PICK x : x \in T
  BY <1>3
<1>. DEFINE R == T \ {x}
<1>5. R \in SUBSET T /\ R # T /\ R \in SUBSET S
  BY <1>2, <1>4
<1>6. Sum(jobs, T) = jobs[x].est + Sum(jobs, R)
  BY <1>2, <1>4, SumRemove
<1>. HIDE DEF R
<1>7. Sum(jobs, R) = 0
  BY <1>0, <1>1, <1>5
<1>8. jobs[x].est = 0
  BY <1>2, <1>4
<1>. QED
  BY <1>2, <1>6, <1>7, <1>8

-----------------------------------------------------------------------------
(* Accounts                                                                *)

(* What the placements of member p reserve.                                *)
Reserved(c, p) == Sum(c.jobs, ActiveOf(c, p))

(* The accounts of a core are in order: reservations are covered, counters *)
(* fit, waiting jobs reserve nothing, and no member with live work is      *)
(* below the floor.                                                        *)
Account(c) ==
  /\ c.floor <= MaxU64
  /\ \A p \in Principals :
       Estimates(c, ActiveOf(c, p), p) <= c.service[p] /\ c.service[p] <= MaxU64
  /\ \A i \in Ids : c.jobs[i].st = "queued" => c.jobs[i].est = 0
  /\ \A p \in Members(c) : c.floor <= Committed(c, p)

(* Neither the floor nor what a member has used is less in d than in c.    *)
Gains(c, d) ==
  /\ c.floor <= d.floor
  /\ \A p \in Principals : Committed(c, p) <= Committed(d, p)

(* Every core is in order, and a candidate that may be saved takes nothing *)
(* back from the snapshot.                                                 *)
ServiceInv ==
  /\ Account(disk) /\ Account(core) /\ Account(cand)
  /\ pc # "poisoned" => Gains(disk, cand)

(* The estimates of a core are numbers.                                    *)
LEMMA CorePriced ==
  ASSUME NEW c \in CoreType, NEW S \in SUBSET Ids
  PROVE  Priced(c.jobs, S)
<1>1. \A j \in JobType : j.est \in Nat
  BY DEF JobType, JobRecords, NoJob
<1>2. IsFiniteSet(S)
  BY FS_Subset, ConfigAssumption
<1>. QED
  BY <1>1, <1>2 DEF Priced, CoreType

(* Estimates() sums over the recorded jobs of the member.                  *)
LEMMA EstimatesSum ==
  ASSUME NEW c \in CoreType, NEW S \in SUBSET Ids, NEW p
  PROVE  /\ Estimates(c, S, p) = Sum(c.jobs, {i \in S : c.jobs[i].st # "none" /\ Principal(c.jobs[i]) = p})
         /\ Estimates(c, S, p) \in Nat
<1>1. Estimates(c, S, p) = Sum(c.jobs, {i \in S : c.jobs[i].st # "none" /\ Principal(c.jobs[i]) = p})
  BY Zenon DEF Estimates, Sum
<1>. DEFINE T == {i \in S : c.jobs[i].st # "none" /\ Principal(c.jobs[i]) = p}
<1>2. T \in SUBSET Ids
  OBVIOUS
<1>3. Sum(c.jobs, T) \in Nat
  BY <1>2, CorePriced, SumStep
<1>. QED
  BY <1>1, <1>3

(* Over its active jobs they are the reservations of a member.             *)
LEMMA ReservedSum ==
  ASSUME NEW c \in CoreType, NEW p
  PROVE  /\ Estimates(c, ActiveOf(c, p), p) = Reserved(c, p)
         /\ Reserved(c, p) \in Nat
<1>. DEFINE A == ActiveOf(c, p)
            B == {i \in A : c.jobs[i].st # "none" /\ Principal(c.jobs[i]) = p}
<1>1. A \in SUBSET Ids
  BY DEF ActiveOf
<1>2. B = A
  BY DEF ActiveOf, Holds
<1>3. Estimates(c, A, p) = Sum(c.jobs, B) /\ Estimates(c, A, p) \in Nat
  BY <1>1, EstimatesSum
<1>. HIDE DEF A, B
<1>. QED
  BY <1>2, <1>3 DEF Reserved, A

(* Two cores with the same estimates have the same sums.                   *)
LEMMA CoreSums ==
  ASSUME NEW c \in CoreType, NEW d, NEW S \in SUBSET Ids,
         \A i \in S : d.jobs[i].est = c.jobs[i].est
  PROVE  Sum(d.jobs, S) = Sum(c.jobs, S) /\ Sum(c.jobs, S) \in Nat
<1>. DEFINE js == c.jobs  ks == d.jobs
<1>1. Priced(js, S)
  BY CorePriced
<1>2. \A i \in S : ks[i].est = js[i].est
  OBVIOUS
<1>. HIDE DEF js, ks
<1>3. Sum(ks, S) = Sum(js, S)
  BY <1>1, <1>2, SumSame, Zenon
<1>4. Sum(js, S) \in Nat
  BY <1>1, SumStep
<1>. QED
  BY <1>3, <1>4 DEF js, ks

(* In a core in order the committed service is exact.                      *)
LEMMA AccountForm ==
  ASSUME NEW c \in CoreType
  PROVE  /\ Account(c) <=>
              /\ c.floor <= MaxU64
              /\ \A p \in Principals : /\ Reserved(c, p) <= c.service[p]
                                       /\ c.service[p] <= MaxU64
              /\ \A i \in Ids : c.jobs[i].st = "queued" => c.jobs[i].est = 0
              /\ \A p \in Members(c) : c.floor <= c.service[p] - Reserved(c, p)
         /\ \A p \in Principals :
              /\ c.service[p] \in Nat /\ Reserved(c, p) \in Nat /\ Committed(c, p) \in Nat
              /\ Reserved(c, p) <= c.service[p] =>
                   Committed(c, p) = c.service[p] - Reserved(c, p)
<1>1. \A p \in Principals : c.service[p] \in Nat
  BY DEF CoreType
<1>2. \A p : Estimates(c, ActiveOf(c, p), p) = Reserved(c, p) /\ Reserved(c, p) \in Nat
  BY ReservedSum
<1>3. \A p \in Principals :
        /\ Committed(c, p) \in Nat
        /\ Reserved(c, p) <= c.service[p] => Committed(c, p) = c.service[p] - Reserved(c, p)
  BY <1>1, <1>2 DEF Committed, SatSub
<1>4. Members(c) \subseteq Principals
  BY MembersType
<1>. QED
  BY <1>1, <1>2, <1>3, <1>4 DEF Account

(* Gains composes.                                                         *)
LEMMA GainsTrans ==
  ASSUME NEW c \in CoreType, NEW d \in CoreType, NEW e \in CoreType,
         Gains(c, d), Gains(d, e)
  PROVE  Gains(c, e)
<1>1. \A p \in Principals : Committed(c, p) \in Nat /\ Committed(d, p) \in Nat /\ Committed(e, p) \in Nat
  BY AccountForm
<1>2. c.floor \in Nat /\ d.floor \in Nat /\ e.floor \in Nat
  BY DEF CoreType
<1>. QED
  BY <1>1, <1>2 DEF Gains

LEMMA GainsSame ==
  ASSUME NEW c \in CoreType
  PROVE  Gains(c, c)
BY AccountForm DEF Gains, CoreType

(* An operation under which no member loses, nobody gets live work and the *)
(* floor stays.                                                            *)
LEMMA Balance ==
  ASSUME NEW c \in CoreType, NEW d \in CoreType, Account(c),
         d.floor = c.floor, Members(d) \subseteq Members(c),
         \A i \in Ids : d.jobs[i].st = "queued" => d.jobs[i].est = 0,
         \A p \in Principals :
           /\ d.service[p] <= MaxU64 /\ Reserved(d, p) <= d.service[p]
           /\ c.service[p] - Reserved(c, p) <= d.service[p] - Reserved(d, p)
  PROVE  Account(d) /\ Gains(c, d)
<1>1. Members(c) \subseteq Principals /\ c.floor \in Nat
  BY MembersType DEF CoreType
<1>2. /\ \A p \in Principals : Reserved(c, p) <= c.service[p]
      /\ \A p \in Members(c) : c.floor <= c.service[p] - Reserved(c, p)
      /\ c.floor <= MaxU64
  BY AccountForm
<1>3. \A p \in Principals :
        /\ c.service[p] \in Nat /\ Reserved(c, p) \in Nat
        /\ d.service[p] \in Nat /\ Reserved(d, p) \in Nat
  BY AccountForm
<1>4. \A p \in Members(d) : d.floor <= d.service[p] - Reserved(d, p)
  BY <1>1, <1>2, <1>3
<1>5. Account(d)
  BY <1>2, <1>4, AccountForm
<1>6. \A p \in Principals : /\ Committed(c, p) = c.service[p] - Reserved(c, p)
                            /\ Committed(d, p) = d.service[p] - Reserved(d, p)
  BY <1>2, AccountForm
<1>7. Gains(c, d)
  BY <1>1, <1>6 DEF Gains
<1>. QED
  BY <1>5, <1>7

(* The records j and k stand for the same reservation and the same member  *)
(* with live work.                                                         *)
Alike(j, k) ==
  \/ k = j
  \/ Holds(j) /\ Holds(k) /\ k.est = j.est /\ k.controller = j.controller
  \/ ~Live(j) /\ ~Live(k)

(* An operation that moves no reservation.                                 *)
LEMMA QuietAccount ==
  ASSUME NEW c \in CoreType, NEW d \in CoreType, Account(c),
         d.service = c.service, d.floor = c.floor,
         \A i \in Ids : Alike(c.jobs[i], d.jobs[i])
  PROVE  Account(d) /\ Gains(c, d)
<1>1. \A i \in Ids : /\ Holds(d.jobs[i]) <=> Holds(c.jobs[i])
                     /\ Holds(c.jobs[i]) => /\ d.jobs[i].est = c.jobs[i].est
                                            /\ d.jobs[i].controller = c.jobs[i].controller
                     /\ Live(d.jobs[i]) => /\ Live(c.jobs[i])
                                           /\ d.jobs[i].controller = c.jobs[i].controller
                     /\ d.jobs[i].st = "queued" => d.jobs[i] = c.jobs[i]
  BY DEF Alike, Holds, Live
<1>2. Members(d) \subseteq Members(c)
  BY <1>1 DEF Members, LiveIds, Principal
<1>3. ASSUME NEW p PROVE Reserved(d, p) = Reserved(c, p)
  <2>1. ActiveOf(d, p) = ActiveOf(c, p) /\ ActiveOf(c, p) \in SUBSET Ids
    BY <1>1 DEF ActiveOf, Principal
  <2>2. \A i \in ActiveOf(c, p) : d.jobs[i].est = c.jobs[i].est
    BY <1>1 DEF ActiveOf
  <2>. QED
    BY <2>1, <2>2, CoreSums DEF Reserved
<1>4. \A i \in Ids : d.jobs[i].st = "queued" => d.jobs[i].est = 0
  BY <1>1 DEF Account
<1>5. \A p \in Principals :
        /\ d.service[p] <= MaxU64 /\ Reserved(d, p) <= d.service[p]
        /\ c.service[p] - Reserved(c, p) <= d.service[p] - Reserved(d, p)
  BY <1>3, AccountForm
<1>. QED
  BY <1>2, <1>4, <1>5, Balance

(* Jobs S that were never sent give up their placements, and what those    *)
(* reserved is refunded exactly: the saturating subtraction of credit()    *)
(* does not clamp.                                                         *)
LEMMA RefundAccount ==
  ASSUME NEW c \in CoreType, NEW d \in CoreType, Account(c), NEW S \in SUBSET Ids,
         d.service = Credited(c, S), d.floor = c.floor,
         \A i \in S : /\ c.jobs[i].st \in {"queued", "placed"}
                      /\ \/ ~Live(d.jobs[i])
                         \/ /\ d.jobs[i].st = "queued" /\ d.jobs[i].est = 0
                            /\ d.jobs[i].controller = c.jobs[i].controller,
         \A i \in Ids \ S : Alike(c.jobs[i], d.jobs[i])
  PROVE  Account(d) /\ Gains(c, d)
<1>1. \A i \in S : ~Holds(d.jobs[i]) /\ Live(c.jobs[i])
                   /\ (Live(d.jobs[i]) => d.jobs[i].controller = c.jobs[i].controller)
                   /\ (d.jobs[i].st = "queued" => d.jobs[i].est = 0)
  BY DEF Holds, Live
<1>2. \A i \in Ids \ S : /\ Holds(d.jobs[i]) <=> Holds(c.jobs[i])
                         /\ Holds(c.jobs[i]) => /\ d.jobs[i].est = c.jobs[i].est
                                                /\ d.jobs[i].controller = c.jobs[i].controller
                         /\ Live(d.jobs[i]) => /\ Live(c.jobs[i])
                                               /\ d.jobs[i].controller = c.jobs[i].controller
                         /\ d.jobs[i].st = "queued" => d.jobs[i] = c.jobs[i]
  BY DEF Alike, Holds, Live
<1>3. Members(d) \subseteq Members(c)
  BY <1>1, <1>2 DEF Members, LiveIds, Principal
<1>4. \A i \in Ids : d.jobs[i].st = "queued" => d.jobs[i].est = 0
  BY <1>1, <1>2 DEF Account
<1>5. ASSUME NEW p \in Principals
      PROVE  /\ d.service[p] <= MaxU64 /\ Reserved(d, p) <= d.service[p]
             /\ c.service[p] - Reserved(c, p) <= d.service[p] - Reserved(d, p)
  <2>. DEFINE A == ActiveOf(c, p)
              B == {i \in S : c.jobs[i].st # "none" /\ Principal(c.jobs[i]) = p}
              K == A \cap S
  <2>1. A \in SUBSET Ids /\ B \in SUBSET Ids /\ K \in SUBSET Ids
    BY DEF ActiveOf
  <2>2. ActiveOf(d, p) = A \ K
    BY <1>1, <1>2 DEF ActiveOf, Principal
  <2>3. K \in SUBSET B /\ K \in SUBSET A /\ \A i \in B \ K : c.jobs[i].st = "queued"
    BY DEF ActiveOf, Holds
  <2>4. \A i \in A \ K : d.jobs[i].est = c.jobs[i].est
    BY <1>2 DEF ActiveOf
  <2>5. Estimates(c, S, p) = Sum(c.jobs, B)
    BY EstimatesSum
  <2>. HIDE DEF A, B, K
  <2>6. Sum(c.jobs, A) = Sum(c.jobs, K) + Sum(c.jobs, A \ K)
    BY <2>1, <2>3, CorePriced, SumSplit
  <2>7. Sum(c.jobs, B) = Sum(c.jobs, K) + Sum(c.jobs, B \ K)
    BY <2>1, <2>3, CorePriced, SumSplit
  <2>8. Sum(c.jobs, B \ K) = 0
    <3>1. B \ K \in SUBSET Ids /\ \A i \in B \ K : c.jobs[i].est = 0
      BY <2>1, <2>3 DEF Account
    <3>2. IsFiniteSet(B \ K)
      BY <3>1, FS_Subset, ConfigAssumption
    <3>. QED
      BY <3>1, <3>2, SumZero
  <2>9. Sum(d.jobs, A \ K) = Sum(c.jobs, A \ K) /\ Sum(c.jobs, A \ K) \in Nat
    <3>1. A \ K \in SUBSET Ids
      BY <2>1
    <3>. QED
      BY <2>4, <3>1, CoreSums
  <2>10. Sum(c.jobs, K) \in Nat
    BY <2>1, CorePriced, SumStep
  <2>11. d.service[p] = SatSub(c.service[p], Sum(c.jobs, B))
    BY <2>5 DEF Credited
  <2>12. Reserved(c, p) = Sum(c.jobs, A) /\ Reserved(d, p) = Sum(c.jobs, A \ K)
    BY <2>2, <2>9 DEF Reserved, A
  <2>13. c.service[p] \in Nat /\ Reserved(c, p) <= c.service[p] /\ c.service[p] <= MaxU64
    BY AccountForm
  <2>14. Sum(c.jobs, B) = Sum(c.jobs, K)
    BY <2>7, <2>8, <2>10
  <2>15. d.service[p] = c.service[p] - Sum(c.jobs, K)
    BY <2>6, <2>9, <2>10, <2>11, <2>12, <2>13, <2>14 DEF SatSub
  <2>. QED
    BY <2>6, <2>9, <2>10, <2>12, <2>13, <2>15, ConfigAssumption
<1>. QED
  BY <1>3, <1>4, <1>5, Balance

-----------------------------------------------------------------------------
(* What each operation does to the accounts                                *)

(* Ending jobs that were never sent: expiry, cancel, drain.                *)
LEMMA RetireAccount ==
  ASSUME NEW c \in CoreType, Account(c), NEW S \in SUBSET Ids, NEW out \in Outcomes,
         \A i \in S : c.jobs[i].st \in {"queued", "placed"}
  PROVE  /\ Retire(c, S, out) \in CoreType
         /\ Account(Retire(c, S, out)) /\ Gains(c, Retire(c, S, out))
<1>. DEFINE d == Retire(c, S, out)
<1>1. d \in CoreType
  BY RetireType
<1>2. /\ d.jobs = [i \in Ids |-> IF i \in S THEN Terminal(c.jobs[i], out) ELSE c.jobs[i]]
      /\ d.service = Credited(c, S) /\ d.floor = c.floor
  BY DEF Retire, CoreType
<1>. HIDE DEF d
<1>3. \A i \in S : ~Live(d.jobs[i])
  <2>1. ASSUME NEW i \in S PROVE d.jobs[i].st = "terminal"
    <3>1. d.jobs[i] = Terminal(c.jobs[i], out) /\ c.jobs[i] \in JobRecords
      BY <1>2, JobForms DEF CoreType
    <3>. QED
      BY <3>1 DEF Terminal, JobRecords
  <2>. QED
    BY <2>1 DEF Live
<1>4. \A i \in Ids \ S : Alike(c.jobs[i], d.jobs[i])
  BY <1>2 DEF Alike
<1>. QED
  BY <1>1, <1>2, <1>3, <1>4, RefundAccount DEF d

LEMMA ExpireAccount ==
  ASSUME NEW c \in CoreType, Account(c), NEW t
  PROVE  Account(Expire(c, t)) /\ Gains(c, Expire(c, t))
<1>. DEFINE S == {i \in Ids : \/ c.jobs[i].st = "queued" /\ c.jobs[i].deadline <= t
                              \/ c.jobs[i].st = "placed" /\ c.jobs[i].expires <= t}
<1>1. S \in SUBSET Ids /\ \A i \in S : c.jobs[i].st \in {"queued", "placed"}
  OBVIOUS
<1>2. Expire(c, t) = Retire(c, S, "expired")
  BY DEF Expire
<1>. HIDE DEF S
<1>. QED
  BY <1>1, <1>2, RetireAccount DEF Outcomes

(* advance_floor raises the floor to the least service of a member with    *)
(* live work, if that is more: nobody falls below it.                      *)
LEMMA FloorAccount ==
  ASSUME NEW c \in CoreType, Account(c)
  PROVE  Account(AdvanceFloor(c)) /\ Gains(c, AdvanceFloor(c))
<1>. DEFINE least == {p \in Members(c) :
                        \A q \in Members(c) : Committed(c, p) <= Committed(c, q)}
            p0 == CHOOSE p \in least : TRUE
            d == AdvanceFloor(c)
<1>1. d \in CoreType /\ d.jobs = c.jobs
  BY AdvanceFloorType
<1>2. d = IF \E p \in least : Committed(c, p) > c.floor
          THEN [c EXCEPT !.floor = Committed(c, p0)] ELSE c
  BY DEF AdvanceFloor
<1>3. CASE ~\E p \in least : Committed(c, p) > c.floor
  BY <1>2, <1>3, GainsSame
<1>4. CASE \E p \in least : Committed(c, p) > c.floor
  <2>1. PICK p \in least : Committed(c, p) > c.floor
    BY <1>4
  <2>2. p0 \in least
    BY <2>1
  <2>3. /\ p0 \in Members(c) /\ p \in Members(c)
        /\ \A q \in Members(c) : Committed(c, p0) <= Committed(c, q)
        /\ Committed(c, p) <= Committed(c, p0)
    BY <2>1, <2>2
  <2>4. d.floor = Committed(c, p0) /\ d.service = c.service
    BY <1>2, <1>4 DEF CoreType
  <2>. HIDE DEF d, p0, least
  <2>5. Members(c) \subseteq Principals /\ c.floor \in Nat
    BY MembersType DEF CoreType
  <2>6. \A q \in Principals : /\ Committed(c, q) \in Nat /\ Committed(d, q) = Committed(c, q)
                              /\ Reserved(d, q) = Reserved(c, q)
    <3>1. \A q : Reserved(d, q) = Reserved(c, q)
      BY <1>1 DEF Reserved, ActiveOf
    <3>2. \A q \in Principals : /\ Reserved(c, q) <= c.service[q] /\ Committed(c, q) \in Nat
                                /\ Committed(c, q) = c.service[q] - Reserved(c, q)
      BY AccountForm
    <3>3. \A q \in Principals : Committed(d, q) = d.service[q] - Reserved(d, q)
      BY <1>1, <2>4, <3>1, <3>2, AccountForm
    <3>. QED
      BY <2>4, <3>1, <3>2, <3>3
  <2>7. Members(d) = Members(c)
    BY <1>1 DEF Members, LiveIds
  <2>8. Committed(c, p0) <= MaxU64
    <3>1. /\ c.service[p0] <= MaxU64 /\ c.service[p0] \in Nat /\ Reserved(c, p0) \in Nat
          /\ Committed(c, p0) = c.service[p0] - Reserved(c, p0)
      BY <2>3, <2>5, AccountForm
    <3>. QED
      BY <3>1, ConfigAssumption
  <2>9. \A q \in Members(d) : d.floor <= Committed(d, q)
    BY <2>3, <2>4, <2>5, <2>6, <2>7
  <2>10. Account(d)
    <3>1. \A q \in Principals : /\ Estimates(d, ActiveOf(d, q), q) <= d.service[q]
                                /\ d.service[q] <= MaxU64
      BY <1>1, <2>4, <2>6, ReservedSum, AccountForm
    <3>. QED
      BY <1>1, <2>4, <2>8, <2>9, <3>1 DEF Account
  <2>11. Gains(c, d)
    BY <2>1, <2>3, <2>4, <2>5, <2>6 DEF Gains
  <2>. QED
    BY <2>10, <2>11 DEF d
<1>. QED
  BY <1>3, <1>4

(* schedule() up to its first placement.                                   *)
LEMMA ScheduleAccount ==
  ASSUME NEW c \in CoreType, Account(c), NEW t
  PROVE  /\ Account(Turn(Expire(c, t))) /\ Gains(c, Turn(Expire(c, t)))
         /\ Turn(Expire(c, t)) \in CoreType
<1>. DEFINE d == Expire(c, t)
<1>1. d \in CoreType /\ Account(d) /\ Gains(c, d)
  BY ExpireType, ExpireAccount
<1>. HIDE DEF d
<1>2. Turn(d) \in CoreType /\ Account(Turn(d)) /\ Gains(d, Turn(d))
  BY <1>1, TurnType, FloorAccount, GainsSame DEF Turn
<1>. QED
  BY <1>1, <1>2, GainsTrans DEF d

(* A placement reserves what it charges.                                   *)
LEMMA PlacedAccount ==
  ASSUME NEW c \in CoreType, Account(c), NEW i \in Ids, NEW b \in Backends, NEW t \in Nat,
         c.jobs[i].st = "queued", ~Overflows(c, <<i, b>>)
  PROVE  Account(Placed(c, i, b, t)) /\ Gains(c, Placed(c, i, b, t))
<1>. DEFINE j == c.jobs[i]
            o == Principal(j)
            cost == Cost[<<j.body, b>>]
            k == [j EXCEPT !.st = "placed", !.lease = c.next, !.backend = b,
                           !.est = cost, !.expires = Lower(t + LeaseMs, j.deadline)]
            d == Placed(c, i, b, t)
<1>1. /\ d.jobs = [c.jobs EXCEPT ![i] = k] /\ d.floor = c.floor
      /\ d.service = [c.service EXCEPT ![o] = @ + cost]
  BY DEF Placed, CoreType
<1>2. j \in JobRecords
  BY JobForms DEF CoreType
<1>3. k.st = "placed" /\ k.est = cost /\ k.controller = j.controller
  BY <1>2 DEF JobRecords
<1>4. cost \in Nat /\ o \in Principals /\ c.service[o] \in Nat
  BY <1>2, ConfigAssumption DEF JobRecords, Principal, CoreType
<1>5. c.service[o] + cost <= MaxU64
  BY <1>4, ConfigAssumption DEF Overflows
<1>6. d \in CoreType
  BY PlacedType
<1>. HIDE DEF k, d, cost
<1>7. \A n \in Ids : d.jobs[n] = IF n = i THEN k ELSE c.jobs[n]
  BY <1>1 DEF CoreType
<1>8. \A p \in Principals : d.service[p] = IF p = o THEN c.service[p] + cost ELSE c.service[p]
  BY <1>1, <1>4 DEF CoreType
<1>9. Principal(k) = o
  BY <1>3 DEF Principal
<1>. HIDE DEF o, j
<1>10. Live(c.jobs[i]) /\ Holds(k) /\ ~Holds(c.jobs[i]) /\ Principal(c.jobs[i]) = o
  BY <1>3 DEF Live, Holds, o, j
<1>11. Members(d) \subseteq Members(c)
  BY <1>7, <1>9, <1>10 DEF Members, LiveIds
<1>12. \A n \in Ids : d.jobs[n].st = "queued" => d.jobs[n].est = 0
  BY <1>3, <1>7 DEF Account
<1>13. ASSUME NEW p \in Principals
       PROVE  Reserved(d, p) = IF p = o THEN Reserved(c, p) + cost ELSE Reserved(c, p)
  <2>. DEFINE A == ActiveOf(c, p)
              D == ActiveOf(d, p)
  <2>1. A \in SUBSET Ids /\ D \in SUBSET Ids /\ i \notin A
    BY <1>10 DEF ActiveOf
  <2>2. \A n \in A : d.jobs[n].est = c.jobs[n].est
    BY <1>7, <2>1
  <2>3. D = IF p = o THEN A \cup {i} ELSE A
    BY <1>7, <1>9, <1>10 DEF ActiveOf
  <2>. HIDE DEF A, D
  <2>4. Sum(d.jobs, A) = Sum(c.jobs, A) /\ Sum(c.jobs, A) \in Nat
    BY <2>1, <2>2, CoreSums
  <2>5. CASE p = o
    <3>1. i \in D /\ D \ {i} = A
      BY <2>1, <2>3, <2>5
    <3>2. Priced(d.jobs, D)
      BY <1>6, <2>1, CorePriced
    <3>3. Sum(d.jobs, D) = d.jobs[i].est + Sum(d.jobs, D \ {i})
      BY <3>1, <3>2, SumRemove
    <3>4. d.jobs[i].est = cost
      BY <1>3, <1>7
    <3>5. Sum(d.jobs, D \ {i}) = Sum(c.jobs, A)
      BY <2>4, <3>1
    <3>6. Sum(d.jobs, D) = cost + Sum(c.jobs, A)
      BY <3>3, <3>4, <3>5
    <3>. QED
      BY <1>4, <2>4, <2>5, <3>6 DEF Reserved, A, D
  <2>6. CASE p # o
    BY <2>3, <2>4, <2>6 DEF Reserved, A, D
  <2>. QED
    BY <2>5, <2>6
<1>14. ASSUME NEW p \in Principals
       PROVE  /\ d.service[p] <= MaxU64 /\ Reserved(d, p) <= d.service[p]
              /\ c.service[p] - Reserved(c, p) <= d.service[p] - Reserved(d, p)
  <2>1. /\ c.service[p] \in Nat /\ Reserved(c, p) \in Nat
        /\ Reserved(c, p) <= c.service[p] /\ c.service[p] <= MaxU64
    BY AccountForm
  <2>. QED
    BY <1>4, <1>5, <1>8, <1>13, <2>1
<1>15. Account(d) /\ Gains(c, d)
  BY <1>1, <1>6, <1>11, <1>12, <1>14, Balance
<1>. QED
  BY <1>15 DEF d

(* Finishing refunds the estimate and charges what was used: the member    *)
(* has used no less than before.                                           *)
LEMMA CompletedAccount ==
  ASSUME NEW c \in CoreType, Account(c), NEW i \in Ids, NEW e \in Nat, NEW out \in Outcomes,
         Holds(c.jobs[i])
  PROVE  Account(Completed(c, i, e, out)) /\ Gains(c, Completed(c, i, e, out))
<1>. DEFINE j == c.jobs[i]
            o == Principal(j)
            used == SatAdd(SatSub(c.service[o], j.est), e)
            k == Terminal(j, out)
            d == Completed(c, i, e, out)
<1>1. /\ d.jobs = [c.jobs EXCEPT ![i] = k]
      /\ d.service = [c.service EXCEPT ![o] = used]
      /\ d.floor = IF LiveIds(c) = {i} THEN Higher(c.floor, used) ELSE c.floor
  BY DEF Completed, CoreType
<1>2. j \in JobRecords
  BY JobForms DEF CoreType, Holds
<1>3. k.st = "terminal"
  BY <1>2 DEF JobRecords, Terminal
<1>4. j.est \in Nat /\ o \in Principals /\ c.service[o] \in Nat /\ c.floor \in Nat
  BY <1>2, ConfigAssumption DEF JobRecords, Principal, CoreType
<1>5. d \in CoreType
  BY CompletedType
<1>6. Holds(j) /\ Live(j) /\ ~Holds(k) /\ ~Live(k)
  BY <1>3 DEF Holds, Live
<1>7. i \in ActiveOf(c, o)
  BY <1>6 DEF ActiveOf
<1>. HIDE DEF k, d, used
<1>8. \A n \in Ids : d.jobs[n] = IF n = i THEN k ELSE c.jobs[n]
  BY <1>1 DEF CoreType
<1>9. \A p \in Principals : d.service[p] = IF p = o THEN used ELSE c.service[p]
  BY <1>1, <1>4 DEF CoreType
<1>10. ASSUME NEW p \in Principals
       PROVE  Reserved(c, p) = IF p = o THEN j.est + Reserved(d, p) ELSE Reserved(d, p)
  <2>. DEFINE A == ActiveOf(c, p)
              D == ActiveOf(d, p)
  <2>1. A \in SUBSET Ids /\ D \in SUBSET Ids
    BY DEF ActiveOf
  <2>2. D = A \ {i} /\ (i \in A <=> p = o)
    BY <1>6, <1>8 DEF ActiveOf
  <2>3. \A n \in D : d.jobs[n].est = c.jobs[n].est
    BY <1>8, <2>1, <2>2
  <2>. HIDE DEF A, D
  <2>4. Sum(d.jobs, D) = Sum(c.jobs, D)
    BY <2>1, <2>3, CoreSums
  <2>5. Priced(c.jobs, A)
    BY <2>1, CorePriced
  <2>6. p = o => Sum(c.jobs, A) = j.est + Sum(c.jobs, D)
    BY <2>2, <2>5, SumRemove
  <2>7. p # o => D = A
    BY <2>2
  <2>8. Reserved(c, p) = Sum(c.jobs, A) /\ Reserved(d, p) = Sum(c.jobs, D)
    BY <2>4 DEF Reserved, A, D
  <2>. QED
    BY <2>6, <2>7, <2>8
<1>11. \A p \in Principals :
         /\ c.service[p] \in Nat /\ Reserved(c, p) \in Nat /\ Reserved(d, p) \in Nat
         /\ Reserved(c, p) <= c.service[p] /\ c.service[p] <= MaxU64
  BY <1>5, AccountForm
<1>12. used \in Nat /\ used <= MaxU64 /\ c.service[o] - j.est <= used
  <2>1. j.est <= c.service[o] /\ c.service[o] <= MaxU64
    BY <1>4, <1>10, <1>11
  <2>. DEFINE rest == c.service[o] - j.est
  <2>2. SatSub(c.service[o], j.est) = rest /\ rest \in Nat /\ rest <= MaxU64
    BY <1>4, <2>1, ConfigAssumption DEF SatSub
  <2>. HIDE DEF rest
  <2>3. used = IF rest + e > MaxU64 THEN MaxU64 ELSE rest + e
    BY <2>2 DEF used, SatAdd
  <2>4. used \in Nat /\ used <= MaxU64 /\ rest <= used
    BY <2>2, <2>3, ConfigAssumption
  <2>. QED
    BY <2>4 DEF rest
<1>13. ASSUME NEW p \in Principals
       PROVE  /\ d.service[p] <= MaxU64 /\ Reserved(d, p) <= d.service[p]
              /\ c.service[p] - Reserved(c, p) <= d.service[p] - Reserved(d, p)
  <2>1. CASE p = o
    <3>1. Reserved(c, o) = j.est + Reserved(d, o) /\ d.service[o] = used
      BY <1>4, <1>9, <1>10
    <3>2. /\ c.service[o] \in Nat /\ Reserved(c, o) \in Nat /\ Reserved(d, o) \in Nat
          /\ Reserved(c, o) <= c.service[o]
      BY <1>4, <1>11
    <3>. QED
      BY <1>4, <1>12, <2>1, <3>1, <3>2, ConfigAssumption
  <2>2. CASE p # o
    BY <1>9, <1>10, <1>11, <2>2
  <2>. QED
    BY <2>1, <2>2
<1>14. \A n \in Ids : d.jobs[n].st = "queued" => d.jobs[n].est = 0
  BY <1>3, <1>8 DEF Account
<1>15. Members(d) \subseteq Members(c)
  BY <1>6, <1>8 DEF Members, LiveIds
<1>16. CASE LiveIds(c) # {i}
  BY <1>1, <1>5, <1>13, <1>14, <1>15, <1>16, Balance DEF d
<1>17. CASE LiveIds(c) = {i}
  <2>1. Members(d) = {}
    BY <1>6, <1>8, <1>17 DEF Members, LiveIds
  <2>2. d.floor <= MaxU64 /\ c.floor <= d.floor
    BY <1>1, <1>4, <1>12, <1>17, ConfigAssumption DEF Higher, Account
  <2>3. Account(d)
    BY <1>5, <1>13, <1>14, <2>1, <2>2, AccountForm
  <2>4. \A p \in Principals : /\ Committed(c, p) = c.service[p] - Reserved(c, p)
                              /\ Committed(d, p) = d.service[p] - Reserved(d, p)
    BY <1>5, <1>11, <1>13, AccountForm
  <2>5. Gains(c, d)
    BY <1>13, <2>2, <2>4 DEF Gains
  <2>. QED
    BY <2>3, <2>5 DEF d
<1>. QED
  BY <1>16, <1>17

(* A member without live work comes back at the floor.                     *)
LEMMA AdmittedAccount ==
  ASSUME NEW c \in CoreType, Account(c), NEW ctl \in Controllers, NEW i \in Ids,
         NEW body \in Bodies, NEW t \in Nat, c.jobs[i].st = "none"
  PROVE  /\ Account(Admitted(c, ctl, i, body, t)) /\ Gains(c, Admitted(c, ctl, i, body, t))
<1>. DEFINE s == [c EXCEPT !.next = @ + 1]
            e == AdvanceFloor(s)
            o == PrincipalOf[ctl]
            k == Job(ctl, body, t, c.next)
            d == Admitted(c, ctl, i, body, t)
<1>1. /\ s \in CoreType /\ s.jobs = c.jobs /\ s.service = c.service /\ s.floor = c.floor
  BY DEF CoreType
<1>. HIDE DEF s
<1>2. Account(s) /\ Gains(c, s)
  <2>1. \A n \in Ids : Alike(c.jobs[n], s.jobs[n])
    BY <1>1 DEF Alike
  <2>. QED
    BY <1>1, <2>1, QuietAccount
<1>3. /\ e \in CoreType /\ e.jobs = c.jobs /\ Account(e) /\ Gains(s, e)
  BY <1>1, <1>2, AdvanceFloorType, FloorAccount
<1>. HIDE DEF e
<1>4. Gains(c, e)
  BY <1>1, <1>2, <1>3, GainsTrans
<1>5. d = [e EXCEPT !.service[o] = IF o \in Members(e) THEN @ ELSE Higher(@, e.floor),
                    !.jobs[i] = k]
  BY DEF Admitted, e, s
<1>6. d \in CoreType
  BY AdmittedType
<1>7. o \in Principals /\ k.st = "queued" /\ k.est = 0 /\ k.controller = ctl
  BY ConfigAssumption DEF Job, NoJob
<1>. DEFINE v == IF o \in Members(e) THEN e.service[o] ELSE Higher(e.service[o], e.floor)
<1>. HIDE DEF k, d
<1>8. /\ d.jobs = [c.jobs EXCEPT ![i] = k] /\ d.floor = e.floor
      /\ d.service = [e.service EXCEPT ![o] = v]
  BY <1>3, <1>5 DEF CoreType
<1>9. Principal(k) = o
  BY <1>7 DEF Principal
<1>. HIDE DEF v, o
<1>10. \A n \in Ids : d.jobs[n] = IF n = i THEN k ELSE e.jobs[n]
  BY <1>3, <1>8 DEF CoreType
<1>11. \A p \in Principals : d.service[p] = IF p = o THEN v ELSE e.service[p]
  BY <1>3, <1>7, <1>8 DEF CoreType
<1>12. ~Holds(e.jobs[i]) /\ ~Live(e.jobs[i]) /\ ~Holds(k)
  BY <1>3, <1>7 DEF Holds, Live
<1>13. \A p : Reserved(d, p) = Reserved(e, p)
  <2>. SUFFICES ASSUME NEW p PROVE Reserved(d, p) = Reserved(e, p)
    OBVIOUS
  <2>1. ActiveOf(d, p) = ActiveOf(e, p) /\ ActiveOf(e, p) \in SUBSET Ids
    BY <1>10, <1>12 DEF ActiveOf
  <2>2. \A n \in ActiveOf(e, p) : d.jobs[n].est = e.jobs[n].est
    BY <1>10, <1>12 DEF ActiveOf
  <2>. QED
    BY <1>3, <2>1, <2>2, CoreSums DEF Reserved
<1>14. o \notin Members(e) => Reserved(e, o) = 0
  <2>1. o \notin Members(e) => ActiveOf(e, o) = {}
    BY DEF Members, LiveIds, ActiveOf, Live, Holds
  <2>2. Sum(e.jobs, {}) = 0
    <3>1. {} \in SUBSET Ids
      OBVIOUS
    <3>2. Priced(e.jobs, {})
      BY <1>3, <3>1, CorePriced
    <3>. QED
      BY <3>2, SumStep
  <2>. QED
    BY <2>1, <2>2 DEF Reserved
<1>15. Members(d) \subseteq Members(e) \cup {o}
  BY <1>9, <1>10 DEF Members, LiveIds
<1>16. /\ Members(e) \subseteq Principals /\ e.floor \in Nat /\ e.floor <= MaxU64
       /\ \A p \in Principals : /\ e.service[p] \in Nat /\ Reserved(e, p) \in Nat
                                /\ Reserved(e, p) <= e.service[p] /\ e.service[p] <= MaxU64
       /\ \A p \in Members(e) : e.floor <= e.service[p] - Reserved(e, p)
  BY <1>3, MembersType, AccountForm DEF CoreType
<1>17. /\ v \in Nat /\ v <= MaxU64 /\ e.service[o] <= v
       /\ o \notin Members(e) => e.floor <= v
  BY <1>7, <1>16, ConfigAssumption DEF v, Higher
<1>18. v # e.service[o] => o \notin Members(e)
  BY DEF v
<1>19. \A p \in Principals : /\ Reserved(d, p) <= d.service[p] /\ d.service[p] <= MaxU64
                             /\ e.service[p] - Reserved(e, p) <= d.service[p] - Reserved(d, p)
  BY <1>7, <1>11, <1>13, <1>16, <1>17
<1>20. \A p \in Members(d) : d.floor <= d.service[p] - Reserved(d, p)
  <2>. SUFFICES ASSUME NEW p \in Members(d) PROVE d.floor <= d.service[p] - Reserved(d, p)
    OBVIOUS
  <2>1. CASE p \in Members(e)
    <3>1. /\ p \in Principals /\ e.floor <= e.service[p] - Reserved(e, p)
          /\ e.service[p] \in Nat /\ Reserved(e, p) \in Nat /\ e.floor \in Nat
      BY <1>16, <2>1
    <3>2. /\ e.service[p] - Reserved(e, p) <= d.service[p] - Reserved(d, p)
          /\ d.service[p] \in Nat /\ Reserved(d, p) \in Nat
      BY <1>6, <1>19, <3>1, AccountForm
    <3>. QED
      BY <1>8, <3>1, <3>2
  <2>2. CASE p \notin Members(e)
    <3>1. p = o /\ o \notin Members(e) /\ o \in Principals
      BY <1>7, <1>15, <2>2
    <3>2. d.service[o] = v /\ Reserved(d, o) = 0 /\ e.floor <= v
      BY <1>11, <1>13, <1>14, <1>17, <3>1
    <3>. QED
      BY <1>8, <1>17, <3>1, <3>2
  <2>. QED
    BY <2>1, <2>2
<1>21. \A n \in Ids : d.jobs[n].st = "queued" => d.jobs[n].est = 0
  BY <1>3, <1>7, <1>10 DEF Account
<1>22. Account(d)
  BY <1>6, <1>8, <1>16, <1>19, <1>20, <1>21, AccountForm
<1>23. Gains(e, d)
  <2>1. \A p \in Principals : /\ Committed(e, p) = e.service[p] - Reserved(e, p)
                              /\ Committed(d, p) = d.service[p] - Reserved(d, p)
    BY <1>3, <1>6, <1>16, <1>19, AccountForm
  <2>. QED
    BY <1>8, <1>16, <1>19, <2>1 DEF Gains
<1>24. Gains(c, d)
  BY <1>3, <1>4, <1>6, <1>23, GainsTrans
<1>. QED
  BY <1>22, <1>24 DEF d

(* Moving one record to one that stands for the same.                      *)
LEMMA QuietOne ==
  ASSUME NEW c \in CoreType, Account(c), NEW d \in CoreType, NEW i \in Ids, NEW k,
         d.jobs = [c.jobs EXCEPT ![i] = k], d.service = c.service, d.floor = c.floor,
         Alike(c.jobs[i], k)
  PROVE  Account(d) /\ Gains(c, d)
<1>1. \A n \in Ids : d.jobs[n] = IF n = i THEN k ELSE c.jobs[n]
  BY DEF CoreType
<1>2. \A n \in Ids : Alike(c.jobs[n], d.jobs[n])
  BY <1>1 DEF Alike
<1>. QED
  BY <1>2, QuietAccount

LEMMA DispatchedAccount ==
  ASSUME NEW c \in CoreType, Account(c), NEW i \in Ids, NEW t \in Nat, c.jobs[i].st = "placed"
  PROVE  Account(Dispatched(c, i, t)) /\ Gains(c, Dispatched(c, i, t))
<1>. DEFINE k == [c.jobs[i] EXCEPT !.st = "dispatched", !.started = t,
                                   !.expires = 0, !.stop = FALSE]
            d == Dispatched(c, i, t)
<1>1. /\ d.jobs = [c.jobs EXCEPT ![i] = k] /\ d.service = c.service /\ d.floor = c.floor
  BY DEF Dispatched, CoreType
<1>2. c.jobs[i] \in JobRecords
  BY JobForms DEF CoreType
<1>3. k.st = "dispatched" /\ k.est = c.jobs[i].est /\ k.controller = c.jobs[i].controller
  BY <1>2 DEF JobRecords
<1>4. d \in CoreType
  BY DispatchedType
<1>. HIDE DEF k, d
<1>5. Alike(c.jobs[i], k)
  BY <1>3 DEF Alike, Holds
<1>6. Account(d) /\ Gains(c, d)
  BY <1>1, <1>4, <1>5, QuietOne
<1>. QED
  BY <1>6 DEF d

LEMMA UnconfirmedAccount ==
  ASSUME NEW c \in CoreType, Account(c), NEW i \in Ids, Crossed(c.jobs[i])
  PROVE  Account(Unconfirmed(c, i)) /\ Gains(c, Unconfirmed(c, i))
<1>. DEFINE k == [c.jobs[i] EXCEPT !.st = "uncertain", !.stop = FALSE]
            d == Unconfirmed(c, i)
<1>1. /\ d.jobs = [c.jobs EXCEPT ![i] = k] /\ d.service = c.service /\ d.floor = c.floor
  BY DEF Unconfirmed, CoreType
<1>2. c.jobs[i] \in JobRecords
  BY JobForms DEF CoreType, Crossed
<1>3. k.st = "uncertain" /\ k.est = c.jobs[i].est /\ k.controller = c.jobs[i].controller
  BY <1>2 DEF JobRecords
<1>4. d \in CoreType
  BY UnconfirmedType
<1>. HIDE DEF k, d
<1>5. Alike(c.jobs[i], k)
  BY <1>3 DEF Alike, Holds, Crossed
<1>6. Account(d) /\ Gains(c, d)
  BY <1>1, <1>4, <1>5, QuietOne
<1>. QED
  BY <1>6 DEF d

LEMMA CancelledAccount ==
  ASSUME NEW c \in CoreType, Account(c), NEW i \in Ids
  PROVE  Account(Cancelled(c, i)) /\ Gains(c, Cancelled(c, i))
<1>1. CASE c.jobs[i].st \in {"queued", "placed"}
  <2>1. Cancelled(c, i) = Retire(c, {i}, "cancelled")
    BY <1>1 DEF Cancelled
  <2>2. {i} \in SUBSET Ids /\ \A n \in {i} : c.jobs[n].st \in {"queued", "placed"}
    BY <1>1
  <2>. QED
    BY <2>1, <2>2, RetireAccount DEF Outcomes
<1>2. CASE c.jobs[i].st = "dispatched"
  <2>. DEFINE k == [c.jobs[i] EXCEPT !.stop = TRUE]
              d == Cancelled(c, i)
  <2>1. /\ d.jobs = [c.jobs EXCEPT ![i] = k] /\ d.service = c.service /\ d.floor = c.floor
    BY <1>2 DEF Cancelled, CoreType
  <2>2. c.jobs[i] \in JobRecords
    BY <1>2, JobForms DEF CoreType
  <2>3. k.st = "dispatched" /\ k.est = c.jobs[i].est /\ k.controller = c.jobs[i].controller
    BY <1>2, <2>2 DEF JobRecords
  <2>4. d \in CoreType
    BY CancelledType
  <2>. HIDE DEF k, d
  <2>5. Alike(c.jobs[i], k)
    BY <1>2, <2>3 DEF Alike, Holds
  <2>6. Account(d) /\ Gains(c, d)
    BY <2>1, <2>4, <2>5, QuietOne
  <2>. QED
    BY <2>6 DEF d
<1>3. CASE c.jobs[i].st \notin {"queued", "placed", "dispatched"}
  BY <1>3, GainsSame DEF Cancelled
<1>. QED
  BY <1>1, <1>2, <1>3

LEMMA DrainingAccount ==
  ASSUME NEW c \in CoreType, Account(c), NEW enabled \in BOOLEAN
  PROVE  Account(Draining(c, enabled)) /\ Gains(c, Draining(c, enabled))
<1>. DEFINE d == [c EXCEPT !.draining = enabled]
            S == {i \in Ids : d.jobs[i].st \in {"queued", "placed"}}
<1>1. d \in CoreType /\ d.jobs = c.jobs /\ d.service = c.service /\ d.floor = c.floor
  BY DEF CoreType
<1>2. Draining(c, enabled) = IF enabled THEN Retire(d, S, "drained") ELSE d
  BY DEF Draining
<1>. HIDE DEF d
<1>3. Account(d) /\ Gains(c, d)
  <2>1. \A n \in Ids : Alike(c.jobs[n], d.jobs[n])
    BY <1>1 DEF Alike
  <2>. QED
    BY <1>1, <2>1, QuietAccount
<1>4. S \in SUBSET Ids /\ \A i \in S : d.jobs[i].st \in {"queued", "placed"}
  OBVIOUS
<1>. HIDE DEF S
<1>5. /\ Retire(d, S, "drained") \in CoreType
      /\ Account(Retire(d, S, "drained")) /\ Gains(d, Retire(d, S, "drained"))
  BY <1>1, <1>3, <1>4, RetireAccount DEF Outcomes
<1>6. Gains(c, Retire(d, S, "drained"))
  BY <1>1, <1>3, <1>5, GainsTrans
<1>. QED
  BY <1>2, <1>3, <1>5, <1>6

LEMMA ResolvedAccount ==
  ASSUME NEW c \in CoreType, Account(c), NEW i \in Ids, NEW t \in Nat
  PROVE  Account(Resolved(c, i, t)) /\ Gains(c, Resolved(c, i, t))
<1>1. CASE Crossed(c.jobs[i])
  <2>. DEFINE e == SatSub(t, c.jobs[i].started) * UsPerMs
  <2>1. e \in Nat
    BY SatSubNat, ConfigAssumption
  <2>2. Holds(c.jobs[i]) /\ "operator-resolved" \in Outcomes
    BY <1>1 DEF Holds, Crossed, Outcomes
  <2>3. Resolved(c, i, t) = Completed(c, i, e, "operator-resolved")
    BY <1>1 DEF Resolved
  <2>. HIDE DEF e
  <2>. QED
    BY <2>1, <2>2, <2>3, CompletedAccount
<1>2. CASE ~Crossed(c.jobs[i])
  BY <1>2, GainsSame DEF Resolved
<1>. QED
  BY <1>1, <1>2

(* A restart refunds the placements it undoes, never sent work.            *)
LEMMA RecoveredAccount ==
  ASSUME NEW c \in CoreType, Account(c)
  PROVE  Account(Recovered(c)) /\ Gains(c, Recovered(c))
<1>. DEFINE d == Recovered(c)
            S == {i \in Ids : c.jobs[i].st = "placed"}
<1>1. /\ d.jobs = [i \in Ids |-> RecoveredJob(c.jobs[i])]
      /\ d.service = Credited(c, S) /\ d.floor = c.floor
  BY DEF Recovered, CoreType
<1>2. d \in CoreType
  BY RecoveredType
<1>. HIDE DEF d
<1>3. ASSUME NEW i \in S
      PROVE  \/ ~Live(d.jobs[i])
             \/ /\ d.jobs[i].st = "queued" /\ d.jobs[i].est = 0
                /\ d.jobs[i].controller = c.jobs[i].controller
  <2>. DEFINE j == c.jobs[i]
  <2>1. j \in JobRecords /\ j.st = "placed"
    BY JobForms DEF CoreType
  <2>2. d.jobs[i] = Terminal(j, "not-sent") \/ d.jobs[i] = Requeued(j)
    BY <1>1, <2>1 DEF RecoveredJob
  <2>. HIDE DEF j
  <2>3. Terminal(j, "not-sent").st = "terminal"
    BY <2>1 DEF Terminal, JobRecords
  <2>4. Requeued(j).st = "queued" /\ Requeued(j).est = 0 /\ Requeued(j).controller = j.controller
    BY <2>1 DEF Requeued, JobRecords
  <2>. QED
    BY <2>2, <2>3, <2>4 DEF Live, j
<1>4. ASSUME NEW i \in Ids \ S PROVE Alike(c.jobs[i], d.jobs[i])
  <2>. DEFINE j == c.jobs[i]
              k == [j EXCEPT !.st = "uncertain", !.stop = FALSE]
  <2>1. j.st # "placed" /\ d.jobs[i] = RecoveredJob(j)
    BY <1>1
  <2>2. CASE j.st = "dispatched"
    <3>1. j \in JobRecords
      BY <2>2, JobForms DEF CoreType
    <3>2. k.st = "uncertain" /\ k.est = j.est /\ k.controller = j.controller
      BY <3>1 DEF JobRecords
    <3>3. d.jobs[i] = k
      BY <2>1, <2>2 DEF RecoveredJob
    <3>. HIDE DEF k
    <3>. QED
      BY <2>2, <3>2, <3>3 DEF Alike, Holds
  <2>3. CASE j.st # "dispatched"
    BY <2>1, <2>3 DEF RecoveredJob, Alike
  <2>. QED
    BY <2>2, <2>3
<1>5. S \in SUBSET Ids /\ \A i \in S : c.jobs[i].st \in {"queued", "placed"}
  OBVIOUS
<1>. HIDE DEF S
<1>6. Account(d) /\ Gains(c, d)
  BY <1>1, <1>2, <1>3, <1>4, <1>5, RefundAccount
<1>. QED
  BY <1>6 DEF d

(* Taking in the receipt of an archived job.                               *)
LEMMA AddressedAccount ==
  ASSUME TypeOK, ArchiveInv, Account(cand), NEW i \in Ids
  PROVE  Account(Addressed(i)) /\ Gains(cand, Addressed(i))
<1>. DEFINE d == Addressed(i)
<1>1. d \in CoreType /\ cand \in CoreType
  BY AddressedType DEF TypeOK
<1>2. /\ d.service = cand.service /\ d.floor = cand.floor
      /\ \A n \in Ids : \/ d.jobs[n] = cand.jobs[n]
                        \/ n = i /\ cand.jobs[n].st = "none" /\ d.jobs[n] = archive[n]
  BY DEF Addressed, TypeOK, CoreType
<1>. HIDE DEF d
<1>3. \A n \in Ids : Alike(cand.jobs[n], d.jobs[n])
  BY <1>2 DEF Alike, ArchiveInv, Live
<1>4. Account(d) /\ Gains(cand, d)
  BY <1>1, <1>2, <1>3, QuietAccount
<1>. QED
  BY <1>4 DEF d

-----------------------------------------------------------------------------
(* The steps of the broker                                                 *)

(* A step that works on the candidate, from core c.                        *)
LEMMA ServiceCall ==
  ASSUME TypeOK, ServiceInv, NEW c \in CoreType, Account(c), Gains(disk, c), NEW t,
         cand' = Turn(Expire(c, t)), UNCHANGED <<disk, core>>
  PROVE  ServiceInv'
<1>. DEFINE d == Turn(Expire(c, t))
<1>1. d \in CoreType /\ Account(d) /\ Gains(c, d)
  BY ScheduleAccount
<1>. HIDE DEF d
<1>2. Gains(disk, d)
  BY <1>1, GainsTrans DEF TypeOK
<1>3. cand' = d
  BY DEF d
<1>. QED
  BY <1>1, <1>2, <1>3 DEF ServiceInv

(* A step that drops the candidate.                                        *)
LEMMA ServiceForget ==
  ASSUME TypeOK, ServiceInv, disk' = disk,
         \/ pc' = "poisoned" /\ core' = core /\ cand' = core
         \/ cand' = disk /\ core' = disk
  PROVE  ServiceInv'
<1>1. Gains(disk, disk)
  BY GainsSame DEF TypeOK
<1>2. CASE pc' = "poisoned" /\ core' = core /\ cand' = core
  BY <1>2 DEF ServiceInv
<1>3. CASE cand' = disk /\ core' = disk
  BY <1>1, <1>3 DEF ServiceInv
<1>. QED
  BY <1>2, <1>3

(* The candidate is an account ahead of the snapshot.                      *)
LEMMA CandidateAccount ==
  ASSUME TypeOK, SendInv, ServiceInv, pc # "poisoned"
  PROVE  /\ cand \in CoreType /\ disk \in CoreType /\ Account(cand) /\ Gains(disk, cand)
         /\ \A i \in Ids : /\ Addressed(i) \in CoreType
                           /\ Account(Addressed(i)) /\ Gains(disk, Addressed(i))
<1>1. cand \in CoreType /\ disk \in CoreType /\ Account(cand) /\ Gains(disk, cand)
  BY DEF TypeOK, ServiceInv
<1>2. ASSUME NEW i \in Ids
      PROVE  /\ Addressed(i) \in CoreType
             /\ Account(Addressed(i)) /\ Gains(disk, Addressed(i))
  <2>1. Addressed(i) \in CoreType /\ Account(Addressed(i)) /\ Gains(cand, Addressed(i))
    BY <1>1, AddressedType, AddressedAccount DEF SendInv
  <2>. QED
    BY <1>1, <2>1, GainsTrans
<1>. QED
  BY <1>1, <1>2

(* A call that turns the addressed core into d, which loses nothing.       *)
LEMMA RescheduleService ==
  ASSUME TypeOK, SendInv, ServiceInv, pc = "schedule", NEW i \in Ids, NEW d \in CoreType,
         Account(d), Gains(Addressed(i), d), Reschedule(d)
  PROVE  ServiceInv'
<1>1. /\ disk \in CoreType /\ Addressed(i) \in CoreType /\ Gains(disk, Addressed(i))
  BY CandidateAccount
<1>2. Gains(disk, d)
  BY <1>1, GainsTrans
<1>. QED
  BY <1>2, ServiceCall DEF Reschedule

LEMMA FinishService ==
  ASSUME TypeOK, SendInv, ServiceInv, NEW ctl, NEW i \in Ids, NEW lease, NEW out,
         Finish(ctl, i, lease, out)
  PROVE  ServiceInv'
<1>. DEFINE c == Addressed(i)
            j == c.jobs[i]
            e == Elapsed(j, out, now)
<1>1. /\ pc = "schedule" /\ c \in CoreType /\ Account(c)
  BY CandidateAccount DEF Finish, Settled
<1>2. \/ Reschedule(c)
      \/ EndReport(j, lease, out) /\ Reschedule(Completed(c, i, e, out))
      \/ UncertainReport(j, lease, out) /\ Reschedule(Unconfirmed(c, i))
  BY DEF Finish
<1>3. CASE Reschedule(c)
  BY <1>1, <1>3, GainsSame, RescheduleService
<1>4. CASE EndReport(j, lease, out) /\ Reschedule(Completed(c, i, e, out))
  <2>1. Holds(j) /\ out \in Outcomes
    BY <1>4 DEF EndReport, Holds, Crossed, Outcomes
  <2>2. j \in JobRecords
    BY <1>1, <2>1, JobForms DEF CoreType, Holds
  <2>3. e \in Nat
    BY <2>2, SatSubNat, ConfigAssumption DEF Elapsed, TypeOK, JobRecords
  <2>. HIDE DEF e
  <2>4. /\ Completed(c, i, e, out) \in CoreType /\ Account(Completed(c, i, e, out))
        /\ Gains(c, Completed(c, i, e, out))
    BY <1>1, <2>1, <2>3, CompletedType, CompletedAccount
  <2>. QED
    BY <1>1, <1>4, <2>4, RescheduleService
<1>5. CASE UncertainReport(j, lease, out) /\ Reschedule(Unconfirmed(c, i))
  BY <1>1, <1>5, UnconfirmedType, UnconfirmedAccount, RescheduleService DEF UncertainReport
<1>. QED
  BY <1>2, <1>3, <1>4, <1>5

LEMMA CallService ==
  ASSUME TypeOK, SendInv, ServiceInv, Call
  PROVE  ServiceInv'
<1>1. CASE Refuse
  BY <1>1, ServiceForget DEF Refuse, Settled, Discard, SendInv, PhaseInv
<1>2. ASSUME NEW r \in Requests, Enqueue(r[1], r[2], r[3], r[4])
      PROVE  ServiceInv'
  <2>1. r[1] \in Controllers /\ r[2] \in Ids /\ r[3] \in Bodies /\ r[4] \in Nat
    BY ConfigAssumption
  <2>. DEFINE c == Addressed(r[2])
              d == Admitted(c, r[1], r[2], r[3], r[4])
  <2>2. pc = "schedule" /\ c.jobs[r[2]].st = "none" /\ Reschedule(d)
    BY <1>2 DEF Enqueue, Settled
  <2>3. c \in CoreType /\ Account(c)
    BY <2>1, <2>2, CandidateAccount
  <2>4. d \in CoreType /\ Account(d) /\ Gains(c, d)
    BY <2>1, <2>2, <2>3, AdmittedType, AdmittedAccount
  <2>. HIDE DEF d
  <2>. QED
    BY <2>1, <2>2, <2>4, RescheduleService
<1>3. ASSUME NEW i \in Ids, pc = "schedule", Reschedule(Addressed(i))
      PROVE  ServiceInv'
  BY <1>3, CandidateAccount, GainsSame, RescheduleService
<1>4. ASSUME NEW r \in Requests, EnqueueAgain(r[1], r[2], r[3])
      PROVE  ServiceInv'
  BY <1>3, <1>4, ConfigAssumption DEF EnqueueAgain, Settled
<1>5. ASSUME NEW ctl \in Controllers, NEW i \in Ids, Inspect(ctl, i)
      PROVE  ServiceInv'
  BY <1>3, <1>5 DEF Inspect, Settled
<1>6. ASSUME NEW ctl \in Controllers, NEW i \in Ids, Cancel(ctl, i)
      PROVE  ServiceInv'
  <2>. DEFINE c == Addressed(i)
  <2>1. pc = "schedule" /\ Reschedule(Cancelled(c, i))
    BY <1>6 DEF Cancel, Settled
  <2>2. c \in CoreType /\ Account(c)
    BY <2>1, CandidateAccount
  <2>3. /\ Cancelled(c, i) \in CoreType /\ Account(Cancelled(c, i))
        /\ Gains(c, Cancelled(c, i))
    BY <2>2, CancelledType, CancelledAccount
  <2>. QED
    BY <2>1, <2>3, RescheduleService
<1>7. ASSUME NEW ctl \in Controllers, NEW i \in Ids, NEW lease, Dispatch(ctl, i, lease)
      PROVE  ServiceInv'
  <2>. DEFINE c == Addressed(i)
  <2>1. /\ pc = "schedule" /\ c.jobs[i].st = "placed" /\ now \in Nat
        /\ Reschedule(Dispatched(c, i, now))
    BY <1>7 DEF Dispatch, Settled, TypeOK
  <2>2. c \in CoreType /\ Account(c)
    BY <2>1, CandidateAccount
  <2>3. /\ Dispatched(c, i, now) \in CoreType /\ Account(Dispatched(c, i, now))
        /\ Gains(c, Dispatched(c, i, now))
    BY <2>1, <2>2, DispatchedType, DispatchedAccount
  <2>. QED
    BY <2>1, <2>3, RescheduleService
<1>. QED
  BY <1>1, <1>2, <1>4, <1>5, <1>6, <1>7, FinishService DEF Call

LEMMA OperatorService ==
  ASSUME TypeOK, SendInv, ServiceInv, Operator
  PROVE  ServiceInv'
<1>1. PICK t \in Times : \/ Status(t)
                         \/ \E enabled \in Drains : Drain(enabled, t)
                         \/ \E i \in Resolves : Resolve(i, t)
  BY DEF Operator
<1>2. t \in Nat /\ core \in CoreType /\ Account(core)
  BY ConfigAssumption DEF TypeOK, ServiceInv
<1>3. ASSUME NEW c \in CoreType, Account(c), Gains(core, c), Operate(c, t)
      PROVE  ServiceInv'
  <2>1. core = disk
    BY <1>3 DEF Operate, SendInv, PhaseInv
  <2>. QED
    BY <1>3, <2>1, ServiceCall DEF Operate
<1>4. CASE Status(t)
  BY <1>2, <1>3, <1>4, GainsSame DEF Status
<1>5. ASSUME NEW enabled \in Drains, Drain(enabled, t)
      PROVE  ServiceInv'
  <2>1. enabled \in BOOLEAN
    BY ConfigAssumption
  <2>. QED
    BY <1>2, <1>3, <1>5, <2>1, DrainingType, DrainingAccount DEF Drain
<1>6. ASSUME NEW i \in Resolves, Resolve(i, t)
      PROVE  ServiceInv'
  <2>1. i \in Ids
    BY ConfigAssumption
  <2>. QED
    BY <1>2, <1>3, <1>6, <2>1, ResolvedType, ResolvedAccount DEF Resolve
<1>. QED
  BY <1>1, <1>4, <1>5, <1>6

LEMMA PlaceService ==
  ASSUME TypeOK, SendInv, ServiceInv, PlaceNext
  PROVE  ServiceInv'
<1>1. PICK ch \in Best(cand) : /\ ~Overflows(cand, ch)
                               /\ cand' = Turn(Placed(cand, ch[1], ch[2], now))
  BY DEF PlaceNext
<1>2. /\ ch[1] \in Ids /\ ch[2] \in Backends /\ ch = <<ch[1], ch[2]>>
      /\ cand.jobs[ch[1]].st = "queued"
  BY DEF Best, Offers
<1>3. /\ cand \in CoreType /\ disk \in CoreType /\ Account(cand) /\ Gains(disk, cand)
      /\ now \in Nat
  BY CandidateAccount DEF PlaceNext, TypeOK
<1>. DEFINE d == Placed(cand, ch[1], ch[2], now)
<1>4. d \in CoreType /\ Account(d) /\ Gains(cand, d)
  BY <1>1, <1>2, <1>3, PlacedType, PlacedAccount
<1>. HIDE DEF d
<1>. DEFINE e == Turn(d)
<1>5. e \in CoreType /\ Account(e) /\ Gains(d, e)
  BY <1>4, TurnType, FloorAccount, GainsSame DEF Turn
<1>6. Gains(disk, d)
  BY <1>3, <1>4, GainsTrans
<1>7. Gains(disk, e)
  BY <1>3, <1>4, <1>5, <1>6, GainsTrans
<1>8. cand' = e /\ disk' = disk /\ core' = core
  BY <1>1 DEF PlaceNext, d
<1>. HIDE DEF e
<1>. QED
  BY <1>5, <1>7, <1>8 DEF ServiceInv

(* Publishing a receipt takes a terminal job out of the candidate.         *)
LEMMA ArchiveService ==
  ASSUME TypeOK, ServiceInv, NEW i \in Ids, ArchiveReceipt(i), TypeOK'
  PROVE  ServiceInv'
<1>. DEFINE d == [cand EXCEPT !.jobs[i] = NoJob]
<1>1. /\ cand.jobs[i].st = "terminal" /\ cand' = d /\ disk' = disk /\ core' = core
      /\ pc = "archive"
  BY DEF ArchiveReceipt, FirstTerminal, TerminalIds
<1>2. cand \in CoreType /\ disk \in CoreType /\ Account(cand) /\ Gains(disk, cand)
  BY <1>1 DEF TypeOK, ServiceInv
<1>3. /\ d.jobs = [cand.jobs EXCEPT ![i] = NoJob]
      /\ d.service = cand.service /\ d.floor = cand.floor
  BY <1>2 DEF CoreType
<1>4. d \in CoreType
  BY <1>2, JobForms DEF CoreType
<1>5. Alike(cand.jobs[i], NoJob)
  BY <1>1, JobForms DEF Alike, Live
<1>. HIDE DEF d
<1>6. Account(d) /\ Gains(cand, d)
  BY <1>2, <1>3, <1>4, <1>5, QuietOne
<1>7. Gains(disk, d)
  BY <1>2, <1>4, <1>6, GainsTrans
<1>. QED
  BY <1>1, <1>6, <1>7 DEF ServiceInv

(* The counters of a snapshot are not part of the accounts.                *)
LEMMA StampedAccount ==
  ASSUME TypeOK, Account(cand)
  PROVE  /\ Stamped(cand) \in CoreType /\ Account(Stamped(cand))
         /\ Gains(cand, Stamped(cand))
<1>. DEFINE d == Stamped(cand)
<1>1. /\ d \in CoreType /\ cand \in CoreType
      /\ d.jobs = cand.jobs /\ d.service = cand.service /\ d.floor = cand.floor
  BY DEF Stamped, TypeOK, CoreType
<1>. HIDE DEF d
<1>2. \A n \in Ids : Alike(cand.jobs[n], d.jobs[n])
  BY <1>1 DEF Alike
<1>3. Account(d) /\ Gains(cand, d)
  BY <1>1, <1>2, QuietAccount
<1>. QED
  BY <1>1, <1>3 DEF d

LEMMA SaveFailedService ==
  ASSUME TypeOK, ServiceInv, SaveFailed
  PROVE  ServiceInv'
<1>1. CASE opening
  BY <1>1, ServiceForget DEF SaveFailed, GoDown
<1>2. CASE ~opening
  BY <1>2, ServiceForget DEF SaveFailed
<1>. QED
  BY <1>1, <1>2

LEMMA SaveService ==
  ASSUME TypeOK, TypeOK', SendInv, ServiceInv, Save
  PROVE  ServiceInv'
<1>1. CASE SaveTerminal
  <2>1. /\ disk' = cand /\ cand' = cand /\ core' = core /\ cand \in CoreType
        /\ Account(cand) /\ Account(core)
    BY <1>1 DEF SaveTerminal, TypeOK, ServiceInv
  <2>2. Gains(cand, cand)
    BY <2>1, GainsSame
  <2>. QED
    BY <2>1, <2>2 DEF ServiceInv
<1>2. CASE Commit
  <2>. DEFINE d == Stamped(cand)
  <2>1. /\ disk' = d /\ core' = d /\ cand' = d
    BY <1>2 DEF Commit
  <2>2. d \in CoreType /\ Account(d)
    BY StampedAccount DEF ServiceInv
  <2>. HIDE DEF d
  <2>3. Gains(d, d)
    BY <2>2, GainsSame
  <2>. QED
    BY <2>1, <2>2, <2>3 DEF ServiceInv
<1>. QED
  BY <1>1, <1>2, ArchiveService, SaveFailedService DEF Save, ArchiveRefuses

(* Every step keeps the accounts in order.                                 *)
LEMMA ServiceStep ==
  ASSUME TypeOK, TypeOK', SendInv, ServiceInv, [Next]_vars
  PROVE  ServiceInv'
<1>1. ASSUME NEW t \in Times, Begin(t) PROVE ServiceInv'
  <2>1. /\ core = disk /\ core \in CoreType /\ Account(core)
        /\ cand' = Turn(Expire(core, t)) /\ disk' = disk /\ core' = core
    BY <1>1 DEF Begin, SendInv, PhaseInv, TypeOK, ServiceInv
  <2>. QED
    BY <2>1, GainsSame, ServiceCall
<1>2. CASE PlaceNext
  BY <1>2, PlaceService
<1>3. CASE PlaceOverflows
  BY <1>3, ServiceForget DEF PlaceOverflows, Discard, SendInv, PhaseInv
<1>4. CASE Call
  BY <1>4, CallService
<1>5. CASE Operator
  BY <1>5, OperatorService
<1>6. CASE Unchanged
  BY <1>6, ServiceForget DEF Unchanged, Settled, Discard, SendInv, PhaseInv
<1>7. CASE Save
  BY <1>7, SaveService
<1>8. CASE WriteFails
  BY <1>8, SaveFailedService DEF WriteFails
<1>9. CASE Crash
  BY <1>9, ServiceForget DEF Crash, GoDown
<1>10. CASE Stop
  BY <1>10, ServiceForget DEF Stop, GoDown
<1>11. CASE Open
  <2>1. /\ disk' = disk /\ core' = disk /\ cand' = Recovered(disk)
        /\ disk \in CoreType /\ Account(disk)
    BY <1>11 DEF Open, TypeOK, ServiceInv
  <2>. DEFINE d == Recovered(disk)
  <2>2. Account(d) /\ Gains(disk, d)
    BY <2>1, RecoveredAccount
  <2>. HIDE DEF d
  <2>3. cand' = d
    BY <2>1 DEF d
  <2>. QED
    BY <2>1, <2>2, <2>3 DEF ServiceInv
<1>12. CASE UNCHANGED vars
  BY <1>12 DEF vars, ServiceInv
<1>. QED
  BY <1>1, <1>2, <1>3, <1>4, <1>5, <1>6, <1>7, <1>8, <1>9, <1>10, <1>11, <1>12
     DEF Next, Fault

(* What a save puts into the snapshot takes no service back.               *)
LEMMA SavedGains ==
  ASSUME TypeOK, SendInv, ServiceInv, [Next]_vars
  PROVE  \E d \in CoreType : disk' = d /\ Gains(disk, d)
<1>1. disk \in CoreType /\ Gains(disk, disk)
  BY GainsSame DEF TypeOK
<1>2. CASE SaveTerminal
  BY <1>2, CandidateAccount DEF SaveTerminal, ToSave, Settled
<1>3. CASE Commit
  <2>1. pc # "poisoned" /\ disk' = Stamped(cand)
    BY <1>3 DEF Commit, ToSave, Settled
  <2>2. cand \in CoreType /\ disk \in CoreType /\ Account(cand) /\ Gains(disk, cand)
    BY <2>1, CandidateAccount
  <2>3. Stamped(cand) \in CoreType /\ Gains(cand, Stamped(cand))
    BY <2>2, StampedAccount
  <2>4. Gains(disk, Stamped(cand))
    BY <2>2, <2>3, GainsTrans
  <2>. QED
    BY <2>1, <2>3, <2>4
<1>4. CASE disk' = disk
  BY <1>1, <1>4
<1>5. disk' = disk \/ SaveTerminal \/ Commit
  BY DEF Next, Begin, PlaceNext, PlaceOverflows, Call, Operator, Unchanged, Save, Fault,
         Stop, Open, Refuse, Enqueue, EnqueueAgain, Inspect, Dispatch, Finish, Cancel,
         Status, Drain, Resolve, Operate, Reschedule, Discard, ArchiveReceipt,
         ArchiveRefuses, SaveFailed, GoDown, WriteFails, Crash, vars
<1>. QED
  BY <1>2, <1>3, <1>4, <1>5

-----------------------------------------------------------------------------
(* The accounts of the broker are always in order, in the snapshot, in     *)
(* memory and in the candidate.                                            *)
THEOREM ServiceInvariant == Spec => []ServiceInv
<1>1. Init => ServiceInv
  <2>. SUFFICES ASSUME Init PROVE ServiceInv
    OBVIOUS
  <2>. DEFINE c == NewCore
  <2>1. disk = c /\ core = c /\ cand = c
    BY DEF Init
  <2>2. /\ c.jobs = [i \in Ids |-> NoJob] /\ c.service = [p \in Principals |-> 0]
        /\ c.floor = 0
    BY DEF NewCore
  <2>3. c \in CoreType
    BY JobForms DEF NewCore, CoreType
  <2>. HIDE DEF c
  <2>4. \A i \in Ids : c.jobs[i].st = "none"
    BY <2>2, JobForms
  <2>5. \A p \in Principals : Reserved(c, p) = 0
    <3>. SUFFICES ASSUME NEW p \in Principals PROVE Reserved(c, p) = 0
      OBVIOUS
    <3>1. ActiveOf(c, p) = {}
      BY <2>4 DEF ActiveOf, Holds
    <3>2. Priced(c.jobs, ActiveOf(c, p))
      BY <2>3, CorePriced DEF ActiveOf
    <3>. QED
      BY <3>1, <3>2, SumStep DEF Reserved
  <2>6. Members(c) = {}
    BY <2>4 DEF Members, LiveIds, Live
  <2>7. Account(c)
    BY <2>2, <2>3, <2>4, <2>5, <2>6, AccountForm, ConfigAssumption
  <2>8. Gains(c, c)
    BY <2>3, GainsSame
  <2>. QED
    BY <2>1, <2>7, <2>8 DEF ServiceInv
<1>. QED
  BY <1>1, ServiceStep, TypeCorrect, SendInvariant, PTL DEF Spec

(* A refund gives back exactly what a placement reserved: the saturating   *)
(* subtraction of credit() never clamps, in any configuration and after    *)
(* any number of restarts.                                                 *)
THEOREM RefundsAreCovered == Spec => []RefundsCovered
<1>1. ServiceInv => RefundsCovered
  BY DEF ServiceInv, Account, RefundsCovered
<1>. QED
  BY <1>1, ServiceInvariant, PTL

(* Idle time buys no preference: no member with live work has used less    *)
(* than the virtual floor.                                                 *)
THEOREM IdleBuysNothing == Spec => []NoCatchUp
<1>1. TypeOK /\ ServiceInv => NoCatchUp
  <2>. SUFFICES ASSUME TypeOK, ServiceInv, NEW c \in {disk, core, cand}, NEW p \in Members(c)
                PROVE  Committed(c, p) >= c.floor
    BY DEF NoCatchUp
  <2>1. c \in CoreType /\ Account(c)
    BY DEF TypeOK, ServiceInv
  <2>2. c.floor <= Committed(c, p) /\ c.floor \in Nat
    BY <2>1 DEF Account, CoreType
  <2>3. Committed(c, p) \in Nat
    BY <2>1, MembersType, AccountForm
  <2>. QED
    BY <2>2, <2>3
<1>. QED
  BY <1>1, TypeCorrect, ServiceInvariant, PTL

(* Used service and the floor never fall in the snapshot, also when a      *)
(* restart undoes placements.                                              *)
THEOREM ServiceNeverFalls == Spec => ServiceMonotone
<1>1. TypeOK /\ SendInv /\ ServiceInv /\ [Next]_vars =>
        [/\ disk'.floor >= disk.floor
         /\ \A p \in Principals : Committed(disk', p) >= Committed(disk, p)]_vars
  <2>. SUFFICES ASSUME TypeOK, SendInv, ServiceInv, [Next]_vars
                PROVE  /\ disk'.floor >= disk.floor
                       /\ \A p \in Principals : Committed(disk', p) >= Committed(disk, p)
    OBVIOUS
  <2>1. PICK d \in CoreType : disk' = d /\ Gains(disk, d)
    BY SavedGains
  <2>2. disk \in CoreType /\ disk.floor \in Nat /\ d.floor \in Nat
    BY DEF TypeOK, CoreType
  <2>3. \A p \in Principals : Committed(disk, p) \in Nat /\ Committed(d, p) \in Nat
    BY <2>2, AccountForm
  <2>4. /\ d.floor >= disk.floor
        /\ \A p \in Principals : Committed(d, p) >= Committed(disk, p)
    BY <2>1, <2>2, <2>3 DEF Gains
  <2>. QED
    BY <2>1, <2>4
<1>. QED
  BY <1>1, TypeCorrect, SendInvariant, ServiceInvariant, PTL DEF Spec, ServiceMonotone
=============================================================================
