----------------------- MODULE BalancedResearchProofs -----------------------
(***************************************************************************)
(* Proofs about BalancedResearch and ShadowGraph: types are right, every   *)
(* minute of a plan is accounted for, the engine follows the registered    *)
(* topology, and its shadow in the audit log tells the same.               *)
(*                                                                         *)
(* All but the first rest on one inductive invariant, ResearchInv.         *)
(* TypeInv ties requests, transactions and passes to plans; PlanInv        *)
(* relates the four things one step writes: what a request has read, the   *)
(* rows of a plan, the passes of a row by generation, and what an open     *)
(* transaction will commit; BudgetRespected sums the rows.  ShadowInv adds *)
(* what each of these leaves in the trace.                                 *)
(*                                                                         *)
(* They assume that the operator's requests come one at a time             *)
(* (OneRequest) and that no exception is resolved for a pass that goes on  *)
(* (MaxReopens = 0): two confirmations of one plan, or a pass queued again *)
(* while another worker reconciles it, give a target two passes.           *)
(*                                                                         *)
(* The module opens with what SumFunctionOnSet of the community modules    *)
(* computes.  It is defined by recursion over the subsets of its indices,  *)
(* so each fact is proved by induction; the induction is over a set of     *)
(* numbers that holds 0 and, with each number, the next, which is all of   *)
(* Nat because what it lacks would have a least element.                   *)
(***************************************************************************)
EXTENDS ShadowGraph, FiniteSetTheorems, SequenceTheorems, WellFoundedInduction, TLAPS

(* Every set of numbers that is not empty has a least one.                 *)
LEMMA LeastNumber ==
    ASSUME NEW T \in SUBSET Nat, T # {}
    PROVE  \E n \in T : \A m \in T : n <= m
<1> DEFINE R == OpToRel(<, Nat)
<1>1. IsWellFoundedOn(R, Nat)
  BY NatLessThanWellFounded
<1>2. \A m, n \in Nat : m < n => <<m, n>> \in R
  BY DEF OpToRel
<1> HIDE DEF R
<1>3. PICK n \in T : \A m \in T : ~(<<m, n>> \in R)
  BY <1>1, WFMin
<1>4. n \in Nat /\ \A m \in T : m \in Nat /\ ~(m < n)
  BY <1>2, <1>3
<1>5. \A m \in T : n <= m
  BY <1>4
<1>6. QED
  BY <1>3, <1>5

(* Induction, over a set of numbers instead of a predicate.                *)
LEMMA NumbersBySteps ==
    ASSUME NEW T, 0 \in T, \A n \in Nat : n \in T => n + 1 \in T
    PROVE  Nat \subseteq T
<1> SUFFICES ASSUME ~(Nat \subseteq T) PROVE FALSE
  OBVIOUS
<1>0. Nat \ T # {} /\ Nat \ T \in SUBSET Nat
  OBVIOUS
<1>1. PICK n \in Nat \ T : \A m \in Nat \ T : n <= m
  BY <1>0, LeastNumber
<1>2. n # 0 /\ n - 1 \in Nat /\ n - 1 \in T
  BY <1>1
<1>3. QED
  BY <1>1, <1>2

(* The element the recursion takes out of a set, and its equation.         *)
Pick(s) == CHOOSE x \in s : TRUE
Rest(s) == s \ {Pick(s)}
SumsUp(f, g, D) == g = [s \in D |-> IF s = {} THEN 0 ELSE f[Pick(s)] + g[Rest(s)]]

(* Picking a member of a finite set leaves a smaller one.                  *)
LEMMA PickLeavesLess ==
    ASSUME NEW s, IsFiniteSet(s), s # {}
    PROVE  /\ Pick(s) \in s /\ Rest(s) \subseteq s /\ IsFiniteSet(Rest(s))
           /\ Cardinality(s) \in Nat \ {0}
           /\ Cardinality(Rest(s)) = Cardinality(s) - 1
<1>1. Pick(s) \in s
  BY DEF Pick
<1>2. Cardinality(s) \in Nat /\ Cardinality(s) # 0
  BY FS_CardinalityType, FS_EmptySet
<1>3. QED
  BY <1>1, <1>2, FS_RemoveElement DEF Rest

(* The recursion has a solution over the subsets of a finite set: one over *)
(* the subsets of up to n elements gives one over those of up to n + 1.    *)
LEMMA SumExists ==
    ASSUME NEW f, NEW S, IsFiniteSet(S)
    PROVE  \E g : SumsUp(f, g, SUBSET S)
<1> DEFINE D(n) == {s \in SUBSET S : Cardinality(s) <= n}
           T == {n \in Nat : \E g : SumsUp(f, g, D(n))}
<1>0. \A s \in SUBSET S : IsFiniteSet(s) /\ Cardinality(s) \in Nat
  BY FS_Subset, FS_CardinalityType
<1>1. 0 \in T
  <2>1. D(0) = {{}}
    BY <1>0, FS_EmptySet
  <2>2. SumsUp(f, [s \in D(0) |-> 0], D(0))
    BY <2>1 DEF SumsUp
  <2>3. QED
    BY <2>2
<1>2. ASSUME NEW n \in Nat, n \in T PROVE n + 1 \in T
  <2>1. PICK g : SumsUp(f, g, D(n))
    BY <1>2
  <2> DEFINE h == [s \in D(n + 1) |-> IF s = {} THEN 0 ELSE f[Pick(s)] + g[Rest(s)]]
  <2>2. \A s \in D(n) : s \in D(n + 1) /\ h[s] = g[s]
    BY <1>0, <2>1 DEF SumsUp
  <2>3. \A s \in D(n + 1) : s # {} => Rest(s) \in D(n)
    BY <1>0, PickLeavesLess
  <2>4. \A s \in D(n + 1) : s # {} => h[Rest(s)] = g[Rest(s)]
    BY <2>2, <2>3
  <2>5. SumsUp(f, h, D(n + 1))
    BY <2>4 DEF SumsUp
  <2>6. QED
    BY <2>5
<1> HIDE DEF T
<1>3. Nat \subseteq T
  BY <1>1, <1>2, NumbersBySteps
<1> USE DEF T
<1>4. Cardinality(S) \in Nat /\ Cardinality(S) \in T
  BY <1>3, FS_CardinalityType
<1>5. D(Cardinality(S)) = SUBSET S
  BY <1>0, FS_Subset
<1>6. QED
  BY <1>4, <1>5

(* ... and only one.                                                       *)
LEMMA SumUnique ==
    ASSUME NEW f, NEW S, IsFiniteSet(S), NEW T \in SUBSET S, NEW g, NEW h,
           SumsUp(f, g, SUBSET S), SumsUp(f, h, SUBSET T)
    PROVE  \A s \in SUBSET T : g[s] = h[s]
<1> DEFINE N == {n \in Nat : \A s \in SUBSET T : Cardinality(s) = n => g[s] = h[s]}
<1>0. \A s \in SUBSET T : IsFiniteSet(s) /\ Cardinality(s) \in Nat /\ s \in SUBSET S
  BY FS_Subset, FS_CardinalityType
<1>1. 0 \in N
  <2>1. \A s \in SUBSET T : Cardinality(s) = 0 => s = {}
    BY <1>0, FS_EmptySet
  <2>2. g[{}] = h[{}]
    BY DEF SumsUp
  <2>3. QED
    BY <2>1, <2>2
<1>2. ASSUME NEW n \in Nat, n \in N PROVE n + 1 \in N
  <2> SUFFICES ASSUME NEW s \in SUBSET T, Cardinality(s) = n + 1 PROVE g[s] = h[s]
    OBVIOUS
  <2>1. s # {} /\ IsFiniteSet(s)
    BY <1>0, FS_EmptySet
  <2>2. Rest(s) \in SUBSET T /\ Cardinality(Rest(s)) = n
    BY <2>1, PickLeavesLess
  <2>3. g[Rest(s)] = h[Rest(s)]
    BY <1>2, <2>2
  <2>4. g[s] = f[Pick(s)] + g[Rest(s)]
    BY <1>0, <2>1 DEF SumsUp
  <2>5. h[s] = f[Pick(s)] + h[Rest(s)]
    BY <2>1 DEF SumsUp
  <2>6. QED
    BY <2>3, <2>4, <2>5
<1> HIDE DEF N
<1>3. Nat \subseteq N
  BY <1>1, <1>2, NumbersBySteps
<1> USE DEF N
<1>4. QED
  BY <1>0, <1>3

(* SumFunctionOnSet is the value of that solution.                         *)
LEMMA SumExpand ==
    ASSUME NEW f, NEW S
    PROVE  SumFunctionOnSet(f, S) = (CHOOSE g : SumsUp(f, g, SUBSET S))[S]
BY DEF SumFunctionOnSet, FoldFunctionOnSet, MapThenFoldSet, SumsUp, Pick, Rest

(* The value of such a table at a set is the sum over that set.            *)
LEMMA SumValue ==
    ASSUME NEW f, NEW S, IsFiniteSet(S), NEW T \in SUBSET S, NEW g, SumsUp(f, g, SUBSET S)
    PROVE  g[T] = SumFunctionOnSet(f, T)
<1> DEFINE h == CHOOSE k : SumsUp(f, k, SUBSET T)
<1>1. IsFiniteSet(T)
  BY FS_Subset
<1>2. SumsUp(f, h, SUBSET T)
  BY <1>1, SumExists
<1>3. SumFunctionOnSet(f, T) = h[T]
  BY SumExpand
<1> HIDE DEF h
<1>4. g[T] = h[T]
  BY SMTT(30), <1>2, SumUnique
<1>5. QED
  BY <1>3, <1>4

(* A sum over nothing is 0; another is the sum over all but one element.   *)
LEMMA SumEmpty == \A f : SumFunctionOnSet(f, {}) = 0
<1> TAKE f
<1>1. PICK g : SumsUp(f, g, SUBSET {})
  BY SumExists, FS_EmptySet
<1>2. g[{}] = SumFunctionOnSet(f, {})
  BY <1>1, SumValue, FS_EmptySet
<1>3. QED
  BY <1>1, <1>2 DEF SumsUp

(* The sum over a set is a member's value and the sum of the rest.         *)
LEMMA SumStep ==
    ASSUME NEW f, NEW S, IsFiniteSet(S), S # {}
    PROVE  SumFunctionOnSet(f, S) = f[Pick(S)] + SumFunctionOnSet(f, Rest(S))
<1>1. PICK g : SumsUp(f, g, SUBSET S)
  BY SumExists
<1>2. Rest(S) \in SUBSET S /\ S \in SUBSET S
  BY DEF Rest
<1>3. g[S] = SumFunctionOnSet(f, S) /\ g[Rest(S)] = SumFunctionOnSet(f, Rest(S))
  BY <1>1, <1>2, SumValue
<1>4. g[S] = f[Pick(S)] + g[Rest(S)]
  BY <1>1, <1>2 DEF SumsUp
<1>5. QED
  BY <1>3, <1>4

(* Induction over the number of elements of a finite set.                  *)
LEMMA SetsBySize ==
    ASSUME NEW S, IsFiniteSet(S), NEW Good, {} \in Good,
           \A s \in SUBSET S : s # {} /\ Rest(s) \in Good => s \in Good
    PROVE  S \in Good
<1> DEFINE N == {n \in Nat : \A s \in SUBSET S : Cardinality(s) = n => s \in Good}
<1>0. \A s \in SUBSET S : IsFiniteSet(s) /\ Cardinality(s) \in Nat
  BY FS_Subset, FS_CardinalityType
<1>1. 0 \in N
  BY <1>0, FS_EmptySet
<1>2. ASSUME NEW n \in Nat, n \in N PROVE n + 1 \in N
  <2> SUFFICES ASSUME NEW s \in SUBSET S, Cardinality(s) = n + 1 PROVE s \in Good
    OBVIOUS
  <2>1. s # {} /\ IsFiniteSet(s)
    BY <1>0, FS_EmptySet
  <2>2. Rest(s) \in SUBSET S /\ Cardinality(Rest(s)) = n
    BY <2>1, PickLeavesLess
  <2>3. QED
    BY <1>2, <2>1, <2>2
<1> HIDE DEF N
<1>3. Nat \subseteq N
  BY <1>1, <1>2, NumbersBySteps
<1> USE DEF N
<1>4. QED
  BY <1>0, <1>3

(* A sum of numbers is a number.                                           *)
LEMMA SumIsInt ==
    ASSUME NEW S, IsFiniteSet(S), NEW f, \A x \in S : f[x] \in Int
    PROVE  SumFunctionOnSet(f, S) \in Int
<1> DEFINE Good == {s \in SUBSET S : SumFunctionOnSet(f, s) \in Int}
<1>1. {} \in Good
  BY SumEmpty
<1>2. ASSUME NEW s \in SUBSET S, s # {}, Rest(s) \in Good PROVE s \in Good
  <2>1. IsFiniteSet(s)
    BY FS_Subset
  <2>2. SumFunctionOnSet(f, s) = f[Pick(s)] + SumFunctionOnSet(f, Rest(s))
    BY <1>2, <2>1, SumStep
  <2>3. Pick(s) \in S
    BY <1>2, <2>1, PickLeavesLess
  <2>4. QED
    BY <1>2, <2>2, <2>3
<1> HIDE DEF Good
<1>3. S \in Good
  BY <1>1, <1>2, SetsBySize
<1>4. QED
  BY <1>3 DEF Good

(* Zeros sum up to zero.                                                   *)
LEMMA SumZero ==
    ASSUME NEW S, IsFiniteSet(S), NEW f, \A x \in S : f[x] = 0
    PROVE  SumFunctionOnSet(f, S) = 0
<1> DEFINE Good == {s \in SUBSET S : SumFunctionOnSet(f, s) = 0}
<1>1. {} \in Good
  BY SumEmpty
<1>2. ASSUME NEW s \in SUBSET S, s # {}, Rest(s) \in Good PROVE s \in Good
  <2>1. IsFiniteSet(s)
    BY FS_Subset
  <2>2. SumFunctionOnSet(f, s) = f[Pick(s)] + SumFunctionOnSet(f, Rest(s))
    BY <1>2, <2>1, SumStep
  <2>3. Pick(s) \in S
    BY <1>2, <2>1, PickLeavesLess
  <2>4. QED
    BY <1>2, <2>2, <2>3
<1> HIDE DEF Good
<1>3. S \in Good
  BY <1>1, <1>2, SetsBySize
<1>4. QED
  BY <1>3 DEF Good

(* Less to add makes no more, and the same makes the same.                 *)
LEMMA SumAtMost ==
    ASSUME NEW S, IsFiniteSet(S), NEW f, NEW g,
           \A x \in S : f[x] \in Int /\ g[x] \in Int /\ f[x] <= g[x]
    PROVE  SumFunctionOnSet(f, S) <= SumFunctionOnSet(g, S)
<1> DEFINE Good == {s \in SUBSET S : SumFunctionOnSet(f, s) <= SumFunctionOnSet(g, s)}
<1>1. {} \in Good
  BY SumEmpty
<1>2. ASSUME NEW s \in SUBSET S, s # {}, Rest(s) \in Good PROVE s \in Good
  <2>1. IsFiniteSet(s) /\ Rest(s) \in SUBSET S
    BY <1>2, FS_Subset
  <2>2. /\ SumFunctionOnSet(f, s) = f[Pick(s)] + SumFunctionOnSet(f, Rest(s))
        /\ SumFunctionOnSet(g, s) = g[Pick(s)] + SumFunctionOnSet(g, Rest(s))
    BY <1>2, <2>1, SumStep
  <2>3. Pick(s) \in S
    BY <1>2, <2>1, PickLeavesLess
  <2>4. IsFiniteSet(Rest(s)) /\ \A x \in Rest(s) : f[x] \in Int /\ g[x] \in Int
    BY <2>1, FS_Subset
  <2>5. SumFunctionOnSet(f, Rest(s)) \in Int /\ SumFunctionOnSet(g, Rest(s)) \in Int
    BY <2>4, SumIsInt
  <2>6. SumFunctionOnSet(f, Rest(s)) <= SumFunctionOnSet(g, Rest(s))
    BY <1>2
  <2>7. f[Pick(s)] <= g[Pick(s)] /\ f[Pick(s)] \in Int /\ g[Pick(s)] \in Int
    BY <2>3
  <2>8. SumFunctionOnSet(f, s) <= SumFunctionOnSet(g, s)
    BY <2>2, <2>5, <2>6, <2>7
  <2>9. QED
    BY <2>8
<1> HIDE DEF Good
<1>3. S \in Good
  BY <1>1, <1>2, SetsBySize
<1>4. QED
  BY <1>3 DEF Good

(* Functions that agree on a set have the same sum.                        *)
LEMMA SumSame ==
    ASSUME NEW S, IsFiniteSet(S), NEW f, NEW g, \A x \in S : f[x] \in Int /\ f[x] = g[x]
    PROVE  SumFunctionOnSet(f, S) = SumFunctionOnSet(g, S)
<1>1. /\ SumFunctionOnSet(f, S) <= SumFunctionOnSet(g, S)
      /\ SumFunctionOnSet(g, S) <= SumFunctionOnSet(f, S)
  BY SumAtMost
<1>2. SumFunctionOnSet(f, S) \in Int /\ SumFunctionOnSet(g, S) \in Int
  BY SumIsInt
<1>3. QED
  BY <1>1, <1>2

(* Two functions that differ in one element have sums that differ by it.   *)
LEMMA SumChanged ==
    ASSUME NEW S, IsFiniteSet(S), NEW f, NEW g, NEW y \in S,
           \A x \in S : f[x] \in Int /\ g[x] \in Int,
           \A x \in S : x # y => f[x] = g[x]
    PROVE  SumFunctionOnSet(g, S) = SumFunctionOnSet(f, S) + (g[y] - f[y])
<1> DEFINE F(s) == SumFunctionOnSet(f, s)
           G(s) == SumFunctionOnSet(g, s)
           Good == {s \in SUBSET S : G(s) = F(s) + (IF y \in s THEN g[y] - f[y] ELSE 0)}
<1>1. {} \in Good
  BY SumEmpty
<1>2. ASSUME NEW s \in SUBSET S, s # {}, Rest(s) \in Good PROVE s \in Good
  <2>1. IsFiniteSet(s) /\ Rest(s) \in SUBSET S
    BY <1>2, FS_Subset
  <2>2. F(s) = f[Pick(s)] + F(Rest(s)) /\ G(s) = g[Pick(s)] + G(Rest(s))
    BY <1>2, <2>1, SumStep
  <2>3. Pick(s) \in s
    BY <1>2, <2>1, PickLeavesLess
  <2>4. IsFiniteSet(Rest(s)) /\ \A x \in Rest(s) : f[x] \in Int /\ g[x] \in Int
    BY <2>1, FS_Subset
  <2>5. F(Rest(s)) \in Int /\ G(Rest(s)) \in Int
    BY <2>4, SumIsInt
  <2>6. G(Rest(s)) = F(Rest(s)) + (IF y \in Rest(s) THEN g[y] - f[y] ELSE 0)
    BY <1>2
  <2>7. y \in s <=> y = Pick(s) \/ y \in Rest(s)
    BY <2>3 DEF Rest
  <2>8. y = Pick(s) => y \notin Rest(s)
    BY DEF Rest
  <2>9. /\ f[Pick(s)] \in Int /\ g[Pick(s)] \in Int /\ f[y] \in Int /\ g[y] \in Int
        /\ Pick(s) # y => f[Pick(s)] = g[Pick(s)]
    BY <2>3
  <2> HIDE DEF F, G
  <2>10. G(s) = F(s) + (IF y \in s THEN g[y] - f[y] ELSE 0)
    <3>1. CASE y = Pick(s)
      BY <2>2, <2>5, <2>6, <2>7, <2>8, <2>9, <3>1
    <3>2. CASE y # Pick(s)
      BY <2>2, <2>5, <2>6, <2>7, <2>9, <3>2
    <3>3. QED
      BY <3>1, <3>2
  <2>11. QED
    BY <2>10
<1> HIDE DEF Good
<1>3. S \in Good
  BY <1>1, <1>2, SetsBySize
<1>4. QED
  BY <1>3 DEF Good
(* The sum of two functions is the sum of their sums.                      *)
LEMMA SumPlus ==
    ASSUME NEW S, IsFiniteSet(S), NEW f, NEW g, NEW h,
           \A x \in S : f[x] \in Int /\ g[x] \in Int /\ h[x] = f[x] + g[x]
    PROVE  SumFunctionOnSet(h, S) = SumFunctionOnSet(f, S) + SumFunctionOnSet(g, S)
<1> DEFINE F(s) == SumFunctionOnSet(f, s)
           G(s) == SumFunctionOnSet(g, s)
           H(s) == SumFunctionOnSet(h, s)
           Good == {s \in SUBSET S : H(s) = F(s) + G(s)}
<1>1. {} \in Good
  BY SumEmpty
<1>2. ASSUME NEW s \in SUBSET S, s # {}, Rest(s) \in Good PROVE s \in Good
  <2>1. IsFiniteSet(s) /\ Rest(s) \in SUBSET S
    BY <1>2, FS_Subset DEF Rest
  <2>2. /\ F(s) = f[Pick(s)] + F(Rest(s)) /\ G(s) = g[Pick(s)] + G(Rest(s))
        /\ H(s) = h[Pick(s)] + H(Rest(s))
    BY <1>2, <2>1, SumStep
  <2>3. F(Rest(s)) \in Int /\ G(Rest(s)) \in Int
    <3>1. IsFiniteSet(Rest(s)) /\ \A x \in Rest(s) : f[x] \in Int /\ g[x] \in Int
      BY <2>1, FS_Subset
    <3>2. QED
      BY <3>1, SumIsInt
  <2>4. Pick(s) \in S
    BY <1>2, <2>1, PickLeavesLess
  <2>5. H(Rest(s)) = F(Rest(s)) + G(Rest(s))
    BY <1>2
  <2> HIDE DEF F, G, H
  <2>6. H(s) = F(s) + G(s)
    BY <2>2, <2>3, <2>4, <2>5
  <2>7. QED
    BY <1>2, <2>6
<1> HIDE DEF Good
<1>3. S \in Good
  BY <1>1, <1>2, SetsBySize
<1>4. QED
  BY <1>3 DEF Good
-----------------------------------------------------------------------------
(* What the assumption says of the numbers.                                *)
LEMMA Numbers ==
    /\ {TotalTime, CandidateGoal, Retain, MaxLeases, Required, Overrun, MaxPlans} \subseteq Nat
    /\ {LeaseTime, MaxParallel, MaxAttempts} \subseteq Nat \ {0}
    /\ IsFiniteSet(Targets) /\ Cardinality(Targets) \in Nat \ {0}
    /\ Targets = 1..Cardinality(Targets) /\ 1 \in Targets /\ Targets \subseteq Nat
<1>1. IsFiniteSet(Targets) /\ Cardinality(Targets) \in Nat \ {0}
  BY FS_CardinalityType, FS_EmptySet, ResearchAssumption
<1>2. Targets = 1..Cardinality(Targets)
  BY ResearchAssumption
<1>3. 1 \in Targets /\ Targets \subseteq Nat
  BY <1>1, <1>2
<1>4. QED
  BY <1>1, <1>2, <1>3, ResearchAssumption

(* Division with remainder.                                                *)
LEMMA Division ==
    ASSUME NEW a \in Nat, NEW n \in Nat \ {0}
    PROVE  /\ a \div n \in Nat /\ a % n \in Nat /\ a % n < n
           /\ a = n * (a \div n) + (a % n)
<1>1. a \div n \in Int /\ a % n \in 0..(n-1)
  OBVIOUS
<1>2. a = n * (a \div n) + (a % n)
  OBVIOUS
<1>3. QED
  BY <1>1, <1>2

(* The guaranteed part is no more than the total.                          *)
LEMMA GuaranteedTyped ==
    ASSUME NEW total \in Nat
    PROVE  /\ GuaranteedTotal(total) \in Nat /\ GuaranteedTotal(total) <= total
           /\ \A x \in Targets : SplitInteger(GuaranteedTotal(total), x) \in Nat
<1>1. (4 * total) \div 5 \in Nat /\ (4 * total) \div 5 <= total
  OBVIOUS
<1>2. GuaranteedTotal(total) \in Nat /\ GuaranteedTotal(total) <= total
  BY <1>1 DEF GuaranteedTotal
<1>3. GuaranteedTotal(total) \div Cardinality(Targets) \in Nat
  BY <1>2, Division, Numbers
<1>4. QED
  BY <1>2, <1>3 DEF SplitInteger

(* Changing one target's value changes the sum by as much.                 *)
LEMMA TargetsChanged ==
    ASSUME NEW f, NEW g, NEW x \in Targets,
           \A y \in Targets : f[y] \in Int /\ g[y] \in Int,
           \A y \in Targets : y # x => f[y] = g[y]
    PROVE  SumFunctionOnSet(g, Targets) = SumFunctionOnSet(f, Targets) + (g[x] - f[x])
<1>1. IsFiniteSet(Targets)
  BY Numbers
<1>2. QED
  BY <1>1, SumChanged

(* Splitting a number over the targets gives all of it away, to the last   *)
(* unit: the first k targets get k floors and as much of the remainder as  *)
(* there are of them.                                                      *)
LEMMA SplitAll ==
    ASSUME NEW total \in Nat, NEW share, share = [x \in Targets |-> SplitInteger(total, x)]
    PROVE  SumFunctionOnSet(share, Targets) = total
<1> DEFINE n == Cardinality(Targets)
           q == total \div n
           r == total % n
           f(k) == [x \in Targets |-> IF x <= k THEN share[x] ELSE 0]
           sum(k) == SumFunctionOnSet(f(k), Targets)
           T == {k \in Nat : k <= n => sum(k) = k * q + (IF k <= r THEN k ELSE r)}
<1>1. /\ n \in Nat \ {0} /\ q \in Nat /\ r \in Nat /\ r < n /\ total = n * q + r
      /\ IsFiniteSet(Targets) /\ Targets = 1..n
  BY Numbers, Division
<1>2. \A x \in Targets : x \in Nat /\ share[x] = q + (IF x <= r THEN 1 ELSE 0)
  <2>1. \A x \in Targets : share[x] = SplitInteger(total, x)
    OBVIOUS
  <2>2. \A x \in Targets : SplitInteger(total, x) = q + (IF x <= r THEN 1 ELSE 0)
    BY Zenon DEF SplitInteger
  <2> HIDE DEF n, q, r
  <2>3. QED
    BY <2>1, <2>2, Numbers
<1> HIDE DEF n, q, r
<1>3. \A k \in Nat, x \in Targets : f(k)[x] \in Int
  BY <1>1, <1>2
<1>4. 0 \in T
  <2>1. \A x \in Targets : f(0)[x] = 0
    BY <1>1
  <2>2. sum(0) = 0
    BY <1>1, <2>1, SumZero
  <2>3. QED
    BY <1>1, <2>2
<1>5. ASSUME NEW k \in Nat, k \in T PROVE k + 1 \in T
  <2> SUFFICES ASSUME k + 1 <= n
               PROVE  sum(k + 1) = (k + 1) * q + (IF k + 1 <= r THEN k + 1 ELSE r)
    OBVIOUS
  <2>1. k + 1 \in Targets /\ sum(k) = k * q + (IF k <= r THEN k ELSE r)
    BY <1>1, <1>5
  <2>2. \A x \in Targets : x # k + 1 => f(k)[x] = f(k + 1)[x]
    BY <1>1
  <2>3. \A x \in Targets : f(k)[x] \in Int /\ f(k + 1)[x] \in Int
    BY <1>3
  <2>4. f(k)[k + 1] = 0 /\ f(k + 1)[k + 1] = q + (IF k + 1 <= r THEN 1 ELSE 0)
    BY <1>2, <2>1
  <2> HIDE DEF f
  <2>5. sum(k + 1) = sum(k) + (f(k + 1)[k + 1] - f(k)[k + 1])
    BY <2>1, <2>2, <2>3, TargetsChanged
  <2>6. k * q \in Nat /\ (k + 1) * q = k * q + q
    BY <1>1
  <2> HIDE DEF sum
  <2>7. QED
    BY <1>1, <2>1, <2>4, <2>5, <2>6
<1> HIDE DEF T
<1>6. Nat \subseteq T
  BY <1>4, <1>5, NumbersBySteps
<1> USE DEF T
<1>7. sum(n) = n * q + (IF n <= r THEN n ELSE r)
  BY <1>1, <1>6
<1>8. \A x \in Targets : share[x] \in Int /\ f(n)[x] = share[x]
  BY <1>1, <1>2
<1>9. sum(n) = SumFunctionOnSet(share, Targets)
  <2>1. \A x \in Targets : f(n)[x] \in Int /\ f(n)[x] = share[x]
    BY <1>8
  <2> HIDE DEF f
  <2>2. QED
    BY <1>1, <2>1, SumSame
<1>10. QED
  BY <1>1, <1>7, <1>9

(* The smaller of two numbers.                                             *)
LEMMA MinOfTwo ==
    ASSUME NEW a \in Int, NEW b \in Int
    PROVE  Min({a, b}) = IF a <= b THEN a ELSE b
<1> DEFINE m == IF a <= b THEN a ELSE b
<1>1. m \in {a, b} /\ \A y \in {a, b} : m <= y
  OBVIOUS
<1>2. \A x \in {a, b} : (\A y \in {a, b} : x <= y) => x = m
  OBVIOUS
<1>3. Min({a, b}) \in {a, b} /\ \A y \in {a, b} : Min({a, b}) <= y
  BY <1>1 DEF Min
<1>4. QED
  BY <1>2, <1>3

(* The largest of some of the first numbers.                               *)
LEMMA MaxOfSome ==
    ASSUME NEW n \in Nat, NEW S \in SUBSET (1..n), S # {}
    PROVE  Max(S) \in S /\ \A y \in S : Max(S) >= y
<1> DEFINE T == {n - x : x \in S}
<1>0. \A x \in S : x \in Nat /\ x <= n
  OBVIOUS
<1>1. T \in SUBSET Nat /\ T # {}
  <2>1. \A x \in S : n - x \in Nat
    BY <1>0
  <2>2. QED
    BY <2>1
<1>2. PICK d \in T : \A m \in T : d <= m
  BY <1>1, LeastNumber
<1>3. n - d \in S /\ \A y \in S : n - d >= y
  <2>1. PICK x \in S : d = n - x
    BY <1>2
  <2>2. n - d = x
    BY <1>0, <2>1
  <2>3. \A y \in S : d <= n - y
    BY <1>2
  <2>4. QED
    BY <1>0, <2>1, <2>2, <2>3
<1>4. QED
  BY <1>3 DEF Max

(* Of typed rows, the time spent or reserved is a number.                  *)
LEMMA CommittedTyped ==
    ASSUME NEW rows \in [Targets -> TargetRow]
    PROVE  /\ \A x \in Targets : Held(rows)[x] = rows[x].consumed + rows[x].reserved
           /\ \A x \in Targets : Held(rows)[x] \in Nat
           /\ Committed(rows) \in Int /\ Available(rows) \in Int
<1>1. \A x \in Targets : /\ Held(rows)[x] = rows[x].consumed + rows[x].reserved
                         /\ Held(rows)[x] \in Nat
  BY DEF Held, TargetRow
<1>2. Committed(rows) \in Int
  BY <1>1, SumIsInt, Numbers DEF Committed
<1>3. QED
  BY <1>1, <1>2, Numbers DEF Available

(* The four keys by which targets are served.                              *)
Needy(rows, x) == IF x \in NeedsCoverage(rows) THEN 0 ELSE 1
Count(rows, x) == Cardinality(Matches(rows[x], x))

(* The order in which targets are served compares their keys in turn.      *)
LEMMA BeforeByKeys ==
    ASSUME NEW rows, NEW x, NEW y
    PROVE  Before(rows, x, y) <=>
              \/ Needy(rows, x) < Needy(rows, y)
              \/ /\ Needy(rows, x) = Needy(rows, y)
                 /\ \/ rows[x].leases < rows[y].leases
                    \/ /\ rows[x].leases = rows[y].leases
                       /\ \/ Count(rows, x) > Count(rows, y)
                          \/ Count(rows, x) = Count(rows, y) /\ x < y
BY Zenon DEF Before, Needy, Count

(* The keys are numbers.                                                   *)
LEMMA KeysTyped ==
    ASSUME NEW rows \in [Targets -> TargetRow], NEW x \in Targets
    PROVE  /\ x \in Nat /\ Needy(rows, x) \in Nat /\ rows[x].leases \in Nat
           /\ rows[x].leases <= MaxLeases
           /\ Count(rows, x) \in Nat
<1>1. rows[x].found \in SUBSET Candidates /\ rows[x].leases \in 0..MaxLeases
  BY DEF TargetRow
<1>2. IsFiniteSet(Matches(rows[x], x))
  BY <1>1, FS_Subset, ResearchAssumption DEF Matches
<1>3. QED
  BY <1>1, <1>2, Numbers, FS_CardinalityType DEF Needy, Count

(* The order in which they are served is strict and total.                 *)
LEMMA BeforeOrders ==
    ASSUME NEW rows \in [Targets -> TargetRow],
           NEW x \in Targets, NEW y \in Targets, NEW z \in Targets
    PROVE  /\ ~Before(rows, x, x)
           /\ Before(rows, x, y) /\ Before(rows, y, z) => Before(rows, x, z)
           /\ x = y \/ Before(rows, x, y) \/ Before(rows, y, x)
BY KeysTyped, BeforeByKeys

(* So no two targets share a place.                                        *)
LEMMA PlacesDiffer ==
    ASSUME NEW rows \in [Targets -> TargetRow],
           NEW x \in Eligible(rows), NEW y \in Eligible(rows), x # y
    PROVE  Place(rows, x) \in Nat /\ Place(rows, y) \in Nat /\ Place(rows, x) # Place(rows, y)
<1> DEFINE Ahead(z) == {u \in Eligible(rows) : Before(rows, u, z)}
<1>0. Eligible(rows) \subseteq Targets /\ \A z : IsFiniteSet(Ahead(z))
  <2>1. Eligible(rows) \subseteq Targets
    BY DEF Eligible
  <2>2. QED
    BY <2>1, FS_Subset, Numbers
<1>1. \A z : Place(rows, z) = Cardinality(Ahead(z)) /\ Place(rows, z) \in Nat
  BY <1>0, FS_CardinalityType DEF Place
<1>2. ASSUME NEW u \in Eligible(rows), NEW v \in Eligible(rows), Before(rows, u, v)
      PROVE  Place(rows, u) < Place(rows, v)
  <2>1. Ahead(u) \subseteq Ahead(v)
    BY <1>0, <1>2, BeforeOrders
  <2>2. u \in Ahead(v) /\ u \notin Ahead(u)
    BY <1>0, <1>2, BeforeOrders
  <2>3. Ahead(u) # Ahead(v)
    BY <2>2
  <2> HIDE DEF Ahead
  <2>4. Cardinality(Ahead(u)) < Cardinality(Ahead(v))
    <3>1. /\ Cardinality(Ahead(u)) <= Cardinality(Ahead(v))
          /\ Cardinality(Ahead(u)) = Cardinality(Ahead(v)) => Ahead(u) = Ahead(v)
      BY <1>0, <2>1, FS_Subset
    <3>2. QED
      BY <1>1, <2>3, <3>1
  <2>5. QED
    BY <1>1, <2>4
<1>3. Before(rows, x, y) \/ Before(rows, y, x)
  BY <1>0, BeforeOrders
<1>4. QED
  BY <1>1, <1>2, <1>3

(* A leased target is a target that has a lease left, and gets a number of *)
(* units that is left after those before it have had theirs.               *)
LEMMA LeaseTyped ==
    ASSUME NEW rows \in [Targets -> TargetRow], NEW x \in Leased(rows)
    PROVE  /\ x \in Targets /\ x \in Eligible(rows) /\ Place(rows, x) \in Nat
           /\ rows[x].leases < MaxLeases /\ rows[x].status # "failed"
           /\ LeaseFor(rows, x) \in Nat \ {0} /\ LeaseFor(rows, x) <= LeaseTime
           /\ LeaseFor(rows, x) <= Available(rows) - Place(rows, x) * LeaseTime
<1>1. /\ x \in Eligible(rows)
      /\ Available(rows) - Place(rows, x) * LeaseTime >= 1
  BY DEF Leased
<1>2. x \in Targets /\ rows[x].leases < MaxLeases /\ rows[x].status # "failed"
  BY <1>1 DEF Eligible
<1>3. Place(rows, x) \in Nat
  <2>1. IsFiniteSet({u \in Eligible(rows) : Before(rows, u, x)})
    BY FS_Subset, Numbers DEF Eligible
  <2>2. QED
    BY <2>1, FS_CardinalityType DEF Place
<1> DEFINE a == Available(rows) - Place(rows, x) * LeaseTime
<1>4. LeaseTime \in Nat \ {0} /\ a \in Int /\ a >= 1
  BY SMTT(30), <1>1, <1>3, CommittedTyped, Numbers
<1>5. LeaseFor(rows, x) = IF LeaseTime <= a THEN LeaseTime ELSE a
  BY <1>4, MinOfTwo DEF LeaseFor
<1> HIDE DEF a
<1>6. /\ LeaseFor(rows, x) \in Nat \ {0} /\ LeaseFor(rows, x) <= LeaseTime
      /\ LeaseFor(rows, x) <= a
  BY <1>4, <1>5
<1>7. QED
  BY <1>1, <1>2, <1>3, <1>6 DEF a

(* All leases together take no more than what is left: those in the first  *)
(* k places take at most k full leases, and no more than what is left.     *)
LEMMA LeasesFit ==
    ASSUME NEW rows \in [Targets -> TargetRow], Leased(rows) # {}, NEW lease,
           lease = [x \in Targets |-> IF x \in Leased(rows) THEN LeaseFor(rows, x) ELSE 0]
    PROVE  SumFunctionOnSet(lease, Targets) <= Available(rows)
<1> DEFINE n == Cardinality(Targets)
           L == Leased(rows)
           A == Available(rows)
           place(x) == Place(rows, x)
           f(k) == [x \in Targets |-> IF x \in L /\ place(x) < k THEN lease[x] ELSE 0]
           sum(k) == SumFunctionOnSet(f(k), Targets)
           T == {k \in Nat : sum(k) <= k * LeaseTime /\ sum(k) <= A}
<1>0. IsFiniteSet(Targets) /\ LeaseTime \in Nat /\ A \in Int
  BY Numbers, CommittedTyped
<1>1. \A x \in L : /\ x \in Targets /\ place(x) \in Nat /\ lease[x] \in Nat
                   /\ lease[x] >= 1 /\ lease[x] <= LeaseTime
                   /\ lease[x] <= A - place(x) * LeaseTime
  BY LeaseTyped
<1>2. \A x, y \in L : x # y => place(x) # place(y)
  BY LeaseTyped, PlacesDiffer
<1>3. A >= 0
  <2>1. PICK x \in L : TRUE
    OBVIOUS
  <2>2. place(x) * LeaseTime \in Nat /\ lease[x] \in Nat
        /\ lease[x] <= A - place(x) * LeaseTime
    BY <1>0, <1>1
  <2> HIDE DEF A, place
  <2>3. QED
    BY <1>0, <2>2
<1>t. \A x \in Targets : lease[x] = IF x \in L THEN LeaseFor(rows, x) ELSE 0
  OBVIOUS
<1> HIDE DEF L, A, place
<1>4. ASSUME NEW k \in Nat, NEW x \in Targets
      PROVE  /\ f(k)[x] = IF x \in L /\ place(x) < k THEN lease[x] ELSE 0
             /\ f(k)[x] \in Int
  <2>1. f(k)[x] = IF x \in L /\ place(x) < k THEN lease[x] ELSE 0
    OBVIOUS
  <2> HIDE DEF f
  <2>2. QED
    BY <1>1, <2>1
<1> HIDE DEF f
<1>5. 0 \in T
  <2>1. \A x \in Targets : f(0)[x] = 0
    <3>1. ASSUME NEW x \in Targets PROVE f(0)[x] = 0
      <4>1. f(0)[x] = IF x \in L /\ place(x) < 0 THEN lease[x] ELSE 0
        BY <1>4
      <4>2. x \in L => ~(place(x) < 0)
        BY <1>1
      <4>3. QED
        BY <4>1, <4>2
    <3>2. QED
      BY <3>1
  <2>2. sum(0) = 0
    BY <1>0, <2>1, SumZero
  <2>3. QED
    BY <1>0, <1>3, <2>2
<1>6. ASSUME NEW k \in Nat, k \in T PROVE k + 1 \in T
  <2>t. \A x \in Targets : /\ f(k)[x] = IF x \in L /\ place(x) < k THEN lease[x] ELSE 0
                           /\ f(k + 1)[x] = IF x \in L /\ place(x) < k + 1 THEN lease[x] ELSE 0
                           /\ f(k)[x] \in Int /\ f(k + 1)[x] \in Int
    BY <1>4
  <2>0. sum(k) \in Int /\ sum(k) <= k * LeaseTime /\ sum(k) <= A
    BY <1>0, <2>t, <1>6, SumIsInt
  <2>1. (k + 1) * LeaseTime = k * LeaseTime + LeaseTime /\ k * LeaseTime \in Nat
    BY <1>0
  <2>2. CASE \A x \in L : place(x) # k
    <3>1. \A x \in Targets : f(k)[x] \in Int /\ f(k + 1)[x] = f(k)[x]
      <4>1. ASSUME NEW x \in L PROVE place(x) < k + 1 <=> place(x) < k
        <5>1. place(x) \in Nat /\ place(x) # k
          BY <1>1, <2>2
        <5>2. QED
          BY <5>1
      <4>2. QED
        BY <2>t, <4>1
    <3>2. sum(k + 1) = sum(k)
      BY <1>0, <3>1, SumSame
    <3> HIDE DEF sum
    <3>3. sum(k + 1) <= (k + 1) * LeaseTime /\ sum(k + 1) <= A
      BY <1>0, <2>0, <2>1, <3>2
    <3>4. QED
      BY <3>3 DEF sum
  <2>3. ASSUME NEW y \in L, place(y) = k PROVE k + 1 \in T
    <3>1. \A x \in Targets : x # y => f(k)[x] = f(k + 1)[x]
      <4>1. ASSUME NEW x \in L, x # y PROVE place(x) < k + 1 <=> place(x) < k
        <5>1. place(x) \in Nat /\ place(x) # k
          BY <1>1, <1>2, <2>3, <4>1
        <5>2. QED
          BY <5>1
      <4>2. QED
        BY <2>t, <4>1
    <3>2. f(k)[y] = 0 /\ f(k + 1)[y] = lease[y] /\ y \in Targets
      BY <1>1, <2>3, <2>t
    <3>3. /\ \A x \in Targets : f(k)[x] \in Int /\ f(k + 1)[x] \in Int
          /\ y \in Targets /\ IsFiniteSet(Targets)
      BY <1>0, <2>t, <3>2
    <3>4. SumFunctionOnSet(f(k + 1), Targets)
             = SumFunctionOnSet(f(k), Targets) + (f(k + 1)[y] - f(k)[y])
      BY <3>1, <3>3, SumChanged
    <3>5. sum(k + 1) = sum(k) + (f(k + 1)[y] - f(k)[y])
      BY <3>4
    <3> HIDE DEF sum
    <3>6. /\ lease[y] \in Nat /\ lease[y] <= LeaseTime
          /\ lease[y] <= A - place(y) * LeaseTime
      BY <1>1, <2>3
    <3>7. /\ lease[y] \in Nat /\ lease[y] <= LeaseTime
          /\ lease[y] <= A - k * LeaseTime
      BY <2>3, <3>6
    <3>8. sum(k + 1) = sum(k) + lease[y]
      BY <2>0, <3>2, <3>5, <3>7
    <3>9. sum(k + 1) <= (k + 1) * LeaseTime /\ sum(k + 1) <= A
      BY <1>0, <2>0, <2>1, <3>7, <3>8
    <3>10. QED
      BY <3>9 DEF sum
  <2>4. QED
    BY <2>2, <2>3
<1> HIDE DEF T
<1>7. Nat \subseteq T
  BY <1>5, <1>6, NumbersBySteps
<1>8. \E k \in Nat : \A x \in L : place(x) < k
  <2>1. \A x \in L : place(x) <= n
    <3>1. ASSUME NEW x \in L PROVE place(x) <= n
      <4>1. {u \in Eligible(rows) : Before(rows, u, x)} \subseteq Targets
        BY DEF Eligible
      <4>2. QED
        BY <1>0, <4>1, FS_Subset DEF place, Place
    <3>2. QED
      BY <3>1
  <2>2. n \in Nat
    BY Numbers
  <2> HIDE DEF n
  <2>3. ASSUME NEW x \in L PROVE place(x) < n + 1
    <3>1. place(x) \in Nat /\ place(x) <= n
      BY <1>1, <2>1
    <3>2. QED
      BY <2>2, <3>1
  <2>4. n + 1 \in Nat
    BY <2>2
  <2>5. QED
    BY <2>3, <2>4
<1>9. PICK k \in Nat : \A x \in L : place(x) < k
  BY <1>8
<1>10. \A x \in Targets : f(k)[x] \in Int /\ f(k)[x] = lease[x]
  BY <1>4, <1>9, <1>t
<1>11. sum(k) <= A
  BY <1>7 DEF T
<1>12. sum(k) = SumFunctionOnSet(lease, Targets)
  BY <1>0, <1>10, SumSame
<1>13. QED
  BY <1>11, <1>12 DEF A
-----------------------------------------------------------------------------
PlanStatuses == {"pending_confirmation", "superseded", "confirmed", "completed"}
Request == [op : {"none", "replace", "confirm"}, plan : Nat, pending : BOOLEAN]
OpenTxn == [open : {TRUE}, pass : Passes, row : TargetRow]

(* The type invariant, made inductive: what a request has read, what a     *)
(* transaction has open and every pass there is belong to a plan.          *)
TypeInv ==
    /\ TypeOK
    /\ Len(plan) <= MaxPlans
    /\ req \in [Requests -> Request]
    /\ \A r \in Requests : /\ req[r].op = "replace" => req[r].plan < MaxPlans
                           /\ req[r].op = "confirm" => req[r].plan \in DOMAIN plan
    /\ txn \in [Workers -> {NoTxn} \cup OpenTxn]
    /\ \A w \in Workers : txn[w].open => PlanOf(txn[w].pass) \in DOMAIN plan
    /\ used \in [{"pause", "resolve", "reopen", "fault"} -> Nat]
    /\ \A p \in Passes : pass[p] # NoPass => PlanOf(p) \in DOMAIN plan

(* The domains the invariant gives.                                        *)
LEMMA Domains ==
    ASSUME TypeInv
    PROVE  /\ Len(plan) \in Nat /\ Len(target) = Len(plan)
           /\ DOMAIN plan = 1..Len(plan) /\ DOMAIN target = DOMAIN plan
           /\ \A v \in DOMAIN plan : v \in Versions /\ plan[v] \in PlanStatuses
           /\ \A v \in DOMAIN plan : target[v] \in [Targets -> TargetRow]
           /\ \A v \in DOMAIN plan, x \in Targets : target[v][x] \in TargetRow
<1>1. plan \in Seq(PlanStatuses) /\ target \in Seq([Targets -> TargetRow])
      /\ Len(target) = Len(plan) /\ Len(plan) <= MaxPlans
  BY DEF TypeInv, TypeOK, PlanStatuses
<1>2. Len(plan) \in Nat /\ DOMAIN plan = 1..Len(plan) /\ DOMAIN target = 1..Len(plan)
  BY <1>1, LenProperties
<1>3. \A v \in DOMAIN plan : v \in Versions /\ plan[v] \in PlanStatuses
  BY <1>1, <1>2, ElementOfSeq, Numbers DEF Versions
<1>4. \A v \in DOMAIN plan : target[v] \in [Targets -> TargetRow]
  BY <1>1, <1>2, ElementOfSeq
<1>5. QED
  BY <1>1, <1>2, <1>3, <1>4

(* The rows of one plan are changed ...                                    *)
LEMMA PutRows ==
    ASSUME NEW t \in Seq([Targets -> TargetRow]), NEW v \in DOMAIN t,
           NEW rows \in [Targets -> TargetRow], NEW n, n = [t EXCEPT ![v] = rows]
    PROVE  /\ n \in Seq([Targets -> TargetRow]) /\ Len(n) = Len(t) /\ DOMAIN n = DOMAIN t
           /\ \A u \in DOMAIN t : n[u] = IF u = v THEN rows ELSE t[u]
<1>1. DOMAIN t = 1..Len(t) /\ v \in 1..Len(t)
  BY LenProperties
<1>2. /\ n \in Seq([Targets -> TargetRow]) /\ Len(n) = Len(t)
      /\ \A u \in 1..Len(t) : n[u] = IF u = v THEN rows ELSE t[u]
  BY <1>1, ExceptSeq
<1>3. DOMAIN n = DOMAIN t
  BY <1>1, <1>2, LenProperties
<1>4. QED
  BY <1>1, <1>2, <1>3

(* ... or one row of it is.                                                *)
LEMMA PutRow ==
    ASSUME NEW t \in Seq([Targets -> TargetRow]), NEW v \in DOMAIN t, NEW x \in Targets,
           NEW row \in TargetRow, NEW n, n = [t EXCEPT ![v][x] = row]
    PROVE  /\ n \in Seq([Targets -> TargetRow]) /\ Len(n) = Len(t) /\ DOMAIN n = DOMAIN t
           /\ \A u \in DOMAIN t, y \in Targets :
                 n[u][y] = IF u = v /\ y = x THEN row ELSE t[u][y]
           /\ \A u \in DOMAIN t : u # v => n[u] = t[u]
<1> DEFINE rows == [t[v] EXCEPT ![x] = row]
           m == [t EXCEPT ![v] = rows]
<1>1. n = m
  OBVIOUS
<1>2. t[v] \in [Targets -> TargetRow]
  BY LenProperties, ElementOfSeq
<1>3. rows \in [Targets -> TargetRow]
      /\ \A y \in Targets : rows[y] = IF y = x THEN row ELSE t[v][y]
  BY <1>2
<1> HIDE DEF rows
<1>4. /\ m \in Seq([Targets -> TargetRow]) /\ Len(m) = Len(t) /\ DOMAIN m = DOMAIN t
      /\ \A u \in DOMAIN t : m[u] = IF u = v THEN rows ELSE t[u]
  BY <1>3, PutRows
<1> HIDE DEF m
<1>5. QED
  BY <1>1, <1>3, <1>4

(* The status of one plan is changed.                                      *)
LEMMA PutPlan ==
    ASSUME TypeInv, NEW v \in DOMAIN plan, NEW s \in PlanStatuses,
           NEW n, n = [plan EXCEPT ![v] = s]
    PROVE  /\ n \in Seq(PlanStatuses) /\ Len(n) = Len(plan) /\ DOMAIN n = DOMAIN plan
           /\ \A u \in DOMAIN plan : n[u] = IF u = v THEN s ELSE plan[u]
<1>1. plan \in Seq(PlanStatuses) /\ DOMAIN plan = 1..Len(plan) /\ v \in 1..Len(plan)
  BY Domains DEF TypeInv, TypeOK, PlanStatuses
<1>2. /\ n \in Seq(PlanStatuses) /\ Len(n) = Len(plan)
      /\ \A u \in 1..Len(plan) : n[u] = IF u = v THEN s ELSE plan[u]
  BY <1>1, ExceptSeq
<1>3. DOMAIN n = DOMAIN plan
  BY <1>1, <1>2, LenProperties
<1>4. QED
  BY <1>1, <1>2, <1>3

(* The parts of a pass's identity.                                         *)
LEMMA PassParts ==
    ASSUME NEW p \in Passes
    PROVE  /\ PlanOf(p) \in Versions /\ TargetOf(p) \in Targets
           /\ p[3] \in 0..MaxLeases /\ p[4] \in Copies
           /\ p = <<PlanOf(p), TargetOf(p), p[3], p[4]>>
BY DEF Passes, PlanOf, TargetOf

(* The numbers in a row, and the generation of a pass.                     *)
LEMMA RowNumbers ==
    ASSUME NEW row \in TargetRow
    PROVE  row.leases \in Nat /\ row.consumed \in Nat /\ row.reserved \in Nat
BY DEF TargetRow

(* A pass's generation is a number.                                        *)
LEMMA PassGeneration == ASSUME NEW p \in Passes PROVE p[3] \in Nat
<1>1. p[3] \in 0..MaxLeases
  BY PassParts
<1>2. QED
  BY <1>1

(* A new plan is added, and may supersede the latest.                      *)
NextPlans(latest, pending) ==
    Append([v \in DOMAIN plan |-> IF v = latest /\ pending THEN "superseded" ELSE plan[v]],
           "pending_confirmation")
NextTargets == Append(target, [x \in Targets |-> NewTarget])

(* What the plans and the rows are after that.                             *)
LEMMA NewPlan ==
    ASSUME TypeInv, NEW latest, NEW pending \in BOOLEAN, NEW n, NEW t,
           Len(plan) = latest, n = NextPlans(latest, pending), t = NextTargets
    PROVE  /\ n \in Seq(PlanStatuses) /\ Len(n) = latest + 1 /\ DOMAIN n = 1..(latest + 1)
           /\ \A v \in DOMAIN plan : n[v] = IF v = latest /\ pending
                                            THEN "superseded" ELSE plan[v]
           /\ n[latest + 1] = "pending_confirmation"
           /\ t \in Seq([Targets -> TargetRow]) /\ Len(t) = latest + 1
           /\ DOMAIN t = 1..(latest + 1)
           /\ \A v \in DOMAIN plan : t[v] = target[v]
           /\ t[latest + 1] = [x \in Targets |-> NewTarget]
<1> DEFINE old == [v \in DOMAIN plan |-> IF v = latest /\ pending
                                         THEN "superseded" ELSE plan[v]]
           rows == [x \in Targets |-> NewTarget]
<1>1. /\ plan \in Seq(PlanStatuses) /\ latest \in Nat /\ DOMAIN plan = 1..latest
      /\ target \in Seq([Targets -> TargetRow]) /\ Len(target) = latest
  BY Domains DEF TypeInv, TypeOK, PlanStatuses
<1>2. old \in Seq(PlanStatuses) /\ Len(old) = latest
  <2>1. CASE latest = 0 \/ ~pending
    <3>1. old = plan
      BY <1>1, <2>1
    <3>2. QED
      BY <1>1, <3>1
  <2>2. CASE latest # 0 /\ pending
    <3>1. latest \in 1..Len(plan)
      BY <1>1, <2>2
    <3>2. old = [plan EXCEPT ![latest] = "superseded"]
      BY <1>1, <2>2
    <3>3. "superseded" \in PlanStatuses
      BY DEF PlanStatuses
    <3> HIDE DEF old
    <3>4. QED
      BY <1>1, <3>1, <3>2, <3>3, ExceptSeq
  <2>3. QED
    BY <2>1, <2>2
<1>3. NewTarget \in TargetRow
  BY Numbers DEF NewTarget, TargetRow, TerminalTarget
<1>4. rows \in [Targets -> TargetRow]
  BY <1>3
<1>5. \A v \in DOMAIN plan : old[v] = IF v = latest /\ pending
                                      THEN "superseded" ELSE plan[v]
  OBVIOUS
<1>6. n = Append(old, "pending_confirmation") /\ t = Append(target, rows)
      /\ "pending_confirmation" \in PlanStatuses
  BY DEF PlanStatuses, NextPlans, NextTargets
<1> HIDE DEF old, rows
<1>7. /\ n \in Seq(PlanStatuses) /\ Len(n) = latest + 1
      /\ \A i \in 1..latest : n[i] = old[i]
      /\ n[latest + 1] = "pending_confirmation"
  <2> DEFINE m == Append(old, "pending_confirmation")
  <2>1. "pending_confirmation" \in PlanStatuses
    BY <1>6
  <2>2. /\ m \in Seq(PlanStatuses) /\ Len(m) = Len(old) + 1
        /\ \A i \in 1..Len(old) : m[i] = old[i]
        /\ m[Len(old) + 1] = "pending_confirmation"
    BY <1>2, <2>1, AppendProperties
  <2>3. n = m
    BY <1>6
  <2> HIDE DEF m
  <2>4. QED
    BY <1>2, <2>2, <2>3
<1>8. /\ t \in Seq([Targets -> TargetRow]) /\ Len(t) = latest + 1
      /\ \A i \in 1..latest : t[i] = target[i]
      /\ t[latest + 1] = rows
  BY <1>1, <1>4, <1>6, AppendProperties
<1>9. DOMAIN n = 1..(latest + 1) /\ DOMAIN t = 1..(latest + 1)
  BY <1>7, <1>8, LenProperties
<1>10. QED
  BY <1>1, <1>5, <1>7, <1>8, <1>9 DEF rows

(* What the parts of a step put in place of a pass, a row or a request.    *)
LEMMA PassTyped ==
    /\ NoPass \in PassRow
    /\ \A b \in Nat : QueuedPass(b) \in PassRow /\ QueuedPass(b).status = "queued"
                      /\ QueuedPass(b).budget = b
    /\ \A row \in PassRow :
          /\ Failed(row) \in PassRow /\ Failed(row).status \in {"retry", "blocked"}
          /\ Failed(row).budget = row.budget
          /\ \A s \in PassStatuses, e \in BOOLEAN :
                /\ [row EXCEPT !.status = s] \in PassRow
                /\ [row EXCEPT !.status = s, !.exc = e] \in PassRow
          /\ [row EXCEPT !.status = "queued", !.attempts = 0] \in PassRow
          /\ [row EXCEPT !.status = "running", !.attempts = row.attempts + 1] \in PassRow
<1>1. NoPass \in PassRow
  BY DEF NoPass, PassRow, PassStatuses
<1>2. \A b \in Nat : QueuedPass(b) \in PassRow /\ QueuedPass(b).status = "queued"
                     /\ QueuedPass(b).budget = b
  BY DEF QueuedPass, NoPass, PassRow, PassStatuses
<1>3. ASSUME NEW row \in PassRow
      PROVE  /\ \A s \in PassStatuses, e \in BOOLEAN :
                   /\ [row EXCEPT !.status = s] \in PassRow
                   /\ [row EXCEPT !.status = s, !.exc = e] \in PassRow
                   /\ [row EXCEPT !.status = s].budget = row.budget
                   /\ [row EXCEPT !.status = s, !.exc = e].budget = row.budget
                   /\ [row EXCEPT !.status = s].status = s
                   /\ [row EXCEPT !.status = s, !.exc = e].status = s
             /\ [row EXCEPT !.status = "queued", !.attempts = 0] \in PassRow
             /\ [row EXCEPT !.status = "running", !.attempts = row.attempts + 1] \in PassRow
  <2>1. row.attempts \in Nat /\ row.attempts + 1 \in Nat
    BY DEF PassRow
  <2>2. ASSUME NEW s \in PassStatuses, NEW e \in BOOLEAN
        PROVE  /\ [row EXCEPT !.status = s] \in PassRow
               /\ [row EXCEPT !.status = s, !.exc = e] \in PassRow
               /\ [row EXCEPT !.status = s].budget = row.budget
               /\ [row EXCEPT !.status = s, !.exc = e].budget = row.budget
               /\ [row EXCEPT !.status = s].status = s
               /\ [row EXCEPT !.status = s, !.exc = e].status = s
    BY DEF PassRow
  <2>3. "queued" \in PassStatuses /\ "running" \in PassStatuses
    BY DEF PassStatuses
  <2>4. [row EXCEPT !.status = "queued", !.attempts = 0] \in PassRow
    BY <2>3 DEF PassRow
  <2>5. [row EXCEPT !.status = "running", !.attempts = row.attempts + 1] \in PassRow
    BY <2>1, <2>3 DEF PassRow
  <2>6. QED
    BY <2>2, <2>4, <2>5
<1>4. ASSUME NEW row \in PassRow
      PROVE  /\ Failed(row) \in PassRow /\ Failed(row).status \in {"retry", "blocked"}
             /\ Failed(row).budget = row.budget
  <2>1. "retry" \in PassStatuses /\ "blocked" \in PassStatuses
    BY DEF PassStatuses
  <2>2. CASE row.attempts < MaxAttempts
    <3>1. Failed(row) = [row EXCEPT !.status = "retry"]
      BY <2>2 DEF Failed
    <3>2. QED
      BY <2>1, <3>1 DEF PassRow
  <2>3. CASE ~(row.attempts < MaxAttempts)
    <3>1. Failed(row) = [row EXCEPT !.status = "blocked", !.exc = TRUE]
      BY <2>3 DEF Failed
    <3>2. QED
      BY <2>1, <3>1 DEF PassRow
  <2>4. QED
    BY <2>2, <2>3
<1>5. QED
  BY <1>1, <1>2, <1>3, <1>4

(* A target's row that has grown keeps all but its attempts and findings.  *)
LEMMA GrownTyped ==
    ASSUME NEW row \in TargetRow, NEW new \in Grown(row)
    PROVE  /\ new \in TargetRow /\ new.status = row.status /\ new.leases = row.leases
           /\ new.consumed = row.consumed /\ new.reserved = row.reserved
<1>1. PICK n \in row.attempts..Required, F \in SUBSET Candidates : new = Grow(row, n, F)
  BY DEF Grown
<1>2. row.attempts \in 0..Required /\ row.found \in SUBSET Candidates
  BY DEF TargetRow
<1>3. n \in 0..Required /\ row.found \cup F \in SUBSET Candidates
  BY <1>1, <1>2, Numbers
<1>4. QED
  BY <1>1, <1>3 DEF Grow, TargetRow

(* A settled row ends its search and holds nothing reserved.               *)
LEMMA SettledTyped ==
    ASSUME NEW p, NEW failed \in BOOLEAN, NEW elapsed \in Nat, NEW row \in TargetRow
    PROVE  /\ Settled(p, failed, elapsed, row) \in TargetRow
           /\ Settled(p, failed, elapsed, row).status \in TerminalTarget
           /\ Settled(p, failed, elapsed, row).consumed = row.consumed + elapsed
           /\ Settled(p, failed, elapsed, row).reserved = 0
           /\ Settled(p, failed, elapsed, row).leases = row.leases
<1>1. Outcome(p, failed, row) \in TerminalTarget
  BY DEF Outcome, TerminalTarget
<1>2. row.consumed \in Nat
  BY DEF TargetRow
<1> DEFINE new == [row EXCEPT !.status = Outcome(p, failed, row),
                              !.consumed = row.consumed + elapsed, !.reserved = 0]
<1>3. Settled(p, failed, elapsed, row) = new
  BY DEF Settled
<1>4. row.consumed + elapsed \in Nat
  BY <1>2
<1>5. /\ new \in TargetRow /\ new.status \in TerminalTarget
      /\ new.consumed = row.consumed + elapsed
      /\ new.reserved = 0 /\ new.leases = row.leases
  BY <1>1, <1>4 DEF TargetRow
<1> HIDE DEF new
<1>6. QED
  BY <1>3, <1>5

(* A leased row is queued again with the lease as what it holds.           *)
LEMMA WithLeaseTyped ==
    ASSUME NEW rows \in [Targets -> TargetRow], NEW x \in Leased(rows)
    PROVE  /\ WithLease(rows, x) \in TargetRow
           /\ WithLease(rows, x).status = "queued"
           /\ WithLease(rows, x).consumed = rows[x].consumed
           /\ WithLease(rows, x).reserved = LeaseFor(rows, x)
           /\ WithLease(rows, x).leases = rows[x].leases + 1
<1>1. x \in Targets /\ rows[x].leases < MaxLeases /\ LeaseFor(rows, x) \in Nat
  BY LeaseTyped
<1>2. rows[x] \in TargetRow /\ rows[x].leases \in 0..MaxLeases
  BY <1>1 DEF TargetRow
<1>3. rows[x].leases + 1 \in 0..MaxLeases
  <2>1. MaxLeases \in Nat
    BY Numbers
  <2>2. QED
    BY <1>1, <1>2, <2>1
<1>4. QED
  BY <1>1, <1>2, <1>3 DEF WithLease, TargetRow

(* The guaranteed times are numbers.                                       *)
LEMMA GuaranteedTimeTyped == \A x \in Targets : GuaranteedTime(x) \in Nat
BY GuaranteedTyped, Numbers DEF GuaranteedTime

(* The type invariant holds at the start ...                               *)
LEMMA TypeInit == Init => TypeInv
<1> SUFFICES ASSUME Init PROVE TypeInv
  OBVIOUS
<1>1. plan = <<>> /\ target = <<>> /\ Len(plan) = 0 /\ Len(target) = 0
      /\ plan \in Seq(PlanStatuses) /\ target \in Seq([Targets -> TargetRow])
  BY EmptySeq DEF Init
<1>2. pass \in [Passes -> PassRow] /\ \A p \in Passes : pass[p] = NoPass
  BY PassTyped DEF Init
<1>3. req \in [Requests -> Request] /\ \A r \in Requests : req[r].op = "none"
  BY DEF Init, NoRequest, Request
<1>4. txn \in [Workers -> {NoTxn} \cup OpenTxn] /\ \A w \in Workers : ~txn[w].open
  BY DEF Init, NoTxn
<1>5. /\ campaign = "planning"
      /\ kept \in [Candidates -> {"no", "match", "needs_review"}]
      /\ prep \in [Candidates -> {"none", "live", "resting"}]
      /\ used \in [{"pause", "resolve", "reopen", "fault"} -> Nat]
  BY DEF Init
<1>6. QED
  BY SMTT(30), <1>1, <1>2, <1>3, <1>4, <1>5, Numbers DEF TypeInv, TypeOK, PlanStatuses

(* The type invariant is kept by every step: the requests of the operator. *)
LEMMA TypeReadForReplace ==
    ASSUME TypeInv, NEW r \in Requests, ReadForReplace(r)
    PROVE  TypeInv'
<1> DEFINE new == [op |-> "replace", plan |-> Len(plan),
                   pending |-> plan # <<>> /\ plan[Len(plan)] = "pending_confirmation"]
<1>1. /\ UNCHANGED <<campaign, plan, target, pass, kept, prep, txn, used>>
      /\ req' = [req EXCEPT ![r] = new] /\ Len(plan) < MaxPlans
  BY DEF ReadForReplace
<1>2. new \in Request /\ new.op = "replace" /\ new.plan = Len(plan)
  BY Domains DEF Request
<1> HIDE DEF new
<1>3. req' \in [Requests -> Request] /\ \A q \in Requests : req'[q] = IF q = r THEN new ELSE req[q]
  BY <1>1, <1>2 DEF TypeInv
<1>4. \A q \in Requests : /\ req'[q].op = "replace" => req'[q].plan < MaxPlans
                          /\ req'[q].op = "confirm" => req'[q].plan \in DOMAIN plan
  BY <1>1, <1>2, <1>3 DEF TypeInv
<1>5. TypeOK'
  BY <1>1, <1>3 DEF TypeInv, TypeOK, Request
<1>6. QED
  BY <1>1, <1>3, <1>4, <1>5 DEF TypeInv

(* ... and is kept by a confirmation that reads the latest waiting plan,   *)
LEMMA TypeReadForConfirm ==
    ASSUME TypeInv, NEW r \in Requests, ReadForConfirm(r)
    PROVE  TypeInv'
<1> DEFINE v == Max(Latest("pending_confirmation"))
           new == [op |-> "confirm", pending |-> TRUE, plan |-> v]
<1>1. /\ UNCHANGED <<campaign, plan, target, pass, kept, prep, txn, used>>
      /\ req' = [req EXCEPT ![r] = new] /\ Latest("pending_confirmation") # {}
  BY DEF ReadForConfirm
<1>2. v \in DOMAIN plan /\ v \in Nat
  <2>1. Latest("pending_confirmation") \in SUBSET (1..Len(plan)) /\ Len(plan) \in Nat
    BY Domains DEF Latest
  <2>2. v \in 1..Len(plan)
    BY <1>1, <2>1, MaxOfSome
  <2>3. QED
    BY <2>1, <2>2, Domains
<1> HIDE DEF v
<1>3. new \in Request /\ new.op = "confirm" /\ new.plan = v
  BY <1>2 DEF Request
<1> HIDE DEF new
<1>4. req' \in [Requests -> Request] /\ \A q \in Requests : req'[q] = IF q = r THEN new ELSE req[q]
  BY <1>1, <1>3 DEF TypeInv
<1>5. \A q \in Requests : /\ req'[q].op = "replace" => req'[q].plan < MaxPlans
                          /\ req'[q].op = "confirm" => req'[q].plan \in DOMAIN plan
  BY <1>1, <1>2, <1>3, <1>4 DEF TypeInv
<1>6. TypeOK'
  BY <1>1, <1>4 DEF TypeInv, TypeOK, Request
<1>7. QED
  BY <1>1, <1>4, <1>5, <1>6 DEF TypeInv

(* A request is done.                                                      *)
LEMMA RequestDone ==
    ASSUME TypeInv, NEW r \in Requests, req' = [req EXCEPT ![r] = NoRequest]
    PROVE  /\ req' \in [Requests -> Request] /\ req'[r] = NoRequest
           /\ \A q \in Requests : q # r => req'[q] = req[q]
           /\ \A q \in Requests : req'[q].op # "none" => q # r
           /\ \A q \in Requests : req'[q].op \in {"none", "replace", "confirm"}
<1>1. NoRequest \in Request /\ NoRequest.op = "none"
  BY DEF NoRequest, Request
<1>2. req' \in [Requests -> Request] /\ req'[r] = NoRequest
      /\ \A q \in Requests : q # r => req'[q] = req[q]
  BY <1>1 DEF TypeInv
<1>3. \A q \in Requests : req'[q].op \in {"none", "replace", "confirm"}
  BY <1>2 DEF Request
<1>4. QED
  BY <1>1, <1>2, <1>3

(* ... by a new plan,                                                      *)
LEMMA TypeReplace ==
    ASSUME TypeInv, NEW r \in Requests, Replace(r)
    PROVE  TypeInv'
<1> DEFINE latest == req[r].plan
<1>1. /\ UNCHANGED <<pass, kept, prep, txn, used>>
      /\ req' = [req EXCEPT ![r] = NoRequest]
      /\ req[r].op = "replace"
  BY DEF Replace
<1>2. /\ latest \in Nat /\ latest < MaxPlans /\ req[r].pending \in BOOLEAN
  BY <1>1 DEF TypeInv, Request
<1>3. CASE Len(plan) # latest
  <2>1. UNCHANGED <<plan, target, campaign>>
    BY <1>3 DEF Replace
  <2>2. TypeOK'
    BY <1>1, <2>1, RequestDone DEF TypeInv, TypeOK
  <2>3. \A q \in Requests : /\ req'[q].op = "replace" => req'[q].plan < MaxPlans
                            /\ req'[q].op = "confirm" => req'[q].plan \in DOMAIN plan
    BY <1>1, RequestDone DEF TypeInv
  <2>4. QED
    BY <1>1, <2>1, <2>2, <2>3, RequestDone DEF TypeInv
<1>4. CASE Len(plan) = latest
  <2>1. /\ plan' = NextPlans(latest, req[r].pending) /\ target' = NextTargets
        /\ campaign' = "planning"
    BY <1>4 DEF Replace, NextPlans, NextTargets
  <2> HIDE DEF latest
  <2>2. /\ plan' \in Seq(PlanStatuses) /\ Len(plan') = latest + 1
        /\ DOMAIN plan' = 1..(latest + 1)
        /\ target' \in Seq([Targets -> TargetRow]) /\ Len(target') = latest + 1
    BY <1>2, <1>4, <2>1, NewPlan
  <2>3. DOMAIN plan \subseteq DOMAIN plan' /\ latest + 1 <= MaxPlans
    <3>1. DOMAIN plan = 1..latest /\ MaxPlans \in Nat
      BY <1>4, Domains, Numbers
    <3>2. QED
      BY <1>2, <2>2, <3>1
  <2>4. \A q \in Requests : /\ req'[q].op = "replace" => req'[q].plan < MaxPlans
                            /\ req'[q].op = "confirm" => req'[q].plan \in DOMAIN plan'
    BY <1>1, <2>3, RequestDone DEF TypeInv
  <2>5. TypeOK'
    BY <1>1, <2>1, <2>2, RequestDone DEF TypeInv, TypeOK, PlanStatuses
  <2>6. QED
    BY <1>1, <2>2, <2>3, <2>4, <2>5, RequestDone DEF TypeInv
<1>5. QED
  BY <1>3, <1>4

(* ... by a confirmation,                                                  *)
LEMMA TypeConfirm ==
    ASSUME TypeInv, NEW r \in Requests, Confirm(r)
    PROVE  TypeInv'
<1> DEFINE v == req[r].plan
           new == GuaranteedPasses(v)
           rows == [x \in Targets |-> [target[v][x] EXCEPT !.status = "queued",
                                                           !.reserved = GuaranteedTime(x)]]
<1>1. /\ UNCHANGED <<kept, prep, txn, used>>
      /\ req' = [req EXCEPT ![r] = NoRequest]
      /\ req[r].op = "confirm"
      /\ plan' = [plan EXCEPT ![v] = "confirmed"]
      /\ campaign' = "researching"
  BY DEF Confirm
<1>1p. pass' = [p \in Passes |-> IF p \in new THEN QueuedPass(GuaranteedTime(TargetOf(p)))
                                 ELSE pass[p]]
  BY DEF Confirm
<1>2. target' = [target EXCEPT ![v] = rows]
  BY DEF Confirm
<1>3. v \in DOMAIN plan /\ v \in DOMAIN target
  BY <1>1, Domains DEF TypeInv
<1>4. rows \in [Targets -> TargetRow]
  <2>1. ASSUME NEW x \in Targets
        PROVE  [target[v][x] EXCEPT !.status = "queued", !.reserved = GuaranteedTime(x)] \in TargetRow
    <3>1. target[v][x] \in TargetRow /\ GuaranteedTime(x) \in Nat
      BY <1>3, Domains, GuaranteedTimeTyped
    <3>2. QED
      BY <3>1 DEF TargetRow
  <2>2. QED
    BY <2>1
<1>5. \A p \in new : PlanOf(p) = v
  BY SMT DEF PlanOf, GuaranteedPasses
<1> HIDE DEF v, new, rows
<1>6. /\ target' \in Seq([Targets -> TargetRow]) /\ Len(target') = Len(target)
  BY <1>2, <1>3, <1>4, PutRows DEF TypeInv, TypeOK
<1>7. /\ plan' \in Seq(PlanStatuses) /\ Len(plan') = Len(plan) /\ DOMAIN plan' = DOMAIN plan
  BY <1>1, <1>3, PutPlan DEF PlanStatuses
<1>8. pass' \in [Passes -> PassRow]
  <2>1. \A p \in Passes : pass'[p] \in PassRow
    BY <1>1p, PassTyped, PassParts, GuaranteedTimeTyped DEF TypeInv, TypeOK
  <2>2. QED
    BY <1>1p, <2>1
<1>9. \A p \in Passes : pass'[p] # NoPass => PlanOf(p) \in DOMAIN plan
  BY <1>1p, <1>3, <1>5 DEF TypeInv
<1>10. \A q \in Requests : /\ req'[q].op = "replace" => req'[q].plan < MaxPlans
                           /\ req'[q].op = "confirm" => req'[q].plan \in DOMAIN plan
  BY <1>1, RequestDone DEF TypeInv
<1>11. TypeOK'
  BY <1>1, <1>6, <1>7, <1>8, RequestDone DEF TypeInv, TypeOK, PlanStatuses
<1>12. QED
  BY <1>1, <1>7, <1>9, <1>10, <1>11, RequestDone DEF TypeInv

(* Of the operator's other commands and of the steps of a pass it is       *)
(* enough that the pass or the row they put in place is typed.             *)
LEMMA TypeOfPasses ==
    ASSUME TypeInv, UNCHANGED <<plan, target, kept, prep, req, txn>>,
           campaign' \in {"planning", "researching", "paused", "active", "preparing"},
           used' \in [{"pause", "resolve", "reopen", "fault"} -> Nat],
           pass' \in [Passes -> PassRow],
           \A p \in Passes : pass'[p] # NoPass => pass[p] # NoPass
    PROVE  TypeInv'
<1>1. TypeOK'
  BY DEF TypeInv, TypeOK
<1>2. QED
  BY <1>1 DEF TypeInv

(* Spending from a bound keeps what is used typed.                         *)
LEMMA SpendTyped ==
    ASSUME TypeInv, NEW request \in {"pause", "resolve", "reopen", "fault"}, NEW bound,
           Spend(request, bound)
    PROVE  used' \in [{"pause", "resolve", "reopen", "fault"} -> Nat]
<1>1. used[request] \in Nat /\ used' = [used EXCEPT ![request] = used[request] + 1]
  BY DEF TypeInv, Spend
<1>2. used[request] + 1 \in Nat
  BY <1>1
<1>3. QED
  BY <1>1, <1>2 DEF TypeInv

(* The type invariant is kept by a pause of the campaign,                  *)
LEMMA TypePause == ASSUME TypeInv, Pause PROVE TypeInv'
<1>1. /\ Spend("pause", MaxPauses) /\ campaign' = "paused"
      /\ UNCHANGED <<plan, target, kept, prep, req, txn>>
      /\ pass' = [p \in Passes |-> IF pass[p].status \in {"queued", "retry"}
                                   THEN [pass[p] EXCEPT !.status = "paused"] ELSE pass[p]]
  BY DEF Pause
<1>2. pass \in [Passes -> PassRow] /\ "paused" \in PassStatuses
  BY DEF TypeInv, TypeOK, PassStatuses
<1>3. \A p \in Passes : /\ pass'[p] \in PassRow
                        /\ pass'[p] # NoPass => pass[p] # NoPass
  <2>1. ASSUME NEW p \in Passes, pass[p].status \in {"queued", "retry"}
        PROVE  pass'[p] \in PassRow
    BY <1>1, <1>2, <2>1 DEF PassRow
  <2>2. \A p \in Passes : pass[p].status \in {"queued", "retry"} => pass[p] # NoPass
    BY DEF NoPass
  <2>3. QED
    BY <1>1, <1>2, <2>1, <2>2
<1>4. QED
  BY <1>1, <1>3, SpendTyped, TypeOfPasses

(* ... by its resumption,                                                  *)
LEMMA TypeResume == ASSUME TypeInv, Resume PROVE TypeInv'
<1>1. /\ campaign' = "active" /\ UNCHANGED <<plan, target, kept, prep, req, txn, used>>
      /\ pass' = [p \in Passes |-> IF pass[p].status = "paused"
                                   THEN [pass[p] EXCEPT !.status = "queued"] ELSE pass[p]]
  BY DEF Resume
<1>2. pass \in [Passes -> PassRow] /\ "queued" \in PassStatuses
  BY DEF TypeInv, TypeOK, PassStatuses
<1>3. \A p \in Passes : /\ pass'[p] \in PassRow
                        /\ pass'[p] # NoPass => pass[p] # NoPass
  <2>1. ASSUME NEW p \in Passes, pass[p].status = "paused" PROVE pass'[p] \in PassRow
    BY <1>1, <1>2, <2>1 DEF PassRow
  <2>2. \A p \in Passes : pass[p].status = "paused" => pass[p] # NoPass
    BY DEF NoPass
  <2>3. QED
    BY <1>1, <1>2, <2>1, <2>2
<1>4. used' \in [{"pause", "resolve", "reopen", "fault"} -> Nat]
  BY <1>1 DEF TypeInv
<1>5. QED
  BY <1>1, <1>3, <1>4, TypeOfPasses

(* One pass is changed.                                                    *)
LEMMA PutPass ==
    ASSUME TypeInv, NEW p \in Passes, NEW row \in PassRow, pass' = [pass EXCEPT ![p] = row]
    PROVE  /\ pass' \in [Passes -> PassRow] /\ pass'[p] = row
           /\ \A q \in Passes : q # p => pass'[q] = pass[q]
<1>1. pass \in [Passes -> PassRow]
  BY DEF TypeInv, TypeOK
<1>2. QED
  BY <1>1

(* What resolving the exception of a pass does.                            *)
LEMMA ResolveEffect ==
    ASSUME TypeInv, NEW p \in Passes, Resolve(p)
    PROVE  /\ UNCHANGED <<campaign, plan, target, kept, prep, req, txn>>
           /\ pass' \in [Passes -> PassRow] /\ pass'[p].status = "queued"
           /\ pass'[p].budget = pass[p].budget
           /\ \A q \in Passes : q # p => pass'[q] = pass[q]
<1> DEFINE row == [pass[p] EXCEPT !.status = "queued", !.attempts = 0]
<1>1. UNCHANGED <<campaign, plan, target, kept, prep, req, txn>>
  BY DEF Resolve
<1>2. pass[p] \in PassRow
  BY DEF TypeInv, TypeOK
<1>3. pass' = [pass EXCEPT ![p] = row]
  BY DEF Resolve
<1>4. row \in PassRow /\ row.status = "queued" /\ row.budget = pass[p].budget
  BY <1>2 DEF PassRow, PassStatuses
<1> HIDE DEF row
<1>5. QED
  BY <1>1, <1>3, <1>4, PutPass

(* The type invariant is kept by a resolved exception,                     *)
LEMMA TypeResolve == ASSUME TypeInv, NEW p \in Passes, Resolve(p) PROVE TypeInv'
<1>1. /\ UNCHANGED <<campaign, plan, target, kept, prep, req, txn>>
      /\ pass' \in [Passes -> PassRow]
      /\ \A q \in Passes : q # p => pass'[q] = pass[q]
  BY ResolveEffect
<1>2. used' \in [{"pause", "resolve", "reopen", "fault"} -> Nat]
  BY SpendTyped DEF Resolve
<1>3. pass[p] # NoPass
  BY DEF Resolve, NoPass
<1>4. QED
  BY <1>1, <1>2, <1>3, TypeOfPasses DEF TypeInv, TypeOK

(* ... and by a preparation task that rests or goes on.                    *)
LEMMA TypePrepChanges == ASSUME TypeInv, NEW c \in Candidates, PrepChanges(c) PROVE TypeInv'
<1>1. /\ UNCHANGED <<campaign, plan, target, pass, kept, req, txn, used>>
      /\ prep' = [prep EXCEPT ![c] = IF prep[c] = "live" THEN "resting" ELSE "live"]
  BY DEF PrepChanges
<1>2. prep' \in [Candidates -> {"none", "live", "resting"}]
  BY <1>1 DEF TypeInv, TypeOK
<1>3. TypeOK'
  BY <1>1, <1>2 DEF TypeInv, TypeOK
<1>4. QED
  BY <1>1, <1>3 DEF TypeInv

(* An attempted pass, put back or blocked, is a pass.                      *)
LEMMA AttemptedTyped ==
    ASSUME NEW p \in Passes, pass[p] \in PassRow
    PROVE  /\ Attempted(p) \in PassRow /\ Attempted(p).status = "running"
           /\ Attempted(p).budget = pass[p].budget
<1> DEFINE old == pass[p]
           now == [old EXCEPT !.status = "running", !.attempts = old.attempts + 1]
<1>1. Attempted(p) = now
  BY DEF Attempted
<1>2. old.attempts + 1 \in Nat /\ "running" \in PassStatuses
  BY DEF PassRow, PassStatuses
<1>3. old \in PassRow
  OBVIOUS
<1> HIDE DEF old
<1>4. now \in PassRow /\ now.status = "running" /\ now.budget = old.budget
  BY <1>2, <1>3 DEF PassRow
<1> HIDE DEF now
<1>5. QED
  BY <1>1, <1>4 DEF old

(* A pass is launched: it runs, and its target is searched.                *)
LEMMA LaunchEffect ==
    ASSUME TypeInv, NEW p \in Passes, Launch(p)
    PROVE  /\ UNCHANGED <<campaign, plan, kept, prep, req, txn, used>>
           /\ PlanOf(p) \in DOMAIN plan /\ pass[p].status \in {"queued", "retry"}
           /\ pass' \in [Passes -> PassRow] /\ pass'[p].status = "running"
           /\ pass'[p].budget = pass[p].budget
           /\ \A q \in Passes : q # p => pass'[q] = pass[q]
           /\ target' \in Seq([Targets -> TargetRow]) /\ Len(target') = Len(target)
           /\ \A u \in DOMAIN plan, y \in Targets :
                 target'[u][y] = IF u = PlanOf(p) /\ y = TargetOf(p)
                                 THEN [target[u][y] EXCEPT !.status = "searching"]
                                 ELSE target[u][y]
<1> DEFINE old == target[PlanOf(p)][TargetOf(p)]
           row == [old EXCEPT !.status = "searching"]
<1>1. /\ UNCHANGED <<campaign, plan, kept, prep, req, txn, used>>
      /\ pass[p].status \in {"queued", "retry"}
      /\ pass' = [pass EXCEPT ![p] = Attempted(p)]
  BY DEF Launch, Put
<1>2. target' = [target EXCEPT ![PlanOf(p)][TargetOf(p)] = row]
  BY DEF Launch
<1>3. PlanOf(p) \in DOMAIN plan /\ PlanOf(p) \in DOMAIN target /\ TargetOf(p) \in Targets
  BY <1>1, Domains, PassParts DEF TypeInv, NoPass
<1>4. old \in TargetRow
  BY <1>3, Domains
<1>5. row \in TargetRow
  BY <1>4 DEF TargetRow
<1>6. pass[p] \in PassRow
  BY DEF TypeInv, TypeOK
<1>7. /\ Attempted(p) \in PassRow /\ Attempted(p).status = "running"
      /\ Attempted(p).budget = pass[p].budget
  BY <1>6, AttemptedTyped
<1>8. /\ pass' \in [Passes -> PassRow] /\ pass'[p] = Attempted(p)
      /\ \A q \in Passes : q # p => pass'[q] = pass[q]
  BY <1>1, <1>7, PutPass
<1> HIDE DEF row
<1>9. /\ target' \in Seq([Targets -> TargetRow]) /\ Len(target') = Len(target)
      /\ \A u \in DOMAIN target, y \in Targets :
            target'[u][y] = IF u = PlanOf(p) /\ y = TargetOf(p) THEN row ELSE target[u][y]
  BY <1>2, <1>3, <1>5, PutRow DEF TypeInv, TypeOK
<1>10. QED
  BY <1>1, <1>3, <1>7, <1>8, <1>9, Domains DEF row

(* A step that leaves the plan, requests and transactions alone keeps the  *)
(* invariant when its passes and rows are typed.                           *)
LEMMA TypeOfRows ==
    ASSUME TypeInv, UNCHANGED <<campaign, plan, kept, prep, req, txn, used>>,
           pass' \in [Passes -> PassRow],
           \A p \in Passes : pass'[p] # NoPass => PlanOf(p) \in DOMAIN plan,
           target' \in Seq([Targets -> TargetRow]), Len(target') = Len(target)
    PROVE  TypeInv'
<1>1. TypeOK'
  BY DEF TypeInv, TypeOK
<1>2. QED
  BY <1>1 DEF TypeInv

(* The type invariant is kept by a launch,                                 *)
LEMMA TypeLaunch == ASSUME TypeInv, NEW p \in Passes, Launch(p) PROVE TypeInv'
<1>1. \A q \in Passes : pass'[q] # NoPass => PlanOf(q) \in DOMAIN plan
  BY LaunchEffect DEF TypeInv
<1>2. QED
  BY <1>1, LaunchEffect, TypeOfRows

(* A launch fails: the pass is put back or blocked.                        *)
LEMMA LaunchFailsEffect ==
    ASSUME TypeInv, NEW p \in Passes, LaunchFails(p)
    PROVE  /\ UNCHANGED <<campaign, plan, target, kept, prep, req, txn, used>>
           /\ PlanOf(p) \in DOMAIN plan /\ pass[p].status \in {"queued", "retry"}
           /\ pass' \in [Passes -> PassRow] /\ pass'[p].status \in {"retry", "blocked"}
           /\ pass'[p].budget = pass[p].budget
           /\ \A q \in Passes : q # p => pass'[q] = pass[q]
<1> DEFINE now == [Attempted(p) EXCEPT !.status = "blocked", !.exc = TRUE]
<1>1. /\ UNCHANGED <<campaign, plan, target, kept, prep, req, txn, used>>
      /\ pass[p].status \in {"queued", "retry"}
      /\ \E row \in {Failed(Attempted(p)), now} : pass' = [pass EXCEPT ![p] = row]
  BY DEF LaunchFails, Put
<1>2. PlanOf(p) \in DOMAIN plan
  BY <1>1 DEF TypeInv, NoPass
<1>3. pass[p] \in PassRow
  BY DEF TypeInv, TypeOK
<1>4. Attempted(p) \in PassRow /\ Attempted(p).budget = pass[p].budget
  BY <1>3, AttemptedTyped
<1>5. /\ Failed(Attempted(p)) \in PassRow
      /\ Failed(Attempted(p)).status \in {"retry", "blocked"}
      /\ Failed(Attempted(p)).budget = pass[p].budget
  BY <1>4, PassTyped
<1>6. now \in PassRow /\ now.status = "blocked" /\ now.budget = pass[p].budget
  BY <1>4 DEF PassRow, PassStatuses
<1> HIDE DEF now
<1>7. PICK row \in {Failed(Attempted(p)), now} : pass' = [pass EXCEPT ![p] = row]
  BY <1>1
<1>8. row \in PassRow /\ row.status \in {"retry", "blocked"} /\ row.budget = pass[p].budget
  BY <1>5, <1>6, <1>7
<1>9. /\ pass' \in [Passes -> PassRow] /\ pass'[p] = row
      /\ \A q \in Passes : q # p => pass'[q] = pass[q]
  BY <1>7, <1>8, PutPass
<1>10. QED
  BY <1>1, <1>2, <1>8, <1>9

(* The type invariant is kept by a launch that fails,                      *)
LEMMA TypeLaunchFails == ASSUME TypeInv, NEW p \in Passes, LaunchFails(p) PROVE TypeInv'
<1>1. \A q \in Passes : pass'[q] # NoPass => PlanOf(q) \in DOMAIN plan
  BY LaunchFailsEffect DEF TypeInv
<1>2. QED
  BY <1>1, LaunchFailsEffect, TypeOfRows DEF TypeInv, TypeOK

(* A reconcile raises: the pass is put back or blocked, what it has found  *)
(* is kept.                                                                *)
LEMMA ReconcileFailsEffect ==
    ASSUME TypeInv, NEW p \in Passes, ReconcileFails(p)
    PROVE  /\ UNCHANGED <<campaign, plan, kept, prep, req, txn, used>>
           /\ PlanOf(p) \in DOMAIN plan /\ pass[p].status = "running"
           /\ \A w \in Workers : txn[w].open => txn[w].pass # p
           /\ pass' \in [Passes -> PassRow] /\ pass'[p].status \in {"retry", "blocked"}
           /\ pass'[p].budget = pass[p].budget
           /\ \A q \in Passes : q # p => pass'[q] = pass[q]
           /\ target' \in Seq([Targets -> TargetRow]) /\ Len(target') = Len(target)
           /\ \A u \in DOMAIN plan, y \in Targets :
                 /\ target'[u][y].status = target[u][y].status
                 /\ target'[u][y].leases = target[u][y].leases
                 /\ target'[u][y].consumed = target[u][y].consumed
                 /\ target'[u][y].reserved = target[u][y].reserved
                 /\ u # PlanOf(p) \/ y # TargetOf(p) => target'[u][y] = target[u][y]
<1> DEFINE old == target[PlanOf(p)][TargetOf(p)]
<1>1. /\ UNCHANGED <<campaign, plan, kept, prep, req, txn, used>>
      /\ pass[p].status = "running" /\ \A w \in Workers : txn[w].open => txn[w].pass # p
      /\ pass' = [pass EXCEPT ![p] = Failed(pass[p])]
  BY DEF ReconcileFails, Put
<1>2. PICK row \in Grown(old) : target' = [target EXCEPT ![PlanOf(p)][TargetOf(p)] = row]
  BY DEF ReconcileFails
<1>3. PlanOf(p) \in DOMAIN plan /\ PlanOf(p) \in DOMAIN target /\ TargetOf(p) \in Targets
  BY <1>1, Domains, PassParts DEF TypeInv, NoPass
<1>4. old \in TargetRow
  BY <1>3, Domains
<1> HIDE DEF old
<1>5. /\ row \in TargetRow /\ row.status = old.status /\ row.leases = old.leases
      /\ row.consumed = old.consumed /\ row.reserved = old.reserved
  BY <1>4, GrownTyped
<1>6. pass[p] \in PassRow
  BY DEF TypeInv, TypeOK
<1>7. /\ Failed(pass[p]) \in PassRow /\ Failed(pass[p]).status \in {"retry", "blocked"}
      /\ Failed(pass[p]).budget = pass[p].budget
  BY <1>6, PassTyped
<1>8. /\ pass' \in [Passes -> PassRow] /\ pass'[p] = Failed(pass[p])
      /\ \A q \in Passes : q # p => pass'[q] = pass[q]
  BY <1>1, <1>7, PutPass
<1>9. /\ target' \in Seq([Targets -> TargetRow]) /\ Len(target') = Len(target)
      /\ \A u \in DOMAIN target, y \in Targets :
            target'[u][y] = IF u = PlanOf(p) /\ y = TargetOf(p) THEN row ELSE target[u][y]
  BY <1>2, <1>3, <1>5, PutRow DEF TypeInv, TypeOK
<1>10. QED
  BY <1>1, <1>3, <1>5, <1>7, <1>8, <1>9, Domains DEF old

(* The type invariant is kept by a reconcile that fails,                   *)
LEMMA TypeReconcileFails ==
    ASSUME TypeInv, NEW p \in Passes, ReconcileFails(p) PROVE TypeInv'
<1>1. \A q \in Passes : pass'[q] # NoPass => PlanOf(q) \in DOMAIN plan
  BY ReconcileFailsEffect DEF TypeInv
<1>2. QED
  BY <1>1, ReconcileFailsEffect, TypeOfRows

(* The fields of an open transaction.                                      *)
LEMMA TxnTyped ==
    ASSUME TypeInv, NEW w \in Workers, txn[w].open
    PROVE  /\ txn[w].pass \in Passes /\ txn[w].row \in TargetRow
           /\ PlanOf(txn[w].pass) \in DOMAIN plan /\ TargetOf(txn[w].pass) \in Targets
<1>1. txn[w] \in OpenTxn
  <2>1. txn[w] \in {NoTxn} \cup OpenTxn
    BY DEF TypeInv
  <2>2. ~NoTxn.open
    BY DEF NoTxn
  <2>3. QED
    BY <2>1, <2>2
<1>2. txn[w].pass \in Passes /\ txn[w].row \in TargetRow
  BY <1>1 DEF OpenTxn
<1>3. QED
  BY <1>2, PassParts DEF TypeInv

(* A transaction is opened: its row is the pass's, ended.                  *)
LEMMA SettleEffect ==
    ASSUME TypeInv, NEW w \in Workers, NEW p \in Passes, Settle(w, p)
    PROVE  /\ UNCHANGED <<campaign, plan, target, pass, kept, prep, req, used>>
           /\ ~txn[w].open /\ pass[p].status = "running"
           /\ \A u \in Workers : txn[u].open => txn[u].pass # p
           /\ PlanOf(p) \in DOMAIN plan
           /\ txn' \in [Workers -> {NoTxn} \cup OpenTxn]
           /\ \A u \in Workers : u # w => txn'[u] = txn[u]
           /\ txn'[w].open /\ txn'[w].pass = p /\ txn'[w].row \in TargetRow
           /\ txn'[w].row.status \in TerminalTarget /\ txn'[w].row.reserved = 0
           /\ txn'[w].row.leases = target[PlanOf(p)][TargetOf(p)].leases
           /\ txn'[w].row.consumed
                 <= target[PlanOf(p)][TargetOf(p)].consumed + pass[p].budget + Overrun
<1> DEFINE old == target[PlanOf(p)][TargetOf(p)]
           new(row) == [open |-> TRUE, pass |-> p, row |-> row]
<1>1. /\ UNCHANGED <<campaign, plan, target, pass, kept, prep, req, used>>
      /\ ~txn[w].open /\ pass[p].status = "running"
      /\ \A u \in Workers : txn[u].open => txn[u].pass # p
  BY DEF Settle
<1>2. PICK grown \in Grown(old), failed \in BOOLEAN,
           elapsed \in {0, pass[p].budget, pass[p].budget + Overrun} :
         txn' = [txn EXCEPT ![w] = new(Settled(p, failed, elapsed, grown))]
  BY DEF Settle
<1>3. PlanOf(p) \in DOMAIN plan /\ TargetOf(p) \in Targets
  BY <1>1, PassParts DEF TypeInv, NoPass
<1>4. old \in TargetRow /\ old.consumed \in Nat
  BY <1>3, Domains DEF TargetRow
<1> HIDE DEF old
<1>5. /\ grown \in TargetRow /\ grown.leases = old.leases
      /\ grown.consumed = old.consumed
  BY <1>4, GrownTyped
<1>6. elapsed \in Nat /\ elapsed <= pass[p].budget + Overrun
  <2>1. pass[p].budget \in Nat /\ Overrun \in Nat
    BY Numbers DEF TypeInv, TypeOK, PassRow
  <2>2. QED
    BY <2>1
<1> DEFINE row == Settled(p, failed, elapsed, grown)
<1>7. /\ row \in TargetRow /\ row.status \in TerminalTarget /\ row.reserved = 0
      /\ row.leases = old.leases /\ row.consumed = old.consumed + elapsed
  BY <1>5, <1>6, SettledTyped
<1> HIDE DEF row
<1>8. new(row) \in OpenTxn /\ new(row).open /\ new(row).pass = p /\ new(row).row = row
  BY <1>7 DEF OpenTxn
<1>9. txn' = [txn EXCEPT ![w] = new(row)]
  BY <1>2 DEF row
<1> HIDE DEF new
<1>10. /\ txn' \in [Workers -> {NoTxn} \cup OpenTxn] /\ txn'[w] = new(row)
       /\ \A u \in Workers : u # w => txn'[u] = txn[u]
  BY <1>8, <1>9 DEF TypeInv
<1>11. row.consumed <= old.consumed + pass[p].budget + Overrun
  <2>1. pass[p].budget \in Nat /\ Overrun \in Nat
    BY Numbers DEF TypeInv, TypeOK, PassRow
  <2>2. QED
    BY <1>4, <1>6, <1>7, <2>1
<1>12. QED
  BY <1>1, <1>3, <1>7, <1>8, <1>10, <1>11 DEF old

(* The type invariant is kept by a settled outcome,                        *)
LEMMA TypeSettle ==
    ASSUME TypeInv, NEW w \in Workers, NEW p \in Passes, Settle(w, p) PROVE TypeInv'
<1>1. \A u \in Workers : txn'[u].open =>
          PlanOf(txn'[u].pass) \in DOMAIN plan /\ txn'[u].row \in TargetRow
  BY SettleEffect, TxnTyped DEF TypeInv
<1>2. TypeOK'
  BY <1>1, SettleEffect DEF TypeInv, TypeOK
<1>3. QED
  BY <1>1, <1>2, SettleEffect DEF TypeInv

(* A transaction is closed.                                                *)
LEMMA TxnClosed ==
    ASSUME TypeInv, NEW w \in Workers, txn' = [txn EXCEPT ![w] = NoTxn]
    PROVE  /\ txn' \in [Workers -> {NoTxn} \cup OpenTxn]
           /\ \A u \in Workers : u # w => txn'[u] = txn[u]
           /\ ~txn'[w].open
           /\ \A u \in Workers : txn'[u].open => u # w /\ txn[u].open
<1>1. /\ txn' \in [Workers -> {NoTxn} \cup OpenTxn] /\ txn'[w] = NoTxn
      /\ \A u \in Workers : u # w => txn'[u] = txn[u]
  BY DEF TypeInv
<1>2. ~NoTxn.open
  BY DEF NoTxn
<1>3. QED
  BY <1>1, <1>2

(* ... and by a transaction that is rolled back.                           *)
LEMMA TypeRollBack == ASSUME TypeInv, NEW w \in Workers, RollBack(w) PROVE TypeInv'
<1>1. /\ UNCHANGED <<campaign, plan, target, pass, kept, prep, req>>
      /\ txn' = [txn EXCEPT ![w] = NoTxn] /\ Spend("fault", MaxFaults)
  BY DEF RollBack
<1>2. \A u \in Workers : txn'[u].open =>
          PlanOf(txn'[u].pass) \in DOMAIN plan /\ txn'[u].row \in TargetRow
  BY <1>1, TxnClosed, TxnTyped DEF TypeInv
<1>3. used' \in [{"pause", "resolve", "reopen", "fault"} -> Nat]
  BY <1>1, SpendTyped
<1>4. TypeOK'
  BY <1>1, <1>2 DEF TypeInv, TypeOK
<1>5. QED
  BY <1>1, <1>2, <1>3, <1>4, TxnClosed DEF TypeInv

(* A decision waits for others, leases what is left, or completes the plan.*)
LEMMA DecideCases ==
    ASSUME NEW w \in Workers, Decide(w)
    PROVE  /\ txn[w].open /\ txn' = [txn EXCEPT ![w] = NoTxn] /\ UNCHANGED <<req, used>>
           /\ DecideWaits(w) \/ DecideLeases(w) \/ DecideCompletes(w)
BY DEF Decide

(* The rows and passes a deciding worker sees.                             *)
LEMMA OwnTyped ==
    ASSUME TypeInv, NEW w \in Workers, txn[w].open
    PROVE  /\ Own(w) \in Seq([Targets -> TargetRow]) /\ Len(Own(w)) = Len(target)
           /\ DOMAIN Own(w) = DOMAIN plan
           /\ \A u \in DOMAIN plan : Own(w)[u] \in [Targets -> TargetRow]
           /\ \A u \in DOMAIN plan, y \in Targets :
                 Own(w)[u][y] = IF u = PlanOf(txn[w].pass) /\ y = TargetOf(txn[w].pass)
                                THEN txn[w].row ELSE target[u][y]
<1>1. /\ txn[w].row \in TargetRow /\ PlanOf(txn[w].pass) \in DOMAIN target
      /\ TargetOf(txn[w].pass) \in Targets
      /\ target \in Seq([Targets -> TargetRow]) /\ DOMAIN target = DOMAIN plan
      /\ DOMAIN plan = 1..Len(plan) /\ Len(plan) = Len(target)
  BY TxnTyped, Domains DEF TypeInv, TypeOK
<1>2. /\ Own(w) \in Seq([Targets -> TargetRow]) /\ Len(Own(w)) = Len(target)
      /\ DOMAIN Own(w) = DOMAIN plan
      /\ \A u \in DOMAIN plan, y \in Targets :
            Own(w)[u][y] = IF u = PlanOf(txn[w].pass) /\ y = TargetOf(txn[w].pass)
                           THEN txn[w].row ELSE target[u][y]
  BY <1>1, PutRow DEF Own
<1>3. \A u \in DOMAIN plan : Own(w)[u] \in [Targets -> TargetRow]
  BY <1>1, <1>2, ElementOfSeq
<1>4. QED
  BY <1>2, <1>3

(* The passes as the worker's transaction sees them.                       *)
LEMMA DoneTyped ==
    ASSUME TypeInv, NEW w \in Workers, txn[w].open
    PROVE  /\ Done(w) \in [Passes -> PassRow] /\ Done(w)[txn[w].pass].status = "completed"
           /\ Done(w)[txn[w].pass].budget = pass[txn[w].pass].budget
           /\ \A q \in Passes : q # txn[w].pass => Done(w)[q] = pass[q]
<1> DEFINE p == txn[w].pass
           row == [pass[p] EXCEPT !.status = "completed"]
<1>1. p \in Passes /\ pass \in [Passes -> PassRow]
  BY TxnTyped DEF TypeInv, TypeOK
<1>2. Done(w) = [pass EXCEPT ![p] = row]
  BY DEF Done
<1>3. row \in PassRow /\ row.status = "completed" /\ row.budget = pass[p].budget
  BY <1>1 DEF PassRow, PassStatuses
<1> HIDE DEF p, row
<1>4. Done(w) \in [Passes -> PassRow] /\ Done(w)[p] = row
      /\ \A q \in Passes : q # p => Done(w)[q] = pass[q]
  BY <1>1, <1>2, <1>3
<1>5. QED
  BY <1>3, <1>4 DEF p

(* The plan it decides about is confirmed.                                 *)
LEMMA DecidedTyped ==
    ASSUME TypeInv, Latest("confirmed") # {}
    PROVE  Decided \in DOMAIN plan /\ plan[Decided] = "confirmed"
<1>1. Latest("confirmed") \in SUBSET (1..Len(plan)) /\ Len(plan) \in Nat
  BY Domains DEF Latest
<1>2. Decided \in Latest("confirmed")
  BY <1>1, MaxOfSome DEF Decided
<1>3. QED
  BY <1>2 DEF Latest

(* Which passes are the shared ones of some targets.                       *)
LEMMA SharedPassesAre ==
    ASSUME NEW v, NEW rows \in [Targets -> TargetRow], NEW L \in SUBSET Targets, NEW q \in Passes
    PROVE  q \in SharedPasses(v, rows, L) <=>
              /\ PlanOf(q) = v /\ TargetOf(q) \in L
              /\ q[3] = rows[TargetOf(q)].leases + 1 /\ q[4] = 1
BY SMT DEF SharedPasses, PlanOf, TargetOf, Passes

(* What a decision to lease does to the rows and the passes.               *)
LEMMA DecideLeasesEffect ==
    ASSUME TypeInv, NEW w \in Workers, txn[w].open, DecideLeases(w),
           NEW rows, rows = Own(w)[Decided], NEW L, L = Leased(rows)
    PROVE  /\ Last(w) /\ L # {} /\ L \subseteq Targets /\ rows \in [Targets -> TargetRow]
           /\ Decided \in DOMAIN plan /\ plan[Decided] = "confirmed"
           /\ UNCHANGED <<campaign, plan, kept, prep>>
           /\ target' \in Seq([Targets -> TargetRow]) /\ Len(target') = Len(target)
           /\ \A u \in DOMAIN plan, y \in Targets :
                 target'[u][y] = IF u = Decided /\ y \in L THEN WithLease(rows, y)
                                 ELSE Own(w)[u][y]
           /\ \A u \in DOMAIN plan : u # Decided => target'[u] = Own(w)[u]
           /\ pass' \in [Passes -> PassRow]
           /\ \A q \in Passes :
                 pass'[q] = IF /\ PlanOf(q) = Decided /\ TargetOf(q) \in L
                               /\ q[3] = rows[TargetOf(q)].leases + 1 /\ q[4] = 1
                            THEN QueuedPass(LeaseFor(rows, TargetOf(q))) ELSE Done(w)[q]
<1>1. /\ Last(w) /\ L # {} /\ UNCHANGED <<campaign, plan, kept, prep>>
      /\ target' = [Own(w) EXCEPT ![Decided] = SharedRows(rows, L)]
      /\ pass' = [q \in Passes |-> IF q \in SharedPasses(Decided, rows, L)
                                   THEN QueuedPass(LeaseFor(rows, TargetOf(q)))
                                   ELSE Done(w)[q]]
  BY DEF DecideLeases
<1>2. Decided \in DOMAIN plan /\ plan[Decided] = "confirmed"
  BY <1>1, DecidedTyped DEF Last
<1>3. rows \in [Targets -> TargetRow]
  BY <1>2, OwnTyped
<1>4. L \subseteq Targets /\ \A x \in L : LeaseFor(rows, x) \in Nat
  BY <1>3, LeaseTyped
<1>5. /\ SharedRows(rows, L) \in [Targets -> TargetRow]
      /\ \A x \in Targets : SharedRows(rows, L)[x] = IF x \in L THEN WithLease(rows, x)
                                                     ELSE rows[x]
  BY <1>3, WithLeaseTyped DEF SharedRows
<1>6. /\ target' \in Seq([Targets -> TargetRow]) /\ Len(target') = Len(Own(w))
      /\ \A u \in DOMAIN Own(w) : target'[u] = IF u = Decided THEN SharedRows(rows, L)
                                               ELSE Own(w)[u]
  BY <1>1, <1>2, <1>5, OwnTyped, PutRows
<1>7. \A u \in DOMAIN plan, y \in Targets :
          target'[u][y] = IF u = Decided /\ y \in L THEN WithLease(rows, y)
                          ELSE Own(w)[u][y]
  BY <1>5, <1>6, OwnTyped
<1>8. \A q \in Passes :
          pass'[q] = IF /\ PlanOf(q) = Decided /\ TargetOf(q) \in L
                        /\ q[3] = rows[TargetOf(q)].leases + 1 /\ q[4] = 1
                     THEN QueuedPass(LeaseFor(rows, TargetOf(q))) ELSE Done(w)[q]
  BY <1>1, <1>3, <1>4, SharedPassesAre
<1>9. pass' \in [Passes -> PassRow]
  <2>1. ASSUME NEW q \in Passes PROVE pass'[q] \in PassRow
    <3>1. \A x \in L : QueuedPass(LeaseFor(rows, x)) \in PassRow
      BY <1>4, PassTyped
    <3>2. Done(w)[q] \in PassRow
      BY DoneTyped
    <3>3. QED
      BY <1>8, <3>1, <3>2
  <2>2. QED
    BY <1>1, <2>1
<1>10. QED
  BY <1>1, <1>2, <1>3, <1>4, <1>6, <1>7, <1>8, <1>9, OwnTyped

(* What completing a plan does to the plans and the candidates.            *)
LEMMA FinalizeTyped ==
    ASSUME TypeInv, NEW v \in DOMAIN plan, NEW rows, Finalize(v, rows)
    PROVE  /\ plan' \in Seq(PlanStatuses) /\ Len(plan') = Len(plan)
           /\ DOMAIN plan' = DOMAIN plan
           /\ \A u \in DOMAIN plan : plan'[u] = IF u = v THEN "completed" ELSE plan[u]
           /\ kept' \in [Candidates -> {"no", "match", "needs_review"}]
           /\ prep' \in [Candidates -> {"none", "live", "resting"}]
           /\ campaign' \in {"preparing", "active"}
<1>1. PICK R \in Retentions(rows) :
         /\ plan' = [plan EXCEPT ![v] = "completed"]
         /\ kept' = [c \in Candidates |-> IF c \in R /\ kept[c] = "no"
                                          THEN BestScope(rows, c) ELSE kept[c]]
         /\ prep' = [c \in Candidates |-> IF c \in R /\ Initiative THEN "live" ELSE prep[c]]
         /\ campaign' = IF Initiative /\ R # {} THEN "preparing" ELSE "active"
  BY DEF Finalize
<1>2. \A c \in R : BestScope(rows, c) \in {"match", "needs_review"}
  BY DEF Retentions, Ranked, BestScope
<1>3. kept' \in [Candidates -> {"no", "match", "needs_review"}]
  <2>1. \A c \in Candidates : kept'[c] \in {"no", "match", "needs_review"}
    BY <1>1, <1>2 DEF TypeInv, TypeOK
  <2>2. QED
    BY <1>1, <2>1
<1>4. prep' \in [Candidates -> {"none", "live", "resting"}]
  <2>1. \A c \in Candidates : prep'[c] \in {"none", "live", "resting"}
    BY <1>1 DEF TypeInv, TypeOK
  <2>2. QED
    BY <1>1, <2>1
<1>5. /\ plan' \in Seq(PlanStatuses) /\ Len(plan') = Len(plan)
      /\ DOMAIN plan' = DOMAIN plan
      /\ \A u \in DOMAIN plan : plan'[u] = IF u = v THEN "completed" ELSE plan[u]
  <2>1. "completed" \in PlanStatuses
    BY DEF PlanStatuses
  <2>2. QED
    BY <1>1, <2>1, PutPlan
<1>6. QED
  BY <1>1, <1>3, <1>4, <1>5

(* The type invariant is kept by every decision,                           *)
LEMMA TypeDecide == ASSUME TypeInv, NEW w \in Workers, Decide(w) PROVE TypeInv'
<1> DEFINE p == txn[w].pass
<1>1. /\ txn[w].open /\ txn' = [txn EXCEPT ![w] = NoTxn] /\ UNCHANGED <<req, used>>
      /\ DecideWaits(w) \/ DecideLeases(w) \/ DecideCompletes(w)
  BY DecideCases
<1>2. \A u \in Workers : txn'[u].open =>
          PlanOf(txn'[u].pass) \in DOMAIN plan /\ txn'[u].row \in TargetRow
  BY <1>1, TxnClosed, TxnTyped DEF TypeInv
<1>3. \A q \in Passes : Done(w)[q] # NoPass => PlanOf(q) \in DOMAIN plan
  BY <1>1, DoneTyped, TxnTyped DEF TypeInv
<1>4. CASE DecideWaits(w)
  <2>1. TypeOK'
    BY <1>1, <1>2, <1>4, OwnTyped, DoneTyped DEF DecideWaits, TypeInv, TypeOK
  <2>2. QED
    BY <1>1, <1>2, <1>3, <1>4, <2>1, TxnClosed DEF DecideWaits, TypeInv
<1>5. CASE DecideLeases(w)
  <2> DEFINE rows == Own(w)[Decided]
             L == Leased(rows)
  <2>1. /\ UNCHANGED <<campaign, plan, kept, prep>>
        /\ target' \in Seq([Targets -> TargetRow]) /\ Len(target') = Len(target)
        /\ pass' \in [Passes -> PassRow] /\ Decided \in DOMAIN plan
        /\ \A q \in Passes : PlanOf(q) # Decided => pass'[q] = Done(w)[q]
    BY <1>1, <1>5, DecideLeasesEffect
  <2>2. \A q \in Passes : pass'[q] # NoPass => PlanOf(q) \in DOMAIN plan
    BY <1>3, <2>1
  <2>3. TypeOK'
    BY <1>1, <1>2, <2>1 DEF TypeInv, TypeOK
  <2>4. QED
    BY <1>1, <1>2, <2>1, <2>2, <2>3, TxnClosed DEF TypeInv
<1>6. CASE DecideCompletes(w)
  <2>1. Decided \in DOMAIN plan /\ Finalize(Decided, Own(w)[Decided])
    BY <1>6, DecidedTyped DEF DecideCompletes, Last
  <2>2. /\ plan' \in Seq(PlanStatuses) /\ Len(plan') = Len(plan)
        /\ DOMAIN plan' = DOMAIN plan
        /\ kept' \in [Candidates -> {"no", "match", "needs_review"}]
        /\ prep' \in [Candidates -> {"none", "live", "resting"}]
        /\ campaign' \in {"preparing", "active"}
    BY <2>1, FinalizeTyped
  <2>3. target' = Own(w) /\ pass' = Done(w)
    BY <1>6 DEF DecideCompletes
  <2>4. TypeOK'
    BY <1>1, <1>2, <2>2, <2>3, OwnTyped, DoneTyped DEF TypeInv, TypeOK, PlanStatuses
  <2>5. QED
    BY <1>1, <1>2, <1>3, <2>2, <2>3, <2>4, TxnClosed DEF TypeInv
<1>7. QED
  BY <1>1, <1>4, <1>5, <1>6

(* ... and so by every step.                                               *)
LEMMA TypeNext == TypeInv /\ [Next]_vars => TypeInv'
<1> SUFFICES ASSUME TypeInv, [Next]_vars PROVE TypeInv'
  OBVIOUS
<1>1. ASSUME NEW r \in Requests,
             ReadForReplace(r) \/ Replace(r) \/ ReadForConfirm(r) \/ Confirm(r)
      PROVE  TypeInv'
  BY <1>1, TypeReadForReplace, TypeReplace, TypeReadForConfirm, TypeConfirm
<1>2. ASSUME NEW p \in Passes, Launch(p) \/ LaunchFails(p) \/ ReconcileFails(p) \/ Resolve(p)
      PROVE  TypeInv'
  BY <1>2, TypeLaunch, TypeLaunchFails, TypeReconcileFails, TypeResolve
<1>3. ASSUME NEW w \in Workers, (\E p \in Passes : Settle(w, p)) \/ Decide(w) \/ RollBack(w)
      PROVE  TypeInv'
  BY <1>3, TypeSettle, TypeDecide, TypeRollBack
<1>4. ASSUME NEW c \in Candidates, PrepChanges(c) PROVE TypeInv'
  BY <1>4, TypePrepChanges
<1>5. CASE Pause \/ Resume
  BY <1>5, TypePause, TypeResume
<1>6. CASE UNCHANGED vars
  <2>1. TypeOK'
    BY <1>6 DEF vars, TypeInv, TypeOK
  <2>2. QED
    BY <1>6, <2>1 DEF vars, TypeInv
<1>7. QED
  BY <1>1, <1>2, <1>3, <1>4, <1>5, <1>6 DEF Next

(* Every row, request and transaction of a research holds values of its    *)
(* kind, for any number of targets, plans, workers and requests.           *)
THEOREM ResearchTypeCorrect == Spec => []TypeOK
<1>1. TypeInv => TypeOK
  BY DEF TypeInv
<1>2. QED
  BY <1>1, TypeInit, TypeNext, PTL DEF Spec
-----------------------------------------------------------------------------
(* The inductive invariant, for one open request of the operator at a time *)
(* and passes that are resolved only while they are blocked.  A request    *)
(* has read what still holds; a plan's rows wait exactly until it is       *)
(* confirmed and are terminal when it is completed; of a target's passes   *)
(* those before its last lease are completed, the one at it is completed   *)
(* exactly if the row is terminal and else owns what the row reserves, and *)
(* those after it do not exist; an open transaction is the only one of a   *)
(* running pass, and its row follows from the row in the table.            *)
OneRequest == \E r : Requests = {r}

Unconfirmed(v) == plan[v] \in {"pending_confirmation", "superseded"}

RequestTrue(r) ==
    /\ r.op = "confirm" => /\ r.plan \in DOMAIN plan
                           /\ plan[r.plan] = "pending_confirmation"
    /\ r.op = "replace" => /\ r.plan = Len(plan)
                           /\ r.pending => /\ plan # <<>>
                                           /\ plan[r.plan] = "pending_confirmation"
RequestsTrue == \A r \in Requests : RequestTrue(req[r])

RowOfPlan(v, row) ==
    /\ Unconfirmed(v) => row = NewTarget
    /\ ~Unconfirmed(v) => row.status # "awaiting_confirmation"
    /\ plan[v] = "completed" => row.status \in TerminalTarget
RowsOfPlans == \A v \in DOMAIN plan, x \in Targets : RowOfPlan(v, target[v][x])

PassOfRow(p, now, row) ==
    /\ p[3] > row.leases => now = NoPass
    /\ p[3] < row.leases => now.status = "completed"
    /\ p[3] = row.leases =>
          /\ now.status # "none"
          /\ now.status = "completed" <=> row.status \in TerminalTarget
          /\ row.reserved = IF now.status = "completed" THEN 0 ELSE now.budget

Confirmed(v) == v \in DOMAIN plan /\ ~Unconfirmed(v)

PassesOfRows ==
    \A p \in Passes :
        /\ ~Confirmed(PlanOf(p)) => pass[p] = NoPass
        /\ Confirmed(PlanOf(p)) =>
              PassOfRow(p, pass[p], target[PlanOf(p)][TargetOf(p)])

RowFollows(old, row) ==
    /\ row.status \in TerminalTarget /\ row.reserved = 0 /\ row.leases = old.leases
    /\ row.consumed <= old.consumed + old.reserved + Overrun

TxnsTrue ==
    /\ \A w \in Workers : txn[w].open =>
          /\ pass[txn[w].pass].status = "running"
          /\ RowFollows(target[PlanOf(txn[w].pass)][TargetOf(txn[w].pass)], txn[w].row)
    /\ \A u, w \in Workers :
          txn[u].open /\ txn[w].open /\ txn[u].pass = txn[w].pass => u = w

PlanInv == RequestsTrue /\ RowsOfPlans /\ PassesOfRows /\ TxnsTrue

Under(now) == now.status \notin {"none", "completed"}

(* Where a pass that is under way stands.                                  *)
LEMMA UnderWay ==
    ASSUME TypeInv, PlanInv, NEW p \in Passes, Under(pass[p])
    PROVE  /\ PlanOf(p) \in DOMAIN plan /\ TargetOf(p) \in Targets
           /\ plan[PlanOf(p)] = "confirmed"
           /\ target[PlanOf(p)][TargetOf(p)] \in TargetRow
           /\ p[3] = target[PlanOf(p)][TargetOf(p)].leases
           /\ target[PlanOf(p)][TargetOf(p)].status \notin TerminalTarget
           /\ target[PlanOf(p)][TargetOf(p)].status # "awaiting_confirmation"
           /\ target[PlanOf(p)][TargetOf(p)].reserved = pass[p].budget
<1> DEFINE v == PlanOf(p)
           row == target[PlanOf(p)][TargetOf(p)]
<1>1. Confirmed(v)
  BY DEF PlanInv, PassesOfRows, Under, NoPass
<1>2. v \in DOMAIN plan /\ ~Unconfirmed(v) /\ TargetOf(p) \in Targets
  BY <1>1, PassParts DEF Confirmed
<1>3. row \in TargetRow /\ row.leases \in Nat /\ p[3] \in Nat
  BY <1>2, Domains, RowNumbers, PassGeneration
<1>4. PassOfRow(p, pass[p], row)
  BY <1>1 DEF PlanInv, PassesOfRows
<1>5. RowOfPlan(v, row)
  BY <1>2 DEF PlanInv, RowsOfPlans
<1>6. p[3] = row.leases
  BY <1>3, <1>4 DEF PassOfRow, Under, NoPass
<1>7. row.status \notin TerminalTarget /\ row.reserved = pass[p].budget
  BY <1>4, <1>6 DEF PassOfRow, Under
<1>8. plan[v] = "confirmed" /\ row.status # "awaiting_confirmation"
  BY <1>2, <1>5, <1>7, Domains DEF RowOfPlan, Unconfirmed, PlanStatuses
<1>9. QED
  BY <1>2, <1>3, <1>6, <1>7, <1>8

(* With one request a plan is confirmed once.                              *)
LEMMA OneCopy == ASSUME OneRequest PROVE Copies = {1}
<1>1. PICK r : Requests = {r}
  BY DEF OneRequest
<1>2. Cardinality(Requests) = 1
  BY <1>1, FS_Singleton
<1>3. QED
  BY <1>2 DEF Copies

(* A target has one pass under way.                                        *)
LEMMA OneUnderWay ==
    ASSUME TypeInv, PlanInv, OneRequest, NEW p \in Passes, NEW q \in Passes,
           Under(pass[p]), Under(pass[q]), PlanOf(p) = PlanOf(q), TargetOf(p) = TargetOf(q)
    PROVE  p = q
<1>1. p[3] = q[3]
  BY UnderWay
<1>2. p[4] = 1 /\ q[4] = 1
  BY OneCopy, PassParts
<1>3. QED
  BY <1>1, <1>2, PassParts

(* The plan invariant holds at the start.                                  *)
LEMMA PlanInvInit == Init => PlanInv
<1> SUFFICES ASSUME Init PROVE PlanInv
  OBVIOUS
<1>1. DOMAIN plan = {}
  BY EmptySeq DEF Init
<1>2. \A p \in Passes : pass[p] = NoPass
  BY DEF Init
<1>3. \A r \in Requests : req[r].op = "none"
  BY DEF Init, NoRequest
<1>4. \A w \in Workers : ~txn[w].open
  BY DEF Init, NoTxn
<1>5. QED
  BY <1>1, <1>2, <1>3, <1>4 DEF PlanInv, RequestsTrue, RequestTrue, RowsOfPlans,
     PassesOfRows, Confirmed, TxnsTrue

(* The invariant is about the plans, their rows and passes and what is     *)
(* open: a step of a pass that stays under way keeps it, when it leaves    *)
(* what the rows account for and stays clear of open transactions.         *)
LEMMA StepsUnderWay ==
    ASSUME TypeInv, TypeInv', PlanInv, OneRequest, UNCHANGED <<plan, req, txn>>,
           \A p \in Passes :
              \/ pass'[p] = pass[p]
              \/ /\ Under(pass[p]) /\ Under(pass'[p]) /\ pass'[p].budget = pass[p].budget
                 /\ \A w \in Workers : txn[w].open => txn[w].pass # p,
           \A v \in DOMAIN plan, x \in Targets :
              \/ target'[v][x] = target[v][x]
              \/ /\ ~Unconfirmed(v)
                 /\ target'[v][x].status # "awaiting_confirmation"
                 /\ target'[v][x].status \in TerminalTarget
                       <=> target[v][x].status \in TerminalTarget
                 /\ target'[v][x].leases = target[v][x].leases
                 /\ target'[v][x].consumed = target[v][x].consumed
                 /\ target'[v][x].reserved = target[v][x].reserved
    PROVE  PlanInv'
<1>1. RequestsTrue'
  BY DEF PlanInv, RequestsTrue, RequestTrue
<1>2. RowsOfPlans'
  <2>1. ASSUME NEW v \in DOMAIN plan, NEW x \in Targets PROVE RowOfPlan(v, target[v][x])'
    <3>1. RowOfPlan(v, target[v][x])
      BY DEF PlanInv, RowsOfPlans
    <3>2. QED
      BY <3>1 DEF RowOfPlan, Unconfirmed
  <2>2. QED
    BY <2>1 DEF RowsOfPlans
<1>3. PassesOfRows'
  <2>1. ASSUME NEW p \in Passes PROVE ~Confirmed(PlanOf(p)) => pass'[p] = NoPass
    BY UnderWay DEF PlanInv, PassesOfRows, Confirmed, Unconfirmed
  <2>2. ASSUME NEW p \in Passes, Confirmed(PlanOf(p))
        PROVE  PassOfRow(p, pass'[p], target'[PlanOf(p)][TargetOf(p)])
    <3> DEFINE row == target[PlanOf(p)][TargetOf(p)]
               new == target'[PlanOf(p)][TargetOf(p)]
    <3>1. PassOfRow(p, pass[p], row)
      BY <2>2 DEF PlanInv, PassesOfRows
    <3>2. /\ new.leases = row.leases /\ new.reserved = row.reserved
          /\ new.status \in TerminalTarget <=> row.status \in TerminalTarget
      BY <2>2, PassParts DEF Confirmed
    <3>3. \/ pass'[p] = pass[p]
          \/ /\ Under(pass[p]) /\ Under(pass'[p]) /\ pass'[p].budget = pass[p].budget
             /\ p[3] = row.leases
      BY UnderWay
    <3>4. row.leases \in Nat /\ p[3] \in Nat
      BY <2>2, PassParts, Domains, RowNumbers, PassGeneration DEF Confirmed
    <3> HIDE DEF row, new
    <3>5. PassOfRow(p, pass'[p], new)
      BY <3>1, <3>2, <3>3, <3>4 DEF PassOfRow, Under
    <3>6. QED
      BY <3>5 DEF new
  <2>3. QED
    BY <2>1, <2>2 DEF PassesOfRows, Confirmed, Unconfirmed
<1>4. TxnsTrue'
  <2>1. ASSUME NEW w \in Workers, txn[w].open
        PROVE  /\ pass'[txn[w].pass].status = "running"
               /\ RowFollows(target'[PlanOf(txn[w].pass)][TargetOf(txn[w].pass)], txn[w].row)
    <3> DEFINE p == txn[w].pass
               row == target[PlanOf(p)][TargetOf(p)]
               new == target'[PlanOf(p)][TargetOf(p)]
    <3>1. /\ p \in Passes /\ PlanOf(p) \in DOMAIN plan /\ TargetOf(p) \in Targets
          /\ pass[p].status = "running" /\ RowFollows(row, txn[w].row)
      BY <2>1, TxnTyped DEF PlanInv, TxnsTrue
    <3>2. pass'[p] = pass[p]
      BY <2>1, <3>1
    <3>3. /\ new.leases = row.leases /\ new.consumed = row.consumed
          /\ new.reserved = row.reserved
      BY <3>1
    <3> HIDE DEF p, row, new
    <3>4. pass'[p].status = "running" /\ RowFollows(new, txn[w].row)
      BY <3>1, <3>2, <3>3 DEF RowFollows
    <3>5. QED
      BY <3>4 DEF p, new
  <2>2. QED
    BY <2>1 DEF PlanInv, TxnsTrue
<1>5. QED
  BY <1>1, <1>2, <1>3, <1>4 DEF PlanInv

(* The steps that leave every account alone.                               *)
LEMMA KeepPause == ASSUME TypeInv, TypeInv', PlanInv, OneRequest, Pause PROVE PlanInv'
<1>1. /\ UNCHANGED <<plan, target, kept, prep, req, txn>>
      /\ pass' = [p \in Passes |-> IF pass[p].status \in {"queued", "retry"}
                                   THEN [pass[p] EXCEPT !.status = "paused"] ELSE pass[p]]
  BY DEF Pause
<1>2. ASSUME NEW p \in Passes
      PROVE  \/ pass'[p] = pass[p]
             \/ /\ Under(pass[p]) /\ Under(pass'[p]) /\ pass'[p].budget = pass[p].budget
                /\ \A w \in Workers : txn[w].open => txn[w].pass # p
  <2>1. CASE pass[p].status \in {"queued", "retry"}
    <3>1. pass[p] \in PassRow
      BY DEF TypeInv, TypeOK
    <3>2. Under(pass[p]) /\ Under(pass'[p]) /\ pass'[p].budget = pass[p].budget
      BY <1>1, <2>1, <3>1 DEF Under, PassRow
    <3>3. \A w \in Workers : txn[w].open => txn[w].pass # p
      BY <2>1 DEF PlanInv, TxnsTrue
    <3>4. QED
      BY <3>2, <3>3
  <2>2. QED
    BY <1>1, <2>1
<1>3. QED
  BY <1>1, <1>2, StepsUnderWay

(* A resumption of the campaign keeps the plan invariant.                  *)
LEMMA KeepResume == ASSUME TypeInv, TypeInv', PlanInv, OneRequest, Resume PROVE PlanInv'
<1>1. /\ UNCHANGED <<plan, target, kept, prep, req, txn>>
      /\ pass' = [p \in Passes |-> IF pass[p].status = "paused"
                                   THEN [pass[p] EXCEPT !.status = "queued"] ELSE pass[p]]
  BY DEF Resume
<1>2. ASSUME NEW p \in Passes
      PROVE  \/ pass'[p] = pass[p]
             \/ /\ Under(pass[p]) /\ Under(pass'[p]) /\ pass'[p].budget = pass[p].budget
                /\ \A w \in Workers : txn[w].open => txn[w].pass # p
  <2>1. CASE pass[p].status = "paused"
    <3>1. pass[p] \in PassRow
      BY DEF TypeInv, TypeOK
    <3>2. Under(pass[p]) /\ Under(pass'[p]) /\ pass'[p].budget = pass[p].budget
      BY <1>1, <2>1, <3>1 DEF Under, PassRow
    <3>3. \A w \in Workers : txn[w].open => txn[w].pass # p
      BY <2>1 DEF PlanInv, TxnsTrue
    <3>4. QED
      BY <3>2, <3>3
  <2>2. QED
    BY <1>1, <2>1
<1>3. QED
  BY <1>1, <1>2, StepsUnderWay

(* Resolving the exception of a blocked pass keeps it.                     *)
LEMMA KeepResolve ==
    ASSUME TypeInv, TypeInv', PlanInv, OneRequest, MaxReopens = 0,
           NEW p \in Passes, Resolve(p)
    PROVE  PlanInv' /\ pass[p].status = "blocked"
<1>1. pass[p].status = "blocked"
  <2>1. used.reopen \in Nat
    BY DEF TypeInv
  <2>2. Spend("reopen", MaxReopens) => used.reopen < 0
    BY DEF Spend
  <2>3. QED
    BY <2>1, <2>2 DEF Resolve
<1>2. \A w \in Workers : txn[w].open => txn[w].pass # p
  BY DEF Resolve
<1>3. /\ UNCHANGED <<plan, target, req, txn>> /\ pass'[p].status = "queued"
      /\ pass'[p].budget = pass[p].budget /\ \A q \in Passes : q # p => pass'[q] = pass[q]
  BY ResolveEffect
<1>4. Under(pass[p]) /\ Under(pass'[p])
  BY <1>1, <1>3 DEF Under
<1>5. QED
  BY <1>1, <1>2, <1>3, <1>4, StepsUnderWay

(* A launch keeps it.                                                      *)
LEMMA KeepLaunch ==
    ASSUME TypeInv, TypeInv', PlanInv, OneRequest, NEW p \in Passes, Launch(p)
    PROVE  PlanInv'
<1>1. /\ UNCHANGED <<plan, req, txn>> /\ pass[p].status \in {"queued", "retry"}
      /\ pass'[p].status = "running" /\ pass'[p].budget = pass[p].budget
      /\ \A q \in Passes : q # p => pass'[q] = pass[q]
      /\ \A u \in DOMAIN plan, y \in Targets :
            target'[u][y] = IF u = PlanOf(p) /\ y = TargetOf(p)
                            THEN [target[u][y] EXCEPT !.status = "searching"]
                            ELSE target[u][y]
  BY LaunchEffect
<1>2. Under(pass[p]) /\ Under(pass'[p])
      /\ \A w \in Workers : txn[w].open => txn[w].pass # p
  BY <1>1 DEF Under, PlanInv, TxnsTrue
<1>3. /\ plan[PlanOf(p)] = "confirmed"
      /\ target[PlanOf(p)][TargetOf(p)].status \notin TerminalTarget
  BY <1>2, UnderWay
<1>4. ASSUME NEW v \in DOMAIN plan, NEW x \in Targets
      PROVE  \/ target'[v][x] = target[v][x]
             \/ /\ ~Unconfirmed(v)
                /\ target'[v][x].status # "awaiting_confirmation"
                /\ target'[v][x].status \in TerminalTarget
                      <=> target[v][x].status \in TerminalTarget
                /\ target'[v][x].leases = target[v][x].leases
                /\ target'[v][x].consumed = target[v][x].consumed
                /\ target'[v][x].reserved = target[v][x].reserved
  <2>1. CASE v = PlanOf(p) /\ x = TargetOf(p)
    <3>1. target[v][x] \in TargetRow
      BY Domains
    <3>2. target'[v][x] = [target[v][x] EXCEPT !.status = "searching"]
      BY <1>1, <2>1
    <3>3. /\ target'[v][x].status = "searching"
          /\ target'[v][x].leases = target[v][x].leases
          /\ target'[v][x].consumed = target[v][x].consumed
          /\ target'[v][x].reserved = target[v][x].reserved
      BY <3>1, <3>2 DEF TargetRow
    <3>4. QED
      BY <1>3, <2>1, <3>3 DEF Unconfirmed, TerminalTarget
  <2>2. QED
    BY <1>1, <2>1
<1>5. QED
  BY <1>1, <1>2, <1>4, StepsUnderWay

(* A launch that fails keeps it.                                           *)
LEMMA KeepLaunchFails ==
    ASSUME TypeInv, TypeInv', PlanInv, OneRequest, NEW p \in Passes, LaunchFails(p)
    PROVE  PlanInv'
<1>1. /\ UNCHANGED <<plan, target, req, txn>> /\ pass[p].status \in {"queued", "retry"}
      /\ pass'[p].status \in {"retry", "blocked"} /\ pass'[p].budget = pass[p].budget
      /\ \A q \in Passes : q # p => pass'[q] = pass[q]
  BY LaunchFailsEffect
<1>2. Under(pass[p]) /\ Under(pass'[p])
      /\ \A w \in Workers : txn[w].open => txn[w].pass # p
  BY <1>1 DEF Under, PlanInv, TxnsTrue
<1>3. QED
  BY <1>1, <1>2, StepsUnderWay

(* A reconcile that fails keeps it: no worker has the pass open.           *)
LEMMA KeepReconcileFails ==
    ASSUME TypeInv, TypeInv', PlanInv, OneRequest, NEW p \in Passes, ReconcileFails(p)
    PROVE  PlanInv'
<1>1. /\ UNCHANGED <<plan, req, txn>> /\ pass[p].status = "running"
      /\ \A w \in Workers : txn[w].open => txn[w].pass # p
      /\ pass'[p].status \in {"retry", "blocked"} /\ pass'[p].budget = pass[p].budget
      /\ \A q \in Passes : q # p => pass'[q] = pass[q]
      /\ \A u \in DOMAIN plan, y \in Targets :
            /\ target'[u][y].status = target[u][y].status
            /\ target'[u][y].leases = target[u][y].leases
            /\ target'[u][y].consumed = target[u][y].consumed
            /\ target'[u][y].reserved = target[u][y].reserved
            /\ u # PlanOf(p) \/ y # TargetOf(p) => target'[u][y] = target[u][y]
  BY ReconcileFailsEffect
<1>2. Under(pass[p]) /\ Under(pass'[p])
  BY <1>1 DEF Under
<1>3. /\ plan[PlanOf(p)] = "confirmed"
      /\ target[PlanOf(p)][TargetOf(p)].status # "awaiting_confirmation"
  BY <1>2, UnderWay
<1>4. \A v \in DOMAIN plan, x \in Targets :
         \/ target'[v][x] = target[v][x]
         \/ /\ ~Unconfirmed(v) /\ target'[v][x].status # "awaiting_confirmation"
  BY <1>1, <1>3 DEF Unconfirmed
<1>5. QED
  BY <1>1, <1>2, <1>4, StepsUnderWay

(* Reading for a new plan or a confirmation keeps it.                      *)
LEMMA KeepRead ==
    ASSUME TypeInv, PlanInv, NEW r \in Requests, ReadForReplace(r) \/ ReadForConfirm(r)
    PROVE  PlanInv'
<1>1. /\ UNCHANGED <<campaign, plan, target, pass, kept, prep, txn, used>>
      /\ \A q \in Requests : q # r => req'[q] = req[q]
  BY DEF ReadForReplace, ReadForConfirm, TypeInv
<1>2. RequestTrue(req'[r])
  <2>1. CASE ReadForReplace(r)
    <3> DEFINE b == plan # <<>> /\ plan[Len(plan)] = "pending_confirmation"
    <3>1. req'[r] = [op |-> "replace", plan |-> Len(plan), pending |-> b]
      BY <2>1 DEF ReadForReplace, TypeInv
    <3>2. b => plan # <<>> /\ plan[Len(plan)] = "pending_confirmation"
      OBVIOUS
    <3> HIDE DEF b
    <3>3. req'[r].op = "replace" /\ req'[r].plan = Len(plan) /\ req'[r].pending = b
      BY <3>1
    <3>4. req'[r].pending => plan # <<>> /\ plan[req'[r].plan] = "pending_confirmation"
      BY <3>2, <3>3
    <3>5. QED
      BY <1>1, <3>3, <3>4 DEF RequestTrue
  <2>2. CASE ReadForConfirm(r)
    <3> DEFINE v == Max(Latest("pending_confirmation"))
    <3>1. Latest("pending_confirmation") # {}
          /\ req'[r] = [op |-> "confirm", pending |-> TRUE, plan |-> v]
      BY <2>2 DEF ReadForConfirm, TypeInv
    <3>2. v \in Latest("pending_confirmation")
      <4>1. Latest("pending_confirmation") \in SUBSET (1..Len(plan)) /\ Len(plan) \in Nat
        BY Domains DEF Latest
      <4>2. QED
        BY <3>1, <4>1, MaxOfSome
    <3> HIDE DEF v
    <3>3. v \in DOMAIN plan /\ plan[v] = "pending_confirmation"
      BY <3>2 DEF Latest
    <3>4. QED
      BY <3>1, <3>3 DEF RequestTrue
  <2>3. QED
    BY <2>1, <2>2
<1>3. RequestsTrue'
  BY <1>1, <1>2 DEF PlanInv, RequestsTrue, RequestTrue
<1>4. RowsOfPlans' /\ PassesOfRows' /\ TxnsTrue'
  BY <1>1 DEF PlanInv, RowsOfPlans, RowOfPlan, Unconfirmed, PassesOfRows, Confirmed,
     PassOfRow, TxnsTrue, RowFollows
<1>5. QED
  BY <1>3, <1>4 DEF PlanInv

(* A step that leaves all of these alone keeps it.                         *)
LEMMA KeepUnchanged ==
    ASSUME PlanInv, UNCHANGED <<plan, target, pass, req, txn>>
    PROVE  PlanInv'
BY DEF PlanInv, RequestsTrue, RequestTrue, RowsOfPlans, RowOfPlan, Unconfirmed,
   PassesOfRows, Confirmed, PassOfRow, TxnsTrue, RowFollows

(* A transaction that is rolled back keeps it.                             *)
LEMMA KeepRollBack ==
    ASSUME TypeInv, PlanInv, NEW w \in Workers, RollBack(w)
    PROVE  PlanInv'
<1>1. UNCHANGED <<plan, target, pass, req>> /\ txn' = [txn EXCEPT ![w] = NoTxn]
  BY DEF RollBack
<1>2. \A u \in Workers : txn'[u].open => txn[u].open /\ txn'[u] = txn[u]
  BY <1>1, TxnClosed
<1>3. TxnsTrue'
  BY <1>1, <1>2 DEF PlanInv, TxnsTrue, RowFollows
<1>4. QED
  BY <1>1, <1>3 DEF PlanInv, RequestsTrue, RequestTrue, RowsOfPlans, RowOfPlan,
     Unconfirmed, PassesOfRows, Confirmed, PassOfRow

(* A settled outcome keeps it: what will be committed follows the row.     *)
LEMMA KeepSettle ==
    ASSUME TypeInv, PlanInv, NEW w \in Workers, NEW p \in Passes, Settle(w, p)
    PROVE  PlanInv'
<1> DEFINE row == target[PlanOf(p)][TargetOf(p)]
<1>1. /\ UNCHANGED <<plan, target, pass, req>> /\ pass[p].status = "running"
      /\ \A u \in Workers : txn[u].open => txn[u].pass # p
      /\ \A u \in Workers : u # w => txn'[u] = txn[u]
      /\ txn'[w].open /\ txn'[w].pass = p
      /\ txn'[w].row.status \in TerminalTarget /\ txn'[w].row.reserved = 0
      /\ txn'[w].row.leases = row.leases
      /\ txn'[w].row.consumed <= row.consumed + pass[p].budget + Overrun
  BY SettleEffect
<1>2. row.reserved = pass[p].budget
  BY <1>1, UnderWay DEF Under
<1> HIDE DEF row
<1>3. RowFollows(row, txn'[w].row)
  BY <1>1, <1>2 DEF RowFollows
<1>4. /\ \A u \in Workers : txn'[u].open =>
            /\ pass[txn'[u].pass].status = "running"
            /\ RowFollows(target[PlanOf(txn'[u].pass)][TargetOf(txn'[u].pass)], txn'[u].row)
      /\ \A t, u \in Workers :
            txn'[t].open /\ txn'[u].open /\ txn'[t].pass = txn'[u].pass => t = u
  BY <1>1, <1>3 DEF PlanInv, TxnsTrue, row
<1>5. TxnsTrue'
  BY <1>1, <1>4 DEF TxnsTrue, RowFollows
<1>6. QED
  BY <1>1, <1>5 DEF PlanInv, RequestsTrue, RequestTrue, RowsOfPlans, RowOfPlan,
     Unconfirmed, PassesOfRows, Confirmed, PassOfRow

(* A new plan waits, and has no passes.                                    *)
LEMMA ReplaceEffect ==
    ASSUME TypeInv, PlanInv, NEW r \in Requests, Replace(r)
    PROVE  /\ UNCHANGED <<pass, kept, prep, txn, used>>
           /\ req' = [req EXCEPT ![r] = NoRequest]
           /\ Len(plan) + 1 <= MaxPlans /\ Len(plan) + 1 \notin DOMAIN plan
           /\ DOMAIN plan' = 1..(Len(plan) + 1) /\ Len(plan') = Len(plan) + 1
           /\ DOMAIN plan' = DOMAIN plan \cup {Len(plan) + 1}
           /\ \A v \in DOMAIN plan :
                 /\ \/ plan'[v] = plan[v]
                    \/ /\ v = Len(plan) /\ plan[v] = "pending_confirmation"
                       /\ plan'[v] = "superseded"
                 /\ target'[v] = target[v]
           /\ plan'[Len(plan) + 1] = "pending_confirmation"
           /\ target'[Len(plan) + 1] = [x \in Targets |-> NewTarget]
<1> DEFINE latest == req[r].plan
<1>1. /\ UNCHANGED <<pass, kept, prep, txn, used>>
      /\ req' = [req EXCEPT ![r] = NoRequest] /\ req[r].op = "replace"
  BY DEF Replace
<1>2. RequestTrue(req[r])
  BY DEF PlanInv, RequestsTrue
<1>3. /\ latest = Len(plan) /\ latest < MaxPlans /\ req[r].pending \in BOOLEAN
      /\ req[r].pending => plan[latest] = "pending_confirmation"
  BY <1>1, <1>2 DEF RequestTrue, TypeInv, Request
<1>4. plan' = NextPlans(latest, req[r].pending) /\ target' = NextTargets
  BY <1>3 DEF Replace, NextPlans, NextTargets
<1> HIDE DEF latest
<1>5. /\ Len(plan') = latest + 1 /\ DOMAIN plan' = 1..(latest + 1)
      /\ \A v \in DOMAIN plan : plan'[v] = IF v = latest /\ req[r].pending
                                           THEN "superseded" ELSE plan[v]
      /\ plan'[latest + 1] = "pending_confirmation"
      /\ \A v \in DOMAIN plan : target'[v] = target[v]
      /\ target'[latest + 1] = [x \in Targets |-> NewTarget]
  BY <1>3, <1>4, NewPlan
<1>6. /\ latest + 1 <= MaxPlans /\ latest + 1 \notin DOMAIN plan
      /\ 1..(latest + 1) = DOMAIN plan \cup {latest + 1}
  <2>1. DOMAIN plan = 1..latest /\ latest \in Nat /\ MaxPlans \in Nat
    BY <1>3, Domains, Numbers
  <2>2. QED
    BY <1>3, <2>1
<1>7. QED
  BY <1>1, <1>3, <1>5, <1>6

(* A new plan keeps it.                                                    *)
LEMMA KeepReplace ==
    ASSUME TypeInv, PlanInv, OneRequest, NEW r \in Requests, Replace(r)
    PROVE  PlanInv'
<1>0. PICK new : new = Len(plan) + 1
  OBVIOUS
<1>1. /\ UNCHANGED <<pass, txn>> /\ req' = [req EXCEPT ![r] = NoRequest]
      /\ new \notin DOMAIN plan /\ DOMAIN plan' = DOMAIN plan \cup {new}
      /\ \A v \in DOMAIN plan :
            /\ \/ plan'[v] = plan[v]
               \/ plan[v] = "pending_confirmation" /\ plan'[v] = "superseded"
            /\ target'[v] = target[v]
      /\ plan'[new] = "pending_confirmation"
      /\ target'[new] = [x \in Targets |-> NewTarget]
  BY <1>0, ReplaceEffect
<1>2. \A q \in Requests : req'[q].op = "none"
  BY <1>1, RequestDone DEF OneRequest, NoRequest
<1>3. RequestsTrue'
  BY <1>2 DEF RequestsTrue, RequestTrue
<1>4. \A v \in DOMAIN plan : Unconfirmed(v)' <=> Unconfirmed(v)
  BY <1>1 DEF Unconfirmed
<1>5. Unconfirmed(new)'
  BY <1>1 DEF Unconfirmed
<1>6. RowsOfPlans'
  <2>1. ASSUME NEW v \in DOMAIN plan, NEW x \in Targets PROVE RowOfPlan(v, target[v][x])'
    <3>1. /\ RowOfPlan(v, target[v][x]) /\ target'[v][x] = target[v][x]
          /\ plan'[v] = "completed" => plan[v] = "completed"
      BY <1>1 DEF PlanInv, RowsOfPlans
    <3>2. QED
      BY <1>4, <3>1 DEF RowOfPlan
  <2>2. ASSUME NEW x \in Targets PROVE RowOfPlan(new, target[new][x])'
    BY <1>1, <1>5 DEF RowOfPlan
  <2>3. QED
    BY <1>1, <2>1, <2>2 DEF RowsOfPlans
<1>7. \A p \in Passes : Confirmed(PlanOf(p))' <=> Confirmed(PlanOf(p))
  BY <1>1, <1>4, <1>5 DEF Confirmed
<1>8. PassesOfRows'
  <2>1. ASSUME NEW p \in Passes, Confirmed(PlanOf(p))
        PROVE  PassOfRow(p, pass'[p], target'[PlanOf(p)][TargetOf(p)])
    <3>1. PlanOf(p) \in DOMAIN plan
      BY <2>1 DEF Confirmed
    <3>2. QED
      BY <1>1, <2>1, <3>1 DEF PlanInv, PassesOfRows
  <2>2. ASSUME NEW p \in Passes, ~Confirmed(PlanOf(p)) PROVE pass'[p] = NoPass
    BY <1>1, <2>2 DEF PlanInv, PassesOfRows
  <2>3. QED
    BY <1>7, <2>1, <2>2 DEF PassesOfRows
<1>9. TxnsTrue'
  <2>1. ASSUME NEW w \in Workers, txn[w].open
        PROVE  /\ pass'[txn[w].pass].status = "running"
               /\ RowFollows(target'[PlanOf(txn[w].pass)][TargetOf(txn[w].pass)], txn[w].row)
    <3>1. PlanOf(txn[w].pass) \in DOMAIN plan
      BY <2>1, TxnTyped
    <3>2. QED
      BY <1>1, <2>1, <3>1 DEF PlanInv, TxnsTrue
  <2>2. QED
    BY <1>1, <2>1 DEF PlanInv, TxnsTrue
<1>10. QED
  BY <1>3, <1>6, <1>8, <1>9 DEF PlanInv

(* Every target of a confirmed plan is queued, with a guaranteed pass.     *)
Queued(x) == [NewTarget EXCEPT !.status = "queued", !.reserved = GuaranteedTime(x)]

(* A row that a confirmation has queued.                                   *)
LEMMA QueuedIs ==
    ASSUME NEW x \in Targets
    PROVE  /\ Queued(x) \in TargetRow /\ Queued(x).status = "queued"
           /\ Queued(x).reserved = GuaranteedTime(x) /\ Queued(x).consumed = 0
           /\ Queued(x).leases = 0
<1>1. GuaranteedTime(x) \in Nat /\ MaxLeases \in Nat /\ Required \in Nat
  BY GuaranteedTimeTyped, Numbers
<1>2. /\ NewTarget \in TargetRow /\ NewTarget.consumed = 0 /\ NewTarget.leases = 0
  BY <1>1 DEF NewTarget, TargetRow
<1>3. QED
  BY <1>1, <1>2 DEF Queued, TargetRow

(* What a confirmation does: one guaranteed pass for each target.          *)
LEMMA ConfirmEffect ==
    ASSUME TypeInv, PlanInv, OneRequest, NEW r \in Requests, Confirm(r),
           NEW v, v = req[r].plan
    PROVE  /\ UNCHANGED <<kept, prep, txn, used>>
           /\ req' = [req EXCEPT ![r] = NoRequest]
           /\ v \in DOMAIN plan /\ plan[v] = "pending_confirmation"
           /\ Len(plan') = Len(plan) /\ DOMAIN plan' = DOMAIN plan
           /\ \A u \in DOMAIN plan : plan'[u] = IF u = v THEN "confirmed" ELSE plan[u]
           /\ \A u \in DOMAIN plan : u # v => target'[u] = target[u]
           /\ target'[v] = [x \in Targets |-> Queued(x)]
           /\ \A p \in Passes :
                 pass'[p] = IF PlanOf(p) = v /\ p[3] = 0
                            THEN QueuedPass(GuaranteedTime(TargetOf(p))) ELSE pass[p]
<1> DEFINE rows == [x \in Targets |-> [target[v][x] EXCEPT !.status = "queued",
                                                           !.reserved = GuaranteedTime(x)]]
<1>1. /\ UNCHANGED <<kept, prep, txn, used>> /\ req' = [req EXCEPT ![r] = NoRequest]
      /\ req[r].op = "confirm" /\ plan' = [plan EXCEPT ![v] = "confirmed"]
      /\ pass' = [p \in Passes |-> IF p \in GuaranteedPasses(v)
                                   THEN QueuedPass(GuaranteedTime(TargetOf(p))) ELSE pass[p]]
  BY DEF Confirm
<1>2. target' = [target EXCEPT ![v] = rows]
  BY DEF Confirm
<1>3. RequestTrue(req[r])
  BY DEF PlanInv, RequestsTrue
<1>4. v \in DOMAIN plan /\ plan[v] = "pending_confirmation"
  BY <1>1, <1>3 DEF RequestTrue
<1>5. \A x \in Targets : target[v][x] = NewTarget
  BY <1>4 DEF PlanInv, RowsOfPlans, RowOfPlan, Unconfirmed
<1>6. rows = [x \in Targets |-> Queued(x)]
  BY <1>5 DEF Queued
<1> HIDE DEF rows
<1>7. rows \in [Targets -> TargetRow]
  BY <1>6, QueuedIs
<1>8. \A u \in DOMAIN plan : target'[u] = IF u = v THEN rows ELSE target[u]
  <2>1. target \in Seq([Targets -> TargetRow]) /\ DOMAIN target = DOMAIN plan
    BY Domains DEF TypeInv, TypeOK
  <2>2. QED
    BY <1>2, <1>4, <1>7, <2>1, PutRows
<1>9. /\ Len(plan') = Len(plan) /\ DOMAIN plan' = DOMAIN plan
      /\ \A u \in DOMAIN plan : plan'[u] = IF u = v THEN "confirmed" ELSE plan[u]
  <2>1. "confirmed" \in PlanStatuses
    BY DEF PlanStatuses
  <2>2. QED
    BY <1>1, <1>4, <2>1, PutPlan
<1>10. \A p \in Passes : PlanOf(p) = v => pass[p] = NoPass
  BY <1>4 DEF PlanInv, PassesOfRows, Confirmed, Unconfirmed
<1>11. NextCopy(v, 1) = {1}
  <2>1. <<v, 1, 0, 1>> \in Passes /\ PlanOf(<<v, 1, 0, 1>>) = v
    <3>1. v \in Versions /\ 1 \in Targets /\ 0 \in 0..MaxLeases /\ 1 \in Copies
      <4>1. MaxLeases \in Nat
        BY Numbers
      <4>2. 0 \in 0..MaxLeases
        BY <4>1
      <4>3. QED
        BY <1>4, <4>2, Domains, Numbers, OneCopy
    <3>2. QED
      BY <3>1 DEF Passes, PlanOf
  <2>2. pass[<<v, 1, 0, 1>>].status = "none"
    BY <1>10, <2>1 DEF NoPass
  <2>3. QED
    BY <2>2, OneCopy DEF NextCopy
<1>12. \A p \in Passes : p \in GuaranteedPasses(v) <=> PlanOf(p) = v /\ p[3] = 0
  <2>1. GuaranteedPasses(v) = {<<v, x, 0, n>> : x \in Targets, n \in {1}}
    BY <1>11 DEF GuaranteedPasses
  <2>2. ASSUME NEW p \in Passes
        PROVE  p \in GuaranteedPasses(v) <=> \E x \in Targets : p = <<v, x, 0, 1>>
    BY <2>1, SMT
  <2>3. ASSUME NEW p \in Passes
        PROVE  (\E x \in Targets : p = <<v, x, 0, 1>>) <=> PlanOf(p) = v /\ p[3] = 0
    <3>1. p = <<PlanOf(p), TargetOf(p), p[3], p[4]>> /\ TargetOf(p) \in Targets /\ p[4] = 1
      BY PassParts, OneCopy
    <3>2. QED
      BY <3>1 DEF PlanOf
  <2>4. QED
    BY <2>2, <2>3
<1>13. \A p \in Passes :
          pass'[p] = IF PlanOf(p) = v /\ p[3] = 0
                     THEN QueuedPass(GuaranteedTime(TargetOf(p))) ELSE pass[p]
  BY <1>1, <1>12
<1>14. QED
  BY <1>1, <1>4, <1>6, <1>8, <1>9, <1>13

(* A confirmation keeps the plan invariant.                                *)
LEMMA KeepConfirm ==
    ASSUME TypeInv, PlanInv, OneRequest, NEW r \in Requests, Confirm(r)
    PROVE  PlanInv'
<1>0. PICK v : v = req[r].plan
  OBVIOUS
<1>1. /\ UNCHANGED txn /\ req' = [req EXCEPT ![r] = NoRequest]
      /\ v \in DOMAIN plan /\ plan[v] = "pending_confirmation"
      /\ DOMAIN plan' = DOMAIN plan
      /\ \A u \in DOMAIN plan : plan'[u] = IF u = v THEN "confirmed" ELSE plan[u]
      /\ \A u \in DOMAIN plan : u # v => target'[u] = target[u]
      /\ target'[v] = [x \in Targets |-> Queued(x)]
      /\ \A p \in Passes :
            pass'[p] = IF PlanOf(p) = v /\ p[3] = 0
                       THEN QueuedPass(GuaranteedTime(TargetOf(p))) ELSE pass[p]
  BY <1>0, ConfirmEffect
<1>2. RequestsTrue'
  <2>1. \A q \in Requests : req'[q].op = "none"
    BY <1>1, RequestDone DEF OneRequest, NoRequest
  <2>2. QED
    BY <2>1 DEF RequestsTrue, RequestTrue
<1>3. /\ \A u \in DOMAIN plan : u # v => (Unconfirmed(u)' <=> Unconfirmed(u))
      /\ ~Unconfirmed(v)' /\ Unconfirmed(v)
  BY <1>1 DEF Unconfirmed
<1>4. RowsOfPlans'
  <2>1. ASSUME NEW u \in DOMAIN plan, NEW x \in Targets, u # v
        PROVE  RowOfPlan(u, target[u][x])'
    <3>1. RowOfPlan(u, target[u][x]) /\ target'[u][x] = target[u][x] /\ plan'[u] = plan[u]
      BY <1>1, <2>1 DEF PlanInv, RowsOfPlans
    <3>2. QED
      BY <1>3, <2>1, <3>1 DEF RowOfPlan
  <2>2. ASSUME NEW x \in Targets PROVE RowOfPlan(v, target[v][x])'
    BY <1>1, <1>3, QueuedIs DEF RowOfPlan
  <2>3. QED
    BY <1>1, <2>1, <2>2 DEF RowsOfPlans
<1>5. PassesOfRows'
  <2>1. ASSUME NEW p \in Passes, PlanOf(p) # v
        PROVE  /\ ~Confirmed(PlanOf(p))' => pass'[p] = NoPass
               /\ Confirmed(PlanOf(p))' =>
                     PassOfRow(p, pass'[p], target'[PlanOf(p)][TargetOf(p)])
    <3>1. Confirmed(PlanOf(p))' <=> Confirmed(PlanOf(p))
      BY <1>1, <1>3, <2>1 DEF Confirmed
    <3>2. Confirmed(PlanOf(p)) => target'[PlanOf(p)] = target[PlanOf(p)]
      BY <1>1, <2>1 DEF Confirmed
    <3>3. pass'[p] = pass[p]
      BY <1>1, <2>1
    <3>4. QED
      BY <3>1, <3>2, <3>3 DEF PlanInv, PassesOfRows
  <2>2. ASSUME NEW p \in Passes, PlanOf(p) = v
        PROVE  Confirmed(v)' /\ PassOfRow(p, pass'[p], target'[v][TargetOf(p)])
    <3>1. Confirmed(v)'
      BY <1>1, <1>3 DEF Confirmed
    <3>2. TargetOf(p) \in Targets /\ p[3] \in Nat
      BY PassParts, PassGeneration
    <3>3. target'[v][TargetOf(p)] = Queued(TargetOf(p))
      BY <1>1, <3>2
    <3>4. pass[p] = NoPass
      BY <1>3, <2>2 DEF PlanInv, PassesOfRows, Confirmed
    <3>5. QED
      <4>1. CASE p[3] = 0
        <5>1. pass'[p] = QueuedPass(GuaranteedTime(TargetOf(p)))
          BY <1>1, <2>2, <4>1
        <5>2. /\ pass'[p].status = "queued" /\ pass'[p].budget = GuaranteedTime(TargetOf(p))
          <6>1. PICK time : time = GuaranteedTime(TargetOf(p))
            OBVIOUS
          <6>2. time \in Nat
            BY <3>2, <6>1, GuaranteedTimeTyped
          <6>3. QueuedPass(time).status = "queued" /\ QueuedPass(time).budget = time
            BY <6>2, PassTyped
          <6>4. QED
            BY <5>1, <6>1, <6>3
        <5>3. QED
          BY <3>1, <3>2, <3>3, <4>1, <5>2, QueuedIs DEF PassOfRow, TerminalTarget
      <4>2. CASE p[3] # 0
        <5>1. pass'[p] = NoPass
          BY <1>1, <3>4, <4>2
        <5>2. QED
          BY <3>1, <3>2, <3>3, <4>2, <5>1, QueuedIs DEF PassOfRow
      <4>3. QED
        BY <4>1, <4>2
  <2>3. QED
    BY <2>1, <2>2 DEF PassesOfRows
<1>6. TxnsTrue'
  <2>1. ASSUME NEW w \in Workers, txn[w].open
        PROVE  /\ pass'[txn[w].pass].status = "running"
               /\ RowFollows(target'[PlanOf(txn[w].pass)][TargetOf(txn[w].pass)], txn[w].row)
    <3>1. txn[w].pass \in Passes /\ pass[txn[w].pass].status = "running"
      BY <2>1, TxnTyped DEF PlanInv, TxnsTrue
    <3>2. PlanOf(txn[w].pass) # v /\ PlanOf(txn[w].pass) \in DOMAIN plan
      BY <1>1, <3>1, UnderWay DEF Under
    <3>3. QED
      BY <1>1, <2>1, <3>1, <3>2 DEF PlanInv, TxnsTrue
  <2>2. QED
    BY <1>1, <2>1 DEF PlanInv, TxnsTrue
<1>7. QED
  BY <1>2, <1>4, <1>5, <1>6 DEF PlanInv

(* What a deciding worker sees has its own row and pass ended, and all     *)
(* else as it was.                                                         *)
LEMMA OwnTrue ==
    ASSUME TypeInv, PlanInv, OneRequest, NEW w \in Workers, txn[w].open
    PROVE  /\ \A v \in DOMAIN plan, x \in Targets : RowOfPlan(v, Own(w)[v][x])
           /\ \A q \in Passes : ~Confirmed(PlanOf(q)) => Done(w)[q] = NoPass
           /\ \A q \in Passes : Confirmed(PlanOf(q)) =>
                 PassOfRow(q, Done(w)[q], Own(w)[PlanOf(q)][TargetOf(q)])
           /\ \A u \in Workers : u # w /\ txn[u].open =>
                 /\ txn[u].pass # txn[w].pass
                 /\ Done(w)[txn[u].pass].status = "running"
                 /\ RowFollows(Own(w)[PlanOf(txn[u].pass)][TargetOf(txn[u].pass)], txn[u].row)
<1> DEFINE p == txn[w].pass
           row == txn[w].row
           old == target[PlanOf(p)][TargetOf(p)]
<1>1. /\ p \in Passes /\ row \in TargetRow /\ PlanOf(p) \in DOMAIN plan
      /\ TargetOf(p) \in Targets
  BY TxnTyped
<1>2. pass[p].status = "running" /\ RowFollows(old, row)
  BY DEF PlanInv, TxnsTrue
<1>3. /\ plan[PlanOf(p)] = "confirmed" /\ p[3] = old.leases /\ Under(pass[p])
  BY <1>1, <1>2, UnderWay DEF Under
<1>4. /\ row.status \in TerminalTarget /\ row.reserved = 0 /\ row.leases = old.leases
  BY <1>2 DEF RowFollows
<1>5. /\ \A u \in DOMAIN plan, y \in Targets :
            Own(w)[u][y] = IF u = PlanOf(p) /\ y = TargetOf(p) THEN row ELSE target[u][y]
      /\ Done(w)[p].status = "completed"
      /\ \A q \in Passes : q # p => Done(w)[q] = pass[q]
  BY OwnTyped, DoneTyped
<1> HIDE DEF p, row
<1>6. ASSUME NEW v \in DOMAIN plan, NEW x \in Targets PROVE RowOfPlan(v, Own(w)[v][x])
  <2>1. RowOfPlan(v, target[v][x])
    BY DEF PlanInv, RowsOfPlans
  <2>2. CASE v = PlanOf(p) /\ x = TargetOf(p)
    <3>1. Own(w)[v][x] = row
      BY <1>5, <2>2
    <3>2. plan[v] = "confirmed" /\ row.status # "awaiting_confirmation"
      BY <1>3, <1>4, <2>2 DEF TerminalTarget
    <3>3. QED
      BY <1>4, <3>1, <3>2 DEF RowOfPlan, Unconfirmed
  <2>3. QED
    BY <1>5, <2>1, <2>2
<1>7. ASSUME NEW q \in Passes, ~Confirmed(PlanOf(q)) PROVE Done(w)[q] = NoPass
  <2>1. q # p
    BY <1>1, <1>3, <1>7 DEF Confirmed, Unconfirmed
  <2>2. QED
    BY <1>5, <1>7, <2>1 DEF PlanInv, PassesOfRows
<1>8. ASSUME NEW q \in Passes, Confirmed(PlanOf(q))
      PROVE  PassOfRow(q, Done(w)[q], Own(w)[PlanOf(q)][TargetOf(q)])
  <2>1. /\ PassOfRow(q, pass[q], target[PlanOf(q)][TargetOf(q)])
        /\ PlanOf(q) \in DOMAIN plan /\ TargetOf(q) \in Targets
    BY <1>8, PassParts DEF PlanInv, PassesOfRows, Confirmed
  <2>2. CASE q = p
    <3>1. Own(w)[PlanOf(q)][TargetOf(q)] = row
      BY <1>1, <1>5, <2>2
    <3>2. p[3] = row.leases /\ row.leases \in Nat
      BY <1>1, <1>3, <1>4, RowNumbers
    <3>3. QED
      BY <1>4, <1>5, <2>2, <3>1, <3>2 DEF PassOfRow
  <2>3. CASE q # p /\ PlanOf(q) = PlanOf(p) /\ TargetOf(q) = TargetOf(p)
    <3>1. q[3] # p[3]
      BY <1>1, <2>3, PassParts, OneCopy
    <3>2. Own(w)[PlanOf(q)][TargetOf(q)] = row /\ Done(w)[q] = pass[q]
      BY <1>5, <2>1, <2>3
    <3>3. PassOfRow(q, pass[q], old)
      BY <2>1, <2>3
    <3> HIDE DEF old
    <3>4. QED
      BY <1>3, <1>4, <3>1, <3>2, <3>3 DEF PassOfRow
  <2>4. CASE q # p /\ ~(PlanOf(q) = PlanOf(p) /\ TargetOf(q) = TargetOf(p))
    <3>1. /\ Own(w)[PlanOf(q)][TargetOf(q)] = target[PlanOf(q)][TargetOf(q)]
          /\ Done(w)[q] = pass[q]
      BY <1>5, <2>1, <2>4
    <3>2. QED
      BY <2>1, <3>1
  <2>5. QED
    BY <2>2, <2>3, <2>4
<1>9. ASSUME NEW u \in Workers, u # w, txn[u].open
      PROVE  /\ txn[u].pass # p /\ Done(w)[txn[u].pass].status = "running"
             /\ RowFollows(Own(w)[PlanOf(txn[u].pass)][TargetOf(txn[u].pass)], txn[u].row)
  <2> DEFINE q == txn[u].pass
  <2>1. /\ q \in Passes /\ PlanOf(q) \in DOMAIN plan /\ TargetOf(q) \in Targets
    BY <1>9, TxnTyped
  <2>2. /\ q # p /\ pass[q].status = "running"
        /\ RowFollows(target[PlanOf(q)][TargetOf(q)], txn[u].row)
    BY <1>9 DEF PlanInv, TxnsTrue, p
  <2>3. Under(pass[q])
    BY <2>2 DEF Under
  <2> HIDE DEF q
  <2>4. ~(PlanOf(q) = PlanOf(p) /\ TargetOf(q) = TargetOf(p))
    BY <1>1, <1>3, <2>1, <2>2, <2>3, OneUnderWay
  <2>5. Own(w)[PlanOf(q)][TargetOf(q)] = target[PlanOf(q)][TargetOf(q)]
        /\ Done(w)[q] = pass[q]
    BY <1>5, <2>1, <2>2, <2>4
  <2>6. q # p /\ Done(w)[q].status = "running"
        /\ RowFollows(Own(w)[PlanOf(q)][TargetOf(q)], txn[u].row)
    BY <2>2, <2>5
  <2>7. QED
    BY <2>6 DEF q
<1>10. QED
  BY <1>6, <1>7, <1>8, <1>9 DEF p

(* A decision that waits for other passes keeps it.                        *)
LEMMA KeepDecideWaits ==
    ASSUME TypeInv, PlanInv, OneRequest, NEW w \in Workers, txn[w].open,
           txn' = [txn EXCEPT ![w] = NoTxn], UNCHANGED req, DecideWaits(w)
    PROVE  PlanInv'
<1>1. target' = Own(w) /\ pass' = Done(w) /\ UNCHANGED plan
  BY DEF DecideWaits
<1>2. \A u \in Workers : /\ u # w => txn'[u] = txn[u]
                         /\ txn'[u].open => u # w /\ txn[u].open
  BY TxnClosed
<1>3. RequestsTrue'
  BY <1>1 DEF PlanInv, RequestsTrue, RequestTrue
<1>4. RowsOfPlans'
  BY <1>1, OwnTrue DEF RowsOfPlans, RowOfPlan, Unconfirmed
<1>5. PassesOfRows'
  BY <1>1, OwnTrue DEF PassesOfRows, Confirmed, Unconfirmed
<1>6. TxnsTrue'
  <2>1. \A u \in Workers : txn'[u].open =>
            /\ pass'[txn'[u].pass].status = "running"
            /\ RowFollows(target'[PlanOf(txn'[u].pass)][TargetOf(txn'[u].pass)], txn'[u].row)
    BY <1>1, <1>2, OwnTrue
  <2>2. \A t, u \in Workers :
            txn'[t].open /\ txn'[u].open /\ txn'[t].pass = txn'[u].pass => t = u
    BY <1>2 DEF PlanInv, TxnsTrue
  <2>3. QED
    BY <2>1, <2>2 DEF TxnsTrue
<1>7. QED
  BY <1>3, <1>4, <1>5, <1>6 DEF PlanInv

(* The last worker to decide is alone.                                     *)
LEMMA LastAlone ==
    ASSUME TypeInv, PlanInv, OneRequest, NEW w \in Workers, txn[w].open, Last(w)
    PROVE  /\ \A u \in Workers : u # w => ~txn[u].open
           /\ \A x \in Targets : Own(w)[Decided][x].status \in TerminalTarget
           /\ Decided \in DOMAIN plan /\ plan[Decided] = "confirmed"
<1>1. ASSUME NEW u \in Workers, u # w, txn[u].open PROVE FALSE
  <2>1. txn[u].pass \in Passes /\ pass[txn[u].pass].status = "running"
        /\ txn[u].pass # txn[w].pass
    BY <1>1, TxnTyped DEF PlanInv, TxnsTrue
  <2>2. txn[u].pass \in Active \ {txn[w].pass}
    BY <2>1 DEF Active, ActiveStatuses
  <2>3. QED
    BY <2>2 DEF Last
<1>2. QED
  BY <1>1, DecidedTyped DEF Last, FannedIn

(* A decision that completes the plan keeps it.                            *)
LEMMA KeepDecideCompletes ==
    ASSUME TypeInv, PlanInv, OneRequest, NEW w \in Workers, txn[w].open,
           txn' = [txn EXCEPT ![w] = NoTxn], UNCHANGED req, DecideCompletes(w)
    PROVE  PlanInv'
<1>0. PICK v : v = Decided
  OBVIOUS
<1>1. /\ target' = Own(w) /\ pass' = Done(w) /\ Last(w) /\ v \in DOMAIN plan
      /\ plan[v] = "confirmed" /\ Finalize(v, Own(w)[v])
      /\ \A x \in Targets : Own(w)[v][x].status \in TerminalTarget
      /\ \A u \in Workers : u # w => ~txn[u].open
  BY <1>0, LastAlone DEF DecideCompletes
<1>2. /\ DOMAIN plan' = DOMAIN plan /\ Len(plan') = Len(plan)
      /\ \A u \in DOMAIN plan : plan'[u] = IF u = v THEN "completed" ELSE plan[u]
  BY <1>1, FinalizeTyped
<1>3. \A u \in DOMAIN plan : Unconfirmed(u)' <=> Unconfirmed(u)
  BY <1>1, <1>2 DEF Unconfirmed
<1>4. RequestsTrue'
  <2>1. ASSUME NEW r \in Requests PROVE RequestTrue(req[r])'
    <3>1. RequestTrue(req[r]) /\ req'[r] = req[r]
      BY DEF PlanInv, RequestsTrue
    <3>2. CASE req[r].op = "confirm"
      BY <1>1, <1>2, <3>1, <3>2 DEF RequestTrue
    <3>3. CASE req[r].op = "replace" /\ req[r].pending
      <4>1. /\ req[r].plan = Len(plan) /\ plan # <<>>
            /\ plan[req[r].plan] = "pending_confirmation"
        BY <3>1, <3>3 DEF RequestTrue
      <4>2. Len(plan) \in DOMAIN plan
        BY <1>1, Domains
      <4>3. plan'[req[r].plan] = "pending_confirmation"
        BY <1>1, <1>2, <4>1, <4>2
      <4>4. plan' # <<>>
        BY <1>1, <1>2
      <4>5. QED
        BY <1>2, <3>1, <3>3, <4>1, <4>3, <4>4 DEF RequestTrue
    <3>4. CASE req[r].op # "confirm" /\ ~(req[r].op = "replace" /\ req[r].pending)
      BY <1>2, <3>1, <3>4 DEF RequestTrue
    <3>5. QED
      BY <3>2, <3>3, <3>4
  <2>2. QED
    BY <2>1 DEF RequestsTrue
<1>5. RowsOfPlans'
  <2>1. ASSUME NEW u \in DOMAIN plan, NEW x \in Targets PROVE RowOfPlan(u, target[u][x])'
    <3>1. RowOfPlan(u, Own(w)[u][x])
      BY OwnTrue
    <3>2. plan'[u] = "completed" => plan[u] = "completed" \/ u = v
      BY <1>2
    <3>3. QED
      BY <1>1, <1>3, <3>1, <3>2 DEF RowOfPlan
  <2>2. QED
    BY <1>2, <2>1 DEF RowsOfPlans
<1>6. PassesOfRows'
  <2>1. \A p \in Passes : Confirmed(PlanOf(p))' <=> Confirmed(PlanOf(p))
    BY <1>2, <1>3 DEF Confirmed
  <2>2. QED
    BY <1>1, <2>1, OwnTrue DEF PassesOfRows
<1>7. TxnsTrue'
  <2>1. \A u \in Workers : ~txn'[u].open
    BY <1>1, TxnClosed
  <2>2. QED
    BY <2>1 DEF TxnsTrue
<1>8. QED
  BY <1>4, <1>5, <1>6, <1>7 DEF PlanInv

(* A decision that leases keeps it: a leased target's last pass has ended. *)
LEMMA KeepDecideLeases ==
    ASSUME TypeInv, PlanInv, OneRequest, NEW w \in Workers, txn[w].open,
           txn' = [txn EXCEPT ![w] = NoTxn], UNCHANGED req, DecideLeases(w)
    PROVE  PlanInv'
<1>0. PICK v, rows, L : v = Decided /\ rows = Own(w)[Decided] /\ L = Leased(rows)
  OBVIOUS
<1>1. /\ Last(w) /\ L \subseteq Targets /\ rows \in [Targets -> TargetRow]
      /\ v \in DOMAIN plan /\ plan[v] = "confirmed" /\ UNCHANGED plan
      /\ \A u \in DOMAIN plan, y \in Targets :
            target'[u][y] = IF u = v /\ y \in L THEN WithLease(rows, y) ELSE Own(w)[u][y]
      /\ \A q \in Passes :
            pass'[q] = IF /\ PlanOf(q) = v /\ TargetOf(q) \in L
                          /\ q[3] = rows[TargetOf(q)].leases + 1 /\ q[4] = 1
                       THEN QueuedPass(LeaseFor(rows, TargetOf(q))) ELSE Done(w)[q]
  BY <1>0, DecideLeasesEffect
<1>2. /\ \A x \in Targets : rows[x].status \in TerminalTarget
      /\ \A u \in Workers : u # w => ~txn[u].open
  BY <1>0, <1>1, LastAlone
<1>3. \A x \in L : /\ WithLease(rows, x).status = "queued"
                   /\ WithLease(rows, x).reserved = LeaseFor(rows, x)
                   /\ WithLease(rows, x).leases = rows[x].leases + 1
                   /\ rows[x].leases \in Nat /\ LeaseFor(rows, x) \in Nat
  BY <1>0, <1>1, WithLeaseTyped, LeaseTyped, RowNumbers
<1>4. RequestsTrue'
  BY <1>1 DEF PlanInv, RequestsTrue, RequestTrue
<1>5. RowsOfPlans'
  <2>1. ASSUME NEW u \in DOMAIN plan, NEW x \in Targets PROVE RowOfPlan(u, target[u][x])'
    <3>1. RowOfPlan(u, Own(w)[u][x])
      BY OwnTrue
    <3>2. CASE u = v /\ x \in L
      <4>1. target'[u][x].status = "queued" /\ plan'[u] = "confirmed"
        BY <1>1, <1>3, <3>2
      <4>2. QED
        BY <4>1 DEF RowOfPlan, Unconfirmed
    <3>3. CASE ~(u = v /\ x \in L)
      <4>1. target'[u][x] = Own(w)[u][x] /\ plan'[u] = plan[u]
        BY <1>1, <3>3
      <4>2. QED
        BY <3>1, <4>1 DEF RowOfPlan, Unconfirmed
    <3>4. QED
      BY <3>2, <3>3
  <2>2. QED
    BY <1>1, <2>1 DEF RowsOfPlans
<1>6. PassesOfRows'
  <2>1. \A p \in Passes : Confirmed(PlanOf(p))' <=> Confirmed(PlanOf(p))
    BY <1>1 DEF Confirmed, Unconfirmed
  <2>2. ASSUME NEW q \in Passes, ~Confirmed(PlanOf(q)) PROVE pass'[q] = NoPass
    <3>1. PlanOf(q) # v
      BY <1>1, <2>2 DEF Confirmed, Unconfirmed
    <3>2. QED
      BY <1>1, <2>2, <3>1, OwnTrue
  <2>3. ASSUME NEW q \in Passes, Confirmed(PlanOf(q))
        PROVE  PassOfRow(q, pass'[q], target'[PlanOf(q)][TargetOf(q)])
    <3>1. /\ PassOfRow(q, Done(w)[q], Own(w)[PlanOf(q)][TargetOf(q)])
          /\ PlanOf(q) \in DOMAIN plan /\ TargetOf(q) \in Targets /\ q[3] \in Nat /\ q[4] = 1
      BY <2>3, OwnTrue, PassParts, PassGeneration, OneCopy DEF Confirmed
    <3>2. CASE PlanOf(q) = v /\ TargetOf(q) \in L
      <4> DEFINE x == TargetOf(q)
                 row == rows[x]
                 new == WithLease(rows, x)
      <4>1. /\ target'[PlanOf(q)][x] = new /\ Own(w)[PlanOf(q)][x] = row
            /\ new.status = "queued" /\ new.reserved = LeaseFor(rows, x)
            /\ new.leases = row.leases + 1 /\ row.leases \in Nat
            /\ row.status \in TerminalTarget
        BY <1>0, <1>1, <1>2, <1>3, <3>1, <3>2
      <4>2. pass'[q] = IF q[3] = row.leases + 1 THEN QueuedPass(LeaseFor(rows, x))
                       ELSE Done(w)[q]
        BY <1>1, <3>1, <3>2
      <4>3. /\ QueuedPass(LeaseFor(rows, x)).status = "queued"
            /\ QueuedPass(LeaseFor(rows, x)).budget = LeaseFor(rows, x)
        BY <1>3, <3>2, PassTyped
      <4>4. PassOfRow(q, Done(w)[q], row)
        BY <3>1, <4>1
      <4> HIDE DEF x, row, new
      <4>5. PassOfRow(q, pass'[q], new)
        <5>1. CASE q[3] = row.leases + 1
          BY <3>1, <4>1, <4>2, <4>3, <5>1 DEF PassOfRow, TerminalTarget
        <5>2. CASE q[3] # row.leases + 1
          BY <3>1, <4>1, <4>2, <4>4, <5>2 DEF PassOfRow
        <5>3. QED
          BY <5>1, <5>2
      <4>6. QED
        BY <4>1, <4>5 DEF x
    <3>3. CASE ~(PlanOf(q) = v /\ TargetOf(q) \in L)
      <4>1. /\ pass'[q] = Done(w)[q]
            /\ target'[PlanOf(q)][TargetOf(q)] = Own(w)[PlanOf(q)][TargetOf(q)]
        BY <1>1, <3>1, <3>3
      <4>2. QED
        BY <3>1, <4>1
    <3>4. QED
      BY <3>2, <3>3
  <2>4. QED
    BY <2>1, <2>2, <2>3 DEF PassesOfRows
<1>7. TxnsTrue'
  <2>1. \A u \in Workers : ~txn'[u].open
    BY <1>2, TxnClosed
  <2>2. QED
    BY <2>1 DEF TxnsTrue
<1>8. QED
  BY <1>4, <1>5, <1>6, <1>7 DEF PlanInv

(* Every step keeps the plan invariant.                                    *)
LEMMA PlanInvNext ==
    ASSUME OneRequest, MaxReopens = 0
    PROVE  TypeInv /\ TypeInv' /\ PlanInv /\ [Next]_vars => PlanInv'
<1> SUFFICES ASSUME TypeInv, TypeInv', PlanInv, [Next]_vars PROVE PlanInv'
  OBVIOUS
<1>1. ASSUME NEW r \in Requests,
             ReadForReplace(r) \/ Replace(r) \/ ReadForConfirm(r) \/ Confirm(r)
      PROVE  PlanInv'
  BY <1>1, KeepRead, KeepReplace, KeepConfirm
<1>2. ASSUME NEW p \in Passes, Launch(p) \/ LaunchFails(p) \/ ReconcileFails(p) \/ Resolve(p)
      PROVE  PlanInv'
  BY <1>2, KeepLaunch, KeepLaunchFails, KeepReconcileFails, KeepResolve
<1>3. ASSUME NEW w \in Workers, (\E p \in Passes : Settle(w, p)) \/ RollBack(w)
      PROVE  PlanInv'
  BY <1>3, KeepSettle, KeepRollBack
<1>4. ASSUME NEW w \in Workers, Decide(w) PROVE PlanInv'
  BY <1>4, DecideCases, KeepDecideWaits, KeepDecideLeases, KeepDecideCompletes
<1>5. ASSUME NEW c \in Candidates, PrepChanges(c) PROVE PlanInv'
  BY <1>5, KeepUnchanged DEF PrepChanges
<1>6. CASE Pause \/ Resume
  BY <1>6, KeepPause, KeepResume
<1>7. CASE UNCHANGED vars
  BY <1>7, KeepUnchanged DEF vars
<1>8. QED
  BY <1>1, <1>2, <1>3, <1>4, <1>5, <1>6, <1>7 DEF Next
-----------------------------------------------------------------------------
(* There are finitely many passes.                                         *)
LEMMA PassesFinite ==
    ASSUME OneRequest
    PROVE  IsFiniteSet(Passes)
<1> DEFINE A == Versions \X Targets
           B == (0..MaxLeases) \X Copies
           f == [x \in A \X B |-> <<x[1][1], x[1][2], x[2][1], x[2][2]>>]
<1>1. IsFiniteSet(Versions) /\ IsFiniteSet(Targets) /\ IsFiniteSet(0..MaxLeases)
      /\ IsFiniteSet(Copies)
  <2>1. MaxPlans \in Nat /\ MaxLeases \in Nat
    BY Numbers
  <2>2. IsFiniteSet(Versions) /\ IsFiniteSet(0..MaxLeases)
    BY <2>1, FS_Interval DEF Versions
  <2>3. IsFiniteSet(Copies)
    BY OneCopy, FS_Singleton
  <2>4. IsFiniteSet(Targets)
    BY Numbers
  <2>5. QED
    BY <2>2, <2>3, <2>4
<1>2. IsFiniteSet(A \X B)
  <2>1. IsFiniteSet(A) /\ IsFiniteSet(B)
    BY <1>1, FS_Product
  <2> HIDE DEF A, B
  <2>2. QED
    BY <2>1, FS_Product
<1>3. f \in Surjection(A \X B, Passes)
  <2>1. ASSUME NEW x \in A \X B PROVE f[x] \in Passes
    BY DEF Passes
  <2>2. ASSUME NEW p \in Passes PROVE \E x \in A \X B : f[x] = p
    <3> DEFINE x == <<<<p[1], p[2]>>, <<p[3], p[4]>>>>
    <3>1. x \in A \X B /\ p = <<p[1], p[2], p[3], p[4]>>
      BY DEF Passes
    <3>2. f[x] = p
      BY <3>1
    <3>3. QED
      BY <3>1, <3>2
  <2> HIDE DEF f
  <2>3. f \in [A \X B -> Passes]
    BY <2>1 DEF f
  <2>4. QED
    BY <2>2, <2>3 DEF Surjection
<1> HIDE DEF f, A, B
<1>4. QED
  BY <1>2, <1>3, FS_Surjection

(* What is spent and reserved of a plan, and its ended passes, are numbers.*)
LEMMA BudgetTyped ==
    ASSUME TypeInv, OneRequest, NEW v \in DOMAIN plan
    PROVE  /\ Committed(target[v]) \in Int /\ TotalTime \in Nat /\ Overrun \in Nat
           /\ IsFiniteSet(Ended(v)) /\ Cardinality(Ended(v)) \in Nat
           /\ Overrun * Cardinality(Ended(v)) \in Nat
<1>1. Committed(target[v]) \in Int
  BY Domains, CommittedTyped
<1>2. TotalTime \in Nat /\ Overrun \in Nat
  BY Numbers
<1>3. IsFiniteSet(Ended(v))
  BY PassesFinite, FS_Subset DEF Ended
<1>4. Cardinality(Ended(v)) \in Nat
  BY <1>3, FS_CardinalityType
<1>5. Overrun * Cardinality(Ended(v)) \in Nat
  BY <1>2, <1>4
<1>6. QED
  BY <1>1, <1>2, <1>3, <1>4, <1>5

(* Rows that hold the same time are committed the same.                    *)
LEMMA SameCommitted ==
    ASSUME NEW rows \in [Targets -> TargetRow], NEW new \in [Targets -> TargetRow],
           \A x \in Targets : /\ new[x].consumed = rows[x].consumed
                              /\ new[x].reserved = rows[x].reserved
    PROVE  Committed(new) = Committed(rows)
<1>1. \A x \in Targets : Held(new)[x] \in Nat /\ Held(new)[x] = Held(rows)[x]
  BY CommittedTyped
<1>2. \A x \in Targets : Held(new)[x] \in Int /\ Held(new)[x] = Held(rows)[x]
  BY <1>1
<1>3. QED
  BY <1>2, SumSame, Numbers DEF Committed

(* A step that changes no account and ends no pass keeps the budget.       *)
LEMMA BudgetKept ==
    ASSUME TypeInv, TypeInv', BudgetRespected, DOMAIN plan' = DOMAIN plan,
           \A v \in DOMAIN plan, x \in Targets :
              /\ target'[v][x].consumed = target[v][x].consumed
              /\ target'[v][x].reserved = target[v][x].reserved,
           \A p \in Passes : pass'[p].status = "completed" <=> pass[p].status = "completed"
    PROVE  BudgetRespected'
<1>1. ASSUME NEW v \in DOMAIN plan
      PROVE  Committed(target[v])' = Committed(target[v])
  <2>1. target[v] \in [Targets -> TargetRow]
    BY Domains
  <2>2. target'[v] \in [Targets -> TargetRow]
    <3>1. target' \in Seq([Targets -> TargetRow]) /\ Len(target') = Len(plan')
          /\ plan' \in Seq(PlanStatuses)
      BY DEF TypeInv, TypeOK, PlanStatuses
    <3>2. v \in 1..Len(target')
      BY <3>1, LenProperties
    <3>3. QED
      BY <3>1, <3>2, ElementOfSeq
  <2>3. Committed(target'[v]) = Committed(target[v])
    BY <2>1, <2>2, SameCommitted
  <2>4. QED
    BY <2>3
<1>2. \A v \in DOMAIN plan : Ended(v)' = Ended(v)
  BY DEF Ended
<1>3. QED
  BY <1>1, <1>2 DEF BudgetRespected

(* The steps that change what is spent, reserved or ended.                 *)
LEMMA BudgetReplace ==
    ASSUME TypeInv, PlanInv, OneRequest, BudgetRespected, NEW r \in Requests, Replace(r)
    PROVE  BudgetRespected'
<1>0. PICK new : new = Len(plan) + 1
  OBVIOUS
<1>1. /\ UNCHANGED pass /\ new \notin DOMAIN plan /\ DOMAIN plan' = DOMAIN plan \cup {new}
      /\ \A v \in DOMAIN plan : target'[v] = target[v]
      /\ target'[new] = [x \in Targets |-> NewTarget]
  BY <1>0, ReplaceEffect
<1>2. \A v : Ended(v)' = Ended(v)
  BY <1>1 DEF Ended
<1>3. ASSUME NEW v \in DOMAIN plan
      PROVE  Committed(target'[v]) <= TotalTime + Overrun * Cardinality(Ended(v)')
  BY <1>1, <1>2 DEF BudgetRespected
<1>4. Committed(target'[new]) <= TotalTime + Overrun * Cardinality(Ended(new)')
  <2> DEFINE rows == [x \in Targets |-> NewTarget]
  <2>1. \A x \in Targets : Held(rows)[x] = 0
    BY DEF Held, NewTarget
  <2>2. Committed(rows) = 0
    BY <2>1, SumZero, Numbers DEF Committed
  <2> HIDE DEF rows
  <2>3. IsFiniteSet(Ended(new))
    BY PassesFinite, FS_Subset DEF Ended
  <2>4. Cardinality(Ended(new)) \in Nat /\ TotalTime \in Nat /\ Overrun \in Nat
    BY <2>3, FS_CardinalityType, Numbers
  <2>5. Overrun * Cardinality(Ended(new)) \in Nat
    BY <2>4
  <2>6. 0 <= TotalTime + Overrun * Cardinality(Ended(new))
    BY <2>4, <2>5
  <2>7. target'[new] = rows
    BY <1>1 DEF rows
  <2>8. QED
    BY <1>2, <2>2, <2>6, <2>7
<1>5. QED
  BY <1>1, <1>3, <1>4 DEF BudgetRespected

(* A confirmation keeps the budget: the guaranteed times add up to it.     *)
LEMMA BudgetConfirm ==
    ASSUME TypeInv, PlanInv, OneRequest, BudgetRespected, NEW r \in Requests, Confirm(r)
    PROVE  BudgetRespected'
<1>0. PICK v : v = req[r].plan
  OBVIOUS
<1>1. /\ v \in DOMAIN plan /\ plan[v] = "pending_confirmation" /\ DOMAIN plan' = DOMAIN plan
      /\ \A u \in DOMAIN plan : u # v => target'[u] = target[u]
      /\ target'[v] = [x \in Targets |-> Queued(x)]
      /\ \A p \in Passes :
            pass'[p] = IF PlanOf(p) = v /\ p[3] = 0
                       THEN QueuedPass(GuaranteedTime(TargetOf(p))) ELSE pass[p]
  BY <1>0, ConfirmEffect
<1>2. ASSUME NEW p \in Passes
      PROVE  pass'[p].status = "completed" <=> pass[p].status = "completed"
  <2>1. CASE PlanOf(p) = v /\ p[3] = 0
    <3>1. pass[p] = NoPass
      BY <1>1, <2>1 DEF PlanInv, PassesOfRows, Confirmed, Unconfirmed
    <3>2. pass'[p].status = "queued"
      <4>1. GuaranteedTime(TargetOf(p)) \in Nat
        BY PassParts, GuaranteedTimeTyped
      <4>2. PICK time : time = GuaranteedTime(TargetOf(p))
        OBVIOUS
      <4>3. QueuedPass(time).status = "queued"
        BY <4>1, <4>2, PassTyped
      <4>4. QED
        BY <1>1, <2>1, <4>2, <4>3
    <3>3. QED
      BY <3>1, <3>2 DEF NoPass
  <2>2. QED
    BY <1>1, <2>1
<1>3. \A u : Ended(u)' = Ended(u)
  BY <1>2 DEF Ended
<1>4. ASSUME NEW u \in DOMAIN plan, u # v
      PROVE  Committed(target'[u]) <= TotalTime + Overrun * Cardinality(Ended(u)')
  BY <1>1, <1>3, <1>4 DEF BudgetRespected
<1>5. Committed(target'[v]) <= TotalTime + Overrun * Cardinality(Ended(v)')
  <2> DEFINE rows == [x \in Targets |-> Queued(x)]
             share == [x \in Targets |-> SplitInteger(GuaranteedTotal(TotalTime), x)]
  <2>1. GuaranteedTotal(TotalTime) \in Nat /\ GuaranteedTotal(TotalTime) <= TotalTime
    BY GuaranteedTyped, Numbers
  <2>2. SumFunctionOnSet(share, Targets) = GuaranteedTotal(TotalTime)
    BY <2>1, SplitAll
  <2>3. \A x \in Targets : Held(rows)[x] \in Int /\ Held(rows)[x] = share[x]
    <3>1. ASSUME NEW x \in Targets PROVE Held(rows)[x] \in Int /\ Held(rows)[x] = share[x]
      <4>1. Held(rows)[x] = Queued(x).consumed + Queued(x).reserved
        BY DEF Held
      <4>2. Queued(x).consumed = 0 /\ Queued(x).reserved = GuaranteedTime(x)
            /\ GuaranteedTime(x) \in Nat
        BY QueuedIs, GuaranteedTimeTyped
      <4>3. share[x] = GuaranteedTime(x)
        BY DEF GuaranteedTime
      <4> HIDE DEF share, rows
      <4>4. QED
        BY <4>1, <4>2, <4>3
    <3>2. QED
      BY <3>1
  <2>4. target'[v] = rows
    BY <1>1
  <2> HIDE DEF rows, share
  <2>5. Committed(rows) = GuaranteedTotal(TotalTime)
    BY <2>2, <2>3, SumSame, Numbers DEF Committed
  <2>6. TotalTime \in Nat /\ Overrun * Cardinality(Ended(v)) \in Nat
    BY <1>1, BudgetTyped
  <2>7. Committed(rows) <= TotalTime + Overrun * Cardinality(Ended(v))
    BY <2>1, <2>5, <2>6
  <2>8. QED
    BY <1>3, <2>4, <2>7
<1>6. QED
  BY <1>1, <1>4, <1>5 DEF BudgetRespected

(* The ended passes of a plan as a deciding worker sees them.              *)
EndedWith(w, v) == {p \in Passes : PlanOf(p) = v /\ Done(w)[p].status = "completed"}

(* The pass has spent no more than it had reserved and its overrun.        *)
LEMMA BudgetOwn ==
    ASSUME TypeInv, PlanInv, OneRequest, BudgetRespected, NEW w \in Workers, txn[w].open,
           NEW v \in DOMAIN plan
    PROVE  /\ Committed(Own(w)[v]) <= TotalTime + Overrun * Cardinality(EndedWith(w, v))
           /\ Overrun * Cardinality(EndedWith(w, v)) \in Nat
<1> DEFINE p == txn[w].pass
           x == TargetOf(p)
           row == txn[w].row
           n == Cardinality(Ended(v))
<1>1. /\ p \in Passes /\ row \in TargetRow /\ PlanOf(p) \in DOMAIN plan /\ x \in Targets
  BY TxnTyped
<1>2. pass[p].status = "running" /\ RowFollows(target[PlanOf(p)][x], row)
  BY DEF PlanInv, TxnsTrue
<1>3. /\ \A y \in Targets :
            Own(w)[v][y] = IF v = PlanOf(p) /\ y = x THEN row ELSE target[v][y]
      /\ Own(w)[v] \in [Targets -> TargetRow] /\ target[v] \in [Targets -> TargetRow]
      /\ Done(w)[p].status = "completed"
      /\ \A q \in Passes : q # p => Done(w)[q] = pass[q]
  BY OwnTyped, DoneTyped, Domains
<1>4. /\ Committed(target[v]) \in Int /\ Committed(target[v]) <= TotalTime + Overrun * n
      /\ TotalTime \in Nat /\ Overrun \in Nat /\ n \in Nat /\ Overrun * n \in Nat
      /\ IsFiniteSet(Ended(v))
  BY BudgetTyped DEF BudgetRespected
<1> HIDE DEF p, x, row
<1>5. CASE v # PlanOf(p)
  <2>1. EndedWith(w, v) = Ended(v)
    BY <1>3, <1>5 DEF EndedWith, Ended
  <2>2. Committed(Own(w)[v]) = Committed(target[v])
    BY <1>3, <1>5, SameCommitted
  <2>3. QED
    BY <1>4, <2>1, <2>2
<1>6. CASE v = PlanOf(p)
  <2>1. EndedWith(w, v) = Ended(v) \cup {p} /\ p \notin Ended(v)
    BY <1>1, <1>2, <1>3, <1>6 DEF EndedWith, Ended
  <2>2. Cardinality(EndedWith(w, v)) = n + 1
    BY <1>4, <2>1, FS_AddElement
  <2> DEFINE f == Held(target[v])
             g == Held(Own(w)[v])
             old == target[v][x]
  <2>3. /\ \A y \in Targets : f[y] \in Int /\ g[y] \in Int
        /\ f[x] = old.consumed + old.reserved
        /\ g[x] = row.consumed + row.reserved
    <3>1. \A y \in Targets : f[y] \in Nat /\ f[y] = target[v][y].consumed + target[v][y].reserved
      BY <1>3, CommittedTyped
    <3>2. \A y \in Targets : g[y] \in Nat /\ g[y] = Own(w)[v][y].consumed + Own(w)[v][y].reserved
      BY <1>3, CommittedTyped
    <3>3. Own(w)[v][x] = row
      BY <1>1, <1>3, <1>6
    <3> HIDE DEF f, g
    <3>4. QED
      BY <1>1, <3>1, <3>2, <3>3
  <2>4. \A y \in Targets : y # x => f[y] = g[y]
    BY <1>3 DEF Held
  <2>5. Committed(target[v]) = SumFunctionOnSet(f, Targets)
        /\ Committed(Own(w)[v]) = SumFunctionOnSet(g, Targets)
    BY DEF Committed
  <2>6. /\ row.reserved = 0 /\ row.consumed <= old.consumed + old.reserved + Overrun
        /\ row.consumed \in Nat /\ old.consumed \in Nat /\ old.reserved \in Nat
    <3>1. old \in TargetRow
      BY <1>1, <1>3
    <3>2. QED
      BY <1>1, <1>2, <1>6, <3>1, RowNumbers DEF RowFollows
  <2> HIDE DEF f, g, old, n
  <2>7. SumFunctionOnSet(g, Targets) = SumFunctionOnSet(f, Targets) + (g[x] - f[x])
    <3>1. x \in Targets
      BY <1>1
    <3>2. \A y \in Targets : f[y] \in Int /\ g[y] \in Int
      BY <2>3
    <3>3. QED
      BY <2>4, <3>1, <3>2, TargetsChanged
  <2>8. Committed(Own(w)[v]) <= Committed(target[v]) + Overrun
    BY <1>4, <2>3, <2>5, <2>6, <2>7
  <2>9. Overrun * (n + 1) = Overrun * n + Overrun
    BY <1>4
  <2>10. /\ Committed(Own(w)[v]) <= TotalTime + Overrun * (n + 1)
         /\ Overrun * (n + 1) \in Nat
    <3>1. Committed(Own(w)[v]) \in Int
      BY <1>3, CommittedTyped
    <3>2. QED
      BY <1>4, <2>8, <2>9, <3>1
  <2>11. QED
    BY <2>2, <2>10
<1>7. QED
  BY <1>5, <1>6

(* A decision keeps the budget: the leases fit into what is available.     *)
LEMMA BudgetDecide ==
    ASSUME TypeInv, TypeInv', PlanInv, OneRequest, BudgetRespected,
           NEW w \in Workers, Decide(w)
    PROVE  BudgetRespected'
<1>1. txn[w].open /\ (DecideWaits(w) \/ DecideLeases(w) \/ DecideCompletes(w))
  BY DecideCases
<1>2. ASSUME target' = Own(w), pass' = Done(w), DOMAIN plan' = DOMAIN plan
      PROVE  BudgetRespected'
  <2>1. \A v : Ended(v)' = EndedWith(w, v)
    BY <1>2 DEF Ended, EndedWith
  <2>2. QED
    BY <1>1, <1>2, <2>1, BudgetOwn DEF BudgetRespected
<1>3. CASE DecideWaits(w)
  BY <1>2, <1>3 DEF DecideWaits
<1>4. CASE DecideCompletes(w)
  <2>1. DOMAIN plan' = DOMAIN plan
    BY <1>1, <1>4, LastAlone, FinalizeTyped DEF DecideCompletes
  <2>2. QED
    BY <1>2, <1>4, <2>1 DEF DecideCompletes
<1>5. CASE DecideLeases(w)
  <2>0. PICK v, rows, L : v = Decided /\ rows = Own(w)[Decided] /\ L = Leased(rows)
    OBVIOUS
  <2>1. /\ Last(w) /\ L \subseteq Targets /\ L # {} /\ rows \in [Targets -> TargetRow]
        /\ v \in DOMAIN plan /\ plan[v] = "confirmed" /\ UNCHANGED plan
        /\ \A u \in DOMAIN plan, y \in Targets :
              target'[u][y] = IF u = v /\ y \in L THEN WithLease(rows, y) ELSE Own(w)[u][y]
        /\ \A u \in DOMAIN plan : u # v => target'[u] = Own(w)[u]
        /\ \A q \in Passes :
              pass'[q] = IF /\ PlanOf(q) = v /\ TargetOf(q) \in L
                            /\ q[3] = rows[TargetOf(q)].leases + 1 /\ q[4] = 1
                         THEN QueuedPass(LeaseFor(rows, TargetOf(q))) ELSE Done(w)[q]
    BY <1>1, <1>5, <2>0, DecideLeasesEffect
  <2>2. ASSUME NEW u \in DOMAIN plan, u # v
        PROVE  Committed(target[u])' <= TotalTime + Overrun * Cardinality(Ended(u))'
    <3>1. Ended(u)' = EndedWith(w, u)
      BY <2>1, <2>2 DEF Ended, EndedWith
    <3>2. QED
      BY <1>1, <2>1, <2>2, <3>1, BudgetOwn
  <2>3. Committed(target[v])' <= TotalTime + Overrun * Cardinality(Ended(v))'
    <3> DEFINE new == target'[v]
               lease == [x \in Targets |-> IF x \in L THEN LeaseFor(rows, x) ELSE 0]
               f == Held(rows)
               h == Held(new)
    <3>1. new \in [Targets -> TargetRow]
      <4>1. target' \in Seq([Targets -> TargetRow]) /\ Len(target') = Len(target)
        BY <1>1, <1>5, <2>0, DecideLeasesEffect
      <4>2. v \in 1..Len(target')
        BY <2>1, <4>1, Domains
      <4>3. QED
        BY <4>1, <4>2, ElementOfSeq
    <3>2. \A x \in Targets : rows[x].status \in TerminalTarget
      BY <1>1, <2>0, <2>1, LastAlone
    <3>3. \A x \in Targets : rows[x].reserved = 0
      <4>1. ASSUME NEW x \in Targets PROVE rows[x].reserved = 0
        <5> DEFINE q == <<v, x, rows[x].leases, 1>>
        <5>1. rows[x] \in TargetRow /\ rows[x].leases \in 0..MaxLeases
          BY <2>1 DEF TargetRow
        <5>2. q \in Passes /\ PlanOf(q) = v /\ TargetOf(q) = x /\ q[3] = rows[x].leases
          BY <2>1, <5>1, Domains, OneCopy DEF Passes, PlanOf, TargetOf
        <5>3. Confirmed(v)
          BY <2>1 DEF Confirmed, Unconfirmed
        <5> HIDE DEF q
        <5>4. PassOfRow(q, Done(w)[q], rows[x])
          BY <1>1, <2>0, <5>2, <5>3, OwnTrue
        <5>5. QED
          BY <3>2, <5>2, <5>4 DEF PassOfRow
      <4>2. QED
        BY <4>1
    <3>4. \A x \in L : LeaseFor(rows, x) \in Nat
                       /\ WithLease(rows, x).reserved = LeaseFor(rows, x)
                       /\ WithLease(rows, x).consumed = rows[x].consumed
      BY <2>0, <2>1, WithLeaseTyped, LeaseTyped
    <3>5. ASSUME NEW x \in Targets
          PROVE  f[x] \in Int /\ lease[x] \in Int /\ h[x] = f[x] + lease[x]
      <4>1. f[x] \in Nat /\ f[x] = rows[x].consumed + rows[x].reserved
        BY <2>1, CommittedTyped
      <4>2. h[x] = new[x].consumed + new[x].reserved
        BY <3>1, CommittedTyped
      <4>3. new[x] = IF x \in L THEN WithLease(rows, x) ELSE rows[x]
        BY <2>0, <2>1
      <4>4. lease[x] = IF x \in L THEN LeaseFor(rows, x) ELSE 0
        OBVIOUS
      <4>5. rows[x].consumed \in Nat /\ rows[x].reserved = 0
        BY <2>1, <3>3, RowNumbers
      <4> HIDE DEF f, h, new, lease
      <4>6. QED
        <5>1. CASE x \in L
          BY <3>4, <4>1, <4>2, <4>3, <4>4, <4>5, <5>1
        <5>2. CASE x \notin L
          BY <4>1, <4>2, <4>3, <4>4, <4>5, <5>2
        <5>3. QED
          BY <5>1, <5>2
    <3>6. SumFunctionOnSet(lease, Targets) <= Available(rows)
      BY <2>0, <2>1, LeasesFit
    <3>7. Committed(rows) = SumFunctionOnSet(f, Targets)
          /\ Committed(new) = SumFunctionOnSet(h, Targets)
      BY DEF Committed
    <3>8. Committed(rows) \in Int /\ Available(rows) = TotalTime - Committed(rows)
          /\ TotalTime \in Nat
      BY <2>1, CommittedTyped, Numbers DEF Available
    <3> HIDE DEF f, h, lease
    <3>9. SumFunctionOnSet(h, Targets)
            = SumFunctionOnSet(f, Targets) + SumFunctionOnSet(lease, Targets)
      BY SMTT(30), <3>5, SumPlus, Numbers
    <3>10. SumFunctionOnSet(lease, Targets) \in Int
      BY <3>5, SumIsInt, Numbers
    <3>11. Committed(new) <= TotalTime
      BY <3>6, <3>7, <3>8, <3>9, <3>10
    <3>12. Committed(new) \in Int
      BY <3>1, CommittedTyped
    <3>13. Overrun * Cardinality(Ended(v)') \in Nat
      <4>1. IsFiniteSet(Ended(v)')
        BY PassesFinite, FS_Subset DEF Ended
      <4>2. Cardinality(Ended(v)') \in Nat /\ Overrun \in Nat
        BY <4>1, FS_CardinalityType, Numbers
      <4>3. QED
        BY <4>2
    <3>14. Committed(new) <= TotalTime + Overrun * Cardinality(Ended(v)')
      BY <3>8, <3>11, <3>12, <3>13
    <3>15. QED
      BY <3>14 DEF new
  <2>4. QED
    BY <2>1, <2>2, <2>3 DEF BudgetRespected
<1>6. QED
  BY <1>1, <1>3, <1>4, <1>5

(* Every step keeps the budget.                                            *)
LEMMA BudgetSteps ==
    ASSUME TypeInv, TypeInv', PlanInv, OneRequest, MaxReopens = 0, BudgetRespected,
           [Next]_vars
    PROVE  BudgetRespected'
<1>1. ASSUME NEW r \in Requests, ReadForReplace(r) \/ ReadForConfirm(r) PROVE BudgetRespected'
  BY <1>1, BudgetKept DEF ReadForReplace, ReadForConfirm
<1>2. ASSUME NEW r \in Requests, Replace(r) \/ Confirm(r) PROVE BudgetRespected'
  BY <1>2, BudgetReplace, BudgetConfirm
<1>3. ASSUME NEW p \in Passes, Launch(p) PROVE BudgetRespected'
  <2>1. /\ UNCHANGED plan /\ pass[p].status \in {"queued", "retry"}
        /\ pass'[p].status = "running"
        /\ \A q \in Passes : q # p => pass'[q] = pass[q]
        /\ \A u \in DOMAIN plan, y \in Targets :
              target'[u][y] = IF u = PlanOf(p) /\ y = TargetOf(p)
                              THEN [target[u][y] EXCEPT !.status = "searching"]
                              ELSE target[u][y]
    BY <1>3, LaunchEffect
  <2>2. ASSUME NEW u \in DOMAIN plan, NEW y \in Targets
        PROVE  /\ target'[u][y].consumed = target[u][y].consumed
               /\ target'[u][y].reserved = target[u][y].reserved
    <3>1. target[u][y] \in TargetRow
      BY Domains
    <3>2. \/ target'[u][y] = [target[u][y] EXCEPT !.status = "searching"]
          \/ target'[u][y] = target[u][y]
      BY <2>1
    <3>3. QED
      BY <3>1, <3>2 DEF TargetRow
  <2>3. QED
    BY <2>1, <2>2, BudgetKept
<1>4. ASSUME NEW p \in Passes, LaunchFails(p) PROVE BudgetRespected'
  BY <1>4, LaunchFailsEffect, BudgetKept
<1>5. ASSUME NEW p \in Passes, ReconcileFails(p) PROVE BudgetRespected'
  BY <1>5, ReconcileFailsEffect, BudgetKept
<1>6. ASSUME NEW p \in Passes, Resolve(p) PROVE BudgetRespected'
  BY <1>6, ResolveEffect, KeepResolve, BudgetKept
<1>7. CASE Pause
  <2>1. /\ UNCHANGED <<plan, target>>
        /\ pass' = [p \in Passes |-> IF pass[p].status \in {"queued", "retry"}
                                     THEN [pass[p] EXCEPT !.status = "paused"] ELSE pass[p]]
    BY <1>7 DEF Pause
  <2>2. ASSUME NEW p \in Passes
        PROVE  pass'[p].status = "completed" <=> pass[p].status = "completed"
    <3>1. pass[p] \in PassRow
      BY DEF TypeInv, TypeOK
    <3>2. [pass[p] EXCEPT !.status = "paused"].status = "paused"
      BY <3>1 DEF PassRow
    <3>3. QED
      BY <2>1, <3>2
  <2>3. QED
    BY <2>1, <2>2, BudgetKept
<1>8. CASE Resume
  <2>1. /\ UNCHANGED <<plan, target>>
        /\ pass' = [p \in Passes |-> IF pass[p].status = "paused"
                                     THEN [pass[p] EXCEPT !.status = "queued"] ELSE pass[p]]
    BY <1>8 DEF Resume
  <2>2. ASSUME NEW p \in Passes
        PROVE  pass'[p].status = "completed" <=> pass[p].status = "completed"
    <3>1. pass[p] \in PassRow
      BY DEF TypeInv, TypeOK
    <3>2. [pass[p] EXCEPT !.status = "queued"].status = "queued"
      BY <3>1 DEF PassRow
    <3>3. QED
      BY <2>1, <3>2
  <2>3. QED
    BY <2>1, <2>2, BudgetKept
<1>9. ASSUME NEW w \in Workers, Decide(w) PROVE BudgetRespected'
  BY <1>9, BudgetDecide
<1>10. ASSUME NEW w \in Workers, (\E p \in Passes : Settle(w, p)) \/ RollBack(w)
       PROVE  BudgetRespected'
  BY <1>10, BudgetKept DEF Settle, RollBack
<1>11. ASSUME NEW c \in Candidates, PrepChanges(c) PROVE BudgetRespected'
  BY <1>11, BudgetKept DEF PrepChanges
<1>12. CASE UNCHANGED vars
  BY <1>12, BudgetKept DEF vars
<1>13. QED
  BY <1>1, <1>2, <1>3, <1>4, <1>5, <1>6, <1>7, <1>8, <1>9, <1>10, <1>11, <1>12 DEF Next

(* What a row reserves is with the one pass of its target under way.       *)
LEMMA AccountedNow ==
    ASSUME TypeInv, PlanInv, OneRequest
    PROVE  ReservedHasOwner /\ OnePassPerTarget
<1>1. \A p \in Passes : Unfinished(p) <=> Under(pass[p])
  <2>1. \A p \in Passes : pass[p].status \in PassStatuses
    BY DEF TypeInv, TypeOK, PassRow
  <2>2. QED
    BY <2>1 DEF Unfinished, ActiveStatuses, Under, PassStatuses
<1>2. ASSUME NEW v \in DOMAIN plan, NEW x \in Targets, target[v][x].reserved > 0
      PROVE  /\ plan[v] # "completed"
             /\ \E p \in Passes : PlanOf(p) = v /\ TargetOf(p) = x /\ Unfinished(p)
  <2> DEFINE row == target[v][x]
             p == <<v, x, row.leases, 1>>
  <2>1. RowOfPlan(v, row) /\ row \in TargetRow /\ v \in Versions
    BY Domains DEF PlanInv, RowsOfPlans
  <2>2. Confirmed(v)
    <3>1. NewTarget.reserved = 0
      BY DEF NewTarget
    <3>2. QED
      BY <1>2, <2>1, <3>1 DEF RowOfPlan, Confirmed
  <2>3. row.leases \in 0..MaxLeases
    BY <2>1 DEF TargetRow
  <2>4. p \in Passes /\ PlanOf(p) = v /\ TargetOf(p) = x /\ p[3] = row.leases
    BY <2>1, <2>3, OneCopy DEF Passes, PlanOf, TargetOf
  <2> HIDE DEF p
  <2>5. PassOfRow(p, pass[p], row)
    BY <2>2, <2>4 DEF PlanInv, PassesOfRows
  <2> HIDE DEF row
  <2>6. row.reserved > 0
    BY <1>2 DEF row
  <2>7. Under(pass[p]) /\ row.status \notin TerminalTarget
    BY <2>4, <2>5, <2>6 DEF PassOfRow, Under
  <2>8. QED
    BY <1>1, <2>1, <2>4, <2>7 DEF RowOfPlan
<1>3. ASSUME NEW v \in DOMAIN plan, NEW x \in Targets
      PROVE  Cardinality({p \in Passes : PlanOf(p) = v /\ TargetOf(p) = x /\ Unfinished(p)}) <= 1
  <2> DEFINE S == {p \in Passes : PlanOf(p) = v /\ TargetOf(p) = x /\ Unfinished(p)}
  <2>1. \A p, q \in S : p = q
    BY <1>1, OneUnderWay
  <2>2. CASE S = {}
    BY <2>2, FS_EmptySet
  <2>3. ASSUME NEW p \in S PROVE Cardinality(S) <= 1
    <3>1. S = {p}
      BY <2>1, <2>3
    <3> HIDE DEF S
    <3>2. Cardinality(S) = 1
      BY <3>1, FS_Singleton
    <3>3. QED
      BY <3>2
  <2>4. QED
    BY <2>2, <2>3
<1>4. QED
  BY <1>2, <1>3 DEF ReservedHasOwner, OnePassPerTarget

ResearchInv == TypeInv /\ PlanInv /\ BudgetRespected

(* The inductive invariant holds in every state.                           *)
LEMMA ResearchInvariant ==
    ASSUME OneRequest, MaxReopens = 0
    PROVE  Spec => []ResearchInv
<1>1. Init => ResearchInv
  <2>1. ASSUME Init PROVE BudgetRespected
    BY <2>1, EmptySeq DEF Init, BudgetRespected
  <2>2. QED
    BY <2>1, TypeInit, PlanInvInit DEF ResearchInv
<1>2. ResearchInv /\ [Next]_vars => ResearchInv'
  <2> SUFFICES ASSUME ResearchInv, [Next]_vars PROVE ResearchInv'
    OBVIOUS
  <2>1. TypeInv /\ PlanInv /\ BudgetRespected
    BY DEF ResearchInv
  <2>2. TypeInv'
    BY <2>1, TypeNext
  <2>3. PlanInv'
    BY <2>1, <2>2, PlanInvNext
  <2>4. BudgetRespected'
    BY <2>1, <2>2, BudgetSteps
  <2>5. QED
    BY <2>2, <2>3, <2>4 DEF ResearchInv
<1>3. QED
  BY <1>1, <1>2, PTL DEF Spec

(* Every minute of a plan is with one pass: its targets never spend and    *)
(* reserve more than its time but for what each ended pass overran, what   *)
(* is reserved belongs to an unfinished pass of a plan that is not         *)
(* completed, and no target has two passes under way; whichever worker     *)
(* decides, whatever fails, and however many plans, targets and leases     *)
(* there are.                                                              *)
THEOREM ResearchTimeAccounted ==
    ASSUME OneRequest, MaxReopens = 0
    PROVE  Spec => []TimeAccounted
<1>1. ResearchInv => TimeAccounted
  BY AccountedNow DEF ResearchInv, TypeInv, TimeAccounted
<1>2. QED
  BY <1>1, ResearchInvariant, PTL

-----------------------------------------------------------------------------
(* What the topology sees of the engine.                                   *)
Phases == [v \in Versions |-> PhaseOf(v)]
Tokens == [v \in Versions |-> [x \in Targets |-> TokenOf(v, x)]]
Traversals == [v \in Versions |-> [x \in Targets |-> TraversalsOf(v, x)]]

(* Two tables with the same entries are the same.                          *)
LEMMA SameTable ==
    ASSUME NEW S, NEW T, NEW f, NEW g,
           f = [s \in S |-> [t \in T |-> f[s][t]]], g = [s \in S |-> [t \in T |-> g[s][t]]],
           \A s \in S, t \in T : f[s][t] = g[s][t]
    PROVE  f = g
<1>1. ASSUME NEW s \in S PROVE [t \in T |-> f[s][t]] = [t \in T |-> g[s][t]]
  OBVIOUS
<1>2. QED
  BY <1>1

(* A table with one entry changed.                                         *)
LEMMA PutTable ==
    ASSUME NEW S, NEW T, NEW f, NEW g, NEW a \in S, NEW b \in T, NEW val,
           f = [s \in S |-> [t \in T |-> f[s][t]]], g = [s \in S |-> [t \in T |-> g[s][t]]],
           \A s \in S, t \in T : g[s][t] = IF s = a /\ t = b THEN val ELSE f[s][t]
    PROVE  g = [f EXCEPT ![a][b] = val]
<1> DEFINE h == [f EXCEPT ![a][b] = val]
<1>1. \A s \in S : f[s] = [t \in T |-> f[s][t]]
  OBVIOUS
<1>2. h = [s \in S |-> [t \in T |-> h[s][t]]]
  <2>1. h = [s \in S |-> h[s]]
    OBVIOUS
  <2>2. ASSUME NEW s \in S PROVE h[s] = [t \in T |-> h[s][t]]
    <3>1. h[s] = IF s = a THEN [f[a] EXCEPT ![b] = val] ELSE f[s]
      OBVIOUS
    <3>2. QED
      BY <1>1, <3>1
  <2>3. QED
    BY <2>1, <2>2
<1>3. ASSUME NEW s \in S, NEW t \in T PROVE h[s][t] = g[s][t]
  <2>1. h[s][t] = IF s = a /\ t = b THEN val ELSE f[s][t]
    BY <1>1
  <2>2. QED
    BY <2>1
<1> HIDE DEF h
<1>4. g = h
  BY <1>2, <1>3, SameTable
<1>5. QED
  BY <1>4 DEF h

(* A table with one row changed.                                           *)
LEMMA PutTableRow ==
    ASSUME NEW S, NEW T, NEW f, NEW g, NEW a \in S, NEW row, row = [t \in T |-> row[t]],
           f = [s \in S |-> [t \in T |-> f[s][t]]], g = [s \in S |-> [t \in T |-> g[s][t]]],
           \A s \in S, t \in T : g[s][t] = IF s = a THEN row[t] ELSE f[s][t]
    PROVE  g = [f EXCEPT ![a] = row]
<1> DEFINE h == [f EXCEPT ![a] = row]
<1>1. \A s \in S : f[s] = [t \in T |-> f[s][t]]
  OBVIOUS
<1>2. h = [s \in S |-> [t \in T |-> h[s][t]]]
  <2>1. h = [s \in S |-> h[s]]
    OBVIOUS
  <2>2. ASSUME NEW s \in S PROVE h[s] = [t \in T |-> h[s][t]]
    <3>1. h[s] = IF s = a THEN row ELSE f[s]
      OBVIOUS
    <3>2. QED
      BY <1>1, <3>1
  <2>3. QED
    BY <2>1, <2>2
<1>3. ASSUME NEW s \in S, NEW t \in T PROVE h[s][t] = g[s][t]
  OBVIOUS
<1> HIDE DEF h
<1>4. g = h
  BY <1>2, <1>3, SameTable
<1>5. QED
  BY <1>4 DEF h

(* What the topology sees is tables, of the old state and of the new.      *)
LEMMA AreTables ==
    /\ Tokens = [v \in Versions |-> [x \in Targets |-> Tokens[v][x]]]
    /\ Tokens' = [v \in Versions |-> [x \in Targets |-> Tokens'[v][x]]]
    /\ Traversals = [v \in Versions |-> [x \in Targets |-> Traversals[v][x]]]
    /\ Traversals' = [v \in Versions |-> [x \in Targets |-> Traversals'[v][x]]]
    /\ \A v \in Versions : Phases[v] = PhaseOf(v) /\ Phases'[v] = PhaseOf(v)'
    /\ \A v \in Versions, x \in Targets :
          /\ Tokens[v][x] = TokenOf(v, x) /\ Tokens'[v][x] = TokenOf(v, x)'
          /\ Traversals[v][x] = TraversalsOf(v, x)
          /\ Traversals'[v][x] = TraversalsOf(v, x)'
<1>1. \A v \in Versions : Phases[v] = PhaseOf(v) /\ Phases'[v] = PhaseOf(v)'
  BY DEF Phases
<1>2. \A v \in Versions : /\ Tokens[v] = [x \in Targets |-> TokenOf(v, x)]
                          /\ Tokens'[v] = [x \in Targets |-> TokenOf(v, x)']
                          /\ Traversals[v] = [x \in Targets |-> TraversalsOf(v, x)]
                          /\ Traversals'[v] = [x \in Targets |-> TraversalsOf(v, x)']
  BY DEF Tokens, Traversals
<1>3. ASSUME NEW v \in Versions, NEW x \in Targets
      PROVE  /\ Tokens[v][x] = TokenOf(v, x) /\ Tokens'[v][x] = TokenOf(v, x)'
             /\ Traversals[v][x] = TraversalsOf(v, x)
             /\ Traversals'[v][x] = TraversalsOf(v, x)'
  <2>1. Tokens[v][x] = TokenOf(v, x) /\ Traversals[v][x] = TraversalsOf(v, x)
    BY DEF Tokens, Traversals
  <2>2. Tokens'[v][x] = TokenOf(v, x)' /\ Traversals'[v][x] = TraversalsOf(v, x)'
    BY DEF Tokens, Traversals
  <2>3. QED
    BY <2>1, <2>2
<1>4. \A v \in Versions : /\ Tokens[v] = [x \in Targets |-> Tokens[v][x]]
                          /\ Tokens'[v] = [x \in Targets |-> Tokens'[v][x]]
                          /\ Traversals[v] = [x \in Targets |-> Traversals[v][x]]
                          /\ Traversals'[v] = [x \in Targets |-> Traversals'[v][x]]
  BY <1>2
<1>5. Tokens = [v \in Versions |-> Tokens[v]] /\ Tokens' = [v \in Versions |-> Tokens'[v]]
  BY DEF Tokens
<1>6. /\ Traversals = [v \in Versions |-> Traversals[v]]
      /\ Traversals' = [v \in Versions |-> Traversals'[v]]
  BY DEF Traversals
<1>7. QED
  BY <1>1, <1>3, <1>4, <1>5, <1>6

(* A step the topology does not see.                                       *)
Unseen ==
    \A v \in Versions :
        /\ PhaseOf(v)' = PhaseOf(v)
        /\ \A x \in Targets : /\ TokenOf(v, x)' = TokenOf(v, x)
                              /\ TraversalsOf(v, x)' = TraversalsOf(v, x)

(* Such a step is a stutter of the topology.                               *)
LEMMA UnseenStutters == ASSUME Unseen PROVE UNCHANGED Topology!vars
<1>1. Phases' = Phases
  BY DEF Phases, Unseen
<1>2. Tokens' = Tokens
  <2>1. \A v \in Versions, x \in Targets : Tokens'[v][x] = Tokens[v][x]
    BY AreTables DEF Unseen
  <2>2. QED
    BY <2>1, AreTables, SameTable
<1>3. Traversals' = Traversals
  <2>1. \A v \in Versions, x \in Targets : Traversals'[v][x] = Traversals[v][x]
    BY AreTables DEF Unseen
  <2>2. QED
    BY <2>1, AreTables, SameTable
<1>4. QED
  BY <1>1, <1>2, <1>3 DEF Topology!vars, Phases, Tokens, Traversals

(* What the topology sees depends on the plans and the rows only.          *)
LEMMA UnseenRows ==
    ASSUME plan' = plan,
           \A v \in DOMAIN plan, x \in Targets :
              /\ target'[v][x].leases = target[v][x].leases
              /\ \/ target'[v][x].status = target[v][x].status
                 \/ /\ target[v][x].status \in {"queued", "searching"}
                    /\ target'[v][x].status \in {"queued", "searching"}
    PROVE  Unseen
<1>1. \A v \in Versions : PhaseOf(v)' = PhaseOf(v)
  BY DEF PhaseOf
<1>2. ASSUME NEW v \in Versions, NEW x \in Targets
      PROVE  TokenOf(v, x)' = TokenOf(v, x) /\ TraversalsOf(v, x)' = TraversalsOf(v, x)
  BY DEF TokenOf, TraversalsOf, TerminalTarget
<1>3. QED
  BY <1>1, <1>2 DEF Unseen

(* A launch and a failure are not seen, nor is what leaves plans and rows. *)
LEMMA UnseenSteps ==
    ASSUME TypeInv, PlanInv
    PROVE  /\ \A p \in Passes : /\ Launch(p) => Unseen
                                /\ LaunchFails(p) => Unseen
                                /\ ReconcileFails(p) => Unseen
           /\ UNCHANGED <<plan, target>> => Unseen
<1>1. ASSUME NEW p \in Passes, Launch(p) PROVE Unseen
  <2>1. /\ Under(pass[p]) /\ plan' = plan
        /\ \A u \in DOMAIN plan, y \in Targets :
              target'[u][y] = IF u = PlanOf(p) /\ y = TargetOf(p)
                              THEN [target[u][y] EXCEPT !.status = "searching"]
                              ELSE target[u][y]
    BY <1>1, LaunchEffect DEF Under
  <2>2. target[PlanOf(p)][TargetOf(p)].status \in {"queued", "searching"}
    BY <2>1, UnderWay DEF TargetRow
  <2>3. ASSUME NEW u \in DOMAIN plan, NEW y \in Targets
        PROVE  /\ target'[u][y].leases = target[u][y].leases
               /\ \/ target'[u][y].status = target[u][y].status
                  \/ /\ target[u][y].status \in {"queued", "searching"}
                     /\ target'[u][y].status \in {"queued", "searching"}
    <3>1. target[u][y] \in TargetRow
      BY Domains
    <3>2. CASE u = PlanOf(p) /\ y = TargetOf(p)
      <4>1. target'[u][y] = [target[u][y] EXCEPT !.status = "searching"]
        BY <2>1, <3>2
      <4>2. /\ target'[u][y].leases = target[u][y].leases
            /\ target'[u][y].status = "searching"
        BY <3>1, <4>1 DEF TargetRow
      <4>3. QED
        BY <2>2, <3>2, <4>2
    <3>3. CASE ~(u = PlanOf(p) /\ y = TargetOf(p))
      BY <2>1, <3>3
    <3>4. QED
      BY <3>2, <3>3
  <2>4. QED
    BY <2>1, <2>3, UnseenRows
<1>2. ASSUME NEW p \in Passes, LaunchFails(p) PROVE Unseen
  BY <1>2, LaunchFailsEffect, UnseenRows
<1>3. ASSUME NEW p \in Passes, ReconcileFails(p) PROVE Unseen
  BY <1>3, ReconcileFailsEffect, UnseenRows
<1>4. ASSUME UNCHANGED <<plan, target>> PROVE Unseen
  BY <1>4, UnseenRows
<1>5. QED
  BY <1>1, <1>2, <1>3, <1>4

(* A new plan is compiled.                                                 *)
LEMMA ReplaceCompiles ==
    ASSUME TypeInv, PlanInv, NEW r \in Requests, Replace(r)
    PROVE  \E v \in Versions : Topology!Compile(v)
<1>0. PICK v : v = Len(plan) + 1
  OBVIOUS
<1> DEFINE Old == {u \in DOMAIN plan : plan'[u] # plan[u]}
<1>1. /\ v <= MaxPlans /\ v \notin DOMAIN plan /\ DOMAIN plan' = DOMAIN plan \cup {v}
      /\ \A u \in DOMAIN plan :
            /\ \/ plan'[u] = plan[u]
               \/ plan[u] = "pending_confirmation" /\ plan'[u] = "superseded"
            /\ target'[u] = target[u]
      /\ plan'[v] = "pending_confirmation" /\ target'[v] = [x \in Targets |-> NewTarget]
  BY <1>0, ReplaceEffect
<1>2. v \in Versions /\ DOMAIN plan \subseteq Versions
  BY <1>0, <1>1, Domains, Numbers DEF Versions
<1>3. /\ Phases[v] = "compile_plan" /\ Phases'[v] = "await_plan_confirmation"
      /\ \A u \in Versions : u # v =>
            Phases'[u] = IF u \in Old THEN "superseded" ELSE Phases[u]
      /\ Old \in SUBSET {u \in Versions : Phases[u] = "await_plan_confirmation"}
  <2>1. PhaseOf(v) = "compile_plan" /\ PhaseOf(v)' = "await_plan_confirmation"
    BY <1>1 DEF PhaseOf
  <2>2. ASSUME NEW u \in Versions, u # v
        PROVE  PhaseOf(u)' = IF u \in Old THEN "superseded" ELSE PhaseOf(u)
    <3>1. CASE u \in Old
      BY <1>1, <2>2, <3>1 DEF PhaseOf
    <3>2. CASE u \notin Old /\ u \in DOMAIN plan
      <4>1. plan'[u] = plan[u] /\ u \in DOMAIN plan'
        BY <1>1, <3>2
      <4>2. PhaseOf(u)' = PhaseOf(u)
        BY <3>2, <4>1, Domains DEF PhaseOf, PlanStatuses
      <4>3. QED
        BY <3>2, <4>2
    <3>3. CASE u \notin DOMAIN plan
      BY <1>1, <2>2, <3>3 DEF PhaseOf
    <3>4. QED
      BY <3>1, <3>2, <3>3
  <2>3. ASSUME NEW u \in Old PROVE u \in Versions /\ PhaseOf(u) = "await_plan_confirmation"
    BY <1>1, <1>2, <2>3 DEF PhaseOf
  <2> HIDE DEF Old
  <2>4. Old \in SUBSET {u \in Versions : Phases[u] = "await_plan_confirmation"}
    BY <2>3, AreTables
  <2>5. \A u \in Versions : Phases[u] = PhaseOf(u) /\ Phases'[u] = PhaseOf(u)'
    BY AreTables
  <2>6. QED
    BY <1>2, <2>1, <2>2, <2>4, <2>5
<1> HIDE DEF Old
<1>4. Phases' = [u \in Versions |-> IF u = v THEN "await_plan_confirmation"
                                    ELSE IF u \in Old THEN "superseded" ELSE Phases[u]]
  <2>1. Phases' = [u \in Versions |-> Phases'[u]]
    BY DEF Phases
  <2>2. QED
    BY <1>3, <2>1
<1>5. Tokens' = Tokens /\ Traversals' = Traversals
  <2>1. ASSUME NEW u \in Versions, NEW x \in Targets
        PROVE  TokenOf(u, x)' = TokenOf(u, x) /\ TraversalsOf(u, x)' = TraversalsOf(u, x)
    <3>1. CASE u = v
      BY <1>1, <3>1 DEF TokenOf, TraversalsOf, NewTarget
    <3>2. CASE u # v
      BY <1>1, <3>2 DEF TokenOf, TraversalsOf
    <3>3. QED
      BY <3>1, <3>2
  <2>2. \A u \in Versions, x \in Targets :
            Tokens'[u][x] = Tokens[u][x] /\ Traversals'[u][x] = Traversals[u][x]
    BY <2>1, AreTables
  <2>3. Tokens' = Tokens
    BY <2>2, AreTables, SameTable
  <2>4. Traversals' = Traversals
    BY <2>2, AreTables, SameTable
  <2>5. QED
    BY <2>3, <2>4
<1>6. Topology!Compile(v)
  BY <1>3, <1>4, <1>5 DEF Topology!Compile, Phases, Tokens, Traversals
<1>7. QED
  BY <1>2, <1>6

(* A plan is confirmed and fans out.                                       *)
LEMMA ConfirmConfirms ==
    ASSUME TypeInv, PlanInv, OneRequest, NEW r \in Requests, Confirm(r)
    PROVE  \E v \in Versions : Topology!Confirm(v)
<1>1. PICK v : v = req[r].plan
  OBVIOUS
<1> DEFINE tokens == [x \in Targets |-> "research_target"]
<1>2. /\ v \in DOMAIN plan /\ plan[v] = "pending_confirmation" /\ DOMAIN plan' = DOMAIN plan
      /\ \A u \in DOMAIN plan : plan'[u] = IF u = v THEN "confirmed" ELSE plan[u]
      /\ \A u \in DOMAIN plan : u # v => target'[u] = target[u]
      /\ target'[v] = [x \in Targets |-> Queued(x)]
  BY <1>1, ConfirmEffect
<1>3. v \in Versions /\ \A x \in Targets : target[v][x] = NewTarget
  BY <1>2, Domains DEF PlanInv, RowsOfPlans, RowOfPlan, Unconfirmed
<1>4. Phases[v] = "await_plan_confirmation" /\ Phases' = [Phases EXCEPT ![v] = "research"]
  <2>1. PhaseOf(v) = "await_plan_confirmation" /\ PhaseOf(v)' = "research"
    BY <1>2 DEF PhaseOf
  <2>2. ASSUME NEW u \in Versions, u # v PROVE PhaseOf(u)' = PhaseOf(u)
    <3>1. u \in DOMAIN plan' <=> u \in DOMAIN plan
      BY <1>2
    <3>2. u \in DOMAIN plan => plan'[u] = plan[u]
      BY <1>2, <2>2
    <3>3. QED
      BY <3>1, <3>2, Domains DEF PhaseOf, PlanStatuses
  <2>3. QED
    BY <1>3, <2>1, <2>2 DEF Phases
<1>5. ASSUME NEW u \in Versions, NEW x \in Targets
      PROVE  /\ TokenOf(u, x)' = IF u = v THEN "research_target" ELSE TokenOf(u, x)
             /\ TraversalsOf(u, x)' = TraversalsOf(u, x)
  <2>1. CASE u = v
    BY <1>2, <1>3, <2>1, QueuedIs DEF TokenOf, TraversalsOf, NewTarget, TerminalTarget
  <2>2. CASE u # v
    BY <1>2, <2>2 DEF TokenOf, TraversalsOf
  <2>3. QED
    BY <2>1, <2>2
<1>6. Tokens' = [Tokens EXCEPT ![v] = tokens]
  <2>1. tokens = [x \in Targets |-> tokens[x]]
    OBVIOUS
  <2>2. \A u \in Versions, x \in Targets :
            Tokens'[u][x] = IF u = v THEN tokens[x] ELSE Tokens[u][x]
    BY <1>5, AreTables
  <2> HIDE DEF tokens
  <2>3. QED
    BY <1>3, <2>1, <2>2, AreTables, PutTableRow
<1>7. Traversals' = Traversals
  <2>1. \A u \in Versions, x \in Targets : Traversals'[u][x] = Traversals[u][x]
    BY <1>5, AreTables
  <2>2. QED
    BY <2>1, AreTables, SameTable
<1>8. Topology!Confirm(v)
  BY <1>4, <1>6, <1>7 DEF Topology!Confirm, Phases, Tokens, Traversals
<1>9. QED
  BY <1>3, <1>8

(* The pass a worker reconciles searches; its decision is what the         *)
(* worker's own row shows.                                                 *)
Classed(w) ==
    [Tokens EXCEPT ![PlanOf(txn[w].pass)][TargetOf(txn[w].pass)] = "shared_budget_decision"]

(* What the worker's own row shows of every token.                         *)
LEMMA OwnClassifies ==
    ASSUME TypeInv, PlanInv, NEW w \in Workers, txn[w].open,
           NEW v, v = PlanOf(txn[w].pass), NEW x, x = TargetOf(txn[w].pass)
    PROVE  /\ v \in Versions /\ x \in Targets /\ Phases[v] = "research"
           /\ Tokens[v][x] = "research_target"
           /\ Classed(w) = [u \in Versions |-> [y \in Targets |-> Classed(w)[u][y]]]
           /\ \A u \in Versions, y \in Targets :
                 Classed(w)[u][y] =
                    IF u \notin DOMAIN plan \/ Own(w)[u][y].status = "awaiting_confirmation"
                    THEN "await_plan_confirmation"
                    ELSE IF Own(w)[u][y].status \in TerminalTarget
                    THEN "shared_budget_decision" ELSE "research_target"
           /\ \A u \in DOMAIN plan, y \in Targets : Own(w)[u][y].leases = target[u][y].leases
<1>1. /\ txn[w].pass \in Passes /\ v \in DOMAIN plan /\ x \in Targets /\ v \in Versions
      /\ Under(pass[txn[w].pass]) /\ RowFollows(target[v][x], txn[w].row)
  BY TxnTyped, Domains DEF PlanInv, TxnsTrue, Under
<1>2. /\ plan[v] = "confirmed" /\ target[v][x].status \notin TerminalTarget
      /\ target[v][x].status # "awaiting_confirmation"
  BY <1>1, UnderWay
<1>3. PhaseOf(v) = "research" /\ TokenOf(v, x) = "research_target"
  BY <1>1, <1>2 DEF PhaseOf, TokenOf
<1>4. /\ txn[w].row.status \in TerminalTarget /\ txn[w].row.leases = target[v][x].leases
      /\ txn[w].row.status # "awaiting_confirmation"
  BY <1>1 DEF RowFollows, TerminalTarget
<1>5. \A u \in DOMAIN plan, y \in Targets :
          Own(w)[u][y] = IF u = v /\ y = x THEN txn[w].row ELSE target[u][y]
  BY OwnTyped
<1>6. PICK c : c = Classed(w)
  OBVIOUS
<1>7. c = [Tokens EXCEPT ![v][x] = "shared_budget_decision"]
  BY <1>6 DEF Classed
<1>8. c = [u \in Versions |-> [y \in Targets |-> c[u][y]]]
  <2>1. \A u \in Versions : Tokens[u] = [y \in Targets |-> Tokens[u][y]]
    BY DEF Tokens
  <2>2. Tokens = [u \in Versions |-> Tokens[u]]
    BY DEF Tokens
  <2>3. \A u \in Versions : c[u] = IF u = v THEN [Tokens[v] EXCEPT ![x] = "shared_budget_decision"]
                                   ELSE Tokens[u]
    BY <1>7, <2>2
  <2>4. \A u \in Versions : c[u] = [y \in Targets |-> c[u][y]]
    BY <2>1, <2>3
  <2>5. c = [u \in Versions |-> c[u]]
    BY <1>7, <2>2
  <2>6. QED
    BY <2>4, <2>5
<1>9. ASSUME NEW u \in Versions, NEW y \in Targets
      PROVE  c[u][y] = IF u = v /\ y = x THEN "shared_budget_decision" ELSE TokenOf(u, y)
  <2>1. Tokens[u] = [z \in Targets |-> TokenOf(u, z)] /\ Tokens = [s \in Versions |-> Tokens[s]]
    BY DEF Tokens
  <2>2. c[u] = IF u = v THEN [Tokens[u] EXCEPT ![x] = "shared_budget_decision"] ELSE Tokens[u]
    BY <1>7, <2>1
  <2>3. Tokens[u][y] = TokenOf(u, y)
    BY <2>1
  <2>4. c[u][y] = IF u = v /\ y = x THEN "shared_budget_decision" ELSE Tokens[u][y]
    BY <2>1, <2>2
  <2>5. QED
    BY <2>3, <2>4
<1>10. ASSUME NEW u \in Versions, NEW y \in Targets
       PROVE  c[u][y] =
                IF u \notin DOMAIN plan \/ Own(w)[u][y].status = "awaiting_confirmation"
                THEN "await_plan_confirmation"
                ELSE IF Own(w)[u][y].status \in TerminalTarget
                THEN "shared_budget_decision" ELSE "research_target"
  <2>1. CASE u = v /\ y = x
    BY <1>1, <1>4, <1>5, <1>9, <2>1
  <2>2. CASE ~(u = v /\ y = x)
    BY <1>5, <1>9, <2>2 DEF TokenOf
  <2>3. QED
    BY <2>1, <2>2
<1>11. ASSUME NEW u \in DOMAIN plan, NEW y \in Targets
       PROVE  Own(w)[u][y].leases = target[u][y].leases
  BY <1>4, <1>5
<1>12. Phases[v] = "research" /\ Tokens[v][x] = "research_target"
  BY <1>1, <1>3, AreTables
<1>13. QED
  BY <1>1, <1>6, <1>8, <1>10, <1>11, <1>12

(* Rows that are a worker's own are a classified token.                    *)
LEMMA OwnRows ==
    ASSUME TypeInv, PlanInv, NEW w \in Workers, txn[w].open, target' = Own(w),
           DOMAIN plan' = DOMAIN plan
    PROVE  Tokens' = Classed(w) /\ Traversals' = Traversals
<1>1. ASSUME NEW u \in Versions, NEW y \in Targets
      PROVE  Tokens'[u][y] = Classed(w)[u][y] /\ Traversals'[u][y] = Traversals[u][y]
  <2>1. Tokens'[u][y] = TokenOf(u, y)' /\ Traversals'[u][y] = TraversalsOf(u, y)'
        /\ Traversals[u][y] = TraversalsOf(u, y)
    BY AreTables
  <2>2. TokenOf(u, y)' = Classed(w)[u][y]
    BY OwnClassifies DEF TokenOf
  <2>3. TraversalsOf(u, y)' = TraversalsOf(u, y)
    BY OwnClassifies DEF TraversalsOf
  <2>4. QED
    BY <2>1, <2>2, <2>3
<1>2. Tokens' = Classed(w)
  <2>1. PICK c, t : c = Classed(w) /\ t = Tokens'
    OBVIOUS
  <2>2. c = [u \in Versions |-> [y \in Targets |-> c[u][y]]]
    BY <2>1, OwnClassifies
  <2>3. t = [u \in Versions |-> [y \in Targets |-> t[u][y]]]
    BY <2>1, AreTables
  <2>4. \A u \in Versions, y \in Targets : t[u][y] = c[u][y]
    BY <1>1, <2>1
  <2>5. t = c
    BY <2>2, <2>3, <2>4, SameTable
  <2>6. QED
    BY <2>1, <2>5
<1>3. Traversals' = Traversals
  BY <1>1, AreTables, SameTable
<1>4. QED
  BY <1>2, <1>3

(* A decision that waits is the classification of one target.              *)
LEMMA WaitReconciles ==
    ASSUME TypeInv, PlanInv, NEW w \in Workers, txn[w].open, DecideWaits(w)
    PROVE  \E v \in Versions, x \in Targets : Topology!Reconcile(v, x)
<1>1. PICK v, x : v = PlanOf(txn[w].pass) /\ x = TargetOf(txn[w].pass)
  OBVIOUS
<1>2. /\ v \in Versions /\ x \in Targets /\ Phases[v] = "research"
      /\ Tokens[v][x] = "research_target"
  BY <1>1, OwnClassifies
<1>3. Tokens' = [Tokens EXCEPT ![v][x] = "shared_budget_decision"] /\ Traversals' = Traversals
  BY <1>1, OwnRows DEF DecideWaits, Classed
<1>4. Phases' = Phases
  BY DEF DecideWaits, Phases, PhaseOf
<1>5. Topology!Reconcile(v, x)
  BY <1>2, <1>3, <1>4 DEF Topology!Reconcile, Topology!Classified, Phases, Tokens, Traversals
<1>6. QED
  BY <1>2, <1>5

(* The deciding worker sees every target of the plan decided.              *)
LEMMA LastSeesAll ==
    ASSUME TypeInv, PlanInv, OneRequest, NEW w \in Workers, txn[w].open, Last(w)
    PROVE  /\ Decided \in Versions /\ Decided \in DOMAIN plan /\ Phases[Decided] = "research"
           /\ \A y \in Targets : Classed(w)[Decided][y] = "shared_budget_decision"
<1>1. Decided \in DOMAIN plan /\ plan[Decided] = "confirmed" /\ Decided \in Versions
  BY LastAlone, Domains
<1>2. PhaseOf(Decided) = "research"
  BY <1>1 DEF PhaseOf
<1>3. ASSUME NEW y \in Targets PROVE Classed(w)[Decided][y] = "shared_budget_decision"
  <2>1. Own(w)[Decided][y].status \in TerminalTarget
    BY LastAlone
  <2>2. Own(w)[Decided][y].status # "awaiting_confirmation"
    BY <2>1 DEF TerminalTarget
  <2>3. QED
    BY <1>1, <2>1, <2>2, OwnClassifies
<1>4. QED
  BY <1>1, <1>2, <1>3, AreTables

(* A decision that completes is the barrier and the ranking of the plan.   *)
LEMMA DecideFinishes ==
    ASSUME TypeInv, PlanInv, OneRequest, NEW w \in Workers, txn[w].open, DecideCompletes(w)
    PROVE  \E v \in Versions, x \in Targets : Topology!Complete(v, x)
<1>1. PICK v, x, d : v = PlanOf(txn[w].pass) /\ x = TargetOf(txn[w].pass) /\ d = Decided
  OBVIOUS
<1>2. v \in Versions /\ x \in Targets /\ Tokens[v][x] = "research_target"
  BY <1>1, OwnClassifies
<1>3. /\ d \in Versions /\ d \in DOMAIN plan /\ Phases[d] = "research"
      /\ \A y \in Targets : Classed(w)[d][y] = "shared_budget_decision"
  BY <1>1, LastSeesAll DEF DecideCompletes
<1>4. /\ DOMAIN plan' = DOMAIN plan
      /\ \A u \in DOMAIN plan : plan'[u] = IF u = d THEN "completed" ELSE plan[u]
  <2>1. PICK rows : rows = Own(w)[Decided]
    OBVIOUS
  <2>2. Finalize(d, rows)
    BY <1>1, <2>1 DEF DecideCompletes
  <2>3. QED
    BY <1>3, <2>2, FinalizeTyped
<1>5. Tokens' = Classed(w) /\ Traversals' = Traversals
  BY <1>4, OwnRows DEF DecideCompletes
<1>6. Classed(w) = [Tokens EXCEPT ![v][x] = "shared_budget_decision"]
  BY <1>1 DEF Classed
<1>7. Phases' = [Phases EXCEPT ![d] = "research_complete"]
  <2>1. PhaseOf(d)' = "research_complete"
    BY <1>3, <1>4 DEF PhaseOf
  <2>2. ASSUME NEW u \in Versions, u # d PROVE PhaseOf(u)' = PhaseOf(u)
    <3>1. u \in DOMAIN plan' <=> u \in DOMAIN plan
      BY <1>4
    <3>2. u \in DOMAIN plan => plan'[u] = plan[u]
      BY <1>4, <2>2
    <3>3. QED
      BY <3>1, <3>2, Domains DEF PhaseOf, PlanStatuses
  <2>3. QED
    BY <1>3, <2>1, <2>2 DEF Phases
<1>8. \A y \in Targets : Tokens'[d][y] = "shared_budget_decision"
  BY <1>3, <1>5
<1>9. Topology!Complete(v, x)
  <2>1. Tokens' = [Tokens EXCEPT ![v][x] = "shared_budget_decision"]
    BY <1>5, <1>6
  <2>2. QED
    BY <1>2, <1>3, <1>5, <1>7, <1>8, <2>1
    DEF Topology!Complete, Topology!Classified, Topology!AllDecided, Phases, Tokens, Traversals
<1>10. QED
  BY <1>2, <1>9

(* The tokens of some targets of a plan traverse the lease.                *)
Again(f, d, X) ==
    [f EXCEPT ![d] = [y \in Targets |-> IF y \in X THEN "research_target" ELSE @[y]]]
LeaseTaken(f, d, X) == [f EXCEPT ![d] = [y \in Targets |-> IF y \in X THEN @[y] + 1 ELSE @[y]]]

(* A decision that leases sends targets back through the lease.            *)
LEMMA DecideSendsBack ==
    ASSUME TypeInv, PlanInv, OneRequest, NEW w \in Workers, txn[w].open, DecideLeases(w)
    PROVE  \E v \in Versions, x \in Targets : Topology!Lease(v, x)
<1>1. PICK v, x, d, rows, X, c :
         /\ v = PlanOf(txn[w].pass) /\ x = TargetOf(txn[w].pass) /\ d = Decided
         /\ rows = Own(w)[Decided] /\ X = Leased(rows) /\ c = Classed(w)
  OBVIOUS
<1>2. v \in Versions /\ x \in Targets /\ Tokens[v][x] = "research_target"
      /\ c = [u \in Versions |-> [y \in Targets |-> c[u][y]]]
  BY <1>1, OwnClassifies
<1>3. /\ d \in Versions /\ d \in DOMAIN plan /\ Phases[d] = "research"
      /\ \A y \in Targets : c[d][y] = "shared_budget_decision"
  BY <1>1, LastSeesAll DEF DecideLeases
<1>4. /\ X # {} /\ X \subseteq Targets /\ rows \in [Targets -> TargetRow] /\ plan' = plan
      /\ \A u \in DOMAIN plan, y \in Targets :
            target'[u][y] = IF u = d /\ y \in X THEN WithLease(rows, y) ELSE Own(w)[u][y]
  BY <1>1, DecideLeasesEffect
<1>5. \A y \in X : /\ rows[y].leases = target[d][y].leases /\ rows[y].leases < MaxLeases
                   /\ WithLease(rows, y).status = "queued"
                   /\ WithLease(rows, y).leases = rows[y].leases + 1
  <2>1. ASSUME NEW y \in X
        PROVE  /\ rows[y].leases = target[d][y].leases /\ rows[y].leases < MaxLeases
               /\ WithLease(rows, y).status = "queued"
               /\ WithLease(rows, y).leases = rows[y].leases + 1
    <3>1. y \in Targets /\ rows[y] \in TargetRow
      BY <1>4
    <3>2. rows[y].leases = target[d][y].leases
      BY <1>1, <1>3, <3>1, OwnClassifies
    <3>3. rows[y].leases < MaxLeases
      BY <1>1, <1>4, LeaseTyped
    <3>4. /\ WithLease(rows, y).status = "queued"
          /\ WithLease(rows, y).leases = rows[y].leases + 1
      BY <3>1 DEF WithLease, TargetRow
    <3>5. QED
      BY <3>2, <3>3, <3>4
  <2>2. QED
    BY <2>1
<1>6. \A y \in Targets : Traversals[d][y] = target[d][y].leases
  BY <1>3, AreTables DEF TraversalsOf
<1>7. ASSUME NEW u \in Versions, NEW y \in Targets
      PROVE  /\ Tokens'[u][y] = IF u = d /\ y \in X THEN "research_target" ELSE c[u][y]
             /\ Traversals'[u][y] = IF u = d /\ y \in X THEN Traversals[u][y] + 1
                                    ELSE Traversals[u][y]
  <2>1. Tokens'[u][y] = TokenOf(u, y)' /\ Traversals'[u][y] = TraversalsOf(u, y)'
        /\ Traversals[u][y] = TraversalsOf(u, y)
    BY AreTables
  <2>2. CASE u = d /\ y \in X
    <3>1. target'[d][y].status = "queued" /\ target'[d][y].leases = target[d][y].leases + 1
      BY <1>3, <1>4, <1>5, <2>2
    <3>2. TokenOf(u, y)' = "research_target" /\ TraversalsOf(u, y)' = target[d][y].leases + 1
      BY <1>3, <1>4, <2>2, <3>1 DEF TokenOf, TraversalsOf, TerminalTarget
    <3>3. QED
      BY <1>6, <2>1, <2>2, <3>2
  <2>3. CASE ~(u = d /\ y \in X)
    <3>1. u \in DOMAIN plan => target'[u][y] = Own(w)[u][y]
      BY <1>4, <2>3
    <3>2. TokenOf(u, y)' = c[u][y]
      BY <1>1, <1>4, <3>1, OwnClassifies DEF TokenOf
    <3>3. TraversalsOf(u, y)' = TraversalsOf(u, y)
      BY <1>4, <3>1, OwnClassifies DEF TraversalsOf
    <3>4. QED
      BY <2>1, <2>3, <3>2, <3>3
  <2>4. QED
    BY <2>2, <2>3
<1>8. Tokens' = Again(c, d, X)
  <2>1. PICK t : t = Tokens'
    OBVIOUS
  <2>2. t = [u \in Versions |-> [y \in Targets |-> t[u][y]]]
    BY <2>1, AreTables
  <2>3. ASSUME NEW u \in Versions, NEW y \in Targets
        PROVE  t[u][y] = IF u = d /\ y \in X THEN "research_target" ELSE c[u][y]
    BY <1>7, <2>1
  <2>4. PICK row : row = [y \in Targets |-> IF y \in X THEN "research_target" ELSE c[d][y]]
    OBVIOUS
  <2>5. row = [y \in Targets |-> row[y]]
    BY <2>4
  <2>6. \A u \in Versions, y \in Targets : t[u][y] = IF u = d THEN row[y] ELSE c[u][y]
    BY <2>3, <2>4
  <2>7. t = [c EXCEPT ![d] = row]
    BY <1>2, <1>3, <2>2, <2>5, <2>6, PutTableRow
  <2>8. QED
    BY <2>1, <2>4, <2>7 DEF Again
<1>9. Traversals' = LeaseTaken(Traversals, d, X)
  <2>1. PICK t, f : t = Traversals' /\ f = Traversals
    OBVIOUS
  <2>2. /\ t = [u \in Versions |-> [y \in Targets |-> t[u][y]]]
        /\ f = [u \in Versions |-> [y \in Targets |-> f[u][y]]]
    BY <2>1, AreTables
  <2>3. ASSUME NEW u \in Versions, NEW y \in Targets
        PROVE  t[u][y] = IF u = d /\ y \in X THEN f[u][y] + 1 ELSE f[u][y]
    BY <1>7, <2>1
  <2>4. PICK row : row = [y \in Targets |-> IF y \in X THEN f[d][y] + 1 ELSE f[d][y]]
    OBVIOUS
  <2>5. row = [y \in Targets |-> row[y]]
    BY <2>4
  <2>6. \A u \in Versions, y \in Targets : t[u][y] = IF u = d THEN row[y] ELSE f[u][y]
    BY <2>3, <2>4
  <2>7. t = [f EXCEPT ![d] = row]
    BY <1>3, <2>2, <2>5, <2>6, PutTableRow
  <2>8. QED
    BY <2>1, <2>4, <2>7 DEF LeaseTaken
<1>10. Phases' = Phases
  BY <1>4 DEF Phases, PhaseOf
<1>11. Topology!Lease(v, x)
  <2>1. c = [Tokens EXCEPT ![v][x] = "shared_budget_decision"]
    BY <1>1 DEF Classed
  <2>2. \A y \in X : Traversals[d][y] < MaxLeases
    BY <1>4, <1>5, <1>6
  <2>3. X \in (SUBSET Targets) \ {{}}
    BY <1>4
  <2>4. Topology!Classified(v, x) = c
    BY <2>1 DEF Topology!Classified, Tokens
  <2>5. /\ Phases[d] = "research" /\ Topology!AllDecided(d, Topology!Classified(v, x))
        /\ Tokens' = [Topology!Classified(v, x) EXCEPT
                        ![d] = [y \in Targets |-> IF y \in X THEN "research_target" ELSE @[y]]]
        /\ Traversals' = [Traversals EXCEPT
                        ![d] = [y \in Targets |-> IF y \in X THEN @[y] + 1 ELSE @[y]]]
    BY <1>3, <1>8, <1>9, <2>4 DEF Topology!AllDecided, Again, LeaseTaken
  <2>6. QED
    BY <1>2, <1>3, <1>10, <2>2, <2>3, <2>5
    DEF Topology!Lease, Phases, Tokens, Traversals
<1>12. QED
  BY <1>2, <1>11

(* Every step is a step of the topology or is not seen.                    *)
LEMMA StepsFollow ==
    ASSUME TypeInv, PlanInv, OneRequest, [Next]_vars
    PROVE  [Topology!Next]_Topology!vars
<1>1. ASSUME Unseen PROVE [Topology!Next]_Topology!vars
  BY <1>1, UnseenStutters
<1>2. ASSUME NEW r \in Requests, Replace(r) PROVE Topology!Next
  BY <1>2, ReplaceCompiles DEF Topology!Next
<1>3. ASSUME NEW r \in Requests, Confirm(r) PROVE Topology!Next
  BY <1>3, ConfirmConfirms DEF Topology!Next
<1>4. ASSUME NEW w \in Workers, Decide(w) PROVE Topology!Next
  <2>1. txn[w].open /\ (DecideWaits(w) \/ DecideLeases(w) \/ DecideCompletes(w))
    BY <1>4, DecideCases
  <2>2. CASE DecideWaits(w)
    BY <2>1, <2>2, WaitReconciles DEF Topology!Next
  <2>3. CASE DecideLeases(w)
    BY <2>1, <2>3, DecideSendsBack DEF Topology!Next
  <2>4. CASE DecideCompletes(w)
    BY <2>1, <2>4, DecideFinishes DEF Topology!Next
  <2>5. QED
    BY <2>1, <2>2, <2>3, <2>4
<1>5. ASSUME NEW p \in Passes, Launch(p) \/ LaunchFails(p) \/ ReconcileFails(p) PROVE Unseen
  BY <1>5, UnseenSteps
<1>6. ASSUME NEW p \in Passes, Resolve(p) PROVE Unseen
  BY <1>6, ResolveEffect, UnseenSteps
<1>7. ASSUME UNCHANGED vars PROVE Unseen
  BY <1>7, UnseenSteps DEF vars
<1>8. ASSUME Pause \/ Resume PROVE Unseen
  BY <1>8, UnseenSteps DEF Pause, Resume
<1>9. ASSUME NEW r \in Requests, ReadForReplace(r) \/ ReadForConfirm(r) PROVE Unseen
  BY <1>9, UnseenSteps DEF ReadForReplace, ReadForConfirm
<1>10. ASSUME NEW c \in Candidates, PrepChanges(c) PROVE Unseen
  BY <1>10, UnseenSteps DEF PrepChanges
<1>11. ASSUME NEW w \in Workers, NEW p \in Passes, Settle(w, p) PROVE Unseen
  BY <1>11, UnseenSteps DEF Settle
<1>12. ASSUME NEW w \in Workers, RollBack(w) PROVE Unseen
  BY <1>12, UnseenSteps DEF RollBack
<1>13. QED
  BY <1>1, <1>2, <1>3, <1>4, <1>5, <1>6, <1>7, <1>8, <1>9, <1>10, <1>11, <1>12 DEF Next

(* The engine's research follows the registered topology.                  *)
THEOREM ResearchFollowsTopology ==
    ASSUME OneRequest, MaxReopens = 0
    PROVE  Spec => FollowsTopology
<1>1. Init => Topology!Init
  BY DEF Init, Topology!Init, PhaseOf, TokenOf, TraversalsOf
<1>2. ResearchInv /\ [Next]_vars => [Topology!Next]_Topology!vars
  BY StepsFollow DEF ResearchInv
<1>3. QED
  BY <1>1, <1>2, ResearchInvariant, PTL DEF Spec, Topology!Spec, FollowsTopology
-----------------------------------------------------------------------------
(* The edges of the graph, by their identities.                            *)
LEMMA EdgesAre ==
    /\ \A e \in Graph.edges : Edge[EdgeId(e)] = e /\ EdgeId(e) \in DOMAIN Edge
                              /\ Destination(e) \in Graph.nodes
    /\ "compile_plan" \in Graph.nodes
<1> DEFINE E == {<<"compile_plan", "plan_compiled", "await_plan_confirmation">>,
                 <<"await_plan_confirmation", "plan_confirmed", "materialize_targets">>,
                 <<"materialize_targets", "targets_materialized", "research_target">>,
                 <<"research_target", "target_reconciled", "import_and_record_attempts">>,
                 <<"import_and_record_attempts", "attempts_recorded", "classify_target_terminal">>,
                 <<"classify_target_terminal", "target_classified", "shared_budget_decision">>,
                 <<"shared_budget_decision", "shared_budget_lease", "research_target">>,
                 <<"shared_budget_decision", "research_fan_in", "all_targets_barrier">>,
                 <<"all_targets_barrier", "all_targets_terminal", "scope_assessment">>,
                 <<"scope_assessment", "scope_assessed", "rank_and_retain">>,
                 <<"rank_and_retain", "candidates_ranked", "research_complete">>}
           N == {"compile_plan", "await_plan_confirmation", "materialize_targets",
                 "research_target", "import_and_record_attempts",
                 "classify_target_terminal", "shared_budget_decision",
                 "all_targets_barrier", "scope_assessment", "rank_and_retain",
                 "research_complete"}
<1>1. Graph.edges = E /\ Graph.nodes = N
  BY DEF Graph, CoordinatedResearch, LeaseEdge
<1>2. \A e \in E : Destination(e) \in N
  BY DEF Destination
<1>3. ASSUME NEW e \in E, NEW f \in E, EdgeId(e) = EdgeId(f) PROVE e = f
  BY <1>3 DEF EdgeId
<1>4. ASSUME NEW e \in E PROVE Edge[EdgeId(e)] = e /\ EdgeId(e) \in DOMAIN Edge
  <2> HIDE DEF E
  <2>1. EdgeId(e) \in {EdgeId(f) : f \in E}
    OBVIOUS
  <2>2. Edge[EdgeId(e)] = CHOOSE f \in E : EdgeId(f) = EdgeId(e)
    BY <1>1, <2>1 DEF Edge
  <2>3. PICK c : c = CHOOSE f \in E : EdgeId(f) = EdgeId(e)
    OBVIOUS
  <2>4. c \in E /\ EdgeId(c) = EdgeId(e)
    BY <2>3
  <2>5. c = e
    BY <1>3, <2>4
  <2>6. QED
    BY <1>1, <2>1, <2>2, <2>3, <2>5 DEF Edge
<1>5. QED
  BY <1>1, <1>2, <1>4

(* Where an edge leads from and to.                                        *)
IsEdge(id, s, d) == /\ id \in DOMAIN Edge /\ Source(Edge[id]) = s /\ Destination(Edge[id]) = d
                    /\ d \in Graph.nodes

(* An edge of the graph is found by its identity.                          *)
LEMMA EdgeEnds ==
    ASSUME NEW s, NEW id, NEW d, <<s, id, d>> \in Graph.edges
    PROVE  IsEdge(id, s, d)
<1>1. /\ EdgeId(<<s, id, d>>) = id /\ Source(<<s, id, d>>) = s
      /\ Destination(<<s, id, d>>) = d
  BY DEF EdgeId, Source, Destination
<1>2. Edge[id] = <<s, id, d>> /\ id \in DOMAIN Edge /\ d \in Graph.nodes
  BY <1>1, EdgesAre
<1>3. QED
  BY <1>1, <1>2 DEF IsEdge

(* The edges of coordinated_research_v1, by identity, source and end.      *)
LEMMA Ways ==
    /\ IsEdge("plan_compiled", "compile_plan", "await_plan_confirmation")
    /\ IsEdge("plan_confirmed", "await_plan_confirmation", "materialize_targets")
    /\ IsEdge("targets_materialized", "materialize_targets", "research_target")
    /\ IsEdge("target_reconciled", "research_target", "import_and_record_attempts")
    /\ IsEdge("attempts_recorded", "import_and_record_attempts", "classify_target_terminal")
    /\ IsEdge("target_classified", "classify_target_terminal", "shared_budget_decision")
    /\ IsEdge("shared_budget_lease", "shared_budget_decision", "research_target")
    /\ IsEdge("research_fan_in", "shared_budget_decision", "all_targets_barrier")
    /\ IsEdge("all_targets_terminal", "all_targets_barrier", "scope_assessment")
    /\ IsEdge("scope_assessed", "scope_assessment", "rank_and_retain")
    /\ IsEdge("candidates_ranked", "rank_and_retain", "research_complete")
<1>1. /\ <<"compile_plan", "plan_compiled", "await_plan_confirmation">> \in Graph.edges
      /\ <<"await_plan_confirmation", "plan_confirmed", "materialize_targets">> \in Graph.edges
      /\ <<"materialize_targets", "targets_materialized", "research_target">> \in Graph.edges
      /\ <<"research_target", "target_reconciled", "import_and_record_attempts">> \in Graph.edges
      /\ <<"import_and_record_attempts", "attempts_recorded", "classify_target_terminal">> \in Graph.edges
      /\ <<"classify_target_terminal", "target_classified", "shared_budget_decision">> \in Graph.edges
      /\ <<"shared_budget_decision", "shared_budget_lease", "research_target">> \in Graph.edges
      /\ <<"shared_budget_decision", "research_fan_in", "all_targets_barrier">> \in Graph.edges
      /\ <<"all_targets_barrier", "all_targets_terminal", "scope_assessment">> \in Graph.edges
      /\ <<"scope_assessment", "scope_assessed", "rank_and_retain">> \in Graph.edges
      /\ <<"rank_and_retain", "candidates_ranked", "research_complete">> \in Graph.edges
  BY DEF Graph, CoordinatedResearch, LeaseEdge
<1>2. QED
  BY <1>1, EdgeEnds

(* The events along some edges: of one execution or run, at nodes of the   *)
(* graph, and each edge with the node it leads to.                         *)
LEMMA AlongIs ==
    ASSUME NEW of, NEW ids, ids \subseteq DOMAIN Edge,
           \A id \in ids : Destination(Edge[id]) \in Graph.nodes /\ id # "none"
    PROVE  /\ \A id \in ids : Reached(of, Destination(Edge[id])) \in Along(of, ids)
           /\ \A e \in Along(of, ids) :
                 /\ e.of = of /\ e.node \in {Destination(Edge[id]) : id \in ids}
                 /\ e.edge # "none" => e.edge \in ids
           /\ \A n : Reached(of, n) \in Along(of, ids) => n \in {Destination(Edge[id]) : id \in ids}
<1>1. \A id \in ids : Reached(of, Destination(Edge[id])) \in Along(of, ids)
  BY DEF Along
<1>2. ASSUME NEW e \in Along(of, ids)
      PROVE  \E id \in ids : e = Traversed(of, id) \/ e = Reached(of, Destination(Edge[id]))
  BY <1>2 DEF Along
<1>3. ASSUME NEW e \in Along(of, ids)
      PROVE  /\ e.of = of /\ e.node \in {Destination(Edge[id]) : id \in ids}
             /\ e.edge # "none" => e.edge \in ids
  BY <1>2 DEF Traversed, Reached
<1>4. \A n : Reached(of, n).node = n
  BY DEF Reached
<1>5. QED
  BY <1>1, <1>3, <1>4

(* The executions and the runs of plans are told apart.                    *)
LEMMA OwnersDiffer ==
    /\ \A u, v : Run(u) = Run(v) => u = v
    /\ \A v, p : Run(v) # Execution(p)
    /\ \A v : Run(v)[1] = "run" /\ Run(v)[2] = v
    /\ \A p : /\ Execution(p)[1] = "execution" /\ Execution(p)[2] = PlanOf(p)
              /\ Execution(p)[3] = p
BY DEF Run, Execution

(* The source of an edge is reached by the owner of the event.             *)
Walked(e, T) == Reached(e.of, Source(Edge[e.edge])) \in T

(* The events of a confirmation: of the run of its plan, along two edges.  *)
LEMMA ConfirmEventsAre ==
    ASSUME NEW v
    PROVE  /\ \A e \in ConfirmEvents(v) :
                 /\ e.of = Run(v) /\ e.node \in Graph.nodes /\ e.node # "research_complete"
                 /\ e.edge # "none" => /\ e.edge # "research_fan_in"
                                       /\ Walked(e, ConfirmEvents(v))
           /\ Reached(Run(v), "materialize_targets") \in ConfirmEvents(v)
<1> DEFINE ids == {"plan_compiled", "plan_confirmed"}
<1>1. /\ ids \subseteq DOMAIN Edge
      /\ \A id \in ids : Destination(Edge[id]) \in Graph.nodes /\ id # "none"
      /\ Source(Edge["plan_compiled"]) = "compile_plan"
      /\ Destination(Edge["plan_compiled"]) = "await_plan_confirmation"
      /\ Source(Edge["plan_confirmed"]) = "await_plan_confirmation"
      /\ Destination(Edge["plan_confirmed"]) = "materialize_targets"
  BY Ways DEF IsEdge
<1>2. ConfirmEvents(v) = {Reached(Run(v), "compile_plan")} \cup Along(Run(v), ids)
  BY DEF ConfirmEvents
<1> HIDE DEF ids
<1>3. /\ \A id \in ids : Reached(Run(v), Destination(Edge[id])) \in Along(Run(v), ids)
      /\ \A e \in Along(Run(v), ids) :
            /\ e.of = Run(v) /\ e.node \in {Destination(Edge[id]) : id \in ids}
            /\ e.edge # "none" => e.edge \in ids
  BY <1>1, AlongIs
<1> USE DEF ids
<1>4. /\ Reached(Run(v), "compile_plan") \in ConfirmEvents(v)
      /\ Reached(Run(v), "await_plan_confirmation") \in ConfirmEvents(v)
      /\ Reached(Run(v), "materialize_targets") \in ConfirmEvents(v)
  BY <1>1, <1>2, <1>3
<1>5. ASSUME NEW e \in ConfirmEvents(v)
      PROVE  /\ e.of = Run(v) /\ e.node \in Graph.nodes /\ e.node # "research_complete"
             /\ e.edge # "none" => e.edge # "research_fan_in" /\ Walked(e, ConfirmEvents(v))
  <2>1. CASE e = Reached(Run(v), "compile_plan")
    BY <2>1, EdgesAre DEF Reached
  <2>2. CASE e \in Along(Run(v), ids)
    <3>1. /\ e.of = Run(v) /\ e.node \in {Destination(Edge[id]) : id \in ids}
          /\ e.edge # "none" => e.edge \in ids
      BY <1>3, <2>2
    <3>2. e.node \in Graph.nodes /\ e.node \in {"await_plan_confirmation", "materialize_targets"}
      BY <1>1, <3>1
    <3>3. e.edge # "none" => e.edge # "research_fan_in" /\ Walked(e, ConfirmEvents(v))
      BY <1>1, <1>4, <3>1 DEF Walked
    <3>4. QED
      BY <3>1, <3>2, <3>3
  <2>3. QED
    BY <1>2, <1>5, <2>1, <2>2
<1>6. QED
  BY <1>4, <1>5

(* The events of a launch: of its pass, along the fan-out or the lease.    *)
LEMMA LaunchEventsAre ==
    ASSUME NEW p
    PROVE  /\ \A e \in LaunchEvents(p) :
                 /\ e.of = Execution(p) /\ e.node \in Graph.nodes
                 /\ e.edge # "none" =>
                       /\ e.edge # "research_fan_in"
                       /\ Source(Edge[e.edge]) = IF Shared(p) THEN "shared_budget_decision"
                                                 ELSE "materialize_targets"
           /\ Reached(Execution(p), "research_target") \in LaunchEvents(p)
<1>1. PICK id : id = IF Shared(p) THEN "shared_budget_lease" ELSE "targets_materialized"
  OBVIOUS
<1>2. /\ id \in DOMAIN Edge /\ id # "none" /\ id # "research_fan_in"
      /\ Destination(Edge[id]) \in Graph.nodes /\ Destination(Edge[id]) = "research_target"
      /\ Source(Edge[id]) = IF Shared(p) THEN "shared_budget_decision"
                            ELSE "materialize_targets"
  BY <1>1, Ways DEF IsEdge
<1>3. LaunchEvents(p) = Along(Execution(p), {id})
  BY <1>1 DEF LaunchEvents
<1>4. /\ Reached(Execution(p), Destination(Edge[id])) \in Along(Execution(p), {id})
      /\ \A e \in Along(Execution(p), {id}) :
            /\ e.of = Execution(p) /\ e.node \in {Destination(Edge[i]) : i \in {id}}
            /\ e.edge # "none" => e.edge \in {id}
  <2>1. {id} \subseteq DOMAIN Edge
        /\ \A i \in {id} : Destination(Edge[i]) \in Graph.nodes /\ i # "none"
    BY <1>2
  <2>2. QED
    BY <2>1, AlongIs
<1>5. QED
  BY <1>2, <1>3, <1>4

(* The events of a reconcile: of its pass, from research_target to the     *)
(* decision.                                                               *)
LEMMA ReconcileEventsAre ==
    ASSUME NEW p
    PROVE  /\ \A e \in ReconcileEvents(p) :
                 /\ e.of = Execution(p) /\ e.node \in Graph.nodes
                 /\ e.edge # "none" =>
                       /\ e.edge # "research_fan_in"
                       /\ \/ Walked(e, ReconcileEvents(p))
                          \/ Source(Edge[e.edge]) = "research_target"
           /\ Reached(Execution(p), "shared_budget_decision") \in ReconcileEvents(p)
<1>1. /\ TargetEdges \subseteq DOMAIN Edge
      /\ \A id \in TargetEdges : Destination(Edge[id]) \in Graph.nodes /\ id # "none"
      /\ Source(Edge["target_reconciled"]) = "research_target"
      /\ Destination(Edge["target_reconciled"]) = "import_and_record_attempts"
      /\ Source(Edge["attempts_recorded"]) = "import_and_record_attempts"
      /\ Destination(Edge["attempts_recorded"]) = "classify_target_terminal"
      /\ Source(Edge["target_classified"]) = "classify_target_terminal"
      /\ Destination(Edge["target_classified"]) = "shared_budget_decision"
  BY Ways DEF IsEdge, TargetEdges
<1>2. /\ \A id \in TargetEdges : Reached(Execution(p), Destination(Edge[id])) \in ReconcileEvents(p)
      /\ \A e \in ReconcileEvents(p) :
            /\ e.of = Execution(p) /\ e.node \in {Destination(Edge[id]) : id \in TargetEdges}
            /\ e.edge # "none" => e.edge \in TargetEdges
  BY <1>1, AlongIs DEF ReconcileEvents
<1>3. /\ Reached(Execution(p), "import_and_record_attempts") \in ReconcileEvents(p)
      /\ Reached(Execution(p), "classify_target_terminal") \in ReconcileEvents(p)
      /\ Reached(Execution(p), "shared_budget_decision") \in ReconcileEvents(p)
  BY <1>1, <1>2 DEF TargetEdges
<1>4. ASSUME NEW e \in ReconcileEvents(p), e.edge # "none"
      PROVE  /\ e.edge # "research_fan_in"
             /\ \/ Walked(e, ReconcileEvents(p))
                \/ Source(Edge[e.edge]) = "research_target"
  <2>1. e.of = Execution(p)
        /\ e.edge \in {"target_reconciled", "attempts_recorded", "target_classified"}
    BY <1>2, <1>4 DEF TargetEdges
  <2>2. QED
    BY <1>1, <1>3, <2>1 DEF Walked
<1>5. QED
  BY <1>1, <1>2, <1>3, <1>4

(* The events of a completed plan: of its run, from the fan-in to the end. *)
LEMMA FinalEventsAre ==
    ASSUME NEW v
    PROVE  /\ \A e \in FinalEvents(v) :
                 /\ e.of = Run(v) /\ e.node \in Graph.nodes
                 /\ e.edge \in {"none", "research_fan_in"} \/ Walked(e, FinalEvents(v))
           /\ Reached(Run(v), "research_complete") \in FinalEvents(v)
<1>1. /\ FinalEdges \subseteq DOMAIN Edge
      /\ \A id \in FinalEdges : Destination(Edge[id]) \in Graph.nodes /\ id # "none"
      /\ Destination(Edge["research_fan_in"]) = "all_targets_barrier"
      /\ Source(Edge["all_targets_terminal"]) = "all_targets_barrier"
      /\ Destination(Edge["all_targets_terminal"]) = "scope_assessment"
      /\ Source(Edge["scope_assessed"]) = "scope_assessment"
      /\ Destination(Edge["scope_assessed"]) = "rank_and_retain"
      /\ Source(Edge["candidates_ranked"]) = "rank_and_retain"
      /\ Destination(Edge["candidates_ranked"]) = "research_complete"
  BY Ways DEF IsEdge, FinalEdges
<1>2. /\ \A id \in FinalEdges : Reached(Run(v), Destination(Edge[id])) \in FinalEvents(v)
      /\ \A e \in FinalEvents(v) :
            /\ e.of = Run(v) /\ e.node \in {Destination(Edge[id]) : id \in FinalEdges}
            /\ e.edge # "none" => e.edge \in FinalEdges
  BY <1>1, AlongIs DEF FinalEvents
<1>3. /\ Reached(Run(v), "all_targets_barrier") \in FinalEvents(v)
      /\ Reached(Run(v), "scope_assessment") \in FinalEvents(v)
      /\ Reached(Run(v), "rank_and_retain") \in FinalEvents(v)
      /\ Reached(Run(v), "research_complete") \in FinalEvents(v)
  BY <1>1, <1>2 DEF FinalEdges
<1>4. ASSUME NEW e \in FinalEvents(v), e.edge \notin {"none", "research_fan_in"}
      PROVE  Walked(e, FinalEvents(v))
  <2>1. e.of = Run(v)
        /\ e.edge \in {"all_targets_terminal", "scope_assessed", "candidates_ranked"}
    BY <1>2, <1>4 DEF FinalEdges
  <2>2. QED
    BY <1>1, <1>3, <2>1 DEF Walked
<1>5. QED
  BY <1>1, <1>2, <1>3, <1>4

-----------------------------------------------------------------------------
(* The invariant of the shadow: the events are of the graph and its passes;*)
(* a confirmed plan has the events of its confirmation; the end of a plan  *)
(* is traced exactly when it is completed; a pass that runs or has ended   *)
(* has reached its node, and one that has ended every event of its         *)
(* reconcile.  That a shared pass finds the decision of its target depends *)
(* on PassesOfRows: the pass of the lease before it has ended.             *)
EventTrue(e) == e.node \in Graph.nodes /\ (e.of[1] = "execution" => e.of[3] \in Passes)
CompletedPlan(v) == v \in DOMAIN plan /\ plan[v] = "completed"
Started(now) == now.status \in {"running", "completed"}

EventsTrue == \A e \in trace : EventTrue(e)
EndsTrue == \A v : EndTraced(v) => CompletedPlan(v)
PlansTraced ==
    \A v \in DOMAIN plan : /\ Confirmed(v) => ConfirmEvents(v) \subseteq trace
                           /\ CompletedPlan(v) => FinalEvents(v) \subseteq trace
PassesTraced ==
    \A p \in Passes :
        /\ Started(pass[p]) => Reached(Execution(p), "research_target") \in trace
        /\ pass[p].status = "completed" => ReconcileEvents(p) \subseteq trace

ShadowInv == keyed \subseteq Passes /\ EventsTrue /\ EndsTrue /\ PlansTraced /\ PassesTraced

(* The invariant is kept by a step that adds true events to the trace, and *)
(* with it those of every plan and pass that it confirms, completes,       *)
(* starts or ends.                                                         *)
LEMMA TraceGrows ==
    ASSUME ShadowInv, keyed' \subseteq Passes, trace \subseteq trace',
           \A e \in trace' \ trace : EventTrue(e),
           \A e \in trace' \ trace : \A v :
               e = Reached(Run(v), "research_complete") => CompletedPlan(v)',
           \A v : CompletedPlan(v) => CompletedPlan(v)',
           \A v \in DOMAIN plan' :
               /\ Confirmed(v)' => Confirmed(v) \/ ConfirmEvents(v) \subseteq trace'
               /\ CompletedPlan(v)' => CompletedPlan(v) \/ FinalEvents(v) \subseteq trace',
           \A p \in Passes :
               /\ Started(pass'[p]) =>
                     Started(pass[p]) \/ Reached(Execution(p), "research_target") \in trace'
               /\ pass'[p].status = "completed" =>
                     pass[p].status = "completed" \/ ReconcileEvents(p) \subseteq trace'
    PROVE  ShadowInv'
<1>1. EventsTrue'
  <2>1. \A e \in trace' : EventTrue(e)
    BY DEF ShadowInv, EventsTrue
  <2>2. QED
    BY <2>1 DEF EventsTrue, EventTrue
<1>2. EndsTrue'
  <2>1. SUFFICES ASSUME NEW v, EndTraced(v)' PROVE CompletedPlan(v)'
    BY DEF EndsTrue
  <2>2. Reached(Run(v), "research_complete") \in trace'
    BY <2>1 DEF EndTraced, Reached, Run
  <2>3. CASE Reached(Run(v), "research_complete") \in trace
    BY <2>3 DEF ShadowInv, EndsTrue, EndTraced
  <2>4. CASE Reached(Run(v), "research_complete") \notin trace
    BY <2>2, <2>4
  <2>5. QED
    BY <2>3, <2>4
<1>3. PlansTraced'
  <2>1. SUFFICES ASSUME NEW v \in DOMAIN plan'
                 PROVE  /\ Confirmed(v)' => ConfirmEvents(v) \subseteq trace'
                        /\ CompletedPlan(v)' => FinalEvents(v) \subseteq trace'
    BY DEF PlansTraced, ConfirmEvents, FinalEvents, Along, Traversed, Reached, Run
  <2>2. Confirmed(v) => ConfirmEvents(v) \subseteq trace
    BY DEF ShadowInv, PlansTraced, Confirmed
  <2>3. CompletedPlan(v) => FinalEvents(v) \subseteq trace
    BY DEF ShadowInv, PlansTraced, CompletedPlan
  <2>4. QED
    BY <2>2, <2>3
<1>4. PassesTraced'
  <2>1. \A p \in Passes :
            /\ Started(pass'[p]) => Reached(Execution(p), "research_target") \in trace'
            /\ pass'[p].status = "completed" => ReconcileEvents(p) \subseteq trace'
    BY DEF ShadowInv, PassesTraced
  <2>2. QED
    BY <2>1 DEF PassesTraced, Started
<1>5. QED
  BY <1>1, <1>2, <1>3, <1>4 DEF ShadowInv

(* With one copy of a plan's passes a pass of a confirmed plan is always   *)
(* correlated, and only such a one is.                                     *)
LEMMA AlwaysCorrelated ==
    ASSUME OneRequest, keyed \subseteq Passes, NEW p \in Passes, NEW status
    PROVE  Correlates(p, status) <=> status[PlanOf(p)] = "confirmed"
<1>1. ASSUME NEW q \in keyed, SameKey(p, q) PROVE q = p
  <2>1. /\ q \in Passes /\ q[4] = 1 /\ p[4] = 1
        /\ q = <<PlanOf(q), TargetOf(q), q[3], q[4]>>
        /\ p = <<PlanOf(p), TargetOf(p), p[3], p[4]>>
    BY PassParts, OneCopy
  <2>2. p[1] = q[1] /\ p[2] = q[2] /\ p[3] = q[3]
    BY <1>1 DEF SameKey
  <2>3. QED
    BY <2>1, <2>2 DEF PlanOf, TargetOf
<1>2. QED
  BY <1>1 DEF Correlates

(* What a step shows to the engine is a step of the engine.                *)
LEMMA ShadowSteps == [ShadowNext]_<<vars, keyed, trace>> => [Next]_vars
<1>1. ASSUME ShadowNext PROVE Next
  <2>1. CASE \E r \in Requests : ObservedConfirm(r)
    BY <2>1 DEF ObservedConfirm, Next
  <2>2. CASE \E p \in Passes : ObservedLaunch(p) \/ ObservedFailure(p)
    BY <2>2 DEF ObservedLaunch, ObservedFailure, Next
  <2>3. CASE \E w \in Workers : ObservedDecide(w)
    BY <2>3 DEF ObservedDecide, Next
  <2>4. CASE Unobserved
    BY <2>4 DEF Unobserved, Next
  <2>5. QED
    BY <1>1, <2>1, <2>2, <2>3, <2>4 DEF ShadowNext
<1>2. QED
  BY <1>1

(* So the invariant of the engine holds with its shadow.                   *)
LEMMA ShadowResearch ==
    ASSUME OneRequest, MaxReopens = 0
    PROVE  ShadowSpec => []ResearchInv
<1>1. ShadowInit => Init
  BY DEF ShadowInit
<1>2. ShadowSpec => Spec
  BY <1>1, ShadowSteps, PTL DEF ShadowSpec, Spec
<1>3. QED
  BY <1>2, ResearchInvariant, PTL

(* An edge is connected by an event of the plan's run,                     *)
LEMMA InRunConnects ==
    ASSUME NEW e, e.edge # "research_fan_in",
           Reached(Run(e.of[2]), Source(Edge[e.edge])) \in trace'
    PROVE  Connected(e)'
BY DEF Connected, Reached, Run

(* ... by an event of a pass of the same target,                           *)
LEMMA TargetConnects ==
    ASSUME NEW e, NEW p, NEW q, e.edge # "research_fan_in", e.of = Execution(p),
           PlanOf(p) = PlanOf(q), TargetOf(p) = TargetOf(q),
           Reached(Execution(q), Source(Edge[e.edge])) \in trace'
    PROVE  Connected(e)'
<1>1. PICK d \in trace' : d = Reached(Execution(q), Source(Edge[e.edge]))
  OBVIOUS
<1>2. d.of = Execution(q) /\ d.node = Source(Edge[e.edge])
  BY <1>1 DEF Reached
<1>3. /\ e.of[1] = "execution" /\ e.of[2] = PlanOf(p) /\ e.of[3] = p
      /\ d.of[1] = "execution" /\ d.of[2] = PlanOf(p) /\ TargetOf(d.of[3]) = TargetOf(p)
  BY <1>2, OwnersDiffer
<1>4. d \in Seen(e.of[2], TargetOf(e.of[3]))'
  BY <1>1, <1>3 DEF Seen, TargetOf
<1>5. QED
  BY <1>2, <1>3, <1>4 DEF Connected

(* ... and by the decision of every target.                                *)
LEMMA FanInConnects ==
    ASSUME NEW e, NEW v, e.edge = "research_fan_in", e.of = Run(v),
           \A x \in Targets : \E q \in Passes :
               /\ PlanOf(q) = v /\ TargetOf(q) = x
               /\ Reached(Execution(q), "shared_budget_decision") \in trace'
    PROVE  Connected(e)'
<1>1. e.of[2] = v
  BY OwnersDiffer
<1>2. ASSUME NEW x \in Targets
      PROVE  \E d \in Seen(v, x)' : d.node = "shared_budget_decision"
  <2>1. PICK q \in Passes :
           /\ PlanOf(q) = v /\ TargetOf(q) = x
           /\ Reached(Execution(q), "shared_budget_decision") \in trace'
    OBVIOUS
  <2>2. PICK d \in trace' : d = Reached(Execution(q), "shared_budget_decision")
    BY <2>1
  <2>3. d.of = Execution(q) /\ d.node = "shared_budget_decision"
    BY <2>2 DEF Reached
  <2>4. d.of[1] = "execution" /\ d.of[2] = v /\ TargetOf(d.of[3]) = x
    BY <2>1, <2>3, OwnersDiffer
  <2>5. d \in Seen(v, x)'
    BY <2>2, <2>4 DEF Seen
  <2>6. QED
    BY <2>3, <2>5
<1>3. \A x \in Targets : DecisionSeen(v, x)'
  BY <1>2 DEF DecisionSeen
<1>4. QED
  BY <1>1, <1>3 DEF Connected

NewConnected == \A e \in trace' \ trace : e.edge # "none" => Connected(e)'

(* The confirmation of a plan.                                             *)
LEMMA ShadowConfirm ==
    ASSUME TypeInv, PlanInv, OneRequest, ShadowInv, NEW r \in Requests, ObservedConfirm(r)
    PROVE  ShadowInv' /\ NewConnected
<1>1. PICK v : v = req[r].plan
  OBVIOUS
<1>0. Confirm(r)
  BY DEF ObservedConfirm
<1>2. trace' = trace \cup ConfirmEvents(v) /\ keyed' \subseteq Passes
  BY <1>1 DEF ObservedConfirm, Correlated, ShadowInv
<1>3. /\ v \in DOMAIN plan /\ plan[v] = "pending_confirmation" /\ DOMAIN plan' = DOMAIN plan
      /\ \A u \in DOMAIN plan : plan'[u] = IF u = v THEN "confirmed" ELSE plan[u]
      /\ \A u \in DOMAIN plan : u # v => target'[u] = target[u]
      /\ target'[v] = [x \in Targets |-> Queued(x)]
      /\ \A p \in Passes :
            pass'[p] = IF PlanOf(p) = v /\ p[3] = 0
                       THEN QueuedPass(GuaranteedTime(TargetOf(p))) ELSE pass[p]
  BY <1>0, <1>1, ConfirmEffect
<1>4. \A e \in trace' \ trace :
         /\ e.of = Run(v) /\ e.node \in Graph.nodes /\ e.node # "research_complete"
         /\ e.edge # "none" => /\ e.edge # "research_fan_in"
                               /\ Walked(e, ConfirmEvents(v))
  BY <1>2, ConfirmEventsAre
<1>5. \A e \in trace' \ trace : EventTrue(e)
  BY <1>4, OwnersDiffer DEF EventTrue
<1>6. \A u : Reached(Run(u), "research_complete").node = "research_complete"
  BY DEF Reached
<1>7. \A u : CompletedPlan(u)' <=> CompletedPlan(u)
  BY <1>3 DEF CompletedPlan
<1>8. \A u \in DOMAIN plan' : Confirmed(u)' => Confirmed(u) \/ u = v
  BY <1>3 DEF Confirmed, Unconfirmed
<1>9. \A p \in Passes : Started(pass'[p]) => pass'[p] = pass[p]
  <2>1. \A x \in Targets : QueuedPass(GuaranteedTime(x)).status = "queued"
    BY GuaranteedTimeTyped, PassTyped
  <2>2. \A p \in Passes : TargetOf(p) \in Targets
    BY PassParts
  <2>3. QED
    BY <1>3, <2>1, <2>2 DEF Started
<1>10. ShadowInv'
  <2>1. \A p \in Passes :
            /\ Started(pass'[p]) => Started(pass[p])
            /\ pass'[p].status = "completed" => pass[p].status = "completed"
    BY <1>9 DEF Started
  <2>2. /\ trace \subseteq trace' /\ ConfirmEvents(v) \subseteq trace'
        /\ \A e \in trace' \ trace : \A u : e # Reached(Run(u), "research_complete")
    BY <1>2, <1>4, <1>6
  <2>3. QED
    BY <1>2, <1>5, <1>7, <1>8, <2>1, <2>2, TraceGrows
<1>11. NewConnected
  <2>1. SUFFICES ASSUME NEW e \in trace' \ trace, e.edge # "none" PROVE Connected(e)'
    BY DEF NewConnected
  <2>2. e.of = Run(v) /\ e.of[2] = v /\ e.edge # "research_fan_in"
        /\ Reached(Run(v), Source(Edge[e.edge])) \in ConfirmEvents(v)
    BY <1>4, <2>1, OwnersDiffer DEF Walked
  <2>3. QED
    BY <1>2, <2>2, InRunConnects
<1>12. QED
  BY <1>10, <1>11

(* A launch, or one that failed after its events had been recorded.        *)
LEMMA ShadowLaunch ==
    ASSUME TypeInv, PlanInv, OneRequest, ShadowInv, NEW p \in Passes,
           Observe(p, LaunchEvents(p)), UNCHANGED plan, Under(pass[p]),
           \A q \in Passes : q # p => pass'[q] = pass[q],
           pass'[p].status # "completed"
    PROVE  ShadowInv' /\ NewConnected
<1>1. /\ PlanOf(p) \in DOMAIN plan /\ plan[PlanOf(p)] = "confirmed" /\ TargetOf(p) \in Targets
      /\ p[3] = target[PlanOf(p)][TargetOf(p)].leases
  BY UnderWay
<1>2. Correlates(p, plan)
  BY <1>1, AlwaysCorrelated DEF ShadowInv
<1>3. trace' = trace \cup LaunchEvents(p) /\ keyed' \subseteq Passes
  BY <1>2 DEF Observe, ShadowInv
<1>4. \A e \in trace' \ trace :
         /\ e.of = Execution(p) /\ e.node \in Graph.nodes
         /\ e.edge # "none" =>
               /\ e.edge # "research_fan_in"
               /\ Source(Edge[e.edge]) = IF Shared(p) THEN "shared_budget_decision"
                                         ELSE "materialize_targets"
  BY <1>3, LaunchEventsAre
<1>5. Reached(Execution(p), "research_target") \in trace'
  BY <1>3, LaunchEventsAre
<1>6. \A e \in trace' \ trace : EventTrue(e)
  BY <1>4, OwnersDiffer DEF EventTrue
<1>7. \A e \in trace' \ trace : \A u : e # Reached(Run(u), "research_complete")
  <2>1. \A u : Reached(Run(u), "research_complete").of = Run(u)
    BY DEF Reached
  <2>2. QED
    BY <1>4, <2>1, OwnersDiffer
<1>8. ShadowInv'
  <2>1. \A u : (CompletedPlan(u)' <=> CompletedPlan(u)) /\ (Confirmed(u)' <=> Confirmed(u))
    BY DEF CompletedPlan, Confirmed, Unconfirmed
  <2>2. \A q \in Passes :
            /\ Started(pass'[q]) =>
                  Started(pass[q]) \/ Reached(Execution(q), "research_target") \in trace'
            /\ pass'[q].status = "completed" => pass[q].status = "completed"
    BY <1>5
  <2>3. trace \subseteq trace'
    BY <1>3
  <2>4. QED
    BY <1>3, <1>6, <1>7, <2>1, <2>2, <2>3, TraceGrows
<1>9. NewConnected
  <2>1. SUFFICES ASSUME NEW e \in trace' \ trace, e.edge # "none" PROVE Connected(e)'
    BY DEF NewConnected
  <2>2. /\ e.of = Execution(p) /\ e.of[2] = PlanOf(p) /\ e.edge # "research_fan_in"
        /\ Source(Edge[e.edge]) = IF Shared(p) THEN "shared_budget_decision"
                                  ELSE "materialize_targets"
    BY <1>4, <2>1, OwnersDiffer
  <2>3. CASE ~Shared(p)
    <3>1. Confirmed(PlanOf(p))
      BY <1>1 DEF Confirmed, Unconfirmed
    <3>2. Reached(Run(PlanOf(p)), "materialize_targets") \in trace
      BY <1>1, <3>1, ConfirmEventsAre DEF ShadowInv, PlansTraced
    <3>3. QED
      BY <1>3, <2>2, <2>3, <3>2, InRunConnects
  <2>4. CASE Shared(p)
    <3>1. /\ p[3] \in 0..MaxLeases /\ p[3] > 0 /\ p[4] \in Copies /\ MaxLeases \in Nat
          /\ PlanOf(p) \in Versions
      BY <2>4, PassParts, Numbers DEF Shared
    <3>2. PICK q : q = <<PlanOf(p), TargetOf(p), p[3] - 1, p[4]>>
      OBVIOUS
    <3>3. p[3] - 1 \in 0..MaxLeases /\ p[3] - 1 < p[3]
      BY <3>1
    <3>4. /\ q \in Passes /\ PlanOf(q) = PlanOf(p) /\ TargetOf(q) = TargetOf(p)
          /\ q[3] = p[3] - 1
      BY <1>1, <3>1, <3>2, <3>3 DEF Passes, PlanOf, TargetOf
    <3>5. PassOfRow(q, pass[q], target[PlanOf(p)][TargetOf(p)])
      BY <1>1, <3>4 DEF PlanInv, PassesOfRows, Confirmed, Unconfirmed
    <3>6. pass[q].status = "completed"
      BY <1>1, <3>3, <3>4, <3>5 DEF PassOfRow
    <3>7. Reached(Execution(q), "shared_budget_decision") \in trace
      BY <3>4, <3>6, ReconcileEventsAre DEF ShadowInv, PassesTraced
    <3>8. Reached(Execution(q), Source(Edge[e.edge])) \in trace'
      BY <1>3, <2>2, <2>4, <3>7
    <3>9. QED
      BY <2>2, <3>4, <3>8, TargetConnects
  <2>5. QED
    BY <2>3, <2>4
<1>10. QED
  BY <1>8, <1>9

(* What a deciding worker traces of its pass, and of a plan it completes.  *)
LEMMA DecideTraces ==
    ASSUME TypeInv, PlanInv, OneRequest, ShadowInv, NEW w \in Workers, ObservedDecide(w),
           NEW done, done = {v \in DOMAIN plan : plan[v] # "completed" /\ plan'[v] = "completed"}
    PROVE  /\ txn[w].open /\ txn[w].pass \in Passes /\ pass[txn[w].pass].status = "running"
           /\ keyed' \subseteq Passes
           /\ trace' = trace \cup ReconcileEvents(txn[w].pass)
                           \cup UNION {FinalEvents(v) : v \in done}
<1>1. PICK p : p = txn[w].pass
  OBVIOUS
<1>2. /\ txn[w].open /\ keyed' = Correlated({q \in Passes : pass[q].status = "none"
                                                  /\ pass'[q].status = "queued"} \cup {p}, plan)
      /\ trace' = trace \cup Timely(p) \cup UNION {FinalEvents(v) : v \in done}
  BY <1>1 DEF ObservedDecide, Decide
<1>3. p \in Passes /\ pass[p].status = "running"
  BY <1>1, <1>2, TxnTyped DEF PlanInv, TxnsTrue
<1>4. plan[PlanOf(p)] = "confirmed"
  BY <1>3, UnderWay DEF Under
<1>5. Correlates(p, plan)
  BY <1>3, <1>4, AlwaysCorrelated DEF ShadowInv
<1>6. Timely(p) = ReconcileEvents(p)
  BY <1>5 DEF Timely
<1>7. keyed' \subseteq Passes
  BY <1>2, <1>3 DEF Correlated, ShadowInv
<1>8. QED
  BY <1>1, <1>2, <1>3, <1>6, <1>7

(* What a decision does to the passes and the plans, seen from the trace:  *)
(* one pass ends, and the plan that is completed has all targets decided.  *)
LEMMA DecideEnds ==
    ASSUME TypeInv, PlanInv, OneRequest, NEW w \in Workers, Decide(w)
    PROVE  /\ DOMAIN plan' = DOMAIN plan
           /\ \A v \in DOMAIN plan : plan'[v] = plan[v] \/ plan'[v] = "completed"
           /\ \A q \in Passes : q # txn[w].pass /\ Started(pass'[q]) => pass'[q] = pass[q]
           /\ \A v \in DOMAIN plan : plan[v] # "completed" /\ plan'[v] = "completed" =>
                 /\ Confirmed(v)
                 /\ \A x \in Targets : \E q \in Passes :
                       /\ PlanOf(q) = v /\ TargetOf(q) = x
                       /\ q = txn[w].pass \/ pass[q].status = "completed"
<1>1. txn[w].open /\ (DecideWaits(w) \/ DecideLeases(w) \/ DecideCompletes(w))
  BY DecideCases
<1>2. \A q \in Passes : q # txn[w].pass => Done(w)[q] = pass[q]
  BY <1>1, DoneTyped
<1>3. CASE DecideWaits(w)
  BY <1>2, <1>3 DEF DecideWaits
<1>4. CASE DecideLeases(w)
  <2>1. PICK rows, L : rows = Own(w)[Decided] /\ L = Leased(rows)
    OBVIOUS
  <2>2. /\ L \subseteq Targets /\ rows \in [Targets -> TargetRow] /\ UNCHANGED plan
        /\ \A q \in Passes :
              pass'[q] = IF /\ PlanOf(q) = Decided /\ TargetOf(q) \in L
                            /\ q[3] = rows[TargetOf(q)].leases + 1 /\ q[4] = 1
                         THEN QueuedPass(LeaseFor(rows, TargetOf(q))) ELSE Done(w)[q]
    BY <1>1, <1>4, <2>1, DecideLeasesEffect
  <2>3. \A x \in L : QueuedPass(LeaseFor(rows, x)).status = "queued"
    BY <2>1, <2>2, LeaseTyped, PassTyped
  <2>4. \A q \in Passes : q # txn[w].pass /\ Started(pass'[q]) => pass'[q] = pass[q]
    BY <1>2, <2>2, <2>3 DEF Started
  <2>5. QED
    BY <2>2, <2>4
<1>5. CASE DecideCompletes(w)
  <2>1. PICK v : v = Decided
    OBVIOUS
  <2>2. /\ pass' = Done(w) /\ Last(w) /\ Finalize(v, Own(w)[v])
    BY <1>5, <2>1 DEF DecideCompletes
  <2>3. /\ v \in DOMAIN plan /\ plan[v] = "confirmed"
        /\ \A x \in Targets : Own(w)[v][x].status \in TerminalTarget
    BY <1>1, <2>1, <2>2, LastAlone
  <2>4. /\ DOMAIN plan' = DOMAIN plan
        /\ \A u \in DOMAIN plan : plan'[u] = IF u = v THEN "completed" ELSE plan[u]
    BY <2>2, <2>3, FinalizeTyped
  <2>5. Confirmed(v) /\ v \in Versions
    BY <2>3, Domains DEF Confirmed, Unconfirmed
  <2>6. ASSUME NEW x \in Targets
        PROVE  \E q \in Passes : /\ PlanOf(q) = v /\ TargetOf(q) = x
                                 /\ q = txn[w].pass \/ pass[q].status = "completed"
    <3>1. Own(w)[v][x] \in TargetRow
      BY <1>1, <2>3, OwnTyped
    <3>2. Own(w)[v][x].leases \in 0..MaxLeases
      BY <3>1 DEF TargetRow
    <3>3. PICK q : q = <<v, x, Own(w)[v][x].leases, 1>>
      OBVIOUS
    <3>4. /\ q \in Passes /\ PlanOf(q) = v /\ TargetOf(q) = x
          /\ q[3] = Own(w)[v][x].leases
      BY <2>5, <3>2, <3>3, OneCopy DEF Passes, PlanOf, TargetOf
    <3>5. PassOfRow(q, Done(w)[q], Own(w)[v][x])
      BY <1>1, <2>5, <3>4, OwnTrue
    <3>6. Done(w)[q].status = "completed"
      BY <2>3, <3>4, <3>5 DEF PassOfRow
    <3>7. QED
      BY <1>2, <3>4, <3>6
  <2>7. QED
    BY <1>2, <2>2, <2>4, <2>5, <2>6
<1>6. QED
  BY <1>1, <1>3, <1>4, <1>5

(* A decision, whether it waits, leases or completes the plan.             *)
LEMMA ShadowDecide ==
    ASSUME TypeInv, PlanInv, OneRequest, ShadowInv, NEW w \in Workers, ObservedDecide(w)
    PROVE  ShadowInv' /\ NewConnected
<1>0. Decide(w)
  BY DEF ObservedDecide
<1>1. PICK p, done : /\ p = txn[w].pass
                     /\ done = {v \in DOMAIN plan :
                                   plan[v] # "completed" /\ plan'[v] = "completed"}
  OBVIOUS
<1>2. /\ p \in Passes /\ pass[p].status = "running" /\ keyed' \subseteq Passes
      /\ trace' = trace \cup ReconcileEvents(p) \cup UNION {FinalEvents(v) : v \in done}
  BY <1>1, DecideTraces
<1>3. /\ DOMAIN plan' = DOMAIN plan
      /\ \A v \in DOMAIN plan : plan'[v] = plan[v] \/ plan'[v] = "completed"
      /\ \A q \in Passes : q # p /\ Started(pass'[q]) => pass'[q] = pass[q]
      /\ \A v \in done :
            /\ Confirmed(v)
            /\ \A x \in Targets : \E q \in Passes :
                  PlanOf(q) = v /\ TargetOf(q) = x /\ (q = p \/ pass[q].status = "completed")
  BY <1>0, <1>1, DecideEnds
<1>4. /\ trace \subseteq trace' /\ ReconcileEvents(p) \subseteq trace'
      /\ \A v \in done : FinalEvents(v) \subseteq trace'
  BY <1>2
<1>5. Reached(Execution(p), "research_target") \in trace
  BY <1>2 DEF ShadowInv, PassesTraced, Started
<1>6. ASSUME NEW e \in trace' \ trace
      PROVE  \/ e \in ReconcileEvents(p)
             \/ \E v \in done : e \in FinalEvents(v)
  BY <1>2, <1>6
<1>7. ASSUME NEW e \in trace' \ trace
      PROVE  /\ EventTrue(e)
             /\ \A u : e = Reached(Run(u), "research_complete") => CompletedPlan(u)'
  <2>1. \A u : Reached(Run(u), "research_complete").of = Run(u)
    BY DEF Reached
  <2>2. CASE e \in ReconcileEvents(p)
    <3>1. e.of = Execution(p) /\ e.node \in Graph.nodes
      BY <2>2, ReconcileEventsAre
    <3>2. QED
      BY <1>2, <2>1, <3>1, OwnersDiffer DEF EventTrue
  <2>3. ASSUME NEW v \in done, e \in FinalEvents(v)
        PROVE  /\ EventTrue(e)
               /\ \A u : e = Reached(Run(u), "research_complete") => CompletedPlan(u)'
    <3>1. e.of = Run(v) /\ e.node \in Graph.nodes
      BY <2>3, FinalEventsAre
    <3>2. CompletedPlan(v)'
      BY <1>1, <1>3 DEF CompletedPlan
    <3>3. QED
      BY <2>1, <3>1, <3>2, OwnersDiffer DEF EventTrue
  <2>4. QED
    BY <1>6, <2>2, <2>3
<1>8. ShadowInv'
  <2>1. \A u : CompletedPlan(u) => CompletedPlan(u)'
    BY <1>3 DEF CompletedPlan
  <2>2. ASSUME NEW u \in DOMAIN plan'
        PROVE  /\ Confirmed(u)' => Confirmed(u) \/ ConfirmEvents(u) \subseteq trace'
               /\ CompletedPlan(u)' => CompletedPlan(u) \/ FinalEvents(u) \subseteq trace'
    <3>1. CASE u \in done
      BY <1>3, <1>4, <3>1
    <3>2. CASE u \notin done
      <4>1. u \in DOMAIN plan /\ plan'[u] = plan[u]
        BY <1>1, <1>3, <3>2
      <4>2. QED
        BY <4>1 DEF Confirmed, Unconfirmed, CompletedPlan
    <3>3. QED
      BY <3>1, <3>2
  <2>3. \A q \in Passes :
            /\ Started(pass'[q]) =>
                  Started(pass[q]) \/ Reached(Execution(q), "research_target") \in trace'
            /\ pass'[q].status = "completed" =>
                  pass[q].status = "completed" \/ ReconcileEvents(q) \subseteq trace'
    BY <1>3, <1>4, <1>5 DEF Started
  <2>4. QED
    BY <1>2, <1>4, <1>7, <2>1, <2>2, <2>3, TraceGrows
<1>9. ASSUME NEW e \in trace' \ trace, e.edge # "none" PROVE Connected(e)'
  <2>1. CASE e \in ReconcileEvents(p)
    <3>1. /\ e.of = Execution(p) /\ e.edge # "research_fan_in"
          /\ \/ Walked(e, ReconcileEvents(p))
             \/ Source(Edge[e.edge]) = "research_target"
      BY <1>9, <2>1, ReconcileEventsAre
    <3>2. Reached(Execution(p), Source(Edge[e.edge])) \in trace'
      BY <1>4, <1>5, <3>1 DEF Walked
    <3>3. QED
      BY <3>1, <3>2, TargetConnects
  <2>2. ASSUME NEW v \in done, e \in FinalEvents(v) PROVE Connected(e)'
    <3>1. /\ e.of = Run(v) /\ e.of[2] = v
          /\ e.edge = "research_fan_in" \/ Walked(e, FinalEvents(v))
      BY <1>9, <2>2, FinalEventsAre, OwnersDiffer
    <3>2. CASE e.edge = "research_fan_in"
      <4>1. ASSUME NEW x \in Targets
            PROVE  \E q \in Passes :
                      /\ PlanOf(q) = v /\ TargetOf(q) = x
                      /\ Reached(Execution(q), "shared_budget_decision") \in trace'
        <5>1. PICK q \in Passes : /\ PlanOf(q) = v /\ TargetOf(q) = x
                                  /\ q = p \/ pass[q].status = "completed"
          BY <1>3
        <5>2. ReconcileEvents(q) \subseteq trace'
          BY <1>4, <5>1 DEF ShadowInv, PassesTraced
        <5>3. QED
          BY <5>1, <5>2, ReconcileEventsAre
      <4>2. QED
        BY <3>1, <3>2, <4>1, FanInConnects
    <3>3. CASE e.edge # "research_fan_in"
      BY <1>4, <3>1, <3>3, InRunConnects DEF Walked
    <3>4. QED
      BY <3>2, <3>3
  <2>3. QED
    BY <1>6, <2>1, <2>2
<1>10. QED
  BY <1>8, <1>9 DEF NewConnected

(* A step that is not observed starts and ends no pass, and confirms and   *)
(* completes no plan.                                                      *)
LEMMA UnobservedSteps ==
    ASSUME TypeInv, PlanInv, Unobserved
    PROVE  /\ \A v \in DOMAIN plan : v \in DOMAIN plan'
           /\ \A v \in DOMAIN plan' :
                 \/ v \in DOMAIN plan /\ plan'[v] = plan[v]
                 \/ plan'[v] \in {"pending_confirmation", "superseded"}
                    /\ (v \in DOMAIN plan => plan[v] = "pending_confirmation")
           /\ \A p \in Passes : Started(pass'[p]) => pass'[p].status = pass[p].status
<1>1. ASSUME NEW r \in Requests, Replace(r)
      PROVE  /\ DOMAIN plan' = DOMAIN plan \cup {Len(plan) + 1} /\ UNCHANGED pass
             /\ \A v \in DOMAIN plan :
                   \/ plan'[v] = plan[v]
                   \/ plan[v] = "pending_confirmation" /\ plan'[v] = "superseded"
             /\ plan'[Len(plan) + 1] = "pending_confirmation"
             /\ Len(plan) + 1 \notin DOMAIN plan
  BY <1>1, ReplaceEffect
<1>2. CASE \E r \in Requests : Replace(r)
  BY <1>1, <1>2
<1>3. CASE \E r \in Requests : ReadForReplace(r) \/ ReadForConfirm(r)
  BY <1>3 DEF ReadForReplace, ReadForConfirm
<1>4. CASE \E p \in Passes : ReconcileFails(p)
  BY <1>4, ReconcileFailsEffect DEF Started
<1>5. CASE \E p \in Passes : Resolve(p)
  BY <1>5, ResolveEffect DEF Started
<1>6. CASE \E w \in Workers, p \in Passes : Settle(w, p)
  BY <1>6 DEF Settle
<1>7. CASE \E w \in Workers : RollBack(w)
  BY <1>7 DEF RollBack
<1>8. CASE \E c \in Candidates : PrepChanges(c)
  BY <1>8 DEF PrepChanges
<1>9. CASE Pause \/ Resume
  <2>1. UNCHANGED plan
    BY <1>9 DEF Pause, Resume
  <2>2. ASSUME NEW p \in Passes, Started(pass'[p]) PROVE pass'[p] = pass[p]
    <3>1. pass[p] \in PassRow
      BY DEF TypeInv, TypeOK
    <3>2. CASE Pause
      BY <2>2, <3>1, <3>2 DEF Pause, Started, PassRow
    <3>3. CASE Resume
      BY <2>2, <3>1, <3>3 DEF Resume, Started, PassRow
    <3>4. QED
      BY <1>9, <3>2, <3>3
  <2>3. QED
    BY <2>1, <2>2
<1>10. QED
  BY <1>2, <1>3, <1>4, <1>5, <1>6, <1>7, <1>8, <1>9 DEF Unobserved

(* It adds nothing to the trace, and needs nothing there.                  *)
LEMMA ShadowUnobserved ==
    ASSUME TypeInv, PlanInv, ShadowInv, Unobserved
    PROVE  ShadowInv' /\ NewConnected
<1>1. UNCHANGED <<keyed, trace>>
  BY DEF Unobserved, shadowVars
<1>2. /\ \A v : CompletedPlan(v) => CompletedPlan(v)'
      /\ \A v \in DOMAIN plan' : (Confirmed(v)' => Confirmed(v))
                                 /\ (CompletedPlan(v)' => CompletedPlan(v))
  BY UnobservedSteps DEF CompletedPlan, Confirmed, Unconfirmed
<1>3. \A p \in Passes : /\ Started(pass'[p]) => Started(pass[p])
                        /\ pass'[p].status = "completed" => pass[p].status = "completed"
  BY UnobservedSteps DEF Started
<1>4. ShadowInv'
  <2>1. keyed' \subseteq Passes /\ trace' \ trace = {} /\ trace \subseteq trace'
    BY <1>1 DEF ShadowInv
  <2>2. QED
    BY <1>2, <1>3, <2>1, TraceGrows
<1>5. QED
  BY <1>1, <1>4 DEF NewConnected

(* Every step keeps the invariant and adds connected edges.                *)
LEMMA ShadowKept ==
    ASSUME OneRequest, ResearchInv, ShadowInv, [ShadowNext]_<<vars, keyed, trace>>
    PROVE  ShadowInv' /\ NewConnected
<1>0. TypeInv /\ PlanInv
  BY DEF ResearchInv
<1>1. ASSUME NEW r \in Requests, ObservedConfirm(r) PROVE ShadowInv' /\ NewConnected
  BY <1>0, <1>1, ShadowConfirm
<1>2. ASSUME NEW p \in Passes, ObservedLaunch(p) PROVE ShadowInv' /\ NewConnected
  <2>1. Launch(p) /\ Observe(p, LaunchEvents(p))
    BY <1>2 DEF ObservedLaunch
  <2>2. /\ UNCHANGED plan /\ pass[p].status \in {"queued", "retry"}
        /\ pass'[p].status = "running" /\ \A q \in Passes : q # p => pass'[q] = pass[q]
    BY <1>0, <2>1, LaunchEffect
  <2>3. Under(pass[p]) /\ pass'[p].status # "completed"
    BY <2>2 DEF Under
  <2>4. QED
    BY <1>0, <2>1, <2>2, <2>3, ShadowLaunch
<1>3. ASSUME NEW p \in Passes, ObservedFailure(p) PROVE ShadowInv' /\ NewConnected
  <2>1. LaunchFails(p) /\ (Observe(p, LaunchEvents(p)) \/ UNCHANGED shadowVars)
    BY <1>3 DEF ObservedFailure
  <2>2. /\ UNCHANGED plan /\ pass[p].status \in {"queued", "retry"}
        /\ pass'[p].status \in {"retry", "blocked"}
        /\ \A q \in Passes : q # p => pass'[q] = pass[q]
    BY <1>0, <2>1, LaunchFailsEffect
  <2>3. Under(pass[p]) /\ pass'[p].status # "completed" /\ ~Started(pass'[p])
    BY <2>2 DEF Under, Started
  <2>4. CASE Observe(p, LaunchEvents(p))
    BY <1>0, <2>2, <2>3, <2>4, ShadowLaunch
  <2>5. CASE UNCHANGED shadowVars
    <3>1. UNCHANGED <<keyed, trace>>
      BY <2>5 DEF shadowVars
    <3>2. /\ \A v : (CompletedPlan(v)' <=> CompletedPlan(v)) /\ (Confirmed(v)' <=> Confirmed(v))
      BY <2>2 DEF CompletedPlan, Confirmed, Unconfirmed
    <3>3. \A q \in Passes : /\ Started(pass'[q]) => Started(pass[q])
                            /\ pass'[q].status = "completed" => pass[q].status = "completed"
      BY <2>2, <2>3 DEF Started
    <3>4. keyed' \subseteq Passes /\ trace' \ trace = {} /\ trace \subseteq trace'
      BY <3>1 DEF ShadowInv
    <3>5. ShadowInv'
      BY <3>2, <3>3, <3>4, TraceGrows
    <3>6. QED
      BY <3>4, <3>5 DEF NewConnected
  <2>6. QED
    BY <2>1, <2>4, <2>5
<1>4. ASSUME NEW w \in Workers, ObservedDecide(w) PROVE ShadowInv' /\ NewConnected
  BY <1>0, <1>4, ShadowDecide
<1>5. CASE Unobserved
  BY <1>0, <1>5, ShadowUnobserved
<1>6. CASE UNCHANGED <<vars, keyed, trace>>
  <2>1. UNCHANGED <<plan, pass, keyed, trace>>
    BY <1>6 DEF vars
  <2>2. QED
    BY <2>1 DEF ShadowInv, EventsTrue, EventTrue, EndsTrue, EndTraced, CompletedPlan,
                PlansTraced, Confirmed, Unconfirmed, PassesTraced, Started, NewConnected
<1>7. QED
  BY <1>1, <1>2, <1>3, <1>4, <1>5, <1>6 DEF ShadowNext

(* Nothing is confirmed, started or traced at first.                       *)
LEMMA ShadowStart == ShadowInit => ShadowInv
<1>1. SUFFICES ASSUME ShadowInit PROVE ShadowInv
  OBVIOUS
<1>2. keyed = {} /\ trace = {} /\ plan = <<>> /\ \A p \in Passes : pass[p] = NoPass
  BY <1>1 DEF ShadowInit, Init
<1>3. NoPass.status = "none" /\ DOMAIN plan = {}
  BY <1>2, EmptySeq DEF NoPass
<1>4. QED
  BY <1>2, <1>3 DEF ShadowInv, EventsTrue, EndsTrue, EndTraced, PlansTraced, PassesTraced,
                    Started

(* The invariant of the shadow holds in every state.                       *)
LEMMA ShadowInvariant ==
    ASSUME OneRequest, MaxReopens = 0
    PROVE  ShadowSpec => []ShadowInv
<1>1. ResearchInv /\ ShadowInv /\ [ShadowNext]_<<vars, keyed, trace>> => ShadowInv'
  BY ShadowKept
<1>2. QED
  BY <1>1, ShadowStart, ShadowResearch, PTL DEF ShadowSpec

(* The shadow never contradicts the engine, whatever failed, was put back, *)
(* paused or rolled back: a completed execution has its whole trace, and a *)
(* completed plan its end.  The code's readiness check refuses more than   *)
(* three leases of a target, and the engine grants no more.                *)
THEOREM ShadowStaysTrue ==
    ASSUME OneRequest, MaxReopens = 0, MaxLeases <= MAX_SHARED_LEASE_GENERATION
    PROVE  ShadowSpec => []ShadowAgrees
<1>1. ASSUME ShadowInv PROVE ShadowAgrees
  <2>1. ASSUME NEW p \in keyed, pass[p].status = "completed" PROVE TargetTrace(p) \subseteq trace
    BY <1>1, <2>1 DEF ShadowInv, PassesTraced, Started, TargetTrace
  <2>2. ASSUME NEW e \in trace, e.of[1] = "execution"
        PROVE  ~(e.of[3][3] > MAX_SHARED_LEASE_GENERATION)
    <3>1. e.of[3] \in Passes
      BY <1>1, <2>2 DEF ShadowInv, EventsTrue, EventTrue
    <3>2. e.of[3][3] \in 0..MaxLeases /\ MaxLeases \in Nat
      BY <3>1, PassParts, Numbers
    <3>3. QED
      BY <3>2 DEF MAX_SHARED_LEASE_GENERATION
  <2>3. \A e \in trace : e.node \in Graph.nodes
    BY <1>1 DEF ShadowInv, EventsTrue, EventTrue
  <2>4. Verdict # "not_ready"
    BY <2>1, <2>2, <2>3 DEF Verdict, Mismatched
  <2>5. ASSUME NEW v \in DOMAIN plan PROVE plan[v] = "completed" <=> EndTraced(v)
    <3>1. CompletedPlan(v) => Reached(Run(v), "research_complete") \in trace
      BY <1>1, FinalEventsAre DEF ShadowInv, PlansTraced
    <3>2. EndTraced(v) => CompletedPlan(v)
      BY <1>1 DEF ShadowInv, EndsTrue
    <3>3. QED
      BY <3>1, <3>2 DEF EndTraced, CompletedPlan
  <2>6. QED
    BY <2>4, <2>5 DEF ShadowAgrees
<1>2. QED
  BY <1>1, ShadowInvariant, PTL

(* The trace is a walk of the graph: an edge is recorded when its source   *)
(* has been reached, by the same target or in the run of the plan, and the *)
(* fan-in when the decision has been reached by every target.              *)
THEOREM TraceStaysConnected ==
    ASSUME OneRequest, MaxReopens = 0
    PROVE  ShadowSpec => TraceConnected
<1>1. ResearchInv /\ ShadowInv /\ [ShadowNext]_<<vars, keyed, trace>> =>
          [\A e \in trace' \ trace : e.edge # "none" => Connected(e)']_shadowVars
  BY ShadowKept DEF NewConnected
<1>2. QED
  BY <1>1, ShadowResearch, ShadowInvariant, PTL DEF ShadowSpec, TraceConnected
=============================================================================
