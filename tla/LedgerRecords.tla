---------------------------- MODULE LedgerRecords ----------------------------
(***************************************************************************)
(* Each operation of the ledger state machine returns a state of the right *)
(* type: for every parameter set and any finite sets of accounts and tasks *)
(* no amount is debited below zero.  What an operation needs of the state  *)
(* for that, beyond its own guard, is an assumption of its lemma.  And     *)
(* each keeps the maps keyed by task in agreement (records_agree).         *)
(* Around them, what those proofs and others share: sums, amounts, and the *)
(* block that the sequencer makes of one transaction.                      *)
(***************************************************************************)
EXTENDS LedgerProperties, Consensus, Integers, FiniteSetTheorems,
        WellFoundedInduction, TLAPS

-----------------------------------------------------------------------------
(***************************************************************************)
(* Sums over accounts and tasks: first-order facts about SumFunctionOnSet  *)
(* and SumFunction of the module Functions.  The invariants compare sums   *)
(* over accounts with supply and with per-task amounts, and every step     *)
(* changes such a sum at a few points, so what is needed is how a sum      *)
(* moves under EXCEPT.                                                     *)
(***************************************************************************)
\* The element that the fold removes first.
Pick(s) == CHOOSE x \in s : TRUE

\* g is the function the fold of SumFunctionOnSet(f, S) defines by recursion.
IsPartialSum(f, S, g) ==
  g = [s \in SUBSET S |-> IF s = {} THEN 0 ELSE f[Pick(s)] + g[s \ {Pick(s)}]]

-----------------------------------------------------------------------------
\* Induction over the subsets of a finite set, with the induction predicate
\* given as the set G of the subsets that satisfy it: from all strict subsets.
LEMMA StrongSubsetInduction ==
  ASSUME NEW S, IsFiniteSet(S), NEW G,
         \A T \in SUBSET S : (\A U \in (SUBSET T) \ {T} : U \in G) => T \in G
  PROVE  \A T \in SUBSET S : T \in G
<1> DEFINE Bad == (SUBSET S) \ G
<1>1. SUFFICES ASSUME Bad # {} PROVE FALSE
  OBVIOUS
<1>2. Bad \subseteq FiniteSubsetsOf(S)
  BY FS_Subset DEF FiniteSubsetsOf
<1>3. PICK T \in Bad : \A U \in Bad : ~ (<<U, T>> \in StrictSubsetOrdering(S))
  <2>1. IsWellFoundedOn(StrictSubsetOrdering(S), FiniteSubsetsOf(S))
    BY FS_StrictSubsetOrderingWellFounded
  <2> HIDE DEF Bad
  <2> QED BY <1>1, <1>2, <2>1, WFMin
<1>4. \A U \in (SUBSET T) \ {T} : U \in G
  BY <1>3 DEF StrictSubsetOrdering
<1> QED BY <1>3, <1>4

\* From the subset that lacks only the picked element.
LEMMA SubsetInduction ==
  ASSUME NEW S, IsFiniteSet(S), NEW G,
         {} \in G,
         \A T \in SUBSET S : T # {} => (T \ {Pick(T)} \in G => T \in G)
  PROVE  \A T \in SUBSET S : T \in G
<1>1. ASSUME NEW T \in SUBSET S, \A U \in (SUBSET T) \ {T} : U \in G
      PROVE  T \in G
  <2>1. CASE T = {}
    BY <2>1
  <2>2. CASE T # {}
    <3>1. Pick(T) \in T
      BY <2>2 DEF Pick
    <3>2. T \ {Pick(T)} \in (SUBSET T) \ {T}
      BY <3>1
    <3> QED BY <1>1, <2>2, <3>2
  <2> QED BY <2>1, <2>2
<1> QED BY <1>1, StrongSubsetInduction

-----------------------------------------------------------------------------
\* The fold is the value at S of a function satisfying the recursion.
LEMMA SumUnfold ==
  ASSUME NEW f, NEW S
  PROVE  SumFunctionOnSet(f, S) = (CHOOSE g : IsPartialSum(f, S, g))[S]
BY Zenon DEF SumFunctionOnSet, FoldFunctionOnSet, MapThenFoldSet, IsPartialSum, Pick

\* Two functions that satisfy the recursion agree where both are defined.
LEMMA PartialSumsAgree ==
  ASSUME NEW f, NEW S, IsFiniteSet(S), NEW T \in SUBSET S,
         NEW g, IsPartialSum(f, S, g),
         NEW h, IsPartialSum(f, T, h)
  PROVE  \A U \in SUBSET T : g[U] = h[U]
<1> DEFINE G == {U \in SUBSET T : g[U] = h[U]}
<1>0. IsFiniteSet(T)
  BY FS_Subset
<1>1. {} \in G
  BY DEF IsPartialSum
<1>2. ASSUME NEW U \in SUBSET T, U # {}, U \ {Pick(U)} \in G
      PROVE  U \in G
  <2>1. /\ g[U] = f[Pick(U)] + g[U \ {Pick(U)}]
        /\ h[U] = f[Pick(U)] + h[U \ {Pick(U)}]
    BY <1>2 DEF IsPartialSum
  <2> QED BY <1>2, <2>1
<1>3. \A U \in SUBSET T : U \in G
  <2> HIDE DEF G
  <2> QED BY <1>0, <1>1, <1>2, SubsetInduction
<1> QED BY <1>3

\* Over a finite set the recursion has a solution: put together the solutions
\* over the strict subsets.
LEMMA PartialSumExists ==
  ASSUME NEW f, NEW S, IsFiniteSet(S)
  PROVE  \E g : IsPartialSum(f, S, g)
<1> DEFINE G == {T \in SUBSET S : \E g : IsPartialSum(f, T, g)}
<1>1. ASSUME NEW T \in SUBSET S, \A U \in (SUBSET T) \ {T} : U \in G
      PROVE  T \in G
  <2> DEFINE sol(U) == CHOOSE g : IsPartialSum(f, U, g)
             g == [s \in SUBSET T |->
                     IF s = {} THEN 0
                     ELSE f[Pick(s)] + sol(s \ {Pick(s)})[s \ {Pick(s)}]]
  <2>1. \A U \in (SUBSET T) \ {T} : IsPartialSum(f, U, sol(U))
    BY <1>1
  <2>2. \A U \in SUBSET T : U # {} => U \ {Pick(U)} \in (SUBSET T) \ {T}
    BY DEF Pick
  <2>3. \A U \in (SUBSET T) \ {T} : g[U] = sol(U)[U]
    <3>1. SUFFICES ASSUME NEW U \in (SUBSET T) \ {T}, U # {}
                   PROVE  g[U] = sol(U)[U]
      <4>1. CASE {} \in (SUBSET T) \ {T}
        <5>1. sol({})[{}] = 0
          <6> HIDE DEF sol
          <6>1. IsPartialSum(f, {}, sol({}))
            BY <2>1, <4>1
          <6> QED BY <6>1 DEF IsPartialSum
        <5> QED BY <3>1, <5>1
      <4> QED BY <3>1, <4>1
    <3> DEFINE V == U \ {Pick(U)}
    <3>2. V \in SUBSET U /\ V \in (SUBSET T) \ {T}
      BY <2>2, <3>1
    <3>3. IsFiniteSet(U)
      BY FS_Subset
    <3>4. sol(U)[V] = sol(V)[V]
      <4> HIDE DEF sol, V
      <4>1. IsPartialSum(f, U, sol(U)) /\ IsPartialSum(f, V, sol(V))
        BY <2>1, <3>2
      <4> QED BY <3>2, <3>3, <4>1, PartialSumsAgree
    <3>5. sol(U)[U] = f[Pick(U)] + sol(U)[V]
      <4> HIDE DEF sol
      <4>1. IsPartialSum(f, U, sol(U))
        BY <2>1
      <4> QED BY <3>1, <4>1 DEF IsPartialSum
    <3>6. g[U] = f[Pick(U)] + sol(V)[V]
      <4> HIDE DEF sol
      <4> QED BY <3>1
    <3> QED BY <3>4, <3>5, <3>6
  <2>4. IsPartialSum(f, T, g)
    <3> HIDE DEF sol
    <3>1. \A s \in SUBSET T : s # {} =>
             sol(s \ {Pick(s)})[s \ {Pick(s)}] = g[s \ {Pick(s)}]
      <4> HIDE DEF g
      <4> QED BY <2>2, <2>3
    <3>2. \A s \in SUBSET T :
             g[s] = IF s = {} THEN 0 ELSE f[Pick(s)] + g[s \ {Pick(s)}]
      BY <3>1
    <3>3. g = [s \in SUBSET T |-> g[s]]
      OBVIOUS
    <3> QED
      <4> HIDE DEF g
      <4> QED BY <3>2, <3>3 DEF IsPartialSum
  <2> QED BY <2>4
<1>2. \A T \in SUBSET S : T \in G
  <2> HIDE DEF G
  <2> QED BY <1>1, StrongSubsetInduction
<1> QED BY <1>2

\* The sum over the empty set.
LEMMA SumEmpty ==
  ASSUME NEW f
  PROVE  SumFunctionOnSet(f, {}) = 0
<1>1. \E g : IsPartialSum(f, {}, g)
  BY PartialSumExists, FS_EmptySet
<1> QED BY <1>1, SumUnfold DEF IsPartialSum

\* The sum over a set is the value at the picked element plus the rest.
LEMMA SumStep ==
  ASSUME NEW f, NEW S, IsFiniteSet(S), S # {}
  PROVE  SumFunctionOnSet(f, S) = f[Pick(S)] + SumFunctionOnSet(f, S \ {Pick(S)})
<1> DEFINE T == S \ {Pick(S)}
           g == CHOOSE gg : IsPartialSum(f, S, gg)
           h == CHOOSE hh : IsPartialSum(f, T, hh)
<1>1. IsFiniteSet(T)
  BY FS_RemoveElement
<1>2. IsPartialSum(f, S, g)
  BY PartialSumExists
<1>3. IsPartialSum(f, T, h)
  <2> HIDE DEF T
  <2> QED BY <1>1, PartialSumExists
<1>4. g[T] = h[T]
  <2> HIDE DEF g, h
  <2> QED BY <1>2, <1>3, PartialSumsAgree
<1>5. g[S] = f[Pick(S)] + g[T]
  <2> HIDE DEF g
  <2> QED BY <1>2 DEF IsPartialSum
<1>6. SumFunctionOnSet(f, S) = g[S] /\ SumFunctionOnSet(f, T) = h[T]
  BY SumUnfold
<1> QED BY <1>4, <1>5, <1>6

-----------------------------------------------------------------------------
\* A sum of integers is an integer.
LEMMA SumInt ==
  ASSUME NEW S, IsFiniteSet(S), NEW f, \A x \in S : f[x] \in Int
  PROVE  \A T \in SUBSET S : SumFunctionOnSet(f, T) \in Int
<1> DEFINE G == {T \in SUBSET S : SumFunctionOnSet(f, T) \in Int}
<1>1. {} \in G
  BY SumEmpty
<1>2. ASSUME NEW T \in SUBSET S, T # {}, T \ {Pick(T)} \in G
      PROVE  T \in G
  <2>1. IsFiniteSet(T) /\ Pick(T) \in S
    BY <1>2, FS_Subset DEF Pick
  <2> QED BY <1>2, <2>1, SumStep
<1>3. \A T \in SUBSET S : T \in G
  <2> HIDE DEF G
  <2> QED BY <1>1, <1>2, SubsetInduction
<1> QED BY <1>3

\* Any element may be taken out first.
LEMMA SumRemove ==
  ASSUME NEW S, IsFiniteSet(S), NEW f, \A x \in S : f[x] \in Int
  PROVE  \A x \in S : SumFunctionOnSet(f, S) = f[x] + SumFunctionOnSet(f, S \ {x})
<1> DEFINE sum(T) == SumFunctionOnSet(f, T)
           G == {T \in SUBSET S : \A x \in T : sum(T) = f[x] + sum(T \ {x})}
<1>1. \A T \in SUBSET S : IsFiniteSet(T) /\ sum(T) \in Int
  BY FS_Subset, SumInt
<1>2. ASSUME NEW T \in SUBSET S, \A U \in (SUBSET T) \ {T} : U \in G
      PROVE  T \in G
  <2>1. SUFFICES ASSUME NEW x \in T PROVE sum(T) = f[x] + sum(T \ {x})
    OBVIOUS
  <2> DEFINE p == Pick(T)
  <2>2. p \in T /\ sum(T) = f[p] + sum(T \ {p})
    BY <1>1, <2>1, SumStep DEF Pick
  <2> HIDE DEF p, sum
  <2>3. CASE x = p
    BY <2>2, <2>3
  <2>4. CASE x # p
    <3>1. sum(T \ {p}) = f[x] + sum((T \ {p}) \ {x})
      BY <1>2, <2>1, <2>2, <2>4
    <3>2. sum(T \ {x}) = f[p] + sum((T \ {x}) \ {p})
      BY <1>2, <2>1, <2>2, <2>4
    <3>3. (T \ {p}) \ {x} = (T \ {x}) \ {p} /\ (T \ {x}) \ {p} \in SUBSET S
      OBVIOUS
    <3>4. /\ sum((T \ {x}) \ {p}) \in Int /\ f[x] \in Int /\ f[p] \in Int
      BY <1>1, <2>1, <2>2, <3>3
    <3>5. sum(T \ {p}) = f[x] + sum((T \ {x}) \ {p})
      BY <3>1, <3>3, Zenon
    <3>6. \A a, b, c \in Int : a + (b + c) = b + (a + c)
      OBVIOUS
    <3>7. f[p] + sum(T \ {p}) = f[x] + (f[p] + sum((T \ {x}) \ {p}))
      BY <3>4, <3>5, <3>6
    <3> QED BY <2>2, <3>2, <3>7
  <2> QED BY <2>3, <2>4
<1> HIDE DEF G
<1>3. S \in G
  BY <1>2, StrongSubsetInduction
<1> QED BY <1>3 DEF G

\* A sum of naturals is a natural that bounds each of its terms.
LEMMA SumNat ==
  ASSUME NEW S, IsFiniteSet(S), NEW f, \A x \in S : f[x] \in Nat
  PROVE  \A T \in SUBSET S : /\ SumFunctionOnSet(f, T) \in Nat
                             /\ \A x \in T : f[x] <= SumFunctionOnSet(f, T)
<1> DEFINE G == {T \in SUBSET S : /\ SumFunctionOnSet(f, T) \in Nat
                                  /\ \A x \in T : f[x] <= SumFunctionOnSet(f, T)}
<1>1. {} \in G
  BY SumEmpty
<1>2. ASSUME NEW T \in SUBSET S, T # {}, T \ {Pick(T)} \in G
      PROVE  T \in G
  <2>1. IsFiniteSet(T) /\ Pick(T) \in S
    BY <1>2, FS_Subset DEF Pick
  <2>2. SumFunctionOnSet(f, T) = f[Pick(T)] + SumFunctionOnSet(f, T \ {Pick(T)})
    BY <1>2, <2>1, SumStep
  <2>3. /\ f[Pick(T)] \in Nat
        /\ SumFunctionOnSet(f, T \ {Pick(T)}) \in Nat
        /\ SumFunctionOnSet(f, T) \in Nat
    BY <1>2, <2>1, <2>2
  <2>4. ASSUME NEW x \in T
        PROVE  f[x] <= SumFunctionOnSet(f, T)
    <3>1. CASE x = Pick(T)
      BY <2>2, <2>3, <3>1
    <3>2. CASE x # Pick(T)
      <4>1. f[x] \in Nat /\ f[x] <= SumFunctionOnSet(f, T \ {Pick(T)})
        BY <1>2, <3>2
      <4> QED BY <2>2, <2>3, <4>1
    <3> QED BY <3>1, <3>2
  <2> QED BY <2>3, <2>4
<1>3. \A T \in SUBSET S : T \in G
  <2> HIDE DEF G
  <2> QED BY <1>1, <1>2, SubsetInduction
<1> QED BY <1>3

\* Sums are compared term by term.
LEMMA SumMonotone ==
  ASSUME NEW S, IsFiniteSet(S), NEW f, NEW g,
         \A x \in S : f[x] \in Int /\ g[x] \in Int /\ f[x] <= g[x]
  PROVE  SumFunctionOnSet(f, S) <= SumFunctionOnSet(g, S)
<1> DEFINE G == {T \in SUBSET S : SumFunctionOnSet(f, T) <= SumFunctionOnSet(g, T)}
<1>1. {} \in G
  BY SumEmpty
<1>2. ASSUME NEW T \in SUBSET S, T # {}, T \ {Pick(T)} \in G
      PROVE  T \in G
  <2>1. IsFiniteSet(T) /\ Pick(T) \in S
    BY <1>2, FS_Subset DEF Pick
  <2>2. /\ SumFunctionOnSet(f, T) = f[Pick(T)] + SumFunctionOnSet(f, T \ {Pick(T)})
        /\ SumFunctionOnSet(g, T) = g[Pick(T)] + SumFunctionOnSet(g, T \ {Pick(T)})
    BY <1>2, <2>1, SumStep
  <2>3. /\ SumFunctionOnSet(f, T \ {Pick(T)}) \in Int
        /\ SumFunctionOnSet(g, T \ {Pick(T)}) \in Int
    BY SumInt
  <2> QED BY <1>2, <2>1, <2>2, <2>3
<1>3. \A T \in SUBSET S : T \in G
  <2> HIDE DEF G
  <2> QED BY <1>1, <1>2, SubsetInduction
<1> QED BY <1>3

\* The sum of two functions is the sum of their sums.
LEMMA SumAdd ==
  ASSUME NEW S, IsFiniteSet(S), NEW f, NEW g, NEW h,
         \A x \in S : f[x] \in Int /\ g[x] \in Int /\ h[x] = f[x] + g[x]
  PROVE  SumFunctionOnSet(h, S) = SumFunctionOnSet(f, S) + SumFunctionOnSet(g, S)
<1> DEFINE G == {T \in SUBSET S : SumFunctionOnSet(h, T)
                     = SumFunctionOnSet(f, T) + SumFunctionOnSet(g, T)}
<1>1. {} \in G
  BY SumEmpty
<1>2. ASSUME NEW T \in SUBSET S, T # {}, T \ {Pick(T)} \in G
      PROVE  T \in G
  <2>1. IsFiniteSet(T) /\ Pick(T) \in S
    BY <1>2, FS_Subset DEF Pick
  <2>2. /\ SumFunctionOnSet(f, T) = f[Pick(T)] + SumFunctionOnSet(f, T \ {Pick(T)})
        /\ SumFunctionOnSet(g, T) = g[Pick(T)] + SumFunctionOnSet(g, T \ {Pick(T)})
        /\ SumFunctionOnSet(h, T) = h[Pick(T)] + SumFunctionOnSet(h, T \ {Pick(T)})
    BY <1>2, <2>1, SumStep
  <2>3. /\ SumFunctionOnSet(f, T \ {Pick(T)}) \in Int
        /\ SumFunctionOnSet(g, T \ {Pick(T)}) \in Int
    BY SumInt
  <2> QED BY <1>2, <2>1, <2>2, <2>3
<1>3. \A T \in SUBSET S : T \in G
  <2> HIDE DEF G
  <2> QED BY <1>1, <1>2, SubsetInduction
<1> QED BY <1>3

\* Changing one term changes the sum by as much.
LEMMA SumChange ==
  ASSUME NEW S, IsFiniteSet(S), NEW x \in S, NEW f, NEW g,
         \A y \in S : f[y] \in Int /\ g[y] \in Int /\ (y # x => g[y] = f[y])
  PROVE  SumFunctionOnSet(g, S) = SumFunctionOnSet(f, S) + g[x] - f[x]
<1> DEFINE G == {T \in SUBSET S : SumFunctionOnSet(g, T) =
                     SumFunctionOnSet(f, T) + (IF x \in T THEN g[x] - f[x] ELSE 0)}
<1>1. {} \in G
  BY SumEmpty
<1>2. ASSUME NEW T \in SUBSET S, T # {}, T \ {Pick(T)} \in G
      PROVE  T \in G
  <2> DEFINE U == T \ {Pick(T)}
  <2>1. IsFiniteSet(T) /\ Pick(T) \in T
    BY <1>2, FS_Subset DEF Pick
  <2>2. /\ SumFunctionOnSet(f, T) = f[Pick(T)] + SumFunctionOnSet(f, U)
        /\ SumFunctionOnSet(g, T) = g[Pick(T)] + SumFunctionOnSet(g, U)
    BY <1>2, <2>1, SumStep
  <2>3. SumFunctionOnSet(f, U) \in Int /\ SumFunctionOnSet(g, U) \in Int
    BY SumInt
  <2>4. SumFunctionOnSet(g, U)
          = SumFunctionOnSet(f, U) + (IF x \in U THEN g[x] - f[x] ELSE 0)
    BY <1>2
  <2>5. /\ f[x] \in Int /\ g[x] \in Int
        /\ f[Pick(T)] \in Int /\ g[Pick(T)] \in Int
    BY <2>1
  <2>6. CASE x = Pick(T)
    <3>1. x \in T /\ x \notin U
      BY <2>1, <2>6
    <3> HIDE DEF U
    <3> QED BY <2>2, <2>3, <2>4, <2>5, <2>6, <3>1
  <2>7. CASE x # Pick(T)
    <3>1. (x \in T <=> x \in U) /\ g[Pick(T)] = f[Pick(T)]
      BY <2>1, <2>7
    <3> HIDE DEF U
    <3> QED BY <2>2, <2>3, <2>4, <2>5, <3>1
  <2> QED BY <2>6, <2>7
<1>3. \A T \in SUBSET S : T \in G
  <2> HIDE DEF G
  <2> QED BY <1>1, <1>2, SubsetInduction
<1> QED BY <1>3

-----------------------------------------------------------------------------
\* For SumFunction, which sums over the domain: the sum of naturals is a natural
\* that bounds each value.
LEMMA SumFunctionType ==
  ASSUME NEW S, IsFiniteSet(S), NEW f \in [S -> Nat]
  PROVE  /\ SumFunction(f) \in Nat
         /\ \A x \in S : f[x] <= SumFunction(f)
BY SumNat DEF SumFunction

\* Changing f at x changes the sum of f by the difference.
LEMMA SumFunctionExcept ==
  ASSUME NEW S, IsFiniteSet(S), NEW f \in [S -> Int], NEW x \in S, NEW v \in Int
  PROVE  /\ SumFunction(f) \in Int
         /\ SumFunction([f EXCEPT ![x] = v]) = SumFunction(f) + v - f[x]
<1> DEFINE g == [f EXCEPT ![x] = v]
<1>1. DOMAIN f = S /\ DOMAIN g = S /\ g[x] = v
  OBVIOUS
<1>2. \A y \in S : f[y] \in Int /\ g[y] \in Int /\ (y # x => g[y] = f[y])
  OBVIOUS
<1>3. SumFunctionOnSet(f, S) \in Int
  BY <1>2, SumInt
<1>4. SumFunctionOnSet(g, S) = SumFunctionOnSet(f, S) + g[x] - f[x]
  <2> HIDE DEF g
  <2> QED BY <1>2, SumChange
<1> QED BY <1>1, <1>3, <1>4 DEF SumFunction

\* The sum of a pointwise sum.
LEMMA SumFunctionAdd ==
  ASSUME NEW S, IsFiniteSet(S),
         NEW f \in [S -> Int], NEW g \in [S -> Int], NEW h \in [S -> Int],
         \A x \in S : h[x] = f[x] + g[x]
  PROVE  SumFunction(h) = SumFunction(f) + SumFunction(g)
BY SumAdd DEF SumFunction

\* A pointwise smaller function has the smaller sum.
LEMMA SumFunctionMonotone ==
  ASSUME NEW S, IsFiniteSet(S), NEW f \in [S -> Int], NEW g \in [S -> Int],
         \A x \in S : f[x] <= g[x]
  PROVE  SumFunction(f) <= SumFunction(g)
BY SumMonotone DEF SumFunction

\* Two functions that differ at one point only.
LEMMA SumFunctionChange ==
  ASSUME NEW S, IsFiniteSet(S), NEW x \in S,
         NEW f \in [S -> Int], NEW g \in [S -> Int],
         \A y \in S : y # x => g[y] = f[y]
  PROVE  /\ SumFunction(f) \in Int
         /\ SumFunction(g) = SumFunction(f) + g[x] - f[x]
<1>1. \A y \in S : f[y] \in Int /\ g[y] \in Int /\ (y # x => g[y] = f[y])
  OBVIOUS
<1>2. SumFunctionOnSet(f, S) \in Int
  BY <1>1, SumInt
<1>3. SumFunctionOnSet(g, S) = SumFunctionOnSet(f, S) + g[x] - f[x]
  BY <1>1, SumChange
<1> QED BY <1>2, <1>3 DEF SumFunction

\* The sum of nothing but zeros.
LEMMA SumFunctionZero ==
  ASSUME NEW S, IsFiniteSet(S), NEW f \in [S -> Int], \A x \in S : f[x] = 0
  PROVE  SumFunction(f) = 0
<1>1. \A x \in S : f[x] = f[x] + f[x]
  OBVIOUS
<1>2. SumFunction(f) = SumFunction(f) + SumFunction(f)
  BY <1>1, SumFunctionAdd
<1>3. SumFunctionOnSet(f, S) \in Int
  <2>1. \A x \in S : f[x] \in Int
    OBVIOUS
  <2> QED BY <2>1, SumInt
<1>4. SumFunction(f) \in Int
  BY <1>3 DEF SumFunction
<1>5. \A z \in Int : z = z + z => z = 0
  OBVIOUS
<1> QED BY <1>2, <1>4, <1>5, Zenon

\* One more element adds its value.
LEMMA SumFunctionInsert ==
  ASSUME NEW S, IsFiniteSet(S), NEW x, x \notin S, NEW T, T = S \cup {x},
         NEW f \in [S -> Int], NEW g \in [T -> Int], \A y \in S : g[y] = f[y]
  PROVE  SumFunction(g) = SumFunction(f) + g[x]
<1>1. IsFiniteSet(T) /\ T \ {x} = S /\ x \in T
  BY FS_AddElement
<1>2. SumFunctionOnSet(g, T) = g[x] + SumFunctionOnSet(g, S)
  BY <1>1, SumRemove
<1>3. /\ SumFunctionOnSet(g, S) \in Int /\ SumFunctionOnSet(f, S) \in Int
      /\ SumFunctionOnSet(g, S) <= SumFunctionOnSet(f, S)
      /\ SumFunctionOnSet(f, S) <= SumFunctionOnSet(g, S)
  <2>1. \A y \in S : f[y] \in Int /\ g[y] \in Int /\ g[y] <= f[y] /\ f[y] <= g[y]
    OBVIOUS
  <2> QED BY <2>1, SumInt, SumMonotone
<1>4. g[x] \in Int
  BY <1>1
<1>5. SumFunction(g) = SumFunctionOnSet(g, T) /\ SumFunction(f) = SumFunctionOnSet(f, S)
  BY DEF SumFunction
<1> QED BY <1>2, <1>3, <1>4, <1>5

-----------------------------------------------------------------------------
(***************************************************************************)
(* Amounts.                                                                *)
(***************************************************************************)
\* The denominator is a positive number.
LEMMA PpmPositive == PPM \in Nat /\ PPM > 0
BY PpmAssumption

\* A rate applied to an amount is an amount.
LEMMA PpmType ==
  ASSUME NEW x \in Nat, NEW rate \in Nat
  PROVE  ppm_of(x, rate) \in Nat
<1>1. x * rate \in Nat
  OBVIOUS
<1> QED BY <1>1, PpmPositive DEF ppm_of

\* The share of the stake that Standing saves lies between nothing and all.
LEMMA DiscountType ==
  ASSUME NEW sp \in Nat
  PROVE  discount_reduction_ppm(sp) \in 0..PPM
<1>1. params.sp_ref \in Int /\ params.discount_max_ppm \in 0..PPM
  BY ParamsAssumption DEF Params
<1>2. CASE params.sp_ref <= 0
  BY <1>2, PpmPositive DEF discount_reduction_ppm
<1>3. CASE params.sp_ref > 0
  <2>1. sp * PPM \in Nat
    BY PpmPositive
  <2>2. (sp * PPM) \div params.sp_ref \in Nat
    BY <1>1, <1>3, <2>1
  <2> QED BY <1>1, <1>3, <2>2, PpmPositive DEF discount_reduction_ppm, Least
<1> QED BY <1>1, <1>2, <1>3

\* Every amount computed from the parameters is a natural number.
LEMMA AmountType ==
  ASSUME NEW x \in Nat
  PROVE  /\ fee(x) \in Nat /\ issuance(x) \in Nat /\ standing_accrual(x) \in Nat
         /\ fine(x) \in Nat /\ challenger_reward(x) \in Nat /\ decay(x) \in Nat
         /\ \A sp \in Nat : claim_stake(x, sp) \in Nat
<1>1. /\ params.fee_ppm \in Nat /\ params.issuance_rate_ppm \in Nat
      /\ params.sp_rate_ppm \in Nat /\ params.efficiency_mult_ppm \in Nat
      /\ params.fine_mult_ppm \in Nat /\ params.challenger_reward_ppm \in Nat
      /\ params.stake_base_ppm \in Nat /\ PPM - params.decay_rate_ppm \in Nat
  BY ParamsAssumption, PpmPositive DEF Params
<1>2. ASSUME NEW sp \in Nat PROVE claim_stake(x, sp) \in Nat
  <2>1. PPM - discount_reduction_ppm(sp) \in Nat
    BY DiscountType, PpmPositive
  <2>2. stake_base(x) \in Nat
    BY <1>1, PpmType DEF stake_base
  <2> QED BY <2>1, <2>2, PpmType DEF claim_stake
<1> QED BY <1>1, <1>2, PpmType
         DEF fee, issuance, standing_accrual, fine, challenger_reward, decay

\* What is credited and debited stays a map of natural numbers.
LEMMA CreditDebitType ==
  ASSUME NEW f \in [Identity -> Nat], NEW a \in Identity, NEW n \in Nat
  PROVE  /\ Credit(f, a, n) \in [Identity -> Nat]
         /\ n <= f[a] => Debit(f, a, n) \in [Identity -> Nat]
BY DEF Credit, Debit

\* The body of a task.
LEMMA BodyType ==
  ASSUME NEW t \in Task
  PROVE  /\ Body[t].max_ucu \in Nat /\ Body[t].benchmark \in Benchmark
         /\ need(t) \in Nat /\ fee(Body[t].max_ucu) \in Nat
<1>1. Body[t] \in TaskBody
  BY BodyAssumption
<1>2. Body[t].max_ucu \in Nat /\ Body[t].benchmark \in Benchmark
  BY <1>1 DEF TaskBody
<1>3. fee(Body[t].max_ucu) \in Nat
  BY <1>2, AmountType
<1> QED BY <1>2, <1>3 DEF need

-----------------------------------------------------------------------------
(***************************************************************************)
(* The state, field by field.                                              *)
(***************************************************************************)
\* The fields of a state have their types.
LEMMA FieldType ==
  ASSUME NEW s \in State
  PROVE  /\ s.balance \in [Identity -> Nat] /\ s.escrowed \in [Identity -> Nat]
         /\ s.bonded \in [Identity -> Nat] /\ s.sp \in [Identity -> Nat]
         /\ s.strikes \in [Identity -> Nat] /\ s.nonces \in [Identity -> Nat]
         /\ s.tasks \in [Task -> Submission \cup {None}]
         /\ s.proofs \in [Task -> ComputeProof \cup {None}]
         /\ s.receipts \in [Task -> Receipt \cup {None}]
         /\ s.q_ledger \in [Task -> QLedgerEntry \cup {None}]
         /\ s.pending_challenges \in [Task -> ChallengeRecord \cup {None}]
         /\ s.slashed \in SUBSET Task /\ s.released \in SUBSET Task
         /\ s.minted \in Nat /\ s.burned \in Nat /\ s.fee_pool \in Nat
         /\ s.epoch \in Nat
BY DEF State

\* A state stays one when a field is written.
LEMMA Update ==
  ASSUME NEW s \in State
  PROVE  /\ \A f \in [Identity -> Nat] :
              /\ [s EXCEPT !.balance = f] \in State /\ [s EXCEPT !.bonded = f] \in State
              /\ [s EXCEPT !.sp = f] \in State /\ [s EXCEPT !.strikes = f] \in State
         /\ \A f \in [Task -> Submission \cup {None}] : [s EXCEPT !.tasks = f] \in State
         /\ \A T \in SUBSET Task : /\ [s EXCEPT !.released = T] \in State
                                  /\ [s EXCEPT !.slashed = T] \in State
         /\ \A n \in Nat : /\ [s EXCEPT !.fee_pool = n] \in State
                           /\ [s EXCEPT !.burned = n] \in State
                           /\ [s EXCEPT !.epoch = n] \in State
BY DEF State

\* submit_task locks what the balance covers.
LEMMA SubmitTaskType ==
  ASSUME NEW s \in State, NEW a \in Identity, NEW t \in Task, CanSubmitTask(s, a, t)
  PROVE  submit_task(s, a, t) \in State
<1> DEFINE sub == [ status      |-> "Submitted",
                    requester   |-> a,
                    provider    |-> None,
                    fee         |-> fee(Body[t].max_ucu),
                    claim_stake |-> 0,
                    ucu_count   |-> 0 ]
<1>1. need(t) \in Nat /\ need(t) <= s.balance[a]
  BY BodyType, FieldType DEF CanSubmitTask
<1>2. /\ Debit(s.balance, a, need(t)) \in [Identity -> Nat]
      /\ Credit(s.escrowed, a, need(t)) \in [Identity -> Nat]
  BY <1>1, CreditDebitType, FieldType
<1>3. sub \in Submission
  BY BodyType DEF Submission, TaskStatus
<1>4. [s.tasks EXCEPT ![t] = sub] \in [Task -> Submission \cup {None}]
  BY <1>3, FieldType
<1> QED BY <1>2, <1>4 DEF State, submit_task

\* claim_task locks a stake that the balance covers.
LEMMA ClaimTaskType ==
  ASSUME NEW s \in State, NEW a \in Identity, NEW t \in Task, CanClaimTask(s, a, t)
  PROVE  claim_task(s, a, t) \in State
<1> DEFINE sub == [s.tasks[t] EXCEPT !.provider    = a,
                                     !.status      = "Executing",
                                     !.claim_stake = stake(s, a, t)]
<1>1. stake(s, a, t) \in Nat /\ stake(s, a, t) <= s.balance[a]
  BY BodyType, AmountType, FieldType DEF CanClaimTask, stake
<1>2. /\ Debit(s.balance, a, stake(s, a, t)) \in [Identity -> Nat]
      /\ Credit(s.bonded, a, stake(s, a, t)) \in [Identity -> Nat]
  BY <1>1, CreditDebitType, FieldType
<1>3. sub \in Submission
  <2>1. s.tasks[t] \in Submission
    BY FieldType DEF CanClaimTask, status
  <2> QED BY <1>1, <2>1 DEF Submission, TaskStatus
<1>4. [s.tasks EXCEPT ![t] = sub] \in [Task -> Submission \cup {None}]
  BY <1>3, FieldType
<1> QED BY <1>2, <1>4 DEF State, claim_task

\* open_challenge locks a bond that the balance covers.
LEMMA BondType ==
  ASSUME NEW s \in State, NEW a \in Identity, NEW t \in Task, NEW bond \in Nat,
         CanOpenChallenge(s, a, t, bond)
  PROVE  open_challenge(s, a, t, bond) \in State
<1>1. bond \in Nat /\ bond <= s.balance[a]
  BY FieldType DEF CanOpenChallenge
<1>2. /\ Debit(s.balance, a, bond) \in [Identity -> Nat]
      /\ Credit(s.bonded, a, bond) \in [Identity -> Nat]
  BY <1>1, CreditDebitType, FieldType
<1>3. [s.pending_challenges EXCEPT ![t] = [challenger |-> a, bond |-> bond]]
        \in [Task -> ChallengeRecord \cup {None}]
  BY <1>1, FieldType DEF ChallengeRecord
<1> QED BY <1>2, <1>3 DEF State, open_challenge

\* In particular for the bonds that a transaction may name.
LEMMA OpenChallengeType ==
  ASSUME NEW s \in State, NEW a \in Identity, NEW t \in Task, NEW bond \in Ucu,
         CanOpenChallenge(s, a, t, bond)
  PROVE  open_challenge(s, a, t, bond) \in State
BY BondType, UcuAssumption

\* transfer, to another account or to oneself.
LEMMA MoveType ==
  ASSUME NEW s \in State, NEW a \in Identity, NEW to \in Identity, NEW amount \in Nat,
         CanTransfer(s, a, amount)
  PROVE  transfer(s, a, to, amount) \in State
<1>1. amount \in Nat /\ amount <= s.balance[a]
  BY FieldType DEF CanTransfer
<1>2. Credit(Debit(s.balance, a, amount), to, amount) \in [Identity -> Nat]
  BY <1>1, CreditDebitType, FieldType
<1> QED BY <1>2 DEF State, transfer

\* In particular for the amounts that a transaction may name.
LEMMA TransferType ==
  ASSUME NEW s \in State, NEW a \in Identity, NEW to \in Identity, NEW amount \in Ucu,
         CanTransfer(s, a, amount)
  PROVE  transfer(s, a, to, amount) \in State
BY MoveType, UcuAssumption

\* The nonces.
LEMMA BumpNonceType ==
  ASSUME NEW s \in State, NEW a \in Identity
  PROVE  bump_nonce(s, a) \in State
<1>1. Credit(s.nonces, a, 1) \in [Identity -> Nat]
  BY CreditDebitType, FieldType
<1> QED BY <1>1 DEF State, bump_nonce

\* The records of a task that is there.
LEMMA SubmissionType ==
  ASSUME NEW s \in State, NEW t \in Task, s.tasks[t] # None
  PROVE  /\ s.tasks[t] \in Submission
         /\ s.tasks[t].status \in TaskStatus
         /\ s.tasks[t].requester \in Identity
         /\ s.tasks[t].provider \in Identity \cup {None}
         /\ s.tasks[t].fee \in Nat /\ s.tasks[t].claim_stake \in Nat
         /\ s.tasks[t].ucu_count \in Nat
<1>1. s.tasks[t] \in Submission
  BY FieldType
<1> QED BY <1>1 DEF Submission

\* The records of a task that is settled.
LEMMA ReceiptType ==
  ASSUME NEW s \in State, NEW t \in Task, s.receipts[t] # None
  PROVE  /\ s.receipts[t] \in Receipt
         /\ s.receipts[t].paid_to_provider \in Nat /\ s.receipts[t].work_issuance \in Nat
         /\ s.receipts[t].clawback_until \in Nat
<1>1. s.receipts[t] \in Receipt
  BY FieldType
<1> QED BY <1>1 DEF Receipt

\* A pending challenge.
LEMMA PendingType ==
  ASSUME NEW s \in State, NEW t \in Task, s.pending_challenges[t] # None
  PROVE  /\ s.pending_challenges[t].challenger \in Identity
         /\ s.pending_challenges[t].bond \in Nat
<1>1. s.pending_challenges[t] \in ChallengeRecord
  BY FieldType
<1> QED BY <1>1 DEF ChallengeRecord

\* The payment drains an escrow that holds the ceiling and the fee.
LEMMA PayType ==
  ASSUME NEW s \in State, NEW t \in Task, NEW provider \in Identity, NEW u \in Nat,
         s.tasks[t] # None,
         s.tasks[t].fee = fee(Body[t].max_ucu),
         need(t) <= s.escrowed[s.tasks[t].requester],
         u <= Body[t].max_ucu
  PROVE  pay(s, t, provider, u) \in State
<1> DEFINE max_ucu   == Body[t].max_ucu
           requester == s.tasks[t].requester
<1>1. issuance(u) \in Nat /\ standing_accrual(u) \in Nat
  BY AmountType
<1>2. requester \in Identity /\ s.tasks[t].fee \in Nat
  BY SubmissionType
<1>3. max_ucu - u \in Nat /\ max_ucu + s.tasks[t].fee = need(t) /\ need(t) \in Nat
  BY BodyType DEF need
<1>4. Debit(s.escrowed, requester, max_ucu + s.tasks[t].fee) \in [Identity -> Nat]
  BY <1>2, <1>3, CreditDebitType, FieldType
<1>5. Credit(Credit(s.balance, requester, max_ucu - u), provider, u + issuance(u))
        \in [Identity -> Nat]
  <2>1. Credit(s.balance, requester, max_ucu - u) \in [Identity -> Nat]
    BY <1>2, <1>3, CreditDebitType, FieldType
  <2> QED BY <1>1, <2>1, CreditDebitType
<1>6. Credit(s.sp, provider, standing_accrual(u)) \in [Identity -> Nat]
  BY <1>1, CreditDebitType, FieldType
<1>7. s.fee_pool + s.tasks[t].fee \in Nat /\ s.minted + issuance(u) \in Nat
  BY <1>1, <1>2, FieldType
<1> QED BY <1>4, <1>5, <1>6, <1>7 DEF State, pay

\* The settlement writes records of the right type.
LEMMA SettleType ==
  ASSUME NEW s \in State, NEW t \in Task, NEW proof \in ComputeProof,
         s.tasks[t] # None,
         s.tasks[t].fee = fee(Body[t].max_ucu),
         need(t) <= s.escrowed[s.tasks[t].requester],
         proof.ucu_count <= Body[t].max_ucu
  PROVE  settle(s, t, proof) \in State
<1> DEFINE u    == proof.ucu_count
           paid == pay(s, t, proof.provider, u)
           q    == [ucu |-> u, benchmark |-> Body[t].benchmark, q |-> None]
           sub  == [s.tasks[t] EXCEPT !.status = "Settled"]
<1>1. u \in Nat /\ proof.provider \in Identity
  BY UcuAssumption DEF ComputeProof
<1>2. paid \in State
  BY <1>1, PayType
<1>3. receipt(s, t, u) \in Receipt
  <2>1. s.epoch + params.clawback_epochs \in Nat
    BY ParamsAssumption, FieldType DEF Params
  <2> QED BY <1>1, <2>1, AmountType, FieldType, SubmissionType DEF Receipt, receipt
<1>4. q \in QLedgerEntry
  BY <1>1, BodyType DEF QLedgerEntry
<1>5. sub \in Submission
  BY FieldType DEF Submission, TaskStatus
<1>6. paid.tasks = s.tasks
  BY DEF pay, State
<1> HIDE DEF u, paid, q, sub
<1>7. /\ [paid.receipts EXCEPT ![t] = receipt(s, t, u)] \in [Task -> Receipt \cup {None}]
      /\ [paid.tasks EXCEPT ![t] = sub] \in [Task -> Submission \cup {None}]
      /\ [paid.q_ledger EXCEPT ![t] = q] \in [Task -> QLedgerEntry \cup {None}]
  BY <1>2, <1>3, <1>4, <1>5, FieldType
<1>8. [paid EXCEPT !.receipts[t] = receipt(s, t, u),
                   !.tasks[t]    = sub,
                   !.q_ledger[t] = q] \in State
  BY <1>2, <1>7 DEF State
<1> QED BY <1>2, <1>6, <1>8, FieldType DEF settle, u, paid, q, sub

\* submit_proof settles, out of a funded escrow.
LEMMA SubmitProofType ==
  ASSUME NEW s \in State, NEW a \in Identity, NEW t \in Task, NEW proof \in ComputeProof,
         CanSubmitProof(s, a, t, proof),
         s.tasks[t].fee = fee(Body[t].max_ucu),
         need(t) <= s.escrowed[s.tasks[t].requester]
  PROVE  submit_proof(s, t, proof) \in State
<1> DEFINE sub == [s.tasks[t] EXCEPT !.ucu_count = proof.ucu_count]
           mid == [s EXCEPT !.proofs[t] = proof, !.tasks[t] = sub]
<1>1. s.tasks[t] \in Submission
  BY FieldType DEF CanSubmitProof, status
<1>2. sub \in Submission
  BY <1>1, UcuAssumption DEF Submission, ComputeProof
<1>3. mid \in State
  <2>1. /\ [s.proofs EXCEPT ![t] = proof] \in [Task -> ComputeProof \cup {None}]
        /\ [s.tasks EXCEPT ![t] = sub] \in [Task -> Submission \cup {None}]
    BY <1>2, FieldType
  <2> HIDE DEF sub
  <2> QED BY <2>1 DEF State
<1>4. mid.tasks[t] = sub /\ mid.escrowed = s.escrowed
  BY FieldType DEF State
<1>5. /\ sub # None /\ sub.fee = s.tasks[t].fee
      /\ sub.requester = s.tasks[t].requester
  BY <1>1, <1>2, NoneAssumption DEF Submission
<1>6. submit_proof(s, t, proof) = settle(mid, t, proof)
  BY FieldType DEF submit_proof, State
<1> HIDE DEF mid, sub
<1> QED BY <1>3, <1>4, <1>5, <1>6, SettleType DEF CanSubmitProof

\* A task with a receipt was submitted.
Submitted(s) == \A t \in Task : s.receipts[t] # None => s.tasks[t] # None

\* What an epoch frees is a natural number that the account has bonded.
LEMMA FreedType ==
  ASSUME NEW s \in State, Submitted(s), NEW epoch, NEW a \in Identity
  PROVE  freed(s, epoch, a) \in Nat /\ freed(s, epoch, a) <= s.bonded[a]
<1> DEFINE f == [t \in Task |->
                   IF t \in matured(s, epoch) /\ s.tasks[t].provider = a
                   THEN s.tasks[t].claim_stake ELSE 0]
<1>1. f \in [Task -> Nat]
  <2>1. ASSUME NEW t \in Task, t \in matured(s, epoch)
        PROVE  s.tasks[t].claim_stake \in Nat
    BY <2>1, SubmissionType DEF matured, Submitted
  <2> QED BY <2>1
<1>2. SumFunction(f) \in Nat
  <2> HIDE DEF f
  <2> QED BY <1>1, TaskAssumption, SumFunctionType
<1> QED BY <1>2, FieldType DEF freed, matured_stake, Least

\* The epoch boundary.
LEMMA AdvanceEpochType ==
  ASSUME NEW s \in State, Submitted(s)
  PROVE  advance_epoch(s) \in State
<1> DEFINE epoch    == s.epoch + 1
           sp       == [a \in Identity |-> decay(s.sp[a])]
           bonded   == [a \in Identity |-> s.bonded[a] - freed(s, epoch, a)]
           balance  == [a \in Identity |-> s.balance[a] + freed(s, epoch, a)]
           released == s.released \cup matured(s, epoch)
<1>1. /\ sp \in [Identity -> Nat] /\ bonded \in [Identity -> Nat]
      /\ balance \in [Identity -> Nat]
  <2>1. ASSUME NEW a \in Identity
        PROVE  /\ decay(s.sp[a]) \in Nat
               /\ s.bonded[a] - freed(s, epoch, a) \in Nat
               /\ s.balance[a] + freed(s, epoch, a) \in Nat
    <3>1. s.sp[a] \in Nat /\ s.bonded[a] \in Nat /\ s.balance[a] \in Nat
      BY FieldType
    <3>2. freed(s, epoch, a) \in Nat /\ freed(s, epoch, a) <= s.bonded[a]
      BY FreedType
    <3>3. decay(s.sp[a]) \in Nat
      BY <3>1, AmountType
    <3> HIDE DEF epoch
    <3> QED BY <3>1, <3>2, <3>3
  <2> QED BY <2>1
<1>2. released \in SUBSET Task /\ epoch \in Nat
  BY FieldType DEF matured
<1>3. advance_epoch(s) = [s EXCEPT !.epoch = epoch, !.sp = sp, !.bonded = bonded,
                                   !.balance = balance, !.released = released]
  BY DEF advance_epoch
<1> HIDE DEF epoch, sp, bonded, balance, released
<1> DEFINE s1 == [s EXCEPT !.epoch = epoch]
           s2 == [s1 EXCEPT !.sp = sp]
           s3 == [s2 EXCEPT !.bonded = bonded]
           s4 == [s3 EXCEPT !.balance = balance]
           s5 == [s4 EXCEPT !.released = released]
<1>4. s1 \in State
  BY <1>2, Update
<1>5. s2 \in State
  <2> HIDE DEF s1
  <2> QED BY <1>1, <1>4, Update
<1>6. s3 \in State
  <2> HIDE DEF s2
  <2> QED BY <1>1, <1>5, Update
<1>7. s4 \in State
  <2> HIDE DEF s3
  <2> QED BY <1>1, <1>6, Update
<1>8. s5 \in State
  <2> HIDE DEF s4
  <2> QED BY <1>2, <1>7, Update
<1> QED BY <1>3, <1>8

\* The smaller of two natural numbers.
LEMMA LeastType ==
  ASSUME NEW x \in Nat, NEW y \in Nat
  PROVE  Least(x, y) \in Nat /\ Least(x, y) <= x /\ Least(x, y) <= y
BY DEF Least

\* The penalties of a fraud, whoever is rewarded: recovered from the bond for the
\* requester, burn_w burned, and fine_avail fined, of which reward is handed on.
\* They take no more than there is.
Penalties(s, t, reward_to, recovered, burn_w, fine_avail, reward) ==
  LET provider == s.tasks[t].provider
      repaid   == Credit(s.balance, s.tasks[t].requester, recovered)
      punished == Debit(repaid, provider, burn_w)
  IN /\ recovered + fine_avail <= s.bonded[provider]
     /\ burn_w <= repaid[provider]
     /\ reward <= fine_avail
     /\ take_fraud_penalties(s, t, reward_to) =
          [s EXCEPT
             !.bonded   = Debit(s.bonded, provider, recovered + fine_avail),
             !.balance  = IF reward_to = None THEN punished
                          ELSE Credit(punished, reward_to, reward),
             !.fee_pool = IF reward_to = None THEN s.fee_pool + reward
                          ELSE s.fee_pool,
             !.burned   = s.burned + burn_w + (fine_avail - reward)]

\* take_fraud_penalties takes such amounts.
LEMMA FraudPenaltiesAre ==
  ASSUME NEW s \in State, NEW t \in Task, NEW reward_to \in Identity \cup {None},
         s.tasks[t] # None, s.receipts[t] # None, s.tasks[t].provider # None
  PROVE  \E recovered, burn_w, fine_avail, reward \in Nat :
           Penalties(s, t, reward_to, recovered, burn_w, fine_avail, reward)
<1> DEFINE provider   == s.tasks[t].provider
           requester  == s.tasks[t].requester
           p          == s.receipts[t].paid_to_provider
           recovered  == Least(p, s.bonded[provider])
           repaid     == Credit(s.balance, requester, recovered)
           burn_w     == Least(s.receipts[t].work_issuance, repaid[provider])
           fine_avail == Least(fine(p), s.bonded[provider] - recovered)
           reward     == Least(challenger_reward(fine(p)), fine_avail)
<1>1. /\ provider \in Identity /\ requester \in Identity
      /\ p \in Nat /\ s.receipts[t].work_issuance \in Nat
      /\ fine(p) \in Nat /\ challenger_reward(fine(p)) \in Nat
  BY SubmissionType, ReceiptType, AmountType
<1>2. s.bonded[provider] \in Nat /\ s.balance \in [Identity -> Nat]
  BY <1>1, FieldType
<1> HIDE DEF provider, requester, p
<1>3. recovered \in Nat /\ recovered <= s.bonded[provider]
  BY <1>1, <1>2, LeastType
<1>4. repaid \in [Identity -> Nat]
  BY <1>1, <1>2, <1>3, CreditDebitType
<1>5. burn_w \in Nat /\ burn_w <= repaid[provider]
  <2>1. repaid[provider] \in Nat
    BY <1>1, <1>4
  <2> QED BY <1>1, <2>1, LeastType
<1>6. fine_avail \in Nat /\ fine_avail <= s.bonded[provider] - recovered
  <2>1. s.bonded[provider] - recovered \in Nat
    BY <1>2, <1>3
  <2> QED BY <1>1, <2>1, LeastType
<1>7. reward \in Nat /\ reward <= fine_avail
  BY <1>1, <1>6, LeastType
<1>8. take_fraud_penalties(s, t, reward_to) =
        [s EXCEPT
           !.bonded   = Debit(s.bonded, provider, recovered + fine_avail),
           !.balance  = IF reward_to = None THEN Debit(repaid, provider, burn_w)
                        ELSE Credit(Debit(repaid, provider, burn_w), reward_to, reward),
           !.fee_pool = IF reward_to = None THEN s.fee_pool + reward ELSE s.fee_pool,
           !.burned   = s.burned + burn_w + (fine_avail - reward)]
  BY DEF take_fraud_penalties, provider, requester, p
<1>9. recovered + fine_avail <= s.bonded[provider]
  <2> HIDE DEF recovered, fine_avail
  <2> QED BY <1>2, <1>3, <1>6
<1>10. repaid = Credit(s.balance, s.tasks[t].requester, recovered)
  BY DEF requester
<1>11. provider = s.tasks[t].provider
  BY DEF provider
<1> HIDE DEF recovered, repaid, burn_w, fine_avail, reward
<1>12. Penalties(s, t, reward_to, recovered, burn_w, fine_avail, reward)
  BY <1>5, <1>7, <1>8, <1>9, <1>10, <1>11 DEF Penalties
<1> QED BY <1>3, <1>5, <1>6, <1>7, <1>12

\* So the amounts stay natural numbers.
LEMMA FraudPenaltiesType ==
  ASSUME NEW s \in State, NEW t \in Task, NEW reward_to \in Identity \cup {None},
         s.tasks[t] # None, s.receipts[t] # None, s.tasks[t].provider # None
  PROVE  take_fraud_penalties(s, t, reward_to) \in State
<1> DEFINE provider == s.tasks[t].provider
<1>1. PICK recovered \in Nat, burn_w \in Nat, fine_avail \in Nat, reward \in Nat :
        Penalties(s, t, reward_to, recovered, burn_w, fine_avail, reward)
  BY FraudPenaltiesAre
<1> DEFINE repaid   == Credit(s.balance, s.tasks[t].requester, recovered)
           punished == Debit(repaid, provider, burn_w)
           bonded   == Debit(s.bonded, provider, recovered + fine_avail)
           balance  == IF reward_to = None THEN punished
                       ELSE Credit(punished, reward_to, reward)
           fee_pool == IF reward_to = None THEN s.fee_pool + reward ELSE s.fee_pool
           burned   == s.burned + burn_w + (fine_avail - reward)
<1>2. provider \in Identity /\ s.tasks[t].requester \in Identity
  BY SubmissionType
<1>3. punished \in [Identity -> Nat]
  <2>1. repaid \in [Identity -> Nat]
    BY <1>2, CreditDebitType, FieldType
  <2>2. burn_w <= repaid[provider]
    BY <1>1 DEF Penalties
  <2> HIDE DEF repaid
  <2> QED BY <1>2, <2>1, <2>2, CreditDebitType
<1>4. bonded \in [Identity -> Nat]
  <2>1. recovered + fine_avail \in Nat /\ recovered + fine_avail <= s.bonded[provider]
    BY <1>1 DEF Penalties
  <2> QED BY <1>2, <2>1, CreditDebitType, FieldType
<1>5. balance \in [Identity -> Nat]
  <2> HIDE DEF punished
  <2> QED BY <1>3, CreditDebitType
<1>6. fee_pool \in Nat /\ burned \in Nat
  BY <1>1, FieldType DEF Penalties
<1>7. take_fraud_penalties(s, t, reward_to) =
        [s EXCEPT !.bonded = bonded, !.balance = balance,
                  !.fee_pool = fee_pool, !.burned = burned]
  BY <1>1 DEF Penalties
<1> HIDE DEF bonded, balance, fee_pool, burned
<1> DEFINE s1 == [s EXCEPT !.bonded = bonded]
           s2 == [s1 EXCEPT !.balance = balance]
           s3 == [s2 EXCEPT !.fee_pool = fee_pool]
           s4 == [s3 EXCEPT !.burned = burned]
<1>8. s1 \in State
  BY <1>4, Update
<1>9. s2 \in State
  <2> HIDE DEF s1
  <2> QED BY <1>5, <1>8, Update
<1>10. s3 \in State
  <2> HIDE DEF s2
  <2> QED BY <1>6, <1>9, Update
<1>11. s4 \in State
  <2> HIDE DEF s3
  <2> QED BY <1>6, <1>10, Update
<1> QED BY <1>7, <1>11

\* The whole of resolve_fraud.
LEMMA PenaliseType ==
  ASSUME NEW s \in State, NEW t \in Task, NEW reward_to \in Identity \cup {None},
         s.tasks[t] # None, s.receipts[t] # None, s.tasks[t].provider # None
  PROVE  penalise(s, t, reward_to) \in State
<1> DEFINE provider == s.tasks[t].provider
           mid      == take_fraud_penalties(s, t, reward_to)
           sub      == [s.tasks[t] EXCEPT !.status = "Failed"]
<1>1. mid \in State
  BY FraudPenaltiesType
<1>2. /\ mid.tasks = s.tasks /\ mid.sp = s.sp /\ mid.strikes = s.strikes
      /\ mid.slashed = s.slashed
  BY DEF take_fraud_penalties, State
<1>3. provider \in Identity /\ sub \in Submission
  BY SubmissionType DEF Submission, TaskStatus
<1>4. penalise(s, t, reward_to) =
        [mid EXCEPT !.sp = [mid.sp EXCEPT ![provider] = 0],
                    !.strikes = Credit(mid.strikes, provider, 1),
                    !.slashed = mid.slashed \cup {t},
                    !.tasks = [mid.tasks EXCEPT ![t] = sub]]
  <2> HIDE DEF mid
  <2> QED BY <1>1, <1>2 DEF penalise, State, mid
<1> HIDE DEF provider, mid, sub
<1>5. /\ [mid.sp EXCEPT ![provider] = 0] \in [Identity -> Nat]
      /\ Credit(mid.strikes, provider, 1) \in [Identity -> Nat]
      /\ mid.slashed \cup {t} \in SUBSET Task
      /\ [mid.tasks EXCEPT ![t] = sub] \in [Task -> Submission \cup {None}]
  BY <1>1, <1>3, CreditDebitType, FieldType
<1> DEFINE sp      == [mid.sp EXCEPT ![provider] = 0]
           strikes == Credit(mid.strikes, provider, 1)
           slashed == mid.slashed \cup {t}
           tasks   == [mid.tasks EXCEPT ![t] = sub]
           s1 == [mid EXCEPT !.sp = sp]
           s2 == [s1 EXCEPT !.strikes = strikes]
           s3 == [s2 EXCEPT !.slashed = slashed]
           s4 == [s3 EXCEPT !.tasks = tasks]
<1>6. s1 \in State
  BY <1>1, <1>5, Update
<1>7. s2 \in State
  <2> HIDE DEF s1, strikes
  <2> QED BY <1>5, <1>6, Update DEF strikes
<1>8. s3 \in State
  <2> HIDE DEF s2, slashed
  <2> QED BY <1>5, <1>7, Update DEF slashed
<1>9. s4 \in State
  <2> HIDE DEF s3, tasks
  <2> QED BY <1>5, <1>8, Update DEF tasks
<1> QED BY <1>4, <1>9

\* resolve_fraud, which does nothing when there is no fraud to punish.
LEMMA ResolveFraudType ==
  ASSUME NEW s \in State, Submitted(s), NEW t \in Task,
         NEW reward_to \in Identity \cup {None}
  PROVE  resolve_fraud(s, t, reward_to) \in State
BY PenaliseType DEF resolve_fraud, CanResolveFraud, Submitted

\* The state in which a challenge is closed and the fraud, if any, punished.
closed(s, t) == [s EXCEPT !.pending_challenges[t] = None]

judged(s, t, fraud) ==
  IF fraud THEN resolve_fraud(closed(s, t), t, s.pending_challenges[t].challenger)
  ELSE closed(s, t)

\* What the challenger gets back, or loses.
returned(s, t, fraud) ==
  Least(s.pending_challenges[t].bond,
        judged(s, t, fraud).bonded[s.pending_challenges[t].challenger])

\* close_challenge in those terms.
LEMMA CloseChallengeIs ==
  ASSUME NEW s, NEW t, NEW fraud
  PROVE  close_challenge(s, t, fraud) =
    [judged(s, t, fraud) EXCEPT
       !.bonded  = Debit(@, s.pending_challenges[t].challenger, returned(s, t, fraud)),
       !.balance = IF fraud THEN Credit(@, s.pending_challenges[t].challenger,
                                        returned(s, t, fraud)) ELSE @,
       !.burned  = IF fraud THEN @ ELSE @ + returned(s, t, fraud)]
BY DEF close_challenge, judged, closed, returned

\* Closing a challenge only removes it.
LEMMA ClosedType ==
  ASSUME NEW s \in State, NEW t \in Task
  PROVE  /\ closed(s, t) \in State
         /\ closed(s, t).receipts = s.receipts /\ closed(s, t).tasks = s.tasks
         /\ Submitted(s) => Submitted(closed(s, t))
<1>1. [s.pending_challenges EXCEPT ![t] = None] \in [Task -> ChallengeRecord \cup {None}]
  BY FieldType
<1> QED BY <1>1 DEF closed, State, Submitted

\* The state after the penalties.
LEMMA JudgedType ==
  ASSUME NEW s \in State, Submitted(s), NEW t \in Task, NEW fraud \in BOOLEAN,
         s.pending_challenges[t] # None
  PROVE  /\ judged(s, t, fraud) \in State
         /\ returned(s, t, fraud) \in Nat
         /\ returned(s, t, fraud)
              <= judged(s, t, fraud).bonded[s.pending_challenges[t].challenger]
<1> DEFINE ch == s.pending_challenges[t].challenger
<1>1. ch \in Identity /\ s.pending_challenges[t].bond \in Nat
  BY PendingType
<1>2. judged(s, t, fraud) \in State
  BY <1>1, ClosedType, ResolveFraudType DEF judged
<1>3. judged(s, t, fraud).bonded[ch] \in Nat
  BY <1>1, <1>2, FieldType
<1> QED BY <1>1, <1>2, <1>3, LeastType DEF returned

\* Closing a challenge returns or burns no more than is still bonded.
LEMMA CloseChallengeType ==
  ASSUME NEW s \in State, Submitted(s), NEW t \in Task, NEW fraud \in BOOLEAN,
         s.pending_challenges[t] # None
  PROVE  close_challenge(s, t, fraud) \in State
<1> DEFINE ch == s.pending_challenges[t].challenger
           j  == judged(s, t, fraud)
           b  == returned(s, t, fraud)
           bonded  == Debit(j.bonded, ch, b)
           balance == IF fraud THEN Credit(j.balance, ch, b) ELSE j.balance
           burned  == IF fraud THEN j.burned ELSE j.burned + b
<1>1. ch \in Identity /\ j \in State /\ b \in Nat /\ b <= j.bonded[ch]
  BY JudgedType, PendingType
<1>2. close_challenge(s, t, fraud) =
        [j EXCEPT !.bonded = bonded, !.balance = balance, !.burned = burned]
  <2> HIDE DEF j, b, ch
  <2>1. close_challenge(s, t, fraud) =
          [j EXCEPT !.bonded  = Debit(@, ch, b),
                    !.balance = IF fraud THEN Credit(@, ch, b) ELSE @,
                    !.burned  = IF fraud THEN @ ELSE @ + b]
    BY CloseChallengeIs DEF j, b, ch
  <2> QED BY <1>1, <2>1 DEF State
<1> HIDE DEF ch, j, b
<1>3. /\ j.bonded \in [Identity -> Nat] /\ j.balance \in [Identity -> Nat]
      /\ j.burned \in Nat
  BY <1>1, FieldType
<1>4. bonded \in [Identity -> Nat]
  BY <1>1, <1>3, CreditDebitType
<1>5. balance \in [Identity -> Nat]
  BY <1>1, <1>3, CreditDebitType
<1>6. burned \in Nat
  BY <1>1, <1>3
<1> HIDE DEF bonded, balance, burned
<1> QED BY <1>1, <1>2, <1>4, <1>5, <1>6 DEF State

-----------------------------------------------------------------------------
(***************************************************************************)
(* The records of a task.                                                  *)
(***************************************************************************)
\* The records of task t are the same in two states.
SameRecords(s1, s2, t) ==
  /\ s2.tasks[t] = s1.tasks[t] /\ s2.proofs[t] = s1.proofs[t]
  /\ s2.receipts[t] = s1.receipts[t] /\ s2.q_ledger[t] = s1.q_ledger[t]
  /\ s2.pending_challenges[t] = s1.pending_challenges[t]
  /\ t \in s2.slashed <=> t \in s1.slashed
  /\ t \in s2.released <=> t \in s1.released
  /\ s2.epoch = s1.epoch

\* Records that stay the same still agree.
LEMMA SameRecordsAgree ==
  ASSUME NEW s1, NEW s2, NEW t, SameRecords(s1, s2, t), records_agree(s1, t)
  PROVE  records_agree(s2, t)
BY DEF SameRecords, records_agree, settled, status

\* The records of every task agree.
Agree(s) == \A t \in Task : records_agree(s, t)

\* A status is one of five, and what a settled task has.
LEMMA StatusCases ==
  ASSUME NEW s \in State, NEW t \in Task, records_agree(s, t)
  PROVE  /\ s.tasks[t] = None => status(s, t) = "Unknown"
         /\ s.tasks[t] # None => status(s, t) \in TaskStatus
         /\ settled(s, t) => s.tasks[t] # None /\ s.tasks[t].provider # None
         /\ s.receipts[t] # None => settled(s, t)
  BY SubmissionType DEF status, settled, TaskStatus, records_agree

\* Receipts are those of submitted tasks.
LEMMA AgreeSubmitted ==
  ASSUME NEW s \in State, Agree(s)
  PROVE  Submitted(s)
BY StatusCases DEF Agree, Submitted

\* submit_task.
LEMMA SubmitTaskAgree ==
  ASSUME NEW s \in State, Agree(s), NEW a \in Identity, NEW t \in Task,
         CanSubmitTask(s, a, t)
  PROVE  Agree(submit_task(s, a, t))
<1> DEFINE x   == submit_task(s, a, t)
           sub == [ status      |-> "Submitted",
                    requester   |-> a,
                    provider    |-> None,
                    fee         |-> fee(Body[t].max_ucu),
                    claim_stake |-> 0,
                    ucu_count   |-> 0 ]
<1>1. /\ x.tasks = [s.tasks EXCEPT ![t] = sub]
      /\ x.proofs = s.proofs /\ x.receipts = s.receipts /\ x.q_ledger = s.q_ledger
      /\ x.pending_challenges = s.pending_challenges /\ x.slashed = s.slashed
      /\ x.released = s.released /\ x.epoch = s.epoch
  BY DEF submit_task, State
<1>2. sub \in Submission
  BY BodyType DEF Submission, TaskStatus
<1>3. sub # None
  BY <1>2, NoneAssumption
<1>4. records_agree(x, t)
  <2>1. x.tasks[t] = sub
    BY <1>1, FieldType
  <2>2. s.tasks[t] = None /\ records_agree(s, t)
    BY DEF CanSubmitTask, Agree
  <2> HIDE DEF x
  <2> QED BY <1>1, <1>3, <2>1, <2>2 DEF records_agree, settled, status
<1>5. ASSUME NEW v \in Task, v # t PROVE SameRecords(s, x, v)
  <2> HIDE DEF x
  <2> QED BY <1>1, <1>5, FieldType DEF SameRecords
<1> QED BY <1>4, <1>5, SameRecordsAgree DEF Agree

\* claim_task.
LEMMA ClaimTaskAgree ==
  ASSUME NEW s \in State, Agree(s), NEW a \in Identity, NEW t \in Task,
         CanClaimTask(s, a, t)
  PROVE  Agree(claim_task(s, a, t))
<1> DEFINE x   == claim_task(s, a, t)
           sub == [s.tasks[t] EXCEPT !.provider    = a,
                                     !.status      = "Executing",
                                     !.claim_stake = stake(s, a, t)]
<1>1. /\ x.tasks = [s.tasks EXCEPT ![t] = sub]
      /\ x.proofs = s.proofs /\ x.receipts = s.receipts /\ x.q_ledger = s.q_ledger
      /\ x.pending_challenges = s.pending_challenges /\ x.slashed = s.slashed
      /\ x.released = s.released /\ x.epoch = s.epoch
  BY FieldType DEF claim_task, State
<1>2. s.tasks[t] # None /\ status(s, t) = "Submitted" /\ records_agree(s, t)
  BY DEF CanClaimTask, Agree, status
<1>3. /\ sub.status = "Executing" /\ sub.provider = a
      /\ sub.fee = s.tasks[t].fee
  BY <1>2, SubmissionType DEF Submission
<1>4. sub # None
  <2>1. sub \in Submission
    <3>1. stake(s, a, t) \in Nat
      BY BodyType, AmountType, FieldType DEF stake
    <3> QED BY <1>2, <3>1, SubmissionType DEF Submission, TaskStatus
  <2> QED BY <2>1, NoneAssumption
<1>5. records_agree(x, t)
  <2>1. x.tasks[t] = sub
    BY <1>1, FieldType
  <2>2. a # None
    BY NoneAssumption
  <2> HIDE DEF x, sub
  <2> QED BY <1>1, <1>2, <1>3, <1>4, <2>1, <2>2 DEF records_agree, settled, status
<1>6. ASSUME NEW v \in Task, v # t PROVE SameRecords(s, x, v)
  <2> HIDE DEF x, sub
  <2> QED BY <1>1, <1>6, FieldType DEF SameRecords
<1> QED BY <1>5, <1>6, SameRecordsAgree DEF Agree

\* What settle writes and what it leaves alone, from s to x.
ProofSettled(s, x, t, proof) ==
  LET u         == proof.ucu_count
      requester == s.tasks[t].requester
  IN /\ x.tasks = [s.tasks EXCEPT ![t] = [@ EXCEPT !.status = "Settled"]]
     /\ x.receipts = [s.receipts EXCEPT ![t] = receipt(s, t, u)]
     /\ x.q_ledger = [s.q_ledger EXCEPT ![t] =
          [ucu |-> u, benchmark |-> Body[t].benchmark, q |-> None]]
     /\ x.proofs = s.proofs /\ x.pending_challenges = s.pending_challenges
     /\ x.slashed = s.slashed /\ x.released = s.released /\ x.epoch = s.epoch
     /\ x.bonded = s.bonded /\ x.burned = s.burned /\ x.strikes = s.strikes
     /\ x.escrowed = Debit(s.escrowed, requester, Body[t].max_ucu + s.tasks[t].fee)
     /\ x.balance = Credit(Credit(s.balance, requester, Body[t].max_ucu - u),
                           proof.provider, u + issuance(u))
     /\ x.fee_pool = s.fee_pool + s.tasks[t].fee
     /\ x.minted = s.minted + issuance(u)
     /\ x.sp = Credit(s.sp, proof.provider, standing_accrual(u))
     /\ x.nonces = s.nonces

LEMMA SettleFields ==
  ASSUME NEW s \in State, NEW t \in Task, NEW proof \in ComputeProof,
         s.tasks[t] # None
  PROVE  ProofSettled(s, settle(s, t, proof), t, proof)
<1> DEFINE u    == proof.ucu_count
           paid == pay(s, t, proof.provider, u)
<1>1. /\ paid.tasks = s.tasks /\ paid.receipts = s.receipts /\ paid.q_ledger = s.q_ledger
      /\ paid.proofs = s.proofs /\ paid.pending_challenges = s.pending_challenges
      /\ paid.slashed = s.slashed /\ paid.released = s.released /\ paid.epoch = s.epoch
      /\ paid.bonded = s.bonded /\ paid.burned = s.burned /\ paid.strikes = s.strikes
      /\ paid.escrowed = Debit(s.escrowed, s.tasks[t].requester,
                               Body[t].max_ucu + s.tasks[t].fee)
      /\ paid.balance = Credit(Credit(s.balance, s.tasks[t].requester,
                                      Body[t].max_ucu - u),
                               proof.provider, u + issuance(u))
      /\ paid.fee_pool = s.fee_pool + s.tasks[t].fee
      /\ paid.minted = s.minted + issuance(u)
      /\ paid.sp = Credit(s.sp, proof.provider, standing_accrual(u))
      /\ paid.nonces = s.nonces
  BY DEF pay, State
<1>2. DOMAIN paid = DOMAIN s
  BY DEF pay
<1>3. settle(s, t, proof) =
        [paid EXCEPT !.receipts[t] = receipt(s, t, u),
                     !.tasks[t]    = [@ EXCEPT !.status = "Settled"],
                     !.q_ledger[t] =
                       [ucu |-> u, benchmark |-> Body[t].benchmark, q |-> None]]
  BY DEF settle
<1> HIDE DEF paid, u
<1> QED BY <1>1, <1>2, <1>3 DEF State, u, ProofSettled

\* What submit_proof writes and what it leaves alone, from s to x.
ProofSubmitted(s, x, t, proof) ==
  LET u         == proof.ucu_count
      requester == s.tasks[t].requester
  IN /\ x.tasks = [s.tasks EXCEPT ![t] = [@ EXCEPT !.ucu_count = u,
                                                   !.status = "Settled"]]
     /\ x.proofs = [s.proofs EXCEPT ![t] = proof]
     /\ x.receipts = [s.receipts EXCEPT ![t] = receipt(s, t, u)]
     /\ x.q_ledger = [s.q_ledger EXCEPT ![t] =
          [ucu |-> u, benchmark |-> Body[t].benchmark, q |-> None]]
     /\ x.pending_challenges = s.pending_challenges
     /\ x.slashed = s.slashed /\ x.released = s.released /\ x.epoch = s.epoch
     /\ x.bonded = s.bonded /\ x.burned = s.burned /\ x.strikes = s.strikes
     /\ x.escrowed = Debit(s.escrowed, requester, Body[t].max_ucu + s.tasks[t].fee)
     /\ x.balance = Credit(Credit(s.balance, requester, Body[t].max_ucu - u),
                           proof.provider, u + issuance(u))
     /\ x.fee_pool = s.fee_pool + s.tasks[t].fee
     /\ x.minted = s.minted + issuance(u)
     /\ x.sp = Credit(s.sp, proof.provider, standing_accrual(u))
     /\ x.nonces = s.nonces

\* submit_proof does that.
LEMMA SubmitProofFields ==
  ASSUME NEW s \in State, NEW t \in Task, NEW proof \in ComputeProof,
         s.tasks[t] # None
  PROVE  ProofSubmitted(s, submit_proof(s, t, proof), t, proof)
<1> DEFINE u    == proof.ucu_count
           sub  == [s.tasks[t] EXCEPT !.ucu_count = u]
           mid  == [s EXCEPT !.proofs[t] = proof, !.tasks[t] = sub]
           done == settle(mid, t, proof)
<1>1. /\ s.tasks[t] \in Submission /\ u \in Nat
  BY SubmissionType, UcuAssumption DEF ComputeProof
<1>2. sub \in Submission /\ sub # None
  BY <1>1, NoneAssumption DEF Submission
<1>3. /\ sub.requester = s.tasks[t].requester /\ sub.fee = s.tasks[t].fee
      /\ [sub EXCEPT !.status = "Settled"]
           = [s.tasks[t] EXCEPT !.ucu_count = u, !.status = "Settled"]
  BY <1>1 DEF Submission
<1>4. mid \in State
  <2>1. /\ [s.proofs EXCEPT ![t] = proof] \in [Task -> ComputeProof \cup {None}]
        /\ [s.tasks EXCEPT ![t] = sub] \in [Task -> Submission \cup {None}]
    BY <1>2, FieldType
  <2> HIDE DEF sub
  <2> QED BY <2>1 DEF State
<1>5. /\ mid.tasks = [s.tasks EXCEPT ![t] = sub]
      /\ mid.proofs = [s.proofs EXCEPT ![t] = proof]
      /\ mid.receipts = s.receipts /\ mid.q_ledger = s.q_ledger
      /\ mid.pending_challenges = s.pending_challenges
      /\ mid.slashed = s.slashed /\ mid.released = s.released /\ mid.epoch = s.epoch
      /\ mid.bonded = s.bonded /\ mid.burned = s.burned /\ mid.strikes = s.strikes
      /\ mid.escrowed = s.escrowed /\ mid.balance = s.balance
      /\ mid.fee_pool = s.fee_pool /\ mid.minted = s.minted
      /\ mid.sp = s.sp /\ mid.nonces = s.nonces
  BY DEF State
<1>6. submit_proof(s, t, proof) = done
  BY FieldType DEF submit_proof, State
<1> HIDE DEF mid, sub, u
<1>7. mid.tasks[t] = sub
  BY <1>5, FieldType
<1>8. receipt(mid, t, u) = receipt(s, t, u)
  BY <1>3, <1>5, <1>7 DEF receipt
<1>9. ProofSettled(mid, done, t, proof)
  <2>1. mid.tasks[t] # None
    BY <1>2, <1>7
  <2> QED BY <1>4, <2>1, SettleFields
<1>10. [mid.tasks EXCEPT ![t] = [sub EXCEPT !.status = "Settled"]]
         = [s.tasks EXCEPT ![t] = [@ EXCEPT !.ucu_count = u, !.status = "Settled"]]
  BY <1>3, <1>5, FieldType
<1> HIDE DEF done
<1>11. u = proof.ucu_count
  BY DEF u
<1>12. /\ done.tasks = [s.tasks EXCEPT ![t] = [@ EXCEPT !.ucu_count = u,
                                                      !.status = "Settled"]]
       /\ done.receipts = [s.receipts EXCEPT ![t] = receipt(s, t, u)]
  BY <1>5, <1>7, <1>8, <1>9, <1>10, <1>11 DEF ProofSettled
<1> QED BY <1>3, <1>5, <1>6, <1>7, <1>9, <1>11, <1>12 DEF ProofSettled, ProofSubmitted

\* submit_proof.
LEMMA SubmitProofAgree ==
  ASSUME NEW s \in State, Agree(s), NEW a \in Identity, NEW t \in Task,
         NEW proof \in ComputeProof, CanSubmitProof(s, a, t, proof)
  PROVE  Agree(submit_proof(s, t, proof))
<1> DEFINE x   == submit_proof(s, t, proof)
           u   == proof.ucu_count
           sub == [s.tasks[t] EXCEPT !.ucu_count = u, !.status = "Settled"]
           rcp == receipt(s, t, u)
           q   == [ucu |-> u, benchmark |-> Body[t].benchmark, q |-> None]
<1>1. s.tasks[t] # None /\ status(s, t) = "Executing" /\ records_agree(s, t)
  BY DEF CanSubmitProof, Agree, status
<1>2. /\ x.tasks = [s.tasks EXCEPT ![t] = sub]
      /\ x.proofs = [s.proofs EXCEPT ![t] = proof]
      /\ x.receipts = [s.receipts EXCEPT ![t] = rcp]
      /\ x.q_ledger = [s.q_ledger EXCEPT ![t] = q]
      /\ x.pending_challenges = s.pending_challenges
      /\ x.slashed = s.slashed /\ x.released = s.released /\ x.epoch = s.epoch
  <2>1. ProofSubmitted(s, x, t, proof)
    BY <1>1, SubmitProofFields
  <2> HIDE DEF x
  <2> QED BY <2>1 DEF ProofSubmitted
<1>3. /\ x.tasks[t] = sub /\ x.proofs[t] = proof
      /\ x.receipts[t] = rcp /\ x.q_ledger[t] = q
  <2> HIDE DEF x, sub, rcp, q
  <2> QED BY <1>2, FieldType
<1>4. /\ sub.status = "Settled" /\ sub.ucu_count = u
      /\ sub.provider = s.tasks[t].provider /\ sub.fee = s.tasks[t].fee
      /\ rcp.paid_to_provider = u /\ rcp.validator_fee = s.tasks[t].fee
      /\ q.ucu = u
  BY <1>1, SubmissionType DEF Submission, receipt
<1>5. u \in Nat /\ u \in Ucu
  BY UcuAssumption DEF ComputeProof
<1>6. sub # None /\ rcp # None /\ q # None /\ proof # None
  <2>1. sub \in Submission
    BY <1>1, <1>5, SubmissionType DEF Submission, TaskStatus
  <2>2. rcp \in Receipt
    <3>1. s.epoch + params.clawback_epochs \in Nat /\ s.epoch \in Nat
      BY ParamsAssumption, FieldType DEF Params
    <3>2. s.tasks[t].fee \in Nat
      BY <1>1, SubmissionType
    <3> QED BY <1>5, <3>1, <3>2, AmountType DEF Receipt, receipt
  <2>3. q \in QLedgerEntry
    BY <1>5, BodyType DEF QLedgerEntry
  <2> QED BY <2>1, <2>2, <2>3, NoneAssumption
<1>7. records_agree(x, t)
  <2>1. /\ s.tasks[t].provider = proof.provider /\ u <= Body[t].max_ucu
    BY DEF CanSubmitProof
  <2>2. ~ settled(s, t) /\ status(x, t) = "Settled" /\ settled(x, t)
    <3> HIDE DEF x, sub
    <3> QED BY <1>1, <1>3, <1>4, <1>6 DEF settled, status
  <2>3. /\ t \notin s.slashed /\ s.pending_challenges[t] = None /\ t \notin s.released
        /\ s.tasks[t].provider # None /\ s.tasks[t].fee = fee(Body[t].max_ucu)
    BY <1>1, <2>2 DEF records_agree, status
  <2> HIDE DEF x, sub, rcp, q, u
  <2> QED BY <1>2, <1>3, <1>4, <1>6, <2>1, <2>2, <2>3 DEF records_agree, u
<1>8. ASSUME NEW v \in Task, v # t PROVE SameRecords(s, x, v)
  <2> HIDE DEF x, sub, rcp, q, u
  <2> QED BY <1>2, <1>8, FieldType DEF SameRecords
<1> QED BY <1>7, <1>8, SameRecordsAgree DEF Agree

\* open_challenge.
LEMMA OpenChallengeAgree ==
  ASSUME NEW s \in State, Agree(s), NEW a \in Identity, NEW t \in Task,
         NEW bond \in Ucu, CanOpenChallenge(s, a, t, bond)
  PROVE  Agree(open_challenge(s, a, t, bond))
<1> DEFINE x  == open_challenge(s, a, t, bond)
           pc == [challenger |-> a, bond |-> bond]
<1>1. /\ x.tasks = s.tasks
      /\ x.proofs = s.proofs /\ x.receipts = s.receipts /\ x.q_ledger = s.q_ledger
      /\ x.pending_challenges = [s.pending_challenges EXCEPT ![t] = pc]
      /\ x.slashed = s.slashed /\ x.released = s.released /\ x.epoch = s.epoch
  BY DEF open_challenge, State
<1> HIDE DEF x, pc
<1>2. settled(s, t) /\ records_agree(s, t)
  BY DEF CanOpenChallenge, settled, Agree
<1>3. records_agree(x, t)
  BY <1>1, <1>2 DEF records_agree, settled, status
<1>4. ASSUME NEW v \in Task, v # t PROVE SameRecords(s, x, v)
  BY <1>1, <1>4, FieldType DEF SameRecords
<1> QED BY <1>3, <1>4, SameRecordsAgree DEF Agree, x

\* transfer does not touch the records.
LEMMA TransferAgree ==
  ASSUME NEW s \in State, Agree(s), NEW a, NEW to, NEW amount
  PROVE  Agree(transfer(s, a, to, amount))
<1> DEFINE x == transfer(s, a, to, amount)
<1>1. ASSUME NEW t \in Task PROVE SameRecords(s, x, t)
  BY DEF transfer, State, SameRecords
<1> QED BY <1>1, SameRecordsAgree DEF Agree

\* Neither does bump_nonce.
LEMMA BumpNonceAgree ==
  ASSUME NEW s \in State, Agree(s), NEW a
  PROVE  Agree(bump_nonce(s, a))
<1> DEFINE x == bump_nonce(s, a)
<1>1. ASSUME NEW t \in Task PROVE SameRecords(s, x, t)
  BY DEF bump_nonce, State, SameRecords
<1> QED BY <1>1, SameRecordsAgree DEF Agree

\* An epoch releases only settled tasks whose window has reached the new epoch.
LEMMA AdvanceEpochAgree ==
  ASSUME NEW s \in State, Agree(s)
  PROVE  Agree(advance_epoch(s))
<1> DEFINE x == advance_epoch(s)
<1>1. /\ x.tasks = s.tasks
      /\ x.proofs = s.proofs /\ x.receipts = s.receipts /\ x.q_ledger = s.q_ledger
      /\ x.pending_challenges = s.pending_challenges /\ x.slashed = s.slashed
      /\ x.released = s.released \cup matured(s, s.epoch + 1) /\ x.epoch = s.epoch + 1
  BY DEF advance_epoch, State
<1> HIDE DEF x
<1>2. ASSUME NEW t \in Task PROVE records_agree(x, t)
  <2>1. records_agree(s, t) /\ s.epoch \in Nat
    BY FieldType DEF Agree
  <2>2. /\ status(x, t) = status(s, t)
        /\ settled(x, t) <=> settled(s, t)
    BY <1>1 DEF status, settled
  <2>3. t \in x.released => settled(s, t) /\ s.receipts[t].clawback_until <= s.epoch + 1
    <3>1. CASE t \in matured(s, s.epoch + 1)
      BY <2>1, <3>1, StatusCases DEF matured
    <3>2. CASE t \in s.released
      <4>1. settled(s, t) /\ s.receipts[t].clawback_until <= s.epoch
        BY <2>1, <3>2 DEF records_agree
      <4>2. s.receipts[t].clawback_until \in Nat
        BY <2>1, <4>1, ReceiptType DEF records_agree
      <4> QED BY <2>1, <4>1, <4>2
    <3> QED BY <1>1, <3>1, <3>2
  <2> QED BY <1>1, <2>1, <2>2, <2>3 DEF records_agree
<1> QED BY <1>2 DEF Agree, x

\* A punished task was settled and its records stay.
LEMMA PenaliseAgree ==
  ASSUME NEW s \in State, Agree(s), NEW t \in Task,
         NEW reward_to \in Identity \cup {None}, CanResolveFraud(s, t)
  PROVE  Agree(penalise(s, t, reward_to))
<1> DEFINE x   == penalise(s, t, reward_to)
           mid == take_fraud_penalties(s, t, reward_to)
           sub == [s.tasks[t] EXCEPT !.status = "Failed"]
<1>1. /\ mid.tasks = s.tasks /\ mid.proofs = s.proofs /\ mid.receipts = s.receipts
      /\ mid.q_ledger = s.q_ledger /\ mid.pending_challenges = s.pending_challenges
      /\ mid.slashed = s.slashed /\ mid.released = s.released /\ mid.epoch = s.epoch
      /\ mid.sp = s.sp /\ mid.strikes = s.strikes
  BY DEF take_fraud_penalties, State
<1>2. settled(s, t) /\ s.tasks[t] # None /\ s.receipts[t] # None
  BY StatusCases DEF CanResolveFraud, Agree
<1>3. mid \in State
  BY <1>2, FraudPenaltiesType DEF CanResolveFraud
<1>4. /\ x.tasks = [mid.tasks EXCEPT ![t] = [@ EXCEPT !.status = "Failed"]]
      /\ x.proofs = mid.proofs /\ x.receipts = mid.receipts /\ x.q_ledger = mid.q_ledger
      /\ x.pending_challenges = mid.pending_challenges
      /\ x.slashed = mid.slashed \cup {t}
      /\ x.released = mid.released /\ x.epoch = mid.epoch
  <2> HIDE DEF mid
  <2> QED BY <1>3 DEF penalise, mid, State
<1> HIDE DEF x, mid
<1>5. x.tasks[t] = sub
  BY <1>1, <1>2, <1>4, FieldType
<1>6. sub \in Submission
  BY <1>2, SubmissionType DEF Submission, TaskStatus
<1>7. /\ sub.status = "Failed" /\ sub # None
      /\ sub.provider = s.tasks[t].provider /\ sub.fee = s.tasks[t].fee
      /\ sub.ucu_count = s.tasks[t].ucu_count
  BY <1>2, <1>6, SubmissionType, NoneAssumption DEF Submission
<1>8. records_agree(x, t)
  <2>1. records_agree(s, t) /\ s.tasks[t].provider # None
    BY DEF Agree, CanResolveFraud
  <2>2. status(x, t) = "Failed" /\ settled(x, t)
    BY <1>5, <1>7 DEF status, settled
  <2> HIDE DEF sub
  <2> QED BY <1>1, <1>2, <1>4, <1>5, <1>7, <2>1, <2>2 DEF records_agree
<1>9. ASSUME NEW v \in Task, v # t PROVE SameRecords(s, x, v)
  BY <1>1, <1>4, <1>9, FieldType DEF SameRecords
<1> QED BY <1>8, <1>9, SameRecordsAgree DEF Agree, x

\* resolve_fraud.
LEMMA ResolveFraudAgree ==
  ASSUME NEW s \in State, Agree(s), NEW t \in Task,
         NEW reward_to \in Identity \cup {None}
  PROVE  Agree(resolve_fraud(s, t, reward_to))
BY PenaliseAgree DEF resolve_fraud

\* A closed challenge.
LEMMA ClosedAgree ==
  ASSUME NEW s \in State, Agree(s), NEW t \in Task
  PROVE  Agree(closed(s, t))
<1> DEFINE x == closed(s, t)
<1>1. /\ x.tasks = s.tasks
      /\ x.proofs = s.proofs /\ x.receipts = s.receipts /\ x.q_ledger = s.q_ledger
      /\ x.pending_challenges = [s.pending_challenges EXCEPT ![t] = None]
      /\ x.slashed = s.slashed /\ x.released = s.released /\ x.epoch = s.epoch
  BY DEF closed, State
<1> HIDE DEF x
<1>2. ASSUME NEW v \in Task PROVE records_agree(x, v)
  <2>1. records_agree(s, v)
    BY DEF Agree
  <2>2. /\ status(x, v) = status(s, v)
        /\ settled(x, v) <=> settled(s, v)
    BY <1>1 DEF status, settled
  <2>3. x.pending_challenges[v] # None => s.pending_challenges[v] # None
    BY <1>1, FieldType
  <2> QED BY <1>1, <2>1, <2>2, <2>3 DEF records_agree
<1> QED BY <1>2 DEF Agree, x

\* resolve_challenge.
LEMMA CloseChallengeAgree ==
  ASSUME NEW s \in State, Agree(s), NEW t \in Task, NEW fraud \in BOOLEAN,
         s.pending_challenges[t] # None
  PROVE  Agree(close_challenge(s, t, fraud))
<1> DEFINE x  == close_challenge(s, t, fraud)
           j  == judged(s, t, fraud)
           ch == s.pending_challenges[t].challenger
<1>1. Submitted(s) /\ ch \in Identity
  BY AgreeSubmitted, PendingType
<1>2. Agree(j)
  BY <1>1, ClosedType, ClosedAgree, ResolveFraudAgree DEF judged
<1>3. j \in State
  BY <1>1, JudgedType
<1>4. ASSUME NEW v \in Task PROVE SameRecords(j, x, v)
  <2> HIDE DEF j
  <2> QED BY <1>3, CloseChallengeIs DEF State, SameRecords, j
<1> HIDE DEF j
<1> QED BY <1>2, <1>4, SameRecordsAgree DEF Agree

-----------------------------------------------------------------------------
(***************************************************************************)
(* A block of one transaction.                                             *)
(***************************************************************************)
\* What produce starts from, and what it does with one transaction.
empty(s) == [state |-> s, txs |-> << >>]

take(acc, stx) ==
  IF CanApply(acc.state, stx)
  THEN [state |-> apply(acc.state, stx), txs |-> Append(acc.txs, stx)]
  ELSE acc

\* g is the function by which the fold over the mempool <<stx>> is defined.
IsFold(stx, s, g) ==
  g = [S \in SUBSET {1} |->
         IF S = {} THEN empty(s)
         ELSE take(g[S \ {Max(S)}], <<stx>>[Max(S)])]

LEMMA FoldUnfold ==
  ASSUME NEW stx, NEW s
  PROVE  FoldLeft(take, empty(s), <<stx>>) = (CHOOSE g : IsFold(stx, s, g))[{1}]
<1>1. DOMAIN <<stx>> = {1}
  OBVIOUS
<1> QED BY <1>1, Zenon DEF FoldLeft, MapThenFoldSet, IsFold

LEMMA FoldOne ==
  ASSUME NEW stx, NEW s
  PROVE  FoldLeft(take, empty(s), <<stx>>) = take(empty(s), stx)
<1> DEFINE h == [S \in SUBSET {1} |-> IF S = {} THEN empty(s)
                                      ELSE take(empty(s), stx)]
<1>1. Max({1}) = 1
  BY DEF Max
<1>2. \A S \in SUBSET {1} : S = {} \/ S = {1}
  OBVIOUS
<1>3. IsFold(stx, s, h)
  <2>1. h[{}] = empty(s)
    OBVIOUS
  <2>2. \A S \in SUBSET {1} : S # {} => S \ {Max(S)} = {} /\ <<stx>>[Max(S)] = stx
    <3>1. /\ {1} \ {1} = {} /\ <<stx>>[1] = stx
      OBVIOUS
    <3>2. \A S \in SUBSET {1} : S # {} => S = {1}
      BY <1>2
    <3> QED BY <1>1, <3>1, <3>2
  <2>3. h = [S \in SUBSET {1} |->
               IF S = {} THEN empty(s)
               ELSE take(h[S \ {Max(S)}], <<stx>>[Max(S)])]
    BY <2>1, <2>2
  <2> HIDE DEF h
  <2> QED BY <2>3 DEF IsFold
<1>4. PICK g : IsFold(stx, s, g) /\ g = (CHOOSE f : IsFold(stx, s, f))
  <2> HIDE DEF h
  <2> QED BY <1>3
<1>5. g[{}] = empty(s)
  BY <1>4 DEF IsFold
<1>6. g[{1}] = take(g[{1} \ {1}], <<stx>>[1])
  BY <1>1, <1>4 DEF IsFold
<1>7. g[{1}] = take(empty(s), stx)
  BY <1>5, <1>6
<1> QED BY <1>4, <1>7, FoldUnfold

\* The block of one transaction: empty exactly if the ledger rejects it.
LEMMA ProduceOne ==
  ASSUME NEW seq, NEW stx, NEW s
  PROVE  LET p == produce(seq, <<stx>>, s)
         IN IF CanApply(s, stx)
            THEN p = [ block |-> block_on(seq, <<stx>>, apply(s, stx)),
                       txs   |-> <<stx>>,
                       state |-> apply(s, stx) ]
            ELSE p.block.txs = << >>
<1> DEFINE final == FoldLeft(take, empty(s), <<stx>>)
<1>1. produce(seq, <<stx>>, s) =
        [ block |-> block_on(seq, final.txs, final.state),
          txs   |-> final.txs,
          state |-> final.state ]
  BY Zenon DEF produce, take, empty
<1>2. final = take(empty(s), stx)
  BY FoldOne
<1>3. CanApply(s, stx) => final = [state |-> apply(s, stx), txs |-> <<stx>>]
  <2>1. Append(<< >>, stx) = <<stx>>
    OBVIOUS
  <2> HIDE DEF final
  <2> QED BY <1>2, <2>1 DEF take, empty
<1>4. ~ CanApply(s, stx) => final = [state |-> s, txs |-> << >>]
  BY <1>2 DEF take, empty
<1> HIDE DEF final
<1> QED BY <1>1, <1>3, <1>4 DEF block_on
=============================================================================
