---------------------------- MODULE LedgerProofs ----------------------------
(***************************************************************************)
(* Proofs about Ledger.  The sums are over finite sets of rows; what is    *)
(* true of every finite sum is proved first, from the definition in the    *)
(* community modules.                                                      *)
(*                                                                         *)
(* The inductive invariant says of every call that has planned what it     *)
(* will save, and whose rows nobody has written since, what the saving     *)
(* will do: which sums it changes and by how much (Exact).  A commit then  *)
(* moves balances, debts, paid amounts and posted lines together.          *)
(***************************************************************************)
EXTENDS Ledger, FiniteSetTheorems, WellFoundedInduction, TLAPS

-----------------------------------------------------------------------------
(* Sums *)

\* A set of natural numbers that is not empty has a least element.
LEMMA LeastNumber ==
  ASSUME NEW T, T \subseteq Nat, T # {}
  PROVE  \E n \in T : \A m \in T : n <= m
<1>1. PICK n \in T : \A m \in T : ~(<<m, n>> \in OpToRel(<, Nat))
  BY NatLessThanWellFounded, WFMin
<1>2. \A m \in T : ~(m < n)
  BY <1>1 DEF OpToRel
<1>3. \A m \in T : n <= m
  BY <1>2
<1> QED BY <1>3

Pick(s) == CHOOSE x \in s : TRUE
Step(f, g, s) == IF s = {} THEN 0 ELSE f[Pick(s)] + g[s \ {Pick(s)}]

\* The recursive function behind a sum, on a set of sets that is closed.
IsSum(f, g, D) == g = [s \in D |-> Step(f, g, s)]

Small(S, n) == {s \in SUBSET S : Cardinality(s) <= n}

LEMMA PickIn == ASSUME NEW s, s # {} PROVE Pick(s) \in s
BY DEF Pick

LEMMA SumExistsUpTo ==
  ASSUME NEW f, NEW S, IsFiniteSet(S), NEW n \in Nat
  PROVE  \E g : IsSum(f, g, Small(S, n))
<1> DEFINE Bad == {k \in Nat : ~\E g : IsSum(f, g, Small(S, k))}
<1> SUFFICES ASSUME Bad # {} PROVE FALSE
  OBVIOUS
<1>1. PICK k \in Bad : \A m \in Bad : k <= m
  BY LeastNumber
<1>2. \A s \in SUBSET S : IsFiniteSet(s) /\ Cardinality(s) \in Nat
  BY FS_Subset, FS_CardinalityType
<1>3. k # 0
  <2> SUFFICES \E g : IsSum(f, g, Small(S, 0))
    OBVIOUS
  <2>1. \A s \in Small(S, 0) : s = {}
    BY <1>2, FS_EmptySet DEF Small
  <2>2. IsSum(f, [s \in Small(S, 0) |-> 0], Small(S, 0))
    BY <2>1 DEF IsSum, Step
  <2> QED BY <2>2
<1>4. k - 1 \in Nat /\ k - 1 \notin Bad
  BY <1>1, <1>3
<1>5. PICK g : IsSum(f, g, Small(S, k - 1))
  BY <1>4
<1> DEFINE h == [s \in Small(S, k) |-> Step(f, g, s)]
<1>6. \A s \in Small(S, k) : s # {} => s \ {Pick(s)} \in Small(S, k - 1)
  <2> TAKE s \in Small(S, k)
  <2> HAVE s # {}
  <2>1. Pick(s) \in s
    BY PickIn
  <2>2. Cardinality(s \ {Pick(s)}) = Cardinality(s) - 1
    BY <1>2, <2>1, FS_RemoveElement DEF Small
  <2> QED BY <1>2, <2>2 DEF Small
<1>7. \A s \in Small(S, k - 1) : s \in Small(S, k) /\ g[s] = Step(f, g, s)
  BY <1>2, <1>5 DEF IsSum, Small
<1>8. \A s \in Small(S, k - 1) : h[s] = g[s]
  BY <1>7
<1>9. \A s \in Small(S, k) : h[s] = Step(f, h, s)
  <2> TAKE s \in Small(S, k)
  <2>1. h[s] = Step(f, g, s)
    OBVIOUS
  <2> HIDE DEF h
  <2> QED BY <1>6, <1>8, <2>1 DEF Step
<1>10. IsSum(f, h, Small(S, k))
  <2>1. h = [s \in Small(S, k) |-> h[s]]
    OBVIOUS
  <2> HIDE DEF h
  <2> QED BY <1>9, <2>1 DEF IsSum
<1> QED BY <1>1, <1>10

LEMMA SumExists ==
  ASSUME NEW f, NEW S, IsFiniteSet(S)
  PROVE  \E g : IsSum(f, g, SUBSET S)
<1>1. Cardinality(S) \in Nat
  BY FS_CardinalityType
<1>2. Small(S, Cardinality(S)) = SUBSET S
  BY FS_Subset DEF Small
<1>3. \E g : IsSum(f, g, Small(S, Cardinality(S)))
  BY <1>1, SumExistsUpTo
<1> QED BY <1>2, <1>3

LEMMA SumUnique ==
  \A f, S, T, g, h :
    /\ IsFiniteSet(S) /\ T \in SUBSET S
    /\ IsSum(f, g, SUBSET S) /\ IsSum(f, h, SUBSET T)
    => g[T] = h[T]
<1> SUFFICES ASSUME NEW f, NEW S, NEW T \in SUBSET S, NEW g, NEW h, IsFiniteSet(S),
                    IsSum(f, g, SUBSET S), IsSum(f, h, SUBSET T)
             PROVE  g[T] = h[T]
  OBVIOUS
<1> DEFINE Bad == {n \in Nat : \E s \in SUBSET T : Cardinality(s) = n /\ g[s] # h[s]}
<1>1. \A s \in SUBSET T : IsFiniteSet(s) /\ Cardinality(s) \in Nat
  BY FS_Subset, FS_CardinalityType
<1> SUFFICES ASSUME Bad # {} PROVE FALSE
  BY <1>1
<1>2. PICK k \in Bad : \A m \in Bad : k <= m
  BY LeastNumber
<1>3. PICK s \in SUBSET T : Cardinality(s) = k /\ g[s] # h[s]
  BY <1>2
<1>4. g[s] = Step(f, g, s) /\ h[s] = Step(f, h, s)
  BY DEF IsSum
<1>5. s # {}
  BY <1>3, <1>4 DEF Step
<1>6. Cardinality(s \ {Pick(s)}) = k - 1 /\ k - 1 \in Nat
  <2>1. Pick(s) \in s /\ IsFiniteSet(s) /\ Cardinality(s) \in Nat
    BY <1>1, <1>5, PickIn
  <2>2. Cardinality(s \ {Pick(s)}) = Cardinality(s) - 1
    BY <2>1, FS_RemoveElement
  <2>3. Cardinality(s) # 0
    BY <1>5, <2>1, FS_EmptySet
  <2> QED BY <1>3, <2>1, <2>2, <2>3
<1>7. g[s \ {Pick(s)}] = h[s \ {Pick(s)}]
  BY <1>2, <1>6
<1> QED BY <1>3, <1>4, <1>7 DEF Step

\* The definition of the community module.
LEMMA TotalIs ==
  ASSUME NEW f, NEW S, IsFiniteSet(S), NEW g, IsSum(f, g, SUBSET S)
  PROVE  Total(f, S) = g[S]
<1> DEFINE Body(h) == [s \in SUBSET S |-> IF s = {} THEN 0 ELSE f[CHOOSE x \in s : TRUE] + h[s \ {CHOOSE x \in s : TRUE}]]
           sum == CHOOSE h : h = Body(h)
<1>1. Total(f, S) = sum[S]
  BY Zenon DEF Total, SumFunctionOnSet, FoldFunctionOnSet, MapThenFoldSet
<1>2. \A h : IsSum(f, h, SUBSET S) <=> h = Body(h)
  BY DEF IsSum, Step, Pick
<1> HIDE DEF Body
<1>3. sum = Body(sum)
  BY <1>2
<1>4. IsSum(f, sum, SUBSET S)
  BY <1>2, <1>3
<1> HIDE DEF sum
<1>5. g[S] = sum[S]
  BY <1>4, SumUnique
<1> QED BY <1>1, <1>5

LEMMA TotalEmpty == ASSUME NEW f PROVE Total(f, {}) = 0
<1>1. PICK g : IsSum(f, g, SUBSET {})
  BY SumExists, FS_EmptySet
<1>2. g[{}] = 0
  BY <1>1 DEF IsSum, Step
<1> QED BY <1>1, <1>2, TotalIs, FS_EmptySet

LEMMA TotalPick ==
  ASSUME NEW f, NEW S, IsFiniteSet(S), S # {}
  PROVE  Total(f, S) = f[Pick(S)] + Total(f, S \ {Pick(S)})
<1>1. PICK g : IsSum(f, g, SUBSET S)
  BY SumExists
<1>2. IsFiniteSet(S \ {Pick(S)})
  BY FS_RemoveElement
<1>3. PICK h : IsSum(f, h, SUBSET (S \ {Pick(S)}))
  BY <1>2, SumExists
<1>4. Total(f, S) = g[S] /\ Total(f, S \ {Pick(S)}) = h[S \ {Pick(S)}]
  BY <1>1, <1>2, <1>3, TotalIs
<1>5. g[S \ {Pick(S)}] = h[S \ {Pick(S)}]
  <2> DEFINE T == S \ {Pick(S)}
  <2>1. T \in SUBSET S /\ IsSum(f, h, SUBSET T)
    BY <1>3
  <2> HIDE DEF T
  <2>2. g[T] = h[T]
    BY <1>1, <2>1, SumUnique, ZenonT(30)
  <2> QED BY <2>2 DEF T
<1> QED BY <1>1, <1>4, <1>5 DEF IsSum, Step

\* It does not matter which element is taken out first.
LEMMA TotalRemove ==
  \A f, S, x :
    IsFiniteSet(S) /\ x \in S /\ (\A y \in S : f[y] \in Int)
      => /\ Total(f, S) = f[x] + Total(f, S \ {x})
         /\ Total(f, S) \in Int
<1> SUFFICES ASSUME NEW f, NEW S, IsFiniteSet(S), \A y \in S : f[y] \in Int
             PROVE  \A x \in S : /\ Total(f, S) = f[x] + Total(f, S \ {x})
                                 /\ Total(f, S) \in Int
  OBVIOUS
<1> DEFINE Good(s) == /\ \A x \in s : Total(f, s) = f[x] + Total(f, s \ {x})
                      /\ Total(f, s) \in Int
           Bad == {n \in Nat : \E s \in SUBSET S : Cardinality(s) = n /\ ~Good(s)}
<1>1. \A s \in SUBSET S : IsFiniteSet(s) /\ Cardinality(s) \in Nat
  BY FS_Subset, FS_CardinalityType
<1>2. ASSUME Bad # {} PROVE FALSE
  <2>1. PICK k \in Bad : \A m \in Bad : k <= m
    BY <1>2, LeastNumber
  <2>2. PICK s \in SUBSET S : Cardinality(s) = k /\ ~Good(s)
    BY <2>1
  <2>3. \A t \in SUBSET S : Cardinality(t) < k => Good(t)
    BY <1>1, <2>1
  <2> HIDE DEF Good
  <2>4. \A y \in s : s \ {y} \in SUBSET S /\ Cardinality(s \ {y}) < k
    <3> TAKE y \in s
    <3>1. Cardinality(s \ {y}) = Cardinality(s) - 1 /\ Cardinality(s) \in Nat
      BY <1>1, FS_RemoveElement
    <3> QED BY <2>2, <3>1
  <2>5. \A y \in s : Good(s \ {y})
    BY <2>3, <2>4
  <2>6. CASE s = {}
    BY <2>2, <2>6, TotalEmpty DEF Good
  <2>7. CASE s # {}
    <3> DEFINE p == Pick(s)
    <3>1. p \in s
      BY <2>7, PickIn
    <3>2. Total(f, s) = f[p] + Total(f, s \ {p})
      BY <1>1, <2>7, TotalPick
    <3> HIDE DEF p
    <3>3. Total(f, s \ {p}) \in Int /\ f[p] \in Int
      BY <2>5, <3>1 DEF Good
    <3>4. ASSUME NEW x \in s PROVE Total(f, s) = f[x] + Total(f, s \ {x})
      <4>1. CASE x = p
        BY <3>2, <4>1
      <4>2. CASE x # p
        <5>1. Total(f, s \ {p}) = f[x] + Total(f, (s \ {p}) \ {x})
          BY <2>5, <3>1, <4>2 DEF Good
        <5>2. Total(f, s \ {x}) = f[p] + Total(f, (s \ {x}) \ {p})
          BY <2>5, <3>1, <4>2 DEF Good
        <5>3. (s \ {p}) \ {x} = (s \ {x}) \ {p}
          OBVIOUS
        <5>4. Total(f, (s \ {p}) \ {x}) \in Int
          <6>1. (s \ {p}) \ {x} \in SUBSET S /\ Cardinality((s \ {p}) \ {x}) < k
            <7>1. Cardinality((s \ {p}) \ {x}) = Cardinality(s \ {p}) - 1
              BY <1>1, <4>2, FS_RemoveElement
            <7>2. Cardinality(s \ {p}) \in Nat /\ Cardinality(s \ {p}) < k
              BY <1>1, <2>4, <3>1
            <7>3. k \in Nat
              BY <2>1
            <7> QED BY <7>1, <7>2, <7>3
          <6> QED BY <2>3, <6>1 DEF Good
        <5>5. f[x] \in Int
          OBVIOUS
        <5> DEFINE rest == Total(f, (s \ {p}) \ {x})
        <5>6. /\ Total(f, s \ {p}) = f[x] + rest
              /\ Total(f, s \ {x}) = f[p] + rest
              /\ rest \in Int
          BY <5>1, <5>2, <5>3, <5>4
        <5> HIDE DEF rest
        <5>7. f[p] + (f[x] + rest) = f[x] + (f[p] + rest)
          BY <3>3, <5>5, <5>6
        <5> QED BY <3>2, <5>6, <5>7
      <4> QED BY <4>1, <4>2
    <3>5. Total(f, s) \in Int
      BY <3>2, <3>3
    <3> QED BY <2>2, <3>4, <3>5 DEF Good
  <2> QED BY <2>6, <2>7
<1>3. Good(S)
  <2> HIDE DEF Good
  <2> QED BY <1>1, <1>2
<1> QED BY <1>3

LEMMA TotalInt ==
  \A f, S : IsFiniteSet(S) /\ (\A y \in S : f[y] \in Int) => Total(f, S) \in Int
<1> SUFFICES ASSUME NEW f, NEW S, IsFiniteSet(S), \A y \in S : f[y] \in Int
             PROVE  Total(f, S) \in Int
  OBVIOUS
<1>1. CASE S = {}
  BY <1>1, TotalEmpty
<1>2. CASE S # {}
  BY <1>2, TotalRemove
<1> QED BY <1>1, <1>2

\* Induction over the subsets of a finite set.
LEMMA SubsetInduction ==
  \A S, Good :
    /\ IsFiniteSet(S) /\ {} \in Good
    /\ \A T \in SUBSET S : \A x \in T : T \ {x} \in Good => T \in Good
    => S \in Good
<1> SUFFICES ASSUME NEW S, NEW Good, IsFiniteSet(S), {} \in Good, S \notin Good,
                    \A T \in SUBSET S : \A x \in T : T \ {x} \in Good => T \in Good
             PROVE  FALSE
  OBVIOUS
<1> DEFINE Bad == {n \in Nat : \E s \in SUBSET S : Cardinality(s) = n /\ s \notin Good}
<1>1. \A s \in SUBSET S : IsFiniteSet(s) /\ Cardinality(s) \in Nat
  BY FS_Subset, FS_CardinalityType
<1>2. Bad # {}
  BY <1>1
<1>3. PICK k \in Bad : \A m \in Bad : k <= m
  BY <1>2, LeastNumber
<1>4. PICK s \in SUBSET S : Cardinality(s) = k /\ s \notin Good
  BY <1>3
<1>5. Pick(s) \in s
  BY <1>4, PickIn
<1>6. Cardinality(s \ {Pick(s)}) = k - 1 /\ Cardinality(s \ {Pick(s)}) \in Nat
  BY <1>1, <1>4, <1>5, FS_RemoveElement
<1>7. s \ {Pick(s)} \in Good
  BY <1>3, <1>6
<1> QED BY <1>4, <1>5, <1>7

LEMMA TotalOne == \A f, x : f[x] \in Int => Total(f, {x}) = f[x]
<1> SUFFICES ASSUME NEW f, NEW x, f[x] \in Int PROVE Total(f, {x}) = f[x]
  OBVIOUS
<1>1. IsFiniteSet({x}) /\ {x} \ {x} = {}
  BY FS_Singleton
<1>2. Total(f, {x}) = f[x] + Total(f, {x} \ {x})
  BY <1>1, TotalRemove
<1> QED BY <1>1, <1>2, TotalEmpty

\* The same for a subset.
LEMMA TotalStep ==
  ASSUME NEW f, NEW S, IsFiniteSet(S), \A y \in S : f[y] \in Int, NEW T \in SUBSET S, NEW x \in T
  PROVE  /\ Total(f, T) = f[x] + Total(f, T \ {x})
         /\ Total(f, T \ {x}) \in Int
<1>1. IsFiniteSet(T) /\ IsFiniteSet(T \ {x})
  BY FS_Subset
<1>2. \A y \in T : f[y] \in Int
  OBVIOUS
<1>3. Total(f, T) = f[x] + Total(f, T \ {x})
  BY <1>1, <1>2, TotalRemove, ZenonT(30)
<1>4. Total(f, T \ {x}) \in Int
  BY <1>1, <1>2, TotalInt
<1> QED BY <1>3, <1>4

\* Zeros can be left out.
LEMMA TotalOfRest ==
  \A f, S, R :
    IsFiniteSet(S) /\ R \subseteq S /\ (\A y \in S : f[y] \in Int) /\ (\A y \in S \ R : f[y] = 0)
      => Total(f, S) = Total(f, R)
<1> SUFFICES ASSUME NEW f, NEW S, NEW R, IsFiniteSet(S), R \subseteq S,
                    \A y \in S : f[y] \in Int, \A y \in S \ R : f[y] = 0
             PROVE  Total(f, S) = Total(f, R)
  OBVIOUS
<1> DEFINE Good == {T \in SUBSET S : Total(f, T) = Total(f, T \cap R)}
<1>1. {} \in Good
  OBVIOUS
<1>2. ASSUME NEW T \in SUBSET S, NEW x \in T, T \ {x} \in Good PROVE T \in Good
  <2>1. IsFiniteSet(T \cap R)
    BY FS_Subset
  <2>2. Total(f, T) = f[x] + Total(f, T \ {x}) /\ Total(f, T \ {x}) \in Int
    BY TotalStep
  <2>3. Total(f, T \ {x}) = Total(f, (T \ {x}) \cap R)
    BY <1>2
  <2>4. CASE x \in R
    <3>1. Total(f, T \cap R) = f[x] + Total(f, (T \cap R) \ {x})
      BY <2>1, <2>4, TotalRemove
    <3>2. (T \cap R) \ {x} = (T \ {x}) \cap R
      OBVIOUS
    <3> QED BY <2>2, <2>3, <3>1, <3>2
  <2>5. CASE x \notin R
    <3>1. T \cap R = (T \ {x}) \cap R /\ f[x] = 0
      BY <2>5
    <3>2. Total(f, T) = Total(f, T \ {x})
      BY <2>2, <3>1
    <3> QED BY <2>3, <3>1, <3>2
  <2> QED BY <2>4, <2>5
<1>3. S \in Good
  <2> HIDE DEF Good
  <2> QED BY <1>1, <1>2, SubsetInduction
<1>4. S \cap R = R
  OBVIOUS
<1> QED BY <1>3, <1>4

LEMMA TotalPlus ==
  \A f, g, h, S :
    IsFiniteSet(S) /\ (\A y \in S : f[y] \in Int /\ g[y] \in Int /\ h[y] = f[y] + g[y])
      => Total(h, S) = Total(f, S) + Total(g, S)
<1> SUFFICES ASSUME NEW f, NEW g, NEW h, NEW S, IsFiniteSet(S),
                    \A y \in S : f[y] \in Int /\ g[y] \in Int /\ h[y] = f[y] + g[y]
             PROVE  Total(h, S) = Total(f, S) + Total(g, S)
  OBVIOUS
<1> DEFINE Good == {T \in SUBSET S : Total(h, T) = Total(f, T) + Total(g, T)}
<1>1. {} \in Good
  BY TotalEmpty
<1>2. ASSUME NEW T \in SUBSET S, NEW x \in T, T \ {x} \in Good PROVE T \in Good
  <2>1. \A y \in S : h[y] \in Int
    OBVIOUS
  <2>2. Total(f, T) = f[x] + Total(f, T \ {x}) /\ Total(f, T \ {x}) \in Int
    BY TotalStep
  <2>3. Total(g, T) = g[x] + Total(g, T \ {x}) /\ Total(g, T \ {x}) \in Int
    BY TotalStep
  <2>5. Total(h, T) = h[x] + Total(h, T \ {x}) /\ Total(h, T \ {x}) \in Int
    BY <2>1, TotalStep
  <2>7. Total(h, T \ {x}) = Total(f, T \ {x}) + Total(g, T \ {x})
    BY <1>2
  <2>8. f[x] \in Int /\ g[x] \in Int /\ h[x] = f[x] + g[x]
    OBVIOUS
  <2>4. Total(h, T) = Total(f, T) + Total(g, T)
    BY <2>2, <2>3, <2>5, <2>7, <2>8
  <2> QED BY <2>4
<1>3. S \in Good
  <2> HIDE DEF Good
  <2> QED BY <1>1, <1>2, SubsetInduction
<1> QED BY <1>3

LEMMA TotalZero == \A f, S : IsFiniteSet(S) /\ (\A y \in S : f[y] = 0) => Total(f, S) = 0
<1> SUFFICES ASSUME NEW f, NEW S, IsFiniteSet(S), \A y \in S : f[y] = 0 PROVE Total(f, S) = 0
  OBVIOUS
<1>1. Total(f, S) = Total(f, {})
  BY TotalOfRest
<1> QED BY <1>1, TotalEmpty

LEMMA TotalSame ==
  \A f, g, S : IsFiniteSet(S) /\ (\A y \in S : f[y] \in Int /\ g[y] = f[y]) => Total(g, S) = Total(f, S)
<1> SUFFICES ASSUME NEW f, NEW g, NEW S, IsFiniteSet(S), \A y \in S : f[y] \in Int /\ g[y] = f[y]
             PROVE  Total(g, S) = Total(f, S)
  OBVIOUS
<1> DEFINE zero == [y \in S |-> 0]
<1>1. Total(zero, S) = 0
  BY TotalZero
<1>2. \A y \in S : zero[y] \in Int /\ g[y] = f[y] + zero[y]
  OBVIOUS
<1> HIDE DEF zero
<1>3. Total(g, S) = Total(f, S) + Total(zero, S) /\ Total(f, S) \in Int
  BY <1>2, TotalPlus, TotalInt
<1> QED BY <1>1, <1>3

LEMMA TotalMinus ==
  \A f, g, S : IsFiniteSet(S) /\ (\A y \in S : f[y] \in Int /\ g[y] = -f[y]) => Total(g, S) = -Total(f, S)
<1> SUFFICES ASSUME NEW f, NEW g, NEW S, IsFiniteSet(S), \A y \in S : f[y] \in Int /\ g[y] = -f[y]
             PROVE  Total(g, S) = -Total(f, S)
  OBVIOUS
<1> DEFINE zero == [y \in S |-> 0]
<1>1. Total(zero, S) = 0
  BY TotalZero
<1>2. \A y \in S : g[y] \in Int /\ zero[y] = f[y] + g[y]
  OBVIOUS
<1> HIDE DEF zero
<1>3. Total(zero, S) = Total(f, S) + Total(g, S) /\ Total(f, S) \in Int /\ Total(g, S) \in Int
  BY <1>2, TotalPlus, TotalInt
<1> QED BY <1>1, <1>3

\* What a change of some entries does to a sum.
LEMMA TotalChange ==
  ASSUME NEW f, NEW g, NEW d, NEW S, NEW D, IsFiniteSet(S), D \subseteq S,
         \A y \in S : f[y] \in Int /\ g[y] \in Int,
         \A y \in S \ D : g[y] = f[y], \A y \in D : d[y] = g[y] - f[y]
  PROVE  Total(g, S) = Total(f, S) + Total(d, D) /\ Total(f, S) \in Int /\ Total(d, D) \in Int
<1> DEFINE e == [y \in S |-> g[y] - f[y]]
<1>0. IsFiniteSet(D)
  BY FS_Subset
<1>1. /\ \A y \in S : e[y] \in Int /\ g[y] = f[y] + e[y]
      /\ \A y \in S \ D : e[y] = 0
      /\ \A y \in D : e[y] \in Int /\ d[y] = e[y] /\ d[y] \in Int
  OBVIOUS
<1> HIDE DEF e
<1>2. Total(g, S) = Total(f, S) + Total(e, S)
  BY <1>1, TotalPlus
<1>3. Total(e, S) = Total(e, D)
  BY <1>1, TotalOfRest
<1>4. Total(d, D) = Total(e, D)
  BY <1>0, <1>1, TotalSame
<1>5. Total(f, S) \in Int /\ Total(d, D) \in Int
  BY <1>0, <1>1, TotalInt
<1> QED BY <1>2, <1>3, <1>4, <1>5

-----------------------------------------------------------------------------
(* The inductive invariant *)

Kind == {"none", "invoice", "receipt", "bulk", "journal", "closing"}
Status == {"NONE", "DRAFT", "REVIEWED", "APPROVED", "POSTED", "DELETED"}

\* Rows of some of the keys.
Some(K, V) == UNION {[S -> V] : S \in SUBSET K}

\* A row that says PAID is paid.
InvoiceRow ==
  {r \in [status : {"DRAFT", "POSTED", "PARTIALLY_PAID", "PAID"}, total : Price, paid : Int] :
     r.status = "PAID" => r.paid >= r.total}

\* An invoice's own entry is born posted; allocations hang only on a posted bulk receipt.
EntryFits(e) ==
  /\ e.status = "NONE" <=> e.kind = "none"
  /\ e.kind = "none" => e.amount = 0
  /\ e.kind \in {"invoice", "receipt"} => e.ref \in Invoice /\ e.amount # 0
  /\ e.kind = "invoice" => e.status \in {"POSTED", "DELETED"}
  /\ e.kind = "bulk" => e.amount # 0
  /\ e.alloc # Nowhere =>
       e.kind = "bulk" /\ e.status = "POSTED" /\ e.amount - Total(e.alloc, Invoice) \in -1..1

EntryRow ==
  {e \in [kind : Kind, ref : Invoice \cup {None}, amount : Int, status : Status, alloc : [Invoice -> Nat]] :
     EntryFits(e)}

Closes == {"drafting", "reviewing", "approving", "posting"}

Rows == [inv : Some(Invoice, InvoiceRow), owed : {NoRows} \cup [Customer -> Int], ent : Some(Id, EntryRow)]
CallRow == [at : {"idle", "adding", "planned", "marking"} \cup Closes, step : {"idle"} \cup Closes,
            stale : BOOLEAN, write : Rows, lines : [Account -> Int], seen : Some(Account, Int),
            id : Int, sum : Int, drift : Int]

TypeInv ==
  /\ invoices \in [Invoice -> InvoiceRow]
  /\ owed \in [Customer -> Int]
  /\ entries \in [Id -> EntryRow]
  /\ balance \in [Account -> Int]
  /\ closed \in BOOLEAN
  /\ call \in [Call -> CallRow]
  /\ raced \in BOOLEAN
  /\ bypassed \in BOOLEAN
  /\ since \in Int

\* The entry an invoice was posted with, when it still counts.
Own(e, i) == e.kind = "invoice" /\ e.ref = i /\ e.status # "DELETED"

\* What a call saves as an invoice's own entry is all it saves of the journal, and it
\* saves the invoice, posted, with it.
OwnComesAlone(w) ==
  \A id \in DOMAIN w.ent : \A i \in Invoice : Own(w.ent[id], i) =>
    /\ DOMAIN w.ent = {id} /\ i \in DOMAIN w.inv
    /\ w.inv[i].status # "DRAFT" /\ w.ent[id].amount = w.inv[i].total

Planned(k) == k.at \in {"adding", "planned"}

CallFits(k) ==
  /\ ~Planned(k) => k.write = Nothing /\ k.seen = NoRows /\ ~k.stale /\ k.step = "idle"
  /\ k.at = "adding" => k.seen = NoRows
  /\ k.at = "planned" => DOMAIN k.seen = {a \in Account : k.lines[a] # 0}
  /\ OwnComesAlone(k.write)
  /\ k.step # "idle" => \E id \in Id : DOMAIN k.write.ent = {id}
  /\ k.at \in {"reviewing", "approving", "posting"} => k.id \in Id

\* What an entry adds to an account, and to what an invoice counts as paid.
Line(e, a) == IF e.status = "POSTED" THEN LinesOf(e)[a] ELSE 0
PaidBy(e, i) ==
  IF e.status # "POSTED" THEN 0
  ELSE IF e.kind = "receipt" /\ e.ref = i THEN e.amount ELSE e.alloc[i]

\* By how much a bulk receipt that was taken back may have set debts and accounts apart.
Rest(e) == IF e.kind = "bulk" /\ e.status # "POSTED" THEN 1 ELSE 0

LineSum(E, a) == Total([id \in Id |-> Line(E[id], a)], Id)
PaidSum(E, i) == Total([id \in Id |-> PaidBy(E[id], i)], Id)
RestSum(E) == Total([id \in Id |-> Rest(E[id])], Id)

\* What saving `w` changes in these sums, when the entries are E.
LineChange(w, E, a) == Total([id \in DOMAIN w.ent |-> Line(w.ent[id], a) - Line(E[id], a)], DOMAIN w.ent)
PaidChange(w, E, i) == Total([id \in DOMAIN w.ent |-> PaidBy(w.ent[id], i) - PaidBy(E[id], i)], DOMAIN w.ent)
RestChange(w, E) == Total([id \in DOMAIN w.ent |-> Rest(w.ent[id]) - Rest(E[id])], DOMAIN w.ent)

Within(x, n) == -n <= x /\ x <= n

\* What is owed moves with the receivables account, but for bulk receipts taken back.
OwedExact(w, lines, O, E) ==
  IF w.owed = NoRows THEN lines["receivable"] = 0 => RestChange(w, E) >= 0
  ELSE Within(w.owed["customer"] - O["customer"] - lines["receivable"], RestChange(w, E))

\* Saving `w` and posting `lines` is an exact change of the invoices I, what is owed O
\* and the entries E: the lines are those of the entries it posts or takes back, and
\* what is owed and paid moves with them.
PaidExact(w, I, E) ==
  \A i \in Invoice :
    PaidChange(w, E, i) = IF i \in DOMAIN w.inv THEN w.inv[i].paid - I[i].paid ELSE 0

\* A total changes only in a draft; an invoice is taken back with its own entry.
InvoicesExact(w, I, E) ==
  \A i \in DOMAIN w.inv :
    /\ w.inv[i].total = I[i].total \/ (w.inv[i].status = "DRAFT" /\ I[i].status = "DRAFT")
    /\ w.inv[i].status = "DRAFT" /\ I[i].status # "DRAFT" =>
         \A id \in Id : Own(E[id], i) => id \in DOMAIN w.ent

\* Only a draft is posted; an entry keeps its kind, and a closing entry its amount.
EntriesExact(w, I, E) ==
  \A id \in DOMAIN w.ent :
    /\ \A i \in Invoice : Own(w.ent[id], i) => I[i].status = "DRAFT"
    /\ \/ E[id].kind = "none"
       \/ /\ w.ent[id].kind = E[id].kind
          /\ w.ent[id].kind = "closing" => w.ent[id].amount = E[id].amount

Exact(w, lines, I, O, E) ==
  /\ \A a \in Account : lines[a] = LineChange(w, E, a)
  /\ OwedExact(w, lines, O, E)
  /\ w.owed # NoRows \/ lines["receivable"] = 0 => PaidExact(w, I, E)
  /\ InvoicesExact(w, I, E)
  /\ EntriesExact(w, I, E)

\* What a call has planned is still exact, and what it has read still so.
PlanHolds(k, I, O, E, B) ==
  Planned(k) /\ ~k.stale => Exact(k.write, k.lines, I, O, E) /\ \A a \in DOMAIN k.seen : k.seen[a] = B[a]

\* An invoice that is a draft has no entry of its own, any other at most one, of its total.
OwnFits(I, E) ==
  \A i \in Invoice :
    /\ I[i].status = "DRAFT" => \A id \in Id : ~Own(E[id], i)
    /\ \A id \in Id : Own(E[id], i) =>
         /\ E[id].amount = I[i].total
         /\ \A jd \in Id : Own(E[jd], i) => jd = id

BooksFit(B, E) == \A a \in Account : B[a] = LineSum(E, a)
PaidFits(I, E) == \A i \in Invoice : I[i].paid = PaidSum(E, i)
OwedFits(O, E) == Within(O["customer"] - LineSum(E, "receivable"), RestSum(E))

\* A year being closed: the revenue account holds the sum, or nothing any more, and
\* what others have posted since; the entry made for it is of that sum.
Summed(k, E) ==
  /\ k.at \in Closes \cup {"marking"} \/ k.step \in Closes =>
       LineSum(E, "revenue") = (IF k.at = "marking" THEN 0 ELSE k.sum) + k.drift
  /\ k.at \in {"reviewing", "approving", "posting"} =>
       E[k.id].kind = "closing" /\ E[k.id].amount = k.sum
  /\ k.step # "idle" =>
       /\ \A id \in DOMAIN k.write.ent :
            k.write.ent[id].kind = "closing" /\ k.write.ent[id].amount = k.sum
       /\ k.lines["revenue"] = IF k.step = "posting" THEN -k.sum ELSE 0

Inv ==
  /\ TypeInv
  /\ \A c \in Call : CallFits(call[c])
  /\ ~raced =>
       /\ BooksFit(balance, entries)
       /\ OwnFits(invoices, entries)
       /\ closed => LineSum(entries, "revenue") = since
       /\ ~bypassed => OwedFits(owed, entries) /\ PaidFits(invoices, entries)
       /\ \A c \in Call : PlanHolds(call[c], invoices, owed, entries, balance) /\ Summed(call[c], entries)

-----------------------------------------------------------------------------
(* Rows *)

LEMMA SomeIs ==
  \A K, V, f :
    f \in Some(K, V) <=> /\ f = [x \in DOMAIN f |-> f[x]]
                         /\ DOMAIN f \subseteq K
                         /\ \A x \in DOMAIN f : f[x] \in V
<1> TAKE K, V, f
<1>1. ASSUME f \in Some(K, V)
      PROVE  f = [x \in DOMAIN f |-> f[x]] /\ DOMAIN f \subseteq K /\ \A x \in DOMAIN f : f[x] \in V
  <2>1. PICK S \in SUBSET K : f \in [S -> V]
    BY <1>1 DEF Some
  <2> QED BY <2>1
<1>2. ASSUME f = [x \in DOMAIN f |-> f[x]], DOMAIN f \subseteq K, \A x \in DOMAIN f : f[x] \in V
      PROVE  f \in Some(K, V)
  <2>1. f \in [DOMAIN f -> V]
    BY <1>2
  <2> QED BY <1>2, <2>1 DEF Some
<1> QED BY <1>1, <1>2

LEMMA NoRowsIs == DOMAIN NoRows = {} /\ \A K, V : NoRows \in Some(K, V)
<1>1. NoRows = [x \in DOMAIN NoRows |-> NoRows[x]] /\ DOMAIN NoRows = {}
  BY DEF NoRows
<1>2. ASSUME NEW K, NEW V PROVE NoRows \in Some(K, V)
  BY <1>1, SomeIs
<1> QED BY <1>1, <1>2

LEMMA RowIs ==
  \A x, v : /\ DOMAIN Row(x, v) = {x} /\ Row(x, v)[x] = v
            /\ \A K, V : x \in K /\ v \in V => Row(x, v) \in Some(K, V)
<1> TAKE x, v
<1>1. DOMAIN Row(x, v) = {x} /\ Row(x, v)[x] = v /\ Row(x, v) = [y \in DOMAIN Row(x, v) |-> Row(x, v)[y]]
  BY DEF Row
<1>2. ASSUME NEW K, NEW V, x \in K, v \in V PROVE Row(x, v) \in Some(K, V)
  BY <1>1, <1>2, SomeIs
<1> QED BY <1>1, <1>2

LEMMA RowIn ==
  ASSUME NEW K, NEW V, NEW x \in K, NEW v \in V
  PROVE  Row(x, v) \in Some(K, V) /\ DOMAIN Row(x, v) = {x} /\ Row(x, v)[x] = v
BY RowIs

LEMMA OverIs ==
  \A w, f : /\ DOMAIN Over(w, f) = DOMAIN f
            /\ \A x \in DOMAIN f : Over(w, f)[x] = IF x \in DOMAIN w THEN w[x] ELSE f[x]
BY DEF Over

LEMMA OverType ==
  ASSUME NEW K, NEW V, NEW w \in Some(K, V), NEW f \in [K -> V]
  PROVE  Over(w, f) \in [K -> V]
<1>1. \A x \in DOMAIN w : w[x] \in V
  BY SomeIs
<1> QED BY <1>1 DEF Over

-----------------------------------------------------------------------------
(* Entries and their lines *)

USE DEF Account, Customer

LEMMA LinesAre ==
  \A e \in EntryRow :
    /\ LinesOf(e) \in [Account -> Int]
    /\ LinesOf(e)["receivable"] = IF e.kind = "invoice" THEN e.amount
                                  ELSE IF e.kind \in {"receipt", "bulk"} THEN -e.amount ELSE 0
    /\ LinesOf(e)["revenue"] = IF e.kind \in {"invoice", "journal"} THEN e.amount
                               ELSE IF e.kind = "closing" THEN -e.amount ELSE 0
<1> TAKE e \in EntryRow
<1>1. e.kind \in Kind /\ e.amount \in Int
  BY DEF EntryRow
<1> DEFINE T == Touches[e.kind]
<1>2. \A a \in Account : LinesOf(e)[a] = T[a] * e.amount
  BY DEF LinesOf
<1>3. LinesOf(e) = [a \in Account |-> LinesOf(e)[a]]
  BY DEF LinesOf
<1>4. CASE e.kind = "invoice"
  <2>1. T = [receivable |-> 1, bank |-> 0, revenue |-> 1, equity |-> 0]
    BY <1>4 DEF Touches
  <2> QED BY <1>1, <1>2, <1>3, <1>4, <2>1
<1>5. CASE e.kind = "receipt" \/ e.kind = "bulk"
  <2>1. T = [receivable |-> -1, bank |-> 1, revenue |-> 0, equity |-> 0]
    BY <1>5 DEF Touches
  <2> QED BY <1>1, <1>2, <1>3, <1>5, <2>1
<1>6. CASE e.kind = "journal"
  <2>1. T = [receivable |-> 0, bank |-> 1, revenue |-> 1, equity |-> 0]
    BY <1>6 DEF Touches
  <2> QED BY <1>1, <1>2, <1>3, <1>6, <2>1
<1>7. CASE e.kind = "closing"
  <2>1. T = [receivable |-> 0, bank |-> 0, revenue |-> -1, equity |-> 1]
    BY <1>7 DEF Touches
  <2> QED BY <1>1, <1>2, <1>3, <1>7, <2>1
<1>8. CASE e.kind = "none"
  <2>1. T = [receivable |-> 0, bank |-> 0, revenue |-> 0, equity |-> 0]
    BY <1>8 DEF Touches
  <2> QED BY <1>1, <1>2, <1>3, <1>8, <2>1
<1> QED BY <1>1, <1>4, <1>5, <1>6, <1>7, <1>8 DEF Kind

LEMMA NoLinesAre == NoLines \in [Account -> Int] /\ \A a \in Account : NoLines[a] = 0
BY DEF NoLines, Touches

LEMMA NowhereIs == Nowhere \in [Invoice -> Nat] /\ \A i \in Invoice : Nowhere[i] = 0
BY DEF Nowhere

LEMMA LineType == \A e \in EntryRow : \A a \in Account : Line(e, a) \in Int
BY LinesAre DEF Line

LEMMA PaidByType == \A e \in EntryRow : \A i \in Invoice : PaidBy(e, i) \in Int
BY DEF PaidBy, EntryRow

LEMMA IdsAreFinite == IsFiniteSet(Id) /\ \A D \in SUBSET Id : IsFiniteSet(D)
<1>1. IsFiniteSet(Id)
  BY EntriesAreBounded, FS_Interval DEF Id
<1> QED BY <1>1, FS_Subset

LEMMA NoEntryFits == NoEntry \in EntryRow
<1>1. /\ NoEntry.kind = "none" /\ NoEntry.status = "NONE" /\ NoEntry.amount = 0 /\ NoEntry.alloc = Nowhere
      /\ NoEntry \in [kind : Kind, ref : Invoice \cup {None}, amount : Int, status : Status, alloc : [Invoice -> Nat]]
  BY NowhereIs DEF NoEntry, Kind, Status
<1>2. EntryFits(NoEntry)
  BY <1>1 DEF EntryFits
<1> QED BY <1>1, <1>2 DEF EntryRow

LEMMA TotalNat ==
  \A f, S : IsFiniteSet(S) /\ (\A y \in S : f[y] \in Nat) => Total(f, S) \in Nat
<1> SUFFICES ASSUME NEW f, NEW S, IsFiniteSet(S), \A y \in S : f[y] \in Nat
             PROVE  Total(f, S) \in Nat
  OBVIOUS
<1> DEFINE Good == {T \in SUBSET S : Total(f, T) \in Nat}
<1>1. {} \in Good
  BY TotalEmpty
<1>2. ASSUME NEW T \in SUBSET S, NEW x \in T, T \ {x} \in Good PROVE T \in Good
  <2>1. \A y \in S : f[y] \in Int
    OBVIOUS
  <2>2. Total(f, T) = f[x] + Total(f, T \ {x})
    BY <2>1, TotalStep
  <2> QED BY <1>2, <2>2
<1>3. S \in Good
  <2> HIDE DEF Good
  <2> QED BY <1>1, <1>2, SubsetInduction
<1> QED BY <1>3

LEMMA TotalPositive ==
  \A f, S : IsFiniteSet(S) /\ (\A y \in S : f[y] \in Nat) /\ (\E y \in S : f[y] > 0) => Total(f, S) > 0
<1> SUFFICES ASSUME NEW f, NEW S, IsFiniteSet(S), \A y \in S : f[y] \in Nat, NEW x \in S, f[x] > 0
             PROVE  Total(f, S) > 0
  OBVIOUS
<1>1. \A y \in S : f[y] \in Int
  OBVIOUS
<1>2. Total(f, S) = f[x] + Total(f, S \ {x})
  BY <1>1, TotalStep
<1>3. IsFiniteSet(S \ {x})
  BY FS_RemoveElement
<1>4. Total(f, S \ {x}) \in Nat
  BY <1>3, TotalNat
<1> QED BY <1>2, <1>4

\* Saving entries changes the sums by the changes of what is saved.
LEMMA LineSumChange ==
  ASSUME NEW E \in [Id -> EntryRow], NEW s \in Some(Id, EntryRow), NEW a \in Account
  PROVE  /\ LineSum(Over(s, E), a) = LineSum(E, a)
              + Total([id \in DOMAIN s |-> Line(s[id], a) - Line(E[id], a)], DOMAIN s)
         /\ LineSum(E, a) \in Int
<1> DEFINE D == DOMAIN s
           F == Over(s, E)
           f == [id \in Id |-> Line(E[id], a)]
           g == [id \in Id |-> Line(F[id], a)]
           d == [id \in D |-> Line(s[id], a) - Line(E[id], a)]
<1>1. D \subseteq Id /\ \A id \in D : s[id] \in EntryRow
  BY SomeIs
<1>2. F \in [Id -> EntryRow]
  BY OverType
<1>3. \A id \in Id : F[id] = IF id \in D THEN s[id] ELSE E[id]
  BY OverIs
<1> HIDE DEF F, D
<1>4. \A id \in Id : f[id] \in Int /\ g[id] \in Int
  BY <1>2, LineType
<1>5. \A id \in Id \ D : g[id] = f[id]
  BY <1>3
<1>6. \A id \in D : d[id] = g[id] - f[id]
  BY <1>1, <1>3
<1> HIDE DEF f, g, d
<1>7. Total(g, Id) = Total(f, Id) + Total(d, D) /\ Total(f, Id) \in Int
  BY <1>1, <1>4, <1>5, <1>6, IdsAreFinite, TotalChange
<1> QED BY <1>7 DEF f, g, d, F, D, LineSum

LEMMA PaidSumChange ==
  ASSUME NEW E \in [Id -> EntryRow], NEW s \in Some(Id, EntryRow), NEW i \in Invoice
  PROVE  /\ PaidSum(Over(s, E), i) = PaidSum(E, i)
              + Total([id \in DOMAIN s |-> PaidBy(s[id], i) - PaidBy(E[id], i)], DOMAIN s)
         /\ PaidSum(E, i) \in Int
<1> DEFINE D == DOMAIN s
           F == Over(s, E)
           f == [id \in Id |-> PaidBy(E[id], i)]
           g == [id \in Id |-> PaidBy(F[id], i)]
           d == [id \in D |-> PaidBy(s[id], i) - PaidBy(E[id], i)]
<1>1. D \subseteq Id /\ \A id \in D : s[id] \in EntryRow
  BY SomeIs
<1>2. F \in [Id -> EntryRow]
  BY OverType
<1>3. \A id \in Id : F[id] = IF id \in D THEN s[id] ELSE E[id]
  BY OverIs
<1> HIDE DEF F, D
<1>4. \A id \in Id : f[id] \in Int /\ g[id] \in Int
  BY <1>2, PaidByType
<1>5. \A id \in Id \ D : g[id] = f[id]
  BY <1>3
<1>6. \A id \in D : d[id] = g[id] - f[id]
  BY <1>1, <1>3
<1> HIDE DEF f, g, d
<1>7. Total(g, Id) = Total(f, Id) + Total(d, D) /\ Total(f, Id) \in Int
  BY <1>1, <1>4, <1>5, <1>6, IdsAreFinite, TotalChange
<1> QED BY <1>7 DEF f, g, d, F, D, PaidSum

LEMMA RestType == \A e : Rest(e) \in {0, 1}
BY DEF Rest

LEMMA RestSumChange ==
  ASSUME NEW E \in [Id -> EntryRow], NEW s \in Some(Id, EntryRow)
  PROVE  LET change == Total([id \in DOMAIN s |-> Rest(s[id]) - Rest(E[id])], DOMAIN s)
         IN  /\ RestSum(Over(s, E)) = RestSum(E) + change
             /\ RestSum(E) \in Int /\ change \in Int
<1> DEFINE D == DOMAIN s
           F == Over(s, E)
           f == [id \in Id |-> Rest(E[id])]
           g == [id \in Id |-> Rest(F[id])]
           d == [id \in D |-> Rest(s[id]) - Rest(E[id])]
<1>1. D \subseteq Id
  BY SomeIs
<1>2. \A id \in Id : F[id] = IF id \in D THEN s[id] ELSE E[id]
  BY OverIs
<1> HIDE DEF F, D
<1>3. \A id \in Id : f[id] \in Int /\ g[id] \in Int
  BY RestType
<1>4. \A id \in Id \ D : g[id] = f[id]
  BY <1>2
<1>5. \A id \in D : d[id] = g[id] - f[id]
  BY <1>1, <1>2
<1> HIDE DEF f, g, d
<1>6. Total(g, Id) = Total(f, Id) + Total(d, D) /\ Total(f, Id) \in Int
  BY <1>1, <1>3, <1>4, <1>5, IdsAreFinite, TotalChange
<1>7. Total(d, D) \in Int
  <2>1. IsFiniteSet(D) /\ \A id \in D : d[id] \in Int
    BY <1>1, <1>3, <1>5, IdsAreFinite
  <2> QED BY <2>1, TotalInt
<1> QED BY <1>6, <1>7 DEF f, g, d, F, D, RestSum

\* A sum of ones counts.
LEMMA RestIs ==
  LET back == Cardinality({id \in Id : entries[id].kind = "bulk" /\ entries[id].status # "POSTED"})
  IN  RestSum(entries) = back /\ back \in Nat
<1> DEFINE Back(T) == {id \in T : entries[id].kind = "bulk" /\ entries[id].status # "POSTED"}
           f == [id \in Id |-> Rest(entries[id])]
           Good == {T \in SUBSET Id : Total(f, T) = Cardinality(Back(T)) /\ Cardinality(Back(T)) \in Nat}
<1>1. {} \in Good
  <2>1. Back({}) = {} /\ Total(f, {}) = 0
    BY TotalEmpty
  <2> QED BY <2>1, FS_EmptySet
<1>2. ASSUME NEW T \in SUBSET Id, NEW x \in T, T \ {x} \in Good PROVE T \in Good
  <2>1. \A y \in Id : f[y] \in Int
    BY RestType
  <2>2. x \in Id /\ f[x] = Rest(entries[x])
    OBVIOUS
  <2> DEFINE r == Rest(entries[x])
  <2> HIDE DEF f
  <2>3. Total(f, T) = r + Total(f, T \ {x})
    BY <2>1, <2>2, IdsAreFinite, TotalStep
  <2>4. Total(f, T \ {x}) = Cardinality(Back(T \ {x})) /\ Cardinality(Back(T \ {x})) \in Nat
    BY <1>2
  <2>5. Cardinality(Back(T)) = r + Cardinality(Back(T \ {x})) /\ r \in Nat
    <3>1. IsFiniteSet(Back(T)) /\ IsFiniteSet(Back(T \ {x}))
      BY IdsAreFinite
    <3>2. CASE x \in Back(T)
      <4>1. Back(T \ {x}) = Back(T) \ {x} /\ r = 1
        BY <3>2 DEF Rest
      <4>2. Cardinality(Back(T) \ {x}) = Cardinality(Back(T)) - 1 /\ Cardinality(Back(T)) \in Nat
        BY <3>1, <3>2, FS_RemoveElement, FS_CardinalityType
      <4> HIDE DEF Back, r
      <4>3. Cardinality(Back(T \ {x})) = Cardinality(Back(T) \ {x})
        BY <4>1, Zenon
      <4> QED BY <4>1, <4>2, <4>3
    <3>3. CASE x \notin Back(T)
      <4>1. Back(T \ {x}) = Back(T) /\ r = 0
        BY <3>3 DEF Rest
      <4> HIDE DEF Back, r
      <4> QED BY <2>4, <4>1
    <3> QED BY <3>2, <3>3
  <2> HIDE DEF Back, r
  <2>6. Total(f, T) = Cardinality(Back(T)) /\ Cardinality(Back(T)) \in Nat
    BY <2>3, <2>4, <2>5
  <2> QED BY <2>6
<1>3. Id \in Good
  <2> HIDE DEF Good
  <2> QED BY <1>1, <1>2, IdsAreFinite, SubsetInduction
<1> QED BY <1>3 DEF RestSum

\* The sums of the properties, as sums over all entries.
LEMMA PostedIs ==
  ASSUME entries \in [Id -> EntryRow], NEW a \in Account
  PROVE  Posted(a) = LineSum(entries, a)
<1> DEFINE P == {id \in Id : entries[id].status = "POSTED"}
           f == [id \in Id |-> Line(entries[id], a)]
           g == [id \in P |-> LinesOf(entries[id])[a]]
<1>1. \A id \in Id : f[id] \in Int
  BY LineType
<1>2. P \subseteq Id /\ IsFiniteSet(P)
  BY IdsAreFinite
<1>3. (\A id \in Id \ P : f[id] = 0) /\ \A id \in P : g[id] = f[id]
  BY DEF Line
<1>4. Posted(a) = Total(g, P)
  BY DEF Posted, LinesOfAll
<1> HIDE DEF f, g, P
<1>5. Total(f, Id) = Total(f, P)
  BY <1>1, <1>2, <1>3, IdsAreFinite, TotalOfRest
<1>6. Total(g, P) = Total(f, P)
  BY <1>1, <1>2, <1>3, TotalSame
<1> QED BY <1>4, <1>5, <1>6 DEF f, LineSum

LEMMA PaidIs ==
  ASSUME entries \in [Id -> EntryRow], NEW i \in Invoice
  PROVE  LET posted == {id \in Id : entries[id].status = "POSTED"}
         IN  PaidSum(entries, i) = AmountOf(Receipts(i)) + Total([id \in posted |-> entries[id].alloc[i]], posted)
<1> DEFINE R == Receipts(i)
           P == {id \in Id : entries[id].status = "POSTED"}
           f == [id \in Id |-> PaidBy(entries[id], i)]
           r == [id \in R |-> entries[id].amount]
           p == [id \in P |-> entries[id].alloc[i]]
           rr == [id \in Id |-> IF id \in R THEN entries[id].amount ELSE 0]
           pp == [id \in Id |-> IF id \in P THEN entries[id].alloc[i] ELSE 0]
<1>1. \A id \in Id : entries[id].amount \in Int /\ entries[id].alloc[i] \in Int /\ EntryFits(entries[id])
  BY DEF EntryRow
<1>2. /\ R \subseteq Id /\ P \subseteq Id
      /\ \A id \in Id : id \in R <=> entries[id].kind = "receipt" /\ entries[id].status = "POSTED" /\ entries[id].ref = i
  BY DEF Receipts, Is
<1>3. IsFiniteSet(R) /\ IsFiniteSet(P)
  BY <1>2, IdsAreFinite
<1>4. AmountOf(R) = Total(r, R)
  BY DEF AmountOf
<1>5. \A id \in Id : f[id] = rr[id] + pp[id]
  <2> TAKE id \in Id
  <2>1. CASE id \in R
    <3>1. entries[id].alloc[i] = 0
      BY <1>1, <1>2, <2>1, NowhereIs DEF EntryFits
    <3> QED BY <1>1, <1>2, <2>1, <3>1 DEF PaidBy
  <2>2. CASE id \notin R
    BY <1>1, <1>2, <2>2 DEF PaidBy
  <2> QED BY <2>1, <2>2
<1>6. /\ \A id \in Id : rr[id] \in Int /\ pp[id] \in Int
      /\ \A id \in R : r[id] = rr[id]
      /\ \A id \in P : p[id] = pp[id]
      /\ \A id \in Id \ R : rr[id] = 0
      /\ \A id \in Id \ P : pp[id] = 0
  BY <1>1, <1>2
<1> HIDE DEF R, P, f, r, p, rr, pp
<1>7. Total(f, Id) = Total(rr, Id) + Total(pp, Id)
  BY <1>5, <1>6, IdsAreFinite, TotalPlus
<1>8. Total(rr, Id) = Total(rr, R) /\ Total(pp, Id) = Total(pp, P)
  BY <1>2, <1>6, IdsAreFinite, TotalOfRest
<1>9. Total(r, R) = Total(rr, R) /\ Total(p, P) = Total(pp, P)
  BY <1>2, <1>3, <1>6, TotalSame
<1>10. PaidSum(entries, i) = AmountOf(R) + Total(p, P)
  BY <1>4, <1>7, <1>8, <1>9 DEF f, PaidSum
<1> QED BY <1>10 DEF p, P, R

-----------------------------------------------------------------------------
(* The first state, and the steps that save nothing *)

LEMMA NothingIs ==
  /\ Nothing \in Rows
  /\ DOMAIN Nothing.inv = {} /\ DOMAIN Nothing.owed = {} /\ DOMAIN Nothing.ent = {}
  /\ OwnComesAlone(Nothing)
BY NoRowsIs DEF Nothing, Rows, OwnComesAlone

LEMMA IdleIs == Idle \in CallRow /\ CallFits(Idle) /\ ~Planned(Idle)
<1>1. /\ Idle.at = "idle" /\ Idle.step = "idle" /\ Idle.write = Nothing /\ Idle.seen = NoRows
      /\ Idle.lines = NoLines /\ Idle.stale = FALSE
  BY DEF Idle
<1>2. Idle \in CallRow
  BY NothingIs, NoRowsIs, NoLinesAre DEF Idle, CallRow
<1>3. CallFits(Idle) /\ ~Planned(Idle)
  BY <1>1, NothingIs DEF CallFits, Planned
<1> QED BY <1>2, <1>3

\* A call that has planned nothing.
LEMMA RestingCall ==
  ASSUME NEW k \in CallRow, ~Planned(k), k.write = Nothing, k.seen = NoRows, ~k.stale, k.step = "idle",
         k.at \in {"reviewing", "approving", "posting"} => k.id \in Id
  PROVE  CallFits(k) /\ \A I, O, E, B : PlanHolds(k, I, O, E, B)
BY NothingIs DEF CallFits, PlanHolds, Planned

LEMMA InvInit == Init => Inv
<1> SUFFICES ASSUME Init PROVE Inv
  OBVIOUS
<1>1. TypeInv
  <2>1. invoices \in [Invoice -> InvoiceRow]
    <3>1. PICK total \in [Invoice -> Price] :
            invoices = [i \in Invoice |-> [status |-> "DRAFT", total |-> total[i], paid |-> 0]]
      BY DEF Init
    <3> QED BY <3>1 DEF InvoiceRow
  <2>2. entries \in [Id -> EntryRow] /\ call \in [Call -> CallRow]
    BY NoEntryFits, IdleIs DEF Init
  <2>3. owed \in [Customer -> Int] /\ balance \in [Account -> Int]
    BY DEF Init
  <2>4. closed = FALSE /\ raced = FALSE /\ bypassed = FALSE
    BY DEF Init
  <2>5. since \in Int
    BY DEF Init
  <2> QED BY <2>1, <2>2, <2>3, <2>4, <2>5 DEF TypeInv
<1>2. \A c \in Call : call[c] = Idle
  BY DEF Init
<1>3. \A id \in Id : entries[id].status = "NONE" /\ entries[id].kind = "none" /\ entries[id].alloc = Nowhere
  BY DEF Init, NoEntry
<1>4. ASSUME NEW a \in Account PROVE LineSum(entries, a) = 0
  <2> DEFINE f == [id \in Id |-> Line(entries[id], a)]
  <2>1. \A id \in Id : f[id] = 0
    BY <1>3 DEF Line
  <2> HIDE DEF f
  <2>2. Total(f, Id) = 0
    BY <2>1, IdsAreFinite, TotalZero
  <2> QED BY <2>2 DEF f, LineSum
<1>5. ASSUME NEW i \in Invoice PROVE PaidSum(entries, i) = 0
  <2> DEFINE f == [id \in Id |-> PaidBy(entries[id], i)]
  <2>1. \A id \in Id : f[id] = 0
    BY <1>3 DEF PaidBy
  <2> HIDE DEF f
  <2>2. Total(f, Id) = 0
    BY <2>1, IdsAreFinite, TotalZero
  <2> QED BY <2>2 DEF f, PaidSum
<1>6. BooksFit(balance, entries) /\ OwedFits(owed, entries)
  <2> DEFINE f == [id \in Id |-> Rest(entries[id])]
  <2>1. \A id \in Id : f[id] = 0
    BY <1>3 DEF Rest
  <2> HIDE DEF f
  <2>2. Total(f, Id) = 0
    BY <2>1, IdsAreFinite, TotalZero
  <2>3. RestSum(entries) = 0
    BY <2>2 DEF f, RestSum
  <2>4. owed["customer"] = 0 /\ LineSum(entries, "receivable") = 0
    BY <1>4 DEF Init
  <2>5. OwedFits(owed, entries)
    BY <2>3, <2>4 DEF OwedFits, Within
  <2> QED BY <1>4, <2>5 DEF BooksFit, Init
<1>7. OwnFits(invoices, entries)
  BY <1>3 DEF OwnFits, Own
<1>8. PaidFits(invoices, entries)
  <2>1. \A i \in Invoice : invoices[i].paid = 0
    BY DEF Init
  <2> QED BY <1>5, <2>1 DEF PaidFits
<1>9. \A c \in Call : /\ PlanHolds(call[c], invoices, owed, entries, balance)
                      /\ Summed(call[c], entries)
  BY <1>2, IdleIs DEF PlanHolds, Summed, Idle, Closes
<1> QED BY <1>1, <1>2, <1>6, <1>7, <1>8, <1>9, IdleIs DEF Inv, Init

\* The rows stay as they are, and no other call changes.
LEMMA SameRows ==
  ASSUME Inv, UNCHANGED <<rows, raced, bypassed, since>>,
         NEW c \in Call, NEW k \in CallRow, call' = [call EXCEPT ![c] = k],
         CallFits(k),
         ~raced => PlanHolds(k, invoices, owed, entries, balance) /\ Summed(k, entries)
  PROVE  Inv'
<1>1. call \in [Call -> CallRow]
  BY DEF Inv, TypeInv
<1>2. TypeInv'
  BY <1>1 DEF Inv, TypeInv, rows
<1>3. \A d \in Call : call'[d] = IF d = c THEN k ELSE call[d]
  BY <1>1
<1>4. \A d \in Call : CallFits(call'[d])
  BY <1>3 DEF Inv
<1>5. ASSUME ~raced'
      PROVE  /\ BooksFit(balance', entries')
             /\ OwnFits(invoices', entries')
             /\ closed' => LineSum(entries', "revenue") = since'
             /\ ~bypassed' => OwedFits(owed', entries') /\ PaidFits(invoices', entries')
             /\ \A d \in Call : /\ PlanHolds(call'[d], invoices', owed', entries', balance')
                                /\ Summed(call'[d], entries')
  BY <1>3, <1>5 DEF Inv, rows
<1> QED BY <1>2, <1>4, <1>5 DEF Inv

LEMMA KeepsIdle ==
  ASSUME Inv, UNCHANGED <<rows, raced, bypassed, since>>,
         NEW c \in Call, call' = [call EXCEPT ![c] = Idle]
  PROVE  Inv'
<1>1. Summed(Idle, entries) /\ PlanHolds(Idle, invoices, owed, entries, balance)
  BY IdleIs DEF Summed, PlanHolds, Idle, Closes
<1> QED BY <1>1, IdleIs, SameRows

LEMMA AbortKeeps == ASSUME Inv, NEW c \in Call, Abort(c) PROVE Inv'
BY KeepsIdle DEF Abort

LEMMA CloseReadKeeps == ASSUME Inv, NEW c \in Call, CloseRead(c) PROVE Inv'
<1> DEFINE sum == Posted("revenue")
           k == [Idle EXCEPT !.at = IF sum = 0 THEN "marking" ELSE "drafting", !.sum = sum]
<1>1. sum = LineSum(entries, "revenue") /\ sum \in Int
  <2>1. sum = LineSum(entries, "revenue")
    BY PostedIs DEF Inv, TypeInv
  <2>2. LineSum(entries, "revenue") \in Int
    <3>1. entries \in [Id -> EntryRow] /\ NoRows \in Some(Id, EntryRow) /\ "revenue" \in Account
      BY NoRowsIs DEF Inv, TypeInv
    <3> QED BY <3>1, LineSumChange
  <2> QED BY <2>1, <2>2
<1>2. call' = [call EXCEPT ![c] = k] /\ UNCHANGED <<rows, raced, bypassed, since>>
  BY DEF CloseRead
<1> HIDE DEF sum
<1>3. /\ k \in CallRow /\ k.at = (IF sum = 0 THEN "marking" ELSE "drafting") /\ k.sum = sum /\ k.drift = 0
      /\ k.write = Nothing /\ k.seen = NoRows /\ k.stale = FALSE /\ k.step = "idle"
  BY <1>1, NothingIs, NoRowsIs, NoLinesAre DEF Idle, CallRow, Closes
<1> HIDE DEF k
<1>4. CallFits(k) /\ PlanHolds(k, invoices, owed, entries, balance)
  BY <1>3, RestingCall DEF Planned
<1>5. Summed(k, entries)
  BY <1>1, <1>3 DEF Summed, Closes
<1> QED BY <1>2, <1>3, <1>4, <1>5, SameRows

\* The year is closed with what others have posted since the sum.
LEMMA CloseMarkKeeps == ASSUME Inv, NEW c \in Call, CloseMark(c) PROVE Inv'
<1>0. /\ call \in [Call -> CallRow] /\ call[c].at = "marking"
      /\ closed' = TRUE /\ since' = call[c].drift /\ call' = [call EXCEPT ![c] = Idle]
      /\ UNCHANGED <<invoices, owed, entries, balance, raced, bypassed>>
  BY DEF CloseMark, At, Inv, TypeInv
<1>1. call[c].drift \in Int
  BY <1>0 DEF CallRow
<1>2. TypeInv'
  BY <1>0, <1>1, IdleIs DEF Inv, TypeInv
<1>3. \A d \in Call : call'[d] = IF d = c THEN Idle ELSE call[d]
  BY <1>0
<1>4. \A d \in Call : CallFits(call'[d])
  BY <1>3, IdleIs DEF Inv
<1>5. Summed(Idle, entries) /\ PlanHolds(Idle, invoices, owed, entries, balance)
  BY IdleIs DEF Summed, PlanHolds, Idle, Closes
<1>6. ASSUME ~raced'
      PROVE  /\ BooksFit(balance', entries')
             /\ OwnFits(invoices', entries')
             /\ closed' => LineSum(entries', "revenue") = since'
             /\ ~bypassed' => OwedFits(owed', entries') /\ PaidFits(invoices', entries')
             /\ \A d \in Call : /\ PlanHolds(call'[d], invoices', owed', entries', balance')
                                /\ Summed(call'[d], entries')
  <2>1. Summed(call[c], entries)
    BY <1>0, <1>6 DEF Inv
  <2>2. LineSum(entries, "revenue") = call[c].drift
    BY <1>0, <1>1, <2>1 DEF Summed
  <2> QED BY <1>0, <1>3, <1>5, <1>6, <2>2 DEF Inv
<1> QED BY <1>2, <1>4, <1>6 DEF Inv

LEMMA ReadBalancesKeeps == ASSUME Inv, NEW c \in Call, ReadBalances(c) PROVE Inv'
<1> DEFINE A == {a \in Account : call[c].lines[a] # 0}
           seen == [a \in A |-> balance[a]]
           k == [call[c] EXCEPT !.at = "planned", !.seen = seen]
<1>1. /\ call[c] \in CallRow /\ call[c].at = "adding"
      /\ UNCHANGED <<rows, raced, bypassed, since>>
  BY DEF ReadBalances, At, Inv, TypeInv
<1>2. call' = [call EXCEPT ![c] = k]
  BY DEF ReadBalances, Inv, TypeInv
<1>3. DOMAIN seen = A /\ (\A a \in A : seen[a] = balance[a]) /\ seen \in Some(Account, Int)
  <2>1. \A a \in A : seen[a] \in Int
    BY DEF Inv, TypeInv
  <2> QED BY <2>1, SomeIs
<1> HIDE DEF seen
<1>4. /\ k \in CallRow /\ k.at = "planned" /\ k.seen = seen /\ k.write = call[c].write
      /\ k.lines = call[c].lines /\ k.step = call[c].step /\ k.stale = call[c].stale
      /\ k.sum = call[c].sum /\ k.drift = call[c].drift
  BY <1>1, <1>3 DEF CallRow
<1> HIDE DEF k
<1>5. CallFits(k)
  <2>1. CallFits(call[c])
    BY DEF Inv
  <2> QED BY <1>1, <1>3, <1>4, <2>1 DEF CallFits, Planned
<1>6. ASSUME ~raced PROVE PlanHolds(k, invoices, owed, entries, balance) /\ Summed(k, entries)
  <2>1. PlanHolds(call[c], invoices, owed, entries, balance) /\ Summed(call[c], entries)
    BY <1>6 DEF Inv
  <2>2. PlanHolds(k, invoices, owed, entries, balance)
    BY <1>1, <1>3, <1>4, <2>1 DEF PlanHolds, Planned
  <2>3. Summed(k, entries)
    BY <1>1, <1>4, <2>1 DEF Summed, Closes
  <2> QED BY <2>2, <2>3
<1> QED BY <1>1, <1>2, <1>4, <1>5, <1>6, SameRows

\* A plan that is exact is kept.
LEMMA PlanKeeps ==
  ASSUME Inv, NEW c \in Call, NEW w \in Rows, NEW lines \in [Account -> Int], Plan(c, w, lines),
         call[c].at \in {"idle"} \cup Closes,
         OwnComesAlone(w),
         ~raced => Exact(w, lines, invoices, owed, entries),
         call[c].at # "idle" => \E id \in Id : DOMAIN w.ent = {id},
         call[c].at # "idle" /\ ~raced =>
           /\ \A id \in DOMAIN w.ent : w.ent[id].kind = "closing" /\ w.ent[id].amount = call[c].sum
           /\ lines["revenue"] = IF call[c].at = "posting" THEN -call[c].sum ELSE 0
  PROVE  Inv'
<1> DEFINE k == [call[c] EXCEPT !.at = IF lines = NoLines THEN "planned" ELSE "adding",
                                !.step = call[c].at, !.write = w, !.lines = lines]
<1>1. call[c] \in CallRow /\ CallFits(call[c]) /\ UNCHANGED <<rows, raced, bypassed, since>>
  BY DEF Inv, TypeInv, Plan
<1>2. call' = [call EXCEPT ![c] = k]
  BY DEF Plan
<1>3. /\ k \in CallRow /\ k.at = (IF lines = NoLines THEN "planned" ELSE "adding") /\ k.step = call[c].at
      /\ k.write = w /\ k.lines = lines /\ k.seen = call[c].seen /\ k.stale = call[c].stale
      /\ k.sum = call[c].sum /\ k.drift = call[c].drift
  BY <1>1 DEF CallRow
<1>4. call[c].seen = NoRows /\ DOMAIN NoRows = {}
  BY <1>1, NoRowsIs DEF CallFits, Planned, Closes
<1> HIDE DEF k
<1>5. CallFits(k)
  <2>1. Planned(k)
    BY <1>3 DEF Planned
  <2>2. k.at = "planned" => DOMAIN k.seen = {a \in Account : k.lines[a] # 0}
    BY <1>3, <1>4, NoLinesAre
  <2> QED BY <1>3, <1>4, <2>1, <2>2 DEF CallFits
<1>6. ASSUME ~raced PROVE PlanHolds(k, invoices, owed, entries, balance) /\ Summed(k, entries)
  <2>1. PlanHolds(k, invoices, owed, entries, balance)
    BY <1>3, <1>4, <1>6 DEF PlanHolds
  <2>2. Summed(call[c], entries)
    BY <1>6 DEF Inv
  <2>3. Summed(k, entries)
    BY <1>3, <1>6, <2>2 DEF Summed, Closes
  <2> QED BY <2>1, <2>3
<1> QED BY <1>1, <1>2, <1>3, <1>5, <1>6, SameRows

-----------------------------------------------------------------------------
(* Commits *)

LEMMA ClosingIs ==
  ASSUME Inv, NEW d \in Call
  PROVE  Closing(d) <=> call[d].at \in Closes \cup {"marking"} \/ call[d].step \in Closes
<1>1. DOMAIN Follow = {"idle"} \cup Closes
  BY DEF Follow, Closes
<1>2. (DOMAIN Follow \cup {"marking"}) \ {"idle"} = Closes \cup {"marking"}
  BY <1>1 DEF Closes
<1>3. call[d].step \in {"idle"} \cup Closes
  BY DEF Inv, TypeInv, CallRow
<1> QED BY <1>2, <1>3 DEF Closing, Closes

\* Another call's row after a commit.
LEMMA OtherCall ==
  ASSUME Inv, NEW c \in Call, Commit(c), NEW d \in Call, d # c
  PROVE  LET k == call[d]
             l == call'[d]
         IN  /\ k \in CallRow /\ l \in CallRow
             /\ l.at = k.at /\ l.step = k.step /\ l.write = k.write /\ l.lines = k.lines /\ l.seen = k.seen
             /\ l.id = k.id /\ l.sum = k.sum
             /\ ~l.stale => ~k.stale /\ ~Overlap(k, call[c])
             /\ ~k.stale /\ ~Planned(k) => ~l.stale
             /\ l.drift = IF k.at \in Closes \cup {"marking"} \/ k.step \in Closes
                          THEN k.drift + call[c].lines["revenue"] ELSE k.drift
<1> DEFINE k == call[d]
           over == Overlap(k, call[c])
           drift == IF Closing(d) THEN k.drift + call[c].lines["revenue"] ELSE k.drift
           l == [k EXCEPT !.stale = (k.stale \/ over), !.drift = drift]
<1>1. k \in CallRow /\ call[c] \in CallRow
  BY DEF Inv, TypeInv
<1>2. call'[d] = l
  BY DEF Commit
<1>3. call[c].lines["revenue"] \in Int /\ k.drift \in Int /\ k.stale \in BOOLEAN
  BY <1>1 DEF CallRow
<1>4. drift \in Int
  BY <1>3
<1>5. (k.stale \/ over) \in BOOLEAN
  OBVIOUS
<1>6. over => Planned(k)
  <2>1. CallFits(k)
    BY DEF Inv
  <2>2. ~Planned(k) => k.write = Nothing /\ DOMAIN k.seen = {}
    BY <2>1, NoRowsIs DEF CallFits
  <2> QED BY <2>2, NothingIs DEF Overlap
<1>7. drift = IF k.at \in Closes \cup {"marking"} \/ k.step \in Closes
              THEN k.drift + call[c].lines["revenue"] ELSE k.drift
  BY ClosingIs
<1> HIDE DEF k, over, drift
<1>8. /\ l \in CallRow /\ l.at = k.at /\ l.step = k.step /\ l.write = k.write /\ l.lines = k.lines
      /\ l.seen = k.seen /\ l.id = k.id /\ l.sum = k.sum /\ l.drift = drift
  BY <1>1, <1>4, <1>5 DEF CallRow
<1>9. l.stale = (k.stale \/ over)
  BY <1>1 DEF CallRow
<1> HIDE DEF l
<1>10. (~l.stale => ~k.stale /\ ~over) /\ (~k.stale /\ ~Planned(k) => ~l.stale)
  BY <1>6, <1>9, Zenon
<1> QED BY <1>1, <1>2, <1>7, <1>8, <1>10 DEF k, over

\* The call's own row: it is over, or closing the year goes on.
LEMMA OwnCall ==
  ASSUME Inv, NEW c \in Call, Commit(c)
  PROVE  LET k == call[c]
             l == call'[c]
         IN  /\ l \in CallRow /\ ~Planned(l)
             /\ l.write = Nothing /\ l.seen = NoRows /\ l.stale = FALSE /\ l.step = "idle"
             /\ k.step = "idle" => l = Idle
             /\ k.step # "idle" => /\ l.at = Follow[k.step] /\ l.sum = k.sum /\ l.drift = k.drift
                                   /\ l.id \in Id /\ DOMAIN k.write.ent = {l.id}
<1> DEFINE k == call[c]
           next == CHOOSE id \in DOMAIN k.write.ent : TRUE
           l == [Idle EXCEPT !.at = Follow[k.step], !.sum = k.sum, !.drift = k.drift, !.id = next]
<1>1. k \in CallRow /\ CallFits(k)
  BY DEF Inv, TypeInv
<1>2. call'[c] = IF k.step = "idle" THEN Idle ELSE l
  BY DEF Commit
<1>3. CASE k.step = "idle"
  BY <1>2, <1>3, IdleIs DEF Idle
<1>4. CASE k.step # "idle"
  <2>1. PICK id \in Id : DOMAIN k.write.ent = {id}
    BY <1>1, <1>4 DEF CallFits
  <2>2. next = id
    BY <2>1
  <2>3. k.step \in Closes /\ k.sum \in Int /\ k.drift \in Int /\ id \in Int
    BY <1>1, <1>4, <2>1, EntriesAreBounded DEF CallRow, Id
  <2>4. Follow[k.step] \in {"reviewing", "approving", "posting", "marking"}
    BY <2>3 DEF Follow, Closes
  <2> HIDE DEF next, k
  <2>5. /\ l \in CallRow /\ l.at = Follow[k.step] /\ l.sum = k.sum /\ l.drift = k.drift /\ l.id = next
        /\ l.write = Nothing /\ l.seen = NoRows /\ l.stale = FALSE /\ l.step = "idle"
    BY <2>2, <2>3, <2>4, NothingIs, NoRowsIs, NoLinesAre DEF Idle, CallRow, Closes
  <2>6. call'[c] = l
    BY <1>2, <1>4
  <2> HIDE DEF l
  <2>7. ~Planned(l)
    BY <2>4, <2>5 DEF Planned
  <2> QED BY <1>4, <2>1, <2>2, <2>5, <2>6, <2>7 DEF k
<1> QED BY <1>3, <1>4

LEMMA CommitTypes == ASSUME Inv, NEW c \in Call, Commit(c) PROVE TypeInv' /\ \A d \in Call : CallFits(call'[d])
<1> DEFINE k == call[c]
<1>1. /\ k \in CallRow /\ k.write \in Rows /\ k.seen \in Some(Account, Int) /\ k.lines \in [Account -> Int]
      /\ k.write.inv \in Some(Invoice, InvoiceRow) /\ k.write.ent \in Some(Id, EntryRow)
      /\ k.write.owed \in {NoRows} \cup [Customer -> Int]
  BY DEF Inv, TypeInv, CallRow, Rows
<1>2. invoices' \in [Invoice -> InvoiceRow] /\ entries' \in [Id -> EntryRow]
  BY <1>1, OverType DEF Inv, TypeInv, Commit
<1>3. owed' \in [Customer -> Int]
  <2>1. k.write.owed \in Some(Customer, Int)
    BY <1>1, NoRowsIs, SomeIs
  <2> QED BY <2>1, OverType DEF Inv, TypeInv, Commit
<1>4. balance' \in [Account -> Int]
  <2> DEFINE b == [a \in DOMAIN k.seen |-> k.seen[a] + k.lines[a]]
  <2>1. DOMAIN k.seen \subseteq Account /\ \A a \in DOMAIN k.seen : k.seen[a] \in Int
    BY <1>1, SomeIs
  <2>2. DOMAIN b = DOMAIN k.seen /\ \A a \in DOMAIN b : b[a] \in Int
    BY <1>1, <2>1
  <2>3. b = [a \in DOMAIN b |-> b[a]]
    OBVIOUS
  <2>4. b \in Some(Account, Int)
    BY <2>1, <2>2, <2>3, SomeIs
  <2>5. balance' = Over(b, balance)
    BY DEF Commit
  <2> QED BY <2>4, <2>5, OverType DEF Inv, TypeInv
<1>5. call' \in [Call -> CallRow]
  <2>1. \A d \in Call : call'[d] \in CallRow
    BY OtherCall, OwnCall
  <2> DEFINE new(d) ==
        IF d # c THEN [call[d] EXCEPT !.stale = @ \/ Overlap(call[d], call[c]),
                                      !.drift = IF Closing(d) THEN @ + call[c].lines["revenue"] ELSE @]
        ELSE IF call[c].step = "idle" THEN Idle
        ELSE [Idle EXCEPT !.at = Follow[call[c].step], !.sum = call[c].sum, !.drift = call[c].drift,
                          !.id = CHOOSE id \in DOMAIN k.write.ent : TRUE]
  <2>3. call' = [d \in Call |-> new(d)]
    BY DEF Commit
  <2> HIDE DEF new
  <2>2. call' = [d \in Call |-> call'[d]]
    BY <2>3
  <2> QED BY <2>1, <2>2
<1>6. raced' \in BOOLEAN /\ bypassed' \in BOOLEAN
  <2>1. /\ raced' = (raced \/ k.stale)
        /\ bypassed' = (bypassed \/ (k.lines["receivable"] # 0 /\ k.write.owed = NoRows))
    BY DEF Commit
  <2> QED BY <2>1, Zenon
<1>7. closed' \in BOOLEAN /\ since' \in Int
  <2>1. since' = (IF closed THEN since + k.lines["revenue"] ELSE 0) /\ closed' = closed
    BY DEF Commit
  <2> QED BY <1>1, <2>1 DEF Inv, TypeInv
<1>8. \A d \in Call : CallFits(call'[d])
  <2>1. ASSUME NEW d \in Call, d # c PROVE CallFits(call'[d])
    <3> DEFINE l == call'[d]
               m == call[d]
    <3>1. CallFits(m)
      BY DEF Inv
    <3>2. /\ l.at = m.at /\ l.step = m.step /\ l.write = m.write /\ l.lines = m.lines /\ l.seen = m.seen
          /\ l.sum = m.sum /\ l.id = m.id /\ (~m.stale /\ ~Planned(m) => ~l.stale)
      BY <2>1, OtherCall
    <3> HIDE DEF l, m
    <3>3. CallFits(l)
      BY <3>1, <3>2 DEF CallFits, Planned
    <3> QED BY <3>3 DEF l
  <2>2. CallFits(call'[c])
    <3> DEFINE l == call'[c]
    <3>1. /\ l \in CallRow /\ ~Planned(l)
          /\ l.write = Nothing /\ l.seen = NoRows /\ ~l.stale /\ l.step = "idle"
          /\ call[c].step = "idle" => l = Idle
          /\ call[c].step # "idle" => l.id \in Id
      BY OwnCall
    <3> HIDE DEF l
    <3>2. l.at \in {"reviewing", "approving", "posting"} => l.id \in Id
      BY <3>1 DEF Idle
    <3>3. CallFits(l)
      BY <3>1, <3>2, RestingCall
    <3> QED BY <3>3 DEF l
  <2> QED BY <2>1, <2>2
<1> QED BY <1>2, <1>3, <1>4, <1>5, <1>6, <1>7, <1>8 DEF TypeInv

\* What a commit does when nothing it overwrites was written since it was read.
LEMMA CommitMoves ==
  ASSUME Inv, NEW c \in Call, Commit(c), ~raced'
  PROVE  LET k == call[c]
         IN  /\ ~raced /\ Exact(k.write, k.lines, invoices, owed, entries)
             /\ \A a \in Account : k.lines[a] \in Int
             /\ \A i \in Invoice : invoices'[i] = IF i \in DOMAIN k.write.inv THEN k.write.inv[i] ELSE invoices[i]
             /\ \A id \in Id : entries'[id] = IF id \in DOMAIN k.write.ent THEN k.write.ent[id] ELSE entries[id]
             /\ \A a \in Account : /\ LineSum(entries', a) = LineSum(entries, a) + k.lines[a]
                                   /\ LineSum(entries, a) \in Int
                                   /\ balance'[a] = balance[a] + k.lines[a]
             /\ \A i \in Invoice : PaidSum(entries', i) = PaidSum(entries, i) + PaidChange(k.write, entries, i)
             /\ RestSum(entries') = RestSum(entries) + RestChange(k.write, entries)
             /\ RestSum(entries) \in Int /\ RestChange(k.write, entries) \in Int
<1> DEFINE k == call[c]
<1>1. /\ k \in CallRow /\ k.write \in Rows /\ k.seen \in Some(Account, Int) /\ k.lines \in [Account -> Int]
      /\ k.write.inv \in Some(Invoice, InvoiceRow) /\ k.write.ent \in Some(Id, EntryRow)
      /\ invoices \in [Invoice -> InvoiceRow] /\ entries \in [Id -> EntryRow] /\ balance \in [Account -> Int]
  BY DEF Inv, TypeInv, CallRow, Rows
<1>2. raced' = (raced \/ k.stale) /\ k.at = "planned"
  BY DEF Commit, At
<1>3. ~raced /\ ~k.stale
  BY <1>2
<1>4. PlanHolds(k, invoices, owed, entries, balance) /\ CallFits(k)
  BY <1>3 DEF Inv
<1>5. Exact(k.write, k.lines, invoices, owed, entries) /\ \A a \in DOMAIN k.seen : k.seen[a] = balance[a]
  BY <1>2, <1>3, <1>4 DEF PlanHolds, Planned
<1>6. invoices' = Over(k.write.inv, invoices) /\ entries' = Over(k.write.ent, entries)
  BY DEF Commit
<1>7. /\ \A i \in Invoice : invoices'[i] = IF i \in DOMAIN k.write.inv THEN k.write.inv[i] ELSE invoices[i]
      /\ \A id \in Id : entries'[id] = IF id \in DOMAIN k.write.ent THEN k.write.ent[id] ELSE entries[id]
  BY <1>1, <1>6, OverIs
<1>8. ASSUME NEW a \in Account
      PROVE  LineSum(entries', a) = LineSum(entries, a) + k.lines[a] /\ LineSum(entries, a) \in Int
  <2>1. k.lines[a] = LineChange(k.write, entries, a)
    BY <1>5 DEF Exact
  <2>2. /\ LineSum(entries', a) = LineSum(entries, a) + LineChange(k.write, entries, a)
        /\ LineSum(entries, a) \in Int
    BY <1>1, <1>6, LineSumChange DEF LineChange
  <2> QED BY <2>1, <2>2
<1>9. ASSUME NEW a \in Account PROVE balance'[a] = balance[a] + k.lines[a]
  <2>1. balance'[a] = IF a \in DOMAIN k.seen THEN k.seen[a] + k.lines[a] ELSE balance[a]
    <3> DEFINE b == [x \in DOMAIN k.seen |-> k.seen[x] + k.lines[x]]
    <3>1. balance' = Over(b, balance)
      BY DEF Commit
    <3>2. balance'[a] = IF a \in DOMAIN b THEN b[a] ELSE balance[a]
      BY <1>1, <3>1, OverIs
    <3> QED BY <3>2
  <2>2. a \in DOMAIN k.seen <=> k.lines[a] # 0
    BY <1>2, <1>4 DEF CallFits
  <2>3. balance[a] \in Int /\ k.lines[a] \in Int
    BY <1>1
  <2> QED BY <1>5, <2>1, <2>2, <2>3
<1>10. ASSUME NEW i \in Invoice
       PROVE  PaidSum(entries', i) = PaidSum(entries, i) + PaidChange(k.write, entries, i)
  BY <1>1, <1>6, PaidSumChange DEF PaidChange
<1>11. /\ RestSum(entries') = RestSum(entries) + RestChange(k.write, entries)
       /\ RestSum(entries) \in Int /\ RestChange(k.write, entries) \in Int
  BY <1>1, <1>6, RestSumChange DEF RestChange
<1> QED BY <1>1, <1>3, <1>5, <1>7, <1>8, <1>9, <1>10, <1>11

LEMMA CommitSums ==
  ASSUME Inv, NEW c \in Call, Commit(c), ~raced'
  PROVE  /\ BooksFit(balance', entries')
         /\ closed' => LineSum(entries', "revenue") = since'
         /\ ~bypassed' => OwedFits(owed', entries') /\ PaidFits(invoices', entries')
<1> DEFINE k == call[c]
<1>1. /\ ~raced /\ Exact(k.write, k.lines, invoices, owed, entries)
      /\ \A a \in Account : k.lines[a] \in Int
      /\ \A i \in Invoice : invoices'[i] = IF i \in DOMAIN k.write.inv THEN k.write.inv[i] ELSE invoices[i]
      /\ \A a \in Account : /\ LineSum(entries', a) = LineSum(entries, a) + k.lines[a]
                            /\ LineSum(entries, a) \in Int
                            /\ balance'[a] = balance[a] + k.lines[a]
      /\ \A i \in Invoice : PaidSum(entries', i) = PaidSum(entries, i) + PaidChange(k.write, entries, i)
      /\ RestSum(entries') = RestSum(entries) + RestChange(k.write, entries)
      /\ RestSum(entries) \in Int /\ RestChange(k.write, entries) \in Int
  BY CommitMoves
<1>2. /\ BooksFit(balance, entries)
      /\ closed => LineSum(entries, "revenue") = since
      /\ ~bypassed => OwedFits(owed, entries) /\ PaidFits(invoices, entries)
  BY <1>1 DEF Inv
<1>3. BooksFit(balance', entries')
  BY <1>1, <1>2 DEF BooksFit
<1>4. closed' => LineSum(entries', "revenue") = since'
  <2>1. closed' = closed /\ since' = IF closed THEN since + k.lines["revenue"] ELSE 0
    BY DEF Commit
  <2> QED BY <1>1, <1>2, <2>1
<1>5. ASSUME ~bypassed' PROVE OwedFits(owed', entries') /\ PaidFits(invoices', entries')
  <2>1. bypassed' = (bypassed \/ (k.lines["receivable"] # 0 /\ k.write.owed = NoRows))
    BY DEF Commit
  <2>2. ~bypassed /\ (k.write.owed # NoRows \/ k.lines["receivable"] = 0)
    BY <1>5, <2>1
  <2>3. owed' = Over(k.write.owed, owed) /\ owed \in [Customer -> Int]
        /\ k.write.owed \in {NoRows} \cup [Customer -> Int]
        /\ invoices \in [Invoice -> InvoiceRow]
    BY DEF Commit, Inv, TypeInv, CallRow, Rows
  <2>4. Within(owed'["customer"] - owed["customer"] - k.lines["receivable"], RestChange(k.write, entries))
    <3>1. OwedExact(k.write, k.lines, owed, entries)
      BY <1>1 DEF Exact
    <3>2. CASE k.write.owed = NoRows
      <4>1. owed'["customer"] = owed["customer"] /\ owed["customer"] \in Int
        BY <2>3, <3>2, OverIs, NoRowsIs
      <4>2. k.lines["receivable"] = 0 /\ RestChange(k.write, entries) >= 0
        BY <2>2, <3>1, <3>2 DEF OwedExact
      <4> QED BY <1>1, <4>1, <4>2 DEF Within
    <3>3. CASE k.write.owed # NoRows
      <4>1. "customer" \in DOMAIN k.write.owed
        BY <2>3, <3>3
      <4>2. owed'["customer"] = k.write.owed["customer"]
        BY <2>3, <4>1, OverIs
      <4> QED BY <3>1, <3>3, <4>2 DEF OwedExact
    <3> QED BY <3>2, <3>3
  <2>5. OwedFits(owed', entries')
    <3>1. owed["customer"] \in Int /\ owed'["customer"] \in Int
      BY CommitTypes DEF Inv, TypeInv
    <3>2. Within(owed["customer"] - LineSum(entries, "receivable"), RestSum(entries))
      BY <1>2, <2>2 DEF OwedFits
    <3>3. /\ LineSum(entries', "receivable") = LineSum(entries, "receivable") + k.lines["receivable"]
          /\ LineSum(entries, "receivable") \in Int /\ k.lines["receivable"] \in Int
      BY <1>1
    <3>4. Within(owed'["customer"] - LineSum(entries', "receivable"), RestSum(entries'))
      BY ONLY <1>1, <2>4, <3>1, <3>2, <3>3 DEF Within
    <3> QED BY <3>4 DEF OwedFits
  <2>6. ASSUME NEW i \in Invoice PROVE invoices'[i].paid = PaidSum(entries', i)
    <3>1. PaidChange(k.write, entries, i)
            = IF i \in DOMAIN k.write.inv THEN k.write.inv[i].paid - invoices[i].paid ELSE 0
      BY <1>1, <2>2 DEF Exact, PaidExact
    <3>2. invoices[i].paid = PaidSum(entries, i)
      BY <1>2, <2>2 DEF PaidFits
    <3>3. invoices[i].paid \in Int /\ (i \in DOMAIN k.write.inv => k.write.inv[i].paid \in Int)
      <4>1. k.write.inv \in Some(Invoice, InvoiceRow)
        BY DEF Inv, TypeInv, CallRow, Rows
      <4>2. i \in DOMAIN k.write.inv => k.write.inv[i] \in InvoiceRow
        BY <4>1, SomeIs
      <4> QED BY <2>3, <4>2 DEF InvoiceRow
    <3>4. PaidSum(entries', i) = PaidSum(entries, i) + PaidChange(k.write, entries, i)
      BY <1>1
    <3>5. invoices'[i] = IF i \in DOMAIN k.write.inv THEN k.write.inv[i] ELSE invoices[i]
      BY <1>1
    <3> QED BY <3>1, <3>2, <3>3, <3>4, <3>5
  <2> QED BY <2>5, <2>6 DEF PaidFits
<1> QED BY <1>3, <1>4, <1>5

LEMMA CommitOwns ==
  ASSUME Inv, NEW c \in Call, Commit(c), ~raced'
  PROVE  OwnFits(invoices', entries')
<1> DEFINE w == call[c].write
           I == invoices'
           E == entries'
<1>1. /\ ~raced /\ InvoicesExact(w, invoices, entries) /\ EntriesExact(w, invoices, entries)
      /\ \A i \in Invoice : I[i] = IF i \in DOMAIN w.inv THEN w.inv[i] ELSE invoices[i]
      /\ \A id \in Id : E[id] = IF id \in DOMAIN w.ent THEN w.ent[id] ELSE entries[id]
  BY CommitMoves DEF Exact
<1>2. OwnFits(invoices, entries) /\ OwnComesAlone(w)
  BY <1>1 DEF Inv, CallFits
<1>3. DOMAIN w.ent \subseteq Id
  <2>1. w.ent \in Some(Id, EntryRow)
    BY DEF Inv, TypeInv, CallRow, Rows
  <2> QED BY <2>1, SomeIs
<1> HIDE DEF w, I, E
<1> SUFFICES ASSUME NEW i \in Invoice
             PROVE  /\ I[i].status = "DRAFT" => \A id \in Id : ~Own(E[id], i)
                    /\ \A id \in Id : Own(E[id], i) =>
                         /\ E[id].amount = I[i].total
                         /\ \A jd \in Id : Own(E[jd], i) => jd = id
  BY DEF OwnFits, I, E
\* It saves an own entry of the invoice: there was none.
<1>4. CASE \E id \in DOMAIN w.ent : Own(w.ent[id], i)
  <2>1. PICK id \in DOMAIN w.ent : Own(w.ent[id], i)
    BY <1>4
  <2>2. /\ DOMAIN w.ent = {id} /\ i \in DOMAIN w.inv
        /\ w.inv[i].status # "DRAFT" /\ w.ent[id].amount = w.inv[i].total
    BY <1>2, <2>1 DEF OwnComesAlone
  <2>3. \A jd \in Id : ~Own(entries[jd], i)
    BY <1>1, <1>2, <2>1 DEF EntriesExact, OwnFits
  <2>4. \A jd \in Id : Own(E[jd], i) => jd = id
    BY <1>1, <2>2, <2>3
  <2>5. E[id] = w.ent[id] /\ I[i] = w.inv[i]
    BY <1>1, <1>3, <2>1, <2>2
  <2> QED BY <2>2, <2>4, <2>5
\* It saves none: the own entries are some of those there were.
<1>5. CASE \A id \in DOMAIN w.ent : ~Own(w.ent[id], i)
  <2>1. \A id \in Id : Own(E[id], i) => id \notin DOMAIN w.ent /\ E[id] = entries[id]
    BY <1>1, <1>5
  <2>2. ASSUME NEW id \in Id, Own(E[id], i)
        PROVE  /\ I[i].status # "DRAFT" /\ E[id].amount = I[i].total
               /\ \A jd \in Id : Own(E[jd], i) => jd = id
    <3>1. id \notin DOMAIN w.ent /\ E[id] = entries[id] /\ Own(entries[id], i)
      BY <2>1, <2>2
    <3>2. /\ invoices[i].status # "DRAFT" /\ entries[id].amount = invoices[i].total
          /\ \A jd \in Id : Own(entries[jd], i) => jd = id
      BY <1>2, <3>1 DEF OwnFits
    <3>3. I[i].status # "DRAFT" /\ I[i].total = invoices[i].total
      BY <1>1, <3>1, <3>2 DEF InvoicesExact
    <3> QED BY <2>1, <3>1, <3>2, <3>3
  <2> QED BY <2>2
<1> QED BY <1>4, <1>5

\* Another call's plan is as exact as it was, when they save no row in common.
LEMMA CommitPlans ==
  ASSUME Inv, NEW c \in Call, Commit(c), ~raced', NEW d \in Call
  PROVE  PlanHolds(call'[d], invoices', owed', entries', balance')
<1>1. CASE d = c
  <2> DEFINE l == call'[c]
  <2>1. ~Planned(l)
    BY OwnCall
  <2> HIDE DEF l
  <2>2. \A I, O, E, B : PlanHolds(l, I, O, E, B)
    BY <2>1 DEF PlanHolds
  <2> QED BY <1>1, <2>2 DEF l
<1>2. CASE d # c
  <2> DEFINE v == call[c]
             w == v.write
             m == call[d]
             l == call'[d]
             u == m.write
  <2>1. /\ ~raced
        /\ \A i \in Invoice : invoices'[i] = IF i \in DOMAIN w.inv THEN w.inv[i] ELSE invoices[i]
        /\ \A id \in Id : entries'[id] = IF id \in DOMAIN w.ent THEN w.ent[id] ELSE entries[id]
    BY CommitMoves
  <2>2. /\ l.at = m.at /\ l.write = u /\ l.lines = m.lines /\ l.seen = m.seen
        /\ ~l.stale => ~m.stale /\ ~Overlap(m, v)
    BY <1>2, OtherCall
  <2>3. PlanHolds(m, invoices, owed, entries, balance) /\ OwnComesAlone(u) /\ OwnComesAlone(w)
    BY <2>1 DEF Inv, CallFits
  <2>4. /\ DOMAIN u.inv \subseteq Invoice /\ DOMAIN u.ent \subseteq Id /\ DOMAIN m.seen \subseteq Account
        /\ \A id \in DOMAIN w.ent : id \in Id
    <3>1. /\ u.inv \in Some(Invoice, InvoiceRow) /\ u.ent \in Some(Id, EntryRow)
          /\ w.ent \in Some(Id, EntryRow) /\ m.seen \in Some(Account, Int)
      BY DEF Inv, TypeInv, CallRow, Rows
    <3> QED BY <3>1, SomeIs
  <2>5. u.owed \in {NoRows} \cup [Customer -> Int] /\ w.owed \in {NoRows} \cup [Customer -> Int]
        /\ owed \in [Customer -> Int] /\ balance \in [Account -> Int]
    BY DEF Inv, TypeInv, CallRow, Rows
  <2>6. owed' = Over(w.owed, owed)
        /\ balance' = Over([a \in DOMAIN v.seen |-> v.seen[a] + v.lines[a]], balance)
    BY DEF Commit
  <2> DEFINE I == invoices'
             O == owed'
             E == entries'
             B == balance'
  <2> HIDE DEF v, w, m, l, u, I, O, E, B
  <2>7. SUFFICES ASSUME Planned(l), ~l.stale
                 PROVE  Exact(u, m.lines, I, O, E) /\ \A a \in DOMAIN m.seen : m.seen[a] = B[a]
    BY <2>2 DEF PlanHolds, l, I, O, E, B
  <2>8. /\ Exact(u, m.lines, invoices, owed, entries)
        /\ \A a \in DOMAIN m.seen : m.seen[a] = balance[a]
        /\ ~Overlap(m, v)
    BY <2>2, <2>3, <2>7 DEF PlanHolds, Planned, u
  <2>9. /\ DOMAIN u.inv \cap DOMAIN w.inv = {}
        /\ DOMAIN u.owed \cap DOMAIN w.owed = {}
        /\ DOMAIN u.ent \cap DOMAIN w.ent = {}
        /\ DOMAIN m.seen \cap DOMAIN v.seen = {}
    BY <2>8 DEF Overlap, u, w
  <2>10. /\ \A i \in DOMAIN u.inv : I[i] = invoices[i]
         /\ \A id \in DOMAIN u.ent : E[id] = entries[id]
    BY <2>1, <2>4, <2>9 DEF I, E
  <2>11. \A a \in DOMAIN m.seen : B[a] = balance[a]
    <3> DEFINE b == [a \in DOMAIN v.seen |-> v.seen[a] + v.lines[a]]
    <3>1. DOMAIN b = DOMAIN v.seen
      OBVIOUS
    <3>2. B = Over(b, balance)
      BY <2>6 DEF B
    <3> HIDE DEF b
    <3>3. \A a \in Account : a \notin DOMAIN b => B[a] = balance[a]
      BY <2>5, <3>2, OverIs
    <3> QED BY <2>4, <2>9, <3>1, <3>3
  <2>12. u.owed # NoRows => O["customer"] = owed["customer"]
    <3> SUFFICES ASSUME u.owed # NoRows PROVE O["customer"] = owed["customer"]
      OBVIOUS
    <3>1. "customer" \notin DOMAIN w.owed
      BY <2>5, <2>9
    <3> QED BY <2>5, <2>6, <3>1, OverIs DEF O
  <2>13. \A a \in Account : LineChange(u, E, a) = LineChange(u, entries, a)
    <3> TAKE a \in Account
    <3>1. [id \in DOMAIN u.ent |-> Line(u.ent[id], a) - Line(E[id], a)]
            = [id \in DOMAIN u.ent |-> Line(u.ent[id], a) - Line(entries[id], a)]
      BY <2>10
    <3> QED BY <3>1 DEF LineChange
  <2>14. \A i \in Invoice : PaidChange(u, E, i) = PaidChange(u, entries, i)
    <3> TAKE i \in Invoice
    <3>1. [id \in DOMAIN u.ent |-> PaidBy(u.ent[id], i) - PaidBy(E[id], i)]
            = [id \in DOMAIN u.ent |-> PaidBy(u.ent[id], i) - PaidBy(entries[id], i)]
      BY <2>10
    <3> QED BY <3>1 DEF PaidChange
  <2>15. PaidExact(u, invoices, entries) => PaidExact(u, I, E)
    BY <2>10, <2>14 DEF PaidExact
  <2>16. InvoicesExact(u, I, E)
    <3>1. InvoicesExact(u, invoices, entries)
      BY <2>8 DEF Exact
    <3>2. ASSUME NEW i \in DOMAIN u.inv, NEW id \in Id, Own(E[id], i)
          PROVE  Own(entries[id], i)
      <4>1. id \notin DOMAIN w.ent
        <5>1. SUFFICES ASSUME id \in DOMAIN w.ent PROVE FALSE
          OBVIOUS
        <5>2. Own(w.ent[id], i)
          BY <2>1, <3>2, <5>1 DEF E
        <5>3. i \in DOMAIN w.inv
          BY <2>3, <2>4, <5>1, <5>2 DEF OwnComesAlone
        <5> QED BY <2>9, <5>3
      <4> QED BY <2>1, <3>2, <4>1 DEF E
    <3> QED BY <2>4, <2>10, <3>1, <3>2 DEF InvoicesExact
  <2>17. EntriesExact(u, I, E)
    <3>1. EntriesExact(u, invoices, entries)
      BY <2>8 DEF Exact
    <3>2. ASSUME NEW id \in DOMAIN u.ent, NEW i \in Invoice, Own(u.ent[id], i)
          PROVE  I[i].status = "DRAFT"
      <4>1. i \in DOMAIN u.inv
        BY <2>3, <3>2 DEF OwnComesAlone
      <4> QED BY <2>10, <3>1, <3>2, <4>1 DEF EntriesExact
    <3> QED BY <2>10, <3>1, <3>2 DEF EntriesExact
  <2>18. OwedExact(u, m.lines, O, E)
    <3>1. [id \in DOMAIN u.ent |-> Rest(u.ent[id]) - Rest(E[id])]
            = [id \in DOMAIN u.ent |-> Rest(u.ent[id]) - Rest(entries[id])]
      BY <2>10
    <3>2. RestChange(u, E) = RestChange(u, entries)
      BY <3>1 DEF RestChange
    <3>3. OwedExact(u, m.lines, owed, entries)
      BY <2>8 DEF Exact
    <3> QED BY <2>12, <3>2, <3>3 DEF OwedExact
  <2> QED BY <2>8, <2>10, <2>11, <2>13, <2>15, <2>16, <2>17, <2>18 DEF Exact
<1> QED BY <1>1, <1>2

LEMMA CommitSummed ==
  ASSUME Inv, NEW c \in Call, Commit(c), ~raced', NEW d \in Call
  PROVE  Summed(call'[d], entries')
<1> DEFINE k == call[c]
           E == entries'
           l == call'[d]
<1>1. /\ ~raced /\ EntriesExact(k.write, invoices, entries)
      /\ \A a \in Account : k.lines[a] \in Int
      /\ \A id \in Id : E[id] = IF id \in DOMAIN k.write.ent THEN k.write.ent[id] ELSE entries[id]
      /\ \A a \in Account : /\ LineSum(E, a) = LineSum(entries, a) + k.lines[a]
                            /\ LineSum(entries, a) \in Int
  BY CommitMoves DEF Exact
<1>2. k \in CallRow /\ CallFits(k) /\ k.at = "planned"
  BY DEF Inv, TypeInv, Commit, At
<1>3. \A id \in Id : entries[id].kind = "closing" =>
        E[id].kind = "closing" /\ E[id].amount = entries[id].amount
  BY <1>1 DEF EntriesExact
<1>4. CASE d # c
  <2> DEFINE m == call[d]
  <2>1. Summed(m, entries) /\ m \in CallRow
    BY <1>1 DEF Inv, TypeInv
  <2>2. /\ l.at = m.at /\ l.step = m.step /\ l.id = m.id /\ l.sum = m.sum
        /\ l.write = m.write /\ l.lines = m.lines
        /\ l.drift = IF m.at \in Closes \cup {"marking"} \/ m.step \in Closes
                     THEN m.drift + k.lines["revenue"] ELSE m.drift
    BY <1>4, OtherCall
  <2>3. m.sum \in Int /\ m.drift \in Int
    BY <2>1 DEF CallRow
  <2>6. CallFits(m)
    BY DEF Inv
  <2> HIDE DEF m, l, k, E
  <2>4. l.at \in Closes \cup {"marking"} \/ l.step \in Closes =>
          LineSum(E, "revenue") = (IF l.at = "marking" THEN 0 ELSE l.sum) + l.drift
    <3> SUFFICES ASSUME m.at \in Closes \cup {"marking"} \/ m.step \in Closes
                 PROVE  LineSum(E, "revenue") = (IF l.at = "marking" THEN 0 ELSE l.sum) + l.drift
      BY <2>2
    <3>1. LineSum(entries, "revenue") = (IF m.at = "marking" THEN 0 ELSE m.sum) + m.drift
      BY <2>1 DEF Summed
    <3>2. l.drift = m.drift + k.lines["revenue"]
      BY <2>2
    <3> QED BY <1>1, <2>2, <2>3, <3>1, <3>2
  <2>5. l.at \in {"reviewing", "approving", "posting"} =>
          E[l.id].kind = "closing" /\ E[l.id].amount = l.sum
    BY <1>3, <2>1, <2>2, <2>6 DEF Summed, CallFits
  <2> QED BY <2>1, <2>2, <2>4, <2>5 DEF Summed, l, E
<1>5. CASE d = c
  <2>1. /\ l.step = "idle"
        /\ k.step = "idle" => l = Idle
        /\ k.step # "idle" => /\ l.at = Follow[k.step] /\ l.sum = k.sum /\ l.drift = k.drift
                              /\ l.id \in Id /\ DOMAIN k.write.ent = {l.id}
    BY <1>5, OwnCall
  <2>2. k.step \in {"idle"} \cup Closes /\ k.sum \in Int /\ k.drift \in Int
    BY <1>2 DEF CallRow
  <2>3. Summed(k, entries)
    BY <1>1 DEF Inv
  <2> HIDE DEF l, k, E
  <2>4. CASE k.step = "idle"
    BY <2>1, <2>4 DEF Summed, Idle, Closes, l, E
  <2>5. CASE k.step # "idle"
    <3>1. LineSum(entries, "revenue") = k.sum + k.drift
      BY <1>2, <2>2, <2>3, <2>5 DEF Summed
    <3>2. /\ k.write.ent[l.id].kind = "closing" /\ k.write.ent[l.id].amount = k.sum
          /\ k.lines["revenue"] = IF k.step = "posting" THEN -k.sum ELSE 0
      BY <2>1, <2>3, <2>5 DEF Summed
    <3>3. E[l.id] = k.write.ent[l.id]
      BY <1>1, <2>1, <2>5
    <3>4. /\ k.step = "posting" <=> l.at = "marking"
      BY <2>1, <2>2, <2>5 DEF Follow, Closes
    <3>5. LineSum(E, "revenue") = (IF l.at = "marking" THEN 0 ELSE l.sum) + l.drift
      BY <1>1, <2>1, <2>2, <2>5, <3>1, <3>2, <3>4
    <3> QED BY <2>1, <2>5, <3>2, <3>3, <3>5 DEF Summed, l, E
  <2> QED BY <2>4, <2>5
<1> QED BY <1>4, <1>5

LEMMA CommitKeeps == ASSUME Inv, NEW c \in Call, Commit(c) PROVE Inv'
<1>1. TypeInv' /\ \A d \in Call : CallFits(call'[d])
  BY CommitTypes
<1>2. ASSUME ~raced'
      PROVE  /\ BooksFit(balance', entries')
             /\ OwnFits(invoices', entries')
             /\ closed' => LineSum(entries', "revenue") = since'
             /\ ~bypassed' => OwedFits(owed', entries') /\ PaidFits(invoices', entries')
             /\ \A d \in Call : /\ PlanHolds(call'[d], invoices', owed', entries', balance')
                                /\ Summed(call'[d], entries')
  BY <1>2, CommitSums, CommitOwns, CommitPlans, CommitSummed
<1> QED BY <1>1, <1>2 DEF Inv

-----------------------------------------------------------------------------
(* Plans that save one entry *)

LEMMA OneEntry ==
  ASSUME entries \in [Id -> EntryRow], NEW w \in Rows, NEW id \in Id, NEW e \in EntryRow, w.ent = Row(id, e)
  PROVE  /\ DOMAIN w.ent = {id} /\ w.ent[id] = e
         /\ \A a \in Account : LineChange(w, entries, a) = Line(e, a) - Line(entries[id], a)
         /\ \A i \in Invoice : PaidChange(w, entries, i) = PaidBy(e, i) - PaidBy(entries[id], i)
         /\ RestChange(w, entries) = Rest(e) - Rest(entries[id])
<1>1. DOMAIN w.ent = {id} /\ w.ent[id] = e
  BY RowIs
<1>2. ASSUME NEW a \in Account PROVE LineChange(w, entries, a) = Line(e, a) - Line(entries[id], a)
  <2> DEFINE f == [x \in DOMAIN w.ent |-> Line(w.ent[x], a) - Line(entries[x], a)]
  <2>1. f[id] = Line(e, a) - Line(entries[id], a)
    BY <1>1
  <2>2. f[id] \in Int
    BY <2>1, LineType
  <2>3. LineChange(w, entries, a) = Total(f, {id})
    BY <1>1 DEF LineChange
  <2> HIDE DEF f
  <2> QED BY <2>1, <2>2, <2>3, TotalOne
<1>3. ASSUME NEW i \in Invoice PROVE PaidChange(w, entries, i) = PaidBy(e, i) - PaidBy(entries[id], i)
  <2> DEFINE f == [x \in DOMAIN w.ent |-> PaidBy(w.ent[x], i) - PaidBy(entries[x], i)]
  <2>1. f[id] = PaidBy(e, i) - PaidBy(entries[id], i)
    BY <1>1
  <2>2. f[id] \in Int
    BY <2>1, PaidByType
  <2>3. PaidChange(w, entries, i) = Total(f, {id})
    BY <1>1 DEF PaidChange
  <2> HIDE DEF f
  <2> QED BY <2>1, <2>2, <2>3, TotalOne
<1>4. RestChange(w, entries) = Rest(e) - Rest(entries[id])
  <2> DEFINE f == [x \in DOMAIN w.ent |-> Rest(w.ent[x]) - Rest(entries[x])]
  <2>1. f[id] = Rest(e) - Rest(entries[id])
    BY <1>1
  <2>2. f[id] \in Int
    BY <2>1, RestType
  <2>3. RestChange(w, entries) = Total(f, {id})
    BY <1>1 DEF RestChange
  <2> HIDE DEF f
  <2> QED BY <2>1, <2>2, <2>3, TotalOne
<1> QED BY <1>1, <1>2, <1>3, <1>4

LEMMA OneEntryExact ==
  ASSUME entries \in [Id -> EntryRow], NEW w \in Rows, NEW id \in Id, NEW e \in EntryRow, w.ent = Row(id, e),
         NEW lines \in [Account -> Int],
         \A a \in Account : lines[a] = Line(e, a) - Line(entries[id], a),
         w.owed = NoRows /\ lines["receivable"] = 0 => Rest(e) >= Rest(entries[id]),
         w.owed # NoRows =>
           Within(w.owed["customer"] - owed["customer"] - lines["receivable"], Rest(e) - Rest(entries[id])),
         w.owed # NoRows \/ lines["receivable"] = 0 =>
           \A i \in Invoice : PaidBy(e, i) - PaidBy(entries[id], i)
                                = IF i \in DOMAIN w.inv THEN w.inv[i].paid - invoices[i].paid ELSE 0,
         InvoicesExact(w, invoices, entries),
         \A i \in Invoice : Own(e, i) => invoices[i].status = "DRAFT",
         \/ entries[id].kind = "none"
         \/ e.kind = entries[id].kind /\ (e.kind = "closing" => e.amount = entries[id].amount)
  PROVE  Exact(w, lines, invoices, owed, entries)
<1>1. /\ DOMAIN w.ent = {id} /\ w.ent[id] = e
      /\ \A a \in Account : LineChange(w, entries, a) = Line(e, a) - Line(entries[id], a)
      /\ \A i \in Invoice : PaidChange(w, entries, i) = PaidBy(e, i) - PaidBy(entries[id], i)
      /\ RestChange(w, entries) = Rest(e) - Rest(entries[id])
  BY OneEntry
<1>2. EntriesExact(w, invoices, entries)
  BY <1>1 DEF EntriesExact
<1>3. w.owed # NoRows \/ lines["receivable"] = 0 => PaidExact(w, invoices, entries)
  BY <1>1 DEF PaidExact
<1>4. OwedExact(w, lines, owed, entries)
  <2>1. Rest(e) \in Int /\ Rest(entries[id]) \in Int
    BY RestType
  <2> QED BY <1>1, <2>1 DEF OwedExact
<1> QED BY <1>1, <1>2, <1>3, <1>4 DEF Exact

LEMMA SaveEntryIs ==
  ASSUME NEW id \in Id, NEW e \in EntryRow
  PROVE  LET w == SaveEntry(id, e)
         IN  /\ w \in Rows /\ w.ent = Row(id, e) /\ w.inv = NoRows /\ w.owed = NoRows
             /\ DOMAIN w.ent = {id} /\ w.ent[id] = e
<1>1. Row(id, e) \in Some(Id, EntryRow)
  BY RowIs
<1> DEFINE r == Row(id, e)
<1> HIDE DEF r
<1>2. [Nothing EXCEPT !.ent = r] = [inv |-> NoRows, owed |-> NoRows, ent |-> r]
  BY DEF Nothing
<1>3. DOMAIN r = {id} /\ r[id] = e
  BY RowIs DEF r
<1> QED BY <1>1, <1>2, <1>3, NoRowsIs DEF SaveEntry, Rows, r

\* Nothing but an entry, and not an invoice's own.
LEMMA EntryPlanKeeps ==
  ASSUME Inv, NEW c \in Call, NEW id \in Id, NEW e \in EntryRow, NEW lines \in [Account -> Int],
         Plan(c, SaveEntry(id, e), lines),
         \A a \in Account : lines[a] = Line(e, a) - Line(entries[id], a),
         lines["receivable"] = 0 =>
           Rest(e) >= Rest(entries[id]) /\ \A i \in Invoice : PaidBy(e, i) = PaidBy(entries[id], i),
         \A i \in Invoice : ~Own(e, i),
         \/ entries[id].kind = "none"
         \/ e.kind = entries[id].kind /\ (e.kind = "closing" => e.amount = entries[id].amount),
         call[c].at \in {"idle"} \cup Closes,
         call[c].at # "idle" /\ ~raced => e.kind = "closing" /\ e.amount = call[c].sum,
         call[c].at # "idle" => lines["revenue"] = IF call[c].at = "posting" THEN LinesOf(e)["revenue"] ELSE 0
  PROVE  Inv'
<1> DEFINE w == SaveEntry(id, e)
<1>1. w \in Rows /\ w.ent = Row(id, e) /\ w.inv = NoRows /\ w.owed = NoRows /\ DOMAIN w.inv = {}
      /\ DOMAIN w.ent = {id} /\ w.ent[id] = e
  BY SaveEntryIs, NoRowsIs
<1>3. Plan(c, w, lines)
  OBVIOUS
<1> HIDE DEF w
<1>4. OwnComesAlone(w)
  BY <1>1 DEF OwnComesAlone
<1>5. Exact(w, lines, invoices, owed, entries)
  <2>1. InvoicesExact(w, invoices, entries)
    BY <1>1 DEF InvoicesExact
  <2>2. entries \in [Id -> EntryRow]
    BY DEF Inv, TypeInv
  <2>3. \A i \in Invoice : PaidBy(e, i) \in Int /\ PaidBy(entries[id], i) \in Int
    BY <2>2, PaidByType
  <2>4. lines["receivable"] = 0 => \A i \in Invoice : PaidBy(e, i) - PaidBy(entries[id], i) = 0
    BY <2>3
  <2> QED BY <1>1, <2>1, <2>2, <2>4, OneEntryExact
<1>6. call[c].at # "idle" /\ ~raced =>
        /\ \A x \in DOMAIN w.ent : w.ent[x].kind = "closing" /\ w.ent[x].amount = call[c].sum
        /\ lines["revenue"] = IF call[c].at = "posting" THEN -call[c].sum ELSE 0
  BY <1>1, LinesAre
<1> QED BY <1>1, <1>3, <1>4, <1>5, <1>6, PlanKeeps

LEMMA EntryIs ==
  ASSUME Inv, NEW id \in Id
  PROVE  LET e == entries[id]
         IN  /\ e \in EntryRow /\ EntryFits(e) /\ e.kind \in Kind /\ e.amount \in Int /\ e.status \in Status
             /\ e.ref \in Invoice \cup {None} /\ e.alloc \in [Invoice -> Nat]
             /\ e \in [kind : Kind, ref : Invoice \cup {None}, amount : Int, status : Status, alloc : [Invoice -> Nat]]
BY DEF Inv, TypeInv, EntryRow

\* An entry whose status alone has changed.
LEMMA StatusIs ==
  ASSUME NEW e \in EntryRow, NEW s \in Status, e.status # "NONE", s # "NONE",
         e.kind = "invoice" => s = "DELETED",
         e.alloc = Nowhere
  PROVE  LET f == [e EXCEPT !.status = s]
         IN  /\ f \in EntryRow /\ f.status = s /\ f.kind = e.kind /\ f.amount = e.amount /\ f.ref = e.ref
             /\ f.alloc = e.alloc /\ LinesOf(f) = LinesOf(e)
<1> DEFINE f == [e EXCEPT !.status = s]
<1>1. e \in [kind : Kind, ref : Invoice \cup {None}, amount : Int, status : Status, alloc : [Invoice -> Nat]]
      /\ EntryFits(e)
  BY DEF EntryRow
<1>2. /\ f \in [kind : Kind, ref : Invoice \cup {None}, amount : Int, status : Status, alloc : [Invoice -> Nat]]
      /\ f.status = s /\ f.kind = e.kind /\ f.amount = e.amount /\ f.ref = e.ref /\ f.alloc = e.alloc
  BY <1>1
<1> HIDE DEF f
<1>3. EntryFits(f)
  BY <1>1, <1>2 DEF EntryFits
<1>4. LinesOf(f) = LinesOf(e)
  BY <1>2 DEF LinesOf
<1> QED BY <1>2, <1>3, <1>4 DEF EntryRow, f

LEMMA GoneIs ==
  ASSUME NEW e \in EntryRow, e.status # "NONE"
  PROVE  LET f == Gone(e)
         IN  /\ f \in EntryRow /\ f.status = "DELETED" /\ f.kind = e.kind /\ f.amount = e.amount /\ f.ref = e.ref
             /\ f.alloc = Nowhere
<1> DEFINE f == [e EXCEPT !.status = "DELETED", !.alloc = Nowhere]
<1>1. e \in [kind : Kind, ref : Invoice \cup {None}, amount : Int, status : Status, alloc : [Invoice -> Nat]]
      /\ EntryFits(e)
  BY DEF EntryRow
<1>2. /\ f \in [kind : Kind, ref : Invoice \cup {None}, amount : Int, status : Status, alloc : [Invoice -> Nat]]
      /\ f.status = "DELETED" /\ f.kind = e.kind /\ f.amount = e.amount /\ f.ref = e.ref /\ f.alloc = Nowhere
  BY <1>1, NowhereIs DEF Status
<1>3. f = Gone(e)
  BY DEF Gone
<1> HIDE DEF f
<1>4. EntryFits(f)
  BY <1>1, <1>2 DEF EntryFits
<1> QED BY <1>2, <1>3, <1>4 DEF EntryRow

LEMMA MinusIs ==
  \A f \in [Account -> Int] : Minus(f) \in [Account -> Int] /\ \A a \in Account : Minus(f)[a] = -f[a]
BY DEF Minus

\* What counts as paid by an entry without allocations.
LEMMA PaidByNothing ==
  \A e : \A i \in Invoice : e.alloc = Nowhere /\ (e.status # "POSTED" \/ e.kind # "receipt" \/ e.ref # i) => PaidBy(e, i) = 0
BY NowhereIs DEF PaidBy

-----------------------------------------------------------------------------
(* Journal entries, and the steps of closing a year *)

LEMMA CreateEntryKeeps ==
  ASSUME Inv, NEW c \in Call, NEW kind \in {"journal", "closing"}, NEW amount \in Int,
         CreateEntry(c, kind, amount),
         \/ call[c].at = "idle"
         \/ call[c].at = "drafting" /\ kind = "closing" /\ amount = call[c].sum
  PROVE  Inv'
<1>1. PICK id \in Fresh :
        Plan(c, SaveEntry(id, [NoEntry EXCEPT !.kind = kind, !.amount = amount, !.status = "DRAFT"]), NoLines)
  BY DEF CreateEntry
<1> DEFINE e == [NoEntry EXCEPT !.kind = kind, !.amount = amount, !.status = "DRAFT"]
<1>2. /\ e.kind = kind /\ e.amount = amount /\ e.status = "DRAFT" /\ e.alloc = Nowhere
      /\ e \in [kind : Kind, ref : Invoice \cup {None}, amount : Int, status : Status, alloc : [Invoice -> Nat]]
  BY NowhereIs DEF NoEntry, Kind, Status
<1>3. id \in Id /\ entries[id] = NoEntry
  BY DEF Fresh
<1>4. Plan(c, SaveEntry(id, e), NoLines)
  BY <1>1
<1> HIDE DEF e
<1>5. e \in EntryRow
  BY <1>2 DEF EntryRow, EntryFits
<1>6. entries[id].kind = "none" /\ entries[id].status = "NONE" /\ entries[id].alloc = Nowhere
  BY <1>3 DEF NoEntry
<1>7. \A a \in Account : NoLines[a] = Line(e, a) - Line(entries[id], a)
  BY <1>2, <1>6, NoLinesAre DEF Line
<1>8. /\ \A i \in Invoice : PaidBy(e, i) = PaidBy(entries[id], i) /\ ~Own(e, i)
      /\ Rest(e) >= Rest(entries[id])
  BY <1>2, <1>6 DEF PaidBy, Own, Rest
<1>9. call[c].at \in {"idle"} \cup Closes /\ NoLines["revenue"] = 0
  BY NoLinesAre DEF Closes
<1> QED BY <1>2, <1>3, <1>4, <1>5, <1>6, <1>7, <1>8, <1>9, NoLinesAre, EntryPlanKeeps

\* A closing call works on the entry it has drafted.
LEMMA ClosingEntry ==
  ASSUME Inv, NEW c \in Call, call[c].at \in {"reviewing", "approving", "posting"}
  PROVE  call[c].id \in Id /\ (~raced => entries[call[c].id].kind = "closing"
                                         /\ entries[call[c].id].amount = call[c].sum)
BY DEF Inv, CallFits, Summed

\* A step that changes the status of an entry that is not posted.
LEMMA StepKeeps ==
  ASSUME Inv, NEW c \in Call, NEW id \in Id, NEW from \in {"DRAFT", "REVIEWED"}, NEW to \in {"REVIEWED", "APPROVED"},
         entries[id].status = from,
         Plan(c, SaveEntry(id, [entries[id] EXCEPT !.status = to]), NoLines),
         call[c].at = "idle" \/ (call[c].at \in {"reviewing", "approving"} /\ id = call[c].id)
  PROVE  Inv'
<1> DEFINE o == entries[id]
           e == [o EXCEPT !.status = to]
<1>1. o \in EntryRow /\ EntryFits(o) /\ o.kind \in Kind
  BY EntryIs
<1>2. o.alloc = Nowhere /\ o.kind # "invoice" /\ o.status # "NONE"
  BY <1>1 DEF EntryFits
<1>0. to \in Status /\ to # "NONE"
  BY DEF Status
<1>3. /\ e \in EntryRow /\ e.status = to /\ e.kind = o.kind /\ e.amount = o.amount /\ e.alloc = o.alloc
  <2> HIDE DEF o
  <2> QED BY <1>0, <1>1, <1>2, StatusIs
<1>4. Plan(c, SaveEntry(id, e), NoLines)
  OBVIOUS
<1> HIDE DEF e
<1>5. \A a \in Account : NoLines[a] = Line(e, a) - Line(entries[id], a)
  BY <1>3, NoLinesAre DEF Line
<1>6. /\ \A i \in Invoice : PaidBy(e, i) = PaidBy(entries[id], i) /\ ~Own(e, i)
      /\ Rest(e) >= Rest(entries[id])
  BY <1>2, <1>3 DEF PaidBy, Own, Rest
<1>7. call[c].at \in {"idle"} \cup Closes /\ NoLines["revenue"] = 0 /\ call[c].at # "posting"
  BY NoLinesAre DEF Closes
<1>8. call[c].at # "idle" /\ ~raced => e.kind = "closing" /\ e.amount = call[c].sum
  BY <1>3, ClosingEntry
<1> QED BY <1>3, <1>4, <1>5, <1>6, <1>7, <1>8, NoLinesAre, EntryPlanKeeps

LEMMA PostEntryKeeps ==
  ASSUME Inv, NEW c \in Call, NEW id \in Id, PostEntry(c, id),
         call[c].at = "idle" \/ (call[c].at = "posting" /\ id = call[c].id)
  PROVE  Inv'
<1> DEFINE o == entries[id]
           e == [o EXCEPT !.status = "POSTED"]
           lines == LinesOf(o)
<1>1. o \in EntryRow /\ EntryFits(o) /\ o.kind \in Kind /\ o.status = "APPROVED"
  BY EntryIs DEF PostEntry
<1>2. o.alloc = Nowhere /\ o.kind # "invoice" /\ o.kind # "none"
  BY <1>1 DEF EntryFits
<1>3. /\ e \in EntryRow /\ e.status = "POSTED" /\ e.kind = o.kind /\ e.amount = o.amount /\ e.alloc = o.alloc
      /\ LinesOf(e) = LinesOf(o)
  BY <1>1, <1>2, StatusIs DEF Status
<1>4. Plan(c, SaveEntry(id, e), lines) /\ lines \in [Account -> Int]
  BY <1>1, LinesAre DEF PostEntry
<1> HIDE DEF e
<1>5. \A a \in Account : lines[a] = Line(e, a) - Line(entries[id], a)
  BY <1>1, <1>3, <1>4 DEF Line
<1>6. lines["receivable"] = 0 =>
        Rest(e) >= Rest(entries[id]) /\ \A i \in Invoice : PaidBy(e, i) = PaidBy(entries[id], i)
  <2>1. lines["receivable"] = 0 => o.kind \notin {"receipt", "bulk"}
    BY <1>1, <1>3, LinesAre DEF EntryFits, EntryRow
  <2>2. lines["receivable"] = 0 => Rest(e) >= Rest(entries[id])
    BY <1>3, <2>1 DEF Rest
  <2> QED BY <1>1, <1>2, <1>3, <2>1, <2>2, PaidByNothing
<1>7. \A i \in Invoice : ~Own(e, i)
  BY <1>2, <1>3 DEF Own
<1>8. call[c].at \in {"idle"} \cup Closes
  BY DEF Closes
<1>9. call[c].at # "idle" /\ ~raced => e.kind = "closing" /\ e.amount = call[c].sum
  BY <1>3, ClosingEntry
<1>10. lines = LinesOf(e)
  BY <1>3
<1> HIDE DEF lines
<1> QED BY <1>3, <1>4, <1>5, <1>6, <1>7, <1>8, <1>9, <1>10, EntryPlanKeeps

LEMMA DeleteEntryKeeps ==
  ASSUME Inv, NEW c \in Call, NEW id \in Id, DeleteEntry(c, id), call[c].at = "idle"
  PROVE  Inv'
<1> DEFINE o == entries[id]
           e == Gone(o)
           lines == IF o.status = "POSTED" THEN Minus(LinesOf(o)) ELSE NoLines
<1>1. o \in EntryRow /\ EntryFits(o) /\ o.kind \in Kind /\ o.status \notin {"NONE", "DELETED"}
  BY EntryIs DEF DeleteEntry
<1>2. /\ e \in EntryRow /\ e.status = "DELETED" /\ e.kind = o.kind /\ e.amount = o.amount /\ e.alloc = Nowhere
  BY <1>1, GoneIs
<1>3. LinesOf(o) \in [Account -> Int]
  BY <1>1, LinesAre
<1>4. Plan(c, SaveEntry(id, e), lines)
  BY DEF DeleteEntry
<1>5. lines \in [Account -> Int] /\ \A a \in Account : lines[a] = -Line(o, a)
  BY <1>3, MinusIs, NoLinesAre DEF Line
<1> HIDE DEF e, lines
<1>6. \A a \in Account : lines[a] = Line(e, a) - Line(entries[id], a)
  <2> TAKE a \in Account
  <2>1. Line(e, a) = 0 /\ Line(o, a) \in Int
    BY <1>1, <1>2, LineType DEF Line
  <2> QED BY <1>5, <2>1
<1>7. lines["receivable"] = 0 => \A i \in Invoice : PaidBy(e, i) = PaidBy(entries[id], i)
  <2> SUFFICES ASSUME lines["receivable"] = 0, NEW i \in Invoice PROVE PaidBy(e, i) = PaidBy(o, i)
    OBVIOUS
  <2>1. PaidBy(e, i) = 0
    BY <1>2 DEF PaidBy
  <2>2. Line(o, "receivable") = 0
    BY <1>1, <1>5, LineType
  <2>3. o.status = "POSTED" => o.kind \notin {"receipt", "bulk"}
    BY <1>1, <2>2, LinesAre DEF Line, EntryFits, EntryRow
  <2>4. o.status # "POSTED" \/ (o.alloc = Nowhere /\ o.kind # "receipt")
    BY <1>1, <2>3 DEF EntryFits
  <2> QED BY <2>1, <2>4, PaidByNothing DEF PaidBy
<1>8. \A i \in Invoice : ~Own(e, i)
  BY <1>2 DEF Own
<1>9. Rest(e) >= Rest(entries[id])
  BY <1>2 DEF Rest
<1> QED BY <1>2, <1>4, <1>5, <1>6, <1>7, <1>8, <1>9, EntryPlanKeeps

LEMMA MarkAsReviewedKeeps ==
  ASSUME Inv, NEW c \in Call, NEW id \in Id, MarkAsReviewed(c, id),
         call[c].at = "idle" \/ (call[c].at = "reviewing" /\ id = call[c].id)
  PROVE  Inv'
BY StepKeeps DEF MarkAsReviewed

LEMMA ApproveEntryKeeps ==
  ASSUME Inv, NEW c \in Call, NEW id \in Id, ApproveEntry(c, id),
         call[c].at = "idle" \/ (call[c].at = "approving" /\ id = call[c].id)
  PROVE  Inv'
BY StepKeeps DEF ApproveEntry

LEMMA CloseStepKeeps == ASSUME Inv, NEW c \in Call, CloseStep(c) PROVE Inv'
<1>1. CASE At(c, "drafting") /\ CreateEntry(c, "closing", call[c].sum)
  <2>1. call[c].sum \in Int
    BY DEF Inv, TypeInv, CallRow
  <2> QED BY <1>1, <2>1, CreateEntryKeeps DEF At
<1>2. CASE At(c, "reviewing") /\ MarkAsReviewed(c, call[c].id)
  BY <1>2, ClosingEntry, MarkAsReviewedKeeps DEF At
<1>3. CASE At(c, "approving") /\ ApproveEntry(c, call[c].id)
  BY <1>3, ClosingEntry, ApproveEntryKeeps DEF At
<1>4. CASE At(c, "posting") /\ PostEntry(c, call[c].id)
  BY <1>4, ClosingEntry, PostEntryKeeps DEF At
<1> QED BY <1>1, <1>2, <1>3, <1>4 DEF CloseStep

LEMMA JournalKeeps == ASSUME Inv, NEW c \in Call, At(c, "idle"), Journal(c) PROVE Inv'
<1>0. call[c].at = "idle"
  BY DEF At
<1>1. \A amount \in Amount : amount \in Int
  BY AmountsArePositive
<1>2. ASSUME NEW amount \in Amount, CreateEntry(c, "journal", amount) PROVE Inv'
  BY <1>0, <1>1, <1>2, CreateEntryKeeps
<1>3. ASSUME NEW id \in Id, MarkAsReviewed(c, id) PROVE Inv'
  <2>1. call[c].at = "idle" \/ (call[c].at = "reviewing" /\ id = call[c].id)
    BY <1>0
  <2> QED BY <1>3, <2>1, MarkAsReviewedKeeps
<1>4. ASSUME NEW id \in Id, ApproveEntry(c, id) PROVE Inv'
  <2>1. call[c].at = "idle" \/ (call[c].at = "approving" /\ id = call[c].id)
    BY <1>0
  <2> QED BY <1>4, <2>1, ApproveEntryKeeps
<1>5. ASSUME NEW id \in Id, PostEntry(c, id) PROVE Inv'
  <2>1. call[c].at = "idle" \/ (call[c].at = "posting" /\ id = call[c].id)
    BY <1>0
  <2> QED BY <1>5, <2>1, PostEntryKeeps
<1>6. ASSUME NEW id \in Id, DeleteEntry(c, id) PROVE Inv'
  BY <1>0, <1>6, DeleteEntryKeeps
<1> QED BY <1>2, <1>3, <1>4, <1>5, <1>6 DEF Journal

-----------------------------------------------------------------------------
(* Invoices and receipts *)

\* An entry, what is owed, and the invoices the entry pays or belongs to.
LEMMA PaymentPlanKeeps ==
  ASSUME Inv, NEW c \in Call, call[c].at = "idle",
         NEW inv \in Some(Invoice, InvoiceRow), NEW delta \in Int, NEW id \in Id, NEW e \in EntryRow,
         NEW lines \in [Account -> Int],
         Plan(c, [inv |-> inv, owed |-> Owe(delta), ent |-> Row(id, e)], lines),
         \A a \in Account : lines[a] = Line(e, a) - Line(entries[id], a),
         Within(delta - lines["receivable"], Rest(e) - Rest(entries[id])),
         \A j \in DOMAIN inv : inv[j].status # "DRAFT" /\ inv[j].total = invoices[j].total,
         \A j \in Invoice : PaidBy(e, j) - PaidBy(entries[id], j)
                              = IF j \in DOMAIN inv THEN inv[j].paid - invoices[j].paid ELSE 0,
         \A j \in Invoice : Own(e, j) =>
           j \in DOMAIN inv /\ e.amount = inv[j].total /\ invoices[j].status = "DRAFT",
         \/ entries[id].kind = "none"
         \/ e.kind = entries[id].kind /\ (e.kind = "closing" => e.amount = entries[id].amount)
  PROVE  Inv'
<1> DEFINE o == Owe(delta)
           s == Row(id, e)
           w == [inv |-> inv, owed |-> o, ent |-> s]
<1>1. owed \in [Customer -> Int] /\ entries \in [Id -> EntryRow]
  BY DEF Inv, TypeInv
<1>2. o \in [Customer -> Int] /\ o["customer"] = owed["customer"] + delta
  BY <1>1 DEF Owe, Row
<1>3. s \in Some(Id, EntryRow) /\ DOMAIN s = {id} /\ s[id] = e
  BY ONLY RowIn
<1>4. Plan(c, w, lines) /\ w.ent = Row(id, e)
  OBVIOUS
<1> HIDE DEF o, s
<1>5. w \in Rows /\ w.inv = inv /\ w.owed = o /\ w.ent = s
  BY <1>2, <1>3 DEF Rows
<1> HIDE DEF w
<1>6. OwnComesAlone(w)
  BY <1>3, <1>5 DEF OwnComesAlone
<1>7. InvoicesExact(w, invoices, entries)
  BY <1>5 DEF InvoicesExact
<1>8. /\ w.owed # NoRows
      /\ Within(w.owed["customer"] - owed["customer"] - lines["receivable"], Rest(e) - Rest(entries[id]))
  <2>1. w.owed # NoRows
    BY <1>2, <1>5, NoRowsIs
  <2>2. w.owed["customer"] - owed["customer"] - lines["receivable"] = delta - lines["receivable"]
    BY <1>1, <1>2, <1>5
  <2> QED BY <2>1, <2>2
<1>9. \A j \in Invoice : PaidBy(e, j) - PaidBy(entries[id], j)
                           = IF j \in DOMAIN w.inv THEN w.inv[j].paid - invoices[j].paid ELSE 0
  BY <1>5
<1>10. Exact(w, lines, invoices, owed, entries)
  BY <1>1, <1>4, <1>5, <1>7, <1>8, <1>9, OneEntryExact
<1> QED BY <1>4, <1>5, <1>6, <1>10, PlanKeeps

LEMMA InvoiceIs ==
  ASSUME Inv, NEW i \in Invoice
  PROVE  LET r == invoices[i]
         IN  /\ r \in InvoiceRow /\ r.total \in Nat \ {0} /\ r.total \in Price /\ r.paid \in Int
             /\ r \in [status : {"DRAFT", "POSTED", "PARTIALLY_PAID", "PAID"}, total : Price, paid : Int]
BY AmountsArePositive DEF Inv, TypeInv, InvoiceRow

LEMMA PaymentIs ==
  ASSUME NEW r \in InvoiceRow, NEW amount \in Int
  PROVE  /\ Received(r, amount) \in InvoiceRow /\ Reversed(r, amount) \in InvoiceRow
         /\ Received(r, amount).status # "DRAFT" /\ Reversed(r, amount).status # "DRAFT"
         /\ Received(r, amount).total = r.total /\ Reversed(r, amount).total = r.total
         /\ Received(r, amount).paid = r.paid + amount /\ Reversed(r, amount).paid = r.paid - amount
         /\ Received(r, amount).paid - r.paid = amount /\ Reversed(r, amount).paid - r.paid = -amount
<1>1. /\ r \in [status : {"DRAFT", "POSTED", "PARTIALLY_PAID", "PAID"}, total : Price, paid : Int]
      /\ r.paid \in Int /\ r.total \in Int
  BY AmountsArePositive DEF InvoiceRow
<1>2. /\ Received(r, amount) \in [status : {"DRAFT", "POSTED", "PARTIALLY_PAID", "PAID"}, total : Price, paid : Int]
      /\ Received(r, amount).status = IF r.paid + amount >= r.total THEN "PAID" ELSE "PARTIALLY_PAID"
      /\ Received(r, amount).total = r.total /\ Received(r, amount).paid = r.paid + amount
  <2> DEFINE p == r.paid + amount
             st == IF p >= r.total THEN "PAID" ELSE "PARTIALLY_PAID"
  <2>1. Received(r, amount) = [r EXCEPT !.paid = p, !.status = st]
    BY DEF Received
  <2>2. p \in Int /\ st \in {"PAID", "PARTIALLY_PAID"}
    BY <1>1
  <2> HIDE DEF p, st
  <2>3. /\ Received(r, amount) \in [status : {"DRAFT", "POSTED", "PARTIALLY_PAID", "PAID"}, total : Price, paid : Int]
        /\ Received(r, amount).status = st /\ Received(r, amount).total = r.total /\ Received(r, amount).paid = p
    BY ONLY <1>1, <2>1, <2>2
  <2> QED BY <2>3 DEF p, st
<1>3. /\ Reversed(r, amount) \in [status : {"DRAFT", "POSTED", "PARTIALLY_PAID", "PAID"}, total : Price, paid : Int]
      /\ Reversed(r, amount).status = IF r.paid - amount <= 0 THEN "POSTED" ELSE "PARTIALLY_PAID"
      /\ Reversed(r, amount).total = r.total /\ Reversed(r, amount).paid = r.paid - amount
  <2> DEFINE p == r.paid - amount
             st == IF p <= 0 THEN "POSTED" ELSE "PARTIALLY_PAID"
  <2>1. Reversed(r, amount) = [r EXCEPT !.paid = p, !.status = st]
    BY DEF Reversed
  <2>2. p \in Int /\ st \in {"POSTED", "PARTIALLY_PAID"}
    BY <1>1
  <2> HIDE DEF p, st
  <2>3. /\ Reversed(r, amount) \in [status : {"DRAFT", "POSTED", "PARTIALLY_PAID", "PAID"}, total : Price, paid : Int]
        /\ Reversed(r, amount).status = st /\ Reversed(r, amount).total = r.total /\ Reversed(r, amount).paid = p
    BY ONLY <1>1, <2>1, <2>2
  <2> QED BY <2>3 DEF p, st
<1> QED BY <1>1, <1>2, <1>3 DEF InvoiceRow

\* One invoice of which a receipt changes.
LEMMA OneInvoiceKeeps ==
  ASSUME Inv, NEW c \in Call, call[c].at = "idle",
         NEW i \in Invoice, NEW r \in InvoiceRow, NEW delta \in Int, NEW id \in Id, NEW e \in EntryRow,
         NEW lines \in [Account -> Int],
         Plan(c, [inv |-> Row(i, r), owed |-> Owe(delta), ent |-> Row(id, e)], lines),
         \A a \in Account : lines[a] = Line(e, a) - Line(entries[id], a),
         lines["receivable"] = delta, e.kind # "bulk",
         r.status # "DRAFT", r.total = invoices[i].total,
         \A j \in Invoice : PaidBy(e, j) - PaidBy(entries[id], j) = IF j = i THEN r.paid - invoices[i].paid ELSE 0,
         e.kind = "invoice" => e.ref = i /\ e.amount = r.total /\ invoices[i].status = "DRAFT",
         \/ entries[id].kind = "none"
         \/ e.kind = entries[id].kind /\ (e.kind = "closing" => e.amount = entries[id].amount)
  PROVE  Inv'
<1> DEFINE inv == Row(i, r)
<1>1. inv \in Some(Invoice, InvoiceRow) /\ DOMAIN inv = {i} /\ inv[i] = r
  BY ONLY RowIn
<1>2. Plan(c, [inv |-> inv, owed |-> Owe(delta), ent |-> Row(id, e)], lines)
  OBVIOUS
<1> HIDE DEF inv
<1>3. \A j \in DOMAIN inv : inv[j].status # "DRAFT" /\ inv[j].total = invoices[j].total
  BY <1>1
<1>4. \A j \in Invoice : PaidBy(e, j) - PaidBy(entries[id], j)
                           = IF j \in DOMAIN inv THEN inv[j].paid - invoices[j].paid ELSE 0
  BY <1>1
<1>5. \A j \in Invoice : Own(e, j) =>
        j \in DOMAIN inv /\ e.amount = inv[j].total /\ invoices[j].status = "DRAFT"
  BY <1>1 DEF Own
<1>6. Within(delta - lines["receivable"], Rest(e) - Rest(entries[id]))
  BY DEF Within, Rest
<1> QED BY <1>1, <1>2, <1>3, <1>4, <1>5, <1>6, PaymentPlanKeeps

LEMMA UpdateInvoiceKeeps ==
  ASSUME Inv, NEW c \in Call, call[c].at = "idle", NEW i \in Invoice, NEW total \in Price, UpdateInvoice(c, i, total)
  PROVE  Inv'
<1> DEFINE r == [invoices[i] EXCEPT !.total = total]
           s == Row(i, r)
           w == [Nothing EXCEPT !.inv = s]
<1>1. invoices[i].status = "DRAFT" /\ Plan(c, w, NoLines)
  BY DEF UpdateInvoice, SaveInvoice
<1>2. r \in InvoiceRow /\ r.status = "DRAFT" /\ r.paid = invoices[i].paid /\ r.paid \in Int
  BY <1>1, InvoiceIs DEF InvoiceRow
<1> HIDE DEF r
<1>3. s \in Some(Invoice, InvoiceRow) /\ DOMAIN s = {i} /\ s[i] = r
  BY <1>2, RowIs
<1> HIDE DEF s
<1>4. w = [inv |-> s, owed |-> NoRows, ent |-> NoRows]
  BY DEF Nothing
<1> HIDE DEF w
<1>5. w \in Rows /\ w.inv = s /\ w.owed = NoRows /\ DOMAIN w.ent = {}
  BY <1>3, <1>4, NoRowsIs DEF Rows
<1>6. (\A a \in Account : LineChange(w, entries, a) = 0) /\ \A j \in Invoice : PaidChange(w, entries, j) = 0
  BY <1>5, TotalEmpty DEF LineChange, PaidChange
<1>7. PaidExact(w, invoices, entries)
  BY <1>2, <1>3, <1>5, <1>6 DEF PaidExact
<1>8. InvoicesExact(w, invoices, entries) /\ EntriesExact(w, invoices, entries) /\ OwnComesAlone(w)
  BY <1>1, <1>2, <1>3, <1>5 DEF InvoicesExact, EntriesExact, OwnComesAlone
<1>9. Exact(w, NoLines, invoices, owed, entries)
  <2>1. RestChange(w, entries) = 0
    BY <1>5, TotalEmpty DEF RestChange
  <2>2. OwedExact(w, NoLines, owed, entries)
    BY <1>5, <2>1 DEF OwedExact
  <2> QED BY <1>5, <1>6, <1>7, <1>8, <2>2, NoLinesAre DEF Exact
<1> QED BY <1>1, <1>5, <1>8, <1>9, NoLinesAre, PlanKeeps

\* An entry that is not there yet.
LEMMA FreshIs ==
  ASSUME Inv, NEW id \in Fresh
  PROVE  /\ id \in Id /\ entries[id] = NoEntry /\ entries[id].kind = "none"
         /\ \A a \in Account : Line(entries[id], a) = 0
         /\ \A i \in Invoice : PaidBy(entries[id], i) = 0
BY PaidByNothing DEF Fresh, NoEntry, Line

LEMMA EntryRecord ==
  /\ NoEntry \in [kind : Kind, ref : Invoice \cup {None}, amount : Int, status : Status, alloc : [Invoice -> Nat]]
  /\ NoEntry.alloc = Nowhere /\ NoEntry.ref = None
  /\ {"invoice", "receipt", "bulk"} \subseteq Kind /\ "POSTED" \in Status
BY NoEntryFits DEF EntryRow, NoEntry, Kind, Status

LEMMA PostInvoiceKeeps ==
  ASSUME Inv, NEW c \in Call, call[c].at = "idle", NEW i \in Invoice, PostInvoice(c, i)
  PROVE  Inv'
<1>1. PICK id \in Fresh :
        LET e == [NoEntry EXCEPT !.kind = "invoice", !.ref = i, !.amount = invoices[i].total, !.status = "POSTED"]
        IN  Plan(c, [inv |-> Row(i, [invoices[i] EXCEPT !.status = "POSTED"]),
                     owed |-> Owe(invoices[i].total), ent |-> Row(id, e)], LinesOf(e))
  BY DEF PostInvoice
<1> DEFINE total == invoices[i].total
           e == [NoEntry EXCEPT !.kind = "invoice", !.ref = i, !.amount = total, !.status = "POSTED"]
           r == [invoices[i] EXCEPT !.status = "POSTED"]
           lines == LinesOf(e)
<1>2. invoices[i].status = "DRAFT"
  BY DEF PostInvoice
<1>3. total \in Nat \ {0} /\ invoices[i].paid \in Int
  BY InvoiceIs
<1>4. /\ e \in EntryRow /\ e.kind = "invoice" /\ e.ref = i /\ e.amount = total
      /\ e.status = "POSTED" /\ e.alloc = Nowhere
  <2>1. /\ e \in [kind : Kind, ref : Invoice \cup {None}, amount : Int, status : Status, alloc : [Invoice -> Nat]]
        /\ e.kind = "invoice" /\ e.ref = i /\ e.amount = total /\ e.status = "POSTED" /\ e.alloc = Nowhere
    <3>1. total \in Int
      BY <1>3
    <3> HIDE DEF total
    <3> QED BY ONLY <3>1, EntryRecord
  <2> HIDE DEF e
  <2>2. EntryFits(e)
    BY <1>3, <2>1 DEF EntryFits
  <2> QED BY <2>1, <2>2 DEF EntryRow
<1>5. r \in InvoiceRow /\ r.status # "DRAFT" /\ r.total = invoices[i].total /\ r.paid = invoices[i].paid
  BY InvoiceIs DEF InvoiceRow
<1>6. Plan(c, [inv |-> Row(i, r), owed |-> Owe(invoices[i].total), ent |-> Row(id, e)], lines)
  BY <1>1
<1> HIDE DEF e, r
<1>7. lines \in [Account -> Int] /\ lines["receivable"] = invoices[i].total
  BY <1>4, LinesAre
<1>8. \A a \in Account : lines[a] = Line(e, a) - Line(entries[id], a)
  BY <1>4, <1>7, FreshIs DEF Line
<1>9. \A j \in Invoice : PaidBy(e, j) - PaidBy(entries[id], j) = IF j = i THEN r.paid - invoices[i].paid ELSE 0
  BY <1>3, <1>4, <1>5, FreshIs, PaidByNothing
<1> HIDE DEF lines
<1> QED BY <1>2, <1>3, <1>4, <1>5, <1>6, <1>7, <1>8, <1>9, FreshIs, OneInvoiceKeeps

LEMMA RecordPaymentKeeps ==
  ASSUME Inv, NEW c \in Call, call[c].at = "idle", NEW i \in Invoice, NEW amount \in Amount, RecordPayment(c, i, amount)
  PROVE  Inv'
<1>1. PICK id \in Fresh :
        LET e == [NoEntry EXCEPT !.kind = "receipt", !.ref = i, !.amount = amount, !.status = "POSTED"]
        IN  Plan(c, [inv |-> Row(i, Received(invoices[i], amount)), owed |-> Owe(-amount),
                     ent |-> Row(id, e)], LinesOf(e))
  BY DEF RecordPayment
<1> DEFINE e == [NoEntry EXCEPT !.kind = "receipt", !.ref = i, !.amount = amount, !.status = "POSTED"]
           r == Received(invoices[i], amount)
           lines == LinesOf(e)
<1>3. amount \in Nat \ {0} /\ amount \in Int /\ -amount \in Int
  BY AmountsArePositive
<1>4. /\ e \in EntryRow /\ e.kind = "receipt" /\ e.ref = i /\ e.amount = amount
      /\ e.status = "POSTED" /\ e.alloc = Nowhere
  <2>1. /\ e \in [kind : Kind, ref : Invoice \cup {None}, amount : Int, status : Status, alloc : [Invoice -> Nat]]
        /\ e.kind = "receipt" /\ e.ref = i /\ e.amount = amount /\ e.status = "POSTED" /\ e.alloc = Nowhere
    BY ONLY <1>3, EntryRecord
  <2> HIDE DEF e
  <2>2. EntryFits(e)
    BY <1>3, <2>1 DEF EntryFits
  <2> QED BY <2>1, <2>2 DEF EntryRow
<1>5. r \in InvoiceRow /\ r.status # "DRAFT" /\ r.total = invoices[i].total /\ r.paid - invoices[i].paid = amount
  <2>1. invoices[i] \in InvoiceRow /\ amount \in Int
    BY <1>3, InvoiceIs
  <2> QED BY <2>1, PaymentIs
<1>6. Plan(c, [inv |-> Row(i, r), owed |-> Owe(-amount), ent |-> Row(id, e)], lines)
  BY <1>1
<1> HIDE DEF e, r
<1>7. lines \in [Account -> Int] /\ lines["receivable"] = -amount
  BY <1>4, LinesAre
<1>8. \A a \in Account : lines[a] = Line(e, a) - Line(entries[id], a)
  BY <1>4, <1>7, FreshIs DEF Line
<1>9. \A j \in Invoice : PaidBy(e, j) = IF j = i THEN amount ELSE 0
  BY <1>4, NowhereIs DEF PaidBy
<1>10. \A j \in Invoice : PaidBy(e, j) - PaidBy(entries[id], j) = IF j = i THEN r.paid - invoices[i].paid ELSE 0
  BY <1>3, <1>5, <1>9, FreshIs
<1> HIDE DEF lines
<1> QED BY <1>3, <1>4, <1>5, <1>6, <1>7, <1>8, <1>10, FreshIs, OneInvoiceKeeps

LEMMA UpdatePaymentKeeps ==
  ASSUME Inv, NEW c \in Call, call[c].at = "idle", NEW id \in Id, NEW amount \in Amount, UpdatePayment(c, id, amount)
  PROVE  Inv'
<1> DEFINE o == entries[id]
           e == [o EXCEPT !.amount = amount]
<1>1. o.kind = "receipt" /\ o.status = "DRAFT" /\ Plan(c, SaveEntry(id, e), NoLines)
  BY DEF UpdatePayment, Is, SaveEntry
<1>2. o \in [kind : Kind, ref : Invoice \cup {None}, amount : Int, status : Status, alloc : [Invoice -> Nat]]
      /\ EntryFits(o)
  BY EntryIs
<1>3. /\ e \in [kind : Kind, ref : Invoice \cup {None}, amount : Int, status : Status, alloc : [Invoice -> Nat]]
      /\ e.kind = "receipt" /\ e.status = "DRAFT" /\ e.amount = amount /\ e.ref = o.ref /\ e.alloc = o.alloc
      /\ amount # 0
  BY <1>1, <1>2, AmountsArePositive
<1> HIDE DEF e
<1>4. e \in EntryRow
  BY <1>1, <1>2, <1>3 DEF EntryFits, EntryRow
<1>5. \A a \in Account : NoLines[a] = Line(e, a) - Line(entries[id], a)
  BY <1>1, <1>3, NoLinesAre DEF Line
<1>6. /\ \A i \in Invoice : PaidBy(e, i) = PaidBy(entries[id], i) /\ ~Own(e, i)
      /\ Rest(e) >= Rest(entries[id])
  BY <1>1, <1>3 DEF PaidBy, Own, Rest
<1> QED BY <1>1, <1>3, <1>4, <1>5, <1>6, NoLinesAre, EntryPlanKeeps

\* What a receipt that is posted does, and undoes.
LEMMA ReceiptIs ==
  ASSUME Inv, NEW id \in Id, entries[id].kind = "receipt"
  PROVE  LET o == entries[id]
         IN  /\ o \in EntryRow /\ o.ref \in Invoice /\ o.amount \in Int /\ -o.amount \in Int /\ o.alloc = Nowhere
             /\ o.status # "NONE"
             /\ LinesOf(o) \in [Account -> Int] /\ LinesOf(o)["receivable"] = -o.amount
             /\ Minus(LinesOf(o)) \in [Account -> Int] /\ Minus(LinesOf(o))["receivable"] = o.amount
             /\ \A i \in Invoice : PaidBy(o, i) = IF o.status = "POSTED" /\ o.ref = i THEN o.amount ELSE 0
<1> DEFINE o == entries[id]
<1>1. o \in EntryRow /\ EntryFits(o) /\ o.amount \in Int
  BY EntryIs
<1>2. o.ref \in Invoice /\ o.alloc = Nowhere /\ o.status # "NONE"
  BY <1>1 DEF EntryFits
<1>3. LinesOf(o) \in [Account -> Int] /\ LinesOf(o)["receivable"] = -o.amount
  BY <1>1, LinesAre
<1>4. Minus(LinesOf(o)) \in [Account -> Int] /\ Minus(LinesOf(o))["receivable"] = o.amount
  BY <1>1, <1>3, MinusIs
<1>5. \A i \in Invoice : PaidBy(o, i) = IF o.status = "POSTED" /\ o.ref = i THEN o.amount ELSE 0
  BY <1>2, NowhereIs DEF PaidBy
<1> QED BY <1>1, <1>2, <1>3, <1>4, <1>5

\* A posted receipt is taken back, to DRAFT or for good.
LEMMA ReverseKeeps ==
  ASSUME Inv, NEW c \in Call, call[c].at = "idle", NEW id \in Id, NEW e \in EntryRow,
         entries[id].kind = "receipt", entries[id].status = "POSTED",
         e.kind = "receipt", e.status # "POSTED",
         Plan(c, [inv |-> Row(entries[id].ref, Reversed(invoices[entries[id].ref], entries[id].amount)),
                  owed |-> Owe(entries[id].amount), ent |-> Row(id, e)], Minus(LinesOf(entries[id])))
  PROVE  Inv'
<1> DEFINE o == entries[id]
           i == o.ref
           r == Reversed(invoices[i], o.amount)
           lines == Minus(LinesOf(o))
<1>1. /\ o \in EntryRow /\ i \in Invoice /\ o.amount \in Int /\ o.kind = "receipt" /\ o.status = "POSTED"
      /\ LinesOf(o) \in [Account -> Int]
      /\ lines \in [Account -> Int] /\ lines["receivable"] = o.amount
      /\ \A j \in Invoice : PaidBy(o, j) = IF i = j THEN o.amount ELSE 0
  BY ReceiptIs
<1>2. Plan(c, [inv |-> Row(i, r), owed |-> Owe(o.amount), ent |-> Row(id, e)], lines)
  OBVIOUS
<1>3. r \in InvoiceRow /\ r.status # "DRAFT" /\ r.total = invoices[i].total /\ r.paid - invoices[i].paid = -o.amount
  <2>1. invoices[i] \in InvoiceRow /\ o.amount \in Int
    BY <1>1, InvoiceIs
  <2> QED BY <2>1, PaymentIs
<1>4. \A a \in Account : lines[a] = Line(e, a) - Line(o, a)
  BY <1>1, MinusIs DEF Line
<1>5. \A j \in Invoice : PaidBy(e, j) = 0
  BY DEF PaidBy
<1>6. \A j \in Invoice : PaidBy(e, j) - PaidBy(entries[id], j) = IF j = i THEN r.paid - invoices[i].paid ELSE 0
  BY <1>1, <1>3, <1>5
<1> HIDE DEF i, r, lines
<1> QED BY <1>1, <1>2, <1>3, <1>4, <1>6, OneInvoiceKeeps

LEMMA UnpostPaymentKeeps ==
  ASSUME Inv, NEW c \in Call, call[c].at = "idle", NEW id \in Id, UnpostPayment(c, id)
  PROVE  Inv'
<1> DEFINE o == entries[id]
           e == [o EXCEPT !.status = "DRAFT"]
<1>1. o.kind = "receipt" /\ o.status = "POSTED"
  BY DEF UnpostPayment, Is
<1>2. e \in EntryRow /\ e.kind = "receipt" /\ e.status # "POSTED"
  BY <1>1, ReceiptIs, StatusIs DEF Status
<1>3. Plan(c, [inv |-> Row(o.ref, Reversed(invoices[o.ref], o.amount)), owed |-> Owe(o.amount), ent |-> Row(id, e)],
           Minus(LinesOf(o)))
  BY DEF UnpostPayment
<1> HIDE DEF e
<1> QED BY <1>1, <1>2, <1>3, ReverseKeeps

LEMMA DeletePaymentKeeps ==
  ASSUME Inv, NEW c \in Call, call[c].at = "idle", NEW id \in Id, DeletePayment(c, id)
  PROVE  Inv'
<1> DEFINE o == entries[id]
           e == Gone(o)
<1>1. o.kind = "receipt" /\ o.status # "DELETED"
  BY DEF DeletePayment
<1>2. o \in EntryRow /\ o.status # "NONE" /\ o.alloc = Nowhere
  BY <1>1, ReceiptIs
<1>3. e \in EntryRow /\ e.kind = "receipt" /\ e.status = "DELETED" /\ e.amount = o.amount /\ e.alloc = Nowhere
  BY <1>1, <1>2, GoneIs
<1>4. CASE o.status = "POSTED"
  <2>1. Plan(c, [inv |-> Row(o.ref, Reversed(invoices[o.ref], o.amount)), owed |-> Owe(o.amount), ent |-> Row(id, e)],
             Minus(LinesOf(o)))
    BY <1>4 DEF DeletePayment
  <2> HIDE DEF e
  <2> QED BY <1>1, <1>3, <1>4, <2>1, ReverseKeeps
<1>5. CASE o.status # "POSTED"
  <2>1. Plan(c, SaveEntry(id, e), NoLines)
    BY <1>5 DEF DeletePayment, SaveEntry
  <2> HIDE DEF e
  <2>2. \A a \in Account : NoLines[a] = Line(e, a) - Line(entries[id], a)
    BY <1>3, <1>5, NoLinesAre DEF Line
  <2>3. /\ \A i \in Invoice : PaidBy(e, i) = PaidBy(entries[id], i) /\ ~Own(e, i)
        /\ Rest(e) >= Rest(entries[id])
    BY <1>1, <1>3, <1>5 DEF PaidBy, Own, Rest
  <2> QED BY <1>1, <1>3, <2>1, <2>2, <2>3, NoLinesAre, EntryPlanKeeps
<1> QED BY <1>4, <1>5

LEMMA PostPaymentKeeps ==
  ASSUME Inv, NEW c \in Call, call[c].at = "idle", NEW id \in Id, PostPayment(c, id)
  PROVE  Inv'
<1> DEFINE o == entries[id]
           e == [o EXCEPT !.status = "POSTED"]
           i == o.ref
           r == Received(invoices[i], o.amount)
           lines == LinesOf(o)
<1>1. o.kind = "receipt" /\ o.status # "POSTED"
  BY DEF PostPayment
<1>2. /\ o \in EntryRow /\ i \in Invoice /\ o.amount \in Int /\ -o.amount \in Int /\ o.alloc = Nowhere
      /\ lines \in [Account -> Int] /\ lines["receivable"] = -o.amount
      /\ \A j \in Invoice : PaidBy(o, j) = 0
  BY <1>1, ReceiptIs
<1>3. e \in EntryRow /\ e.kind = "receipt" /\ e.status = "POSTED" /\ e.amount = o.amount /\ e.ref = i
      /\ e.alloc = Nowhere /\ LinesOf(e) = lines
  BY <1>1, <1>2, ReceiptIs, StatusIs DEF Status
<1>4. Plan(c, [inv |-> Row(i, r), owed |-> Owe(-o.amount), ent |-> Row(id, e)], lines)
  BY DEF PostPayment
<1> HIDE DEF e
<1>5. r \in InvoiceRow /\ r.status # "DRAFT" /\ r.total = invoices[i].total /\ r.paid - invoices[i].paid = o.amount
  <2>1. invoices[i] \in InvoiceRow /\ o.amount \in Int
    BY <1>2, InvoiceIs
  <2> QED BY <2>1, PaymentIs
<1>6. \A a \in Account : lines[a] = Line(e, a) - Line(o, a)
  BY <1>1, <1>2, <1>3 DEF Line
<1>7. \A j \in Invoice : PaidBy(e, j) = IF j = i THEN o.amount ELSE 0
  BY <1>3, NowhereIs DEF PaidBy
<1>8. \A j \in Invoice : PaidBy(e, j) - PaidBy(entries[id], j) = IF j = i THEN r.paid - invoices[i].paid ELSE 0
  BY <1>2, <1>5, <1>7
<1> HIDE DEF i, r, lines
<1> QED BY <1>1, <1>2, <1>3, <1>4, <1>5, <1>6, <1>8, OneInvoiceKeeps

\* The entries taken back with an invoice are its posted receipts and its own: their
\* lines are undone, and what it counts as paid by its receipts.
TakesBack(w, i, paid, own) ==
  LET lines == Minus(LinesOfAll(paid \cup own))
  IN  /\ lines \in [Account -> Int] /\ AmountOf(paid) \in Int
      /\ \A a \in Account : lines[a] = LineChange(w, entries, a)
      /\ \A j \in Invoice : PaidChange(w, entries, j) = IF j = i THEN -AmountOf(paid) ELSE 0
      /\ ~raced => lines["receivable"] = AmountOf(paid) - (IF own = {} THEN 0 ELSE invoices[i].total)

LEMMA TakenBack ==
  ASSUME Inv, NEW i \in Invoice, NEW w \in Rows, NEW paid, NEW own,
         paid = Receipts(i),
         own \subseteq Id, \A id \in Id : id \in own <=> Own(entries[id], i),
         DOMAIN w.ent = paid \cup own,
         \A id \in DOMAIN w.ent : w.ent[id].status \notin {"NONE", "POSTED"}
  PROVE  TakesBack(w, i, paid, own)
<1> DEFINE D == paid \cup own
           lines == Minus(LinesOfAll(D))
<1>1. /\ \A id \in Id : id \in paid <=> entries[id].kind = "receipt" /\ entries[id].status = "POSTED" /\ entries[id].ref = i
      /\ \A id \in Id : id \in own <=> Own(entries[id], i)
      /\ paid \subseteq Id /\ own \subseteq Id
  BY DEF Receipts, Is
<1>2. IsFiniteSet(paid) /\ IsFiniteSet(own) /\ IsFiniteSet(D) /\ D \subseteq Id
  BY <1>1, IdsAreFinite
<1>3. \A id \in D : entries[id] \in EntryRow /\ EntryFits(entries[id]) /\ entries[id].amount \in Int
  BY <1>1, EntryIs
<1>4. \A id \in D : entries[id].status = "POSTED" /\ entries[id].alloc = Nowhere
  BY <1>1, <1>3 DEF EntryFits, Own
<1>5. DOMAIN w.ent = D
  OBVIOUS
<1>6. \A id \in own : entries[id].kind = "invoice"
  BY <1>1 DEF Own
<1> HIDE DEF D
<1>7. \A id \in D : LinesOf(entries[id]) \in [Account -> Int]
  BY <1>3, LinesAre
<1>8. ASSUME NEW a \in Account PROVE lines[a] \in Int /\ lines[a] = LineChange(w, entries, a)
  <2> DEFINE l == [id \in D |-> LinesOf(entries[id])[a]]
             m == [id \in D |-> Line(w.ent[id], a) - Line(entries[id], a)]
  <2>1. \A id \in D : l[id] \in Int /\ m[id] = -l[id]
    BY <1>4, <1>5, <1>7 DEF Line
  <2>2. lines[a] = -Total(l, D) /\ LineChange(w, entries, a) = Total(m, D)
    BY <1>5 DEF Minus, LinesOfAll, LineChange
  <2> HIDE DEF l, m, lines
  <2>3. Total(m, D) = -Total(l, D) /\ Total(l, D) \in Int
    BY <1>2, <2>1, TotalMinus, TotalInt
  <2> QED BY <2>2, <2>3
<1>9. lines \in [Account -> Int]
  BY <1>8 DEF Minus
<1> DEFINE r == [id \in paid |-> entries[id].amount]
<1>10. \A id \in paid : id \in D /\ r[id] \in Int /\ r[id] = entries[id].amount
  BY <1>3 DEF D
<1>11. AmountOf(paid) = Total(r, paid)
  BY DEF AmountOf
<1> HIDE DEF r
<1>12. AmountOf(paid) \in Int
  BY <1>2, <1>10, <1>11, TotalInt
<1>13. ASSUME NEW j \in Invoice PROVE PaidChange(w, entries, j) = IF j = i THEN -AmountOf(paid) ELSE 0
  <2> DEFINE m == [id \in D |-> PaidBy(w.ent[id], j) - PaidBy(entries[id], j)]
  <2>1. PaidChange(w, entries, j) = Total(m, D)
    BY <1>5 DEF PaidChange
  <2>2. \A id \in D : m[id] = IF id \in paid /\ j = i THEN -entries[id].amount ELSE 0
    <3> TAKE id \in D
    <3>1. PaidBy(w.ent[id], j) = 0
      BY <1>5 DEF PaidBy
    <3>2. entries[id].alloc[j] = 0 /\ entries[id].status = "POSTED"
      BY <1>4, NowhereIs
    <3>3. CASE id \in paid
      BY <1>1, <1>3, <3>1, <3>2, <3>3 DEF PaidBy
    <3>4. CASE id \notin paid
      <4>1. entries[id].kind = "invoice"
        BY <1>6, <3>4 DEF D
      <4> QED BY <3>1, <3>2, <3>4, <4>1 DEF PaidBy
    <3> QED BY <3>3, <3>4
  <2> HIDE DEF m
  <2>3. CASE j = i
    <3>1. \A id \in D : m[id] \in Int
      BY <1>3, <2>2
    <3>2. paid \subseteq D /\ \A id \in D \ paid : m[id] = 0
      BY <2>2 DEF D
    <3>3. Total(m, D) = Total(m, paid)
      BY <1>2, <3>1, <3>2, TotalOfRest
    <3>4. \A id \in paid : r[id] \in Int /\ m[id] = -r[id]
      BY <1>10, <2>2, <2>3
    <3>5. Total(m, paid) = -Total(r, paid)
      BY <1>2, <3>4, TotalMinus
    <3> QED BY <1>11, <2>1, <2>3, <3>3, <3>5
  <2>4. CASE j # i
    <3>1. \A id \in D : m[id] = 0
      BY <2>2, <2>4
    <3> QED BY <1>2, <2>1, <2>4, <3>1, TotalZero
  <2> QED BY <2>3, <2>4
<1>14. ASSUME ~raced
       PROVE  lines["receivable"] = AmountOf(paid) - (IF own = {} THEN 0 ELSE invoices[i].total)
  <2> DEFINE l == [id \in D |-> LinesOf(entries[id])["receivable"]]
  <2>1. lines["receivable"] = -Total(l, D)
    BY DEF Minus, LinesOfAll
  <2>2. \A id \in paid : l[id] = -r[id] /\ r[id] \in Int
    BY <1>1, <1>3, <1>10, LinesAre DEF D
  <2>3. \A id \in own : l[id] = entries[id].amount
    BY <1>3, <1>6, LinesAre DEF D
  <2>4. \A id \in D : l[id] \in Int
    BY <1>7
  <2> HIDE DEF l, lines
  <2>5. Total(l, paid) = -Total(r, paid)
    BY <1>2, <2>2, TotalMinus
  <2>6. CASE own = {}
    <3>1. D = paid
      BY <2>6 DEF D
    <3> QED BY <1>11, <1>12, <2>1, <2>5, <2>6, <3>1
  <2>7. CASE own # {}
    <3>1. PICK o \in own : TRUE
      BY <2>7
    <3>2. OwnFits(invoices, entries)
      BY <1>14 DEF Inv
    <3>3. entries[o].amount = invoices[i].total /\ own = {o}
      BY <1>1, <3>1, <3>2 DEF OwnFits
    <3>4. o \in D /\ D \ {o} = paid
      BY <1>1, <1>6, <3>1, <3>3 DEF D
    <3>5. Total(l, D) = l[o] + Total(l, D \ {o})
      BY ONLY <1>2, <2>4, <3>4, TotalRemove
    <3>6. l[o] = invoices[i].total /\ invoices[i].total \in Int
      BY <2>3, <3>1, <3>3, InvoiceIs
    <3>7. Total(l, D) = invoices[i].total - AmountOf(paid)
      BY <1>11, <1>12, <2>5, <3>4, <3>5, <3>6
    <3> QED BY <1>12, <2>1, <2>7, <3>6, <3>7
  <2> QED BY <2>6, <2>7
<1>15. /\ \A a \in Account : lines[a] = LineChange(w, entries, a)
       /\ lines = Minus(LinesOfAll(paid \cup own))
  BY <1>8 DEF D
<1> HIDE DEF lines
<1> QED BY <1>9, <1>12, <1>13, <1>14, <1>15 DEF TakesBack

LEMMA UnpostInvoiceKeeps ==
  ASSUME Inv, NEW c \in Call, call[c].at = "idle", NEW i \in Invoice, UnpostInvoice(c, i)
  PROVE  Inv'
<1> DEFINE paid == Receipts(i)
           own == {id \in Id : entries[id].kind = "invoice" /\ entries[id].ref = i /\ entries[id].status # "DELETED"}
           r == [invoices[i] EXCEPT !.status = "DRAFT", !.paid = @ - AmountOf(paid)]
           delta == AmountOf(paid) - (IF own = {} THEN 0 ELSE invoices[i].total)
           s == Row(i, r)
           o == Owe(delta)
           t == [id \in paid \cup own |-> IF id \in own THEN Gone(entries[id])
                                          ELSE [entries[id] EXCEPT !.status = "DRAFT"]]
           w == [inv |-> s, owed |-> o, ent |-> t]
           lines == Minus(LinesOfAll(paid \cup own))
<1>1. invoices[i].status # "DRAFT" /\ Plan(c, w, lines)
  BY DEF UnpostInvoice
<1>2. /\ \A id \in paid : entries[id].kind = "receipt" /\ entries[id].status = "POSTED"
      /\ \A id \in Id : id \in own <=> Own(entries[id], i)
      /\ paid \subseteq Id /\ own \subseteq Id
  BY DEF Receipts, Is, Own
<1>3. AmountOf(paid) \in Int
  <2> DEFINE f == [id \in paid |-> entries[id].amount]
  <2>1. IsFiniteSet(paid)
    BY <1>2, IdsAreFinite
  <2>2. \A id \in paid : f[id] \in Int
    BY <1>2, EntryIs
  <2>3. AmountOf(paid) = Total(f, paid)
    BY DEF AmountOf
  <2> HIDE DEF f, paid
  <2> QED BY <2>1, <2>2, <2>3, TotalInt
<1>4. \A id \in paid : LET f == [entries[id] EXCEPT !.status = "DRAFT"]
                       IN  f \in EntryRow /\ f.kind = entries[id].kind /\ f.status = "DRAFT"
  BY <1>2, ReceiptIs, StatusIs DEF Status
<1>5. \A id \in own : /\ Gone(entries[id]) \in EntryRow /\ Gone(entries[id]).kind = entries[id].kind
                      /\ Gone(entries[id]).status = "DELETED" /\ entries[id].kind = "invoice"
  BY <1>2, EntryIs, GoneIs DEF EntryFits, Own
<1>6. /\ DOMAIN t = paid \cup own /\ t = [id \in DOMAIN t |-> t[id]]
      /\ \A id \in DOMAIN t : /\ t[id] \in EntryRow /\ t[id].kind = entries[id].kind
                              /\ t[id].kind \in {"receipt", "invoice"}
                              /\ t[id].status \notin {"NONE", "POSTED"}
                              /\ t[id].kind = "invoice" => t[id].status = "DELETED"
  BY <1>2, <1>4, <1>5
<1>7. r \in InvoiceRow /\ r.status = "DRAFT" /\ r.total = invoices[i].total /\ r.paid - invoices[i].paid = -AmountOf(paid)
  <2>1. /\ invoices[i] \in [status : {"DRAFT", "POSTED", "PARTIALLY_PAID", "PAID"}, total : Price, paid : Int]
        /\ invoices[i].paid \in Int
    BY InvoiceIs
  <2> DEFINE p == invoices[i].paid - AmountOf(paid)
  <2>2. p \in Int /\ p - invoices[i].paid = -AmountOf(paid)
    BY <1>3, <2>1
  <2>3. r = [invoices[i] EXCEPT !.status = "DRAFT", !.paid = p]
    OBVIOUS
  <2> HIDE DEF p, r
  <2>4. /\ r \in [status : {"DRAFT", "POSTED", "PARTIALLY_PAID", "PAID"}, total : Price, paid : Int]
        /\ r.status = "DRAFT" /\ r.total = invoices[i].total /\ r.paid = p
    BY ONLY <2>1, <2>2, <2>3
  <2> QED BY <2>2, <2>4 DEF InvoiceRow
<1>8. owed \in [Customer -> Int] /\ delta \in Int
  BY <1>3, InvoiceIs DEF Inv, TypeInv
<1> HIDE DEF r, t, delta, paid, own
<1>9. s \in Some(Invoice, InvoiceRow) /\ DOMAIN s = {i} /\ s[i] = r
  <2>1. r \in InvoiceRow
    BY <1>7
  <2> QED BY ONLY <2>1, RowIn, i \in Invoice
<1>10. o \in [Customer -> Int] /\ o["customer"] = owed["customer"] + delta
  BY <1>8 DEF Owe, Row
<1>11. t \in Some(Id, EntryRow)
  BY <1>2, <1>6, SomeIs
<1> HIDE DEF s, o
<1>12. w \in Rows /\ w.inv = s /\ w.owed = o /\ w.ent = t
  BY <1>9, <1>10, <1>11 DEF Rows
<1> HIDE DEF w
<1>13. /\ lines \in [Account -> Int]
       /\ \A a \in Account : lines[a] = LineChange(w, entries, a)
       /\ \A j \in Invoice : PaidChange(w, entries, j) = IF j = i THEN -AmountOf(paid) ELSE 0
       /\ ~raced => lines["receivable"] = delta
  <2>1. paid = Receipts(i)
    BY DEF paid
  <2>2. DOMAIN w.ent = paid \cup own /\ \A id \in DOMAIN w.ent : w.ent[id].status \notin {"NONE", "POSTED"}
    BY <1>6, <1>12
  <2>3. TakesBack(w, i, paid, own)
    <3>1. w \in Rows
      BY <1>12
    <3>2. own \subseteq Id /\ \A id \in Id : id \in own <=> Own(entries[id], i)
      BY <1>2
    <3> QED BY ONLY Inv, i \in Invoice, <2>1, <2>2, <3>1, <3>2, TakenBack
  <2> QED BY <2>3 DEF TakesBack, delta
<1> HIDE DEF lines
<1>14. OwnComesAlone(w) /\ EntriesExact(w, invoices, entries)
  BY <1>6, <1>12 DEF OwnComesAlone, EntriesExact, Own
<1>15. InvoicesExact(w, invoices, entries)
  BY <1>2, <1>6, <1>7, <1>9, <1>12 DEF InvoicesExact
<1>16. PaidExact(w, invoices, entries)
  BY <1>7, <1>9, <1>12, <1>13 DEF PaidExact
<1>17. RestChange(w, entries) = 0
  <2> DEFINE f == [id \in DOMAIN t |-> Rest(t[id]) - Rest(entries[id])]
  <2>1. \A id \in DOMAIN t : f[id] = 0
    BY <1>6 DEF Rest
  <2>2. IsFiniteSet(DOMAIN t) /\ RestChange(w, entries) = Total(f, DOMAIN t)
    BY <1>2, <1>6, <1>12, IdsAreFinite DEF RestChange
  <2> HIDE DEF f
  <2> QED BY <2>1, <2>2, TotalZero
<1>18. ~raced => Exact(w, lines, invoices, owed, entries)
  <2>1. ~raced => w.owed["customer"] - owed["customer"] - lines["receivable"] = 0
    BY <1>8, <1>10, <1>12, <1>13
  <2>2. ~raced => OwedExact(w, lines, owed, entries)
    BY <1>17, <2>1 DEF OwedExact, Within
  <2> QED BY <1>12, <1>13, <1>14, <1>15, <1>16, <2>2 DEF Exact
<1> QED BY <1>1, <1>12, <1>13, <1>14, <1>18, PlanKeeps

-----------------------------------------------------------------------------
(* Bulk receipts *)

LEMMA AllocateCustomerPaymentKeeps ==
  ASSUME Inv, NEW c \in Call, call[c].at = "idle", NEW alloc \in [Invoice -> Amount \cup {0}],
         NEW amount \in Int, AllocateCustomerPayment(c, alloc, amount)
  PROVE  Inv'
<1> DEFINE paying == {i \in Invoice : alloc[i] > 0}
           inv == [i \in paying |-> Received(invoices[i], alloc[i])]
           e == [NoEntry EXCEPT !.kind = "bulk", !.amount = amount, !.status = "POSTED", !.alloc = alloc]
           lines == LinesOf(e)
<1>1. PICK id \in Fresh : Plan(c, [inv |-> inv, owed |-> Owe(-amount), ent |-> Row(id, e)], lines)
  BY DEF AllocateCustomerPayment
<1>2. \A i \in Invoice : alloc[i] \in Nat
  BY AmountsArePositive
<1>3. alloc \in [Invoice -> Nat]
  BY <1>2
<1>4. amount \in Int /\ amount > 0 /\ amount - Total(alloc, Invoice) \in -1..1
  <2>1. Total(alloc, Invoice) \in Nat
    BY <1>2, InvoicesAreFinite, TotalNat
  <2>2. amount > 0 /\ amount - Total(alloc, Invoice) \in Rests
    BY DEF AllocateCustomerPayment
  <2>3. amount - Total(alloc, Invoice) \in -1..1
    BY ONLY <2>2, RestsAreSmall
  <2> QED BY <2>1, <2>2, <2>3
<1>5. /\ DOMAIN inv = paying /\ inv = [i \in DOMAIN inv |-> inv[i]] /\ paying \subseteq Invoice
      /\ \A j \in paying : /\ inv[j] \in InvoiceRow /\ inv[j].status # "DRAFT" /\ inv[j].total = invoices[j].total
                           /\ inv[j].paid - invoices[j].paid = alloc[j]
  <2>1. ASSUME NEW j \in paying
        PROVE  /\ inv[j] \in InvoiceRow /\ inv[j].status # "DRAFT" /\ inv[j].total = invoices[j].total
               /\ inv[j].paid - invoices[j].paid = alloc[j]
    <3>1. invoices[j] \in InvoiceRow /\ alloc[j] \in Int /\ inv[j] = Received(invoices[j], alloc[j])
      BY <1>2, InvoiceIs
    <3> QED BY <3>1, PaymentIs
  <2> QED BY <2>1
<1>6. \A j \in Invoice : (IF j \in paying THEN alloc[j] ELSE 0) = alloc[j]
  BY <1>2
<1> HIDE DEF paying, inv
<1>7. inv \in Some(Invoice, InvoiceRow)
  BY <1>5, SomeIs
<1>8. /\ e \in EntryRow /\ e.kind = "bulk" /\ e.amount = amount /\ e.status = "POSTED" /\ e.alloc = alloc
  <2>1. /\ e \in [kind : Kind, ref : Invoice \cup {None}, amount : Int, status : Status, alloc : [Invoice -> Nat]]
        /\ e.kind = "bulk" /\ e.amount = amount /\ e.status = "POSTED" /\ e.alloc = alloc
    <3>1. amount \in Int
      BY <1>4
    <3> QED BY ONLY <1>3, <3>1, EntryRecord
  <2> HIDE DEF e
  <2>2. EntryFits(e)
    BY <1>4, <2>1 DEF EntryFits
  <2> QED BY <2>1, <2>2 DEF EntryRow
<1> HIDE DEF e
<1>9. lines \in [Account -> Int] /\ lines["receivable"] = -amount /\ -amount \in Int
  BY <1>4, <1>8, LinesAre
<1>10. \A a \in Account : lines[a] = Line(e, a) - Line(entries[id], a)
  BY <1>8, <1>9, FreshIs DEF Line
<1>11. \A j \in Invoice : PaidBy(e, j) - PaidBy(entries[id], j)
                            = IF j \in DOMAIN inv THEN inv[j].paid - invoices[j].paid ELSE 0
  <2> TAKE j \in Invoice
  <2>1. PaidBy(e, j) = alloc[j] /\ PaidBy(entries[id], j) = 0
    BY <1>8, FreshIs DEF PaidBy
  <2> QED BY <1>2, <1>5, <1>6, <2>1
<1>12. \A j \in DOMAIN inv : inv[j].status # "DRAFT" /\ inv[j].total = invoices[j].total
  BY <1>5
<1>13. \A j \in Invoice : ~Own(e, j)
  BY <1>8 DEF Own
<1>14. Within(-amount - lines["receivable"], Rest(e) - Rest(entries[id]))
  <2>1. Rest(e) = 0 /\ Rest(entries[id]) = 0
    BY <1>8, FreshIs DEF Rest
  <2> QED BY <1>4, <1>9, <2>1 DEF Within
<1> HIDE DEF lines
<1> QED BY <1>1, <1>7, <1>8, <1>9, <1>10, <1>11, <1>12, <1>13, <1>14, FreshIs, PaymentPlanKeeps

LEMMA UnpostAllocationGroupKeeps ==
  ASSUME Inv, NEW c \in Call, call[c].at = "idle", NEW id \in Id, UnpostAllocationGroup(c, id)
  PROVE  Inv'
<1> DEFINE o == entries[id]
           alloc == o.alloc
           paying == {i \in Invoice : alloc[i] > 0}
           amount == Total(alloc, Invoice)
           inv == [i \in paying |-> Reversed(invoices[i], alloc[i])]
           e == [o EXCEPT !.status = "DRAFT", !.alloc = Nowhere]
           lines == Minus(LinesOf(o))
<1>1. /\ o.kind = "bulk" /\ o.status = "POSTED" /\ paying # {}
      /\ Plan(c, [inv |-> inv, owed |-> Owe(amount), ent |-> Row(id, e)], lines)
  BY DEF UnpostAllocationGroup, Is
<1>2. /\ o \in EntryRow /\ EntryFits(o) /\ o.amount \in Int /\ \A i \in Invoice : alloc[i] \in Nat
      /\ o \in [kind : Kind, ref : Invoice \cup {None}, amount : Int, status : Status, alloc : [Invoice -> Nat]]
  BY EntryIs
<1>3. o.amount - amount \in -1..1 /\ amount \in Int
  <2>1. alloc # Nowhere
    BY <1>1, NowhereIs
  <2>2. amount \in Nat
    BY <1>2, InvoicesAreFinite, TotalNat
  <2> QED BY <1>2, <2>1, <2>2 DEF EntryFits
<1>4. /\ DOMAIN inv = paying /\ inv = [i \in DOMAIN inv |-> inv[i]] /\ paying \subseteq Invoice
      /\ \A j \in paying : /\ inv[j] \in InvoiceRow /\ inv[j].status # "DRAFT" /\ inv[j].total = invoices[j].total
                           /\ inv[j].paid - invoices[j].paid = -alloc[j]
  <2>1. ASSUME NEW j \in paying
        PROVE  /\ inv[j] \in InvoiceRow /\ inv[j].status # "DRAFT" /\ inv[j].total = invoices[j].total
               /\ inv[j].paid - invoices[j].paid = -alloc[j]
    <3>1. invoices[j] \in InvoiceRow /\ alloc[j] \in Int /\ inv[j] = Reversed(invoices[j], alloc[j])
      BY <1>2, InvoiceIs
    <3> HIDE DEF alloc
    <3> QED BY <3>1, PaymentIs
  <2> QED BY <2>1
<1>5. \A j \in Invoice : (IF j \in paying THEN -alloc[j] ELSE 0) = -alloc[j]
  BY <1>2
<1>6. /\ e \in [kind : Kind, ref : Invoice \cup {None}, amount : Int, status : Status, alloc : [Invoice -> Nat]]
      /\ e.kind = "bulk" /\ e.status = "DRAFT" /\ e.amount = o.amount /\ e.alloc = Nowhere
  BY <1>1, <1>2, NowhereIs DEF Status
<1> HIDE DEF e, inv, paying, amount
<1>7. inv \in Some(Invoice, InvoiceRow)
  BY <1>4, SomeIs
<1>8. e \in EntryRow
  BY <1>1, <1>2, <1>6 DEF EntryFits, EntryRow
<1>9. LinesOf(o) \in [Account -> Int] /\ LinesOf(o)["receivable"] = -o.amount
  BY <1>1, <1>2, LinesAre
<1>10. lines \in [Account -> Int] /\ lines["receivable"] = o.amount
  BY <1>2, <1>9, MinusIs
<1>11. \A a \in Account : lines[a] = Line(e, a) - Line(entries[id], a)
  BY <1>1, <1>6, <1>9, MinusIs DEF Line
<1>12. \A j \in Invoice : PaidBy(e, j) - PaidBy(entries[id], j)
                            = IF j \in DOMAIN inv THEN inv[j].paid - invoices[j].paid ELSE 0
  <2> TAKE j \in Invoice
  <2>1. PaidBy(e, j) = 0 /\ PaidBy(o, j) = alloc[j] /\ alloc[j] \in Nat
    BY <1>1, <1>2, <1>6 DEF PaidBy
  <2>2. (IF j \in DOMAIN inv THEN inv[j].paid - invoices[j].paid ELSE 0) = -alloc[j]
    BY <1>4, <1>5
  <2> QED BY <2>1, <2>2
<1>13. \A j \in DOMAIN inv : inv[j].status # "DRAFT" /\ inv[j].total = invoices[j].total
  BY <1>4
<1>14. (\A j \in Invoice : ~Own(e, j)) /\ e.kind = o.kind /\ e.kind # "closing"
  BY <1>1, <1>6 DEF Own
<1>15. Within(amount - lines["receivable"], Rest(e) - Rest(entries[id]))
  <2>1. Rest(e) = 1 /\ Rest(o) = 0
    BY <1>1, <1>6 DEF Rest
  <2> QED BY <1>2, <1>3, <1>10, <2>1 DEF Within
<1> HIDE DEF lines
<1> QED BY <1>1, <1>3, <1>7, <1>8, <1>10, <1>11, <1>12, <1>13, <1>14, <1>15, PaymentPlanKeeps

-----------------------------------------------------------------------------
(* Every step, and what follows *)

LEMMA InvoicingKeeps == ASSUME Inv, NEW c \in Call, call[c].at = "idle", Invoicing(c) PROVE Inv'
<1>1. PICK i \in Invoice :
        \/ \E total \in Price : UpdateInvoice(c, i, total)
        \/ \E amount \in Amount : RecordPayment(c, i, amount)
        \/ PostInvoice(c, i) \/ UnpostInvoice(c, i)
  BY DEF Invoicing
<1>2. ASSUME NEW total \in Price, UpdateInvoice(c, i, total) PROVE Inv'
  BY <1>2, UpdateInvoiceKeeps
<1>3. ASSUME NEW amount \in Amount, RecordPayment(c, i, amount) PROVE Inv'
  BY <1>3, RecordPaymentKeeps
<1>4. CASE PostInvoice(c, i)
  BY <1>4, PostInvoiceKeeps
<1>5. CASE UnpostInvoice(c, i)
  BY <1>5, UnpostInvoiceKeeps
<1> QED BY <1>1, <1>2, <1>3, <1>4, <1>5

LEMMA ReceivingKeeps == ASSUME Inv, NEW c \in Call, call[c].at = "idle", Receiving(c) PROVE Inv'
<1>1. ASSUME NEW id \in Id, NEW amount \in Amount, UpdatePayment(c, id, amount) PROVE Inv'
  BY <1>1, UpdatePaymentKeeps
<1>2. ASSUME NEW id \in Id, UnpostPayment(c, id) PROVE Inv'
  BY <1>2, UnpostPaymentKeeps
<1>3. ASSUME NEW id \in Id, PostPayment(c, id) PROVE Inv'
  BY <1>3, PostPaymentKeeps
<1>4. ASSUME NEW id \in Id, DeletePayment(c, id) PROVE Inv'
  BY <1>4, DeletePaymentKeeps
<1>5. ASSUME NEW id \in Id, UnpostAllocationGroup(c, id) PROVE Inv'
  BY <1>5, UnpostAllocationGroupKeeps
<1>6. ASSUME NEW alloc \in [Invoice -> Amount \cup {0}], NEW rest \in Rests,
             AllocateCustomerPayment(c, alloc, Total(alloc, Invoice) + rest)
      PROVE  Inv'
  <2>1. \A i \in Invoice : alloc[i] \in Nat
    BY AmountsArePositive
  <2>2. Total(alloc, Invoice) \in Nat
    BY <2>1, InvoicesAreFinite, TotalNat
  <2>3. rest \in Int
    BY RestsAreSmall
  <2> QED BY <1>6, <2>2, <2>3, AllocateCustomerPaymentKeeps
<1> QED BY <1>1, <1>2, <1>3, <1>4, <1>5, <1>6 DEF Receiving

LEMMA InvStep == Inv /\ [Next]_vars => Inv'
<1> SUFFICES ASSUME Inv, [Next]_vars PROVE Inv'
  OBVIOUS
<1>1. ASSUME NEW c \in Call, Begin(c) PROVE Inv'
  <2>1. call[c].at = "idle" /\ At(c, "idle")
    BY <1>1 DEF Begin, At
  <2>2. Invoicing(c) \/ Receiving(c) \/ Journal(c) \/ CloseRead(c)
    BY <1>1 DEF Begin
  <2> QED BY <2>1, <2>2, InvoicingKeeps, ReceivingKeeps, JournalKeeps, CloseReadKeeps
<1>2. ASSUME NEW c \in Call, CloseStep(c) PROVE Inv'
  BY <1>2, CloseStepKeeps
<1>3. ASSUME NEW c \in Call, CloseMark(c) PROVE Inv'
  BY <1>3, CloseMarkKeeps
<1>4. ASSUME NEW c \in Call, ReadBalances(c) PROVE Inv'
  BY <1>4, ReadBalancesKeeps
<1>5. ASSUME NEW c \in Call, Commit(c) PROVE Inv'
  BY <1>5, CommitKeeps
<1>6. ASSUME NEW c \in Call, Abort(c) PROVE Inv'
  BY <1>6, AbortKeeps
<1>7. CASE UNCHANGED vars
  <2>1. /\ UNCHANGED <<invoices, owed, entries, balance, closed, call, raced, bypassed, since>>
    BY <1>7 DEF vars, rows
  <2>2. TypeInv'
    BY <2>1 DEF Inv, TypeInv
  <2> QED BY <2>1, <2>2 DEF Inv
<1> QED BY <1>1, <1>2, <1>3, <1>4, <1>5, <1>6, <1>7 DEF Next

LEMMA InvHolds == Spec => []Inv
BY InvInit, InvStep, PTL DEF Spec

\* As long as no transaction has overwritten a row written since it read it, an
\* account's balance is the sum of its POSTED lines: however calls interleave, are
\* aborted, and post, take back, delete, allocate and close, addToAccountBalance and
\* subtractFromAccountBalance are called for exactly the lines that count.
THEOREM BooksStayBalanced == Spec => []BooksAgree
<1>1. Inv => BooksAgree
  <2> SUFFICES ASSUME Inv, ~raced, NEW a \in Account PROVE balance[a] = Posted(a)
    BY DEF BooksAgree
  <2>1. entries \in [Id -> EntryRow] /\ BooksFit(balance, entries)
    BY DEF Inv, TypeInv
  <2> QED BY <2>1, PostedIs DEF BooksFit
<1> QED BY <1>1, InvHolds, PTL

\* As long as calls do not race and no invoice's or receipt's entry is posted or deleted
\* through journal-entries, what the customer owes is the receivables account, and what
\* each invoice counts as paid is its posted receipts and the allocations to it: but for
\* the 0.01 by which each bulk receipt that was taken back (unpostAllocationGroup) may
\* have differed from what it was allocated to.
THEOREM DebtsFollowReceipts == Spec => []ReceiptsAgree
<1>1. Inv => ReceiptsAgree
  <2> SUFFICES ASSUME Inv, ~raced, ~bypassed
               PROVE  /\ LET back == Cardinality({id \in Id : entries[id].kind = "bulk"
                                                              /\ entries[id].status # "POSTED"})
                         IN  owed["customer"] - Posted("receivable") \in -back..back
                      /\ \A i \in Invoice :
                           LET posted == {id \in Id : entries[id].status = "POSTED"}
                           IN  invoices[i].paid = AmountOf(Receipts(i))
                                                  + Total([id \in posted |-> entries[id].alloc[i]], posted)
    BY DEF ReceiptsAgree
  <2>1. entries \in [Id -> EntryRow] /\ OwedFits(owed, entries) /\ PaidFits(invoices, entries)
    BY DEF Inv, TypeInv
  <2>2. LET back == Cardinality({id \in Id : entries[id].kind = "bulk" /\ entries[id].status # "POSTED"})
        IN  owed["customer"] - Posted("receivable") \in -back..back
    <3> DEFINE back == Cardinality({id \in Id : entries[id].kind = "bulk" /\ entries[id].status # "POSTED"})
    <3>1. RestSum(entries) = back /\ back \in Nat
      BY RestIs
    <3> HIDE DEF back
    <3>2. Posted("receivable") = LineSum(entries, "receivable")
      BY <2>1, PostedIs
    <3>3. owed["customer"] \in Int /\ LineSum(entries, "receivable") \in Int
      <4>1. entries \in [Id -> EntryRow] /\ NoRows \in Some(Id, EntryRow)
        BY <2>1, NoRowsIs
      <4>2. LineSum(entries, "receivable") \in Int
        BY <4>1, LineSumChange
      <4> QED BY <4>2 DEF Inv, TypeInv
    <3>4. Within(owed["customer"] - LineSum(entries, "receivable"), back)
      BY <2>1, <3>1 DEF OwedFits
    <3>5. owed["customer"] - Posted("receivable") \in -back..back
      BY <3>1, <3>2, <3>3, <3>4 DEF Within
    <3> QED BY <3>5 DEF back
  <2>3. ASSUME NEW i \in Invoice
        PROVE  LET posted == {id \in Id : entries[id].status = "POSTED"}
               IN  invoices[i].paid = AmountOf(Receipts(i))
                                      + Total([id \in posted |-> entries[id].alloc[i]], posted)
    <3>1. invoices[i].paid = PaidSum(entries, i)
      BY <2>1 DEF PaidFits
    <3>2. LET posted == {id \in Id : entries[id].status = "POSTED"}
          IN  PaidSum(entries, i) = AmountOf(Receipts(i)) + Total([id \in posted |-> entries[id].alloc[i]], posted)
      BY <2>1, PaidIs
    <3> QED BY ONLY <3>1, <3>2
  <2> QED BY <2>2, <2>3
<1> QED BY <1>1, InvHolds, PTL

\* An invoice that says PAID has been paid in full, whatever calls do, and in whatever
\* order receipts are recorded, corrected, taken back and posted again.
THEOREM PaidMeansPaid == Spec => []PaidInFull
<1>1. Inv => PaidInFull
  BY DEF Inv, TypeInv, InvoiceRow, PaidInFull
<1> QED BY <1>1, InvHolds, PTL

\* Once closeFiscalYear has marked the year closed, the revenue account's POSTED lines
\* come to exactly what was posted after the sum the closing entry was made of: calls
\* that post, take back or delete between the steps of the closing are neither lost nor
\* closed twice.
THEOREM ClosedYearsAreExact == Spec => []ClosingIsExact
<1>1. Inv => ClosingIsExact
  <2> SUFFICES ASSUME Inv, closed, ~raced PROVE Posted("revenue") = since
    BY DEF ClosingIsExact
  <2>1. entries \in [Id -> EntryRow] /\ LineSum(entries, "revenue") = since
    BY DEF Inv, TypeInv
  <2> QED BY <2>1, PostedIs
<1> QED BY <1>1, InvHolds, PTL
=============================================================================
