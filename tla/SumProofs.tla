----------------------------- MODULE SumProofs -----------------------------
(***************************************************************************)
(* Sums over finite sets: what SumFunctionOnSet of the module Functions    *)
(* gives when an element is added, removed or changed.                     *)
(*                                                                         *)
(* The sum is defined by a recursion over the subsets that takes their     *)
(* elements in an unknown order.  The recursion is shown to have exactly   *)
(* one solution by taking a smallest set for which it has none, or two,    *)
(* and the order is shown not to matter in the same way.                   *)
(***************************************************************************)
EXTENDS Functions, FiniteSetTheorems, WellFoundedInduction, TLAPS

LEMMA LeastOfNaturals ==
    ASSUME NEW S \in SUBSET Nat, S # {}
    PROVE  \E m \in S : \A n \in S : m <= n
<1> DEFINE Below == OpToRel(<, Nat)
<1>1. \A x, y \in Nat : <<x, y>> \in Below <=> x < y
  BY DEF OpToRel
<1> HIDE DEF Below
<1>2. IsWellFoundedOn(Below, Nat)
  BY NatLessThanWellFounded DEF Below
<1>3. PICK m \in S : \A n \in S : ~(<<n, m>> \in Below)
  BY <1>2, WFMin
<1>4. ASSUME NEW n \in S PROVE m <= n
  <2>1. m \in Nat /\ n \in Nat /\ ~(n < m)
    BY <1>1, <1>3
  <2> QED BY <2>1
<1> QED BY <1>4

(* Of some finite sets, one is smallest: its proper subsets are not among  *)
(* them.                                                                   *)
LEMMA SmallestSet ==
    ASSUME NEW Sets, Sets # {}, \A S \in Sets : IsFiniteSet(S)
    PROVE  \E S \in Sets : \A x \in S : S \ {x} \notin Sets
<1> DEFINE Sizes == {Cardinality(S) : S \in Sets}
<1>1. Sizes \in SUBSET Nat /\ Sizes # {}
  BY FS_CardinalityType
<1>2. PICK size \in Sizes : \A other \in Sizes : size <= other
  BY <1>1, LeastOfNaturals
<1>3. PICK S \in Sets : size = Cardinality(S)
  BY <1>2
<1>4. ASSUME NEW x \in S, S \ {x} \in Sets PROVE FALSE
  <2>1. Cardinality(S \ {x}) = Cardinality(S) - 1 /\ Cardinality(S) \in Nat
    BY <1>4, FS_RemoveElement, FS_CardinalityType
  <2>2. Cardinality(S) <= Cardinality(S \ {x})
    BY <1>2, <1>3, <1>4
  <2> QED BY <2>1, <2>2
<1> QED BY <1>4

(* A solution of the recursion over the sets of a family. *)
Pick(T) == CHOOSE x \in T : TRUE
Solves(v, Sets, g) ==
    g = [T \in Sets |-> IF T = {} THEN 0 ELSE v[Pick(T)] + g[T \ {Pick(T)}]]

LEMMA SumIsSolution ==
    ASSUME NEW v, NEW S
    PROVE  SumFunctionOnSet(v, S) = (CHOOSE g : Solves(v, SUBSET S, g))[S]
BY DEF SumFunctionOnSet, FoldFunctionOnSet, MapThenFoldSet, Solves, Pick

LEMMA PickIn ==
    ASSUME NEW T, T # {}
    PROVE  Pick(T) \in T
BY DEF Pick

LEMMA SolutionExists ==
    ASSUME NEW v, NEW S, IsFiniteSet(S)
    PROVE  \E g : Solves(v, SUBSET S, g)
<1> DEFINE Upto(k) == {T \in SUBSET S : Cardinality(T) <= k}
           Bad == {k \in Nat : ~\E g : Solves(v, Upto(k), g)}
<1>1. \A T \in SUBSET S : IsFiniteSet(T) /\ Cardinality(T) \in Nat
  BY FS_Subset, FS_CardinalityType
<1>2. SUFFICES Bad = {}
  <2>1. Cardinality(S) \in Nat /\ Upto(Cardinality(S)) = SUBSET S
    BY <1>1, FS_Subset, FS_CardinalityType
  <2>2. PICK n \in Nat : n = Cardinality(S)
    BY <2>1
  <2>3. n \notin Bad
    BY <1>2
  <2>4. \E g : Solves(v, Upto(n), g)
    BY <2>3
  <2> QED BY <2>1, <2>2, <2>4
<1>3. SUFFICES ASSUME Bad # {} PROVE FALSE
  OBVIOUS
<1>4. PICK k \in Bad : \A n \in Bad : k <= n
  <2>1. Bad \in SUBSET Nat
    OBVIOUS
  <2> QED BY <1>3, <2>1, LeastOfNaturals
<1>5. CASE k = 0
  <2>1. \A T \in Upto(0) : T = {}
    BY <1>1, FS_EmptySet
  <2>2. PICK g : g = [T \in Upto(0) |-> 0]
    OBVIOUS
  <2>3. Solves(v, Upto(0), g)
    BY <2>1, <2>2 DEF Solves
  <2> QED BY <1>4, <1>5, <2>3
<1>6. CASE k # 0
  <2>1. k - 1 \in Nat /\ k - 1 \notin Bad
    <3>1. k \in Nat
      BY <1>4
    <3>2. k - 1 \in Nat /\ ~(k <= k - 1)
      BY <1>6, <3>1
    <3> HIDE DEF Bad
    <3> QED BY <1>4, <3>2
  <2>2. PICK g : Solves(v, Upto(k - 1), g)
    BY <2>1
  <2>3. PICK h : h = [T \in Upto(k) |-> IF T = {} THEN 0 ELSE v[Pick(T)] + g[T \ {Pick(T)}]]
    OBVIOUS
  <2>4. ASSUME NEW T \in Upto(k), T # {}
        PROVE  T \ {Pick(T)} \in Upto(k - 1) /\ T \ {Pick(T)} \in Upto(k)
    <3>1. Pick(T) \in T /\ IsFiniteSet(T)
      BY <1>1, <2>4, PickIn
    <3>2. Cardinality(T \ {Pick(T)}) = Cardinality(T) - 1
      BY <3>1, FS_RemoveElement
    <3>3. Cardinality(T) \in Nat /\ Cardinality(T) <= k /\ k \in Nat
      BY <1>1, <1>4
    <3> QED BY <3>2, <3>3
  <2>5. ASSUME NEW T \in Upto(k - 1) PROVE T \in Upto(k) /\ h[T] = g[T]
    <3>1. T \in Upto(k)
      <4>1. Cardinality(T) \in Nat /\ Cardinality(T) <= k - 1 /\ k \in Nat
        BY <1>1, <1>4
      <4> QED BY <4>1
    <3>2. g[T] = IF T = {} THEN 0 ELSE v[Pick(T)] + g[T \ {Pick(T)}]
      BY <2>2, <2>5 DEF Solves
    <3> QED BY <2>3, <3>1, <3>2
  <2>6. \A T \in Upto(k) : T # {} => h[T \ {Pick(T)}] = g[T \ {Pick(T)}]
    BY <2>4, <2>5
  <2>7. Solves(v, Upto(k), h)
    BY <2>3, <2>6 DEF Solves
  <2> QED BY <1>4, <2>7
<1> QED BY <1>5, <1>6

LEMMA SolutionUnique ==
    ASSUME NEW v, NEW S, IsFiniteSet(S), NEW g, NEW h, NEW Above, S \in SUBSET Above,
           Solves(v, SUBSET Above, g), Solves(v, SUBSET S, h)
    PROVE  g[S] = h[S]
<1> DEFINE Bad == {T \in SUBSET S : g[T] # h[T]}
<1>1. SUFFICES ASSUME Bad # {} PROVE FALSE
  OBVIOUS
<1>2. \A T \in Bad : IsFiniteSet(T)
  BY FS_Subset
<1>3. PICK T \in Bad : \A x \in T : T \ {x} \notin Bad
  <2> HIDE DEF Bad
  <2> QED BY <1>1, <1>2, SmallestSet
<1>4. /\ T \in SUBSET S /\ T \in SUBSET Above
      /\ g[T] = IF T = {} THEN 0 ELSE v[Pick(T)] + g[T \ {Pick(T)}]
      /\ h[T] = IF T = {} THEN 0 ELSE v[Pick(T)] + h[T \ {Pick(T)}]
  BY <1>3 DEF Solves
<1>5. T # {}
  BY <1>3, <1>4
<1>6. g[T \ {Pick(T)}] = h[T \ {Pick(T)}]
  BY <1>3, <1>4, <1>5, PickIn
<1> QED BY <1>3, <1>4, <1>5, <1>6

LEMMA SumRecursion ==
    ASSUME NEW v, NEW S, IsFiniteSet(S)
    PROVE  SumFunctionOnSet(v, S) =
             IF S = {} THEN 0 ELSE v[Pick(S)] + SumFunctionOnSet(v, S \ {Pick(S)})
<1> DEFINE Solution(T) == CHOOSE g : Solves(v, SUBSET T, g)
<1>1. \A T \in SUBSET S : IsFiniteSet(T) /\ Solves(v, SUBSET T, Solution(T))
  BY FS_Subset, SolutionExists
<1>2. \A T \in SUBSET S : SumFunctionOnSet(v, T) = Solution(T)[T]
  BY SumIsSolution
<1> HIDE DEF Solution
<1>3. Solution(S)[S] = IF S = {} THEN 0 ELSE v[Pick(S)] + Solution(S)[S \ {Pick(S)}]
  BY <1>1 DEF Solves
<1>4. Solution(S)[S \ {Pick(S)}] = Solution(S \ {Pick(S)})[S \ {Pick(S)}]
  BY <1>1, SolutionUnique
<1> QED BY <1>2, <1>3, <1>4

-----------------------------------------------------------------------------
(***************************************************************************)
(* What the rest of the project uses.                                      *)
(***************************************************************************)
LEMMA SumOfNothing ==
    ASSUME NEW v
    PROVE  SumFunctionOnSet(v, {}) = 0
BY SumRecursion, FS_EmptySet

LEMMA SumIsInt ==
    ASSUME NEW v, NEW S, IsFiniteSet(S), \A x \in S : v[x] \in Int
    PROVE  SumFunctionOnSet(v, S) \in Int
<1> DEFINE Bad == {T \in SUBSET S : SumFunctionOnSet(v, T) \notin Int}
<1>1. SUFFICES ASSUME Bad # {} PROVE FALSE
  OBVIOUS
<1>2. \A T \in Bad : IsFiniteSet(T)
  BY FS_Subset
<1>3. PICK T \in Bad : \A x \in T : T \ {x} \notin Bad
  <2> HIDE DEF Bad
  <2> QED BY <1>1, <1>2, SmallestSet
<1>4. IsFiniteSet(T) /\ T \in SUBSET S
  BY <1>2
<1>5. CASE T = {}
  BY <1>3, <1>5, SumOfNothing
<1>6. CASE T # {}
  <2>1. Pick(T) \in T
    BY <1>6, PickIn
  <2>2. SumFunctionOnSet(v, T \ {Pick(T)}) \in Int /\ v[Pick(T)] \in Int
    BY <1>3, <1>4, <2>1
  <2>3. SumFunctionOnSet(v, T) = v[Pick(T)] + SumFunctionOnSet(v, T \ {Pick(T)})
    BY <1>4, <1>6, SumRecursion
  <2> QED BY <1>3, <2>2, <2>3
<1> QED BY <1>5, <1>6

(* The order does not matter: any element can be taken out. *)
LEMMA SumWithout ==
    ASSUME NEW v, NEW S, IsFiniteSet(S), \A x \in S : v[x] \in Int, NEW e \in S
    PROVE  SumFunctionOnSet(v, S) = v[e] + SumFunctionOnSet(v, S \ {e})
<1> DEFINE Bad == {T \in SUBSET S : \E y \in T :
                     SumFunctionOnSet(v, T) # v[y] + SumFunctionOnSet(v, T \ {y})}
<1>1. SUFFICES ASSUME Bad # {} PROVE FALSE
  <2>1. S \in SUBSET S
    OBVIOUS
  <2> QED BY <2>1
<1>2. \A T \in Bad : IsFiniteSet(T)
  BY FS_Subset
<1>3. PICK T \in Bad : \A x \in T : T \ {x} \notin Bad
  <2> HIDE DEF Bad
  <2> QED BY <1>1, <1>2, SmallestSet
<1>4. PICK y \in T : SumFunctionOnSet(v, T) # v[y] + SumFunctionOnSet(v, T \ {y})
  BY <1>3
<1>5. PICK p : p = Pick(T)
  OBVIOUS
<1>6. p \in T /\ IsFiniteSet(T) /\ T \in SUBSET S
  BY <1>2, <1>4, <1>5, PickIn
<1>7. SumFunctionOnSet(v, T) = v[p] + SumFunctionOnSet(v, T \ {p})
  BY <1>5, <1>6, SumRecursion
<1>8. CASE p = y
  BY <1>4, <1>7, <1>8
<1>9. CASE p # y
  <2>1. T \ {p} \in SUBSET S /\ T \ {y} \in SUBSET S /\ y \in T \ {p} /\ p \in T \ {y}
    BY <1>6, <1>9
  <2>2. SumFunctionOnSet(v, T \ {p}) = v[y] + SumFunctionOnSet(v, (T \ {p}) \ {y})
    BY <1>3, <1>6, <2>1
  <2>3. SumFunctionOnSet(v, T \ {y}) = v[p] + SumFunctionOnSet(v, (T \ {y}) \ {p})
    BY <1>3, <2>1
  <2>4. (T \ {p}) \ {y} = (T \ {y}) \ {p}
    OBVIOUS
  <2>5. v[p] \in Int /\ v[y] \in Int /\ SumFunctionOnSet(v, (T \ {p}) \ {y}) \in Int
    <3>1. IsFiniteSet((T \ {p}) \ {y}) /\ \A x \in (T \ {p}) \ {y} : v[x] \in Int
      BY <1>6, FS_Subset
    <3> QED BY <1>6, <3>1, SumIsInt
  <2> QED BY <1>4, <1>7, <2>2, <2>3, <2>4, <2>5
<1> QED BY <1>8, <1>9

LEMMA SumWith ==
    ASSUME NEW v, NEW S, IsFiniteSet(S), NEW e, e \notin S, \A x \in S \cup {e} : v[x] \in Int
    PROVE  SumFunctionOnSet(v, S \cup {e}) = SumFunctionOnSet(v, S) + v[e]
<1>1. IsFiniteSet(S \cup {e}) /\ (S \cup {e}) \ {e} = S
  BY FS_AddElement
<1>2. SumFunctionOnSet(v, S \cup {e}) = v[e] + SumFunctionOnSet(v, S)
  BY <1>1, SumWithout
<1>3. SumFunctionOnSet(v, S) \in Int /\ v[e] \in Int
  BY SumIsInt
<1> QED BY <1>2, <1>3

(* Only the values on the set count. *)
LEMMA SumOfEqual ==
    ASSUME NEW v, NEW w, NEW S, IsFiniteSet(S), \A x \in S : v[x] = w[x]
    PROVE  SumFunctionOnSet(v, S) = SumFunctionOnSet(w, S)
<1> DEFINE Bad == {T \in SUBSET S : SumFunctionOnSet(v, T) # SumFunctionOnSet(w, T)}
<1>1. SUFFICES ASSUME Bad # {} PROVE FALSE
  OBVIOUS
<1>2. \A T \in Bad : IsFiniteSet(T)
  BY FS_Subset
<1>3. PICK T \in Bad : \A x \in T : T \ {x} \notin Bad
  <2> HIDE DEF Bad
  <2> QED BY <1>1, <1>2, SmallestSet
<1>4. IsFiniteSet(T) /\ T \in SUBSET S
  BY <1>2
<1>5. CASE T = {}
  BY <1>3, <1>5, SumOfNothing
<1>6. CASE T # {}
  <2>1. Pick(T) \in T
    BY <1>6, PickIn
  <2>2. SumFunctionOnSet(v, T \ {Pick(T)}) = SumFunctionOnSet(w, T \ {Pick(T)})
        /\ v[Pick(T)] = w[Pick(T)]
    BY <1>3, <1>4, <2>1
  <2>3. /\ SumFunctionOnSet(v, T) = v[Pick(T)] + SumFunctionOnSet(v, T \ {Pick(T)})
        /\ SumFunctionOnSet(w, T) = w[Pick(T)] + SumFunctionOnSet(w, T \ {Pick(T)})
    BY <1>4, <1>6, SumRecursion
  <2> QED BY <1>3, <2>2, <2>3
<1> QED BY <1>5, <1>6

LEMMA SumIsNat ==
    ASSUME NEW v, NEW S, IsFiniteSet(S), \A x \in S : v[x] \in Nat
    PROVE  SumFunctionOnSet(v, S) \in Nat
<1> DEFINE Bad == {T \in SUBSET S : SumFunctionOnSet(v, T) \notin Nat}
<1>1. SUFFICES ASSUME Bad # {} PROVE FALSE
  OBVIOUS
<1>2. \A T \in Bad : IsFiniteSet(T)
  BY FS_Subset
<1>3. PICK T \in Bad : \A x \in T : T \ {x} \notin Bad
  <2> HIDE DEF Bad
  <2> QED BY <1>1, <1>2, SmallestSet
<1>4. IsFiniteSet(T) /\ T \in SUBSET S
  BY <1>2
<1>5. CASE T = {}
  BY <1>3, <1>5, SumOfNothing
<1>6. CASE T # {}
  <2>1. Pick(T) \in T
    BY <1>6, PickIn
  <2>2. SumFunctionOnSet(v, T \ {Pick(T)}) \in Nat /\ v[Pick(T)] \in Nat
    BY <1>3, <1>4, <2>1
  <2>3. SumFunctionOnSet(v, T) = v[Pick(T)] + SumFunctionOnSet(v, T \ {Pick(T)})
    BY <1>4, <1>6, SumRecursion
  <2> QED BY <1>3, <2>2, <2>3
<1> QED BY <1>5, <1>6

LEMMA SumOfZeros ==
    ASSUME NEW v, NEW S, IsFiniteSet(S), \A x \in S : v[x] = 0
    PROVE  SumFunctionOnSet(v, S) = 0
<1> DEFINE Bad == {T \in SUBSET S : SumFunctionOnSet(v, T) # 0}
<1>1. SUFFICES ASSUME Bad # {} PROVE FALSE
  OBVIOUS
<1>2. \A T \in Bad : IsFiniteSet(T)
  BY FS_Subset
<1>3. PICK T \in Bad : \A x \in T : T \ {x} \notin Bad
  <2> HIDE DEF Bad
  <2> QED BY <1>1, <1>2, SmallestSet
<1>4. IsFiniteSet(T) /\ T \in SUBSET S
  BY <1>2
<1>5. CASE T = {}
  BY <1>3, <1>5, SumOfNothing
<1>6. CASE T # {}
  <2>1. Pick(T) \in T
    BY <1>6, PickIn
  <2>2. SumFunctionOnSet(v, T \ {Pick(T)}) = 0 /\ v[Pick(T)] = 0
    BY <1>3, <1>4, <2>1
  <2>3. SumFunctionOnSet(v, T) = v[Pick(T)] + SumFunctionOnSet(v, T \ {Pick(T)})
    BY <1>4, <1>6, SumRecursion
  <2> QED BY <1>3, <2>2, <2>3
<1> QED BY <1>5, <1>6

(* More elements of a sum of natural numbers never make it smaller.        *)
LEMMA SumMonotone ==
    ASSUME NEW v, NEW S, IsFiniteSet(S), \A x \in S : v[x] \in Nat, NEW U \in SUBSET S
    PROVE  SumFunctionOnSet(v, U) <= SumFunctionOnSet(v, S)
<1> DEFINE Bad == {T \in SUBSET S : U \in SUBSET T /\
                     ~(SumFunctionOnSet(v, U) <= SumFunctionOnSet(v, T))}
<1>1. SUFFICES ASSUME Bad # {} PROVE FALSE
  <2>1. S \in SUBSET S
    OBVIOUS
  <2> QED BY <2>1
<1>2. \A T \in SUBSET S : IsFiniteSet(T) /\ SumFunctionOnSet(v, T) \in Nat
  <2>1. ASSUME NEW T \in SUBSET S PROVE IsFiniteSet(T) /\ SumFunctionOnSet(v, T) \in Nat
    <3>1. IsFiniteSet(T) /\ \A x \in T : v[x] \in Nat
      BY FS_Subset
    <3> QED BY <3>1, SumIsNat
  <2> QED BY <2>1
<1>3. PICK T \in Bad : \A x \in T : T \ {x} \notin Bad
  <2>1. \A T \in Bad : IsFiniteSet(T)
    BY <1>2
  <2> HIDE DEF Bad
  <2> QED BY <1>1, <2>1, SmallestSet
<1>4. T \in SUBSET S /\ U \in SUBSET T /\ ~(SumFunctionOnSet(v, U) <= SumFunctionOnSet(v, T))
  OBVIOUS
<1>5. PICK x \in T : x \notin U
  <2>1. T # U
    BY <1>2, <1>4
  <2> QED BY <1>4, <2>1
<1>6. SumFunctionOnSet(v, U) <= SumFunctionOnSet(v, T \ {x})
  <2>1. T \ {x} \in SUBSET S /\ U \in SUBSET (T \ {x})
    BY <1>4, <1>5
  <2> QED BY <1>3, <1>5, <2>1
<1>7. SumFunctionOnSet(v, T) = v[x] + SumFunctionOnSet(v, T \ {x})
  <2>1. IsFiniteSet(T) /\ \A y \in T : v[y] \in Int
    BY <1>2, <1>4
  <2> QED BY <2>1, <1>5, SumWithout
<1>8. /\ v[x] \in Nat /\ SumFunctionOnSet(v, T \ {x}) \in Nat /\ SumFunctionOnSet(v, U) \in Nat
  <2>1. T \ {x} \in SUBSET S /\ U \in SUBSET S /\ x \in S
    BY <1>4, <1>5
  <2> QED BY <1>2, <2>1
<1> QED BY <1>4, <1>6, <1>7, <1>8

(* A finite set of natural numbers that is not empty has a largest one.    *)
LEMMA LargestOfFinite ==
    ASSUME NEW S \in SUBSET Nat, S # {}, IsFiniteSet(S)
    PROVE  \E m \in S : \A n \in S : m >= n
<1> DEFINE Bad == {T \in SUBSET S : T # {} /\ ~\E m \in T : \A n \in T : m >= n}
<1>1. SUFFICES ASSUME Bad # {} PROVE FALSE
  <2>1. S \in SUBSET S
    OBVIOUS
  <2> QED BY <2>1
<1>2. PICK T \in Bad : \A x \in T : T \ {x} \notin Bad
  <2>1. \A T \in Bad : IsFiniteSet(T)
    BY FS_Subset
  <2> HIDE DEF Bad
  <2> QED BY <1>1, <2>1, SmallestSet
<1>3. T \in SUBSET S /\ T # {} /\ ~\E m \in T : \A n \in T : m >= n
  OBVIOUS
<1>4. PICK x \in T : x \in Nat
  BY <1>3
<1>5. CASE T \ {x} = {}
  <2>1. \A n \in T : x >= n
    BY <1>4, <1>5
  <2> QED BY <1>3, <2>1
<1>6. CASE T \ {x} # {}
  <2>1. PICK m \in T \ {x} : \A n \in T \ {x} : m >= n
    BY <1>2, <1>3, <1>6
  <2>2. m \in Nat /\ m \in T
    BY <1>3
  <2>3. CASE m >= x
    <3>1. \A n \in T : m >= n
      BY <2>1, <2>3
    <3> QED BY <1>3, <2>2, <3>1
  <2>4. CASE ~(m >= x)
    <3>1. \A n \in T : x >= n
      BY <1>3, <1>4, <2>1, <2>2, <2>4
    <3> QED BY <1>3, <3>1
  <2> QED BY <2>3, <2>4
<1> QED BY <1>5, <1>6
=============================================================================
