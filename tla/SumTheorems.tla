---------------------------- MODULE SumTheorems ----------------------------
(***************************************************************************)
(* Sums of the values of a function over a finite set (SumFunctionOnSet):  *)
(* what they are, and how they change with the set and the function.  The  *)
(* induction is over finite sets: a set of subsets takes the place of the  *)
(* predicate that the library's induction theorems have as a parameter.    *)
(***************************************************************************)
EXTENDS Integers, FiniteSets, Functions, FiniteSetTheorems, TLAPS

\* A set of subsets of a finite set holds all of them if it holds each one whose
\* proper subsets it holds.
LEMMA SubsetInduction ==
  ASSUME NEW S, IsFiniteSet(S), NEW B,
         \A T \in SUBSET S : (\A U \in SUBSET T : U # T => U \in B) => T \in B
  PROVE  \A T \in SUBSET S : T \in B
<1> DEFINE R == StrictSubsetOrdering(S)
           Bad == (SUBSET S) \ B
<1>1. SUFFICES ASSUME Bad # {} PROVE FALSE
  OBVIOUS
<1>2. IsWellFoundedOn(R, SUBSET S)
  BY FS_StrictSubsetOrderingWellFounded, FS_FiniteSubsetsOfFinite
<1>3. PICK T \in Bad : \A U \in Bad : <<U, T>> \notin R
  <2>1. Bad \subseteq SUBSET S
    OBVIOUS
  <2> HIDE DEF R, Bad
  <2> QED
    BY <1>1, <1>2, <2>1, WFMin
<1>4. \A U \in SUBSET T : U # T => U \in B
  BY <1>3 DEF StrictSubsetOrdering
<1> QED
  BY <1>3, <1>4

-----------------------------------------------------------------------------
\* The recursion that defines the sum

Any(s) == CHOOSE x \in s : TRUE
Step(f, g, s) == IF s = {} THEN 0 ELSE f[Any(s)] + g[s \ {Any(s)}]
IsSum(f, g, S) == g = [s \in SUBSET S |-> Step(f, g, s)]

LEMMA SumUnfold ==
  ASSUME NEW f, NEW S
  PROVE  SumFunctionOnSet(f, S) = (CHOOSE g : IsSum(f, g, S))[S]
BY DEF SumFunctionOnSet, FoldFunctionOnSet, MapThenFoldSet, IsSum, Step, Any

LEMMA AnyIn ==
  ASSUME NEW s, s # {}
  PROVE  Any(s) \in s
BY DEF Any

\* Two functions that solve the recursion agree where both are defined.
LEMMA SumUnique ==
  ASSUME NEW S, IsFiniteSet(S), NEW f, NEW h, \A x \in S : f[x] = h[x],
         NEW A, NEW B, S \subseteq A, S \subseteq B,
         NEW g, NEW k, IsSum(f, g, A), IsSum(h, k, B)
  PROVE  \A T \in SUBSET S : g[T] = k[T]
<1> DEFINE Same == {T \in SUBSET S : g[T] = k[T]}
<1>1. ASSUME NEW T \in SUBSET S, \A U \in SUBSET T : U # T => U \in Same
      PROVE  T \in Same
  <2>1. T \in SUBSET A /\ T \in SUBSET B
    OBVIOUS
  <2>2. g[T] = Step(f, g, T) /\ k[T] = Step(h, k, T)
    BY <2>1 DEF IsSum
  <2>3. CASE T = {}
    BY <2>2, <2>3 DEF Step
  <2>4. CASE T # {}
    <3>1. Any(T) \in T
      BY <2>4, AnyIn
    <3>2. T \ {Any(T)} \in Same
      BY <1>1, <3>1
    <3> QED
      BY <2>2, <2>4, <3>1, <3>2 DEF Step
  <2> QED
    BY <2>3, <2>4
<1> HIDE DEF Same
<1>2. \A T \in SUBSET S : T \in Same
  BY <1>1, SubsetInduction
<1> QED
  BY <1>2 DEF Same

\* The recursion has a solution.
LEMMA SumExists ==
  ASSUME NEW f, NEW S, IsFiniteSet(S)
  PROVE  \E g : IsSum(f, g, S)
<1> DEFINE B == {T \in SUBSET S : \E g : IsSum(f, g, T)}
<1>1. ASSUME NEW T \in SUBSET S, \A U \in SUBSET T : U # T => U \in B
      PROVE  T \in B
  <2> DEFINE G(U) == CHOOSE g : IsSum(f, g, U)
             g == [s \in SUBSET T |-> Step(f, [u \in SUBSET T |-> G(u)[u]], s)]
  <2>1. \A U \in SUBSET T : U # T => IsSum(f, G(U), U)
    BY <1>1
  <2>2. ASSUME NEW U \in SUBSET T, U # T PROVE g[U] = G(U)[U]
    <3>1. IsSum(f, G(U), U)
      BY <2>1, <2>2
    <3>2. G(U)[U] = Step(f, G(U), U)
      BY <3>1 DEF IsSum
    <3>3. ASSUME U # {} PROVE G(U)[U \ {Any(U)}] = G(U \ {Any(U)})[U \ {Any(U)}]
      <4> DEFINE V == U \ {Any(U)}
      <4>1. V \in SUBSET T /\ V # T /\ V \subseteq U /\ IsFiniteSet(V)
        BY <3>3, AnyIn, FS_Subset
      <4>2. IsSum(f, G(V), V)
        BY <2>1, <4>1
      <4> HIDE DEF V, G
      <4>3. \A W \in SUBSET V : G(U)[W] = G(V)[W]
        BY <3>1, <4>1, <4>2, SumUnique
      <4> QED
        BY <4>3 DEF V
    <3> QED
      BY <3>2, <3>3, AnyIn DEF Step
  <2>3. ASSUME NEW U \in SUBSET T PROVE g[U] = Step(f, g, U)
    <3>1. CASE U = {}
      BY <3>1 DEF Step
    <3>2. CASE U # {}
      <4>1. U \ {Any(U)} \in SUBSET T /\ U \ {Any(U)} # T
        BY <3>2, AnyIn
      <4>2. g[U \ {Any(U)}] = G(U \ {Any(U)})[U \ {Any(U)}]
        BY <2>2, <4>1
      <4>3. g[U] = f[Any(U)] + G(U \ {Any(U)})[U \ {Any(U)}]
        BY <3>2, <4>1 DEF Step
      <4> QED
        BY <3>2, <4>2, <4>3 DEF Step
    <3> QED
      BY <3>1, <3>2
  <2>4. g = [s \in SUBSET T |-> g[s]]
    OBVIOUS
  <2> HIDE DEF g
  <2>5. IsSum(f, g, T)
    BY <2>3, <2>4 DEF IsSum
  <2> QED
    BY <2>5
<1> HIDE DEF B
<1>2. S \in B
  BY <1>1, SubsetInduction
<1> QED
  BY <1>2 DEF B

LEMMA SumSolves ==
  ASSUME NEW f, NEW S, IsFiniteSet(S)
  PROVE  \E g : IsSum(f, g, S) /\ SumFunctionOnSet(f, S) = g[S]
BY SumExists, SumUnfold

-----------------------------------------------------------------------------
\* The sum of functions

LEMMA SumEmpty ==
  ASSUME NEW f
  PROVE  SumFunctionOnSet(f, {}) = 0
<1>1. PICK g : IsSum(f, g, {}) /\ SumFunctionOnSet(f, {}) = g[{}]
  BY SumSolves, FS_EmptySet
<1> QED
  BY <1>1 DEF IsSum, Step

LEMMA SumSame ==
  ASSUME NEW S, IsFiniteSet(S), NEW f, NEW h, \A x \in S : f[x] = h[x]
  PROVE  SumFunctionOnSet(f, S) = SumFunctionOnSet(h, S)
<1>1. PICK g : IsSum(f, g, S) /\ SumFunctionOnSet(f, S) = g[S]
  BY SumSolves
<1>2. PICK k : IsSum(h, k, S) /\ SumFunctionOnSet(h, S) = k[S]
  BY SumSolves
<1>3. \A T \in SUBSET S : g[T] = k[T]
  BY <1>1, <1>2, SumUnique
<1> QED
  BY <1>1, <1>2, <1>3

LEMMA SumStep ==
  ASSUME NEW f, NEW S, IsFiniteSet(S), S # {}
  PROVE  SumFunctionOnSet(f, S) = f[Any(S)] + SumFunctionOnSet(f, S \ {Any(S)})
<1> DEFINE T == S \ {Any(S)}
<1>1. IsFiniteSet(T) /\ T \in SUBSET S
  BY FS_Subset
<1>2. PICK g : IsSum(f, g, S) /\ SumFunctionOnSet(f, S) = g[S]
  BY SumSolves
<1>3. PICK k : IsSum(f, k, T) /\ SumFunctionOnSet(f, T) = k[T]
  BY <1>1, SumSolves
<1>4. \A U \in SUBSET T : g[U] = k[U]
  <2> HIDE DEF T
  <2>1. T \subseteq S /\ T \subseteq T
    BY <1>1
  <2> QED
    BY <1>1, <1>2, <1>3, <2>1, SumUnique
<1>5. g[S] = Step(f, g, S)
  BY <1>2 DEF IsSum
<1> QED
  BY <1>2, <1>3, <1>4, <1>5 DEF Step

LEMMA SumInt ==
  ASSUME NEW S, IsFiniteSet(S), NEW f, \A x \in S : f[x] \in Int
  PROVE  SumFunctionOnSet(f, S) \in Int
<1> DEFINE B == {T \in SUBSET S : SumFunctionOnSet(f, T) \in Int}
<1>1. ASSUME NEW T \in SUBSET S, \A U \in SUBSET T : U # T => U \in B
      PROVE  T \in B
  <2>1. CASE T = {}
    BY <2>1, SumEmpty
  <2>2. CASE T # {}
    <3>1. Any(T) \in T /\ IsFiniteSet(T)
      BY <2>2, AnyIn, FS_Subset
    <3>2. SumFunctionOnSet(f, T \ {Any(T)}) \in Int
      BY <1>1, <3>1
    <3>3. SumFunctionOnSet(f, T) = f[Any(T)] + SumFunctionOnSet(f, T \ {Any(T)})
      BY <2>2, <3>1, SumStep
    <3> QED
      BY <3>1, <3>2, <3>3
  <2> QED
    BY <2>1, <2>2
<1> HIDE DEF B
<1>2. S \in B
  BY <1>1, SubsetInduction
<1> QED
  BY <1>2 DEF B

\* Any element can be taken out of the set.
THEOREM SumRemove ==
  ASSUME NEW S, IsFiniteSet(S), NEW f, \A x \in S : f[x] \in Int, NEW a \in S
  PROVE  SumFunctionOnSet(f, S) = f[a] + SumFunctionOnSet(f, S \ {a})
<1> DEFINE Sum(T) == SumFunctionOnSet(f, T)
           B == {T \in SUBSET S : \A x \in T : Sum(T) = f[x] + Sum(T \ {x})}
<1>1. ASSUME NEW T \in SUBSET S, \A U \in SUBSET T : U # T => U \in B
      PROVE  T \in B
  <2>1. SUFFICES ASSUME NEW x \in T PROVE Sum(T) = f[x] + Sum(T \ {x})
    OBVIOUS
  <2> DEFINE c == Any(T)
             V == (T \ {x}) \ {c}
  <2>2. c \in T /\ \A U \in SUBSET T : IsFiniteSet(U)
    <3>1. c \in T
      BY AnyIn
    <3> QED
      BY <3>1, FS_Subset
  <2> HIDE DEF c
  <2>3. Sum(T) = f[c] + Sum(T \ {c})
    BY <2>2, SumStep DEF c
  <2>4. CASE x = c
    BY <2>3, <2>4
  <2>5. CASE x # c
    <3>1. T \ {c} \in B /\ T \ {x} \in B
      BY <1>1, <2>2
    <3>2. (T \ {c}) \ {x} = V
      OBVIOUS
    <3>3. Sum(T \ {c}) = f[x] + Sum(V) /\ Sum(T \ {x}) = f[c] + Sum(V)
      BY <2>2, <2>5, <3>1, <3>2
    <3>4. Sum(V) \in Int
      BY <2>2, SumInt
    <3>5. f[x] \in Int /\ f[c] \in Int
      BY <2>2
    <3> HIDE DEF Sum, V
    <3> QED
      BY <2>3, <3>3, <3>4, <3>5
  <2> QED
    BY <2>4, <2>5
<1> HIDE DEF B
<1>2. S \in B
  BY <1>1, SubsetInduction
<1> QED
  BY <1>2 DEF B

THEOREM SumNat ==
  ASSUME NEW S, IsFiniteSet(S), NEW f, \A x \in S : f[x] \in Nat
  PROVE  SumFunctionOnSet(f, S) \in Nat
<1> DEFINE B == {T \in SUBSET S : SumFunctionOnSet(f, T) \in Nat}
<1>1. ASSUME NEW T \in SUBSET S, \A U \in SUBSET T : U # T => U \in B
      PROVE  T \in B
  <2>1. CASE T = {}
    BY <2>1, SumEmpty
  <2>2. CASE T # {}
    <3>1. Any(T) \in T /\ IsFiniteSet(T)
      BY <2>2, AnyIn, FS_Subset
    <3>2. SumFunctionOnSet(f, T \ {Any(T)}) \in Nat
      BY <1>1, <3>1
    <3>3. SumFunctionOnSet(f, T) = f[Any(T)] + SumFunctionOnSet(f, T \ {Any(T)})
      BY <2>2, <3>1, SumStep
    <3> QED
      BY <3>1, <3>2, <3>3
  <2> QED
    BY <2>1, <2>2
<1> HIDE DEF B
<1>2. S \in B
  BY <1>1, SubsetInduction
<1> QED
  BY <1>2 DEF B

\* A change of one value changes the sum as much.
THEOREM SumChange ==
  ASSUME NEW S, IsFiniteSet(S), NEW f, \A x \in S : f[x] \in Int,
         NEW a \in S, NEW h, h[a] \in Int, \A x \in S : x # a => h[x] = f[x]
  PROVE  SumFunctionOnSet(h, S) = SumFunctionOnSet(f, S) - f[a] + h[a]
<1> DEFINE T == S \ {a}
<1>1. IsFiniteSet(T)
  BY FS_Subset
<1>2. SumFunctionOnSet(f, T) = SumFunctionOnSet(h, T)
  BY <1>1, SumSame
<1>3. SumFunctionOnSet(f, T) \in Int
  BY <1>1, SumInt
<1>4. SumFunctionOnSet(f, S) = f[a] + SumFunctionOnSet(f, T)
  BY SumRemove
<1>5. SumFunctionOnSet(h, S) = h[a] + SumFunctionOnSet(h, T)
  <2>1. \A x \in S : h[x] \in Int
    OBVIOUS
  <2> QED
    BY <2>1, SumRemove
<1>6. f[a] \in Int
  OBVIOUS
<1> HIDE DEF T
<1> QED
  BY <1>2, <1>3, <1>4, <1>5, <1>6

\* No summand is larger than the sum, unless some are negative.
THEOREM SumAtLeast ==
  ASSUME NEW S, IsFiniteSet(S), NEW f, \A x \in S : f[x] \in Nat, NEW a \in S
  PROVE  f[a] <= SumFunctionOnSet(f, S)
<1>1. SumFunctionOnSet(f, S) = f[a] + SumFunctionOnSet(f, S \ {a})
  BY SumRemove
<1>2. SumFunctionOnSet(f, S \ {a}) \in Nat
  <2>1. IsFiniteSet(S \ {a})
    BY FS_Subset
  <2> QED
    BY <2>1, SumNat
<1> QED
  BY <1>1, <1>2

THEOREM SumPlus ==
  ASSUME NEW S, IsFiniteSet(S), NEW f, NEW h, NEW k,
         \A x \in S : f[x] \in Int /\ h[x] \in Int /\ k[x] = f[x] + h[x]
  PROVE  SumFunctionOnSet(k, S) = SumFunctionOnSet(f, S) + SumFunctionOnSet(h, S)
<1> DEFINE B == {T \in SUBSET S :
                   SumFunctionOnSet(k, T) = SumFunctionOnSet(f, T) + SumFunctionOnSet(h, T)}
<1>1. ASSUME NEW T \in SUBSET S, \A U \in SUBSET T : U # T => U \in B
      PROVE  T \in B
  <2>1. CASE T = {}
    BY <2>1, SumEmpty
  <2>2. CASE T # {}
    <3> DEFINE a == Any(T)
               U == T \ {a}
    <3>1. a \in T /\ IsFiniteSet(T) /\ IsFiniteSet(U)
      BY <2>2, AnyIn, FS_Subset
    <3>2. SumFunctionOnSet(k, U) = SumFunctionOnSet(f, U) + SumFunctionOnSet(h, U)
      BY <1>1, <3>1
    <3>3. /\ SumFunctionOnSet(k, T) = k[a] + SumFunctionOnSet(k, U)
          /\ SumFunctionOnSet(f, T) = f[a] + SumFunctionOnSet(f, U)
          /\ SumFunctionOnSet(h, T) = h[a] + SumFunctionOnSet(h, U)
      BY <2>2, <3>1, SumStep
    <3>4. SumFunctionOnSet(f, U) \in Int /\ SumFunctionOnSet(h, U) \in Int
      BY <3>1, SumInt
    <3>5. f[a] \in Int /\ h[a] \in Int /\ k[a] = f[a] + h[a]
      BY <3>1
    <3> HIDE DEF a, U
    <3> QED
      BY <3>2, <3>3, <3>4, <3>5
  <2> QED
    BY <2>1, <2>2
<1> HIDE DEF B
<1>2. S \in B
  BY <1>1, SubsetInduction
<1> QED
  BY <1>2 DEF B

THEOREM SumOne ==
  ASSUME NEW f, NEW a, f[a] \in Int
  PROVE  SumFunctionOnSet(f, {a}) = f[a]
<1>1. IsFiniteSet({a}) /\ {a} \ {a} = {}
  BY FS_Singleton
<1>2. SumFunctionOnSet(f, {a}) = f[a] + SumFunctionOnSet(f, {})
  BY <1>1, SumRemove
<1> QED
  BY <1>2, SumEmpty

THEOREM SumTwo ==
  ASSUME NEW f, NEW a, NEW b, a # b, f[a] \in Int, f[b] \in Int
  PROVE  SumFunctionOnSet(f, {a, b}) = f[a] + f[b]
<1>1. IsFiniteSet({a} \cup {b}) /\ {a} \cup {b} = {a, b} /\ {a, b} \ {a} = {b}
  BY FS_Singleton, FS_AddElement
<1>2. SumFunctionOnSet(f, {a, b}) = f[a] + SumFunctionOnSet(f, {b})
  BY <1>1, SumRemove
<1> QED
  BY <1>2, SumOne
=============================================================================
