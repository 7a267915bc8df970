-------------------------------- MODULE Sums --------------------------------
(***************************************************************************)
(* What the proofs need to know of sums, products and iterations.          *)
(*                                                                         *)
(* SumFunctionOnSet, the sum of f[x] for x in a finite set, does not       *)
(* depend on the order in which the fold happens to take the elements, so  *)
(* an element can be added, taken out or given another value, and the sum  *)
(* follows.                                                                *)
(*                                                                         *)
(* The library defines the sum as the value at S of a function that        *)
(* satisfies a recursive equation.  That such a function exists, and what  *)
(* it computes, is shown by looking at a smallest set where it would fail. *)
(***************************************************************************)
EXTENDS Integers, FiniteSets, FiniteSetTheorems, TLAPS

OneOf(s) == CHOOSE x \in s : TRUE

(* The equation of the fold, on the subsets of S. *)
Adds(iter, f, S) ==
    iter = [s \in SUBSET S |-> IF s = {} THEN 0 ELSE f[OneOf(s)] + iter[s \ {OneOf(s)}]]

Total(f, S) == LET iter == CHOOSE i : Adds(i, f, S) IN iter[S]

LEMMA TotalIsSum == \A f, S : SumFunctionOnSet(f, S) = Total(f, S)
  BY DEF SumFunctionOnSet, FoldFunctionOnSet, MapThenFoldSet, Total, Adds, OneOf

(* Induction over the subsets of a finite set, as a fact about sets: what  *)
(* holds of a set whenever it holds of the smaller ones holds of them all. *)
LEMMA SubsetInduction ==
  ASSUME NEW S, IsFiniteSet(S), NEW Good,
         \A T \in SUBSET S : (\A U \in SUBSET T : U # T => U \in Good) => T \in Good
  PROVE  SUBSET S \subseteq Good
<1> DEFINE Bad == (SUBSET S) \ Good
<1> SUFFICES ASSUME Bad # {} PROVE FALSE
  OBVIOUS
<1>1. IsWellFoundedOn(StrictSubsetOrdering(S), SUBSET S)
  <2>1. FiniteSubsetsOf(S) = SUBSET S
    BY FS_FiniteSubsetsOfFinite
  <2>2. IsWellFoundedOn(StrictSubsetOrdering(S), FiniteSubsetsOf(S))
    BY FS_StrictSubsetOrderingWellFounded
  <2>3. QED BY <2>1, <2>2
<1>2. Bad \subseteq SUBSET S
  OBVIOUS
<1> HIDE DEF Bad
<1>3. PICK T \in Bad : \A U \in Bad : ~(<<U, T>> \in StrictSubsetOrdering(S))
  BY <1>1, <1>2, WFMin
<1>4. \A U \in Bad : U \subseteq T => U = T
  BY <1>2, <1>3 DEF StrictSubsetOrdering
<1>5. \A U \in SUBSET T : U # T => U \in Good
  BY <1>2, <1>4 DEF Bad
<1>6. QED BY <1>5 DEF Bad

LEMMA FirstIsIn == ASSUME NEW s, s # {} PROVE OneOf(s) \in s
  BY DEF OneOf

(* Two solutions of the equation agree wherever both are defined. *)
LEMMA AddsAgree ==
  ASSUME NEW f, NEW S, IsFiniteSet(S), NEW i, NEW R, NEW j, Adds(i, f, S), Adds(j, f, R),
         S \subseteq R
  PROVE  \A T \in SUBSET S : i[T] = j[T]
<1> DEFINE Good == {T \in SUBSET S : i[T] = j[T]}
<1>1. ASSUME NEW T \in SUBSET S, \A U \in SUBSET T : U # T => U \in Good PROVE T \in Good
  <2>1. CASE T = {}
    BY <2>1 DEF Adds
  <2>2. CASE T # {}
    <3>1. OneOf(T) \in T
      BY <2>2, FirstIsIn
    <3>2. T \ {OneOf(T)} \in Good
      BY <1>1, <3>1
    <3>3. i[T] = f[OneOf(T)] + i[T \ {OneOf(T)}]
      BY <2>2 DEF Adds
    <3>4. j[T] = f[OneOf(T)] + j[T \ {OneOf(T)}]
      BY <2>2 DEF Adds
    <3>5. QED BY <3>2, <3>3, <3>4
  <2>3. QED BY <2>1, <2>2
<1> HIDE DEF Good
<1>2. SUBSET S \subseteq Good
  BY <1>1, SubsetInduction
<1>3. QED BY <1>2 DEF Good

(* The equation has a solution: put together from those of smaller sets. *)
LEMMA AddsExists == ASSUME NEW f, NEW S, IsFiniteSet(S) PROVE \E i : Adds(i, f, S)
<1> DEFINE Good == {T \in SUBSET S : \E i : Adds(i, f, T)}
<1>1. ASSUME NEW T \in SUBSET S, \A U \in SUBSET T : U # T => U \in Good PROVE T \in Good
  <2> DEFINE At(U) == CHOOSE i : Adds(i, f, U)
             Value(U) == IF U = {} THEN 0
                         ELSE f[OneOf(U)] + At(U \ {OneOf(U)})[U \ {OneOf(U)}]
             whole == [U \in SUBSET T |-> Value(U)]
  <2>1. \A U \in SUBSET T : U # T => Adds(At(U), f, U)
    BY <1>1
  <2>2. ASSUME NEW U \in SUBSET T, U # T PROVE At(U)[U] = Value(U)
    <3> HIDE DEF At
    <3>1. CASE U = {}
      BY <2>1, <2>2, <3>1 DEF Adds
    <3>2. CASE U # {}
      <4> DEFINE V == U \ {OneOf(U)}
      <4>1. OneOf(U) \in U
        BY <3>2, FirstIsIn
      <4>2. At(U)[U] = f[OneOf(U)] + At(U)[V]
        BY <2>1, <2>2, <3>2 DEF Adds
      <4>3. V \in SUBSET T /\ V # T /\ V \subseteq U /\ IsFiniteSet(V)
        BY <4>1, FS_Subset
      <4>4. Adds(At(V), f, V) /\ Adds(At(U), f, U)
        BY <2>1, <2>2, <4>3
      <4> HIDE DEF V
      <4>5. At(V)[V] = At(U)[V]
        BY <4>3, <4>4, AddsAgree
      <4>6. QED BY <3>2, <4>2, <4>5 DEF V
    <3>3. QED BY <3>1, <3>2
  <2> HIDE DEF At
  <2>3. ASSUME NEW U \in SUBSET T, U # {}
        PROVE  whole[U] = f[OneOf(U)] + whole[U \ {OneOf(U)}]
    <3>1. OneOf(U) \in U
      BY <2>3, FirstIsIn
    <3>2. U \ {OneOf(U)} \in SUBSET T /\ U \ {OneOf(U)} # T
      BY <3>1
    <3>3. whole[U \ {OneOf(U)}] = At(U \ {OneOf(U)})[U \ {OneOf(U)}]
      BY <2>2, <3>2
    <3>4. QED BY <2>3, <3>3
  <2>4. whole[{}] = 0
    OBVIOUS
  <2>5. \A U \in SUBSET T :
            whole[U] = IF U = {} THEN 0 ELSE f[OneOf(U)] + whole[U \ {OneOf(U)}]
    BY <2>3, <2>4
  <2>6. Adds(whole, f, T)
    <3>1. whole = [U \in SUBSET T |-> whole[U]]
      OBVIOUS
    <3> HIDE DEF whole
    <3>2. QED BY <2>5, <3>1 DEF Adds
  <2>7. QED BY <2>6
<1> HIDE DEF Good
<1>2. SUBSET S \subseteq Good
  BY <1>1, SubsetInduction
<1>3. QED BY <1>2 DEF Good

-----------------------------------------------------------------------------
(* The laws of sums *)

LEMMA TotalEmpty == ASSUME NEW f PROVE Total(f, {}) = 0
<1>1. PICK i : Adds(i, f, {})
  BY AddsExists, FS_EmptySet
<1>2. Adds(CHOOSE j : Adds(j, f, {}), f, {})
  BY <1>1
<1>3. QED BY <1>2 DEF Total, Adds

LEMMA TotalFirst ==
  ASSUME NEW f, NEW S, IsFiniteSet(S), S # {}
  PROVE  Total(f, S) = f[OneOf(S)] + Total(f, S \ {OneOf(S)})
<1> DEFINE At(U) == CHOOSE i : Adds(i, f, U)
           R == S \ {OneOf(S)}
<1>1. IsFiniteSet(R) /\ R \subseteq S
  BY FS_Subset
<1>2. Adds(At(S), f, S) /\ Adds(At(R), f, R)
  BY <1>1, AddsExists
<1> HIDE DEF At
<1>3. At(S)[S] = f[OneOf(S)] + At(S)[R]
  BY <1>2 DEF Adds
<1>4. At(R)[R] = At(S)[R]
  <2> HIDE DEF R
  <2>1. QED BY <1>1, <1>2, AddsAgree
<1>5. QED BY <1>3, <1>4 DEF Total, At

(* Sums of integers are integers, and of naturals naturals. *)
LEMMA TotalType ==
  ASSUME NEW f, NEW S, IsFiniteSet(S)
  PROVE  /\ (\A x \in S : f[x] \in Int) => Total(f, S) \in Int
         /\ (\A x \in S : f[x] \in Nat) => Total(f, S) \in Nat
<1> DEFINE Good == {T \in SUBSET S :
                      /\ (\A x \in S : f[x] \in Int) => Total(f, T) \in Int
                      /\ (\A x \in S : f[x] \in Nat) => Total(f, T) \in Nat}
<1>1. ASSUME NEW T \in SUBSET S, \A U \in SUBSET T : U # T => U \in Good PROVE T \in Good
  <2>1. CASE T = {}
    BY <2>1, TotalEmpty
  <2>2. CASE T # {}
    <3>1. OneOf(T) \in T /\ IsFiniteSet(T)
      BY <2>2, FirstIsIn, FS_Subset
    <3>2. T \ {OneOf(T)} \in Good
      BY <1>1, <3>1
    <3>3. Total(f, T) = f[OneOf(T)] + Total(f, T \ {OneOf(T)})
      BY <2>2, <3>1, TotalFirst
    <3>4. QED BY <3>1, <3>2, <3>3
  <2>3. QED BY <2>1, <2>2
<1> HIDE DEF Good
<1>2. SUBSET S \subseteq Good
  BY <1>1, SubsetInduction
<1>3. QED BY <1>2 DEF Good

(* Any element can be taken out, not only the one the fold takes first. *)
LEMMA TotalRemove ==
  ASSUME NEW f, NEW S, IsFiniteSet(S), \A x \in S : f[x] \in Int, NEW u \in S
  PROVE  Total(f, S) = f[u] + Total(f, S \ {u})
<1> DEFINE Good == {T \in SUBSET S : \A x \in T : Total(f, T) = f[x] + Total(f, T \ {x})}
<1>1. ASSUME NEW T \in SUBSET S, \A U \in SUBSET T : U # T => U \in Good PROVE T \in Good
  <2> SUFFICES ASSUME NEW x \in T PROVE Total(f, T) = f[x] + Total(f, T \ {x})
    OBVIOUS
  <2> DEFINE c == OneOf(T)
  <2>1. c \in T /\ IsFiniteSet(T) /\ IsFiniteSet(T \ {x})
    BY FirstIsIn, FS_Subset
  <2>2. Total(f, T) = f[c] + Total(f, T \ {c})
    BY <2>1, TotalFirst
  <2> HIDE DEF c
  <2>3. CASE x = c
    BY <2>2, <2>3
  <2>4. CASE x # c
    <3>1. T \ {c} \in Good /\ x \in T \ {c}
      BY <1>1, <2>1, <2>4
    <3>2. T \ {x} \in Good /\ c \in T \ {x}
      BY <1>1, <2>1, <2>4
    <3>3. (T \ {c}) \ {x} = (T \ {x}) \ {c}
      OBVIOUS
    <3>4. Total(f, T \ {c}) = f[x] + Total(f, (T \ {x}) \ {c})
      BY <3>1, <3>3
    <3>5. Total(f, T \ {x}) = f[c] + Total(f, (T \ {x}) \ {c})
      BY <3>2
    <3>6. IsFiniteSet((T \ {x}) \ {c})
      BY <2>1, FS_Subset
    <3>7. Total(f, (T \ {x}) \ {c}) \in Int
      BY <3>6, TotalType
    <3>8. f[c] \in Int /\ f[x] \in Int
      BY <2>1
    <3>9. QED BY <2>2, <3>4, <3>5, <3>7, <3>8
  <2>5. QED BY <2>3, <2>4
<1> HIDE DEF Good
<1>2. SUBSET S \subseteq Good
  BY <1>1, SubsetInduction
<1>3. QED BY <1>2 DEF Good

(* Only the values on the set count. *)
LEMMA TotalSame ==
  ASSUME NEW f, NEW g, NEW S, IsFiniteSet(S), \A x \in S : f[x] = g[x]
  PROVE  Total(f, S) = Total(g, S)
<1> DEFINE Good == {T \in SUBSET S : Total(f, T) = Total(g, T)}
<1>1. ASSUME NEW T \in SUBSET S, \A U \in SUBSET T : U # T => U \in Good PROVE T \in Good
  <2>1. CASE T = {}
    BY <2>1, TotalEmpty
  <2>2. CASE T # {}
    <3>1. OneOf(T) \in T /\ IsFiniteSet(T)
      BY <2>2, FirstIsIn, FS_Subset
    <3>2. T \ {OneOf(T)} \in Good
      BY <1>1, <3>1
    <3>3. /\ Total(f, T) = f[OneOf(T)] + Total(f, T \ {OneOf(T)})
          /\ Total(g, T) = g[OneOf(T)] + Total(g, T \ {OneOf(T)})
      BY <2>2, <3>1, TotalFirst
    <3>4. QED BY <3>1, <3>2, <3>3
  <2>3. QED BY <2>1, <2>2
<1> HIDE DEF Good
<1>2. SUBSET S \subseteq Good
  BY <1>1, SubsetInduction
<1>3. QED BY <1>2 DEF Good

-----------------------------------------------------------------------------
(* The same of SumFunctionOnSet, as the proofs cite it *)

LEMMA SumOfNone == ASSUME NEW f PROVE SumFunctionOnSet(f, {}) = 0
  BY TotalIsSum, TotalEmpty

LEMMA SumType ==
  ASSUME NEW f, NEW S, IsFiniteSet(S)
  PROVE  /\ (\A x \in S : f[x] \in Int) => SumFunctionOnSet(f, S) \in Int
         /\ (\A x \in S : f[x] \in Nat) => SumFunctionOnSet(f, S) \in Nat
  BY TotalIsSum, TotalType

LEMMA SumSame ==
  ASSUME NEW f, NEW g, NEW S, IsFiniteSet(S), \A x \in S : f[x] = g[x]
  PROVE  SumFunctionOnSet(f, S) = SumFunctionOnSet(g, S)
  BY TotalIsSum, TotalSame

LEMMA SumRemove ==
  ASSUME NEW f, NEW S, IsFiniteSet(S), \A x \in S : f[x] \in Int, NEW u \in S
  PROVE  SumFunctionOnSet(f, S) = f[u] + SumFunctionOnSet(f, S \ {u})
  BY TotalIsSum, TotalRemove

LEMMA SumOfZeros ==
  ASSUME NEW f, NEW S, IsFiniteSet(S), \A x \in S : f[x] = 0
  PROVE  SumFunctionOnSet(f, S) = 0
<1> DEFINE Good == {T \in SUBSET S : SumFunctionOnSet(f, T) = 0}
<1>1. ASSUME NEW T \in SUBSET S, \A U \in SUBSET T : U # T => U \in Good PROVE T \in Good
  <2>1. CASE T = {}
    BY <2>1, SumOfNone
  <2>2. CASE T # {}
    <3>1. PICK u : u \in T
      BY <2>2
    <3>2. T \ {u} \in Good /\ IsFiniteSet(T)
      BY <1>1, <3>1, FS_Subset
    <3>3. SumFunctionOnSet(f, T) = f[u] + SumFunctionOnSet(f, T \ {u})
      BY <3>1, <3>2, SumRemove
    <3>4. QED BY <3>1, <3>2, <3>3
  <2>3. QED BY <2>1, <2>2
<1> HIDE DEF Good
<1>2. SUBSET S \subseteq Good
  BY <1>1, SubsetInduction
<1>3. QED BY <1>2 DEF Good

(* The portion u has in a sum over S. *)
Portion(f, S, u) == IF u \in S THEN f[u] ELSE 0

(* When f and its set change at u only, the sum changes by what u's        *)
(* portion of it does.                                                     *)
LEMMA SumChange ==
  ASSUME NEW f, NEW S, IsFiniteSet(S), \A x \in S : f[x] \in Int,
         NEW g, NEW R, IsFiniteSet(R), \A x \in R : g[x] \in Int,
         NEW u, S \ {u} = R \ {u}, \A x \in S \ {u} : f[x] = g[x]
  PROVE  SumFunctionOnSet(g, R) =
             SumFunctionOnSet(f, S) - Portion(f, S, u) + Portion(g, R, u)
<1> DEFINE rest == SumFunctionOnSet(f, S \ {u})
<1>1. IsFiniteSet(S \ {u})
  BY FS_Subset
<1>2. rest \in Int
  BY <1>1, SumType
<1>3. SumFunctionOnSet(g, R \ {u}) = rest
  BY <1>1, SumSame
<1>4. SumFunctionOnSet(f, S) = rest + Portion(f, S, u)
  <2>1. CASE u \in S
    BY <1>2, <2>1, SumRemove DEF Portion
  <2>2. CASE u \notin S
    <3>1. S \ {u} = S
      BY <2>2
    <3>2. rest = SumFunctionOnSet(f, S)
      BY <3>1
    <3> HIDE DEF rest
    <3>3. QED BY <1>2, <2>2, <3>2 DEF Portion
  <2>3. QED BY <2>1, <2>2
<1>5. SumFunctionOnSet(g, R) = rest + Portion(g, R, u)
  <2>1. CASE u \in R
    BY <1>2, <1>3, <2>1, SumRemove DEF Portion
  <2>2. CASE u \notin R
    <3>1. R \ {u} = R
      BY <2>2
    <3>2. rest = SumFunctionOnSet(g, R)
      BY <1>3, <3>1
    <3> HIDE DEF rest
    <3>3. QED BY <1>2, <2>2, <3>2 DEF Portion
  <2>3. QED BY <2>1, <2>2
<1>6. Portion(f, S, u) \in Int /\ Portion(g, R, u) \in Int
  BY DEF Portion
<1> HIDE DEF rest
<1>7. QED BY <1>2, <1>4, <1>5, <1>6

(* With more at one place only, the sum is as much more. *)
LEMMA SumOneMore ==
  ASSUME NEW f, NEW g, NEW S, IsFiniteSet(S),
         \A x \in S : f[x] \in Int, \A x \in S : g[x] \in Int,
         NEW u \in S, NEW k \in Int, g[u] = f[u] + k, \A x \in S \ {u} : f[x] = g[x]
  PROVE  SumFunctionOnSet(g, S) = SumFunctionOnSet(f, S) + k
<1>1. IsFiniteSet(S \ {u})
  BY FS_Subset
<1>2. SumFunctionOnSet(f, S \ {u}) = SumFunctionOnSet(g, S \ {u})
  BY <1>1, SumSame
<1>3. SumFunctionOnSet(f, S \ {u}) \in Int
  BY <1>1, SumType
<1>4. SumFunctionOnSet(f, S) = f[u] + SumFunctionOnSet(f, S \ {u})
  BY SumRemove
<1>5. SumFunctionOnSet(g, S) = g[u] + SumFunctionOnSet(g, S \ {u})
  BY SumRemove
<1>6. f[u] \in Int
  OBVIOUS
<1>7. QED BY <1>2, <1>3, <1>4, <1>5, <1>6

-----------------------------------------------------------------------------
(* Products of naturals, and whole division. *)
LEMMA ProductType == ASSUME NEW a \in Nat, NEW b \in Nat PROVE a * b \in Nat
  OBVIOUS

LEMMA ProductUp ==
  ASSUME NEW a \in Nat, NEW b \in Nat, NEW f \in Nat, a <= b
  PROVE  a * f <= b * f
  OBVIOUS

LEMMA ProductDown ==
  ASSUME NEW a \in Int, NEW b \in Int, NEW f \in Nat \ {0}, a * f <= b * f
  PROVE  a <= b
  OBVIOUS

LEMMA Whole ==
  ASSUME NEW a \in Nat, NEW b \in Nat \ {0}
  PROVE  a \div b \in Nat /\ a % b \in 0 .. b - 1 /\ a = (b * (a \div b)) + (a % b)
  OBVIOUS

LEMMA Quotient ==
  ASSUME NEW b \in Nat \ {0}, NEW q \in Nat
  PROVE  (b * q) \div b = q
<1> DEFINE a == b * q
           x == a \div b
           r == a % b
<1>1. a \in Nat
  BY ProductType
<1>2. x \in Nat /\ r \in 0 .. b - 1 /\ a = (b * x) + r
  BY <1>1, Whole
<1>3. a = b * q
  OBVIOUS
<1> HIDE DEF a, x, r
<1>4. ASSUME q > x PROVE FALSE
  <2>1. x + 1 <= q
    BY <1>2, <1>4
  <2>2. (x + 1) * b <= q * b
    BY <1>2, <2>1, ProductUp
  <2>3. (x + 1) * b = b * x + b /\ q * b = b * q
    BY <1>2
  <2>4. b * x \in Nat /\ b * q \in Nat
    BY <1>2, ProductType
  <2>5. QED BY <1>2, <1>3, <2>2, <2>3, <2>4
<1>5. ASSUME x > q PROVE FALSE
  <2>1. q + 1 <= x
    BY <1>2, <1>5
  <2>2. (q + 1) * b <= x * b
    BY <1>2, <2>1, ProductUp
  <2>3. (q + 1) * b = b * q + b /\ x * b = b * x
    BY <1>2
  <2>4. b * x \in Nat /\ b * q \in Nat
    BY <1>2, ProductType
  <2>5. QED BY <1>2, <1>3, <2>2, <2>3, <2>4
<1>6. x = q
  BY <1>2, <1>4, <1>5
<1>7. QED BY <1>6 DEF a, x

-----------------------------------------------------------------------------
(* Induction up to a number, as a fact about a set. *)
LEMMA CountUp ==
  ASSUME NEW n \in Nat, NEW Good, 0 \in Good, \A k \in 0 .. n - 1 : k \in Good => k + 1 \in Good
  PROVE  \A k \in 0 .. n : k \in Good
<1> DEFINE S == 0 .. n
           Fine == {T \in SUBSET S : \A k \in S : T = 0 .. k => k \in Good}
<1>1. IsFiniteSet(S)
  BY FS_Interval
<1>2. ASSUME NEW T \in SUBSET S, \A U \in SUBSET T : U # T => U \in Fine PROVE T \in Fine
  <2> SUFFICES ASSUME NEW k \in S, T = 0 .. k PROVE k \in Good
    OBVIOUS
  <2>1. CASE k = 0
    BY <2>1
  <2>2. CASE k # 0
    <3>1. k - 1 \in S /\ k - 1 \in 0 .. n - 1 /\ (k - 1) + 1 = k
      BY <2>2
    <3>2. 0 .. (k - 1) \in SUBSET T /\ k \in T /\ k \notin 0 .. (k - 1)
      BY <2>2
    <3>3. 0 .. (k - 1) \in Fine
      BY <1>2, <3>2
    <3>4. k - 1 \in Good
      BY <3>1, <3>3
    <3>5. QED BY <3>1, <3>4
  <2>3. QED BY <2>1, <2>2
<1> HIDE DEF Fine
<1>3. SUBSET S \subseteq Fine
  <2> HIDE DEF S
  <2>1. QED BY <1>1, <1>2, SubsetInduction
<1>4. ASSUME NEW k \in 0 .. n PROVE k \in Good
  <2>1. \A j \in 0 .. k : j \in 0 .. n
    OBVIOUS
  <2>2. 0 .. k \in SUBSET S
    BY <2>1
  <2>3. 0 .. k \in Fine
    BY <1>3, <2>2
  <2>4. QED BY <2>3 DEF Fine
<1>5. QED BY <1>4

(* What is worked out step by step exists. *)
IsRun(f, n, X, a, G) ==
    f \in [0 .. n -> X] /\ f[0] = a /\ \A k \in 1 .. n : f[k] = G[<<k, f[k - 1]>>]

LEMMA Iterates ==
  ASSUME NEW n \in Nat, NEW X, NEW a \in X, NEW G \in [(1 .. n) \X X -> X]
  PROVE  \E f : IsRun(f, n, X, a, G)
<1> DEFINE Runs(f, m) == f[0] = a /\ \A k \in 1 .. m : f[k] = G[<<k, f[k - 1]>>]
           Good == {m \in 0 .. n : \E f \in [0 .. m -> X] : Runs(f, m)}
<1>1. 0 \in Good
  <2> DEFINE f == [k \in 0 .. 0 |-> a]
  <2>1. f \in [0 .. 0 -> X] /\ f[0] = a
    OBVIOUS
  <2>2. \A k \in 1 .. 0 : FALSE
    OBVIOUS
  <2> HIDE DEF f
  <2>3. Runs(f, 0)
    BY <2>1, <2>2
  <2>4. QED BY <2>1, <2>3
<1>2. ASSUME NEW m \in 0 .. n - 1, m \in Good PROVE m + 1 \in Good
  <2>1. PICK f \in [0 .. m -> X] : Runs(f, m)
    BY <1>2
  <2> DEFINE g == [k \in 0 .. m + 1 |-> IF k = m + 1 THEN G[<<m + 1, f[m]>>] ELSE f[k]]
  <2>2. m + 1 \in 1 .. n /\ m \in 0 .. m /\ f[m] \in X
    OBVIOUS
  <2>3. G[<<m + 1, f[m]>>] \in X
    BY <2>2
  <2>4. g \in [0 .. m + 1 -> X]
    BY <2>3
  <2>5. g[0] = a
    BY <2>1
  <2>6. ASSUME NEW k \in 1 .. m + 1 PROVE g[k] = G[<<k, g[k - 1]>>]
    <3>1. k - 1 \in 0 .. m /\ g[k - 1] = f[k - 1]
      OBVIOUS
    <3>2. CASE k = m + 1
      BY <3>1, <3>2
    <3>3. CASE k # m + 1
      <4>1. k \in 1 .. m
        BY <3>3
      <4>2. QED BY <2>1, <3>1, <3>3, <4>1
    <3>4. QED BY <3>2, <3>3
  <2>7. m + 1 \in 0 .. n
    OBVIOUS
  <2> HIDE DEF g
  <2>8. QED BY <2>4, <2>5, <2>6, <2>7
<1> HIDE DEF Good
<1>3. n \in Good
  <2>1. \A k \in 0 .. n : k \in Good
    BY <1>1, <1>2, CountUp
  <2>2. QED BY <2>1
<1>4. QED BY <1>3 DEF Good, IsRun
=============================================================================
