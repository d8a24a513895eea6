-------------------------- MODULE Induction_proofs --------------------------
(***************************************************************************)
(* Induction over the naturals and over finite sets, as statements about   *)
(* sets, and what it shows of the library's sums: lemmas that know nothing *)
(* of claims.                                                              *)
(***************************************************************************)
EXTENDS FunctionTheorems, FiniteSetTheorems, TLAPS

-----------------------------------------------------------------------------
(* The least element of a set of naturals *)

Less == OpToRel(<, Nat)

\* The order on the naturals has no infinite descent.
LEMMA LessIsWellFounded == IsWellFoundedOn(Less, Nat)
BY NatLessThanWellFounded, Zenon DEF Less

\* Membership in that order.
LEMMA InLess == \A a, b \in Nat : a < b => <<a, b>> \in Less
BY DEF Less, OpToRel

\* A nonempty set of naturals has a least element.
LEMMA Least ==
    ASSUME NEW S \in SUBSET Nat, S # {}
    PROVE  \E n \in S : \A m \in S : n <= m
<1>1. PICK n \in S : \A m \in S : <<m, n>> \notin Less
  BY LessIsWellFounded, WFMin
<1>2. \A m \in S : ~ (m < n)
  BY <1>1, InLess
<1> QED
  BY <1>2

\* Induction, over a set: it holds every natural if it holds 0 and every successor.
LEMMA Inductive ==
    ASSUME NEW S, 0 \in S, \A n \in Nat : n \in S => n + 1 \in S
    PROVE  Nat \subseteq S
<1> SUFFICES ASSUME Nat \ S # {}
             PROVE  FALSE
  OBVIOUS
<1>1. PICK n \in Nat \ S : \A m \in Nat \ S : n <= m
  <2>1. Nat \ S \in SUBSET Nat
    OBVIOUS
  <2> QED
    BY <2>1, Least
<1>2. n # 0 /\ n - 1 \in Nat
  BY <1>1
<1>3. n - 1 \in S
  BY <1>1, <1>2
<1> QED
  BY <1>1, <1>2, <1>3

-----------------------------------------------------------------------------
(* Functions that are computed step by step *)

\* f begins at a, and each step takes what the one before it came to through G.
Steps(f, N, X, a, G) ==
    /\ f \in [0..N -> X]
    /\ f[0] = a
    /\ \A n \in 1..N : f[n] = G[n][f[n - 1]]

\* There is such a function.
LEMMA StepByStep ==
    ASSUME NEW N \in Nat, NEW X, NEW a \in X, NEW G \in [1..N -> [X -> X]]
    PROVE  \E f : Steps(f, N, X, a, G)
<1> DEFINE Takes(f, k) == Steps(f, k, X, a, G)
           S == {k \in Nat : k > N \/ \E f : Takes(f, k)}
<1> USE DEF Steps
<1>1. 0 \in S
  <2>1. Takes([n \in 0..0 |-> a], 0)
    OBVIOUS
  <2> QED
    BY <2>1
<1>2. \A k \in Nat : k \in S => k + 1 \in S
  <2> SUFFICES ASSUME NEW k \in Nat, k \in S, ~ k + 1 > N
               PROVE  \E f : Takes(f, k + 1)
    <3> HIDE DEF Takes
    <3> QED OBVIOUS
  <2>1. PICK f : Takes(f, k)
    OBVIOUS
  <2> DEFINE g == [n \in 0..(k + 1) |-> IF n = k + 1 THEN G[k + 1][f[k]] ELSE f[n]]
  <2>2. k + 1 \in 1..N /\ f[k] \in X /\ G[k + 1][f[k]] \in X
    BY <2>1
  <2>3. g \in [0..(k + 1) -> X]
    BY <2>1, <2>2
  <2>4. g[0] = a
    BY <2>1
  <2>5. \A n \in 1..(k + 1) : g[n] = G[n][g[n - 1]]
    <3> TAKE n \in 1..(k + 1)
    <3>1. CASE n = k + 1
      <4>1. g[n] = G[k + 1][f[k]] /\ g[n - 1] = f[k]
        BY <3>1
      <4> QED
        BY <3>1, <4>1
    <3>2. CASE n \in 1..k
      <4>1. g[n] = f[n] /\ g[n - 1] = f[n - 1]
        BY <3>2
      <4> QED
        BY <2>1, <3>2, <4>1
    <3> QED
      BY <3>1, <3>2
  <2> QED
    BY <2>3, <2>4, <2>5
<1>3. N \in S
  <2> HIDE DEF S
  <2> QED BY <1>1, <1>2, Inductive
<1> QED
  BY <1>3

-----------------------------------------------------------------------------
(* Finite sets *)

\* Induction, over the subsets of a finite set: each is in P if all that it properly contains
\* are.
LEMMA SetInductive ==
    ASSUME NEW S, IsFiniteSet(S), NEW P,
           \A T \in SUBSET S : (\A U \in SUBSET T : U # T => U \in P) => T \in P
    PROVE  SUBSET S \subseteq P
<1> DEFINE bad == (SUBSET S) \ P
           R == StrictSubsetOrdering(S)
<1> SUFFICES ASSUME bad # {}
             PROVE  FALSE
  OBVIOUS
<1>1. IsWellFoundedOn(R, SUBSET S)
  <2>1. FiniteSubsetsOf(S) = SUBSET S
    BY FS_FiniteSubsetsOfFinite
  <2>2. IsWellFoundedOn(R, FiniteSubsetsOf(S))
    BY FS_StrictSubsetOrderingWellFounded
  <2> HIDE DEF R
  <2> QED
    BY <2>1, <2>2
<1>2. PICK T \in bad : \A U \in bad : ~ (<<U, T>> \in R)
  <2>1. bad \subseteq SUBSET S
    OBVIOUS
  <2> HIDE DEF bad, R
  <2> QED
    BY <1>1, <2>1, WFMin
<1>3. ASSUME NEW U \in SUBSET T, U # T
      PROVE  U \in P
  <2>1. U \in SUBSET S /\ <<U, T>> \in R
    BY <1>3 DEF StrictSubsetOrdering
  <2> QED
    BY <1>2, <2>1
<1> QED
  BY <1>2, <1>3

-----------------------------------------------------------------------------
(* Sums *)

\* The element a sum takes next.
Taken(T) == CHOOSE x \in T : TRUE

\* What the library's sum runs through: a sum for each subset.
Sums(f, S, sum) ==
    sum = [T \in SUBSET S |->
             IF T = {} THEN 0 ELSE f[Taken(T)] + sum[T \ {Taken(T)}]]

\* The library's sum by its definition.
LEMMA SumUnfolded ==
    ASSUME NEW f, NEW S
    PROVE  SumFunctionOnSet(f, S) = (CHOOSE sum : Sums(f, S, sum))[S]
BY Zenon DEF SumFunctionOnSet, FoldFunctionOnSet, MapThenFoldSet, Sums, Taken

\* The sums over the subsets of T are the same, whether those of a larger set are taken or not.
LEMMA SumsAgree ==
    ASSUME NEW f, NEW S, NEW T \in SUBSET S, IsFiniteSet(T),
           NEW s, Sums(f, S, s), NEW t, Sums(f, T, t)
    PROVE  \A U \in SUBSET T : s[U] = t[U]
<1> DEFINE P == {U \in SUBSET T : s[U] = t[U]}
<1>1. ASSUME NEW U \in SUBSET T, \A V \in SUBSET U : V # U => V \in P
      PROVE  U \in P
  <2>1. CASE U = {}
    BY <2>1 DEF Sums
  <2>2. CASE U # {}
    <3> DEFINE x == Taken(U)
    <3>1. x \in U
      BY <2>2 DEF Taken
    <3> HIDE DEF x
    <3>2. U \ {x} \in P
      BY <1>1, <3>1
    <3>3. s[U] = f[x] + s[U \ {x}] /\ t[U] = f[x] + t[U \ {x}]
      BY <2>2 DEF Sums, x
    <3> QED
      BY <3>2, <3>3
  <2> QED
    BY <2>1, <2>2
<1>2. SUBSET T \subseteq P
  <2> HIDE DEF P
  <2> QED BY <1>1, SetInductive
<1> QED
  BY <1>2

\* There are such sums for every finite set.
LEMMA SumsExist ==
    ASSUME NEW f, NEW S, IsFiniteSet(S)
    PROVE  \E sum : Sums(f, S, sum)
<1> DEFINE P == {T \in SUBSET S : \E sum : Sums(f, T, sum)}
           of(T) == CHOOSE sum : Sums(f, T, sum)
<1>1. ASSUME NEW T \in SUBSET S, \A U \in SUBSET T : U # T => U \in P
      PROVE  T \in P
  <2> DEFINE x == Taken(T)
             sum == [U \in SUBSET T |->
                       IF U # T THEN of(U)[U]
                       ELSE IF T = {} THEN 0
                       ELSE f[x] + of(T \ {x})[T \ {x}]]
  <2>1. \A U \in SUBSET T : U # T => Sums(f, U, of(U)) /\ IsFiniteSet(U)
    BY <1>1, FS_Subset
  <2> HIDE DEF of
  <2>2. ASSUME NEW U \in SUBSET T
        PROVE  sum[U] = IF U = {} THEN 0 ELSE f[Taken(U)] + sum[U \ {Taken(U)}]
    <3>1. CASE U = {}
      <4>1. U # T => of(U)[U] = 0
        BY <2>1, <3>1 DEF Sums
      <4> QED
        BY <3>1, <4>1
    <3>2. CASE U # {}
      <4> DEFINE y == Taken(U)
                 V == U \ {y}
      <4>1. y \in U
        BY <3>2 DEF Taken
      <4>2. V \in SUBSET U /\ V \in SUBSET T /\ V # U /\ V # T
        BY <4>1
      <4>3. sum[V] = of(V)[V]
        BY <4>2
      <4>4. CASE U = T
        BY <3>2, <4>2, <4>3, <4>4
      <4>5. CASE U # T
        <5>1. sum[U] = of(U)[U]
          BY <4>5
        <5>2. Sums(f, U, of(U)) /\ Sums(f, V, of(V)) /\ IsFiniteSet(V)
          BY <2>1, <4>2, <4>5
        <5>3. of(U)[V] = of(V)[V]
          BY <4>2, <5>2, SumsAgree
        <5>4. of(U)[U] = f[y] + of(U)[V]
          <6> HIDE DEF y
          <6> QED BY <3>2, <5>2 DEF Sums, y
        <5> QED
          BY <3>2, <4>3, <5>1, <5>3, <5>4
      <4> QED
        BY <4>4, <4>5
    <3> QED
      BY <3>1, <3>2
  <2>3. Sums(f, T, sum)
    <3>1. sum = [U \in SUBSET T |-> sum[U]]
      OBVIOUS
    <3> HIDE DEF sum
    <3> QED
      BY <2>2, <3>1 DEF Sums
  <2> HIDE DEF sum
  <2> QED
    BY <2>3
<1>2. SUBSET S \subseteq P
  <2> HIDE DEF P
  <2> QED BY <1>1, SetInductive
<1> QED
  BY <1>2

\* The sums over a finite set are what they are written to be.
LEMMA SumsAre ==
    ASSUME NEW f, NEW S, IsFiniteSet(S)
    PROVE  \E sum :
              /\ Sums(f, S, sum)
              /\ \A T \in SUBSET S : SumFunctionOnSet(f, T) = sum[T]
<1> DEFINE of(T) == CHOOSE sum : Sums(f, T, sum)
<1>1. \A T \in SUBSET S : IsFiniteSet(T) /\ Sums(f, T, of(T))
  BY FS_Subset, SumsExist
<1> HIDE DEF of
<1>2. \A T \in SUBSET S : SumFunctionOnSet(f, T) = of(T)[T]
  BY SumUnfolded DEF of
<1>3. \A T \in SUBSET S : of(S)[T] = of(T)[T]
  BY <1>1, SumsAgree
<1> QED
  BY <1>1, <1>2, <1>3

\* The sum over no elements, and the sum with the element that is taken next.
LEMMA SumStep ==
    ASSUME NEW f, NEW S, IsFiniteSet(S)
    PROVE  /\ S = {} => SumFunctionOnSet(f, S) = 0
           /\ S # {} => /\ Taken(S) \in S
                        /\ SumFunctionOnSet(f, S) =
                              f[Taken(S)] + SumFunctionOnSet(f, S \ {Taken(S)})
<1>1. PICK sum :
          /\ Sums(f, S, sum)
          /\ \A T \in SUBSET S : SumFunctionOnSet(f, T) = sum[T]
  BY SumsAre
<1>2. S # {} => Taken(S) \in S
  BY DEF Taken
<1>3. S \in SUBSET S /\ S \ {Taken(S)} \in SUBSET S
  OBVIOUS
<1> QED
  BY <1>1, <1>2, <1>3 DEF Sums

\* Integers add up to an integer, naturals to a natural.
LEMMA SumType ==
    ASSUME NEW f, NEW S, IsFiniteSet(S), \A x \in S : f[x] \in Int
    PROVE  /\ SumFunctionOnSet(f, S) \in Int
           /\ (\A x \in S : f[x] \in Nat) => SumFunctionOnSet(f, S) \in Nat
<1> DEFINE Is(T) == /\ SumFunctionOnSet(f, T) \in Int
                    /\ (\A x \in S : f[x] \in Nat) => SumFunctionOnSet(f, T) \in Nat
           P == {T \in SUBSET S : Is(T)}
<1>1. ASSUME NEW T \in SUBSET S, \A U \in SUBSET T : U # T => U \in P
      PROVE  T \in P
  <2>1. IsFiniteSet(T)
    BY FS_Subset
  <2>2. CASE T = {}
    <3>1. SumFunctionOnSet(f, T) = 0
      BY <2>1, <2>2, SumStep
    <3> QED
      BY <3>1
  <2>3. CASE T # {}
    <3> DEFINE x == Taken(T)
    <3>1. x \in T /\ SumFunctionOnSet(f, T) = f[x] + SumFunctionOnSet(f, T \ {x})
      BY <2>1, <2>3, SumStep
    <3>2. Is(T \ {x})
      <4> HIDE DEF Is
      <4> QED BY <1>1, <3>1
    <3> HIDE DEF x
    <3> QED
      BY <3>1, <3>2
  <2> QED
    BY <2>2, <2>3
<1>2. SUBSET S \subseteq P
  <2> HIDE DEF P
  <2> QED BY <1>1, SetInductive
<1> QED
  BY <1>2

\* The sum with any element that is taken out: addition may take them in any order.
LEMMA SumOut ==
    ASSUME NEW f, NEW S, IsFiniteSet(S), \A x \in S : f[x] \in Int, NEW x \in S
    PROVE  SumFunctionOnSet(f, S) = f[x] + SumFunctionOnSet(f, S \ {x})
<1> DEFINE sum(T) == SumFunctionOnSet(f, T)
           P == {T \in SUBSET S : \A y \in T : sum(T) = f[y] + sum(T \ {y})}
<1>1. \A T \in SUBSET S : IsFiniteSet(T) /\ sum(T) \in Int
  BY FS_Subset, SumType
<1>2. \A T \in SUBSET S : T # {} =>
          Taken(T) \in T /\ sum(T) = f[Taken(T)] + sum(T \ {Taken(T)})
  BY <1>1, SumStep
<1> HIDE DEF sum
<1>3. ASSUME NEW T \in SUBSET S, \A U \in SUBSET T : U # T => U \in P
      PROVE  T \in P
  <2> SUFFICES ASSUME NEW y \in T
               PROVE  sum(T) = f[y] + sum(T \ {y})
    OBVIOUS
  <2> DEFINE z == Taken(T)
  <2>1. z \in T /\ sum(T) = f[z] + sum(T \ {z})
    BY <1>2
  <2> HIDE DEF z
  <2>2. CASE y = z
    BY <2>1, <2>2
  <2>3. CASE y # z
    <3>1. T \ {z} \in P /\ T \ {y} \in P /\ y \in T \ {z} /\ z \in T \ {y}
      BY <1>3, <2>1, <2>3
    <3>2. sum(T \ {z}) = f[y] + sum((T \ {z}) \ {y})
      BY <3>1
    <3>3. sum(T \ {y}) = f[z] + sum((T \ {z}) \ {y})
      <4>1. (T \ {z}) \ {y} = (T \ {y}) \ {z}
        OBVIOUS
      <4>2. sum(T \ {y}) = f[z] + sum((T \ {y}) \ {z})
        BY <3>1
      <4> QED
        BY <4>1, <4>2
    <3>4. (T \ {z}) \ {y} \in SUBSET S
      OBVIOUS
    <3> DEFINE rest == sum((T \ {z}) \ {y})
    <3>5. rest \in Int /\ f[y] \in Int /\ f[z] \in Int
      BY <1>1, <2>1, <3>4
    <3>6. sum(T) = f[z] + (f[y] + rest) /\ sum(T \ {y}) = f[z] + rest
      BY <2>1, <3>2, <3>3
    <3> HIDE DEF rest
    <3> QED
      BY <3>5, <3>6
  <2> QED
    BY <2>2, <2>3
<1>4. SUBSET S \subseteq P
  <2> HIDE DEF P
  <2> QED BY <1>3, SetInductive
<1> QED
  BY <1>4 DEF sum

\* A sum that gains an element.
LEMMA SumIn ==
    ASSUME NEW f, NEW S, IsFiniteSet(S), NEW x, x \notin S, \A y \in S \cup {x} : f[y] \in Int
    PROVE  SumFunctionOnSet(f, S \cup {x}) = SumFunctionOnSet(f, S) + f[x]
<1>1. IsFiniteSet(S \cup {x}) /\ x \in S \cup {x} /\ (S \cup {x}) \ {x} = S
  BY FS_AddElement
<1>2. SumFunctionOnSet(f, S \cup {x}) = f[x] + SumFunctionOnSet(f, (S \cup {x}) \ {x})
  BY <1>1, SumOut
<1>3. SumFunctionOnSet(f, S) \in Int /\ f[x] \in Int
  BY SumType
<1>4. SumFunctionOnSet(f, S \cup {x}) = f[x] + SumFunctionOnSet(f, S)
  BY <1>1, <1>2
<1> QED
  BY <1>3, <1>4

\* Where f is g and h together, so are their sums.
LEMMA SumsAdd ==
    ASSUME NEW f, NEW g, NEW h, NEW S, IsFiniteSet(S),
           \A x \in S : f[x] \in Int /\ g[x] \in Int /\ h[x] \in Int /\ f[x] = g[x] + h[x]
    PROVE  SumFunctionOnSet(f, S) = SumFunctionOnSet(g, S) + SumFunctionOnSet(h, S)
<1> DEFINE sum(k, T) == SumFunctionOnSet(k, T)
           P == {T \in SUBSET S : sum(f, T) = sum(g, T) + sum(h, T)}
<1>1. \A T \in SUBSET S :
          IsFiniteSet(T) /\ sum(f, T) \in Int /\ sum(g, T) \in Int /\ sum(h, T) \in Int
  BY FS_Subset, SumType
<1>2. \A T \in SUBSET S, k \in {f, g, h} :
          /\ T = {} => sum(k, T) = 0
          /\ T # {} => Taken(T) \in T /\ sum(k, T) = k[Taken(T)] + sum(k, T \ {Taken(T)})
  BY <1>1, SumStep
<1> HIDE DEF sum
<1>3. ASSUME NEW T \in SUBSET S, \A U \in SUBSET T : U # T => U \in P
      PROVE  T \in P
  <2>1. CASE T = {}
    <3>1. sum(f, T) = 0 /\ sum(g, T) = 0 /\ sum(h, T) = 0
      BY <1>2, <2>1
    <3> QED
      BY <3>1
  <2>2. CASE T # {}
    <3> DEFINE x == Taken(T)
               U == T \ {x}
    <3>1. /\ x \in T
          /\ sum(f, T) = f[x] + sum(f, U)
          /\ sum(g, T) = g[x] + sum(g, U)
          /\ sum(h, T) = h[x] + sum(h, U)
      BY <1>2, <2>2
    <3> HIDE DEF x
    <3>2. U \in P /\ U \in SUBSET S
      BY <1>3, <3>1
    <3>3. sum(f, U) = sum(g, U) + sum(h, U)
      BY <3>2
    <3>4. /\ sum(f, U) \in Int /\ sum(g, U) \in Int /\ sum(h, U) \in Int
          /\ f[x] \in Int /\ g[x] \in Int /\ h[x] \in Int /\ f[x] = g[x] + h[x]
      BY <1>1, <3>1, <3>2
    <3> HIDE DEF U
    <3> QED
      BY <3>1, <3>3, <3>4
  <2> QED
    BY <2>1, <2>2
<1>4. SUBSET S \subseteq P
  <2> HIDE DEF P
  <2> QED BY <1>3, SetInductive
<1> QED
  BY <1>4 DEF sum

\* Where every f is at most g, so is the sum.
LEMMA SumsCompare ==
    ASSUME NEW f, NEW g, NEW S, IsFiniteSet(S),
           \A x \in S : f[x] \in Int /\ g[x] \in Int /\ f[x] <= g[x]
    PROVE  SumFunctionOnSet(f, S) <= SumFunctionOnSet(g, S)
<1> DEFINE h == [x \in S |-> g[x] - f[x]]
<1>1. \A x \in S : g[x] = f[x] + h[x] /\ h[x] \in Nat /\ h[x] \in Int
  OBVIOUS
<1> HIDE DEF h
<1>2. SumFunctionOnSet(g, S) = SumFunctionOnSet(f, S) + SumFunctionOnSet(h, S)
  BY <1>1, SumsAdd
<1>3. SumFunctionOnSet(f, S) \in Int /\ SumFunctionOnSet(h, S) \in Nat
  BY <1>1, SumType
<1> QED
  BY <1>2, <1>3

\* Where they are the same, so are the sums.
LEMMA SumsSame ==
    ASSUME NEW f, NEW g, NEW S, IsFiniteSet(S),
           \A x \in S : f[x] \in Int /\ f[x] = g[x]
    PROVE  SumFunctionOnSet(f, S) = SumFunctionOnSet(g, S)
<1>1. \A x \in S : f[x] \in Int /\ g[x] \in Int /\ f[x] <= g[x] /\ g[x] <= f[x]
  OBVIOUS
<1>2. /\ SumFunctionOnSet(f, S) <= SumFunctionOnSet(g, S)
      /\ SumFunctionOnSet(g, S) <= SumFunctionOnSet(f, S)
  BY <1>1, SumsCompare
<1>3. SumFunctionOnSet(f, S) \in Int /\ SumFunctionOnSet(g, S) \in Int
  BY <1>1, SumType
<1> QED
  BY <1>2, <1>3

\* Elements that count for nothing may be left out of a sum.
LEMMA SumOfSome ==
    ASSUME NEW f, NEW S, IsFiniteSet(S), \A x \in S : f[x] \in Int,
           NEW T \in SUBSET S, \A x \in S \ T : f[x] = 0
    PROVE  SumFunctionOnSet(f, S) = SumFunctionOnSet(f, T)
<1> DEFINE sum(U) == SumFunctionOnSet(f, U)
           rest == S \ T
           P == {U \in SUBSET rest : sum(T \cup U) = sum(T)}
<1>1. \A U \in SUBSET S : IsFiniteSet(U) /\ sum(U) \in Int
  BY FS_Subset, SumType
<1>2. \A U \in SUBSET S : \A x \in U : sum(U) = f[x] + sum(U \ {x})
  <2> TAKE U \in SUBSET S
  <2>1. IsFiniteSet(U) /\ \A x \in U : f[x] \in Int
    BY <1>1
  <2> QED
    BY <2>1, SumOut
<1> HIDE DEF sum
<1>3. ASSUME NEW U \in SUBSET rest, \A V \in SUBSET U : V # U => V \in P
      PROVE  U \in P
  <2>1. CASE U = {}
    <3>1. T \cup U = T
      BY <2>1
    <3> QED
      BY <3>1
  <2>2. CASE U # {}
    <3>1. PICK x \in U : TRUE
      BY <2>2
    <3>2. U \ {x} \in P
      BY <1>3, <3>1
    <3>3. T \cup U \in SUBSET S /\ x \in T \cup U /\ (T \cup U) \ {x} = T \cup (U \ {x})
      BY <3>1
    <3>4. sum(T \cup U) = f[x] + sum(T \cup (U \ {x}))
      BY <1>2, <3>3
    <3>5. f[x] = 0 /\ sum(T \cup (U \ {x})) = sum(T) /\ sum(T) \in Int
      BY <1>1, <3>1, <3>2
    <3> QED
      BY <3>4, <3>5
  <2> QED
    BY <2>1, <2>2
<1>4. SUBSET rest \subseteq P
  <2>1. IsFiniteSet(rest)
    BY FS_Subset
  <2> HIDE DEF P, rest
  <2> QED BY <1>3, <2>1, SetInductive
<1>5. rest \in P /\ T \cup rest = S
  BY <1>4
<1>6. sum(T \cup rest) = sum(T)
  BY <1>5
<1> QED
  BY <1>5, <1>6 DEF sum

\* A sum of multiples.
LEMMA SumsScale ==
    ASSUME NEW f, NEW g, NEW S, IsFiniteSet(S), NEW c \in Int,
           \A x \in S : f[x] \in Int /\ g[x] = c * f[x]
    PROVE  SumFunctionOnSet(g, S) = c * SumFunctionOnSet(f, S)
<1> DEFINE sum(k, T) == SumFunctionOnSet(k, T)
           P == {T \in SUBSET S : sum(g, T) = c * sum(f, T)}
<1>1. \A T \in SUBSET S : IsFiniteSet(T) /\ sum(f, T) \in Int
  BY FS_Subset, SumType
<1>2. \A T \in SUBSET S, k \in {f, g} :
          /\ T = {} => sum(k, T) = 0
          /\ T # {} => Taken(T) \in T /\ sum(k, T) = k[Taken(T)] + sum(k, T \ {Taken(T)})
  BY <1>1, SumStep
<1> HIDE DEF sum
<1>3. ASSUME NEW T \in SUBSET S, \A U \in SUBSET T : U # T => U \in P
      PROVE  T \in P
  <2>1. CASE T = {}
    <3>1. sum(f, T) = 0 /\ sum(g, T) = 0
      BY <1>2, <2>1
    <3>2. c * 0 = 0
      OBVIOUS
    <3> QED
      BY <3>1, <3>2
  <2>2. CASE T # {}
    <3> DEFINE x == Taken(T)
               U == T \ {x}
    <3>1. x \in T /\ sum(f, T) = f[x] + sum(f, U) /\ sum(g, T) = g[x] + sum(g, U)
      BY <1>2, <2>2
    <3> HIDE DEF x
    <3>2. U \in P /\ U \in SUBSET S
      BY <1>3, <3>1
    <3>3. sum(g, U) = c * sum(f, U) /\ sum(f, U) \in Int /\ f[x] \in Int /\ g[x] = c * f[x]
      BY <1>1, <3>1, <3>2
    <3> HIDE DEF U
    <3>4. c * (f[x] + sum(f, U)) = c * f[x] + c * sum(f, U)
      BY <3>3
    <3> QED
      BY <3>1, <3>3, <3>4
  <2> QED
    BY <2>1, <2>2
<1>4. SUBSET S \subseteq P
  <2> HIDE DEF P
  <2> QED BY <1>3, SetInductive
<1> QED
  BY <1>4 DEF sum

\* A sum of ones counts them.
LEMMA SumOfOnes ==
    ASSUME NEW f, NEW S, IsFiniteSet(S), \A x \in S : f[x] = 1
    PROVE  SumFunctionOnSet(f, S) = Cardinality(S)
<1> DEFINE sum(T) == SumFunctionOnSet(f, T)
           P == {T \in SUBSET S : sum(T) = Cardinality(T)}
<1>1. \A T \in SUBSET S : IsFiniteSet(T)
  BY FS_Subset
<1>2. \A T \in SUBSET S :
          /\ T = {} => sum(T) = 0
          /\ T # {} => Taken(T) \in T /\ sum(T) = f[Taken(T)] + sum(T \ {Taken(T)})
  BY <1>1, SumStep
<1> HIDE DEF sum
<1>3. ASSUME NEW T \in SUBSET S, \A U \in SUBSET T : U # T => U \in P
      PROVE  T \in P
  <2>1. CASE T = {}
    BY <1>2, <2>1, FS_EmptySet
  <2>2. CASE T # {}
    <3> DEFINE x == Taken(T)
               U == T \ {x}
    <3>1. x \in T /\ sum(T) = f[x] + sum(U)
      BY <1>2, <2>2
    <3> HIDE DEF x
    <3>2. U \in P
      BY <1>3, <3>1
    <3>3. Cardinality(U) = Cardinality(T) - 1 /\ Cardinality(T) \in Nat
      BY <1>1, <3>1, FS_RemoveElement, FS_CardinalityType
    <3>4. sum(U) = Cardinality(U) /\ f[x] = 1
      BY <3>1, <3>2
    <3> HIDE DEF U
    <3> QED
      BY <3>1, <3>3, <3>4
  <2> QED
    BY <2>1, <2>2
<1>4. SUBSET S \subseteq P
  <2> HIDE DEF P
  <2> QED BY <1>3, SetInductive
<1> QED
  BY <1>4 DEF sum

\* A sum in which one number changes.
LEMMA SumChanged ==
    ASSUME NEW f, NEW g, NEW S, IsFiniteSet(S), NEW x \in S, NEW d \in Int,
           \A y \in S : f[y] \in Int,
           g[x] = f[x] + d, \A y \in S \ {x} : g[y] = f[y]
    PROVE  SumFunctionOnSet(g, S) = SumFunctionOnSet(f, S) + d
<1> DEFINE rest == S \ {x}
<1>1. IsFiniteSet(rest)
  BY FS_Subset
<1>2. \A y \in S : g[y] \in Int
  OBVIOUS
<1>3. SumFunctionOnSet(f, S) = f[x] + SumFunctionOnSet(f, rest)
  BY SumOut
<1>4. SumFunctionOnSet(g, S) = g[x] + SumFunctionOnSet(g, rest)
  BY <1>2, SumOut
<1>5. SumFunctionOnSet(g, rest) = SumFunctionOnSet(f, rest)
  BY <1>1, <1>2, SumsSame
<1>6. SumFunctionOnSet(f, rest) \in Int
  BY <1>1, SumType
<1> HIDE DEF rest
<1> QED
  BY <1>3, <1>4, <1>5, <1>6

\* The sum over two sets without a common element.
LEMMA SumUnion ==
    ASSUME NEW f, NEW A, NEW B, IsFiniteSet(A), IsFiniteSet(B), A \cap B = {},
           \A x \in A \cup B : f[x] \in Int
    PROVE  SumFunctionOnSet(f, A \cup B) = SumFunctionOnSet(f, A) + SumFunctionOnSet(f, B)
<1> DEFINE S == A \cup B
           g == [x \in S |-> IF x \in A THEN f[x] ELSE 0]
           h == [x \in S |-> IF x \in B THEN f[x] ELSE 0]
<1>1. IsFiniteSet(S)
  BY FS_Union
<1>2. /\ \A x \in A : g[x] = f[x] /\ f[x] \in Int
      /\ \A x \in S \ A : g[x] = 0
      /\ \A x \in B : h[x] = f[x] /\ f[x] \in Int
      /\ \A x \in S \ B : h[x] = 0
      /\ \A x \in S : f[x] \in Int /\ g[x] \in Int /\ h[x] \in Int /\ f[x] = g[x] + h[x]
  OBVIOUS
<1>3. A \in SUBSET S /\ B \in SUBSET S
  OBVIOUS
<1> HIDE DEF S, g, h
<1>4. SumFunctionOnSet(f, S) = SumFunctionOnSet(g, S) + SumFunctionOnSet(h, S)
  BY <1>1, <1>2, SumsAdd
<1>5. SumFunctionOnSet(g, S) = SumFunctionOnSet(g, A)
  BY <1>1, <1>2, <1>3, SumOfSome
<1>6. SumFunctionOnSet(h, S) = SumFunctionOnSet(h, B)
  BY <1>1, <1>2, <1>3, SumOfSome
<1>7. SumFunctionOnSet(f, A) = SumFunctionOnSet(g, A)
  BY <1>2, SumsSame
<1>8. SumFunctionOnSet(f, B) = SumFunctionOnSet(h, B)
  BY <1>2, SumsSame
<1> QED
  BY <1>4, <1>5, <1>6, <1>7, <1>8 DEF S

\* The elements that h puts into the group y.
Group(h, S, y) == {x \in S : h[x] = y}

\* A sum may be taken group by group.
LEMMA SumsGrouped ==
    ASSUME NEW f, NEW g, NEW h, NEW S, IsFiniteSet(S), NEW T, IsFiniteSet(T),
           \A x \in S : f[x] \in Int /\ h[x] \in T,
           \A y \in T : g[y] = SumFunctionOnSet(f, Group(h, S, y))
    PROVE  SumFunctionOnSet(f, S) = SumFunctionOnSet(g, T)
<1> DEFINE Of(U) == {x \in S : h[x] \in U}
           sum(k, U) == SumFunctionOnSet(k, U)
           P == {U \in SUBSET T : sum(f, Of(U)) = sum(g, U)}
<1>1. \A U : Of(U) \subseteq S /\ IsFiniteSet(Of(U))
  <2> TAKE U
  <2>1. Of(U) \subseteq S
    OBVIOUS
  <2> QED
    BY <2>1, FS_Subset
<1>2. ASSUME NEW U \in SUBSET T, \A V \in SUBSET U : V # U => V \in P
      PROVE  U \in P
  <2>1. IsFiniteSet(U)
    BY FS_Subset
  <2>2. CASE U = {}
    <3>1. Of(U) = {}
      BY <2>2
    <3>2. sum(f, {}) = 0 /\ sum(g, U) = 0
      BY <2>2, FS_EmptySet, SumStep
    <3> QED
      BY <3>1, <3>2
  <2>3. CASE U # {}
    <3> DEFINE y == Taken(U)
               V == U \ {y}
    <3>1. y \in U /\ sum(g, U) = g[y] + sum(g, V)
      BY <2>1, <2>3, SumStep
    <3> HIDE DEF y
    <3>2. V \in P
      BY <1>2, <3>1
    <3>3. /\ Of(U) = Of({y}) \cup Of(V)
          /\ Of({y}) \cap Of(V) = {}
          /\ Of({y}) = Group(h, S, y)
      BY <3>1 DEF Group
    <3>4. \A x \in Of({y}) \cup Of(V) : f[x] \in Int
      OBVIOUS
    <3>5. y \in T
      BY <3>1
    <3> DEFINE A == Of({y})
               B == Of(V)
    <3>6. IsFiniteSet(A) /\ IsFiniteSet(B)
      BY <1>1
    <3>7. sum(f, A) = g[y]
      BY <3>3, <3>5
    <3>8. A \cap B = {} /\ (\A x \in A \cup B : f[x] \in Int) /\ Of(U) = A \cup B
      BY <3>3, <3>4
    <3>9. sum(f, Of(V)) = sum(g, V)
      BY <3>2
    <3> HIDE DEF Of, V, A, B
    <3>10. sum(f, A \cup B) = sum(f, A) + sum(f, B)
      BY <3>6, <3>8, SumUnion
    <3>11. sum(f, Of(U)) = sum(g, U)
      BY <3>1, <3>7, <3>8, <3>9, <3>10 DEF B
    <3> QED
      BY <3>11 DEF P
  <2> QED
    BY <2>2, <2>3
<1>3. T \in P
  <2>1. SUBSET T \subseteq P
    <3> HIDE DEF P
    <3> QED BY <1>2, SetInductive
  <2> QED
    BY <2>1
<1>4. Of(T) = S
  OBVIOUS
<1> QED
  BY <1>3, <1>4

\* A sum whose elements each have one at least as large in the other, and none the same one,
\* comes to no more than the other.
LEMMA SumsInto ==
    ASSUME NEW f, NEW g, NEW h, NEW S, IsFiniteSet(S), NEW T, IsFiniteSet(T),
           \A x \in S : f[x] \in Int /\ h[x] \in T /\ f[x] <= g[h[x]],
           \A x, y \in S : h[x] = h[y] => x = y,
           \A y \in T : g[y] \in Nat
    PROVE  SumFunctionOnSet(f, S) <= SumFunctionOnSet(g, T)
<1> DEFINE Of(y) == Group(h, S, y)
           each == [y \in T |-> SumFunctionOnSet(f, Of(y))]
<1>1. \A y \in T : each[y] \in Int /\ g[y] \in Int /\ each[y] <= g[y]
  <2> TAKE y \in T
  <2>1. CASE Of(y) = {}
    <3>1. each[y] = 0
      BY <2>1, FS_EmptySet, SumStep
    <3> QED
      BY <3>1
  <2>2. CASE Of(y) # {}
    <3>1. PICK x \in S : h[x] = y
      BY <2>2 DEF Group
    <3>2. Of(y) = {x} /\ {x} \ {x} = {} /\ f[x] \in Int /\ f[x] <= g[y]
      BY <3>1 DEF Group
    <3>3. SumFunctionOnSet(f, {x}) = f[x] + SumFunctionOnSet(f, {x} \ {x})
      BY <3>2, FS_Singleton, SumOut
    <3>4. SumFunctionOnSet(f, {}) = 0
      BY FS_EmptySet, SumStep
    <3>5. each[y] = SumFunctionOnSet(f, {x})
      BY <3>2
    <3> HIDE DEF each, Of
    <3>6. SumFunctionOnSet(f, {x}) = f[x] + 0
      BY <3>2, <3>3, <3>4
    <3>7. each[y] = f[x]
      BY <3>2, <3>5, <3>6
    <3> QED
      BY <3>2, <3>7
  <2> QED
    BY <2>1, <2>2
<1>2. \A y \in T : each[y] = SumFunctionOnSet(f, Group(h, S, y))
  OBVIOUS
<1> HIDE DEF each, Of
<1>3. SumFunctionOnSet(f, S) = SumFunctionOnSet(each, T)
  <2>1. \A x \in S : f[x] \in Int /\ h[x] \in T
    OBVIOUS
  <2> QED
    BY <1>2, <2>1, SumsGrouped
<1>4. SumFunctionOnSet(each, T) <= SumFunctionOnSet(g, T)
  BY <1>1, SumsCompare
<1> QED
  BY <1>3, <1>4

-----------------------------------------------------------------------------
(* Places *)

\* Of finitely many things with places of their own there is one with any number before it.
LEMMA Ranked ==
    ASSUME NEW S, IsFiniteSet(S), NEW place, \A x \in S : place[x] \in Nat,
           \A x, y \in S : place[x] = place[y] => x = y,
           NEW n \in 1..Cardinality(S)
    PROVE  \E x \in S : Cardinality({y \in S : place[y] < place[x]}) = n - 1
<1> DEFINE below(T, x) == {y \in T : place[y] < place[x]}
           Has(T, k) == \E x \in T : Cardinality(below(T, x)) = k - 1
           P == {T \in SUBSET S : \A k \in 1..Cardinality(T) : Has(T, k)}
<1>1. ASSUME NEW T \in SUBSET S, \A U \in SUBSET T : U # T => U \in P
      PROVE  T \in P
  <2> SUFFICES ASSUME NEW k \in 1..Cardinality(T)
               PROVE  Has(T, k)
    OBVIOUS
  <2>1. IsFiniteSet(T) /\ Cardinality(T) \in Nat
    BY FS_Subset, FS_CardinalityType
  <2>2. T # {}
    BY FS_EmptySet
  <2>3. PICK x \in T : \A y \in T : place[y] <= place[x]
    <3> DEFINE Q == {U \in SUBSET T : U # {} => \E x \in U : \A y \in U : place[y] <= place[x]}
    <3>1. ASSUME NEW U \in SUBSET T, \A V \in SUBSET U : V # U => V \in Q, U # {}
          PROVE  \E x \in U : \A y \in U : place[y] <= place[x]
      <4>1. PICK z \in U : TRUE
        BY <3>1
      <4>2. CASE U = {z}
        BY <4>2
      <4>3. CASE U # {z}
        <5>1. U \ {z} \in Q /\ U \ {z} # {}
          BY <3>1, <4>1, <4>3
        <5>2. PICK x \in U \ {z} : \A y \in U \ {z} : place[y] <= place[x]
          BY <5>1
        <5>3. \A y \in U : place[y] \in Nat
          OBVIOUS
        <5>4. CASE place[z] <= place[x]
          BY <5>2, <5>4
        <5>5. CASE place[x] < place[z]
          <6>1. \A y \in U : place[y] <= place[z]
            BY <5>2, <5>3, <5>5
          <6> QED
            BY <6>1
        <5> QED
          BY <5>3, <5>4, <5>5
      <4> QED
        BY <4>2, <4>3
    <3>2. SUBSET T \subseteq Q
      <4>1. \A U \in SUBSET T : (\A V \in SUBSET U : V # U => V \in Q) => U \in Q
        BY <3>1
      <4> HIDE DEF Q
      <4> QED BY <2>1, <4>1, SetInductive
    <3>3. T \in Q
      BY <3>2
    <3> QED
      BY <2>2, <3>3
  <2>4. below(T, x) = T \ {x}
    <3>1. \A y \in T : place[y] <= place[x] /\ place[y] \in Nat /\ place[x] \in Nat
      BY <2>3
    <3>2. \A y \in T : y # x => place[y] # place[x]
      OBVIOUS
    <3> QED
      BY <3>1, <3>2
  <2> DEFINE U == T \ {x}
  <2>5. Cardinality(U) = Cardinality(T) - 1
    BY <2>1, FS_RemoveElement
  <2>6. CASE k = Cardinality(T)
    <3>1. Cardinality(below(T, x)) = k - 1
      BY <2>4, <2>5, <2>6
    <3> QED
      BY <3>1
  <2>7. CASE k # Cardinality(T)
    <3>1. U \in P /\ k \in 1..Cardinality(U)
      BY <1>1, <2>1, <2>5, <2>7
    <3>2. PICK z \in U : Cardinality(below(U, z)) = k - 1
      BY <3>1
    <3>3. below(T, z) = below(U, z)
      <4>1. place[z] <= place[x] /\ place[z] \in Nat /\ place[x] \in Nat
        BY <2>3
      <4>2. ~ place[x] < place[z]
        BY <4>1
      <4> QED
        BY <4>2
    <3> QED
      BY <3>2, <3>3
  <2> QED
    BY <2>6, <2>7
<1>2. SUBSET S \subseteq P
  <2> HIDE DEF P
  <2> QED BY <1>1, SetInductive
<1>3. S \in P
  BY <1>2
<1> QED
  BY <1>3

\* The first of the largest numbers of a sequence.
LEMMA FirstLargest ==
    ASSUME NEW N \in Nat \ {0}, NEW f \in [1..N -> Nat]
    PROVE  \E i \in 1..N : /\ \A j \in 1..N : f[j] <= f[i]
                           /\ \A j \in 1..i - 1 : f[j] < f[i]
<1> DEFINE Is(i, k) == /\ \A j \in 1..k : f[j] <= f[i]
                       /\ \A j \in 1..i - 1 : f[j] < f[i]
           S == {k \in Nat : k \in 1..N => \E i \in 1..k : Is(i, k)}
<1>1. 0 \in S
  OBVIOUS
<1>2. \A k \in Nat : k \in S => k + 1 \in S
  <2> SUFFICES ASSUME NEW k \in Nat, k \in S, k + 1 \in 1..N
               PROVE  \E i \in 1..k + 1 : Is(i, k + 1)
    <3> HIDE DEF Is
    <3> QED OBVIOUS
  <2>1. CASE k = 0
    <3>1. Is(1, 1) /\ 1 \in 1..1
      BY <2>1
    <3> QED
      BY <2>1, <3>1
  <2>2. CASE k # 0
    <3>1. PICK i \in 1..k : Is(i, k)
      BY <2>2
    <3>2. f[i] \in Nat /\ f[k + 1] \in Nat /\ \A j \in 1..k : f[j] \in Nat
      BY <3>1
    <3>3. CASE f[k + 1] <= f[i]
      <4>1. Is(i, k + 1)
        BY <3>1, <3>3
      <4> QED
        BY <4>1
    <3>4. CASE f[i] < f[k + 1]
      <4>1. \A j \in 1..k : f[j] < f[k + 1]
        BY <3>1, <3>2, <3>4
      <4>2. Is(k + 1, k + 1)
        BY <3>2, <4>1
      <4> QED
        BY <4>2
    <3> QED
      BY <3>2, <3>3, <3>4
  <2> QED
    BY <2>1, <2>2
<1>3. N \in S
  <2> HIDE DEF S
  <2> QED BY <1>1, <1>2, Inductive
<1> QED
  BY <1>3
=============================================================================
