----------------------------- MODULE IndexLemmas ------------------------------
(***************************************************************************)
(* Facts about sets of indices that the proofs about the components need:  *)
(* scans for the first or the last position with some property, which the  *)
(* modules write with Min and Max, induction up to a bound, sums over      *)
(* finite sets, and division.                                              *)
(***************************************************************************)
EXTENDS Integers, FiniteSets, FiniteSetsExt, FiniteSetTheorems, WellFoundedInduction, TLAPS

(* A set of natural numbers that has any has a least one.                  *)
LEMMA Least ==
    ASSUME NEW S \in SUBSET Nat, S # {}
    PROVE  \E x \in S : \A y \in S : x <= y
<1>1. PICK x \in S : \A y \in S : ~(<<y, x>> \in OpToRel(<, Nat))
  BY NatLessThanWellFounded, WFMin
<1>2. \A y \in S : ~(y < x)
  BY <1>1 DEF OpToRel
<1> QED
  BY <1>2

(* So Min finds it.                                                        *)
LEMMA MinIsLeast ==
    ASSUME NEW S \in SUBSET Nat, S # {}
    PROVE  Min(S) \in S /\ \A y \in S : Min(S) <= y
<1>1. \E x \in S : \A y \in S : x =< y
  BY Least
<1> QED
  BY <1>1 DEF Min

(* And Max the greatest of a set of numbers that has a bound.              *)
LEMMA MaxIsGreatest ==
    ASSUME NEW S \in SUBSET Nat, S # {}, NEW n \in Nat, \A y \in S : y <= n
    PROVE  Max(S) \in S /\ \A y \in S : Max(S) >= y
<1> DEFINE Rest == {m \in Nat : \E y \in S : m = n - y}
<1>1. Rest \in SUBSET Nat /\ Rest # {}
  <2>1. PICK y \in S : TRUE
    OBVIOUS
  <2>2. n - y \in Nat
    OBVIOUS
  <2> QED
    BY <2>1, <2>2
<1>2. PICK m \in Rest : \A k \in Rest : m <= k
  <2> HIDE DEF Rest
  <2> QED
    BY <1>1, Least
<1>3. PICK x \in S : m = n - x
  BY <1>2
<1>4. \A y \in S : x >= y
  <2> TAKE y \in S
  <2>1. n - y \in Rest
    OBVIOUS
  <2> QED
    BY <1>2, <1>3, <2>1
<1> QED
  BY <1>3, <1>4 DEF Max

(* Induction, up to a bound, over the numbers of a set.                    *)
LEMMA Induction ==
    ASSUME NEW N \in Nat, NEW S, 0 \in S, \A n \in 0 .. N - 1 : n \in S => n + 1 \in S
    PROVE  \A n \in 0 .. N : n \in S
<1> DEFINE Bad == {n \in 0 .. N : n \notin S}
<1>1. SUFFICES ASSUME Bad # {} PROVE FALSE
  OBVIOUS
<1>2. Bad \in SUBSET Nat
  OBVIOUS
<1>3. PICK n \in Bad : \A k \in Bad : n <= k
  <2> HIDE DEF Bad
  <2> QED BY <1>1, <1>2, Least
<1>4. n \in 1 .. N /\ n - 1 \in 0 .. N - 1 /\ n \notin S /\ (n - 1) + 1 = n
  <2>1. n \in 0 .. N /\ n \notin S
    OBVIOUS
  <2>2. n # 0
    BY <2>1
  <2> QED BY <2>1, <2>2
<1>5. n - 1 \in S
  <2>1. n - 1 \notin Bad
    BY <1>3, <1>4
  <2> QED BY <1>4, <2>1
<1> QED BY <1>4, <1>5

-----------------------------------------------------------------------------
(* Sums over finite sets, which the modules write with MapThenSumSet.      *)

SumOver(f, S) == MapThenSumSet(LAMBDA x : f[x], S)

pick(S) == CHOOSE x \in S : TRUE

(* One unfolding of the recursive function behind the sum, and a function  *)
(* that it leaves alone on the sets of at most n elements.                 *)
SumStep(f, S, h) ==
    [s \in SUBSET S |-> IF s = {} THEN 0 ELSE f[pick(s)] + h[s \ {pick(s)}]]

Solves(f, S, h, n) ==
    /\ h = [s \in SUBSET S |-> h[s]]
    /\ \A s \in SUBSET S : Cardinality(s) <= n => h[s] = SumStep(f, S, h)[s]

Iter(f, S) == CHOOSE h : h = SumStep(f, S, h)

LEMMA SumIsIter == ASSUME NEW f, NEW S PROVE SumOver(f, S) = Iter(f, S)[S]
  BY Zenon DEF SumOver, MapThenSumSet, MapThenFoldSet, Iter, SumStep, pick

(* The element a sum takes first, and the set without it.                  *)
LEMMA PickOne ==
    ASSUME NEW S, IsFiniteSet(S), NEW s \in SUBSET S, s # {}
    PROVE  /\ pick(s) \in s /\ s \ {pick(s)} \in SUBSET S
           /\ IsFiniteSet(s) /\ IsFiniteSet(s \ {pick(s)})
           /\ Cardinality(s) \in Nat \ {0}
           /\ Cardinality(s \ {pick(s)}) = Cardinality(s) - 1
  <1>1. pick(s) \in s
    BY DEF pick
  <1>2. IsFiniteSet(s)
    BY FS_Subset
  <1>3. Cardinality(s) \in Nat /\ Cardinality(s) # 0
    BY <1>2, FS_CardinalityType, FS_EmptySet
  <1>4. IsFiniteSet(s \ {pick(s)}) /\ Cardinality(s \ {pick(s)}) = Cardinality(s) - 1
    BY <1>1, <1>2, FS_RemoveElement
  <1> QED BY <1>1, <1>2, <1>3, <1>4

LEMMA SolveMore ==
    ASSUME NEW f, NEW S, IsFiniteSet(S), NEW n \in Nat, NEW h, Solves(f, S, h, n)
    PROVE  Solves(f, S, SumStep(f, S, h), n + 1)
  <1> DEFINE g == SumStep(f, S, h)
  <1>1. g = [s \in SUBSET S |-> g[s]]
    BY DEF SumStep
  <1>2. ASSUME NEW s \in SUBSET S, Cardinality(s) <= n + 1
        PROVE  g[s] = SumStep(f, S, g)[s]
    <2>1. CASE s = {}
      BY <2>1 DEF SumStep
    <2>2. CASE s # {}
      <3> DEFINE r == s \ {pick(s)}
      <3>1. r \in SUBSET S /\ Cardinality(r) <= n
        BY <1>2, <2>2, PickOne
      <3>2. h[r] = g[r]
        BY <3>1 DEF Solves
      <3>3. /\ g[s] = f[pick(s)] + h[r]
            /\ SumStep(f, S, g)[s] = f[pick(s)] + g[r]
        <4> HIDE DEF g
        <4>1. \A k : SumStep(f, S, k)[s] = f[pick(s)] + k[r]
          BY <2>2 DEF SumStep
        <4> QED BY <4>1 DEF g
      <3> QED BY <3>2, <3>3
    <2> QED BY <2>1, <2>2
  <1> HIDE DEF g
  <1>3. Solves(f, S, g, n + 1)
    BY <1>1, <1>2 DEF Solves
  <1> QED BY <1>3 DEF g

LEMMA Solvable ==
    ASSUME NEW f, NEW S, IsFiniteSet(S)
    PROVE  Iter(f, S) = SumStep(f, S, Iter(f, S))
  <1> DEFINE Bad == {n \in Nat : ~\E h : Solves(f, S, h, n)}
  <1>1. Bad = {}
    <2> SUFFICES ASSUME Bad # {} PROVE FALSE
      OBVIOUS
    <2>1. PICK n \in Bad : \A m \in Bad : n <= m
      <3>1. Bad \in SUBSET Nat
        OBVIOUS
      <3> HIDE DEF Bad
      <3> QED BY <3>1, Least
    <2>2. CASE n = 0
      <3> DEFINE z == [s \in SUBSET S |-> 0]
      <3>1. ASSUME NEW s \in SUBSET S, Cardinality(s) <= 0
            PROVE  z[s] = SumStep(f, S, z)[s]
        <4>1. s = {}
          <5>1. s # {} => Cardinality(s) \in Nat \ {0}
            BY PickOne
          <5> QED BY <3>1, <5>1
        <4> QED BY <4>1 DEF SumStep
      <3>2. z = [s \in SUBSET S |-> z[s]]
        OBVIOUS
      <3> HIDE DEF z
      <3>3. Solves(f, S, z, 0)
        BY <3>1, <3>2 DEF Solves
      <3> QED BY <2>2, <3>3
    <2>3. CASE n # 0
      <3>1. n - 1 \in Nat /\ n - 1 \notin Bad /\ (n - 1) + 1 = n
        BY <2>1, <2>3
      <3>2. PICK h : Solves(f, S, h, n - 1)
        BY <3>1
      <3>3. Solves(f, S, SumStep(f, S, h), n)
        BY <3>1, <3>2, SolveMore
      <3> QED BY <3>3
    <2> QED BY <2>2, <2>3
  <1>2. Cardinality(S) \in Nat
    BY FS_CardinalityType
  <1>3. PICK h : Solves(f, S, h, Cardinality(S))
    BY <1>1, <1>2
  <1>4. h = SumStep(f, S, h)
    <2>1. \A s \in SUBSET S : Cardinality(s) <= Cardinality(S)
      BY FS_Subset
    <2>2. \A s \in SUBSET S : h[s] = SumStep(f, S, h)[s]
      BY <1>3, <2>1 DEF Solves
    <2>3. h = [s \in SUBSET S |-> h[s]]
      BY <1>3 DEF Solves
    <2>4. SumStep(f, S, h) = [s \in SUBSET S |-> SumStep(f, S, h)[s]]
      BY DEF SumStep
    <2> QED BY <2>2, <2>3, <2>4
  <1> QED BY <1>4, Zenon DEF Iter

(* A sum over a set depends on that set and its summands only.             *)
LEMMA SolutionsAgree ==
    ASSUME NEW f, NEW e, NEW S, IsFiniteSet(S), NEW T \in SUBSET S,
           \A x \in T : f[x] = e[x]
    PROVE  \A s \in SUBSET T : Iter(f, S)[s] = Iter(e, T)[s]
  <1> DEFINE h == Iter(f, S)
             g == Iter(e, T)
             Bad == {n \in Nat : \E s \in SUBSET T : Cardinality(s) = n /\ h[s] # g[s]}
  <1>0. IsFiniteSet(T)
    BY FS_Subset
  <1>1. h = SumStep(f, S, h) /\ g = SumStep(e, T, g)
    BY <1>0, Solvable
  <1> HIDE DEF h, g
  <1>2. Bad = {}
    <2> SUFFICES ASSUME Bad # {} PROVE FALSE
      OBVIOUS
    <2>1. PICK n \in Bad : \A m \in Bad : n <= m
      <3>1. Bad \in SUBSET Nat
        OBVIOUS
      <3> HIDE DEF Bad
      <3> QED BY <3>1, Least
    <2>2. PICK s \in SUBSET T : Cardinality(s) = n /\ h[s] # g[s]
      BY <2>1
    <2>3. s \in SUBSET S
      OBVIOUS
    <2>4. CASE s = {}
      <3>1. SumStep(f, S, h)[s] = 0 /\ SumStep(e, T, g)[s] = 0
        BY <2>3, <2>4 DEF SumStep
      <3> QED BY <1>1, <2>2, <3>1
    <2>5. CASE s # {}
      <3> DEFINE r == s \ {pick(s)}
      <3>1. /\ pick(s) \in T /\ r \in SUBSET T /\ Cardinality(r) = n - 1 /\ n \in Nat \ {0}
        BY <1>0, <2>2, <2>5, PickOne
      <3>2. h[r] = g[r]
        BY <2>1, <3>1
      <3>3. SumStep(f, S, h)[s] = f[pick(s)] + h[r] /\ SumStep(e, T, g)[s] = e[pick(s)] + g[r]
        BY <2>3, <2>5 DEF SumStep
      <3> HIDE DEF r
      <3> QED BY <1>1, <2>2, <3>1, <3>2, <3>3
    <2> QED BY <2>4, <2>5
  <1>3. ASSUME NEW s \in SUBSET T
        PROVE  h[s] = g[s]
    <2>1. Cardinality(s) \in Nat
      BY <1>0, FS_Subset, FS_CardinalityType
    <2> QED BY <1>2, <2>1
  <1> QED BY <1>3 DEF h, g

LEMMA SumSame ==
    ASSUME NEW f, NEW e, NEW S, IsFiniteSet(S), \A x \in S : f[x] = e[x]
    PROVE  SumOver(f, S) = SumOver(e, S)
  <1>1. S \in SUBSET S
    OBVIOUS
  <1>2. Iter(f, S)[S] = Iter(e, S)[S]
    BY <1>1, SolutionsAgree
  <1> QED BY <1>2, SumIsIter

LEMMA SumFirst ==
    ASSUME NEW f, NEW S, IsFiniteSet(S)
    PROVE  /\ S = {} => SumOver(f, S) = 0
           /\ S # {} => SumOver(f, S) = f[pick(S)] + SumOver(f, S \ {pick(S)})
  <1> DEFINE h == Iter(f, S)
             r == S \ {pick(S)}
  <1>1. S \in SUBSET S /\ r \in SUBSET S /\ r \in SUBSET r
    OBVIOUS
  <1>2. h = SumStep(f, S, h) /\ SumOver(f, S) = h[S]
    BY Solvable, SumIsIter
  <1>3. h[r] = Iter(f, r)[r]
    BY <1>1, SolutionsAgree
  <1>4. h[r] = SumOver(f, r)
    BY <1>3, SumIsIter
  <1> HIDE DEF h
  <1>5. SumStep(f, S, h)[S] = IF S = {} THEN 0 ELSE f[pick(S)] + h[r]
    BY <1>1 DEF SumStep
  <1> HIDE DEF r
  <1>6. SumOver(f, S) = IF S = {} THEN 0 ELSE f[pick(S)] + h[r]
    BY <1>2, <1>5
  <1> QED BY <1>4, <1>6 DEF r

LEMMA SumType ==
    ASSUME NEW f, NEW S, IsFiniteSet(S), \A x \in S : f[x] \in Int
    PROVE  SumOver(f, S) \in Int
  <1> DEFINE Bad == {n \in Nat : \E s \in SUBSET S : Cardinality(s) = n /\ SumOver(f, s) \notin Int}
  <1>1. Bad = {}
    <2> SUFFICES ASSUME Bad # {} PROVE FALSE
      OBVIOUS
    <2>1. PICK n \in Bad : \A m \in Bad : n <= m
      <3>1. Bad \in SUBSET Nat
        OBVIOUS
      <3> HIDE DEF Bad
      <3> QED BY <3>1, Least
    <2>2. PICK s \in SUBSET S : Cardinality(s) = n /\ SumOver(f, s) \notin Int
      BY <2>1
    <2>3. IsFiniteSet(s)
      BY FS_Subset
    <2>4. CASE s = {}
      <3>1. SumOver(f, s) = 0
        BY <2>3, <2>4, SumFirst
      <3> QED BY <2>2, <3>1
    <2>5. CASE s # {}
      <3> DEFINE r == s \ {pick(s)}
      <3>1. pick(s) \in S /\ r \in SUBSET S /\ Cardinality(r) = n - 1 /\ n \in Nat \ {0}
        BY <2>2, <2>5, PickOne
      <3>2. SumOver(f, r) \in Int
        BY <2>1, <3>1
      <3>3. SumOver(f, s) = f[pick(s)] + SumOver(f, r)
        BY <2>3, <2>5, SumFirst
      <3> HIDE DEF r
      <3>4. f[pick(s)] \in Int
        BY <3>1
      <3> QED BY <2>2, <3>2, <3>3, <3>4
    <2> QED BY <2>4, <2>5
  <1>2. Cardinality(S) \in Nat
    BY FS_CardinalityType
  <1> QED BY <1>1, <1>2

(* A sum may be taken in any order.                                        *)
LEMMA SumTake ==
    ASSUME NEW f, NEW S, IsFiniteSet(S), \A x \in S : f[x] \in Int, NEW y \in S
    PROVE  SumOver(f, S) = f[y] + SumOver(f, S \ {y})
  <1> DEFINE Wrong(s) == \E z \in s : SumOver(f, s) # f[z] + SumOver(f, s \ {z})
             Bad == {n \in Nat : \E s \in SUBSET S : Cardinality(s) = n /\ Wrong(s)}
  <1>0. Cardinality(S) \in Nat
    BY FS_CardinalityType
  <1>1. Bad = {}
    <2> SUFFICES ASSUME Bad # {} PROVE FALSE
      OBVIOUS
    <2>1. PICK n \in Bad : \A m \in Bad : n <= m
      <3>1. Bad \in SUBSET Nat
        OBVIOUS
      <3> HIDE DEF Bad
      <3> QED BY <3>1, Least
    <2>2. PICK s \in SUBSET S : Cardinality(s) = n /\ Wrong(s)
      BY <2>1
    <2>3. PICK z \in s : SumOver(f, s) # f[z] + SumOver(f, s \ {z})
      BY <2>2
    <2> DEFINE c == pick(s)
    <2>4. /\ c \in s /\ IsFiniteSet(s) /\ n \in Nat \ {0}
          /\ IsFiniteSet(s \ {c}) /\ Cardinality(s \ {c}) = n - 1
          /\ SumOver(f, s) = f[c] + SumOver(f, s \ {c})
      BY <2>2, PickOne, SumFirst
    <2>5. IsFiniteSet(s \ {z}) /\ Cardinality(s \ {z}) = n - 1
      BY <2>2, <2>4, FS_RemoveElement
    <2> HIDE DEF c
    <2>6. c # z
      BY <2>3, <2>4
    <2>7. n - 1 \notin Bad /\ n - 1 \in Nat
      BY <2>1, <2>4
    <2>8. ~Wrong(s \ {c}) /\ ~Wrong(s \ {z})
      <3>1. s \ {c} \in SUBSET S /\ s \ {z} \in SUBSET S
        OBVIOUS
      <3> HIDE DEF Wrong
      <3> QED BY <2>4, <2>5, <2>7, <3>1
    <2>9. z \in s \ {c} /\ c \in s \ {z} /\ (s \ {c}) \ {z} = (s \ {z}) \ {c}
      BY <2>4, <2>6
    <2> DEFINE rest == (s \ {z}) \ {c}
    <2>10. SumOver(f, s \ {c}) = f[z] + SumOver(f, rest) /\ SumOver(f, s \ {z}) = f[c] + SumOver(f, rest)
      BY <2>8, <2>9
    <2>11. SumOver(f, rest) \in Int
      <3>1. rest \in SUBSET S
        OBVIOUS
      <3> HIDE DEF rest
      <3>2. IsFiniteSet(rest) /\ \A x \in rest : f[x] \in Int
        BY <3>1, FS_Subset
      <3> QED BY <3>2, SumType
    <2>12. f[c] \in Int /\ f[z] \in Int
      BY <2>4
    <2> HIDE DEF rest
    <2> QED BY <2>3, <2>4, <2>10, <2>11, <2>12
  <1>2. ~Wrong(S)
    <2>1. S \in SUBSET S
      OBVIOUS
    <2> HIDE DEF Wrong
    <2> QED BY <1>0, <1>1, <2>1
  <1> QED BY <1>2

(* A function that tells the elements of a set apart keeps their number.   *)
LEMMA CardOfImage ==
    ASSUME NEW S, IsFiniteSet(S), NEW g, \A x, y \in S : g[x] = g[y] => x = y
    PROVE  /\ IsFiniteSet({g[x] : x \in S})
           /\ Cardinality({g[x] : x \in S}) = Cardinality(S)
  <1> DEFINE T == {g[x] : x \in S}
             h == [x \in S |-> g[x]]
  <1>1. h \in [S -> T] /\ \A x \in S : h[x] = g[x]
    OBVIOUS
  <1>2. \A t \in T : \E x \in S : h[x] = t
    OBVIOUS
  <1>3. \A x, y \in S : h[x] = h[y] => x = y
    OBVIOUS
  <1> HIDE DEF h, T
  <1>4. h \in Bijection(S, T)
    BY <1>1, <1>2, <1>3 DEF Bijection, Injection, Surjection, IsInjective
  <1>5. ExistsBijection(S, T)
    BY <1>4 DEF ExistsBijection
  <1> QED BY <1>5, FS_Bijection DEF T

(* The elements of sets that have none in common.                          *)
LEMMA SumOfDisjoint ==
    ASSUME NEW F, NEW S, IsFiniteSet(S), NEW c,
           \A x \in S : IsFiniteSet(F[x]) /\ c[x] = Cardinality(F[x]),
           \A x, y \in S : x # y => F[x] \cap F[y] = {}
    PROVE  SumOver(c, S) = Cardinality(UNION {F[x] : x \in S})
  <1> DEFINE All(s) == UNION {F[x] : x \in s}
             Wrong(s) == ~(IsFiniteSet(All(s)) /\ SumOver(c, s) = Cardinality(All(s)))
             Bad == {n \in Nat : \E s \in SUBSET S : Cardinality(s) = n /\ Wrong(s)}
  <1>1. Bad = {}
    <2> SUFFICES ASSUME Bad # {} PROVE FALSE
      OBVIOUS
    <2>1. PICK n \in Bad : \A m \in Bad : n <= m
      <3>1. Bad \in SUBSET Nat
        OBVIOUS
      <3> HIDE DEF Bad
      <3> QED BY <3>1, Least
    <2>2. PICK s \in SUBSET S : Cardinality(s) = n /\ Wrong(s)
      BY <2>1
    <2>3. IsFiniteSet(s)
      BY FS_Subset
    <2>4. CASE s = {}
      <3>1. SumOver(c, s) = 0
        BY <2>3, <2>4, SumFirst
      <3>2. All(s) = {}
        BY <2>4
      <3> HIDE DEF All
      <3> QED BY <2>2, <3>1, <3>2, FS_EmptySet
    <2>5. CASE s # {}
      <3> DEFINE a == pick(s)
                 r == s \ {a}
      <3>1. a \in s /\ r \in SUBSET S /\ Cardinality(r) = n - 1 /\ n \in Nat \ {0}
        BY <2>2, <2>5, PickOne
      <3>2. n - 1 \in Nat /\ n - 1 \notin Bad
        <4> HIDE DEF Bad, r, a
        <4> QED BY <2>1, <3>1
      <3>3. ~Wrong(r)
        <4> HIDE DEF Wrong, r
        <4> QED BY <3>1, <3>2
      <3>4. SumOver(c, s) = c[a] + SumOver(c, r)
        BY <2>3, <2>5, SumFirst
      <3>5. All(s) = F[a] \cup All(r) /\ F[a] \cap All(r) = {}
        <4>1. s = {a} \cup r /\ a \in S /\ \A x \in r : x \in S /\ x # a
          BY <3>1
        <4> HIDE DEF a, r
        <4>2. All(s) = F[a] \cup All(r)
          BY <4>1
        <4>3. \A x \in r : F[a] \cap F[x] = {}
          BY <4>1
        <4> QED BY <4>2, <4>3
      <3>6. IsFiniteSet(F[a]) /\ c[a] = Cardinality(F[a])
        BY <3>1
      <3> HIDE DEF a, r, All
      <3>7. IsFiniteSet(All(r)) /\ SumOver(c, r) = Cardinality(All(r))
        BY <3>3
      <3>8. /\ IsFiniteSet(F[a] \cup All(r))
            /\ Cardinality(F[a] \cup All(r)) = Cardinality(F[a]) + Cardinality(All(r)) - Cardinality({})
        BY <3>5, <3>6, <3>7, FS_Union
      <3>9. Cardinality({}) = 0 /\ Cardinality(F[a]) \in Nat /\ Cardinality(All(r)) \in Nat
        BY <3>6, <3>7, FS_EmptySet, FS_CardinalityType
      <3> QED BY <2>2, <3>4, <3>5, <3>6, <3>7, <3>8, <3>9
    <2> QED BY <2>4, <2>5
  <1>2. Cardinality(S) \in Nat /\ S \in SUBSET S
    BY FS_CardinalityType
  <1>3. ~Wrong(S)
    <2> HIDE DEF Wrong
    <2> QED BY <1>1, <1>2
  <1> QED BY <1>3

-----------------------------------------------------------------------------
(* Division.                                                              *)

LEMMA DivMod ==
    ASSUME NEW n \in Nat, NEW e \in Nat \ {0}
    PROVE  n \div e \in Nat /\ n % e \in 0 .. e - 1 /\ n = (n \div e) * e + (n % e)
  BY Z3

LEMMA DivUnique ==
    ASSUME NEW q \in Nat, NEW e \in Nat \ {0}, NEW x \in 0 .. e - 1
    PROVE  (q * e + x) \div e = q /\ (q * e + x) % e = x
  BY Z3

=============================================================================
