------------------------ MODULE ContributionMathProofs ------------------------
(***************************************************************************)
(* Theorems about ContributionMath, for any calendar, days and counts.     *)
(*                                                                         *)
(* The loops of the code are recursive functions and folds, chosen by      *)
(* their equations.  Recursion and SumTakes show that there are functions  *)
(* with these equations; what they compute is proved by induction over a   *)
(* set of numbers, or over the subsets of a finite set.                    *)
(***************************************************************************)
EXTENDS ContributionMath, TLAPS, FiniteSetTheorems, WellFoundedInduction

-----------------------------------------------------------------------------
(* Induction over sets of numbers and finite sets                          *)

\* A set of numbers that is not empty has a least element.
LEMMA Least ==
    ASSUME NEW T \in SUBSET Nat, T # {}
    PROVE  \E x \in T : \A y \in T : x <= y
<1> DEFINE R == OpToRel(<, Nat)
<1>1. IsWellFoundedOn(R, Nat)
  BY NatLessThanWellFounded
<1>2. \A x, y \in Nat : x < y => <<x, y>> \in R
  BY DEF OpToRel
<1> HIDE DEF R
<1>3. PICK x \in T : \A y \in T : ~ (<<y, x>> \in R)
  BY <1>1, WFMin
<1>4. x \in Nat /\ \A y \in T : y \in Nat /\ ~(y < x)
  BY <1>2, <1>3
<1> QED BY <1>4

LEMMA Induction ==
    ASSUME NEW S \in SUBSET Nat, 0 \in S, \A n \in S : n + 1 \in S
    PROVE  S = Nat
<1> SUFFICES ASSUME Nat \ S # {} PROVE FALSE
  OBVIOUS
<1>1. PICK x \in Nat \ S : \A y \in Nat \ S : x <= y
  BY Least
<1>2. x - 1 \in Nat /\ x - 1 \notin S
  BY <1>1
<1> QED BY <1>1, <1>2

LEMMA IntervalInduction ==
    ASSUME NEW a \in Int, NEW b \in Int, NEW S, a \in S,
           \A n \in a..b - 1 : n \in S => n + 1 \in S
    PROVE  a..b \subseteq S
<1> DEFINE N == {n \in Nat : a + n <= b => a + n \in S}
<1>1. 0 \in N
  OBVIOUS
<1>2. ASSUME NEW n \in N PROVE n + 1 \in N
  <2> SUFFICES ASSUME a + (n + 1) <= b PROVE a + (n + 1) \in S
    OBVIOUS
  <2>1. a + n \in a..b - 1 /\ a + n \in S
    OBVIOUS
  <2>2. (a + n) + 1 \in S
    BY <2>1
  <2> QED BY <2>2
<1> HIDE DEF N
<1>3. N = Nat
  <2>1. N \in SUBSET Nat
    BY DEF N
  <2> QED BY <1>1, <1>2, <2>1, Induction
<1>4. ASSUME NEW d \in a..b PROVE d \in S
  <2>1. d - a \in N /\ a + (d - a) = d
    BY <1>3
  <2> QED BY <2>1 DEF N
<1> QED BY <1>4

\* What holds of a set if it holds of the set without any one of its elements.
LEMMA FiniteInduction ==
    ASSUME NEW U, IsFiniteSet(U), NEW P,
           \A S \in SUBSET U : (\A x \in S : S \ {x} \in P) => S \in P
    PROVE  U \in P
<1> DEFINE N == {n \in Nat : \A S \in SUBSET U : Cardinality(S) = n => S \in P}
<1>1. \A S \in SUBSET U : IsFiniteSet(S) /\ Cardinality(S) \in Nat
  BY FS_Subset, FS_CardinalityType
<1>2. 0 \in N
  <2>1. \A S \in SUBSET U : Cardinality(S) = 0 => S = {}
    BY <1>1, FS_EmptySet
  <2> QED BY <2>1
<1>3. ASSUME NEW n \in N PROVE n + 1 \in N
  <2> SUFFICES ASSUME NEW S \in SUBSET U, Cardinality(S) = n + 1, NEW x \in S
               PROVE  S \ {x} \in P
    OBVIOUS
  <2>1. n \in Nat /\ IsFiniteSet(S)
    BY <1>1
  <2>2. Cardinality(S \ {x}) = Cardinality(S) - 1
    BY <2>1, FS_RemoveElement
  <2>3. Cardinality(S \ {x}) = n
    <3> HIDE DEF N
    <3> QED BY <2>1, <2>2
  <2> QED BY <2>3
<1> HIDE DEF N
<1>4. N = Nat
  <2>1. N \in SUBSET Nat
    BY DEF N
  <2> QED BY <1>2, <1>3, <2>1, Induction
<1>5. Cardinality(U) \in N /\ U \in SUBSET U
  BY <1>1, <1>4
<1> QED BY <1>5 DEF N

\* A function that is given by its first value and by what follows a value.
Recurs(f, a, b, V, v, step) ==
    /\ f \in [a..b -> V] /\ f[a] = v
    /\ \A n \in a + 1..b : f[n] = step[<<n, f[n - 1]>>]

LEMMA Recursion ==
    ASSUME NEW a \in Int, NEW b \in Int, a <= b, NEW V, NEW v \in V,
           NEW step \in [Int \X V -> V]
    PROVE  \E f : Recurs(f, a, b, V, v, step)
<1> DEFINE Upto(n) ==
        {f \in [a..n -> V] :
            f[a] = v /\ \A i \in a + 1..n : f[i] = step[<<i, f[i - 1]>>]}
           S == {n \in Int : n >= a /\ Upto(n) # {}}
<1>1. a \in S
  <2>1. [n \in a..a |-> v] \in Upto(a)
    OBVIOUS
  <2>2. Upto(a) # {}
    BY <2>1
  <2> HIDE DEF Upto
  <2> QED BY <2>2
<1>2. ASSUME NEW n \in S PROVE n + 1 \in S
  <2>1. PICK f : f \in Upto(n)
    OBVIOUS
  <2> DEFINE g == [i \in a..n + 1 |->
                      IF i = n + 1 THEN step[<<n + 1, f[n]>>] ELSE f[i]]
  <2>2. g \in [a..n + 1 -> V]
    BY <2>1
  <2>3. g[a] = v
    BY <2>1
  <2>4. ASSUME NEW i \in a + 1..n + 1 PROVE g[i] = step[<<i, g[i - 1]>>]
    <3>1. i - 1 \in a..n + 1 /\ i - 1 # n + 1 /\ i \in a..n + 1
      OBVIOUS
    <3>2. g[i - 1] = f[i - 1]
      BY <3>1
    <3>3. CASE i = n + 1
      BY <3>1, <3>2, <3>3
    <3>4. CASE i # n + 1
      BY <2>1, <3>1, <3>2, <3>4
    <3> QED BY <3>3, <3>4
  <2> HIDE DEF g
  <2>5. g \in Upto(n + 1)
    BY <2>2, <2>3, <2>4
  <2> QED BY <2>5
<1>3. b \in S
  <2> HIDE DEF S
  <2>1. a..b \subseteq S
    BY <1>1, <1>2, IntervalInduction
  <2> QED BY <2>1
<1> QED BY <1>3 DEF Recurs

-----------------------------------------------------------------------------
(* Sums over finite sets *)

SumOver(f, S) == MapThenSumSet(LAMBDA d : f[d], S)

Some(s) == CHOOSE x \in s : TRUE

\* Sums over the subsets of S.
Sums(g, f, S) ==
    g = [s \in SUBSET S |->
            IF s = {} THEN 0 ELSE f[Some(s)] + g[s \ {Some(s)}]]

LEMMA SumIsChosen ==
    ASSUME NEW f, NEW S
    PROVE  SumOver(f, S) = (CHOOSE g : Sums(g, f, S))[S]
BY DEF SumOver, MapThenSumSet, MapThenFoldSet, Sums, Some

LEMMA SomeIsOne ==
    ASSUME NEW s, s # {}
    PROVE  Some(s) \in s
BY DEF Some

LEMMA SumsExist ==
    ASSUME NEW S, IsFiniteSet(S), NEW f, \A x \in S : f[x] \in Nat
    PROVE  \E g : Sums(g, f, S)
<1> DEFINE Upto(n) == {s \in SUBSET S : Cardinality(s) <= n}
           Of(g, n) == /\ g \in [Upto(n) -> Nat]
                       /\ \A s \in Upto(n) :
                             g[s] = IF s = {} THEN 0
                                    ELSE f[Some(s)] + g[s \ {Some(s)}]
           N == {n \in Nat : \E g : Of(g, n)}
<1>1. \A s \in SUBSET S : IsFiniteSet(s) /\ Cardinality(s) \in Nat
  BY FS_Subset, FS_CardinalityType
<1>2. 0 \in N
  <2> DEFINE g == [s \in Upto(0) |-> 0]
  <2>1. \A s \in Upto(0) : s = {}
    BY <1>1, FS_EmptySet
  <2>2. Of(g, 0)
    BY <2>1
  <2> HIDE DEF g, Of
  <2> QED BY <2>2
<1>3. ASSUME NEW n \in N PROVE n + 1 \in N
  <2>1. PICK g : Of(g, n)
    OBVIOUS
  <2> DEFINE h == [s \in Upto(n + 1) |->
                      IF s = {} THEN 0 ELSE f[Some(s)] + g[s \ {Some(s)}]]
  <2>2. ASSUME NEW s \in Upto(n + 1), s # {}
        PROVE  /\ Some(s) \in S /\ s \ {Some(s)} \in Upto(n)
               /\ s \ {Some(s)} \in Upto(n + 1)
    <3>1. Some(s) \in s
      BY <2>2, SomeIsOne
    <3>2. Cardinality(s \ {Some(s)}) = Cardinality(s) - 1
      BY <1>1, <3>1, FS_RemoveElement
    <3>3. n \in Nat /\ Cardinality(s) \in Nat /\ Cardinality(s) <= n + 1
      BY <1>1
    <3>4. Cardinality(s \ {Some(s)}) <= n
      BY <3>2, <3>3
    <3>5. Cardinality(s \ {Some(s)}) <= n + 1
      BY <3>2, <3>3
    <3> QED BY <3>1, <3>4, <3>5
  <2>3. h \in [Upto(n + 1) -> Nat]
    BY <2>1, <2>2
  <2>4. \A s \in Upto(n) : s \in Upto(n + 1)
    BY <1>1
  <2>5. \A s \in Upto(n) : h[s] = g[s]
    BY <2>1, <2>4
  <2>6. \A s \in Upto(n + 1) :
            h[s] = IF s = {} THEN 0 ELSE f[Some(s)] + h[s \ {Some(s)}]
    BY <2>2, <2>5
  <2>7. Of(h, n + 1)
    BY <2>3, <2>6
  <2> HIDE DEF h, Of
  <2> QED BY <2>7
<1>4. N = Nat
  <2>1. N \in SUBSET Nat
    OBVIOUS
  <2> HIDE DEF N
  <2> QED BY <1>2, <1>3, <2>1, Induction
<1>5. PICK g : Of(g, Cardinality(S))
  BY <1>1, <1>4
<1>6. \A s \in SUBSET S : Cardinality(s) <= Cardinality(S)
  BY FS_Subset
<1>7. Upto(Cardinality(S)) = SUBSET S
  BY <1>6
<1>8. Sums(g, f, S)
  BY <1>5, <1>7 DEF Sums
<1> QED BY <1>8

LEMMA SumsAgree ==
    ASSUME NEW S, NEW T \in SUBSET S, IsFiniteSet(T), NEW f, NEW g, NEW h,
           Sums(g, f, S), Sums(h, f, T)
    PROVE  \A s \in SUBSET T : h[s] = g[s]
<1> DEFINE P == {s \in SUBSET T : h[s] = g[s]}
<1>1. \A s \in SUBSET S :
          g[s] = IF s = {} THEN 0 ELSE f[Some(s)] + g[s \ {Some(s)}]
  BY DEF Sums
<1>2. \A s \in SUBSET T :
          h[s] = IF s = {} THEN 0 ELSE f[Some(s)] + h[s \ {Some(s)}]
  BY DEF Sums
<1>3. {} \in P
  BY <1>1, <1>2
<1> SUFFICES ASSUME NEW U \in SUBSET T PROVE U \in P
  OBVIOUS
<1>4. IsFiniteSet(U)
  BY FS_Subset
<1>5. ASSUME NEW s \in SUBSET U, \A x \in s : s \ {x} \in P PROVE s \in P
  <2>1. CASE s = {}
    BY <1>3, <2>1
  <2>2. CASE s # {}
    <3>1. Some(s) \in s
      BY <2>2, SomeIsOne
    <3>2. /\ s \in SUBSET T /\ s \in SUBSET S
          /\ s \ {Some(s)} \in P
      BY <1>5, <3>1
    <3> QED BY <1>1, <1>2, <2>2, <3>2
  <2> QED BY <2>1, <2>2
<1> HIDE DEF P
<1> QED BY <1>4, <1>5, FiniteInduction

\* A sum is the sum of what is left with the element that was taken.
LEMMA SumTakes ==
    ASSUME NEW S, IsFiniteSet(S), NEW f, \A x \in S : f[x] \in Nat
    PROVE  /\ SumOver(f, {}) = 0
           /\ S # {} => SumOver(f, S)
                          = f[Some(S)] + SumOver(f, S \ {Some(S)})
<1>1. ASSUME NEW T \in SUBSET S PROVE Sums(CHOOSE g : Sums(g, f, T), f, T)
  <2>1. IsFiniteSet(T) /\ \A x \in T : f[x] \in Nat
    BY FS_Subset
  <2>2. \E g : Sums(g, f, T)
    BY <2>1, SumsExist
  <2> QED BY <2>2
<1> DEFINE g == CHOOSE h : Sums(h, f, S)
<1>2. Sums(g, f, S)
  BY <1>1
<1>3. ASSUME NEW T \in SUBSET S PROVE SumOver(f, T) = g[T]
  <2> DEFINE h == CHOOSE k : Sums(k, f, T)
  <2>1. Sums(h, f, T)
    BY <1>1
  <2>2. SumOver(f, T) = h[T]
    BY SumIsChosen
  <2>3. IsFiniteSet(T)
    BY FS_Subset
  <2> HIDE DEF g, h
  <2>4. \A s \in SUBSET T : h[s] = g[s]
    BY <1>2, <2>1, <2>3, SumsAgree
  <2> QED BY <2>2, <2>4
<1> HIDE DEF g
<1>4. \A s \in SUBSET S :
          g[s] = IF s = {} THEN 0 ELSE f[Some(s)] + g[s \ {Some(s)}]
  BY <1>2 DEF Sums
<1> QED BY <1>3, <1>4

LEMMA SumIsNat ==
    ASSUME NEW S, IsFiniteSet(S), NEW f, \A x \in S : f[x] \in Nat
    PROVE  SumOver(f, S) \in Nat
<1> DEFINE P == {T \in SUBSET S : SumOver(f, T) \in Nat}
<1>1. ASSUME NEW T \in SUBSET S, \A x \in T : T \ {x} \in P PROVE T \in P
  <2>1. IsFiniteSet(T) /\ \A x \in T : f[x] \in Nat
    BY FS_Subset
  <2>2. /\ SumOver(f, {}) = 0
        /\ T # {} => SumOver(f, T) = f[Some(T)] + SumOver(f, T \ {Some(T)})
    BY <2>1, SumTakes
  <2>3. CASE T = {}
    BY <2>2, <2>3
  <2>4. CASE T # {}
    BY <1>1, <2>1, <2>2, <2>4, SomeIsOne
  <2> QED BY <2>3, <2>4
<1> HIDE DEF P
<1>2. S \in P
  BY <1>1, FiniteInduction
<1> QED BY <1>2 DEF P

\* Any element can be taken.
LEMMA SumWithout ==
    ASSUME NEW S, IsFiniteSet(S), NEW f, \A x \in S : f[x] \in Nat
    PROVE  \A x \in S : SumOver(f, S) = f[x] + SumOver(f, S \ {x})
<1> DEFINE P == {T \in SUBSET S :
                    \A x \in T : SumOver(f, T) = f[x] + SumOver(f, T \ {x})}
<1>1. ASSUME NEW T \in SUBSET S, \A x \in T : T \ {x} \in P PROVE T \in P
  <2> SUFFICES ASSUME NEW x \in T
               PROVE  SumOver(f, T) = f[x] + SumOver(f, T \ {x})
    OBVIOUS
  <2> DEFINE y == Some(T)
  <2>1. IsFiniteSet(T) /\ \A z \in T : f[z] \in Nat
    BY FS_Subset
  <2>2. SumOver(f, T) = f[y] + SumOver(f, T \ {y})
    BY <2>1, SumTakes
  <2>3. y \in T
    BY SomeIsOne
  <2> HIDE DEF y
  <2>4. CASE x = y
    BY <2>2, <2>4
  <2>5. CASE x # y
    <3>1. SumOver(f, T \ {y}) = f[x] + SumOver(f, (T \ {y}) \ {x})
      BY <1>1, <2>3, <2>5
    <3>2. SumOver(f, T \ {x}) = f[y] + SumOver(f, (T \ {x}) \ {y})
      BY <1>1, <2>3, <2>5
    <3>3. (T \ {y}) \ {x} = (T \ {x}) \ {y}
      OBVIOUS
    <3>4. SumOver(f, (T \ {x}) \ {y}) \in Nat
      <4>1. /\ IsFiniteSet((T \ {x}) \ {y})
            /\ \A z \in (T \ {x}) \ {y} : f[z] \in Nat
        BY <2>1, FS_Subset
      <4> QED BY <4>1, SumIsNat
    <3>5. f[x] \in Nat /\ f[y] \in Nat
      BY <2>1, <2>3
    <3> QED BY <2>2, <3>1, <3>2, <3>3, <3>4, <3>5
  <2> QED BY <2>4, <2>5
<1> HIDE DEF P
<1>2. S \in P
  BY <1>1, FiniteInduction
<1> QED BY <1>2 DEF P

LEMMA SumOfZeros ==
    ASSUME NEW S, IsFiniteSet(S), NEW f, \A x \in S : f[x] = 0
    PROVE  SumOver(f, S) = 0
<1> DEFINE P == {T \in SUBSET S : SumOver(f, T) = 0}
<1>1. ASSUME NEW T \in SUBSET S, \A x \in T : T \ {x} \in P PROVE T \in P
  <2>1. IsFiniteSet(T) /\ \A x \in T : f[x] \in Nat
    BY FS_Subset
  <2>2. /\ SumOver(f, {}) = 0
        /\ T # {} => SumOver(f, T) = f[Some(T)] + SumOver(f, T \ {Some(T)})
    BY <2>1, SumTakes
  <2>3. CASE T = {}
    BY <2>2, <2>3
  <2>4. CASE T # {}
    <3>1. Some(T) \in T
      BY <2>4, SomeIsOne
    <3> QED BY <1>1, <2>2, <2>4, <3>1
  <2> QED BY <2>3, <2>4
<1> HIDE DEF P
<1>2. S \in P
  BY <1>1, FiniteInduction
<1> QED BY <1>2 DEF P

LEMMA SumOfParts ==
    ASSUME NEW S, IsFiniteSet(S), NEW f, \A x \in S : f[x] \in Nat,
           NEW A \in SUBSET S
    PROVE  SumOver(f, S) = SumOver(f, A) + SumOver(f, S \ A)
<1> DEFINE P == {B \in SUBSET A :
                    SumOver(f, S) = SumOver(f, B) + SumOver(f, S \ B)}
<1>1. \A T \in SUBSET S : IsFiniteSet(T) /\ SumOver(f, T) \in Nat
  BY FS_Subset, SumIsNat
<1>2. ASSUME NEW B \in SUBSET A, \A x \in B : B \ {x} \in P PROVE B \in P
  <2>1. CASE B = {}
    <3>1. SumOver(f, {}) = 0 /\ S \ {} = S /\ SumOver(f, S) \in Nat
      BY <1>1, SumTakes
    <3> QED BY <2>1, <3>1
  <2>2. CASE B # {}
    <3>1. PICK x \in B : TRUE
      BY <2>2
    <3>2. SumOver(f, S) = SumOver(f, B \ {x}) + SumOver(f, S \ (B \ {x}))
      BY <1>2, <3>1
    <3>3. SumOver(f, B) = f[x] + SumOver(f, B \ {x})
      BY <1>1, <3>1, SumWithout
    <3>4. SumOver(f, S \ (B \ {x})) = f[x] + SumOver(f, (S \ (B \ {x})) \ {x})
      <4>1. /\ x \in S \ (B \ {x}) /\ IsFiniteSet(S \ (B \ {x}))
            /\ \A y \in S \ (B \ {x}) : f[y] \in Nat
        BY <1>1, <3>1
      <4> QED BY <4>1, SumWithout
    <3>5. (S \ (B \ {x})) \ {x} = S \ B
      OBVIOUS
    <3>6. /\ f[x] \in Nat /\ SumOver(f, B \ {x}) \in Nat
          /\ SumOver(f, S \ B) \in Nat
      BY <1>1, <3>1
    <3> QED BY <3>2, <3>3, <3>4, <3>5, <3>6
  <2> QED BY <2>1, <2>2
<1> HIDE DEF P
<1>3. IsFiniteSet(A)
  BY <1>1
<1>4. A \in P
  BY <1>2, <1>3, FiniteInduction
<1> QED BY <1>4 DEF P

\* The sums by a key, with none for a key that no element has.
By(f, C, keyOf, K) == [k \in K |-> SumOver(f, {d \in C : keyOf[d] = k})]

\* What is added up by a key is all that there is.
LEMMA SumOfGroups ==
    ASSUME NEW K, IsFiniteSet(K), NEW C, IsFiniteSet(C), NEW keyOf, NEW f,
           \A d \in C : f[d] \in Nat /\ keyOf[d] \in K
    PROVE  SumOver(By(f, C, keyOf, K), K) = SumOver(f, C)
<1> DEFINE In(k) == {d \in C : keyOf[d] = k}
           Of(L) == {d \in C : keyOf[d] \in L}
           g == By(f, C, keyOf, K)
           P == {L \in SUBSET K : SumOver(g, L) = SumOver(f, Of(L))}
<1>1. \A T \in SUBSET C : /\ IsFiniteSet(T) /\ SumOver(f, T) \in Nat
                          /\ \A d \in T : f[d] \in Nat
  BY FS_Subset, SumIsNat
<1>2. \A k \in K : g[k] = SumOver(f, In(k)) /\ g[k] \in Nat
  BY <1>1 DEF By
<1> HIDE DEF g
<1>3. \A L \in SUBSET K : IsFiniteSet(L) /\ \A k \in L : g[k] \in Nat
  BY <1>2, FS_Subset
<1>4. ASSUME NEW L \in SUBSET K, \A k \in L : L \ {k} \in P PROVE L \in P
  <2>1. CASE L = {}
    <3>1. Of(L) = {}
      BY <2>1
    <3>2. SumOver(f, {}) = 0 /\ SumOver(g, {}) = 0
      BY <1>3, SumTakes
    <3> QED BY <2>1, <3>1, <3>2
  <2>2. CASE L # {}
    <3>1. PICK k \in L : TRUE
      BY <2>2
    <3>2. SumOver(g, L) = g[k] + SumOver(g, L \ {k})
      BY <1>3, <3>1, SumWithout
    <3>3. SumOver(g, L \ {k}) = SumOver(f, Of(L \ {k}))
      BY <1>4, <3>1
    <3>4. Of(L) \ In(k) = Of(L \ {k}) /\ In(k) \in SUBSET Of(L)
      BY <3>1
    <3>5. SumOver(f, Of(L)) = SumOver(f, In(k)) + SumOver(f, Of(L) \ In(k))
      <4>1. IsFiniteSet(Of(L)) /\ \A d \in Of(L) : f[d] \in Nat
        BY <1>1
      <4> HIDE DEF Of, In
      <4> QED BY <3>4, <4>1, SumOfParts
    <3>6. g[k] = SumOver(f, In(k))
      BY <1>2, <3>1
    <3> QED BY <3>2, <3>3, <3>4, <3>5, <3>6
  <2> QED BY <2>1, <2>2
<1> HIDE DEF P
<1>5. K \in P
  BY <1>4, FiniteInduction
<1>6. Of(K) = C
  OBVIOUS
<1> QED BY <1>5, <1>6 DEF P, g

-----------------------------------------------------------------------------
(* The calendar *)

LEMMA Constants ==
    /\ MonthsInYear \in Nat /\ MonthsInYear >= 2
    /\ MonthLength \in Nat /\ MonthLength >= 1
    /\ WeekLength \in Nat /\ WeekLength >= 2
    /\ LastDay \in Nat /\ Counts \subseteq Nat /\ NoRow \notin Nat
BY CalendarAssumption

LEMMA Division ==
    ASSUME NEW a \in Int, NEW n \in Nat, n >= 1
    PROVE  /\ a \div n \in Int /\ a % n \in 0..n - 1
           /\ a = (a \div n) * n + (a % n)
OBVIOUS

\* The multiple of n below a is its quotient's.
LEMMA Quotient ==
    ASSUME NEW a \in Int, NEW n \in Nat, n >= 1, NEW q \in Int
    PROVE  /\ q <= a \div n <=> q * n <= a
           /\ a \div n = q <=> q * n <= a /\ a < (q + 1) * n
<1> DEFINE p == a \div n
           r == a % n
<1>1. p \in Int /\ r \in 0..n - 1 /\ a = p * n + r
  BY Division
<1> HIDE DEF p, r
<1>2. q <= p => q * n <= p * n
  BY <1>1
<1>3. q + 1 <= p => (q + 1) * n <= p * n
  BY <1>1
<1>4. p + 1 <= q => (p + 1) * n <= q * n
  BY <1>1
<1>5. (p + 1) * n = p * n + n /\ q * n \in Int /\ p * n \in Int
  BY <1>1
<1>6. q <= p <=> q * n <= a
  BY <1>1, <1>2, <1>4, <1>5
<1>7. q + 1 <= p <=> (q + 1) * n <= a
  <2>1. p + 1 <= q + 1 => (p + 1) * n <= (q + 1) * n
    BY <1>1
  <2>2. (q + 1) * n \in Int
    OBVIOUS
  <2> QED BY <1>1, <1>3, <1>5, <2>1, <2>2
<1>8. p = q <=> q <= p /\ ~(q + 1 <= p)
  BY <1>1
<1>9. q * n \in Int /\ (q + 1) * n \in Int
  OBVIOUS
<1> QED BY <1>1, <1>6, <1>7, <1>8, <1>9 DEF p

\* Two numbers that are not a divisor apart have the same remainder only if
\* they are the same.
LEMMA Remainder ==
    ASSUME NEW a \in Int, NEW b \in Int, NEW n \in Nat, n >= 1,
           a - b < n, b - a < n, a % n = b % n
    PROVE  a = b
<1> DEFINE p == a \div n
           q == b \div n
           r == a % n
<1>1. /\ p \in Int /\ r \in 0..n - 1 /\ a = p * n + r
      /\ q \in Int /\ b = q * n + r
  BY Division
<1> HIDE DEF p, q, r
<1>2. p + 1 <= q => (p + 1) * n <= q * n
  BY <1>1
<1>3. q + 1 <= p => (q + 1) * n <= p * n
  BY <1>1
<1>4. /\ p * n \in Int /\ q * n \in Int
      /\ (p + 1) * n = p * n + n /\ (q + 1) * n = q * n + n
  BY <1>1
<1> QED BY <1>1, <1>2, <1>3, <1>4

\* The current year is at least the second.
IInv ==
    /\ today \in Nat /\ FirstDay <= today
    /\ rows \in [Day -> Counts \cup {NoRow}]

LEMMA FirstMonth ==
    /\ FirstDay = MonthsInYear * MonthLength
    /\ FirstDay \in Nat
<1>1. /\ (1 * MonthsInYear + 1) - 1 = MonthsInYear
      /\ MonthsInYear * MonthLength \in Nat
  BY Constants
<1>2. FirstDay = (1 * MonthsInYear + 1 - 1) * MonthLength
  BY DEF FirstDay, FirstOf
<1>3. 1 * MonthsInYear + 1 - 1 = MonthsInYear
  BY Constants
<1> QED BY <1>1, <1>2, <1>3

LEMMA Months ==
    ASSUME NEW d \in Int
    PROVE  /\ MonthIndex(d) \in Int /\ YearOf(d) \in Int
           /\ MonthOf(d) \in 1..MonthsInYear
           /\ MonthIndex(d) = YearOf(d) * MonthsInYear + MonthOf(d) - 1
           /\ FirstOf(YearOf(d), MonthOf(d)) = MonthIndex(d) * MonthLength
<1> DEFINE i == MonthIndex(d)
<1>1. i \in Int
  BY Constants DEF MonthIndex
<1> HIDE DEF i
<1>2. /\ i \div MonthsInYear \in Int /\ i % MonthsInYear \in 0..MonthsInYear - 1
      /\ i = (i \div MonthsInYear) * MonthsInYear + (i % MonthsInYear)
  BY <1>1, Constants, Division
<1>3. /\ YearOf(d) = i \div MonthsInYear
      /\ MonthOf(d) = (i % MonthsInYear) + 1
  BY DEF YearOf, MonthOf, i
<1>4. /\ YearOf(d) \in Int /\ MonthOf(d) \in 1..MonthsInYear
      /\ i = YearOf(d) * MonthsInYear + MonthOf(d) - 1
  BY <1>2, <1>3, Constants
<1> QED BY <1>1, <1>4 DEF i, FirstOf

\* Going back over n months.
LEMMA StartsBefore ==
    ASSUME NEW year \in Int, NEW month \in 1..MonthsInYear
    PROVE  /\ StartMonth(year, month)[1] \in Int
           /\ StartMonth(year, month)[2] \in 1..MonthsInYear
           /\ StartMonth(year, month)[1] * MonthsInYear
                + StartMonth(year, month)[2]
              = year * MonthsInYear + month - (MonthsInYear - 1)
<1> DEFINE V == Int \X (1..MonthsInYear)
           step == [s \in Int \X V |-> Before(s[2])]
           last == MonthsInYear - 1
           IsBack(f) == f = [n \in 0..last |->
               IF n = 0 THEN <<year, month>> ELSE Before(f[n - 1])]
           back == CHOOSE f : IsBack(f)
<1>1. last \in Nat /\ MonthsInYear \in Nat /\ MonthsInYear >= 2
  BY Constants
<1>2. ASSUME NEW ym \in V
      PROVE  /\ Before(ym) \in V
             /\ Before(ym)[1] * MonthsInYear + Before(ym)[2]
                  = ym[1] * MonthsInYear + ym[2] - 1
  <2>1. ym[1] \in Int /\ ym[2] \in 1..MonthsInYear
    OBVIOUS
  <2>2. CASE ym[2] = 1
    <3>1. Before(ym) = <<ym[1] - 1, MonthsInYear>>
      BY <2>2 DEF Before
    <3>2. (ym[1] - 1) * MonthsInYear = ym[1] * MonthsInYear - MonthsInYear
      BY <1>1, <2>1
    <3>3. ym[1] * MonthsInYear \in Int
      BY <1>1, <2>1
    <3> QED BY <1>1, <2>1, <2>2, <3>1, <3>2, <3>3
  <2>3. CASE ym[2] # 1
    <3>1. Before(ym) = <<ym[1], ym[2] - 1>>
      BY <2>3 DEF Before
    <3>2. ym[1] * MonthsInYear \in Int
      BY <1>1, <2>1
    <3> QED BY <1>1, <2>1, <2>3, <3>1, <3>2
  <2> QED BY <2>2, <2>3
<1>3. \E f : IsBack(f)
  <2>1. <<year, month>> \in V
    OBVIOUS
  <2>2. step \in [Int \X V -> V]
    BY <1>2
  <2>3. \A n \in Int, ym \in V : step[<<n, ym>>] = Before(ym)
    OBVIOUS
  <2> HIDE DEF step, V, last
  <2>4. 0 \in Int /\ last \in Int /\ 0 <= last
    BY <1>1
  <2>5. PICK f : Recurs(f, 0, last, V, <<year, month>>, step)
    BY <2>1, <2>2, <2>4, Recursion
  <2>6. \A n \in 0..last : n # 0 =>
            n \in 0 + 1..last /\ n \in Int /\ n - 1 \in 0..last
    BY <1>1
  <2>7. \A n \in 0..last : n # 0 => f[n] = Before(f[n - 1])
    BY <2>3, <2>5, <2>6 DEF Recurs
  <2>8. IsBack(f)
    BY <2>5, <2>7 DEF Recurs
  <2> QED BY <2>8
<1>4. IsBack(back)
  BY <1>3
<1>5. back = [n \in 0..last |->
          IF n = 0 THEN <<year, month>> ELSE Before(back[n - 1])]
  BY <1>4
<1>6. StartMonth(year, month) = back[last]
  BY DEF StartMonth
<1> HIDE DEF back, last
<1> DEFINE S == {n \in Int :
       n \in 0..last =>
          /\ back[n] \in V
          /\ back[n][1] * MonthsInYear + back[n][2]
               = year * MonthsInYear + month - n}
<1>7. 0 \in S
  <2>1. back[0] = <<year, month>>
    BY <1>1, <1>5
  <2> QED BY <1>1, <2>1
<1>8. ASSUME NEW n \in 0..last - 1, n \in S PROVE n + 1 \in S
  <2>1. n \in 0..last /\ n + 1 \in 0..last /\ n + 1 # 0 /\ (n + 1) - 1 = n
    BY <1>1
  <2>2. back[n + 1] = Before(back[n])
    BY <1>5, <2>1
  <2>3. back[n] \in V
    BY <1>8, <2>1
  <2>4. back[n][1] * MonthsInYear + back[n][2]
          = year * MonthsInYear + month - n
    BY <1>8, <2>1
  <2>5. year * MonthsInYear \in Int
    BY <1>1
  <2>6. /\ Before(back[n]) \in V
        /\ Before(back[n])[1] * MonthsInYear + Before(back[n])[2]
             = year * MonthsInYear + month - (n + 1)
    <3> HIDE DEF V
    <3>1. /\ Before(back[n]) \in V
          /\ Before(back[n])[1] * MonthsInYear + Before(back[n])[2]
               = back[n][1] * MonthsInYear + back[n][2] - 1
      BY <1>2, <2>3
    <3>2. /\ back[n][1] * MonthsInYear \in Int /\ back[n][2] \in Int
          /\ Before(back[n])[1] * MonthsInYear \in Int
          /\ Before(back[n])[2] \in Int
      BY <1>1, <2>3, <3>1 DEF V
    <3> QED BY <1>1, <2>1, <2>4, <2>5, <3>1, <3>2
  <2> HIDE DEF V
  <2> QED BY <2>1, <2>2, <2>6
<1>9. last \in S
  <2> HIDE DEF S
  <2>1. 0 \in Int /\ last \in Int /\ last \in 0..last
    BY <1>1
  <2>2. 0..last \subseteq S
    BY <1>7, <1>8, <2>1, IntervalInduction
  <2> QED BY <2>1, <2>2
<1>10. /\ back[last] \in V
       /\ back[last][1] * MonthsInYear + back[last][2]
            = year * MonthsInYear + month - last
  BY <1>1, <1>9
<1> QED BY <1>6, <1>10 DEF last

\* The current year's window begins with a month, eleven months before.
StartOfWindow == (MonthIndex(today) - (MonthsInYear - 1)) * MonthLength

LEMMA CurrentWindow ==
    ASSUME today \in Int
    PROVE  WindowBounds(YearOf(today)) = [start |-> StartOfWindow, end |-> today]
<1> DEFINE y == YearOf(today)
           m == MonthOf(today)
           first == StartMonth(y, m)
<1>1. /\ y \in Int /\ m \in 1..MonthsInYear /\ MonthsInYear \in Nat
      /\ MonthIndex(today) = y * MonthsInYear + m - 1
  BY Months, Constants
<1>2. WindowBounds(YearOf(today)) =
        [start |-> FirstOf(first[1], first[2]), end |-> today]
  BY DEF WindowBounds
<1> HIDE DEF y, m
<1>3. /\ first[1] \in Int /\ first[2] \in 1..MonthsInYear
      /\ first[1] * MonthsInYear + first[2]
           = y * MonthsInYear + m - (MonthsInYear - 1)
  BY <1>1, StartsBefore
<1> HIDE DEF first
<1>4. first[1] * MonthsInYear + first[2] - 1
        = MonthIndex(today) - (MonthsInYear - 1)
  <2>1. first[1] * MonthsInYear \in Int /\ y * MonthsInYear \in Int
    BY <1>1, <1>3
  <2>2. first[2] \in Int /\ m \in Int /\ MonthsInYear \in Int
    BY <1>1, <1>3
  <2>3. first[1] * MonthsInYear + first[2]
          = y * MonthsInYear + m - (MonthsInYear - 1)
    BY <1>3
  <2>4. MonthIndex(today) = y * MonthsInYear + m - 1
    BY <1>1
  <2> QED BY <2>1, <2>2, <2>3, <2>4
<1> QED BY <1>2, <1>4 DEF FirstOf, StartOfWindow

\* It has the months up to today's, and no day before the first.
LEMMA WindowDays ==
    ASSUME IInv
    PROVE  /\ StartOfWindow \in Nat /\ StartOfWindow <= today
           /\ Window(YearOf(today)) = StartOfWindow..today
           /\ MonthIndex(today) \in Int /\ MonthIndex(today) >= MonthsInYear
           /\ \A d \in Int : StartOfWindow <= d <=>
                  MonthIndex(today) - (MonthsInYear - 1) <= MonthIndex(d)
<1> DEFINE i == MonthIndex(today)
           n == MonthsInYear - 1
<1>1. /\ today \in Nat /\ MonthsInYear * MonthLength <= today
      /\ MonthsInYear \in Nat /\ n \in Nat
      /\ MonthLength \in Nat /\ MonthLength >= 1
  BY FirstMonth, Constants DEF IInv
<1>2. i \in Int
  BY <1>1, Months
<1>3. MonthsInYear <= i
  BY <1>1, Quotient DEF MonthIndex
<1>4. i * MonthLength <= today
  BY <1>1, <1>2, Quotient DEF MonthIndex
<1> HIDE DEF i
<1>5. i - n \in Int /\ i - n >= 0 /\ i - n <= i
  BY <1>1, <1>2, <1>3
<1>6. StartOfWindow = (i - n) * MonthLength
  BY DEF StartOfWindow, i
<1> HIDE DEF n
<1>7. StartOfWindow \in Nat /\ StartOfWindow <= i * MonthLength
  BY <1>1, <1>2, <1>5, <1>6
<1>8. i * MonthLength \in Int
  BY <1>1, <1>2
<1>9. \A d \in Int : StartOfWindow <= d <=> i - n <= MonthIndex(d)
  BY <1>1, <1>5, <1>6, Quotient DEF MonthIndex
<1>10. Window(YearOf(today)) = StartOfWindow..today
  BY <1>1, CurrentWindow DEF Window
<1> QED BY <1>1, <1>2, <1>3, <1>4, <1>7, <1>8, <1>9, <1>10 DEF i, n

\* Months in order of their days.
LEMMA MonthsInOrder ==
    ASSUME NEW d \in Int, NEW e \in Int, d <= e
    PROVE  MonthIndex(d) <= MonthIndex(e)
<1> DEFINE i == MonthIndex(d)
<1>1. i \in Int /\ MonthLength \in Nat /\ MonthLength >= 1
  BY Months, Constants
<1>2. i * MonthLength <= d
  BY <1>1, Quotient DEF MonthIndex
<1>3. i * MonthLength <= e
  <2> HIDE DEF i
  <2>1. i * MonthLength \in Int
    BY <1>1
  <2> QED BY <1>2, <2>1
<1> HIDE DEF i
<1>4. i <= e \div MonthLength
  BY <1>1, <1>3, Quotient
<1> QED BY <1>4 DEF i, MonthIndex

LEMMA TwelveMonthsOfWindow == IInv => TwelveMonths
<1> SUFFICES ASSUME IInv PROVE TwelveMonths
  OBVIOUS
<1> DEFINE window == Window(YearOf(today))
           n == MonthsInYear
           t == MonthIndex(today)
           y == YearOf(today)
           m0 == MonthOf(today)
<1>1. /\ today \in Nat /\ StartOfWindow \in Nat /\ StartOfWindow <= today
      /\ window = StartOfWindow..today
      /\ t \in Int /\ t >= n
      /\ \A d \in Int : StartOfWindow <= d <=> t - (n - 1) <= MonthIndex(d)
  BY WindowDays DEF IInv
<1>2. today \in window /\ today + 1 \notin window
  BY <1>1
<1>3. /\ n \in Nat /\ n >= 2 /\ y \in Int /\ m0 \in 1..n
      /\ t = y * n + m0 - 1
  BY <1>1, Months, Constants
<1>4. ASSUME NEW m \in 1..n
      PROVE  \E i \in {MonthIndex(d) : d \in window} :
                {d \in window : MonthOf(d) = m} =
                {d \in 0..today : MonthIndex(d) = i}
  \* The month m of this year or of the last.
  <2> DEFINE i == IF m <= m0 THEN y * n + m - 1 ELSE (y - 1) * n + m - 1
  <2> HIDE DEF window, t, y, m0, n
  <2>1. y * n \in Int /\ (y - 1) * n = y * n - n
    BY <1>3
  <2>2. i \in Int /\ i <= t /\ i >= t - (n - 1)
    BY <1>3, <2>1
  <2>3. i % n = m - 1
    <3>1. \A q \in Int : (q * n + (m - 1)) \div n = q
      <4> SUFFICES ASSUME NEW q \in Int
                   PROVE  (q * n + (m - 1)) \div n = q
        OBVIOUS
      <4>1. q * n \in Int /\ (q + 1) * n = q * n + n
        BY <1>3
      <4>2. q * n + (m - 1) \in Int
        BY <1>3, <4>1
      <4>3. q * n <= q * n + (m - 1) /\ q * n + (m - 1) < (q + 1) * n
        BY <1>3, <4>1
      <4>4. n \in Nat /\ n >= 1
        BY <1>3
      <4> QED BY <4>2, <4>3, <4>4, Quotient
    <3>2. \E q \in Int : i = q * n + (m - 1)
      <4>1. CASE m <= m0
        BY <1>3, <2>1, <4>1
      <4>2. CASE ~(m <= m0)
        BY <1>3, <2>1, <4>2
      <4> QED BY <4>1, <4>2
    <3>3. PICK q \in Int : i = q * n + (m - 1)
      BY <3>2
    <3>4. i \div n = q
      BY <3>1, <3>3
    <3>5. i = (i \div n) * n + (i % n) /\ i % n \in 0..n - 1
      BY <1>3, <2>2, Division
    <3> HIDE DEF i
    <3>6. q * n \in Int
      BY <1>3
    <3> QED BY <1>3, <3>3, <3>4, <3>5, <3>6
  <2> HIDE DEF i
  \* A day of the window is in month m if its month is i.
  <2>4. ASSUME NEW d \in window
        PROVE  /\ d \in 0..today /\ MonthIndex(d) \in Int
               /\ MonthOf(d) = m <=> MonthIndex(d) = i
    <3>1. d \in Int /\ d \in 0..today /\ StartOfWindow <= d
      BY <1>1
    <3>2. MonthIndex(d) \in Int /\ MonthIndex(d) <= t
      <4>1. today \in Int /\ d <= today
        BY <1>1, <3>1
      <4> QED BY <3>1, <4>1, Months, MonthsInOrder DEF t
    <3>3. MonthIndex(d) >= t - (n - 1)
      BY <1>1, <1>3, <3>1, <3>2
    <3>4. MonthOf(d) = (MonthIndex(d) % n) + 1
      BY DEF MonthOf, n
    <3>5. MonthIndex(d) % n \in Int
      BY <1>3, <3>2
    <3>6. MonthOf(d) = m <=> MonthIndex(d) % n = i % n
      BY <1>3, <2>3, <3>4, <3>5
    <3>7. MonthIndex(d) % n = i % n => MonthIndex(d) = i
      <4>1. MonthIndex(d) - i < n /\ i - MonthIndex(d) < n
        BY <1>1, <1>3, <2>2, <3>2, <3>3
      <4>2. n \in Nat /\ n >= 1
        BY <1>3
      <4> QED BY <2>2, <3>2, <4>1, <4>2, Remainder
    <3> QED BY <3>1, <3>2, <3>6, <3>7
  <2>5. ASSUME NEW d \in 0..today, MonthIndex(d) = i PROVE d \in window
    BY <1>1, <2>2, <2>5
  \* Its first day is in the window.
  <2>6. i * MonthLength \in window /\ MonthIndex(i * MonthLength) = i
    <3>1. MonthLength \in Nat /\ MonthLength >= 1
      BY Constants
    <3>2. i * MonthLength \in Int /\ (i + 1) * MonthLength = i * MonthLength + MonthLength
      BY <2>2, <3>1
    <3>3. MonthIndex(i * MonthLength) = i
      <4>1. (i * MonthLength) \div MonthLength = i
        BY <2>2, <3>1, <3>2, Quotient
      <4> QED BY <4>1 DEF MonthIndex
    <3>4. i * MonthLength <= today
      <4>1. i <= today \div MonthLength
        BY <2>2 DEF t, MonthIndex
      <4> QED BY <1>1, <2>2, <3>1, <4>1, Quotient
    <3>5. StartOfWindow <= i * MonthLength
      BY <1>1, <2>2, <3>2, <3>3
    <3> QED BY <1>1, <3>2, <3>3, <3>4, <3>5
  <2>7. {d \in window : MonthOf(d) = m} = {d \in 0..today : MonthIndex(d) = i}
    BY <2>4, <2>5
  <2> QED BY <2>6, <2>7
<1> QED BY <1>2, <1>4 DEF TwelveMonths

-----------------------------------------------------------------------------
(* Reachable states *)

THEOREM Invariance == Spec => []IInv
<1>1. Init => IInv
  <2> SUFFICES ASSUME Init PROVE IInv
    OBVIOUS
  <2>1. today = FirstDay /\ today \in Nat
    BY FirstMonth DEF Init
  <2> QED BY <2>1 DEF Init, IInv
<1>2. IInv /\ [Next]_vars => IInv'
  <2> SUFFICES ASSUME IInv, [Next]_vars PROVE IInv'
    OBVIOUS
  <2>1. FirstDay \in Nat /\ FirstDay' = FirstDay /\ Day' = Day
    BY FirstMonth DEF FirstDay, FirstOf, Day
  <2>2. CASE NextDay
    BY <2>1, <2>2 DEF NextDay, IInv
  <2>3. ASSUME NEW year \in Years, Refresh(year) PROVE IInv'
    <3>1. \/ \E counts \in [Window(year) -> Counts] :
                rows' = Aggregated(Window(year), counts)
          \/ rows' = Deleted(Window(year))
      BY <2>3 DEF Refresh
    <3>2. rows' \in [Day -> Counts \cup {NoRow}]
      BY <3>1 DEF Aggregated, Deleted, IInv
    <3> QED BY <2>1, <2>3, <3>2 DEF Refresh, IInv
  <2>4. CASE UNCHANGED vars
    BY <2>1, <2>4 DEF vars, IInv
  <2> QED BY <2>2, <2>3, <2>4 DEF Next
<1> QED BY <1>1, <1>2, PTL DEF Spec

\* Whatever the day, the current year's window has every month once.
THEOREM EveryMonthOnce == Spec => []TwelveMonths
BY Invariance, TwelveMonthsOfWindow, PTL

-----------------------------------------------------------------------------
(* Streaks: of the days a to b those in G have contributions *)

LEMMA MaxIs ==
    ASSUME NEW S \in SUBSET Int, NEW x \in S, \A y \in S : y <= x
    PROVE  Max(S) = x
<1>1. x \in S /\ \A y \in S : x >= y
  OBVIOUS
<1>2. \A z \in S : (\A y \in S : z >= y) => z = x
  BY <1>1
<1>3. /\ Max(S) \in S
      /\ \A y \in S : Max(S) >= y
  BY <1>1 DEF Max
<1> QED BY <1>2, <1>3

\* The run of days of G that ends with a day.
RunsOn(run, a, b, G) ==
    /\ run \in [a - 1..b -> Nat] /\ run[a - 1] = 0
    /\ \A d \in a..b : run[d] = IF d \in G THEN run[d - 1] + 1 ELSE 0

LEMMA RunsBack ==
    ASSUME NEW a \in Int, NEW b \in Int, a <= b, NEW G, NEW run,
           RunsOn(run, a, b, G)
    PROVE  \A d \in a - 1..b :
               /\ run[d] \in 0..d - a + 1
               /\ d - run[d] + 1..d \subseteq G
               /\ d - run[d] >= a => d - run[d] \notin G
<1> DEFINE Good(d) ==
               /\ run[d] \in 0..d - a + 1
               /\ d - run[d] + 1..d \subseteq G
               /\ d - run[d] >= a => d - run[d] \notin G
           S == {d \in Int : d \in a - 1..b => Good(d)}
<1>1. a - 1 \in S
  BY DEF RunsOn
<1>2. ASSUME NEW d \in a - 1..b - 1, d \in S PROVE d + 1 \in S
  <2>1. /\ d \in Int /\ d \in a - 1..b /\ d + 1 \in a..b
        /\ (d + 1) - 1 = d /\ d + 1 \in a - 1..b
    OBVIOUS
  <2>2. Good(d)
    BY <1>2, <2>1
  <2>3. run[d + 1] = IF d + 1 \in G THEN run[d] + 1 ELSE 0
    BY <2>1 DEF RunsOn
  <2>4. CASE d + 1 \in G
    <3>1. run[d + 1] = run[d] + 1 /\ run[d] \in Int
      BY <2>2, <2>3, <2>4
    <3>2. (d + 1) - run[d + 1] = d - run[d]
      BY <3>1
    <3>3. ASSUME NEW e \in d - run[d] + 1..d + 1 PROVE e \in G
      BY <2>2, <2>4, <3>1
    <3>4. run[d + 1] \in 0..(d + 1) - a + 1
      BY <2>2, <3>1
    <3>5. Good(d + 1)
      BY <2>2, <3>2, <3>3, <3>4
    <3> QED BY <2>1, <3>5
  <2>5. CASE d + 1 \notin G
    <3>1. run[d + 1] = 0
      BY <2>3, <2>5
    <3>2. Good(d + 1)
      BY <2>1, <2>5, <3>1
    <3> QED BY <2>1, <3>2
  <2> QED BY <2>4, <2>5
<1>3. a - 1..b \subseteq S
  <2>1. a - 1 \in Int
    OBVIOUS
  <2> HIDE DEF S
  <2> QED BY <1>1, <1>2, <2>1, IntervalInduction
<1> QED BY <1>3

\* It is the longest that ends there.
LEMMA RunIsLongest ==
    ASSUME NEW a \in Int, NEW b \in Int, a <= b, NEW G, NEW run,
           RunsOn(run, a, b, G), NEW d \in a..b
    PROVE  /\ run[d] \in 0..d - a + 1
           /\ \A e \in a..d : e..d \subseteq G <=> d - e + 1 <= run[d]
<1>1. /\ run[d] \in 0..d - a + 1
      /\ d - run[d] + 1..d \subseteq G
      /\ d - run[d] >= a => d - run[d] \notin G
  <2>1. d \in a - 1..b
    OBVIOUS
  <2> QED BY <2>1, RunsBack
<1>2. ASSUME NEW e \in a..d, d - e + 1 <= run[d] PROVE e..d \subseteq G
  BY <1>1, <1>2
<1>3. ASSUME NEW e \in a..d, e..d \subseteq G PROVE d - e + 1 <= run[d]
  <2> SUFFICES ASSUME ~(d - e + 1 <= run[d]) PROVE FALSE
    OBVIOUS
  <2>1. d - run[d] \in e..d /\ d - run[d] >= a
    BY <1>1
  <2> QED BY <1>1, <1>3, <2>1
<1> QED BY <1>1, <1>2, <1>3

\* The windows that are looked at are not empty.
LEMMA WindowBound ==
    ASSUME IInv, NEW year \in Years
    PROVE  /\ WindowBounds(year).start \in Int /\ WindowBounds(year).end \in Int
           /\ WindowBounds(year).start <= WindowBounds(year).end
<1>1. CASE year = YearOf(today)
  <2>1. today \in Nat /\ StartOfWindow \in Nat /\ StartOfWindow <= today
    BY WindowDays DEF IInv
  <2> QED BY <1>1, <2>1, CurrentWindow
<1>2. CASE year # YearOf(today)
  <2>1. /\ YearOf(today) \in Int /\ MonthsInYear \in Nat /\ MonthsInYear >= 2
        /\ MonthLength \in Nat /\ MonthLength >= 1
    BY Months, Constants DEF IInv
  <2>2. year \in Int /\ year * MonthsInYear \in Int
    BY <1>2, <2>1 DEF Years
  <2>3. /\ FirstOf(year, 1) = (year * MonthsInYear) * MonthLength
        /\ FirstOf(year + 1, 1)
             = (year * MonthsInYear + MonthsInYear) * MonthLength
    <3>1. /\ year * MonthsInYear + 1 - 1 = year * MonthsInYear
          /\ (year + 1) * MonthsInYear + 1 - 1
               = year * MonthsInYear + MonthsInYear
      BY <2>1, <2>2
    <3> QED BY <3>1 DEF FirstOf
  <2> DEFINE m == year * MonthsInYear
  <2>4. /\ m * MonthLength \in Int
        /\ (m + MonthsInYear) * MonthLength
             = m * MonthLength + MonthsInYear * MonthLength
        /\ MonthsInYear * MonthLength \in Int /\ MonthsInYear * MonthLength >= 1
    <3> HIDE DEF m
    <3>1. m \in Int
      BY <2>2 DEF m
    <3> QED BY <2>1, <3>1
  <2>5. WindowBounds(year) =
          [start |-> FirstOf(year, 1), end |-> FirstOf(year + 1, 1) - 1]
    BY <1>2 DEF WindowBounds
  <2> HIDE DEF m
  <2>6. /\ FirstOf(year, 1) = m * MonthLength
        /\ FirstOf(year + 1, 1)
             = m * MonthLength + MonthsInYear * MonthLength
    BY <2>3, <2>4 DEF m
  <2> QED BY <2>4, <2>5, <2>6
<1> QED BY <1>1, <1>2

\* The days with contributions.
Good(year) == {d \in Int : Count(year, d) > 0}

LEMMA CountType ==
    ASSUME IInv, NEW year, NEW d \in Int
    PROVE  /\ Count(year, d) \in Nat
           /\ d \in Good(year) <=> Count(year, d) # 0
<1>1. d \in RowsForYear(year) => rows[d] \in Nat
  BY Constants DEF IInv, RowsForYear
<1>2. Count(year, d) \in Nat
  BY <1>1 DEF Count
<1> QED BY <1>2 DEF Good

LEMMA CurrentIsRun ==
    ASSUME IInv, NEW year, NEW a, NEW b,
           a = WindowBounds(year).start, b = WindowBounds(year).end,
           a \in Int, b \in Int, a <= b
    PROVE  \E run : RunsOn(run, a, b, Good(year)) /\ CurrentStreak(year) = run[b]
<1> DEFINE step == [s \in Int \X Nat |->
                       IF Count(year, s[1]) = 0 THEN 0 ELSE 1 + s[2]]
           IsBack(f) == f = [d \in a - 1..b |->
               IF d < a \/ Count(year, d) = 0 THEN 0 ELSE 1 + f[d - 1]]
           back == CHOOSE f : IsBack(f)
<1>1. \A n \in Int, k \in Nat :
          step[<<n, k>>] = IF Count(year, n) = 0 THEN 0 ELSE 1 + k
  OBVIOUS
<1>2. step \in [Int \X Nat -> Nat]
  OBVIOUS
<1>3. \E f : IsBack(f)
  <2> HIDE DEF step
  <2>1. a - 1 \in Int /\ a - 1 <= b /\ 0 \in Nat
    OBVIOUS
  <2>2. PICK f : Recurs(f, a - 1, b, Nat, 0, step)
    BY <1>2, <2>1, Recursion
  <2>3. /\ f \in [a - 1..b -> Nat] /\ f[a - 1] = 0
        /\ \A n \in a..b : f[n] = step[<<n, f[n - 1]>>]
    <3>1. (a - 1) + 1 = a
      OBVIOUS
    <3> QED BY <2>2, <3>1 DEF Recurs
  <2>4. \A n \in a..b : n \in Int /\ n - 1 \in a - 1..b
    OBVIOUS
  <2>5. \A n \in a..b :
            f[n] = IF Count(year, n) = 0 THEN 0 ELSE 1 + f[n - 1]
    <3>1. \A n \in a..b : f[n - 1] \in Nat
      BY <2>3, <2>4
    <3> QED BY <1>1, <2>3, <2>4, <3>1
  <2>6. \A n \in a - 1..b : n < a => n = a - 1
    OBVIOUS
  <2>7. \A n \in a - 1..b : ~(n < a) => n \in a..b
    OBVIOUS
  <2>8. \A n \in a - 1..b :
            f[n] = IF n < a \/ Count(year, n) = 0 THEN 0 ELSE 1 + f[n - 1]
    BY <2>3, <2>5, <2>6, <2>7
  <2>9. IsBack(f)
    BY <2>3, <2>8
  <2> QED BY <2>9
<1>4. IsBack(back)
  BY <1>3
<1>5. CurrentStreak(year) = back[b]
  BY DEF CurrentStreak
<1> HIDE DEF back
<1>6. DOMAIN back = a - 1..b /\ back = [d \in a - 1..b |-> back[d]]
  BY <1>4
<1>7. \A d \in a - 1..b :
          back[d] = IF d < a \/ Count(year, d) = 0 THEN 0 ELSE 1 + back[d - 1]
  BY <1>4
<1>8. back[a - 1] = 0
  BY <1>7
<1>9. \A d \in a..b : /\ d \in Int /\ d \in a - 1..b /\ ~(d < a)
                      /\ d - 1 \in a - 1..b
  OBVIOUS
<1>10. ASSUME NEW d \in a - 1..b PROVE back[d] \in Nat
  <2> DEFINE S == {n \in Int : n \in a - 1..b => back[n] \in Nat}
  <2>1. a - 1 \in S
    BY <1>8
  <2>2. ASSUME NEW n \in a - 1..b - 1, n \in S PROVE n + 1 \in S
    <3>1. n \in a - 1..b /\ n + 1 \in a - 1..b /\ (n + 1) - 1 = n
      OBVIOUS
    <3>2. back[n] \in Nat
      BY <2>2, <3>1
    <3> QED BY <1>7, <3>1, <3>2
  <2>3. a - 1 \in Int
    OBVIOUS
  <2> HIDE DEF S
  <2>4. a - 1..b \subseteq S
    BY <2>1, <2>2, <2>3, IntervalInduction
  <2> QED BY <2>4 DEF S
<1>11. \A d \in a..b :
           back[d] = IF d \in Good(year) THEN back[d - 1] + 1 ELSE 0
  <2> SUFFICES ASSUME NEW d \in a..b
               PROVE  back[d] = IF d \in Good(year) THEN back[d - 1] + 1 ELSE 0
    OBVIOUS
  <2>1. d \in Good(year) <=> Count(year, d) # 0
    BY <1>9, CountType
  <2>2. back[d - 1] \in Nat
    BY <1>9, <1>10
  <2> QED BY <1>7, <1>9, <2>1, <2>2
<1>12. RunsOn(back, a, b, Good(year))
  BY <1>6, <1>8, <1>10, <1>11 DEF RunsOn
<1> QED BY <1>5, <1>12

\* The longest run up to a day.
LongestOn(longest, run, a, b) ==
    /\ longest \in [a - 1..b -> Nat] /\ longest[a - 1] = 0
    /\ \A d \in a..b :
          longest[d] = IF run[d] > longest[d - 1] THEN run[d]
                       ELSE longest[d - 1]

LEMMA LongestIsRun ==
    ASSUME IInv, NEW year, NEW a, NEW b,
           a = WindowBounds(year).start, b = WindowBounds(year).end,
           a \in Int, b \in Int, a <= b
    PROVE  \E run, longest :
               /\ RunsOn(run, a, b, Good(year))
               /\ LongestOn(longest, run, a, b)
               /\ LongestStreak(year) = longest[b]
<1> DEFINE V == [run : Nat, longest : Nat]
           v == [run |-> 0, longest |-> 0]
           Run1(d, k) == IF Count(year, d) > 0 THEN k.run + 1 ELSE 0
           To(d, k) == [run |-> Run1(d, k),
                        longest |-> IF Run1(d, k) > k.longest THEN Run1(d, k)
                                    ELSE k.longest]
           step == [s \in Int \X V |-> To(s[1], s[2])]
           IsScan(f) == f = [d \in a - 1..b |->
               IF d < a THEN v ELSE To(d, f[d - 1])]
           scan == CHOOSE f : IsScan(f)
<1>1. \A d \in Int, k \in V : step[<<d, k>>] = To(d, k)
  <2> HIDE DEF To
  <2> QED OBVIOUS
<1>2. \A d \in Int, k \in V : To(d, k) \in V
  OBVIOUS
<1>3. step \in [Int \X V -> V]
  <2> HIDE DEF To, V
  <2> QED BY <1>2
<1>4. v \in V
  OBVIOUS
<1> HIDE DEF V, v, To, step
<1>5. \E f : IsScan(f)
  <2>1. a - 1 \in Int /\ a - 1 <= b
    OBVIOUS
  <2>2. PICK f : Recurs(f, a - 1, b, V, v, step)
    BY <1>3, <1>4, <2>1, Recursion
  <2>3. /\ f \in [a - 1..b -> V] /\ f[a - 1] = v
        /\ \A n \in a..b : f[n] = step[<<n, f[n - 1]>>]
    <3>1. (a - 1) + 1 = a
      OBVIOUS
    <3> QED BY <2>2, <3>1 DEF Recurs
  <2>4. \A n \in a..b : n \in Int /\ n - 1 \in a - 1..b
    OBVIOUS
  <2>5. \A n \in a..b : f[n] = To(n, f[n - 1])
    <3>1. \A n \in a..b : f[n - 1] \in V
      BY <2>3, <2>4
    <3> QED BY <1>1, <2>3, <2>4, <3>1
  <2>6. \A n \in a - 1..b : (n < a => n = a - 1) /\ (~(n < a) => n \in a..b)
    OBVIOUS
  <2>7. \A n \in a - 1..b : f[n] = IF n < a THEN v ELSE To(n, f[n - 1])
    BY <2>3, <2>5, <2>6
  <2>8. IsScan(f)
    BY <2>3, <2>7
  <2> QED BY <2>8
<1>6. IsScan(scan)
  BY <1>5
<1>7. LongestStreak(year) = scan[b].longest
  BY DEF LongestStreak, To, v
<1> HIDE DEF scan
<1>8. \A d \in a - 1..b : scan[d] = IF d < a THEN v ELSE To(d, scan[d - 1])
  BY <1>6
<1>9. scan[a - 1] = v
  BY <1>8
<1>10. \A d \in a..b : d \in a - 1..b /\ ~(d < a) /\ d - 1 \in a - 1..b /\ d \in Int
  OBVIOUS
<1>11. ASSUME NEW d \in a - 1..b PROVE scan[d] \in V
  <2> DEFINE S == {n \in Int : n \in a - 1..b => scan[n] \in V}
  <2>1. a - 1 \in S
    BY <1>4, <1>9
  <2>2. ASSUME NEW n \in a - 1..b - 1, n \in S PROVE n + 1 \in S
    <3>1. n \in a - 1..b /\ n + 1 \in a - 1..b /\ (n + 1) - 1 = n
          /\ ~(n + 1 < a) /\ n + 1 \in Int
      OBVIOUS
    <3>2. scan[n] \in V
      BY <2>2, <3>1
    <3>3. scan[n + 1] = To(n + 1, scan[n])
      BY <1>8, <3>1
    <3> QED BY <1>2, <3>1, <3>2, <3>3
  <2>3. a - 1 \in Int
    OBVIOUS
  <2> HIDE DEF S
  <2>4. a - 1..b \subseteq S
    BY <2>1, <2>2, <2>3, IntervalInduction
  <2> QED BY <2>4 DEF S
<1> DEFINE run == [d \in a - 1..b |-> scan[d].run]
           longest == [d \in a - 1..b |-> scan[d].longest]
<1>12. ASSUME NEW d \in a..b
       PROVE  /\ run[d] = IF d \in Good(year) THEN run[d - 1] + 1 ELSE 0
              /\ longest[d] = IF run[d] > longest[d - 1] THEN run[d]
                              ELSE longest[d - 1]
  <2>1. scan[d] = To(d, scan[d - 1])
    BY <1>8, <1>10
  <2>2. d \in Good(year) <=> Count(year, d) > 0
    BY <1>10 DEF Good
  <2> QED BY <1>10, <2>1, <2>2 DEF To
<1>13. /\ run \in [a - 1..b -> Nat] /\ longest \in [a - 1..b -> Nat]
       /\ run[a - 1] = 0 /\ longest[a - 1] = 0
  BY <1>9, <1>11 DEF V, v
<1>14. LongestStreak(year) = longest[b]
  BY <1>7
<1> HIDE DEF run, longest
<1>15. RunsOn(run, a, b, Good(year)) /\ LongestOn(longest, run, a, b)
  BY <1>12, <1>13 DEF RunsOn, LongestOn
<1> QED BY <1>14, <1>15

\* The longest run up to a day is one, and none is longer.
LEMMA LongestIsLongest ==
    ASSUME NEW a \in Int, NEW b \in Int, a <= b, NEW G, NEW run, NEW longest,
           RunsOn(run, a, b, G), LongestOn(longest, run, a, b)
    PROVE  /\ longest[b] = 0 \/ \E d \in a..b : longest[b] = run[d]
           /\ \A d \in a..b : run[d] <= longest[b]
<1> DEFINE Good1(n) ==
               /\ longest[n] = 0 \/ \E d \in a..n : longest[n] = run[d]
               /\ \A d \in a..n : run[d] <= longest[n]
           S == {n \in Int : n \in a - 1..b => Good1(n)}
<1>1. a - 1 \in S
  BY DEF LongestOn
<1>2. ASSUME NEW n \in a - 1..b - 1, n \in S PROVE n + 1 \in S
  <2>1. /\ n \in a - 1..b /\ n + 1 \in a..b /\ (n + 1) - 1 = n
        /\ n + 1 \in a - 1..b
    OBVIOUS
  <2>2. Good1(n)
    BY <1>2, <2>1
  <2>3. longest[n + 1] = IF run[n + 1] > longest[n] THEN run[n + 1]
                         ELSE longest[n]
    BY <2>1 DEF LongestOn
  <2>4. longest[n] \in Nat /\ \A d \in a..b : run[d] \in Nat
    BY <2>1 DEF LongestOn, RunsOn
  <2>5. \A d \in a..n + 1 : d = n + 1 \/ d \in a..n
    OBVIOUS
  <2>6. \A d \in a..n : d \in a..n + 1 /\ d \in a..b
    OBVIOUS
  <2>7. n + 1 \in a..n + 1
    BY <2>1
  <2>8. \A d \in a..n + 1 : run[d] <= longest[n + 1]
    BY <2>1, <2>2, <2>3, <2>4, <2>5, <2>6
  <2>9. longest[n + 1] = 0 \/ \E d \in a..n + 1 : longest[n + 1] = run[d]
    BY <2>2, <2>3, <2>6, <2>7
  <2> QED BY <2>8, <2>9
<1>3. a - 1..b \subseteq S
  <2>1. a - 1 \in Int
    OBVIOUS
  <2> HIDE DEF S
  <2> QED BY <1>1, <1>2, <2>1, IntervalInduction
<1>4. b \in S /\ b \in a - 1..b
  <2>1. b \in a - 1..b
    OBVIOUS
  <2> QED BY <1>3, <2>1
<1> QED BY <1>4

LEMMA StreaksOfYear ==
    ASSUME IInv, NEW year \in Years
    PROVE  LET window == Window(year)
               runs == {d \in window \X window :
                           d[1] <= d[2] /\ Run(year, d[1], d[2])}
               lengths == {d[2] - d[1] + 1 : d \in runs}
               ending == {d[2] - d[1] + 1 :
                           d \in {d \in runs : d[2] = Max(window)}}
           IN  /\ LongestStreak(year) = Max({0} \cup lengths)
               /\ CurrentStreak(year) = Max({0} \cup ending)
<1> DEFINE window == Window(year)
           runs == {d \in window \X window :
                       d[1] <= d[2] /\ Run(year, d[1], d[2])}
           lengths == {d[2] - d[1] + 1 : d \in runs}
           ending == {d[2] - d[1] + 1 : d \in {d \in runs : d[2] = Max(window)}}
           a == WindowBounds(year).start
           b == WindowBounds(year).end
           G == Good(year)
<1>1. a \in Int /\ b \in Int /\ a <= b
  BY WindowBound
<1>2. window = a..b
  BY DEF Window
<1>3. PICK run : RunsOn(run, a, b, G) /\ CurrentStreak(year) = run[b]
  BY <1>1, CurrentIsRun
<1>4. PICK r, longest :
          /\ RunsOn(r, a, b, G) /\ LongestOn(longest, r, a, b)
          /\ LongestStreak(year) = longest[b]
  BY <1>1, LongestIsRun
<1>5. \A x \in Int, y \in Int : Run(year, x, y) <=> x..y \subseteq G
  BY DEF Run, Good
<1> HIDE DEF a, b, G
<1>6. Max(window) = b
  <2>1. a..b \in SUBSET Int /\ b \in a..b /\ \A y \in a..b : y <= b
    BY <1>1
  <2> QED BY <1>2, <2>1, MaxIs
<1> HIDE DEF window
<1>7. \A d : d \in runs <=>
          \E x, y \in a..b :
              d = <<x, y>> /\ x <= y /\ x..y \subseteq G
  <2>1. ASSUME NEW x \in a..b, NEW y \in a..b, x <= y, x..y \subseteq G
        PROVE  <<x, y>> \in runs
    BY <1>1, <1>2, <1>5, <2>1
  <2>2. ASSUME NEW d \in runs
        PROVE  \E x, y \in a..b :
              d = <<x, y>> /\ x <= y /\ x..y \subseteq G
    <3>1. /\ d \in (a..b) \X (a..b) /\ d[1] <= d[2]
          /\ Run(year, d[1], d[2])
      BY <1>2
    <3>2. /\ d[1] \in a..b /\ d[2] \in a..b /\ d = <<d[1], d[2]>>
          /\ d[1] \in Int /\ d[2] \in Int
      BY <1>1, <3>1
    <3> QED BY <1>5, <3>1, <3>2
  <2> QED BY <2>1, <2>2
<1> HIDE DEF runs
<1>8. \A n : n \in lengths <=>
          \E x, y \in a..b :
              n = y - x + 1 /\ x <= y /\ x..y \subseteq G
  <2>1. ASSUME NEW x \in a..b, NEW y \in a..b, x <= y, x..y \subseteq G
        PROVE  y - x + 1 \in lengths
    <3>1. <<x, y>> \in runs
      BY <1>7, <2>1
    <3>2. <<x, y>>[1] = x /\ <<x, y>>[2] = y
      OBVIOUS
    <3> QED BY <3>1, <3>2
  <2>2. ASSUME NEW n \in lengths
        PROVE  \E x, y \in a..b :
                   n = y - x + 1 /\ x <= y /\ x..y \subseteq G
    <3>1. PICK d \in runs : n = d[2] - d[1] + 1
      OBVIOUS
    <3> QED BY <1>7, <3>1
  <2> QED BY <2>1, <2>2
<1>9. \A n : n \in ending <=>
          \E x \in a..b : n = b - x + 1 /\ x..b \subseteq G
  <2>1. ASSUME NEW x \in a..b, x..b \subseteq G PROVE b - x + 1 \in ending
    <3>1. b \in a..b /\ x <= b
      BY <1>1
    <3>2. <<x, b>> \in runs
      BY <1>7, <2>1, <3>1
    <3> QED BY <1>6, <3>2
  <2>2. ASSUME NEW n \in ending
        PROVE  \E x \in a..b : n = b - x + 1 /\ x..b \subseteq G
    <3>1. PICK d \in runs : d[2] = b /\ n = d[2] - d[1] + 1
      BY <1>6
    <3> QED BY <1>7, <3>1
  <2> QED BY <2>1, <2>2
<1> HIDE DEF lengths, ending
<1>10. LongestStreak(year) = Max({0} \cup lengths)
  <2>1. \A d \in a..b : /\ r[d] \in 0..d - a + 1
                        /\ \A e \in a..d : e..d \subseteq G <=> d - e + 1 <= r[d]
    BY <1>1, <1>4, RunIsLongest
  <2>2. /\ longest[b] = 0 \/ \E d \in a..b : longest[b] = r[d]
        /\ \A d \in a..b : r[d] <= longest[b]
        /\ longest[b] \in Nat
    <3>1. b \in a - 1..b
      BY <1>1
    <3>2. longest[b] \in Nat
      BY <1>4, <3>1 DEF LongestOn
    <3> QED BY <1>1, <1>4, <3>2, LongestIsLongest
  <2>3. longest[b] \in {0} \cup lengths
    <3> SUFFICES ASSUME longest[b] # 0 PROVE longest[b] \in lengths
      OBVIOUS
    <3>1. PICK d \in a..b : longest[b] = r[d]
      BY <2>2
    <3> DEFINE e == d - r[d] + 1
    <3>2. r[d] \in 0..d - a + 1 /\ r[d] # 0
      BY <2>1, <3>1
    <3>3. /\ e \in a..b /\ e \in a..d /\ e <= d
          /\ d - e + 1 = r[d]
      BY <1>1, <3>2
    <3>4. e..d \subseteq G
      BY <1>1, <2>1, <3>2, <3>3
    <3> HIDE DEF e
    <3> QED BY <1>8, <3>1, <3>3, <3>4
  <2>4. ASSUME NEW n \in lengths PROVE n \in Int /\ n <= longest[b]
    <3>1. PICK x, y \in a..b :
              n = y - x + 1 /\ x <= y /\ x..y \subseteq G
      BY <1>8
    <3>2. /\ y \in a..b /\ x \in a..y /\ x \in Int /\ y \in Int
          /\ y - x + 1 \in Int
      BY <1>1, <3>1
    <3>3. y - x + 1 <= r[y] /\ r[y] \in Int /\ r[y] <= longest[b]
      BY <2>1, <2>2, <3>1, <3>2
    <3> QED BY <2>2, <3>1, <3>2, <3>3
  <2>5. /\ {0} \cup lengths \in SUBSET Int
        /\ \A n \in {0} \cup lengths : n <= longest[b]
    BY <2>2, <2>4
  <2>6. Max({0} \cup lengths) = longest[b]
    BY <2>3, <2>5, MaxIs
  <2> QED BY <1>4, <2>6
<1>11. CurrentStreak(year) = Max({0} \cup ending)
  <2>1. /\ b \in a..b
        /\ run[b] \in 0..b - a + 1
        /\ \A e \in a..b : e..b \subseteq G <=> b - e + 1 <= run[b]
    <3>1. b \in a..b
      BY <1>1
    <3> QED BY <1>1, <1>3, <3>1, RunIsLongest
  <2>2. run[b] \in {0} \cup ending
    <3> SUFFICES ASSUME run[b] # 0 PROVE run[b] \in ending
      OBVIOUS
    <3> DEFINE e == b - run[b] + 1
    <3>1. e \in a..b /\ b - e + 1 = run[b]
      BY <1>1, <2>1
    <3>2. e..b \subseteq G
      BY <1>1, <2>1, <3>1
    <3> HIDE DEF e
    <3> QED BY <1>9, <3>1, <3>2
  <2>3. ASSUME NEW n \in ending PROVE n \in Int /\ n <= run[b]
    <3>1. PICK x \in a..b : n = b - x + 1 /\ x..b \subseteq G
      BY <1>9
    <3> QED BY <1>1, <2>1, <3>1
  <2>4. /\ {0} \cup ending \in SUBSET Int
        /\ \A n \in {0} \cup ending : n <= run[b]
    BY <2>1, <2>3
  <2>5. Max({0} \cup ending) = run[b]
    BY <2>2, <2>4, MaxIs
  <2> QED BY <1>3, <2>5
<1> QED BY <1>10, <1>11 DEF window, runs, lengths, ending

\* What get_streaks computes in one pass over a window are the streaks, in
\* every state, for the year that is going on and for the one before.
THEOREM StreaksAreRight == Spec => []StreaksRight
<1>1. IInv => StreaksRight
  BY StreaksOfYear DEF StreaksRight
<1> QED BY <1>1, Invariance, PTL

-----------------------------------------------------------------------------
(* Totals *)

LEMMA MostOf ==
    ASSUME NEW K, IsFiniteSet(K), K # {}, NEW g, \A k \in K : g[k] \in Nat
    PROVE  \E k \in K : \A j \in K : g[j] <= g[k]
<1> DEFINE P == {L \in SUBSET K :
                    L # {} => \E k \in L : \A j \in L : g[j] <= g[k]}
<1>1. ASSUME NEW L \in SUBSET K, \A k \in L : L \ {k} \in P PROVE L \in P
  <2> SUFFICES ASSUME L # {} PROVE \E k \in L : \A j \in L : g[j] <= g[k]
    OBVIOUS
  <2>1. PICK k \in L : TRUE
    OBVIOUS
  <2>2. CASE L \ {k} = {}
    <3>1. L = {k} /\ g[k] \in Nat
      BY <2>1, <2>2
    <3> QED BY <3>1
  <2>3. CASE L \ {k} # {}
    <3>1. PICK m \in L \ {k} : \A j \in L \ {k} : g[j] <= g[m]
      BY <1>1, <2>1, <2>3
    <3>2. g[k] \in Nat /\ g[m] \in Nat /\ \A j \in L : g[j] \in Nat
      BY <2>1, <3>1
    <3>3. CASE g[k] <= g[m]
      BY <3>1, <3>3
    <3>4. CASE ~(g[k] <= g[m])
      <4>1. \A j \in L : g[j] <= g[k]
        BY <3>1, <3>2, <3>4
      <4> QED BY <2>1, <4>1
    <3> QED BY <3>3, <3>4
  <2> QED BY <2>2, <2>3
<1> HIDE DEF P
<1>2. K \in P
  BY <1>1, FiniteInduction
<1> QED BY <1>2 DEF P

\* The days that contributions are counted of.
LEMMA ContributedDays ==
    ASSUME IInv, NEW year
    PROVE  /\ IsFiniteSet(RowsForYear(year)) /\ RowsForYear(year) \subseteq Day
           /\ Contributed(year) \subseteq RowsForYear(year)
           /\ Day \subseteq Nat
           /\ \A d \in RowsForYear(year) : rows[d] \in Nat
           /\ \A d \in RowsForYear(year) \ Contributed(year) : rows[d] = 0
<1>1. 0 \in Int /\ LastDay \in Int /\ Day = 0..LastDay
  BY Constants DEF Day
<1>2. IsFiniteSet(Day)
  BY <1>1, FS_Interval
<1>3. RowsForYear(year) \subseteq Day
  BY DEF RowsForYear
<1>4. \A d \in RowsForYear(year) : rows[d] \in Nat
  BY Constants DEF RowsForYear, IInv
<1>5. IsFiniteSet(RowsForYear(year))
  BY <1>2, <1>3, FS_Subset
<1> QED BY <1>1, <1>3, <1>4, <1>5 DEF Contributed

LEMMA TotalsBy ==
    ASSUME IInv, NEW year, NEW keyOf
    PROVE  LET K == {keyOf[d] : d \in Contributed(year)}
               totals == Totals(year, keyOf)
           IN  /\ DOMAIN totals = K /\ IsFiniteSet(K)
               /\ \A k \in K : totals[k] \in Nat
               /\ totals = By(rows, Contributed(year), keyOf, K)
               /\ MapThenSumSet(LAMBDA k : totals[k], DOMAIN totals)
                    = Total(year)
<1> DEFINE C == Contributed(year)
           R == RowsForYear(year)
           K == {keyOf[d] : d \in C}
           totals == Totals(year, keyOf)
<1>1. /\ IsFiniteSet(R) /\ C \in SUBSET R
      /\ \A d \in R : rows[d] \in Nat
      /\ \A d \in R \ C : rows[d] = 0
  BY ContributedDays
<1>2. totals = By(rows, C, keyOf, K)
  BY DEF Totals, By, SumOver
<1>3. Total(year) = SumOver(rows, R)
  BY DEF Total, SumOver
<1>4. MapThenSumSet(LAMBDA k : totals[k], DOMAIN totals)
        = SumOver(totals, DOMAIN totals)
  BY DEF SumOver
<1> HIDE DEF totals, C, R
<1>5. IsFiniteSet(C)
  BY <1>1, FS_Subset
<1>6. IsFiniteSet(K)
  <2> DEFINE key == [d \in C |-> keyOf[d]]
  <2>1. key \in Surjection(C, K)
    BY DEF Surjection
  <2> HIDE DEF key, K
  <2> QED BY <1>5, <2>1, FS_Surjection
<1>7. DOMAIN totals = K
  BY <1>2 DEF By
<1>8. \A d \in C : rows[d] \in Nat /\ keyOf[d] \in K
  BY <1>1
<1>9. SumOver(totals, K) = SumOver(rows, C)
  <2> HIDE DEF K
  <2> QED BY <1>2, <1>5, <1>6, <1>8, SumOfGroups
<1>10. SumOver(rows, R) = SumOver(rows, C)
  <2>1. SumOver(rows, R) = SumOver(rows, C) + SumOver(rows, R \ C)
    BY <1>1, SumOfParts
  <2>2. SumOver(rows, R \ C) = 0
    <3>1. IsFiniteSet(R \ C)
      BY <1>1, FS_Subset
    <3> QED BY <1>1, <3>1, SumOfZeros
  <2>3. SumOver(rows, C) \in Nat
    BY <1>5, <1>8, SumIsNat
  <2> QED BY <2>1, <2>2, <2>3
<1>11. \A k \in K : totals[k] \in Nat
  <2>1. ASSUME NEW k \in K PROVE totals[k] \in Nat
    <3> DEFINE I == {d \in C : keyOf[d] = k}
    <3>1. IsFiniteSet(I) /\ \A d \in I : rows[d] \in Nat
      BY <1>5, <1>8, FS_Subset
    <3>2. totals[k] = SumOver(rows, I)
      BY <1>2 DEF By
    <3> HIDE DEF I
    <3> QED BY <3>1, <3>2, SumIsNat
  <2> QED BY <2>1
<1> QED BY <1>2, <1>3, <1>4, <1>6, <1>7, <1>9, <1>10, <1>11 DEF C, totals

\* The key that is reported has the most.
LEMMA MostActiveHasMost ==
    ASSUME IInv, NEW year, NEW keyOf, NEW k \in DOMAIN Totals(year, keyOf)
    PROVE  /\ MostActive(year, keyOf) \in {keyOf[d] : d \in Contributed(year)}
           /\ Totals(year, keyOf)[k]
                <= Totals(year, keyOf)[MostActive(year, keyOf)]
<1> DEFINE C == Contributed(year)
           totals == Totals(year, keyOf)
           K == {keyOf[d] : d \in C}
           most == {d \in C :
                       \A key \in DOMAIN totals : totals[key] <= totals[keyOf[d]]}
<1>1. MostActive(year, keyOf) = keyOf[Min(most)]
  BY DEF MostActive
<1>2. /\ DOMAIN totals = K /\ IsFiniteSet(K)
      /\ \A j \in K : totals[j] \in Nat
  BY TotalsBy
<1>3. C \in SUBSET Nat
  BY ContributedDays
<1> HIDE DEF totals, C
<1>4. PICK m \in K : \A j \in K : totals[j] <= totals[m]
  <2>1. K # {}
    BY <1>2 DEF totals
  <2> HIDE DEF K
  <2> QED BY <1>2, <2>1, MostOf
<1>5. most # {} /\ most \in SUBSET Nat
  BY <1>2, <1>3, <1>4
<1>6. Min(most) \in most
  <2> HIDE DEF most
  <2>1. \E x \in most : \A y \in most : x <= y
    BY <1>5, Least
  <2> QED BY <2>1 DEF Min
<1>7. k \in DOMAIN totals
  BY DEF totals
<1> QED BY <1>1, <1>6, <1>7 DEF C, totals

LEMMA TotalsOfYear == IInv => TotalsAgree
<1> SUFFICES ASSUME IInv, NEW year \in Years
             PROVE  LET months == Totals(year, Month)
                        weekdays == Totals(year, Weekday)
                    IN  /\ MapThenSumSet(LAMBDA m : months[m], DOMAIN months)
                             = Total(year)
                        /\ MapThenSumSet(LAMBDA w : weekdays[w], DOMAIN weekdays)
                             = Total(year)
                        /\ \A m \in DOMAIN months :
                              months[m] <= Reported(year, Month)
                        /\ \A w \in DOMAIN weekdays :
                              \/ weekdays[w] <= Reported(year, Weekday)
                              \/ MostActive(year, Weekday) = 0
  BY DEF TotalsAgree
<1> DEFINE months == Totals(year, Month)
           weekdays == Totals(year, Weekday)
<1>1. MapThenSumSet(LAMBDA m : months[m], DOMAIN months) = Total(year)
  BY TotalsBy
<1>2. MapThenSumSet(LAMBDA w : weekdays[w], DOMAIN weekdays) = Total(year)
  BY TotalsBy
<1>3. ASSUME NEW m \in DOMAIN months PROVE months[m] <= Reported(year, Month)
  <2>1. /\ MostActive(year, Month) \in {Month[d] : d \in Contributed(year)}
        /\ months[m] <= months[MostActive(year, Month)]
    BY MostActiveHasMost
  <2>2. \A d \in Contributed(year) : Month[d] # 0
    <3>1. \A d \in Contributed(year) : d \in Day /\ d \in Int
      BY ContributedDays
    <3>2. \A d \in Contributed(year) : MonthOf(d) \in 1..MonthsInYear
      BY <3>1, Months
    <3> QED BY <3>1, <3>2, Constants DEF Month
  <2>3. Reported(year, Month) = months[MostActive(year, Month)]
    BY <2>1, <2>2 DEF Reported
  <2> QED BY <2>1, <2>3
<1>4. ASSUME NEW w \in DOMAIN weekdays
      PROVE  \/ weekdays[w] <= Reported(year, Weekday)
             \/ MostActive(year, Weekday) = 0
  BY MostActiveHasMost DEF Reported
<1> QED BY <1>1, <1>2, <1>3, <1>4

\* Every contribution is in the totals of one month and of one weekday, and
\* the month that is reported has as many as any.
THEOREM TotalsAddUp == Spec => []TotalsAgree
BY Invariance, TotalsOfYear, PTL
===============================================================================
