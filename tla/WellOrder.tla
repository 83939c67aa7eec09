----------------------------- MODULE WellOrder -----------------------------
(***************************************************************************)
(* What the proofs need of finite sets: extremal elements, which packing   *)
(* and queues use, sums, which statistics use, and recursion, which the    *)
(* wire format uses.  The provers cannot instantiate an induction theorem  *)
(* that takes a predicate; a least counterexample in a set of naturals     *)
(* serves in its place.                                                    *)
(***************************************************************************)
EXTENDS Integers, FiniteSets, FiniteSetTheorems, WellFoundedInduction, NaturalsInduction,
        FiniteSetsExt, Functions, TLAPS

\* A non-empty set of naturals has a least element.
LEMMA LeastNat ==
    ASSUME NEW S \in SUBSET Nat, S # {}
    PROVE  \E m \in S : \A n \in S : m <= n
<1>1. PICK m \in S : \A n \in S : <<n, m>> \notin OpToRel(<, Nat)
  BY NatLessThanWellFounded, WFMin, Zenon
<1>2. \A n \in S : m <= n
  <2>1. SUFFICES ASSUME NEW n \in S, n < m PROVE FALSE
    BY SMT
  <2>2. <<n, m>> \in OpToRel(<, Nat)
    BY <2>1 DEF OpToRel
  <2>3. QED
    BY <1>1, <2>2
<1>3. QED
  BY <1>2

\* A finite non-empty set with a strict order has a maximal element: one with
\* the fewest elements after it.
LEMMA MaximalElement ==
    ASSUME NEW P, P # {}, IsFiniteSet(P), NEW R,
           \A i, j, k \in P : <<i, j>> \in R /\ <<j, k>> \in R => <<i, k>> \in R,
           \A i \in P : <<i, i>> \notin R
    PROVE  \E m \in P : \A j \in P : <<m, j>> \notin R
<1> DEFINE After(i) == {j \in P : <<i, j>> \in R}
           after == [i \in P |-> Cardinality(After(i))]
           Counts == {after[i] : i \in P}
<1>1. ASSUME NEW i \in P
      PROVE  /\ Cardinality(After(i)) \in Nat
             /\ \A T \in SUBSET After(i) :
                    /\ Cardinality(T) <= Cardinality(After(i))
                    /\ Cardinality(After(i)) = Cardinality(T) => After(i) = T
  <2>1. IsFiniteSet(After(i))
    BY FS_Subset
  <2> HIDE DEF After
  <2>2. QED
    BY <2>1, FS_Subset, FS_CardinalityType
<1>2. after \in [P -> Nat] /\ \A i \in P : after[i] = Cardinality(After(i))
  <2> HIDE DEF After
  <2>1. QED
    BY <1>1
<1>3. PICK m \in P : \A i \in P : after[m] <= after[i]
  <2> HIDE DEF after
  <2>1. Counts \in SUBSET Nat /\ Counts # {}
    BY <1>2
  <2>2. PICK c \in Counts : \A n \in Counts : c <= n
    BY <2>1, LeastNat
  <2>3. QED
    BY <2>2
<1>4. ASSUME NEW j \in P, <<m, j>> \in R PROVE FALSE
  <2>1. After(j) \in SUBSET After(m) /\ j \in After(m) /\ j \notin After(j)
    BY <1>4
  <2>2. Cardinality(After(j)) <= Cardinality(After(m))
        /\ Cardinality(After(j)) # Cardinality(After(m))
    BY <1>1, <2>1
  <2> HIDE DEF after, After
  <2>3. QED
    BY <1>1, <1>2, <1>3, <2>2
<1>5. QED
  BY <1>4

-----------------------------------------------------------------------------
(* Induction over finite sets                                              *)

\* Induction over the subsets of a finite set, for a set P of subsets.
LEMMA FiniteInduction ==
    ASSUME NEW D, IsFiniteSet(D), NEW P \in SUBSET (SUBSET D), {} \in P,
           \A A \in P : \A x \in D \ A : A \cup {x} \in P
    PROVE  D \in P
<1> DEFINE Left == {Cardinality(D \ A) : A \in P}
<1>1. \A A \in SUBSET D : IsFiniteSet(D \ A) /\ Cardinality(D \ A) \in Nat
  BY FS_Subset, FS_CardinalityType
<1>2. Left \in SUBSET Nat /\ Left # {}
  BY <1>1
<1>3. PICK m \in Left : \A n \in Left : m <= n
  BY <1>2, LeastNat
<1>4. PICK A \in P : m = Cardinality(D \ A)
  BY <1>3
<1>5. ASSUME NEW x \in D \ A PROVE FALSE
  <2>1. A \cup {x} \in P /\ Cardinality(D \ (A \cup {x})) \in Left
    OBVIOUS
  <2>2. D \ (A \cup {x}) = (D \ A) \ {x}
    OBVIOUS
  <2>3. Cardinality((D \ A) \ {x}) = m - 1 /\ m \in Nat
    BY <1>1, <1>4, FS_RemoveElement
  <2>4. m <= m - 1
    BY <1>3, <2>1, <2>2, <2>3
  <2>5. QED
    BY <2>3, <2>4
<1>6. QED
  BY <1>5

-----------------------------------------------------------------------------
(* Sums over finite sets                                                   *)

\* The element that the library's folds take out of a set next.
Some(s) == CHOOSE x \in s : TRUE

\* g adds up f on the subsets of S, as the library's fold does.
Adds(f, S, g) ==
    g = [s \in SUBSET S |-> IF s = {} THEN 0 ELSE f[Some(s)] + g[s \ {Some(s)}]]

\* It is in the set.
LEMMA SomeIn ==
    ASSUME NEW s, s # {}
    PROVE  Some(s) \in s
  BY Zenon DEF Some

\* Such a g exists.
LEMMA AdderExists ==
    ASSUME NEW D, NEW f \in [D -> Int], NEW S \in SUBSET D, IsFiniteSet(S)
    PROVE  \E g \in [SUBSET S -> Int] : Adds(f, S, g)
<1> DEFINE Step(g) == [s \in SUBSET S |->
                           IF s = {} THEN 0 ELSE f[Some(s)] + g[s \ {Some(s)}]]
           SolvedBefore(n, g) == \A s \in SUBSET S : Cardinality(s) <= n => g[s] = Step(g)[s]
           Bad == {n \in Nat : ~ \E g \in [SUBSET S -> Int] : SolvedBefore(n, g)}
<1>1. \A s \in SUBSET S : IsFiniteSet(s) /\ Cardinality(s) \in Nat
  BY FS_Subset, FS_CardinalityType
<1>2. ASSUME NEW g \in [SUBSET S -> Int] PROVE Step(g) \in [SUBSET S -> Int]
  <2>1. ASSUME NEW s \in SUBSET S, s # {}
        PROVE  f[Some(s)] \in Int /\ g[s \ {Some(s)}] \in Int
    BY <2>1, SomeIn
  <2>2. ASSUME NEW s \in SUBSET S
        PROVE  (IF s = {} THEN 0 ELSE f[Some(s)] + g[s \ {Some(s)}]) \in Int
    BY <2>1
  <2>3. QED
    BY <2>2
<1>3. Bad = {}
  <2>1. SUFFICES ASSUME Bad # {} PROVE FALSE
    OBVIOUS
  <2>2. PICK m \in Bad : \A n \in Bad : m <= n
    <3>1. Bad \in SUBSET Nat
      OBVIOUS
    <3> HIDE DEF Bad
    <3>2. QED
      BY <2>1, <3>1, LeastNat
  <2>3. m # 0
    <3> DEFINE z == [s \in SUBSET S |-> 0]
    <3>1. z \in [SUBSET S -> Int]
      OBVIOUS
    <3>2. ASSUME NEW s \in SUBSET S, Cardinality(s) <= 0 PROVE z[s] = Step(z)[s]
      <4>1. s = {}
        BY <1>1, <3>2, FS_EmptySet
      <4>2. QED
        BY <4>1
    <3>3. SolvedBefore(0, z)
      BY <3>2
    <3>4. QED
      BY <3>1, <3>3
  <2>4. m - 1 \in Nat /\ m - 1 \notin Bad
    <3>1. m \in Nat
      OBVIOUS
    <3> HIDE DEF Bad
    <3>2. QED
      BY <2>2, <2>3, <3>1
  <2>5. PICK g \in [SUBSET S -> Int] : SolvedBefore(m - 1, g)
    BY <2>4
  <2> DEFINE h == Step(g)
  <2>6. h \in [SUBSET S -> Int]
    BY <1>2
  <2>7. ASSUME NEW s \in SUBSET S, Cardinality(s) <= m PROVE h[s] = Step(h)[s]
    <3>1. CASE s = {}
      BY <3>1
    <3>2. CASE s # {}
      <4> DEFINE t == s \ {Some(s)}
      <4>1. t \in SUBSET S /\ Some(s) \in s
        BY <3>2, SomeIn
      <4>2. Cardinality(t) = Cardinality(s) - 1
        BY <1>1, <4>1, FS_RemoveElement
      <4>3. Cardinality(t) <= m - 1
        BY <1>1, <2>7, <4>2
      <4>4. h[t] = g[t]
        BY <2>5, <4>1, <4>3
      <4>5. h[s] = f[Some(s)] + g[t] /\ Step(h)[s] = f[Some(s)] + h[t]
        BY <3>2
      <4>6. QED
        BY <4>4, <4>5
    <3>3. QED
      BY <3>1, <3>2
  <2>8. SolvedBefore(m, h)
    BY <2>7
  <2>9. QED
    BY <2>6, <2>8
<1>4. PICK g \in [SUBSET S -> Int] : SolvedBefore(Cardinality(S), g)
  BY <1>1, <1>3
<1>5. ASSUME NEW s \in SUBSET S PROVE g[s] = Step(g)[s]
  BY <1>4, FS_Subset
<1>6. g = Step(g)
  BY <1>2, <1>5
<1>7. QED
  BY <1>6 DEF Adds

\* Whatever adds up f has integers for sums.
LEMMA AdderType ==
    ASSUME NEW D, NEW f \in [D -> Int], NEW S \in SUBSET D, IsFiniteSet(S),
           NEW g, Adds(f, S, g)
    PROVE  /\ g \in [SUBSET S -> Int]
           /\ g[{}] = 0
           /\ \A s \in (SUBSET S) \ {{}} :
                  Some(s) \in s /\ g[s] = f[Some(s)] + g[s \ {Some(s)}]
<1>1. \A s \in SUBSET S : IsFiniteSet(s) /\ Cardinality(s) \in Nat
  BY FS_Subset, FS_CardinalityType
<1>2. \A s \in SUBSET S : g[s] = IF s = {} THEN 0 ELSE f[Some(s)] + g[s \ {Some(s)}]
  BY DEF Adds
<1>3. g = [s \in SUBSET S |-> g[s]]
  BY DEF Adds
<1> DEFINE Bad == {Cardinality(s) : s \in {t \in SUBSET S : g[t] \notin Int}}
<1>4. Bad = {}
  <2>1. SUFFICES ASSUME Bad # {} PROVE FALSE
    OBVIOUS
  <2>2. Bad \in SUBSET Nat
    BY <1>1
  <2>3. PICK m \in Bad : \A n \in Bad : m <= n
    <3> HIDE DEF Bad
    <3>1. QED
      BY <2>1, <2>2, LeastNat
  <2>4. PICK s \in SUBSET S : g[s] \notin Int /\ m = Cardinality(s)
    BY <2>3
  <2>5. s # {} /\ g[s] = f[Some(s)] + g[s \ {Some(s)}]
    <3>1. s # {}
      <4>1. g[{}] = 0
        BY <1>2
      <4>2. QED
        BY <2>4, <4>1
    <3>2. QED
      BY <1>2, <3>1
  <2>6. Some(s) \in s /\ f[Some(s)] \in Int
    BY <2>5, SomeIn
  <2>7. Cardinality(s \ {Some(s)}) = m - 1 /\ m \in Nat
    BY <1>1, <2>4, <2>6, FS_RemoveElement
  <2>8. g[s \ {Some(s)}] \in Int
    <3>1. s \ {Some(s)} \in SUBSET S /\ Cardinality(s \ {Some(s)}) \notin Bad
      BY <2>3, <2>7
    <3>2. QED
      BY <3>1
  <2>9. QED
    BY <2>4, <2>5, <2>6, <2>8
<1>5. \A s \in SUBSET S : g[s] \in Int
  BY <1>4
<1>6. g \in [SUBSET S -> Int]
  BY <1>3, <1>5
<1>7. g[{}] = 0
  BY <1>2
<1>8. ASSUME NEW s \in (SUBSET S) \ {{}}
      PROVE  Some(s) \in s /\ g[s] = f[Some(s)] + g[s \ {Some(s)}]
  BY <1>2, SomeIn
<1>9. QED
  BY <1>6, <1>7, <1>8

\* The order in which it adds makes no difference.
LEMMA AdderAddsAny ==
    ASSUME NEW D, NEW f \in [D -> Int], NEW S \in SUBSET D, IsFiniteSet(S),
           NEW g, Adds(f, S, g),
           NEW T \in SUBSET S, NEW x \in S \ T
    PROVE  g[T \cup {x}] = f[x] + g[T]
<1> DEFINE Wrong == {t \in SUBSET S : \E y \in S \ t : g[t \cup {y}] # f[y] + g[t]}
           Bad == {Cardinality(t) : t \in Wrong}
<1>1. \A s \in SUBSET S : IsFiniteSet(s) /\ Cardinality(s) \in Nat
  BY FS_Subset, FS_CardinalityType
<1>2. /\ g \in [SUBSET S -> Int]
      /\ \A s \in (SUBSET S) \ {{}} :
             Some(s) \in s /\ g[s] = f[Some(s)] + g[s \ {Some(s)}]
  BY AdderType, Zenon
<1>3. Wrong = {}
  <2>1. SUFFICES ASSUME Wrong # {} PROVE FALSE
    OBVIOUS
  <2>2. Bad \in SUBSET Nat /\ Bad # {}
    BY <1>1, <2>1
  <2>3. PICK m \in Bad : \A n \in Bad : m <= n
    <3> HIDE DEF Bad
    <3>1. QED
      BY <2>2, LeastNat
  <2>4. PICK t \in Wrong : m = Cardinality(t)
    BY <2>3
  <2>5. PICK y \in S \ t : g[t \cup {y}] # f[y] + g[t]
    BY <2>4
  <2> DEFINE c == Some(t \cup {y})
             u == t \ {c}
  <2>6. t \in SUBSET S /\ t \cup {y} \in (SUBSET S) \ {{}}
    BY <2>4, <2>5
  <2>7. c \in t \cup {y} /\ g[t \cup {y}] = f[c] + g[(t \cup {y}) \ {c}]
    BY <1>2, <2>6
  <2> HIDE DEF c, Wrong
  <2>8. c # y
    <3>1. SUFFICES ASSUME c = y PROVE FALSE
      OBVIOUS
    <3>2. (t \cup {y}) \ {c} = t
      BY <2>5, <3>1
    <3>3. QED
      BY <2>5, <2>7, <3>1, <3>2
  <2>9. c \in t /\ (t \cup {y}) \ {c} = u \cup {y} /\ y \in S \ u /\ u \in SUBSET S
        /\ c \in S \ u /\ u \cup {c} = t
    BY <2>5, <2>6, <2>7, <2>8
  <2>10. Cardinality(u) = m - 1 /\ m \in Nat
    BY <1>1, <2>4, <2>6, <2>9, FS_RemoveElement
  <2>11. u \notin Wrong
    BY <2>3, <2>10
  <2>12. g[u \cup {y}] = f[y] + g[u] /\ g[u \cup {c}] = f[c] + g[u]
    <3> USE DEF Wrong
    <3>1. QED
      BY <2>9, <2>11
  <2>13. g[u] \in Int /\ f[y] \in Int /\ f[c] \in Int
    BY <1>2, <2>5, <2>9
  <2>14. g[t \cup {y}] = f[c] + (f[y] + g[u]) /\ g[t] = f[c] + g[u]
    BY <2>7, <2>9, <2>12
  <2>15. QED
    BY <2>5, <2>13, <2>14
<1>4. QED
  BY <1>3

\* The library's sum is what such a g makes of the whole set.
LEMMA SumAdds ==
    ASSUME NEW D, NEW f \in [D -> Int], NEW S \in SUBSET D, IsFiniteSet(S)
    PROVE  \E g : Adds(f, S, g) /\ SumFunctionOnSet(f, S) = g[S]
<1>1. PICK h \in [SUBSET S -> Int] : Adds(f, S, h)
  BY AdderExists
<1> DEFINE iter == CHOOSE g : Adds(f, S, g)
<1>2. Adds(f, S, iter)
  BY <1>1, Zenon
<1>3. SumFunctionOnSet(f, S) = iter[S]
  BY DEF SumFunctionOnSet, FoldFunctionOnSet, MapThenFoldSet, Adds, Some
<1>4. QED
  BY <1>2, <1>3

\* A sum of integers is one.
LEMMA SumType ==
    ASSUME NEW D, NEW f \in [D -> Int], NEW S \in SUBSET D, IsFiniteSet(S)
    PROVE  SumFunctionOnSet(f, S) \in Int
<1>1. PICK g : Adds(f, S, g) /\ SumFunctionOnSet(f, S) = g[S]
  BY SumAdds
<1>2. g \in [SUBSET S -> Int]
  BY <1>1, AdderType, Zenon
<1>3. QED
  BY <1>1, <1>2

\* An empty sum.
LEMMA SumEmpty ==
    ASSUME NEW D, NEW f \in [D -> Int]
    PROVE  SumFunctionOnSet(f, {}) = 0
<1>1. {} \in SUBSET D /\ IsFiniteSet({})
  BY FS_EmptySet
<1>2. PICK g : Adds(f, {}, g) /\ SumFunctionOnSet(f, {}) = g[{}]
  BY <1>1, SumAdds
<1>3. QED
  BY <1>1, <1>2, AdderType, Zenon

\* One more summand adds its value.
LEMMA SumAdd ==
    ASSUME NEW D, NEW f \in [D -> Int], NEW S \in SUBSET D, IsFiniteSet(S), NEW x \in D \ S
    PROVE  SumFunctionOnSet(f, S \cup {x}) = f[x] + SumFunctionOnSet(f, S)
<1> DEFINE R == S \cup {x}
<1>1. R \in SUBSET D /\ IsFiniteSet(R)
  BY FS_AddElement
<1>2. PICK g : Adds(f, R, g) /\ SumFunctionOnSet(f, R) = g[R]
  BY <1>1, SumAdds
<1>3. PICK h : Adds(f, S, h) /\ SumFunctionOnSet(f, S) = h[S]
  BY SumAdds
<1>4. g[{}] = 0 /\ h[{}] = 0
  <2>1. g[{}] = 0
    BY <1>1, <1>2, AdderType, Zenon
  <2>2. h[{}] = 0
    BY <1>3, AdderType, Zenon
  <2>3. QED
    BY <2>1, <2>2
<1> DEFINE P == {A \in SUBSET S : g[A] = h[A]}
<1>5. ASSUME NEW A \in P, NEW y \in S \ A PROVE A \cup {y} \in P
  <2>1. A \in SUBSET S /\ A \in SUBSET R /\ y \in R \ A /\ y \in S \ A
    OBVIOUS
  <2>2. g[A \cup {y}] = f[y] + g[A]
    <3> HIDE DEF R, P
    <3>1. QED
      BY <1>1, <1>2, <2>1, AdderAddsAny
  <2>3. h[A \cup {y}] = f[y] + h[A]
    <3>1. ASSUME NEW B \in SUBSET S, NEW z \in S \ B
          PROVE  h[B \cup {z}] = f[z] + h[B]
      <4> HIDE DEF R, P
      <4>1. Adds(f, S, h)
        BY <1>3
      <4>2. QED
        BY <4>1, AdderAddsAny
    <3>2. QED
      BY <2>1, <3>1
  <2>4. QED
    BY <2>2, <2>3
<1>6. S \in P
  <2>1. P \in SUBSET (SUBSET S) /\ {} \in P
    BY <1>4
  <2> HIDE DEF P
  <2>2. QED
    BY <1>5, <2>1, FiniteInduction
<1>7. g[R] = f[x] + g[S]
  <2>1. S \in SUBSET R /\ x \in R \ S
    OBVIOUS
  <2>2. g[S \cup {x}] = f[x] + g[S]
    <3> HIDE DEF R
    <3>1. QED
      BY <1>1, <1>2, <2>1, AdderAddsAny
  <2>3. QED
    BY <2>2
<1>8. QED
  BY <1>2, <1>3, <1>6, <1>7

\* Sums of functions that agree on the set are the same.
LEMMA SumSame ==
    ASSUME NEW D, NEW f \in [D -> Int], NEW E, NEW h \in [E -> Int],
           NEW S \in SUBSET D, S \in SUBSET E, IsFiniteSet(S), \A x \in S : f[x] = h[x]
    PROVE  SumFunctionOnSet(f, S) = SumFunctionOnSet(h, S)
<1> DEFINE P == {A \in SUBSET S : SumFunctionOnSet(f, A) = SumFunctionOnSet(h, A)}
<1>1. {} \in P
  BY SumEmpty
<1>2. ASSUME NEW A \in P, NEW x \in S \ A PROVE A \cup {x} \in P
  <2>1. IsFiniteSet(A) /\ A \in SUBSET D /\ A \in SUBSET E /\ x \in D \ A /\ x \in E \ A
    BY FS_Subset
  <2>2. SumFunctionOnSet(f, A \cup {x}) = f[x] + SumFunctionOnSet(f, A)
    BY <2>1, SumAdd
  <2>3. SumFunctionOnSet(h, A \cup {x}) = h[x] + SumFunctionOnSet(h, A)
    BY <2>1, SumAdd
  <2>4. QED
    BY <2>2, <2>3
<1>3. P \in SUBSET (SUBSET S)
  OBVIOUS
<1> HIDE DEF P
<1>4. S \in P
  BY <1>1, <1>2, <1>3, FiniteInduction
<1>5. QED
  BY <1>4 DEF P

\* Sums of disjoint sets add up.
LEMMA SumUnion ==
    ASSUME NEW D, NEW f \in [D -> Int], NEW S \in SUBSET D, NEW T \in SUBSET D,
           IsFiniteSet(S), IsFiniteSet(T), S \cap T = {}
    PROVE  SumFunctionOnSet(f, S \cup T) = SumFunctionOnSet(f, S) + SumFunctionOnSet(f, T)
<1> DEFINE P == {A \in SUBSET T :
                     SumFunctionOnSet(f, S \cup A)
                         = SumFunctionOnSet(f, S) + SumFunctionOnSet(f, A)}
<1>0. SumFunctionOnSet(f, S) \in Int
  BY SumType
<1>1. {} \in P
  <2>1. S \cup {} = S /\ SumFunctionOnSet(f, {}) = 0
    BY SumEmpty
  <2>2. QED
    BY <1>0, <2>1
<1>2. ASSUME NEW A \in P, NEW x \in T \ A PROVE A \cup {x} \in P
  <2>1. IsFiniteSet(A) /\ A \in SUBSET D /\ x \in D \ A
    BY FS_Subset
  <2>2. IsFiniteSet(S \cup A) /\ S \cup A \in SUBSET D /\ x \in D \ (S \cup A)
    BY <2>1, FS_Union
  <2>3. SumFunctionOnSet(f, A \cup {x}) = f[x] + SumFunctionOnSet(f, A)
    BY <2>1, SumAdd
  <2>4. SumFunctionOnSet(f, (S \cup A) \cup {x}) = f[x] + SumFunctionOnSet(f, S \cup A)
    <3>1. ASSUME NEW B \in SUBSET D, IsFiniteSet(B), NEW y \in D \ B
          PROVE  SumFunctionOnSet(f, B \cup {y}) = f[y] + SumFunctionOnSet(f, B)
      <4> HIDE DEF P
      <4>1. QED
        BY <3>1, SumAdd
    <3>2. QED
      BY <2>2, <3>1, Zenon
  <2>5. (S \cup A) \cup {x} = S \cup (A \cup {x})
    OBVIOUS
  <2>6. SumFunctionOnSet(f, A) \in Int /\ f[x] \in Int
    BY <2>1, SumType
  <2>7. SumFunctionOnSet(f, S \cup A) = SumFunctionOnSet(f, S) + SumFunctionOnSet(f, A)
    OBVIOUS
  <2>8. SumFunctionOnSet(f, S \cup (A \cup {x}))
            = SumFunctionOnSet(f, S) + SumFunctionOnSet(f, A \cup {x})
    <3>1. SumFunctionOnSet(f, S \cup (A \cup {x}))
              = f[x] + (SumFunctionOnSet(f, S) + SumFunctionOnSet(f, A))
      BY <2>4, <2>5, <2>7, Zenon
    <3>2. \A a, b, c \in Int : a + (b + c) = b + (a + c)
      OBVIOUS
    <3>3. f[x] + (SumFunctionOnSet(f, S) + SumFunctionOnSet(f, A))
              = SumFunctionOnSet(f, S) + (f[x] + SumFunctionOnSet(f, A))
      BY <1>0, <2>6, <3>2, Zenon
    <3>4. QED
      BY <2>3, <3>1, <3>3, Zenon
  <2>9. QED
    BY <2>8
<1>3. P \in SUBSET (SUBSET T)
  OBVIOUS
<1> HIDE DEF P
<1>4. T \in P
  BY <1>1, <1>2, <1>3, FiniteInduction
<1>5. QED
  BY <1>4 DEF P

\* part[i], for the finitely many i in I, are pairwise disjoint finite sets.
Parts(D, I, part) ==
    /\ IsFiniteSet(I)
    /\ part \in [I -> SUBSET D]
    /\ \A i \in I : IsFiniteSet(part[i])
    /\ \A i, j \in I : i # j => part[i] \cap part[j] = {}

\* Their union, and the sum of f over each of them.
Whole(I, part) == UNION {part[i] : i \in I}
PartSums(f, I, part) == [i \in I |-> SumFunctionOnSet(f, part[i])]

\* The sum over the union of the parts is the sum of their sums.
LEMMA SumParts ==
    ASSUME NEW D, NEW f \in [D -> Int], NEW I, NEW part, Parts(D, I, part)
    PROVE  SumFunctionOnSet(PartSums(f, I, part), I) = SumFunctionOnSet(f, Whole(I, part))
<1> DEFINE g == [i \in I |-> SumFunctionOnSet(f, part[i])]
<1>1. /\ IsFiniteSet(I) /\ part \in [I -> SUBSET D]
      /\ \A i \in I : IsFiniteSet(part[i])
      /\ \A i, j \in I : i # j => part[i] \cap part[j] = {}
  BY DEF Parts
<1>2. \A i \in I : g[i] = SumFunctionOnSet(f, part[i]) /\ g[i] \in Int
  BY <1>1, SumType
<1>3. g \in [I -> Int]
  BY <1>2
<1> HIDE DEF g
<1> DEFINE U(A) == UNION {part[i] : i \in A}
           P == {A \in SUBSET I : IsFiniteSet(U(A))
                                  /\ SumFunctionOnSet(g, A) = SumFunctionOnSet(f, U(A))}
<1>4. {} \in P
  <2>1. U({}) = {} /\ IsFiniteSet({})
    BY FS_EmptySet
  <2>2. SumFunctionOnSet(g, {}) = 0 /\ SumFunctionOnSet(f, {}) = 0
    BY <1>3, SumEmpty
  <2>3. QED
    BY <2>1, <2>2
<1>5. ASSUME NEW A \in P, NEW i \in I \ A PROVE A \cup {i} \in P
  <2>1. /\ A \in SUBSET I /\ IsFiniteSet(A) /\ IsFiniteSet(U(A)) /\ IsFiniteSet(part[i])
        /\ SumFunctionOnSet(g, A) = SumFunctionOnSet(f, U(A))
    BY <1>1, FS_Subset
  <2>2. U(A \cup {i}) = U(A) \cup part[i]
    BY <2>1
  <2>3. U(A) \cap part[i] = {}
    BY <1>1, <2>1
  <2>4. U(A) \in SUBSET D /\ part[i] \in SUBSET D
    BY <1>1, <2>1
  <2>5. IsFiniteSet(U(A) \cup part[i])
    <3> HIDE DEF U, P
    <3>1. QED
      BY <2>1, FS_Union
  <2>6. SumFunctionOnSet(g, A \cup {i}) = g[i] + SumFunctionOnSet(g, A)
    <3>1. ASSUME NEW B \in SUBSET I, IsFiniteSet(B), NEW j \in I \ B
          PROVE  SumFunctionOnSet(g, B \cup {j}) = g[j] + SumFunctionOnSet(g, B)
      <4> HIDE DEF U, P
      <4>1. QED
        BY <1>3, <3>1, SumAdd
    <3>2. QED
      BY <2>1, <3>1
  <2>7. SumFunctionOnSet(f, U(A) \cup part[i])
            = SumFunctionOnSet(f, U(A)) + SumFunctionOnSet(f, part[i])
    <3>1. ASSUME NEW B \in SUBSET D, IsFiniteSet(B), NEW C \in SUBSET D, IsFiniteSet(C),
                 B \cap C = {}
          PROVE  SumFunctionOnSet(f, B \cup C)
                     = SumFunctionOnSet(f, B) + SumFunctionOnSet(f, C)
      <4> HIDE DEF U, P
      <4>1. QED
        BY <3>1, SumUnion
    <3>2. QED
      BY <2>1, <2>3, <2>4, <3>1, Zenon
  <2>8. g[i] = SumFunctionOnSet(f, part[i]) /\ g[i] \in Int
    BY <1>2
  <2>9. SumFunctionOnSet(g, A) \in Int
    <3> HIDE DEF U, P
    <3>1. QED
      BY <1>3, <2>1, SumType
  <2>10. SumFunctionOnSet(g, A \cup {i}) = SumFunctionOnSet(f, U(A \cup {i}))
    <3>1. \A a, b \in Int : a + b = b + a
      OBVIOUS
    <3>2. g[i] + SumFunctionOnSet(g, A) = SumFunctionOnSet(g, A) + g[i]
      BY <2>8, <2>9, <3>1, Zenon
    <3> HIDE DEF U, P
    <3>3. SumFunctionOnSet(f, U(A \cup {i})) = SumFunctionOnSet(g, A) + g[i]
      BY <2>1, <2>2, <2>7, <2>8, Zenon
    <3>4. QED
      BY <2>6, <3>2, <3>3, Zenon
  <2>11. QED
    BY <2>2, <2>5, <2>10
<1>6. P \in SUBSET (SUBSET I)
  OBVIOUS
<1> HIDE DEF P
<1>7. I \in P
  BY <1>4, <1>5, <1>6, <1>1, FiniteInduction
<1>8. QED
  BY <1>7 DEF P, g, PartSums, Whole

\* A set has as many elements as ones add up over it.
LEMMA SumOnes ==
    ASSUME NEW D, NEW S \in SUBSET D, IsFiniteSet(S)
    PROVE  SumFunctionOnSet([x \in D |-> 1], S) = Cardinality(S)
<1> DEFINE one == [x \in D |-> 1]
           P == {A \in SUBSET S : SumFunctionOnSet(one, A) = Cardinality(A)}
<1>0. one \in [D -> Int]
  OBVIOUS
<1>1. {} \in P
  <2>1. SumFunctionOnSet(one, {}) = 0
    <3> HIDE DEF one
    <3>1. QED
      BY <1>0, SumEmpty
  <2>2. QED
    BY <2>1, FS_EmptySet
<1>2. ASSUME NEW A \in P, NEW x \in S \ A PROVE A \cup {x} \in P
  <2>1. /\ A \in SUBSET D /\ IsFiniteSet(A) /\ x \in D \ A /\ one[x] = 1
        /\ Cardinality(A) \in Nat /\ Cardinality(A \cup {x}) = Cardinality(A) + 1
    BY FS_Subset, FS_CardinalityType, FS_AddElement
  <2>2. SumFunctionOnSet(one, A \cup {x}) = one[x] + SumFunctionOnSet(one, A)
    <3> HIDE DEF one, P
    <3>1. QED
      BY <1>0, <2>1, SumAdd
  <2>3. SumFunctionOnSet(one, A) = Cardinality(A)
    OBVIOUS
  <2>4. \A n \in Nat : 1 + n = n + 1
    OBVIOUS
  <2> HIDE DEF one
  <2>5. SumFunctionOnSet(one, A \cup {x}) = Cardinality(A \cup {x})
    <3>1. SumFunctionOnSet(one, A \cup {x}) = 1 + Cardinality(A)
      BY <2>1, <2>2, <2>3, Zenon
    <3>2. QED
      BY <2>1, <2>4, <3>1, Zenon
  <2>6. QED
    BY <2>5
<1>3. P \in SUBSET (SUBSET S)
  OBVIOUS
<1> HIDE DEF P
<1>4. S \in P
  BY <1>1, <1>2, <1>3, FiniteInduction
<1>5. QED
  BY <1>4 DEF P

-----------------------------------------------------------------------------
(* Extremal integers                                                       *)

\* A finite non-empty set of integers has a least and a greatest element.
LEMMA MinMaxInt ==
    ASSUME NEW S \in SUBSET Int, S # {}, IsFiniteSet(S)
    PROVE  /\ Min(S) \in S /\ \A y \in S : Min(S) <= y
           /\ Max(S) \in S /\ \A y \in S : Max(S) >= y
<1>1. \E x \in S : \A y \in S : x <= y
  <2> DEFINE R == {p \in S \X S : p[1] > p[2]}
  <2>1. \A i, j \in S : <<i, j>> \in R <=> i > j
    OBVIOUS
  <2> HIDE DEF R
  <2>2. \E m \in S : \A j \in S : <<m, j>> \notin R
    <3>1. \A i, j, k \in S : <<i, j>> \in R /\ <<j, k>> \in R => <<i, k>> \in R
      BY <2>1
    <3>2. \A i \in S : <<i, i>> \notin R
      BY <2>1
    <3>3. QED
      BY <3>1, <3>2, MaximalElement
  <2>3. PICK m \in S : \A j \in S : <<m, j>> \notin R
    BY <2>2
  <2>4. ASSUME NEW j \in S PROVE m <= j
    <3>1. m \in Int /\ j \in Int /\ ~(m > j)
      BY <2>1, <2>3
    <3>2. QED
      BY <3>1
  <2>5. QED
    BY <2>4
<1>2. \E x \in S : \A y \in S : x >= y
  <2> DEFINE R == {p \in S \X S : p[1] < p[2]}
  <2>1. \A i, j \in S : <<i, j>> \in R <=> i < j
    OBVIOUS
  <2> HIDE DEF R
  <2>2. \E m \in S : \A j \in S : <<m, j>> \notin R
    <3>1. \A i, j, k \in S : <<i, j>> \in R /\ <<j, k>> \in R => <<i, k>> \in R
      BY <2>1
    <3>2. \A i \in S : <<i, i>> \notin R
      BY <2>1
    <3>3. QED
      BY <3>1, <3>2, MaximalElement
  <2>3. PICK m \in S : \A j \in S : <<m, j>> \notin R
    BY <2>2
  <2>4. ASSUME NEW j \in S PROVE m >= j
    <3>1. m \in Int /\ j \in Int /\ ~(m < j)
      BY <2>1, <2>3
    <3>2. QED
      BY <3>1
  <2>5. QED
    BY <2>4
<1>3. QED
  BY <1>1, <1>2 DEF Min, Max

\* There is only one of each.
LEMMA MinMaxUnique ==
    ASSUME NEW S \in SUBSET Int, NEW x \in S
    PROVE  /\ (\A y \in S : x <= y) => Min(S) = x
           /\ (\A y \in S : x >= y) => Max(S) = x
<1>1. ASSUME \A y \in S : x <= y PROVE Min(S) = x
  <2>1. Min(S) \in S /\ \A y \in S : Min(S) <= y
    BY <1>1 DEF Min
  <2>2. Min(S) \in Int /\ x \in Int /\ Min(S) <= x /\ x <= Min(S)
    BY <1>1, <2>1
  <2>3. QED
    BY <2>2
<1>2. ASSUME \A y \in S : x >= y PROVE Max(S) = x
  <2>1. Max(S) \in S /\ \A y \in S : Max(S) >= y
    BY <1>2 DEF Max
  <2>2. Max(S) \in Int /\ x \in Int /\ Max(S) >= x /\ x >= Max(S)
    BY <1>2, <2>1
  <2>3. QED
    BY <2>2
<1>3. QED
  BY <1>1, <1>2

-----------------------------------------------------------------------------
(* Recursive functions                                                     *)

\* Functions are equal when their values are.
LEMMA SameFunction ==
    ASSUME NEW D, NEW T, NEW a \in [D -> T], NEW b \in [D -> T], \A n \in D : a[n] = b[n]
    PROVE  a = b
  OBVIOUS

\* F makes functions of functions, and what it makes of g at n depends on the
\* values of g before n only.
Contracts(F, D, T) ==
    /\ F \in [[D -> T] -> [D -> T]]
    /\ \A g, h \in [D -> T] : \A n \in D :
        (\A m \in D : m < n => g[m] = h[m]) => F[g][n] = F[h][n]

\* g is what F makes of it, before n.
SolvedBefore(F, D, n, g) == \A m \in D : m < n => g[m] = F[g][m]

\* Two such functions agree before n.
LEMMA Agree ==
    ASSUME NEW D \in SUBSET Nat, NEW T, NEW F, Contracts(F, D, T),
           NEW n \in Nat, NEW g \in [D -> T], NEW h \in [D -> T],
           SolvedBefore(F, D, n, g), SolvedBefore(F, D, n, h)
    PROVE  \A m \in D : m < n => g[m] = h[m]
<1> DEFINE Bad == {m \in D : m < n /\ g[m] # h[m]}
<1>1. SUFFICES ASSUME Bad # {} PROVE FALSE
  OBVIOUS
<1>2. Bad \in SUBSET Nat
  OBVIOUS
<1>3. PICK m \in Bad : \A k \in Bad : m <= k
  <2> HIDE DEF Bad
  <2>1. QED
    BY <1>1, <1>2, LeastNat
<1>4. m \in D /\ m \in Nat /\ m < n /\ g[m] # h[m]
  BY <1>3
<1>5. \A k \in D : k < m => g[k] = h[k]
  <2>1. ASSUME NEW k \in D, k < m, g[k] # h[k] PROVE FALSE
    <3>1. k \in Nat /\ k < n
      BY <1>4, <2>1
    <3>2. k \in Bad
      BY <2>1, <3>1
    <3>3. m <= k
      BY <1>3, <3>2
    <3>4. QED
      BY <1>4, <2>1, <3>1, <3>3
  <2>2. QED
    BY <2>1
<1>6. F[g][m] = F[h][m]
  BY <1>4, <1>5 DEF Contracts
<1>7. g[m] = F[g][m] /\ h[m] = F[h][m]
  BY <1>4 DEF SolvedBefore
<1>8. QED
  BY <1>4, <1>6, <1>7

\* A recursive definition on naturals that looks back only has a solution.
LEMMA Recursion ==
    ASSUME NEW D \in SUBSET Nat, NEW T, T # {}, NEW F,
           Contracts(F, D, T)
    PROVE  \E g \in [D -> T] : g = F[g]
<1> DEFINE Bad == {n \in Nat : ~ \E g \in [D -> T] : SolvedBefore(F, D, n, g)}
<1>1. Bad = {}
  <2>1. SUFFICES ASSUME Bad # {} PROVE FALSE
    OBVIOUS
  <2>2. PICK m \in Bad : \A n \in Bad : m <= n
    <3>1. Bad \in SUBSET Nat
      OBVIOUS
    <3> HIDE DEF Bad
    <3>2. QED
      BY <2>1, <3>1, LeastNat
  <2>3. m \in Nat
    OBVIOUS
  <2>4. m # 0
    <3>1. PICK t \in T : TRUE
      OBVIOUS
    <3>2. [n \in D |-> t] \in [D -> T]
      OBVIOUS
    <3>3. SolvedBefore(F, D, 0, [n \in D |-> t])
      BY DEF SolvedBefore
    <3>4. 0 \notin Bad
      BY <3>2, <3>3
    <3>5. QED
      BY <3>4
  <2>5. m - 1 \in Nat /\ m - 1 \notin Bad
    <3> HIDE DEF Bad
    <3>1. QED
      BY <2>2, <2>3, <2>4
  <2>6. PICK g \in [D -> T] : SolvedBefore(F, D, m - 1, g)
    BY <2>5
  <2>7. F[g] \in [D -> T]
    BY DEF Contracts
  <2>8. ASSUME NEW n \in D, n < m PROVE F[g][n] = F[F[g]][n]
    <3>1. ASSUME NEW k \in D, k < n PROVE g[k] = F[g][k]
      <4>1. k < m - 1
        BY <2>3, <2>8, <3>1
      <4>2. QED
        BY <2>6, <4>1 DEF SolvedBefore
    <3>2. QED
      BY <2>7, <3>1 DEF Contracts
  <2>9. SolvedBefore(F, D, m, F[g])
    BY <2>8 DEF SolvedBefore
  <2>10. QED
    BY <2>2, <2>7, <2>9
<1>2. \A n \in Nat : \E g \in [D -> T] : SolvedBefore(F, D, n, g)
  BY <1>1
<1>2a. \A n \in Nat : \A a, b \in [D -> T] :
          SolvedBefore(F, D, n, a) /\ SolvedBefore(F, D, n, b) => \A m \in D : m < n => a[m] = b[m]
  BY Agree
<1> DEFINE To(n) == CHOOSE a \in [D -> T] : SolvedBefore(F, D, n, a)
           sol == [n \in D |-> To(n + 1)[n]]
<1>3. ASSUME NEW n \in Nat PROVE To(n) \in [D -> T] /\ SolvedBefore(F, D, n, To(n))
  BY <1>2, Zenon
<1> HIDE DEF To, Bad
<1>4. sol \in [D -> T] /\ \A n \in D : n + 1 \in Nat /\ sol[n] = To(n + 1)[n]
  <2>1. ASSUME NEW n \in D PROVE n + 1 \in Nat /\ To(n + 1)[n] \in T
    <3>1. n + 1 \in Nat
      OBVIOUS
    <3>2. To(n + 1) \in [D -> T]
      BY <1>3, <3>1
    <3>3. QED
      BY <3>1, <3>2
  <2>2. QED
    BY <2>1
<1> HIDE DEF sol
<1>5. ASSUME NEW n \in D PROVE sol[n] = F[sol][n]
  <2> DEFINE h == To(n + 1)
  <2>0. n + 1 \in Nat
    BY <1>4
  <2>1. h \in [D -> T] /\ SolvedBefore(F, D, n + 1, h)
    BY <1>3, <2>0
  <2>2. ASSUME NEW k \in D, k < n PROVE sol[k] = h[k]
    <3>1. k + 1 \in Nat /\ sol[k] = To(k + 1)[k]
      BY <1>4
    <3>2. To(k + 1) \in [D -> T] /\ SolvedBefore(F, D, k + 1, To(k + 1))
      BY <1>3, <3>1
    <3>3. SolvedBefore(F, D, k + 1, h)
      <4>1. \A m \in D : m < k + 1 => m < n + 1
        BY <2>2
      <4>2. QED
        BY <2>1, <4>1 DEF SolvedBefore
    <3> HIDE DEF h
    <3>4. \A m \in D : m < k + 1 => To(k + 1)[m] = h[m]
      BY <1>2a, <2>1, <3>1, <3>2, <3>3
    <3>5. k < k + 1
      OBVIOUS
    <3>6. QED
      BY <3>1, <3>4, <3>5
  <2>3. sol[n] = h[n]
    BY <1>4
  <2>4. h[n] = F[h][n]
    <3>1. n < n + 1
      OBVIOUS
    <3> HIDE DEF h
    <3>2. QED
      BY <2>1, <3>1 DEF SolvedBefore
  <2> HIDE DEF h
  <2>5. F[sol][n] = F[h][n]
    BY <1>4, <2>1, <2>2 DEF Contracts
  <2>6. QED
    BY <2>3, <2>4, <2>5
<1>6. F[sol] \in [D -> T]
  BY <1>4 DEF Contracts
<1>7. sol = F[sol]
  <2>1. PICK h \in [D -> T] : h = F[sol]
    BY <1>6, Zenon
  <2>2. \A n \in D : sol[n] = h[n]
    BY <1>5, <2>1, Zenon
  <2>3. sol = h
    <3>1. sol \in [D -> T]
      BY <1>4
    <3>2. \A a, b \in [D -> T] : (\A n \in D : a[n] = b[n]) => a = b
      BY SameFunction, Zenon
    <3>3. QED
      BY <2>2, <3>1, <3>2, Zenon
  <2>4. QED
    BY <2>1, <2>3, Zenon
<1>8. QED
  BY <1>4, <1>7
=============================================================================
