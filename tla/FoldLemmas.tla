----------------------------- MODULE FoldLemmas -----------------------------
(***************************************************************************)
(* What the folds and sums of the community modules compute over a finite  *)
(* set.  They are recursive functions on its subsets; that such a function *)
(* exists, and is the only one, is an induction over the subsets, carried  *)
(* out here with the set of subsets that satisfy the claim.                *)
(***************************************************************************)
EXTENDS Integers, FiniteSets, FiniteSetsExt, Functions, FiniteSetTheorems, TLAPS

\* A set of numbers that has 0, and the successor of each of its members, has them all.
LEMMA NatSet ==
    ASSUME NEW S \in SUBSET Nat, 0 \in S, \A n \in S : n + 1 \in S
    PROVE  S = Nat
<1>1. SUFFICES ASSUME Nat \ S # {} PROVE FALSE
  OBVIOUS
<1>2. PICK x \in Nat \ S : \A y \in Nat \ S : <<y, x>> \notin OpToRel(<, Nat)
  BY <1>1, NatLessThanWellFounded, WFMin, Zenon
<1>3. \A y \in Nat \ S : ~ (y < x)
  BY <1>2 DEF OpToRel
<1>4. x # 0 /\ x - 1 \in Nat
  OBVIOUS
<1>5. x - 1 \in S
  BY <1>3, <1>4
<1>. QED  BY <1>4, <1>5

\* A set of numbers below a bound has a greatest one.
LEMMA MaxIn ==
    ASSUME NEW S \in SUBSET Nat, S # {}, NEW m \in Nat, \A x \in S : x <= m
    PROVE  Max(S) \in S /\ \A x \in S : x <= Max(S)
<1>1. \E x \in S : \A y \in S : x >= y
  <2>. DEFINE T == {m - x : x \in S}
  <2>1. T \subseteq Nat
    BY \A x \in S : m - x \in Nat
  <2>2. T # {}
    OBVIOUS
  <2>3. PICK t \in T : \A u \in T : <<u, t>> \notin OpToRel(<, Nat)
    BY <2>1, <2>2, NatLessThanWellFounded, WFMin, Zenon
  <2>4. \A u \in T : ~ (u < t)
    BY <2>1, <2>3 DEF OpToRel
  <2>5. PICK x \in S : t = m - x
    OBVIOUS
  <2>6. \A y \in S : m - y \in T
    OBVIOUS
  <2>. HIDE DEF T
  <2>. QED  BY <2>4, <2>5, <2>6
<1>2. Max(S) = CHOOSE x \in S : \A y \in S : x >= y
  BY DEF Max
<1>. QED  BY <1>1, <1>2

\* A set of subsets of S that has T whenever it has every T \ {x} has all of them.
LEMMA SubsetInduction ==
    ASSUME NEW S, IsFiniteSet(S), NEW C \in SUBSET SUBSET S,
           \A T \in SUBSET S : (\A x \in T : T \ {x} \in C) => T \in C
    PROVE  C = SUBSET S
<1>1. SUFFICES ASSUME (SUBSET S) \ C # {} PROVE FALSE
  OBVIOUS
<1>2. IsWellFoundedOn(StrictSubsetOrdering(S), SUBSET S)
  BY FS_FiniteSubsetsOfFinite, FS_StrictSubsetOrderingWellFounded, Zenon
<1>3. PICK T \in (SUBSET S) \ C :
        \A U \in (SUBSET S) \ C : <<U, T>> \notin StrictSubsetOrdering(S)
  BY <1>1, <1>2, WFMin, Zenon
<1>4. ASSUME NEW x \in T PROVE T \ {x} \in C
  <2>1. <<T \ {x}, T>> \in StrictSubsetOrdering(S)
    BY DEF StrictSubsetOrdering
  <2>. QED  BY <1>3, <2>1
<1>. QED  BY <1>3, <1>4, Zenon

-----------------------------------------------------------------------------
(* Recursion over the subsets of a finite set: choice picks the next       *)
(* element of a subset, step[x] maps the value of the rest to that of the  *)
(* whole.                                                                  *)

Chooses(choice, S) == \A s \in SUBSET S : s # {} => choice[s] \in s

Recursive(g, D, base, choice, step) ==
    \A s \in SUBSET D : g[s] = IF s = {} THEN base ELSE step[choice[s]][g[s \ {choice[s]}]]

\* There is such a function.
LEMMA Recursion ==
    ASSUME NEW S, IsFiniteSet(S), NEW V, NEW base \in V, NEW choice, Chooses(choice, S),
           NEW step \in [S -> [V -> V]]
    PROVE  \E g \in [SUBSET S -> V] : Recursive(g, S, base, choice, step)
<1>. DEFINE Sol(D) == {g \in [SUBSET D -> V] : Recursive(g, D, base, choice, step)}
            C == {D \in SUBSET S : Sol(D) # {}}
<1>. DEFINE R(p, u) == Recursive(p, u, base, choice, step)
<1>a. ASSUME NEW A, NEW u \in SUBSET A, NEW p, R(p, A) PROVE R(p, u)
  <2>. SUFFICES ASSUME NEW s \in SUBSET u
                PROVE  p[s] = IF s = {} THEN base ELSE step[choice[s]][p[s \ {choice[s]}]]
    BY Zenon DEF Recursive
  <2>1. s \in SUBSET A
    OBVIOUS
  <2>. QED  BY <1>a, <2>1, Zenon DEF Recursive
<1>0. ASSUME NEW u \in SUBSET S, NEW p, NEW q, R(p, u), R(q, u) PROVE p[u] = q[u]
  <2>. DEFINE E == {s \in SUBSET S : s \in SUBSET u => p[s] = q[s]}
  <2>1. ASSUME NEW T \in SUBSET S, \A x \in T : T \ {x} \in E PROVE T \in E
    <3>1. SUFFICES ASSUME T \in SUBSET u PROVE p[T] = q[T]
      OBVIOUS
    <3>2. CASE T = {}
      BY <1>0, <3>1, <3>2, Zenon DEF Recursive
    <3>3. CASE T # {}
      <4>1. choice[T] \in T
        BY <3>3, Zenon DEF Chooses
      <4>2. T \ {choice[T]} \in E /\ T \ {choice[T]} \in SUBSET u
        BY <2>1, <3>1, <4>1
      <4>3. p[T \ {choice[T]}] = q[T \ {choice[T]}]
        BY <4>2
      <4>. QED  BY <1>0, <3>1, <3>3, <4>3, Zenon DEF Recursive
    <3>. QED  BY <3>2, <3>3
  <2>2. E \in SUBSET SUBSET S
    OBVIOUS
  <2>. HIDE DEF E
  <2>3. E = SUBSET S
    BY <2>1, <2>2, SubsetInduction, Zenon
  <2>. QED  BY <2>3 DEF E
<1>. HIDE DEF R
<1>1. ASSUME NEW T \in SUBSET S, \A x \in T : T \ {x} \in C PROVE T \in C
  <2>. DEFINE part(x) == CHOOSE g : g \in Sol(T \ {x})
              rest(s) == CHOOSE x : x \in T \ s
              c == choice[T]
              g == [s \in SUBSET T |-> IF s = T
                                       THEN IF T = {} THEN base ELSE step[c][part(c)[T \ {c}]]
                                       ELSE part(rest(s))[s]]
  <2>1. \A x \in T : part(x) \in Sol(T \ {x})
    BY <1>1
  <2>2. \A s \in SUBSET T : s # T => rest(s) \in T /\ rest(s) \notin s /\ s \in SUBSET (T \ {rest(s)})
    <3>. SUFFICES ASSUME NEW s \in SUBSET T, s # T PROVE rest(s) \in T \ s
      OBVIOUS
    <3>1. \E x : x \in T \ s
      OBVIOUS
    <3>. QED  BY <3>1, Zenon
  <2>3. T # {} => c \in T /\ T \ {c} \in SUBSET (T \ {c})
    BY DEF Chooses
  <2>. HIDE DEF part, rest, Sol
  <2>4. \A x \in T : part(x) \in [SUBSET (T \ {x}) -> V] /\ Recursive(part(x), T \ {x}, base, choice, step)
    BY <2>1, Zenon DEF Sol
  <2>5. g \in [SUBSET T -> V]
    <3>. SUFFICES ASSUME NEW s \in SUBSET T PROVE g[s] \in V
      OBVIOUS
    <3>1. CASE s # T
      <4>1. g[s] = part(rest(s))[s]
        BY <3>1
      <4>2. /\ s \in SUBSET (T \ {rest(s)})
            /\ part(rest(s)) \in [SUBSET (T \ {rest(s)}) -> V]
        BY <2>2, <2>4, <3>1, Zenon
      <4>. QED  BY <4>1, <4>2
    <3>2. CASE s = T /\ T = {}
      BY <3>2
    <3>3. CASE s = T /\ T # {}
      <4>1. part(c)[T \ {c}] \in V /\ c \in S
        BY <2>3, <2>4, <3>3
      <4>2. step[c][part(c)[T \ {c}]] \in V
        BY <4>1
      <4>3. g[s] = step[c][part(c)[T \ {c}]]
        BY <3>3
      <4>. QED  BY <4>2, <4>3
    <3>. QED  BY <3>1, <3>2, <3>3
  <2>6. ASSUME NEW x \in T, NEW s \in SUBSET (T \ {x}) PROVE g[s] = part(x)[s]
    <3>1. s \in SUBSET T /\ s # T
      OBVIOUS
    <3>2. g[s] = part(rest(s))[s]
      BY <3>1
    <3>3. rest(s) \in T /\ s \in SUBSET (T \ {rest(s)})
      BY <2>2, <3>1, Zenon
    <3>. HIDE DEF g
    <3>4. R(part(x), s) /\ R(part(rest(s)), s)
      <4>1. R(part(x), T \ {x}) /\ R(part(rest(s)), T \ {rest(s)})
        BY <2>4, <3>3, Zenon DEF R
      <4>. QED  BY <1>a, <3>3, <4>1, Zenon
    <3>5. s \in SUBSET S
      OBVIOUS
    <3>6. part(rest(s))[s] = part(x)[s]
      BY <1>0, <3>4, <3>5, Zenon
    <3>. QED  BY <3>2, <3>6
  <2>7. Recursive(g, T, base, choice, step)
    <3>. SUFFICES ASSUME NEW s \in SUBSET T
                  PROVE  g[s] = IF s = {} THEN base ELSE step[choice[s]][g[s \ {choice[s]}]]
      BY Zenon DEF Recursive
    <3>1. CASE s = T /\ T = {}
      BY <3>1
    <3>2. CASE s = T /\ T # {}
      <4>1. g[T] = step[c][part(c)[T \ {c}]]
        BY <3>2
      <4>2. g[T \ {c}] = part(c)[T \ {c}]
        BY <2>3, <2>6, <3>2, Zenon
      <4>. QED  BY <3>2, <4>1, <4>2
    <3>3. CASE s # T
      <4>. DEFINE x == rest(s)
      <4>1. x \in T /\ s \in SUBSET (T \ {x})
        BY <2>2, <3>3
      <4>. HIDE DEF x, g
      <4>2. s \ {choice[s]} \in SUBSET (T \ {x})
        BY <4>1
      <4>3. g[s] = part(x)[s] /\ g[s \ {choice[s]}] = part(x)[s \ {choice[s]}]
        BY <2>6, <4>1, <4>2, Zenon
      <4>4. part(x)[s] = IF s = {} THEN base ELSE step[choice[s]][part(x)[s \ {choice[s]}]]
        BY <2>4, <4>1, Zenon DEF Recursive
      <4>. QED  BY <4>3, <4>4, Zenon
    <3>. QED  BY <3>1, <3>2, <3>3
  <2>. HIDE DEF g
  <2>8. g \in Sol(T)
    BY <2>5, <2>7, Zenon DEF Sol
  <2>. QED  BY <2>8
<1>2. C \in SUBSET SUBSET S
  OBVIOUS
<1>. HIDE DEF C
<1>3. C = SUBSET S
  BY <1>1, <1>2, SubsetInduction, Zenon
<1>. QED  BY <1>3 DEF C

-----------------------------------------------------------------------------
(* Sums.                                                                   *)

First(s) == CHOOSE x \in s : TRUE

Sums(g, f, S) ==
    /\ \A s \in SUBSET S : g[s] = IF s = {} THEN 0 ELSE f[First(s)] + g[s \ {First(s)}]
    /\ \A D \in SUBSET S : SumFunctionOnSet(f, D) = g[D]

\* The sums of a function over the subsets of its domain, computed one element at a time.
LEMMA SumIsRecursive ==
    ASSUME NEW S, IsFiniteSet(S), NEW f \in [S -> Int]
    PROVE  \E g \in [SUBSET S -> Int] : Sums(g, f, S)
<1>. DEFINE choice == [s \in SUBSET S |-> First(s)]
            step == [x \in S |-> [v \in Int |-> f[x] + v]]
<1>1. Chooses(choice, S)
  <2>. SUFFICES ASSUME NEW s \in SUBSET S, s # {} PROVE First(s) \in s
    BY DEF Chooses
  <2>. QED  BY DEF First
<1>2. step \in [S -> [Int -> Int]]
  OBVIOUS
<1>3. PICK g \in [SUBSET S -> Int] :
         Recursive(g, S, 0, choice, step)
  <2>. HIDE DEF choice, step
  <2>1. 0 \in Int
    OBVIOUS
  <2>. QED  BY <1>1, <1>2, <2>1, Recursion, Zenon
<1>4. ASSUME NEW s \in SUBSET S
      PROVE  g[s] = IF s = {} THEN 0 ELSE f[First(s)] + g[s \ {First(s)}]
  <2>1. g[s] = IF s = {} THEN 0 ELSE step[choice[s]][g[s \ {choice[s]}]]
    BY <1>3, Zenon DEF Recursive
  <2>2. CASE s = {}
    BY <2>1, <2>2
  <2>3. CASE s # {}
    <3>1. choice[s] = First(s) /\ First(s) \in S /\ s \ {First(s)} \in SUBSET S
      BY <1>1, <2>3 DEF Chooses
    <3>2. g[s \ {First(s)}] \in Int
      BY <3>1
    <3>. QED  BY <2>1, <2>3, <3>1, <3>2
  <2>. QED  BY <2>2, <2>3
<1>5. ASSUME NEW D \in SUBSET S PROVE SumFunctionOnSet(f, D) = g[D]
  <2>. DEFINE Body(h, s) == IF s = {} THEN 0
                            ELSE f[CHOOSE x \in s : TRUE] + h[s \ {CHOOSE x \in s : TRUE}]
              k == [s \in SUBSET D |-> g[s]]
  <2>1. k = [s \in SUBSET D |-> Body(k, s)]
    <3>. SUFFICES ASSUME NEW s \in SUBSET D PROVE g[s] = Body(k, s)
      BY Zenon
    <3>1. CASE s = {}
      BY <1>4, <3>1
    <3>2. CASE s # {}
      <4>1. s \in SUBSET S /\ s \ {First(s)} \in SUBSET D
        OBVIOUS
      <4>2. g[s] = f[First(s)] + g[s \ {First(s)}]
        BY <1>4, <3>2, <4>1
      <4>3. k[s \ {First(s)}] = g[s \ {First(s)}]
        BY <4>1
      <4>. HIDE DEF k
      <4>. QED  BY <3>2, <4>2, <4>3, Zenon DEF First
    <3>. QED  BY <3>1, <3>2
  <2>. HIDE DEF k
  <2>2. PICK h : h = [s \in SUBSET D |-> Body(h, s)] /\ SumFunctionOnSet(f, D) = h[D]
    BY <2>1, Zenon DEF SumFunctionOnSet, FoldFunctionOnSet, MapThenFoldSet
  <2>. DEFINE E == {s \in SUBSET S : s \in SUBSET D => h[s] = g[s]}
  <2>3. ASSUME NEW T \in SUBSET S, \A x \in T : T \ {x} \in E PROVE T \in E
    <3>. SUFFICES ASSUME T \in SUBSET D PROVE h[T] = g[T]
      OBVIOUS
    <3>1. h[T] = Body(h, T)
      BY <2>2
    <3>2. CASE T = {}
      BY <1>4, <3>1, <3>2
    <3>3. CASE T # {}
      <4>1. First(T) \in T
        BY <1>1, <3>3 DEF Chooses
      <4>2. T \ {First(T)} \in E /\ T \ {First(T)} \in SUBSET D
        BY <2>3, <4>1
      <4>3. h[T \ {First(T)}] = g[T \ {First(T)}]
        BY <4>2
      <4>4. h[T] = f[First(T)] + h[T \ {First(T)}]
        BY <3>1, <3>3, Zenon DEF First
      <4>. QED  BY <1>4, <3>3, <4>3, <4>4, Zenon
    <3>. QED  BY <3>2, <3>3
  <2>4. E \in SUBSET SUBSET S
    OBVIOUS
  <2>. HIDE DEF E
  <2>5. E = SUBSET S
    BY <2>3, <2>4, SubsetInduction, Zenon
  <2>. QED  BY <2>2, <2>5 DEF E
<1>. QED  BY <1>4, <1>5, Zenon DEF Sums

AddsUp(f, S) ==
    /\ SumFunctionOnSet(f, {}) = 0
    /\ \A T \in SUBSET S : SumFunctionOnSet(f, T) \in Int
    /\ \A T \in SUBSET S : \A x \in T :
          SumFunctionOnSet(f, T) = f[x] + SumFunctionOnSet(f, T \ {x})

\* A sum is the sum of any one element and the rest.
LEMMA SumParts ==
    ASSUME NEW S, IsFiniteSet(S), NEW f \in [S -> Int]
    PROVE  AddsUp(f, S)
<1>0. PICK g \in [SUBSET S -> Int] : Sums(g, f, S)
  BY SumIsRecursive, Zenon
<1>1. /\ \A s \in SUBSET S : g[s] = IF s = {} THEN 0 ELSE f[First(s)] + g[s \ {First(s)}]
      /\ \A D \in SUBSET S : SumFunctionOnSet(f, D) = g[D]
  BY <1>0, Zenon DEF Sums
<1>. DEFINE E == {T \in SUBSET S : \A x \in T : g[T] = f[x] + g[T \ {x}]}
<1>2. ASSUME NEW T \in SUBSET S, \A x \in T : T \ {x} \in E PROVE T \in E
  <2>. SUFFICES ASSUME NEW x \in T PROVE g[T] = f[x] + g[T \ {x}]
    OBVIOUS
  <2>. DEFINE c == First(T)
  <2>1. g[T] = f[c] + g[T \ {c}]
    BY <1>1, Zenon
  <2>2. c \in T
    BY DEF First
  <2>. HIDE DEF c
  <2>3. CASE x # c
    <3>1. T \ {c} \in E /\ T \ {x} \in E /\ x \in T \ {c} /\ c \in T \ {x}
      BY <1>2, <2>2, <2>3
    <3>2. g[T \ {c}] = f[x] + g[(T \ {c}) \ {x}]
      BY <3>1
    <3>3. g[T \ {x}] = f[c] + g[(T \ {x}) \ {c}]
      BY <3>1
    <3>4. (T \ {c}) \ {x} = (T \ {x}) \ {c} /\ (T \ {c}) \ {x} \in SUBSET S
      OBVIOUS
    <3>5. f[x] \in Int /\ f[c] \in Int /\ g[(T \ {c}) \ {x}] \in Int
      BY <2>2, <3>4
    <3>6. g[T] = f[c] + (f[x] + g[(T \ {c}) \ {x}]) /\ g[T \ {x}] = f[c] + g[(T \ {c}) \ {x}]
      BY <2>1, <3>2, <3>3, <3>4, Zenon
    <3>. HIDE DEF E
    <3>. QED  BY <3>5, <3>6
  <2>. QED  BY <2>1, <2>3
<1>3. E \in SUBSET SUBSET S
  OBVIOUS
<1>. HIDE DEF E
<1>4. E = SUBSET S
  BY <1>2, <1>3, SubsetInduction, Zenon
<1>5. {} \in SUBSET S /\ g[{}] = 0
  BY <1>1
<1>6. \A T \in SUBSET S : g[T] \in Int /\ SumFunctionOnSet(f, T) = g[T]
  BY <1>1
<1>7. ASSUME NEW T \in SUBSET S, NEW x \in T PROVE g[T] = f[x] + g[T \ {x}] /\ T \ {x} \in SUBSET S
  BY <1>4 DEF E
<1>. QED  BY <1>5, <1>6, <1>7, Zenon DEF AddsUp

Shifted(f, S, x, d) == [a \in S |-> f[a] + (IF a = x THEN d ELSE 0)]

\* Adding to one value of a function adds to the sum.
LEMMA SumShift ==
    ASSUME NEW S, IsFiniteSet(S), NEW f \in [S -> Int], NEW x \in S, NEW d \in Int
    PROVE  SumFunctionOnSet(Shifted(f, S, x, d), S) = SumFunctionOnSet(f, S) + d
<1>. DEFINE h == [a \in S |-> f[a] + (IF a = x THEN d ELSE 0)]
            F(T) == SumFunctionOnSet(f, T)
            H(T) == SumFunctionOnSet(h, T)
            E == {T \in SUBSET S : H(T) = F(T) + (IF x \in T THEN d ELSE 0)}
<1>1. h \in [S -> Int] /\ \A a \in S : h[a] = f[a] + (IF a = x THEN d ELSE 0)
  OBVIOUS
<1>. HIDE DEF h
<1>2. /\ F({}) = 0 /\ \A T \in SUBSET S : F(T) \in Int
      /\ \A T \in SUBSET S : \A a \in T : F(T) = f[a] + F(T \ {a})
  <2>1. AddsUp(f, S)
    BY SumParts, Zenon
  <2>. QED  BY <2>1, Zenon DEF AddsUp
<1>3. /\ H({}) = 0 /\ \A T \in SUBSET S : H(T) \in Int
      /\ \A T \in SUBSET S : \A a \in T : H(T) = h[a] + H(T \ {a})
  <2>1. AddsUp(h, S)
    BY <1>1, SumParts, Zenon
  <2>. QED  BY <2>1, Zenon DEF AddsUp
<1>. HIDE DEF F, H
<1>4. ASSUME NEW T \in SUBSET S, \A a \in T : T \ {a} \in E PROVE T \in E
  <2>1. CASE T = {}
    BY <1>2, <1>3, <2>1
  <2>2. CASE T # {}
    <3>1. PICK a \in T : TRUE
      BY <2>2
    <3>2. T \ {a} \in SUBSET S /\ H(T \ {a}) = F(T \ {a}) + (IF x \in T \ {a} THEN d ELSE 0)
      BY <1>4
    <3>3. F(T) = f[a] + F(T \ {a}) /\ H(T) = h[a] + H(T \ {a})
      BY <1>2, <1>3
    <3>4. h[a] = f[a] + (IF a = x THEN d ELSE 0) /\ f[a] \in Int /\ F(T \ {a}) \in Int
      BY <1>1, <1>2, <3>2
    <3>. QED  BY <3>2, <3>3, <3>4
  <2>. QED  BY <2>1, <2>2
<1>5. E \in SUBSET SUBSET S
  OBVIOUS
<1>. HIDE DEF E
<1>6. E = SUBSET S
  BY <1>4, <1>5, SubsetInduction, Zenon
<1>7. H(S) = F(S) + d
  BY <1>6 DEF E
<1>. QED  BY <1>7 DEF F, H, h, Shifted

\* The sum of a constant.
LEMMA SumConst ==
    ASSUME NEW S, IsFiniteSet(S), NEW k \in Int
    PROVE  SumFunctionOnSet([a \in S |-> k], S) = Cardinality(S) * k
<1>. DEFINE h == [a \in S |-> k]
            H(T) == SumFunctionOnSet(h, T)
            E == {T \in SUBSET S : H(T) = Cardinality(T) * k}
<1>1. h \in [S -> Int] /\ \A a \in S : h[a] = k
  OBVIOUS
<1>. HIDE DEF h
<1>2. /\ H({}) = 0 /\ \A T \in SUBSET S : H(T) \in Int
      /\ \A T \in SUBSET S : \A a \in T : H(T) = h[a] + H(T \ {a})
  <2>1. AddsUp(h, S)
    BY <1>1, SumParts, Zenon
  <2>. QED  BY <2>1, Zenon DEF AddsUp
<1>. HIDE DEF H
<1>3. ASSUME NEW T \in SUBSET S, \A a \in T : T \ {a} \in E PROVE T \in E
  <2>1. CASE T = {}
    <3>1. Cardinality({}) = 0
      BY FS_EmptySet
    <3>. QED  BY <1>2, <2>1, <3>1
  <2>2. CASE T # {}
    <3>1. PICK a \in T : TRUE
      BY <2>2
    <3>2. IsFiniteSet(T)
      BY FS_Subset, Zenon
    <3>. DEFINE n == Cardinality(T)
    <3>3. n \in Nat /\ Cardinality(T \ {a}) = n - 1
      BY <3>2, FS_CardinalityType, FS_RemoveElement
    <3>. HIDE DEF n
    <3>4. H(T \ {a}) = (n - 1) * k
      BY <1>3, <3>3
    <3>5. H(T) = k + (n - 1) * k
      BY <1>1, <1>2, <3>4
    <3>6. k + (n - 1) * k = n * k
      BY <3>3
    <3>. QED  BY <3>5, <3>6 DEF n
  <2>. QED  BY <2>1, <2>2
<1>4. E \in SUBSET SUBSET S
  OBVIOUS
<1>. HIDE DEF E
<1>5. E = SUBSET S
  BY <1>3, <1>4, SubsetInduction, Zenon
<1>6. H(S) = Cardinality(S) * k
  BY <1>5 DEF E
<1>. QED  BY <1>6 DEF H, h
=============================================================================
