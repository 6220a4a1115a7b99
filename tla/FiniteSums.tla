----------------------------- MODULE FiniteSums -----------------------------
(***************************************************************************)
(* What SumFunctionOnSet computes, over any finite set: it does not depend *)
(* on the order in which the elements are chosen, so that sums split, swap *)
(* and cancel as they should.                                              *)
(***************************************************************************)
EXTENDS Integers, FiniteSets, Functions, FiniteSetTheorems, WellFoundedInduction, TLAPS

-----------------------------------------------------------------------------
(* Induction, over numbers and over the subsets of a finite set.           *)

LEMMA Least ==
  ASSUME NEW T, T \subseteq Nat, T # {}
  PROVE  \E n \in T : \A m \in T : n <= m
<1>1. PICK n \in T : \A m \in T : ~(<<m, n>> \in OpToRel(<, Nat))
  BY WFMin, NatLessThanWellFounded
<1>2. \A m \in T : ~(m < n)
  BY <1>1 DEF OpToRel
<1> QED BY <1>2

LEMMA CountUp ==
  ASSUME NEW G, 0 \in G, \A n \in Nat : n \in G => n + 1 \in G
  PROVE  Nat \subseteq G
<1> SUFFICES ASSUME {n \in Nat : n \notin G} # {} PROVE FALSE
  OBVIOUS
<1>1. PICK n \in {m \in Nat : m \notin G} : \A m \in {k \in Nat : k \notin G} : n <= m
  BY Least
<1>2. n \in Nat /\ n # 0 /\ n - 1 \in Nat
  BY <1>1
<1>3. n - 1 \in G
  BY <1>1, <1>2
<1> QED BY <1>1, <1>2, <1>3

LEMMA AddUp ==
  ASSUME NEW S, IsFiniteSet(S), NEW G, {} \in G,
         \A s \in SUBSET S : \A x \in S \ s : s \in G => s \cup {x} \in G
  PROVE  S \in G
<1> DEFINE H == {n \in Nat : \A s \in SUBSET S : Cardinality(s) = n => s \in G}
<1>0. \A s \in SUBSET S : IsFiniteSet(s) /\ Cardinality(s) \in Nat
  BY FS_Subset, FS_CardinalityType
<1>1. 0 \in H
  BY <1>0, FS_EmptySet
<1>2. ASSUME NEW n \in Nat, n \in H
      PROVE  n + 1 \in H
  <2> SUFFICES ASSUME NEW s \in SUBSET S, Cardinality(s) = n + 1
               PROVE  s \in G
    OBVIOUS
  <2>1. PICK x : x \in s
    BY <1>0, FS_EmptySet
  <2>2. Cardinality(s \ {x}) = n
    <3>1. Cardinality(s \ {x}) = Cardinality(s) - 1
      BY <1>0, <2>1, FS_RemoveElement
    <3> QED BY <3>1
  <2>3. s \ {x} \in G
    BY <1>2, <2>2
  <2> QED BY <2>1, <2>3
<1>3. Nat \subseteq H
  <2> HIDE DEF H
  <2> QED BY <1>1, <1>2, CountUp
<1> QED BY <1>0, <1>3

-----------------------------------------------------------------------------
(* The recursion is defined.                                               *)

Integral(f, S) == IsFiniteSet(S) /\ \A x \in S : f[x] \in Int

LEMMA IntegralParts ==
  ASSUME NEW S, NEW f, Integral(f, S)
  PROVE  \A s \in SUBSET S : /\ Integral(f, s) /\ IsFiniteSet(s) /\ Cardinality(s) \in Nat
                             /\ \A x \in s : f[x] \in Int
BY FS_Subset, FS_CardinalityType DEF Integral

First(s) == CHOOSE x \in s : TRUE
Recursion(f, s, it) == IF s = {} THEN 0 ELSE f[First(s)] + it[s \ {First(s)}]
Solves(f, S, it) == it = [s \in SUBSET S |-> Recursion(f, s, it)]
Partial(f, S) == CHOOSE it : Solves(f, S, it)

LEMMA Unfold ==
  ASSUME NEW f, NEW S
  PROVE  SumFunctionOnSet(f, S) = Partial(f, S)[S]
BY DEF SumFunctionOnSet, FoldFunctionOnSet, MapThenFoldSet, Partial, Solves, Recursion, First

LEMMA FirstIn ==
  ASSUME NEW s, s # {}
  PROVE  First(s) \in s
BY DEF First

LEMMA PartialExists ==
  ASSUME NEW S, NEW f, Integral(f, S)
  PROVE  \E it : Solves(f, S, it)
<1>0. \A s \in SUBSET S : /\ IsFiniteSet(s) /\ Cardinality(s) \in Nat
                          /\ \A x \in s : f[x] \in Int
  BY IntegralParts
<1> DEFINE Works(it, n) ==
             \A s \in SUBSET S : Cardinality(s) <= n => it[s] = Recursion(f, s, it)
           H == {n \in Nat : \E it \in [SUBSET S -> Int] : Works(it, n)}
<1>1. 0 \in H
  <2> DEFINE it == [s \in SUBSET S |-> 0]
  <2>1. \A s \in SUBSET S : Cardinality(s) <= 0 => s = {}
    BY <1>0, FS_EmptySet
  <2>2. Works(it, 0)
    BY <2>1 DEF Recursion
  <2>3. it \in [SUBSET S -> Int]
    OBVIOUS
  <2> QED BY <2>2, <2>3
<1>2. ASSUME NEW n \in Nat, n \in H
      PROVE  n + 1 \in H
  <2>1. PICK it \in [SUBSET S -> Int] : Works(it, n)
    BY <1>2
  <2> DEFINE next == [s \in SUBSET S |-> IF Cardinality(s) <= n THEN it[s] ELSE Recursion(f, s, it)]
  <2>2. ASSUME NEW s \in SUBSET S
        PROVE  Recursion(f, s, it) \in Int
    <3>1. s # {} => First(s) \in s /\ f[First(s)] \in Int
      BY <1>0, FirstIn
    <3> QED BY <3>1 DEF Recursion
  <2>3. next \in [SUBSET S -> Int]
    BY <2>2
  <2>4. ASSUME NEW s \in SUBSET S, Cardinality(s) <= n + 1
        PROVE  next[s] = Recursion(f, s, next)
    <3>1. next[s] = Recursion(f, s, it)
      BY <2>1
    <3>2. CASE s = {}
      BY <3>1, <3>2 DEF Recursion
    <3>3. CASE s # {}
      <4>1. First(s) \in s
        BY <3>3, FirstIn
      <4>2. Cardinality(s \ {First(s)}) = Cardinality(s) - 1
        BY <1>0, <4>1, FS_RemoveElement
      <4>3. Cardinality(s \ {First(s)}) <= n
        BY <1>0, <2>4, <4>2
      <4>4. next[s \ {First(s)}] = it[s \ {First(s)}]
        BY <4>3
      <4> HIDE DEF next
      <4> QED BY <3>1, <3>3, <4>4 DEF Recursion
    <3> QED BY <3>2, <3>3
  <2> HIDE DEF next
  <2> QED BY <2>3, <2>4
<1>3. Nat \subseteq H
  <2> HIDE DEF H
  <2> QED BY <1>1, <1>2, CountUp
<1>4. PICK it \in [SUBSET S -> Int] : Works(it, Cardinality(S))
  BY <1>0, <1>3
<1>5. \A s \in SUBSET S : it[s] = Recursion(f, s, it)
  BY <1>0, <1>4, FS_Subset
<1> QED BY <1>5 DEF Solves

LEMMA PartialIs ==
  ASSUME NEW S, NEW f, Integral(f, S)
  PROVE  \A s \in SUBSET S : Partial(f, S)[s] = Recursion(f, s, Partial(f, S))
<1>1. \E it : Solves(f, S, it)
  BY PartialExists
<1>2. PICK p : p = Partial(f, S)
  OBVIOUS
<1>3. Solves(f, S, p)
  BY <1>1, <1>2 DEF Partial
<1>4. \A s \in SUBSET S : p[s] = Recursion(f, s, p)
  BY <1>3 DEF Solves
<1> QED BY <1>2, <1>4

LEMMA PartialInt ==
  ASSUME NEW S, NEW f, Integral(f, S)
  PROVE  \A s \in SUBSET S : Partial(f, S)[s] \in Int
<1>0. PICK p : p = Partial(f, S)
  OBVIOUS
<1> DEFINE G == {s \in SUBSET S : \A r \in SUBSET s : p[r] \in Int}
           H == {n \in Nat : \A s \in SUBSET S : Cardinality(s) = n => p[s] \in Int}
<1>1. \A s \in SUBSET S : /\ IsFiniteSet(s) /\ Cardinality(s) \in Nat
                          /\ p[s] = Recursion(f, s, p)
  BY <1>0, IntegralParts, PartialIs
<1>2. 0 \in H
  <2>1. \A s \in SUBSET S : Cardinality(s) = 0 => s = {}
    BY <1>1, FS_EmptySet
  <2>2. p[{}] = 0
    BY <1>1 DEF Recursion
  <2> QED BY <2>1, <2>2
<1>3. ASSUME NEW n \in Nat, n \in H
      PROVE  n + 1 \in H
  <2> SUFFICES ASSUME NEW s \in SUBSET S, Cardinality(s) = n + 1
               PROVE  p[s] \in Int
    OBVIOUS
  <2>1. s # {}
    BY FS_EmptySet
  <2>2. First(s) \in s
    BY <2>1, FirstIn
  <2>3. Cardinality(s \ {First(s)}) = Cardinality(s) - 1
    BY <1>1, <2>2, FS_RemoveElement
  <2>4. p[s \ {First(s)}] \in Int
    BY <1>3, <2>3
  <2>5. p[s] = f[First(s)] + p[s \ {First(s)}]
    BY <1>1, <2>1 DEF Recursion
  <2>6. f[First(s)] \in Int
    BY <2>2 DEF Integral
  <2> QED BY <2>4, <2>5, <2>6
<1>4. Nat \subseteq H
  <2> HIDE DEF H
  <2> QED BY <1>2, <1>3, CountUp
<1> QED BY <1>0, <1>1, <1>4

\* Whichever element is taken first.
AnyOrder(f, S) == \A s \in SUBSET S : \A x \in s : Partial(f, S)[s] = f[x] + Partial(f, S)[s \ {x}]

LEMMA AnyFirst ==
  ASSUME NEW S, NEW f, Integral(f, S)
  PROVE  AnyOrder(f, S)
<1>0. PICK p : p = Partial(f, S)
  OBVIOUS
<1> DEFINE H == {n \in Nat : \A s \in SUBSET S : Cardinality(s) = n =>
                               \A x \in s : p[s] = f[x] + p[s \ {x}]}
<1>1. \A s \in SUBSET S : /\ IsFiniteSet(s) /\ Cardinality(s) \in Nat
                          /\ p[s] \in Int /\ p[s] = Recursion(f, s, p)
  BY <1>0, IntegralParts, PartialIs, PartialInt
<1>2. 0 \in H
  BY <1>1, FS_EmptySet
<1>3. ASSUME NEW n \in Nat, n \in H
      PROVE  n + 1 \in H
  <2> SUFFICES ASSUME NEW s \in SUBSET S, Cardinality(s) = n + 1, NEW x \in s
               PROVE  p[s] = f[x] + p[s \ {x}]
    OBVIOUS
  <2>1. PICK c : c = First(s) /\ c \in s
    BY FirstIn
  <2>2. p[s] = f[c] + p[s \ {c}]
    BY <1>1, <2>1 DEF Recursion
  <2>3. CASE x # c
    <3>1. Cardinality(s \ {c}) = n /\ Cardinality(s \ {x}) = n
      <4>1. Cardinality(s \ {c}) = Cardinality(s) - 1 /\ Cardinality(s \ {x}) = Cardinality(s) - 1
        BY <1>1, <2>1, FS_RemoveElement
      <4> QED BY <4>1
    <3>2. p[s \ {c}] = f[x] + p[(s \ {c}) \ {x}]
      BY <1>3, <2>1, <2>3, <3>1
    <3>3. p[s \ {x}] = f[c] + p[(s \ {x}) \ {c}]
      BY <1>3, <2>1, <2>3, <3>1
    <3>4. (s \ {c}) \ {x} = (s \ {x}) \ {c}
      OBVIOUS
    <3>5. PICK rest, fx, fc, a, b : /\ rest = p[(s \ {x}) \ {c}] /\ fx = f[x] /\ fc = f[c]
                                    /\ a = p[s \ {c}] /\ b = p[s \ {x}]
      OBVIOUS
    <3>6. rest \in Int /\ fx \in Int /\ fc \in Int
      <4>1. f[x] \in Int /\ f[c] \in Int
        BY <2>1 DEF Integral
      <4> QED BY <1>1, <3>5, <4>1
    <3>7. a = fx + rest /\ b = fc + rest
      BY <3>2, <3>3, <3>4, <3>5
    <3>8. fc + a = fx + b
      BY <3>6, <3>7
    <3> QED BY <2>2, <3>5, <3>8
  <2> QED BY <2>2, <2>3
<1>4. Nat \subseteq H
  <2> HIDE DEF H
  <2> QED BY <1>2, <1>3, CountUp
<1> QED BY <1>0, <1>1, <1>4 DEF AnyOrder

\* Whatever set the subset is taken from.
LEMMA SamePartial ==
  ASSUME NEW S, NEW f, Integral(f, S), NEW T \in SUBSET S
  PROVE  Partial(f, T)[T] = Partial(f, S)[T]
<1>0. PICK p, q : p = Partial(f, S) /\ q = Partial(f, T)
  OBVIOUS
<1>1. Integral(f, T) /\ IsFiniteSet(T)
  BY IntegralParts
<1>5. \A s \in SUBSET T : \A x \in s : Partial(f, T)[s] = f[x] + Partial(f, T)[s \ {x}]
  <2>1. AnyOrder(f, T)
    BY <1>1, AnyFirst
  <2> QED BY <2>1 DEF AnyOrder
<1> DEFINE G == {s \in SUBSET T : p[s] = q[s]}
<1>2. p[{}] = 0 /\ q[{}] = 0
  BY <1>0, <1>1, PartialIs DEF Recursion
<1>3. ASSUME NEW s \in SUBSET T, NEW x \in T \ s, s \in G
      PROVE  s \cup {x} \in G
  <2>1. (s \cup {x}) \ {x} = s
    OBVIOUS
  <2>2. p[s \cup {x}] = f[x] + p[s]
    BY <1>0, <2>1, AnyFirst DEF AnyOrder
  <2>3. q[s \cup {x}] = f[x] + q[s]
    BY <1>0, <1>5, <2>1
  <2> QED BY <1>3, <2>2, <2>3
<1>4. T \in G
  <2> HIDE DEF G
  <2>1. {} \in G
    BY <1>2 DEF G
  <2> QED BY <1>1, <1>3, <2>1, AddUp
<1> QED BY <1>0, <1>4

-----------------------------------------------------------------------------
(* Sums.                                                                   *)

LEMMA SumInt ==
  ASSUME NEW S, NEW f, Integral(f, S)
  PROVE  SumFunctionOnSet(f, S) \in Int
BY Unfold, PartialInt

LEMMA SumEmpty ==
  ASSUME NEW f
  PROVE  SumFunctionOnSet(f, {}) = 0
<1>1. Integral(f, {})
  BY FS_EmptySet DEF Integral
<1>2. Partial(f, {})[{}] = 0
  BY <1>1, PartialIs DEF Recursion
<1> QED BY <1>2, Unfold

LEMMA SumRemove ==
  ASSUME NEW S, NEW f, Integral(f, S), NEW x \in S
  PROVE  SumFunctionOnSet(f, S) = f[x] + SumFunctionOnSet(f, S \ {x})
<1>1. Partial(f, S)[S] = f[x] + Partial(f, S)[S \ {x}]
  BY AnyFirst DEF AnyOrder
<1>2. Partial(f, S \ {x})[S \ {x}] = Partial(f, S)[S \ {x}]
  BY SamePartial
<1> QED BY <1>1, <1>2, Unfold

LEMMA SumAdd ==
  ASSUME NEW S, NEW f, Integral(f, S), NEW s \in SUBSET S, NEW x \in S \ s
  PROVE  SumFunctionOnSet(f, s \cup {x}) = f[x] + SumFunctionOnSet(f, s)
<1>1. Integral(f, s \cup {x}) /\ (s \cup {x}) \ {x} = s
  BY FS_Subset DEF Integral
<1>2. SumFunctionOnSet(f, s \cup {x}) = f[x] + SumFunctionOnSet(f, (s \cup {x}) \ {x})
  BY <1>1, SumRemove
<1> QED BY <1>1, <1>2

LEMMA SumSubsetInt ==
  ASSUME NEW S, NEW f, Integral(f, S)
  PROVE  \A s \in SUBSET S : SumFunctionOnSet(f, s) \in Int
BY IntegralParts, SumInt

LEMMA SumSame ==
  ASSUME NEW S, NEW f, Integral(f, S), NEW g, \A x \in S : g[x] = f[x]
  PROVE  SumFunctionOnSet(g, S) = SumFunctionOnSet(f, S)
<1> DEFINE G == {s \in SUBSET S : SumFunctionOnSet(g, s) = SumFunctionOnSet(f, s)}
<1>1. Integral(g, S) /\ IsFiniteSet(S)
  BY DEF Integral
<1>2. {} \in G
  BY SumEmpty
<1>3. ASSUME NEW s \in SUBSET S, NEW x \in S \ s, s \in G
      PROVE  s \cup {x} \in G
  <2>1. SumFunctionOnSet(f, s \cup {x}) = f[x] + SumFunctionOnSet(f, s)
    BY SumAdd
  <2>2. SumFunctionOnSet(g, s \cup {x}) = g[x] + SumFunctionOnSet(g, s)
    BY <1>1, SumAdd
  <2> QED BY <1>3, <2>1, <2>2
<1>4. S \in G
  <2> HIDE DEF G
  <2> QED BY <1>1, <1>2, <1>3, AddUp
<1> QED BY <1>4

LEMMA SumPlus ==
  ASSUME NEW S, NEW f, Integral(f, S), NEW g, Integral(g, S),
         NEW h, \A x \in S : h[x] = f[x] + g[x]
  PROVE  SumFunctionOnSet(h, S) = SumFunctionOnSet(f, S) + SumFunctionOnSet(g, S)
<1> DEFINE G == {s \in SUBSET S :
                   SumFunctionOnSet(h, s) = SumFunctionOnSet(f, s) + SumFunctionOnSet(g, s)}
<1>1. Integral(h, S) /\ IsFiniteSet(S)
  BY DEF Integral
<1>2. {} \in G
  BY SumEmpty
<1>3. ASSUME NEW s \in SUBSET S, NEW x \in S \ s, s \in G
      PROVE  s \cup {x} \in G
  <2>0. PICK a, b, c, d, e, k : /\ a = SumFunctionOnSet(f, s) /\ b = SumFunctionOnSet(g, s)
                                /\ c = SumFunctionOnSet(f, s \cup {x})
                                /\ d = SumFunctionOnSet(g, s \cup {x})
                                /\ e = SumFunctionOnSet(h, s) /\ k = SumFunctionOnSet(h, s \cup {x})
    OBVIOUS
  <2>1. c = f[x] + a
    BY <2>0, SumAdd
  <2>2. d = g[x] + b
    BY <2>0, SumAdd
  <2>3. k = h[x] + e
    BY <1>1, <2>0, SumAdd
  <2>4. a \in Int /\ b \in Int /\ f[x] \in Int /\ g[x] \in Int
    BY <2>0, SumSubsetInt DEF Integral
  <2>5. e = a + b
    BY <1>3, <2>0
  <2>6. h[x] = f[x] + g[x]
    OBVIOUS
  <2>7. k = c + d
    BY <2>1, <2>2, <2>3, <2>4, <2>5, <2>6
  <2> QED BY <2>0, <2>7
<1>4. S \in G
  <2> HIDE DEF G
  <2> QED BY <1>1, <1>2, <1>3, AddUp
<1> QED BY <1>4

LEMMA SumZero ==
  ASSUME NEW S, IsFiniteSet(S), NEW f, \A x \in S : f[x] = 0
  PROVE  SumFunctionOnSet(f, S) = 0
<1>1. Integral(f, S)
  BY DEF Integral
<1>2. SumFunctionOnSet(f, S) = SumFunctionOnSet(f, S) + SumFunctionOnSet(f, S)
  <2>1. \A x \in S : f[x] = f[x] + f[x]
    OBVIOUS
  <2> QED BY <1>1, <2>1, SumPlus
<1>3. PICK a \in Int : a = SumFunctionOnSet(f, S)
  BY <1>1, SumInt
<1>4. a = a + a
  BY <1>2, <1>3
<1>5. a = 0
  BY <1>4
<1> QED BY <1>3, <1>5

LEMMA SumMinus ==
  ASSUME NEW S, NEW f, Integral(f, S), NEW g, \A x \in S : g[x] = -f[x]
  PROVE  SumFunctionOnSet(g, S) = -SumFunctionOnSet(f, S)
<1>1. Integral(g, S) /\ IsFiniteSet(S)
  BY DEF Integral
<1> DEFINE zero == [x \in S |-> 0]
<1>2. SumFunctionOnSet(zero, S) = 0
  BY <1>1, SumZero
<1>3. \A x \in S : zero[x] = f[x] + g[x]
  BY DEF Integral
<1>4. SumFunctionOnSet(zero, S) = SumFunctionOnSet(f, S) + SumFunctionOnSet(g, S)
  <2> HIDE DEF zero
  <2> QED BY <1>1, <1>3, SumPlus
<1>5. PICK a, b \in Int : a = SumFunctionOnSet(f, S) /\ b = SumFunctionOnSet(g, S)
  BY <1>1, SumInt
<1>6. a + b = 0
  BY <1>2, <1>4, <1>5
<1>7. b = -a
  BY <1>6
<1> QED BY <1>5, <1>7

LEMMA SumUnion ==
  ASSUME NEW S, NEW T, S \cap T = {}, NEW f, Integral(f, S \cup T)
  PROVE  SumFunctionOnSet(f, S \cup T) = SumFunctionOnSet(f, S) + SumFunctionOnSet(f, T)
<1> DEFINE G == {t \in SUBSET T :
                   SumFunctionOnSet(f, S \cup t) = SumFunctionOnSet(f, S) + SumFunctionOnSet(f, t)}
<1>1. Integral(f, S) /\ Integral(f, T) /\ IsFiniteSet(T)
  BY IntegralParts
<1>2. {} \in G
  <2>1. SumFunctionOnSet(f, S) \in Int /\ SumFunctionOnSet(f, {}) = 0 /\ S \cup {} = S
    BY <1>1, SumInt, SumEmpty
  <2> QED BY <2>1
<1>3. ASSUME NEW t \in SUBSET T, NEW x \in T \ t, t \in G
      PROVE  t \cup {x} \in G
  <2>0. PICK a, b, c, d, e : /\ a = SumFunctionOnSet(f, S) /\ b = SumFunctionOnSet(f, t)
                             /\ c = SumFunctionOnSet(f, S \cup t)
                             /\ d = SumFunctionOnSet(f, t \cup {x})
                             /\ e = SumFunctionOnSet(f, S \cup (t \cup {x}))
    OBVIOUS
  <2>1. d = f[x] + b
    BY <1>1, <2>0, SumAdd
  <2>2. e = f[x] + c
    <3>1. S \cup (t \cup {x}) = (S \cup t) \cup {x} /\ x \notin S \cup t
      OBVIOUS
    <3>2. S \cup t \in SUBSET (S \cup T) /\ x \in (S \cup T) \ (S \cup t)
      BY <3>1
    <3>3. SumFunctionOnSet(f, (S \cup t) \cup {x}) = f[x] + SumFunctionOnSet(f, S \cup t)
      BY <3>2, SumAdd
    <3> QED BY <2>0, <3>1, <3>3
  <2>3. a \in Int /\ b \in Int /\ f[x] \in Int
    BY <1>1, <2>0, SumInt, SumSubsetInt DEF Integral
  <2>4. c = a + b
    BY <1>3, <2>0
  <2>5. e = a + d
    BY <2>1, <2>2, <2>3, <2>4
  <2> QED BY <2>0, <2>5
<1>4. T \in G
  <2> HIDE DEF G
  <2> QED BY <1>1, <1>2, <1>3, AddUp
<1> QED BY <1>4

\* A sum over what a one-to-one map reaches.
LEMMA SumImage ==
  ASSUME NEW S, NEW T, NEW m, \A x \in S : m[x] \in T, \A y \in T : \E x \in S : m[x] = y,
         \A x, y \in S : m[x] = m[y] => x = y,
         NEW f, Integral(f, T), IsFiniteSet(S), NEW g, \A x \in S : g[x] = f[m[x]]
  PROVE  SumFunctionOnSet(g, S) = SumFunctionOnSet(f, T)
<1> DEFINE image(s) == {m[x] : x \in s}
           G == {s \in SUBSET S : SumFunctionOnSet(g, s) = SumFunctionOnSet(f, image(s))}
<1>1. Integral(g, S)
  BY DEF Integral
<1>2. {} \in G
  <2>1. image({}) = {}
    OBVIOUS
  <2> QED BY <2>1, SumEmpty
<1>3. ASSUME NEW s \in SUBSET S, NEW x \in S \ s, s \in G
      PROVE  s \cup {x} \in G
  <2>1. image(s \cup {x}) = image(s) \cup {m[x]} /\ image(s) \in SUBSET T /\ m[x] \in T \ image(s)
    OBVIOUS
  <2>2. SumFunctionOnSet(g, s \cup {x}) = g[x] + SumFunctionOnSet(g, s)
    BY <1>1, SumAdd
  <2>3. SumFunctionOnSet(f, image(s) \cup {m[x]}) = f[m[x]] + SumFunctionOnSet(f, image(s))
    <3> HIDE DEF image
    <3> QED BY <2>1, SumAdd
  <2> QED BY <1>3, <2>1, <2>2, <2>3
<1>4. S \in G
  <2> HIDE DEF G
  <2> QED BY <1>2, <1>3, AddUp
<1>5. image(S) = T
  OBVIOUS
<1> QED BY <1>4, <1>5

\* A sum, part by part.
LEMMA SumParts ==
  ASSUME NEW S, NEW f, Integral(f, S), NEW T, IsFiniteSet(T), NEW p, \A x \in S : p[x] \in T,
         NEW class, \A y \in T : class[y] \in SUBSET S,
         \A y \in T, x \in S : x \in class[y] <=> p[x] = y,
         NEW g, \A y \in T : g[y] = SumFunctionOnSet(f, class[y])
  PROVE  SumFunctionOnSet(g, T) = SumFunctionOnSet(f, S)
<1> DEFINE part(s, y) == {x \in s : p[x] = y}
           parts(s) == [y \in T |-> SumFunctionOnSet(f, part(s, y))]
           G == {s \in SUBSET S : SumFunctionOnSet(parts(s), T) = SumFunctionOnSet(f, s)}
<1>1. IsFiniteSet(S) /\ \A s \in SUBSET S : Integral(parts(s), T)
  <2>1. ASSUME NEW s \in SUBSET S, NEW y \in T
        PROVE  SumFunctionOnSet(f, part(s, y)) \in Int
    <3>1. part(s, y) \in SUBSET S
      OBVIOUS
    <3> HIDE DEF part
    <3> QED BY <3>1, SumSubsetInt
  <2> QED BY <2>1 DEF Integral
<1>2. {} \in G
  <2>1. \A y \in T : parts({})[y] = 0
    <3>1. \A y \in T : part({}, y) = {}
      OBVIOUS
    <3> QED BY <3>1, SumEmpty
  <2>2. SumFunctionOnSet(parts({}), T) = 0
    <3> HIDE DEF parts
    <3> QED BY <2>1, SumZero
  <2> QED BY <2>2, SumEmpty
<1>3. ASSUME NEW s \in SUBSET S, NEW x \in S \ s, s \in G
      PROVE  s \cup {x} \in G
  <2> DEFINE one == [y \in T |-> IF y = p[x] THEN f[x] ELSE 0]
  <2>1. ASSUME NEW y \in T
        PROVE  parts(s \cup {x})[y] = parts(s)[y] + one[y]
    <3>1. CASE y = p[x]
      <4>1. part(s \cup {x}, y) = part(s, y) \cup {x} /\ part(s, y) \in SUBSET S /\ x \in S \ part(s, y)
        BY <3>1
      <4>2. PICK r : r = part(s, y)
        OBVIOUS
      <4>3. SumFunctionOnSet(f, r \cup {x}) = f[x] + SumFunctionOnSet(f, r)
        BY <4>1, <4>2, SumAdd
      <4>4. f[x] \in Int /\ SumFunctionOnSet(f, r) \in Int
        BY <4>1, <4>2, SumSubsetInt DEF Integral
      <4>5. parts(s \cup {x})[y] = SumFunctionOnSet(f, r \cup {x}) /\ parts(s)[y] = SumFunctionOnSet(f, r)
        BY <4>1, <4>2
      <4>6. one[y] = f[x]
        BY <3>1
      <4> HIDE DEF parts, one
      <4> QED BY <4>3, <4>4, <4>5, <4>6
    <3>2. CASE y # p[x]
      <4>1. part(s \cup {x}, y) = part(s, y) /\ one[y] = 0
        BY <3>2
      <4>2. parts(s)[y] \in Int
        BY <1>1 DEF Integral
      <4>3. parts(s \cup {x})[y] = parts(s)[y]
        BY <4>1
      <4> HIDE DEF parts, one
      <4> QED BY <4>1, <4>2, <4>3
    <3> QED BY <3>1, <3>2
  <2>2. Integral(one, T) /\ Integral(parts(s), T)
    <3>1. f[x] \in Int
      BY DEF Integral
    <3> QED BY <1>1, <3>1 DEF Integral
  <2>3. SumFunctionOnSet(one, T) = f[x]
    <3>1. one[p[x]] = f[x] /\ p[x] \in T /\ \A y \in T \ {p[x]} : one[y] = 0
      OBVIOUS
    <3>2. IsFiniteSet(T \ {p[x]}) /\ f[x] \in Int
      BY FS_Subset DEF Integral
    <3> HIDE DEF one
    <3>3. SumFunctionOnSet(one, T) = one[p[x]] + SumFunctionOnSet(one, T \ {p[x]})
      BY <2>2, <3>1, SumRemove
    <3>4. SumFunctionOnSet(one, T \ {p[x]}) = 0
      BY <3>1, <3>2, SumZero
    <3> QED BY <3>1, <3>2, <3>3, <3>4
  <2>4. SumFunctionOnSet(parts(s \cup {x}), T) = SumFunctionOnSet(parts(s), T) + SumFunctionOnSet(one, T)
    <3>1. PICK before, after, own :
            before = parts(s) /\ after = parts(s \cup {x}) /\ own = one
      OBVIOUS
    <3> HIDE DEF parts, one
    <3>2. /\ \A y \in T : after[y] = before[y] + own[y]
          /\ Integral(before, T) /\ Integral(own, T)
      BY <2>1, <2>2, <3>1
    <3>3. SumFunctionOnSet(after, T) = SumFunctionOnSet(before, T) + SumFunctionOnSet(own, T)
      BY <3>2, SumPlus
    <3> QED BY <3>1, <3>3
  <2>5. SumFunctionOnSet(f, s \cup {x}) = f[x] + SumFunctionOnSet(f, s)
    BY SumAdd
  <2>6. f[x] \in Int /\ SumFunctionOnSet(f, s) \in Int
    BY SumSubsetInt DEF Integral
  <2> HIDE DEF parts, one
  <2> QED BY <1>3, <2>3, <2>4, <2>5, <2>6
<1>4. S \in G
  <2> HIDE DEF G
  <2> QED BY <1>1, <1>2, <1>3, AddUp
<1>5. SumFunctionOnSet(g, T) = SumFunctionOnSet(parts(S), T)
  <2>1. \A y \in T : g[y] = parts(S)[y]
    <3> SUFFICES ASSUME NEW y \in T PROVE g[y] = parts(S)[y]
      OBVIOUS
    <3>1. class[y] = part(S, y)
      OBVIOUS
    <3> HIDE DEF part
    <3> QED BY <3>1
  <2> HIDE DEF parts
  <2> QED BY <1>1, <2>1, SumSame
<1> QED BY <1>4, <1>5

\* A double sum, row by row and column by column.
LEMMA SumSwap ==
  ASSUME NEW A, IsFiniteSet(A), NEW B, IsFiniteSet(B),
         NEW d, \A a \in A : Integral(d[a], B),
         NEW row, \A a \in A : row[a] = SumFunctionOnSet(d[a], B),
         NEW e, \A a \in A, b \in B : e[b][a] = d[a][b],
         NEW column, \A b \in B : column[b] = SumFunctionOnSet(e[b], A)
  PROVE  SumFunctionOnSet(row, A) = SumFunctionOnSet(column, B)
<1> DEFINE columns(s) == [b \in B |-> SumFunctionOnSet(e[b], s)]
           G == {s \in SUBSET A : SumFunctionOnSet(row, s) = SumFunctionOnSet(columns(s), B)}
<1>1. Integral(row, A)
  BY SumInt DEF Integral
<1>2. \A b \in B : Integral(e[b], A)
  BY DEF Integral
<1>3. \A s \in SUBSET A : Integral(columns(s), B)
  BY <1>2, SumSubsetInt DEF Integral
<1>4. {} \in G
  <2>1. \A b \in B : columns({})[b] = 0
    BY SumEmpty
  <2>2. SumFunctionOnSet(columns({}), B) = 0
    <3> HIDE DEF columns
    <3> QED BY <2>1, SumZero
  <2> QED BY <2>2, SumEmpty
<1>5. ASSUME NEW s \in SUBSET A, NEW x \in A \ s, s \in G
      PROVE  s \cup {x} \in G
  <2>1. ASSUME NEW b \in B
        PROVE  columns(s \cup {x})[b] = d[x][b] + columns(s)[b]
    <3>1. SumFunctionOnSet(e[b], s \cup {x}) = e[b][x] + SumFunctionOnSet(e[b], s)
      BY <1>2, SumAdd
    <3> QED BY <3>1
  <2>2. SumFunctionOnSet(columns(s \cup {x}), B) = SumFunctionOnSet(d[x], B) + SumFunctionOnSet(columns(s), B)
    <3>1. Integral(columns(s), B) /\ Integral(d[x], B)
      BY <1>3
    <3>2. PICK before, after, entry :
            before = columns(s) /\ after = columns(s \cup {x}) /\ entry = d[x]
      OBVIOUS
    <3> HIDE DEF columns
    <3>3. \A b \in B : after[b] = entry[b] + before[b]
      BY <2>1, <3>2
    <3>4. Integral(entry, B) /\ Integral(before, B)
      BY <3>1, <3>2
    <3>5. SumFunctionOnSet(after, B) = SumFunctionOnSet(entry, B) + SumFunctionOnSet(before, B)
      BY <3>3, <3>4, SumPlus
    <3> QED BY <3>2, <3>5
  <2>3. SumFunctionOnSet(row, s \cup {x}) = row[x] + SumFunctionOnSet(row, s)
    BY <1>1, SumAdd
  <2> HIDE DEF columns
  <2> QED BY <1>5, <2>2, <2>3
<1>6. A \in G
  <2> HIDE DEF G
  <2> QED BY <1>4, <1>5, AddUp
<1>7. SumFunctionOnSet(column, B) = SumFunctionOnSet(columns(A), B)
  <2>1. \A b \in B : column[b] = columns(A)[b]
    OBVIOUS
  <2>2. Integral(columns(A), B)
    BY <1>3
  <2> HIDE DEF columns
  <2> QED BY <2>1, <2>2, SumSame
<1> QED BY <1>6, <1>7
=============================================================================
