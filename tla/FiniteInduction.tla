------------------------- MODULE FiniteInduction -------------------------
(***************************************************************************)
(* Induction on finite sets, without an operator for the induction         *)
(* hypothesis: a set of subsets that is not empty has a member none of     *)
(* whose elements can be left out.  A proof by induction takes the subsets *)
(* for which the claim fails, and refutes that member.  From it follow     *)
(* that finite sets of integers have a maximum, what adding an element to  *)
(* a set does to a sum over the set, and that a fold over a sequence takes *)
(* one step for each element.                                              *)
(***************************************************************************)
EXTENDS Integers, FiniteSetsExt, FiniteSetTheorems, WellFoundedInduction, TLAPS

(* A set of natural numbers has a least element. *)
LEMMA LeastElement ==
  ASSUME NEW N, N \subseteq Nat, N # {}
  PROVE  \E n \in N : \A m \in N : n <= m
<1>1. IsWellFoundedOn(OpToRel(<,Nat), Nat)
  BY NatLessThanWellFounded
<1>2. PICK n \in N : \A m \in N : ~ (<<m, n>> \in OpToRel(<,Nat))
  BY <1>1, WFMin
<1>3. \A m \in N : ~ (m < n)
  BY <1>2 DEF OpToRel
<1> QED
  BY <1>3, SMT

(* Some member of C has no member of C one element below it. *)
LEMMA MinimalSubset ==
  ASSUME NEW S, IsFiniteSet(S), NEW C, C \subseteq SUBSET S, C # {}
  PROVE  \E T \in C : \A x \in T : T \ {x} \notin C
<1> DEFINE N == {Cardinality(T) : T \in C}
<1>1. \A T \in C : IsFiniteSet(T) /\ Cardinality(T) \in Nat
  <2> TAKE T \in C
  <2>1. IsFiniteSet(T)
    BY FS_Subset
  <2> QED
    BY <2>1, FS_CardinalityType
<1>2. PICK n \in N : \A m \in N : n <= m
  <2>1. N \subseteq Nat /\ N # {}
    BY <1>1
  <2> HIDE DEF N
  <2> QED
    BY <2>1, LeastElement
<1>3. PICK T \in C : n = Cardinality(T)
  BY <1>2
<1>4. ASSUME NEW x \in T, T \ {x} \in C PROVE FALSE
  <2>1. Cardinality(T \ {x}) = Cardinality(T) - 1
    BY <1>1, FS_RemoveElement
  <2>2. Cardinality(T) <= Cardinality(T \ {x})
    BY <1>2, <1>3, <1>4
  <2> QED
    BY <2>1, <2>2, <1>1
<1> QED
  BY <1>4

(* The CHOOSE in Max and Min finds an element. *)
LEMMA GreatestElement ==
  ASSUME NEW S, S \subseteq Int, IsFiniteSet(S), S # {}
  PROVE  \E m \in S : \A x \in S : x <= m
<1> DEFINE HasMax(T) == \E m \in T : \A x \in T : x <= m
           C == {T \in SUBSET S : T # {} /\ ~ HasMax(T)}
<1> SUFFICES ASSUME ~ HasMax(S) PROVE FALSE
  OBVIOUS
<1>1. PICK T \in C : \A x \in T : T \ {x} \notin C
  <2>1. C \subseteq SUBSET S /\ C # {}
    OBVIOUS
  <2> HIDE DEF C
  <2> QED
    BY <2>1, MinimalSubset
<1>2. PICK x \in T : TRUE
  BY <1>1
<1>3. T \ {x} = {} \/ HasMax(T \ {x})
  BY <1>1
<1> QED
  BY <1>1, <1>3

(***************************************************************************)
(* The sum of a function over a finite set.                                *)
(***************************************************************************)
SumOver(g, S) == MapThenSumSet(LAMBDA b : g[b], S)

Some(s) == CHOOSE x \in s : TRUE

Sums(F, g, S) ==
  F = [s \in SUBSET S |-> IF s = {} THEN 0 ELSE g[Some(s)] + F[s \ {Some(s)}]]

(* A function that sums exists: extend one that does up to a cardinality.  *)
LEMMA SumsExist ==
  ASSUME NEW g, NEW S, IsFiniteSet(S)
  PROVE  \E F : Sums(F, g, S)
<1> DEFINE Body(F, s) == IF s = {} THEN 0 ELSE g[Some(s)] + F[s \ {Some(s)}]
           Upto(n) == \E F : \A s \in SUBSET S : Cardinality(s) <= n => F[s] = Body(F, s)
           N == {n \in Nat : ~ Upto(n)}
<1>1. \A s \in SUBSET S : IsFiniteSet(s) /\ Cardinality(s) \in Nat
  <2> TAKE s \in SUBSET S
  <2>1. IsFiniteSet(s)
    BY FS_Subset
  <2> QED
    BY <2>1, FS_CardinalityType
<1>2. \A s \in SUBSET S : s # {} => /\ Some(s) \in s /\ s \ {Some(s)} \in SUBSET S
                                    /\ Cardinality(s \ {Some(s)}) = Cardinality(s) - 1
                                    /\ Cardinality(s) > 0
  <2> TAKE s \in SUBSET S
  <2> HAVE s # {}
  <2>1. Some(s) \in s
    BY DEF Some
  <2>2. Cardinality(s) # 0
    BY <1>1, FS_EmptySet
  <2>3. Cardinality(s \ {Some(s)}) = Cardinality(s) - 1
    BY <2>1, <1>1, FS_RemoveElement
  <2> QED
    BY <2>1, <2>2, <2>3, <1>1
<1>3. N = {}
  <2> SUFFICES ASSUME N # {} PROVE FALSE
    OBVIOUS
  <2>1. PICK n \in N : \A m \in N : n <= m
    <3>1. N \subseteq Nat
      OBVIOUS
    <3> HIDE DEF N
    <3> QED
      BY <3>1, LeastElement
  <2>2. PICK F : \A s \in SUBSET S : Cardinality(s) <= n - 1 => F[s] = Body(F, s)
    <3>1. CASE n = 0
      BY <3>1, <1>1
    <3>2. CASE n # 0
      <4>1. n \in Nat
        OBVIOUS
      <4>2. n - 1 \in Nat /\ ~ (n <= n - 1)
        BY <3>2, <4>1
      <4>3. n - 1 \notin N
        BY <4>2, <2>1
      <4>4. Upto(n - 1)
        <5> HIDE DEF Upto
        <5> QED
          BY <4>2, <4>3
      <4> QED
        BY <4>4
    <3> QED
      BY <3>1, <3>2
  <2> DEFINE G == [s \in SUBSET S |-> Body(F, s)]
  <2>3. \A s \in SUBSET S : Cardinality(s) <= n => G[s] = Body(G, s)
    <3> TAKE s \in SUBSET S
    <3> HAVE Cardinality(s) <= n
    <3>1. CASE s = {}
      BY <3>1
    <3>2. CASE s # {}
      <4> DEFINE t == s \ {Some(s)}
      <4>1. t \in SUBSET S /\ Cardinality(t) <= n - 1
        BY <3>2, <1>1, <1>2
      <4>2. G[t] = F[t]
        BY <4>1, <2>2
      <4>3. G[s] = g[Some(s)] + F[t]
        BY <3>2
      <4> QED
        BY <3>2, <4>2, <4>3
    <3> QED
      BY <3>1, <3>2
  <2> QED
    BY <2>1, <2>3
<1>4. Upto(Cardinality(S))
  BY <1>1, <1>3
<1>5. PICK F : \A s \in SUBSET S : Cardinality(s) <= Cardinality(S) => F[s] = Body(F, s)
  BY <1>4
<1>6. \A s \in SUBSET S : F[s] = Body(F, s)
  BY <1>5, FS_Subset
<1> DEFINE G == [s \in SUBSET S |-> Body(F, s)]
<1>7. \A s \in SUBSET S : G[s] = F[s]
  BY <1>6
<1>8. \A s \in SUBSET S : Body(G, s) = Body(F, s)
  BY <1>7, <1>2
<1>9. G = [s \in SUBSET S |-> Body(G, s)]
  BY <1>8
<1> QED
  BY <1>9 DEF Sums

LEMMA SumOverSums ==
  ASSUME NEW g, NEW S, IsFiniteSet(S)
  PROVE  \E F : Sums(F, g, S) /\ SumOver(g, S) = F[S]
<1> DEFINE F == CHOOSE F : Sums(F, g, S)
<1>1. Sums(F, g, S)
  BY SumsExist
<1>2. SumOver(g, S) = F[S]
  BY DEF SumOver, MapThenSumSet, MapThenFoldSet, Sums, Some
<1> QED
  BY <1>1, <1>2

LEMMA SumsType ==
  ASSUME NEW g, NEW S, IsFiniteSet(S), NEW F, Sums(F, g, S),
         \A x \in S : g[x] \in Int
  PROVE  \A s \in SUBSET S : F[s] \in Int
<1> DEFINE C == {s \in SUBSET S : F[s] \notin Int}
<1> SUFFICES ASSUME C # {} PROVE FALSE
  OBVIOUS
<1>1. PICK s \in C : \A x \in s : s \ {x} \notin C
  <2>1. C \subseteq SUBSET S
    OBVIOUS
  <2> HIDE DEF C
  <2> QED
    BY <2>1, MinimalSubset
<1>2. F[s] = IF s = {} THEN 0 ELSE g[Some(s)] + F[s \ {Some(s)}]
  BY DEF Sums
<1>3. s # {}
  BY <1>2
<1> DEFINE x == Some(s)
<1>4. x \in s /\ g[x] \in Int
  BY <1>3 DEF Some
<1>5. F[s \ {x}] \in Int
  BY <1>1, <1>4
<1>6. F[s] = g[x] + F[s \ {x}]
  BY <1>2, <1>3
<1> QED
  BY <1>4, <1>5, <1>6

(* The sum of a set is that of the set without any one element, plus it. *)
LEMMA SumsStep ==
  ASSUME NEW g, NEW S, IsFiniteSet(S), NEW F, Sums(F, g, S),
         \A x \in S : g[x] \in Int
  PROVE  \A s \in SUBSET S : \A b \in s : F[s] = g[b] + F[s \ {b}]
<1> DEFINE Good(s) == \A b \in s : F[s] = g[b] + F[s \ {b}]
           C == {s \in SUBSET S : ~ Good(s)}
<1> SUFFICES ASSUME C # {} PROVE FALSE
  OBVIOUS
<1>1. PICK s \in C : \A x \in s : s \ {x} \notin C
  <2>1. C \subseteq SUBSET S
    OBVIOUS
  <2> HIDE DEF C
  <2> QED
    BY <2>1, MinimalSubset
<1>2. PICK b \in s : F[s] # g[b] + F[s \ {b}]
  BY <1>1
<1> DEFINE x == Some(s)
<1>3. x \in s /\ s \in SUBSET S /\ F[s] = g[x] + F[s \ {x}]
  <2>1. F[s] = IF s = {} THEN 0 ELSE g[Some(s)] + F[s \ {Some(s)}]
    BY DEF Sums
  <2> QED
    BY <2>1 DEF Some
<1> HIDE DEF x
<1>4. b # x
  BY <1>2, <1>3
<1> DEFINE t == (s \ {x}) \ {b}
<1>5. F[s \ {x}] = g[b] + F[t]
  <2>1. Good(s \ {x})
    BY <1>1, <1>3
  <2> QED
    BY <2>1, <1>4
<1>6. F[s \ {b}] = g[x] + F[t]
  <2>1. Good(s \ {b})
    BY <1>1, <1>3
  <2>2. (s \ {b}) \ {x} = t
    OBVIOUS
  <2>3. F[s \ {b}] = g[x] + F[(s \ {b}) \ {x}]
    BY <2>1, <1>3, <1>4
  <2> QED
    BY <2>2, <2>3
<1>7. F[t] \in Int /\ g[x] \in Int /\ g[b] \in Int
  <2>1. t \in SUBSET S
    BY <1>3
  <2> HIDE DEF t
  <2> QED
    BY <2>1, <1>3, SumsType
<1> HIDE DEF t, C
<1> QED
  BY <1>2, <1>3, <1>5, <1>6, <1>7

LEMMA SumsAgree ==
  ASSUME NEW g, NEW h, NEW S, NEW T, IsFiniteSet(S), S \subseteq T,
         NEW F, NEW G, Sums(F, g, S), Sums(G, h, T), \A x \in S : g[x] = h[x]
  PROVE  F[S] = G[S]
<1> DEFINE C == {s \in SUBSET S : F[s] # G[s]}
<1> SUFFICES ASSUME C # {} PROVE FALSE
  OBVIOUS
<1>1. PICK s \in C : \A x \in s : s \ {x} \notin C
  <2>1. C \subseteq SUBSET S
    OBVIOUS
  <2> HIDE DEF C
  <2> QED
    BY <2>1, MinimalSubset
<1>2. \A x \in s : F[s \ {x}] = G[s \ {x}]
  BY <1>1
<1>3. s \in SUBSET S /\ s \in SUBSET T
  OBVIOUS
<1>4. F[s] = IF s = {} THEN 0 ELSE g[Some(s)] + F[s \ {Some(s)}]
  BY <1>3 DEF Sums
<1>5. G[s] = IF s = {} THEN 0 ELSE h[Some(s)] + G[s \ {Some(s)}]
  BY <1>3 DEF Sums
<1>6. s # {} => Some(s) \in s
  BY DEF Some
<1> QED
  BY <1>2, <1>3, <1>4, <1>5, <1>6

LEMMA SumEmpty ==
  ASSUME NEW g
  PROVE  SumOver(g, {}) = 0
<1>1. PICK F : Sums(F, g, {}) /\ SumOver(g, {}) = F[{}]
  BY SumOverSums, FS_EmptySet
<1> QED
  BY <1>1 DEF Sums

LEMMA SumSame ==
  ASSUME NEW g, NEW h, NEW S, IsFiniteSet(S), \A x \in S : g[x] = h[x]
  PROVE  SumOver(g, S) = SumOver(h, S)
<1>1. PICK F : Sums(F, g, S) /\ SumOver(g, S) = F[S]
  BY SumOverSums
<1>2. PICK G : Sums(G, h, S) /\ SumOver(h, S) = G[S]
  BY SumOverSums
<1> QED
  BY <1>1, <1>2, SumsAgree

LEMMA SumRemove ==
  ASSUME NEW g, NEW S, IsFiniteSet(S), NEW b \in S, \A x \in S : g[x] \in Int
  PROVE  SumOver(g, S) = g[b] + SumOver(g, S \ {b}) /\ SumOver(g, S \ {b}) \in Int
<1> DEFINE T == S \ {b}
<1>1. IsFiniteSet(T)
  BY FS_RemoveElement
<1>2. PICK F : Sums(F, g, S) /\ SumOver(g, S) = F[S]
  BY SumOverSums
<1>3. PICK G : Sums(G, g, T) /\ SumOver(g, T) = G[T]
  BY <1>1, SumOverSums
<1>4. G[T] = F[T]
  <2> HIDE DEF T
  <2>1. T \subseteq S
    BY DEF T
  <2> QED
    BY <1>1, <1>2, <1>3, <2>1, SumsAgree
<1>5. F[S] = g[b] + F[T] /\ F[T] \in Int
  BY <1>2, SumsStep, SumsType
<1> QED
  BY <1>2, <1>3, <1>4, <1>5

(* h extends g by b, and T extends S by b. *)
OneMore(g, S, h, T, b) ==
  /\ IsFiniteSet(S) /\ b \notin S /\ T = S \cup {b}
  /\ h[b] \in Int /\ \A x \in S : g[x] \in Int /\ h[x] = g[x]

LEMMA SumAdd ==
  ASSUME NEW g, NEW S, NEW h, NEW T, NEW b, OneMore(g, S, h, T, b)
  PROVE  SumOver(h, T) = SumOver(g, S) + h[b]
<1>1. IsFiniteSet(T) /\ b \in T /\ (\A x \in T : h[x] \in Int) /\ T \ {b} = S
  BY FS_AddElement DEF OneMore
<1>2. SumOver(h, T) = h[b] + SumOver(h, T \ {b}) /\ SumOver(h, T \ {b}) \in Int
  BY <1>1, SumRemove
<1>3. SumOver(h, T \ {b}) = SumOver(h, S)
  BY <1>1, Zenon
<1>4. SumOver(h, S) = SumOver(g, S)
  BY SumSame DEF OneMore
<1>5. h[b] \in Int
  BY DEF OneMore
<1> QED
  BY <1>2, <1>3, <1>4, <1>5

LEMMA MaxOf ==
  ASSUME NEW S, S \subseteq Int, IsFiniteSet(S), S # {}
  PROVE  Max(S) \in S /\ \A x \in S : x <= Max(S)
<1>1. \E m \in S : \A x \in S : m >= x
  <2>1. PICK m \in S : \A x \in S : x <= m
    BY GreatestElement
  <2> QED
    BY <2>1
<1>2. Max(S) \in S /\ \A x \in S : Max(S) >= x
  BY <1>1 DEF Max
<1> QED
  BY <1>2

LEMMA MinOf ==
  ASSUME NEW S, S \subseteq Nat, S # {}
  PROVE  Min(S) \in S /\ \A x \in S : Min(S) <= x
<1>1. \E m \in S : \A x \in S : m <= x
  BY LeastElement
<1> QED
  BY <1>1 DEF Min

LEMMA MaxOfTwo ==
  ASSUME NEW a \in Int, NEW b \in Int
  PROVE  Max({a, b}) \in Int /\ a <= Max({a, b}) /\ b <= Max({a, b})
<1>1. \E m \in {a, b} : \A x \in {a, b} : m >= x
  OBVIOUS
<1>2. Max({a, b}) \in {a, b} /\ \A x \in {a, b} : Max({a, b}) >= x
  BY <1>1 DEF Max
<1> QED
  BY <1>2

LEMMA MinOfTwo ==
  ASSUME NEW a \in Int, NEW b \in Int
  PROVE  Min({a, b}) \in Int /\ Min({a, b}) <= a /\ Min({a, b}) <= b
<1>1. \E m \in {a, b} : \A x \in {a, b} : m <= x
  OBVIOUS
<1>2. Min({a, b}) \in {a, b} /\ \A x \in {a, b} : Min({a, b}) <= x
  BY <1>1 DEF Min
<1> QED
  BY <1>2

(***************************************************************************)
(* FoldLeft.  It is defined by recursion on the subsets of the domain, the *)
(* greatest index first; such a function exists for every step, and along  *)
(* the prefixes it is a recursion on their length.                         *)
(***************************************************************************)
IsFold(F, N, base, step) ==
  \A s \in SUBSET (1 .. N) :
    F[s] = IF s = {} THEN base ELSE step[<<Max(s), F[s \ {Max(s)}]>>]

(* The CHOOSE in Max finds the greatest element. *)
LEMMA MaxIs ==
  ASSUME NEW S, S \subseteq Int, NEW d \in S, \A e \in S : e <= d
  PROVE  Max(S) = d
<1>1. Max(S) \in S /\ \A e \in S : e <= Max(S)
  BY DEF Max
<1> HIDE DEF Max
<1>2. Max(S) <= d /\ d <= Max(S) /\ Max(S) \in Int /\ d \in Int
  BY <1>1
<1> QED
  BY <1>2

(* Some function takes the steps. *)
LEMMA FoldsExist ==
  ASSUME NEW N \in Nat, NEW A, NEW base \in A, NEW step \in [(1 .. N) \X A -> A]
  PROVE  \E F \in [SUBSET (1 .. N) -> A] : IsFold(F, N, base, step)
<1> DEFINE Upto(n) == \E F \in [SUBSET (1 .. n) -> A] : IsFold(F, n, base, step)
           C == {n \in 0 .. N : ~ Upto(n)}
<1>0. N \in 0 .. N
  OBVIOUS
<1>1. SUFFICES ASSUME C # {} PROVE FALSE
  BY <1>0, Zenon
<1>2. PICK n \in C : \A k \in C : n <= k
  <2>1. C \subseteq Nat
    OBVIOUS
  <2> HIDE DEF C
  <2> QED
    BY <1>1, <2>1, LeastElement
<1>3. CASE n = 0
  <2> DEFINE F == [s \in SUBSET (1 .. 0) |-> base]
  <2>1. 1 .. 0 = {}
    OBVIOUS
  <2>2. F \in [SUBSET (1 .. 0) -> A] /\ IsFold(F, 0, base, step)
    BY <2>1 DEF IsFold
  <2> QED
    BY <1>3, <2>2
<1>4. CASE n # 0
  <2>0. n \in 0 .. N
    BY Zenon
  <2>1. n - 1 \in 0 .. N /\ Upto(n - 1) /\ n \in 1 .. N
    <3>1. n - 1 \in 0 .. N /\ n \in 1 .. N /\ ~ (n <= n - 1)
      BY <1>4, <2>0
    <3>2. n - 1 \notin C
      BY <1>2, <3>1, Zenon
    <3> QED
      BY <3>1, <3>2, Zenon
  <2> HIDE DEF C
  <2>2. PICK F \in [SUBSET (1 .. n - 1) -> A] : IsFold(F, n - 1, base, step)
    BY <2>1
  <2> DEFINE G == [s \in SUBSET (1 .. n) |-> IF n \in s THEN step[<<n, F[s \ {n}]>>] ELSE F[s]]
  <2>3. \A s \in SUBSET (1 .. n) : s \ {n} \in SUBSET (1 .. n - 1)
    BY <2>1
  <2>4. G \in [SUBSET (1 .. n) -> A]
    <3> SUFFICES ASSUME NEW s \in SUBSET (1 .. n) PROVE G[s] \in A
      OBVIOUS
    <3>1. F[s \ {n}] \in A
      BY <2>3
    <3>2. <<n, F[s \ {n}]>> \in (1 .. N) \X A
      BY <2>1, <3>1
    <3>3. n \notin s => s = s \ {n}
      OBVIOUS
    <3>4. step[<<n, F[s \ {n}]>>] \in A
      BY <3>2
    <3> QED
      BY <3>1, <3>3, <3>4
  <2>5. IsFold(G, n, base, step)
    <3> SUFFICES ASSUME NEW s \in SUBSET (1 .. n)
                 PROVE  G[s] = IF s = {} THEN base ELSE step[<<Max(s), G[s \ {Max(s)}]>>]
      BY DEF IsFold
    <3>1. CASE n \in s
      <4>1. Max(s) = n
        <5>1. s \subseteq Int /\ \A e \in s : e <= n
          BY <2>1
        <5> QED
          BY <3>1, <5>1, MaxIs
      <4>2. G[s \ {n}] = F[s \ {n}]
        BY <2>3
      <4> QED
        BY <3>1, <4>1, <4>2
    <3>2. CASE n \notin s
      <4>1. s = s \ {n}
        BY <3>2
      <4>2. s \in SUBSET (1 .. n - 1)
        BY <2>3, <4>1
      <4>3. n \notin s \ {Max(s)} /\ s \ {Max(s)} \in SUBSET (1 .. n)
        BY <3>2
      <4>4. G[s] = F[s] /\ G[s \ {Max(s)}] = F[s \ {Max(s)}]
        BY <3>2, <4>3
      <4>5. F[s] = IF s = {} THEN base ELSE step[<<Max(s), F[s \ {Max(s)}]>>]
        BY <2>2, <4>2 DEF IsFold
      <4> QED
        BY <4>4, <4>5
    <3> QED
      BY <3>1, <3>2
  <2>6. Upto(n)
    <3> HIDE DEF G
    <3> QED
      BY <2>4, <2>5
  <2> QED
    BY <1>2, <2>6 DEF C
<1> QED
  BY <1>3, <1>4

(* The greatest index of a prefix and what is left without it. *)
LEMMA FoldPrefix ==
  ASSUME NEW N \in Nat, NEW i \in 1 .. N
  PROVE  Max(1 .. i) = i /\ (1 .. i) \ {i} = 1 .. i - 1 /\ 1 .. i # {} /\ 1 .. i \in SUBSET (1 .. N)
<1>1. 1 .. i \subseteq Int /\ i \in 1 .. i /\ \A e \in 1 .. i : e <= i
  OBVIOUS
<1>2. Max(1 .. i) = i
  BY <1>1, MaxIs
<1> QED
  BY <1>2

(* A set of indices that is not empty has a greatest one. *)
LEMMA GreatestOfPrefix ==
  ASSUME NEW N \in Nat, NEW s \in SUBSET (1 .. N), s # {}
  PROVE  Max(s) \in 1 .. N /\ s \ {Max(s)} \in SUBSET (1 .. N)
<1>1. IsFiniteSet(1 .. N) /\ 1 .. N \subseteq Int
  BY FS_Interval
<1>2. s \subseteq Int /\ IsFiniteSet(s)
  BY <1>1, FS_Subset
<1> QED
  BY <1>2, MaxOf
=============================================================================
