-------------------------------- MODULE Counting --------------------------------
(***************************************************************************)
(* Places and sums. An element's place is the number of elements that come *)
(* no later than it: the sweep of the overlay and the sort of the recently *)
(* seen players find what goes into each place in this way. Sums are what  *)
(* instructions, config strings and commands of a window come to, and      *)
(* remainders what rings, clocks and lists that go round leave of numbers. *)
(* The lemmas here are about any sets and sequences, and state no property *)
(* of the program by themselves.                                           *)
(***************************************************************************)
EXTENDS FiniteSetTheorems, SequenceTheorems, WellFoundedInduction, TLAPS

-----------------------------------------------------------------------------
(* Remainders.                                                              *)

\* Division with remainder.
LEMMA Euclid ==
  ASSUME NEW w \in Nat \ {0}, NEW a \in Int
  PROVE  a = w * (a \div w) + (a % w) /\ a \div w \in Int /\ a % w \in 0 .. w - 1
  BY SMT

LEMMA Distributes ==
  ASSUME NEW w \in Int, NEW p \in Int, NEW q \in Int
  PROVE  w * (p - q) = w * p - w * q
  BY SMT

LEMMA Multiple ==
  ASSUME NEW w \in Nat \ {0}, NEW q \in Int, q > 0
  PROVE  w * q >= w
  BY Z3

-----------------------------------------------------------------------------
(* Places.                                                                  *)

\* A function on the numbers up to n is a sequence.
LEMMA FunctionIsSeq ==
  ASSUME NEW S, NEW n \in Nat, NEW f \in [1..n -> S]
  PROVE  f \in Seq(S) /\ Len(f) = n /\ DOMAIN f = 1..n
<1>1. f \in Seq(S)
  BY SeqDef
<1> QED
  BY <1>1, LenProperties

\* Every element of S comes no later than itself, and of two elements one comes no later
\* than the other, with all that comes no later than it, but not the other way round.
IsRanking(S, noLater) ==
  /\ noLater \in [S -> SUBSET S]
  /\ \A i \in S : i \in noLater[i]
  /\ \A i, j \in S : i # j =>
       \/ noLater[i] \subseteq noLater[j] /\ j \notin noLater[i]
       \/ noLater[j] \subseteq noLater[i] /\ i \notin noLater[j]

\* Every place is some element's.
AllTaken(S, noLater) ==
  \A k \in 1..Cardinality(S) : \E i \in S : Cardinality(noLater[i]) = k

\* A larger set has more elements.
LEMMA StrictlyMore ==
  ASSUME NEW S, IsFiniteSet(S), NEW A \in SUBSET S, NEW B \in SUBSET S,
         A \subseteq B, NEW x \in B, x \notin A
  PROVE  Cardinality(A) < Cardinality(B)
<1>1. IsFiniteSet(A) /\ IsFiniteSet(B)
  BY FS_Subset
<1>2. A \in SUBSET B /\ A # B
  OBVIOUS
<1>3. Cardinality(A) <= Cardinality(B) /\ (Cardinality(B) = Cardinality(A) => B = A)
  BY <1>1, <1>2, FS_Subset
<1>4. Cardinality(A) \in Nat /\ Cardinality(B) \in Nat
  BY <1>1, FS_CardinalityType
<1> QED
  BY <1>2, <1>3, <1>4

\* Each place from the first to the last is taken by exactly one element.
THEOREM PlacesTaken ==
  ASSUME NEW S, IsFiniteSet(S), NEW noLater, IsRanking(S, noLater)
  PROVE  /\ Cardinality(S) \in Nat
         /\ \A i \in S : Cardinality(noLater[i]) \in 1..Cardinality(S)
         /\ \A i, j \in S : Cardinality(noLater[i]) = Cardinality(noLater[j]) => i = j
         /\ AllTaken(S, noLater)
<1> DEFINE T == 1..Cardinality(S)
           f == [i \in S |-> Cardinality(noLater[i])]
<1>1. Cardinality(S) \in Nat
  BY FS_CardinalityType
<1>2. ASSUME NEW i \in S
      PROVE  Cardinality(noLater[i]) \in T
  <2>1. noLater[i] \in SUBSET S /\ noLater[i] # {}
    BY DEF IsRanking
  <2>2. IsFiniteSet(noLater[i]) /\ Cardinality(noLater[i]) <= Cardinality(S)
    BY <2>1, FS_Subset
  <2>3. Cardinality(noLater[i]) \in Nat /\ Cardinality(noLater[i]) # 0
    BY <2>1, <2>2, FS_CardinalityType, FS_EmptySet
  <2> QED
    BY <1>1, <2>2, <2>3
<1>3. ASSUME NEW i \in S, NEW j \in S, i # j
      PROVE  Cardinality(noLater[i]) # Cardinality(noLater[j])
  <2>1. ASSUME NEW a \in S, NEW b \in S, noLater[a] \subseteq noLater[b], b \notin noLater[a]
        PROVE  Cardinality(noLater[a]) < Cardinality(noLater[b])
    <3>1. noLater[a] \in SUBSET S /\ noLater[b] \in SUBSET S /\ b \in noLater[b]
      BY DEF IsRanking
    <3> QED
      BY <2>1, <3>1, StrictlyMore
  <2>2. Cardinality(noLater[i]) \in Nat /\ Cardinality(noLater[j]) \in Nat
    BY <1>2
  <2>3. \/ noLater[i] \subseteq noLater[j] /\ j \notin noLater[i]
        \/ noLater[j] \subseteq noLater[i] /\ i \notin noLater[j]
    BY <1>3 DEF IsRanking
  <2> QED
    BY <2>1, <2>2, <2>3
<1>4. f \in Injection(S, T)
  BY <1>2, <1>3 DEF Injection, IsInjective
<1>5. IsFiniteSet(T) /\ Cardinality(T) = Cardinality(S)
  BY <1>1, FS_Interval
<1>6. f \in Surjection(S, T)
  BY <1>4, <1>5, FS_Injection
<1>7. \A k \in T : \E i \in S : f[i] = k
  BY <1>6 DEF Surjection
<1>8. AllTaken(S, noLater)
  BY <1>7 DEF AllTaken
<1> QED
  BY <1>1, <1>2, <1>3, <1>8

\* A set of positions, in their own order.
THEOREM PositionsTaken ==
  ASSUME NEW n \in Nat, NEW S \in SUBSET (1..n)
  PROVE  /\ IsFiniteSet(S) /\ Cardinality(S) \in Nat /\ Cardinality(S) <= n
         /\ \A i \in S : Cardinality({j \in S : j <= i}) \in 1..Cardinality(S)
         /\ \A k \in 1..Cardinality(S) : \E i \in S : Cardinality({j \in S : j <= i}) = k
<1> DEFINE noLater == [i \in S |-> {j \in S : j <= i}]
<1>1. IsFiniteSet(1..n) /\ Cardinality(1..n) = n
  BY FS_Interval
<1>2. IsFiniteSet(S) /\ Cardinality(S) <= n
  BY <1>1, FS_Subset
<1>3. IsRanking(S, noLater)
  <2>1. noLater \in [S -> SUBSET S] /\ \A i \in S : i \in noLater[i]
    OBVIOUS
  <2>2. ASSUME NEW i \in S, NEW j \in S, i < j
        PROVE  noLater[i] \subseteq noLater[j] /\ j \notin noLater[i]
    <3>1. noLater[i] = {k \in S : k <= i} /\ noLater[j] = {k \in S : k <= j}
      OBVIOUS
    <3>2. \A k \in S : k <= i => k <= j
      BY <2>2
    <3>3. ~(j <= i)
      BY <2>2
    <3> HIDE DEF noLater
    <3> QED
      BY <3>1, <3>2, <3>3
  <2>3. \A i, j \in S : i # j => i < j \/ j < i
    OBVIOUS
  <2> HIDE DEF noLater
  <2> QED
    BY <2>1, <2>2, <2>3 DEF IsRanking
<1>4. \A i \in S : noLater[i] = {j \in S : j <= i}
  OBVIOUS
<1> HIDE DEF noLater
<1>5. Cardinality(S) \in Nat
  BY <1>2, FS_CardinalityType
<1>6. \A i \in S : Cardinality(noLater[i]) \in 1..Cardinality(S)
  BY <1>2, <1>3, PlacesTaken
<1>7. \A k \in 1..Cardinality(S) : \E i \in S : Cardinality(noLater[i]) = k
  <2>1. AllTaken(S, noLater)
    BY <1>2, <1>3, PlacesTaken
  <2> QED
    BY <2>1 DEF AllTaken
<1> QED
  BY <1>2, <1>4, <1>5, <1>6, <1>7

-----------------------------------------------------------------------------
(* Sums of the first elements of a row.                                      *)

\* A set of numbers has a least one.
LEMMA LeastNat ==
  ASSUME NEW T \in SUBSET Nat, T # {}
  PROVE  \E x \in T : \A y \in T : x <= y
<1>1. PICK x \in T : \A y \in T : ~(<<y, x>> \in OpToRel(<, Nat))
  BY NatLessThanWellFounded, WFMin
<1>2. ASSUME NEW y \in T PROVE x <= y
  <2>1. y < x => <<y, x>> \in OpToRel(<, Nat)
    BY DEF OpToRel
  <2>2. ~(y < x)
    BY <1>1, <2>1, Zenon
  <2> QED
    BY <2>2
<1> QED
  BY <1>2

\* g[k] is the sum of what comes before k, for k up to n.
SumsUpTo(g, n, step) == g = [k \in 0..n |-> IF k <= 1 THEN 0 ELSE g[k - 1] + step[k - 1]]

LEMMA SumsAgree ==
  ASSUME NEW step, NEW n \in Nat, NEW m \in Nat, NEW g, NEW h,
         SumsUpTo(g, n, step), SumsUpTo(h, m, step)
  PROVE  \A k \in 0..n : k <= m => g[k] = h[k]
<1> DEFINE T == {k \in 0..n : k <= m /\ g[k] # h[k]}
<1> SUFFICES ASSUME T # {} PROVE FALSE
  OBVIOUS
<1>0. T \in SUBSET Nat
  OBVIOUS
<1>1. PICK x \in T : \A y \in T : x <= y
  <2> HIDE DEF T
  <2> QED
    BY <1>0, LeastNat
<1>2. x \in 0..n /\ x \in 0..m /\ g[x] # h[x]
  OBVIOUS
<1>3. g[x] = (IF x <= 1 THEN 0 ELSE g[x - 1] + step[x - 1])
  BY <1>2 DEF SumsUpTo
<1>4. h[x] = (IF x <= 1 THEN 0 ELSE h[x - 1] + step[x - 1])
  BY <1>2 DEF SumsUpTo
<1>5. ~(x <= 1) => g[x - 1] = h[x - 1]
  <2>1. ~(x <= 1) => x - 1 \in 0..n /\ x - 1 <= m /\ ~(x <= x - 1)
    BY <1>2
  <2> QED
    BY <1>1, <2>1
<1> QED
  BY <1>2, <1>3, <1>4, <1>5

LEMMA SumsExistUpTo ==
  ASSUME NEW step, NEW n \in Nat
  PROVE  \E g : SumsUpTo(g, n, step)
<1> DEFINE T == {k \in Nat : ~ \E g : SumsUpTo(g, k, step)}
<1> SUFFICES ASSUME T # {} PROVE FALSE
  OBVIOUS
<1>0. T \in SUBSET Nat
  OBVIOUS
<1>1. PICK x \in T : \A y \in T : x <= y
  <2> HIDE DEF T
  <2> QED
    BY <1>0, LeastNat
<1>2. x \in Nat /\ ~ \E g : SumsUpTo(g, x, step)
  OBVIOUS
<1>3. CASE x = 0
  <2> DEFINE g == [k \in 0..x |-> 0]
  <2>1. SumsUpTo(g, x, step)
    BY <1>3 DEF SumsUpTo
  <2> QED
    BY <1>2, <2>1
<1>4. CASE x # 0
  <2>1. x - 1 \in Nat /\ ~(x <= x - 1)
    BY <1>2, <1>4
  <2>2. PICK g : SumsUpTo(g, x - 1, step)
    BY <1>1, <2>1
  <2> DEFINE h == [k \in 0..x |-> IF k <= 1 THEN 0 ELSE g[k - 1] + step[k - 1]]
  <2>3. \A k \in 0..(x - 1) : g[k] = h[k]
    <3>1. \A k \in 0..(x - 1) : g[k] = IF k <= 1 THEN 0 ELSE g[k - 1] + step[k - 1]
      BY <2>2 DEF SumsUpTo
    <3>2. \A k \in 0..(x - 1) : k \in 0..x
      BY <2>1
    <3> QED
      BY <3>1, <3>2
  <2>4. \A k \in 0..x : ~(k <= 1) => g[k - 1] = h[k - 1]
    <3>1. \A k \in 0..x : ~(k <= 1) => k - 1 \in 0..(x - 1)
      BY <1>2
    <3> HIDE DEF h
    <3> QED
      BY <2>3, <3>1
  <2>5. SumsUpTo(h, x, step)
    BY <2>4 DEF SumsUpTo
  <2> QED
    BY <1>2, <2>5
<1> QED
  BY <1>3, <1>4

\* The recursive definition of the sums has a solution.
THEOREM SumsExist ==
  ASSUME NEW step
  PROVE  \E g : g = [k \in Nat |-> IF k <= 1 THEN 0 ELSE g[k - 1] + step[k - 1]]
<1> DEFINE upTo(n) == CHOOSE g : SumsUpTo(g, n, step)
           g == [n \in Nat |-> upTo(n)[n]]
<1>1. \A n \in Nat : SumsUpTo(upTo(n), n, step)
  BY SumsExistUpTo
<1>2. ASSUME NEW k \in Nat
      PROVE  upTo(k)[k] = IF k <= 1 THEN 0 ELSE upTo(k)[k - 1] + step[k - 1]
  <2>1. SumsUpTo(upTo(k), k, step) /\ k \in 0..k
    BY <1>1
  <2> HIDE DEF upTo
  <2> QED
    BY <2>1 DEF SumsUpTo
<1>3. ASSUME NEW k \in Nat, ~(k <= 1)
      PROVE  upTo(k)[k - 1] = upTo(k - 1)[k - 1]
  <2>1. k - 1 \in Nat /\ k - 1 \in 0..k /\ k - 1 <= k - 1
    BY <1>3
  <2>2. SumsUpTo(upTo(k), k, step) /\ SumsUpTo(upTo(k - 1), k - 1, step)
    BY <1>1, <2>1
  <2> HIDE DEF upTo
  <2>3. \A j \in 0..k : j <= k - 1 => upTo(k)[j] = upTo(k - 1)[j]
    BY <2>1, <2>2, SumsAgree
  <2> QED
    BY <2>1, <2>3
<1>4. ASSUME NEW k \in Nat
      PROVE  g[k] = IF k <= 1 THEN 0 ELSE g[k - 1] + step[k - 1]
  <2>1. ~(k <= 1) => k - 1 \in Nat
    OBVIOUS
  <2> HIDE DEF upTo
  <2> QED
    BY <1>2, <1>3, <2>1
<1>5. g = [k \in Nat |-> IF k <= 1 THEN 0 ELSE g[k - 1] + step[k - 1]]
  <2>1. g = [k \in Nat |-> g[k]]
    OBVIOUS
  <2> HIDE DEF g
  <2> QED
    BY <1>4, <2>1
<1> QED
  BY <1>5

\* Sums of numbers are numbers.
LEMMA SumsType ==
  ASSUME NEW step, NEW n \in Nat, \A k \in 1..(n - 1) : step[k] \in Nat, NEW g,
         \A k \in Nat : g[k] = IF k <= 1 THEN 0 ELSE g[k - 1] + step[k - 1]
  PROVE  \A k \in 0..n : g[k] \in Nat
<1> DEFINE T == {k \in 0..n : g[k] \notin Nat}
<1> SUFFICES ASSUME T # {} PROVE FALSE
  OBVIOUS
<1>0. T \in SUBSET Nat
  OBVIOUS
<1>1. PICK x \in T : \A y \in T : x <= y
  <2> HIDE DEF T
  <2> QED
    BY <1>0, LeastNat
<1>2. x \in Nat /\ x <= n /\ g[x] \notin Nat
  OBVIOUS
<1>3. ~(x <= 1)
  BY <1>2
<1>4. g[x] = g[x - 1] + step[x - 1]
  BY <1>2, <1>3
<1>5. x - 1 \in 1..(n - 1) /\ x - 1 \in 0..n /\ ~(x <= x - 1)
  BY <1>2, <1>3
<1>6. g[x - 1] \in Nat
  BY <1>1, <1>5
<1>7. step[x - 1] \in Nat
  BY <1>5
<1> QED
  BY <1>2, <1>4, <1>6, <1>7

-----------------------------------------------------------------------------
(* Sums over finite sets: SumFunctionOnSet of the community modules.         *)

\* The element the sum of a set begins with.
OneOf(s) == CHOOSE x \in s : TRUE

\* Of some sets, one that is no longer one of them without any of its elements.
LEMMA SmallestSet ==
  ASSUME NEW S, IsFiniteSet(S), NEW T \in SUBSET (SUBSET S), T # {}
  PROVE  \E s \in T : \A x \in s : s \ {x} \notin T
<1> DEFINE N == {Cardinality(s) : s \in T}
<1>1. \A s \in T : IsFiniteSet(s) /\ Cardinality(s) \in Nat
  BY FS_Subset, FS_CardinalityType
<1>2. N \in SUBSET Nat /\ N # {}
  BY <1>1
<1>3. PICK n \in N : \A m \in N : n <= m
  <2> HIDE DEF N
  <2> QED
    BY <1>2, LeastNat
<1>4. PICK s \in T : Cardinality(s) = n
  OBVIOUS
<1>5. ASSUME NEW x \in s, s \ {x} \in T PROVE FALSE
  <2>1. Cardinality(s \ {x}) = Cardinality(s) - 1
    BY <1>1, <1>5, FS_RemoveElement
  <2>2. n <= Cardinality(s \ {x})
    BY <1>3, <1>5
  <2> QED
    BY <1>1, <1>4, <2>1, <2>2
<1> QED
  BY <1>5

\* g[s] is the sum of fun over s, for every subset s of S.
SumStep(g, fun, s) == IF s = {} THEN 0 ELSE fun[OneOf(s)] + g[s \ {OneOf(s)}]

SumsOver(g, fun, S) == g = [s \in SUBSET S |-> SumStep(g, fun, s)]

Same(f1, f2, S) == \A x \in S : f1[x] = f2[x]

LEMMA SumsOverIs ==
  ASSUME NEW g, NEW fun, NEW S, SumsOver(g, fun, S), NEW s \in SUBSET S
  PROVE  g[s] = SumStep(g, fun, s)
  BY DEF SumsOver

LEMMA OneOfIn == \A s : s # {} => OneOf(s) \in s
  BY DEF OneOf

LEMMA SumsOverAgree ==
  ASSUME NEW S, IsFiniteSet(S), NEW A \in SUBSET S, NEW B \in SUBSET S, NEW g, NEW h,
         NEW f1, NEW f2, SumsOver(g, f1, A), SumsOver(h, f2, B),
         Same(f1, f2, A \cap B), NEW r \in SUBSET (A \cap B)
  PROVE  g[r] = h[r]
<1> DEFINE T == {s \in SUBSET (A \cap B) : g[s] # h[s]}
<1> SUFFICES ASSUME T # {} PROVE FALSE
  OBVIOUS
<1>0. T \in SUBSET (SUBSET S)
  OBVIOUS
<1>1. PICK s \in T : \A x \in s : s \ {x} \notin T
  <2> HIDE DEF T
  <2> QED
    BY <1>0, SmallestSet
<1>2. s \in SUBSET A /\ s \in SUBSET B /\ s \in SUBSET (A \cap B) /\ g[s] # h[s]
  OBVIOUS
<1> HIDE DEF T
<1>3. g[s] = SumStep(g, f1, s)
  BY <1>2, SumsOverIs
<1>4. h[s] = SumStep(h, f2, s)
  BY <1>2, SumsOverIs
<1>5. s # {}
  BY <1>2, <1>3, <1>4 DEF SumStep
<1>6. OneOf(s) \in s
  BY <1>5, OneOfIn
<1>7. f1[OneOf(s)] = f2[OneOf(s)]
  BY <1>2, <1>6 DEF Same
<1>8. g[s \ {OneOf(s)}] = h[s \ {OneOf(s)}]
  BY <1>1, <1>2, <1>6 DEF T
<1> QED
  BY <1>2, <1>3, <1>4, <1>5, <1>7, <1>8 DEF SumStep

LEMMA SumsOverExist ==
  ASSUME NEW fun, NEW S, IsFiniteSet(S)
  PROVE  \E g : SumsOver(g, fun, S)
<1> DEFINE T == {s \in SUBSET S : ~ \E g : SumsOver(g, fun, s)}
<1> SUFFICES ASSUME T # {} PROVE FALSE
  OBVIOUS
<1>0. T \in SUBSET (SUBSET S)
  OBVIOUS
<1>1. PICK s \in T : \A x \in s : s \ {x} \notin T
  <2> HIDE DEF T
  <2> QED
    BY <1>0, SmallestSet
<1>2. s \in SUBSET S /\ ~ \E g : SumsOver(g, fun, s)
  OBVIOUS
<1> DEFINE G(x) == CHOOSE g : SumsOver(g, fun, s \ {x})
           h == [t \in SUBSET s |-> IF t = {} THEN 0 ELSE fun[OneOf(t)] + G(OneOf(t))[t \ {OneOf(t)}]]
<1>3. ASSUME NEW x \in s PROVE SumsOver(G(x), fun, s \ {x})
  <2>1. \E g : SumsOver(g, fun, s \ {x})
    BY <1>1, <1>2
  <2> QED
    BY <2>1
<1>4. ASSUME NEW t \in SUBSET s, t # {}
      PROVE  G(OneOf(t))[t \ {OneOf(t)}] = h[t \ {OneOf(t)}]
  <2> DEFINE a == OneOf(t)
             u == t \ {a}
             b == OneOf(u)
  <2>1. a \in t /\ a \in s /\ u \in SUBSET (s \ {a}) /\ u \in SUBSET s
    BY <1>4, OneOfIn
  <2>2. SumsOver(G(a), fun, s \ {a})
    BY <1>3, <2>1
  <2>3. h[u] = IF u = {} THEN 0 ELSE fun[b] + G(b)[u \ {b}]
    <3> HIDE DEF a, u, G
    <3> QED
      BY <2>1
  <2> HIDE DEF a, u, h, G
  <2>4. G(a)[u] = IF u = {} THEN 0 ELSE fun[b] + G(a)[u \ {b}]
    <3>1. G(a)[u] = SumStep(G(a), fun, u)
      BY <2>1, <2>2, SumsOverIs
    <3> QED
      BY <3>1 DEF SumStep
  <2>5. ASSUME u # {} PROVE G(a)[u] = h[u]
    <3>1. b \in u /\ b \in s
      BY <2>1, <2>5, OneOfIn
    <3>2. SumsOver(G(b), fun, s \ {b})
      BY <1>3, <3>1
    <3>3. s \ {a} \in SUBSET S /\ s \ {b} \in SUBSET S
          /\ u \ {b} \in SUBSET ((s \ {a}) \cap (s \ {b}))
      BY <1>2, <2>1
    <3>4. G(a)[u \ {b}] = G(b)[u \ {b}]
      <4>1. Same(fun, fun, (s \ {a}) \cap (s \ {b}))
        BY DEF Same
      <4> HIDE DEF b
      <4> QED
        BY <2>2, <3>2, <3>3, <4>1, SumsOverAgree
    <3> QED
      BY <2>3, <2>4, <3>4
  <2>6. G(a)[u] = h[u]
    BY <2>3, <2>4, <2>5
  <2> QED
    BY <2>6 DEF a, u
<1>5. SumsOver(h, fun, s)
  <2>1. h = [t \in SUBSET s |-> IF t = {} THEN 0 ELSE fun[OneOf(t)] + h[t \ {OneOf(t)}]]
    <3> DEFINE k == [t \in SUBSET s |-> IF t = {} THEN 0 ELSE fun[OneOf(t)] + h[t \ {OneOf(t)}]]
    <3>1. \A t \in SUBSET s : h[t] = k[t]
      <4>1. \A t \in SUBSET s : h[t] = IF t = {} THEN 0 ELSE fun[OneOf(t)] + G(OneOf(t))[t \ {OneOf(t)}]
        BY Zenon
      <4> HIDE DEF h, G
      <4> QED
        BY <1>4, <4>1
    <3>2. h = [t \in SUBSET s |-> h[t]] /\ k = [t \in SUBSET s |-> k[t]]
      OBVIOUS
    <3> HIDE DEF h, k
    <3>3. h = k
      BY <3>1, <3>2
    <3> QED
      BY <3>3 DEF k
  <2> HIDE DEF h
  <2> QED
    BY <2>1 DEF SumsOver, SumStep
<1> QED
  BY <1>2, <1>5

\* What SumFunctionOnSet is.
LEMMA SumIs ==
  ASSUME NEW fun, NEW S
  PROVE  SumFunctionOnSet(fun, S) = (CHOOSE g : SumsOver(g, fun, S))[S]
  BY DEF SumFunctionOnSet, FoldFunctionOnSet, MapThenFoldSet, SumsOver, SumStep, OneOf

\* Over a subset it is the value of any sums over the whole.
LEMMA SumWithin ==
  ASSUME NEW fun, NEW S, IsFiniteSet(S), NEW g, SumsOver(g, fun, S), NEW s \in SUBSET S
  PROVE  SumFunctionOnSet(fun, s) = g[s]
<1> DEFINE h == CHOOSE h : SumsOver(h, fun, s)
<1>1. IsFiniteSet(s)
  BY FS_Subset
<1>2. SumsOver(h, fun, s)
  BY <1>1, SumsOverExist
<1>3. SumFunctionOnSet(fun, s) = h[s]
  BY SumIs
<1> HIDE DEF h
<1>4. Same(fun, fun, s \cap S) /\ s \in SUBSET (s \cap S) /\ S \in SUBSET S
  BY DEF Same
<1>5. h[s] = g[s]
  BY <1>2, <1>4, SumsOverAgree
<1> QED
  BY <1>3, <1>5

LEMMA SumEmpty ==
  ASSUME NEW fun
  PROVE  SumFunctionOnSet(fun, {}) = 0
<1>1. IsFiniteSet({})
  BY FS_EmptySet
<1>2. PICK g : SumsOver(g, fun, {})
  BY <1>1, SumsOverExist
<1>3. g[{}] = SumStep(g, fun, {}) /\ {} \in SUBSET {}
  BY <1>2, SumsOverIs
<1> QED
  BY <1>1, <1>2, <1>3, SumWithin DEF SumStep

LEMMA SumOneOf ==
  ASSUME NEW fun, NEW S, IsFiniteSet(S), S # {}
  PROVE  SumFunctionOnSet(fun, S) = fun[OneOf(S)] + SumFunctionOnSet(fun, S \ {OneOf(S)})
<1>1. PICK g : SumsOver(g, fun, S)
  BY SumsOverExist
<1>2. g[S] = SumStep(g, fun, S)
  BY <1>1, SumsOverIs
<1>3. SumFunctionOnSet(fun, S) = g[S]
  BY <1>1, SumWithin
<1>4. SumFunctionOnSet(fun, S \ {OneOf(S)}) = g[S \ {OneOf(S)}]
  <2> DEFINE s == S \ {OneOf(S)}
  <2>1. s \in SUBSET S
    OBVIOUS
  <2> HIDE DEF s
  <2>2. SumFunctionOnSet(fun, s) = g[s]
    BY <1>1, <2>1, SumWithin
  <2> QED
    BY <2>2 DEF s
<1> QED
  BY <1>2, <1>3, <1>4 DEF SumStep

\* The sum depends on the values of the set's elements only.
LEMMA SumSame ==
  ASSUME NEW f1, NEW f2, NEW S, IsFiniteSet(S), Same(f1, f2, S)
  PROVE  SumFunctionOnSet(f1, S) = SumFunctionOnSet(f2, S)
<1>1. PICK g : SumsOver(g, f1, S)
  BY SumsOverExist
<1>2. PICK h : SumsOver(h, f2, S)
  BY SumsOverExist
<1>3. SumFunctionOnSet(f1, S) = g[S]
  BY <1>1, SumWithin
<1>4. SumFunctionOnSet(f2, S) = h[S]
  BY <1>2, SumWithin
<1>5. S \cap S = S /\ S \in SUBSET S /\ S \in SUBSET (S \cap S)
  OBVIOUS
<1>6. Same(f1, f2, S \cap S)
  BY <1>5
<1>7. g[S] = h[S]
  BY <1>1, <1>2, <1>5, <1>6, SumsOverAgree
<1> QED
  BY <1>3, <1>4, <1>7

\* Numbers to be added up.
Numbers(fun, S) == \A x \in S : fun[x] \in Nat

LEMMA SumType ==
  ASSUME NEW fun, NEW S, IsFiniteSet(S), Numbers(fun, S)
  PROVE  SumFunctionOnSet(fun, S) \in Nat
<1> DEFINE T == {s \in SUBSET S : SumFunctionOnSet(fun, s) \notin Nat}
<1> SUFFICES ASSUME T # {} PROVE FALSE
  OBVIOUS
<1>0. T \in SUBSET (SUBSET S)
  OBVIOUS
<1>1. PICK s \in T : \A x \in s : s \ {x} \notin T
  <2> HIDE DEF T
  <2> QED
    BY <1>0, SmallestSet
<1>2. s \in SUBSET S /\ SumFunctionOnSet(fun, s) \notin Nat /\ IsFiniteSet(s)
  BY FS_Subset
<1>3. s # {}
  BY <1>2, SumEmpty
<1>4. OneOf(s) \in s /\ fun[OneOf(s)] \in Nat
  BY <1>2, <1>3, OneOfIn DEF Numbers
<1>5. SumFunctionOnSet(fun, s \ {OneOf(s)}) \in Nat
  BY <1>1, <1>2, <1>4
<1>6. SumFunctionOnSet(fun, s) = fun[OneOf(s)] + SumFunctionOnSet(fun, s \ {OneOf(s)})
  BY <1>2, <1>3, SumOneOf
<1> HIDE DEF T
<1> QED
  BY <1>2, <1>4, <1>5, <1>6

LEMMA SumZero ==
  ASSUME NEW fun, NEW S, IsFiniteSet(S), \A x \in S : fun[x] = 0
  PROVE  SumFunctionOnSet(fun, S) = 0
<1> DEFINE T == {s \in SUBSET S : SumFunctionOnSet(fun, s) # 0}
<1> SUFFICES ASSUME T # {} PROVE FALSE
  OBVIOUS
<1>0. T \in SUBSET (SUBSET S)
  OBVIOUS
<1>1. PICK s \in T : \A x \in s : s \ {x} \notin T
  <2> HIDE DEF T
  <2> QED
    BY <1>0, SmallestSet
<1>2. s \in SUBSET S /\ SumFunctionOnSet(fun, s) # 0 /\ IsFiniteSet(s)
  BY FS_Subset
<1>3. s # {}
  BY <1>2, SumEmpty
<1>4. OneOf(s) \in s /\ fun[OneOf(s)] = 0
  BY <1>2, <1>3, OneOfIn
<1>5. SumFunctionOnSet(fun, s \ {OneOf(s)}) = 0
  BY <1>1, <1>2, <1>4
<1>6. SumFunctionOnSet(fun, s) = fun[OneOf(s)] + SumFunctionOnSet(fun, s \ {OneOf(s)})
  BY <1>2, <1>3, SumOneOf
<1> HIDE DEF T
<1> QED
  BY <1>2, <1>4, <1>5, <1>6

\* OneOf element may be the first.
SplitsAt(fun, s, x) == SumFunctionOnSet(fun, s) = fun[x] + SumFunctionOnSet(fun, s \ {x})

THEOREM SumSplit ==
  ASSUME NEW fun, NEW S, IsFiniteSet(S), Numbers(fun, S), NEW y \in S
  PROVE  SumFunctionOnSet(fun, S) = fun[y] + SumFunctionOnSet(fun, S \ {y})
<1> DEFINE T == {s \in SUBSET S : \E x \in s : ~SplitsAt(fun, s, x)}
<1> SUFFICES ASSUME T # {} PROVE FALSE
  BY DEF SplitsAt
<1>0. T \in SUBSET (SUBSET S)
  OBVIOUS
<1>1. PICK s \in T : \A x \in s : s \ {x} \notin T
  <2> HIDE DEF T
  <2> QED
    BY <1>0, SmallestSet
<1>2. s \in SUBSET S /\ IsFiniteSet(s)
  BY FS_Subset
<1>3. PICK x \in s : ~SplitsAt(fun, s, x)
  OBVIOUS
<1> DEFINE a == OneOf(s)
<1>4. a \in s /\ SplitsAt(fun, s, a)
  BY <1>2, <1>3, OneOfIn, SumOneOf DEF SplitsAt
<1>5. a # x
  BY <1>3, <1>4
<1> HIDE DEF a
<1>6. SplitsAt(fun, s \ {a}, x)
  BY <1>1, <1>2, <1>3, <1>4, <1>5
<1>7. SplitsAt(fun, s \ {x}, a)
  BY <1>1, <1>2, <1>3, <1>4, <1>5
<1> DEFINE r == (s \ {a}) \ {x}
<1>8. r = (s \ {x}) \ {a} /\ r \in SUBSET s /\ IsFiniteSet(r) /\ Numbers(fun, r)
  BY <1>2, FS_Subset DEF Numbers
<1>9. SumFunctionOnSet(fun, r) \in Nat /\ fun[a] \in Nat /\ fun[x] \in Nat
  <2> HIDE DEF r
  <2> QED
    BY <1>2, <1>4, <1>8, SumType DEF Numbers
<1>10. /\ SumFunctionOnSet(fun, s) = fun[a] + SumFunctionOnSet(fun, s \ {a})
       /\ SumFunctionOnSet(fun, s \ {a}) = fun[x] + SumFunctionOnSet(fun, r)
       /\ SumFunctionOnSet(fun, s \ {x}) = fun[a] + SumFunctionOnSet(fun, r)
  BY <1>4, <1>6, <1>7, <1>8 DEF SplitsAt
<1>11. SumFunctionOnSet(fun, s) = fun[x] + SumFunctionOnSet(fun, s \ {x})
  <2> HIDE DEF T, r
  <2> QED
    BY <1>9, <1>10
<1> QED
  BY <1>3, <1>11 DEF SplitsAt

\* Sums over an interval, from its last and from its first number.
LEMMA SumLast ==
  ASSUME NEW fun, NEW a \in Int, NEW b \in Int, a <= b, Numbers(fun, a..b)
  PROVE  /\ SumFunctionOnSet(fun, a..b) = SumFunctionOnSet(fun, a..(b - 1)) + fun[b]
         /\ SumFunctionOnSet(fun, a..b) = fun[a] + SumFunctionOnSet(fun, (a + 1)..b)
         /\ SumFunctionOnSet(fun, a..(b - 1)) \in Nat
         /\ SumFunctionOnSet(fun, (a + 1)..b) \in Nat
         /\ SumFunctionOnSet(fun, a..b) \in Nat
<1> DEFINE S == a..b
           A == a..(b - 1)
           B == (a + 1)..b
<1>1. S \ {b} = A /\ S \ {a} = B /\ a \in S /\ b \in S
  OBVIOUS
<1>2. IsFiniteSet(S) /\ IsFiniteSet(A) /\ IsFiniteSet(B)
  <2>1. b - 1 \in Int /\ a + 1 \in Int
    OBVIOUS
  <2> QED
    BY <2>1, FS_Interval
<1>3. Numbers(fun, S) /\ Numbers(fun, A) /\ Numbers(fun, B) /\ fun[a] \in Nat /\ fun[b] \in Nat
  BY <1>1 DEF Numbers
<1> HIDE DEF S, A, B
<1>4. SumFunctionOnSet(fun, S) = fun[b] + SumFunctionOnSet(fun, A)
  BY <1>1, <1>2, <1>3, SumSplit
<1>5. SumFunctionOnSet(fun, S) = fun[a] + SumFunctionOnSet(fun, B)
  BY <1>1, <1>2, <1>3, SumSplit
<1>6. SumFunctionOnSet(fun, A) \in Nat /\ SumFunctionOnSet(fun, B) \in Nat
      /\ SumFunctionOnSet(fun, S) \in Nat
  BY <1>2, <1>3, SumType
<1> QED
  BY <1>3, <1>4, <1>5, <1>6 DEF S, A, B

LEMMA SumNone ==
  ASSUME NEW fun, NEW a \in Int, NEW b \in Int, b < a
  PROVE  SumFunctionOnSet(fun, a..b) = 0
<1>1. a..b = {}
  OBVIOUS
<1> QED
  BY <1>1, SumEmpty

\* Everything one further on.
THEOREM SumShifted ==
  ASSUME NEW f, NEW g, NEW a \in Int, NEW b \in Int, Numbers(f, a..b),
         \A n \in a..b : g[n + 1] = f[n]
  PROVE  SumFunctionOnSet(g, (a + 1)..(b + 1)) = SumFunctionOnSet(f, a..b)
<1> DEFINE Fine(k) == SumFunctionOnSet(g, (a + 1)..(a + k)) = SumFunctionOnSet(f, a..(a + k - 1))
           T == {k \in 0..(b + 1 - a) : ~Fine(k)}
<1>1. CASE b + 1 - a \in Nat
  <2>1. T = {} => Fine(b + 1 - a)
    <3>1. b + 1 - a \in 0..(b + 1 - a)
      BY <1>1
    <3> HIDE DEF Fine
    <3> QED
      BY <3>1
  <2>2. Fine(b + 1 - a) => SumFunctionOnSet(g, (a + 1)..(b + 1)) = SumFunctionOnSet(f, a..b)
    <3>1. a + (b + 1 - a) = b + 1 /\ a + (b + 1 - a) - 1 = b
      OBVIOUS
    <3> QED
      BY <3>1
  <2> SUFFICES ASSUME T # {} PROVE FALSE
    BY <2>1, <2>2
  <2>3. T \in SUBSET Nat
    OBVIOUS
  <2>4. PICK k \in T : \A y \in T : k <= y
    <3> HIDE DEF T
    <3> QED
      BY <2>3, LeastNat
  <2>5. k \in 0..(b + 1 - a) /\ ~Fine(k)
    OBVIOUS
  <2> HIDE DEF Fine
  <2>6. CASE k = 0
    <3>1. SumFunctionOnSet(g, (a + 1)..(a + k)) = 0
      BY <2>6, SumNone
    <3>2. SumFunctionOnSet(f, a..(a + k - 1)) = 0
      BY <2>6, SumNone
    <3> QED
      BY <2>5, <3>1, <3>2 DEF Fine
  <2>7. CASE k # 0
    <3>1. k - 1 \in 0..(b + 1 - a) /\ ~(k <= k - 1)
      BY <2>5, <2>7
    <3>2. Fine(k - 1)
      BY <2>4, <3>1
    <3> DEFINE c == a + k - 1
    <3>3. /\ c \in Int /\ a <= c /\ a + k = c + 1 /\ a + (k - 1) = c /\ a + (k - 1) - 1 = c - 1
          /\ c \in a..b /\ a..c \subseteq a..b
      BY <2>5, <2>7
    <3>4. SumFunctionOnSet(g, (a + 1)..c) = SumFunctionOnSet(f, a..(c - 1))
      BY <3>2, <3>3 DEF Fine
    <3> HIDE DEF c
    <3>5. Numbers(f, a..c)
      BY <3>3 DEF Numbers
    <3>6. SumFunctionOnSet(f, a..c) = SumFunctionOnSet(f, a..(c - 1)) + f[c]
      BY <3>3, <3>5, SumLast
    <3>7. Numbers(g, (a + 1)..(c + 1))
      <4> SUFFICES ASSUME NEW x \in (a + 1)..(c + 1) PROVE g[x] \in Nat
        BY DEF Numbers
      <4>1. x - 1 \in a..c /\ x - 1 \in a..b /\ (x - 1) + 1 = x
        BY <3>3
      <4>2. g[(x - 1) + 1] = f[x - 1] /\ f[x - 1] \in Nat
        BY <3>5, <4>1 DEF Numbers
      <4> QED
        BY <4>1, <4>2
    <3>8. SumFunctionOnSet(g, (a + 1)..(c + 1)) = SumFunctionOnSet(g, (a + 1)..c) + g[c + 1]
      <4>1. a + 1 \in Int /\ c + 1 \in Int /\ a + 1 <= c + 1 /\ (c + 1) - 1 = c
        BY <3>3
      <4> QED
        BY <3>7, <4>1, SumLast
    <3>9. g[c + 1] = f[c]
      BY <3>3
    <3>10. SumFunctionOnSet(g, (a + 1)..(c + 1)) = SumFunctionOnSet(f, a..c)
      BY <3>4, <3>6, <3>8, <3>9
    <3>11. Fine(k)
      BY <3>3, <3>10 DEF Fine, c
    <3> QED
      BY <2>5, <3>11
  <2> QED
    BY <2>6, <2>7
<1>2. CASE b + 1 - a \notin Nat
  BY <1>2, SumNone
<1> QED
  BY <1>1, <1>2

\* An interval in two parts.
THEOREM SumJoined ==
  ASSUME NEW f, NEW a \in Int, NEW c \in Int, NEW b \in Int, a <= c, c <= b, Numbers(f, a..b)
  PROVE  SumFunctionOnSet(f, a..b) = SumFunctionOnSet(f, a..c) + SumFunctionOnSet(f, (c + 1)..b)
<1> DEFINE Fine(k) == SumFunctionOnSet(f, a..(c + k)) =
                        SumFunctionOnSet(f, a..c) + SumFunctionOnSet(f, (c + 1)..(c + k))
           T == {k \in 0..(b - c) : ~Fine(k)}
<1>0. b - c \in Nat
  OBVIOUS
<1>1. T = {} => Fine(b - c)
  <2>1. b - c \in 0..(b - c)
    BY <1>0
  <2> HIDE DEF Fine
  <2> QED
    BY <2>1
<1>2. Fine(b - c) =>
        SumFunctionOnSet(f, a..b) = SumFunctionOnSet(f, a..c) + SumFunctionOnSet(f, (c + 1)..b)
  <2>1. c + (b - c) = b
    OBVIOUS
  <2> QED
    BY <2>1
<1> SUFFICES ASSUME T # {} PROVE FALSE
  BY <1>1, <1>2
<1>3. T \in SUBSET Nat
  OBVIOUS
<1>4. PICK k \in T : \A y \in T : k <= y
  <2> HIDE DEF T
  <2> QED
    BY <1>3, LeastNat
<1>5. k \in 0..(b - c) /\ ~Fine(k)
  OBVIOUS
<1> HIDE DEF Fine
<1>6. SumFunctionOnSet(f, a..c) \in Nat
  <2>1. Numbers(f, a..c)
    BY DEF Numbers
  <2> QED
    BY <2>1, SumLast
<1>7. CASE k = 0
  <2>1. c + k = c
    BY <1>7
  <2>2. SumFunctionOnSet(f, (c + 1)..(c + k)) = 0
    BY <1>7, SumNone
  <2> QED
    BY <1>5, <1>6, <2>1, <2>2 DEF Fine
<1>8. CASE k # 0
  <2>1. k - 1 \in 0..(b - c) /\ ~(k <= k - 1)
    BY <1>5, <1>8
  <2>2. Fine(k - 1)
    BY <1>4, <2>1
  <2> DEFINE d == c + k
  <2>3. d \in Int /\ c + 1 \in Int /\ c + 1 <= d /\ d <= b /\ a <= d /\ c + (k - 1) = d - 1
    BY <1>5, <1>8
  <2>4. SumFunctionOnSet(f, a..(d - 1)) =
          SumFunctionOnSet(f, a..c) + SumFunctionOnSet(f, (c + 1)..(d - 1))
    BY <2>2, <2>3 DEF Fine
  <2> HIDE DEF d
  <2>5. Numbers(f, a..d) /\ Numbers(f, (c + 1)..d)
    BY <2>3 DEF Numbers
  <2>6. /\ SumFunctionOnSet(f, a..d) = SumFunctionOnSet(f, a..(d - 1)) + f[d]
        /\ SumFunctionOnSet(f, a..(d - 1)) \in Nat
    BY <2>3, <2>5, SumLast
  <2>7. /\ SumFunctionOnSet(f, (c + 1)..d) = SumFunctionOnSet(f, (c + 1)..(d - 1)) + f[d]
        /\ SumFunctionOnSet(f, (c + 1)..(d - 1)) \in Nat
    BY <2>3, <2>5, SumLast
  <2>8. f[d] \in Nat
    BY <2>3, <2>5 DEF Numbers
  <2>9. Fine(k)
    BY <1>6, <2>4, <2>6, <2>7, <2>8 DEF Fine, d
  <2> QED
    BY <1>5, <2>9
<1> QED
  BY <1>7, <1>8
=============================================================================
