------------------------------ MODULE FoldFacts ------------------------------
(***************************************************************************)
(* What the folds of the community modules compute, for every input.       *)
(*                                                                         *)
(* They are recursive functions over the subsets of a finite set.  The     *)
(* induction theorems of the library take an operator, which the provers   *)
(* cannot instantiate; here a predicate is a set and a step is a function, *)
(* and induction is that a nonempty set of finite sets has a minimal       *)
(* member.                                                                 *)
(***************************************************************************)
EXTENDS Naturals, FiniteSets, SequencesExt, FiniteSetTheorems, SequenceTheorems,
        WellFoundedInduction, TLAPS

LEMMA MinimalSubset ==
  ASSUME NEW S, IsFiniteSet(S), NEW T, T \subseteq SUBSET S, T # {}
  PROVE  \E x \in T : \A y \in T : ~(y \subseteq x /\ y # x)
<1>1. IsWellFoundedOn(StrictSubsetOrdering(S), SUBSET S)
  BY FS_StrictSubsetOrderingWellFounded, FS_FiniteSubsetsOfFinite
<1>2. \E x \in T : \A y \in T : <<y, x>> \notin StrictSubsetOrdering(S)
  BY <1>1, WFMin
<1> QED
  BY <1>2 DEF StrictSubsetOrdering

\* Induction over the natural numbers.
LEMMA AllNumbers ==
  ASSUME NEW A, 0 \in A, \A n \in Nat : n \in A => n + 1 \in A
  PROVE  Nat \subseteq A
<1> SUFFICES ASSUME NEW n \in Nat, n \notin A PROVE FALSE
  OBVIOUS
<1> DEFINE N == 1..n
           T == {1..m : m \in {k \in 0..n : k \notin A}}
<1>1. IsFiniteSet(N)
  BY FS_Interval
<1>2. T \subseteq SUBSET N /\ T # {}
  OBVIOUS
<1>3. PICK x \in T : \A y \in T : ~(y \subseteq x /\ y # x)
  <2> HIDE DEF N, T
  <2> QED
    BY <1>1, <1>2, MinimalSubset
<1>4. PICK m \in 0..n : x = 1..m /\ m \notin A
  BY <1>3
<1>5. m # 0
  BY <1>4
<1>6. m - 1 \in 0..n /\ m - 1 \notin A
  BY <1>4, <1>5
<1>7. 1..(m - 1) \in T /\ 1..(m - 1) \subseteq x /\ 1..(m - 1) # x
  BY <1>4, <1>5, <1>6
<1> QED
  BY <1>3, <1>7

\* Induction over the subsets of a finite set, along the element a fold picks.
LEMMA FoldStays ==
  ASSUME NEW S, IsFiniteSet(S), NEW V, NEW f, NEW pick, f[{}] \in V,
         \A s \in SUBSET S : s # {} => pick[s] \in s /\ (f[s \ {pick[s]}] \in V => f[s] \in V)
  PROVE  f[S] \in V
<1> DEFINE T == {s \in SUBSET S : f[s] \notin V}
<1> SUFFICES ASSUME T # {} PROVE FALSE
  OBVIOUS
<1>1. PICK x \in T : \A y \in T : ~(y \subseteq x /\ y # x)
  <2>1. T \subseteq SUBSET S
    OBVIOUS
  <2> HIDE DEF T
  <2> QED
    BY <2>1, MinimalSubset
<1>2. x # {} /\ x \in SUBSET S /\ pick[x] \in x
  BY <1>1
<1>3. x \ {pick[x]} \in SUBSET S /\ x \ {pick[x]} \notin T
  BY <1>1, <1>2
<1> QED
  BY <1>1, <1>2, <1>3

\* pick chooses an element of every subset of S.
Picks(pick, S) == \A s \in SUBSET S : s # {} => pick[s] \in s

\* step adds an element of S to what was folded, which is in V.
Adds(step, S, V) == step \in [S \X V -> V]

\* f folds the elements of S, in the order in which pick takes them away.
FoldsBy(f, S, base, step, pick) ==
  \A s \in SUBSET S : f[s] = IF s = {} THEN base ELSE step[<<pick[s], f[s \ {pick[s]}]>>]

\* The recursion a fold is defined by has a solution.
LEMMA FoldExists ==
  ASSUME NEW S, IsFiniteSet(S), NEW V, NEW base \in V, NEW step, Adds(step, S, V),
         NEW pick, Picks(pick, S)
  PROVE  \E f \in [SUBSET S -> V] : FoldsBy(f, S, base, step, pick)
<1> USE DEF Adds
<1> DEFINE Solves(f, n) == \A s \in SUBSET S : Cardinality(s) <= n =>
             f[s] = IF s = {} THEN base ELSE step[<<pick[s], f[s \ {pick[s]}]>>]
           A == {n \in Nat : \E f \in [SUBSET S -> V] : Solves(f, n)}
<1>1. \A s \in SUBSET S : IsFiniteSet(s) /\ Cardinality(s) \in Nat
  BY FS_Subset, FS_CardinalityType
<1>2. \A s \in SUBSET S : s # {} =>
        /\ Cardinality(s) # 0 /\ s \ {pick[s]} \in SUBSET S
        /\ Cardinality(s \ {pick[s]}) = Cardinality(s) - 1
  BY <1>1, FS_EmptySet, FS_RemoveElement DEF Picks
<1>3. 0 \in A
  <2> DEFINE g == [s \in SUBSET S |-> base]
  <2>1. g \in [SUBSET S -> V]
    OBVIOUS
  <2>2. ASSUME NEW s \in SUBSET S, Cardinality(s) <= 0 PROVE s = {}
    <3>1. Cardinality(s) \in Nat
      BY <1>1
    <3>2. s # {} => Cardinality(s) # 0
      BY <1>2
    <3> QED
      BY <2>2, <3>1, <3>2
  <2>3. Solves(g, 0)
    BY <2>2
  <2> HIDE DEF g
  <2> QED
    BY <2>1, <2>3
<1>4. ASSUME NEW n \in Nat, n \in A PROVE n + 1 \in A
  <2>1. PICK f \in [SUBSET S -> V] : Solves(f, n)
    BY <1>4
  <2> DEFINE g == [s \in SUBSET S |-> IF s = {} THEN base ELSE step[<<pick[s], f[s \ {pick[s]}]>>]]
  <2>2. g \in [SUBSET S -> V]
    <3>1. \A s \in SUBSET S : s # {} => <<pick[s], f[s \ {pick[s]}]>> \in S \X V
      BY <1>2 DEF Picks
    <3> QED
      BY <3>1
  <2>3. \A s \in SUBSET S : Cardinality(s) <= n => g[s] = f[s]
    BY <2>1
  <2>4. ASSUME NEW s \in SUBSET S, s # {}, Cardinality(s) <= n + 1
        PROVE  g[s \ {pick[s]}] = f[s \ {pick[s]}]
    <3>1. Cardinality(s \ {pick[s]}) <= n
      BY <1>1, <1>2, <2>4
    <3> QED
      BY <1>2, <2>3, <2>4, <3>1
  <2>5. Solves(g, n + 1)
    BY <2>4
  <2> HIDE DEF g, Solves
  <2> QED
    BY <2>2, <2>5
<1>5. Cardinality(S) \in A
  BY <1>1, <1>3, <1>4, AllNumbers
<1>6. PICK f \in [SUBSET S -> V] : Solves(f, Cardinality(S))
  BY <1>5
<1>7. \A s \in SUBSET S : Cardinality(s) <= Cardinality(S)
  BY FS_Subset
<1> QED
  BY <1>6, <1>7 DEF FoldsBy

-----------------------------------------------------------------------------
(* FlattenSeq *)

\* A sequence has finitely many places.
LEMMA FinitePlaces ==
  ASSUME NEW S, NEW s \in Seq(S)
  PROVE  IsFiniteSet(DOMAIN s)
<1>1. DOMAIN s = 1..Len(s) /\ Len(s) \in Int
  OBVIOUS
<1> QED
  BY <1>1, FS_Interval

\* Two sequences one after the other.
LEMMA Joined ==
  ASSUME NEW S, NEW s \in Seq(S), NEW t \in Seq(S)
  PROVE  /\ s \o t \in Seq(S) /\ ToSet(s \o t) = ToSet(s) \cup ToSet(t)
         /\ IsInjective(s) /\ IsInjective(t) /\ ToSet(s) \cap ToSet(t) = {} => IsInjective(s \o t)
<1> DEFINE m == Len(s)
           n == Len(t)
           u == s \o t
<1>1. /\ m \in Nat /\ n \in Nat /\ DOMAIN s = 1..m /\ DOMAIN t = 1..n
      /\ u \in Seq(S) /\ DOMAIN u = 1..(m + n)
      /\ \A i \in 1..(m + n) : u[i] = IF i <= m THEN s[i] ELSE t[i - m]
  OBVIOUS
<1> HIDE DEF m, n, u
<1>2. \A i \in 1..m : i \in 1..(m + n) /\ u[i] = s[i]
  BY <1>1
<1>3. \A i \in 1..n : m + i \in 1..(m + n) /\ u[m + i] = t[i]
  BY <1>1
<1>4. \A i \in 1..(m + n) : (i \in 1..m /\ u[i] = s[i]) \/ (i - m \in 1..n /\ u[i] = t[i - m])
  BY <1>1
<1>5. ToSet(u) = ToSet(s) \cup ToSet(t)
  <2>1. ToSet(u) \subseteq ToSet(s) \cup ToSet(t)
    BY <1>1, <1>4 DEF ToSet
  <2>2. ToSet(s) \subseteq ToSet(u)
    BY <1>1, <1>2 DEF ToSet
  <2>3. ToSet(t) \subseteq ToSet(u)
    <3>1. ASSUME NEW i \in 1..n PROVE t[i] \in ToSet(u)
      BY <1>1, <1>3 DEF ToSet
    <3> QED
      BY <1>1, <3>1 DEF ToSet
  <2> QED
    BY <2>1, <2>2, <2>3
<1>6. ASSUME IsInjective(s), IsInjective(t), ToSet(s) \cap ToSet(t) = {} PROVE IsInjective(u)
  <2>1. ASSUME NEW i \in 1..(m + n), NEW j \in 1..(m + n), u[i] = u[j] PROVE i = j
    <3>1. \A k \in 1..m, l \in 1..n : s[k] # t[l]
      BY <1>1, <1>6 DEF ToSet
    <3>2. CASE i \in 1..m /\ j \in 1..m
      BY <1>1, <1>2, <1>6, <2>1, <3>2 DEF IsInjective
    <3>3. CASE i - m \in 1..n /\ j - m \in 1..n /\ u[i] = t[i - m] /\ u[j] = t[j - m]
      <4>1. i - m = j - m
        BY <1>1, <1>6, <2>1, <3>3 DEF IsInjective
      <4> QED
        BY <1>1, <4>1
    <3> QED
      BY <1>1, <1>4, <2>1, <3>1, <3>2, <3>3
  <2> QED
    BY <1>1, <2>1 DEF IsInjective
<1> QED
  BY <1>1, <1>5, <1>6 DEF u

\* FlattenSeq puts the parts together one by one.
LEMMA FlattenedSteps ==
  ASSUME NEW S, NEW q \in Seq(Seq(S)), Len(q) # 0
  PROVE  \E f : /\ f = [i \in 1..Len(q) |-> IF i = 1 THEN q[i] ELSE f[i - 1] \o q[i]]
               /\ FlattenSeq(q) = f[Len(q)]
<1> DEFINE n == Len(q)
           Rest(f, i) == IF i = 1 THEN q[i] ELSE f[i - 1] \o q[i]
           flat == CHOOSE f : f = [i \in 1..n |-> Rest(f, i)]
<1>0. n \in Nat
  OBVIOUS
<1>1. FlattenSeq(q) = flat[n]
  BY DEF FlattenSeq
<1> HIDE DEF n
<1>2. \E f : f = [i \in 1..n |-> Rest(f, i)]
  <2> DEFINE Upto(f, m) == \A i \in 1..n : i <= m => f[i] = Rest(f, i)
             A == {m \in Nat : \E f : f = [i \in 1..n |-> f[i]] /\ Upto(f, m)}
  <2>1. 0 \in A
    <3> DEFINE f == [i \in 1..n |-> q]
    <3>1. \A i \in 1..n : ~(i <= 0)
      BY <1>0
    <3>2. f = [i \in 1..n |-> f[i]]
      OBVIOUS
    <3>3. Upto(f, 0)
      BY <3>1
    <3> HIDE DEF f, Upto
    <3> QED
      BY <3>2, <3>3
  <2>2. ASSUME NEW m \in Nat, m \in A PROVE m + 1 \in A
    <3>1. PICK f : f = [i \in 1..n |-> f[i]] /\ Upto(f, m)
      BY <2>2
    <3> DEFINE g == [i \in 1..n |-> Rest(f, i)]
    <3>2. \A i \in 1..n : i <= m => g[i] = f[i]
      BY <3>1
    <3>3. ASSUME NEW i \in 1..n, i <= m + 1 PROVE g[i] = Rest(g, i)
      <4>1. i # 1 => i - 1 \in 1..n /\ i - 1 <= m
        BY <1>0, <3>3
      <4>2. i # 1 => g[i - 1] = f[i - 1]
        BY <3>2, <4>1
      <4> QED
        BY <4>2
    <3>4. Upto(g, m + 1) /\ g = [i \in 1..n |-> g[i]]
      BY <3>3
    <3> HIDE DEF g, Upto
    <3>5. m + 1 \in Nat
      OBVIOUS
    <3> QED
      BY <3>4, <3>5
  <2>3. n \in A
    BY <1>0, <2>1, <2>2, AllNumbers
  <2>4. PICK f : f = [i \in 1..n |-> f[i]] /\ Upto(f, n)
    BY <2>3
  <2>5. \A i \in 1..n : f[i] = Rest(f, i)
    <3>1. \A i \in 1..n : i <= n
      BY <1>0
    <3>2. Upto(f, n)
      BY <2>4
    <3> QED
      BY <3>1, <3>2
  <2>6. f = [i \in 1..n |-> Rest(f, i)]
    <3>1. [i \in 1..n |-> f[i]] = [i \in 1..n |-> Rest(f, i)]
      BY <2>5
    <3> QED
      BY <2>4, <3>1
  <2> QED
    BY <2>6
<1>3. flat = [i \in 1..n |-> Rest(flat, i)]
  BY <1>2
<1> QED
  BY <1>1, <1>3 DEF n

\* The same from nothing: what the first k parts make.
LEMMA FlattenedUpTo ==
  ASSUME NEW S, NEW q \in Seq(Seq(S))
  PROVE  \E f \in [0..Len(q) -> Seq(S)] :
           /\ f[0] = << >> /\ FlattenSeq(q) = f[Len(q)]
           /\ \A k \in 1..Len(q) : f[k] = f[k - 1] \o q[k]
<1> DEFINE n == Len(q)
<1>1. n \in Nat /\ DOMAIN q = 1..n /\ (\A i \in 1..n : q[i] \in Seq(S)) /\ << >> \in Seq(S)
  OBVIOUS
<1>2. CASE n = 0
  <2>1. FlattenSeq(q) = << >>
    <3>1. q = << >>
      BY <1>2
    <3> QED
      BY <3>1 DEF FlattenSeq
  <2> DEFINE f == [k \in 0..n |-> << >>]
  <2>2. f \in [0..n -> Seq(S)] /\ f[0] = << >> /\ f[n] = << >>
    BY <1>1
  <2>3. 1..n = {}
    BY <1>2
  <2> HIDE DEF f
  <2> QED
    BY <2>1, <2>2, <2>3
<1>3. CASE n # 0
  <2>1. PICK g : /\ g = [i \in 1..n |-> IF i = 1 THEN q[i] ELSE g[i - 1] \o q[i]]
                 /\ FlattenSeq(q) = g[n]
    BY <1>3, FlattenedSteps
  <2> DEFINE f == [k \in 0..n |-> IF k = 0 THEN << >> ELSE g[k]]
             A == {m \in Nat : m \in 1..n => g[m] \in Seq(S)}
  <2> HIDE DEF n
  <2>2. \A i \in 1..n : g[i] = IF i = 1 THEN q[i] ELSE g[i - 1] \o q[i]
    BY <2>1
  <2>3. Nat \subseteq A
    <3>1. 0 \in A
      BY <1>1
    <3>2. ASSUME NEW m \in Nat, m \in A, m + 1 \in 1..n PROVE g[m + 1] \in Seq(S)
      <4>1. CASE m = 0
        BY <1>1, <2>2, <3>2, <4>1
      <4>2. CASE m # 0
        <5>1. m \in 1..n /\ (m + 1) - 1 = m /\ m + 1 # 1
          BY <1>1, <3>2, <4>2
        <5>2. g[m + 1] = g[m] \o q[m + 1] /\ g[m] \in Seq(S) /\ q[m + 1] \in Seq(S)
          BY <1>1, <2>2, <3>2, <5>1
        <5> QED
          BY <5>2
      <4> QED
        BY <4>1, <4>2
    <3>3. \A m \in Nat : m \in A => m + 1 \in A
      BY <3>2
    <3> HIDE DEF A
    <3> QED
      BY <3>1, <3>3, AllNumbers
  <2>4. \A k \in 1..n : g[k] \in Seq(S)
    BY <1>1, <2>3
  <2>5. f \in [0..n -> Seq(S)] /\ f[0] = << >> /\ f[n] = g[n]
    <3>1. \A k \in 0..n : k = 0 \/ k \in 1..n
      BY <1>1
    <3> QED
      BY <1>1, <1>3, <2>4, <3>1
  <2>6. ASSUME NEW k \in 1..n PROVE f[k] = f[k - 1] \o q[k]
    <3>1. CASE k = 1
      <4>1. f[k] = q[k] /\ f[k - 1] = << >> /\ q[k] \in Seq(S)
        BY <1>1, <2>2, <3>1
      <4> HIDE DEF f
      <4> QED
        BY <4>1
    <3>2. CASE k # 1
      <4>1. k \in 0..n /\ k - 1 \in 0..n /\ k # 0 /\ k - 1 # 0
        BY <1>1, <3>2
      <4>2. g[k] = g[k - 1] \o q[k]
        BY <2>2, <3>2
      <4> QED
        BY <4>1, <4>2
    <3> QED
      BY <3>1, <3>2
  <2> HIDE DEF f
  <2> QED
    BY <2>1, <2>5, <2>6 DEF n
<1> QED
  BY <1>2, <1>3

\* FlattenSeq yields what is in the parts, each once when the parts share nothing.
LEMMA Flattened ==
  ASSUME NEW S, NEW q \in Seq(Seq(S))
  PROVE  /\ FlattenSeq(q) \in Seq(S)
         /\ ToSet(FlattenSeq(q)) = UNION {ToSet(q[i]) : i \in DOMAIN q}
         /\ /\ \A i \in DOMAIN q : IsInjective(q[i])
            /\ \A i, j \in DOMAIN q : i # j => ToSet(q[i]) \cap ToSet(q[j]) = {}
            => IsInjective(FlattenSeq(q))
<1> DEFINE n == Len(q)
           Rest(f, i) == IF i = 1 THEN q[i] ELSE f[i - 1] \o q[i]
<1>0. n \in Nat /\ DOMAIN q = 1..n /\ \A i \in 1..n : q[i] \in Seq(S)
  OBVIOUS
<1>1. CASE n = 0
  <2>1. q = << >> /\ FlattenSeq(q) = << >>
    BY <1>1 DEF FlattenSeq
  <2>2. ToSet(<< >>) = {} /\ DOMAIN q = {} /\ IsInjective(<< >>) /\ << >> \in Seq(S)
    BY <1>0, <1>1 DEF ToSet, IsInjective
  <2> QED
    BY <2>1, <2>2
<1>2. CASE n # 0
  <2>1. PICK flat : flat = [i \in 1..n |-> Rest(flat, i)] /\ FlattenSeq(q) = flat[n]
    BY <1>2, FlattenedSteps
  <2> HIDE DEF n
  <2> DEFINE Good(m) ==
        /\ flat[m] \in Seq(S) /\ ToSet(flat[m]) = UNION {ToSet(q[i]) : i \in 1..m}
        /\ /\ \A i \in DOMAIN q : IsInjective(q[i])
           /\ \A i, j \in DOMAIN q : i # j => ToSet(q[i]) \cap ToSet(q[j]) = {}
           => IsInjective(flat[m])
             A == {m \in Nat : m \in 1..n => Good(m)}
  <2>4. 0 \in A
    OBVIOUS
  <2>5. ASSUME NEW m \in Nat, m \in A, m + 1 \in 1..n PROVE Good(m + 1)
    <3>1. CASE m = 0
      <4>1. flat[1] = q[1] /\ 1 \in DOMAIN q
        BY <1>0, <2>1, <2>5, <3>1
      <4> QED
        BY <1>0, <3>1, <4>1
    <3>2. CASE m # 0
      <4>1. m \in 1..n /\ m + 1 # 1 /\ (m + 1) - 1 = m
        BY <1>0, <2>5, <3>2
      <4>2. flat[m + 1] = flat[m] \o q[m + 1]
        BY <2>1, <2>5, <4>1
      <4>3. Good(m)
        BY <2>5, <4>1
      <4>4. UNION {ToSet(q[i]) : i \in 1..(m + 1)} = ToSet(flat[m]) \cup ToSet(q[m + 1])
        <5>1. \A i : i \in 1..(m + 1) <=> i \in 1..m \/ i = m + 1
          BY <4>1
        <5> QED
          BY <4>3, <5>1
      <4>5. ASSUME \A i, j \in DOMAIN q : i # j => ToSet(q[i]) \cap ToSet(q[j]) = {}
            PROVE  ToSet(flat[m]) \cap ToSet(q[m + 1]) = {}
        <5>1. \A i \in 1..m : i \in DOMAIN q /\ i # m + 1 /\ m + 1 \in DOMAIN q
          BY <1>0, <2>5
        <5> QED
          BY <4>3, <4>5, <5>1
      <4>6. /\ flat[m] \in Seq(S) /\ q[m + 1] \in Seq(S) /\ m + 1 \in DOMAIN q
        BY <1>0, <2>5, <4>3
      <4>7. /\ flat[m + 1] \in Seq(S)
            /\ ToSet(flat[m + 1]) = ToSet(flat[m]) \cup ToSet(q[m + 1])
            /\ IsInjective(flat[m]) /\ IsInjective(q[m + 1]) /\ ToSet(flat[m]) \cap ToSet(q[m + 1]) = {} => IsInjective(flat[m + 1])
        BY <4>2, <4>6, Joined
      <4> QED
        BY <4>3, <4>4, <4>5, <4>6, <4>7
    <3> QED
      BY <3>1, <3>2
  <2>6. Good(n)
    <3>1. ASSUME NEW m \in Nat, m \in A PROVE m + 1 \in A
      <4>1. m + 1 \in 1..n => Good(m + 1)
        BY <2>5, <3>1
      <4> HIDE DEF Good
      <4> QED
        BY <4>1
    <3>2. n \in A
      BY <1>0, <2>4, <3>1, AllNumbers
    <3> QED
      BY <1>0, <1>2, <3>2
  <2> QED
    BY <1>0, <2>1, <2>6
<1> QED
  BY <1>1, <1>2

-----------------------------------------------------------------------------
(* Parts of a sequence *)

\* A sequence cut in two after its first k entries.
LEMMA CutAnywhere ==
  ASSUME NEW S, NEW s \in Seq(S), NEW k \in 0..Len(s)
  PROVE  LET a == SubSeq(s, 1, k)
             b == SubSeq(s, k + 1, Len(s))
         IN  /\ a \in Seq(S) /\ b \in Seq(S) /\ ToSet(s) = ToSet(a) \cup ToSet(b)
             /\ Len(a) = k /\ \A i \in 1..k : a[i] = s[i]
             /\ Len(b) = Len(s) - k /\ \A i \in 1..(Len(s) - k) : b[i] = s[k + i]
             /\ IsInjective(s) => IsInjective(a) /\ IsInjective(b) /\ ToSet(a) \cap ToSet(b) = {}
<1> DEFINE a == SubSeq(s, 1, k)
           b == SubSeq(s, k + 1, Len(s))
           n == Len(s)
<1>1. n \in Nat /\ k \in 0..n /\ DOMAIN s = 1..n /\ \A i \in 1..n : s[i] \in S
  OBVIOUS
<1>2. a \in Seq(S) /\ Len(a) = k /\ \A i \in 1..k : a[i] = s[i]
  <2>1. \A i \in 1..k : s[i] \in S
    BY <1>1
  <2> QED
    BY <1>1, <2>1, SubSeqProperties
<1>3. b \in Seq(S) /\ Len(b) = n - k /\ \A i \in 1..(n - k) : b[i] = s[k + i]
  <2>1. \A i \in (k + 1)..n : s[i] \in S
    BY <1>1
  <2>2. k + 1 \in Int /\ n \in Int
    BY <1>1
  <2>3. /\ b \in Seq(S) /\ Len(b) = IF k + 1 <= n THEN n - (k + 1) + 1 ELSE 0
        /\ \A i \in 1..(n - (k + 1) + 1) : b[i] = s[(k + 1) + i - 1]
    BY <2>1, <2>2, SubSeqProperties
  <2> HIDE DEF b, n
  <2>4. n - (k + 1) + 1 = n - k /\ \A i \in 1..(n - k) : (k + 1) + i - 1 = k + i
    BY <1>1
  <2> QED
    BY <1>1, <2>3, <2>4
<1>4. DOMAIN a = 1..k /\ DOMAIN b = 1..(n - k)
  BY <1>2, <1>3
<1> HIDE DEF a, b, n
<1>5. ToSet(s) = ToSet(a) \cup ToSet(b)
  <2>1. ASSUME NEW i \in 1..n PROVE s[i] \in ToSet(a) \cup ToSet(b)
    <3>1. CASE i \in 1..k
      BY <1>2, <1>4, <3>1 DEF ToSet
    <3>2. CASE ~(i \in 1..k)
      <4>1. i - k \in 1..(n - k) /\ k + (i - k) = i
        BY <1>1, <3>2
      <4>2. b[i - k] = s[i]
        BY <1>3, <4>1
      <4> QED
        BY <1>4, <4>1, <4>2 DEF ToSet
    <3> QED
      BY <3>1, <3>2
  <2>2. \A i \in 1..k : i \in DOMAIN s
    BY <1>1
  <2>3. \A i \in 1..(n - k) : k + i \in DOMAIN s
    BY <1>1
  <2>4. ToSet(a) \subseteq ToSet(s)
    BY <1>2, <1>4, <2>2 DEF ToSet
  <2>5. ToSet(b) \subseteq ToSet(s)
    BY <1>3, <1>4, <2>3 DEF ToSet
  <2>6. ToSet(s) \subseteq ToSet(a) \cup ToSet(b)
    BY <1>1, <2>1 DEF ToSet
  <2> QED
    BY <2>4, <2>5, <2>6
<1>6. ASSUME IsInjective(s) PROVE IsInjective(a) /\ IsInjective(b) /\ ToSet(a) \cap ToSet(b) = {}
  <2>1. IsInjective(a)
    BY <1>1, <1>2, <1>4, <1>6 DEF IsInjective
  <2>2. IsInjective(b)
    <3>1. ASSUME NEW i \in 1..(n - k), NEW j \in 1..(n - k), b[i] = b[j] PROVE i = j
      <4>1. s[k + i] = s[k + j] /\ k + i \in DOMAIN s /\ k + j \in DOMAIN s
        BY <1>1, <1>3, <3>1
      <4>2. k + i = k + j
        BY <1>6, <4>1 DEF IsInjective
      <4> QED
        BY <1>1, <4>2
    <3> QED
      BY <1>4, <3>1 DEF IsInjective
  <2>3. ASSUME NEW i \in 1..k, NEW j \in 1..(n - k) PROVE a[i] # b[j]
    <3>1. i \in DOMAIN s /\ k + j \in DOMAIN s /\ i # k + j
      BY <1>1
    <3> QED
      BY <1>2, <1>3, <1>6, <3>1 DEF IsInjective
  <2> QED
    BY <1>4, <2>1, <2>2, <2>3 DEF ToSet
<1> QED
  BY <1>1, <1>2, <1>3, <1>5, <1>6 DEF a, b, n

LEMMA LeastOf ==
  ASSUME NEW I, I \subseteq Nat, I # {}
  PROVE  Min(I) \in I /\ \A i \in I : Min(I) <= i
<1>1. \E m \in I : \A i \in I : m <= i
  <2> SUFFICES ASSUME \A m \in I : \E i \in I : i < m PROVE FALSE
    OBVIOUS
  <2> DEFINE A == {n \in Nat : \A m \in 0..n : m \notin I}
  <2>1. 0 \in A
    OBVIOUS
  <2>2. ASSUME NEW n \in Nat, n \in A PROVE n + 1 \in A
    <3>1. n + 1 \notin I
      BY <2>2
    <3> QED
      BY <2>2, <3>1
  <2>3. Nat \subseteq A
    <3> HIDE DEF A
    <3> QED
      BY <2>1, <2>2, AllNumbers
  <2>4. PICK i \in I : i \in A
    BY <2>3
  <2> QED
    BY <2>4
<1> QED
  BY <1>1 DEF Min

LEMMA GreatestUpTo ==
  ASSUME NEW n \in Nat, NEW I, I \subseteq 0..n, I # {}
  PROVE  Max(I) \in I /\ \A i \in I : i <= Max(I)
<1> DEFINE J == {n - i : i \in I}
<1>1. J \subseteq Nat /\ J # {}
  <2>1. ASSUME NEW i \in I PROVE n - i \in Nat
    <3>1. i \in 0..n
      OBVIOUS
    <3> QED
      BY <3>1
  <2>2. \A j \in J : j \in Nat
    BY <2>1
  <2> QED
    BY <2>2
<1>2. PICK j \in J : \A k \in J : j <= k
  <2> HIDE DEF J
  <2> QED
    BY <1>1, LeastOf
<1>3. PICK m \in I : j = n - m
  BY <1>2
<1>4. \A i \in I : i <= m
  <2>1. ASSUME NEW i \in I PROVE i <= m
    <3>1. i \in 0..n /\ m \in 0..n /\ n - i \in J
      OBVIOUS
    <3>2. n - m <= n - i
      BY <1>2, <1>3, <3>1
    <3> QED
      BY <3>1, <3>2
  <2> QED
    BY <2>1
<1> QED
  BY <1>4 DEF Max

LEMMA GreatestOf ==
  ASSUME NEW n \in Nat, NEW I, I \subseteq 1..n, I # {}
  PROVE  Max(I) \in I /\ \A i \in I : i <= Max(I)
<1>1. I \subseteq 0..n
  <2>1. 1..n \subseteq 0..n
    OBVIOUS
  <2> QED
    BY <2>1
<1> QED
  BY <1>1, GreatestUpTo

\* A sequence less an entry.
LEMMA OneRemoved ==
  ASSUME NEW S, NEW s \in Seq(S), NEW k \in 1..Len(s)
  PROVE  RemoveAt(s, k) \in Seq(S) /\ ToSet(RemoveAt(s, k)) \subseteq ToSet(s)
<1> DEFINE n == Len(s)
<1>1. n \in Nat /\ DOMAIN s = 1..n /\ \A i \in 1..n : s[i] \in ToSet(s) \cap S
  BY DEF ToSet
<1>2. /\ SubSeq(s, 1, k - 1) \in Seq(ToSet(s) \cap S)
      /\ SubSeq(s, k + 1, n) \in Seq(ToSet(s) \cap S)
  <2>1. \A i \in 1..(k - 1) : s[i] \in ToSet(s) \cap S
    BY <1>1
  <2>2. \A i \in (k + 1)..n : s[i] \in ToSet(s) \cap S
    BY <1>1
  <2>3. k + 1 \in Int /\ n \in Int /\ k - 1 \in Int /\ 1 \in Int
    BY <1>1
  <2> HIDE DEF n
  <2> QED
    BY <2>1, <2>2, <2>3, SubSeqProperties
<1>3. RemoveAt(s, k) \in Seq(ToSet(s) \cap S)
  BY <1>2 DEF RemoveAt
<1> HIDE DEF n
<1>4. RemoveAt(s, k) \in Seq(S)
  BY <1>3, SeqMonotonic
<1>5. \A i \in DOMAIN RemoveAt(s, k) : RemoveAt(s, k)[i] \in ToSet(s)
  BY <1>3
<1> QED
  BY <1>4, <1>5 DEF ToSet

LEMMA FirstRemoved ==
  ASSUME NEW S, NEW s \in Seq(S), NEW e
  PROVE  RemoveFirst(s, e) \in Seq(S) /\ ToSet(RemoveFirst(s, e)) \subseteq ToSet(s)
<1> DEFINE I == {i \in 1..Len(s) : s[i] = e}
<1>1. CASE I # {}
  <2>1. Min(I) \in I
    <3>1. I \subseteq Nat
      OBVIOUS
    <3> HIDE DEF I
    <3> QED
      BY <1>1, <3>1, LeastOf
  <2>2. RemoveFirst(s, e) = RemoveAt(s, Min(I))
    BY <1>1 DEF RemoveFirst, SelectInSeq
  <2> QED
    BY <2>1, <2>2, OneRemoved
<1>2. CASE I = {}
  BY <1>2 DEF RemoveFirst
<1> QED
  BY <1>1, <1>2

-----------------------------------------------------------------------------
(* Sums of natural numbers *)

\* Induction over the subsets of a finite set, one element more at a time.
LEMMA AllSubsets ==
  ASSUME NEW S, IsFiniteSet(S), NEW A, {} \in A,
         \A s \in SUBSET S : s # {} /\ (\A x \in s : s \ {x} \in A) => s \in A
  PROVE  SUBSET S \subseteq A
<1> DEFINE T == {s \in SUBSET S : s \notin A}
<1> SUFFICES ASSUME T # {} PROVE FALSE
  OBVIOUS
<1>1. PICK s \in T : \A y \in T : ~(y \subseteq s /\ y # s)
  <2>1. T \subseteq SUBSET S
    OBVIOUS
  <2> HIDE DEF T
  <2> QED
    BY <2>1, MinimalSubset
<1>2. ASSUME NEW x \in s PROVE s \ {x} \in A
  <2>1. s \ {x} \in SUBSET S /\ s \ {x} \notin T
    BY <1>1
  <2> QED
    BY <2>1
<1> QED
  BY <1>1, <1>2

\* sum gives the total of w over every subset of S, in whatever order it is taken.
Sums(sum, S, w) ==
  /\ sum \in [SUBSET S -> Nat] /\ sum[{}] = 0
  /\ \A s \in SUBSET S : \A x \in s : sum[s] = w[x] + sum[s \ {x}]

LEMMA SumExists ==
  ASSUME NEW S, IsFiniteSet(S), NEW w \in [S -> Nat]
  PROVE  \E sum : Sums(sum, S, w)
<1> DEFINE pick == [s \in SUBSET S |-> CHOOSE x \in s : TRUE]
           step == [p \in S \X Nat |-> w[p[1]] + p[2]]
<1>1. Picks(pick, S) /\ Adds(step, S, Nat)
  BY DEF Picks, Adds
<1>2. \A x \in S, n \in Nat : step[<<x, n>>] = w[x] + n
  OBVIOUS
<1> HIDE DEF pick, step
<1>3. PICK f \in [SUBSET S -> Nat] : FoldsBy(f, S, 0, step, pick)
  BY <1>1, FoldExists
<1>4. f[{}] = 0 /\ \A s \in SUBSET S : s # {} => pick[s] \in s /\ f[s] = w[pick[s]] + f[s \ {pick[s]}]
  <2>1. ASSUME NEW s \in SUBSET S, s # {} PROVE pick[s] \in S /\ s \ {pick[s]} \in SUBSET S /\ pick[s] \in s
    BY <1>1, <2>1 DEF Picks
  <2> QED
    BY <1>2, <1>3, <2>1 DEF FoldsBy
<1> DEFINE A == {s \in SUBSET S : \A x \in s : f[s] = w[x] + f[s \ {x}]}
<1>5. ASSUME NEW s \in SUBSET S, s # {}, \A x \in s : s \ {x} \in A PROVE s \in A
  <2> SUFFICES ASSUME NEW x \in s PROVE f[s] = w[x] + f[s \ {x}]
    OBVIOUS
  <2> DEFINE y == pick[s]
             rest == (s \ {x}) \ {y}
  <2>1. y \in s /\ f[s] = w[y] + f[s \ {y}]
    BY <1>4
  <2>2. CASE x # y
    <3>1. rest = (s \ {y}) \ {x} /\ rest \in SUBSET S /\ w[x] \in Nat /\ w[y] \in Nat /\ f[rest] \in Nat
      BY <2>1
    <3>2. f[s \ {y}] = w[x] + f[rest]
      BY <1>5, <2>1, <2>2, <3>1
    <3>3. f[s \ {x}] = w[y] + f[rest]
      BY <1>5, <2>1, <2>2
    <3> HIDE DEF y, rest
    <3> QED
      BY <2>1, <3>1, <3>2, <3>3
  <2> QED
    BY <2>1, <2>2
<1>6. SUBSET S \subseteq A
  <2>1. {} \in A
    OBVIOUS
  <2> HIDE DEF A
  <2> QED
    BY <1>5, <2>1, AllSubsets
<1>7. Sums(f, S, w)
  BY <1>4, <1>6 DEF Sums
<1> QED
  BY <1>7

\* f adds up w over the elements of R, in the order in which pick takes them away.
AddsUp(f, R, w, pick) ==
  \A s \in SUBSET R : f[s] = IF s = {} THEN 0 ELSE w[pick[s]] + f[s \ {pick[s]}]

\* In which order does not matter.
LEMMA FoldIsSum ==
  ASSUME NEW S, IsFiniteSet(S), NEW w, NEW sum, Sums(sum, S, w), NEW R \in SUBSET S,
         NEW pick, Picks(pick, R), NEW f, AddsUp(f, R, w, pick)
  PROVE  f[R] = sum[R]
<1> USE DEF AddsUp
<1> DEFINE A == {s \in SUBSET R : f[s] = sum[s]}
<1>1. IsFiniteSet(R)
  BY FS_Subset
<1>2. {} \in A
  BY DEF Sums
<1>3. ASSUME NEW s \in SUBSET R, s # {}, \A x \in s : s \ {x} \in A PROVE s \in A
  <2>1. pick[s] \in s /\ f[s] = w[pick[s]] + f[s \ {pick[s]}]
    BY <1>3 DEF Picks
  <2>2. f[s \ {pick[s]}] = sum[s \ {pick[s]}]
    BY <1>3, <2>1
  <2>3. sum[s] = w[pick[s]] + sum[s \ {pick[s]}]
    BY <1>3, <2>1 DEF Sums
  <2> QED
    BY <2>1, <2>2, <2>3
<1>4. SUBSET R \subseteq A
  <2> HIDE DEF A
  <2> QED
    BY <1>1, <1>2, <1>3, AllSubsets
<1> QED
  BY <1>4

\* What two sets that share nothing hold together.
LEMMA SumSplit ==
  ASSUME NEW S, IsFiniteSet(S), NEW w \in [S -> Nat], NEW sum, Sums(sum, S, w),
         NEW A \in SUBSET S, NEW B \in SUBSET S, A \cap B = {}
  PROVE  sum[A \cup B] = sum[A] + sum[B]
<1> DEFINE T == {s \in SUBSET B : sum[A \cup s] = sum[A] + sum[s]}
<1>1. IsFiniteSet(B)
  BY FS_Subset
<1>2. {} \in T
  <2>1. A \cup {} = A /\ sum[A] \in Nat /\ sum[{}] = 0
    BY DEF Sums
  <2> QED
    BY <2>1
<1>3. ASSUME NEW s \in SUBSET B, s # {}, \A x \in s : s \ {x} \in T PROVE s \in T
  <2>1. PICK x \in s : TRUE
    BY <1>3
  <2>2. (A \cup s) \ {x} = A \cup (s \ {x})
    OBVIOUS
  <2>3. sum[A \cup s] = w[x] + sum[A \cup (s \ {x})] /\ sum[s] = w[x] + sum[s \ {x}]
    BY <2>2 DEF Sums
  <2>4. sum[A \cup (s \ {x})] = sum[A] + sum[s \ {x}]
    BY <1>3
  <2>5. w[x] \in Nat /\ sum[A] \in Nat /\ sum[s \ {x}] \in Nat
    BY DEF Sums
  <2> QED
    BY <2>3, <2>4, <2>5
<1>4. SUBSET B \subseteq T
  <2> HIDE DEF T
  <2> QED
    BY <1>1, <1>2, <1>3, AllSubsets
<1> QED
  BY <1>4

\* A sum grows with the set, and counts what two sets share at most twice.
LEMMA SumBounds ==
  ASSUME NEW S, IsFiniteSet(S), NEW w \in [S -> Nat], NEW sum, Sums(sum, S, w),
         NEW A \in SUBSET S, NEW B \in SUBSET S
  PROVE  /\ A \subseteq B => sum[A] <= sum[B]
         /\ sum[A \cup B] <= sum[A] + sum[B]
<1>1. sum[A \cup (B \ A)] = sum[A] + sum[B \ A]
  <2> DEFINE rest == B \ A
  <2>1. rest \in SUBSET S /\ A \cap rest = {}
    OBVIOUS
  <2> HIDE DEF rest
  <2>2. sum[A \cup rest] = sum[A] + sum[rest]
    BY <2>1, SumSplit, Z3
  <2> QED
    BY <2>2 DEF rest
<1>2. sum[B] = sum[A \cap B] + sum[B \ A]
  <2>1. B = (A \cap B) \cup (B \ A) /\ (A \cap B) \cap (B \ A) = {}
    OBVIOUS
  <2>2. sum[(A \cap B) \cup (B \ A)] = sum[A \cap B] + sum[B \ A]
    BY <2>1, SumSplit, SMTT(30)
  <2> QED
    BY <2>1, <2>2
<1>3. A \cup (B \ A) = A \cup B
  OBVIOUS
<1>4. sum[A] \in Nat /\ sum[B \ A] \in Nat /\ sum[A \cap B] \in Nat
  BY DEF Sums
<1>5. ASSUME A \subseteq B PROVE sum[A] <= sum[B]
  <2>1. A \cap B = A
    BY <1>5
  <2> QED
    BY <1>2, <1>4, <2>1
<1>6. sum[A \cup B] <= sum[A] + sum[B]
  <2> DEFINE a == sum[A]
             b == sum[B]
             m == sum[A \cap B]
             n == sum[B \ A]
             u == sum[A \cup B]
  <2>1. u = a + n /\ b = m + n /\ a \in Nat /\ m \in Nat /\ n \in Nat
    BY <1>1, <1>2, <1>3, <1>4
  <2> HIDE DEF a, b, m, n, u
  <2>2. u <= a + b
    BY <2>1
  <2> QED
    BY <2>2 DEF a, b, u
<1> QED
  BY <1>5, <1>6

\* One sum is at most another when g finds every term of the first in the second.
LEMMA SumInjected ==
  ASSUME NEW S, IsFiniteSet(S), NEW v \in [S -> Nat], NEW left, Sums(left, S, v),
         NEW T, IsFiniteSet(T), NEW w \in [T -> Nat], NEW right, Sums(right, T, w),
         NEW A \in SUBSET S, NEW B \in SUBSET T, NEW g \in [A -> B],
         \A x, y \in A : g[x] = g[y] => x = y,
         \A x \in A : v[x] <= w[g[x]]
  PROVE  left[A] <= right[B]
<1> DEFINE Image(s) == {g[x] : x \in s}
           C == {s \in SUBSET A : left[s] <= right[Image(s)]}
<1>1. IsFiniteSet(A)
  BY FS_Subset
<1>2. {} \in C
  BY DEF Sums
<1>3. ASSUME NEW s \in SUBSET A, s # {}, \A x \in s : s \ {x} \in C PROVE s \in C
  <2>1. PICK x \in s : TRUE
    BY <1>3
  <2>2. Image(s) \in SUBSET T /\ g[x] \in Image(s) /\ Image(s \ {x}) \in SUBSET T
    OBVIOUS
  <2>3. Image(s) \ {g[x]} = Image(s \ {x})
    OBVIOUS
  <2>4. left[s \ {x}] <= right[Image(s \ {x})]
    BY <1>3
  <2>5. left[s \ {x}] \in Nat /\ right[Image(s \ {x})] \in Nat /\ v[x] \in Nat /\ w[g[x]] \in Nat
    BY <2>2 DEF Sums
  <2>6. left[s] = v[x] + left[s \ {x}] /\ right[Image(s)] = w[g[x]] + right[Image(s) \ {g[x]}]
    BY <2>2 DEF Sums
  <2>7. v[x] <= w[g[x]]
    OBVIOUS
  <2> HIDE DEF Image
  <2> QED
    BY <2>3, <2>4, <2>5, <2>6, <2>7
<1>4. SUBSET A \subseteq C
  <2> HIDE DEF C
  <2> QED
    BY <1>1, <1>2, <1>3, AllSubsets
<1>5. Image(A) \in SUBSET B
  OBVIOUS
<1>6. right[Image(A)] <= right[B]
  <2> HIDE DEF Image
  <2> QED
    BY <1>5, SumBounds
<1>7. left[A] \in Nat /\ right[Image(A)] \in Nat /\ right[B] \in Nat
  BY <1>5 DEF Sums
<1> QED
  BY <1>4, <1>6, <1>7

\* Finitely many finite sets have finitely many elements.
LEMMA UnionFinite ==
  ASSUME NEW S, IsFiniteSet(S), NEW f, \A x \in S : IsFiniteSet(f[x])
  PROVE  IsFiniteSet(UNION {f[x] : x \in S})
<1> DEFINE A == {s \in SUBSET S : IsFiniteSet(UNION {f[x] : x \in s})}
<1>1. {} \in A
  <2>1. UNION {f[x] : x \in {}} = {}
    OBVIOUS
  <2> QED
    BY <2>1, FS_EmptySet
<1>2. ASSUME NEW s \in SUBSET S, s # {}, \A x \in s : s \ {x} \in A PROVE s \in A
  <2>1. PICK x \in s : TRUE
    BY <1>2
  <2>2. IsFiniteSet(UNION {f[y] : y \in s \ {x}}) /\ IsFiniteSet(f[x])
    BY <1>2
  <2> DEFINE rest == UNION {f[y] : y \in s \ {x}}
             all == UNION {f[y] : y \in s}
  <2>3. all \subseteq rest \cup f[x] /\ rest \subseteq all /\ f[x] \subseteq all
    OBVIOUS
  <2> HIDE DEF rest, all
  <2>4. IsFiniteSet(rest \cup f[x]) /\ all = rest \cup f[x]
    BY <2>2, <2>3, FS_Union DEF rest
  <2>5. IsFiniteSet(all)
    BY <2>4
  <2> QED
    BY <2>5 DEF all
<1>3. SUBSET S \subseteq A
  <2> HIDE DEF A
  <2> QED
    BY <1>1, <1>2, AllSubsets
<1> QED
  BY <1>3

\* The total of w over R, as the community modules add it up.
Total(w, R) == MapThenSumSet(LAMBDA x : w[x], R)

LEMMA TotalIsSum ==
  ASSUME NEW S, IsFiniteSet(S), NEW w, NEW sum, Sums(sum, S, w), NEW R \in SUBSET S
  PROVE  Total(w, R) = sum[R]
<1> DEFINE Body(f, s) == IF s = {} THEN 0
                         ELSE LET x == CHOOSE x \in s : TRUE IN w[x] + f[s \ {x}]
           iter == CHOOSE f : f = [s \in SUBSET R |-> Body(f, s)]
           pick == [s \in SUBSET R |-> CHOOSE x \in s : TRUE]
<1>1. Total(w, R) = iter[R]
  BY DEF Total, MapThenSumSet, MapThenFoldSet
<1>2. Picks(pick, R)
  BY DEF Picks
<1>3. ASSUME NEW f, NEW s \in SUBSET R
      PROVE  Body(f, s) = IF s = {} THEN 0 ELSE w[pick[s]] + f[s \ {pick[s]}]
  OBVIOUS
<1> HIDE DEF Body, pick
<1>4. iter = [s \in SUBSET R |-> Body(iter, s)]
  <2> DEFINE g == [s \in SUBSET R |-> sum[s]]
  <2>1. ASSUME NEW s \in SUBSET R PROVE g[s] = Body(g, s)
    <3>1. CASE s = {}
      BY <1>3, <3>1 DEF Sums
    <3>2. CASE s # {}
      <4>1. pick[s] \in s
        BY <1>2, <3>2 DEF Picks
      <4>2. sum[s] = w[pick[s]] + sum[s \ {pick[s]}]
        BY <4>1 DEF Sums
      <4>3. g[s] = sum[s] /\ g[s \ {pick[s]}] = sum[s \ {pick[s]}]
        OBVIOUS
      <4>4. Body(g, s) = w[pick[s]] + g[s \ {pick[s]}]
        BY <1>3, <3>2
      <4> QED
        BY <4>2, <4>3, <4>4
    <3> QED
      BY <3>1, <3>2
  <2>2. g = [s \in SUBSET R |-> Body(g, s)]
    BY <2>1
  <2> QED
    BY <2>2
<1> HIDE DEF iter
<1>5. AddsUp(iter, R, w, pick)
  BY <1>3, <1>4 DEF AddsUp
<1>6. iter[R] = sum[R]
  BY <1>2, <1>5, FoldIsSum
<1> QED
  BY <1>1, <1>6

\* A total taken apart at any element.
LEMMA TotalStep ==
  ASSUME NEW R, IsFiniteSet(R), NEW w, \A x \in R : w[x] \in Nat
  PROVE  /\ Total(w, {}) = 0
         /\ \A s \in SUBSET R : /\ Total(w, s) \in Nat
                                /\ \A x \in s : Total(w, s) = w[x] + Total(w, s \ {x})
<1> DEFINE v == [x \in R |-> w[x]]
<1>1. v \in [R -> Nat]
  OBVIOUS
<1>2. PICK sum : Sums(sum, R, v)
  <2> HIDE DEF v
  <2> QED
    BY <1>1, SumExists
<1>3. Sums(sum, R, w)
  BY <1>2 DEF Sums
<1>4. \A s \in SUBSET R : Total(w, s) = sum[s]
  BY <1>3, TotalIsSum
<1> QED
  BY <1>3, <1>4 DEF Sums

\* More in every place is more in total.
LEMMA TotalMore ==
  ASSUME NEW R, IsFiniteSet(R), NEW v, NEW w, \A x \in R : v[x] \in Nat /\ w[x] \in Nat /\ v[x] <= w[x]
  PROVE  Total(v, R) <= Total(w, R)
<1> DEFINE A == {s \in SUBSET R : Total(v, s) <= Total(w, s)}
<1>1. {} \in A
  <2>1. Total(v, {}) = 0 /\ Total(w, {}) = 0
    BY TotalStep
  <2> QED
    BY <2>1
<1>2. ASSUME NEW s \in SUBSET R, s # {}, \A x \in s : s \ {x} \in A PROVE s \in A
  <2>1. PICK x \in s : TRUE
    BY <1>2
  <2>2. Total(v, s) = v[x] + Total(v, s \ {x}) /\ Total(w, s) = w[x] + Total(w, s \ {x})
    BY TotalStep
  <2>3. Total(v, s \ {x}) \in Nat /\ Total(w, s \ {x}) \in Nat
    BY TotalStep
  <2>4. Total(v, s \ {x}) <= Total(w, s \ {x})
    BY <1>2
  <2>5. v[x] \in Nat /\ w[x] \in Nat /\ v[x] <= w[x]
    OBVIOUS
  <2>6. Total(v, s) <= Total(w, s)
    BY <2>2, <2>3, <2>4, <2>5
  <2> QED
    BY <2>6
<1>3. SUBSET R \subseteq A
  <2> HIDE DEF A
  <2> QED
    BY <1>1, <1>2, AllSubsets
<1> QED
  BY <1>3

\* Only what is in the set counts.
LEMMA TotalSame ==
  ASSUME NEW R, IsFiniteSet(R), NEW v, NEW w, \A x \in R : w[x] \in Nat /\ v[x] = w[x]
  PROVE  Total(v, R) = Total(w, R)
<1>1. Total(v, R) <= Total(w, R) /\ Total(w, R) <= Total(v, R)
  BY TotalMore
<1>2. Total(v, R) \in Nat /\ Total(w, R) \in Nat
  BY TotalStep
<1> QED
  BY <1>1, <1>2

\* A total moves with what moves in one place.
LEMMA TotalMoves ==
  ASSUME NEW R, IsFiniteSet(R), NEW v, NEW w, NEW r \in R,
         \A x \in R : v[x] \in Nat /\ w[x] \in Nat, \A x \in R \ {r} : v[x] = w[x]
  PROVE  Total(v, R) + w[r] = Total(w, R) + v[r]
<1>1. Total(v, R) = v[r] + Total(v, R \ {r})
  <2>1. \A x \in R : v[x] \in Nat
    OBVIOUS
  <2> QED
    BY <2>1, TotalStep
<1>2. Total(w, R) = w[r] + Total(w, R \ {r})
  <2>1. \A x \in R : w[x] \in Nat
    OBVIOUS
  <2> QED
    BY <2>1, TotalStep
<1>3. Total(v, R \ {r}) = Total(w, R \ {r}) /\ Total(w, R \ {r}) \in Nat
  <2> DEFINE Q == R \ {r}
  <2>1. IsFiniteSet(Q) /\ \A x \in Q : w[x] \in Nat /\ v[x] = w[x]
    BY FS_Subset
  <2> HIDE DEF Q
  <2>2. Total(v, Q) = Total(w, Q) /\ Total(w, Q) \in Nat
    BY <2>1, TotalSame, TotalStep
  <2> QED
    BY <2>2 DEF Q
<1> QED
  BY <1>1, <1>2, <1>3

\* What two sets that share nothing hold together, and a part less than the whole.
LEMMA TotalSplit ==
  ASSUME NEW R, IsFiniteSet(R), NEW w, \A x \in R : w[x] \in Nat, NEW A \in SUBSET R
  PROVE  /\ Total(w, R) = Total(w, A) + Total(w, R \ A)
         /\ Total(w, A) \in Nat /\ Total(w, R \ A) \in Nat /\ Total(w, R) \in Nat
<1> DEFINE rest == R \ A
           T == {s \in SUBSET rest : Total(w, A \cup s) = Total(w, A) + Total(w, s)}
<1>1. {} \in T
  <2>1. A \cup {} = A /\ Total(w, {}) = 0 /\ Total(w, A) \in Nat
    BY TotalStep
  <2> QED
    BY <2>1
<1>2. ASSUME NEW s \in SUBSET rest, s # {}, \A x \in s : s \ {x} \in T PROVE s \in T
  <2>1. PICK x \in s : TRUE
    BY <1>2
  <2>2. (A \cup s) \ {x} = A \cup (s \ {x}) /\ A \cup s \in SUBSET R /\ s \in SUBSET R /\ s \ {x} \in SUBSET R
    OBVIOUS
  <2>3. Total(w, A \cup s) = w[x] + Total(w, A \cup (s \ {x})) /\ Total(w, s) = w[x] + Total(w, s \ {x})
    BY <2>2, TotalStep
  <2>4. Total(w, A \cup (s \ {x})) = Total(w, A) + Total(w, s \ {x})
    BY <1>2
  <2>5. w[x] \in Nat /\ Total(w, A) \in Nat /\ Total(w, s \ {x}) \in Nat
    BY <2>2, TotalStep
  <2>6. Total(w, A \cup s) = Total(w, A) + Total(w, s)
    BY <2>3, <2>4, <2>5
  <2> QED
    BY <2>6
<1>3. SUBSET rest \subseteq T
  <2>1. IsFiniteSet(rest)
    BY FS_Subset
  <2> HIDE DEF T, rest
  <2> QED
    BY <1>1, <1>2, <2>1, AllSubsets
<1>4. A \cup rest = R
  OBVIOUS
<1>5. \A s \in SUBSET R : Total(w, s) \in Nat
  BY TotalStep
<1> QED
  BY <1>3, <1>4, <1>5

\* Nothing in every place is nothing in total.
LEMMA TotalNone ==
  ASSUME NEW R, IsFiniteSet(R), NEW w, \A x \in R : w[x] = 0
  PROVE  Total(w, R) = 0
<1> DEFINE A == {s \in SUBSET R : Total(w, s) = 0}
<1>1. /\ Total(w, {}) = 0
      /\ \A s \in SUBSET R : \A x \in s : Total(w, s) = w[x] + Total(w, s \ {x})
  BY TotalStep
<1>2. {} \in A
  BY <1>1
<1>3. ASSUME NEW s \in SUBSET R, s # {}, \A x \in s : s \ {x} \in A PROVE s \in A
  <2>1. PICK x \in s : TRUE
    BY <1>3
  <2>2. Total(w, s) = w[x] + Total(w, s \ {x}) /\ Total(w, s \ {x}) = 0 /\ w[x] = 0
    BY <1>1, <1>3
  <2> QED
    BY <2>2
<1>4. SUBSET R \subseteq A
  <2> HIDE DEF A
  <2> QED
    BY <1>2, <1>3, AllSubsets
<1> QED
  BY <1>4
-----------------------------------------------------------------------------
(* Recursion over numbers *)

\* Every recursion over the numbers up to n that goes on from the value before has a solution.
StepsStay(step, n, V) == \A k \in 1..n, v \in V : step[<<k, v>>] \in V
CountsBy(f, n, base, step) == f[0] = base /\ \A k \in 1..n : f[k] = step[<<k, f[k - 1]>>]
LEMMA CountedUp ==
  ASSUME NEW V, NEW base \in V, NEW n \in Nat, NEW step, StepsStay(step, n, V)
  PROVE  \E f \in [0..n -> V] : CountsBy(f, n, base, step)
<1> USE DEF StepsStay, CountsBy
<1> DEFINE Solves(f, m) == f[0] = base /\ \A k \in 1..m : f[k] = step[<<k, f[k - 1]>>]
           A == {m \in Nat : m <= n => \E f \in [0..m -> V] : Solves(f, m)}
<1>1. 0 \in A
  <2> DEFINE f == [k \in 0..0 |-> base]
  <2>1. f \in [0..0 -> V] /\ Solves(f, 0)
    OBVIOUS
  <2> QED
    BY <2>1
<1>2. ASSUME NEW m \in Nat, m \in A PROVE m + 1 \in A
  <2> SUFFICES ASSUME m + 1 <= n PROVE \E f \in [0..(m + 1) -> V] : Solves(f, m + 1)
    OBVIOUS
  <2>1. PICK f \in [0..m -> V] : Solves(f, m)
    BY <1>2
  <2> DEFINE g == [k \in 0..(m + 1) |-> IF k = m + 1 THEN step[<<k, f[m]>>] ELSE f[k]]
  <2>2. f[m] \in V /\ m + 1 \in 1..n
    OBVIOUS
  <2>3. step[<<m + 1, f[m]>>] \in V
    BY <2>2
  <2>4. g \in [0..(m + 1) -> V]
    BY <2>3
  <2>5. g[0] = base
    BY <2>1
  <2>6. ASSUME NEW k \in 1..(m + 1) PROVE g[k] = step[<<k, g[k - 1]>>]
    <3>1. CASE k = m + 1
      BY <3>1
    <3>2. CASE k # m + 1
      <4>1. k \in 1..m /\ g[k] = f[k] /\ g[k - 1] = f[k - 1]
        BY <3>2
      <4> QED
        BY <2>1, <4>1
    <3> QED
      BY <3>1, <3>2
  <2> QED
    BY <2>4, <2>5, <2>6
<1>3. Nat \subseteq A
  <2> HIDE DEF A
  <2> QED
    BY <1>1, <1>2, AllNumbers
<1> QED
  BY <1>3

\* The values of such a recursion are of the set its steps stay in.
LEMMA CountedIn ==
  ASSUME NEW V, NEW n \in Nat, NEW f, f[0] \in V, \A k \in 1..n : f[k - 1] \in V => f[k] \in V
  PROVE  \A k \in 0..n : f[k] \in V
<1> DEFINE A == {m \in Nat : m <= n => f[m] \in V}
<1>1. 0 \in A
  OBVIOUS
<1>2. ASSUME NEW m \in Nat, m \in A PROVE m + 1 \in A
  <2> SUFFICES ASSUME m + 1 <= n PROVE f[m + 1] \in V
    OBVIOUS
  <2>1. m + 1 \in 1..n /\ (m + 1) - 1 = m /\ f[m] \in V
    BY <1>2
  <2> QED
    BY <2>1
<1>3. Nat \subseteq A
  <2> HIDE DEF A
  <2> QED
    BY <1>1, <1>2, AllNumbers
<1> QED
  BY <1>3
=============================================================================
