------------------------------ MODULE Foundations ------------------------------
(* What the proofs of the other modules rest on: the induction they use, by    *)
(* the least and greatest elements of sets of naturals, and facts about        *)
(* sequences and their enumerations.                                         *)
EXTENDS Integers, TLAPS, WellFoundedInduction, SequencesExt, FiniteSetTheorems, SequenceTheorems

\* Every non-empty set of naturals has a least element.
LEMMA NatLeast ==
    ASSUME NEW T, T \subseteq Nat, T # {}
    PROVE  \E x \in T : \A y \in T : x <= y
<1> DEFINE R == { ss \in Nat \X Nat : ss[1] < ss[2] }
<1>1. R = OpToRel(<, Nat)
  BY DEF OpToRel
<1>2. IsWellFoundedOn(R, Nat)
  BY <1>1, NatLessThanWellFounded
<1>3. PICK x \in T : \A y \in T : <<y, x>> \notin R
  BY <1>2, WFMin
<1>4. \A y \in T : ~(y < x)
  BY <1>3
<1> QED
  BY <1>4

\* Every non-empty set of naturals with an upper bound has a greatest element.
LEMMA NatGreatest ==
    ASSUME NEW n \in Nat, NEW T, T \subseteq 0..n, T # {}
    PROVE  \E x \in T : \A y \in T : y <= x
<1> DEFINE U == { n - x : x \in T }
<1>1. U \subseteq Nat /\ U # {}
  <2>1. \A x \in T : n - x \in Nat
    OBVIOUS
  <2>2. PICK x \in T : TRUE
    OBVIOUS
  <2>3. n - x \in U
    OBVIOUS
  <2>4. \A u \in U : u \in Nat
    BY <2>1
  <2> QED
    BY <2>3, <2>4
<1>2. PICK u \in U : \A v \in U : u <= v
  BY <1>1, NatLeast
<1>3. PICK x \in T : u = n - x
  OBVIOUS
<1>4. \A y \in T : n - y \in U
  OBVIOUS
<1> HIDE DEF U
<1>5. \A y \in T : n - x <= n - y
  BY <1>2, <1>3, <1>4
<1> QED
  BY <1>5

---------------------------------------------------------------------------
(* Sequences *)

\* A sequence of whatever its elements are.
IsSeq(s) == s \in Seq(Range(s))

\* What a sequence over any set is.
LEMMA SeqIsSeq ==
    ASSUME NEW S, NEW s \in Seq(S)
    PROVE  IsSeq(s) /\ DOMAIN s = 1..Len(s) /\ Len(s) \in Nat /\ Range(s) \subseteq S
  BY SeqOfRange, LenProperties, RangeOfSeq DEF IsSeq

\* A function of the first numbers is a sequence.
LEMMA FunctionIsASeq ==
    ASSUME NEW n \in Nat, NEW f, f = [k \in 1..n |-> f[k]]
    PROVE  IsSeq(f) /\ Len(f) = n /\ DOMAIN f = 1..n
<1>1. f \in [1..n -> Range(f)]
  BY DEF Range
<1> QED
  BY <1>1, SeqDef DEF IsSeq

\* Two sequences put together hold what each of them holds.
LEMMA ConcatIsSeq ==
    ASSUME NEW s, NEW t, IsSeq(s), IsSeq(t)
    PROVE  IsSeq(s \o t) /\ Range(s \o t) = Range(s) \cup Range(t)
<1> DEFINE S == Range(s) \cup Range(t)
<1>1. s \in Seq(S) /\ t \in Seq(S)
  BY SeqMonotonic DEF IsSeq
<1> HIDE DEF S
<1>2. s \o t \in Seq(S) /\ Range(s \o t) = Range(s) \cup Range(t)
  BY <1>1, ConcatProperties, RangeConcatenation
<1> QED
  BY <1>2, SeqIsSeq

\* What the elements of two sequences put together are.
LEMMA ConcatElements ==
    ASSUME NEW s, NEW t, IsSeq(s), IsSeq(t)
    PROVE  /\ Len(s) \in Nat /\ Len(t) \in Nat
           /\ DOMAIN s = 1..Len(s) /\ DOMAIN t = 1..Len(t)
           /\ Len(s \o t) = Len(s) + Len(t) /\ DOMAIN (s \o t) = 1..(Len(s) + Len(t))
           /\ \A k \in 1..Len(s) : (s \o t)[k] = s[k]
           /\ \A k \in 1..Len(t) : (s \o t)[Len(s) + k] = t[k]
<1> DEFINE u == s \o t
           m == Len(s)
           n == Len(t)
<1>1. m \in Nat /\ n \in Nat /\ DOMAIN s = 1..m /\ DOMAIN t = 1..n
  BY SeqIsSeq DEF IsSeq
<1>2. s \in Seq(Range(s) \cup Range(t)) /\ t \in Seq(Range(s) \cup Range(t))
  BY SeqMonotonic DEF IsSeq
<1>3. u \in Seq(Range(s) \cup Range(t)) /\ Len(u) = m + n
      /\ \A k \in 1..(m + n) : u[k] = IF k <= m THEN s[k] ELSE t[k - m]
  BY <1>2, ConcatProperties
<1>4. DOMAIN u = 1..(m + n)
  BY <1>3, LenProperties
<1> HIDE DEF u, m, n
<1>5. ASSUME NEW k \in 1..m PROVE u[k] = s[k]
  BY <1>1, <1>3
<1>6. ASSUME NEW k \in 1..n PROVE u[m + k] = t[k]
  <2>1. m + k \in 1..(m + n) /\ ~(m + k <= m) /\ (m + k) - m = k
    BY <1>1
  <2> QED
    BY <1>3, <2>1
<1> QED
  BY <1>1, <1>3, <1>4, <1>5, <1>6 DEF u, m, n

\* Sequences of one length with the same elements are the same.
LEMMA SameElements ==
    ASSUME NEW s, NEW t, IsSeq(s), IsSeq(t), Len(s) = Len(t), \A k \in 1..Len(s) : s[k] = t[k]
    PROVE  s = t
<1>1. s \in Seq(Range(s) \cup Range(t)) /\ t \in Seq(Range(s) \cup Range(t))
  BY SeqMonotonic DEF IsSeq
<1> QED
  BY <1>1, SeqEqual

\* What is put together with the same sequence is the same.
LEMMA PrefixCancels ==
    ASSUME NEW s, NEW t, NEW u, IsSeq(s), IsSeq(t), IsSeq(u), s \o t = s \o u
    PROVE  t = u
<1>1. /\ Len(s) \in Nat /\ Len(t) \in Nat /\ Len(s \o t) = Len(s) + Len(t)
      /\ \A k \in 1..Len(t) : (s \o t)[Len(s) + k] = t[k]
  BY ConcatElements
<1>2. /\ Len(u) \in Nat /\ Len(s \o u) = Len(s) + Len(u)
      /\ \A k \in 1..Len(u) : (s \o u)[Len(s) + k] = u[k]
  BY ConcatElements
<1>3. Len(t) = Len(u)
  BY <1>1, <1>2
<1>4. \A k \in 1..Len(t) : t[k] = u[k]
  BY <1>1, <1>2, <1>3
<1> QED
  BY <1>3, <1>4, SameElements

LEMMA SuffixCancels ==
    ASSUME NEW s, NEW t, NEW u, IsSeq(s), IsSeq(t), IsSeq(u), t \o s = u \o s
    PROVE  t = u
<1>1. /\ Len(s) \in Nat /\ Len(t) \in Nat /\ Len(t \o s) = Len(t) + Len(s)
      /\ \A k \in 1..Len(t) : (t \o s)[k] = t[k]
  BY ConcatElements
<1>2. /\ Len(u) \in Nat /\ Len(u \o s) = Len(u) + Len(s)
      /\ \A k \in 1..Len(u) : (u \o s)[k] = u[k]
  BY ConcatElements
<1>3. Len(t) = Len(u)
  BY <1>1, <1>2
<1>4. \A k \in 1..Len(t) : t[k] = u[k]
  BY <1>1, <1>2, <1>3
<1> QED
  BY <1>3, <1>4, SameElements

\* g[k] is the concatenation of the first k sequences of s.
Flattened(g, s, n) ==
    g = [k \in 1..n |-> IF k = 1 THEN s[k] ELSE g[k - 1] \o s[k]]

LEMMA FlattenedExists ==
    ASSUME NEW s, NEW n \in Nat
    PROVE  \E g : Flattened(g, s, n)
<1> DEFINE T == { k \in Nat : ~\E g : Flattened(g, s, k) }
<1> SUFFICES ASSUME T # {} PROVE FALSE
  OBVIOUS
<1>1. PICK k \in T : \A y \in T : k <= y
  BY NatLeast
<1>2. k # 0
  <2>1. Flattened([m \in 1..0 |-> s[m]], s, 0)
    BY DEF Flattened
  <2> QED
    BY <2>1
<1>3. k - 1 \in Nat /\ k - 1 \notin T
  BY <1>1, <1>2
<1>4. PICK g : Flattened(g, s, k - 1)
  BY <1>3
<1> DEFINE h == [m \in 1..k |-> IF m = k THEN IF k = 1 THEN s[k] ELSE g[k - 1] \o s[k]
                                ELSE g[m]]
<1>5. Flattened(h, s, k)
  <2>1. \A m \in 1..(k - 1) : g[m] = IF m = 1 THEN s[m] ELSE g[m - 1] \o s[m]
    BY <1>4 DEF Flattened
  <2>2. \A m \in 1..k : h[m] = IF m = 1 THEN s[m] ELSE h[m - 1] \o s[m]
    BY <2>1, <1>2, <1>3
  <2> QED
    BY <2>2 DEF Flattened
<1> QED
  BY <1>5

\* A flattened sequence of sequences holds what each of them holds.
LEMMA FlattenSeqRange ==
    ASSUME NEW s, IsSeq(s), \A k \in DOMAIN s : IsSeq(s[k])
    PROVE  /\ IsSeq(FlattenSeq(s))
           /\ Range(FlattenSeq(s)) = UNION { Range(s[k]) : k \in DOMAIN s }
<1>1. Len(s) \in Nat /\ DOMAIN s = 1..Len(s)
  BY SeqIsSeq DEF IsSeq
<1>2. CASE Len(s) = 0
  <2>1. FlattenSeq(s) = s /\ DOMAIN s = {}
    BY <1>1, <1>2 DEF FlattenSeq
  <2> QED
    BY <2>1 DEF Range
<1>3. CASE Len(s) # 0
  <2> DEFINE n == Len(s)
             g == CHOOSE g : g = [k \in 1..n |-> IF k = 1 THEN s[k] ELSE g[k - 1] \o s[k]]
  <2>1. FlattenSeq(s) = g[n]
    BY <1>3 DEF FlattenSeq
  <2>2. n \in Nat /\ n # 0 /\ DOMAIN s = 1..n
    BY <1>1, <1>3
  <2> HIDE DEF n
  <2>3. Flattened(g, s, n)
    BY <2>2, FlattenedExists DEF Flattened
  <2> HIDE DEF g
  <2>4. \A k \in 1..n : g[k] = IF k = 1 THEN s[k] ELSE g[k - 1] \o s[k]
    BY <2>3 DEF Flattened
  <2> DEFINE Holds(k) == IsSeq(g[k]) /\ Range(g[k]) = UNION { Range(s[l]) : l \in 1..k }
             T == { k \in 1..n : ~Holds(k) }
  <2>5. T = {}
    <3> SUFFICES ASSUME T # {} PROVE FALSE
      OBVIOUS
    <3>1. PICK k \in T : \A y \in T : k <= y
      <4>1. T \subseteq Nat
        BY <2>2
      <4> HIDE DEF T
      <4> QED
        BY <4>1, NatLeast
    <3>2. CASE k = 1
      BY <2>2, <2>4, <3>1, <3>2
    <3>3. CASE k # 1
      <4>1. k - 1 \in 1..n /\ k \in 1..n /\ Holds(k - 1)
        BY <2>2, <3>1, <3>3
      <4>2. g[k] = g[k - 1] \o s[k] /\ IsSeq(s[k])
        BY <2>2, <2>4, <3>3, <4>1
      <4>3. IsSeq(g[k]) /\ Range(g[k]) = Range(g[k - 1]) \cup Range(s[k])
        BY <4>1, <4>2, ConcatIsSeq
      <4>4. 1..k = 1..(k - 1) \cup {k}
        BY <4>1
      <4>5. Range(g[k]) = UNION { Range(s[l]) : l \in 1..k }
        BY <4>1, <4>3, <4>4
      <4> QED
        BY <3>1, <4>3, <4>5
    <3> QED
      BY <3>2, <3>3
  <2>6. Holds(n)
    BY <2>2, <2>5
  <2> QED
    BY <2>1, <2>2, <2>6
<1> QED
  BY <1>2, <1>3


\* A sequence of sequences that is one longer is flattened to one sequence more.
LEMMA FlattenSeqAppend ==
    ASSUME NEW s, IsSeq(s), \A k \in DOMAIN s : IsSeq(s[k]), NEW x, IsSeq(x)
    PROVE  FlattenSeq(Append(s, x)) = FlattenSeq(s) \o x
<1> DEFINE n == Len(s)
           t == Append(s, x)
           m == n + 1
           f == CHOOSE f : f = [k \in 1..n |-> IF k = 1 THEN s[k] ELSE f[k - 1] \o s[k]]
           g == CHOOSE g : g = [k \in 1..m |-> IF k = 1 THEN t[k] ELSE g[k - 1] \o t[k]]
<1>1. n \in Nat /\ DOMAIN s = 1..n
  BY SeqIsSeq DEF IsSeq
<1>2. Len(t) = n + 1 /\ t[n + 1] = x /\ \A k \in 1..n : t[k] = s[k]
  <2>1. s \in Seq(Range(s) \cup {x}) /\ x \in Range(s) \cup {x}
    BY SeqMonotonic DEF IsSeq
  <2> QED
    BY <2>1, AppendProperties
<1>3. FlattenSeq(t) = g[m]
  <2>1. Len(t) = m /\ m # 0
    BY <1>1, <1>2
  <2> HIDE DEF m, t
  <2>2. FlattenSeq(t) = LET h == CHOOSE h : h = [k \in 1..Len(t) |-> IF k = 1 THEN t[k]
                                                                 ELSE h[k - 1] \o t[k]]
                        IN h[Len(t)]
    BY <2>1 DEF FlattenSeq
  <2> QED
    BY <2>1, <2>2
<1>4. n # 0 => FlattenSeq(s) = f[n]
  BY DEF FlattenSeq
<1>5. n = 0 => FlattenSeq(s) = <<>>
  BY <1>1, EmptySeq DEF FlattenSeq, IsSeq
<1> HIDE DEF n, t
<1>6. Flattened(f, s, n) /\ Flattened(g, t, m)
  <2>1. m \in Nat
    BY <1>1
  <2> HIDE DEF m
  <2> QED
    BY <1>1, <2>1, FlattenedExists DEF Flattened
<1> HIDE DEF f, g
<1>7. /\ \A k \in 1..n : f[k] = IF k = 1 THEN s[k] ELSE f[k - 1] \o s[k]
      /\ \A k \in 1..m : g[k] = IF k = 1 THEN t[k] ELSE g[k - 1] \o t[k]
  BY <1>6 DEF Flattened
<1>8. \A k \in 1..n : g[k] = f[k]
  <2> DEFINE T == { k \in 1..n : g[k] # f[k] }
  <2> SUFFICES ASSUME T # {} PROVE FALSE
    OBVIOUS
  <2>1. PICK k \in T : \A y \in T : k <= y
    <3>1. T \subseteq Nat
      BY <1>1
    <3> HIDE DEF T
    <3> QED
      BY <3>1, NatLeast
  <2>2. CASE k = 1
    BY <1>1, <1>2, <1>7, <2>1, <2>2
  <2>3. CASE k # 1
    <3>1. k \in 1..n /\ k \in 1..m /\ k - 1 \in 1..n /\ k - 1 \notin T
      BY <1>1, <2>1, <2>3
    <3>2. g[k - 1] = f[k - 1] /\ t[k] = s[k]
      BY <1>2, <3>1
    <3> QED
      BY <1>7, <2>1, <2>3, <3>1, <3>2
  <2> QED
    BY <2>2, <2>3
<1>9. CASE n = 0
  <2>1. m = 1 /\ g[1] = x
    BY <1>2, <1>7, <1>9
  <2>2. <<>> \o x = x
    BY ConcatEmptySeq DEF IsSeq
  <2> QED
    BY <1>3, <1>5, <1>9, <2>1, <2>2 DEF t
<1>10. CASE n # 0
  <2>1. m \in 1..m /\ m # 1 /\ m - 1 = n /\ n \in 1..n
    BY <1>1, <1>10
  <2>2. g[m] = g[n] \o x /\ g[n] = f[n]
    BY <1>2, <1>7, <1>8, <2>1
  <2> QED
    BY <1>3, <1>4, <1>10, <2>2 DEF t
<1> QED
  BY <1>9, <1>10

---------------------------------------------------------------------------
(* Enumerations *)

\* An enumeration of a finite set leaves none of its elements out.
LEMMA EnumerationIsOnto ==
    ASSUME NEW S, IsFiniteSet(S), NEW s \in SetToSeqs(S)
    PROVE  /\ Cardinality(S) \in Nat
           /\ s \in [1..Cardinality(S) -> S]
           /\ \A i, j \in 1..Cardinality(S) : s[i] = s[j] => i = j
           /\ \A x \in S : \E i \in 1..Cardinality(S) : s[i] = x
<1> DEFINE n == Cardinality(S)
<1>1. n \in Nat
  BY FS_CardinalityType
<1>2. s \in [1..n -> S] /\ \A i, j \in 1..n : i # j => s[i] # s[j]
  BY DEF SetToSeqs
<1>3. s \in Injection(1..n, S)
  BY <1>2 DEF Injection, IsInjective
<1>4. Cardinality(1..n) = n
  BY <1>1, FS_Interval
<1>5. s \in Surjection(1..n, S)
  BY <1>3, <1>4, FS_Injection
<1> QED
  BY <1>1, <1>2, <1>5 DEF Surjection

\* A finite set whose elements have different ranks can be enumerated by rank.
LEMMA SortedEnumeration ==
    ASSUME NEW rank, NEW n \in Nat
    PROVE  \A S : /\ IsFiniteSet(S) /\ Cardinality(S) = n
                  /\ \A x \in S : rank[x] \in Nat
                  /\ \A x, y \in S : rank[x] = rank[y] => x = y
              => \E s \in [1..n -> S] :
                    \A k, l \in 1..n : k < l => rank[s[k]] < rank[s[l]]
<1> DEFINE Good(S, m) == /\ IsFiniteSet(S) /\ Cardinality(S) = m
                         /\ \A x \in S : rank[x] \in Nat
                         /\ \A x, y \in S : rank[x] = rank[y] => x = y
           Sorted(S, m) == \E s \in [1..m -> S] :
                              \A k, l \in 1..m : k < l => rank[s[k]] < rank[s[l]]
           T == { m \in Nat : \E S : Good(S, m) /\ ~Sorted(S, m) }
<1> SUFFICES ASSUME T # {} PROVE FALSE
  OBVIOUS
<1>1. PICK m \in T : \A y \in T : m <= y
  <2>1. T \subseteq Nat
    OBVIOUS
  <2> HIDE DEF T
  <2> QED
    BY <2>1, NatLeast
<1>2. PICK S : Good(S, m) /\ ~Sorted(S, m)
  BY <1>1
<1>3. CASE m = 0
  <2>1. [k \in 1..0 |-> 0] \in [1..m -> S] /\ 1..m = {}
    BY <1>3
  <2> QED
    BY <1>2, <2>1
<1>4. CASE m # 0
  <2>1. S # {} /\ m \in Nat /\ m - 1 \in Nat
    BY <1>1, <1>2, <1>4, FS_EmptySet
  <2> DEFINE N == { rank[x] : x \in S }
  <2>2. PICK x \in S : \A y \in S : rank[x] <= rank[y]
    <3>1. N \subseteq Nat /\ N # {}
      BY <1>2, <2>1
    <3> HIDE DEF N
    <3>2. PICK a \in N : \A b \in N : a <= b
      BY <3>1, NatLeast
    <3> QED
      BY <3>2 DEF N
  <2>3. \A y \in S \ {x} : rank[x] < rank[y]
    BY <1>2, <2>2
  <2>4. Good(S \ {x}, m - 1)
    BY <1>2, FS_RemoveElement
  <2>5. m - 1 \notin T
    BY <1>1, <2>1
  <2>6. PICK s \in [1..(m - 1) -> S \ {x}] :
           \A k, l \in 1..(m - 1) : k < l => rank[s[k]] < rank[s[l]]
    BY <2>1, <2>4, <2>5
  <2> DEFINE t == [k \in 1..m |-> IF k = 1 THEN x ELSE s[k - 1]]
  <2>7. t \in [1..m -> S]
    BY <2>1, <2>6
  <2>8. \A k, l \in 1..m : k < l => rank[t[k]] < rank[t[l]]
    <3> SUFFICES ASSUME NEW k \in 1..m, NEW l \in 1..m, k < l
                 PROVE  rank[t[k]] < rank[t[l]]
      OBVIOUS
    <3>1. l - 1 \in 1..(m - 1) /\ t[l] = s[l - 1] /\ s[l - 1] \in S \ {x}
      BY <2>1, <2>6
    <3>2. CASE k = 1
      <4>1. t[k] = x
        BY <3>2
      <4> QED
        BY <2>3, <3>1, <4>1
    <3>3. CASE k # 1
      <4>1. k - 1 \in 1..(m - 1) /\ k - 1 < l - 1 /\ t[k] = s[k - 1]
        BY <2>1, <3>3
      <4> QED
        BY <2>6, <3>1, <4>1
    <3> QED
      BY <3>2, <3>3
  <2>9. Sorted(S, m)
    BY <2>7, <2>8
  <2> QED
    BY <1>2, <2>9
<1> QED
  BY <1>3, <1>4
===============================================================================
