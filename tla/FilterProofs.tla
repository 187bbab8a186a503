----------------------------- MODULE FilterProofs -----------------------------
(* What filter.go does with a filter, for every table, every collation and every *)
(* tree a client can write.  From below: a text in a LIKE pattern with its       *)
(* metacharacters escaped stands for itself; a comparison's condition has on     *)
(* every row the truth value of what the comparison says; AND, OR and NOT keep   *)
(* that, node by node; and a tree is translated exactly if every comparison in   *)
(* it is listed.                                                                 *)
EXTENDS Filter, Foundations

---------------------------------------------------------------------------
(* LIKE and its metacharacters *)

\* The characters LIKE treats specially are three.
LEMMA Metacharacters == AnyChar # "%" /\ AnyChar # "\\" /\ "%" # "\\"
  BY Zenon DEF AnyChar

\* A sequence with one element appended.
LEMMA AppendOne ==
    ASSUME NEW t, NEW x, IsSeq(t)
    PROVE  t \o <<x>> = Append(t, x) /\ IsSeq(Append(t, x))
<1>1. t \in Seq(Range(t) \cup {x}) /\ x \in Range(t) \cup {x}
  BY SeqMonotonic DEF IsSeq
<1>2. Append(t, x) = t \o <<x>>
  BY <1>1, AppendIsConcat
<1> QED
  BY <1>1, <1>2, AppendProperties, SeqIsSeq

\* What one strings.ReplaceAll of c makes of the character x.
Escaped(x, c) == IF x = c THEN <<"\\", c>> ELSE <<x>>

\* One strings.ReplaceAll goes character by character.
LEMMA EscapeCharAppend ==
    ASSUME NEW s, IsSeq(s), NEW x, NEW c
    PROVE  /\ IsSeq(EscapeChar(s, c))
           /\ EscapeChar(Append(s, x), c) = EscapeChar(s, c) \o Escaped(x, c)
<1> DEFINE pieces(t) == [i \in DOMAIN t |-> IF t[i] = c THEN <<"\\", c>> ELSE <<t[i]>>]
<1>1. Len(s) \in Nat /\ DOMAIN s = 1..Len(s)
  BY SeqIsSeq DEF IsSeq
<1>2. \A y : IsSeq(<<"\\", y>>) /\ IsSeq(<<y>>)
  <2>1. \A y : <<"\\", y>> \in Seq({"\\", y}) /\ <<y>> \in Seq({y})
    OBVIOUS
  <2> QED
    BY <2>1, SeqIsSeq
<1>3. IsSeq(pieces(s)) /\ \A k \in DOMAIN pieces(s) : IsSeq(pieces(s)[k])
  <2>1. IsSeq(pieces(s)) /\ DOMAIN pieces(s) = DOMAIN s
    BY <1>1, FunctionIsASeq
  <2> QED
    BY <2>1, <1>2
<1>4. IsSeq(Escaped(x, c))
  BY <1>2 DEF Escaped
<1>5. pieces(Append(s, x)) = Append(pieces(s), Escaped(x, c))
  <2> DEFINE t == Append(s, x)
  <2>1. Len(t) = Len(s) + 1 /\ DOMAIN t = 1..(Len(s) + 1) /\ t[Len(s) + 1] = x /\ \A k \in 1..Len(s) : t[k] = s[k]
    <3>1. s \in Seq(Range(s) \cup {x}) /\ x \in Range(s) \cup {x}
      BY SeqMonotonic DEF IsSeq
    <3> QED
      BY <3>1, AppendProperties, <1>1
  <2> HIDE DEF t
  <2> DEFINE p == pieces(s)  u == Append(p, Escaped(x, c))
  <2>2. Len(p) = Len(s)
    BY <1>1, FunctionIsASeq
  <2>3. \A k \in 1..Len(s) : p[k] = IF s[k] = c THEN <<"\\", c>> ELSE <<s[k]>>
    BY <1>1
  <2> HIDE DEF p
  <2>4. Len(u) = Len(s) + 1 /\ IsSeq(u) /\ DOMAIN u = 1..(Len(s) + 1) /\ u[Len(s) + 1] = Escaped(x, c) /\ \A k \in 1..Len(s) : u[k] = p[k]
    <3>1. p \in Seq(Range(p) \cup {Escaped(x, c)}) /\ Escaped(x, c) \in Range(p) \cup {Escaped(x, c)}
      BY SeqMonotonic, <1>3 DEF IsSeq, p
    <3>2. u \in Seq(Range(p) \cup {Escaped(x, c)})
      BY <3>1, AppendProperties
    <3>3. Len(u) = Len(p) + 1 /\ u[Len(p) + 1] = Escaped(x, c) /\ \A k \in 1..Len(p) : u[k] = p[k]
      BY <3>1, AppendProperties
    <3> QED
      BY <3>2, <3>3, SeqIsSeq, <2>2
  <2> HIDE DEF u
  <2>5. u = [k \in 1..(Len(s) + 1) |-> u[k]]
    BY <2>4, SeqIsSeq DEF IsSeq
  <2>6. \A k \in 1..(Len(s) + 1) : u[k] = IF t[k] = c THEN <<"\\", c>> ELSE <<t[k]>>
    <3>1. \A k \in 1..Len(s) : u[k] = IF t[k] = c THEN <<"\\", c>> ELSE <<t[k]>>
      BY <2>1, <2>3, <2>4
    <3>2. u[Len(s) + 1] = IF t[Len(s) + 1] = c THEN <<"\\", c>> ELSE <<t[Len(s) + 1]>>
      BY <2>1, <2>4 DEF Escaped
    <3>3. \A k \in 1..(Len(s) + 1) : k \in 1..Len(s) \/ k = Len(s) + 1
      BY <1>1
    <3> QED
      BY <3>1, <3>2, <3>3
  <2> QED
    BY <2>1, <2>5, <2>6 DEF t, u, p
<1> DEFINE q == pieces(s)
<1>6. EscapeChar(s, c) = FlattenSeq(q) /\ EscapeChar(Append(s, x), c) = FlattenSeq(Append(q, Escaped(x, c)))
  BY <1>5 DEF EscapeChar
<1> HIDE DEF q
<1>7. IsSeq(q) /\ \A k \in DOMAIN q : IsSeq(q[k])
  BY <1>3 DEF q
<1> QED
  BY <1>4, <1>6, <1>7, FlattenSeqAppend, FlattenSeqRange

\* The same, of the sequences it builds.
LEMMA EscapeCharSteps ==
    ASSUME NEW s, IsSeq(s), NEW x, NEW c
    PROVE  /\ IsSeq(EscapeChar(s, c))
           /\ x = c => EscapeChar(Append(s, x), c) = Append(Append(EscapeChar(s, c), "\\"), c)
           /\ x # c => EscapeChar(Append(s, x), c) = Append(EscapeChar(s, c), x)
<1> DEFINE e == EscapeChar(s, c)
<1>1. IsSeq(e) /\ EscapeChar(Append(s, x), c) = e \o Escaped(x, c)
  BY EscapeCharAppend
<1>2. e \o <<x>> = Append(e, x)
  BY <1>1, AppendOne
<1>3. e \o <<"\\", c>> = Append(Append(e, "\\"), c)
  <2> DEFINE S == Range(e) \cup {"\\", c}
  <2>1. e \in Seq(S) /\ "\\" \in S /\ c \in S
    BY <1>1, SeqMonotonic DEF IsSeq
  <2> HIDE DEF S, e
  <2> QED
    BY <2>1
<1> HIDE DEF e
<1>4. x = c => Escaped(x, c) = <<"\\", c>>
  BY DEF Escaped
<1>5. x # c => Escaped(x, c) = <<x>>
  BY DEF Escaped
<1> QED
  BY <1>1, <1>2, <1>3, <1>4, <1>5 DEF e

\* And so does escapeLike: the escape characters it introduces are not
\* escaped again, because the escape character comes first.
LEMMA EscapeLikeAppend ==
    ASSUME NEW s, IsSeq(s), NEW x
    PROVE  /\ IsSeq(EscapeLike(s))
           /\ x \in {"%", AnyChar, "\\"} => EscapeLike(Append(s, x)) = Append(Append(EscapeLike(s), "\\"), x)
           /\ x \notin {"%", AnyChar, "\\"} => EscapeLike(Append(s, x)) = Append(EscapeLike(s), x)
<1>13. \A t, y, c : IsSeq(t) =>
          /\ y = c => EscapeChar(Append(t, y), c) = Append(Append(EscapeChar(t, c), "\\"), y)
          /\ y # c => EscapeChar(Append(t, y), c) = Append(EscapeChar(t, c), y)
  BY EscapeCharSteps
<1> DEFINE a == EscapeChar(s, "\\")  b == EscapeChar(a, "%")  d == EscapeChar(b, AnyChar)
<1>1. /\ IsSeq(a)
      /\ x = "\\" => EscapeChar(Append(s, x), "\\") = Append(Append(a, "\\"), x)
      /\ x # "\\" => EscapeChar(Append(s, x), "\\") = Append(a, x)
  BY EscapeCharSteps
<1>2. EscapeLike(Append(s, x)) = EscapeChar(EscapeChar(EscapeChar(Append(s, x), "\\"), "%"), AnyChar)
  BY DEF EscapeLike
<1>3. EscapeLike(s) = d
  BY DEF EscapeLike
<1> HIDE DEF a
<1>11. IsSeq(b)
  BY <1>1, EscapeCharSteps
<1>4. \A y : /\ y = "%" => EscapeChar(Append(a, y), "%") = Append(Append(b, "\\"), y)
             /\ y # "%" => EscapeChar(Append(a, y), "%") = Append(b, y)
  BY <1>1, EscapeCharSteps
<1>5. x # "%" => EscapeChar(Append(Append(a, "\\"), x), "%") = Append(Append(b, "\\"), x)
  <2> DEFINE u == Append(a, "\\")
  <2>3. "\\" # "%"
    OBVIOUS
  <2>1. IsSeq(u) /\ EscapeChar(u, "%") = Append(b, "\\")
    BY <1>1, <1>4, <2>3, AppendOne
  <2> HIDE DEF u
  <2>2. x # "%" => EscapeChar(Append(u, x), "%") = Append(EscapeChar(u, "%"), x)
    BY <2>1, <1>13
  <2> QED
    BY <2>1, <2>2 DEF u
<1> HIDE DEF b
<1>12. IsSeq(d)
  BY <1>11, EscapeCharSteps
<1>6. \A y : /\ y = AnyChar => EscapeChar(Append(b, y), AnyChar) = Append(Append(d, "\\"), y)
             /\ y # AnyChar => EscapeChar(Append(b, y), AnyChar) = Append(d, y)
  BY <1>11, <1>13
<1>7. x # AnyChar => EscapeChar(Append(Append(b, "\\"), x), AnyChar) = Append(Append(d, "\\"), x)
  <2> DEFINE u == Append(b, "\\")
  <2>3. "\\" # AnyChar
    BY Metacharacters
  <2>1. IsSeq(u) /\ EscapeChar(u, AnyChar) = Append(d, "\\")
    BY <1>6, <1>11, <2>3, AppendOne
  <2> HIDE DEF u
  <2>2. x # AnyChar => EscapeChar(Append(u, x), AnyChar) = Append(EscapeChar(u, AnyChar), x)
    BY <2>1, <1>13
  <2> QED
    BY <2>1, <2>2 DEF u
<1> HIDE DEF d
<1>8. CASE x = "\\"
  <2>1. EscapeChar(Append(s, x), "\\") = Append(Append(a, "\\"), x) /\ x # "%" /\ x # AnyChar /\ x \in {"%", AnyChar, "\\"}
    BY Metacharacters, <1>1, <1>8
  <2> QED
    BY <2>1, <1>2, <1>3, <1>12, <1>5, <1>7
<1>9. CASE x = "%"
  BY Metacharacters, <1>1, <1>2, <1>3, <1>12, <1>4, <1>6, <1>7, <1>9
<1>10. CASE x \notin {"%", "\\"}
  BY Metacharacters, <1>1, <1>2, <1>3, <1>12, <1>4, <1>6, <1>10
<1> QED
  BY <1>8, <1>9, <1>10

\* Where escapeLike puts the characters of a text: it starts character k + 1
\* after at[k] characters.
Offsets(at, t, e) ==
    /\ at \in [0..Len(t) -> 0..Len(e)]
    /\ at[0] = 0 /\ at[Len(t)] = Len(e)
    /\ \A k \in 1..Len(t) :
          IF t[k] \in {"%", AnyChar, "\\"}
          THEN at[k] = at[k - 1] + 2 /\ e[at[k - 1] + 1] = "\\" /\ e[at[k - 1] + 2] = t[k]
          ELSE at[k] = at[k - 1] + 1 /\ e[at[k - 1] + 1] = t[k]

\* What Append does to any sequence.
LEMMA Appended ==
    ASSUME NEW t, IsSeq(t), NEW x
    PROVE  /\ IsSeq(Append(t, x)) /\ Len(t) \in Nat /\ Len(Append(t, x)) = Len(t) + 1
           /\ Append(t, x)[Len(t) + 1] = x
           /\ \A k \in 1..Len(t) : Append(t, x)[k] = t[k]
<1> DEFINE S == Range(t) \cup {x}
<1>1. t \in Seq(S) /\ x \in S
  BY SeqMonotonic DEF IsSeq
<1> HIDE DEF S
<1>2. Append(t, x) \in Seq(S) /\ Len(t) \in Nat
  BY <1>1, AppendProperties, LenProperties
<1>3. Len(Append(t, x)) = Len(t) + 1 /\ Append(t, x)[Len(t) + 1] = x /\ \A k \in 1..Len(t) : Append(t, x)[k] = t[k]
  BY <1>1, AppendProperties
<1> QED
  BY <1>2, <1>3, SeqIsSeq

\* A sequence that is not empty is one with an element appended.
LEMMA IsAppended ==
    ASSUME NEW t, IsSeq(t), Len(t) # 0
    PROVE  \E u, x : IsSeq(u) /\ t = Append(u, x) /\ Len(u) = Len(t) - 1
<1> DEFINE S == Range(t)  u == SubSeq(t, 1, Len(t) - 1)
<1>1. t \in Seq(S) /\ Len(t) \in Nat /\ DOMAIN t = 1..Len(t)
  BY SeqIsSeq DEF IsSeq
<1> HIDE DEF S
<1>2. u \in Seq(S) /\ Len(u) = Len(t) - 1 /\ t = Append(u, t[Len(t)])
  BY <1>1
<1>3. IsSeq(u)
  BY <1>2, SeqIsSeq
<1> QED
  BY <1>2, <1>3

\* One character more is escaped after the others.
LEMMA OffsetsStep ==
    ASSUME NEW w, IsSeq(w), NEW x, NEW e, IsSeq(e), NEW f, NEW at, Offsets(at, w, e),
           x \in {"%", AnyChar, "\\"} => f = Append(Append(e, "\\"), x),
           x \notin {"%", AnyChar, "\\"} => f = Append(e, x)
    PROVE  \E up : Offsets(up, Append(w, x), f)
<1> DEFINE u == Append(w, x)  n == Len(w) + 1  special == x \in {"%", AnyChar, "\\"}
<1>6. IsSeq(f) /\ Len(e) \in Nat /\ Len(f) \in Nat
  <2>1. IsSeq(Append(e, x)) /\ IsSeq(Append(e, "\\")) /\ Len(e) \in Nat
    BY Appended
  <2>2. IsSeq(Append(Append(e, "\\"), x))
    BY <2>1, Appended
  <2>3. IsSeq(f)
    BY <2>1, <2>2
  <2> QED
    BY <2>1, <2>3, SeqIsSeq DEF IsSeq
<1>7. /\ \A k \in 1..Len(e) : f[k] = e[k]
      /\ special => Len(f) = Len(e) + 2 /\ f[Len(e) + 1] = "\\" /\ f[Len(e) + 2] = x
      /\ ~special => Len(f) = Len(e) + 1 /\ f[Len(e) + 1] = x
  <2>1. CASE special
    <3> DEFINE g == Append(e, "\\")
    <3>1. IsSeq(g) /\ Len(g) = Len(e) + 1 /\ g[Len(e) + 1] = "\\" /\ \A k \in 1..Len(e) : g[k] = e[k]
      BY Appended
    <3> HIDE DEF g
    <3>2. Len(Append(g, x)) = Len(g) + 1 /\ Append(g, x)[Len(g) + 1] = x /\ \A k \in 1..Len(g) : Append(g, x)[k] = g[k]
      BY <3>1, Appended
    <3>3. f = Append(g, x)
      BY <2>1 DEF g
    <3>4. Len(f) = Len(e) + 2 /\ f[Len(e) + 2] = x
      BY <1>6, <3>1, <3>2, <3>3
    <3>5. \A k \in 1..(Len(e) + 1) : f[k] = g[k]
      BY <1>6, <3>1, <3>2, <3>3
    <3> HIDE DEF special
    <3>6. f[Len(e) + 1] = "\\" /\ \A k \in 1..Len(e) : f[k] = e[k]
      BY <1>6, <3>1, <3>5
    <3> QED
      BY <2>1, <3>4, <3>6
  <2>2. CASE ~special
    <3>1. Len(Append(e, x)) = Len(e) + 1 /\ Append(e, x)[Len(e) + 1] = x /\ \A k \in 1..Len(e) : Append(e, x)[k] = e[k]
      BY Appended
    <3> QED
      BY <2>2, <3>1
  <2> QED
    BY <2>1, <2>2
<1>8. Len(w) \in Nat /\ Len(u) = n /\ u[n] = x /\ \A k \in 1..(n - 1) : u[k] = w[k]
  <2>1. Len(w) \in Nat /\ Len(u) = Len(w) + 1 /\ u[Len(w) + 1] = x /\ \A k \in 1..Len(w) : u[k] = w[k]
    BY Appended
  <2> QED
    BY <2>1
<1> DEFINE up == [k \in 0..n |-> IF k = n THEN Len(f) ELSE at[k]]
<1>10. n \in Nat /\ n # 0 /\ n - 1 = Len(w)
  BY <1>8
<1> HIDE DEF n, u
<1>9. /\ at \in [0..(n - 1) -> 0..Len(e)]
      /\ at[0] = 0 /\ at[n - 1] = Len(e)
      /\ \A k \in 1..(n - 1) :
            IF w[k] \in {"%", AnyChar, "\\"}
            THEN at[k] = at[k - 1] + 2 /\ e[at[k - 1] + 1] = "\\" /\ e[at[k - 1] + 2] = w[k]
            ELSE at[k] = at[k - 1] + 1 /\ e[at[k - 1] + 1] = w[k]
  BY <1>10 DEF Offsets
<1>14. Len(e) <= Len(f)
  <2> HIDE DEF special
  <2> QED
    BY <1>6, <1>7
<1>11. up \in [0..n -> 0..Len(f)] /\ up[0] = 0 /\ up[n] = Len(f) /\ up[n - 1] = Len(e) /\ \A k \in 0..(n - 1) : up[k] = at[k]
  <2>1. \A k \in 0..(n - 1) : up[k] = at[k] /\ at[k] \in 0..Len(e)
    BY <1>9, <1>10
  <2>2. up[n] = Len(f)
    BY <1>10
  <2>3. \A k \in 0..n : k \in 0..(n - 1) \/ k = n
    BY <1>10
  <2>4. \A k \in 0..n : up[k] \in 0..Len(f)
    BY <1>6, <1>14, <2>1, <2>2, <2>3
  <2>5. up \in [0..n -> 0..Len(f)]
    BY <2>4
  <2>6. 0 \in 0..(n - 1) /\ n - 1 \in 0..(n - 1)
    BY <1>10
  <2> HIDE DEF up
  <2> QED
    BY <2>1, <2>2, <2>5, <2>6, <1>9
<1> HIDE DEF up
<1>12. \A k \in 1..n :
          IF u[k] \in {"%", AnyChar, "\\"}
          THEN up[k] = up[k - 1] + 2 /\ f[up[k - 1] + 1] = "\\" /\ f[up[k - 1] + 2] = u[k]
          ELSE up[k] = up[k - 1] + 1 /\ f[up[k - 1] + 1] = u[k]
  <2> SUFFICES ASSUME NEW k \in 1..n
               PROVE  IF u[k] \in {"%", AnyChar, "\\"}
                      THEN up[k] = up[k - 1] + 2 /\ f[up[k - 1] + 1] = "\\" /\ f[up[k - 1] + 2] = u[k]
                      ELSE up[k] = up[k - 1] + 1 /\ f[up[k - 1] + 1] = u[k]
    OBVIOUS
  <2>1. CASE k = n
    BY <1>7, <1>8, <1>10, <1>11, <2>1
  <2>2. CASE k # n
    <3>1. k \in 1..(n - 1) /\ k \in 0..(n - 1) /\ k - 1 \in 0..(n - 1)
      BY <1>10, <2>2
    <3>2. at[k] \in 0..Len(e) /\ at[k - 1] \in 0..Len(e)
      BY <1>9, <3>1
    <3>3. up[k] = at[k] /\ up[k - 1] = at[k - 1] /\ u[k] = w[k]
      BY <1>8, <1>11, <3>1
    <3>4. IF w[k] \in {"%", AnyChar, "\\"}
          THEN at[k] = at[k - 1] + 2 /\ e[at[k - 1] + 1] = "\\" /\ e[at[k - 1] + 2] = w[k]
          ELSE at[k] = at[k - 1] + 1 /\ e[at[k - 1] + 1] = w[k]
      BY <1>9, <3>1
    <3>5. CASE w[k] \in {"%", AnyChar, "\\"}
      <4>1. at[k - 1] + 1 \in 1..Len(e) /\ at[k - 1] + 2 \in 1..Len(e)
        <5>1. at[k - 1] \in Nat /\ at[k] \in Nat /\ at[k] <= Len(e)
          BY <1>6, <3>2
        <5>2. at[k] = at[k - 1] + 2
          BY <3>4, <3>5
        <5> QED
          BY <1>6, <5>1, <5>2
      <4> QED
        BY <1>7, <3>3, <3>4, <3>5, <4>1
    <3>6. CASE w[k] \notin {"%", AnyChar, "\\"}
      <4>1. at[k - 1] + 1 \in 1..Len(e)
        <5>1. at[k - 1] \in Nat /\ at[k] \in Nat /\ at[k] <= Len(e)
          BY <1>6, <3>2
        <5>2. at[k] = at[k - 1] + 1
          BY <3>4, <3>6
        <5> QED
          BY <1>6, <5>1, <5>2
      <4> QED
        BY <1>7, <3>3, <3>4, <3>6, <4>1
    <3> QED
      BY <3>5, <3>6
  <2> QED
    BY <2>1, <2>2
<1>13. Offsets(up, u, f)
  BY <1>8, <1>11, <1>12 DEF Offsets
<1> QED
  BY <1>13 DEF u

\* Every text is spread over its escaped form, character by character.
LEMMA EscapeLikeOffsets ==
    ASSUME NEW t, IsSeq(t)
    PROVE  IsSeq(EscapeLike(t)) /\ \E at : Offsets(at, t, EscapeLike(t))
<1> DEFINE Good(u) == IsSeq(EscapeLike(u)) /\ \E at : Offsets(at, u, EscapeLike(u))
           T == { n \in Nat : \E u : IsSeq(u) /\ Len(u) = n /\ ~Good(u) }
<1> SUFFICES ASSUME T # {} PROVE FALSE
  BY SeqIsSeq DEF IsSeq
<1>1. PICK n \in T : \A m \in T : n <= m
  <2>1. T \subseteq Nat
    OBVIOUS
  <2> HIDE DEF T
  <2> QED
    BY <2>1, NatLeast
<1>2. PICK u : IsSeq(u) /\ Len(u) = n /\ ~Good(u)
  BY <1>1
<1>3. CASE n = 0
  <2>1. u = <<>>
    BY <1>2, <1>3, EmptySeq DEF IsSeq
  <2>2. EscapeLike(<<>>) = <<>>
    <3>1. \A c : EscapeChar(<<>>, c) = <<>>
      BY DEF EscapeChar, FlattenSeq
    <3> QED
      BY <3>1 DEF EscapeLike
  <2>3. Offsets([k \in 0..0 |-> 0], u, <<>>)
    <3> DEFINE at == [k \in 0..0 |-> 0]
    <3>1. at \in [0..0 -> 0..0] /\ at[0] = 0
      OBVIOUS
    <3> HIDE DEF at
    <3>2. Len(u) = 0 /\ Len(<<>>) = 0
      BY <1>2, <1>3
    <3>3. Offsets(at, u, <<>>)
      BY <3>1, <3>2 DEF Offsets
    <3> QED
      BY <3>3 DEF at
  <2>4. IsSeq(EscapeLike(u))
    BY <2>1, <2>2, <1>2
  <2> QED
    BY <1>2, <2>1, <2>2, <2>3, <2>4
<1>4. CASE n # 0
  <2>1. PICK w, x : IsSeq(w) /\ u = Append(w, x) /\ Len(w) = n - 1
    BY <1>2, <1>4, IsAppended
  <2>2. Good(w)
    BY <1>1, <1>4, <2>1
  <2> DEFINE e == EscapeLike(w)  f == EscapeLike(u)
  <2>3. PICK at : Offsets(at, w, e)
    BY <2>2
  <2>4. IsSeq(e)
    BY <2>2
  <2>5. /\ x \in {"%", AnyChar, "\\"} => f = Append(Append(e, "\\"), x)
        /\ x \notin {"%", AnyChar, "\\"} => f = Append(e, x)
    BY <2>1, EscapeLikeAppend
  <2> HIDE DEF e, f
  <2>6. IsSeq(f) /\ Len(e) \in Nat /\ Len(f) \in Nat
    <3>1. IsSeq(Append(e, x)) /\ IsSeq(Append(e, "\\")) /\ Len(e) \in Nat
      BY <2>4, Appended
    <3>2. IsSeq(Append(Append(e, "\\"), x))
      BY <3>1, Appended
    <3>3. IsSeq(f)
      BY <2>5, <3>1, <3>2
    <3> QED
      BY <3>1, <3>3, SeqIsSeq DEF IsSeq
  <2>7. \E up : Offsets(up, Append(w, x), f)
    BY <2>1, <2>3, <2>4, <2>5, OffsetsStep
  <2> QED
    BY <1>2, <2>1, <2>6, <2>7 DEF f
<1> QED
  BY <1>3, <1>4

\* What the matcher computes for one position of the pattern.
Left(left, s, p, j) ==
    IF j = Len(p) + 1 THEN {Len(s)}
    ELSE LET rest == left[j + 1]
         IN {n \in 0 .. Len(s) :
              CASE p[j] = "%"  -> \E m \in rest : n <= m
                [] p[j] = "\\" -> j < Len(p) /\ n < Len(s) /\ s[n + 1] = p[j + 1] /\ n + 1 \in left[j + 2]
                [] OTHER       -> n < Len(s) /\ p[j] \in {AnyChar, s[n + 1]} /\ n + 1 \in rest}

\* What the matcher computes for a position depends on the next two alone.
LEMMA LeftDepends ==
    ASSUME NEW f, NEW g, NEW s, NEW p, NEW j, j # Len(p) + 1 => f[j + 1] = g[j + 1], j < Len(p) => f[j + 2] = g[j + 2]
    PROVE  Left(f, s, p, j) = Left(g, s, p, j)
<1>1. CASE j = Len(p) + 1
  BY <1>1 DEF Left
<1>2. CASE j # Len(p) + 1
  <2>1. \A n : (j < Len(p) /\ n < Len(s) /\ s[n + 1] = p[j + 1] /\ n + 1 \in f[j + 2])
               <=> (j < Len(p) /\ n < Len(s) /\ s[n + 1] = p[j + 1] /\ n + 1 \in g[j + 2])
    OBVIOUS
  <2>2. \A left : Left(left, s, p, j) =
                  {n \in 0 .. Len(s) :
                     CASE p[j] = "%"  -> \E m \in left[j + 1] : n <= m
                       [] p[j] = "\\" -> j < Len(p) /\ n < Len(s) /\ s[n + 1] = p[j + 1] /\ n + 1 \in left[j + 2]
                       [] OTHER       -> n < Len(s) /\ p[j] \in {AnyChar, s[n + 1]} /\ n + 1 \in left[j + 1]}
    BY <1>2 DEF Left
  <2> QED
    BY <1>2, <2>1, <2>2
<1> QED
  BY <1>1, <1>2

\* The matcher of LIKE computes what it says.
LEMMA LeftExists ==
    ASSUME NEW s, NEW p, Len(p) \in Nat
    PROVE  \E left : left = [j \in 1..(Len(p) + 1) |-> Left(left, s, p, j)]
<1> DEFINE L == Len(p) + 1
           Done(k) == \E f : f = [j \in (L - k)..L |-> Left(f, s, p, j)]
           T == { k \in 0..(L - 1) : ~Done(k) }
<1>0. L \in Nat /\ L # 0
  OBVIOUS
<1>1. T = {}
  <2> SUFFICES ASSUME T # {} PROVE FALSE
    OBVIOUS
  <2>1. PICK k \in T : \A y \in T : k <= y
    <3>1. T \subseteq Nat
      OBVIOUS
    <3> HIDE DEF T
    <3> QED
      BY <3>1, NatLeast
  <2>2. k \in 0..(L - 1) /\ ~Done(k)
    BY <2>1
  <2>3. CASE k = 0
    <3> DEFINE f == [j \in L..L |-> {Len(s)}]
    <3>1. \A j \in L..L : Left(f, s, p, j) = {Len(s)}
      BY DEF Left
    <3>2. f = [j \in L..L |-> Left(f, s, p, j)]
      BY <3>1
    <3>3. L - k = L
      BY <2>3, <1>0
    <3> HIDE DEF f
    <3> QED
      BY <2>2, <3>2, <3>3
  <2>4. CASE k # 0
    <3>1. k - 1 \in 0..(L - 1) /\ k - 1 \notin T
      <4>1. k \in 0..(L - 1)
        BY <2>2
      <4>2. k - 1 \in 0..(L - 1) /\ ~(k <= k - 1)
        BY <4>1, <2>4, <1>0
      <4> HIDE DEF T
      <4> QED
        BY <4>2, <2>1
    <3> DEFINE lo == L - k
    <3>2. lo \in Nat /\ lo + 1 = L - (k - 1) /\ lo < L
      BY <2>2, <2>4, <1>0
    <3>3. PICK f : f = [j \in (lo + 1)..L |-> Left(f, s, p, j)]
      BY <3>1, <3>2
    <3> DEFINE h == [j \in lo..L |-> IF j = lo THEN Left(f, s, p, lo) ELSE f[j]]
    <3> HIDE DEF lo
    <3>4. \A j \in (lo + 1)..L : f[j] = Left(f, s, p, j) /\ h[j] = f[j]
      <4>1. \A j \in (lo + 1)..L : f[j] = Left(f, s, p, j)
        BY <3>3
      <4>2. \A j \in (lo + 1)..L : j \in lo..L /\ j # lo
        BY <3>2, <1>0
      <4> QED
        BY <4>1, <4>2
    <3>5. h[lo] = Left(f, s, p, lo) /\ lo \in lo..L
      BY <3>2, <1>0
    <3>6. h = [j \in lo..L |-> h[j]]
      OBVIOUS
    <3> HIDE DEF h
    <3>7. \A j \in lo..L : Left(h, s, p, j) = Left(f, s, p, j)
      <4> SUFFICES ASSUME NEW j \in lo..L PROVE Left(h, s, p, j) = Left(f, s, p, j)
        OBVIOUS
      <4>1. j # Len(p) + 1 => h[j + 1] = f[j + 1]
        <5>1. j # L => j + 1 \in (lo + 1)..L
          BY <3>2, <1>0
        <5> QED
          BY <3>4, <5>1
      <4>2. j < Len(p) => h[j + 2] = f[j + 2]
        BY <3>2, <3>4, <1>0
      <4> QED
        BY <4>1, <4>2, LeftDepends
    <3>8. \A j \in lo..L : h[j] = Left(h, s, p, j)
      <4>1. \A j \in lo..L : j = lo \/ j \in (lo + 1)..L
        BY <3>2, <1>0
      <4> QED
        BY <3>4, <3>5, <3>7, <4>1
    <3>9. h = [j \in lo..L |-> Left(h, s, p, j)]
      BY <3>6, <3>8
    <3> QED
      BY <2>2, <3>9 DEF lo
  <2> QED
    BY <2>3, <2>4
<1>2. L - 1 \in 0..(L - 1) /\ L - (L - 1) = 1
  BY <1>0
<1>3. Done(L - 1)
  BY <1>1, <1>2
<1> QED
  BY <1>2, <1>3

\* `s LIKE p` in terms of what the matcher computes.
LEMMA LikeMeaning ==
    ASSUME NEW s, NEW p, Len(p) \in Nat
    PROVE  \E left : /\ \A j \in 1..(Len(p) + 1) : left[j] = Left(left, s, p, j)
                     /\ Like(s, p) <=> 0 \in left[1]
<1> DEFINE left == CHOOSE left : left = [j \in 1..(Len(p) + 1) |-> Left(left, s, p, j)]
<1>1. left = [j \in 1..(Len(p) + 1) |-> Left(left, s, p, j)]
  BY LeftExists
<1>2. Like(s, p) <=> 0 \in left[1]
  BY DEF Like, Left
<1> HIDE DEF left
<1> QED
  BY <1>1, <1>2

\* The pattern around an escaped text.
LEMMA PatternCharacters ==
    ASSUME NEW e, IsSeq(e), NEW p, p = <<"%">> \o e \o <<"%">>
    PROVE  /\ Len(e) \in Nat /\ Len(p) = Len(e) + 2
           /\ p[1] = "%" /\ p[Len(e) + 2] = "%"
           /\ \A i \in 1..Len(e) : p[i + 1] = e[i]
<1> DEFINE S == Range(e) \cup {"%"}  b == <<"%">>  q == b \o e
<1>1. e \in Seq(S) /\ b \in Seq(S) /\ Len(b) = 1 /\ b[1] = "%" /\ Len(e) \in Nat
  <2>1. e \in Seq(S) /\ Len(e) \in Nat
    BY SeqMonotonic, LenProperties DEF IsSeq
  <2>2. "%" \in S
    OBVIOUS
  <2> HIDE DEF S
  <2> QED
    BY <2>1, <2>2
<1> HIDE DEF S, b
<1>2. q \in Seq(S) /\ Len(q) = Len(e) + 1 /\ \A i \in 1..(Len(e) + 1) : q[i] = IF i <= 1 THEN b[i] ELSE e[i - 1]
  <2>1. q \in Seq(S) /\ Len(q) = Len(b) + Len(e)
        /\ \A i \in 1..(Len(b) + Len(e)) : q[i] = IF i <= Len(b) THEN b[i] ELSE e[i - Len(b)]
    BY <1>1, ConcatProperties
  <2> HIDE DEF q
  <2> QED
    BY <1>1, <2>1
<1> HIDE DEF q
<1> DEFINE r == q \o b
<1>3. Len(r) = Len(e) + 2 /\ \A i \in 1..(Len(e) + 2) : r[i] = IF i <= Len(e) + 1 THEN q[i] ELSE b[i - (Len(e) + 1)]
  <2>1. Len(r) = Len(q) + Len(b) /\ \A i \in 1..(Len(q) + Len(b)) : r[i] = IF i <= Len(q) THEN q[i] ELSE b[i - Len(q)]
    BY <1>1, <1>2, ConcatProperties
  <2> QED
    BY <1>1, <1>2, <2>1
<1>4. p = r
  BY DEF q, b
<1> HIDE DEF r
<1>5. Len(p) = Len(e) + 2 /\ p[Len(e) + 2] = "%"
  BY <1>1, <1>3, <1>4
<1>6. p[1] = "%"
  BY <1>1, <1>2, <1>3, <1>4
<1>7. \A i \in 1..Len(e) : p[i + 1] = e[i]
  <2> SUFFICES ASSUME NEW i \in 1..Len(e) PROVE p[i + 1] = e[i]
    OBVIOUS
  <2>1. i + 1 \in 1..(Len(e) + 1) /\ i + 1 \in 1..(Len(e) + 2) /\ ~(i + 1 <= 1) /\ i + 1 <= Len(e) + 1 /\ (i + 1) - 1 = i
    BY <1>1
  <2> QED
    BY <1>2, <1>3, <1>4, <2>1
<1> QED
  BY <1>1, <1>5, <1>6, <1>7

\* The text t stands in s after n characters.
StandsAt(s, t, n) == n + Len(t) <= Len(s) /\ \A x \in 1..Len(t) : s[n + x] = t[x]

\* The last characters of t, without the first k, stand in s after n characters.
RestAt(s, t, k, n) == n + (Len(t) - k) <= Len(s) /\ \A x \in 1..(Len(t) - k) : s[n + x] = t[k + x]

\* LIKE with an escaped text between two `%` finds the text wherever it stands.
LEMMA LikeFindsText ==
    ASSUME NEW s, IsSeq(s), NEW t, IsSeq(t)
    PROVE  Like(s, <<"%">> \o EscapeLike(t) \o <<"%">>) <=> \E n \in 0..Len(s) : StandsAt(s, t, n)
<1> DEFINE e == EscapeLike(t)  p == <<"%">> \o e \o <<"%">>
<1>1. IsSeq(e) /\ \E at : Offsets(at, t, e)
  BY EscapeLikeOffsets
<1>2. PICK at : Offsets(at, t, e)
  BY <1>1
<1>3. Len(s) \in Nat /\ Len(t) \in Nat
  BY SeqIsSeq DEF IsSeq
<1>4. /\ Len(e) \in Nat /\ Len(p) = Len(e) + 2
      /\ p[1] = "%" /\ p[Len(e) + 2] = "%"
      /\ \A i \in 1..Len(e) : p[i + 1] = e[i]
  BY <1>1, PatternCharacters
<1> HIDE DEF e, p
<1>5. PICK left : /\ \A j \in 1..(Len(p) + 1) : left[j] = Left(left, s, p, j)
                  /\ Like(s, p) <=> 0 \in left[1]
  BY <1>4, LikeMeaning
<1>6. left[Len(e) + 3] = {Len(s)}
  <2>1. Len(e) + 3 = Len(p) + 1 /\ Len(e) + 3 \in 1..(Len(p) + 1)
    BY <1>4
  <2>2. left[Len(e) + 3] = Left(left, s, p, Len(e) + 3)
    BY <1>5, <2>1
  <2> QED
    BY <2>1, <2>2 DEF Left
<1>7. \A j \in 1..(Len(e) + 2) : p[j] = "%" =>
         \A n : n \in left[j] <=> n \in 0..Len(s) /\ \E m \in left[j + 1] : n <= m
  <2> SUFFICES ASSUME NEW j \in 1..(Len(e) + 2), p[j] = "%"
               PROVE  \A n : n \in left[j] <=> n \in 0..Len(s) /\ \E m \in left[j + 1] : n <= m
    OBVIOUS
  <2>1. j \in 1..(Len(p) + 1) /\ j # Len(p) + 1 /\ p[j] # "\\"
    BY <1>4, Metacharacters
  <2>2. left[j] = Left(left, s, p, j)
    BY <1>5, <2>1
  <2>3. left[j] = {n \in 0..Len(s) : \E m \in left[j + 1] : n <= m}
    BY <2>1, <2>2 DEF Left
  <2> QED
    BY <2>3
<1>8. \A j \in 1..(Len(e) + 1) : p[j] = "\\" =>
         \A n : n \in left[j] <=> n \in 0..Len(s) /\ n < Len(s) /\ s[n + 1] = p[j + 1] /\ n + 1 \in left[j + 2]
  <2> SUFFICES ASSUME NEW j \in 1..(Len(e) + 1), p[j] = "\\"
               PROVE  \A n : n \in left[j] <=> n \in 0..Len(s) /\ n < Len(s) /\ s[n + 1] = p[j + 1] /\ n + 1 \in left[j + 2]
    OBVIOUS
  <2>1. j \in 1..(Len(p) + 1) /\ j # Len(p) + 1 /\ j < Len(p) /\ p[j] # "%"
    BY <1>4, Metacharacters
  <2>2. left[j] = Left(left, s, p, j)
    BY <1>5, <2>1
  <2>3. left[j] = {n \in 0..Len(s) : n < Len(s) /\ s[n + 1] = p[j + 1] /\ n + 1 \in left[j + 2]}
    BY <2>1, <2>2 DEF Left
  <2> QED
    BY <2>3
<1>9. \A j \in 1..(Len(e) + 1) : p[j] \notin {"%", AnyChar, "\\"} =>
         \A n : n \in left[j] <=> n \in 0..Len(s) /\ n < Len(s) /\ s[n + 1] = p[j] /\ n + 1 \in left[j + 1]
  <2> SUFFICES ASSUME NEW j \in 1..(Len(e) + 1), p[j] \notin {"%", AnyChar, "\\"}
               PROVE  \A n : n \in left[j] <=> n \in 0..Len(s) /\ n < Len(s) /\ s[n + 1] = p[j] /\ n + 1 \in left[j + 1]
    OBVIOUS
  <2>1. j \in 1..(Len(p) + 1) /\ j # Len(p) + 1
    BY <1>4
  <2>2. left[j] = Left(left, s, p, j)
    BY <1>5, <2>1
  <2>3. left[j] = {n \in 0..Len(s) : n < Len(s) /\ s[n + 1] = p[j] /\ n + 1 \in left[j + 1]}
    BY <2>1, <2>2 DEF Left
  <2> QED
    BY <2>3
<1>10. \A n : n \in left[Len(e) + 2] <=> n \in 0..Len(s)
  <2>1. Len(e) + 2 \in 1..(Len(e) + 2) /\ (Len(e) + 2) + 1 = Len(e) + 3
    BY <1>4
  <2>2. \A n : n \in left[Len(e) + 2] <=> n \in 0..Len(s) /\ \E m \in left[Len(e) + 3] : n <= m
    BY <1>4, <1>7, <2>1
  <2> QED
    BY <1>3, <1>6, <2>2
<1>11. /\ at \in [0..Len(t) -> 0..Len(e)] /\ at[0] = 0 /\ at[Len(t)] = Len(e)
       /\ \A k \in 1..Len(t) :
             IF t[k] \in {"%", AnyChar, "\\"}
             THEN at[k] = at[k - 1] + 2 /\ e[at[k - 1] + 1] = "\\" /\ e[at[k - 1] + 2] = t[k]
             ELSE at[k] = at[k - 1] + 1 /\ e[at[k - 1] + 1] = t[k]
  BY <1>2 DEF Offsets
<1>12. \A k \in 1..Len(t) : \A n : n \in left[at[k - 1] + 2] <=> n \in 0..Len(s) /\ n < Len(s) /\ s[n + 1] = t[k] /\ n + 1 \in left[at[k] + 2]
  <2> SUFFICES ASSUME NEW k \in 1..Len(t)
               PROVE  \A n : n \in left[at[k - 1] + 2] <=> n \in 0..Len(s) /\ n < Len(s) /\ s[n + 1] = t[k] /\ n + 1 \in left[at[k] + 2]
    OBVIOUS
  <2>1. at[k] \in 0..Len(e) /\ at[k - 1] \in 0..Len(e)
    <3>1. k \in 0..Len(t) /\ k - 1 \in 0..Len(t)
      BY <1>3
    <3> QED
      BY <1>11, <3>1
  <2> DEFINE j == at[k - 1] + 2
  <2>2. CASE t[k] \in {"%", AnyChar, "\\"}
    <3>1. at[k] = at[k - 1] + 2 /\ e[at[k - 1] + 1] = "\\" /\ e[at[k - 1] + 2] = t[k]
      BY <1>11, <2>2
    <3>2. at[k - 1] + 1 \in 1..Len(e) /\ at[k - 1] + 2 \in 1..Len(e) /\ j \in 1..(Len(e) + 1) /\ j = (at[k - 1] + 1) + 1
          /\ j + 1 = (at[k - 1] + 2) + 1 /\ j + 2 = at[k] + 2
      BY <1>4, <2>1, <3>1
    <3> HIDE DEF j
    <3>3. p[j] = "\\" /\ p[j + 1] = t[k]
      BY <1>4, <3>1, <3>2
    <3> QED
      BY <1>8, <3>2, <3>3 DEF j
  <2>3. CASE t[k] \notin {"%", AnyChar, "\\"}
    <3>1. at[k] = at[k - 1] + 1 /\ e[at[k - 1] + 1] = t[k]
      BY <1>11, <2>3
    <3>2. at[k - 1] + 1 \in 1..Len(e) /\ j \in 1..(Len(e) + 1) /\ j = (at[k - 1] + 1) + 1 /\ j + 1 = at[k] + 2
      BY <1>4, <2>1, <3>1
    <3> HIDE DEF j
    <3>3. p[j] = t[k]
      BY <1>4, <3>1, <3>2
    <3> QED
      BY <1>9, <2>3, <3>2, <3>3 DEF j
  <2> QED
    BY <2>2, <2>3
<1> DEFINE Good(k) == \A n : n \in left[at[k] + 2] <=> n \in 0..Len(s) /\ RestAt(s, t, k, n)
           T == { k \in 0..Len(t) : ~Good(k) }
<1>13. T = {}
  <2> SUFFICES ASSUME T # {} PROVE FALSE
    OBVIOUS
  <2>1. PICK k \in T : \A y \in T : y <= k
    <3>1. T \subseteq 0..Len(t)
      OBVIOUS
    <3> HIDE DEF T
    <3> QED
      BY <1>3, <3>1, NatGreatest
  <2>2. k \in 0..Len(t) /\ ~Good(k)
    BY <2>1
  <2>3. CASE k = Len(t)
    <3>1. \A n : n \in left[at[k] + 2] <=> n \in 0..Len(s)
      BY <1>10, <1>11, <2>3
    <3>2. \A n \in 0..Len(s) : RestAt(s, t, k, n)
      BY <1>3, <2>3 DEF RestAt
    <3> QED
      BY <2>2, <3>1, <3>2
  <2>4. CASE k # Len(t)
    <3>1. k + 1 \in 1..Len(t) /\ k + 1 \in 0..Len(t) /\ ~(k + 1 <= k) /\ (k + 1) - 1 = k
      BY <1>3, <2>2, <2>4
    <3>2. Good(k + 1)
      <4> HIDE DEF Good
      <4> QED
        BY <2>1, <3>1
    <3>3. \A n : n \in left[at[k] + 2] <=> n \in 0..Len(s) /\ n < Len(s) /\ s[n + 1] = t[k + 1] /\ n + 1 \in left[at[k + 1] + 2]
      BY <1>12, <3>1
    <3>4. \A n \in 0..Len(s) : n < Len(s) => (n + 1 \in left[at[k + 1] + 2] <=> RestAt(s, t, k + 1, n + 1))
      BY <1>3, <3>2
    <3>5. \A n \in 0..Len(s) : (n < Len(s) /\ s[n + 1] = t[k + 1] /\ RestAt(s, t, k + 1, n + 1)) <=> RestAt(s, t, k, n)
      <4> SUFFICES ASSUME NEW n \in 0..Len(s)
                   PROVE  (n < Len(s) /\ s[n + 1] = t[k + 1] /\ RestAt(s, t, k + 1, n + 1)) <=> RestAt(s, t, k, n)
        OBVIOUS
      <4> DEFINE l == Len(t) - k
      <4>1. l \in Nat /\ l # 0 /\ Len(t) - (k + 1) = l - 1
        BY <1>3, <3>1, <2>2
      <4>2. RestAt(s, t, k + 1, n + 1) <=> ((n + 1) + (l - 1) <= Len(s) /\ \A x \in 1..(l - 1) : s[(n + 1) + x] = t[(k + 1) + x])
        BY <4>1 DEF RestAt
      <4>3. RestAt(s, t, k, n) <=> (n + l <= Len(s) /\ \A x \in 1..l : s[n + x] = t[k + x])
        BY DEF RestAt
      <4> HIDE DEF l
      <4>4. (\A x \in 1..l : s[n + x] = t[k + x])
            <=> (s[n + 1] = t[k + 1] /\ \A x \in 1..(l - 1) : s[(n + 1) + x] = t[(k + 1) + x])
        <5>1. ASSUME \A x \in 1..l : s[n + x] = t[k + x]
              PROVE  s[n + 1] = t[k + 1] /\ \A x \in 1..(l - 1) : s[(n + 1) + x] = t[(k + 1) + x]
          <6>1. 1 \in 1..l
            BY <4>1
          <6>2. \A x \in 1..(l - 1) : x + 1 \in 1..l /\ n + (x + 1) = (n + 1) + x /\ k + (x + 1) = (k + 1) + x
            BY <4>1, <1>3, <2>2
          <6> QED
            BY <5>1, <6>1, <6>2
        <5>2. ASSUME s[n + 1] = t[k + 1], \A x \in 1..(l - 1) : s[(n + 1) + x] = t[(k + 1) + x],
                     NEW x \in 1..l
              PROVE  s[n + x] = t[k + x]
          <6>1. CASE x = 1
            BY <5>2, <6>1
          <6>2. CASE x # 1
            <7>1. x - 1 \in 1..(l - 1) /\ (n + 1) + (x - 1) = n + x /\ (k + 1) + (x - 1) = k + x
              BY <4>1, <1>3, <2>2, <6>2
            <7> QED
              BY <5>2, <7>1
          <6> QED
            BY <6>1, <6>2
        <5> QED
          BY <5>1, <5>2
      <4>5. n + l <= Len(s) <=> (n < Len(s) /\ (n + 1) + (l - 1) <= Len(s))
        BY <4>1, <1>3
      <4> QED
        BY <4>2, <4>3, <4>4, <4>5
    <3>6. Good(k)
      BY <3>3, <3>4, <3>5
    <3> QED
      BY <2>2, <3>6
  <2> QED
    BY <2>3, <2>4
<1>14. \A n : n \in left[2] <=> n \in 0..Len(s) /\ StandsAt(s, t, n)
  <2>1. Good(0)
    BY <1>3, <1>13
  <2>2. \A n : RestAt(s, t, 0, n) <=> StandsAt(s, t, n)
    BY <1>3 DEF RestAt, StandsAt
  <2> QED
    BY <2>1, <2>2, <1>11
<1>15. \A n : n \in left[1] <=> n \in 0..Len(s) /\ \E m \in left[2] : n <= m
  <2>1. 1 \in 1..(Len(e) + 2) /\ 1 + 1 = 2
    BY <1>4
  <2> QED
    BY <1>4, <1>7, <2>1
<1>16. 0 \in left[1] <=> \E n \in 0..Len(s) : StandsAt(s, t, n)
  BY <1>3, <1>14, <1>15
<1> QED
  BY <1>5, <1>16 DEF p, e

\* A text in lower case has the length of the text.
LEMMA LowerIsSeq ==
    ASSUME NEW s, IsSeq(s)
    PROVE  IsSeq(Lower(s)) /\ Len(Lower(s)) = Len(s) /\ Len(s) \in Nat /\ \A i \in 1..Len(s) : Lower(s)[i] = LowerCase[s[i]]
<1>1. Len(s) \in Nat /\ DOMAIN s = 1..Len(s)
  BY SeqIsSeq DEF IsSeq
<1> DEFINE l == Lower(s)
<1>2. l = [i \in 1..Len(s) |-> LowerCase[s[i]]]
  BY <1>1 DEF Lower
<1>3. \A i \in 1..Len(s) : l[i] = LowerCase[s[i]]
  BY <1>2
<1>4. l = [i \in 1..Len(s) |-> l[i]]
  BY <1>2
<1> HIDE DEF l
<1>5. IsSeq(l) /\ Len(l) = Len(s)
  BY <1>1, <1>4, FunctionIsASeq
<1> QED
  BY <1>1, <1>3, <1>5 DEF l

\* A text stands somewhere in another, whatever the case, exactly if it occurs in it.
LEMMA OccursMeaning ==
    ASSUME NEW text, IsSeq(text), NEW needle, IsSeq(needle)
    PROVE  Occurs(text, needle) <=> \E n \in 0..Len(text) : StandsAt(Lower(text), Lower(needle), n)
<1> DEFINE l == Len(needle)  L == Len(text)
<1>1. l \in Nat /\ L \in Nat
  BY LowerIsSeq
<1>2. \A n \in 0..L : n + l <= L =>
         (Lower(SubSeq(text, n + 1, n + l)) = Lower(needle) <=> StandsAt(Lower(text), Lower(needle), n))
  <2> SUFFICES ASSUME NEW n \in 0..L, n + l <= L
               PROVE  Lower(SubSeq(text, n + 1, n + l)) = Lower(needle) <=> StandsAt(Lower(text), Lower(needle), n)
    OBVIOUS
  <2> DEFINE u == SubSeq(text, n + 1, n + l)
  <2>1. IsSeq(u) /\ Len(u) = l /\ \A x \in 1..l : u[x] = text[n + x]
    <3> DEFINE S == Range(text)
    <3>1. text \in Seq(S)
      BY DEF IsSeq
    <3> HIDE DEF S
    <3>2. n + 1 \in 1..(L + 1) /\ n + l \in 0..L /\ n + l <= L
      BY <1>1
    <3>3. u \in Seq(S) /\ Len(u) = IF n + 1 <= n + l THEN (n + l) - (n + 1) + 1 ELSE 0
      BY <1>1, <3>1, <3>2, SubSeqProperties
    <3>4. \A x \in 1..((n + l) - (n + 1) + 1) : u[x] = text[(n + 1) + x - 1]
      BY <1>1, <3>1, <3>2, SubSeqProperties
    <3> HIDE DEF u
    <3>5. Len(u) = l /\ (n + l) - (n + 1) + 1 = l /\ \A x \in 1..l : (n + 1) + x - 1 = n + x
      BY <1>1, <3>3
    <3> QED
      BY <3>3, <3>4, <3>5, SeqIsSeq
  <2> HIDE DEF u
  <2> DEFINE a == Lower(u)  b == Lower(needle)  c == Lower(text)
  <2>2. Len(a) = l /\ IsSeq(a) /\ \A x \in 1..l : a[x] = LowerCase[text[n + x]]
    BY <2>1, LowerIsSeq
  <2>3. Len(b) = l /\ IsSeq(b)
    BY LowerIsSeq
  <2>4. Len(c) = L /\ \A x \in 1..l : c[n + x] = LowerCase[text[n + x]]
    <3>1. Len(c) = L /\ \A i \in 1..L : c[i] = LowerCase[text[i]]
      BY LowerIsSeq
    <3>2. \A x \in 1..l : n + x \in 1..L
      BY <1>1
    <3> QED
      BY <3>1, <3>2
  <2> HIDE DEF a, b, c
  <2>5. (a = b) <=> \A x \in 1..l : a[x] = b[x]
    <3>1. a = [x \in 1..l |-> a[x]] /\ b = [x \in 1..l |-> b[x]]
      BY <2>2, <2>3, SeqIsSeq DEF IsSeq
    <3> QED
      BY <3>1
  <2>6. StandsAt(c, b, n) <=> \A x \in 1..l : c[n + x] = b[x]
    BY <2>3, <2>4 DEF StandsAt
  <2> QED
    BY <2>2, <2>4, <2>5, <2>6 DEF a, b, c, u
<1>3. \A n \in 0..L : StandsAt(Lower(text), Lower(needle), n) => n + l <= L
  BY LowerIsSeq DEF StandsAt
<1>4. Occurs(text, needle) <=> \E n \in 0..(L - l) : Lower(SubSeq(text, n + 1, n + l)) = Lower(needle)
  BY DEF Occurs
<1> HIDE DEF L, l
<1>5. \A n : n \in 0..(L - l) <=> n \in 0..L /\ n + l <= L
  BY <1>1
<1> QED
  BY <1>2, <1>3, <1>4, <1>5 DEF L

\* The "has" operator on a text column finds its text whatever metacharacters
\* it has (stringOp, escapeLike).
LEMMA HasTextMeaning ==
    ASSUME NEW value \in Seq(Characters), NEW lit \in Seq(Characters), value # NULL
    PROVE  HasText(value, lit) = Known(Occurs(value, lit))
<1>1. IsSeq(value) /\ IsSeq(lit)
  BY SeqIsSeq
<1> DEFINE s == Lower(value)  t == Lower(lit)
<1>2. IsSeq(s) /\ IsSeq(t) /\ Len(s) = Len(value)
  BY <1>1, LowerIsSeq
<1>3. HasText(value, lit) = Known(Like(s, <<"%">> \o EscapeLike(t) \o <<"%">>))
  BY DEF HasText
<1>4. Occurs(value, lit) <=> \E n \in 0..Len(s) : StandsAt(s, t, n)
  BY <1>1, <1>2, OccursMeaning
<1> HIDE DEF s, t
<1>5. Like(s, <<"%">> \o EscapeLike(t) \o <<"%">>) <=> \E n \in 0..Len(s) : StandsAt(s, t, n)
  BY <1>2, LikeFindsText
<1> QED
  BY <1>3, <1>4, <1>5 DEF Known

---------------------------------------------------------------------------
(* The order of texts *)

\* Characters of the same rank are the same.
LEMMA Ranks ==
    \A c, d \in Characters : Rank(c) \in Int /\ (Rank(c) = Rank(d) => c = d)
<1>1. \A c \in Characters : Rank(c) \in DOMAIN Collation /\ Collation[Rank(c)] = c
  BY DEF Characters, Rank
<1>2. DOMAIN Collation \subseteq Int
  BY CharactersAssumption, SeqIsSeq
<1> QED
  BY <1>1, <1>2

\* Of two texts exactly one is below the other, unless they are the same.
LEMMA TextOrder ==
    ASSUME NEW s \in Seq(Characters), NEW t \in Seq(Characters)
    PROVE  /\ s = t \/ TextLess(s, t) \/ TextLess(t, s)
           /\ ~(s = t /\ TextLess(s, t))
           /\ ~(TextLess(s, t) /\ TextLess(t, s))
<1> DEFINE B == DOMAIN s \cap DOMAIN t
           First(i) == i \in B /\ s[i] # t[i] /\ \A j \in 1..(i - 1) : s[j] = t[j]
<1>1. /\ Len(s) \in Nat /\ DOMAIN s = 1..Len(s) /\ Len(t) \in Nat /\ DOMAIN t = 1..Len(t)
      /\ \A i \in DOMAIN s : s[i] \in Characters
      /\ \A i \in DOMAIN t : t[i] \in Characters
  BY SeqIsSeq, ElementOfSeq
<1>2. \A i, j : First(i) /\ First(j) => i = j
  BY <1>1
<1>3. /\ Len(s) < Len(t) /\ s = SubSeq(t, 1, Len(s)) => \A i \in B : s[i] = t[i]
      /\ Len(t) < Len(s) /\ t = SubSeq(s, 1, Len(t)) => \A i \in B : s[i] = t[i]
  BY <1>1
<1>5. TextLess(s, t) <=> \/ Len(s) < Len(t) /\ s = SubSeq(t, 1, Len(s))
                         \/ \E i : First(i) /\ Rank(s[i]) < Rank(t[i])
  <2>1. \A i \in B : Rank(s[i]) < Rank(t[i]) => s[i] # t[i]
    BY <1>1, Ranks
  <2> QED
    BY <2>1 DEF TextLess
<1>6. TextLess(t, s) <=> \/ Len(t) < Len(s) /\ t = SubSeq(s, 1, Len(t))
                         \/ \E i : First(i) /\ Rank(t[i]) < Rank(s[i])
  <2>1. \A i \in B : Rank(t[i]) < Rank(s[i]) => s[i] # t[i]
    BY <1>1, Ranks
  <2> QED
    BY <2>1 DEF TextLess
<1>7. CASE \E i \in B : s[i] # t[i]
  <2> DEFINE T == { i \in B : s[i] # t[i] }
  <2>1. PICK i \in T : \A j \in T : i <= j
    <3>1. T \subseteq Nat /\ T # {}
      BY <1>1, <1>7
    <3> HIDE DEF T
    <3> QED
      BY <3>1, NatLeast
  <2>2. First(i)
    <3>1. i \in 1..Len(s) /\ i \in 1..Len(t) /\ s[i] # t[i]
      BY <1>1, <2>1
    <3>2. \A j \in 1..(i - 1) : j \in B /\ ~(i <= j)
      BY <1>1, <3>1
    <3> QED
      BY <1>1, <2>1, <3>1, <3>2
  <2>3. \A j : First(j) => j = i
    BY <1>2, <2>2
  <2>4. Rank(s[i]) \in Int /\ Rank(t[i]) \in Int /\ Rank(s[i]) # Rank(t[i])
    BY <1>1, <2>2, Ranks
  <2>5. s # t
    BY <2>2
  <2>6. TextLess(s, t) <=> Rank(s[i]) < Rank(t[i])
    BY <1>3, <1>5, <1>7, <2>2, <2>3
  <2>7. TextLess(t, s) <=> Rank(t[i]) < Rank(s[i])
    BY <1>3, <1>6, <1>7, <2>2, <2>3
  <2> QED
    BY <2>4, <2>5, <2>6, <2>7
<1>8. CASE \A i \in B : s[i] = t[i]
  <2>1. \A i : ~First(i)
    BY <1>8
  <2>2. TextLess(s, t) <=> Len(s) < Len(t)
    <3>1. Len(s) < Len(t) => s = SubSeq(t, 1, Len(s))
      <4> SUFFICES ASSUME Len(s) < Len(t) PROVE s = SubSeq(t, 1, Len(s))
        OBVIOUS
      <4>1. SubSeq(t, 1, Len(s)) \in Seq(Characters) /\ Len(SubSeq(t, 1, Len(s))) = Len(s)
            /\ \A i \in 1..Len(s) : SubSeq(t, 1, Len(s))[i] = t[i]
        BY <1>1
      <4>2. \A i \in 1..Len(s) : s[i] = t[i]
        BY <1>1, <1>8
      <4> QED
        BY <4>1, <4>2, <1>1, SeqEqual
    <3> QED
      BY <1>5, <2>1, <3>1
  <2>3. TextLess(t, s) <=> Len(t) < Len(s)
    <3>1. Len(t) < Len(s) => t = SubSeq(s, 1, Len(t))
      <4> SUFFICES ASSUME Len(t) < Len(s) PROVE t = SubSeq(s, 1, Len(t))
        OBVIOUS
      <4>1. SubSeq(s, 1, Len(t)) \in Seq(Characters) /\ Len(SubSeq(s, 1, Len(t))) = Len(t)
            /\ \A i \in 1..Len(t) : SubSeq(s, 1, Len(t))[i] = s[i]
        BY <1>1
      <4>2. \A i \in 1..Len(t) : s[i] = t[i]
        BY <1>1, <1>8
      <4> QED
        BY <4>1, <4>2, <1>1, SeqEqual
    <3> QED
      BY <1>6, <2>1, <3>1
  <2>4. Len(s) = Len(t) => s = t
    BY <1>1, <1>8, SeqEqual
  <2>5. s = t => Len(s) = Len(t)
    OBVIOUS
  <2>6. \A a, b \in Nat : (a < b \/ b < a \/ a = b) /\ ~(a < b /\ b < a) /\ (a = b => ~(a < b) /\ ~(b < a))
    OBVIOUS
  <2>7. /\ Len(s) < Len(t) \/ Len(t) < Len(s) \/ Len(s) = Len(t)
        /\ ~(Len(s) < Len(t) /\ Len(t) < Len(s))
        /\ Len(s) = Len(t) => ~(Len(s) < Len(t)) /\ ~(Len(t) < Len(s))
    BY <1>1, <2>6
  <2> QED
    BY <2>2, <2>3, <2>4, <2>5, <2>7, Zenon
<1> QED
  BY <1>7, <1>8

---------------------------------------------------------------------------
(* Comparisons *)

Relations == {"=", "!="} \cup Orderings

\* The condition c has on the row the truth value of a statement that the row
\* may satisfy (says) or contradict (denies).
Sound(c, row, says, denies) ==
    /\ c[row] \in Truth
    /\ c[row] = "true" <=> says
    /\ c[row] = "false" <=> denies

ElementsKnown(value) == \A i \in DOMAIN value : value[i] # NULL

\* The literals of a kind are values of that kind.
LEMMA LiteralTyped ==
    ASSUME NEW kind, NEW e, e.kind = "const" => Typed(e.type, e.value), Literal(kind, e) # <<>>
    PROVE  /\ kind \in {"string", "array"} => Literal(kind, e)[1] \in Seq(Characters)
           /\ kind \in {"integer", "float", "time"} => Literal(kind, e)[1] \in Int
<1>0. \A z : <<z>> # <<>> /\ <<z>>[1] = z
  OBVIOUS
<1>1. ASSUME NEW types, ConstOf(e, types) # <<>>
      PROVE  ConstOf(e, types)[1] = e.value /\ e.kind = "const" /\ e.type \in types
  BY <1>0, <1>1 DEF ConstOf
<1>2. ASSUME NEW fn, NEW parsed \in {Durations, Timestamps}, ParsedCall(e, fn, parsed) # <<>>
      PROVE  ParsedCall(e, fn, parsed)[1] \in Int
  <2> DEFINE text == StringLiteral(e.args[1])
  <2>1. ParsedCall(e, fn, parsed) = <<parsed[text[1]]>> /\ text[1] \in DOMAIN parsed
    BY <1>2 DEF ParsedCall
  <2> HIDE DEF text
  <2> QED
    BY <1>0, <2>1, ParsedAssumption
<1>3. CASE kind \in {"string", "array"}
  <2>1. Literal(kind, e) = ConstOf(e, {"string"})
    BY <1>3 DEF Literal, StringLiteral
  <2> QED
    BY <1>1, <1>3, <2>1 DEF Typed
<1>4. CASE kind = "integer"
  <2>1. Literal(kind, e) = IntegerLiteral(e)
    BY <1>4 DEF Literal
  <2>2. CASE e.kind = "call"
    BY <1>2, <1>4, <2>1, <2>2 DEF IntegerLiteral
  <2>3. CASE e.kind # "call"
    <3>1. Literal(kind, e) = ConstOf(e, {"int"})
      BY <2>1, <2>3 DEF IntegerLiteral
    <3> QED
      BY <1>1, <1>4, <3>1 DEF Typed
  <2> QED
    BY <2>2, <2>3
<1>5. CASE kind = "float"
  <2>1. Literal(kind, e) = ConstOf(e, {"double", "int", "uint"})
    BY <1>5 DEF Literal, FloatLiteral
  <2> QED
    BY <1>1, <1>5, <2>1 DEF Typed
<1>6. CASE kind = "time"
  <2>1. Literal(kind, e) = ParsedCall(e, "timestamp", Timestamps)
    BY <1>6 DEF Literal, TimestampLiteral
  <2> QED
    BY <1>2, <1>6, <2>1
<1>7. CASE kind \notin {"string", "array", "integer", "float", "time"}
  BY <1>7
<1> QED
  BY <1>3, <1>4, <1>5, <1>6, <1>7

\* A comparison of numbers or texts.
LEMMA CompareMeaning ==
    ASSUME NEW fn \in Relations, NEW kind, kind # "array", NEW value, value # NULL, NEW lit,
           fn \notin {"=", "!="} => \/ kind = "string" /\ value \in Seq(Characters) /\ lit \in Seq(Characters)
                                    \/ kind # "string" /\ value \in Int /\ lit \in Int
    PROVE  /\ fn = "=" => Compare(fn, kind, value, lit) = Known(value = lit)
           /\ fn = "!=" => Compare(fn, kind, value, lit) = Known(~(value = lit))
           /\ fn = "<" => Compare(fn, kind, value, lit) = Known(Relates("<", kind, value, lit))
           /\ fn = ">" => Compare(fn, kind, value, lit) = Known(Relates(">", kind, value, lit))
           /\ fn = "<=" => Compare(fn, kind, value, lit) = Known(~Relates(">", kind, value, lit))
           /\ fn = ">=" => Compare(fn, kind, value, lit) = Known(~Relates("<", kind, value, lit))
<1>1. CASE fn \in {"=", "!="}
  BY <1>1 DEF Compare
<1>2. CASE fn \notin {"=", "!="} /\ kind = "string"
  <2>1. value \in Seq(Characters) /\ lit \in Seq(Characters)
    BY <1>2
  <2>2. /\ value = lit \/ TextLess(value, lit) \/ TextLess(lit, value)
        /\ ~(value = lit /\ TextLess(value, lit)) /\ ~(value = lit /\ TextLess(lit, value))
        /\ ~(TextLess(value, lit) /\ TextLess(lit, value))
    BY <2>1, TextOrder
  <2>3. CASE fn \in {"<", ">"}
    BY <1>2, <2>3 DEF Compare, Relates
  <2>4. CASE fn = "<="
    <3>1. (value = lit \/ TextLess(value, lit)) <=> ~TextLess(lit, value)
      BY <2>2
    <3>2. Compare(fn, kind, value, lit) = Known(value = lit \/ TextLess(value, lit))
      BY <1>2, <2>4 DEF Compare
    <3>3. Relates(">", kind, value, lit) <=> TextLess(lit, value)
      BY <1>2 DEF Relates
    <3> QED
      BY <2>4, <3>1, <3>2, <3>3 DEF Known
  <2>5. CASE fn = ">="
    <3>1. (value = lit \/ TextLess(lit, value)) <=> ~TextLess(value, lit)
      BY <2>2
    <3>2. Compare(fn, kind, value, lit) = Known(value = lit \/ TextLess(lit, value))
      BY <1>2, <2>5 DEF Compare
    <3>3. Relates("<", kind, value, lit) <=> TextLess(value, lit)
      BY <1>2 DEF Relates
    <3> QED
      BY <2>5, <3>1, <3>2, <3>3 DEF Known
  <2> QED
    BY <1>2, <2>3, <2>4, <2>5 DEF Relations, Orderings
<1>3. CASE fn \notin {"=", "!="} /\ kind # "string"
  <2>1. value \in Int /\ lit \in Int
    BY <1>3
  <2>3. CASE fn \in {"<", ">"}
    BY <1>3, <2>3 DEF Compare, Relates
  <2>4. CASE fn = "<="
    <3>1. (value = lit \/ value < lit) <=> ~(lit < value)
      BY <2>1
    <3>2. Compare(fn, kind, value, lit) = Known(value = lit \/ value < lit)
      BY <1>3, <2>4 DEF Compare
    <3>3. Relates(">", kind, value, lit) <=> lit < value
      BY <1>3 DEF Relates
    <3> QED
      BY <2>4, <3>1, <3>2, <3>3 DEF Known
  <2>5. CASE fn = ">="
    <3>1. (value = lit \/ lit < value) <=> ~(value < lit)
      BY <2>1
    <3>2. Compare(fn, kind, value, lit) = Known(value = lit \/ lit < value)
      BY <1>3, <2>5 DEF Compare
    <3>3. Relates("<", kind, value, lit) <=> value < lit
      BY <1>3 DEF Relates
    <3> QED
      BY <2>5, <3>1, <3>2, <3>3 DEF Known
  <2> QED
    BY <1>3, <2>3, <2>4, <2>5 DEF Relations, Orderings
<1> QED
  BY <1>1, <1>2, <1>3

\* A row contradicts a comparison exactly if it satisfies the opposite one.
LEMMA Opposites ==
    ASSUME NEW path, NEW e, NEW row
    PROVE  /\ Denies("=", path, e, row) <=> Says("!=", path, e, row)
           /\ Denies("!=", path, e, row) <=> Says("=", path, e, row)
           /\ Denies("<", path, e, row) <=> Says(">=", path, e, row)
           /\ Denies(">=", path, e, row) <=> Says("<", path, e, row)
           /\ Denies(">", path, e, row) <=> Says("<=", path, e, row)
           /\ Denies("<=", path, e, row) <=> Says(">", path, e, row)
           /\ Fields[path] = "array" => (Denies(":", path, e, row) <=> Says("!=", path, e, row))
           /\ Fields[path] # "array" => (Denies(":", path, e, row) <=> row[path] # NULL /\ ~Says(":", path, e, row))
BY DEF Denies

\* What a comparison with the literal null says.
LEMMA SaysNull ==
    ASSUME NEW path, NEW e, NEW row, IsNullLiteral(e)
    PROVE  /\ Says("=", path, e, row) <=> row[path] = NULL
           /\ Says("!=", path, e, row) <=> row[path] # NULL
BY DEF Says

\* What a comparison of an array says.
LEMMA SaysArray ==
    ASSUME NEW path, NEW e, NEW row, ~IsNullLiteral(e), Fields[path] = "array",
           NEW lit, lit = Literal("array", e)[1]
    PROVE  /\ Says("!=", path, e, row) <=> row[path] # NULL /\ \A i \in DOMAIN row[path] : row[path][i] \notin {lit, NULL}
           /\ \A fn \in {"=", ":"} :
                Says(fn, path, e, row) <=> row[path] # NULL /\ \E i \in DOMAIN row[path] : row[path][i] = lit
BY DEF Says

\* What a comparison of any other column says.
LEMMA SaysPlain ==
    ASSUME NEW path, NEW e, NEW row, ~IsNullLiteral(e), NEW kind, kind = Fields[path], kind # "array",
           NEW lit, lit = Literal(kind, e)[1]
    PROVE  /\ Says(":", path, e, row) <=> row[path] # NULL /\ Occurs(row[path], lit)
           /\ Says("=", path, e, row) <=> row[path] # NULL /\ row[path] = lit
           /\ Says("!=", path, e, row) <=> row[path] # NULL /\ row[path] # lit
           /\ \A fn \in {"<", ">"} : Says(fn, path, e, row) <=> row[path] # NULL /\ Relates(fn, kind, row[path], lit)
           /\ Says("<=", path, e, row) <=> row[path] # NULL /\ ~Relates(">", kind, row[path], lit)
           /\ Says(">=", path, e, row) <=> row[path] # NULL /\ ~Relates("<", kind, row[path], lit)
<1>1. \A fn : Says(fn, path, e, row) <=>
        /\ row[path] # NULL
        /\ CASE fn = ":"   -> Occurs(row[path], lit)
             [] fn = "!="       -> ~Relates("=", kind, row[path], lit)
             [] fn \in {"<=", ">="} -> ~Relates(IF fn = "<=" THEN ">" ELSE "<", kind, row[path], lit)
             [] OTHER           -> Relates(fn, kind, row[path], lit)
  BY DEF Says
<1>2. Relates("=", kind, row[path], lit) <=> row[path] = lit
  BY DEF Relates
<1> QED
  BY <1>1, <1>2

(* The condition c states a comparison. *)
States(c, fn, path, e) ==
    \A row \in Rows :
        /\ Sound(c, row, Says(fn, path, e, row), Denies(fn, path, e, row))
        /\ row[path] # NULL /\ (Fields[path] = "array" => ElementsKnown(row[path])) => c[row] # "unknown"

\* A comparison with the literal null (applyComparator).
LEMMA NullComparisons ==
    ASSUME NEW path, NEW e, NEW kind, NEW fn, IsNullLiteral(e), ApplyComparator(fn, path, kind, e) # <<>>
    PROVE  States(ApplyComparator(fn, path, kind, e)[1], fn, path, e)
<1> DEFINE c == ApplyComparator(fn, path, kind, e)[1]
<1>0. \A z : <<z>> # <<>> /\ <<z>>[1] = z
  OBVIOUS
<1>1. CASE fn = "="
  <2>1. c = [row \in Rows |-> Known(row[path] = NULL)]
    BY <1>0, <1>1 DEF ApplyComparator
  <2> HIDE DEF c
  <2> SUFFICES ASSUME NEW row \in Rows
               PROVE  Sound(c, row, Says(fn, path, e, row), Denies(fn, path, e, row)) /\ c[row] # "unknown"
    BY DEF States, c
  <2>2. c[row] = Known(row[path] = NULL)
    BY <2>1
  <2>3. Says(fn, path, e, row) <=> row[path] = NULL
    BY <1>1, SaysNull
  <2>4. Denies(fn, path, e, row) <=> row[path] # NULL
    BY <1>1, SaysNull, Opposites
  <2> QED
    BY <2>2, <2>3, <2>4 DEF Sound, Known, Truth
<1>2. CASE fn = "!="
  <2>1. c = [row \in Rows |-> Known(row[path] # NULL)]
    BY <1>0, <1>2 DEF ApplyComparator
  <2> HIDE DEF c
  <2> SUFFICES ASSUME NEW row \in Rows
               PROVE  Sound(c, row, Says(fn, path, e, row), Denies(fn, path, e, row)) /\ c[row] # "unknown"
    BY DEF States, c
  <2>2. c[row] = Known(row[path] # NULL)
    BY <2>1
  <2>3. Says(fn, path, e, row) <=> row[path] # NULL
    BY <1>2, SaysNull
  <2>4. Denies(fn, path, e, row) <=> row[path] = NULL
    BY <1>2, SaysNull, Opposites
  <2> QED
    BY <2>2, <2>3, <2>4 DEF Sound, Known, Truth
<1> QED
  BY <1>1, <1>2 DEF ApplyComparator

\* A comparison of an array with a text (stringArrayOp).
LEMMA ArrayComparisons ==
    ASSUME NEW path, NEW e, NEW fn, ~IsNullLiteral(e), Fields[path] = "array", StringArrayOp(fn, path, e) # <<>>
    PROVE  States(StringArrayOp(fn, path, e)[1], fn, path, e)
<1> DEFINE c == StringArrayOp(fn, path, e)[1]
           lit == StringLiteral(e)[1]
           elem == [row \in Rows |-> EqualsAny(row[path], lit)]
<1>0. \A z : <<z>> # <<>> /\ <<z>>[1] = z
  OBVIOUS
<1>1. lit = Literal("array", e)[1] /\ StringLiteral(e) # <<>>
  BY DEF Literal, StringArrayOp
<1>2. fn \in {"=", ":", "!="}
  BY DEF StringArrayOp
<1>3. \A row \in Rows : elem[row] = EqualsAny(row[path], lit)
  OBVIOUS
<1>4. /\ fn \in {"=", ":"} => StringArrayOp(fn, path, e) = <<elem>>
      /\ fn = "!=" => StringArrayOp(fn, path, e) = Negation(<<elem>>)
  BY <1>1 DEF StringArrayOp
<1> HIDE DEF elem
<1>5. \A row \in Rows : c[row] = IF fn = "!=" THEN NotSQL(elem[row]) ELSE elem[row]
  <2>1. CASE fn = "!="
    <3>1. c = [row \in Rows |-> NotSQL(elem[row])]
      BY <1>0, <1>4, <2>1 DEF Negation
    <3> HIDE DEF c
    <3> QED
      BY <2>1, <3>1
  <2>2. CASE fn # "!="
    <3>1. c = elem
      BY <1>0, <1>2, <1>4, <2>2
    <3> HIDE DEF c
    <3> QED
      BY <2>2, <3>1
  <2> QED
    BY <2>1, <2>2
<1> HIDE DEF c, lit
<1> SUFFICES ASSUME NEW row \in Rows
             PROVE  /\ Sound(c, row, Says(fn, path, e, row), Denies(fn, path, e, row))
                    /\ row[path] # NULL /\ (Fields[path] = "array" => ElementsKnown(row[path])) => c[row] # "unknown"
  BY DEF States, c
<1> DEFINE Has == row[path] # NULL /\ \E i \in DOMAIN row[path] : row[path][i] = lit
           Lacks == row[path] # NULL /\ \A i \in DOMAIN row[path] : row[path][i] \notin {lit, NULL}
<1>6. /\ elem[row] \in Truth
      /\ elem[row] = "true" <=> Has
      /\ elem[row] = "false" <=> Lacks
      /\ row[path] # NULL /\ ElementsKnown(row[path]) => elem[row] # "unknown"
  <2>1. CASE row[path] = NULL
    BY <1>3, <2>1 DEF EqualsAny, Truth
  <2>2. CASE Has
    BY <1>3, <2>2 DEF EqualsAny, Truth
  <2>3. CASE row[path] # NULL /\ ~Has /\ ElementsKnown(row[path])
    BY <1>3, <2>3 DEF EqualsAny, Truth, ElementsKnown
  <2>4. CASE row[path] # NULL /\ ~Has /\ ~ElementsKnown(row[path])
    BY <1>3, <2>4 DEF EqualsAny, Truth, ElementsKnown
  <2> QED
    BY <2>1, <2>2, <2>3, <2>4
<1>7. /\ fn \in {"=", ":"} => (Says(fn, path, e, row) <=> Has) /\ (Denies(fn, path, e, row) <=> Lacks)
      /\ fn = "!=" => (Says(fn, path, e, row) <=> Lacks) /\ (Denies(fn, path, e, row) <=> Has)
  <2>1. /\ Says("!=", path, e, row) <=> Lacks
        /\ Says("=", path, e, row) <=> Has
        /\ Says(":", path, e, row) <=> Has
    BY <1>1, SaysArray
  <2>2. /\ Denies("=", path, e, row) <=> Lacks
        /\ Denies(":", path, e, row) <=> Lacks
        /\ Denies("!=", path, e, row) <=> Has
    BY <2>1, Opposites
  <2> HIDE DEF Has, Lacks
  <2> QED
    BY <2>1, <2>2
<1> HIDE DEF Has, Lacks
<1>8. CASE fn = "!="
  <2>1. c[row] = NotSQL(elem[row])
    BY <1>5, <1>8
  <2> QED
    BY <1>6, <1>7, <1>8, <2>1 DEF NotSQL, Truth, Sound
<1>9. CASE fn # "!="
  <2>1. c[row] = elem[row]
    BY <1>5, <1>9
  <2> QED
    BY <1>2, <1>6, <1>7, <1>9, <2>1 DEF Truth, Sound
<1> QED
  BY <1>8, <1>9

\* A comparison of a number, a text, a boolean or an instant (applyComparator).
LEMMA PlainComparisons ==
    ASSUME NEW path, NEW e, NEW fn \in Relations, NEW fns, NEW kind, ~IsNullLiteral(e), kind = Fields[path], kind # "array",
           fn \notin {"=", "!="} => kind \in {"string", "integer", "float", "time"},
           \A row \in Rows : row[path] = NULL \/ Typed(kind, row[path]),
           e.kind = "const" => Typed(e.type, e.value),
           Plain(fn, path, kind, Literal(kind, e), fns) # <<>>
    PROVE  States(Plain(fn, path, kind, Literal(kind, e), fns)[1], fn, path, e)
<1> DEFINE c == Plain(fn, path, kind, Literal(kind, e), fns)[1]
           lit == Literal(kind, e)[1]
<1>0. \A z : <<z>> # <<>> /\ <<z>>[1] = z
  OBVIOUS
<1>1. Literal(kind, e) # <<>> /\ c = [row \in Rows |-> Compare(fn, kind, row[path], lit)]
  BY <1>0 DEF Plain
<1>2. fn \notin {"=", "!="} => \/ kind = "string" /\ lit \in Seq(Characters)
                               \/ kind # "string" /\ lit \in Int
  BY <1>1, LiteralTyped
<1> HIDE DEF c
<1> SUFFICES ASSUME NEW row \in Rows
             PROVE  /\ Sound(c, row, Says(fn, path, e, row), Denies(fn, path, e, row))
                    /\ row[path] # NULL => c[row] # "unknown"
  BY DEF States, c
<1>3. c[row] = Compare(fn, kind, row[path], lit)
  BY <1>1
<1>4. CASE row[path] = NULL
  <2>1. c[row] = "unknown"
    BY <1>3, <1>4 DEF Compare
  <2>2. ~Says(fn, path, e, row) /\ ~Denies(fn, path, e, row)
    <3>1. \A x \in Relations : ~Says(x, path, e, row)
      BY <1>4, SaysPlain DEF Relations, Orderings
    <3> QED
      BY <3>1, Opposites DEF Relations, Orderings
  <2> QED
    BY <1>4, <2>1, <2>2 DEF Sound, Truth
<1>5. CASE row[path] # NULL
  <2> DEFINE v == row[path]
             Less == Relates("<", kind, v, lit)
             More == Relates(">", kind, v, lit)
  <2>1. fn \notin {"=", "!="} => \/ kind = "string" /\ v \in Seq(Characters) /\ lit \in Seq(Characters)
                                 \/ kind # "string" /\ v \in Int /\ lit \in Int
    BY <1>2, <1>5 DEF Typed
  <2>2. /\ fn = "=" => c[row] = Known(v = lit)
        /\ fn = "!=" => c[row] = Known(~(v = lit))
        /\ fn = "<" => c[row] = Known(Less)
        /\ fn = ">" => c[row] = Known(More)
        /\ fn = "<=" => c[row] = Known(~More)
        /\ fn = ">=" => c[row] = Known(~Less)
    BY <1>3, <1>5, <2>1, CompareMeaning
  <2>3. /\ Says("=", path, e, row) <=> v = lit
        /\ Says("!=", path, e, row) <=> ~(v = lit)
        /\ Says("<", path, e, row) <=> Less
        /\ Says(">", path, e, row) <=> More
        /\ Says("<=", path, e, row) <=> ~More
        /\ Says(">=", path, e, row) <=> ~Less
    BY <1>5, SaysPlain
  <2> HIDE DEF v, Less, More
  <2>4. /\ Denies("=", path, e, row) <=> ~(v = lit)
        /\ Denies("!=", path, e, row) <=> v = lit
        /\ Denies("<", path, e, row) <=> ~Less
        /\ Denies(">", path, e, row) <=> ~More
        /\ Denies("<=", path, e, row) <=> More
        /\ Denies(">=", path, e, row) <=> Less
    BY <2>3, Opposites
  <2>5. fn \in {"=", "!=", "<", ">", "<=", ">="}
    BY DEF Relations, Orderings
  <2>6. \A b : (Known(b) = "true" <=> b) /\ (Known(b) = "false" <=> ~b) /\ Known(b) \in Truth /\ Known(b) # "unknown"
    BY DEF Known, Truth
  <2>7. CASE fn = "="
    BY <2>2, <2>3, <2>4, <2>6, <2>7 DEF Sound
  <2>8. CASE fn = "!="
    BY <2>2, <2>3, <2>4, <2>6, <2>8 DEF Sound
  <2>9. CASE fn = "<"
    BY <2>2, <2>3, <2>4, <2>6, <2>9 DEF Sound
  <2>10. CASE fn = ">"
    BY <2>2, <2>3, <2>4, <2>6, <2>10 DEF Sound
  <2>11. CASE fn = "<="
    BY <2>2, <2>3, <2>4, <2>6, <2>11 DEF Sound
  <2>12. CASE fn = ">="
    BY <2>2, <2>3, <2>4, <2>6, <2>12 DEF Sound
  <2> QED
    BY <2>5, <2>7, <2>8, <2>9, <2>10, <2>11, <2>12
<1> QED
  BY <1>4, <1>5

\* The "has" operator on a text (stringOp).
LEMMA HasComparisons ==
    ASSUME NEW path, NEW e, ~IsNullLiteral(e), Fields[path] = "string",
           \A row \in Rows : row[path] = NULL \/ row[path] \in Seq(Characters),
           e.kind = "const" => Typed(e.type, e.value),
           StringLiteral(e) # <<>>
    PROVE  StringOp(":", path, e) # <<>> /\ States(StringOp(":", path, e)[1], ":", path, e)
<1> DEFINE c == StringOp(":", path, e)[1]
           lit == StringLiteral(e)[1]
<1>0. \A z : <<z>> # <<>> /\ <<z>>[1] = z
  OBVIOUS
<1>1. StringOp(":", path, e) # <<>> /\ c = [row \in Rows |-> HasText(row[path], lit)]
  BY <1>0 DEF StringOp
<1>2. StringLiteral(e) = Literal("string", e)
  BY DEF Literal
<1>3. lit = Literal("string", e)[1] /\ lit \in Seq(Characters)
  BY <1>2, LiteralTyped
<1> HIDE DEF c, lit
<1> SUFFICES ASSUME NEW row \in Rows
             PROVE  /\ Sound(c, row, Says(":", path, e, row), Denies(":", path, e, row))
                    /\ row[path] # NULL => c[row] # "unknown"
  BY <1>1 DEF States, c
<1>4. c[row] = HasText(row[path], lit)
  BY <1>1
<1>5. /\ Says(":", path, e, row) <=> row[path] # NULL /\ Occurs(row[path], lit)
      /\ Denies(":", path, e, row) <=> row[path] # NULL /\ ~Says(":", path, e, row)
  BY <1>3, SaysPlain, Opposites
<1>6. CASE row[path] = NULL
  <2>1. c[row] = "unknown"
    BY <1>4, <1>6 DEF HasText
  <2> QED
    BY <1>5, <1>6, <2>1 DEF Sound, Truth
<1>7. CASE row[path] # NULL
  <2>1. c[row] = Known(Occurs(row[path], lit))
    BY <1>3, <1>4, <1>7, HasTextMeaning
  <2> QED
    BY <1>5, <1>7, <2>1 DEF Sound, Truth, Known
<1> QED
  BY <1>6, <1>7

\* applyComparator translates the comparisons the header lists, and its condition states them.
LEMMA ComparatorMeaning ==
    ASSUME NEW e, e.kind = "const" => Typed(e.type, e.value), NEW path \in DOMAIN Fields, NEW fn \in Relations \cup {":"}
    PROVE  LET kind == Fields[path] c == ApplyComparator(fn, path, kind, e)
           IN /\ c # <<>> <=> fn \in Operators(kind, e) /\ (IsNullLiteral(e) \/ Literal(kind, e) # <<>>)
              /\ c # <<>> => States(c[1], fn, path, e)
<1> DEFINE kind == Fields[path]
           c == ApplyComparator(fn, path, kind, e)
           lit == Literal(kind, e)
           Six == {"=", "!="} \cup Orderings
<1>0. \A z : <<z>> # <<>>
  OBVIOUS
<1>1. \A row \in Rows : row[path] = NULL \/ Typed(kind, row[path])
  BY RowsAssumption
<1>2. CASE IsNullLiteral(e)
  <2>1. c # <<>> <=> fn \in {"=", "!="}
    BY <1>0, <1>2 DEF ApplyComparator
  <2>2. Operators(kind, e) = {"=", "!="}
    BY <1>2 DEF Operators
  <2> QED
    BY <1>2, <2>1, <2>2, NullComparisons
<1>3. CASE ~IsNullLiteral(e) /\ kind = "array"
  <2>1. c = StringArrayOp(fn, path, e)
    BY <1>3 DEF ApplyComparator
  <2>2. lit = StringLiteral(e) /\ Operators(kind, e) = {"=", "!=", ":"}
    BY <1>3 DEF Literal, Operators
  <2>3. c # <<>> <=> lit # <<>> /\ fn \in {"=", "!=", ":"}
    BY <1>0, <2>1, <2>2 DEF StringArrayOp, Negation
  <2> QED
    BY <1>3, <2>1, <2>2, <2>3, ArrayComparisons
<1> HIDE DEF kind
<1>4. ASSUME ~IsNullLiteral(e), kind # "array", NEW fns, c = Plain(fn, path, kind, lit, fns), fns \in {{"=", "!="}, Six},
             fns = Six => kind \in {"string", "integer", "float", "time"},
             fn \in fns \/ fn \notin Operators(kind, e),
             fn \notin fns \/ fn \in Operators(kind, e)
      PROVE  /\ c # <<>> <=> fn \in Operators(kind, e) /\ (IsNullLiteral(e) \/ lit # <<>>)
             /\ c # <<>> => States(c[1], fn, path, e)
  <2>1. c # <<>> <=> fn \in fns /\ lit # <<>>
    BY <1>0, <1>4 DEF Plain
  <2>2. ASSUME c # <<>> PROVE States(c[1], fn, path, e)
    <3>1. fn \in fns /\ fns \subseteq Relations
      BY <1>4, <2>1, <2>2 DEF Relations
    <3>2. fn \in Relations /\ (fn \notin {"=", "!="} => kind \in {"string", "integer", "float", "time"})
      BY <1>4, <3>1
    <3>3. kind = Fields[path]
      BY DEF kind
    <3> HIDE DEF c, lit
    <3>4. c = Plain(fn, path, kind, Literal(kind, e), fns)
      BY <1>4 DEF lit
    <3> QED
      BY <1>1, <1>4, <2>2, <3>2, <3>3, <3>4, PlainComparisons
  <2> QED
    BY <1>4, <2>1, <2>2
<1>5. CASE ~IsNullLiteral(e) /\ kind = "string"
  <2>1. c = StringOp(fn, path, e) /\ lit = StringLiteral(e) /\ Operators(kind, e) = {"=", "!=", ":"} \cup Orderings
    BY <1>5 DEF ApplyComparator, Literal, Operators
  <2>2. CASE fn = ":" /\ lit # <<>>
    <3>1. \A row \in Rows : row[path] = NULL \/ row[path] \in Seq(Characters)
      BY <1>1, <1>5 DEF Typed
    <3>2. Fields[path] = "string" /\ StringLiteral(e) # <<>>
      BY <1>5, <2>1, <2>2 DEF kind
    <3>3. StringOp(":", path, e) # <<>> /\ States(StringOp(":", path, e)[1], ":", path, e)
      BY <1>5, <3>1, <3>2, HasComparisons
    <3>4. c # <<>> /\ States(c[1], fn, path, e) /\ fn \in Operators(kind, e) /\ lit # <<>>
      BY <2>1, <2>2, <3>3
    <3> QED
      BY <3>4 DEF kind
  <2>3. CASE ~(fn = ":" /\ lit # <<>>)
    <3>1. c = Plain(fn, path, kind, lit, Six)
      BY <1>5, <2>1, <2>3 DEF StringOp
    <3>2. CASE fn # ":"
      <4>1. fn \in Six /\ fn \in Operators(kind, e)
        BY <2>1, <3>2 DEF Relations
      <4> QED
        BY <1>4, <1>5, <3>1, <4>1 DEF kind
    <3>3. CASE fn = ":"
      <4>1. c = <<>> /\ lit = <<>>
        BY <2>3, <3>1, <3>3 DEF Plain
      <4> QED
        BY <1>5, <4>1 DEF kind
    <3> QED
      BY <3>2, <3>3
  <2> QED
    BY <2>2, <2>3
<1>6. CASE ~IsNullLiteral(e) /\ kind = "bool"
  <2>1. c = Plain(fn, path, kind, lit, {"=", "!="}) /\ Operators(kind, e) = {"=", "!="}
    BY <1>6 DEF ApplyComparator, Literal, Operators
  <2>2. {"=", "!="} # Six
    BY DEF Orderings
  <2> QED
    BY <1>4, <1>6, <2>1, <2>2 DEF kind
<1>7. CASE ~IsNullLiteral(e) /\ kind \in {"integer", "float", "time"}
  <2>1. Operators(kind, e) = Six
    BY <1>7 DEF Operators
  <2>2. c = Plain(fn, path, kind, lit, Six)
    <3>1. CASE kind = "integer"
      BY <1>7, <3>1 DEF ApplyComparator, Literal
    <3>2. CASE kind = "float"
      BY <1>7, <3>2 DEF ApplyComparator, Literal
    <3>3. CASE kind = "time"
      BY <1>7, <3>3 DEF ApplyComparator, Literal
    <3> QED
      BY <1>7, <3>1, <3>2, <3>3
  <2> QED
    BY <1>4, <1>7, <2>1, <2>2 DEF kind
<1>8. CASE ~IsNullLiteral(e) /\ kind \notin {"string", "array", "bool", "integer", "float", "time"}
  <2>1. c = <<>> /\ lit = <<>>
    BY <1>8 DEF ApplyComparator, Literal
  <2> QED
    BY <1>8, <2>1 DEF kind
<1>9. /\ c # <<>> <=> fn \in Operators(kind, e) /\ (IsNullLiteral(e) \/ Literal(kind, e) # <<>>)
      /\ c # <<>> => States(c[1], fn, path, e)
  BY <1>2, <1>3, <1>5, <1>6, <1>7, <1>8 DEF kind
<1> QED
  BY <1>9 DEF kind

\* The translation of a comparison: there is one exactly if the comparison is
\* listed, and it states the comparison (Comparison, translate).
LEMMA ComparisonMeaning ==
    ASSUME NEW e \in Comparisons, NEW below
    PROVE  /\ Translate(e, below) # <<>> <=> Listed(e)
           /\ Listed(e) => /\ e.kind = "call" /\ e.fn \in Relations \cup {":"}
                           /\ FlattenIdent(e.args[1])[1] \in DOMAIN Fields
                           /\ States(Translate(e, below)[1], e.fn, FlattenIdent(e.args[1])[1], e.args[2])
<1> DEFINE found == FlattenIdent(e.args[1])
           path == found[1]
           lit == e.args[2]
           c == ApplyComparator(e.fn, path, Fields[path], lit)
<1>1. e.kind = "call" => ~(e.fn \in Connectives)
  BY FilterAssumption DEF IsConnective
<1>2. CASE ~(e.kind = "call" /\ e.fn \in Relations \cup {":"})
  <2>1. ~Listed(e)
    BY <1>2 DEF Listed, Relations
  <2>2. Translate(e, below) = <<>>
    BY <1>1, <1>2 DEF Translate, Relations, Connectives
  <2> QED
    BY <2>1, <2>2
<1>3. CASE e.kind = "call" /\ e.fn \in Relations \cup {":"}
  <2>1. Translate(e, below) = Comparison(e.fn, e.args)
    BY <1>3 DEF Translate, Relations, Orderings
  <2> HIDE DEF found, lit
  <2>2. CASE ~(Len(e.args) = 2 /\ found # <<>> /\ path \in DOMAIN Fields)
    <3>1. Comparison(e.fn, e.args) = <<>>
      BY <2>2 DEF Comparison, found
    <3>2. ~Listed(e)
      BY <2>2 DEF Listed, found
    <3> QED
      BY <2>1, <3>1, <3>2
  <2>3. CASE Len(e.args) = 2 /\ found # <<>> /\ path \in DOMAIN Fields
    <3>1. Comparison(e.fn, e.args) = c
      BY <2>3 DEF Comparison, found, lit
    <3>2. Listed(e) <=> e.fn \in Operators(Fields[path], lit) /\ (IsNullLiteral(lit) \/ Literal(Fields[path], lit) # <<>>)
      BY <1>3, <2>3 DEF Listed, found, lit, Relations
    <3>3. lit.kind = "const" => Typed(lit.type, lit.value)
      <4>1. /\ e.args \in Seq(Range(e.args))
            /\ \A i \in DOMAIN e.args : e.args[i].kind = "const" => Typed(e.args[i].type, e.args[i].value)
        BY <1>3, FilterAssumption
      <4>2. 2 \in DOMAIN e.args
        BY <2>3, <4>1, SeqIsSeq
      <4> QED
        BY <4>1, <4>2 DEF lit
    <3>4. /\ c # <<>> <=> Listed(e)
          /\ c # <<>> => States(c[1], e.fn, path, lit)
      <4> HIDE DEF path
      <4>1. path \in DOMAIN Fields
        BY <2>3 DEF path
      <4> QED
        BY <1>3, <3>2, <3>3, <4>1, ComparatorMeaning
    <3>5. /\ Translate(e, below) # <<>> <=> Listed(e)
          /\ Listed(e) => path \in DOMAIN Fields /\ States(Translate(e, below)[1], e.fn, path, lit)
      BY <2>1, <2>3, <3>1, <3>4
    <3> QED
      BY <1>3, <3>5 DEF found, lit
  <2> QED
    BY <2>2, <2>3
<1> QED
  BY <1>2, <1>3

---------------------------------------------------------------------------
(* Conjunctions and disjunctions *)

(* What the loop of Joined has after i terms. *)
Loop(acc, fn, terms, i) ==
    CASE i = 0  -> NoPredicate
      [] i = 1  -> terms[1][1]
      [] OTHER  -> [row \in Rows |-> IF fn = "AND" THEN AndSQL(acc[i - 1][row], terms[i][1][row])
                                                   ELSE OrSQL(acc[i - 1][row], terms[i][1][row])]

\* The loop of Joined computes what it says.
LEMMA LoopExists ==
    ASSUME NEW fn, NEW terms, NEW n \in Nat
    PROVE  \E acc : acc = [i \in 0..n |-> Loop(acc, fn, terms, i)]
<1> DEFINE Done(k) == \E f : f = [i \in 0..k |-> Loop(f, fn, terms, i)]
           T == { k \in 0..n : ~Done(k) }
<1>1. T = {}
  <2> SUFFICES ASSUME T # {} PROVE FALSE
    OBVIOUS
  <2>1. PICK k \in T : \A y \in T : k <= y
    <3>1. T \subseteq Nat
      OBVIOUS
    <3> HIDE DEF T
    <3> QED
      BY <3>1, NatLeast
  <2>2. k \in 0..n /\ ~Done(k)
    BY <2>1
  <2>3. CASE k = 0
    <3> DEFINE f == [i \in 0..0 |-> NoPredicate]
    <3>1. \A i \in 0..0 : Loop(f, fn, terms, i) = NoPredicate
      BY DEF Loop
    <3>2. f = [i \in 0..0 |-> Loop(f, fn, terms, i)]
      BY <3>1
    <3> HIDE DEF f
    <3> QED
      BY <2>2, <2>3, <3>2
  <2>4. CASE k # 0
    <3>1. k - 1 \in 0..n /\ k - 1 \notin T
      <4>1. k - 1 \in 0..n /\ ~(k <= k - 1)
        BY <2>2, <2>4
      <4> HIDE DEF T
      <4> QED
        BY <4>1, <2>1
    <3>2. PICK f : f = [i \in 0..(k - 1) |-> Loop(f, fn, terms, i)]
      BY <3>1
    <3> DEFINE h == [i \in 0..k |-> IF i = k THEN Loop(f, fn, terms, k) ELSE f[i]]
    <3>3. \A i \in 0..(k - 1) : f[i] = Loop(f, fn, terms, i) /\ h[i] = f[i]
      <4>1. \A i \in 0..(k - 1) : f[i] = Loop(f, fn, terms, i)
        BY <3>2
      <4>2. \A i \in 0..(k - 1) : i \in 0..k /\ i # k
        BY <2>2
      <4> QED
        BY <4>1, <4>2
    <3>4. h[k] = Loop(f, fn, terms, k) /\ k \in 0..k
      BY <2>2
    <3>5. h = [i \in 0..k |-> h[i]]
      OBVIOUS
    <3> HIDE DEF h
    <3>6. \A i \in 0..k : Loop(h, fn, terms, i) = Loop(f, fn, terms, i)
      <4> SUFFICES ASSUME NEW i \in 0..k PROVE Loop(h, fn, terms, i) = Loop(f, fn, terms, i)
        OBVIOUS
      <4>1. i # 0 => h[i - 1] = f[i - 1]
        BY <2>2, <3>3
      <4> QED
        BY <4>1 DEF Loop
    <3>7. \A i \in 0..k : h[i] = Loop(h, fn, terms, i)
      <4>1. \A i \in 0..k : i = k \/ i \in 0..(k - 1)
        BY <2>2
      <4> QED
        BY <3>3, <3>4, <3>6, <4>1
    <3>8. h = [i \in 0..k |-> Loop(h, fn, terms, i)]
      BY <3>5, <3>7
    <3> QED
      BY <2>2, <3>8
  <2> QED
    BY <2>3, <2>4
<1> QED
  BY <1>1

\* A conjunction is true exactly if all its terms are and false exactly if one
\* is false, a disjunction the other way round, NULLs or not (andOf, orOf).
LEMMA JoinedMeaning ==
    ASSUME NEW fn \in {"AND", "OR"}, NEW terms, IsSeq(terms), terms # <<>>, NEW row \in Rows,
           \A i \in 1..Len(terms) : terms[i][1][row] \in Truth
    PROVE  /\ Joined(fn, terms)[row] \in Truth
           /\ fn = "AND" => /\ Joined(fn, terms)[row] = "true" <=> \A i \in 1..Len(terms) : terms[i][1][row] = "true"
                            /\ Joined(fn, terms)[row] = "false" <=> \E i \in 1..Len(terms) : terms[i][1][row] = "false"
           /\ fn = "OR" => /\ Joined(fn, terms)[row] = "true" <=> \E i \in 1..Len(terms) : terms[i][1][row] = "true"
                           /\ Joined(fn, terms)[row] = "false" <=> \A i \in 1..Len(terms) : terms[i][1][row] = "false"
<1> DEFINE n == Len(terms)
           acc == CHOOSE acc : acc = [i \in 0..n |-> Loop(acc, fn, terms, i)]
           v(i) == terms[i][1][row]
<1>1. n \in Nat /\ n # 0
  BY SeqIsSeq, EmptySeq DEF IsSeq
<1>2. acc = [i \in 0..n |-> Loop(acc, fn, terms, i)]
  BY <1>1, LoopExists
<1>3. Joined(fn, terms) = acc[n]
  BY DEF Joined, Loop
<1> HIDE DEF acc, n
<1>4. \A i \in 0..n : acc[i] = Loop(acc, fn, terms, i)
  BY <1>2
<1>5. acc[1][row] = v(1)
  <2>1. 1 \in 0..n
    BY <1>1
  <2>2. Loop(acc, fn, terms, 1) = terms[1][1]
    BY DEF Loop
  <2> QED
    BY <1>4, <2>1, <2>2
<1>6. \A i \in 2..n : acc[i][row] = IF fn = "AND" THEN AndSQL(acc[i - 1][row], v(i)) ELSE OrSQL(acc[i - 1][row], v(i))
  <2> SUFFICES ASSUME NEW i \in 2..n
               PROVE  acc[i][row] = IF fn = "AND" THEN AndSQL(acc[i - 1][row], v(i)) ELSE OrSQL(acc[i - 1][row], v(i))
    OBVIOUS
  <2>1. i \in 0..n /\ i # 0 /\ i # 1
    BY <1>1
  <2>2. Loop(acc, fn, terms, i) = [r \in Rows |-> IF fn = "AND" THEN AndSQL(acc[i - 1][r], terms[i][1][r])
                                                               ELSE OrSQL(acc[i - 1][r], terms[i][1][r])]
    BY <2>1 DEF Loop
  <2> QED
    BY <1>4, <2>1, <2>2
<1>7. \A i \in 1..n : v(i) \in Truth
  BY DEF n
<1> DEFINE a(i) == acc[i][row]
           Holds(i) ==
             /\ a(i) \in Truth
             /\ fn = "AND" => /\ a(i) = "true" <=> \A j \in 1..i : v(j) = "true"
                              /\ a(i) = "false" <=> \E j \in 1..i : v(j) = "false"
             /\ fn = "OR" => /\ a(i) = "true" <=> \E j \in 1..i : v(j) = "true"
                             /\ a(i) = "false" <=> \A j \in 1..i : v(j) = "false"
           T == { i \in 1..n : ~Holds(i) }
<1>8. T = {}
  <2> SUFFICES ASSUME T # {} PROVE FALSE
    OBVIOUS
  <2>1. PICK k \in T : \A y \in T : k <= y
    <3>1. T \subseteq Nat
      OBVIOUS
    <3> HIDE DEF T
    <3> QED
      BY <3>1, NatLeast
  <2>2. k \in 1..n /\ ~Holds(k)
    BY <2>1
  <2>3. CASE k = 1
    <3>1. \A j : j \in 1..k <=> j = 1
      BY <2>3
    <3>2. a(k) = v(1) /\ v(1) \in Truth
      BY <1>1, <1>5, <1>7, <2>3
    <3> HIDE DEF v, a
    <3> QED
      BY <2>2, <3>1, <3>2
  <2>4. CASE k # 1
    <3>1. k - 1 \in 1..n /\ k - 1 \notin T
      <4>1. k - 1 \in 1..n /\ ~(k <= k - 1)
        <5>1. k \in 1..n
          BY <2>2
        <5> QED
          BY <1>1, <2>4, <5>1
      <4> HIDE DEF T
      <4> QED
        BY <4>1, <2>1
    <3>2. Holds(k - 1)
      BY <3>1
    <3>3. a(k) = IF fn = "AND" THEN AndSQL(a(k - 1), v(k)) ELSE OrSQL(a(k - 1), v(k))
      BY <1>6, <2>2, <2>4
    <3>4. v(k) \in Truth
      BY <1>7, <2>2
    <3>5. \A j : j \in 1..k <=> j \in 1..(k - 1) \/ j = k
      BY <2>2
    <3> HIDE DEF v, a
    <3>6. Holds(k)
      <4>1. CASE fn = "AND"
        <5>1. /\ a(k) \in Truth
              /\ a(k) = "true" <=> a(k - 1) = "true" /\ v(k) = "true"
              /\ a(k) = "false" <=> a(k - 1) = "false" \/ v(k) = "false"
          BY <3>2, <3>3, <3>4, <4>1 DEF AndSQL, Truth
        <5> QED
          BY <3>2, <3>5, <4>1, <5>1
      <4>2. CASE fn = "OR"
        <5>1. /\ a(k) \in Truth
              /\ a(k) = "true" <=> a(k - 1) = "true" \/ v(k) = "true"
              /\ a(k) = "false" <=> a(k - 1) = "false" /\ v(k) = "false"
          BY <3>2, <3>3, <3>4, <4>2 DEF OrSQL, AndSQL, NotSQL, Truth
        <5> QED
          BY <3>2, <3>5, <4>2, <5>1
      <4> QED
        BY <4>1, <4>2
    <3> QED
      BY <2>2, <3>6
  <2> QED
    BY <2>3, <2>4
<1>9. Holds(n)
  BY <1>1, <1>8
<1> QED
  BY <1>3, <1>9 DEF n

---------------------------------------------------------------------------
(* Trees *)

(* A node is a connective over nodes before it, or a comparison. *)
NodeInv(i) ==
    IF IsConnective(nodes[i])
    THEN /\ nodes[i].args \in Seq(1 .. i - 1) /\ nodes[i].args # <<>>
         /\ nodes[i].fn = "NOT" => Len(nodes[i].args) = 1
    ELSE nodes[i] \in Comparisons

NodesInv == IsSeq(nodes) /\ \A i \in 1..Len(nodes) : NodeInv(i)

\* The arguments of a connective are nodes before it.
LEMMA ArgumentsBefore ==
    ASSUME NEW i \in 1..Len(nodes), NodesInv, IsConnective(nodes[i])
    PROVE  LET args == nodes[i].args
           IN /\ IsSeq(args) /\ Len(args) \in Nat /\ Len(args) # 0 /\ DOMAIN args = 1..Len(args) /\ args # <<>>
              /\ \A k \in DOMAIN args : args[k] \in 1..(i - 1)
              /\ nodes[i].fn = "NOT" => Len(args) = 1
              /\ i \in Nat /\ 1..(i - 1) \subseteq 1..Len(nodes)
<1> DEFINE args == nodes[i].args
<1>1. args \in Seq(1 .. i - 1) /\ args # <<>> /\ (nodes[i].fn = "NOT" => Len(args) = 1)
  BY DEF NodesInv, NodeInv
<1>2. Len(nodes) \in Nat
  BY SeqIsSeq DEF NodesInv, IsSeq
<1> HIDE DEF args
<1>3. IsSeq(args) /\ DOMAIN args = 1..Len(args) /\ Len(args) \in Nat
  BY <1>1, SeqIsSeq
<1>4. \A k \in 1..Len(args) : args[k] \in 1..(i - 1)
  BY <1>1, ElementOfSeq
<1>5. Len(args) # 0
  BY <1>1, EmptySeq
<1>6. i \in Nat /\ 1..(i - 1) \subseteq 1..Len(nodes)
  BY <1>2
<1> QED
  BY <1>1, <1>3, <1>4, <1>5, <1>6 DEF args

\* The translation of a conjunction or disjunction joins those of its arguments.
LEMMA TranslateJoin ==
    ASSUME NEW e, NEW below, e.kind = "call", e.fn \in {"AND", "OR"}
    PROVE  Translate(e, below) = Join(e.fn, [k \in DOMAIN e.args |-> below[e.args[k]]])
<1> DEFINE terms == [k \in DOMAIN e.args |-> below[e.args[k]]]
<1>1. Translate(e, below) = CASE e.fn \in {"AND", "OR"} -> Join(e.fn, terms)
                              [] e.fn = "NOT" -> IF Len(e.args) # 1 THEN <<>> ELSE Negation(below[e.args[1]])
                              [] e.fn \in {"=", "!=", ":"} \cup Orderings -> Comparison(e.fn, e.args)
                              [] OTHER -> <<>>
  BY Zenon DEF Translate
<1> HIDE DEF terms
<1>2. e.fn \notin {"NOT", "=", "!=", ":"} \cup Orderings
  BY DEF Orderings
<1>3. Translate(e, below) = Join(e.fn, terms)
  BY <1>1, <1>2
<1> QED
  BY <1>3 DEF terms

\* The translation of a negation.
LEMMA TranslateNot ==
    ASSUME NEW e, NEW below, e.kind = "call", e.fn = "NOT", Len(e.args) = 1
    PROVE  Translate(e, below) = Negation(below[e.args[1]])
<1> DEFINE terms == [k \in DOMAIN e.args |-> below[e.args[k]]]
           negated == Negation(below[e.args[1]])
<1>1. Translate(e, below) = CASE e.fn \in {"AND", "OR"} -> Join(e.fn, terms)
                              [] e.fn = "NOT" -> IF Len(e.args) # 1 THEN <<>> ELSE negated
                              [] e.fn \in {"=", "!=", ":"} \cup Orderings -> Comparison(e.fn, e.args)
                              [] OTHER -> <<>>
  BY Zenon DEF Translate
<1> HIDE DEF terms, negated
<1>2. e.fn \notin {"AND", "OR", "=", "!=", ":"} \cup Orderings
  BY DEF Orderings
<1>3. Translate(e, below) = negated
  BY <1>1, <1>2
<1> QED
  BY <1>3 DEF negated

\* The translation of a node depends on those of its arguments alone.
LEMMA TranslateDepends ==
    ASSUME NEW e, NEW f, NEW g,
           IsConnective(e) => /\ \A k \in DOMAIN e.args : f[e.args[k]] = g[e.args[k]]
                              /\ e.fn = "NOT" => 1 \in DOMAIN e.args
    PROVE  Translate(e, f) = Translate(e, g)
<1>1. CASE IsConnective(e) /\ e.fn = "NOT"
  <2>1. f[e.args[1]] = g[e.args[1]]
    BY <1>1
  <2> QED
    BY <1>1, <2>1 DEF Translate
<1>2. CASE IsConnective(e) /\ e.fn # "NOT"
  <2>1. [k \in DOMAIN e.args |-> f[e.args[k]]] = [k \in DOMAIN e.args |-> g[e.args[k]]]
    BY <1>2
  <2>2. e.kind = "call" /\ e.fn \in {"AND", "OR"}
    BY <1>2 DEF IsConnective, Connectives
  <2>3. \A h : Translate(e, h) = Join(e.fn, [k \in DOMAIN e.args |-> h[e.args[k]]])
    BY <2>2, TranslateJoin
  <2> QED
    BY <2>1, <2>3
<1>3. CASE ~IsConnective(e)
  <2>1. e.kind = "call" => e.fn \notin {"AND", "OR", "NOT"}
    BY <1>3 DEF IsConnective, Connectives
  <2> QED
    BY <2>1 DEF Translate
<1> QED
  BY <1>1, <1>2, <1>3

\* The translation of a tree gives every node the translation its arguments make (translate).
LEMMA TranslationsMeaning ==
    ASSUME NodesInv
    PROVE  \A i \in 1..Len(nodes) : Translations(nodes)[i] = Translate(nodes[i], Translations(nodes))
<1> DEFINE n == Len(nodes)
           Done(k) == \E f : f = [i \in 1..k |-> Translate(nodes[i], f)]
           T == { k \in 0..n : ~Done(k) }
<1>1. n \in Nat /\ DOMAIN nodes = 1..n
  BY SeqIsSeq DEF NodesInv, IsSeq
<1>2. T = {}
  <2> SUFFICES ASSUME T # {} PROVE FALSE
    OBVIOUS
  <2>1. PICK k \in T : \A y \in T : k <= y
    <3>1. T \subseteq Nat
      OBVIOUS
    <3> HIDE DEF T
    <3> QED
      BY <3>1, NatLeast
  <2>2. k \in 0..n /\ ~Done(k)
    BY <2>1
  <2> HIDE DEF n
  <2>3. CASE k = 0
    <3> DEFINE f == [i \in 1..k |-> NoPredicate]
    <3>1. \A i : i \notin 1..k
      BY <2>3
    <3>2. f = [i \in 1..k |-> Translate(nodes[i], f)]
      BY <3>1
    <3> HIDE DEF f
    <3> QED
      BY <2>2, <3>2
  <2>4. CASE k # 0
    <3>1. k - 1 \in 0..n /\ k - 1 \notin T
      <4>1. k - 1 \in 0..n /\ ~(k <= k - 1)
        BY <1>1, <2>2, <2>4
      <4> HIDE DEF T
      <4> QED
        BY <4>1, <2>1
    <3>2. PICK f : f = [i \in 1..(k - 1) |-> Translate(nodes[i], f)]
      BY <3>1
    <3> DEFINE h == [i \in 1..k |-> IF i = k THEN Translate(nodes[k], f) ELSE f[i]]
    <3>3. \A i \in 1..(k - 1) : f[i] = Translate(nodes[i], f) /\ h[i] = f[i]
      <4>1. \A i \in 1..(k - 1) : f[i] = Translate(nodes[i], f)
        BY <3>2
      <4>2. \A i \in 1..(k - 1) : i \in 1..k /\ i # k
        BY <2>2
      <4> QED
        BY <4>1, <4>2
    <3>4. h[k] = Translate(nodes[k], f) /\ k \in 1..k
      BY <2>2, <2>4
    <3>5. h = [i \in 1..k |-> h[i]]
      OBVIOUS
    <3> HIDE DEF h
    <3>6. \A i \in 1..k : Translate(nodes[i], h) = Translate(nodes[i], f)
      <4> SUFFICES ASSUME NEW i \in 1..k PROVE Translate(nodes[i], h) = Translate(nodes[i], f)
        OBVIOUS
      <4>1. i \in 1..Len(nodes)
        BY <1>1, <2>2 DEF n
      <4>2. IsConnective(nodes[i]) => /\ \A j \in DOMAIN nodes[i].args : nodes[i].args[j] \in 1..(i - 1)
                                      /\ nodes[i].fn = "NOT" => 1 \in DOMAIN nodes[i].args
        BY <4>1, ArgumentsBefore
      <4>3. \A x \in 1..(i - 1) : x \in 1..(k - 1)
        BY <2>2
      <4>4. IsConnective(nodes[i]) => /\ \A j \in DOMAIN nodes[i].args : h[nodes[i].args[j]] = f[nodes[i].args[j]]
                                      /\ nodes[i].fn = "NOT" => 1 \in DOMAIN nodes[i].args
        BY <3>3, <4>2, <4>3
      <4> QED
        BY <4>4, TranslateDepends
    <3>7. \A i \in 1..k : h[i] = Translate(nodes[i], h)
      <4>1. \A i \in 1..k : i = k \/ i \in 1..(k - 1)
        BY <2>2
      <4> QED
        BY <3>3, <3>4, <3>6, <4>1
    <3>8. h = [i \in 1..k |-> Translate(nodes[i], h)]
      BY <3>5, <3>7
    <3> QED
      BY <2>2, <3>8
  <2> QED
    BY <2>3, <2>4
<1>3. Done(n)
  <2> HIDE DEF n
  <2> QED
    BY <1>1, <1>2
<1> DEFINE t == CHOOSE f : f = [i \in DOMAIN nodes |-> Translate(nodes[i], f)]
<1>4. t = [i \in DOMAIN nodes |-> Translate(nodes[i], t)]
  BY <1>1, <1>3
<1>5. Translations(nodes) = t
  BY DEF Translations
<1> HIDE DEF t
<1> QED
  BY <1>1, <1>4, <1>5

(* What a node says of a row, given what the nodes below it say. *)
Agree(agrees, e, row) ==
    [yes \in BOOLEAN |->
       CASE e.fn = "NOT" -> agrees[e.args[1]][~yes]
         [] e.fn \in {"AND", "OR"} ->
              IF (e.fn = "AND") = yes THEN \A k \in DOMAIN e.args : agrees[e.args[k]][yes]
                                      ELSE \E k \in DOMAIN e.args : agrees[e.args[k]][yes]
         [] OTHER -> LET path == FlattenIdent(e.args[1])[1]
                     IN IF yes THEN Says(e.fn, path, e.args[2], row) ELSE Denies(e.fn, path, e.args[2], row)]

\* What a node says depends on what its arguments say alone.
LEMMA AgreeDepends ==
    ASSUME NEW e, NEW f, NEW g, NEW row,
           e.fn \in Connectives => /\ \A k \in DOMAIN e.args : f[e.args[k]] = g[e.args[k]]
                                   /\ e.fn = "NOT" => 1 \in DOMAIN e.args
    PROVE  Agree(f, e, row) = Agree(g, e, row)
<1>1. CASE e.fn = "NOT"
  <2>1. f[e.args[1]] = g[e.args[1]]
    BY <1>1 DEF Connectives
  <2>2. \A h : Agree(h, e, row) = [yes \in BOOLEAN |-> h[e.args[1]][~yes]]
    BY <1>1 DEF Agree
  <2> QED
    BY <2>1, <2>2
<1>2. CASE e.fn \in {"AND", "OR"}
  <2>1. \A k \in DOMAIN e.args : f[e.args[k]] = g[e.args[k]]
    BY <1>2 DEF Connectives
  <2> DEFINE A(h, yes) == IF (e.fn = "AND") = yes THEN \A k \in DOMAIN e.args : h[e.args[k]][yes]
                                                  ELSE \E k \in DOMAIN e.args : h[e.args[k]][yes]
  <2>2. \A h : Agree(h, e, row) = [yes \in BOOLEAN |-> A(h, yes)]
    BY <1>2 DEF Agree
  <2>3. \A yes \in BOOLEAN : A(f, yes) = A(g, yes)
    BY <2>1, Zenon
  <2> HIDE DEF A
  <2> QED
    BY <2>2, <2>3
<1>3. CASE e.fn \notin Connectives
  <2>1. \A h : Agree(h, e, row) = [yes \in BOOLEAN |->
              LET path == FlattenIdent(e.args[1])[1]
              IN IF yes THEN Says(e.fn, path, e.args[2], row) ELSE Denies(e.fn, path, e.args[2], row)]
    BY <1>3 DEF Agree, Connectives
  <2> QED
    BY <2>1
<1> QED
  BY <1>1, <1>2, <1>3 DEF Connectives

\* Agreements gives every node what its arguments make of it.
LEMMA AgreementsMeaning ==
    ASSUME NodesInv, \A i \in 1..Len(nodes) : IsConnective(nodes[i]) \/ Listed(nodes[i]), NEW row
    PROVE  \A i \in 1..Len(nodes) : Agreements(row)[i] = Agree(Agreements(row), nodes[i], row)
<1> DEFINE n == Len(nodes)
           Done(k) == \E f : f = [i \in 1..k |-> Agree(f, nodes[i], row)]
           T == { k \in 0..n : ~Done(k) }
<1>1. n \in Nat /\ DOMAIN nodes = 1..n
  BY SeqIsSeq DEF NodesInv, IsSeq
<1>0. \A i \in 1..n : nodes[i].fn \in Connectives => IsConnective(nodes[i])
  BY DEF Listed, IsConnective
<1>2. T = {}
  <2> SUFFICES ASSUME T # {} PROVE FALSE
    OBVIOUS
  <2>1. PICK k \in T : \A y \in T : k <= y
    <3>1. T \subseteq Nat
      OBVIOUS
    <3> HIDE DEF T
    <3> QED
      BY <3>1, NatLeast
  <2>2. k \in 0..n /\ ~Done(k)
    BY <2>1
  <2> HIDE DEF n
  <2>3. CASE k = 0
    <3> DEFINE f == [i \in 1..k |-> NoPredicate]
    <3>1. \A i : i \notin 1..k
      BY <2>3
    <3>2. f = [i \in 1..k |-> Agree(f, nodes[i], row)]
      BY <3>1
    <3> HIDE DEF f
    <3> QED
      BY <2>2, <3>2
  <2>4. CASE k # 0
    <3>1. k - 1 \in 0..n /\ k - 1 \notin T
      <4>1. k - 1 \in 0..n /\ ~(k <= k - 1)
        BY <1>1, <2>2, <2>4
      <4> HIDE DEF T
      <4> QED
        BY <4>1, <2>1
    <3>2. PICK f : f = [i \in 1..(k - 1) |-> Agree(f, nodes[i], row)]
      BY <3>1
    <3> DEFINE h == [i \in 1..k |-> IF i = k THEN Agree(f, nodes[k], row) ELSE f[i]]
    <3>3. \A i \in 1..(k - 1) : f[i] = Agree(f, nodes[i], row) /\ h[i] = f[i]
      <4>1. \A i \in 1..(k - 1) : f[i] = Agree(f, nodes[i], row)
        BY <3>2
      <4>2. \A i \in 1..(k - 1) : i \in 1..k /\ i # k
        BY <2>2
      <4> QED
        BY <4>1, <4>2
    <3>4. h[k] = Agree(f, nodes[k], row) /\ k \in 1..k
      BY <2>2, <2>4
    <3>5. h = [i \in 1..k |-> h[i]]
      OBVIOUS
    <3> HIDE DEF h
    <3>6. \A i \in 1..k : Agree(h, nodes[i], row) = Agree(f, nodes[i], row)
      <4> SUFFICES ASSUME NEW i \in 1..k PROVE Agree(h, nodes[i], row) = Agree(f, nodes[i], row)
        OBVIOUS
      <4>1. i \in 1..n
        BY <1>1, <2>2
      <4>2. nodes[i].fn \in Connectives =>
                /\ \A j \in DOMAIN nodes[i].args : nodes[i].args[j] \in 1..(i - 1)
                /\ nodes[i].fn = "NOT" => 1 \in DOMAIN nodes[i].args
        BY <1>0, <4>1, ArgumentsBefore DEF n
      <4>3. \A x \in 1..(i - 1) : x \in 1..(k - 1)
        BY <2>2
      <4>4. nodes[i].fn \in Connectives =>
                /\ \A j \in DOMAIN nodes[i].args : h[nodes[i].args[j]] = f[nodes[i].args[j]]
                /\ nodes[i].fn = "NOT" => 1 \in DOMAIN nodes[i].args
        BY <3>3, <4>2, <4>3
      <4> QED
        BY <4>4, AgreeDepends
    <3>7. \A i \in 1..k : h[i] = Agree(h, nodes[i], row)
      <4>1. \A i \in 1..k : i = k \/ i \in 1..(k - 1)
        BY <2>2
      <4> QED
        BY <3>3, <3>4, <3>6, <4>1
    <3>8. h = [i \in 1..k |-> Agree(h, nodes[i], row)]
      BY <3>5, <3>7
    <3> QED
      BY <2>2, <3>8
  <2> QED
    BY <2>3, <2>4
<1>3. Done(n)
  <2> HIDE DEF n
  <2> QED
    BY <1>1, <1>2
<1> DEFINE t == CHOOSE f : f = [i \in DOMAIN nodes |-> Agree(f, nodes[i], row)]
<1>4. t = [i \in DOMAIN nodes |-> Agree(t, nodes[i], row)]
  BY <1>1, <1>3
<1>5. Agreements(row) = t
  BY DEF Agreements, Agree
<1> HIDE DEF t
<1> QED
  BY <1>1, <1>4, <1>5

\* Which nodes are translated: the connectives all of whose arguments are, and
\* the listed comparisons.
LEMMA NodeTranslated ==
    ASSUME NodesInv, NEW i \in 1..Len(nodes)
    PROVE  LET e == nodes[i] t == Translations(nodes)
           IN /\ IsConnective(e) => (t[i] # <<>> <=> \A k \in DOMAIN e.args : t[e.args[k]] # <<>>)
              /\ ~IsConnective(e) => (t[i] # <<>> <=> Listed(e))
<1> DEFINE e == nodes[i]
           t == Translations(nodes)
           terms == [k \in DOMAIN e.args |-> t[e.args[k]]]
<1>0. \A z : <<z>> # <<>>
  OBVIOUS
<1>1. t[i] = Translate(e, t)
  BY TranslationsMeaning
<1>2. CASE ~IsConnective(e)
  <2>1. e \in Comparisons
    BY <1>2 DEF NodesInv, NodeInv
  <2> HIDE DEF e, t
  <2>2. t[i] # <<>> <=> Listed(e)
    BY <1>1, <2>1, ComparisonMeaning
  <2> QED
    BY <1>2, <2>2 DEF e, t
<1>3. CASE IsConnective(e) /\ e.fn = "NOT"
  <2>1. DOMAIN e.args = 1..1
    BY <1>3, ArgumentsBefore
  <2>2. Len(e.args) = 1
    BY <1>3, ArgumentsBefore
  <2> HIDE DEF e, t
  <2>3. Translate(e, t) = Negation(t[e.args[1]])
    BY <1>3, <2>2, TranslateNot DEF IsConnective
  <2>4. t[i] # <<>> <=> t[e.args[1]] # <<>>
    BY <1>0, <1>1, <2>3 DEF Negation
  <2>5. t[i] # <<>> <=> \A k \in DOMAIN e.args : t[e.args[k]] # <<>>
    BY <2>1, <2>4
  <2> QED
    BY <1>3, <2>5 DEF e, t
<1>4. CASE IsConnective(e) /\ e.fn # "NOT"
  <2> HIDE DEF e, t
  <2>1. e.kind = "call" /\ e.fn \in {"AND", "OR"}
    BY <1>4 DEF IsConnective, Connectives
  <2>2. Translate(e, t) = Join(e.fn, terms)
    BY <2>1, TranslateJoin
  <2>3. DOMAIN terms = DOMAIN e.args /\ \A k \in DOMAIN terms : terms[k] = t[e.args[k]]
    OBVIOUS
  <2> HIDE DEF terms
  <2>4. t[i] # <<>> <=> \A k \in DOMAIN e.args : t[e.args[k]] # <<>>
    BY <1>0, <1>1, <2>2, <2>3 DEF Join
  <2> QED
    BY <1>4, <2>4 DEF e, t
<1> QED
  BY <1>2, <1>3, <1>4

(* Every node but the last is below another. *)
OneTree == \A i \in 1..Len(nodes) : \/ i = Len(nodes)
                                    \/ \E j \in 1..Len(nodes) : /\ i < j /\ IsConnective(nodes[j])
                                                                /\ \E k \in DOMAIN nodes[j].args : nodes[j].args[k] = i

AllListed == \A i \in 1..Len(nodes) : IsConnective(nodes[i]) \/ Listed(nodes[i])

\* A tree is translated exactly if all its comparisons are listed.
LEMMA WholeTranslated ==
    ASSUME NodesInv, OneTree, Len(nodes) # 0
    PROVE  /\ Translations(nodes)[Len(nodes)] # <<>> <=> AllListed
           /\ AllListed => \A i \in 1..Len(nodes) : Translations(nodes)[i] # <<>>
<1> DEFINE t == Translations(nodes)
           n == Len(nodes)
<1>1. n \in Nat /\ n # 0
  BY SeqIsSeq DEF NodesInv, IsSeq
<1>2. ASSUME NEW i \in 1..n
      PROVE  /\ IsConnective(nodes[i]) => (t[i] # <<>> <=> \A k \in DOMAIN nodes[i].args : t[nodes[i].args[k]] # <<>>)
             /\ ~IsConnective(nodes[i]) => (t[i] # <<>> <=> Listed(nodes[i]))
             /\ IsConnective(nodes[i]) => \A k \in DOMAIN nodes[i].args : nodes[i].args[k] \in 1..(i - 1)
  BY NodeTranslated, ArgumentsBefore
<1> HIDE DEF t
<1>3. ASSUME t[n] # <<>>
      PROVE  AllListed
  <2> DEFINE Bad == { i \in 1..n : t[i] = <<>> }
  <2>1. Bad = {}
    <3> SUFFICES ASSUME Bad # {} PROVE FALSE
      OBVIOUS
    <3>1. PICK i \in Bad : \A y \in Bad : y <= i
      <4>1. Bad \subseteq 0..n
        OBVIOUS
      <4> HIDE DEF Bad, n
      <4> QED
        BY <1>1, <4>1, NatGreatest
    <3>2. i \in 1..n /\ t[i] = <<>>
      BY <3>1
    <3>3. i # n
      BY <1>3, <3>2
    <3>4. PICK j \in 1..n : /\ i < j /\ IsConnective(nodes[j])
                            /\ \E k \in DOMAIN nodes[j].args : nodes[j].args[k] = i
      BY <3>2, <3>3 DEF OneTree
    <3>5. j \notin Bad
      BY <1>1, <3>1, <3>2, <3>4
    <3>6. t[j] # <<>>
      BY <3>4, <3>5
    <3> QED
      BY <1>2, <3>2, <3>4, <3>6
  <2>2. \A i \in 1..n : t[i] # <<>>
    BY <2>1
  <2> QED
    BY <1>2, <2>2 DEF AllListed
<1>4. ASSUME AllListed
      PROVE  \A i \in 1..n : t[i] # <<>>
  <2> DEFINE Bad == { i \in 1..n : t[i] = <<>> }
  <2>1. Bad = {}
    <3> SUFFICES ASSUME Bad # {} PROVE FALSE
      OBVIOUS
    <3>1. PICK i \in Bad : \A y \in Bad : i <= y
      <4>1. Bad \subseteq Nat
        OBVIOUS
      <4> HIDE DEF Bad
      <4> QED
        BY <4>1, NatLeast
    <3>2. i \in 1..n /\ t[i] = <<>>
      BY <3>1
    <3>3. IsConnective(nodes[i])
      BY <1>2, <1>4, <3>2 DEF AllListed
    <3>4. PICK k \in DOMAIN nodes[i].args : t[nodes[i].args[k]] = <<>> /\ nodes[i].args[k] \in 1..(i - 1)
      BY <1>2, <3>2, <3>3
    <3>5. \A x \in 1..(i - 1) : x \in 1..n /\ ~(i <= x)
      BY <1>1, <3>2
    <3>6. nodes[i].args[k] \in Bad /\ ~(i <= nodes[i].args[k])
      BY <3>4, <3>5
    <3> QED
      BY <3>1, <3>6
  <2> QED
    BY <2>1
<1>5. n \in 1..n
  BY <1>1
<1> QED
  BY <1>3, <1>4, <1>5 DEF t

\* What Agreements makes of a connective.
LEMMA AgreeConnective ==
    ASSUME NEW e, NEW f, NEW row
    PROVE  /\ e.fn = "NOT" => Agree(f, e, row)[TRUE] = f[e.args[1]][FALSE] /\ Agree(f, e, row)[FALSE] = f[e.args[1]][TRUE]
           /\ e.fn = "AND" => /\ Agree(f, e, row)[TRUE] <=> \A k \in DOMAIN e.args : f[e.args[k]][TRUE]
                              /\ Agree(f, e, row)[FALSE] <=> \E k \in DOMAIN e.args : f[e.args[k]][FALSE]
           /\ e.fn = "OR" => /\ Agree(f, e, row)[TRUE] <=> \E k \in DOMAIN e.args : f[e.args[k]][TRUE]
                             /\ Agree(f, e, row)[FALSE] <=> \A k \in DOMAIN e.args : f[e.args[k]][FALSE]
           /\ e.fn \notin Connectives => LET path == FlattenIdent(e.args[1])[1]
                                         IN /\ Agree(f, e, row)[TRUE] <=> Says(e.fn, path, e.args[2], row)
                                            /\ Agree(f, e, row)[FALSE] <=> Denies(e.fn, path, e.args[2], row)
<1>1. CASE e.fn = "NOT"
  <2>1. Agree(f, e, row) = [yes \in BOOLEAN |-> f[e.args[1]][~yes]]
    BY <1>1 DEF Agree
  <2>2. (~TRUE) = FALSE /\ (~FALSE) = TRUE
    OBVIOUS
  <2>3. Agree(f, e, row)[TRUE] = f[e.args[1]][~TRUE] /\ Agree(f, e, row)[FALSE] = f[e.args[1]][~FALSE]
    BY <2>1, Zenon
  <2> QED
    BY <1>1, <2>2, <2>3 DEF Connectives
<1>2. CASE e.fn \in {"AND", "OR"}
  <2> DEFINE A(yes) == IF (e.fn = "AND") = yes THEN \A k \in DOMAIN e.args : f[e.args[k]][yes]
                                               ELSE \E k \in DOMAIN e.args : f[e.args[k]][yes]
  <2>1. Agree(f, e, row) = [yes \in BOOLEAN |-> A(yes)]
    BY <1>2 DEF Agree
  <2> HIDE DEF A
  <2>2. Agree(f, e, row)[TRUE] = A(TRUE) /\ Agree(f, e, row)[FALSE] = A(FALSE)
    BY <2>1, Zenon
  <2>3. CASE e.fn = "AND"
    <3>1. A(TRUE) <=> \A k \in DOMAIN e.args : f[e.args[k]][TRUE]
      BY <2>3, Zenon DEF A
    <3>2. A(FALSE) <=> \E k \in DOMAIN e.args : f[e.args[k]][FALSE]
      BY <2>3, Zenon DEF A
    <3> QED
      BY <2>2, <2>3, <3>1, <3>2 DEF Connectives
  <2>4. CASE e.fn = "OR"
    <3>0. ~(e.fn = "AND")
      BY <2>4
    <3>1. A(TRUE) <=> \E k \in DOMAIN e.args : f[e.args[k]][TRUE]
      BY <3>0, Zenon DEF A
    <3>2. A(FALSE) <=> \A k \in DOMAIN e.args : f[e.args[k]][FALSE]
      BY <3>0, Zenon DEF A
    <3> QED
      BY <2>2, <2>4, <3>1, <3>2 DEF Connectives
  <2> QED
    BY <1>2, <2>3, <2>4
<1>3. CASE e.fn \notin Connectives
  <2> DEFINE path == FlattenIdent(e.args[1])[1]
             says == Says(e.fn, path, e.args[2], row)
             denies == Denies(e.fn, path, e.args[2], row)
  <2>1. Agree(f, e, row) = [yes \in BOOLEAN |-> IF yes THEN says ELSE denies]
    BY <1>3 DEF Agree, Connectives
  <2> HIDE DEF says, denies
  <2>2. Agree(f, e, row)[TRUE] = says /\ Agree(f, e, row)[FALSE] = denies
    BY <2>1, Zenon
  <2> QED
    BY <1>3, <2>2 DEF Connectives, says, denies
<1> QED
  BY <1>1, <1>2, <1>3 DEF Connectives

\* Nothing of a row without a NULL is hidden.
LEMMA NothingHidden ==
    ASSUME NEW row \in Rows, ~HasNull(row), NEW path \in DOMAIN Fields
    PROVE  row[path] # NULL /\ (Fields[path] = "array" => ElementsKnown(row[path]))
BY RowsAssumption DEF HasNull, ElementsKnown

(* The condition c has on the row the truth value of what a node says. *)
Faithful(c, agrees, row) ==
    Sound(c, row, agrees[TRUE], agrees[FALSE]) /\ (~HasNull(row) => c[row] # "unknown")

\* The negation of a condition states the opposite (translate, NOT).
LEMMA NotFaithful ==
    ASSUME NEW row \in Rows, NEW c, NEW agrees, Faithful(c, agrees, row)
    PROVE  LET d == Negation(<<c>>)[1]
           IN Sound(d, row, agrees[FALSE], agrees[TRUE]) /\ (~HasNull(row) => d[row] # "unknown")
<1> DEFINE d == Negation(<<c>>)[1]
<1>0. \A z : <<z>> # <<>> /\ <<z>>[1] = z
  OBVIOUS
<1>1. d = [r \in Rows |-> NotSQL(c[r])]
  BY <1>0 DEF Negation
<1> HIDE DEF d
<1>2. d[row] = NotSQL(c[row])
  BY <1>1
<1>3. Sound(d, row, agrees[FALSE], agrees[TRUE]) /\ (~HasNull(row) => d[row] # "unknown")
  BY <1>2 DEF Faithful, Sound, NotSQL, Truth
<1> QED
  BY <1>3 DEF d

(* The condition c states the conjunction or disjunction of what n terms say of the row. *)
Combines(c, fn, n, says, row) ==
    /\ c[row] \in Truth
    /\ ~HasNull(row) => c[row] # "unknown"
    /\ fn = "AND" => /\ c[row] = "true" <=> \A k \in 1..n : says[k][TRUE]
                     /\ c[row] = "false" <=> \E k \in 1..n : says[k][FALSE]
    /\ fn = "OR" => /\ c[row] = "true" <=> \E k \in 1..n : says[k][TRUE]
                    /\ c[row] = "false" <=> \A k \in 1..n : says[k][FALSE]

\* A joined condition states the conjunction or disjunction of what its terms state (andOf, orOf).
LEMMA JoinFaithful ==
    ASSUME NEW row \in Rows, NEW fn \in {"AND", "OR"}, NEW terms, IsSeq(terms), Len(terms) # 0,
           NEW says, \A k \in 1..Len(terms) : terms[k] # <<>> /\ Faithful(terms[k][1], says[k], row)
    PROVE  Combines(Join(fn, terms)[1], fn, Len(terms), says, row)
<1> DEFINE c == Join(fn, terms)[1]
           v(k) == terms[k][1][row]
<1>0. \A z : <<z>> # <<>> /\ <<z>>[1] = z
  OBVIOUS
<1>1. DOMAIN terms = 1..Len(terms) /\ terms # <<>>
  BY SeqIsSeq, EmptySeq DEF IsSeq
<1>2. Join(fn, terms) = <<Joined(fn, terms)>>
  BY <1>1 DEF Join
<1>3. c = Joined(fn, terms)
  BY <1>0, <1>2
<1> HIDE DEF c
<1>4. \A k \in 1..Len(terms) : /\ v(k) \in Truth
                               /\ v(k) = "true" <=> says[k][TRUE]
                               /\ v(k) = "false" <=> says[k][FALSE]
                               /\ ~HasNull(row) => v(k) # "unknown"
  BY DEF Faithful, Sound
<1>5. /\ c[row] \in Truth
      /\ fn = "AND" => /\ c[row] = "true" <=> \A k \in 1..Len(terms) : v(k) = "true"
                       /\ c[row] = "false" <=> \E k \in 1..Len(terms) : v(k) = "false"
      /\ fn = "OR" => /\ c[row] = "true" <=> \E k \in 1..Len(terms) : v(k) = "true"
                      /\ c[row] = "false" <=> \A k \in 1..Len(terms) : v(k) = "false"
  BY <1>1, <1>3, <1>4, JoinedMeaning
<1> HIDE DEF v
<1>6. ~HasNull(row) => c[row] # "unknown"
  BY <1>4, <1>5 DEF Truth
<1>7. /\ fn = "AND" => /\ c[row] = "true" <=> \A k \in 1..Len(terms) : says[k][TRUE]
                       /\ c[row] = "false" <=> \E k \in 1..Len(terms) : says[k][FALSE]
      /\ fn = "OR" => /\ c[row] = "true" <=> \E k \in 1..Len(terms) : says[k][TRUE]
                      /\ c[row] = "false" <=> \A k \in 1..Len(terms) : says[k][FALSE]
  BY <1>4, <1>5
<1> QED
  BY <1>5, <1>6, <1>7 DEF c, Combines

\* In a tree of listed comparisons every node has on every row the truth value
\* of what it says: true if the row satisfies it, false if it contradicts it,
\* and unknown if a NULL hides the answer (translate).
LEMMA TreeFaithful ==
    ASSUME NodesInv, OneTree, Len(nodes) # 0, AllListed, NEW row \in Rows
    PROVE  \A i \in 1..Len(nodes) : Faithful(Translations(nodes)[i][1], Agreements(row)[i], row)
<1> DEFINE t == Translations(nodes)
           a == Agreements(row)
           n == Len(nodes)
           Bad == { i \in 1..n : ~Faithful(t[i][1], a[i], row) }
<1>0. n \in Nat /\ \A z : <<z>> # <<>> /\ <<z>>[1] = z
  BY SeqIsSeq DEF NodesInv, IsSeq
<1>1. \A i \in 1..n : t[i] = Translate(nodes[i], t)
  BY TranslationsMeaning
<1>2. \A i \in 1..n : a[i] = Agree(a, nodes[i], row)
  BY AgreementsMeaning DEF AllListed
<1>3. \A i \in 1..n : t[i] # <<>>
  BY WholeTranslated
<1> HIDE DEF t, a
<1>4. Bad = {}
  <2> SUFFICES ASSUME Bad # {} PROVE FALSE
    OBVIOUS
  <2>1. PICK i \in Bad : \A y \in Bad : i <= y
    <3>1. Bad \subseteq Nat
      OBVIOUS
    <3> HIDE DEF Bad
    <3> QED
      BY <3>1, NatLeast
  <2>2. i \in 1..n /\ ~Faithful(t[i][1], a[i], row)
    BY <2>1
  <2> DEFINE e == nodes[i]
  <2>3. t[i] = Translate(e, t) /\ a[i] = Agree(a, e, row) /\ t[i] # <<>>
    BY <1>1, <1>2, <1>3, <2>2
  <2>4. CASE ~IsConnective(e)
    <3>1. e \in Comparisons /\ Listed(e)
      BY <2>2, <2>4 DEF NodesInv, NodeInv, AllListed
    <3> DEFINE path == FlattenIdent(e.args[1])[1]
               lit == e.args[2]
    <3> HIDE DEF e
    <3>2. /\ path \in DOMAIN Fields /\ States(t[i][1], e.fn, path, lit)
          /\ e.fn \notin Connectives
      BY <2>3, <2>4, <3>1, ComparisonMeaning DEF IsConnective
    <3>3. a[i][TRUE] <=> Says(e.fn, path, lit, row)
      BY <2>3, <3>2, AgreeConnective
    <3>4. a[i][FALSE] <=> Denies(e.fn, path, lit, row)
      BY <2>3, <3>2, AgreeConnective
    <3>5. Sound(t[i][1], row, Says(e.fn, path, lit, row), Denies(e.fn, path, lit, row))
      BY <3>2 DEF States
    <3>6. ~HasNull(row) => t[i][1][row] # "unknown"
      BY <3>2, NothingHidden DEF States
    <3>7. Sound(t[i][1], row, a[i][TRUE], a[i][FALSE])
      BY <3>3, <3>4, <3>5 DEF Sound
    <3> QED
      BY <2>2, <3>6, <3>7 DEF Faithful
  <2>5. CASE IsConnective(e)
    <3> DEFINE args == e.args
    <3>1. /\ IsSeq(args) /\ Len(args) \in Nat /\ Len(args) # 0 /\ DOMAIN args = 1..Len(args)
          /\ \A k \in DOMAIN args : args[k] \in 1..(i - 1)
          /\ e.fn = "NOT" => Len(args) = 1
      BY <2>2, <2>5, ArgumentsBefore
    <3>2. \A x \in 1..(i - 1) : x \in 1..n /\ Faithful(t[x][1], a[x], row)
      <4>1. \A x \in 1..(i - 1) : x \in 1..n /\ ~(i <= x)
        BY <1>0, <2>2
      <4>2. \A x \in 1..n : ~(i <= x) => Faithful(t[x][1], a[x], row)
        BY <2>1
      <4> QED
        BY <4>1, <4>2
    <3> HIDE DEF Bad, e
    <3>3. \A k \in 1..Len(args) : args[k] \in 1..n /\ Faithful(t[args[k]][1], a[args[k]], row) /\ t[args[k]] # <<>>
      BY <1>3, <3>1, <3>2
    <3>4. CASE e.fn = "NOT"
      <4> DEFINE x == args[1]
      <4>1. Faithful(t[x][1], a[x], row) /\ t[x] # <<>> /\ x \in 1..n
        BY <3>1, <3>3, <3>4
      <4>2. t[i] = Negation(t[x])
        BY <2>3, <2>5, <3>1, <3>4, TranslateNot DEF IsConnective
      <4>3. a[i][TRUE] = a[x][FALSE] /\ a[i][FALSE] = a[x][TRUE]
        <5>1. /\ Agree(a, e, row)[TRUE] = a[e.args[1]][FALSE]
              /\ Agree(a, e, row)[FALSE] = a[e.args[1]][TRUE]
          BY <3>4, AgreeConnective
        <5> QED
          BY <2>3, <5>1
      <4> HIDE DEF x
      <4>4. t[i] = Negation(<<t[x][1]>>)
        BY <1>0, <4>1, <4>2 DEF Negation
      <4>5. Sound(t[i][1], row, a[x][FALSE], a[x][TRUE]) /\ (~HasNull(row) => t[i][1][row] # "unknown")
        BY <4>1, <4>4, NotFaithful
      <4> QED
        BY <2>2, <4>3, <4>5 DEF Faithful
    <3>5. CASE e.fn # "NOT"
      <4> DEFINE terms == [k \in DOMAIN args |-> t[args[k]]]
                 says == [k \in DOMAIN args |-> a[args[k]]]
      <4>1. e.kind = "call" /\ e.fn \in {"AND", "OR"}
        BY <2>5, <3>5 DEF IsConnective, Connectives
      <4>2. t[i] = Join(e.fn, terms)
        BY <2>3, <4>1, TranslateJoin
      <4>3. \A k \in 1..Len(args) : terms[k] = t[args[k]] /\ says[k] = a[args[k]]
        BY <3>1
      <4>4. terms = [k \in 1..Len(args) |-> terms[k]]
        BY <3>1
      <4> HIDE DEF terms, says
      <4>5. IsSeq(terms) /\ Len(terms) = Len(args)
        BY <3>1, <4>4, FunctionIsASeq
      <4>6. \A k \in 1..Len(terms) : terms[k] # <<>> /\ Faithful(terms[k][1], says[k], row)
        BY <3>3, <4>3, <4>5
      <4> DEFINE c == Join(e.fn, terms)[1]
      <4>7. /\ c[row] \in Truth
            /\ ~HasNull(row) => c[row] # "unknown"
            /\ e.fn = "AND" => /\ c[row] = "true" <=> \A k \in 1..Len(terms) : says[k][TRUE]
                               /\ c[row] = "false" <=> \E k \in 1..Len(terms) : says[k][FALSE]
            /\ e.fn = "OR" => /\ c[row] = "true" <=> \E k \in 1..Len(terms) : says[k][TRUE]
                              /\ c[row] = "false" <=> \A k \in 1..Len(terms) : says[k][FALSE]
        <5>1. Len(terms) # 0 /\ IsSeq(terms) /\ e.fn \in {"AND", "OR"}
          BY <3>1, <4>1, <4>5
        <5>2. Combines(c, e.fn, Len(terms), says, row)
          BY <4>6, <5>1, JoinFaithful
        <5> HIDE DEF c
        <5> QED
          BY <5>2 DEF Combines
      <4>8. c = t[i][1]
        BY <4>2
      <4> HIDE DEF c
      <4>9. /\ e.fn = "AND" => /\ a[i][TRUE] <=> \A k \in DOMAIN args : a[args[k]][TRUE]
                               /\ a[i][FALSE] <=> \E k \in DOMAIN args : a[args[k]][FALSE]
            /\ e.fn = "OR" => /\ a[i][TRUE] <=> \E k \in DOMAIN args : a[args[k]][TRUE]
                              /\ a[i][FALSE] <=> \A k \in DOMAIN args : a[args[k]][FALSE]
        <5>1. /\ e.fn = "AND" => /\ Agree(a, e, row)[TRUE] <=> \A k \in DOMAIN e.args : a[e.args[k]][TRUE]
                                 /\ Agree(a, e, row)[FALSE] <=> \E k \in DOMAIN e.args : a[e.args[k]][FALSE]
              /\ e.fn = "OR" => /\ Agree(a, e, row)[TRUE] <=> \E k \in DOMAIN e.args : a[e.args[k]][TRUE]
                                /\ Agree(a, e, row)[FALSE] <=> \A k \in DOMAIN e.args : a[e.args[k]][FALSE]
          BY AgreeConnective, Zenon
        <5> QED
          BY <2>3, <5>1
      <4>10. /\ c[row] = "true" <=> a[i][TRUE]
             /\ c[row] = "false" <=> a[i][FALSE]
        <5> DEFINE Yes(k) == a[args[k]][TRUE]  No(k) == a[args[k]][FALSE]
        <5>1. /\ \A k \in 1..Len(args) : (says[k][TRUE] <=> Yes(k)) /\ (says[k][FALSE] <=> No(k))
              /\ Len(terms) = Len(args) /\ DOMAIN args = 1..Len(args)
          BY <3>1, <4>3, <4>5
        <5>2. CASE e.fn = "AND"
          BY <4>7, <4>9, <5>1, <5>2
        <5>3. CASE e.fn = "OR"
          BY <4>7, <4>9, <5>1, <5>3
        <5> QED
          BY <4>1, <5>2, <5>3
      <4> QED
        BY <2>2, <4>7, <4>8, <4>10 DEF Faithful, Sound
    <3> QED
      BY <3>4, <3>5
  <2> QED
    BY <2>4, <2>5
<1> QED
  BY <1>4 DEF t, a

---------------------------------------------------------------------------
(* The invariant *)

TopsInv == IsSeq(tops) /\ \A q \in 1..Len(tops) : tops[q] \in 1..Len(nodes)

(* Every node is a top of the filter or below another. *)
PlaceInv == \A i \in 1..Len(nodes) :
    \/ \E q \in 1..Len(tops) : tops[q] = i
    \/ \E j \in 1..Len(nodes) : i < j /\ IsConnective(nodes[j]) /\ \E k \in DOMAIN nodes[j].args : nodes[j].args[k] = i

FormInv ==
    /\ form \in {"tree", "blank", "tooLong", "malformed"}
    /\ form = "tree" => Len(tops) # 0 /\ tops[Len(tops)] = Len(nodes)

TreeInv == NodesInv /\ TopsInv /\ PlaceInv /\ FormInv

AnswerInv ==
    /\ pc \in {"writing", "refused", "translated", "answered"}
    /\ pc # "writing" => Len(tops) < 2 /\ condition = FilterToCondition(form, nodes)
    /\ pc = "refused" => condition = <<>>
    /\ pc \in {"translated", "answered"} => condition # <<>>
    /\ pc = "answered" => selected = {row \in Rows : Selects(condition[1], row)}

IInv == TreeInv /\ AnswerInv

\* The two parts of a sequence.
LEMMA Parts ==
    ASSUME NEW s, IsSeq(s), NEW m \in 0..Len(s)
    PROVE  LET u == SubSeq(s, 1, m) v == SubSeq(s, m + 1, Len(s))
           IN /\ IsSeq(u) /\ Len(u) = m /\ \A q \in 1..m : u[q] = s[q]
              /\ IsSeq(v) /\ Len(v) = Len(s) - m /\ \A q \in 1..(Len(s) - m) : v[q] = s[m + q]
              /\ DOMAIN v = 1..(Len(s) - m)
<1> DEFINE S == Range(s)  u == SubSeq(s, 1, m)  v == SubSeq(s, m + 1, Len(s))
<1>1. s \in Seq(S) /\ Len(s) \in Nat
  BY SeqIsSeq DEF IsSeq
<1> HIDE DEF S
<1>2. \A i \in 1..Len(s) : s[i] \in S
  BY <1>1, ElementOfSeq
<1>3. u \in Seq(S) /\ Len(u) = (IF 1 <= m THEN m - 1 + 1 ELSE 0) /\ \A i \in 1..(m - 1 + 1) : u[i] = s[1 + i - 1]
  <2>1. \A i \in 1..m : s[i] \in S
    BY <1>1, <1>2
  <2> QED
    BY <1>1, <2>1, SubSeqProperties
<1>4. /\ v \in Seq(S)
      /\ Len(v) = (IF m + 1 <= Len(s) THEN Len(s) - (m + 1) + 1 ELSE 0)
      /\ \A i \in 1..(Len(s) - (m + 1) + 1) : v[i] = s[m + 1 + i - 1]
  <2>1. \A i \in (m + 1)..Len(s) : s[i] \in S
    BY <1>1, <1>2
  <2> QED
    BY <1>1, <2>1, SubSeqProperties
<1> HIDE DEF u, v
<1>5. IsSeq(u) /\ Len(u) = m /\ \A q \in 1..m : u[q] = s[q]
  <2>1. \A q \in 1..m : q \in 1..(m - 1 + 1) /\ 1 + q - 1 = q
    BY <1>1
  <2> QED
    BY <1>1, <1>3, <2>1, SeqIsSeq
<1>6. IsSeq(v) /\ Len(v) = Len(s) - m /\ DOMAIN v = 1..(Len(s) - m) /\ \A q \in 1..(Len(s) - m) : v[q] = s[m + q]
  <2>1. \A q \in 1..(Len(s) - m) : q \in 1..(Len(s) - (m + 1) + 1) /\ m + 1 + q - 1 = m + q
    BY <1>1
  <2>2. Len(v) = Len(s) - m
    BY <1>1, <1>4
  <2> QED
    BY <1>1, <1>4, <2>1, <2>2, SeqIsSeq
<1> QED
  BY <1>5, <1>6 DEF u, v

\* A node put after the others leaves them as they are.
LEMMA NodeAdded ==
    ASSUME NodesInv, NEW x, nodes' = Append(nodes, x),
           IF IsConnective(x) THEN /\ x.args \in Seq(1 .. Len(nodes)) /\ x.args # <<>>
                                   /\ x.fn = "NOT" => Len(x.args) = 1
                              ELSE x \in Comparisons
    PROVE  /\ NodesInv' /\ Len(nodes) \in Nat /\ Len(nodes') = Len(nodes) + 1
           /\ nodes'[Len(nodes) + 1] = x
           /\ \A i \in 1..Len(nodes) : nodes'[i] = nodes[i]
<1>1. /\ IsSeq(nodes') /\ Len(nodes) \in Nat /\ Len(nodes') = Len(nodes) + 1
      /\ nodes'[Len(nodes) + 1] = x
      /\ \A i \in 1..Len(nodes) : nodes'[i] = nodes[i]
  BY Appended DEF NodesInv
<1> DEFINE n == Len(nodes)
<1>2. \A i \in 1..n : NodeInv(i)'
  <2>1. \A i \in 1..n : NodeInv(i) /\ nodes'[i] = nodes[i]
    BY <1>1 DEF NodesInv
  <2> QED
    BY <2>1 DEF NodeInv
<1>3. ASSUME NEW i, i = n + 1
      PROVE  NodeInv(i)'
  <2>1. n \in Nat /\ i - 1 = n /\ nodes'[i] = x
    BY <1>1, <1>3
  <2> HIDE DEF n
  <2>2. x.args \in Seq(1..n) \/ ~IsConnective(x)
    BY DEF n
  <2> QED
    BY <2>1, <2>2 DEF NodeInv
<1> HIDE DEF n
<1>5. \A i \in 1..(n + 1) : NodeInv(i)'
  <2> SUFFICES ASSUME NEW i \in 1..(n + 1) PROVE NodeInv(i)'
    OBVIOUS
  <2>1. i \in 1..n \/ i = n + 1
    BY <1>1 DEF n
  <2> QED
    BY <1>2, <1>3, <2>1
<1> QED
  BY <1>1, <1>5 DEF NodesInv, n

\* A filter starts as one comparison, or is no tree.
LEMMA TreeInit == Init => TreeInv
<1> SUFFICES ASSUME Init PROVE TreeInv
  OBVIOUS
<1>1. CASE form = "tree" /\ \E e \in Comparisons : nodes = <<e>> /\ tops = <<1>>
  <2>1. PICK e \in Comparisons : nodes = <<e>> /\ tops = <<1>>
    BY <1>1
  <2>2. nodes \in Seq({e}) /\ Len(nodes) = 1 /\ nodes[1] = e /\ tops \in Seq({1}) /\ Len(tops) = 1 /\ tops[1] = 1
    BY <2>1
  <2>3. \A i : i \in 1..1 <=> i = 1
    OBVIOUS
  <2>4. NodesInv
    BY <2>2, <2>3, SeqIsSeq, FilterAssumption DEF NodesInv, NodeInv
  <2>5. TopsInv /\ PlaceInv
    BY <2>2, <2>3, SeqIsSeq DEF TopsInv, PlaceInv
  <2> QED
    BY <1>1, <2>2, <2>4, <2>5 DEF TreeInv, FormInv
<1>2. CASE form \in {"blank", "tooLong", "malformed"} /\ nodes = <<>> /\ tops = <<>>
  <2>1. nodes \in Seq({}) /\ Len(nodes) = 0 /\ tops \in Seq({}) /\ Len(tops) = 0
    BY <1>2
  <2>2. \A i : i \notin 1..0
    OBVIOUS
  <2> QED
    BY <1>2, <2>1, <2>2, SeqIsSeq DEF TreeInv, FormInv, NodesInv, TopsInv, PlaceInv
<1> QED
  BY <1>1, <1>2 DEF Init

\* Adding a comparison keeps the tree.
LEMMA TreeAddTerm ==
    ASSUME TreeInv, AddTerm
    PROVE  TreeInv'
<1>1. PICK e \in Terms : nodes' = Append(nodes, e)
  BY DEF AddTerm
<1>2. e \in Comparisons /\ ~IsConnective(e)
  BY FilterAssumption
<1> DEFINE n == Len(nodes)  m == Len(tops)
<1>3. NodesInv' /\ n \in Nat /\ Len(nodes') = n + 1 /\ \A i \in 1..n : nodes'[i] = nodes[i]
  BY <1>1, <1>2, NodeAdded DEF TreeInv
<1>4. tops' = Append(tops, n + 1)
  BY <1>3 DEF AddTerm
<1>5. IsSeq(tops') /\ m \in Nat /\ Len(tops') = m + 1 /\ tops'[m + 1] = n + 1 /\ \A q \in 1..m : tops'[q] = tops[q]
  BY <1>4, Appended DEF TreeInv, TopsInv
<1>6. \A q \in 1..m : tops[q] \in 1..n
  BY DEF TreeInv, TopsInv
<1>7. TopsInv'
  <2>1. \A q \in 1..(m + 1) : tops'[q] \in 1..(n + 1)
    BY <1>3, <1>5, <1>6
  <2> QED
    BY <1>3, <1>5, <2>1 DEF TopsInv
<1>8. PlaceInv'
  <2> SUFFICES ASSUME NEW i \in 1..(n + 1)
               PROVE  \/ \E q \in 1..(m + 1) : tops'[q] = i
                      \/ \E j \in 1..(n + 1) : i < j /\ IsConnective(nodes'[j]) /\ \E k \in DOMAIN nodes'[j].args : nodes'[j].args[k] = i
    BY <1>3, <1>5 DEF PlaceInv
  <2>1. CASE i = n + 1
    BY <1>5, <2>1
  <2>2. CASE i \in 1..n
    <3>1. CASE \E q \in 1..m : tops[q] = i
      BY <1>5, <3>1
    <3>2. CASE \E j \in 1..n : i < j /\ IsConnective(nodes[j]) /\ \E k \in DOMAIN nodes[j].args : nodes[j].args[k] = i
      BY <1>3, <3>2
    <3> QED
      BY <2>2, <3>1, <3>2 DEF TreeInv, PlaceInv
  <2> QED
    BY <1>3, <2>1, <2>2
<1>9. FormInv'
  BY <1>3, <1>5 DEF AddTerm, TreeInv, FormInv
<1> QED
  BY <1>3, <1>7, <1>8, <1>9 DEF TreeInv

\* Joining the last parts of a filter, or negating the last, keeps the tree.
LEMMA TreeConnect ==
    ASSUME TreeInv, Connect
    PROVE  TreeInv'
<1>1. PICK fn \in Connectives, kept \in 0 .. Len(tops) - 1 :
         /\ fn = "NOT" <=> kept = Len(tops) - 1
         /\ nodes' = Append(nodes, Call(fn, SubSeq(tops, kept + 1, Len(tops))))
         /\ tops' = Append(SubSeq(tops, 1, kept), Len(nodes'))
  BY DEF Connect
<1> DEFINE n == Len(nodes)  m == Len(tops)
           rest == SubSeq(tops, 1, kept)
           args == SubSeq(tops, kept + 1, Len(tops))
           x == Call(fn, args)
<1>2. IsSeq(tops) /\ m \in Nat /\ \A q \in 1..m : tops[q] \in 1..n
  BY SeqIsSeq DEF TreeInv, TopsInv, IsSeq
<1>3. /\ IsSeq(rest) /\ Len(rest) = kept /\ \A q \in 1..kept : rest[q] = tops[q]
      /\ IsSeq(args) /\ Len(args) = m - kept /\ \A q \in 1..(m - kept) : args[q] = tops[kept + q]
      /\ DOMAIN args = 1..(m - kept)
  <2>1. kept \in 0..m
    BY <1>2
  <2> QED
    BY <1>2, <2>1, Parts
<1>4. x.kind = "call" /\ x.fn = fn /\ x.args = args /\ IsConnective(x)
  BY DEF Call, IsConnective
<1> HIDE DEF rest, args, x
<1>5. args \in Seq(1..n) /\ args # <<>> /\ (fn = "NOT" => Len(args) = 1)
  <2>0. \A q \in 1..(m - kept) : kept + q \in 1..m
    BY <1>2
  <2>1. \A q \in 1..(m - kept) : args[q] \in 1..n
    <3> HIDE DEF m, n
    <3> QED
      BY <1>2, <1>3, <2>0
  <2>2. args \in Seq(1..n)
    BY <1>3, <2>1, IsASeq DEF IsSeq
  <2>3. m - kept # 0
    BY <1>2
  <2>4. args # <<>>
    BY <1>3, <2>3
  <2>5. fn = "NOT" => m - kept = 1
    BY <1>1, <1>2
  <2> QED
    BY <1>3, <2>2, <2>4, <2>5
<1>6. nodes' = Append(nodes, x)
  BY <1>1 DEF x, args
<1>7. NodesInv' /\ n \in Nat /\ Len(nodes') = n + 1 /\ nodes'[n + 1] = x /\ \A i \in 1..n : nodes'[i] = nodes[i]
  BY <1>4, <1>5, <1>6, NodeAdded DEF TreeInv
<1>8. tops' = Append(rest, n + 1)
  BY <1>1, <1>7 DEF rest
<1>9. /\ IsSeq(tops') /\ Len(tops') = kept + 1 /\ tops'[kept + 1] = n + 1
      /\ \A q \in 1..kept : tops'[q] = tops[q]
  BY <1>3, <1>8, Appended
<1>10. TopsInv'
  <2>1. \A q \in 1..(kept + 1) : tops'[q] \in 1..(n + 1)
    <3>1. \A q \in 1..(kept + 1) : q = kept + 1 \/ (q \in 1..kept /\ q \in 1..m)
      BY <1>2
    <3>2. n + 1 \in 1..(n + 1) /\ \A y \in 1..n : y \in 1..(n + 1)
      BY <1>7
    <3> HIDE DEF m, n
    <3> QED
      BY <1>2, <1>9, <3>1, <3>2
  <2> QED
    BY <1>7, <1>9, <2>1 DEF TopsInv
<1>11. PlaceInv'
  <2> SUFFICES ASSUME NEW i \in 1..(n + 1)
               PROVE  \/ \E q \in 1..(kept + 1) : tops'[q] = i
                      \/ \E j \in 1..(n + 1) : i < j /\ IsConnective(nodes'[j]) /\ \E k \in DOMAIN nodes'[j].args : nodes'[j].args[k] = i
    BY <1>7, <1>9 DEF PlaceInv
  <2>1. CASE i = n + 1
    BY <1>9, <2>1
  <2>2. CASE i \in 1..n
    <3>1. CASE \E q \in 1..m : tops[q] = i
      <4>1. PICK q \in 1..m : tops[q] = i
        BY <3>1
      <4>2. CASE q <= kept
        BY <1>2, <1>9, <4>1, <4>2
      <4>3. CASE ~(q <= kept)
        <5>1. q - kept \in 1..(m - kept) /\ kept + (q - kept) = q
          BY <1>2, <4>3
        <5>2. args[q - kept] = i /\ q - kept \in DOMAIN args
          BY <1>3, <4>1, <5>1
        <5>3. n + 1 \in 1..(n + 1) /\ i < n + 1
          BY <1>7, <2>2
        <5> QED
          BY <1>4, <1>7, <5>2, <5>3
      <4> QED
        BY <4>2, <4>3
    <3>2. CASE \E j \in 1..n : i < j /\ IsConnective(nodes[j]) /\ \E k \in DOMAIN nodes[j].args : nodes[j].args[k] = i
      BY <1>7, <3>2
    <3> QED
      BY <2>2, <3>1, <3>2 DEF TreeInv, PlaceInv
  <2> QED
    BY <1>7, <2>1, <2>2
<1>12. FormInv'
  BY <1>7, <1>9 DEF Connect, TreeInv, FormInv
<1> QED
  BY <1>7, <1>10, <1>11, <1>12 DEF TreeInv

\* The invariant holds in every state.
THEOREM FilterInvariant == Spec => []IInv
<1>1. Init => IInv
  BY TreeInit DEF IInv, AnswerInv, Init
<1>2. IInv /\ [Next]_vars => IInv'
  <2> SUFFICES ASSUME IInv, [Next]_vars PROVE IInv'
    OBVIOUS
  <2>1. CASE AddTerm
    <3>1. TreeInv'
      BY <2>1, TreeAddTerm DEF IInv
    <3>2. AnswerInv'
      BY <2>1 DEF AddTerm, IInv, AnswerInv
    <3> QED
      BY <3>1, <3>2 DEF IInv
  <2>2. CASE Connect
    <3>1. TreeInv'
      BY <2>2, TreeConnect DEF IInv
    <3>2. AnswerInv'
      BY <2>2 DEF Connect, IInv, AnswerInv
    <3> QED
      BY <3>1, <3>2 DEF IInv
  <2>3. CASE TranslateFilter
    <3>1. TreeInv'
      BY <2>3 DEF TranslateFilter, IInv, TreeInv, NodesInv, NodeInv, TopsInv, PlaceInv, FormInv
    <3>2. AnswerInv'
      BY <2>3 DEF TranslateFilter, IInv, AnswerInv
    <3> QED
      BY <3>1, <3>2 DEF IInv
  <2>4. CASE RunQuery
    <3>1. TreeInv'
      BY <2>4 DEF RunQuery, IInv, TreeInv, NodesInv, NodeInv, TopsInv, PlaceInv, FormInv
    <3>2. AnswerInv'
      BY <2>4 DEF RunQuery, IInv, AnswerInv
    <3> QED
      BY <3>1, <3>2 DEF IInv
  <2>5. CASE UNCHANGED vars
    <3>1. TreeInv'
      BY <2>5 DEF vars, IInv, TreeInv, NodesInv, NodeInv, TopsInv, PlaceInv, FormInv
    <3>2. AnswerInv'
      BY <2>5 DEF vars, IInv, AnswerInv
    <3> QED
      BY <3>1, <3>2 DEF IInv
  <2> QED
    BY <2>1, <2>2, <2>3, <2>4, <2>5 DEF Next
<1> QED
  BY <1>1, <1>2, PTL DEF Spec

---------------------------------------------------------------------------
(* The properties *)

\* A filter that is handed over is one tree.
LEMMA OneTreeHandedOver ==
    ASSUME IInv, form = "tree", pc # "writing"
    PROVE  NodesInv /\ OneTree /\ Len(nodes) \in Nat /\ Len(nodes) # 0
<1>1. NodesInv /\ TopsInv /\ PlaceInv /\ Len(tops) # 0 /\ tops[Len(tops)] = Len(nodes) /\ Len(tops) < 2
  BY DEF IInv, TreeInv, FormInv, AnswerInv
<1>2. Len(tops) \in Nat /\ Len(nodes) \in Nat
  BY <1>1, SeqIsSeq DEF NodesInv, TopsInv, IsSeq
<1>3. Len(tops) = 1 /\ tops[1] = Len(nodes) /\ tops[1] \in 1..Len(nodes)
  <2>1. Len(tops) = 1
    <3>1. \A m \in Nat : m # 0 /\ m < 2 => m = 1
      OBVIOUS
    <3>2. Len(tops) \in Nat /\ Len(tops) # 0 /\ Len(tops) < 2
      BY <1>1, <1>2
    <3> QED
      BY <3>1, <3>2
  <2>2. \A q \in 1..Len(tops) : tops[q] \in 1..Len(nodes)
    BY <1>1 DEF TopsInv
  <2> QED
    BY <1>1, <2>1, <2>2
<1>4. OneTree
  BY <1>1, <1>3 DEF PlaceInv, OneTree
<1> QED
  BY <1>1, <1>2, <1>3, <1>4

\* What FilterToCondition returns: nothing for what is no filter and for a tree
\* with a comparison that is not listed.
LEMMA ConditionMeaning ==
    ASSUME IInv, pc # "writing"
    PROVE  /\ condition # <<>> <=> Meaningful
           /\ form = "tree" => condition = Translations(nodes)[Len(nodes)]
           /\ form = "blank" => condition = <<NoPredicate>>
<1>0. \A z : <<z>> # <<>>
  OBVIOUS
<1>1. condition = FilterToCondition(form, nodes) /\ form \in {"tree", "blank", "tooLong", "malformed"}
  BY DEF IInv, TreeInv, FormInv, AnswerInv
<1>2. CASE form = "tree"
  <2>1. condition = Translations(nodes)[Len(nodes)]
    BY <1>1, <1>2 DEF FilterToCondition
  <2>2. NodesInv /\ OneTree /\ Len(nodes) # 0 /\ DOMAIN nodes = 1..Len(nodes)
    BY <1>2, OneTreeHandedOver, SeqIsSeq DEF NodesInv, IsSeq
  <2>3. condition # <<>> <=> AllListed
    BY <2>1, <2>2, WholeTranslated
  <2>4. Meaningful <=> AllListed
    BY <1>2, <2>2 DEF Meaningful, AllListed
  <2> QED
    BY <1>2, <2>1, <2>3, <2>4
<1>3. CASE form = "blank"
  <2>1. condition = <<NoPredicate>>
    BY <1>1, <1>3 DEF FilterToCondition
  <2> QED
    BY <1>0, <1>3, <2>1 DEF Meaningful
<1>4. CASE form \in {"tooLong", "malformed"}
  <2>1. condition = <<>>
    BY <1>1, <1>4 DEF FilterToCondition
  <2> QED
    BY <1>4, <2>1 DEF Meaningful
<1> QED
  BY <1>1, <1>2, <1>3, <1>4

\* The condition of a tree is faithful to it on every row.
LEMMA RootFaithful ==
    ASSUME IInv, form = "tree", pc # "writing", condition # <<>>, NEW row \in Rows
    PROVE  Faithful(condition[1], Agreements(row)[Len(nodes)], row)
<1>1. NodesInv /\ OneTree /\ Len(nodes) \in Nat /\ Len(nodes) # 0
  BY OneTreeHandedOver
<1>2. DOMAIN nodes = 1..Len(nodes)
  BY <1>1, SeqIsSeq DEF NodesInv, IsSeq
<1>3. condition = Translations(nodes)[Len(nodes)] /\ Meaningful
  BY ConditionMeaning
<1>4. AllListed
  BY <1>2, <1>3 DEF Meaningful, AllListed
<1>5. Len(nodes) \in 1..Len(nodes)
  BY <1>1
<1> QED
  BY <1>1, <1>3, <1>4, <1>5, TreeFaithful

\* The rows of an answer are those that satisfy the filter (FilterToCondition,
\* translate, applyComparator): a NULL hides the answer of a comparison and stays
\* hidden under NOT, AND and OR, and `:` finds its text whatever metacharacters it
\* has.
THEOREM FilterAnswers == Spec => []AnswersTheFilter
<1>1. IInv => AnswersTheFilter
  <2> SUFFICES ASSUME IInv, pc = "answered"
               PROVE  selected = {row \in Rows : Satisfies(row)}
    BY DEF AnswersTheFilter
  <2>1. /\ condition # <<>> /\ selected = {row \in Rows : Selects(condition[1], row)}
        /\ form \in {"tree", "blank", "tooLong", "malformed"}
    BY DEF IInv, AnswerInv, TreeInv, FormInv
  <2>2. ASSUME NEW row \in Rows
        PROVE  Selects(condition[1], row) <=> Satisfies(row)
    <3>1. CASE form = "blank"
      <4>1. condition[1] = NoPredicate
        BY <3>1, ConditionMeaning
      <4> QED
        BY <3>1, <4>1 DEF Selects, NoPredicate, Satisfies
    <3>2. CASE form = "tree"
      <4>1. Faithful(condition[1], Agreements(row)[Len(nodes)], row)
        BY <2>1, <3>2, RootFaithful
      <4> QED
        BY <3>2, <4>1 DEF Faithful, Sound, Selects, Satisfies
    <3>3. CASE form \in {"tooLong", "malformed"}
      <4>1. Meaningful
        BY <2>1, ConditionMeaning
      <4> QED
        BY <3>3, <4>1 DEF Meaningful
    <3> QED
      BY <2>1, <3>1, <3>2, <3>3
  <2> QED
    BY <2>1, <2>2
<1> QED
  BY <1>1, FilterInvariant, PTL

\* A filter is refused exactly if it is none or one of its comparisons is not
\* listed: whatever the tree around it, no part of a filter is left out of the
\* condition (ErrUnsupportedFilter in translate, andOf and orOf).
THEOREM FilterRefuses == Spec => []RefusesOnlyTheUnlisted
<1>1. IInv => RefusesOnlyTheUnlisted
  BY ConditionMeaning DEF IInv, AnswerInv, RefusesOnlyTheUnlisted
<1> QED
  BY <1>1, FilterInvariant, PTL

\* The answers of a filter and of its negation share no row, and every row
\* without a NULL is in one of them (translate, NOT).
THEOREM FilterNegates == Spec => []NegationSplitsTheTable
<1>1. IInv => NegationSplitsTheTable
  <2> SUFFICES ASSUME IInv, pc = "answered", form = "tree"
               PROVE  LET negated == Translate(Call("NOT", <<Len(nodes)>>), Translations(nodes))
                          others  == {row \in Rows : Selects(negated[1], row)}
                      IN /\ selected \cap others = {}
                         /\ \A row \in Rows : HasNull(row) \/ row \in selected \cup others
    BY DEF NegationSplitsTheTable
  <2> DEFINE negated == Translate(Call("NOT", <<Len(nodes)>>), Translations(nodes))
             others == {row \in Rows : Selects(negated[1], row)}
  <2>0. \A z : <<z>> # <<>> /\ <<z>>[1] = z /\ Len(<<z>>) = 1
    OBVIOUS
  <2>1. condition # <<>> /\ selected = {row \in Rows : Selects(condition[1], row)}
    BY DEF IInv, AnswerInv
  <2>2. condition = Translations(nodes)[Len(nodes)]
    BY ConditionMeaning
  <2>3. negated = Negation(condition)
    <3> DEFINE e == Call("NOT", <<Len(nodes)>>)
    <3>1. e.kind = "call" /\ e.fn = "NOT" /\ e.args = <<Len(nodes)>>
      BY DEF Call
    <3> HIDE DEF e
    <3>2. Len(e.args) = 1 /\ e.args[1] = Len(nodes)
      BY <2>0, <3>1
    <3>3. Translate(e, Translations(nodes)) = Negation(Translations(nodes)[e.args[1]])
      BY <3>1, <3>2, TranslateNot
    <3> QED
      BY <2>2, <3>2, <3>3 DEF e
  <2> HIDE DEF negated
  <2>4. negated[1] = [row \in Rows |-> NotSQL(condition[1][row])]
    BY <2>0, <2>1, <2>3 DEF Negation
  <2>5. \A row \in Rows : Selects(negated[1], row) <=> NotSQL(condition[1][row]) = "true"
    BY <2>4 DEF Selects
  <2>6. \A row \in Rows : /\ condition[1][row] \in Truth
                          /\ ~HasNull(row) => condition[1][row] # "unknown"
    BY <2>1, RootFaithful DEF Faithful, Sound
  <2>7. \A row \in Rows : ~(Selects(condition[1], row) /\ Selects(negated[1], row))
    BY <2>5 DEF Selects, NotSQL
  <2>8. \A row \in Rows : HasNull(row) \/ Selects(condition[1], row) \/ Selects(negated[1], row)
    BY <2>5, <2>6 DEF Selects, NotSQL, Truth
  <2>9. selected \cap others = {}
    BY <2>1, <2>7
  <2>10. \A row \in Rows : HasNull(row) \/ row \in selected \cup others
    BY <2>1, <2>8
  <2> QED
    BY <2>9, <2>10 DEF negated
<1> QED
  BY <1>1, FilterInvariant, PTL
=============================================================================
