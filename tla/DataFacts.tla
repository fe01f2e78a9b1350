------------------------------- MODULE DataFacts -------------------------------
(***************************************************************************)
(* Facts about the data of the models, for every input: numbers and their  *)
(* division, cutting and concatenating sequences, and firmware versions.   *)
(* Induction is over a set of numbers: a set with 0 that has n + 1         *)
(* whenever it has n has all of them.                                      *)
(***************************************************************************)
EXTENDS ReleaseVersion, SequencesExt, SequenceTheorems, WellFoundedInduction, TLAPS

\* A set of numbers with 0 and the successor of each of its numbers has all.
LEMMA SetInduction ==
    ASSUME NEW S, 0 \in S, \A n \in Nat : n \in S => n + 1 \in S
    PROVE  Nat \subseteq S
<1> SUFFICES ASSUME NEW T, T = Nat \ S, T # {}
             PROVE  FALSE
  OBVIOUS
<1> DEFINE R == {ss \in Nat \X Nat : ss[1] < ss[2]}
<1>1. IsWellFoundedOn(R, Nat)
  BY NatLessThanWellFounded DEF OpToRel
<1>2. PICK x \in T : \A y \in T : ~(<<y, x>> \in R)
  <2> HIDE DEF R
  <2> QED
    BY <1>1, WFMin
<1>3. \A y \in T : ~(y < x)
  BY <1>2
<1>4. x # 0 /\ x \in Nat
  OBVIOUS
<1>5. x - 1 \in Nat /\ x - 1 \notin T
  BY <1>3, <1>4
<1> QED
  BY <1>4, <1>5

\* Rules that lead from every number down to one in Stop, with values in V.
GoesDown(V, Stop, down, base, step) ==
    /\ \A n \in Nat : n \in Stop => base[n] \in V
    /\ \A n \in Nat : n \notin Stop => down[n] \in Nat /\ down[n] < n
    /\ \A n \in Nat : \A v \in V : n \notin Stop => step[<<n, v>>] \in V

\* f follows the rules.
Follows(f, Stop, down, base, step) ==
    \A n \in Nat : f[n] = IF n \in Stop THEN base[n] ELSE step[<<n, f[down[n]]>>]

\* A function may be defined by recursion on numbers that go down.
LEMMA RecursionExists ==
    ASSUME NEW V, NEW Stop, NEW down, NEW base, NEW step,
           GoesDown(V, Stop, down, base, step)
    PROVE  \E f \in [Nat -> V] : Follows(f, Stop, down, base, step)
<1> USE DEF GoesDown, Follows
<1> DEFINE Sol(f, k) ==
      /\ f \in [0..k -> V]
      /\ \A n \in 0..k : f[n] = IF n \in Stop THEN base[n] ELSE step[<<n, f[down[n]]>>]
<1>1. ASSUME NEW j \in Nat, NEW k \in Nat, NEW f, NEW g, Sol(f, j), Sol(g, k)
      PROVE  \A n \in Nat : n <= j /\ n <= k => f[n] = g[n]
  <2> DEFINE S == {n \in Nat : \A m \in 0..n : m <= j /\ m <= k => f[m] = g[m]}
  <2>1. ASSUME NEW n \in Nat, n <= j, n <= k, \A m \in 0..n : m < n => f[m] = g[m]
        PROVE  f[n] = g[n]
    <3>1. n \in 0..j /\ n \in 0..k
      BY <2>1
    <3>2. CASE n \in Stop
      BY <1>1, <3>1, <3>2
    <3>3. CASE n \notin Stop
      <4>1. down[n] \in 0..n /\ down[n] < n
        BY <3>3
      <4>2. f[down[n]] = g[down[n]]
        BY <2>1, <4>1
      <4> QED
        BY <1>1, <3>1, <3>3, <4>2
    <3> QED
      BY <3>2, <3>3
  <2>2. 0 \in S
    <3>1. ASSUME NEW m \in 0..0, m <= j, m <= k
          PROVE  f[m] = g[m]
      <4>1. m = 0
        OBVIOUS
      <4> QED
        BY <2>1, <3>1, <4>1
    <3> QED
      BY <3>1
  <2>3. ASSUME NEW n \in Nat, n \in S
        PROVE  n + 1 \in S
    <3>1. \A m \in 0..n : m <= j /\ m <= k => f[m] = g[m]
      BY <2>3
    <3>2. ASSUME n + 1 <= j, n + 1 <= k
          PROVE  f[n + 1] = g[n + 1]
      <4>1. \A m \in 0..(n + 1) : m < n + 1 => f[m] = g[m]
        BY <3>1, <3>2
      <4> QED
        BY <2>1, <3>2, <4>1
    <3>3. \A m \in 0..(n + 1) : m \in 0..n \/ m = n + 1
      OBVIOUS
    <3> QED
      BY <3>1, <3>2, <3>3
  <2>4. Nat \subseteq S
    <3> HIDE DEF S
    <3> QED
      BY <2>2, <2>3, SetInduction
  <2> QED
    BY <2>4
<1>2. \A k \in Nat : \E f : Sol(f, k)
  <2> DEFINE S == {k \in Nat : \E f : Sol(f, k)}
  <2>1. 0 \in S
    <3>1. 0 \in Stop
      OBVIOUS
    <3> DEFINE f == [n \in 0..0 |-> base[0]]
    <3>2. Sol(f, 0)
      BY <3>1
    <3> QED
      BY <3>2
  <2>2. ASSUME NEW k \in Nat, k \in S
        PROVE  k + 1 \in S
    <3>1. PICK f : Sol(f, k)
      BY <2>2
    <3> DEFINE v == IF k + 1 \in Stop THEN base[k + 1] ELSE step[<<k + 1, f[down[k + 1]]>>]
               g == [n \in 0..(k + 1) |-> IF n <= k THEN f[n] ELSE v]
    <3>2. k + 1 \notin Stop => down[k + 1] \in 0..k
      OBVIOUS
    <3>3. v \in V
      BY <3>1, <3>2
    <3> HIDE DEF v
    <3>4. g \in [0..(k + 1) -> V]
      BY <3>1, <3>3
    <3>5. \A n \in 0..k : n \notin Stop => down[n] \in 0..k
      OBVIOUS
    <3>6. ASSUME NEW n \in 0..k
          PROVE  g[n] = IF n \in Stop THEN base[n] ELSE step[<<n, g[down[n]]>>]
      <4>1. g[n] = f[n] /\ (n \notin Stop => g[down[n]] = f[down[n]])
        BY <3>5
      <4> QED
        BY <3>1, <4>1
    <3>7. g[k + 1] = IF k + 1 \in Stop THEN base[k + 1] ELSE step[<<k + 1, g[down[k + 1]]>>]
      <4>1. g[k + 1] = v /\ (k + 1 \notin Stop => g[down[k + 1]] = f[down[k + 1]])
        BY <3>2
      <4> QED
        BY <4>1 DEF v
    <3>8. \A n \in 0..(k + 1) : n \in 0..k \/ n = k + 1
      OBVIOUS
    <3> HIDE DEF g
    <3>9. Sol(g, k + 1)
      BY <3>4, <3>6, <3>7, <3>8
    <3> QED
      BY <3>9
  <2> HIDE DEF S
  <2>3. Nat \subseteq S
    BY <2>1, <2>2, SetInduction
  <2> QED
    BY <2>3 DEF S
<1> DEFINE h == [n \in Nat |-> (CHOOSE f : Sol(f, n))[n]]
<1>3. \A n \in Nat : Sol(CHOOSE f : Sol(f, n), n)
  BY <1>2
<1>4. ASSUME NEW n \in Nat, NEW f, Sol(f, n), NEW m \in 0..n
      PROVE  h[m] = f[m]
  <2> HIDE DEF Sol
  <2>1. Sol(CHOOSE g : Sol(g, m), m)
    BY <1>3
  <2> QED
    BY <1>1, <1>4, <2>1
<1>5. ASSUME NEW n \in Nat
      PROVE  (CHOOSE f : Sol(f, n))[n] \in V
  <2>1. PICK f : f = CHOOSE g : Sol(g, n)
    OBVIOUS
  <2>2. f \in [0..n -> V] /\ n \in 0..n
    BY <1>3, <2>1
  <2> QED
    BY <2>1, <2>2
<1>6. ASSUME NEW n \in Nat
      PROVE  h[n] = IF n \in Stop THEN base[n] ELSE step[<<n, h[down[n]]>>]
  <2>1. PICK f : Sol(f, n)
    BY <1>2
  <2>2. h[n] = f[n] /\ (n \notin Stop => h[down[n]] = f[down[n]])
    <3>1. n \notin Stop => down[n] \in 0..n
      OBVIOUS
    <3> HIDE DEF Sol, h
    <3> QED
      BY <1>4, <2>1, <3>1
  <2>3. n \in 0..n
    OBVIOUS
  <2> HIDE DEF h
  <2> QED
    BY <2>1, <2>2, <2>3
<1>7. h \in [Nat -> V]
  <2> HIDE DEF Sol
  <2> QED
    BY <1>5
<1> HIDE DEF h
<1> QED
  BY <1>6, <1>7

-----------------------------------------------------------------------------
(* Division. *)

\* The quotient, the remainder, and what they make up.
LEMMA Division ==
    ASSUME NEW n \in Nat, NEW R \in Nat, R > 1
    PROVE  \E q \in Nat, r \in 0..(R - 1) :
              /\ q = n \div R
              /\ r = n % R
              /\ n = q * R + r
              /\ n < R => q = 0 /\ r = n
              /\ n >= R => q # 0 /\ q < n
<1>1. PICK q \in Int : q = n \div R
  OBVIOUS
<1>2. PICK r \in 0..(R - 1) : r = n % R
  OBVIOUS
<1>3. n % R = n - R * (n \div R)
  BY Z3
<1>4. n = q * R + r
  BY <1>1, <1>2, <1>3
<1>5. q >= 0
  <2>1. SUFFICES ASSUME q < 0 PROVE FALSE
    OBVIOUS
  <2>2. q * R <= (-1) * R
    BY <2>1
  <2> QED
    BY <1>4, <2>2
<1>6. q # 0 => q * R >= R
  BY <1>5
<1>7. n < R => q = 0 /\ r = n
  BY <1>4, <1>5, <1>6
<1>8. n >= R => q # 0 /\ q < n
  <2>1. q # 0 => q * R > q
    BY <1>5
  <2> QED
    BY <1>4, <1>5, <2>1
<1> QED
  BY <1>1, <1>2, <1>4, <1>5, <1>7, <1>8

\* There is one quotient and one remainder.
LEMMA DivisionIs ==
    ASSUME NEW R \in Nat, R > 1, NEW q \in Nat, NEW r \in 0..(R - 1),
           NEW n \in Nat, n = q * R + r
    PROVE  n \div R = q /\ n % R = r
<1>1. PICK p \in Nat, s \in 0..(R - 1) : p = n \div R /\ s = n % R /\ n = p * R + s
  BY Division
<1>2. p = q
  <2>1. p <= q - 1 => p * R <= (q - 1) * R
    OBVIOUS
  <2>2. q <= p - 1 => q * R <= (p - 1) * R
    OBVIOUS
  <2>3. (q - 1) * R = q * R - R /\ (p - 1) * R = p * R - R
    OBVIOUS
  <2> QED
    BY <1>1, <2>1, <2>2, <2>3
<1> QED
  BY <1>1, <1>2

\* A product of a sum.
LEMMA Distribute ==
    ASSUME NEW p \in Nat, NEW R \in Nat, NEW r \in Nat, NEW s \in Nat
    PROVE  (p * R + r) * s = p * (s * R) + r * s
<1>1. (p * R + r) * s = (p * R) * s + r * s
  OBVIOUS
<1>2. (p * R) * s = p * (s * R)
  OBVIOUS
<1> QED
  BY <1>1, <1>2

-----------------------------------------------------------------------------
(* Cutting a sequence. *)

\* Three sequences are concatenated in either order.
Regroup(s, t, u) == (s \o t) \o u = s \o (t \o u)

\* Every three sequences are.
LEMMA Regroups ==
    ASSUME NEW S, NEW s \in Seq(S), NEW t \in Seq(S), NEW u \in Seq(S)
    PROVE  Regroup(s, t, u)
BY ConcatAssociative DEF Regroup

\* The elements of two sequences together.
LEMMA ConcatElements ==
    ASSUME NEW S, NEW a \in Seq(S), NEW x \in Seq(S)
    PROVE  /\ \A i \in 1..Len(a) : (a \o x)[i] = a[i]
           /\ \A i \in 1..Len(x) : (a \o x)[Len(a) + i] = x[i]
OBVIOUS

\* A sequence of two is what its two elements make up.
LEMMA TwoElements ==
    ASSUME NEW S, NEW b \in Seq(S), Len(b) = 2
    PROVE  b = <<b[1], b[2]>>
<1>1. b[1] \in S /\ b[2] \in S
  <2>1. 1 \in 1..Len(b) /\ 2 \in 1..Len(b)
    OBVIOUS
  <2> QED
    BY <2>1, ElementOfSeq
<1>2. PICK d : d = <<b[1], b[2]>>
  OBVIOUS
<1>3. d \in Seq(S) /\ Len(d) = 2 /\ d[1] = b[1] /\ d[2] = b[2]
  BY <1>1, <1>2
<1>4. \A i \in 1..Len(b) : b[i] = d[i]
  BY <1>3
<1>5. b = d
  BY <1>3, <1>4, SeqEqual
<1> QED
  BY <1>2, <1>5

\* What is cut off at the length of a prefix is the prefix, and what stands
\* behind it the rest.
LEMMA CutConcat ==
    ASSUME NEW S, NEW a \in Seq(S), NEW x \in Seq(S)
    PROVE  /\ SubSeq(a \o x, 1, Len(a)) = a
           /\ SubSeq(a \o x, Len(a) + 1, Len(a \o x)) = x
<1>1. PICK k \in Nat : k = Len(a)
  OBVIOUS
<1>2. PICK n \in Nat : n = Len(x)
  OBVIOUS
<1>3. PICK b \in Seq(S) : b = a \o x
  BY ConcatProperties
<1>4. /\ Len(b) = k + n
      /\ \A i \in 1..k : b[i] = a[i]
      /\ \A i \in 1..n : b[k + i] = x[i]
  BY <1>1, <1>2, <1>3
<1>5. \A i \in 1..(k + n) : b[i] \in S
  BY <1>4, ElementOfSeq
<1>6. SubSeq(b, 1, k) = a
  <2>1. \A i \in 1..k : b[i] \in S
    BY <1>5
  <2>2. /\ SubSeq(b, 1, k) \in Seq(S)
        /\ Len(SubSeq(b, 1, k)) = k
        /\ \A i \in 1..k : SubSeq(b, 1, k)[i] = b[i]
    BY <2>1, SubSeqProperties
  <2> QED
    BY <1>1, <1>4, <2>2, SeqEqual
<1>7. SubSeq(b, k + 1, k + n) = x
  <2>1. \A i \in (k + 1)..(k + n) : b[i] \in S
    BY <1>5
  <2>2. /\ SubSeq(b, k + 1, k + n) \in Seq(S)
        /\ Len(SubSeq(b, k + 1, k + n)) = n
        /\ \A i \in 1..n : SubSeq(b, k + 1, k + n)[i] = b[k + i]
    BY <2>1, SubSeqProperties
  <2>3. \A i \in 1..n : SubSeq(b, k + 1, k + n)[i] = x[i]
    BY <1>4, <2>2
  <2> QED
    BY <1>2, <2>2, <2>3, SeqEqual
<1> QED
  BY <1>1, <1>3, <1>4, <1>6, <1>7

\* What stands between two others can be cut out.
LEMMA CutMiddle ==
    ASSUME NEW S, NEW a \in Seq(S), NEW x \in Seq(S), NEW y \in Seq(S)
    PROVE  SubSeq((a \o x) \o y, Len(a) + 1, Len(a) + Len(x)) = x
<1>1. PICK k \in Nat, n \in Nat : k = Len(a) /\ n = Len(x)
  OBVIOUS
<1>2. PICK c \in Seq(S) : c = a \o x /\ Len(c) = k + n
  BY <1>1, ConcatProperties
<1>3. SubSeq(c, k + 1, k + n) = x
  <2>1. SubSeq(a \o x, Len(a) + 1, Len(a \o x)) = x
    BY CutConcat
  <2> QED
    BY <1>1, <1>2, <2>1
<1>4. CASE n = 0
  <2>1. x = <<>>
    BY <1>1, <1>4, EmptySeq
  <2>2. SubSeq(c \o y, k + 1, k + n) = <<>>
    BY <1>4, SubSeqEmpty
  <2> QED
    BY <1>1, <1>2, <2>1, <2>2
<1>5. CASE n # 0
  <2>1. k + 1 \in 1..Len(c) /\ k + n \in 1..Len(c)
    BY <1>2, <1>5
  <2>2. SubSeq(c \o y, k + 1, k + n) = SubSeq(c, k + 1, k + n)
    BY <2>1, SubSeqOfConcat1
  <2> QED
    BY <1>1, <1>2, <1>3, <2>2
<1> QED
  BY <1>4, <1>5

\* A sequence is its first n elements and the others.
LEMMA SplitAt ==
    ASSUME NEW S, NEW s \in Seq(S), NEW n \in 0..Len(s)
    PROVE  /\ SubSeq(s, 1, n) \in Seq(S) /\ Len(SubSeq(s, 1, n)) = n
           /\ SubSeq(s, n + 1, Len(s)) \in Seq(S)
           /\ SubSeq(s, 1, n) \o SubSeq(s, n + 1, Len(s)) = s
<1>1. PICK k \in Nat : k = Len(s)
  OBVIOUS
<1>2. SubSeq(s, 1, n) \in Seq(S) /\ Len(SubSeq(s, 1, n)) = n
  <2>1. 1 \in Int /\ n \in Int /\ \A i \in 1..n : s[i] \in S
    BY <1>1, ElementOfSeq
  <2>2. SubSeq(s, 1, n) \in Seq(S) /\ Len(SubSeq(s, 1, n)) = IF 1 <= n THEN n - 1 + 1 ELSE 0
    BY <2>1, SubSeqProperties
  <2> QED
    BY <2>2
<1>3. SubSeq(s, n + 1, k) \in Seq(S)
  <2>1. n + 1 \in Int /\ k \in Int /\ \A i \in (n + 1)..k : s[i] \in S
    BY <1>1, ElementOfSeq
  <2> QED
    BY <2>1, SubSeqProperties
<1>4. SubSeq(s, 1, n) \o SubSeq(s, n + 1, k) = SubSeq(s, 1, k)
  <2>1. 1 \in 1..(Len(s) + 1) /\ n \in (1 - 1)..Len(s) /\ k \in n..Len(s)
    BY <1>1
  <2> QED
    BY <2>1, ConcatAdjacentSubSeq
<1>5. SubSeq(s, 1, k) = s
  BY <1>1, SubSeqFull
<1> QED
  BY <1>1, <1>2, <1>3, <1>4, <1>5

\* A sequence is a prefix of what it begins.
LEMMA CutPrefix ==
    ASSUME NEW S, NEW s \in Seq(S), NEW c \in Seq(S)
    PROVE  IsPrefix(s, s \o c)
<1>1. SubSeq(s \o c, 1, Len(s)) = s
  BY CutConcat
<1>2. SubSeq(s, 1, Len(s)) = s
  BY SubSeqFull
<1>3. Len(s) <= Len(s \o c)
  BY ConcatProperties
<1> QED
  BY <1>1, <1>2, <1>3 DEF IsPrefix

\* A prefix lacks something at its end.
LEMMA PrefixCut ==
    ASSUME NEW S, NEW s \in Seq(S), NEW t \in Seq(S), IsPrefix(s, t)
    PROVE  \E c \in Seq(S) : s \o c = t
<1>1. Len(s) \in 0..Len(t) /\ SubSeq(t, 1, Len(s)) = SubSeq(s, 1, Len(s))
  BY DEF IsPrefix
<1>2. SubSeq(s, 1, Len(s)) = s
  BY SubSeqFull
<1>3. PICK c : c = SubSeq(t, Len(s) + 1, Len(t))
  OBVIOUS
<1>4. c \in Seq(S) /\ SubSeq(t, 1, Len(s)) \o c = t
  BY <1>1, <1>3, SplitAt
<1>5. s \o c = t
  BY <1>1, <1>2, <1>4
<1> QED
  BY <1>4, <1>5

\* What is cut off at the end of a prefix leaves a prefix.
LEMMA PrefixOfPrefix ==
    ASSUME NEW S, NEW s \in Seq(S), NEW t \in Seq(S), IsPrefix(s, t), NEW n \in 0..Len(s)
    PROVE  SubSeq(s, 1, n) \in Seq(S) /\ IsPrefix(SubSeq(s, 1, n), t)
<1>1. PICK c \in Seq(S) : s \o c = t
  BY PrefixCut
<1>2. PICK a \in Seq(S), b \in Seq(S) : a = SubSeq(s, 1, n) /\ a \o b = s
  <2>1. PICK a : a = SubSeq(s, 1, n)
    OBVIOUS
  <2>2. PICK b : b = SubSeq(s, n + 1, Len(s))
    OBVIOUS
  <2>3. a \in Seq(S) /\ b \in Seq(S) /\ a \o b = s
    BY <2>1, <2>2, SplitAt
  <2> QED
    BY <2>1, <2>3
<1>3. Regroup(a, b, c)
  BY Regroups
<1>4. b \o c \in Seq(S) /\ t = a \o (b \o c)
  BY <1>1, <1>2, <1>3, ConcatProperties DEF Regroup
<1> QED
  BY <1>2, <1>4, CutPrefix

\* A prefix that is long enough begins with the first of two sequences, and the
\* others of its elements are a prefix of the second.
LEMMA TakeFront ==
    ASSUME NEW S, NEW s \in Seq(S), NEW a \in Seq(S), NEW x \in Seq(S),
           IsPrefix(s, a \o x), Len(s) >= Len(a)
    PROVE  /\ SubSeq(s, 1, Len(a)) = a
           /\ SubSeq(s, Len(a) + 1, Len(s)) \in Seq(S)
           /\ IsPrefix(SubSeq(s, Len(a) + 1, Len(s)), x)
           /\ s = a \o x => SubSeq(s, Len(a) + 1, Len(s)) = x
<1>1. a \o x \in Seq(S)
  BY ConcatProperties
<1>2. PICK c \in Seq(S) : s \o c = a \o x
  BY <1>1, PrefixCut
<1>3. PICK p, d : p = SubSeq(s, 1, Len(a)) /\ d = SubSeq(s, Len(a) + 1, Len(s))
  OBVIOUS
<1>4. p \in Seq(S) /\ Len(p) = Len(a) /\ d \in Seq(S) /\ p \o d = s
  <2>1. PICK n \in 0..Len(s) : n = Len(a)
    OBVIOUS
  <2>2. /\ SubSeq(s, 1, n) \in Seq(S) /\ Len(SubSeq(s, 1, n)) = n
        /\ SubSeq(s, n + 1, Len(s)) \in Seq(S)
        /\ SubSeq(s, 1, n) \o SubSeq(s, n + 1, Len(s)) = s
    BY SplitAt
  <2> QED
    BY <1>3, <2>1, <2>2
<1>5. PICK e \in Seq(S) : e = d \o c
  BY <1>4, ConcatProperties
<1>6. p \o e = a \o x
  <2>1. Regroup(p, d, c)
    BY <1>4, Regroups
  <2> QED
    BY <1>2, <1>4, <1>5, <2>1 DEF Regroup
<1>7. /\ SubSeq(p \o e, 1, Len(p)) = p
      /\ SubSeq(p \o e, Len(p) + 1, Len(p \o e)) = e
  BY <1>4, CutConcat
<1>8. /\ SubSeq(a \o x, 1, Len(a)) = a
      /\ SubSeq(a \o x, Len(a) + 1, Len(a \o x)) = x
  BY CutConcat
<1>9. p = a /\ d \o c = x
  BY <1>4, <1>5, <1>6, <1>7, <1>8
<1>10. IsPrefix(d, x)
  BY <1>4, <1>9, CutPrefix
<1>11. s = a \o x => d = x
  BY <1>3, <1>8
<1> QED
  BY <1>3, <1>4, <1>9, <1>10, <1>11

-----------------------------------------------------------------------------
(* Concatenating a sequence of sequences. *)

\* The parts of FlattenSeq, one sequence longer each.
LEMMA FlattenPrefixes ==
    ASSUME NEW V, NEW ss \in Seq(Seq(V))
    PROVE  \E g \in [Nat -> Seq(V)] :
              /\ g[0] = <<>>
              /\ \A i \in 1..Len(ss) : g[i] = g[i - 1] \o ss[i]
<1> DEFINE Stop == {0}
           down == [n \in Nat |-> n - 1]
           base == [n \in Nat |-> <<>>]
           step == [x \in Nat \X Seq(V) |->
                      IF x[1] \in 1..Len(ss) THEN x[2] \o ss[x[1]] ELSE x[2]]
<1>1. GoesDown(Seq(V), Stop, down, base, step)
  <2>1. ASSUME NEW n \in Nat, NEW v \in Seq(V)
        PROVE  step[<<n, v>>] \in Seq(V)
    <3>1. step[<<n, v>>] = IF n \in 1..Len(ss) THEN v \o ss[n] ELSE v
      OBVIOUS
    <3>2. n \in 1..Len(ss) => v \o ss[n] \in Seq(V)
      OBVIOUS
    <3> QED
      BY <3>1, <3>2
  <2>2. \A n \in Nat : base[n] \in Seq(V) /\ (n \notin Stop => down[n] \in Nat /\ down[n] < n)
    OBVIOUS
  <2> HIDE DEF Stop, down, base, step
  <2> QED
    BY <2>1, <2>2 DEF GoesDown
<1>4. PICK g \in [Nat -> Seq(V)] : Follows(g, Stop, down, base, step)
  <2> HIDE DEF Stop, down, base, step
  <2> QED
    BY <1>1, RecursionExists
<1>5. g[0] = <<>>
  BY <1>4 DEF Follows
<1>6. ASSUME NEW i \in 1..Len(ss)
      PROVE  g[i] = g[i - 1] \o ss[i]
  <2>1. i \in Nat /\ i - 1 \in Nat /\ i \notin Stop /\ down[i] = i - 1
    OBVIOUS
  <2>2. g[i] = step[<<i, g[i - 1]>>]
    <3> HIDE DEF step, base, down, Stop
    <3> QED
      BY <1>4, <2>1 DEF Follows
  <2>3. <<i, g[i - 1]>> \in Nat \X Seq(V)
    BY <2>1
  <2> QED
    BY <2>2, <2>3
<1> QED
  BY <1>5, <1>6

\* FlattenSeq is the last of its parts.
LEMMA FlattenIs ==
    ASSUME NEW V, NEW ss \in Seq(Seq(V)), NEW g \in [Nat -> Seq(V)],
           g[0] = <<>>, \A i \in 1..Len(ss) : g[i] = g[i - 1] \o ss[i]
    PROVE  FlattenSeq(ss) = g[Len(ss)]
<1>0. PICK n \in Nat : n = Len(ss)
  OBVIOUS
<1>1. CASE n = 0
  <2>1. ss = <<>>
    BY <1>0, <1>1, EmptySeq
  <2> QED
    BY <1>0, <1>1, <2>1 DEF FlattenSeq
<1>2. CASE n # 0
  <2> DEFINE h == [i \in 1..n |-> g[i]]
             flatten == CHOOSE f : f = [i \in 1..Len(ss) |->
                                          IF i = 1 THEN ss[i] ELSE f[i - 1] \o ss[i]]
  <2>1. ASSUME NEW i \in 1..n
        PROVE  g[i] = IF i = 1 THEN ss[i] ELSE h[i - 1] \o ss[i]
    <3>1. i \in 1..Len(ss) /\ i \in Nat /\ ss[i] \in Seq(V) /\ g[i] = g[i - 1] \o ss[i]
      <4>1. i \in 1..Len(ss) /\ i \in Nat
        BY <1>0
      <4>2. ss[i] \in Seq(V)
        BY <4>1, ElementOfSeq
      <4> HIDE DEF h, flatten
      <4> QED
        BY <4>1, <4>2
    <3>2. CASE i = 1
      <4>1. g[i - 1] = <<>> /\ <<>> \o ss[i] = ss[i]
        BY <3>1, <3>2, ConcatEmptySeq
      <4> QED
        BY <3>1, <3>2, <4>1
    <3>3. CASE i # 1
      <4>1. i - 1 \in 1..n
        BY <3>3
      <4> QED
        BY <3>1, <3>3, <4>1
    <3> QED
      BY <3>2, <3>3
  <2>2. h = [i \in 1..Len(ss) |-> IF i = 1 THEN ss[i] ELSE h[i - 1] \o ss[i]]
    <3>1. h = [i \in 1..n |-> IF i = 1 THEN ss[i] ELSE h[i - 1] \o ss[i]]
      BY <2>1
    <3> HIDE DEF h
    <3> QED
      BY <1>0, <3>1
  <2>3. flatten = [i \in 1..Len(ss) |-> IF i = 1 THEN ss[i] ELSE flatten[i - 1] \o ss[i]]
    <3> HIDE DEF h
    <3> QED
      BY Zenon, <2>2
  <2>4. FlattenSeq(ss) = flatten[n]
    BY Zenon, <1>0, <1>2 DEF FlattenSeq
  <2> HIDE DEF flatten
  <2>5. \A i \in 1..n : flatten[i] = IF i = 1 THEN ss[i] ELSE flatten[i - 1] \o ss[i]
    BY <1>0, <2>3
  <2>6. ASSUME NEW i \in 1..n, i # 1 => flatten[i - 1] = g[i - 1]
        PROVE  flatten[i] = g[i]
    <3>1. i # 1 => i - 1 \in 1..n
      OBVIOUS
    <3> HIDE DEF h
    <3>2. i # 1 => h[i - 1] = g[i - 1]
      BY <3>1 DEF h
    <3> QED
      BY <2>1, <2>5, <2>6, <3>2
  <2> DEFINE S == {i \in Nat : i < n => flatten[i + 1] = g[i + 1]}
  <2>7. 0 \in S
    <3>1. 1 \in 1..n
      BY <1>2
    <3> QED
      BY <2>6, <3>1
  <2>8. ASSUME NEW i \in Nat, i \in S
        PROVE  i + 1 \in S
    <3>1. ASSUME i + 1 < n
          PROVE  flatten[(i + 1) + 1] = g[(i + 1) + 1]
      <4>1. (i + 1) + 1 \in 1..n /\ ((i + 1) + 1) - 1 = i + 1
        BY <3>1
      <4>2. flatten[i + 1] = g[i + 1]
        BY <2>8, <3>1
      <4> QED
        BY <2>6, <4>1, <4>2
    <3> QED
      BY <3>1
  <2>9. Nat \subseteq S
    <3> HIDE DEF S
    <3> QED
      BY <2>7, <2>8, SetInduction
  <2>10. n - 1 \in Nat /\ n - 1 < n /\ (n - 1) + 1 = n
    BY <1>2
  <2>11. flatten[n] = g[n]
    BY <2>9, <2>10
  <2> QED
    BY <1>0, <2>4, <2>11
<1> QED
  BY <1>1, <1>2

\* One more sequence comes last.
LEMMA FlattenAppend ==
    ASSUME NEW V, NEW ss \in Seq(Seq(V)), NEW s \in Seq(V)
    PROVE  FlattenSeq(Append(ss, s)) = FlattenSeq(ss) \o s
<1> DEFINE tt == Append(ss, s)
<1>0. PICK n \in Nat : n = Len(ss)
  OBVIOUS
<1>1. PICK g \in [Nat -> Seq(V)] : g[0] = <<>> /\ \A i \in 1..n : g[i] = g[i - 1] \o ss[i]
  BY <1>0, FlattenPrefixes
<1> PICK last \in Seq(V) : last = g[n] \o s
  BY ConcatProperties
<1> DEFINE h == [i \in Nat |-> IF i <= n THEN g[i] ELSE last]
<1>2. tt \in Seq(Seq(V)) /\ Len(tt) = n + 1 /\ tt[n + 1] = s /\ \A i \in 1..n : tt[i] = ss[i]
  BY <1>0
<1> HIDE DEF tt
<1>3. h \in [Nat -> Seq(V)]
  OBVIOUS
<1>4. /\ h[n + 1] = g[n] \o s
      /\ h[0] = g[0]
      /\ \A i \in 0..n : h[i] = g[i]
  <2>1. h[n + 1] = last
    <3>1. n + 1 \in Nat /\ ~(n + 1 <= n)
      OBVIOUS
    <3> QED
      BY <3>1, Zenon
  <2>2. h[0] = g[0] /\ \A i \in 0..n : h[i] = g[i]
    OBVIOUS
  <2> HIDE DEF h
  <2> QED
    BY <2>1, <2>2
<1> HIDE DEF h
<1>5. ASSUME NEW i \in 1..(n + 1)
      PROVE  h[i] = h[i - 1] \o tt[i]
  <2>1. CASE i = n + 1
    <3>1. i - 1 = n /\ n \in 0..n
      BY <2>1
    <3> QED
      BY <1>2, <1>4, <2>1, <3>1
  <2>2. CASE i \in 1..n
    <3>1. i - 1 \in 0..n /\ i \in 0..n
      BY <2>2
    <3> QED
      BY <1>1, <1>2, <1>4, <2>2, <3>1
  <2> QED
    <3>1. i = n + 1 \/ i \in 1..n
      OBVIOUS
    <3> QED
      BY <2>1, <2>2, <3>1
<1>6. FlattenSeq(tt) = h[n + 1]
  <2>1. h[0] = <<>>
    BY <1>1, <1>4
  <2> QED
    BY <1>2, <1>3, <1>5, <2>1, FlattenIs
<1>7. FlattenSeq(ss) = g[n]
  BY <1>0, <1>1, FlattenIs
<1> QED
  BY <1>4, <1>6, <1>7 DEF tt

\* One more sequence comes first.
LEMMA FlattenFront ==
    ASSUME NEW V, NEW ss \in Seq(Seq(V)), NEW s \in Seq(V)
    PROVE  FlattenSeq(<<s>> \o ss) = s \o FlattenSeq(ss)
<1>0. PICK n \in Nat : n = Len(ss)
  OBVIOUS
<1>1. PICK g \in [Nat -> Seq(V)] : g[0] = <<>> /\ \A i \in 1..n : g[i] = g[i - 1] \o ss[i]
  BY <1>0, FlattenPrefixes
<1>2. PICK tt \in Seq(Seq(V)) : tt = <<s>> \o ss
  <2>1. <<s>> \in Seq(Seq(V))
    OBVIOUS
  <2> QED
    BY <2>1, ConcatProperties
<1>3. Len(tt) = n + 1 /\ tt[1] = s /\ \A i \in 1..n : tt[i + 1] = ss[i]
  BY <1>0, <1>2
<1>4. PICK h \in [Nat -> Seq(V)] : h[0] = <<>> /\ \A i \in 1..(n + 1) : h[i] = h[i - 1] \o tt[i]
  <2>1. \E h \in [Nat -> Seq(V)] : h[0] = <<>> /\ \A i \in 1..Len(tt) : h[i] = h[i - 1] \o tt[i]
    BY FlattenPrefixes
  <2> QED
    BY <1>3, <2>1
<1>5. FlattenSeq(tt) = h[n + 1] /\ FlattenSeq(ss) = g[n]
  <2>1. n + 1 = Len(tt) /\ n + 1 \in Nat
    BY <1>3
  <2>2. FlattenSeq(tt) = h[n + 1]
    BY <1>4, <2>1, FlattenIs
  <2>3. FlattenSeq(ss) = g[n]
    BY <1>0, <1>1, FlattenIs
  <2> QED
    BY <2>2, <2>3
<1> DEFINE S == {i \in Nat : i <= n => h[i + 1] = s \o g[i]}
<1>10. \A i \in S : i <= n => h[i + 1] = s \o g[i]
  OBVIOUS
<1>6. 0 \in S
  <2>1. h[1] = h[0] \o tt[1]
    <3>1. 1 \in 1..(n + 1) /\ 1 - 1 = 0
      OBVIOUS
    <3> QED
      BY <1>4, <3>1
  <2>2. h[0] \o tt[1] = s
    BY <1>3, <1>4, ConcatEmptySeq
  <2>3. s \o g[0] = s
    BY <1>1, ConcatEmptySeq
  <2>4. h[0 + 1] = s \o g[0]
    BY <2>1, <2>2, <2>3
  <2> QED
    BY <2>4
<1>7. ASSUME NEW i \in Nat, i \in S
      PROVE  i + 1 \in S
  <2>1. ASSUME i + 1 <= n
        PROVE  h[(i + 1) + 1] = s \o g[i + 1]
    <3>1. i + 1 \in 1..n /\ (i + 1) + 1 \in 1..(n + 1) /\ ((i + 1) + 1) - 1 = i + 1 /\ (i + 1) - 1 = i
      BY <2>1
    <3>2. h[i + 1] = s \o g[i]
      <4>1. i <= n
        BY <2>1
      <4> HIDE DEF S
      <4> QED
        BY <1>7, <1>10, <4>1
    <3>3. h[(i + 1) + 1] = h[i + 1] \o ss[i + 1]
      BY <1>3, <1>4, <3>1
    <3>4. g[i + 1] = g[i] \o ss[i + 1]
      BY <1>1, <3>1
    <3>5. g[i] \in Seq(V) /\ ss[i + 1] \in Seq(V)
      BY <1>0, <3>1, ElementOfSeq
    <3>6. PICK a \in Seq(V), b \in Seq(V) : a = g[i] /\ b = ss[i + 1]
      BY <3>5
    <3> HIDE DEF S
    <3>7. Regroup(s, a, b)
      BY Regroups
    <3> QED
      BY <3>2, <3>3, <3>4, <3>6, <3>7 DEF Regroup
  <2>2. i + 1 <= n => h[(i + 1) + 1] = s \o g[i + 1]
    BY <2>1
  <2>3. i + 1 \in Nat
    OBVIOUS
  <2> QED
    BY Zenon, <2>2, <2>3
<1>8. Nat \subseteq S
  <2> HIDE DEF S
  <2> QED
    BY <1>6, <1>7, SetInduction
<1>9. h[n + 1] = s \o g[n]
  <2> HIDE DEF S
  <2>1. n \in S /\ n <= n
    BY <1>8
  <2> QED
    BY Zenon, <1>10, <2>1
<1> QED
  BY <1>2, <1>5, <1>9

\* What comes of sequences over V is one.
LEMMA FlattenType ==
    ASSUME NEW V, NEW ss \in Seq(Seq(V))
    PROVE  FlattenSeq(ss) \in Seq(V)
<1>1. PICK g \in [Nat -> Seq(V)] : g[0] = <<>> /\ \A i \in 1..Len(ss) : g[i] = g[i - 1] \o ss[i]
  BY FlattenPrefixes
<1>2. FlattenSeq(ss) = g[Len(ss)]
  BY <1>1, FlattenIs
<1>3. PICK n \in Nat : n = Len(ss)
  OBVIOUS
<1> QED
  BY <1>2, <1>3

\* Of no sequences nothing comes.
LEMMA FlattenEmpty == FlattenSeq(<<>>) = <<>>
BY DEF FlattenSeq

\* at says where each element of s was picked from the first n of the sequences
\* of ss, in their order and without leaving one out.
PickedAt(at, s, ss, n) ==
    /\ \A i \in 1..Len(s) : at[i] \in Nat /\ 1 <= at[i] /\ at[i] <= n
    /\ \A i \in 1..Len(s) : ss[at[i]] = <<s[i]>>
    /\ \A i, j \in 1..Len(s) : i < j => at[i] < at[j]
    /\ \A k \in 1..n : ss[k] # <<>> => \E i \in 1..Len(s) : at[i] = k

\* An empty sequence adds nothing.
LEMMA PickNone ==
    ASSUME NEW ss, NEW k \in Nat, NEW a, NEW at, NEW m \in Nat, Len(a) = m,
           PickedAt(at, a, ss, k), ss[k + 1] = <<>>
    PROVE  PickedAt(at, a, ss, k + 1)
<1>1. \A i \in 1..m : at[i] \in Nat /\ 1 <= at[i] /\ at[i] <= k
  BY DEF PickedAt
<1>2. \A i \in 1..m : at[i] <= k + 1
  BY <1>1
<1>3. \A x \in 1..(k + 1) : x \in 1..k \/ x = k + 1
  OBVIOUS
<1> QED
  BY <1>1, <1>2, <1>3 DEF PickedAt

\* A sequence of one element adds that.
LEMMA PickOne ==
    ASSUME NEW ss, NEW k \in Nat, NEW a, NEW at, NEW m \in Nat, NEW s, NEW v,
           Len(a) = m, Len(s) = m + 1, s[m + 1] = v, \A i \in 1..m : s[i] = a[i],
           PickedAt(at, a, ss, k), ss[k + 1] = <<v>>
    PROVE  \E b : PickedAt(b, s, ss, k + 1)
<1>1. /\ \A i \in 1..m : at[i] \in Nat /\ 1 <= at[i] /\ at[i] <= k
      /\ \A i \in 1..m : ss[at[i]] = <<a[i]>>
      /\ \A i, j \in 1..m : i < j => at[i] < at[j]
      /\ \A x \in 1..k : ss[x] # <<>> => \E i \in 1..m : at[i] = x
  BY DEF PickedAt
<1>2. PICK b : b = [i \in Nat |-> IF i = m + 1 THEN k + 1 ELSE at[i]]
  OBVIOUS
<1>3. b[m + 1] = k + 1 /\ \A i \in 1..m : b[i] = at[i]
  BY <1>2
<1>4. \A i \in 1..(m + 1) : i \in 1..m \/ i = m + 1
  OBVIOUS
<1>5. \A i \in 1..(m + 1) : b[i] \in Nat /\ 1 <= b[i] /\ b[i] <= k + 1
  BY <1>1, <1>3, <1>4
<1>6. \A i \in 1..(m + 1) : ss[b[i]] = <<s[i]>>
  BY <1>1, <1>3, <1>4
<1>7. \A i, j \in 1..(m + 1) : i < j => b[i] < b[j]
  <2> SUFFICES ASSUME NEW i \in 1..(m + 1), NEW j \in 1..(m + 1), i < j
               PROVE  b[i] < b[j]
    OBVIOUS
  <2>1. i \in 1..m
    OBVIOUS
  <2>2. b[i] = at[i] /\ at[i] \in Nat /\ at[i] <= k
    BY <1>1, <1>3, <2>1
  <2>3. CASE j = m + 1
    BY <1>3, <2>2, <2>3
  <2>4. CASE j \in 1..m
    BY <1>1, <1>3, <2>1, <2>2, <2>4
  <2> QED
    BY <1>4, <2>3, <2>4
<1>8. \A x \in 1..(k + 1) : ss[x] # <<>> => \E i \in 1..(m + 1) : b[i] = x
  <2>1. m + 1 \in 1..(m + 1) /\ \A i \in 1..m : i \in 1..(m + 1)
    OBVIOUS
  <2>2. \A x \in 1..(k + 1) : x \in 1..k \/ x = k + 1
    OBVIOUS
  <2>3. ASSUME NEW x \in 1..k, ss[x] # <<>>
        PROVE  \E i \in 1..(m + 1) : b[i] = x
    BY Zenon, <1>1, <1>3, <2>1, <2>3
  <2> QED
    BY <1>3, <2>1, <2>2, <2>3
<1>9. PickedAt(b, s, ss, k + 1)
  <2>1. Len(s) = m + 1
    OBVIOUS
  <2> QED
    BY Zenon, <1>5, <1>6, <1>7, <1>8, <2>1 DEF PickedAt
<1> QED
  BY <1>9

\* Sequences of at most one element each make up what they hold, in order.
LEMMA PickedInOrder ==
    ASSUME NEW V, NEW ss \in Seq(Seq(V)),
           \A k \in 1..Len(ss) : ss[k] = <<>> \/ \E v \in V : ss[k] = <<v>>
    PROVE  \E at : PickedAt(at, FlattenSeq(ss), ss, Len(ss))
<1>0. PICK n \in Nat : n = Len(ss)
  OBVIOUS
<1>1. PICK g \in [Nat -> Seq(V)] : g[0] = <<>> /\ \A i \in 1..n : g[i] = g[i - 1] \o ss[i]
  BY <1>0, FlattenPrefixes
<1>2. FlattenSeq(ss) = g[n]
  BY <1>0, <1>1, FlattenIs
<1> DEFINE S == {k \in Nat : k <= n => \E at : PickedAt(at, g[k], ss, k)}
<1>3. 0 \in S
  <2>1. Len(g[0]) = 0
    BY <1>1
  <2>2. 1..Len(g[0]) = {} /\ 1..0 = {}
    BY <2>1
  <2>4. PickedAt(<<>>, g[0], ss, 0)
    BY <2>2 DEF PickedAt
  <2> QED
    BY <2>4
<1>4. ASSUME NEW k \in Nat, k \in S
      PROVE  k + 1 \in S
  <2>1. ASSUME k + 1 <= n
        PROVE  \E at : PickedAt(at, g[k + 1], ss, k + 1)
    <3>1. k + 1 \in 1..n /\ (k + 1) - 1 = k
      BY <2>1
    <3>2. g[k + 1] = g[k] \o ss[k + 1]
      BY <1>1, <3>1
    <3>3. PICK a \in Seq(V), m \in Nat : a = g[k] /\ m = Len(a)
      OBVIOUS
    <3>4. PICK at : PickedAt(at, a, ss, k)
      <4>1. k <= n
        BY <2>1
      <4> QED
        BY <1>4, <3>3, <4>1
    <3> HIDE DEF S
    <3>5. CASE ss[k + 1] = <<>>
      <4>1. g[k + 1] = a
        BY <3>2, <3>3, <3>5, ConcatEmptySeq
      <4>2. PickedAt(at, a, ss, k + 1)
        BY <3>3, <3>4, <3>5, PickNone
      <4> QED
        BY <4>1, <4>2
    <3>6. ASSUME NEW v \in V, ss[k + 1] = <<v>>
          PROVE  \E b : PickedAt(b, g[k + 1], ss, k + 1)
      <4>1. PICK s : s = Append(a, v)
        OBVIOUS
      <4>2. Len(s) = m + 1 /\ s[m + 1] = v /\ \A i \in 1..m : s[i] = a[i]
        BY <3>3, <4>1
      <4>3. g[k + 1] = s
        BY <3>2, <3>3, <3>6, <4>1
      <4>4. \E b : PickedAt(b, s, ss, k + 1)
        BY <3>3, <3>4, <3>6, <4>2, PickOne
      <4> QED
        BY <4>3, <4>4
    <3> QED
      BY <1>0, <3>1, <3>5, <3>6
  <2>2. k + 1 \in Nat
    OBVIOUS
  <2> QED
    BY Zenon, <2>1, <2>2
<1>5. Nat \subseteq S
  <2> HIDE DEF S
  <2> QED
    BY <1>3, <1>4, SetInduction
<1>6. n <= n
  OBVIOUS
<1>7. \E at : PickedAt(at, g[n], ss, n)
  BY Zenon, <1>5, <1>6
<1> QED
  BY <1>0, <1>2, <1>7

-----------------------------------------------------------------------------
(* The order of firmware versions, for every version ParseVersion returns: *)
(* what CompareVersions answers is the order of the four components, read  *)
(* from the first.                                                         *)

\* A version has one to four components, all natural, and zero past its end.
LEMMA VersionAt ==
    ASSUME NEW v \in Version
    PROVE  /\ Len(v) \in 1..4
           /\ \A i \in 1..4 : At(v, i) \in Nat
           /\ \A i \in 1..4 : i > Len(v) => At(v, i) = 0
<1>1. v \in Seq(Number) /\ Len(v) \in 1..MaxParts
  BY DEF Version
<1>2. Len(v) \in 1..4
  BY <1>1 DEF MaxParts
<1>3. \A n \in Number : n \in Nat
  BY DEF Number
<1>4. \A i \in 1..4 : i <= Len(v) => v[i] \in Nat
  BY <1>1, <1>2, <1>3
<1> QED
  BY <1>2, <1>4 DEF At

\* a and b differ at component i and nowhere before it.
DifferFirst(a, b, i) ==
    At(a, i) # At(b, i) /\ \A j \in 1..4 : j < i => At(a, j) = At(b, j)

\* Two versions are the same in all four components, or CompareVersions answers
\* at the first at which they differ.
LEMMA ComparedAtFirst ==
    ASSUME NEW a \in Version, NEW b \in Version
    PROVE  \/ CompareVersions(a, b) = 0 /\ \A i \in 1..4 : At(a, i) = At(b, i)
           \/ \E i \in 1..4 :
                 /\ DifferFirst(a, b, i)
                 /\ CompareVersions(a, b) = IF At(a, i) < At(b, i) THEN -1 ELSE 1
<1> DEFINE longest == IF Len(a) > Len(b) THEN Len(a) ELSE Len(b)
           differ  == {i \in 1..longest : At(a, i) # At(b, i)}
<1>1. /\ Len(a) \in 1..4 /\ Len(b) \in 1..4 /\ longest \in 1..4
      /\ \A i \in 1..4 : At(a, i) \in Nat /\ At(b, i) \in Nat
  BY VersionAt
<1>2. ASSUME NEW i \in 1..4, At(a, i) # At(b, i)
      PROVE  i \in differ
  <2>1. i > Len(a) => At(a, i) = 0
    BY VersionAt
  <2>2. i > Len(b) => At(b, i) = 0
    BY VersionAt
  <2>3. i <= Len(a) \/ i <= Len(b)
    BY <1>1, <1>2, <2>1, <2>2
  <2>4. i <= longest
    BY <1>1, <2>3
  <2> HIDE DEF longest
  <2> QED
    BY <1>1, <1>2, <2>4
<1>3. differ \subseteq 1..4 /\ \A i \in differ : At(a, i) # At(b, i)
  <2>1. longest \in 1..4
    BY <1>1
  <2> HIDE DEF longest
  <2> QED
    BY <2>1
<1>4. CASE differ = {}
  <2>1. CompareVersions(a, b) = 0
    BY <1>4 DEF CompareVersions
  <2>2. \A i \in 1..4 : At(a, i) = At(b, i)
    BY <1>2, <1>4
  <2> QED
    BY <2>1, <2>2
<1>5. CASE differ # {}
  <2> DEFINE first == CHOOSE i \in differ : \A j \in differ : i <= j
  <2>1. \E i \in differ : \A j \in differ : i <= j
    <3> HIDE DEF differ
    <3>1. \E i \in 1..4 : i \in differ
      BY <1>3, <1>5
    <3>2. \E i \in {1, 2, 3, 4} : i \in differ /\ \A j \in {1, 2, 3, 4} : j \in differ => i <= j
      BY <3>1
    <3> QED
      BY <1>3, <3>2
  <2>2. first \in differ /\ \A j \in differ : first <= j
    BY <2>1
  <2>3. CompareVersions(a, b) = IF At(a, first) < At(b, first) THEN -1 ELSE 1
    BY <1>5 DEF CompareVersions
  <2> HIDE DEF differ, first
  <2>4. first \in 1..4 /\ At(a, first) # At(b, first)
    BY <1>3, <2>2
  <2>5. \A j \in 1..4 : j < first => At(a, j) = At(b, j)
    BY <1>1, <1>2, <2>2, <2>4
  <2> QED
    BY <2>3, <2>4, <2>5 DEF DifferFirst
<1> QED
  BY <1>4, <1>5

\* One version is newer than another when it is greater at the first of the
\* four components at which they differ.
LEMMA NewerIsLexicographic ==
    ASSUME NEW a \in Version, NEW b \in Version
    PROVE  Newer(a, b) <=>
              \E i \in 1..4 : /\ At(a, i) > At(b, i)
                              /\ \A j \in 1..4 : j < i => At(a, j) = At(b, j)
<1>1. \A i \in 1..4 : At(a, i) \in Nat /\ At(b, i) \in Nat
  BY VersionAt
<1>2. CASE CompareVersions(a, b) = 0 /\ \A i \in 1..4 : At(a, i) = At(b, i)
  BY <1>1, <1>2 DEF Newer
<1>3. ASSUME NEW i \in 1..4, DifferFirst(a, b, i),
             CompareVersions(a, b) = IF At(a, i) < At(b, i) THEN -1 ELSE 1
      PROVE  Newer(a, b) <=>
                \E k \in 1..4 : /\ At(a, k) > At(b, k)
                                /\ \A j \in 1..4 : j < k => At(a, j) = At(b, j)
  <2>1. At(a, i) # At(b, i) /\ \A j \in 1..4 : j < i => At(a, j) = At(b, j)
    BY <1>3 DEF DifferFirst
  <2>2. Newer(a, b) <=> At(a, i) > At(b, i)
    BY <1>1, <1>3, <2>1 DEF Newer
  <2>3. ASSUME NEW k \in 1..4, At(a, k) > At(b, k),
               \A j \in 1..4 : j < k => At(a, j) = At(b, j)
        PROVE  k = i
    BY <1>1, <2>1, <2>3
  <2> QED
    BY <2>1, <2>2, <2>3
<1> QED
  BY <1>2, <1>3, ComparedAtFirst

\* The order of versions is transitive.
LEMMA NewerTransitive ==
    ASSUME NEW a \in Version, NEW b \in Version, NEW c \in Version,
           Newer(a, b), Newer(b, c)
    PROVE  Newer(a, c)
<1>1. \A i \in 1..4 : At(a, i) \in Nat /\ At(b, i) \in Nat /\ At(c, i) \in Nat
  BY VersionAt
<1>2. PICK i \in 1..4 : /\ At(a, i) > At(b, i)
                        /\ \A j \in 1..4 : j < i => At(a, j) = At(b, j)
  BY NewerIsLexicographic
<1>3. PICK k \in 1..4 : /\ At(b, k) > At(c, k)
                        /\ \A j \in 1..4 : j < k => At(b, j) = At(c, j)
  BY NewerIsLexicographic
<1>4. PICK m \in 1..4 : m = IF i < k THEN i ELSE k
  OBVIOUS
<1>5. At(a, m) > At(c, m)
  BY <1>1, <1>2, <1>3, <1>4
<1>6. \A j \in 1..4 : j < m => At(a, j) = At(c, j)
  BY <1>2, <1>3, <1>4
<1> QED
  BY <1>5, <1>6, NewerIsLexicographic

\* Newer is a strict order, and of two versions neither of which is newer both
\* have the same four components: what create refuses as "not newer" is exactly
\* an older version or the same one, "1.2" and "1.2.0" being the same.
THEOREM NewerIsStrictOrder ==
    ASSUME NEW a \in Version, NEW b \in Version
    PROVE  /\ ~(Newer(a, b) /\ Newer(b, a))
           /\ \A c \in Version : Newer(a, b) /\ Newer(b, c) => Newer(a, c)
           /\ ~Newer(a, b) /\ ~Newer(b, a) <=> \A i \in 1..4 : At(a, i) = At(b, i)
<1>1. \A i \in 1..4 : At(a, i) \in Nat /\ At(b, i) \in Nat
  BY VersionAt
<1>2. Newer(a, b) <=> \E i \in 1..4 : /\ At(a, i) > At(b, i)
                                     /\ \A j \in 1..4 : j < i => At(a, j) = At(b, j)
  BY NewerIsLexicographic
<1>3. Newer(b, a) <=> \E i \in 1..4 : /\ At(b, i) > At(a, i)
                                     /\ \A j \in 1..4 : j < i => At(b, j) = At(a, j)
  BY NewerIsLexicographic
<1>4. ~(Newer(a, b) /\ Newer(b, a))
  BY <1>1, <1>2, <1>3
<1>5. ASSUME ~Newer(a, b), ~Newer(b, a)
      PROVE  At(a, 1) = At(b, 1) /\ At(a, 2) = At(b, 2)
             /\ At(a, 3) = At(b, 3) /\ At(a, 4) = At(b, 4)
  BY <1>1, <1>2, <1>3, <1>5
<1>6. (\A i \in 1..4 : At(a, i) = At(b, i)) => ~Newer(a, b) /\ ~Newer(b, a)
  BY <1>1, <1>2, <1>3
<1>7. ~Newer(a, b) /\ ~Newer(b, a) => \A i \in 1..4 : At(a, i) = At(b, i)
  BY <1>5
<1>8. \A c \in Version : Newer(a, b) /\ Newer(b, c) => Newer(a, c)
  BY NewerTransitive
<1> QED
  BY <1>4, <1>6, <1>7, <1>8

\* A version has a component, so it is not the empty string of no version.
LEMMA VersionIsSome ==
    ASSUME NEW v \in Version
    PROVE  v # <<>>
BY DEF Version, MaxParts
================================================================================
