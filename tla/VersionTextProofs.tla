--------------------------- MODULE VersionTextProofs ---------------------------
(***************************************************************************)
(* What VersionTexts says of its texts, for every set of texts and every   *)
(* base: what parses is a version in range, a decimal text of a given      *)
(* number of parts is the only one that reads as its version, and          *)
(* CompareVersions is the order of the numbers that versions spell.        *)
(***************************************************************************)
EXTENDS VersionTexts, DataFacts

\* Nothing is offered yet, or two of the texts.
PairInv == pair = <<>> \/ \E a, b \in Texts : pair = <<a, b>>

\* Texts are offered two at a time, once.
LEMMA PairsAreTexts == Spec => []PairInv
<1>1. Init => PairInv
  BY DEF Init, PairInv
<1>2. PairInv /\ [Offer]_pair => PairInv'
  BY DEF Offer, PairInv
<1> QED
  BY <1>1, <1>2, PTL DEF Spec

-----------------------------------------------------------------------------
(* Texts and what they read as. *)

\* The powers of ten go up, and no number of MaxWidth digits is out of range.
LEMMA TensGoUp ==
    /\ \A n \in 1..7 : Tens[n] \in Nat /\ Tens[n] > 0 /\ Tens[n] <= MaxNumber + 1
    /\ \A m, n \in 1..6 : m < n => Tens[m + 1] <= Tens[n]
<1>1. PICK t : t = Tens
  OBVIOUS
<1>2. /\ t[1] = 1 /\ t[2] = 10 /\ t[3] = 100 /\ t[4] = 1000 /\ t[5] = 10000
      /\ t[6] = 100000 /\ t[7] = MaxNumber + 1
  BY SMT, <1>1 DEF Tens, MaxNumber
<1>3. \A n \in 1..7 : t[n] \in Nat /\ t[n] > 0 /\ t[n] <= t[7]
  <2>1. \A n \in 1..7 : n = 1 \/ n = 2 \/ n = 3 \/ n = 4 \/ n = 5 \/ n = 6 \/ n = 7
    OBVIOUS
  <2>2. t[7] = 1000000
    BY SMT, <1>2 DEF MaxNumber
  <2> QED
    BY SMT, <1>2, <2>1, <2>2
<1>4. \A m, n \in 1..6 : m < n => t[m + 1] <= t[n]
  <2>1. \A n \in 1..6 : n = 1 \/ n = 2 \/ n = 3 \/ n = 4 \/ n = 5 \/ n = 6
    OBVIOUS
  <2> QED
    BY SMT, <1>2, <2>1
<1> QED
  BY SMT, <1>1, <1>2, <1>3, <1>4

\* A number is a natural one, up to the greatest.
LEMMA NumberIs == \A n : n \in Number <=> n \in Nat /\ n <= MaxNumber
<1>1. PICK m \in Nat : m = MaxNumber
  BY SMT DEF MaxNumber
<1>2. Number = 0..m
  BY <1>1 DEF Number
<1>3. \A n : n \in 0..m <=> n \in Nat /\ n <= m
  OBVIOUS
<1> QED
  BY <1>1, <1>2, <1>3

\* What a part that is read has, with the range of the number read.
LEMMA PartRead ==
    ASSUME NEW p \in Part, AtoiReads(p), ReadablePart(p)
    PROVE  /\ p.width \in 1..6 /\ p.value \in Number
           /\ p.value < Tens[p.width + 1]
           /\ Decimal(p) => \/ p.first = "zero" /\ p.width = 1 /\ p.value = 0
                            \/ p.first = "digit" /\ Tens[p.width] <= p.value
<1>1. /\ p.width \in Nat /\ p.value \in Int /\ p.numeric
      /\ p.width <= 6 /\ p.value >= 0 /\ ~(p.width > 1 /\ p.first = "zero")
  BY DEF Part, ReadablePart, MaxWidth
<1>2. /\ p.width >= 1
      /\ p.value < Tens[p.width + 1]
      /\ p.first = "digit" => Tens[p.width] <= p.value
      /\ p.first = "zero" /\ p.width = 1 => p.value = 0
  BY <1>1 DEF AtoiReads, MaxWidth
<1>3. p.width \in 1..6
  BY <1>1, <1>2
<1>4. p.width + 1 \in 1..7
  BY <1>3
<1>5. Tens[p.width + 1] \in Nat /\ Tens[p.width + 1] <= MaxNumber + 1
  BY <1>4, TensGoUp
<1>6. p.value \in Number
  <2>1. MaxNumber \in Nat
    BY SMT DEF MaxNumber
  <2>2. p.value <= MaxNumber
    BY <1>1, <1>2, <1>5, <2>1
  <2> QED
    BY <1>1, <2>2, NumberIs
<1>7. p.first = "zero" => p.width = 1
  BY <1>1, <1>3
<1> QED
  BY <1>2, <1>3, <1>6, <1>7 DEF Decimal

\* A number has one decimal spelling.
LEMMA OneSpelling ==
    ASSUME NEW p \in Part, AtoiReads(p), ReadablePart(p), Decimal(p),
           NEW q \in Part, AtoiReads(q), ReadablePart(q), Decimal(q),
           p.value = q.value
    PROVE  p = q
<1>1. /\ p.width \in 1..6 /\ p.value \in Nat /\ p.value < Tens[p.width + 1]
      /\ \/ p.first = "zero" /\ p.width = 1 /\ p.value = 0
         \/ p.first = "digit" /\ Tens[p.width] <= p.value
  BY PartRead, NumberIs
<1>2. /\ q.width \in 1..6 /\ q.value < Tens[q.width + 1]
      /\ \/ q.first = "zero" /\ q.width = 1 /\ q.value = 0
         \/ q.first = "digit" /\ Tens[q.width] <= q.value
  BY PartRead
<1>3. \A m, n \in 1..6 : m < n => Tens[m + 1] <= Tens[n]
  BY TensGoUp
<1>4. \A n \in 1..6 : Tens[n] \in Nat /\ Tens[n] > 0 /\ Tens[n + 1] \in Nat
  <2>1. \A n \in 1..6 : n \in 1..7 /\ n + 1 \in 1..7
    OBVIOUS
  <2> QED
    BY <2>1, TensGoUp
<1>5. p.first = q.first
  BY <1>1, <1>2, <1>4
<1>6. p.width = q.width
  BY <1>1, <1>2, <1>3, <1>4
<1>7. p.numeric = q.numeric
  BY DEF ReadablePart, Part
<1> QED
  BY <1>5, <1>6, <1>7 DEF Part

\* The parts of a text that parses.
LEMMA TextParts ==
    ASSUME NEW raw \in Texts, Parses(raw)
    PROVE  /\ raw \in Seq(Part) /\ Len(raw) \in 1..4
           /\ \A i \in 1..Len(raw) :
                 raw[i] \in Part /\ AtoiReads(raw[i]) /\ ReadablePart(raw[i])
<1>1. raw \in Seq(Part) /\ \A i \in 1..Len(raw) : AtoiReads(raw[i])
  BY TextsAssumption
<1> QED
  BY <1>1, ElementOfSeq DEF Parses, MaxParts

\* A text that parses reads as a version.
LEMMA ReadsAsVersion ==
    ASSUME NEW raw \in Texts, Parses(raw)
    PROVE  /\ ParseVersion(raw) \in Version
           /\ Len(ParseVersion(raw)) = Len(raw)
           /\ \A i \in 1..Len(raw) : ParseVersion(raw)[i] = raw[i].value
<1>1. PICK n \in 1..4 : n = Len(raw)
  BY TextParts
<1>2. \A i \in 1..n : raw[i].value \in Number
  BY <1>1, TextParts, PartRead
<1>3. PICK v : v = [i \in 1..n |-> raw[i].value]
  OBVIOUS
<1>4. v \in Seq(Number) /\ Len(v) = n /\ \A i \in 1..n : v[i] = raw[i].value
  BY <1>2, <1>3
<1>5. ParseVersion(raw) = v
  BY <1>1, <1>3 DEF ParseVersion
<1> QED
  BY <1>1, <1>4, <1>5 DEF Version, MaxParts

\* What ParseVersion reads is a version: no number in it is out of range.
THEOREM ParsedAreVersions == Spec => []ParsedIsVersion
<1>1. PairInv => ParsedIsVersion
  <2> SUFFICES ASSUME NEW a \in Texts, NEW b \in Texts, pair = <<a, b>>
               PROVE  ParsedIsVersion
    BY DEF PairInv, ParsedIsVersion
  <2>1. \A i \in 1..Len(pair) : pair[i] \in Texts
    OBVIOUS
  <2> QED
    BY <2>1, ReadsAsVersion DEF ParsedIsVersion
<1> QED
  BY <1>1, PairsAreTexts, PTL

\* Decimal texts of the same number of parts that read alike are the same text.
LEMMA SameSpelling ==
    ASSUME NEW a \in Texts, NEW b \in Texts, Parses(a), Parses(b),
           \A p \in Range(a) \union Range(b) : Decimal(p),
           ParseVersion(a) = ParseVersion(b)
    PROVE  a = b
<1>1. Len(a) = Len(b) /\ \A i \in 1..Len(a) : a[i].value = b[i].value
  BY ReadsAsVersion
<1>2. ASSUME NEW i \in 1..Len(a)
      PROVE  a[i] = b[i]
  <2>1. /\ a[i] \in Part /\ AtoiReads(a[i]) /\ ReadablePart(a[i])
        /\ b[i] \in Part /\ AtoiReads(b[i]) /\ ReadablePart(b[i])
    BY <1>1, TextParts
  <2>2. a[i] \in Range(a) /\ b[i] \in Range(b)
    <3>1. DOMAIN a = 1..Len(a) /\ DOMAIN b = 1..Len(b)
      BY TextParts
    <3> QED
      BY <1>1, <3>1 DEF Range
  <2> QED
    BY <1>1, <2>1, <2>2, OneSpelling
<1>3. a \in Seq(Part) /\ b \in Seq(Part)
  BY TextParts
<1> QED
  BY <1>1, <1>2, <1>3, SeqEqual

\* A version has one decimal spelling of its length.
THEOREM SpellingsDiffer == Spec => []DecimalSpellingsDiffer
<1>1. PairInv => DecimalSpellingsDiffer
  <2> SUFFICES ASSUME NEW a \in Texts, NEW b \in Texts, pair = <<a, b>>
               PROVE  DecimalSpellingsDiffer
    BY DEF PairInv, DecimalSpellingsDiffer
  <2>1. pair[1] = a /\ pair[2] = b
    OBVIOUS
  <2> QED
    BY <2>1, SameSpelling DEF DecimalSpellingsDiffer
<1> QED
  BY <1>1, PairsAreTexts, PTL

-----------------------------------------------------------------------------
(* Versions as numbers. *)

\* A version as the number whose digits are its components.
LEMMA WeightIs ==
    ASSUME NEW v \in Version
    PROVE  Weight(v) = ((At(v, 1) * Base + At(v, 2)) * Base + At(v, 3)) * Base + At(v, 4)
<1>1. PICK p : p = v \o <<0, 0, 0, 0>>
  OBVIOUS
<1>2. v \in Seq(Number) /\ Len(v) \in 1..4
  BY VersionAt DEF Version
<1>3. p[1] = At(v, 1) /\ p[2] = At(v, 2) /\ p[3] = At(v, 3) /\ p[4] = At(v, 4)
  BY <1>1, <1>2 DEF At
<1> QED
  BY <1>1, <1>3 DEF Weight

\* One more digit does not turn the order of two numbers round.
LEMMA DigitsCarry ==
    ASSUME NEW B \in Nat, NEW a \in Nat, NEW b \in Nat, NEW r \in Nat, NEW s \in Nat,
           r < B, s < B
    PROVE  /\ a * B + r \in Nat /\ b * B + s \in Nat
           /\ a < b => a * B + r < b * B + s
           /\ a = b /\ r < s => a * B + r < b * B + s
<1>1. a * B \in Nat /\ b * B \in Nat
  OBVIOUS
<1>2. ASSUME a < b
      PROVE  a * B + r < b * B + s
  <2>1. PICK d \in Nat : b = a + 1 + d
    <3>1. b - a - 1 \in Nat /\ b = a + 1 + (b - a - 1)
      BY <1>2
    <3> QED
      BY <3>1
  <2>2. b * B = a * B + B + d * B /\ d * B \in Nat
    BY <2>1
  <2> QED
    BY <1>1, <2>2
<1> QED
  BY <1>1, <1>2

\* A version weighs a natural number.
LEMMA WeightType ==
    ASSUME NEW v \in Version
    PROVE  Weight(v) \in Nat
<1>1. Base \in Nat
  BY TextsAssumption
<1>2. PICK a1 \in Nat, a2 \in Nat, a3 \in Nat, a4 \in Nat :
         a1 = At(v, 1) /\ a2 = At(v, 2) /\ a3 = At(v, 3) /\ a4 = At(v, 4)
  BY VersionAt
<1>3. PICK x2 \in Nat : x2 = a1 * Base + a2
  BY <1>1
<1>4. PICK x3 \in Nat : x3 = x2 * Base + a3
  BY <1>1
<1>5. x3 * Base + a4 \in Nat
  BY <1>1
<1> QED
  BY <1>2, <1>3, <1>4, <1>5, WeightIs

\* The components of a version, all of them digits of the base.
Digits(v) == \A i \in 1..4 : At(v, i) \in Nat /\ At(v, i) < Base

\* The version that is less at the first difference is the lesser number.
LEMMA LessFirst ==
    ASSUME NEW a \in Version, NEW b \in Version, Digits(a), Digits(b),
           NEW i \in 1..4, DifferFirst(a, b, i), At(a, i) < At(b, i)
    PROVE  Weight(a) \in Nat /\ Weight(b) \in Nat /\ Weight(a) < Weight(b)
<1>1. Base \in Nat
  BY TextsAssumption
<1>2. PICK a1, a2, a3, a4 : a1 = At(a, 1) /\ a2 = At(a, 2) /\ a3 = At(a, 3) /\ a4 = At(a, 4)
  OBVIOUS
<1>3. PICK b1, b2, b3, b4 : b1 = At(b, 1) /\ b2 = At(b, 2) /\ b3 = At(b, 3) /\ b4 = At(b, 4)
  OBVIOUS
<1>4. /\ a1 \in Nat /\ a2 \in Nat /\ a3 \in Nat /\ a4 \in Nat
      /\ a2 < Base /\ a3 < Base /\ a4 < Base
  BY <1>2 DEF Digits
<1>5. /\ b1 \in Nat /\ b2 \in Nat /\ b3 \in Nat /\ b4 \in Nat
      /\ b2 < Base /\ b3 < Base /\ b4 < Base
  BY <1>3 DEF Digits
<1>6. \/ a1 < b1
      \/ a1 = b1 /\ a2 < b2
      \/ a1 = b1 /\ a2 = b2 /\ a3 < b3
      \/ a1 = b1 /\ a2 = b2 /\ a3 = b3 /\ a4 < b4
  BY <1>2, <1>3 DEF DifferFirst
<1>7. PICK x2, x3, x4 : x2 = a1 * Base + a2 /\ x3 = x2 * Base + a3 /\ x4 = x3 * Base + a4
  OBVIOUS
<1>8. PICK y2, y3, y4 : y2 = b1 * Base + b2 /\ y3 = y2 * Base + b3 /\ y4 = y3 * Base + b4
  OBVIOUS
<1>9. Weight(a) = x4 /\ Weight(b) = y4
  BY <1>2, <1>3, <1>7, <1>8, WeightIs
<1>10. /\ x2 \in Nat /\ y2 \in Nat
       /\ a1 < b1 \/ (a1 = b1 /\ a2 < b2) => x2 < y2
       /\ a1 = b1 /\ a2 = b2 => x2 = y2
  BY <1>1, <1>4, <1>5, <1>7, <1>8, DigitsCarry
<1>11. /\ x3 \in Nat /\ y3 \in Nat
       /\ x2 < y2 \/ (x2 = y2 /\ a3 < b3) => x3 < y3
       /\ x2 = y2 /\ a3 = b3 => x3 = y3
  BY <1>1, <1>4, <1>5, <1>7, <1>8, <1>10, DigitsCarry
<1>12. /\ x4 \in Nat /\ y4 \in Nat
       /\ x3 < y3 \/ (x3 = y3 /\ a4 < b4) => x4 < y4
  BY <1>1, <1>4, <1>5, <1>7, <1>8, <1>11, DigitsCarry
<1> QED
  BY <1>6, <1>9, <1>10, <1>11, <1>12

\* CompareVersions answers what comparing the numbers answers.
LEMMA ComparedByWeight ==
    ASSUME NEW a \in Version, NEW b \in Version, Digits(a), Digits(b)
    PROVE  CompareVersions(a, b) =
              IF Weight(a) < Weight(b) THEN -1
              ELSE IF Weight(a) > Weight(b) THEN 1 ELSE 0
<1>1. CASE CompareVersions(a, b) = 0 /\ \A i \in 1..4 : At(a, i) = At(b, i)
  <2>1. Weight(a) = Weight(b)
    BY <1>1, WeightIs
  <2>2. Weight(a) \in Nat
    BY WeightType
  <2> QED
    BY <1>1, <2>1, <2>2
<1>2. ASSUME NEW i \in 1..4, DifferFirst(a, b, i),
             CompareVersions(a, b) = IF At(a, i) < At(b, i) THEN -1 ELSE 1
      PROVE  CompareVersions(a, b) =
                IF Weight(a) < Weight(b) THEN -1
                ELSE IF Weight(a) > Weight(b) THEN 1 ELSE 0
  <2>1. At(a, i) \in Nat /\ At(b, i) \in Nat /\ At(a, i) # At(b, i)
    BY <1>2, VersionAt DEF DifferFirst
  <2>2. DifferFirst(b, a, i)
    BY <1>2 DEF DifferFirst
  <2>3. CASE At(a, i) < At(b, i)
    <3>1. Weight(a) \in Nat /\ Weight(b) \in Nat /\ Weight(a) < Weight(b)
      BY <1>2, <2>3, LessFirst
    <3> QED
      BY <1>2, <2>3, <3>1
  <2>4. CASE At(b, i) < At(a, i)
    <3>1. Weight(a) \in Nat /\ Weight(b) \in Nat /\ Weight(b) < Weight(a)
      BY <2>2, <2>4, LessFirst
    <3> QED
      BY <1>2, <2>1, <2>4, <3>1
  <2> QED
    BY <2>1, <2>3, <2>4
<1> QED
  BY <1>1, <1>2, ComparedAtFirst

\* A text whose parts are digits reads as a version of digits.
LEMMA TextDigits ==
    ASSUME NEW raw \in Texts, Parses(raw), \A p \in Range(raw) : p.value < Base
    PROVE  ParseVersion(raw) \in Version /\ Digits(ParseVersion(raw))
<1>1. PICK v \in Version : v = ParseVersion(raw)
  BY ReadsAsVersion
<1>2. Base \in Nat /\ Base > 0
  BY TextsAssumption
<1>3. \A i \in 1..Len(raw) : raw[i].value < Base
  <2>1. DOMAIN raw = 1..Len(raw)
    BY TextParts
  <2> QED
    BY <2>1 DEF Range
<1>4. Len(v) = Len(raw) /\ \A i \in 1..Len(raw) : v[i] = raw[i].value
  BY <1>1, ReadsAsVersion
<1>5. /\ Len(v) \in 1..4
      /\ \A i \in 1..4 : At(v, i) \in Nat
      /\ \A i \in 1..4 : i > Len(v) => At(v, i) = 0
  BY VersionAt
<1>6. \A i \in 1..4 : i <= Len(v) => At(v, i) = v[i] /\ v[i] < Base
  BY <1>3, <1>4, <1>5 DEF At
<1>7. \A i \in 1..4 : At(v, i) < Base
  BY <1>2, <1>5, <1>6
<1> QED
  BY <1>1, <1>5, <1>7 DEF Digits

\* Versions compare as the numbers that they spell, in every base that has a
\* digit for each of their components.
THEOREM ComparesByWeight == Spec => []CompareIsByWeight
<1>1. PairInv => CompareIsByWeight
  <2> SUFFICES ASSUME NEW a \in Texts, NEW b \in Texts, pair = <<a, b>>,
                      \A i \in 1..2 : Parses(pair[i]) /\ \A p \in Range(pair[i]) : p.value < Base
               PROVE  CompareVersions(ParseVersion(pair[1]), ParseVersion(pair[2])) =
                         IF Weight(ParseVersion(pair[1])) < Weight(ParseVersion(pair[2])) THEN -1
                         ELSE IF Weight(ParseVersion(pair[1])) > Weight(ParseVersion(pair[2]))
                              THEN 1 ELSE 0
    BY Zenon DEF PairInv, CompareIsByWeight
  <2>1. pair[1] = a /\ pair[2] = b /\ 1 \in 1..2 /\ 2 \in 1..2
    OBVIOUS
  <2>2. /\ Parses(a) /\ \A p \in Range(a) : p.value < Base
        /\ Parses(b) /\ \A p \in Range(b) : p.value < Base
    BY Zenon, <2>1
  <2> QED
    BY <2>1, <2>2, TextDigits, ComparedByWeight
<1> QED
  BY <1>1, PairsAreTexts, PTL
=============================================================================
