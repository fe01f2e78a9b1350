------------------------------ MODULE VersionTexts -----------------------------
(***************************************************************************)
(* Version texts, two at a time: what ParseVersion and CompareVersions of  *)
(* internal/rollout/release.go make of what a manifest says.               *)
(***************************************************************************)
EXTENDS ReleaseVersion, SequencesExt

CONSTANTS
    Texts,    \* the raw versions manifests may carry
    Base      \* of the number system versions are weighed in

\* Tens[n + 1] is 10 to the n.
Tens == <<1, 10, 100, 1000, 10000, 100000, 1000000>>

\* What strconv.Atoi reads has no more digits than the part has bytes, and a
\* part that begins with a digit other than zero has as many; "0" is zero.
AtoiReads(p) ==
    p.numeric /\ p.width <= MaxWidth =>
        /\ p.width >= 1
        /\ p.value < Tens[p.width + 1]
        /\ p.first = "digit" => Tens[p.width] <= p.value
        /\ p.first = "zero" /\ p.width = 1 => p.value = 0

ASSUME TextsAssumption ==
    /\ \A raw \in Texts : raw \in Seq(Part)
    /\ \A raw \in Texts : \A i \in 1..Len(raw) : AtoiReads(raw[i])
    /\ Base \in Nat \ {0}

VARIABLE pair

Init == pair = <<>>

Offer ==
    /\ pair = <<>>
    /\ \E a, b \in Texts : pair' = <<a, b>>

Spec == Init /\ [][Offer]_pair

-----------------------------------------------------------------------------

\* A text ParseVersion accepts has one to four parts and no number above six
\* digits, so no comparison overflows and every accepted target is a version.
ParsedIsVersion ==
    \A i \in 1..Len(pair) : Parses(pair[i]) => ParseVersion(pair[i]) \in Version

Decimal(p) == p.numeric /\ p.first \in {"zero", "digit"}

\* Two different decimal texts with the same number of parts never read as the
\* same version: a release has one spelling per length.
DecimalSpellingsDiffer ==
    pair # <<>> =>
        LET a == pair[1]
            b == pair[2]
        IN  (/\ Parses(a) /\ Parses(b) /\ a # b
             /\ \A p \in Range(a) \union Range(b) : Decimal(p))
            => ParseVersion(a) # ParseVersion(b)

\* The reference: a version as one number, its components filled up with zeros
\* being the digits.
Weight(v) ==
    LET p == v \o <<0, 0, 0, 0>>
    IN  ((p[1] * Base + p[2]) * Base + p[3]) * Base + p[4]

\* CompareVersions orders versions as the numbers they spell, missing components
\* being zero, and so is antisymmetric and transitive.
CompareIsByWeight ==
    pair # <<>> /\ (\A i \in 1..2 : Parses(pair[i]) /\ \A p \in Range(pair[i]) : p.value < Base) =>
        LET a == ParseVersion(pair[1])
            b == ParseVersion(pair[2])
        IN  CompareVersions(a, b) =
                IF Weight(a) < Weight(b) THEN -1
                ELSE IF Weight(a) > Weight(b) THEN 1 ELSE 0

\* release.go:108: "ParseVersion accepts strictly dotted decimals".
OnlyDecimalsParse ==
    \A i \in 1..Len(pair) :
        Parses(pair[i]) => \A p \in Range(pair[i]) : Decimal(p)
=============================================================================
