---------------------------- MODULE ReleaseVersion ----------------------------
(***************************************************************************)
(* Firmware version numbers as internal/rollout/release.go reads and       *)
(* compares them.  The rollout service refuses a downgrade by this         *)
(* comparison alone, so everything Rollout.tla says about the order of     *)
(* releases rests on it.                                                   *)
(*                                                                         *)
(* A raw version is the sequence of the parts strings.Split cuts at the    *)
(* dots.  A part is described by exactly what ParseVersion asks of it: its *)
(* width in bytes, its first byte, and what strconv.Atoi makes of it.      *)
(***************************************************************************)
EXTENDS Integers, Sequences

MaxParts == 4
MaxWidth == 6

\* "digit" is 1-9; "sign" is '+' or '-', which strconv.Atoi accepts.
FirstByte == {"none", "zero", "digit", "sign", "other"}

\* numeric: Atoi returns no error; value: what it then returns.
Part == [width : Nat, first : FirstByte, numeric : BOOLEAN, value : Int]

\* What a part is read as: no number has over MaxWidth digits.
MaxNumber == 999999
Number == 0..MaxNumber

\* What ParseVersion returns: one to four numbers.
Version == {v \in Seq(Number) : Len(v) \in 1..MaxParts}

\* Mutant: leading zeros pass, "07" and "7" are both 7.
ReadablePartWithZeros(p) ==
    p.width # 0 /\ p.width <= MaxWidth /\ p.numeric /\ p.value >= 0

\* Mutant: the width of a part is not bounded.
ReadablePartOfAnyWidth(p) ==
    p.width # 0 /\ ~(p.width > 1 /\ p.first = "zero") /\ p.numeric /\ p.value >= 0

ReadablePart(p) ==
    /\ p.width # 0
    /\ p.width <= MaxWidth
    /\ ~(p.width > 1 /\ p.first = "zero")
    /\ p.numeric
    /\ p.value >= 0

Parses(raw) ==
    /\ Len(raw) \in 1..MaxParts
    /\ \A i \in 1..Len(raw) : ReadablePart(raw[i])

ParseVersion(raw) == [i \in 1..Len(raw) |-> raw[i].value]

-----------------------------------------------------------------------------

\* Mutant: a missing component is read as 1 instead of 0.
AtPaddedWithOne(v, i) == IF i <= Len(v) THEN v[i] ELSE 1

\* Missing trailing components are zero.
At(v, i) == IF i <= Len(v) THEN v[i] ELSE 0

\* The loop of CompareVersions answers at the first component that differs.
CompareVersions(a, b) ==
    LET longest == IF Len(a) > Len(b) THEN Len(a) ELSE Len(b)
        differ  == {i \in 1..longest : At(a, i) # At(b, i)}
    IN  IF differ = {}
        THEN 0
        ELSE LET i == CHOOSE i \in differ : \A j \in differ : i <= j
             IN  IF At(a, i) < At(b, i) THEN -1 ELSE 1

\* a is the newer release: the outcome create lets through.
Newer(a, b) == CompareVersions(a, b) > 0
=============================================================================
