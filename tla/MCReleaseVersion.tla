---------------------------- MODULE MCReleaseVersion ---------------------------
(***************************************************************************)
(* A set of version texts for TLC.                                         *)
(***************************************************************************)
EXTENDS VersionTexts

MCPart(w, f, n, v) == [width |-> w, first |-> f, numeric |-> n, value |-> v]

\* "", "0", "7", "07", "00", "+7", "-7", "-0", "x", "999999", "1234567"
Parts ==
    {MCPart(0, "none", FALSE, 0), MCPart(1, "zero", TRUE, 0),
     MCPart(1, "digit", TRUE, 7), MCPart(2, "zero", TRUE, 7),
     MCPart(2, "zero", TRUE, 0), MCPart(2, "sign", TRUE, 7),
     MCPart(2, "sign", TRUE, -7), MCPart(2, "sign", TRUE, 0),
     MCPart(1, "other", FALSE, 0), MCPart(6, "digit", TRUE, 999999),
     MCPart(7, "digit", TRUE, 1234567)}

Seven == MCPart(1, "digit", TRUE, 7)

Digit(v) == MCPart(1, IF v = 0 THEN "zero" ELSE "digit", TRUE, v)

\* Every text of one or two of the parts, one past MaxParts, and every text of
\* up to MaxParts components below 3.
MCTexts ==
    [1..1 -> Parts] \union [1..2 -> Parts]
    \union {[i \in 1..(MaxParts + 1) |-> Seven]}
    \union UNION {[1..n -> {Digit(v) : v \in 0..2}] : n \in 1..MaxParts}
=============================================================================
