-------------------------------- MODULE MCIngest -------------------------------
(***************************************************************************)
(* A small instance of Ingest for TLC: two devices of the fleet, and one   *)
(* with a valid certificate that is not enrolled.                          *)
(***************************************************************************)
EXTENDS Ingest, TLC

CONSTANTS d1, d2, stray, orgA, orgB, c1, c2

TwoOrgs == (d1 :> orgA) @@ (d2 :> orgB)

\* d1 has two samples to report, d2 one.
ThreeSamples == [by : {d1}, n : {1, 2}] \union [by : {d2}, n : {1}]

\* Each sample by itself, and those of d1 in one payload.
Single == {<<s>> : s \in ThreeSamples}
Batch  == <<[by |-> d1, n |-> 1], [by |-> d1, n |-> 2]>>

SinglesAndBatch == Single \union {Batch}
=============================================================================
