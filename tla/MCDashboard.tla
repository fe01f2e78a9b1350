------------------------------ MODULE MCDashboard ------------------------------
(***************************************************************************)
(* A small instance of Dashboard for TLC: the three limits are in the      *)
(* order they have in the code, and devices report more than the largest.  *)
(***************************************************************************)
EXTENDS Dashboard, TLC

CONSTANTS orgA, orgB, x1

Symmetry == Permutations(Orgs)
=============================================================================
