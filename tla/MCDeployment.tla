------------------------------ MODULE MCDeployment ------------------------------
(***************************************************************************)
(* A small instance of Deployment for TLC: a device that may move to       *)
(* another organisation, another one, and files that are refused.          *)
(***************************************************************************)
EXTENDS Deployment, TLC

CONSTANTS d1, d2, orgA, orgB, reading

Row(id, org) == [id |-> id, org |-> org]

SomeFleets ==
    {<<Row(d1, orgA), Row(d2, orgB)>>, <<Row(d1, orgB)>>,
     <<>>, <<Row(d1, orgA), Row(d1, orgB)>>, <<Row(Blank, orgA)>>, <<Row(d1, Blank)>>}
=============================================================================
