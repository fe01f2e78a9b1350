------------------------------- MODULE MCRollout -------------------------------
(***************************************************************************)
(* Small instances of Rollout for TLC.                                     *)
(***************************************************************************)
EXTENDS Rollout, TLC

CONSTANTS r1, r2, adaA, opA, adaB, orgA, orgB, nobody

OneOrg  == (adaA :> orgA)
TwoOrgs == (adaA :> orgA) @@ (opA :> orgA) @@ (adaB :> orgB)

OneAdmin == (adaA :> "admin")
Everyone == (adaA :> "admin") @@ (opA :> "operator") @@ (adaB :> "admin")

Body(v, c) == [version |-> v, check |-> c]

\* Two spellings of one version and a newer one, all of them signed.
SignedReleases == {Body(<<1>>, "ok"), Body(<<1, 0>>, "ok"), Body(<<1, 1>>, "ok")}

\* A release in two spellings, a newer one, and a body of each kind that is refused.
Bodies ==
    {Body(<<1>>, "ok"), Body(<<1, 0>>, "ok"), Body(<<2>>, "ok"), Body(NoVersion, "undecodable"),
     Body(NoVersion, "malformed"), Body(<<2>>, "badSignature")}
=============================================================================
