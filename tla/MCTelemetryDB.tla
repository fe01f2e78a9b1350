----------------------------- MODULE MCTelemetryDB -----------------------------
(***************************************************************************)
(* A small instance of TelemetryDB for TLC, in which devices may change    *)
(* organisations.                                                          *)
(***************************************************************************)
EXTENDS TelemetryDB, TLC

CONSTANTS d1, d2, orgA, orgB

OneForEach == [for : Orgs]
=============================================================================
