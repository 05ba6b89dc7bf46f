-------------------------- MODULE MCGatewayProcess --------------------------
(***************************************************************************)
(* GatewayProcess with a bounded number of runs.                           *)
(***************************************************************************)
EXTENDS GatewayProcess
=============================================================================
