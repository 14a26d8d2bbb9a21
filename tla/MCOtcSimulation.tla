-------------------------- MODULE MCOtcSimulation --------------------------
(***************************************************************************)
(* A small instance of OtcSimulation.                                      *)
(***************************************************************************)
EXTENDS OtcSimulation

MCMultipliers == {<<22, 10>>}
=============================================================================
