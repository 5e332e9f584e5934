--------------------------- MODULE MCTorqueSession ---------------------------
(* Instances of TorqueSession for TLC.                                      *)
EXTENDS TorqueSession
=============================================================================
