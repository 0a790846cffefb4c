----------------------------- MODULE MCChannel -----------------------------
(***************************************************************************)
(* Instances of Channel for TLC.                                           *)
(***************************************************************************)
EXTENDS Channel, MCRegistry

\* Two persistent transports.
StateConfigs == {Conf("a", insecure, {}, FALSE), Conf("b", insecure, {}, FALSE)}
=============================================================================
