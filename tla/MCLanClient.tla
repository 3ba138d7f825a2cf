------------------------------ MODULE MCLanClient ------------------------------
(***************************************************************************)
(* The instance of LanClient for TLC.                                      *)
(***************************************************************************)
EXTENDS LanClientProperties
===============================================================================
