------------------------------ MODULE MCIcv6Hub ------------------------------
(***************************************************************************)
(* Constants for TLC.                                                      *)
(***************************************************************************)
EXTENDS Icv6HubProperties

AnyUse == {"serial", "free"}
==============================================================================
