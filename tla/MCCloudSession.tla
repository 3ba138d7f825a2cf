---------------------------- MODULE MCCloudSession ----------------------------
(***************************************************************************)
(* The instance of CloudSession for TLC.                                   *)
(***************************************************************************)
EXTENDS CloudSessionProperties
===============================================================================
