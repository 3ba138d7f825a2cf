------------------------- MODULE MCGyreControlAcked -------------------------
(* Constants of GyreControlAcked for TLC.                                   *)
EXTENDS MCGyreControl, GyreControlAcked
==============================================================================
