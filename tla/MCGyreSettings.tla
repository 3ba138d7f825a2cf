---------------------------- MODULE MCGyreSettings ----------------------------
(***************************************************************************)
(* Constants for TLC: two schedules, which no entry tells apart, and two   *)
(* models; entries with and without a cloud and a configured model.        *)
(***************************************************************************)
EXTENDS GyreSettingsProperties, TLC

XF330CE == 0
XF350CE == 1
GyreModels == {XF330CE, XF350CE}
AnyEntry   == [cloud : {TRUE}, model : {None}] \union [cloud : {FALSE}, model : {XF330CE}]
Automatic  == [cloud : {FALSE}, model : {None}]

Symmetry == Permutations(Schedules)
==============================================================================
