---------------------------- MODULE MCGyreControl ----------------------------
(* Constants of GyreControl for TLC.                                        *)
EXTENDS GyreControlProperties

LanAndCloud  == {[local_control |-> TRUE,  cloud |-> TRUE]}
LanOnly      == {[local_control |-> TRUE,  cloud |-> FALSE]}
CloudOnly    == {[local_control |-> FALSE, cloud |-> TRUE]}
WithCloud    == LanAndCloud \union CloudOnly
AnyEntry     == WithCloud \union LanOnly

(* Of a change by the owner and a press of the button a behaviour has one.   *)
OneInterference == budget.changes + budget.presses + 1 >= MaxOwnerChanges + MaxPresses

OnOff       == {ON, OFF}
OffOrProgram == {OFF, PROGRAMMING}
OnOffFeed    == {ON, OFF, FEED}
OffFeedRun   == {OFF, FEED, PROGRAMMING}
==============================================================================
