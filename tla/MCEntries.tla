------------------------------ MODULE MCEntries ------------------------------
(* Config flows, and the entities of an entry, for TLC: part says which of  *)
(* them a behaviour is about, and the others rest.                          *)
EXTENDS ConfigFlow, Entities

VARIABLE part

Init ==
    /\ part \in {"flows", "gyre", "hub"}
    /\ FlowInit /\ HubInit /\ GyreInit
    /\ part # "flows" => \A f, g \in Flows : flow[f] = flow[g]
    /\ part # "gyre"  => \A k \in Keys : registry[k] = "absent"

FlowStep == part = "flows" /\ FlowNext /\ UNCHANGED <<part, gyreVars, hubVars>>
GyreStep == part = "gyre"  /\ GyreNext /\ UNCHANGED <<part, flowVars, hubVars>>
HubStep  == part = "hub"   /\ HubNext  /\ UNCHANGED <<part, flowVars, gyreVars>>

Next == FlowStep \/ GyreStep \/ HubStep

Spec == Init /\ [][Next]_<<part, flowVars, gyreVars, hubVars>> /\ RefreshFair
==============================================================================
