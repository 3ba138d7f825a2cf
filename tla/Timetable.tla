------------------------------ MODULE Timetable ------------------------------
(***************************************************************************)
(* Sequences of what begins at a minute of the day in the order of their   *)
(* times, as Python's stable sort leaves them: the entries of a Gyre       *)
(* programme and the points of an ICV6 schedule.                           *)
(***************************************************************************)
EXTENDS Naturals, FiniteSets

NotAfter(s, i, j) == \/ s[i].minute < s[j].minute
                     \/ s[i].minute = s[j].minute /\ i <= j

Place(s, i) == Cardinality({j \in DOMAIN s : NotAfter(s, j, i)})
At(s, k)    == CHOOSE i \in DOMAIN s : Place(s, i) = k

ByMinute(s) == [k \in DOMAIN s |-> s[At(s, k)]]
==============================================================================
