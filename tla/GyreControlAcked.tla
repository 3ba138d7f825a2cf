--------------------------- MODULE GyreControlAcked ---------------------------
(***************************************************************************)
(* GyreControl with a history variable: whether the last command ended     *)
(* with the cloud's acknowledgement.  A command whose answer was lost ends *)
(* in the same state of the program as one that was refused, yet its write *)
(* may still be delivered; nothing is promised about that one.             *)
(***************************************************************************)
EXTENDS GyreControlProperties

VARIABLE acked

ackedVars == <<vars, acked>>

AckedInit == Init /\ acked = FALSE

AckedNext == Next /\ acked' = (CloudAcks \/ (acked /\ cmd' = Idle))

AckedSpec == AckedInit /\ [][AckedNext]_ackedVars

(* The last cloud write is acknowledged and the controller has yet to take  *)
(* it.                                                                      *)
Awaited == acked /\ cloud_writes # <<>>

(* From its acknowledgement until the controller takes it, the last cloud   *)
(* write is what the entities show, or a mode that answers it ("Rapid       *)
(* double-write: only the last optimistic state should be visible",         *)
(* test_coordinator_behaviour.py:273).                                      *)
LastWriteStaysVisible ==
    Awaited => \/ shown.mode = pending_mode
               \/ ModeMatchesRequest(pending_mode, shown.mode)

(* What keeps the promise when each command waits for the one before to     *)
(* settle.  One mode is being written at a time, the goal.  Reports travel  *)
(* in order, so none that answers the goal comes before one from before the *)
(* write; once such a report has lifted the cooldown, all that is in flight *)
(* and all that is cached belongs to the goal, a program's telemetry (On)   *)
(* included, because the program's Mode report has come before it.          *)
Goal    == IF cmd.step # "idle" THEN cmd.mode ELSE pending_mode
Writing == cmd.step # "idle" \/ acked

Answers(g, r) ==
    /\ ModeFromReport(r) # NoMode
    /\ ModeMatchesRequest(g, ModeFromReport(r))

Belongs(g, r) ==
    \/ r = Clock
    \/ \E d \in DeviceModes : /\ ModeMatchesRequest(g, d)
                             /\ r \in {FullReport(d), Telemetry(d)}

OneModeWritten ==
    Writing => /\ \A i \in 1..Len(lan_writes) : lan_writes[i] = Goal
               /\ \A i \in 1..Len(cloud_writes) : cloud_writes[i] = Goal

ReportsInOrder ==
    Writing => \A i \in 1..Len(reports) : Answers(Goal, reports[i]) =>
        /\ ModeMatchesRequest(Goal, device)
        /\ \A j \in i..Len(reports) : Belongs(Goal, reports[j])

LiftedForGood ==
    Awaited /\ ~cooldown =>
        /\ ModeMatchesRequest(Goal, device)
        /\ \A i \in 1..Len(reports) : Belongs(Goal, reports[i])
        /\ ModeMatchesRequest(Goal, state.mode)
        /\ ModeMatchesRequest(Goal, shown.mode)
        /\ Goal \in Programs => state.generic = Goal

AckedIsIdle == acked \in BOOLEAN /\ (acked => cmd = Idle)

SpacedInv ==
    /\ AckedIsIdle /\ OneModeWritten /\ ReportsInOrder /\ LiftedForGood
===============================================================================
