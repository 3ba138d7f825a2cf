------------------------ MODULE GyreControlProperties ------------------------
(***************************************************************************)
(* What mode control must satisfy.                                         *)
(***************************************************************************)
EXTENDS GyreControl

(* A cloud write is held as HeldMode says: stale LAN reports, refreshes    *)
(* and failures during the cooldown never disturb what the entities show,  *)
(* and once the controller has reported its mode a press of the schedule   *)
(* button does not either (coordinator.py, _on_device_push,                *)
(* _async_update_data and async_seed_from_cloud).                          *)
Held == INSTANCE HeldMode WITH
            view     <- shown,
            held     <- IF cooldown THEN pending_mode ELSE NoMode,
            asked    <- local_pending_mode,
            fetching <- poll.step \in {"fetch", "answer"},
            pressed  <- press.step \in {"fetch", "answer"},
            known    <- heard = ModeAttributes
HeldSpec == Held!Spec

(* What keeps the promise.  During a cooldown the shared state shows the    *)
(* pending mode or what the entities already show, so publishing it again   *)
(* disturbs nothing; a confirmation the waiter has yet to see has ended the *)
(* cooldown already (_on_device_push, first condition); no cooldown starts  *)
(* and no button is pressed before setup is done.                           *)
ShowsPendingOrSame ==
    cooldown => View(state) \in {Held!Show(pending_mode), shown}

AskedIsTheCommand ==
    local_pending_mode =
        IF cmd.step \in {"connect", "lan_wait"} THEN cmd.mode ELSE NoMode

ConfirmedIsLifted ==
    cmd.step = "lan_wait" /\ mode_event /\ Confirmed => ~cooldown

CoolingIsReady ==
    /\ cooldown \/ cmd # Idle \/ press # Idle => ready
    /\ poll.step \in {"retry", "abandoned"} => ~ready

HeldInv ==
    /\ ShowsPendingOrSame /\ AskedIsTheCommand
    /\ ConfirmedIsLifted /\ CoolingIsReady

(* Once the entities exist they show a mode that was reported or commanded, *)
(* never the default state of a new client, whose is_on is FALSE with a     *)
(* running mode (async_initialize waits for a status before setup goes on). *)
NeverTheDefaultState ==
    ready => /\ state.is_on = (state.mode # OFF)
             /\ shown.is_on = (shown.mode # OFF)

(* While a cloud write is cooling down, the shared state object and the     *)
(* entities both hold the optimistic update ("re-apply the pending state    *)
(* so the shared state object stays consistent with the optimistic update", *)
(* coordinator.py:146).                                                     *)
HeldStateIsPending ==
    cooldown => /\ state.mode = pending_mode
                /\ shown = View(state)

(* A command that succeeds on the LAN leaves the entities showing a mode    *)
(* that answers it (coordinator.py:197-201: pending and published mode are  *)
(* those of the shared state when the waiter wakes).                        *)
LanSuccessShowsRequest ==
    [][ (LanWakes /\ cmd' = Idle)
        => ModeMatchesRequest(cmd.mode, shown'.mode) ]_vars

(* A command always ends, and frees the control lock.                       *)
CommandsEnd == (cmd # Idle) ~> (cmd = Idle)

(* When users and owners rest and faults stop, the entities come to show    *)
(* the mode the controller is in, for good, unless setup was abandoned.     *)
Abandons == <>[](poll.step = "abandoned")

Converges ==
    ~Abandons =>
        <>[](available /\ shown = [mode |-> device, is_on |-> device # OFF])

(* An entry whose first refresh failed on both channels is set up in the    *)
(* end (test_init.py:82, "test_setup_both_channels_failed_retries").        *)
SetupComesBack == <>ready
==============================================================================
