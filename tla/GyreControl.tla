----------------------------- MODULE GyreControl -----------------------------
(***************************************************************************)
(* Mode control of a Gyre controller: MaxspectCoordinator                  *)
(* (coordinator.py) over the LAN client (api.py), the Gizwits cloud        *)
(* (cloud.py) and the controller itself.                                   *)
(*                                                                         *)
(* One asyncio loop runs the command that holds the control lock (cmd),    *)
(* the status refresh of the update coordinator (poll), the press of the   *)
(* schedule button (press) and the listener that merges LAN reports.  Each *)
(* action below is what runs between two awaits.  The controller, the      *)
(* network and the cloud move on their own.                                *)
(***************************************************************************)
EXTENDS GyreModes, Naturals, Sequences

CONSTANTS
    Requests,         \* the modes the user's commands ask for
    DeviceModes,      \* the modes the controller may be in
    Entries,          \* the config entries: is local_control chosen, and are
                      \* there cloud credentials
    LanFaulty,        \* the LAN may lose the link, refuse it or stay silent
    CloudFaulty,      \* cloud requests may fail
    RapidCommands,    \* a command may start before the last one has settled
    SlowDelivery,     \* the cooldown may end before a cloud write is delivered
    MaxCommands, MaxOwnerChanges, MaxFaults, MaxReports, MaxPresses  \* bounds

ASSUME GyreControlAssumption ==
    /\ Requests \subseteq Modes
    /\ DeviceModes \subseteq Modes \ {EXIT_FEED}
    /\ Requests \ {ON, EXIT_FEED} \subseteq DeviceModes
    /\ DeviceModes \intersect (Programs \union {ON}) # {}
    /\ Entries \subseteq [local_control : BOOLEAN, cloud : BOOLEAN]
    /\ {LanFaulty, CloudFaulty, RapidCommands, SlowDelivery} \subseteq BOOLEAN
    /\ {MaxCommands, MaxOwnerChanges, MaxFaults, MaxReports, MaxPresses} \subseteq Nat

VARIABLES
    (* outside Home Assistant *)
    device,        \* the mode the controller is in
    reports,       \* reports on their way on the TCP stream, oldest first
    lan_writes,    \* Modes written on the LAN, not yet seen by the controller
    cloud_writes,  \* Modes the cloud accepted and has yet to deliver
    cloud_mode,    \* the mode the cloud would answer a status request with
    (* MaxspectClient *)
    connected, reported_mode, mode_event, status_event, state,
    heard,         \* received_attribute_names, as far as the mode goes
    (* MaxspectCoordinator *)
    entry,               \* config_entry: its options and credentials
    pending_mode,        \* _pending_mode
    cooldown,            \* time.monotonic() < _write_lock_until
    local_pending_mode,  \* _local_pending_mode
    cmd,                 \* the command holding _control_lock: where it awaits
    poll,                \* the status refresh: where it awaits
    press,               \* the schedule button's refresh: where it awaits
    ready,               \* entities are set up
    (* what the entities show: their state at the last notification *)
    shown, available,
    (* what is left of the bounds *)
    budget

lan     == <<connected, reported_mode, mode_event, status_event>>
control == <<pending_mode, cooldown, local_pending_mode>>
outside == <<device, reports, lan_writes, cloud_writes, cloud_mode>>
display == <<shown, available>>
button  == <<press, heard>>
vars == <<outside, lan, state, entry, button, control, cmd, poll, ready,
          display, budget>>

CmdSteps    == {"idle", "connect", "lan_wait", "cloud", "cloud_ack"}
PollSteps   == {"idle", "status", "fetch", "answer", "retry", "abandoned"}
PressSteps  == {"idle", "connect", "wait", "fetch", "answer"}
Idle        == [step |-> "idle", mode |-> NoMode]

OutsideType ==
    /\ device \in DeviceModes
    /\ reports \in Seq(Reports)
    /\ lan_writes \in Seq(Requests)
    /\ cloud_writes \in Seq(Requests)
    /\ cloud_mode \in DeviceModes

ClientType ==
    /\ connected \in BOOLEAN
    /\ reported_mode \in MaybeModes
    /\ mode_event \in BOOLEAN
    /\ status_event \in BOOLEAN
    /\ state \in States

ControlType ==
    /\ entry \in Entries
    /\ pending_mode \in Modes
    /\ cooldown \in BOOLEAN
    /\ local_pending_mode \in MaybeModes
    /\ ready \in BOOLEAN

CmdType ==
    /\ cmd \in [step : CmdSteps, mode : MaybeModes]
    /\ (cmd.step # "idle") => cmd.mode \in Requests

PollType ==
    /\ poll \in [step : PollSteps, mode : MaybeModes]
    /\ (poll.step = "answer") => poll.mode \in DeviceModes

PressType ==
    /\ press \in [step : PressSteps, mode : MaybeModes]
    /\ (press.step = "answer") => press.mode \in DeviceModes
    /\ heard \subseteq ModeAttributes

DisplayType ==
    /\ shown \in [mode : Modes, is_on : BOOLEAN]
    /\ available \in BOOLEAN

BudgetType ==
    budget \in [commands : Nat, changes : Nat, faults : Nat, presses : Nat]

TypeOK ==
    /\ OutsideType /\ ClientType /\ ControlType
    /\ CmdType /\ PollType /\ PressType /\ DisplayType /\ BudgetType

Init ==
    /\ device \in DeviceModes
    /\ reports = <<>>
    /\ lan_writes = <<>>
    /\ cloud_writes = <<>>
    /\ cloud_mode = device
    /\ connected = FALSE
    /\ reported_mode = NoMode
    /\ mode_event = FALSE
    /\ status_event = FALSE
    /\ state = InitialState
    /\ heard = {}
    /\ entry \in Entries
    /\ pending_mode = ON
    /\ cooldown = FALSE
    /\ local_pending_mode = NoMode
    /\ cmd = Idle
    /\ poll = Idle
    /\ press = Idle
    /\ ready = FALSE
    /\ shown = [mode |-> InitialState.mode, is_on |-> InitialState.is_on]
    /\ available = FALSE
    /\ budget = [commands |-> MaxCommands, changes |-> MaxOwnerChanges,
                 faults |-> MaxFaults, presses |-> MaxPresses]
------------------------------------------------------------------------------
(* Shared pieces.                                                          *)

View(s) == [mode |-> s.mode, is_on |-> s.is_on]

(* async_set_updated_data: the entities are told to show the state s.      *)
Publish(s) == shown' = View(s) /\ available' = TRUE

Fault == budget.faults > 0 /\ budget' = [budget EXCEPT !.faults = @ - 1]

(* MaxspectClient.async_connect: nothing sent on an old connection is read *)
(* on the new one.                                                         *)
Connects ==
    /\ connected' = TRUE
    /\ reported_mode' = NoMode
    /\ status_event' = FALSE
    /\ reports' = <<>>
(* It fails before the TCP connection is made, or in the handshake after:  *)
(* async_disconnect then closes whatever connection there is.              *)
ConnectFails ==
    /\ LanFaulty /\ Fault
    /\ \/ UNCHANGED <<connected, reported_mode, status_event, reports>>
       \/ /\ connected' = FALSE
          /\ reported_mode' = NoMode
          /\ status_event' = FALSE
          /\ reports' = <<>>
------------------------------------------------------------------------------
(* The controller, its owner, the network and the cloud.                   *)

(* On and Exit Feed are orders to resume a program, not modes to stay in.  *)
Settles(m) == IF m \in {ON, EXIT_FEED}
              THEN DeviceModes \intersect (Programs \union {ON})
              ELSE {m}

FullReport(d) == [mode  |-> d,
                  bak24 |-> IF d \in Programs THEN ON ELSE d]
Telemetry(d)  == [FullReport(d) EXCEPT !.mode = NoMode]

(* The answer to a read of all settings, or a report of a change.          *)
DeviceReports(r) ==
    /\ connected /\ Len(reports) < MaxReports
    /\ reports' = Append(reports, r)
    /\ UNCHANGED <<device, lan_writes, cloud_writes, cloud_mode>>
    /\ UNCHANGED <<entry, button, lan, state, control>>
    /\ UNCHANGED <<cmd, poll, ready, display, budget>>

DeviceReportsSettings == DeviceReports(FullReport(device))
DeviceReportsTelemetry == DeviceReports(Telemetry(device))
DeviceReportsClock == DeviceReports(Clock)

DeviceTakesLanWrite ==
    /\ lan_writes # <<>>
    /\ device' \in Settles(Head(lan_writes))
    /\ lan_writes' = Tail(lan_writes)
    /\ UNCHANGED <<reports, cloud_writes, cloud_mode>>
    /\ UNCHANGED <<entry, button, lan, state, control>>
    /\ UNCHANGED <<cmd, poll, ready, display, budget>>

DeviceTakesCloudWrite ==
    /\ cloud_writes # <<>>
    /\ device' \in Settles(Head(cloud_writes))
    /\ cloud_writes' = Tail(cloud_writes)
    /\ UNCHANGED <<reports, lan_writes, cloud_mode>>
    /\ UNCHANGED <<entry, button, lan, state, control>>
    /\ UNCHANGED <<cmd, poll, ready, display, budget>>

(* The vendor's app, the controller's buttons, or the end of a feed.       *)
OwnerChangesMode ==
    /\ budget.changes > 0
    /\ budget' = [budget EXCEPT !.changes = @ - 1]
    /\ device' \in DeviceModes \ {device}
    /\ UNCHANGED <<reports, lan_writes, cloud_writes, cloud_mode>>
    /\ UNCHANGED <<entry, button, lan, state, control, cmd, poll, ready, display>>

CloudHearsDevice ==
    /\ cloud_mode # device
    /\ cloud_mode' = device
    /\ UNCHANGED <<device, reports, lan_writes, cloud_writes>>
    /\ UNCHANGED <<entry, button, lan, state, control>>
    /\ UNCHANGED <<cmd, poll, ready, display, budget>>

(* The listener meets an OSError or the end of the stream: _connected is   *)
(* cleared.  A write on its way may be lost with the link, or may not.     *)
LinkLost ==
    /\ LanFaulty /\ Fault
    /\ connected
    /\ connected' = FALSE
    /\ reports' = <<>>
    /\ lan_writes' \in {lan_writes, <<>>}
    /\ UNCHANGED <<device, cloud_writes, cloud_mode>>
    /\ UNCHANGED <<reported_mode, mode_event, status_event>>
    /\ UNCHANGED <<entry, button, state, control, cmd, poll, ready, display>>
------------------------------------------------------------------------------
(* The listener: _process_push, then the callback _on_device_push.         *)

(* The report answers the command awaiting its LAN confirmation.           *)
AnswersLocal(m) ==
    /\ local_pending_mode # NoMode /\ m # NoMode
    /\ ModeMatchesRequest(local_pending_mode, m)

LiftedByAnyMode(m) == m # NoMode         \* faulty: does not compare modes

AnswersPending(m) == m # NoMode /\ ModeMatchesRequest(pending_mode, m)

NotReapplied(s) == s                     \* faulty: only skips the callback

(* A stale report: the pending mode goes back over what it merged.         *)
Reapplied(s) == [s EXCEPT !.mode  = pending_mode,
                          !.is_on = pending_mode # OFF]

(* s is the state with the report merged, m the mode it reports.           *)
OnDevicePush(s, m) ==
    \/ /\ AnswersLocal(m)
       /\ pending_mode' = s.mode
       /\ cooldown' = FALSE
       /\ state' = s
       /\ Publish(s)
    \/ /\ ~AnswersLocal(m)
       /\ ~cooldown \/ AnswersPending(m)
       /\ cooldown' = FALSE
       /\ state' = s
       /\ Publish(s)
       /\ UNCHANGED pending_mode
    \/ /\ ~AnswersLocal(m)
       /\ cooldown /\ ~AnswersPending(m)
       /\ state' = Reapplied(s)
       /\ UNCHANGED <<pending_mode, cooldown, display>>

AnyReportIsStatus(m) ==                  \* faulty: also without a mode
    /\ reported_mode' = IF m = NoMode THEN reported_mode ELSE m
    /\ mode_event' = TRUE
    /\ status_event' = TRUE

NoteMode(m) ==
    IF m = NoMode
    THEN UNCHANGED <<reported_mode, mode_event, status_event>>
    ELSE /\ reported_mode' = m
         /\ mode_event' = TRUE
         /\ status_event' = TRUE

ProcessPush ==
    /\ connected /\ reports # <<>>
    /\ reports' = Tail(reports)
    /\ LET r == Head(reports)
           m == ModeFromReport(r)
       IN  /\ heard' = heard \union AttributesOf(r)
           /\ NoteMode(m)
           /\ OnDevicePush(ApplyAttributes(r, state), m)
    /\ UNCHANGED <<device, lan_writes, cloud_writes, cloud_mode>>
    /\ UNCHANGED <<entry, connected, local_pending_mode>>
    /\ UNCHANGED <<cmd, poll, press, ready, budget>>

(* Eight seconds have passed since the cloud write (_WRITE_COOLDOWN).      *)
Settled == cloud_writes = <<>> /\ lan_writes = <<>> /\ reports = <<>>

CooldownEnds ==
    /\ cooldown
    /\ SlowDelivery \/ Settled
    /\ cooldown' = FALSE
    /\ UNCHANGED <<pending_mode, local_pending_mode>>
    /\ UNCHANGED <<entry, button, outside, lan, state, cmd, poll, ready, display, budget>>
------------------------------------------------------------------------------
(* A command: async_set_mode, under _control_lock.                         *)

(* MaxspectClient._async_set_mode up to the wait for a confirmation.       *)
WriteMode(m) ==
    /\ mode_event' = FALSE
    /\ lan_writes' = Append(lan_writes, m)
    /\ cmd' = [step |-> "lan_wait", mode |-> m]

(* The LAN attempt has raised: the cloud, if there is one.                 *)
LanFailed(m) ==
    /\ local_pending_mode' = NoMode
    /\ cmd' = IF entry.cloud THEN [step |-> "cloud", mode |-> m] ELSE Idle

BeginCommand(m) ==
    /\ ready /\ cmd = Idle
    /\ RapidCommands \/ Settled
    /\ budget.commands > 0
    /\ budget' = [budget EXCEPT !.commands = @ - 1]
    /\ \/ /\ entry.local_control /\ connected
          /\ local_pending_mode' = m
          /\ WriteMode(m)
       \/ /\ entry.local_control /\ ~connected
          /\ local_pending_mode' = m
          /\ cmd' = [step |-> "connect", mode |-> m]
          /\ UNCHANGED <<mode_event, lan_writes>>
       \/ /\ ~entry.local_control /\ entry.cloud
          /\ cmd' = [step |-> "cloud", mode |-> m]
          /\ UNCHANGED <<local_pending_mode, mode_event, lan_writes>>
    /\ UNCHANGED <<device, reports, cloud_writes, cloud_mode>>
    /\ UNCHANGED <<connected, reported_mode, status_event>>
    /\ UNCHANGED <<entry, button, state, pending_mode, cooldown, poll, ready, display>>

CommandConnects ==
    /\ cmd.step = "connect"
    /\ \/ Connects /\ WriteMode(cmd.mode) /\ UNCHANGED <<local_pending_mode, budget>>
       \/ /\ ConnectFails /\ LanFailed(cmd.mode)
          /\ UNCHANGED <<mode_event, lan_writes>>
    /\ UNCHANGED <<device, cloud_writes, cloud_mode>>
    /\ UNCHANGED <<entry, button, state, pending_mode, cooldown, poll, ready, display>>

AnyModeConfirms == reported_mode # NoMode    \* faulty: whatever was asked

Confirmed == /\ reported_mode # NoMode
             /\ ModeMatchesRequest(cmd.mode, reported_mode)

(* The waiter wakes on a mode report and looks at the latest one only.     *)
LanWakes ==
    /\ cmd.step = "lan_wait" /\ mode_event
    /\ mode_event' = FALSE
    /\ IF Confirmed
       THEN /\ pending_mode' = state.mode
            /\ cooldown' = FALSE
            /\ local_pending_mode' = NoMode
            /\ cmd' = Idle
            /\ Publish(state)
       ELSE UNCHANGED <<control, cmd, display>>
    /\ UNCHANGED <<outside, connected, reported_mode, status_event>>
    /\ UNCHANGED <<entry, button, state, poll, ready, budget>>

LanWaitsForever == FALSE /\ UNCHANGED vars   \* faulty: a wait with no timeout

(* No matching report within 8 s.                                          *)
LanTimesOut ==
    /\ cmd.step = "lan_wait"
    /\ LanFailed(cmd.mode)
    /\ UNCHANGED <<outside, lan, state, pending_mode, cooldown>>
    /\ UNCHANGED <<entry, button, poll, ready, display, budget>>

CloudAccepts ==
    /\ cmd.step = "cloud"
    /\ cloud_writes' = Append(cloud_writes, cmd.mode)
    /\ cmd' = [cmd EXCEPT !.step = "cloud_ack"]
    /\ UNCHANGED <<device, reports, lan_writes, cloud_mode>>
    /\ UNCHANGED <<entry, button, lan, state, control, poll, ready, display, budget>>

(* The request, or its answer, is lost or refused: the command raises.     *)
CloudFails ==
    /\ CloudFaulty /\ Fault
    /\ cmd.step \in {"cloud", "cloud_ack"}
    /\ cmd' = Idle
    /\ UNCHANGED <<entry, button, outside, lan, state, control, poll, ready, display>>

(* The cloud's 200: the optimistic update and the cooldown.                *)
CloudAcks ==
    /\ cmd.step = "cloud_ack"
    /\ pending_mode' = cmd.mode
    /\ cooldown' = TRUE
    /\ state' = [mode |-> cmd.mode, is_on |-> cmd.mode # OFF, generic |-> cmd.mode]
    /\ Publish(state')
    /\ cmd' = Idle
    /\ UNCHANGED <<entry, button, outside, lan, local_pending_mode, poll, ready, budget>>
------------------------------------------------------------------------------
(* The refresh of the update coordinator, at setup and every 30 s.         *)

Served ==
    /\ poll' = Idle
    /\ ready' = TRUE
    /\ Publish(state)

(* UpdateFailed: the entities become unavailable; setup is given up.       *)
NotServed ==
    /\ poll' = IF ready THEN Idle ELSE [step |-> "retry", mode |-> NoMode]
    /\ available' = FALSE
    /\ shown' = IF available THEN View(state) ELSE shown
    /\ UNCHANGED ready

FallBackAnyTime ==                       \* faulty: forgets the cooldown
    IF entry.cloud
    THEN /\ poll' = [step |-> "fetch", mode |-> NoMode]
         /\ UNCHANGED <<ready, display>>
    ELSE NotServed

(* No LAN status: the cloud's, unless a cloud write is cooling down.       *)
FallBack ==
    \/ cooldown /\ Served
    \/ /\ ~cooldown /\ entry.cloud
       /\ poll' = [step |-> "fetch", mode |-> NoMode]
       /\ UNCHANGED <<ready, display>>
    \/ ~cooldown /\ ~entry.cloud /\ NotServed

(* lan_status_available: nothing is asked of the controller.               *)
RefreshServed ==
    /\ poll = Idle
    /\ connected /\ reported_mode # NoMode
    /\ Served
    /\ UNCHANGED <<entry, button, outside, lan, state, control, cmd, budget>>

(* No mode since the connection, or no traffic for a minute.               *)
RefreshAsks ==
    /\ poll = Idle
    /\ connected /\ (reported_mode = NoMode \/ LanFaulty)
    /\ poll' = [step |-> "status", mode |-> NoMode]
    /\ status_event' = FALSE
    /\ UNCHANGED <<outside, connected, reported_mode, mode_event>>
    /\ UNCHANGED <<entry, button, state, control, cmd, ready, display, budget>>

RefreshConnects ==
    /\ poll = Idle /\ ~connected
    /\ \/ /\ Connects
          /\ poll' = [step |-> "status", mode |-> NoMode]
          /\ UNCHANGED <<ready, display, budget>>
       \/ ConnectFails /\ FallBack
    /\ UNCHANGED <<device, lan_writes, cloud_writes, cloud_mode, mode_event>>
    /\ UNCHANGED <<entry, button, state, control, cmd>>

StatusArrives ==
    /\ poll.step = "status" /\ status_event
    /\ Served
    /\ UNCHANGED <<entry, button, outside, lan, state, control, cmd, budget>>

(* No mode report within 10 s, whatever became of the link meanwhile.      *)
StatusTimesOut ==
    /\ poll.step = "status" /\ LanFaulty
    /\ FallBack
    /\ UNCHANGED <<entry, button, outside, lan, state, control, cmd, budget>>

CloudAnswers ==
    /\ poll.step = "fetch"
    /\ poll' = [step |-> "answer", mode |-> cloud_mode]
    /\ UNCHANGED <<entry, button, outside, lan, state, control, cmd, ready, display, budget>>

(* The answer reaches async_seed_from_cloud(fallback=True).                *)
SeedFromCloud ==
    /\ poll.step = "answer"
    /\ state' = ApplyAttributes(FullReport(poll.mode), state)
    /\ Publish(state')
    /\ poll' = Idle
    /\ ready' = TRUE
    /\ UNCHANGED <<entry, button, outside, lan, control, cmd, budget>>

(* aiohttp's error that the cloud cannot be reached is no GizwitsCloudError. *)
(* The update coordinator takes either for a failed refresh; but setup ends  *)
(* with it, nothing shut down, and Home Assistant does not try again.        *)
Abandoned ==
    /\ ~ready
    /\ poll' = [step |-> "abandoned", mode |-> NoMode]
    /\ UNCHANGED <<ready, display>>

FetchFails ==
    /\ CloudFaulty /\ Fault
    /\ poll.step = "fetch"
    /\ NotServed \/ Abandoned
    /\ UNCHANGED <<entry, button, outside, lan, state, control, cmd>>

(* A new coordinator and a new client.                                     *)
SetUpAfresh ==
    /\ poll' = Idle
    /\ connected' = FALSE
    /\ reported_mode' = NoMode
    /\ mode_event' = FALSE
    /\ status_event' = FALSE
    /\ reports' = <<>>
    /\ state' = InitialState
    /\ shown' = View(InitialState)
    /\ available' = FALSE
    /\ UNCHANGED <<device, lan_writes, cloud_writes, cloud_mode>>
    /\ heard' = {}
    /\ UNCHANGED <<entry, press, control, cmd, ready, budget>>

(* async_shutdown, then Home Assistant sets the entry up again.            *)
SetupRetries == poll.step = "retry" /\ SetUpAfresh

(* The owner reloads an entry whose setup was abandoned.                   *)
OwnerReloads == poll.step = "abandoned" /\ SetUpAfresh
------------------------------------------------------------------------------
(* The schedule button: async_refresh_program, under _program_refresh_lock. *)
(* Its answer from the cloud is merged and shown whatever cooldown runs.    *)

BeginPress ==
    /\ ready /\ press = Idle
    /\ budget.presses > 0
    /\ budget' = [budget EXCEPT !.presses = @ - 1]
    /\ press' = [Idle EXCEPT !.step = IF connected THEN "wait" ELSE "connect"]
    /\ Publish(state)
    /\ UNCHANGED <<entry, outside, lan, state, heard, control, cmd, poll, ready>>

PressEnds == press' = Idle /\ Publish(state)

PressConnects ==
    /\ press.step = "connect"
    /\ \/ /\ Connects
          /\ press' = [Idle EXCEPT !.step = "wait"]
          /\ UNCHANGED <<display, budget>>
       \/ ConnectFails /\ PressEnds
    /\ UNCHANGED <<device, lan_writes, cloud_writes, cloud_mode, mode_event>>
    /\ UNCHANGED <<entry, state, heard, control, cmd, poll, ready>>

(* A schedule was reported, or the request could not be sent, or nothing    *)
(* came for 10 s and there is no cloud to ask.                              *)
PressServed ==
    /\ press.step = "wait"
    /\ PressEnds
    /\ UNCHANGED <<entry, outside, lan, state, heard, control, cmd, poll, ready>>
    /\ UNCHANGED budget

(* No valid schedule within 10 s; yet a LAN that is not silent has answered *)
(* the read of all data points by then.                                     *)
PressAsksCloud ==
    /\ press.step = "wait" /\ entry.cloud
    /\ LanFaulty \/ heard = ModeAttributes
    /\ press' = [press EXCEPT !.step = "fetch"]
    /\ UNCHANGED <<entry, outside, lan, state, heard, control, cmd, poll, ready>>
    /\ UNCHANGED <<display, budget>>

CloudAnswersPress ==
    /\ press.step = "fetch"
    /\ press' = [step |-> "answer", mode |-> cloud_mode]
    /\ UNCHANGED <<entry, outside, lan, state, heard, control, cmd, poll, ready>>
    /\ UNCHANGED <<display, budget>>

SeedsAll(r) == r                         \* faulty: also over what was reported

(* What the controller has not reported yet of the attributes in r.         *)
Unheard(r) == [mode  |-> IF "Mode" \in heard THEN NoMode ELSE r.mode,
               bak24 |-> IF "Bak24" \in heard THEN NoMode ELSE r.bak24]

(* The answer reaches async_seed_from_cloud(fallback=False).                *)
PressSeeds ==
    /\ press.step = "answer"
    /\ state' = ApplyAttributes(Unheard(FullReport(press.mode)), state)
    /\ Publish(state')
    /\ press' = Idle
    /\ UNCHANGED <<entry, outside, lan, heard, control, cmd, poll, ready, budget>>

(* Errors of other kinds than GizwitsCloudError and OSError end the press   *)
(* with nothing shown.                                                      *)
PressFetchFails ==
    /\ CloudFaulty /\ Fault
    /\ press.step = "fetch"
    /\ press' = Idle
    /\ Publish(state) \/ UNCHANGED display
    /\ UNCHANGED <<entry, outside, lan, state, heard, control, cmd, poll, ready>>
------------------------------------------------------------------------------
Environment ==
    \/ DeviceReportsSettings \/ DeviceReportsTelemetry \/ DeviceReportsClock
    \/ DeviceTakesLanWrite \/ DeviceTakesCloudWrite
    \/ OwnerChangesMode \/ CloudHearsDevice \/ LinkLost

Command ==
    \/ \E m \in Requests : BeginCommand(m)
    \/ CommandConnects \/ LanWakes \/ LanTimesOut
    \/ CloudAccepts \/ CloudFails \/ CloudAcks

Refresh ==
    \/ RefreshServed \/ RefreshAsks \/ RefreshConnects
    \/ StatusArrives \/ StatusTimesOut
    \/ CloudAnswers \/ SeedFromCloud \/ FetchFails \/ SetupRetries

Press ==
    \/ PressConnects \/ PressServed \/ PressAsksCloud
    \/ CloudAnswersPress \/ PressSeeds \/ PressFetchFails

Next ==
    \/ Environment \/ ProcessPush \/ CooldownEnds
    \/ Command \/ Refresh \/ OwnerReloads \/ BeginPress \/ Press

Spec == Init /\ [][Next]_vars

(* What goes on by itself: the event loop runs every task that can run,    *)
(* every timer fires, the controller carries out what it received and      *)
(* keeps answering reads of its settings, and the cloud keeps delivering.  *)
(* Users, owners and faults are under no obligation.                       *)
Fairness ==
    /\ SF_vars(DeviceReportsSettings)
    /\ WF_vars(DeviceTakesLanWrite) /\ WF_vars(DeviceTakesCloudWrite)
    /\ WF_vars(CloudHearsDevice)
    /\ WF_vars(ProcessPush) /\ WF_vars(CooldownEnds)
    /\ WF_vars(CommandConnects) /\ WF_vars(LanWakes) /\ WF_vars(LanTimesOut)
    /\ WF_vars(CloudAccepts \/ CloudAcks)
    /\ WF_vars(Refresh) /\ WF_vars(Press)

FairSpec == Spec /\ Fairness
==============================================================================
