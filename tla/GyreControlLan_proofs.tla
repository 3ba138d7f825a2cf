------------------------ MODULE GyreControlLan_proofs ------------------------
(***************************************************************************)
(* With a LAN that answers, the shared state and the entities hold the     *)
(* optimistic update for the whole cooldown: the only thing that disturbs  *)
(* it is a cloud status request; the refresh makes none unless the LAN has *)
(* failed, and a press of the schedule button only once the controller has *)
(* reported its mode itself.                                               *)
(* On any LAN, no default state is ever shown.  And when each command      *)
(* waits for the one before to settle, the last cloud write is shown until *)
(* the controller takes it.                                                *)
(***************************************************************************)
EXTENDS GyreControl_proofs, GyreControlAcked

(* The inductive form: no status request to the cloud is ever under way    *)
(* that could bring a mode, and during a cooldown state and entities show  *)
(* the pending mode.                                                       *)
LanServesStatus ==
    /\ poll.step \in {"idle", "status"}
    /\ press.step \in {"fetch", "answer"} => heard = ModeAttributes

HoldIntact ==
    cooldown => /\ state.mode = pending_mode
                /\ View(state) = Held!Show(pending_mode)
                /\ shown = View(state)

LanInv == LanServesStatus /\ HoldIntact

(* What a press brings changes nothing then.                               *)
LEMMA PressBringsNothing ==
    ASSUME TypeOK, LanInv, Press \/ BeginPress
    PROVE  /\ state' = state /\ shown' \in {shown, View(state)}
           /\ UNCHANGED <<cooldown, pending_mode, local_pending_mode, cmd, poll>>
           /\ UNCHANGED <<device, lan_writes, cloud_writes, mode_event, ready>>
           /\ reports' \in {reports, <<>>}
           /\ reported_mode' \in {reported_mode, NoMode}
  <1> USE DEF outside, lan, control, display
  <1>1. CASE PressSeeds
    <2>1. heard = ModeAttributes
      BY <1>1 DEF PressSeeds, LanInv, LanServesStatus
    <2>2. Unheard(FullReport(press.mode)) = Clock
      BY <2>1 DEF Unheard, Clock, ModeAttributes
    <2>3. QED
      BY <1>1, <2>2 DEF PressSeeds, ApplyAttributes, Publish
  <1>2. CASE BeginPress \/ PressServed \/ PressAsksCloud \/ CloudAnswersPress
    BY <1>2 DEF BeginPress, PressServed, PressEnds, PressAsksCloud,
       CloudAnswersPress, Publish
  <1>3. CASE PressConnects \/ PressFetchFails
    BY <1>3 DEF PressConnects, Connects, ConnectFails, PressEnds,
       PressFetchFails, Publish
  <1>4. QED
    BY <1>1, <1>2, <1>3 DEF Press

LEMMA LanInvStep ==
    ASSUME ~LanFaulty
    PROVE  TypeOK /\ LanInv /\ [Next]_vars => LanInv'
  <1> SUFFICES ASSUME TypeOK, LanInv, [Next]_vars PROVE LanInv'
    OBVIOUS
  <1> USE DEF TypeOK, LanInv, LanServesStatus, outside, lan, control, display, button
  <1>1. CASE UNCHANGED <<state, shown, cooldown, pending_mode, poll, button>>
    BY <1>1 DEF HoldIntact, View
  <1>2. CASE Environment
    BY <1>1, <1>2 DEF Environment, DeviceReportsSettings,
       DeviceReportsTelemetry, DeviceReportsClock, DeviceReports, LinkLost,
       DeviceTakesLanWrite, DeviceTakesCloudWrite, OwnerChangesMode,
       CloudHearsDevice
  <1>3. CASE ProcessPush
    <2> DEFINE r == Head(reports)
               s == ApplyAttributes(r, state)
               m == ModeFromReport(r)
    <2>1. OnDevicePush(s, m) /\ UNCHANGED <<poll, press>>
      BY <1>3 DEF ProcessPush
    <2>2. LanServesStatus'
      BY <1>3 DEF ProcessPush, AttributesOf, PressType
    <2>3. s \in States
      BY <1>3, MergeType, HeadTailProperties DEF ProcessPush, OutsideType,
         ClientType
    <2> HIDE DEF s, m
    (* A cooldown that goes on has seen a stale report.                     *)
    <2>4. CASE cooldown'
      <3>1. /\ cooldown /\ state' = Reapplied(s)
            /\ UNCHANGED <<shown, pending_mode>>
        BY <2>1, <2>4 DEF OnDevicePush
      <3>2. /\ state'.mode = pending_mode
            /\ View(state') = Held!Show(pending_mode)
        BY <2>3, <3>1, ShowReapplied DEF Reapplied, States
      <3>3. QED
        BY <2>2, <3>1, <3>2 DEF HoldIntact, View, Held!Show, Held!OFF
    <2>5. CASE ~cooldown'
      BY <2>5, <2>2 DEF HoldIntact
    <2>6. QED
      BY <2>4, <2>5
  <1>4. CASE CooldownEnds
    BY <1>4 DEF CooldownEnds, HoldIntact
  <1>5. CASE Command
    <2>1. CASE \/ \E m \in Requests : BeginCommand(m)
               \/ CommandConnects \/ LanTimesOut \/ CloudAccepts \/ CloudFails
      BY <1>1, <2>1 DEF BeginCommand, CommandConnects, LanTimesOut,
         CloudAccepts, CloudFails
    <2>2. CASE LanWakes
      BY <2>2 DEF LanWakes, HoldIntact, View
    <2>3. CASE CloudAcks
      BY <2>3 DEF CloudAcks, HoldIntact, Publish, View, Held!Show, OFF,
         Held!OFF
    <2>4. QED
      BY <1>5, <2>1, <2>2, <2>3 DEF Command
  <1>6. CASE Refresh \/ OwnerReloads
    <2>1. CASE RefreshServed \/ StatusArrives
      BY <2>1 DEF RefreshServed, StatusArrives, Served, Idle, HoldIntact,
         Publish, View
    <2>2. CASE RefreshAsks
      BY <2>2 DEF RefreshAsks, HoldIntact, View
    <2>3. CASE RefreshConnects
      BY <2>3 DEF RefreshConnects, ConnectFails, HoldIntact, View
    <2>4. CASE \/ StatusTimesOut \/ CloudAnswers \/ SeedFromCloud
               \/ FetchFails \/ SetupRetries \/ OwnerReloads
      BY <2>4 DEF StatusTimesOut, CloudAnswers, SeedFromCloud, FetchFails,
         SetupRetries, OwnerReloads, SetUpAfresh
    <2>5. QED
      BY <1>6, <2>1, <2>2, <2>3, <2>4 DEF Refresh
  <1>7. CASE BeginPress \/ Press
    <2>1. HoldIntact'
      BY <1>7, PressBringsNothing DEF HoldIntact, View
    <2>2. poll' = poll
      BY <1>7, PressBringsNothing
    <2>3. (press.step \in {"fetch", "answer"} => heard = ModeAttributes)'
      BY <1>7 DEF BeginPress, Press, PressConnects, PressServed, PressEnds,
         PressAsksCloud, CloudAnswersPress, PressSeeds, PressFetchFails, Idle
    <2>4. QED
      BY <2>1, <2>2, <2>3
  <1>8. CASE UNCHANGED vars
    BY <1>1, <1>8 DEF vars
  <1>9. QED
    BY <1>2, <1>3, <1>4, <1>5, <1>6, <1>7, <1>8 DEF Next

(* The optimistic update stays in the shared state and on the entities for *)
(* the whole cooldown, unless the LAN has failed.                          *)
THEOREM HeldOnHealthyLan ==
    ASSUME ~LanFaulty
    PROVE  Spec => []HeldStateIsPending
  <1>1. Init => LanInv
    BY DEF Init, LanInv, LanServesStatus, HoldIntact, Idle
  <1>2. TypeOK /\ LanInv /\ [Next]_vars => LanInv'
    BY LanInvStep
  <1>3. LanInv => HeldStateIsPending
    BY DEF LanInv, HoldIntact, HeldStateIsPending
  <1>4. QED
    BY <1>1, <1>2, <1>3, TypeCorrect, PTL DEF Spec

------------------------------------------------------------------------------
(* What the waiter will publish when it finds its mode confirmed.          *)
WaiterPublishesMatch ==
    cmd.step = "lan_wait" /\ mode_event /\ Confirmed =>
        ModeMatchesRequest(cmd.mode, state.mode)

LEMMA WaiterStep ==
    ASSUME ~LanFaulty
    PROVE  /\ TypeOK /\ HeldInv /\ LanInv /\ WaiterPublishesMatch /\ [Next]_vars
           => WaiterPublishesMatch'
  <1> SUFFICES ASSUME TypeOK, HeldInv, LanInv, WaiterPublishesMatch, [Next]_vars
               PROVE  WaiterPublishesMatch'
    OBVIOUS
  <1> USE DEF TypeOK, LanInv, LanServesStatus, outside, lan, control, display
  <1>1. CASE UNCHANGED <<cmd, mode_event, reported_mode, state>>
    BY <1>1 DEF WaiterPublishesMatch, Confirmed
  <1>2. CASE Environment
    BY <1>1, <1>2 DEF Environment, DeviceReportsSettings,
       DeviceReportsTelemetry, DeviceReportsClock, DeviceReports, LinkLost,
       DeviceTakesLanWrite, DeviceTakesCloudWrite, OwnerChangesMode,
       CloudHearsDevice
  <1>3. CASE ProcessPush
    <2> DEFINE r == Head(reports)
               s == ApplyAttributes(r, state)
               m == ModeFromReport(r)
    <2>1. NoteMode(m) /\ OnDevicePush(s, m) /\ UNCHANGED cmd
      BY <1>3 DEF ProcessPush
    <2>2. r \in Reports
      BY <1>3, HeadTailProperties DEF ProcessPush, OutsideType
    <2>3. SUFFICES ASSUME cmd.step = "lan_wait", mode_event', Confirmed'
                   PROVE  ModeMatchesRequest(cmd.mode, state'.mode)
      BY <2>1 DEF WaiterPublishesMatch
    <2>4. cmd.mode \in Modes /\ local_pending_mode = cmd.mode
      BY <2>3, GyreControlAssumption DEF CmdType, HeldInv, AskedIsTheCommand
    <2>5. CASE m = NoMode
      (* A report without a mode, and no cooldown that it could reapply.     *)
      <3>1. r = Clock
        BY <2>2, <2>5 DEF ModeFromReport, Reports, Clock
      <3>2. s = state
        BY <3>1 DEF ApplyAttributes
      <3>3. UNCHANGED <<reported_mode, mode_event>>
        BY <2>1, <2>5 DEF NoteMode
      <3>4. mode_event /\ Confirmed
        BY <2>1, <2>3, <3>3 DEF Confirmed
      <3>5. ~cooldown
        BY <2>3, <3>4 DEF HeldInv, ConfirmedIsLifted
      <3>6. state' = state
        BY <2>1, <3>2, <3>5 DEF OnDevicePush
      <3> QED
        BY <2>3, <3>4, <3>6 DEF WaiterPublishesMatch
    <2>6. CASE m # NoMode
      <3>1. ModeMatchesRequest(cmd.mode, m)
        BY <2>1, <2>3, <2>6 DEF NoteMode, Confirmed
      <3>2. cmd.mode # NoMode
        BY <2>4 DEF Modes, NoMode, WATER_FLOW, PROGRAMMING, FEED, OFF,
           EXIT_FEED, ON
      <3>3. state' = s
        BY <2>1, <2>4, <2>6, <3>1, <3>2 DEF OnDevicePush, AnswersLocal
      <3>4. state \in States
        BY DEF ClientType
      <3>5. ModeMatchesRequest(cmd.mode, s.mode)
        BY <2>2, <2>4, <2>6, <3>1, <3>4, MergeMatches
      <3> QED
        BY <3>3, <3>5
    <2> QED
      BY <2>5, <2>6
  <1>4. CASE CooldownEnds
    BY <1>1, <1>4 DEF CooldownEnds
  <1>5. CASE Command
    <2>1. ASSUME NEW q \in Requests, BeginCommand(q) PROVE WaiterPublishesMatch'
      <3>1. cmd'.step # "lan_wait" \/ mode_event' = FALSE
        BY <2>1 DEF BeginCommand, WriteMode
      <3> QED
        BY <3>1 DEF WaiterPublishesMatch
    <2>2. CASE CommandConnects
      BY <2>2 DEF CommandConnects, ConnectFails, WriteMode, WaiterPublishesMatch
    <2>3. CASE LanWakes
      BY <2>3 DEF LanWakes, WaiterPublishesMatch
    <2>4. CASE LanTimesOut
      BY <2>4 DEF LanTimesOut, LanFailed, Idle, WaiterPublishesMatch
    <2>5. CASE CloudAccepts \/ CloudFails \/ CloudAcks
      <3>1. cmd'.step # "lan_wait"
        BY <2>5 DEF CloudAccepts, CloudFails, CloudAcks, Idle, CmdType
      <3> QED
        BY <3>1 DEF WaiterPublishesMatch
    <2> QED
      BY <1>5, <2>1, <2>2, <2>3, <2>4, <2>5 DEF Command
  <1>6. CASE Refresh \/ OwnerReloads
    <2>1. CASE RefreshServed \/ StatusArrives \/ RefreshAsks
      BY <1>1, <2>1 DEF RefreshServed, StatusArrives, RefreshAsks
    <2>2. CASE RefreshConnects
      BY <2>2 DEF RefreshConnects, Connects, ConnectFails, WaiterPublishesMatch,
         Confirmed
    <2>3. CASE \/ StatusTimesOut \/ CloudAnswers \/ SeedFromCloud
               \/ FetchFails \/ SetupRetries \/ OwnerReloads
      BY <2>3 DEF StatusTimesOut, CloudAnswers, SeedFromCloud, FetchFails,
         SetupRetries, OwnerReloads
    <2> QED
      BY <1>6, <2>1, <2>2, <2>3 DEF Refresh
  <1>7. CASE BeginPress \/ Press
    <2>1. /\ UNCHANGED <<cmd, mode_event, state>>
          /\ reported_mode' \in {reported_mode, NoMode}
      BY <1>7, PressBringsNothing
    <2> QED
      BY <2>1 DEF WaiterPublishesMatch, Confirmed
  <1>8. CASE UNCHANGED vars
    BY <1>1, <1>8 DEF vars
  <1> QED
    BY <1>2, <1>3, <1>4, <1>5, <1>6, <1>7, <1>8 DEF Next

(* A command that succeeds on the LAN leaves the entities showing a mode    *)
(* that answers it, whatever the controller's owner does meanwhile.         *)
THEOREM LanSuccess ==
    ASSUME ~LanFaulty
    PROVE  Spec => LanSuccessShowsRequest
  <1>1. Init => WaiterPublishesMatch
    BY DEF Init, WaiterPublishesMatch, Idle
  <1>2. /\ TypeOK /\ HeldInv /\ LanInv /\ WaiterPublishesMatch /\ [Next]_vars
        => WaiterPublishesMatch'
    BY WaiterStep
  <1>3. WaiterPublishesMatch /\ [Next]_vars
        => [ (LanWakes /\ cmd' = Idle)
             => ModeMatchesRequest(cmd.mode, shown'.mode) ]_vars
    <2> SUFFICES ASSUME WaiterPublishesMatch, LanWakes, cmd' = Idle
                 PROVE  ModeMatchesRequest(cmd.mode, shown'.mode)
      OBVIOUS
    <2>1. Confirmed /\ Publish(state)
      BY DEF LanWakes, Idle
    <2> QED
      BY <2>1 DEF LanWakes, WaiterPublishesMatch, Publish, View
  <1>4. Init => LanInv
    BY DEF Init, LanInv, LanServesStatus, HoldIntact, Idle
  <1>5. TypeOK /\ LanInv /\ [Next]_vars => LanInv'
    BY LanInvStep
  <1> QED
    BY <1>1, <1>2, <1>3, <1>4, <1>5, TypeCorrect, HeldInvariant, PTL
       DEF Spec, LanSuccessShowsRequest
------------------------------------------------------------------------------
(* A state that was merged, commanded or reapplied, unlike the default one. *)
Real(s) == s.is_on = (s.mode # OFF)

RealInv ==
    /\ ready \/ status_event \/ reported_mode # NoMode => Real(state)
    /\ ready => Real(shown)

LEMMA RealMerged ==
    ASSUME NEW r \in Reports, NEW s \in States, r # Clock \/ Real(s)
    PROVE  Real(ApplyAttributes(r, s))
  BY DEF ApplyAttributes, Real

LEMMA RealView ==
    ASSUME NEW s \in States, Real(s)
    PROVE  Real(View(s))
  BY DEF View, Real, States

LEMMA RealStep == TypeOK /\ HeldInv /\ RealInv /\ [Next]_vars => RealInv'
  <1> SUFFICES ASSUME TypeOK, HeldInv, RealInv, [Next]_vars PROVE RealInv'
    OBVIOUS
  <1> USE DEF TypeOK, outside, lan, control, display
  <1>0. state \in States
    BY DEF ClientType
  <1>1. CASE UNCHANGED <<state, shown, ready, status_event, reported_mode>>
    BY <1>1 DEF RealInv, Real
  <1>2. CASE Environment
    BY <1>1, <1>2 DEF Environment, DeviceReportsSettings,
       DeviceReportsTelemetry, DeviceReportsClock, DeviceReports, LinkLost,
       DeviceTakesLanWrite, DeviceTakesCloudWrite, OwnerChangesMode,
       CloudHearsDevice
  <1>3. CASE ProcessPush
    <2> DEFINE r == Head(reports)
               s == ApplyAttributes(r, state)
               m == ModeFromReport(r)
    <2>1. NoteMode(m) /\ OnDevicePush(s, m) /\ UNCHANGED ready
      BY <1>3 DEF ProcessPush
    <2>2. r \in Reports
      BY <1>3, HeadTailProperties DEF ProcessPush, OutsideType
    <2>3. s \in States
      BY <1>0, <2>2, MergeType
    <2>4. Real(s) => Real(state')
      <3> HIDE DEF s, m
      <3>1. Real(Reapplied(s))
        BY <2>3 DEF Real, Reapplied, States
      <3> QED
        BY <2>1, <3>1 DEF OnDevicePush
    <2>5. ready \/ status_event' \/ reported_mode' # NoMode => Real(s)
      <3>1. CASE m # NoMode
        <4>1. r # Clock
          BY <3>1 DEF ModeFromReport, Clock
        <4> QED
          BY <1>0, <2>2, <4>1, RealMerged
      <3>2. CASE m = NoMode
        BY <1>0, <2>1, <2>2, <3>2, RealMerged DEF NoteMode, RealInv
      <3> QED
        BY <3>1, <3>2
    <2>6. Real(s) /\ (ready => Real(shown)) => (ready => Real(shown'))
      <3> HIDE DEF s, m
      <3>1. shown' \in {View(s), shown}
        BY <2>1 DEF OnDevicePush, Publish
      <3> QED
        BY <2>3, <3>1, RealView
    <2> HIDE DEF s
    <2> QED
      BY <2>1, <2>4, <2>5, <2>6 DEF RealInv
  <1>4. CASE CooldownEnds
    BY <1>1, <1>4 DEF CooldownEnds
  <1>5. Real(state) => Real(View(state))
    BY <1>0, RealView
  <1>6. CASE Command
    <2>0. cmd.step # "idle" => ready
      BY DEF HeldInv, CoolingIsReady, Idle
    <2>1. ASSUME NEW q \in Requests, BeginCommand(q) PROVE RealInv'
      BY <1>1, <2>1 DEF BeginCommand
    <2>2. CASE CommandConnects
      <3>1. ready /\ UNCHANGED <<state, shown, ready>>
        BY <2>0, <2>2 DEF CommandConnects
      <3> QED
        BY <3>1 DEF RealInv, Real
    <2>3. CASE LanWakes
      <3>1. ready /\ UNCHANGED <<state, ready>> /\ shown' \in {View(state), shown}
        BY <2>0, <2>3 DEF LanWakes, Publish
      <3> QED
        BY <1>5, <3>1 DEF RealInv, Real
    <2>4. CASE LanTimesOut \/ CloudAccepts \/ CloudFails
      BY <1>1, <2>4 DEF LanTimesOut, CloudAccepts, CloudFails
    <2>5. CASE CloudAcks
      BY <2>5 DEF CloudAcks, Publish, View, RealInv, Real
    <2> QED
      BY <1>6, <2>1, <2>2, <2>3, <2>4, <2>5 DEF Command
  <1>7. ASSUME Served, state' = state, Real(state) PROVE RealInv'
    BY <1>5, <1>7 DEF Served, Publish, RealInv, Real
  <1>8. ASSUME NotServed, state' = state,
               status_event' \/ reported_mode' # NoMode =>
                   status_event \/ reported_mode # NoMode
        PROVE  RealInv'
    BY <1>5, <1>8 DEF NotServed, RealInv, Real
  <1>9. ASSUME UNCHANGED <<state, shown, ready>>,
               status_event' \/ reported_mode' # NoMode =>
                   status_event \/ reported_mode # NoMode
        PROVE  RealInv'
    BY <1>9 DEF RealInv, Real
  <1>10. ASSUME FallBack, state' = state,
                status_event' \/ reported_mode' # NoMode =>
                    status_event \/ reported_mode # NoMode
         PROVE  RealInv'
    <2>1. cooldown => Real(state)
      BY DEF HeldInv, CoolingIsReady, RealInv
    <2> QED
      BY <1>7, <1>8, <1>9, <1>10, <2>1 DEF FallBack
  <1>11. CASE Refresh \/ OwnerReloads
    <2>1. CASE RefreshServed
      BY <1>7, <2>1 DEF RefreshServed, RealInv
    <2>2. CASE StatusArrives
      BY <1>7, <2>2 DEF StatusArrives, RealInv
    <2>3. CASE RefreshAsks
      BY <1>9, <2>3 DEF RefreshAsks
    <2>4. CASE RefreshConnects
      <3>1. status_event' \/ reported_mode' # NoMode =>
                status_event \/ reported_mode # NoMode
        BY <2>4 DEF RefreshConnects, Connects, ConnectFails
      <3> QED
        BY <1>9, <1>10, <2>4, <3>1 DEF RefreshConnects
    <2>5. CASE StatusTimesOut
      BY <1>10, <2>5 DEF StatusTimesOut
    <2>6. CASE CloudAnswers
      BY <1>9, <2>6 DEF CloudAnswers
    <2>7. CASE SeedFromCloud
      <3> DEFINE f == FullReport(poll.mode)
                 s == ApplyAttributes(f, state)
      <3>1. poll.mode \in DeviceModes
        BY <2>7 DEF SeedFromCloud, PollType
      <3>2. f \in Reports /\ f # Clock
        <4>1. poll.mode \in Modes /\ poll.mode # NoMode
          BY <3>1, GyreControlAssumption DEF Modes, NoMode, WATER_FLOW,
             PROGRAMMING, FEED, OFF, EXIT_FEED, ON
        <4>2. f.mode = poll.mode
          BY DEF FullReport
        <4> QED
          BY <3>1, <4>1, <4>2, ReportType DEF Clock
      <3>3. Real(s) /\ s \in States
        BY <1>0, <3>2, RealMerged, MergeType
      <3>4. state' = s /\ shown' = View(s)
        BY <2>7 DEF SeedFromCloud, Publish
      <3> HIDE DEF s, f
      <3> QED
        BY <3>3, <3>4, RealView DEF RealInv
    <2>8. CASE FetchFails
      BY <1>8, <1>9, <2>8 DEF FetchFails, Abandoned
    <2>9. CASE SetupRetries \/ OwnerReloads
      <3>1. ~ready
        BY <2>9 DEF SetupRetries, OwnerReloads, HeldInv, CoolingIsReady
      <3> QED
        BY <2>9, <3>1 DEF SetupRetries, OwnerReloads, SetUpAfresh, RealInv
    <2> QED
      BY <1>11, <2>1, <2>2, <2>3, <2>4, <2>5, <2>6, <2>7, <2>8, <2>9 DEF Refresh
  <1>12. CASE BeginPress \/ Press
    <2>1. ready /\ ready' = ready
      BY <1>12 DEF HeldInv, CoolingIsReady, Idle, BeginPress, Press,
         PressConnects, PressServed, PressAsksCloud, CloudAnswersPress,
         PressSeeds, PressFetchFails
    <2>2. Real(state) /\ Real(View(state)) /\ Real(shown)
      BY <1>5, <2>1 DEF RealInv
    <2>3. CASE PressSeeds
      <3> DEFINE f == Unheard(FullReport(press.mode))
                 s == ApplyAttributes(f, state)
      <3>1. f \in Reports
        BY <2>3, ReportType, UnheardType DEF PressSeeds, PressType
      <3>2. Real(s) /\ s \in States
        BY <1>0, <2>2, <3>1, RealMerged, MergeType
      <3>3. state' = s /\ shown' = View(s)
        BY <2>3 DEF PressSeeds, Publish
      <3> HIDE DEF s, f
      <3> QED
        BY <3>2, <3>3, RealView DEF RealInv
    <2>4. CASE ~PressSeeds
      <3>1. state' = state /\ shown' \in {shown, View(state)}
        BY <1>12, <2>4 DEF BeginPress, Press, PressConnects, PressServed,
           PressEnds, PressAsksCloud, CloudAnswersPress, PressFetchFails, Publish
      <3> QED
        BY <2>2, <3>1 DEF RealInv
    <2> QED
      BY <2>3, <2>4
  <1>13. CASE UNCHANGED vars
    BY <1>1, <1>13 DEF vars
  <1> QED
    BY <1>2, <1>3, <1>4, <1>6, <1>11, <1>12, <1>13 DEF Next

(* Entities never show the default state of a client that has heard nothing *)
(* (is_on FALSE with a running mode), whatever fails during setup.          *)
THEOREM NoDefaultState == Spec => []NeverTheDefaultState
  <1>1. Init => RealInv
    BY DEF Init, RealInv
  <1>2. RealInv => NeverTheDefaultState
    BY DEF RealInv, NeverTheDefaultState, Real
  <1> QED
    BY <1>1, <1>2, RealStep, TypeCorrect, HeldInvariant, PTL DEF Spec
------------------------------------------------------------------------------
(* What the controller does with a written mode answers the write.          *)
LEMMA SettlesMatches ==
    ASSUME NEW g \in Requests, NEW d \in Settles(g)
    PROVE  ModeMatchesRequest(g, d)
  BY DEF Settles, ModeMatchesRequest

(* A report that answers the goal is of a controller in a mode that does.   *)
LEMMA AnswerBelongs ==
    ASSUME NEW g \in Modes, NEW d \in DeviceModes,
           NEW r \in {FullReport(d), Telemetry(d), Clock}, Answers(g, r)
    PROVE  ModeMatchesRequest(g, d) /\ Belongs(g, r)
  <1>1. d \in Modes \ {EXIT_FEED}
    BY GyreControlAssumption
  <1>2. CASE r = FullReport(d)
    <2>1. ModeFromReport(r) = d
      BY <1>1, <1>2 DEF ModeFromReport, FullReport, Modes, NoMode, WATER_FLOW,
         PROGRAMMING, FEED, OFF, EXIT_FEED, ON
    <2> QED
      BY <1>2, <2>1 DEF Answers, Belongs
  <1>3. CASE r = Telemetry(d)
    <2>1. ModeFromReport(r) = IF d \in Programs THEN ON ELSE d
      BY <1>3 DEF ModeFromReport, Telemetry, FullReport
    <2>2. ModeMatchesRequest(g, d)
      BY <1>1, <2>1 DEF Answers, ModeMatchesRequest, Programs, Modes, NoMode,
         WATER_FLOW, PROGRAMMING, FEED, OFF, EXIT_FEED, ON
    <2> QED
      BY <1>3, <2>2 DEF Belongs
  <1>4. CASE r = Clock
    BY <1>4 DEF Answers, ModeFromReport, Clock
  <1> QED
    BY <1>2, <1>3, <1>4

(* Merging a report of a mode that answers the goal shows such a mode, if   *)
(* the report itself answers or if the state did before.                    *)
LEMMA MergeBelongs ==
    ASSUME NEW g \in Modes, NEW r, Belongs(g, r), NEW s \in States,
           \/ Answers(g, r)
           \/ /\ ModeMatchesRequest(g, s.mode)
              /\ g \in Programs => s.generic = g
    PROVE  LET t == ApplyAttributes(r, s)
           IN  /\ ModeMatchesRequest(g, t.mode)
               /\ g \in Programs => t.generic = g
  <1>1. CASE r = Clock
    BY <1>1 DEF ApplyAttributes, Answers, ModeFromReport, Clock
  <1>2. ASSUME NEW d \in DeviceModes, ModeMatchesRequest(g, d),
               r = FullReport(d)
        PROVE  LET t == ApplyAttributes(r, s)
               IN  /\ ModeMatchesRequest(g, t.mode)
                   /\ g \in Programs => t.generic = g
    <2>1. r.mode = d /\ d # NoMode /\ r # Clock
      <3>1. d # NoMode
        BY GyreControlAssumption DEF Modes, NoMode, WATER_FLOW, PROGRAMMING,
           FEED, OFF, EXIT_FEED, ON
      <3>2. r.mode = d
        BY <1>2 DEF FullReport
      <3> QED
        BY <3>1, <3>2 DEF Clock
    <2>2. /\ ApplyAttributes(r, s).mode = d
          /\ ApplyAttributes(r, s).generic = d
      BY <2>1 DEF ApplyAttributes
    <2>3. g \in Programs => d = g
      BY <1>2 DEF ModeMatchesRequest, Programs, WATER_FLOW, PROGRAMMING, ON,
         EXIT_FEED
    <2> QED
      BY <1>2, <2>2, <2>3
  <1>3. ASSUME NEW d \in DeviceModes, ModeMatchesRequest(g, d),
               r = Telemetry(d)
        PROVE  LET t == ApplyAttributes(r, s)
               IN  /\ ModeMatchesRequest(g, t.mode)
                   /\ g \in Programs => t.generic = g
    <2>1. /\ r.mode = NoMode
          /\ r.bak24 = IF d \in Programs THEN ON ELSE d
      BY <1>3 DEF Telemetry, FullReport
    <2>2. r # Clock
      <3>1. r.bak24 # NoMode
        BY <2>1, GyreControlAssumption DEF Modes, NoMode, WATER_FLOW,
           PROGRAMMING, FEED, OFF, EXIT_FEED, ON
      <3> QED
        BY <3>1 DEF Clock
    <2>3. /\ ApplyAttributes(r, s).mode = IF r.bak24 = ON /\ s.generic \in Programs
                                          THEN s.generic ELSE r.bak24
          /\ ApplyAttributes(r, s).generic = s.generic
      BY <2>1, <2>2 DEF ApplyAttributes, TelemetryMode, ProgramMode
    <2>4. CASE g \in Programs
      <3>1. d = g
        BY <1>3, <2>4 DEF ModeMatchesRequest, Programs, WATER_FLOW,
           PROGRAMMING, ON, EXIT_FEED
      <3>2. ~Answers(g, r)
        BY <2>1, <2>4, <3>1 DEF Answers, ModeFromReport, ModeMatchesRequest,
           Programs, WATER_FLOW, PROGRAMMING, ON, EXIT_FEED
      <3> QED
        BY <2>1, <2>3, <2>4, <3>1, <3>2 DEF ModeMatchesRequest, Programs,
           WATER_FLOW, PROGRAMMING, ON, EXIT_FEED
    <2>5. CASE g \notin Programs
      BY <1>3, <2>1, <2>3, <2>5 DEF ModeMatchesRequest, Programs, WATER_FLOW,
         PROGRAMMING, ON, EXIT_FEED
    <2> QED
      BY <2>4, <2>5
  <1> QED
    BY <1>1, <1>2, <1>3 DEF Belongs

------------------------------------------------------------------------------
(* The goal is a mode; and while a command is on its way to the controller  *)
(* it is a mode that was requested.                                         *)
LEMMA GoalType ==
    TypeOK => /\ Goal \in Modes
              /\ cmd.step # "idle" => Goal \in Requests
  BY GyreControlAssumption DEF TypeOK, CmdType, ControlType, Goal

(* A step that sends no report, changes no mode and writes none keeps the   *)
(* reports in order, and those of a new connection are none.                *)
LEMMA OrderKept ==
    ASSUME ReportsInOrder, Goal' = Goal, Writing' => Writing,
           device' = device, reports' \in {reports, <<>>}
    PROVE  ReportsInOrder'
  BY DEF ReportsInOrder

LEMMA OrderAppended ==
    ASSUME TypeOK, ReportsInOrder, Goal' = Goal, Writing' = Writing,
           device' = device,
           NEW r \in {FullReport(device), Telemetry(device), Clock},
           reports' = Append(reports, r)
    PROVE  ReportsInOrder'
  <1> SUFFICES ASSUME Writing, NEW i \in 1..Len(reports'),
                      Answers(Goal, reports'[i])
               PROVE  /\ ModeMatchesRequest(Goal, device)
                      /\ \A j \in i..Len(reports') : Belongs(Goal, reports'[j])
    BY DEF ReportsInOrder
  <1>1. /\ reports \in Seq(Reports) /\ device \in DeviceModes /\ r \in Reports
        /\ Goal \in Modes
    BY GoalType, ReportType DEF TypeOK, OutsideType
  <1>2. /\ Len(reports') = Len(reports) + 1 /\ Len(reports) \in Nat
        /\ \A k \in 1..Len(reports) : reports'[k] = reports[k]
        /\ reports'[Len(reports) + 1] = r
    BY <1>1, AppendProperties
  <1>3. CASE i = Len(reports) + 1
    BY <1>1, <1>2, <1>3, AnswerBelongs
  <1>4. CASE i \in 1..Len(reports)
    <2>1. /\ ModeMatchesRequest(Goal, device)
          /\ \A j \in i..Len(reports) : Belongs(Goal, reports[j])
      BY <1>2, <1>4 DEF ReportsInOrder
    <2>2. Belongs(Goal, r)
      BY <1>1, <2>1 DEF Belongs
    <2>3. ASSUME NEW j \in i..Len(reports') PROVE Belongs(Goal, reports'[j])
      BY <1>2, <1>4, <2>1, <2>2, <2>3
    <2> QED
      BY <2>1, <2>3
  <1> QED
    BY <1>2, <1>3, <1>4

(* What is left of a queue, and what one write more makes of it.            *)
LEMMA QueueOfOne ==
    ASSUME NEW S, NEW q \in Seq(S), NEW g \in S,
           \A i \in 1..Len(q) : q[i] = g
    PROVE  /\ q # <<>> => /\ Head(q) = g
                          /\ \A i \in 1..Len(Tail(q)) : Tail(q)[i] = g
           /\ \A i \in 1..Len(Append(q, g)) : Append(q, g)[i] = g
  <1>1. ASSUME q # <<>>
        PROVE  Head(q) = g /\ \A i \in 1..Len(Tail(q)) : Tail(q)[i] = g
    <2>1. /\ Len(q) \in Nat /\ Len(q) # 0 /\ Head(q) = q[1]
          /\ Len(Tail(q)) = Len(q) - 1
          /\ \A i \in 1..Len(Tail(q)) : Tail(q)[i] = q[i + 1]
      BY <1>1, HeadTailProperties, EmptySeq, LenProperties
    <2> QED
      BY <2>1
  <1>2. \A i \in 1..Len(Append(q, g)) : Append(q, g)[i] = g
    BY AppendProperties, LenProperties
  <1> QED
    BY <1>1, <1>2

(* The controller carries out a write.                                      *)
LEMMA WriteTaken ==
    ASSUME TypeOK, SpacedInv, DeviceTakesLanWrite \/ DeviceTakesCloudWrite,
           Writing, UNCHANGED acked
    PROVE  ModeMatchesRequest(Goal, device') /\ OneModeWritten'
  <1>0. /\ lan_writes \in Seq(Requests) /\ cloud_writes \in Seq(Requests)
        /\ \A i \in 1..Len(lan_writes) : lan_writes[i] = Goal
        /\ \A i \in 1..Len(cloud_writes) : cloud_writes[i] = Goal
    BY DEF TypeOK, OutsideType, SpacedInv, OneModeWritten
  <1>1. Goal' = Goal /\ Writing' = Writing
    BY DEF DeviceTakesLanWrite, DeviceTakesCloudWrite, Goal, Writing, control
  <1>2. CASE DeviceTakesLanWrite
    <2>1. /\ lan_writes # <<>> /\ device' \in Settles(Head(lan_writes))
          /\ lan_writes' = Tail(lan_writes) /\ cloud_writes' = cloud_writes
      BY <1>2 DEF DeviceTakesLanWrite
    <2>2. Goal \in Requests
      BY <1>0, <2>1, EmptySeq, LenProperties
    <2>3. /\ Head(lan_writes) = Goal
          /\ \A i \in 1..Len(Tail(lan_writes)) : Tail(lan_writes)[i] = Goal
      BY <1>0, <2>1, <2>2, QueueOfOne
    <2> QED
      BY <1>0, <1>1, <2>1, <2>2, <2>3, SettlesMatches DEF OneModeWritten
  <1>3. CASE DeviceTakesCloudWrite
    <2>1. /\ cloud_writes # <<>> /\ device' \in Settles(Head(cloud_writes))
          /\ cloud_writes' = Tail(cloud_writes) /\ lan_writes' = lan_writes
      BY <1>3 DEF DeviceTakesCloudWrite
    <2>2. Goal \in Requests
      BY <1>0, <2>1, EmptySeq, LenProperties
    <2>3. /\ Head(cloud_writes) = Goal
          /\ \A i \in 1..Len(Tail(cloud_writes)) : Tail(cloud_writes)[i] = Goal
      BY <1>0, <2>1, <2>2, QueueOfOne
    <2> QED
      BY <1>0, <1>1, <2>1, <2>2, <2>3, SettlesMatches DEF OneModeWritten
  <1> QED
    BY <1>2, <1>3

LEMMA TakenStep ==
    ASSUME TypeOK, SpacedInv, DeviceTakesLanWrite \/ DeviceTakesCloudWrite,
           UNCHANGED acked
    PROVE  SpacedInv'
  <1>1. /\ Goal' = Goal /\ Writing' = Writing
        /\ UNCHANGED <<cmd, reports, state, shown, cooldown>>
        /\ Awaited' => Awaited
    BY DEF DeviceTakesLanWrite, DeviceTakesCloudWrite, Goal, Writing, control,
       display, Awaited
  <1>2. AckedIsIdle'
    BY <1>1 DEF SpacedInv, AckedIsIdle
  <1>3. CASE Writing
    <2>1. ModeMatchesRequest(Goal, device') /\ OneModeWritten'
      BY <1>3, WriteTaken
    <2>2. ReportsInOrder'
      BY <1>1, <2>1 DEF SpacedInv, ReportsInOrder
    <2>3. LiftedForGood'
      BY <1>1, <2>1 DEF SpacedInv, LiftedForGood
    <2> QED
      BY <1>2, <2>1, <2>2, <2>3 DEF SpacedInv
  <1>4. CASE ~Writing
    BY <1>1, <1>2, <1>4 DEF SpacedInv, OneModeWritten, ReportsInOrder,
       LiftedForGood, Awaited, Writing
  <1> QED
    BY <1>3, <1>4

(* The listener: a report that answers is merged and lifts the cooldown,    *)
(* and nothing older than the write comes after it.                         *)
LEMMA PushStep ==
    ASSUME TypeOK, HeldInv, LanInv, SpacedInv, ProcessPush, UNCHANGED acked
    PROVE  SpacedInv'
  <1> DEFINE r == Head(reports)
             s == ApplyAttributes(r, state)
             m == ModeFromReport(r)
  <1>1. /\ OnDevicePush(s, m) /\ reports # <<>> /\ reports' = Tail(reports)
        /\ UNCHANGED <<cmd, device, lan_writes, cloud_writes>>
    BY DEF ProcessPush
  <1>2. /\ r \in Reports /\ Len(reports) \in Nat /\ Len(reports) >= 1
        /\ r = reports[1] /\ Len(reports') = Len(reports) - 1
        /\ \A i \in 1..Len(reports') : reports'[i] = reports[i + 1]
    BY <1>1, HeadTailProperties, EmptySeq, LenProperties DEF TypeOK, OutsideType
  <1>3. state \in States /\ s \in States
    BY <1>2, MergeType DEF TypeOK, ClientType
  <1>4. acked => /\ cmd.step = "idle" /\ local_pending_mode = NoMode
                 /\ Goal = pending_mode
    BY DEF SpacedInv, AckedIsIdle, Idle, HeldInv, AskedIsTheCommand, Goal
  <1> HIDE DEF s, m
  <1>5. acked => pending_mode' = pending_mode
    BY <1>1, <1>4 DEF OnDevicePush, AnswersLocal
  <1>6. Writing' = Writing /\ (Writing => Goal' = Goal)
    BY <1>1, <1>4, <1>5 DEF Writing, Goal
  <1>7. AckedIsIdle' /\ OneModeWritten'
    BY <1>1, <1>6 DEF SpacedInv, AckedIsIdle, OneModeWritten
  <1>8. ReportsInOrder'
    <2> SUFFICES ASSUME Writing, NEW i \in 1..Len(reports'),
                        Answers(Goal, reports'[i])
                 PROVE  /\ ModeMatchesRequest(Goal, device)
                        /\ \A j \in i..Len(reports') :
                               Belongs(Goal, reports'[j])
      BY <1>1, <1>6 DEF ReportsInOrder
    <2>1. /\ i + 1 \in 1..Len(reports) /\ Answers(Goal, reports[i + 1])
      BY <1>2
    <2>2. /\ ModeMatchesRequest(Goal, device)
          /\ \A j \in (i + 1)..Len(reports) : Belongs(Goal, reports[j])
      BY <2>1 DEF SpacedInv, ReportsInOrder
    <2> QED
      BY <1>2, <2>2
  <1>9. LiftedForGood'
    <2> SUFFICES ASSUME Awaited, ~cooldown'
                 PROVE  /\ ModeMatchesRequest(Goal, device)
                        /\ \A i \in 1..Len(reports') :
                               Belongs(Goal, reports'[i])
                        /\ ModeMatchesRequest(Goal, state'.mode)
                        /\ ModeMatchesRequest(Goal, shown'.mode)
                        /\ Goal \in Programs => state'.generic = Goal
      BY <1>1, <1>6 DEF LiftedForGood, Awaited, Writing
    <2>1. acked /\ Writing
      BY DEF Awaited, Writing
    <2>2. state' = s /\ shown' = View(s) /\ (~cooldown \/ AnswersPending(m))
      BY <1>1, <1>4, <2>1 DEF OnDevicePush, AnswersLocal, Publish
    <2>3. cooldown => Answers(Goal, r)
      BY <1>4, <2>1, <2>2 DEF AnswersPending, Answers, m
    <2>4. /\ ModeMatchesRequest(Goal, device)
          /\ \A i \in 1..Len(reports) : Belongs(Goal, reports[i])
      BY <1>2, <2>1, <2>3 DEF SpacedInv, ReportsInOrder, LiftedForGood
    <2>5. ~cooldown => /\ ModeMatchesRequest(Goal, state.mode)
                       /\ Goal \in Programs => state.generic = Goal
      BY DEF SpacedInv, LiftedForGood
    <2>6. Belongs(Goal, r)
      BY <1>2, <2>4
    <2>7. /\ ModeMatchesRequest(Goal, s.mode)
          /\ Goal \in Programs => s.generic = Goal
      BY <1>3, <2>3, <2>5, <2>6, GoalType, MergeBelongs DEF s
    <2> QED
      BY <1>2, <2>2, <2>4, <2>7 DEF View
  <1> QED
    BY <1>7, <1>8, <1>9 DEF SpacedInv

LEMMA CommandStep ==
    ASSUME TypeOK, LanInv, SpacedInv, ~LanFaulty, ~RapidCommands, Command,
           acked' = (CloudAcks \/ (acked /\ cmd' = Idle))
    PROVE  SpacedInv'
  <1> USE DEF outside, lan, control, display
  <1>0. AckedIsIdle'
    BY DEF AckedIsIdle, CloudAcks
  <1>1. ASSUME NEW q \in Requests, BeginCommand(q) PROVE SpacedInv'
    <2>1. /\ reports' = <<>> /\ cloud_writes' = <<>>
          /\ lan_writes' \in {<<>>, Append(<<>>, q)}
          /\ cmd'.step # "idle" /\ cmd'.mode = q
      <3>1. Settled
        BY <1>1 DEF BeginCommand
      <3>2. /\ lan_writes' \in {lan_writes, Append(lan_writes, q)}
            /\ UNCHANGED <<reports, cloud_writes>>
            /\ \E t \in {"lan_wait", "connect", "cloud"} :
                   cmd' = [step |-> t, mode |-> q]
        BY <1>1 DEF BeginCommand, WriteMode
      <3> QED
        BY <3>1, <3>2 DEF Settled
    <2>2. cmd' # Idle /\ ~CloudAcks
      BY <1>1, <2>1 DEF Idle, CloudAcks
    <2>3. ~acked' /\ Goal' = q
      BY <2>1, <2>2 DEF Goal
    <2>4. OneModeWritten'
      <3>1. \A i \in 1..Len(lan_writes') : lan_writes'[i] = q
        BY <2>1, QueueOfOne, EmptySeq
      <3> QED
        BY <2>1, <2>3, <3>1, EmptySeq DEF OneModeWritten
    <2>5. ReportsInOrder' /\ LiftedForGood'
      BY <2>1, <2>3, EmptySeq DEF ReportsInOrder, LiftedForGood, Awaited
    <2> QED
      BY <1>0, <2>4, <2>5 DEF SpacedInv
  <1>2. CASE cmd.step # "idle"
    <2>0. /\ ~acked /\ Writing /\ Goal = cmd.mode /\ Goal \in Requests
          /\ lan_writes \in Seq(Requests) /\ cloud_writes \in Seq(Requests)
          /\ \A i \in 1..Len(lan_writes) : lan_writes[i] = Goal
          /\ \A i \in 1..Len(cloud_writes) : cloud_writes[i] = Goal
      BY <1>2, GoalType DEF SpacedInv, AckedIsIdle, Idle, Goal, Writing,
         OneModeWritten, TypeOK, OutsideType
    <2>1. CASE CommandConnects
      <3>1. /\ reports' = <<>> /\ lan_writes' = Append(lan_writes, cmd.mode)
            /\ UNCHANGED cloud_writes
            /\ cmd'.step # "idle" /\ cmd'.mode = cmd.mode
        BY <2>1 DEF CommandConnects, ConnectFails, Connects, WriteMode
      <3>2. ~acked' /\ Goal' = Goal
        BY <2>0, <2>1, <3>1 DEF CloudAcks, CommandConnects, Goal, Idle
      <3>3. \A i \in 1..Len(lan_writes') : lan_writes'[i] = Goal
        BY <2>0, <3>1, QueueOfOne
      <3> QED
        BY <1>0, <2>0, <3>1, <3>2, <3>3, EmptySeq DEF SpacedInv, OneModeWritten,
           ReportsInOrder, LiftedForGood, Awaited
    <2>2. CASE LanWakes \/ LanTimesOut \/ CloudFails
      <3>1. /\ UNCHANGED <<reports, device, lan_writes, cloud_writes>>
            /\ \/ cmd' = Idle
               \/ cmd'.step # "idle" /\ cmd'.mode = cmd.mode
        BY <1>2, <2>2 DEF LanWakes, LanTimesOut, CloudFails, LanFailed
      <3>2. ~CloudAcks
        <4>1. CASE LanWakes \/ LanTimesOut
          BY <4>1 DEF LanWakes, LanTimesOut, CloudAcks
        <4>2. CASE CloudFails
          BY <4>2 DEF CloudFails, CloudAcks, Fault, TypeOK, BudgetType
        <4> QED
          BY <2>2, <4>1, <4>2
      <3>3. ~acked'
        BY <2>0, <3>2
      <3>4. Writing' => Goal' = Goal
        BY <2>0, <3>1, <3>3 DEF Writing, Goal, Idle
      <3> QED
        BY <1>0, <2>0, <3>1, <3>3, <3>4 DEF SpacedInv, OneModeWritten,
           ReportsInOrder, LiftedForGood, Awaited
    <2>3. CASE CloudAccepts
      <3>1. /\ cloud_writes' = Append(cloud_writes, cmd.mode)
            /\ UNCHANGED <<reports, device, lan_writes>>
            /\ cmd' = [cmd EXCEPT !.step = "cloud_ack"] /\ cmd.step = "cloud"
        BY <2>3 DEF CloudAccepts
      <3>2. cmd'.step = "cloud_ack" /\ cmd'.mode = cmd.mode
        BY <3>1 DEF TypeOK, CmdType
      <3>3. ~acked' /\ Goal' = Goal
        BY <2>0, <3>1, <3>2 DEF CloudAcks, Goal, Idle
      <3>4. \A i \in 1..Len(cloud_writes') : cloud_writes'[i] = Goal
        BY <2>0, <3>1, QueueOfOne
      <3> QED
        BY <1>0, <2>0, <3>1, <3>3, <3>4 DEF SpacedInv, OneModeWritten,
           ReportsInOrder, LiftedForGood, Awaited
    <2>4. CASE CloudAcks
      <3>1. /\ UNCHANGED <<reports, device, lan_writes, cloud_writes>>
            /\ Goal' = Goal /\ cooldown'
        BY <2>0, <2>4 DEF CloudAcks, Goal, Idle
      <3> QED
        BY <1>0, <2>0, <3>1 DEF SpacedInv, OneModeWritten, ReportsInOrder,
           LiftedForGood
    <2> QED
      BY <1>1, <2>1, <2>2, <2>3, <2>4 DEF Command
  <1>3. CASE cmd.step = "idle"
    BY <1>1, <1>3 DEF Command, CommandConnects, LanWakes, LanTimesOut,
       CloudAccepts, CloudFails, CloudAcks
  <1> QED
    BY <1>2, <1>3

(* Nothing but a connection, which discards what was in flight, and what    *)
(* the entities show, which is then the state.                              *)
LEMMA RefreshStep ==
    ASSUME TypeOK, LanInv, SpacedInv, ~LanFaulty, UNCHANGED acked,
           Refresh \/ OwnerReloads \/ BeginPress \/ Press
    PROVE  SpacedInv'
  <1>1. /\ UNCHANGED <<cmd, pending_mode, cooldown, state, device>>
        /\ UNCHANGED <<lan_writes, cloud_writes>>
        /\ reports' \in {reports, <<>>}
        /\ shown' \in {shown, View(state)}
    <2>1. CASE Refresh \/ OwnerReloads
      BY <2>1 DEF Refresh, LanInv, LanServesStatus, RefreshServed, StatusArrives,
         RefreshAsks, RefreshConnects, Connects, ConnectFails, StatusTimesOut,
         CloudAnswers, SeedFromCloud, FetchFails, SetupRetries, OwnerReloads,
         Served, Publish, outside, lan, control, display
    <2>2. CASE BeginPress \/ Press
      BY <2>2, PressBringsNothing
    <2> QED
      BY <2>1, <2>2
  <1>2. Goal' = Goal /\ Writing' = Writing /\ Awaited' = Awaited
    BY <1>1 DEF Goal, Writing, Awaited
  <1>3. View(state).mode = state.mode
    BY DEF View
  <1>4. ReportsInOrder'
    BY <1>1, <1>2, EmptySeq DEF SpacedInv, ReportsInOrder
  <1>5. LiftedForGood'
    BY <1>1, <1>2, <1>3, EmptySeq DEF SpacedInv, LiftedForGood
  <1> QED
    BY <1>1, <1>2, <1>4, <1>5 DEF SpacedInv, AckedIsIdle, OneModeWritten

(* Nobody but this integration changes the mode once the owner rests.       *)
LEMMA OwnerRests ==
    TypeOK /\ budget.changes = 0 /\ [Next]_vars => budget'.changes = 0
  <1> SUFFICES ASSUME TypeOK, budget.changes = 0, [Next]_vars
               PROVE  budget'.changes = 0
    OBVIOUS
  <1>1. budget \in [commands : Nat, changes : Nat, faults : Nat, presses : Nat]
    BY DEF TypeOK, BudgetType
  <1>2. Fault => budget'.changes = 0
    BY <1>1 DEF Fault
  <1>3. \/ UNCHANGED budget \/ Fault \/ OwnerChangesMode
        \/ BeginPress \/ \E m \in Requests : BeginCommand(m)
    BY DEF Next, vars, Environment, DeviceReportsSettings,
       DeviceReportsTelemetry, DeviceReportsClock, DeviceReports,
       DeviceTakesLanWrite, DeviceTakesCloudWrite, CloudHearsDevice, LinkLost,
       ProcessPush, CooldownEnds, Command, CommandConnects, ConnectFails,
       LanWakes, LanTimesOut, CloudAccepts, CloudFails, CloudAcks, Refresh,
       RefreshServed, RefreshAsks, RefreshConnects, StatusArrives,
       StatusTimesOut, CloudAnswers, SeedFromCloud, FetchFails, SetupRetries,
       OwnerReloads, SetUpAfresh, Press, PressConnects, PressServed,
       PressAsksCloud, CloudAnswersPress, PressSeeds, PressFetchFails
  <1> QED
    BY <1>1, <1>2, <1>3 DEF OwnerChangesMode, BeginCommand, BeginPress

LEMMA SpacedStep ==
    ASSUME ~LanFaulty, ~RapidCommands, ~SlowDelivery
    PROVE  /\ TypeOK /\ HeldInv /\ LanInv /\ SpacedInv
           /\ budget.changes = 0 /\ [AckedNext]_ackedVars
           => SpacedInv'
  <1> SUFFICES ASSUME TypeOK, HeldInv, LanInv, SpacedInv, budget.changes = 0,
                      [AckedNext]_ackedVars
               PROVE  SpacedInv'
    OBVIOUS
  <1> USE DEF outside, lan, control, display
  <1>1. CASE UNCHANGED <<acked, cmd, pending_mode, cooldown, state, shown, device,
                         reports, lan_writes, cloud_writes>>
    BY <1>1 DEF SpacedInv, AckedIsIdle, OneModeWritten, ReportsInOrder,
       LiftedForGood, Goal, Writing, Awaited
  <1>2. CASE UNCHANGED ackedVars
    BY <1>1, <1>2 DEF ackedVars, vars
  <1>3. CASE AckedNext /\ Command
    BY <1>3, CommandStep DEF AckedNext
  <1>4. CASE AckedNext /\ UNCHANGED cmd
    <2>1. UNCHANGED acked
      BY <1>4 DEF AckedNext, CloudAcks, SpacedInv, AckedIsIdle, Idle
    <2>2. CASE DeviceReportsSettings \/ DeviceReportsTelemetry \/ DeviceReportsClock
      <3>1. PICK r \in {FullReport(device), Telemetry(device), Clock} :
                DeviceReports(r)
        BY <2>2 DEF DeviceReportsSettings, DeviceReportsTelemetry,
           DeviceReportsClock
      <3>2. /\ UNCHANGED <<cmd, pending_mode, cooldown, state, shown, device,
                           lan_writes, cloud_writes>>
            /\ reports' = Append(reports, r)
        BY <3>1 DEF DeviceReports
      <3>3. Goal' = Goal /\ Writing' = Writing /\ Awaited' = Awaited
        BY <2>1, <3>2 DEF Goal, Writing, Awaited
      <3>4. ReportsInOrder'
        BY <3>2, <3>3, OrderAppended DEF SpacedInv
      <3>5. LiftedForGood'
        <4> SUFFICES ASSUME Awaited, ~cooldown
                     PROVE  /\ ModeMatchesRequest(Goal, device)
                            /\ \A i \in 1..Len(reports') :
                                   Belongs(Goal, reports'[i])
          BY <3>2, <3>3 DEF SpacedInv, LiftedForGood
        <4>1. /\ ModeMatchesRequest(Goal, device)
              /\ \A i \in 1..Len(reports) : Belongs(Goal, reports[i])
          BY DEF SpacedInv, LiftedForGood
        <4>2. Belongs(Goal, r)
          BY <4>1 DEF Belongs, TypeOK, OutsideType
        <4>3. /\ reports \in Seq(Reports) /\ r \in Reports
          BY ReportType DEF TypeOK, OutsideType
        <4>4. /\ Len(reports') = Len(reports) + 1 /\ Len(reports) \in Nat
              /\ \A k \in 1..Len(reports) : reports'[k] = reports[k]
              /\ reports'[Len(reports) + 1] = r
          BY <3>2, <4>3, AppendProperties
        <4> QED
          BY <4>1, <4>2, <4>4
      <3> QED
        BY <2>1, <3>2, <3>3, <3>4, <3>5 DEF SpacedInv, AckedIsIdle, OneModeWritten
    <2>3. CASE DeviceTakesLanWrite \/ DeviceTakesCloudWrite
      BY <2>1, <2>3, TakenStep
    <2>4. CASE OwnerChangesMode \/ LinkLost
      BY <2>4 DEF OwnerChangesMode, LinkLost
    <2>5. CASE CloudHearsDevice
      BY <1>1, <2>1, <2>5 DEF CloudHearsDevice
    <2>6. CASE ProcessPush
      BY <2>1, <2>6, PushStep
    <2>7. CASE CooldownEnds
      <3>1. UNCHANGED <<cmd, pending_mode, reports, device, lan_writes,
                        cloud_writes>>
        BY <2>7 DEF CooldownEnds
      <3>2. ~Awaited'
        BY <2>7 DEF CooldownEnds, Settled, Awaited
      <3> QED
        BY <2>1, <3>1, <3>2 DEF SpacedInv, AckedIsIdle, OneModeWritten,
           ReportsInOrder, LiftedForGood, Goal, Writing
    <2>8. CASE Refresh \/ OwnerReloads \/ BeginPress \/ Press
      BY <2>1, <2>8, RefreshStep
    <2> QED
      BY <1>3, <1>4, <2>2, <2>3, <2>4, <2>5, <2>6, <2>7, <2>8
         DEF AckedNext, Next, Environment
  <1>5. AckedNext => Command \/ UNCHANGED cmd
    BY DEF AckedNext, Next, Environment, Refresh, DeviceReportsSettings,
       DeviceReportsTelemetry, DeviceReportsClock, DeviceReports,
       DeviceTakesLanWrite, DeviceTakesCloudWrite, OwnerChangesMode,
       CloudHearsDevice, LinkLost, ProcessPush, CooldownEnds, RefreshServed,
       RefreshAsks, RefreshConnects, StatusArrives, StatusTimesOut,
       CloudAnswers, SeedFromCloud, FetchFails, SetupRetries, OwnerReloads,
       SetUpAfresh, BeginPress, Press, PressConnects, PressServed,
       PressAsksCloud, CloudAnswersPress, PressSeeds, PressFetchFails
  <1> QED
    BY <1>2, <1>3, <1>4, <1>5

(* While every command waits for the one before to settle, the last cloud   *)
(* write stays visible from its acknowledgement until the controller takes  *)
(* it, whatever requests the cloud loses and whatever reports are still on  *)
(* their way: as long as the LAN works, the cooldown outlasts the delivery  *)
(* and nobody else changes the mode.                                        *)
THEOREM LastWriteVisible ==
    ASSUME ~LanFaulty, ~RapidCommands, ~SlowDelivery, MaxOwnerChanges = 0
    PROVE  AckedSpec => []LastWriteStaysVisible
  <1>1. ASSUME AckedInit PROVE SpacedInv
    <2>1. acked = FALSE /\ cmd.step = "idle"
      BY <1>1 DEF AckedInit, Init, Idle
    <2> QED
      BY <2>1 DEF SpacedInv, AckedIsIdle, OneModeWritten, ReportsInOrder,
         LiftedForGood, Awaited, Writing
  <1>2. Init => budget.changes = 0
    BY DEF Init
  <1>3. TypeOK /\ budget.changes = 0 /\ [Next]_vars => (budget.changes = 0)'
    BY OwnerRests
  <1>4. AckedInit => Init
    BY DEF AckedInit
  <1>5. [AckedNext]_ackedVars => [Next]_vars
    BY DEF AckedNext, ackedVars
  <1>6. Init => LanInv
    BY DEF Init, LanInv, LanServesStatus, HoldIntact, Idle
  <1>7. TypeOK /\ LanInv /\ [Next]_vars => LanInv'
    BY LanInvStep
  <1>8. LanInv /\ SpacedInv => LastWriteStaysVisible
    BY DEF LanInv, HoldIntact, SpacedInv, LiftedForGood, LastWriteStaysVisible,
       View, Awaited, AckedIsIdle, Goal, Idle
  <1>9. /\ TypeOK /\ HeldInv /\ LanInv /\ SpacedInv /\ budget.changes = 0
        /\ [AckedNext]_ackedVars
        => SpacedInv'
    BY SpacedStep
  <1> QED
    BY <1>1, <1>2, <1>3, <1>4, <1>5, <1>6, <1>7, <1>8, <1>9, TypeCorrect,
       HeldInvariant, PTL DEF Spec, AckedSpec
===============================================================================
