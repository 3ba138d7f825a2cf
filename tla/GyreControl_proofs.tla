-------------------------- MODULE GyreControl_proofs --------------------------
(***************************************************************************)
(* Proofs about mode control, for any set of modes requested, any number   *)
(* of commands, faults and reports under way, and any config entry: its    *)
(* types, and that it implements HeldMode (what is held on the entities    *)
(* after a cloud write stays, whatever arrives, fails or is asked          *)
(* meanwhile).                                                             *)
(***************************************************************************)
EXTENDS GyreControlProperties, SequenceTheorems, TLAPS

(* What apply_attributes merges is a state.                                *)
LEMMA MergeType ==
    ASSUME NEW r \in Reports, NEW s \in States
    PROVE  /\ ApplyAttributes(r, s) \in States
           /\ ModeFromReport(r) \in MaybeModes
  <1>1. /\ r = [mode |-> r.mode, bak24 |-> r.bak24]
        /\ r.mode \in MaybeModes
        /\ r.bak24 \in MaybeModes
    BY DEF Reports
  <1>2. ModeFromReport(r) \in MaybeModes
    BY <1>1 DEF ModeFromReport
  <1>3. CASE r = Clock
    BY <1>2, <1>3 DEF ApplyAttributes
  <1>4. CASE r # Clock
    <2>1. r.mode # NoMode \/ r.bak24 # NoMode
      BY <1>1, <1>4 DEF Clock
    <2>2. s.generic \in MaybeModes
      BY DEF States
    <2>3. r.mode = NoMode => TelemetryMode(r, s) \in Modes
      BY <1>1, <2>1 DEF TelemetryMode, ProgramMode, MaybeModes, Programs, Modes
    <2>4. r.mode # NoMode => r.mode \in Modes
      BY <1>1 DEF MaybeModes
    <2>5. QED
      BY <1>1, <1>2, <1>4, <2>2, <2>3, <2>4 DEF ApplyAttributes, States
  <1>5. QED
    BY <1>3, <1>4

(* What the controller reports is a report, and says a mode.               *)
LEMMA ReportType ==
    ASSUME NEW d \in DeviceModes
    PROVE  /\ FullReport(d) \in Reports
           /\ Telemetry(d) \in Reports
           /\ Clock \in Reports
           /\ d \in Modes
  BY GyreControlAssumption DEF FullReport, Telemetry, Clock, Reports, MaybeModes, Modes, ON, NoMode

(* The modes a command may leave the controller in are modes it may be in. *)
LEMMA SettlesType ==
    ASSUME NEW m \in Requests
    PROVE  Settles(m) \subseteq DeviceModes
  BY GyreControlAssumption DEF Settles, Modes

(* Leaving out what the controller has reported itself keeps a report one. *)
LEMMA UnheardType ==
    ASSUME NEW r \in Reports
    PROVE  Unheard(r) \in Reports
  BY DEF Unheard, Reports, MaybeModes

(* What the entities are told is a mode and an on/off state.               *)
LEMMA ViewType ==
    ASSUME NEW s \in States
    PROVE  View(s) \in [mode : Modes, is_on : BOOLEAN]
  BY DEF View, States

(* Every step keeps the types: one step of the proof per action, and under *)
(* it one per part of TypeOK the action touches.                           *)
LEMMA TypeStep == TypeOK /\ [Next]_vars => TypeOK'
  <1> SUFFICES ASSUME TypeOK, [Next]_vars PROVE TypeOK'
    OBVIOUS
  <1> USE GyreControlAssumption DEF TypeOK, outside, lan, control, display, button
  <1>1. CASE DeviceReportsSettings
    <2>0. PressType'
      BY <1>1 DEF DeviceReportsSettings, DeviceReports, PressType
    <2>1. OutsideType'
      BY <1>1, ReportType, AppendProperties DEF DeviceReportsSettings,
           DeviceReports, OutsideType
    <2>2. ClientType' /\ ControlType' /\ CmdType' /\ PollType' /\
    DisplayType' /\ BudgetType'
      BY <1>1 DEF DeviceReportsSettings, DeviceReports, ClientType,
           ControlType, CmdType, PollType, DisplayType, BudgetType
    <2>3. QED
      BY <2>0, <2>1, <2>2
  <1>2. CASE DeviceReportsTelemetry
    <2>0. PressType'
      BY <1>2 DEF DeviceReportsTelemetry, DeviceReports, PressType
    <2>1. OutsideType'
      BY <1>2, ReportType, AppendProperties DEF DeviceReportsTelemetry,
           DeviceReports, OutsideType
    <2>2. ClientType' /\ ControlType' /\ CmdType' /\ PollType' /\
    DisplayType' /\ BudgetType'
      BY <1>2 DEF DeviceReportsTelemetry, DeviceReports, ClientType,
           ControlType, CmdType, PollType, DisplayType, BudgetType
    <2>3. QED
      BY <2>0, <2>1, <2>2
  <1>3. CASE DeviceReportsClock
    <2>0. PressType'
      BY <1>3 DEF DeviceReportsClock, DeviceReports, PressType
    <2>1. OutsideType'
      BY <1>3, ReportType, AppendProperties DEF DeviceReportsClock,
           DeviceReports, OutsideType
    <2>2. ClientType' /\ ControlType' /\ CmdType' /\ PollType' /\
    DisplayType' /\ BudgetType'
      BY <1>3 DEF DeviceReportsClock, DeviceReports, ClientType,
           ControlType, CmdType, PollType, DisplayType, BudgetType
    <2>3. QED
      BY <2>0, <2>1, <2>2
  <1>4. CASE DeviceTakesLanWrite
    <2>0. PressType'
      BY <1>4 DEF DeviceTakesLanWrite, PressType
    <2>1. OutsideType'
      BY <1>4, SettlesType, HeadTailProperties DEF DeviceTakesLanWrite,
           OutsideType
    <2>2. ClientType' /\ ControlType' /\ CmdType' /\ PollType' /\
    DisplayType' /\ BudgetType'
      BY <1>4 DEF DeviceTakesLanWrite, ClientType, ControlType, CmdType,
           PollType, DisplayType, BudgetType
    <2>3. QED
      BY <2>0, <2>1, <2>2
  <1>5. CASE DeviceTakesCloudWrite
    <2>0. PressType'
      BY <1>5 DEF DeviceTakesCloudWrite, PressType
    <2>1. OutsideType'
      BY <1>5, SettlesType, HeadTailProperties DEF DeviceTakesCloudWrite,
           OutsideType
    <2>2. ClientType' /\ ControlType' /\ CmdType' /\ PollType' /\
    DisplayType' /\ BudgetType'
      BY <1>5 DEF DeviceTakesCloudWrite, ClientType, ControlType, CmdType,
           PollType, DisplayType, BudgetType
    <2>3. QED
      BY <2>0, <2>1, <2>2
  <1>6. CASE OwnerChangesMode
    <2>0. PressType'
      BY <1>6 DEF OwnerChangesMode, PressType
    <2>1. OutsideType'
      BY <1>6 DEF OwnerChangesMode, OutsideType
    <2>2. BudgetType'
      BY <1>6 DEF OwnerChangesMode, BudgetType
    <2>3. ClientType' /\ ControlType' /\ CmdType' /\ PollType' /\
    DisplayType'
      BY <1>6 DEF OwnerChangesMode, ClientType, ControlType, CmdType,
           PollType, DisplayType
    <2>4. QED
      BY <2>0, <2>1, <2>2, <2>3
  <1>7. CASE CloudHearsDevice
    <2>0. PressType'
      BY <1>7 DEF CloudHearsDevice, PressType
    <2>1. OutsideType'
      BY <1>7 DEF CloudHearsDevice, OutsideType
    <2>2. ClientType' /\ ControlType' /\ CmdType' /\ PollType' /\
    DisplayType' /\ BudgetType'
      BY <1>7 DEF CloudHearsDevice, ClientType, ControlType, CmdType,
           PollType, DisplayType, BudgetType
    <2>3. QED
      BY <2>0, <2>1, <2>2
  <1>8. CASE LinkLost
    <2>0. PressType'
      BY <1>8 DEF LinkLost, PressType
    <2>1. OutsideType'
      BY <1>8, EmptySeq DEF LinkLost, Fault, OutsideType
    <2>2. ClientType'
      BY <1>8 DEF LinkLost, Fault, ClientType
    <2>3. BudgetType'
      BY <1>8 DEF LinkLost, Fault, BudgetType
    <2>4. ControlType' /\ CmdType' /\ PollType' /\ DisplayType'
      BY <1>8 DEF LinkLost, Fault, ControlType, CmdType, PollType,
           DisplayType
    <2>5. QED
      BY <2>0, <2>1, <2>2, <2>3, <2>4
  <1>9. CASE ProcessPush
    <2> DEFINE r == Head(reports)
               s == ApplyAttributes(r, state)
    <2>0. PressType'
      BY <1>9 DEF ProcessPush, AttributesOf, PressType
    <2>1. /\ r \in Reports
          /\ s \in States
          /\ ModeFromReport(r) \in MaybeModes
      BY <1>9, MergeType, HeadTailProperties DEF ProcessPush, OutsideType,
         ClientType
    <2>2. /\ Reapplied(s) \in States
          /\ s.mode \in Modes
          /\ View(s) \in [mode : Modes, is_on : BOOLEAN]
      BY <2>1 DEF Reapplied, States, View, ControlType
    <2>3. OutsideType'
      BY <1>9, HeadTailProperties DEF ProcessPush, OutsideType
    <2>4. ClientType'
      BY <1>9, <2>1, <2>2 DEF ProcessPush, ClientType, NoteMode,
           OnDevicePush, Publish
    <2>5. ControlType'
      BY <1>9, <2>1, <2>2 DEF ProcessPush, ControlType, NoteMode,
           OnDevicePush, Publish
    <2>6. DisplayType'
      BY <1>9, <2>1, <2>2 DEF ProcessPush, DisplayType, NoteMode,
           OnDevicePush, Publish
    <2>7. CmdType' /\ PollType' /\ BudgetType'
      BY <1>9 DEF ProcessPush, CmdType, PollType, BudgetType
    <2>8. QED
      BY <2>0, <2>3, <2>4, <2>5, <2>6, <2>7
  <1>10. CASE CooldownEnds
    <2>0. PressType'
      BY <1>10 DEF CooldownEnds, PressType
    <2>1. ControlType'
      BY <1>10 DEF CooldownEnds, ControlType
    <2>2. OutsideType' /\ ClientType' /\ CmdType' /\ PollType' /\
    DisplayType' /\ BudgetType'
      BY <1>10 DEF CooldownEnds, OutsideType, ClientType, CmdType, PollType,
           DisplayType, BudgetType
    <2>3. QED
      BY <2>0, <2>1, <2>2
  <1>11. CASE \E m \in Requests : BeginCommand(m)
    <2> PICK m \in Requests : BeginCommand(m)
      BY <1>11
    <2>0. PressType'
      BY DEF BeginCommand, PressType
    <2>1. OutsideType'
      <3>1. Append(lan_writes, m) \in Seq(Requests)
        BY AppendProperties DEF OutsideType
      <3>2. QED
        BY <3>1 DEF BeginCommand, OutsideType, WriteMode
    <2>2. ClientType'
      BY DEF BeginCommand, ClientType, WriteMode
    <2>3. ControlType'
      BY DEF BeginCommand, ControlType, MaybeModes
    <2>4. CmdType'
      BY DEF BeginCommand, CmdType, WriteMode, MaybeModes, CmdSteps
    <2>5. BudgetType'
      BY DEF BeginCommand, BudgetType
    <2>6. PollType' /\ DisplayType'
      BY DEF BeginCommand, PollType, DisplayType
    <2>7. QED
      BY <2>0, <2>1, <2>2, <2>3, <2>4, <2>5, <2>6
  <1>12. CASE CommandConnects
    <2>0. PressType'
      BY <1>12 DEF CommandConnects, PressType
    <2>1. OutsideType'
      <3>1. Append(lan_writes, cmd.mode) \in Seq(Requests)
        BY <1>12, AppendProperties DEF CommandConnects, OutsideType, CmdType
      <3>2. QED
        BY <1>12, <3>1, EmptySeq DEF CommandConnects, OutsideType, Connects,
             ConnectFails, WriteMode
    <2>2. ClientType'
      BY <1>12 DEF CommandConnects, ClientType, Connects, ConnectFails,
           WriteMode, MaybeModes
    <2>3. ControlType'
      BY <1>12 DEF CommandConnects, ControlType, LanFailed, MaybeModes
    <2>4. CmdType'
      BY <1>12 DEF CommandConnects, CmdType, WriteMode, LanFailed, Idle,
           MaybeModes, CmdSteps
    <2>5. BudgetType'
      BY <1>12 DEF CommandConnects, BudgetType, ConnectFails, Fault
    <2>6. PollType' /\ DisplayType'
      BY <1>12 DEF CommandConnects, PollType, DisplayType
    <2>7. QED
      BY <2>0, <2>1, <2>2, <2>3, <2>4, <2>5, <2>6
  <1>13. CASE LanWakes
    <2>0. PressType'
      BY <1>13 DEF LanWakes, PressType
    <2>1. ClientType'
      BY <1>13 DEF LanWakes, ClientType
    <2>2. ControlType'
      BY <1>13 DEF LanWakes, ControlType, ClientType, States, MaybeModes
    <2>3. CmdType'
      BY <1>13 DEF LanWakes, CmdType, Idle, CmdSteps, MaybeModes
    <2>4. DisplayType'
      BY <1>13, ViewType DEF LanWakes, DisplayType, Publish, ClientType
    <2>5. OutsideType' /\ PollType' /\ BudgetType'
      BY <1>13 DEF LanWakes, OutsideType, PollType, BudgetType
    <2>6. QED
      BY <2>0, <2>1, <2>2, <2>3, <2>4, <2>5
  <1>14. CASE LanTimesOut
    <2>0. PressType'
      BY <1>14 DEF LanTimesOut, PressType
    <2>1. ControlType'
      BY <1>14 DEF LanTimesOut, LanFailed, ControlType, MaybeModes
    <2>2. CmdType'
      BY <1>14 DEF LanTimesOut, LanFailed, CmdType, Idle, CmdSteps,
           MaybeModes
    <2>3. OutsideType' /\ ClientType' /\ PollType' /\ DisplayType' /\
    BudgetType'
      BY <1>14 DEF LanTimesOut, LanFailed, OutsideType, ClientType,
           PollType, DisplayType, BudgetType
    <2>4. QED
      BY <2>0, <2>1, <2>2, <2>3
  <1>15. CASE CloudAccepts
    <2>0. PressType'
      BY <1>15 DEF CloudAccepts, PressType
    <2>1. OutsideType'
      BY <1>15, AppendProperties DEF CloudAccepts, OutsideType, CmdType
    <2>2. CmdType'
      BY <1>15 DEF CloudAccepts, CmdType, CmdSteps
    <2>3. ClientType' /\ ControlType' /\ PollType' /\ DisplayType' /\
    BudgetType'
      BY <1>15 DEF CloudAccepts, ClientType, ControlType, PollType,
           DisplayType, BudgetType
    <2>4. QED
      BY <2>0, <2>1, <2>2, <2>3
  <1>16. CASE CloudFails
    <2>0. PressType'
      BY <1>16 DEF CloudFails, PressType
    <2>1. CmdType'
      BY <1>16 DEF CloudFails, CmdType, Idle, CmdSteps, MaybeModes
    <2>2. BudgetType'
      BY <1>16 DEF CloudFails, BudgetType, Fault
    <2>3. OutsideType' /\ ClientType' /\ ControlType' /\ PollType' /\
    DisplayType'
      BY <1>16 DEF CloudFails, OutsideType, ClientType, ControlType,
           PollType, DisplayType
    <2>4. QED
      BY <2>0, <2>1, <2>2, <2>3
  <1>17. CASE CloudAcks
    <2>0. PressType'
      BY <1>17 DEF CloudAcks, PressType
    <2>1. ClientType'
      BY <1>17 DEF CloudAcks, ClientType, CmdType, States, Publish, View,
           MaybeModes, Modes
    <2>2. ControlType'
      BY <1>17 DEF CloudAcks, ControlType, CmdType
    <2>3. CmdType'
      BY <1>17 DEF CloudAcks, CmdType, Idle, CmdSteps, MaybeModes
    <2>4. DisplayType'
      BY <1>17 DEF CloudAcks, DisplayType, CmdType, States, Publish, View,
           MaybeModes, Modes
    <2>5. OutsideType' /\ PollType' /\ BudgetType'
      BY <1>17 DEF CloudAcks, OutsideType, PollType, BudgetType
    <2>6. QED
      BY <2>0, <2>1, <2>2, <2>3, <2>4, <2>5
  <1>18. CASE RefreshServed
    <2>0. PressType'
      BY <1>18 DEF RefreshServed, PressType
    <2>1. ControlType'
      BY <1>18 DEF RefreshServed, Served, ControlType
    <2>2. PollType'
      BY <1>18 DEF RefreshServed, Served, PollType, Idle, PollSteps,
           MaybeModes
    <2>3. DisplayType'
      BY <1>18, ViewType DEF RefreshServed, Served, DisplayType, Publish,
           ClientType
    <2>4. OutsideType' /\ ClientType' /\ CmdType' /\ BudgetType'
      BY <1>18 DEF RefreshServed, Served, OutsideType, ClientType, CmdType,
           BudgetType
    <2>5. QED
      BY <2>0, <2>1, <2>2, <2>3, <2>4
  <1>19. CASE RefreshAsks
    <2>0. PressType'
      BY <1>19 DEF RefreshAsks, PressType
    <2>1. ClientType'
      BY <1>19 DEF RefreshAsks, ClientType
    <2>2. PollType'
      BY <1>19 DEF RefreshAsks, PollType, PollSteps, MaybeModes
    <2>3. OutsideType' /\ ControlType' /\ CmdType' /\ DisplayType' /\
    BudgetType'
      BY <1>19 DEF RefreshAsks, OutsideType, ControlType, CmdType,
           DisplayType, BudgetType
    <2>4. QED
      BY <2>0, <2>1, <2>2, <2>3
  <1>20. CASE RefreshConnects
    <2>0. PressType'
      BY <1>20 DEF RefreshConnects, PressType
    <2>1. OutsideType'
      BY <1>20, EmptySeq DEF RefreshConnects, OutsideType, Connects,
           ConnectFails
    <2>2. ClientType'
      BY <1>20 DEF RefreshConnects, ClientType, Connects, ConnectFails,
           MaybeModes
    <2>3. ControlType'
      BY <1>20 DEF RefreshConnects, ControlType, FallBack, Served, NotServed
    <2>4. PollType'
      BY <1>20 DEF RefreshConnects, PollType, FallBack, Served, NotServed,
           Idle, PollSteps, MaybeModes
    <2>5. DisplayType'
      BY <1>20, ViewType DEF RefreshConnects, DisplayType, FallBack, Served,
           NotServed, ClientType, Publish
    <2>6. BudgetType'
      BY <1>20 DEF RefreshConnects, BudgetType, ConnectFails, Fault
    <2>7. CmdType'
      BY <1>20 DEF RefreshConnects, CmdType
    <2>8. QED
      BY <2>0, <2>1, <2>2, <2>3, <2>4, <2>5, <2>6, <2>7
  <1>21. CASE StatusArrives
    <2>0. PressType'
      BY <1>21 DEF StatusArrives, PressType
    <2>1. ControlType'
      BY <1>21 DEF StatusArrives, Served, ControlType
    <2>2. PollType'
      BY <1>21 DEF StatusArrives, Served, PollType, Idle, PollSteps,
           MaybeModes
    <2>3. DisplayType'
      BY <1>21, ViewType DEF StatusArrives, Served, DisplayType, Publish,
           ClientType
    <2>4. OutsideType' /\ ClientType' /\ CmdType' /\ BudgetType'
      BY <1>21 DEF StatusArrives, Served, OutsideType, ClientType, CmdType,
           BudgetType
    <2>5. QED
      BY <2>0, <2>1, <2>2, <2>3, <2>4
  <1>22. CASE StatusTimesOut
    <2>0. PressType'
      BY <1>22 DEF StatusTimesOut, PressType
    <2>1. ControlType'
      BY <1>22 DEF StatusTimesOut, FallBack, Served, NotServed, ControlType
    <2>2. PollType'
      BY <1>22 DEF StatusTimesOut, FallBack, Served, NotServed, PollType,
           Idle, PollSteps, MaybeModes
    <2>3. DisplayType'
      BY <1>22, ViewType DEF StatusTimesOut, FallBack, Served, NotServed,
           DisplayType, Publish, ClientType
    <2>4. OutsideType' /\ ClientType' /\ CmdType' /\ BudgetType'
      BY <1>22 DEF StatusTimesOut, FallBack, Served, NotServed, OutsideType,
           ClientType, CmdType, BudgetType
    <2>5. QED
      BY <2>0, <2>1, <2>2, <2>3, <2>4
  <1>23. CASE CloudAnswers
    <2>0. PressType'
      BY <1>23 DEF CloudAnswers, PressType
    <2>1. PollType'
      BY <1>23, ReportType DEF CloudAnswers, PollType, PollSteps,
           MaybeModes, OutsideType
    <2>2. OutsideType' /\ ClientType' /\ ControlType' /\ CmdType' /\
    DisplayType' /\ BudgetType'
      BY <1>23 DEF CloudAnswers, OutsideType, ClientType, ControlType,
           CmdType, DisplayType, BudgetType
    <2>3. QED
      BY <2>0, <2>1, <2>2
  <1>24. CASE SeedFromCloud
    <2>0. PressType'
      BY <1>24 DEF SeedFromCloud, PressType
    <2>1. ClientType'
      BY <1>24, MergeType, ReportType DEF SeedFromCloud, ClientType,
           PollType, ClientType, States, Publish, View
    <2>2. ControlType'
      BY <1>24 DEF SeedFromCloud, ControlType
    <2>3. PollType'
      BY <1>24 DEF SeedFromCloud, PollType, Idle, PollSteps, MaybeModes
    <2>4. DisplayType'
      BY <1>24, MergeType, ReportType DEF SeedFromCloud, DisplayType,
           PollType, ClientType, States, Publish, View
    <2>5. OutsideType' /\ CmdType' /\ BudgetType'
      BY <1>24 DEF SeedFromCloud, OutsideType, CmdType, BudgetType
    <2>6. QED
      BY <2>0, <2>1, <2>2, <2>3, <2>4, <2>5
  <1>25. CASE FetchFails
    <2>0. PressType'
      BY <1>25 DEF FetchFails, PressType
    <2>1. ControlType'
      BY <1>25 DEF FetchFails, ControlType, NotServed, Abandoned
    <2>2. PollType'
      BY <1>25 DEF FetchFails, PollType, NotServed, Abandoned, Idle,
           PollSteps, MaybeModes
    <2>3. DisplayType'
      BY <1>25, ViewType DEF FetchFails, DisplayType, NotServed,
           Abandoned, ClientType
    <2>4. BudgetType'
      BY <1>25 DEF FetchFails, BudgetType, Fault
    <2>5. OutsideType' /\ ClientType' /\ CmdType'
      BY <1>25 DEF FetchFails, OutsideType, ClientType, CmdType
    <2>6. QED
      BY <2>0, <2>1, <2>2, <2>3, <2>4, <2>5
  <1>26. CASE SetupRetries \/ OwnerReloads
    <2>0. PressType'
      BY <1>26 DEF SetupRetries, OwnerReloads, SetUpAfresh, PressType
    <2>1. SetUpAfresh
      BY <1>26 DEF SetupRetries, OwnerReloads
    <2>2. InitialState \in States
      BY DEF InitialState, States, Modes, MaybeModes
    <2>3. OutsideType'
      BY <2>1, EmptySeq DEF SetUpAfresh, OutsideType
    <2>4. ClientType'
      BY <2>1, <2>2 DEF SetUpAfresh, ClientType, MaybeModes
    <2>5. PollType'
      BY <2>1 DEF SetUpAfresh, PollType, Idle, PollSteps, MaybeModes
    <2>6. DisplayType'
      BY <2>1, <2>2, ViewType DEF SetUpAfresh, DisplayType
    <2>7. ControlType' /\ CmdType' /\ BudgetType'
      BY <2>1 DEF SetUpAfresh, ControlType, CmdType, BudgetType
    <2>8. QED
      BY <2>0, <2>3, <2>4, <2>5, <2>6, <2>7
  <1>27. CASE UNCHANGED vars
    BY <1>27 DEF vars, OutsideType, ClientType, ControlType, CmdType,
         PollType, PressType, DisplayType, BudgetType
  <1>28. CASE BeginPress
    <2>1. PressType'
      BY <1>28 DEF BeginPress, PressType, Idle, PressSteps, MaybeModes
    <2>2. DisplayType'
      BY <1>28, ViewType DEF BeginPress, Publish, DisplayType, ClientType
    <2>3. BudgetType'
      BY <1>28 DEF BeginPress, BudgetType
    <2>4. OutsideType' /\ ClientType' /\ ControlType' /\ CmdType' /\ PollType'
      BY <1>28 DEF BeginPress, OutsideType, ClientType, ControlType, CmdType,
           PollType
    <2>5. QED
      BY <2>1, <2>2, <2>3, <2>4
  <1>29. CASE PressConnects
    <2>1. OutsideType'
      BY <1>29, EmptySeq DEF PressConnects, OutsideType, Connects, ConnectFails
    <2>2. ClientType'
      BY <1>29 DEF PressConnects, ClientType, Connects, ConnectFails, MaybeModes
    <2>3. PressType'
      BY <1>29 DEF PressConnects, PressEnds, PressType, Idle, PressSteps,
           MaybeModes
    <2>4. DisplayType'
      BY <1>29, ViewType DEF PressConnects, PressEnds, Publish, DisplayType,
           ClientType
    <2>5. BudgetType'
      BY <1>29 DEF PressConnects, BudgetType, ConnectFails, Fault
    <2>6. ControlType' /\ CmdType' /\ PollType'
      BY <1>29 DEF PressConnects, ControlType, CmdType, PollType
    <2>7. QED
      BY <2>1, <2>2, <2>3, <2>4, <2>5, <2>6
  <1>30. CASE PressServed \/ PressAsksCloud \/ CloudAnswersPress
    <2>1. PressType'
      BY <1>30 DEF PressServed, PressEnds, PressAsksCloud, CloudAnswersPress,
           PressType, Idle, PressSteps, MaybeModes, OutsideType, Modes
    <2>2. DisplayType'
      BY <1>30, ViewType DEF PressServed, PressEnds, Publish, PressAsksCloud,
           CloudAnswersPress, DisplayType, ClientType
    <2>3. OutsideType' /\ ClientType' /\ ControlType' /\ CmdType' /\
    PollType' /\ BudgetType'
      BY <1>30 DEF PressServed, PressAsksCloud, CloudAnswersPress, OutsideType,
           ClientType, ControlType, CmdType, PollType, BudgetType
    <2>4. QED
      BY <2>1, <2>2, <2>3
  <1>31. CASE PressSeeds
    <2> DEFINE s == ApplyAttributes(Unheard(FullReport(press.mode)), state)
    <2>1. s \in States
      BY <1>31, MergeType, ReportType, UnheardType DEF PressSeeds, PressType,
           ClientType
    <2>2. state' = s /\ Publish(s) /\ press' = Idle
      BY <1>31 DEF PressSeeds, Publish
    <2> HIDE DEF s
    <2>3. ClientType'
      BY <1>31, <2>1, <2>2 DEF PressSeeds, ClientType
    <2>4. PressType'
      BY <1>31, <2>2 DEF PressSeeds, PressType, Idle, PressSteps, MaybeModes
    <2>5. DisplayType'
      BY <2>1, <2>2, ViewType DEF Publish, DisplayType
    <2>6. OutsideType' /\ ControlType' /\ CmdType' /\ PollType' /\ BudgetType'
      BY <1>31 DEF PressSeeds, OutsideType, ControlType, CmdType, PollType,
           BudgetType
    <2>7. QED
      BY <2>3, <2>4, <2>5, <2>6
  <1>32. CASE PressFetchFails
    <2>1. PressType'
      BY <1>32 DEF PressFetchFails, PressType, Idle, PressSteps, MaybeModes
    <2>2. DisplayType'
      BY <1>32, ViewType DEF PressFetchFails, Publish, DisplayType, ClientType
    <2>3. BudgetType'
      BY <1>32 DEF PressFetchFails, BudgetType, Fault
    <2>4. OutsideType' /\ ClientType' /\ ControlType' /\ CmdType' /\ PollType'
      BY <1>32 DEF PressFetchFails, OutsideType, ClientType, ControlType,
           CmdType, PollType
    <2>5. QED
      BY <2>1, <2>2, <2>3, <2>4
  <1>33. QED
    BY <1>1, <1>2, <1>3, <1>4, <1>5, <1>6, <1>7, <1>8, <1>9, <1>10, <1>11,
         <1>12, <1>13, <1>14, <1>15, <1>16, <1>17, <1>18, <1>19, <1>20,
         <1>21, <1>22, <1>23, <1>24, <1>25, <1>26, <1>27, <1>28, <1>29,
         <1>30, <1>31, <1>32 DEF Next, Environment, Command, Refresh, Press

(* Every variable keeps its type.                                          *)
THEOREM TypeCorrect == Spec => []TypeOK
  <1>1. ASSUME Init PROVE TypeOK
    <2> USE <1>1, GyreControlAssumption DEF Init
    <2>1. OutsideType
      BY EmptySeq DEF OutsideType
    <2>2. ClientType /\ ControlType
      BY DEF ClientType, ControlType, InitialState, States, MaybeModes, Modes
    <2>3. CmdType /\ PollType /\ PressType
      BY DEF CmdType, PollType, PressType, Idle, CmdSteps, PollSteps, PressSteps,
         MaybeModes
    <2>4. DisplayType
      BY DEF DisplayType, InitialState, Modes
    <2>5. BudgetType
      BY DEF BudgetType
    <2>6. QED
      BY <2>1, <2>2, <2>3, <2>4, <2>5 DEF TypeOK
  <1>2. QED
    BY <1>1, TypeStep, PTL DEF Spec
------------------------------------------------------------------------------
(* What is shown of a mode that was merged, commanded or reapplied.        *)
LEMMA ShowMerged ==
    ASSUME NEW s \in States, s.is_on = (s.mode # OFF)
    PROVE  View(s) = Held!Show(s.mode)
  BY DEF View, Held!Show, OFF, Held!OFF, States

LEMMA ShowReapplied ==
    ASSUME NEW s \in States
    PROVE  View(Reapplied(s)) = Held!Show(pending_mode)
  <1>1. /\ Reapplied(s).mode = pending_mode
        /\ Reapplied(s).is_on = (pending_mode # OFF)
    BY DEF Reapplied, States
  <1>2. QED
    BY <1>1 DEF View, Held!Show, OFF, Held!OFF, States

(* A report that answers a request leaves, once merged, a mode that does.  *)
LEMMA MergeMatches ==
    ASSUME NEW r \in Reports, NEW s \in States, NEW q \in Modes,
           ModeFromReport(r) # NoMode,
           ModeMatchesRequest(q, ModeFromReport(r))
    PROVE  LET t == ApplyAttributes(r, s)
           IN  /\ t.mode \in Modes
               /\ ModeMatchesRequest(q, t.mode)
               /\ View(t) = Held!Show(t.mode)
  <1> DEFINE t == ApplyAttributes(r, s)
  <1>1. r # Clock
    BY DEF Clock, ModeFromReport
  <1>2. t \in States /\ t.is_on = (t.mode # OFF)
    BY <1>1, MergeType DEF ApplyAttributes
  <1>3. View(t) = Held!Show(t.mode) /\ t.mode \in Modes
    BY <1>2, ShowMerged DEF States
  <1>4. CASE r.mode # NoMode
    BY <1>1, <1>3, <1>4 DEF ApplyAttributes, ModeFromReport
  <1>5. CASE r.mode = NoMode
    <2>1. t.mode = TelemetryMode(r, s) /\ ModeFromReport(r) = r.bak24
      BY <1>1, <1>5 DEF ApplyAttributes, ModeFromReport
    <2>2. ModeMatchesRequest(q, TelemetryMode(r, s))
      BY <2>1 DEF TelemetryMode, ModeMatchesRequest
    <2>3. QED
      BY <1>3, <2>1, <2>2
  <1>6. QED
    BY <1>4, <1>5

(* HeldInv is inductive: no step of mode control breaks it.                *)
LEMMA HeldInvStep == TypeOK /\ HeldInv /\ [Next]_vars => HeldInv'
  <1> SUFFICES ASSUME TypeOK, HeldInv, [Next]_vars PROVE HeldInv'
    OBVIOUS
  <1> USE DEF TypeOK, HeldInv, outside, lan, control, display, button
  <1>1. CASE UNCHANGED <<state, cooldown, pending_mode, display, cmd, ready,
                         local_pending_mode, mode_event, reported_mode, poll,
                         press>>
    BY <1>1 DEF ShowsPendingOrSame, AskedIsTheCommand, ConfirmedIsLifted,
         Confirmed, CoolingIsReady
  <1>2. CASE Environment
    <2>1. CASE LinkLost
      BY <1>1, <2>1 DEF LinkLost
    <2>2. CASE ~LinkLost
      BY <1>1, <1>2, <2>2 DEF Environment, DeviceReportsSettings,
         DeviceReportsTelemetry, DeviceReportsClock, DeviceReports,
         DeviceTakesLanWrite, DeviceTakesCloudWrite, OwnerChangesMode,
         CloudHearsDevice
    <2>3. QED
      BY <2>1, <2>2
  <1>3. CASE ProcessPush
    <2> DEFINE r == Head(reports)
               s == ApplyAttributes(r, state)
               m == ModeFromReport(r)
    <2>1. NoteMode(m) /\ OnDevicePush(s, m)
      BY <1>3 DEF ProcessPush
    <2>2. UNCHANGED <<local_pending_mode, cmd, poll, press, ready>>
      BY <1>3 DEF ProcessPush
    <2>3. ShowsPendingOrSame'
      <3>1. s \in States
        BY <1>3, MergeType, HeadTailProperties DEF ProcessPush, OutsideType,
           ClientType
      <3>2. CASE cooldown'
        BY <2>1, <3>1, <3>2, ShowReapplied
           DEF OnDevicePush, ShowsPendingOrSame, View, Held!Show
      <3>3. QED
        BY <3>2 DEF ShowsPendingOrSame
    <2>4. ConfirmedIsLifted'
      <3>1. CASE m = NoMode
        BY <2>1, <2>2, <3>1 DEF OnDevicePush, NoteMode, ConfirmedIsLifted,
           Confirmed
      <3>2. CASE m # NoMode
        <4>1. SUFFICES ASSUME cmd.step = "lan_wait",
                              ModeMatchesRequest(cmd.mode, m)
                       PROVE  ~cooldown'
          BY <2>1, <2>2, <3>2 DEF NoteMode, ConfirmedIsLifted, Confirmed
        <4>2. local_pending_mode = cmd.mode /\ cmd.mode # NoMode
          BY <4>1, GyreControlAssumption DEF AskedIsTheCommand, CmdType,
             Modes, NoMode, WATER_FLOW, PROGRAMMING, FEED, OFF, EXIT_FEED, ON
        <4>3. QED
          BY <2>1, <3>2, <4>1, <4>2 DEF OnDevicePush, AnswersLocal
      <3>3. QED
        BY <3>1, <3>2
    <2>5. AskedIsTheCommand' /\ CoolingIsReady'
      BY <2>1, <2>2 DEF OnDevicePush, AskedIsTheCommand, CoolingIsReady
    <2>6. QED
      BY <2>3, <2>4, <2>5
  <1>4. CASE CooldownEnds
    BY <1>4 DEF CooldownEnds, ShowsPendingOrSame, AskedIsTheCommand,
       ConfirmedIsLifted, Confirmed, CoolingIsReady
  <1>5. CASE Command
    <2>1. ASSUME NEW m \in Requests, BeginCommand(m) PROVE HeldInv'
      BY <2>1 DEF BeginCommand, WriteMode, ShowsPendingOrSame, Idle,
         AskedIsTheCommand, ConfirmedIsLifted, Confirmed, CoolingIsReady
    <2>2. CASE CommandConnects
      <3>1. ShowsPendingOrSame' /\ CoolingIsReady'
        BY <2>2 DEF CommandConnects, LanFailed, WriteMode, Idle,
           ShowsPendingOrSame, CoolingIsReady
      <3>2. AskedIsTheCommand' /\ ConfirmedIsLifted'
        BY <2>2 DEF CommandConnects, Connects, ConnectFails, LanFailed,
           WriteMode, Idle, AskedIsTheCommand, ConfirmedIsLifted
      <3>3. QED
        BY <3>1, <3>2
    <2>3. CASE LanWakes
      BY <2>3 DEF LanWakes, Publish, ShowsPendingOrSame, Idle,
         AskedIsTheCommand, ConfirmedIsLifted, Confirmed, CoolingIsReady
    <2>4. CASE LanTimesOut
      BY <2>4 DEF LanTimesOut, LanFailed, ShowsPendingOrSame, Idle,
         AskedIsTheCommand, ConfirmedIsLifted, Confirmed, CoolingIsReady
    <2>5. CASE CloudAccepts
      BY <2>5 DEF CloudAccepts, ShowsPendingOrSame, Idle, CmdType,
         AskedIsTheCommand, ConfirmedIsLifted, Confirmed, CoolingIsReady
    <2>6. CASE CloudFails
      BY <2>6 DEF CloudFails, ShowsPendingOrSame, Idle,
         AskedIsTheCommand, ConfirmedIsLifted, Confirmed, CoolingIsReady
    <2>7. CASE CloudAcks
      BY <2>7 DEF CloudAcks, Publish, View, Held!Show, ShowsPendingOrSame,
         Idle, AskedIsTheCommand, ConfirmedIsLifted, Confirmed, CoolingIsReady
    <2>8. QED
      BY <1>5, <2>1, <2>2, <2>3, <2>4, <2>5, <2>6, <2>7 DEF Command
  <1>6. CASE Refresh \/ OwnerReloads
    <2> USE DEF AskedIsTheCommand, ConfirmedIsLifted, Confirmed,
                CoolingIsReady, ShowsPendingOrSame, Idle
    <2>1. CASE RefreshServed
      BY <2>1 DEF RefreshServed, Served, Publish
    <2>2. CASE RefreshAsks
      BY <2>2 DEF RefreshAsks
    <2>3. CASE RefreshConnects
      BY <2>3 DEF RefreshConnects, Connects, ConnectFails, FallBack, Served,
         NotServed, Publish
    <2>4. CASE StatusArrives
      BY <2>4 DEF StatusArrives, Served, Publish
    <2>5. CASE StatusTimesOut
      BY <2>5 DEF StatusTimesOut, FallBack, Served, NotServed, Publish
    <2>6. CASE CloudAnswers
      BY <2>6 DEF CloudAnswers
    <2>7. CASE SeedFromCloud
      BY <2>7 DEF SeedFromCloud, Publish
    <2>8. CASE FetchFails
      BY <2>8 DEF FetchFails, NotServed, Abandoned
    <2>9. CASE SetupRetries \/ OwnerReloads
      BY <2>9 DEF SetupRetries, OwnerReloads, SetUpAfresh
    <2>10. QED
      BY <1>6, <2>1, <2>2, <2>3, <2>4, <2>5, <2>6, <2>7, <2>8, <2>9 DEF Refresh
  <1>7. CASE BeginPress \/ Press
    <2> USE DEF AskedIsTheCommand, ConfirmedIsLifted, Confirmed,
                CoolingIsReady, ShowsPendingOrSame, Idle
    <2>1. CASE BeginPress
      BY <2>1 DEF BeginPress, Publish
    <2>2. CASE PressConnects
      BY <2>2 DEF PressConnects, PressEnds, Connects, ConnectFails, Publish
    <2>3. CASE PressServed \/ PressAsksCloud \/ CloudAnswersPress
      BY <2>3 DEF PressServed, PressEnds, PressAsksCloud, CloudAnswersPress,
         Publish
    <2>4. CASE PressSeeds
      BY <2>4 DEF PressSeeds, Publish
    <2>5. CASE PressFetchFails
      BY <2>5 DEF PressFetchFails, Publish
    <2>6. QED
      BY <1>7, <2>1, <2>2, <2>3, <2>4, <2>5 DEF Press
  <1>8. CASE UNCHANGED vars
    BY <1>1, <1>8 DEF vars
  <1>9. QED
    BY <1>2, <1>3, <1>4, <1>5, <1>6, <1>7, <1>8 DEF Next

(* The invariant behind the hold, for every instance.                      *)
THEOREM HeldInvariant == Spec => []HeldInv
  <1>1. Init => HeldInv
    BY DEF Init, HeldInv, ShowsPendingOrSame, AskedIsTheCommand, Idle,
       ConfirmedIsLifted, CoolingIsReady
  <1>2. QED
    BY <1>1, HeldInvStep, TypeCorrect, PTL DEF Spec

------------------------------------------------------------------------------
(* The steps of mode control as steps of HeldMode.                          *)

(* Sets of modes are the same in both modules.                              *)
LEMMA SameModes ==
    /\ Held!Modes = Modes /\ Held!NoMode = NoMode
    /\ Held!MaybeModes = MaybeModes
    /\ NoMode \notin Modes
    /\ \A q, m : Held!ModeMatchesRequest(q, m) = ModeMatchesRequest(q, m)
    /\ Held!Views = [mode : Modes, is_on : BOOLEAN]
  BY DEF Held!Modes, Modes, Held!NoMode, NoMode, Held!MaybeModes, MaybeModes,
     Held!ModeMatchesRequest, ModeMatchesRequest, Held!Programs, Programs,
     Held!Views, Held!WATER_FLOW, WATER_FLOW, Held!PROGRAMMING, PROGRAMMING,
     Held!FEED, FEED, Held!OFF, OFF, Held!EXIT_FEED, EXIT_FEED, Held!ON, ON

(* Whatever is published while nothing is held is an observation, and      *)
(* publishing the shared state during a hold disturbs nothing.             *)
LEMMA PublishHeld ==
    ASSUME TypeOK, HeldInv, Publish(state),
           UNCHANGED <<cooldown, pending_mode, local_pending_mode, heard>>,
           (poll.step \in {"fetch", "answer"})'
              = (poll.step \in {"fetch", "answer"}),
           (press.step \in {"fetch", "answer"})'
              = (press.step \in {"fetch", "answer"})
    PROVE  [Held!Next]_(Held!vars)
  <1> USE DEF Held!Next, Held!vars
  <1>1. shown' = View(state) /\ View(state) \in Held!Views
    BY ViewType, SameModes DEF Publish, TypeOK, ClientType
  <1>2. CASE cooldown
    <2>1. shown' \in {Held!Show(pending_mode), shown}
      BY <1>1, <1>2 DEF HeldInv, ShowsPendingOrSame
    <2>2. pending_mode # Held!NoMode
      BY SameModes DEF TypeOK, ControlType
    <2>3. CASE shown' = shown
      BY <2>3
    <2>4. CASE shown' = Held!Show(pending_mode)
      <3>1. Held!Reassert
        BY <1>2, <2>2, <2>4 DEF Held!Reassert
      <3>2. QED
        BY <3>1
    <2>5. QED
      BY <2>1, <2>3, <2>4
  <1>3. CASE ~cooldown
    <2>1. Held!Observe
      BY <1>1, <1>3, SameModes DEF Held!Observe, Held!Learns
    <2>2. QED
      BY <2>1
  <1>4. QED
    BY <1>2, <1>3 DEF TypeOK, ControlType

(* A report: it confirms, it is observed, or it is stale and disturbs      *)
(* nothing.                                                                *)
LEMMA PushHeld ==
    ASSUME TypeOK, HeldInv, ProcessPush
    PROVE  [Held!Next]_(Held!vars)
  <1> DEFINE r == Head(reports)
             s == ApplyAttributes(r, state)
             m == ModeFromReport(r)
  <1> USE DEF Held!Next, Held!vars, TypeOK
  <1>1. /\ r \in Reports /\ s \in States
        /\ View(s) \in Held!Views
    BY MergeType, HeadTailProperties, ViewType, SameModes
       DEF ProcessPush, OutsideType, ClientType
  <1>2. OnDevicePush(s, m) /\ UNCHANGED <<local_pending_mode, poll, press>>
    BY DEF ProcessPush
  <1>3. /\ heard' = heard \union AttributesOf(r)
        /\ AttributesOf(r) \subseteq ModeAttributes /\ heard \subseteq ModeAttributes
    BY DEF ProcessPush, AttributesOf, PressType
  <1>4. (heard' = ModeAttributes) \in {heard = ModeAttributes, TRUE}
    BY <1>3
  <1>5. /\ pending_mode \in Modes /\ pending_mode # Held!NoMode
        /\ local_pending_mode # NoMode =>
              local_pending_mode \in Modes /\ local_pending_mode # Held!NoMode
    BY SameModes DEF ControlType, MaybeModes
  <1> HIDE DEF r, s, m
  <1>6. CASE ~cooldown
    <2>1. ~cooldown' /\ shown' = View(s)
      BY <1>2, <1>6 DEF OnDevicePush, Publish
    <2>2. Held!Observe
      BY <1>1, <1>2, <1>6, <1>4, <2>1, SameModes DEF Held!Observe, Held!Learns
    <2>3. QED
      BY <2>2
  <1>7. CASE cooldown /\ (AnswersLocal(m) \/ AnswersPending(m))
    <2>1. PICK q \in {pending_mode, local_pending_mode} :
              /\ q \in Modes /\ q # Held!NoMode
              /\ m # NoMode /\ ModeMatchesRequest(q, m)
      BY <1>5, <1>7 DEF AnswersLocal, AnswersPending
    <2>2. /\ s.mode \in Modes /\ ModeMatchesRequest(q, s.mode)
          /\ View(s) = Held!Show(s.mode)
      BY <1>1, <2>1, MergeMatches DEF TypeOK, ClientType, s, m
    <2>3. ~cooldown' /\ shown' = Held!Show(s.mode)
      BY <1>2, <1>7, <2>2 DEF OnDevicePush, Publish
    <2>4. Held!Confirm
      BY <1>2, <1>5, <1>7, <1>4, <2>1, <2>2, <2>3, SameModes
         DEF Held!Confirm, Held!Learns
    <2>5. QED
      BY <2>4
  <1>8. CASE cooldown /\ ~AnswersLocal(m) /\ ~AnswersPending(m)
    <2>1. Held!Hear
      BY <1>2, <1>8, <1>4 DEF OnDevicePush, display, Held!Hear, Held!Learns
    <2>2. QED
      BY <2>1
  <1>9. QED
    BY <1>6, <1>7, <1>8 DEF ControlType

(* The coordinator's refresh without LAN status: a fetch begins only when  *)
(* nothing is held.                                                        *)
LEMMA FallBackHeld ==
    ASSUME TypeOK, HeldInv, FallBack, poll.step \in {"idle", "status"},
           UNCHANGED <<cooldown, pending_mode, local_pending_mode, state>>,
           UNCHANGED button
    PROVE  [Held!Next]_(Held!vars)
  <1> USE DEF Held!Next, Held!vars, button
  <1>1. CASE cooldown /\ Served
    BY <1>1, PublishHeld DEF Served, Idle
  <1>2. CASE /\ ~cooldown /\ UNCHANGED display
             /\ poll' = [step |-> "fetch", mode |-> NoMode]
    <2>1. Held!Fetch
      BY <1>2, SameModes DEF Held!Fetch, display
    <2>2. QED
      BY <2>1
  <1>3. CASE ~cooldown /\ NotServed
    <2>1. shown' \in Held!Views
      BY <1>3, ViewType, SameModes DEF NotServed, TypeOK, ClientType, DisplayType
    <2>2. poll'.step \notin {"fetch", "answer"}
      BY <1>3 DEF NotServed, Idle
    <2>3. Held!Observe
      BY <1>3, <2>1, <2>2, SameModes DEF Held!Observe, Held!Learns
    <2>4. QED
      BY <2>3
  <1>4. QED
    BY <1>1, <1>2, <1>3 DEF FallBack

(* What the entities show of the shared state during a hold is the pending *)
(* mode or what they show already.                                         *)
LEMMA HeldViews ==
    ASSUME TypeOK, HeldInv, cooldown
    PROVE  View(state) \in {shown, Held!Show(pending_mode)}
  BY DEF HeldInv, ShowsPendingOrSame

(* The end of a press: an answer has nothing to say of a mode that the     *)
(* controller has reported in full.                                        *)
LEMMA PressedHeld ==
    ASSUME TypeOK, HeldInv, PressSeeds \/ PressFetchFails
    PROVE  [Held!Next]_(Held!vars)
  <1> USE DEF Held!Next, Held!vars, TypeOK, control, display
  <1>1. /\ press.step \in {"fetch", "answer"}
        /\ press'.step \notin {"fetch", "answer"}
        /\ UNCHANGED <<control, poll, heard>>
    BY DEF PressSeeds, PressFetchFails, Idle
  <1>2. shown' \in Held!Views
    <2>1. CASE PressSeeds
      BY <2>1, MergeType, ReportType, UnheardType, ViewType, SameModes
         DEF PressSeeds, Publish, PressType, ClientType
    <2>2. CASE PressFetchFails
      BY <2>2, ViewType, SameModes
         DEF PressFetchFails, Publish, ClientType, DisplayType
    <2>3. QED
      BY <2>1, <2>2
  <1>3. heard = ModeAttributes => shown' \in {shown, View(state)}
    <2>1. CASE PressSeeds
      <3>1. heard = ModeAttributes => Unheard(FullReport(press.mode)) = Clock
        BY DEF Unheard, Clock, ModeAttributes
      <3>2. QED
        BY <2>1, <3>1 DEF PressSeeds, Publish, ApplyAttributes
    <2>2. CASE PressFetchFails
      BY <2>2 DEF PressFetchFails, Publish
    <2>3. QED
      BY <2>1, <2>2
  <1>4. Held!Pressed
    BY <1>1, <1>2, <1>3, HeldViews, SameModes DEF Held!Pressed, ControlType
  <1>5. QED
    BY <1>4

(* Every step of mode control is a step of HeldMode, or shows nothing new. *)
LEMMA HeldStep == TypeOK /\ HeldInv /\ [Next]_vars => [Held!Next]_(Held!vars)
  <1> SUFFICES ASSUME TypeOK, HeldInv, [Next]_vars
               PROVE  [Held!Next]_(Held!vars)
    OBVIOUS
  <1> USE DEF Held!Next, Held!vars, outside, lan, control, display, button
  <1>1. CASE UNCHANGED <<shown, control, poll, button>>
    BY <1>1
  <1>2. CASE Environment
    BY <1>1, <1>2 DEF Environment, DeviceReportsSettings,
       DeviceReportsTelemetry, DeviceReportsClock, DeviceReports,
       DeviceTakesLanWrite, DeviceTakesCloudWrite, OwnerChangesMode,
       CloudHearsDevice, LinkLost
  <1>3. CASE ProcessPush
    BY <1>3, PushHeld
  <1>4. CASE CooldownEnds
    <2>1. Held!Expire
      BY <1>4, SameModes DEF CooldownEnds, Held!Expire
    <2>2. QED
      BY <2>1
  <1>5. CASE Command
    (* What turns to the LAN or leaves it shows nothing new.                *)
    <2>1. ASSUME UNCHANGED <<shown, cooldown, pending_mode, poll, button>>,
                 local_pending_mode' \in MaybeModes
          PROVE  [Held!Next]_(Held!vars)
      <3>1. Held!Ask
        BY <2>1, SameModes DEF Held!Ask, TypeOK, DisplayType
      <3>2. QED
        BY <3>1
    <2>2. CASE CommandConnects \/ LanTimesOut \/ CloudAccepts \/ CloudFails
      <3>1. /\ UNCHANGED <<shown, cooldown, pending_mode, poll, button>>
            /\ local_pending_mode' \in MaybeModes
        BY <2>2 DEF CommandConnects, LanTimesOut, LanFailed, CloudAccepts,
           CloudFails, TypeOK, ControlType, MaybeModes
      <3>2. QED
        BY <2>1, <3>1
    <2>3. ASSUME NEW m \in Requests, BeginCommand(m)
          PROVE  [Held!Next]_(Held!vars)
      <3>1. /\ UNCHANGED <<shown, cooldown, pending_mode, poll, button>>
            /\ local_pending_mode' \in MaybeModes
        BY <2>3, GyreControlAssumption DEF BeginCommand, TypeOK, ControlType,
           MaybeModes
      <3>2. QED
        BY <2>1, <3>1
    <2>4. CASE LanWakes
      <3>1. CASE Confirmed
        <4>1. ~cooldown /\ ~cooldown' /\ UNCHANGED <<poll, button>>
          BY <2>4, <3>1 DEF LanWakes, HeldInv, ConfirmedIsLifted
        <4>2. shown' \in Held!Views /\ local_pending_mode' \in Held!MaybeModes
          BY <2>4, <3>1, ViewType, SameModes
             DEF LanWakes, Publish, TypeOK, ClientType, MaybeModes
        <4>3. Held!Ask
          BY <4>1, <4>2, SameModes DEF Held!Ask
        <4>4. QED
          BY <4>3
      <3>2. CASE ~Confirmed
        BY <1>1, <2>4, <3>2 DEF LanWakes
      <3>3. QED
        BY <3>1, <3>2
    <2>5. CASE CloudAcks
      <3>1. cmd.mode \in Held!Modes
        BY <2>5, SameModes, GyreControlAssumption DEF CloudAcks, TypeOK, CmdType
      <3>2. shown' = Held!Show(cmd.mode)
        BY <2>5 DEF CloudAcks, Publish, View, Held!Show, OFF, Held!OFF
      <3>3. Held!Hold(cmd.mode)
        BY <2>5, <3>2 DEF CloudAcks, Held!Hold
      <3>4. QED
        BY <3>1, <3>3
    <2>6. QED
      BY <1>5, <2>2, <2>3, <2>4, <2>5 DEF Command
  <1>6. CASE Refresh \/ OwnerReloads
    <2>1. CASE RefreshServed \/ StatusArrives
      BY <2>1, PublishHeld DEF RefreshServed, StatusArrives, Served, Idle
    <2>2. CASE RefreshAsks
      BY <2>2 DEF RefreshAsks, Idle
    <2>3. CASE RefreshConnects
      <3>1. CASE FallBack
        BY <2>3, <3>1, FallBackHeld DEF RefreshConnects, Idle
      <3>2. CASE ~FallBack
        BY <2>3, <3>2 DEF RefreshConnects, Idle
      <3>3. QED
        BY <3>1, <3>2
    <2>4. CASE StatusTimesOut
      BY <2>4, FallBackHeld DEF StatusTimesOut
    <2>5. CASE CloudAnswers
      BY <2>5 DEF CloudAnswers
    <2>6. CASE SeedFromCloud \/ FetchFails
      <3>1. shown' \in Held!Views
        BY <2>6, ViewType, MergeType, ReportType, SameModes
           DEF SeedFromCloud, FetchFails, NotServed, Abandoned, Publish, TypeOK,
               PollType, ClientType, DisplayType
      <3>2. poll.step \in {"fetch", "answer"}
        BY <2>6 DEF SeedFromCloud, FetchFails
      <3>3. poll'.step \notin {"fetch", "answer"} /\ UNCHANGED <<control, button>>
        BY <2>6 DEF SeedFromCloud, FetchFails, NotServed, Abandoned, Idle
      <3>4. Held!Fetched
        BY <3>1, <3>2, <3>3 DEF Held!Fetched
      <3>5. QED
        BY <3>4
    <2>7. CASE SetupRetries \/ OwnerReloads
      <3>1. ~cooldown /\ ~cooldown'
        BY <2>7 DEF SetupRetries, OwnerReloads, SetUpAfresh, HeldInv, CoolingIsReady
      <3>2. shown' \in Held!Views
        BY <2>7, ViewType, SameModes
           DEF SetupRetries, OwnerReloads, SetUpAfresh, InitialState, States, Modes, MaybeModes
      <3>3. Held!Renew
        BY <2>7, <3>1, <3>2, SameModes DEF SetupRetries, OwnerReloads, SetUpAfresh,
           Idle, Held!Renew, ModeAttributes
      <3>4. QED
        BY <3>3
    <2>8. QED
      BY <1>6, <2>1, <2>2, <2>3, <2>4, <2>5, <2>6, <2>7 DEF Refresh
  <1>7. CASE BeginPress \/ Press
    <2>1. CASE BeginPress \/ PressServed
      BY <2>1, PublishHeld DEF BeginPress, PressServed, PressEnds, Idle
    <2>2. CASE PressConnects
      <3>1. CASE PressEnds
        BY <2>2, <3>1, PublishHeld DEF PressConnects, PressEnds, Idle
      <3>2. CASE ~PressEnds
        BY <2>2, <3>2 DEF PressConnects, Idle
      <3>3. QED
        BY <3>1, <3>2
    <2>3. CASE PressAsksCloud
      <3>1. Held!Press
        BY <2>3 DEF PressAsksCloud, PressType, Held!Press
      <3>2. QED
        BY <3>1
    <2>4. CASE CloudAnswersPress
      BY <2>4 DEF CloudAnswersPress
    <2>5. CASE PressSeeds \/ PressFetchFails
      BY <2>5, PressedHeld
    <2>6. QED
      BY <1>7, <2>1, <2>2, <2>3, <2>4, <2>5 DEF Press
  <1>8. CASE UNCHANGED vars
    BY <1>8 DEF vars
  <1>9. QED
    BY <1>2, <1>3, <1>4, <1>5, <1>6, <1>7, <1>8 DEF Next

(* Mode control implements HeldMode: the promise around a cloud write is   *)
(* kept for every set of modes, whatever is lost, late or repeated.        *)
THEOREM ImplementsHeldMode == Spec => HeldSpec
  <1>1. Init => Held!Init
    BY SameModes DEF Init, Held!Init, Idle, InitialState, Modes, ModeAttributes
  <1>2. QED
    BY <1>1, HeldStep, TypeCorrect, HeldInvariant, PTL
       DEF Spec, HeldSpec, Held!Spec
===============================================================================
