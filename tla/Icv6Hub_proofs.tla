---------------------------- MODULE Icv6Hub_proofs ----------------------------
(***************************************************************************)
(* Proofs about the ICV6 hub, for all devices, commands and bounds, and    *)
(* about the search for its devices.                                       *)
(***************************************************************************)
EXTENDS Icv6HubProperties, Icv6Search, TLAPS

USE Icv6HubAssumption

LEMMA UnusedType == Unused \in [step : CmdSteps, dev : Devices, on : BOOLEAN,
                                taken : BOOLEAN]
  <1>1. (CHOOSE d \in Devices : TRUE) \in Devices
    OBVIOUS
  <1>2. QED
    BY <1>1 DEF Unused, CmdSteps

LEMMA IdleType ==
    Idle \in [step : RefreshSteps, seen : SUBSET Devices, on : [Devices -> BOOLEAN]]
  BY DEF Idle, RefreshSteps, AllOn

(* What the entities are told keeps the types.                             *)
LEMMA NotifyType ==
    ASSUME TypeOK, NEW keys \in SUBSET Devices, NEW on \in [Devices -> BOOLEAN],
           Notify(keys, on)
    PROVE  /\ known' \subseteq Devices
           /\ success' \in BOOLEAN
           /\ shown' \in [Devices -> BOOLEAN]
  BY DEF Notify, TypeOK

LEMMA FaultType ==
    ASSUME TypeOK, Fault
    PROVE  budget' \in [changes : Nat, faults : Nat]
  BY DEF Fault, TypeOK

LEMMA TakesType ==
    ASSUME TypeOK, NEW c \in Commands, Takes(c)
    PROVE  power' \in [Devices -> BOOLEAN]
  BY DEF Takes, TypeOK

LEMMA EndsType ==
    ASSUME TypeOK, NEW c \in Commands, NEW s \in CmdSteps, NEW b \in BOOLEAN,
           Ends(c, s, b)
    PROVE  cmds' \in [Commands -> [step : CmdSteps, dev : Devices, on : BOOLEAN,
                                   taken : BOOLEAN]]
  BY DEF Ends, TypeOK

LEMMA InitType == Init => TypeOK
  BY UnusedType, IdleType DEF Init, TypeOK, AllOn

(* Every step keeps the types.                                             *)
LEMMA TypeStep == TypeOK /\ [Next]_vars => TypeOK'
  <1> SUFFICES ASSUME TypeOK, [Next]_vars PROVE TypeOK'
    OBVIOUS
  <1>1. CASE Environment
    <2>1. CASE OwnerChanges
      BY <2>1 DEF OwnerChanges, TypeOK, cache
    <2>2. CASE DeviceGoes
      BY <2>2, FaultType DEF DeviceGoes, TypeOK, cache
    <2>3. CASE DeviceComes
      BY <2>3 DEF DeviceComes, TypeOK, cache
    <2>4. CASE HubGoes
      BY <2>4, FaultType DEF HubGoes, TypeOK, cache
    <2>5. CASE HubComes \/ TimePasses
      BY <2>5 DEF HubComes, TimePasses, TypeOK, cache, world
    <2>6. QED
      BY <1>1, <2>1, <2>2, <2>3, <2>4, <2>5 DEF Environment
  <1>2. CASE Refresh
    <2>1. CASE RefreshCached
      <3>1. known \in SUBSET Devices /\ is_on \in [Devices -> BOOLEAN]
        BY DEF TypeOK
      <3>2. QED
        BY <2>1, <3>1, NotifyType DEF RefreshCached, TypeOK, world
    <2>2. CASE RefreshSearches
      BY <2>2 DEF RefreshSearches, TypeOK, world, cache, RefreshSteps
    <2>3. CASE SearchAnswers
      <3>1. PICK seen \in SUBSET attached :
              refresh' = [step |-> "found", seen |-> seen, on |-> power]
        BY <2>3 DEF SearchAnswers
      <3>2. refresh' \in [step : RefreshSteps, seen : SUBSET Devices,
                          on : [Devices -> BOOLEAN]]
        BY <3>1 DEF TypeOK, RefreshSteps
      <3>3. budget' \in [changes : Nat, faults : Nat]
        BY <2>3, FaultType DEF SearchAnswers, TypeOK
      <3>4. QED
        BY <2>3, <3>2, <3>3 DEF SearchAnswers, TypeOK, world, cache
    <2>4. CASE DiscoveryFails
      BY <2>4, IdleType DEF DiscoveryFails, TypeOK, world
    <2>5. CASE DiscoveryMerges
      <3>1. Merged \in [Devices -> BOOLEAN]
        BY DEF Merged, TypeOK
      <3>2. QED
        BY <2>5, <3>1 DEF DiscoveryMerges, TypeOK, world, RefreshSteps
    <2>6. CASE ReadsEnd
      <3>1. known \union refresh.seen \in SUBSET Devices
        BY DEF TypeOK
      <3>2. is_on \in [Devices -> BOOLEAN]
        BY DEF TypeOK
      <3>3. Notify(known \union refresh.seen, is_on)
        BY <2>6 DEF ReadsEnd
      <3>4. QED
        BY <2>6, <3>1, <3>2, <3>3, NotifyType, IdleType
        DEF ReadsEnd, TypeOK, world
    <2>7. QED
      BY <1>2, <2>1, <2>2, <2>3, <2>4, <2>5, <2>6 DEF Refresh
  <1>3. ASSUME NEW c \in Commands,
               BeginCommand(c) \/ CommandRuns(c) \/ CommandErrs(c) \/ CommandReturns(c)
        PROVE  TypeOK'
    <2>1. CASE BeginCommand(c)
      BY <2>1 DEF BeginCommand, TypeOK, world, cache, CmdSteps
    <2>2. CASE CommandRuns(c)
      <3>1. "ok" \in CmdSteps
        BY DEF CmdSteps
      <3>2. QED
        BY <2>2, <3>1, TakesType, EndsType, FaultType DEF CommandRuns, TypeOK, cache
    <2>3. CASE CommandErrs(c)
      <3>1. "failed" \in CmdSteps
        BY DEF CmdSteps
      <3>2. QED
        BY <2>3, <3>1, TakesType, EndsType, FaultType DEF CommandErrs, TypeOK, cache
    <2>4. CASE CommandReturns(c)
      <3>1. cmds' \in [Commands -> [step : CmdSteps, dev : Devices, on : BOOLEAN,
                                       taken : BOOLEAN]]
        BY <2>4 DEF CommandReturns, TypeOK, CmdSteps
      <3>2. CASE Acknowledged(c)
        <4>1. is_on' = [is_on EXCEPT ![cmds[c].dev] = cmds[c].on]
              /\ Notify(known, is_on')
          BY <2>4, <3>2 DEF CommandReturns
        <4>2. is_on' \in [Devices -> BOOLEAN] /\ known \in SUBSET Devices
          BY <4>1 DEF TypeOK
        <4>3. QED
          BY <2>4, <3>1, <4>1, <4>2, NotifyType DEF CommandReturns, TypeOK, world
      <3>3. CASE ~Acknowledged(c)
        BY <2>4, <3>1, <3>3 DEF CommandReturns, TypeOK, world
      <3>4. QED
        BY <3>2, <3>3
    <2>5. QED
      BY <1>3, <2>1, <2>2, <2>3, <2>4
  <1>4. CASE UNCHANGED vars
    BY <1>4 DEF TypeOK, vars, world, cache
  <1>5. QED
    BY <1>1, <1>2, <1>3, <1>4 DEF Next, Command

(* Every variable of the hub keeps its type, for all devices and commands. *)
THEOREM HubTypeCorrect == Spec => []TypeOK
  BY InitType, TypeStep, PTL DEF Spec
------------------------------------------------------------------------------
LEMMA SerialInit == Init => SerialInv
  <1> SUFFICES ASSUME Init PROVE SerialInv
    OBVIOUS
  <1>1. refresh.step = "idle"
    BY DEF Init, Idle
  <1>2. \A c \in Commands : cmds[c].step = "unused"
    <2>1. Unused.step = "unused"
      BY DEF Unused
    <2>2. QED
      BY <2>1 DEF Init
  <1>3. QED
    BY <1>1, <1>2 DEF SerialInv, Searching, Flying

LEMMA SerialStep == TypeOK /\ SerialInv /\ [Next]_vars => SerialInv'
  <1> SUFFICES ASSUME TypeOK, SerialInv, [Next]_vars, usage' = "serial"
               PROVE  /\ Searching' => \A c \in Commands : ~Flying(c)'
                      /\ \A c, e \in Commands :
                            Flying(c)' /\ Flying(e)' /\ cmds'[c].dev = cmds'[e].dev
                               => c = e
                      /\ refresh'.step = "found" =>
                            \A d \in refresh'.seen : refresh'.on[d] = power'[d]
                      /\ \A c \in Commands :
                            cmds'[c].step = "ok" /\ cmds'[c].taken =>
                               power'[cmds'[c].dev] = cmds'[c].on
    BY DEF SerialInv
  <1>1. usage = "serial"
    BY DEF Next, Environment, Refresh, Command, OwnerChanges, DeviceGoes,
       DeviceComes, HubGoes, HubComes, TimePasses, RefreshCached, RefreshSearches,
       SearchAnswers, DiscoveryFails, DiscoveryMerges, ReadsEnd, BeginCommand,
       CommandRuns, CommandErrs, CommandReturns, world, vars
  <1>2. CASE OwnerChanges
    <2>1. PICK d \in Devices : /\ ~Searching /\ ~InFlight(d)
                               /\ power' = [power EXCEPT ![d] = ~@]
      BY <1>1, <1>2 DEF OwnerChanges, Undisturbed
    <2>2. \A c \in Commands : cmds[c].step = "ok" => cmds[c].dev # d
      BY <2>1 DEF InFlight
    <2>3. refresh.step # "found"
      BY <2>1 DEF Searching
    <2>4. \A c \in Commands :
             cmds[c].step = "ok" /\ cmds[c].taken =>
                power'[cmds[c].dev] = cmds[c].on
      BY <1>1, <2>1, <2>2 DEF SerialInv, TypeOK
    <2>5. UNCHANGED <<refresh, cmds>>
      BY <1>2 DEF OwnerChanges
    <2>6. QED
      BY <1>1, <2>3, <2>4, <2>5 DEF SerialInv, Searching, Flying
  <1>3. CASE DeviceGoes \/ DeviceComes
    BY <1>1, <1>3 DEF DeviceGoes, DeviceComes, SerialInv, Searching, Flying
  <1>5. CASE HubGoes \/ HubComes \/ TimePasses \/ UNCHANGED vars \/ RefreshCached
    BY <1>1, <1>5 DEF HubGoes, HubComes, TimePasses, RefreshCached, SerialInv,
       Searching, Flying, vars, world, cache
  <1>6. CASE RefreshSearches
    <2>1. \A c \in Commands : ~Flying(c)
      BY <1>1, <1>6 DEF RefreshSearches, InFlight, Flying, TypeOK
    <2>2. refresh'.step = "search" /\ UNCHANGED <<power, cmds>>
      BY <1>6 DEF RefreshSearches, world, TypeOK
    <2>3. QED
      BY <1>1, <2>1, <2>2 DEF SerialInv, Searching, Flying
  <1>7. CASE SearchAnswers
    <2>1. PICK seen \in SUBSET attached :
            refresh' = [step |-> "found", seen |-> seen, on |-> power]
      BY <1>7 DEF SearchAnswers
    <2>2. refresh.step = "search" /\ UNCHANGED <<power, cmds>>
      BY <1>7 DEF SearchAnswers, world
    <2>3. QED
      BY <1>1, <2>1, <2>2 DEF SerialInv, Searching, Flying
  <1>8. CASE DiscoveryFails \/ DiscoveryMerges \/ ReadsEnd
    <2>1. refresh'.step \in {"idle", "read"} /\ UNCHANGED <<power, cmds>>
      BY <1>8 DEF DiscoveryFails, DiscoveryMerges, ReadsEnd, world, Idle, TypeOK
    <2>2. QED
      BY <1>1, <2>1 DEF SerialInv, Searching, Flying
  <1>9. ASSUME NEW a \in Commands, BeginCommand(a)
        PROVE  /\ UNCHANGED <<refresh, power>>
               /\ ~Searching
               /\ \E d \in Devices, on \in BOOLEAN :
                     /\ ~InFlight(d)
                     /\ cmds' = [cmds EXCEPT ![a] =
                                    [step |-> "begun", dev |-> d, on |-> on,
                                     taken |-> FALSE]]
    BY <1>1, <1>9 DEF BeginCommand, Undisturbed, world, TypeOK
  <1>10. ASSUME NEW a \in Commands, BeginCommand(a)
         PROVE  SerialInv'
    <2>1. PICK d \in Devices, on \in BOOLEAN :
            /\ ~InFlight(d)
            /\ cmds' = [cmds EXCEPT ![a] = [step |-> "begun", dev |-> d, on |-> on,
                                            taken |-> FALSE]]
      BY <1>9, <1>10
    <2>2. /\ cmds'[a] = [step |-> "begun", dev |-> d, on |-> on, taken |-> FALSE]
          /\ \A c \in Commands : c # a => cmds'[c] = cmds[c]
      BY <2>1 DEF TypeOK
    <2>3. \A c \in Commands : c # a /\ Flying(c)' => Flying(c) /\ cmds[c].dev # d
      BY <2>1, <2>2 DEF Flying, InFlight
    <2>4. \A c, e \in Commands :
             Flying(c)' /\ Flying(e)' /\ cmds'[c].dev = cmds'[e].dev => c = e
      BY <1>1, <2>2, <2>3 DEF SerialInv
    <2>5. \A c \in Commands :
             cmds'[c].step = "ok" /\ cmds'[c].taken =>
                power'[cmds'[c].dev] = cmds'[c].on
      BY <1>1, <1>9, <1>10, <2>2 DEF SerialInv
    <2>6. QED
      BY <1>1, <1>9, <1>10, <2>4, <2>5 DEF SerialInv, Searching
  <1>11. ASSUME NEW a \in Commands, CommandRuns(a) \/ CommandErrs(a)
         PROVE  SerialInv'
    <2>1. PICK s \in {"ok", "failed"}, b \in BOOLEAN : Ends(a, s, b)
      BY <1>11 DEF CommandRuns, CommandErrs
    <2>2. cmds[a].step = "begun" /\ UNCHANGED refresh
      BY <1>11 DEF CommandRuns, CommandErrs
    <2>3. /\ cmds'[a].dev = cmds[a].dev /\ cmds'[a].on = cmds[a].on
          /\ \A c \in Commands : c # a => cmds'[c] = cmds[c]
      BY <2>1 DEF Ends, TypeOK
    <2>4. \A c \in Commands : (Flying(c)' => Flying(c)) /\ cmds'[c].dev = cmds[c].dev
      BY <2>2, <2>3 DEF Flying
    <2>5. Flying(a) /\ ~Searching
      BY <1>1, <2>2 DEF Flying, SerialInv
    <2>6. power' = power \/ power' = [power EXCEPT ![cmds[a].dev] = cmds[a].on]
      BY <1>11 DEF CommandRuns, CommandErrs, Takes
    <2>7. \A c \in Commands :
             cmds'[c].step = "ok" /\ cmds'[c].taken =>
                power'[cmds'[c].dev] = cmds'[c].on
      <3>1. ASSUME NEW c \in Commands, c # a, cmds'[c].step = "ok", cmds'[c].taken
            PROVE  power'[cmds'[c].dev] = cmds'[c].on
        <4>1. cmds[c].step = "ok" /\ cmds[c].taken /\ Flying(c)
          BY <2>3, <3>1 DEF Flying
        <4>2. cmds[c].dev # cmds[a].dev
          BY <1>1, <2>5, <3>1, <4>1 DEF SerialInv
        <4>3. power'[cmds[c].dev] = power[cmds[c].dev]
          BY <2>6, <4>2 DEF TypeOK
        <4>4. QED
          BY <1>1, <2>3, <3>1, <4>1, <4>3 DEF SerialInv
      <3>2. ASSUME cmds'[a].step = "ok", cmds'[a].taken
            PROVE  power'[cmds'[a].dev] = cmds'[a].on
        <4>1. Takes(a)
          BY <1>11, <3>2 DEF CommandRuns, CommandErrs, Ends, TypeOK
        <4>2. cmds[a].dev \in Devices
          BY DEF TypeOK
        <4>3. QED
          BY <2>3, <4>1, <4>2 DEF Takes, TypeOK
      <3>3. QED
        BY <3>1, <3>2
    <2>8. QED
      BY <1>1, <2>2, <2>4, <2>5, <2>7 DEF SerialInv, Searching
  <1>12. ASSUME NEW a \in Commands, CommandReturns(a)
         PROVE  SerialInv'
    <2>1. /\ cmds' = [cmds EXCEPT ![a].step = "over"]
          /\ UNCHANGED <<refresh, power>>
      BY <1>12 DEF CommandReturns, world
    <2>2. /\ cmds'[a].step = "over"
          /\ \A c \in Commands : c # a => cmds'[c] = cmds[c]
      BY <2>1 DEF TypeOK
    <2>3. \A c \in Commands : Flying(c)' => Flying(c) /\ cmds'[c] = cmds[c]
      BY <2>2 DEF Flying
    <2>4. \A c \in Commands :
             cmds'[c].step = "ok" /\ cmds'[c].taken =>
                power'[cmds'[c].dev] = cmds'[c].on
      BY <1>1, <2>1, <2>2 DEF SerialInv
    <2>5. QED
      BY <1>1, <2>1, <2>3, <2>4 DEF SerialInv, Searching
  <1>13. QED
    BY <1>1, <1>2, <1>3, <1>5, <1>6, <1>7, <1>8, <1>10, <1>11, <1>12
    DEF Next, Environment, Refresh, Command, SerialInv

(* Then no merge makes a right state wrong, and no completion but that of a *)
(* command whose device did not take it.                                    *)
LEMMA RightStep == TypeOK /\ SerialInv /\ [Next]_vars => [StaysRight]_vars
  <1> SUFFICES ASSUME TypeOK, SerialInv, [Next]_vars, usage = "serial",
                      NEW d \in known, is_on[d] = power[d], power'[d] = power[d],
                      ~\E c \in Commands : Believed(c, d) /\ CommandReturns(c)
               PROVE  is_on'[d] = power[d]
    BY DEF StaysRight
  <1>1. CASE DiscoveryMerges
    BY <1>1 DEF DiscoveryMerges, Merged, SerialInv, TypeOK
  <1>2. ASSUME NEW c \in Commands, CommandReturns(c)
        PROVE  is_on'[d] = power[d]
    <2>1. CASE Acknowledged(c)
      <3>1. is_on' = [is_on EXCEPT ![cmds[c].dev] = cmds[c].on]
        BY <1>2, <2>1 DEF CommandReturns
      <3>2. CASE cmds[c].dev = d
        <4>1. cmds[c].taken
          BY <1>2, <2>1, <3>2 DEF Believed, Acknowledged
        <4>2. power[d] = cmds[c].on
          BY <2>1, <3>2, <4>1 DEF Acknowledged, SerialInv
        <4>3. QED
          BY <3>1, <3>2, <4>2 DEF TypeOK
      <3>3. CASE cmds[c].dev # d
        BY <3>1, <3>3 DEF TypeOK
      <3>4. QED
        BY <3>2, <3>3
    <2>2. CASE ~Acknowledged(c)
      BY <1>2, <2>2 DEF CommandReturns
    <2>3. QED
      BY <2>1, <2>2
  <1>3. ASSUME ~DiscoveryMerges, \A c \in Commands : ~CommandReturns(c)
        PROVE  UNCHANGED is_on
    BY <1>3 DEF Next, Environment, Refresh, Command, OwnerChanges, DeviceGoes,
       DeviceComes, HubGoes, HubComes, TimePasses, RefreshCached, RefreshSearches,
       SearchAnswers, DiscoveryFails, ReadsEnd, BeginCommand, CommandRuns,
       CommandErrs, cache, vars
  <1>4. QED
    BY <1>1, <1>2, <1>3

(* While searches, commands and the owner keep out of each other's way, a    *)
(* right state in the cache is replaced by a wrong one by nothing but the   *)
(* end of a command that its device did not take, whichever devices come    *)
(* and go and whatever the network and the bus lose.                        *)
THEOREM HubRightStaysRight == Spec => RightStaysRight
  <1>1. Spec => [](TypeOK /\ SerialInv)
    BY InitType, TypeStep, SerialInit, SerialStep, PTL DEF Spec
  <1>2. QED
    BY <1>1, RightStep, PTL DEF Spec, RightStaysRight
------------------------------------------------------------------------------
(* The search for devices.  After t attempts that found nothing, either all *)
(* of them failed or the bus needs more primes than it can have got.        *)
LEMMA SearchStarts == SearchInit => SearchInv
  BY SearchAssumption
  DEF SearchInit, SearchInv, Searchable, ColdBusIsFound, Areas, Burst

LEMMA BurstPrimesKeeps == ASSUME SearchInv, BurstPrimes PROVE SearchInv'
  BY DEF SearchInv, BurstPrimes, Fails, Goes, Fruitless, Searchable,
         ColdBusIsFound, Burst, Attempts, Areas

LEMMA PrimesKeeps == ASSUME SearchInv, Primes PROVE SearchInv'
  BY DEF SearchInv, Primes, Fails, Goes, Excepted, TriesNext, Fruitless,
         Searchable, ColdBusIsFound, Burst, Attempts, Areas

LEMMA QueriesKeeps == ASSUME SearchInv, Queries PROVE SearchInv'
  <1> USE DEF Areas, Burst, Attempts
  <1>1. CASE Fails /\ Excepted /\ UNCHANGED found
    BY <1>1 DEF SearchInv, Queries, Fails, Goes, Excepted, TriesNext, Fruitless,
                Searchable, ColdBusIsFound
  <1>2. CASE found' = Listed(1) /\ found' = {} /\ TriesNext /\ UNCHANGED failures
    <2>1. 1 \in occupied => primes < needed
      BY <1>2 DEF Listed, SearchInv
    <2>2. QED
      BY <1>2, <2>1 DEF SearchInv, Queries, Goes, TriesNext, Fruitless,
                        Searchable, ColdBusIsFound
  <1>3. CASE found' = Listed(1) /\ found' # {} /\ Goes("area", 2) /\ UNCHANGED failures
    <2>1. found' = {1} /\ 1 \in occupied /\ primes >= needed
      BY <1>3 DEF Listed
    <2>2. missed = {} /\ occupied \subseteq 1..4
      BY DEF SearchInv, Queries
    <2>3. \A a \in 1..4 : a < 2 <=> a = 1
      OBVIOUS
    <2>4. tries' = 2 /\ missed' = missed /\ occupied' = occupied
      BY <1>3 DEF Queries, Goes
    <2>5. found' = {a \in occupied' : a < tries'} \ missed'
      BY <2>1, <2>2, <2>3, <2>4
    <2>6. QED
      BY <1>3, <2>1, <2>2, <2>4, <2>5 DEF SearchInv, Queries, Goes, ColdBusIsFound
  <1>4. QED
    BY <1>1, <1>2, <1>3 DEF Queries

LEMMA AsksAreaKeeps == ASSUME SearchInv, AsksArea PROVE SearchInv'
  <1> USE DEF Areas, Burst, Attempts
  <1>1. /\ tries \in 2..4 /\ primes >= needed
        /\ found = {a \in occupied : a < tries} \ missed
        /\ \A a \in missed : a < tries
        /\ occupied \subseteq 1..4 /\ missed \subseteq 1..4
    BY DEF SearchInv, AsksArea
  <1>2. UNCHANGED <<primes, needed, occupied>>
    BY DEF AsksArea
  <1>3. /\ found' = {a \in occupied : a < tries + 1} \ missed'
        /\ missed' \subseteq 1..4 /\ \A a \in missed' : a < tries + 1
        /\ failures' \in Nat
    <2>1. CASE found' = found \union Listed(tries) /\ UNCHANGED <<missed, failures>>
      <3>1. found' = found \union ({tries} \intersect occupied)
        BY <1>1, <2>1 DEF Listed
      <3>2. \A a \in 1..4 : a < tries + 1 <=> a < tries \/ a = tries
        BY <1>1
      <3>3. tries \notin missed
        BY <1>1
      <3>4. \A a : a \in found' <=> a \in occupied /\ a < tries + 1 /\ a \notin missed
        BY <1>1, <3>1, <3>2, <3>3
      <3>5. found' = {a \in occupied : a < tries + 1} \ missed
        BY <3>4
      <3>6. QED
        BY <1>1, <2>1, <3>2, <3>5 DEF SearchInv
    <2>2. CASE Fails /\ missed' = missed \union {tries} /\ UNCHANGED found
      <3>1. \A a \in 1..4 : a < tries + 1 <=> a < tries \/ a = tries
        BY <1>1
      <3>2. ASSUME NEW a
            PROVE  a \in found <=> a \in occupied /\ a < tries + 1 /\ a \notin missed'
        <4>1. a \in missed' <=> a \in missed \/ a = tries
          BY <2>2
        <4>2. a \in found <=> a \in occupied /\ a < tries /\ a \notin missed
          BY <1>1
        <4>3. a \in occupied => (a < tries <=> a < tries + 1 /\ a # tries)
          BY <1>1, <3>1
        <4>4. QED
          BY <4>1, <4>2, <4>3
      <3>3. found = {a \in occupied : a < tries + 1} \ missed'
        BY <3>2
      <3>4. missed' \subseteq 1..4 /\ \A a \in missed' : a < tries + 1
        BY <1>1, <2>2, <3>1
      <3>5. QED
        BY <2>2, <3>3, <3>4 DEF SearchInv, Fails
    <2>3. QED
      BY <2>1, <2>2 DEF AsksArea
  <1>4. found' \subseteq 1..4
    BY <1>1, <1>3
  <1>5. CASE tries < 4
    <2>1. step' = "area" /\ tries' = tries + 1 /\ tries' \in 2..4
      BY <1>1, <1>5 DEF AsksArea, Goes
    <2>2. QED
      BY <1>1, <1>2, <1>3, <1>4, <2>1 DEF SearchInv, ColdBusIsFound
  <1>6. CASE ~(tries < 4)
    <2>1. step' = "done" /\ tries' = 0
      BY <1>1, <1>6 DEF AsksArea, Goes
    <2>2. found' = occupied' \ missed'
      <3>1. tries = 4 /\ \A a \in occupied : a < 5
        BY <1>1, <1>6
      <3>2. QED
        BY <1>2, <1>3, <3>1
    <2>3. QED
      BY <1>1, <1>2, <1>3, <1>4, <2>1, <2>2 DEF SearchInv, ColdBusIsFound
  <1>7. QED
    BY <1>5, <1>6

(* A bus that can be woken is woken and searched to the end, whatever it    *)
(* takes and however many connections may fail (_sync_discover).            *)
THEOREM ColdBusAlwaysFound == SearchSpec => []ColdBusIsFound
  <1>1. SearchInv /\ [SearchNext]_searchVars => SearchInv'
    <2>1. ASSUME SearchInv, UNCHANGED searchVars
          PROVE  SearchInv'
      BY <2>1 DEF searchVars, SearchInv, Fruitless, Searchable, ColdBusIsFound
    <2>2. QED
      BY <2>1, BurstPrimesKeeps, PrimesKeeps, QueriesKeeps, AsksAreaKeeps DEF SearchNext
  <1>2. SearchInv => ColdBusIsFound
    BY DEF SearchInv
  <1>3. QED
    BY <1>1, <1>2, SearchStarts, PTL DEF SearchSpec
===============================================================================
