-------------------------------- MODULE Icv6Hub --------------------------------
(***************************************************************************)
(* The ICV6 hub: ICV6Coordinator (icv6_coordinator.py) over the blocking   *)
(* workers of icv6_api.py, for the power of the child devices.             *)
(*                                                                         *)
(* A command and a discovery are each a coroutine that awaits a worker in  *)
(* a thread; no lock keeps them apart.  What a search has found is merged  *)
(* later, when the workers have returned.                                  *)
(***************************************************************************)
EXTENDS Naturals

CONSTANTS
    Devices,       \* child devices
    Commands,      \* the commands users give, each once
    Usages,        \* how the hub may be used, see Undisturbed
    MaxChanges,    \* bound: changes made with the vendor's app
    MaxFaults      \* bound: faults of the network and of the serial bus

ASSUME Icv6HubAssumption ==
    /\ Devices # {}
    /\ Usages \subseteq {"serial", "free"}
    /\ {MaxChanges, MaxFaults} \subseteq Nat

VARIABLES
    (* outside Home Assistant *)
    power,         \* are the devices on
    attached,      \* the devices that answer on the serial bus
    reachable,     \* the hub answers on the network
    usage,
    (* ICV6Coordinator *)
    known,         \* the keys of data
    is_on,         \* ICV6ChildDevice.is_on of the cached objects
    due,           \* _REDISCOVER_INTERVAL has passed since _last_discovery
    success,       \* last_update_success
    refresh,       \* where _async_update_data awaits, and what was found
    cmds,          \* where each command awaits, and (what no code sees)
                   \* whether its device took it
    (* what the entities show *)
    shown,
    (* what is left of the bounds *)
    budget

world == <<power, attached, reachable, usage>>
cache == <<known, is_on, due, success>>
vars  == <<world, cache, refresh, cmds, shown, budget>>

RefreshSteps == {"idle", "search", "found", "read"}
CmdSteps     == {"unused", "begun", "ok", "failed", "over"}
AllOn        == [d \in Devices |-> TRUE]
Idle         == [step |-> "idle", seen |-> {}, on |-> AllOn]
Unused       == [step |-> "unused", dev |-> CHOOSE d \in Devices : TRUE,
                 on |-> FALSE, taken |-> FALSE]

TypeOK ==
    /\ power \in [Devices -> BOOLEAN]
    /\ attached \subseteq Devices
    /\ reachable \in BOOLEAN
    /\ usage \in Usages
    /\ known \subseteq Devices
    /\ is_on \in [Devices -> BOOLEAN]
    /\ due \in BOOLEAN
    /\ success \in BOOLEAN
    /\ refresh \in [step : RefreshSteps, seen : SUBSET Devices,
                    on : [Devices -> BOOLEAN]]
    /\ cmds \in [Commands -> [step : CmdSteps, dev : Devices, on : BOOLEAN,
                              taken : BOOLEAN]]
    /\ shown \in [Devices -> BOOLEAN]
    /\ budget \in [changes : Nat, faults : Nat]

(* Set up with empty data; the first refresh runs in the background.       *)
Init ==
    /\ power \in [Devices -> BOOLEAN]
    /\ attached = Devices
    /\ reachable = TRUE
    /\ usage \in Usages
    /\ known = {}
    /\ is_on = AllOn
    /\ due = TRUE
    /\ success = TRUE
    /\ refresh = Idle
    /\ cmds = [c \in Commands |-> Unused]
    /\ shown = AllOn
    /\ budget = [changes |-> MaxChanges, faults |-> MaxFaults]
------------------------------------------------------------------------------
InFlight(d) ==
    \E c \in Commands : cmds[c].dev = d /\ cmds[c].step \in {"begun", "ok", "failed"}

Searching == refresh.step \in {"search", "found"}

(* In serial use nothing changes a device while a search or a command of   *)
(* that device is under way, and no search starts during a command.        *)
Undisturbed(d) == usage = "serial" => ~Searching /\ ~InFlight(d)

Fault == budget.faults > 0 /\ budget' = [budget EXCEPT !.faults = @ - 1]

(* async_set_updated_data, or the end of a refresh: every entity shows its *)
(* device's object.                                                        *)
Notify(keys, on) ==
    /\ known' = keys
    /\ success' = TRUE
    /\ shown' = [d \in Devices |-> IF d \in keys THEN on[d] ELSE shown[d]]
------------------------------------------------------------------------------
(* The vendor's app, the bus, the network and the clock.                   *)
OwnerChanges ==
    \E d \in Devices :
        /\ Undisturbed(d)
        /\ budget.changes > 0
        /\ budget' = [budget EXCEPT !.changes = @ - 1]
        /\ power' = [power EXCEPT ![d] = ~@]
        /\ UNCHANGED <<attached, reachable, usage, cache, refresh, cmds, shown>>

DeviceGoes ==
    \E d \in attached :
        /\ Fault
        /\ attached' = attached \ {d}
        /\ UNCHANGED <<power, reachable, usage, cache, refresh, cmds, shown>>

DeviceComes ==
    \E d \in Devices \ attached :
        /\ attached' = attached \union {d}
        /\ UNCHANGED <<power, reachable, usage, cache, refresh, cmds, shown, budget>>

HubGoes ==
    /\ reachable /\ Fault
    /\ reachable' = FALSE
    /\ UNCHANGED <<power, attached, usage, cache, refresh, cmds, shown>>

HubComes ==
    /\ ~reachable
    /\ reachable' = TRUE
    /\ UNCHANGED <<power, attached, usage, cache, refresh, cmds, shown, budget>>

TimePasses ==
    /\ ~due
    /\ due' = TRUE
    /\ UNCHANGED <<world, known, is_on, success, refresh, cmds, shown, budget>>
------------------------------------------------------------------------------
(* _async_update_data, every 30 s.                                         *)
NeedsDiscovery == known = {} \/ due

RefreshCached ==
    /\ refresh = Idle /\ ~NeedsDiscovery
    /\ Notify(known, is_on)
    /\ UNCHANGED <<world, is_on, due, refresh, cmds, budget>>

RefreshSearches ==
    /\ refresh = Idle /\ NeedsDiscovery
    /\ usage = "serial" => \A d \in Devices : ~InFlight(d)
    /\ refresh' = [refresh EXCEPT !.step = "search"]
    /\ UNCHANGED <<world, cache, cmds, shown, budget>>

(* _sync_discover: up to 40 s of primes and queries.  An unreachable hub   *)
(* gives an empty list, never an error; a fault hides some of the devices. *)
SearchAnswers ==
    /\ refresh.step = "search"
    /\ \E seen \in SUBSET attached :
           /\ IF reachable
              THEN \/ seen = attached /\ UNCHANGED budget
                   \/ seen # attached /\ Fault
              ELSE seen = {} /\ UNCHANGED budget
           /\ refresh' = [step |-> "found", seen |-> seen, on |-> power]
    /\ UNCHANGED <<world, cache, cmds, shown>>

(* UpdateFailed: nothing is known and nothing was found.                   *)
NothingFound == refresh.seen = {} /\ known = {}

DiscoveryFails ==
    /\ refresh.step = "found" /\ NothingFound
    /\ success' = FALSE
    /\ refresh' = Idle
    /\ UNCHANGED <<world, known, is_on, due, cmds, shown, budget>>

KeepsKnown == [d \in Devices |->         \* faulty: only new devices
    IF d \in refresh.seen \ known THEN refresh.on[d] ELSE is_on[d]]

OnlySeen == [d \in refresh.seen |-> refresh.on[d]]   \* faulty: from an empty cache

(* New devices are cached, the others take what the search found; then     *)
(* those with channels are read, one by one.                               *)
Merged == [d \in Devices |->
    IF d \in refresh.seen THEN refresh.on[d] ELSE is_on[d]]

DiscoveryMerges ==
    /\ refresh.step = "found" /\ ~NothingFound
    /\ is_on' = Merged
    /\ due' = FALSE
    /\ refresh' = [refresh EXCEPT !.step = "read"]
    /\ UNCHANGED <<world, known, success, cmds, shown, budget>>

ReadsEnd ==
    /\ refresh.step = "read"
    /\ Notify(known \union refresh.seen, is_on)
    /\ refresh' = Idle
    /\ UNCHANGED <<world, is_on, due, cmds, budget>>
------------------------------------------------------------------------------
(* async_set_power, for a device that is known.                            *)
BeginCommand(c) ==
    \E d \in known, on \in BOOLEAN :
        /\ cmds[c].step = "unused"
        /\ Undisturbed(d)
        /\ cmds' = [cmds EXCEPT ![c] = [step |-> "begun", dev |-> d, on |-> on,
                                        taken |-> FALSE]]
        /\ UNCHANGED <<world, cache, refresh, shown, budget>>

Takes(c) ==
    /\ cmds[c].dev \in attached
    /\ power' = [power EXCEPT ![cmds[c].dev] = cmds[c].on]

Ends(c, step, taken) ==
    cmds' = [cmds EXCEPT ![c] = [step |-> step, dev |-> cmds[c].dev,
                                 on |-> cmds[c].on, taken |-> taken]]

(* _sync_set_power: no reply is looked at, so it is a success also when no *)
(* device took the command: the device has left the bus, or the bus has    *)
(* dropped the command.                                                    *)
CommandRuns(c) ==
    /\ cmds[c].step = "begun" /\ reachable
    /\ \/ Takes(c) /\ Ends(c, "ok", TRUE) /\ UNCHANGED budget
       \/ /\ Ends(c, "ok", FALSE) /\ UNCHANGED power
          /\ \/ cmds[c].dev \notin attached /\ UNCHANGED budget
             \/ cmds[c].dev \in attached /\ Fault
    /\ UNCHANGED <<attached, reachable, usage, cache, refresh, shown>>

(* An error of the connection, before the device has taken the command or  *)
(* after.                                                                  *)
CommandErrs(c) ==
    /\ cmds[c].step = "begun"
    /\ \/ /\ ~reachable
          /\ Ends(c, "failed", FALSE) /\ UNCHANGED <<power, budget>>
       \/ /\ reachable /\ Fault
          /\ \/ Ends(c, "failed", FALSE) /\ UNCHANGED power
             \/ Ends(c, "failed", TRUE) /\ Takes(c)
    /\ UNCHANGED <<attached, reachable, usage, cache, refresh, shown>>

EvenIfFailed(c) == TRUE                  \* faulty: ok is not looked at

Acknowledged(c) == cmds[c].step = "ok"

CommandReturns(c) ==
    /\ cmds[c].step \in {"ok", "failed"}
    /\ cmds' = [cmds EXCEPT ![c].step = "over"]
    /\ IF Acknowledged(c)
       THEN /\ is_on' = [is_on EXCEPT ![cmds[c].dev] = cmds[c].on]
            /\ Notify(known, is_on')
       ELSE UNCHANGED <<known, is_on, success, shown>>
    /\ UNCHANGED <<world, due, refresh, budget>>
------------------------------------------------------------------------------
Environment ==
    \/ OwnerChanges \/ DeviceGoes \/ DeviceComes
    \/ HubGoes \/ HubComes \/ TimePasses

Refresh ==
    \/ RefreshCached \/ RefreshSearches \/ SearchAnswers
    \/ DiscoveryFails \/ DiscoveryMerges \/ ReadsEnd

Command ==
    \E c \in Commands :
        \/ BeginCommand(c) \/ CommandRuns(c)
        \/ CommandErrs(c) \/ CommandReturns(c)

Next == Environment \/ Refresh \/ Command

Spec == Init /\ [][Next]_vars

(* Threads end by their socket timeouts, and the timers go on.             *)
Fairness ==
    /\ WF_vars(TimePasses)
    /\ WF_vars(RefreshSearches) /\ WF_vars(SearchAnswers)
    /\ WF_vars(DiscoveryFails \/ DiscoveryMerges) /\ WF_vars(ReadsEnd)
    /\ \A c \in Commands : /\ WF_vars(CommandRuns(c) \/ CommandErrs(c))
                           /\ WF_vars(CommandReturns(c))

FairSpec == Spec /\ Fairness
==============================================================================
