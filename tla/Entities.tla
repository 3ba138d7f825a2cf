------------------------------- MODULE Entities ------------------------------
(***************************************************************************)
(* The entities of an entry, over its lives: for a Gyre the diagnostics    *)
(* that are hidden while nothing was reported for them (entity.py) and the *)
(* removal of retired ones (__init__.py), for an ICV6 hub the entities     *)
(* that are added as devices are found (sensor.py, switch.py).             *)
(***************************************************************************)
EXTENDS Naturals

CONSTANTS
    Diagnostics,   \* entities that are missing until their value is reported
    Flags,         \* binary sensors that are always shown: data points 3 to 6
    Retired,       \* entities of an older version: GYRE_INTERNAL_ONLY_DPS
    Devices,       \* the devices of a hub
    Platforms      \* sensor and switch

ASSUME KeysAreDisjoint ==
    /\ Diagnostics \intersect Flags = {}
    /\ (Diagnostics \union Flags) \intersect Retired = {}

Keys     == Diagnostics \union Flags \union Retired
Statuses == {"absent", "shown", "hidden", "user"}

VARIABLES
    life,          \* of the Gyre's entry: "none", "setup" or "loaded"
    registry,      \* status of each entity; "user" is hidden by the user
    added,         \* entities that listen to the coordinator
    reported,      \* diagnostics that have a value
    cooldown,      \* within _write_lock_until
    running,       \* the hub's coordinator is there
    devices,       \* the keys of its data
    listening,     \* platforms that listen to it
    known,         \* known_ids of each platform
    made           \* how often a platform made entities for a device

gyreVars == <<life, registry, added, reported, cooldown>>
hubVars  == <<running, devices, listening, known, made>>

GyreInit ==
    /\ life = "none" /\ added = {} /\ reported = {} /\ cooldown = FALSE
    /\ registry \in [Keys -> Statuses]       \* left by an older version

Missing(k, values) == k \in Diagnostics /\ k \notin values

(* _sync_visibility.                                                       *)
SyncedForAll(status, missing) ==         \* faulty: does not look who hid it
    IF status = "absent" THEN status ELSE IF missing THEN "hidden" ELSE "shown"
HiddenForGood(status, missing) ==        \* faulty: never shows it again
    IF status = "shown" /\ missing THEN "hidden" ELSE status
Synced(status, missing) ==
    IF status \in {"absent", "user"} THEN status
    ELSE IF missing THEN "hidden" ELSE "shown"

(* _handle_coordinator_update of the entities that listen.                 *)
Published(values) ==
    [k \in Keys |-> IF k \in added THEN Synced(registry[k], Missing(k, values))
                    ELSE registry[k]]

(* async_setup_entry: a new coordinator restores saved settings.           *)
SetsUp ==
    /\ life = "none" /\ life' = "setup"
    /\ reported' \in SUBSET Diagnostics
    /\ UNCHANGED <<registry, added, cooldown>>

(* ConfigEntryNotReady, before the platforms are set up.                   *)
NotReady ==
    /\ life = "setup" /\ added = {}
    /\ life' = "none" /\ reported' = {}
    /\ UNCHANGED <<registry, added, cooldown>>

(* async_added_to_hass: an entity that is new is registered first.         *)
AddsEntity(k) ==
    /\ life = "setup" /\ k \notin added
    /\ added' = added \union {k}
    /\ registry' = [registry EXCEPT ![k] =
                      Synced(IF @ = "absent" THEN "shown" ELSE @, Missing(k, reported))]
    /\ UNCHANGED <<life, reported, cooldown>>

(* _async_setup_gizwits, after its platforms.                              *)
LeavesRetired == registry                \* faulty
WithoutRetired == [k \in Keys |-> IF k \in Retired THEN "absent" ELSE registry[k]]

SetupEnds ==
    /\ life = "setup" /\ added = Diagnostics \union Flags
    /\ life' = "loaded"
    /\ registry' = WithoutRetired
    /\ UNCHANGED <<added, reported, cooldown>>

(* A report is merged, and published unless it comes within the cooldown   *)
(* of a command it does not confirm (_on_device_push).                     *)
Reports(k, confirms) ==
    /\ life # "none"
    /\ reported' = reported \union {k}
    /\ cooldown' = (cooldown /\ ~confirms)
    /\ registry' = IF cooldown' THEN registry ELSE Published(reported')
    /\ UNCHANGED <<life, added>>

(* A cloud answer is merged; when it holds no mode a fallback raises before *)
(* it is published (async_seed_from_cloud).                                *)
Seeds(k, raises) ==
    /\ life # "none"
    /\ reported' = reported \union {k}
    /\ registry' = IF raises THEN registry ELSE Published(reported')
    /\ UNCHANGED <<life, added, cooldown>>

(* A command is written and shown; its cooldown runs out.                  *)
CommandWritten ==
    /\ life = "loaded"
    /\ cooldown' = TRUE
    /\ registry' = Published(reported)
    /\ UNCHANGED <<life, added, reported>>

CooldownEnds == cooldown /\ cooldown' = FALSE /\ UNCHANGED <<life, registry, added, reported>>

(* A refresh that gets its answer updates all listeners, also within the   *)
(* cooldown.                                                               *)
Refreshes ==
    /\ life = "loaded"
    /\ registry' = Published(reported)
    /\ UNCHANGED <<life, added, reported, cooldown>>

(* async_unload_entry, for a reload or a restart.                          *)
Unloads ==
    /\ life = "loaded" /\ life' = "none"
    /\ added' = {} /\ reported' = {} /\ cooldown' = FALSE
    /\ UNCHANGED registry

UserHides(k) ==
    /\ registry[k] \in {"shown", "hidden"}
    /\ registry' = [registry EXCEPT ![k] = "user"]
    /\ UNCHANGED <<life, added, reported, cooldown>>

UserShows(k) ==
    /\ registry[k] \in {"user", "hidden"}
    /\ registry' = [registry EXCEPT ![k] = "shown"]
    /\ UNCHANGED <<life, added, reported, cooldown>>

GyreNext ==
    \/ SetsUp \/ NotReady \/ SetupEnds \/ Unloads
    \/ \E k \in Diagnostics \union Flags : AddsEntity(k)
    \/ \E k \in Diagnostics, b \in BOOLEAN : Reports(k, b) \/ Seeds(k, b)
    \/ CommandWritten \/ CooldownEnds \/ Refreshes
    \/ \E k \in Keys : UserHides(k) \/ UserShows(k)
-----------------------------------------------------------------------------
HubInit ==
    /\ running = FALSE /\ devices = {} /\ listening = {}
    /\ known = [p \in Platforms |-> {}]
    /\ made  = [p \in Platforms |-> [d \in Devices |-> 0]]

(* _async_setup_icv6, when the hub can be reached: no data yet.            *)
HubSetsUp ==
    /\ ~running /\ running' = TRUE
    /\ UNCHANGED <<devices, listening, known, made>>

(* _add_new_icv6_sensors and _add_new_icv6_switches, of platforms ps when  *)
(* the coordinator has found ds.                                           *)
AllIds(p, ds) == ds                      \* faulty: does not look at known_ids
NewIds(p, ds) == ds \ known[p]

AddsNew(ps, ds) ==
    /\ known' = [p \in Platforms |-> IF p \in ps THEN known[p] \union NewIds(p, ds) ELSE known[p]]
    /\ made'  = [p \in Platforms |-> [d \in Devices |->
                   IF p \in ps /\ d \in NewIds(p, ds) THEN made[p][d] + 1 ELSE made[p][d]]]

(* The entities of what is there already, then those of every update.      *)
PlatformSetsUp(p) ==
    /\ running /\ p \notin listening
    /\ listening' = listening \union {p}
    /\ AddsNew({p}, devices)
    /\ UNCHANGED <<running, devices>>

Discovers(found) ==
    /\ running
    /\ devices' = devices \union found
    /\ AddsNew(listening, devices')
    /\ UNCHANGED <<running, listening>>

(* Platforms, coordinator and entities go; the registry keeps the entities.*)
HubUnloads ==
    /\ running /\ running' = FALSE
    /\ devices' = {} /\ listening' = {}
    /\ known' = [p \in Platforms |-> {}]
    /\ made'  = [p \in Platforms |-> [d \in Devices |-> 0]]

HubNext ==
    \/ HubSetsUp \/ HubUnloads
    \/ \E p \in Platforms : PlatformSetsUp(p)
    \/ \E found \in SUBSET Devices : Discovers(found)
-----------------------------------------------------------------------------
EntitiesNext ==
    \/ GyreNext /\ UNCHANGED hubVars
    \/ HubNext /\ UNCHANGED gyreVars

EntitiesSpec == GyreInit /\ HubInit /\ [][EntitiesNext]_<<gyreVars, hubVars>>

(* The coordinator polls every 30 s; no other step has to come.            *)
RefreshFair == WF_<<gyreVars, hubVars>>(Refreshes /\ UNCHANGED hubVars)
-----------------------------------------------------------------------------
(* Once an entry is loaded its entities are all there, those of an older   *)
(* version are gone, and one that has no value to wait for is not hidden   *)
(* by the integration; and a device of a hub has its entities once on      *)
(* every platform, whether it was found before the platform was set up,    *)
(* after it, or again and again (_async_setup_gizwits, known_ids).         *)
EntitiesFit ==
    /\ life = "loaded" =>
         /\ \A k \in Diagnostics \union Flags : k \in added /\ registry[k] # "absent"
         /\ \A k \in Retired : registry[k] = "absent"
         /\ \A k \in Flags : registry[k] # "hidden"
    /\ \A p \in listening, d \in Devices : made[p][d] = IF d \in devices THEN 1 ELSE 0

(* An entity that the user has hidden stays so through reports, refreshes, *)
(* reloads and restarts, until the user shows it or it is retired          *)
(* (_sync_visibility, and README.md: "A user-hidden entity remains hidden  *)
(* when new reports arrive").                                              *)
HiddenByUserStays ==
    [][ \A k \in Diagnostics \union Flags :
          registry[k] = "user" => registry'[k] = "user" \/ UserShows(k) ]_<<gyreVars, hubVars>>

(* A value that was reported does not stay hidden: not even when the       *)
(* report came within a cooldown, or in a cloud answer that raised, and so *)
(* was merged and published to nobody (_on_device_push,                    *)
(* async_seed_from_cloud).                                                 *)
ReportedIsShown ==
    \A k \in Diagnostics :
        (life = "loaded" /\ k \in reported) ~> (life # "loaded" \/ registry[k] # "hidden")
==============================================================================
