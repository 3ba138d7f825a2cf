---------------------------- MODULE Entries_proofs ---------------------------
(***************************************************************************)
(* No address is configured twice; the entities of an entry fit what it    *)
(* knows; and what the user hides stays hidden: for any number of flows,   *)
(* hosts, entities, devices and platforms.                                 *)
(***************************************************************************)
EXTENDS ConfigFlow, Entities, TLAPS

EntriesInv == entries \in [UniqueIds -> Nat] /\ OneEntryPerAddress

(* Every step of a flow keeps the unique ids unique.                       *)
LEMMA FlowStepKeepsIds == EntriesInv /\ [FlowNext]_flowVars => EntriesInv'
<1> SUFFICES ASSUME EntriesInv, [FlowNext]_flowVars PROVE EntriesInv'
  OBVIOUS
<1>1. ASSUME UNCHANGED entries PROVE EntriesInv'
  BY <1>1 DEF EntriesInv, OneEntryPerAddress
<1>2. ASSUME NEW f \in Flows, NEW check, NEW u, Finishes(f, check, u) PROVE EntriesInv'
  <2>1. CASE u \notin UniqueIds
    <3>1. entries' = entries
      BY <1>2, <2>1 DEF Finishes, EntriesInv
    <3> QED BY <3>1, <1>1
  <2>2. CASE u \in UniqueIds /\ entries[u] > 0
    BY <1>2, <2>2, <1>1 DEF Finishes, Configured
  <2>3. CASE u \in UniqueIds /\ ~(entries[u] > 0)
    <3>1. entries' = [entries EXCEPT ![u] = @ + 1]
      BY <1>2, <2>3 DEF Finishes, Configured
    <3>2. entries[u] = 0
      BY <2>3 DEF EntriesInv
    <3> QED BY <3>1, <3>2, <2>3 DEF EntriesInv, OneEntryPerAddress
  <2> QED BY <2>1, <2>2, <2>3
<1>3. ASSUME NEW u \in UniqueIds, Deletes(u) PROVE EntriesInv'
  BY <1>3 DEF Deletes, EntriesInv, OneEntryPerAddress
<1>4. CASE UNCHANGED flowVars
  BY <1>4, <1>1 DEF flowVars
<1>5. CASE FlowNext
  <2>1. ASSUME NEW f \in Flows,
               \/ Opens(f) \/ ChoosesProtocol(f) \/ Cancels(f) \/ LanChecked(f)
               \/ \E form \in Forms : CheckFails(f, form) \/ \E h \in Hosts : Submits(f, form, h)
        PROVE  EntriesInv'
    BY <2>1, <1>1 DEF Opens, ChoosesProtocol, Cancels, LanChecked, CheckFails, Submits
  <2> QED BY <1>5, <1>2, <1>3, <2>1 DEF FlowNext
<1> QED BY <1>4, <1>5

(* However many flows are open, and however their checks end, no unique id *)
(* has two entries (_abort_if_unique_id_configured).                       *)
THEOREM NeverTwice == FlowSpec => []OneEntryPerAddress
<1>1. FlowInit => EntriesInv
  BY DEF FlowInit, EntriesInv, OneEntryPerAddress
<1>2. EntriesInv => OneEntryPerAddress
  BY DEF EntriesInv
<1> QED BY <1>1, <1>2, FlowStepKeepsIds, PTL DEF FlowSpec
-----------------------------------------------------------------------------
Live == Diagnostics \union Flags

(* What holds of the Gyre's entities also while they are being set up.     *)
GyreInv ==
    /\ registry \in [Keys -> Statuses]
    /\ added \subseteq Live
    /\ \A k \in added : registry[k] # "absent"
    /\ \A k \in Flags \intersect added : registry[k] # "hidden"
    /\ life = "loaded" => added = Live /\ \A k \in Retired : registry[k] = "absent"

(* Publishing keeps statuses statuses, and absent what was absent.         *)
LEMMA PublishedFits ==
    ASSUME GyreInv, NEW values, registry' = Published(values),
           UNCHANGED <<life, added>>
    PROVE  GyreInv'
<1>1. ASSUME NEW k \in Keys
      PROVE  /\ registry'[k] \in Statuses
             /\ registry'[k] = "absent" <=> registry[k] = "absent"
             /\ k \in Flags \intersect added => registry'[k] # "hidden"
  BY <1>1, KeysAreDisjoint DEF GyreInv, Published, Synced, Missing, Statuses
<1>2. registry' \in [Keys -> Statuses]
  BY <1>1 DEF Published
<1> QED BY <1>1, <1>2 DEF GyreInv, Keys, Live

(* So does every step of the Gyre's entry.                                 *)
LEMMA GyreStepFits == GyreInv /\ [GyreNext]_gyreVars => GyreInv'
<1> SUFFICES ASSUME GyreInv, [GyreNext]_gyreVars PROVE GyreInv'
  OBVIOUS
<1>1. ASSUME UNCHANGED <<life, registry, added>> PROVE GyreInv'
  BY <1>1 DEF GyreInv
<1>2. CASE SetsUp
  BY <1>2 DEF GyreInv, SetsUp
<1>3. CASE NotReady
  BY <1>3 DEF GyreInv, NotReady
<1>4. CASE SetupEnds
  BY <1>4, KeysAreDisjoint DEF GyreInv, SetupEnds, WithoutRetired, Keys, Live, Statuses
<1>5. CASE Unloads
  BY <1>5 DEF GyreInv, Unloads
<1>6. ASSUME NEW k \in Live, AddsEntity(k) PROVE GyreInv'
  <2> DEFINE status == Synced(IF registry[k] = "absent" THEN "shown" ELSE registry[k],
                              Missing(k, reported))
  <2>1. k \in Keys /\ life' = "setup" /\ added' = added \union {k}
    BY <1>6 DEF AddsEntity, Keys, Live
  <2>2. registry' = [registry EXCEPT ![k] = status]
    BY <1>6 DEF AddsEntity
  <2>3. status \in Statuses \ {"absent"} /\ (k \in Flags => status # "hidden")
    BY <2>1, KeysAreDisjoint DEF GyreInv, Synced, Missing, Statuses
  <2> HIDE DEF status
  <2> QED BY <2>1, <2>2, <2>3 DEF GyreInv, Keys, Live
<1>7. ASSUME NEW k \in Diagnostics, NEW b \in BOOLEAN, Reports(k, b) \/ Seeds(k, b)
      PROVE  GyreInv'
  <2>1. UNCHANGED <<life, added>> /\ (registry' = registry \/ registry' = Published(reported'))
    BY <1>7 DEF Reports, Seeds
  <2> QED BY <2>1, <1>1, PublishedFits
<1>8. CASE CommandWritten \/ Refreshes
  BY <1>8, PublishedFits DEF CommandWritten, Refreshes
<1>9. CASE CooldownEnds
  BY <1>9, <1>1 DEF CooldownEnds
<1>10. ASSUME NEW k \in Keys, UserHides(k) \/ UserShows(k) PROVE GyreInv'
  <2>1. /\ UNCHANGED <<life, added>> /\ registry[k] # "absent"
        /\ \E s \in {"user", "shown"} : registry' = [registry EXCEPT ![k] = s]
    BY <1>10 DEF UserHides, UserShows
  <2> QED BY <2>1 DEF GyreInv, Keys, Live, Statuses
<1>11. CASE UNCHANGED gyreVars
  BY <1>11, <1>1 DEF gyreVars
<1> QED
  BY <1>2, <1>3, <1>4, <1>5, <1>6, <1>7, <1>8, <1>9, <1>10, <1>11 DEF GyreNext, Live

(* What holds of a hub's entities on every platform, also one that is not  *)
(* set up yet.                                                             *)
HubInv ==
    /\ devices \subseteq Devices
    /\ known \in [Platforms -> SUBSET Devices]
    /\ made \in [Platforms -> [Devices -> Nat]]
    /\ listening \subseteq Platforms
    /\ \A p \in Platforms : known[p] = IF p \in listening THEN devices ELSE {}
    /\ \A p \in Platforms, d \in Devices : made[p][d] = IF d \in known[p] THEN 1 ELSE 0

(* Entities are made for exactly what a platform did not know.             *)
LEMMA AddsOnlyNew ==
    ASSUME HubInv, NEW ps \in SUBSET Platforms, NEW ds \in SUBSET Devices, AddsNew(ps, ds)
    PROVE  /\ known' \in [Platforms -> SUBSET Devices]
           /\ made' \in [Platforms -> [Devices -> Nat]]
           /\ \A p \in Platforms : known'[p] = IF p \in ps THEN known[p] \union ds ELSE known[p]
           /\ \A p \in Platforms, d \in Devices : made'[p][d] = IF d \in known'[p] THEN 1 ELSE 0
<1>1. \A p \in Platforms : known'[p] = IF p \in ps THEN known[p] \union ds ELSE known[p]
  BY DEF AddsNew, NewIds
<1>2. known' \in [Platforms -> SUBSET Devices]
  BY DEF AddsNew, NewIds, HubInv
<1>3. ASSUME NEW p \in Platforms, NEW d \in Devices
      PROVE  made'[p][d] = IF d \in known'[p] THEN 1 ELSE 0
  <2>1. made'[p][d] = IF p \in ps /\ d \in ds \ known[p] THEN made[p][d] + 1 ELSE made[p][d]
    BY DEF AddsNew, NewIds
  <2>2. made[p][d] = IF d \in known[p] THEN 1 ELSE 0
    BY DEF HubInv
  <2>3. d \in known'[p] <=> (d \in known[p] \/ (p \in ps /\ d \in ds))
    BY <1>1
  <2>4. CASE d \in known[p]
    BY <2>1, <2>2, <2>3, <2>4
  <2>5. CASE d \notin known[p]
    <3>1. made[p][d] = 0
      BY <2>2, <2>5
    <3>2. CASE p \in ps /\ d \in ds
      BY <2>1, <2>3, <2>5, <3>1, <3>2
    <3>3. CASE ~(p \in ps /\ d \in ds)
      BY <2>1, <2>3, <2>5, <3>1, <3>3
    <3> QED BY <3>2, <3>3
  <2> QED BY <2>4, <2>5
<1>4. made' \in [Platforms -> [Devices -> Nat]]
  BY DEF AddsNew, HubInv
<1> QED BY <1>1, <1>2, <1>3, <1>4

(* So does every step of the hub's entry.                                  *)
LEMMA HubStepFits == HubInv /\ [HubNext]_hubVars => HubInv'
<1> SUFFICES ASSUME HubInv, [HubNext]_hubVars PROVE HubInv'
  OBVIOUS
<1>1. CASE UNCHANGED hubVars \/ HubSetsUp
  BY <1>1 DEF HubInv, hubVars, HubSetsUp
<1>2. CASE HubUnloads
  BY <1>2 DEF HubInv, HubUnloads
<1>3. ASSUME NEW p \in Platforms, PlatformSetsUp(p) PROVE HubInv'
  <2>1. /\ p \notin listening /\ listening' = listening \union {p}
        /\ AddsNew({p}, devices) /\ devices' = devices
    BY <1>3 DEF PlatformSetsUp
  <2>2. {p} \in SUBSET Platforms /\ devices \in SUBSET Devices
    BY DEF HubInv
  <2>3. /\ known' \in [Platforms -> SUBSET Devices]
        /\ made' \in [Platforms -> [Devices -> Nat]]
        /\ \A q \in Platforms : known'[q] = IF q \in {p} THEN known[q] \union devices ELSE known[q]
        /\ \A q \in Platforms, d \in Devices : made'[q][d] = IF d \in known'[q] THEN 1 ELSE 0
    BY <2>1, <2>2, AddsOnlyNew
  <2>4. \A q \in Platforms : known'[q] = IF q \in listening' THEN devices' ELSE {}
    BY <2>1, <2>3 DEF HubInv
  <2> QED BY <2>1, <2>3, <2>4 DEF HubInv
<1>4. ASSUME NEW found \in SUBSET Devices, Discovers(found) PROVE HubInv'
  <2>1. listening' = listening /\ devices' = devices \union found /\ AddsNew(listening, devices')
    BY <1>4 DEF Discovers
  <2>2. listening \in SUBSET Platforms /\ devices' \in SUBSET Devices
    BY <2>1 DEF HubInv
  <2>3. AddsNew(listening, devices \union found) /\ devices \union found \in SUBSET Devices
    BY <2>1, <2>2
  <2>4. /\ known' \in [Platforms -> SUBSET Devices]
        /\ made' \in [Platforms -> [Devices -> Nat]]
        /\ \A p \in Platforms :
             known'[p] = IF p \in listening THEN known[p] \union (devices \union found) ELSE known[p]
        /\ \A p \in Platforms, d \in Devices : made'[p][d] = IF d \in known'[p] THEN 1 ELSE 0
    BY <2>2, <2>3, AddsOnlyNew
  <2>5. \A p \in Platforms : known'[p] = IF p \in listening' THEN devices' ELSE {}
    BY <2>1, <2>4 DEF HubInv
  <2> QED BY <2>1, <2>2, <2>4, <2>5 DEF HubInv
<1> QED BY <1>1, <1>2, <1>3, <1>4 DEF HubNext

(* Both hold always.                                                       *)
LEMMA EntitiesInvariant == EntitiesSpec => [](GyreInv /\ HubInv)
<1>1. GyreInit /\ HubInit => GyreInv /\ HubInv
  BY DEF GyreInit, HubInit, GyreInv, HubInv
<1>2. GyreInv /\ HubInv /\ [EntitiesNext]_<<gyreVars, hubVars>> => GyreInv' /\ HubInv'
  BY GyreStepFits, HubStepFits DEF EntitiesNext
<1> QED BY <1>1, <1>2, PTL DEF EntitiesSpec

(* A loaded entry has all of its entities and none that is retired, and a  *)
(* device of a hub has its entities once (_async_setup_gizwits, known_ids).*)
THEOREM EntitiesAlwaysFit == EntitiesSpec => []EntitiesFit
<1>1. GyreInv /\ HubInv => EntitiesFit
  <2> SUFFICES ASSUME GyreInv, HubInv PROVE EntitiesFit
    OBVIOUS
  <2>1. life = "loaded" =>
          /\ \A k \in Diagnostics \union Flags : k \in added /\ registry[k] # "absent"
          /\ \A k \in Retired : registry[k] = "absent"
          /\ \A k \in Flags : registry[k] # "hidden"
    BY DEF GyreInv, Live
  <2>2. \A p \in listening, d \in Devices : made[p][d] = IF d \in devices THEN 1 ELSE 0
    BY DEF HubInv
  <2> QED BY <2>1, <2>2 DEF EntitiesFit
<1> QED BY <1>1, EntitiesInvariant, PTL

(* Only the user shows again what the user has hidden (_sync_visibility).  *)
THEOREM UserDecides == EntitiesSpec => HiddenByUserStays
<1>1. GyreInv /\ [EntitiesNext]_<<gyreVars, hubVars>>
      => [\A k \in Diagnostics \union Flags :
            registry[k] = "user" => registry'[k] = "user" \/ UserShows(k)]_<<gyreVars, hubVars>>
  <2> SUFFICES ASSUME GyreInv, EntitiesNext, NEW k \in Live, registry[k] = "user",
                      ~UserShows(k)
               PROVE  registry'[k] = "user"
    BY DEF Live
  <2>1. k \in Keys /\ k \notin Retired /\ registry \in [Keys -> Statuses]
    BY KeysAreDisjoint DEF Live, Keys, GyreInv
  <2>2. CASE UNCHANGED registry
    BY <2>2
  <2>3. ASSUME NEW values, registry' = Published(values) PROVE registry'[k] = "user"
    BY <2>1, <2>3 DEF Published, Synced
  <2>4. CASE SetupEnds
    BY <2>1, <2>4 DEF SetupEnds, WithoutRetired
  <2>5. ASSUME NEW j \in Live, AddsEntity(j) PROVE registry'[k] = "user"
    <3>1. CASE j = k
      BY <2>1, <2>5, <3>1 DEF AddsEntity, Synced
    <3>2. CASE j # k
      BY <2>1, <2>5, <3>2 DEF AddsEntity
    <3> QED BY <3>1, <3>2
  <2>6. ASSUME NEW j \in Keys, UserHides(j) \/ UserShows(j) PROVE registry'[k] = "user"
    <3>1. CASE UserHides(j)
      BY <2>1, <3>1 DEF UserHides
    <3>2. CASE UserShows(j)
      BY <2>1, <3>2 DEF UserShows
    <3> QED BY <2>6, <3>1, <3>2
  <2>7. CASE HubNext /\ UNCHANGED gyreVars
    BY <2>7, <2>2 DEF gyreVars
  <2>8. CASE GyreNext
    <3>1. ASSUME NEW j \in Diagnostics, NEW b \in BOOLEAN, Reports(j, b) \/ Seeds(j, b)
          PROVE  registry'[k] = "user"
      BY <3>1, <2>2, <2>3 DEF Reports, Seeds
    <3>2. CASE SetsUp \/ NotReady \/ Unloads \/ CooldownEnds
      BY <3>2, <2>2 DEF SetsUp, NotReady, Unloads, CooldownEnds
    <3>3. CASE CommandWritten \/ Refreshes
      BY <3>3, <2>3 DEF CommandWritten, Refreshes
    <3> QED BY <2>8, <2>4, <2>5, <2>6, <3>1, <3>2, <3>3 DEF GyreNext, Live
  <2> QED BY <2>7, <2>8 DEF EntitiesNext
<1> QED BY <1>1, EntitiesInvariant, PTL DEF EntitiesSpec, HiddenByUserStays
==============================================================================
