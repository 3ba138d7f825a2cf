----------------------------- MODULE GyreSettings -----------------------------
(***************************************************************************)
(* The settings a coordinator saves for a Gyre controller (coordinator.py: *)
(* _remember_settings, async_load_settings, async_refresh_program), over   *)
(* several lives of the process.                                           *)
(*                                                                         *)
(* Of the settings two are kept: Auto, the schedule, which is replaced by  *)
(* any valid one, and Model, a pump model, which is not to change.  What   *)
(* reports and cloud answers hold is arbitrary: both are as old as they    *)
(* please.                                                                 *)
(***************************************************************************)
EXTENDS Naturals

CONSTANTS
    Schedules,      \* programmes decode_program accepts
    Unreadable,     \* one it does not
    Models,         \* 0 and 1
    None,           \* Python's None, or an attribute that is not there
    Entries,        \* config entries: cloud credentials, configured pump model
    MaxGeneration   \* bound on the valid schedules reported in one life

ASSUME GyreSettingsAssumption ==
    /\ Unreadable \notin Schedules
    /\ None \notin Schedules \union Models \union {Unreadable}
    /\ Entries \subseteq [cloud : BOOLEAN, model : Models \union {None}]
    /\ MaxGeneration \in Nat

VARIABLES
    entry,            \* config_entry
    model,            \* client.state.model_a, None until initialized
    heard,            \* client.received_attribute_names
    saved,            \* saved_settings
    received,         \* settings_received["Auto"], see Ages
    generation,       \* _program_generation
    refresh_status,
    refresh,          \* where async_refresh_program awaits
    save_pending,     \* async_delay_save is to write in 2 s
    store,            \* what _program_store holds on disk
    leaving,          \* async_shutdown has written the store, and goes on
    old               \* what is left of the coordinator before a reload

client   == <<model, heard>>
settings == <<saved, received, generation, save_pending>>
button   == <<refresh_status, refresh>>
passing  == <<leaving, old>>
vars     == <<entry, client, settings, button, store, passing>>

Attrs    == [Auto  : Schedules \union {Unreadable, None},
             Model : Models \union {None}]
Settings == [Auto : Schedules \union {None}, Model : Models \union {None}]

(* A timestamp, by the last press of the refresh button in this life.      *)
Ages == {"never", "before", "since"}
Aged(age) == IF age = "since" THEN "before" ELSE age

Statuses == {"awaiting", "requesting", "received", "none fresh", "failed"}
Steps    == {"idle", "request", "wait", "cloud"}
Idle     == [step |-> "idle", before |-> 0]
Stored   == [settings : Settings, received : Ages]

TypeOK ==
    /\ entry \in Entries
    /\ model \in Models \union {None}
    /\ heard \subseteq {"Auto", "Model"}
    /\ saved \in Settings
    /\ received \in Ages
    /\ generation \in Nat
    /\ refresh_status \in Statuses
    /\ refresh \in [step : Steps, before : Nat]
    /\ save_pending \in BOOLEAN
    /\ store \in Stored
    /\ leaving \in BOOLEAN
    /\ old \in [works : BOOLEAN, save_pending : BOOLEAN, memory : Stored]

SavedFirst(s) ==                         \* faulty: the option comes second
    IF s.Model # None THEN s.Model ELSE entry.model

(* An old coordinator that has nothing left to do.                         *)
Gone(memory) == [works |-> FALSE, save_pending |-> FALSE, memory |-> memory]

(* The model at the start of a life: configured, else saved.               *)
InitialModel(s) == IF entry.model # None THEN entry.model ELSE s.Model

Init ==
    /\ entry \in Entries
    /\ store = [settings |-> [Auto |-> None, Model |-> None],
                received |-> "never"]
    /\ saved = store.settings
    /\ model = InitialModel(saved)
    /\ received = "never"
    /\ heard = {}
    /\ generation = 0
    /\ refresh_status = "awaiting"
    /\ refresh = Idle
    /\ save_pending = FALSE
    /\ leaving = FALSE
    /\ old = Gone(store)
------------------------------------------------------------------------------
(* _remember_settings.                                                     *)
Valid(a) == a.Auto \in Schedules

RememberedUnread(s, a) ==                \* faulty: any programme
    [Auto  |-> IF a.Auto # None THEN a.Auto ELSE s.Auto,
     Model |-> IF a.Model # None THEN a.Model ELSE s.Model]

Remembered(s, a) ==
    [Auto  |-> IF Valid(a) THEN a.Auto ELSE s.Auto,
     Model |-> IF a.Model # None THEN a.Model ELSE s.Model]

ChangedSchedule(a) == Valid(a)           \* faulty: a model is not written

Changed(a) == Valid(a) \/ a.Model # None

CountsAny(a, fresh) == Valid(a)          \* faulty: the cloud's count too

Counts(a, fresh) == fresh /\ Valid(a)

Timestamp(age, a, fresh) == IF fresh /\ Valid(a) THEN "since" ELSE age

Remember(a, fresh) ==
    /\ saved' = Remembered(saved, a)
    /\ received' = Timestamp(received, a, fresh)
    /\ generation' = IF Counts(a, fresh) THEN generation + 1 ELSE generation
    /\ save_pending' = (save_pending \/ Changed(a))

(* apply_attributes, as far as the model goes: the first one stays.        *)
ApplyModel(a) == model' = IF model = None THEN a.Model ELSE model
------------------------------------------------------------------------------
(* A report on the LAN.                                                    *)
ReportArrives ==
    \E a \in Attrs :
        /\ Valid(a) => generation < MaxGeneration
        /\ ApplyModel(a)
        /\ heard' = heard \union {k \in {"Auto", "Model"} : a[k] # None}
        /\ Remember(a, TRUE)
        /\ UNCHANGED <<entry, button, store, passing>>

(* The refresh of the coordinator without LAN status: whatever the cloud   *)
(* answers is merged.                                                      *)
FallbackSeeds ==
    \E a \in Attrs :
        /\ entry.cloud
        /\ ApplyModel(a)
        /\ Remember(a, FALSE)
        /\ UNCHANGED <<entry, heard, button, store, passing>>

Memory == [settings |-> saved, received |-> received]

DelayedSave ==
    /\ save_pending
    /\ save_pending' = FALSE
    /\ store' = Memory
    /\ UNCHANGED <<entry, client, saved, received, generation, button, passing>>
------------------------------------------------------------------------------
(* async_refresh_program, under _program_refresh_lock.                     *)
Press ==
    /\ refresh = Idle /\ ~leaving
    /\ refresh' = [step |-> "request", before |-> generation]
    /\ refresh_status' = "requesting"
    /\ received' = Aged(received)
    /\ store' = [store EXCEPT !.received = Aged(@)]
    /\ old' = [old EXCEPT !.memory.received = Aged(@)]
    /\ UNCHANGED <<entry, client, saved, generation, save_pending, leaving>>

Ends(status) == refresh' = Idle /\ refresh_status' = status

Arrived == generation # refresh.before

(* Connected or connecting, the read requests are sent.                    *)
RequestSent ==
    /\ refresh.step = "request"
    /\ refresh' = [refresh EXCEPT !.step = "wait"]
    /\ UNCHANGED <<entry, client, settings, refresh_status, store, passing>>

RequestFails ==
    /\ refresh.step = "request"
    /\ Ends("failed")
    /\ UNCHANGED <<entry, client, settings, store, passing>>

(* One of the ten looks at the generation sees a schedule, or none does.   *)
ScheduleSeen ==
    /\ refresh.step = "wait" /\ Arrived
    /\ Ends("received")
    /\ UNCHANGED <<entry, client, settings, store, passing>>

NoneSeen ==
    /\ refresh.step = "wait" /\ ~Arrived
    /\ refresh' = [refresh EXCEPT !.step = "cloud"]
    /\ UNCHANGED <<entry, client, settings, refresh_status, store, passing>>

Everything(a) == a                       \* faulty: no filter

(* What the controller has reported in this life is not taken from the     *)
(* cloud.  The filter is applied to the answer, after the await.           *)
Unheard(a) == [k \in {"Auto", "Model"} |-> IF k \in heard THEN None ELSE a[k]]

EndsByGeneration ==
    Ends(IF Arrived THEN "received" ELSE "none fresh")

SeedFromCloud ==
    \E a \in Attrs :
        /\ refresh.step = "cloud" /\ entry.cloud
        /\ ApplyModel(Unheard(a))
        /\ Remember(Unheard(a), FALSE)
        /\ EndsByGeneration
        /\ UNCHANGED <<entry, heard, store, passing>>

(* No cloud, a GizwitsCloudError, or an answer without attributes.         *)
SeedSkipped ==
    /\ refresh.step = "cloud"
    /\ EndsByGeneration
    /\ UNCHANGED <<entry, client, settings, store, passing>>

SeedFails ==                             \* an OSError
    /\ refresh.step = "cloud" /\ entry.cloud
    /\ Ends("failed")
    /\ UNCHANGED <<entry, client, settings, store, passing>>

(* Any other error goes up with the status as it was.                      *)
SeedBreaks ==
    /\ refresh.step = "cloud" /\ entry.cloud
    /\ Ends(refresh_status)
    /\ UNCHANGED <<entry, client, settings, store, passing>>
------------------------------------------------------------------------------
(* A new coordinator: __init__ and async_load_settings.                    *)
NewLife(disk) ==
    /\ saved' = disk.settings
    /\ received' = Aged(disk.received)
    /\ store' = [disk EXCEPT !.received = Aged(@)]
    /\ model' = InitialModel(disk.settings)
    /\ heard' = {}
    /\ generation' = 0
    /\ Ends("awaiting")
    /\ save_pending' = FALSE
    /\ leaving' = FALSE
    /\ UNCHANGED entry

Crash ==
    /\ NewLife(store)
    /\ old' = Gone(store')

(* async_shutdown: the store is written at once, and until the client is   *)
(* disconnected reports are still merged.  Bound: one old coordinator at   *)
(* work.                                                                   *)
Unload ==
    /\ ~leaving /\ ~old.works /\ ~old.save_pending
    /\ leaving' = TRUE
    /\ save_pending' = FALSE
    /\ store' = Memory
    /\ UNCHANGED <<entry, client, saved, received, generation, button, old>>

(* Nothing cancels a write that is due, a press or a command under way.    *)
Reload ==
    /\ leaving
    /\ NewLife(store)
    /\ \E works \in {TRUE, refresh # Idle} :
          old' = [works        |-> works,
                  save_pending |-> save_pending,
                  memory       |-> [Memory EXCEPT !.received = Aged(@)]]

(* What outlives its entry connects the old client again, or asks the      *)
(* cloud.  What the old client has heard is not followed.                  *)
OldRemembers ==
    \E a \in Attrs, fresh \in BOOLEAN :
        /\ old.works /\ (fresh \/ entry.cloud)
        /\ old' = [old EXCEPT
              !.memory = [settings |-> Remembered(@.settings, a),
                          received |-> Timestamp(@.received, a, fresh)],
              !.save_pending = @ \/ Changed(a)]
        /\ UNCHANGED <<entry, client, settings, button, store, leaving>>

OldEnds ==
    /\ old.works
    /\ old' = [old EXCEPT !.works = FALSE]
    /\ UNCHANGED <<entry, client, settings, button, store, leaving>>

OldSaves ==
    /\ old.save_pending
    /\ old' = [old EXCEPT !.save_pending = FALSE]
    /\ store' = old.memory
    /\ UNCHANGED <<entry, client, settings, button, leaving>>

Next ==
    \/ ReportArrives \/ FallbackSeeds \/ DelayedSave
    \/ Press \/ RequestSent \/ RequestFails \/ ScheduleSeen \/ NoneSeen
    \/ SeedFromCloud \/ SeedSkipped \/ SeedFails \/ SeedBreaks
    \/ Crash \/ Unload \/ Reload
    \/ OldRemembers \/ OldEnds \/ OldSaves

Spec == Init /\ [][Next]_vars
==============================================================================
