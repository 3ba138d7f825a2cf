------------------------- MODULE GyreSettings_proofs -------------------------
(***************************************************************************)
(* Proofs about the saved settings, for all schedules, models, entries and *)
(* bounds.                                                                 *)
(***************************************************************************)
EXTENDS GyreSettingsProperties, TLAPS

USE GyreSettingsAssumption

(* A timestamp stays one when it ages, and is then no later than the press. *)
LEMMA AgedType ==
    ASSUME NEW age \in Ages
    PROVE  Aged(age) \in Ages /\ Aged(age) # "since"
  BY DEF Ages, Aged

(* What is remembered is valid.                                            *)
LEMMA RememberedType ==
    ASSUME NEW s \in Settings, NEW a \in Attrs
    PROVE  Remembered(s, a) \in Settings
  BY DEF Settings, Attrs, Remembered, Valid

(* The filter of a cloud answer leaves attributes, fewer of them.          *)
LEMMA UnheardType ==
    ASSUME NEW a \in Attrs
    PROVE  Unheard(a) \in Attrs
  BY DEF Attrs, Unheard

LEMMA RememberType ==
    ASSUME TypeOK, NEW a \in Attrs, NEW fresh \in BOOLEAN, Remember(a, fresh)
    PROVE  /\ saved' \in Settings /\ received' \in Ages
           /\ generation' \in Nat /\ save_pending' \in BOOLEAN
  <1>1. saved' \in Settings
    BY RememberedType DEF TypeOK, Remember
  <1>2. received' \in Ages
    BY DEF TypeOK, Remember, Timestamp, Ages
  <1>3. generation' \in Nat
    BY DEF TypeOK, Remember
  <1>4. save_pending' \in BOOLEAN
    BY DEF TypeOK, Remember
  <1>5. QED
    BY <1>1, <1>2, <1>3, <1>4

LEMMA ApplyModelType ==
    ASSUME TypeOK, NEW a \in Attrs, ApplyModel(a)
    PROVE  model' \in Models \union {None}
  BY DEF TypeOK, Attrs, ApplyModel

OldTypes == [works : BOOLEAN, save_pending : BOOLEAN, memory : Stored]

LEMMA GoneType ==
    ASSUME NEW memory \in Stored
    PROVE  Gone(memory) \in OldTypes
  BY DEF Gone, OldTypes

LEMMA NewLifeType ==
    ASSUME TypeOK, NewLife(store), old' \in OldTypes
    PROVE  TypeOK'
  <1>1. store.settings \in Settings /\ store.received \in Ages
    BY DEF TypeOK, Stored
  <1>2. Aged(store.received) \in Ages
    BY <1>1, AgedType
  <1>3. store' \in Stored
    BY <1>2 DEF NewLife, Stored, TypeOK
  <1>4. model' \in Models \union {None}
    BY <1>1 DEF NewLife, InitialModel, Settings, TypeOK
  <1>5. QED
    BY <1>1, <1>2, <1>3, <1>4
    DEF NewLife, TypeOK, OldTypes, Ends, Idle, Steps, Statuses

LEMMA AgedStore ==
    ASSUME NEW stored \in Stored
    PROVE  [stored EXCEPT !.received = Aged(@)] \in Stored
  BY AgedType DEF Stored

LEMMA MemoryType ==
    ASSUME TypeOK
    PROVE  Memory \in Stored
  BY DEF TypeOK, Stored, Memory

(* Only a coordinator before this one changes: what it remembers is valid  *)
(* too.                                                                    *)
LEMMA OldType ==
    ASSUME TypeOK, OldRemembers \/ OldEnds \/ OldSaves
    PROVE  old' \in OldTypes /\ store' \in Stored
  <1>1. CASE OldRemembers
    <2>1. PICK a \in Attrs, fresh \in BOOLEAN :
            old' = [old EXCEPT
              !.memory = [settings |-> Remembered(@.settings, a),
                          received |-> Timestamp(@.received, a, fresh)],
              !.save_pending = @ \/ Changed(a)]
      BY <1>1 DEF OldRemembers
    <2>2. Remembered(old.memory.settings, a) \in Settings
      BY RememberedType DEF TypeOK, Stored
    <2>3. Timestamp(old.memory.received, a, fresh) \in Ages
      BY DEF TypeOK, Stored, Timestamp, Ages
    <2>4. (old.save_pending \/ Changed(a)) \in BOOLEAN
      OBVIOUS
    <2>5. QED
      BY <1>1, <2>1, <2>2, <2>3, <2>4 DEF OldRemembers, TypeOK, OldTypes, Stored
  <1>2. CASE OldEnds \/ OldSaves
    BY <1>2 DEF OldEnds, OldSaves, TypeOK, OldTypes
  <1>3. QED
    BY <1>1, <1>2

(* Every step keeps the types.                                             *)
LEMMA TypeStep == TypeOK /\ [Next]_vars => TypeOK'
  <1> SUFFICES ASSUME TypeOK, [Next]_vars PROVE TypeOK'
    OBVIOUS
  <1>1. CASE ReportArrives
    <2>1. PICK a \in Attrs :
            /\ ApplyModel(a) /\ Remember(a, TRUE)
            /\ heard' = heard \union {k \in {"Auto", "Model"} : a[k] # None}
            /\ UNCHANGED <<entry, button, store, passing>>
      BY <1>1 DEF ReportArrives
    <2>2. QED
      BY <2>1, RememberType, ApplyModelType DEF TypeOK, button, passing
  <1>2. CASE FallbackSeeds
    <2>1. PICK a \in Attrs :
            /\ ApplyModel(a) /\ Remember(a, FALSE)
            /\ UNCHANGED <<entry, heard, button, store, passing>>
      BY <1>2 DEF FallbackSeeds
    <2>2. QED
      BY <2>1, RememberType, ApplyModelType DEF TypeOK, button, passing
  <1>3. CASE DelayedSave
    BY <1>3, MemoryType DEF DelayedSave, TypeOK, client, button, passing
  <1>4. CASE Press
    <2>1. store' \in Stored /\ received' \in Ages
      BY <1>4, AgedType DEF Press, TypeOK, Stored
    <2>2. [old.memory EXCEPT !.received = Aged(@)] \in Stored
      BY AgedStore DEF TypeOK
    <2>3. old' \in OldTypes
      BY <1>4, <2>2 DEF Press, TypeOK, OldTypes
    <2>4. QED
      BY <1>4, <2>1, <2>3 DEF Press, TypeOK, OldTypes, client, Steps, Statuses
  <1>5. CASE RequestSent \/ NoneSeen
    BY <1>5 DEF RequestSent, NoneSeen, TypeOK, client, settings, passing, Steps
  <1>6. CASE RequestFails \/ ScheduleSeen \/ SeedSkipped \/ SeedFails
             \/ SeedBreaks
    <2>1. refresh' = Idle /\ refresh_status' \in Statuses
      BY <1>6 DEF RequestFails, ScheduleSeen, SeedSkipped, SeedFails,
           SeedBreaks, TypeOK, Ends, EndsByGeneration, Statuses
    <2>2. UNCHANGED <<entry, client, settings, store, passing>>
      BY <1>6 DEF RequestFails, ScheduleSeen, SeedSkipped, SeedFails, SeedBreaks
    <2>3. QED
      BY <2>1, <2>2 DEF TypeOK, client, settings, passing, Idle, Steps
  <1>7. CASE SeedFromCloud
    <2>1. PICK a \in Attrs :
            /\ ApplyModel(Unheard(a)) /\ Remember(Unheard(a), FALSE)
            /\ EndsByGeneration
            /\ UNCHANGED <<entry, heard, store, passing>>
      BY <1>7 DEF SeedFromCloud
    <2>2. Unheard(a) \in Attrs
      BY UnheardType
    <2>3. model' \in Models \union {None}
      BY <2>1, <2>2, ApplyModelType
    <2>4. /\ saved' \in Settings /\ received' \in Ages
          /\ generation' \in Nat /\ save_pending' \in BOOLEAN
      BY <2>1, <2>2, RememberType
    <2>5. refresh' \in [step : Steps, before : Nat] /\ refresh_status' \in Statuses
      BY <2>1 DEF EndsByGeneration, Ends, Idle, Steps, Statuses
    <2>6. QED
      BY <2>1, <2>3, <2>4, <2>5 DEF TypeOK, passing
  <1>8. CASE Crash
    <2>1. store' \in Stored
      BY <1>8, AgedType DEF Crash, NewLife, TypeOK, Stored
    <2>2. QED
      BY <1>8, <2>1, GoneType, NewLifeType DEF Crash
  <1>9. CASE Reload
    <2>1. [Memory EXCEPT !.received = Aged(@)] \in Stored
      BY MemoryType, AgedStore
    <2>2. PICK works \in {TRUE, refresh # Idle} :
            old' = [works        |-> works,
                    save_pending |-> save_pending,
                    memory       |-> [Memory EXCEPT !.received = Aged(@)]]
      BY <1>9 DEF Reload
    <2>3. works \in BOOLEAN /\ save_pending \in BOOLEAN
      BY DEF TypeOK
    <2>4. old' \in OldTypes
      BY <2>1, <2>2, <2>3 DEF OldTypes
    <2>5. QED
      BY <1>9, <2>4, NewLifeType DEF Reload
  <1>10. CASE Unload
    BY <1>10, MemoryType DEF Unload, TypeOK, client, button
  <1>11. CASE OldRemembers \/ OldEnds \/ OldSaves
    <2>1. UNCHANGED <<entry, client, settings, button, leaving>>
      BY <1>11 DEF OldRemembers, OldEnds, OldSaves
    <2>2. QED
      BY <1>11, <2>1, OldType DEF TypeOK, OldTypes, client, settings, button
  <1>12. CASE UNCHANGED vars
    BY <1>12 DEF vars, client, settings, button, passing, TypeOK
  <1>13. QED
    BY <1>1, <1>2, <1>3, <1>4, <1>5, <1>6, <1>7, <1>8, <1>9, <1>10, <1>11, <1>12
    DEF Next

(* Every variable keeps its type.                                          *)
THEOREM SettingsTypeCorrect == Spec => []TypeOK
  <1>1. ASSUME Init PROVE TypeOK
    BY <1>1 DEF Init, TypeOK, InitialModel, Settings, Stored, Ages, Statuses,
         Idle, Steps, Gone
  <1>2. QED
    BY <1>1, TypeStep, PTL DEF Spec
------------------------------------------------------------------------------
(* What is remembered without a write being due is what was there.         *)
LEMMA RememberSaves ==
    ASSUME TypeOK, NEW a \in Attrs, NEW fresh \in BOOLEAN, Remember(a, fresh),
           ~save_pending'
    PROVE  saved' = saved /\ received' = received
  BY DEF TypeOK, Settings, Attrs, Remember, Timestamp, Changed, Remembered,
     Valid

(* When no write is due the store holds what memory holds, or what the      *)
(* coordinator before a reload has written since: a crash loses nothing     *)
(* older than 2 s.                                                          *)
THEOREM StoreKeepsUp == Spec => []StoreIsCurrent
  <1>1. Init => StoreIsCurrent
    BY DEF Init, StoreIsCurrent, Memory
  <1>2. TypeOK /\ StoreIsCurrent /\ [Next]_vars => StoreIsCurrent'
    <2> SUFFICES ASSUME TypeOK, StoreIsCurrent, [Next]_vars,
                        ~save_pending', ~old'.save_pending
                 PROVE  store' = Memory' \/ store' = old'.memory
      BY DEF StoreIsCurrent
    <2>1. ASSUME NEW a \in Attrs, NEW fresh \in BOOLEAN, Remember(a, fresh),
                 UNCHANGED <<store, passing>>
          PROVE  store' = Memory' \/ store' = old'.memory
      <3>1. ~save_pending
        BY <2>1 DEF Remember, TypeOK
      <3>2. UNCHANGED <<saved, received>>
        BY <2>1, RememberSaves
      <3>3. QED
        BY <2>1, <3>1, <3>2 DEF StoreIsCurrent, Memory, passing
    <2>2. CASE ReportArrives \/ FallbackSeeds
      BY <2>1, <2>2 DEF ReportArrives, FallbackSeeds
    <2>3. CASE SeedFromCloud
      BY <2>1, <2>3, UnheardType DEF SeedFromCloud
    <2>4. CASE DelayedSave \/ Unload
      BY <2>4 DEF DelayedSave, Unload, Memory
    <2>5. CASE Press
      <3>1. ~old.save_pending /\ ~save_pending
        BY <2>5 DEF Press, TypeOK
      <3>2. CASE store = Memory
        BY <2>5, <3>2 DEF Press, Memory, TypeOK
      <3>3. CASE store = old.memory
        BY <2>5, <3>3 DEF Press, TypeOK, Stored
      <3>4. QED
        BY <3>1, <3>2, <3>3 DEF StoreIsCurrent
    <2>6. CASE \/ RequestSent \/ RequestFails \/ ScheduleSeen \/ NoneSeen
               \/ SeedSkipped \/ SeedFails \/ SeedBreaks
      BY <2>6 DEF RequestSent, RequestFails, ScheduleSeen, NoneSeen,
           SeedSkipped, SeedFails, SeedBreaks, settings, passing, Memory,
           StoreIsCurrent
    <2>7. CASE Crash \/ Reload
      BY <2>7 DEF Crash, Reload, NewLife, Memory, TypeOK, Stored
    <2>8. CASE OldRemembers
      <3>1. PICK a \in Attrs, fresh \in BOOLEAN :
              old' = [old EXCEPT
                !.memory = [settings |-> Remembered(@.settings, a),
                            received |-> Timestamp(@.received, a, fresh)],
                !.save_pending = @ \/ Changed(a)]
        BY <2>8 DEF OldRemembers
      <3>2. ~old.save_pending /\ ~Changed(a)
        BY <3>1 DEF TypeOK
      <3>3. old'.memory = old.memory
        BY <3>1, <3>2 DEF Changed, Valid, Remembered, Timestamp, TypeOK,
             Stored, Settings
      <3>4. QED
        BY <2>8, <3>2, <3>3 DEF OldRemembers, StoreIsCurrent, Memory, settings
    <2>9. CASE OldEnds
      BY <2>9 DEF OldEnds, StoreIsCurrent, Memory, settings, TypeOK
    <2>10. CASE OldSaves
      BY <2>10 DEF OldSaves, TypeOK
    <2>11. CASE UNCHANGED vars
      BY <2>11 DEF vars, settings, passing, Memory, StoreIsCurrent
    <2>12. QED
      BY <2>2, <2>3, <2>4, <2>5, <2>6, <2>7, <2>8, <2>9, <2>10, <2>11 DEF Next
  <1>3. QED
    BY <1>1, <1>2, SettingsTypeCorrect, PTL DEF Spec

(* A configured model is in use in every life, and a saved one is not      *)
(* ignored.                                                                *)
THEOREM ConfiguredModelStays == Spec => []ConfiguredModelWins
  <1>1. Init => ConfiguredModelWins
    BY DEF Init, ConfiguredModelWins, InitialModel
  <1>2. ConfiguredModelWins /\ [Next]_vars => ConfiguredModelWins'
    <2> SUFFICES ASSUME ConfiguredModelWins, [Next]_vars
                 PROVE  ConfiguredModelWins'
      OBVIOUS
    <2>1. ASSUME NEW a, NEW fresh, ApplyModel(a), Remember(a, fresh),
                 UNCHANGED entry
          PROVE  ConfiguredModelWins'
      BY <2>1 DEF ApplyModel, Remember, Remembered, ConfiguredModelWins
    <2>2. CASE ReportArrives \/ FallbackSeeds \/ SeedFromCloud
      BY <2>1, <2>2 DEF ReportArrives, FallbackSeeds, SeedFromCloud
    <2>3. CASE DelayedSave \/ Press
      BY <2>3 DEF DelayedSave, Press, client, ConfiguredModelWins
    <2>4. CASE \/ RequestSent \/ RequestFails \/ ScheduleSeen \/ NoneSeen
               \/ SeedSkipped \/ SeedFails \/ SeedBreaks
      BY <2>4 DEF RequestSent, RequestFails, ScheduleSeen, NoneSeen,
           SeedSkipped, SeedFails, SeedBreaks, client, settings,
           ConfiguredModelWins
    <2>5. CASE Crash \/ Reload
      BY <2>5 DEF Crash, Reload, NewLife, InitialModel, ConfiguredModelWins
    <2>6. CASE Unload \/ OldRemembers \/ OldEnds \/ OldSaves
      BY <2>6 DEF Unload, OldRemembers, OldEnds, OldSaves, client, settings,
           ConfiguredModelWins
    <2>7. CASE UNCHANGED vars
      BY <2>7 DEF vars, client, settings, ConfiguredModelWins
    <2>8. QED
      BY <2>2, <2>3, <2>4, <2>5, <2>6, <2>7 DEF Next
  <1>3. QED
    BY <1>1, <1>2, PTL DEF Spec
------------------------------------------------------------------------------
(* Why the status is honest: while a press awaits its end, the generation  *)
(* has moved just when a schedule was received since the press.            *)
GenerationTells ==
    refresh # Idle => /\ refresh_status = "requesting"
                      /\ refresh.before <= generation
                      /\ received = "since" <=> refresh.before < generation

LEMMA RememberTells ==
    ASSUME TypeOK, GenerationTells, NEW a, NEW fresh \in BOOLEAN,
           Remember(a, fresh), UNCHANGED button
    PROVE  GenerationTells'
  <1>1. CASE Counts(a, fresh)
    BY <1>1 DEF Remember, Timestamp, Counts, GenerationTells, TypeOK, button
  <1>2. CASE ~Counts(a, fresh)
    BY <1>2 DEF Remember, Timestamp, Counts, GenerationTells, button
  <1>3. QED
    BY <1>1, <1>2

LEMMA TellsStep == TypeOK /\ GenerationTells /\ [Next]_vars => GenerationTells'
  <1> SUFFICES ASSUME TypeOK, GenerationTells, [Next]_vars
               PROVE  GenerationTells'
    OBVIOUS
  <1>1. CASE ReportArrives \/ FallbackSeeds
    BY <1>1, RememberTells DEF ReportArrives, FallbackSeeds
  <1>2. CASE Press
    <2>1. received' # "since"
      BY <1>2, AgedType DEF Press, TypeOK
    <2>2. QED
      BY <1>2, <2>1 DEF Press, GenerationTells, TypeOK
  <1>3. CASE RequestSent \/ NoneSeen
    BY <1>3 DEF RequestSent, NoneSeen, settings, GenerationTells, Idle, TypeOK
  <1>4. CASE DelayedSave
    BY <1>4 DEF DelayedSave, button, GenerationTells
  <1>5. CASE \/ RequestFails \/ ScheduleSeen \/ SeedFromCloud
             \/ SeedSkipped \/ SeedFails \/ SeedBreaks \/ Crash \/ Reload
    <2>1. refresh' = Idle
      BY <1>5 DEF RequestFails, ScheduleSeen, SeedFromCloud, SeedSkipped,
           SeedFails, SeedBreaks, Crash, Reload, NewLife, Ends, EndsByGeneration
    <2>2. QED
      BY <2>1 DEF GenerationTells, Idle
  <1>6. CASE Unload \/ OldRemembers \/ OldEnds \/ OldSaves
    BY <1>6 DEF Unload, OldRemembers, OldEnds, OldSaves, settings, button,
         GenerationTells
  <1>7. CASE UNCHANGED vars
    BY <1>7 DEF vars, settings, button, GenerationTells
  <1>8. QED
    BY <1>1, <1>2, <1>3, <1>4, <1>5, <1>6, <1>7 DEF Next

(* The refresh status and the last received timestamp agree.               *)
THEOREM StatusIsHonest == Spec => HonestStatus
  <1>1. Init => GenerationTells
    BY DEF Init, GenerationTells
  <1>2. TypeOK /\ GenerationTells /\ [Next]_vars => [EndsHonestly]_vars
    <2> SUFFICES ASSUME TypeOK, GenerationTells, Next, refresh.step # "idle"
                 PROVE  EndsHonestly
      BY DEF EndsHonestly
    <2>1. /\ refresh_status = "requesting"
          /\ refresh.before \in Nat /\ generation \in Nat
          /\ received = "since" <=> Arrived
      BY DEF GenerationTells, Arrived, Idle, TypeOK
    <2>2. CASE UNCHANGED refresh_status
      BY <2>1, <2>2 DEF EndsHonestly
    <2>3. CASE ScheduleSeen \/ SeedSkipped
      BY <2>1, <2>3 DEF ScheduleSeen, SeedSkipped, Ends, EndsByGeneration,
           settings, EndsHonestly
    <2>4. CASE SeedFromCloud
      <3>1. received' = received
        BY <2>4 DEF SeedFromCloud, Remember, Timestamp
      <3>2. QED
        BY <2>1, <2>4, <3>1 DEF SeedFromCloud, Ends, EndsByGeneration,
             EndsHonestly
    <2>5. CASE RequestFails \/ SeedFails \/ Crash \/ Reload
      BY <2>5 DEF RequestFails, SeedFails, Crash, Reload, NewLife,
           Ends, EndsHonestly
    <2>6. CASE Press
      BY <2>6 DEF Press, Idle
    <2>7. CASE SeedBreaks
      BY <2>2, <2>7 DEF SeedBreaks, Ends
    <2>8. CASE \/ ReportArrives \/ FallbackSeeds \/ DelayedSave
               \/ RequestSent \/ NoneSeen
      BY <2>2, <2>8 DEF ReportArrives, FallbackSeeds, DelayedSave, RequestSent,
           NoneSeen, button
    <2>9. CASE Unload \/ OldRemembers \/ OldEnds \/ OldSaves
      BY <2>2, <2>9 DEF Unload, OldRemembers, OldEnds, OldSaves, button
    <2>10. QED
      BY <2>3, <2>4, <2>5, <2>6, <2>7, <2>8, <2>9 DEF Next
  <1>3. QED
    BY <1>1, <1>2, SettingsTypeCorrect, TellsStep, PTL DEF Spec, HonestStatus

(* The cloud's answer to a press leaves the schedule the controller        *)
(* reported.                                                               *)
THEOREM ReportedScheduleStays == Spec => LanBeatsCloudSeed
  <1>1. [Next]_vars => [KeepsHeard]_vars
    <2> SUFFICES ASSUME Next, refresh.step = "cloud", refresh' = Idle,
                        "Auto" \in heard, "Auto" \in heard'
                 PROVE  saved'.Auto = saved.Auto
      BY DEF KeepsHeard
    <2>1. CASE SeedFromCloud
      <3>1. PICK a \in Attrs : saved' = Remembered(saved, Unheard(a))
        BY <2>1 DEF SeedFromCloud, Remember
      <3>2. Unheard(a).Auto = None
        BY DEF Unheard
      <3>3. QED
        BY <3>1, <3>2 DEF Remembered, Valid
    <2>2. CASE SeedSkipped \/ SeedFails \/ SeedBreaks
      BY <2>2 DEF SeedSkipped, SeedFails, SeedBreaks, settings
    <2>3. CASE ReportArrives \/ FallbackSeeds \/ DelayedSave
      <3>1. refresh' = refresh
        BY <2>3 DEF ReportArrives, FallbackSeeds, DelayedSave, button
      <3>2. QED
        BY <3>1 DEF Idle
    <2>4. CASE Press \/ RequestSent \/ RequestFails \/ ScheduleSeen \/ NoneSeen
      BY <2>4 DEF Press, RequestSent, RequestFails, ScheduleSeen, NoneSeen, Idle
    <2>5. CASE Crash \/ Reload
      BY <2>5 DEF Crash, Reload, NewLife
    <2>6. CASE Unload \/ OldRemembers \/ OldEnds \/ OldSaves
      BY <2>6 DEF Unload, OldRemembers, OldEnds, OldSaves, settings
    <2>7. QED
      BY <2>1, <2>2, <2>3, <2>4, <2>5, <2>6 DEF Next
  <1>2. QED
    BY <1>1, PTL DEF Spec, LanBeatsCloudSeed
==============================================================================
