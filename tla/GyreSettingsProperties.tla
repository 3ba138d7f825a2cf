------------------------ MODULE GyreSettingsProperties ------------------------
(***************************************************************************)
(* What the saved settings must satisfy.                                   *)
(***************************************************************************)
EXTENDS GyreSettings

(* When no write is due, nothing is only in memory, so a crash loses what   *)
(* the last 2 s brought and no more ("Saved settings survive restarts",     *)
(* sensor.py:764; async_delay_save in _remember_settings).  After a reload  *)
(* in the middle of a press, or a report in the middle of the reload, the   *)
(* store may be what the coordinator before it wrote over it.               *)
StoreIsCurrent ==
    ~save_pending /\ ~old.save_pending => store \in {Memory, old.memory}

(* A model configured by the owner is the one in use, whatever was saved in *)
(* earlier lives (README.md:152); and a saved model is in use.              *)
ConfiguredModelWins ==
    /\ entry.model # None => model = entry.model
    /\ saved.Model # None => model # None

(* The answer of the cloud to a press of the button never replaces what the *)
(* controller itself has reported in this life, also when the report came   *)
(* while the cloud was being asked (async_seed_from_cloud).                 *)
KeepsHeard ==
    refresh.step = "cloud" /\ refresh' = Idle /\ "Auto" \in heard \intersect heard'
    => saved'.Auto = saved.Auto
LanBeatsCloudSeed == [][KeepsHeard]_vars

(* "The refresh status and last received timestamp distinguish saved values *)
(* from a fresh report" (README.md:216): they agree.  A press that ends as  *)
(* received has a timestamp later than the press, one that ends as not      *)
(* received has none.                                                       *)
EndsHonestly ==
    /\ refresh.step # "idle" /\ refresh_status' = "received"
       => received' = "since"
    /\ refresh.step # "idle" /\ refresh_status' = "none fresh"
       => received' # "since"
HonestStatus == [][EndsHonestly]_vars

(* "model_a and model_b are hardware characteristics that must never change *)
(* after initial read" (maxspect_homeassistant_instructions, line 99).  It  *)
(* may be forgotten by a crash before it is saved, and read again.          *)
ModelNeverFlips == [][model # None => model' \in {model, None}]_vars
==============================================================================
