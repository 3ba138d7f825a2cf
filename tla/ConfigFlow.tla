------------------------------ MODULE ConfigFlow -----------------------------
(***************************************************************************)
(* The config flows of the integration (config_flow.py).  A flow asks for  *)
(* the protocol, then for the address of an ICV6 hub, or for that of a     *)
(* Gizwits device and a cloud account, and waits for what was entered to   *)
(* be tried.  Several flows may be open, for the same device too.          *)
(***************************************************************************)
EXTENDS Naturals

CONSTANTS Flows, Hosts

VARIABLES
    flow,          \* step and host of every flow
    entries        \* how many entries have this unique id

flowVars == <<flow, entries>>

(* The unique ids: icv6_<host> and <host>:<port>.                          *)
UniqueIds == {"icv6", "gizwits"} \X Hosts

(* The steps that show a form, and the wait for what it was filled in with.*)
Forms  == {"icv6", "gizwits_lan", "cloud"}
Checks == {"checks_icv6", "checks_lan", "checks_cloud"}
Steps  == {"closed", "user"} \union Forms \union Checks

CheckOf == [icv6 |-> "checks_icv6", gizwits_lan |-> "checks_lan", cloud |-> "checks_cloud"]

FlowInit ==
    /\ flow \in [Flows -> {[step |-> "closed", host |-> h] : h \in Hosts}]
    /\ entries = [u \in UniqueIds |-> 0]

Goes(f, from, to) ==
    /\ flow[f].step = from
    /\ flow' = [flow EXCEPT ![f].step = to]

Opens(f) == Goes(f, "closed", "user") /\ UNCHANGED entries

(* async_step_user.                                                        *)
ChoosesProtocol(f) ==
    /\ Goes(f, "user", "icv6") \/ Goes(f, "user", "gizwits_lan")
    /\ UNCHANGED entries

(* A form is sent; the validation of client or cloud is awaited.  The cloud *)
(* form keeps the host of the form before it (_lan_data).                  *)
Submits(f, form, h) ==
    /\ flow[f].step = form
    /\ form = "cloud" => h = flow[f].host
    /\ flow' = [flow EXCEPT ![f] = [step |-> CheckOf[form], host |-> h]]
    /\ UNCHANGED entries

(* Whatever goes wrong, the form is shown again with an error.             *)
CheckFails(f, form) == Goes(f, CheckOf[form], form) /\ UNCHANGED entries

LanChecked(f) == Goes(f, "checks_lan", "cloud") /\ UNCHANGED entries

(* The end of async_step_icv6 and of async_step_cloud: nothing is awaited  *)
(* between the look at the entries and the new one.                        *)
NeverConfigured(unique_id) == FALSE      \* faulty: does not abort
Configured(unique_id) == entries[unique_id] > 0

Finishes(f, check, unique_id) ==
    /\ Goes(f, check, "closed")
    /\ entries' = IF Configured(unique_id) THEN entries
                  ELSE [entries EXCEPT ![unique_id] = @ + 1]

(* The owner closes a form, or deletes an entry.                           *)
Cancels(f) ==
    /\ flow[f].step \in Forms \union {"user"}
    /\ flow' = [flow EXCEPT ![f].step = "closed"]
    /\ UNCHANGED entries

Deletes(unique_id) ==
    /\ entries[unique_id] > 0
    /\ entries' = [entries EXCEPT ![unique_id] = @ - 1]
    /\ UNCHANGED flow

FlowNext ==
    \/ \E f \in Flows :
         \/ Opens(f) \/ ChoosesProtocol(f) \/ Cancels(f)
         \/ \E form \in Forms : CheckFails(f, form) \/ \E h \in Hosts : Submits(f, form, h)
         \/ LanChecked(f)
         \/ Finishes(f, "checks_icv6", <<"icv6", flow[f].host>>)
         \/ Finishes(f, "checks_cloud", <<"gizwits", flow[f].host>>)
    \/ \E u \in UniqueIds : Deletes(u)

FlowSpec == FlowInit /\ [][FlowNext]_flowVars
-----------------------------------------------------------------------------
(* A device is never configured twice, however many flows are open for it  *)
(* and in whatever order their checks end: two entries would connect two   *)
(* clients to one controller (_abort_if_unique_id_configured, after the    *)
(* wait and not before it).                                                *)
OneEntryPerAddress == \A u \in UniqueIds : entries[u] <= 1
==============================================================================
