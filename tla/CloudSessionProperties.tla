------------------------ MODULE CloudSessionProperties ------------------------
(***************************************************************************)
(* What the requests to the cloud must satisfy.                            *)
(***************************************************************************)
EXTENDS CloudSession

(* The buffer does what it is for ("refresh 5 minutes before actual        *)
(* expiry", cloud.py:25): a token that was not revoked has expired under a  *)
(* request only if the login before it and the request together took more   *)
(* than the buffer, whoever logged in and in whatever order logins ended.   *)
ExpiredOnlyIfSlow ==
    \A t \in Tasks :
        tasks[t].step \in {"bindings", "sent"} =>
            LET tok == tasks[t].token
            IN tok.left = 0 /\ tok.revoked = FALSE => tok.slip + tasks[t].waited > Buffer

(* Why: what the client believes of a token is wrong by no more than the    *)
(* login took, and what a request has used up of the buffer it has waited.  *)
TokenCounts(task) ==
    LET tok == task.token IN
    /\ task.step = "issued" =>
          /\ tok.slip <= task.waited
          /\ tok.revoked = FALSE => Lifetime <= tok.left + tok.slip
    /\ task.step \in {"bindings", "sent"} /\ tok.revoked = FALSE =>
          Buffer < tok.left + tok.slip + task.waited

TokenInv ==
    /\ held.revoked = FALSE => believed <= held.left + held.slip
    /\ \A t \in Tasks : TokenCounts(tasks[t])

(* All requests of an entry are about one device, also when several         *)
(* coroutines need the cloud for the first time at once and the bindings of *)
(* the account change (_cloud_login_lock, coordinator.py:171).              *)
OneDevice ==
    \A t \in Tasks :
        tasks[t].step \in {"sent", "answered"} =>
            tasks[t].target = did /\ did # None

(* Why: only the holder of the lock looks for a device, and nobody makes a  *)
(* request without being the holder or finding the cloud ready.             *)
DeviceInv ==
    /\ ready \/ gyre
    /\ ready => did # None /\ lock = None
    /\ \A t \in Tasks :
          /\ tasks[t].step = "bindings" => lock = t /\ did = None
          /\ tasks[t].step \in {"login", "issued"} => ready \/ lock = t

(* Every coroutine ends, whatever fails while it holds or awaits the lock   *)
(* of the first login.                                                     *)
TasksEnd == \A t \in Tasks : tasks[t] # Idle ~> tasks[t] = Idle

(* A device that is controlled through the cloud alone is shown as it is in *)
(* the end, although its commands and refreshes overlap without a cooldown, *)
(* and it is available again and again, although no error makes the client  *)
(* notice that its token was revoked or has expired.  (Not always: while    *)
(* exchanges are slow, a refresh may fail as in ExpiredOnlyIfSlow.)         *)
Converges ==
    ~gyre => /\ <>[](shown = latest /\ latest = ordered)
             /\ []<>available
===============================================================================
