-------------------------- MODULE LanClientProperties --------------------------
(***************************************************************************)
(* What the connection of a client must satisfy.                           *)
(***************************************************************************)
EXTENDS LanClient

Idling == \A t \in Tasks : ~Busy(t)

HearsStream(l) == listeners[l] \in {"ready", stream}

(* A client that counts as connected, and that therefore nobody will        *)
(* reconnect (coordinator.py:428, api.py:605), has a listener on its        *)
(* connection, however many coroutines have connected at once and whichever *)
(* of them failed, lost its connection or had its listener killed by a      *)
(* read that was already taken.                                             *)
ConnectedIsHeard ==
    IsConnected /\ Idling => \E l \in Listeners : HearsStream(l)

(* Why: what takes the listener of the current connection away is a connect *)
(* still under way, or clears the flag.                                     *)
HeardInv ==
    IsConnected =>
        \/ \E l \in Listeners : HearsStream(l)
        \/ \E t \in Tasks : tasks[t].step \in Reading

(* When a client that was not connecting is shut down, or a connection is   *)
(* only validated (the config flow's probe), then in the end no connection  *)
(* and no listener is left, in whatever state, or after whatever failure,   *)
(* that finds the client (async_disconnect, api.py:388).                    *)
NothingOutlives ==
    Idling /\ (usage = "probe" \/ (usage = "serial" /\ unloaded)) =>
        /\ stream = None /\ ~connected
        /\ \A k \in Links : ~Open(k)
        /\ \A l \in Listeners : listeners[l] = None

NoListener == \A l \in Listeners : listeners[l] = None

(* Why: where a coroutine awaits tells what is left of the connection.      *)
StepTells(t) ==
    LET step == tasks[t].step IN
    /\ step # "stop"
    /\ step # "idle" => NoListener /\ listener_task = None
    /\ step \in {"open", "close", "drop_stop", "drop_close"} => ~connected
    /\ step = "open" => stream = None
    /\ step \in Reading => connected
    /\ t = Unload => step \in {"idle", "drop_stop", "drop_close"}
    /\ unloaded /\ step # "idle" => t = Unload

SerialInv ==
    usage # "free" =>
        /\ \A t, u \in Tasks : Busy(t) /\ Busy(u) => t = u
        /\ \A t \in Tasks : StepTells(t)
        /\ \A l \in Listeners : listeners[l] # None => l = listener_task
        /\ \A k \in Links : Open(k) => k = stream
        /\ connected => stream # None
        /\ listener_task # None => connected
        /\ NothingOutlives

(* Every connect and disconnect ends, also when several of them keep taking *)
(* the connection away from each other.                                     *)
CallersEnd == \A t \in Tasks : Busy(t) ~> ~Busy(t)

(* Once links are no longer lost and users no longer interfere, a client    *)
(* that stays loaded is connected for good and listens, also after its      *)
(* link went silent, which the client itself never checks (api.py:421).     *)
Heard ==
    /\ IsConnected
    /\ links[stream] = "up"
    /\ \E l \in Listeners : listeners[l] = stream

Recovers == usage # "probe" => <>unloaded \/ <>[]Heard
===============================================================================
