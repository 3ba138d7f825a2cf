------------------------------ MODULE LanClient ------------------------------
(***************************************************************************)
(* The TCP connection of MaxspectClient (api.py) and the task that listens *)
(* to it, taken apart at every await of async_connect, async_disconnect    *)
(* and _listen_loop.  Nothing keeps the coroutines that connect apart: the *)
(* refresh, a command, the button and the end of the entry.                *)
(***************************************************************************)
EXTENDS Naturals

CONSTANTS
    Commands,      \* coroutines of users, who may stop coming
    Links,         \* TCP connections, used again when they are lost
    Listeners,     \* listener tasks, used again when they are done
    None,
    MaxCommands,   \* bound: how often a user's coroutine connects
    MaxFaults      \* bound: links lost or silent, opens and answers that fail

Refresh == "refresh"                     \* comes again every 30 s
Unload  == "unload"                      \* async_shutdown
Callers == Commands \union {Refresh}
Tasks   == Callers \union {Unload}

ASSUME LanClientAssumption ==
    /\ Refresh \notin Commands /\ Unload \notin Commands
    /\ None \notin Links \union Listeners
    /\ "ready" \notin Links \union {None}
    /\ MaxCommands \in Nat /\ MaxFaults \in Nat

VARIABLES
    links,         \* how each connection is
    stream,        \* the one in _reader and _writer, set together
    connected,     \* _connected
    listener_task, \* _listener_task, None also when it is done
    listeners,     \* where each listener is: None, "ready", or reading a link
    tasks,         \* where each coroutine awaits, and which link it reads
    unloaded,      \* async_shutdown has begun
    usage,         \* assumed of the callers: see Init
    budget

client == <<stream, connected, listener_task>>
vars   == <<links, client, listeners, tasks, unloaded, usage, budget>>

Reading == {"info", "bind", "late"}
Idle    == [step |-> "idle", on |-> None]

Steps == Reading \union
         {"idle", "stop", "close", "open", "drop_stop", "drop_close"}

TypeOK ==
    /\ links \in [Links -> {"up", "silent", "lost"}]
    /\ stream \in Links \union {None}
    /\ connected \in BOOLEAN
    /\ listener_task \in Listeners \union {None}
    /\ listeners \in [Listeners -> Links \union {None, "ready"}]
    /\ tasks \in [Tasks -> [step : Steps, on : Links \union {None}]]
    /\ unloaded \in BOOLEAN
    /\ usage \in {"free", "serial", "probe"}
    /\ budget \in [commands : Nat, faults : Nat]

(* In "free" use callers come whenever they like; in "serial" use each     *)
(* waits for the others; "probe" is async_validate_connection.             *)
Init ==
    /\ links = [k \in Links |-> "lost"]
    /\ stream = None
    /\ connected = FALSE
    /\ listener_task = None
    /\ listeners = [l \in Listeners |-> None]
    /\ tasks = [t \in Tasks |-> Idle]
    /\ unloaded = FALSE
    /\ usage \in {"free", "serial", "probe"}
    /\ budget = [commands |-> MaxCommands, faults |-> MaxFaults]
------------------------------------------------------------------------------
Spend(what) ==
    budget[what] > 0 /\ budget' = [budget EXCEPT ![what] = @ - 1]

Goes(t, step, on) == tasks' = [tasks EXCEPT ![t] = [step |-> step, on |-> on]]

Await(t, step) == Goes(t, step, None)

IsConnected == connected /\ stream # None

Open(k) == links[k] # "lost"

LeftClosing ==                           \* faulty: nobody waits for the close
    [k \in Links |-> IF k = stream THEN "closing" ELSE links[k]]

(* Closed, or its writer dropped, which Python closes then.                *)
Dropped == [k \in Links |-> IF k = stream THEN "lost" ELSE links[k]]

Busy(t) == tasks[t] # Idle

MayStart ==
    /\ ~unloaded
    /\ usage # "free" => \A t \in Tasks : ~Busy(t)

(* _async_close_transport, up to wait_closed.                              *)
CloseTransport(t, closing, next) ==
    /\ links' = Dropped
    /\ Await(t, IF stream # None THEN closing ELSE next)

KeepOld(t, stopping, closing, next) ==   \* faulty: the old one is not awaited
    /\ listeners' = listeners /\ listener_task' = listener_task
    /\ CloseTransport(t, closing, next)

(* A cancelled listener runs no more; its canceller awaits that.           *)
StopListener(t, stopping, closing, next) ==
    /\ listener_task' = None
    /\ IF listener_task # None
       THEN /\ listeners' = [listeners EXCEPT ![listener_task] = None]
            /\ Await(t, stopping)
            /\ UNCHANGED links
       ELSE /\ UNCHANGED listeners
            /\ CloseTransport(t, closing, next)

(* async_connect, by whoever finds the client not connected.               *)
Connect(t) ==
    /\ ~Busy(t) /\ ~IsConnected
    /\ StopListener(t, "stop", "close", "open")
    /\ UNCHANGED <<stream, connected, unloaded, usage>>

BeginRefresh ==
    /\ MayStart /\ usage # "probe"
    /\ Connect(Refresh)
    /\ UNCHANGED budget

BeginCommand(c) ==
    /\ MayStart
    /\ Connect(c) /\ Spend("commands")

ListenerStopped(t) ==
    /\ tasks[t].step \in {"stop", "drop_stop"}
    /\ listener_task' = None
    /\ IF tasks[t].step = "stop"
       THEN CloseTransport(t, "close", "open")
       ELSE CloseTransport(t, "drop_close", "idle")
    /\ UNCHANGED <<stream, connected, listeners, unloaded, usage, budget>>

(* The other half of _async_close_transport, whatever stream is by now.    *)
TransportClosed(t) ==
    /\ tasks[t].step \in {"close", "drop_close"}
    /\ links' = Dropped
    /\ stream' = None
    /\ Await(t, IF tasks[t].step = "close" THEN "open" ELSE "idle")
    /\ UNCHANGED <<connected, listener_task, listeners, unloaded, usage, budget>>

(* The loop runs what is ready before the network brings anything more.    *)
Settled ==
    /\ \A l \in Listeners :
          listeners[l] # None => listeners[l] \in Links /\ Open(listeners[l])
    /\ \A t \in Tasks : tasks[t].on # None => Open(tasks[t].on)

Opened(t) ==
    /\ tasks[t].step = "open" /\ Settled
    /\ \E k \in Links :
          /\ ~Open(k) /\ k # stream /\ \A u \in Tasks : tasks[u].on # k
          /\ links' = [Dropped EXCEPT ![k] = "up"]
          /\ stream' = k
          /\ Goes(t, "info", k)
    /\ connected' = TRUE
    /\ UNCHANGED <<listener_task, listeners, unloaded, usage, budget>>

OpenFails(t) ==
    /\ tasks[t].step = "open" /\ Spend("faults")
    /\ tasks' = [tasks EXCEPT ![t] = Idle]
    /\ UNCHANGED <<links, client, listeners, unloaded, usage>>
------------------------------------------------------------------------------
(* A StreamReader serves one coroutine at a time.                          *)
Taken(k) ==
    \/ \E t \in Tasks : tasks[t].on = k
    \/ \E l \in Listeners : listeners[l] = k

NotConnected == connected' = FALSE

(* async_disconnect.                                                       *)
Disconnect(t) ==
    /\ NotConnected
    /\ StopListener(t, "drop_stop", "drop_close", "idle")
    /\ UNCHANGED stream

RaisesOnly(t) ==                         \* faulty: an error leaves all as it is
    /\ tasks' = [tasks EXCEPT ![t] = Idle]
    /\ UNCHANGED <<links, client, listeners>>

TriesAgain(t) ==                         \* faulty: an error opens a new one at once
    /\ Await(t, "open")
    /\ UNCHANGED <<links, client, listeners>>

HandshakeFailed(t) == Disconnect(t)

(* The reader and the writer are looked up again after each answer.        *)
Answered(t, next) ==
    /\ links[tasks[t].on] = "up" /\ Settled
    /\ IF stream # None /\ (stream = tasks[t].on \/ ~Taken(stream))
       THEN Goes(t, next, stream) /\ UNCHANGED <<links, client, listeners>>
       ELSE HandshakeFailed(t)
    /\ UNCHANGED <<unloaded, usage, budget>>

InfoArrives(t) == tasks[t].step = "info" /\ Answered(t, "bind")

BindAcked(t) == tasks[t].step = "bind" /\ Answered(t, "late")

(* Nothing comes, or not what is expected; nothing late is not an error.   *)
Unanswered(t) ==
    links[tasks[t].on] = "lost"
        \/ (links[tasks[t].on] = "silent" /\ tasks[t].step # "late")

HandshakeBreaks(t) ==
    /\ tasks[t].step \in Reading
    /\ HandshakeFailed(t)
    /\ (Unanswered(t) /\ UNCHANGED budget) \/ Spend("faults")
    /\ UNCHANGED <<unloaded, usage>>

(* A late report, nothing within 1 s or the end of the stream: connected.  *)
HandshakeEnds(t) ==
    /\ tasks[t].step = "late" /\ (Settled \/ ~Open(tasks[t].on))
    /\ IF usage = "probe"
       THEN Disconnect(t)
       ELSE /\ \E l \in Listeners :
                  /\ listeners[l] = None
                  /\ listener_task' = l
                  /\ listeners' = [listeners EXCEPT ![l] = "ready"]
            /\ tasks' = [tasks EXCEPT ![t] = Idle]
            /\ UNCHANGED <<links, stream, connected>>
    /\ UNCHANGED <<unloaded, usage, budget>>

Shutdown ==
    /\ MayStart /\ usage # "probe"
    /\ unloaded' = TRUE
    /\ Disconnect(Unload)
    /\ UNCHANGED <<usage, budget>>
------------------------------------------------------------------------------
Ends(l) ==
    /\ listeners' = [listeners EXCEPT ![l] = None]
    /\ listener_task' = IF listener_task = l THEN None ELSE listener_task

TimesOut(l) == UNCHANGED <<connected, listener_task, listeners>>  \* faulty

LinkNoticed(l) == NotConnected /\ Ends(l)

(* The top of _listen_loop.  A read that somebody else is in raises an     *)
(* error nobody catches.                                                   *)
Loops(l) ==
    IF ~IsConnected \/ (Open(stream) /\ Taken(stream) /\ listeners[l] # stream)
    THEN UNCHANGED connected /\ Ends(l)
    ELSE IF Open(stream)
    THEN /\ listeners' = [listeners EXCEPT ![l] = stream]
         /\ UNCHANGED <<connected, listener_task>>
    ELSE LinkNoticed(l)

Listens(l) ==
    /\ listeners[l] # None
    /\ IF listeners[l] \in Links /\ ~Open(listeners[l])
       THEN LinkNoticed(l)
       ELSE Loops(l)
    /\ UNCHANGED <<links, stream, tasks, unloaded, usage, budget>>

(* The network.  Polls that nobody acknowledges make TCP give up a link    *)
(* that has gone silent.                                                   *)
LinkChanges(k, how) ==
    /\ Open(k)
    /\ links' = [links EXCEPT ![k] = how]
    /\ UNCHANGED <<client, listeners, tasks, unloaded, usage>>

LinkLost(k) == LinkChanges(k, "lost") /\ Spend("faults")

LinkGoesSilent(k) ==
    links[k] = "up" /\ LinkChanges(k, "silent") /\ Spend("faults")

TcpGivesUp(k) ==
    links[k] = "silent" /\ LinkChanges(k, "lost") /\ UNCHANGED budget
------------------------------------------------------------------------------
Proceeds(t) ==
    \/ ListenerStopped(t) \/ TransportClosed(t) \/ Opened(t)
    \/ InfoArrives(t) \/ BindAcked(t) \/ HandshakeBreaks(t) \/ HandshakeEnds(t)

Next ==
    \/ BeginRefresh
    \/ \E c \in Commands : BeginCommand(c)
    \/ \E t \in Tasks : Proceeds(t) \/ OpenFails(t)
    \/ Shutdown
    \/ \E l \in Listeners : Listens(l)
    \/ \E k \in Links : LinkLost(k) \/ LinkGoesSilent(k) \/ TcpGivesUp(k)

Spec == Init /\ [][Next]_vars

(* Every wait has a timeout, the refresh comes again, polls go unanswered. *)
Fairness ==
    /\ WF_vars(BeginRefresh)
    /\ \A t \in Tasks : WF_vars(Proceeds(t))
    /\ \A l \in Listeners : WF_vars(Listens(l))
    /\ \A k \in Links : WF_vars(TcpGivesUp(k))

FairSpec == Spec /\ Fairness
===============================================================================
