----------------------------- MODULE CloudSession -----------------------------
(***************************************************************************)
(* The requests one config entry makes of the Gizwits cloud: the token and *)
(* the device id of GizwitsCloudClient (cloud.py), the first login under   *)
(* _cloud_login_lock, and what a device that is controlled through the     *)
(* cloud alone shows (coordinator.py).                                     *)
(*                                                                         *)
(* A task is a coroutine that awaits one exchange after the other; all of  *)
(* them share the client.  Time passes in units of which the refresh       *)
(* buffer of a token has Buffer.                                           *)
(***************************************************************************)
EXTENDS Naturals

CONSTANTS
    Commands,      \* coroutines of the users' commands
    Dids,          \* devices bound to the account
    None,          \* no device id; nobody
    Lifetime,      \* of a token (expire_at)
    Buffer,        \* _TOKEN_REFRESH_BUFFER
    Patience,      \* an exchange ends by then (timeout of aiohttp)
    MaxCommands,   \* bound: commands and changes with the vendor's app
    MaxFaults      \* bound: exchanges that fail, tokens that are revoked

Refresh == "refresh"
Tasks   == Commands \union {Refresh}

ASSUME CloudSessionAssumption ==
    /\ Refresh \notin Commands
    /\ None \notin Dids \union Tasks
    /\ {Lifetime, Buffer, Patience, MaxCommands, MaxFaults} \subseteq Nat
    /\ Buffer < Lifetime

VARIABLES
    (* outside Home Assistant *)
    ordered,       \* is the device to be on
    latest,        \* is it on, as the service last heard
    (* GizwitsCloudClient *)
    held,          \* _token
    believed,      \* until _token_expiry
    (* MaxspectCoordinator *)
    gyre,          \* device_type = DEVICE_TYPE_GYRE
    did,           \* _cloud_did
    ready,         \* _cloud_ready
    lock,          \* _cloud_login_lock
    tasks,         \* where each coroutine awaits
    shown,         \* is_on as the entities show it
    available,
    (* what is left of the bounds *)
    budget

service == <<ordered, latest>>
token   == <<held, believed>>
entry   == <<gyre, did, ready, lock>>
view    == <<shown, available>>
vars    == <<service, token, entry, tasks, view, budget>>

(* A token has some time left at the service, which issued it slip ago when *)
(* the client received it.                                                 *)
Tokens  == [left : 0..Lifetime, slip : 0..Patience, revoked : BOOLEAN]
NoToken == [left |-> 0, slip |-> 0, revoked |-> TRUE]
Issued  == [left |-> Lifetime, slip |-> 0, revoked |-> FALSE]

Exchanges == {"login", "issued", "bindings", "sent", "answered"}
Idle == [step |-> "idle", token |-> NoToken, waited |-> 0, target |-> None,
         on |-> FALSE]

Coroutines == [step   : {"idle", "gate"} \union Exchanges,
               token  : Tokens,
               waited : 0..Patience,
               target : Dids \union {None},
               on     : BOOLEAN]

TypeOK ==
    /\ ordered \in BOOLEAN /\ latest \in BOOLEAN
    /\ gyre \in BOOLEAN /\ ready \in BOOLEAN
    /\ shown \in BOOLEAN /\ available \in BOOLEAN
    /\ held \in Tokens
    /\ believed \in 0..Lifetime
    /\ did \in Dids \union {None}
    /\ lock \in Tasks \union {None}
    /\ tasks \in [Tasks -> Coroutines]
    /\ budget \in [commands : Nat, faults : Nat]

(* A Gyre is set up over its LAN and may not have needed the cloud yet;    *)
(* another device has been asked for its state through the cloud.          *)
Init ==
    /\ ordered \in BOOLEAN /\ latest = ordered
    /\ gyre \in BOOLEAN
    /\ IF gyre
       THEN /\ ready = FALSE /\ did \in Dids \union {None}
            /\ held = NoToken /\ believed = 0
       ELSE /\ ready = TRUE /\ did \in Dids
            /\ held = Issued /\ believed = Lifetime
    /\ lock = None
    /\ tasks = [t \in Tasks |-> Idle]
    /\ shown = latest /\ available = TRUE
    /\ budget = [commands |-> MaxCommands, faults |-> MaxFaults]
------------------------------------------------------------------------------
Spend(what) ==
    budget[what] > 0 /\ budget' = [budget EXCEPT ![what] = @ - 1]

Exchanging(t) == tasks[t].step \in Exchanges

Less(n) == IF n = 0 THEN 0 ELSE n - 1

Aged(tok, slip) == [left |-> Less(tok.left), slip |-> slip, revoked |-> tok.revoked]

Older(tok) == Aged(tok, tok.slip)

(* A token that is issued and not yet received slips.                      *)
Slips(task) ==
    IF task.step = "issued" THEN task.token.slip + 1 ELSE task.token.slip

Later(task) ==
    IF task.step \notin Exchanges THEN task
    ELSE [task EXCEPT !.waited = @ + 1, !.token = Aged(@, Slips(task))]

(* Time: an exchange is over, or has failed, when Patience is.             *)
Tick ==
    /\ \A t \in Tasks : Exchanging(t) => tasks[t].waited < Patience
    /\ held' = Older(held)
    /\ believed' = Less(believed)
    /\ tasks' = [t \in Tasks |-> Later(tasks[t])]
    /\ UNCHANGED <<service, entry, view, budget>>

OwnerChanges ==
    /\ Spend("commands")
    /\ ordered' = ~ordered
    /\ UNCHANGED <<latest, token, entry, tasks, view>>

DeviceTakes ==
    /\ latest # ordered
    /\ latest' = ordered
    /\ UNCHANGED <<ordered, token, entry, tasks, view, budget>>

Revoked(tok) == [left |-> 0, slip |-> tok.slip, revoked |-> TRUE]

(* The service forgets the tokens it has issued.                           *)
ServiceRevokes ==
    /\ Spend("faults")
    /\ held' = Revoked(held)
    /\ tasks' = [t \in Tasks |->
                   [tasks[t] EXCEPT !.token = Revoked(@)]]
    /\ UNCHANGED <<service, believed, entry, view>>
------------------------------------------------------------------------------
OnlyWithout == held = NoToken            \* faulty: a token is for ever
AtExpiry    == believed = 0              \* faulty: no buffer

(* _ensure_token: before the buffer a token is used, after it renewed.     *)
NeedsLogin == believed <= Buffer

Goes(t, task) == tasks' = [tasks EXCEPT ![t] = task]

(* A request is on its way, with a token, or a login before it.            *)
Login(task) == [task EXCEPT !.step = "login", !.token = NoToken, !.waited = 0]

Send(task, step, tok, to) ==
    [task EXCEPT !.step = step, !.token = tok, !.waited = 0, !.target = to]

Ensured(task, to) ==
    IF NeedsLogin THEN Login(task) ELSE Send(task, "sent", held, to)

NoLock == TRUE                           \* faulty: the lock is not asked

LockFree == lock = None

Queued == \E t \in Tasks : tasks[t].step = "gate"

(* A Gyre's coroutines pass _ensure_cloud_ready, another device's commands *)
(* do not.                                                                 *)
Gated(t) == gyre \/ t = Refresh

(* Past the lock: the first login keeps it, all others let it go at once.  *)
Proceed(t, task) ==
    IF Gated(t) /\ ~ready
    THEN lock' = t /\ Goes(t, Login(task))
    ELSE UNCHANGED lock /\ Goes(t, Ensured(task, did))

Starts(t, task) ==
    /\ IF Gated(t) /\ (~LockFree \/ Queued)
       THEN UNCHANGED lock /\ Goes(t, [task EXCEPT !.step = "gate"])
       ELSE Proceed(t, task)
    /\ UNCHANGED <<service, token, gyre, did, ready, view>>

(* async_seed_from_cloud, by the refresh.                                  *)
BeginRefresh ==
    /\ tasks[Refresh] = Idle
    /\ Starts(Refresh, Idle)
    /\ UNCHANGED budget

(* async_set_power; a Gyre's commands are kept apart by _control_lock.     *)
BeginCommand(c) ==
    /\ tasks[c] = Idle
    /\ gyre => \A other \in Commands : tasks[other] = Idle
    /\ Spend("commands")
    /\ \E on \in BOOLEAN : Starts(c, [Idle EXCEPT !.on = on])

LockGranted(t) ==
    /\ tasks[t].step = "gate" /\ LockFree
    /\ Proceed(t, tasks[t])
    /\ UNCHANGED <<service, token, gyre, did, ready, view, budget>>
------------------------------------------------------------------------------
(* async_login: the service issues a token, and later the client has it.   *)
TokenIssued(t) ==
    /\ tasks[t].step = "login"
    /\ Goes(t, [tasks[t] EXCEPT !.step = "issued", !.token = Issued])
    /\ UNCHANGED <<service, token, entry, view, budget>>

PastExpiry == Lifetime + Buffer          \* faulty: the buffer is added

Expiry == Lifetime

LoggedIn(t) ==
    /\ tasks[t].step = "issued"
    /\ held' = tasks[t].token
    /\ believed' = Expiry
    /\ IF lock = t /\ did = None
       THEN /\ Goes(t, Send(tasks[t], "bindings", tasks[t].token, None))
            /\ UNCHANGED <<ready, lock>>
       ELSE /\ Goes(t, Send(tasks[t], "sent", tasks[t].token, did))
            /\ ready' = (ready \/ lock = t)
            /\ lock' = IF lock = t THEN None ELSE lock
    /\ UNCHANGED <<service, gyre, did, view, budget>>

Live(tok) == tok.left > 0

(* async_discover_device: the first of the devices with a known product    *)
(* key, or the first of all.                                               *)
Discovered(t) ==
    /\ tasks[t].step = "bindings" /\ Live(tasks[t].token)
    /\ \E d \in Dids : did' = d /\ Goes(t, Ensured(tasks[t], d))
    /\ ready' = TRUE /\ lock' = None
    /\ UNCHANGED <<service, token, gyre, view, budget>>

(* The service carries a command out, or reads the latest state.           *)
Served(t) ==
    /\ tasks[t].step = "sent" /\ Live(tasks[t].token)
    /\ Goes(t, [tasks[t] EXCEPT !.step = "answered", !.token = NoToken,
                               !.on = IF t = Refresh THEN latest ELSE @])
    /\ ordered' = IF t = Refresh THEN ordered ELSE tasks[t].on
    /\ UNCHANGED <<latest, token, entry, view, budget>>

(* The answer; a Gyre's view of it is GyreControl's.                       *)
Answered(t) ==
    /\ tasks[t].step = "answered"
    /\ Goes(t, Idle)
    /\ shown' = IF gyre THEN shown ELSE tasks[t].on
    /\ available' = TRUE
    /\ UNCHANGED <<service, token, entry, budget>>

StillHeld(t) == lock                     \* faulty: an error keeps the lock

Released(t) == IF lock = t THEN None ELSE lock

(* An error of either kind ends the coroutine; nothing logs in again.      *)
Ends(t) ==
    /\ Goes(t, Idle)
    /\ lock' = Released(t)
    /\ available' = (available /\ t # Refresh)
    /\ UNCHANGED <<service, token, gyre, did, ready, shown>>

Refused(t) ==
    /\ tasks[t].step \in {"bindings", "sent"} /\ ~Live(tasks[t].token)
    /\ Ends(t)
    /\ UNCHANGED budget

Breaks(t) ==
    /\ Exchanging(t) /\ Spend("faults")
    /\ Ends(t)
------------------------------------------------------------------------------
Environment == Tick \/ OwnerChanges \/ DeviceTakes \/ ServiceRevokes

Steps(t) ==
    \/ LockGranted(t) \/ TokenIssued(t) \/ LoggedIn(t) \/ Discovered(t)
    \/ Served(t) \/ Answered(t) \/ Refused(t)

Next ==
    \/ Environment
    \/ BeginRefresh
    \/ \E c \in Commands : BeginCommand(c)
    \/ \E t \in Tasks : Steps(t) \/ Breaks(t)

Spec == Init /\ [][Next]_vars

(* Exchanges end, time passes, the refresh comes again every 30 s, and     *)
(* asyncio.Lock serves its waiters in order.                               *)
Fairness ==
    /\ WF_vars(Tick) /\ WF_vars(DeviceTakes) /\ WF_vars(BeginRefresh)
    /\ \A t \in Tasks : WF_vars(Steps(t)) /\ SF_vars(LockGranted(t))

FairSpec == Spec /\ Fairness
===============================================================================
