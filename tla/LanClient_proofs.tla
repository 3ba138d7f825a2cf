---------------------------- MODULE LanClient_proofs ----------------------------
(***************************************************************************)
(* Theorems of LanClient, for all coroutines, connections and bounds.      *)
(***************************************************************************)
EXTENDS LanClientProperties, TLAPS

USE LanClientAssumption

LEMMA RefreshUnload == Refresh \in Tasks /\ Unload \in Tasks /\ Commands \subseteq Tasks
BY DEF Tasks, Callers

LEMMA GoesTypes ==
    ASSUME TypeOK, NEW t \in Tasks, NEW step \in Steps,
           NEW on \in Links \union {None}, Goes(t, step, on)
    PROVE  tasks' \in [Tasks -> [step : Steps, on : Links \union {None}]]
BY DEF TypeOK, Goes

LEMMA IdleTypes == Idle \in [step : Steps, on : Links \union {None}]
BY DEF Idle, Steps

LEMMA DroppedTypes ==
    ASSUME TypeOK
    PROVE  Dropped \in [Links -> {"up", "silent", "lost"}]
BY DEF TypeOK, Dropped

LEMMA CloseTypes ==
    ASSUME TypeOK, NEW t \in Tasks, NEW closing \in Steps, NEW next \in Steps,
           CloseTransport(t, closing, next)
    PROVE  /\ links' \in [Links -> {"up", "silent", "lost"}]
           /\ tasks' \in [Tasks -> [step : Steps, on : Links \union {None}]]
BY DroppedTypes, GoesTypes DEF CloseTransport, Await

LEMMA StopTypes ==
    ASSUME TypeOK, NEW t \in Tasks, NEW stopping \in Steps,
           NEW closing \in Steps, NEW next \in Steps,
           StopListener(t, stopping, closing, next)
    PROVE  /\ links' \in [Links -> {"up", "silent", "lost"}]
           /\ tasks' \in [Tasks -> [step : Steps, on : Links \union {None}]]
           /\ listener_task' \in Listeners \union {None}
           /\ listeners' \in [Listeners -> Links \union {None, "ready"}]
<1>1. CASE listener_task # None
  <2>1. Goes(t, stopping, None) /\ links' = links
        /\ listeners' = [listeners EXCEPT ![listener_task] = None]
    BY <1>1 DEF StopListener, Await
  <2> QED BY <2>1, GoesTypes DEF StopListener, TypeOK
<1>2. CASE listener_task = None
  <2>1. CloseTransport(t, closing, next) /\ listeners' = listeners
    BY <1>2 DEF StopListener
  <2> QED BY <2>1, CloseTypes DEF StopListener, TypeOK
<1> QED BY <1>1, <1>2

LEMMA DisconnectTypes ==
    ASSUME TypeOK, NEW t \in Tasks, Disconnect(t), UNCHANGED usage,
           unloaded' \in BOOLEAN, budget' \in [commands : Nat, faults : Nat]
    PROVE  TypeOK'
<1>1. "drop_stop" \in Steps /\ "drop_close" \in Steps /\ "idle" \in Steps
  BY DEF Steps
<1> QED BY <1>1, StopTypes DEF Disconnect, NotConnected, TypeOK

LEMMA SpendTypes ==
    ASSUME TypeOK, NEW what \in {"commands", "faults"}, Spend(what)
    PROVE  budget' \in [commands : Nat, faults : Nat]
BY DEF TypeOK, Spend

LEMMA ConnectTypes ==
    ASSUME TypeOK, NEW t \in Tasks, Connect(t),
           budget' \in [commands : Nat, faults : Nat]
    PROVE  TypeOK'
<1>1. "stop" \in Steps /\ "close" \in Steps /\ "open" \in Steps
  BY DEF Steps
<1> QED BY <1>1, StopTypes DEF Connect, TypeOK

LEMMA AnsweredTypes ==
    ASSUME TypeOK, NEW t \in Tasks, NEW next \in Steps, Answered(t, next)
    PROVE  TypeOK'
<1>1. CASE stream # None /\ (stream = tasks[t].on \/ ~Taken(stream))
  <2>1. Goes(t, next, stream) /\ UNCHANGED <<links, client, listeners>>
    BY <1>1 DEF Answered
  <2>2. stream \in Links \union {None}
    BY DEF TypeOK
  <2> QED BY <2>1, <2>2, GoesTypes DEF Answered, TypeOK, client
<1>2. CASE ~(stream # None /\ (stream = tasks[t].on \/ ~Taken(stream)))
  <2>1. Disconnect(t) /\ UNCHANGED <<unloaded, usage, budget>>
    BY <1>2 DEF Answered, HandshakeFailed
  <2> QED BY <2>1, DisconnectTypes DEF TypeOK
<1> QED BY <1>1, <1>2

LEMMA TypeStep ==
    ASSUME TypeOK, [Next]_vars
    PROVE  TypeOK'
<1>1. CASE BeginRefresh
  BY <1>1, ConnectTypes, RefreshUnload DEF BeginRefresh, TypeOK
<1>2. ASSUME NEW c \in Commands, BeginCommand(c) PROVE TypeOK'
  BY <1>2, ConnectTypes, SpendTypes, RefreshUnload DEF BeginCommand
<1>3. ASSUME NEW t \in Tasks, ListenerStopped(t) PROVE TypeOK'
  <2>1. /\ links' \in [Links -> {"up", "silent", "lost"}]
        /\ tasks' \in [Tasks -> [step : Steps, on : Links \union {None}]]
    <3>1. {"close", "open", "drop_close", "idle"} \subseteq Steps
      BY DEF Steps
    <3> QED BY <1>3, <3>1, CloseTypes DEF ListenerStopped
  <2> QED BY <1>3, <2>1 DEF ListenerStopped, TypeOK
<1>4. ASSUME NEW t \in Tasks, TransportClosed(t) PROVE TypeOK'
  <2>1. {"open", "idle"} \subseteq Steps
    BY DEF Steps
  <2>2. tasks' \in [Tasks -> [step : Steps, on : Links \union {None}]]
    BY <1>4, <2>1, GoesTypes DEF TransportClosed, Await
  <2> QED BY <1>4, <2>2, DroppedTypes DEF TransportClosed, TypeOK
<1>5. ASSUME NEW t \in Tasks, Opened(t) PROVE TypeOK'
  <2>1. PICK k \in Links : /\ links' = [Dropped EXCEPT ![k] = "up"]
                           /\ stream' = k /\ Goes(t, "info", k)
    BY <1>5 DEF Opened
  <2>2. "info" \in Steps
    BY DEF Steps, Reading
  <2>3. tasks' \in [Tasks -> [step : Steps, on : Links \union {None}]]
    BY <2>1, <2>2, GoesTypes
  <2>4. links' \in [Links -> {"up", "silent", "lost"}]
    BY <2>1, DroppedTypes
  <2> QED BY <1>5, <2>1, <2>3, <2>4 DEF Opened, TypeOK
<1>6. ASSUME NEW t \in Tasks, OpenFails(t) PROVE TypeOK'
  BY <1>6, IdleTypes, SpendTypes DEF OpenFails, TypeOK, client
<1>7. ASSUME NEW t \in Tasks, InfoArrives(t) \/ BindAcked(t) PROVE TypeOK'
  <2>1. "bind" \in Steps /\ "late" \in Steps
    BY DEF Steps, Reading
  <2> QED BY <1>7, <2>1, AnsweredTypes DEF InfoArrives, BindAcked
<1>8. ASSUME NEW t \in Tasks, HandshakeBreaks(t) PROVE TypeOK'
  BY <1>8, DisconnectTypes, SpendTypes DEF HandshakeBreaks, HandshakeFailed, TypeOK
<1>9. ASSUME NEW t \in Tasks, HandshakeEnds(t) PROVE TypeOK'
  <2>1. CASE usage = "probe"
    BY <1>9, <2>1, DisconnectTypes DEF HandshakeEnds, TypeOK
  <2>2. CASE usage # "probe"
    BY <1>9, <2>2, IdleTypes DEF HandshakeEnds, TypeOK
  <2> QED BY <2>1, <2>2
<1>10. CASE Shutdown
  BY <1>10, DisconnectTypes, RefreshUnload DEF Shutdown, TypeOK
<1>11. ASSUME NEW l \in Listeners, Listens(l) PROVE TypeOK'
  BY <1>11 DEF Listens, LinkNoticed, Loops, Ends, NotConnected, IsConnected, TypeOK
<1>12. ASSUME NEW k \in Links, LinkLost(k) \/ LinkGoesSilent(k) \/ TcpGivesUp(k)
       PROVE  TypeOK'
  <2>1. budget' \in [commands : Nat, faults : Nat]
    BY <1>12, SpendTypes DEF LinkLost, LinkGoesSilent, TcpGivesUp, TypeOK
  <2>2. links' \in [Links -> {"up", "silent", "lost"}]
    BY <1>12 DEF LinkLost, LinkGoesSilent, TcpGivesUp, LinkChanges, TypeOK
  <2>3. UNCHANGED <<client, listeners, tasks, unloaded, usage>>
    BY <1>12 DEF LinkLost, LinkGoesSilent, TcpGivesUp, LinkChanges
  <2> QED BY <2>1, <2>2, <2>3 DEF TypeOK, client
<1>13. CASE UNCHANGED vars
  BY <1>13 DEF vars, client, TypeOK
<1> QED BY <1>1, <1>2, <1>3, <1>4, <1>5, <1>6, <1>7, <1>8, <1>9, <1>10, <1>11,
           <1>12, <1>13 DEF Next, Proceeds

(* Every variable keeps its type, for all coroutines, connections, bounds.  *)
THEOREM LanTypeCorrect == Spec => []TypeOK
<1>1. ASSUME Init PROVE TypeOK
  <2>1. tasks \in [Tasks -> [step : Steps, on : Links \union {None}]]
    BY <1>1, IdleTypes DEF Init
  <2>2. links \in [Links -> {"up", "silent", "lost"}]
    BY <1>1 DEF Init
  <2> QED BY <1>1, <2>1, <2>2 DEF Init, TypeOK
<1>2. TypeOK /\ [Next]_vars => TypeOK'
  BY TypeStep
<1> QED BY <1>1, <1>2, PTL DEF Spec
------------------------------------------------------------------------------
(* Only a coroutine that awaits an answer reads a connection.              *)
OnTells == \A t \in Tasks : tasks[t].on # None => tasks[t].step \in Reading

LEMMA GoesTask ==
    ASSUME TypeOK, NEW t \in Tasks, NEW step, NEW on, Goes(t, step, on)
    PROVE  /\ tasks'[t].step = step /\ tasks'[t].on = on
           /\ \A u \in Tasks : u # t => tasks'[u] = tasks[u]
BY DEF Goes, TypeOK

LEMMA CloseTask ==
    ASSUME TypeOK, NEW t \in Tasks, NEW closing, NEW next,
           CloseTransport(t, closing, next)
    PROVE  /\ links' = Dropped
           /\ tasks'[t].step = (IF stream # None THEN closing ELSE next)
           /\ tasks'[t].on = None
           /\ \A u \in Tasks : u # t => tasks'[u] = tasks[u]
BY GoesTask DEF CloseTransport, Await

LEMMA StopTask ==
    ASSUME TypeOK, NEW t \in Tasks, NEW stopping, NEW closing, NEW next,
           StopListener(t, stopping, closing, next)
    PROVE  /\ listener_task' = None
           /\ \A l \in Listeners :
                 listeners'[l] = IF l = listener_task THEN None ELSE listeners[l]
           /\ tasks'[t].on = None
           /\ tasks'[t].step \in {stopping, closing, next}
           /\ \A u \in Tasks : u # t => tasks'[u] = tasks[u]
           /\ IF listener_task # None
              THEN tasks'[t].step = stopping /\ links' = links
              ELSE /\ links' = Dropped
                   /\ tasks'[t].step = (IF stream # None THEN closing ELSE next)
<1>1. CASE listener_task # None
  <2>1. Goes(t, stopping, None) /\ links' = links
        /\ listeners' = [listeners EXCEPT ![listener_task] = None]
    BY <1>1 DEF StopListener, Await
  <2> QED BY <1>1, <2>1, GoesTask DEF StopListener, TypeOK
<1>2. CASE listener_task = None
  <2>1. CloseTransport(t, closing, next) /\ listeners' = listeners
    BY <1>2 DEF StopListener
  <2> QED BY <1>2, <2>1, CloseTask DEF StopListener, TypeOK
<1> QED BY <1>1, <1>2

HearInv == TypeOK /\ OnTells /\ HeardInv

LEMMA DisconnectHeard ==
    ASSUME HearInv, NEW t \in Tasks, Disconnect(t)
    PROVE  OnTells' /\ HeardInv'
<1>1. TypeOK /\ OnTells
  BY DEF HearInv
<1>2. OnTells'
  BY <1>1, StopTask DEF Disconnect, OnTells
<1>3. HeardInv'
  BY DEF Disconnect, NotConnected, HeardInv, IsConnected
<1> QED BY <1>2, <1>3

LEMMA AnsweredHeard ==
    ASSUME HearInv, NEW t \in Tasks, NEW next \in Reading, Answered(t, next)
    PROVE  OnTells' /\ HeardInv'
<1>1. CASE stream # None /\ (stream = tasks[t].on \/ ~Taken(stream))
  <2>1. Goes(t, next, stream)
    BY <1>1 DEF Answered
  <2>2. tasks'[t].step \in Reading /\ \A u \in Tasks : u # t => tasks'[u] = tasks[u]
    BY <2>1, GoesTask DEF HearInv
  <2> QED BY <2>2 DEF HearInv, OnTells, HeardInv
<1>2. CASE ~(stream # None /\ (stream = tasks[t].on \/ ~Taken(stream)))
  BY <1>2, DisconnectHeard DEF Answered, HandshakeFailed
<1> QED BY <1>1, <1>2

LEMMA HeardStep ==
    ASSUME HearInv, [Next]_vars
    PROVE  OnTells' /\ HeardInv'
<1>0. TypeOK /\ OnTells /\ HeardInv
  BY DEF HearInv
<1>1. ASSUME NEW t \in Tasks, Connect(t) PROVE OnTells' /\ HeardInv'
  <2>1. ~IsConnected'
    BY <1>1 DEF Connect, IsConnected
  <2>2. OnTells'
    BY <1>0, <1>1, StopTask DEF Connect, OnTells
  <2> QED BY <2>1, <2>2 DEF HeardInv
<1>2. CASE BeginRefresh
  BY <1>1, <1>2, RefreshUnload DEF BeginRefresh
<1>3. ASSUME NEW c \in Commands, BeginCommand(c) PROVE OnTells' /\ HeardInv'
  BY <1>1, <1>3, RefreshUnload DEF BeginCommand
<1>4. ASSUME NEW t \in Tasks, ListenerStopped(t) PROVE OnTells' /\ HeardInv'
  <2>1. /\ tasks'[t].on = None
        /\ \A u \in Tasks : u # t => tasks'[u] = tasks[u]
    BY <1>0, <1>4, CloseTask DEF ListenerStopped
  <2>2. tasks[t].step \notin Reading
    BY <1>4 DEF ListenerStopped, Reading
  <2>3. UNCHANGED <<stream, connected, listeners>>
    BY <1>4 DEF ListenerStopped
  <2> QED BY <1>0, <2>1, <2>2, <2>3 DEF OnTells, HeardInv, IsConnected, HearsStream
<1>5. ASSUME NEW t \in Tasks, TransportClosed(t) PROVE OnTells' /\ HeardInv'
  <2>1. /\ tasks'[t].on = None
        /\ \A u \in Tasks : u # t => tasks'[u] = tasks[u]
    BY <1>0, <1>5, GoesTask DEF TransportClosed, Await
  <2>2. ~IsConnected'
    BY <1>5 DEF TransportClosed, IsConnected
  <2> QED BY <1>0, <2>1, <2>2 DEF OnTells, HeardInv
<1>6. ASSUME NEW t \in Tasks, Opened(t) PROVE OnTells' /\ HeardInv'
  <2>1. tasks'[t].step = "info" /\ \A u \in Tasks : u # t => tasks'[u] = tasks[u]
    BY <1>0, <1>6, GoesTask DEF Opened
  <2> QED BY <1>0, <2>1 DEF OnTells, HeardInv, Reading
<1>7. ASSUME NEW t \in Tasks, OpenFails(t) PROVE OnTells' /\ HeardInv'
  <2>1. tasks' = [tasks EXCEPT ![t] = Idle] /\ UNCHANGED <<client, listeners>>
    BY <1>7 DEF OpenFails
  <2>2. tasks[t].step \notin Reading
    BY <1>7 DEF OpenFails, Reading
  <2>3. /\ tasks'[t].on = None
        /\ \A u \in Tasks : u # t => tasks'[u] = tasks[u]
    BY <1>0, <2>1 DEF Idle, TypeOK
  <2> QED BY <1>0, <2>1, <2>2, <2>3 DEF client, OnTells, HeardInv, IsConnected, HearsStream
<1>8. ASSUME NEW t \in Tasks, InfoArrives(t) \/ BindAcked(t)
      PROVE  OnTells' /\ HeardInv'
  BY <1>8, AnsweredHeard DEF InfoArrives, BindAcked, Reading
<1>9. ASSUME NEW t \in Tasks, HandshakeBreaks(t) PROVE OnTells' /\ HeardInv'
  BY <1>9, DisconnectHeard DEF HandshakeBreaks, HandshakeFailed
<1>10. ASSUME NEW t \in Tasks, HandshakeEnds(t) PROVE OnTells' /\ HeardInv'
  <2>1. CASE usage = "probe"
    BY <1>10, <2>1, DisconnectHeard DEF HandshakeEnds
  <2>2. CASE usage # "probe"
    <3>1. PICK l \in Listeners : listeners' = [listeners EXCEPT ![l] = "ready"]
      BY <1>10, <2>2 DEF HandshakeEnds
    <3>2. listeners'[l] = "ready"
      BY <1>0, <3>1 DEF TypeOK
    <3>3. tasks' = [tasks EXCEPT ![t] = Idle]
      BY <1>10, <2>2 DEF HandshakeEnds
    <3>4. /\ tasks'[t].on = None
          /\ \A u \in Tasks : u # t => tasks'[u] = tasks[u]
      BY <1>0, <3>3 DEF Idle, TypeOK
    <3> QED BY <1>0, <3>2, <3>4 DEF OnTells, HeardInv, HearsStream
  <2> QED BY <2>1, <2>2
<1>11. CASE Shutdown
  BY <1>11, DisconnectHeard, RefreshUnload DEF Shutdown
<1>12. ASSUME NEW l \in Listeners, Listens(l) PROVE OnTells' /\ HeardInv'
  <2>1. UNCHANGED <<stream, tasks>>
    BY <1>12 DEF Listens
  <2>2. CASE connected' = FALSE
    BY <1>0, <2>1, <2>2 DEF OnTells, HeardInv, IsConnected
  <2>3. CASE Loops(l)
    <3>1. CASE ~IsConnected
      <4>1. ~IsConnected'
        BY <2>1, <2>3, <3>1 DEF Loops, IsConnected
      <4> QED BY <1>0, <2>1, <4>1 DEF OnTells, HeardInv
    <3>2. CASE IsConnected /\ Open(stream) /\ Taken(stream) /\ listeners[l] # stream
      <4>1. stream # None
        BY <3>2 DEF IsConnected
      <4>2. listeners' = [listeners EXCEPT ![l] = None]
        BY <2>3, <3>2 DEF Loops, Ends
      <4>3. CASE \E t \in Tasks : tasks[t].on = stream
        BY <1>0, <2>1, <4>1, <4>3 DEF OnTells, HeardInv
      <4>4. CASE \E m \in Listeners : listeners[m] = stream
        <5>1. PICK m \in Listeners : listeners[m] = stream
          BY <4>4
        <5>2. m # l /\ listeners'[m] = stream
          BY <1>0, <3>2, <4>2, <5>1 DEF TypeOK
        <5> QED BY <1>0, <2>1, <5>2 DEF OnTells, HeardInv, HearsStream
      <4> QED BY <3>2, <4>3, <4>4 DEF Taken
    <3>3. CASE IsConnected /\ Open(stream) /\ ~(Taken(stream) /\ listeners[l] # stream)
      <4>1. listeners' = [listeners EXCEPT ![l] = stream]
        BY <2>3, <3>3 DEF Loops
      <4>2. listeners'[l] = stream'
        BY <1>0, <2>1, <4>1 DEF TypeOK
      <4> QED BY <1>0, <2>1, <4>2 DEF OnTells, HeardInv, HearsStream
    <3>4. CASE IsConnected /\ ~Open(stream)
      BY <2>2, <2>3, <3>4 DEF Loops, LinkNoticed, NotConnected
    <3> QED BY <3>1, <3>2, <3>3, <3>4
  <2> QED BY <1>12, <2>2, <2>3 DEF Listens, LinkNoticed, NotConnected
<1>13. ASSUME NEW k \in Links, LinkLost(k) \/ LinkGoesSilent(k) \/ TcpGivesUp(k)
       PROVE  OnTells' /\ HeardInv'
  <2>1. UNCHANGED <<client, listeners, tasks>>
    BY <1>13 DEF LinkLost, LinkGoesSilent, TcpGivesUp, LinkChanges
  <2> QED BY <1>0, <2>1 DEF client, OnTells, HeardInv, IsConnected, HearsStream
<1>14. CASE UNCHANGED vars
  BY <1>0, <1>14 DEF vars, client, OnTells, HeardInv, IsConnected, HearsStream
<1> QED BY <1>2, <1>3, <1>4, <1>5, <1>6, <1>7, <1>8, <1>9, <1>10, <1>11,
           <1>12, <1>13, <1>14 DEF Next, Proceeds

(* A client that counts as connected while nobody is connecting has a       *)
(* listener on its connection, for any number of overlapping connects.      *)
THEOREM ConnectedAlwaysHeard == Spec => []ConnectedIsHeard
<1>1. ASSUME Init PROVE OnTells /\ HeardInv
  BY <1>1 DEF Init, OnTells, HeardInv, IsConnected, Idle
<1>2. TypeOK /\ (OnTells /\ HeardInv) /\ [Next]_vars => (OnTells /\ HeardInv)'
  BY HeardStep DEF HearInv
<1>3. TypeOK /\ HeardInv => ConnectedIsHeard
  <2>1. \A t \in Tasks : tasks[t].step \in Reading => Busy(t)
    BY DEF Reading, Busy, Idle
  <2> QED BY <2>1 DEF HeardInv, ConnectedIsHeard, Idling
<1> QED BY <1>1, <1>2, <1>3, LanTypeCorrect, PTL DEF Spec
------------------------------------------------------------------------------
(* One coroutine at a time.                                                *)
Alone == TypeOK /\ OnTells /\ SerialInv /\ usage # "free"

LEMMA AloneFacts ==
    ASSUME Alone
    PROVE  /\ TypeOK /\ OnTells
           /\ \A t, u \in Tasks : Busy(t) /\ Busy(u) => t = u
           /\ \A t \in Tasks : StepTells(t)
           /\ \A l \in Listeners : listeners[l] # None => l = listener_task
           /\ \A k \in Links : Open(k) => k = stream
           /\ connected => stream # None
           /\ listener_task # None => connected
           /\ NothingOutlives
BY DEF Alone, SerialInv

LEMMA BusyStep ==
    ASSUME TypeOK, OnTells
    PROVE  \A t \in Tasks : Busy(t) <=> tasks[t].step # "idle"
<1>1. ASSUME NEW t \in Tasks, tasks[t].step = "idle" PROVE tasks[t] = Idle
  <2>1. tasks[t].on = None
    BY <1>1 DEF OnTells, Reading
  <2> QED BY <1>1, <2>1 DEF TypeOK, Idle
<1> QED BY <1>1 DEF Busy, Idle

(* What is left to show of a step: where its coroutine is, what it left.   *)
LEMMA SerialAfter ==
    ASSUME Alone, TypeOK', OnTells', NEW t \in Tasks,
           \A u \in Tasks : u # t => tasks'[u] = tasks[u] /\ ~Busy(u),
           StepTells(t)', usage' = usage,
           \A l \in Listeners : listeners'[l] # None => l = listener_task',
           \A k \in Links : Open(k)' => k = stream',
           connected' => stream' # None,
           listener_task' # None => connected',
           NothingOutlives'
    PROVE  SerialInv'
<1>1. \A u \in Tasks : u # t => tasks'[u].step = "idle" /\ ~Busy(u)'
  BY DEF Busy, Idle
<1>2. \A u \in Tasks : u # t => StepTells(u)'
  BY <1>1 DEF StepTells, Reading
<1>3. \A u \in Tasks : StepTells(u)'
  BY <1>2
<1>4. \A u, v \in Tasks : Busy(u)' /\ Busy(v)' => u = v
  BY <1>1
<1> QED BY <1>3, <1>4 DEF SerialInv

LEMMA DroppedLeaves ==
    ASSUME Alone, links' = Dropped
    PROVE  \A k \in Links : ~Open(k)'
BY AloneFacts DEF Dropped, Open, TypeOK

LEMMA OthersIdle ==
    ASSUME Alone, NEW t \in Tasks, Busy(t)
    PROVE  \A u \in Tasks : u # t => ~Busy(u)
BY AloneFacts

LEMMA DisconnectAlone ==
    ASSUME Alone, TypeOK', OnTells', NEW t \in Tasks, Disconnect(t), UNCHANGED usage,
           \A u \in Tasks : u # t => ~Busy(u),
           unloaded' => t = Unload
    PROVE  SerialInv'
<1>1. /\ listener_task' = None
      /\ \A l \in Listeners :
            listeners'[l] = IF l = listener_task THEN None ELSE listeners[l]
      /\ tasks'[t].step \in {"drop_stop", "drop_close", "idle"}
      /\ \A u \in Tasks : u # t => tasks'[u] = tasks[u]
      /\ IF listener_task # None
         THEN tasks'[t].step = "drop_stop" /\ links' = links
         ELSE /\ links' = Dropped
              /\ tasks'[t].step = (IF stream # None THEN "drop_close" ELSE "idle")
  BY AloneFacts, StopTask DEF Disconnect
<1>2. connected' = FALSE /\ stream' = stream
  BY DEF Disconnect, NotConnected
<1>3. NoListener'
  BY <1>1, AloneFacts DEF NoListener
<1>4. StepTells(t)'
  BY <1>1, <1>2, <1>3 DEF StepTells, Reading
<1>5. \A k \in Links : Open(k)' => k = stream'
  <2>1. CASE links' = links
    BY <1>2, <2>1, AloneFacts DEF Open
  <2>2. CASE links' = Dropped
    BY <2>2, DroppedLeaves
  <2> QED BY <1>1, <2>1, <2>2
<1>6. NothingOutlives'
  <2>1. ASSUME Idling' PROVE stream' = None /\ \A k \in Links : ~Open(k)'
    <3>1. tasks'[t].step = "idle"
      BY <2>1 DEF Idling, Busy, Idle
    <3>2. links' = Dropped /\ stream = None
      BY <1>1, <3>1
    <3> QED BY <1>2, <3>2, DroppedLeaves
  <2> QED BY <1>2, <1>3, <2>1 DEF NothingOutlives, NoListener
<1> QED BY <1>1, <1>2, <1>3, <1>4, <1>5, <1>6, SerialAfter DEF NoListener

LEMMA ConnectAlone ==
    ASSUME Alone, TypeOK', OnTells', NEW t \in Callers, Connect(t), MayStart
    PROVE  SerialInv'
<1>1. t \in Tasks /\ t # Unload
  BY DEF Tasks, Callers, Refresh, Unload
<1>2. ~connected /\ listener_task = None /\ NoListener
  BY AloneFacts DEF Connect, IsConnected, NoListener, TypeOK
<1>3. /\ listener_task' = None
      /\ \A l \in Listeners : listeners'[l] = None
      /\ \A u \in Tasks : u # t => tasks'[u] = tasks[u]
      /\ links' = Dropped
      /\ tasks'[t].step = (IF stream # None THEN "close" ELSE "open")
  BY <1>1, <1>2, AloneFacts, StopTask DEF Connect, NoListener
<1>4. stream' = stream /\ connected' = FALSE /\ unloaded' = FALSE /\ usage' = usage
  BY <1>2, AloneFacts DEF Connect, MayStart, TypeOK
<1>5. StepTells(t)'
  BY <1>1, <1>3, <1>4 DEF StepTells, NoListener, Reading
<1>6. \A k \in Links : ~Open(k)'
  BY <1>3, DroppedLeaves
<1>7. NothingOutlives'
  BY <1>1, <1>3 DEF NothingOutlives, Idling, Busy, Idle
<1>8. \A u \in Tasks : ~Busy(u)
  BY DEF MayStart, Alone
<1> QED BY <1>1, <1>3, <1>4, <1>5, <1>6, <1>7, <1>8, SerialAfter
LEMMA SerialStep ==
    ASSUME Alone, TypeOK', OnTells', [Next]_vars
    PROVE  SerialInv'
<1>0. TypeOK /\ OnTells /\ usage # "free"
  BY DEF Alone
<1>1. CASE BeginRefresh
  BY <1>1, ConnectAlone DEF BeginRefresh, Callers
<1>2. ASSUME NEW c \in Commands, BeginCommand(c) PROVE SerialInv'
  BY <1>2, ConnectAlone DEF BeginCommand, Callers
<1>3. ASSUME NEW t \in Tasks, ListenerStopped(t) PROVE SerialInv'
  <2>1. tasks[t].step = "drop_stop" /\ Busy(t)
    BY <1>0, <1>3, AloneFacts, BusyStep DEF ListenerStopped, StepTells
  <2>2. CloseTransport(t, "drop_close", "idle")
    BY <1>3, <2>1 DEF ListenerStopped
  <2>3. /\ links' = Dropped
        /\ tasks'[t].step = (IF stream # None THEN "drop_close" ELSE "idle")
        /\ \A u \in Tasks : u # t => tasks'[u] = tasks[u]
    BY <1>0, <2>2, CloseTask
  <2>4. connected = FALSE /\ NoListener /\ listener_task = None
    BY <1>0, <2>1, AloneFacts DEF StepTells, TypeOK
  <2>5. UNCHANGED <<stream, connected, listeners, unloaded, usage>> /\ listener_task' = None
    BY <1>3 DEF ListenerStopped
  <2>6. StepTells(t)'
    BY <2>1, <2>3, <2>4, <2>5, AloneFacts DEF StepTells, NoListener, Reading
  <2>7. NothingOutlives'
    <3>1. Idling' => stream' = None
      BY <2>3, <2>5 DEF Idling, Busy, Idle
    <3> QED BY <2>3, <2>4, <2>5, <3>1, DroppedLeaves DEF NothingOutlives, NoListener
  <2> QED BY <1>0, <2>1, <2>3, <2>4, <2>5, <2>6, <2>7, OthersIdle, DroppedLeaves,
             SerialAfter DEF NoListener
<1>4. ASSUME NEW t \in Tasks, TransportClosed(t) PROVE SerialInv'
  <2>1. tasks[t].step \in {"close", "drop_close"} /\ Busy(t)
    BY <1>0, <1>4, BusyStep DEF TransportClosed
  <2>2. connected = FALSE /\ NoListener /\ listener_task = None
    BY <1>0, <2>1, AloneFacts DEF StepTells, TypeOK
  <2>3. /\ links' = Dropped /\ stream' = None
        /\ UNCHANGED <<connected, listener_task, listeners, unloaded, usage>>
    BY <1>4 DEF TransportClosed
  <2>4. /\ tasks'[t].step = (IF tasks[t].step = "close" THEN "open" ELSE "idle")
        /\ \A u \in Tasks : u # t => tasks'[u] = tasks[u]
    BY <1>0, <1>4, GoesTask DEF TransportClosed, Await
  <2>5. StepTells(t)'
    BY <2>1, <2>2, <2>3, <2>4, AloneFacts DEF StepTells, NoListener, Reading
  <2>6. \A k \in Links : ~Open(k)'
    BY <2>3, DroppedLeaves
  <2>7. NothingOutlives'
    BY <2>2, <2>3, <2>6 DEF NothingOutlives, NoListener
  <2> QED BY <1>0, <2>1, <2>2, <2>3, <2>4, <2>5, <2>6, <2>7, OthersIdle, SerialAfter
          DEF NoListener
<1>5. ASSUME NEW t \in Tasks, Opened(t) PROVE SerialInv'
  <2>1. tasks[t].step = "open" /\ Busy(t)
    BY <1>0, <1>5, BusyStep DEF Opened
  <2>2. stream = None /\ NoListener /\ listener_task = None /\ t # Unload /\ ~unloaded
    BY <2>1, AloneFacts DEF StepTells
  <2>3. PICK k \in Links : /\ links' = [Dropped EXCEPT ![k] = "up"]
                           /\ stream' = k /\ Goes(t, "info", k)
    BY <1>5 DEF Opened
  <2>4. \A j \in Links : Dropped[j] = "lost"
    BY <2>2, AloneFacts DEF Dropped, Open
  <2>5. \A j \in Links : Open(j)' => j = stream'
    BY <2>3, <2>4 DEF Open, Dropped
  <2>6. connected' = TRUE /\ UNCHANGED <<listener_task, listeners, unloaded, usage>>
    BY <1>5 DEF Opened
  <2>7. tasks'[t].step = "info" /\ \A u \in Tasks : u # t => tasks'[u] = tasks[u]
    BY <1>0, <2>3, GoesTask
  <2>8. StepTells(t)'
    BY <2>2, <2>6, <2>7 DEF StepTells, NoListener
  <2>9. NothingOutlives'
    BY <2>7 DEF NothingOutlives, Idling, Busy, Idle
  <2>10. stream' # None
    BY <2>3
  <2> QED BY <1>0, <2>1, <2>2, <2>5, <2>6, <2>7, <2>8, <2>9, <2>10, OthersIdle, SerialAfter
          DEF NoListener
<1>6. ASSUME NEW t \in Tasks, OpenFails(t) PROVE SerialInv'
  <2>1. tasks[t].step = "open" /\ Busy(t)
    BY <1>0, <1>6, BusyStep DEF OpenFails
  <2>2. stream = None /\ NoListener /\ listener_task = None /\ ~connected
    BY <2>1, AloneFacts DEF StepTells
  <2>3. UNCHANGED <<links, stream, connected, listener_task, listeners, unloaded, usage>>
    BY <1>6 DEF OpenFails, client
  <2>4. tasks'[t].step = "idle" /\ \A u \in Tasks : u # t => tasks'[u] = tasks[u]
    BY <1>0, <1>6 DEF OpenFails, Idle, TypeOK
  <2>5. \A k \in Links : ~Open(k)'
    BY <2>2, <2>3, AloneFacts DEF Open
  <2>6. StepTells(t)'
    BY <2>4 DEF StepTells, Reading
  <2>7. NothingOutlives'
    BY <2>2, <2>3, <2>5 DEF NothingOutlives, NoListener
  <2> QED BY <1>0, <2>1, <2>2, <2>3, <2>4, <2>5, <2>6, <2>7, OthersIdle, SerialAfter
          DEF NoListener
<1>7. ASSUME NEW t \in Tasks, tasks[t].step \in Reading
      PROVE  Busy(t) /\ t # Unload /\ ~unloaded /\ connected /\ NoListener /\ listener_task = None
  <2>1. Busy(t)
    BY <1>0, <1>7, BusyStep DEF Reading
  <2> QED BY <1>7, <2>1, AloneFacts DEF StepTells, Reading
<1>8. ASSUME NEW t \in Tasks, NEW next \in Reading, tasks[t].step \in Reading,
             Answered(t, next)
      PROVE  SerialInv'
  <2>1. CASE stream # None /\ (stream = tasks[t].on \/ ~Taken(stream))
    <3>1. Goes(t, next, stream) /\ UNCHANGED <<links, client, listeners, unloaded, usage>>
      BY <1>8, <2>1 DEF Answered
    <3>2. tasks'[t].step = next /\ \A u \in Tasks : u # t => tasks'[u] = tasks[u]
      BY <1>0, <3>1, GoesTask
    <3>3. StepTells(t)'
      BY <1>7, <1>8, <3>1, <3>2 DEF StepTells, Reading, client, NoListener
    <3>4. NothingOutlives'
      BY <3>2 DEF NothingOutlives, Idling, Busy, Idle, Reading
    <3>5. UNCHANGED <<links, stream, connected, listener_task, listeners>>
      BY <3>1 DEF client
    <3> QED BY <1>0, <1>7, <1>8, <3>1, <3>2, <3>3, <3>4, <3>5, OthersIdle, AloneFacts, SerialAfter
            DEF Open
  <2>2. CASE ~(stream # None /\ (stream = tasks[t].on \/ ~Taken(stream)))
    <3>1. Disconnect(t) /\ UNCHANGED <<usage, unloaded>>
      BY <1>8, <2>2 DEF Answered, HandshakeFailed
    <3> QED BY <1>7, <1>8, <3>1, OthersIdle, DisconnectAlone
  <2> QED BY <2>1, <2>2
<1>9. ASSUME NEW t \in Tasks, InfoArrives(t) \/ BindAcked(t) PROVE SerialInv'
  BY <1>8, <1>9 DEF InfoArrives, BindAcked, Reading
<1>10. ASSUME NEW t \in Tasks, HandshakeBreaks(t) PROVE SerialInv'
  BY <1>7, <1>10, OthersIdle, DisconnectAlone DEF HandshakeBreaks, HandshakeFailed
<1>11. ASSUME NEW t \in Tasks, HandshakeEnds(t) PROVE SerialInv'
  <2>1. tasks[t].step \in Reading
    BY <1>11 DEF HandshakeEnds, Reading
  <2>2. CASE usage = "probe"
    BY <1>7, <1>11, <2>1, <2>2, OthersIdle, DisconnectAlone DEF HandshakeEnds
  <2>3. CASE usage # "probe"
    <3>1. PICK l \in Listeners : /\ listener_task' = l
                                 /\ listeners' = [listeners EXCEPT ![l] = "ready"]
      BY <1>11, <2>3 DEF HandshakeEnds
    <3>2. /\ tasks' = [tasks EXCEPT ![t] = Idle]
          /\ UNCHANGED <<links, stream, connected, unloaded, usage>>
      BY <1>11, <2>3 DEF HandshakeEnds
    <3>3. tasks'[t].step = "idle" /\ \A u \in Tasks : u # t => tasks'[u] = tasks[u]
      BY <1>0, <3>2 DEF Idle, TypeOK
    <3>4. \A m \in Listeners : listeners'[m] # None => m = listener_task'
      BY <1>0, <1>7, <2>1, <3>1 DEF NoListener, TypeOK
    <3>5. StepTells(t)'
      BY <3>3 DEF StepTells, Reading
    <3>6. NothingOutlives'
      BY <1>7, <2>1, <2>3, <3>2 DEF NothingOutlives
    <3>7. connected' /\ stream' # None /\ \A k \in Links : Open(k)' => k = stream'
      BY <1>7, <2>1, <3>2, AloneFacts DEF Open
    <3> QED BY <1>0, <1>7, <2>1, <3>2, <3>3, <3>4, <3>5, <3>6, <3>7, OthersIdle, SerialAfter
  <2> QED BY <2>2, <2>3
<1>12. CASE Shutdown
  <2>1. \A u \in Tasks : ~Busy(u)
    BY <1>0, <1>12 DEF Shutdown, MayStart
  <2> QED BY <1>12, <2>1, RefreshUnload, DisconnectAlone DEF Shutdown
<1>13. ASSUME NEW l \in Listeners, Listens(l) PROVE SerialInv'
  <2>1. UNCHANGED <<links, stream, tasks, unloaded, usage>> /\ listeners[l] # None
    BY <1>13 DEF Listens
  <2>2. l = listener_task /\ connected /\ IsConnected
    BY <1>0, <2>1, AloneFacts DEF IsConnected
  <2>3. \A t \in Tasks : ~Busy(t) /\ tasks[t].on = None
    BY <1>0, <2>1, AloneFacts, BusyStep DEF StepTells, NoListener, Busy, Idle
  <2>4. listeners[l] # stream => ~Taken(stream)
    <3>1. \A m \in Listeners : listeners[m] # None => m = l
      BY <2>2, AloneFacts
    <3> QED BY <2>2, <2>3, <3>1 DEF Taken, IsConnected
  <2>5. \/ /\ listeners' = [listeners EXCEPT ![l] = stream]
           /\ UNCHANGED <<connected, listener_task>>
        \/ LinkNoticed(l)
    BY <1>13, <2>2, <2>4 DEF Listens, Loops
  <2>6. /\ \A m \in Listeners : listeners'[m] # None => m = listener_task'
        /\ listener_task' # None => connected'
        /\ connected' => connected
    BY <1>0, <2>2, <2>5, AloneFacts, ZenonT(30) DEF LinkNoticed, NotConnected, Ends, TypeOK
  <2>7. NothingOutlives'
    BY <2>1, <2>2, <2>3, AloneFacts DEF NothingOutlives, Idling
  <2>8. \A t \in Tasks : StepTells(t)'
    <3>1. \A t \in Tasks : tasks'[t].step = "idle"
      BY <1>0, <2>1, <2>3 DEF Busy, Idle
    <3> QED BY <3>1 DEF StepTells, Reading
  <2>9. \A t \in Tasks : ~Busy(t)'
    BY <2>1, <2>3 DEF Busy
  <2>10. (connected' => stream' # None) /\ \A k \in Links : Open(k)' => k = stream'
    BY <2>1, <2>6, AloneFacts DEF Open
  <2> QED BY <2>6, <2>7, <2>8, <2>9, <2>10 DEF SerialInv
<1>14. ASSUME NEW k \in Links, LinkLost(k) \/ LinkGoesSilent(k) \/ TcpGivesUp(k)
       PROVE  SerialInv'
  <2>1. UNCHANGED <<stream, connected, listener_task, listeners, tasks, unloaded, usage>>
    BY <1>14 DEF LinkLost, LinkGoesSilent, TcpGivesUp, LinkChanges, client
  <2>2. \A j \in Links : Open(j)' => Open(j)
    BY <1>0, <1>14 DEF LinkLost, LinkGoesSilent, TcpGivesUp, LinkChanges, Open, TypeOK
  <2>3. NothingOutlives'
    BY <2>1, <2>2, AloneFacts DEF NothingOutlives, Idling, Busy
  <2>4. \A t \in Tasks : StepTells(t)'
    BY <2>1, AloneFacts DEF StepTells, NoListener
  <2>5. \A t, u \in Tasks : Busy(t)' /\ Busy(u)' => t = u
    BY <2>1, AloneFacts DEF Busy
  <2> QED BY <2>1, <2>2, <2>3, <2>4, <2>5, AloneFacts DEF SerialInv
<1>15. CASE UNCHANGED vars
  <2>1. UNCHANGED <<links, stream, connected, listener_task, listeners, tasks, unloaded, usage>>
    BY <1>15 DEF vars, client
  <2> QED BY <2>1, AloneFacts DEF SerialInv, StepTells, NoListener, NothingOutlives,
             Idling, Busy, Open
<1> QED BY <1>1, <1>2, <1>3, <1>4, <1>5, <1>6, <1>9, <1>10, <1>11, <1>12, <1>13,
           <1>14, <1>15 DEF Next, Proceeds

LEMMA UsageStays ==
    ASSUME [Next]_vars
    PROVE  usage' = usage
BY DEF Next, Proceeds, BeginRefresh, BeginCommand, Connect, ListenerStopped,
       TransportClosed, Opened, OpenFails, InfoArrives, BindAcked, Answered,
       HandshakeBreaks, HandshakeEnds, Shutdown, Listens, LinkLost, LinkGoesSilent,
       TcpGivesUp, LinkChanges, vars

(* A client that is shut down while nobody is connecting, or that is only   *)
(* validated, leaves no connection and no listener, whatever fails.         *)
THEOREM NothingEverOutlives == Spec => []NothingOutlives
<1> DEFINE I == TypeOK /\ OnTells /\ HeardInv /\ SerialInv
<1>1. ASSUME Init PROVE I
  <2>1. TypeOK /\ OnTells /\ HeardInv
    <3>1. tasks \in [Tasks -> [step : Steps, on : Links \union {None}]]
      BY <1>1, IdleTypes DEF Init
    <3>2. links \in [Links -> {"up", "silent", "lost"}]
      BY <1>1 DEF Init
    <3>3. TypeOK
      BY <1>1, <3>1, <3>2 DEF Init, TypeOK
    <3> QED BY <1>1, <3>3 DEF Init, OnTells, HeardInv, IsConnected, Idle
  <2>2. NothingOutlives
    BY <1>1 DEF Init, NothingOutlives, Open
  <2>3. \A t \in Tasks : tasks[t] = Idle
    BY <1>1 DEF Init
  <2>4. \A t \in Tasks : StepTells(t)
    BY <2>3 DEF StepTells, Idle, Reading
  <2>5. SerialInv
    BY <1>1, <2>2, <2>3, <2>4 DEF Init, SerialInv, Busy, Open
  <2> QED BY <2>1, <2>5
<1>2. ASSUME I, [Next]_vars PROVE I'
  <2>1. TypeOK'
    BY <1>2, TypeStep
  <2>2. OnTells' /\ HeardInv'
    BY <1>2, HeardStep DEF HearInv
  <2>3. SerialInv'
    BY <1>2, <2>1, <2>2, SerialStep, UsageStays DEF Alone, SerialInv
  <2> QED BY <2>1, <2>2, <2>3
<1>3. I => NothingOutlives
  BY DEF SerialInv, NothingOutlives
<1> HIDE DEF I
<1> QED BY <1>1, <1>2, <1>3, PTL DEF Spec
===============================================================================
