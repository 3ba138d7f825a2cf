-------------------------- MODULE CloudSession_proofs --------------------------
(***************************************************************************)
(* Proofs about the requests to the cloud, for all coroutines, devices,    *)
(* times and bounds.                                                       *)
(***************************************************************************)
EXTENDS CloudSessionProperties, TLAPS

USE CloudSessionAssumption

Inv == TypeOK /\ TokenInv /\ DeviceInv /\ OneDevice

LEMMA Numbers == Lifetime \in Nat /\ Buffer \in Nat /\ Patience \in Nat
  OBVIOUS

LEMMA IdleType == Idle \in Coroutines /\ NoToken \in Tokens /\ Issued \in Tokens
  <1>1. NoToken \in Tokens /\ Issued \in Tokens
    BY DEF NoToken, Issued, Tokens
  <1>2. QED
    BY <1>1 DEF Idle, Coroutines

(* A token loses a unit of time.                                           *)
LEMMA AgedToken ==
    ASSUME NEW tok \in Tokens, NEW slip \in 0..Patience
    PROVE  /\ Aged(tok, slip) \in Tokens
           /\ Aged(tok, slip).left = Less(tok.left)
           /\ Aged(tok, slip).slip = slip
           /\ Aged(tok, slip).revoked = tok.revoked
           /\ Less(tok.left) \in Nat /\ tok.left <= Less(tok.left) + 1
  BY Numbers DEF Aged, Less, Tokens

LEMMA RevokedToken ==
    ASSUME NEW tok \in Tokens
    PROVE  Revoked(tok) \in Tokens /\ Revoked(tok).revoked = TRUE
           /\ Revoked(tok).slip = tok.slip
  BY Numbers DEF Revoked, Tokens

(* What time does to a coroutine.                                          *)
LEMMA LaterTask ==
    ASSUME NEW task \in Coroutines,
           task.step \in Exchanges => task.waited < Patience,
           task.step = "issued" => task.token.slip <= task.waited
    PROVE  /\ Later(task) \in Coroutines
           /\ Later(task).step = task.step
           /\ Later(task).target = task.target
           /\ task.step \in Exchanges =>
                 /\ Later(task).waited = task.waited + 1
                 /\ Later(task).token.left = Less(task.token.left)
                 /\ Later(task).token.revoked = task.token.revoked
                 /\ Later(task).token.slip = Slips(task)
  <1>1. CASE task.step \notin Exchanges
    BY <1>1 DEF Later
  <1>2. CASE task.step \in Exchanges
    <2> DEFINE tok == Aged(task.token, Slips(task))
    <2>1. task.token \in Tokens /\ task.waited \in 0..Patience
      BY DEF Coroutines
    <2>2. task.token.slip \in 0..Patience
      BY <2>1 DEF Tokens
    <2>3. Slips(task) \in 0..Patience
      BY <1>2, <2>1, <2>2, Numbers DEF Slips
    <2>4. /\ tok \in Tokens
          /\ tok.left = Less(task.token.left)
          /\ tok.revoked = task.token.revoked
          /\ tok.slip = Slips(task)
      BY <2>1, <2>3, AgedToken
    <2>5. Later(task) = [task EXCEPT !.waited = task.waited + 1, !.token = tok]
      BY <1>2 DEF Later
    <2>6. task.waited + 1 \in 0..Patience
      BY <1>2, <2>1, Numbers
    <2> HIDE DEF tok
    <2>7. Later(task) \in Coroutines
      BY <2>4, <2>5, <2>6 DEF Coroutines
    <2>8. /\ Later(task).step = task.step
          /\ Later(task).target = task.target
          /\ Later(task).waited = task.waited + 1
          /\ Later(task).token = tok
      BY <2>5 DEF Coroutines
    <2>9. QED
      BY <2>4, <2>7, <2>8
  <1>3. QED
    BY <1>1, <1>2
------------------------------------------------------------------------------
(* The coroutines that a step can make.                                    *)
LEMMA LoginTask ==
    ASSUME NEW task \in Coroutines
    PROVE  /\ Login(task) \in Coroutines
           /\ Login(task).step = "login"
           /\ TokenCounts(Login(task))
  <1> DEFINE new == Login(task)
  <1>1. new = [task EXCEPT !.step = "login", !.token = NoToken, !.waited = 0]
    BY DEF Login
  <1>2. "login" \in {"idle", "gate"} \union Exchanges /\ 0 \in 0..Patience
    BY Numbers DEF Exchanges
  <1>3. new \in Coroutines
    BY <1>1, <1>2, IdleType DEF Coroutines
  <1>4. new.step = "login"
    BY <1>1 DEF Coroutines
  <1> HIDE DEF new
  <1>5. TokenCounts(new)
    BY <1>4 DEF TokenCounts
  <1>6. QED
    BY <1>3, <1>4, <1>5 DEF new

LEMMA SendTask ==
    ASSUME NEW task \in Coroutines, NEW step \in {"bindings", "sent"},
           NEW tok \in Tokens, NEW to \in Dids \union {None},
           tok.revoked = FALSE => Buffer < tok.left + tok.slip
    PROVE  /\ Send(task, step, tok, to) \in Coroutines
           /\ Send(task, step, tok, to).step = step
           /\ Send(task, step, tok, to).target = to
           /\ TokenCounts(Send(task, step, tok, to))
  <1> DEFINE new == Send(task, step, tok, to)
  <1>1. new = [task EXCEPT !.step = step, !.token = tok, !.waited = 0, !.target = to]
    BY DEF Send
  <1>2. step \in {"idle", "gate"} \union Exchanges /\ 0 \in 0..Patience
    BY Numbers DEF Exchanges
  <1>3. new \in Coroutines
    BY <1>1, <1>2 DEF Coroutines
  <1>4. new.step = step /\ new.token = tok /\ new.waited = 0 /\ new.target = to
    BY <1>1 DEF Coroutines
  <1>5. tok.left \in Nat /\ tok.slip \in Nat
    BY DEF Tokens
  <1> HIDE DEF new
  <1>6. TokenCounts(new)
    BY <1>4, <1>5, Numbers DEF TokenCounts
  <1>7. QED
    BY <1>3, <1>4, <1>6 DEF new

LEMMA EnsuredTask ==
    ASSUME TypeOK, TokenInv, NEW task \in Coroutines, NEW to \in Dids \union {None}
    PROVE  /\ Ensured(task, to) \in Coroutines
           /\ TokenCounts(Ensured(task, to))
           /\ \/ Ensured(task, to).step = "login"
              \/ Ensured(task, to).step = "sent" /\ Ensured(task, to).target = to
  <1>1. CASE NeedsLogin
    BY <1>1, LoginTask DEF Ensured
  <1>2. CASE ~NeedsLogin
    <2>1. held \in Tokens /\ believed \in Nat /\ held.left \in Nat /\ held.slip \in Nat
      BY Numbers DEF TypeOK, Tokens
    <2>2. held.revoked = FALSE => Buffer < held.left + held.slip
      BY <1>2, <2>1, Numbers DEF NeedsLogin, TokenInv
    <2>3. QED
      BY <1>2, <2>1, <2>2, SendTask, ZenonT(30) DEF Ensured
  <1>3. QED
    BY <1>1, <1>2

LEMMA IdleTask == TokenCounts(Idle)
  BY DEF TokenCounts, Idle

(* A step of one coroutine that does as it should.                         *)
LEMMA GoesOn ==
    ASSUME TypeOK, \A t \in Tasks : TokenCounts(tasks[t]),
           NEW t \in Tasks, NEW new \in Coroutines,
           Goes(t, new), TokenCounts(new)
    PROVE  /\ tasks' \in [Tasks -> Coroutines]
           /\ \A u \in Tasks : TokenCounts(tasks'[u])
           /\ tasks'[t] = new
           /\ \A u \in Tasks : u # t => tasks'[u] = tasks[u]
  <1>1. /\ tasks' \in [Tasks -> Coroutines]
        /\ tasks'[t] = new
        /\ \A u \in Tasks : u # t => tasks'[u] = tasks[u]
    BY DEF Goes, TypeOK
  <1>2. QED
    BY <1>1

LEMMA ProceedTask ==
    ASSUME TypeOK, TokenInv, NEW t \in Tasks, NEW task \in Coroutines,
           Proceed(t, task)
    PROVE  /\ \E new \in Coroutines :
                 /\ Goes(t, new) /\ TokenCounts(new)
                 /\ \/ new.step = "login"
                    \/ new.step = "sent" /\ new.target = did /\ (ready \/ ~gyre)
                 /\ (Gated(t) /\ ~ready => lock' = t /\ new.step = "login")
                 /\ (~Gated(t) \/ ready => lock' = lock)
           /\ lock' \in Tasks \union {None}
  <1>1. CASE Gated(t) /\ ~ready
    BY <1>1, LoginTask DEF Proceed
  <1>2. CASE ~(Gated(t) /\ ~ready)
    <2>1. Goes(t, Ensured(task, did)) /\ lock' = lock
      BY <1>2 DEF Proceed
    <2>2. did \in Dids \union {None} /\ lock \in Tasks \union {None}
      BY DEF TypeOK
    <2>3. ready \/ ~gyre
      BY <1>2 DEF Gated
    <2>4. QED
      BY <1>2, <2>1, <2>2, <2>3, EnsuredTask
  <1>3. QED
    BY <1>1, <1>2
------------------------------------------------------------------------------
Budgets == [commands : Nat, faults : Nat]

LEMMA Spent ==
    ASSUME TypeOK, NEW what \in {"commands", "faults"}, Spend(what)
    PROVE  budget' \in Budgets
  <1>1. budget \in Budgets /\ budget[what] \in Nat
    BY DEF TypeOK, Budgets
  <1>2. budget[what] - 1 \in Nat
    BY <1>1 DEF Spend
  <1>3. QED
    BY <1>1, <1>2 DEF Spend, Budgets

(* Past the lock, the invariant holds again.                               *)
LEMMA ProceedInv ==
    ASSUME Inv, NEW t \in Tasks, NEW task \in Coroutines,
           Proceed(t, task), Gated(t) => LockFree, budget' \in Budgets,
           UNCHANGED <<service, token, gyre, did, ready, view>>
    PROVE  Inv'
  <1> USE DEF Inv
  <1>1. PICK new \in Coroutines :
          /\ Goes(t, new) /\ TokenCounts(new)
          /\ \/ new.step = "login"
             \/ new.step = "sent" /\ new.target = did /\ (ready \/ ~gyre)
          /\ (Gated(t) /\ ~ready => lock' = t /\ new.step = "login")
          /\ (~Gated(t) \/ ready => lock' = lock)
    BY ProceedTask
  <1>2. lock' \in Tasks \union {None}
    BY ProceedTask
  <1>3. /\ tasks' \in [Tasks -> Coroutines]
        /\ \A u \in Tasks : TokenCounts(tasks'[u])
        /\ tasks'[t] = new
        /\ \A u \in Tasks : u # t => tasks'[u] = tasks[u]
    BY <1>1, GoesOn DEF TokenInv
  <1>4. TypeOK'
    BY <1>2, <1>3 DEF TypeOK, service, token, view, Budgets
  <1>5. TokenInv'
    BY <1>3 DEF TokenInv, token, TokenCounts
  <1>6. ready \/ ~gyre => did # None /\ lock = None
    BY DEF DeviceInv
  <1>7. DeviceInv'
    <2>1. None \notin Tasks
      OBVIOUS
    <2>2. CASE Gated(t) /\ ~ready
      <3>1. lock = None /\ lock' = t /\ new.step = "login"
        BY <1>1, <2>2 DEF LockFree
      <3>2. \A u \in Tasks : tasks[u].step \notin {"bindings", "login", "issued"}
        BY <2>1, <2>2, <3>1 DEF DeviceInv
      <3>3. QED
        BY <1>3, <2>2, <3>1, <3>2 DEF DeviceInv
    <2>3. CASE ~Gated(t) \/ ready
      <3>1. ready /\ lock' = lock
        BY <1>1, <2>3 DEF Gated, DeviceInv
      <3>2. QED
        BY <1>1, <1>3, <3>1 DEF DeviceInv
    <2>4. QED
      BY <2>2, <2>3
  <1>8. OneDevice'
    BY <1>1, <1>3, <1>6 DEF OneDevice
  <1>9. QED
    BY <1>4, <1>5, <1>7, <1>8

LEMMA StartsInv ==
    ASSUME Inv, NEW t \in Tasks, NEW task \in Coroutines,
           Starts(t, task), budget' \in Budgets
    PROVE  Inv'
  <1> USE DEF Inv
  <1>1. UNCHANGED <<service, token, gyre, did, ready, view>>
    BY DEF Starts
  <1>2. CASE Gated(t) /\ (~LockFree \/ Queued)
    <2> DEFINE new == [task EXCEPT !.step = "gate"]
    <2>1. Goes(t, new) /\ lock' = lock
      BY <1>2 DEF Starts
    <2>2. new \in Coroutines /\ new.step = "gate"
      BY DEF Coroutines
    <2> HIDE DEF new
    <2>3. TokenCounts(new)
      BY <2>2 DEF TokenCounts
    <2>4. /\ tasks' \in [Tasks -> Coroutines]
          /\ \A u \in Tasks : TokenCounts(tasks'[u])
          /\ tasks'[t] = new
          /\ \A u \in Tasks : u # t => tasks'[u] = tasks[u]
      BY <2>1, <2>2, <2>3, GoesOn DEF TokenInv
    <2>5. TypeOK'
      BY <1>1, <2>1, <2>4 DEF TypeOK, service, token, view, Budgets
    <2>6. TokenInv'
      BY <1>1, <2>4 DEF TokenInv, token, TokenCounts
    <2>7. DeviceInv' /\ OneDevice'
      BY <1>1, <2>1, <2>2, <2>4 DEF DeviceInv, OneDevice
    <2>8. QED
      BY <2>5, <2>6, <2>7
  <1>3. CASE ~(Gated(t) /\ (~LockFree \/ Queued))
    BY <1>1, <1>3, ProceedInv DEF Starts
  <1>4. QED
    BY <1>2, <1>3

(* Time, and what is done with the device or at the service.               *)
LEMMA TickInv ==
    ASSUME Inv, Tick
    PROVE  Inv'
  <1> USE DEF Inv
  <1>1. \A t \in Tasks : tasks[t] \in Coroutines /\ TokenCounts(tasks[t])
    BY DEF TypeOK, TokenInv
  <1>2. tasks' \in [Tasks -> Coroutines] /\ \A t \in Tasks : tasks'[t] = Later(tasks[t])
    <2>1. \A t \in Tasks : Later(tasks[t]) \in Coroutines
      BY <1>1, LaterTask DEF Tick, Exchanging, TokenCounts
    <2>2. QED
      BY <2>1 DEF Tick
  <1>3. ASSUME NEW t \in Tasks
        PROVE  /\ tasks'[t].step = tasks[t].step
               /\ tasks'[t].target = tasks[t].target
               /\ TokenCounts(tasks'[t])
    <2> DEFINE old == tasks[t]
               new == tasks'[t]
    <2>1. old \in Coroutines /\ TokenCounts(old) /\ new = Later(old)
      BY <1>1, <1>2
    <2>2. old.step \in Exchanges => old.waited < Patience
      BY DEF Tick, Exchanging
    <2>3. old.step = "issued" => old.token.slip <= old.waited
      BY <2>1 DEF TokenCounts
    <2>4. /\ old.waited \in Nat /\ old.token \in Tokens
          /\ old.token.left \in Nat /\ old.token.slip \in Nat
      BY <2>1, Numbers DEF Coroutines, Tokens
    <2> HIDE DEF old, new
    <2>5. /\ new.step = old.step
          /\ new.target = old.target
          /\ old.step \in Exchanges =>
                /\ new.waited = old.waited + 1
                /\ new.token.left = Less(old.token.left)
                /\ new.token.revoked = old.token.revoked
                /\ new.token.slip = Slips(old)
      BY <2>1, <2>2, <2>3, LaterTask
    <2>6. Less(old.token.left) \in Nat /\ old.token.left <= Less(old.token.left) + 1
      BY <2>4 DEF Less
    <2>7. TokenCounts(new)
      <3>1. CASE old.step = "issued"
        <4>1. new.step = "issued" /\ new.token.slip = old.token.slip + 1
          BY <2>5, <3>1 DEF Slips, Exchanges
        <4>2. QED
          BY <2>1, <2>4, <2>5, <2>6, <3>1, <4>1, Numbers DEF TokenCounts, Exchanges
      <3>2. CASE old.step \in {"bindings", "sent"}
        <4>1. new.step # "issued" /\ new.token.slip = old.token.slip
          BY <2>5, <3>2 DEF Slips, Exchanges
        <4>2. QED
          BY <2>1, <2>4, <2>5, <2>6, <3>2, <4>1, Numbers DEF TokenCounts, Exchanges
      <3>3. CASE old.step \notin {"issued", "bindings", "sent"}
        BY <2>5, <3>3 DEF TokenCounts
      <3>4. QED
        BY <3>1, <3>2, <3>3
    <2>8. QED
      BY <2>5, <2>7 DEF old, new
  <1>4. /\ held' \in Tokens /\ believed' \in 0..Lifetime
        /\ held'.revoked = FALSE => believed' <= held'.left + held'.slip
    <2>1. held \in Tokens /\ held.slip \in 0..Patience /\ held.left \in Nat
      BY Numbers DEF TypeOK, Tokens
    <2>2. /\ held' \in Tokens /\ held'.left = Less(held.left)
          /\ held'.slip = held.slip /\ held'.revoked = held.revoked
      BY <2>1, AgedToken DEF Tick, Older
    <2>3. believed \in 0..Lifetime /\ believed' = Less(believed)
      BY DEF Tick, TypeOK
    <2>4. believed' \in 0..Lifetime /\ (believed > 0 => believed' = believed - 1)
          /\ (believed = 0 => believed' = 0)
      BY <2>3, Numbers DEF Less
    <2>5. Less(held.left) \in Nat /\ held.left <= Less(held.left) + 1
      BY <2>1 DEF Less
    <2>6. held.revoked = FALSE => believed <= held.left + held.slip
      BY DEF TokenInv
    <2>7. QED
      BY <2>1, <2>2, <2>3, <2>4, <2>5, <2>6, Numbers
  <1>5. UNCHANGED <<service, entry, view, budget>>
    BY DEF Tick
  <1>6. TypeOK'
    BY <1>2, <1>4, <1>5 DEF TypeOK, service, entry, view
  <1>7. TokenInv'
    BY <1>3, <1>4 DEF TokenInv
  <1>8. DeviceInv' /\ OneDevice'
    BY <1>3, <1>5 DEF DeviceInv, OneDevice, entry
  <1>9. QED
    BY <1>6, <1>7, <1>8

LEMMA RevokeInv ==
    ASSUME Inv, ServiceRevokes
    PROVE  Inv'
  <1> USE DEF Inv
  <1>1. budget' \in Budgets
    BY Spent DEF ServiceRevokes
  <1>2. held \in Tokens /\ held' = Revoked(held)
    BY DEF TypeOK, ServiceRevokes
  <1>3. held' \in Tokens /\ held'.revoked = TRUE
    BY <1>2, RevokedToken
  <1>4. ASSUME NEW t \in Tasks
        PROVE  /\ tasks'[t] \in Coroutines
               /\ tasks'[t].step = tasks[t].step
               /\ tasks'[t].target = tasks[t].target
               /\ TokenCounts(tasks'[t])
    <2> DEFINE old == tasks[t]
               new == tasks'[t]
               tok == Revoked(old.token)
    <2>1. old \in Coroutines /\ TokenCounts(old) /\ old.token \in Tokens
      BY DEF TypeOK, TokenInv, Coroutines
    <2>2. tok \in Tokens /\ tok.revoked = TRUE /\ tok.slip = old.token.slip
      BY <2>1, RevokedToken
    <2>3. new = [old EXCEPT !.token = tok]
      BY DEF ServiceRevokes
    <2> HIDE DEF old, new, tok
    <2>4. new \in Coroutines /\ new.step = old.step /\ new.target = old.target
          /\ new.waited = old.waited /\ new.token = tok
      BY <2>1, <2>2, <2>3 DEF Coroutines
    <2>5. TokenCounts(new)
      BY <2>1, <2>2, <2>4 DEF TokenCounts
    <2>6. QED
      BY <2>4, <2>5 DEF old, new
  <1>5. tasks' \in [Tasks -> Coroutines]
    BY <1>4 DEF ServiceRevokes
  <1>6. UNCHANGED <<service, believed, entry, view>>
    BY DEF ServiceRevokes
  <1>7. TypeOK'
    BY <1>1, <1>3, <1>5, <1>6 DEF TypeOK, service, entry, view, Budgets
  <1>8. TokenInv'
    BY <1>3, <1>4 DEF TokenInv
  <1>9. DeviceInv' /\ OneDevice'
    BY <1>4, <1>6 DEF DeviceInv, OneDevice, entry
  <1>10. QED
    BY <1>7, <1>8, <1>9
------------------------------------------------------------------------------
(* The exchanges of a coroutine.                                           *)
LEMMA IssuedInv ==
    ASSUME Inv, NEW t \in Tasks, TokenIssued(t)
    PROVE  Inv'
  <1> USE DEF Inv
  <1> DEFINE old == tasks[t]
             new == [old EXCEPT !.step = "issued", !.token = Issued]
  <1>1. Goes(t, new) /\ old.step = "login"
    BY DEF TokenIssued
  <1>2. old \in Coroutines
    BY DEF TypeOK
  <1>3. "issued" \in {"idle", "gate"} \union Exchanges
    BY DEF Exchanges
  <1>4. new \in Coroutines
    BY <1>2, <1>3, IdleType DEF Coroutines
  <1>5. new.step = "issued" /\ new.token = Issued /\ new.waited \in Nat
    BY <1>2, Numbers DEF Coroutines
  <1> HIDE DEF new, old
  <1>6. TokenCounts(new)
    <2>1. Issued.slip = 0 /\ Issued.left = Lifetime
      BY DEF Issued
    <2>2. QED
      BY <1>5, <2>1, Numbers DEF TokenCounts
  <1>7. /\ tasks' \in [Tasks -> Coroutines]
        /\ \A u \in Tasks : TokenCounts(tasks'[u])
        /\ tasks'[t] = new
        /\ \A u \in Tasks : u # t => tasks'[u] = tasks[u]
    BY <1>1, <1>4, <1>6, GoesOn DEF TokenInv
  <1>8. UNCHANGED <<service, token, entry, view, budget>>
    BY DEF TokenIssued
  <1>9. TypeOK'
    BY <1>7, <1>8 DEF TypeOK, service, token, entry, view
  <1>10. TokenInv'
    BY <1>7, <1>8 DEF TokenInv, token, TokenCounts
  <1>11. DeviceInv' /\ OneDevice'
    BY <1>1, <1>5, <1>7, <1>8 DEF DeviceInv, OneDevice, entry, old
  <1>12. QED
    BY <1>9, <1>10, <1>11

LEMMA LoggedInInv ==
    ASSUME Inv, NEW t \in Tasks, LoggedIn(t)
    PROVE  Inv'
  <1> USE DEF Inv
  <1> DEFINE old == tasks[t]
             tok == old.token
  <1>1. old \in Coroutines /\ TokenCounts(old) /\ old.step = "issued"
    BY DEF TypeOK, TokenInv, LoggedIn
  <1>2. tok \in Tokens /\ tok.left \in Nat /\ tok.slip \in Nat
    BY <1>1, Numbers DEF Coroutines, Tokens
  <1>3. tok.revoked = FALSE => Lifetime <= tok.left + tok.slip
    BY <1>1 DEF TokenCounts
  <1>4. tok.revoked = FALSE => Buffer < tok.left + tok.slip
    BY <1>2, <1>3, Numbers
  <1>5. held' = tok /\ believed' = Lifetime
    BY DEF LoggedIn, Expiry
  <1>6. UNCHANGED <<service, gyre, did, view, budget>>
    BY DEF LoggedIn
  <1>7. did \in Dids \union {None} /\ lock \in Tasks \union {None} /\ None \notin Tasks
    BY DEF TypeOK
  <1> HIDE DEF tok
  <1>8. TokenInv' /\ TypeOK' /\ DeviceInv' /\ OneDevice'
    <2>1. CASE lock = t /\ did = None
      <3> DEFINE new == Send(old, "bindings", tok, None)
      <3>1. Goes(t, new) /\ UNCHANGED <<ready, lock>>
        BY <2>1 DEF LoggedIn, tok
      <3>2. new \in Coroutines /\ new.step = "bindings" /\ TokenCounts(new)
        <4> HIDE DEF old
        <4>1. "bindings" \in {"bindings", "sent"} /\ None \in Dids \union {None}
          OBVIOUS
        <4>2. QED
          BY <1>1, <1>2, <1>4, <4>1, SendTask, ZenonT(30)
      <3> HIDE DEF new
      <3>3. /\ tasks' \in [Tasks -> Coroutines]
            /\ \A u \in Tasks : TokenCounts(tasks'[u])
            /\ tasks'[t] = new
            /\ \A u \in Tasks : u # t => tasks'[u] = tasks[u]
        BY <3>1, <3>2, GoesOn DEF TokenInv
      <3>4. TypeOK'
        BY <1>2, <1>5, <1>6, <3>1, <3>3, Numbers DEF TypeOK, service, view
      <3>5. TokenInv'
        BY <1>3, <1>5, <3>3 DEF TokenInv, TokenCounts
      <3>6. DeviceInv' /\ OneDevice'
        BY <1>6, <2>1, <3>1, <3>2, <3>3 DEF DeviceInv, OneDevice
      <3>7. QED
        BY <3>4, <3>5, <3>6
    <2>2. CASE ~(lock = t /\ did = None)
      <3> DEFINE new == Send(old, "sent", tok, did)
      <3>1. /\ Goes(t, new)
            /\ ready' = (ready \/ lock = t)
            /\ lock' = IF lock = t THEN None ELSE lock
        BY <2>2 DEF LoggedIn, tok
      <3>2. /\ new \in Coroutines /\ new.step = "sent" /\ new.target = did
            /\ TokenCounts(new)
        <4> HIDE DEF old
        <4>1. "sent" \in {"bindings", "sent"}
          OBVIOUS
        <4>2. QED
          BY <1>1, <1>2, <1>4, <1>7, <4>1, SendTask, ZenonT(30)
      <3> HIDE DEF new
      <3>3. /\ tasks' \in [Tasks -> Coroutines]
            /\ \A u \in Tasks : TokenCounts(tasks'[u])
            /\ tasks'[t] = new
            /\ \A u \in Tasks : u # t => tasks'[u] = tasks[u]
        BY <3>1, <3>2, GoesOn DEF TokenInv
      <3>4. did # None /\ (ready => lock = None) /\ (ready \/ lock = t)
        BY <1>1, <2>2 DEF DeviceInv
      <3>5. ready' = TRUE /\ lock' = None
        BY <3>1, <3>4 DEF TypeOK
      <3>6. \A u \in Tasks : tasks[u].step # "bindings"
        BY <3>4 DEF DeviceInv
      <3>7. TypeOK'
        BY <1>2, <1>5, <1>6, <3>3, <3>5, Numbers DEF TypeOK, service, view
      <3>8. TokenInv'
        BY <1>3, <1>5, <3>3 DEF TokenInv, TokenCounts
      <3>9. DeviceInv'
        BY <1>6, <3>2, <3>3, <3>4, <3>5, <3>6 DEF DeviceInv
      <3>10. OneDevice'
        BY <1>6, <3>2, <3>3, <3>4 DEF OneDevice
      <3>11. QED
        BY <3>7, <3>8, <3>9, <3>10
    <2>3. QED
      BY <2>1, <2>2
  <1>9. QED
    BY <1>8

LEMMA DiscoveredInv ==
    ASSUME Inv, NEW t \in Tasks, Discovered(t)
    PROVE  Inv'
  <1> USE DEF Inv
  <1>1. tasks[t] \in Coroutines /\ tasks[t].step = "bindings"
    BY DEF TypeOK, Discovered
  <1>2. PICK d \in Dids : did' = d /\ Goes(t, Ensured(tasks[t], d))
    BY DEF Discovered
  <1> DEFINE new == Ensured(tasks[t], d)
  <1>3. /\ new \in Coroutines /\ TokenCounts(new)
        /\ \/ new.step = "login"
           \/ new.step = "sent" /\ new.target = d
    <2>1. d \in Dids \union {None}
      OBVIOUS
    <2>2. QED
      BY <1>1, <2>1, EnsuredTask
  <1>4. Goes(t, new)
    BY <1>2
  <1> HIDE DEF new
  <1>5. /\ tasks' \in [Tasks -> Coroutines]
        /\ \A u \in Tasks : TokenCounts(tasks'[u])
        /\ tasks'[t] = new
        /\ \A u \in Tasks : u # t => tasks'[u] = tasks[u]
    BY <1>3, <1>4, GoesOn DEF TokenInv
  <1>6. ready' = TRUE /\ lock' = None /\ did' = d /\ d # None
    BY <1>2 DEF Discovered
  <1>7. UNCHANGED <<service, token, gyre, view, budget>>
    BY DEF Discovered
  <1>8. TypeOK'
    BY <1>5, <1>6, <1>7 DEF TypeOK, service, token, view
  <1>9. TokenInv'
    BY <1>5, <1>7 DEF TokenInv, token, TokenCounts
  <1>10. /\ lock = t /\ did = None
         /\ \A u \in Tasks : u # t => tasks[u].step \notin {"bindings", "sent", "answered"}
    BY <1>1 DEF DeviceInv, OneDevice
  <1>11. DeviceInv' /\ OneDevice'
    BY <1>3, <1>5, <1>6, <1>10 DEF DeviceInv, OneDevice
  <1>12. QED
    BY <1>8, <1>9, <1>11

LEMMA ServedInv ==
    ASSUME Inv, NEW t \in Tasks, Served(t)
    PROVE  Inv'
  <1> USE DEF Inv
  <1> DEFINE old == tasks[t]
             seen == IF t = Refresh THEN latest ELSE old.on
             new == [old EXCEPT !.step = "answered", !.token = NoToken, !.on = seen]
  <1>1. old \in Coroutines /\ old.step = "sent"
    BY DEF TypeOK, Served
  <1>2. seen \in BOOLEAN
    BY <1>1 DEF TypeOK, Coroutines
  <1>3. Goes(t, new)
    BY DEF Served
  <1>4. "answered" \in {"idle", "gate"} \union Exchanges
    BY DEF Exchanges
  <1> HIDE DEF seen, old
  <1>5. new \in Coroutines
    BY <1>1, <1>2, <1>4, IdleType DEF Coroutines
  <1>6. new.step = "answered" /\ new.target = old.target
    BY <1>1 DEF Coroutines
  <1> HIDE DEF new
  <1>7. TokenCounts(new)
    BY <1>6 DEF TokenCounts
  <1>8. /\ tasks' \in [Tasks -> Coroutines]
        /\ \A u \in Tasks : TokenCounts(tasks'[u])
        /\ tasks'[t] = new
        /\ \A u \in Tasks : u # t => tasks'[u] = tasks[u]
    BY <1>3, <1>5, <1>7, GoesOn DEF TokenInv
  <1>9. UNCHANGED <<latest, token, entry, view, budget>>
    BY DEF Served
  <1>10. ordered' \in BOOLEAN
    BY DEF Served, TypeOK, Coroutines
  <1>11. TypeOK'
    BY <1>8, <1>9, <1>10 DEF TypeOK, token, entry, view
  <1>12. TokenInv'
    BY <1>8, <1>9 DEF TokenInv, token, TokenCounts
  <1>13. DeviceInv' /\ OneDevice'
    BY <1>1, <1>6, <1>8, <1>9 DEF DeviceInv, OneDevice, entry, old
  <1>14. QED
    BY <1>11, <1>12, <1>13

(* What a coroutine that ends does to the others.                          *)
LEMMA IdleInv ==
    ASSUME Inv, NEW t \in Tasks, Goes(t, Idle),
           shown' \in BOOLEAN, available' \in BOOLEAN, budget' \in Budgets,
           lock' = lock \/ (lock = t /\ lock' = None),
           UNCHANGED <<service, token, gyre, did, ready>>
    PROVE  Inv'
  <1> USE DEF Inv
  <1>1. /\ tasks' \in [Tasks -> Coroutines]
        /\ \A u \in Tasks : TokenCounts(tasks'[u])
        /\ tasks'[t] = Idle
        /\ \A u \in Tasks : u # t => tasks'[u] = tasks[u]
    BY IdleTask, IdleType, GoesOn DEF TokenInv
  <1>2. Idle.step = "idle"
    BY DEF Idle
  <1>3. TypeOK'
    BY <1>1 DEF TypeOK, service, token, Budgets
  <1>4. TokenInv'
    BY <1>1 DEF TokenInv, token, TokenCounts
  <1>5. DeviceInv' /\ OneDevice'
    BY <1>1, <1>2 DEF DeviceInv, OneDevice
  <1>6. QED
    BY <1>3, <1>4, <1>5

LEMMA EndsInv ==
    ASSUME Inv, NEW t \in Tasks, Ends(t), budget' \in Budgets
    PROVE  Inv'
  <1>1. /\ Goes(t, Idle)
        /\ lock' = lock \/ (lock = t /\ lock' = None)
        /\ UNCHANGED <<service, token, gyre, did, ready>>
        /\ shown' = shown
    BY DEF Ends, Released
  <1>2. shown' \in BOOLEAN /\ available' \in BOOLEAN
    BY DEF Ends, Inv, TypeOK
  <1>3. QED
    BY <1>1, <1>2, IdleInv

LEMMA AnsweredInv ==
    ASSUME Inv, NEW t \in Tasks, Answered(t)
    PROVE  Inv'
  <1>1. /\ Goes(t, Idle)
        /\ lock' = lock \/ (lock = t /\ lock' = None)
        /\ UNCHANGED <<service, token, gyre, did, ready>>
        /\ budget' = budget
    BY DEF Answered, entry
  <1>2. shown' \in BOOLEAN /\ available' \in BOOLEAN /\ budget' \in Budgets
    BY <1>1 DEF Answered, Inv, TypeOK, Coroutines, Budgets
  <1>3. QED
    BY <1>1, <1>2, IdleInv
------------------------------------------------------------------------------
LEMMA InitInv == Init => Inv
  <1> SUFFICES ASSUME Init PROVE Inv
    OBVIOUS
  <1>1. TypeOK
    <2>1. /\ held \in Tokens /\ believed \in 0..Lifetime
          /\ did \in Dids \union {None} /\ ready \in BOOLEAN
      <3>1. 0 \in 0..Lifetime /\ Lifetime \in 0..Lifetime
        BY Numbers
      <3>2. CASE gyre
        BY <3>1, <3>2, IdleType DEF Init
      <3>3. CASE ~gyre
        BY <3>1, <3>3, IdleType DEF Init
      <3>4. QED
        BY <3>2, <3>3
    <2>2. budget \in [commands : Nat, faults : Nat]
      BY DEF Init
    <2>3. tasks \in [Tasks -> Coroutines]
      BY IdleType DEF Init
    <2>4. QED
      BY <2>1, <2>2, <2>3 DEF Init, TypeOK
  <1>2. TokenInv
    <2>1. \A t \in Tasks : TokenCounts(tasks[t])
      BY IdleTask DEF Init
    <2>2. NoToken.revoked = TRUE /\ Issued.left = Lifetime /\ Issued.slip = 0
      BY DEF NoToken, Issued
    <2>3. held.revoked = FALSE => believed <= held.left + held.slip
      BY <2>2, Numbers DEF Init
    <2>4. QED
      BY <2>1, <2>3 DEF TokenInv
  <1>3. DeviceInv /\ OneDevice
    BY DEF Init, DeviceInv, OneDevice, Idle
  <1>4. QED
    BY <1>1, <1>2, <1>3 DEF Inv

LEMMA StepsInv ==
    ASSUME Inv, NEW t \in Tasks, Steps(t) \/ Breaks(t)
    PROVE  Inv'
  <1>1. tasks[t] \in Coroutines /\ budget \in Budgets
    BY DEF Inv, TypeOK, Budgets
  <1>2. CASE LockGranted(t)
    BY <1>1, <1>2, ProceedInv DEF LockGranted
  <1>3. CASE TokenIssued(t)
    BY <1>3, IssuedInv
  <1>4. CASE LoggedIn(t)
    BY <1>4, LoggedInInv
  <1>5. CASE Discovered(t)
    BY <1>5, DiscoveredInv
  <1>6. CASE Served(t)
    BY <1>6, ServedInv
  <1>7. CASE Answered(t)
    BY <1>7, AnsweredInv
  <1>8. CASE Refused(t)
    BY <1>1, <1>8, EndsInv DEF Refused
  <1>9. CASE Breaks(t)
    <2>1. budget' \in Budgets
      BY <1>9, Spent DEF Breaks, Inv
    <2>2. QED
      BY <1>9, <2>1, EndsInv DEF Breaks
  <1>10. QED
    BY <1>2, <1>3, <1>4, <1>5, <1>6, <1>7, <1>8, <1>9 DEF Steps

LEMMA NextInv == Inv /\ [Next]_vars => Inv'
  <1> SUFFICES ASSUME Inv, [Next]_vars PROVE Inv'
    OBVIOUS
  <1>1. Idle \in Coroutines /\ budget \in Budgets
    BY IdleType DEF Inv, TypeOK, Budgets
  <1>2. CASE Tick
    BY <1>2, TickInv
  <1>3. CASE OwnerChanges
    <2>1. budget' \in Budgets
      BY <1>3, Spent DEF OwnerChanges, Inv
    <2>2. QED
      BY <1>3, <2>1 DEF OwnerChanges, Inv, TypeOK, TokenInv, TokenCounts, DeviceInv,
         OneDevice, token, entry, view, Budgets
  <1>4. CASE DeviceTakes
    BY <1>4 DEF DeviceTakes, Inv, TypeOK, TokenInv, TokenCounts, DeviceInv,
       OneDevice, token, entry, view
  <1>5. CASE ServiceRevokes
    BY <1>5, RevokeInv
  <1>6. CASE BeginRefresh
    <2>1. Refresh \in Tasks /\ Starts(Refresh, Idle) /\ budget' = budget
      BY <1>6 DEF BeginRefresh, Tasks
    <2>2. QED
      BY <1>1, <2>1, StartsInv
  <1>7. ASSUME NEW c \in Commands, BeginCommand(c)
        PROVE  Inv'
    <2>1. c \in Tasks /\ budget' \in Budgets
      BY <1>7, Spent DEF BeginCommand, Tasks, Inv
    <2>2. PICK on \in BOOLEAN : Starts(c, [Idle EXCEPT !.on = on])
      BY <1>7 DEF BeginCommand
    <2>3. [Idle EXCEPT !.on = on] \in Coroutines
      BY <1>1, <2>2 DEF Coroutines
    <2>4. QED
      BY <2>1, <2>2, <2>3, StartsInv
  <1>8. ASSUME NEW t \in Tasks, Steps(t) \/ Breaks(t)
        PROVE  Inv'
    BY <1>8, StepsInv
  <1>9. CASE UNCHANGED vars
    BY <1>9 DEF vars, Inv, TypeOK, TokenInv, TokenCounts, DeviceInv,
       OneDevice, service, token, entry, view
  <1>10. QED
    BY <1>2, <1>3, <1>4, <1>5, <1>6, <1>7, <1>8, <1>9 DEF Next, Environment

LEMMA Invariance == Spec => []Inv
  <1>1. QED
    BY InitInv, NextInv, PTL DEF Spec

LEMMA InvExpired == Inv => ExpiredOnlyIfSlow
  <1> SUFFICES ASSUME Inv, NEW t \in Tasks,
                      tasks[t].step \in {"bindings", "sent"},
                      tasks[t].token.left = 0, tasks[t].token.revoked = FALSE
               PROVE  tasks[t].token.slip + tasks[t].waited > Buffer
    BY DEF ExpiredOnlyIfSlow
  <1>1. TokenCounts(tasks[t]) /\ tasks[t] \in Coroutines
    BY DEF Inv, TokenInv, TypeOK
  <1>2. tasks[t].token.slip \in Nat /\ tasks[t].waited \in Nat
    BY <1>1, Numbers DEF Coroutines, Tokens
  <1>3. Buffer < tasks[t].token.left + tasks[t].token.slip + tasks[t].waited
    BY <1>1 DEF TokenCounts
  <1>4. QED
    BY <1>2, <1>3, Numbers

(* The tokens, the coroutines and the entry keep their types: no exchange   *)
(* awaits longer than Patience and no token is older than it can be.        *)
THEOREM CloudTypeCorrect == Spec => []TypeOK
  <1>1. Inv => TypeOK
    BY DEF Inv
  <1>2. QED
    BY <1>1, Invariance, PTL

(* A token that was not revoked has expired under a request only if its     *)
(* login and the request together took more than _TOKEN_REFRESH_BUFFER,     *)
(* for all numbers of coroutines and all lifetimes longer than the buffer.  *)
THEOREM TokenBuffer == Spec => []ExpiredOnlyIfSlow
  <1>1. QED
    BY InvExpired, Invariance, PTL

(* All requests of an entry are about one device, for all numbers of        *)
(* coroutines that need the cloud for the first time at once.               *)
THEOREM OneDeviceAlways == Spec => []OneDevice
  <1>1. Inv => OneDevice
    BY DEF Inv
  <1>2. QED
    BY <1>1, Invariance, PTL
------------------------------------------------------------------------------
(* The lock of the first login.  Nobody waits for a lock that nobody will   *)
(* let go: who holds it is in an exchange of that login, and every exchange *)
(* ends or fails by its timeout; once the cloud is ready the lock is free   *)
(* for good (_ensure_cloud_ready, coordinator.py:171).                      *)
LockIsInUse ==
    lock # None => ~ready /\ tasks[lock].step \in {"login", "issued", "bindings"}

LEMMA HolderStays ==
    ASSUME TypeOK, LockIsInUse, NEW t \in Tasks, t # lock, NEW new, Goes(t, new),
           UNCHANGED <<lock, ready>>
    PROVE  LockIsInUse'
  BY DEF Goes, TypeOK, LockIsInUse

(* Who holds the lock goes on with the first login.                        *)
LEMMA HolderGoesOn ==
    ASSUME TypeOK, NEW t \in Tasks, NEW new, Goes(t, new), lock' = t, ready' = FALSE,
           new.step \in {"login", "issued", "bindings"}
    PROVE  LockIsInUse'
  BY DEF Goes, TypeOK, LockIsInUse

LEMMA ProceedLock ==
    ASSUME TypeOK, LockIsInUse, NEW t \in Tasks, tasks[t].step \in {"idle", "gate"},
           NEW task \in Coroutines, Proceed(t, task), UNCHANGED ready
    PROVE  LockIsInUse'
  <1>1. t # lock
    BY DEF LockIsInUse
  <1>2. CASE Gated(t) /\ ~ready
    <2>1. lock' = t /\ Goes(t, Login(task)) /\ ready' = FALSE
      BY <1>2 DEF Proceed, TypeOK
    <2>2. Login(task).step = "login"
      BY LoginTask
    <2>3. QED
      BY <2>1, <2>2, HolderGoesOn
  <1>3. CASE ~(Gated(t) /\ ~ready)
    <2>1. UNCHANGED lock /\ Goes(t, Ensured(task, did))
      BY <1>3 DEF Proceed
    <2>2. QED
      BY <1>1, <2>1, HolderStays
  <1>4. QED
    BY <1>2, <1>3

LEMMA StartsLock ==
    ASSUME TypeOK, LockIsInUse, NEW t \in Tasks, tasks[t] = Idle,
           NEW task \in Coroutines, Starts(t, task)
    PROVE  LockIsInUse'
  <1>1. tasks[t].step \in {"idle", "gate"} /\ t # lock
    BY DEF Idle, LockIsInUse
  <1>2. UNCHANGED ready
    BY DEF Starts
  <1>3. CASE Gated(t) /\ (~LockFree \/ Queued)
    <2>1. UNCHANGED lock /\ Goes(t, [task EXCEPT !.step = "gate"])
      BY <1>3 DEF Starts
    <2>2. QED
      BY <1>1, <1>2, <2>1, HolderStays
  <1>4. CASE ~(Gated(t) /\ (~LockFree \/ Queued))
    BY <1>1, <1>2, <1>4, ProceedLock DEF Starts
  <1>5. QED
    BY <1>3, <1>4

(* Time and a revoked token leave everybody where they are.                *)
LEMMA SameSteps ==
    ASSUME TypeOK, LockIsInUse, UNCHANGED <<lock, ready>>,
           \A t \in Tasks : tasks'[t].step = tasks[t].step
    PROVE  LockIsInUse'
  BY DEF TypeOK, LockIsInUse

LEMMA EndsLock ==
    ASSUME TypeOK, LockIsInUse, NEW t \in Tasks, Ends(t)
    PROVE  LockIsInUse'
  <1>1. Goes(t, Idle) /\ lock' = (IF lock = t THEN None ELSE lock) /\ UNCHANGED ready
    BY DEF Ends, Released
  <1>2. CASE lock = t
    BY <1>1, <1>2 DEF LockIsInUse
  <1>3. CASE lock # t
    BY <1>1, <1>3, HolderStays
  <1>4. QED
    BY <1>2, <1>3

LEMMA StepsLock ==
    ASSUME Inv, LockIsInUse, NEW t \in Tasks, Steps(t) \/ Breaks(t)
    PROVE  LockIsInUse'
  <1>1. TypeOK /\ DeviceInv /\ tasks[t] \in Coroutines /\ None \notin Tasks
    BY DEF Inv, TypeOK
  <1>2. CASE LockGranted(t)
    BY <1>1, <1>2, ProceedLock DEF LockGranted
  <1>3. CASE TokenIssued(t)
    <2> DEFINE new == [tasks[t] EXCEPT !.step = "issued", !.token = Issued]
    <2>1. Goes(t, new) /\ UNCHANGED <<lock, ready>>
      BY <1>3 DEF TokenIssued, entry
    <2>2. new.step = "issued"
      BY <1>1 DEF Coroutines
    <2> HIDE DEF new
    <2>3. CASE lock = t
      <3>1. lock' = t /\ ready' = FALSE
        BY <1>1, <2>1, <2>3 DEF LockIsInUse, TypeOK
      <3>2. QED
        BY <1>1, <2>1, <2>2, <3>1, HolderGoesOn
    <2>4. CASE lock # t
      BY <1>1, <2>1, <2>4, HolderStays
    <2>5. QED
      BY <2>3, <2>4
  <1>4. CASE LoggedIn(t)
    <2>1. CASE lock = t /\ did = None
      <3> DEFINE new == Send(tasks[t], "bindings", tasks[t].token, None)
      <3>1. Goes(t, new) /\ UNCHANGED <<ready, lock>>
        BY <1>4, <2>1 DEF LoggedIn
      <3>2. new.step = "bindings"
        BY <1>1 DEF Send, Coroutines
      <3> HIDE DEF new
      <3>3. lock' = t /\ ready' = FALSE
        BY <1>1, <2>1, <3>1 DEF LockIsInUse, TypeOK
      <3>4. QED
        BY <1>1, <3>1, <3>2, <3>3, HolderGoesOn
    <2>2. CASE lock = t /\ did # None
      BY <1>4, <2>2 DEF LoggedIn, LockIsInUse
    <2>3. CASE lock # t
      <3>1. /\ Goes(t, Send(tasks[t], "sent", tasks[t].token, did))
            /\ ready' = (ready \/ lock = t) /\ lock' = lock
        BY <1>4, <2>3 DEF LoggedIn
      <3>2. ready' = ready
        BY <1>1, <2>3, <3>1 DEF TypeOK
      <3>3. QED
        BY <1>1, <2>3, <3>1, <3>2, HolderStays
    <2>4. QED
      BY <2>1, <2>2, <2>3
  <1>5. CASE Discovered(t)
    BY <1>5 DEF Discovered, LockIsInUse
  <1>6. CASE Served(t) \/ Answered(t)
    <2>1. t # lock
      BY <1>1, <1>6 DEF Served, Answered, LockIsInUse
    <2>2. UNCHANGED <<lock, ready>> /\ \E new : Goes(t, new)
      BY <1>6 DEF Served, Answered, entry
    <2>3. QED
      BY <1>1, <2>1, <2>2, HolderStays
  <1>7. CASE Refused(t) \/ Breaks(t)
    BY <1>1, <1>7, EndsLock DEF Refused, Breaks
  <1>8. QED
    BY <1>2, <1>3, <1>4, <1>5, <1>6, <1>7 DEF Steps

LEMMA NextLock == Inv /\ LockIsInUse /\ [Next]_vars => LockIsInUse'
  <1> SUFFICES ASSUME Inv, LockIsInUse, [Next]_vars PROVE LockIsInUse'
    OBVIOUS
  <1>1. TypeOK /\ Idle \in Coroutines /\ \A t \in Tasks : tasks[t] \in Coroutines
    BY IdleType DEF Inv, TypeOK
  <1>2. CASE Tick
    <2>1. \A t \in Tasks : tasks'[t] = Later(tasks[t])
      BY <1>2 DEF Tick
    <2>2. ASSUME NEW t \in Tasks PROVE tasks'[t].step = tasks[t].step
      <3> DEFINE old == tasks[t]
      <3>1. old \in Coroutines /\ tasks'[t] = Later(old)
        BY <1>1, <2>1
      <3> HIDE DEF old
      <3>2. Later(old).step = old.step
        BY <3>1 DEF Later, Coroutines
      <3>3. QED
        BY <3>1, <3>2 DEF old
    <2>3. QED
      BY <1>1, <1>2, <2>2, SameSteps DEF Tick, entry
  <1>3. CASE OwnerChanges \/ DeviceTakes
    BY <1>1, <1>3, SameSteps DEF OwnerChanges, DeviceTakes, entry
  <1>4. CASE ServiceRevokes
    <2>1. \A t \in Tasks : tasks'[t].step = tasks[t].step
      BY <1>1, <1>4 DEF ServiceRevokes, Coroutines
    <2>2. QED
      BY <1>1, <1>4, <2>1, SameSteps DEF ServiceRevokes, entry
  <1>5. CASE BeginRefresh
    BY <1>1, <1>5, StartsLock DEF BeginRefresh, Tasks
  <1>6. ASSUME NEW c \in Commands, BeginCommand(c)
        PROVE  LockIsInUse'
    <2>1. c \in Tasks /\ tasks[c] = Idle
      BY <1>6 DEF BeginCommand, Tasks
    <2>2. PICK on \in BOOLEAN : Starts(c, [Idle EXCEPT !.on = on])
      BY <1>6 DEF BeginCommand
    <2>3. [Idle EXCEPT !.on = on] \in Coroutines
      BY <1>1, <2>2 DEF Coroutines
    <2>4. QED
      BY <1>1, <2>1, <2>2, <2>3, StartsLock
  <1>7. ASSUME NEW t \in Tasks, Steps(t) \/ Breaks(t)
        PROVE  LockIsInUse'
    BY <1>7, StepsLock
  <1>8. CASE UNCHANGED vars
    BY <1>8 DEF vars, LockIsInUse, entry
  <1>9. QED
    BY <1>2, <1>3, <1>4, <1>5, <1>6, <1>7, <1>8 DEF Next, Environment

(* However many coroutines need the cloud for the first time at once and    *)
(* whatever fails, none of them waits for a lock that is left behind        *)
(* (_ensure_cloud_ready).                                                   *)
THEOREM LockAlwaysInUse == Spec => []LockIsInUse
  <1>1. Init => LockIsInUse
    BY DEF Init, LockIsInUse
  <1>2. QED
    BY <1>1, Invariance, NextLock, PTL DEF Spec
===============================================================================
