------------------------------- MODULE HeldMode -------------------------------
(***************************************************************************)
(* What the coordinator promises of the mode the entities show around a    *)
(* cloud write (coordinator.py, _write_lock_until and _pending_mode).      *)
(*                                                                         *)
(* A cloud write is shown at once and held: until the hold is released,    *)
(* the view leaves the written mode only for a mode that answers the held  *)
(* command or the one being confirmed on the LAN, and that releases the    *)
(* hold.  There are two exceptions, both answers to cloud status requests. *)
(* The refresh never makes one during a hold, but nobody tells the one     *)
(* under way when a hold begins.  The schedule button makes one whether or *)
(* not a write is held, and what it brings is kept out of the view by one  *)
(* thing only: that the controller has reported its mode itself before.    *)
(***************************************************************************)
EXTENDS GyreModes

VARIABLES
    view,      \* what the entities show
    held,      \* the mode of the cloud write being held, or NoMode
    asked,     \* the mode awaiting its LAN confirmation, or NoMode
    fetching,  \* a refresh's cloud status request is under way
    pressed,   \* a button's cloud status request is under way
    known      \* the controller has reported all that says its mode

vars == <<view, held, asked, fetching, pressed, known>>

Views   == [mode : Modes, is_on : BOOLEAN]
Show(m) == [mode |-> m, is_on |-> m # OFF]

Init ==
    /\ view \in Views
    /\ held = NoMode /\ asked = NoMode
    /\ fetching = FALSE /\ pressed = FALSE /\ known = FALSE

Ask ==                           \* a command turns to the LAN, or leaves it
    /\ asked' \in MaybeModes
    /\ held # NoMode => view' \in {view, Show(held)}
    /\ view' \in Views
    /\ UNCHANGED <<held, fetching, pressed, known>>

Hold(m) ==                       \* the cloud took a write
    /\ held' = m
    /\ view' = Show(m)
    /\ UNCHANGED <<asked, fetching, pressed, known>>

Learns == known' \in {known, TRUE}

Observe ==                       \* nothing is held: show what is reported
    /\ held = NoMode
    /\ view' \in Views
    /\ Learns
    /\ UNCHANGED <<held, asked, fetching, pressed>>

Hear ==                          \* a report that is not shown
    /\ Learns
    /\ UNCHANGED <<view, held, asked, fetching, pressed>>

Reassert ==
    /\ held # NoMode
    /\ view' = Show(held)
    /\ UNCHANGED <<held, asked, fetching, pressed, known>>

Confirm ==                       \* a report answers what is held or asked
    /\ held # NoMode
    /\ \E m \in {held, asked} \ {NoMode}, r \in Modes :
          ModeMatchesRequest(m, r) /\ view' = Show(r)
    /\ held' = NoMode
    /\ Learns
    /\ UNCHANGED <<asked, fetching, pressed>>

Expire ==                        \* the cooldown ends; the view is kept
    /\ held' = NoMode
    /\ UNCHANGED <<view, asked, fetching, pressed, known>>

Fetch ==                         \* never begun while a write is held
    /\ held = NoMode
    /\ fetching' = TRUE
    /\ UNCHANGED <<view, held, asked, pressed, known>>

Fetched ==                       \* its answer is shown, whatever is held
    /\ fetching /\ fetching' = FALSE
    /\ view' \in Views
    /\ UNCHANGED <<held, asked, pressed, known>>

Press ==                         \* begun also while a write is held
    /\ pressed' = TRUE
    /\ UNCHANGED <<view, held, asked, fetching, known>>

Pressed ==                       \* its answer adds what is not known yet
    /\ pressed /\ pressed' = FALSE
    /\ view' \in Views
    /\ held # NoMode /\ known => view' \in {view, Show(held)}
    /\ UNCHANGED <<held, asked, fetching, known>>

Renew ==                         \* setup begins again, with a new client
    /\ held = NoMode
    /\ view' \in Views
    /\ known' = FALSE
    /\ UNCHANGED <<held, asked, fetching, pressed>>

Next ==
    \/ Ask \/ \E m \in Modes : Hold(m)
    \/ Observe \/ Hear \/ Reassert \/ Confirm \/ Expire
    \/ Fetch \/ Fetched \/ Press \/ Pressed \/ Renew

Spec == Init /\ [][Next]_vars
===============================================================================
