--------------------------- MODULE Icv6HubProperties ---------------------------
(***************************************************************************)
(* What the ICV6 hub must satisfy.                                         *)
(***************************************************************************)
EXTENDS Icv6Hub

(* A right cache is made wrong by two things only: by overlaps, and by the  *)
(* end of a command that counts as a success though its device did not take *)
(* it.  While nothing changes a device during a search or a command, no     *)
(* merge and no other completion replaces a right state by a wrong one,     *)
(* whichever devices come and go (icv6_coordinator.py, _async_update_data   *)
(* and async_set_power).                                                    *)
Believed(c, d) ==
    cmds[c].dev = d /\ cmds[c].step = "ok" /\ ~cmds[c].taken

StaysRight ==
    usage = "serial" =>
        \A d \in known :
            is_on[d] = power[d] /\ power'[d] = power[d] =>
                \/ is_on'[d] = power[d]
                \/ \E c \in Commands : Believed(c, d) /\ CommandReturns(c)
RightStaysRight == [][StaysRight]_vars

(* Why: what a search has found and what a device has taken are still true  *)
(* when they reach the cache, because serial use keeps them apart.          *)
Flying(c) == cmds[c].step \in {"begun", "ok", "failed"}

SerialInv ==
    usage = "serial" =>
        /\ Searching => \A c \in Commands : ~Flying(c)
        /\ \A c, e \in Commands :
               Flying(c) /\ Flying(e) /\ cmds[c].dev = cmds[e].dev => c = e
        /\ refresh.step = "found" =>
               \A d \in refresh.seen : refresh.on[d] = power[d]
        /\ \A c \in Commands :
               cmds[c].step = "ok" /\ cmds[c].taken =>
                   power[cmds[c].dev] = cmds[c].on

(* With a hub that answers again, every entity comes to show its device for *)
(* good, whatever commands, searches and changes overlapped before          *)
(* (icv6_coordinator.py:77, discovery every 300 s).                         *)
AllThere == reachable /\ attached = Devices

Converges ==
    <>[]AllThere => <>[](known = Devices /\ success /\ shown = power)
==============================================================================
