------------------------------ MODULE GyreModes ------------------------------
(***************************************************************************)
(* The operating modes of a Gyre controller (data point 18, const.py), and *)
(* the pure functions of api.py on them: what a report says of the mode,   *)
(* how a report is merged in the cached state, and when a reported mode    *)
(* answers a requested one.                                                *)
(***************************************************************************)

WATER_FLOW  == "Water Flow"
PROGRAMMING == "Programming"
FEED        == "Feed"
OFF         == "Off"
EXIT_FEED   == "Exit Feed"
ON          == "On"

Modes    == {WATER_FLOW, PROGRAMMING, FEED, OFF, EXIT_FEED, ON}
Programs == {WATER_FLOW, PROGRAMMING}

NoMode     == "None"                 \* Python's None
MaybeModes == Modes \union {NoMode}

(* A validated report: the Mode attribute and the mode byte of the compact *)
(* telemetry (attribute Bak24), each present or not.  A report with        *)
(* neither, such as the timestamp answering the 3 s poll, is Clock.        *)
Reports == [mode : MaybeModes, bak24 : MaybeModes]
Clock   == [mode |-> NoMode, bak24 |-> NoMode]

(* The attributes a report brings, of those that say a mode.                *)
ModeAttributes  == {"Mode", "Bak24"}
AttributesOf(r) == {a \in ModeAttributes :
                        (IF a = "Mode" THEN r.mode ELSE r.bak24) # NoMode}

(* _mode_from_report: Mode when it is there, else the telemetry's byte.    *)
ModeFromReport(r) == IF r.mode # NoMode THEN r.mode ELSE r.bak24

(* _mode_matches_request: On and Exit Feed are carried out by resuming a   *)
(* program, so either program, or On itself, answers them.                 *)
ModeMatchesRequest(requested, reported) ==
    IF requested \in {ON, EXIT_FEED}
    THEN reported \in Programs \union {ON}
    ELSE reported = requested

(* The cached device state, as far as the mode goes.  generic is the Mode  *)
(* entry of generic_attrs: the last Mode attribute merged.                 *)
States == [mode : Modes, is_on : BOOLEAN, generic : MaybeModes]

(* MaxspectDeviceState(): the dataclass defaults, before any report.       *)
InitialState == [mode |-> WATER_FLOW, is_on |-> FALSE, generic |-> NoMode]

(* apply_attributes: the telemetry sets the mode, except that its On does  *)
(* not replace a running program known from the Mode attribute of this or  *)
(* an earlier report; then the Mode attribute itself, if there, wins.      *)
ProgramMode(r, s) == IF r.mode # NoMode THEN r.mode ELSE s.generic

TelemetryByte(r, s) == r.bak24           \* faulty: forgets the program

TelemetryMode(r, s) ==
    IF r.bak24 = ON /\ ProgramMode(r, s) \in Programs
    THEN ProgramMode(r, s)
    ELSE r.bak24

ApplyUnchecked(r, s) ==                  \* faulty: merges what is absent
    [mode |-> TelemetryMode(r, s), is_on |-> TRUE, generic |-> r.mode]

ApplyAttributes(r, s) ==
    IF r = Clock THEN s
    ELSE LET m == IF r.mode # NoMode THEN r.mode ELSE TelemetryMode(r, s)
         IN  [mode    |-> m,
              is_on   |-> m # OFF,
              generic |-> IF r.mode # NoMode THEN r.mode ELSE s.generic]
==============================================================================
