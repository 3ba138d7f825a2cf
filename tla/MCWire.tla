------------------------------- MODULE MCWire --------------------------------
(* The stream of frames, the decoders and the search of a hub, for TLC:     *)
(* part says which of them a behaviour is about, and the others rest.       *)
EXTENDS GyreStream, Decoding, Icv6Search

VARIABLE part

Init ==
    /\ part \in {"stream", "decoding", "search"}
    /\ StreamInit
    /\ IF part = "decoding" THEN DecodingInit
       ELSE input = [of |-> "nothing"] /\ output = << >> /\ done = FALSE
    /\ SearchInit
    /\ part # "search" => occupied = {} /\ needed = 0

Next ==
    /\ UNCHANGED part
    /\ \/ part = "stream" /\ StreamNext /\ UNCHANGED <<decodingVars, searchVars>>
       \/ DecodingNext /\ UNCHANGED <<streamVars, searchVars>>
       \/ part = "search" /\ SearchNext /\ UNCHANGED <<streamVars, decodingVars>>

Spec == Init /\ [][Next]_<<streamVars, decodingVars, searchVars, part>>

(* Frames: the clock answering a poll, telemetry of a pump that is off and  *)
(* of one that runs, a report whose own bytes would, read four bytes late,  *)
(* be the report of other data points, 162 bytes of others, the answer to a *)
(* read, its mere acknowledgement, a heartbeat, and a report that lacks a   *)
(* byte.                                                                    *)
Fill(dp, seed) ==
    IF dp \in Booleans THEN (dp + seed) % 3 = 0
    ELSE IF dp < BLOB THEN (7 * dp + seed) % 256
    ELSE [i \in 1..DpLength[dp] |-> (dp + 31 * i * seed) % 256]

AttrsOf(dps, seed) == [dp \in dps |-> Fill(dp, seed)]

Telemetry(mode, rpm) ==
    ReportOf(44 :> (<<mode, 0, 0, rpm, 0, rpm>> \o [i \in 1..19 |-> 0]))

MCFrames ==
    {[cmd |-> DATA_RECV,  payload |-> p] : p \in
        {ReportOf(AttrsOf({34}, 1)), Telemetry(3, 0), Telemetry(5, 145),
         ReportOf((18 :> 31) @@ (20 :> 62) @@ (24 :> 0) @@ (28 :> 0) @@ (31 :> 1)),
         ReportOf(AttrsOf({35, 45, 46}, 2)),
         SubSeq(ReportOf(AttrsOf({18, 19}, 3)), 1, 8)}}
    \union {[cmd |-> READ_REPLY, payload |-> <<0, 0, 0, 3>> \o p] : p \in
        {<< >>, <<READ_ACK>> \o Tail(ReportOf(AttrsOf({0, 5, 18, 22}, 1)))}}
    \union {[cmd |-> 13, payload |-> << >>]}

(* Reports of every selection of six data points with seven selections of   *)
(* booleans, up to all 17, with the right length and with wrong ones.       *)
MCReports ==
    {[of |-> "report", attrs |-> AttrsOf(dps, seed), damage |-> d] :
        dps  \in {s \union b : s \in SUBSET {17, 18, 32, 33, 37, 46},
                               b \in {{}, {3}, {16}, {0, 8}, {2, 5, 7}, 0..8, Booleans}},
        seed \in 1..2, d \in {-2, -1, 0, 1}}

MCWrites == {[of |-> "write", dp |-> dp, value |-> v] : dp \in 17..32, v \in {0, 5, 255}}

(* Programmes of up to two entries with blocks of every length, as they are *)
(* written and with a byte changed, a wrong length or count, or more or     *)
(* fewer bytes than declared.                                               *)
Block(raw, power, alternate) == [raw |-> raw, power |-> power, alternate |-> alternate]

Constant    == Block(<<0, 0, 0>>, 0, << >>)
Pulsing     == Block(<<1, 1, 5, 9>>, 50, << >>)
Alternating == Block(<<3, 1, 8, 84, 84, 0, 6, 129, 129>>, 80, <<-60>>)
Random      == Block(<<4, 0, 10>>, -100, << >>)

Pumps == ({Constant, Pulsing, Random}
            \X {Constant, Alternating, Block(<<5, 1, 7>>, 70, << >>), Block(<<8, 0, 1>>, -10, << >>)})
         \union ({Alternating} \X {Pulsing, Block(<<6, 1, 8, 0, 6>>, 80, <<-60>>)})

Entry(k, m, pumps) == [number |-> k, minute |-> m, a |-> pumps[1], b |-> pumps[2]]

Schedules == {<<Entry(1, m, p)>> : m \in {0, 1439}, p \in Pumps}
             \union {<<Entry(1, 0, p), Entry(2, 61, q)>> : p, q \in Pumps}
Manuals   == {<<Entry(0, 0, p)>> : p \in Pumps}

Program(scheduled, entries, zeros, bytes) ==
    [of |-> "program", scheduled |-> scheduled, entries |-> entries,
     zeros |-> zeros, bytes |-> bytes]

Changed(bytes) ==
    {bytes \o <<7>>, Front(bytes), <<bytes[1] - 1>> \o Tail(bytes), <<255>> \o Tail(bytes)}
    \union {[bytes EXCEPT ![i] = v] : i \in 2..Len(bytes), v \in {1, 2, 3, 11, 24, 60}}

MCPrograms ==
    {Program(s, e, z, EncodeProgram(e, s, z)) :
        s \in {TRUE}, e \in Schedules, z \in 0..1}
    \union {Program(FALSE, e, z, EncodeProgram(e, FALSE, z)) : e \in Manuals, z \in 0..2}
    \union UNION {{Program(s, e, 1, b) : b \in Changed(EncodeProgram(e, s, 1))} :
        s \in {TRUE}, e \in {t \in Schedules : Len(t) = 1}}
    \union UNION {{Program(FALSE, e, 1, b) : b \in Changed(EncodeProgram(e, FALSE, 1))} :
        e \in Manuals}

MCMinutes ==
    {[of |-> "minute", entries |-> [i \in 1..n |-> [number |-> i, minute |-> m[i]]], minute |-> now] :
        n \in 1..3, m \in [1..3 -> {0, 719, 720, 1439}],
        now \in {0, 1, 718, 719, 720, 1438, 1439}}

(* Two LEDs, a pump with a short id and a device of no known type, one of   *)
(* them with the type code zero, which any place in the answer may have;    *)
(* before the answer nothing or up to two of noise, a packet of the old protocol   *)
(* that holds the beginning of a new one, and the answer to a read.         *)
Dev(code, id, mode, on) ==
    [code |-> code, id |-> id, mode |-> mode, group_num |-> 2, is_on |-> on]

Children == {Dev(1, <<82, 53, 83, 50, 65, 48, 48, 49, 54, 48, 50>>, 1, TRUE),
             Dev(0, <<82, 54, 88, 48, 66, 48, 48, 49, 50, 51, 52>>, 0, FALSE),
             Dev(2, <<71, 50, 88>>, 0, TRUE), Dev(255, <<90, 90, 49>>, 0, TRUE)}

MCSearches ==
    {[of |-> "search", area |-> 3, devices |-> d, zeros |-> z, noise |-> n] :
        d \in BoundedSeq(Children, 3), z \in {0, 1, 3},
        n \in BoundedSeq({<<0, 221, 238, 1>>, OLD_HEADER \o <<5>> \o HEADER \o <<0, 90, 0>>,
                          BuildNew(HUB, 1, 82, READ, <<1, 2>>)}, 2)}

(* Up to two points in any order, also at midnight and with every channel   *)
(* off, with empty slots behind them.                                       *)
Levels == {<<0, 0, 0, 0>>, <<100, 33, 7, 0>>, <<50, 0, 8, 1>>}

MCLevels ==
    {[of |-> "levels", points |-> p, empty |-> e, mode |-> m, manual |-> <<9, 8, 7, 6>>, minute |-> now] :
        p \in BoundedSeq([minute : {0, 1, 360, 367}, levels : Levels], 2),
        e \in {0, 2}, m \in {0, 1}, now \in {0, 1, 180, 359, 360, 363, 366, 367, 1439}}
==============================================================================
