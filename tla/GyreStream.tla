----------------------------- MODULE GyreStream ------------------------------
(***************************************************************************)
(* The stream of bytes between a Gyre controller and the listener of the   *)
(* client (api.py): frames are written one behind another and _read_frame  *)
(* takes each of them in three reads, each with a timeout of its own.  A   *)
(* read that times out leaves its bytes in the stream, but those of the    *)
(* reads before it are gone: the listener goes on in the middle of a frame.*)
(***************************************************************************)
EXTENDS GyreReports

CONSTANTS
    Frames,        \* what the controller may send: command and payload
    MaxFrames,     \* bound: frames sent on one connection
    MaxCuts        \* bound: timeouts in the middle of a frame

(* A command has two bytes, and no frame of a controller is so long that    *)
(* its length takes more than two groups of seven bits (2^14).              *)
TwoBytes == 256 * 256
Commands == 0..(TwoBytes - 1)

ASSUME FramesAssumption ==
    /\ Frames \subseteq [cmd : Commands, payload : Seq(Bytes)]
    /\ \A f \in Frames : Len(f.payload) + 3 < 128 * 128
    /\ MaxFrames \in Nat /\ MaxCuts \in Nat

VARIABLES
    sent,          \* how many frames were sent on this connection
    reported,      \* the reports among them, in order
    stream,        \* the bytes not read yet
    reading,       \* which read the listener awaits, and the length so far:
                   \* the next seven bits of it count weight (2^shift) times
    applied,       \* the reports merged on this connection, in order
    cuts

streamVars == <<sent, reported, stream, reading, applied, cuts>>

FRAME_HEADER == <<0, 0, 0, 3>>
DATA_RECV    == 145                      \* CMD_DATA_RECV
READ_REPLY   == 148                      \* 0x0094, after a request id of 4 bytes

AtHeader == [at |-> "header", length |-> 0, weight |-> 1]

(* _encode_leb128 and _build_frame.                                        *)
Fixed(n) == <<n % 256>>                  \* faulty: lengths below 256 only
Leb128(n) == IF n < 128 THEN <<n>> ELSE <<128 + (n % 128), n \div 128>>

BuildFrame(cmd, payload) ==
    LET data == <<0, cmd \div 256, cmd % 256>> \o payload
    IN  FRAME_HEADER \o Leb128(Len(data)) \o data

(* What _listen_loop does with a frame.                                    *)
PushedBy(cmd, payload) ==
    CASE cmd = DATA_RECV                       -> ProcessPush(payload)
      [] cmd = READ_REPLY /\ Len(payload) > 4  -> ProcessPush(SubSeq(payload, 5, Len(payload)))
      [] OTHER                                 -> NoAttrs

Merged(reports, attrs) == IF attrs = NoAttrs THEN reports ELSE Append(reports, attrs)

StreamInit ==
    /\ sent = 0 /\ reported = << >>
    /\ stream = << >> /\ applied = << >>
    /\ reading = AtHeader
    /\ cuts = 0

ControllerSends(f) ==
    /\ sent < MaxFrames
    /\ sent' = sent + 1
    /\ reported' = Merged(reported, PushedBy(f.cmd, f.payload))
    /\ stream' = stream \o BuildFrame(f.cmd, f.payload)
    /\ UNCHANGED <<reading, applied, cuts>>

Has(n)      == Len(stream) >= n
Consumed(n) == stream' = SubSeq(stream, n + 1, Len(stream))

(* A header that is none ends the call, and the listener calls again.      *)
AnyHeader == TRUE                        \* faulty: takes the bytes for a header
IsHeader  == SubSeq(stream, 1, 4) = FRAME_HEADER

ReadsHeader ==
    /\ reading.at = "header" /\ Has(4)
    /\ Consumed(4)
    /\ reading' = IF IsHeader THEN [reading EXCEPT !.at = "length"] ELSE AtHeader
    /\ UNCHANGED <<sent, reported, applied, cuts>>

ReadsLength ==
    /\ reading.at = "length" /\ Has(1)
    /\ Consumed(1)
    /\ LET byte == stream[1]
           n    == reading.length + (byte % 128) * reading.weight
       IN  reading' = IF byte >= 128
                      THEN [at |-> "length", length |-> n, weight |-> 128 * reading.weight]
                      ELSE [at |-> "data", length |-> n, weight |-> 1]
    /\ UNCHANGED <<sent, reported, applied, cuts>>

ReadsData ==
    /\ reading.at = "data" /\ Has(reading.length)
    /\ Consumed(reading.length)
    /\ LET data == SubSeq(stream, 1, reading.length)
       IN  applied' = IF reading.length < 3 THEN applied
                      ELSE Merged(applied, PushedBy(256 * data[2] + data[3],
                                                    SubSeq(data, 4, reading.length)))
    /\ reading' = AtHeader
    /\ UNCHANGED <<sent, reported, cuts>>

(* The bytes it waits for are late, also when they are under way by now.   *)
(* Between two frames a timeout changes nothing.                           *)
TimesOut ==
    /\ reading.at # "header" /\ cuts < MaxCuts
    /\ reading' = AtHeader
    /\ cuts' = cuts + 1
    /\ UNCHANGED <<sent, reported, stream, applied>>

(* The connection is lost, and async_connect opens another.                *)
Reopens ==
    /\ sent # 0
    /\ sent' = 0 /\ reported' = << >>
    /\ stream' = << >> /\ applied' = << >>
    /\ reading' = AtHeader
    /\ cuts' = 0

StreamNext ==
    \/ \E f \in Frames : ControllerSends(f)
    \/ ReadsHeader \/ ReadsLength \/ ReadsData
    \/ TimesOut \/ Reopens

StreamSpec == StreamInit /\ [][StreamNext]_streamVars
-----------------------------------------------------------------------------
(* What is merged was reported, once and in this order, also when the      *)
(* listener has lost its place and takes the inside of a frame for frames  *)
(* (_read_frame): it goes on at any four bytes that look like a header, as *)
(* they are in the telemetry of a pump that is off and in the answer to a  *)
(* read, and what follows them there is no report.  A value that held a    *)
(* whole frame would be taken for one; no data point is known to.          *)
Subsequence(s, t) ==
    FoldLeft(LAMBDA i, e : IF i < Len(s) /\ s[i + 1] = e THEN i + 1 ELSE i, 0, t) = Len(s)

MergedWasReported == Subsequence(applied, reported)

(* As long as no frame was cut, nothing is lost: when the listener has     *)
(* read all, it has merged all the reports of the connection.              *)
NothingLostInStep ==
    cuts = 0 /\ stream = << >> /\ reading.at = "header" => applied = reported
==============================================================================
