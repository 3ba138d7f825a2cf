------------------------------ MODULE Decoding -------------------------------
(***************************************************************************)
(* The decoders of the integration at work on one input after another:     *)
(* what a device says is encoded, perhaps damaged on the way, and decoded. *)
(* The encoders stand for the devices.                                     *)
(***************************************************************************)
EXTENDS GyreReports, GyreProgram, Icv6Packets

CONSTANTS
    ReportInputs,      \* [of, attrs, damage]: bytes added, or cut off
    WriteInputs,       \* [of, dp, value]
    ProgramInputs,     \* [of, scheduled, entries, zeros, bytes]
    MinuteInputs,      \* [of, entries, minute]
    SearchInputs,      \* [of, area, devices, zeros, noise]
    LevelInputs        \* [of, points, empty, mode, manual, minute]

(* The attributes of a controller: a boolean, a byte or as many as the data *)
(* point has.                                                               *)
AreAttrs(attrs) ==
    /\ DOMAIN attrs \subseteq DataPoints /\ attrs = [dp \in DOMAIN attrs |-> attrs[dp]]
    /\ \A dp \in DOMAIN attrs :
          IF dp \in Booleans THEN attrs[dp] \in BOOLEAN
          ELSE IF dp < BLOB THEN attrs[dp] \in Bytes
          ELSE attrs[dp] \in Seq(Bytes) /\ Len(attrs[dp]) = DpLength[dp]

(* A programme as a controller has it: a block is a whole one of a pattern  *)
(* it may have at its place; without a schedule there is one entry.         *)
IsSequence(s) == s \in Seq({s[i] : i \in DOMAIN s})

IsBlock(block, highest, a_pattern) ==
    /\ block.raw \in Seq(Bytes) /\ block.raw # << >>
    /\ Len(block.raw) = BlockLength(block.raw[1], a_pattern)
    /\ BlockIsValid(block.raw, 1, highest, a_pattern)
    /\ block = BlockAt(block.raw, 1, a_pattern)

IsEntry(e, scheduled) ==
    /\ e = [number |-> e.number, minute |-> e.minute, a |-> e.a, b |-> e.b]
    /\ IF scheduled THEN e.number \in Bytes /\ e.minute \in 0..(DAY - 1)
       ELSE e.number = 0 /\ e.minute = 0
    /\ IsBlock(e.a, 4, 0) /\ IsBlock(e.b, 8, e.a.raw[1])

IsProgram(entries, scheduled) ==
    /\ IsSequence(entries)
    /\ ~scheduled => Len(entries) = 1
    /\ \A k \in DOMAIN entries : IsEntry(entries[k], scheduled)

(* The points of a schedule as an ICV6 device has them, for four channels.  *)
IsLevels(levels) == levels \in Seq(Bytes) /\ Len(levels) = 4

IsPoint(p) ==
    /\ p = [minute |-> p.minute, levels |-> p.levels]
    /\ p.minute \in 0..(DAY - 1) /\ IsLevels(p.levels)

(* The devices of a hub, whose ids do not end with what pads them.          *)
IsDevice(dev) ==
    /\ dev.id \in Seq(Bytes) /\ Len(dev.id) <= 11
    /\ dev.id # << >> => dev.id[Len(dev.id)] \notin Filler
    /\ dev.code \in Bytes /\ dev.mode \in Bytes /\ dev.group_num \in Bytes /\ dev.is_on \in BOOLEAN

(* What may come before the answer to a search: whole packets of the old    *)
(* protocol, whole answers to something else, and bytes among which every   *)
(* header that begins is broken off.                                        *)
IsOldPacket(part) ==
    Len(part) >= 6 /\ Slice(part, 0, 4) = OLD_HEADER /\ Len(part) = OldEnd(part, 0)

IsOtherAnswer(part) ==
    /\ Len(part) >= 6 /\ IsPacket(part, 0) /\ Len(part) = PacketEnd(part, 0)
    /\ Len(part) > 19 => part[20] # SEARCH

BreaksOff(part, i, header) ==
    part[i] = header[1] =>
      \E j \in 2..Len(header) : i + j - 1 <= Len(part) /\ part[i + j - 1] # header[j]

IsStray(part) ==
    \A i \in DOMAIN part : BreaksOff(part, i, HEADER) /\ BreaksOff(part, i, OLD_HEADER)

IsNoise(part) ==
    part \in Seq(Bytes) /\ (IsOldPacket(part) \/ IsOtherAnswer(part) \/ IsStray(part))

(* A programme that is looked up has entries, and those begin at a minute   *)
(* of the day; a schedule may be empty.                                     *)
ASSUME InputsAssumption ==
    /\ \A i \in ReportInputs  :
          /\ i.of = "report" /\ i.damage \in Int /\ AreAttrs(i.attrs)
    /\ \A i \in WriteInputs   :
          /\ i.of = "write" /\ i.value \in Bytes
          /\ i.dp \in DataPoints \ Booleans /\ i.dp < BLOB
    /\ \A i \in ProgramInputs :
          /\ i.of = "program" /\ i.scheduled \in BOOLEAN /\ i.zeros \in Nat
          /\ i.bytes \in Seq(Bytes) /\ IsProgram(i.entries, i.scheduled)
    /\ \A i \in SearchInputs  :
          /\ i.of = "search" /\ i.area \in Bytes /\ i.zeros \in Nat
          /\ IsSequence(i.devices) /\ Len(i.devices) \in Bytes
          /\ \A k \in DOMAIN i.devices : IsDevice(i.devices[k])
          /\ IsSequence(i.noise) /\ \A k \in DOMAIN i.noise : IsNoise(i.noise[k])
    /\ \A i \in LevelInputs   :
          /\ i.of = "levels" /\ i.mode \in Bytes /\ IsLevels(i.manual)
          /\ IsSequence(i.points) /\ \A k \in DOMAIN i.points : IsPoint(i.points[k])
          /\ i.empty \in Nat /\ Len(i.points) + i.empty \in Bytes
          /\ i.minute \in 0..(DAY - 1)
    /\ \A i \in MinuteInputs  :
          /\ i.of = "minute" /\ i.minute \in 0..(DAY - 1)
          /\ IsSequence(i.entries) /\ i.entries # << >>
          /\ \A k \in DOMAIN i.entries : i.entries[k].minute \in 0..(DAY - 1)

VARIABLES input, output, done

decodingVars == <<input, output, done>>

DecodingInit ==
    /\ \/ input \in ReportInputs  \/ input \in WriteInputs
       \/ input \in ProgramInputs \/ input \in MinuteInputs
       \/ input \in SearchInputs  \/ input \in LevelInputs
    /\ output = << >> /\ done = FALSE

Decodes(kind) == input.of = kind /\ ~done /\ done' = TRUE /\ UNCHANGED input
-----------------------------------------------------------------------------
(* A report, and a write as the controller reads it.                       *)
Damaged(bytes, damage) ==
    IF damage < 0 THEN SubSeq(bytes, 1, Len(bytes) + damage)
    ELSE bytes \o [i \in 1..damage |-> 0]

DecodesReport ==
    /\ Decodes("report")
    /\ output' = ProcessPush(Damaged(ReportOf(input.attrs), input.damage))

DecodesWrite ==
    /\ Decodes("write")
    /\ LET bytes == WritePayload(input.dp, input.value)
       IN  output' = [dps |-> Selected(SubSeq(bytes, 2, 7)), value |-> SubSeq(bytes, 8, Len(bytes))]

(* A report is read as it was written or, when its length is not what its  *)
(* flags say, not at all; _dp_data_offset finds the values where           *)
(* _process_push takes them from; and a write names its data point alone.  *)
ReadsBack ==
    done =>
      /\ input.of = "report" =>
           /\ output = IF input.damage = 0 THEN input.attrs ELSE NoAttrs
           /\ LET bytes == ReportOf(input.attrs)
              IN  \A dp \in DOMAIN input.attrs \ Booleans :
                    LET from == 7 + DataOffset(SubSeq(bytes, 2, 7), dp)
                    IN  SubSeq(bytes, from + 1, from + DpLength[dp])
                          = ValueBytes(input.attrs, dp)
      /\ input.of = "write" => output.dps = {input.dp} /\ output.value = <<input.value>>
-----------------------------------------------------------------------------
(* A programme.  input.bytes is the encoding of input.entries with some    *)
(* zeros behind it, or anything else.                                      *)
EncodeEntry(e, scheduled) ==
    (IF scheduled THEN <<e.number, e.minute \div 60, e.minute % 60>> ELSE << >>)
    \o e.a.raw \o e.b.raw

EncodeProgram(entries, scheduled, zeros) ==
    LET body == (IF scheduled THEN <<Len(entries)>> ELSE << >>)
                \o FlattenSeq([i \in DOMAIN entries |-> EncodeEntry(entries[i], scheduled)])
                \o [i \in 1..zeros |-> 0]
    IN  <<Len(body)>> \o body

DecodesProgram ==
    /\ Decodes("program")
    /\ output' = DecodeProgram(input.bytes, input.scheduled)

(* A schedule is shown as the controller has it or not at all, never in    *)
(* part (decode_program): what is accepted is, written down again, all the *)
(* bytes that were declared but for zeros at the end; and what a controller*)
(* writes is accepted.                                                     *)
NeverInPart ==
    done /\ input.of = "program" =>
      /\ output # << >> =>
           LET again == EncodeProgram(output, input.scheduled, 0)
           IN  /\ Len(again) <= input.bytes[1] + 1 /\ input.bytes[1] < Len(input.bytes)
               /\ \A i \in 2..(input.bytes[1] + 1) :
                    input.bytes[i] = IF i <= Len(again) THEN again[i] ELSE 0
      /\ input.bytes = EncodeProgram(input.entries, input.scheduled, input.zeros)
         => output = input.entries
-----------------------------------------------------------------------------
(* The entry that is active at a minute of the day.                        *)
FindsEntry ==
    /\ Decodes("minute")
    /\ output' = ActiveEntry(input.entries, input.minute)

(* The active entry is the one that began last, on this day or, before the *)
(* first of the day, on the day before (active_entry); of several at the   *)
(* same minute it is the last in the programme.                            *)
BeganLast(entry, entries, minute) ==
    LET Since(e) == (minute + DAY - e.minute) % DAY
    IN  \E k \in DOMAIN entries :
          /\ entry = entries[k]
          /\ \A i \in DOMAIN entries :
               \/ Since(entries[k]) < Since(entries[i])
               \/ Since(entries[k]) = Since(entries[i]) /\ i <= k

ActiveBeganLast ==
    done /\ input.of = "minute" => BeganLast(output, input.entries, input.minute)
-----------------------------------------------------------------------------
(* The answer of an ICV6 hub to a search, and to a full read.              *)
HUB == <<73, 54, 65, 49, 65>>            \* I6A1A

EncodeDevice(dev, zeros) ==
    <<dev.code, 66>> \o Padded(dev.id, 32)
    \o <<dev.mode, 4, dev.group_num, 0, 0, IF dev.is_on THEN 1 ELSE 0>>
    \o [i \in 1..zeros |-> 0]

SearchReply ==
    BuildNew(HUB, 1, 82, SEARCH,
             <<input.area, Len(input.devices)>>
             \o FlattenSeq([i \in DOMAIN input.devices |->
                              EncodeDevice(input.devices[i], input.zeros)]))

FindsDevices ==
    /\ Decodes("search")
    /\ LET devices == SearchResult(FlattenSeq(input.noise) \o SearchReply)
       IN  output' = [parsed |-> devices, known |-> OfKnownType(devices)]

(* The devices that the hub lists are found with their id, power, mode and *)
(* group, whatever else was received before the answer and however they    *)
(* are padded (_find_new_packet, _parse_search_result): each of them up to *)
(* the first that is followed by a device whose type code is zero, because *)
(* that zero is taken for padding and the bytes behind it are misread; and *)
(* when no device follows with such a code, nothing but them is found.     *)
AsListed(dev, area) ==
    [id |-> dev.id, area |-> area,
     mode |-> dev.mode, group_num |-> dev.group_num, is_on |-> dev.is_on]

AsAllListed ==
    [i \in DOMAIN input.devices |-> AsListed(input.devices[i], input.area)]

CodesUpTo(devices, k) == \A i \in 2..k : devices[i].code # 0

DevicesFoundAsListed ==
    done /\ input.of = "search" =>
      /\ \A k \in DOMAIN input.devices :
           CodesUpTo(input.devices, k) =>
             k <= Len(output.parsed) /\ output.parsed[k] = AsAllListed[k]
      /\ CodesUpTo(input.devices, Len(input.devices)) =>
           output.known = OfKnownType(AsAllListed)

EncodeSlot(points, i) ==
    IF i <= Len(points)
    THEN <<i, points[i].minute \div 60, points[i].minute % 60>> \o points[i].levels
    ELSE [j \in 1..7 |-> 0]

ReadReply ==
    LET slots == Len(input.points) + input.empty
    IN  BuildNew(HUB, 1, 95, READ,
                 <<input.mode>> \o input.manual \o <<slots>>
                 \o FlattenSeq([i \in 1..slots |-> EncodeSlot(input.points, i)]))

ShowsLevels ==
    /\ Decodes("levels")
    /\ LET dev == ReadDevice(ReadReply, 4)
       IN  output' = CurrentLevels(dev.schedule, dev.mode, dev.manual, input.minute)

(* In a schedule a channel shows the whole percent that is nearest to the  *)
(* straight line from the point passed last to the next one, in whichever  *)
(* order the hub lists them; outside of the points the nearest of them,    *)
(* and with no point or in manual mode the manual level                    *)
(* (_sync_read_device_all, compute_current_levels).  The points are those  *)
(* that are set: at midnight with every channel off is an empty slot       *)
(* (tests/test_icv6.py:1537), whatever number it has.                      *)
Nearest(level, from, to, minute, c) ==
    LET span == to.minute - from.minute
        line == from.levels[c] * (to.minute - minute) + to.levels[c] * (minute - from.minute)
    IN  2 * (level * span - line) \in (-span)..span

Follows(levels, all, mode, manual, minute) ==
    LET passed == {p \in all : p.minute <= minute
                     /\ \A q \in all : q.minute <= minute => q.minute <= p.minute}
        coming == {p \in all : p.minute > minute
                     /\ \A q \in all : q.minute > minute => q.minute >= p.minute}
    IN  IF mode = 0 \/ all = {} THEN levels = manual
        ELSE IF passed = {} \/ coming = {}
        THEN \E p \in passed \union coming : levels = p.levels
        ELSE \E p \in passed, q \in coming :
               /\ DOMAIN levels = DOMAIN p.levels
               /\ \A c \in DOMAIN levels : Nearest(levels[c], p, q, minute, c)

AllOff(p) == \A c \in DOMAIN p.levels : p.levels[c] = 0

SetPoints(points) ==
    {p \in {points[i] : i \in DOMAIN points} : ~(p.minute = 0 /\ AllOff(p))}

LevelsFollowSchedule ==
    done /\ input.of = "levels" =>
      Follows(output, SetPoints(input.points), input.mode, input.manual, input.minute)
-----------------------------------------------------------------------------
DecodingNext ==
    \/ DecodesReport \/ DecodesWrite
    \/ DecodesProgram \/ FindsEntry
    \/ FindsDevices \/ ShowsLevels

DecodingSpec == DecodingInit /\ [][DecodingNext]_decodingVars
==============================================================================
