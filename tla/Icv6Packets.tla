----------------------------- MODULE Icv6Packets -----------------------------
(***************************************************************************)
(* The packets of an ICV6 hub (icv6_api.py): how they are built and found  *)
(* in what was received, what a search and a full read of a device say,    *)
(* and the brightness a schedule gives at a minute of the day.             *)
(***************************************************************************)
EXTENDS Integers, SequencesExt, Timetable

HEADER     == <<221, 238, 255>>          \* DD EE FF
OLD_HEADER == <<255, 238, 221, 204>>     \* FF EE DD CC
SEARCH     == 34                         \* sub-commands 0x22 and 0x14
READ       == 20

(* resp[from:to] of Python, whose indices begin with 0 and may overrun.    *)
Min2(a, b) == IF a < b THEN a ELSE b
Slice(resp, from, to) == SubSeq(resp, from + 1, Min2(to, Len(resp)))

(* _build_new.  Ids are padded to 11 bytes, or cut.                        *)
Padded(id, fill) == [i \in 1..11 |-> IF i <= Len(id) THEN id[i] ELSE fill]
Checksum(bytes)  == FoldLeft(LAMBDA sum, b : (sum + b) % 256, 0, bytes)

BuildNew(id, module, cmd, sub, payload) ==
    LET body == <<255>> \o Padded(id, 255) \o <<module, cmd, sub>> \o payload
        size == <<(Len(body) + 1) \div 256, (Len(body) + 1) % 256>>
    IN  HEADER \o size \o body \o <<Checksum(size \o body)>>

(* _find_new_packet: the first packet with the sub-command; << >> is None. *)
(* Packets of the old protocol are stepped over by their length, whatever  *)
(* is no packet byte by byte.                                              *)
Within(end, resp) == end <= Len(resp)
StepOver(resp, i) == i + 4               \* faulty: looks for packets inside the old one
OldEnd(resp, i)   == i + 5 + resp[i + 5] + 1

IsPacket(resp, i)  == Slice(resp, i, i + 3) = HEADER
PacketEnd(resp, i) == i + 5 + 256 * resp[i + 4] + resp[i + 5]

IsAnswer(resp, sub, i) ==
    LET pkt == Slice(resp, i, PacketEnd(resp, i))
    IN  IsPacket(resp, i) /\ Within(PacketEnd(resp, i), resp) /\ Len(pkt) > 19 /\ pkt[20] = sub

Onward(resp, i) ==
    IF IsPacket(resp, i) THEN PacketEnd(resp, i)
    ELSE IF Slice(resp, i, i + 4) = OLD_HEADER THEN OldEnd(resp, i) ELSE i + 1

FoundFrom(resp, sub) ==
    LET find[i \in Nat] == IF i >= Len(resp) - 5 THEN << >>
                           ELSE IF IsAnswer(resp, sub, i) THEN Slice(resp, i, PacketEnd(resp, i))
                           ELSE find[Onward(resp, i)]
    IN  find

FindNewPacket(resp, sub) == FoundFrom(resp, sub)[0]

Payload(pkt) == Slice(pkt, 20, Len(pkt) - 1)

(* ICV6_DEVICE_TYPES: the two letters an id begins with, and the channels. *)
(* They are R5, R6, E5, F2; T1, G2, G3 and A1 are pumps.                   *)
Channels == (<<82, 53>> :> 4) @@ (<<82, 54>> :> 6) @@ (<<69, 53>> :> 5) @@ (<<70, 50>> :> 4)
         @@ (<<84, 49>> :> 0) @@ (<<71, 50>> :> 0) @@ (<<71, 51>> :> 0) @@ (<<65, 49>> :> 0)

TypeOf(id) == Slice(id, 0, 2)

(* _parse_search_result: one device behind another.  A device has a type   *)
(* code, 12 bytes of id of which the first does not count, and six bytes   *)
(* of attributes, which may be cut off; zeros behind it are padding.       *)
Filler == {0, 9, 10, 13, 32, 255}

Stripped(bytes) ==
    SubSeq(bytes, 1, SelectLastInSeq(bytes, LAMBDA b : b \notin Filler))

NoPadding(data, at)  == at               \* faulty: the padding is a device
PastZeros(data, at) ==
    LET nonzero == {i \in (at + 1)..Len(data) : data[i] # 0}
    IN  IF nonzero = {} THEN Len(data) ELSE Min(nonzero) - 1

Attributes(data, at) ==
    IF at + 6 <= Len(data)
    THEN [mode |-> data[at + 1], group_num |-> data[at + 3], is_on |-> data[at + 6] # 0]
    ELSE [mode |-> 0, group_num |-> 0, is_on |-> TRUE]

Device(data, area, at) ==
    LET attrs == Attributes(data, at + 13)
    IN  [id |-> Stripped(Slice(data, at + 2, at + 13)), area |-> area,
         mode |-> attrs.mode, group_num |-> attrs.group_num, is_on |-> attrs.is_on]

NextDevice(data, area, found) ==
    IF found.at + 13 > Len(data) THEN found
    ELSE [devices |-> Append(found.devices, Device(data, area, found.at)),
          at      |-> PastZeros(data, Min2(found.at + 19, Len(data)))]

\* The loop over the devices: what was found after each turn.
DevicesFound(data, area, count) ==
    LET found[i \in 0..count] == IF i = 0 THEN [devices |-> << >>, at |-> 2]
                                 ELSE NextDevice(data, area, found[i - 1])
    IN  found

ParseSearchResult(data) ==
    IF Len(data) < 3 THEN << >> ELSE DevicesFound(data, data[1], data[2])[data[2]].devices

(* What is left of them in async_discover_devices.                         *)
OfKnownType(devices) == SelectSeq(devices, LAMBDA dev : TypeOf(dev.id) \in DOMAIN Channels)

SearchResult(resp) == ParseSearchResult(Payload(FindNewPacket(resp, SEARCH)))

(* _sync_read_device_all, once a packet is there: mode, manual channels    *)
(* and the points of the schedule; a slot that is all zero is empty.       *)
EmptySlot(hour, minute, levels) ==
    hour = 0 /\ minute = 0 /\ \A i \in DOMAIN levels : levels[i] = 0

SlotAt(n, i) == 1 + n + 1 + (i - 1) * (3 + n)

Point(payload, n, i) ==
    [minute |-> 60 * payload[SlotAt(n, i) + 2] + payload[SlotAt(n, i) + 3],
     levels |-> Slice(payload, SlotAt(n, i) + 3, SlotAt(n, i) + 3 + n)]

IsUsed(payload, n, i) ==
    /\ SlotAt(n, i) + 3 + n <= Len(payload)
    /\ ~EmptySlot(payload[SlotAt(n, i) + 2], payload[SlotAt(n, i) + 3], Point(payload, n, i).levels)

(* The loop over the slots: the points read after each of them.            *)
PointsRead(payload, n, slots) ==
    LET read[i \in 0..slots] == IF i = 0 THEN << >>
                                ELSE IF IsUsed(payload, n, i)
                                THEN Append(read[i - 1], Point(payload, n, i))
                                ELSE read[i - 1]
    IN  read

Points(payload, n) == PointsRead(payload, n, payload[n + 2])[payload[n + 2]]

Unread == [mode |-> 0, manual |-> << >>, schedule |-> << >>]

ReadDevice(resp, n) ==
    LET pkt     == FindNewPacket(resp, READ)
        payload == Payload(pkt)
    IN  IF Len(payload) < n + 2 THEN Unread
        ELSE [mode |-> payload[1], manual |-> Slice(payload, 1, 1 + n),
              schedule |-> Points(payload, n)]

(* compute_current_levels, with the schedule in its order of time.  Python *)
(* rounds a half to the even number; its floating point may miss a half by *)
(* the last bit and round the other way.                                   *)
Round(n, d) ==
    LET q == n \div d  r == 2 * (n % d)
    IN  IF r > d \/ (r = d /\ q % 2 = 1) THEN q + 1 ELSE q

Between(p, q, minute) ==
    [c \in DOMAIN p.levels |->
        Round(p.levels[c] * (q.minute - minute) + q.levels[c] * (minute - p.minute),
              q.minute - p.minute)]

AsRead(schedule) == schedule             \* faulty: points in the order of the slots
InOrder(schedule) == ByMinute(schedule)

CurrentLevels(schedule, mode, manual, minute) ==
    LET points == InOrder(schedule)
        i      == SelectLastInSeq(points, LAMBDA p : p.minute <= minute)
    IN  IF mode = 0 \/ schedule = << >> THEN manual
        ELSE IF i = 0 THEN points[1].levels
        ELSE IF i = Len(points) THEN points[i].levels
        ELSE Between(points[i], points[i + 1], minute)
==============================================================================
