----------------------------- MODULE GyreProgram -----------------------------
(***************************************************************************)
(* The programmes of a Gyre (gyre_program.py): decode_program and the      *)
(* entry that is active at a minute of the day.  A programme is a sequence *)
(* of bytes: its length, for a schedule the number of entries, then per    *)
(* entry its number and time, and a block for each of the two pumps.       *)
(***************************************************************************)
EXTENDS Integers, SequencesExt, Timetable

Patterns    == 0..8
ALTERNATING == 3
DAY         == 24 * 60

(* The bytes of the block at data[at]: its pattern, and for pump b that of *)
(* pump a, decide.                                                         *)
BlockLength(pattern, a_pattern) ==
    CASE pattern \in {1, 2}         -> 4
      [] pattern = ALTERNATING      -> 9
      [] pattern \in {0, 4}         -> 3
      [] OTHER                      -> IF a_pattern = ALTERNATING THEN 5 ELSE 3

IsSpeed(direction, speed) == direction \in {0, 1} /\ speed <= 10
Signed(direction, speed)  == speed * 10 * (IF direction = 1 THEN 1 ELSE -1)

(* Where the second speed of a block is, 0 when it has none.               *)
AlternateAt(block) ==
    IF block[1] = ALTERNATING THEN 6 ELSE IF Len(block) = 5 THEN 4 ELSE 0

BlockIsValid(data, at, highest, a_pattern) ==
    /\ at <= Len(data) /\ data[at] \in 0..highest
    /\ LET end   == at + BlockLength(data[at], a_pattern) - 1
           block == SubSeq(data, at, end)
           alt   == AlternateAt(block)
       IN  /\ end <= Len(data)
           /\ IsSpeed(block[2], block[3])
           /\ alt # 0 => IsSpeed(block[alt], block[alt + 1])

BlockAt(data, at, a_pattern) ==
    LET block == SubSeq(data, at, at + BlockLength(data[at], a_pattern) - 1)
        alt   == AlternateAt(block)
    IN  [raw       |-> block,
         power     |-> Signed(block[2], block[3]),
         alternate |-> IF alt = 0 THEN << >> ELSE <<Signed(block[alt], block[alt + 1])>>]

TimeAt(data, at) == 60 * data[at + 1] + data[at + 2]

TimeIsValid(data, at) ==
    at + 2 <= Len(data) /\ data[at + 1] <= 23 /\ data[at + 2] <= 59

(* The entry at data[at]: the blocks of the pumps begin behind its time.    *)
PumpA(scheduled, at)       == IF scheduled THEN at + 3 ELSE at
PumpB(data, scheduled, at) ==
    LET a == PumpA(scheduled, at) IN a + BlockLength(data[a], data[a])

EntryIsValid(data, scheduled, at) ==
    LET a == PumpA(scheduled, at)
        b == PumpB(data, scheduled, at)
    IN  /\ scheduled => TimeIsValid(data, at)
        /\ BlockIsValid(data, a, 4, 0)
        /\ BlockIsValid(data, b, 8, data[a])

EntryAt(data, scheduled, at) ==
    LET a == PumpA(scheduled, at)
        b == PumpB(data, scheduled, at)
    IN  [number |-> IF scheduled THEN data[at] ELSE 0,
         minute |-> IF scheduled THEN TimeAt(data, at) ELSE 0,
         a |-> BlockAt(data, a, 0), b |-> BlockAt(data, b, data[a])]

EntryEnd(data, scheduled, at) ==
    LET a == PumpA(scheduled, at)
        b == PumpB(data, scheduled, at)
    IN  b + BlockLength(data[b], data[a])

(* The loop over the entries: how far it came after each turn.  It stops    *)
(* at the first thing that is wrong.                                        *)
Begun(scheduled) == [ok |-> TRUE, at |-> IF scheduled THEN 3 ELSE 2, entries |-> << >>]
Failed           == [ok |-> FALSE, at |-> 0, entries |-> << >>]

Turn(data, scheduled, read) ==
    IF read.ok /\ EntryIsValid(data, scheduled, read.at)
    THEN [ok |-> TRUE, at |-> EntryEnd(data, scheduled, read.at),
          entries |-> Append(read.entries, EntryAt(data, scheduled, read.at))]
    ELSE Failed

Turns(data, scheduled, count) ==
    LET read[i \in 0..count] == IF i = 0 THEN Begun(scheduled)
                                ELSE Turn(data, scheduled, read[i - 1])
    IN  read

(* decode_program: << >> is its empty list.                                *)
OnlyEntries(data, at) == TRUE            \* faulty: what follows is not looked at
OnlyZerosFollow(data, at) == \A i \in at..Len(data) : data[i] = 0

DecodeProgram(bytes, scheduled) ==
    IF bytes = << >> \/ bytes[1] + 1 > Len(bytes) \/ (scheduled /\ bytes[1] = 0) THEN << >>
    ELSE LET data  == SubSeq(bytes, 1, bytes[1] + 1)
             count == IF scheduled THEN data[2] ELSE 1
             read  == Turns(data, scheduled, count)[count]
         IN  IF read.ok /\ OnlyZerosFollow(data, read.at) THEN read.entries ELSE << >>

(* active_entry: the entries are sorted by their minute, equal ones in     *)
(* their order, and looked through from the end; before the first of the   *)
(* day it is the last one, of the day before.                              *)
Sorted(entries) == ByMinute(entries)

FirstOfDay(entries) == Sorted(entries)[1]     \* faulty: tomorrow's
LastOfDay(entries)  == Last(Sorted(entries))

ActiveEntry(entries, minute) ==
    LET sorted == Sorted(entries)
        at     == SelectLastInSeq(sorted, LAMBDA e : e.minute <= minute)
    IN  IF at = 0 THEN LastOfDay(entries) ELSE sorted[at]
==============================================================================
