----------------------------- MODULE GyreReports -----------------------------
(***************************************************************************)
(* The payload of a report of a Gyre controller (api.py): an action byte,  *)
(* six bytes of attribute flags, the selected booleans packed in as few    *)
(* bytes as hold them, and the other selected data points one after the    *)
(* other.  Bytes are numbers below 256, attributes are functions from data *)
(* points to values.                                                       *)
(***************************************************************************)
EXTENDS Naturals, SequencesExt

Bytes == 0..255

WRITE    == 17                           \* ACTION_WRITE
READ_ACK == 19                           \* ACTION_READ_ACK
REPORT   == 20                           \* ACTION_DEVICE_REPORT

DataPoints == 0..46
Booleans   == 0..16
BLOB       == 33                         \* from here on a value is a string

(* DP_LENGTHS: the bytes of a data point that is no boolean.               *)
DpLength == [dp \in DataPoints \ Booleans |->
    IF dp < BLOB THEN 1
    ELSE <<12, 7, 62, 781, 3, 4, 2, 2, 5, 10, 10, 25, 50, 50>>[dp - BLOB + 1]]

(* flags[byte] & (1 << bit), and the same of int.from_bytes(bytes, "big"): *)
(* a number is written with its highest byte first.                        *)
Bit(n, i)       == (n \div 2^i) % 2 = 1
BitOf(bytes, i) == Bit(bytes[Len(bytes) - i \div 8], i % 8)

(* The bytes of which these bits are set.                                  *)
Byte(bits) ==
    LET Worth(i) == IF i \in bits THEN 2^i ELSE 0
    IN  Worth(0) + Worth(1) + Worth(2) + Worth(3) + Worth(4) + Worth(5) + Worth(6) + Worth(7)

BytesOf(bits, count) ==
    [k \in 1..count |-> Byte({i \in 0..7 : 8 * (count - k) + i \in bits})]

(* _dp_is_flagged, and _dp_attr_flags for the data points in dps: the last *)
(* byte of the flags is that of the lowest data points.                    *)
Flagged(flags, dp) == BitOf(flags, dp)
AttrFlags(dps)     == BytesOf(dps, 6)
Selected(flags)    == {dp \in DataPoints : Flagged(flags, dp)}

(* The booleans take as many bits as there are, in the order of the data   *)
(* points; the first is the lowest bit.                                    *)
BoolBytes(dps)   == (Cardinality(dps \intersect Booleans) + 7) \div 8
PlaceOf(dp, dps) == Cardinality({d \in dps \intersect Booleans : d < dp})

(* How many bytes the first k of the other data points take, if selected.  *)
Lengths(dps) ==
    LET sum[k \in 0..30] == IF k = 0 THEN 0
                            ELSE IF 16 + k \in dps THEN sum[k - 1] + DpLength[16 + k]
                            ELSE sum[k - 1]
    IN  sum

ValuesAt(dps, dp) == BoolBytes(dps) + Lengths(dps)[dp - 17]

(* _dp_data_offset: where the value of dp begins behind the flags.         *)
DataOffset(flags, dp) == ValuesAt(Selected(flags), dp)

(* _build_write_payload, for data points of one byte.                      *)
WritePayload(dp, value) == <<WRITE>> \o AttrFlags({dp}) \o <<value % 256>>

(* _process_push, up to apply_attributes: the booleans are bits of one     *)
(* number, the slices of the others follow one another.                    *)
NoAttrs == << >>                         \* nothing is merged

ReadAttr(dps, data, dp) ==
    LET from == ValuesAt(dps, dp)
    IN  IF dp \in Booleans THEN BitOf(SubSeq(data, 1, BoolBytes(dps)), PlaceOf(dp, dps))
        ELSE IF dp < BLOB THEN data[from + 1]
        ELSE SubSeq(data, from + 1, from + DpLength[dp])

AnyLength(dps, data) ==                  \* faulty: what is too much is passed over
    Len(data) >= BoolBytes(dps) + Lengths(dps)[30]
WellFormed(dps, data) == Len(data) = BoolBytes(dps) + Lengths(dps)[30]

ProcessPush(payload) ==
    IF Len(payload) < 7 \/ payload[1] \notin {REPORT, READ_ACK} THEN NoAttrs
    ELSE LET dps  == Selected(SubSeq(payload, 2, 7))
             data == SubSeq(payload, 8, Len(payload))
         IN  IF WellFormed(dps, data) THEN [dp \in dps |-> ReadAttr(dps, data, dp)] ELSE NoAttrs

(* The controller's side: the report of attrs.                             *)
Packed(attrs) ==
    BytesOf({PlaceOf(dp, DOMAIN attrs) : dp \in {d \in DOMAIN attrs \intersect Booleans : attrs[d]}},
            BoolBytes(DOMAIN attrs))

ValueBytes(attrs, dp) ==
    IF dp \notin DOMAIN attrs THEN << >> ELSE IF dp < BLOB THEN <<attrs[dp]>> ELSE attrs[dp]

Values(attrs) == FlattenSeq([k \in 1..30 |-> ValueBytes(attrs, 16 + k)])

ReportOf(attrs) == <<REPORT>> \o AttrFlags(DOMAIN attrs) \o Packed(attrs) \o Values(attrs)
==============================================================================
