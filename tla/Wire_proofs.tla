----------------------------- MODULE Wire_proofs -----------------------------
(***************************************************************************)
(* What is read of the bytes that come over the wire: the stream of frames *)
(* of a Gyre, for any frames and any number of them, and what is made of   *)
(* the programmes and schedules in them, for any entries in any order, of  *)
(* the answers of an ICV6 hub, and of the reports, for any attributes.     *)
(***************************************************************************)
EXTENDS GyreStream, Decoding, FiniteSetTheorems, SequenceTheorems, TLAPS

(***************************************************************************)
(* The stream of frames.                                                   *)
(***************************************************************************)
LEMMA SplitNumber ==
    ASSUME NEW n \in Nat, n < 128 * 128
    PROVE  /\ n \div 128 \in Nat /\ n \div 128 < 128
           /\ n % 128 \in Nat /\ n % 128 < 128
           /\ (n % 128) + (n \div 128) * 128 = n
           /\ n >= 128 => n \div 128 >= 1
  OBVIOUS

LEMMA SplitCommand ==
    ASSUME NEW c \in Commands
    PROVE  /\ c \div 256 \in Nat /\ c \div 256 < 256
           /\ c % 256 \in Nat /\ c % 256 < 256
           /\ 256 * (c \div 256) + (c % 256) = c
  <1>1. c \in Nat /\ c < TwoBytes
    <2>1. TwoBytes \in Nat
      BY DEF TwoBytes
    <2> QED
      BY <2>1 DEF Commands
  <1>2. c < 65536
    BY <1>1 DEF TwoBytes
  <1> QED
    BY <1>1, <1>2

LEMMA IsByte == ASSUME NEW n \in Nat, n < 256 PROVE n \in Bytes
  BY DEF Bytes

(* The length of a frame is written in one byte or in two.                  *)
LEMMA LebIs ==
    ASSUME NEW n \in Nat, n < 128 * 128
    PROVE  /\ Leb128(n) \in Seq(Bytes)
           /\ n < 128 => Len(Leb128(n)) = 1 /\ Leb128(n)[1] = n
           /\ n >= 128 => /\ Len(Leb128(n)) = 2
                          /\ Leb128(n)[1] = 128 + (n % 128)
                          /\ Leb128(n)[2] = n \div 128
  <1>1. CASE n < 128
    <2>1. Leb128(n) = <<n>> /\ n \in Bytes
      BY <1>1, IsByte DEF Leb128
    <2> QED
      BY <1>1, <2>1
  <1>2. CASE n >= 128
    <2>1. Leb128(n) = <<128 + (n % 128), n \div 128>>
      BY <1>2 DEF Leb128
    <2>2. 128 + (n % 128) \in Bytes /\ n \div 128 \in Bytes
      BY SplitNumber, IsByte
    <2> QED
      BY <1>2, <2>1, <2>2
  <1> QED
    BY <1>1, <1>2

DataOf(f)  == <<0, f.cmd \div 256, f.cmd % 256>> \o f.payload
FrameOf(f) == BuildFrame(f.cmd, f.payload)

LEMMA DataIs ==
    ASSUME NEW f \in Frames
    PROVE  /\ DataOf(f) \in Seq(Bytes)
           /\ Len(DataOf(f)) = Len(f.payload) + 3
           /\ Len(DataOf(f)) \in Nat /\ Len(DataOf(f)) >= 3
           /\ Len(DataOf(f)) < 128 * 128
           /\ 256 * DataOf(f)[2] + DataOf(f)[3] = f.cmd
           /\ SubSeq(DataOf(f), 4, Len(DataOf(f))) = f.payload
  <1> DEFINE h == <<0, f.cmd \div 256, f.cmd % 256>>
  <1>1. f.payload \in Seq(Bytes) /\ f.cmd \in Commands
    BY FramesAssumption
  <1>2. h \in Seq(Bytes) /\ Len(h) = 3
    <2>1. 0 \in Bytes /\ f.cmd \div 256 \in Bytes /\ f.cmd % 256 \in Bytes
      <3> DEFINE c == f.cmd
                 q == c \div 256
                 r == c % 256
      <3>1. 0 \in Bytes
        BY DEF Bytes
      <3> HIDE DEF h
      <3>2. c \in Commands
        BY <1>1
      <3> HIDE DEF c
      <3>3. q \in Nat /\ q < 256 /\ r \in Nat /\ r < 256
        BY <3>2, SplitCommand
      <3> HIDE DEF q, r
      <3>4. q \in Bytes /\ r \in Bytes
        BY <3>3, IsByte
      <3> QED
        BY <3>1, <3>4 DEF c, q, r
    <2> QED
      BY <2>1
  <1>3. h[2] = f.cmd \div 256 /\ h[3] = f.cmd % 256
    OBVIOUS
  <1> HIDE DEF h
  <1>4. /\ DataOf(f) \in Seq(Bytes) /\ Len(DataOf(f)) = 3 + Len(f.payload)
        /\ Len(f.payload) \in Nat
        /\ \A i \in 1..3 : DataOf(f)[i] = h[i]
        /\ \A i \in 1..Len(f.payload) : DataOf(f)[i + 3] = f.payload[i]
    BY <1>1, <1>2, ConcatProperties, LenProperties DEF DataOf, h
  <1>5. 256 * DataOf(f)[2] + DataOf(f)[3] = f.cmd
    <2>1. DataOf(f)[2] = h[2] /\ DataOf(f)[3] = h[3]
      BY <1>4
    <2> QED
      BY <1>1, <1>3, <2>1, SplitCommand
  <1>6. SubSeq(DataOf(f), 4, Len(DataOf(f))) = f.payload
    BY <1>1, <1>4, SubSeqProperties, SeqEqual
  <1>7. Len(f.payload) + 3 < 128 * 128
    BY FramesAssumption
  <1> QED
    BY <1>4, <1>5, <1>6, <1>7


(* Concatenation, for the provers to instantiate its laws.                  *)
Joined(s, t) == s \o t

LEMMA Regroup ==
    /\ \A s, t \in Seq(Bytes) : Joined(s, t) \in Seq(Bytes)
    /\ \A s, t, u \in Seq(Bytes) : Joined(Joined(s, t), u) = Joined(s, Joined(t, u))
  <1>1. ASSUME NEW s \in Seq(Bytes), NEW t \in Seq(Bytes) PROVE s \o t \in Seq(Bytes)
    BY ConcatProperties
  <1>2. ASSUME NEW s \in Seq(Bytes), NEW t \in Seq(Bytes), NEW u \in Seq(Bytes)
        PROVE  (s \o t) \o u = s \o (t \o u)
    BY ConcatAssociative, SMTT(30)
  <1> QED
    BY <1>1, <1>2 DEF Joined

(* A frame, and bytes after it: the header, the length, the data.           *)
LEMMA FrameIs ==
    ASSUME NEW f \in Frames, NEW more \in Seq(Bytes)
    PROVE  /\ FrameOf(f) \in Seq(Bytes)
           /\ FrameOf(f) \o more =
                FRAME_HEADER \o (Leb128(Len(DataOf(f))) \o (DataOf(f) \o more))
           /\ FRAME_HEADER \in Seq(Bytes) /\ Len(FRAME_HEADER) = 4
           /\ DataOf(f) \o more \in Seq(Bytes)
           /\ Leb128(Len(DataOf(f))) \o (DataOf(f) \o more) \in Seq(Bytes)
  <1> DEFINE d == DataOf(f)
             b == Leb128(Len(DataOf(f)))
  <1>1. d \in Seq(Bytes) /\ Len(DataOf(f)) \in Nat /\ Len(DataOf(f)) < 128 * 128
    BY DataIs
  <1>2. b \in Seq(Bytes)
    BY <1>1, LebIs
  <1>3. FRAME_HEADER \in Seq(Bytes) /\ Len(FRAME_HEADER) = 4
    <2>1. 0 \in Bytes /\ 3 \in Bytes
      BY DEF Bytes
    <2> QED
      BY <2>1 DEF FRAME_HEADER
  <1>4. FrameOf(f) = (FRAME_HEADER \o b) \o d
    BY DEF FrameOf, BuildFrame, DataOf
  <1> HIDE DEF d, b
  <1>5. FRAME_HEADER \o b \in Seq(Bytes) /\ d \o more \in Seq(Bytes)
    BY <1>1, <1>2, <1>3, ConcatProperties
  <1>6. b \o (d \o more) \in Seq(Bytes) /\ FrameOf(f) \in Seq(Bytes)
    BY <1>1, <1>2, <1>4, <1>5, ConcatProperties
  <1>7. ((FRAME_HEADER \o b) \o d) \o more = FRAME_HEADER \o (b \o (d \o more))
    <2>1. /\ FRAME_HEADER \in Seq(Bytes) /\ b \in Seq(Bytes)
          /\ d \in Seq(Bytes) /\ more \in Seq(Bytes)
      BY <1>1, <1>2, <1>3
    <2>2. Joined(Joined(Joined(FRAME_HEADER, b), d), more)
            = Joined(FRAME_HEADER, Joined(b, Joined(d, more)))
      BY <2>1, Regroup
    <2> QED
      BY <2>2 DEF Joined
  <1> QED
    BY <1>3, <1>4, <1>5, <1>6, <1>7 DEF d, b

(* A read takes the bytes at the head of the stream, and leaves the others. *)
LEMMA ReadHead ==
    ASSUME NEW s \in Seq(Bytes), NEW t \in Seq(Bytes)
    PROVE  /\ SubSeq(s \o t, 1, Len(s)) = s
           /\ SubSeq(s \o t, Len(s) + 1, Len(s \o t)) = t
           /\ \A i \in 1..Len(s) : (s \o t)[i] = s[i]
  <1>1. /\ Len(s) \in Nat /\ Len(t) \in Nat
        /\ Len(s \o t) = Len(s) + Len(t) /\ s \o t \in Seq(Bytes)
    BY ConcatProperties, LenProperties
  <1>2. \A i \in 1..(Len(s) + Len(t)) :
           (s \o t)[i] = IF i <= Len(s) THEN s[i] ELSE t[i - Len(s)]
    BY ConcatProperties
  <1>3. \A i \in 1..Len(s) : (s \o t)[i] = s[i]
    BY <1>1, <1>2
  <1>4. \A i \in 1..Len(t) : (s \o t)[Len(s) + i] = t[i]
    <2> TAKE i \in 1..Len(t)
    <2>1. Len(s) + i \in 1..(Len(s) + Len(t)) /\ ~ (Len(s) + i <= Len(s))
          /\ (Len(s) + i) - Len(s) = i
      BY <1>1
    <2> QED
      BY <1>2, <2>1
  <1>5. SubSeq(s \o t, 1, Len(s)) = s
    <2>1. \A i \in 1..Len(s) : (s \o t)[i] \in Bytes
      BY <1>3, ElementOfSeq
    <2>2. /\ SubSeq(s \o t, 1, Len(s)) \in Seq(Bytes)
          /\ Len(SubSeq(s \o t, 1, Len(s))) = Len(s)
          /\ \A i \in 1..Len(s) : SubSeq(s \o t, 1, Len(s))[i] = (s \o t)[i]
      BY <1>1, <2>1, SubSeqProperties
    <2> QED
      BY <1>3, <2>2, SeqEqual
  <1>6. SubSeq(s \o t, Len(s) + 1, Len(s \o t)) = t
    <2> DEFINE u == SubSeq(s \o t, Len(s) + 1, Len(s \o t))
    <2>1. \A i \in (Len(s) + 1)..Len(s \o t) : (s \o t)[i] \in Bytes
      BY <1>1, ElementOfSeq
    <2>2. /\ u \in Seq(Bytes) /\ Len(u) = Len(t)
          /\ \A i \in 1..Len(t) : u[i] = (s \o t)[Len(s) + i]
      BY <1>1, <2>1, SubSeqProperties
    <2> QED
      BY <1>4, <2>2, SeqEqual
  <1> QED
    BY <1>3, <1>5, <1>6

(* The frames q are still to be read: rest[k] is what follows the k-th.     *)
Left(q, rest) ==
    /\ rest \in [0..Len(q) -> Seq(Bytes)]
    /\ rest[Len(q)] = << >>
    /\ \A k \in 1..Len(q) : rest[k - 1] = FrameOf(q[k]) \o rest[k]

(* Merging their reports behind the ones applied gives the ones reported.   *)
Owed(q, owed) ==
    /\ owed[0] = applied /\ owed[Len(q)] = reported
    /\ \A k \in 1..Len(q) :
          owed[k] = Merged(owed[k - 1], PushedBy(q[k].cmd, q[k].payload))

(* How far the listener is in the first of them.                            *)
InFrame(q, rest) ==
    \/ reading = AtHeader /\ stream = rest[0]
    \/ /\ q # << >>
       /\ LET data == DataOf(q[1])
              n    == Len(data)
          IN  \/ /\ reading = [at |-> "length", length |-> 0, weight |-> 1]
                 /\ stream = Leb128(n) \o (data \o rest[1])
              \/ /\ n >= 128
                 /\ reading = [at |-> "length", length |-> n % 128, weight |-> 128]
                 /\ stream = <<n \div 128>> \o (data \o rest[1])
              \/ /\ reading = [at |-> "data", length |-> n, weight |-> 1]
                 /\ stream = data \o rest[1]

InStep ==
    /\ cuts \in Nat
    /\ cuts = 0 => \E q \in Seq(Frames) : \E rest, owed :
                      Left(q, rest) /\ Owed(q, owed) /\ InFrame(q, rest)

LEMMA FirstLeft ==
    ASSUME NEW q \in Seq(Frames), q # << >>, NEW rest, Left(q, rest)
    PROVE  /\ q[1] \in Frames /\ rest[1] \in Seq(Bytes)
           /\ rest[0] = FrameOf(q[1]) \o rest[1]
           /\ Len(q) \in Nat /\ Len(q) >= 1
  <1>1. Len(q) \in Nat /\ Len(q) >= 1
    BY EmptySeq
  <1>2. 1 \in 1..Len(q) /\ 1 \in 0..Len(q) /\ 1 - 1 = 0
    BY <1>1
  <1> QED
    BY <1>1, <1>2, ElementOfSeq DEF Left

(* Before the four bytes of a header the listener is in front of a frame:   *)
(* there are no bytes in the stream after the last one.                     *)
LEMMA SomeLeft ==
    ASSUME NEW q \in Seq(Frames), NEW rest, Left(q, rest), rest[0] # << >>
    PROVE  q # << >>
  <1>1. SUFFICES ASSUME q = << >> PROVE FALSE
    OBVIOUS
  <1>2. Len(q) = 0
    BY <1>1, EmptySeq
  <1> QED
    BY <1>2 DEF Left

(* A frame that is sent goes behind the others.                             *)
LEMMA StaysAhead ==
    ASSUME NEW d \in Seq(Bytes), NEW s \in Seq(Bytes), NEW u \in Seq(Bytes)
    PROVE  /\ Joined(Joined(d, s), u) = Joined(d, Joined(s, u))
           /\ \A b \in Seq(Bytes) :
                 Joined(Joined(b, Joined(d, s)), u) = Joined(b, Joined(d, Joined(s, u)))
  BY Regroup

LEMMA LeftWithOne ==
    ASSUME NEW q \in Seq(Frames), NEW rest, Left(q, rest), NEW f \in Frames
    PROVE  Left(Append(q, f),
                [k \in 0..(Len(q) + 1) |->
                    IF k <= Len(q) THEN rest[k] \o FrameOf(f) ELSE << >>])
  <1> DEFINE p == Append(q, f)
             F == FrameOf(f)
             more == [k \in 0..(Len(q) + 1) |-> IF k <= Len(q) THEN rest[k] \o F ELSE << >>]
  <1>1. /\ Len(q) \in Nat /\ Len(p) = Len(q) + 1
        /\ \A k \in 1..Len(q) : p[k] = q[k]
        /\ p[Len(q) + 1] = f
    BY AppendProperties, LenProperties
  <1>2. << >> \in Seq(Bytes) /\ F \in Seq(Bytes)
    BY FrameIs, EmptySeq
  <1> HIDE DEF F, p
  <1>3. \A k \in 0..Len(q) : rest[k] \in Seq(Bytes) /\ rest[k] \o F \in Seq(Bytes)
    BY <1>2, ConcatProperties DEF Left
  <1>4. more \in [0..Len(p) -> Seq(Bytes)]
    BY <1>1, <1>2, <1>3
  <1>5. more[Len(p)] = << >>
    BY <1>1
  <1>6. ASSUME NEW k \in 1..Len(p) PROVE more[k - 1] = FrameOf(p[k]) \o more[k]
    <2>1. CASE k <= Len(q)
      <3>1. k \in 1..Len(q) /\ k - 1 \in 0..Len(q) /\ k \in 0..Len(q)
            /\ k \in 0..(Len(q) + 1) /\ k - 1 \in 0..(Len(q) + 1) /\ k - 1 <= Len(q)
        BY <1>1, <2>1
      <3>2. rest[k - 1] = FrameOf(q[k]) \o rest[k]
        BY <3>1 DEF Left
      <3>3. q[k] \in Frames
        BY <3>1, ElementOfSeq
      <3>4. FrameOf(q[k]) \in Seq(Bytes)
        BY <3>3, FrameIs, EmptySeq
      <3>5. (FrameOf(q[k]) \o rest[k]) \o F = FrameOf(q[k]) \o (rest[k] \o F)
        <4>1. FrameOf(q[k]) \in Seq(Bytes) /\ rest[k] \in Seq(Bytes) /\ F \in Seq(Bytes)
          BY <1>2, <1>3, <3>1, <3>4
        <4>2. Joined(Joined(FrameOf(q[k]), rest[k]), F)
                = Joined(FrameOf(q[k]), Joined(rest[k], F))
          BY <4>1, Regroup
        <4> QED
          BY <4>2 DEF Joined
      <3>6. more[k - 1] = rest[k - 1] \o F /\ more[k] = rest[k] \o F /\ p[k] = q[k]
        BY <1>1, <2>1, <3>1
      <3> HIDE DEF more
      <3> QED
        BY <3>2, <3>5, <3>6
    <2>2. CASE k = Len(q) + 1
      <3>1. Len(q) \in 0..(Len(q) + 1) /\ Len(q) + 1 \in 0..(Len(q) + 1)
            /\ k - 1 = Len(q) /\ ~ (Len(q) + 1 <= Len(q))
        BY <1>1, <2>2
      <3>2. more[k - 1] = rest[Len(q)] \o F /\ more[k] = << >>
        BY <1>1, <2>2, <3>1
      <3>3. rest[Len(q)] = << >> /\ p[k] = f
        BY <1>1, <2>2 DEF Left
      <3>4. << >> \o F = F \o << >>
        BY <1>2, ConcatEmptySeq
      <3> HIDE DEF more
      <3> QED
        BY <3>2, <3>3, <3>4 DEF F
    <2>3. k <= Len(q) \/ k = Len(q) + 1
      BY <1>1
    <2> QED
      BY <2>1, <2>2, <2>3, Zenon
  <1> HIDE DEF more
  <1>7. Left(p, more)
    BY <1>4, <1>5, <1>6 DEF Left
  <1> QED
    BY <1>7 DEF p, more, F

LEMMA OwedWithOne ==
    ASSUME NEW q \in Seq(Frames), NEW owed, Owed(q, owed), NEW f \in Frames,
           ControllerSends(f)
    PROVE  Owed(Append(q, f),
                [k \in 0..(Len(q) + 1) |->
                    IF k <= Len(q) THEN owed[k]
                    ELSE Merged(owed[Len(q)], PushedBy(f.cmd, f.payload))])'
  <1> DEFINE p == Append(q, f)
             last == Merged(owed[Len(q)], PushedBy(f.cmd, f.payload))
             more == [k \in 0..(Len(q) + 1) |-> IF k <= Len(q) THEN owed[k] ELSE last]
  <1>1. /\ Len(q) \in Nat /\ Len(p) = Len(q) + 1
        /\ \A k \in 1..Len(q) : p[k] = q[k]
        /\ p[Len(q) + 1] = f
    BY AppendProperties, LenProperties
  <1> HIDE DEF p
  <1>2. reported' = last /\ applied' = applied
    BY DEF ControllerSends, Owed
  <1>3. more[0] = applied' /\ more[Len(p)] = reported'
    BY <1>1, <1>2 DEF Owed
  <1>4. ASSUME NEW k \in 1..Len(p)
        PROVE  more[k] = Merged(more[k - 1], PushedBy(p[k].cmd, p[k].payload))
    <2>1. CASE k <= Len(q)
      <3>1. k \in 1..Len(q) /\ k \in 0..(Len(q) + 1) /\ k - 1 \in 0..(Len(q) + 1)
            /\ k - 1 <= Len(q)
        BY <1>1, <2>1
      <3>2. more[k] = owed[k] /\ more[k - 1] = owed[k - 1] /\ p[k] = q[k]
        BY <1>1, <2>1, <3>1
      <3> HIDE DEF more
      <3> QED
        BY <3>1, <3>2 DEF Owed
    <2>2. CASE k = Len(q) + 1
      <3>1. Len(q) \in 0..(Len(q) + 1) /\ Len(q) + 1 \in 0..(Len(q) + 1)
            /\ k - 1 = Len(q) /\ ~ (Len(q) + 1 <= Len(q)) /\ Len(q) <= Len(q)
        BY <1>1, <2>2
      <3>2. more[k] = last /\ more[k - 1] = owed[Len(q)] /\ p[k] = f
        BY <1>1, <2>2, <3>1
      <3> HIDE DEF more
      <3> QED
        BY <3>2
    <2> QED
      BY <1>1, <2>1, <2>2
  <1> HIDE DEF more, last
  <1>5. Owed(p, more)'
    BY <1>3, <1>4 DEF Owed
  <1> QED
    BY <1>5 DEF p, more, last

LEMMA InFrameWithOne ==
    ASSUME NEW q \in Seq(Frames), NEW rest, Left(q, rest), NEW f \in Frames,
           ControllerSends(f), InFrame(q, rest)
    PROVE  InFrame(Append(q, f),
                 [k \in 0..(Len(q) + 1) |->
                     IF k <= Len(q) THEN rest[k] \o FrameOf(f) ELSE << >>])'
  <1> DEFINE p == Append(q, f)
             F == FrameOf(f)
             more == [k \in 0..(Len(q) + 1) |-> IF k <= Len(q) THEN rest[k] \o F ELSE << >>]
  <1>1. Len(q) \in Nat /\ p # << >> /\ (q # << >> => p[1] = q[1] /\ Len(q) >= 1)
    BY AppendProperties, EmptySeq
  <1>2. stream' = stream \o F /\ reading' = reading
    BY DEF ControllerSends, FrameOf
  <1>3. F \in Seq(Bytes)
    BY FrameIs, EmptySeq
  <1>4. more[0] = rest[0] \o F /\ (q # << >> => more[1] = rest[1] \o F)
    <2> DEFINE n == Len(q)
    <2>1. n \in Nat /\ (q # << >> => n >= 1)
      BY <1>1
    <2> HIDE DEF n, F
    <2>2. 0 \in 0..(n + 1) /\ 0 <= n
      BY <2>1
    <2>3. q # << >> => 1 \in 0..(n + 1) /\ 1 <= n
      BY <2>1
    <2>4. more = [k \in 0..(n + 1) |-> IF k <= n THEN rest[k] \o F ELSE << >>]
      BY DEF n
    <2> HIDE DEF more
    <2> QED
      BY <2>2, <2>3, <2>4
  <1> HIDE DEF p, F, more
  <1>5. CASE reading = AtHeader /\ stream = rest[0]
    BY <1>2, <1>4, <1>5 DEF InFrame, p, more, F
  <1>6. CASE ~ (reading = AtHeader /\ stream = rest[0])
    <2> DEFINE data == DataOf(q[1])
               n    == Len(DataOf(q[1]))
               Len0 == reading = [at |-> "length", length |-> 0, weight |-> 1]
                       /\ stream = Leb128(n) \o (data \o rest[1])
               Len1 == n >= 128
                       /\ reading = [at |-> "length", length |-> n % 128, weight |-> 128]
                       /\ stream = <<n \div 128>> \o (data \o rest[1])
               Data == reading = [at |-> "data", length |-> n, weight |-> 1]
                       /\ stream = data \o rest[1]
    <2>1. q # << >> /\ (Len0 \/ Len1 \/ Data)
      BY <1>6 DEF InFrame
    <2>2. /\ data \in Seq(Bytes) /\ n \in Nat /\ n < 128 * 128 /\ rest[1] \in Seq(Bytes)
          /\ Leb128(n) \in Seq(Bytes) /\ <<n \div 128>> \in Seq(Bytes)
      <3>1. q[1] \in Frames /\ rest[1] \in Seq(Bytes)
        BY <2>1, FirstLeft
      <3>2. data \in Seq(Bytes) /\ n \in Nat /\ n < 128 * 128
        BY <3>1, DataIs
      <3>3. n \div 128 \in Bytes
        BY <3>2, SplitNumber, IsByte
      <3> QED
        BY <3>1, <3>2, <3>3, LebIs
    <2>3. /\ (data \o rest[1]) \o F = data \o more[1]
          /\ (Leb128(n) \o (data \o rest[1])) \o F = Leb128(n) \o (data \o more[1])
          /\ (<<n \div 128>> \o (data \o rest[1])) \o F = <<n \div 128>> \o (data \o more[1])
      <3>1. more[1] = rest[1] \o F
        BY <1>4, <2>1
      <3> HIDE DEF data, n
      <3>2. Joined(Joined(data, rest[1]), F) = Joined(data, Joined(rest[1], F))
        BY <1>3, <2>2, StaysAhead
      <3>3. Joined(Joined(Leb128(n), Joined(data, rest[1])), F)
              = Joined(Leb128(n), Joined(data, Joined(rest[1], F)))
        BY <1>3, <2>2, StaysAhead
      <3>4. Joined(Joined(<<n \div 128>>, Joined(data, rest[1])), F)
              = Joined(<<n \div 128>>, Joined(data, Joined(rest[1], F)))
        <4> DEFINE b == <<n \div 128>>
        <4>1. b \in Seq(Bytes)
          BY <2>2
        <4> HIDE DEF b
        <4>2. Joined(Joined(b, Joined(data, rest[1])), F)
                = Joined(b, Joined(data, Joined(rest[1], F)))
          BY <1>3, <2>2, <4>1, StaysAhead
        <4> QED
          BY <4>2 DEF b
      <3> QED
        BY <3>1, <3>2, <3>3, <3>4 DEF Joined
    <2>4. p[1] = q[1]
      BY <1>1, <2>1, Zenon
    <2>5. InFrame(p, more)'
      BY <1>1, <1>2, <2>1, <2>3, <2>4, ZenonT(30) DEF InFrame
    <2> QED
      BY <2>5 DEF p, more, F
  <1> QED
    BY <1>5, <1>6

LEMMA SendsInStep ==
    ASSUME InStep, NEW f \in Frames, ControllerSends(f)
    PROVE  InStep'
  <1>1. cuts' = cuts
    BY DEF ControllerSends
  <1>2. CASE cuts = 0
    <2>1. PICK q \in Seq(Frames) : \E rest, owed : Left(q, rest) /\ Owed(q, owed) /\ InFrame(q, rest)
      BY <1>2 DEF InStep
    <2>2. PICK rest, owed : Left(q, rest) /\ Owed(q, owed) /\ InFrame(q, rest)
      BY <2>1
    <2> DEFINE p    == Append(q, f)
               left == [k \in 0..(Len(q) + 1) |->
                           IF k <= Len(q) THEN rest[k] \o FrameOf(f) ELSE << >>]
               owes == [k \in 0..(Len(q) + 1) |->
                           IF k <= Len(q) THEN owed[k]
                           ELSE Merged(owed[Len(q)], PushedBy(f.cmd, f.payload))]
    <2>3. p \in Seq(Frames) /\ Left(p, left) /\ Owed(p, owes)' /\ InFrame(p, left)'
      <3>1. p \in Seq(Frames)
        BY AppendProperties
      <3>2. Left(p, left)
        BY <2>2, LeftWithOne
      <3>3. Owed(p, owes)'
        BY <2>2, OwedWithOne
      <3>4. InFrame(p, left)'
        BY <2>2, InFrameWithOne
      <3> QED
        BY <3>1, <3>2, <3>3, <3>4, Zenon
    <2> HIDE DEF p, left, owes
    <2>4. Left(p, left)'
      BY <2>3 DEF Left
    <2> QED
      BY <1>1, <2>3, <2>4 DEF InStep
  <1> QED
    BY <1>1, <1>2 DEF InStep

(* Which read the listener awaits tells where in the frame it is.           *)
InLength(q, rest) ==
    LET data == DataOf(q[1])
        n    == Len(data)
    IN  \/ /\ reading = [at |-> "length", length |-> 0, weight |-> 1]
           /\ stream = Leb128(n) \o (data \o rest[1])
        \/ /\ n >= 128
           /\ reading = [at |-> "length", length |-> n % 128, weight |-> 128]
           /\ stream = <<n \div 128>> \o (data \o rest[1])

InData(q, rest) ==
    LET data == DataOf(q[1])
    IN  /\ reading = [at |-> "data", length |-> Len(data), weight |-> 1]
        /\ stream = data \o rest[1]

LEMMA Whereabouts ==
    ASSUME NEW q, NEW rest, InFrame(q, rest)
    PROVE  /\ reading.at = "header" => reading = AtHeader /\ stream = rest[0]
           /\ reading.at = "length" => q # << >> /\ InLength(q, rest)
           /\ reading.at = "data"   => q # << >> /\ InData(q, rest)
  <1>1. \/ reading = AtHeader /\ stream = rest[0]
        \/ q # << >> /\ InLength(q, rest)
        \/ q # << >> /\ InData(q, rest)
    BY Zenon DEF InFrame, InLength, InData
  <1>2. reading = AtHeader => reading.at = "header"
    BY DEF AtHeader
  <1>3. InLength(q, rest) => reading.at = "length"
    <2>1. InLength(q, rest) =>
             \/ reading = [at |-> "length", length |-> 0, weight |-> 1]
             \/ reading = [at |-> "length", length |-> Len(DataOf(q[1])) % 128, weight |-> 128]
      BY Zenon DEF InLength
    <2> QED
      BY <2>1
  <1>4. InData(q, rest) => reading.at = "data"
    BY DEF InData
  <1> QED
    BY <1>1, <1>2, <1>3, <1>4

(* A read of s, the head of the stream, leaves the bytes t behind it.       *)
LEMMA Takes ==
    ASSUME NEW s \in Seq(Bytes), NEW t \in Seq(Bytes), stream = s \o t, Consumed(Len(s))
    PROVE  stream' = t
  BY ReadHead DEF Consumed

LEMMA TakesByte ==
    ASSUME NEW b \in Bytes, NEW t \in Seq(Bytes), stream = <<b>> \o t, Consumed(1)
    PROVE  stream[1] = b /\ stream' = t
  <1> DEFINE s == <<b>>
  <1>1. s \in Seq(Bytes) /\ Len(s) = 1 /\ s[1] = b
    OBVIOUS
  <1>2. stream = s \o t
    OBVIOUS
  <1> HIDE DEF s
  <1>3. stream' = t
    BY <1>1, <1>2, Takes
  <1>4. (s \o t)[1] = s[1]
    BY <1>1, ReadHead
  <1> QED
    BY <1>1, <1>2, <1>3, <1>4

LEMMA TwoHeads ==
    ASSUME NEW c \in Bytes, NEW d \in Bytes, NEW t \in Seq(Bytes)
    PROVE  <<c, d>> \o t = <<c>> \o (<<d>> \o t) /\ <<d>> \o t \in Seq(Bytes)
  <1> DEFINE x == <<c>>
             y == <<d>>
  <1>1. x \in Seq(Bytes) /\ y \in Seq(Bytes)
    OBVIOUS
  <1> DEFINE z == <<c, d>>
  <1>2. z = x \o y
    <2>1. z \in Seq(Bytes) /\ Len(z) = 2 /\ z[1] = c /\ z[2] = d
      OBVIOUS
    <2>2. Len(x) = 1 /\ Len(y) = 1 /\ x[1] = c /\ y[1] = d
      OBVIOUS
    <2>3. /\ x \o y \in Seq(Bytes) /\ Len(x \o y) = 2
          /\ \A i \in 1..2 : (x \o y)[i] = IF i <= 1 THEN x[i] ELSE y[i - 1]
      <3> HIDE DEF x, y
      <3> QED
        BY <1>1, <2>2, ConcatProperties, SMTT(20)
    <2> HIDE DEF x, y, z
    <2>4. (x \o y)[1] = c /\ (x \o y)[2] = d
      BY <2>2, <2>3
    <2>5. \A i \in 1..Len(z) : z[i] = (x \o y)[i]
      <3>1. \A i \in 1..Len(z) : i = 1 \/ i = 2
        BY <2>1
      <3> QED
        BY <2>1, <2>4, <3>1, Zenon
    <2> QED
      BY <2>1, <2>3, <2>5, SeqEqual
  <1> HIDE DEF x, y
  <1>3. Joined(Joined(x, y), t) = Joined(x, Joined(y, t)) /\ Joined(y, t) \in Seq(Bytes)
    BY <1>1, Regroup
  <1> QED
    BY <1>2, <1>3 DEF Joined, x, y

LEMMA LowBits ==
    ASSUME NEW m \in Nat, m < 128
    PROVE  /\ m % 128 = m /\ ~ (m >= 128)
           /\ (128 + m) % 128 = m /\ 128 + m >= 128
  OBVIOUS

LEMMA HeaderInStep ==
    ASSUME InStep, ReadsHeader
    PROVE  InStep'
  <1>1. cuts' = cuts /\ applied' = applied /\ reported' = reported
    BY DEF ReadsHeader
  <1>2. CASE cuts = 0
    <2>1. PICK q \in Seq(Frames) : \E rest, owed : Left(q, rest) /\ Owed(q, owed) /\ InFrame(q, rest)
      BY <1>2 DEF InStep
    <2>2. PICK rest, owed : Left(q, rest) /\ Owed(q, owed) /\ InFrame(q, rest)
      BY <2>1
    <2>3. reading = AtHeader /\ stream = rest[0]
      BY <2>2, Whereabouts DEF ReadsHeader
    <2>4. q # << >>
      BY <2>2, <2>3, SomeLeft, EmptySeq DEF ReadsHeader, Has
    <2> DEFINE data == DataOf(q[1])
               tail == Leb128(Len(data)) \o (data \o rest[1])
    <2>5. q[1] \in Frames /\ rest[1] \in Seq(Bytes) /\ rest[0] = FrameOf(q[1]) \o rest[1]
      BY <2>2, <2>4, FirstLeft
    <2>6. /\ stream = FRAME_HEADER \o tail
          /\ FRAME_HEADER \in Seq(Bytes) /\ Len(FRAME_HEADER) = 4
          /\ tail \in Seq(Bytes)
      BY <2>3, <2>5, FrameIs
    <2> HIDE DEF tail, data
    <2>7. stream' = tail /\ IsHeader
      <3>1. FRAME_HEADER \o tail = stream /\ Consumed(Len(FRAME_HEADER))
        BY <2>6 DEF ReadsHeader
      <3>2. stream' = tail
        BY <2>6, <3>1, Takes
      <3>3. SubSeq(FRAME_HEADER \o tail, 1, Len(FRAME_HEADER)) = FRAME_HEADER
        BY <2>6, ReadHead
      <3> QED
        BY <2>6, <3>1, <3>2, <3>3 DEF IsHeader
    <2>8. reading' = [at |-> "length", length |-> 0, weight |-> 1]
      BY <2>3, <2>7 DEF ReadsHeader, AtHeader
    <2>9. InFrame(q, rest)' /\ Left(q, rest)' /\ Owed(q, owed)'
      BY <1>1, <2>2, <2>4, <2>7, <2>8 DEF InFrame, Left, Owed, tail, data
    <2> QED
      BY <1>1, <2>9 DEF InStep
  <1> QED
    BY <1>1, <1>2 DEF InStep

LEMMA LengthInStep ==
    ASSUME InStep, ReadsLength
    PROVE  InStep'
  <1>1. cuts' = cuts /\ applied' = applied /\ reported' = reported
    BY DEF ReadsLength
  <1>2. CASE cuts = 0
    <2>1. PICK q \in Seq(Frames) : \E rest, owed : Left(q, rest) /\ Owed(q, owed) /\ InFrame(q, rest)
      BY <1>2 DEF InStep
    <2>2. PICK rest, owed : Left(q, rest) /\ Owed(q, owed) /\ InFrame(q, rest)
      BY <2>1
    <2> DEFINE n    == Len(DataOf(q[1]))
               tail == DataOf(q[1]) \o rest[1]
    <2>3. q # << >> /\ InLength(q, rest)
      BY <2>2, Whereabouts DEF ReadsLength
    <2>4. q[1] \in Frames /\ rest[1] \in Seq(Bytes)
      BY <2>2, <2>3, FirstLeft
    <2>5. n \in Nat /\ n < 128 * 128 /\ tail \in Seq(Bytes)
      BY <2>4, DataIs, FrameIs
    <2>6. SUFFICES InFrame(q, rest)'
      <3>1. Left(q, rest)' /\ Owed(q, owed)'
        BY <1>1, <2>2 DEF Left, Owed
      <3> QED
        BY <1>1, <3>1 DEF InStep
    <2> DEFINE first == reading = [at |-> "length", length |-> 0, weight |-> 1]
               byte  == stream[1]
               sum   == reading.length + (byte % 128) * reading.weight
    <2>7. \/ first /\ stream = Leb128(n) \o tail
          \/ /\ n >= 128
             /\ reading = [at |-> "length", length |-> n % 128, weight |-> 128]
             /\ stream = <<n \div 128>> \o tail
      BY <2>3 DEF InLength
    <2>8. /\ Consumed(1)
          /\ reading' = IF byte >= 128
                        THEN [at |-> "length", length |-> sum, weight |-> 128 * reading.weight]
                        ELSE [at |-> "data", length |-> sum, weight |-> 1]
      BY DEF ReadsLength
    <2> HIDE DEF n, tail, byte, sum
    <2>9. CASE first /\ stream = Leb128(n) \o tail /\ n < 128
      <3>1. byte = n /\ stream' = tail
        <4>1. Leb128(n) = <<n>> /\ n \in Bytes
          BY <2>5, <2>9, IsByte DEF Leb128
        <4>2. stream = <<n>> \o tail /\ Consumed(1)
          BY <2>8, <2>9, <4>1
        <4> QED
          BY <2>5, <4>1, <4>2, TakesByte DEF byte
      <3>2. sum = n
        <4>1. reading.length = 0 /\ reading.weight = 1
          BY <2>9
        <4>2. n % 128 = n
          BY <2>5, <2>9, LowBits
        <4> QED
          BY <2>5, <3>1, <4>1, <4>2, SMTT(30) DEF sum
      <3>3. reading' = [at |-> "data", length |-> n, weight |-> 1]
        BY <2>5, <2>8, <2>9, <3>1, <3>2
      <3> QED
        BY <2>3, <3>1, <3>3 DEF InFrame, n, tail
    <2>10. CASE first /\ stream = Leb128(n) \o tail /\ n >= 128
      <3>1. /\ n % 128 \in Nat /\ n % 128 < 128
            /\ 128 + (n % 128) \in Bytes /\ n \div 128 \in Bytes
        BY <2>5, SplitNumber, IsByte
      <3>2. byte = 128 + (n % 128) /\ stream' = <<n \div 128>> \o tail
        <4> DEFINE c    == 128 + (n % 128)
                   d    == n \div 128
                   more == <<d>> \o tail
        <4>1. c \in Bytes /\ d \in Bytes
          BY <3>1
        <4>2. Leb128(n) = <<c, d>>
          BY <2>5, <2>10 DEF Leb128
        <4> HIDE DEF c, d
        <4>3. stream = <<c>> \o more /\ more \in Seq(Bytes)
          <5>1. stream = <<c, d>> \o tail /\ tail \in Seq(Bytes)
            BY <2>5, <2>10, <4>2, Zenon
          <5>2. <<c, d>> \o tail = <<c>> \o more /\ more \in Seq(Bytes)
            BY <4>1, <5>1, TwoHeads, Zenon
          <5> QED
            BY <5>1, <5>2, Zenon
        <4> HIDE DEF more
        <4>4. stream[1] = c /\ stream' = more
          BY <2>8, <4>1, <4>3, TakesByte
        <4> QED
          BY <4>4 DEF byte, more, c, d
      <3>3. byte >= 128 /\ byte % 128 = n % 128
        BY <3>1, <3>2, LowBits
      <3>4. reading.length = 0 /\ reading.weight = 1
        BY <2>10
      <3>5. sum = n % 128
        BY <3>1, <3>3, <3>4 DEF sum
      <3>6. reading' = [at |-> "length", length |-> n % 128, weight |-> 128]
        BY <2>8, <3>3, <3>4, <3>5
      <3> QED
        BY <2>3, <2>10, <3>2, <3>6 DEF InFrame, n, tail
    <2>11. CASE /\ n >= 128
                /\ reading = [at |-> "length", length |-> n % 128, weight |-> 128]
                /\ stream = <<n \div 128>> \o tail
      <3>1. /\ n \div 128 \in Nat /\ n \div 128 < 128 /\ n \div 128 \in Bytes
            /\ n % 128 \in Nat
            /\ (n % 128) + (n \div 128) * 128 = n
        BY <2>5, SplitNumber, IsByte
      <3>2. byte = n \div 128 /\ stream' = tail
        BY <2>5, <2>8, <2>11, <3>1, TakesByte DEF byte
      <3>3. ~ (byte >= 128) /\ byte % 128 = n \div 128
        BY <3>1, <3>2, LowBits
      <3>4. reading.length = n % 128 /\ reading.weight = 128
        BY <2>11
      <3>5. sum = n
        BY <3>1, <3>3, <3>4 DEF sum
      <3>6. reading' = [at |-> "data", length |-> n, weight |-> 1]
        BY <2>8, <3>3, <3>5
      <3> QED
        BY <2>3, <3>2, <3>6 DEF InFrame, n, tail
    <2> QED
      <3>1. n < 128 \/ n >= 128
        BY <2>5
      <3> QED
        BY <2>7, <2>9, <2>10, <2>11, <3>1, Zenon
  <1> QED
    BY <1>1, <1>2 DEF InStep

LEMMA LeftWithoutFirst ==
    ASSUME NEW q \in Seq(Frames), q # << >>, NEW rest, Left(q, rest)
    PROVE  Left(Tail(q), [k \in 0..(Len(q) - 1) |-> rest[k + 1]])
  <1> DEFINE p    == Tail(q)
             less == [k \in 0..(Len(q) - 1) |-> rest[k + 1]]
  <1>1. /\ Len(q) \in Nat /\ Len(q) >= 1 /\ Len(p) = Len(q) - 1
        /\ \A k \in 1..Len(p) : p[k] = q[k + 1]
    BY HeadTailProperties, EmptySeq
  <1> HIDE DEF p
  <1>2. less \in [0..Len(p) -> Seq(Bytes)] /\ less[Len(p)] = << >>
    BY <1>1 DEF Left
  <1>3. ASSUME NEW k \in 1..Len(p) PROVE less[k - 1] = FrameOf(p[k]) \o less[k]
    <2>1. k + 1 \in 1..Len(q) /\ k - 1 \in 0..(Len(q) - 1) /\ k \in 0..(Len(q) - 1)
          /\ (k + 1) - 1 = k /\ (k - 1) + 1 = k
      BY <1>1
    <2>2. rest[k] = FrameOf(q[k + 1]) \o rest[k + 1]
      BY <2>1 DEF Left
    <2> QED
      BY <1>1, <2>1, <2>2
  <1> HIDE DEF less
  <1>4. Left(p, less)
    BY <1>2, <1>3 DEF Left
  <1> QED
    BY <1>4 DEF p, less

LEMMA OwedWithoutFirst ==
    ASSUME NEW q \in Seq(Frames), q # << >>, NEW owed, Owed(q, owed),
           reported' = reported,
           applied' = Merged(applied, PushedBy(q[1].cmd, q[1].payload))
    PROVE  Owed(Tail(q), [k \in 0..(Len(q) - 1) |-> owed[k + 1]])'
  <1> DEFINE p    == Tail(q)
             less == [k \in 0..(Len(q) - 1) |-> owed[k + 1]]
  <1>1. /\ Len(q) \in Nat /\ Len(q) >= 1 /\ Len(p) = Len(q) - 1
        /\ \A k \in 1..Len(p) : p[k] = q[k + 1]
    BY HeadTailProperties, EmptySeq
  <1> HIDE DEF p
  <1>2. less[0] = applied' /\ less[Len(p)] = reported'
    <2>1. 1 \in 1..Len(q) /\ 1 - 1 = 0
      BY <1>1
    <2>2. owed[1] = applied' /\ owed[Len(q)] = reported'
      BY <2>1 DEF Owed
    <2> QED
      BY <1>1, <2>2
  <1>3. ASSUME NEW k \in 1..Len(p)
        PROVE  less[k] = Merged(less[k - 1], PushedBy(p[k].cmd, p[k].payload))
    <2>1. k + 1 \in 1..Len(q) /\ k - 1 \in 0..(Len(q) - 1) /\ k \in 0..(Len(q) - 1)
          /\ (k + 1) - 1 = k /\ (k - 1) + 1 = k
      BY <1>1
    <2>2. owed[k + 1] = Merged(owed[k], PushedBy(q[k + 1].cmd, q[k + 1].payload))
      BY <2>1 DEF Owed
    <2> QED
      BY <1>1, <2>1, <2>2
  <1> HIDE DEF less
  <1>4. Owed(p, less)'
    BY <1>2, <1>3 DEF Owed
  <1> QED
    BY <1>4 DEF p, less

LEMMA DataInStep ==
    ASSUME InStep, ReadsData
    PROVE  InStep'
  <1>1. cuts' = cuts /\ reported' = reported
    BY DEF ReadsData
  <1>2. CASE cuts = 0
    <2>1. PICK q \in Seq(Frames) : \E rest, owed : Left(q, rest) /\ Owed(q, owed) /\ InFrame(q, rest)
      BY <1>2 DEF InStep
    <2>2. PICK rest, owed : Left(q, rest) /\ Owed(q, owed) /\ InFrame(q, rest)
      BY <2>1
    <2> DEFINE data == DataOf(q[1])
               f    == q[1]
               p    == Tail(q)
               left == [k \in 0..(Len(q) - 1) |-> rest[k + 1]]
               owes == [k \in 0..(Len(q) - 1) |-> owed[k + 1]]
    <2>3. q # << >> /\ InData(q, rest)
      BY <2>2, Whereabouts DEF ReadsData
    <2>4. f \in Frames /\ rest[1] \in Seq(Bytes) /\ Len(q) \in Nat /\ Len(q) >= 1
      BY <2>2, <2>3, FirstLeft
    <2>5. /\ data \in Seq(Bytes) /\ Len(data) \in Nat /\ Len(data) >= 3
          /\ 256 * data[2] + data[3] = f.cmd
          /\ SubSeq(data, 4, Len(data)) = f.payload
      BY <2>4, DataIs
    <2>6. reading.length = Len(data) /\ stream = data \o rest[1]
      BY <2>3 DEF InData
    <2> HIDE DEF data, f
    <2>7. stream' = rest[1] /\ SubSeq(stream, 1, reading.length) = data
      <3>1. Consumed(Len(data))
        BY <2>6 DEF ReadsData
      <3> QED
        <4>1. stream' = rest[1]
          BY <2>4, <2>5, <2>6, <3>1, Takes
        <4>2. SubSeq(data \o rest[1], 1, Len(data)) = data
          BY <2>4, <2>5, ReadHead
        <4> QED
          BY <2>6, <4>1, <4>2
    <2>8. applied' = Merged(applied, PushedBy(f.cmd, f.payload))
      <3>1. applied' = IF reading.length < 3 THEN applied
                       ELSE Merged(applied,
                                   PushedBy(256 * SubSeq(stream, 1, reading.length)[2]
                                              + SubSeq(stream, 1, reading.length)[3],
                                            SubSeq(SubSeq(stream, 1, reading.length),
                                                   4, reading.length)))
        BY DEF ReadsData
      <3>2. ~ (reading.length < 3)
        BY <2>5, <2>6
      <3> QED
        BY <2>5, <2>6, <2>7, <3>1, <3>2
    <2>9. p \in Seq(Frames)
      BY <2>3, HeadTailProperties
    <2>10. Left(p, left)
      BY <2>2, <2>3, LeftWithoutFirst
    <2>11. Owed(p, owes)'
      BY <1>1, <2>2, <2>3, <2>8, OwedWithoutFirst DEF f
    <2>12. left[0] = rest[1] /\ reading' = AtHeader
      BY <2>4 DEF ReadsData
    <2> HIDE DEF p, left, owes
    <2>13. InFrame(p, left)' /\ Left(p, left)'
      BY <2>7, <2>10, <2>12 DEF InFrame, Left
    <2> QED
      BY <1>1, <2>9, <2>11, <2>13 DEF InStep
  <1> QED
    BY <1>1, <1>2 DEF InStep

(* With nothing sent there is nothing left to read.                         *)
LEMMA NoneLeft ==
    \E q \in Seq(Frames) : \E none :
        Len(q) = 0 /\ Left(q, none) /\ none[0] = << >>
  <1> DEFINE q    == << >>
             none == [k \in {0} |-> << >>]
  <1>1. q \in Seq(Frames) /\ Len(q) = 0 /\ 0..Len(q) = {0} /\ 1..Len(q) = {}
    BY EmptySeq
  <1>2. << >> \in Seq(Bytes) /\ none[0] = << >>
    BY EmptySeq
  <1> HIDE DEF q
  <1>3. none \in [0..Len(q) -> Seq(Bytes)]
    BY <1>1, <1>2
  <1> HIDE DEF none
  <1>4. Left(q, none)
    BY <1>1, <1>2, <1>3 DEF Left
  <1> QED
    BY <1>1, <1>2, <1>4

LEMMA NothingSent ==
    /\ applied = << >> /\ reported = << >> /\ stream = << >>
    /\ reading = AtHeader /\ cuts = 0
    => InStep
  <1>1. PICK q \in Seq(Frames) : \E none : Len(q) = 0 /\ Left(q, none) /\ none[0] = << >>
    BY NoneLeft
  <1>2. PICK none : Len(q) = 0 /\ Left(q, none) /\ none[0] = << >>
    BY <1>1
  <1>3. 1..Len(q) = {}
    BY <1>2
  <1> HAVE /\ applied = << >> /\ reported = << >> /\ stream = << >>
           /\ reading = AtHeader /\ cuts = 0
  <1>4. Owed(q, none) /\ InFrame(q, none)
    BY <1>2, <1>3 DEF Owed, InFrame
  <1> QED
    BY <1>2, <1>4 DEF InStep

LEMMA NothingSentAgain ==
    ASSUME Reopens
    PROVE  InStep'
  <1>1. PICK q \in Seq(Frames) : \E none : Len(q) = 0 /\ Left(q, none) /\ none[0] = << >>
    BY NoneLeft
  <1>2. PICK none : Len(q) = 0 /\ Left(q, none) /\ none[0] = << >>
    BY <1>1
  <1>3. 1..Len(q) = {}
    BY <1>2
  <1>4. Owed(q, none)' /\ InFrame(q, none)' /\ Left(q, none)'
    BY <1>2, <1>3 DEF Owed, InFrame, Left, Reopens
  <1> QED
    BY <1>4 DEF InStep, Reopens

LEMMA StreamStep == InStep /\ [StreamNext]_streamVars => InStep'
  <1> SUFFICES ASSUME InStep, [StreamNext]_streamVars PROVE InStep'
    OBVIOUS
  <1>1. ASSUME NEW f \in Frames, ControllerSends(f) PROVE InStep'
    BY <1>1, SendsInStep
  <1>2. CASE ReadsHeader
    BY <1>2, HeaderInStep
  <1>3. CASE ReadsLength
    BY <1>3, LengthInStep
  <1>4. CASE ReadsData
    BY <1>4, DataInStep
  <1>5. CASE TimesOut
    BY <1>5 DEF TimesOut, InStep
  <1>6. CASE Reopens
    BY <1>6, NothingSentAgain
  <1>7. CASE UNCHANGED streamVars
    <2>1. /\ applied' = applied /\ reported' = reported /\ stream' = stream
          /\ reading' = reading /\ cuts' = cuts
      BY <1>7 DEF streamVars
    <2>2. CASE cuts = 0
      <3>1. PICK q \in Seq(Frames) : \E rest, owed : Left(q, rest) /\ Owed(q, owed) /\ InFrame(q, rest)
        BY <2>2 DEF InStep
      <3>2. PICK rest, owed : Left(q, rest) /\ Owed(q, owed) /\ InFrame(q, rest)
        BY <3>1, SMTT(20)
      <3>3. Left(q, rest)' /\ Owed(q, owed)' /\ InFrame(q, rest)'
        BY <2>1, <3>2 DEF Left, Owed, InFrame
      <3> QED
        BY <2>1, <3>3 DEF InStep
    <2> QED
      BY <2>1, <2>2 DEF InStep
  <1> QED
    BY <1>1, <1>2, <1>3, <1>4, <1>5, <1>6, <1>7 DEF StreamNext

(* What the controller reported is merged, report for report and in order,  *)
(* as long as no timeout cut a frame: for any frames of a controller, as    *)
(* many as it sends (_read_frame, _listen_loop).                            *)
THEOREM NothingLost == StreamSpec => []NothingLostInStep
  <1>1. StreamInit => InStep
    BY NothingSent DEF StreamInit
  <1>2. InStep => NothingLostInStep
    <2> SUFFICES ASSUME InStep, cuts = 0, stream = << >>, reading.at = "header"
                 PROVE  applied = reported
      BY DEF NothingLostInStep
    <2>1. PICK q \in Seq(Frames) : \E rest, owed : Left(q, rest) /\ Owed(q, owed) /\ InFrame(q, rest)
      BY DEF InStep
    <2>2. PICK rest, owed : Left(q, rest) /\ Owed(q, owed) /\ InFrame(q, rest)
      BY <2>1
    <2>3. CASE q = << >>
      <3>1. Len(q) = 0
        BY <2>3, EmptySeq
      <3> QED
        BY <2>2, <3>1 DEF Owed
    <2>4. CASE q # << >>
      <3>1. rest[0] = << >>
        BY <2>2, Whereabouts
      <3>2. /\ rest[0] = FrameOf(q[1]) \o rest[1]
            /\ q[1] \in Frames /\ rest[1] \in Seq(Bytes)
        BY <2>2, <2>4, FirstLeft
      <3> DEFINE tail == Leb128(Len(DataOf(q[1]))) \o (DataOf(q[1]) \o rest[1])
      <3>3. /\ FRAME_HEADER \o tail = << >>
            /\ FRAME_HEADER \in Seq(Bytes) /\ Len(FRAME_HEADER) = 4
            /\ tail \in Seq(Bytes)
        BY <3>1, <3>2, FrameIs
      <3> HIDE DEF tail
      <3>4. Len(FRAME_HEADER \o tail) = 4 + Len(tail) /\ Len(tail) \in Nat
        BY <3>3, ConcatProperties, LenProperties
      <3> QED
        BY <3>3, <3>4, EmptySeq
    <2> QED
      BY <2>3, <2>4
  <1> QED
    BY <1>1, <1>2, StreamStep, PTL DEF StreamSpec
-----------------------------------------------------------------------------
(***************************************************************************)
(* The order of a timetable, for any number of entries, and what follows   *)
(* from it: the active entry of a Gyre programme, the levels of an ICV6    *)
(* schedule.                                                               *)
(***************************************************************************)
(* What is put in order: a sequence of records with a minute.               *)
IsTimetable(s, n) ==
    n \in Nat /\ DOMAIN s = 1..n /\ \A i \in 1..n : s[i].minute \in Nat

UpTo(s, i) == {j \in DOMAIN s : NotAfter(s, j, i)}

LEMMA OrderIsTotal ==
    ASSUME NEW s, NEW n, IsTimetable(s, n)
    PROVE  /\ \A i \in 1..n : NotAfter(s, i, i)
           /\ \A i, j \in 1..n : NotAfter(s, i, j) \/ NotAfter(s, j, i)
           /\ \A i, j \in 1..n : NotAfter(s, i, j) /\ NotAfter(s, j, i) => i = j
           /\ \A i, j, k \in 1..n :
                 NotAfter(s, i, j) /\ NotAfter(s, j, k) => NotAfter(s, i, k)
  BY DEF IsTimetable, NotAfter

(* Entries have places of their own, from the first to the last.            *)
LEMMA Places ==
    ASSUME NEW s, NEW n, IsTimetable(s, n)
    PROVE  /\ \A i \in 1..n : Place(s, i) \in 1..n
           /\ \A i, j \in 1..n : i # j /\ NotAfter(s, i, j) => Place(s, i) < Place(s, j)
  <1>1. IsFiniteSet(1..n) /\ Cardinality(1..n) = n
    <2>1. n \in Nat /\ n \in Int /\ 1 \in Int
      BY DEF IsTimetable
    <2> QED
      BY <2>1, FS_Interval
  <1> USE DEF IsTimetable
  <1>2. ASSUME NEW i \in 1..n
        PROVE  /\ UpTo(s, i) \subseteq 1..n /\ IsFiniteSet(UpTo(s, i)) /\ i \in UpTo(s, i)
               /\ Place(s, i) = Cardinality(UpTo(s, i)) /\ Place(s, i) \in Nat
    <2>1. UpTo(s, i) \subseteq 1..n /\ i \in UpTo(s, i)
      BY OrderIsTotal DEF UpTo
    <2>2. IsFiniteSet(UpTo(s, i))
      BY <1>1, <2>1, FS_Subset
    <2>3. Place(s, i) = Cardinality(UpTo(s, i))
      BY DEF Place, UpTo
    <2> QED
      BY <2>1, <2>2, <2>3, FS_CardinalityType
  <1>3. ASSUME NEW i \in 1..n PROVE Place(s, i) \in 1..n
    <2>1. Place(s, i) <= n
      BY <1>1, <1>2, FS_Subset
    <2>2. Place(s, i) # 0
      BY <1>2, FS_EmptySet
    <2> QED
      BY <1>2, <2>1, <2>2
  <1>4. ASSUME NEW i \in 1..n, NEW j \in 1..n, i # j, NotAfter(s, i, j)
        PROVE  Place(s, i) < Place(s, j)
    <2>1. UpTo(s, i) \subseteq UpTo(s, j)
      <3> SUFFICES ASSUME NEW k \in UpTo(s, i) PROVE k \in UpTo(s, j)
        OBVIOUS
      <3>1. k \in 1..n /\ NotAfter(s, k, i)
        BY DEF UpTo
      <3>2. NotAfter(s, k, j)
        BY <1>4, <3>1, OrderIsTotal
      <3> QED
        BY <3>1, <3>2 DEF UpTo
    <2>2. j \in UpTo(s, j) /\ j \notin UpTo(s, i)
      BY <1>2, <1>4, OrderIsTotal DEF UpTo
    <2>3. Cardinality(UpTo(s, i)) <= Cardinality(UpTo(s, j))
          /\ Cardinality(UpTo(s, i)) # Cardinality(UpTo(s, j))
      BY <1>2, <2>1, <2>2, FS_Subset
    <2> QED
      BY <1>2, <2>3
  <1> QED
    BY <1>3, <1>4

(* Each place is taken, and the entries are in it in the order of their     *)
(* times.                                                                   *)
LEMMA InOrderOfTime ==
    ASSUME NEW s, NEW n, IsTimetable(s, n)
    PROVE  /\ \A k \in 1..n : At(s, k) \in 1..n /\ Place(s, At(s, k)) = k
           /\ \A i \in 1..n : Place(s, i) \in 1..n /\ At(s, Place(s, i)) = i
           /\ \A i, j \in 1..n : Place(s, i) <= Place(s, j) => NotAfter(s, i, j)
           /\ DOMAIN ByMinute(s) = 1..n
           /\ \A k \in 1..n : ByMinute(s)[k] = s[At(s, k)]
  <1> DEFINE place == [i \in 1..n |-> Place(s, i)]
             taken == {place[i] : i \in 1..n}
  <1>1. n \in Nat /\ DOMAIN s = 1..n
    BY DEF IsTimetable
  <1>2. IsFiniteSet(1..n) /\ Cardinality(1..n) = n
    BY <1>1, FS_Interval
  <1>3. \A i \in 1..n : Place(s, i) \in 1..n
    BY Places
  <1>4. \A i, j \in 1..n : i # j => Place(s, i) < Place(s, j) \/ Place(s, j) < Place(s, i)
    BY Places, OrderIsTotal
  <1>5. \A i, j \in 1..n : Place(s, i) = Place(s, j) => i = j
    <2> TAKE i \in 1..n, j \in 1..n
    <2>1. Place(s, i) \in Int /\ Place(s, j) \in Int
      BY <1>1, <1>3
    <2>2. i # j => Place(s, i) < Place(s, j) \/ Place(s, j) < Place(s, i)
      BY <1>4
    <2> QED
      BY <2>1, <2>2
  <1>6. \A i, j \in 1..n : Place(s, i) <= Place(s, j) => NotAfter(s, i, j)
    <2> TAKE i, j \in 1..n
    <2> HAVE Place(s, i) <= Place(s, j)
    <2>1. CASE i = j
      BY <2>1, OrderIsTotal
    <2>2. CASE i # j
      <3>1. ~ (Place(s, j) < Place(s, i))
        BY <1>1, <1>3
      <3>2. NotAfter(s, i, j) \/ NotAfter(s, j, i)
        BY OrderIsTotal
      <3> QED
        BY <2>2, <3>1, <3>2, Places
    <2> QED
      BY <2>1, <2>2
  <1>7. taken = 1..n
    <2>1. place \in Bijection(1..n, taken)
      BY <1>5 DEF Bijection, Injection, Surjection, IsInjective
    <2>2. IsFiniteSet(taken) /\ Cardinality(taken) = n
      BY <1>2, <2>1, FS_Bijection DEF ExistsBijection
    <2>3. taken \subseteq 1..n
      BY <1>3
    <2> QED
      BY <1>2, <2>2, <2>3, FS_Subset
  <1>8. \A k \in 1..n : \E i \in 1..n : Place(s, i) = k
    BY <1>7
  <1>9. \A k \in 1..n : At(s, k) \in 1..n /\ Place(s, At(s, k)) = k
    BY <1>1, <1>8 DEF At
  <1>10. \A i \in 1..n : At(s, Place(s, i)) = i
    BY <1>3, <1>5, <1>9
  <1> QED
    BY <1>1, <1>3, <1>6, <1>9, <1>10 DEF ByMinute

(* A set of numbers up to n has a greatest: the last of 1..n when they come *)
(* after the others.                                                        *)
LEMMA HasLast ==
    ASSUME NEW n \in Nat, NEW I \in SUBSET (1..n), I # {}
    PROVE  Max(I) \in I /\ \A j \in I : j <= Max(I)
  <1> DEFINE s == [k \in 1..n |-> [minute |-> IF k \in I THEN 1 ELSE 0]]
             z == At(s, n)
  <1>1. IsTimetable(s, n)
    BY DEF IsTimetable
  <1>2. n \in 1..n
    <2>1. PICK i \in I : TRUE
      OBVIOUS
    <2>2. i \in 1..n
      BY <2>1
    <2> QED
      BY <2>2
  <1>3. z \in 1..n /\ Place(s, z) = n
    BY <1>1, <1>2, InOrderOfTime
  <1>4. \A j \in 1..n : NotAfter(s, j, z)
    <2> TAKE j \in 1..n
    <2>1. Place(s, j) <= Place(s, z)
      BY <1>1, <1>3, InOrderOfTime
    <2> QED
      BY <1>1, <1>3, <2>1, InOrderOfTime
  <1> HIDE DEF z
  <1>5. z \in I /\ \A j \in I : j <= z
    <2>1. \A i \in 1..n : s[i].minute = IF i \in I THEN 1 ELSE 0
      OBVIOUS
    <2> HIDE DEF s
    <2>2. \A j \in 1..n : \/ s[j].minute < s[z].minute
                          \/ s[j].minute = s[z].minute /\ j <= z
      BY <1>4 DEF NotAfter
    <2>3. PICK i \in I : TRUE
      OBVIOUS
    <2>4. i \in 1..n /\ s[i].minute = 1
      BY <2>1, <2>3
    <2>5. z \in I
      BY <1>3, <2>1, <2>2, <2>4
    <2>6. ASSUME NEW j \in I PROVE j <= z
      <3>1. j \in 1..n /\ s[j].minute = 1 /\ s[z].minute = 1
        BY <1>3, <2>1, <2>5
      <3> QED
        BY <2>2, <3>1
    <2> QED
      BY <2>5, <2>6
  <1>6. \E x \in I : \A y \in I : x >= y
    BY <1>5
  <1>7. Max(I) \in I /\ \A y \in I : Max(I) >= y
    BY <1>6 DEF Max
  <1> QED
    BY <1>7

(* What began at or before a minute comes first, and the last of it is the  *)
(* one that began last.                                                     *)
LastBegun(s, m) == SelectLastInSeq(ByMinute(s), LAMBDA e : e.minute <= m)

LEMMA LastBegunIs ==
    ASSUME NEW s, NEW n, IsTimetable(s, n), NEW m \in Nat
    PROVE  /\ Len(ByMinute(s)) = n
           /\ LastBegun(s, m) \in 0..n
           /\ \A k \in 1..n : k <= LastBegun(s, m) => s[At(s, k)].minute <= m
           /\ \A k \in 1..n : k > LastBegun(s, m) => s[At(s, k)].minute > m
  <1> DEFINE I == {k \in 1..n : s[At(s, k)].minute <= m}
             z == LastBegun(s, m)
  <1>1. n \in Nat /\ \A i \in 1..n : s[i].minute \in Nat
    BY DEF IsTimetable
  <1>2. /\ \A k \in 1..n : At(s, k) \in 1..n /\ Place(s, At(s, k)) = k
        /\ \A i, j \in 1..n : Place(s, i) <= Place(s, j) => NotAfter(s, i, j)
        /\ DOMAIN ByMinute(s) = 1..n
        /\ \A k \in 1..n : ByMinute(s)[k] = s[At(s, k)]
    BY InOrderOfTime
  <1>3. Len(ByMinute(s)) = n
    BY <1>1, <1>2 DEF ByMinute
  <1>4. z = IF I # {} THEN Max(I) ELSE 0
    <2>1. {k \in 1..Len(ByMinute(s)) : ByMinute(s)[k].minute <= m} = I
      BY <1>2, <1>3
    <2> QED
      BY <2>1 DEF LastBegun, SelectLastInSeq
  <1> HIDE DEF z
  <1>5. \A j, k \in 1..n : j <= k => s[At(s, j)].minute <= s[At(s, k)].minute
    <2> TAKE j, k \in 1..n
    <2> HAVE j <= k
    <2>1. At(s, j) \in 1..n /\ At(s, k) \in 1..n
          /\ Place(s, At(s, j)) = j /\ Place(s, At(s, k)) = k
      BY <1>2
    <2>2. NotAfter(s, At(s, j), At(s, k))
      BY <1>2, <2>1
    <2>3. s[At(s, j)].minute \in Nat /\ s[At(s, k)].minute \in Nat
      BY <1>1, <2>1
    <2> QED
      BY <2>2, <2>3 DEF NotAfter
  <1>6. CASE I = {}
    <2>1. z = 0
      BY <1>4, <1>6
    <2>2. ASSUME NEW k \in 1..n PROVE s[At(s, k)].minute > m /\ ~ (k <= 0)
      <3>1. ~ (s[At(s, k)].minute <= m)
        BY <1>6
      <3>2. s[At(s, k)].minute \in Nat
        BY <1>1, <1>2
      <3> QED
        BY <3>1, <3>2
    <2> QED
      BY <1>1, <1>3, <2>1, <2>2 DEF z
  <1>7. CASE I # {}
    <2>1. z \in I /\ \A j \in I : j <= z
      BY <1>1, <1>4, <1>7, HasLast
    <2>2. \A k \in 1..n : k <= z => s[At(s, k)].minute <= m
      <3> TAKE k \in 1..n
      <3> HAVE k <= z
      <3>1. z \in 1..n /\ s[At(s, z)].minute <= m
        BY <2>1
      <3>2. s[At(s, k)].minute <= s[At(s, z)].minute
        BY <1>5, <3>1
      <3>3. s[At(s, k)].minute \in Nat /\ s[At(s, z)].minute \in Nat
        BY <1>1, <1>2, <3>1
      <3> QED
        BY <3>1, <3>2, <3>3
    <2>3. \A k \in 1..n : k > z => s[At(s, k)].minute > m
      <3> TAKE k \in 1..n
      <3> HAVE k > z
      <3>1. k \notin I
        BY <1>1, <2>1
      <3>2. ~ (s[At(s, k)].minute <= m) /\ s[At(s, k)].minute \in Nat
        BY <1>1, <1>2, <3>1
      <3> QED
        BY <3>2
    <2> QED
      BY <1>1, <1>3, <2>1, <2>2, <2>3 DEF z
  <1> QED
    BY <1>6, <1>7

LEMMA MinutesCount == \A x \in 0..(DAY - 1) : x \in Nat
  OBVIOUS

LEMMA SinceIs ==
    ASSUME NEW m \in 0..(DAY - 1), NEW b \in 0..(DAY - 1)
    PROVE  (m + DAY - b) % DAY = IF b <= m THEN m - b ELSE m + DAY - b
  BY DEF DAY

(* The entry found is the one that began last: active_entry, for every      *)
(* programme.                                                               *)
LEMMA ActiveIs ==
    ASSUME NEW s, NEW n, IsTimetable(s, n), n # 0,
           \A i \in 1..n : s[i].minute \in 0..(DAY - 1),
           NEW m \in 0..(DAY - 1)
    PROVE  BeganLast(ActiveEntry(s, m), s, m)
  <1> DEFINE z    == LastBegun(s, m)
             k    == IF z = 0 THEN At(s, n) ELSE At(s, z)
             Since(i) == (m + DAY - s[i].minute) % DAY
  <1>1. n \in Nat /\ DOMAIN s = 1..n /\ n \in 1..n /\ m \in Nat
    BY DEF IsTimetable, DAY
  <1>2. /\ \A j \in 1..n : At(s, j) \in 1..n /\ Place(s, At(s, j)) = j
        /\ \A i \in 1..n : Place(s, i) \in 1..n /\ At(s, Place(s, i)) = i
        /\ \A i, j \in 1..n : Place(s, i) <= Place(s, j) => NotAfter(s, i, j)
        /\ \A j \in 1..n : ByMinute(s)[j] = s[At(s, j)]
    BY InOrderOfTime
  <1>3. /\ Len(ByMinute(s)) = n /\ z \in 0..n
        /\ \A j \in 1..n : j <= z => s[At(s, j)].minute <= m
        /\ \A j \in 1..n : j > z => s[At(s, j)].minute > m
    BY <1>1, LastBegunIs
  <1> HIDE DEF z
  <1>4. ActiveEntry(s, m) = s[k] /\ k \in 1..n
    <2>1. ActiveEntry(s, m) = IF z = 0 THEN LastOfDay(s) ELSE ByMinute(s)[z]
      BY DEF ActiveEntry, Sorted, z, LastBegun
    <2>2. LastOfDay(s) = ByMinute(s)[n]
      BY <1>3 DEF LastOfDay, Sorted, Last
    <2>3. CASE z = 0
      BY <1>1, <1>2, <2>1, <2>2, <2>3
    <2>4. CASE z # 0
      <3>1. z \in 1..n
        BY <1>1, <1>3, <2>4
      <3> QED
        BY <1>2, <2>1, <2>4, <3>1
    <2> QED
      BY <2>3, <2>4
  <1>5. ASSUME NEW i \in 1..n
        PROVE  Since(k) < Since(i) \/ (Since(k) = Since(i) /\ i <= k)
    <2> DEFINE a == s[k].minute
               b == s[i].minute
    <2>1. a \in 0..(DAY - 1) /\ b \in 0..(DAY - 1)
      BY <1>4
    <2>2. /\ Since(k) = IF a <= m THEN m - a ELSE m + DAY - a
          /\ Since(i) = IF b <= m THEN m - b ELSE m + DAY - b
      BY <2>1, SinceIs
    <2>3. Place(s, i) \in 1..n /\ At(s, Place(s, i)) = i
      BY <1>2
    <2>4. CASE z = 0
      <3>1. a > m /\ b > m
        <4>1. k = At(s, n) /\ n > z /\ Place(s, i) > z
          BY <1>1, <2>3, <2>4
        <4> HIDE DEF k
        <4> QED
          BY <1>1, <1>3, <2>3, <4>1
      <3>2. NotAfter(s, i, k)
        <4>1. k = At(s, n) /\ Place(s, i) <= n
          BY <1>1, <2>3, <2>4
        <4> HIDE DEF k
        <4> QED
          BY <1>1, <1>2, <2>3, <4>1
      <3> HIDE DEF k
      <3>3. b < a \/ (b = a /\ i <= k)
        BY <3>2 DEF NotAfter
      <3> HIDE DEF a, b, Since
      <3> QED
        BY <1>1, <2>1, <2>2, <3>1, <3>3 DEF DAY
    <2>5. CASE z # 0
      <3>1. k = At(s, z) /\ z \in 1..n
        BY <1>1, <1>3, <2>5
      <3> HIDE DEF k
      <3>2. a <= m
        BY <1>3, <3>1
      <3>3. CASE Place(s, i) <= z
        <4>1. NotAfter(s, i, k)
          BY <1>2, <2>3, <3>1, <3>3
        <4>2. b < a \/ (b = a /\ i <= k)
          BY <4>1 DEF NotAfter
        <4>3. b <= m
          BY <1>3, <2>3, <3>3
        <4> HIDE DEF a, b, Since
        <4> QED
          <5>1. Since(k) = m - a /\ Since(i) = m - b
            BY <2>2, <3>2, <4>3
          <5>2. b < a => Since(k) < Since(i)
            BY <2>1, <5>1 DEF DAY
          <5>3. b = a => Since(k) = Since(i)
            BY <5>1
          <5> QED
            BY <4>2, <5>2, <5>3
      <3>4. CASE Place(s, i) > z
        <4>1. b > m
          BY <1>3, <2>3, <3>4
        <4> HIDE DEF a, b, Since
        <4> QED
          BY <2>1, <2>2, <3>2, <4>1 DEF DAY
      <3> QED
        BY <1>1, <2>3, <3>1, <3>3, <3>4
    <2> QED
      BY <2>4, <2>5
  <1> HIDE DEF k
  <1> QED
    BY <1>1, <1>4, <1>5 DEF BeganLast

(* What was decoded stays what it is, and a programme was looked up by      *)
(* active_entry.                                                            *)
Looked ==
    /\ input.of = "minute" => input \in MinuteInputs
    /\ done /\ input.of = "minute" => output = ActiveEntry(input.entries, input.minute)

(* The active entry is the one that began last, for programmes of any       *)
(* number of entries at any minutes (active_entry).                         *)
THEOREM ActiveEntryBeganLast == DecodingSpec => []ActiveBeganLast
  <1>1. DecodingInit => Looked
    BY InputsAssumption DEF DecodingInit, Looked
  <1>2. Looked /\ [DecodingNext]_decodingVars => Looked'
    <2> SUFFICES ASSUME Looked, [DecodingNext]_decodingVars PROVE Looked'
      OBVIOUS
    <2>1. CASE FindsEntry
      BY <2>1 DEF FindsEntry, Decodes, Looked
    <2>2. ASSUME NEW kind, kind # "minute", Decodes(kind) PROVE Looked'
      BY <2>2 DEF Decodes, Looked
    <2>3. CASE DecodesReport \/ DecodesWrite \/ DecodesProgram \/ FindsDevices \/ ShowsLevels
      <3>1. \/ Decodes("report") \/ Decodes("write") \/ Decodes("program")
            \/ Decodes("search") \/ Decodes("levels")
        BY <2>3 DEF DecodesReport, DecodesWrite, DecodesProgram, FindsDevices, ShowsLevels
      <3> QED
        BY <2>2, <3>1
    <2>4. CASE UNCHANGED decodingVars
      BY <2>4 DEF decodingVars, Looked
    <2> QED
      BY <2>1, <2>3, <2>4 DEF DecodingNext
  <1>3. Looked => ActiveBeganLast
    <2> SUFFICES ASSUME Looked, done, input.of = "minute"
                 PROVE  BeganLast(output, input.entries, input.minute)
      BY DEF ActiveBeganLast
    <2> DEFINE s == input.entries
               n == Len(s)
    <2>1. /\ input.minute \in 0..(DAY - 1) /\ IsSequence(s) /\ s # << >>
          /\ \A k \in DOMAIN s : s[k].minute \in 0..(DAY - 1)
      BY InputsAssumption DEF Looked
    <2>2. n \in Nat /\ DOMAIN s = 1..n /\ n # 0
      <3> DEFINE R == {s[i] : i \in DOMAIN s}
      <3>1. s \in Seq(R)
        BY <2>1 DEF IsSequence
      <3> HIDE DEF s, R
      <3> QED
        BY <2>1, <3>1, LenProperties, EmptySeq
    <2>3. output = ActiveEntry(s, input.minute)
      BY DEF Looked
    <2> HIDE DEF s, n
    <2>4. \A k \in 1..n : s[k].minute \in Nat
      <3> TAKE k \in 1..n
      <3>1. s[k].minute \in 0..(DAY - 1)
        BY <2>1, <2>2
      <3> QED
        BY <3>1, MinutesCount
    <2>5. IsTimetable(s, n)
      BY <2>2, <2>4 DEF IsTimetable
    <2>6. BeganLast(ActiveEntry(s, input.minute), s, input.minute)
      BY <2>1, <2>2, <2>5, ActiveIs
    <2> QED
      BY <2>3, <2>6 DEF s
  <1> QED
    BY <1>1, <1>2, <1>3, PTL DEF DecodingSpec
-----------------------------------------------------------------------------
LEMMA Division ==
    ASSUME NEW n \in Nat, NEW d \in Nat, d > 0
    PROVE  /\ n \div d \in Nat /\ n % d \in Nat /\ n % d < d
           /\ n = d * (n \div d) + (n % d)
  OBVIOUS

LEMMA RoundIsNearest ==
    ASSUME NEW n \in Nat, NEW d \in Nat, d > 0
    PROVE  2 * (Round(n, d) * d - n) \in (-d)..d
  <1> DEFINE q == n \div d
             r == n % d
  <1>1. q \in Nat /\ r \in Nat /\ r < d /\ n = d * q + r
    BY Division
  <1>2. \/ Round(n, d) = q /\ 2 * r <= d
        \/ Round(n, d) = q + 1 /\ 2 * r >= d
    <2>1. Round(n, d) = IF 2 * r > d \/ (2 * r = d /\ q % 2 = 1) THEN q + 1 ELSE q
      BY DEF Round
    <2> HIDE DEF q, r
    <2> QED
      BY <1>1, <2>1
  <1> HIDE DEF q, r
  <1> DEFINE p == d * q
  <1>3. p \in Nat /\ q * d = p /\ (q + 1) * d = p + d /\ n = p + r
    BY <1>1
  <1> HIDE DEF p
  <1>4. CASE Round(n, d) = q /\ 2 * r <= d
    BY <1>1, <1>3, <1>4
  <1>5. CASE Round(n, d) = q + 1 /\ 2 * r >= d
    <2>1. Round(n, d) * d - n = d - r
      BY <1>1, <1>3, <1>5
    <2> QED
      BY <1>1, <1>5, <2>1
  <1> QED
    BY <1>2, <1>4, <1>5

(* On the way from one point to the next each channel has the whole percent *)
(* that is nearest to the straight line.                                    *)
LEMMA BetweenIsNearest ==
    ASSUME NEW channels, NEW p, NEW q,
           p.levels \in [channels -> Nat], q.levels \in [channels -> Nat],
           p.minute \in Nat, q.minute \in Nat, NEW m \in Nat,
           p.minute <= m, m < q.minute
    PROVE  LET levels == Between(p, q, m)
           IN  /\ DOMAIN levels = DOMAIN p.levels
               /\ \A c \in DOMAIN levels : Nearest(levels[c], p, q, m, c)
  <1> DEFINE levels == Between(p, q, m)
             d == q.minute - p.minute
  <1>1. DOMAIN levels = channels /\ DOMAIN p.levels = channels
    BY DEF Between
  <1>2. d \in Nat /\ d > 0 /\ q.minute - m \in Nat /\ m - p.minute \in Nat
    OBVIOUS
  <1>3. ASSUME NEW c \in channels PROVE Nearest(levels[c], p, q, m, c)
    <2> DEFINE line == p.levels[c] * (q.minute - m) + q.levels[c] * (m - p.minute)
    <2>1. p.levels[c] \in Nat /\ q.levels[c] \in Nat
      OBVIOUS
    <2>2. line \in Nat
      <3> DEFINE x == q.minute - m
                 y == m - p.minute
      <3> HIDE DEF x, y
      <3>1. x \in Nat /\ y \in Nat
        BY <1>2 DEF x, y
      <3>2. p.levels[c] * x \in Nat /\ q.levels[c] * y \in Nat
        BY <2>1, <3>1
      <3> QED
        BY <3>2 DEF x, y
    <2>3. levels[c] = Round(line, d)
      BY <1>1 DEF Between
    <2> HIDE DEF line, d, levels
    <2>4. 2 * (levels[c] * d - line) \in (-d)..d
      BY <1>2, <2>2, <2>3, RoundIsNearest
    <2> QED
      BY <2>4 DEF Nearest, line, d
  <1> QED
    BY <1>1, <1>3

(* The levels of an ICV6 channel are those of the schedule, whichever       *)
(* points it has and in whichever order (compute_current_levels).           *)
THEOREM LevelsFollow ==
    ASSUME NEW points, NEW n, IsTimetable(points, n),
           NEW channels, \A i \in 1..n : points[i].levels \in [channels -> Nat],
           n = 0 => points = << >>,
           NEW mode, NEW manual, NEW m \in Nat
    PROVE  Follows(CurrentLevels(points, mode, manual, m), {points[i] : i \in DOMAIN points},
                   mode, manual, m)
  <1> DEFINE z      == LastBegun(points, m)
             all    == {points[i] : i \in DOMAIN points}
             passed == {p \in all : p.minute <= m
                          /\ \A q \in all : q.minute <= m => q.minute <= p.minute}
             coming == {p \in all : p.minute > m
                          /\ \A q \in all : q.minute > m => q.minute >= p.minute}
             levels == CurrentLevels(points, mode, manual, m)
             Nth(k) == points[At(points, k)]
  <1>1. n \in Nat /\ DOMAIN points = 1..n /\ \A i \in 1..n : points[i].minute \in Nat
    BY DEF IsTimetable
  <1>2. /\ \A k \in 1..n : At(points, k) \in 1..n /\ Place(points, At(points, k)) = k
        /\ \A i \in 1..n : Place(points, i) \in 1..n /\ At(points, Place(points, i)) = i
        /\ \A i, j \in 1..n : Place(points, i) <= Place(points, j) => NotAfter(points, i, j)
        /\ \A k \in 1..n : ByMinute(points)[k] = Nth(k)
    BY InOrderOfTime
  <1>3. /\ Len(ByMinute(points)) = n /\ z \in 0..n
        /\ \A k \in 1..n : k <= z => Nth(k).minute <= m
        /\ \A k \in 1..n : k > z => Nth(k).minute > m
    BY LastBegunIs
  <1> HIDE DEF z
  <1>4. /\ \A k \in 1..n : Nth(k) \in all /\ Nth(k).minute \in Nat
        /\ \A p \in all : \E k \in 1..n : p = Nth(k)
    <2>1. ASSUME NEW k \in 1..n PROVE Nth(k) \in all /\ Nth(k).minute \in Nat
      BY <1>1, <1>2
    <2>2. ASSUME NEW p \in all PROVE \E k \in 1..n : p = Nth(k)
      <3>1. PICK i \in 1..n : p = points[i]
        BY <1>1
      <3>2. p = Nth(Place(points, i)) /\ Place(points, i) \in 1..n
        BY <1>2, <3>1
      <3> QED
        BY <3>2
    <2> QED
      BY <2>1, <2>2
  <1>5. \A j, k \in 1..n : j <= k => Nth(j).minute <= Nth(k).minute
    <2> TAKE j, k \in 1..n
    <2> HAVE j <= k
    <2>1. NotAfter(points, At(points, j), At(points, k))
      BY <1>2
    <2>2. Nth(j).minute \in Nat /\ Nth(k).minute \in Nat
      BY <1>4
    <2> QED
      BY <2>1, <2>2 DEF NotAfter
  <1>6. levels = IF mode = 0 \/ points = << >> THEN manual
                 ELSE IF z = 0 THEN ByMinute(points)[1].levels
                 ELSE IF z = n THEN ByMinute(points)[z].levels
                 ELSE Between(ByMinute(points)[z], ByMinute(points)[z + 1], m)
    BY <1>3 DEF CurrentLevels, InOrder, z, LastBegun
  <1>7. points = << >> <=> n = 0
    BY <1>1
  <1>8. n = 0 <=> all = {}
    <2>1. CASE n = 0
      <3>1. 1..n = {}
        BY <2>1
      <3> QED
        BY <1>1, <2>1, <3>1
    <2>2. CASE n # 0
      <3>1. 1 \in 1..n
        BY <1>1, <2>2
      <3> QED
        BY <1>4, <2>2, <3>1
    <2> QED
      BY <2>1, <2>2
  <1> HIDE DEF Nth, all, levels
  <1>9. z # 0 => Nth(z) \in passed
    <2> HAVE z # 0
    <2>1. z \in 1..n
      BY <1>1, <1>3
    <2>2. ASSUME NEW q \in all, q.minute <= m PROVE q.minute <= Nth(z).minute
      <3>1. PICK k \in 1..n : q = Nth(k)
        BY <1>4
      <3>2. Nth(k).minute \in Nat
        BY <1>4
      <3>3. k <= z
        BY <1>1, <1>3, <2>1, <2>2, <3>1, <3>2
      <3> QED
        BY <1>5, <2>1, <3>1, <3>3
    <2> QED
      BY <1>3, <1>4, <2>1, <2>2
  <1>10. z # n => Nth(z + 1) \in coming
    <2> HAVE z # n
    <2>1. z + 1 \in 1..n /\ z + 1 > z
      BY <1>1, <1>3
    <2>2. ASSUME NEW q \in all, q.minute > m PROVE q.minute >= Nth(z + 1).minute
      <3>1. PICK k \in 1..n : q = Nth(k)
        BY <1>4
      <3>2. Nth(k).minute \in Nat /\ Nth(z + 1).minute \in Nat
        BY <1>4, <2>1
      <3>3. ~ (k <= z)
        BY <1>1, <1>3, <2>1, <2>2, <3>1, <3>2
      <3>4. z + 1 <= k
        BY <1>1, <1>3, <3>3
      <3>5. Nth(z + 1).minute <= Nth(k).minute
        BY <1>5, <2>1, <3>4
      <3> QED
        BY <3>1, <3>2, <3>5
    <2> QED
      BY <1>3, <1>4, <2>1, <2>2
  <1>11. z = 0 => passed = {}
    <2> HAVE z = 0
    <2>1. ASSUME NEW p \in all, p.minute <= m PROVE FALSE
      <3>1. PICK k \in 1..n : p = Nth(k)
        BY <1>4
      <3>2. Nth(k).minute \in Nat /\ k > z
        BY <1>1, <1>4
      <3> QED
        BY <1>3, <2>1, <3>1, <3>2
    <2> QED
      BY <2>1
  <1>12. z = n => coming = {}
    <2> HAVE z = n
    <2>1. ASSUME NEW p \in all, p.minute > m PROVE FALSE
      <3>1. PICK k \in 1..n : p = Nth(k)
        BY <1>4
      <3>2. Nth(k).minute \in Nat /\ k <= z
        BY <1>1, <1>4
      <3> QED
        BY <1>3, <2>1, <3>1, <3>2
    <2> QED
      BY <2>1
  <1> HIDE DEF passed, coming
  <1>13. CASE mode = 0 \/ n = 0
    BY <1>6, <1>7, <1>8, <1>13 DEF Follows, all, levels
  <1>14. CASE ~ (mode = 0 \/ n = 0)
    <2>1. CASE z = 0 \/ z = n
      <3>1. \E p \in passed \union coming : levels = p.levels
        <4>1. CASE z = 0
          <5>1. 1 \in 1..n /\ Nth(1) \in coming
            BY <1>1, <1>10, <1>14, <4>1
          <5>2. levels = Nth(1).levels
            BY <1>2, <1>6, <1>7, <1>14, <4>1, <5>1
          <5> QED
            BY <5>1, <5>2
        <4>2. CASE z = n /\ z # 0
          <5>1. n \in 1..n /\ Nth(n) \in passed
            BY <1>1, <1>9, <1>14, <4>2
          <5>2. levels = Nth(n).levels
            BY <1>2, <1>6, <1>7, <1>14, <4>2, <5>1
          <5> QED
            BY <5>1, <5>2
        <4> QED
          BY <2>1, <4>1, <4>2
      <3>2. passed = {} \/ coming = {}
        BY <1>11, <1>12, <2>1
      <3> QED
        BY <1>8, <1>14, <3>1, <3>2 DEF Follows, all, passed, coming, levels
    <2>2. CASE z # 0 /\ z # n
      <3> DEFINE p == Nth(z)
                 q == Nth(z + 1)
      <3>1. z \in 1..n /\ z + 1 \in 1..n /\ z <= z /\ z + 1 > z
        BY <1>1, <1>3, <2>2
      <3>2. p \in passed /\ q \in coming
        BY <1>9, <1>10, <2>2
      <3>3. /\ p.minute \in Nat /\ q.minute \in Nat
            /\ p.minute <= m /\ m < q.minute
        BY <1>3, <1>4, <3>1
      <3>4. p.levels \in [channels -> Nat] /\ q.levels \in [channels -> Nat]
        BY <1>2, <3>1 DEF Nth
      <3>5. levels = Between(p, q, m)
        BY <1>2, <1>6, <1>7, <1>14, <2>2, <3>1
      <3> HIDE DEF p, q
      <3>6. /\ DOMAIN levels = DOMAIN p.levels
            /\ \A c \in DOMAIN levels : Nearest(levels[c], p, q, m, c)
        <4> DEFINE b == Between(p, q, m)
        <4>1. /\ DOMAIN b = DOMAIN p.levels
              /\ \A c \in DOMAIN b : Nearest(b[c], p, q, m, c)
          BY <3>3, <3>4, BetweenIsNearest
        <4> HIDE DEF b
        <4>2. levels = b
          BY <3>5 DEF b
        <4> QED
          BY <4>1, <4>2
      <3>7. ~ (passed = {} \/ coming = {})
        BY <3>2
      <3> QED
        BY <1>8, <1>14, <3>2, <3>6, <3>7 DEF Follows, all, passed, coming, levels
    <2> QED
      BY <2>1, <2>2
  <1> QED
    BY <1>13, <1>14
-----------------------------------------------------------------------------
(* Induction over the numbers up to n, for a set of them.                   *)
LEMMA Reaches ==
    ASSUME NEW n \in Nat, NEW S, 0 \in S,
           \A k \in 1..n : k - 1 \in S => k \in S
    PROVE  \A k \in 0..n : k \in S
  <1> SUFFICES ASSUME NEW k \in 0..n, k \notin S PROVE FALSE
    OBVIOUS
  <1> DEFINE I == {j \in 1..(n + 1) : j <= k + 1 /\ j - 1 \in S}
             z == Max(I)
  <1>1. I \in SUBSET (1..(n + 1)) /\ 1 \in I
    <2>1. 1 \in 1..(n + 1) /\ 1 <= k + 1 /\ 1 - 1 = 0
      OBVIOUS
    <2> QED
      BY <2>1
  <1>2. z \in I /\ \A j \in I : j <= z
    <2> HIDE DEF I
    <2>1. n + 1 \in Nat
      OBVIOUS
    <2> QED
      BY <1>1, <2>1, HasLast
  <1> HIDE DEF z
  <1>3. z \in 1..(n + 1) /\ z <= k + 1 /\ z - 1 \in S
    BY <1>2
  <1>4. CASE z = k + 1
    BY <1>3, <1>4
  <1>5. CASE z <= k
    <2>1. z \in 1..n /\ z \in S
      BY <1>3, <1>5
    <2>2. z + 1 \in 1..(n + 1) /\ z + 1 <= k + 1 /\ (z + 1) - 1 = z
      BY <1>3, <1>5
    <2>3. z + 1 \in I
      BY <2>1, <2>2
    <2> HIDE DEF I
    <2> QED
      BY <1>2, <1>3, <2>3
  <1> QED
    BY <1>3, <1>4, <1>5

(* Each turn of the loop goes on from the one before.                       *)
LEMMA TurnsAre ==
    ASSUME NEW data, NEW scheduled, NEW n \in Nat
    PROVE  LET read == Turns(data, scheduled, n)
           IN  /\ read[0] = Begun(scheduled)
               /\ \A k \in 1..n : read[k] = Turn(data, scheduled, read[k - 1])
  <1> DEFINE Is(f, m) == f = [i \in 0..m |-> IF i = 0 THEN Begun(scheduled)
                                            ELSE Turn(data, scheduled, f[i - 1])]
             S == {m \in 0..n : \E f : Is(f, m)}
  <1>1. 0 \in S
    <2> DEFINE f == [i \in 0..0 |-> Begun(scheduled)]
    <2>1. Is(f, 0)
      OBVIOUS
    <2> HIDE DEF f, Is
    <2>2. \E g : Is(g, 0)
      BY <2>1
    <2> QED
      BY <2>2
  <1>2. ASSUME NEW k \in 1..n, k - 1 \in S PROVE k \in S
    <2>1. PICK f : Is(f, k - 1)
      BY <1>2
    <2> DEFINE g == [i \in 0..k |-> IF i < k THEN f[i] ELSE Turn(data, scheduled, f[k - 1])]
    <2>2. \A i \in 0..(k - 1) : f[i] = IF i = 0 THEN Begun(scheduled)
                                       ELSE Turn(data, scheduled, f[i - 1])
      BY <2>1
    <2>3. ASSUME NEW i \in 0..k
          PROVE  g[i] = IF i = 0 THEN Begun(scheduled) ELSE Turn(data, scheduled, g[i - 1])
      <3>1. CASE i = k
        <4>1. i # 0 /\ i - 1 \in 0..k /\ i - 1 < k /\ ~ (i < k)
          BY <3>1
        <4> QED
          BY <3>1, <4>1
      <3>2. CASE i < k
        <4>1. i \in 0..(k - 1) /\ (i # 0 => i - 1 \in 0..k /\ i - 1 < k)
          BY <3>2
        <4>2. g[i] = f[i] /\ (i # 0 => g[i - 1] = f[i - 1])
          BY <3>2, <4>1
        <4> QED
          BY <2>2, <4>1, <4>2
      <3> QED
        BY <3>1, <3>2
    <2>4. g = [i \in 0..k |-> g[i]]
      OBVIOUS
    <2> HIDE DEF g
    <2>5. Is(g, k)
      BY <2>3, <2>4
    <2> QED
      BY <2>5
  <1>3. n \in S
    <2> HIDE DEF S
    <2> QED
      BY <1>1, <1>2, Reaches
  <1>4. \E f : Is(f, n)
    BY <1>3
  <1> DEFINE read == Turns(data, scheduled, n)
  <1>5. Is(read, n)
    BY <1>4 DEF Turns
  <1> HIDE DEF read
  <1>6. \A i \in 0..n : read[i] = IF i = 0 THEN Begun(scheduled)
                                  ELSE Turn(data, scheduled, read[i - 1])
    BY <1>5
  <1>7. 0 \in 0..n /\ \A k \in 1..n : k \in 0..n /\ k # 0
    OBVIOUS
  <1> QED
    BY <1>6, <1>7 DEF read

(* f joins the sequences of ss one after another.                           *)
Joins(f, ss, n) ==
    /\ f \in [0..n -> Seq(Bytes)] /\ f[0] = << >>
    /\ \A k \in 1..n : ss[k] \in Seq(Bytes) /\ f[k] = f[k - 1] \o ss[k]

(* What FlattenSeq makes of sequences is all of them joined.                *)
LEMMA FlatIs ==
    ASSUME NEW ss \in Seq(Seq(Bytes)), NEW n \in Nat, Len(ss) = n, NEW f, Joins(f, ss, n)
    PROVE  FlattenSeq(ss) = f[n]
  <1>1. CASE n = 0
    <2>1. ss = << >>
      BY <1>1, EmptySeq
    <2> QED
      BY <1>1, <2>1 DEF FlattenSeq, Joins
  <1>2. CASE n # 0
    <2> DEFINE Is(g) == g = [i \in 1..n |-> IF i = 1 THEN ss[i] ELSE g[i - 1] \o ss[i]]
               flat  == CHOOSE g : Is(g)
               mine  == [i \in 1..n |-> f[i]]
    <2>1. \A i \in 1..n : mine[i] = IF i = 1 THEN ss[i] ELSE mine[i - 1] \o ss[i]
      <3> TAKE i \in 1..n
      <3>1. f[i] = f[i - 1] \o ss[i] /\ ss[i] \in Seq(Bytes)
        BY ElementOfSeq DEF Joins
      <3>2. CASE i = 1
        <4>1. f[i - 1] = << >>
          BY <3>2 DEF Joins
        <4>2. << >> \o ss[i] = ss[i]
          BY <3>1, ConcatEmptySeq
        <4> QED
          BY <3>1, <3>2, <4>1, <4>2
      <3>3. CASE i # 1
        <4>1. i - 1 \in 1..n
          BY <3>3
        <4> QED
          BY <3>1, <3>3, <4>1
      <3> QED
        BY <3>2, <3>3
    <2>2. mine = [i \in 1..n |-> mine[i]]
      OBVIOUS
    <2> HIDE DEF mine
    <2>3. Is(mine)
      BY <2>1, <2>2
    <2>4. Is(flat)
      BY <2>3
    <2>5. FlattenSeq(ss) = flat[n]
      BY <1>2 DEF FlattenSeq
    <2> HIDE DEF flat
    <2>6. \A i \in 1..n : flat[i] = IF i = 1 THEN ss[i] ELSE flat[i - 1] \o ss[i]
      BY <2>4
    <2> DEFINE S == {k \in 0..n : k # 0 => flat[k] = mine[k]}
    <2>7. ASSUME NEW k \in 1..n, k - 1 \in S PROVE k \in S
      <3>1. CASE k = 1
        BY <2>1, <2>6, <3>1
      <3>2. CASE k # 1
        <4>1. k - 1 # 0 /\ k \in 0..n
          BY <3>2
        <4>2. flat[k - 1] = mine[k - 1]
          BY <2>7, <4>1
        <4> QED
          BY <2>1, <2>6, <3>2, <4>1, <4>2
      <3> QED
        BY <3>1, <3>2
    <2>8. 0 \in S
      OBVIOUS
    <2>9. n \in S
      <3> HIDE DEF S
      <3>1. \A k \in 1..n : k - 1 \in S => k \in S
        BY <2>7
      <3>2. \A k \in 0..n : k \in S
        BY <2>8, <3>1, Reaches
      <3> QED
        BY <3>2
    <2>10. n \in 1..n
      BY <1>2
    <2> QED
      BY <1>2, <2>5, <2>9, <2>10 DEF mine
  <1> QED
    BY <1>1, <1>2

(* The sequences joined, and where each of them is in the whole.            *)
LEMMA JoinsExist ==
    ASSUME NEW n \in Nat, NEW ss, \A k \in 1..n : ss[k] \in Seq(Bytes)
    PROVE  \E f : Joins(f, ss, n)
  <1> DEFINE S == {m \in 0..n : \E f : Joins(f, ss, m)}
  <1>1. 0 \in S
    <2> DEFINE f == [i \in 0..0 |-> << >>]
    <2>1. << >> \in Seq(Bytes)
      BY EmptySeq
    <2>2. Joins(f, ss, 0)
      BY <2>1 DEF Joins
    <2> HIDE DEF f
    <2>3. \E g : Joins(g, ss, 0)
      BY <2>2
    <2> QED
      BY <2>3
  <1>2. ASSUME NEW k \in 1..n, k - 1 \in S PROVE k \in S
    <2>1. PICK f : Joins(f, ss, k - 1)
      BY <1>2
    <2> DEFINE g == [i \in 0..k |-> IF i < k THEN f[i] ELSE f[i - 1] \o ss[i]]
    <2>2. /\ f \in [0..(k - 1) -> Seq(Bytes)] /\ f[0] = << >>
          /\ \A i \in 1..(k - 1) : f[i] = f[i - 1] \o ss[i]
      BY <2>1 DEF Joins
    <2>3. f[k - 1] \o ss[k] \in Seq(Bytes)
      BY <2>2, ConcatProperties
    <2>4. g \in [0..k -> Seq(Bytes)]
      <3>1. ASSUME NEW i \in 0..k PROVE g[i] \in Seq(Bytes)
        <4>1. CASE i < k
          BY <2>2, <4>1
        <4>2. CASE i = k
          BY <2>3, <4>2
        <4> QED
          BY <4>1, <4>2
      <3> QED
        BY <3>1
    <2>5. g[0] = << >>
      BY <2>2
    <2>6. ASSUME NEW i \in 1..k PROVE g[i] = g[i - 1] \o ss[i]
      <3>1. i \in 0..k /\ i - 1 \in 0..k /\ i - 1 < k
        OBVIOUS
      <3>2. g[i - 1] = f[i - 1]
        BY <3>1
      <3>3. g[i] = IF i < k THEN f[i] ELSE f[i - 1] \o ss[i]
        BY <3>1
      <3> HIDE DEF g
      <3>4. CASE i < k
        <4>1. i \in 1..(k - 1)
          BY <3>4
        <4> QED
          BY <2>2, <3>2, <3>3, <3>4, <4>1
      <3>5. CASE i = k
        <4>1. ~ (i < k)
          BY <3>5
        <4> QED
          BY <3>2, <3>3, <4>1, Zenon
      <3>6. i < k \/ i = k
        OBVIOUS
      <3> QED
        BY <3>4, <3>5, <3>6, Zenon
    <2> HIDE DEF g
    <2>7. Joins(g, ss, k)
      <3>1. \A i \in 1..k : ss[i] \in Seq(Bytes)
        OBVIOUS
      <3> QED
        BY <2>4, <2>5, <2>6, <3>1 DEF Joins
    <2> QED
      BY <2>7
  <1>3. n \in S
    <2> HIDE DEF S
    <2>1. \A k \in 0..n : k \in S
      BY <1>1, <1>2, Reaches
    <2> QED
      BY <2>1
  <1> QED
    BY <1>3

(* What a concatenation holds, and where.                                   *)
LEMMA Concatenated ==
    ASSUME NEW S, NEW s \in Seq(S), NEW t \in Seq(S)
    PROVE  /\ s \o t \in Seq(S)
           /\ Len(s) \in Nat /\ Len(t) \in Nat /\ Len(s \o t) = Len(s) + Len(t)
           /\ \A j \in 1..Len(s) : (s \o t)[j] = s[j]
           /\ \A j \in 1..Len(t) : (s \o t)[Len(s) + j] = t[j]
  <1>1. /\ Len(s) \in Nat /\ Len(t) \in Nat
        /\ s \o t \in Seq(S) /\ Len(s \o t) = Len(s) + Len(t)
    BY ConcatProperties, LenProperties
  <1>2. \A j \in 1..(Len(s) + Len(t)) :
           (s \o t)[j] = IF j <= Len(s) THEN s[j] ELSE t[j - Len(s)]
    BY ConcatProperties
  <1>3. \A j \in 1..Len(s) : (s \o t)[j] = s[j]
    BY <1>1, <1>2
  <1>4. ASSUME NEW j \in 1..Len(t) PROVE (s \o t)[Len(s) + j] = t[j]
    <2>1. Len(s) + j \in 1..(Len(s) + Len(t)) /\ ~ (Len(s) + j <= Len(s))
          /\ (Len(s) + j) - Len(s) = j
      BY <1>1
    <2> QED
      BY <1>2, <2>1
  <1> QED
    BY <1>1, <1>3, <1>4

\* Sequence k of those joined stands in the whole where those before it end.
PartAt(f, ss, n, k) ==
    /\ Len(f[k]) = Len(f[k - 1]) + Len(ss[k])
    /\ Len(f[k]) <= Len(f[n])
    /\ \A j \in 1..Len(ss[k]) : f[n][Len(f[k - 1]) + j] = ss[k][j]

(* Every sequence keeps its place, whatever is joined behind it.            *)
LEMMA PartsOfJoined ==
    ASSUME NEW n \in Nat, NEW ss, NEW f, Joins(f, ss, n), NEW k \in 1..n
    PROVE  PartAt(f, ss, n, k)
  <1>1. \A m \in 1..n : f[m - 1] \in Seq(Bytes) /\ f[m] \in Seq(Bytes)
                        /\ ss[m] \in Seq(Bytes) /\ f[m] = f[m - 1] \o ss[m]
    <2> TAKE m \in 1..n
    <2>1. m \in 0..n /\ m - 1 \in 0..n
      OBVIOUS
    <2> QED
      BY <2>1 DEF Joins
  <1>2. ASSUME NEW m \in 1..n
        PROVE  /\ Len(f[m - 1]) \in Nat /\ Len(ss[m]) \in Nat
               /\ Len(f[m]) = Len(f[m - 1]) + Len(ss[m])
               /\ \A j \in 1..Len(f[m - 1]) : f[m][j] = f[m - 1][j]
               /\ \A j \in 1..Len(ss[m]) : f[m][Len(f[m - 1]) + j] = ss[m][j]
    <2> DEFINE s == f[m - 1]
               t == ss[m]
    <2>1. s \in Seq(Bytes) /\ t \in Seq(Bytes) /\ f[m] = s \o t
      BY <1>1
    <2> HIDE DEF s, t
    <2>2. /\ Len(s) \in Nat /\ Len(t) \in Nat /\ Len(s \o t) = Len(s) + Len(t)
          /\ \A j \in 1..Len(s) : (s \o t)[j] = s[j]
          /\ \A j \in 1..Len(t) : (s \o t)[Len(s) + j] = t[j]
      BY <2>1, Concatenated
    <2> QED
      BY <2>1, <2>2 DEF s, t
  <1> DEFINE S == {m \in 0..n : m >= k => /\ Len(f[k]) <= Len(f[m])
                                         /\ \A j \in 1..Len(f[k]) : f[m][j] = f[k][j]}
  <1>3. 0 \in S
    OBVIOUS
  <1>4. Len(f[k]) \in Nat
    BY <1>1, LenProperties
  <1>5. ASSUME NEW m \in 1..n, m - 1 \in S PROVE m \in S
    <2>1. CASE m < k
      BY <2>1
    <2>2. CASE m = k
      BY <1>4, <2>2
    <2>3. CASE m > k
      <3>1. /\ Len(f[k]) <= Len(f[m - 1])
            /\ \A j \in 1..Len(f[k]) : f[m - 1][j] = f[k][j]
        BY <1>5, <2>3
      <3>2. Len(f[k]) <= Len(f[m])
        <4>1. /\ Len(f[m - 1]) \in Nat /\ Len(ss[m]) \in Nat
              /\ Len(f[m]) = Len(f[m - 1]) + Len(ss[m])
          BY <1>2
        <4> DEFINE a == Len(f[k])
                   b == Len(f[m - 1])
                   c == Len(ss[m])
                   d == Len(f[m])
        <4>2. a \in Nat /\ b \in Nat /\ c \in Nat /\ d = b + c /\ a <= b
          BY <1>4, <3>1, <4>1
        <4> HIDE DEF a, b, c, d
        <4>3. a <= d
          BY <4>2
        <4> QED
          BY <4>3 DEF a, d
      <3>3. \A j \in 1..Len(f[k]) : f[m][j] = f[k][j]
        <4> TAKE j \in 1..Len(f[k])
        <4>1. j \in 1..Len(f[m - 1])
          BY <1>2, <1>4, <3>1
        <4> QED
          BY <1>2, <3>1, <4>1
      <3> QED
        BY <3>2, <3>3
    <2> QED
      BY <2>1, <2>2, <2>3
  <1>6. n \in S
    <2> HIDE DEF S
    <2>1. \A m \in 1..n : m - 1 \in S => m \in S
      BY <1>5
    <2>2. \A m \in 0..n : m \in S
      BY <1>3, <2>1, Reaches
    <2> QED
      BY <2>2
  <1>7. /\ Len(f[k]) <= Len(f[n])
        /\ \A j \in 1..Len(f[k]) : f[n][j] = f[k][j]
    BY <1>6
  <1>8. ASSUME NEW j \in 1..Len(ss[k]) PROVE f[n][Len(f[k - 1]) + j] = ss[k][j]
    <2>1. Len(f[k - 1]) + j \in 1..Len(f[k])
      <3>1. /\ Len(f[k - 1]) \in Nat /\ Len(ss[k]) \in Nat
            /\ Len(f[k]) = Len(f[k - 1]) + Len(ss[k])
        BY <1>2
      <3> DEFINE b == Len(f[k - 1])
                 c == Len(ss[k])
                 d == Len(f[k])
      <3>2. b \in Nat /\ c \in Nat /\ d = b + c /\ j \in 1..c
        BY <3>1
      <3> HIDE DEF b, c, d
      <3>3. b + j \in 1..d
        BY <3>2
      <3> QED
        BY <3>3 DEF b, d
    <2> QED
      BY <1>2, <1>7, <2>1
  <1> QED
    BY <1>2, <1>7, <1>8 DEF PartAt

(* A block has a length, whatever its pattern is.                           *)
LEMMA BlockLengths ==
    ASSUME NEW pattern, NEW a
    PROVE  /\ BlockLength(pattern, a) \in Nat /\ BlockLength(pattern, a) >= 3
           /\ pattern \in 0..4 => \A b : BlockLength(pattern, b) = BlockLength(pattern, a)
  <1>1. BlockLength(pattern, a) \in Nat /\ BlockLength(pattern, a) >= 3
    BY DEF BlockLength
  <1>2. ASSUME pattern \in 0..4, NEW b
        PROVE  BlockLength(pattern, b) = BlockLength(pattern, a)
    <2>1. pattern \in {1, 2} \/ pattern = ALTERNATING \/ pattern \in {0, 4}
      BY <1>2 DEF ALTERNATING
    <2> QED
      BY <2>1 DEF BlockLength, ALTERNATING
  <1> QED
    BY <1>1, <1>2

(* A byte is a number.                                                      *)
LEMMA ByteIs == ASSUME NEW x \in Bytes PROVE x \in Nat /\ x < 256
  BY DEF Bytes

LEMMA ThreeBytes ==
    ASSUME NEW x \in Bytes, NEW y \in Bytes, NEW z \in Bytes
    PROVE  <<x, y, z>> \in Seq(Bytes)
  OBVIOUS

(* A time of day has an hour and a minute.                                  *)
LEMMA TimeOfDay ==
    ASSUME NEW u \in 0..(24 * 60 - 1)
    PROVE  /\ u \in Nat /\ u \div 60 \in Nat /\ u % 60 \in Nat
           /\ u = 60 * (u \div 60) + (u % 60) /\ u \div 60 <= 23 /\ u % 60 <= 59
  OBVIOUS

(* Hours and minutes come back out of a time.                               *)
LEMMA HoursAndMinutes ==
    ASSUME NEW h \in Nat, NEW m \in Nat, m <= 59
    PROVE  (60 * h + m) \div 60 = h /\ (60 * h + m) % 60 = m
  OBVIOUS

(* A valid block lies within the data, and its bytes are kept.              *)
LEMMA BlockRead ==
    ASSUME NEW data \in Seq(Bytes), NEW at \in Nat, at >= 1, NEW highest, NEW a_pattern,
           BlockIsValid(data, at, highest, a_pattern)
    PROVE  LET n == BlockLength(data[at], a_pattern)
           IN  /\ n \in Nat /\ n >= 3 /\ at + n - 1 <= Len(data)
               /\ BlockAt(data, at, a_pattern).raw = SubSeq(data, at, at + n - 1)
  BY BlockLengths DEF BlockIsValid, BlockAt

(* An entry that is accepted has, written down again, the bytes it was read *)
(* from.                                                                    *)
LEMMA EntryRead ==
    ASSUME NEW data \in Seq(Bytes), NEW scheduled \in BOOLEAN, NEW at \in Nat, at >= 1,
           EntryIsValid(data, scheduled, at)
    PROVE  LET end == EntryEnd(data, scheduled, at)
           IN  /\ end \in Nat /\ at <= end /\ end <= Len(data) + 1
               /\ EncodeEntry(EntryAt(data, scheduled, at), scheduled)
                     = SubSeq(data, at, end - 1)
  <1> DEFINE a   == PumpA(scheduled, at)
             m   == BlockLength(data[a], 0)
             b   == PumpB(data, scheduled, at)
             n   == BlockLength(data[b], data[a])
             end == EntryEnd(data, scheduled, at)
             e   == EntryAt(data, scheduled, at)
  <1>1. /\ scheduled => TimeIsValid(data, at)
        /\ BlockIsValid(data, a, 4, 0)
        /\ BlockIsValid(data, b, 8, data[a])
    BY DEF EntryIsValid
  <1>2. a \in Nat /\ a >= 1 /\ at <= a
    BY DEF PumpA
  <1>3. data[a] \in 0..4
    BY <1>1 DEF BlockIsValid
  <1>4. b = a + m /\ end = b + n
    <2>1. BlockLength(data[a], data[a]) = BlockLength(data[a], 0)
      BY <1>3, BlockLengths
    <2> QED
      BY <2>1 DEF PumpB, EntryEnd
  <1>5. /\ m \in Nat /\ m >= 3 /\ a + m - 1 <= Len(data)
        /\ e.a.raw = SubSeq(data, a, a + m - 1)
    <2>1. e.a = BlockAt(data, a, 0)
      BY DEF EntryAt
    <2> HIDE DEF a, e
    <2> QED
      BY <1>1, <1>2, <2>1, BlockRead, SMTT(20)
  <1> HIDE DEF m
  <1>6. b \in Nat /\ b >= 1
    BY <1>2, <1>4, <1>5, SMTT(20)
  <1>7. /\ n \in Nat /\ n >= 3 /\ b + n - 1 <= Len(data)
        /\ e.b.raw = SubSeq(data, b, b + n - 1)
    <2>1. e.b = BlockAt(data, b, data[a])
      BY DEF EntryAt
    <2> HIDE DEF a, b, e
    <2> QED
      BY <1>1, <1>6, <2>1, BlockRead, SMTT(20)
  <1> HIDE DEF n, b, end
  <1>8. Len(data) \in Nat
    BY LenProperties
  <1>9. e.a.raw \o e.b.raw = SubSeq(data, a, end - 1)
    <2>1. /\ a \in 1..(Len(data) + 1) /\ b - 1 \in (a - 1)..Len(data)
          /\ end - 1 \in (b - 1)..Len(data) /\ (b - 1) + 1 = b
          /\ a + m - 1 = b - 1 /\ b + n - 1 = end - 1
      <3> HIDE DEF a, e
      <3> DEFINE l == Len(data)
      <3>1. /\ a \in Nat /\ m \in Nat /\ b \in Nat /\ n \in Nat /\ l \in Nat
            /\ a >= 1 /\ m >= 3 /\ n >= 3 /\ b = a + m /\ end = b + n
            /\ a + m - 1 <= l /\ b + n - 1 <= l
        BY <1>2, <1>4, <1>5, <1>6, <1>7, <1>8
      <3> HIDE DEF l
      <3>2. /\ a \in 1..(l + 1) /\ b - 1 \in (a - 1)..l
            /\ end - 1 \in (b - 1)..l /\ (b - 1) + 1 = b
            /\ a + m - 1 = b - 1 /\ b + n - 1 = end - 1
        BY <3>1
      <3> QED
        BY <3>2 DEF l
    <2> HIDE DEF a, e
    <2>2. SubSeq(data, a, b - 1) \o SubSeq(data, (b - 1) + 1, end - 1) = SubSeq(data, a, end - 1)
      BY <2>1, ConcatAdjacentSubSeq
    <2> QED
      BY <1>5, <1>7, <2>1, <2>2
  <1>10. EncodeEntry(e, scheduled) = SubSeq(data, at, end - 1)
    <2>1. CASE ~scheduled
      <3>1. a = at
        BY <2>1 DEF PumpA
      <3>2. EncodeEntry(e, scheduled) = (<< >> \o e.a.raw) \o e.b.raw
        BY <2>1 DEF EncodeEntry
      <3>3. << >> \o e.a.raw = e.a.raw
        <4>1. e.a.raw \in Seq(Bytes)
          <5>1. \A i \in a..(a + m - 1) : data[i] \in Bytes
            BY <1>2, <1>5, <1>8, ElementOfSeq
          <5> HIDE DEF a, e
          <5> QED
            BY <1>2, <1>5, <5>1, SubSeqProperties
        <4> HIDE DEF e
        <4> QED
          BY <4>1, ConcatEmptySeq
      <3> HIDE DEF e
      <3> QED
        BY <1>9, <3>1, <3>2, <3>3
    <2>2. CASE scheduled
      <3> DEFINE t == <<e.number, e.minute \div 60, e.minute % 60>>
      <3>1. a = at + 3 /\ at + 2 <= Len(data)
        BY <1>1, <2>2 DEF PumpA, TimeIsValid
      <3>2. t = SubSeq(data, at, at + 2)
        <4>1. /\ e.number = data[at] /\ e.minute = 60 * data[at + 1] + data[at + 2]
              /\ data[at + 2] <= 59
          BY <1>1, <2>2 DEF EntryAt, TimeIsValid, TimeAt
        <4>2. data[at + 1] \in Nat /\ data[at + 2] \in Nat
          <5>1. at + 1 \in 1..Len(data) /\ at + 2 \in 1..Len(data)
            BY <1>8, <3>1
          <5>2. data[at + 1] \in Bytes /\ data[at + 2] \in Bytes
            BY <5>1, ElementOfSeq
          <5> QED
            BY <5>2, ByteIs
        <4> HIDE DEF e
        <4>3. e.minute \div 60 = data[at + 1] /\ e.minute % 60 = data[at + 2]
          <5> DEFINE h == data[at + 1]
                     k == data[at + 2]
          <5>1. h \in Nat /\ k \in Nat /\ k <= 59
            BY <4>1, <4>2
          <5> HIDE DEF h, k
          <5>2. (60 * h + k) \div 60 = h /\ (60 * h + k) % 60 = k
            BY <5>1, HoursAndMinutes
          <5> QED
            BY <4>1, <5>2 DEF h, k
        <4>4. \A i \in at..(at + 2) : data[i] \in Bytes
          BY <1>8, <3>1, ElementOfSeq
        <4>5. /\ SubSeq(data, at, at + 2) \in Seq(Bytes)
              /\ Len(SubSeq(data, at, at + 2)) = 3
              /\ \A i \in 1..3 : SubSeq(data, at, at + 2)[i] = data[at + i - 1]
          BY <4>4, SubSeqProperties
        <4>6. /\ SubSeq(data, at, at + 2)[1] = data[at]
              /\ SubSeq(data, at, at + 2)[2] = data[at + 1]
              /\ SubSeq(data, at, at + 2)[3] = data[at + 2]
          BY <4>5
        <4>7. t = <<data[at], data[at + 1], data[at + 2]>>
          BY <4>1, <4>3
        <4>8. t \in Seq(Bytes) /\ Len(t) = 3
          <5>1. data[at] \in Bytes /\ data[at + 1] \in Bytes /\ data[at + 2] \in Bytes
            BY <4>4
          <5> QED
            BY <4>7, <5>1
        <4>9. \A i \in 1..3 : t[i] = SubSeq(data, at, at + 2)[i]
          BY <4>6, <4>7
        <4> HIDE DEF t
        <4> QED
          BY <4>5, <4>8, <4>9, SeqEqual
      <3>3. EncodeEntry(e, scheduled) = (t \o e.a.raw) \o e.b.raw
        BY <2>2 DEF EncodeEntry
      <3>4. (t \o e.a.raw) \o e.b.raw = t \o (e.a.raw \o e.b.raw)
        <4>1. t \in Seq(Bytes)
          <5>1. \A i \in at..(at + 2) : data[i] \in Bytes
            BY <1>8, <3>1, ElementOfSeq
          <5> HIDE DEF t
          <5> QED
            BY <3>2, <5>1, SubSeqProperties
        <4>2. e.a.raw \in Seq(Bytes)
          <5>1. \A i \in a..(a + m - 1) : data[i] \in Bytes
            BY <1>2, <1>5, <1>8, ElementOfSeq
          <5> HIDE DEF a, e
          <5> QED
            BY <1>2, <1>5, <5>1, SubSeqProperties
        <4>3. e.b.raw \in Seq(Bytes)
          <5>1. \A i \in b..(b + n - 1) : data[i] \in Bytes
            BY <1>6, <1>7, <1>8, ElementOfSeq
          <5> HIDE DEF e
          <5> QED
            BY <1>6, <1>7, <5>1, SubSeqProperties
        <4> HIDE DEF t, e
        <4>4. Joined(Joined(t, e.a.raw), e.b.raw) = Joined(t, Joined(e.a.raw, e.b.raw))
          BY <4>1, <4>2, <4>3, Regroup
        <4> QED
          BY <4>4 DEF Joined
      <3>5. SubSeq(data, at, at + 2) \o SubSeq(data, (at + 2) + 1, end - 1)
              = SubSeq(data, at, end - 1)
        <4>1. /\ at \in 1..(Len(data) + 1) /\ at + 2 \in (at - 1)..Len(data)
              /\ end - 1 \in (at + 2)..Len(data)
          BY <1>4, <1>5, <1>6, <1>7, <1>8, <3>1
        <4> QED
          BY <4>1, ConcatAdjacentSubSeq
      <3>6. (at + 2) + 1 = a
        BY <3>1
      <3> HIDE DEF a, e, t
      <3> QED
        BY <1>9, <3>2, <3>3, <3>4, <3>5, <3>6
    <2> QED
      BY <2>1, <2>2
  <1>11. end \in Nat /\ at <= end /\ end <= Len(data) + 1
    <2> HIDE DEF a, e
    <2> DEFINE l == Len(data)
    <2>1. /\ a \in Nat /\ m \in Nat /\ b \in Nat /\ n \in Nat /\ l \in Nat
          /\ at <= a /\ m >= 3 /\ n >= 3 /\ b = a + m /\ end = b + n
          /\ b + n - 1 <= l
      BY <1>2, <1>4, <1>5, <1>6, <1>7, <1>8
    <2> HIDE DEF l
    <2>2. end \in Nat /\ at <= end /\ end <= l + 1
      BY <2>1
    <2> QED
      BY <2>2 DEF l
  <1> QED
    BY <1>10, <1>11 DEF end

(* The first n turns accepted entries, which have the bytes between them.   *)
Accepted(read, data, scheduled, n) ==
    /\ read[n].entries \in Seq({EntryAt(data, scheduled, i) : i \in Nat})
    /\ Len(read[n].entries) = n
    /\ \A k \in 0..n : /\ read[k].at \in Nat /\ read[k].at <= Len(data) + 1
                        /\ Begun(scheduled).at <= read[k].at
    /\ \A k \in 1..n : /\ read[k - 1].at <= read[k].at
                        /\ EncodeEntry(read[n].entries[k], scheduled)
                             = SubSeq(data, read[k - 1].at, read[k].at - 1)

(* As long as the loop goes on, all its entries were accepted.              *)
LEMMA TurnsRead ==
    ASSUME NEW data \in Seq(Bytes), NEW scheduled \in BOOLEAN, NEW n \in Nat,
           Begun(scheduled).at <= Len(data) + 1,
           Turns(data, scheduled, n)[n].ok
    PROVE  Accepted(Turns(data, scheduled, n), data, scheduled, n)
  <1> DEFINE read == Turns(data, scheduled, n)
             E    == {EntryAt(data, scheduled, i) : i \in Nat}
             S    == {k \in 0..n : read[k].ok => Accepted(read, data, scheduled, k)}
  <1>1. /\ read[0] = Begun(scheduled)
        /\ \A k \in 1..n : read[k] = Turn(data, scheduled, read[k - 1])
    BY TurnsAre
  <1> HIDE DEF read
  <1>2. Begun(scheduled).at \in Nat /\ Begun(scheduled).at >= 1
    BY DEF Begun
  <1>3. 0 \in S
    <2>1. read[0].entries = << >> /\ read[0].at = Begun(scheduled).at
      BY <1>1 DEF Begun
    <2>2. << >> \in Seq(E) /\ Len(<< >>) = 0
      BY EmptySeq
    <2>3. Accepted(read, data, scheduled, 0)
      BY <1>2, <2>1, <2>2 DEF Accepted
    <2> QED
      BY <2>3
  <1>4. ASSUME NEW k \in 1..n, k - 1 \in S, read[k].ok
        PROVE  Accepted(read, data, scheduled, k)
    <2> DEFINE r  == read[k - 1]
               t  == read[k]
               e  == EntryAt(data, scheduled, r.at)
    <2>1. t = Turn(data, scheduled, r)
      BY <1>1
    <2>2. r.ok /\ EntryIsValid(data, scheduled, r.at)
      BY <1>4, <2>1 DEF Turn, Failed
    <2>3. t.at = EntryEnd(data, scheduled, r.at) /\ t.entries = Append(r.entries, e)
      BY <2>1, <2>2 DEF Turn
    <2>4. Accepted(read, data, scheduled, k - 1)
      BY <1>4, <2>2
    <2>5. k - 1 \in 0..(k - 1) /\ k \in Nat
      OBVIOUS
    <2>6. /\ r.at \in Nat /\ r.at <= Len(data) + 1 /\ Begun(scheduled).at <= r.at
          /\ r.entries \in Seq(E) /\ Len(r.entries) = k - 1
      BY <2>4, <2>5 DEF Accepted
    <2>7. r.at >= 1
      BY <1>2, <2>6
    <2>8. /\ t.at \in Nat /\ r.at <= t.at /\ t.at <= Len(data) + 1
          /\ EncodeEntry(e, scheduled) = SubSeq(data, r.at, t.at - 1)
      BY <2>2, <2>3, <2>6, <2>7, EntryRead, SMTT(30)
    <2>9. e \in E
      BY <2>6
    <2> HIDE DEF e, E
    <2>10. /\ t.entries \in Seq(E) /\ Len(t.entries) = k
           /\ \A j \in 1..(k - 1) : t.entries[j] = r.entries[j]
           /\ t.entries[k] = e
      BY <2>3, <2>5, <2>6, <2>9, AppendProperties
    <2>11. ASSUME NEW j \in 0..k
           PROVE  read[j].at \in Nat /\ read[j].at <= Len(data) + 1
                  /\ Begun(scheduled).at <= read[j].at
      <3>1. CASE j = k
        BY <1>2, <2>6, <2>8, <3>1
      <3>2. CASE j # k
        <4>1. j \in 0..(k - 1)
          BY <3>2
        <4> QED
          BY <2>4, <4>1 DEF Accepted
      <3> QED
        BY <3>1, <3>2
    <2>12. ASSUME NEW j \in 1..k
           PROVE  /\ read[j - 1].at <= read[j].at
                  /\ EncodeEntry(t.entries[j], scheduled)
                       = SubSeq(data, read[j - 1].at, read[j].at - 1)
      <3>1. CASE j = k
        BY <2>8, <2>10, <3>1
      <3>2. CASE j # k
        <4>1. j \in 1..(k - 1)
          BY <3>2
        <4> QED
          BY <2>4, <2>10, <4>1 DEF Accepted
      <3> QED
        BY <3>1, <3>2
    <2> QED
      BY <2>10, <2>11, <2>12 DEF Accepted, E
  <1>5. n \in S
    <2> HIDE DEF E
    <2>1. \A k \in 1..n : k - 1 \in S => k \in S
      <3> TAKE k \in 1..n
      <3> HAVE k - 1 \in S
      <3>1. read[k].ok => Accepted(read, data, scheduled, k)
        BY <1>4
      <3>2. k \in 0..n
        OBVIOUS
      <3> QED
        BY <3>1, <3>2
    <2> HIDE DEF S
    <2>2. \A k \in 0..n : k \in S
      BY <1>3, <2>1, Reaches
    <2> QED
      BY <2>2
  <1> QED
    BY <1>5 DEF read

(* A part of some bytes is bytes.                                           *)
LEMMA ByteSeq ==
    ASSUME NEW bytes \in Seq(Bytes), NEW i \in 1..Len(bytes)
    PROVE  bytes[i] \in Bytes /\ bytes[i] \in Nat
  <1>1. bytes[i] \in Bytes
    BY ElementOfSeq
  <1> QED
    BY <1>1, ByteIs

(* A programme that is accepted is, written down again, all that was        *)
(* declared, but for zeros at the end.                                      *)
LEMMA ProgramRead ==
    ASSUME NEW bytes \in Seq(Bytes), NEW scheduled \in BOOLEAN,
           DecodeProgram(bytes, scheduled) # << >>
    PROVE  LET again == EncodeProgram(DecodeProgram(bytes, scheduled), scheduled, 0)
           IN  /\ Len(again) <= bytes[1] + 1 /\ bytes[1] < Len(bytes)
               /\ \A i \in 2..(bytes[1] + 1) :
                    bytes[i] = IF i <= Len(again) THEN again[i] ELSE 0
  <1> DEFINE data    == SubSeq(bytes, 1, bytes[1] + 1)
             n       == IF scheduled THEN data[2] ELSE 1
             read    == Turns(data, scheduled, n)
             entries == read[n].entries
             at      == read[n].at
             start   == Begun(scheduled).at
  <1>1. /\ bytes # << >> /\ bytes[1] + 1 <= Len(bytes) /\ ~ (scheduled /\ bytes[1] = 0)
        /\ read[n].ok /\ OnlyZerosFollow(data, at)
        /\ DecodeProgram(bytes, scheduled) = entries
    <2>1. Len(bytes) \in Nat /\ (bytes # << >> => bytes[1] \in Nat)
      <3>1. Len(bytes) \in Nat /\ (bytes # << >> => Len(bytes) >= 1)
        BY EmptySeq, LenProperties
      <3>2. bytes # << >> => 1 \in 1..Len(bytes)
        BY <3>1
      <3> QED
        BY <3>1, <3>2, ByteSeq
    <2> QED
      BY <2>1 DEF DecodeProgram
  <1>2. Len(bytes) \in Nat /\ Len(bytes) >= 1 /\ bytes[1] \in Nat
    <2>1. Len(bytes) \in Nat /\ Len(bytes) >= 1
      BY <1>1, EmptySeq, LenProperties
    <2>2. 1 \in 1..Len(bytes)
      BY <2>1
    <2> QED
      BY <2>1, <2>2, ByteSeq
  <1>3. /\ data \in Seq(Bytes) /\ Len(data) = bytes[1] + 1
        /\ \A i \in 1..Len(data) : data[i] = bytes[i]
    <2>1. \A i \in 1..(bytes[1] + 1) : bytes[i] \in Bytes
      BY <1>1, <1>2, ElementOfSeq
    <2>2. /\ SubSeq(bytes, 1, bytes[1] + 1) \in Seq(Bytes)
          /\ Len(SubSeq(bytes, 1, bytes[1] + 1)) = bytes[1] + 1
          /\ \A i \in 1..(bytes[1] + 1) : SubSeq(bytes, 1, bytes[1] + 1)[i] = bytes[i]
      BY <1>2, <2>1, SubSeqProperties
    <2> QED
      BY <2>2
  <1> HIDE DEF data
  <1>4. n \in Nat /\ start \in Nat /\ start <= Len(data) + 1 /\ start >= 2
    <2>1. CASE scheduled
      <3>1. 2 \in 1..Len(data)
        BY <1>1, <1>2, <1>3, <2>1
      <3> QED
        BY <1>2, <1>3, <2>1, <3>1, ByteSeq DEF Begun
    <2>2. CASE ~scheduled
      BY <1>2, <1>3, <2>2 DEF Begun
    <2> QED
      BY <2>1, <2>2
  <1>5. Accepted(read, data, scheduled, n)
    <2> HIDE DEF n
    <2> QED
      BY <1>1, <1>3, <1>4, TurnsRead
  <1> HIDE DEF read
  <1> DEFINE enc == [i \in DOMAIN entries |-> EncodeEntry(entries[i], scheduled)]
             f   == [k \in 0..n |-> SubSeq(data, start, read[k].at - 1)]
  <1>6. DOMAIN entries = 1..n /\ Len(entries) = n
    BY <1>4, <1>5, LenProperties DEF Accepted
  <1>7. /\ \A k \in 0..n : read[k].at \in Nat /\ read[k].at <= Len(data) + 1
                             /\ start <= read[k].at
        /\ \A k \in 1..n : /\ read[k - 1].at <= read[k].at
                            /\ enc[k] = SubSeq(data, read[k - 1].at, read[k].at - 1)
    <2> HIDE DEF n
    <2> QED
      BY <1>5, <1>6 DEF Accepted
  <1> HIDE DEF entries, start, n
  <1>8. Len(data) \in Nat /\ \A i \in 1..Len(data) : data[i] \in Bytes
    BY <1>3, LenProperties, ElementOfSeq
  <1>9. enc \in Seq(Seq(Bytes)) /\ Len(enc) = n
    <2>1. ASSUME NEW k \in 1..n PROVE enc[k] \in Seq(Bytes)
      <3> DEFINE x == read[k - 1].at
                 y == read[k].at - 1
      <3>1. k - 1 \in 0..n /\ k \in 0..n
        BY <1>4
      <3>2. x \in Nat /\ y \in Int /\ x >= 1 /\ y <= Len(data)
        BY <1>4, <1>7, <1>8, <3>1
      <3>3. enc[k] = SubSeq(data, x, y)
        BY <1>7
      <3> HIDE DEF x, y, enc
      <3>4. \A i \in x..y : data[i] \in Bytes
        BY <1>8, <3>2
      <3> QED
        BY <3>2, <3>3, <3>4, SubSeqProperties
    <2>2. enc = [k \in 1..n |-> enc[k]]
      BY <1>6
    <2> HIDE DEF enc
    <2> QED
      <3> DEFINE T == Seq(Bytes)
      <3>1. n \in Nat /\ \A k \in 1..n : enc[k] \in T
        BY <1>4, <2>1
      <3> HIDE DEF T
      <3>2. [k \in 1..n |-> enc[k]] \in Seq(T) /\ Len([k \in 1..n |-> enc[k]]) = n
        BY <3>1, SMTT(30)
      <3> QED
        BY <2>2, <3>2, Zenon DEF T
  <1> HIDE DEF enc
  <1>10. Joins(f, enc, n)
    <2>1. f \in [0..n -> Seq(Bytes)]
      <3>1. ASSUME NEW k \in 0..n PROVE SubSeq(data, start, read[k].at - 1) \in Seq(Bytes)
        <4> DEFINE y == read[k].at - 1
        <4>1. y \in Int /\ y <= Len(data)
          BY <1>7, <1>8
        <4> HIDE DEF y
        <4>2. \A i \in start..y : data[i] \in Bytes
          BY <1>4, <1>8, <4>1
        <4>3. SubSeq(data, start, y) \in Seq(Bytes)
          BY <1>4, <4>1, <4>2, SubSeqProperties
        <4> QED
          BY <4>3 DEF y
      <3> QED
        BY <3>1
    <2>2. f[0] = << >>
      <3>1. read[0] = Begun(scheduled)
        BY <1>4, TurnsAre DEF read
      <3>2. f[0] = SubSeq(data, start, start - 1)
        BY <1>4, <3>1 DEF start
      <3>3. start \in Int /\ start - 1 \in Int /\ start - 1 < start
        BY <1>4
      <3> HIDE DEF f
      <3>4. SubSeq(data, start, start - 1) = << >>
        BY <3>3, SubSeqEmpty
      <3> QED
        BY <3>2, <3>4
    <2>3. ASSUME NEW k \in 1..n PROVE f[k] = f[k - 1] \o enc[k]
      <3> DEFINE x == read[k - 1].at
                 y == read[k].at
      <3>1. k - 1 \in 0..n /\ k \in 0..n
        BY <1>4
      <3>2. /\ x \in Nat /\ y \in Nat /\ start <= x /\ x <= y /\ y <= Len(data) + 1
            /\ enc[k] = SubSeq(data, x, y - 1)
        BY <1>7, <3>1
      <3>3. f[k] = SubSeq(data, start, y - 1) /\ f[k - 1] = SubSeq(data, start, x - 1)
        BY <3>1
      <3> HIDE DEF x, y, f
      <3> DEFINE l == Len(data)
                 w == x - 1
                 z == y - 1
      <3>4. /\ start \in 1..(l + 1) /\ w \in (start - 1)..l /\ z \in w..l /\ w + 1 = x
        <4>1. l \in Nat /\ y <= l + 1
          BY <1>8, <3>2
        <4> HIDE DEF l
        <4> QED
          BY <1>4, <3>2, <4>1
      <3> HIDE DEF l, w, z
      <3>5. SubSeq(data, start, w) \o SubSeq(data, w + 1, z) = SubSeq(data, start, z)
        BY <1>3, <3>4, ConcatAdjacentSubSeq DEF l
      <3>6. f[k - 1] = SubSeq(data, start, w) /\ enc[k] = SubSeq(data, w + 1, z)
            /\ f[k] = SubSeq(data, start, z)
        BY <3>2, <3>3, <3>4 DEF w, z
      <3> QED
        BY <3>5, <3>6
    <2>4. \A k \in 1..n : enc[k] \in Seq(Bytes)
      BY <1>9, ElementOfSeq
    <2> HIDE DEF f
    <2> QED
      BY <2>1, <2>2, <2>3, <2>4 DEF Joins
  <1>11. FlattenSeq(enc) = SubSeq(data, start, at - 1)
    <2>1. FlattenSeq(enc) = f[n]
      <3> HIDE DEF f
      <3> QED
        BY <1>4, <1>9, <1>10, FlatIs
    <2>2. n \in 0..n
      BY <1>4
    <2> QED
      BY <2>1, <2>2
  <1> HIDE DEF f
  <1>12. at \in Nat /\ start <= at /\ at <= Len(data) + 1
    <2>1. n \in 0..n
      BY <1>4
    <2> QED
      BY <1>7, <2>1
  <1> DEFINE pre   == IF scheduled THEN <<Len(entries)>> ELSE << >>
             body  == pre \o FlattenSeq(enc) \o [i \in 1..0 |-> 0]
             again == EncodeProgram(entries, scheduled, 0)
             mine  == SubSeq(data, 2, at - 1)
  <1>13. again = <<Len(body)>> \o body
    BY DEF EncodeProgram, enc
  <1> HIDE DEF again, at
  <1>14. pre = SubSeq(data, 2, start - 1)
    <2>1. CASE scheduled
      <3>1. start = 3 /\ Len(entries) = data[2]
        BY <1>6, <2>1 DEF start, Begun, n
      <3>2. 2 \in 1..Len(data)
        BY <1>4, <1>8, <3>1
      <3>3. SubSeq(data, 2, 2) = <<data[2]>> \o SubSeq(data, 2 + 1, 2)
        BY <1>3, <3>2, SubSeqRecursiveFirst
      <3>4. SubSeq(data, 2 + 1, 2) = << >>
        BY SubSeqEmpty
      <3>5. <<data[2]>> \o << >> = <<data[2]>>
        <4>1. <<data[2]>> \in Seq(Bytes)
          BY <1>8, <3>2
        <4> QED
          BY <4>1, ConcatEmptySeq
      <3>6. start - 1 = 2
        BY <3>1
      <3> QED
        BY <2>1, <3>1, <3>3, <3>4, <3>5, <3>6
    <2>2. CASE ~scheduled
      <3>1. start - 1 = 1
        BY <2>2 DEF start, Begun
      <3>2. SubSeq(data, 2, 1) = << >>
        BY SubSeqEmpty
      <3> QED
        BY <2>2, <3>1, <3>2
    <2> QED
      BY <2>1, <2>2
  <1>15. pre \o FlattenSeq(enc) = mine
    <2> DEFINE l == Len(data)
               w == start - 1
               z == at - 1
    <2>1. 2 \in 1..(l + 1) /\ w \in (2 - 1)..l /\ z \in w..l /\ w + 1 = start
      BY <1>4, <1>8, <1>12
    <2> HIDE DEF l, w, z, pre
    <2>2. SubSeq(data, 2, w) \o SubSeq(data, w + 1, z) = SubSeq(data, 2, z)
      BY <1>3, <2>1, ConcatAdjacentSubSeq DEF l
    <2>3. pre = SubSeq(data, 2, w) /\ FlattenSeq(enc) = SubSeq(data, w + 1, z)
      BY <1>11, <1>14, <2>1 DEF w, z
    <2> QED
      BY <2>2, <2>3 DEF z
  <1>16. /\ mine \in Seq(Bytes) /\ Len(mine) = at - 2
         /\ \A i \in 1..(at - 2) : mine[i] = data[i + 1]
    <2> DEFINE z == at - 1
    <2>1. z \in Int /\ 2 <= z + 1 /\ z <= Len(data) /\ at - 2 = z - 2 + 1
      BY <1>4, <1>8, <1>12
    <2> HIDE DEF z
    <2>2. \A i \in 2..z : data[i] \in Bytes
      BY <1>8, <2>1
    <2>3. /\ SubSeq(data, 2, z) \in Seq(Bytes)
          /\ Len(SubSeq(data, 2, z)) = IF 2 <= z THEN z - 2 + 1 ELSE 0
          /\ \A i \in 1..(z - 2 + 1) : SubSeq(data, 2, z)[i] = data[2 + i - 1]
      BY <2>1, <2>2, SubSeqProperties
    <2>4. mine = SubSeq(data, 2, z)
      BY DEF z
    <2> HIDE DEF mine
    <2>5. Len(mine) = z - 1 /\ at - 2 = z - 1
      BY <2>1, <2>3, <2>4
    <2>6. \A i \in 1..(z - 1) : mine[i] = data[i + 1]
      BY <2>1, <2>3, <2>4
    <2> QED
      BY <2>3, <2>4, <2>5, <2>6
  <1> HIDE DEF mine
  <1>17. body = mine
    <2>1. [i \in 1..0 |-> 0] = << >>
      OBVIOUS
    <2>2. mine \o << >> = mine
      BY <1>16, ConcatEmptySeq
    <2> HIDE DEF pre
    <2> QED
      BY <1>15, <2>1, <2>2
  <1> HIDE DEF body
  <1>18. /\ Len(again) = at - 1
         /\ \A i \in 2..(at - 1) : again[i] = data[i]
    <2> DEFINE h == <<Len(mine)>>
    <2>1. again = h \o mine /\ h \in Seq(Nat) /\ Len(h) = 1
      BY <1>4, <1>12, <1>13, <1>16, <1>17
    <2>2. mine \in Seq(Nat)
      <3>1. Bytes \subseteq Nat
        BY DEF Bytes
      <3> QED
        BY <1>16, <3>1, SeqMonotonic
    <2> HIDE DEF h
    <2>3. /\ Len(h \o mine) = 1 + Len(mine)
          /\ \A i \in 1..(1 + Len(mine)) : (h \o mine)[i] = IF i <= 1 THEN h[i] ELSE mine[i - 1]
      <3>1. h \in Seq(Nat) /\ mine \in Seq(Nat)
        BY <2>1, <2>2
      <3>2. /\ Len(h \o mine) = Len(h) + Len(mine)
            /\ \A i \in 1..(Len(h) + Len(mine)) :
                  (h \o mine)[i] = IF i <= Len(h) THEN h[i] ELSE mine[i - Len(h)]
        BY <3>1, ConcatProperties
      <3> QED
        BY <2>1, <3>2
    <2>4. Len(again) = 1 + Len(mine)
          /\ \A i \in 1..(1 + Len(mine)) : i > 1 => again[i] = mine[i - 1]
      BY <2>1, <2>3
    <2> DEFINE l == Len(mine)
    <2>5. l \in Nat /\ l = at - 2 /\ at \in Nat
      BY <1>4, <1>12, <1>16
    <2>6. Len(again) = at - 1
      BY <2>4, <2>5
    <2>7. ASSUME NEW i \in 2..(at - 1) PROVE again[i] = data[i]
      <3>1. i \in 1..(1 + l) /\ i > 1 /\ i - 1 \in 1..(at - 2) /\ (i - 1) + 1 = i
        BY <2>5
      <3> QED
        BY <1>16, <2>4, <3>1
    <2> QED
      BY <2>6, <2>7
  <1>19. \A i \in 2..(bytes[1] + 1) : bytes[i] = IF i <= Len(again) THEN again[i] ELSE 0
    <2> TAKE i \in 2..(bytes[1] + 1)
    <2>1. i \in 1..Len(data) /\ bytes[i] = data[i]
      BY <1>2, <1>3
    <2>2. CASE i <= at - 1
      BY <1>12, <1>18, <2>1, <2>2
    <2>3. CASE i >= at
      <3>1. data[i] = 0
        <4>1. i \in at..Len(data)
          BY <2>1, <2>3, <1>8, <1>12
        <4> QED
          BY <1>1, <4>1 DEF OnlyZerosFollow, at
      <3>2. ~ (i <= Len(again))
        BY <1>12, <1>18, <2>3
      <3> QED
        BY <2>1, <3>1, <3>2
    <2> QED
      BY <1>12, <2>2, <2>3
  <1>20. Len(again) <= bytes[1] + 1 /\ bytes[1] < Len(bytes)
    BY <1>1, <1>2, <1>3, <1>12, <1>18
  <1> QED
    BY <1>1, <1>19, <1>20 DEF again

(* A block that a controller wrote is read as it is, wherever it is.        *)
LEMMA BlockThere ==
    ASSUME NEW data \in Seq(Bytes), NEW at \in Nat, at >= 1,
           NEW block, NEW highest, NEW a_pattern, IsBlock(block, highest, a_pattern),
           at + Len(block.raw) - 1 <= Len(data),
           \A j \in 1..Len(block.raw) : data[at + j - 1] = block.raw[j]
    PROVE  /\ data[at] = block.raw[1]
           /\ BlockLength(data[at], a_pattern) = Len(block.raw)
           /\ BlockIsValid(data, at, highest, a_pattern)
           /\ BlockAt(data, at, a_pattern) = block
  <1> DEFINE raw == block.raw
             n   == Len(raw)
  <1>1. /\ raw \in Seq(Bytes) /\ raw # << >> /\ n = BlockLength(raw[1], a_pattern)
        /\ BlockIsValid(raw, 1, highest, a_pattern) /\ block = BlockAt(raw, 1, a_pattern)
    BY DEF IsBlock
  <1>2. n \in Nat /\ n >= 1 /\ Len(data) \in Nat
    BY <1>1, EmptySeq, LenProperties
  <1> HIDE DEF n
  <1>3. /\ at + n - 1 <= Len(data) /\ at <= Len(data)
        /\ \A j \in 1..n : data[at + j - 1] = raw[j]
    BY <1>2 DEF n
  <1>4. data[at] = raw[1]
    <2>1. 1 \in 1..n /\ at + 1 - 1 = at
      BY <1>2
    <2> QED
      BY <1>3, <2>1
  <1>5. SubSeq(raw, 1, 1 + n - 1) = raw
    <2>1. 1 + n - 1 = n
      BY <1>2
    <2> QED
      BY <1>1, <2>1, SubSeqFull DEF n
  <1>6. SubSeq(data, at, at + n - 1) = raw
    <2> DEFINE z == at + n - 1
               t == SubSeq(data, at, z)
    <2>1. z \in Int /\ at <= z /\ z <= Len(data) /\ z - at + 1 = n
      BY <1>2, <1>3
    <2>2. \A i \in at..z : data[i] \in Bytes
      <3> TAKE i \in at..z
      <3>1. i \in 1..Len(data)
        BY <1>2, <2>1
      <3> QED
        BY <3>1, ElementOfSeq
    <2> HIDE DEF z
    <2>3. t \in Seq(Bytes) /\ Len(t) = n /\ \A i \in 1..n : t[i] = data[at + i - 1]
      BY <2>1, <2>2, SubSeqProperties
    <2> HIDE DEF t, raw
    <2>4. t = raw
      BY <1>1, <1>3, <2>3, SeqEqual DEF n
    <2> QED
      BY <2>4 DEF t, z
  <1> HIDE DEF raw
  <1>7. BlockIsValid(data, at, highest, a_pattern)
    <2> DEFINE alt == AlternateAt(raw)
    <2>1. /\ raw[1] \in 0..highest /\ IsSpeed(raw[2], raw[3])
          /\ alt # 0 => IsSpeed(raw[alt], raw[alt + 1])
      BY <1>1, <1>5 DEF BlockIsValid
    <2> HIDE DEF alt
    <2>2. /\ at <= Len(data) /\ data[at] \in 0..highest
          /\ at + BlockLength(data[at], a_pattern) - 1 = at + n - 1
          /\ SubSeq(data, at, at + BlockLength(data[at], a_pattern) - 1) = raw
      BY <1>1, <1>3, <1>4, <1>6, <2>1
    <2> QED
      BY <1>3, <2>1, <2>2 DEF BlockIsValid, alt
  <1>8. BlockAt(data, at, a_pattern) = BlockAt(raw, 1, a_pattern)
    BY <1>1, <1>4, <1>5, <1>6 DEF BlockAt
  <1> QED
    BY <1>1, <1>4, <1>7, <1>8 DEF n, raw

(* An entry that a controller wrote is read as it is, wherever it is.       *)
LEMMA EntryThere ==
    ASSUME NEW data \in Seq(Bytes), NEW scheduled \in BOOLEAN, NEW at \in Nat, at >= 1,
           NEW e, IsEntry(e, scheduled),
           at + Len(EncodeEntry(e, scheduled)) - 1 <= Len(data),
           \A j \in 1..Len(EncodeEntry(e, scheduled)) :
              data[at + j - 1] = EncodeEntry(e, scheduled)[j]
    PROVE  /\ EntryIsValid(data, scheduled, at)
           /\ EntryAt(data, scheduled, at) = e
           /\ EntryEnd(data, scheduled, at) = at + Len(EncodeEntry(e, scheduled))
  <1> DEFINE enc == EncodeEntry(e, scheduled)
             t   == IF scheduled THEN <<e.number, e.minute \div 60, e.minute % 60>> ELSE << >>
             a   == e.a.raw
             b   == e.b.raw
             k   == Len(t)
             m   == Len(a)
             n   == Len(b)
             x   == at + k
             y   == x + m
  <1>1. IsBlock(e.a, 4, 0) /\ IsBlock(e.b, 8, a[1])
    BY DEF IsEntry
  <1>2. a \in Seq(Bytes) /\ b \in Seq(Bytes)
    BY <1>1 DEF IsBlock
  <1>3. /\ t \in Seq(Nat)
        /\ scheduled => /\ k = 3 /\ t[1] = e.number
                        /\ t[2] = e.minute \div 60 /\ t[3] = e.minute % 60
                        /\ e.minute = 60 * (e.minute \div 60) + (e.minute % 60)
                        /\ e.minute \div 60 <= 23 /\ e.minute % 60 <= 59
        /\ ~scheduled => k = 0
    <2>1. CASE scheduled
      <3>1. e.number \in Nat /\ e.minute \in 0..(DAY - 1)
        BY <2>1, ByteIs DEF IsEntry
      <3> DEFINE u == e.minute
      <3>2. u \in 0..(24 * 60 - 1)
        BY <3>1 DEF DAY
      <3> HIDE DEF u
      <3>3. /\ u \div 60 \in Nat /\ u % 60 \in Nat /\ u = 60 * (u \div 60) + (u % 60)
            /\ u \div 60 <= 23 /\ u % 60 <= 59
        BY <3>2, TimeOfDay
      <3>4. t = <<e.number, u \div 60, u % 60>>
        BY <2>1 DEF u
      <3> QED
        BY <2>1, <3>1, <3>3, <3>4 DEF u
    <2>2. CASE ~scheduled
      BY <2>2, EmptySeq
    <2> QED
      BY <2>1, <2>2
  <1>4. enc = (t \o a) \o b
    BY DEF EncodeEntry
  <1>5. k \in Nat /\ m \in Nat /\ n \in Nat
    BY <1>2, <1>3, LenProperties
  <1> HIDE DEF t, a, b
  <1>6. /\ Len(enc) = k + m + n
        /\ \A j \in 1..k : enc[j] = t[j]
        /\ \A j \in 1..m : enc[k + j] = a[j]
        /\ \A j \in 1..n : enc[k + m + j] = b[j]
    <2>1. Bytes \subseteq Nat
      BY DEF Bytes
    <2>2. a \in Seq(Nat) /\ b \in Seq(Nat)
      BY <1>2, <2>1, SeqMonotonic
    <2> DEFINE u == t \o a
    <2>3. /\ u \in Seq(Nat) /\ Len(u) = k + m
          /\ \A j \in 1..k : u[j] = t[j]
          /\ \A j \in 1..m : u[k + j] = a[j]
      <3>1. /\ t \in Seq(Nat) /\ a \in Seq(Nat)
        BY <1>3, <2>2
      <3>2. /\ t \o a \in Seq(Nat) /\ Len(t) \in Nat /\ Len(a) \in Nat
            /\ Len(t \o a) = Len(t) + Len(a)
            /\ \A j \in 1..Len(t) : (t \o a)[j] = t[j]
            /\ \A j \in 1..Len(a) : (t \o a)[Len(t) + j] = a[j]
        BY <3>1, Concatenated
      <3> QED
        BY <3>2
    <2> HIDE DEF u
    <2>4. /\ Len(u \o b) = (k + m) + n
          /\ \A j \in 1..(k + m) : (u \o b)[j] = u[j]
          /\ \A j \in 1..n : (u \o b)[(k + m) + j] = b[j]
      <3>1. /\ u \in Seq(Nat) /\ b \in Seq(Nat)
        BY <2>2, <2>3
      <3>2. /\ u \o b \in Seq(Nat) /\ Len(u) \in Nat /\ Len(b) \in Nat
            /\ Len(u \o b) = Len(u) + Len(b)
            /\ \A j \in 1..Len(u) : (u \o b)[j] = u[j]
            /\ \A j \in 1..Len(b) : (u \o b)[Len(u) + j] = b[j]
        BY <3>1, Concatenated
      <3> QED
        BY <2>3, <3>2 DEF n
    <2>5. enc = u \o b
      BY <1>4 DEF u
    <2> HIDE DEF enc, k, m, n
    <2>6. ASSUME NEW j \in 1..k PROVE enc[j] = t[j]
      <3>1. j \in 1..(k + m)
        BY <1>5
      <3> QED
        BY <2>3, <2>4, <2>5, <3>1
    <2>7. ASSUME NEW j \in 1..m PROVE enc[k + j] = a[j]
      <3>1. k + j \in 1..(k + m)
        BY <1>5
      <3> QED
        BY <2>3, <2>4, <2>5, <3>1
    <2> QED
      BY <2>4, <2>5, <2>6, <2>7
  <1>7. /\ at + (k + m + n) - 1 <= Len(data)
        /\ \A j \in 1..(k + m + n) : data[at + j - 1] = enc[j]
    BY <1>6
  <1> HIDE DEF enc, k, m, n
  <1>8. /\ x \in Nat /\ x >= 1 /\ x + m - 1 <= Len(data)
        /\ y \in Nat /\ y >= 1 /\ y + n - 1 <= Len(data)
    <2> DEFINE l == Len(data)
    <2>1. l \in Nat /\ at + (k + m + n) - 1 <= l
      BY <1>7, LenProperties
    <2> HIDE DEF l
    <2>2. x + m - 1 <= l /\ y + n - 1 <= l /\ x \in Nat /\ y \in Nat /\ x >= 1 /\ y >= 1
      BY <1>5, <2>1
    <2> QED
      BY <2>2 DEF l
  <1>9. /\ \A j \in 1..k : data[at + j - 1] = t[j]
        /\ \A j \in 1..m : data[x + j - 1] = a[j]
        /\ \A j \in 1..n : data[y + j - 1] = b[j]
    <2>1. ASSUME NEW j \in 1..k PROVE data[at + j - 1] = t[j]
      <3>1. j \in 1..(k + m + n)
        BY <1>5
      <3> QED
        BY <1>6, <1>7, <3>1
    <2>2. ASSUME NEW j \in 1..m PROVE data[x + j - 1] = a[j]
      <3>1. k + j \in 1..(k + m + n) /\ at + (k + j) - 1 = x + j - 1
        BY <1>5
      <3> QED
        BY <1>6, <1>7, <3>1
    <2>3. ASSUME NEW j \in 1..n PROVE data[y + j - 1] = b[j]
      <3>1. k + m + j \in 1..(k + m + n) /\ at + (k + m + j) - 1 = y + j - 1
        BY <1>5
      <3> QED
        BY <1>6, <1>7, <3>1
    <2> QED
      BY <2>1, <2>2, <2>3
  <1> HIDE DEF x, y
  <1>10. /\ data[x] = a[1] /\ BlockLength(data[x], 0) = m
         /\ BlockIsValid(data, x, 4, 0) /\ BlockAt(data, x, 0) = e.a
    <2>1. m = Len(e.a.raw) /\ a = e.a.raw
      BY DEF m, a
    <2>2. /\ x + Len(e.a.raw) - 1 <= Len(data)
          /\ \A j \in 1..Len(e.a.raw) : data[x + j - 1] = e.a.raw[j]
      BY <1>8, <1>9, <2>1
    <2> DEFINE block == e.a
    <2>3. /\ data[x] = block.raw[1] /\ BlockLength(data[x], 0) = Len(block.raw)
          /\ BlockIsValid(data, x, 4, 0) /\ BlockAt(data, x, 0) = block
      <3>1. /\ IsBlock(block, 4, 0) /\ x \in Nat /\ x >= 1
            /\ x + Len(block.raw) - 1 <= Len(data)
            /\ \A j \in 1..Len(block.raw) : data[x + j - 1] = block.raw[j]
        BY <1>1, <1>8, <2>2
      <3> HIDE DEF block
      <3> QED
        BY <3>1, BlockThere
    <2> QED
      BY <2>1, <2>3
  <1>11. /\ BlockLength(data[y], a[1]) = n
         /\ BlockIsValid(data, y, 8, a[1]) /\ BlockAt(data, y, a[1]) = e.b
    <2>1. n = Len(e.b.raw) /\ b = e.b.raw
      BY DEF n, b
    <2>2. /\ y + Len(e.b.raw) - 1 <= Len(data)
          /\ \A j \in 1..Len(e.b.raw) : data[y + j - 1] = e.b.raw[j]
      BY <1>8, <1>9, <2>1
    <2> DEFINE block == e.b
    <2>3. /\ data[y] = block.raw[1] /\ BlockLength(data[y], a[1]) = Len(block.raw)
          /\ BlockIsValid(data, y, 8, a[1]) /\ BlockAt(data, y, a[1]) = block
      <3>1. /\ IsBlock(block, 8, a[1]) /\ y \in Nat /\ y >= 1
            /\ y + Len(block.raw) - 1 <= Len(data)
            /\ \A j \in 1..Len(block.raw) : data[y + j - 1] = block.raw[j]
        BY <1>1, <1>8, <2>2
      <3> HIDE DEF block
      <3> QED
        BY <3>1, BlockThere
    <2> QED
      BY <2>1, <2>3
  <1>12. PumpA(scheduled, at) = x /\ PumpB(data, scheduled, at) = y
    <2>1. PumpA(scheduled, at) = x
      <3>1. at + 0 = at
        OBVIOUS
      <3> QED
        BY <1>3, <3>1 DEF PumpA, x
    <2>2. BlockLength(data[x], data[x]) = m
      <3>1. data[x] \in 0..4
        BY <1>10 DEF BlockIsValid
      <3> QED
        BY <1>10, <3>1, BlockLengths
    <2> QED
      BY <2>1, <2>2 DEF PumpB, y
  <1>13. scheduled => /\ TimeIsValid(data, at) /\ TimeAt(data, at) = e.minute
                      /\ data[at] = e.number
    <2> HAVE scheduled
    <2>1. data[at] = t[1] /\ data[at + 1] = t[2] /\ data[at + 2] = t[3]
      <3>1. k = 3 /\ at + 1 - 1 = at /\ at + 2 - 1 = at + 1 /\ at + 3 - 1 = at + 2
        BY <1>3
      <3>2. 1 \in 1..k /\ 2 \in 1..k /\ 3 \in 1..k
        BY <3>1
      <3> QED
        BY <1>9, <3>1, <3>2
    <2>2. at + 2 <= Len(data)
      <3> DEFINE l == Len(data)
      <3>1. l \in Nat /\ at + (k + m + n) - 1 <= l /\ k = 3
        BY <1>3, <1>7, LenProperties
      <3> HIDE DEF l
      <3>2. at + 2 <= l
        BY <1>5, <3>1
      <3> QED
        BY <3>2 DEF l
    <2> QED
      BY <1>3, <2>1, <2>2 DEF TimeIsValid, TimeAt
  <1>14. EntryIsValid(data, scheduled, at)
    BY <1>10, <1>11, <1>12, <1>13 DEF EntryIsValid
  <1>15. EntryAt(data, scheduled, at) = e
    <2> DEFINE r == EntryAt(data, scheduled, at)
    <2>1. r = [number |-> IF scheduled THEN e.number ELSE 0,
               minute |-> IF scheduled THEN e.minute ELSE 0, a |-> e.a, b |-> e.b]
      BY <1>10, <1>11, <1>12, <1>13 DEF EntryAt
    <2> HIDE DEF r
    <2>2. ~scheduled => e.number = 0 /\ e.minute = 0
      BY DEF IsEntry
    <2>3. r = [number |-> e.number, minute |-> e.minute, a |-> e.a, b |-> e.b]
      BY <2>1, <2>2
    <2> QED
      BY <2>3 DEF IsEntry, r
  <1>16. EntryEnd(data, scheduled, at) = at + Len(enc)
    <2>1. EntryEnd(data, scheduled, at) = y + n
      BY <1>10, <1>11, <1>12 DEF EntryEnd
    <2>2. y + n = at + (k + m + n)
      BY <1>5 DEF x, y
    <2> QED
      BY <1>6, <2>1, <2>2
  <1> QED
    BY <1>14, <1>15, <1>16 DEF enc

(* A programme that a controller wrote is accepted as it is.                *)
LEMMA ProgramThere ==
    ASSUME NEW bytes \in Seq(Bytes), NEW scheduled \in BOOLEAN, NEW zeros \in Nat,
           NEW entries, IsProgram(entries, scheduled),
           bytes = EncodeProgram(entries, scheduled, zeros)
    PROVE  DecodeProgram(bytes, scheduled) = entries
  <1> DEFINE R     == {entries[i] : i \in DOMAIN entries}
             n     == Len(entries)
             enc   == [i \in DOMAIN entries |-> EncodeEntry(entries[i], scheduled)]
             pre   == IF scheduled THEN <<n>> ELSE << >>
             flat  == FlattenSeq(enc)
             tail  == [i \in 1..zeros |-> 0]
             body  == pre \o flat \o tail
             start == Begun(scheduled).at
             read  == Turns(bytes, scheduled, n)
  <1>1. /\ entries \in Seq(R) /\ n \in Nat /\ DOMAIN entries = 1..n
        /\ ~scheduled => n = 1
        /\ \A k \in 1..n : IsEntry(entries[k], scheduled)
    <2>1. entries \in Seq(R)
      BY DEF IsProgram, IsSequence
    <2> HIDE DEF R
    <2>2. n \in Nat /\ DOMAIN entries = 1..n
      BY <2>1, LenProperties
    <2> QED
      BY <2>1, <2>2 DEF IsProgram
  <1>2. bytes = <<Len(body)>> \o body
    BY DEF EncodeProgram
  <1>3. enc \in Seq(Seq(Bytes)) /\ Len(enc) = n /\ \A k \in 1..n : enc[k] \in Seq(Bytes)
    <2>1. ASSUME NEW k \in 1..n PROVE enc[k] \in Seq(Bytes)
      <3> DEFINE e == entries[k]
                 t == IF scheduled THEN <<e.number, e.minute \div 60, e.minute % 60>> ELSE << >>
      <3>1. IsEntry(e, scheduled)
        BY <1>1
      <3>2. e.a.raw \in Seq(Bytes) /\ e.b.raw \in Seq(Bytes)
        BY <3>1 DEF IsEntry, IsBlock
      <3>3. t \in Seq(Bytes)
        <4>1. CASE scheduled
          <5> DEFINE u == e.minute
          <5>1. e.number \in Bytes /\ u \in 0..(24 * 60 - 1)
            <6> HIDE DEF e
            <6>1. e.number \in Bytes /\ e.minute \in 0..(DAY - 1)
              BY <3>1, <4>1, Zenon DEF IsEntry
            <6> QED
              BY <6>1 DEF DAY
          <5> HIDE DEF u
          <5>2. u \div 60 \in Nat /\ u \div 60 < 256 /\ u % 60 \in Nat /\ u % 60 < 256
            <6> DEFINE q == u \div 60
                       r == u % 60
            <6>1. u \in 0..(24 * 60 - 1)
              BY <5>1
            <6>2. q \in Nat /\ r \in Nat /\ q <= 23 /\ r <= 59
              BY <6>1, TimeOfDay
            <6> HIDE DEF q, r
            <6>3. q < 256 /\ r < 256
              BY <6>2
            <6> QED
              BY <6>2, <6>3 DEF q, r
          <5>3. u \div 60 \in Bytes /\ u % 60 \in Bytes
            BY <5>2, IsByte
          <5>4. t = <<e.number, u \div 60, u % 60>>
            BY <4>1 DEF u
          <5> HIDE DEF t, e
          <5> QED
            BY <5>1, <5>3, <5>4, ThreeBytes, Zenon
        <4>2. CASE ~scheduled
          BY <4>2, EmptySeq
        <4> QED
          BY <4>1, <4>2
      <3>4. enc[k] = (t \o e.a.raw) \o e.b.raw
        BY <1>1 DEF EncodeEntry
      <3> HIDE DEF t, e, enc
      <3>5. t \o e.a.raw \in Seq(Bytes)
        BY <3>2, <3>3, ConcatProperties
      <3>6. (t \o e.a.raw) \o e.b.raw \in Seq(Bytes)
        BY <3>2, <3>5, ConcatProperties
      <3> QED
        BY <3>4, <3>6
    <2>2. enc = [k \in 1..n |-> enc[k]]
      BY <1>1
    <2> HIDE DEF enc, n
    <2> DEFINE T == Seq(Bytes)
    <2>3. \A k \in 1..n : enc[k] \in T
      BY <2>1
    <2> HIDE DEF T
    <2>4. enc \in Seq(T) /\ Len(enc) = n
      <3>1. [k \in 1..n |-> enc[k]] \in Seq(T) /\ Len([k \in 1..n |-> enc[k]]) = n
        BY <1>1, <2>3, SMTT(30)
      <3> QED
        BY <2>2, <3>1, Zenon
    <2>5. enc \in Seq(Seq(Bytes)) /\ Len(enc) = n
      BY <2>4 DEF T
    <2> QED
      BY <2>1, <2>5
  <1> HIDE DEF enc, n
  <1>4. PICK f : Joins(f, enc, n)
    BY <1>1, <1>3, JoinsExist
  <1>parts. ASSUME NEW k \in 1..n
            PROVE  /\ Len(f[k]) = Len(f[k - 1]) + Len(enc[k])
                   /\ Len(f[k]) <= Len(f[n])
                   /\ \A j \in 1..Len(enc[k]) : f[n][Len(f[k - 1]) + j] = enc[k][j]
    <2> HIDE DEF R, flat, tail, body, pre, start, read
    <2>1. n \in Nat
      BY <1>1
    <2>2. PartAt(f, enc, n, k)
      BY <1>4, <2>1, PartsOfJoined
    <2> QED
      BY <2>2 DEF PartAt
  <1>5. flat = f[n] /\ flat \in Seq(Bytes)
    <2>1. flat = f[n]
      BY <1>1, <1>3, <1>4, FlatIs
    <2>2. n \in 0..n
      BY <1>1
    <2>3. f[n] \in Seq(Bytes)
      BY <1>4, <2>2 DEF Joins
    <2> HIDE DEF flat
    <2> QED
      BY <2>1, <2>3
  <1> HIDE DEF flat
  <1>6. /\ pre \in Seq(Nat) /\ Len(pre) = start - 2 /\ start \in {2, 3}
        /\ scheduled => start = 3 /\ pre[1] = n
        /\ ~scheduled => start = 2
    <2>1. CASE scheduled
      <3>1. pre = <<n>> /\ start = 3
        BY <2>1 DEF Begun
      <3> HIDE DEF pre, start
      <3> QED
        BY <1>1, <2>1, <3>1
    <2>2. CASE ~scheduled
      <3>1. pre = << >> /\ start = 2
        BY <2>2 DEF Begun
      <3>2. << >> \in Seq(Nat) /\ Len(<< >>) = 0
        BY EmptySeq
      <3> HIDE DEF pre, start
      <3> QED
        BY <2>2, <3>1, <3>2
    <2> QED
      BY <2>1, <2>2
  <1> HIDE DEF pre
  <1>7. tail \in Seq(Nat) /\ Len(tail) = zeros /\ \A i \in 1..zeros : tail[i] = 0
    <2>1. \A i \in 1..zeros : tail[i] = 0
      OBVIOUS
    <2>2. tail \in [1..zeros -> Nat]
      OBVIOUS
    <2>3. tail = [i \in 1..zeros |-> tail[i]]
      OBVIOUS
    <2> HIDE DEF tail
    <2> QED
      BY <2>1, <2>2, <2>3
  <1> HIDE DEF tail
  <1> DEFINE l == Len(flat)
             h == start - 1
  <1>8. /\ l \in Nat /\ h \in Nat /\ Len(bytes) = h + l + zeros
        /\ bytes[1] = Len(bytes) - 1
        /\ scheduled => bytes[2] = n
        /\ \A j \in 1..l : bytes[h + j] = flat[j]
        /\ \A j \in 1..zeros : bytes[h + l + j] = 0
    <2> DEFINE p == Len(pre)
               c == <<Len(body)>>
               u == pre \o flat
    <2> HIDE DEF body
    <2>1. flat \in Seq(Nat)
      <3>1. Bytes \subseteq Nat
        BY DEF Bytes
      <3> QED
        BY <1>5, <3>1, SeqMonotonic
    <2>2. /\ u \in Seq(Nat) /\ p \in Nat /\ l \in Nat /\ Len(u) = p + l
          /\ \A j \in 1..p : u[j] = pre[j]
          /\ \A j \in 1..l : u[p + j] = flat[j]
      <3>1. /\ pre \in Seq(Nat) /\ flat \in Seq(Nat)
        BY <1>6, <2>1
      <3>2. /\ pre \o flat \in Seq(Nat) /\ Len(pre) \in Nat /\ Len(flat) \in Nat
            /\ Len(pre \o flat) = Len(pre) + Len(flat)
            /\ \A j \in 1..Len(pre) : (pre \o flat)[j] = pre[j]
            /\ \A j \in 1..Len(flat) : (pre \o flat)[Len(pre) + j] = flat[j]
        BY <3>1, Concatenated
      <3> QED
        BY <2>1, <3>2 DEF u, p, l
    <2>3. body = u \o tail
      BY DEF body
    <2> HIDE DEF u, p, l
    <2>4. /\ body \in Seq(Nat) /\ Len(body) = (p + l) + zeros
          /\ \A j \in 1..(p + l) : body[j] = u[j]
          /\ \A j \in 1..zeros : body[(p + l) + j] = 0
      <3>1. /\ u \in Seq(Nat) /\ tail \in Seq(Nat)
        BY <1>7, <2>2
      <3>2. /\ u \o tail \in Seq(Nat) /\ Len(u) \in Nat /\ Len(tail) \in Nat
            /\ Len(u \o tail) = Len(u) + Len(tail)
            /\ \A j \in 1..Len(u) : (u \o tail)[j] = u[j]
            /\ \A j \in 1..Len(tail) : (u \o tail)[Len(u) + j] = tail[j]
        BY <3>1, Concatenated
      <3> QED
        BY <1>7, <2>2, <2>3, <3>2
    <2>5. c \in Seq(Nat) /\ Len(c) = 1 /\ c[1] = (p + l) + zeros
      BY <2>2, <2>4
    <2>6. bytes = c \o body
      BY <1>2
    <2> HIDE DEF c
    <2>7. /\ Len(bytes) = 1 + ((p + l) + zeros)
          /\ \A j \in 1..1 : bytes[j] = c[j]
          /\ \A j \in 1..((p + l) + zeros) : bytes[1 + j] = body[j]
      <3>1. /\ c \in Seq(Nat) /\ body \in Seq(Nat)
        BY <2>4, <2>5
      <3>2. /\ c \o body \in Seq(Nat) /\ Len(c) \in Nat /\ Len(body) \in Nat
            /\ Len(c \o body) = Len(c) + Len(body)
            /\ \A j \in 1..Len(c) : (c \o body)[j] = c[j]
            /\ \A j \in 1..Len(body) : (c \o body)[Len(c) + j] = body[j]
        BY <3>1, Concatenated
      <3> QED
        BY <2>4, <2>5, <2>6, <3>2
    <2>8. p = start - 2 /\ h = 1 + p /\ h \in Nat
      BY <1>6 DEF p
    <2> HIDE DEF h, start
    <2>9. Len(bytes) = h + l + zeros /\ bytes[1] = Len(bytes) - 1
      <3> DEFINE length == Len(bytes)
      <3>1. length = 1 + ((p + l) + zeros) /\ p \in Nat /\ l \in Nat /\ h = 1 + p
        BY <2>2, <2>7, <2>8
      <3>2. 1 \in 1..1
        OBVIOUS
      <3>3. bytes[1] = (p + l) + zeros
        BY <2>5, <2>7, <3>2
      <3> HIDE DEF length
      <3>4. length = h + l + zeros /\ (p + l) + zeros = length - 1
        BY <3>1
      <3> QED
        BY <3>3, <3>4 DEF length
    <2>10. scheduled => bytes[2] = n
      <3> HAVE scheduled
      <3>1. p = 1 /\ pre[1] = n
        BY <1>6, <2>8
      <3>2. 1 \in 1..p /\ 1 \in 1..(p + l) /\ 1 \in 1..((p + l) + zeros) /\ 1 + 1 = 2
        BY <2>2, <3>1
      <3>3. bytes[1 + 1] = body[1]
        BY <2>7, <3>2
      <3> QED
        BY <2>2, <2>4, <3>1, <3>2, <3>3
    <2>11. ASSUME NEW j \in 1..l PROVE bytes[h + j] = flat[j]
      <3>1. p + j \in 1..(p + l) /\ p + j \in 1..((p + l) + zeros) /\ h + j = 1 + (p + j)
        <4>1. p \in Nat /\ l \in Nat /\ h = 1 + p
          BY <2>2, <2>8
        <4> QED
          BY <4>1
      <3> QED
        BY <2>2, <2>4, <2>7, <3>1
    <2>12. ASSUME NEW j \in 1..zeros PROVE bytes[h + l + j] = 0
      <3>1. (p + l) + j \in 1..((p + l) + zeros) /\ h + l + j = 1 + ((p + l) + j)
        <4>1. p \in Nat /\ l \in Nat /\ h = 1 + p
          BY <2>2, <2>8
        <4> QED
          BY <4>1
      <3> QED
        BY <2>4, <2>7, <3>1
    <2> QED
      BY <2>2, <2>8, <2>9, <2>10, <2>11, <2>12
  <1> HIDE DEF body, l, h
  <1>9. h = start - 1 /\ start \in Nat /\ start >= 2 /\ h >= 1
    BY <1>6 DEF h
  <1>10. /\ read[0] = Begun(scheduled)
         /\ \A k \in 1..n : read[k] = Turn(bytes, scheduled, read[k - 1])
    BY <1>1, TurnsAre, SMTT(20)
  <1> HIDE DEF read, start
  <1> DEFINE Read(k) == /\ read[k].ok /\ read[k].at = start + Len(f[k])
                        /\ read[k].entries \in Seq(R) /\ Len(read[k].entries) = k
                        /\ \A j \in 1..k : read[k].entries[j] = entries[j]
             S == {k \in 0..n : Read(k)}
  <1>11. 0 \in S
    <2>1. read[0].ok /\ read[0].at = start /\ read[0].entries = << >>
      BY <1>10 DEF Begun, start
    <2>2. f[0] = << >> /\ Len(<< >>) = 0 /\ << >> \in Seq(R)
      BY <1>4, EmptySeq DEF Joins
    <2> HIDE DEF R
    <2>3. Len(f[0]) = 0 /\ Len(read[0].entries) = 0 /\ read[0].entries \in Seq(R)
      BY <2>1, <2>2
    <2>4. read[0].at = start + Len(f[0])
      BY <1>9, <2>1, <2>3
    <2>5. 0 \in 0..n /\ 1..0 = {}
      BY <1>1
    <2>6. Read(0)
      BY <2>1, <2>3, <2>4, <2>5
    <2> HIDE DEF Read
    <2> QED
      BY <2>5, <2>6
  <1>12. ASSUME NEW k \in 1..n, Read(k - 1) PROVE Read(k)
    <2> DEFINE r == read[k - 1]
               e == entries[k]
               w == EncodeEntry(e, scheduled)
               b == Len(f[k - 1])
               m == Len(w)
    <2>1. w = enc[k] /\ IsEntry(e, scheduled) /\ e \in R
      BY <1>1 DEF enc
    <2>2. /\ f[k - 1] \in Seq(Bytes) /\ b \in Nat /\ m \in Nat
      <3>1. k - 1 \in 0..n
        BY <1>1
      <3> QED
        BY <1>3, <1>4, <2>1, <3>1, LenProperties DEF Joins
    <2>3. /\ Len(f[k]) = b + m /\ Len(f[k]) <= l
          /\ \A j \in 1..m : flat[b + j] = w[j]
      <3>1. /\ Len(f[k]) = Len(f[k - 1]) + Len(enc[k])
            /\ Len(f[k]) <= Len(f[n])
            /\ \A j \in 1..Len(enc[k]) : f[n][Len(f[k - 1]) + j] = enc[k][j]
        BY <1>parts
      <3> HIDE DEF w
      <3> QED
        BY <1>5, <2>1, <3>1 DEF l
    <2>4. r.ok /\ r.at = start + b /\ r.entries \in Seq(R) /\ Len(r.entries) = k - 1
      BY <1>12
    <2> HIDE DEF b, m, w, e
    <2>5. r.at \in Nat /\ r.at >= 1 /\ r.at + m - 1 <= Len(bytes)
      BY <1>8, <1>9, <2>2, <2>3, <2>4
    <2>6. \A j \in 1..m : bytes[r.at + j - 1] = w[j]
      <3> TAKE j \in 1..m
      <3>1. b + j \in 1..l /\ r.at + j - 1 = h + (b + j)
        BY <1>8, <1>9, <2>2, <2>3, <2>4
      <3> QED
        BY <1>8, <2>3, <3>1
    <2>7. /\ EntryIsValid(bytes, scheduled, r.at)
          /\ EntryAt(bytes, scheduled, r.at) = e
          /\ EntryEnd(bytes, scheduled, r.at) = r.at + m
      <3> DEFINE x == r.at
      <3>1. /\ x \in Nat /\ x >= 1 /\ IsEntry(e, scheduled)
            /\ x + Len(EncodeEntry(e, scheduled)) - 1 <= Len(bytes)
            /\ \A j \in 1..Len(EncodeEntry(e, scheduled)) :
                  bytes[x + j - 1] = EncodeEntry(e, scheduled)[j]
        BY <2>1, <2>5, <2>6 DEF w, m
      <3> HIDE DEF x
      <3>2. /\ EntryIsValid(bytes, scheduled, x) /\ EntryAt(bytes, scheduled, x) = e
            /\ EntryEnd(bytes, scheduled, x) = x + Len(EncodeEntry(e, scheduled))
        BY <3>1, EntryThere, SMTT(30)
      <3> QED
        BY <3>2 DEF x, w, m
    <2>8. read[k].ok /\ read[k].at = r.at + m /\ read[k].entries = Append(r.entries, e)
      <3>1. read[k] = Turn(bytes, scheduled, r)
        BY <1>10
      <3> QED
        BY <2>4, <2>7, <3>1 DEF Turn
    <2> HIDE DEF R
    <2>9. /\ read[k].entries \in Seq(R) /\ Len(read[k].entries) = (k - 1) + 1
          /\ \A j \in 1..(k - 1) : read[k].entries[j] = r.entries[j]
          /\ read[k].entries[(k - 1) + 1] = e
      BY <2>1, <2>4, <2>8, AppendProperties
    <2>10. read[k].at = start + Len(f[k])
      BY <1>9, <2>2, <2>3, <2>4, <2>8
    <2>11. ASSUME NEW j \in 1..k PROVE read[k].entries[j] = entries[j]
      <3>1. CASE j = k
        BY <2>9, <3>1 DEF e
      <3>2. CASE j # k
        <4>1. j \in 1..(k - 1)
          BY <3>2
        <4> QED
          BY <1>12, <2>9, <4>1
      <3> QED
        BY <3>1, <3>2
    <2>12. Len(read[k].entries) = k
      BY <2>9
    <2> QED
      BY <2>8, <2>9, <2>10, <2>11, <2>12
  <1>13. Read(n)
    <2> HIDE DEF Read
    <2>1. \A k \in 1..n : k - 1 \in S => k \in S
      <3> TAKE k \in 1..n
      <3> HAVE k - 1 \in S
      <3>1. Read(k - 1) /\ k \in 0..n
        BY <1>1
      <3> QED
        BY <1>12, <3>1
    <2>2. n \in 0..n
      BY <1>1
    <2> HIDE DEF S
    <2>3. \A k \in 0..n : k \in S
      BY <1>1, <1>11, <2>1, Reaches
    <2>4. n \in S
      BY <2>2, <2>3
    <2> QED
      BY <2>4 DEF S
  <1>14. read[n].entries = entries
    <2> HIDE DEF R
    <2> QED
      BY <1>1, <1>13, SeqEqual DEF n
  <1>15. OnlyZerosFollow(bytes, read[n].at)
    <2>1. ASSUME NEW i \in read[n].at..Len(bytes) PROVE bytes[i] = 0
      <3>1. read[n].at = h + l + 1
        BY <1>5, <1>8, <1>9, <1>13 DEF l
      <3> DEFINE j == i - (h + l)
      <3>2. j \in 1..zeros /\ i = h + l + j
        BY <1>8, <3>1
      <3> HIDE DEF j
      <3> QED
        BY <1>8, <3>2
    <2> QED
      BY <2>1 DEF OnlyZerosFollow
  <1>16. /\ bytes # << >> /\ ~ (bytes[1] + 1 > Len(bytes)) /\ ~ (scheduled /\ bytes[1] = 0)
         /\ SubSeq(bytes, 1, bytes[1] + 1) = bytes
    <2>1. Len(bytes) >= 1 /\ Len(bytes) \in Nat /\ bytes[1] + 1 = Len(bytes)
      BY <1>8, <1>9
    <2>2. scheduled => Len(bytes) >= 2
      BY <1>6, <1>8, <1>9
    <2>3. bytes # << >>
      BY <2>1, EmptySeq
    <2>4. SubSeq(bytes, 1, Len(bytes)) = bytes
      BY SubSeqFull
    <2> QED
      BY <2>1, <2>2, <2>3, <2>4
  <1>17. n = IF scheduled THEN bytes[2] ELSE 1
    BY <1>1, <1>8
  <1> QED
    <2> DEFINE data  == SubSeq(bytes, 1, bytes[1] + 1)
               count == IF scheduled THEN data[2] ELSE 1
               r     == Turns(data, scheduled, count)[count]
    <2>1. DecodeProgram(bytes, scheduled)
            = IF r.ok /\ OnlyZerosFollow(data, r.at) THEN r.entries ELSE << >>
      BY <1>16 DEF DecodeProgram
    <2>2. data = bytes
      BY <1>16
    <2> HIDE DEF data
    <2>3. count = n
      BY <1>17, <2>2
    <2> HIDE DEF count
    <2>4. r = read[n]
      BY <2>2, <2>3 DEF read
    <2> HIDE DEF r
    <2>5. r.ok /\ r.entries = entries /\ OnlyZerosFollow(data, r.at)
      BY <1>13, <1>14, <1>15, <2>2, <2>4
    <2> QED
      BY <2>1, <2>5

(* What was decoded stays what it is, and a programme was read by           *)
(* decode_program.                                                          *)
WasRead ==
    /\ input.of = "program" => input \in ProgramInputs
    /\ done /\ input.of = "program" => output = DecodeProgram(input.bytes, input.scheduled)

(* A programme is shown as the controller has it or not at all, never in    *)
(* part, for bytes of any length and with any number of entries             *)
(* (decode_program).                                                        *)
THEOREM ProgrammeNeverInPart == DecodingSpec => []NeverInPart
  <1>1. DecodingInit => WasRead
    BY InputsAssumption DEF DecodingInit, WasRead
  <1>2. WasRead /\ [DecodingNext]_decodingVars => WasRead'
    <2> SUFFICES ASSUME WasRead, [DecodingNext]_decodingVars PROVE WasRead'
      OBVIOUS
    <2>1. CASE DecodesProgram
      BY <2>1 DEF DecodesProgram, Decodes, WasRead
    <2>2. ASSUME NEW kind, kind # "program", Decodes(kind) PROVE WasRead'
      BY <2>2 DEF Decodes, WasRead
    <2>3. CASE DecodesReport \/ DecodesWrite \/ FindsEntry \/ FindsDevices \/ ShowsLevels
      <3>1. \/ Decodes("report") \/ Decodes("write") \/ Decodes("minute")
            \/ Decodes("search") \/ Decodes("levels")
        BY <2>3 DEF DecodesReport, DecodesWrite, FindsEntry, FindsDevices, ShowsLevels
      <3> QED
        BY <2>2, <3>1
    <2>4. CASE UNCHANGED decodingVars
      BY <2>4 DEF decodingVars, WasRead
    <2> QED
      BY <2>1, <2>3, <2>4 DEF DecodingNext
  <1>3. WasRead => NeverInPart
    <2> SUFFICES ASSUME WasRead, done, input.of = "program" PROVE NeverInPart
      BY DEF NeverInPart
    <2>1. /\ input.bytes \in Seq(Bytes) /\ input.scheduled \in BOOLEAN /\ input.zeros \in Nat
          /\ IsProgram(input.entries, input.scheduled)
          /\ output = DecodeProgram(input.bytes, input.scheduled)
      BY InputsAssumption DEF WasRead
    <2> DEFINE again == EncodeProgram(output, input.scheduled, 0)
    <2>2. ASSUME output # << >>
          PROVE  /\ Len(again) <= input.bytes[1] + 1 /\ input.bytes[1] < Len(input.bytes)
                 /\ \A i \in 2..(input.bytes[1] + 1) :
                      input.bytes[i] = IF i <= Len(again) THEN again[i] ELSE 0
      BY <2>1, <2>2, ProgramRead
    <2>3. ASSUME input.bytes = EncodeProgram(input.entries, input.scheduled, input.zeros)
          PROVE  output = input.entries
      BY <2>1, <2>3, ProgramThere
    <2> QED
      BY <2>2, <2>3 DEF NeverInPart
  <1> QED
    BY <1>1, <1>2, <1>3, PTL DEF DecodingSpec
-----------------------------------------------------------------------------
(* The search for a packet goes on from every place to a later one, so      *)
(* that it comes to an end.                                                 *)
Readable(resp) == \A k \in 1..(Len(resp) - 1) : resp[k] \in Nat

LEMMA OnwardIsLater ==
    ASSUME NEW V, NEW resp \in Seq(V), Readable(resp), NEW i \in Nat, i < Len(resp) - 5
    PROVE  Onward(resp, i) \in Nat /\ Onward(resp, i) > i
  <1> DEFINE l == Len(resp)
             a == resp[i + 4]
             b == resp[i + 5]
  <1>1. l \in Nat
    BY LenProperties
  <1>2. i + 4 \in 1..(l - 1) /\ i + 5 \in 1..(l - 1)
    BY <1>1
  <1>3. a \in Nat /\ b \in Nat
    BY <1>2 DEF Readable
  <1> HIDE DEF l, a, b
  <1>4. /\ i + 5 + 256 * a + b \in Nat /\ i + 5 + 256 * a + b > i
        /\ i + 5 + b + 1 \in Nat /\ i + 5 + b + 1 > i
        /\ i + 1 \in Nat /\ i + 1 > i
    BY <1>3
  <1> QED
    BY <1>4 DEF Onward, PacketEnd, OldEnd, a, b

FindBody(resp, sub, find, i) ==
    IF i >= Len(resp) - 5 THEN << >>
    ELSE IF IsAnswer(resp, sub, i) THEN Slice(resp, i, PacketEnd(resp, i))
    ELSE find[Onward(resp, i)]

LEMMA FoundFromIs ==
    ASSUME NEW V, NEW resp \in Seq(V), Readable(resp), NEW sub
    PROVE  \A i \in Nat : FoundFrom(resp, sub)[i] = FindBody(resp, sub, FoundFrom(resp, sub), i)
  <1> DEFINE l == Len(resp)
             Is(f, i) == f[i] = FindBody(resp, sub, f, i)
             S == {k \in 0..l : \E f : /\ f = [i \in Nat |-> f[i]]
                                       /\ \A i \in Nat : i >= l - k => Is(f, i)}
  <1>1. l \in Nat
    BY LenProperties
  <1>2. 0 \in S
    <2> DEFINE f == [i \in Nat |-> << >>]
    <2>1. \A i \in Nat : i >= l - 0 => i >= l - 5
      BY <1>1
    <2>2. \A i \in Nat : i >= l - 0 => Is(f, i)
      BY <2>1 DEF FindBody
    <2>3. f = [i \in Nat |-> f[i]]
      OBVIOUS
    <2> HIDE DEF f, Is
    <2>4. \E g : /\ g = [i \in Nat |-> g[i]]
                 /\ \A i \in Nat : i >= l - 0 => Is(g, i)
      BY <2>2, <2>3
    <2>5. 0 \in 0..l
      BY <1>1
    <2> QED
      BY <2>4, <2>5
  <1>3. ASSUME NEW k \in 1..l, k - 1 \in S PROVE k \in S
    <2>1. PICK f : /\ f = [i \in Nat |-> f[i]]
                   /\ \A i \in Nat : i >= l - (k - 1) => Is(f, i)
      BY <1>3
    <2> DEFINE at == l - k
               g  == [i \in Nat |-> IF i = at THEN FindBody(resp, sub, f, at) ELSE f[i]]
    <2>2. at \in Nat
      BY <1>1
    <2>3. ASSUME NEW i \in Nat, i >= at PROVE Is(g, i)
      <3>1. ASSUME i < l - 5, ~IsAnswer(resp, sub, i)
            PROVE  g[Onward(resp, i)] = f[Onward(resp, i)]
        <4>1. Onward(resp, i) \in Nat /\ Onward(resp, i) > i
          BY <3>1, OnwardIsLater
        <4> DEFINE o == Onward(resp, i)
        <4>2. o \in Nat /\ o # at
          BY <2>2, <2>3, <4>1
        <4> HIDE DEF o, at
        <4>3. g[o] = f[o]
          BY <4>2
        <4> QED
          BY <4>3 DEF o
      <3>2. FindBody(resp, sub, g, i) = FindBody(resp, sub, f, i)
        <4>1. i >= l - 5 \/ i < l - 5
          BY <1>1
        <4> HIDE DEF g
        <4> QED
          BY <3>1, <4>1 DEF FindBody
      <3>3. g[i] = FindBody(resp, sub, f, i)
        <4>1. CASE i = at
          BY <2>2, <4>1
        <4>2. CASE i # at
          <5>1. i >= l - (k - 1)
            BY <1>1, <2>3, <4>2
          <5>2. Is(f, i)
            BY <2>1, <5>1
          <5>3. g[i] = f[i]
            BY <4>2
          <5> QED
            BY <5>2, <5>3
        <4> QED
          BY <4>1, <4>2
      <3> QED
        BY <3>2, <3>3
    <2>4. g = [i \in Nat |-> g[i]]
      OBVIOUS
    <2> HIDE DEF g, Is
    <2>5. \E h : /\ h = [i \in Nat |-> h[i]]
                 /\ \A i \in Nat : i >= l - k => Is(h, i)
      BY <2>3, <2>4 DEF at
    <2>6. k \in 0..l
      BY <1>1
    <2> QED
      BY <2>5, <2>6
  <1>4. l \in S
    <2> HIDE DEF S, l
    <2>1. \A k \in 1..l : k - 1 \in S => k \in S
      BY <1>3
    <2>2. \A k \in 0..l : k \in S
      BY <1>1, <1>2, <2>1, Reaches
    <2> QED
      BY <1>1, <2>2
  <1>5. PICK f : /\ f = [i \in Nat |-> f[i]]
                 /\ \A i \in Nat : i >= l - l => Is(f, i)
    BY <1>4
  <1>6. \A i \in Nat : Is(f, i)
    BY <1>1, <1>5
  <1> DEFINE Loop(g) == g = [i \in Nat |-> FindBody(resp, sub, g, i)]
  <1>7. Loop(f)
    BY <1>5, <1>6
  <1>8. FoundFrom(resp, sub) = CHOOSE g : Loop(g)
    BY DEF FoundFrom, FindBody
  <1> HIDE DEF Loop
  <1>9. Loop(FoundFrom(resp, sub))
    BY <1>7, <1>8
  <1> QED
    BY <1>9 DEF Loop

(* What stands in a part of a sequence.                                     *)
IsSlice(S, s, a, n) ==
    /\ Slice(s, a, a + n) \in Seq(S) /\ Len(Slice(s, a, a + n)) = n
    /\ \A j \in 1..n : Slice(s, a, a + n)[j] = s[a + j]

LEMMA SliceIs ==
    ASSUME NEW S, NEW s \in Seq(S), NEW a \in Nat, NEW n \in Nat, a + n <= Len(s)
    PROVE  IsSlice(S, s, a, n)
  <1> DEFINE l == Len(s)
             m == a + 1
             z == a + n
             u == SubSeq(s, m, z)
  <1>1. l \in Nat /\ a + n <= l
    BY LenProperties
  <1>2. \A i \in m..z : s[i] \in S
    <2> TAKE i \in m..z
    <2>1. i \in 1..l
      BY <1>1
    <2> QED
      BY <2>1, ElementOfSeq
  <1>3. m \in Int /\ z \in Int
    OBVIOUS
  <1>4. /\ (m <= z => z - m + 1 = n) /\ (~(m <= z) => n = 0)
        /\ z - m + 1 = n /\ \A j \in 1..n : m + j - 1 = a + j
    OBVIOUS
  <1> HIDE DEF m, z
  <1>5. /\ u \in Seq(S) /\ Len(u) = IF m <= z THEN z - m + 1 ELSE 0
        /\ \A j \in 1..(z - m + 1) : u[j] = s[m + j - 1]
    BY <1>2, <1>3, SubSeqProperties
  <1> HIDE DEF u
  <1>6. u \in Seq(S) /\ Len(u) = n /\ \A j \in 1..n : u[j] = s[a + j]
    BY <1>4, <1>5
  <1>7. Min2(a + n, Len(s)) = a + n
    BY <1>1 DEF Min2
  <1>8. Slice(s, a, a + n) = u
    BY <1>7 DEF Slice, u, m, z
  <1> QED
    BY <1>6, <1>8 DEF IsSlice

(* A part of a sequence is what stands there.                               *)
LEMMA PartIs ==
    ASSUME NEW S, NEW s \in Seq(S), NEW t \in Seq(S), NEW a \in Nat, NEW n \in Nat,
           Len(t) = n, a + n <= Len(s), \A j \in 1..n : s[a + j] = t[j]
    PROVE  Slice(s, a, a + n) = t
  <1> DEFINE u == Slice(s, a, a + n)
  <1>1. IsSlice(S, s, a, n)
    BY SliceIs
  <1>2. u \in Seq(S) /\ Len(u) = n /\ \A j \in 1..n : u[j] = s[a + j]
    BY <1>1 DEF IsSlice
  <1> HIDE DEF u
  <1>3. u = t
    BY <1>2, SeqEqual
  <1> QED
    BY <1>3 DEF u

(* What two sequences are one behind the other.                             *)
IsJoined(S, s, t) ==
    /\ Joined(s, t) \in Seq(S) /\ Len(Joined(s, t)) = Len(s) + Len(t)
    /\ \A j \in 1..Len(s) : Joined(s, t)[j] = s[j]
    /\ \A j \in 1..Len(t) : Joined(s, t)[Len(s) + j] = t[j]

LEMMA Behind == ASSUME NEW S, NEW s \in Seq(S), NEW t \in Seq(S) PROVE IsJoined(S, s, t)
  <1>1. /\ s \o t \in Seq(S) /\ Len(s \o t) = Len(s) + Len(t)
        /\ \A j \in 1..Len(s) : (s \o t)[j] = s[j]
        /\ \A j \in 1..Len(t) : (s \o t)[Len(s) + j] = t[j]
    BY Concatenated
  <1> DEFINE u == s \o t
  <1>2. Joined(s, t) = u
    BY DEF Joined
  <1> HIDE DEF u
  <1> QED
    BY <1>1, <1>2 DEF u, IsJoined

LEMMA PaddedOf ==
    ASSUME NEW S, NEW id \in Seq(S), NEW fill \in S
    PROVE  /\ Padded(id, fill) \in Seq(S) /\ Len(Padded(id, fill)) = 11
           /\ \A i \in 1..11 : Padded(id, fill)[i] = IF i <= Len(id) THEN id[i] ELSE fill
  <1> DEFINE p == Padded(id, fill)
  <1>1. \A i \in 1..11 : p[i] = IF i <= Len(id) THEN id[i] ELSE fill
    BY DEF Padded
  <1>2. p = [i \in 1..11 |-> p[i]]
    BY DEF Padded
  <1> HIDE DEF p
  <1>3. \A i \in 1..11 : p[i] \in S
    <2> TAKE i \in 1..11
    <2>1. Len(id) \in Nat
      BY LenProperties
    <2>2. i <= Len(id) => i \in 1..Len(id)
      BY <2>1
    <2> QED
      BY <1>1, <2>2, ElementOfSeq
  <1>4. p \in Seq(S) /\ Len(p) = 11
    BY <1>2, <1>3
  <1> QED
    BY <1>1, <1>4 DEF p

\* What is sent is a packet with this payload, byte by byte; V is the bytes
\* and whatever stands in the place of the sum.
IsReply(resp, sub, payload) ==
    LET l == Len(payload)
        V == Nat \union {resp[21 + l]}
    IN  /\ resp \in Seq(V) /\ l \in Nat /\ Len(resp) = 21 + l
        /\ \A k \in 1..(20 + l) : resp[k] \in Nat
        /\ resp[1] = 221 /\ resp[2] = 238 /\ resp[3] = 255
        /\ resp[4] = (16 + l) \div 256 /\ resp[5] = (16 + l) % 256
        /\ resp[20] = sub
        /\ \A j \in 1..l : resp[20 + j] = payload[j]

(* What _build_new makes says of its own length what is true.               *)
LEMMA PacketIs ==
    ASSUME NEW id \in Seq(Nat), NEW module \in Nat, NEW cmd \in Nat, NEW sub \in Nat,
           NEW payload \in Seq(Nat)
    PROVE  IsReply(BuildNew(id, module, cmd, sub, payload), sub, payload)
  <1>1. payload \in Seq(Nat) /\ Len(payload) \in Nat
    BY LenProperties
  <1>2. Padded(id, 255) \in Seq(Nat) /\ Len(Padded(id, 255)) = 11
    <2> DEFINE fill == 255
    <2>1. fill \in Nat
      OBVIOUS
    <2> HIDE DEF fill
    <2>2. Padded(id, fill) \in Seq(Nat) /\ Len(Padded(id, fill)) = 11
      BY <2>1, PaddedOf
    <2> QED
      BY <2>2 DEF fill
  <1>3. /\ <<255>> \in Seq(Nat) /\ Len(<<255>>) = 1
        /\ <<module, cmd, sub>> \in Seq(Nat) /\ Len(<<module, cmd, sub>>) = 3
        /\ <<module, cmd, sub>>[3] = sub
    OBVIOUS
  <1> DEFINE l    == Len(payload)
             f    == <<255>>
             pad  == Padded(id, 255)
             t    == <<module, cmd, sub>>
             x    == Joined(f, pad)
             y    == Joined(x, t)
             body == Joined(y, payload)
             size == <<(Len(body) + 1) \div 256, (Len(body) + 1) % 256>>
             h    == Joined(HEADER, size)
             z    == Joined(h, body)
             c    == Checksum(Joined(size, body))
             e    == <<c>>
             resp == BuildNew(id, module, cmd, sub, payload)
  <1>4. resp = Joined(z, e)
    BY DEF BuildNew, Joined
  <1> HIDE DEF f, pad, t, l, resp
  <1>5. l \in Nat
    BY <1>1 DEF l
  <1>6. /\ f \in Seq(Nat) /\ Len(f) = 1 /\ t \in Seq(Nat) /\ Len(t) = 3 /\ t[3] = sub
        /\ pad \in Seq(Nat) /\ Len(pad) = 11
    BY <1>3, <1>2 DEF f, t, pad
  <1>7. x \in Seq(Nat) /\ Len(x) = 12
    <2>1. Joined(f, pad) \in Seq(Nat) /\ Len(Joined(f, pad)) = 1 + 11
      <3>1. IsJoined(Nat, f, pad)
        BY <1>6, Behind
      <3> QED
        BY <1>6, <3>1 DEF IsJoined
    <2> QED
      BY <2>1
  <1> HIDE DEF x
  <1>8. y \in Seq(Nat) /\ Len(y) = 15 /\ y[15] = sub
    <2>1. /\ Joined(x, t) \in Seq(Nat) /\ Len(Joined(x, t)) = 12 + 3
          /\ \A j \in 1..3 : Joined(x, t)[12 + j] = t[j]
      <3>1. IsJoined(Nat, x, t)
        BY <1>6, <1>7, Behind
      <3> QED
        BY <1>6, <1>7, <3>1 DEF IsJoined
    <2>2. 3 \in 1..3 /\ 12 + 3 = 15
      OBVIOUS
    <2> QED
      BY <1>6, <2>1, <2>2
  <1> HIDE DEF y
  <1>9. /\ body \in Seq(Nat) /\ Len(body) = 15 + l /\ body[15] = sub
        /\ \A j \in 1..l : body[15 + j] = payload[j]
    <2>1. /\ Joined(y, payload) \in Seq(Nat) /\ Len(Joined(y, payload)) = 15 + l
          /\ \A j \in 1..15 : Joined(y, payload)[j] = y[j]
          /\ \A j \in 1..l : Joined(y, payload)[15 + j] = payload[j]
      <3>1. IsJoined(Nat, y, payload)
        BY <1>1, <1>8, Behind
      <3> QED
        BY <1>1, <1>8, <3>1 DEF IsJoined, l
    <2>2. 15 \in 1..15
      OBVIOUS
    <2> QED
      BY <1>8, <2>1, <2>2
  <1> HIDE DEF body
  <1>10. /\ size \in Seq(Nat) /\ Len(size) = 2
        /\ size[1] = (16 + l) \div 256 /\ size[2] = (16 + l) % 256
    <2> DEFINE n == Len(body) + 1
               a == n \div 256
               b == n % 256
    <2>1. n = 16 + l /\ n \in Nat
      BY <1>5, <1>9
    <2> HIDE DEF n
    <2>2. a \in Nat /\ b \in Nat
      BY <2>1, Division
    <2>3. size = <<a, b>>
      BY DEF n
    <2>4. a = (16 + l) \div 256 /\ b = (16 + l) % 256
      BY <2>1
    <2> HIDE DEF a, b, size
    <2> QED
      BY <2>2, <2>3, <2>4
  <1> HIDE DEF size
  <1>11. /\ h \in Seq(Nat) /\ Len(h) = 5
        /\ h[1] = 221 /\ h[2] = 238 /\ h[3] = 255 /\ h[4] = size[1] /\ h[5] = size[2]
    <2>1. /\ HEADER \in Seq(Nat) /\ Len(HEADER) = 3
          /\ HEADER[1] = 221 /\ HEADER[2] = 238 /\ HEADER[3] = 255
      BY DEF HEADER
    <2>2. /\ Joined(HEADER, size) \in Seq(Nat) /\ Len(Joined(HEADER, size)) = 3 + 2
          /\ \A j \in 1..3 : Joined(HEADER, size)[j] = HEADER[j]
          /\ \A j \in 1..2 : Joined(HEADER, size)[3 + j] = size[j]
      <3>1. IsJoined(Nat, HEADER, size)
        BY <1>10, <2>1, Behind
      <3> QED
        BY <1>10, <2>1, <3>1 DEF IsJoined
    <2>3. 1 \in 1..3 /\ 2 \in 1..3 /\ 3 \in 1..3 /\ 1 \in 1..2 /\ 2 \in 1..2
          /\ 3 + 1 = 4 /\ 3 + 2 = 5
      OBVIOUS
    <2> QED
      BY <2>1, <2>2, <2>3
  <1> HIDE DEF h
  <1>12. /\ z \in Seq(Nat) /\ Len(z) = 20 + l
         /\ \A j \in 1..5 : z[j] = h[j]
         /\ z[20] = sub /\ \A j \in 1..l : z[20 + j] = payload[j]
    <2>1. /\ Joined(h, body) \in Seq(Nat) /\ Len(Joined(h, body)) = 5 + (15 + l)
          /\ \A j \in 1..5 : Joined(h, body)[j] = h[j]
          /\ \A j \in 1..(15 + l) : Joined(h, body)[5 + j] = body[j]
      <3>1. IsJoined(Nat, h, body)
        BY <1>9, <1>11, Behind
      <3> QED
        BY <1>9, <1>11, <3>1 DEF IsJoined
    <2>2. 5 + (15 + l) = 20 + l /\ 15 \in 1..(15 + l) /\ 5 + 15 = 20
      BY <1>5
    <2>3. z[20] = sub
      BY <1>9, <2>1, <2>2
    <2>4. ASSUME NEW j \in 1..l PROVE z[20 + j] = payload[j]
      <3>1. 15 + j \in 1..(15 + l) /\ 5 + (15 + j) = 20 + j
        BY <1>5
      <3>2. z[5 + (15 + j)] = body[15 + j]
        BY <2>1, <3>1
      <3> HIDE DEF z
      <3> QED
        BY <1>9, <3>1, <3>2
    <2> HIDE DEF z
    <2>5. z \in Seq(Nat) /\ Len(z) = 5 + (15 + l) /\ \A j \in 1..5 : z[j] = h[j]
      BY <2>1 DEF z
    <2> QED
      BY <2>2, <2>3, <2>4, <2>5
  <1> HIDE DEF z, c
  <1> DEFINE V == Nat \union {c}
  <1>13. /\ resp \in Seq(V) /\ Len(resp) = 21 + l
         /\ \A j \in 1..(20 + l) : resp[j] = z[j]
         /\ resp[21 + l] = c
    <2>1. z \in Seq(V)
      <3>1. Nat \subseteq V
        OBVIOUS
      <3> QED
        BY <1>12, <3>1, SeqMonotonic
    <2>2. e \in Seq(V) /\ Len(e) = 1 /\ e[1] = c
      OBVIOUS
    <2> HIDE DEF V, e
    <2>3. /\ Joined(z, e) \in Seq(V) /\ Len(Joined(z, e)) = (20 + l) + 1
          /\ \A j \in 1..(20 + l) : Joined(z, e)[j] = z[j]
          /\ \A j \in 1..1 : Joined(z, e)[(20 + l) + j] = e[j]
      <3>1. IsJoined(V, z, e)
        BY <1>12, <2>1, <2>2, Behind
      <3> QED
        BY <1>12, <2>1, <2>2, <3>1 DEF IsJoined
    <2>4. (20 + l) + 1 = 21 + l /\ 1 \in 1..1
      BY <1>5
    <2> QED
      BY <1>4, <2>2, <2>3, <2>4
  <1>14. \A k \in 1..(20 + l) : resp[k] \in Nat
    BY <1>12, <1>13, ElementOfSeq
  <1>15. resp \in Seq(Nat \union {resp[21 + l]})
    BY <1>13
  <1>16. 20 \in 1..(20 + l) /\ \A j \in 1..5 : j \in 1..(20 + l)
    BY <1>5
  <1>17. \A j \in 1..l : 20 + j \in 1..(20 + l)
    BY <1>5
  <1>18. 1 \in 1..5 /\ 2 \in 1..5 /\ 3 \in 1..5 /\ 4 \in 1..5 /\ 5 \in 1..5
    OBVIOUS
  <1> HIDE DEF V
  <1>19. /\ resp[1] = 221 /\ resp[2] = 238 /\ resp[3] = 255
         /\ resp[4] = (16 + l) \div 256 /\ resp[5] = (16 + l) % 256
    <2>1. \A j \in 1..5 : resp[j] = h[j]
      BY <1>12, <1>13, <1>16
    <2>2. /\ resp[1] = h[1] /\ resp[2] = h[2] /\ resp[3] = h[3]
          /\ resp[4] = h[4] /\ resp[5] = h[5]
      BY <1>18, <2>1
    <2> QED
      BY <1>10, <1>11, <2>2
  <1>20. resp[20] = sub /\ \A j \in 1..l : resp[20 + j] = payload[j]
    BY <1>12, <1>13, <1>16, <1>17
  <1> QED
    BY <1>5, <1>13, <1>14, <1>15, <1>19, <1>20 DEF resp, l, IsReply

IsFoundAt(resp, sub, p, reply, payload) ==
    FoundFrom(resp, sub)[p] = reply /\ Payload(reply) = payload

(* An answer is found where it stands, and its payload is what was sent.    *)
LEMMA AnswerAt ==
    ASSUME NEW sub, NEW payload \in Seq(Nat), NEW reply, IsReply(reply, sub, payload),
           NEW V, Nat \subseteq V, reply \in Seq(V), NEW resp \in Seq(V), Readable(resp),
           NEW p \in Nat, Len(resp) = p + Len(reply),
           \A j \in 1..Len(reply) : resp[p + j] = reply[j]
    PROVE  IsFoundAt(resp, sub, p, reply, payload)
  <1> DEFINE l == Len(payload)
             n == 21 + l
  <1>1. /\ l \in Nat /\ Len(reply) = n
        /\ reply[1] = 221 /\ reply[2] = 238 /\ reply[3] = 255
        /\ reply[4] = (16 + l) \div 256 /\ reply[5] = (16 + l) % 256
        /\ reply[20] = sub /\ \A j \in 1..l : reply[20 + j] = payload[j]
    BY DEF IsReply
  <1>2. payload \in Seq(V) /\ Len(payload) = l
    BY SeqMonotonic
  <1>3. HEADER \in Seq(V) /\ Len(HEADER) = 3
        /\ HEADER[1] = 221 /\ HEADER[2] = 238 /\ HEADER[3] = 255
    BY DEF HEADER
  <1> HIDE DEF l
  <1>4. n \in Nat /\ n > 19 /\ 20 \in 1..n /\ n = 5 + (16 + l) /\ 20 + l <= n /\ n - 1 = 20 + l
    BY <1>1
  <1>5. Len(resp) = p + n /\ \A j \in 1..n : resp[p + j] = reply[j]
    BY <1>1
  <1> HIDE DEF n
  <1>6. 1 \in 1..n /\ 2 \in 1..n /\ 3 \in 1..n /\ 4 \in 1..n /\ 5 \in 1..n /\ p + 3 <= p + n
    BY <1>4
  <1>7. PacketEnd(resp, p) = p + n
    <2> DEFINE s == 16 + l
               q == s \div 256
               r == s % 256
    <2>1. s \in Nat
      BY <1>1
    <2>2. resp[p + 4] = q /\ resp[p + 5] = r
      BY <1>1, <1>5, <1>6
    <2>3. n = 5 + s
      BY <1>4
    <2> HIDE DEF s
    <2>4. q \in Nat /\ r \in Nat /\ s = 256 * q + r
      BY <2>1, Division
    <2> HIDE DEF q, r
    <2>5. PacketEnd(resp, p) = p + 5 + 256 * q + r
      BY <2>2 DEF PacketEnd
    <2> QED
      BY <2>1, <2>3, <2>4, <2>5
  <1>8. IsPacket(resp, p)
    <2> DEFINE m == 3
    <2>1. \A j \in 1..m : resp[p + j] = HEADER[j]
      <3> TAKE j \in 1..m
      <3>1. j = 1 \/ j = 2 \/ j = 3
        OBVIOUS
      <3>2. reply[1] = HEADER[1] /\ reply[2] = HEADER[2] /\ reply[3] = HEADER[3]
        BY <1>1, <1>3
      <3> QED
        BY <1>5, <1>6, <3>1, <3>2
    <2>2. /\ m \in Nat /\ p + m <= Len(resp)
          /\ HEADER \in Seq(V) /\ Len(HEADER) = m
          /\ \A j \in 1..m : resp[p + j] = HEADER[j]
      BY <1>3, <1>5, <1>6, <2>1
    <2> HIDE DEF m
    <2>3. Slice(resp, p, p + m) = HEADER
      BY <2>2, PartIs
    <2> QED
      BY <2>3 DEF IsPacket, m
  <1>9. Slice(resp, p, p + n) = reply
    <2>1. p + n <= Len(resp) /\ Len(reply) = n
      BY <1>1, <1>4, <1>5
    <2> QED
      BY <1>4, <1>5, <2>1, PartIs
  <1>10. FoundFrom(resp, sub)[p] = reply
    <2>1. \A i \in Nat : FoundFrom(resp, sub)[i] = FindBody(resp, sub, FoundFrom(resp, sub), i)
      BY FoundFromIs, ZenonT(30)
    <2>2. FoundFrom(resp, sub)[p] = FindBody(resp, sub, FoundFrom(resp, sub), p)
      BY <2>1, Zenon
    <2>3. ~(p >= Len(resp) - 5) /\ Within(p + n, resp) /\ Len(reply) > 19 /\ reply[20] = sub
      BY <1>1, <1>4, <1>5 DEF Within
    <2>4. IsAnswer(resp, sub, p)
      BY <1>7, <1>8, <1>9, <2>3 DEF IsAnswer
    <2> QED
      BY <1>7, <1>9, <2>2, <2>3, <2>4 DEF FindBody
  <1>11. Payload(reply) = payload
    <2> DEFINE a == 20
    <2>1. /\ a \in Nat /\ l \in Nat /\ a + l <= Len(reply)
          /\ payload \in Seq(V) /\ Len(payload) = l
          /\ \A j \in 1..l : reply[a + j] = payload[j]
      BY <1>1, <1>2, <1>4
    <2>2. Len(reply) - 1 = a + l
      BY <1>1, <1>4
    <2> HIDE DEF a
    <2>3. Slice(reply, a, a + l) = payload
      BY <2>1, PartIs
    <2> QED
      BY <2>2, <2>3 DEF Payload, a
  <1> QED
    BY <1>10, <1>11 DEF IsFoundAt

IsFound(resp, sub, payload) == FindNewPacket(resp, sub) = resp /\ Payload(resp) = payload

(* What a hub answers is found, and is what it has sent.                    *)
LEMMA AnswerIs ==
    ASSUME NEW id \in Seq(Nat), NEW module \in Nat, NEW cmd \in Nat, NEW sub \in Nat,
           NEW payload \in Seq(Nat)
    PROVE  IsFound(BuildNew(id, module, cmd, sub, payload), sub, payload)
  <1> DEFINE resp == BuildNew(id, module, cmd, sub, payload)
             l    == Len(payload)
             V    == Nat \union {resp[21 + l]}
             p    == 0
  <1>1. IsReply(resp, sub, payload)
    BY PacketIs
  <1> HIDE DEF resp
  <1>2. /\ resp \in Seq(V) /\ l \in Nat /\ Len(resp) = 21 + l
        /\ \A k \in 1..(20 + l) : resp[k] \in Nat
    BY <1>1 DEF IsReply
  <1>3. Nat \subseteq V
    OBVIOUS
  <1> HIDE DEF V, l
  <1>4. Readable(resp)
    <2>1. Len(resp) - 1 = 20 + l
      BY <1>2
    <2> QED
      BY <1>2, <2>1, Zenon DEF Readable
  <1>5. p \in Nat /\ Len(resp) = p + Len(resp) /\ \A j \in 1..Len(resp) : resp[p + j] = resp[j]
    BY <1>2
  <1> HIDE DEF p
  <1>6. IsFoundAt(resp, sub, p, resp, payload)
    BY <1>1, <1>2, <1>3, <1>4, <1>5, AnswerAt
  <1> QED
    BY <1>6 DEF IsFound, IsFoundAt, FindNewPacket, p, resp

(* The points of a schedule, and the slot each of them is sent in.          *)
IsSchedule(points) ==
    /\ IsSequence(points) /\ Len(points) \in Nat /\ DOMAIN points = 1..Len(points)
    /\ \A k \in 1..Len(points) : IsPoint(points[k])

IsSlot(slot, points, i) ==
    /\ slot \in Seq(Bytes) /\ Len(slot) = 7
    /\ i <= Len(points) =>
         /\ 60 * slot[2] + slot[3] = points[i].minute
         /\ \A c \in 1..4 : slot[3 + c] = points[i].levels[c]
    /\ ~(i <= Len(points)) => \A j \in 1..7 : slot[j] = 0

LEMMA SlotIs ==
    ASSUME NEW points, IsSchedule(points), NEW i \in Bytes, i >= 1
    PROVE  IsSlot(EncodeSlot(points, i), points, i)
  <1> DEFINE slot == EncodeSlot(points, i)
             n    == Len(points)
  <1>1. n \in Nat /\ i \in Nat
    BY ByteIs DEF IsSchedule
  <1>2. CASE i <= n
    <2> DEFINE p == points[i]
               m == p.minute
               h == m \div 60
               r == m % 60
               t == <<i, h, r>>
               w == p.levels
    <2>1. m \in 0..(24 * 60 - 1) /\ w \in Seq(Bytes) /\ Len(w) = 4
      <3>1. i \in 1..n
        BY <1>1, <1>2
      <3>2. IsPoint(p)
        BY <3>1 DEF IsSchedule
      <3> HIDE DEF p
      <3> QED
        BY <3>2 DEF IsPoint, IsLevels, DAY
    <2>2. slot = Joined(t, w)
      BY <1>2 DEF EncodeSlot, Joined
    <2> HIDE DEF slot, m, w
    <2>3. h \in Nat /\ r \in Nat /\ m = 60 * h + r /\ h <= 23 /\ r <= 59
      BY <2>1, TimeOfDay
    <2> HIDE DEF h, r
    <2>4. h \in Bytes /\ r \in Bytes
      <3>1. h < 256 /\ r < 256
        BY <2>3
      <3> QED
        BY <2>3, <3>1, IsByte
    <2>5. t \in Seq(Bytes) /\ Len(t) = 3 /\ t[2] = h /\ t[3] = r
      BY <2>4
    <2> HIDE DEF t
    <2>6. /\ Joined(t, w) \in Seq(Bytes) /\ Len(Joined(t, w)) = 3 + 4
          /\ \A j \in 1..3 : Joined(t, w)[j] = t[j]
          /\ \A j \in 1..4 : Joined(t, w)[3 + j] = w[j]
      <3>1. IsJoined(Bytes, t, w)
        BY <2>1, <2>5, Behind
      <3> QED
        BY <2>1, <2>5, <3>1 DEF IsJoined
    <2>7. 2 \in 1..3 /\ 3 \in 1..3 /\ 3 + 4 = 7
      OBVIOUS
    <2>8. slot[2] = h /\ slot[3] = r
      BY <2>2, <2>5, <2>6, <2>7
    <2>9. 60 * slot[2] + slot[3] = points[i].minute
      BY <2>3, <2>8 DEF m
    <2>10. \A c \in 1..4 : slot[3 + c] = points[i].levels[c]
      BY <2>2, <2>6 DEF w
    <2>11. slot \in Seq(Bytes) /\ Len(slot) = 7
      BY <2>2, <2>6, <2>7
    <2> QED
      BY <1>2, <2>9, <2>10, <2>11 DEF slot, IsSlot
  <1>3. CASE ~(i <= n)
    <2>1. slot = [j \in 1..7 |-> 0]
      BY <1>3 DEF EncodeSlot
    <2> HIDE DEF slot
    <2> DEFINE o == 0
    <2>2. o \in Bytes /\ slot = [j \in 1..7 |-> o]
      BY <2>1, IsByte
    <2> HIDE DEF o
    <2>3. slot \in Seq(Bytes) /\ Len(slot) = 7 /\ \A j \in 1..7 : slot[j] = o
      BY <2>2
    <2> QED
      BY <1>3, <2>3 DEF slot, o, IsSlot
  <1> QED
    BY <1>2, <1>3

\* The payload of a read: mode, manual channels, number of slots, slots.
IsListing(payload, mode, manual, points, slots) ==
    /\ payload \in Seq(Nat) /\ Len(payload) = 6 + 7 * slots
    /\ payload[1] = mode /\ payload[6] = slots
    /\ \A c \in 1..4 : payload[1 + c] = manual[c]
    /\ \A k \in 1..slots : \A j \in 1..7 : payload[SlotAt(4, k) + j] = EncodeSlot(points, k)[j]

LEMMA ListingIs ==
    ASSUME NEW mode \in Bytes, NEW manual, IsLevels(manual),
           NEW points, IsSchedule(points), NEW slots \in Bytes
    PROVE  IsListing(<<mode>> \o manual \o <<slots>>
                     \o FlattenSeq([i \in 1..slots |-> EncodeSlot(points, i)]),
                     mode, manual, points, slots)
  <1> DEFINE enc  == [i \in 1..slots |-> EncodeSlot(points, i)]
             a    == <<mode>>
             b    == <<slots>>
             u    == Joined(a, manual)
             v    == Joined(u, b)
             flat == FlattenSeq(enc)
             all  == Joined(v, flat)
  <1>1. slots \in Nat /\ slots < 256
    BY ByteIs
  <1>2. \A k \in 1..slots : enc[k] = EncodeSlot(points, k) /\ enc[k] \in Seq(Bytes)
                            /\ Len(enc[k]) = 7
    <2> TAKE k \in 1..slots
    <2>1. k \in Bytes /\ k >= 1
      <3>1. k \in Nat /\ k < 256 /\ k >= 1
        BY <1>1
      <3> QED
        BY <3>1, IsByte
    <2>2. IsSlot(EncodeSlot(points, k), points, k)
      BY <2>1, SlotIs
    <2> QED
      BY <2>2 DEF IsSlot
  <1>3. enc \in Seq(Seq(Bytes)) /\ Len(enc) = slots
    <2> DEFINE T == Seq(Bytes)
    <2>1. enc = [k \in 1..slots |-> enc[k]] /\ \A k \in 1..slots : enc[k] \in T
      BY <1>2
    <2> HIDE DEF T, enc
    <2>2. enc \in Seq(T) /\ Len(enc) = slots
      <3>1. [k \in 1..slots |-> enc[k]] \in Seq(T) /\ Len([k \in 1..slots |-> enc[k]]) = slots
        BY <1>1, <2>1, SMTT(30)
      <3> QED
        BY <2>1, <3>1, Zenon
    <2> QED
      BY <2>2 DEF T
  <1> HIDE DEF enc
  <1>4. PICK f : Joins(f, enc, slots)
    BY <1>1, <1>2, JoinsExist
  <1>5. flat = f[slots] /\ flat \in Seq(Bytes)
    <2>1. flat = f[slots]
      BY <1>1, <1>3, <1>4, FlatIs
    <2>2. slots \in 0..slots
      BY <1>1
    <2>3. f[slots] \in Seq(Bytes)
      BY <1>4, <2>2 DEF Joins
    <2> HIDE DEF flat
    <2> QED
      BY <2>1, <2>3
  <1> HIDE DEF flat
  <1>6. \A k \in 0..slots : Len(f[k]) = 7 * k
    <2> DEFINE S == {k \in 0..slots : Len(f[k]) = 7 * k}
    <2>1. 0 \in S
      BY <1>1, <1>4, EmptySeq DEF Joins
    <2>2. ASSUME NEW k \in 1..slots, k - 1 \in S PROVE k \in S
      <3>1. PartAt(f, enc, slots, k)
        BY <1>1, <1>4, PartsOfJoined
      <3>2. Len(f[k]) = Len(f[k - 1]) + Len(enc[k])
        BY <3>1 DEF PartAt
      <3>3. Len(f[k]) = 7 * (k - 1) + 7
        BY <1>2, <2>2, <3>2
      <3>4. 7 * (k - 1) + 7 = 7 * k /\ k \in 0..slots
        BY <1>1
      <3> QED
        BY <3>3, <3>4
    <2> HIDE DEF S
    <2>3. \A k \in 0..slots : k \in S
      BY <1>1, <2>1, <2>2, Reaches
    <2> QED
      BY <2>3 DEF S
  <1>7. /\ Len(flat) = 7 * slots
        /\ \A k \in 1..slots : \A j \in 1..7 : flat[7 * (k - 1) + j] = enc[k][j]
    <2>1. slots \in 0..slots
      BY <1>1
    <2>2. ASSUME NEW k \in 1..slots
          PROVE  \A j \in 1..7 : flat[7 * (k - 1) + j] = enc[k][j]
      <3>1. PartAt(f, enc, slots, k)
        BY <1>1, <1>4, PartsOfJoined
      <3>2. \A j \in 1..Len(enc[k]) : f[slots][Len(f[k - 1]) + j] = enc[k][j]
        BY <3>1 DEF PartAt
      <3>3. k - 1 \in 0..slots
        BY <1>1
      <3> QED
        BY <1>2, <1>5, <1>6, <3>2, <3>3
    <2> QED
      BY <1>5, <1>6, <2>1, <2>2
  <1>8. /\ a \in Seq(Nat) /\ Len(a) = 1 /\ a[1] = mode
        /\ b \in Seq(Nat) /\ Len(b) = 1 /\ b[1] = slots
        /\ manual \in Seq(Nat) /\ Len(manual) = 4 /\ flat \in Seq(Nat)
    <2>1. Bytes \subseteq Nat
      BY DEF Bytes
    <2>2. manual \in Seq(Nat) /\ Len(manual) = 4 /\ flat \in Seq(Nat)
      BY <1>5, <2>1, SeqMonotonic DEF IsLevels
    <2>3. mode \in Nat
      BY ByteIs
    <2> QED
      BY <1>1, <2>2, <2>3
  <1> HIDE DEF a, b
  <1>9. /\ u \in Seq(Nat) /\ Len(u) = 5 /\ u[1] = mode
        /\ \A c \in 1..4 : u[1 + c] = manual[c]
    <2>1. /\ Joined(a, manual) \in Seq(Nat) /\ Len(Joined(a, manual)) = 1 + 4
          /\ \A j \in 1..1 : Joined(a, manual)[j] = a[j]
          /\ \A j \in 1..4 : Joined(a, manual)[1 + j] = manual[j]
      <3>1. IsJoined(Nat, a, manual)
        BY <1>8, Behind
      <3> QED
        BY <1>8, <3>1 DEF IsJoined
    <2>2. 1 \in 1..1 /\ 1 + 4 = 5
      OBVIOUS
    <2> QED
      BY <1>8, <2>1, <2>2
  <1> HIDE DEF u
  <1>10. /\ v \in Seq(Nat) /\ Len(v) = 6 /\ v[1] = mode /\ v[6] = slots
         /\ \A c \in 1..4 : v[1 + c] = manual[c]
    <2>1. /\ Joined(u, b) \in Seq(Nat) /\ Len(Joined(u, b)) = 5 + 1
          /\ \A j \in 1..5 : Joined(u, b)[j] = u[j]
          /\ \A j \in 1..1 : Joined(u, b)[5 + j] = b[j]
      <3>1. IsJoined(Nat, u, b)
        BY <1>8, <1>9, Behind
      <3> QED
        BY <1>8, <1>9, <3>1 DEF IsJoined
    <2>2. 1 \in 1..1 /\ 1 \in 1..5 /\ 5 + 1 = 6 /\ \A c \in 1..4 : 1 + c \in 1..5
      OBVIOUS
    <2> QED
      BY <1>8, <1>9, <2>1, <2>2
  <1> HIDE DEF v
  <1>11. /\ all \in Seq(Nat) /\ Len(all) = 6 + 7 * slots
         /\ \A j \in 1..6 : all[j] = v[j]
         /\ \A j \in 1..(7 * slots) : all[6 + j] = flat[j]
    <2>1. IsJoined(Nat, v, flat)
      BY <1>8, <1>10, Behind
    <2> QED
      BY <1>7, <1>10, <2>1 DEF IsJoined
  <1>12. all = <<mode>> \o manual \o <<slots>> \o flat
    BY DEF all, v, u, a, b, Joined
  <1> HIDE DEF all
  <1>13. ASSUME NEW k \in 1..slots, NEW j \in 1..7
         PROVE  all[SlotAt(4, k) + j] = EncodeSlot(points, k)[j]
    <2> DEFINE m == 7 * (k - 1) + j
    <2>1. m \in 1..(7 * slots) /\ SlotAt(4, k) + j = 6 + m
      BY <1>1 DEF SlotAt
    <2>2. flat[m] = enc[k][j]
      BY <1>7
    <2> HIDE DEF m
    <2> QED
      BY <1>2, <1>11, <2>1, <2>2
  <1>14. /\ all[1] = mode /\ all[6] = slots
         /\ \A c \in 1..4 : all[1 + c] = manual[c]
    <2>1. 1 \in 1..6 /\ 6 \in 1..6 /\ \A c \in 1..4 : 1 + c \in 1..6
      OBVIOUS
    <2> QED
      BY <1>10, <1>11, <2>1
  <1> QED
    BY <1>11, <1>12, <1>13, <1>14 DEF IsListing, flat, enc

(* Each slot is read on from those before it.                               *)
LEMMA PointsReadAre ==
    ASSUME NEW payload, NEW n, NEW slots \in Nat
    PROVE  LET read == PointsRead(payload, n, slots)
           IN  /\ read[0] = << >>
               /\ \A k \in 1..slots :
                    read[k] = IF IsUsed(payload, n, k)
                              THEN Append(read[k - 1], Point(payload, n, k)) ELSE read[k - 1]
  <1> DEFINE Next(s, k) == IF IsUsed(payload, n, k) THEN Append(s, Point(payload, n, k)) ELSE s
             Is(f, m) == f = [i \in 0..m |-> IF i = 0 THEN << >> ELSE Next(f[i - 1], i)]
             S == {m \in 0..slots : \E f : Is(f, m)}
             read == PointsRead(payload, n, slots)
  <1>1. read = CHOOSE f : Is(f, slots)
    BY DEF PointsRead
  <1> HIDE DEF Next, read
  <1>2. 0 \in S
    <2> DEFINE f == [i \in 0..0 |-> << >>]
    <2>1. Is(f, 0)
      OBVIOUS
    <2> HIDE DEF f, Is
    <2>2. \E g : Is(g, 0)
      BY <2>1
    <2> QED
      BY <2>2
  <1>3. ASSUME NEW k \in 1..slots, k - 1 \in S PROVE k \in S
    <2>1. PICK f : Is(f, k - 1)
      BY <1>3
    <2> DEFINE g == [i \in 0..k |-> IF i < k THEN f[i] ELSE Next(f[k - 1], k)]
    <2>2. \A i \in 0..(k - 1) : f[i] = IF i = 0 THEN << >> ELSE Next(f[i - 1], i)
      BY <2>1
    <2>3. ASSUME NEW i \in 0..k
          PROVE  g[i] = IF i = 0 THEN << >> ELSE Next(g[i - 1], i)
      <3>1. CASE i = k
        <4>1. i # 0 /\ i - 1 \in 0..k /\ i - 1 < k /\ ~ (i < k)
          BY <3>1
        <4> QED
          BY <3>1, <4>1
      <3>2. CASE i < k
        <4>1. i \in 0..(k - 1) /\ (i # 0 => i - 1 \in 0..k /\ i - 1 < k)
          BY <3>2
        <4>2. g[i] = f[i] /\ (i # 0 => g[i - 1] = f[i - 1])
          BY <3>2, <4>1
        <4> QED
          BY <2>2, <4>1, <4>2
      <3> QED
        BY <3>1, <3>2
    <2>4. g = [i \in 0..k |-> g[i]]
      OBVIOUS
    <2> HIDE DEF g
    <2>5. Is(g, k)
      BY <2>3, <2>4
    <2> QED
      BY <2>5
  <1>4. slots \in S
    <2> HIDE DEF S
    <2>1. \A k \in 0..slots : k \in S
      BY <1>2, <1>3, Reaches
    <2> QED
      BY <2>1
  <1>5. Is(read, slots)
    <2>1. \E f : Is(f, slots)
      BY <1>4
    <2> HIDE DEF Is
    <2> QED
      BY <1>1, <2>1
  <1>6. \A i \in 0..slots : read[i] = IF i = 0 THEN << >> ELSE Next(read[i - 1], i)
    BY <1>5
  <1>7. 0 \in 0..slots /\ \A k \in 1..slots : k \in 0..slots /\ k # 0
    OBVIOUS
  <1> QED
    BY <1>6, <1>7 DEF read, Next

(* A slot is read as the point that was sent in it; an empty one is not,    *)
(* and neither is a point that looks like it.                               *)
LEMMA SlotRead ==
    ASSUME NEW mode, NEW manual, NEW points, IsSchedule(points), NEW slots \in Bytes,
           NEW payload, IsListing(payload, mode, manual, points, slots), NEW k \in 1..slots
    PROVE  /\ k <= Len(points) =>
                /\ Point(payload, 4, k) = points[k]
                /\ IsUsed(payload, 4, k) <=> points[k] \in SetPoints(points)
           /\ ~(k <= Len(points)) => ~IsUsed(payload, 4, k)
  <1> DEFINE slot   == EncodeSlot(points, k)
             a      == SlotAt(4, k)
             at     == a + 3
             n      == 4
             h      == payload[a + 2]
             r      == payload[a + 3]
             levels == Point(payload, 4, k).levels
  <1>1. slots \in Nat /\ slots < 256
    BY ByteIs
  <1>2. IsSlot(slot, points, k)
    <2>1. k \in Nat /\ k < 256 /\ k >= 1
      BY <1>1
    <2> QED
      BY <2>1, IsByte, SlotIs
  <1>3. /\ payload \in Seq(Nat) /\ Len(payload) = 6 + 7 * slots
        /\ \A j \in 1..7 : payload[a + j] = slot[j]
    BY DEF IsListing
  <1>4. a \in Nat /\ at \in Nat /\ n \in Nat /\ at + n <= Len(payload)
    <2>1. a = 6 + (k - 1) * 7
      BY DEF SlotAt
    <2> HIDE DEF a
    <2> QED
      BY <1>1, <1>3, <2>1
  <1>5. h = slot[2] /\ r = slot[3] /\ \A c \in 1..n : payload[at + c] = slot[3 + c]
    <2>1. 2 \in 1..7 /\ 3 \in 1..7
      OBVIOUS
    <2>2. ASSUME NEW c \in 1..n PROVE payload[at + c] = slot[3 + c]
      <3>1. 3 + c \in 1..7 /\ at + c = a + (3 + c)
        BY <1>4
      <3> HIDE DEF at
      <3> QED
        BY <1>3, <3>1
    <2> QED
      BY <1>3, <2>1, <2>2
  <1>6. /\ Point(payload, 4, k) = [minute |-> 60 * h + r, levels |-> Slice(payload, at, at + n)]
        /\ levels = Slice(payload, at, at + n)
    BY DEF Point
  <1>7. IsUsed(payload, 4, k) <=> ~(h = 0 /\ r = 0 /\ \A c \in DOMAIN levels : levels[c] = 0)
    BY <1>4 DEF IsUsed, EmptySlot
  <1> HIDE DEF slot, a, at, h, r, levels
  <1>8. ASSUME NEW t \in Seq(Nat), Len(t) = n, \A c \in 1..n : slot[3 + c] = t[c]
        PROVE  levels = t
    <2>1. \A c \in 1..n : payload[at + c] = t[c]
      BY <1>5, <1>8
    <2> HIDE DEF n
    <2> QED
      BY <1>3, <1>4, <1>6, <1>8, <2>1, PartIs
  <1>9. CASE k <= Len(points)
    <2> DEFINE p == points[k]
    <2>1. IsPoint(p)
      <3>1. k \in 1..Len(points)
        BY <1>9 DEF IsSchedule
      <3> QED
        BY <3>1 DEF IsSchedule
    <2>2. 60 * h + r = p.minute /\ \A c \in 1..n : slot[3 + c] = p.levels[c]
      BY <1>2, <1>5, <1>9 DEF IsSlot
    <2> HIDE DEF p
    <2>3. /\ p = [minute |-> p.minute, levels |-> p.levels]
          /\ p.levels \in Seq(Bytes) /\ Len(p.levels) = 4
      BY <2>1 DEF IsPoint, IsLevels
    <2>4. levels = p.levels
      <3>1. Bytes \subseteq Nat
        BY DEF Bytes
      <3>2. p.levels \in Seq(Nat)
        BY <2>3, <3>1, SeqMonotonic
      <3> QED
        BY <1>8, <2>2, <2>3, <3>2
    <2>5. Point(payload, 4, k) = p
      BY <1>6, <2>2, <2>3, <2>4
    <2>6. h = 0 /\ r = 0 <=> p.minute = 0
      <3>1. h \in Nat /\ r \in Nat
        <4>1. 2 \in 1..7 /\ 3 \in 1..7 /\ \A x \in Bytes : x \in Nat
          BY DEF Bytes
        <4>2. slot[2] \in Bytes /\ slot[3] \in Bytes
          <5>1. slot \in Seq(Bytes) /\ Len(slot) = 7
            BY <1>2 DEF IsSlot
          <5> QED
            BY <4>1, <5>1, ElementOfSeq
        <4> QED
          BY <1>5, <4>1, <4>2
      <3> QED
        BY <2>2, <3>1
    <2>7. IsUsed(payload, 4, k) <=> ~(p.minute = 0 /\ AllOff(p))
      BY <1>7, <2>4, <2>6 DEF AllOff
    <2>8. p \in {points[i] : i \in DOMAIN points}
      BY <1>9 DEF IsSchedule, p
    <2> QED
      BY <1>9, <2>5, <2>7, <2>8 DEF p, SetPoints
  <1>10. CASE ~(k <= Len(points))
    <2> DEFINE t == [c \in 1..4 |-> 0]
    <2>1. t \in Seq(Nat) /\ Len(t) = n /\ \A c \in 1..n : t[c] = 0
      OBVIOUS
    <2>2. \A j \in 1..7 : slot[j] = 0
      BY <1>2, <1>10 DEF IsSlot
    <2>3. DOMAIN t = 1..n
      OBVIOUS
    <2> HIDE DEF t
    <2>4. levels = t
      <3>1. \A c \in 1..n : 3 + c \in 1..7
        OBVIOUS
      <3>2. \A c \in 1..n : slot[3 + c] = t[c]
        BY <2>1, <2>2, <3>1
      <3> QED
        BY <1>8, <2>1, <3>2
    <2>5. h = 0 /\ r = 0
      <3>1. 2 \in 1..7 /\ 3 \in 1..7
        OBVIOUS
      <3> QED
        BY <1>5, <2>2, <3>1
    <2> QED
      BY <1>7, <1>10, <2>1, <2>3, <2>4, <2>5
  <1> QED
    BY <1>9, <1>10

(* The points of a schedule that are set are read as they were sent.        *)
IsRead(schedule, points) ==
    /\ schedule \in Seq(SetPoints(points))
    /\ \A p \in SetPoints(points) : \E i \in DOMAIN schedule : schedule[i] = p

LEMMA PointsAre ==
    ASSUME NEW mode, NEW manual, NEW points, IsSchedule(points),
           NEW slots \in Bytes, Len(points) <= slots,
           NEW payload, IsListing(payload, mode, manual, points, slots)
    PROVE  IsRead(Points(payload, 4), points)
  <1> DEFINE R    == SetPoints(points)
             n    == Len(points)
             read == PointsRead(payload, 4, slots)
             Is(k) == /\ read[k] \in Seq(R)
                      /\ \A j \in 1..n : j <= k /\ points[j] \in R =>
                            \E i \in 1..Len(read[k]) : read[k][i] = points[j]
             S    == {k \in 0..slots : Is(k)}
  <1>1. slots \in Nat /\ n \in Nat /\ DOMAIN points = 1..n /\ n <= slots
    BY ByteIs DEF IsSchedule
  <1>2. \A p \in R : \E j \in 1..n : p = points[j]
    BY <1>1 DEF SetPoints
  <1>3. /\ read[0] = << >>
        /\ \A k \in 1..slots : read[k] = IF IsUsed(payload, 4, k)
                                         THEN Append(read[k - 1], Point(payload, 4, k))
                                         ELSE read[k - 1]
    BY <1>1, PointsReadAre
  <1>4. \A k \in 1..slots :
           /\ k <= n => /\ Point(payload, 4, k) = points[k]
                        /\ IsUsed(payload, 4, k) <=> points[k] \in R
           /\ ~(k <= n) => ~IsUsed(payload, 4, k)
    BY SlotRead
  <1> HIDE DEF R, read, n
  <1>5. 0 \in S
    <2>1. << >> \in Seq(R)
      BY EmptySeq
    <2>2. \A j \in 1..n : ~(j <= 0)
      BY <1>1
    <2>3. Is(0)
      BY <1>3, <2>1, <2>2
    <2>4. 0 \in 0..slots
      BY <1>1
    <2> QED
      BY <2>3, <2>4
  <1>6. ASSUME NEW k \in 1..slots, k - 1 \in S PROVE k \in S
    <2> DEFINE s == read[k - 1]
               p == points[k]
    <2>1. k \in 0..slots /\ \A j \in 1..n : j <= k => j <= k - 1 \/ j = k
      BY <1>1
    <2>2. /\ s \in Seq(R)
          /\ \A j \in 1..n : j <= k - 1 /\ points[j] \in R =>
                \E i \in 1..Len(s) : s[i] = points[j]
      BY <1>6
    <2>3. CASE IsUsed(payload, 4, k)
      <3>1. read[k] = Append(s, p) /\ p \in R
        BY <1>3, <1>4, <2>3
      <3> HIDE DEF s, p
      <3>2. /\ Append(s, p) \in Seq(R) /\ Len(Append(s, p)) = Len(s) + 1
            /\ \A i \in 1..Len(s) : Append(s, p)[i] = s[i]
            /\ Append(s, p)[Len(s) + 1] = p
        BY <2>2, <3>1, AppendProperties
      <3>3. Len(s) \in Nat
        BY <2>2, LenProperties
      <3>4. ASSUME NEW j \in 1..n, j <= k, points[j] \in R
            PROVE  \E i \in 1..Len(read[k]) : read[k][i] = points[j]
        <4>1. CASE j = k
          <5>1. Len(s) + 1 \in 1..(Len(s) + 1)
            BY <3>3
          <5> QED
            BY <3>1, <3>2, <4>1, <5>1 DEF p
        <4>2. CASE j <= k - 1
          <5>1. PICK i \in 1..Len(s) : s[i] = points[j]
            BY <2>2, <3>4, <4>2
          <5>2. i \in 1..(Len(s) + 1)
            BY <3>3
          <5> QED
            BY <3>1, <3>2, <5>1, <5>2
        <4> QED
          BY <2>1, <3>4, <4>1, <4>2
      <3>5. Is(k)
        BY <3>1, <3>2, <3>4
      <3> QED
        BY <2>1, <3>5
    <2>4. CASE ~IsUsed(payload, 4, k)
      <3>1. read[k] = s /\ ~(k <= n /\ p \in R)
        BY <1>3, <1>4, <2>4
      <3>2. \A j \in 1..n : j <= k /\ points[j] \in R => j <= k - 1
        BY <2>1, <3>1
      <3> HIDE DEF s, p
      <3>3. Is(k)
        BY <2>2, <3>1, <3>2
      <3> QED
        BY <2>1, <3>3
    <2> QED
      BY <2>3, <2>4
  <1>7. Is(slots)
    <2> HIDE DEF S
    <2>1. \A k \in 0..slots : k \in S
      BY <1>1, <1>5, <1>6, Reaches
    <2>2. slots \in S
      BY <1>1, <2>1
    <2> QED
      BY <2>2 DEF S
  <1>8. \A p \in R : \E i \in DOMAIN read[slots] : read[slots][i] = p
    <2> TAKE p \in R
    <2>1. PICK j \in 1..n : p = points[j]
      BY <1>2
    <2>2. j <= slots
      BY <1>1
    <2>3. \E i \in 1..Len(read[slots]) : read[slots][i] = p
      BY <1>7, <2>1, <2>2
    <2>4. DOMAIN read[slots] = 1..Len(read[slots])
      BY <1>7, LenProperties
    <2> QED
      BY <2>3, <2>4
  <1>9. payload[4 + 2] = slots
    BY DEF IsListing
  <1> QED
    BY <1>7, <1>8, <1>9 DEF Points, read, R, IsRead

(* A device is read as it is.                                               *)
ReadAs(dev, mode, manual, points) ==
    \E schedule : /\ IsRead(schedule, points)
                  /\ dev = [mode |-> mode, manual |-> manual, schedule |-> schedule]

LEMMA DeviceRead ==
    ASSUME NEW mode \in Bytes, NEW manual, IsLevels(manual),
           NEW points, IsSchedule(points), NEW slots \in Bytes, Len(points) <= slots
    PROVE  ReadAs(ReadDevice(BuildNew(HUB, 1, 95, READ,
                               <<mode>> \o manual \o <<slots>>
                               \o FlattenSeq([i \in 1..slots |-> EncodeSlot(points, i)])), 4),
                  mode, manual, points)
  <1> DEFINE payload == <<mode>> \o manual \o <<slots>>
                        \o FlattenSeq([i \in 1..slots |-> EncodeSlot(points, i)])
  <1>1. IsListing(payload, mode, manual, points, slots)
    BY ListingIs
  <1> HIDE DEF payload
  <1> DEFINE module == 1
             cmd    == 95
             sub    == READ
             id     == HUB
             resp   == BuildNew(id, module, cmd, sub, payload)
  <1>2. /\ payload \in Seq(Nat) /\ Len(payload) = 6 + 7 * slots
        /\ payload[1] = mode /\ \A c \in 1..4 : payload[1 + c] = manual[c]
    BY <1>1 DEF IsListing
  <1>3. id \in Seq(Nat) /\ module \in Nat /\ cmd \in Nat /\ sub \in Nat
    BY DEF HUB, READ
  <1> HIDE DEF id, module, cmd, sub
  <1>4. FindNewPacket(resp, sub) = resp /\ Payload(resp) = payload
    <2>1. IsFound(resp, sub, payload)
      BY <1>2, <1>3, AnswerIs
    <2> QED
      BY <2>1 DEF IsFound
  <1> HIDE DEF resp
  <1>5. slots \in Nat
    BY ByteIs
  <1>6. Slice(payload, 1, 1 + 4) = manual
    <2> DEFINE a == 1
               n == 4
    <2>1. Bytes \subseteq Nat
      BY DEF Bytes
    <2>2. manual \in Seq(Nat) /\ Len(manual) = n
      BY <2>1, SeqMonotonic DEF IsLevels
    <2>3. a \in Nat /\ n \in Nat /\ a + n <= Len(payload)
      BY <1>2, <1>5
    <2>4. \A c \in 1..n : payload[a + c] = manual[c]
      BY <1>2
    <2> HIDE DEF a, n
    <2>5. Slice(payload, a, a + n) = manual
      BY <1>2, <2>2, <2>3, <2>4, PartIs
    <2> QED
      BY <2>5 DEF a, n
  <1>7. IsRead(Points(payload, 4), points)
    BY <1>1, PointsAre
  <1>8. ~(Len(payload) < 4 + 2)
    BY <1>2, <1>5
  <1>9. ReadDevice(resp, 4) = [mode |-> mode, manual |-> manual,
                               schedule |-> Points(payload, 4)]
    BY <1>2, <1>4, <1>6, <1>8 DEF ReadDevice, sub
  <1>10. ReadAs(ReadDevice(resp, 4), mode, manual, points)
    BY <1>7, <1>9 DEF ReadAs
  <1> QED
    BY <1>10 DEF resp, id, module, cmd, sub, payload

(* What was decoded stays what it is, and levels are those that the device  *)
(* read shows.                                                              *)
LevelsRead ==
    /\ input.of = "levels" => input \in LevelInputs
    /\ done /\ input.of = "levels" =>
         output = LET dev == ReadDevice(ReadReply, 4)
                  IN  CurrentLevels(dev.schedule, dev.mode, dev.manual, input.minute)

(* An ICV6 channel shows what the schedule in the hub gives for the minute, *)
(* or its manual level, whichever points there are and in whichever slots   *)
(* and order, but for points at midnight with every channel off, which are  *)
(* not read (_sync_read_device_all, compute_current_levels).                *)
THEOREM SchedulesFollowed == DecodingSpec => []LevelsFollowSchedule
  <1>1. DecodingInit => LevelsRead
    BY InputsAssumption DEF DecodingInit, LevelsRead
  <1>2. LevelsRead /\ [DecodingNext]_decodingVars => LevelsRead'
    <2> SUFFICES ASSUME LevelsRead, [DecodingNext]_decodingVars PROVE LevelsRead'
      OBVIOUS
    <2>1. CASE ShowsLevels
      BY <2>1 DEF ShowsLevels, Decodes, LevelsRead, ReadReply
    <2>2. ASSUME NEW kind, kind # "levels", Decodes(kind) PROVE LevelsRead'
      BY <2>2 DEF Decodes, LevelsRead
    <2>3. CASE DecodesReport \/ DecodesWrite \/ DecodesProgram \/ FindsEntry \/ FindsDevices
      <3>1. \/ Decodes("report") \/ Decodes("write") \/ Decodes("program")
            \/ Decodes("minute") \/ Decodes("search")
        BY <2>3 DEF DecodesReport, DecodesWrite, DecodesProgram, FindsEntry, FindsDevices
      <3> QED
        BY <2>2, <3>1
    <2>4. CASE UNCHANGED decodingVars
      BY <2>4 DEF decodingVars, LevelsRead, ReadReply
    <2> QED
      BY <2>1, <2>3, <2>4 DEF DecodingNext
  <1>3. LevelsRead => LevelsFollowSchedule
    <2> SUFFICES ASSUME LevelsRead, done, input.of = "levels" PROVE LevelsFollowSchedule
      BY DEF LevelsFollowSchedule
    <2> DEFINE points == input.points
               n      == Len(points)
               slots  == n + input.empty
               R      == {points[i] : i \in DOMAIN points}
    <2>1. /\ input.mode \in Bytes /\ IsLevels(input.manual)
          /\ points \in Seq(R) /\ \A k \in DOMAIN points : IsPoint(points[k])
          /\ input.empty \in Nat /\ slots \in Bytes
          /\ input.minute \in 0..(DAY - 1)
      BY InputsAssumption DEF LevelsRead, IsSequence
    <2> HIDE DEF points
    <2>2. IsSequence(points)
      BY <2>1 DEF IsSequence
    <2> HIDE DEF R
    <2>3. n \in Nat /\ DOMAIN points = 1..n
      BY <2>1, LenProperties
    <2>4. IsSchedule(points)
      BY <2>1, <2>2, <2>3 DEF IsSchedule
    <2>5. n <= slots
      BY <2>1, <2>3
    <2> DEFINE dev == ReadDevice(ReadReply, 4)
    <2>6. ReadAs(dev, input.mode, input.manual, points)
      <3> HIDE DEF slots
      <3>1. ReadReply = BuildNew(HUB, 1, 95, READ,
                                 <<input.mode>> \o input.manual \o <<slots>>
                                 \o FlattenSeq([i \in 1..slots |-> EncodeSlot(points, i)]))
        BY DEF ReadReply, slots, points
      <3> QED
        BY <2>1, <2>4, <2>5, <3>1, DeviceRead
    <2>7. PICK schedule :
            /\ IsRead(schedule, points)
            /\ dev = [mode |-> input.mode, manual |-> input.manual, schedule |-> schedule]
      BY <2>6 DEF ReadAs
    <2>8. output = CurrentLevels(schedule, input.mode, input.manual, input.minute)
      BY <2>7 DEF LevelsRead
    <2> DEFINE all == SetPoints(points)
               l   == Len(schedule)
               channels == 1..4
    <2>9. /\ schedule \in Seq(all)
          /\ \A p \in all : \E i \in DOMAIN schedule : schedule[i] = p
      BY <2>7 DEF IsRead
    <2>10. \A p \in all : p.minute \in Nat /\ p.levels \in [channels -> Nat]
      <3> TAKE p \in all
      <3> DEFINE w == p.levels
      <3>1. PICK i \in 1..n : p = points[i]
        BY <2>3 DEF SetPoints
      <3>2. IsPoint(p)
        BY <2>1, <2>3, <3>1
      <3>3. w \in Seq(Bytes) /\ Len(w) = 4 /\ p.minute \in Nat
        BY <3>2, MinutesCount DEF IsPoint, IsLevels
      <3>4. Bytes \subseteq Nat
        BY DEF Bytes
      <3> HIDE DEF w
      <3>5. w \in Seq(Nat)
        BY <3>3, <3>4, SeqMonotonic
      <3>6. w \in [1..4 -> Nat]
        BY <3>3, <3>5, LenProperties
      <3> QED
        BY <3>3, <3>6 DEF w
    <2> HIDE DEF all, channels
    <2>11. /\ l \in Nat /\ DOMAIN schedule = 1..l /\ \A i \in 1..l : schedule[i] \in all
           /\ l = 0 => schedule = << >>
      BY <2>9, LenProperties, ElementOfSeq, EmptySeq
    <2>12. IsTimetable(schedule, l) /\ \A i \in 1..l : schedule[i].levels \in [channels -> Nat]
      BY <2>10, <2>11 DEF IsTimetable
    <2>13. input.minute \in Nat
      BY <2>1, MinutesCount
    <2>14. {schedule[i] : i \in DOMAIN schedule} = all
      BY <2>9, <2>11
    <2> HIDE DEF l
    <2>15. Follows(CurrentLevels(schedule, input.mode, input.manual, input.minute),
                   {schedule[i] : i \in DOMAIN schedule},
                   input.mode, input.manual, input.minute)
      BY <2>11, <2>12, <2>13, LevelsFollow
    <2> QED
      BY <2>8, <2>14, <2>15 DEF LevelsFollowSchedule, points, all
  <1> QED
    BY <1>1, <1>2, <1>3, PTL DEF DecodingSpec
-----------------------------------------------------------------------------
(* Where a header that began is broken off, there is no header.             *)
LEMMA NotBegun ==
    ASSUME NEW V, NEW resp \in Seq(V), NEW part \in Seq(Bytes), NEW p \in Nat,
           NEW i \in 1..Len(part), NEW header \in Seq(Nat), Len(header) >= 1,
           BreaksOff(part, i, header), \A j \in 1..Len(part) : resp[p + j] = part[j],
           p + (i - 1) + Len(header) <= Len(resp)
    PROVE  Slice(resp, p + (i - 1), p + (i - 1) + Len(header)) # header
  <1> DEFINE at == p + (i - 1)
             m  == Len(header)
             n  == Len(part)
  <1>1. n \in Nat /\ m \in Nat /\ at \in Nat /\ m >= 1 /\ at + m <= Len(resp)
    BY LenProperties
  <1>2. \A j \in 1..m : i + j - 1 <= n => i + j - 1 \in 1..n /\ p + (i + j - 1) = at + j
    BY <1>1
  <1>3. 1 \in 1..m /\ at + 1 = p + i
    BY <1>1
  <1>4. \A j \in 2..m : j \in 1..m
    OBVIOUS
  <1>5. \A j \in 1..n : resp[p + j] = part[j]
    OBVIOUS
  <1>6. part[i] = header[1] => \E j \in 2..m : i + j - 1 <= n /\ part[i + j - 1] # header[j]
    BY DEF BreaksOff
  <1> HIDE DEF at, m
  <1>7. \A j \in 1..m : Slice(resp, at, at + m)[j] = resp[at + j]
    <2>1. at \in Nat /\ m \in Nat /\ at + m <= Len(resp)
      BY <1>1
    <2>2. IsSlice(V, resp, at, m)
      BY <2>1, SliceIs
    <2> QED
      BY <2>2 DEF IsSlice
  <1> SUFFICES ASSUME Slice(resp, at, at + m) = header PROVE FALSE
    BY DEF at, m
  <1>8. \A j \in 1..m : header[j] = resp[at + j]
    BY <1>7
  <1>9. i \in 1..n
    OBVIOUS
  <1> HIDE DEF n
  <1>10. part[i] = header[1]
    BY <1>3, <1>5, <1>8, <1>9
  <1>11. PICK j \in 2..m : i + j - 1 <= n /\ part[i + j - 1] # header[j]
    BY <1>6, <1>10
  <1>12. part[i + j - 1] = resp[at + j]
    BY <1>2, <1>4, <1>5, <1>11
  <1> QED
    BY <1>4, <1>8, <1>11, <1>12

(* What is before the answer is passed: stray bytes, a packet of the old    *)
(* protocol, and the answer to something else.                              *)
IsPassed(resp, sub, p, part) ==
    FoundFrom(resp, sub)[p] = FoundFrom(resp, sub)[p + Len(part)]

\* The part stands at this place in what was received, with more behind it.
IsBefore(resp, p, part) ==
    /\ Readable(resp) /\ part \in Seq(Bytes) /\ p + Len(part) < Len(resp) - 5
    /\ \A j \in 1..Len(part) : resp[p + j] = part[j]

LEMMA Found ==
    ASSUME NEW V, NEW resp \in Seq(V), Readable(resp), NEW sub, NEW p \in Nat, p < Len(resp) - 5
    PROVE  ~IsAnswer(resp, sub, p) =>
             FoundFrom(resp, sub)[p] = FoundFrom(resp, sub)[Onward(resp, p)]
  <1>1. \A i \in Nat : FoundFrom(resp, sub)[i] = FindBody(resp, sub, FoundFrom(resp, sub), i)
    BY FoundFromIs, ZenonT(30)
  <1>2. Len(resp) \in Nat
    BY LenProperties
  <1>3. ~(p >= Len(resp) - 5)
    BY <1>2
  <1>4. FoundFrom(resp, sub)[p] = FindBody(resp, sub, FoundFrom(resp, sub), p)
    BY <1>1, Zenon
  <1> QED
    BY <1>3, <1>4 DEF FindBody

LEMMA StrayPassed ==
    ASSUME NEW V, NEW resp \in Seq(V), NEW sub, NEW p \in Nat, NEW part,
           IsBefore(resp, p, part), IsStray(part)
    PROVE  IsPassed(resp, sub, p, part)
  <1> DEFINE n == Len(part)
             l == Len(resp)
             F == FoundFrom(resp, sub)
             S == {i \in 0..n : F[p + i] = F[p]}
  <1>1. /\ part \in Seq(Bytes) /\ n \in Nat /\ DOMAIN part = 1..n /\ l \in Nat
        /\ p + n < l - 5 /\ Readable(resp)
        /\ \A j \in 1..Len(part) : resp[p + j] = part[j]
    BY LenProperties DEF IsBefore
  <1>2. 0 \in S
    BY <1>1
  <1>3. ASSUME NEW i \in 1..n, i - 1 \in S PROVE i \in S
    <2> DEFINE at == p + (i - 1)
    <2>1. at \in Nat /\ at < l - 5 /\ at + 1 = p + i /\ at + 3 <= l /\ at + 4 <= l
      BY <1>1
    <2>2. /\ HEADER \in Seq(Nat) /\ Len(HEADER) = 3
          /\ OLD_HEADER \in Seq(Nat) /\ Len(OLD_HEADER) = 4
      BY DEF HEADER, OLD_HEADER
    <2>3. BreaksOff(part, i, HEADER) /\ BreaksOff(part, i, OLD_HEADER)
      BY <1>1 DEF IsStray
    <2> HIDE DEF F
    <2>4. Slice(resp, at, at + 3) # HEADER
      <3> DEFINE header == HEADER
      <3>1. header \in Seq(Nat) /\ Len(header) >= 1 /\ BreaksOff(part, i, header)
            /\ p + (i - 1) + Len(header) <= Len(resp)
        BY <2>1, <2>2, <2>3
      <3> HIDE DEF header
      <3>2. Slice(resp, p + (i - 1), p + (i - 1) + Len(header)) # header
        BY <1>1, <3>1, NotBegun
      <3> QED
        BY <2>2, <3>2 DEF header
    <2>5. Slice(resp, at, at + 4) # OLD_HEADER
      <3> DEFINE header == OLD_HEADER
      <3>1. header \in Seq(Nat) /\ Len(header) >= 1 /\ BreaksOff(part, i, header)
            /\ p + (i - 1) + Len(header) <= Len(resp)
        BY <2>1, <2>2, <2>3
      <3> HIDE DEF header
      <3>2. Slice(resp, p + (i - 1), p + (i - 1) + Len(header)) # header
        BY <1>1, <3>1, NotBegun
      <3> QED
        BY <2>2, <3>2 DEF header
    <2> HIDE DEF at
    <2>6. ~IsAnswer(resp, sub, at) /\ Onward(resp, at) = at + 1
      BY <2>4, <2>5 DEF IsAnswer, IsPacket, Onward
    <2>7. F[at] = F[at + 1]
      BY <1>1, <2>1, <2>6, Found DEF F
    <2>8. F[at] = F[p]
      BY <1>3 DEF at
    <2>9. F[p + i] = F[p]
      BY <2>1, <2>7, <2>8
    <2> QED
      BY <2>9
  <1> HIDE DEF S
  <1>4. \A i \in 0..n : i \in S
    BY <1>1, <1>2, <1>3, Reaches
  <1>5. n \in S
    BY <1>1, <1>4
  <1> QED
    BY <1>5 DEF S, IsPassed

LEMMA OldPassed ==
    ASSUME NEW V, Nat \subseteq V, NEW resp \in Seq(V), NEW sub, NEW p \in Nat, NEW part,
           IsBefore(resp, p, part), IsOldPacket(part)
    PROVE  IsPassed(resp, sub, p, part)
  <1> DEFINE n == Len(part)
             l == Len(resp)
             m == 4
             F == FoundFrom(resp, sub)
  <1>1. /\ part \in Seq(Bytes) /\ n \in Nat /\ l \in Nat
        /\ p + n < l - 5 /\ Readable(resp) /\ n >= 6
        /\ \A j \in 1..n : resp[p + j] = part[j]
        /\ Slice(part, 0, 4) = OLD_HEADER /\ n = OldEnd(part, 0)
    BY LenProperties DEF IsBefore, IsOldPacket
  <1>2. /\ OLD_HEADER \in Seq(Nat) /\ Len(OLD_HEADER) = 4 /\ OLD_HEADER[1] = 255
    BY DEF OLD_HEADER
  <1>3. OLD_HEADER \in Seq(V)
    BY <1>2, SeqMonotonic
  <1>4. 0 \in Nat /\ m \in Nat /\ 0 + m <= n /\ 0 + m = 4 /\ p + m <= l
    BY <1>1
  <1>5. \A j \in 1..m : j \in 1..n /\ 0 + j = j
    BY <1>1
  <1>6. 5 \in 1..n
    BY <1>1
  <1> HIDE DEF n, l, F, m
  <1>7. \A j \in 1..m : Slice(part, 0, 0 + m)[j] = part[0 + j]
    <2>1. IsSlice(Bytes, part, 0, m)
      BY <1>1, <1>4, SliceIs DEF n
    <2> QED
      BY <2>1 DEF IsSlice
  <1>8. \A j \in 1..m : resp[p + j] = OLD_HEADER[j]
    BY <1>1, <1>4, <1>5, <1>7
  <1>9. Slice(resp, p, p + m) = OLD_HEADER
    <2>1. Len(OLD_HEADER) = m /\ m \in Nat /\ p + m <= Len(resp)
      BY <1>2, <1>4 DEF l, m
    <2> QED
      BY <1>3, <1>8, <2>1, PartIs
  <1>10. ~IsPacket(resp, p)
    <2> DEFINE k == 3
    <2>1. k \in Nat /\ p + k <= Len(resp) /\ 1 \in 1..k /\ p + k = p + 3
      BY <1>4 DEF m, l
    <2> HIDE DEF k
    <2>2. \A j \in 1..k : Slice(resp, p, p + k)[j] = resp[p + j]
      <3>1. IsSlice(V, resp, p, k)
        BY <2>1, SliceIs
      <3> QED
        BY <3>1 DEF IsSlice
    <2>3. Slice(resp, p, p + 3)[1] = resp[p + 1]
      BY <2>1, <2>2
    <2>4. resp[p + 1] = 255
      BY <1>2, <1>8 DEF m
    <2>5. HEADER[1] = 221
      BY DEF HEADER
    <2> QED
      BY <2>3, <2>4, <2>5 DEF IsPacket
  <1>11. Onward(resp, p) = p + n
    <2>1. Onward(resp, p) = OldEnd(resp, p)
      BY <1>9, <1>10 DEF Onward, m
    <2>2. resp[p + 5] = part[5]
      BY <1>1, <1>6
    <2>3. n = 0 + 5 + part[0 + 5] + 1
      BY <1>1 DEF OldEnd
    <2>4. part[5] \in Nat
      BY <1>1, <1>6, ByteSeq DEF n
    <2>5. OldEnd(resp, p) = p + 5 + part[5] + 1
      BY <2>2 DEF OldEnd
    <2> QED
      BY <2>1, <2>3, <2>4, <2>5
  <1>12. F[p] = F[Onward(resp, p)]
    <2>1. p < Len(resp) - 5
      BY <1>1 DEF l
    <2>2. ~IsAnswer(resp, sub, p)
      BY <1>10 DEF IsAnswer
    <2> QED
      BY <1>1, <2>1, <2>2, Found DEF F
  <1> QED
    BY <1>11, <1>12 DEF IsPassed, F, n

LEMMA OtherPassed ==
    ASSUME NEW V, Nat \subseteq V, NEW resp \in Seq(V), NEW p \in Nat, NEW part,
           IsBefore(resp, p, part), IsOtherAnswer(part)
    PROVE  IsPassed(resp, SEARCH, p, part)
  <1> DEFINE n == Len(part)
             l == Len(resp)
             m == 3
             F == FoundFrom(resp, SEARCH)
  <1>1. /\ part \in Seq(Bytes) /\ n \in Nat /\ l \in Nat
        /\ p + n < l - 5 /\ Readable(resp) /\ n >= 6
        /\ \A j \in 1..n : resp[p + j] = part[j]
        /\ Slice(part, 0, 3) = HEADER /\ n = PacketEnd(part, 0)
        /\ n > 19 => part[20] # SEARCH
    BY LenProperties DEF IsBefore, IsOtherAnswer, IsPacket
  <1>2. HEADER \in Seq(Nat) /\ Len(HEADER) = 3
    BY DEF HEADER
  <1>3. HEADER \in Seq(V)
    BY <1>2, SeqMonotonic
  <1>4. 0 \in Nat /\ m \in Nat /\ 0 + m <= n /\ 0 + m = 3 /\ p + m <= l
    BY <1>1
  <1>5. \A j \in 1..m : j \in 1..n /\ 0 + j = j
    BY <1>1
  <1>6. 4 \in 1..n /\ 5 \in 1..n /\ p + n <= l /\ p < l - 5
    BY <1>1
  <1>7. part \in Seq(V)
    <2>1. Bytes \subseteq V
      BY ByteIs
    <2> QED
      BY <1>1, <2>1, SeqMonotonic
  <1> HIDE DEF n, l, F, m
  <1>8. \A j \in 1..m : Slice(part, 0, 0 + m)[j] = part[0 + j]
    <2>1. IsSlice(Bytes, part, 0, m)
      BY <1>1, <1>4, SliceIs DEF n
    <2> QED
      BY <2>1 DEF IsSlice
  <1>9. \A j \in 1..m : resp[p + j] = HEADER[j]
    BY <1>1, <1>4, <1>5, <1>8
  <1>10. IsPacket(resp, p)
    <2>1. Len(HEADER) = m /\ m \in Nat /\ p + m <= Len(resp)
      BY <1>2, <1>4 DEF l, m
    <2>2. Slice(resp, p, p + m) = HEADER
      BY <1>3, <1>9, <2>1, PartIs
    <2> QED
      BY <2>2 DEF IsPacket, m
  <1>11. PacketEnd(resp, p) = p + n
    <2> DEFINE a == part[4]
               b == part[5]
    <2>1. resp[p + 4] = a /\ resp[p + 5] = b
      BY <1>1, <1>6
    <2>2. n = 0 + 5 + 256 * a + b
      BY <1>1 DEF PacketEnd
    <2>3. a \in Nat /\ b \in Nat
      BY <1>1, <1>6, ByteSeq DEF n
    <2> HIDE DEF a, b
    <2>4. PacketEnd(resp, p) = p + 5 + 256 * a + b
      BY <2>1 DEF PacketEnd
    <2> QED
      BY <2>2, <2>3, <2>4
  <1>12. Slice(resp, p, p + n) = part
    BY <1>1, <1>6, <1>7, PartIs DEF n, l
  <1>13. ~IsAnswer(resp, SEARCH, p)
    BY <1>1, <1>11, <1>12 DEF IsAnswer, n
  <1>14. Onward(resp, p) = p + n
    BY <1>10, <1>11 DEF Onward
  <1>15. F[p] = F[Onward(resp, p)]
    BY <1>1, <1>6, <1>13, Found DEF F, l
  <1> QED
    BY <1>14, <1>15 DEF IsPassed, F, n

(* So is whatever of them was received.                                     *)
LEMMA NoisePassed ==
    ASSUME NEW V, Nat \subseteq V, NEW resp \in Seq(V), Readable(resp),
           NEW n \in Nat, NEW parts, NEW f, Joins(f, parts, n),
           \A k \in 1..n : IsNoise(parts[k]),
           Len(f[n]) < Len(resp) - 5, \A j \in 1..Len(f[n]) : resp[j] = f[n][j]
    PROVE  FoundFrom(resp, SEARCH)[0] = FoundFrom(resp, SEARCH)[Len(f[n])]
  <1> DEFINE F == FoundFrom(resp, SEARCH)
             S == {k \in 0..n : F[Len(f[k])] = F[0]}
  <1>1. 0 \in S
    BY EmptySeq DEF Joins
  <1>2. ASSUME NEW k \in 1..n, k - 1 \in S PROVE k \in S
    <2> DEFINE p == Len(f[k - 1])
               z == Len(f[n])
               m == Len(parts[k])
    <2>1. PartAt(f, parts, n, k)
      BY PartsOfJoined
    <2>2. parts[k] \in Seq(Bytes) /\ f[k - 1] \in Seq(Bytes) /\ f[n] \in Seq(Bytes)
      <3>1. k - 1 \in 0..n /\ n \in 0..n
        OBVIOUS
      <3> QED
        BY <3>1 DEF Joins
    <2>3. p \in Nat /\ m \in Nat /\ z \in Nat
      BY <2>2, LenProperties
    <2>4. Len(f[k]) = p + m /\ p + m <= z /\ \A j \in 1..m : f[n][p + j] = parts[k][j]
      BY <2>1 DEF PartAt
    <2>5. Len(resp) \in Nat /\ z < Len(resp) - 5 /\ \A j \in 1..z : resp[j] = f[n][j]
      BY LenProperties
    <2> HIDE DEF p, z
    <2>6. \A j \in 1..m : resp[p + j] = parts[k][j]
      <3> TAKE j \in 1..m
      <3>1. p + j \in 1..z
        BY <2>3, <2>4
      <3> QED
        BY <2>4, <2>5, <3>1
    <2>7. IsBefore(resp, p, parts[k])
      <3>1. p + m < Len(resp) - 5
        BY <2>3, <2>4, <2>5
      <3> QED
        BY <2>2, <2>6, <3>1 DEF IsBefore
    <2>8. IsPassed(resp, SEARCH, p, parts[k])
      <3>1. IsOldPacket(parts[k]) \/ IsOtherAnswer(parts[k]) \/ IsStray(parts[k])
        BY DEF IsNoise
      <3> QED
        BY <2>3, <2>7, <3>1, StrayPassed, OldPassed, OtherPassed, ZenonT(30)
    <2>9. F[p] = F[p + m]
      BY <2>8 DEF IsPassed
    <2>10. F[p] = F[0]
      BY <1>2 DEF p
    <2> HIDE DEF F, m
    <2>11. F[Len(f[k])] = F[0]
      BY <2>4, <2>9, <2>10
    <2> QED
      BY <2>11
  <1> HIDE DEF S
  <1>3. \A k \in 0..n : k \in S
    BY <1>1, <1>2, Reaches
  <1>4. n \in S
    BY <1>3
  <1> QED
    BY <1>4 DEF S

\* An answer is found, whatever is passed before it.
IsFoundBehind(noise, reply, sub, payload) ==
    FindNewPacket(Joined(FlattenSeq(noise), reply), sub) = reply /\ Payload(reply) = payload

(* The answer to a search is found, whatever was received before it.        *)
LEMMA AnswerBehind ==
    ASSUME NEW id \in Seq(Nat), NEW module \in Nat, NEW cmd \in Nat, NEW payload \in Seq(Nat),
           NEW noise, IsSequence(noise), \A k \in DOMAIN noise : IsNoise(noise[k])
    PROVE  IsFoundBehind(noise, BuildNew(id, module, cmd, SEARCH, payload), SEARCH, payload)
  <1> DEFINE sub   == SEARCH
             reply == BuildNew(id, module, cmd, sub, payload)
             l     == Len(payload)
             V     == Nat \union {reply[21 + l]}
             R     == {noise[i] : i \in DOMAIN noise}
             n     == Len(noise)
             flat  == FlattenSeq(noise)
             resp  == Joined(flat, reply)
  <1>1. sub \in Nat
    BY DEF SEARCH
  <1> HIDE DEF sub
  <1>2. IsReply(reply, sub, payload)
    BY <1>1, PacketIs
  <1> HIDE DEF reply
  <1>3. reply \in Seq(V) /\ l \in Nat /\ Len(reply) = 21 + l
        /\ \A k \in 1..(20 + l) : reply[k] \in Nat
    BY <1>2 DEF IsReply
  <1>4. Nat \subseteq V
    OBVIOUS
  <1> HIDE DEF V, l
  <1>5. noise \in Seq(R) /\ \A r \in R : r \in Seq(Bytes)
    BY DEF IsSequence, IsNoise
  <1> HIDE DEF R
  <1>6. /\ n \in Nat /\ DOMAIN noise = 1..n /\ noise \in Seq(Seq(Bytes))
        /\ \A k \in 1..n : noise[k] \in Seq(Bytes) /\ IsNoise(noise[k])
    <2>1. n \in Nat /\ DOMAIN noise = 1..n
      BY <1>5, LenProperties
    <2>2. R \subseteq Seq(Bytes)
      BY <1>5
    <2>3. noise \in Seq(Seq(Bytes))
      BY <1>5, <2>2, SeqMonotonic
    <2> QED
      BY <2>1, <2>3 DEF IsNoise
  <1> HIDE DEF n
  <1>7. PICK f : Joins(f, noise, n)
    BY <1>6, JoinsExist
  <1>8. flat = f[n]
    BY <1>6, <1>7, FlatIs DEF n
  <1> HIDE DEF flat
  <1> DEFINE p == Len(flat)
  <1>9. flat \in Seq(Bytes) /\ p \in Nat /\ \A j \in 1..p : flat[j] \in Nat
    <2>1. flat \in Seq(Bytes)
      <3>1. n \in 0..n
        BY <1>6
      <3> QED
        BY <1>7, <1>8, <3>1 DEF Joins
    <2> QED
      BY <2>1, LenProperties, ByteSeq
  <1>10. /\ resp \in Seq(V) /\ Len(resp) = p + Len(reply)
         /\ \A j \in 1..p : resp[j] = flat[j]
         /\ \A j \in 1..Len(reply) : resp[p + j] = reply[j]
    <2>1. Bytes \subseteq V
      BY <1>4, ByteIs
    <2>2. flat \in Seq(V)
      BY <1>9, <2>1, SeqMonotonic
    <2>3. IsJoined(V, flat, reply)
      BY <1>3, <2>2, Behind
    <2> QED
      BY <2>3 DEF IsJoined
  <1> HIDE DEF resp, p
  <1>11. Readable(resp)
    <2> SUFFICES ASSUME NEW k \in 1..(Len(resp) - 1) PROVE resp[k] \in Nat
      BY DEF Readable
    <2>1. CASE k <= p
      <3>1. k \in 1..p
        BY <1>9, <2>1
      <3> QED
        BY <1>9, <1>10, <3>1
    <2>2. CASE ~(k <= p)
      <3> DEFINE j == k - p
      <3>1. j \in 1..(20 + l) /\ j \in 1..Len(reply) /\ p + j = k
        BY <1>3, <1>9, <1>10, <2>2
      <3> HIDE DEF j
      <3>2. resp[p + j] = reply[j] /\ reply[j] \in Nat
        BY <1>3, <1>10, <3>1
      <3> QED
        BY <3>1, <3>2
    <2> QED
      BY <2>1, <2>2
  <1>12. FoundFrom(resp, sub)[0] = FoundFrom(resp, sub)[p]
    <2>1. p < Len(resp) - 5
      BY <1>3, <1>9, <1>10
    <2>2. Len(f[n]) = p
      BY <1>8 DEF p
    <2>3. /\ n \in Nat /\ Joins(f, noise, n) /\ \A k \in 1..n : IsNoise(noise[k])
          /\ Nat \subseteq V /\ resp \in Seq(V) /\ Readable(resp)
          /\ Len(f[n]) < Len(resp) - 5 /\ \A j \in 1..Len(f[n]) : resp[j] = f[n][j]
      BY <1>4, <1>6, <1>7, <1>8, <1>10, <1>11, <2>1, <2>2
    <2>4. FoundFrom(resp, SEARCH)[0] = FoundFrom(resp, SEARCH)[Len(f[n])]
      BY <2>3, NoisePassed
    <2> QED
      BY <2>2, <2>4 DEF sub
  <1>13. FoundFrom(resp, sub)[p] = reply /\ Payload(reply) = payload
    <2>1. /\ IsReply(reply, sub, payload) /\ Nat \subseteq V /\ reply \in Seq(V)
          /\ resp \in Seq(V) /\ Readable(resp) /\ p \in Nat
          /\ Len(resp) = p + Len(reply) /\ \A j \in 1..Len(reply) : resp[p + j] = reply[j]
      BY <1>2, <1>3, <1>4, <1>9, <1>10, <1>11
    <2>2. IsFoundAt(resp, sub, p, reply, payload)
      BY <2>1, AnswerAt
    <2> QED
      BY <2>2 DEF IsFoundAt
  <1> QED
    BY <1>12, <1>13 DEF IsFoundBehind, FindNewPacket, resp, flat, reply, sub

(* An id is stripped of what it was padded with.                            *)
LEMMA StrippedIs ==
    ASSUME NEW id \in Seq(Bytes), Len(id) <= 11, id # << >> => id[Len(id)] \notin Filler
    PROVE  Stripped(Padded(id, 32)) = id
  <1> DEFINE n    == Len(id)
             fill == 32
             b    == Padded(id, fill)
             I    == {i \in 1..Len(b) : b[i] \notin Filler}
             z    == SelectLastInSeq(b, LAMBDA x : x \notin Filler)
  <1>1. n \in Nat /\ n <= 11 /\ 0 \in Nat /\ 0 + n = n
    BY LenProperties
  <1>2. fill \in Bytes /\ fill \in Filler
    BY IsByte DEF Filler
  <1> HIDE DEF fill
  <1>3. /\ b \in Seq(Bytes) /\ Len(b) = 11
        /\ \A i \in 1..11 : b[i] = IF i <= n THEN id[i] ELSE fill
    BY <1>2, PaddedOf
  <1>4. z = IF I # {} THEN Max(I) ELSE 0
    BY DEF SelectLastInSeq
  <1> HIDE DEF b, z
  <1>5. I \in SUBSET (1..11) /\ \A i \in I : i <= n
    BY <1>1, <1>2, <1>3
  <1>6. z = n
    <2>1. CASE n = 0
      <3>1. I = {}
        BY <1>5, <2>1
      <3> QED
        BY <1>4, <2>1, <3>1
    <2>2. CASE n # 0
      <3>1. n \in 1..11 /\ n <= n
        <4> HIDE DEF n
        <4> QED
          BY <1>1, <2>2
      <3>2. id # << >>
        BY <2>2, EmptySeq
      <3>3. n \in I
        BY <1>3, <3>1, <3>2
      <3> DEFINE m == 11
      <3>4. m \in Nat /\ I \in SUBSET (1..m) /\ I # {}
        BY <1>5, <3>3
      <3> HIDE DEF I, m
      <3>5. Max(I) \in I /\ \A j \in I : j <= Max(I)
        BY <3>4, HasLast
      <3>6. Max(I) <= n /\ n <= Max(I) /\ Max(I) \in 1..11
        BY <1>5, <3>3, <3>5
      <3>7. Max(I) = n
        BY <1>1, <3>6
      <3> QED
        BY <1>4, <3>4, <3>7
    <2> QED
      BY <2>1, <2>2
  <1>7. Slice(b, 0, 0 + n) = id
    <2>1. \A j \in 1..n : b[0 + j] = id[j]
      <3> TAKE j \in 1..n
      <3>1. j \in 1..11 /\ j <= n /\ 0 + j = j
        BY <1>1
      <3> QED
        BY <1>3, <3>1
    <2>2. 0 + n <= Len(b)
      BY <1>1, <1>3
    <2> QED
      BY <1>1, <1>3, <2>1, <2>2, PartIs
  <1>8. Slice(b, 0, 0 + n) = SubSeq(b, 1, n)
    <2>1. 0 + 1 = 1 /\ Min2(0 + n, Len(b)) = n
      BY <1>1, <1>3 DEF Min2
    <2> QED
      BY <2>1 DEF Slice
  <1>9. Stripped(b) = SubSeq(b, 1, z)
    BY DEF Stripped, z
  <1> QED
    BY <1>6, <1>7, <1>8, <1>9 DEF b, fill

\* A device as the hub lists it, byte by byte.
IsEncoded(enc, dev, zeros) ==
    /\ enc \in Seq(Bytes) /\ Len(enc) = 19 + zeros /\ enc[1] = dev.code
    /\ \A j \in 1..11 : enc[2 + j] = Padded(dev.id, 32)[j]
    /\ enc[14] = dev.mode /\ enc[16] = dev.group_num
    /\ enc[19] = (IF dev.is_on THEN 1 ELSE 0)
    /\ \A j \in 1..zeros : enc[19 + j] = 0

LEMMA EncodedIs ==
    ASSUME NEW dev, IsDevice(dev), NEW zeros \in Nat
    PROVE  IsEncoded(EncodeDevice(dev, zeros), dev, zeros)
  <1> DEFINE a    == <<dev.code, 66>>
             fill == 32
             pad  == Padded(dev.id, fill)
             on   == IF dev.is_on THEN 1 ELSE 0
             t    == <<dev.mode, 4, dev.group_num, 0, 0, on>>
             tail == [i \in 1..zeros |-> 0]
             u    == Joined(a, pad)
             v    == Joined(u, t)
             enc  == Joined(v, tail)
  <1>1. 0 \in Bytes /\ 1 \in Bytes /\ 4 \in Bytes /\ fill \in Bytes /\ 66 \in Bytes
    BY IsByte
  <1> HIDE DEF fill
  <1>2. a \in Seq(Bytes) /\ Len(a) = 2 /\ a[1] = dev.code
    <2>1. dev.code \in Bytes
      BY DEF IsDevice
    <2> QED
      BY <1>1, <2>1
  <1>3. pad \in Seq(Bytes) /\ Len(pad) = 11
    <2> DEFINE id == dev.id
    <2>1. id \in Seq(Bytes)
      BY DEF IsDevice
    <2> HIDE DEF id
    <2>2. Padded(id, fill) \in Seq(Bytes) /\ Len(Padded(id, fill)) = 11
      BY <1>1, <2>1, PaddedOf
    <2> QED
      BY <2>2 DEF id
  <1>4. /\ t \in Seq(Bytes) /\ Len(t) = 6 /\ t[1] = dev.mode /\ t[3] = dev.group_num
        /\ t[6] = on
    <2>1. dev.mode \in Bytes /\ dev.group_num \in Bytes /\ on \in Bytes
      BY <1>1 DEF IsDevice
    <2> HIDE DEF on
    <2> QED
      BY <1>1, <2>1
  <1>5. tail \in Seq(Bytes) /\ Len(tail) = zeros /\ \A j \in 1..zeros : tail[j] = 0
    <2> DEFINE o == 0
    <2>1. o \in Bytes /\ tail = [i \in 1..zeros |-> o]
      BY <1>1
    <2> HIDE DEF o, tail
    <2>2. tail \in Seq(Bytes) /\ Len(tail) = zeros /\ \A j \in 1..zeros : tail[j] = o
      BY <2>1
    <2> QED
      BY <2>2 DEF o
  <1>6. EncodeDevice(dev, zeros) = enc
    BY DEF EncodeDevice, Joined, fill
  <1> HIDE DEF a, pad, t, tail, on
  <1>7. /\ u \in Seq(Bytes) /\ Len(u) = 13 /\ u[1] = dev.code
        /\ \A j \in 1..11 : u[2 + j] = pad[j]
    <2>1. /\ u \in Seq(Bytes) /\ Len(u) = 2 + 11
          /\ \A j \in 1..2 : u[j] = a[j]
          /\ \A j \in 1..11 : u[2 + j] = pad[j]
      <3>1. IsJoined(Bytes, a, pad)
        BY <1>2, <1>3, Behind
      <3> QED
        BY <1>2, <1>3, <3>1 DEF IsJoined
    <2>2. 1 \in 1..2 /\ 2 + 11 = 13
      OBVIOUS
    <2> HIDE DEF u
    <2> QED
      BY <1>2, <2>1, <2>2
  <1> HIDE DEF u
  <1>8. /\ v \in Seq(Bytes) /\ Len(v) = 19 /\ v[1] = dev.code
        /\ \A j \in 1..11 : v[2 + j] = pad[j]
        /\ v[14] = dev.mode /\ v[16] = dev.group_num /\ v[19] = on
    <2>1. /\ v \in Seq(Bytes) /\ Len(v) = 13 + 6
          /\ \A j \in 1..13 : v[j] = u[j]
          /\ \A j \in 1..6 : v[13 + j] = t[j]
      <3>1. IsJoined(Bytes, u, t)
        BY <1>4, <1>7, Behind
      <3> QED
        BY <1>4, <1>7, <3>1 DEF IsJoined
    <2>2. /\ 1 \in 1..13 /\ \A j \in 1..11 : 2 + j \in 1..13
          /\ 1 \in 1..6 /\ 3 \in 1..6 /\ 6 \in 1..6
          /\ 13 + 1 = 14 /\ 13 + 3 = 16 /\ 13 + 6 = 19
      OBVIOUS
    <2> HIDE DEF v
    <2>3. v[14] = t[1] /\ v[16] = t[3] /\ v[19] = t[6]
      BY <2>1, <2>2
    <2>4. v[1] = u[1] /\ \A j \in 1..11 : v[2 + j] = u[2 + j]
      BY <2>1, <2>2
    <2> QED
      BY <1>4, <1>7, <2>1, <2>2, <2>3, <2>4
  <1> HIDE DEF v
  <1>9. /\ enc \in Seq(Bytes) /\ Len(enc) = 19 + zeros
        /\ \A j \in 1..19 : enc[j] = v[j]
        /\ \A j \in 1..zeros : enc[19 + j] = 0
    <2>1. IsJoined(Bytes, v, tail)
      BY <1>5, <1>8, Behind
    <2> QED
      BY <1>5, <1>8, <2>1 DEF IsJoined
  <1>10. /\ 1 \in 1..19 /\ 14 \in 1..19 /\ 16 \in 1..19 /\ 19 \in 1..19
         /\ \A j \in 1..11 : 2 + j \in 1..19
    OBVIOUS
  <1> HIDE DEF enc
  <1>11. /\ enc[1] = dev.code /\ \A j \in 1..11 : enc[2 + j] = pad[j]
         /\ enc[14] = dev.mode /\ enc[16] = dev.group_num /\ enc[19] = on
    BY <1>8, <1>9, <1>10
  <1> QED
    BY <1>6, <1>9, <1>11 DEF IsEncoded, pad, fill, on

\* The payload of a search: area, number of devices, and the devices, of
\* which at[k] bytes are what comes before device k + 1.
IsDirectory(payload, area, devices, zeros, n, at) ==
    /\ payload \in Seq(Nat) /\ payload[1] = area /\ payload[2] = n
    /\ at[0] = 2 /\ at[n] = Len(payload)
    /\ \A k \in 0..n : at[k] \in Nat
    /\ \A k \in 1..n :
         /\ at[k] = at[k - 1] + (19 + zeros) /\ at[k] <= Len(payload)
         /\ \A j \in 1..(19 + zeros) :
              payload[at[k - 1] + j] = EncodeDevice(devices[k], zeros)[j]

LEMMA DirectoryIs ==
    ASSUME NEW area \in Bytes, NEW zeros \in Nat, NEW n \in Bytes,
           NEW devices, DOMAIN devices = 1..n, \A k \in 1..n : IsDevice(devices[k])
    PROVE  \E at : IsDirectory(<<area, n>> \o FlattenSeq([i \in DOMAIN devices |->
                                                          EncodeDevice(devices[i], zeros)]),
                               area, devices, zeros, n, at)
  <1> DEFINE enc  == [i \in DOMAIN devices |-> EncodeDevice(devices[i], zeros)]
             a    == <<area, n>>
             flat == FlattenSeq(enc)
             all  == Joined(a, flat)
             w    == 19 + zeros
  <1>1. n \in Nat /\ w \in Nat
    BY ByteIs
  <1>2. \A k \in 1..n : /\ enc[k] = EncodeDevice(devices[k], zeros)
                        /\ enc[k] \in Seq(Bytes) /\ Len(enc[k]) = w
    <2> TAKE k \in 1..n
    <2>1. IsEncoded(EncodeDevice(devices[k], zeros), devices[k], zeros)
      BY EncodedIs
    <2> QED
      BY <2>1 DEF IsEncoded
  <1>3. enc \in Seq(Seq(Bytes)) /\ Len(enc) = n
    <2> DEFINE T == Seq(Bytes)
    <2>1. enc = [k \in 1..n |-> enc[k]] /\ \A k \in 1..n : enc[k] \in T
      BY <1>2
    <2> HIDE DEF T, enc
    <2>2. enc \in Seq(T) /\ Len(enc) = n
      <3>1. [k \in 1..n |-> enc[k]] \in Seq(T) /\ Len([k \in 1..n |-> enc[k]]) = n
        BY <1>1, <2>1, SMTT(30)
      <3> QED
        BY <2>1, <3>1, Zenon
    <2> QED
      BY <2>2 DEF T
  <1> HIDE DEF enc, w
  <1>4. PICK f : Joins(f, enc, n)
    BY <1>1, <1>2, JoinsExist
  <1>5. \A k \in 0..n : f[k] \in Seq(Bytes) /\ Len(f[k]) \in Nat
    BY <1>4, LenProperties DEF Joins
  <1>6. flat = f[n]
    BY <1>1, <1>3, <1>4, FlatIs
  <1> HIDE DEF flat
  <1> DEFINE l  == Len(flat)
             at == [k \in 0..n |-> 2 + Len(f[k])]
  <1>7. flat \in Seq(Nat) /\ l \in Nat /\ l = Len(f[n])
    <2>1. n \in 0..n
      BY <1>1
    <2>2. Bytes \subseteq Nat
      BY DEF Bytes
    <2>3. flat \in Seq(Bytes)
      BY <1>5, <1>6, <2>1
    <2> QED
      BY <1>6, <2>2, <2>3, SeqMonotonic, LenProperties
  <1>8. a \in Seq(Nat) /\ Len(a) = 2 /\ a[1] = area /\ a[2] = n
    <2>1. area \in Nat
      BY ByteIs
    <2> QED
      BY <1>1, <2>1
  <1> HIDE DEF a, l
  <1>9. /\ all \in Seq(Nat) /\ Len(all) = 2 + l
        /\ \A j \in 1..2 : all[j] = a[j]
        /\ \A j \in 1..l : all[2 + j] = flat[j]
    <2>1. IsJoined(Nat, a, flat)
      BY <1>7, <1>8, Behind
    <2> QED
      BY <1>8, <2>1 DEF IsJoined, l
  <1>10. all = <<area, n>> \o flat
    BY DEF all, Joined, a
  <1> HIDE DEF all
  <1>11. all[1] = area /\ all[2] = n
    BY <1>8, <1>9
  <1>12. /\ \A k \in 0..n : at[k] = 2 + Len(f[k]) /\ at[k] \in Nat
         /\ at[0] = 2 /\ at[n] = Len(all)
    <2>1. 0 \in 0..n /\ n \in 0..n
      BY <1>1
    <2>2. \A k \in 0..n : at[k] = 2 + Len(f[k])
      OBVIOUS
    <2>3. Len(f[0]) = 0
      BY <1>4, EmptySeq DEF Joins
    <2> HIDE DEF at
    <2>4. at[0] = 2
      BY <2>1, <2>2, <2>3
    <2>5. at[n] = Len(all)
      BY <1>7, <1>9, <2>1, <2>2
    <2>6. \A k \in 0..n : at[k] \in Nat
      BY <1>5, <2>2
    <2> QED
      BY <2>2, <2>4, <2>5, <2>6
  <1> HIDE DEF at
  <1>13. ASSUME NEW k \in 1..n
         PROVE  /\ at[k] = at[k - 1] + w /\ at[k] <= Len(all)
                /\ \A j \in 1..w : all[at[k - 1] + j] = EncodeDevice(devices[k], zeros)[j]
    <2> DEFINE p == Len(f[k - 1])
    <2>1. k \in 0..n /\ k - 1 \in 0..n
      BY <1>1
    <2>2. PartAt(f, enc, n, k)
      BY <1>1, <1>4, PartsOfJoined
    <2>3. Len(f[k]) = p + w /\ p + w <= l /\ \A j \in 1..w : f[n][p + j] = enc[k][j]
      BY <1>2, <1>7, <2>2 DEF PartAt
    <2>4. p \in Nat /\ at[k - 1] = 2 + p /\ at[k] = 2 + (p + w)
      BY <1>5, <1>12, <2>1, <2>3
    <2> HIDE DEF p
    <2>5. ASSUME NEW j \in 1..w
          PROVE  all[at[k - 1] + j] = EncodeDevice(devices[k], zeros)[j]
      <3>1. p + j \in 1..l /\ at[k - 1] + j = 2 + (p + j)
        BY <1>1, <1>7, <2>3, <2>4
      <3>2. all[2 + (p + j)] = flat[p + j]
        BY <1>9, <3>1
      <3>3. flat[p + j] = enc[k][j]
        BY <1>6, <2>3
      <3> QED
        BY <1>2, <3>1, <3>2, <3>3
    <2>6. at[k] = at[k - 1] + w /\ at[k] <= Len(all)
      BY <1>1, <1>7, <1>9, <2>3, <2>4
    <2> QED
      BY <2>5, <2>6
  <1>14. IsDirectory(all, area, devices, zeros, n, at)
    BY <1>9, <1>11, <1>12, <1>13 DEF IsDirectory, w
  <1> QED
    BY <1>10, <1>14 DEF flat, enc

(* Behind a device are zeros, up to the next one, if its type code is none, *)
(* or to the end.                                                           *)
LEMMA ZerosPassed ==
    ASSUME NEW area, NEW devices, NEW zeros \in Nat, NEW n \in Nat, NEW at, NEW payload,
           IsDirectory(payload, area, devices, zeros, n, at),
           \A k \in 1..n : IsDevice(devices[k]), NEW k \in 1..n,
           k # n => devices[k + 1].code # 0
    PROVE  PastZeros(payload, at[k - 1] + 19) = at[k]
  <1> DEFINE l == Len(payload)
             p == at[k - 1]
             z == at[k]
             s == p + 19
             I == {i \in (s + 1)..l : payload[i] # 0}
             next == z + 1
  <1>1. /\ k \in 0..n /\ k - 1 \in 0..n
        /\ k = n \/ (k + 1 \in 1..n /\ (k + 1) - 1 = k)
    OBVIOUS
  <1>2. /\ p \in Nat /\ z \in Nat /\ z = p + (19 + zeros) /\ z <= l /\ l \in Nat
        /\ k = n => z = l
        /\ \A j \in 1..(19 + zeros) : payload[p + j] = EncodeDevice(devices[k], zeros)[j]
    <2>1. l \in Nat
      BY LenProperties DEF IsDirectory
    <2> QED
      BY <1>1, <2>1 DEF IsDirectory
  <1>3. IsEncoded(EncodeDevice(devices[k], zeros), devices[k], zeros)
    BY EncodedIs
  <1>4. k # n => z + (19 + zeros) <= l /\ payload[next] # 0
    <2> HAVE k # n
    <2> DEFINE m == k + 1
               w == 19 + zeros
    <2>1. m \in 1..n /\ m - 1 = k /\ devices[m].code # 0
      BY <1>1
    <2> HIDE DEF m
    <2>2. IsEncoded(EncodeDevice(devices[m], zeros), devices[m], zeros)
      BY <2>1, EncodedIs
    <2>3. \A i \in 1..n :
            /\ at[i] = at[i - 1] + w /\ at[i] <= Len(payload)
            /\ \A j \in 1..w : payload[at[i - 1] + j] = EncodeDevice(devices[i], zeros)[j]
      BY DEF IsDirectory
    <2>4. 1 \in 1..w
      OBVIOUS
    <2> HIDE DEF w
    <2>5. at[m] = z + w /\ at[m] <= l /\ payload[z + 1] = EncodeDevice(devices[m], zeros)[1]
      BY <2>1, <2>3, <2>4 DEF z, l
    <2>6. EncodeDevice(devices[m], zeros)[1] # 0
      BY <2>1, <2>2 DEF IsEncoded
    <2> QED
      BY <2>5, <2>6 DEF w
  <1> HIDE DEF p, z, l
  <1>5. \A i \in (s + 1)..z : payload[i] = 0
    <2> TAKE i \in (s + 1)..z
    <2> DEFINE j == i - s
    <2>1. j \in 1..zeros /\ 19 + j \in 1..(19 + zeros) /\ p + (19 + j) = i
      BY <1>2
    <2> HIDE DEF j
    <2>2. payload[i] = EncodeDevice(devices[k], zeros)[19 + j]
      BY <1>2, <2>1
    <2> QED
      BY <1>3, <2>1, <2>2 DEF IsEncoded
  <1>6. \A i \in I : i \in Nat /\ i > z
    <2> TAKE i \in I
    <2>1. i \in (s + 1)..l /\ i \notin (s + 1)..z
      BY <1>5
    <2> QED
      BY <1>2, <2>1
  <1>7. PastZeros(payload, s) = IF I = {} THEN l ELSE Min(I) - 1
    BY DEF PastZeros, l
  <1>8. CASE k = n
    <2>1. I = {}
      <3> SUFFICES ASSUME NEW i \in I PROVE FALSE
        OBVIOUS
      <3>1. i \in Nat /\ i > z /\ i <= l
        BY <1>2, <1>6
      <3> QED
        BY <1>2, <1>8, <3>1
    <2> QED
      BY <1>2, <1>7, <1>8, <2>1 DEF p, z
  <1>9. CASE k # n
    <2>1. next \in I
      <3>1. next \in (s + 1)..l
        BY <1>2, <1>4, <1>9
      <3>2. payload[next] # 0
        BY <1>4, <1>9
      <3> QED
        BY <3>1, <3>2
    <2>2. \A i \in I : next <= i
      BY <1>2, <1>6
    <2> HIDE DEF I, next
    <2>3. \E x \in I : \A y \in I : x <= y
      BY <2>1, <2>2
    <2>4. Min(I) \in I /\ \A y \in I : Min(I) <= y
      BY <2>3 DEF Min
    <2>5. Min(I) <= next /\ next <= Min(I) /\ Min(I) \in Nat /\ next \in Nat
      BY <1>2, <1>6, <2>1, <2>2, <2>4 DEF next
    <2>6. Min(I) = next
      BY <2>5
    <2>7. next - 1 = z
      BY <1>2 DEF next
    <2> QED
      BY <1>7, <2>1, <2>6, <2>7 DEF p, z
  <1> QED
    BY <1>8, <1>9

(* A device is read as the hub lists it.                                    *)
IsReadNext(payload, area, devices, zeros, n, at, k, found) ==
    NextDevice(payload, area, found)
      = [devices |-> Append(found.devices, AsListed(devices[k], area)),
         at      |-> PastZeros(payload, at[k - 1] + 19)]

LEMMA DeviceThere ==
    ASSUME NEW area, NEW devices, NEW zeros \in Nat, NEW n \in Nat, NEW at, NEW payload,
           IsDirectory(payload, area, devices, zeros, n, at),
           \A k \in 1..n : IsDevice(devices[k]), NEW k \in 1..n,
           NEW found, found.at = at[k - 1]
    PROVE  IsReadNext(payload, area, devices, zeros, n, at, k, found)
  <1> DEFINE l   == Len(payload)
             p   == at[k - 1]
             dev == devices[k]
             enc == EncodeDevice(dev, zeros)
             pad == Padded(dev.id, 32)
             q   == p + 13
             a   == p + 2
             m   == 11
  <1>1. k \in 0..n /\ k - 1 \in 0..n
    OBVIOUS
  <1>2. /\ payload \in Seq(Nat) /\ p \in Nat /\ l \in Nat /\ p + (19 + zeros) <= l
        /\ \A j \in 1..(19 + zeros) : payload[p + j] = enc[j]
    <2>1. payload \in Seq(Nat) /\ l \in Nat
      BY LenProperties DEF IsDirectory
    <2> QED
      BY <1>1, <2>1 DEF IsDirectory
  <1>3. IsDevice(dev) /\ IsEncoded(enc, dev, zeros)
    BY EncodedIs
  <1>5. found.at = p
    OBVIOUS
  <1> HIDE DEF l, p, dev, enc, pad
  <1>6. /\ p + 19 <= l /\ ~(p + 13 > l) /\ q + 6 <= l /\ a + m <= l
        /\ a \in Nat /\ m \in Nat /\ a + m = p + 13
        /\ q + 1 = p + 14 /\ q + 3 = p + 16 /\ q + 6 = p + 19
        /\ 14 \in 1..(19 + zeros) /\ 16 \in 1..(19 + zeros) /\ 19 \in 1..(19 + zeros)
        /\ \A j \in 1..m : 2 + j \in 1..(19 + zeros) /\ a + j = p + (2 + j)
    BY <1>2
  <1>7. /\ payload[q + 1] = dev.mode /\ payload[q + 3] = dev.group_num
        /\ payload[q + 6] = (IF dev.is_on THEN 1 ELSE 0)
    <2>1. payload[p + 14] = enc[14]
      BY <1>2, <1>6
    <2>2. payload[p + 16] = enc[16]
      BY <1>2, <1>6
    <2>3. payload[p + 19] = enc[19]
      BY <1>2, <1>6
    <2>4. /\ enc[14] = dev.mode /\ enc[16] = dev.group_num
          /\ enc[19] = (IF dev.is_on THEN 1 ELSE 0)
      BY <1>3 DEF IsEncoded
    <2> QED
      BY <1>6, <2>1, <2>2, <2>3, <2>4
  <1>8. Slice(payload, a, a + m) = pad
    <2>1. \A j \in 1..m : payload[a + j] = pad[j]
      <3> TAKE j \in 1..m
      <3>1. payload[a + j] = enc[2 + j]
        BY <1>2, <1>6
      <3> QED
        BY <1>3, <3>1 DEF IsEncoded, pad
    <2>2. pad \in Seq(Nat) /\ Len(pad) = m
      <3> DEFINE fill == 32
                 id   == dev.id
      <3>1. fill \in Bytes /\ id \in Seq(Bytes)
        BY <1>3, IsByte DEF IsDevice
      <3>2. pad = Padded(id, fill)
        BY DEF pad
      <3> HIDE DEF fill, id
      <3>3. Padded(id, fill) \in Seq(Bytes) /\ Len(Padded(id, fill)) = 11
        BY <3>1, PaddedOf
      <3>4. Bytes \subseteq Nat
        BY DEF Bytes
      <3> QED
        BY <3>2, <3>3, <3>4, SeqMonotonic
    <2> HIDE DEF a, m
    <2>3. a + m <= Len(payload)
      BY <1>6 DEF l
    <2>4. /\ payload \in Seq(Nat) /\ pad \in Seq(Nat) /\ a \in Nat /\ m \in Nat
          /\ Len(pad) = m /\ a + m <= Len(payload)
          /\ \A j \in 1..m : payload[a + j] = pad[j]
      BY <1>2, <1>6, <2>1, <2>2, <2>3
    <2> QED
      BY <2>4, PartIs
  <1>9. Stripped(pad) = dev.id
    BY <1>3, StrippedIs DEF IsDevice, pad
  <1>10. Device(payload, area, p) = AsListed(dev, area)
    <2>1. Attributes(payload, q) = [mode |-> dev.mode, group_num |-> dev.group_num,
                                    is_on |-> dev.is_on]
      <3>1. (payload[q + 6] # 0) = dev.is_on
        BY <1>3, <1>7 DEF IsDevice
      <3> QED
        BY <1>6, <1>7, <3>1 DEF Attributes, l
    <2>2. Slice(payload, p + 2, p + 13) = pad
      BY <1>6, <1>8
    <2> HIDE DEF a
    <2> QED
      BY <1>9, <2>1, <2>2 DEF Device, AsListed
  <1>11. Min2(p + 19, l) = p + 19
    <2> DEFINE e == p + 19
    <2>1. e \in Nat /\ l \in Nat /\ e <= l
      BY <1>2, <1>6
    <2> HIDE DEF e
    <2>2. Min2(e, l) = e
      BY <2>1 DEF Min2
    <2> QED
      BY <2>2 DEF e
  <1>12. ~(found.at + 13 > l)
    BY <1>5, <1>6
  <1> QED
    BY <1>5, <1>10, <1>11, <1>12 DEF IsReadNext, NextDevice, l, dev, p

\* The first turns of the loop over the devices.
LEMMA DevicesFoundAre ==
    ASSUME NEW payload, NEW area, NEW count \in Nat
    PROVE  LET found == DevicesFound(payload, area, count)
           IN  /\ found[0] = [devices |-> << >>, at |-> 2]
               /\ \A k \in 1..count : found[k] = NextDevice(payload, area, found[k - 1])
  <1> DEFINE first == [devices |-> << >>, at |-> 2]
             Next(d) == NextDevice(payload, area, d)
             Is(f, m) == f = [i \in 0..m |-> IF i = 0 THEN first ELSE Next(f[i - 1])]
             S == {m \in 0..count : \E f : Is(f, m)}
             found == DevicesFound(payload, area, count)
  <1>1. found = CHOOSE f : Is(f, count)
    BY DEF DevicesFound
  <1> HIDE DEF Next, found, first
  <1>2. 0 \in S
    <2> DEFINE f == [i \in 0..0 |-> first]
    <2>1. Is(f, 0)
      OBVIOUS
    <2> HIDE DEF f, Is
    <2>2. \E g : Is(g, 0)
      BY <2>1
    <2> QED
      BY <2>2
  <1>3. ASSUME NEW k \in 1..count, k - 1 \in S PROVE k \in S
    <2>1. PICK f : Is(f, k - 1)
      BY <1>3
    <2> DEFINE g == [i \in 0..k |-> IF i < k THEN f[i] ELSE Next(f[k - 1])]
    <2>2. \A i \in 0..(k - 1) : f[i] = IF i = 0 THEN first ELSE Next(f[i - 1])
      BY <2>1
    <2>3. ASSUME NEW i \in 0..k
          PROVE  g[i] = IF i = 0 THEN first ELSE Next(g[i - 1])
      <3>1. CASE i = k
        <4>1. i # 0 /\ i - 1 \in 0..k /\ i - 1 < k /\ ~ (i < k)
          BY <3>1
        <4> QED
          BY <3>1, <4>1
      <3>2. CASE i < k
        <4>1. i \in 0..(k - 1) /\ (i # 0 => i - 1 \in 0..k /\ i - 1 < k)
          BY <3>2
        <4>2. g[i] = f[i] /\ (i # 0 => g[i - 1] = f[i - 1])
          BY <3>2, <4>1
        <4> QED
          BY <2>2, <4>1, <4>2
      <3> QED
        BY <3>1, <3>2
    <2>4. g = [i \in 0..k |-> g[i]]
      OBVIOUS
    <2> HIDE DEF g
    <2>5. Is(g, k)
      BY <2>3, <2>4
    <2> QED
      BY <2>5
  <1>4. count \in S
    <2> HIDE DEF S
    <2>1. \A k \in 0..count : k \in S
      BY <1>2, <1>3, Reaches
    <2> QED
      BY <2>1
  <1>5. Is(found, count)
    <2>1. \E f : Is(f, count)
      BY <1>4
    <2> HIDE DEF Is
    <2> QED
      BY <1>1, <2>1
  <1>6. \A i \in 0..count : found[i] = IF i = 0 THEN first ELSE Next(found[i - 1])
    BY <1>5
  <1>7. 0 \in 0..count /\ \A k \in 1..count : k \in 0..count /\ k # 0
    OBVIOUS
  <1> QED
    BY <1>6, <1>7 DEF found, Next, first

(* Every turn adds a device or none, and leaves the ones before it.         *)
BeginsWith(s, c, listed, W) ==
    s \in Seq(W) /\ c <= Len(s) /\ \A i \in 1..c : s[i] = listed[i]

LEMMA OnlyAdds ==
    ASSUME NEW payload, NEW area, NEW found, NEW W, NEW c \in Nat, NEW listed,
           BeginsWith(found.devices, c, listed, W),
           Device(payload, area, found.at) \in W
    PROVE  BeginsWith(NextDevice(payload, area, found).devices, c, listed, W)
  <1> DEFINE s    == found.devices
             e    == Device(payload, area, found.at)
             next == NextDevice(payload, area, found).devices
  <1>1. next = s \/ next = Append(s, e)
    BY DEF NextDevice
  <1>2. s \in Seq(W) /\ e \in W /\ Len(s) \in Nat /\ c <= Len(s)
    BY LenProperties DEF BeginsWith
  <1>3. /\ Append(s, e) \in Seq(W) /\ Len(Append(s, e)) = Len(s) + 1
        /\ \A i \in 1..Len(s) : Append(s, e)[i] = s[i]
    BY <1>2, AppendProperties
  <1>4. c <= Len(s) + 1 /\ \A i \in 1..c : i \in 1..Len(s)
    BY <1>2
  <1>5. \A i \in 1..c : s[i] = listed[i]
    BY DEF BeginsWith
  <1> HIDE DEF s, e, next
  <1>6. BeginsWith(next, c, listed, W)
    BY <1>1, <1>2, <1>3, <1>4, <1>5 DEF BeginsWith
  <1> QED
    BY <1>6 DEF next

(* Turn by turn, the devices are read as they are listed, up to the first   *)
(* that is followed by one with type code zero; whatever is read then comes *)
(* behind them.                                                             *)
AreRead(parsed, devices, area, c) ==
    /\ c <= Len(parsed)
    /\ \A k \in 1..c : parsed[k] = AsListed(devices[k], area)
    /\ c = Len(devices) => parsed = [k \in DOMAIN devices |-> AsListed(devices[k], area)]

LEMMA Parsed ==
    ASSUME NEW area, NEW devices, NEW zeros \in Nat, NEW n \in Nat, NEW at, NEW payload,
           IsDirectory(payload, area, devices, zeros, n, at),
           DOMAIN devices = 1..n, Len(devices) = n,
           \A k \in 1..n : IsDevice(devices[k]),
           NEW c \in 0..n, CodesUpTo(devices, c)
    PROVE  AreRead(ParseSearchResult(payload), devices, area, c)
  <1> DEFINE found     == DevicesFound(payload, area, n)
             listed    == [k \in 1..n |-> AsListed(devices[k], area)]
             W         == {listed[i] : i \in 1..n}
                          \union {Device(payload, area, found[i].at) : i \in 0..n}
             Kept(m)   == BeginsWith(found[m].devices, c, listed, W)
             Read(m)   == /\ m < c \/ c = n => found[m].at = at[m]
                          /\ found[m].devices \in Seq(W) /\ Len(found[m].devices) = m
                          /\ \A i \in 1..m : found[m].devices[i] = listed[i]
             S         == {m \in 0..n : IF m <= c THEN Read(m) ELSE Kept(m)}
  <1>1. /\ found[0] = [devices |-> << >>, at |-> 2]
        /\ \A k \in 1..n : found[k] = NextDevice(payload, area, found[k - 1])
    BY DevicesFoundAre
  <1> HIDE DEF found
  <1>2. 0 \in S
    <2>1. 0 \in 0..n /\ at[0] = 2 /\ 0 <= c /\ \A i \in 1..0 : FALSE
      BY DEF IsDirectory
    <2>2. found[0].at = 2 /\ found[0].devices = << >>
      BY <1>1
    <2> HIDE DEF W, listed
    <2>3. << >> \in Seq(W) /\ Len(<< >>) = 0
      OBVIOUS
    <2> QED
      BY <2>1, <2>2, <2>3
  <1>3. ASSUME NEW k \in 1..n, k - 1 \in S, k <= c PROVE k \in S
    <2> DEFINE j == k - 1
               d == found[j]
               s == d.devices
               e == listed[k]
    <2>1. j \in Nat /\ k \in Nat /\ j + 1 = k /\ k \in 0..n /\ j < c
      BY <1>3
    <2>2. d.at = at[k - 1] /\ s \in Seq(W) /\ Len(s) = j /\ \A i \in 1..j : s[i] = listed[i]
      <3> HIDE DEF Read, Kept
      <3>1. j <= c /\ IF j <= c THEN Read(j) ELSE Kept(j)
        BY <1>3, <2>1
      <3>2. Read(j)
        BY <3>1
      <3> HIDE DEF W, listed
      <3> QED
        BY <2>1, <3>2 DEF Read
    <2>3. e \in W /\ e = AsListed(devices[k], area)
      OBVIOUS
    <2>4. found[k] = NextDevice(payload, area, d)
      BY <1>1
    <2> HIDE DEF d, s, W, listed
    <2>5. NextDevice(payload, area, d)
            = [devices |-> Append(s, AsListed(devices[k], area)),
               at      |-> PastZeros(payload, at[k - 1] + 19)]
      <3>1. /\ zeros \in Nat /\ n \in Nat /\ k \in 1..n /\ d.at = at[k - 1]
            /\ IsDirectory(payload, area, devices, zeros, n, at)
            /\ \A i \in 1..n : IsDevice(devices[i])
        BY <2>2
      <3>2. IsReadNext(payload, area, devices, zeros, n, at, k, d)
        BY <3>1, DeviceThere
      <3> QED
        BY <3>2 DEF IsReadNext, s
    <2>6. k < c \/ c = n => PastZeros(payload, at[k - 1] + 19) = at[k]
      <3> HAVE k < c \/ c = n
      <3>1. k # n => k + 1 \in 2..c
        BY <2>1
      <3>2. k # n => devices[k + 1].code # 0
        BY <3>1 DEF CodesUpTo
      <3> QED
        BY <3>2, ZerosPassed
    <2>7. /\ k < c \/ c = n => found[k].at = at[k]
          /\ found[k].devices = Append(s, e)
      BY <2>3, <2>4, <2>5, <2>6
    <2> HIDE DEF e, j
    <2>8. /\ Append(s, e) \in Seq(W) /\ Len(Append(s, e)) = k
          /\ \A i \in 1..j : Append(s, e)[i] = s[i]
          /\ Append(s, e)[k] = e
      BY <2>1, <2>2, <2>3
    <2>9. \A i \in 1..k : i \in 1..j \/ i = k
      BY <2>1
    <2>10. \A i \in 1..k : Append(s, e)[i] = listed[i]
      BY <2>2, <2>8, <2>9 DEF e
    <2>11. Read(k)
      BY <2>7, <2>8, <2>10
    <2> QED
      BY <1>3, <2>1, <2>11
  <1>4. ASSUME NEW k \in 1..n, k - 1 \in S, ~(k <= c) PROVE k \in S
    <2> DEFINE d == found[k - 1]
    <2>1. /\ k - 1 \in 0..n /\ k \in 0..n /\ (k - 1 <= c => k - 1 = c) /\ c \in Nat
      BY <1>4
    <2>2. BeginsWith(d.devices, c, listed, W)
      <3> HIDE DEF Read, Kept
      <3>1. (k - 1 = c /\ Read(c)) \/ Kept(k - 1)
        BY <1>4, <2>1
      <3> HIDE DEF W, listed
      <3> QED
        BY <2>1, <3>1 DEF Read, Kept, BeginsWith
    <2>3. Device(payload, area, d.at) \in W
      BY <2>1
    <2>4. found[k] = NextDevice(payload, area, d)
      BY <1>1
    <2> HIDE DEF d, W, listed
    <2>5. c \in Nat
      BY <2>1
    <2>6. Kept(k)
      BY <2>2, <2>3, <2>4, <2>5, OnlyAdds
    <2> QED
      BY <1>4, <2>1, <2>6
  <1>5. IF n <= c THEN Read(n) ELSE Kept(n)
    <2> HIDE DEF S
    <2>1. \A k \in 0..n : k \in S
      BY <1>2, <1>3, <1>4, Reaches
    <2>2. n \in 0..n
      OBVIOUS
    <2> QED
      BY <2>1, <2>2 DEF S
  <1>6. AreRead(found[n].devices, devices, area, c)
    <2> DEFINE s == found[n].devices
    <2>1. /\ s \in Seq(W) /\ c <= Len(s) /\ \A i \in 1..c : s[i] = listed[i]
          /\ c = n => Len(s) = n
      <3> HIDE DEF Read, Kept
      <3>1. c \in Nat /\ ((n <= c /\ n = c) \/ (~(n <= c) /\ c < n))
        OBVIOUS
      <3>2. (n = c /\ Read(c)) \/ (c < n /\ Kept(n))
        BY <1>5, <3>1
      <3> HIDE DEF W, listed
      <3> QED
        BY <3>1, <3>2 DEF Read, Kept, BeginsWith
    <2>2. \A i \in 1..c : listed[i] = AsListed(devices[i], area)
      OBVIOUS
    <2>3. c = n => s = listed
      <3> HAVE c = n
      <3>1. listed = [i \in 1..n |-> listed[i]]
        OBVIOUS
      <3> HIDE DEF s, listed, W
      <3>2. s = [i \in 1..n |-> s[i]]
        BY <2>1, LenProperties
      <3> QED
        BY <2>1, <3>1, <3>2
    <2> HIDE DEF s, W
    <2> QED
      BY <2>1, <2>2, <2>3 DEF AreRead, s
  <1>7. payload[1] = area /\ payload[2] = n
    BY DEF IsDirectory
  <1>8. CASE Len(payload) < 3
    <2>1. n = 0
      <3> SUFFICES ASSUME n # 0 PROVE FALSE
        OBVIOUS
      <3>1. 1 \in 1..n /\ 1 - 1 = 0 /\ 0 \in 0..n
        OBVIOUS
      <3>2. \A i \in 1..n : at[i] = at[i - 1] + (19 + zeros) /\ at[i] <= Len(payload)
        BY DEF IsDirectory
      <3>3. at[0] = 2 /\ Len(payload) \in Nat
        BY LenProperties DEF IsDirectory
      <3>4. at[1] = at[0] + (19 + zeros) /\ at[1] <= Len(payload)
        BY <3>1, <3>2
      <3> QED
        BY <1>8, <3>3, <3>4
    <2>2. found[n].devices = << >>
      BY <1>1, <2>1
    <2> QED
      BY <1>6, <1>8, <2>2 DEF ParseSearchResult
  <1>9. CASE ~(Len(payload) < 3)
    BY <1>6, <1>7, <1>9 DEF ParseSearchResult, found
  <1> QED
    BY <1>8, <1>9
-----------------------------------------------------------------------------
(* What is decoded is what was listed.                                      *)
FoundIn(resp) == [parsed |-> SearchResult(resp), known |-> OfKnownType(SearchResult(resp))]

SearchRead ==
    /\ input.of = "search" => input \in SearchInputs
    /\ done /\ input.of = "search" => output = FoundIn(FlattenSeq(input.noise) \o SearchReply)

(* Whatever type codes and attributes they have, however many there are and *)
(* whatever came before the answer, the devices that a hub lists are found  *)
(* as they are listed up to the first that one with the type code zero      *)
(* follows, and no others when there is none (_find_new_packet,             *)
(* _parse_search_result).                                                   *)
THEOREM DevicesAlwaysFound == DecodingSpec => []DevicesFoundAsListed
  <1>1. DecodingInit => SearchRead
    BY InputsAssumption DEF DecodingInit, SearchRead
  <1>2. SearchRead /\ [DecodingNext]_decodingVars => SearchRead'
    <2> SUFFICES ASSUME SearchRead, [DecodingNext]_decodingVars PROVE SearchRead'
      OBVIOUS
    <2>1. CASE FindsDevices
      BY <2>1 DEF FindsDevices, Decodes, SearchRead, FoundIn, SearchReply
    <2>2. ASSUME NEW kind, kind # "search", Decodes(kind) PROVE SearchRead'
      BY <2>2 DEF Decodes, SearchRead
    <2>3. CASE DecodesReport \/ DecodesWrite \/ DecodesProgram \/ FindsEntry \/ ShowsLevels
      <3>1. \/ Decodes("report") \/ Decodes("write") \/ Decodes("program")
            \/ Decodes("minute") \/ Decodes("levels")
        BY <2>3 DEF DecodesReport, DecodesWrite, DecodesProgram, FindsEntry, ShowsLevels
      <3> QED
        BY <2>2, <3>1
    <2>4. CASE UNCHANGED decodingVars
      BY <2>4 DEF decodingVars, SearchRead, SearchReply
    <2> QED
      BY <2>1, <2>3, <2>4 DEF DecodingNext
  <1>3. SearchRead => DevicesFoundAsListed
    <2> SUFFICES ASSUME SearchRead, done, input.of = "search" PROVE DevicesFoundAsListed
      BY DEF DevicesFoundAsListed
    <2> DEFINE devices == input.devices
               noise   == input.noise
               area    == input.area
               zeros   == input.zeros
               n       == Len(devices)
               R       == {devices[i] : i \in DOMAIN devices}
               body    == <<area, n>> \o FlattenSeq([i \in DOMAIN devices |->
                                                       EncodeDevice(devices[i], zeros)])
    <2>1. /\ area \in Bytes /\ zeros \in Nat /\ n \in Bytes
          /\ devices \in Seq(R) /\ \A k \in DOMAIN devices : IsDevice(devices[k])
          /\ IsSequence(noise) /\ \A k \in DOMAIN noise : IsNoise(noise[k])
      BY InputsAssumption DEF SearchRead, IsSequence
    <2>2. output = FoundIn(FlattenSeq(noise) \o SearchReply)
      BY DEF SearchRead
    <2>3. SearchReply = BuildNew(HUB, 1, 82, SEARCH, body)
      BY DEF SearchReply
    <2>4. AsAllListed = [i \in DOMAIN devices |-> AsListed(devices[i], area)]
      BY DEF AsAllListed
    <2>11. ASSUME \A c \in 0..n : CodesUpTo(devices, c) => AreRead(output.parsed, devices, area, c),
                  output.known = OfKnownType(output.parsed), n \in Nat, DOMAIN devices = 1..n
           PROVE  DevicesFoundAsListed
      <3>1. ASSUME NEW k \in DOMAIN devices, CodesUpTo(devices, k)
            PROVE  k <= Len(output.parsed) /\ output.parsed[k] = AsAllListed[k]
        <4>1. k \in 0..n /\ k \in 1..k
          BY <2>11, <3>1
        <4> HIDE DEF devices, area, n
        <4>2. AreRead(output.parsed, devices, area, k)
          BY <2>11, <3>1, <4>1
        <4> QED
          BY <2>4, <3>1, <4>1, <4>2 DEF AreRead
      <3>2. CodesUpTo(devices, n) => output.known = OfKnownType(AsAllListed)
        <4> HAVE CodesUpTo(devices, n)
        <4>1. n \in 0..n
          BY <2>11
        <4>2. AreRead(output.parsed, devices, area, n)
          BY <2>11, <4>1
        <4> QED
          BY <2>4, <2>11, <4>2 DEF AreRead
      <3> QED
        BY <3>1, <3>2 DEF DevicesFoundAsListed
    <2> HIDE DEF devices, noise, area, zeros, R
    <2>5. n \in Nat /\ DOMAIN devices = 1..n /\ Len(devices) = n
      BY <2>1, LenProperties
    <2> HIDE DEF n
    <2>6. \E at : IsDirectory(body, area, devices, zeros, n, at)
      <3>1. /\ area \in Bytes /\ zeros \in Nat /\ n \in Bytes
            /\ DOMAIN devices = 1..n /\ \A k \in 1..n : IsDevice(devices[k])
        BY <2>1, <2>5
      <3> QED
        BY <3>1, DirectoryIs
    <2> HIDE DEF body
    <2>7. PICK at : IsDirectory(body, area, devices, zeros, n, at)
      BY <2>6
    <2>8. IsFoundBehind(noise, BuildNew(HUB, 1, 82, SEARCH, body), SEARCH, body)
      <3> DEFINE hub == HUB  module == 1  cmd == 82
      <3>1. hub \in Seq(Nat) /\ module \in Nat /\ cmd \in Nat
        BY DEF HUB
      <3>2. body \in Seq(Nat)
        BY <2>7 DEF IsDirectory
      <3> HIDE DEF hub, module, cmd
      <3>3. IsFoundBehind(noise, BuildNew(hub, module, cmd, SEARCH, body), SEARCH, body)
        BY <2>1, <3>1, <3>2, AnswerBehind
      <3> QED
        BY <3>3 DEF hub, module, cmd
    <2>9. Payload(FindNewPacket(FlattenSeq(noise) \o SearchReply, SEARCH)) = body
      BY <2>3, <2>8 DEF IsFoundBehind, Joined
    <2>10. ASSUME NEW c \in 0..n, CodesUpTo(devices, c)
           PROVE  AreRead(ParseSearchResult(body), devices, area, c)
      <3>1. /\ zeros \in Nat /\ n \in Nat /\ DOMAIN devices = 1..n /\ Len(devices) = n
            /\ \A k \in 1..n : IsDevice(devices[k])
        BY <2>1, <2>5
      <3> QED
        BY <2>7, <2>10, <3>1, Parsed
    <2>12. /\ output.parsed = ParseSearchResult(body)
           /\ output.known = OfKnownType(output.parsed)
      BY <2>2, <2>9 DEF FoundIn, SearchResult
    <2> QED
      BY <2>5, <2>10, <2>11, <2>12
  <1> QED
    BY <1>1, <1>2, <1>3, PTL DEF DecodingSpec
-----------------------------------------------------------------------------
(***************************************************************************)
(* The reports, for any attributes a controller may have.                  *)
(***************************************************************************)
(* A number in halves, quarters and so on.                                  *)
LEMMA Quotients ==
    ASSUME NEW n, NEW q \in Nat, NEW low \in Nat
    PROVE  /\ n = 1 * q + low /\ low < 1 => n \div 1 = q
           /\ n = 2 * q + low /\ low < 2 => n \div 2 = q
           /\ n = 4 * q + low /\ low < 4 => n \div 4 = q
           /\ n = 8 * q + low /\ low < 8 => n \div 8 = q
           /\ n = 16 * q + low /\ low < 16 => n \div 16 = q
           /\ n = 32 * q + low /\ low < 32 => n \div 32 = q
           /\ n = 64 * q + low /\ low < 64 => n \div 64 = q
           /\ n = 128 * q + low /\ low < 128 => n \div 128 = q
  <1>1. n = 1 * q + low /\ low < 1 => n \div 1 = q
    OBVIOUS
  <1>2. n = 2 * q + low /\ low < 2 => n \div 2 = q
    OBVIOUS
  <1>3. n = 4 * q + low /\ low < 4 => n \div 4 = q
    OBVIOUS
  <1>4. n = 8 * q + low /\ low < 8 => n \div 8 = q
    OBVIOUS
  <1>5. n = 16 * q + low /\ low < 16 => n \div 16 = q
    OBVIOUS
  <1>6. n = 32 * q + low /\ low < 32 => n \div 32 = q
    OBVIOUS
  <1>7. n = 64 * q + low /\ low < 64 => n \div 64 = q
    OBVIOUS
  <1>8. n = 128 * q + low /\ low < 128 => n \div 128 = q
    OBVIOUS
  <1> QED
    BY <1>1, <1>2, <1>3, <1>4, <1>5, <1>6, <1>7, <1>8

(* A byte has the bits it is made of, and none else.                        *)
LEMMA ByteHas ==
    ASSUME NEW bits, NEW i \in 0..7
    PROVE  Byte(bits) \in Nat /\ (Bit(Byte(bits), i) <=> i \in bits)
  <1> DEFINE B(j) == IF j \in bits THEN 1 ELSE 0
             n == B(0) + 2 * B(1) + 4 * B(2) + 8 * B(3) + 16 * B(4) + 32 * B(5) + 64 * B(6)
                  + 128 * B(7)
  <1>1. /\ 2^0 = 1 /\ 2^1 = 2 /\ 2^2 = 4 /\ 2^3 = 8
        /\ 2^4 = 16 /\ 2^5 = 32 /\ 2^6 = 64 /\ 2^7 = 128
    OBVIOUS
  <1>2. Byte(bits) = n
    BY <1>1 DEF Byte
  <1>3. \A j \in 0..7 : B(j) \in {0, 1} /\ (B(j) = 1 <=> j \in bits)
    OBVIOUS
  <1>4. /\ B(0) \in Nat /\ B(1) \in Nat /\ B(2) \in Nat /\ B(3) \in Nat
        /\ B(4) \in Nat /\ B(5) \in Nat /\ B(6) \in Nat /\ B(7) \in Nat
        /\ B(0) <= 1 /\ B(1) <= 1 /\ B(2) <= 1 /\ B(3) <= 1
        /\ B(4) <= 1 /\ B(5) <= 1 /\ B(6) <= 1 /\ B(7) <= 1
    OBVIOUS
  <1> HIDE DEF B
  <1>5. n \in Nat
    BY <1>4
  <1>6. i \in 0..7 => (n \div 2^i) % 2 = B(i)
    <2>1. (n \div 1) % 2 = B(0)
      <3> DEFINE low  == 0
                 high == B(1) + 2 * B(2) + 4 * B(3) + 8 * B(4) + 16 * B(5) + 32 * B(6) + 64 * B(7)
      <3>1. low \in Nat /\ low < 1 /\ high \in Nat /\ n = low + 1 * B(0) + 2 * high
        BY <1>4
      <3> HIDE DEF low, high, n
      <3> DEFINE q == B(0) + 2 * high
      <3>2. q \in Nat /\ n = 1 * q + low /\ q % 2 = B(0)
        BY <1>4, <3>1
      <3> HIDE DEF q
      <3>3. q \in Nat /\ low \in Nat /\ low < 1 /\ n = 1 * q + low
        BY <3>1, <3>2
      <3>4. n \div 1 = q
        BY <3>3, Quotients
      <3> QED
        BY <3>2, <3>4
    <2>2. (n \div 2) % 2 = B(1)
      <3> DEFINE low  == B(0)
                 high == B(2) + 2 * B(3) + 4 * B(4) + 8 * B(5) + 16 * B(6) + 32 * B(7)
      <3>1. low \in Nat /\ low < 2 /\ high \in Nat /\ n = low + 2 * B(1) + 4 * high
        BY <1>4
      <3> HIDE DEF low, high, n
      <3> DEFINE q == B(1) + 2 * high
      <3>2. q \in Nat /\ n = 2 * q + low /\ q % 2 = B(1)
        BY <1>4, <3>1
      <3> HIDE DEF q
      <3>3. q \in Nat /\ low \in Nat /\ low < 2 /\ n = 2 * q + low
        BY <3>1, <3>2
      <3>4. n \div 2 = q
        BY <3>3, Quotients
      <3> QED
        BY <3>2, <3>4
    <2>3. (n \div 4) % 2 = B(2)
      <3> DEFINE low  == B(0) + 2 * B(1)
                 high == B(3) + 2 * B(4) + 4 * B(5) + 8 * B(6) + 16 * B(7)
      <3>1. low \in Nat /\ low < 4 /\ high \in Nat /\ n = low + 4 * B(2) + 8 * high
        BY <1>4
      <3> HIDE DEF low, high, n
      <3> DEFINE q == B(2) + 2 * high
      <3>2. q \in Nat /\ n = 4 * q + low /\ q % 2 = B(2)
        BY <1>4, <3>1
      <3> HIDE DEF q
      <3>3. q \in Nat /\ low \in Nat /\ low < 4 /\ n = 4 * q + low
        BY <3>1, <3>2
      <3>4. n \div 4 = q
        BY <3>3, Quotients
      <3> QED
        BY <3>2, <3>4
    <2>4. (n \div 8) % 2 = B(3)
      <3> DEFINE low  == B(0) + 2 * B(1) + 4 * B(2)
                 high == B(4) + 2 * B(5) + 4 * B(6) + 8 * B(7)
      <3>1. low \in Nat /\ low < 8 /\ high \in Nat /\ n = low + 8 * B(3) + 16 * high
        BY <1>4
      <3> HIDE DEF low, high, n
      <3> DEFINE q == B(3) + 2 * high
      <3>2. q \in Nat /\ n = 8 * q + low /\ q % 2 = B(3)
        BY <1>4, <3>1
      <3> HIDE DEF q
      <3>3. q \in Nat /\ low \in Nat /\ low < 8 /\ n = 8 * q + low
        BY <3>1, <3>2
      <3>4. n \div 8 = q
        BY <3>3, Quotients
      <3> QED
        BY <3>2, <3>4
    <2>5. (n \div 16) % 2 = B(4)
      <3> DEFINE low  == B(0) + 2 * B(1) + 4 * B(2) + 8 * B(3)
                 high == B(5) + 2 * B(6) + 4 * B(7)
      <3>1. low \in Nat /\ low < 16 /\ high \in Nat /\ n = low + 16 * B(4) + 32 * high
        BY <1>4
      <3> HIDE DEF low, high, n
      <3> DEFINE q == B(4) + 2 * high
      <3>2. q \in Nat /\ n = 16 * q + low /\ q % 2 = B(4)
        BY <1>4, <3>1
      <3> HIDE DEF q
      <3>3. q \in Nat /\ low \in Nat /\ low < 16 /\ n = 16 * q + low
        BY <3>1, <3>2
      <3>4. n \div 16 = q
        BY <3>3, Quotients
      <3> QED
        BY <3>2, <3>4
    <2>6. (n \div 32) % 2 = B(5)
      <3> DEFINE low  == B(0) + 2 * B(1) + 4 * B(2) + 8 * B(3) + 16 * B(4)
                 high == B(6) + 2 * B(7)
      <3>1. low \in Nat /\ low < 32 /\ high \in Nat /\ n = low + 32 * B(5) + 64 * high
        BY <1>4
      <3> HIDE DEF low, high, n
      <3> DEFINE q == B(5) + 2 * high
      <3>2. q \in Nat /\ n = 32 * q + low /\ q % 2 = B(5)
        BY <1>4, <3>1
      <3> HIDE DEF q
      <3>3. q \in Nat /\ low \in Nat /\ low < 32 /\ n = 32 * q + low
        BY <3>1, <3>2
      <3>4. n \div 32 = q
        BY <3>3, Quotients
      <3> QED
        BY <3>2, <3>4
    <2>7. (n \div 64) % 2 = B(6)
      <3> DEFINE low  == B(0) + 2 * B(1) + 4 * B(2) + 8 * B(3) + 16 * B(4) + 32 * B(5)
                 high == B(7)
      <3>1. low \in Nat /\ low < 64 /\ high \in Nat /\ n = low + 64 * B(6) + 128 * high
        BY <1>4
      <3> HIDE DEF low, high, n
      <3> DEFINE q == B(6) + 2 * high
      <3>2. q \in Nat /\ n = 64 * q + low /\ q % 2 = B(6)
        BY <1>4, <3>1
      <3> HIDE DEF q
      <3>3. q \in Nat /\ low \in Nat /\ low < 64 /\ n = 64 * q + low
        BY <3>1, <3>2
      <3>4. n \div 64 = q
        BY <3>3, Quotients
      <3> QED
        BY <3>2, <3>4
    <2>8. (n \div 128) % 2 = B(7)
      <3> DEFINE low  == B(0) + 2 * B(1) + 4 * B(2) + 8 * B(3) + 16 * B(4) + 32 * B(5) + 64 * B(6)
                 high == 0
      <3>1. low \in Nat /\ low < 128 /\ high \in Nat /\ n = low + 128 * B(7) + 256 * high
        BY <1>4
      <3> HIDE DEF low, high, n
      <3> DEFINE q == B(7) + 2 * high
      <3>2. q \in Nat /\ n = 128 * q + low /\ q % 2 = B(7)
        BY <1>4, <3>1
      <3> HIDE DEF q
      <3>3. q \in Nat /\ low \in Nat /\ low < 128 /\ n = 128 * q + low
        BY <3>1, <3>2
      <3>4. n \div 128 = q
        BY <3>3, Quotients
      <3> QED
        BY <3>2, <3>4
    <2> HIDE DEF n
    <2> DEFINE IsRight(j) == (n \div 2^j) % 2 = B(j)
    <2>9. /\ IsRight(0) /\ IsRight(1) /\ IsRight(2) /\ IsRight(3)
          /\ IsRight(4) /\ IsRight(5) /\ IsRight(6) /\ IsRight(7)
      BY <1>1, <2>1, <2>2, <2>3, <2>4, <2>5, <2>6, <2>7, <2>8, Zenon
    <2>10. i = 0 \/ i = 1 \/ i = 2 \/ i = 3 \/ i = 4 \/ i = 5 \/ i = 6 \/ i = 7
      OBVIOUS
    <2> HIDE DEF IsRight
    <2>11. IsRight(i)
      BY <2>9, <2>10, Zenon
    <2> QED
      BY <2>11 DEF IsRight
  <1> HIDE DEF n
  <1>7. (n \div 2^i) % 2 = B(i)
    BY <1>6
  <1> QED
    BY <1>2, <1>3, <1>5, <1>7 DEF Bit

(* Bytes have the bits they are made of, the last of them the lowest.       *)
LEMMA BytesHave ==
    ASSUME NEW bits, NEW count \in Nat
    PROVE  /\ BytesOf(bits, count) \in Seq(Nat) /\ Len(BytesOf(bits, count)) = count
           /\ \A i \in Nat : i < 8 * count => (BitOf(BytesOf(bits, count), i) <=> i \in bits)
  <1> DEFINE In(k)  == {i \in 0..7 : 8 * (count - k) + i \in bits}
             bytes  == BytesOf(bits, count)
  <1>1. bytes = [k \in 1..count |-> Byte(In(k))]
    BY DEF BytesOf
  <1>2. \A k \in 1..count : Byte(In(k)) \in Nat
    <2>1. 0 \in 0..7
      OBVIOUS
    <2> QED
      BY <2>1, ByteHas
  <1> HIDE DEF bytes
  <1>3. bytes \in Seq(Nat) /\ Len(bytes) = count /\ \A k \in 1..count : bytes[k] = Byte(In(k))
    <2> HIDE DEF In
    <2> QED
      BY <1>1, <1>2
  <1>4. ASSUME NEW i \in Nat, i < 8 * count PROVE BitOf(bytes, i) <=> i \in bits
    <2> DEFINE q == i \div 8
               r == i % 8
               k == count - q
    <2>1. q \in Nat /\ r \in 0..7 /\ i = 8 * q + r
      OBVIOUS
    <2> HIDE DEF q, r
    <2>2. k \in 1..count /\ count - k = q
      BY <1>4, <2>1
    <2> HIDE DEF k
    <2>3. bytes[k] = Byte(In(k))
      BY <1>3, <2>2
    <2>4. r \in In(k) <=> i \in bits
      BY <2>1, <2>2
    <2> HIDE DEF In
    <2>5. Bit(Byte(In(k)), r) <=> r \in In(k)
      BY <2>1, ByteHas
    <2>6. BitOf(bytes, i) <=> Bit(bytes[k], r)
      BY <1>3 DEF BitOf, q, r, k
    <2> QED
      BY <2>3, <2>4, <2>5, <2>6
  <1> QED
    BY <1>3, <1>4 DEF bytes

(* The booleans of a report have places of their own among its bits.        *)
LEMMA BooleansIn ==
    ASSUME NEW dps
    PROVE  /\ BoolBytes(dps) \in Nat
           /\ \A dp \in dps \intersect Booleans :
                PlaceOf(dp, dps) \in Nat /\ PlaceOf(dp, dps) < 8 * BoolBytes(dps)
           /\ \A d, e \in dps \intersect Booleans : PlaceOf(d, dps) = PlaceOf(e, dps) => d = e
  <1> DEFINE S == dps \intersect Booleans
             Below(dp) == {d \in S : d < dp}
             c == Cardinality(S)
  <1>1. IsFiniteSet(S) /\ c \in Nat
    <2>1. 0 \in Int /\ 16 \in Int
      OBVIOUS
    <2>2. IsFiniteSet(Booleans)
      BY <2>1, FS_Interval DEF Booleans
    <2>3. S \in SUBSET Booleans
      OBVIOUS
    <2> QED
      BY <2>2, <2>3, FS_Subset, FS_CardinalityType
  <1>2. \A d \in S : d \in Nat
    BY DEF Booleans
  <1>3. \A d : PlaceOf(d, dps) = Cardinality(Below(d))
    BY DEF PlaceOf
  <1>4. BoolBytes(dps) = (c + 7) \div 8
    BY DEF BoolBytes
  <1> HIDE DEF S, c
  <1>5. \A d \in S : /\ Below(d) \in SUBSET S /\ d \notin Below(d)
                     /\ \A e \in S : d < e => Below(d) \in SUBSET Below(e) /\ d \in Below(e)
    BY <1>2
  <1>6. \A d \in S : IsFiniteSet(Below(d)) /\ Cardinality(Below(d)) \in Nat
                     /\ Cardinality(Below(d)) < c
    <2> TAKE d \in S
    <2> DEFINE B == Below(d)
    <2>1. B \in SUBSET S /\ B # S
      BY <1>5
    <2> HIDE DEF B
    <2>2. IsFiniteSet(B) /\ Cardinality(B) <= Cardinality(S) /\ Cardinality(B) # Cardinality(S)
      BY <1>1, <2>1, FS_Subset
    <2>3. Cardinality(B) \in Nat
      BY <2>2, FS_CardinalityType
    <2>4. Cardinality(B) < c
      BY <1>1, <2>2, <2>3 DEF c
    <2> QED
      BY <2>2, <2>3, <2>4 DEF B
  <1>7. \A d, e \in S : d < e => Cardinality(Below(d)) # Cardinality(Below(e))
    <2> SUFFICES ASSUME NEW d \in S, NEW e \in S, d < e
                 PROVE  Cardinality(Below(d)) # Cardinality(Below(e))
      OBVIOUS
    <2> DEFINE B == Below(d)
               C == Below(e)
    <2>1. B \in SUBSET C /\ B # C /\ IsFiniteSet(C)
      BY <1>5, <1>6
    <2> HIDE DEF B, C
    <2>2. Cardinality(B) # Cardinality(C)
      BY <2>1, FS_Subset
    <2> QED
      BY <2>2 DEF B, C
  <1>8. BoolBytes(dps) \in Nat /\ c <= 8 * BoolBytes(dps)
    BY <1>1, <1>4
  <1> HIDE DEF Below
  <1>9. \A d \in S : PlaceOf(d, dps) \in Nat /\ PlaceOf(d, dps) < 8 * BoolBytes(dps)
    BY <1>1, <1>3, <1>6, <1>8
  <1>10. \A d, e \in S : PlaceOf(d, dps) = PlaceOf(e, dps) => d = e
    <2> TAKE d, e \in S
    <2>1. d = e \/ d < e \/ e < d
      BY <1>2
    <2> QED
      BY <1>3, <1>7, <2>1
  <1> QED
    BY <1>8, <1>9, <1>10 DEF S

(* The lengths of the other data points, one after another.                 *)
LEMMA LengthIs ==
    ASSUME NEW dp \in DataPoints \ Booleans
    PROVE  dp \in 17..46 /\ DpLength[dp] \in Nat /\ (dp < BLOB => DpLength[dp] = 1)
  <1>1. dp \in 17..46
    BY DEF DataPoints, Booleans
  <1>2. DpLength[dp] = IF dp < BLOB THEN 1
                       ELSE <<12, 7, 62, 781, 3, 4, 2, 2, 5, 10, 10, 25, 50, 50>>[dp - BLOB + 1]
    BY DEF DpLength
  <1>3. CASE dp < BLOB
    BY <1>1, <1>2, <1>3
  <1>4. CASE ~(dp < BLOB)
    <2> DEFINE t == <<12, 7, 62, 781, 3, 4, 2, 2, 5, 10, 10, 25, 50, 50>>
               i == dp - BLOB + 1
    <2>1. i \in 1..14
      BY <1>1, <1>4 DEF BLOB
    <2>2. t \in Seq(Nat) /\ Len(t) = 14
      OBVIOUS
    <2> HIDE DEF t, i
    <2>3. t[i] \in Nat
      BY <2>1, <2>2, ElementOfSeq
    <2> QED
      BY <1>1, <1>2, <1>4, <2>3 DEF t, i
  <1> QED
    BY <1>3, <1>4

LEMMA LengthsAre ==
    ASSUME NEW dps
    PROVE  /\ Lengths(dps)[0] = 0
           /\ \A k \in 1..30 :
                Lengths(dps)[k] = IF 16 + k \in dps THEN Lengths(dps)[k - 1] + DpLength[16 + k]
                                  ELSE Lengths(dps)[k - 1]
  <1> DEFINE n == 30
             Next(s, k) == IF 16 + k \in dps THEN s + DpLength[16 + k] ELSE s
             Is(f, m) == f = [i \in 0..m |-> IF i = 0 THEN 0 ELSE Next(f[i - 1], i)]
             S == {m \in 0..n : \E f : Is(f, m)}
             sum == Lengths(dps)
  <1>1. sum = CHOOSE f : Is(f, n)
    BY DEF Lengths
  <1>2. n \in Nat /\ n = 30
    OBVIOUS
  <1> HIDE DEF Next, sum, n
  <1>3. 0 \in S
    <2> DEFINE f == [i \in 0..0 |-> 0]
    <2>1. Is(f, 0)
      OBVIOUS
    <2> HIDE DEF f, Is
    <2>2. \E g : Is(g, 0)
      BY <2>1
    <2> QED
      BY <1>2, <2>2
  <1>4. ASSUME NEW k \in 1..n, k - 1 \in S PROVE k \in S
    <2>1. PICK f : Is(f, k - 1)
      BY <1>4
    <2> DEFINE g == [i \in 0..k |-> IF i < k THEN f[i] ELSE Next(f[k - 1], k)]
    <2>2. \A i \in 0..(k - 1) : f[i] = IF i = 0 THEN 0 ELSE Next(f[i - 1], i)
      BY <1>2, <2>1
    <2>3. ASSUME NEW i \in 0..k
          PROVE  g[i] = IF i = 0 THEN 0 ELSE Next(g[i - 1], i)
      <3>1. CASE i = k
        <4>1. i # 0 /\ i - 1 \in 0..k /\ i - 1 < k /\ ~ (i < k)
          BY <1>2, <3>1
        <4> QED
          BY <3>1, <4>1
      <3>2. CASE i < k
        <4>1. i \in 0..(k - 1) /\ (i # 0 => i - 1 \in 0..k /\ i - 1 < k)
          BY <1>2, <3>2
        <4>2. g[i] = f[i] /\ (i # 0 => g[i - 1] = f[i - 1])
          BY <3>2, <4>1
        <4> QED
          BY <2>2, <4>1, <4>2
      <3> QED
        BY <1>2, <3>1, <3>2
    <2>4. g = [i \in 0..k |-> g[i]]
      OBVIOUS
    <2> HIDE DEF g
    <2>5. Is(g, k)
      BY <2>3, <2>4
    <2> QED
      BY <1>2, <2>5
  <1>5. n \in S
    <2> HIDE DEF S
    <2>1. \A k \in 0..n : k \in S
      BY <1>2, <1>3, <1>4, Reaches
    <2> QED
      BY <1>2, <2>1
  <1>6. Is(sum, n)
    <2>1. \E f : Is(f, n)
      BY <1>5
    <2> HIDE DEF Is
    <2> QED
      BY <1>1, <2>1
  <1>7. \A i \in 0..n : sum[i] = IF i = 0 THEN 0 ELSE Next(sum[i - 1], i)
    BY <1>6
  <1>8. 0 \in 0..n /\ \A k \in 1..n : k \in 0..n /\ k # 0
    BY <1>2
  <1>9. sum[0] = 0 /\ \A k \in 1..n : sum[k] = Next(sum[k - 1], k)
    BY <1>7, <1>8
  <1> QED
    BY <1>2, <1>9 DEF sum, Next, n

(* The value of a data point in a report has the bytes the data point has.  *)
LEMMA ValueIs ==
    ASSUME NEW attrs, AreAttrs(attrs), NEW dp \in DataPoints \ Booleans
    PROVE  /\ ValueBytes(attrs, dp) \in Seq(Bytes)
           /\ Len(ValueBytes(attrs, dp)) = IF dp \in DOMAIN attrs THEN DpLength[dp] ELSE 0
  <1>1. CASE dp \notin DOMAIN attrs
    <2>1. << >> \in Seq(Bytes) /\ Len(<< >>) = 0
      BY EmptySeq
    <2> QED
      BY <1>1, <2>1 DEF ValueBytes
  <1>2. CASE dp \in DOMAIN attrs /\ dp < BLOB
    <2> DEFINE a == attrs[dp]
    <2>1. a \in Bytes
      BY <1>2 DEF AreAttrs
    <2>2. DpLength[dp] = 1
      BY <1>2, LengthIs
    <2>3. ValueBytes(attrs, dp) = <<a>>
      BY <1>2 DEF ValueBytes
    <2> HIDE DEF a
    <2> QED
      BY <1>2, <2>1, <2>2, <2>3
  <1>3. CASE dp \in DOMAIN attrs /\ ~(dp < BLOB)
    <2>1. attrs[dp] \in Seq(Bytes) /\ Len(attrs[dp]) = DpLength[dp]
      BY <1>3 DEF AreAttrs
    <2>2. ValueBytes(attrs, dp) = attrs[dp]
      BY <1>3 DEF ValueBytes
    <2> QED
      BY <1>3, <2>1, <2>2
  <1> QED
    BY <1>1, <1>2, <1>3

\* v are the values of attrs, each where the lengths of those before it end.
HoldsValues(v, attrs) ==
    /\ v \in Seq(Bytes) /\ Lengths(DOMAIN attrs)[30] = Len(v)
    /\ \A dp \in DOMAIN attrs \ Booleans :
         /\ Lengths(DOMAIN attrs)[dp - 17] \in Nat
         /\ Lengths(DOMAIN attrs)[dp - 17] + DpLength[dp] <= Len(v)
         /\ \A j \in 1..DpLength[dp] :
              v[Lengths(DOMAIN attrs)[dp - 17] + j] = ValueBytes(attrs, dp)[j]

LEMMA ValuesAre ==
    ASSUME NEW attrs, AreAttrs(attrs)
    PROVE  HoldsValues(Values(attrs), attrs)
  <1> DEFINE n    == 30
             dps  == DOMAIN attrs
             enc  == [k \in 1..n |-> ValueBytes(attrs, 16 + k)]
             flat == FlattenSeq(enc)
             T    == Seq(Bytes)
  <1>1. n \in Nat /\ n = 30
    OBVIOUS
  <1>2. Values(attrs) = flat
    BY DEF Values
  <1> HIDE DEF n
  <1>3. \A k \in 1..n : 16 + k \in DataPoints \ Booleans
    BY <1>1 DEF DataPoints, Booleans
  <1>4. \A k \in 1..n : /\ enc[k] = ValueBytes(attrs, 16 + k) /\ enc[k] \in T
                        /\ Len(enc[k]) = IF 16 + k \in dps THEN DpLength[16 + k] ELSE 0
    <2> TAKE k \in 1..n
    <2> DEFINE dp == 16 + k
    <2>1. dp \in DataPoints \ Booleans
      BY <1>3
    <2>2. enc[k] = ValueBytes(attrs, dp)
      OBVIOUS
    <2> HIDE DEF dp, enc
    <2>3. /\ ValueBytes(attrs, dp) \in T
          /\ Len(ValueBytes(attrs, dp)) = IF dp \in dps THEN DpLength[dp] ELSE 0
      BY <2>1, ValueIs
    <2> QED
      BY <2>2, <2>3 DEF dp
  <1>5. enc = [k \in 1..n |-> enc[k]]
    OBVIOUS
  <1> HIDE DEF enc, T
  <1>6. enc \in Seq(T) /\ Len(enc) = n
    <2>1. [k \in 1..n |-> enc[k]] \in Seq(T) /\ Len([k \in 1..n |-> enc[k]]) = n
      BY <1>1, <1>4, SMTT(30)
    <2> QED
      BY <1>5, <2>1, Zenon
  <1>7. PICK f : Joins(f, enc, n)
    <2>1. n \in Nat /\ \A k \in 1..n : enc[k] \in Seq(Bytes)
      BY <1>1, <1>4 DEF T
    <2> QED
      BY <2>1, JoinsExist
  <1>8. flat = f[n] /\ flat \in Seq(Bytes)
    <2>1. n \in Nat /\ enc \in Seq(Seq(Bytes)) /\ Len(enc) = n
      BY <1>1, <1>6 DEF T
    <2>2. flat = f[n]
      BY <1>7, <2>1, FlatIs
    <2>3. n \in 0..n
      BY <1>1
    <2>4. f[n] \in Seq(Bytes)
      BY <1>7, <2>3 DEF Joins
    <2> HIDE DEF flat
    <2> QED
      BY <2>2, <2>4
  <1> HIDE DEF flat
  <1> DEFINE L(k) == Lengths(dps)[k]
  <1>9. L(0) = 0 /\ \A k \in 1..n : L(k) = L(k - 1) + Len(enc[k]) /\ Len(enc[k]) \in Nat
    <2>1. L(0) = 0
      BY LengthsAre
    <2>2. ASSUME NEW k \in 1..n, L(k - 1) \in Nat
          PROVE  L(k) = L(k - 1) + Len(enc[k]) /\ Len(enc[k]) \in Nat
      <3>1. L(k) = IF 16 + k \in dps THEN L(k - 1) + DpLength[16 + k] ELSE L(k - 1)
        BY <1>1, LengthsAre
      <3>2. DpLength[16 + k] \in Nat
        BY <1>3, LengthIs
      <3> HIDE DEF L
      <3> QED
        BY <1>4, <2>2, <3>1, <3>2
    <2> DEFINE S == {k \in 0..n : L(k) \in Nat}
    <2>3. ASSUME NEW k \in 1..n, k - 1 \in S PROVE k \in S
      <3>1. L(k - 1) \in Nat
        BY <2>3
      <3>2. L(k) = L(k - 1) + Len(enc[k]) /\ Len(enc[k]) \in Nat
        BY <2>2, <3>1
      <3> HIDE DEF L
      <3> QED
        BY <1>1, <3>1, <3>2
    <2>4. 0 \in S
      BY <1>1, <2>1
    <2> HIDE DEF S
    <2>5. \A k \in 0..n : k \in S
      BY <1>1, <2>3, <2>4, Reaches
    <2>6. \A k \in 1..n : L(k - 1) \in Nat
      <3> TAKE k \in 1..n
      <3>1. k - 1 \in 0..n
        BY <1>1
      <3>2. k - 1 \in S
        BY <2>5, <3>1
      <3> QED
        BY <3>2 DEF S
    <2> QED
      BY <2>1, <2>2, <2>6
  <1>10. \A k \in 0..n : L(k) \in Nat /\ Len(f[k]) = L(k)
    <2> HIDE DEF L
    <2> DEFINE S == {k \in 0..n : L(k) \in Nat /\ Len(f[k]) = L(k)}
    <2>1. 0 \in S
      <3>1. Len(f[0]) = 0
        BY <1>7, EmptySeq DEF Joins
      <3>2. 0 \in 0..n /\ 0 \in Nat
        BY <1>1
      <3> QED
        BY <1>9, <3>1, <3>2
    <2>2. ASSUME NEW k \in 1..n, k - 1 \in S PROVE k \in S
      <3>1. PartAt(f, enc, n, k)
        BY <1>1, <1>7, PartsOfJoined
      <3>2. Len(f[k]) = Len(f[k - 1]) + Len(enc[k])
        BY <3>1 DEF PartAt
      <3>3. L(k - 1) \in Nat /\ Len(f[k - 1]) = L(k - 1)
        BY <2>2
      <3> HIDE DEF S
      <3>4. L(k) = L(k - 1) + Len(enc[k]) /\ Len(enc[k]) \in Nat
        BY <1>9
      <3>5. L(k) \in Nat /\ Len(f[k]) = L(k) /\ k \in 0..n
        BY <1>1, <3>2, <3>3, <3>4
      <3> QED
        BY <3>5 DEF S
    <2> HIDE DEF S
    <2>3. \A k \in 0..n : k \in S
      BY <1>1, <2>1, <2>2, Reaches
    <2> QED
      BY <2>3 DEF S
  <1>11. ASSUME NEW dp \in dps \ Booleans
         PROVE  /\ L(dp - 17) \in Nat /\ L(dp - 17) + DpLength[dp] <= Len(flat)
                /\ \A j \in 1..DpLength[dp] : flat[L(dp - 17) + j] = ValueBytes(attrs, dp)[j]
    <2>1. dp \in DataPoints \ Booleans
      BY DEF AreAttrs
    <2>2. dp \in 17..46
      BY <2>1, LengthIs
    <2> DEFINE k == dp - 16
    <2>3. k \in 1..n /\ k \in 0..n /\ k - 1 \in 0..n /\ 16 + k = dp /\ k - 1 = dp - 17
      BY <1>1, <2>2
    <2> HIDE DEF k, L
    <2>4. PartAt(f, enc, n, k)
      BY <1>1, <1>7, <2>3, PartsOfJoined
    <2>5. enc[k] = ValueBytes(attrs, dp) /\ Len(enc[k]) = DpLength[dp]
      BY <1>4, <2>3
    <2>6. /\ Len(f[k]) = Len(f[k - 1]) + DpLength[dp] /\ Len(f[k]) <= Len(flat)
          /\ \A j \in 1..DpLength[dp] : flat[Len(f[k - 1]) + j] = ValueBytes(attrs, dp)[j]
      BY <1>8, <2>4, <2>5 DEF PartAt
    <2>7. L(dp - 17) \in Nat /\ Len(f[k - 1]) = L(dp - 17)
      BY <1>10, <2>3
    <2> QED
      BY <2>6, <2>7
  <1>12. L(30) = Len(flat)
    <2>1. n \in 0..n
      BY <1>1
    <2>2. Len(f[n]) = L(n)
      BY <1>10, <2>1
    <2> QED
      BY <1>1, <1>8, <2>2
  <1> QED
    BY <1>2, <1>8, <1>11, <1>12 DEF HoldsValues

(* The flags of data points select these and no other.                      *)
LEMMA FlagsSelect ==
    ASSUME NEW dps, dps \subseteq DataPoints
    PROVE  /\ AttrFlags(dps) \in Seq(Nat) /\ Len(AttrFlags(dps)) = 6
           /\ Selected(AttrFlags(dps)) = dps
  <1> DEFINE flags == AttrFlags(dps)
             count == 6
  <1>1. count \in Nat /\ flags = BytesOf(dps, count)
    BY DEF AttrFlags
  <1>2. \A dp \in DataPoints : dp \in Nat /\ dp < 8 * count
    BY DEF DataPoints
  <1> HIDE DEF flags, count
  <1>3. /\ flags \in Seq(Nat) /\ Len(flags) = count
        /\ \A i \in Nat : i < 8 * count => (BitOf(flags, i) <=> i \in dps)
    BY <1>1, BytesHave
  <1>4. \A dp \in DataPoints : Flagged(flags, dp) <=> dp \in dps
    BY <1>2, <1>3 DEF Flagged
  <1>5. Selected(flags) = dps
    BY <1>4 DEF Selected
  <1> QED
    BY <1>3, <1>5 DEF flags, count

(* Each boolean of a report is the bit at its place.                        *)
LEMMA BooleansPacked ==
    ASSUME NEW attrs, AreAttrs(attrs)
    PROVE  /\ Packed(attrs) \in Seq(Nat) /\ Len(Packed(attrs)) = BoolBytes(DOMAIN attrs)
           /\ \A dp \in DOMAIN attrs \intersect Booleans :
                BitOf(Packed(attrs), PlaceOf(dp, DOMAIN attrs)) = attrs[dp]
  <1> DEFINE dps   == DOMAIN attrs
             bits  == {PlaceOf(dp, dps) : dp \in {d \in dps \intersect Booleans : attrs[d]}}
             count == BoolBytes(dps)
  <1>1. Packed(attrs) = BytesOf(bits, count)
    BY DEF Packed
  <1>2. /\ count \in Nat
        /\ \A dp \in dps \intersect Booleans :
             PlaceOf(dp, dps) \in Nat /\ PlaceOf(dp, dps) < 8 * count
        /\ \A d, e \in dps \intersect Booleans : PlaceOf(d, dps) = PlaceOf(e, dps) => d = e
    BY BooleansIn
  <1>3. \A dp \in dps \intersect Booleans : PlaceOf(dp, dps) \in bits <=> attrs[dp]
    BY <1>2
  <1> HIDE DEF bits, count
  <1>4. /\ BytesOf(bits, count) \in Seq(Nat) /\ Len(BytesOf(bits, count)) = count
        /\ \A i \in Nat : i < 8 * count => (BitOf(BytesOf(bits, count), i) <=> i \in bits)
    BY <1>2, BytesHave
  <1>5. ASSUME NEW dp \in dps \intersect Booleans
        PROVE  BitOf(Packed(attrs), PlaceOf(dp, dps)) = attrs[dp]
    <2>1. BitOf(Packed(attrs), PlaceOf(dp, dps)) <=> attrs[dp]
      BY <1>1, <1>2, <1>3, <1>4
    <2>2. attrs[dp] \in BOOLEAN
      BY DEF AreAttrs
    <2>3. BitOf(Packed(attrs), PlaceOf(dp, dps)) \in BOOLEAN
      BY DEF BitOf, Bit
    <2> QED
      BY <2>1, <2>2, <2>3
  <1> QED
    BY <1>1, <1>4, <1>5 DEF count

\* What stands where in the report of attrs.
IsReportOf(p, attrs) ==
    /\ p \in Seq(Nat) /\ p[1] = REPORT
    /\ BoolBytes(DOMAIN attrs) \in Nat /\ Lengths(DOMAIN attrs)[30] \in Nat
    /\ Len(p) = 7 + BoolBytes(DOMAIN attrs) + Lengths(DOMAIN attrs)[30]
    /\ \A j \in 1..6 : p[1 + j] = AttrFlags(DOMAIN attrs)[j]
    /\ \A j \in 1..BoolBytes(DOMAIN attrs) : p[7 + j] = Packed(attrs)[j]
    /\ \A j \in 1..Lengths(DOMAIN attrs)[30] :
         p[7 + BoolBytes(DOMAIN attrs) + j] = Values(attrs)[j]

LEMMA ReportIs == ASSUME NEW attrs, AreAttrs(attrs) PROVE IsReportOf(ReportOf(attrs), attrs)
  <1> DEFINE dps   == DOMAIN attrs
             count == BoolBytes(dps)
             l     == Lengths(dps)[30]
             a     == <<REPORT>>
             flags == AttrFlags(dps)
             b     == Packed(attrs)
             v     == Values(attrs)
             u     == Joined(a, flags)
             w     == Joined(u, b)
             p     == Joined(w, v)
  <1>1. ReportOf(attrs) = p
    BY DEF ReportOf, Joined
  <1>2. a \in Seq(Nat) /\ Len(a) = 1 /\ a[1] = REPORT
    BY DEF REPORT
  <1>3. flags \in Seq(Nat) /\ Len(flags) = 6
    <2>1. dps \subseteq DataPoints
      BY DEF AreAttrs
    <2> QED
      BY <2>1, FlagsSelect
  <1>4. count \in Nat /\ b \in Seq(Nat) /\ Len(b) = count
    BY BooleansPacked, BooleansIn
  <1>5. l \in Nat /\ v \in Seq(Nat) /\ Len(v) = l
    <2>1. v \in Seq(Bytes) /\ l = Len(v)
      BY ValuesAre DEF HoldsValues
    <2>2. Bytes \subseteq Nat
      BY DEF Bytes
    <2> HIDE DEF v, l
    <2>3. v \in Seq(Nat)
      BY <2>1, <2>2, SeqMonotonic
    <2> QED
      BY <2>1, <2>3, LenProperties
  <1> HIDE DEF a, flags, b, v, l, count
  <1>6. /\ u \in Seq(Nat) /\ Len(u) = 7 /\ u[1] = REPORT
        /\ \A j \in 1..6 : u[1 + j] = flags[j]
    <2>1. /\ u \in Seq(Nat) /\ Len(u) = 1 + 6
          /\ \A j \in 1..1 : u[j] = a[j]
          /\ \A j \in 1..6 : u[1 + j] = flags[j]
      <3>1. IsJoined(Nat, a, flags)
        BY <1>2, <1>3, Behind
      <3> QED
        BY <1>2, <1>3, <3>1 DEF IsJoined
    <2>2. 1 \in 1..1 /\ 1 + 6 = 7
      OBVIOUS
    <2> HIDE DEF u
    <2> QED
      BY <1>2, <2>1, <2>2
  <1> HIDE DEF u
  <1>7. /\ w \in Seq(Nat) /\ Len(w) = 7 + count
        /\ \A j \in 1..7 : w[j] = u[j]
        /\ \A j \in 1..count : w[7 + j] = b[j]
    <2>1. IsJoined(Nat, u, b)
      BY <1>4, <1>6, Behind
    <2> QED
      BY <1>4, <1>6, <2>1 DEF IsJoined
  <1> HIDE DEF w
  <1>8. /\ p \in Seq(Nat) /\ Len(p) = 7 + count + l
        /\ \A j \in 1..(7 + count) : p[j] = w[j]
        /\ \A j \in 1..l : p[7 + count + j] = v[j]
    <2>1. IsJoined(Nat, w, v)
      BY <1>5, <1>7, Behind
    <2>2. /\ p \in Seq(Nat) /\ Len(p) = Len(w) + Len(v)
          /\ \A j \in 1..Len(w) : p[j] = w[j]
          /\ \A j \in 1..Len(v) : p[Len(w) + j] = v[j]
      BY <2>1 DEF IsJoined
    <2>3. Len(w) = 7 + count /\ Len(v) = l
      BY <1>5, <1>7
    <2> HIDE DEF p
    <2> QED
      BY <2>2, <2>3
  <1> HIDE DEF p
  <1>9. /\ 1 \in 1..7 /\ 1 \in 1..(7 + count)
        /\ \A j \in 1..6 : 1 + j \in 1..7 /\ 1 + j \in 1..(7 + count)
        /\ \A j \in 1..count : 7 + j \in 1..(7 + count)
    BY <1>4
  <1>10. p[1] = REPORT
    <2>1. p[1] = w[1]
      BY <1>8, <1>9
    <2>2. w[1] = u[1]
      BY <1>7, <1>9
    <2> QED
      BY <1>6, <2>1, <2>2
  <1>11. \A j \in 1..6 : p[1 + j] = flags[j]
    <2> TAKE j \in 1..6
    <2>1. p[1 + j] = w[1 + j]
      BY <1>8, <1>9
    <2>2. w[1 + j] = u[1 + j]
      BY <1>7, <1>9
    <2> QED
      BY <1>6, <2>1, <2>2
  <1>12. \A j \in 1..count : p[7 + j] = b[j]
    BY <1>7, <1>8, <1>9
  <1> QED
    BY <1>1, <1>4, <1>5, <1>8, <1>10, <1>11, <1>12 DEF IsReportOf, count, l, flags, b, v

(* The same of a part that is named by its first and last place.            *)
LEMMA PartFromTo ==
    ASSUME NEW S, NEW s \in Seq(S), NEW t \in Seq(S), NEW a \in Nat, NEW n \in Nat,
           Len(t) = n, a + n <= Len(s), \A j \in 1..n : s[a + j] = t[j]
    PROVE  SubSeq(s, a + 1, a + n) = t
  <1>1. Slice(s, a, a + n) = t
    BY PartIs
  <1>2. Len(s) \in Nat
    BY LenProperties
  <1>3. Min2(a + n, Len(s)) = a + n
    BY <1>2 DEF Min2
  <1> QED
    BY <1>1, <1>3 DEF Slice

(* The flags of a report select the attributes it was made of.              *)
LEMMA FlagsRead ==
    ASSUME NEW attrs, AreAttrs(attrs), NEW d \in Seq(Nat), Len(d) >= 7,
           \A j \in 1..6 : d[1 + j] = AttrFlags(DOMAIN attrs)[j]
    PROVE  SubSeq(d, 2, 7) = AttrFlags(DOMAIN attrs) /\ Selected(SubSeq(d, 2, 7)) = DOMAIN attrs
  <1> DEFINE dps == DOMAIN attrs
             t   == AttrFlags(dps)
             a   == 1
             n   == 6
  <1>1. dps \subseteq DataPoints
    BY DEF AreAttrs
  <1>2. t \in Seq(Nat) /\ Len(t) = n /\ Selected(t) = dps
    BY <1>1, FlagsSelect
  <1>3. a \in Nat /\ n \in Nat /\ Len(t) = n /\ a + n <= Len(d) /\ a + 1 = 2 /\ a + n = 7
    BY <1>2
  <1>4. \A j \in 1..n : d[a + j] = t[j]
    OBVIOUS
  <1> HIDE DEF a, n, t
  <1>5. SubSeq(d, a + 1, a + n) = t
    BY <1>2, <1>3, <1>4, PartFromTo
  <1>6. SubSeq(d, 2, 7) = t
    BY <1>3, <1>5
  <1> QED
    BY <1>2, <1>6 DEF t

\* What stands where behind the flags.
HoldsData(data, attrs) ==
    /\ data \in Seq(Nat)
    /\ BoolBytes(DOMAIN attrs) \in Nat /\ Lengths(DOMAIN attrs)[30] \in Nat
    /\ Len(data) = BoolBytes(DOMAIN attrs) + Lengths(DOMAIN attrs)[30]
    /\ \A j \in 1..BoolBytes(DOMAIN attrs) : data[j] = Packed(attrs)[j]
    /\ \A j \in 1..Lengths(DOMAIN attrs)[30] :
         data[BoolBytes(DOMAIN attrs) + j] = Values(attrs)[j]

(* The value of a data point stands where those before it end.              *)
LEMMA ValueThere ==
    ASSUME NEW attrs, AreAttrs(attrs), NEW data, HoldsData(data, attrs),
           NEW dp \in DOMAIN attrs \ Booleans
    PROVE  /\ ValuesAt(DOMAIN attrs, dp) \in Nat /\ DpLength[dp] \in Nat
           /\ ValuesAt(DOMAIN attrs, dp) + DpLength[dp] <= Len(data)
           /\ \A j \in 1..DpLength[dp] :
                data[ValuesAt(DOMAIN attrs, dp) + j] = ValueBytes(attrs, dp)[j]
  <1> DEFINE dps   == DOMAIN attrs
             count == BoolBytes(dps)
             all   == Lengths(dps)[30]
             at    == Lengths(dps)[dp - 17]
             v     == Values(attrs)
             l     == DpLength[dp]
  <1>1. ValuesAt(dps, dp) = count + at
    BY DEF ValuesAt
  <1>2. l \in Nat
    <2>1. dp \in DataPoints \ Booleans
      BY DEF AreAttrs
    <2> QED
      BY <2>1, LengthIs
  <1>3. /\ at \in Nat /\ all = Len(v) /\ at + l <= all
        /\ \A j \in 1..l : v[at + j] = ValueBytes(attrs, dp)[j]
    BY ValuesAre DEF HoldsValues
  <1>4. /\ count \in Nat /\ all \in Nat /\ Len(data) = count + all
        /\ \A j \in 1..all : data[count + j] = v[j]
    BY DEF HoldsData
  <1> HIDE DEF count, all, at, v, l
  <1>5. ASSUME NEW j \in 1..l PROVE data[count + at + j] = ValueBytes(attrs, dp)[j]
    <2>1. at + j \in 1..all /\ count + (at + j) = count + at + j
      BY <1>2, <1>3, <1>4
    <2>2. data[count + (at + j)] = v[at + j]
      BY <1>4, <2>1
    <2> QED
      BY <1>3, <2>1, <2>2
  <1>6. count + at \in Nat /\ count + at + l <= Len(data)
    BY <1>2, <1>3, <1>4
  <1> QED
    BY <1>1, <1>2, <1>5, <1>6 DEF l

(* Each attribute is read as it is.                                         *)
LEMMA AttrRead ==
    ASSUME NEW attrs, AreAttrs(attrs), NEW data, HoldsData(data, attrs), NEW dp \in DOMAIN attrs
    PROVE  ReadAttr(DOMAIN attrs, data, dp) = attrs[dp]
  <1> DEFINE dps  == DOMAIN attrs
             from == ValuesAt(dps, dp)
  <1>1. CASE dp \in Booleans
    <2> DEFINE n == BoolBytes(dps)
               t == Packed(attrs)
               a == 0
    <2>1. /\ n \in Nat /\ data \in Seq(Nat) /\ Lengths(dps)[30] \in Nat
          /\ Len(data) = n + Lengths(dps)[30] /\ \A j \in 1..n : data[j] = t[j]
      BY DEF HoldsData
    <2>2. /\ t \in Seq(Nat) /\ Len(t) = n
          /\ BitOf(t, PlaceOf(dp, dps)) = attrs[dp]
      BY <1>1, BooleansPacked
    <2>3. ReadAttr(dps, data, dp) = BitOf(SubSeq(data, 1, n), PlaceOf(dp, dps))
      BY <1>1 DEF ReadAttr
    <2> HIDE DEF n, t
    <2>4. /\ a \in Nat /\ a + n <= Len(data) /\ a + 1 = 1 /\ a + n = n
          /\ \A j \in 1..n : data[a + j] = t[j]
      BY <2>1
    <2> HIDE DEF a
    <2>5. SubSeq(data, a + 1, a + n) = t
      BY <2>1, <2>2, <2>4, PartFromTo
    <2>6. SubSeq(data, 1, n) = t
      BY <2>4, <2>5
    <2> QED
      BY <2>2, <2>3, <2>6
  <1>2. CASE dp \notin Booleans /\ dp < BLOB
    <2>1. dp \in DataPoints \ Booleans
      BY <1>2 DEF AreAttrs
    <2>2. DpLength[dp] = 1
      BY <1>2, <2>1, LengthIs
    <2>3. \A j \in 1..DpLength[dp] : data[from + j] = ValueBytes(attrs, dp)[j]
      BY <1>2, ValueThere
    <2>4. 1 \in 1..1
      OBVIOUS
    <2>5. data[from + 1] = ValueBytes(attrs, dp)[1]
      BY <2>2, <2>3, <2>4
    <2>6. ReadAttr(dps, data, dp) = data[from + 1]
      BY <1>2 DEF ReadAttr
    <2>7. ValueBytes(attrs, dp) = <<attrs[dp]>>
      BY <1>2 DEF ValueBytes
    <2> HIDE DEF from
    <2> QED
      BY <2>5, <2>6, <2>7
  <1>3. CASE dp \notin Booleans /\ ~(dp < BLOB)
    <2> DEFINE n == DpLength[dp]
               t == attrs[dp]
    <2>1. t \in Seq(Bytes) /\ Len(t) = n
      BY <1>3 DEF AreAttrs
    <2>2. t \in Seq(Nat)
      <3>1. Bytes \subseteq Nat
        BY DEF Bytes
      <3> HIDE DEF t
      <3> QED
        BY <2>1, <3>1, SeqMonotonic
    <2>3. ValueBytes(attrs, dp) = t
      BY <1>3 DEF ValueBytes
    <2>4. /\ from \in Nat /\ n \in Nat /\ from + n <= Len(data)
          /\ \A j \in 1..n : data[from + j] = t[j]
      BY <1>3, <2>3, ValueThere
    <2>5. data \in Seq(Nat)
      BY DEF HoldsData
    <2>6. ReadAttr(dps, data, dp) = SubSeq(data, from + 1, from + n)
      BY <1>3 DEF ReadAttr
    <2> HIDE DEF n, t, from
    <2>7. SubSeq(data, from + 1, from + n) = t
      BY <2>1, <2>2, <2>4, <2>5, PartFromTo
    <2> QED
      BY <2>6, <2>7 DEF t
  <1> QED
    BY <1>1, <1>2, <1>3

\* What stands behind the first bytes.
IsRest(S, s, a, n) ==
    /\ SubSeq(s, a + 1, a + n) \in Seq(S) /\ Len(SubSeq(s, a + 1, a + n)) = n
    /\ \A j \in 1..n : SubSeq(s, a + 1, a + n)[j] = s[a + j]

LEMMA RestIs ==
    ASSUME NEW S, NEW s \in Seq(S), NEW a \in Nat, NEW n \in Nat, a + n <= Len(s)
    PROVE  IsRest(S, s, a, n)
  <1>1. IsSlice(S, s, a, n)
    BY SliceIs
  <1>2. Len(s) \in Nat
    BY LenProperties
  <1>3. Min2(a + n, Len(s)) = a + n
    BY <1>2 DEF Min2
  <1>4. Slice(s, a, a + n) = SubSeq(s, a + 1, a + n)
    BY <1>3 DEF Slice
  <1> QED
    BY <1>1, <1>4 DEF IsSlice, IsRest

LEMMA DataThere ==
    ASSUME NEW attrs, NEW p, IsReportOf(p, attrs)
    PROVE  HoldsData(SubSeq(p, 8, Len(p)), attrs)
           /\ Len(SubSeq(p, 8, Len(p))) = Len(p) - 7
           /\ \A j \in 1..(Len(p) - 7) : SubSeq(p, 8, Len(p))[j] = p[7 + j]
  <1> DEFINE dps   == DOMAIN attrs
             count == BoolBytes(dps)
             l     == Lengths(dps)[30]
             n     == count + l
             data  == SubSeq(p, 8, Len(p))
             a     == 7
  <1>1. /\ p \in Seq(Nat) /\ count \in Nat /\ l \in Nat /\ Len(p) = 7 + count + l
        /\ \A j \in 1..count : p[7 + j] = Packed(attrs)[j]
        /\ \A j \in 1..l : p[7 + count + j] = Values(attrs)[j]
    BY DEF IsReportOf
  <1> HIDE DEF count, l
  <1>2. /\ a \in Nat /\ n \in Nat /\ a + n <= Len(p) /\ a = 7 /\ a + 1 = 8 /\ a + n = Len(p)
        /\ Len(p) - 7 = n
    BY <1>1
  <1> HIDE DEF a, n
  <1>3. IsRest(Nat, p, a, n)
    BY <1>1, <1>2, RestIs
  <1>4. data \in Seq(Nat) /\ Len(data) = n /\ \A j \in 1..n : data[j] = p[7 + j]
    BY <1>2, <1>3 DEF IsRest
  <1> HIDE DEF data
  <1>5. \A j \in 1..count : data[j] = Packed(attrs)[j]
    <2> TAKE j \in 1..count
    <2>1. j \in 1..n
      BY <1>1 DEF n
    <2> QED
      BY <1>1, <1>4, <2>1
  <1>6. \A j \in 1..l : data[count + j] = Values(attrs)[j]
    <2> TAKE j \in 1..l
    <2>1. count + j \in 1..n /\ 7 + (count + j) = 7 + count + j
      BY <1>1 DEF n
    <2>2. data[count + j] = p[7 + (count + j)]
      BY <1>4, <2>1
    <2> QED
      BY <1>1, <2>1, <2>2
  <1>7. Len(data) = count + l
    BY <1>4 DEF n
  <1>8. HoldsData(data, attrs)
    BY <1>1, <1>4, <1>5, <1>6, <1>7 DEF HoldsData, count, l
  <1> QED
    BY <1>2, <1>4, <1>8 DEF data

(* A payload that begins like the report of attrs is read as attrs when it  *)
(* is as long as the report, and not at all when it is not.                 *)
LEMMA PushRead ==
    ASSUME NEW attrs, AreAttrs(attrs), NEW p, IsReportOf(p, attrs), NEW d \in Seq(Nat),
           \A j \in 1..Len(d) : j <= Len(p) => d[j] = p[j]
    PROVE  ProcessPush(d) = IF Len(d) = Len(p) THEN attrs ELSE NoAttrs
  <1> DEFINE dps   == DOMAIN attrs
             count == BoolBytes(dps)
             l     == Lengths(dps)[30]
             flags == AttrFlags(dps)
             data  == SubSeq(d, 8, Len(d))
  <1>1. /\ p \in Seq(Nat) /\ count \in Nat /\ l \in Nat /\ Len(p) = 7 + count + l
        /\ p[1] = REPORT /\ \A j \in 1..6 : p[1 + j] = flags[j]
    BY DEF IsReportOf
  <1>2. Len(d) \in Nat
    BY LenProperties
  <1>3. WellFormed(dps, data) <=> Len(data) = count + l
    BY DEF WellFormed
  <1> HIDE DEF count, l, flags
  <1>4. CASE Len(d) < 7
    <2>1. Len(d) # Len(p)
      BY <1>1, <1>2, <1>4
    <2>2. ProcessPush(d) = NoAttrs
      BY <1>4 DEF ProcessPush
    <2> QED
      BY <2>1, <2>2
  <1>5. CASE Len(d) >= 7
    <2>1. d[1] = REPORT /\ \A j \in 1..6 : d[1 + j] = flags[j]
      <3> DEFINE k == Len(d)
                 m == Len(p)
      <3>1. k \in Nat /\ m \in Nat /\ k >= 7 /\ m >= 7
        BY <1>1, <1>2, <1>5
      <3> HIDE DEF k, m
      <3>2. 1 \in 1..k /\ 1 <= m
        BY <3>1
      <3>3. ASSUME NEW j \in 1..6 PROVE d[1 + j] = flags[j]
        <4>1. 1 + j \in 1..k /\ 1 + j <= m
          BY <3>1
        <4>2. d[1 + j] = p[1 + j]
          BY <4>1 DEF k, m
        <4> QED
          BY <1>1, <4>2
      <3> QED
        BY <1>1, <3>2, <3>3 DEF k, m
    <2>2. Selected(SubSeq(d, 2, 7)) = dps
      <3>1. Len(d) >= 7 /\ \A j \in 1..6 : d[1 + j] = AttrFlags(dps)[j]
        BY <1>5, <2>1 DEF flags
      <3> QED
        BY <3>1, FlagsRead
    <2>3. ProcessPush(d) = IF WellFormed(dps, data)
                           THEN [dp \in dps |-> ReadAttr(dps, data, dp)] ELSE NoAttrs
      <3>1. ~(Len(d) < 7)
        BY <1>2, <1>5
      <3> QED
        BY <2>1, <2>2, <3>1 DEF ProcessPush
    <2>4. Len(data) = Len(d) - 7
      <3> DEFINE a == 7
                 n == Len(d) - 7
      <3>1. a \in Nat /\ n \in Nat /\ a + n <= Len(d) /\ a + 1 = 8 /\ a + n = Len(d)
        BY <1>2, <1>5
      <3> HIDE DEF a, n
      <3>2. IsRest(Nat, d, a, n)
        BY <3>1, RestIs
      <3> QED
        BY <3>1, <3>2 DEF IsRest, n
    <2>5. WellFormed(dps, data) <=> Len(d) = Len(p)
      <3> HIDE DEF data
      <3> QED
        BY <1>1, <1>2, <1>3, <2>4
    <2>6. CASE Len(d) = Len(p)
      <3>1. \A j \in 1..Len(p) : d[j] = p[j]
        BY <1>2, <2>6
      <3>2. d = p
        BY <1>1, <2>6, <3>1, SeqEqual
      <3>3. HoldsData(data, attrs)
        BY <3>2, DataThere
      <3> HIDE DEF data
      <3>4. \A dp \in dps : ReadAttr(dps, data, dp) = attrs[dp]
        BY <3>3, AttrRead
      <3>5. attrs = [dp \in dps |-> attrs[dp]]
        BY DEF AreAttrs
      <3>6. [dp \in dps |-> ReadAttr(dps, data, dp)] = [dp \in dps |-> attrs[dp]]
        BY <3>4
      <3> QED
        BY <2>3, <2>5, <2>6, <3>5, <3>6, Zenon
    <2>7. CASE Len(d) # Len(p)
      BY <2>3, <2>5, <2>7
    <2> QED
      BY <2>6, <2>7
  <1> QED
    BY <1>2, <1>4, <1>5

(* The value of a data point is found in a whole report where _process_push *)
(* takes it from.                                                           *)
LEMMA OffsetThere ==
    ASSUME NEW attrs, AreAttrs(attrs), NEW p, IsReportOf(p, attrs),
           NEW dp \in DOMAIN attrs \ Booleans,
           NEW from, from = 7 + DataOffset(SubSeq(p, 2, 7), dp)
    PROVE  SubSeq(p, from + 1, from + DpLength[dp]) = ValueBytes(attrs, dp)
  <1> DEFINE dps  == DOMAIN attrs
             at   == ValuesAt(dps, dp)
             n    == DpLength[dp]
             t    == ValueBytes(attrs, dp)
             data == SubSeq(p, 8, Len(p))
             l    == Len(p)
  <1>1. p \in Seq(Nat) /\ l \in Nat /\ l >= 7 /\ \A j \in 1..6 : p[1 + j] = AttrFlags(dps)[j]
    <2> DEFINE count == BoolBytes(dps)
               all   == Lengths(dps)[30]
    <2>1. /\ p \in Seq(Nat) /\ count \in Nat /\ all \in Nat /\ l = 7 + count + all
          /\ \A j \in 1..6 : p[1 + j] = AttrFlags(dps)[j]
      BY DEF IsReportOf
    <2> HIDE DEF count, all, l
    <2> QED
      BY <2>1
  <1>2. from = 7 + at
    <2>1. Selected(SubSeq(p, 2, 7)) = dps
      BY <1>1, FlagsRead
    <2> QED
      BY <2>1 DEF DataOffset
  <1>3. HoldsData(data, attrs) /\ Len(data) = l - 7 /\ \A j \in 1..(l - 7) : data[j] = p[7 + j]
    BY DataThere
  <1> HIDE DEF data
  <1>4. at \in Nat /\ n \in Nat /\ at + n <= Len(data) /\ \A j \in 1..n : data[at + j] = t[j]
    BY <1>3, ValueThere
  <1>5. t \in Seq(Nat) /\ Len(t) = n
    <2>1. dp \in DataPoints \ Booleans
      BY DEF AreAttrs
    <2>2. t \in Seq(Bytes) /\ Len(t) = n
      BY <2>1, ValueIs
    <2>3. Bytes \subseteq Nat
      BY DEF Bytes
    <2> HIDE DEF t
    <2> QED
      BY <2>2, <2>3, SeqMonotonic
  <1> HIDE DEF at, n, t, l
  <1>6. at \in Nat /\ n \in Nat /\ l \in Nat /\ at + n <= l - 7
    BY <1>1, <1>3, <1>4
  <1>7. ASSUME NEW j \in 1..n PROVE p[from + j] = t[j]
    <2>1. at + j \in 1..(l - 7) /\ 7 + (at + j) = from + j
      <3>1. at + j \in 1..(l - 7) /\ 7 + (at + j) = (7 + at) + j
        BY <1>6
      <3> QED
        BY <1>2, <3>1
    <2>2. data[at + j] = p[7 + (at + j)]
      BY <1>3, <2>1
    <2> QED
      BY <1>4, <2>1, <2>2
  <1>8. from \in Nat /\ from + n <= Len(p)
    <2>1. 7 + at \in Nat /\ (7 + at) + n <= l
      BY <1>6
    <2> QED
      BY <1>2, <2>1 DEF l
  <1>9. SubSeq(p, from + 1, from + n) = t
    BY <1>1, <1>4, <1>5, <1>7, <1>8, PartFromTo
  <1> QED
    BY <1>9 DEF n, t

(* A damaged payload is as it was as far as it goes, and no longer as long  *)
(* as it was.                                                               *)
LEMMA DamagedIs ==
    ASSUME NEW p \in Seq(Nat), Len(p) > 0, NEW damage \in Int
    PROVE  /\ Damaged(p, damage) \in Seq(Nat)
           /\ Len(Damaged(p, damage)) = Len(p) <=> damage = 0
           /\ \A j \in 1..Len(Damaged(p, damage)) : j <= Len(p) => Damaged(p, damage)[j] = p[j]
  <1> DEFINE d == Damaged(p, damage)
             l == Len(p)
  <1>1. l \in Nat /\ l > 0
    BY LenProperties
  <1>2. CASE damage < 0
    <2> DEFINE m == l + damage
               z == 1
               u == SubSeq(p, z, m)
    <2>1. d = u
      BY <1>2 DEF Damaged
    <2>2. \A i \in z..m : p[i] \in Nat
      <3> TAKE i \in z..m
      <3>1. i \in 1..l
        BY <1>1, <1>2
      <3> QED
        BY <3>1, ElementOfSeq
    <2>3. z \in Int /\ m \in Int /\ z = 1 /\ m < l
      BY <1>1, <1>2
    <2> HIDE DEF m, z
    <2>4. /\ u \in Seq(Nat) /\ Len(u) = IF z <= m THEN m - z + 1 ELSE 0
          /\ \A j \in 1..(m - z + 1) : u[j] = p[z + j - 1]
      BY <2>2, <2>3, SubSeqProperties
    <2> HIDE DEF u
    <2>5. Len(u) = (IF 1 <= m THEN m ELSE 0) /\ \A j \in 1..m : u[j] = p[j]
      <3>1. /\ m - z + 1 = m /\ (z <= m <=> 1 <= m) /\ \A j \in 1..m : z + j - 1 = j
        BY <2>3
      <3> QED
        BY <2>4, <3>1
    <2>6. Len(u) # l /\ \A j \in 1..Len(u) : u[j] = p[j]
      BY <1>1, <2>3, <2>5
    <2> QED
      BY <1>2, <2>1, <2>4, <2>6 DEF l
  <1>3. CASE ~(damage < 0)
    <2> DEFINE t == [i \in 1..damage |-> 0]
               u == Joined(p, t)
    <2>1. d = u
      BY <1>3 DEF Damaged, Joined
    <2>2. t \in Seq(Nat) /\ Len(t) = damage
      BY <1>3
    <2> HIDE DEF t
    <2>3. IsJoined(Nat, p, t)
      BY <2>2, Behind
    <2>4. u \in Seq(Nat) /\ Len(u) = l + damage /\ \A j \in 1..l : u[j] = p[j]
      BY <2>2, <2>3 DEF IsJoined
    <2> HIDE DEF u, l
    <2>5. \A j \in 1..Len(u) : j <= l => u[j] = p[j]
      <3>1. \A j \in 1..Len(u) : j <= l => j \in 1..l
        BY <1>1, <1>3, <2>4
      <3> QED
        BY <2>4, <3>1
    <2>6. Len(u) = l <=> damage = 0
      BY <1>1, <2>4
    <2> QED
      BY <2>1, <2>4, <2>5, <2>6 DEF l
  <1> QED
    BY <1>2, <1>3

(* A write selects its data point alone and carries its value.              *)
LEMMA WriteIs ==
    ASSUME NEW dp \in DataPoints, NEW value \in Bytes, NEW p, p = WritePayload(dp, value)
    PROVE  Selected(SubSeq(p, 2, 7)) = {dp} /\ SubSeq(p, 8, Len(p)) = <<value>>
  <1> DEFINE a     == <<WRITE>>
             flags == AttrFlags({dp})
             t     == <<value>>
             u     == Joined(a, flags)
             w     == Joined(u, t)
  <1>1. value \in Nat /\ value % 256 = value
    <2>1. value \in Nat /\ value < 256
      BY ByteIs
    <2> QED
      BY <2>1
  <1>2. p = w
    BY <1>1 DEF WritePayload, Joined
  <1>3. a \in Seq(Nat) /\ Len(a) = 1
    BY DEF WRITE
  <1>4. flags \in Seq(Nat) /\ Len(flags) = 6 /\ Selected(flags) = {dp}
    <2>1. {dp} \subseteq DataPoints
      OBVIOUS
    <2> QED
      BY <2>1, FlagsSelect
  <1>5. t \in Seq(Nat) /\ Len(t) = 1
    BY <1>1
  <1> HIDE DEF a, flags, t
  <1>6. u \in Seq(Nat) /\ Len(u) = 7 /\ \A j \in 1..6 : u[1 + j] = flags[j]
    <2>1. /\ u \in Seq(Nat) /\ Len(u) = 1 + 6
          /\ \A j \in 1..6 : u[1 + j] = flags[j]
      <3>1. IsJoined(Nat, a, flags)
        BY <1>3, <1>4, Behind
      <3> QED
        BY <1>3, <1>4, <3>1 DEF IsJoined
    <2> HIDE DEF u
    <2> QED
      BY <2>1
  <1> HIDE DEF u
  <1>7. /\ w \in Seq(Nat) /\ Len(w) = 7 + 1
        /\ \A j \in 1..7 : w[j] = u[j]
        /\ \A j \in 1..1 : w[7 + j] = t[j]
    <2>1. IsJoined(Nat, u, t)
      BY <1>5, <1>6, Behind
    <2> QED
      BY <1>5, <1>6, <2>1 DEF IsJoined
  <1> HIDE DEF w
  <1>8. \A j \in 1..6 : w[1 + j] = flags[j]
    <2> TAKE j \in 1..6
    <2>1. 1 + j \in 1..7
      OBVIOUS
    <2> QED
      BY <1>6, <1>7, <2>1
  <1> DEFINE b == 1
             n == 6
             c == 7
  <1>9. /\ b \in Nat /\ n \in Nat /\ c \in Nat /\ b + n <= Len(w) /\ c + b <= Len(w)
        /\ b = 1 /\ n = 6 /\ c = 7 /\ b + 1 = 2 /\ b + n = 7 /\ c + 1 = 8 /\ c + b = Len(w)
    BY <1>7
  <1> HIDE DEF b, n, c
  <1>10. SubSeq(w, b + 1, b + n) = flags
    <2>1. Len(flags) = n /\ b + n <= Len(w) /\ \A j \in 1..n : w[b + j] = flags[j]
      BY <1>4, <1>8, <1>9
    <2> QED
      BY <1>4, <1>7, <1>9, <2>1, PartFromTo
  <1>11. SubSeq(w, c + 1, c + b) = t
    <2>1. Len(t) = b /\ c + b <= Len(w) /\ \A j \in 1..b : w[c + j] = t[j]
      BY <1>5, <1>7, <1>9
    <2> QED
      BY <1>5, <1>7, <1>9, <2>1, PartFromTo
  <1>12. SubSeq(p, 2, 7) = flags /\ SubSeq(p, 8, Len(p)) = t
    BY <1>2, <1>9, <1>10, <1>11
  <1> QED
    BY <1>4, <1>12 DEF t

\* What the decoding of a report or of a write found.
WriteRead(bytes) ==
    [dps |-> Selected(SubSeq(bytes, 2, 7)), value |-> SubSeq(bytes, 8, Len(bytes))]

PayloadRead ==
    /\ input.of = "report" => input \in ReportInputs
    /\ input.of = "write" => input \in WriteInputs
    /\ done /\ input.of = "report" =>
         output = ProcessPush(Damaged(ReportOf(input.attrs), input.damage))
    /\ done /\ input.of = "write" => output = WriteRead(WritePayload(input.dp, input.value))

(* Whatever attributes a controller reports are read as they are, or not at *)
(* all when a part of the report was lost or added; each value is where     *)
(* _dp_data_offset says; and a write is of its data point alone             *)
(* (_process_push, _dp_attr_flags, _build_write_payload).                   *)
THEOREM ReportsReadBack == DecodingSpec => []ReadsBack
  <1>1. DecodingInit => PayloadRead
    BY InputsAssumption DEF DecodingInit, PayloadRead
  <1>2. PayloadRead /\ [DecodingNext]_decodingVars => PayloadRead'
    <2> SUFFICES ASSUME PayloadRead, [DecodingNext]_decodingVars PROVE PayloadRead'
      OBVIOUS
    <2>1. CASE DecodesReport
      BY <2>1 DEF DecodesReport, Decodes, PayloadRead
    <2>2. CASE DecodesWrite
      BY <2>2 DEF DecodesWrite, Decodes, PayloadRead, WriteRead
    <2>3. ASSUME NEW kind, kind # "report", kind # "write", Decodes(kind) PROVE PayloadRead'
      BY <2>3 DEF Decodes, PayloadRead
    <2>4. CASE DecodesProgram \/ FindsEntry \/ FindsDevices \/ ShowsLevels
      <3>1. \/ Decodes("program") \/ Decodes("minute")
            \/ Decodes("search") \/ Decodes("levels")
        BY <2>4 DEF DecodesProgram, FindsEntry, FindsDevices, ShowsLevels
      <3> QED
        BY <2>3, <3>1
    <2>5. CASE UNCHANGED decodingVars
      BY <2>5 DEF decodingVars, PayloadRead
    <2> QED
      BY <2>1, <2>2, <2>4, <2>5 DEF DecodingNext
  <1>3. PayloadRead => ReadsBack
    <2> SUFFICES ASSUME PayloadRead, done PROVE ReadsBack
      BY DEF ReadsBack
    <2>1. ASSUME input.of = "report"
          PROVE  /\ output = IF input.damage = 0 THEN input.attrs ELSE NoAttrs
                 /\ \A dp \in DOMAIN input.attrs \ Booleans :
                      LET from == 7 + DataOffset(SubSeq(ReportOf(input.attrs), 2, 7), dp)
                      IN  SubSeq(ReportOf(input.attrs), from + 1, from + DpLength[dp])
                            = ValueBytes(input.attrs, dp)
      <3> DEFINE attrs  == input.attrs
                 damage == input.damage
                 p      == ReportOf(attrs)
                 d      == Damaged(p, damage)
      <3>1. damage \in Int /\ AreAttrs(attrs) /\ output = ProcessPush(d)
        BY <2>1, InputsAssumption DEF PayloadRead
      <3> HIDE DEF attrs, damage
      <3>2. IsReportOf(p, attrs)
        BY <3>1, ReportIs
      <3> HIDE DEF p
      <3>3. p \in Seq(Nat) /\ Len(p) > 0
        BY <3>2 DEF IsReportOf
      <3>4. /\ d \in Seq(Nat) /\ (Len(d) = Len(p) <=> damage = 0)
            /\ \A j \in 1..Len(d) : j <= Len(p) => d[j] = p[j]
        BY <3>1, <3>3, DamagedIs
      <3> HIDE DEF d
      <3>5. ProcessPush(d) = IF Len(d) = Len(p) THEN attrs ELSE NoAttrs
        BY <3>1, <3>2, <3>4, PushRead
      <3>6. ASSUME NEW dp \in DOMAIN attrs \ Booleans,
                   NEW from, from = 7 + DataOffset(SubSeq(p, 2, 7), dp)
            PROVE  SubSeq(p, from + 1, from + DpLength[dp]) = ValueBytes(attrs, dp)
        BY <3>1, <3>2, <3>6, OffsetThere
      <3> QED
        BY <3>1, <3>4, <3>5, <3>6 DEF attrs, damage, p
    <2>2. ASSUME input.of = "write"
          PROVE  output.dps = {input.dp} /\ output.value = <<input.value>>
      <3> DEFINE dp    == input.dp
                 value == input.value
                 p     == WritePayload(dp, value)
      <3>1. value \in Bytes /\ dp \in DataPoints /\ output = WriteRead(p)
        BY <2>2, InputsAssumption DEF PayloadRead
      <3> HIDE DEF dp, value
      <3>2. Selected(SubSeq(p, 2, 7)) = {dp} /\ SubSeq(p, 8, Len(p)) = <<value>>
        BY <3>1, WriteIs
      <3> HIDE DEF p
      <3> QED
        BY <3>1, <3>2 DEF WriteRead, dp, value
    <2> QED
      BY <2>1, <2>2 DEF ReadsBack
  <1> QED
    BY <1>1, <1>2, <1>3, PTL DEF DecodingSpec
=============================================================================
