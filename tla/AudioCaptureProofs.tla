------------------------- MODULE AudioCaptureProofs -------------------------
(***************************************************************************)
(* Proofs about AudioCapture: for every capacity, every block size and any *)
(* length of the stream, a read of the ring is the end of the stream, and  *)
(* the frames of an utterance follow one another.                          *)
(***************************************************************************)
EXTENDS AudioCaptureProperties, SequenceTheorems, TLAPS

(* The cells before the write position hold the newest samples, the others *)
(* those of the lap before, or silence while there was none.               *)
Laps ==
    /\ writePos <= Written
    /\ Written < Capacity => writePos = Written
    /\ \A i \in 0 .. Capacity - 1 :
         buffer[i] = IF i < writePos THEN Written - writePos + 1 + i
                     ELSE IF Written >= Capacity
                          THEN Written - writePos + 1 + i - Capacity
                          ELSE 0

RingInv == RingOK /\ Laps

-----------------------------------------------------------------------------
(* A position advanced by less than a lap comes round at the capacity: the *)
(* `%' of write and of read_last.                                          *)
LEMMA Wrap ==
    ASSUME NEW x \in Nat, x < 2 * Capacity
    PROVE  x % Capacity = IF x < Capacity THEN x ELSE x - Capacity
  BY CaptureAssumption

(* The capacity as the arithmetic below needs it. *)
LEMMA Room == Capacity \in Nat /\ Capacity > 0
  BY CaptureAssumption

(* A new ring is silence. *)
LEMMA RingInit == Init => RingInv
  BY CaptureAssumption DEF Init, RingInv, RingOK, Laps, Written

(* Writing one sample keeps the laps in order. *)
LEMMA WriteKeeps == RingInv /\ WriteSample => RingInv'
  <1> SUFFICES ASSUME RingInv, WriteSample PROVE RingInv'
    OBVIOUS
  <1>1. writePos \in Nat /\ writePos < Capacity
    BY Room DEF RingInv, RingOK
  <1>2. writePos' = IF writePos + 1 < Capacity THEN writePos + 1 ELSE 0
    <2>1. (writePos + 1) % Capacity
            = IF writePos + 1 < Capacity THEN writePos + 1 ELSE writePos + 1 - Capacity
      BY <1>1, Room, Wrap
    <2> QED BY <1>1, <2>1, Room DEF WriteSample
  <1>3. Written' = Written + 1 /\ Written \in Nat
    BY DEF RingInv, RingOK, WriteSample, Written
  <1>4. RingOK'
    BY <1>1, <1>2, <1>3, Room DEF RingInv, RingOK, WriteSample
  <1>5. /\ writePos' <= Written'
        /\ Written' < Capacity => writePos' = Written'
    BY <1>1, <1>2, <1>3, Room DEF RingInv, Laps
  <1>6. ASSUME NEW i \in 0 .. Capacity - 1
        PROVE  buffer'[i] = IF i < writePos'
                            THEN Written' - writePos' + 1 + i
                            ELSE IF Written' >= Capacity
                                 THEN Written' - writePos' + 1 + i - Capacity
                                 ELSE 0
    <2>1. buffer'[i] = IF i = writePos THEN Written + 1 ELSE buffer[i]
      BY DEF RingInv, RingOK, WriteSample
    <2>2. buffer[i] = IF i < writePos THEN Written - writePos + 1 + i
                      ELSE IF Written >= Capacity
                           THEN Written - writePos + 1 + i - Capacity
                           ELSE 0
      BY DEF RingInv, Laps
    <2>3. writePos <= Written /\ (Written < Capacity => writePos = Written)
      BY DEF RingInv, Laps
    <2> QED BY <1>1, <1>2, <1>3, <2>1, <2>2, <2>3, Room
  <1> QED BY <1>4, <1>5, <1>6 DEF RingInv, Laps

(* Every step keeps them. *)
LEMMA RingNext == RingInv /\ [Next]_vars => RingInv'
  <1> SUFFICES ASSUME RingInv, [Next]_vars PROVE RingInv'
    OBVIOUS
  <1> USE CaptureAssumption
  <1>1. CASE WriteSample
    BY <1>1, WriteKeeps
  <1>2. CASE BeginBlock
    BY <1>2 DEF BeginBlock, LockFree, RingInv, RingOK, Laps, Written
  <1>3. CASE EndBlock
    BY <1>3 DEF EndBlock, RingInv, RingOK, Laps, Written
  <1>4. CASE UNCHANGED ring
    BY <1>4 DEF ring, RingInv, RingOK, Laps, Written
  <1>5. Poll => UNCHANGED ring
    BY DEF Poll, ReadFrame, FrameIgnored, FrameStarts, FrameContinues,
           FrameEnds, Reset, Process
  <1> QED BY <1>1, <1>2, <1>3, <1>4, <1>5 DEF Next, Callback, vars

-----------------------------------------------------------------------------
(* With the lock free, a window of any length is the end of the stream.    *)
LEMMA LapsGiveWindow == RingInv => WindowIsNewest
  <1> SUFFICES ASSUME RingInv, LockFree, NEW count \in 0 .. Capacity
               PROVE  ReadLast(count)
                        = Newest(IF count < Available THEN count ELSE Available)
    BY DEF WindowIsNewest
  <1> DEFINE n == IF count < Available THEN count ELSE Available
  <1>1. Written = total /\ total \in Nat
    BY DEF RingInv, RingOK, LockFree, Written
  <1>2. n \in 0 .. Capacity /\ n <= total
    BY <1>1, Room DEF Available
  <1> HIDE DEF n
  <1>3. ASSUME NEW i \in 1 .. n
        PROVE  buffer[(StartOf(n) + i - 1) % Capacity] = total - n + i
    <2> DEFINE at == StartOf(n) + i - 1
    <2>0. writePos \in Nat /\ writePos < Capacity
      BY Room DEF RingInv, RingOK
    <2>1. at = IF writePos >= n THEN writePos - n + i - 1
               ELSE Capacity - (n - writePos) + i - 1
      BY <1>2, <2>0, Room DEF StartOf
    <2>2. at \in Nat /\ at < 2 * Capacity
      BY <2>1, <1>2, <2>0, Room
    <2> HIDE DEF at
    <2> DEFINE cell == at % Capacity
    <2>3. cell = IF at < Capacity THEN at ELSE at - Capacity
      BY <2>2, Wrap
    <2> HIDE DEF cell
    <2>4. cell \in 0 .. Capacity - 1
      BY <2>2, <2>3, Room
    <2>5. buffer[cell] = IF cell < writePos THEN total - writePos + 1 + cell
                         ELSE IF total >= Capacity
                              THEN total - writePos + 1 + cell - Capacity
                              ELSE 0
      BY <1>1, <2>4 DEF RingInv, Laps
    <2>6. writePos <= total /\ (total < Capacity => writePos = total)
      BY <1>1 DEF RingInv, Laps
    <2>7. buffer[cell] = total - n + i
      BY <1>1, <1>2, <2>0, <2>1, <2>2, <2>3, <2>5, <2>6, Room
    <2> QED BY <2>7 DEF at, cell
  <1>4. ReadLast(count) = [i \in 1 .. n |-> buffer[(StartOf(n) + i - 1) % Capacity]]
    BY DEF ReadLast, n
  <1> QED BY <1>3, <1>4 DEF Newest, n

(* capture.rs: what read_last returns is the end of the stream, however    *)
(* often the ring has wrapped.                                             *)
THEOREM Window == Spec => []WindowIsNewest
  <1>1. RingInv => WindowIsNewest
    BY LapsGiveWindow
  <1> QED BY RingInit, RingNext, <1>1, PTL DEF Spec

-----------------------------------------------------------------------------
(* A number of samples is so many frames and a rest. *)
LEMMA Divided ==
    ASSUME NEW n \in Nat
    PROVE  \E q \in Nat, r \in 0 .. FrameLen - 1 :
               n = q * FrameLen + r /\ n % FrameLen = r
  <1>0. FrameLen \in Nat /\ FrameLen > 0
    BY CaptureAssumption
  <1>1. n \div FrameLen \in Nat /\ n % FrameLen \in 0 .. FrameLen - 1
    BY <1>0
  <1>2. n % FrameLen = n - FrameLen * (n \div FrameLen)
    BY <1>0
  <1> DEFINE q == n \div FrameLen
             r == n % FrameLen
  <1>3. q \in Nat /\ r \in 0 .. FrameLen - 1 /\ r = n - FrameLen * q /\ n % FrameLen = r
    BY <1>1, <1>2
  <1> HIDE DEF q, r
  <1>4. \A x, y \in Nat : x * y \in Nat /\ x * y = y * x
    OBVIOUS
  <1>5. FrameLen * q \in Nat /\ FrameLen * q = q * FrameLen
    BY <1>0, <1>3, <1>4
  <1>6. n = q * FrameLen + r
    BY <1>0, <1>3, <1>5
  <1> QED BY <1>3, <1>6

(* Two different numbers of frames are a frame apart. *)
LEMMA Multiples ==
    ASSUME NEW p \in Nat, NEW q \in Nat
    PROVE  /\ p * FrameLen \in Nat
           /\ p > q => p * FrameLen >= q * FrameLen + FrameLen
  <1>0. FrameLen \in Nat /\ FrameLen > 0
    BY CaptureAssumption
  <1>1. \A x, y \in Nat : x * y \in Nat
    OBVIOUS
  <1>2. ASSUME p > q PROVE p * FrameLen >= q * FrameLen + FrameLen
    <2> DEFINE d == p - q - 1
    <2>1. d \in Nat /\ p = q + 1 + d
      BY <1>2
    <2>2. d * FrameLen \in Nat
      BY <1>0, <1>1, <2>1
    <2> HIDE DEF d
    <2>3. p * FrameLen = q * FrameLen + FrameLen + d * FrameLen
      BY <1>0, <2>1
    <2> QED BY <1>0, <1>1, <2>2, <2>3
  <1> QED BY <1>0, <1>1, <1>2

(* The place of a sample in its frame. *)
LEMMA FramesOn ==
    ASSUME NEW a \in Nat, a % FrameLen = 0, NEW x \in 0 .. FrameLen
    PROVE  (a + x) % FrameLen = IF x = FrameLen THEN 0 ELSE x
  <1>0. FrameLen \in Nat /\ FrameLen > 0 /\ a + x \in Nat /\ x \in Nat
    BY CaptureAssumption
  <1>1. PICK q \in Nat : a = q * FrameLen
    <2>1. PICK q \in Nat, r \in 0 .. FrameLen - 1 : a = q * FrameLen + r /\ a % FrameLen = r
      BY Divided
    <2> QED BY <1>0, <2>1, Multiples
  <1>2. PICK p \in Nat, r \in 0 .. FrameLen - 1 :
            a + x = p * FrameLen + r /\ (a + x) % FrameLen = r
    BY <1>0, Divided
  <1> DEFINE s == q + 1
  <1>3. s \in Nat /\ s * FrameLen = q * FrameLen + FrameLen /\ q * FrameLen \in Nat
    BY <1>0, Multiples
  <1> HIDE DEF s
  <1>4. ~(q > p) /\ ~(p > s)
    BY <1>0, <1>1, <1>2, <1>3, Multiples
  <1>5. p = q \/ p = s
    BY <1>4 DEF s
  <1>6. r = IF x = FrameLen THEN 0 ELSE x
    BY <1>0, <1>1, <1>2, <1>3, <1>5
  <1> QED BY <1>2, <1>6

(* A frame as it was read when t samples had been written. *)
IsFrame(f, t) ==
    /\ f \in Seq(Nat) /\ Len(f) = FrameLen
    /\ \A i \in 1 .. FrameLen : f[i] = t - FrameLen + i

(* Audio of whole frames, none of them older than the one before.          *)
Whole(a) == a \in Seq(Nat) /\ Len(a) % FrameLen = 0 /\ InOrder(a)

(* The audio of an utterance grows by a frame that is no older than its    *)
(* last.                                                                   *)
LEMMA FrameFits ==
    ASSUME NEW a, Whole(a), NEW f, NEW t \in Nat, IsFrame(f, t),
           a = <<>> \/ a[Len(a)] <= t
    PROVE  /\ Whole(a \o f)
           /\ Len(a \o f) = Len(a) + FrameLen /\ (a \o f)[Len(a \o f)] = t
           /\ \A i \in 1 .. Len(a) : (a \o f)[i] = a[i]
  <1> DEFINE b == a \o f
             m == Len(a)
  <1>0. FrameLen \in Nat /\ FrameLen > 0 /\ m \in Nat
    BY CaptureAssumption DEF Whole
  <1>1. /\ b \in Seq(Nat) /\ Len(b) = m + FrameLen
        /\ \A i \in 1 .. m : b[i] = a[i]
        /\ \A i \in 1 .. FrameLen : b[m + i] = f[i]
    <2>1. a \in Seq(Nat) /\ f \in Seq(Nat) /\ Len(f) = FrameLen
      BY DEF Whole, IsFrame
    <2>2. /\ b \in Seq(Nat) /\ Len(b) = Len(a) + Len(f)
          /\ \A i \in 1 .. Len(a) + Len(f) : b[i] = IF i <= Len(a) THEN a[i] ELSE f[i - Len(a)]
      BY <2>1, ConcatProperties
    <2>3. m = Len(a)
      OBVIOUS
    <2> HIDE DEF b, m
    <2>4. Len(b) = m + FrameLen
      BY <2>1, <2>2, <2>3
    <2>5. ASSUME NEW i \in 1 .. m PROVE b[i] = a[i]
      <3>1. i \in 1 .. Len(a) + Len(f) /\ i <= Len(a)
        BY <1>0, <2>1, <2>3
      <3> QED BY <2>2, <3>1
    <2>6. ASSUME NEW i \in 1 .. FrameLen PROVE b[m + i] = f[i]
      <3>1. m + i \in 1 .. Len(a) + Len(f) /\ ~(m + i <= Len(a)) /\ (m + i) - Len(a) = i
        BY <1>0, <2>1, <2>3
      <3> QED BY <2>2, <3>1
    <2> QED BY <2>2, <2>4, <2>5, <2>6
  <1>2. m > 0 => a[m] \in Nat /\ a[m] <= t
    BY <1>0 DEF Whole
  <1> HIDE DEF b
  <1>m. m % FrameLen = 0
    BY DEF Whole
  <1>3. /\ \A x \in 1 .. FrameLen - 1 : (m + x) % FrameLen = x
        /\ (m + FrameLen) % FrameLen = 0
    <2>1. \A x \in 0 .. FrameLen : (m + x) % FrameLen = IF x = FrameLen THEN 0 ELSE x
      BY <1>0, <1>m, FramesOn
    <2>2. FrameLen \in 0 .. FrameLen /\ \A x \in 1 .. FrameLen - 1 : x \in 0 .. FrameLen /\ x # FrameLen
      BY <1>0
    <2> QED BY <2>1, <2>2, Zenon
  <1>4. \A i \in 1 .. FrameLen : b[m + i] = t - FrameLen + i
    BY <1>1 DEF IsFrame
  <1>5. \A i \in 1 .. m - 1 : IF i % FrameLen = 0
                               THEN a[i + 1] + FrameLen > a[i]
                               ELSE a[i + 1] = a[i] + 1
    BY DEF Whole, InOrder
  <1> HIDE DEF m
  <1>6. ASSUME NEW i \in 1 .. Len(b) - 1
        PROVE  IF i % FrameLen = 0 THEN b[i + 1] + FrameLen > b[i] ELSE b[i + 1] = b[i] + 1
    <2>1. CASE i < m
      <3>1. i \in 1 .. m - 1 /\ i + 1 \in 1 .. m /\ i \in 1 .. m
        BY <1>0, <2>1
      <3>2. b[i] = a[i] /\ b[i + 1] = a[i + 1]
        BY <1>1, <3>1
      <3> QED BY <1>5, <3>1, <3>2
    <2>2. CASE i = m
      <3>1. b[i + 1] = t - FrameLen + 1 /\ b[i] = a[m] /\ m > 0
        BY <1>0, <1>1, <1>4, <2>2
      <3>2. b[i + 1] + FrameLen > b[i]
        BY <1>0, <1>2, <3>1
      <3>3. i % FrameLen = 0
        BY <1>m, <2>2, Zenon
      <3> QED BY <3>2, <3>3
    <2>3. CASE i > m
      <3> DEFINE x == i - m
      <3>1. /\ x \in 1 .. FrameLen - 1 /\ x \in 1 .. FrameLen /\ x + 1 \in 1 .. FrameLen
            /\ i = m + x /\ i + 1 = m + (x + 1)
        BY <1>0, <1>1, <2>3
      <3> HIDE DEF x
      <3>2. b[i] = t - FrameLen + x /\ b[i + 1] = t - FrameLen + (x + 1)
        BY <1>0, <1>4, <3>1
      <3>3. i % FrameLen = x
        BY <1>3, <3>1, Zenon
      <3>4. x # 0 /\ b[i + 1] = b[i] + 1
        BY <1>0, <3>1, <3>2
      <3> QED BY <3>3, <3>4
    <2> QED BY <1>0, <2>1, <2>2, <2>3
  <1>7. Len(b) % FrameLen = 0
    BY <1>1, <1>3, Zenon
  <1>8. b[Len(b)] = t
    BY <1>0, <1>1, <1>4
  <1>9. Whole(b)
    BY <1>1, <1>6, <1>7 DEF Whole, InOrder
  <1> QED BY <1>1, <1>8, <1>9 DEF b, m

(* A frame alone is an utterance that has just begun. *)
LEMMA FrameAlone ==
    ASSUME NEW f, NEW t \in Nat, IsFrame(f, t)
    PROVE  Whole(f) /\ f[Len(f)] = t /\ Unbroken(f)
  <1>0. FrameLen \in Nat /\ FrameLen > 0 /\ 0 % FrameLen = 0
    BY CaptureAssumption
  <1>1. \A x \in 0 .. FrameLen : (0 + x) % FrameLen = IF x = FrameLen THEN 0 ELSE x
    BY <1>0, FramesOn
  <1>2. ASSUME NEW i \in 1 .. FrameLen - 1 PROVE i % FrameLen # 0 /\ f[i + 1] = f[i] + 1
    BY <1>0, <1>1 DEF IsFrame
  <1>3. FrameLen % FrameLen = 0
    BY <1>0, <1>1
  <1> QED BY <1>0, <1>2, <1>3 DEF IsFrame, Whole, InOrder, Unbroken

(* The loop, between its turns and in one: the frame it holds is one, and  *)
(* an utterance is whole frames that end no later than the frame at hand.  *)
LoopInv ==
    /\ pc \in {"poll", "process"}
    /\ vad \in {"WaitingForSpeech", "InSpeech"}
    /\ Whole(acc)
    /\ segment \in [audio : Seq(Nat), start : Nat] /\ InOrder(segment.audio)
    /\ start \in Nat
    /\ pc = "process" => \E t \in 0 .. total : IsFrame(frame, t)
    /\ vad = "InSpeech" =>
         /\ Len(acc) >= FrameLen
         /\ acc[FrameLen] <= start /\ start <= total
         /\ acc[Len(acc)] <= IF pc = "process" THEN frame[FrameLen] ELSE total

StreamInv == RingInv /\ LoopInv

LEMMA LoopInit == Init => StreamInv
  <1>1. 0 % FrameLen = 0
    BY CaptureAssumption
  <1>2. Init => LoopInv
    BY <1>1 DEF Init, LoopInv, Whole, InOrder, NoSegment
  <1> QED BY <1>2, RingInit DEF StreamInv

(* The callback only moves the end of the stream on. *)
LEMMA CallbackKeeps == StreamInv /\ Callback => LoopInv'
  <1> SUFFICES ASSUME StreamInv, Callback PROVE LoopInv'
    OBVIOUS
  <1>1. /\ total \in Nat /\ total' \in Nat /\ total <= total'
        /\ UNCHANGED <<pc, frame, detector>>
    BY DEF StreamInv, RingInv, RingOK, Callback, BeginBlock, WriteSample, EndBlock
  <1>2. FrameLen \in Nat /\ FrameLen > 0
    BY CaptureAssumption
  <1>3. vad = "InSpeech" => acc[Len(acc)] \in Nat
    BY <1>2 DEF StreamInv, LoopInv, Whole
  <1> QED BY <1>1, <1>2, <1>3 DEF StreamInv, LoopInv, detector

(* A frame read is the end of the stream. *)
LEMMA ReadKeeps == StreamInv /\ ReadFrame => LoopInv'
  <1> SUFFICES ASSUME StreamInv, ReadFrame PROVE LoopInv'
    OBVIOUS
  <1>0. FrameLen \in Nat /\ FrameLen > 0 /\ FrameLen \in 0 .. Capacity /\ Capacity \in Nat
    BY CaptureAssumption
  <1> DEFINE n == IF FrameLen < Available THEN FrameLen ELSE Available
  <1>1. total \in Nat /\ Available \in Nat /\ Available <= total /\ n \in Nat
    BY <1>0 DEF StreamInv, RingInv, RingOK, Available
  <1>2. ReadLast(FrameLen) = Newest(n) /\ frame' = ReadLast(FrameLen) /\ Len(frame') = FrameLen
    BY <1>0, LapsGiveWindow DEF StreamInv, WindowIsNewest, ReadFrame
  <1>3. n \in Nat => Len(Newest(n)) = n
    BY DEF Newest
  <1>4. n = FrameLen /\ FrameLen <= total
    BY <1>0, <1>1, <1>2, <1>3
  <1>5. frame' = [i \in 1 .. FrameLen |-> total - FrameLen + i]
    BY <1>2, <1>4 DEF Newest
  <1>6. IsFrame(frame', total)
    <2>1. \A i \in 1 .. FrameLen : total - FrameLen + i \in Nat
      BY <1>0, <1>1, <1>4
    <2> QED BY <1>0, <1>2, <1>5, <2>1 DEF IsFrame
  <1>7. frame'[FrameLen] = total
    BY <1>0, <1>1, <1>6 DEF IsFrame
  <1>8. /\ pc = "poll" /\ pc' = "process" /\ UNCHANGED <<ring, vad, start, acc>>
        /\ segment' = NoSegment /\ total' = total
    BY DEF ReadFrame, ring
  <1>9. segment' \in [audio : Seq(Nat), start : Nat] /\ InOrder(segment'.audio)
    BY <1>8 DEF NoSegment, InOrder
  <1>10. \E t \in 0 .. total' : IsFrame(frame', t)
    BY <1>1, <1>6, <1>8
  <1> QED BY <1>1, <1>7, <1>8, <1>9, <1>10 DEF StreamInv, LoopInv

(* Feeding it to the detector keeps the utterance in order. *)
LEMMA FeedKeeps ==
    ASSUME StreamInv, FrameIgnored \/ FrameStarts \/ FrameContinues \/ FrameEnds
    PROVE  LoopInv'
  <1>0. FrameLen \in Nat /\ FrameLen > 0 /\ 0 % FrameLen = 0
    BY CaptureAssumption
  <1>1. pc = "process" /\ pc' = "poll" /\ UNCHANGED ring /\ total' = total /\ frame' = frame
    BY DEF FrameIgnored, FrameStarts, FrameContinues, FrameEnds, Process, ring
  <1>2. PICK t \in 0 .. total : IsFrame(frame, t)
    BY <1>1 DEF StreamInv, LoopInv
  <1>3. total \in Nat /\ t \in Nat /\ t <= total /\ frame[FrameLen] = t
    BY <1>0, <1>2 DEF StreamInv, RingInv, RingOK, IsFrame
  <1>4. vad' \in {"WaitingForSpeech", "InSpeech"}
    BY DEF FrameIgnored, FrameStarts, FrameContinues, FrameEnds, Process, VadMoves, VadMove
  <1>5. CASE FrameIgnored
    <2>1. Whole(<<>>)
      BY <1>0 DEF Whole, InOrder
    <2>2. vad' = "WaitingForSpeech"
      BY <1>5 DEF FrameIgnored, Process, VadMoves, VadMove
    <2>3. Whole(acc') /\ start' \in Nat /\ segment' = segment
      BY <1>5, <2>1 DEF FrameIgnored, StreamInv, LoopInv
    <2> QED BY <1>1, <2>2, <2>3 DEF StreamInv, LoopInv
  <1>6. CASE FrameStarts
    <2>1. acc' = frame /\ start' = total /\ segment' = segment
      BY <1>6 DEF FrameStarts
    <2>2. Whole(frame) /\ Len(frame) = FrameLen
      BY <1>2, <1>3, FrameAlone DEF IsFrame
    <2> QED BY <1>0, <1>1, <1>3, <1>4, <2>1, <2>2 DEF StreamInv, LoopInv
  <1>7. ASSUME vad = "InSpeech"
        PROVE  /\ Whole(acc \o frame) /\ Len(acc \o frame) >= FrameLen
               /\ (acc \o frame)[FrameLen] = acc[FrameLen]
               /\ (acc \o frame)[Len(acc \o frame)] = t
    <2>1. Whole(acc) /\ acc[Len(acc)] <= t /\ Len(acc) >= FrameLen /\ Len(acc) \in Nat
      BY <1>1, <1>3, <1>7 DEF StreamInv, LoopInv, Whole
    <2> QED BY <1>0, <1>2, <1>3, <2>1, FrameFits
  <1>8. CASE FrameContinues
    <2>1. vad = "InSpeech" /\ acc' = acc \o frame /\ start' = start /\ segment' = segment
      BY <1>8 DEF FrameContinues, Process, VadMoves, VadMove
    <2> QED BY <1>1, <1>3, <1>4, <1>7, <2>1 DEF StreamInv, LoopInv
  <1>9. CASE FrameEnds
    <2>1. /\ vad = "InSpeech" /\ vad' = "WaitingForSpeech" /\ acc' = <<>> /\ start' = 0
          /\ segment' = [audio |-> acc \o frame, start |-> start]
      BY <1>9 DEF FrameEnds, Process, VadMoves, VadMove
    <2>2. Whole(<<>>)
      BY <1>0 DEF Whole, InOrder
    <2>3. segment' \in [audio : Seq(Nat), start : Nat] /\ InOrder(segment'.audio)
      BY <1>7, <2>1 DEF Whole, StreamInv, LoopInv
    <2> QED BY <1>1, <2>1, <2>2, <2>3 DEF StreamInv, LoopInv
  <1> QED BY <1>5, <1>6, <1>8, <1>9

LEMMA LoopNext == StreamInv /\ [Next]_vars => StreamInv'
  <1> SUFFICES ASSUME StreamInv, [Next]_vars PROVE LoopInv'
    BY RingNext DEF StreamInv
  <1>1. CASE Callback
    BY <1>1, CallbackKeeps
  <1>2. CASE ReadFrame
    BY <1>2, ReadKeeps
  <1>3. CASE FrameIgnored \/ FrameStarts \/ FrameContinues \/ FrameEnds
    BY <1>3, FeedKeeps
  <1>4. CASE Reset
    BY <1>4 DEF Reset, ring, StreamInv, LoopInv
  <1>5. CASE UNCHANGED vars
    BY <1>5 DEF vars, ring, detector, StreamInv, LoopInv
  <1> QED BY <1>1, <1>2, <1>3, <1>4, <1>5 DEF Next, Poll

-----------------------------------------------------------------------------
(* shell.rs: the position read under another hold of the lock than the     *)
(* frame is never before the frame.                                        *)
THEOREM Position == Spec => []PositionCoversFrame
  <1>1. ASSUME StreamInv PROVE PositionCoversFrame
    <2>1. ASSUME pc = "process" PROVE Unbroken(frame) /\ frame[FrameLen] <= total
      <3>1. PICK t \in 0 .. total : IsFrame(frame, t)
        BY <1>1, <2>1 DEF StreamInv, LoopInv
      <3>2. total \in Nat /\ FrameLen \in Nat /\ FrameLen > 0
        BY <1>1, CaptureAssumption DEF StreamInv, RingInv, RingOK
      <3>3. t \in Nat /\ Len(frame) = FrameLen
        BY <3>1, <3>2 DEF IsFrame
      <3>4. frame[FrameLen] = t /\ Unbroken(frame)
        BY <3>1, <3>3, FrameAlone
      <3> QED BY <3>2, <3>4
    <2> QED BY <1>1, <2>1 DEF PositionCoversFrame, StreamInv, LoopInv
  <1> QED BY LoopInit, LoopNext, <1>1, PTL DEF Spec

(* shell.rs: the audio of an utterance is unbroken frames, none of them    *)
(* older than the one before, for every length of frame and block.         *)
THEOREM Ordered == Spec => []AudioInOrder
  <1>1. StreamInv => AudioInOrder
    BY DEF StreamInv, LoopInv, Whole, AudioInOrder
  <1> QED BY LoopInit, LoopNext, <1>1, PTL DEF Spec
=============================================================================
