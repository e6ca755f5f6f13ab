------------------------- MODULE IpcTransportProofs -------------------------
(***************************************************************************)
(* The byte stream, for any payloads, any frames of a peer, any sizes of   *)
(* the buffers and any number of frames.  The invariant says where in the  *)
(* stream every byte of the read buffer, of the socket and of the sender   *)
(* stands.                                                                 *)
(***************************************************************************)
EXTENDS IpcTransportProperties, SequenceTheorems, TLAPS

Outcomes == [kind : {"message", "garbled"}, payload : Seq(Byte)]

TypeOK ==
    /\ stream \in Seq(Byte) /\ out \in Seq(Byte)
    /\ socket \in Seq(Byte) /\ buf \in Seq(Byte)
    /\ ends \in Seq(Nat) /\ got \in Seq(Outcomes)
    /\ link \in {"up", "closed", "reset"}
    /\ recv \in {"none", "decode", "read"}

(* The length at a place in the stream, and where its frame ends if it is  *)
(* one that recv() accepts.                                                *)
LengthAt(a) == FromBytes(stream[a + 1], stream[a + 2], stream[a + 3], stream[a + 4])

(* The ends cut the stream into frames. *)
Framed ==
    /\ \A n \in 1 .. Len(ends) :
         /\ End(n - 1) + HeaderBytes <= ends[n] /\ ends[n] <= Len(stream)
         /\ LengthAt(End(n - 1)) <= MaxMessage =>
              ends[n] = End(n - 1) + HeaderBytes + LengthAt(End(n - 1))
    /\ \A n \in 1 .. Len(ends) : \A m \in 1 .. n : ends[m] <= ends[n]
    /\ End(Len(ends)) = Len(stream)

(* The read buffer and the socket go on where the last frame taken ends,   *)
(* and what the sender still holds is the end of the last frame.           *)
InPlace ==
    /\ \A i \in 1 .. Len(buf) : buf[i] = stream[End(Taken) + i]
    /\ \A i \in 1 .. Len(socket) : socket[i] = stream[End(Taken) + Len(buf) + i]
    /\ \A i \in 1 .. Len(out) : out[i] = stream[Len(stream) - Len(out) + i]
    /\ out # <<>> => Len(ends) > 0 /\ Len(out) <= Len(stream) - End(Len(ends) - 1)

Position == End(Taken) + Len(buf) + Len(socket)

(* What was dropped by an incomplete message. *)
Dropped == buf = <<>> /\ socket = <<>> /\ out # <<>> /\ Taken = Whole

Counted ==
    /\ Taken <= Len(ends)
    /\ Position + Len(out) <= Len(stream)
    /\ link # "reset" => Position + Len(out) = Len(stream) \/ (link = "closed" /\ Dropped)

(* recv() reads only when what it has is not enough. *)
Reading == recv = "read" => ~TooLarge /\ ~HasFrame

Answered ==
    /\ \A n \in 1 .. Taken : got[n] = ItemOf(Frame(n))
    /\ result \in {"eof", "incomplete"} => link = "closed" /\ Taken = Whole
    /\ result = "incomplete" => out # <<>>

Inv == TypeOK /\ Framed /\ InPlace /\ Counted /\ Reading /\ Answered

-----------------------------------------------------------------------------
(* The length prefix. *)

LEMMA Divided ==
    ASSUME NEW n \in Nat
    PROVE  n \div Base \in Nat /\ n % Base \in Byte /\ n = (n \div Base) * Base + (n % Base)
  <1>1. Base \in Nat /\ Base > 0
    BY TransportAssumption
  <1>2. n % Base \in Byte
    BY <1>1 DEF Byte
  <1>3. n = Base * (n \div Base) + (n % Base)
    BY <1>1
  <1>4. n \div Base \in Nat
    BY <1>1
  <1>5. \A x \in Nat : x * Base = Base * x
    BY <1>1
  <1> QED BY <1>2, <1>3, <1>4, <1>5

(* A quotient is below the quotient of what bounds its dividend. *)
LEMMA Quotient ==
    ASSUME NEW n \in Nat, NEW m \in Nat, n < m * Base
    PROVE  n \div Base < m
  <1> DEFINE q == n \div Base
  <1>1. q \in Nat /\ q * Base <= n
    <2>1. n % Base >= 0 /\ n % Base \in Int
      BY Divided, TransportAssumption DEF Byte
    <2>2. q * Base \in Int
      BY Divided, TransportAssumption
    <2> QED BY <2>1, <2>2, Divided
  <1> HIDE DEF q
  <1>2. ASSUME q >= m PROVE FALSE
    <2>1. q * Base >= m * Base
      BY <1>1, <1>2, TransportAssumption
    <2>2. q * Base \in Int /\ m * Base \in Int
      BY <1>1, TransportAssumption
    <2> QED BY <2>1, <2>2, <1>1
  <1>3. q < m
    BY <1>1, <1>2
  <1> QED BY <1>3 DEF q

LEMMA Small == ASSUME NEW n \in Nat, NEW m \in Nat, n < m PROVE n % m = n
  OBVIOUS

(* A length below 2^32 is read as it was written. *)
LEMMA HeaderReads ==
    ASSUME NEW n \in Nat, n < LenModulus
    PROVE  /\ Header(n) \in Seq(Byte) /\ Len(Header(n)) = HeaderBytes
           /\ Announced(Header(n)) = n
  <1> DEFINE hi == n \div Base
             mid == hi \div Base
             top == mid \div Base
  <1>0. Base \in Nat /\ Base * Base \in Nat /\ Base * Base * Base \in Nat
    BY TransportAssumption
  <1>1. hi \in Nat /\ n % Base \in Byte /\ n = hi * Base + (n % Base)
    BY Divided
  <1>2. mid \in Nat /\ hi % Base \in Byte /\ hi = mid * Base + (hi % Base)
    BY <1>1, Divided
  <1>3. top \in Nat /\ mid % Base \in Byte /\ mid = top * Base + (mid % Base)
    BY <1>2, Divided
  <1>4. hi < Base * Base * Base
    BY <1>0, Quotient DEF LenModulus
  <1>5. mid < Base * Base
    BY <1>0, <1>1, <1>4, Quotient
  <1>6. top < Base
    BY <1>0, <1>2, <1>5, Quotient
  <1>7. top % Base = top
    BY <1>0, <1>3, <1>6, Small
  <1>8. Header(n) = <<top % Base, mid % Base, hi % Base, n % Base>>
    BY DEF Header
  <1>9. top % Base \in Byte
    BY <1>3, Divided
  <1>10. Announced(Header(n)) = FromBytes(top, mid % Base, hi % Base, n % Base)
    BY <1>7, <1>8 DEF Announced
  <1>11. FromBytes(top, mid % Base, hi % Base, n % Base) = n
    BY <1>1, <1>2, <1>3, Zenon DEF FromBytes
  <1> HIDE DEF hi, mid, top
  <1> QED BY <1>1, <1>2, <1>3, <1>8, <1>9, <1>10, <1>11 DEF HeaderBytes

-----------------------------------------------------------------------------
(* Pieces of a sequence of bytes. *)

LEMMA Piece ==
    ASSUME NEW s \in Seq(Byte), NEW a \in Nat, NEW b \in Nat, b <= Len(s)
    PROVE  /\ SubSeq(s, a + 1, b) \in Seq(Byte)
           /\ Len(SubSeq(s, a + 1, b)) = IF a <= b THEN b - a ELSE 0
           /\ \A i \in 1 .. b - a : SubSeq(s, a + 1, b)[i] = s[a + i]
  <1>1. \A i \in (a + 1) .. b : s[i] \in Byte
    <2>1. \A i \in 1 .. Len(s) : s[i] \in Byte
      BY ElementOfSeq
    <2> QED BY <2>1
  <1> QED BY <1>1, SubSeqProperties

LEMMA Joined ==
    ASSUME NEW s \in Seq(Byte), NEW t \in Seq(Byte)
    PROVE  /\ s \o t \in Seq(Byte) /\ Len(s \o t) = Len(s) + Len(t)
           /\ \A i \in 1 .. Len(s) : (s \o t)[i] = s[i]
           /\ \A i \in 1 .. Len(t) : (s \o t)[Len(s) + i] = t[i]
  <1> DEFINE u == s \o t
  <1>1. u \in Seq(Byte) /\ Len(u) = Len(s) + Len(t)
        /\ \A i \in 1 .. Len(s) + Len(t) : u[i] = IF i <= Len(s) THEN s[i] ELSE t[i - Len(s)]
    BY ConcatProperties
  <1>2. Len(s) \in Nat /\ Len(t) \in Nat
    OBVIOUS
  <1> HIDE DEF u
  <1> QED BY <1>1, <1>2 DEF u

(* What four bytes announce is a number. *)
LEMMA Number ==
    ASSUME NEW i \in Byte, NEW j \in Byte, NEW k \in Byte, NEW l \in Byte
    PROVE  FromBytes(i, j, k, l) \in Nat
  <1>0. Base \in Nat /\ \A x \in Nat, y \in Byte : (x * Base) + y \in Nat
    BY TransportAssumption DEF Byte
  <1>1. i \in Nat
    BY TransportAssumption DEF Byte
  <1>2. (i * Base) + j \in Nat
    BY <1>0, <1>1
  <1>3. ((i * Base) + j) * Base + k \in Nat
    BY <1>0, <1>2
  <1>4. (((i * Base) + j) * Base + k) * Base + l \in Nat
    BY <1>0, <1>3
  <1> QED BY <1>4 DEF FromBytes

LEMMA Announces ==
    ASSUME NEW b \in Seq(Byte), Len(b) >= 4
    PROVE  Announced(b) \in Nat
  <1>1. b[1] \in Byte /\ b[2] \in Byte /\ b[3] \in Byte /\ b[4] \in Byte
    BY ElementOfSeq
  <1> QED BY <1>1, Number DEF Announced

WellFramed(f) ==
    /\ f \in Seq(Byte) /\ Len(f) >= HeaderBytes /\ Announced(f) \in Nat
    /\ Announced(f) <= MaxMessage => Len(f) = HeaderBytes + Announced(f)

LEMMA FrameFormat == ASSUME NEW f \in Frames PROVE WellFramed(f)
  <1>1. CASE f \in Foreign
    BY <1>1, FramesAssumption, Announces DEF WellFramed, HeaderBytes
  <1>2. ASSUME NEW p \in Payloads, f = Encode(p) PROVE WellFramed(f)
    <2>1. p \in Seq(Byte) /\ Len(p) \in Nat /\ Len(p) < LenModulus
      BY FramesAssumption
    <2>2. LenModulus \in Nat
      BY TransportAssumption DEF LenModulus
    <2>3. LengthOf(p) = Len(p)
      BY <2>1, <2>2, Small DEF LengthOf
    <2> DEFINE h == Header(Len(p))
    <2>4. h \in Seq(Byte) /\ Len(h) = HeaderBytes /\ Announced(h) = Len(p)
      BY <2>1, HeaderReads
    <2>5. f = h \o p
      BY <1>2, <2>3 DEF Encode
    <2> HIDE DEF h
    <2>6. f \in Seq(Byte) /\ Len(f) = HeaderBytes + Len(p) /\ \A i \in 1 .. HeaderBytes : f[i] = h[i]
      BY <2>1, <2>4, <2>5, Joined
    <2>7. Announced(f) = Announced(h)
      BY <2>6 DEF Announced, HeaderBytes
    <2> QED BY <2>1, <2>4, <2>6, <2>7 DEF HeaderBytes, WellFramed
  <1> QED BY <1>1, <1>2 DEF Frames

-----------------------------------------------------------------------------
(* The frames. *)

LEMMA Ends ==
    ASSUME TypeOK, Framed
    PROVE  /\ Len(ends) \in Nat
           /\ \A n \in 0 .. Len(ends) : End(n) \in Nat /\ End(n) <= Len(stream)
           /\ \A n \in 0 .. Len(ends) : \A m \in 0 .. n : End(m) <= End(n)
  BY DEF TypeOK, Framed, End

(* The length a frame announces, and the frame as recv() takes it. *)
LEMMA FrameInStream ==
    ASSUME TypeOK, Framed, NEW n \in 1 .. Len(ends)
    PROVE  /\ Frame(n) \in Seq(Byte) /\ Len(Frame(n)) = ends[n] - End(n - 1)
           /\ \A i \in 1 .. ends[n] - End(n - 1) : Frame(n)[i] = stream[End(n - 1) + i]
           /\ Announced(Frame(n)) = LengthAt(End(n - 1)) /\ Announced(Frame(n)) \in Nat
  <1>1. End(n - 1) \in Nat /\ ends[n] \in Nat /\ End(n) = ends[n]
    BY Ends DEF TypeOK, End
  <1>2. End(n - 1) + HeaderBytes <= ends[n] /\ ends[n] <= Len(stream)
    BY DEF Framed
  <1>3. Frame(n) \in Seq(Byte) /\ Len(Frame(n)) = ends[n] - End(n - 1)
        /\ \A i \in 1 .. ends[n] - End(n - 1) : Frame(n)[i] = stream[End(n - 1) + i]
    <2>1. stream \in Seq(Byte) /\ End(n - 1) <= ends[n]
      BY <1>1, <1>2 DEF TypeOK, HeaderBytes
    <2> QED BY <1>1, <1>2, <2>1, Piece DEF Frame
  <1>4. \A i \in 1 .. 4 : Frame(n)[i] = stream[End(n - 1) + i]
    <2>1. \A i \in 1 .. 4 : i \in 1 .. ends[n] - End(n - 1)
      BY <1>1, <1>2 DEF HeaderBytes
    <2> QED BY <1>3, <2>1
  <1>5. Announced(Frame(n)) = LengthAt(End(n - 1))
    BY <1>4 DEF Announced, LengthAt
  <1>6. Announced(Frame(n)) \in Nat
    BY <1>1, <1>2, <1>3, Announces DEF HeaderBytes
  <1> QED BY <1>3, <1>5, <1>6

-----------------------------------------------------------------------------
(* The initial state, and the steps of the sender. *)

LEMMA Starts == Init => Inv
  <1> SUFFICES ASSUME Init PROVE Inv
    OBVIOUS
  <1>1. TypeOK
    BY DEF Init, TypeOK
  <1>2. Len(<<>>) = 0 /\ \A i \in 1 .. 0 : FALSE
    OBVIOUS
  <1> QED BY <1>1, <1>2 DEF Init, Inv, Framed, InPlace, Counted, Reading, Answered,
             End, Taken, Position, Whole

(* A frame behind all others leaves them as they are. *)
LEMMA Behind ==
    ASSUME Inv, NEW f \in Frames, Begin(f)
    PROVE  /\ stream' \in Seq(Byte) /\ ends' \in Seq(Nat) /\ out' \in Seq(Byte)
           /\ Len(stream') = Len(stream) + Len(f) /\ Len(ends') = Len(ends) + 1
           /\ \A i \in 1 .. Len(stream) : stream'[i] = stream[i]
           /\ \A i \in 1 .. Len(f) : stream'[Len(stream) + i] = f[i]
           /\ \A n \in 0 .. Len(ends) : End(n)' = End(n)
           /\ \A n \in 1 .. Len(ends) : ends'[n] = ends[n] /\ Frame(n)' = Frame(n)
           /\ ends'[Len(ends) + 1] = Len(stream')
           /\ \A n \in Nat : n = Len(ends) + 1 => Frame(n)' = f
  <1>0. f \in Seq(Byte) /\ Len(f) \in Nat
    BY FrameFormat DEF WellFramed
  <1>t. TypeOK /\ Framed
    BY DEF Inv
  <1>s. stream \in Seq(Byte) /\ Len(stream) \in Nat
    BY <1>t DEF TypeOK
  <1>1. stream' \in Seq(Byte) /\ Len(stream') = Len(stream) + Len(f)
        /\ (\A i \in 1 .. Len(stream) : stream'[i] = stream[i])
        /\ (\A i \in 1 .. Len(f) : stream'[Len(stream) + i] = f[i])
    BY <1>0, <1>t, Joined DEF Begin, TypeOK
  <1>2. ends' \in Seq(Nat) /\ Len(ends') = Len(ends) + 1
        /\ (\A n \in 1 .. Len(ends) : ends'[n] = ends[n])
        /\ ends'[Len(ends) + 1] = Len(stream')
    <2>1. ends' = Append(ends, Len(stream')) /\ Len(stream') \in Nat /\ ends \in Seq(Nat)
      BY <1>0, <1>1, <1>t DEF Begin, TypeOK
    <2> QED BY <2>1, AppendProperties
  <1>3. \A n \in 0 .. Len(ends) : End(n)' = End(n)
    BY <1>2, <1>t DEF End, TypeOK
  <1>4. ASSUME NEW n \in 1 .. Len(ends) PROVE Frame(n)' = Frame(n)
    <2> DEFINE a == End(n - 1)
               b == End(n)
    <2>1. n - 1 \in 0 .. Len(ends) /\ n \in 0 .. Len(ends) /\ n \in Nat
      BY <1>t, Ends
    <2>2. a \in Nat /\ b \in Nat /\ b <= Len(stream) /\ End(n - 1)' = a /\ End(n)' = b
      BY <1>3, <1>t, <2>1, Ends
    <2> HIDE DEF a, b
    <2>3. b <= Len(stream')
      BY <1>0, <1>1, <1>t, <2>2 DEF TypeOK
    <2>4. SubSeq(stream', a + 1, b) = SubSeq(stream, a + 1, b)
      <3> DEFINE old == SubSeq(stream, a + 1, b)
                 new == SubSeq(stream', a + 1, b)
      <3>1. old \in Seq(Byte) /\ Len(old) = (IF a <= b THEN b - a ELSE 0)
            /\ \A i \in 1 .. b - a : old[i] = stream[a + i]
        BY <1>s, <2>2, Piece
      <3>2. new \in Seq(Byte) /\ Len(new) = (IF a <= b THEN b - a ELSE 0)
            /\ \A i \in 1 .. b - a : new[i] = stream'[a + i]
        BY <1>1, <2>2, <2>3, Piece
      <3> HIDE DEF old, new
      <3>3. \A i \in 1 .. b - a : new[i] = old[i]
        <4> TAKE i \in 1 .. b - a
        <4>1. a + i \in 1 .. Len(stream)
          BY <1>s, <2>2
        <4> QED BY <1>1, <3>1, <3>2, <4>1
      <3>4. \A i \in 1 .. Len(new) : new[i] = old[i]
        BY <2>2, <3>2, <3>3
      <3>5. new = old
        BY <3>1, <3>2, <3>4, SeqEqual
      <3> QED BY <3>5 DEF new, old
    <2> QED BY <2>2, <2>4 DEF Frame, a, b
  <1>5. ASSUME NEW n \in Nat, n = Len(ends) + 1 PROVE Frame(n)' = f
    <2>0. Len(ends) \in Nat /\ End(Len(ends)) = Len(stream)
      BY <1>t, Ends DEF Framed
    <2>1. End(n - 1)' = Len(stream) /\ End(n)' = Len(stream')
      <3>1. n - 1 = Len(ends) /\ n # 0
        BY <1>5, <2>0
      <3>2. End(n)' = ends'[n]
        BY <3>1 DEF End
      <3>3. n - 1 \in 0 .. Len(ends) /\ End(n - 1) = Len(stream)
        BY <2>0, <3>1
      <3> QED BY <1>2, <1>3, <1>5, <3>2, <3>3
    <2>2. Len(stream) \in Nat /\ Len(stream') \in Nat
      BY <1>0, <1>1, <1>t DEF TypeOK
    <2> DEFINE new == SubSeq(stream', Len(stream) + 1, Len(stream'))
    <2>3. new \in Seq(Byte) /\ Len(new) = Len(f) /\ \A i \in 1 .. Len(f) : new[i] = f[i]
      <3>1. Len(stream') - Len(stream) = Len(f)
        BY <1>0, <1>1, <2>2
      <3> QED BY <1>0, <1>1, <2>2, <3>1, Piece
    <2>4. new = f
      <3> HIDE DEF new
      <3> QED BY <1>0, <2>3, SeqEqual
    <2> QED BY <2>1, <2>4 DEF Frame
  <1>6. out' \in Seq(Byte)
    BY <1>0 DEF Begin
  <1> QED BY <1>1, <1>2, <1>3, <1>4, <1>5, <1>6

LEMMA BeginKeeps == ASSUME Inv, NEW f \in Frames, Begin(f) PROVE Inv'
  <1>f. f \in Seq(Byte) /\ Len(f) \in Nat /\ Len(f) >= 4 /\ Announced(f) \in Nat
        /\ (Announced(f) <= MaxMessage => Len(f) = 4 + Announced(f))
    BY FrameFormat DEF WellFramed, HeaderBytes
  <1>t. TypeOK /\ Framed /\ InPlace /\ Counted /\ Reading /\ Answered
    BY DEF Inv
  <1>b. /\ stream' \in Seq(Byte) /\ ends' \in Seq(Nat) /\ out' \in Seq(Byte)
        /\ Len(stream') = Len(stream) + Len(f) /\ Len(ends') = Len(ends) + 1
        /\ \A i \in 1 .. Len(stream) : stream'[i] = stream[i]
        /\ \A i \in 1 .. Len(f) : stream'[Len(stream) + i] = f[i]
        /\ \A n \in 0 .. Len(ends) : End(n)' = End(n)
        /\ \A n \in 1 .. Len(ends) : ends'[n] = ends[n] /\ Frame(n)' = Frame(n)
        /\ ends'[Len(ends) + 1] = Len(stream')
    BY Behind
  <1>k. /\ ends' \in Seq(Nat) /\ Len(ends') = Len(ends) + 1
        /\ Len(stream') = Len(stream) + Len(f)
        /\ ends'[Len(ends) + 1] = Len(stream')
    BY <1>b
  <1>s. \A n \in 1 .. Len(ends) : ends'[n] = ends[n]
    BY <1>b
  <1>n. /\ Len(stream) \in Nat /\ Len(ends) \in Nat /\ Len(buf) \in Nat /\ Len(socket) \in Nat
        /\ Taken \in Nat /\ Taken <= Len(ends)
    BY <1>t DEF TypeOK, Taken, Counted
  <1>e. /\ \A n \in 0 .. Len(ends) : End(n) \in Nat /\ End(n) <= Len(stream)
        /\ End(Len(ends)) = Len(stream)
    BY <1>t, Ends DEF Framed
  <1>u. /\ link = "up" /\ out = <<>> /\ out' = f
        /\ UNCHANGED <<socket, link, recv, buf, got, result>>
    BY DEF Begin
  <1>p. Taken' = Taken /\ End(Taken)' = End(Taken) /\ Position' = Position /\ Position = Len(stream)
    <2>1. Taken' = Taken /\ End(Taken)' = End(Taken)
      BY <1>u, <1>n, <1>b DEF Taken, End
    <2>2. Len(out) = 0
      BY <1>u
    <2>3. Position \in Nat
      BY <1>n, <1>e DEF Position
    <2> QED BY <1>t, <1>u, <2>1, <2>2, <2>3 DEF Counted, Position
  <1>1. TypeOK'
    BY <1>b, <1>t, <1>u DEF TypeOK
  <1>2. Framed'
    <2>1. ASSUME NEW n \in 1 .. Len(ends')
          PROVE  /\ End(n - 1)' + 4 <= ends'[n] /\ ends'[n] <= Len(stream')
                 /\ LengthAt(End(n - 1))' <= MaxMessage =>
                      ends'[n] = End(n - 1)' + 4 + LengthAt(End(n - 1))'
      <3> DEFINE a == End(n - 1)
      <3>1. n - 1 \in 0 .. Len(ends) /\ End(n - 1)' = a /\ a \in Nat
        BY <1>b, <1>e, <1>n
      <3>2. LengthAt(End(n - 1))' =
              FromBytes(stream'[a + 1], stream'[a + 2], stream'[a + 3], stream'[a + 4])
        BY <3>1 DEF LengthAt
      <3>3. CASE n \in 1 .. Len(ends)
        <4>1. a + 4 <= ends[n] /\ ends[n] <= Len(stream) /\ ends[n] \in Nat
              /\ (LengthAt(a) <= MaxMessage => ends[n] = a + 4 + LengthAt(a))
          BY <1>t, <3>3 DEF Framed, HeaderBytes, TypeOK
        <4> HIDE DEF a
        <4>2. \A i \in 1 .. 4 : stream'[a + i] = stream[a + i]
          <5> TAKE i \in 1 .. 4
          <5>1. a + i \in 1 .. Len(stream)
            BY <1>n, <3>1, <4>1
          <5> QED BY <1>b, <5>1
        <4>3. LengthAt(End(n - 1))' = LengthAt(a)
          BY <3>2, <4>2 DEF LengthAt
        <4>4. ends'[n] = ends[n] /\ ends'[n] <= Len(stream')
          <5>1. ends'[n] = ends[n]
            BY <1>s, <3>3
          <5>2. ends[n] <= Len(stream) + Len(f)
            BY <1>f, <1>n, <4>1
          <5> QED BY <1>k, <5>1, <5>2
        <4> QED BY <3>1, <4>1, <4>3, <4>4
      <3>4. CASE n = Len(ends) + 1
        <4>1. a = Len(stream)
          BY <1>e, <1>n, <3>4
        <4> HIDE DEF a
        <4>2. \A i \in 1 .. 4 : stream'[a + i] = f[i]
          BY <1>b, <1>f, <4>1
        <4>3. LengthAt(End(n - 1))' = Announced(f)
          BY <3>2, <4>2 DEF Announced
        <4>4. ends'[n] = a + Len(f) /\ ends'[n] = Len(stream')
          BY <1>b, <3>4, <4>1
        <4> QED BY <1>f, <3>1, <4>3, <4>4
      <3> QED BY <1>b, <1>n, <3>3, <3>4
    <2>2. ASSUME NEW n \in 1 .. Len(ends'), NEW m \in 1 .. n PROVE ends'[m] <= ends'[n]
      <3>1. CASE n \in 1 .. Len(ends)
        <4>1. m \in 1 .. Len(ends) /\ ends[m] <= ends[n]
          BY <1>n, <1>t, <3>1 DEF Framed
        <4> QED BY <1>s, <3>1, <4>1
      <3>2. CASE n = Len(ends) + 1
        <4>1. m \in 1 .. Len(ends') /\ ends'[m] <= Len(stream')
          BY <1>k, <1>n, <2>1, <3>2
        <4>2. ends'[n] = Len(stream')
          BY <1>k, <3>2
        <4> QED BY <4>1, <4>2
      <3> QED BY <1>b, <1>n, <3>1, <3>2
    <2>3. End(Len(ends))' = Len(stream')
      BY <1>b, <1>n DEF End
    <2> QED BY <2>1, <2>2, <2>3 DEF Framed, HeaderBytes
  <1>3. InPlace'
    <2>1. ASSUME NEW i \in 1 .. Len(buf) PROVE buf[i] = stream'[End(Taken) + i]
      <3>1. End(Taken) + i \in 1 .. Len(stream) /\ buf[i] = stream[End(Taken) + i]
        <4>1. End(Taken) \in Nat
          BY <1>e, <1>n
        <4>2. End(Taken) + Len(buf) + Len(socket) = Len(stream)
          BY <1>p DEF Position
        <4>3. End(Taken) + i \in 1 .. Len(stream)
          BY <1>n, <4>1, <4>2
        <4> QED BY <1>t, <4>3 DEF InPlace
      <3> QED BY <1>b, <3>1
    <2>2. ASSUME NEW i \in 1 .. Len(socket) PROVE socket[i] = stream'[End(Taken) + Len(buf) + i]
      <3>1. End(Taken) + Len(buf) + i \in 1 .. Len(stream)
            /\ socket[i] = stream[End(Taken) + Len(buf) + i]
        <4>1. End(Taken) \in Nat
          BY <1>e, <1>n
        <4>2. End(Taken) + Len(buf) + Len(socket) = Len(stream)
          BY <1>p DEF Position
        <4>3. End(Taken) + Len(buf) + i \in 1 .. Len(stream)
          BY <1>n, <4>1, <4>2
        <4> QED BY <1>t, <4>3 DEF InPlace
      <3> QED BY <1>b, <3>1
    <2>3. ASSUME NEW i \in 1 .. Len(f) PROVE f[i] = stream'[Len(stream') - Len(f) + i]
      <3>1. Len(stream') - Len(f) = Len(stream)
        BY <1>b, <1>f, <1>n
      <3> QED BY <1>b, <3>1
    <2>4. End(Len(ends) - 1)' = Len(stream) /\ Len(ends') > 0
          /\ Len(f) <= Len(stream') - Len(stream)
      <3>1. (Len(ends) - 1)' = Len(ends)
        BY <1>b, <1>n
      <3>2. Len(ends) \in 0 .. Len(ends)
        BY <1>n
      <3>3. End(Len(ends) - 1)' = IF Len(ends) = 0 THEN 0 ELSE ends'[Len(ends)]
        BY <3>1 DEF End
      <3>4. (IF Len(ends) = 0 THEN 0 ELSE ends'[Len(ends)]) = End(Len(ends))
        <4>1. CASE Len(ends) = 0
          BY <4>1 DEF End
        <4>2. CASE Len(ends) # 0
          <5>1. Len(ends) \in 1 .. Len(ends)
            BY <1>n, <4>2
          <5>2. ends'[Len(ends)] = ends[Len(ends)]
            BY <1>b, <5>1
          <5> QED BY <4>2, <5>2 DEF End
        <4> QED BY <4>1, <4>2
      <3>5. End(Len(ends) - 1)' = Len(stream)
        BY <1>e, <3>3, <3>4
      <3>6. Len(ends') > 0 /\ Len(f) <= Len(stream') - Len(stream)
        BY <1>b, <1>f, <1>n
      <3> QED BY <3>5, <3>6
    <2> QED BY <1>p, <1>u, <2>1, <2>2, <2>3, <2>4 DEF InPlace
  <1>4. Counted'
    BY <1>b, <1>f, <1>n, <1>p, <1>u DEF Counted
  <1>5. Reading'
    BY <1>t, <1>u DEF Reading, TooLarge, HasFrame, HasHeader
  <1>6. Answered'
    <2>1. \A n \in 1 .. Taken : got[n] = ItemOf(Frame(n))'
      <3> TAKE n \in 1 .. Taken
      <3>1. Frame(n)' = Frame(n) /\ got[n] = ItemOf(Frame(n))
        BY <1>b, <1>n, <1>t DEF Answered
      <3> QED BY <3>1 DEF ItemOf
    <2> QED BY <1>p, <1>t, <1>u, <2>1 DEF Answered
  <1> QED BY <1>1, <1>2, <1>3, <1>4, <1>5, <1>6 DEF Inv

(* The numbers the proofs calculate with. *)
LEMMA Numbers ==
    ASSUME Inv
    PROVE  /\ stream \in Seq(Byte) /\ out \in Seq(Byte) /\ socket \in Seq(Byte) /\ buf \in Seq(Byte)
           /\ Len(stream) \in Nat /\ Len(out) \in Nat /\ Len(socket) \in Nat /\ Len(buf) \in Nat
           /\ Len(ends) \in Nat /\ Taken \in 0 .. Len(ends) /\ End(Taken) \in Nat
           /\ End(Taken) + Len(buf) + Len(socket) + Len(out) <= Len(stream)
           /\ out = <<>> <=> Len(out) = 0
           /\ buf = <<>> <=> Len(buf) = 0
           /\ socket = <<>> <=> Len(socket) = 0
  <1>1. TypeOK /\ Framed /\ Counted
    BY DEF Inv
  <1>2. Len(ends) \in Nat /\ Taken \in 0 .. Len(ends) /\ End(Taken) \in Nat
    BY <1>1, Ends DEF TypeOK, Taken, Counted
  <1>3. \A s \in Seq(Byte) : Len(s) \in Nat /\ (s = <<>> <=> Len(s) = 0)
    BY EmptySeq
  <1> QED BY <1>1, <1>2, <1>3 DEF TypeOK, Counted, Position

(* A frame that is not wholly written has not been taken. *)
LEMMA TakenIsWhole ==
    ASSUME Inv
    PROVE  Whole \in Nat /\ Taken <= Whole /\ Whole <= Len(ends)
  <1>1. CASE out = <<>>
    BY <1>1, Numbers DEF Whole
  <1>2. CASE out # <<>>
    <2>1. Len(out) > 0 /\ End(Taken) < Len(stream)
      BY <1>2, Numbers
    <2>2. End(Len(ends)) = Len(stream)
      BY DEF Inv, Framed
    <2>3. Taken # Len(ends)
      BY <2>1, <2>2, Numbers
    <2> QED BY <1>2, <2>3, Numbers DEF Whole
  <1> QED BY <1>1, <1>2

(* The read buffer starts with the frame that is next to be taken. *)
LEMMA Front ==
    ASSUME Inv, HasHeader
    PROVE  /\ Taken + 1 \in 1 .. Len(ends)
           /\ Announced(buf) \in Nat
           /\ Announced(buf) = LengthAt(End(Taken))
           /\ Announced(buf) = Announced(Frame(Taken + 1))
           /\ ~TooLarge => ends[Taken + 1] = End(Taken) + 4 + Announced(buf)
  <1>1. Len(buf) >= 4
    BY DEF HasHeader, HeaderBytes
  <1>2. Taken + 1 \in 1 .. Len(ends)
    <2>1. End(Taken) < Len(stream)
      BY <1>1, Numbers
    <2>2. End(Len(ends)) = Len(stream)
      BY DEF Inv, Framed
    <2> QED BY <2>1, <2>2, Numbers
  <1>3. \A i \in 1 .. 4 : buf[i] = stream[End(Taken) + i]
    BY <1>1, Numbers DEF Inv, InPlace
  <1>4. Announced(buf) = LengthAt(End(Taken))
    BY <1>3 DEF Announced, LengthAt
  <1>5. Announced(buf) \in Nat
    BY <1>1, Numbers, Announces
  <1>6. (Taken + 1) - 1 = Taken
    BY Numbers
  <1>7. Announced(buf) = Announced(Frame(Taken + 1))
    BY <1>2, <1>4, <1>6, FrameInStream DEF Inv
  <1>8. ~TooLarge => ends[Taken + 1] = End(Taken) + 4 + Announced(buf)
    <2>1. ~TooLarge => Announced(buf) <= MaxMessage
      BY <1>5, TransportAssumption DEF TooLarge
    <2> QED BY <1>2, <1>4, <1>6, <2>1 DEF Inv, Framed, HeaderBytes
  <1> QED BY <1>2, <1>4, <1>5, <1>7, <1>8

-----------------------------------------------------------------------------
(* Steps that begin no frame leave the stream as it is. *)
LEMMA StreamStays ==
    ASSUME Inv, UNCHANGED written
    PROVE  /\ Framed' /\ \A n \in Nat : Frame(n)' = Frame(n) /\ End(n)' = End(n)
           /\ \A n \in Nat : ItemOf(Frame(n))' = ItemOf(Frame(n))
           /\ got' = got => Taken' = Taken /\ End(Taken)' = End(Taken)
  <1> USE DEF written
  <1>1. Framed'
    BY DEF Inv, Framed, End, LengthAt
  <1>2. \A n \in Nat : Frame(n)' = Frame(n) /\ End(n)' = End(n)
    BY DEF Frame, End
  <1>3. \A n \in Nat : ItemOf(Frame(n))' = ItemOf(Frame(n))
    BY <1>2 DEF ItemOf
  <1>4. got' = got => Taken' = Taken /\ End(Taken)' = End(Taken)
    BY DEF Taken, End
  <1> QED BY <1>1, <1>2, <1>3, <1>4

LEMMA WriteKeeps == ASSUME Inv, Write PROVE Inv'
  <1>1. PICK k \in 1 .. Len(out) :
          socket' = socket \o SubSeq(out, 1, k) /\ out' = SubSeq(out, k + 1, Len(out))
    BY DEF Write
  <1>2. link = "up" /\ UNCHANGED <<written, link, recv, buf, got, result>>
    BY DEF Write
  <1>m. /\ Len(stream) \in Nat /\ Len(out) \in Nat /\ Len(socket) \in Nat /\ Len(buf) \in Nat
        /\ End(Taken) \in Nat
    BY Numbers
  <1>n. k \in Nat /\ k <= Len(out) /\ k > 0 /\ 0 + 1 = 1
    BY Numbers
  <1> DEFINE head == SubSeq(out, 1, k)
             tail == SubSeq(out, k + 1, Len(out))
  <1>3. head \in Seq(Byte) /\ Len(head) = k /\ \A i \in 1 .. k : head[i] = out[i]
    BY <1>n, Numbers, Piece
  <1>4. tail \in Seq(Byte) /\ Len(tail) = Len(out) - k /\ \A i \in 1 .. Len(out) - k : tail[i] = out[k + i]
    BY <1>n, Numbers, Piece
  <1> HIDE DEF head, tail
  <1>5. /\ socket' \in Seq(Byte) /\ Len(socket') = Len(socket) + k
        /\ \A i \in 1 .. Len(socket) : socket'[i] = socket[i]
        /\ \A i \in 1 .. k : socket'[Len(socket) + i] = out[i]
    BY <1>1, <1>3, Numbers, Joined DEF head
  <1>6. out' = tail
    BY <1>1 DEF tail
  <1>7. End(Taken) + Len(buf) + Len(socket) + Len(out) = Len(stream)
    BY <1>2 DEF Inv, Counted, Position
  <1>s. /\ Framed' /\ Taken' = Taken /\ End(Taken)' = End(Taken)
        /\ \A n \in Nat : ItemOf(Frame(n))' = ItemOf(Frame(n)) /\ End(n)' = End(n)
    BY <1>2, StreamStays
  <1>8. TypeOK'
    BY <1>2, <1>4, <1>5, <1>6 DEF Inv, TypeOK, written
  <1>9. InPlace'
    <2>1. \A i \in 1 .. Len(buf) : buf[i] = stream[End(Taken) + i]
      BY DEF Inv, InPlace
    <2>2. ASSUME NEW i \in 1 .. Len(socket')
          PROVE  socket'[i] = stream[End(Taken) + Len(buf) + i]
      <3>1. CASE i \in 1 .. Len(socket)
        BY <1>5, <3>1 DEF Inv, InPlace
      <3>2. CASE i \notin 1 .. Len(socket)
        <4>1. i - Len(socket) \in 1 .. k /\ i = Len(socket) + (i - Len(socket))
          BY <1>5, <1>n, <3>2, Numbers
        <4>2. socket'[i] = out[i - Len(socket)]
          BY <1>5, <4>1
        <4>3. out[i - Len(socket)] = stream[Len(stream) - Len(out) + (i - Len(socket))]
          BY <1>n, <4>1, Numbers DEF Inv, InPlace
        <4>4. Len(stream) - Len(out) + (i - Len(socket)) = End(Taken) + Len(buf) + i
          <5>1. i \in Int
            BY <1>5, <1>m, <1>n
          <5> QED BY <1>7, <1>m, <5>1
        <4> QED BY <4>2, <4>3, <4>4
      <3> QED BY <3>1, <3>2
    <2>3. ASSUME NEW i \in 1 .. Len(tail)
          PROVE  tail[i] = stream[Len(stream) - Len(tail) + i]
      <3>1. k + i \in 1 .. Len(out) /\ tail[i] = out[k + i]
        BY <1>4, <1>n, Numbers
      <3>2. out[k + i] = stream[Len(stream) - Len(out) + (k + i)]
        BY <3>1 DEF Inv, InPlace
      <3>3. Len(stream) - Len(out) + (k + i) = Len(stream) - Len(tail) + i
        BY <1>4, <1>n, Numbers
      <3> QED BY <3>1, <3>2, <3>3
    <2>4. Len(ends) > 0 /\ Len(tail) <= Len(stream) - End(Len(ends) - 1)
          /\ End(Len(ends) - 1)' = End(Len(ends) - 1)
      <3>1. Len(ends) > 0 /\ Len(out) <= Len(stream) - End(Len(ends) - 1)
        BY <1>n, Numbers DEF Inv, InPlace
      <3>2. Len(ends) - 1 \in 0 .. Len(ends) /\ (Len(ends) - 1)' = Len(ends) - 1
        BY <1>2, <3>1, Numbers DEF written
      <3>3. End(Len(ends) - 1) \in Nat
        BY <3>2, Ends DEF Inv
      <3>4. End(Len(ends) - 1)' = End(Len(ends) - 1)
        BY <1>2 DEF End, written
      <3> QED BY <1>4, <1>n, <3>1, <3>3, <3>4, Numbers
    <2> QED BY <1>2, <1>6, <1>s, <2>1, <2>2, <2>3, <2>4 DEF InPlace, written
  <1>10. Counted'
    <2>1. Position' = End(Taken) + Len(buf) + Len(socket')
      BY <1>2, <1>s DEF Position
    <2>2. Len(out') = Len(out) - k
      BY <1>4, <1>6
    <2>3. Position' + Len(out') = Len(stream)
      BY <1>5, <1>7, <1>m, <1>n, <2>1, <2>2
    <2>4. stream' = stream /\ Taken' <= Len(ends')
      BY <1>2, <1>s DEF Inv, Counted, written
    <2>5. Position' + Len(out') = Len(stream') /\ Position' + Len(out') <= Len(stream')
      BY <1>m, <2>3, <2>4
    <2> QED BY <2>4, <2>5 DEF Counted
  <1>11. Reading'
    BY <1>2 DEF Inv, Reading, TooLarge, HasFrame, HasHeader
  <1>12. Answered'
    BY <1>2, <1>s, Numbers DEF Inv, Answered
  <1> QED BY <1>8, <1>9, <1>10, <1>11, <1>12, <1>s DEF Inv

LEMMA CloseKeeps == ASSUME Inv, Close PROVE Inv'
  <1>1. link = "up" /\ link' = "closed" /\ UNCHANGED <<written, out, socket, recv, buf, got, result>>
    BY DEF Close
  <1>2. /\ Framed' /\ Taken' = Taken /\ End(Taken)' = End(Taken)
        /\ \A n \in Nat : ItemOf(Frame(n))' = ItemOf(Frame(n))
    BY <1>1, StreamStays
  <1>3. TypeOK'
    BY <1>1 DEF Inv, TypeOK, written
  <1>4. InPlace'
    BY <1>1, <1>2 DEF Inv, InPlace, End, written
  <1>5. Counted'
    BY <1>1, <1>2 DEF Inv, Counted, Position, written
  <1>6. Reading'
    BY <1>1 DEF Inv, Reading, TooLarge, HasFrame, HasHeader
  <1>7. Answered'
    BY <1>1, <1>2, Numbers DEF Inv, Answered
  <1> QED BY <1>2, <1>3, <1>4, <1>5, <1>6, <1>7 DEF Inv

LEMMA AbortKeeps == ASSUME Inv, Abort PROVE Inv'
  <1>1. /\ link = "up" /\ link' = "reset" /\ socket' = <<>>
        /\ UNCHANGED <<written, out, recv, buf, got, result>>
    BY DEF Abort
  <1>2. /\ Framed' /\ Taken' = Taken /\ End(Taken)' = End(Taken)
        /\ \A n \in Nat : ItemOf(Frame(n))' = ItemOf(Frame(n))
    BY <1>1, StreamStays
  <1>3. TypeOK'
    BY <1>1 DEF Inv, TypeOK, written
  <1>0. Len(socket') = 0 /\ \A i \in 1 .. Len(socket') : FALSE
    BY <1>1
  <1>4. InPlace'
    BY <1>0, <1>1, <1>2 DEF Inv, InPlace, End, written
  <1>5. Counted'
    <2>1. Position' = End(Taken) + Len(buf)
      BY <1>0, <1>1, <1>2, Numbers DEF Position
    <2>2. Position' + Len(out') <= Len(stream')
      BY <1>1, <2>1, Numbers DEF written
    <2> QED BY <1>1, <1>2, <2>2 DEF Inv, Counted, written
  <1>6. Reading'
    BY <1>1 DEF Inv, Reading, TooLarge, HasFrame, HasHeader
  <1>7. Answered'
    BY <1>1, <1>2, Numbers DEF Inv, Answered
  <1> QED BY <1>2, <1>3, <1>4, <1>5, <1>6, <1>7 DEF Inv

-----------------------------------------------------------------------------
(* The steps of recv(). *)

(* Those that leave the bytes where they are, and only start, wait, fail   *)
(* or are dropped.                                                         *)
LEMMA WaitKeeps ==
    ASSUME Inv, Call \/ NeedMore \/ ReturnTooLarge \/ ReadFails \/ Cancel
    PROVE  Inv'
  <1>1. UNCHANGED <<written, out, link, socket, buf, got>>
    BY DEF Call, NeedMore, ReturnTooLarge, ReadFails, Cancel, sender
  <1>2. /\ Framed' /\ Taken' = Taken /\ End(Taken)' = End(Taken)
        /\ \A n \in Nat : ItemOf(Frame(n))' = ItemOf(Frame(n))
    BY <1>1, StreamStays
  <1>3. /\ recv' \in {"none", "decode"} \/ (recv' = "read" /\ ~TooLarge /\ ~HasFrame)
        /\ result' = result \/ result' \in {"tooLarge", "failed", "cancelled"}
    BY DEF Call, NeedMore, ReturnTooLarge, ReadFails, Cancel, Return
  <1>4. TypeOK'
    BY <1>1, <1>3 DEF Inv, TypeOK, written
  <1>5. InPlace'
    BY <1>1, <1>2 DEF Inv, InPlace, End, written
  <1>6. Counted'
    BY <1>1, <1>2 DEF Inv, Counted, Position, Dropped, Whole, written
  <1>7. Reading'
    BY <1>1, <1>3 DEF Reading, TooLarge, HasFrame, HasHeader
  <1>8. Whole' = Whole
    BY <1>1 DEF Whole, written
  <1>9. Answered'
    <2>1. \A n \in 1 .. Taken : n \in Nat
      BY Numbers
    <2> QED BY <1>1, <1>2, <1>3, <1>8, <2>1 DEF Inv, Answered
  <1> QED BY <1>2, <1>4, <1>5, <1>6, <1>7, <1>9 DEF Inv

LEMMA ReadKeeps == ASSUME Inv, Read PROVE Inv'
  <1>1. PICK k \in 1 .. Len(socket) :
          buf' = buf \o SubSeq(socket, 1, k) /\ socket' = SubSeq(socket, k + 1, Len(socket))
    BY DEF Read
  <1>2. link # "reset" /\ recv' = "decode" /\ UNCHANGED <<written, out, link, got, result>>
    BY DEF Read, sender
  <1>m. /\ Len(stream) \in Nat /\ Len(out) \in Nat /\ Len(socket) \in Nat /\ Len(buf) \in Nat
        /\ End(Taken) \in Nat
    BY Numbers
  <1>n. k \in Nat /\ k <= Len(socket) /\ k > 0 /\ 0 + 1 = 1
    BY Numbers
  <1> DEFINE head == SubSeq(socket, 1, k)
             tail == SubSeq(socket, k + 1, Len(socket))
  <1>3. head \in Seq(Byte) /\ Len(head) = k /\ \A i \in 1 .. k : head[i] = socket[i]
    BY <1>n, Numbers, Piece
  <1>4. /\ tail \in Seq(Byte) /\ Len(tail) = Len(socket) - k
        /\ \A i \in 1 .. Len(socket) - k : tail[i] = socket[k + i]
    BY <1>n, Numbers, Piece
  <1> HIDE DEF head, tail
  <1>5. /\ buf' \in Seq(Byte) /\ Len(buf') = Len(buf) + k
        /\ \A i \in 1 .. Len(buf) : buf'[i] = buf[i]
        /\ \A i \in 1 .. k : buf'[Len(buf) + i] = socket[i]
    BY <1>1, <1>3, Numbers, Joined DEF head
  <1>6. socket' = tail
    BY <1>1 DEF tail
  <1>s. /\ Framed' /\ Taken' = Taken /\ End(Taken)' = End(Taken)
        /\ \A n \in Nat : ItemOf(Frame(n))' = ItemOf(Frame(n))
    BY <1>2, StreamStays
  <1>7. TypeOK'
    BY <1>2, <1>4, <1>5, <1>6 DEF Inv, TypeOK, written
  <1>8. InPlace'
    <2>1. ASSUME NEW i \in 1 .. Len(buf') PROVE buf'[i] = stream[End(Taken) + i]
      <3>1. CASE i \in 1 .. Len(buf)
        BY <1>5, <3>1 DEF Inv, InPlace
      <3>2. CASE i \notin 1 .. Len(buf)
        <4>1. i - Len(buf) \in 1 .. k /\ i = Len(buf) + (i - Len(buf))
          BY <1>5, <1>n, <3>2, Numbers
        <4>2. buf'[i] = socket[i - Len(buf)]
          BY <1>5, <4>1
        <4>3. socket[i - Len(buf)] = stream[End(Taken) + Len(buf) + (i - Len(buf))]
          BY <1>n, <4>1, Numbers DEF Inv, InPlace
        <4>4. End(Taken) + Len(buf) + (i - Len(buf)) = End(Taken) + i
          BY <1>5, <1>n, <4>1, Numbers
        <4> QED BY <4>2, <4>3, <4>4
      <3> QED BY <3>1, <3>2
    <2>2. ASSUME NEW i \in 1 .. Len(tail)
          PROVE  tail[i] = stream[End(Taken) + Len(buf') + i]
      <3>1. k + i \in 1 .. Len(socket) /\ tail[i] = socket[k + i]
        BY <1>4, <1>n, Numbers
      <3>2. socket[k + i] = stream[End(Taken) + Len(buf) + (k + i)]
        BY <3>1 DEF Inv, InPlace
      <3>3. End(Taken) + Len(buf) + (k + i) = End(Taken) + Len(buf') + i
        BY <1>4, <1>5, <1>n, Numbers
      <3> QED BY <3>1, <3>2, <3>3
    <2> QED BY <1>2, <1>6, <1>s, <2>1, <2>2 DEF Inv, InPlace, End, written
  <1>9. Counted'
    <2>1. Position' = Position
      <3>1. Len(socket') = Len(socket) - k /\ Len(buf') = Len(buf) + k
        BY <1>4, <1>5, <1>6
      <3>2. Position' = End(Taken) + (Len(buf) + k) + (Len(socket) - k)
        BY <1>s, <3>1 DEF Position
      <3> QED BY <1>m, <1>n, <3>2 DEF Position
    <2>2. ~Dropped
      BY <1>n, Numbers DEF Dropped
    <2> QED BY <1>2, <1>s, <2>1, <2>2 DEF Inv, Counted, written
  <1>10. Reading'
    BY <1>2 DEF Reading
  <1>11. Whole' = Whole
    BY <1>2 DEF Whole, written
  <1>12. Answered'
    <2>1. \A n \in 1 .. Taken : n \in Nat
      BY Numbers
    <2> QED BY <1>2, <1>11, <1>s, <2>1 DEF Inv, Answered
  <1> QED BY <1>7, <1>8, <1>9, <1>10, <1>12, <1>s DEF Inv

(* At the end of the stream every whole frame has been taken, and only a   *)
(* frame the sender had not finished leaves bytes behind.                  *)
LEMMA AtTheEnd ==
    ASSUME Inv, recv = "read", link = "closed", socket = <<>>
    PROVE  Taken = Whole /\ (buf # <<>> => out # <<>>)
  <1>m. /\ Len(stream) \in Nat /\ Len(out) \in Nat /\ Len(buf) \in Nat /\ Len(socket) = 0
        /\ End(Taken) \in Nat /\ Taken \in Nat /\ Len(ends) \in Nat /\ Taken <= Len(ends)
        /\ (out = <<>> <=> Len(out) = 0) /\ (buf = <<>> <=> Len(buf) = 0)
    BY Numbers
  <1>w. Whole \in Nat /\ Taken <= Whole /\ Whole <= Len(ends)
    BY TakenIsWhole
  <1>1. CASE Dropped
    BY <1>1 DEF Dropped
  <1>2. CASE ~Dropped
    <2>1. End(Taken) + Len(buf) + Len(out) = Len(stream)
      BY <1>2, <1>m DEF Inv, Counted, Position
    <2>2. ASSUME Taken # Whole PROVE FALSE
      <3> DEFINE n == Taken + 1
      <3>1. n \in 1 .. Len(ends) /\ n <= Whole /\ n - 1 = Taken
        BY <1>m, <1>w, <2>2
      <3>2. ends[n] \in Nat /\ ends[n] <= Len(stream) - Len(out)
        <4>1. ends[n] \in Nat /\ ends[n] <= Len(stream)
          BY <3>1 DEF Inv, TypeOK, Framed
        <4>2. CASE out = <<>>
          BY <1>m, <4>1, <4>2
        <4>3. CASE out # <<>>
          <5>1. n <= Len(ends) - 1 /\ Len(ends) - 1 \in 1 .. Len(ends) /\ n \in 1 .. Len(ends) - 1
            BY <1>m, <3>1, <4>3 DEF Whole
          <5>2. ends[n] <= ends[Len(ends) - 1] /\ End(Len(ends) - 1) = ends[Len(ends) - 1]
            BY <1>m, <5>1 DEF Inv, Framed, End
          <5>3. Len(out) <= Len(stream) - ends[Len(ends) - 1]
            BY <4>3, <5>2 DEF Inv, InPlace
          <5>4. ends[Len(ends) - 1] \in Nat
            BY <5>1 DEF Inv, TypeOK
          <5> QED BY <1>m, <4>1, <5>2, <5>3, <5>4
        <4> QED BY <4>2, <4>3
      <3>3. End(Taken) + 4 <= ends[n]
        BY <3>1 DEF Inv, Framed, HeaderBytes
      <3>4. Len(buf) >= 4
        BY <1>m, <2>1, <3>2, <3>3
      <3>5. HasHeader /\ ~TooLarge /\ ~HasFrame
        BY <3>4 DEF HasHeader, HeaderBytes, Inv, Reading
      <3>6. Announced(buf) \in Nat /\ ends[n] = End(Taken) + 4 + Announced(buf)
        BY <3>5, Front
      <3>7. Len(buf) < 4 + Announced(buf)
        BY <1>m, <3>5, <3>6 DEF HasFrame, HeaderBytes
      <3> QED BY <1>m, <2>1, <3>2, <3>6, <3>7
    <2>3. ASSUME buf # <<>>, out = <<>> PROVE FALSE
      <3>1. Taken = Len(ends)
        BY <2>2, <2>3 DEF Whole
      <3>2. End(Taken) = Len(stream)
        BY <3>1 DEF Inv, Framed
      <3> QED BY <1>m, <2>1, <2>3, <3>2
    <2> QED BY <2>2, <2>3
  <1> QED BY <1>1, <1>2

LEMMA ReadEofKeeps == ASSUME Inv, ReadEof PROVE Inv'
  <1>1. /\ recv = "read" /\ link = "closed" /\ socket = <<>> /\ buf' = <<>> /\ recv' = "none"
        /\ result' = IF buf = <<>> THEN "eof" ELSE "incomplete"
        /\ UNCHANGED <<written, out, link, socket, got>>
    BY DEF ReadEof, Return, sender
  <1>2. Taken = Whole /\ (buf # <<>> => out # <<>>)
    BY <1>1, AtTheEnd
  <1>3. /\ Framed' /\ Taken' = Taken /\ End(Taken)' = End(Taken)
        /\ \A n \in Nat : ItemOf(Frame(n))' = ItemOf(Frame(n))
    BY <1>1, StreamStays
  <1>4. Whole' = Whole
    BY <1>1 DEF Whole, written
  <1>5. Len(buf') = 0 /\ Len(socket') = 0 /\ \A i \in 1 .. 0 : FALSE
    BY <1>1
  <1>m. /\ Len(stream) \in Nat /\ Len(out) \in Nat /\ Len(buf) \in Nat /\ Len(socket) = 0
        /\ End(Taken) \in Nat /\ End(Taken) + Len(buf) + Len(socket) + Len(out) <= Len(stream)
        /\ (out = <<>> <=> Len(out) = 0) /\ (buf = <<>> <=> Len(buf) = 0)
    BY <1>1, Numbers
  <1>6. TypeOK'
    BY <1>1 DEF Inv, TypeOK, written
  <1>7. InPlace'
    BY <1>1, <1>3, <1>5 DEF Inv, InPlace, End, written
  <1>8. Counted'
    <2>1. Position' = End(Taken)
      BY <1>3, <1>5, <1>m DEF Position
    <2>2. Position' + Len(out') <= Len(stream')
      BY <1>1, <1>m, <2>1 DEF written
    <2>3. CASE buf = <<>>
      <3>1. Position' = Position
        BY <1>m, <2>1, <2>3 DEF Position
      <3>2. Dropped' = Dropped
        BY <1>1, <1>3, <1>4, <2>3 DEF Dropped
      <3> QED BY <1>1, <1>3, <2>2, <3>1, <3>2 DEF Inv, Counted, written
    <2>4. CASE buf # <<>>
      <3>1. Dropped'
        BY <1>1, <1>2, <1>3, <1>4, <2>4 DEF Dropped
      <3> QED BY <1>1, <1>3, <2>2, <3>1 DEF Inv, Counted, written
    <2> QED BY <2>3, <2>4
  <1>9. Reading'
    BY <1>1 DEF Reading
  <1>10. Answered'
    <2>1. \A n \in 1 .. Taken : n \in Nat
      BY Numbers
    <2> QED BY <1>1, <1>2, <1>3, <1>4, <2>1 DEF Inv, Answered
  <1> QED BY <1>3, <1>6, <1>7, <1>8, <1>9, <1>10 DEF Inv

(* The payload decode() splits off is that of the frame next to be taken.  *)
LEMMA NextFrame ==
    ASSUME Inv, HasFrame
    PROVE  /\ Taken + 1 \in 1 .. Whole
           /\ Announced(buf) \in Nat /\ Len(buf) >= 4 + Announced(buf)
           /\ ends[Taken + 1] = End(Taken) + 4 + Announced(buf)
           /\ PayloadOf(buf) \in Seq(Byte)
           /\ ItemOf(Frame(Taken + 1)) =
                IF PayloadOf(buf) \in Valid THEN Message(PayloadOf(buf)) ELSE Garbled
  <1>m. /\ Len(stream) \in Nat /\ Len(out) \in Nat /\ Len(buf) \in Nat /\ Len(socket) \in Nat
        /\ End(Taken) \in Nat /\ Taken \in Nat /\ Len(ends) \in Nat /\ buf \in Seq(Byte)
        /\ End(Taken) + Len(buf) + Len(socket) + Len(out) <= Len(stream)
        /\ (out = <<>> <=> Len(out) = 0)
    BY Numbers
  <1> DEFINE n == Taken + 1
             k == Announced(buf)
  <1>1. HasHeader /\ ~TooLarge
    BY DEF HasFrame
  <1>2. n \in 1 .. Len(ends) /\ k \in Nat /\ k = Announced(Frame(n)) /\ ends[n] = End(Taken) + 4 + k
    BY <1>1, Front
  <1>3. Len(buf) >= 4 + k
    BY DEF HasFrame, HeaderBytes
  <1>4. n - 1 = Taken
    BY <1>m
  <1> HIDE DEF n, k
  <1>5. n \in 1 .. Whole
    <2>1. CASE out = <<>>
      BY <1>2, <2>1 DEF Whole
    <2>2. CASE out # <<>>
      <3>1. ends[n] < Len(stream)
        BY <1>2, <1>3, <1>m, <2>2
      <3>2. End(Len(ends)) = Len(stream) /\ End(n) = ends[n]
        BY <1>2 DEF Inv, Framed, End
      <3>3. n # Len(ends)
        BY <1>m, <3>1, <3>2
      <3> QED BY <1>2, <1>m, <2>2, <3>3 DEF Whole
    <2> QED BY <2>1, <2>2
  <1> DEFINE f == Frame(n)
             p == SubSeq(f, 5, Len(f))
             q == SubSeq(buf, 5, 4 + k)
  <1>6. /\ f \in Seq(Byte) /\ Len(f) = 4 + k
        /\ \A i \in 1 .. 4 + k : f[i] = stream[End(Taken) + i]
    <2>1. /\ f \in Seq(Byte) /\ Len(f) = ends[n] - End(Taken)
          /\ \A i \in 1 .. ends[n] - End(Taken) : f[i] = stream[End(Taken) + i]
      BY <1>2, <1>4, FrameInStream DEF Inv
    <2>2. ends[n] - End(Taken) = 4 + k
      BY <1>2, <1>m
    <2> HIDE DEF f
    <2> QED BY <2>1, <2>2
  <1> HIDE DEF f
  <1>7. p = q
    <2>0. 4 + 1 = 5 /\ (4 + k) - 4 = k /\ 4 + k \in Nat /\ 4 <= 4 + k
      BY <1>2
    <2>1. p \in Seq(Byte) /\ Len(p) = k /\ \A i \in 1 .. k : p[i] = f[4 + i]
      BY <1>6, <2>0, Piece
    <2>2. q \in Seq(Byte) /\ Len(q) = k /\ \A i \in 1 .. k : q[i] = buf[4 + i]
      BY <1>3, <1>m, <2>0, Piece
    <2> HIDE DEF p, q
    <2>3. ASSUME NEW i \in 1 .. k PROVE p[i] = q[i]
      <3>1. 4 + i \in 1 .. 4 + k /\ 4 + i \in 1 .. Len(buf)
        <4>1. k \in Nat /\ Len(buf) \in Nat /\ 4 + k <= Len(buf)
          BY <1>2, <1>3, <1>m
        <4> QED BY <4>1
      <3>2. f[4 + i] = stream[End(Taken) + (4 + i)]
        BY <1>6, <3>1
      <3>3. buf[4 + i] = stream[End(Taken) + (4 + i)]
        BY <3>1 DEF Inv, InPlace
      <3> QED BY <2>1, <2>2, <3>2, <3>3
    <2> QED BY <2>1, <2>2, <2>3, SeqEqual
  <1>8. q = PayloadOf(buf)
    <2>1. 4 + 1 = 5
      OBVIOUS
    <2> QED BY <2>1 DEF PayloadOf, HeaderBytes, k
  <1>9. q \in Seq(Byte)
    <2>1. 4 + 1 = 5 /\ 4 + k \in Nat
      BY <1>2
    <2> QED BY <1>3, <1>m, <2>1, Piece
  <1>10. ItemOf(f) = IF p \in Valid THEN Message(p) ELSE Garbled
    <2>1. ~ (k > MaxMessage)
      BY <1>1 DEF TooLarge, k
    <2>2. 4 + 1 = 5 /\ Announced(f) = k
      BY <1>2 DEF f
    <2> QED BY <2>1, <2>2 DEF ItemOf, HeaderBytes
  <1> QED BY <1>2, <1>3, <1>5, <1>7, <1>8, <1>9, <1>10 DEF n, k, f

LEMMA TakesNext ==
    ASSUME Inv, ReturnMessage \/ ReturnGarbled
    PROVE  /\ HasFrame /\ recv' = "none"
           /\ buf' = RestOf(buf)
           /\ got' = Append(got, ItemOf(Frame(Taken + 1)))
           /\ ItemOf(Frame(Taken + 1)) \in Outcomes
           /\ result' = ItemOf(Frame(Taken + 1)).kind
           /\ UNCHANGED <<written, out, link, socket>>
  <1>1. HasFrame
    BY DEF ReturnMessage, ReturnGarbled
  <1>2. /\ PayloadOf(buf) \in Seq(Byte)
        /\ ItemOf(Frame(Taken + 1)) =
             IF PayloadOf(buf) \in Valid THEN Message(PayloadOf(buf)) ELSE Garbled
    BY <1>1, NextFrame
  <1>3. Consume(ItemOf(Frame(Taken + 1)))
    BY <1>2 DEF ReturnMessage, ReturnGarbled
  <1>4. ItemOf(Frame(Taken + 1)) \in Outcomes
    <2>1. \A p \in Seq(Byte) : Message(p) \in Outcomes
      BY DEF Message, Outcomes
    <2>2. Garbled \in Outcomes
      BY DEF Garbled, Outcomes
    <2> QED BY <1>2, <2>1, <2>2
  <1> QED BY <1>1, <1>3, <1>4 DEF Consume, Return, sender

LEMMA ConsumeKeeps == ASSUME Inv, ReturnMessage \/ ReturnGarbled PROVE Inv'
  <1> DEFINE n == Taken + 1
             k == Announced(buf)
             r == ItemOf(Frame(n))
  <1>1. /\ HasFrame /\ recv' = "none" /\ buf' = RestOf(buf) /\ got' = Append(got, r)
        /\ r \in Outcomes /\ result' = r.kind /\ UNCHANGED <<written, out, link, socket>>
    BY TakesNext
  <1>2. n \in 1 .. Whole /\ k \in Nat /\ Len(buf) >= 4 + k /\ ends[n] = End(Taken) + 4 + k
    BY <1>1, NextFrame
  <1>m. /\ Len(stream) \in Nat /\ Len(out) \in Nat /\ Len(buf) \in Nat /\ Len(socket) \in Nat
        /\ End(Taken) \in Nat /\ Taken \in Nat /\ Len(ends) \in Nat /\ buf \in Seq(Byte)
        /\ End(Taken) + Len(buf) + Len(socket) + Len(out) <= Len(stream)
        /\ (buf = <<>> <=> Len(buf) = 0)
    BY Numbers
  <1>w. Whole \in Nat /\ Whole <= Len(ends) /\ Whole' = Whole
    BY <1>1, TakenIsWhole DEF Whole, written
  <1>s. /\ Framed'
        /\ \A i \in Nat : ItemOf(Frame(i))' = ItemOf(Frame(i)) /\ End(i)' = End(i)
    BY <1>1, StreamStays
  <1>g. got \in Seq(Outcomes)
    BY DEF Inv, TypeOK
  <1> HIDE DEF r
  <1>3. /\ got' \in Seq(Outcomes) /\ Taken' = n /\ got'[n] = r
        /\ \A i \in 1 .. Taken : got'[i] = got[i]
    BY <1>1, <1>g, AppendProperties DEF Taken
  <1>4. End(Taken)' = End(Taken) + 4 + k
    <2>1. End(Taken)' = ends'[n]
      BY <1>3, <1>m DEF End
    <2> QED BY <1>1, <1>2, <2>1 DEF written
  <1> HIDE DEF n, k
  <1>5. /\ buf' \in Seq(Byte) /\ Len(buf') = Len(buf) - (4 + k)
        /\ \A i \in 1 .. Len(buf) - (4 + k) : buf'[i] = buf[4 + k + i]
    <2>1. buf' = SubSeq(buf, (4 + k) + 1, Len(buf))
      BY <1>1 DEF RestOf, HeaderBytes, k
    <2> DEFINE a == 4 + k
    <2>2. a \in Nat /\ a <= Len(buf) /\ Len(buf) \in Nat /\ buf \in Seq(Byte)
      BY <1>2, <1>m
    <2> HIDE DEF a
    <2>3. /\ SubSeq(buf, a + 1, Len(buf)) \in Seq(Byte)
          /\ Len(SubSeq(buf, a + 1, Len(buf))) = Len(buf) - a
          /\ \A i \in 1 .. Len(buf) - a : SubSeq(buf, a + 1, Len(buf))[i] = buf[a + i]
      BY <2>2, Piece
    <2> QED BY <2>1, <2>3 DEF a
  <1>6. TypeOK'
    BY <1>1, <1>3, <1>5 DEF Inv, TypeOK, written
  <1>7. InPlace'
    <2>1. ASSUME NEW i \in 1 .. Len(buf') PROVE buf'[i] = stream[End(Taken) + 4 + k + i]
      <3>1. 4 + k + i \in 1 .. Len(buf) /\ buf'[i] = buf[4 + k + i]
        BY <1>2, <1>5, <1>m
      <3>2. buf[4 + k + i] = stream[End(Taken) + (4 + k + i)]
        BY <3>1 DEF Inv, InPlace
      <3>3. End(Taken) + (4 + k + i) = End(Taken) + 4 + k + i
        BY <1>2, <1>5, <1>m
      <3> QED BY <3>1, <3>2, <3>3
    <2>2. ASSUME NEW i \in 1 .. Len(socket)
          PROVE  socket[i] = stream[End(Taken) + 4 + k + Len(buf') + i]
      <3>1. socket[i] = stream[End(Taken) + Len(buf) + i]
        BY DEF Inv, InPlace
      <3>2. End(Taken) + 4 + k + Len(buf') + i = End(Taken) + Len(buf) + i
        BY <1>2, <1>5, <1>m
      <3> QED BY <3>1, <3>2
    <2> QED BY <1>1, <1>4, <2>1, <2>2 DEF Inv, InPlace, End, written
  <1>8. Counted'
    <2>1. Position' = Position
      <3>1. Position' = (End(Taken) + 4 + k) + (Len(buf) - (4 + k)) + Len(socket)
        BY <1>1, <1>4, <1>5 DEF Position
      <3> QED BY <1>2, <1>m, <3>1 DEF Position
    <2>2. ~Dropped
      BY <1>2, <1>m DEF Dropped
    <2>3. Taken' <= Len(ends)
      BY <1>2, <1>3, <1>w
    <2> QED BY <1>1, <2>1, <2>2, <2>3 DEF Inv, Counted, written
  <1>9. Reading'
    BY <1>1 DEF Reading
  <1>10. Answered'
    <2>1. ASSUME NEW i \in 1 .. n PROVE got'[i] = ItemOf(Frame(i))'
      <3>1. CASE i = n
        BY <1>3, <1>m, <1>s, <3>1 DEF r, n
      <3>2. CASE i # n
        <4>1. i \in 1 .. Taken /\ i \in Nat
          BY <1>m, <3>2 DEF n
        <4> QED BY <1>3, <1>s, <4>1 DEF Inv, Answered
      <3> QED BY <3>1, <3>2
    <2>2. result' \notin {"eof", "incomplete"}
      BY <1>1 DEF Outcomes
    <2> QED BY <1>3, <2>1, <2>2 DEF Answered
  <1> QED BY <1>6, <1>7, <1>8, <1>9, <1>10, <1>s DEF Inv

-----------------------------------------------------------------------------
LEMMA Sends == ASSUME Send \/ ForeignSend PROVE \E f \in Frames : Begin(f)
  BY DEF Send, ForeignSend, Frames

LEMMA Kept == ASSUME Inv, [Next]_vars PROVE Inv'
  <1>1. CASE Send \/ ForeignSend
    BY <1>1, Sends, BeginKeeps
  <1>2. CASE Write
    BY <1>2, WriteKeeps
  <1>3. CASE Close
    BY <1>3, CloseKeeps
  <1>4. CASE Abort
    BY <1>4, AbortKeeps
  <1>5. CASE Call \/ NeedMore \/ ReturnTooLarge \/ ReadFails \/ Cancel
    BY <1>5, WaitKeeps
  <1>6. CASE Read
    BY <1>6, ReadKeeps
  <1>7. CASE ReadEof
    BY <1>7, ReadEofKeeps
  <1>8. CASE ReturnMessage \/ ReturnGarbled
    BY <1>8, ConsumeKeeps
  <1>9. CASE UNCHANGED vars
    BY <1>9 DEF vars, written, Inv, TypeOK, Framed, InPlace, Counted, Reading, Answered,
       End, Taken, Frame, LengthAt, Position, Dropped, Whole, ItemOf, TooLarge, HasFrame, HasHeader
  <1> QED
    BY <1>1, <1>2, <1>3, <1>4, <1>5, <1>6, <1>7, <1>8, <1>9
    DEF Next, SenderStep, ReceiverStep, Finish

LEMMA Invariant == Spec => []Inv
  <1>1. Inv /\ [Next]_vars => Inv'
    BY Kept
  <1> QED BY Starts, <1>1, PTL DEF Spec

(* recv() comes to the frames that were sent, in order, none skipped and   *)
(* none twice, wherever the chunks are cut and calls are dropped.          *)
THEOREM InOrder == Spec => []ReceivedInOrder
  <1>1. Inv => ReceivedInOrder
    BY TakenIsWhole DEF Inv, Answered, ReceivedInOrder
  <1> QED BY <1>1, Invariant, PTL

(* The end of the stream is reported after every whole frame, and an       *)
(* incomplete message only when the sender left inside one.                *)
THEOREM EndIsEnd == Spec => []EofIsTruthful
  <1>1. Inv => EofIsTruthful
    BY DEF Inv, Answered, EofIsTruthful
  <1> QED BY <1>1, Invariant, PTL

(* Read buffer, socket and sender together hold what follows the last      *)
(* frame taken, byte for byte.                                             *)
THEOREM BytesKept == Spec => []NothingLost
  <1>1. ASSUME Inv, link = "up" \/ (link = "closed" /\ out = <<>>)
        PROVE  buf \o socket \o out = SubSeq(stream, End(Taken) + 1, Len(stream))
    <2>m. /\ Len(stream) \in Nat /\ Len(out) \in Nat /\ Len(buf) \in Nat /\ Len(socket) \in Nat
          /\ End(Taken) \in Nat
          /\ stream \in Seq(Byte) /\ buf \in Seq(Byte) /\ socket \in Seq(Byte) /\ out \in Seq(Byte)
      BY <1>1, Numbers
    <2>1. End(Taken) + Len(buf) + Len(socket) + Len(out) = Len(stream)
      BY <1>1 DEF Inv, Counted, Position, Dropped
    <2> DEFINE a == End(Taken)
               head == buf \o socket
               all == head \o out
               rest == SubSeq(stream, a + 1, Len(stream))
    <2>2. /\ head \in Seq(Byte) /\ Len(head) = Len(buf) + Len(socket)
          /\ \A i \in 1 .. Len(buf) : head[i] = buf[i]
          /\ \A i \in 1 .. Len(socket) : head[Len(buf) + i] = socket[i]
      BY <2>m, Joined
    <2> HIDE DEF head
    <2>3. /\ all \in Seq(Byte) /\ Len(all) = Len(head) + Len(out)
          /\ \A i \in 1 .. Len(head) : all[i] = head[i]
          /\ \A i \in 1 .. Len(out) : all[Len(head) + i] = out[i]
      BY <2>m, <2>2, Joined
    <2>4. /\ rest \in Seq(Byte) /\ Len(rest) = Len(stream) - a
          /\ \A i \in 1 .. Len(stream) - a : rest[i] = stream[a + i]
      <3>1. a <= Len(stream)
        BY <2>m, <2>1
      <3> HIDE DEF a
      <3> QED BY <2>m, <3>1, Piece DEF a
    <2> HIDE DEF a, all, rest
    <2>5. a \in Nat /\ a + Len(buf) + Len(socket) + Len(out) = Len(stream)
      BY <2>m, <2>1 DEF a
    <2>l. /\ Len(stream) \in Nat /\ Len(out) \in Nat /\ Len(buf) \in Nat /\ Len(socket) \in Nat
          /\ a \in Nat /\ a + Len(buf) + Len(socket) + Len(out) = Len(stream)
          /\ Len(head) = Len(buf) + Len(socket) /\ Len(all) = Len(head) + Len(out)
          /\ Len(rest) = Len(stream) - a
      BY <2>m, <2>2, <2>3, <2>4, <2>5
    <2>6. ASSUME NEW i \in 1 .. Len(all) PROVE all[i] = rest[i]
      <3>1. i \in Nat /\ rest[i] = stream[a + i]
        BY <2>m, <2>2, <2>3, <2>4, <2>5
      <3>2. CASE i \in 1 .. Len(buf)
        <4>1. all[i] = buf[i]
          BY <2>m, <2>2, <2>3, <3>2
        <4> QED BY <1>1, <3>1, <3>2, <4>1 DEF Inv, InPlace, a
      <3>3. CASE i - Len(buf) \in 1 .. Len(socket)
        <4> DEFINE j == i - Len(buf)
        <4>1. i = Len(buf) + j /\ i \in 1 .. Len(head)
          BY <2>m, <2>2, <3>1, <3>3
        <4>2. all[i] = socket[j]
          BY <2>2, <2>3, <3>3, <4>1
        <4>3. socket[j] = stream[a + Len(buf) + j]
          BY <1>1, <3>3 DEF Inv, InPlace, a
        <4>4. a + Len(buf) + j = a + i
          BY <2>m, <2>5, <3>1
        <4> QED BY <3>1, <4>2, <4>3, <4>4
      <3>4. CASE i - Len(head) \in 1 .. Len(out)
        <4> DEFINE j == i - Len(head)
        <4>1. i = Len(head) + j
          BY <2>m, <2>2, <3>1
        <4>2. all[i] = out[j]
          BY <2>3, <3>4, <4>1
        <4>3. out[j] = stream[Len(stream) - Len(out) + j]
          BY <1>1, <3>4 DEF Inv, InPlace
        <4>4. Len(stream) - Len(out) + j = a + i
          BY <2>l, <3>1
        <4> QED BY <3>1, <4>2, <4>3, <4>4
      <3> QED BY <2>m, <2>2, <2>3, <3>1, <3>2, <3>3, <3>4
    <2>7. Len(all) = Len(rest)
      BY <2>l
    <2>8. all = rest
      BY <2>3, <2>4, <2>6, <2>7, SeqEqual
    <2> QED BY <2>8 DEF all, rest, head, a
  <1>2. Inv => NothingLost
    BY <1>1 DEF NothingLost
  <1> QED BY <1>2, Invariant, PTL

-----------------------------------------------------------------------------
(* The channel of messages. *)

Items == [kind : {"message", "garbled", "tooLarge"}, payload : Seq(Byte)]

SentItems == [n \in DOMAIN ends |-> ItemOf(Frame(n))]

LEMMA Item == ASSUME NEW f \in Seq(Byte) PROVE ItemOf(f) \in Items
  <1> DEFINE p == SubSeq(f, 4 + 1, Len(f))
  <1>1. p \in Seq(Byte)
    BY Piece
  <1>2. p = SubSeq(f, HeaderBytes + 1, Len(f))
    BY DEF HeaderBytes
  <1> HIDE DEF p
  <1>3. ItemOf(f) \in {TooLargeItem, Message(p), Garbled}
    BY <1>2 DEF ItemOf
  <1>4. TooLargeItem \in Items /\ Garbled \in Items
    BY DEF TooLargeItem, Garbled, Items
  <1>5. Message(p) \in Items
    BY <1>1 DEF Message, Items
  <1> QED BY <1>3, <1>4, <1>5

LEMMA SentSoFar ==
    ASSUME Inv
    PROVE  /\ SentItems \in Seq(Items) /\ Len(SentItems) = Len(ends)
           /\ \A n \in 1 .. Len(ends) : SentItems[n] = ItemOf(Frame(n))
  <1>1. DOMAIN ends = 1 .. Len(ends) /\ Len(ends) \in Nat
    BY DEF Inv, TypeOK
  <1>2. \A n \in 1 .. Len(ends) : ItemOf(Frame(n)) \in Items
    BY FrameInStream, Item DEF Inv
  <1>3. SentItems = [n \in 1 .. Len(ends) |-> ItemOf(Frame(n))]
    BY <1>1 DEF SentItems
  <1> QED BY <1>1, <1>2, <1>3

(* What the steps are in the channel. *)
LEMMA BeginIsStart == ASSUME Inv, Inv', NEW f \in Frames, Begin(f) PROVE Channel!Start
  <1>1. link = "up" /\ out = <<>> /\ out' = f /\ UNCHANGED <<link, got, result>>
    BY DEF Begin
  <1>2. f \in Seq(Byte) /\ Len(f) >= 4 /\ f # <<>>
    <2>1. f \in Seq(Byte) /\ Len(f) >= 4
      BY FrameFormat DEF WellFramed, HeaderBytes
    <2> QED BY <2>1
  <1>3. /\ Len(ends') = Len(ends) + 1 /\ Len(ends) \in Nat
        /\ \A n \in 1 .. Len(ends) : Frame(n)' = Frame(n)
        /\ \A n \in Nat : n = Len(ends) + 1 => Frame(n)' = f
    BY Behind, Numbers
  <1>4. SentItems \in Seq(Items) /\ Len(SentItems) = Len(ends) /\ ItemOf(f) \in Items
        /\ \A n \in 1 .. Len(ends) : SentItems[n] = ItemOf(Frame(n))
    BY <1>2, Item, SentSoFar
  <1>5. SentItems' \in Seq(Items) /\ Len(SentItems') = Len(ends')
        /\ \A n \in 1 .. Len(ends') : SentItems'[n] = ItemOf(Frame(n))'
    <2>1. DOMAIN ends' = 1 .. Len(ends') /\ Len(ends') \in Nat
      BY DEF Inv, TypeOK
    <2>2. \A n \in 1 .. Len(ends') : ItemOf(Frame(n))' \in Items
      <3>1. \A n \in 1 .. Len(ends') : n \in 1 .. Len(ends) \/ n = Len(ends) + 1
        BY <1>3
      <3>2. \A n \in 1 .. Len(ends) : ItemOf(Frame(n))' = ItemOf(Frame(n))
        BY <1>3 DEF ItemOf
      <3>3. \A n \in Nat : n = Len(ends) + 1 => ItemOf(Frame(n))' = ItemOf(f)
        BY <1>3 DEF ItemOf
      <3>4. \A n \in 1 .. Len(ends) : ItemOf(Frame(n)) \in Items
        BY FrameInStream, Item DEF Inv
      <3> QED BY <1>3, <1>4, <3>1, <3>2, <3>3, <3>4
    <2>3. SentItems' = [n \in 1 .. Len(ends') |-> ItemOf(Frame(n))']
      BY <2>1 DEF SentItems
    <2> QED BY <2>1, <2>2, <2>3
  <1>6. SentItems' = Append(SentItems, ItemOf(f))
    <2> DEFINE longer == Append(SentItems, ItemOf(f))
    <2>1. /\ longer \in Seq(Items) /\ Len(longer) = Len(ends) + 1
          /\ \A n \in 1 .. Len(ends) : longer[n] = SentItems[n]
          /\ longer[Len(ends) + 1] = ItemOf(f)
      BY <1>4, AppendProperties
    <2> HIDE DEF longer
    <2>2. ASSUME NEW n \in 1 .. Len(ends') PROVE SentItems'[n] = longer[n]
      <3>1. CASE n \in 1 .. Len(ends)
        <4>1. ItemOf(Frame(n))' = ItemOf(Frame(n))
          BY <1>3, <3>1 DEF ItemOf
        <4> QED BY <1>4, <1>5, <2>1, <3>1, <4>1
      <3>2. CASE n = Len(ends) + 1
        <4>1. n \in Nat /\ Frame(n)' = f
          BY <1>3, <3>2
        <4>2. ItemOf(Frame(n))' = ItemOf(f)
          BY <4>1 DEF ItemOf
        <4> QED BY <1>5, <2>1, <3>2, <4>2
      <3> QED BY <1>3, <3>1, <3>2
    <2>3. SentItems' = longer
      BY <1>3, <1>5, <2>1, <2>2, SeqEqual
    <2> QED BY <2>3 DEF longer
  <1>7. Whole = Len(SentItems) /\ Whole' = Whole
    BY <1>1, <1>2, <1>3, <1>4 DEF Whole
  <1> QED BY <1>1, <1>6, <1>7 DEF Channel!Start, SentItems

LEMMA OthersInChannel ==
    ASSUME Inv, Inv', SenderStep \/ ReceiverStep, ~ (Send \/ ForeignSend)
    PROVE  Channel!Next \/ UNCHANGED Channel!vars
  <1>1. UNCHANGED written
    BY DEF SenderStep, ReceiverStep, Finish, Write, Close, Abort, Call, NeedMore, ReturnMessage,
       ReturnGarbled, Consume, ReturnTooLarge, ReadEof, ReadFails, Read, Cancel, sender
  <1>2. SentItems' = SentItems /\ Len(SentItems) = Len(ends)
        /\ \A n \in 1 .. Len(ends) : SentItems[n] = ItemOf(Frame(n))
    <2>1. SentItems' = SentItems
      BY <1>1 DEF SentItems, ItemOf, Frame, End, written
    <2> QED BY <2>1, SentSoFar
  <1>3. Taken \in Nat /\ Whole \in Nat /\ Taken <= Whole /\ Whole <= Len(ends) /\ Len(ends) \in Nat
        /\ Taken = Len(got)
    BY Numbers, TakenIsWhole DEF Taken
  <1>4. out' = out => Whole' = Whole
    BY <1>1 DEF Whole, written
  <1>5. CASE Write
    <2>1. link = "up" /\ out # <<>> /\ UNCHANGED <<link, got, result>>
      BY <1>5 DEF Write
    <2>2. Len(ends) > 0 /\ Whole = Len(ends) - 1
      BY <2>1 DEF Inv, InPlace, Whole
    <2>3. CASE out' = <<>>
      <3>1. Whole' = Len(ends)
        BY <1>1, <2>3 DEF Whole, written
      <3>2. Channel!Complete
        BY <1>2, <1>3, <2>1, <2>2, <3>1 DEF Channel!Complete, SentItems
      <3> QED BY <3>2 DEF Channel!Next
    <2>4. CASE out' # <<>>
      <3>1. Whole' = Whole
        BY <1>1, <2>1, <2>4 DEF Whole, written
      <3> QED BY <1>2, <2>1, <3>1 DEF Channel!vars, SentItems
    <2> QED BY <2>3, <2>4
  <1>6. CASE Close \/ Abort
    <2>1. link = "up" /\ link' # "up" /\ UNCHANGED <<out, got, result>>
      BY <1>6 DEF Close, Abort
    <2>2. Channel!Leave
      BY <1>2, <1>4, <2>1 DEF Channel!Leave, SentItems
    <2> QED BY <2>2 DEF Channel!Next
  <1>7. CASE Call \/ NeedMore \/ Read
    <2>1. UNCHANGED <<out, link, got, result>>
      BY <1>7 DEF Call, NeedMore, Read, sender
    <2> QED BY <1>2, <1>4, <2>1 DEF Channel!vars, SentItems
  <1>8. CASE ReturnMessage \/ ReturnGarbled
    <2>1. /\ HasFrame /\ got' = Append(got, ItemOf(Frame(Taken + 1)))
          /\ ItemOf(Frame(Taken + 1)) \in Outcomes
          /\ result' = ItemOf(Frame(Taken + 1)).kind /\ UNCHANGED <<out, link>>
      BY <1>8, TakesNext
    <2>2. Taken + 1 \in 1 .. Whole
      BY <2>1, NextFrame
    <2>3. SentItems[Taken + 1] = ItemOf(Frame(Taken + 1)) /\ Taken < Whole
      BY <1>2, <1>3, <2>2
    <2>4. ItemOf(Frame(Taken + 1)).kind # "tooLarge"
      BY <2>1 DEF Outcomes
    <2>5. Channel!NextItem = ItemOf(Frame(Taken + 1))
      BY <1>3, <2>3 DEF Channel!NextItem, SentItems
    <2>6. Channel!Deliver
      BY <1>2, <1>3, <1>4, <2>1, <2>3, <2>4, <2>5 DEF Channel!Deliver, SentItems
    <2> QED BY <2>6 DEF Channel!Next
  <1>9. CASE ReturnTooLarge
    <2>1. TooLarge /\ result' = "tooLarge" /\ UNCHANGED <<out, link, got>>
      BY <1>9 DEF ReturnTooLarge, Return, sender
    <2>2. Taken + 1 \in 1 .. Len(ends) /\ Announced(Frame(Taken + 1)) > MaxMessage
      BY <2>1, Front DEF TooLarge
    <2>3. Channel!NextItem.kind = "tooLarge" /\ Taken < Len(ends)
      <3>1. SentItems[Taken + 1] = TooLargeItem
        BY <1>2, <2>2 DEF ItemOf
      <3>2. Channel!NextItem = TooLargeItem
        BY <1>3, <3>1 DEF Channel!NextItem, SentItems
      <3> QED BY <1>3, <2>2, <3>2 DEF TooLargeItem
    <2>4. Channel!Refuse
      BY <1>2, <1>3, <1>4, <2>1, <2>3 DEF Channel!Refuse, SentItems
    <2> QED BY <2>4 DEF Channel!Next
  <1>10. CASE ReadEof
    <2>1. /\ recv = "read" /\ link = "closed" /\ socket = <<>>
          /\ result' = IF buf = <<>> THEN "eof" ELSE "incomplete"
          /\ UNCHANGED <<out, link, got>>
      BY <1>10 DEF ReadEof, Return, sender
    <2>2. Taken = Whole /\ (buf # <<>> => out # <<>>)
      BY <2>1, AtTheEnd
    <2>3. out # <<>> => Whole < Len(ends)
      BY <1>3 DEF Whole
    <2>4. Channel!EndOfStream
      BY <1>2, <1>3, <1>4, <2>1, <2>2, <2>3 DEF Channel!EndOfStream, SentItems
    <2> QED BY <2>4 DEF Channel!Next
  <1>11. CASE ReadFails \/ Cancel
    <2>1. result' = "cancelled" \/ (link = "reset" /\ result' = "failed")
      BY <1>11 DEF ReadFails, Cancel, Return
    <2>2. UNCHANGED <<out, link, got>>
      BY <1>11 DEF ReadFails, Cancel, sender
    <2>3. Channel!NoAnswer
      BY <1>2, <1>4, <2>1, <2>2 DEF Channel!NoAnswer, SentItems
    <2> QED BY <2>3 DEF Channel!Next
  <1> QED BY <1>5, <1>6, <1>7, <1>8, <1>9, <1>10, <1>11 DEF SenderStep, ReceiverStep, Finish

(* Bytes, chunks, headers and dropped calls together implement the channel *)
(* of messages: a program on top of gclaw-ipc need not know of them.       *)
THEOREM Implements == Spec => ImplementsChannel
  <1>1. Init => Channel!Init
    <2> SUFFICES ASSUME Init PROVE Channel!Init
      OBVIOUS
    <2>1. ends = <<>> /\ DOMAIN ends = {} /\ Len(ends) = 0 /\ out = <<>>
      BY DEF Init
    <2>2. [n \in DOMAIN ends |-> ItemOf(Frame(n))] = <<>>
      BY <2>1
    <2> QED BY <2>1, <2>2 DEF Init, Channel!Init, Whole
  <1>2. Inv /\ Inv' /\ [Next]_vars => [Channel!Next]_(Channel!vars)
    <2> SUFFICES ASSUME Inv, Inv', [Next]_vars PROVE [Channel!Next]_(Channel!vars)
      OBVIOUS
    <2>1. CASE Send \/ ForeignSend
      <3>1. PICK f \in Frames : Begin(f)
        BY <2>1, Sends
      <3> QED BY <3>1, BeginIsStart DEF Channel!Next
    <2>2. CASE ~ (Send \/ ForeignSend) /\ Next
      BY <2>2, OthersInChannel DEF Next
    <2>3. CASE UNCHANGED vars
      BY <2>3 DEF vars, written, Channel!vars, ItemOf, Frame, End, Whole
    <2> QED BY <2>1, <2>2, <2>3 DEF Next
  <1> QED BY <1>1, <1>2, Invariant, PTL DEF Spec, ImplementsChannel, Channel!Spec
=============================================================================
