---------------------------- MODULE IpcTransport ----------------------------
(***************************************************************************)
(* One direction of a gclaw-ipc connection, byte by byte: Codec::encode    *)
(* and IpcTransport::send at one end, the socket between, and              *)
(* IpcTransport::recv with Codec::decode and its read buffer at the other, *)
(* where a select! may drop a recv that waits for bytes.                   *)
(*                                                                         *)
(* A byte is a digit below Base, a message its serialized payload; the     *)
(* serializer is external and known by the payloads it can read.           *)
(***************************************************************************)
EXTENDS Naturals, Sequences

CONSTANTS
    Base,         \* values of a byte, 256 in the code
    MaxMessage,   \* MAX_MESSAGE_SIZE, 16 MiB
    ReadBufSize,  \* READ_BUF_SIZE, 8192
    SocketBuf,    \* bytes the socket holds
    Payloads,     \* payloads given to send()
    Valid,        \* those of any origin that deserialize to a Message
    Foreign,      \* frames of a peer that frames its messages by itself
    MaxFrames     \* bound: frames sent in a run

ASSUME TransportAssumption ==
    /\ Base \in Nat \ {0, 1}
    /\ MaxMessage \in Nat
    /\ ReadBufSize \in Nat \ {0} /\ SocketBuf \in Nat \ {0}
    /\ MaxFrames \in Nat

VARIABLES
    stream,  \* every byte of the frames the sender started to write
    ends,    \* where each of these frames ends in the stream
    out,     \* bytes of the last one not yet in the socket
    socket,  \* bytes in the socket
    link,    \* "up", "closed" by the sender, or "reset"
    recv,    \* where recv() stands: "none", "decode", "read"
    buf,     \* read_buf
    got,     \* what each frame that decode() consumed was to recv()
    result   \* what the last call of recv() came to

vars == <<stream, ends, out, socket, link, recv, buf, got, result>>
written == <<stream, ends>>
sender == <<written, out, link>>

Init ==
    /\ stream = <<>> /\ ends = <<>> /\ out = <<>>
    /\ socket = <<>>
    /\ link = "up"
    /\ recv = "none"
    /\ buf = <<>> /\ got = <<>>
    /\ result = "none"

-----------------------------------------------------------------------------
(* Codec. *)

Byte == 0 .. Base - 1
HeaderBytes == 4
LenModulus == Base * Base * Base * Base

(* put_u32, big endian. *)
Header(n) ==
    LET hi == n \div Base
        mid == hi \div Base
        top == mid \div Base
    IN  <<top % Base, mid % Base, hi % Base, n % Base>>

LengthOf(p) == Len(p) % LenModulus  \* payload.len() as u32

Accepts(p) == LengthOf(p) <= MaxMessage

Encode(p) == Header(LengthOf(p)) \o p

(* u32::from_be_bytes, of the first bytes of b. *)
FromBytes(i, j, k, l) == ((i * Base + j) * Base + k) * Base + l
Announced(b) == FromBytes(b[1], b[2], b[3], b[4])

(* The payloads are bytes and shorter than 4 GiB, and a peer that frames   *)
(* by itself follows the wire format, except that it may announce more     *)
(* than anybody accepts.                                                   *)
ASSUME FramesAssumption ==
    /\ \A p \in Payloads : p \in Seq(Byte) /\ Len(p) < LenModulus
    /\ \A f \in Foreign :
         /\ f \in Seq(Byte) /\ Len(f) >= HeaderBytes
         /\ Announced(f) <= MaxMessage => Len(f) = HeaderBytes + Announced(f)

HasHeader == Len(buf) >= HeaderBytes
TooLarge == HasHeader /\ Announced(buf) > MaxMessage
HasFrame == HasHeader /\ ~TooLarge /\ Len(buf) >= HeaderBytes + Announced(buf)

(* The payload of the frame b starts with, which decode() splits off, and *)
(* what stays in the buffer.                                               *)
PayloadOf(b) == SubSeq(b, HeaderBytes + 1, HeaderBytes + Announced(b))
RestOf(b) == SubSeq(b, HeaderBytes + Announced(b) + 1, Len(b))

Message(p) == [kind |-> "message", payload |-> p]
Garbled == [kind |-> "garbled", payload |-> <<>>]

-----------------------------------------------------------------------------
(* The sender. *)

Begin(frame) ==
    /\ link = "up" /\ out = <<>> /\ Len(ends) < MaxFrames
    /\ stream' = stream \o frame
    /\ ends' = Append(ends, Len(stream) + Len(frame))
    /\ out' = frame
    /\ UNCHANGED <<socket, link, recv, buf, got, result>>

(* A payload that is not accepted is an error before a byte is written. *)
Send == \E p \in Payloads : Accepts(p) /\ Begin(Encode(p))

ForeignSend == \E frame \in Foreign : Begin(frame)

(* write_all: as much as fits, any number of times. *)
Write ==
    /\ link = "up" /\ out # <<>>
    /\ \E k \in 1 .. Len(out) :
         /\ Len(socket) + k <= SocketBuf
         /\ socket' = socket \o SubSeq(out, 1, k)
         /\ out' = SubSeq(out, k + 1, Len(out))
    /\ UNCHANGED <<written, link, recv, buf, got, result>>

(* The sender drops its transport, or dies, inside a frame or not. *)
Close ==
    /\ link = "up"
    /\ link' = "closed"
    /\ UNCHANGED <<written, out, socket, recv, buf, got, result>>

(* The connection is reset; what the socket held is lost. *)
Abort ==
    /\ link = "up"
    /\ link' = "reset"
    /\ socket' = <<>>
    /\ UNCHANGED <<written, out, recv, buf, got, result>>

SenderStep == Send \/ ForeignSend \/ Write \/ Close \/ Abort

-----------------------------------------------------------------------------
(* recv(): decode what is buffered, else read and try again. *)

Call ==
    /\ recv = "none"
    /\ recv' = "decode"
    /\ UNCHANGED <<sender, socket, buf, got, result>>

Return(r) == recv' = "none" /\ result' = r

NeedMore ==
    /\ recv = "decode" /\ ~TooLarge /\ ~HasFrame
    /\ recv' = "read"
    /\ UNCHANGED <<sender, socket, buf, got, result>>

Consume(r) ==
    /\ buf' = RestOf(buf)
    /\ got' = Append(got, r)
    /\ Return(r.kind)
    /\ UNCHANGED <<sender, socket>>

ReturnMessage ==
    /\ recv = "decode" /\ HasFrame
    /\ PayloadOf(buf) \in Valid
    /\ Consume(Message(PayloadOf(buf)))

(* The bytes are gone from the buffer when deserialization fails. *)
ReturnGarbled ==
    /\ recv = "decode" /\ HasFrame
    /\ PayloadOf(buf) \notin Valid
    /\ Consume(Garbled)

SkipTooLarge ==  \* faulty: the header is consumed, the payload is not
    /\ recv = "decode" /\ TooLarge
    /\ buf' = SubSeq(buf, HeaderBytes + 1, Len(buf))
    /\ Return("tooLarge")
    /\ UNCHANGED <<sender, socket, got>>

(* The header stays where it is: every later recv() fails as well. *)
ReturnTooLarge ==
    /\ recv = "decode" /\ TooLarge
    /\ Return("tooLarge")
    /\ UNCHANGED <<sender, socket, buf, got>>

ReadOverwrites ==  \* faulty: the part of a frame already read is dropped
    /\ recv = "read" /\ link # "reset"
    /\ \E k \in 1 .. Len(socket) :
         /\ k <= ReadBufSize
         /\ buf' = SubSeq(socket, 1, k)
         /\ socket' = SubSeq(socket, k + 1, Len(socket))
    /\ recv' = "decode"
    /\ UNCHANGED <<sender, got, result>>

Read ==
    /\ recv = "read" /\ link # "reset"
    /\ \E k \in 1 .. Len(socket) :
         /\ k <= ReadBufSize
         /\ buf' = buf \o SubSeq(socket, 1, k)
         /\ socket' = SubSeq(socket, k + 1, Len(socket))
    /\ recv' = "decode"
    /\ UNCHANGED <<sender, got, result>>

EofBeforeLastBytes ==  \* faulty: what the socket still holds is ignored
    /\ recv = "read" /\ link = "closed"
    /\ Return(IF buf = <<>> THEN "eof" ELSE "incomplete")
    /\ buf' = <<>>
    /\ UNCHANGED <<sender, socket, got>>

ReadEof ==
    /\ recv = "read" /\ link = "closed" /\ socket = <<>>
    /\ Return(IF buf = <<>> THEN "eof" ELSE "incomplete")
    /\ buf' = <<>>
    /\ UNCHANGED <<sender, socket, got>>

ReadFails ==
    /\ recv = "read" /\ link = "reset"
    /\ Return("failed")
    /\ UNCHANGED <<sender, socket, buf, got>>

(* Another branch of the select! is ready: the future is dropped where it  *)
(* waits.                                                                  *)
CancelTakesBuffer ==  \* faulty: the bytes read so far belong to the future
    /\ recv = "read"
    /\ Return("cancelled")
    /\ buf' = <<>>
    /\ UNCHANGED <<sender, socket, got>>

Cancel ==
    /\ recv = "read"
    /\ Return("cancelled")
    /\ UNCHANGED <<sender, socket, buf, got>>

Finish ==
    \/ NeedMore \/ ReturnMessage \/ ReturnGarbled \/ ReturnTooLarge
    \/ ReadEof \/ ReadFails

ReceiverStep == Call \/ Finish \/ Read \/ Cancel

Next == SenderStep \/ ReceiverStep

Spec == Init /\ [][Next]_vars

(* run() calls recv() again and again, and a socket that holds bytes wins  *)
(* against a timer armed in the same turn.                                 *)
Fairness == WF_vars(Call) /\ WF_vars(Finish) /\ SF_vars(Read)

FairSpec == Spec /\ Fairness
=============================================================================
