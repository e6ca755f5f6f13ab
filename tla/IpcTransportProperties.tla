----------------------- MODULE IpcTransportProperties -----------------------
(***************************************************************************)
(* The byte stream as a channel of messages.                               *)
(***************************************************************************)
EXTENDS IpcTransport

-----------------------------------------------------------------------------
(* The n-th frame of the stream, and the number of those taken from it.    *)
End(n) == IF n = 0 THEN 0 ELSE ends[n]
Frame(n) == SubSeq(stream, End(n - 1) + 1, End(n))
Taken == Len(got)

(* Frames that are wholly in the socket or beyond. *)
Whole == IF out = <<>> THEN Len(ends) ELSE Len(ends) - 1

(* What a frame is to recv(). *)
TooLargeItem == [kind |-> "tooLarge", payload |-> <<>>]

ItemOf(frame) ==
    IF Announced(frame) > MaxMessage THEN TooLargeItem
    ELSE LET p == SubSeq(frame, HeaderBytes + 1, Len(frame))
         IN  IF p \in Valid THEN Message(p) ELSE Garbled

Frames == {Encode(p) : p \in {q \in Payloads : Accepts(q)}} \cup Foreign

-----------------------------------------------------------------------------
(* Every byte that was written and not decoded is in the read buffer or in *)
(* the socket, in order and once, whatever the chunks it is read in and    *)
(* however many calls of recv() were dropped half way, unless the sender   *)
(* went away inside a frame.                                               *)
NothingLost ==
    link = "up" \/ (link = "closed" /\ out = <<>>) =>
        buf \o socket \o out = SubSeq(stream, End(Taken) + 1, Len(stream))

(* recv() comes to what was sent, frame by frame, in order, none skipped   *)
(* and none twice: a chunk boundary, a dropped call, a payload that does   *)
(* not deserialize or a lost connection never shifts what follows.         *)
ReceivedInOrder ==
    /\ Taken <= Whole
    /\ \A n \in 1 .. Taken : got[n] = ItemOf(Frame(n))

(* transport.rs: "Returns `None` on clean EOF".  None is returned only     *)
(* after every whole frame, and the error of a partial message only when   *)
(* the peer went away inside a frame.                                      *)
EofIsTruthful ==
    /\ result = "eof" => Taken = Whole
    /\ result = "incomplete" => Taken = Whole /\ out # <<>>

(* The bytes implement the channel of messages, each frame an item.        *)
Channel ==
    INSTANCE MessageChannel WITH
        Items <- {ItemOf(f) : f \in Frames},
        sent <- [n \in DOMAIN ends |-> ItemOf(Frame(n))],
        whole <- Whole,
        gone <- link # "up"

(* Codec and IpcTransport together are a channel of messages: every step   *)
(* they take is a step of MessageChannel or does not show in it.           *)
ImplementsChannel == Channel!Spec

-----------------------------------------------------------------------------
(* A frame the sender has written is taken by a receiver that keeps        *)
(* calling, even if most of its calls are dropped, unless the stream was   *)
(* reset or holds a length nobody accepts.                                 *)
WholeIsTaken ==
    \A n \in 1 .. MaxFrames :
        Whole >= n ~> (Taken >= n \/ result = "tooLarge" \/ link = "reset")
=============================================================================
