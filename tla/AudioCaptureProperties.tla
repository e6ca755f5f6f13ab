----------------------- MODULE AudioCaptureProperties -----------------------
(***************************************************************************)
(* What the polling loop may rely on in the samples it is given.           *)
(***************************************************************************)
EXTENDS AudioCapture

(* The ring as write() keeps it, a block in the making included. *)
RingOK ==
    /\ buffer \in [0 .. Capacity - 1 -> Nat]
    /\ writePos \in 0 .. Capacity - 1
    /\ total \in Nat /\ block \in Nat /\ left \in 0 .. block

-----------------------------------------------------------------------------
(* The n newest samples of the stream, oldest first. *)
Newest(n) == [i \in 1 .. n |-> total - n + i]

(* capture.rs: "Read the most recent `count` samples. Returns fewer if     *)
(* buffer hasn't filled yet."  Whenever the callback is not inside the     *)
(* mutex, any window is the end of the stream, in order, whole, without    *)
(* the silence of a ring not yet filled, wherever the ring wraps.          *)
WindowIsNewest ==
    LockFree =>
        \A count \in 0 .. Capacity :
            ReadLast(count) = Newest(IF count < Available THEN count ELSE Available)

(* Consecutive samples of the stream. *)
Unbroken(a) == \A i \in 1 .. Len(a) - 1 : a[i + 1] = a[i] + 1

(* The position given to process_frame is read after the frame and under   *)
(* another hold of the lock: it is never before the end of that frame, nor *)
(* is the start of an utterance before the end of its first frame.         *)
PositionCoversFrame ==
    /\ pc = "process" => Unbroken(frame) /\ frame[FrameLen] <= total
    /\ vad = "InSpeech" => acc[FrameLen] <= start /\ start <= total

(* Audio is handed on frame by frame, each frame unbroken, and time never  *)
(* runs backwards from one frame to the next, however the turns of the     *)
(* loop and the blocks of the device interleave.                           *)
InOrder(a) ==
    \A i \in 1 .. Len(a) - 1 :
        IF i % FrameLen = 0
        THEN a[i + 1] + FrameLen > a[i]
        ELSE a[i + 1] = a[i] + 1

AudioInOrder == InOrder(acc) /\ InOrder(segment.audio)

=============================================================================
