---------------------------- MODULE AudioCapture ----------------------------
(***************************************************************************)
(* The microphone side of run(): the ring buffer of audio/capture.rs, the  *)
(* device callback that fills it under its mutex, and the polling of       *)
(* shell.rs that takes its newest samples for a frame, asks for the        *)
(* position and feeds both to the detector.                                *)
(*                                                                         *)
(* A sample is its number in the stream, from 1; 0 is the silence a new    *)
(* buffer is filled with.  The detector is reduced to the moves of         *)
(* VadMoves, which SileroVad is checked to make.                           *)
(***************************************************************************)
EXTENDS VoiceTypes, Naturals, Sequences

CONSTANTS
    Capacity,    \* samples in the ring, 480000 in the code
    FrameLen,    \* VAD_FRAME_SAMPLES, 512
    Blocks,      \* lengths of the blocks the device delivers
    MaxSamples,  \* bound: samples the device delivers in a run
    MaxAudio     \* bound: samples in one utterance

ASSUME CaptureAssumption ==
    /\ Capacity \in Nat \ {0}
    /\ FrameLen \in 1 .. Capacity
    /\ Blocks \subseteq Nat \ {0}
    /\ MaxSamples \in Nat /\ MaxAudio \in Nat

VARIABLES
    buffer,     \* AudioRingBuffer::buffer
    writePos,   \* AudioRingBuffer::write_pos
    total,      \* AudioRingBuffer::total_written
    block,      \* length of the block being written, 0 when the lock is free
    left,       \* samples of it still to write
    pc,         \* the polling loop: "poll" or "process"
    frame,      \* frame_buf
    vad,        \* SileroVad's state
    start,      \* its start_sample
    acc,        \* accumulated_audio
    segment     \* what a SpeechEnd of this turn handed over

ring == <<buffer, writePos, total, block, left>>
detector == <<vad, start, acc, segment>>
vars == <<ring, pc, frame, detector>>

NoSegment == [audio |-> <<>>, start |-> 0]

Init ==
    /\ buffer = [i \in 0 .. Capacity - 1 |-> 0]
    /\ writePos = 0 /\ total = 0
    /\ block = 0 /\ left = 0
    /\ pc = "poll"
    /\ frame = <<>>
    /\ vad = "WaitingForSpeech"
    /\ start = 0
    /\ acc = <<>>
    /\ segment = NoSegment

-----------------------------------------------------------------------------
(* AudioRingBuffer. *)

LockFree == block = 0

(* Samples in the ring or written over since the stream started. *)
Written == total + block - left

Available == IF total < Capacity THEN total ELSE Capacity

StartOneLate(n) ==  \* faulty: off by one where the window wraps
    IF writePos >= n THEN writePos - n ELSE Capacity - (n - writePos) + 1

StartOf(n) ==
    IF writePos >= n THEN writePos - n ELSE Capacity - (n - writePos)

ReadLast(count) ==
    LET n == IF count < Available THEN count ELSE Available
    IN  [i \in 1 .. n |-> buffer[(StartOf(n) + i - 1) % Capacity]]

(* The callback of the input stream: one block, sample by sample, with the *)
(* mutex held and the total added at the end.                              *)
BeginBlock ==
    /\ LockFree
    /\ \E n \in Blocks :
         /\ total + n <= MaxSamples
         /\ block' = n /\ left' = n
    /\ UNCHANGED <<buffer, writePos, total, pc, frame, detector>>

WriteSample ==
    /\ left > 0
    /\ buffer' = [buffer EXCEPT ![writePos] = Written + 1]
    /\ writePos' = (writePos + 1) % Capacity
    /\ left' = left - 1
    /\ UNCHANGED <<total, block, pc, frame, detector>>

EndBlock ==
    /\ block > 0 /\ left = 0
    /\ total' = total + block
    /\ block' = 0
    /\ UNCHANGED <<buffer, writePos, left, pc, frame, detector>>

Callback == BeginBlock \/ WriteSample \/ EndBlock

-----------------------------------------------------------------------------
(* One turn of the loop: read_last_samples, then total_samples and         *)
(* process_frame; each takes the lock anew and the callback may run in     *)
(* between.  The sleep between turns takes as long as it takes.            *)

ReadUnlocked ==  \* faulty: the ring is read while the callback writes
    /\ pc = "poll"
    /\ Len(ReadLast(FrameLen)) = FrameLen
    /\ frame' = ReadLast(FrameLen)
    /\ pc' = "process"
    /\ segment' = NoSegment
    /\ UNCHANGED <<ring, vad, start, acc>>

(* With too few samples it sleeps and polls again. *)
ReadFrame ==
    /\ pc = "poll" /\ LockFree
    /\ Len(ReadLast(FrameLen)) = FrameLen
    /\ frame' = ReadLast(FrameLen)
    /\ pc' = "process"
    /\ segment' = NoSegment
    /\ UNCHANGED <<ring, vad, start, acc>>

(* process_frame(frame_buf, accumulated_audio, total_samples()).           *)
Process(m) ==
    /\ pc = "process" /\ LockFree
    /\ pc' = "poll"
    /\ m.from = vad
    /\ vad' = m.to
    /\ UNCHANGED <<ring, frame>>

FrameIgnored ==
    /\ \E m \in VadMoves : m.decision = "Silence" /\ Process(m)
    /\ acc' = IF vad = "InSpeech" THEN <<>> ELSE acc
    /\ start' = IF vad = "InSpeech" THEN 0 ELSE start
    /\ UNCHANGED segment

FrameStarts ==
    /\ \E m \in VadMoves : m.decision = "SpeechStart" /\ Process(m)
    /\ acc' = frame
    /\ start' = total
    /\ UNCHANGED segment

FramePrepended ==  \* faulty: newest audio first
    /\ \E m \in VadMoves : m.decision = "SpeechContinue" /\ Process(m)
    /\ Len(acc) + FrameLen <= MaxAudio
    /\ acc' = frame \o acc
    /\ UNCHANGED <<start, segment>>

FrameContinues ==
    /\ \E m \in VadMoves : m.decision = "SpeechContinue" /\ Process(m)
    /\ Len(acc) + FrameLen <= MaxAudio
    /\ acc' = acc \o frame
    /\ UNCHANGED <<start, segment>>

FrameEnds ==
    /\ \E m \in VadMoves : m.decision = "SpeechEnd" /\ Process(m)
    /\ segment' = [audio |-> acc \o frame, start |-> start]
    /\ acc' = <<>>
    /\ start' = 0

(* vad.reset() when the session falls asleep, between two turns. *)
Reset ==
    /\ pc = "poll"
    /\ vad' = "WaitingForSpeech"
    /\ start' = 0
    /\ UNCHANGED <<ring, pc, frame, acc, segment>>

Poll ==
    \/ ReadFrame
    \/ FrameIgnored \/ FrameStarts \/ FrameContinues \/ FrameEnds
    \/ Reset

Next == Callback \/ Poll

Spec == Init /\ [][Next]_vars
=============================================================================
