----------------------------- MODULE SileroVad ------------------------------
(***************************************************************************)
(* SileroVad (vad/silero.rs): the detector that cuts the stream of 512     *)
(* sample frames into utterances, with the buffer its caller lends it.     *)
(* A frame is its number in the stream and the verdict of the network on   *)
(* it; the network itself, with its LSTM tensors, is external.             *)
(***************************************************************************)
EXTENDS VoiceTypes, Naturals, Sequences

CONSTANTS
    MinSpeech,   \* MIN_SPEECH_FRAMES, 5 in the code
    MaxSilence,  \* MAX_SILENCE_FRAMES, 15
    MaxSpeech,   \* MAX_SPEECH_FRAMES, 1875
    MaxFrames    \* bound: the frames fed in a run

ASSUME VadAssumption ==
    /\ MinSpeech \in Nat \ {0} /\ MaxSilence \in Nat \ {0}
    /\ MaxSpeech \in Nat \ {0} /\ MaxFrames \in Nat

VARIABLES
    vad,       \* VadInternalState without the counters
    speech,    \* InSpeech::speech_frames
    silence,   \* InSpeech::silence_frames
    start,     \* InSpeech::start_sample, as a frame number
    acc,       \* accumulated_audio, owned by run()
    position,  \* frames fed so far
    decision,  \* the last VadDecision, "None" after a reset
    segment    \* the segment of the last SpeechEnd

vars == <<vad, speech, silence, start, acc, position, decision, segment>>

Frame(n, v) == [at |-> n, speech |-> v]
NoSegment == [audio |-> <<>>, start |-> 0]

Init ==
    /\ vad = "WaitingForSpeech"
    /\ speech = 0 /\ silence = 0 /\ start = 0
    /\ acc = <<>>
    /\ position = 0
    /\ decision = "None"
    /\ segment = NoSegment

(* process_frame on the next frame ends in decision d. *)
Infer(d) ==
    /\ position < MaxFrames
    /\ position' = position + 1
    /\ decision' = d

Waiting ==
    /\ vad' = "WaitingForSpeech"
    /\ speech' = 0 /\ silence' = 0 /\ start' = 0

StillSilent ==
    /\ vad = "WaitingForSpeech"
    /\ Infer("Silence")
    /\ UNCHANGED <<vad, speech, silence, start, acc, segment>>

AppendToStale ==  \* faulty: accumulated_audio is not cleared
    acc' = Append(acc, Frame(position + 1, TRUE))

StartFresh == acc' = <<Frame(position + 1, TRUE)>>

SpeechStarts ==
    /\ vad = "WaitingForSpeech"
    /\ Infer("SpeechStart")
    /\ vad' = "InSpeech"
    /\ speech' = 1 /\ silence' = 0 /\ start' = position + 1
    /\ StartFresh
    /\ UNCHANGED segment

SpeechGoesOn ==
    /\ vad = "InSpeech"
    /\ Infer("SpeechContinue")
    /\ speech' = speech + 1 /\ silence' = 0
    /\ acc' = Append(acc, Frame(position + 1, TRUE))
    /\ UNCHANGED <<vad, start, segment>>

(* The silent frame at hand ends the utterance. *)
ClosesLate ==  \* faulty: off by one
    \/ silence >= MaxSilence
    \/ speech + silence + 1 >= MaxSpeech

Closes ==
    \/ silence + 1 >= MaxSilence
    \/ speech + silence + 1 >= MaxSpeech

PauseGoesOn ==
    /\ vad = "InSpeech" /\ ~Closes
    /\ Infer("SpeechContinue")
    /\ silence' = silence + 1
    /\ acc' = Append(acc, Frame(position + 1, FALSE))
    /\ UNCHANGED <<vad, speech, start, segment>>

LongEnough == speech >= MinSpeech

SpeechEnds ==
    /\ vad = "InSpeech" /\ Closes /\ LongEnough
    /\ Infer("SpeechEnd")
    /\ segment' = [audio |-> Append(acc, Frame(position + 1, FALSE)), start |-> start]
    /\ acc' = <<>>
    /\ Waiting

DiscardKeepsState ==  \* faulty: still in the utterance it threw away
    /\ vad = "InSpeech" /\ Closes /\ ~LongEnough
    /\ Infer("Silence")
    /\ acc' = <<>>
    /\ UNCHANGED <<vad, speech, silence, start, segment>>

(* Too short: dropped, without a reset() of the network. *)
Discard ==
    /\ vad = "InSpeech" /\ Closes /\ ~LongEnough
    /\ Infer("Silence")
    /\ acc' = <<>>
    /\ Waiting
    /\ UNCHANGED segment

(* reset(), from the auto-sleep of run(); the buffer is not the detector's *)
(* to clear.                                                               *)
Reset ==
    /\ Waiting
    /\ decision' = "None"
    /\ UNCHANGED <<acc, position, segment>>

ProcessFrame ==
    \/ StillSilent \/ SpeechStarts
    \/ SpeechGoesOn \/ PauseGoesOn \/ SpeechEnds \/ Discard

Next == ProcessFrame \/ Reset

Spec == Init /\ [][Next]_vars
=============================================================================
