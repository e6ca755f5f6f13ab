------------------------ MODULE SileroVadProperties -------------------------
(***************************************************************************)
(* What the shell and the transcriber rely on in the utterances they get.  *)
(***************************************************************************)
EXTENDS SileroVad, FiniteSets

-----------------------------------------------------------------------------
(* The audio a runs from frame n to the frame fed last, each frame once    *)
(* and in order, and n was speech.                                         *)
RunsFrom(n, a) ==
    /\ n + Len(a) = position + 1
    /\ Len(a) > 0
    /\ \A i \in 1 .. Len(a) : a[i].at = n + i - 1
    /\ a[1].speech

(* vad/mod.rs, silero.rs: "when SpeechEnd is returned, the full speech     *)
(* segment is included".  Every frame since speech started, none twice,    *)
(* and nothing left in the caller's buffer by an utterance that was        *)
(* discarded or that a reset cut off.                                      *)
SegmentWhole ==
    decision = "SpeechEnd" => RunsFrom(segment.start, segment.audio)

(* Trailing silence, in frames, of the first n frames of a. *)
SilenceAt(a, n) ==
    CHOOSE k \in 0 .. n :
        /\ \A i \in n - k + 1 .. n : ~a[i].speech
        /\ k < n => a[n - k].speech

SpeechIn(a, n) == Cardinality({i \in 1 .. n : a[i].speech})

(* What makes a prefix of an utterance its end. *)
EndsAt(a, n) ==
    /\ ~a[n].speech
    /\ \/ SilenceAt(a, n) >= MaxSilence
       \/ SpeechIn(a, n) + SilenceAt(a, n) >= MaxSpeech

(* A segment holds enough speech, ends where the pause (or the cap met in  *)
(* a pause) ends it and nowhere before: two utterances are never glued     *)
(* together and none is cut in the middle of a short pause.                *)
SegmentIsOneUtterance ==
    decision = "SpeechEnd" =>
        LET a == segment.audio
        IN  /\ SpeechIn(a, Len(a)) >= MinSpeech
            /\ \A n \in 1 .. Len(a) : EndsAt(a, n) <=> n = Len(a)

(* The voice shell takes the detector for a machine with the five moves of *)
(* VadMoves: what each frame does is one of them.                          *)
MovesAsPromised ==
    [][position' # position => VadMove(vad, decision', vad') \in VadMoves]_vars
=============================================================================
