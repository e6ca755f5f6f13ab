----------------------------- MODULE VoiceTypes -----------------------------
(***************************************************************************)
(* The vocabulary the components of gclaw-voice share: microphone states   *)
(* and session modes, the messages that cross the IPC socket, the moves    *)
(* the voice activity detector can make on one frame, and the choice of a  *)
(* text-to-speech engine.  Texts and confidences are not kept; a language  *)
(* is, because it decides the engine and travels in UserSpeech.            *)
(***************************************************************************)

CONSTANTS
    Languages,        \* the language tags in use
    English,          \* the tags select_engine treats as English
    DefaultLanguage,  \* the tag VoiceState::new starts from ("en")
    NoLanguage,       \* Configure's `language: None`
    Engines           \* the engines whose initialisation succeeded

ASSUME LanguagesAssumption ==
    /\ English \subseteq Languages
    /\ DefaultLanguage \in English
    /\ NoLanguage \notin Languages

ASSUME EnginesAssumption == Engines \subseteq {"piper", "espeak"}

MicStates == {"Idle", "Listening", "Processing", "Speaking"}

SessionModes == {"Idle", "Active"}

-----------------------------------------------------------------------------
(* What the shell sends to the brain. *)

Ready            == [type |-> "Ready"]
WakeWordDetected == [type |-> "WakeWordDetected"]
BargeIn          == [type |-> "BargeIn"]
Pong             == [type |-> "Pong"]
UserSpeech(l)    == [type |-> "UserSpeech", language |-> l]

ShellMessages ==
    {Ready, WakeWordDetected, BargeIn, Pong} \cup {UserSpeech(l) : l \in Languages}

(* What the brain sends to the shell.  "Other" stands for every variant    *)
(* run() has no arm for (Pong, VoiceCommand, ToolExecute, ...), "Garbled"  *)
(* for a frame whose payload does not deserialize to a Message.            *)
Plain(t)       == [type |-> t]
SetMicState(s) == [type |-> "SetMicState", state |-> s]
Configure(l)   == [type |-> "Configure", language |-> l]

BrainCommands ==
    {Plain(t) : t \in {"Speak", "SpeakInterruptible", "StopSpeaking",
                       "Shutdown", "Ping", "Other", "Garbled"}}
        \cup {SetMicState(s) : s \in MicStates}
        \cup {Configure(l) : l \in Languages \cup {NoLanguage}}

-----------------------------------------------------------------------------
(* SileroVad::process_frame as its callers see it: the state before, the   *)
(* decision returned and the state after.  A Silence that leaves InSpeech  *)
(* is the discard of an utterance shorter than MIN_SPEECH_FRAMES.          *)

VadStates    == {"WaitingForSpeech", "InSpeech"}
VadDecisions == {"Silence", "SpeechStart", "SpeechContinue", "SpeechEnd"}

VadMove(s, d, t) == [from |-> s, decision |-> d, to |-> t]

VadMoves ==
    {VadMove("WaitingForSpeech", "Silence", "WaitingForSpeech"),
     VadMove("WaitingForSpeech", "SpeechStart", "InSpeech"),
     VadMove("InSpeech", "SpeechContinue", "InSpeech"),
     VadMove("InSpeech", "SpeechEnd", "WaitingForSpeech"),
     VadMove("InSpeech", "Silence", "WaitingForSpeech")}

-----------------------------------------------------------------------------
(* tts::select_engine: English prefers piper, any other language espeak,   *)
(* and each falls back to the other engine when it is the only one there.  *)

FirstAvailable(e, f) ==
    IF e \in Engines THEN e ELSE IF f \in Engines THEN f ELSE "none"

SelectEngine(l) ==
    IF l \in English THEN FirstAvailable("piper", "espeak")
                     ELSE FirstAvailable("espeak", "piper")
=============================================================================
