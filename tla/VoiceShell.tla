----------------------------- MODULE VoiceShell -----------------------------
(***************************************************************************)
(* VoiceShell::run of gclaw-voice (shell.rs): the task that owns the       *)
(* microphone, the speaker and the socket to the brain, with the           *)
(* VoiceState it shares through VoiceShell::state().                       *)
(*                                                                         *)
(* One action per handler, split where run() waits (select!, a full socket *)
(* buffer, a transcription, a playback): `pc' says where it stands.        *)
(* The environment is the brain at the other end of the TCP connection,    *)
(* the clock behind Instant, and a holder of the shared VoiceState.        *)
(***************************************************************************)
EXTENDS VoiceTypes, Naturals, Sequences

CONSTANTS
    AutoSleepSecs,  \* VoiceState::auto_sleep_secs, 90 in the code
    Commands,       \* the commands the brain may send
    InCap,          \* bound on commands in flight, in messages
    OutCap          \* socket buffer towards the brain, in messages

ASSUME ShellAssumption ==
    /\ AutoSleepSecs \in Nat
    /\ Commands \subseteq BrainCommands
    /\ InCap \in Nat \ {0} /\ OutCap \in Nat \ {0}

VARIABLES
    pc,         \* where run() stands
    mode,       \* VoiceState::session_mode
    mic,        \* VoiceState::mic_state
    speaking,   \* VoiceState::is_speaking
    idle,       \* VoiceState::idle_seconds(), up to AutoSleepSecs + 1
    lang,       \* VoiceState::detected_language
    shutdown,   \* VoiceState::shutdown_requested
    vad,        \* SileroVad's state
    stopFlag,   \* BargeInController::stop_flag
    toShell,    \* commands sent and not yet returned by recv()
    toBrain,    \* messages sent and not yet read by the brain
    brain       \* "up" until the brain closes its end, then "gone"

vars == <<pc, mode, mic, speaking, idle, lang, shutdown, vad, stopFlag,
          toShell, toBrain, brain>>

state == <<mode, mic, speaking, idle, lang, shutdown>>
sockets == <<toShell, toBrain, brain>>

(* Inside the Speak and SpeakInterruptible arms. *)
SpeakPcs == {"synth", "playing"}
SpeakIntPcs == {"synthInt", "playInt", "bargeStt", "sendBargeIn"}
ArmPcs == SpeakPcs \cup SpeakIntPcs
ReturnPcs == {"returnedOk", "returnedErr"}
SendPcs == {"sendReady", "sendWake", "sendSpeech", "sendBargeIn", "sendPong"}
Pcs == {"boot", "top", "idleStt", "select", "activeStt"}
           \cup SendPcs \cup ArmPcs \cup ReturnPcs

Running == pc \notin ReturnPcs

(* run() gets from p to q and touches nothing else. *)
Goto(p, q) ==
    /\ pc = p
    /\ pc' = q
    /\ UNCHANGED <<state, vad, stopFlag, sockets>>

Init ==
    /\ pc = "boot"
    /\ mode = "Idle"
    /\ mic = "Idle"
    /\ speaking = FALSE
    /\ idle = 0
    /\ lang = DefaultLanguage
    /\ shutdown = FALSE
    /\ vad = "WaitingForSpeech"
    /\ stopFlag = FALSE
    /\ toShell = <<>>
    /\ toBrain = <<>>
    /\ brain = "up"

-----------------------------------------------------------------------------
(* The socket as run() uses it.  send() returns once the frame is in the   *)
(* socket buffer; towards a brain that is gone it fails, or the kernel     *)
(* takes a frame nobody will read.                                         *)

Send(m) ==
    /\ \/ brain = "up" /\ Len(toBrain) < OutCap /\ toBrain' = Append(toBrain, m)
       \/ brain = "gone" /\ toBrain' = toBrain
    /\ UNCHANGED <<toShell, brain>>

(* The `?' on a send, and on VAD inference and transcription: run()        *)
(* returns the error at once and leaves the shared state as it is.         *)
ReturnErr(p) == Goto(p, "returnedErr")

SendFails == brain = "gone" /\ \E p \in SendPcs : ReturnErr(p)

TranscribeFails == \E p \in {"idleStt", "activeStt"} : ReturnErr(p)

-----------------------------------------------------------------------------
(* Start: subsystems, connection, Ready. *)

Boot == Goto("boot", "sendReady")

BootFails == ReturnErr("boot")

SendReady ==
    /\ pc = "sendReady"
    /\ pc' = "top"
    /\ Send(Ready)
    /\ UNCHANGED <<state, vad, stopFlag>>

(* The head of the loop. *)
LeaveOnRequest == shutdown /\ Goto("top", "returnedOk")

-----------------------------------------------------------------------------
(* SessionMode::Idle: only the microphone is looked at. *)

IdleIgnoresRequest == pc = "top" /\ mode = "Idle"  \* faulty

AtIdle == pc = "top" /\ ~shutdown /\ mode = "Idle"

IdleNoFrame ==
    /\ AtIdle
    /\ mic' = "Idle"
    /\ UNCHANGED <<pc, mode, speaking, idle, lang, shutdown, vad, stopFlag, sockets>>

IdleFrame ==
    /\ AtIdle
    /\ \E m \in VadMoves :
         /\ m.from = vad
         /\ vad' = m.to
         /\ IF m.decision = "SpeechEnd"
            THEN pc' = "idleStt" /\ mic' = "Processing"
            ELSE pc' = "top" /\ mic' = "Idle"
    /\ UNCHANGED <<mode, speaking, idle, lang, shutdown, stopFlag, sockets>>

IdleInferenceFails ==
    /\ AtIdle
    /\ pc' = "returnedErr"
    /\ mic' = "Idle"
    /\ UNCHANGED <<mode, speaking, idle, lang, shutdown, vad, stopFlag, sockets>>

NotTheWakeWord == Goto("idleStt", "top")

HearWakeWordSilently ==  \* faulty: the brain is not told
    /\ pc = "idleStt"
    /\ pc' = "top"
    /\ mode' = "Active"
    /\ idle' = 0
    /\ UNCHANGED <<mic, speaking, lang, shutdown, vad, stopFlag, sockets>>

(* set_session_mode(Active) touches; it comes before the send. *)
HearWakeWord ==
    /\ pc = "idleStt"
    /\ pc' = "sendWake"
    /\ mode' = "Active"
    /\ idle' = 0
    /\ UNCHANGED <<mic, speaking, lang, shutdown, vad, stopFlag, sockets>>

WakeNotSent ==  \* faulty: the send is left out
    Goto("sendWake", "top")

SendWake ==
    /\ pc = "sendWake"
    /\ pc' = "top"
    /\ Send(WakeWordDetected)
    /\ UNCHANGED <<state, vad, stopFlag>>

-----------------------------------------------------------------------------
(* SessionMode::Active: auto-sleep, then select! over a frame timer and    *)
(* the socket.                                                             *)

AtActive == pc = "top" /\ ~shutdown /\ mode = "Active"

SleepBetweenUtterances ==  \* faulty: speech without end keeps it awake
    mode = "Active" /\ idle > AutoSleepSecs /\ vad = "WaitingForSpeech"

ShouldAutoSleep == mode = "Active" /\ idle > AutoSleepSecs

AutoSleepFallsThrough ==  \* faulty: no `continue'
    /\ AtActive /\ ShouldAutoSleep
    /\ pc' = "select"
    /\ mic' = "Listening"
    /\ mode' = "Idle"
    /\ vad' = "WaitingForSpeech"
    /\ UNCHANGED <<speaking, idle, lang, shutdown, stopFlag, sockets>>

AutoSleep ==
    /\ AtActive /\ ShouldAutoSleep
    /\ mic' = "Listening"
    /\ mode' = "Idle"
    /\ vad' = "WaitingForSpeech"
    /\ UNCHANGED <<pc, speaking, idle, lang, shutdown, stopFlag, sockets>>

EnterSelectKeepsMic ==  \* faulty: an override survives the turn
    AtActive /\ ~ShouldAutoSleep /\ Goto("top", "select")

EnterSelect ==
    /\ AtActive /\ ~ShouldAutoSleep
    /\ pc' = "select"
    /\ mic' = "Listening"
    /\ UNCHANGED <<mode, speaking, idle, lang, shutdown, vad, stopFlag, sockets>>

TimerNoFrame == Goto("select", "top")

TimerFrame ==
    /\ pc = "select"
    /\ \E m \in VadMoves :
         /\ m.from = vad
         /\ vad' = m.to
         /\ IF m.decision = "SpeechEnd"
            THEN pc' = "activeStt" /\ mic' = "Processing"
            ELSE pc' = "top" /\ mic' = mic
    /\ UNCHANGED <<mode, speaking, idle, lang, shutdown, stopFlag, sockets>>

TimerInferenceFails == ReturnErr("select")

NoiseHeard ==
    /\ pc = "activeStt"
    /\ pc' = "top"
    /\ mic' = "Listening"
    /\ UNCHANGED <<mode, speaking, idle, lang, shutdown, vad, stopFlag, sockets>>

SpeechHeard ==
    /\ pc = "activeStt"
    /\ pc' = "sendSpeech"
    /\ idle' = 0
    /\ lang' \in Languages
    /\ UNCHANGED <<mode, mic, speaking, shutdown, vad, stopFlag, sockets>>

(* The message carries the language just stored. *)
SendSpeech ==
    /\ pc = "sendSpeech"
    /\ pc' = "top"
    /\ Send(UserSpeech(lang))
    /\ mic' = "Listening"
    /\ UNCHANGED <<mode, speaking, idle, lang, shutdown, vad, stopFlag>>

-----------------------------------------------------------------------------
(* recv() and the arms of `match msg?'. *)

Recv(t) ==
    /\ pc = "select"
    /\ toShell # <<>>
    /\ Head(toShell).type = t
    /\ toShell' = Tail(toShell)
    /\ UNCHANGED <<toBrain, brain>>

StartSpeaking(p) ==
    /\ pc' = p
    /\ mic' = "Speaking"
    /\ speaking' = TRUE
    /\ UNCHANGED <<mode, idle, lang, shutdown>>

FinishWithoutTouch ==  \* faulty: a reply does not count as activity
    /\ pc' = "top"
    /\ speaking' = FALSE
    /\ mic' = "Listening"
    /\ UNCHANGED <<mode, idle, lang, shutdown>>

(* The last three statements of both speaking arms. *)
FinishSpeaking ==
    /\ pc' = "top"
    /\ speaking' = FALSE
    /\ mic' = "Listening"
    /\ idle' = 0
    /\ UNCHANGED <<mode, lang, shutdown>>

RecvSpeak ==
    /\ Recv("Speak")
    /\ StartSpeaking("synth")
    /\ UNCHANGED <<vad, stopFlag>>

RecvSpeakInterruptible ==
    /\ Recv("SpeakInterruptible")
    /\ StartSpeaking("synthInt")
    /\ UNCHANGED <<vad, stopFlag>>

(* No engine, or the engine fails; in the interruptible arm also an empty  *)
(* synthesis, which speak_interruptible returns at once.                   *)
NothingToPlay ==
    /\ pc \in {"synth", "synthInt"}
    /\ FinishSpeaking
    /\ UNCHANGED <<vad, stopFlag, sockets>>

StartPlaying == SelectEngine(lang) # "none" /\ Goto("synth", "playing")

(* play_samples returns; its result is dropped. *)
PlaybackEnds ==
    /\ pc = "playing"
    /\ FinishSpeaking
    /\ UNCHANGED <<vad, stopFlag, sockets>>

StartPlayingInt ==
    /\ pc = "synthInt"
    /\ SelectEngine(lang) # "none"
    /\ pc' = "playInt"
    /\ stopFlag' = FALSE
    /\ UNCHANGED <<state, vad, sockets>>

(* The monitor thread hears the user over the playback. *)
MonitorFires ==
    /\ pc = "playInt" /\ ~stopFlag
    /\ stopFlag' = TRUE
    /\ UNCHANGED <<pc, state, vad, sockets>>

PlaybackStopped == stopFlag /\ Goto("playInt", "bargeStt")

PlayedToTheEnd ==
    /\ pc = "playInt" /\ ~stopFlag
    /\ stopFlag' = TRUE
    /\ FinishSpeaking
    /\ UNCHANGED <<vad, sockets>>

(* The `?' on play_blocking inside speak_interruptible, only warned about. *)
PlaybackFails ==
    /\ pc = "playInt"
    /\ FinishSpeaking
    /\ UNCHANGED <<vad, stopFlag, sockets>>

(* Nothing captured, noise, or a failed transcription: no BargeIn. *)
NoInterruption ==
    /\ pc = "bargeStt"
    /\ FinishSpeaking
    /\ UNCHANGED <<vad, stopFlag, sockets>>

Interrupted == Goto("bargeStt", "sendBargeIn")

SendBargeIn ==
    /\ pc = "sendBargeIn"
    /\ Send(BargeIn)
    /\ FinishSpeaking
    /\ UNCHANGED <<vad, stopFlag>>

RecvStopSpeaking ==
    /\ Recv("StopSpeaking")
    /\ pc' = "top"
    /\ stopFlag' = TRUE
    /\ speaking' = FALSE
    /\ mic' = "Listening"
    /\ UNCHANGED <<mode, idle, lang, shutdown, vad>>

RecvSetMicState ==
    /\ Recv("SetMicState")
    /\ pc' = "top"
    /\ mic' = Head(toShell).state
    /\ UNCHANGED <<mode, speaking, idle, lang, shutdown, vad, stopFlag>>

ConfigureStoresNone ==  \* faulty: an absent language is stored
    /\ Recv("Configure")
    /\ pc' = "top"
    /\ lang' = Head(toShell).language
    /\ UNCHANGED <<mode, mic, speaking, idle, shutdown, vad, stopFlag>>

(* A new AI name is only logged. *)
RecvConfigure ==
    /\ Recv("Configure")
    /\ pc' = "top"
    /\ lang' = IF Head(toShell).language = NoLanguage
               THEN lang ELSE Head(toShell).language
    /\ UNCHANGED <<mode, mic, speaking, idle, shutdown, vad, stopFlag>>

ShutdownSwallowed ==  \* faulty: the command is read and dropped
    Recv("Shutdown") /\ pc' = "top" /\ UNCHANGED <<state, vad, stopFlag>>

RecvShutdown ==
    /\ Recv("Shutdown")
    /\ pc' = "returnedOk"
    /\ shutdown' = TRUE
    /\ UNCHANGED <<mode, mic, speaking, idle, lang, vad, stopFlag>>

RecvPing ==
    /\ Recv("Ping")
    /\ pc' = "sendPong"
    /\ UNCHANGED <<state, vad, stopFlag>>

SendPong ==
    /\ pc = "sendPong"
    /\ pc' = "top"
    /\ Send(Pong)
    /\ UNCHANGED <<state, vad, stopFlag>>

RecvOther ==
    /\ Recv("Other")
    /\ pc' = "top"
    /\ UNCHANGED <<state, vad, stopFlag>>

(* Codec::decode has consumed the frame when deserialization fails. *)
RecvGarbled ==
    /\ Recv("Garbled")
    /\ pc' = "returnedErr"
    /\ UNCHANGED <<state, vad, stopFlag>>

EofBeforeBuffer ==  \* faulty: buffered commands are dropped
    brain = "gone" /\ Goto("select", "returnedOk")

(* recv() reports EOF only after every complete frame has been returned. *)
RecvEof == brain = "gone" /\ toShell = <<>> /\ Goto("select", "returnedOk")

(* The connection was reset, or it ended inside a frame. *)
RecvFails == brain = "gone" /\ ReturnErr("select")

-----------------------------------------------------------------------------
RecvCommand ==
    \/ RecvSpeak \/ RecvSpeakInterruptible \/ RecvStopSpeaking
    \/ RecvSetMicState \/ RecvConfigure \/ RecvShutdown
    \/ RecvPing \/ RecvOther \/ RecvGarbled

IdleTurn ==
    \/ IdleNoFrame \/ IdleFrame \/ IdleInferenceFails
    \/ NotTheWakeWord \/ HearWakeWord \/ SendWake

ActiveTurn ==
    \/ AutoSleep \/ EnterSelect
    \/ TimerNoFrame \/ TimerFrame \/ TimerInferenceFails
    \/ NoiseHeard \/ SpeechHeard \/ SendSpeech
    \/ RecvCommand \/ RecvEof \/ RecvFails \/ SendPong

Speaking ==
    \/ NothingToPlay \/ StartPlaying \/ PlaybackEnds
    \/ StartPlayingInt \/ MonitorFires \/ PlaybackStopped \/ PlayedToTheEnd
    \/ PlaybackFails \/ NoInterruption \/ Interrupted \/ SendBargeIn

ShellStep ==
    \/ Boot \/ BootFails \/ SendReady \/ SendFails \/ TranscribeFails
    \/ LeaveOnRequest \/ IdleTurn \/ ActiveTurn \/ Speaking

(* A second passes. *)
Tick ==
    /\ Running /\ idle <= AutoSleepSecs
    /\ idle' = idle + 1
    /\ UNCHANGED <<pc, mode, mic, speaking, lang, shutdown, vad, stopFlag, sockets>>

(* Somebody holding the Arc of VoiceShell::state() calls request_shutdown. *)
RequestShutdown ==
    /\ Running /\ ~shutdown
    /\ shutdown' = TRUE
    /\ UNCHANGED <<pc, mode, mic, speaking, idle, lang, vad, stopFlag, sockets>>

(* The brain, as long as it is connected, sends, reads and leaves when it  *)
(* likes.                                                                  *)
BrainSends ==
    /\ brain = "up" /\ pc # "boot" /\ Running
    /\ Len(toShell) < InCap
    /\ \E c \in Commands : toShell' = Append(toShell, c)
    /\ UNCHANGED <<pc, state, vad, stopFlag, toBrain, brain>>

BrainReads ==
    /\ toBrain # <<>>
    /\ toBrain' = Tail(toBrain)
    /\ UNCHANGED <<pc, state, vad, stopFlag, toShell, brain>>

BrainCloses ==
    /\ brain = "up" /\ pc # "boot"
    /\ brain' = "gone"
    /\ toBrain' = <<>>
    /\ UNCHANGED <<pc, state, vad, stopFlag, toShell>>

PeerStep == RequestShutdown \/ BrainSends \/ BrainReads \/ BrainCloses

Next == ShellStep \/ Tick \/ PeerStep

Spec == Init /\ [][Next]_vars

(* run() is a task that always gets to its next statement; a command that  *)
(* is already readable wins the select! against a timer that has only just *)
(* been armed.  The brain, the clock and the user owe nothing.             *)
Fairness == WF_vars(ShellStep) /\ SF_vars(RecvCommand)

FairSpec == Spec /\ Fairness
=============================================================================
