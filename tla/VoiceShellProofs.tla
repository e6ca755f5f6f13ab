-------------------------- MODULE VoiceShellProofs --------------------------
(***************************************************************************)
(* The safety of the voice shell for every set of languages, engines and   *)
(* commands, every limit and every capacity of the socket buffers.         *)
(***************************************************************************)
EXTENDS VoiceShellQuiet, VoiceSystemProperties, TLAPS

(* What a step of run() can rely on. *)
ShellInv == TypeOK /\ MicShowsWork /\ AsleepMeansDeaf /\ CleanExit

(* The queues keep their types, whichever end of one a step works on. *)
LEMMA SendTypes ==
    ASSUME TypeOK, NEW m \in ShellMessages, Send(m)
    PROVE  toShell' \in Seq(Commands) /\ toBrain' \in Seq(ShellMessages) /\ brain' \in {"up", "gone"}
BY DEF TypeOK, Send

(* A command taken from the queue is one of the commands of the brain. *)
LEMMA RecvTypes ==
    ASSUME TypeOK, NEW t, Recv(t)
    PROVE  /\ toShell' \in Seq(Commands) /\ toBrain' \in Seq(ShellMessages)
           /\ brain' \in {"up", "gone"}
           /\ Head(toShell) \in BrainCommands
           /\ pc = "select"
BY ShellAssumption DEF TypeOK, Recv

(* touch() and the clock. *)
LEMMA ClockKept ==
    ASSUME ClockOK, idle' = idle \/ idle' = 0
    PROVE  ClockOK'
BY ShellAssumption DEF ClockOK

(* The clock stops one second beyond the limit. *)
LEMMA ClockTicks ==
    ASSUME ClockOK, Tick
    PROVE  ClockOK'
BY ShellAssumption DEF ClockOK, Tick

(* What run() sends are messages of the shell. *)
LEMMA MessageTypes ==
    /\ Ready \in ShellMessages /\ WakeWordDetected \in ShellMessages
    /\ BargeIn \in ShellMessages /\ Pong \in ShellMessages
    /\ \A l \in Languages : UserSpeech(l) \in ShellMessages
BY DEF ShellMessages

(* Every move of the detector ends in one of its states. *)
LEMMA VadTypes ==
    ASSUME NEW m \in VadMoves
    PROVE  m.to \in VadStates
BY DEF VadMoves, VadMove, VadStates

(* The payload of the two commands that carry one. *)
LEMMA Payloads ==
    ASSUME NEW c \in BrainCommands
    PROVE  /\ c.type = "SetMicState" => c.state \in MicStates
           /\ c.type = "Configure" => c.language \in Languages \cup {NoLanguage}
BY DEF BrainCommands, Plain, SetMicState, Configure

-----------------------------------------------------------------------------
(* Each group of handlers preserves the invariant. *)

(* The start, failing sends and transcriptions, the request at the top.    *)
LEMMA StartStep ==
    ASSUME ShellInv,
           Boot \/ BootFails \/ SendReady \/ SendFails \/ TranscribeFails \/ LeaveOnRequest
    PROVE  ShellInv'
<1> USE DEF ShellInv, TypeOK, MicShowsWork, AsleepMeansDeaf, CleanExit, state, sockets,
            Pcs, ArmPcs, SpeakPcs, SpeakIntPcs, SendPcs, ReturnPcs
<1>1. CASE Boot
  BY ClockKept, <1>1 DEF Boot, Goto
<1>2. CASE BootFails
  BY ClockKept, <1>2 DEF BootFails, ReturnErr, Goto
<1>3. CASE SendReady
  BY ClockKept, <1>3, SendTypes, MessageTypes DEF SendReady
<1>4. CASE SendFails
  BY ClockKept, <1>4 DEF SendFails, ReturnErr, Goto
<1>5. CASE TranscribeFails
  BY ClockKept, <1>5 DEF TranscribeFails, ReturnErr, Goto
<1>6. CASE LeaveOnRequest
  BY ClockKept, <1>6 DEF LeaveOnRequest, Goto
<1> QED
  BY <1>1, <1>2, <1>3, <1>4, <1>5, <1>6

(* A turn of the sleeping session. *)
LEMMA IdleStep ==
    ASSUME ShellInv, IdleTurn
    PROVE  ShellInv'
<1> USE DEF ShellInv, TypeOK, MicShowsWork, AsleepMeansDeaf, CleanExit, state, sockets,
            Pcs, ArmPcs, SpeakPcs, SpeakIntPcs, SendPcs, ReturnPcs, MicStates, SessionModes
<1>1. CASE IdleNoFrame
  BY ClockKept, <1>1 DEF IdleNoFrame, AtIdle
<1>2. CASE IdleFrame
  BY ClockKept, <1>2, VadTypes DEF IdleFrame, AtIdle
<1>3. CASE IdleInferenceFails
  BY ClockKept, <1>3 DEF IdleInferenceFails, AtIdle
<1>4. CASE NotTheWakeWord
  BY ClockKept, <1>4 DEF NotTheWakeWord, Goto
<1>5. CASE HearWakeWord
  BY ClockKept, <1>5 DEF HearWakeWord
<1>6. CASE SendWake
  BY ClockKept, <1>6, SendTypes, MessageTypes DEF SendWake
<1> QED
  BY <1>1, <1>2, <1>3, <1>4, <1>5, <1>6 DEF IdleTurn

(* A turn of the awake session that takes no command. *)
LEMMA ActiveStep ==
    ASSUME ShellInv, ActiveTurn, ~RecvCommand
    PROVE  ShellInv'
<1> USE DEF ShellInv, TypeOK, MicShowsWork, AsleepMeansDeaf, CleanExit, state, sockets,
            Pcs, ArmPcs, SpeakPcs, SpeakIntPcs, SendPcs, ReturnPcs, MicStates, SessionModes
<1>1. CASE AutoSleep
  BY ClockKept, <1>1 DEF AutoSleep, AtActive, VadStates
<1>2. CASE EnterSelect
  BY ClockKept, <1>2 DEF EnterSelect, AtActive
<1>3. CASE TimerNoFrame
  BY ClockKept, <1>3 DEF TimerNoFrame, Goto
<1>4. CASE TimerFrame
  BY ClockKept, <1>4, VadTypes DEF TimerFrame
<1>5. CASE TimerInferenceFails
  BY ClockKept, <1>5 DEF TimerInferenceFails, ReturnErr, Goto
<1>6. CASE NoiseHeard
  BY ClockKept, <1>6 DEF NoiseHeard
<1>7. CASE SpeechHeard
  BY ClockKept, <1>7 DEF SpeechHeard
<1>8. CASE SendSpeech
  BY ClockKept, <1>8, SendTypes, MessageTypes DEF SendSpeech
<1>9. CASE RecvEof
  BY ClockKept, <1>9 DEF RecvEof, Goto
<1>10. CASE RecvFails
  BY ClockKept, <1>10 DEF RecvFails, ReturnErr, Goto
<1>11. CASE SendPong
  BY ClockKept, <1>11, SendTypes, MessageTypes DEF SendPong
<1> QED
  BY <1>1, <1>2, <1>3, <1>4, <1>5, <1>6, <1>7, <1>8, <1>9, <1>10, <1>11 DEF ActiveTurn

(* The arms of the command match. *)
LEMMA RecvStep ==
    ASSUME ShellInv, RecvCommand
    PROVE  ShellInv'
<1> USE DEF ShellInv, TypeOK, MicShowsWork, AsleepMeansDeaf, CleanExit, state,
            Pcs, ArmPcs, SpeakPcs, SpeakIntPcs, SendPcs, ReturnPcs, MicStates, SessionModes
<1>1. CASE RecvSpeak
  BY ClockKept, <1>1, RecvTypes DEF RecvSpeak, StartSpeaking
<1>2. CASE RecvSpeakInterruptible
  BY ClockKept, <1>2, RecvTypes DEF RecvSpeakInterruptible, StartSpeaking
<1>3. CASE RecvStopSpeaking
  BY ClockKept, <1>3, RecvTypes DEF RecvStopSpeaking
<1>4. CASE RecvSetMicState
  BY ClockKept, <1>4, RecvTypes, Payloads DEF RecvSetMicState, Recv
<1>5. CASE RecvConfigure
  BY ClockKept, <1>5, RecvTypes, Payloads DEF RecvConfigure, Recv
<1>6. CASE RecvShutdown
  BY ClockKept, <1>6, RecvTypes DEF RecvShutdown
<1>7. CASE RecvPing
  BY ClockKept, <1>7, RecvTypes DEF RecvPing
<1>8. CASE RecvOther
  BY ClockKept, <1>8, RecvTypes DEF RecvOther
<1>9. CASE RecvGarbled
  BY ClockKept, <1>9, RecvTypes DEF RecvGarbled
<1> QED
  BY <1>1, <1>2, <1>3, <1>4, <1>5, <1>6, <1>7, <1>8, <1>9 DEF RecvCommand

(* The rest of the two speaking arms. *)
LEMMA SpeakingStep ==
    ASSUME ShellInv, Speaking
    PROVE  ShellInv'
<1> USE DEF ShellInv, TypeOK, MicShowsWork, AsleepMeansDeaf, CleanExit, state, sockets,
            Pcs, ArmPcs, SpeakPcs, SpeakIntPcs, SendPcs, ReturnPcs, MicStates, FinishSpeaking
<1>1. CASE NothingToPlay
  BY ClockKept, <1>1 DEF NothingToPlay
<1>2. CASE StartPlaying
  BY ClockKept, <1>2 DEF StartPlaying, Goto
<1>3. CASE PlaybackEnds
  BY ClockKept, <1>3 DEF PlaybackEnds
<1>4. CASE StartPlayingInt
  BY ClockKept, <1>4 DEF StartPlayingInt
<1>5. CASE MonitorFires
  BY ClockKept, <1>5 DEF MonitorFires
<1>6. CASE PlaybackStopped
  BY ClockKept, <1>6 DEF PlaybackStopped, Goto
<1>7. CASE PlayedToTheEnd
  BY ClockKept, <1>7 DEF PlayedToTheEnd
<1>8. CASE PlaybackFails
  BY ClockKept, <1>8 DEF PlaybackFails
<1>9. CASE NoInterruption
  BY ClockKept, <1>9 DEF NoInterruption
<1>10. CASE Interrupted
  BY ClockKept, <1>10 DEF Interrupted, Goto
<1>11. CASE SendBargeIn
  BY ClockKept, <1>11, SendTypes, MessageTypes DEF SendBargeIn
<1> QED
  BY <1>1, <1>2, <1>3, <1>4, <1>5, <1>6, <1>7, <1>8, <1>9, <1>10, <1>11 DEF Speaking

(* The clock, the brain and the holder of the shared state. *)
LEMMA EnvironmentStep ==
    ASSUME ShellInv, Tick \/ PeerStep
    PROVE  ShellInv'
<1> USE DEF ShellInv, TypeOK, MicShowsWork, AsleepMeansDeaf, CleanExit, state, sockets, ReturnPcs, Running, SpeakPcs, SpeakIntPcs, ArmPcs
<1>1. CASE Tick
  BY ClockTicks, <1>1 DEF Tick
<1>2. CASE RequestShutdown
  BY ClockKept, <1>2 DEF RequestShutdown
<1>3. CASE BrainSends
  BY ClockKept, <1>3 DEF BrainSends
<1>4. CASE BrainReads
  BY ClockKept, <1>4 DEF BrainReads
<1>5. CASE BrainCloses
  BY ClockKept, <1>5 DEF BrainCloses
<1> QED
  BY <1>1, <1>2, <1>3, <1>4, <1>5 DEF PeerStep

-----------------------------------------------------------------------------
(* The first state satisfies the invariant. *)
LEMMA InitInv == Init => ShellInv
<1> SUFFICES ASSUME Init PROVE ShellInv
  OBVIOUS
<1>1. ClockOK
  BY ShellAssumption DEF Init, ClockOK
<1>2. toShell \in Seq(Commands) /\ toBrain \in Seq(ShellMessages)
  BY DEF Init
<1> QED
  BY <1>1, <1>2, LanguagesAssumption
   DEF Init, ShellInv, TypeOK, MicShowsWork, AsleepMeansDeaf, CleanExit, Pcs, ArmPcs,
       SpeakPcs, SpeakIntPcs, SendPcs, ReturnPcs, MicStates, SessionModes, VadStates

(* Every step of run() and of its environment keeps the invariant. *)
LEMMA NextInv == ShellInv /\ [Next]_vars => ShellInv'
<1> SUFFICES ASSUME ShellInv, [Next]_vars PROVE ShellInv'
  OBVIOUS
<1>1. CASE ShellStep
  BY <1>1, StartStep, IdleStep, ActiveStep, RecvStep, SpeakingStep DEF ShellStep
<1>2. CASE Tick \/ PeerStep
  BY <1>2, EnvironmentStep
<1>3. CASE UNCHANGED vars
  BY <1>3, ClockKept DEF vars, ShellInv, TypeOK, MicShowsWork, AsleepMeansDeaf, CleanExit
<1> QED
  BY <1>1, <1>2, <1>3 DEF Next

(* The type invariant, for every value of the constants. *)
THEOREM TypeCorrect == Spec => []TypeOK
<1>1. ShellInv => TypeOK
  BY DEF ShellInv
<1> QED
  BY InitInv, NextInv, <1>1, PTL DEF Spec

(* The microphone state a reader of the shared state sees is the truth     *)
(* wherever run() lingers.                                                 *)
THEOREM MicTruthful == Spec => []MicShowsWork
<1>1. ShellInv => MicShowsWork
  BY DEF ShellInv
<1> QED
  BY InitInv, NextInv, <1>1, PTL DEF Spec

(* run() never returns Ok over a command it has not handled. *)
THEOREM CleanExitHolds == Spec => []CleanExit
<1>1. ShellInv => CleanExit
  BY DEF ShellInv
<1> QED
  BY InitInv, NextInv, <1>1, PTL DEF Spec

(* Asleep, the shell serves nothing; awake, it looks for no wake word. *)
THEOREM AsleepDeaf == Spec => []AsleepMeansDeaf
<1>1. ShellInv => AsleepMeansDeaf
  BY DEF ShellInv
<1> QED
  BY InitInv, NextInv, <1>1, PTL DEF Spec

-----------------------------------------------------------------------------
(* The shell implements the session protocol: each step is one of its      *)
(* steps under the mapping, or leaves all of it unchanged.                 *)

(* Both sides speak of the same messages. *)
LEMMA SameMessages ==
    /\ SP!Ready = Ready /\ SP!WakeWordDetected = WakeWordDetected
    /\ SP!BargeIn = BargeIn /\ SP!Pong = Pong
    /\ \A l \in Languages : SP!UserSpeech(l) = UserSpeech(l)
    /\ SP!BrainCommands = BrainCommands
BY DEF SP!Ready, Ready, SP!WakeWordDetected, WakeWordDetected, SP!BargeIn, BargeIn,
       SP!Pong, Pong, SP!UserSpeech, UserSpeech, SP!BrainCommands, BrainCommands,
       SP!Plain, Plain, SP!SetMicState, SetMicState, SP!Configure, Configure,
       SP!MicStates, MicStates

(* The first state of run() is one of the protocol. *)
LEMMA InitRefines == Init => SP!Init
BY DEF Init, SP!Init, PhaseBar, ServingBar, SpeakPcs, SpeakIntPcs, ReturnPcs

(* Every step maps to a step of the protocol or to a stutter. *)
LEMMA StepRefines == ShellInv /\ [Next]_vars => [SP!Next]_SP!vars
<1> SUFFICES ASSUME ShellInv, [Next]_vars PROVE SP!Next \/ UNCHANGED SP!vars
  OBVIOUS
<1> USE DEF PhaseBar, ServingBar, SpeakPcs, SpeakIntPcs, ArmPcs, ReturnPcs
<1>a. AsleepMeansDeaf /\ TypeOK
  BY DEF ShellInv
(* Steps the brain cannot see. *)
<1>1. ASSUME \/ Boot \/ IdleNoFrame \/ IdleFrame \/ NotTheWakeWord \/ HearWakeWord
             \/ EnterSelect \/ TimerNoFrame \/ TimerFrame \/ NoiseHeard \/ SpeechHeard
             \/ StartPlaying \/ StartPlayingInt \/ MonitorFires \/ PlaybackStopped
             \/ Interrupted \/ Tick \/ RequestShutdown
      PROVE  UNCHANGED SP!vars
  <2> USE <1>1, <1>a DEF SP!vars, AsleepMeansDeaf, state, sockets, Goto
  <2>1. CASE Boot
    BY <2>1 DEF Boot
  <2>2. CASE IdleNoFrame
    BY <2>2 DEF IdleNoFrame, AtIdle
  <2>3. CASE IdleFrame
    BY <2>3 DEF IdleFrame, AtIdle
  <2>4. CASE NotTheWakeWord
    BY <2>4 DEF NotTheWakeWord
  <2>5. CASE HearWakeWord
    BY <2>5 DEF HearWakeWord, TypeOK, SessionModes
  <2>6. CASE EnterSelect
    BY <2>6 DEF EnterSelect, AtActive
  <2>7. CASE TimerNoFrame
    BY <2>7 DEF TimerNoFrame
  <2>8. CASE TimerFrame
    BY <2>8 DEF TimerFrame
  <2>9. CASE NoiseHeard
    BY <2>9 DEF NoiseHeard
  <2>10. CASE SpeechHeard
    BY <2>10 DEF SpeechHeard
  <2>11. CASE StartPlaying
    BY <2>11 DEF StartPlaying
  <2>12. CASE StartPlayingInt
    BY <2>12 DEF StartPlayingInt
  <2>13. CASE MonitorFires
    BY <2>13 DEF MonitorFires
  <2>14. CASE PlaybackStopped
    BY <2>14 DEF PlaybackStopped
  <2>15. CASE Interrupted
    BY <2>15 DEF Interrupted
  <2>16. CASE Tick
    BY <2>16 DEF Tick
  <2>17. CASE RequestShutdown
    BY <2>17 DEF RequestShutdown
  <2> QED
    BY <2>1, <2>2, <2>3, <2>4, <2>5, <2>6, <2>7, <2>8, <2>9, <2>10, <2>11, <2>12,
       <2>13, <2>14, <2>15, <2>16, <2>17
(* Messages sent on the shell's own account, and falling asleep. *)
<1>2. CASE SendReady
  BY <1>2, <1>a, SameMessages DEF SendReady, state, Send, SP!Announce, SP!Say, AsleepMeansDeaf, TypeOK, SessionModes, SP!Next
<1>3. CASE SendWake
  BY <1>3, <1>a, SameMessages DEF SendWake, Send, SP!Wake, SP!Say, AsleepMeansDeaf, TypeOK, SessionModes, state, SP!Next
<1>4. CASE AutoSleep
  BY <1>4, <1>a DEF AutoSleep, AtActive, SP!Sleep, sockets, SP!Next
<1>5. CASE SendSpeech
  <2>1. PhaseBar = "awake" /\ PhaseBar' = "awake" /\ ServingBar = "nothing" /\ ServingBar' = "nothing"
    BY <1>5, <1>a DEF SendSpeech, AsleepMeansDeaf, TypeOK, SessionModes
  <2>2. SP!Say(UserSpeech(lang)) /\ UNCHANGED <<toShell, brain>>
    BY <1>5 DEF SendSpeech, Send, SP!Say
  <2>3. SP!Utter
    BY <2>1, <2>2, <1>a, SameMessages DEF SP!Utter, TypeOK
  <2> QED
    BY <2>3 DEF SP!Next
(* Commands taken and answered. *)
<1>6. CASE RecvCommand
  <2>1. PhaseBar = "awake" /\ ServingBar = "nothing"
    BY <1>6, <1>a DEF AsleepMeansDeaf, TypeOK, SessionModes, RecvCommand, RecvSpeak,
       RecvSpeakInterruptible, RecvStopSpeaking, RecvSetMicState, RecvConfigure,
       RecvShutdown, RecvPing, RecvOther, RecvGarbled, Recv
  <2> HIDE DEF PhaseBar, ServingBar
  <2>2. CASE RecvSpeak
    <3>1. PhaseBar' = "awake" /\ ServingBar' = "Speak"
      BY <2>1, <2>2 DEF RecvSpeak, StartSpeaking, Recv, PhaseBar, ServingBar
    <3> QED
      BY <2>1, <2>2, <3>1 DEF RecvSpeak, Recv, SP!Take, SP!Next
  <2>3. CASE RecvSpeakInterruptible
    <3>1. PhaseBar' = "awake" /\ ServingBar' = "SpeakInterruptible"
      BY <2>1, <2>3 DEF RecvSpeakInterruptible, StartSpeaking, Recv, PhaseBar, ServingBar
    <3> QED
      BY <2>1, <2>3, <3>1 DEF RecvSpeakInterruptible, Recv, SP!Take, SP!Next
  <2>4. CASE RecvPing
    <3>1. PhaseBar' = "awake" /\ ServingBar' = "Ping"
      BY <2>1, <2>4 DEF RecvPing, state, Recv, PhaseBar, ServingBar
    <3> QED
      BY <2>1, <2>4, <3>1 DEF RecvPing, Recv, SP!Take, SP!Next
  <2>5. CASE RecvStopSpeaking \/ RecvSetMicState \/ RecvConfigure \/ RecvOther
    <3>1. PhaseBar' = "awake" /\ ServingBar' = "nothing"
      BY <2>1, <2>5 DEF RecvStopSpeaking, RecvSetMicState, RecvConfigure, RecvOther,
         state, Recv, PhaseBar, ServingBar
    <3> QED
      BY <2>1, <2>5, <3>1 DEF RecvStopSpeaking, RecvSetMicState, RecvConfigure, RecvOther,
         Recv, SP!Take, SP!Next
  <2>6. CASE RecvShutdown \/ RecvGarbled
    <3>1. PhaseBar' = "gone" /\ ServingBar' = "nothing"
      BY <2>1, <2>6 DEF RecvShutdown, RecvGarbled, Recv, PhaseBar, ServingBar
    <3> QED
      BY <2>1, <2>6, <3>1 DEF RecvShutdown, RecvGarbled, Recv, SP!Quit, SP!Next
  <2> QED
    BY <1>6, <2>2, <2>3, <2>4, <2>5, <2>6 DEF RecvCommand
<1>7. CASE NothingToPlay \/ PlaybackEnds \/ PlayedToTheEnd \/ PlaybackFails \/ NoInterruption
  <2>1. /\ ServingBar \in {"Speak", "SpeakInterruptible"} /\ ServingBar' = "nothing"
        /\ PhaseBar' = PhaseBar /\ UNCHANGED sockets
    BY <1>7, <1>a DEF NothingToPlay, PlaybackEnds, PlayedToTheEnd, PlaybackFails,
       NoInterruption, FinishSpeaking, AsleepMeansDeaf, TypeOK, SessionModes
  <2> QED
    BY <2>1 DEF SP!Answer, SP!Next, sockets
<1>8. CASE SendBargeIn
  <2>1. /\ ServingBar = "SpeakInterruptible" /\ ServingBar' = "nothing" /\ PhaseBar' = PhaseBar
    BY <1>8, <1>a DEF SendBargeIn, FinishSpeaking, AsleepMeansDeaf, TypeOK, SessionModes
  <2> QED
    BY <1>8, <2>1, SameMessages DEF SendBargeIn, Send, SP!Say, SP!Answer, SP!Next
<1>9. CASE SendPong
  <2>1. ServingBar = "Ping" /\ ServingBar' = "nothing" /\ PhaseBar' = PhaseBar
    BY <1>9, <1>a DEF SendPong, state, AsleepMeansDeaf, TypeOK, SessionModes
  <2> QED
    BY <1>9, <2>1, SameMessages DEF SendPong, Send, SP!Say, SP!Answer, SP!Next
(* The end. *)
<1>10. CASE \/ BootFails \/ SendFails \/ TranscribeFails \/ LeaveOnRequest
            \/ IdleInferenceFails \/ TimerInferenceFails \/ RecvEof \/ RecvFails
  <2>1. /\ pc \notin ReturnPcs /\ pc' \in ReturnPcs
        /\ UNCHANGED sockets
    BY <1>10 DEF BootFails, SendFails, TranscribeFails, LeaveOnRequest, IdleInferenceFails,
       AtIdle, TimerInferenceFails, RecvEof, RecvFails, ReturnErr, Goto, SendPcs
  <2>2. PhaseBar # "gone" /\ PhaseBar' = "gone" /\ ServingBar' = "nothing"
    BY <2>1
  <2> QED
    BY <2>1, <2>2 DEF SP!Quit, SP!Next, sockets
(* The brain. *)
<1>11. CASE BrainSends
  BY <1>11, ShellAssumption, SameMessages DEF BrainSends, SP!PeerSends, SP!Next, state
<1>12. CASE BrainReads
  BY <1>12 DEF BrainReads, SP!PeerReads, SP!Next, state
<1>13. CASE BrainCloses
  BY <1>13 DEF BrainCloses, SP!PeerCloses, SP!Next, state
<1>14. CASE UNCHANGED vars
  BY <1>14 DEF vars, SP!vars
<1> QED
  BY <1>1, <1>2, <1>3, <1>4, <1>5, <1>6, <1>7, <1>8, <1>9, <1>10, <1>11, <1>12, <1>13, <1>14
     DEF Next, ShellStep, IdleTurn, ActiveTurn, Speaking, PeerStep

(* Every behaviour of the shell is one of the session protocol. *)
THEOREM Implementation == Spec => ImplementsProtocol
BY InitInv, NextInv, InitRefines, StepRefines, PTL DEF Spec, SP!Spec, ImplementsProtocol

-----------------------------------------------------------------------------
(* The clock of run() is restarted where the user is heard or has heard    *)
(* something, and nowhere else.                                            *)
LEMMA Restarts ==
    ASSUME ShellStep
    PROVE  \/ Exchange /\ idle' = 0
           \/ ~Exchange /\ idle' = idle /\ mode' \in {mode, "Idle"}
  <1> USE DEF Exchange, ArmPcs, SpeakPcs, SpeakIntPcs, state, sockets
  <1>1. CASE Boot \/ BootFails \/ SendReady \/ SendFails \/ TranscribeFails \/ LeaveOnRequest
    BY <1>1 DEF Boot, BootFails, SendReady, SendFails, TranscribeFails, LeaveOnRequest,
                Goto, ReturnErr, SendPcs
  <1>2. CASE IdleTurn
    BY <1>2 DEF IdleTurn, IdleNoFrame, IdleFrame, IdleInferenceFails, NotTheWakeWord,
                HearWakeWord, SendWake, AtIdle, Goto
  <1>3. CASE AutoSleep \/ EnterSelect \/ TimerNoFrame \/ TimerFrame \/ TimerInferenceFails
    BY <1>3 DEF AutoSleep, EnterSelect, TimerNoFrame, TimerFrame, TimerInferenceFails,
                AtActive, Goto, ReturnErr
  <1>4. CASE NoiseHeard \/ SpeechHeard \/ SendSpeech \/ RecvEof \/ RecvFails \/ SendPong
    BY <1>4 DEF NoiseHeard, SpeechHeard, SendSpeech, RecvEof, RecvFails, SendPong,
                Goto, ReturnErr
  <1>5. CASE RecvCommand
    BY <1>5 DEF RecvCommand, RecvSpeak, RecvSpeakInterruptible, RecvStopSpeaking,
                RecvSetMicState, RecvConfigure, RecvShutdown, RecvPing, RecvOther,
                RecvGarbled, Recv, StartSpeaking
  <1>6. CASE Speaking
    BY <1>6 DEF Speaking, NothingToPlay, StartPlaying, PlaybackEnds, StartPlayingInt,
                MonitorFires, PlaybackStopped, PlayedToTheEnd, PlaybackFails,
                NoInterruption, Interrupted, SendBargeIn, FinishSpeaking, Goto
  <1> QED BY <1>1, <1>2, <1>3, <1>4, <1>5, <1>6 DEF ShellStep, ActiveTurn

(* While the session is awake the time compared with the limit is the time *)
(* since the last exchange, for every limit.                               *)
THEOREM ClockExact == QuietSpec => []IdleClockExact
  <1>1. QuietInit => IdleClockExact
    BY DEF QuietInit, Init, IdleClockExact
  <1>2. IdleClockExact /\ [QuietNext /\ QuietBound']_quietVars => IdleClockExact'
    <2> SUFFICES ASSUME IdleClockExact, [QuietNext]_quietVars PROVE IdleClockExact'
      OBVIOUS
    <2> USE DEF IdleClockExact
    <2>1. CASE ShellStep /\ quiet' = IF Exchange THEN 0 ELSE quiet
      BY <2>1, Restarts
    <2>2. CASE Tick /\ quiet' = quiet + 1
      BY <2>2 DEF Tick
    <2>3. CASE PeerStep /\ quiet' = quiet
      BY <2>3 DEF PeerStep, RequestShutdown, BrainSends, BrainReads, BrainCloses, state
    <2>4. CASE UNCHANGED quietVars
      BY <2>4 DEF quietVars
    <2> QED BY <2>1, <2>2, <2>3, <2>4 DEF QuietNext
  <1> QED BY <1>1, <1>2, PTL DEF QuietSpec

-----------------------------------------------------------------------------
(* The shell and the brain together: what the brain has been told before   *)
(* it is told anything the user says.                                      *)

Utterances == {"UserSpeech", "BargeIn"}
Wake == "WakeWordDetected"

(* Messages on their way to a brain that may hold the wake word already.   *)
Announced(held, q) == held \/ \E j \in 1 .. Len(q) : q[j].type = Wake

WakeComesFirst(held, q) ==
    \A i \in 1 .. Len(q) :
      q[i].type \in Utterances => held \/ \E j \in 1 .. Len(q) : j < i /\ q[j].type = Wake

(* run() has not yet heard the wake word, or has not yet said so. *)
Asleep ==
    \/ mode = "Idle" /\ pc \in {"boot", "sendReady", "top", "idleStt"}
    \/ pc \in {"sendWake", "returnedOk", "returnedErr"}

HoldsWake == step = "got" /\ msg = Wake

(* The brain is there, and not about to leave. *)
Talking == brain = "up" /\ step # "closing"

(* As long as the brain waits for the wake word it sends nothing, and the  *)
(* shell is asleep, or the wake word is on its way before any speech.      *)
WaitsForWake ==
    Talking /\ ~woken =>
      /\ call \in {"none", "wait_for_wake_word"} /\ step \in {"out", "recv", "got"}
      /\ step # "out" => call = "wait_for_wake_word"
      /\ toShell = <<>> /\ lang \in Languages /\ toBrain \in Seq(ShellMessages)
      /\ Asleep \/ Announced(HoldsWake, toBrain)
      /\ WakeComesFirst(HoldsWake, toBrain)

LEMMA OneMore ==
    ASSUME NEW q \in Seq(ShellMessages), NEW m \in ShellMessages, NEW held \in BOOLEAN,
           WakeComesFirst(held, q), m.type \in Utterances => Announced(held, q)
    PROVE  /\ Append(q, m) \in Seq(ShellMessages)
           /\ WakeComesFirst(held, Append(q, m))
           /\ Announced(held, q) \/ m.type = Wake => Announced(held, Append(q, m))
  <1> DEFINE r == Append(q, m)
  <1>1. /\ r \in Seq(ShellMessages) /\ Len(r) = Len(q) + 1 /\ r[Len(q) + 1] = m
        /\ \A i \in 1 .. Len(q) : r[i] = q[i]
    OBVIOUS
  <1> HIDE DEF r
  <1>2. /\ Len(q) \in Nat /\ Len(q) + 1 \in 1 .. Len(r)
        /\ \A i \in 1 .. Len(q) : i \in 1 .. Len(r) /\ i < Len(q) + 1
        /\ \A i \in 1 .. Len(r) : i \in 1 .. Len(q) \/ i = Len(q) + 1
    BY <1>1
  <1>3. Announced(held, q) \/ m.type = Wake => Announced(held, r)
    BY <1>1, <1>2 DEF Announced
  <1>4. ASSUME NEW i \in 1 .. Len(r), r[i].type \in Utterances
        PROVE  held \/ \E j \in 1 .. Len(r) : j < i /\ r[j].type = Wake
    <2>1. CASE i \in 1 .. Len(q)
      BY <1>1, <1>2, <1>4, <2>1 DEF WakeComesFirst
    <2>2. CASE i = Len(q) + 1
      BY <1>1, <1>2, <1>4, <2>2 DEF Announced
    <2> QED BY <1>2, <2>1, <2>2
  <1>5. WakeComesFirst(held, r)
    BY <1>4 DEF WakeComesFirst
  <1> QED BY <1>1, <1>3, <1>5 DEF r

LEMMA OneRead ==
    ASSUME NEW q \in Seq(ShellMessages), q # <<>>, WakeComesFirst(FALSE, q)
    PROVE  /\ Head(q).type \notin Utterances /\ Tail(q) \in Seq(ShellMessages)
           /\ WakeComesFirst(Head(q).type = Wake, Tail(q))
           /\ Announced(FALSE, q) => Announced(Head(q).type = Wake, Tail(q))
  <1> DEFINE r == Tail(q)
             h == Head(q)
  <1>1. /\ r \in Seq(ShellMessages) /\ Len(r) = Len(q) - 1 /\ h = q[1]
        /\ Len(q) \in Nat /\ Len(q) > 0
        /\ \A i \in 1 .. Len(q) - 1 : r[i] = q[i + 1]
    OBVIOUS
  <1> HIDE DEF r, h
  <1>2. /\ 1 \in 1 .. Len(q)
        /\ \A i \in 1 .. Len(r) : i + 1 \in 1 .. Len(q) /\ r[i] = q[i + 1]
        /\ \A j \in 1 .. Len(q) : j = 1 \/ (j - 1 \in 1 .. Len(r) /\ r[j - 1] = q[j])
    <2>1. \A j \in 1 .. Len(q) : j = 1 \/ (j - 1 \in 1 .. Len(r) /\ (j - 1) + 1 = j)
      BY <1>1
    <2>2. \A i \in 1 .. Len(r) : i + 1 \in 1 .. Len(q) /\ i \in 1 .. Len(q) - 1
      BY <1>1
    <2>3. \A i \in 1 .. Len(r) : r[i] = q[i + 1]
      BY <1>1, <2>2
    <2> QED BY <1>1, <2>1, <2>2, <2>3
  <1>3. h.type \notin Utterances
    <2>1. \A j \in 1 .. Len(q) : ~ (j < 1)
      BY <1>1
    <2> QED BY <1>1, <1>2, <2>1 DEF WakeComesFirst
  <1>4. Announced(FALSE, q) => Announced(h.type = Wake, r)
    BY <1>1, <1>2 DEF Announced
  <1>5. ASSUME NEW i \in 1 .. Len(r), r[i].type \in Utterances, h.type # Wake
        PROVE  \E j \in 1 .. Len(r) : j < i /\ r[j].type = Wake
    <2>1. PICK j \in 1 .. Len(q) : j < i + 1 /\ q[j].type = Wake
      BY <1>2, <1>5 DEF WakeComesFirst
    <2>2. j - 1 \in 1 .. Len(r) /\ r[j - 1] = q[j]
      BY <1>1, <1>2, <1>5, <2>1
    <2>3. j - 1 < i
      BY <1>1, <2>1
    <2> QED BY <2>1, <2>2, <2>3
  <1>6. WakeComesFirst(h.type = Wake, r)
    BY <1>5 DEF WakeComesFirst
  <1> QED BY <1>1, <1>3, <1>4, <1>6 DEF r, h

(* What run() says while no command is there: speech only when it is       *)
(* awake, and it wakes by saying so.                                       *)
LEMMA ShellSays ==
    ASSUME ShellStep, brain = "up", toShell = <<>>, lang \in Languages
    PROVE  /\ brain' = "up" /\ toShell' = toShell /\ lang' \in Languages
           /\ \/ toBrain' = toBrain /\ (Asleep => Asleep')
              \/ \E m \in ShellMessages :
                   /\ toBrain' = Append(toBrain, m)
                   /\ m.type \in Utterances => ~Asleep
                   /\ Asleep => Asleep' \/ m.type = Wake
  <1> USE DEF Asleep, sockets, state
  <1>1. CASE Boot \/ BootFails \/ TranscribeFails \/ LeaveOnRequest
    BY <1>1 DEF Boot, BootFails, TranscribeFails, LeaveOnRequest, Goto, ReturnErr
  <1>2. CASE SendFails
    BY <1>2 DEF SendFails
  <1>3. CASE SendReady
    BY <1>3, MessageTypes DEF SendReady, Send, Ready, Utterances
  <1>4. CASE IdleNoFrame \/ IdleFrame \/ IdleInferenceFails \/ NotTheWakeWord \/ HearWakeWord
    BY <1>4 DEF IdleNoFrame, IdleFrame, IdleInferenceFails, NotTheWakeWord, HearWakeWord,
                AtIdle, Goto
  <1>5. CASE SendWake
    BY <1>5, MessageTypes DEF SendWake, Send, WakeWordDetected, Wake, Utterances
  <1>6. CASE AutoSleep \/ EnterSelect \/ TimerNoFrame \/ TimerFrame \/ TimerInferenceFails
    BY <1>6 DEF AutoSleep, EnterSelect, TimerNoFrame, TimerFrame, TimerInferenceFails,
                AtActive, Goto, ReturnErr
  <1>7. CASE NoiseHeard \/ SpeechHeard \/ RecvEof \/ RecvFails
    BY <1>7 DEF NoiseHeard, SpeechHeard, RecvEof, RecvFails, Goto, ReturnErr
  <1>8. CASE SendSpeech
    BY <1>8, MessageTypes DEF SendSpeech, Send
  <1>9. CASE SendPong
    BY <1>9, MessageTypes DEF SendPong, Send, Pong, Utterances
  <1>10. CASE RecvCommand
    BY <1>10 DEF RecvCommand, RecvSpeak, RecvSpeakInterruptible, RecvStopSpeaking,
                 RecvSetMicState, RecvConfigure, RecvShutdown, RecvPing, RecvOther,
                 RecvGarbled, Recv
  <1>11. CASE SendBargeIn
    BY <1>11, MessageTypes DEF SendBargeIn, Send, FinishSpeaking
  <1>12. CASE Speaking /\ ~SendBargeIn
    BY <1>12 DEF Speaking, NothingToPlay, StartPlaying, PlaybackEnds, StartPlayingInt,
                 MonitorFires, PlaybackStopped, PlayedToTheEnd, PlaybackFails,
                 NoInterruption, Interrupted, FinishSpeaking, Goto
  <1> QED
    BY <1>1, <1>2, <1>3, <1>4, <1>5, <1>6, <1>7, <1>8, <1>9, <1>10, <1>11, <1>12
       DEF ShellStep, IdleTurn, ActiveTurn

LEMMA ShellTurnWaits ==
    ASSUME WaitsForWake, ShellTurn
    PROVE  WaitsForWake'
  <1> SUFFICES ASSUME Talking', ~woken' PROVE WaitsForWake'
    BY DEF WaitsForWake
  <1> USE DEF Talking
  <1>1. UNCHANGED <<step, call, msg, woken>> /\ HoldsWake' = HoldsWake
    BY DEF ShellTurn, brainVars, HoldsWake
  <1>2. ShellStep
    BY DEF ShellTurn, ShellStep, ActiveTurn
  <1>3. brain = "up"
    BY <1>2 DEF ShellStep, Boot, BootFails, SendReady, SendFails, TranscribeFails, LeaveOnRequest,
                Goto, ReturnErr, Send, sockets, IdleTurn, IdleNoFrame, IdleFrame,
                IdleInferenceFails, NotTheWakeWord, HearWakeWord, SendWake, ActiveTurn, AutoSleep,
                EnterSelect, TimerNoFrame, TimerFrame, TimerInferenceFails, NoiseHeard,
                SpeechHeard, SendSpeech, RecvEof, RecvFails, SendPong, RecvCommand, RecvSpeak,
                RecvSpeakInterruptible, RecvStopSpeaking, RecvSetMicState, RecvConfigure,
                RecvShutdown, RecvPing, RecvOther, RecvGarbled, Recv, Speaking, NothingToPlay,
                StartPlaying, PlaybackEnds, StartPlayingInt, MonitorFires, PlaybackStopped,
                PlayedToTheEnd, PlaybackFails, NoInterruption, Interrupted, SendBargeIn
  <1>4. /\ call \in {"none", "wait_for_wake_word"} /\ step \in {"out", "recv", "got"}
        /\ step # "out" => call = "wait_for_wake_word"
        /\ toShell = <<>> /\ lang \in Languages /\ toBrain \in Seq(ShellMessages)
        /\ Asleep \/ Announced(HoldsWake, toBrain)
        /\ WakeComesFirst(HoldsWake, toBrain)
    BY <1>1, <1>3 DEF WaitsForWake
  <1>5. /\ toShell' = toShell /\ lang' \in Languages
        /\ \/ toBrain' = toBrain /\ (Asleep => Asleep')
           \/ \E m \in ShellMessages :
                /\ toBrain' = Append(toBrain, m)
                /\ m.type \in Utterances => ~Asleep
                /\ Asleep => Asleep' \/ m.type = Wake
    BY <1>2, <1>3, <1>4, ShellSays
  <1>6. CASE toBrain' = toBrain /\ (Asleep => Asleep')
    BY <1>1, <1>4, <1>5, <1>6 DEF WaitsForWake
  <1>7. ASSUME NEW m \in ShellMessages, toBrain' = Append(toBrain, m),
               m.type \in Utterances => ~Asleep, Asleep => Asleep' \/ m.type = Wake
        PROVE  WaitsForWake'
    <2>1. HoldsWake \in BOOLEAN
      BY DEF HoldsWake
    <2>2. m.type \in Utterances => Announced(HoldsWake, toBrain)
      BY <1>4, <1>7
    <2>3. /\ toBrain' \in Seq(ShellMessages)
          /\ WakeComesFirst(HoldsWake, toBrain')
          /\ Announced(HoldsWake, toBrain) \/ m.type = Wake => Announced(HoldsWake, toBrain')
      BY <1>4, <1>7, <2>1, <2>2, OneMore
    <2>4. Asleep' \/ Announced(HoldsWake, toBrain')
      BY <1>4, <1>7, <2>3
    <2> QED BY <1>1, <1>4, <1>5, <2>3, <2>4 DEF WaitsForWake
  <1> QED BY <1>5, <1>6, <1>7

LEMMA BrainWaits ==
    ASSUME WaitsForWake, BrainActs \/ TimesOut
    PROVE  WaitsForWake'
  <1> SUFFICES ASSUME Talking', ~woken' PROVE WaitsForWake'
    BY DEF WaitsForWake
  <1> USE DEF vars, state, Ends, Talking
  <1>1. Talking /\ ~woken
    <2>1. CASE BrainCalls
      BY <2>1 DEF BrainCalls
    <2>2. CASE SendsRequest
      <3>1. Talking
        BY <2>2 DEF SendsRequest, Hands
      <3>2. ~woken
        BY <2>2, Zenon DEF SendsRequest
      <3> QED BY <3>1, <3>2
    <2>3. CASE Receives
      BY <2>3 DEF Receives
    <2>4. CASE Reacts
      <3>1. UNCHANGED vars /\ Talking
        BY <2>4 DEF Reacts
      <3>2. ~woken
        BY <2>4, Zenon DEF Reacts
      <3> QED BY <3>1, <3>2
    <2>5. CASE Raises \/ TimesOut
      BY <2>5 DEF Raises, TimesOut
    <2>6. CASE Closes
      BY <2>6 DEF Closes, BrainCloses
    <2> QED BY <2>1, <2>2, <2>3, <2>4, <2>5, <2>6 DEF BrainActs
  <1>2. /\ call \in {"none", "wait_for_wake_word"} /\ step \in {"out", "recv", "got"}
        /\ step # "out" => call = "wait_for_wake_word"
        /\ toShell = <<>> /\ lang \in Languages /\ toBrain \in Seq(ShellMessages)
        /\ Asleep \/ Announced(HoldsWake, toBrain)
        /\ WakeComesFirst(HoldsWake, toBrain)
    BY <1>1 DEF WaitsForWake
  <1>3. CASE BrainCalls
    <2>1. step = "out" /\ UNCHANGED vars /\ step' = "recv" /\ call' = "wait_for_wake_word"
      BY <1>1, <1>3 DEF BrainCalls, InTurn, Request
    <2>2. ~HoldsWake /\ ~HoldsWake'
      BY <2>1 DEF HoldsWake
    <2> QED BY <1>2, <2>1, <2>2, Zenon DEF WaitsForWake, Asleep, Announced, WakeComesFirst
  <1>4. CASE SendsRequest
    BY <1>2, <1>4 DEF SendsRequest, Hands
  <1>5. CASE Receives
    <2>1. /\ step = "recv" /\ toBrain # <<>> /\ toBrain' = Tail(toBrain)
          /\ step' = "got" /\ msg' = Head(toBrain).type
          /\ UNCHANGED <<pc, mode, lang, toShell, call>>
      BY <1>5 DEF Receives
    <2>2. ~HoldsWake /\ (HoldsWake' <=> Head(toBrain).type = Wake)
      BY <2>1 DEF HoldsWake
    <2>3. WakeComesFirst(FALSE, toBrain)
      BY <1>2, <2>2 DEF WakeComesFirst
    <2>4. /\ Tail(toBrain) \in Seq(ShellMessages)
          /\ WakeComesFirst(Head(toBrain).type = Wake, Tail(toBrain))
          /\ Announced(FALSE, toBrain) => Announced(Head(toBrain).type = Wake, Tail(toBrain))
      BY <1>2, <2>1, <2>3, OneRead
    <2>5. Announced(HoldsWake, toBrain) => Announced(FALSE, toBrain)
      BY <2>2 DEF Announced
    <2>6. /\ WakeComesFirst(HoldsWake', toBrain')
          /\ Announced(HoldsWake, toBrain) => Announced(HoldsWake', toBrain')
      BY <2>1, <2>2, <2>4, <2>5 DEF WakeComesFirst, Announced
    <2>7. Asleep' <=> Asleep
      BY <2>1 DEF Asleep
    <2> QED BY <1>2, <2>1, <2>4, <2>6, <2>7 DEF WaitsForWake
  <1>6. CASE Reacts
    <2>1. step = "got" /\ UNCHANGED vars /\ call = "wait_for_wake_word"
      BY <1>2, <1>6 DEF Reacts
    <2>2. msg # Wake /\ Reaction(call, msg) # "raise" /\ Reaction(call, msg) # "return"
      BY <1>6, <2>1 DEF Reacts, Reaction, Wake
    <2>3. step' = "recv" /\ call' = call
      BY <1>6, <2>2 DEF Reacts
    <2>4. ~HoldsWake /\ ~HoldsWake'
      BY <2>2, <2>3 DEF HoldsWake
    <2> QED BY <1>2, <2>1, <2>3, <2>4, Zenon DEF WaitsForWake, Asleep, Announced, WakeComesFirst
  <1>7. CASE Raises \/ TimesOut
    <2>1. step = "recv" /\ UNCHANGED vars /\ step' = "out" /\ call' = call
      BY <1>2, <1>7 DEF Raises, TimesOut
    <2>2. ~HoldsWake /\ ~HoldsWake'
      BY <2>1 DEF HoldsWake
    <2> QED BY <1>2, <2>1, <2>2, Zenon DEF WaitsForWake, Asleep, Announced, WakeComesFirst
  <1>8. CASE Closes
    BY <1>8 DEF Closes, BrainCloses
  <1> QED BY <1>3, <1>4, <1>5, <1>6, <1>7, <1>8 DEF BrainActs

(* Speech finds the brain in a call made after the wake word, for any      *)
(* languages, engines, methods, limits and socket buffers: while it waits  *)
(* for the wake word the shell sends nothing the user says before it.      *)
THEOREM HeardInTurn == SystemSpec => SpeechFindsListener
  <1>1. SystemInit => WaitsForWake
    <2> SUFFICES ASSUME SystemInit PROVE WaitsForWake
      OBVIOUS
    <2>1. DefaultLanguage \in Languages /\ <<>> \in Seq(ShellMessages) /\ Len(<<>>) = 0
      BY LanguagesAssumption
    <2> QED BY <2>1 DEF SystemInit, Init, WaitsForWake, Asleep, WakeComesFirst
  <1>2. WaitsForWake /\ [SystemNext]_systemVars => WaitsForWake'
    <2> SUFFICES ASSUME WaitsForWake, [SystemNext]_systemVars PROVE WaitsForWake'
      OBVIOUS
    <2>1. CASE SecondPasses
      BY <2>1 DEF SecondPasses, Tick, brainVars, sockets, WaitsForWake, Talking, Asleep, HoldsWake,
                  Announced, WakeComesFirst
    <2>2. CASE Disconnects \/ Dies
      BY <2>2 DEF Disconnects, Dies, BrainCloses, WaitsForWake, Talking
    <2>3. CASE UNCHANGED systemVars
      BY <2>3, Zenon DEF systemVars, vars, brainVars, WaitsForWake, Talking, Asleep, HoldsWake,
                         Announced, WakeComesFirst
    <2> QED BY <2>1, <2>2, <2>3, ShellTurnWaits, BrainWaits DEF SystemNext
  <1>3. WaitsForWake /\ [SystemNext]_systemVars
          => [Receives /\ msg' \in {"UserSpeech", "BargeIn"} => woken]_systemVars
    <2> SUFFICES ASSUME WaitsForWake, Receives, msg' \in Utterances PROVE woken
      BY DEF Utterances
    <2> SUFFICES ASSUME ~woken PROVE FALSE
      OBVIOUS
    <2>1. /\ toBrain \in Seq(ShellMessages) /\ toBrain # <<>> /\ msg' = Head(toBrain).type
          /\ WakeComesFirst(HoldsWake, toBrain) /\ ~HoldsWake
      BY DEF WaitsForWake, Talking, Receives, HoldsWake
    <2>2. WakeComesFirst(FALSE, toBrain)
      BY <2>1 DEF WakeComesFirst
    <2> QED BY <2>1, <2>2, OneRead
  <1> QED BY <1>1, <1>2, <1>3, PTL DEF SystemSpec, SpeechFindsListener


-----------------------------------------------------------------------------
(* The shell inside the system is the shell of VoiceShell.                 *)

LEMMA Booted == ASSUME ShellStep, pc # "boot" PROVE pc' # "boot"
  <1> USE DEF state, vars
  <1>1. CASE Boot \/ BootFails \/ SendReady \/ SendFails \/ TranscribeFails \/ LeaveOnRequest
    BY <1>1 DEF Boot, BootFails, SendReady, SendFails, TranscribeFails, LeaveOnRequest, Goto,
                ReturnErr
  <1>2. CASE IdleTurn
    BY <1>2 DEF IdleTurn, IdleNoFrame, IdleFrame, IdleInferenceFails, NotTheWakeWord,
                HearWakeWord, SendWake, Goto
  <1>3. CASE AutoSleep \/ EnterSelect \/ TimerNoFrame \/ TimerFrame \/ TimerInferenceFails
             \/ NoiseHeard \/ SpeechHeard \/ SendSpeech \/ RecvEof \/ RecvFails \/ SendPong
    BY <1>3 DEF AutoSleep, EnterSelect, TimerNoFrame, TimerFrame, TimerInferenceFails,
                NoiseHeard, SpeechHeard, SendSpeech, RecvEof, RecvFails, SendPong, Goto, ReturnErr
  <1>4. CASE RecvCommand
    BY <1>4 DEF RecvCommand, RecvSpeak, RecvSpeakInterruptible, RecvStopSpeaking,
                RecvSetMicState, RecvConfigure, RecvShutdown, RecvPing, RecvOther,
                RecvGarbled, StartSpeaking
  <1>5. CASE Speaking
    BY <1>5 DEF Speaking, NothingToPlay, StartPlaying, PlaybackEnds, StartPlayingInt,
                MonitorFires, PlaybackStopped, PlayedToTheEnd, PlaybackFails, NoInterruption,
                Interrupted, SendBargeIn, FinishSpeaking, Goto
  <1> QED BY <1>1, <1>2, <1>3, <1>4, <1>5 DEF ShellStep, ActiveTurn

(* The brain sends and leaves only over a connection. *)
Connected == step \in {"send", "closing"} => pc # "boot"

LEMMA Connection == SystemSpec => []Connected
  <1>1. SystemInit => Connected
    BY DEF SystemInit, Connected
  <1>2. Connected /\ [SystemNext]_systemVars => Connected'
    <2> SUFFICES ASSUME Connected, [SystemNext]_systemVars PROVE Connected'
      OBVIOUS
    <2> USE DEF Connected, brainVars, vars, Ends
    <2>1. CASE ShellTurn
      <3>1. ShellStep /\ step' = step
        BY <2>1 DEF ShellTurn, ShellStep, ActiveTurn
      <3> QED BY <3>1, Booted
    <2>2. CASE SecondPasses
      BY <2>2 DEF SecondPasses, Tick
    <2>3. CASE BrainCalls
      BY <2>3 DEF BrainCalls
    <2>4. CASE SendsRequest
      BY <2>4 DEF SendsRequest
    <2>5. CASE Receives \/ Reacts \/ TimesOut \/ Raises
      BY <2>5 DEF Receives, Reacts, TimesOut, Raises
    <2>6. CASE Disconnects
      BY <2>6 DEF Disconnects
    <2>7. CASE Closes \/ Dies
      BY <2>7 DEF Closes, Dies
    <2>8. CASE UNCHANGED systemVars
      BY <2>8 DEF systemVars
    <2> QED BY <2>1, <2>2, <2>3, <2>4, <2>5, <2>6, <2>7, <2>8 DEF SystemNext, BrainActs
  <1> QED BY <1>1, <1>2, PTL DEF SystemSpec

(* Every step of the system is for the shell one of its own, one its       *)
(* environment may take, or none: all that is proved of run() with any     *)
(* peer holds of run() with the bridge at the other end.                   *)
THEOREM WithTheBridge == SystemSpec => Spec
  <1>1. SystemInit => Init
    BY DEF SystemInit
  <1>2. Connected /\ [SystemNext]_systemVars => [Next]_vars
    <2> SUFFICES ASSUME Connected, [SystemNext]_systemVars PROVE [Next]_vars
      OBVIOUS
    <2>1. CASE ShellTurn
      BY <2>1 DEF ShellTurn, ShellStep, ActiveTurn, Next
    <2>2. CASE SecondPasses
      BY <2>2 DEF SecondPasses, Next
    <2>3. CASE BrainCalls \/ Reacts \/ Raises \/ TimesOut
      BY <2>3 DEF BrainCalls, Reacts, Raises, TimesOut
    <2>4. CASE SendsRequest
      <3>1. BrainSends
        BY <2>4 DEF SendsRequest, Hands, BrainSends, Connected
      <3> QED BY <3>1 DEF Next, PeerStep
    <2>5. CASE Receives
      <3>1. BrainReads
        BY <2>5 DEF Receives, BrainReads
      <3> QED BY <3>1 DEF Next, PeerStep
    <2>6. CASE Disconnects
      <3>1. CASE Running
        <4>1. BrainSends
          BY <2>6, <3>1, MethodsAssumption DEF Disconnects, BrainSends
        <4> QED BY <4>1 DEF Next, PeerStep
      <3>2. CASE ~Running
        BY <2>6, <3>2 DEF Disconnects, vars, state
      <3> QED BY <3>1, <3>2
    <2>7. CASE Closes \/ Dies
      BY <2>7 DEF Closes, Dies, Next, PeerStep
    <2>8. CASE UNCHANGED systemVars
      BY <2>8 DEF systemVars
    <2> QED BY <2>1, <2>2, <2>3, <2>4, <2>5, <2>6, <2>7, <2>8 DEF SystemNext, BrainActs
  <1> QED BY <1>1, <1>2, Connection, PTL DEF SystemSpec, Spec


-----------------------------------------------------------------------------
(* run() and the brain are never both in a send that waits.                *)

(* The brain may be about to send: it has heard something it has not yet   *)
(* answered.                                                               *)
Turn ==
    \/ step = "send"
    \/ step = "out" /\ Heard
    \/ step = "got" /\ call \in Waits \ DOMAIN Request

(* How many messages run() may still send before it takes a command that   *)
(* is there: the one under way, and the wake word if it falls asleep.      *)
Afoot ==
    CASE pc \in SpeakPcs -> 0
      [] pc = "select" -> IF readable THEN 0 ELSE 1
      [] pc = "top" -> IF mode = "Active" /\ idle <= AutoSleepSecs THEN 0 ELSE 1
      [] pc = "sendPong" -> IF idle > AutoSleepSecs THEN 2 ELSE 1
      [] OTHER -> 1

(* When the socket to run() is full there is room for these messages in    *)
(* the other, but for the one the brain reads before it sends again.       *)
Room ==
    /\ Len(toShell) = InCap => /\ Len(toBrain) + Afoot <= OutCap + 1
                               /\ Turn => Len(toBrain) + Afoot <= OutCap
    /\ Len(toShell) = InCap - 1 /\ Afoot = 2 /\ Turn => Len(toBrain) < OutCap

(* What Room needs of the rest of the state. *)
Paced ==
    /\ Len(toBrain) <= OutCap /\ Len(toShell) <= InCap
    /\ pc \in {"sendWake", "sendSpeech"} => idle = 0
    /\ pc = "select" /\ readable => idle <= AutoSleepSecs
    /\ step = "send" => call \in DOMAIN Request
    /\ pc \in {"boot", "sendReady"} =>
         toShell = <<>> /\ toBrain = <<>> /\ ~woken /\ step \in {"out", "recv"}

InPace == Talking /\ Running => Paced /\ Room

LEMMA AfootIs ==
    /\ Afoot \in {0, 1, 2}
    /\ Afoot = 2 => pc = "sendPong" /\ idle > AutoSleepSecs
    /\ pc \in SendPcs => Afoot >= 1
  BY DEF Afoot, SendPcs, SpeakPcs

LEMMA Lengths ==
    ASSUME TypeOK
    PROVE  /\ Len(toBrain) \in Nat /\ Len(toShell) \in Nat /\ idle \in Nat
           /\ InCap \in Nat \ {0} /\ OutCap \in Nat \ {0} /\ AutoSleepSecs \in Nat
           /\ toShell # <<>> <=> Len(toShell) > 0
  BY ShellAssumption DEF TypeOK, ClockOK

(* A send adds one message. *)
LEMMA Sent ==
    ASSUME TypeOK, NEW m \in ShellMessages, Send(m), brain = "up"
    PROVE  toShell' = toShell /\ brain' = "up" /\ Len(toBrain') = Len(toBrain) + 1
           /\ Len(toBrain') <= OutCap
  BY ShellAssumption DEF Send, TypeOK

Keeps ==
    /\ toShell' = toShell /\ Len(toBrain') <= OutCap /\ Afoot' \in {0, 1}
    /\ toShell # <<>> => Len(toBrain') + Afoot' <= Len(toBrain) + Afoot

Serves ==
    /\ pc = "select" /\ toShell # <<>> /\ toShell' = Tail(toShell) /\ toBrain' = toBrain
    /\ Afoot' = 2 => ~readable

(* A step of run() sends one of the messages it may, or takes a command,   *)
(* unless the connection ends.                                             *)
LEMMA ShellPaces ==
    ASSUME ShellInv, Paced, Talking, Running, ShellTurn, Running'
    PROVE  Keeps \/ Serves
  <1> USE DEF state, sockets, Afoot, SpeakPcs, ReturnPcs, Running
  <1>1. /\ ShellStep /\ brain = "up" /\ TypeOK /\ AsleepMeansDeaf /\ Len(toBrain) <= OutCap
        /\ Len(toBrain) \in Nat /\ idle \in Nat /\ AutoSleepSecs \in Nat
        /\ readable' = (pc = "top" /\ pc' = "select" /\ toShell # <<>>)
        /\ pc = "select" /\ readable => RecvCommand \/ RecvFails
    BY Lengths DEF ShellTurn, ShellStep, ActiveTurn, ShellInv, Talking, Paced, ReadableFirst
  <1>2. CASE Boot \/ BootFails \/ SendFails \/ TranscribeFails \/ LeaveOnRequest
    BY <1>1, <1>2 DEF Boot, BootFails, SendFails, TranscribeFails, LeaveOnRequest, Goto,
                      ReturnErr, Keeps
  <1>3. CASE SendReady
    <2>1. toShell = <<>>
      BY <1>3 DEF SendReady, Paced
    <2>2. pc' = "top" /\ toShell' = toShell /\ Len(toBrain') <= OutCap
      BY <1>1, <1>3, Sent, MessageTypes DEF SendReady
    <2> QED BY <2>1, <2>2 DEF Keeps
  <1>4. CASE IdleNoFrame \/ IdleFrame \/ IdleInferenceFails \/ NotTheWakeWord \/ HearWakeWord
    BY <1>1, <1>4 DEF IdleNoFrame, IdleFrame, IdleInferenceFails, NotTheWakeWord, HearWakeWord,
                      AtIdle, Goto, Keeps
  <1>5. CASE SendWake
    <2>1. mode = "Active" /\ idle = 0
      BY <1>1, <1>5 DEF SendWake, Paced, AsleepMeansDeaf, TypeOK, SessionModes
    <2>2. /\ pc = "sendWake" /\ pc' = "top" /\ toShell' = toShell /\ mode' = mode /\ idle' = idle
          /\ Len(toBrain') <= OutCap /\ Len(toBrain') = Len(toBrain) + 1
      BY <1>1, <1>5, Sent, MessageTypes DEF SendWake
    <2> QED BY <1>1, <2>1, <2>2 DEF Keeps
  <1>6. CASE AutoSleep \/ EnterSelect \/ NoiseHeard \/ SpeechHeard
    <2>1. CASE AutoSleep
      BY <1>1, <2>1 DEF AutoSleep, AtActive, ShouldAutoSleep, Keeps
    <2>2. CASE EnterSelect
      <3>1. pc = "top" /\ pc' = "select" /\ toShell' = toShell /\ toBrain' = toBrain
            /\ mode = "Active" /\ ~(idle > AutoSleepSecs)
        BY <2>2 DEF EnterSelect, AtActive, ShouldAutoSleep
      <3>2. readable' <=> toShell # <<>>
        BY <1>1, <3>1
      <3>3. Afoot' \in {0, 1} /\ (toShell # <<>> => Afoot' = 0)
        BY <3>1, <3>2
      <3>4. Afoot = 0
        BY <1>1, <3>1
      <3> QED BY <1>1, <3>1, <3>3, <3>4 DEF Keeps
    <2>3. CASE NoiseHeard \/ SpeechHeard
      BY <1>1, <2>3 DEF NoiseHeard, SpeechHeard, Keeps
    <2> QED BY <1>6, <2>1, <2>2, <2>3
  <1>7. CASE TimerNoFrame \/ TimerFrame \/ TimerInferenceFails \/ RecvEof
    <2>1. ~readable
      BY <1>1, <1>7 DEF TimerNoFrame, TimerFrame, TimerInferenceFails, RecvEof, RecvCommand,
                        RecvSpeak, RecvSpeakInterruptible, RecvStopSpeaking, RecvSetMicState,
                        RecvConfigure, RecvShutdown, RecvPing, RecvOther, RecvGarbled, Recv,
                        RecvFails, Goto, ReturnErr
    <2> QED
      BY <1>1, <1>7, <2>1 DEF TimerNoFrame, TimerFrame, TimerInferenceFails, RecvEof, Goto,
                              ReturnErr, Keeps
  <1>8. CASE SendSpeech
    <2>1. mode = "Active" /\ idle = 0 /\ UserSpeech(lang) \in ShellMessages
      BY <1>1, <1>8, MessageTypes DEF SendSpeech, Paced, AsleepMeansDeaf, TypeOK, SessionModes
    <2>2. /\ pc = "sendSpeech" /\ pc' = "top" /\ toShell' = toShell /\ mode' = mode /\ idle' = idle
          /\ Len(toBrain') <= OutCap /\ Len(toBrain') = Len(toBrain) + 1
      BY <1>1, <1>8, <2>1, Sent DEF SendSpeech
    <2> QED BY <1>1, <2>1, <2>2 DEF Keeps
  <1>9. CASE RecvFails
    BY <1>9 DEF RecvFails, Goto, ReturnErr
  <1>10. CASE SendPong
    <2>1. mode = "Active"
      BY <1>1, <1>10 DEF SendPong, AsleepMeansDeaf, TypeOK, SessionModes
    <2>2. /\ pc = "sendPong" /\ pc' = "top" /\ toShell' = toShell /\ mode' = mode /\ idle' = idle
          /\ Len(toBrain') <= OutCap /\ Len(toBrain') = Len(toBrain) + 1
      BY <1>1, <1>10, Sent, MessageTypes DEF SendPong
    <2> QED BY <1>1, <2>1, <2>2 DEF Keeps
  <1>11. CASE RecvCommand
    <2>1. pc = "select" /\ toShell # <<>> /\ toShell' = Tail(toShell) /\ toBrain' = toBrain
      BY <1>11 DEF RecvCommand, RecvSpeak, RecvSpeakInterruptible, RecvStopSpeaking,
                   RecvSetMicState, RecvConfigure, RecvShutdown, RecvPing, RecvOther,
                   RecvGarbled, Recv
    <2>2. idle' = idle
      BY <1>11 DEF RecvCommand, RecvSpeak, RecvSpeakInterruptible, RecvStopSpeaking,
                   RecvSetMicState, RecvConfigure, RecvShutdown, RecvPing, RecvOther,
                   RecvGarbled, StartSpeaking
    <2>3. Afoot' = 2 => idle' > AutoSleepSecs
      OBVIOUS
    <2> QED BY <1>1, <2>1, <2>2, <2>3 DEF Serves, Paced
  <1>12. CASE Speaking /\ ~SendBargeIn
    <2>1. mode = "Active" /\ toShell' = toShell /\ toBrain' = toBrain
      BY <1>1, <1>12 DEF Speaking, NothingToPlay, StartPlaying, PlaybackEnds, StartPlayingInt,
                   MonitorFires, PlaybackStopped, PlayedToTheEnd, PlaybackFails,
                   NoInterruption, Interrupted, Goto, AsleepMeansDeaf, TypeOK, SessionModes,
                   ArmPcs, SpeakIntPcs
    <2>2. \/ pc \in SpeakPcs /\ pc' \in SpeakPcs
          \/ pc \in ArmPcs /\ pc' = "top" /\ idle' = 0 /\ mode' = mode
          \/ pc \in SpeakIntPcs /\ pc' \in SpeakIntPcs
      BY <1>12 DEF Speaking, NothingToPlay, StartPlaying, PlaybackEnds, StartPlayingInt,
                   MonitorFires, PlaybackStopped, PlayedToTheEnd, PlaybackFails,
                   NoInterruption, Interrupted, FinishSpeaking, Goto, ArmPcs, SpeakIntPcs
    <2>3. Afoot' \in {0, 1} /\ Afoot' <= Afoot
      BY <1>1, <2>1, <2>2 DEF ArmPcs, SpeakIntPcs
    <2>4. Len(toBrain) + Afoot' <= Len(toBrain) + Afoot
      <3> HIDE DEF Afoot
      <3> QED BY <1>1, <2>3, AfootIs
    <2> QED BY <1>1, <2>1, <2>3, <2>4 DEF Keeps
  <1>13. CASE SendBargeIn
    <2>1. mode = "Active"
      BY <1>1, <1>13 DEF SendBargeIn, AsleepMeansDeaf, TypeOK, SessionModes, ArmPcs, SpeakIntPcs
    <2>2. /\ pc = "sendBargeIn" /\ pc' = "top" /\ toShell' = toShell /\ mode' = mode /\ idle' = 0
          /\ Len(toBrain') <= OutCap /\ Len(toBrain') = Len(toBrain) + 1
      BY <1>1, <1>13, Sent, MessageTypes DEF SendBargeIn, FinishSpeaking
    <2> QED BY <1>1, <2>1, <2>2 DEF Keeps
  <1> QED
    BY <1>1, <1>2, <1>3, <1>4, <1>5, <1>6, <1>7, <1>8, <1>9, <1>10, <1>11, <1>12, <1>13
       DEF ShellStep, IdleTurn, ActiveTurn


LEMMA StillRuns == ASSUME ShellStep PROVE Running
  BY DEF ShellStep, Running, ReturnPcs, Boot, BootFails, SendReady, SendFails, TranscribeFails,
         LeaveOnRequest, IdleTurn, IdleNoFrame, IdleFrame, IdleInferenceFails, NotTheWakeWord,
         HearWakeWord, SendWake, ActiveTurn, AutoSleep, EnterSelect, TimerNoFrame, TimerFrame,
         TimerInferenceFails, NoiseHeard, SpeechHeard, SendSpeech, RecvEof, RecvFails, SendPong,
         RecvCommand, RecvSpeak, RecvSpeakInterruptible, RecvStopSpeaking, RecvSetMicState,
         RecvConfigure, RecvShutdown, RecvPing, RecvOther, RecvGarbled, Recv, Speaking,
         NothingToPlay, StartPlaying, PlaybackEnds, StartPlayingInt, MonitorFires,
         PlaybackStopped, PlayedToTheEnd, PlaybackFails, NoInterruption, Interrupted,
         SendBargeIn, Goto, ReturnErr, AtIdle, AtActive, SendPcs

(* The pace of run() on its way through the loop. *)
LEMMA ShellPaced ==
    ASSUME ShellStep, ShellInv, Paced,
           readable' = (pc = "top" /\ pc' = "select" /\ toShell # <<>>)
    PROVE  /\ pc' \in {"sendWake", "sendSpeech"} => idle' = 0
           /\ pc' = "select" /\ readable' => idle' <= AutoSleepSecs
           /\ pc' \in {"boot", "sendReady"} => pc = "boot" /\ toBrain' = toBrain
  <1> USE DEF state, sockets
  <1>0. idle \in Nat /\ AutoSleepSecs \in Nat
    BY Lengths DEF ShellInv
  <1>1. CASE Boot \/ BootFails \/ SendReady \/ SendFails \/ TranscribeFails \/ LeaveOnRequest
    BY <1>1 DEF Boot, BootFails, SendReady, SendFails, TranscribeFails, LeaveOnRequest, Goto,
                ReturnErr
  <1>2. CASE IdleTurn
    BY <1>2 DEF IdleTurn, IdleNoFrame, IdleFrame, IdleInferenceFails, NotTheWakeWord,
                HearWakeWord, SendWake, Goto, AtIdle
  <1>3. CASE AutoSleep \/ TimerNoFrame \/ TimerFrame \/ TimerInferenceFails
             \/ NoiseHeard \/ SpeechHeard \/ SendSpeech \/ RecvEof \/ RecvFails \/ SendPong
    BY <1>3 DEF AutoSleep, TimerNoFrame, TimerFrame, TimerInferenceFails, AtActive,
                NoiseHeard, SpeechHeard, SendSpeech, RecvEof, RecvFails, SendPong, Goto, ReturnErr
  <1>4. CASE EnterSelect
    BY <1>0, <1>4 DEF EnterSelect, AtActive, ShouldAutoSleep
  <1>5. CASE RecvCommand
    BY <1>5 DEF RecvCommand, RecvSpeak, RecvSpeakInterruptible, RecvStopSpeaking,
                RecvSetMicState, RecvConfigure, RecvShutdown, RecvPing, RecvOther,
                RecvGarbled, StartSpeaking
  <1>6. CASE Speaking
    BY <1>6 DEF Speaking, NothingToPlay, StartPlaying, PlaybackEnds, StartPlayingInt,
                MonitorFires, PlaybackStopped, PlayedToTheEnd, PlaybackFails, NoInterruption,
                Interrupted, SendBargeIn, FinishSpeaking, Goto
  <1> QED BY <1>1, <1>2, <1>3, <1>4, <1>5, <1>6 DEF ShellStep, ActiveTurn

LEMMA StaysGone == ASSUME ShellStep, brain # "up" PROVE brain' # "up"
  BY DEF ShellStep, sockets, Boot, BootFails, SendReady, SendFails, TranscribeFails,
         LeaveOnRequest, IdleTurn, IdleNoFrame, IdleFrame, IdleInferenceFails, NotTheWakeWord,
         HearWakeWord, SendWake, ActiveTurn, AutoSleep, EnterSelect, TimerNoFrame, TimerFrame,
         TimerInferenceFails, NoiseHeard, SpeechHeard, SendSpeech, RecvEof, RecvFails, SendPong,
         RecvCommand, RecvSpeak, RecvSpeakInterruptible, RecvStopSpeaking, RecvSetMicState,
         RecvConfigure, RecvShutdown, RecvPing, RecvOther, RecvGarbled, Recv, Speaking,
         NothingToPlay, StartPlaying, PlaybackEnds, StartPlayingInt, MonitorFires,
         PlaybackStopped, PlayedToTheEnd, PlaybackFails, NoInterruption, Interrupted,
         SendBargeIn, Goto, ReturnErr, Send

LEMMA ShellKeepsPace ==
    ASSUME ShellInv, InPace, ShellTurn
    PROVE  InPace'
  <1> SUFFICES ASSUME Talking', Running' PROVE Paced' /\ Room'
    BY DEF InPace
  <1>1. /\ ShellStep /\ readable' = (pc = "top" /\ pc' = "select" /\ toShell # <<>>)
        /\ UNCHANGED <<step, call, msg, result, woken>>
    BY DEF ShellTurn, ShellStep, ActiveTurn, brainVars
  <1>2. Talking
    <2>1. brain = "up"
      BY <1>1, StaysGone DEF Talking
    <2> QED BY <1>1, <2>1 DEF Talking
  <1>3. Running /\ Paced /\ Room
    BY <1>1, <1>2, StillRuns DEF InPace
  <1>4. Keeps \/ Serves
    BY <1>2, <1>3, ShellPaces
  <1>5. Turn' = Turn
    BY <1>1 DEF Turn, Heard
  <1>6. /\ Len(toBrain) \in Nat /\ Len(toShell) \in Nat /\ InCap \in Nat \ {0} /\ OutCap \in Nat
        /\ (toShell # <<>> <=> Len(toShell) > 0) /\ Afoot \in {0, 1, 2}
        /\ TypeOK /\ Len(toBrain) <= OutCap /\ Len(toShell) <= InCap
    BY <1>3, Lengths, AfootIs DEF ShellInv, Paced
  <1>7. CASE Keeps
    <2>1. Len(toBrain') <= OutCap /\ Len(toShell') <= InCap
      BY <1>6, <1>7 DEF Keeps
    <2>2. Room'
      BY <1>3, <1>5, <1>6, <1>7 DEF Room, Keeps
    <2> QED BY <1>1, <1>3, <1>7, <2>1, <2>2, ShellPaced DEF Paced, Keeps
  <1>8. CASE Serves
    <2>1. toBrain' = toBrain /\ Len(toShell') = Len(toShell) - 1
      BY <1>6, <1>8 DEF Serves, TypeOK
    <2>2. Afoot' = 2 => Afoot = 1
      BY <1>8 DEF Serves, Afoot, SpeakPcs
    <2>3. Room'
      BY <1>3, <1>5, <1>6, <2>1, <2>2 DEF Room
    <2> QED BY <1>1, <1>3, <1>6, <1>8, <2>1, <2>3, ShellPaced DEF Paced, Serves
  <1> QED BY <1>4, <1>7, <1>8


(* What the brain does makes room before it makes a request.               *)
LEMMA BrainKeepsPace ==
    ASSUME ShellInv, InPace, BrainActs \/ TimesOut \/ SecondPasses
    PROVE  InPace'
  <1> SUFFICES ASSUME Talking', Running' PROVE Paced' /\ Room'
    BY DEF InPace
  <1> USE DEF state, sockets, Talking
  <1>1. CASE SecondPasses
    <2>1. /\ UNCHANGED <<pc, mode, toShell, toBrain, brain, brainVars, readable>>
          /\ ~OnItsWay /\ idle' = idle + 1
      BY <1>1 DEF SecondPasses, Tick
    <2>2. Paced /\ Room
      BY <2>1 DEF InPace, Running, brainVars
    <2>3. Paced'
      BY <2>1, <2>2 DEF Paced, brainVars, OnItsWay, ReadableFirst, SendPcs
    <2>4. Afoot' = Afoot
      BY <2>1 DEF Afoot, OnItsWay, SendPcs
    <2>5. Turn' = Turn
      BY <2>1 DEF Turn, Heard, brainVars
    <2> QED BY <2>1, <2>2, <2>3, <2>4, <2>5 DEF Room
  <1>2. CASE ~SecondPasses
    <2>1. UNCHANGED <<pc, mode, idle, readable, brain>> /\ Running
      <3>1. CASE BrainCalls \/ Receives \/ Closes
        BY <3>1 DEF BrainCalls, Receives, Closes, BrainCloses, vars, Running
      <3>2. CASE SendsRequest
        BY <3>2 DEF SendsRequest, Hands, Ends, Running
      <3>3. CASE Reacts \/ Raises \/ TimesOut
        BY <3>3 DEF Reacts, Raises, TimesOut, Ends, vars, Running
      <3> QED BY <1>2, <3>1, <3>2, <3>3 DEF BrainActs
    <2>2. Talking
      <3>1. CASE BrainCalls \/ Receives
        BY <3>1 DEF BrainCalls, Receives
      <3>2. CASE SendsRequest
        BY <3>2 DEF SendsRequest, Hands
      <3>3. CASE Reacts \/ Raises \/ TimesOut
        BY <2>1, <3>3 DEF Reacts, Raises, TimesOut
      <3>4. CASE Closes
        BY <3>4 DEF Closes, BrainCloses
      <3> QED BY <1>2, <3>1, <3>2, <3>3, <3>4 DEF BrainActs
    <2>3. Paced /\ Room
      BY <2>1, <2>2 DEF InPace
    <2>4. Afoot' = Afoot
      BY <2>1 DEF Afoot
    <2>5. /\ Len(toBrain) \in Nat /\ Len(toShell) \in Nat /\ InCap \in Nat \ {0} /\ OutCap \in Nat
          /\ Afoot \in {0, 1, 2} /\ TypeOK /\ Len(toBrain) <= OutCap /\ Len(toShell) <= InCap
      BY <2>3, Lengths, AfootIs DEF ShellInv, Paced
    <2>6. CASE BrainCalls
      <3>1. /\ UNCHANGED <<toShell, toBrain, result, woken>> /\ pc # "boot" /\ step = "out"
            /\ \/ step' = "recv" /\ (woken \/ call' = "wait_for_wake_word")
               \/ step' = "send" /\ call' \in DOMAIN Request /\ Heard /\ woken
        BY <2>6 DEF BrainCalls, InTurn, vars, Request
      <3>2. Turn' => Turn
        BY <3>1 DEF Turn
      <3>3. Paced'
        BY <2>1, <2>3, <3>1 DEF Paced
      <3> QED BY <2>3, <2>4, <3>1, <3>2, <3>3 DEF Room
    <2>7. CASE SendsRequest
      <3>1. /\ toBrain' = toBrain /\ Len(toShell') = Len(toShell) + 1 /\ step = "send"
            /\ Len(toShell) < InCap /\ call' = call
        BY <2>5, <2>7 DEF SendsRequest, Hands, Ends, TypeOK
      <3>2. step' \in {"recv", "out"}
        BY <2>7 DEF SendsRequest, Ends
      <3>3. Turn /\ ~Turn'
        BY <2>3, <3>1, <3>2 DEF Turn, Heard, Paced
      <3>4. Room'
        BY <2>3, <2>4, <2>5, <3>1, <3>3 DEF Room
      <3> QED BY <2>1, <2>3, <2>5, <3>1, <3>2, <3>4 DEF Paced
    <2>8. CASE Receives
      <3>1. /\ toShell' = toShell /\ Len(toBrain') = Len(toBrain) - 1 /\ toBrain # <<>>
            /\ step' = "got"
        BY <2>5, <2>8 DEF Receives, TypeOK
      <3>2. Room'
        BY <2>3, <2>4, <2>5, <3>1 DEF Room
      <3> QED BY <2>1, <2>3, <2>5, <3>1, <3>2 DEF Paced
    <2>9. CASE Reacts
      <3>1. toShell' = toShell /\ toBrain' = toBrain /\ step = "got" /\ call' = call
            /\ step' \in {"out", "recv"}
        BY <2>9 DEF Reacts, Ends, vars
      <3>2. Turn' => Turn
        BY <3>1 DEF Turn, Heard
      <3>3. Room'
        BY <2>3, <2>4, <3>1, <3>2 DEF Room
      <3> QED BY <2>1, <2>3, <3>1, <3>3 DEF Paced
    <2>10. CASE TimesOut
      <3>1. /\ toShell' = toShell /\ toBrain' = toBrain /\ call' = call /\ step' = "out"
            /\ result' = "timeout"
        BY <2>10 DEF TimesOut, Ends, vars
      <3>2. ~woken => ~woken'
        BY <2>10, Zenon DEF TimesOut, Ends
      <3>3. ~Turn'
        BY <3>1 DEF Turn, Heard
      <3>4. Room'
        BY <2>3, <2>4, <2>5, <3>1, <3>3 DEF Room
      <3> QED BY <2>1, <2>3, <3>1, <3>2, <3>4 DEF Paced
    <2>11. CASE Raises \/ Closes
      BY <2>1, <2>11 DEF Raises, Closes, BrainCloses
    <2> QED BY <1>2, <2>6, <2>7, <2>8, <2>9, <2>10, <2>11 DEF BrainActs
  <1> QED BY <1>1, <1>2

(* Shell and brain are never both in a send to a full socket, for every    *)
(* size of either, every limit and every brain that takes its turns.       *)
THEOREM NeverBothStuck == SystemSpec => []NoStandoff
  <1>1. SystemInit => InPace
    <2> SUFFICES ASSUME SystemInit PROVE Paced /\ Room
      BY DEF InPace
    <2>1. /\ pc = "boot" /\ toShell = <<>> /\ toBrain = <<>> /\ step = "out" /\ woken = FALSE
          /\ InCap \in Nat \ {0} /\ OutCap \in Nat \ {0} /\ call = "none" /\ ~readable
      BY ShellAssumption DEF SystemInit, Init
    <2>2. Len(toShell) = 0 /\ Len(toBrain) = 0 /\ Afoot = 1
      BY <2>1 DEF Afoot, SpeakPcs
    <2> QED BY <2>1, <2>2 DEF Paced, Room
  <1>2. ShellInv /\ InPace /\ [SystemNext]_systemVars => InPace'
    <2> SUFFICES ASSUME ShellInv, InPace, [SystemNext]_systemVars PROVE InPace'
      OBVIOUS
    <2>1. CASE Disconnects
      BY <2>1 DEF Disconnects, InPace, Talking
    <2>2. CASE Dies
      BY <2>2 DEF Dies, BrainCloses, InPace, Talking
    <2>3. CASE UNCHANGED systemVars
      BY <2>3 DEF systemVars, vars, brainVars, InPace, Talking, Running, Paced, Room, Turn, Heard,
                  Afoot
    <2> QED BY <2>1, <2>2, <2>3, ShellKeepsPace, BrainKeepsPace DEF SystemNext
  <1>3. ShellInv /\ InPace => NoStandoff
    <2> SUFFICES ASSUME ShellInv, Talking => Paced /\ Room, brain = "up", step = "send",
                        pc \in SendPcs, Len(toBrain) = OutCap, Len(toShell) = InCap
                 PROVE  FALSE
      BY DEF InPace, NoStandoff, Running, ReturnPcs, SendPcs
    <2>1. Len(toBrain) + Afoot <= OutCap
      BY DEF Talking, Room, Turn
    <2>2. Afoot >= 1 /\ Afoot \in {0, 1, 2} /\ OutCap \in Nat
      BY AfootIs, ShellAssumption
    <2> QED BY <2>1, <2>2
  <1>4. SystemSpec => []ShellInv
    <2>1. Spec => []ShellInv
      BY InitInv, NextInv, PTL DEF Spec
    <2> QED BY <2>1, WithTheBridge, PTL
  <1> QED BY <1>1, <1>2, <1>3, <1>4, PTL DEF SystemSpec

-----------------------------------------------------------------------------
(* Shell and brain meet as BridgeProtocol lets a caller and a socket meet. *)

(* There is nothing between them before run() has a connection, and a      *)
(* brain that is gone is in no call.                                       *)
Unmet ==
    /\ pc = "boot" => step = "out" /\ toShell = <<>> /\ toBrain = <<>> /\ brain = "up"
    /\ brain = "gone" => step = "out"

(* All a step of run() does to the sockets and to the connection: nothing, *)
(* a command taken, or a message sent; and it may return.                  *)
Leaves == UNCHANGED sockets
Takes  == toShell # <<>> /\ toShell' = Tail(toShell) /\ UNCHANGED <<toBrain, brain>>
Tells  ==
    /\ brain = "up" /\ Running'
    /\ \E m \in ShellMessages : toBrain' = Append(toBrain, m)
    /\ UNCHANGED <<toShell, brain>>

LEMMA ShellSends ==
    ASSUME ShellInv,
           SendReady \/ SendWake \/ SendSpeech \/ SendBargeIn \/ SendPong
    PROVE  Leaves \/ Tells
  <1>1. lang \in Languages
    BY DEF ShellInv, TypeOK
  <1>2. pc' = "top"
    BY DEF SendReady, SendWake, SendSpeech, SendBargeIn, SendPong, FinishSpeaking
  <1>3. \E m \in ShellMessages : Send(m)
    BY <1>1, MessageTypes DEF SendReady, SendWake, SendSpeech, SendBargeIn, SendPong
  <1> QED BY <1>2, <1>3 DEF Send, Leaves, Tells, sockets, Running, ReturnPcs

LEMMA ShellMeets ==
    ASSUME ShellInv, ShellStep
    PROVE  /\ Running /\ pc' # "boot"
           /\ Leaves \/ (Takes /\ pc # "boot") \/ (Tells /\ pc # "boot")
  <1> USE DEF sockets, state
  <1>1. CASE SendReady \/ SendWake \/ SendSpeech \/ SendBargeIn \/ SendPong
    BY <1>1, ShellSends, Booted, StillRuns
       DEF SendReady, SendWake, SendSpeech, SendBargeIn, SendPong
  <1>2. CASE Boot \/ BootFails \/ SendFails \/ TranscribeFails \/ LeaveOnRequest
    BY <1>2, StillRuns DEF Boot, BootFails, SendFails, TranscribeFails, LeaveOnRequest, Goto,
                ReturnErr, Leaves, SendPcs
  <1>3. CASE IdleTurn /\ ~SendWake
    BY <1>3, StillRuns DEF IdleTurn, IdleNoFrame, IdleFrame, IdleInferenceFails, NotTheWakeWord,
                HearWakeWord, Goto, AtIdle, Leaves
  <1>4. CASE AutoSleep \/ EnterSelect \/ TimerNoFrame \/ TimerFrame \/ TimerInferenceFails
             \/ NoiseHeard \/ SpeechHeard \/ RecvEof \/ RecvFails
    BY <1>4, StillRuns DEF AutoSleep, EnterSelect, TimerNoFrame, TimerFrame, TimerInferenceFails,
                AtActive, NoiseHeard, SpeechHeard, RecvEof, RecvFails, Goto, ReturnErr, Leaves
  <1>5. CASE RecvCommand
    BY <1>5, StillRuns DEF RecvCommand, RecvSpeak, RecvSpeakInterruptible, RecvStopSpeaking,
                RecvSetMicState, RecvConfigure, RecvShutdown, RecvPing, RecvOther,
                RecvGarbled, Recv, StartSpeaking, Takes
  <1>6. CASE Speaking /\ ~SendBargeIn
    BY <1>6, StillRuns DEF Speaking, NothingToPlay, StartPlaying, PlaybackEnds, StartPlayingInt,
                MonitorFires, PlaybackStopped, PlayedToTheEnd, PlaybackFails, NoInterruption,
                Interrupted, FinishSpeaking, Goto, Leaves
  <1> QED BY <1>1, <1>2, <1>3, <1>4, <1>5, <1>6 DEF ShellStep, IdleTurn, ActiveTurn

LEMMA StaysUnmet ==
    ASSUME ShellInv, Unmet, [SystemNext]_systemVars
    PROVE  Unmet'
  <1> USE DEF Unmet
  <1>1. CASE ShellTurn
    <2>1. ShellStep /\ UNCHANGED brainVars
      BY <1>1 DEF ShellTurn, ShellStep, ActiveTurn
    <2>2. pc' # "boot" /\ brain' = brain
      BY <2>1, ShellMeets DEF Leaves, Takes, Tells, sockets
    <2> QED BY <2>1, <2>2 DEF brainVars
  <1>2. CASE SecondPasses
    BY <1>2 DEF SecondPasses, Tick, sockets, brainVars
  <1>3. CASE BrainCalls \/ Receives
    BY <1>3 DEF BrainCalls, Receives, vars
  <1>4. CASE SendsRequest
    BY <1>4 DEF SendsRequest, Hands
  <1>5. CASE Reacts \/ TimesOut \/ Raises
    BY <1>5 DEF Reacts, TimesOut, Raises, Ends, vars
  <1>6. CASE Disconnects
    BY <1>6 DEF Disconnects
  <1>7. CASE Closes \/ Dies
    BY <1>7 DEF Closes, Dies, BrainCloses, Ends
  <1>8. CASE UNCHANGED systemVars
    BY <1>8 DEF systemVars, vars, brainVars
  <1> QED BY <1>1, <1>2, <1>3, <1>4, <1>5, <1>6, <1>7, <1>8 DEF SystemNext, BrainActs

(* A queue of messages, as the types of its messages. *)
LEMMA TypesAppended ==
    ASSUME NEW S, NEW q \in Seq(S), NEW m \in S
    PROVE  TypesOf(Append(q, m)) = Append(TypesOf(q), m.type)
  <1>1. TypesOf(q) \in Seq({c.type : c \in S}) /\ Len(TypesOf(q)) = Len(q)
    BY DEF TypesOf
  <1> QED BY <1>1 DEF TypesOf

LEMMA TypesTaken ==
    ASSUME NEW S, NEW q \in Seq(S), q # <<>>
    PROVE  /\ TypesOf(q) # <<>> /\ Head(TypesOf(q)) = Head(q).type
           /\ TypesOf(Tail(q)) = Tail(TypesOf(q))
  <1>1. TypesOf(q) \in Seq({c.type : c \in S}) /\ Len(TypesOf(q)) = Len(q)
    BY DEF TypesOf
  <1> QED BY <1>1 DEF TypesOf

-----------------------------------------------------------------------------
(* What the brain is seen to do. *)
Doing ==
    IF step \in {"out", "closing"} THEN Bridge!Out
    ELSE [step |-> step, call |-> call, msg |-> msg]

LEMMA CallerIs ==
    /\ Caller = [t \in {"brain"} |-> Doing]
    /\ Caller["brain"] = Doing
    /\ Bridge!AllOut <=> Doing = Bridge!Out
  BY DEF Caller, Doing, Bridge!Out, Bridge!AllOut

LEMMA CallerBecomes ==
    ASSUME NEW d, Doing' = d
    PROVE  Caller' = [Caller EXCEPT !["brain"] = d]
  <1>1. Caller' = [t \in {"brain"} |-> d]
    BY DEF Caller, Doing, Bridge!Out
  <1> QED BY <1>1, CallerIs

LEMMA TurnsTo ==
    ASSUME NEW s, NEW m, Doing' = [step |-> s, call |-> Doing.call, msg |-> m]
    PROVE  Bridge!Turn("brain", s, m)
  BY CallerIs, CallerBecomes DEF Bridge!Turn

LEMMA QuitsIf ==
    ASSUME Doing' = Bridge!Out
    PROVE  Bridge!Quit("brain")
  BY CallerBecomes DEF Bridge!Quit

(* Both speak of the same calls. *)
LEMMA SameBridgeCalls ==
    /\ Bridge!Request = Request
    /\ \A c, m : Bridge!Reaction(c, m) = Reaction(c, m)
  BY DEF Bridge!Request, Request, Bridge!Reaction, Reaction

(* Whatever run() does. *)
LEMMA ShellMeetsBridge ==
    ASSUME ShellInv, Unmet, ShellTurn
    PROVE  [Bridge!Next]_(Bridge!vars)
  <1>1. /\ ShellStep /\ UNCHANGED <<step, call, msg>> /\ TypeOK
        /\ Running /\ pc' # "boot"
        /\ Leaves \/ (Takes /\ pc # "boot") \/ (Tells /\ pc # "boot")
    BY ShellMeets DEF ShellTurn, ShellStep, ActiveTurn, ShellInv, brainVars
  <1>2. Caller' = Caller /\ brain \in {"up", "gone"} /\ brain' = brain
    BY <1>1 DEF Caller, Leaves, Takes, Tells, sockets, TypeOK
  <1>3. toShell \in Seq(Commands) /\ toBrain \in Seq(ShellMessages)
    BY <1>1 DEF TypeOK
  <1>4. CASE pc = "boot"
    <2>1. /\ step = "out" /\ toShell = <<>> /\ toBrain = <<>> /\ brain = "up"
          /\ toShell' = <<>> /\ toBrain' = <<>>
      BY <1>1, <1>4 DEF Unmet, Leaves, sockets
    <2>2. TypesOf(toShell)' = <<>> /\ TypesOf(toBrain)' = <<>>
      BY <2>1 DEF TypesOf
    <2>3. Link' \in {"up", "closed"}
      BY <1>1, <1>2, <2>1 DEF Link
    <2>4. Bridge!AllOut
      BY <2>1, CallerIs DEF Doing
    <2>5. Bridge!Connect
      BY <1>2, <2>2, <2>3, <2>4 DEF Bridge!Connect
    <2> QED BY <2>5 DEF Bridge!Next
  <1>5. CASE pc # "boot" /\ Leaves
    <2>1. TypesOf(toShell)' = TypesOf(toShell) /\ TypesOf(toBrain)' = TypesOf(toBrain)
      BY <1>5 DEF Leaves, sockets, TypesOf
    <2>2. Link' = Link \/ (Link = "up" /\ Link' = "closed")
      BY <1>1, <1>2, <1>5 DEF Link
    <2> QED BY <1>2, <2>1, <2>2 DEF Bridge!Next, Bridge!vars, Bridge!ShellCloses
  <1>6. CASE pc # "boot" /\ Takes
    <2>1. /\ TypesOf(toShell) # <<>> /\ TypesOf(toShell)' = Tail(TypesOf(toShell))
          /\ TypesOf(toBrain)' = TypesOf(toBrain)
      <3>1. TypesOf(toShell)' = TypesOf(Tail(toShell)) /\ TypesOf(toBrain)' = TypesOf(toBrain)
        BY <1>6 DEF Takes, TypesOf
      <3> QED BY <1>3, <1>6, <3>1, TypesTaken DEF Takes
    <2>2. Link' = Link \/ (Link = "up" /\ Link' = "closed")
      BY <1>1, <1>2, <1>6 DEF Link
    <2>3. Bridge!ShellReads
      BY <1>2, <2>1, <2>2 DEF Bridge!ShellReads
    <2> QED BY <2>3 DEF Bridge!Next
  <1>7. CASE pc # "boot" /\ Tells
    <2>1. PICK m \in ShellMessages : toBrain' = Append(toBrain, m)
      BY <1>7 DEF Tells
    <2>2. /\ TypesOf(toBrain)' = Append(TypesOf(toBrain), m.type)
          /\ TypesOf(toShell)' = TypesOf(toShell)
      <3>1. TypesOf(toBrain)' = TypesOf(Append(toBrain, m)) /\ TypesOf(toShell)' = TypesOf(toShell)
        BY <1>7, <2>1 DEF Tells, TypesOf
      <3> QED BY <1>3, <3>1, TypesAppended
    <2>3. Link \in {"up", "leaving"} /\ Link' = Link
      BY <1>1, <1>2, <1>7 DEF Link, Tells
    <2>4. Bridge!ShellSays
      BY <1>2, <2>2, <2>3 DEF Bridge!ShellSays
    <2> QED BY <2>4 DEF Bridge!Next
  <1> QED BY <1>1, <1>4, <1>5, <1>6, <1>7

(* Whatever the brain does. *)
LEMMA BrainMeetsBridge ==
    ASSUME TypeOK, Unmet, BrainActs \/ TimesOut \/ Disconnects \/ Dies
    PROVE  Bridge!Next
  <1> USE DEF state
  <1>1. toShell \in Seq(Commands) /\ toBrain \in Seq(ShellMessages)
    BY DEF TypeOK
  <1>2. CASE BrainCalls
    <2>1. /\ brain = "up" /\ pc # "boot" /\ step = "out" /\ UNCHANGED vars
          /\ Doing = Bridge!Out
      BY <1>2 DEF BrainCalls, Doing
    <2>2. PICK m \in Methods :
            /\ call' = m
            /\ IF m \in DOMAIN Request THEN step' = "send" /\ msg' = Request[m]
                                       ELSE step' = "recv" /\ msg' = "none"
      BY <1>2 DEF BrainCalls
    <2>3. Doing' = IF m \in DOMAIN Request
                   THEN [step |-> "send", call |-> m, msg |-> Request[m]]
                   ELSE [step |-> "recv", call |-> m, msg |-> "none"]
      BY <2>2 DEF Doing
    <2>4. Caller' = [Caller EXCEPT !["brain"] = IF m \in DOMAIN Request
                   THEN [step |-> "send", call |-> m, msg |-> Request[m]]
                   ELSE [step |-> "recv", call |-> m, msg |-> "none"]]
      BY <2>3, CallerBecomes
    <2>5. Bridge!Connected /\ Link' = Link
      BY <2>1, <2>2 DEF Link, Bridge!Connected, vars, Running
    <2>6. TypesOf(toShell)' = TypesOf(toShell) /\ TypesOf(toBrain)' = TypesOf(toBrain)
      BY <2>1 DEF vars, TypesOf
    <2>7. Caller["brain"].step = "out"
      BY <2>1, CallerIs DEF Bridge!Out
    <2>8. Bridge!Call("brain")
      BY <2>4, <2>5, <2>6, <2>7, SameBridgeCalls DEF Bridge!Call
    <2> QED BY <2>8 DEF Bridge!Next
  <1>3. CASE SendsRequest
    <2>1. PICK c \in Commands : c.type = msg /\ Hands(c)
      BY <1>3 DEF SendsRequest
    <2>2. /\ step = "send" /\ toBrain' = toBrain /\ brain' = brain /\ pc' = pc
          /\ toShell' = Append(toShell, c) /\ step' \in {"recv", "out"}
      BY <1>3, <2>1 DEF SendsRequest, Hands, Ends
    <2>3. Doing = [step |-> "send", call |-> call, msg |-> msg] /\ Caller["brain"] = Doing
      BY <2>2, CallerIs DEF Doing
    <2>4. msg # "Pong"
      BY <2>1, ShellAssumption DEF BrainCommands, Plain, SetMicState, Configure
    <2>5. Bridge!Answered("brain") <=> call \in {"ping", "speak_interruptible"}
      BY <2>3, <2>4 DEF Bridge!Answered
    <2>6. IF Bridge!Answered("brain") THEN Bridge!Turn("brain", "recv", "none")
                                      ELSE Bridge!Quit("brain")
      <3>1. CASE call \in {"ping", "speak_interruptible"}
        <4>1. Doing' = [step |-> "recv", call |-> Doing.call, msg |-> "none"]
          BY <1>3, <2>3, <3>1 DEF SendsRequest, Doing
        <4> QED BY <4>1, <2>5, <3>1, TurnsTo
      <3>2. CASE call \notin {"ping", "speak_interruptible"}
        <4>1. Doing' = Bridge!Out
          BY <1>3, <3>2 DEF SendsRequest, Ends, Doing
        <4> QED BY <4>1, <2>5, <3>2, QuitsIf
      <3> QED BY <3>1, <3>2
    <2>7. /\ TypesOf(toShell)' = Append(TypesOf(toShell), Caller["brain"].msg)
          /\ TypesOf(toBrain)' = TypesOf(toBrain) /\ Link' = Link
      <3>1. TypesOf(toShell)' = TypesOf(Append(toShell, c)) /\ TypesOf(toBrain)' = TypesOf(toBrain)
        BY <2>2 DEF TypesOf
      <3>2. Link' = Link
        BY <2>2 DEF Link, Running
      <3> QED BY <1>1, <2>1, <2>3, <3>1, <3>2, TypesAppended
    <2>8. Bridge!Say("brain")
      BY <2>2, <2>3, <2>6, <2>7 DEF Bridge!Say
    <2> QED BY <2>8 DEF Bridge!Next
  <1>4. CASE Receives
    <2>1. /\ step = "recv" /\ step' = "got" /\ toBrain # <<>> /\ toBrain' = Tail(toBrain)
          /\ toShell' = toShell /\ brain' = brain /\ pc' = pc /\ call' = call
          /\ msg' = Head(toBrain).type
      BY <1>4 DEF Receives
    <2>2. Doing = [step |-> "recv", call |-> call, msg |-> msg] /\ Caller["brain"] = Doing
      BY <2>1, CallerIs DEF Doing
    <2>3. /\ TypesOf(toBrain) # <<>> /\ TypesOf(toBrain)' = Tail(TypesOf(toBrain))
          /\ Head(TypesOf(toBrain)) = msg' /\ TypesOf(toShell)' = TypesOf(toShell)
      <3>1. TypesOf(toBrain)' = TypesOf(Tail(toBrain)) /\ TypesOf(toShell)' = TypesOf(toShell)
        BY <2>1 DEF TypesOf
      <3> QED BY <1>1, <2>1, <3>1, TypesTaken
    <2>4. Doing' = [step |-> "got", call |-> Doing.call, msg |-> Head(TypesOf(toBrain))]
      BY <2>1, <2>2, <2>3 DEF Doing
    <2>5. Link' = Link
      BY <2>1 DEF Link, Running
    <2>6. Bridge!Hear("brain")
      BY <2>2, <2>3, <2>4, <2>5, TurnsTo DEF Bridge!Hear
    <2> QED BY <2>6 DEF Bridge!Next
  <1>5. CASE Reacts
    <2>1. step = "got" /\ step' \in {"out", "recv"} /\ UNCHANGED vars
      BY <1>5 DEF Reacts, Ends
    <2>2. Doing = [step |-> "got", call |-> call, msg |-> msg] /\ Caller["brain"] = Doing
      BY <2>1, CallerIs DEF Doing
    <2>3. /\ TypesOf(toShell)' = TypesOf(toShell) /\ TypesOf(toBrain)' = TypesOf(toBrain)
          /\ Link' = Link
      BY <2>1 DEF vars, TypesOf, Link, Running
    <2>4. CASE Reaction(call, msg) = "again"
      <3>1. Doing' = [step |-> "recv", call |-> Doing.call, msg |-> "none"]
        BY <1>5, <2>2, <2>4 DEF Reacts, Doing
      <3> QED BY <3>1, <2>2, <2>3, <2>4, TurnsTo, SameBridgeCalls DEF Bridge!React, Bridge!Next
    <2>5. CASE Reaction(call, msg) \in {"return", "raise"}
      <3>1. Doing' = Bridge!Out
        BY <1>5, <2>5 DEF Reacts, Ends, Doing
      <3> QED BY <3>1, <2>2, <2>3, <2>5, QuitsIf, SameBridgeCalls DEF Bridge!React, Bridge!Next
    <2> QED BY <1>5, <2>4, <2>5 DEF Reacts
  <1>6. CASE TimesOut \/ Raises
    <2>1. step \in {"send", "recv"} /\ step' = "out" /\ UNCHANGED vars
      BY <1>6 DEF TimesOut, Raises, Ends
    <2>2. Caller["brain"].step = step
      BY <2>1, CallerIs DEF Doing
    <2>3. Bridge!Quit("brain")
      <3>1. Doing' = Bridge!Out
        BY <2>1 DEF Doing
      <3> QED BY <3>1, QuitsIf
    <2>4. /\ TypesOf(toShell)' = TypesOf(toShell) /\ TypesOf(toBrain)' = TypesOf(toBrain)
          /\ Link' = Link
      BY <2>1 DEF vars, TypesOf, Link, Running
    <2>5. Bridge!GiveUp("brain")
      BY <2>1, <2>2, <2>3, <2>4 DEF Bridge!GiveUp
    <2> QED BY <2>5 DEF Bridge!Next
  <1>7. CASE Disconnects
    <2>1. /\ brain = "up" /\ pc # "boot" /\ step = "out" /\ step' = "closing"
          /\ toBrain' = toBrain /\ brain' = brain /\ pc' = pc
      BY <1>7 DEF Disconnects
    <2>2. Bridge!AllOut /\ Caller' = Caller
      BY <2>1, CallerIs DEF Doing, Caller
    <2>3. Bridge!Connected /\ Link' = "leaving" /\ TypesOf(toBrain)' = TypesOf(toBrain)
      BY <2>1 DEF Bridge!Connected, Link, Running, TypesOf
    <2>4. \/ TypesOf(toShell)' = Append(TypesOf(toShell), "Shutdown")
          \/ TypesOf(toShell)' = TypesOf(toShell)
      <3>1. CASE Running
        <4>1. toShell' = Append(toShell, Plain("Shutdown"))
          BY <1>7, <3>1 DEF Disconnects
        <4>2. TypesOf(toShell)' = TypesOf(Append(toShell, Plain("Shutdown")))
          BY <4>1 DEF TypesOf
        <4>3. Plain("Shutdown").type = "Shutdown"
          BY DEF Plain
        <4> QED BY <1>1, <4>2, <4>3, MethodsAssumption, TypesAppended
      <3>2. CASE ~Running
        BY <1>7, <3>2 DEF Disconnects, TypesOf
      <3> QED BY <3>1, <3>2
    <2>5. Bridge!Farewell
      BY <2>2, <2>3, <2>4 DEF Bridge!Farewell
    <2> QED BY <2>3, <2>5 DEF Bridge!Disconnect, Bridge!Next
  <1>8. CASE Closes \/ Dies
    <2>1. /\ brain = "up" /\ pc # "boot" /\ step' = "out" /\ brain' = "gone"
          /\ toBrain' = <<>> /\ toShell' = toShell
      BY <1>8 DEF Closes, Dies, BrainCloses, Ends
    <2>2. TypesOf(toShell)' = TypesOf(toShell)
      BY <2>1 DEF TypesOf
    <2>3. Bridge!Hangup
      BY <2>1 DEF Bridge!Hangup, Link, TypesOf
    <2>4. Caller' = [t \in {"brain"} |-> Bridge!Out]
      BY <2>1 DEF Caller, Bridge!Out
    <2>5. Bridge!Die
      BY <2>2, <2>3, <2>4 DEF Bridge!Die
    <2> QED BY <2>5 DEF Bridge!Next
  <1> QED BY <1>2, <1>3, <1>4, <1>5, <1>6, <1>7, <1>8 DEF BrainActs

(* Every behaviour of shell and brain is one of the protocol that          *)
(* BrainBridge implements, with nothing ever torn or broken.               *)
THEOREM MeetingFollowsProtocol == SystemSpec => MeetsAsBridge
  <1>1. SystemInit => Unmet /\ Bridge!Init
    BY DEF SystemInit, Init, Unmet, Bridge!Init, Link, Caller, TypesOf, Bridge!Out
  <1>2. ShellInv /\ Unmet /\ [SystemNext]_systemVars => Unmet'
    BY StaysUnmet
  <1>3. ShellInv /\ Unmet /\ [SystemNext]_systemVars => [Bridge!Next]_(Bridge!vars)
    <2> SUFFICES ASSUME ShellInv, Unmet, [SystemNext]_systemVars
                 PROVE  [Bridge!Next]_(Bridge!vars)
      OBVIOUS
    <2>1. CASE SecondPasses \/ UNCHANGED systemVars
      <3>1. UNCHANGED <<pc, toShell, toBrain, brain, step, call, msg>>
        BY <2>1 DEF SecondPasses, Tick, systemVars, vars, brainVars, sockets
      <3> QED BY <3>1 DEF Bridge!vars, Link, Caller, TypesOf, Running
    <2> QED BY <2>1, ShellMeetsBridge, BrainMeetsBridge DEF SystemNext, ShellInv
  <1>4. SystemSpec => []ShellInv
    <2>1. Spec => []ShellInv
      BY InitInv, NextInv, PTL DEF Spec
    <2> QED BY <2>1, WithTheBridge, PTL
  <1> QED BY <1>1, <1>2, <1>3, <1>4, PTL DEF SystemSpec, MeetsAsBridge, Bridge!Spec
=============================================================================
