----------------------- MODULE VoiceShellProperties ------------------------
(***************************************************************************)
(* What the voice shell is relied on for.                                  *)
(***************************************************************************)
EXTENDS VoiceShell

ClockOK == idle \in 0 .. AutoSleepSecs + 1

TypeOK ==
    /\ ClockOK
    /\ pc \in Pcs
    /\ mode \in SessionModes
    /\ mic \in MicStates
    /\ speaking \in BOOLEAN
    /\ lang \in Languages
    /\ shutdown \in BOOLEAN
    /\ vad \in VadStates
    /\ stopFlag \in BOOLEAN
    /\ toShell \in Seq(Commands)
    /\ toBrain \in Seq(ShellMessages)
    /\ brain \in {"up", "gone"}

-----------------------------------------------------------------------------
(* Wherever run() can linger, the microphone state a holder of state()     *)
(* reads tells what it lingers on: Processing while it transcribes and     *)
(* until the result is sent, Speaking inside a speaking arm, Listening in  *)
(* select!, whatever SetMicState asked for a turn earlier; and             *)
(* is_speaking never outlives its arm except when run() itself fails.      *)
MicShowsWork ==
    /\ pc \in {"idleStt", "activeStt", "sendWake", "sendSpeech"} => mic = "Processing"
    /\ pc \in ArmPcs => mic = "Speaking" /\ speaking
    /\ pc \in {"select", "sendPong"} => mic = "Listening"
    /\ speaking => mic = "Speaking" /\ pc \in ArmPcs \cup {"returnedErr"}

(* run() returns Ok only when it was asked to stop or when the brain left  *)
(* and everything it had sent has been handled: a clean exit never drops   *)
(* a command that arrived before the EOF.                                  *)
CleanExit ==
    pc = "returnedOk" => shutdown \/ (brain = "gone" /\ toShell = <<>>)

(* The brain can act on the shell only in an awake period: in IDLE no arm  *)
(* of the command match, no playback and no report of speech is under way, *)
(* so auto-sleep never cuts one off; and in ACTIVE no wake word is being   *)
(* looked for, so a session is never announced twice.                      *)
AsleepMeansDeaf ==
    /\ mode = "Idle" => pc \notin ArmPcs \cup {"select", "activeStt", "sendSpeech",
                                               "sendPong", "sendWake"}
    /\ mode = "Active" => pc \notin {"boot", "sendReady", "idleStt"}

-----------------------------------------------------------------------------
(* The shell keeps the promises of SessionProtocol.                        *)

PhaseBar ==
    IF pc \in {"boot", "sendReady"} THEN "starting"
    ELSE IF pc \in ReturnPcs THEN "gone"
    ELSE IF mode = "Active" /\ pc # "sendWake" THEN "awake" ELSE "asleep"

ServingBar ==
    IF pc \in SpeakPcs THEN "Speak"
    ELSE IF pc \in SpeakIntPcs THEN "SpeakInterruptible"
    ELSE IF pc = "sendPong" THEN "Ping" ELSE "nothing"

SP == INSTANCE SessionProtocol
        WITH phase <- PhaseBar, serving <- ServingBar,
             commands <- toShell, wire <- toBrain, peer <- brain

(* Every behaviour of run() is one of the session protocol: Ready first,   *)
(* one WakeWordDetected before anything else of an awake period, commands  *)
(* in order and one at a time, replies only to the command being served,   *)
(* no UserSpeech in the middle of one, silence after the end.              *)
ImplementsProtocol == SP!Spec

-----------------------------------------------------------------------------
(* Liveness.  A send that waits for a brain that reads nothing more waits  *)
(* for ever: the only excuse.                                              *)

StuckSending == pc \in SendPcs /\ brain = "up" /\ Len(toBrain) = OutCap

(* A shutdown requested through the shared state ends run(), asleep or     *)
(* awake, from any point of any handler.                                   *)
RequestHonoured == <>[]StuckSending \/ (shutdown ~> ~Running)

(* Idleness beyond the limit is noticed: the session falls asleep unless   *)
(* the user or a reply revives it first or run() ends.  No stream of       *)
(* commands or frames keeps an idle session awake.                         *)
IdleTooLong == mode = "Active" /\ idle > AutoSleepSecs

SleepsWhenIdle == <>[]StuckSending \/ (IdleTooLong ~> ~IdleTooLong \/ ~Running)

(* A Shutdown command that is next in line while the session is awake is   *)
(* obeyed unless the session falls asleep first: the frame timer of        *)
(* select! cannot starve the socket.                                       *)
NextIsShutdown == toShell # <<>> /\ Head(toShell).type = "Shutdown"

ShutdownObeyedAwake ==
    <>[]StuckSending \/ (mode = "Active" /\ NextIsShutdown ~> mode = "Idle" \/ ~Running)

=============================================================================
