---------------------------- MODULE BridgeCalls ----------------------------
(***************************************************************************)
(* What the methods of GclawVoiceBridge send and make of what they         *)
(* receive, whoever calls them and whatever is at the other end.           *)
(***************************************************************************)

(* What the methods that send something first send. *)
Request == [speak               |-> "Speak",
            stop_speaking       |-> "StopSpeaking",
            set_mic_state       |-> "SetMicState",
            configure           |-> "Configure",
            speak_interruptible |-> "SpeakInterruptible",
            ping                |-> "Ping"]

(* The methods that loop over the messages received, in a try block. *)
Waits == {"wait_for_wake_word", "wait_for_speech", "speak_interruptible"}

(* What a method does about a message.  The shell packs a payload as an    *)
(* array, which has no get(): looking into one raises.                     *)
Reaction(m, msg) ==
    CASE m = "ping" -> "return"
      [] msg = "Ping" -> "pong"
      [] m = "wait_for_wake_word" ->
           IF msg = "WakeWordDetected" THEN "return" ELSE "again"
      [] m = "wait_for_speech" ->
           IF msg \in {"UserSpeech", "BargeIn"} THEN "raise" ELSE "again"
      [] OTHER -> IF msg = "BargeIn" THEN "raise" ELSE "return"
=============================================================================
