-------------------------- MODULE VoiceShellQuiet ---------------------------
(***************************************************************************)
(* The voice shell beside a clock of its own: `quiet' counts the seconds   *)
(* since the user last heard or said something the shell understood (the   *)
(* wake word, an utterance, the end of a reply), whatever run() does with  *)
(* last_activity.                                                          *)
(***************************************************************************)
EXTENDS VoiceShellProperties

VARIABLE quiet

quietVars == <<pc, mode, mic, speaking, idle, lang, shutdown, vad, stopFlag,
               toShell, toBrain, brain, quiet>>

QuietInit == Init /\ quiet = 0

(* The wake word, an utterance that is not noise, the end of a reply. *)
Exchange ==
    \/ pc = "idleStt" /\ pc' = "sendWake"
    \/ pc = "activeStt" /\ pc' = "sendSpeech"
    \/ pc \in ArmPcs /\ pc' = "top"

QuietNext ==
    \/ ShellStep /\ quiet' = IF Exchange THEN 0 ELSE quiet
    \/ Tick /\ quiet' = quiet + 1
    \/ PeerStep /\ quiet' = quiet

(* Tick stops one second beyond the limit; so does this clock. *)
QuietBound == quiet <= AutoSleepSecs + 1

QuietSpec == QuietInit /\ [][QuietNext /\ QuietBound']_quietVars

(* The clock only watches: run() is scheduled as without it. *)
FairQuietSpec == QuietSpec /\ Fairness

(* While the session is awake the time run() compares with the limit is    *)
(* exactly the time since the last exchange with the user: every exchange, *)
(* the end of a long reply included, restarts the 90 seconds on every path *)
(* through run(), so that it never falls asleep early, and StopSpeaking,   *)
(* SetMicState, Configure and Ping alone do not keep it awake.             *)
IdleClockExact == mode = "Active" => idle = quiet
=============================================================================
