---------------------------- MODULE MCBrainBridge ---------------------------
(***************************************************************************)
(* Of the four methods that only send, speak stands for all.  UserSpeech   *)
(* makes wait_for_wake_word go on, wait_for_speech raise, and the others   *)
(* return; Ping is answered by all but ping.                               *)
(***************************************************************************)
EXTENDS BrainBridgeProperties

MCMethods == {"wait_for_wake_word", "wait_for_speech", "speak_interruptible", "ping", "speak"}
MCShellMessages == {"UserSpeech", "Ping"}
=============================================================================
