--------------------------- MODULE MCVoiceSystem ---------------------------
(***************************************************************************)
(* One language and one engine; the four methods that only send differ for *)
(* the shell alone, speak stands for them.                                 *)
(***************************************************************************)
EXTENDS VoiceSystemProperties

MCLanguages == {"en"}
MCEngines == {"piper"}
MCMethods == {"wait_for_wake_word", "wait_for_speech", "speak", "speak_interruptible", "ping"}
MCCommands == {Plain(Request[m]) : m \in MCMethods \cap DOMAIN Request} \cup {Plain("Shutdown")}
=============================================================================
