---------------------------- MODULE MCVoiceShell ----------------------------
(***************************************************************************)
(* The voice shell beside its own clock, for TLC: two languages, one of    *)
(* them English, and commands of every kind.                               *)
(***************************************************************************)
EXTENDS VoiceShellQuiet

MCLanguages == {"en", "fr"}
MCEnglish == {"en"}
MCEngines == {"piper", "espeak"}

(* One command of every kind; Configure with and without a language.       *)
AllCommands ==
    {Plain(t) : t \in {"Speak", "SpeakInterruptible", "StopSpeaking",
                       "Shutdown", "Ping", "Other", "Garbled"}}
        \cup {SetMicState("Idle"), SetMicState("Speaking"),
              Configure("fr"), Configure(NoLanguage)}
=============================================================================
