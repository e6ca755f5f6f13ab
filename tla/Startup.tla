------------------------------ MODULE Startup ------------------------------
(***************************************************************************)
(* Getting the voice shell to run: the download script, config.json in the *)
(* hands of G, and the program gclaw-voice from main() to the connection   *)
(* with the brain, each started and ended at any moment.  The search for   *)
(* config.json is part of the library's interface; the shell only loads a  *)
(* file it is given.                                                       *)
(***************************************************************************)
EXTENDS Configuration, ModelDownload

CONSTANT Models  \* the files run() loads, in order

ASSUME ModelsAssumption == Models \in Seq(Names)

VARIABLES
    shell,   \* "off", "config", "models", "connect" or "up"
    loaded   \* the models it has loaded, as they were then

startupVars == <<configVars, downloadVars, shell, loaded>>

StartupInit ==
    /\ ConfigInit /\ DownloadInit
    /\ shell = "off"
    /\ loaded = <<>>

Becomes(s) ==
    /\ shell' = s
    /\ UNCHANGED downloadVars

(* main(), with --config or without. *)
StartShell ==
    /\ shell = "off"
    /\ loaded' = <<>>
    /\ \/ LoadConfig(TRUE) /\ Becomes("config")
       \/ Becomes("models") /\ UNCHANGED configVars

Configured ==
    /\ shell = "config" /\ stage = "ok"
    /\ Becomes("models")
    /\ Drop
    /\ UNCHANGED loaded

(* SileroVad::new, then WhisperStt::new; a missing file is an error, and   *)
(* what the libraries make of a broken one is theirs.                      *)
LoadModel ==
    /\ shell = "models" /\ Len(loaded) < Len(Models)
    /\ LET file == disk[Models[Len(loaded) + 1]]
       IN file # NoFile /\ loaded' = Append(loaded, file)
    /\ Becomes("models")
    /\ UNCHANGED configVars

ModelsLoaded ==
    /\ shell = "models" /\ Len(loaded) = Len(Models)
    /\ Becomes("connect")
    /\ UNCHANGED <<configVars, loaded>>

Connect ==
    /\ shell = "connect"
    /\ Becomes("up")
    /\ UNCHANGED <<configVars, loaded>>

(* An error on the way or the end of run(); a signal, once it has its      *)
(* configuration.                                                          *)
ShellEnds ==
    /\ shell # "off"
    /\ Becomes("off")
    /\ loaded' = <<>>
    /\ IF shell = "config" THEN stage = "err" /\ Drop ELSE UNCHANGED configVars

(* load_config(None), by a program that uses the library: none of the      *)
(* workspace does yet.                                                     *)
OthersLoad ==
    /\ shell = "off"
    /\ LoadConfig(FALSE) \/ Drop
    /\ UNCHANGED <<downloadVars, shell, loaded>>

ShellStarts ==
    StartShell \/ Configured \/ LoadModel \/ ModelsLoaded \/ Connect \/ ShellEnds

StartupNext ==
    \/ ShellStarts \/ OthersLoad
    \/ (Loads \/ GWrites) /\ UNCHANGED <<downloadVars, shell, loaded>>
    \/ DownloadNext /\ UNCHANGED <<configVars, shell, loaded>>

StartupSpec == StartupInit /\ [][StartupNext]_startupVars
=============================================================================
