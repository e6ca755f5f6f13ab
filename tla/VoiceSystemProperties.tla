----------------------- MODULE VoiceSystemProperties -----------------------
(***************************************************************************)
(* What the shell and the brain promise each other only together.          *)
(***************************************************************************)
EXTENDS VoiceSystem

(* The shell and a brain that takes turns never block each other: however  *)
(* full the two sockets are, a send run() waits in comes to its end, since *)
(* the brain, sending itself, finds its last command read and comes back   *)
(* to read.  (VoiceShell alone has to excuse a send that is stuck.)        *)
SendsNeverStick == pc \in SendPcs ~> pc \notin SendPcs

(* The state they would never leave: run() in a send to a full socket and  *)
(* the brain in sendall() to another.  A brain that makes one request for  *)
(* each thing it hears always leaves run() the room to come back to its    *)
(* select!, even through a sleep, before it has filled the other socket.   *)
NoStandoff ==
    ~ /\ brain = "up" /\ pc \in SendPcs /\ step = "send"
      /\ Len(toBrain) = OutCap /\ Len(toShell) = InCap

(* After every wake word the shell hears, the first and those that end an  *)
(* auto-sleep, some call of the brain receives a WakeWordDetected, through *)
(* Ready and whatever else is in the socket, unless brain or shell ends.   *)
(* The application learns only of the first: after an auto-sleep the call  *)
(* is wait_for_speech(), which drops it and waits on, or one that takes it *)
(* for the end of its reply.                                               *)
WakeGetsThrough ==
    pc = "sendWake" ~>
        \/ step = "got" /\ msg = "WakeWordDetected"
        \/ brain = "gone" \/ ~Running

(* What the user says is never thrown away by a brain that still waits for *)
(* the wake word: the session is announced before it is used, and speech   *)
(* finds the brain in a call made after the announcement.  (The brain      *)
(* waits for the wake word once: this is about the first session, in the   *)
(* later ones it listens all the time.)                                    *)
SpeechFindsListener ==
    [][Receives /\ msg' \in {"UserSpeech", "BargeIn"} => woken]_systemVars

(* gclaw_bridge.py on wait_for_speech: "Returns: (text, language,          *)
(* confidence)".  It does not hold: no speech gets out of the bridge.      *)
SpeechReachesBrain ==
    [][Reacts /\ call = "wait_for_speech" /\ msg = "UserSpeech"
         => result' = "returned"]_systemVars

-----------------------------------------------------------------------------
(* The brain is the only thread, and its socket is there from the moment   *)
(* run() has accepted it.                                                  *)
Link ==
    IF pc = "boot" \/ brain = "gone" THEN "none"
    ELSE IF step = "closing" THEN "leaving"
    ELSE IF Running THEN "up" ELSE "closed"

Caller ==
    [t \in {"brain"} |->
       IF step \in {"out", "closing"}
       THEN [step |-> "out", call |-> "none", msg |-> "none"]
       ELSE [step |-> step, call |-> call, msg |-> msg]]

TypesOf(q) == [i \in DOMAIN q |-> q[i].type]

Bridge == INSTANCE BridgeProtocol WITH
    Threads <- {"brain"},
    Replies <- {m.type : m \in ShellMessages},
    link    <- Link,
    caller  <- Caller,
    said    <- TypesOf(toShell),
    broken  <- FALSE,
    inbox   <- TypesOf(toBrain),
    adrift  <- FALSE

(* The brain and the shell meet as the callers of the bridge and its       *)
(* socket do: all they do together the protocol allows, message by         *)
(* message, the protocol that BrainBridge implements frame by frame.       *)
MeetsAsBridge == Bridge!Spec
=============================================================================
