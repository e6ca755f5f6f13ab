-------------------------- MODULE SessionProtocol ---------------------------
(***************************************************************************)
(* What gclaw-voice promises the brain at the other end of the socket,     *)
(* with nothing of how run() does it:                                      *)
(*   - Ready comes first, and before it nothing else is sent or read;      *)
(*   - every awake period opens with one WakeWordDetected, and only inside *)
(*     one is speech reported or a command taken;                          *)
(*   - commands are taken one at a time, in the order they were sent; a    *)
(*     reply is sent only for the command being served: one Pong for a     *)
(*     Ping, at most one BargeIn for a SpeakInterruptible;                 *)
(*   - no UserSpeech is reported while a command is being served;          *)
(*   - after the end nothing is sent.                                      *)
(* Both directions are FIFO and reliable until the peer closes its end.    *)
(***************************************************************************)
EXTENDS VoiceTypes, Sequences

VARIABLES
    phase,     \* "starting", "asleep", "awake" or "gone"
    serving,   \* type of the command being served, or "nothing"
    commands,  \* sent by the brain, not yet taken
    wire,      \* sent by the shell, not yet read by the brain
    peer       \* "up" or "gone"

vars == <<phase, serving, commands, wire, peer>>

Init ==
    /\ phase = "starting"
    /\ serving = "nothing"
    /\ commands = <<>>
    /\ wire = <<>>
    /\ peer = "up"

(* A message to a peer that has gone is lost without notice. *)
Say(m) ==
    \/ peer = "up"   /\ wire' = Append(wire, m)
    \/ peer = "gone" /\ wire' = wire

Announce ==
    /\ phase = "starting"
    /\ phase' = "asleep"
    /\ Say(Ready)
    /\ UNCHANGED <<serving, commands, peer>>

Wake ==
    /\ phase = "asleep"
    /\ phase' = "awake"
    /\ Say(WakeWordDetected)
    /\ UNCHANGED <<serving, commands, peer>>

Sleep ==
    /\ phase = "awake" /\ serving = "nothing"
    /\ phase' = "asleep"
    /\ UNCHANGED <<serving, commands, wire, peer>>

Utter ==
    /\ phase = "awake" /\ serving = "nothing"
    /\ \E l \in Languages : Say(UserSpeech(l))
    /\ UNCHANGED <<phase, serving, commands, peer>>

Take ==
    /\ phase = "awake" /\ serving = "nothing"
    /\ commands # <<>>
    /\ Head(commands).type \notin {"Shutdown", "Garbled"}
    /\ commands' = Tail(commands)
    /\ serving' = IF Head(commands).type \in {"Speak", "SpeakInterruptible", "Ping"}
                  THEN Head(commands).type ELSE "nothing"
    /\ UNCHANGED <<phase, wire, peer>>

Answer ==
    /\ serving # "nothing"
    /\ serving' = "nothing"
    /\ \/ serving = "Ping" /\ Say(Pong)
       \/ serving = "SpeakInterruptible" /\ Say(BargeIn)
       \/ serving # "Ping" /\ wire' = wire
    /\ UNCHANGED <<phase, commands, peer>>

(* The end, because of a failure, of a request in the program, of the      *)
(* peer's departure or of the command taken last.                          *)
Quit ==
    /\ phase # "gone"
    /\ phase' = "gone"
    /\ serving' = "nothing"
    /\ \/ commands' = commands
       \/ /\ phase = "awake" /\ serving = "nothing" /\ commands # <<>>
          /\ Head(commands).type \in {"Shutdown", "Garbled"}
          /\ commands' = Tail(commands)
    /\ UNCHANGED <<wire, peer>>

PeerSends ==
    /\ peer = "up"
    /\ \E c \in BrainCommands : commands' = Append(commands, c)
    /\ UNCHANGED <<phase, serving, wire, peer>>

PeerReads ==
    /\ wire # <<>>
    /\ wire' = Tail(wire)
    /\ UNCHANGED <<phase, serving, commands, peer>>

PeerCloses ==
    /\ peer = "up"
    /\ peer' = "gone"
    /\ wire' = <<>>
    /\ UNCHANGED <<phase, serving, commands>>

Next ==
    \/ Announce \/ Wake \/ Sleep \/ Utter
    \/ Take \/ Answer \/ Quit
    \/ PeerSends \/ PeerReads \/ PeerCloses

Spec == Init /\ [][Next]_vars
=============================================================================
