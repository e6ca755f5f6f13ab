-------------------------- MODULE BargeInProperties -------------------------
(***************************************************************************)
(* What an interruptible playback is relied on for.                        *)
(***************************************************************************)
EXTENDS BargeIn

MonitorStates == {"notStarted", "headStart", "poll", "listen", "ended"}

FlagsOK ==
    /\ stop \in BOOLEAN
    /\ finished \in BOOLEAN
    /\ silenced \in BOOLEAN
    /\ completed \in BOOLEAN

TypeOK ==
    /\ FlagsOK
    /\ main \in Playing \cup {"between", "open", "raise", "join", "transcribe"}
    /\ call \in 0 .. MaxCalls
    /\ setter \in 0 .. MaxCalls
    /\ monitor \in [Calls -> MonitorStates]
    /\ high \in [Calls -> 0 .. Consecutive]
    /\ abandoned \subseteq Calls
    /\ position \in 0 .. Buffers
    /\ result \in {"none", "Completed", "Interrupted", "Error"}

(* playback.rs on play_blocking: "Returns `true` if playback completed     *)
(* normally, `false` if interrupted".  It does not hold: a monitor raises  *)
(* the flag, the callback loads it, plays silence and says `finished'; the *)
(* main thread loads `finished' and then, both loads being relaxed, the    *)
(* old value of the flag, and takes the reply for one played to its end.   *)
CompletedMeansPlayed ==
    main \in {"raise", "join"} /\ completed => position = Buffers /\ ~silenced

(* A playback is cut only by a monitor that heard Consecutive loud frames, *)
(* its own or one whose call failed to open a stream and left it behind:   *)
(* neither a StopSpeaking handled earlier nor the monitor of any other     *)
(* call reaches into it.                                                   *)
OnlyMonitorsCut ==
    main \in Playing /\ stop =>
        /\ setter \in abandoned \cup {call}
        /\ monitor[setter] = "ended" /\ high[setter] = Consecutive

(* A call that reaches its end, interrupted or not, leaves no thread       *)
(* behind: between two calls only the monitors of abandoned calls can be   *)
(* alive, and during a call only those and its own.                        *)
MonitorsAccountedFor ==
    \A c \in Calls :
        monitor[c] \notin {"notStarted", "ended"} =>
            c \in abandoned \/ (c = call /\ main # "between")

(* controller.rs, on the raw pointer the monitor holds: "the monitor       *)
(* thread is joined before we return".                                     *)
MonitorJoined ==
    main = "between" => \A c \in Calls : monitor[c] \in {"notStarted", "ended"}

(* A call returns, whatever the user does and however the last callback,   *)
(* the monitor and the main thread meet at the end of the reply.           *)
CallReturns == main # "between" ~> main = "between"
=============================================================================
