------------------------------ MODULE BargeIn -------------------------------
(***************************************************************************)
(* An interruptible playback: BargeInController::speak_interruptible       *)
(* (bargein/controller.rs) and AudioPlayback::play_blocking                *)
(* (audio/playback.rs), thread by thread:                                  *)
(*   - main, the thread inside run(), which makes one call after another   *)
(*     and between two calls may run stop() for a StopSpeaking;            *)
(*   - one monitor thread per call, which listens for the user;            *)
(*   - the audio callback of the output stream of the call under way.      *)
(* They share stop_flag, which lives as long as the controller, and the    *)
(* `finished' flag and position of the stream.                             *)
(***************************************************************************)
EXTENDS Naturals

CONSTANTS
    MaxCalls,       \* bound: the calls made in a run
    Buffers,        \* length of a reply, in output buffers
    Consecutive     \* BARGEIN_CONSECUTIVE_FRAMES, 3 in the code

ASSUME BargeInAssumption ==
    MaxCalls \in Nat \ {0} /\ Buffers \in Nat \ {0} /\ Consecutive \in Nat \ {0}

Calls == 1 .. MaxCalls
Nobody == 0          \* stop_flag was last written by main
Playing == {"checkFinished", "checkStop", "lastLoad"}

VARIABLES
    main,       \* where the main thread stands
    call,       \* number of the call under way or made last
    stop,       \* stop_flag
    setter,     \* the monitor that raised stop_flag since main last wrote it
    monitor,    \* state of the monitor thread of each call
    high,       \* consecutive_high of each monitor
    position,   \* output buffers of the reply handed to the device
    finished,   \* the stream's `finished' flag
    silenced,   \* a callback has found stop_flag raised and played silence
    completed,  \* what play_blocking returned
    result,     \* what the last call returned
    abandoned   \* history: the calls that returned without joining their monitor

vars == <<main, call, stop, setter, monitor, high, position, finished, silenced,
          completed, result, abandoned>>

stream == <<position, finished, silenced>>
outcome == <<completed, result>>
flag == <<stop, setter>>
threads == <<monitor, high>>

Init ==
    /\ main = "between"
    /\ call = 0
    /\ stop = FALSE
    /\ setter = Nobody
    /\ monitor = [c \in Calls |-> "notStarted"]
    /\ high = [c \in Calls |-> 0]
    /\ position = 0
    /\ finished = FALSE
    /\ silenced = FALSE
    /\ completed = FALSE
    /\ result = "none"
    /\ abandoned = {}

-----------------------------------------------------------------------------
(* Main. *)

(* BargeInController::stop, from the StopSpeaking arm. *)
Stop ==
    /\ main = "between"
    /\ stop' = TRUE
    /\ setter' = Nobody
    /\ UNCHANGED <<main, call, threads, stream, outcome, abandoned>>

(* A call with nothing to play returns before anything else. *)
CallEmpty ==
    /\ main = "between"
    /\ result' = "Completed"
    /\ UNCHANGED <<main, call, flag, threads, stream, completed, abandoned>>

CallKeepsFlag ==  \* faulty: a flag raised earlier is not lowered
    /\ main = "between" /\ call < MaxCalls
    /\ main' = "open"
    /\ call' = call + 1
    /\ monitor' = [monitor EXCEPT ![call + 1] = "headStart"]
    /\ UNCHANGED <<flag, high, stream, outcome, abandoned>>

(* The flag is lowered and the monitor spawned. *)
Call ==
    /\ main = "between" /\ call < MaxCalls
    /\ main' = "open"
    /\ call' = call + 1
    /\ stop' = FALSE
    /\ setter' = Nobody
    /\ monitor' = [monitor EXCEPT ![call + 1] = "headStart"]
    /\ UNCHANGED <<high, stream, outcome, abandoned>>

(* build_output_stream and play. *)
OpenStream ==
    /\ main = "open"
    /\ main' = "checkFinished"
    /\ position' = 0
    /\ finished' = FALSE
    /\ silenced' = FALSE
    /\ UNCHANGED <<call, flag, threads, outcome, abandoned>>

(* The `?' after play_blocking: neither the store nor the join is reached. *)
OpenFails ==
    /\ main = "open"
    /\ main' = "between"
    /\ result' = "Error"
    /\ abandoned' = abandoned \cup {call}
    /\ UNCHANGED <<call, flag, threads, stream, completed>>

CheckFinished ==
    /\ main = "checkFinished"
    /\ main' = IF finished THEN "lastLoad" ELSE "checkStop"
    /\ UNCHANGED <<call, flag, threads, stream, outcome, abandoned>>

(* What a load of stop_flag in play_blocking can return.  They are all     *)
(* Ordering::Relaxed: nothing orders them after the store of a monitor,    *)
(* so that any of them may still find what main wrote last, the FALSE of   *)
(* the beginning of the call.                                              *)
LoadedStop == IF setter # Nobody THEN {stop, FALSE} ELSE {stop}

CheckStop ==
    /\ main = "checkStop"
    /\ \E s \in LoadedStop :
         IF s THEN main' = "raise" /\ completed' = FALSE
              ELSE main' = "checkFinished" /\ UNCHANGED completed
    /\ UNCHANGED <<call, flag, threads, stream, result, abandoned>>

(* `finished' may mean played out or silenced: the flag is to tell which. *)
LastLoad ==
    /\ main = "lastLoad"
    /\ main' = "raise"
    /\ \E s \in LoadedStop : completed' = ~s
    /\ UNCHANGED <<call, flag, threads, stream, result, abandoned>>

NoRaise ==  \* faulty: the monitor of a completed playback is not told
    /\ main = "raise"
    /\ main' = "join"
    /\ UNCHANGED <<call, flag, threads, stream, outcome, abandoned>>

(* The flag is raised, so that the monitor ends ... *)
RaiseFlag ==
    /\ main = "raise"
    /\ main' = "join"
    /\ stop' = TRUE
    /\ setter' = Nobody
    /\ UNCHANGED <<call, threads, stream, outcome, abandoned>>

NoJoin ==  \* faulty: the thread is left behind
    /\ main = "join"
    /\ main' = "between" /\ result' = "Completed"
    /\ UNCHANGED <<call, flag, threads, stream, completed, abandoned>>

(* ... and is joined. *)
Join ==
    /\ main = "join"
    /\ monitor[call] = "ended"
    /\ IF completed
       THEN main' = "between" /\ result' = "Completed"
       ELSE main' = "transcribe" /\ UNCHANGED result
    /\ UNCHANGED <<call, flag, threads, stream, completed, abandoned>>

(* Nothing captured or noise; a transcription; a failed transcription. *)
Transcribe ==
    /\ main = "transcribe"
    /\ main' = "between"
    /\ result' \in {"Completed", "Interrupted", "Error"}
    /\ UNCHANGED <<call, flag, threads, stream, completed, abandoned>>

MainStep ==
    \/ OpenStream \/ OpenFails \/ CheckFinished \/ CheckStop
    \/ LastLoad \/ RaiseFlag \/ Join \/ Transcribe

-----------------------------------------------------------------------------
(* The monitor thread of call c. *)

HeadStartOver(c) ==
    /\ monitor[c] = "headStart"
    /\ monitor' = [monitor EXCEPT ![c] = "poll"]
    /\ UNCHANGED <<main, call, flag, high, stream, outcome, abandoned>>

Poll(c) ==
    /\ monitor[c] = "poll"
    /\ monitor' = [monitor EXCEPT ![c] = IF stop THEN "ended" ELSE "listen"]
    /\ UNCHANGED <<main, call, flag, high, stream, outcome, abandoned>>

(* A frame above the threshold. *)
HearLoud(c) ==
    /\ monitor[c] = "listen"
    /\ high' = [high EXCEPT ![c] = @ + 1]
    /\ IF high[c] + 1 >= Consecutive
       THEN /\ monitor' = [monitor EXCEPT ![c] = "ended"]
            /\ stop' = TRUE
            /\ setter' = c
       ELSE /\ monitor' = [monitor EXCEPT ![c] = "poll"]
            /\ UNCHANGED flag
    /\ UNCHANGED <<main, call, stream, outcome, abandoned>>

(* A quiet frame starts the count afresh, a short one leaves it. *)
HearQuiet(c) ==
    /\ monitor[c] = "listen"
    /\ monitor' = [monitor EXCEPT ![c] = "poll"]
    /\ high' \in {high, [high EXCEPT ![c] = 0]}
    /\ UNCHANGED <<main, call, flag, stream, outcome, abandoned>>

MonitorStep(c) == HeadStartOver(c) \/ Poll(c) \/ HearLoud(c) \/ HearQuiet(c)

-----------------------------------------------------------------------------
(* The output callback, called for every buffer the device wants.  A       *)
(* buffer reaching past the end of the reply, also the one after an exact  *)
(* fit, ends the playback.  A callback that has found the flag raised      *)
(* never loads an older value of it again.                                 *)

PlayBuffer ==
    IF position < Buffers
    THEN /\ position' = position + 1
         /\ finished' \in {finished, finished \/ position' = Buffers}
    ELSE finished' = TRUE /\ UNCHANGED position

Callback ==
    /\ main \in Playing
    /\ \E s \in LoadedStop :
         \/ s /\ finished' = TRUE /\ silenced' = TRUE /\ UNCHANGED position
         \/ ~s /\ ~silenced /\ PlayBuffer /\ UNCHANGED silenced
    /\ UNCHANGED <<main, call, flag, threads, outcome, abandoned>>

Next ==
    \/ Call \/ MainStep \/ Stop \/ CallEmpty
    \/ \E c \in Calls : MonitorStep(c)
    \/ Callback

Spec == Init /\ [][Next]_vars

(* Threads are scheduled and sleeps end; the device keeps asking for       *)
(* buffers.  Whether the user ever makes a sound is not for the code to    *)
(* say, and whether there is a further call neither.                       *)
Fairness ==
    /\ WF_vars(MainStep)
    /\ \A c \in Calls : WF_vars(MonitorStep(c))
    /\ WF_vars(Callback)

FairSpec == Spec /\ Fairness
=============================================================================
