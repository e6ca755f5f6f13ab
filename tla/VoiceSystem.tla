---------------------------- MODULE VoiceSystem ----------------------------
(***************************************************************************)
(* The voice shell and the brain that drives it through the Python bridge, *)
(* connected: run() of VoiceShell, step by step, with the peer that module *)
(* leaves open replaced by one thread that calls the bridge.               *)
(*                                                                         *)
(* The brain's own program is not part of this repository.  It is taken to *)
(* use the bridge as its documentation does: it waits for the wake word    *)
(* once, and from then on listens and answers what it hears.  Messages     *)
(* cross the sockets whole (IpcTransport and BrainBridge look inside), and *)
(* nobody else holds the shared VoiceState (main.rs keeps none).           *)
(***************************************************************************)
EXTENDS VoiceShell, BridgeCalls

CONSTANT Methods  \* the methods the brain calls

ASSUME MethodsAssumption ==
    /\ Methods \subseteq DOMAIN Request \cup Waits
    /\ \A m \in Methods \cap DOMAIN Request : \E c \in Commands : c.type = Request[m]
    /\ Plain("Shutdown") \in Commands

VARIABLES
    step,      \* the brain: "out" of the bridge, "send", "recv", "got", "closing"
    call,      \* the method it is in, or was in last
    msg,       \* what it is about to send, or has received
    result,    \* how its last call ended
    woken,     \* wait_for_wake_word has returned True
    readable   \* a command was there when run() entered select!

brainVars == <<step, call, msg, result, woken>>
systemVars == <<vars, brainVars, readable>>

SystemInit ==
    /\ Init
    /\ step = "out" /\ call = "none" /\ msg = "none"
    /\ result = "none" /\ woken = FALSE
    /\ readable = FALSE

-----------------------------------------------------------------------------
(* The shell.  A recv() that is ready wins the select! against the timer   *)
(* armed beside it.                                                        *)

ReadableFirst == pc = "select" /\ readable

ShellTurnAnyOrder ==  \* faulty: the timer may win over a command that is there
    /\ ShellStep
    /\ readable' = (pc = "top" /\ pc' = "select" /\ toShell # <<>>)
    /\ UNCHANGED brainVars

ShellTurn ==
    /\ IF ReadableFirst THEN RecvCommand \/ RecvFails ELSE ShellStep
    /\ readable' = (pc = "top" /\ pc' = "select" /\ toShell # <<>>)
    /\ UNCHANGED brainVars

(* Seconds pass where run() waits for the microphone, a transcription or a *)
(* reply: not on its way to select!, and not in a send().  The brain may   *)
(* think for longer than the limit, but not before a full socket.          *)
OnItsWay == ReadableFirst \/ (pc = "top" /\ mode = "Active") \/ pc \in SendPcs

SecondPasses == ~OnItsWay /\ Tick /\ UNCHANGED <<brainVars, readable>>

-----------------------------------------------------------------------------
(* The brain. *)

(* Out of the call. *)
Ends(r) ==
    /\ step' = "out"
    /\ msg' = "none"
    /\ result' = r
    /\ woken' = (woken \/ (call = "wait_for_wake_word" /\ r = "returned"))
    /\ UNCHANGED <<call, readable>>

(* Waiting for the wake word comes first, and once; then the brain asks    *)
(* for something only when it has just heard something.                    *)
Heard == call \in Waits \ DOMAIN Request /\ result # "timeout"

InTurn(m) ==
    /\ m = "wait_for_wake_word" <=> ~woken
    /\ m \in DOMAIN Request => Heard

BrainCalls ==
    /\ brain = "up" /\ pc # "boot" /\ step = "out"
    /\ \E m \in Methods :
         /\ InTurn(m)
         /\ call' = m
         /\ IF m \in DOMAIN Request THEN step' = "send" /\ msg' = Request[m]
                                    ELSE step' = "recv" /\ msg' = "none"
    /\ UNCHANGED <<vars, result, woken, readable>>

(* sendall() returns when the frame is in the socket buffer. *)
Hands(c) ==
    /\ brain = "up" /\ step = "send" /\ Running
    /\ Len(toShell) < InCap
    /\ toShell' = Append(toShell, c)
    /\ UNCHANGED <<pc, state, vad, stopFlag, toBrain, brain>>

SendsAndReturns ==  \* faulty: no method waits for its answer
    /\ \E c \in Commands : c.type = msg /\ Hands(c)
    /\ Ends("returned")

SendsRequest ==
    /\ \E c \in Commands : c.type = msg /\ Hands(c)
    /\ IF call \in {"speak_interruptible", "ping"}
       THEN step' = "recv" /\ msg' = "none" /\ UNCHANGED <<call, result, woken, readable>>
       ELSE Ends("returned")

Receives ==
    /\ brain = "up" /\ step = "recv"
    /\ toBrain # <<>>
    /\ toBrain' = Tail(toBrain)
    /\ step' = "got"
    /\ msg' = Head(toBrain).type
    /\ UNCHANGED <<pc, state, vad, stopFlag, toShell, brain, call, result, woken, readable>>

(* run() sends no Ping, so the bridge has no Pong to send. *)
Reacts ==
    /\ step = "got"
    /\ \/ Reaction(call, msg) = "return" /\ Ends("returned")
       \/ Reaction(call, msg) = "raise" /\ Ends("raised")
       \/ /\ Reaction(call, msg) = "again"
          /\ step' = "recv" /\ msg' = "none"
          /\ UNCHANGED <<call, result, woken, readable>>
    /\ UNCHANGED vars

(* The 120 seconds of a reply, or the timeout_s of a wait. *)
TimesOut ==
    /\ step = "recv" /\ toBrain = <<>> /\ call \in Waits
    /\ Ends("timeout")
    /\ UNCHANGED vars

(* run() has returned and dropped its end of the connection. *)
Raises ==
    /\ ~Running
    /\ step = "send" \/ (step = "recv" /\ toBrain = <<>>)
    /\ Ends("raised")
    /\ UNCHANGED vars

(* disconnect(), when there is room for its Shutdown: what goes wrong with *)
(* it is ignored, and the socket is closed.                                *)
Disconnects ==
    /\ brain = "up" /\ pc # "boot" /\ step = "out"
    /\ IF Running
       THEN Len(toShell) < InCap /\ toShell' = Append(toShell, Plain("Shutdown"))
       ELSE toShell' = toShell
    /\ step' = "closing"
    /\ UNCHANGED <<pc, state, vad, stopFlag, toBrain, brain, call, msg, result, woken, readable>>

Closes == step = "closing" /\ BrainCloses /\ Ends("closed")

(* The brain dies. *)
Dies ==
    /\ BrainCloses
    /\ Ends("raised")

BrainActs == BrainCalls \/ SendsRequest \/ Receives \/ Reacts \/ Raises \/ Closes

SystemNext == ShellTurn \/ SecondPasses \/ BrainActs \/ TimesOut \/ Disconnects \/ Dies

SystemSpec == SystemInit /\ [][SystemNext]_systemVars

(* run() goes on when it can, and so does the brain, which between two     *)
(* calls takes its time but comes back; the clock and the user owe nothing *)
SystemFairness ==
    /\ WF_systemVars(ShellTurn)
    /\ WF_systemVars(BrainActs)

FairSystemSpec == SystemSpec /\ SystemFairness
=============================================================================
