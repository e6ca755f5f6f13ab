--------------------------- MODULE BridgeProtocol ---------------------------
(***************************************************************************)
(* What GclawVoiceBridge is to the threads that call it, message by        *)
(* message: a request is said whole or not at all, an answer is heard      *)
(* whole, in order and once, and a call ends, without a lock, a length or  *)
(* a timeout in sight.  Two accidents are as visible as that: a send that  *)
(* gives up inside a frame leaves the shell deaf to all that follows until *)
(* the next connection, and a timeout inside one leaves the threads with   *)
(* nonsense until they happen on the beginning of a frame again, with the  *)
(* messages lost that they passed over.                                    *)
(***************************************************************************)
EXTENDS BridgeCalls, Naturals, Sequences

CONSTANTS
    Threads,  \* the brain's threads
    Methods,  \* the methods they call
    Replies   \* the types of the messages the shell sends

VARIABLES
    link,    \* "none", "up", "closed" by the shell, or "leaving"
    caller,  \* what each thread does, see Out
    said,    \* messages on their way to the shell
    broken,  \* a send has given up inside a frame
    inbox,   \* messages of the shell that no thread has taken
    adrift   \* since a wait gave up inside a frame, none has ended between two

vars == <<link, caller, said, broken, inbox, adrift>>

(* A thread outside every call; in one it is to "send" or "recv", or has   *)
(* "got", a message.                                                       *)
Out == [step |-> "out", call |-> "none", msg |-> "none"]

AllOut == \A t \in Threads : caller[t] = Out

Connected == link \in {"up", "closed"}

Init ==
    /\ link = "none"
    /\ caller = [t \in Threads |-> Out]
    /\ said = <<>> /\ broken = FALSE
    /\ inbox = <<>> /\ adrift = FALSE

-----------------------------------------------------------------------------
Connect ==
    /\ AllOut
    /\ link' \in {"up", "closed"}
    /\ said' = <<>> /\ broken' = FALSE
    /\ inbox' = <<>> /\ adrift' = FALSE
    /\ UNCHANGED caller

(* The socket is gone, and what it held for the threads with it. *)
Hangup ==
    /\ link' = "none"
    /\ inbox' = <<>> /\ adrift' = FALSE

(* Disconnecting says Shutdown, or fails to, and then hangs up. *)
Farewell ==
    /\ AllOut /\ Connected
    /\ \/ ~broken /\ said' = Append(said, "Shutdown") /\ UNCHANGED broken
       \/ said' = said /\ broken' \in {broken, TRUE}
    /\ UNCHANGED caller

Disconnect ==
    \/ Farewell /\ link' = "leaving" /\ UNCHANGED <<inbox, adrift>>
    \/ Farewell /\ Hangup
    \/ link = "leaving" /\ Hangup /\ UNCHANGED <<caller, said, broken>>

(* The brain dies in the middle of its calls. *)
Die ==
    /\ Hangup
    /\ caller' = [t \in Threads |-> Out]
    /\ UNCHANGED <<said, broken>>

-----------------------------------------------------------------------------
(* Inside a call. *)

Turn(t, s, m) ==
    caller' = [caller EXCEPT ![t] = [step |-> s, call |-> caller[t].call, msg |-> m]]
Quit(t) == caller' = [caller EXCEPT ![t] = Out]

Call(t) ==
    /\ Connected /\ caller[t].step = "out"
    /\ \E m \in Methods :
         caller' = [caller EXCEPT ![t] =
           IF m \in DOMAIN Request
           THEN [step |-> "send", call |-> m, msg |-> Request[m]]
           ELSE [step |-> "recv", call |-> m, msg |-> "none"]]
    /\ UNCHANGED <<link, said, broken, inbox, adrift>>

Answered(t) == caller[t].msg = "Pong" \/ caller[t].call \in {"ping", "speak_interruptible"}

Say(t) ==
    /\ caller[t].step = "send"
    /\ said' = IF broken THEN said ELSE Append(said, caller[t].msg)
    /\ IF Answered(t) THEN Turn(t, "recv", "none") ELSE Quit(t)
    /\ UNCHANGED <<link, broken, inbox, adrift>>

Hear(t) ==
    /\ caller[t].step = "recv"
    /\ ~adrift /\ inbox # <<>>
    /\ Turn(t, "got", Head(inbox))
    /\ inbox' = Tail(inbox)
    /\ UNCHANGED <<link, said, broken, adrift>>

(* Out of step with the frames a thread passes over messages, and what it  *)
(* ends with has used up the next one or not, and led back or not.         *)
Overread(t) ==
    /\ caller[t].step = "recv"
    /\ adrift /\ inbox # <<>>
    /\ inbox' = Tail(inbox)
    /\ UNCHANGED <<link, caller, said, broken, adrift>>

Strays ==
    /\ adrift
    /\ inbox' = inbox \/ (inbox # <<>> /\ inbox' = Tail(inbox))
    /\ adrift' \in BOOLEAN

HearNonsense(t) ==
    /\ caller[t].step = "recv"
    /\ Strays
    /\ Turn(t, "got", "nonsense")
    /\ UNCHANGED <<link, said, broken>>

React(t) ==
    /\ caller[t].step = "got"
    /\ LET r == Reaction(caller[t].call, caller[t].msg)
       IN \/ r \in {"return", "raise"} /\ Quit(t)
          \/ r = "again" /\ Turn(t, "recv", "none")
          \/ r = "pong" /\ Turn(t, "send", "Pong")
    /\ UNCHANGED <<link, said, broken, inbox, adrift>>

(* The call raises or times out, between two frames or inside one. *)
GiveUp(t) ==
    /\ \/ /\ caller[t].step \in {"send", "recv"}
          /\ UNCHANGED <<broken, inbox, adrift>>
       \/ /\ caller[t].step = "send"
          /\ broken' = TRUE
          /\ UNCHANGED <<inbox, adrift>>
       \/ /\ caller[t].step = "recv"
          /\ inbox = <<>> /\ adrift' = TRUE
          /\ UNCHANGED <<broken, inbox>>
       \/ /\ caller[t].step = "recv"
          /\ Strays
          /\ UNCHANGED broken
    /\ Quit(t)
    /\ UNCHANGED <<link, said>>

-----------------------------------------------------------------------------
(* The shell. *)

ShellSays ==
    /\ link \in {"up", "leaving"}
    /\ \E m \in Replies : inbox' = Append(inbox, m)
    /\ UNCHANGED <<link, caller, said, broken, adrift>>

(* In order, or so that what no thread has taken is lost. *)
ShellCloses ==
    /\ link = "up" /\ link' = "closed"
    /\ inbox' \in {inbox, <<>>}
    /\ UNCHANGED <<caller, said, broken, adrift>>

(* It may close over what it has read. *)
ShellReads ==
    /\ said # <<>>
    /\ said' = Tail(said)
    /\ link' = link \/ (link = "up" /\ link' = "closed")
    /\ UNCHANGED <<caller, broken, inbox, adrift>>

-----------------------------------------------------------------------------
Next ==
    \/ Connect \/ Disconnect \/ Die
    \/ ShellSays \/ ShellCloses \/ ShellReads
    \/ \E t \in Threads :
         \/ Call(t) \/ Say(t) \/ React(t) \/ GiveUp(t)
         \/ Hear(t) \/ Overread(t) \/ HearNonsense(t)

Spec == Init /\ [][Next]_vars
=============================================================================
