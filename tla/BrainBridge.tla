---------------------------- MODULE BrainBridge -----------------------------
(***************************************************************************)
(* GclawVoiceBridge, the brain's end of the voice connection: Python       *)
(* threads that call its methods over one socket, with a lock for sending, *)
(* a lock for receiving and one timeout, the socket's, for all of them.    *)
(*                                                                         *)
(* A message is its type.  A frame crosses the socket in two parts, its    *)
(* length and its payload; the shell at the other end is external and says *)
(* anything.  Calls on a bridge that is not connected raise and change     *)
(* nothing, and are left out.  connect() and disconnect() are called while *)
(* no other call is in progress.                                           *)
(***************************************************************************)
EXTENDS BridgeCalls, Naturals, Sequences

CONSTANTS
    Threads,        \* the brain's threads
    Methods,        \* the methods they call
    ShellMessages,  \* the types of the messages the shell sends
    MaxCalls,       \* bound: calls in a run, connect() included
    MaxMessages     \* bound: messages the shell sends on a connection

ASSUME BridgeAssumption ==
    /\ "nobody" \notin Threads
    /\ Methods \subseteq DOMAIN Request \cup Waits
    /\ ShellMessages \subseteq
         {"Ready", "WakeWordDetected", "UserSpeech", "BargeIn", "Ping", "Pong"}
    /\ MaxCalls \in Nat /\ MaxMessages \in Nat

VARIABLES
    sock,       \* _sock: "none", "up", or "closed" by the shell
    connected,  \* _connected
    timeout,    \* of the socket: "none", "connect", "wait" or "speak"
    sendLock,   \* the thread that holds _send_lock, or "nobody"
    recvLock,   \* the thread that holds _recv_lock, or "nobody"
    thread,     \* where each thread is, see Idle
    out,        \* parts written to the socket, each with its writer
    wire,       \* parts received and not yet read
    unsent,     \* the payload of a frame of which only the length came
    torn,       \* a timeout has struck between a length and its payload
    adrift,     \* since then no reading has ended between two frames
    arrived,    \* messages the shell has sent on this connection
    taken,      \* those of them _recv_message() has returned
    calls       \* calls so far

vars == <<sock, connected, timeout, sendLock, recvLock, thread, out, wire,
          unsent, torn, adrift, arrived, taken, calls>>
connection == <<sock, connected, unsent, arrived>>

(* A thread outside every call.  `msg` is what it is about to send or has  *)
(* received, `timed` whether the socket operation it is in found a timeout *)
(* when it began, `result` how the call ends.                              *)
Idle == [step |-> "idle", call |-> "none", msg |-> "none", timed |-> FALSE,
         result |-> "none"]

AllIdle == \A t \in Threads : thread[t].step = "idle"

Init ==
    /\ sock = "none" /\ connected = FALSE /\ timeout = "none"
    /\ sendLock = "nobody" /\ recvLock = "nobody"
    /\ thread = [t \in Threads |-> Idle]
    /\ out = <<>> /\ wire = <<>> /\ unsent = <<>> /\ torn = FALSE /\ adrift = FALSE
    /\ arrived = <<>> /\ taken = <<>>
    /\ calls = 0

-----------------------------------------------------------------------------
(* Connection. *)

(* A refused connection leaves a socket every operation on which raises,   *)
(* as does one the shell has closed.                                       *)
Connect ==
    /\ AllIdle /\ calls < MaxCalls
    /\ calls' = calls + 1
    /\ sock' \in {"up", "closed"}
    /\ connected' = (connected \/ sock' = "up")
    /\ timeout' = "connect"
    /\ out' = <<>> /\ wire' = <<>> /\ unsent' = <<>>
    /\ torn' = FALSE /\ adrift' = FALSE
    /\ arrived' = <<>> /\ taken' = <<>>
    /\ UNCHANGED <<sendLock, recvLock, thread>>

(* Whatever goes wrong with the farewell is ignored; what the socket held  *)
(* goes with it.                                                           *)
Disconnect ==
    /\ AllIdle /\ sock # "none"
    /\ \E t \in Threads :
         out' \in {out, out \o <<<<t, "len">>>>, out \o <<<<t, "len">>, <<t, "Shutdown">>>>}
    /\ sock' = "none" /\ connected' = FALSE /\ timeout' = "none"
    /\ wire' = <<>> /\ unsent' = <<>>
    /\ torn' = FALSE /\ adrift' = FALSE
    /\ arrived' = <<>> /\ taken' = <<>>
    /\ UNCHANGED <<sendLock, recvLock, thread, calls>>

-----------------------------------------------------------------------------
(* How a method begins and ends. *)

CallOf(t, m) ==
    /\ sock # "none" /\ thread[t].step = "idle" /\ calls < MaxCalls
    /\ m \in Methods
    /\ calls' = calls + 1
    /\ UNCHANGED <<connection, sendLock, recvLock, out, wire, torn, adrift, taken>>

CallRequest(t) ==
    \E m \in DOMAIN Request :
      /\ CallOf(t, m)
      /\ thread' = [thread EXCEPT ![t].step = "send", ![t].call = m, ![t].msg = Request[m]]
      /\ UNCHANGED timeout

(* With timeout_s or without. *)
CallWait(t) ==
    \E m \in Waits \ DOMAIN Request :
      /\ CallOf(t, m)
      /\ thread' = [thread EXCEPT ![t].step = "recv", ![t].call = m]
      /\ timeout' \in {timeout, "wait"}

NoFinally(t, r) == thread' = [thread EXCEPT ![t] = Idle]  \* faulty

(* Out of the method, through its finally when it is inside the try block. *)
Leave(t, r) ==
    thread' =
      IF thread[t].call \in Waits /\ thread[t].msg # "SpeakInterruptible"
      THEN [thread EXCEPT ![t].step = "finally", ![t].result = r]
      ELSE [thread EXCEPT ![t] = Idle]

Finally(t) ==
    /\ thread[t].step = "finally"
    /\ timeout' = "none"
    /\ thread' = [thread EXCEPT ![t] = Idle]
    /\ UNCHANGED <<connection, sendLock, recvLock, out, wire, torn, adrift, taken, calls>>

-----------------------------------------------------------------------------
(* _send_message(). *)

SendUnlocked(t) ==  \* faulty: without the lock
    /\ thread[t].step = "send"
    /\ out' = Append(out, <<t, "len">>)
    /\ thread' = [thread EXCEPT ![t].step = "payload", ![t].timed = timeout # "none"]
    /\ UNCHANGED <<connection, timeout, sendLock, recvLock, wire, torn, adrift, taken, calls>>

SendUnderBothLocks(t) ==  \* faulty: one lock for both directions
    /\ thread[t].step = "send" /\ sendLock = "nobody" /\ recvLock = "nobody"
    /\ sendLock' = t
    /\ out' = Append(out, <<t, "len">>)
    /\ thread' = [thread EXCEPT ![t].step = "payload", ![t].timed = timeout # "none"]
    /\ UNCHANGED <<connection, timeout, recvLock, wire, torn, adrift, taken, calls>>

SendHeader(t) ==
    /\ thread[t].step = "send" /\ sendLock = "nobody"
    /\ sendLock' = t
    /\ out' = Append(out, <<t, "len">>)
    /\ thread' = [thread EXCEPT ![t].step = "payload", ![t].timed = timeout # "none"]
    /\ UNCHANGED <<connection, timeout, recvLock, wire, torn, adrift, taken, calls>>

(* A text over MAX_MESSAGE_SIZE. *)
SendTooLarge(t) ==
    /\ thread[t].step = "send" /\ sendLock = "nobody"
    /\ thread[t].msg \in {"Speak", "SpeakInterruptible"}
    /\ Leave(t, "raised")
    /\ UNCHANGED <<connection, timeout, sendLock, recvLock, out, wire, torn, adrift, taken, calls>>

AfterSend(t) ==
    CASE thread[t].msg = "Pong" -> "recv"
      [] thread[t].call = "ping" -> "recv"
      [] thread[t].call = "speak_interruptible" -> "arm"
      [] OTHER -> "idle"

SendPayload(t) ==
    /\ thread[t].step = "payload"
    /\ sendLock' = "nobody"
    /\ out' = Append(out, <<t, thread[t].msg>>)
    /\ thread' = IF AfterSend(t) = "idle" THEN [thread EXCEPT ![t] = Idle]
                 ELSE [thread EXCEPT ![t].step = AfterSend(t), ![t].timed = FALSE]
    /\ UNCHANGED <<connection, timeout, recvLock, wire, torn, adrift, taken, calls>>

(* sendall() gives up inside the frame: the shell has gone, or it does not *)
(* read and the timeout expires.                                           *)
SendFails(t) ==
    /\ thread[t].step = "payload"
    /\ sendLock' = "nobody"
    /\ \/ sock = "closed" /\ Leave(t, "raised")
       \/ thread[t].timed /\ Leave(t, "timeout")
    /\ UNCHANGED <<connection, timeout, recvLock, out, wire, torn, adrift, taken, calls>>

-----------------------------------------------------------------------------
(* _recv_message(). *)

ReceiveUnlocked(t) ==  \* faulty: without the lock
    /\ thread[t].step = "recv"
    /\ thread' = [thread EXCEPT ![t].step = "header", ![t].timed = timeout # "none"]
    /\ UNCHANGED <<connection, timeout, sendLock, recvLock, out, wire, torn, adrift, taken, calls>>

Receive(t) ==
    /\ thread[t].step = "recv" /\ recvLock = "nobody"
    /\ recvLock' = t
    /\ thread' = [thread EXCEPT ![t].step = "header", ![t].timed = timeout # "none"]
    /\ UNCHANGED <<connection, timeout, sendLock, out, wire, torn, adrift, taken, calls>>

Reading(t) == thread[t].step \in {"header", "body"}

(* The part that is next is the one recv() takes it for. *)
InStep(t) == ~adrift /\ (Head(wire) = "len" <=> thread[t].step = "header")

ReadPart(t) ==
    /\ Reading(t) /\ wire # <<>> /\ InStep(t)
    /\ wire' = Tail(wire)
    /\ UNCHANGED <<connection, timeout, sendLock, out, torn, adrift, calls>>

ReadsOn(t, s) ==
    /\ thread' = [thread EXCEPT ![t].step = s, ![t].timed = timeout # "none"]
    /\ UNCHANGED recvLock

ReadHeader(t) ==
    /\ ReadPart(t)
    /\ thread[t].step = "header"
    /\ ReadsOn(t, "body")
    /\ UNCHANGED taken

Took(t, m) ==
    /\ recvLock' = "nobody"
    /\ thread' = [thread EXCEPT ![t].step = "got", ![t].msg = m, ![t].timed = FALSE]

ReadBody(t) ==
    /\ ReadPart(t)
    /\ thread[t].step = "body"
    /\ Took(t, Head(wire))
    /\ taken' = Append(taken, Head(wire))

(* Where a reading ends that began inside a frame: inside the part that is *)
(* next, at its end, or inside the part after it.  Only the end of a       *)
(* payload is the beginning of a frame.                                    *)
Strays ==
    \/ wire' = wire /\ adrift' = TRUE
    \/ wire' = Tail(wire) /\ adrift' = (Head(wire) = "len")
    \/ wire' = Tail(wire) /\ wire' # <<>> /\ adrift' = TRUE

(* Out of step with the frames, recv() takes text for a length: too large, *)
(* or one that swallows the part and goes on to the next; and what it then *)
(* unpacks is an error or no message at all.                               *)
ReadNonsense(t) ==
    /\ Reading(t) /\ wire # <<>> /\ ~InStep(t)
    /\ \/ ReadsOn(t, "body") /\ wire' = wire /\ adrift' = TRUE /\ thread[t].step = "header"
       \/ \E s \in {thread[t].step, "body"} :
            ReadsOn(t, s) /\ wire' = Tail(wire) /\ adrift' = TRUE
       \/ Leave(t, "raised") /\ recvLock' = "nobody" /\ Strays
       \/ thread[t].step = "body" /\ Took(t, "nonsense") /\ Strays
    /\ UNCHANGED <<connection, timeout, sendLock, out, torn, taken, calls>>

(* All that came has been read and is thrown away: what comes next is the  *)
(* beginning of a frame, unless a payload is still due.                    *)
RecvTimesOut(t) ==
    /\ Reading(t) /\ wire = <<>> /\ sock = "up"
    /\ thread[t].timed
    /\ torn' = (torn \/ thread[t].step = "body")
    /\ adrift' = (unsent # <<>>)
    /\ recvLock' = "nobody"
    /\ Leave(t, "timeout")
    /\ UNCHANGED <<connection, timeout, sendLock, out, wire, taken, calls>>

SpinAtEof(t) ==  \* faulty: an empty chunk is no data yet
    /\ Reading(t) /\ wire = <<>> /\ sock = "closed"
    /\ thread' = [thread EXCEPT ![t].timed = timeout # "none"]
    /\ UNCHANGED <<connection, timeout, sendLock, recvLock, out, wire, torn, adrift, taken, calls>>

RecvEof(t) ==
    /\ Reading(t) /\ wire = <<>> /\ sock = "closed"
    /\ recvLock' = "nobody"
    /\ Leave(t, "raised")
    /\ UNCHANGED <<connection, timeout, sendLock, out, wire, torn, adrift, taken, calls>>

-----------------------------------------------------------------------------
React(t) ==
    /\ thread[t].step = "got"
    /\ LET r == Reaction(thread[t].call, thread[t].msg)
       IN \/ r = "return" /\ Leave(t, "returned")
          \/ r = "raise" /\ Leave(t, "raised")
          \/ r = "again" /\ thread' = [thread EXCEPT ![t].step = "recv", ![t].msg = "none"]
          \/ r = "pong" /\ thread' = [thread EXCEPT ![t].step = "send", ![t].msg = "Pong"]
    /\ UNCHANGED <<connection, timeout, sendLock, recvLock, out, wire, torn, adrift, taken, calls>>

(* speak_interruptible() sets its timeout between the request and the try. *)
Arm(t) ==
    /\ thread[t].step = "arm"
    /\ timeout' = "speak"
    /\ thread' = [thread EXCEPT ![t].step = "recv", ![t].msg = "none"]
    /\ UNCHANGED <<connection, sendLock, recvLock, out, wire, torn, adrift, taken, calls>>

-----------------------------------------------------------------------------
(* The shell. *)

ShellStarts ==
    /\ sock = "up" /\ unsent = <<>> /\ Len(arrived) < MaxMessages
    /\ \E m \in ShellMessages : arrived' = Append(arrived, m) /\ unsent' = <<m>>
    /\ wire' = Append(wire, "len")
    /\ UNCHANGED <<sock, connected, timeout, sendLock, recvLock, thread, out, torn, adrift, taken, calls>>

ShellFinishes ==
    /\ sock = "up" /\ unsent # <<>>
    /\ wire' = wire \o unsent
    /\ unsent' = <<>>
    /\ UNCHANGED <<sock, connected, timeout, sendLock, recvLock, thread, out, torn, adrift,
                   arrived, taken, calls>>

(* In order, or by a reset that loses what was not yet read. *)
ShellCloses ==
    /\ sock = "up"
    /\ sock' = "closed"
    /\ wire' \in {wire, <<>>}
    /\ UNCHANGED <<connected, timeout, sendLock, recvLock, thread, out, unsent, torn, adrift,
                   arrived, taken, calls>>

-----------------------------------------------------------------------------
Progress(t) ==
    \/ SendHeader(t) \/ SendPayload(t) \/ Arm(t)
    \/ Receive(t) \/ ReadHeader(t) \/ ReadBody(t) \/ ReadNonsense(t) \/ RecvEof(t)
    \/ React(t) \/ Finally(t)

Next ==
    \/ Connect \/ Disconnect
    \/ ShellStarts \/ ShellFinishes \/ ShellCloses
    \/ \E t \in Threads :
         \/ CallRequest(t) \/ CallWait(t)
         \/ SendTooLarge(t) \/ SendFails(t) \/ RecvTimesOut(t)
         \/ Progress(t)

Spec == Init /\ [][Next]_vars

(* A thread that can go on does, and gets a lock that is free again and    *)
(* again; the shell reads what it is sent; and a part is finite, so that   *)
(* readings inside it come to its end.  Nothing else is promised.          *)
FairSpec ==
    /\ Spec
    /\ \A t \in Threads : SF_vars(Progress(t)) /\ SF_vars(ReadNonsense(t) /\ wire' # wire)
=============================================================================
