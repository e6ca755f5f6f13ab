----------------------- MODULE BrainBridgeProperties ------------------------
(***************************************************************************)
(* What the bridge keeps when several threads share it.                    *)
(***************************************************************************)
EXTENDS BrainBridge, SequencesExt

Steps == {"idle", "send", "payload", "arm", "recv", "header", "body", "got", "finally"}

Parts == ShellMessages \cup {"len"}

(* The variables hold values of their types, and each lock is held by the  *)
(* thread that is inside the block it guards.                              *)
TypeOK ==
    /\ sock \in {"none", "up", "closed"} /\ connected \in BOOLEAN
    /\ timeout \in {"none", "connect", "wait", "speak"}
    /\ sendLock \in Threads \cup {"nobody"} /\ recvLock \in Threads \cup {"nobody"}
    /\ DOMAIN thread = Threads
    /\ \A t \in Threads :
         /\ thread[t].step \in Steps
         /\ thread[t].call \in Methods \cup {"none"}
         /\ sendLock = t <=> thread[t].step = "payload"
         /\ recvLock = t <=> Reading(t)
    /\ \A i \in DOMAIN out : out[i][1] \in Threads
    /\ \A i \in DOMAIN wire : wire[i] \in Parts
    /\ torn \in BOOLEAN /\ adrift \in BOOLEAN
    /\ calls \in 0 .. MaxCalls

(* Whatever the threads send at the same time, and whichever sends fail    *)
(* half way, a payload on the socket comes directly after the length       *)
(* written for it by the same thread (_send_message under _send_lock).     *)
SentWhole ==
    \A i \in DOMAIN out :
      out[i][2] # "len" => i > 1 /\ out[i - 1] = <<out[i][1], "len">>

(* The parts of the frames of some messages. *)
FramesOf(ms) == [k \in 1 .. 2 * Len(ms) |-> IF k % 2 = 1 THEN "len" ELSE ms[k \div 2]]

(* How many parts of the shell's frames have been read: those of the       *)
(* messages taken, and a length whose payload a thread is waiting for.     *)
PartsRead ==
    2 * Len(taken) + (IF \E t \in Threads : thread[t].step = "body" THEN 1 ELSE 0)

(* As long as no timeout has struck inside a frame, _recv_message returns  *)
(* the shell's messages to its callers in the order they were sent, none   *)
(* lost, none twice, whichever thread reads which, and while the shell is  *)
(* there every part that has not been read is still to come, in its place. *)
ReceivedInOrder ==
    torn \/ /\ IsPrefix(taken, arrived)
            /\ sock = "up" => wire \o unsent =
                   SubSeq(FramesOf(arrived), PartsRead + 1, 2 * Len(arrived))

(* A timeout set for one call does not outlive it: when the socket has     *)
(* one, other than connect()'s, some thread is in a call that resets it,   *)
(* whatever was raised on the way (the finally blocks).                    *)
TimeoutRestored ==
    timeout \in {"wait", "speak"} =>
      \E t \in Threads : thread[t].call \in Waits /\ thread[t].msg # "SpeakInterruptible"

(* A thread that waits for a message, for any time, does not keep another  *)
(* from sending: whoever wants to send gets to (the two locks).            *)
SendsGetThrough ==
    \A t \in Threads : thread[t].step = "send" ~> thread[t].step # "send"

(* Once the shell has gone every call comes to its end, those that wait    *)
(* without a timeout and those that wait for their turn to read included   *)
(* (_recv_exact raises at the end of the stream).                          *)
ClosedEndsCalls ==
    \A t \in Threads :
      sock = "closed" /\ thread[t].step # "idle" ~> thread[t].step = "idle"

-----------------------------------------------------------------------------
(* What a caller sees of the threads' places, and of the two sockets.      *)
SeenStep(t) ==
    CASE thread[t].step \in {"idle", "finally"}             -> "out"
      [] thread[t].step \in {"send", "payload"}             -> "send"
      [] thread[t].step \in {"arm", "recv", "header", "body"} -> "recv"
      [] OTHER                                              -> "got"

Seen(t) ==
    [step |-> SeenStep(t),
     call |-> IF SeenStep(t) = "out" THEN "none" ELSE thread[t].call,
     msg  |-> IF SeenStep(t) \in {"send", "got"} THEN thread[t].msg ELSE "none"]

SeenCalls == [t \in Threads |-> Seen(t)]

(* The frames the shell can read: all up to the first that is not whole.   *)
AreFrames(parts, n) ==
    2 * n <= Len(parts) /\ \A k \in 1 .. n : parts[2 * k][2] # "len"

WholeFrames(parts) ==
    CHOOSE n \in 0 .. Len(parts) : AreFrames(parts, n) /\ ~AreFrames(parts, n + 1)

Payloads(parts, n) == [k \in 1 .. n |-> parts[2 * k][2]]

Said == Payloads(out, WholeFrames(out))

(* A length stands without its payload, and nobody is about to write it.   *)
FrameBroken ==
    \/ Len(out) >= 2 * WholeFrames(out) + 2
    \/ Len(out) = 2 * WholeFrames(out) + 1 /\ sendLock = "nobody"

(* The payloads among the parts, every second one, the first of which may  *)
(* be read in part already.                                                *)
PayloadsIn(parts) ==
    LET k == IF parts # <<>> /\ Head(parts) = "len" THEN 0 ELSE 1
    IN  [i \in 1 .. (Len(parts) + k) \div 2 |-> parts[2 * i - k]]

NotTaken == PayloadsIn(wire)

Protocol == INSTANCE BridgeProtocol WITH
    Replies <- ShellMessages,
    link    <- sock,
    caller  <- SeenCalls,
    said    <- Said,
    broken  <- FrameBroken,
    inbox   <- NotTaken

(* However the threads' calls interleave, with two locks and four socket   *)
(* operations for a message, each message crosses as if in one step, both  *)
(* ways, and nothing but a send or a wait that gives up inside a frame     *)
(* shows that it does not: the shell is deaf from then on, the threads     *)
(* hear nonsense and lose messages until they are back at the beginning of *)
(* a frame (_send_message, _recv_message).                                 *)
MessagesAreAtomic == Protocol!Spec
=============================================================================
