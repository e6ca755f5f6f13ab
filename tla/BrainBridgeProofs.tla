------------------------- MODULE BrainBridgeProofs --------------------------
(***************************************************************************)
(* Proofs about BrainBridge: for any number of threads, calls and messages *)
(* each lock is held by the thread inside its block, frames go out whole,  *)
(* no timeout outlives its call, messages come in in order, and the bridge *)
(* implements BridgeProtocol.                                              *)
(***************************************************************************)
EXTENDS BrainBridgeProperties, SequenceTheorems, TLAPS

Results == {"none", "returned", "raised", "timeout"}

Msgs == {"Speak", "StopSpeaking", "SetMicState", "Configure", "SpeakInterruptible", "Ping",
         "Ready", "WakeWordDetected", "UserSpeech", "BargeIn", "Pong", "Shutdown",
         "none", "nonsense"}

ThreadStates == [step : Steps, call : Methods \cup {"none"}, msg : Msgs, timed : BOOLEAN,
                 result : Results]

(* The types of all but the threads and the locks. *)
Socket ==
    /\ sock \in {"none", "up", "closed"} /\ connected \in BOOLEAN
    /\ timeout \in {"none", "connect", "wait", "speak"}
    /\ out \in Seq(Threads \X (Msgs \cup {"len"}))
    /\ wire \in Seq(Parts) /\ unsent \in Seq(ShellMessages)
    /\ arrived \in Seq(ShellMessages) /\ Len(arrived) \in 0 .. MaxMessages
    /\ torn \in BOOLEAN /\ adrift \in BOOLEAN
    /\ calls \in 0 .. MaxCalls

(* Each lock is held by the thread that is inside its block. *)
Locks ==
    /\ sendLock \in Threads \cup {"nobody"} /\ recvLock \in Threads \cup {"nobody"}
    /\ \A t \in Threads : sendLock = t <=> thread[t].step = "payload"
    /\ \A t \in Threads : recvLock = t <=> thread[t].step \in {"header", "body"}

(* Between two calls a thread keeps nothing, only speak_interruptible sets *)
(* its timeout after a request, and a wait that requests nothing sends     *)
(* nothing but a Pong.                                                     *)
Fit(s, c, m) ==
    /\ s = "idle" => c = "none" /\ m = "none"
    /\ s = "arm" => c = "speak_interruptible"
    /\ s \in {"send", "payload"} /\ c \in {"wait_for_wake_word", "wait_for_speech"} => m = "Pong"

Steady == \A t \in Threads : Fit(thread[t].step, thread[t].call, thread[t].msg)

(* The length a thread has written is the last part, until its payload. *)
Frames ==
    /\ SentWhole
    /\ \A t \in Threads : thread[t].step = "payload" => out # <<>> /\ out[Len(out)] = <<t, "len">>

Inv ==
    /\ thread \in [Threads -> ThreadStates]
    /\ Socket /\ Locks /\ Steady /\ Frames /\ TimeoutRestored

-----------------------------------------------------------------------------
(* What a step may do for one thread. *)

Turns(t, s, c, m) ==
    /\ thread' \in [Threads -> ThreadStates]
    /\ thread'[t].step = s /\ thread'[t].call = c /\ thread'[t].msg = m
    /\ \A u \in Threads \ {t} : thread'[u] = thread[u]

(* The lock for sending and what is sent under it. *)
Sends(t, s) ==
    \/ UNCHANGED <<sendLock, out>> /\ (s = "payload" <=> thread[t].step = "payload")
    \/ /\ sendLock = "nobody" /\ sendLock' = t /\ s = "payload"
       /\ out' = Append(out, <<t, "len">>)
    \/ /\ thread[t].step = "payload" /\ sendLock' = "nobody" /\ s # "payload"
       /\ \/ out' = out
          \/ \E m \in Msgs : out' = Append(out, <<t, m>>)

Receives(t, s) ==
    \/ recvLock' = recvLock
       /\ (s \in {"header", "body"} <=> thread[t].step \in {"header", "body"})
    \/ recvLock = "nobody" /\ recvLock' = t /\ s = "header"
    \/ /\ thread[t].step \in {"header", "body"} /\ recvLock' = "nobody"
       /\ s \notin {"header", "body"}

(* Inside the try block that resets the timeout. *)
InTry(c, m) == c \in Waits /\ m # "SpeakInterruptible"

Times(t, c, m) ==
    \/ timeout' = timeout /\ (InTry(thread[t].call, thread[t].msg) => InTry(c, m))
    \/ timeout' = "none"
    \/ timeout' \in {"wait", "speak"} /\ InTry(c, m)

-----------------------------------------------------------------------------
Parted == Threads \X (Msgs \cup {"len"})

Whole(q) == \A i \in DOMAIN q : q[i][2] # "len" => i > 1 /\ q[i - 1] = <<q[i][1], "len">>

(* One more part: a length, or the payload of the length before it. *)
LEMMA Grow ==
    ASSUME NEW q \in Seq(Parted), Whole(q), NEW p \in Parted,
           p[2] = "len" \/ (q # <<>> /\ q[Len(q)] = <<p[1], "len">>)
    PROVE  /\ Append(q, p) \in Seq(Parted) /\ Whole(Append(q, p))
           /\ Append(q, p) # <<>> /\ Append(q, p)[Len(Append(q, p))] = p
  <1> DEFINE r == Append(q, p)
  <1>r. r \in Seq(Parted) /\ Len(q) \in Nat
    OBVIOUS
  <1>l. Len(r) = Len(q) + 1 /\ r[Len(q) + 1] = p
    OBVIOUS
  <1>i. \A i \in 1 .. Len(q) : r[i] = q[i]
    OBVIOUS
  <1>2. Len(q) # 0 <=> q # <<>>
    OBVIOUS
  <1> HIDE DEF r
  <1>d. DOMAIN q = 1 .. Len(q) /\ DOMAIN r = 1 .. Len(q) + 1 /\ r # <<>>
    BY <1>r, <1>l
  <1>1. /\ r \in Seq(Parted) /\ r # <<>> /\ Len(r) = Len(q) + 1 /\ r[Len(q) + 1] = p
        /\ \A i \in 1 .. Len(q) : r[i] = q[i]
        /\ DOMAIN q = 1 .. Len(q) /\ DOMAIN r = 1 .. Len(q) + 1 /\ Len(q) \in Nat
    BY <1>r, <1>l, <1>i, <1>d
  <1>3. ASSUME NEW i \in DOMAIN r, r[i][2] # "len" PROVE i > 1 /\ r[i - 1] = <<r[i][1], "len">>
    <2>1. CASE i \in 1 .. Len(q)
      <3>1. i > 1 /\ q[i - 1] = <<q[i][1], "len">> /\ r[i] = q[i]
        BY <1>1, <1>3, <2>1 DEF Whole
      <3>2. i - 1 \in 1 .. Len(q)
        BY <1>1, <2>1, <3>1
      <3> QED BY <1>1, <3>1, <3>2
    <2>2. CASE i = Len(q) + 1
      <3>1. Len(q) # 0 /\ q[Len(q)] = <<p[1], "len">>
        BY <1>1, <1>2, <1>3, <2>2
      <3>2. Len(q) \in 1 .. Len(q) /\ i - 1 = Len(q) /\ i > 1
        BY <1>1, <2>2, <3>1
      <3> QED BY <1>1, <2>2, <3>1, <3>2
    <2> QED BY <1>1, <1>3, <2>1, <2>2
  <1> QED BY <1>1, <1>3 DEF Whole, r

LEMMA SentIsWhole == (SentWhole <=> Whole(out)) /\ (SentWhole' <=> Whole(out'))
  BY DEF SentWhole, Whole

LEMMA InitInv == Init => Inv
  <1> SUFFICES ASSUME Init PROVE Inv
    OBVIOUS
  <1> USE DEF Init
  <1>1. thread \in [Threads -> ThreadStates]
    BY BridgeAssumption DEF Idle, ThreadStates, Steps, Msgs, Results
  <1>2. Socket
    <2>1. 0 \in 0 .. MaxMessages /\ 0 \in 0 .. MaxCalls
      BY BridgeAssumption
    <2>2. \A S : <<>> \in Seq(S) /\ Len(<<>>) = 0
      OBVIOUS
    <2> QED BY <2>1, <2>2 DEF Socket
  <1>3. Locks /\ Steady
    BY BridgeAssumption DEF Locks, Steady, Fit, Idle
  <1>4. Frames /\ TimeoutRestored
    BY DEF Frames, SentWhole, TimeoutRestored, Idle
  <1> QED BY <1>1, <1>2, <1>3, <1>4 DEF Inv

(* A turn of one thread that does with the locks, the socket and the       *)
(* timeout what the four definitions above allow keeps the invariant.      *)
LEMMA Turn ==
    ASSUME Inv, NEW t \in Threads, NEW s, NEW c, NEW m,
           Turns(t, s, c, m), Fit(s, c, m), Socket',
           Sends(t, s), Receives(t, s), Times(t, c, m)
    PROVE  Inv'
  <1>1. Locks'
    BY BridgeAssumption DEF Inv, Locks, Turns, Sends, Receives
  <1>2. Steady'
    BY DEF Inv, Steady, Turns
  <1>3. Frames'
    <2>1. out \in Seq(Threads \X (Msgs \cup {"len"})) /\ Frames /\ Locks
      BY DEF Inv, Socket
    <2>2. \A u \in Threads : u # t => (thread'[u].step = "payload" <=> thread[u].step = "payload")
      BY DEF Turns
    <2>3. thread'[t].step = s
      BY DEF Turns
    <2>4. CASE out' = out /\ (s = "payload" => thread[t].step = "payload")
      BY <2>1, <2>2, <2>3, <2>4 DEF Frames, SentWhole
    <2>5. CASE /\ sendLock = "nobody" /\ s = "payload"
               /\ out' = Append(out, <<t, "len">>)
      <3>1. out \in Seq(Parted) /\ Whole(out) /\ <<t, "len">> \in Parted
        BY <2>1, SentIsWhole DEF Frames, Parted
      <3>2. Whole(out') /\ out' # <<>> /\ out'[Len(out')] = <<t, "len">>
        BY <2>5, <3>1, Grow
      <3>3. \A u \in Threads : thread'[u].step = "payload" => u = t
        BY <2>1, <2>2, <2>5, BridgeAssumption DEF Locks
      <3> QED BY <3>2, <3>3, SentIsWhole DEF Frames
    <2>6. CASE /\ thread[t].step = "payload" /\ s # "payload"
               /\ \E x \in Msgs : out' = Append(out, <<t, x>>)
      <3>1. PICK x \in Msgs : out' = Append(out, <<t, x>>)
        BY <2>6
      <3>2. out \in Seq(Parted) /\ Whole(out) /\ <<t, x>> \in Parted
        BY <2>1, SentIsWhole DEF Frames, Parted
      <3>3. out # <<>> /\ out[Len(out)] = <<t, "len">>
        BY <2>1, <2>6 DEF Frames
      <3>4. Whole(out')
        BY <3>1, <3>2, <3>3, Grow
      <3>5. \A u \in Threads : thread'[u].step # "payload"
        BY <2>1, <2>2, <2>3, <2>6 DEF Locks
      <3> QED BY <3>4, <3>5, SentIsWhole DEF Frames
    <2> QED BY <2>4, <2>5, <2>6 DEF Sends
  <1>4. TimeoutRestored'
    BY DEF Inv, Turns, Times, InTry, TimeoutRestored
  <1> QED BY <1>1, <1>2, <1>3, <1>4 DEF Inv, Turns

(* One record in the place of another. *)
LEMMA Put ==
    ASSUME thread \in [Threads -> ThreadStates], NEW t \in Threads, NEW r \in ThreadStates,
           thread' = [thread EXCEPT ![t] = r]
    PROVE  Turns(t, r.step, r.call, r.msg)
  BY DEF Turns

(* The updates the actions make. *)
LEMMA UpdateIdle ==
    ASSUME thread \in [Threads -> ThreadStates], NEW t \in Threads,
           thread' = [thread EXCEPT ![t] = Idle]
    PROVE  Turns(t, "idle", "none", "none")
  <1>1. Idle \in ThreadStates
    BY BridgeAssumption DEF ThreadStates, Idle, Steps, Msgs, Results
  <1> QED BY <1>1, Put DEF Idle

LEMMA UpdateTimed ==
    ASSUME thread \in [Threads -> ThreadStates], NEW t \in Threads,
           NEW s \in Steps,
           thread' = [thread EXCEPT ![t].step = s, ![t].timed = timeout # "none"]
    PROVE  Turns(t, s, thread[t].call, thread[t].msg)
  <1> DEFINE q == [thread[t] EXCEPT !.step = s, !.timed = timeout # "none"]
  <1>1. q \in ThreadStates /\ q.step = s /\ q.call = thread[t].call /\ q.msg = thread[t].msg
    BY DEF ThreadStates
  <1>2. thread' = [thread EXCEPT ![t] = q]
    OBVIOUS
  <1> HIDE DEF q
  <1> QED BY <1>1, <1>2, Put

LEMMA UpdateResult ==
    ASSUME thread \in [Threads -> ThreadStates], NEW t \in Threads,
           NEW s \in Steps, NEW r \in Results,
           thread' = [thread EXCEPT ![t].step = s, ![t].result = r]
    PROVE  Turns(t, s, thread[t].call, thread[t].msg)
  <1> DEFINE q == [thread[t] EXCEPT !.step = s, !.result = r]
  <1>1. q \in ThreadStates /\ q.step = s /\ q.call = thread[t].call /\ q.msg = thread[t].msg
    BY DEF ThreadStates
  <1>2. thread' = [thread EXCEPT ![t] = q]
    OBVIOUS
  <1> HIDE DEF q
  <1> QED BY <1>1, <1>2, Put

LEMMA UpdateSent ==
    ASSUME thread \in [Threads -> ThreadStates], NEW t \in Threads,
           NEW s \in Steps,
           thread' = [thread EXCEPT ![t].step = s, ![t].timed = FALSE]
    PROVE  Turns(t, s, thread[t].call, thread[t].msg)
  <1> DEFINE q == [thread[t] EXCEPT !.step = s, !.timed = FALSE]
  <1>1. q \in ThreadStates /\ q.step = s /\ q.call = thread[t].call /\ q.msg = thread[t].msg
    BY DEF ThreadStates
  <1>2. thread' = [thread EXCEPT ![t] = q]
    OBVIOUS
  <1> HIDE DEF q
  <1> QED BY <1>1, <1>2, Put

LEMMA UpdateMsg ==
    ASSUME thread \in [Threads -> ThreadStates], NEW t \in Threads,
           NEW s \in Steps, NEW m \in Msgs,
           thread' = [thread EXCEPT ![t].step = s, ![t].msg = m]
    PROVE  Turns(t, s, thread[t].call, m)
  <1> DEFINE q == [thread[t] EXCEPT !.step = s, !.msg = m]
  <1>1. q \in ThreadStates /\ q.step = s /\ q.call = thread[t].call /\ q.msg = m
    BY DEF ThreadStates
  <1>2. thread' = [thread EXCEPT ![t] = q]
    OBVIOUS
  <1> HIDE DEF q
  <1> QED BY <1>1, <1>2, Put

LEMMA UpdateTaken ==
    ASSUME thread \in [Threads -> ThreadStates], NEW t \in Threads,
           NEW s \in Steps, NEW m \in Msgs,
           thread' = [thread EXCEPT ![t].step = s, ![t].msg = m, ![t].timed = FALSE]
    PROVE  Turns(t, s, thread[t].call, m)
  <1> DEFINE q == [thread[t] EXCEPT !.step = s, !.msg = m, !.timed = FALSE]
  <1>1. q \in ThreadStates /\ q.step = s /\ q.call = thread[t].call /\ q.msg = m
    BY DEF ThreadStates
  <1>2. thread' = [thread EXCEPT ![t] = q]
    OBVIOUS
  <1> HIDE DEF q
  <1> QED BY <1>1, <1>2, Put

LEMMA UpdateCall ==
    ASSUME thread \in [Threads -> ThreadStates], NEW t \in Threads,
           NEW s \in Steps, NEW c \in Methods \cup {"none"},
           thread' = [thread EXCEPT ![t].step = s, ![t].call = c]
    PROVE  Turns(t, s, c, thread[t].msg)
  <1> DEFINE q == [thread[t] EXCEPT !.step = s, !.call = c]
  <1>1. q \in ThreadStates /\ q.step = s /\ q.call = c /\ q.msg = thread[t].msg
    BY DEF ThreadStates
  <1>2. thread' = [thread EXCEPT ![t] = q]
    OBVIOUS
  <1> HIDE DEF q
  <1> QED BY <1>1, <1>2, Put

LEMMA UpdateRequest ==
    ASSUME thread \in [Threads -> ThreadStates], NEW t \in Threads,
           NEW s \in Steps, NEW c \in Methods \cup {"none"}, NEW m \in Msgs,
           thread' = [thread EXCEPT ![t].step = s, ![t].call = c, ![t].msg = m]
    PROVE  Turns(t, s, c, m)
  <1> DEFINE q == [thread[t] EXCEPT !.step = s, !.call = c, !.msg = m]
  <1>1. q \in ThreadStates /\ q.step = s /\ q.call = c /\ q.msg = m
    BY DEF ThreadStates
  <1>2. thread' = [thread EXCEPT ![t] = q]
    OBVIOUS
  <1> HIDE DEF q
  <1> QED BY <1>1, <1>2, Put

(* The requests of the methods. *)
LEMMA RequestFacts ==
    /\ DOMAIN Request = {"speak", "stop_speaking", "set_mic_state", "configure",
                         "speak_interruptible", "ping"}
    /\ \A m \in DOMAIN Request : Request[m] \in Msgs
  BY DEF Request, Msgs

(* The way out of a method: through finally inside the try block only. *)
LEMMA Leaves ==
    ASSUME Inv, NEW t \in Threads, NEW r \in Results, Leave(t, r)
    PROVE  \E s \in {"finally", "idle"}, c \in Methods \cup {"none"}, m \in Msgs :
             /\ Turns(t, s, c, m) /\ Fit(s, c, m)
             /\ InTry(thread[t].call, thread[t].msg) => InTry(c, m)
  <1>1. CASE InTry(thread[t].call, thread[t].msg)
    <2>1. thread' = [thread EXCEPT ![t].step = "finally", ![t].result = r]
      BY <1>1 DEF Leave, InTry
    <2>2. Turns(t, "finally", thread[t].call, thread[t].msg)
      BY <2>1, UpdateResult DEF Inv, Steps
    <2>3. thread[t].call \in Methods \cup {"none"} /\ thread[t].msg \in Msgs
      BY DEF Inv, ThreadStates
    <2> QED BY <2>2, <2>3 DEF Fit
  <1>2. CASE ~InTry(thread[t].call, thread[t].msg)
    <2>1. thread' = [thread EXCEPT ![t] = Idle]
      BY <1>2 DEF Leave, InTry
    <2>2. Turns(t, "idle", "none", "none")
      BY <2>1, UpdateIdle DEF Inv
    <2>3. "none" \in Msgs
      BY DEF Msgs
    <2> QED BY <1>2, <2>2, <2>3 DEF Fit
  <1> QED BY <1>1, <1>2

LEMMA LeavesInv ==
    ASSUME Inv, NEW t \in Threads, NEW r \in Results, Leave(t, r), Socket',
           UNCHANGED <<timeout, out>>,
           \/ UNCHANGED sendLock /\ thread[t].step # "payload"
           \/ sendLock' = "nobody" /\ thread[t].step = "payload",
           \/ UNCHANGED recvLock /\ thread[t].step \notin {"header", "body"}
           \/ recvLock' = "nobody" /\ thread[t].step \in {"header", "body"}
    PROVE  Inv'
  <1>1. PICK s \in {"finally", "idle"}, c \in Methods \cup {"none"}, m \in Msgs :
          /\ Turns(t, s, c, m) /\ Fit(s, c, m)
          /\ InTry(thread[t].call, thread[t].msg) => InTry(c, m)
    BY Leaves
  <1>2. Sends(t, s) /\ Receives(t, s) /\ Times(t, c, m)
    BY <1>1 DEF Sends, Receives, Times
  <1> QED BY <1>1, <1>2, Turn

(* Every step keeps the invariant. *)
LEMMA NextInv == Inv /\ [Next]_vars => Inv'
  <1> SUFFICES ASSUME Inv, [Next]_vars PROVE Inv'
    OBVIOUS
  <1> USE DEF connection
  <1>t. /\ thread \in [Threads -> ThreadStates]
        /\ Socket /\ Locks /\ Steady /\ Frames /\ TimeoutRestored
    BY DEF Inv
  <1>u. ASSUME NEW t \in Threads
        PROVE  /\ thread[t].step \in Steps /\ thread[t].call \in Methods \cup {"none"}
               /\ thread[t].msg \in Msgs /\ Fit(thread[t].step, thread[t].call, thread[t].msg)
               /\ sendLock = t <=> thread[t].step = "payload"
               /\ recvLock = t <=> thread[t].step \in {"header", "body"}
    BY <1>t DEF ThreadStates, Steady, Locks
  <1>1. CASE Connect
    <2>1. 0 \in 0 .. MaxMessages /\ calls + 1 \in 0 .. MaxCalls
      BY <1>1, <1>t, BridgeAssumption DEF Connect, Socket
    <2>2. \A S : <<>> \in Seq(S) /\ Len(<<>>) = 0
      OBVIOUS
    <2>3. Socket'
      BY <1>1, <1>t, <2>1, <2>2 DEF Connect, Socket
    <2>4. Frames'
      BY <1>1 DEF Connect, AllIdle, Frames, SentWhole
    <2> QED BY <1>1, <1>t, <2>3, <2>4 DEF Connect, Inv, Locks, Steady, TimeoutRestored
  <1>2. CASE Disconnect
    <2>1. 0 \in 0 .. MaxMessages
      BY BridgeAssumption
    <2>2. \A S : <<>> \in Seq(S) /\ Len(<<>>) = 0
      OBVIOUS
    <2>3. PICK t \in Threads :
            out' \in {out, out \o <<<<t, "len">>>>, out \o <<<<t, "len">>, <<t, "Shutdown">>>>}
      BY <1>2 DEF Disconnect
    <2>4. out \in Seq(Threads \X (Msgs \cup {"len"})) /\ SentWhole
      BY <1>t DEF Socket, Frames
    <2>5. /\ <<t, "len">> \in Threads \X (Msgs \cup {"len"})
          /\ <<t, "Shutdown">> \in Threads \X (Msgs \cup {"len"})
      BY DEF Msgs
    <2>6. out' \in Seq(Threads \X (Msgs \cup {"len"})) /\ SentWhole'
      <3> DEFINE one == Append(out, <<t, "len">>)
                 two == Append(one, <<t, "Shutdown">>)
      <3>1. out \in Seq(Parted) /\ Whole(out) /\ <<t, "len">> \in Parted /\ <<t, "Shutdown">> \in Parted
        BY <2>4, <2>5, SentIsWhole DEF Parted
      <3>2. one \in Seq(Parted) /\ Whole(one) /\ one # <<>> /\ one[Len(one)] = <<t, "len">>
        BY <3>1, Grow
      <3>3. two \in Seq(Parted) /\ Whole(two)
        <4> HIDE DEF one
        <4> QED BY <3>1, <3>2, Grow
      <3>4. out \o <<<<t, "len">>>> = one
        BY <3>1
      <3>5. out \o <<<<t, "len">>, <<t, "Shutdown">>>> = two
        BY <3>1
      <3> HIDE DEF one, two
      <3>6. out' \in Seq(Parted) /\ Whole(out')
        BY <2>3, <3>1, <3>2, <3>3, <3>4, <3>5
      <3> QED BY <3>6, SentIsWhole DEF Parted
    <2>7. Socket' /\ Frames'
      BY <1>2, <1>t, <2>1, <2>2, <2>6 DEF Disconnect, AllIdle, Frames, Socket
    <2> QED BY <1>2, <1>t, <2>7 DEF Disconnect, Inv, Locks, Steady, TimeoutRestored
  <1>3. ASSUME UNCHANGED <<timeout, sendLock, recvLock, thread, out>>, Socket' PROVE Inv'
    BY <1>3, <1>t DEF Inv, Locks, Steady, Frames, SentWhole, TimeoutRestored
  <1>4. CASE ShellStarts
    <2>1. PICK m \in ShellMessages : arrived' = Append(arrived, m) /\ unsent' = <<m>>
      BY <1>4 DEF ShellStarts
    <2>2. /\ arrived' \in Seq(ShellMessages) /\ Len(arrived') \in 0 .. MaxMessages
          /\ unsent' \in Seq(ShellMessages)
      BY <1>4, <1>t, <2>1, BridgeAssumption DEF ShellStarts, Socket
    <2>3. wire' \in Seq(Parts)
      BY <1>4, <1>t DEF ShellStarts, Socket, Parts
    <2> QED BY <1>3, <1>4, <1>t, <2>2, <2>3 DEF ShellStarts, Socket
  <1>5. CASE ShellFinishes
    <2>1. unsent \in Seq(Parts) /\ wire \in Seq(Parts)
      BY <1>t DEF Socket, Parts
    <2>2. wire' \in Seq(Parts) /\ unsent' \in Seq(ShellMessages)
      BY <1>5, <2>1 DEF ShellFinishes
    <2> QED BY <1>3, <1>5, <1>t, <2>2 DEF ShellFinishes, Socket
  <1>6. CASE ShellCloses
    <2>1. wire' \in Seq(Parts)
      <3>1. wire \in Seq(Parts) /\ <<>> \in Seq(Parts)
        BY <1>t DEF Socket
      <3> QED BY <1>6, <3>1 DEF ShellCloses
    <2> QED BY <1>3, <1>6, <1>t, <2>1 DEF ShellCloses, Socket
  <1>7. ASSUME NEW t \in Threads, CallRequest(t) PROVE Inv'
    <2>1. PICK m \in DOMAIN Request :
            /\ CallOf(t, m)
            /\ thread' = [thread EXCEPT ![t].step = "send", ![t].call = m, ![t].msg = Request[m]]
            /\ UNCHANGED timeout
      BY <1>7 DEF CallRequest
    <2>2. Turns(t, "send", m, Request[m])
      BY <1>t, <2>1, RequestFacts, UpdateRequest DEF CallOf, Steps
    <2>3. Fit("send", m, Request[m]) /\ ~InTry(thread[t].call, thread[t].msg)
      BY <1>u, <2>1, RequestFacts DEF Fit, InTry, CallOf, Waits
    <2>4. Socket'
      BY <1>t, <2>1, BridgeAssumption DEF CallOf, Socket
    <2>5. Sends(t, "send") /\ Receives(t, "send") /\ Times(t, m, Request[m])
      BY <2>1, <2>3 DEF CallOf, Sends, Receives, Times
    <2> QED BY <2>2, <2>3, <2>4, <2>5, Turn
  <1>8. ASSUME NEW t \in Threads, CallWait(t) PROVE Inv'
    <2>1. PICK m \in Waits \ DOMAIN Request :
            /\ CallOf(t, m)
            /\ thread' = [thread EXCEPT ![t].step = "recv", ![t].call = m]
            /\ timeout' \in {timeout, "wait"}
      BY <1>8 DEF CallWait
    <2>2. Turns(t, "recv", m, thread[t].msg)
      BY <1>t, <2>1, UpdateCall DEF CallOf, Steps
    <2>3. Fit("recv", m, thread[t].msg) /\ InTry(m, thread[t].msg)
      BY <1>u, <2>1 DEF Fit, InTry, CallOf
    <2>4. Socket'
      BY <1>t, <2>1, BridgeAssumption DEF CallOf, Socket
    <2>5. Sends(t, "recv") /\ Receives(t, "recv") /\ Times(t, m, thread[t].msg)
      BY <2>1, <2>3 DEF CallOf, Sends, Receives, Times
    <2> QED BY <2>2, <2>3, <2>4, <2>5, Turn
  <1>9. ASSUME NEW t \in Threads, SendTooLarge(t) PROVE Inv'
    BY <1>9, <1>t, LeavesInv DEF SendTooLarge, Results, Socket
  <1>10. ASSUME NEW t \in Threads, SendFails(t) PROVE Inv'
    BY <1>10, <1>t, LeavesInv DEF SendFails, Results, Socket
  <1>11. ASSUME NEW t \in Threads, RecvTimesOut(t) PROVE Inv'
    BY <1>11, <1>t, LeavesInv DEF RecvTimesOut, Reading, Results, Socket
  <1>12. ASSUME NEW t \in Threads, RecvEof(t) PROVE Inv'
    BY <1>12, <1>t, LeavesInv DEF RecvEof, Reading, Results, Socket
  <1>13. ASSUME NEW t \in Threads, SendHeader(t) PROVE Inv'
    <2>1. Turns(t, "payload", thread[t].call, thread[t].msg)
      BY <1>13, <1>t, UpdateTimed DEF SendHeader, Steps
    <2>2. Fit("payload", thread[t].call, thread[t].msg)
      BY <1>13, <1>u DEF SendHeader, Fit
    <2>3. Socket'
      BY <1>13, <1>t DEF SendHeader, Socket
    <2>4. /\ Sends(t, "payload") /\ Receives(t, "payload")
          /\ Times(t, thread[t].call, thread[t].msg)
      BY <1>13 DEF SendHeader, Sends, Receives, Times
    <2> QED BY <2>1, <2>2, <2>3, <2>4, Turn
  <1>14. ASSUME NEW t \in Threads, SendPayload(t) PROVE Inv'
    <2>1. Socket'
      BY <1>14, <1>t, <1>u DEF SendPayload, Socket
    <2>2. CASE AfterSend(t) = "idle"
      <3>1. Turns(t, "idle", "none", "none")
        BY <1>14, <1>t, <2>2, UpdateIdle DEF SendPayload
      <3>2. ~InTry(thread[t].call, thread[t].msg)
        BY <1>14, <1>u, <2>2 DEF SendPayload, AfterSend, InTry, Fit, Waits
      <3>3. Sends(t, "idle") /\ Receives(t, "idle") /\ Times(t, "none", "none")
        BY <1>14, <1>u, <3>2 DEF SendPayload, Sends, Receives, Times
      <3> QED BY <2>1, <3>1, <3>3, Turn DEF Fit
    <2>3. CASE AfterSend(t) # "idle"
      <3>1. AfterSend(t) \in {"recv", "arm"} /\ Fit(AfterSend(t), thread[t].call, thread[t].msg)
        BY <2>3 DEF AfterSend, Fit
      <3>2. Turns(t, AfterSend(t), thread[t].call, thread[t].msg)
        BY <1>14, <1>t, <2>3, <3>1, UpdateSent DEF SendPayload, Steps
      <3>3. /\ Sends(t, AfterSend(t)) /\ Receives(t, AfterSend(t))
            /\ Times(t, thread[t].call, thread[t].msg)
        BY <1>14, <1>u, <3>1 DEF SendPayload, Sends, Receives, Times
      <3> QED BY <2>1, <3>1, <3>2, <3>3, Turn
    <2> QED BY <2>2, <2>3
  <1>15. ASSUME NEW t \in Threads, Arm(t) PROVE Inv'
    <2>1. Turns(t, "recv", thread[t].call, "none")
      BY <1>15, <1>t, UpdateMsg DEF Arm, Steps, Msgs
    <2>2. InTry(thread[t].call, "none") /\ Fit("recv", thread[t].call, "none")
      BY <1>15, <1>u DEF Arm, Fit, InTry, Waits
    <2>3. Socket'
      BY <1>15, <1>t DEF Arm, Socket
    <2>4. Sends(t, "recv") /\ Receives(t, "recv") /\ Times(t, thread[t].call, "none")
      BY <1>15, <2>2 DEF Arm, Sends, Receives, Times
    <2> QED BY <2>1, <2>2, <2>3, <2>4, Turn
  <1>16. ASSUME NEW t \in Threads, Receive(t) PROVE Inv'
    <2>1. Turns(t, "header", thread[t].call, thread[t].msg)
      BY <1>16, <1>t, UpdateTimed DEF Receive, Steps
    <2>2. Socket' /\ Fit("header", thread[t].call, thread[t].msg)
      BY <1>16, <1>t DEF Receive, Socket, Fit
    <2>3. /\ Sends(t, "header") /\ Receives(t, "header")
          /\ Times(t, thread[t].call, thread[t].msg)
      BY <1>16 DEF Receive, Sends, Receives, Times
    <2> QED BY <2>1, <2>2, <2>3, Turn
  <1>17. ASSUME NEW t \in Threads, ReadPart(t) \/ ReadNonsense(t)
         PROVE  /\ Socket' /\ Head(wire) \in Parts /\ thread[t].step \in {"header", "body"}
                /\ UNCHANGED <<timeout, sendLock, out>>
    <2>1. wire \in Seq(Parts) /\ wire # <<>> /\ adrift \in BOOLEAN
      BY <1>17, <1>t DEF ReadPart, ReadNonsense, Socket
    <2>2. wire' \in {wire, Tail(wire)} /\ adrift' \in BOOLEAN
      BY <1>17, <2>1 DEF ReadPart, ReadNonsense, Strays
    <2>3. wire' \in Seq(Parts) /\ Head(wire) \in Parts
      BY <2>1, <2>2
    <2> QED BY <1>17, <1>t, <2>2, <2>3 DEF ReadPart, ReadNonsense, Reading, Socket
  <1>18. ASSUME NEW t \in Threads, ReadPart(t) \/ ReadNonsense(t),
                NEW s \in {"header", "body"}, ReadsOn(t, s)
         PROVE  Inv'
    <2>1. Turns(t, s, thread[t].call, thread[t].msg)
      BY <1>18, <1>t, UpdateTimed DEF ReadsOn, Steps
    <2>2. /\ Sends(t, s) /\ Receives(t, s)
          /\ Times(t, thread[t].call, thread[t].msg)
      BY <1>17, <1>18 DEF ReadsOn, Sends, Receives, Times
    <2>3. Fit(s, thread[t].call, thread[t].msg)
      BY <1>18 DEF Fit
    <2> QED BY <1>17, <1>18, <2>1, <2>2, <2>3, Turn
  <1>19. ASSUME NEW t \in Threads, ReadPart(t) \/ ReadNonsense(t),
                NEW m \in Msgs \ {"SpeakInterruptible"}, Took(t, m)
         PROVE  Inv'
    <2>1. Turns(t, "got", thread[t].call, m)
      BY <1>19, <1>t, UpdateTaken DEF Took, Steps
    <2>2. Sends(t, "got") /\ Receives(t, "got") /\ Times(t, thread[t].call, m)
      BY <1>17, <1>19 DEF Took, Sends, Receives, Times, InTry
    <2>3. Fit("got", thread[t].call, m)
      BY DEF Fit
    <2> QED BY <1>17, <1>19, <2>1, <2>2, <2>3, Turn
  <1>20. ASSUME NEW t \in Threads, ReadHeader(t) PROVE Inv'
    BY <1>18, <1>20 DEF ReadHeader
  <1>21. ASSUME NEW t \in Threads, ReadBody(t) PROVE Inv'
    <2>1. Head(wire) # "len" /\ ReadPart(t) /\ Took(t, Head(wire))
      BY <1>21 DEF ReadBody, ReadPart, InStep
    <2>2. Head(wire) \in Msgs \ {"SpeakInterruptible"}
      BY <1>17, <2>1, BridgeAssumption DEF Parts, Msgs
    <2> QED BY <1>19, <2>1, <2>2
  <1>22. ASSUME NEW t \in Threads, ReadNonsense(t) PROVE Inv'
    <2>1. CASE Leave(t, "raised") /\ recvLock' = "nobody"
      <3>1. thread[t].step # "payload"
        BY <1>17, <1>22
      <3> QED BY <1>17, <1>22, <2>1, <3>1, LeavesInv DEF Results
    <2>2. CASE \E s \in {"header", "body"} : ReadsOn(t, s)
      BY <1>18, <1>22, <2>2
    <2>3. CASE Took(t, "nonsense")
      BY <1>19, <1>22, <2>3 DEF Msgs
    <2> QED BY <1>17, <1>22, <2>1, <2>2, <2>3 DEF ReadNonsense
  <1>23. ASSUME NEW t \in Threads, React(t) PROVE Inv'
    <2>1. Socket'
      BY <1>23, <1>t DEF React, Socket
    <2>2. CASE Leave(t, "returned") \/ Leave(t, "raised")
      BY <1>23, <2>1, <2>2, LeavesInv DEF React, Results
    <2>3. CASE thread' = [thread EXCEPT ![t].step = "recv", ![t].msg = "none"]
      <3>1. Turns(t, "recv", thread[t].call, "none")
        BY <1>t, <2>3, UpdateMsg DEF Steps, Msgs
      <3>2. Sends(t, "recv") /\ Receives(t, "recv") /\ Times(t, thread[t].call, "none")
        BY <1>23 DEF React, Sends, Receives, Times, InTry
      <3> QED BY <2>1, <3>1, <3>2, Turn DEF Fit
    <2>4. CASE thread' = [thread EXCEPT ![t].step = "send", ![t].msg = "Pong"]
      <3>1. Turns(t, "send", thread[t].call, "Pong")
        BY <1>t, <2>4, UpdateMsg DEF Steps, Msgs
      <3>2. Sends(t, "send") /\ Receives(t, "send") /\ Times(t, thread[t].call, "Pong")
        BY <1>23 DEF React, Sends, Receives, Times, InTry
      <3>3. Fit("send", thread[t].call, "Pong")
        BY DEF Fit
      <3> QED BY <2>1, <3>1, <3>2, <3>3, Turn
    <2> QED BY <1>23, <2>2, <2>3, <2>4 DEF React
  <1>24. ASSUME NEW t \in Threads, Finally(t) PROVE Inv'
    <2>1. Turns(t, "idle", "none", "none")
      BY <1>24, <1>t, UpdateIdle DEF Finally
    <2>2. Socket'
      BY <1>24, <1>t DEF Finally, Socket
    <2>3. Sends(t, "idle") /\ Receives(t, "idle") /\ Times(t, "none", "none")
      BY <1>24 DEF Finally, Sends, Receives, Times
    <2> QED BY <2>1, <2>2, <2>3, Turn DEF Fit
  <1>25. CASE UNCHANGED vars
    BY <1>3, <1>25, <1>t DEF vars, Socket
  <1> QED
    BY <1>1, <1>2, <1>4, <1>5, <1>6, <1>7, <1>8, <1>9, <1>10, <1>11, <1>12, <1>13, <1>14,
       <1>15, <1>16, <1>20, <1>21, <1>22, <1>23, <1>24, <1>25 DEF Next, Progress

-----------------------------------------------------------------------------
(* The variables keep their types, and each lock is held by the thread     *)
(* inside the block it guards, however many threads share the bridge.      *)
THEOREM TypeCorrect == Spec => []TypeOK
  <1>1. Inv => TypeOK
    BY DEF Inv, Socket, Locks, ThreadStates, TypeOK, Reading
  <1> QED BY <1>1, InitInv, NextInv, PTL DEF Spec

(* No thread's payload comes after another's length, whichever sends fail  *)
(* half way (_send_message under _send_lock).                              *)
THEOREM Framed == Spec => []SentWhole
  <1>1. Inv => SentWhole
    BY DEF Inv, Frames
  <1> QED BY <1>1, InitInv, NextInv, PTL DEF Spec

(* A timeout set for a call is gone when no thread is in such a call any   *)
(* more, whatever was raised on the way (the finally blocks).              *)
THEOREM Restored == Spec => []TimeoutRestored
  <1>1. Inv => TimeoutRestored
    BY DEF Inv
  <1> QED BY <1>1, InitInv, NextInv, PTL DEF Spec

-----------------------------------------------------------------------------
(* The readers and the frames. *)

SomeBody == \E t \in Threads : thread[t].step = "body"

LEMMA AloneInBody ==
    ASSUME Inv, NEW t \in Threads, thread[t].step \in {"header", "body"}
    PROVE  /\ recvLock = t
           /\ \A u \in Threads : u # t => thread[u].step \notin {"header", "body"}
  BY DEF Inv, Locks

(* A thread that waits for no payload before or after a step. *)
LEMMA NotInBody ==
    ASSUME NEW t \in Threads, thread[t].step # "body", thread'[t].step # "body",
           \A u \in Threads \ {t} : thread'[u] = thread[u]
    PROVE  SomeBody' <=> SomeBody
  BY DEF SomeBody

LEMMA LeavesBody ==
    ASSUME Inv, NEW t \in Threads, NEW r, Leave(t, r)
    PROVE  thread'[t].step # "body" /\ \A u \in Threads \ {t} : thread'[u] = thread[u]
  <1>1. DOMAIN thread = Threads /\ DOMAIN thread[t] = {"step", "call", "msg", "timed", "result"}
    BY DEF Inv, ThreadStates
  <1>2. CASE thread' = [thread EXCEPT ![t].step = "finally", ![t].result = r]
    BY <1>1, <1>2
  <1>3. CASE thread' = [thread EXCEPT ![t] = Idle]
    BY <1>1, <1>3 DEF Idle
  <1> QED BY <1>2, <1>3 DEF Leave

Alternates(w) ==
    \A i, j \in 1 .. Len(w) : (w[i] = "len" <=> w[j] = "len") <=> i % 2 = j % 2

(* What a thread reads next is a payload. *)
PayloadNext == IF wire = <<>> THEN unsent # <<>> ELSE Head(wire) # "len"

(* Lengths and payloads take turns, what is still due is the payload of a  *)
(* length that came last, only a timeout inside a frame sets the readers   *)
(* adrift, and unless they are a thread waits for a payload exactly when   *)
(* one is next.                                                            *)
Stepping ==
    /\ Alternates(wire)
    /\ sock = "up" /\ wire # <<>> => (wire[Len(wire)] = "len" <=> unsent # <<>>)
    /\ unsent = <<>> \/ \E m \in ShellMessages : unsent = <<m>>
    /\ adrift => torn
    /\ ~adrift /\ (wire # <<>> \/ sock = "up") => (PayloadNext <=> SomeBody)

LEMMA Parity ==
    /\ \A i, j \in Nat : (i + 1) % 2 = (j + 1) % 2 <=> i % 2 = j % 2
    /\ \A i, j \in Nat : i % 2 = (j + 1) % 2 <=> i % 2 # j % 2
  OBVIOUS

LEMMA AlternatesTail ==
    ASSUME NEW w \in Seq(Parts), w # <<>>, Alternates(w)
    PROVE  /\ Alternates(Tail(w))
           /\ Tail(w) # <<>> => /\ Tail(w)[Len(Tail(w))] = w[Len(w)]
                                /\ Head(Tail(w)) # "len" <=> Head(w) = "len"
           /\ Tail(w) = <<>> => w[Len(w)] = Head(w)
  <1>a. Len(w) \in Nat /\ Len(w) > 0
    OBVIOUS
  <1>1. Len(w) \in Nat /\ Len(w) >= 1 /\ Head(w) = w[1]
    BY <1>a
  <1>b. Tail(w) \in Seq(Parts)
    OBVIOUS
  <1>c. Len(Tail(w)) = Len(w) - 1 /\ \A i \in 1 .. Len(w) - 1 : Tail(w)[i] = w[i + 1]
    OBVIOUS
  <1> DEFINE v == Tail(w)
  <1>2. /\ v \in Seq(Parts) /\ Len(v) = Len(w) - 1
        /\ \A i \in 1 .. Len(w) - 1 : v[i] = w[i + 1]
    BY <1>b, <1>c
  <1>3. v # <<>> => Head(v) = v[1] /\ Len(v) >= 1
    BY <1>2
  <1> HIDE DEF v
  <1>4. v = <<>> => Len(v) = 0
    OBVIOUS
  <1>5. Alternates(v)
    <2>1. \A i \in 1 .. Len(v) : i + 1 \in 1 .. Len(w) /\ v[i] = w[i + 1] /\ i \in Nat
      BY <1>1, <1>2
    <2>2. ASSUME NEW i \in 1 .. Len(v), NEW j \in 1 .. Len(v)
          PROVE  (v[i] = "len" <=> v[j] = "len") <=> i % 2 = j % 2
      <3>1. (w[i + 1] = "len" <=> w[j + 1] = "len") <=> (i + 1) % 2 = (j + 1) % 2
        BY <2>1 DEF Alternates
      <3>2. (i + 1) % 2 = (j + 1) % 2 <=> i % 2 = j % 2
        BY <2>1, Parity
      <3> QED BY <2>1, <3>1, <3>2
    <2> QED BY <2>2 DEF Alternates
  <1>6. v # <<>> => v[Len(v)] = w[Len(w)] /\ (Head(v) # "len" <=> Head(w) = "len")
    <2> SUFFICES ASSUME v # <<>> PROVE v[Len(v)] = w[Len(w)] /\ (Head(v) # "len" <=> Head(w) = "len")
      OBVIOUS
    <2>1. Len(v) \in 1 .. Len(w) - 1 /\ Len(v) + 1 = Len(w) /\ 1 \in 1 .. Len(w) - 1
      BY <1>1, <1>2, <1>3
    <2>2. v[Len(v)] = w[Len(w)] /\ v[1] = w[2]
      BY <1>2, <2>1
    <2>3. w[1] = "len" <=> w[2] # "len"
      <3>1. 1 \in 1 .. Len(w) /\ 2 \in 1 .. Len(w) /\ 1 % 2 # 2 % 2
        BY <1>1, <2>1
      <3> QED BY <3>1 DEF Alternates
    <2> QED BY <1>1, <1>3, <2>2, <2>3
  <1>7. v = <<>> => w[Len(w)] = Head(w)
    <2>1. v = <<>> => Len(w) = 1
      BY <1>1, <1>2, <1>4
    <2> QED BY <1>1, <2>1
  <1> QED BY <1>5, <1>6, <1>7 DEF v

LEMMA AlternatesAppend ==
    ASSUME NEW w \in Seq(Parts), Alternates(w), NEW p \in Parts,
           w # <<>> => (w[Len(w)] = "len" <=> p # "len")
    PROVE  /\ Alternates(Append(w, p)) /\ Append(w, p) # <<>>
           /\ Append(w, p)[Len(Append(w, p))] = p
           /\ Head(Append(w, p)) = IF w = <<>> THEN p ELSE Head(w)
  <1> DEFINE v == Append(w, p)
  <1>1. Len(w) \in Nat /\ (w = <<>> <=> Len(w) = 0) /\ (w # <<>> => Head(w) = w[1])
    OBVIOUS
  <1>d. \A u \in Seq(Parts) : Len(u) > 0 => u # <<>> /\ Head(u) = u[1]
    OBVIOUS
  <1>a. v \in Seq(Parts)
    OBVIOUS
  <1>b. Len(v) = Len(w) + 1 /\ v[Len(w) + 1] = p
    OBVIOUS
  <1>c. \A i \in 1 .. Len(w) : v[i] = w[i]
    OBVIOUS
  <1>2. /\ v \in Seq(Parts) /\ Len(v) = Len(w) + 1 /\ v[Len(w) + 1] = p
        /\ \A i \in 1 .. Len(w) : v[i] = w[i]
    BY <1>a, <1>b, <1>c
  <1> HIDE DEF v
  <1>4. v # <<>> /\ Head(v) = v[1]
    BY <1>1, <1>2, <1>d
  <1>3. ASSUME NEW i \in 1 .. Len(w)
        PROVE  (v[i] = "len" <=> p = "len") <=> i % 2 = (Len(w) + 1) % 2
    <2>1. Len(w) \in 1 .. Len(w) /\ w # <<>> /\ i \in Nat
      BY <1>1
    <2>2. (w[i] = "len" <=> w[Len(w)] = "len") <=> i % 2 = Len(w) % 2
      BY <2>1 DEF Alternates
    <2>3. i % 2 = (Len(w) + 1) % 2 <=> i % 2 # Len(w) % 2
      BY <1>1, <2>1, Parity
    <2> QED BY <1>2, <2>1, <2>2, <2>3
  <1>6. Alternates(v)
    <2>1. ASSUME NEW i \in 1 .. Len(v), NEW j \in 1 .. Len(v)
          PROVE  (v[i] = "len" <=> v[j] = "len") <=> i % 2 = j % 2
      <3>1. CASE i \in 1 .. Len(w) /\ j \in 1 .. Len(w)
        BY <1>2, <3>1 DEF Alternates
      <3>2. CASE i \in 1 .. Len(w) /\ j = Len(w) + 1
        BY <1>2, <1>3, <3>2
      <3>3. CASE i = Len(w) + 1 /\ j \in 1 .. Len(w)
        BY <1>2, <1>3, <3>3
      <3>4. CASE i = Len(w) + 1 /\ j = Len(w) + 1
        BY <3>4
      <3> QED BY <1>1, <1>2, <3>1, <3>2, <3>3, <3>4
    <2> QED BY <2>1 DEF Alternates
  <1>5. Head(v) = IF w = <<>> THEN p ELSE Head(w)
    BY <1>1, <1>2, <1>4
  <1> QED BY <1>2, <1>4, <1>5, <1>6 DEF v

(* A thread in step takes what is next for what it is. *)
LEMMA StepsAsItReads ==
    ASSUME Inv, Stepping, ~adrift, NEW t \in Threads, Reading(t), wire # <<>>
    PROVE  InStep(t)
  <1>1. SomeBody <=> thread[t].step = "body"
    BY AloneInBody DEF Reading, SomeBody
  <1> QED BY <1>1 DEF Stepping, PayloadNext, InStep, Reading

LEMMA InitStepping == Init => Stepping
  <1> SUFFICES ASSUME Init PROVE Stepping
    OBVIOUS
  <1>1. wire = <<>> /\ unsent = <<>> /\ sock = "none" /\ ~adrift
    BY DEF Init
  <1>2. Len(<<>>) = 0
    OBVIOUS
  <1> QED BY <1>1, <1>2 DEF Stepping, Alternates

(* Steps that leave the socket alone. *)
LEMMA SteppingKept ==
    ASSUME Stepping, UNCHANGED <<sock, wire, unsent, adrift>>, torn => torn',
           ~adrift /\ (wire # <<>> \/ sock = "up") => (SomeBody' <=> SomeBody)
    PROVE  Stepping'
  BY DEF Stepping, PayloadNext

(* A part is used up: the next is of the other kind. *)
LEMMA UsesUp ==
    ASSUME Inv, Stepping, wire # <<>>, wire' = Tail(wire), UNCHANGED <<sock, unsent, torn>>,
           adrift' => torn, ~adrift' => (SomeBody' <=> Head(wire) = "len")
    PROVE  Stepping'
  <1>1. /\ wire \in Seq(Parts) /\ Alternates(wire)
    BY DEF Inv, Socket, Stepping
  <1>2. /\ Alternates(wire')
        /\ wire' # <<>> => /\ wire'[Len(wire')] = wire[Len(wire)]
                           /\ Head(wire') # "len" <=> Head(wire) = "len"
        /\ wire' = <<>> => wire[Len(wire)] = Head(wire)
    BY <1>1, AlternatesTail
  <1> QED BY <1>2 DEF Stepping, PayloadNext

LEMMA ReadSteps ==
    ASSUME Inv, Stepping, NEW t \in Threads,
           ReadHeader(t) \/ ReadBody(t) \/ ReadNonsense(t) \/ RecvTimesOut(t) \/ RecvEof(t)
    PROVE  Stepping'
  <1> USE DEF connection
  <1>0. /\ Reading(t) /\ thread \in [Threads -> ThreadStates]
        /\ UNCHANGED <<sock, unsent>>
    BY DEF Inv, ReadHeader, ReadBody, ReadPart, ReadNonsense, RecvTimesOut, RecvEof
  <1>1. /\ \A u \in Threads : u # t => thread[u].step \notin {"header", "body"}
        /\ SomeBody <=> thread[t].step = "body"
    BY <1>0, AloneInBody DEF Reading, SomeBody
  <1>2. ASSUME NEW r, Leave(t, r) PROVE ~SomeBody'
    BY <1>1, <1>2, LeavesBody DEF SomeBody
  <1>3. ASSUME NEW m \in Msgs, Took(t, m) PROVE ~SomeBody'
    <2>1. thread'[t].step = "got" /\ \A u \in Threads \ {t} : thread'[u] = thread[u]
      BY <1>0, <1>3, UpdateTaken DEF Took, Turns, Steps
    <2> QED BY <1>1, <2>1 DEF SomeBody
  <1>4. CASE ReadHeader(t)
    <2>1. thread'[t].step = "body"
      BY <1>0, <1>4, UpdateTimed DEF ReadHeader, ReadsOn, Turns, Steps
    <2>2. SomeBody'
      BY <2>1 DEF SomeBody
    <2>3. /\ wire # <<>> /\ wire' = Tail(wire) /\ UNCHANGED <<torn, adrift>> /\ ~adrift
          /\ Head(wire) = "len"
      BY <1>4 DEF ReadHeader, ReadPart, InStep
    <2> QED BY <1>0, <2>2, <2>3, UsesUp
  <1>5. CASE ReadBody(t)
    <2>1. /\ wire # <<>> /\ wire' = Tail(wire) /\ UNCHANGED <<torn, adrift>> /\ ~adrift
          /\ Head(wire) # "len" /\ Took(t, Head(wire))
      BY <1>5 DEF ReadBody, ReadPart, InStep
    <2>2. Head(wire) \in Msgs
      <3>1. Head(wire) \in Parts
        BY <2>1 DEF Inv, Socket
      <3> QED BY <2>1, <3>1, BridgeAssumption DEF Parts, Msgs
    <2> QED BY <1>0, <1>3, <2>1, <2>2, UsesUp
  <1>6. CASE ReadNonsense(t)
    <2>1. adrift /\ torn /\ torn' = torn /\ wire # <<>>
      BY <1>0, <1>6, StepsAsItReads DEF ReadNonsense, Stepping
    <2>2. CASE wire' = wire /\ adrift' = TRUE
      BY <1>0, <2>1, <2>2 DEF Stepping
    <2>3. CASE wire' = Tail(wire) /\ adrift' = TRUE
      BY <1>0, <2>1, <2>3, UsesUp
    <2>4. CASE Strays /\ ~SomeBody'
      <3>1. CASE wire' = Tail(wire) /\ adrift' = (Head(wire) = "len")
        BY <1>0, <2>1, <2>4, <3>1, UsesUp
      <3> QED BY <2>2, <2>3, <2>4, <3>1 DEF Strays
    <2>5. "nonsense" \in Msgs
      BY DEF Msgs
    <2> QED BY <1>2, <1>3, <1>6, <2>2, <2>3, <2>4, <2>5 DEF ReadNonsense
  <1>7. CASE RecvTimesOut(t)
    <2>1. /\ wire = <<>> /\ wire' = wire /\ sock = "up" /\ Leave(t, "timeout")
          /\ torn' = (torn \/ thread[t].step = "body") /\ adrift' = (unsent # <<>>)
      BY <1>7 DEF RecvTimesOut
    <2>2. ~SomeBody'
      BY <1>2, <2>1
    <2>3. adrift' => torn'
      BY <1>1, <2>1 DEF Stepping, PayloadNext
    <2> QED BY <1>0, <2>1, <2>2, <2>3 DEF Stepping, PayloadNext
  <1>8. CASE RecvEof(t)
    BY <1>8, SteppingKept DEF RecvEof
  <1> QED BY <1>4, <1>5, <1>6, <1>7, <1>8

LEMMA ShellSteps ==
    ASSUME Inv, Stepping, ShellStarts \/ ShellFinishes \/ ShellCloses
    PROVE  Stepping'
  <1>1. wire \in Seq(Parts) /\ UNCHANGED <<thread, torn, adrift>> /\ sock = "up"
    BY DEF Inv, Socket, ShellStarts, ShellFinishes, ShellCloses
  <1>2. SomeBody' <=> SomeBody
    BY <1>1 DEF SomeBody
  <1>3. \A m \in ShellMessages : m \in Parts /\ m # "len" /\ <<m>> # <<>>
    BY BridgeAssumption DEF Parts
  <1>4. ASSUME NEW p \in Parts, wire' = Append(wire, p), sock' = sock,
               p = "len" <=> unsent' # <<>>, p = "len" <=> unsent = <<>>,
               unsent' = <<>> \/ \E m \in ShellMessages : unsent' = <<m>>
        PROVE  Stepping'
    <2>1. /\ Alternates(wire') /\ wire' # <<>> /\ wire'[Len(wire')] = p
          /\ Head(wire') = IF wire = <<>> THEN p ELSE Head(wire)
      <3>1. wire # <<>> => (wire[Len(wire)] = "len" <=> p # "len")
        BY <1>1, <1>4 DEF Stepping
      <3> QED BY <1>1, <1>4, <3>1, AlternatesAppend DEF Stepping
    <2> QED BY <1>1, <1>2, <1>4, <2>1 DEF Stepping, PayloadNext
  <1>5. CASE ShellStarts
    <2>1. "len" \in Parts
      BY DEF Parts
    <2> QED BY <1>3, <1>4, <1>5, <2>1 DEF ShellStarts
  <1>6. CASE ShellFinishes
    <2>1. PICK m \in ShellMessages : unsent = <<m>>
      BY <1>6 DEF ShellFinishes, Stepping
    <2>2. wire \o <<m>> = Append(wire, m)
      BY <1>1, <1>3
    <2>3. /\ wire' = Append(wire, m) /\ sock' = sock /\ unsent' = <<>> /\ unsent # <<>>
          /\ m \in Parts /\ m # "len"
      BY <1>3, <1>6, <2>1, <2>2 DEF ShellFinishes
    <2> QED BY <1>4, <2>3
  <1>7. CASE ShellCloses
    <2>1. Alternates(<<>>)
      <3>1. Len(<<>>) = 0
        OBVIOUS
      <3> QED BY <3>1 DEF Alternates
    <2> QED BY <1>1, <1>2, <1>7, <2>1 DEF ShellCloses, Stepping, PayloadNext
  <1> QED BY <1>5, <1>6, <1>7

LEMMA ConnectionSteps ==
    ASSUME Connect \/ Disconnect
    PROVE  Stepping'
  <1>1. /\ wire' = <<>> /\ unsent' = <<>> /\ adrift' = FALSE
        /\ AllIdle /\ thread' = thread
    BY DEF Connect, Disconnect
  <1>2. ~SomeBody'
    BY <1>1 DEF AllIdle, SomeBody
  <1>3. Len(<<>>) = 0
    OBVIOUS
  <1> QED BY <1>1, <1>2, <1>3 DEF Stepping, Alternates, PayloadNext

(* The other steps of a thread leave what comes from the shell alone. *)
LEMMA Others ==
    ASSUME Inv, NEW t \in Threads,
           \/ CallRequest(t) \/ CallWait(t) \/ SendTooLarge(t) \/ SendFails(t)
           \/ SendHeader(t) \/ SendPayload(t) \/ Arm(t) \/ Receive(t) \/ React(t) \/ Finally(t)
    PROVE  /\ UNCHANGED <<sock, wire, unsent, arrived, taken, torn, adrift>>
           /\ SomeBody' <=> SomeBody
  <1> USE DEF connection
  <1>0. DOMAIN thread = Threads /\ DOMAIN thread[t] = {"step", "call", "msg", "timed", "result"}
    BY DEF Inv, ThreadStates
  <1>a. UNCHANGED <<sock, wire, unsent, arrived, taken, torn, adrift>>
    BY DEF CallRequest, CallWait, CallOf, SendTooLarge, SendFails, SendHeader, SendPayload, Arm,
           Receive, React, Finally
  <1>1. ASSUME thread[t].step # "body", thread'[t].step # "body",
               \A u \in Threads \ {t} : thread'[u] = thread[u]
        PROVE  SomeBody' <=> SomeBody
    BY <1>1, NotInBody
  <1>2. CASE CallRequest(t)
    <2>1. PICK m : thread' = [thread EXCEPT ![t].step = "send", ![t].call = m, ![t].msg = Request[m]]
      BY <1>2 DEF CallRequest
    <2>2. thread'[t].step = "send" /\ \A u \in Threads \ {t} : thread'[u] = thread[u]
      BY <1>0, <2>1
    <2> QED BY <1>1, <1>2, <2>2 DEF CallRequest, CallOf
  <1>3. CASE CallWait(t)
    <2>1. PICK m : thread' = [thread EXCEPT ![t].step = "recv", ![t].call = m]
      BY <1>3 DEF CallWait
    <2>2. thread'[t].step = "recv" /\ \A u \in Threads \ {t} : thread'[u] = thread[u]
      BY <1>0, <2>1
    <2> QED BY <1>1, <1>3, <2>2 DEF CallWait, CallOf
  <1>4. CASE SendTooLarge(t)
    BY <1>1, <1>4, LeavesBody DEF SendTooLarge
  <1>5. CASE SendFails(t)
    BY <1>1, <1>5, LeavesBody DEF SendFails
  <1>7. CASE SendHeader(t)
    <2>1. thread'[t].step = "payload" /\ \A u \in Threads \ {t} : thread'[u] = thread[u]
      BY <1>0, <1>7 DEF SendHeader
    <2> QED BY <1>1, <1>7, <2>1 DEF SendHeader
  <1>8. CASE SendPayload(t)
    <2>1. AfterSend(t) # "body"
      BY DEF AfterSend
    <2>2. thread'[t].step # "body" /\ \A u \in Threads \ {t} : thread'[u] = thread[u]
      BY <1>0, <1>8, <2>1 DEF SendPayload, Idle
    <2> QED BY <1>1, <1>8, <2>2 DEF SendPayload
  <1>9. CASE Arm(t)
    <2>1. thread'[t].step = "recv" /\ \A u \in Threads \ {t} : thread'[u] = thread[u]
      BY <1>0, <1>9 DEF Arm
    <2> QED BY <1>1, <1>9, <2>1 DEF Arm
  <1>10. CASE Receive(t)
    <2>1. thread'[t].step = "header" /\ \A u \in Threads \ {t} : thread'[u] = thread[u]
      BY <1>0, <1>10 DEF Receive
    <2> QED BY <1>1, <1>10, <2>1 DEF Receive
  <1>11. CASE React(t)
    <2>1. CASE \E r : Leave(t, r)
      BY <1>1, <1>11, <2>1, LeavesBody DEF React
    <2>2. CASE thread' = [thread EXCEPT ![t].step = "recv", ![t].msg = "none"]
      <3>1. thread'[t].step = "recv" /\ \A u \in Threads \ {t} : thread'[u] = thread[u]
        BY <1>0, <2>2
      <3> QED BY <1>1, <1>11, <3>1 DEF React
    <2>3. CASE thread' = [thread EXCEPT ![t].step = "send", ![t].msg = "Pong"]
      <3>1. thread'[t].step = "send" /\ \A u \in Threads \ {t} : thread'[u] = thread[u]
        BY <1>0, <2>3
      <3> QED BY <1>1, <1>11, <3>1 DEF React
    <2> QED BY <1>11, <2>1, <2>2, <2>3 DEF React
  <1>12. CASE Finally(t)
    <2>1. thread'[t].step = "idle" /\ \A u \in Threads \ {t} : thread'[u] = thread[u]
      BY <1>0, <1>12 DEF Finally, Idle
    <2> QED BY <1>1, <1>12, <2>1 DEF Finally
  <1>13. SomeBody' <=> SomeBody
    BY <1>2, <1>3, <1>4, <1>5, <1>7, <1>8, <1>9, <1>10, <1>11, <1>12
  <1> QED BY <1>a, <1>13

LEMMA NextStepping == Inv /\ Stepping /\ [Next]_vars => Stepping'
  <1> SUFFICES ASSUME Inv, Stepping, [Next]_vars PROVE Stepping'
    OBVIOUS
  <1>1. CASE UNCHANGED vars
    BY <1>1, SteppingKept DEF vars, SomeBody
  <1>2. ASSUME NEW t \in Threads,
               \/ CallRequest(t) \/ CallWait(t) \/ SendTooLarge(t) \/ SendFails(t)
               \/ SendHeader(t) \/ SendPayload(t) \/ Arm(t) \/ Receive(t) \/ React(t) \/ Finally(t)
        PROVE  Stepping'
    BY <1>2, Others, SteppingKept
  <1> QED
    BY <1>1, <1>2, ReadSteps, ShellSteps, ConnectionSteps DEF Next, Progress

-----------------------------------------------------------------------------
(* The order of the messages. *)

(* What is in the socket comes, in the shell's frames, after the first n   *)
(* parts.                                                                  *)
After(n, sent, w) ==
    /\ n + Len(w) <= Len(sent)
    /\ \A i \in 1 .. Len(w) : w[i] = sent[n + i]

Taken == Len(taken) <= Len(arrived) /\ \A i \in 1 .. Len(taken) : taken[i] = arrived[i]

(* While the shell is there nothing is missing. *)
Complete ==
    /\ PartsRead + Len(wire) + Len(unsent) = 2 * Len(arrived)
    /\ unsent # <<>> => arrived # <<>> /\ unsent = <<arrived[Len(arrived)]>>

(* A payload that the shell has not sent is no part of what can be read,   *)
(* whatever was lost when it went.                                         *)
Behind == PartsRead + Len(wire) + Len(unsent) <= 2 * Len(arrived) /\ Len(unsent) <= 1

InOrder ==
    /\ taken \in Seq(Msgs)
    /\ ~torn => /\ Taken /\ After(PartsRead, FramesOf(arrived), wire) /\ Behind
                /\ sock = "up" => Complete

LEMMA FrameParts ==
    ASSUME NEW ms \in Seq(ShellMessages)
    PROVE  /\ FramesOf(ms) \in Seq(Parts) /\ Len(FramesOf(ms)) = 2 * Len(ms)
           /\ \A j \in 1 .. Len(ms) : /\ FramesOf(ms)[2 * j - 1] = "len"
                                      /\ FramesOf(ms)[2 * j] = ms[j]
  <1>0. Len(ms) \in Nat /\ \A j \in 1 .. Len(ms) : ms[j] \in ShellMessages
    OBVIOUS
  <1>1. \A k \in 1 .. 2 * Len(ms) : k % 2 # 1 => k \div 2 \in 1 .. Len(ms)
    BY <1>0
  <1>2. \A k \in 1 .. 2 * Len(ms) : FramesOf(ms)[k] \in Parts
    BY <1>0, <1>1 DEF FramesOf, Parts
  <1>3. FramesOf(ms) \in [1 .. 2 * Len(ms) -> Parts]
    BY <1>2 DEF FramesOf
  <1>4. FramesOf(ms) \in Seq(Parts)
    <2>1. 2 * Len(ms) \in Nat
      BY <1>0
    <2> QED BY <1>3, <2>1, SeqDef
  <1>5. Len(FramesOf(ms)) = 2 * Len(ms)
    <2>1. DOMAIN FramesOf(ms) = 1 .. Len(FramesOf(ms)) /\ Len(FramesOf(ms)) \in Nat
      BY <1>4
    <2>2. DOMAIN FramesOf(ms) = 1 .. 2 * Len(ms)
      BY DEF FramesOf
    <2>3. ASSUME NEW a \in Nat, NEW b \in Nat, 1 .. a = 1 .. b PROVE a = b
      <3>1. (a > 0 => a \in 1 .. b) /\ (b > 0 => b \in 1 .. a)
        BY <2>3
      <3> QED BY <3>1
    <2>4. 2 * Len(ms) \in Nat
      BY <1>0
    <2> QED BY <2>1, <2>2, <2>3, <2>4
  <1>6. ASSUME NEW j \in 1 .. Len(ms)
        PROVE  FramesOf(ms)[2 * j - 1] = "len" /\ FramesOf(ms)[2 * j] = ms[j]
    <2>1. /\ 2 * j - 1 \in 1 .. 2 * Len(ms) /\ (2 * j - 1) % 2 = 1
          /\ 2 * j \in 1 .. 2 * Len(ms) /\ (2 * j) % 2 # 1 /\ (2 * j) \div 2 = j
      BY <1>0
    <2> QED BY <2>1 DEF FramesOf
  <1> QED BY <1>4, <1>5, <1>6

(* One more message leaves the frames of those before it. *)
LEMMA FramesGrow ==
    ASSUME NEW ms \in Seq(ShellMessages), NEW m \in ShellMessages
    PROVE  \A k \in 1 .. 2 * Len(ms) : FramesOf(Append(ms, m))[k] = FramesOf(ms)[k]
  <1> DEFINE more == Append(ms, m)
  <1>1. /\ Len(more) = Len(ms) + 1 /\ Len(ms) \in Nat
        /\ \A j \in 1 .. Len(ms) : more[j] = ms[j]
    OBVIOUS
  <1> HIDE DEF more
  <1>2. \A k \in 1 .. 2 * Len(ms) : k \in 1 .. 2 * Len(more)
    BY <1>1
  <1>3. \A k \in 1 .. 2 * Len(ms) : k % 2 # 1 => k \div 2 \in 1 .. Len(ms)
    BY <1>1
  <1>4. \A k \in 1 .. 2 * Len(ms) : FramesOf(more)[k] = FramesOf(ms)[k]
    BY <1>1, <1>2, <1>3 DEF FramesOf
  <1> QED BY <1>4 DEF more

(* A part is read, from the front. *)
LEMMA ReadOne ==
    ASSUME NEW n \in Nat, NEW sent \in Seq(Parts), NEW w \in Seq(Parts), w # <<>>,
           After(n, sent, w)
    PROVE  /\ Head(w) = sent[n + 1] /\ n + 1 <= Len(sent)
           /\ After(n + 1, sent, Tail(w)) /\ n + 1 + Len(Tail(w)) = n + Len(w)
  <1>1. Len(w) \in Nat /\ Len(w) > 0 /\ Len(sent) \in Nat
    OBVIOUS
  <1>2. /\ Head(w) = w[1] /\ Len(Tail(w)) = Len(w) - 1
        /\ \A i \in 1 .. Len(w) - 1 : Tail(w)[i] = w[i + 1]
    OBVIOUS
  <1>3. /\ 1 \in 1 .. Len(w) /\ n + Len(w) <= Len(sent)
        /\ n + 1 + (Len(w) - 1) = n + Len(w) /\ n + 1 <= Len(sent)
        /\ \A i \in 1 .. Len(w) - 1 : i + 1 \in 1 .. Len(w) /\ n + (i + 1) = n + 1 + i
    BY <1>1 DEF After
  <1>4. \A i \in 1 .. Len(w) - 1 : Tail(w)[i] = sent[n + 1 + i]
    BY <1>2, <1>3 DEF After
  <1>5. Head(w) = sent[n + 1]
    BY <1>2, <1>3 DEF After
  <1> QED BY <1>2, <1>3, <1>4, <1>5 DEF After

(* A part is added, at the end. *)
LEMMA AddOne ==
    ASSUME NEW n \in Nat, NEW sent \in Seq(Parts), NEW w \in Seq(Parts), NEW p \in Parts,
           After(n, sent, w), n + Len(w) < Len(sent), p = sent[n + Len(w) + 1]
    PROVE  After(n, sent, Append(w, p)) /\ Len(Append(w, p)) = Len(w) + 1
  <1> DEFINE v == Append(w, p)
  <1>1. /\ Len(v) = Len(w) + 1 /\ v[Len(w) + 1] = p /\ Len(w) \in Nat /\ Len(sent) \in Nat
        /\ \A i \in 1 .. Len(w) : v[i] = w[i]
    OBVIOUS
  <1> HIDE DEF v
  <1>2. ASSUME NEW i \in 1 .. Len(v) PROVE v[i] = sent[n + i]
    <2>1. CASE i \in 1 .. Len(w)
      BY <1>1, <2>1 DEF After
    <2>2. CASE i = Len(w) + 1
      <3>1. n + i = n + Len(w) + 1
        BY <1>1, <2>2
      <3> QED BY <1>1, <2>2, <3>1
    <2> QED BY <1>1, <2>1, <2>2
  <1>3. n + Len(v) <= Len(sent)
    BY <1>1
  <1> QED BY <1>1, <1>2, <1>3 DEF After, v

(* More is sent behind it. *)
LEMMA StillAfter ==
    ASSUME NEW n \in Nat, NEW s \in Seq(Parts), NEW more \in Seq(Parts), NEW w \in Seq(Parts),
           After(n, s, w), Len(s) <= Len(more), \A k \in 1 .. Len(s) : more[k] = s[k]
    PROVE  After(n, more, w)
  <1>1. Len(w) \in Nat /\ Len(s) \in Nat /\ Len(more) \in Nat
    OBVIOUS
  <1>2. \A i \in 1 .. Len(w) : n + i \in 1 .. Len(s)
    BY <1>1 DEF After
  <1>3. n + Len(w) <= Len(more)
    BY <1>1 DEF After
  <1> QED BY <1>2, <1>3 DEF After

-----------------------------------------------------------------------------
LEMMA ReadSoFar ==
    /\ PartsRead = 2 * Len(taken) + (IF SomeBody THEN 1 ELSE 0)
    /\ PartsRead' = 2 * Len(taken') + (IF SomeBody' THEN 1 ELSE 0)
  BY DEF PartsRead, SomeBody

LEMMA InitInOrder == Init => InOrder
  <1> SUFFICES ASSUME Init PROVE InOrder
    OBVIOUS
  <1>1. /\ taken = <<>> /\ arrived = <<>> /\ wire = <<>> /\ unsent = <<>> /\ sock = "none"
        /\ \A t \in Threads : thread[t].step # "body"
    BY DEF Init, Idle
  <1>2. \A S : <<>> \in Seq(S) /\ Len(<<>>) = 0
    OBVIOUS
  <1>3. Len(FramesOf(arrived)) = 0
    <2>1. arrived \in Seq(ShellMessages) /\ Len(arrived) = 0
      BY <1>1, <1>2
    <2>2. Len(FramesOf(arrived)) = 2 * Len(arrived)
      BY <2>1, FrameParts
    <2> QED BY <2>1, <2>2
  <1>4. PartsRead = 0
    BY <1>1, <1>2, ReadSoFar DEF SomeBody
  <1> QED BY <1>1, <1>2, <1>3, <1>4 DEF InOrder, Taken, After, Behind

(* Steps that read nothing, send nothing and end no wait for a payload.    *)
LEMMA Unread ==
    ASSUME InOrder, UNCHANGED <<sock, wire, unsent, arrived, taken>>,
           torn => torn', ~torn' => (SomeBody' <=> SomeBody)
    PROVE  InOrder'
  <1>1. CASE torn'
    BY <1>1 DEF InOrder
  <1>2. CASE ~torn'
    <2>1. PartsRead' = PartsRead
      BY <1>2, ReadSoFar
    <2>2. Taken' /\ After(PartsRead', FramesOf(arrived'), wire')
      BY <1>2, <2>1 DEF InOrder, Taken
    <2>3. Behind' /\ (sock' = "up" => Complete')
      BY <1>2, <2>1 DEF InOrder, Complete, Behind
    <2> QED BY <2>2, <2>3 DEF InOrder
  <1> QED BY <1>1, <1>2

(* The part a thread reads next comes after those read so far, and a       *)
(* payload is that of the first message not taken.                         *)
LEMMA NextPart ==
    ASSUME Inv, Stepping, InOrder, ~torn, NEW t \in Threads, Reading(t), wire # <<>>
    PROVE  /\ thread[t].step = "header" => PartsRead = 2 * Len(taken)
           /\ thread[t].step = "body" => /\ PartsRead = 2 * Len(taken) + 1
                                         /\ Len(taken) + 1 <= Len(arrived)
                                         /\ Head(wire) = arrived[Len(taken) + 1]
           /\ After(PartsRead + 1, FramesOf(arrived), Tail(wire))
           /\ PartsRead + 1 + Len(Tail(wire)) = PartsRead + Len(wire)
  <1>1. wire \in Seq(Parts) /\ arrived \in Seq(ShellMessages) /\ taken \in Seq(Msgs)
    BY DEF Inv, Socket, InOrder
  <1>2. Len(taken) \in Nat /\ Len(arrived) \in Nat
    BY <1>1
  <1>3. thread[t].step \in {"header", "body"} /\ (SomeBody <=> thread[t].step = "body")
    BY AloneInBody DEF Reading, SomeBody
  <1>4. /\ thread[t].step = "header" => PartsRead = 2 * Len(taken)
        /\ thread[t].step = "body" => PartsRead = 2 * Len(taken) + 1
    BY <1>3, ReadSoFar, <1>2
  <1>5. PartsRead \in Nat
    BY <1>2, <1>3, <1>4
  <1>6. /\ FramesOf(arrived) \in Seq(Parts) /\ Len(FramesOf(arrived)) = 2 * Len(arrived)
        /\ \A j \in 1 .. Len(arrived) : /\ FramesOf(arrived)[2 * j - 1] = "len"
                                        /\ FramesOf(arrived)[2 * j] = arrived[j]
    BY <1>1, FrameParts
  <1>7. After(PartsRead, FramesOf(arrived), wire)
    BY DEF InOrder
  <1>8. /\ Head(wire) = FramesOf(arrived)[PartsRead + 1] /\ PartsRead + 1 <= 2 * Len(arrived)
        /\ After(PartsRead + 1, FramesOf(arrived), Tail(wire))
        /\ PartsRead + 1 + Len(Tail(wire)) = PartsRead + Len(wire)
    BY <1>1, <1>5, <1>6, <1>7, ReadOne
  <1>9. CASE thread[t].step = "header"
    BY <1>4, <1>8, <1>9
  <1>10. CASE thread[t].step = "body"
    <2>1. /\ Len(taken) + 1 \in 1 .. Len(arrived) /\ Len(taken) + 1 <= Len(arrived)
          /\ PartsRead + 1 = 2 * (Len(taken) + 1)
      BY <1>2, <1>4, <1>8, <1>10
    <2>2. Head(wire) = arrived[Len(taken) + 1]
      BY <1>6, <1>8, <2>1
    <2> QED BY <1>4, <1>8, <1>10, <2>1, <2>2
  <1> QED BY <1>3, <1>9, <1>10

LEMMA ReadHeaderInOrder ==
    ASSUME Inv, Stepping, InOrder, NEW t \in Threads, ReadHeader(t)
    PROVE  InOrder'
  <1> USE DEF connection
  <1>1. /\ Reading(t) /\ wire # <<>> /\ thread[t].step = "header" /\ wire' = Tail(wire)
        /\ UNCHANGED <<sock, unsent, arrived, taken, torn>>
        /\ thread' = [thread EXCEPT ![t].step = "body", ![t].timed = timeout # "none"]
    BY DEF ReadHeader, ReadPart, ReadsOn
  <1>2. SomeBody'
    <2>1. thread'[t].step = "body"
      BY <1>1, UpdateTimed DEF Turns, Inv, Steps
    <2> QED BY <2>1 DEF SomeBody
  <1>3. CASE ~torn
    <2>1. PartsRead = 2 * Len(taken) /\ PartsRead' = PartsRead + 1
      BY <1>1, <1>2, <1>3, NextPart, ReadSoFar
    <2>2. After(PartsRead', FramesOf(arrived'), wire')
      BY <1>1, <1>3, <2>1, NextPart
    <2>3. PartsRead' + Len(wire') = PartsRead + Len(wire)
      BY <1>1, <1>3, <2>1, NextPart
    <2>4. Behind' /\ (sock' = "up" => Complete')
      BY <1>1, <1>3, <2>3 DEF InOrder, Complete, Behind
    <2> QED BY <1>1, <1>3, <2>2, <2>4 DEF InOrder, Taken
  <1> QED BY <1>1, <1>3 DEF InOrder

LEMMA ReadBodyInOrder ==
    ASSUME Inv, Stepping, InOrder, NEW t \in Threads, ReadBody(t)
    PROVE  InOrder'
  <1> USE DEF connection
  <1>1. /\ Reading(t) /\ wire # <<>> /\ thread[t].step = "body" /\ wire' = Tail(wire)
        /\ UNCHANGED <<sock, unsent, arrived, torn>>
        /\ taken' = Append(taken, Head(wire)) /\ Head(wire) # "len"
        /\ thread' = [thread EXCEPT ![t].step = "got", ![t].msg = Head(wire), ![t].timed = FALSE]
    BY DEF ReadBody, ReadPart, InStep, Took
  <1>2. taken \in Seq(Msgs) /\ arrived \in Seq(ShellMessages) /\ wire \in Seq(Parts)
    BY DEF InOrder, Inv, Socket
  <1>3. Len(taken) \in Nat /\ Len(arrived) \in Nat
    BY <1>2
  <1>4. Head(wire) \in Msgs
    <2>1. Head(wire) \in Parts
      BY <1>1, <1>2
    <2> QED BY <1>1, <2>1, BridgeAssumption DEF Parts, Msgs
  <1>5. /\ taken' \in Seq(Msgs) /\ Len(taken') = Len(taken) + 1
        /\ taken'[Len(taken) + 1] = Head(wire) /\ \A i \in 1 .. Len(taken) : taken'[i] = taken[i]
    BY <1>1, <1>2, <1>4
  <1>6. ~SomeBody'
    <2>1. thread'[t].step = "got" /\ \A u \in Threads \ {t} : thread'[u] = thread[u]
      BY <1>1, <1>4, UpdateTaken DEF Turns, Inv, Steps
    <2> QED BY <1>1, <2>1, AloneInBody DEF SomeBody
  <1>7. CASE ~torn
    <2>1. /\ PartsRead = 2 * Len(taken) + 1 /\ Len(taken) + 1 <= Len(arrived)
          /\ Head(wire) = arrived[Len(taken) + 1]
      BY <1>1, <1>7, NextPart
    <2>2. PartsRead' = PartsRead + 1
      BY <1>3, <1>5, <1>6, <2>1, ReadSoFar
    <2>3. Taken'
      <3>1. ASSUME NEW i \in 1 .. Len(taken) + 1 PROVE taken'[i] = arrived[i]
        <4>1. CASE i \in 1 .. Len(taken)
          BY <1>5, <1>7, <4>1 DEF InOrder, Taken
        <4>2. CASE i = Len(taken) + 1
          BY <1>5, <2>1, <4>2
        <4> QED BY <1>3, <4>1, <4>2
      <3> QED BY <1>1, <1>5, <2>1, <3>1 DEF Taken
    <2>4. After(PartsRead', FramesOf(arrived'), wire')
      BY <1>1, <1>7, <2>2, NextPart
    <2>5. PartsRead' + Len(wire') = PartsRead + Len(wire)
      BY <1>1, <1>7, <2>2, NextPart
    <2>6. Behind' /\ (sock' = "up" => Complete')
      BY <1>1, <1>7, <2>5 DEF InOrder, Complete, Behind
    <2> QED BY <1>5, <2>3, <2>4, <2>6 DEF InOrder
  <1> QED BY <1>1, <1>5, <1>7 DEF InOrder

(* Nothing is out of step unless a timeout has struck inside a frame. *)
LEMMA ReadNonsenseInOrder ==
    ASSUME Inv, Stepping, InOrder, NEW t \in Threads, ReadNonsense(t)
    PROVE  InOrder'
  <1>1. torn' = torn /\ taken' = taken
    BY DEF ReadNonsense
  <1>2. torn
    BY StepsAsItReads DEF ReadNonsense, Stepping
  <1> QED BY <1>1, <1>2 DEF InOrder

(* At the end of the stream nothing is left to read. *)
LEMMA EofInOrder ==
    ASSUME Inv, InOrder, NEW t \in Threads, RecvEof(t)
    PROVE  InOrder'
  <1>1. /\ Reading(t) /\ wire = <<>> /\ sock = "closed"
        /\ UNCHANGED <<sock, wire, unsent, arrived, taken, torn>> /\ Leave(t, "raised")
    BY DEF RecvEof, connection
  <1>2. taken \in Seq(Msgs) /\ arrived \in Seq(ShellMessages) /\ unsent \in Seq(ShellMessages)
    BY DEF InOrder, Inv, Socket
  <1>3. Len(taken) \in Nat /\ Len(arrived) \in Nat /\ Len(unsent) \in Nat /\ Len(wire) = 0
    BY <1>1, <1>2
  <1>4. ~SomeBody'
    BY <1>1, LeavesBody, AloneInBody DEF Reading, SomeBody
  <1>5. PartsRead' <= PartsRead
    BY <1>1, <1>3, <1>4, ReadSoFar
  <1>6. PartsRead' \in Nat /\ PartsRead \in Nat
    BY <1>1, <1>3, ReadSoFar
  <1>7. Len(FramesOf(arrived)) = 2 * Len(arrived)
    BY <1>2, FrameParts
  <1>8. ASSUME ~torn' PROVE Taken' /\ After(PartsRead', FramesOf(arrived'), wire') /\ Behind'
    <2>1. Taken /\ PartsRead <= Len(FramesOf(arrived)) /\ Behind
      BY <1>1, <1>3, <1>6, <1>7, <1>8 DEF InOrder, After
    <2>2. PartsRead' <= Len(FramesOf(arrived))
      BY <1>3, <1>5, <1>6, <1>7, <2>1
    <2>3. Behind'
      BY <1>1, <1>3, <1>5, <1>6, <2>1 DEF Behind
    <2> QED BY <1>1, <1>3, <1>6, <2>1, <2>2, <2>3 DEF Taken, After
  <1> QED BY <1>1, <1>2, <1>8 DEF InOrder

LEMMA StartsInOrder ==
    ASSUME Inv, InOrder, ShellStarts
    PROVE  InOrder'
  <1>1. PICK m \in ShellMessages : arrived' = Append(arrived, m) /\ unsent' = <<m>>
    BY DEF ShellStarts
  <1>2. /\ sock = "up" /\ sock' = "up" /\ unsent = <<>> /\ wire' = Append(wire, "len")
        /\ UNCHANGED <<thread, taken, torn>>
    BY DEF ShellStarts
  <1>3. taken \in Seq(Msgs) /\ arrived \in Seq(ShellMessages) /\ wire \in Seq(Parts)
    BY DEF InOrder, Inv, Socket
  <1>4. /\ arrived' \in Seq(ShellMessages) /\ Len(arrived') = Len(arrived) + 1
        /\ arrived'[Len(arrived) + 1] = m /\ \A i \in 1 .. Len(arrived) : arrived'[i] = arrived[i]
    BY <1>1, <1>3
  <1>5. /\ Len(taken) \in Nat /\ Len(arrived) \in Nat /\ Len(wire) \in Nat /\ Len(unsent) = 0
        /\ unsent' # <<>> /\ Len(unsent') = 1
    BY <1>1, <1>2, <1>3
  <1>6. PartsRead' = PartsRead /\ PartsRead \in Nat
    BY <1>2, <1>5, ReadSoFar DEF SomeBody
  <1>7. ASSUME ~torn
        PROVE  Taken' /\ After(PartsRead', FramesOf(arrived'), wire') /\ Complete' /\ Behind'
    <2> DEFINE old == FramesOf(arrived)
               new == FramesOf(arrived')
    <2>1. old \in Seq(Parts) /\ Len(old) = 2 * Len(arrived)
      BY <1>3, FrameParts
    <2>2. /\ new \in Seq(Parts) /\ Len(new) = 2 * Len(arrived')
          /\ \A j \in 1 .. Len(arrived') : new[2 * j - 1] = "len"
      BY <1>4, FrameParts
    <2>3. \A k \in 1 .. Len(old) : new[k] = old[k]
      BY <1>1, <1>3, <2>1, FramesGrow
    <2>4. Taken /\ After(PartsRead, old, wire) /\ Complete
      BY <1>2, <1>7 DEF InOrder
    <2> HIDE DEF old, new
    <2>5. Len(old) <= Len(new)
      BY <1>4, <1>5, <2>1, <2>2
    <2>6. After(PartsRead, new, wire)
      BY <1>3, <1>6, <2>1, <2>2, <2>3, <2>4, <2>5, StillAfter
    <2>7. PartsRead + Len(wire) = 2 * Len(arrived)
      BY <1>5, <1>6, <2>4 DEF Complete
    <2>8. /\ Len(arrived) + 1 \in 1 .. Len(arrived')
          /\ PartsRead + Len(wire) + 1 = 2 * (Len(arrived) + 1) - 1
          /\ PartsRead + Len(wire) < Len(new)
      BY <1>4, <1>5, <1>6, <2>2, <2>7
    <2>9. new[PartsRead + Len(wire) + 1] = "len" /\ "len" \in Parts
      BY <2>2, <2>8 DEF Parts
    <2>10. After(PartsRead, new, wire') /\ Len(wire') = Len(wire) + 1
      BY <1>2, <1>3, <1>6, <2>2, <2>6, <2>8, <2>9, AddOne
    <2>11. PartsRead' + Len(wire') + Len(unsent') = 2 * Len(arrived')
      BY <1>4, <1>5, <1>6, <2>7, <2>10
    <2>12. arrived' # <<>> /\ unsent' = <<arrived'[Len(arrived')]>>
      <3>1. Len(arrived') # 0
        BY <1>4, <1>5
      <3>2. arrived' # <<>>
        BY <3>1
      <3> QED BY <1>1, <1>4, <3>2
    <2>13. Taken'
      BY <1>2, <1>4, <1>5, <2>4 DEF Taken
    <2>14. Behind'
      BY <1>5, <2>11 DEF Behind
    <2> QED BY <1>6, <2>10, <2>11, <2>12, <2>13, <2>14 DEF Complete, new
  <1> QED BY <1>2, <1>3, <1>7 DEF InOrder

LEMMA FinishesInOrder ==
    ASSUME Inv, InOrder, ShellFinishes
    PROVE  InOrder'
  <1>1. /\ sock = "up" /\ sock' = "up" /\ unsent # <<>> /\ unsent' = <<>>
        /\ wire' = wire \o unsent
        /\ UNCHANGED <<thread, taken, torn, arrived>>
    BY DEF ShellFinishes
  <1>2. taken \in Seq(Msgs) /\ arrived \in Seq(ShellMessages) /\ wire \in Seq(Parts)
    BY DEF InOrder, Inv, Socket
  <1>3. Len(taken) \in Nat /\ Len(arrived) \in Nat /\ Len(wire) \in Nat /\ Len(unsent') = 0
    BY <1>1, <1>2
  <1>4. PartsRead' = PartsRead /\ PartsRead \in Nat
    BY <1>1, <1>3, ReadSoFar DEF SomeBody
  <1>5. ASSUME ~torn
        PROVE  Taken' /\ After(PartsRead', FramesOf(arrived'), wire') /\ Complete' /\ Behind'
    <2> DEFINE m == arrived[Len(arrived)]
               sent == FramesOf(arrived)
    <2>1. /\ Taken /\ After(PartsRead, sent, wire) /\ arrived # <<>> /\ unsent = <<m>>
          /\ PartsRead + Len(wire) + Len(unsent) = 2 * Len(arrived)
      BY <1>1, <1>5 DEF InOrder, Complete
    <2>2. /\ sent \in Seq(Parts) /\ Len(sent) = 2 * Len(arrived)
          /\ \A j \in 1 .. Len(arrived) : sent[2 * j] = arrived[j]
      BY <1>2, FrameParts
    <2>3. Len(arrived) \in 1 .. Len(arrived)
      BY <1>2, <1>3, <2>1
    <2>4. m \in Parts
      BY <1>2, <2>3 DEF Parts
    <2>5. sent[2 * Len(arrived)] = m
      BY <2>2, <2>3
    <2> HIDE DEF m, sent
    <2>6. wire' = Append(wire, m) /\ Len(unsent) = 1
      BY <1>1, <1>2, <2>1, <2>4
    <2>7. PartsRead + Len(wire) + 1 = 2 * Len(arrived) /\ PartsRead + Len(wire) < Len(sent)
      BY <1>3, <1>4, <2>1, <2>2, <2>6
    <2>8. After(PartsRead, sent, wire') /\ Len(wire') = Len(wire) + 1
      BY <1>2, <1>4, <2>1, <2>2, <2>4, <2>5, <2>6, <2>7, AddOne
    <2>9. PartsRead' + Len(wire') + Len(unsent') = 2 * Len(arrived')
      BY <1>1, <1>3, <1>4, <2>7, <2>8
    <2>10. Behind'
      BY <1>3, <2>9 DEF Behind
    <2> QED BY <1>1, <1>4, <2>1, <2>8, <2>9, <2>10 DEF Complete, Taken, sent
  <1> QED BY <1>1, <1>2, <1>5 DEF InOrder

LEMMA ClosesInOrder ==
    ASSUME Inv, InOrder, ShellCloses
    PROVE  InOrder'
  <1>1. /\ sock' = "closed" /\ wire' \in {wire, <<>>}
        /\ UNCHANGED <<thread, taken, torn, arrived, unsent>>
    BY DEF ShellCloses
  <1>2. /\ taken \in Seq(Msgs) /\ arrived \in Seq(ShellMessages) /\ wire \in Seq(Parts)
        /\ unsent \in Seq(ShellMessages)
    BY DEF InOrder, Inv, Socket
  <1>3. /\ Len(taken) \in Nat /\ Len(wire) \in Nat /\ Len(FramesOf(arrived)) \in Nat
        /\ Len(unsent) \in Nat /\ Len(arrived) \in Nat /\ Len(<<>>) = 0
    BY <1>2, FrameParts
  <1>4. PartsRead' = PartsRead /\ PartsRead \in Nat
    BY <1>1, <1>3, ReadSoFar DEF SomeBody
  <1>5. ASSUME After(PartsRead, FramesOf(arrived), wire)
        PROVE  After(PartsRead, FramesOf(arrived), <<>>)
    BY <1>3, <1>4, <1>5 DEF After
  <1>6. Behind => Behind'
    BY <1>1, <1>3, <1>4 DEF Behind
  <1> QED BY <1>1, <1>2, <1>4, <1>5, <1>6 DEF InOrder, Taken

LEMMA ConnectionInOrder ==
    ASSUME Connect \/ Disconnect
    PROVE  InOrder'
  <1>1. /\ taken' = <<>> /\ arrived' = <<>> /\ wire' = <<>> /\ unsent' = <<>>
        /\ thread' = thread /\ AllIdle
    BY DEF Connect, Disconnect
  <1>2. \A S : <<>> \in Seq(S) /\ Len(<<>>) = 0
    OBVIOUS
  <1>3. Len(FramesOf(arrived')) = 0
    <2>1. arrived' \in Seq(ShellMessages) /\ Len(arrived') = 0
      BY <1>1, <1>2
    <2>2. Len(FramesOf(arrived')) = 2 * Len(arrived')
      BY <2>1, FrameParts
    <2> QED BY <2>1, <2>2
  <1>4. PartsRead' = 0
    BY <1>1, <1>2, ReadSoFar DEF SomeBody, AllIdle
  <1>5. Taken' /\ After(PartsRead', FramesOf(arrived'), wire') /\ Complete' /\ Behind'
    BY <1>1, <1>2, <1>3, <1>4 DEF Taken, After, Complete, Behind
  <1> QED BY <1>1, <1>2, <1>5 DEF InOrder

(* The other turns of a thread. *)
LEMMA TimesOutInOrder ==
    ASSUME Inv, InOrder, NEW t \in Threads, RecvTimesOut(t)
    PROVE  InOrder'
  <1>1. /\ UNCHANGED <<sock, wire, unsent, arrived, taken>> /\ Leave(t, "timeout")
        /\ torn' = (torn \/ thread[t].step = "body") /\ torn \in BOOLEAN
    BY DEF RecvTimesOut, connection, Inv, Socket
  <1>2. CASE torn'
    BY <1>1, <1>2, Unread
  <1>3. CASE ~torn'
    BY <1>1, <1>3, LeavesBody, NotInBody, Unread
  <1> QED BY <1>2, <1>3

LEMMA NextInOrder == Inv /\ Stepping /\ InOrder /\ [Next]_vars => InOrder'
  <1> SUFFICES ASSUME Inv, Stepping, InOrder, [Next]_vars PROVE InOrder'
    OBVIOUS
  <1>1. CASE UNCHANGED vars
    <2>1. SomeBody' <=> SomeBody
      BY <1>1 DEF vars, SomeBody
    <2> QED BY <1>1, <2>1, Unread DEF vars
  <1>2. ASSUME NEW t \in Threads,
               \/ CallRequest(t) \/ CallWait(t) \/ SendTooLarge(t) \/ SendFails(t)
               \/ SendHeader(t) \/ SendPayload(t) \/ Arm(t) \/ Receive(t) \/ React(t) \/ Finally(t)
        PROVE  InOrder'
    BY <1>2, Others, Unread
  <1> QED
    BY <1>1, <1>2, ReadHeaderInOrder, ReadBodyInOrder, ReadNonsenseInOrder, TimesOutInOrder,
       EofInOrder, StartsInOrder, FinishesInOrder, ClosesInOrder, ConnectionInOrder
    DEF Next, Progress

(* Two sequences with the same elements. *)
LEMMA SameParts ==
    ASSUME NEW v \in Seq(Parts), NEW w \in Seq(Parts), Len(v) = Len(w),
           \A i \in 1 .. Len(v) : v[i] = w[i]
    PROVE  v = w
  OBVIOUS

LEMMA OrderIsKept == Inv /\ InOrder => ReceivedInOrder
  <1> SUFFICES ASSUME Inv, InOrder, ~torn
               PROVE  /\ IsPrefix(taken, arrived)
                      /\ sock = "up" => wire \o unsent =
                           SubSeq(FramesOf(arrived), PartsRead + 1, 2 * Len(arrived))
    BY DEF ReceivedInOrder
  <1> DEFINE sent == FramesOf(arrived)
  <1>1. /\ taken \in Seq(Msgs) /\ arrived \in Seq(ShellMessages) /\ wire \in Seq(Parts)
        /\ unsent \in Seq(Parts)
    BY DEF InOrder, Inv, Socket, Parts
  <1>2. /\ Len(taken) \in Nat /\ Len(arrived) \in Nat /\ Len(wire) \in Nat /\ Len(unsent) \in Nat
    BY <1>1
  <1>3. PartsRead \in Nat
    BY <1>2, ReadSoFar
  <1>4. /\ sent \in Seq(Parts) /\ Len(sent) = 2 * Len(arrived)
        /\ \A j \in 1 .. Len(arrived) : sent[2 * j] = arrived[j]
    BY <1>1, FrameParts
  <1>5. IsPrefix(taken, arrived)
    <2>1. Len(taken) <= Len(arrived) /\ \A i \in 1 .. Len(taken) : taken[i] = arrived[i]
      BY DEF InOrder, Taken
    <2>2. SubSeq(taken, 1, Len(taken)) = SubSeq(arrived, 1, Len(taken))
      BY <1>1, <1>2, <2>1
    <2> QED BY <2>1, <2>2 DEF IsPrefix
  <1>6. ASSUME sock = "up"
        PROVE  wire \o unsent = SubSeq(sent, PartsRead + 1, 2 * Len(arrived))
    <2> DEFINE left == SubSeq(sent, PartsRead + 1, 2 * Len(arrived))
               come == wire \o unsent
    <2>1. After(PartsRead, sent, wire) /\ Complete
      BY <1>6 DEF InOrder
    <2> HIDE DEF sent
    <2>2. /\ PartsRead + Len(wire) + Len(unsent) = 2 * Len(arrived)
          /\ PartsRead + 1 \in Nat /\ 2 * Len(arrived) \in Nat
      BY <1>2, <1>3, <2>1 DEF Complete
    <2>3. /\ left \in Seq(Parts) /\ Len(left) = Len(wire) + Len(unsent)
          /\ \A i \in 1 .. Len(wire) + Len(unsent) : left[i] = sent[PartsRead + i]
      <3>1. /\ 2 * Len(arrived) - (PartsRead + 1) + 1 = Len(wire) + Len(unsent)
            /\ \A i \in 1 .. Len(wire) + Len(unsent) : (PartsRead + 1) + i - 1 = PartsRead + i
        BY <1>2, <1>3, <1>4, <2>2
      <3>2. \A i \in PartsRead + 1 .. 2 * Len(arrived) : sent[i] \in Parts
        <4>1. \A i \in PartsRead + 1 .. 2 * Len(arrived) : i \in 1 .. Len(sent)
          BY <1>3, <1>4, <2>2
        <4> QED BY <1>4, <4>1
      <3> DEFINE a == PartsRead + 1
                 b == 2 * Len(arrived)
      <3>3. a \in Int /\ b \in Int
        BY <2>2
      <3>4. (IF a <= b THEN b - a + 1 ELSE 0) = Len(wire) + Len(unsent)
        BY <1>2, <1>3, <2>2
      <3>5. /\ b - a + 1 = Len(wire) + Len(unsent)
            /\ \A i \in 1 .. Len(wire) + Len(unsent) : a + i - 1 = PartsRead + i
            /\ \A i \in a .. b : sent[i] \in Parts
        BY <3>1, <3>2
      <3> HIDE DEF a, b
      <3>6. /\ SubSeq(sent, a, b) \in Seq(Parts)
            /\ Len(SubSeq(sent, a, b)) = IF a <= b THEN b - a + 1 ELSE 0
            /\ \A i \in 1 .. b - a + 1 : SubSeq(sent, a, b)[i] = sent[a + i - 1]
        BY <3>3, <3>5, SubSeqProperties
      <3>7. left = SubSeq(sent, a, b)
        BY DEF a, b
      <3> HIDE DEF left
      <3> QED BY <3>4, <3>5, <3>6, <3>7
    <2>4. /\ come \in Seq(Parts) /\ Len(come) = Len(wire) + Len(unsent)
          /\ \A i \in 1 .. Len(wire) : come[i] = wire[i]
          /\ \A i \in 1 .. Len(unsent) : come[Len(wire) + i] = unsent[i]
      BY <1>1, <1>2
    <2> HIDE DEF left, come
    <2>5. ASSUME NEW i \in 1 .. Len(come) PROVE come[i] = left[i]
      <3>1. CASE i \in 1 .. Len(wire)
        <4>1. come[i] = sent[PartsRead + i]
          BY <2>1, <2>4, <3>1 DEF After
        <4> QED BY <2>3, <2>4, <2>5, <4>1
      <3>2. CASE i \notin 1 .. Len(wire)
        <4>1. Len(unsent) # 0
          BY <1>2, <2>4, <3>2
        <4>2. unsent = <<arrived[Len(arrived)]>> /\ arrived # <<>>
          BY <2>1, <4>1 DEF Complete
        <4>3. Len(unsent) = 1 /\ unsent[1] = arrived[Len(arrived)]
          BY <4>2
        <4>4. i = Len(wire) + 1 /\ PartsRead + i = 2 * Len(arrived) /\ 1 \in 1 .. Len(unsent)
          <5>1. Len(come) = Len(wire) + 1
            BY <2>4, <4>3
          <5>2. i = Len(wire) + 1
            BY <1>2, <2>5, <3>2, <5>1
          <5>3. PartsRead + Len(wire) + 1 = 2 * Len(arrived)
            BY <2>2, <4>3
          <5> QED BY <1>2, <1>3, <4>3, <5>2, <5>3
        <4>5. Len(arrived) \in 1 .. Len(arrived)
          BY <1>1, <1>2, <4>2
        <4>6. come[i] = arrived[Len(arrived)] /\ sent[PartsRead + i] = arrived[Len(arrived)]
          BY <1>4, <2>4, <4>3, <4>4, <4>5
        <4> QED BY <2>3, <2>4, <2>5, <4>6
      <3> QED BY <3>1, <3>2
    <2>6. come = left
      BY <2>3, <2>4, <2>5, SameParts
    <2> QED BY <2>6 DEF come, left
  <1> QED BY <1>5, <1>6

(* Until a timeout strikes inside a frame, _recv_message returns what the  *)
(* shell has sent in its order, whichever thread reads which part, and     *)
(* what has not been read is still to come (_recv_exact under _recv_lock). *)
THEOREM InTurn == Spec => []ReceivedInOrder
  <1>1. Init => Inv /\ Stepping /\ InOrder
    BY InitInv, InitStepping, InitInOrder
  <1>2. Inv /\ Stepping /\ InOrder /\ [Next]_vars => Inv' /\ Stepping' /\ InOrder'
    BY NextInv, NextStepping, NextInOrder
  <1> QED BY <1>1, <1>2, OrderIsKept, PTL DEF Spec
-----------------------------------------------------------------------------
(* The bridge implements the protocol between messages.                    *)

JustFrames(q, n) == AreFrames(q, n) /\ ~AreFrames(q, n + 1)

(* One part more, and the frames there were. *)
LEMMA OnePart ==
    ASSUME NEW q \in Seq(Parted), NEW n \in Nat, JustFrames(q, n), NEW p \in Parted
    PROVE  /\ Append(q, p) \in Seq(Parted) /\ Len(Append(q, p)) = Len(q) + 1
           /\ AreFrames(Append(q, p), n) /\ Payloads(Append(q, p), n) = Payloads(q, n)
           /\ Append(q, p)[Len(q) + 1] = p
           /\ Len(q) # 2 * n + 1 \/ p[2] = "len" => JustFrames(Append(q, p), n)
  <1> DEFINE r == Append(q, p)
  <1>1. /\ r \in Seq(Parted) /\ Len(r) = Len(q) + 1 /\ Len(q) \in Nat /\ r[Len(q) + 1] = p
        /\ \A i \in 1 .. Len(q) : r[i] = q[i]
    OBVIOUS
  <1> HIDE DEF r
  <1>2. 2 * n <= Len(q) /\ \A k \in 1 .. n : 2 * k \in 1 .. Len(q)
    BY <1>1 DEF JustFrames, AreFrames
  <1>3. \A k \in 1 .. n : r[2 * k] = q[2 * k]
    BY <1>1, <1>2
  <1>4. AreFrames(r, n) /\ Payloads(r, n) = Payloads(q, n)
    BY <1>1, <1>2, <1>3 DEF JustFrames, AreFrames, Payloads
  <1>5. ASSUME Len(q) # 2 * n + 1 \/ p[2] = "len", AreFrames(r, n + 1) PROVE FALSE
    <2>1. 2 * (n + 1) <= Len(q) + 1 /\ r[2 * (n + 1)][2] # "len"
      BY <1>1, <1>5 DEF AreFrames
    <2>2. CASE Len(q) = 2 * n + 1
      <3>1. 2 * (n + 1) = Len(q) + 1
        BY <2>2
      <3> QED BY <1>1, <1>5, <2>1, <2>2, <3>1
    <2>3. CASE Len(q) # 2 * n + 1
      <3>1. 2 * (n + 1) \in 1 .. Len(q)
        BY <1>1, <1>2, <2>1, <2>3
      <3>2. q[2 * (n + 1)][2] # "len"
        BY <1>1, <2>1, <3>1
      <3>3. \A k \in 1 .. n + 1 : k \in 1 .. n \/ k = n + 1
        OBVIOUS
      <3>4. AreFrames(q, n + 1)
        BY <3>1, <3>2, <3>3 DEF JustFrames, AreFrames
      <3> QED BY <3>4 DEF JustFrames
    <2> QED BY <2>2, <2>3
  <1> QED BY <1>1, <1>4, <1>5 DEF JustFrames, r

(* The payload that completes a frame. *)
LEMMA OneFrame ==
    ASSUME NEW q \in Seq(Parted), NEW n \in Nat, JustFrames(q, n), NEW p \in Parted,
           Len(q) = 2 * n + 1, p[2] # "len"
    PROVE  /\ JustFrames(Append(q, p), n + 1)
           /\ Payloads(Append(q, p), n + 1) = Append(Payloads(q, n), p[2])
  <1> DEFINE r == Append(q, p)
  <1>1. /\ Len(r) = 2 * (n + 1) /\ r[2 * (n + 1)] = p /\ AreFrames(r, n)
        /\ Payloads(r, n) = Payloads(q, n)
    BY OnePart
  <1> HIDE DEF r
  <1>2. \A k \in 1 .. n + 1 : k \in 1 .. n \/ k = n + 1
    OBVIOUS
  <1>3. AreFrames(r, n + 1) /\ ~AreFrames(r, n + 1 + 1)
    BY <1>1, <1>2 DEF AreFrames
  <1>4. Payloads(r, n + 1) = Append(Payloads(r, n), r[2 * (n + 1)][2])
    <2> DEFINE a == Payloads(r, n)
               b == Payloads(r, n + 1)
               x == r[2 * (n + 1)][2]
               S == {r[2 * k][2] : k \in 1 .. n + 1}
    <2>0. n + 1 \in 1 .. n + 1 /\ \A k \in 1 .. n : k \in 1 .. n + 1
      OBVIOUS
    <2>s. x \in S /\ \A k \in 1 .. n + 1 : r[2 * k][2] \in S
      BY <2>0
    <2> HIDE DEF S
    <2>1. /\ a \in [1 .. n -> S] /\ b \in [1 .. n + 1 -> S] /\ x \in S
          /\ \A k \in 1 .. n : b[k] = a[k]
          /\ b[n + 1] = x
      BY <2>0, <2>s DEF Payloads
    <2> HIDE DEF a, b, x
    <2>2. a \in Seq(S) /\ Len(a) = n
      BY <2>1
    <2>3. b \in Seq(S) /\ Len(b) = n + 1
      BY <2>1
    <2> DEFINE c == Append(a, x)
    <2>4. /\ c \in Seq(S) /\ Len(c) = n + 1 /\ c[n + 1] = x
          /\ \A k \in 1 .. n : c[k] = a[k]
      BY <2>1, <2>2
    <2> HIDE DEF c
    <2>5. \A k \in 1 .. n + 1 : b[k] = c[k]
      BY <1>2, <2>1, <2>4
    <2>6. b = c
      BY <2>3, <2>4, <2>5
    <2> QED BY <2>6 DEF a, b, c, x
  <1> QED BY <1>1, <1>3, <1>4 DEF JustFrames, r

LEMMA OneCount ==
    ASSUME NEW q, Len(q) \in Nat, NEW n \in Nat, NEW m \in Nat, JustFrames(q, n), JustFrames(q, m)
    PROVE  n = m
  <1>1. ASSUME NEW a \in Nat, NEW b \in Nat, a < b, AreFrames(q, b) PROVE AreFrames(q, a + 1)
    <2>1. \A k \in 1 .. a + 1 : k \in 1 .. b
      BY <1>1
    <2>2. 2 * (a + 1) <= 2 * b
      BY <1>1
    <2> QED BY <1>1, <2>1, <2>2 DEF AreFrames
  <1>2. ~(n < m) /\ ~(m < n)
    BY <1>1 DEF JustFrames
  <1> QED BY <1>2

LEMMA Counted ==
    ASSUME NEW q, Len(q) \in Nat, NEW n \in Nat, JustFrames(q, n)
    PROVE  WholeFrames(q) = n
  <1>1. n \in 0 .. Len(q)
    BY DEF JustFrames, AreFrames
  <1>2. WholeFrames(q) \in 0 .. Len(q) /\ JustFrames(q, WholeFrames(q))
    BY <1>1 DEF WholeFrames, JustFrames
  <1>3. WholeFrames(q) \in Nat
    BY <1>2
  <1> QED BY <1>2, <1>3, OneCount

Counting == out \in Seq(Parted) /\ \E n \in Nat : JustFrames(out, n)

(* What was said stays as it is when a length is written. *)
LEMMA LengthSaid ==
    ASSUME Counting, NEW t \in Threads, sendLock = "nobody", out' = Append(out, <<t, "len">>)
    PROVE  /\ Counting' /\ Said' = Said
           /\ sendLock' = t => (FrameBroken' <=> FrameBroken)
           /\ sendLock' = "nobody" => FrameBroken'
  <1> DEFINE p == <<t, "len">>
  <1>1. PICK n \in Nat : JustFrames(out, n)
    BY DEF Counting
  <1>2. p \in Parted /\ p[2] = "len"
    BY DEF Parted
  <1>3. /\ out' \in Seq(Parted) /\ Len(out') = Len(out) + 1 /\ JustFrames(out', n)
        /\ Payloads(out', n) = Payloads(out, n)
    BY <1>1, <1>2, OnePart DEF Counting
  <1>4. Len(out) \in Nat /\ 2 * n <= Len(out)
    BY <1>1 DEF JustFrames, AreFrames, Counting
  <1>5. WholeFrames(out) = n /\ WholeFrames(out') = n
    BY <1>1, <1>3, <1>4, Counted
  <1>6. t # "nobody"
    BY BridgeAssumption
  <1>7. sendLock' = t => (FrameBroken' <=> FrameBroken)
    BY <1>3, <1>4, <1>5, <1>6 DEF FrameBroken
  <1>8. sendLock' = "nobody" => FrameBroken'
    BY <1>3, <1>4, <1>5 DEF FrameBroken
  <1> QED BY <1>1, <1>3, <1>5, <1>7, <1>8 DEF Counting, Said

(* A payload that completes a frame is said, and what comes after a frame  *)
(* that was cut short is not.                                              *)
LEMMA PayloadSaid ==
    ASSUME Counting, NEW t \in Threads, NEW m \in Msgs, sendLock = t, sendLock' = "nobody",
           out # <<>>, out[Len(out)] = <<t, "len">>, out' = Append(out, <<t, m>>)
    PROVE  /\ Counting' /\ (FrameBroken' <=> FrameBroken)
           /\ Said' = IF FrameBroken THEN Said ELSE Append(Said, m)
  <1> DEFINE p == <<t, m>>
  <1>1. PICK n \in Nat : JustFrames(out, n)
    BY DEF Counting
  <1>2. p \in Parted /\ p[2] = m /\ m # "len"
    BY DEF Parted, Msgs
  <1>3. /\ out' \in Seq(Parted) /\ Len(out') = Len(out) + 1
        /\ Len(out) # 2 * n + 1 => JustFrames(out', n)
        /\ Payloads(out', n) = Payloads(out, n)
    BY <1>1, <1>2, OnePart DEF Counting
  <1>4. /\ Len(out) \in Nat /\ 2 * n <= Len(out) /\ Len(out) # 0 /\ t # "nobody"
        /\ \A k \in 1 .. n : out[2 * k][2] # "len"
    BY <1>1, BridgeAssumption DEF JustFrames, AreFrames, Counting
  <1>5. Len(out) # 2 * n
    <2> SUFFICES ASSUME Len(out) = 2 * n PROVE FALSE
      OBVIOUS
    <2>1. n \in 1 .. n
      BY <1>4
    <2>2. out[2 * n][2] # "len"
      BY <1>4, <2>1
    <2> QED BY <2>2
  <1>6. CASE Len(out) = 2 * n + 1
    <2>1. JustFrames(out', n + 1) /\ Payloads(out', n + 1) = Append(Payloads(out, n), m)
      BY <1>1, <1>2, <1>6, OneFrame DEF Counting
    <2>2. WholeFrames(out) = n /\ WholeFrames(out') = n + 1
      BY <1>1, <1>3, <1>4, <2>1, Counted
    <2>3. ~FrameBroken /\ ~FrameBroken'
      BY <1>3, <1>4, <1>6, <2>2 DEF FrameBroken
    <2>4. Counting'
      <3>1. n + 1 \in Nat
        OBVIOUS
      <3> QED BY <1>3, <2>1, <3>1 DEF Counting
    <2> QED BY <2>1, <2>2, <2>3, <2>4 DEF Said
  <1>7. CASE Len(out) >= 2 * n + 2
    <2>1. JustFrames(out', n)
      BY <1>3, <1>7
    <2>2. WholeFrames(out) = n /\ WholeFrames(out') = n
      BY <1>1, <1>3, <1>4, <2>1, Counted
    <2>3. FrameBroken /\ FrameBroken'
      BY <1>3, <1>4, <1>7, <2>2 DEF FrameBroken
    <2> QED BY <1>3, <2>1, <2>2, <2>3 DEF Counting, Said
  <1> QED BY <1>4, <1>5, <1>6, <1>7

(* A send that gives up after its length cuts its frame short. *)
LEMMA LengthWasted ==
    ASSUME Counting, NEW t \in Threads, sendLock' = "nobody",
           out # <<>>, out[Len(out)] = <<t, "len">>, out' = out
    PROVE  Counting' /\ FrameBroken' /\ Said' = Said
  <1>1. PICK n \in Nat : JustFrames(out, n)
    BY DEF Counting
  <1>2. /\ Len(out) \in Nat /\ 2 * n <= Len(out) /\ Len(out) # 0
        /\ \A k \in 1 .. n : out[2 * k][2] # "len"
    BY <1>1 DEF JustFrames, AreFrames, Counting
  <1>3. Len(out) # 2 * n
    <2> SUFFICES ASSUME Len(out) = 2 * n PROVE FALSE
      OBVIOUS
    <2>1. n \in 1 .. n
      BY <1>2
    <2>2. out[2 * n][2] # "len"
      BY <1>2, <2>1
    <2> QED BY <2>2
  <1>4. WholeFrames(out) = n
    BY <1>1, <1>2, Counted
  <1> QED BY <1>2, <1>3, <1>4 DEF FrameBroken, Counting, Said

FarewellBy(t) ==
    out' \in {out, out \o <<<<t, "len">>>>, out \o <<<<t, "len">>, <<t, "Shutdown">>>>}

(* The three ways a farewell can go. *)
LEMMA FarewellSaid ==
    ASSUME Counting, NEW t \in Threads, sendLock = "nobody", sendLock' = "nobody", FarewellBy(t)
    PROVE  /\ Counting'
           /\ \/ Said' = Said /\ (FrameBroken' <=> FrameBroken)
              \/ Said' = Said /\ FrameBroken'
              \/ ~FrameBroken /\ ~FrameBroken' /\ Said' = Append(Said, "Shutdown")
  <1> DEFINE p == <<t, "len">>
             r == <<t, "Shutdown">>
             one == Append(out, p)
             two == Append(one, r)
  <1>1. PICK n \in Nat : JustFrames(out, n)
    BY DEF Counting
  <1>2. p \in Parted /\ p[2] = "len" /\ r \in Parted /\ r[2] = "Shutdown"
    BY DEF Parted, Msgs
  <1>3. /\ one \in Seq(Parted) /\ Len(one) = Len(out) + 1 /\ JustFrames(one, n)
        /\ Payloads(one, n) = Payloads(out, n)
    BY <1>1, <1>2, OnePart DEF Counting
  <1>4. /\ out \o <<<<t, "len">>>> = one
        /\ out \o <<<<t, "len">>, <<t, "Shutdown">>>> = two
    BY <1>2 DEF Counting
  <1>5. Len(out) \in Nat /\ 2 * n <= Len(out) /\ WholeFrames(out) = n /\ n + 1 \in Nat
    BY <1>1, Counted DEF JustFrames, AreFrames, Counting
  <1> HIDE DEF p, r, one
  <1>6. CASE out' = out
    BY <1>1, <1>6 DEF Counting, Said, FrameBroken
  <1>7. CASE out' = one
    <2>1. WholeFrames(out') = n
      BY <1>3, <1>5, <1>7, Counted
    <2>2. FrameBroken'
      <3>1. Len(out') >= 2 * n + 2 \/ Len(out') = 2 * n + 1
        BY <1>3, <1>5, <1>7
      <3> QED BY <2>1, <3>1 DEF FrameBroken
    <2> QED BY <1>3, <1>5, <1>7, <2>1, <2>2 DEF Counting, Said
  <1>8. CASE out' = two /\ Len(out) = 2 * n
    <2>1. /\ two \in Seq(Parted) /\ Len(two) = Len(out) + 2 /\ JustFrames(two, n + 1)
          /\ Payloads(two, n + 1) = Append(Payloads(out, n), "Shutdown")
      <3>1. two \in Seq(Parted) /\ Len(two) = Len(one) + 1
        BY <1>2, <1>3, OnePart
      <3>2. Len(one) = 2 * n + 1 /\ r[2] # "len"
        BY <1>2, <1>3, <1>8
      <3>3. /\ JustFrames(two, n + 1)
            /\ Payloads(two, n + 1) = Append(Payloads(one, n), "Shutdown")
        BY <1>2, <1>3, <3>2, OneFrame
      <3> HIDE DEF two
      <3> QED BY <1>3, <1>5, <3>1, <3>3
    <2> HIDE DEF two
    <2>2. WholeFrames(out') = n + 1
      BY <1>5, <1>8, <2>1, Counted
    <2>3. ~FrameBroken /\ ~FrameBroken'
      BY <1>5, <1>8, <2>1, <2>2 DEF FrameBroken
    <2> QED BY <1>5, <1>8, <2>1, <2>2, <2>3 DEF Counting, Said
  <1>9. CASE out' = two /\ Len(out) # 2 * n
    <2>1. /\ two \in Seq(Parted) /\ Len(two) = Len(out) + 2 /\ JustFrames(two, n)
          /\ Payloads(two, n) = Payloads(out, n)
      <3>1. Len(one) # 2 * n + 1
        BY <1>3, <1>5, <1>9
      <3> QED BY <1>2, <1>3, <1>5, <3>1, OnePart
    <2> HIDE DEF two
    <2>2. WholeFrames(out') = n
      BY <1>5, <1>9, <2>1, Counted
    <2>3. FrameBroken'
      BY <1>5, <1>9, <2>1, <2>2 DEF FrameBroken
    <2> QED BY <1>5, <1>9, <2>1, <2>2, <2>3 DEF Counting, Said
  <1> QED BY <1>4, <1>6, <1>7, <1>8, <1>9 DEF FarewellBy

(* Nothing is written. *)
LEMMA NothingSaid ==
    ASSUME Counting, UNCHANGED <<out, sendLock>>
    PROVE  Counting' /\ Said' = Said /\ FrameBroken' = FrameBroken
  BY DEF Counting, Said, FrameBroken

-----------------------------------------------------------------------------
(* What the callers see of a thread. *)

LookStep(s) ==
    CASE s \in {"idle", "finally"}               -> "out"
      [] s \in {"send", "payload"}               -> "send"
      [] s \in {"arm", "recv", "header", "body"} -> "recv"
      [] OTHER                                   -> "got"

Look(s, c, m) ==
    [step |-> LookStep(s),
     call |-> IF LookStep(s) = "out" THEN "none" ELSE c,
     msg  |-> IF LookStep(s) \in {"send", "got"} THEN m ELSE "none"]

LEMMA SeenIs ==
    /\ \A t \in Threads :
         SeenCalls[t] = Look(thread[t].step, thread[t].call, thread[t].msg)
    /\ \A c, m : Look("idle", c, m) = Protocol!Out /\ Look("finally", c, m) = Protocol!Out
  BY DEF SeenCalls, Seen, SeenStep, Look, LookStep, Protocol!Out

LEMMA SeenTurns ==
    ASSUME NEW t \in Threads, NEW s, NEW c, NEW m, Turns(t, s, c, m)
    PROVE  SeenCalls' = [SeenCalls EXCEPT ![t] = Look(s, c, m)]
  <1>1. \A u \in Threads \ {t} : Seen(u)' = Seen(u)
    BY DEF Turns, Seen, SeenStep
  <1>2. Seen(t)' = Look(s, c, m)
    BY DEF Turns, Seen, SeenStep, Look, LookStep
  <1> QED BY <1>1, <1>2 DEF SeenCalls

(* A turn that the callers do not see. *)
LEMMA SeenSame ==
    ASSUME NEW t \in Threads, NEW s, NEW c, NEW m, Turns(t, s, c, m),
           Look(s, c, m) = SeenCalls[t]
    PROVE  SeenCalls' = SeenCalls
  <1>1. SeenCalls' = [SeenCalls EXCEPT ![t] = SeenCalls[t]]
    BY SeenTurns
  <1>2. ASSUME NEW f, f = [u \in Threads |-> Seen(u)] PROVE [f EXCEPT ![t] = f[t]] = f
    BY <1>2
  <1> QED BY <1>1, <1>2 DEF SeenCalls

(* A turn inside a call, and one out of it. *)
LEMMA SeenTurn ==
    ASSUME NEW t \in Threads, NEW s, NEW m, Turns(t, s, thread[t].call, m),
           LookStep(thread[t].step) # "out", LookStep(s) # "out"
    PROVE  Protocol!Turn(t, LookStep(s), IF LookStep(s) = "recv" THEN "none" ELSE m)
  <1>1. SeenCalls[t] = Look(thread[t].step, thread[t].call, thread[t].msg)
    BY SeenIs
  <1>2. SeenCalls' = [SeenCalls EXCEPT ![t] = Look(s, thread[t].call, m)]
    BY SeenTurns
  <1>3. LookStep(s) \in {"send", "recv", "got"}
    BY DEF LookStep
  <1>4. Look(s, thread[t].call, m) =
          [step |-> LookStep(s), call |-> SeenCalls[t].call,
           msg |-> IF LookStep(s) = "recv" THEN "none" ELSE m]
    BY <1>1, <1>3 DEF Look
  <1> QED BY <1>2, <1>4 DEF Protocol!Turn

LEMMA SeenQuit ==
    ASSUME Inv, NEW t \in Threads, NEW r \in Results, Leave(t, r)
    PROVE  Protocol!Quit(t)
  <1>1. PICK s \in {"finally", "idle"}, c \in Methods \cup {"none"}, m \in Msgs :
          Turns(t, s, c, m)
    BY Leaves
  <1> QED BY <1>1, SeenTurns, SeenIs DEF Protocol!Quit

(* The protocol and the bridge speak of the same calls. *)
LEMMA SameCalls ==
    /\ Protocol!Request = Request
    /\ \A c, m : Protocol!Reaction(c, m) = Reaction(c, m)
  BY DEF Protocol!Request, Request, Protocol!Reaction, Reaction

-----------------------------------------------------------------------------
(* What is in the socket for the callers. *)

(* The first payload is the first part or the second. *)
Lead(w) == IF w # <<>> /\ Head(w) = "len" THEN 0 ELSE 1

LEMMA PayloadFacts ==
    ASSUME NEW w \in Seq(Parts)
    PROVE  /\ PayloadsIn(w) \in Seq(Parts) /\ Lead(w) \in {0, 1}
           /\ Len(PayloadsIn(w)) = (Len(w) + Lead(w)) \div 2
           /\ \A i \in 1 .. (Len(w) + Lead(w)) \div 2 :
                2 * i - Lead(w) \in 1 .. Len(w) /\ PayloadsIn(w)[i] = w[2 * i - Lead(w)]
  <1> DEFINE k == Lead(w)
             n == (Len(w) + Lead(w)) \div 2
             q == PayloadsIn(w)
  <1>1. Len(w) \in Nat /\ k \in {0, 1}
    BY DEF Lead
  <1>2. n \in Nat
    BY <1>1
  <1>3. \A i \in 1 .. n : 2 * i - k \in 1 .. Len(w)
    BY <1>1
  <1>4. q = [i \in 1 .. n |-> w[2 * i - k]]
    BY DEF PayloadsIn, Lead
  <1> HIDE DEF q, n, k
  <1>5. \A i \in 1 .. n : q[i] = w[2 * i - k] /\ w[2 * i - k] \in Parts
    BY <1>3, <1>4
  <1>6. q \in [1 .. n -> Parts]
    BY <1>4, <1>5
  <1>7. q \in Seq(Parts)
    BY <1>2, <1>6, SeqDef
  <1>8. Len(q) = n
    <2>1. DOMAIN q = 1 .. Len(q) /\ Len(q) \in Nat
      BY <1>7
    <2>2. DOMAIN q = 1 .. n
      BY <1>6
    <2>3. ASSUME NEW a \in Nat, NEW b \in Nat, 1 .. a = 1 .. b PROVE a = b
      <3>1. (a > 0 => a \in 1 .. b) /\ (b > 0 => b \in 1 .. a)
        BY <2>3
      <3> QED BY <3>1
    <2> QED BY <1>2, <2>1, <2>2, <2>3
  <1> QED BY <1>1, <1>3, <1>5, <1>7, <1>8 DEF q, n, k

LEMMA NoPayloads == PayloadsIn(<<>>) = <<>>
  <1>1. <<>> \in Seq(Parts) /\ Len(<<>>) = 0 /\ Lead(<<>>) = 1
    BY DEF Lead
  <1>2. /\ PayloadsIn(<<>>) \in Seq(Parts)
        /\ Len(PayloadsIn(<<>>)) = (Len(<<>>) + Lead(<<>>)) \div 2
    BY <1>1, PayloadFacts, Zenon
  <1>3. (0 + 1) \div 2 = 0
    OBVIOUS
  <1>4. Len(PayloadsIn(<<>>)) = 0
    BY <1>1, <1>2, <1>3, Zenon
  <1>5. \A u \in Seq(Parts) : Len(u) = 0 => u = <<>>
    OBVIOUS
  <1> QED BY <1>2, <1>4, <1>5

(* Reading past a length leaves the payloads, past a payload the others. *)
LEMMA PassPart ==
    ASSUME NEW w \in Seq(Parts), w # <<>>, Alternates(w)
    PROVE  /\ Head(w) = "len" => PayloadsIn(Tail(w)) = PayloadsIn(w)
           /\ Head(w) # "len" => /\ PayloadsIn(w) # <<>> /\ Head(PayloadsIn(w)) = Head(w)
                                 /\ PayloadsIn(Tail(w)) = Tail(PayloadsIn(w))
  <1>a. Len(w) \in Nat /\ Len(w) > 0 /\ Head(w) = w[1] /\ Tail(w) \in Seq(Parts)
    OBVIOUS
  <1>b. Len(Tail(w)) = Len(w) - 1 /\ \A i \in 1 .. Len(w) - 1 : Tail(w)[i] = w[i + 1]
    OBVIOUS
  <1>c. Tail(w) # <<>> => (Head(Tail(w)) # "len" <=> Head(w) = "len")
    BY AlternatesTail
  <1>e. Len(<<>>) = 0 /\ \A u \in Seq(Parts) : Len(u) = 0 => u = <<>>
    OBVIOUS
  <1>d. Len(w) # 1 => Tail(w) # <<>>
    <2> SUFFICES ASSUME Tail(w) = <<>> PROVE Len(w) = 1
      OBVIOUS
    <2>1. Len(Tail(w)) = 0
      BY <1>e, Zenon
    <2> QED BY <1>a, <1>b, <2>1
  <1> DEFINE v == Tail(w)
             q == PayloadsIn(w)
             r == PayloadsIn(v)
  <1>1. /\ v \in Seq(Parts) /\ Len(v) = Len(w) - 1
        /\ \A i \in 1 .. Len(w) - 1 : v[i] = w[i + 1]
    BY <1>a, <1>b
  <1>2. Lead(w) = IF Head(w) = "len" THEN 0 ELSE 1
    BY DEF Lead
  <1>3. Len(w) # 1 => Lead(v) = 1 - Lead(w)
    BY <1>2, <1>c, <1>d DEF Lead
  <1>4. Len(w) = 1 => Lead(v) = 1
    <2> HIDE DEF v
    <2> SUFFICES ASSUME Len(w) = 1 PROVE Lead(v) = 1
      OBVIOUS
    <2>1. v = <<>>
      BY <1>1, <1>e
    <2> QED BY <2>1 DEF Lead
  <1>5. /\ q \in Seq(Parts) /\ Len(q) = (Len(w) + Lead(w)) \div 2
        /\ \A i \in 1 .. (Len(w) + Lead(w)) \div 2 : q[i] = w[2 * i - Lead(w)]
    BY PayloadFacts
  <1>6. /\ r \in Seq(Parts) /\ Len(r) = (Len(v) + Lead(v)) \div 2
        /\ \A i \in 1 .. (Len(v) + Lead(v)) \div 2 : r[i] = v[2 * i - Lead(v)]
    BY <1>1, PayloadFacts
  <1> HIDE DEF v, q, r
  <1>7. CASE Head(w) = "len"
    <2>1. Lead(w) = 0 /\ Lead(v) = 1
      BY <1>2, <1>3, <1>4, <1>7
    <2>2. Len(r) = Len(q) /\ Len(q) = Len(w) \div 2
      BY <1>1, <1>5, <1>6, <1>a, <2>1
    <2>3. ASSUME NEW i \in 1 .. Len(r) PROVE r[i] = q[i]
      <3>1. r[i] = v[2 * i - 1] /\ q[i] = w[2 * i] /\ i \in Nat
        BY <1>5, <1>6, <2>1, <2>2
      <3>2. 2 * i - 1 \in 1 .. Len(w) - 1 /\ (2 * i - 1) + 1 = 2 * i
        BY <1>a, <2>2
      <3> QED BY <1>1, <3>1, <3>2
    <2>4. r = q
      BY <1>5, <1>6, <2>2, <2>3, SameParts
    <2> QED BY <1>7, <2>4 DEF v, q, r
  <1>8. CASE Head(w) # "len"
    <2>1. Lead(w) = 1 /\ (Len(w) # 1 => Lead(v) = 0) /\ (Len(w) = 1 => Lead(v) = 1)
      BY <1>2, <1>3, <1>4, <1>8
    <2>2. Len(q) = (Len(w) + 1) \div 2 /\ Len(q) >= 1 /\ Len(r) = Len(q) - 1
      <3>1. Len(q) = (Len(w) + 1) \div 2 /\ Len(r) = (Len(w) - 1 + Lead(v)) \div 2
        BY <1>1, <1>5, <1>6, <2>1
      <3>2. CASE Len(w) = 1
        <4>1. Lead(v) = 1
          BY <2>1, <3>2
        <4> QED BY <3>1, <3>2, <4>1
      <3>3. CASE Len(w) # 1
        <4>1. Lead(v) = 0
          BY <2>1, <3>3
        <4>2. \A n \in Nat : n >= 2 => (n + 1) \div 2 >= 1 /\ (n - 1 + 0) \div 2 = (n + 1) \div 2 - 1
          OBVIOUS
        <4> QED BY <1>a, <3>1, <3>3, <4>1, <4>2
      <3> QED BY <3>2, <3>3
    <2>3. q # <<>> /\ Head(q) = q[1] /\ q[1] = w[1]
      BY <1>5, <2>1, <2>2
    <2>4. /\ Tail(q) \in Seq(Parts) /\ Len(Tail(q)) = Len(q) - 1
      BY <1>5, <2>3
    <2>5. \A i \in 1 .. Len(q) - 1 : Tail(q)[i] = q[i + 1]
      BY <1>5, <2>3
    <2>6. ASSUME NEW i \in 1 .. Len(r) PROVE r[i] = Tail(q)[i]
      <3>1. Len(w) # 1 /\ i \in 1 .. Len(q) - 1 /\ i + 1 \in 1 .. Len(q)
        <4>1. Len(q) \in Nat /\ i \in 1 .. Len(q) - 1 /\ i + 1 \in 1 .. Len(q)
          BY <1>5, <2>2
        <4>2. (1 + 1) \div 2 = 1
          OBVIOUS
        <4>3. Len(q) # 1
          <5>1. \A n \in Nat : \A j \in 1 .. n - 1 : n # 1
            OBVIOUS
          <5> QED BY <4>1, <5>1, Zenon
        <4>4. Len(w) # 1
          BY <2>2, <4>2, <4>3
        <4> QED BY <4>1, <4>4
      <3>2. r[i] = v[2 * i] /\ q[i + 1] = w[2 * i + 1]
        BY <1>5, <1>6, <2>1, <3>1
      <3>3. 2 * i \in 1 .. Len(w) - 1
        BY <1>a, <2>2, <3>1
      <3> QED BY <1>1, <2>5, <3>1, <3>2, <3>3
    <2>7. r = Tail(q)
      BY <1>6, <2>2, <2>4, <2>6, SameParts
    <2> QED BY <1>8, <1>a, <2>3, <2>7 DEF v, q, r
  <1> QED BY <1>7, <1>8

(* One more part: a length is no payload. *)
LEMMA AddPart ==
    ASSUME NEW w \in Seq(Parts), Alternates(w), NEW p \in Parts,
           w # <<>> => (w[Len(w)] = "len" <=> p # "len")
    PROVE  PayloadsIn(Append(w, p)) = IF p = "len" THEN PayloadsIn(w) ELSE Append(PayloadsIn(w), p)
  <1> DEFINE v == Append(w, p)
             q == PayloadsIn(w)
             r == PayloadsIn(v)
  <1>a. v \in Seq(Parts)
    OBVIOUS
  <1>b. Len(v) = Len(w) + 1 /\ v[Len(w) + 1] = p
    OBVIOUS
  <1>c. \A i \in 1 .. Len(w) : v[i] = w[i]
    OBVIOUS
  <1>d. v # <<>> /\ Head(v) = IF w = <<>> THEN p ELSE Head(w)
    BY AlternatesAppend
  <1>e. Len(w) \in Nat /\ (w = <<>> <=> Len(w) = 0) /\ (w # <<>> => Head(w) = w[1])
    OBVIOUS
  <1>1. Lead(v) = IF w = <<>> THEN (IF p = "len" THEN 0 ELSE 1) ELSE Lead(w)
    BY <1>d DEF Lead
  <1>2. /\ q \in Seq(Parts) /\ Len(q) = (Len(w) + Lead(w)) \div 2 /\ Lead(w) \in {0, 1}
        /\ \A i \in 1 .. (Len(w) + Lead(w)) \div 2 :
             2 * i - Lead(w) \in 1 .. Len(w) /\ q[i] = w[2 * i - Lead(w)]
    BY PayloadFacts
  <1>3. /\ r \in Seq(Parts) /\ Len(r) = (Len(v) + Lead(v)) \div 2
        /\ \A i \in 1 .. (Len(v) + Lead(v)) \div 2 : r[i] = v[2 * i - Lead(v)]
    BY <1>a, PayloadFacts
  <1>4. w = <<>> => Lead(w) = 1
    BY DEF Lead
  <1>5. w # <<>> => ((Len(w) + Lead(w)) % 2 = 0 <=> p = "len")
    <2> SUFFICES ASSUME w # <<>> PROVE (Len(w) + Lead(w)) % 2 = 0 <=> p = "len"
      OBVIOUS
    <2>1. 1 \in 1 .. Len(w) /\ Len(w) \in 1 .. Len(w)
      BY <1>e
    <2>2. (w[1] = "len" <=> w[Len(w)] = "len") <=> 1 % 2 = Len(w) % 2
      BY <2>1 DEF Alternates
    <2>3. Lead(w) = IF w[1] = "len" THEN 0 ELSE 1
      BY <1>e DEF Lead
    <2>4. CASE w[1] = "len"
      BY <1>e, <2>2, <2>3, <2>4
    <2>5. CASE w[1] # "len"
      BY <1>e, <2>2, <2>3, <2>5
    <2> QED BY <2>4, <2>5
  <1> HIDE DEF v, q, r
  <1>6. CASE p = "len"
    <2>1. Len(r) = Len(q)
      BY <1>1, <1>2, <1>3, <1>4, <1>5, <1>6, <1>b, <1>e
    <2>2. ASSUME NEW i \in 1 .. Len(r) PROVE r[i] = q[i]
      <3>1. w # <<>> /\ Lead(v) = Lead(w)
        BY <1>1, <1>2, <1>4, <1>e, <2>1
      <3> QED BY <1>2, <1>3, <1>c, <2>1, <3>1
    <2>3. r = q
      BY <1>2, <1>3, <2>1, <2>2, SameParts
    <2> QED BY <1>6, <2>3 DEF v, q, r
  <1>7. CASE p # "len"
    <2>1. Lead(v) = Lead(w) /\ (Len(w) + Lead(w)) % 2 = 1
      BY <1>1, <1>2, <1>4, <1>5, <1>7, <1>e
    <2>2. Len(r) = Len(q) + 1 /\ 2 * Len(r) - Lead(v) = Len(w) + 1 /\ Len(q) \in Nat
      <3> DEFINE n == Len(w) + Lead(w)
      <3>a. Len(w) \in Nat /\ Lead(w) \in {0, 1} /\ Lead(v) = Lead(w) /\ n % 2 = 1
        BY <1>2, <1>e, <2>1
      <3>b. Len(v) = Len(w) + 1
        BY <1>b DEF v
      <3>1. n \in Nat /\ n % 2 = 1 /\ Len(v) + Lead(v) = n + 1 /\ Lead(w) \in {0, 1}
        BY <3>a, <3>b
      <3>2. Len(q) = n \div 2 /\ Len(r) = (n + 1) \div 2
        BY <1>2, <1>3, <3>1
      <3>3. n = Len(w) + Lead(v)
        BY <2>1
      <3> HIDE DEF n
      <3>4. n \div 2 \in Nat /\ (n + 1) \div 2 = n \div 2 + 1 /\ 2 * ((n + 1) \div 2) = n + 1
        BY <3>1
      <3>5. Len(r) = Len(q) + 1 /\ Len(q) \in Nat
        BY <3>2, <3>4
      <3>6. 2 * Len(r) = n + 1 /\ n \in Nat /\ n = Len(w) + Lead(w) /\ Lead(v) = Lead(w)
        BY <2>1, <3>1, <3>2, <3>3, <3>4
      <3>7. 2 * Len(r) - Lead(v) = Len(w) + 1
        BY <3>6, <3>a
      <3> QED BY <3>5, <3>7
    <2>3. Append(q, p) \in Seq(Parts) /\ Len(Append(q, p)) = Len(q) + 1
      BY <1>2
    <2>4. Append(q, p)[Len(q) + 1] = p /\ \A i \in 1 .. Len(q) : Append(q, p)[i] = q[i]
      BY <1>2
    <2>5. ASSUME NEW i \in 1 .. Len(r) PROVE r[i] = Append(q, p)[i]
      <3>1. CASE i = Len(r)
        BY <1>3, <1>b, <2>2, <2>4, <3>1
      <3>2. CASE i # Len(r)
        <4>1. i \in 1 .. Len(q)
          BY <2>2, <3>2
        <4> QED BY <1>2, <1>3, <1>c, <2>1, <2>4, <4>1
      <3> QED BY <3>1, <3>2
    <2>6. r = Append(q, p)
      BY <1>3, <2>2, <2>3, <2>5, SameParts
    <2> QED BY <1>7, <2>6 DEF v, q, r
  <1> QED BY <1>6, <1>7

-----------------------------------------------------------------------------
(* Each step of the bridge is a step of the protocol, or is not seen. *)

Seems == Protocol!Next \/ UNCHANGED Protocol!vars

(* A turn of a thread that writes nothing and takes nothing. *)
Apart == UNCHANGED <<sock, sendLock, out, adrift>> /\ NotTaken' = NotTaken

LEMMA NothingTaken ==
    ASSUME wire' = wire
    PROVE  NotTaken' = NotTaken
  BY DEF NotTaken

LEMMA ApartIs ==
    ASSUME Counting, Apart
    PROVE  /\ Counting' /\ UNCHANGED <<sock, Said, FrameBroken, NotTaken, adrift>>
  BY NothingSaid DEF Apart

(* A part is read: a length is not seen, a payload was the first message. *)
LEMMA PartRead ==
    ASSUME Inv, Stepping, wire # <<>>, wire' = Tail(wire)
    PROVE  /\ Head(wire) = "len" => NotTaken' = NotTaken
           /\ Head(wire) # "len" => /\ NotTaken # <<>> /\ Head(NotTaken) = Head(wire)
                                    /\ NotTaken' = Tail(NotTaken)
  BY PassPart DEF Inv, Socket, Stepping, NotTaken

LEMMA Unnoticed ==
    ASSUME Inv, Counting, NEW t \in Threads, NEW s, NEW m,
           Turns(t, s, thread[t].call, m),
           Look(s, thread[t].call, m) = Look(thread[t].step, thread[t].call, thread[t].msg),
           Apart
    PROVE  Seems /\ Counting'
  <1>1. SeenCalls' = SeenCalls
    BY SeenIs, SeenSame
  <1> QED BY <1>1, ApartIs DEF Seems, Protocol!vars

LEMMA CallSeen ==
    ASSUME Inv, Counting, NEW t \in Threads, CallRequest(t) \/ CallWait(t)
    PROVE  Seems /\ Counting'
  <1>1. /\ sock \in {"up", "closed"} /\ thread[t].step = "idle" /\ Apart
        /\ thread \in [Threads -> ThreadStates] /\ thread[t].msg \in Msgs
    BY NothingTaken DEF CallRequest, CallWait, CallOf, Apart, connection, Inv, Socket, ThreadStates
  <1>2. SeenCalls[t].step = "out"
    BY <1>1, SeenIs DEF Look, LookStep
  <1>3. ASSUME NEW m \in Methods,
               SeenCalls' = [SeenCalls EXCEPT ![t] =
                 IF m \in DOMAIN Request
                 THEN [step |-> "send", call |-> m, msg |-> Request[m]]
                 ELSE [step |-> "recv", call |-> m, msg |-> "none"]]
        PROVE  Protocol!Call(t)
    BY <1>1, <1>2, <1>3, ApartIs, SameCalls DEF Protocol!Call, Protocol!Connected
  <1>4. CASE CallRequest(t)
    <2>1. PICK m \in DOMAIN Request :
            /\ CallOf(t, m)
            /\ thread' = [thread EXCEPT ![t].step = "send", ![t].call = m, ![t].msg = Request[m]]
      BY <1>4 DEF CallRequest
    <2>2. m \in Methods /\ Request[m] \in Msgs
      BY <2>1, RequestFacts DEF CallOf
    <2>3. Turns(t, "send", m, Request[m])
      BY <1>1, <2>1, <2>2, UpdateRequest DEF Steps
    <2>4. Look("send", m, Request[m]) = [step |-> "send", call |-> m, msg |-> Request[m]]
      BY DEF Look, LookStep
    <2>5. Protocol!Call(t)
      BY <1>3, <2>2, <2>3, <2>4, SeenTurns
    <2> QED BY <1>1, <2>5, ApartIs DEF Seems, Protocol!Next
  <1>5. CASE CallWait(t)
    <2>1. PICK m \in Waits \ DOMAIN Request :
            /\ CallOf(t, m)
            /\ thread' = [thread EXCEPT ![t].step = "recv", ![t].call = m]
      BY <1>5 DEF CallWait
    <2>2. m \in Methods
      BY <2>1 DEF CallOf
    <2>3. Turns(t, "recv", m, thread[t].msg)
      BY <1>1, <2>1, <2>2, UpdateCall DEF Steps
    <2>4. Look("recv", m, thread[t].msg) = [step |-> "recv", call |-> m, msg |-> "none"]
      BY DEF Look, LookStep
    <2>5. Protocol!Call(t)
      BY <1>3, <2>1, <2>2, <2>3, <2>4, SeenTurns
    <2> QED BY <1>1, <2>5, ApartIs DEF Seems, Protocol!Next
  <1> QED BY <1>4, <1>5

LEMMA SendSeen ==
    ASSUME Inv, Counting, NEW t \in Threads,
           SendHeader(t) \/ SendPayload(t) \/ SendTooLarge(t) \/ SendFails(t)
    PROVE  Seems /\ Counting'
  <1>0. /\ thread \in [Threads -> ThreadStates] /\ thread[t].msg \in Msgs
        /\ \A s \in {"send", "payload"} : thread[t].step = s => SeenCalls[t].step = "send"
        /\ SeenCalls[t] = Look(thread[t].step, thread[t].call, thread[t].msg)
    BY SeenIs DEF Inv, ThreadStates, Look, LookStep
  <1>1. CASE SendHeader(t)
    <2>1. /\ thread[t].step = "send" /\ sendLock = "nobody" /\ sendLock' = t
          /\ out' = Append(out, <<t, "len">>)
          /\ UNCHANGED <<sock, wire, adrift>>
      BY <1>1 DEF SendHeader, connection
    <2>2. Turns(t, "payload", thread[t].call, thread[t].msg)
      BY <1>0, <1>1, UpdateTimed DEF SendHeader, Steps
    <2>3. Look("payload", thread[t].call, thread[t].msg) = SeenCalls[t]
      BY <1>0, <2>1 DEF Look, LookStep
    <2>4. SeenCalls' = SeenCalls
      BY <2>2, <2>3, SeenSame
    <2>5. Counting' /\ Said' = Said /\ (FrameBroken' <=> FrameBroken)
      BY <2>1, LengthSaid
    <2> QED BY <2>1, <2>4, <2>5, NothingTaken DEF Seems, Protocol!vars, FrameBroken
  <1>2. ASSUME thread[t].step = "payload" PROVE /\ sendLock = t /\ out # <<>>
                                                /\ out[Len(out)] = <<t, "len">>
    BY <1>2 DEF Inv, Locks, Frames
  <1>3. CASE SendPayload(t)
    <2>1. /\ thread[t].step = "payload" /\ sendLock' = "nobody"
          /\ out' = Append(out, <<t, thread[t].msg>>)
          /\ UNCHANGED <<sock, wire, adrift>>
      BY <1>3 DEF SendPayload, connection
    <2>2. /\ Counting' /\ (FrameBroken' <=> FrameBroken)
          /\ Said' = IF FrameBroken THEN Said ELSE Append(Said, thread[t].msg)
      BY <1>0, <1>2, <2>1, PayloadSaid
    <2>3. SeenCalls[t].msg = thread[t].msg /\ SeenCalls[t].call = thread[t].call
      BY <1>0, <2>1 DEF Look, LookStep
    <2>4. IF Protocol!Answered(t) THEN Protocol!Turn(t, "recv", "none") ELSE Protocol!Quit(t)
      <3>1. Protocol!Answered(t) <=> AfterSend(t) # "idle"
        BY <2>3 DEF Protocol!Answered, AfterSend
      <3>2. CASE AfterSend(t) = "idle"
        <4>1. Turns(t, "idle", "none", "none")
          BY <1>0, <1>3, <3>2, UpdateIdle DEF SendPayload
        <4>2. Protocol!Quit(t)
          BY <4>1, SeenTurns, SeenIs DEF Protocol!Quit
        <4> QED BY <3>1, <3>2, <4>2
      <3>3. CASE AfterSend(t) # "idle"
        <4>1. AfterSend(t) \in {"recv", "arm"}
          BY <3>3 DEF AfterSend
        <4>2. Turns(t, AfterSend(t), thread[t].call, thread[t].msg)
          BY <1>0, <1>3, <3>3, <4>1, UpdateSent DEF SendPayload, Steps
        <4>3. LookStep(AfterSend(t)) = "recv" /\ LookStep(thread[t].step) # "out"
          BY <2>1, <4>1 DEF LookStep
        <4>4. Protocol!Turn(t, "recv", "none")
          BY <4>2, <4>3, SeenTurn
        <4> QED BY <3>1, <3>3, <4>4
      <3> QED BY <3>2, <3>3
    <2>5. Protocol!Say(t)
      BY <1>0, <2>1, <2>2, <2>3, <2>4, NothingTaken DEF Protocol!Say, FrameBroken
    <2> QED BY <2>2, <2>5 DEF Seems, Protocol!Next
  <1>4. CASE SendTooLarge(t)
    <2>1. Apart /\ thread[t].step = "send" /\ Leave(t, "raised")
      BY <1>4, NothingTaken DEF SendTooLarge, Apart, connection
    <2>2. Protocol!GiveUp(t)
      BY <1>0, <2>1, ApartIs, SeenQuit DEF Protocol!GiveUp, Results
    <2> QED BY <2>1, <2>2, ApartIs DEF Seems, Protocol!Next
  <1>5. CASE SendFails(t)
    <2>1. /\ thread[t].step = "payload" /\ sendLock' = "nobody" /\ out' = out
          /\ UNCHANGED <<sock, wire, adrift>>
          /\ Leave(t, "raised") \/ Leave(t, "timeout")
      BY <1>5 DEF SendFails, connection
    <2>2. Counting' /\ FrameBroken' /\ Said' = Said
      BY <1>2, <2>1, LengthWasted
    <2>3. Protocol!Quit(t)
      BY <2>1, SeenQuit DEF Results
    <2>4. Protocol!GiveUp(t)
      BY <1>0, <2>1, <2>2, <2>3, NothingTaken DEF Protocol!GiveUp, FrameBroken
    <2> QED BY <2>2, <2>4 DEF Seems, Protocol!Next
  <1> QED BY <1>1, <1>3, <1>4, <1>5

LEMMA ReceiveSeen ==
    ASSUME Inv, Stepping, Counting, NEW t \in Threads,
           \/ Receive(t) \/ ReadHeader(t) \/ ReadBody(t) \/ ReadNonsense(t)
           \/ RecvTimesOut(t) \/ RecvEof(t)
    PROVE  Seems /\ Counting'
  <1>0. /\ thread \in [Threads -> ThreadStates] /\ adrift \in BOOLEAN
        /\ SeenCalls[t] = Look(thread[t].step, thread[t].call, thread[t].msg)
    BY SeenIs DEF Inv, Socket
  <1>1. /\ thread[t].step \in {"recv", "header", "body"}
        /\ UNCHANGED <<sock, sendLock, out>>
    BY DEF Receive, ReadHeader, ReadBody, ReadNonsense, ReadPart, RecvTimesOut, RecvEof, Reading,
           connection
  <1>2. SeenCalls[t].step = "recv" /\ LookStep(thread[t].step) = "recv"
    BY <1>0, <1>1 DEF Look, LookStep
  <1>3. ASSUME NEW s \in {"header", "body"}, Apart,
               thread' = [thread EXCEPT ![t].step = s, ![t].timed = timeout # "none"]
        PROVE  Seems /\ Counting'
    <2>1. Turns(t, s, thread[t].call, thread[t].msg)
      BY <1>0, <1>3, UpdateTimed DEF Steps
    <2>2. Look(s, thread[t].call, thread[t].msg) = Look(thread[t].step, thread[t].call, thread[t].msg)
      BY <1>1, <1>2 DEF Look, LookStep
    <2> QED BY <1>3, <2>1, <2>2, Unnoticed
  <1>4. ASSUME NEW m \in Msgs, Took(t, m) PROVE Protocol!Turn(t, "got", m)
    <2>1. Turns(t, "got", thread[t].call, m)
      BY <1>0, <1>4, UpdateTaken DEF Took, Steps
    <2>2. LookStep("got") = "got"
      BY DEF LookStep
    <2> QED BY <1>2, <2>1, <2>2, SeenTurn
  <1>5. ASSUME Apart, Leave(t, "raised") \/ Leave(t, "timeout") PROVE Seems /\ Counting'
    <2>1. Protocol!GiveUp(t)
      BY <1>2, <1>5, ApartIs, SeenQuit DEF Protocol!GiveUp, Results
    <2> QED BY <1>5, <2>1, ApartIs DEF Seems, Protocol!Next
  <1>6. CASE Receive(t)
    BY <1>1, <1>3, <1>6, NothingTaken DEF Receive, Apart
  <1>7. CASE ReadHeader(t)
    <2>1. /\ wire # <<>> /\ wire' = Tail(wire) /\ Head(wire) = "len" /\ adrift' = adrift
          /\ thread' = [thread EXCEPT ![t].step = "body", ![t].timed = timeout # "none"]
      BY <1>7 DEF ReadHeader, ReadPart, ReadsOn, InStep
    <2> QED BY <1>1, <1>3, <2>1, PartRead DEF Apart
  <1>8. CASE ReadBody(t)
    <2>1. /\ ~adrift /\ adrift' = adrift /\ Took(t, Head(wire))
          /\ wire # <<>> /\ wire' = Tail(wire) /\ Head(wire) # "len"
      BY <1>8 DEF ReadBody, ReadPart, InStep
    <2>2. Head(wire) \in Msgs
      <3>1. Head(wire) \in Parts
        BY <2>1 DEF Inv, Socket
      <3> QED BY <2>1, <3>1, BridgeAssumption DEF Parts, Msgs
    <2>3. Counting' /\ UNCHANGED <<Said, FrameBroken>>
      BY <1>1, NothingSaid
    <2>4. Protocol!Hear(t)
      BY <1>1, <1>2, <1>4, <2>1, <2>2, <2>3, PartRead DEF Protocol!Hear
    <2> QED BY <2>3, <2>4 DEF Seems, Protocol!Next
  <1>9. CASE ReadNonsense(t)
    <2>1. adrift /\ wire # <<>>
      BY <1>9, StepsAsItReads DEF ReadNonsense
    <2>2. Counting' /\ UNCHANGED <<Said, FrameBroken>>
      BY <1>1, NothingSaid
    <2>3. ASSUME Strays PROVE Protocol!Strays
      <3>1. adrift' \in BOOLEAN /\ (wire' = wire \/ wire' = Tail(wire))
        BY <2>3 DEF Strays
      <3> QED BY <2>1, <3>1, NothingTaken, PartRead DEF Protocol!Strays
    <2>4. ASSUME NEW s \in {"header", "body"}, ReadsOn(t, s), adrift' = TRUE,
                 wire' = wire \/ wire' = Tail(wire)
          PROVE  Seems /\ Counting'
      <3>1. /\ thread' = [thread EXCEPT ![t].step = s, ![t].timed = timeout # "none"]
            /\ adrift' = adrift
        BY <1>0, <2>1, <2>4 DEF ReadsOn
      <3>2. CASE NotTaken' = NotTaken
        BY <1>1, <1>3, <3>1, <3>2 DEF Apart
      <3>3. CASE NotTaken' # NotTaken
        <4>1. NotTaken # <<>> /\ NotTaken' = Tail(NotTaken)
          BY <2>1, <2>4, <3>3, NothingTaken, PartRead
        <4>2. SeenCalls' = SeenCalls
          <5>1. Turns(t, s, thread[t].call, thread[t].msg)
            BY <1>0, <3>1, UpdateTimed DEF Steps
          <5>2. Look(s, thread[t].call, thread[t].msg) = SeenCalls[t]
            BY <1>0, <1>1 DEF Look, LookStep
          <5> QED BY <5>1, <5>2, SeenSame
        <4>3. Protocol!Overread(t)
          BY <1>1, <1>2, <2>1, <2>2, <3>1, <4>1, <4>2 DEF Protocol!Overread
        <4> QED BY <2>2, <4>3 DEF Seems, Protocol!Next
      <3> QED BY <3>2, <3>3
    <2>5. ASSUME Leave(t, "raised"), Strays PROVE Seems /\ Counting'
      <3>1. Protocol!GiveUp(t)
        BY <1>1, <1>2, <2>2, <2>3, <2>5, SeenQuit DEF Protocol!GiveUp, Results
      <3> QED BY <2>2, <3>1 DEF Seems, Protocol!Next
    <2>6. ASSUME Took(t, "nonsense"), Strays PROVE Seems /\ Counting'
      <3>1. Protocol!Turn(t, "got", "nonsense")
        BY <1>4, <2>6 DEF Msgs
      <3>2. Protocol!HearNonsense(t)
        BY <1>1, <1>2, <2>2, <2>3, <2>6, <3>1 DEF Protocol!HearNonsense
      <3> QED BY <2>2, <3>2 DEF Seems, Protocol!Next
    <2>7. thread[t].step \in {"header", "body"}
      BY <1>9 DEF ReadNonsense, Reading
    <2> QED BY <1>9, <2>4, <2>5, <2>6, <2>7 DEF ReadNonsense
  <1>10. CASE RecvTimesOut(t)
    <2>1. /\ Leave(t, "timeout") /\ wire = <<>> /\ wire' = wire /\ adrift' \in BOOLEAN
          /\ NotTaken' = NotTaken
      BY <1>10, NothingTaken DEF RecvTimesOut
    <2>2. NotTaken = <<>>
      BY <2>1, NoPayloads DEF NotTaken
    <2>3. Counting' /\ UNCHANGED <<Said, FrameBroken>>
      BY <1>1, NothingSaid
    <2>4. Protocol!Quit(t)
      BY <2>1, SeenQuit DEF Results
    <2>5. CASE adrift
      <3>1. Protocol!Strays
        BY <2>1, <2>5 DEF Protocol!Strays
      <3> QED BY <1>1, <1>2, <2>3, <2>4, <3>1 DEF Protocol!GiveUp, Seems, Protocol!Next
    <2>6. CASE adrift' = TRUE
      BY <1>1, <1>2, <2>1, <2>2, <2>3, <2>4, <2>6 DEF Protocol!GiveUp, Seems, Protocol!Next
    <2>7. CASE adrift' = adrift
      BY <1>1, <1>5, <2>1, <2>7 DEF Apart
    <2> QED BY <1>0, <2>1, <2>5, <2>6, <2>7
  <1>11. CASE RecvEof(t)
    BY <1>1, <1>5, <1>11, NothingTaken DEF RecvEof, Apart
  <1> QED BY <1>6, <1>7, <1>8, <1>9, <1>10, <1>11

LEMMA ReactSeen ==
    ASSUME Inv, Counting, NEW t \in Threads, React(t) \/ Arm(t) \/ Finally(t)
    PROVE  Seems /\ Counting'
  <1>0. /\ thread \in [Threads -> ThreadStates]
        /\ SeenCalls[t] = Look(thread[t].step, thread[t].call, thread[t].msg)
        /\ Fit(thread[t].step, thread[t].call, thread[t].msg)
    BY SeenIs DEF Inv, Steady
  <1>1. Apart
    BY NothingTaken DEF React, Arm, Finally, Apart, connection
  <1>2. CASE React(t)
    <2>1. thread[t].step = "got" /\ LookStep(thread[t].step) = "got"
      BY <1>2 DEF React, LookStep
    <2>2. /\ SeenCalls[t].step = "got" /\ SeenCalls[t].call = thread[t].call
          /\ SeenCalls[t].msg = thread[t].msg
      BY <1>0, <2>1 DEF Look
    <2> DEFINE r == Reaction(thread[t].call, thread[t].msg)
    <2>3. Protocol!Reaction(SeenCalls[t].call, SeenCalls[t].msg) = r
      BY <2>2, SameCalls
    <2>4. LookStep("recv") = "recv" /\ LookStep("send") = "send"
      BY DEF LookStep
    <2>5. \/ r \in {"return", "raise"} /\ Protocol!Quit(t)
          \/ r = "again" /\ Protocol!Turn(t, "recv", "none")
          \/ r = "pong" /\ Protocol!Turn(t, "send", "Pong")
      <3>1. CASE r = "return" /\ Leave(t, "returned")
        BY <3>1, SeenQuit DEF Results
      <3>2. CASE r = "raise" /\ Leave(t, "raised")
        BY <3>2, SeenQuit DEF Results
      <3>3. CASE r = "again" /\ thread' = [thread EXCEPT ![t].step = "recv", ![t].msg = "none"]
        <4>1. Turns(t, "recv", thread[t].call, "none")
          BY <1>0, <3>3, UpdateMsg DEF Steps, Msgs
        <4> QED BY <2>1, <2>4, <3>3, <4>1, SeenTurn
      <3>4. CASE r = "pong" /\ thread' = [thread EXCEPT ![t].step = "send", ![t].msg = "Pong"]
        <4>1. Turns(t, "send", thread[t].call, "Pong")
          BY <1>0, <3>4, UpdateMsg DEF Steps, Msgs
        <4> QED BY <2>1, <2>4, <3>4, <4>1, SeenTurn
      <3> QED BY <1>2, <3>1, <3>2, <3>3, <3>4 DEF React
    <2> HIDE DEF r
    <2>6. Protocol!React(t)
      BY <1>1, <2>2, <2>3, <2>5, ApartIs DEF Protocol!React
    <2> QED BY <1>1, <2>6, ApartIs DEF Seems, Protocol!Next
  <1>3. CASE Arm(t)
    <2>1. Turns(t, "recv", thread[t].call, "none")
      BY <1>0, <1>3, UpdateMsg DEF Arm, Steps, Msgs
    <2>2. Look("recv", thread[t].call, "none") = Look(thread[t].step, thread[t].call, thread[t].msg)
      BY <1>3 DEF Arm, Look, LookStep
    <2> QED BY <1>1, <2>1, <2>2, Unnoticed
  <1>4. CASE Finally(t)
    <2>1. Turns(t, "idle", "none", "none")
      BY <1>0, <1>4, UpdateIdle DEF Finally
    <2>2. Look("idle", "none", "none") = SeenCalls[t]
      BY <1>0, <1>4 DEF Finally, Look, LookStep
    <2>3. SeenCalls' = SeenCalls
      BY <2>1, <2>2, SeenSame
    <2> QED BY <1>1, <2>3, ApartIs DEF Seems, Protocol!vars
  <1> QED BY <1>2, <1>3, <1>4

LEMMA ShellSeen ==
    ASSUME Inv, Stepping, Counting, ShellStarts \/ ShellFinishes \/ ShellCloses
    PROVE  Seems /\ Counting'
  <1>1. /\ UNCHANGED <<thread, out, sendLock, adrift>> /\ sock = "up"
        /\ wire \in Seq(Parts) /\ Alternates(wire)
        /\ wire # <<>> => (wire[Len(wire)] = "len" <=> unsent # <<>>)
    BY DEF ShellStarts, ShellFinishes, ShellCloses, Inv, Socket, Stepping
  <1>2. Counting' /\ UNCHANGED <<SeenCalls, Said, FrameBroken, adrift>>
    BY <1>1, NothingSaid DEF SeenCalls, Seen, SeenStep
  <1>3. CASE ShellStarts
    <2>1. unsent = <<>> /\ wire' = Append(wire, "len") /\ sock' = sock /\ "len" \in Parts
      BY <1>3 DEF ShellStarts, Parts
    <2>2. NotTaken' = NotTaken
      BY <1>1, <2>1, AddPart DEF NotTaken
    <2> QED BY <1>2, <2>1, <2>2 DEF Seems, Protocol!vars
  <1>4. CASE ShellFinishes
    <2>1. PICK m \in ShellMessages : unsent = <<m>>
      BY <1>4 DEF ShellFinishes, Stepping
    <2>2. m \in Parts /\ m # "len" /\ unsent # <<>>
      BY <2>1, BridgeAssumption DEF Parts
    <2>3. wire' = Append(wire, m) /\ sock' = sock
      <3>1. wire \o <<m>> = Append(wire, m)
        BY <1>1, <2>2
      <3> QED BY <1>4, <2>1, <3>1 DEF ShellFinishes
    <2>4. NotTaken' = Append(NotTaken, m)
      BY <1>1, <2>2, <2>3, AddPart DEF NotTaken
    <2>5. Protocol!ShellSays
      BY <1>1, <1>2, <2>3, <2>4 DEF Protocol!ShellSays
    <2> QED BY <1>2, <2>5 DEF Seems, Protocol!Next
  <1>5. CASE ShellCloses
    <2>1. sock' = "closed" /\ NotTaken' \in {NotTaken, <<>>}
      BY <1>5, NothingTaken, NoPayloads DEF ShellCloses, NotTaken
    <2>2. Protocol!ShellCloses
      BY <1>1, <1>2, <2>1 DEF Protocol!ShellCloses
    <2> QED BY <1>2, <2>2 DEF Seems, Protocol!Next
  <1> QED BY <1>3, <1>4, <1>5

(* On a new connection nothing has been said, and nothing is left. *)
LEMMA Fresh ==
    /\ <<>> \in Seq(Parted) /\ Len(<<>>) = 0 /\ JustFrames(<<>>, 0)
    /\ WholeFrames(<<>>) = 0 /\ Payloads(<<>>, 0) = <<>>
  <1>1. <<>> \in Seq(Parted) /\ Len(<<>>) = 0
    OBVIOUS
  <1>2. JustFrames(<<>>, 0)
    BY <1>1 DEF JustFrames, AreFrames
  <1>3. WholeFrames(<<>>) = 0
    BY <1>1, <1>2, Counted
  <1>4. Payloads(<<>>, 0) = <<>>
    BY DEF Payloads
  <1> QED BY <1>1, <1>2, <1>3, <1>4

LEMMA InitSeen == Init => Protocol!Init /\ Counting
  <1> SUFFICES ASSUME Init PROVE Protocol!Init /\ Counting
    OBVIOUS
  <1>1. SeenCalls = [t \in Threads |-> Protocol!Out]
    BY DEF Init, Idle, SeenCalls, Seen, SeenStep, Protocol!Out
  <1>2. Counting /\ Said = <<>> /\ ~FrameBroken
    BY Fresh DEF Init, Counting, Said, FrameBroken
  <1>3. NotTaken = <<>>
    BY NoPayloads DEF Init, NotTaken
  <1> QED BY <1>1, <1>2, <1>3 DEF Init, Protocol!Init, FrameBroken

LEMMA ConnectionSeen ==
    ASSUME Inv, Counting, Connect \/ Disconnect
    PROVE  Seems /\ Counting'
  <1>1. /\ AllIdle /\ UNCHANGED <<thread, sendLock>>
        /\ wire' = <<>> /\ adrift' = FALSE
    BY DEF Connect, Disconnect
  <1>2. Protocol!AllOut /\ SeenCalls' = SeenCalls
    BY <1>1 DEF AllIdle, Protocol!AllOut, SeenCalls, Seen, SeenStep, Protocol!Out, Inv, Steady, Fit
  <1>3. NotTaken' = <<>>
    BY <1>1, NoPayloads DEF NotTaken
  <1>4. CASE Connect
    <2>1. out' = <<>> /\ sock' \in {"up", "closed"}
      BY <1>4 DEF Connect
    <2>2. Counting' /\ Said' = <<>> /\ ~FrameBroken'
      BY <2>1, Fresh DEF Counting, Said, FrameBroken
    <2>3. Protocol!Connect
      BY <1>1, <1>2, <1>3, <2>1, <2>2 DEF Protocol!Connect, FrameBroken
    <2> QED BY <2>2, <2>3 DEF Seems, Protocol!Next
  <1>5. CASE Disconnect
    <2>1. sock \in {"up", "closed"} /\ sock' = "none"
      BY <1>5 DEF Disconnect, Inv, Socket
    <2>2. sendLock = "nobody"
      BY <1>1 DEF Inv, Locks, AllIdle
    <2>3. PICK t \in Threads : FarewellBy(t)
      BY <1>5 DEF Disconnect, FarewellBy
    <2>4. /\ Counting'
          /\ \/ Said' = Said /\ (FrameBroken' <=> FrameBroken)
             \/ Said' = Said /\ FrameBroken'
             \/ ~FrameBroken /\ ~FrameBroken' /\ Said' = Append(Said, "Shutdown")
      BY <1>1, <2>2, <2>3, FarewellSaid
    <2>5. Protocol!Farewell
      BY <1>2, <2>1, <2>4 DEF Protocol!Farewell, Protocol!Connected, FrameBroken
    <2>6. Protocol!Hangup
      BY <1>1, <1>3, <2>1 DEF Protocol!Hangup
    <2> QED BY <2>4, <2>5, <2>6 DEF Seems, Protocol!Next, Protocol!Disconnect
  <1> QED BY <1>4, <1>5

LEMMA NextSeen == Inv /\ Stepping /\ Counting /\ [Next]_vars => [Protocol!Next]_Protocol!vars /\ Counting'
  <1> SUFFICES ASSUME Inv, Stepping, Counting, [Next]_vars PROVE Seems /\ Counting'
    BY DEF Seems
  <1>1. CASE UNCHANGED vars
    BY <1>1, NothingSaid, NothingTaken DEF vars, Seems, Protocol!vars, SeenCalls, Seen, SeenStep
  <1> QED
    BY <1>1, CallSeen, SendSeen, ReceiveSeen, ReactSeen, ShellSeen, ConnectionSeen
    DEF Next, Progress

(* Whatever the number of threads, the calls they make at the same time    *)
(* and the messages of the shell, a message crosses as if in one step: the *)
(* two locks and the parts of a frame are never seen, but for what a send  *)
(* or a wait leaves behind that gives up inside one: a deaf shell, or      *)
(* nonsense and lost messages until a thread is at the beginning of a      *)
(* frame again.                                                            *)
THEOREM AsIfAtomic == Spec => MessagesAreAtomic
  <1>1. Init => Inv /\ Stepping /\ Counting /\ Protocol!Init
    BY InitInv, InitStepping, InitSeen
  <1>2. Inv /\ Stepping /\ Counting /\ [Next]_vars
          => Inv' /\ Stepping' /\ Counting' /\ [Protocol!Next]_Protocol!vars
    BY NextInv, NextStepping, NextSeen
  <1> QED BY <1>1, <1>2, PTL DEF Spec, Protocol!Spec, MessagesAreAtomic
=============================================================================
