---------------------------- MODULE BargeInProofs ---------------------------
(***************************************************************************)
(* The safety of interruptible playback for any number of calls, length of *)
(* reply and threshold of the monitor.                                     *)
(***************************************************************************)
EXTENDS BargeInProperties, TLAPS

(* The constants, as the steps use them. *)
LEMMA ConstantTypes ==
    /\ MaxCalls \in Nat /\ MaxCalls > 0
    /\ Buffers \in Nat /\ Buffers > 0
    /\ Consecutive \in Nat /\ Consecutive > 0
BY BargeInAssumption

(* A monitor that has not ended is below the threshold. *)
CountsBelow == \A c \in Calls : monitor[c] # "ended" => high[c] < Consecutive

CountersOK ==
    /\ CountsBelow
    /\ \A c \in Calls : c > call => monitor[c] = "notStarted"
    /\ call \in 0 .. MaxCalls /\ (main # "between" => call \in Calls)
    /\ setter \in 0 .. MaxCalls
    /\ monitor \in [Calls -> MonitorStates]
    /\ high \in [Calls -> 0 .. Consecutive]
    /\ abandoned \subseteq Calls

PlacesOK ==
    /\ main \in Playing \cup {"between", "open", "raise", "join", "transcribe"}
    /\ position \in 0 .. Buffers
    /\ result \in {"none", "Completed", "Interrupted", "Error"}

(* TypeOK with the bound on the counts, in the parts the steps disturb.    *)
TypeInv == FlagsOK /\ CountersOK /\ PlacesOK

(* The first state has its types. *)
LEMMA InitTypes == Init => TypeInv
<1> SUFFICES ASSUME Init PROVE TypeInv
  OBVIOUS
<1>1. FlagsOK
  BY DEF Init, FlagsOK
<1>2. CountersOK
  BY ConstantTypes DEF Init, CountersOK, CountsBelow, Calls, Nobody, MonitorStates
<1>3. PlacesOK
  BY ConstantTypes DEF Init, PlacesOK
<1> QED
  BY <1>1, <1>2, <1>3 DEF TypeInv

(* The flags stay Boolean. *)
LEMMA FlagsKept == FlagsOK /\ Next => FlagsOK'
BY DEF FlagsOK, Next, Call, MainStep, OpenStream, OpenFails, CheckFinished, CheckStop, LastLoad,
       LoadedStop, RaiseFlag, Join, Transcribe, Stop, CallEmpty, Callback, PlayBuffer, MonitorStep,
       HeadStartOver, Poll, HearLoud, HearQuiet, flag, stream, outcome

(* Calls, monitors and their counts stay in range. *)
LEMMA CountersKept == CountersOK /\ Next => CountersOK'
<1> SUFFICES ASSUME CountersOK, Next PROVE CountersOK'
  OBVIOUS
<1> USE ConstantTypes DEF CountersOK, CountsBelow, Calls, MonitorStates
<1>1. CASE Call
  <2>1. /\ call + 1 \in Calls /\ call' = call + 1 /\ main' = "open" /\ setter' = 0 /\ high' = high
        /\ monitor' = [monitor EXCEPT ![call + 1] = "headStart"]
        /\ abandoned' = abandoned
    BY <1>1 DEF Call, Nobody
  <2>2. high[call + 1] < Consecutive
    BY <2>1
  <2>3. \A c \in Calls : monitor'[c] # "ended" => high[c] < Consecutive
    BY <2>1, <2>2
  <2> QED
    BY <2>1, <2>3
<1>2. CASE Stop \/ RaiseFlag
  <2>1. /\ setter' = 0 /\ UNCHANGED <<call, monitor, high, abandoned>>
        /\ main' # "between" => main # "between"
    BY <1>2 DEF Stop, RaiseFlag, Nobody, threads
  <2> QED
    BY <2>1
<1>3. CASE CallEmpty \/ Join \/ Transcribe \/ Callback
  BY <1>3 DEF CallEmpty, Join, Transcribe, Callback, Playing, threads, flag
<1>9. CASE OpenFails
  <2>1. /\ call \in Calls /\ abandoned' = abandoned \cup {call} /\ main' = "between"
        /\ UNCHANGED <<call, setter, monitor, high>>
    BY <1>9 DEF OpenFails, threads, flag
  <2> QED
    BY <2>1
<1>4. CASE OpenStream \/ CheckFinished \/ CheckStop \/ LastLoad
  BY <1>4 DEF OpenStream, CheckFinished, CheckStop, LastLoad, threads, flag
<1>5. ASSUME NEW c \in Calls, HeadStartOver(c) PROVE CountersOK'
  BY <1>5 DEF HeadStartOver, flag
<1>6. ASSUME NEW c \in Calls, Poll(c) PROVE CountersOK'
  BY <1>6 DEF Poll, flag
<1>7. ASSUME NEW c \in Calls, HearLoud(c) PROVE CountersOK'
  <2>1. /\ high' = [high EXCEPT ![c] = @ + 1] /\ UNCHANGED <<main, call, abandoned>>
        /\ setter' \in {setter, c} /\ monitor[c] = "listen"
        /\ \/ monitor' = [monitor EXCEPT ![c] = "ended"]
           \/ monitor' = [monitor EXCEPT ![c] = "poll"] /\ high[c] + 1 < Consecutive
    BY <1>7 DEF HearLoud, flag
  <2>2. high[c] + 1 \in 0 .. Consecutive
    BY <2>1
  <2>3. high' \in [Calls -> 0 .. Consecutive] /\ monitor' \in [Calls -> MonitorStates]
    BY <2>1, <2>2
  <2>4. \A d \in Calls : monitor'[d] # "ended" => high'[d] < Consecutive
    BY <2>1, <2>2
  <2>5. \A d \in Calls : d > call => monitor'[d] = "notStarted"
    BY <2>1
  <2> QED
    BY <2>1, <2>3, <2>4, <2>5
<1>8. ASSUME NEW c \in Calls, HearQuiet(c) PROVE CountersOK'
  <2>1. \A d \in Calls : high'[d] = high[d] \/ high'[d] = 0
    BY <1>8 DEF HearQuiet
  <2>2. high' \in [Calls -> 0 .. Consecutive]
    BY <1>8 DEF HearQuiet
  <2>3. /\ monitor' \in [Calls -> MonitorStates]
        /\ \A d \in Calls : monitor'[d] # "ended" => monitor[d] # "ended"
    BY <1>8 DEF HearQuiet
  <2> QED
    BY <1>8, <2>1, <2>2, <2>3 DEF HearQuiet, flag
<1> QED
  BY <1>1, <1>2, <1>3, <1>4, <1>5, <1>6, <1>7, <1>8, <1>9 DEF Next, MainStep, MonitorStep

(* So do the places of main and the position of the reply. *)
LEMMA PlacesKept == PlacesOK /\ Next => PlacesOK'
<1> SUFFICES ASSUME PlacesOK, Next PROVE PlacesOK'
  OBVIOUS
<1> USE ConstantTypes DEF PlacesOK, Playing, stream, outcome
<1>1. CASE Callback
  <2>1. position' = position \/ (position < Buffers /\ position' = position + 1)
    BY <1>1 DEF Callback, PlayBuffer
  <2> QED
    BY <1>1, <2>1 DEF Callback
<1>2. CASE Call \/ Stop \/ CallEmpty \/ OpenFails \/ Join \/ Transcribe \/ RaiseFlag
  BY <1>2 DEF Call, Stop, CallEmpty, OpenFails, Join, Transcribe, RaiseFlag
<1>3. CASE OpenStream \/ CheckFinished \/ CheckStop \/ LastLoad
  BY <1>3 DEF OpenStream, CheckFinished, CheckStop, LastLoad
<1>4. ASSUME NEW c \in Calls, MonitorStep(c) PROVE PlacesOK'
  BY <1>4 DEF MonitorStep, HeadStartOver, Poll, HearLoud, HearQuiet
<1> QED
  BY <1>1, <1>2, <1>3, <1>4 DEF Next, MainStep

(* Every step keeps the types. *)
LEMMA NextTypes == TypeInv /\ [Next]_vars => TypeInv'
<1>1. TypeInv /\ UNCHANGED vars => TypeInv'
  BY DEF vars, TypeInv, FlagsOK, CountersOK, CountsBelow, PlacesOK
<1> QED
  BY <1>1, FlagsKept, CountersKept, PlacesKept DEF TypeInv

(* The type invariant, for every value of the constants. *)
THEOREM TypeCorrect == Spec => []TypeOK
<1>1. TypeInv => TypeOK
  BY DEF TypeInv, TypeOK, CountersOK, PlacesOK
<1> QED
  BY InitTypes, NextTypes, <1>1, PTL DEF Spec

-----------------------------------------------------------------------------
(* A call is over only when its monitor has ended or it was abandoned; and *)
(* from the moment the flag is lowered until the stream has ended, whoever *)
(* raises it again is a monitor that may still be alive.                   *)
Opening == Playing \cup {"open"}

AloneInv ==
    /\ \A c \in Calls : c < call => monitor[c] = "ended" \/ c \in abandoned
    /\ main \in {"between", "transcribe"} =>
          \A c \in Calls : c = call => monitor[c] = "ended" \/ c \in abandoned
    /\ main \in Opening /\ stop =>
          /\ setter \in abandoned \cup {call} /\ setter \in Calls
          /\ monitor[setter] = "ended" /\ high[setter] = Consecutive

(* Nothing was ever called. *)
LEMMA InitAlone == Init => AloneInv
BY DEF Init, AloneInv, Calls, Opening, Playing

(* A monitor that takes a step belongs to the call under way or to an      *)
(* abandoned one.                                                          *)
LEMMA MonitorAlone ==
    ASSUME TypeInv, AloneInv, NEW c \in Calls, MonitorStep(c)
    PROVE  AloneInv'
<1>a. /\ call \in 0 .. MaxCalls /\ (main # "between" => call \in Calls)
      /\ monitor \in [Calls -> MonitorStates] /\ high \in [Calls -> 0 .. Consecutive]
      /\ CountsBelow
      /\ \A d \in Calls : d > call => monitor[d] = "notStarted"
  BY DEF TypeInv, CountersOK
<1>0. monitor[c] \notin {"notStarted", "ended"}
  BY DEF MonitorStep, HeadStartOver, Poll, HearLoud, HearQuiet
<1>b. c \in abandoned \cup {call}
  BY <1>0, <1>a, ConstantTypes DEF AloneInv, Calls
<1>c. UNCHANGED <<main, call, abandoned>>
  BY DEF MonitorStep, HeadStartOver, Poll, HearLoud, HearQuiet
<1>d. /\ \A d \in Calls : d # c => monitor'[d] = monitor[d] /\ high'[d] = high[d]
      /\ monitor' \in [Calls -> MonitorStates]
  BY <1>a DEF MonitorStep, HeadStartOver, Poll, HearLoud, HearQuiet, MonitorStates
<1>e. /\ \A d \in Calls : d < call => monitor'[d] = "ended" \/ d \in abandoned
      /\ main \in {"between", "transcribe"} =>
            \A d \in Calls : d = call => monitor'[d] = "ended" \/ d \in abandoned
  <2>1. \A d \in Calls : monitor[d] = "ended" => monitor'[d] = "ended"
    BY <1>0, <1>d
  <2> QED
    BY <2>1 DEF AloneInv
<1>1. ASSUME UNCHANGED flag PROVE AloneInv'
  <2>1. ASSUME main \in Opening, stop
        PROVE  monitor'[setter] = "ended" /\ high'[setter] = Consecutive
    <3>1. setter \in Calls /\ setter # c
      BY <1>0, <2>1 DEF AloneInv
    <3> QED
      BY <1>d, <2>1, <3>1 DEF AloneInv
  <2> QED
    BY <1>1, <1>c, <1>e, <2>1 DEF AloneInv, flag
<1>2. CASE HeadStartOver(c) \/ Poll(c) \/ HearQuiet(c)
  BY <1>1, <1>2 DEF HeadStartOver, Poll, HearQuiet
<1>3. CASE HearLoud(c)
  <2>1. high[c] < Consecutive /\ high[c] \in 0 .. Consecutive
    BY <1>3, <1>a DEF HearLoud, CountsBelow
  <2>2. CASE high[c] + 1 >= Consecutive
    <3>1. high'[c] = Consecutive
      BY <1>3, <1>a, <2>1, <2>2, ConstantTypes DEF HearLoud
    <3>2. setter' = c /\ monitor'[c] = "ended"
      BY <1>3, <1>a, <2>2 DEF HearLoud
    <3> QED
      BY <1>b, <1>c, <1>e, <3>1, <3>2 DEF AloneInv
  <2>3. CASE ~(high[c] + 1 >= Consecutive)
    BY <1>1, <1>3, <2>3 DEF HearLoud
  <2> QED
    BY <2>2, <2>3
<1> QED
  BY <1>2, <1>3 DEF MonitorStep

(* Main joins, abandons, or leaves the monitor as it is. *)
LEMMA MainAlone ==
    ASSUME TypeInv, AloneInv,
           Call \/ MainStep \/ Stop \/ CallEmpty \/ Callback \/ UNCHANGED vars
    PROVE  AloneInv'
<1>a. /\ call \in 0 .. MaxCalls /\ (main # "between" => call \in Calls)
      /\ monitor \in [Calls -> MonitorStates]
  BY DEF TypeInv, CountersOK
<1>1. CASE Call
  <2>1. /\ main = "between" /\ call + 1 \in Calls /\ call' = call + 1 /\ main' = "open" /\ stop' = FALSE
        /\ monitor' = [monitor EXCEPT ![call + 1] = "headStart"]
        /\ abandoned' = abandoned
    BY <1>1, <1>a, ConstantTypes DEF Call, Calls
  <2>2. \A c \in Calls : c < call + 1 => monitor'[c] = "ended" \/ c \in abandoned
    BY <2>1, <1>a, ConstantTypes DEF AloneInv, Calls
  <2> QED
    BY <2>1, <2>2 DEF AloneInv
<1>2. CASE OpenStream \/ CheckFinished \/ CheckStop \/ LastLoad \/ Callback
  BY <1>2 DEF OpenStream, CheckFinished, CheckStop, LastLoad, Callback, AloneInv, Opening,
              Playing, flag, threads
<1>3. CASE OpenFails
  BY <1>3 DEF OpenFails, AloneInv, Opening, Playing, threads, flag
<1>4. CASE RaiseFlag
  BY <1>4 DEF RaiseFlag, AloneInv, Opening, Playing, threads
<1>5. CASE Join \/ Transcribe
  BY <1>5 DEF Join, Transcribe, AloneInv, Opening, Playing, threads, flag
<1>6. CASE Stop \/ CallEmpty
  BY <1>6 DEF Stop, CallEmpty, AloneInv, Opening, Playing, threads
<1>7. CASE UNCHANGED vars
  BY <1>7 DEF vars, AloneInv
<1> QED
  BY <1>1, <1>2, <1>3, <1>4, <1>5, <1>6, <1>7 DEF MainStep

(* Every step keeps the account of the monitors. *)
LEMMA NextAlone == TypeInv /\ AloneInv /\ [Next]_vars => AloneInv'
BY MonitorAlone, MainAlone DEF Next

(* A playback is cut only by its own monitor or an abandoned one: however  *)
(* stale the loads, for any number of calls and any threshold.             *)
THEOREM Cuts == Spec => []OnlyMonitorsCut
<1>1. AloneInv => OnlyMonitorsCut
  BY DEF AloneInv, OnlyMonitorsCut, Opening
<1> QED
  BY InitTypes, NextTypes, InitAlone, NextAlone, <1>1, PTL DEF Spec

(* No monitor outlives its call unless the call failed to open a stream.   *)
THEOREM Accounted == Spec => []MonitorsAccountedFor
<1>1. TypeInv /\ AloneInv => MonitorsAccountedFor
  BY ConstantTypes DEF TypeInv, CountersOK, AloneInv, MonitorsAccountedFor, Calls
<1> QED
  BY InitTypes, NextTypes, InitAlone, NextAlone, <1>1, PTL DEF Spec
=============================================================================
