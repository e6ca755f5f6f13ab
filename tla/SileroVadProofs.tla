-------------------------- MODULE SileroVadProofs ---------------------------
(***************************************************************************)
(* Proofs about SileroVad: for all its limits and any stream, the segment  *)
(* it hands over is every frame since speech started, once and in order,   *)
(* and one utterance.                                                      *)
(***************************************************************************)
EXTENDS SileroVadProperties, FiniteSetTheorems, TLAPS

Heard == [at : Nat, speech : BOOLEAN]

(* The shape of the state the argument needs. *)
StreamOK ==
    /\ vad \in {"WaitingForSpeech", "InSpeech"}
    /\ position \in Nat
    /\ start \in Nat
    /\ acc \in Seq(Heard)
    /\ segment \in [audio : Seq(Heard), start : Nat]

(* The caller's buffer holds the utterance as long as the detector is in   *)
(* one; what it holds between utterances does not matter.                  *)
AccWhole == vad = "InSpeech" => RunsFrom(start, acc)

WholeInv == StreamOK /\ AccWhole /\ SegmentWhole

-----------------------------------------------------------------------------
(* A frame taken from the stream is a frame. *)
LEMMA FrameType ==
    ASSUME NEW n \in Nat, NEW v \in BOOLEAN
    PROVE  Frame(n, v) \in Heard /\ Frame(n, v).at = n /\ (v => Frame(n, v).speech)
  BY DEF Frame, Heard

(* Audio a, from frame n on, when p frames have been fed. *)
Run(n, p, a) ==
    /\ a \in Seq(Heard)
    /\ n + Len(a) = p + 1
    /\ Len(a) > 0
    /\ \A i \in 1 .. Len(a) : a[i].at = n + i - 1
    /\ a[1].speech

(* The audio of an utterance grows by the frame that follows it. *)
LEMMA Grows ==
    ASSUME NEW n \in Nat, NEW p \in Nat, NEW a, NEW v \in BOOLEAN, Run(n, p, a)
    PROVE  Run(n, p + 1, Append(a, Frame(p + 1, v)))
  <1> DEFINE f == Frame(p + 1, v)
  <1> DEFINE b == Append(a, f)
  <1>0. f \in Heard /\ f.at = p + 1
    BY FrameType
  <1> HIDE DEF f
  <1>1. b \in Seq(Heard) /\ Len(b) = Len(a) + 1
    BY <1>0 DEF Run
  <1>2. b[Len(a) + 1] = f /\ \A i \in 1 .. Len(a) : b[i] = a[i]
    BY <1>0 DEF Run
  <1>3. Len(a) \in Nat /\ n + Len(a) = p + 1 /\ Len(a) > 0
    BY DEF Run
  <1> HIDE DEF b
  <1>4. ASSUME NEW i \in 1 .. Len(b) PROVE b[i].at = n + i - 1
    <2>1. CASE i = Len(a) + 1
      BY <1>0, <1>2, <1>3, <2>1
    <2>2. CASE i \in 1 .. Len(a)
      BY <1>2, <2>2 DEF Run
    <2> QED BY <1>1, <1>3, <2>1, <2>2
  <1>5. b[1].speech
    BY <1>2, <1>3 DEF Run
  <1>6. n + Len(b) = p + 2 /\ Len(b) > 0
    BY <1>1, <1>3
  <1>7. Run(n, p + 1, b)
    BY <1>1, <1>4, <1>5, <1>6 DEF Run
  <1> QED BY <1>7 DEF b, f

(* Before the first frame there is no utterance. *)
LEMMA WholeInit == Init => WholeInv
  BY DEF Init, WholeInv, StreamOK, AccWhole, SegmentWhole, NoSegment

(* Every step keeps the three parts. *)
LEMMA WholeNext == WholeInv /\ [Next]_vars => WholeInv'
  <1> SUFFICES ASSUME WholeInv, [Next]_vars PROVE WholeInv'
    OBVIOUS
  <1> USE DEF WholeInv, StreamOK
  <1>0. position + 1 \in Nat
    OBVIOUS
  <1>1. CASE StillSilent
    BY <1>1 DEF StillSilent, Infer, AccWhole, SegmentWhole
  <1>2. CASE SpeechStarts
    <2> DEFINE f == Frame(position + 1, TRUE)
    <2>1. f \in Heard /\ f.at = position + 1 /\ f.speech
      BY <1>0, FrameType
    <2>2. acc' = <<f>> /\ vad' = "InSpeech" /\ start' = position + 1
          /\ position' = position + 1 /\ segment' = segment /\ decision' = "SpeechStart"
      BY <1>2 DEF SpeechStarts, Infer, StartFresh
    <2> HIDE DEF f
    <2>3. RunsFrom(start, acc)'
      BY <2>1, <2>2 DEF RunsFrom
    <2> QED BY <2>1, <2>2, <2>3 DEF AccWhole, SegmentWhole
  <1>3. ASSUME NEW v \in BOOLEAN, vad = "InSpeech",
               acc' = Append(acc, Frame(position + 1, v)),
               vad' = vad, start' = start, segment' = segment,
               position' = position + 1, decision' = "SpeechContinue"
        PROVE  WholeInv'
    <2>1. Run(start, position, acc)
      BY <1>3 DEF AccWhole, RunsFrom, Run
    <2>2. Run(start, position + 1, acc')
      BY <1>3, <2>1, Grows
    <2>3. acc' \in Seq(Heard) /\ RunsFrom(start, acc)'
      BY <1>3, <2>2 DEF RunsFrom, Run
    <2> QED BY <1>3, <2>3 DEF AccWhole, SegmentWhole
  <1>4. CASE SpeechGoesOn
    BY <1>3, <1>4 DEF SpeechGoesOn, Infer
  <1>5. CASE PauseGoesOn
    BY <1>3, <1>5 DEF PauseGoesOn, Infer
  <1>6. CASE SpeechEnds
    <2> DEFINE whole == Append(acc, Frame(position + 1, FALSE))
    <2>2. vad = "InSpeech" /\ position' = position + 1 /\ vad' = "WaitingForSpeech"
          /\ start' = 0 /\ acc' = <<>>
          /\ segment' = [audio |-> whole, start |-> start]
      BY <1>6 DEF SpeechEnds, Infer, Waiting
    <2>3. Run(start, position, acc)
      BY <2>2 DEF AccWhole, RunsFrom, Run
    <2>4. Run(start, position + 1, whole)
      BY <2>3, Grows
    <2> HIDE DEF whole
    <2>5. whole \in Seq(Heard) /\ RunsFrom(segment.start, segment.audio)'
      BY <2>2, <2>4 DEF RunsFrom, Run
    <2> QED BY <2>2, <2>5 DEF AccWhole, SegmentWhole
  <1>7. CASE Discard
    BY <1>7 DEF Discard, Infer, Waiting, AccWhole, SegmentWhole
  <1>8. CASE Reset
    BY <1>8 DEF Reset, Waiting, AccWhole, SegmentWhole
  <1>9. CASE UNCHANGED vars
    BY <1>9 DEF vars, AccWhole, SegmentWhole, RunsFrom
  <1> QED BY <1>1, <1>2, <1>4, <1>5, <1>6, <1>7, <1>8, <1>9
          DEF Next, ProcessFrame

(* process_frame: "when SpeechEnd is returned, the full speech segment is  *)
(* included", of the frames it was given.                                  *)
THEOREM Whole == Spec => []SegmentWhole
  <1>1. WholeInv => SegmentWhole
    BY DEF WholeInv
  <1> QED BY WholeInit, WholeNext, <1>1, PTL DEF Spec

(* The five moves the shell counts on are the only ones. *)
THEOREM Moves == Spec => MovesAsPromised
  <1> DEFINE Move == VadMove(vad, decision', vad')
  <1>1. ASSUME Next PROVE position' # position => Move \in VadMoves
    <2>1. CASE StillSilent
      BY <2>1 DEF StillSilent, Infer, VadMoves
    <2>2. CASE SpeechStarts
      BY <2>2 DEF SpeechStarts, Infer, VadMoves
    <2>3. CASE SpeechGoesOn \/ PauseGoesOn
      BY <2>3 DEF SpeechGoesOn, PauseGoesOn, Infer, VadMoves
    <2>4. CASE SpeechEnds
      BY <2>4 DEF SpeechEnds, Infer, Waiting, VadMoves
    <2>5. CASE Discard
      BY <2>5 DEF Discard, Infer, Waiting, VadMoves
    <2>6. CASE Reset
      BY <2>6 DEF Reset
    <2> QED BY <1>1, <2>1, <2>2, <2>3, <2>4, <2>5, <2>6 DEF Next, ProcessFrame
  <1>2. [Next]_vars => [position' # position => VadMove(vad, decision', vad') \in VadMoves]_vars
    BY <1>1
  <1> QED BY <1>2, PTL DEF Spec, MovesAsPromised

-----------------------------------------------------------------------------
(* The first n frames of a end in k silent ones, and no more. *)
Trails(a, n, k) ==
    /\ k \in 0 .. n
    /\ \A i \in n - k + 1 .. n : ~a[i].speech
    /\ k < n => a[n - k].speech

(* Only one number is that of the trailing silence. *)
LEMMA SilenceIs ==
    ASSUME NEW a, NEW n \in Nat, NEW k, Trails(a, n, k)
    PROVE  SilenceAt(a, n) = k
  <1> DEFINE P(j) == /\ \A i \in n - j + 1 .. n : ~a[i].speech
                     /\ j < n => a[n - j].speech
  <1>1. k \in 0 .. n /\ P(k)
    BY DEF Trails
  <1>2. ASSUME NEW j \in 0 .. n, NEW l \in 0 .. n, P(j), P(l) PROVE ~(j < l)
    <2> SUFFICES ASSUME j < l PROVE FALSE
      OBVIOUS
    <2>1. n - j \in n - l + 1 .. n /\ j < n
      BY <1>2
    <2> QED BY <1>2, <2>1
  <1>3. \A j \in 0 .. n : P(j) => j = k
    <2> SUFFICES ASSUME NEW j \in 0 .. n, P(j) PROVE j = k
      OBVIOUS
    <2>1. ~(j < k) /\ ~(k < j)
      BY <1>1, <1>2
    <2> QED BY <1>1, <2>1
  <1>4. SilenceAt(a, n) = CHOOSE j \in 0 .. n : P(j)
    BY DEF SilenceAt
  <1> HIDE DEF P
  <1>5. \E j \in 0 .. n : P(j)
    BY <1>1
  <1> QED BY <1>3, <1>4, <1>5

(* The audio a of an utterance under way, with the counters of the         *)
(* detector: they count its frames of speech and the silence it trails,    *)
(* and no part of it was an end.                                           *)
Counted(a, heard, quiet) ==
    /\ a \in Seq(Heard) /\ Len(a) > 0
    /\ SpeechIn(a, Len(a)) = heard /\ heard \in Nat
    /\ Trails(a, Len(a), quiet)
    /\ \A n \in 1 .. Len(a) : (\E k \in 0 .. n : Trails(a, n, k)) /\ ~EndsAt(a, n)

(* b is a and one more frame. *)
Longer(a, b) ==
    /\ a \in Seq(Heard) /\ b \in Seq(Heard)
    /\ Len(a) \in Nat /\ Len(b) = Len(a) + 1
    /\ \A i \in 1 .. Len(a) : b[i] = a[i]

(* One more frame changes nothing in what came before it. *)
LEMMA PrefixStays ==
    ASSUME NEW a, NEW b, Longer(a, b), NEW n \in 0 .. Len(a)
    PROVE  /\ SpeechIn(b, n) = SpeechIn(a, n)
           /\ \A k \in 0 .. n : Trails(a, n, k) => Trails(b, n, k)
  <1>0. Len(a) \in Nat /\ n \in Nat /\ n <= Len(a)
    BY DEF Longer
  <1>1. \A i \in 1 .. n : b[i] = a[i]
    BY <1>0 DEF Longer
  <1>2. {i \in 1 .. n : b[i].speech} = {i \in 1 .. n : a[i].speech}
    BY <1>1
  <1>3. ASSUME NEW k \in 0 .. n, Trails(a, n, k) PROVE Trails(b, n, k)
    <2>1. \A i \in n - k + 1 .. n : i \in 1 .. n
      BY <1>0
    <2>2. k < n => n - k \in 1 .. n
      BY <1>0
    <2> QED BY <1>1, <1>3, <2>1, <2>2 DEF Trails
  <1> QED BY <1>2, <1>3 DEF SpeechIn

(* One more frame is counted if it is speech. *)
LEMMA OneMore ==
    ASSUME NEW a, NEW b, Longer(a, b)
    PROVE  /\ SpeechIn(a, Len(a)) \in Nat
           /\ SpeechIn(b, Len(b)) = IF b[Len(b)].speech THEN SpeechIn(a, Len(a)) + 1
                                                        ELSE SpeechIn(a, Len(a))
  <1> DEFINE S == {i \in 1 .. Len(a) : a[i].speech}
             T == {i \in 1 .. Len(b) : b[i].speech}
  <1>0. Len(a) \in Nat /\ Len(b) = Len(a) + 1 /\ \A i \in 1 .. Len(a) : b[i] = a[i]
    BY DEF Longer
  <1>1. IsFiniteSet(S) /\ Len(b) \notin S
    <2>1. IsFiniteSet(1 .. Len(a))
      BY <1>0, FS_Interval
    <2>2. S \subseteq 1 .. Len(a)
      OBVIOUS
    <2>3. IsFiniteSet(S)
      BY <2>1, <2>2, FS_Subset
    <2> QED BY <1>0, <2>3
  <1>2. T = IF b[Len(b)].speech THEN S \cup {Len(b)} ELSE S
    <2>1. \A i : i \in 1 .. Len(b) <=> i \in 1 .. Len(a) \/ i = Len(b)
      BY <1>0
    <2>2. Len(b) \notin 1 .. Len(a)
      BY <1>0
    <2> QED BY <1>0, <2>1, <2>2
  <1> HIDE DEF S, T
  <1>3. Cardinality(S) \in Nat
    BY <1>1, FS_CardinalityType
  <1>4. Cardinality(S \cup {Len(b)}) = Cardinality(S) + 1
    BY <1>1, FS_AddElement
  <1>5. Cardinality(T) = IF b[Len(b)].speech THEN Cardinality(S) + 1 ELSE Cardinality(S)
    BY <1>2, <1>4
  <1> QED BY <1>3, <1>5 DEF SpeechIn, S, T

(* What the counters must be after one more frame. *)
LEMMA Counts ==
    ASSUME NEW a, NEW b, Longer(a, b), NEW heard, NEW quiet, Counted(a, heard, quiet)
    PROVE  LET speaks == b[Len(b)].speech
               h == IF speaks THEN heard + 1 ELSE heard
               q == IF speaks THEN 0 ELSE quiet + 1
           IN  /\ SpeechIn(b, Len(b)) = h /\ h \in Nat
               /\ Trails(b, Len(b), q) /\ q \in 0 .. Len(b)
               /\ \A n \in 1 .. Len(a) : (\E k \in 0 .. n : Trails(b, n, k)) /\ ~EndsAt(b, n)
  <1> DEFINE speaks == b[Len(b)].speech
             h == IF speaks THEN heard + 1 ELSE heard
             q == IF speaks THEN 0 ELSE quiet + 1
  <1>0. Len(a) \in Nat /\ Len(b) = Len(a) + 1 /\ Len(a) > 0 /\ heard \in Nat
        /\ \A i \in 1 .. Len(a) : b[i] = a[i]
    BY DEF Longer, Counted
  <1>1. SpeechIn(b, Len(b)) = h /\ h \in Nat
    BY <1>0, OneMore DEF Counted
  <1>2. Trails(b, Len(b), q) /\ q \in 0 .. Len(b)
    <2>1. CASE speaks
      BY <1>0, <2>1 DEF Trails
    <2>2. CASE ~speaks
      <3>1. /\ quiet \in 0 .. Len(a)
            /\ \A i \in Len(a) - quiet + 1 .. Len(a) : ~a[i].speech
            /\ quiet < Len(a) => a[Len(a) - quiet].speech
        BY DEF Counted, Trails
      <3>2. q = quiet + 1 /\ q \in 0 .. Len(b)
        BY <1>0, <2>2, <3>1
      <3>3. ASSUME NEW i \in Len(b) - q + 1 .. Len(b) PROVE ~b[i].speech
        <4>1. i = Len(b) \/ (i \in Len(a) - quiet + 1 .. Len(a) /\ i \in 1 .. Len(a))
          BY <1>0, <3>1, <3>2
        <4> QED BY <1>0, <2>2, <3>1, <4>1
      <3>4. ASSUME q < Len(b) PROVE b[Len(b) - q].speech
        <4>1. Len(b) - q = Len(a) - quiet /\ quiet < Len(a) /\ Len(a) - quiet \in 1 .. Len(a)
          BY <1>0, <3>1, <3>2, <3>4
        <4> QED BY <1>0, <3>1, <4>1
      <3> QED BY <3>2, <3>3, <3>4 DEF Trails
    <2> QED BY <2>1, <2>2
  <1>3. ASSUME NEW n \in 1 .. Len(a)
        PROVE  (\E k \in 0 .. n : Trails(b, n, k)) /\ ~EndsAt(b, n)
    <2>1. n \in Nat /\ n \in 0 .. Len(a) /\ b[n] = a[n]
      BY <1>0
    <2>2. PICK k \in 0 .. n : Trails(a, n, k)
      BY DEF Counted
    <2>3. Trails(b, n, k) /\ SpeechIn(b, n) = SpeechIn(a, n)
      BY <2>1, <2>2, PrefixStays
    <2>4. SilenceAt(b, n) = SilenceAt(a, n)
      BY <2>1, <2>2, <2>3, SilenceIs
    <2>5. ~EndsAt(a, n)
      BY DEF Counted
    <2> QED BY <2>1, <2>3, <2>4, <2>5 DEF EndsAt
  <1> QED BY <1>1, <1>2, <1>3

CountInv ==
    /\ WholeInv
    /\ vad = "InSpeech" => Counted(acc, speech, silence)
    /\ SegmentIsOneUtterance

LEMMA Extended ==
    ASSUME WholeInv, vad = "InSpeech", NEW v \in BOOLEAN
    PROVE  LET b == Append(acc, Frame(position + 1, v))
           IN  Longer(acc, b) /\ b[Len(b)].speech = v
  <1>1. acc \in Seq(Heard) /\ position + 1 \in Nat
    BY DEF WholeInv, StreamOK
  <1> DEFINE f == Frame(position + 1, v)
  <1>2. f \in Heard /\ f.speech = v
    BY <1>1 DEF Frame, Heard
  <1> HIDE DEF f
  <1>3. LET b == Append(acc, f) IN Longer(acc, b) /\ b[Len(b)].speech = v
    BY <1>1, <1>2 DEF Longer
  <1> QED BY <1>3 DEF f

LEMMA CountNext == CountInv /\ [Next]_vars => CountInv'
  <1> SUFFICES ASSUME CountInv, [Next]_vars PROVE CountInv'
    OBVIOUS
  <1>0. WholeInv /\ WholeInv'
    BY WholeNext DEF CountInv
  <1>1. CASE SpeechStarts
    <2> DEFINE f == Frame(position + 1, TRUE)
    <2>0. position + 1 \in Nat
      BY <1>0 DEF WholeInv, StreamOK
    <2>1. f \in Heard /\ f.speech
      BY <2>0, FrameType
    <2>2. acc' = <<f>> /\ vad' = "InSpeech" /\ speech' = 1 /\ silence' = 0
          /\ decision' = "SpeechStart"
      BY <1>1 DEF SpeechStarts, Infer, StartFresh
    <2> HIDE DEF f
    <2>3. acc' \in Seq(Heard) /\ Len(acc') = 1 /\ acc'[1].speech
      BY <2>1, <2>2
    <2>4. {i \in 1 .. 1 : acc'[i].speech} = {1}
      BY <2>3
    <2>5. SpeechIn(acc', 1) = 1
      BY <2>4, FS_Singleton DEF SpeechIn
    <2>6. Trails(acc', 1, 0)
      BY <2>3 DEF Trails
    <2>7. ~EndsAt(acc', 1)
      BY <2>3 DEF EndsAt
    <2>8. Counted(acc', 1, 0)
      BY <2>3, <2>5, <2>6, <2>7 DEF Counted
    <2> QED BY <1>0, <2>2, <2>8 DEF CountInv, SegmentIsOneUtterance
  <1>2. CASE SpeechGoesOn
    <2> DEFINE b == Append(acc, Frame(position + 1, TRUE))
    <2>1. vad = "InSpeech" /\ acc' = b /\ vad' = vad /\ speech' = speech + 1 /\ silence' = 0
          /\ decision' = "SpeechContinue"
      BY <1>2 DEF SpeechGoesOn, Infer
    <2>2. Longer(acc, b) /\ b[Len(b)].speech = TRUE
      BY <1>0, <2>1, Extended
    <2>3. Counted(acc, speech, silence)
      BY <2>1 DEF CountInv
    <2> HIDE DEF b
    <2>4. /\ SpeechIn(b, Len(b)) = speech + 1 /\ speech + 1 \in Nat /\ Trails(b, Len(b), 0)
          /\ \A n \in 1 .. Len(acc) : (\E k \in 0 .. n : Trails(b, n, k)) /\ ~EndsAt(b, n)
      BY <2>2, <2>3, Counts
    <2>5. ~EndsAt(b, Len(b))
      BY <2>2 DEF EndsAt
    <2>6. Counted(b, speech + 1, 0)
      BY <2>2, <2>4, <2>5 DEF Counted, Longer
    <2> QED BY <1>0, <2>1, <2>6 DEF CountInv, SegmentIsOneUtterance
  <1>3. CASE PauseGoesOn \/ SpeechEnds
    <2> DEFINE b == Append(acc, Frame(position + 1, FALSE))
    <2>1. vad = "InSpeech"
      BY <1>3 DEF PauseGoesOn, SpeechEnds
    <2>2. Longer(acc, b) /\ b[Len(b)].speech = FALSE
      BY <1>0, <2>1, Extended
    <2>3. Counted(acc, speech, silence)
      BY <2>1 DEF CountInv
    <2> HIDE DEF b
    <2>4. /\ SpeechIn(b, Len(b)) = speech /\ speech \in Nat
          /\ Trails(b, Len(b), silence + 1) /\ silence + 1 \in 0 .. Len(b)
          /\ \A n \in 1 .. Len(acc) : (\E k \in 0 .. n : Trails(b, n, k)) /\ ~EndsAt(b, n)
      BY <2>2, <2>3, Counts
    <2>5. SilenceAt(b, Len(b)) = silence + 1
      BY <2>2, <2>4, SilenceIs DEF Longer
    <2>6. EndsAt(b, Len(b)) <=> Closes
      <3>1. ~b[Len(b)].speech
        BY <2>2
      <3>2. silence + 1 \in Nat
        BY <2>2, <2>4 DEF Longer
      <3>3. EndsAt(b, Len(b)) <=> \/ silence + 1 >= MaxSilence
                                  \/ speech + (silence + 1) >= MaxSpeech
        BY <3>1, <2>4, <2>5 DEF EndsAt
      <3>4. silence \in Int
        BY <2>3 DEF Counted, Trails
      <3>5. speech + (silence + 1) = speech + silence + 1
        BY <2>4, <3>4
      <3> QED BY <3>3, <3>5 DEF Closes
    <2>7. CASE PauseGoesOn
      <3>1. acc' = b /\ vad' = vad /\ speech' = speech /\ silence' = silence + 1
            /\ decision' = "SpeechContinue" /\ ~Closes
        BY <2>7 DEF PauseGoesOn, Infer, b
      <3>2. Counted(b, speech, silence + 1)
        BY <2>2, <2>4, <2>6, <3>1 DEF Counted, Longer
      <3> QED BY <1>0, <3>1, <3>2 DEF CountInv, SegmentIsOneUtterance
    <2>8. CASE SpeechEnds
      <3>1. segment'.audio = b /\ vad' = "WaitingForSpeech" /\ Closes /\ speech >= MinSpeech
        BY <2>8 DEF SpeechEnds, Waiting, LongEnough, b
      <3>2. \A n \in 1 .. Len(b) : EndsAt(b, n) <=> n = Len(b)
        <4>1. \A n \in 1 .. Len(b) : n = Len(b) \/ n \in 1 .. Len(acc)
          BY <2>2 DEF Longer
        <4>2. \A n \in 1 .. Len(acc) : n # Len(b)
          BY <2>2 DEF Longer
        <4> QED BY <2>4, <2>6, <3>1, <4>1, <4>2
      <3> QED BY <1>0, <2>4, <3>1, <3>2 DEF CountInv, SegmentIsOneUtterance
    <2> QED BY <1>3, <2>7, <2>8
  <1>4. CASE StillSilent
    BY <1>0, <1>4 DEF StillSilent, Infer, CountInv, SegmentIsOneUtterance
  <1>5. CASE Discard
    BY <1>0, <1>5 DEF Discard, Infer, Waiting, CountInv, SegmentIsOneUtterance
  <1>6. CASE Reset
    BY <1>0, <1>6 DEF Reset, Waiting, CountInv, SegmentIsOneUtterance
  <1>7. CASE UNCHANGED vars
    BY <1>0, <1>7 DEF vars, CountInv, SegmentIsOneUtterance
  <1> QED BY <1>1, <1>2, <1>3, <1>4, <1>5, <1>6, <1>7 DEF Next, ProcessFrame

(* A segment has enough speech and ends at its first end: no two           *)
(* utterances in one segment, none cut in a short pause, for all limits.   *)
THEOREM OneUtterance == Spec => []SegmentIsOneUtterance
  <1>1. Init => CountInv
    BY WholeInit DEF Init, CountInv, SegmentIsOneUtterance
  <1>2. CountInv => SegmentIsOneUtterance
    BY DEF CountInv
  <1> QED BY <1>1, CountNext, <1>2, PTL DEF Spec
=============================================================================
