-------------------------- MODULE TtsEnginesProofs --------------------------
(***************************************************************************)
(* Proofs about TtsEngines: for pipes of any size, texts of any length and *)
(* any ratio of samples to text, piper's samples are returned whole or not *)
(* at all.                                                                 *)
(***************************************************************************)
EXTENDS TtsEnginesProperties, WellFoundedInduction, TLAPS

(* What TypeOK does not say: the text is all written when its end of the   *)
(* pipe is closed, piper succeeds only when it has read and said           *)
(* everything, and nothing is returned before the end.                     *)
CallOK ==
    /\ at = "reading" => unsent = 0
    /\ child = "succeeded" => owed = 0 /\ stdin = 0
    /\ at # "returned" => result = Nothing

SynthesisInv == TypeOK /\ CallOK /\ WholeReply

-----------------------------------------------------------------------------
(* One piece of text less in the pipe is Expansion pieces of samples more  *)
(* that have been asked for.                                               *)
LEMMA OnePieceMore ==
    ASSUME NEW n \in Int, NEW e \in Int
    PROVE  (n + 1) * e = n * e + e
  OBVIOUS

(* Before a piece has gone into the pipe nothing is asked for.             *)
LEMMA NoPiece ==
    ASSUME NEW n \in Int, NEW e \in Int
    PROVE  (n - n - 0) * e = 0
  <1>1. n - n - 0 = 0
    OBVIOUS
  <1>2. 0 * e = 0
    OBVIOUS
  <1> QED BY <1>1, <1>2

(* The chunk of a file that can occur has a size, wherever it is read.     *)
LEMMA ChunkSize ==
    ASSUME file \in Files \cup {NoFile}
    PROVE  Chunk.size \in Nat
  <1> DEFINE here == {i \in DOMAIN file.chunks : Start(file, i) = pos}
  <1>1. CASE here = {}
    BY <1>1 DEF Chunk
  <1>2. CASE here # {}
    <2>1. (CHOOSE i \in here : TRUE) \in DOMAIN file.chunks
      BY <1>2
    <2>2. \A i \in DOMAIN file.chunks : file.chunks[i].size \in Nat
      BY FilesAssumption DEF NoFile
    <2> QED BY <1>2, <2>1, <2>2 DEF Chunk
  <1> QED BY <1>1, <1>2

(* The walk goes on at a byte of the file or behind it.                    *)
LEMMA NextPosition ==
    ASSUME file \in Files \cup {NoFile}, pos \in Nat
    PROVE  pos + Extent(Chunk.size) \in Nat
  <1>1. Chunk.size \in Nat
    BY ChunkSize
  <1> HIDE DEF Chunk
  <1>2. Extent(Chunk.size) \in Nat
    BY <1>1 DEF Extent
  <1> QED BY <1>2

-----------------------------------------------------------------------------
(* The invariant holds at the start of a call. *)
LEMMA InitInv == Init => SynthesisInv
  <1> SUFFICES ASSUME Init PROVE SynthesisInv
    OBVIOUS
  <1>1. text = 0 /\ unsent = 0 /\ stdin = 0 /\ owed = 0 /\ stdout = 0 /\ output = 0
    BY DEF Init
  <1>2. Conserved
    BY <1>1, NoPiece, EnginesAssumption DEF Conserved
  <1>3. TypeOK
    <2>1. open \in BOOLEAN /\ file \in Files \cup {NoFile}
      BY DEF Init
    <2>2. at = "idle" /\ child = "none" /\ pos = 0
      BY DEF Init
    <2>3. stdin \in 0 .. PipeSize /\ owed \in 0 .. Expansion /\ stdout \in 0 .. PipeSize
      BY <1>1, EnginesAssumption
    <2> QED BY <1>1, <1>2, <2>1, <2>2, <2>3 DEF TypeOK
  <1>4. CallOK /\ WholeReply
    BY DEF Init, CallOK, WholeReply, Nothing
  <1> QED
    BY <1>3, <1>4 DEF SynthesisInv

(* The samples are conserved: a piece only moves from one end to the other.*)
LEMMA NextConserves ==
    ASSUME TypeOK, [Next]_vars
    PROVE  Conserved'
  <1> USE EnginesAssumption DEF TypeOK
  <1>1. text \in Int /\ unsent \in Int /\ stdin \in Int
    OBVIOUS
  <1>2. CASE SpawnPiper
    <2>1. text' \in Int /\ unsent' = text' /\ stdin' = 0
      BY <1>2 DEF SpawnPiper
    <2>2. (text' - unsent' - stdin') * Expansion = 0
      <3> DEFINE n == text'
      <3>1. n \in Int
        BY <2>1
      <3> HIDE DEF n
      <3>2. (n - n - 0) * Expansion = 0
        BY <3>1, NoPiece
      <3> QED BY <2>1, <3>2 DEF n
    <2>3. owed' + stdout' + output' = 0
      BY <1>2 DEF SpawnPiper
    <2> QED BY <2>2, <2>3 DEF Conserved
  <1>3. CASE WriteText
    <2>1. text' - unsent' - stdin' = text - unsent - stdin
      BY <1>1, <1>3 DEF WriteText
    <2> QED BY <1>3, <2>1 DEF WriteText, Conserved
  <1>4. CASE PiperReads
    <2>1. text' - unsent' - stdin' = (text - unsent - stdin) + 1
      BY <1>1, <1>4 DEF PiperReads, ours
    <2>2. (text' - unsent' - stdin') * Expansion = (text - unsent - stdin) * Expansion + Expansion
      <3> DEFINE n == text - unsent - stdin
      <3>1. n \in Int
        BY <1>1
      <3> HIDE DEF n
      <3>2. (n + 1) * Expansion = n * Expansion + Expansion
        BY <3>1, OnePieceMore
      <3> QED BY <2>1, <3>2 DEF n
    <2> QED BY <1>4, <2>2 DEF PiperReads, ours, Conserved
  <1>5. CASE ReadOutput \/ PiperWrites
    <2>1. owed' + stdout' + output' = owed + stdout + output
      BY <1>5 DEF ReadOutput, PiperWrites, ours
    <2>2. UNCHANGED <<text, unsent, stdin>>
      BY <1>5 DEF ReadOutput, PiperWrites, ours
    <2> QED BY <2>1, <2>2 DEF Conserved
  <1>6. CASE UNCHANGED <<text, unsent, stdin, owed, stdout, output>>
    BY <1>6 DEF Conserved
  <1> QED
    BY <1>2, <1>3, <1>4, <1>5, <1>6
       DEF Next, OurStep, PiperStep, SpeakNothing, SpawnFails, EspeakRuns, WriteFails,
           CloseStdin, Collect, ReadFmt, SkipChunk, ReadData, NoData, PiperEnds,
           PiperDies, pipes, ours, vars

(* Nor does a step break the rest: the end of piper leaves no piece in     *)
(* between, and what is returned is all there was.                         *)
LEMMA NextInv == SynthesisInv /\ [Next]_vars => SynthesisInv'
  <1> SUFFICES ASSUME SynthesisInv, [Next]_vars PROVE SynthesisInv'
    OBVIOUS
  <1> USE EnginesAssumption DEF SynthesisInv
  <1> USE DEF Nothing, Silence, Failure, Piped, Wav, Return, pipes, ours, wav
  <1>0. Conserved'
    BY NextConserves
  <1>1. CASE SpeakNothing
    BY <1>0, <1>1 DEF SpeakNothing, TypeOK, CallOK, WholeReply
  <1>2. CASE SpawnFails
    BY <1>0, <1>2 DEF SpawnFails, TypeOK, CallOK, WholeReply
  <1>3. CASE SpawnPiper
    BY <1>0, <1>3 DEF SpawnPiper, TypeOK, CallOK, WholeReply
  <1>4. CASE EspeakRuns
    BY <1>0, <1>4 DEF EspeakRuns, TypeOK, CallOK, WholeReply
  <1>5. CASE WriteText
    BY <1>0, <1>5 DEF WriteText, TypeOK, CallOK, WholeReply
  <1>6. CASE WriteFails
    BY <1>0, <1>6 DEF WriteFails, TypeOK, CallOK, WholeReply
  <1>7. CASE CloseStdin
    BY <1>0, <1>7 DEF CloseStdin, TypeOK, CallOK, WholeReply
  <1>8. CASE ReadOutput
    BY <1>0, <1>8 DEF ReadOutput, TypeOK, CallOK, WholeReply
  <1>9. CASE Collect
    <2>1. CASE child = "succeeded"
      <3>1. text - unsent - stdin = text /\ owed + stdout + output = output
        BY <1>9, <2>1 DEF Collect, TypeOK, CallOK
      <3>2. output = text * Expansion
        BY <3>1 DEF TypeOK, Conserved
      <3> QED BY <1>0, <1>9, <2>1, <3>2 DEF Collect, TypeOK, CallOK, WholeReply
    <2>2. CASE child # "succeeded"
      BY <1>0, <1>9, <2>2 DEF Collect, TypeOK, CallOK, WholeReply
    <2> QED BY <2>1, <2>2
  <1>10. CASE ReadFmt \/ SkipChunk
    <2>1. pos' \in Nat
      BY <1>10, NextPosition DEF ReadFmt, SkipChunk, Advance, TypeOK
    <2> QED BY <1>0, <1>10, <2>1 DEF ReadFmt, SkipChunk, AtChunk, TypeOK, CallOK, WholeReply
  <1>11. CASE ReadData \/ NoData
    BY <1>0, <1>11 DEF ReadData, NoData, AtChunk, TypeOK, CallOK, WholeReply
  <1>12. CASE PiperReads
    BY <1>0, <1>12 DEF PiperReads, TypeOK, CallOK, WholeReply
  <1>13. CASE PiperWrites
    BY <1>0, <1>13 DEF PiperWrites, TypeOK, CallOK, WholeReply
  <1>14. CASE PiperEnds \/ PiperDies
    BY <1>0, <1>14 DEF PiperEnds, PiperDies, TypeOK, CallOK, WholeReply
  <1>15. CASE UNCHANGED vars
    BY <1>0, <1>15 DEF vars, TypeOK, CallOK, WholeReply
  <1> QED
    BY <1>1, <1>2, <1>3, <1>4, <1>5, <1>6, <1>7, <1>8, <1>9, <1>10, <1>11, <1>12,
       <1>13, <1>14, <1>15 DEF Next, OurStep, PiperStep

(* Both facts hold in every state of the call. *)
LEMMA Invariance == Spec => []SynthesisInv
  BY InitInv, NextInv, PTL DEF Spec

(* The pipes never hold more than fits, and no piece of text or sample is  *)
(* made up or lost between the two processes.                              *)
THEOREM TypeCorrect == Spec => []TypeOK
  BY Invariance, PTL DEF SynthesisInv

(* Samples are returned only when they are those of the whole text.        *)
THEOREM Replies == Spec => []WholeReply
  BY Invariance, PTL DEF SynthesisInv

-----------------------------------------------------------------------------
(* Induction over sets of numbers. *)

LEMMA Least ==
    ASSUME NEW T \in SUBSET Nat, T # {}
    PROVE  \E m \in T : \A n \in T : m <= n
  <1> DEFINE R == OpToRel(<, Nat)
  <1>1. IsWellFoundedOn(R, Nat)
    BY NatLessThanWellFounded
  <1>2. \A x, y \in Nat : x < y => <<x, y>> \in R
    BY DEF OpToRel
  <1> HIDE DEF R
  <1>3. PICK m \in T : \A n \in T : ~ (<<n, m>> \in R)
    BY <1>1, WFMin
  <1>4. ASSUME NEW n \in T PROVE m <= n
    <2>1. m \in Nat /\ n \in Nat /\ ~ (n < m)
      BY <1>2, <1>3
    <2> QED BY <2>1
  <1> QED BY <1>4

LEMMA Induction ==
    ASSUME NEW S, 0 \in S, \A n \in Nat : n \in S => n + 1 \in S
    PROVE  \A n \in Nat : n \in S
  <1> SUFFICES ASSUME Nat \ S # {} PROVE FALSE
    OBVIOUS
  <1>1. PICK m \in Nat \ S : \A n \in Nat \ S : m <= n
    BY Least
  <1>2. m # 0 /\ m - 1 \in Nat /\ m = (m - 1) + 1
    BY <1>1
  <1>3. m - 1 \in S
    BY <1>1, <1>2
  <1> QED BY <1>1, <1>2, <1>3

-----------------------------------------------------------------------------
(* The layout of a file. *)

Size(f, i) == f.chunks[i].size

(* Where the chunk behind the i-th one starts. *)
Behind(f, i, start) == start + 8 + Size(f, i) + (Size(f, i) % 2)

(* The starts of the first n chunks. *)
Layout(f, g, n) == \A j \in 1 .. n : g[j] = IF j = 1 THEN 12 ELSE Behind(f, j - 1, g[j - 1])

LEMMA SizeFacts ==
    ASSUME NEW f \in Files
    PROVE  /\ Len(f.chunks) \in Nat /\ f.length \in Nat
           /\ DOMAIN f.chunks = 1 .. Len(f.chunks)
           /\ \A i \in 1 .. Len(f.chunks) :
                /\ Size(f, i) \in Nat /\ Size(f, i) % 2 \in {0, 1}
                /\ \A s \in Nat : Behind(f, i, s) \in Nat /\ Behind(f, i, s) >= s + 8 + Size(f, i)
                                  /\ Behind(f, i, s) = s + Extent(Size(f, i))
  <1>1. /\ Len(f.chunks) \in Nat /\ f.length \in Nat
        /\ DOMAIN f.chunks = 1 .. Len(f.chunks)
        /\ \A i \in 1 .. Len(f.chunks) : Size(f, i) \in Nat
    BY FilesAssumption DEF Size
  <1>2. ASSUME NEW n \in Nat, NEW s \in Nat
        PROVE  /\ n % 2 \in {0, 1} /\ s + 8 + n + (n % 2) \in Nat
               /\ s + 8 + n + (n % 2) >= s + 8 + n
               /\ s + 8 + n + (n % 2) = s + (8 + n + (n % 2))
    OBVIOUS
  <1>3. \A n \in Nat : n % 2 \in {0, 1}
    OBVIOUS
  <1> QED BY <1>1, <1>2, <1>3, Zenon DEF Behind, Extent

(* There is a layout of any number of the chunks. *)
LEMMA LayoutExists ==
    ASSUME NEW f \in Files
    PROVE  \E g \in [1 .. Len(f.chunks) -> Nat] : Layout(f, g, Len(f.chunks))
  <1> DEFINE N == Len(f.chunks)
             S == {n \in Nat : n <= N => \E g \in [1 .. n -> Nat] : Layout(f, g, n)}
  <1>0. N \in Nat
    BY SizeFacts
  <1>1. 0 \in S
    <2>1. [j \in 1 .. 0 |-> 0] \in [1 .. 0 -> Nat] /\ Layout(f, [j \in 1 .. 0 |-> 0], 0)
      BY DEF Layout
    <2> QED BY <2>1
  <1>2. ASSUME NEW n \in Nat, n \in S PROVE n + 1 \in S
    <2>1. CASE n + 1 <= N
      <3>1. PICK g \in [1 .. n -> Nat] : Layout(f, g, n)
        BY <1>0, <1>2, <2>1
      <3> DEFINE h == [j \in 1 .. n + 1 |->
                        IF j = 1 THEN 12 ELSE IF j = n + 1 THEN Behind(f, n, g[n]) ELSE g[j]]
      <3>2. \A j \in 1 .. n : h[j] = g[j]
        <4> SUFFICES ASSUME NEW j \in 1 .. n PROVE h[j] = g[j]
          OBVIOUS
        <4>1. j \in 1 .. n + 1 /\ j # n + 1
          OBVIOUS
        <4>2. j = 1 => g[j] = 12
          BY <3>1 DEF Layout
        <4> QED BY <4>1, <4>2
      <3>3. n # 0 => Behind(f, n, g[n]) \in Nat
        <4>1. n # 0 => n \in 1 .. n /\ n \in 1 .. N
          BY <1>0, <2>1
        <4> QED BY <3>1, <4>1, SizeFacts
      <3>4. \A j \in 1 .. n + 1 : j # 1 /\ j # n + 1 => g[j] \in Nat
        <4>1. \A j \in 1 .. n + 1 : j # 1 /\ j # n + 1 => j \in 1 .. n
          OBVIOUS
        <4> QED BY <3>1, <4>1
      <3>5. n = 0 => \A j \in 1 .. n + 1 : j = 1
        OBVIOUS
      <3>6. h \in [1 .. n + 1 -> Nat]
        BY <3>3, <3>4, <3>5
      <3>7. Layout(f, h, n + 1)
        <4> SUFFICES ASSUME NEW j \in 1 .. n + 1
                     PROVE  h[j] = IF j = 1 THEN 12 ELSE Behind(f, j - 1, h[j - 1])
          BY DEF Layout
        <4>1. CASE j = 1
          BY <4>1
        <4>2. CASE j # 1 /\ j = n + 1
          <5>1. j - 1 = n /\ n \in 1 .. n
            BY <4>2
          <5>2. h[n] = g[n]
            BY <3>2, <5>1
          <5>3. h[j] = Behind(f, n, g[n])
            BY <4>2
          <5> HIDE DEF h
          <5> QED BY <4>2, <5>1, <5>2, <5>3
        <4>3. CASE j # 1 /\ j # n + 1
          <5>1. j \in 1 .. n /\ j - 1 \in 1 .. n
            BY <4>3
          <5>2. g[j] = Behind(f, j - 1, g[j - 1])
            BY <3>1, <4>3, <5>1 DEF Layout
          <5> HIDE DEF h
          <5> QED BY <3>2, <4>3, <5>1, <5>2
        <4> QED BY <4>1, <4>2, <4>3
      <3> HIDE DEF h
      <3> QED BY <3>6, <3>7
    <2>2. CASE ~ (n + 1 <= N)
      BY <2>2
    <2> QED BY <2>1, <2>2
  <1> HIDE DEF S
  <1>3. N \in S
    BY <1>0, <1>1, <1>2, Induction
  <1> QED BY <1>0, <1>3 DEF S

(* There is only one. *)
LEMMA OneLayout ==
    ASSUME NEW f \in Files, NEW g, NEW h,
           Layout(f, g, Len(f.chunks)), Layout(f, h, Len(f.chunks))
    PROVE  \A n \in 1 .. Len(f.chunks) : g[n] = h[n]
  <1> DEFINE N == Len(f.chunks)
             S == {n \in Nat : n \in 1 .. N => g[n] = h[n]}
  <1>1. 0 \in S
    OBVIOUS
  <1>2. ASSUME NEW n \in Nat, n \in S PROVE n + 1 \in S
    <2>1. CASE n + 1 \in 1 .. N /\ n # 0
      <3>1. n \in 1 .. N /\ n + 1 # 1 /\ (n + 1) - 1 = n
        BY <2>1, SizeFacts
      <3>2. g[n] = h[n]
        BY <1>2, <3>1
      <3>3. g[n + 1] = Behind(f, n, g[n]) /\ h[n + 1] = Behind(f, n, h[n])
        BY <2>1, <3>1 DEF Layout
      <3> QED BY <3>2, <3>3
    <2>2. CASE n + 1 \in 1 .. N /\ n = 0
      <3>1. g[n + 1] = 12 /\ h[n + 1] = 12
        BY <2>2 DEF Layout
      <3> QED BY <3>1
    <2> QED BY <2>1, <2>2
  <1> HIDE DEF S
  <1>3. \A n \in Nat : n \in S
    BY <1>1, <1>2, Induction
  <1>4. \A n \in 1 .. N : n \in Nat
    <2>1. N \in Nat
      BY SizeFacts
    <2> QED BY <2>1
  <1>5. \A n \in 1 .. N : n \in S
    BY <1>3, <1>4
  <1> QED BY <1>5 DEF S

(* Start is what its definition says: the function it is defined by        *)
(* exists, because a layout does.                                          *)
LEMMA StartIsLayout ==
    ASSUME NEW f \in Files
    PROVE  \E h : Layout(f, h, Len(f.chunks)) /\ \A i : Start(f, i) = h[i]
  <1> DEFINE N == Len(f.chunks)
             From(g) == g = [j \in 1 .. Len(f.chunks) |->
               IF j = 1 THEN 12
               ELSE g[j - 1] + 8 + f.chunks[j - 1].size + (f.chunks[j - 1].size % 2)]
             from == CHOOSE g : From(g)
  <1>1. \A i : Start(f, i) = from[i]
    BY DEF Start
  <1>2. \E g : From(g)
    <2>1. PICK g \in [1 .. N -> Nat] : Layout(f, g, N)
      BY LayoutExists
    <2>2. g = [j \in 1 .. N |-> g[j]]
      OBVIOUS
    <2>3. \A j \in 1 .. N : g[j] =
               IF j = 1 THEN 12
               ELSE g[j - 1] + 8 + f.chunks[j - 1].size + (f.chunks[j - 1].size % 2)
      BY <2>1, Zenon DEF Layout, Behind, Size
    <2>4. From(g)
      BY <2>2, <2>3, Zenon
    <2> HIDE DEF From
    <2> QED BY <2>4
  <1>3. From(from)
    <2> HIDE DEF From
    <2> QED BY <1>2
  <1>4. Layout(f, from, N)
    <2> HIDE DEF from
    <2> QED BY <1>3, Zenon DEF Layout, Behind, Size
  <1> HIDE DEF from, From
  <1> QED BY <1>1, <1>4

(* Each chunk starts where the one before it ends, the first behind the    *)
(* 12 bytes of the file's own header.                                      *)
LEMMA Starts ==
    ASSUME NEW f \in Files
    PROVE  /\ \A i \in 1 .. Len(f.chunks) : Start(f, i) \in Nat
           /\ 1 \in 1 .. Len(f.chunks) => Start(f, 1) = 12
           /\ \A i \in 1 .. Len(f.chunks) :
                i + 1 \in 1 .. Len(f.chunks) => Start(f, i + 1) = Behind(f, i, Start(f, i))
  <1> DEFINE N == Len(f.chunks)
  <1>1. PICK h : Layout(f, h, N) /\ \A i : Start(f, i) = h[i]
    BY StartIsLayout
  <1>2. PICK g \in [1 .. N -> Nat] : Layout(f, g, N)
    BY LayoutExists
  <1>3. \A i \in 1 .. N : Start(f, i) = g[i]
    BY <1>1, <1>2, OneLayout
  <1>4. \A i \in 1 .. N : i + 1 \in 1 .. N => i + 1 # 1 /\ (i + 1) - 1 = i
    OBVIOUS
  <1> QED BY <1>1, <1>2, <1>3, <1>4 DEF Layout

(* Later chunks start at least a header further on. *)
LEMMA StartsGrow ==
    ASSUME NEW f \in Files, NEW i \in 1 .. Len(f.chunks), NEW k \in 1 .. Len(f.chunks), i < k
    PROVE  Start(f, i) + 8 <= Start(f, k)
  <1> DEFINE N == Len(f.chunks)
             S == {n \in Nat : i + 1 + n \in 1 .. N => Start(f, i) + 8 <= Start(f, i + 1 + n)}
  <1>0. N \in Nat /\ i \in Nat
    BY SizeFacts
  <1>1. \A j \in 1 .. N : j + 1 \in 1 .. N =>
          Start(f, j) \in Nat /\ Start(f, j + 1) \in Nat /\ Start(f, j) + 8 <= Start(f, j + 1)
    <2> SUFFICES ASSUME NEW j \in 1 .. N, j + 1 \in 1 .. N
                 PROVE  Start(f, j) \in Nat /\ Start(f, j + 1) \in Nat /\ Start(f, j) + 8 <= Start(f, j + 1)
      OBVIOUS
    <2>1. Start(f, j) \in Nat /\ Start(f, j + 1) \in Nat /\ Size(f, j) \in Nat
      BY Starts, SizeFacts
    <2>2. Start(f, j + 1) >= Start(f, j) + 8 + Size(f, j)
      BY <2>1, Starts, SizeFacts
    <2> QED BY <2>1, <2>2
  <1>2. 0 \in S
    BY <1>0, <1>1
  <1>3. ASSUME NEW n \in Nat, n \in S PROVE n + 1 \in S
    <2> SUFFICES ASSUME i + 1 + (n + 1) \in 1 .. N
                 PROVE  Start(f, i) + 8 <= Start(f, i + 1 + (n + 1))
      OBVIOUS
    <2>1. i + 1 + n \in 1 .. N /\ i + 1 + (n + 1) = (i + 1 + n) + 1
      BY <1>0
    <2> DEFINE j == i + 1 + n
    <2>2. Start(f, i) + 8 <= Start(f, j)
      BY <1>3, <2>1
    <2>3. /\ Start(f, j) \in Nat /\ Start(f, j + 1) \in Nat /\ Start(f, i) \in Nat
          /\ Start(f, j) + 8 <= Start(f, j + 1)
      BY <1>1, <2>1, Starts
    <2>4. Start(f, i + 1 + (n + 1)) = Start(f, j + 1)
      BY <2>1
    <2> HIDE DEF j, S
    <2> QED BY <2>2, <2>3, <2>4
  <1>4. k - (i + 1) \in Nat /\ i + 1 + (k - (i + 1)) = k
    BY <1>0
  <1> DEFINE m == k - (i + 1)
  <1>5. m \in S
    <2> HIDE DEF S
    <2> QED BY <1>2, <1>3, <1>4, Induction
  <1> QED BY <1>4, <1>5

-----------------------------------------------------------------------------
(* The walk over the chunks. *)

(* The walk stands at the start of a chunk, with the format of those       *)
(* before it, or behind all of them; and it has passed no data chunk.      *)
Walk ==
    at = "walking" =>
      /\ file \in Files
      /\ \A j \in DOMAIN file.chunks : Start(file, j) < pos => j \notin DataChunks(file)
      /\ \/ \E i \in DOMAIN file.chunks :
              pos = Start(file, i) /\ (pos <= file.length => format = FormatBefore(file, i))
         \/ \A j \in DOMAIN file.chunks : Start(file, j) < pos

(* What is returned. *)
Found ==
    result.kind = "espeak" =>
      /\ DataChunks(file) # {}
      /\ LET i == FirstData(file)
             start == Start(file, i) + 8
         IN  result = Wav(start, Smaller(file.chunks[i].size, file.length - start),
                          FormatBefore(file, i))

(* No two chunks start at the same place, so the bytes at a start are the  *)
(* header of one chunk.                                                    *)
LEMMA ChunkHere ==
    ASSUME NEW i \in DOMAIN file.chunks, file \in Files, pos = Start(file, i)
    PROVE  Chunk = file.chunks[i]
  <1> DEFINE here == {j \in DOMAIN file.chunks : Start(file, j) = pos}
  <1>1. DOMAIN file.chunks = 1 .. Len(file.chunks) /\ Len(file.chunks) \in Nat
    BY SizeFacts
  <1>2. ASSUME NEW j \in here PROVE j = i
    <2>1. j \in 1 .. Len(file.chunks) /\ i \in 1 .. Len(file.chunks)
      BY <1>1, <1>2
    <2>2. Start(file, j) \in Nat /\ Start(file, i) \in Nat /\ Start(file, i) = Start(file, j)
      BY <1>2, <2>1, Starts
    <2>3. ASSUME i < j PROVE FALSE
      <3>1. Start(file, i) + 8 <= Start(file, j)
        BY <2>1, <2>3, StartsGrow
      <3> QED BY <2>2, <3>1
    <2>4. ASSUME j < i PROVE FALSE
      <3>1. Start(file, j) + 8 <= Start(file, i)
        BY <2>1, <2>4, StartsGrow
      <3> QED BY <2>2, <3>1
    <2>5. i \in Int /\ j \in Int
      BY <1>1, <2>1
    <2> QED BY <2>3, <2>4, <2>5
  <1>3. here = {i}
    BY <1>2
  <1>4. (CHOOSE j \in here : TRUE) = i
    BY <1>3
  <1> QED BY <1>3, <1>4 DEF Chunk

LEMMA NoChunkHere ==
    ASSUME \A j \in DOMAIN file.chunks : Start(file, j) # pos
    PROVE  Chunk.id = "junk" /\ Chunk.size = 0
  <1>1. {j \in DOMAIN file.chunks : Start(file, j) = pos} = {}
    OBVIOUS
  <1> QED BY <1>1 DEF Chunk

(* The format of the chunks before the next one. *)
LEMMA NextFormat ==
    ASSUME NEW f \in Files, NEW i \in 1 .. Len(f.chunks)
    PROVE  FormatBefore(f, i + 1) =
             IF f.chunks[i].id = "fmt" /\ f.chunks[i].size >= 16 THEN f.chunks[i].format
             ELSE FormatBefore(f, i)
  <1> DEFINE Set(n) == {j \in 1 .. n - 1 : f.chunks[j].id = "fmt" /\ f.chunks[j].size >= 16}
             last == CHOOSE j \in Set(i + 1) : \A k \in Set(i + 1) : k <= j
  <1>0. Len(f.chunks) \in Nat /\ i \in Nat
    BY SizeFacts
  <1>1. 1 .. (i + 1) - 1 = (1 .. i - 1) \cup {i}
    BY <1>0
  <1>2. CASE f.chunks[i].id = "fmt" /\ f.chunks[i].size >= 16
    <2>1. i \in Set(i + 1) /\ \A k \in Set(i + 1) : k <= i /\ k \in Int
      BY <1>0, <1>1, <1>2
    <2> HIDE DEF Set
    <2>2. last = i
      BY <1>0, <2>1
    <2>3. Set(i + 1) # {}
      BY <2>1
    <2> HIDE DEF last
    <2>4. FormatBefore(f, i + 1) = f.chunks[last].format
      BY <2>3 DEF FormatBefore, Set, last
    <2> QED BY <1>2, <2>2, <2>4
  <1>3. CASE ~ (f.chunks[i].id = "fmt" /\ f.chunks[i].size >= 16)
    <2>1. Set(i + 1) = Set(i)
      BY <1>1, <1>3
    <2> DEFINE In(fmts) == IF fmts = {} THEN DefaultFormat
                           ELSE f.chunks[CHOOSE j \in fmts : \A k \in fmts : k <= j].format
    <2>2. FormatBefore(f, i + 1) = In(Set(i + 1)) /\ FormatBefore(f, i) = In(Set(i))
      BY DEF FormatBefore
    <2> HIDE DEF Set, In
    <2> QED BY <1>3, <2>1, <2>2
  <1> QED BY <1>2, <1>3

LEMMA FirstFormat == ASSUME NEW f PROVE FormatBefore(f, 1) = DefaultFormat
  <1>1. 1 .. 1 - 1 = {}
    OBVIOUS
  <1>2. {j \in 1 .. 1 - 1 : f.chunks[j].id = "fmt" /\ f.chunks[j].size >= 16} = {}
    BY <1>1
  <1> QED BY <1>2 DEF FormatBefore

(* At a chunk: the next chunk, or the end of them, is where Extent says. *)
LEMMA AdvanceKeepsWalk ==
    ASSUME TypeOK, Walk, at = "walking", UNCHANGED <<at, file>>, Advance,
           Chunk.id # "data",
           format' = IF Chunk.id = "fmt" /\ ChunkFits /\ Chunk.size >= 16
                     THEN Chunk.format ELSE format
    PROVE  Walk'
  <1> DEFINE N == Len(file.chunks)
  <1>1. /\ file \in Files /\ pos \in Nat
        /\ DOMAIN file.chunks = 1 .. N /\ N \in Nat /\ file.length \in Nat
    BY SizeFacts DEF Walk, TypeOK
  <1>2. /\ \A j \in 1 .. N : Start(file, j) < pos => j \notin DataChunks(file)
        /\ \/ \E i \in 1 .. N :
                pos = Start(file, i) /\ (pos <= file.length => format = FormatBefore(file, i))
           \/ \A j \in 1 .. N : Start(file, j) < pos
    BY <1>1 DEF Walk
  <1>3. SUFFICES /\ \A j \in 1 .. N : Start(file, j) < pos' => j \notin DataChunks(file)
                 /\ \/ \E i \in 1 .. N :
                         /\ pos' = Start(file, i)
                         /\ pos' <= file.length => format' = FormatBefore(file, i)
                    \/ \A j \in 1 .. N : Start(file, j) < pos'
    BY <1>1 DEF Walk
  <1>4. CASE \A j \in 1 .. N : Start(file, j) < pos
    <2>1. \A j \in 1 .. N : Start(file, j) \in Nat
      BY <1>1, Starts
    <2>2. \A j \in DOMAIN file.chunks : Start(file, j) # pos
      BY <1>1, <1>4, <2>1
    <2>3. Chunk.size = 0
      BY <2>2, NoChunkHere
    <2> HIDE DEF Chunk
    <2>4. pos' = pos + 8
      BY <1>1, <2>3 DEF Advance, Extent
    <2>5. \A j \in 1 .. N : Start(file, j) < pos'
      BY <1>1, <1>4, <2>1, <2>4
    <2> QED BY <1>2, <1>4, <2>5
  <1>5. ASSUME NEW i \in 1 .. N, pos = Start(file, i),
               pos <= file.length => format = FormatBefore(file, i)
        PROVE  /\ \A j \in 1 .. N : Start(file, j) < pos' => j \notin DataChunks(file)
               /\ \/ \E k \in 1 .. N :
                       /\ pos' = Start(file, k)
                       /\ pos' <= file.length => format' = FormatBefore(file, k)
                  \/ \A j \in 1 .. N : Start(file, j) < pos'
    <2>1. Chunk = file.chunks[i]
      BY <1>1, <1>5, ChunkHere
    <2>2. i \notin DataChunks(file)
      BY <2>1 DEF DataChunks
    <2>3. /\ Size(file, i) \in Nat /\ Chunk.size = Size(file, i)
          /\ Behind(file, i, pos) \in Nat /\ Behind(file, i, pos) >= pos + 8 + Size(file, i)
          /\ Behind(file, i, pos) = pos + Extent(Size(file, i))
      BY <1>1, <2>1, SizeFacts DEF Size
    <2>4. pos' = Behind(file, i, pos) /\ pos' \in Nat /\ pos' >= pos + 8 + Chunk.size
      BY <2>3 DEF Advance
    <2>5. \A j \in 1 .. N : Start(file, j) \in Nat
      BY <1>1, Starts
    <2>6. i \in Nat
      BY <1>1
    <2>7. ASSUME NEW j \in 1 .. N, Start(file, j) < pos' PROVE j <= i
      <3> SUFFICES ASSUME i < j PROVE FALSE
        BY <1>1, <2>6
      <3>1. i + 1 \in 1 .. N /\ (i + 1 = j \/ i + 1 < j)
        BY <1>1, <2>6
      <3>2. Start(file, i + 1) = pos'
        BY <1>1, <1>5, <2>4, <3>1, Starts
      <3>3. i + 1 < j => Start(file, i + 1) + 8 <= Start(file, j)
        BY <1>1, <3>1, StartsGrow
      <3> QED BY <2>4, <2>5, <2>7, <3>1, <3>2, <3>3
    <2>8. ASSUME NEW j \in 1 .. N, Start(file, j) < pos' PROVE j \notin DataChunks(file)
      <3>1. CASE j = i
        BY <2>2, <3>1
      <3>2. CASE j # i
        <4>1. j < i
          BY <1>1, <2>6, <2>7, <2>8, <3>2
        <4>2. Start(file, j) + 8 <= pos
          BY <1>1, <1>5, <4>1, StartsGrow
        <4>3. Start(file, j) < pos
          BY <1>1, <2>5, <4>2
        <4> QED BY <1>2, <4>3
      <3> QED BY <3>1, <3>2
    <2>9. CASE i + 1 \in 1 .. N
      <3>1. pos' = Start(file, i + 1)
        BY <1>1, <1>5, <2>4, <2>9, Starts
      <3>2. ASSUME pos' <= file.length PROVE format' = FormatBefore(file, i + 1)
        <4>1. /\ pos + 8 + Chunk.size <= file.length /\ pos <= file.length
          BY <1>1, <2>3, <2>4, <3>2
        <4>2. format = FormatBefore(file, i) /\ ChunkFits
          BY <1>5, <4>1 DEF ChunkFits
        <4>3. FormatBefore(file, i + 1) =
                IF Chunk.id = "fmt" /\ Chunk.size >= 16 THEN Chunk.format ELSE format
          BY <1>1, <2>1, <4>2, NextFormat
        <4> QED BY <4>2, <4>3
      <3> QED BY <2>8, <2>9, <3>1, <3>2
    <2>10. CASE i + 1 \notin 1 .. N
      <3>1. i = N
        BY <1>1, <2>6, <2>10
      <3>2. ASSUME NEW j \in 1 .. N PROVE Start(file, j) < pos'
        <4>1. j < i => Start(file, j) + 8 <= pos
          BY <1>1, <1>5, StartsGrow
        <4>2. j = i \/ j < i
          BY <1>1, <3>1
        <4>3. Start(file, j) <= pos
          BY <1>1, <1>5, <2>5, <4>1, <4>2
        <4>4. pos < pos'
          BY <1>1, <2>3, <2>4
        <4> QED BY <1>1, <2>4, <2>5, <4>3, <4>4
      <3> QED BY <2>8, <3>2
    <2> QED BY <2>9, <2>10
  <1> QED BY <1>2, <1>4, <1>5

(* Where the walk finds the id of a data chunk, it is the first. *)
LEMMA DataIsFound ==
    ASSUME TypeOK, Walk, ReadData, CallOK
    PROVE  Found'
  <1>1. at = "walking" /\ pos + 8 <= file.length /\ Chunk.id = "data" /\ UNCHANGED file
    BY DEF ReadData, AtChunk, wav
  <1>2. /\ file \in Files /\ pos \in Nat /\ file.length \in Nat
        /\ DOMAIN file.chunks = 1 .. Len(file.chunks) /\ Len(file.chunks) \in Nat
    BY <1>1, SizeFacts DEF Walk, TypeOK
  <1>3. \A j \in 1 .. Len(file.chunks) : Start(file, j) \in Nat
    BY <1>2, Starts
  <1>4. ~ \A j \in 1 .. Len(file.chunks) : Start(file, j) < pos
    <2> SUFFICES ASSUME \A j \in 1 .. Len(file.chunks) : Start(file, j) < pos PROVE FALSE
      OBVIOUS
    <2>1. \A j \in DOMAIN file.chunks : Start(file, j) # pos
      BY <1>2, <1>3
    <2> QED BY <1>1, <2>1, NoChunkHere
  <1>5. PICK i \in 1 .. Len(file.chunks) :
          pos = Start(file, i) /\ (pos <= file.length => format = FormatBefore(file, i))
    BY <1>1, <1>2, <1>4 DEF Walk
  <1>6. Chunk = file.chunks[i] /\ format = FormatBefore(file, i)
    <2>1. pos <= file.length
      BY <1>1, <1>2
    <2> QED BY <1>2, <1>5, <2>1, ChunkHere
  <1>7. i \in DataChunks(file)
    BY <1>1, <1>2, <1>5, <1>6 DEF DataChunks
  <1>8. ASSUME NEW j \in DataChunks(file) PROVE i <= j
    <2>1. j \in 1 .. Len(file.chunks) /\ ~ (Start(file, j) < pos)
      BY <1>1, <1>2 DEF DataChunks, Walk
    <2>2. j < i => Start(file, j) + 8 <= pos
      BY <1>2, <1>5, <2>1, StartsGrow
    <2> QED BY <1>2, <1>3, <2>1, <2>2
  <1>9. FirstData(file) = i
    <2>1. \A j \in DataChunks(file) : j \in Int
      BY <1>2 DEF DataChunks
    <2> DEFINE S == DataChunks(file)
               Below(k) == \A j \in S : k <= j
    <2>2. i \in S /\ Below(i) /\ i \in Int
      BY <1>2, <1>7, <1>8
    <2>3. \A k \in S : Below(k) => k <= i /\ i <= k
      BY <1>7, <1>8
    <2>4. \A k \in S : Below(k) => k = i
      BY <2>1, <2>2, <2>3
    <2>5. FirstData(file) = CHOOSE k \in S : Below(k)
      BY DEF FirstData
    <2> HIDE DEF S, Below
    <2>6. (CHOOSE k \in S : Below(k)) = i
      BY <2>2, <2>4
    <2> QED BY <2>5, <2>6
  <1>10. result' = LET len == Smaller(file.chunks[i].size, file.length - (pos + 8))
                   IN  IF len > 0 /\ format.bits \in {8, 16}
                       THEN Wav(pos + 8, len, format) ELSE Failure
    BY <1>6, Zenon DEF ReadData, Return
  <1>11. \/ result' = Failure
         \/ result' = Wav(pos + 8, Smaller(file.chunks[i].size, file.length - (pos + 8)), format)
    BY <1>10
  <1>12. CASE result' = Failure
    BY <1>12 DEF Found, Failure
  <1>13. CASE result' = Wav(pos + 8, Smaller(file.chunks[i].size, file.length - (pos + 8)), format)
    <2>1. DataChunks(file') # {} /\ FirstData(file') = i /\ pos + 8 = Start(file', i) + 8
      BY <1>1, <1>5, <1>7, <1>9
    <2> QED BY <1>1, <1>6, <1>13, <2>1 DEF Found
  <1> QED BY <1>11, <1>12, <1>13

(* A file without a data chunk is what the walk has seen when it ends. *)
LEMMA EndOfWalk ==
    ASSUME TypeOK, Walk, at = "walking", ~AtChunk
    PROVE  DataChunks(file) = {}
  <1>1. /\ file \in Files /\ pos \in Nat /\ file.length \in Nat
        /\ DOMAIN file.chunks = 1 .. Len(file.chunks) /\ Len(file.chunks) \in Nat
    BY SizeFacts DEF Walk, TypeOK
  <1>2. pos + 8 > file.length
    BY <1>1 DEF AtChunk
  <1>3. ASSUME NEW j \in DataChunks(file) PROVE FALSE
    <2>1. /\ j \in 1 .. Len(file.chunks) /\ ~ (Start(file, j) < pos)
          /\ Start(file, j) + 8 <= file.length
      BY <1>1, <1>3 DEF DataChunks, Walk
    <2>2. Start(file, j) \in Nat
      BY <1>1, <2>1, Starts
    <2> QED BY <1>1, <1>2, <2>1, <2>2
  <1> QED BY <1>3

WalkInv == SynthesisInv /\ Walk /\ Found

LEMMA NextWalk == WalkInv /\ [Next]_vars => Walk' /\ Found'
  <1> SUFFICES ASSUME WalkInv, [Next]_vars PROVE Walk' /\ Found'
    OBVIOUS
  <1>0. TypeOK /\ CallOK /\ Walk /\ Found
    BY DEF WalkInv, SynthesisInv
  <1>1. ASSUME UNCHANGED wav, at' = "walking" => at = "walking",
               result' = result \/ result'.kind # "espeak"
        PROVE  Walk' /\ Found'
    <2>1. Walk'
      BY <1>0, <1>1 DEF Walk, wav, DataChunks
    <2>2. Found'
      BY <1>0, <1>1, Zenon DEF Found, wav, DataChunks
    <2> QED BY <2>1, <2>2
  <1>2. CASE EspeakRuns
    <2>1. /\ file' \in Files /\ pos' = 12 /\ format' = DefaultFormat
          /\ result' = Failure \/ result' = result
      BY <1>2 DEF EspeakRuns, Return
    <2>2. result = Nothing
      BY <1>0, <1>2 DEF EspeakRuns, CallOK
    <2>3. Found'
      BY <2>1, <2>2 DEF Found, Failure, Nothing
    <2>4. /\ DOMAIN file'.chunks = 1 .. Len(file'.chunks) /\ Len(file'.chunks) \in Nat
          /\ \A i \in 1 .. Len(file'.chunks) : Start(file', i) \in Nat
          /\ 1 \in 1 .. Len(file'.chunks) => Start(file', 1) = 12
      BY <2>1, SizeFacts, Starts
    <2>5. ASSUME NEW j \in 1 .. Len(file'.chunks) PROVE ~ (Start(file', j) < 12)
      <3>1. 1 \in 1 .. Len(file'.chunks) /\ (j = 1 \/ 1 < j)
        BY <2>4
      <3>2. 1 < j => Start(file', 1) + 8 <= Start(file', j)
        BY <2>1, <3>1, StartsGrow
      <3> QED BY <2>4, <3>1, <3>2
    <2>6. CASE 1 \in 1 .. Len(file'.chunks)
      <3>1. pos' = Start(file', 1) /\ format' = FormatBefore(file', 1)
        BY <2>1, <2>4, <2>6, FirstFormat
      <3> QED BY <2>1, <2>3, <2>4, <2>5, <2>6, <3>1 DEF Walk
    <2>7. CASE 1 \notin 1 .. Len(file'.chunks)
      <3>1. \A j \in 1 .. Len(file'.chunks) : FALSE
        BY <2>4, <2>7
      <3> QED BY <2>1, <2>3, <2>4, <3>1 DEF Walk
    <2> QED BY <2>6, <2>7
  <1>3. CASE ReadFmt \/ SkipChunk
    <2>1. /\ at = "walking" /\ Chunk.id # "data" /\ Advance
          /\ UNCHANGED <<at, file, result>>
      BY <1>3 DEF ReadFmt, SkipChunk, AtChunk
    <2>2. format' = IF Chunk.id = "fmt" /\ ChunkFits /\ Chunk.size >= 16
                    THEN Chunk.format ELSE format
      BY <1>3, Zenon DEF ReadFmt, SkipChunk
    <2>3. Walk'
      BY <1>0, <2>1, <2>2, AdvanceKeepsWalk
    <2>4. Found'
      BY <1>0, <2>1 DEF Found, CallOK, Nothing
    <2> QED BY <2>3, <2>4
  <1>4. CASE ReadData
    BY <1>0, <1>4, DataIsFound DEF ReadData, Return, Walk
  <1>5. CASE NoData
    BY <1>1, <1>5 DEF NoData, Return, Failure
  <1>6. CASE Collect
    BY <1>1, <1>6 DEF Collect, Return, Failure, Piped
  <1>7. CASE SpeakNothing \/ SpawnFails \/ WriteFails
    BY <1>1, <1>7 DEF SpeakNothing, SpawnFails, WriteFails, Return, Failure, Silence, wav
  <1>8. CASE SpawnPiper \/ WriteText \/ CloseStdin \/ ReadOutput
    BY <1>1, <1>8 DEF SpawnPiper, WriteText, CloseStdin, ReadOutput, wav
  <1>9. CASE PiperReads \/ PiperWrites \/ PiperEnds \/ PiperDies
    BY <1>1, <1>9 DEF PiperReads, PiperWrites, PiperEnds, PiperDies, ours, wav
  <1>10. CASE UNCHANGED vars
    BY <1>1, <1>10 DEF vars, wav
  <1> QED
    BY <1>2, <1>3, <1>4, <1>5, <1>6, <1>7, <1>8, <1>9, <1>10 DEF Next, OurStep, PiperStep

(* The samples espeak's file yields are the body of its data chunk in the  *)
(* format of the chunks before it, for every file that is laid out as RIFF *)
(* says, cut off anywhere: the walk steps from chunk to chunk, over the    *)
(* byte that pads an odd size.                                             *)
THEOREM Walked == Spec => []WavAsWritten
  <1>1. Init => WalkInv
    BY InitInv DEF Init, WalkInv, Walk, Found, Nothing
  <1>2. WalkInv /\ [Next]_vars => WalkInv'
    BY NextInv, NextWalk DEF WalkInv
  <1>3. WalkInv => WavAsWritten
    BY EndOfWalk DEF WalkInv, SynthesisInv, Found, WavAsWritten
  <1> QED BY <1>1, <1>2, <1>3, PTL DEF Spec

-----------------------------------------------------------------------------
(* The two processes wait for each other. *)

(* synthesize() in a write to a full pipe, or in a read from an empty one  *)
(* that piper has not closed; piper in a read or in a write.               *)
WeWait ==
    \/ at = "writing" /\ unsent > 0 /\ child = "running" /\ stdin = PipeSize
    \/ at = "reading" /\ stdout = 0 /\ child = "running"

PiperWaits ==
    \/ owed = 0 /\ stdin = 0 /\ open
    \/ owed > 0 /\ stdout = PipeSize

LEMMA ClosesFirst == Spec => [](at = "reading" => ~open)
  <1> DEFINE Closed == at = "reading" => ~open
  <1>1. Init => Closed
    BY DEF Init
  <1>2. Closed /\ [Next]_vars => Closed'
    BY DEF Next, OurStep, PiperStep, SpeakNothing, SpawnFails, SpawnPiper, EspeakRuns, WriteText,
           WriteFails, CloseStdin, ReadOutput, Collect, ReadFmt, SkipChunk, ReadData, NoData,
           AtChunk, PiperReads, PiperWrites, PiperEnds, PiperDies, Return, pipes, ours, vars
  <1> QED BY <1>1, <1>2, PTL DEF Spec

(* They wait for each other only when the text is longer than the pipe:    *)
(* synthesize() writes all of it before it reads, and piper, whose samples *)
(* nobody reads, takes no more of it (write_all, then wait_with_output).   *)
THEOREM Waiting ==
    Spec => [](WeWait /\ PiperWaits =>
                 /\ text > PipeSize
                 /\ at = "writing" /\ stdin = PipeSize /\ stdout = PipeSize)
  <1> SUFFICES ASSUME SynthesisInv, at = "reading" => ~open, WeWait, PiperWaits
               PROVE  /\ text > PipeSize
                      /\ at = "writing" /\ stdin = PipeSize /\ stdout = PipeSize
    BY Invariance, ClosesFirst, PTL
  <1>1. /\ PipeSize \in Nat \ {0} /\ Expansion \in Nat /\ text \in Nat /\ unsent \in 0 .. text
        /\ stdin \in Nat /\ owed \in Nat /\ stdout \in Nat /\ output \in Nat
        /\ (text - unsent - stdin) * Expansion = owed + stdout + output
    BY EnginesAssumption DEF SynthesisInv, TypeOK, Conserved
  <1>2. at = "writing" /\ unsent > 0 /\ stdin = PipeSize /\ owed > 0 /\ stdout = PipeSize
    BY <1>1 DEF WeWait, PiperWaits
  <1> DEFINE n == text - unsent - stdin
  <1>3. n > 0
    <2>1. n \in Int /\ n * Expansion > 0
      BY <1>1, <1>2
    <2> HIDE DEF n
    <2>2. CASE n <= 0
      <3> DEFINE m == -n
      <3>1. m \in Nat /\ n = -m
        BY <2>1, <2>2
      <3> HIDE DEF m
      <3>2. m * Expansion \in Nat
        BY <1>1, <3>1
      <3>3. (-m) * Expansion = -(m * Expansion)
        BY <1>1, <3>1
      <3>4. n * Expansion = -(m * Expansion)
        BY <3>1, <3>3
      <3> QED BY <2>1, <3>2, <3>4
    <2> QED BY <2>1, <2>2
  <1>4. text > PipeSize
    BY <1>1, <1>2, <1>3
  <1> QED BY <1>2, <1>4
=============================================================================
