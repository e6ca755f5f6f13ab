----------------------------- MODULE TtsEngines -----------------------------
(***************************************************************************)
(* One synthesize() of either text-to-speech engine; calls share nothing.  *)
(* Piper reads the text from one pipe and writes its samples to another    *)
(* while it reads; synthesize() writes the whole text before it reads a    *)
(* byte.  espeak gets the text as an argument, and its WAV file is walked  *)
(* chunk by chunk.                                                         *)
(*                                                                         *)
(* Text and samples are counted in pieces of a pipe's size; a file is its  *)
(* chunks, laid out as RIFF says, and the length that was really written.  *)
(* The two programs are external.  stderr is a pipe of piper's too, and    *)
(* fills like stdout.                                                      *)
(***************************************************************************)
EXTENDS Integers, Sequences, FiniteSets

CONSTANTS
    Texts,       \* lengths of the texts to speak, in pieces
    PipeSize,    \* pieces a pipe holds
    Expansion,   \* pieces of samples piper makes of a piece of text
    Files,       \* what espeak may write
    DefaultRate  \* ESPEAK_SAMPLE_RATE

ASSUME EnginesAssumption ==
    /\ Texts \subseteq Nat /\ PipeSize \in Nat \ {0} /\ Expansion \in Nat

ASSUME FilesAssumption ==
    \A f \in Files :
      /\ f.length \in Nat
      /\ Len(f.chunks) \in Nat /\ DOMAIN f.chunks = 1 .. Len(f.chunks)
      /\ \A i \in DOMAIN f.chunks : f.chunks[i].size \in Nat

VARIABLES
    at,       \* where synthesize() stands
    text,     \* length of the text
    unsent,   \* of it, not yet written to the pipe
    stdin,    \* pieces in piper's stdin; `open` at our end
    open,
    child,    \* "none", "running", "succeeded" or "failed"
    owed,     \* samples piper owes for the text it has read
    stdout,   \* pieces in its stdout
    output,   \* pieces we have read of it
    file,     \* what espeak wrote
    pos,      \* where the walk stands in it
    format,   \* sample_rate and bits_per_sample
    result    \* what synthesize() returned

vars == <<at, text, unsent, stdin, open, child, owed, stdout, output, file, pos,
          format, result>>
ours == <<at, text, unsent, open, output>>
wav == <<file, pos, format>>
pipes == <<text, unsent, stdin, open, child, owed, stdout, output>>

NoFile == [riff |-> FALSE, length |-> 0, chunks |-> <<>>]
DefaultFormat == [rate |-> DefaultRate, bits |-> 16]

Nothing == [kind |-> "none"]
Silence == [kind |-> "silence"]
Failure == [kind |-> "error"]
Piped(n) == [kind |-> "piper", pieces |-> n]
Wav(start, len, f) == [kind |-> "espeak", start |-> start, len |-> len, format |-> f]

Init ==
    /\ at = "idle" /\ result = Nothing
    /\ text = 0 /\ unsent = 0 /\ stdin = 0 /\ open = FALSE
    /\ child = "none" /\ owed = 0 /\ stdout = 0 /\ output = 0
    /\ file = NoFile /\ pos = 0 /\ format = DefaultFormat

Return(r) == at' = "returned" /\ result' = r

-----------------------------------------------------------------------------
(* PiperTts::synthesize. *)

SpeakNothing ==
    /\ at = "idle"
    /\ Return(Silence)
    /\ UNCHANGED <<pipes, wav>>

SpawnFails ==
    /\ at = "idle"
    /\ Return(Failure)
    /\ UNCHANGED <<pipes, wav>>

SpawnPiper ==
    /\ at = "idle"
    /\ at' = "writing"
    /\ text' \in Texts \ {0} /\ unsent' = text'
    /\ stdin' = 0 /\ open' = TRUE
    /\ child' = "running" /\ owed' = 0 /\ stdout' = 0
    /\ output' = 0
    /\ UNCHANGED <<wav, result>>

WriteText ==
    /\ at = "writing" /\ unsent > 0
    /\ child = "running" /\ stdin < PipeSize
    /\ stdin' = stdin + 1 /\ unsent' = unsent - 1
    /\ UNCHANGED <<at, text, open, child, owed, stdout, output, wav, result>>

(* A broken pipe: the error returns without waiting for the child. *)
WriteFails ==
    /\ at = "writing" /\ unsent > 0 /\ child # "running"
    /\ open' = FALSE
    /\ Return(Failure)
    /\ UNCHANGED <<text, unsent, stdin, child, owed, stdout, output, wav>>

CloseNothing ==  \* faulty: our end of the pipe stays open
    /\ at = "writing" /\ unsent = 0
    /\ at' = "reading"
    /\ UNCHANGED <<text, unsent, open, stdin, child, owed, stdout, output, wav, result>>

CloseStdin ==
    /\ at = "writing" /\ unsent = 0
    /\ open' = FALSE
    /\ at' = "reading"
    /\ UNCHANGED <<text, unsent, stdin, child, owed, stdout, output, wav, result>>

ReadAfterExit ==  \* faulty: waits for the child before it reads
    /\ at = "reading" /\ stdout > 0 /\ child # "running"
    /\ stdout' = stdout - 1 /\ output' = output + 1
    /\ UNCHANGED <<at, text, unsent, open, stdin, child, owed, wav, result>>

(* wait_with_output() reads both pipes to their ends, then waits. *)
ReadOutput ==
    /\ at = "reading" /\ stdout > 0
    /\ stdout' = stdout - 1 /\ output' = output + 1
    /\ UNCHANGED <<at, text, unsent, open, stdin, child, owed, wav, result>>

CollectAnyStatus ==  \* faulty: the exit status is not looked at
    /\ at = "reading" /\ stdout = 0
    /\ child # "running"
    /\ Return(Piped(output))
    /\ UNCHANGED <<pipes, wav>>

Collect ==
    /\ at = "reading" /\ stdout = 0
    /\ child # "running"
    /\ Return(IF child = "succeeded" THEN Piped(output) ELSE Failure)
    /\ UNCHANGED <<pipes, wav>>

(* The program piper. *)
PiperReads ==
    /\ child = "running" /\ owed = 0 /\ stdin > 0
    /\ stdin' = stdin - 1 /\ owed' = Expansion
    /\ UNCHANGED <<ours, child, stdout, wav, result>>

PiperWrites ==
    /\ child = "running" /\ owed > 0 /\ stdout < PipeSize
    /\ stdout' = stdout + 1 /\ owed' = owed - 1
    /\ UNCHANGED <<ours, stdin, child, wav, result>>

PiperEnds ==
    /\ child = "running" /\ owed = 0 /\ stdin = 0 /\ ~open
    /\ child' = "succeeded"
    /\ UNCHANGED <<ours, stdin, owed, stdout, wav, result>>

PiperDies ==
    /\ child = "running"
    /\ child' = "failed"
    /\ UNCHANGED <<ours, stdin, owed, stdout, wav, result>>

-----------------------------------------------------------------------------
(* EspeakTts::synthesize.  Command::output() drains the pipes while it     *)
(* waits: only how espeak ends, and what it wrote, matters.                *)

Smaller(a, b) == IF a < b THEN a ELSE b

(* Bytes a chunk of this size takes, its header of 8 included. *)
Unpadded(size) == 8 + size  \* faulty

Extent(size) == 8 + size + (size % 2)

EspeakRuns ==
    /\ at = "idle"
    /\ file' \in Files
    /\ pos' = 12
    /\ format' = DefaultFormat
    /\ IF file'.length < 12 \/ ~file'.riff
         THEN Return(Failure)
         ELSE at' = "walking" /\ UNCHANGED result
    /\ UNCHANGED pipes

(* Where the program that wrote the file put its i-th chunk. *)
Start(f, i) ==
    LET from[j \in 1 .. Len(f.chunks)] ==
            IF j = 1 THEN 12
            ELSE from[j - 1] + 8 + f.chunks[j - 1].size + (f.chunks[j - 1].size % 2)
    IN  from[i]

(* What the bytes at pos look like, read as the header of a chunk. *)
Chunk ==
    LET here == {i \in DOMAIN file.chunks : Start(file, i) = pos}
    IN  IF here = {} THEN [id |-> "junk", size |-> 0]
        ELSE file.chunks[CHOOSE i \in here : TRUE]

ChunkFits == pos + 8 + Chunk.size <= file.length

AtChunk == at = "walking" /\ pos + 8 <= file.length

Advance == pos' = pos + Extent(Chunk.size)

ReadFmt ==
    /\ AtChunk /\ Chunk.id = "fmt" /\ ChunkFits
    /\ format' = IF Chunk.size >= 16 THEN Chunk.format ELSE format
    /\ Advance
    /\ UNCHANGED <<at, pipes, file, result>>

SkipChunk ==
    /\ AtChunk
    /\ Chunk.id # "data" /\ ~(Chunk.id = "fmt" /\ ChunkFits)
    /\ Advance
    /\ UNCHANGED <<at, pipes, file, format, result>>

ReadData ==
    /\ AtChunk /\ Chunk.id = "data"
    /\ LET start == pos + 8
           len == Smaller(Chunk.size, file.length - start)
       IN  Return(IF len > 0 /\ format.bits \in {8, 16}
                  THEN Wav(start, len, format) ELSE Failure)
    /\ UNCHANGED <<pipes, wav>>

NoData ==
    /\ at = "walking" /\ ~AtChunk
    /\ Return(Failure)
    /\ UNCHANGED <<pipes, wav>>

-----------------------------------------------------------------------------
OurStep ==
    \/ WriteText \/ WriteFails \/ CloseStdin \/ ReadOutput \/ Collect
    \/ ReadFmt \/ SkipChunk \/ ReadData \/ NoData

PiperStep == PiperReads \/ PiperWrites \/ PiperEnds

Next ==
    \/ SpeakNothing \/ SpawnFails \/ SpawnPiper \/ EspeakRuns
    \/ OurStep
    \/ PiperStep \/ PiperDies

Spec == Init /\ [][Next]_vars

(* Both processes are scheduled; nobody has to speak, or to die. *)
FairSpec == Spec /\ WF_vars(OurStep) /\ WF_vars(PiperStep)
=============================================================================
