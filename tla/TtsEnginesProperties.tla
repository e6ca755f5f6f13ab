------------------------ MODULE TtsEnginesProperties ------------------------
(***************************************************************************)
(* What synthesize() owes the main loop: an end, and the whole reply.      *)
(***************************************************************************)
EXTENDS TtsEngines

(* The samples of the text piper has read are owed, in the pipe or read.   *)
Conserved == (text - unsent - stdin) * Expansion = owed + stdout + output

(* The variables hold values of their types, and the pipes no more than    *)
(* fits: no piece of text or sample is made up or lost inside them.        *)
TypeOK ==
    /\ at \in {"idle", "writing", "reading", "walking", "returned"}
    /\ text \in Texts \cup {0} /\ unsent \in 0 .. text
    /\ stdin \in 0 .. PipeSize /\ open \in BOOLEAN
    /\ child \in {"none", "running", "succeeded", "failed"}
    /\ owed \in 0 .. Expansion /\ stdout \in 0 .. PipeSize /\ output \in Nat
    /\ file \in Files \cup {NoFile} /\ pos \in Nat
    /\ Conserved

(* Samples of piper are returned only when they are those of the whole     *)
(* text: a piper that dies half way yields an error (the exit status).     *)
WholeReply ==
    result.kind = "piper" => result.pieces = text * Expansion

(* synthesize() comes to an end, whatever piper and espeak do, when the    *)
(* text fits into the pipe: writing all of it before reading is safe only  *)
(* because nothing needs to be read for the write to end.  run() waits in  *)
(* this call with everything else it does.                                 *)
SynthesisEnds ==
    at # "idle" /\ text <= PipeSize ~> at = "returned"

(* Without that condition the two wait for each other in one way only: the *)
(* text does not fit into the pipe, and both pipes are full.               *)
StuckOnLongText ==
    at \notin {"idle", "returned"} /\ ~ENABLED OurStep /\ ~ENABLED PiperStep =>
      /\ text > PipeSize
      /\ at = "writing" /\ stdin = PipeSize /\ stdout = PipeSize

(* The format a reader that knows the layout finds for the i-th chunk: of  *)
(* the last complete fmt chunk of at least 16 bytes before it.             *)
FormatBefore(f, i) ==
    LET fmts == {j \in 1 .. i - 1 : f.chunks[j].id = "fmt" /\ f.chunks[j].size >= 16}
    IN  IF fmts = {} THEN DefaultFormat
        ELSE f.chunks[CHOOSE j \in fmts : \A k \in fmts : k <= j].format

(* The index of the first data chunk whose header was written. *)
DataChunks(f) == {i \in DOMAIN f.chunks : f.chunks[i].id = "data" /\ Start(f, i) + 8 <= f.length}
FirstData(f) == CHOOSE i \in DataChunks(f) : \A j \in DataChunks(f) : i <= j

(* The samples returned are the body of the file's data chunk, cut at the  *)
(* end of the file and read in the file's format, behind chunks of any     *)
(* kind, odd sizes included; and a file that has such a body is not        *)
(* refused (the walk over the RIFF chunks in espeak.rs).                   *)
WavAsWritten ==
    /\ result.kind = "espeak" =>
         /\ DataChunks(file) # {}
         /\ LET i == FirstData(file)
                start == Start(file, i) + 8
            IN  result = Wav(start, Smaller(file.chunks[i].size, file.length - start),
                             FormatBefore(file, i))
    /\ at = "walking" /\ ~AtChunk => DataChunks(file) = {}
=============================================================================
