---------------------------- MODULE MCTtsEngines ----------------------------
(***************************************************************************)
(* Texts that fit into a pipe of two pieces, and one that does not even    *)
(* after piper has taken the pieces whose samples its stdout holds.  Files *)
(* of up to three chunks, complete or cut off at one of a few places.      *)
(***************************************************************************)
EXTENDS TtsEnginesProperties

MCTexts == {1, 2, 6}

Fmt(size, bits) == [id |-> "fmt", size |-> size, format |-> [rate |-> 16000, bits |-> bits]]

MCChunks == {Fmt(16, 16), Fmt(18, 8), Fmt(17, 24), Fmt(14, 16),
             [id |-> "other", size |-> 3],
             [id |-> "data", size |-> 0], [id |-> "data", size |-> 5]}

MCFiles ==
    {[riff |-> TRUE, length |-> n, chunks |-> c] :
        n \in {10, 12, 20, 31, 45, 62, 90},
        c \in UNION {[1 .. k -> MCChunks] : k \in 0 .. 3}}
    \cup {[riff |-> FALSE, length |-> 90, chunks |-> <<>>]}
=============================================================================
