--------------------------- MODULE MCAudioCapture ---------------------------
(* A ring that wraps twice, and blocks shorter and longer than a frame. *)
EXTENDS AudioCaptureProperties

MCLanguages == {"en"}
MCEngines == {"piper"}
MCBlocks == {1, 3}
=============================================================================
