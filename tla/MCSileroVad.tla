---------------------------- MODULE MCSileroVad -----------------------------
(* The detector for TLC; languages and engines play no part in it. *)
EXTENDS SileroVadProperties

MCLanguages == {"en"}
MCEngines == {"piper"}
=============================================================================
