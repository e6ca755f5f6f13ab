----------------------------- MODULE MCBargeIn ------------------------------
(* Interruptible playbacks for TLC; the constants are numbers. *)
EXTENDS BargeInProperties
=============================================================================
