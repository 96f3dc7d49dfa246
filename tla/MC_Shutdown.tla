---------------------------- MODULE MC_Shutdown ----------------------------
(* Shutdown with two workers and two messages, one of them invalid.      *)
EXTENDS Shutdown
=============================================================================
