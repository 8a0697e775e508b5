----------------------------- MODULE MCOptionRom -----------------------------
(* The option ROM in memory, for TLC. *)
EXTENDS OptionRom
=============================================================================
