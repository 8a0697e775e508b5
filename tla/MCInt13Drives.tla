---------------------------- MODULE MCInt13Drives ----------------------------
(* INT 13 drive numbers for TLC. *)
EXTENDS Int13Drives
=============================================================================
