------------------------------ MODULE MCSanNvme -----------------------------
(* Instances of SanNvme for TLC; the constants are given in the .cfg files. *)
EXTENDS SanNvme
=============================================================================
