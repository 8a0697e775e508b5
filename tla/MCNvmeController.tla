-------------------------- MODULE MCNvmeController --------------------------
(* The controller for TLC. *)
EXTENDS NvmeController
=============================================================================
