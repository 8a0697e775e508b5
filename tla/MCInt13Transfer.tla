--------------------------- MODULE MCInt13Transfer ---------------------------
(* INT 13 reads for TLC: a hard disk, and a CD-ROM image on 512-byte blocks. *)
EXTENDS Int13Transfer

MCDevices == {[scale |-> 1, catalog |-> 0], [scale |-> 4, catalog |-> 5]}
=============================================================================
