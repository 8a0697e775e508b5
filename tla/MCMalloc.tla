------------------------------ MODULE MCMalloc -------------------------------
(* A heap of six and a half units that starts in the middle of one, and    *)
(* requests of a unit, of two, and of so many that a size_t overflows.     *)
EXTENDS Malloc

MCSizes == {3, 4, 8, SizeLimit - 2, SizeLimit - 1}
=============================================================================
