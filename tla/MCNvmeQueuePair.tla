--------------------------- MODULE MCNvmeQueuePair ---------------------------
(* Small instances of NvmeQueuePair, with lengths that are powers of two   *)
(* and statuses whose code is 0 for success only.                          *)
EXTENDS NvmeQueuePair

MediaError == [sct |-> 2, sc |-> 129]

MCStatuses == {Success, MediaError}
=============================================================================
