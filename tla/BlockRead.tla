------------------------------ MODULE BlockRead ------------------------------
(***************************************************************************)
(* What a queue pair promises its caller: one command at a time, which     *)
(* either brings the block that was asked for or is reported as failed.    *)
(***************************************************************************)
CONSTANTS Lbas, NoData

VARIABLES mayFail, state, lba, data

vars == <<mayFail, state, lba, data>>

Init ==
  /\ mayFail \in BOOLEAN
  /\ state = "idle"
  /\ lba \in Lbas
  /\ data = NoData

Request(b) ==
  /\ state # "busy"
  /\ state' = "busy"
  /\ lba' = b
  /\ data' = NoData
  /\ UNCHANGED mayFail

Answer ==
  /\ state = "busy"
  /\ state' = "done"
  /\ data' = lba
  /\ UNCHANGED <<mayFail, lba>>

Fail ==
  /\ mayFail
  /\ state = "busy"
  /\ state' = "failed"
  /\ UNCHANGED <<mayFail, lba, data>>

Next == (\E b \in Lbas : Request(b)) \/ Answer \/ Fail

Spec == Init /\ [][Next]_vars

FairSpec == Spec /\ WF_vars(Answer \/ Fail)
=============================================================================
