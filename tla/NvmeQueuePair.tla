---------------------------- MODULE NvmeQueuePair ----------------------------
(***************************************************************************)
(* One submission/completion queue pair of drivers/block/nvme.c and the    *)
(* controller at its other end.  The driver puts one command at a time in  *)
(* the submission queue, rings the doorbell and spins on the phase bit of  *)
(* the completion queue slot at its head.  The controller runs             *)
(* concurrently: it fetches, executes (DMA into nvme_dma_buffer) and posts *)
(* the completion, whose phase bit it writes last.                         *)
(*                                                                         *)
(* queue = "io" is the pair nvme_io_xfer uses: a failed command is         *)
(* submitted again, for ever.  queue = "admin" is the pair of the commands *)
(* sent while the controller is enabled: a failed command is an error.     *)
(*                                                                         *)
(* The contents of a block are named by the block's address, so a read of  *)
(* block b worked when the buffer holds b.                                 *)
(***************************************************************************)
EXTENDS Integers

CONSTANTS
  SqLen,     \* length of the submission queue
  CqLen,     \* length of the completion queue
  Queues,    \* the pairs looked at: "io", "admin" or both
  Lbas,      \* the block addresses that are read
  Statuses,  \* the completion statuses the device may give: [sct, sc]
  NoData     \* what is in the buffer when it is no block's contents

(* The lengths of the admin queues: a page of entries of 64 and 16 bytes.  *)
AdminSqLength == 64
AdminCqLength == 256

(* The length of both I/O queues: what the controller allows (CAP.MQES is  *)
(* one less), but at most a page of completions.                           *)
IoLength(mqes) == IF 1 + mqes > 256 THEN 256 ELSE 1 + mqes

(* Every length there can be: CAP.MQES is at least 1.                      *)
ASSUME LengthAssumption ==
  /\ SqLen \in 2..256
  /\ CqLen \in 2..256

ASSUME QueueAssumption == Queues \subseteq {"io", "admin"}

ASSUME DataAssumption == NoData \notin Lbas

Success == [sct |-> 0, sc |-> 0]

ASSUME StatusAssumption ==
  /\ Statuses \subseteq [sct: 0..7, sc: 0..255]
  /\ Success \in Statuses

VARIABLES
  queue,   \* which pair this is; it never changes
  sq,      \* struct nvme_sq: head, tail
  sqe,     \* the entries of the submission queue, in host memory
  cq,      \* struct nvme_cq: head, phase
  cqe,     \* the entries of the completion queue, in host memory
  dbl,     \* the last values written to the two doorbells
  ctrl,    \* the controller: its queue positions, its phase, its command
  buffer,  \* nvme_dma_buffer
  pc,      \* where the driver is
  lba,     \* the argument of the call being served
  got      \* the completion nvme_wait returned

driverVars == <<queue, sq, cq, pc, lba, got>>
vars == <<queue, sq, sqe, cq, cqe, dbl, ctrl, buffer, pc, lba, got>>

SqSlots == 0 .. SqLen - 1
CqSlots == 0 .. CqLen - 1
-----------------------------------------------------------------------------
(***************************************************************************)
(* The driver's index arithmetic.  Indices are at most 256, so nine bits   *)
(* are enough.                                                             *)
(***************************************************************************)

Bit(n, w) == (n \div w) % 2

AndBit(a, b, w) == IF Bit(a, w) = 1 /\ Bit(b, w) = 1 THEN w ELSE 0

BitAnd(a, b) ==
  AndBit(a, b, 1) + AndBit(a, b, 2) + AndBit(a, b, 4) + AndBit(a, b, 8)
    + AndBit(a, b, 16) + AndBit(a, b, 32) + AndBit(a, b, 64)
    + AndBit(a, b, 128) + AndBit(a, b, 256)

mask(length) == length - 1

NextIndexNoMask(i, length) == i + 1
NextIndex(i, length) == BitAnd(i + 1, mask(length))
-----------------------------------------------------------------------------
(***************************************************************************)
(* A cleared submission entry (memset) reads no block; a cleared           *)
(* completion entry has phase 0.                                           *)
(***************************************************************************)

ZeroSqe == [cid |-> 0, lba |-> NoData]

ZeroCqe == [sq_head |-> 0, cid |-> 0, status |-> Success, phase |-> 0]

nvme_error_cqe ==
  [sq_head |-> 65535, cid |-> 65535,
   status |-> [sct |-> 7, sc |-> 255], phase |-> 1]

nvme_init_sq ==
  /\ sqe = [i \in SqSlots |-> ZeroSqe]
  /\ sq = [head |-> 0, tail |-> 0]

nvme_init_cq ==
  /\ cqe = [i \in CqSlots |-> ZeroCqe]
  /\ cq = [head |-> 0, phase |-> 1]

ControllerReset ==
  /\ dbl = [sq |-> 0, cq |-> 0]
  /\ ctrl = [head |-> 0, tail |-> 0, phase |-> 1,
             state |-> "idle", sqe |-> ZeroSqe, status |-> Success]

Init ==
  /\ queue \in Queues
  /\ nvme_init_sq
  /\ nvme_init_cq
  /\ ControllerReset
  /\ buffer = NoData
  /\ pc = "ready"
  /\ lba \in Lbas
  /\ got = ZeroCqe
-----------------------------------------------------------------------------
(***************************************************************************)
(* The driver.                                                             *)
(***************************************************************************)

(* The caller asks for block b; nothing has been sent to the device yet.   *)
(* nvme_admin_identify clears its buffer first, nvme_io_xfer's caller does *)
(* not.                                                                    *)
Call(b) ==
  /\ pc \in {"ready", "done", "failed"}
  /\ lba' = b
  /\ pc' = "get"
  /\ buffer' = IF queue = "admin" THEN NoData ELSE buffer
  /\ UNCHANGED <<queue, sq, sqe, cq, cqe, dbl, ctrl, got>>

SqFull == NextIndex(sq.head, SqLen) = sq.tail

(* Mutant: the doorbell is rung before the entry is filled out.            *)
GetNextSqeRingsDoorbell ==
  /\ pc = "get"
  /\ sqe' = [sqe EXCEPT ![sq.tail] = [cid |-> sq.tail, lba |-> NoData]]
  /\ pc' = "fill"
  /\ dbl' = [dbl EXCEPT !.sq = NextIndex(sq.tail, SqLen)]
  /\ UNCHANGED <<queue, sq, cq, cqe, ctrl, buffer, lba, got>>

(* The caller goes on with the entry at the tail; with no entry, the admin *)
(* commands fail and nvme_io_xfer dereferences NULL.                       *)
nvme_get_next_sqe ==
  /\ pc = "get"
  /\ IF SqFull
     THEN /\ pc' = IF queue = "io" THEN "null" ELSE "failed"
          /\ UNCHANGED sqe
     ELSE /\ sqe' = [sqe EXCEPT ![sq.tail] = [cid |-> sq.tail, lba |-> NoData]]
          /\ pc' = "fill"
  /\ UNCHANGED <<queue, sq, cq, cqe, dbl, ctrl, buffer, lba, got>>

FillCommand ==
  /\ pc = "fill"
  /\ sqe' = [sqe EXCEPT ![sq.tail].lba = lba]
  /\ pc' = "commit"
  /\ UNCHANGED <<queue, sq, cq, cqe, dbl, ctrl, buffer, lba, got>>

nvme_commit_sqe ==
  /\ pc = "commit"
  /\ sq' = [sq EXCEPT !.tail = NextIndex(@, SqLen)]
  /\ dbl' = [dbl EXCEPT !.sq = sq'.tail]
  /\ pc' = "wait"
  /\ UNCHANGED <<queue, sqe, cq, cqe, ctrl, buffer, lba, got>>

(* The entry at the head carries the phase bit expected of a new one.      *)
nvme_poll_cq == cqe[cq.head].phase = cq.phase

(* Mutant: the time limit that is commented out in nvme_wait.              *)
WaitTimesOut ==
  /\ pc = "wait"
  /\ pc' = "consume"
  /\ UNCHANGED <<queue, sq, sqe, cq, cqe, dbl, ctrl, buffer, lba, got>>

(* The loop of nvme_wait ends; there is no other way out of it.            *)
nvme_wait ==
  /\ pc = "wait"
  /\ nvme_poll_cq
  /\ pc' = "consume"
  /\ UNCHANGED <<queue, sq, sqe, cq, cqe, dbl, ctrl, buffer, lba, got>>

(* The completion queue's phase after its head has moved to next.          *)
NextPhaseKept(next) == cq.phase
NextPhase(next) == IF next < cq.head THEN 1 - cq.phase ELSE cq.phase

(* The submission queue as the completion c reports it.                    *)
SqHeadIgnored(c) == sq
SqAfter(c) == [sq EXCEPT !.head = c.sq_head]

nvme_consume_cqe ==
  /\ pc = "consume"
  /\ pc' = "check"
  /\ IF ~nvme_poll_cq
     THEN /\ got' = nvme_error_cqe
          /\ UNCHANGED <<sq, cq, dbl>>
     ELSE LET next == NextIndex(cq.head, CqLen) IN
          /\ got' = cqe[cq.head]
          /\ cq' = [head |-> next, phase |-> NextPhase(next)]
          /\ sq' = SqAfter(cqe[cq.head])
          /\ dbl' = [dbl EXCEPT !.cq = next]
  /\ UNCHANGED <<queue, sqe, cqe, ctrl, buffer, lba>>

(* Only the status code is looked at, not the status code type.            *)
EveryCqeSuccess(c) == TRUE
nvme_is_cqe_success(c) == c.status.sc = 0

(* Mutant: a failed I/O command is given up.                               *)
CheckStatusNoRetry ==
  /\ pc = "check"
  /\ pc' = IF nvme_is_cqe_success(got) THEN "done" ELSE "failed"
  /\ UNCHANGED <<queue, sq, sqe, cq, cqe, dbl, ctrl, buffer, lba, got>>

(* Success is returned to the caller.  A failed I/O command is sent again; *)
(* a failed admin command is reported.                                     *)
CheckStatus ==
  /\ pc = "check"
  /\ pc' = IF nvme_is_cqe_success(got) THEN "done"
           ELSE IF queue = "io" THEN "get" ELSE "failed"
  /\ UNCHANGED <<queue, sq, sqe, cq, cqe, dbl, ctrl, buffer, lba, got>>

Driver ==
  \/ nvme_get_next_sqe
  \/ FillCommand
  \/ nvme_commit_sqe
  \/ nvme_wait
  \/ nvme_consume_cqe
  \/ CheckStatus
-----------------------------------------------------------------------------
(***************************************************************************)
(* The controller.  Its indices wrap at the length it was given.           *)
(***************************************************************************)

Succ(i, length) == IF i + 1 = length THEN 0 ELSE i + 1

ControllerFetch ==
  /\ ctrl.state = "idle"
  /\ ctrl.head # dbl.sq
  /\ ctrl' = [ctrl EXCEPT !.state = "fetched",
                          !.sqe = sqe[ctrl.head],
                          !.head = Succ(@, SqLen)]
  /\ UNCHANGED <<sqe, cqe, dbl, buffer, driverVars>>

(* The data goes to the buffer, whole if the command succeeds, otherwise   *)
(* possibly not at all, then the first three words of the completion.      *)
ControllerExecute(s) ==
  /\ ctrl.state = "fetched"
  /\ Succ(ctrl.tail, CqLen) # dbl.cq
  /\ ctrl' = [ctrl EXCEPT !.state = "executed", !.status = s]
  /\ buffer' \in IF s = Success THEN {ctrl.sqe.lba} ELSE {buffer, NoData}
  /\ cqe' = [cqe EXCEPT ![ctrl.tail].sq_head = ctrl.head]
  /\ UNCHANGED <<sqe, dbl, driverVars>>

(* The last word: command identifier, status and phase bit.                *)
ControllerPost ==
  /\ ctrl.state = "executed"
  /\ cqe' = [cqe EXCEPT ![ctrl.tail] =
               [sq_head |-> @.sq_head, cid |-> ctrl.sqe.cid,
                status |-> ctrl.status, phase |-> ctrl.phase]]
  /\ ctrl' = [ctrl EXCEPT !.state = "idle",
                          !.tail = Succ(@, CqLen),
                          !.phase = IF Succ(ctrl.tail, CqLen) = 0
                                    THEN 1 - @ ELSE @]
  /\ UNCHANGED <<sqe, dbl, buffer, driverVars>>

Controller ==
  \/ ControllerFetch
  \/ \E s \in Statuses : ControllerExecute(s)
  \/ ControllerPost

Next ==
  \/ \E b \in Lbas : Call(b)
  \/ Driver
  \/ Controller

Spec == Init /\ [][Next]_vars

(* The driver's loop runs on the only processor and nothing preempts it.   *)
(* The device answers, and does not fail the same command for ever.        *)
FairSpec ==
  /\ Spec
  /\ WF_vars(Driver)
  /\ WF_vars(Controller)
  /\ SF_vars(ControllerExecute(Success))
-----------------------------------------------------------------------------
(* Every variable has its type: in particular head and tail stay inside    *)
(* the rings, whatever the controller reports (struct nvme_sq, nvme_cq).   *)
TypeOK ==
  /\ queue \in {"io", "admin"}
  /\ sq \in [head: SqSlots, tail: SqSlots]
  /\ sqe \in [SqSlots -> [cid: SqSlots, lba: Lbas \cup {NoData}]]
  /\ cq \in [head: CqSlots, phase: {0, 1}]
  /\ cqe \in [CqSlots -> [sq_head: SqSlots, cid: SqSlots,
                          status: Statuses, phase: {0, 1}]]
  /\ dbl \in [sq: SqSlots, cq: CqSlots]
  /\ ctrl \in [head: SqSlots, tail: CqSlots, phase: {0, 1},
               state: {"idle", "fetched", "executed"},
               sqe: [cid: SqSlots, lba: Lbas \cup {NoData}],
               status: Statuses]
  /\ buffer \in Lbas \cup {NoData}
  /\ pc \in {"ready", "get", "null", "fill", "commit", "wait", "consume",
             "check", "done", "failed"}
  /\ lba \in Lbas
  /\ got \in [sq_head: SqSlots, cid: SqSlots, status: Statuses, phase: {0, 1}]

(* nvme_io_xfer uses the entry nvme_get_next_sqe returns without looking   *)
(* whether it is NULL (line 592): the queue must never look full to it.    *)
NoNullSqe == pc # "null"

(* The phase bit is exact: nvme_poll_cq sees an entry as new if and only   *)
(* if the controller has posted it and the driver has not consumed it,     *)
(* whatever an earlier pass over the ring left in the slot.                *)
PollExact == nvme_poll_cq <=> cq.head # ctrl.tail

(* When a read returns to its caller the buffer holds the block that was   *)
(* asked for: no completion of an earlier command or of a failed attempt   *)
(* is taken for this one.                                                  *)
ReadReturnsBlock == (pc = "done") => (buffer = lba)

(* The driver never looks at the command identifier of a completion; the   *)
(* one it consumes is nevertheless that of the command it last submitted.  *)
CompletionIsOurs ==
  (pc = "check") => NextIndex(got.cid, SqLen) = sq.tail

(* The entries the controller has been told of and has not fetched.        *)
Unfetched ==
  IF ctrl.head <= dbl.sq THEN {i \in SqSlots : ctrl.head <= i /\ i < dbl.sq}
  ELSE {i \in SqSlots : ctrl.head <= i \/ i < dbl.sq}

(* A submission entry is never rewritten between the doorbell and the      *)
(* controller's fetch of it.                                               *)
SubmittedEntriesStable ==
  [][\A i \in Unfetched : sqe'[i] = sqe[i]]_vars

(* The caller sees the driver's progress only as idle, busy, done, failed, *)
(* and the data only once the call has returned.                           *)
Abstract == INSTANCE BlockRead WITH
  mayFail <- queue = "admin",
  state <- CASE pc = "ready" -> "idle"
             [] pc = "done" -> "done"
             [] pc = "failed" -> "failed"
             [] OTHER -> "busy",
  data <- IF pc = "done" THEN buffer ELSE NoData

(* A queue pair with a working device does what BlockRead says of a        *)
(* device that answers: each call returns with the block it asked for or,  *)
(* on the admin queue, with an error.                                      *)
ImplementsBlockRead == Abstract!FairSpec
=============================================================================
