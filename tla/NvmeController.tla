--------------------------- MODULE NvmeController ---------------------------
(***************************************************************************)
(* Opening the NVMe controller (nvme_open_uri and nvme_controller_enable   *)
(* of drivers/block/nvme.c): the controller is switched off, its admin     *)
(* queues are allocated, it is switched on, identified, given I/O queues   *)
(* and its first namespace is probed.  Every error path is taken, and the  *)
(* device is opened again each time the SAN layer resets it.               *)
(*                                                                         *)
(* Where the code writes through a NULL pointer, follows a pointer nobody  *)
(* assigned, or passes memory of malloc_phys to free(), what happens next  *)
(* depends on memory the model does not have: pc becomes "undefined", and  *)
(* no property says anything from there on.                                *)
(*                                                                         *)
(* The subject is memory: which regions are allocated, which of them the   *)
(* controller knows of, and what it writes to by DMA.  The exchange of one *)
(* command through a queue pair is NvmeQueuePair's subject; here a command *)
(* is handed over and answered.                                            *)
(***************************************************************************)
EXTENDS Naturals

CONSTANT MaxRegions     \* bound: the regions the heap has room for

ASSUME RegionsAssumption == MaxRegions \in Nat \ {0}

Regions == 1 .. MaxRegions
NULL == 0
Pointers == Regions \cup {NULL}
Unset == MaxRegions + 1     \* what malloc left in a field nobody assigned

VARIABLES
    pc,          \* the next step of the driver; "closed" and "open" between
                 \* calls, "undefined" once anything may happen
    mem,         \* what each region is allocated for, or "free"
    ctrl,        \* struct nvme_ctrl: its queues and its namespace
    id,          \* the identify buffer of the command in progress
    dma_buffer,  \* nvme_dma_buffer
    hw,          \* the controller: registers, its I/O queues, its command
    wild         \* what the driver did with pointers it must not use so

vars == <<pc, mem, ctrl, id, dma_buffer, hw, wild>>

NoCommand == [op |-> "none", prp |-> NULL]

Init ==
    /\ pc = "closed"
    /\ mem = [r \in Regions |-> "free"]
    /\ ctrl = [admin_cq |-> Unset, admin_sq |-> Unset,
               io_cq |-> Unset, io_sq |-> Unset, ns |-> Unset]
    /\ id = NULL
    /\ dma_buffer = NULL
    /\ hw = [en |-> FALSE, rdy |-> FALSE, asq |-> NULL, acq |-> NULL,
             sq |-> NULL, cq |-> NULL, io_cq |-> NULL, io_sq |-> NULL,
             cmd |-> NoCommand, status |-> "none", stray |-> FALSE]
    /\ wild = {}

-----------------------------------------------------------------------------
(* Memory.  An allocation may fail although a region is free.              *)

FreeRegions == {r \in Regions : mem[r] = "free"}

Allocations == {NULL} \cup {r \in FreeRegions : \A q \in FreeRegions : r <= q}

Marked(m, r, use) == IF r = NULL THEN m ELSE [m EXCEPT ![r] = use]

\* dma_free: free_phys with the size that was allocated.
Released(m, r) == IF r \in Regions THEN [m EXCEPT ![r] = "free"] ELSE m

\* The driver has done f, which the code below it does not provide for.
Undefined(f) ==
    /\ pc' = "undefined"
    /\ wild' = wild \cup {f}

\* free() of a queue that dma_alloc took from malloc_phys.  The word in front of
\* the queue is taken for the size of the block, and as many bytes, from that word
\* on, go to the free list, whoever they belong to.
FreeQueue == Undefined("free")

-----------------------------------------------------------------------------
(* The driver, up to the first admin command.                              *)

\* ctrl comes from malloc, which may fail and does not clear what it returns; it is
\* written to untested.  Without the NVMe command set the controller is left alone.
nvme_open_uri ==
    /\ pc = "closed"
    /\ ctrl' = [admin_cq |-> Unset, admin_sq |-> Unset,
                io_cq |-> Unset, io_sq |-> Unset, ns |-> Unset]
    /\ \E p \in Allocations :
          IF p = NULL
          THEN Undefined("ctrl") /\ UNCHANGED mem
          ELSE /\ mem' = Marked(mem, p, "ctrl")
               /\ pc' \in {"closed", "disable"}
               /\ UNCHANGED wild
    /\ UNCHANGED <<id, dma_buffer, hw>>

\* nvme_controller_enable: "Turn the controller off."
Disable ==
    /\ pc = "disable"
    /\ hw' = [hw EXCEPT !.en = FALSE]
    /\ pc' = "admin_cq"
    /\ UNCHANGED <<mem, ctrl, id, dma_buffer, wild>>

\* The common part of nvme_init_cq and nvme_init_sq.  The memory is cleared before
\* the pointer is tested: without memory the start of the program is, which is
\* linked to address 0.
InitQueue(p, which, next) ==
    IF p = NULL
    THEN Undefined("memset") /\ UNCHANGED <<mem, ctrl>>
    ELSE /\ mem' = Marked(mem, p, which)
         /\ ctrl' = [ctrl EXCEPT ![which] = p]
         /\ pc' = next
         /\ UNCHANGED wild

InitAdminCqNoWait ==
    /\ pc = "admin_cq"
    /\ \E p \in Allocations : InitQueue(p, "admin_cq", "admin_sq")
    /\ UNCHANGED <<id, dma_buffer, hw>>

\* nvme_wait_csts_rdy ( ctrl, 0 ) has returned.
InitAdminCq ==
    /\ pc = "admin_cq"
    /\ ~hw.rdy
    /\ \E p \in Allocations : InitQueue(p, "admin_cq", "admin_sq")
    /\ UNCHANGED <<id, dma_buffer, hw>>

\* With both queues allocated the controller is told of them and switched on.
InitAdminSq ==
    /\ pc = "admin_sq"
    /\ \E p \in Allocations :
          /\ InitQueue(p, "admin_sq", "identify")
          /\ hw' = IF p = NULL THEN hw
                   ELSE [hw EXCEPT !.asq = p, !.acq = ctrl.admin_cq, !.en = TRUE]
    /\ UNCHANGED <<id, dma_buffer>>

-----------------------------------------------------------------------------
(* The driver, from the first admin command on.                            *)

Submit(op, prp) == hw' = [hw EXCEPT !.cmd = [op |-> op, prp |-> prp],
                                    !.status = "none"]

Completed == hw.status # "none"
Succeeded == hw.status = "success"

\* The error exits, of which err_destroy_admin_sq and err_destroy_admin_cq are the
\* last: the queues made so far go to nvme_destroy_sq and nvme_destroy_cq, and the
\* controller stays switched on.
EnableFailed == FreeQueue /\ UNCHANGED ctrl

\* nvme_wait_csts_rdy ( ctrl, 1 ) has returned; nvme_admin_identify_ctrl begins.
IdentifyCtrl ==
    /\ pc = "identify"
    /\ hw.rdy
    /\ \E p \in Allocations :
          IF p = NULL
          THEN EnableFailed /\ UNCHANGED <<mem, id, hw>>
          ELSE /\ mem' = Marked(mem, p, "identify")
               /\ id' = p
               /\ Submit("identify", p)
               /\ pc' = "identified"
               /\ UNCHANGED <<ctrl, wild>>
    /\ UNCHANGED dma_buffer

IdentifyRetries ==
    /\ pc = "identified"
    /\ Completed
    /\ id' = NULL
    /\ mem' = Released(mem, id)
    /\ pc' = IF Succeeded THEN "io_cq" ELSE "identify"
    /\ UNCHANGED <<ctrl, dma_buffer, hw, wild>>

\* The command failed, or the controller has no namespaces, or it has.
IdentifyCtrlDone ==
    /\ pc = "identified"
    /\ Completed
    /\ id' = NULL
    /\ mem' = Released(mem, id)
    /\ \/ EnableFailed
       \/ /\ Succeeded
          /\ pc' = "io_cq"
          /\ UNCHANGED <<ctrl, wild>>
    /\ UNCHANGED <<dma_buffer, hw>>

nvme_create_io_cq ==
    /\ pc = "io_cq"
    /\ \E p \in Allocations :
          /\ InitQueue(p, "io_cq", "io_sq")
          /\ IF p = NULL THEN UNCHANGED hw ELSE Submit("create_cq", p)
    /\ UNCHANGED <<id, dma_buffer>>

nvme_create_io_sq ==
    /\ pc = "io_sq"
    /\ Completed
    /\ \/ ~Succeeded /\ EnableFailed /\ UNCHANGED <<mem, hw>>
       \/ /\ Succeeded
          /\ \E p \in Allocations :
                /\ InitQueue(p, "io_sq", "io_queues")
                /\ IF p = NULL THEN UNCHANGED hw ELSE Submit("create_sq", p)
    /\ UNCHANGED <<id, dma_buffer>>

ProbeDespiteFailure ==
    /\ pc = "io_queues"
    /\ Completed
    /\ \E p \in Allocations \ {NULL} :
          /\ mem' = Marked(mem, p, "identify")
          /\ id' = p
          /\ Submit("identify", p)
          /\ pc' = "probe"
    /\ UNCHANGED <<ctrl, dma_buffer, wild>>

\* nvme_create_io_queues returns, and nvme_probe_ns asks for its buffer.  Without
\* one it gives up, and the controller is taken for initialised all the same.
nvme_probe_ns ==
    /\ pc = "io_queues"
    /\ Completed
    /\ \/ ~Succeeded /\ EnableFailed /\ UNCHANGED <<mem, id, hw>>
       \/ /\ Succeeded
          /\ \E p \in Allocations :
                IF p = NULL
                THEN pc' = "open" /\ UNCHANGED <<mem, id, hw>>
                ELSE /\ mem' = Marked(mem, p, "identify")
                     /\ id' = p
                     /\ Submit("identify", p)
                     /\ pc' = "probe"
          /\ UNCHANGED <<ctrl, wild>>
    /\ UNCHANGED dma_buffer

ProbeKeepsBuffer ==
    /\ pc = "probe"
    /\ Completed
    /\ pc' = "open"
    /\ id' = NULL
    /\ UNCHANGED <<mem, ctrl, dma_buffer, hw, wild>>

\* The rest of nvme_probe_ns: the command failed, or the namespace is inactive or
\* has a format it does not support; or the bounce buffer or the namespace cannot
\* be allocated; or its blocks are larger than a page; or all is well.
ProbeNsDone ==
    /\ pc = "probe"
    /\ Completed
    /\ pc' = "open"
    /\ id' = NULL
    /\ \/ /\ mem' = Released(mem, id)
          /\ UNCHANGED <<ctrl, dma_buffer>>
       \/ /\ Succeeded
          /\ \E b \in IF dma_buffer = NULL THEN Allocations \ {NULL} ELSE {dma_buffer} :
                LET m == Marked(mem, b, "dma_buffer")
                IN  /\ dma_buffer' = b
                    /\ \/ /\ mem' = Released(m, id)
                          /\ UNCHANGED ctrl
                       \/ \E n \in {r \in Regions : m[r] = "free"} :
                             /\ \A q \in Regions : m[q] = "free" => n <= q
                             /\ mem' = Released(Marked(m, n, "ns"), id)
                             /\ ctrl' = [ctrl EXCEPT !.ns = n]
    /\ UNCHANGED <<hw, wild>>

-----------------------------------------------------------------------------
(* The open device.                                                        *)

\* nvme_io_xfer into nvme_dma_buffer.  Without a namespace ctrl->ns is what malloc
\* left there: -EBUSY when that is 0, or else it is followed.
nvme_read ==
    /\ pc = "open"
    /\ IF ctrl.ns \in Regions
       THEN Submit("read", dma_buffer) /\ pc' = "reading" /\ UNCHANGED wild
       ELSE Undefined("ns") /\ UNCHANGED hw
    /\ UNCHANGED <<mem, ctrl, id, dma_buffer>>

\* A failed read is repeated.
ReadDone ==
    /\ pc = "reading"
    /\ Completed
    /\ IF Succeeded THEN pc' = "open" /\ UNCHANGED hw
       ELSE Submit("read", dma_buffer) /\ UNCHANGED pc
    /\ UNCHANGED <<mem, ctrl, id, dma_buffer, wild>>

\* The SAN layer closes the device to open it again, as it does when a read has
\* answered -EBUSY; nothing is released.
nvme_close ==
    /\ pc = "open"
    /\ pc' = "closed"
    /\ UNCHANGED <<mem, ctrl, id, dma_buffer, hw, wild>>

-----------------------------------------------------------------------------
(* The controller.                                                         *)

\* CSTS.RDY follows CC.EN; switching off drops the queues and any command, and the
\* addresses of the admin queues are taken over when it is switched on.
HwOff ==
    /\ ~hw.en /\ hw.rdy
    /\ hw' = [hw EXCEPT !.rdy = FALSE, !.sq = NULL, !.cq = NULL,
                        !.io_cq = NULL, !.io_sq = NULL,
                        !.cmd = NoCommand, !.status = "none"]
    /\ UNCHANGED <<pc, mem, ctrl, id, dma_buffer, wild>>

HwOn ==
    /\ hw.en /\ ~hw.rdy
    /\ hw' = [hw EXCEPT !.rdy = TRUE, !.sq = hw.asq, !.cq = hw.acq]
    /\ UNCHANGED <<pc, mem, ctrl, id, dma_buffer, wild>>

\* Memory the controller reads or writes to carry out the command and to report
\* its completion, with what it must be allocated for.
Touched(cmd) ==
    (IF cmd.op = "read"
     THEN {<<hw.io_sq, "io_sq">>, <<hw.io_cq, "io_cq">>, <<cmd.prp, "dma_buffer">>}
     ELSE {<<hw.sq, "admin_sq">>, <<hw.cq, "admin_cq">>})
    \cup (IF cmd.op = "identify" THEN {<<cmd.prp, "identify">>} ELSE {})

\* Some of it is not, or it is a queue of an earlier opening.
Stray(cmd) ==
    \E t \in Touched(cmd) :
       \/ t[1] \notin Regions
       \/ mem[t[1]] # t[2]
       \/ t[2] \in DOMAIN ctrl /\ t[1] # ctrl[t[2]]

HwExecute ==
    /\ hw.rdy
    /\ hw.cmd # NoCommand
    /\ \E status \in {"success", "failure"} :
          hw' = [hw EXCEPT
                   !.status = status,
                   !.cmd = NoCommand,
                   !.stray = @ \/ Stray(hw.cmd),
                   !.io_cq = IF status = "success" /\ hw.cmd.op = "create_cq"
                             THEN hw.cmd.prp ELSE @,
                   !.io_sq = IF status = "success" /\ hw.cmd.op = "create_sq"
                             THEN hw.cmd.prp ELSE @]
    /\ UNCHANGED <<pc, mem, ctrl, id, dma_buffer, wild>>

-----------------------------------------------------------------------------
Driver ==
    \/ Disable \/ InitAdminCq \/ InitAdminSq
    \/ IdentifyCtrl \/ IdentifyCtrlDone
    \/ nvme_create_io_cq \/ nvme_create_io_sq
    \/ nvme_probe_ns \/ ProbeNsDone

Caller == nvme_open_uri \/ nvme_read \/ ReadDone \/ nvme_close

Hw == HwOff \/ HwOn \/ HwExecute

Anything == pc = "undefined" /\ UNCHANGED vars

Next == Driver \/ Caller \/ Hw \/ Anything

Spec == Init /\ [][Next]_vars

\* The CPU runs the driver, and a controller that works answers.
FairSpec == Spec /\ WF_vars(Driver) /\ WF_vars(Hw)

-----------------------------------------------------------------------------
\* The controller never touches memory that is not allocated for what it is doing,
\* nor a queue that the driver does not use any more: no buffer or queue is
\* released, or allocated for something else, between the submission of a command
\* and its completion, and the queues of an earlier opening are dropped before the
\* first command of the next (nvme_admin_identify, nvme_probe_ns and the two waits
\* of nvme_controller_enable).
DeviceTouchesOwned == pc # "undefined" => ~hw.stray

\* A namespace that can be read has a running controller with both I/O queues in
\* memory that is allocated for them, and a bounce buffer.
OpenIsUsable ==
    (pc \in {"open", "reading"} /\ ctrl.ns \in Regions)
    => /\ hw.en /\ hw.rdy
       /\ hw.io_sq = ctrl.io_sq /\ hw.io_cq = ctrl.io_cq
       /\ hw.sq = ctrl.admin_sq /\ hw.cq = ctrl.admin_cq
       /\ \A q \in {"admin_cq", "admin_sq", "io_cq", "io_sq", "ns"} :
             ctrl[q] \in Regions /\ mem[ctrl[q]] = q
       /\ dma_buffer \in Regions /\ mem[dma_buffer] = "dma_buffer"

\* Identify buffers are released on every path: between calls there is none.
NoIdentifyLeak ==
    pc \in {"closed", "open", "disable", "admin_cq"}
    => \A r \in Regions : mem[r] # "identify"

\* With a controller that works every attempt to open it comes to its end: the
\* device is open, or an error exit has been reached.
OpenReturns == pc = "disable" ~> pc \in {"open", "undefined"}

\* core/malloc.c says of free() that memory allocated with malloc_phys() cannot be
\* freed with it: nvme_destroy_cq and nvme_destroy_sq keep to that.
FreesMatchAllocator == "free" \notin wild
=============================================================================
