------------------------------ MODULE IpxeCore ------------------------------
(***************************************************************************)
(* The iPXE object plumbing that the SAN layer and the NVMe driver are     *)
(* built on: reference counts (core/refcnt.c), the pointers between object *)
(* interfaces (core/interface.c), the run queue of cooperative processes   *)
(* (core/process.c) and the retry timer (net/retry.c).                     *)
(*                                                                         *)
(* Everything runs on one CPU without preemption, so an operation is a     *)
(* function from the state of the objects to their next state.  The state  *)
(* is a record s with, among the fields of the users of this module,       *)
(*   count  the reference count of each object                             *)
(*   freed  the objects whose free() method has been called                *)
(*   dest   the destination of each interface                              *)
(*   desc   its descriptor: its "own", the "null" one, or "unset" (NULL)   *)
(*   queue  the run queue                                                  *)
(*   timer  whether the SAN command timer is running                       *)
(*   wild   which fields were followed while they held no valid pointer    *)
(***************************************************************************)
EXTENDS Integers, Sequences, SequencesExt

Objects == {"san", "nvme"}
Interfaces == {"command", "path", "block", "dummy"}
Processes == {"retry", "path", "nvme"}

\* The null interface, and the NULL pointer of an interface nobody initialised.
NullIntf == "null_intf"
NULL == "NULL"
NoObject == "no object"

\* intf->refcnt: sandev->command and sanpath->block belong to the SAN device,
\* nvme->block to the NVMe device; dummy and null_intf belong to nobody.
Owner(i) == CASE i \in {"command", "path"} -> "san"
              [] i = "block" -> "nvme"
              [] OTHER -> NoObject

\* process->refcnt.  The retry process is permanent and counts nothing.
ProcessOwner(p) == CASE p = "path" -> "san"
                     [] p = "nvme" -> "nvme"
                     [] p = "retry" -> NoObject

-----------------------------------------------------------------------------
\* Reference counts.  An object is freed when its count falls to -1; a count
\* below -1 is left alone.
ref_get(s, o) ==
    IF o = NoObject THEN s ELSE [s EXCEPT !.count[o] = @ + 1]

RefPutAtZero(s, o) ==
    IF o = NoObject THEN s
    ELSE [s EXCEPT !.count[o] = @ - 1,
                   !.freed = IF s.count[o] - 1 = 0 THEN @ \cup {o} ELSE @]

RefPutLate(s, o) ==
    IF o = NoObject THEN s
    ELSE [s EXCEPT !.count[o] = @ - 1,
                   !.freed = IF s.count[o] = -1 THEN @ \cup {o} ELSE @]

ref_put(s, o) ==
    IF o = NoObject THEN s
    ELSE [s EXCEPT !.count[o] = @ - 1,
                   !.freed = IF s.count[o] - 1 = -1 THEN @ \cup {o} ELSE @]

-----------------------------------------------------------------------------
\* Interface pointers.  The old destination's reference count is read through
\* the old pointer, whatever it is.
intf_plug(s, intf, dest) ==
    LET t == ref_put(ref_get(s, Owner(dest)), Owner(s.dest[intf]))
    IN  [t EXCEPT !.dest[intf] = dest,
                  !.wild = IF s.dest[intf] = NULL THEN @ \cup {"dest"} ELSE @]

intf_plug_plug(s, a, b) == intf_plug(intf_plug(s, a, b), b, a)

\* Ignore all further operations received through an interface.
intf_nullify(s, intf) == [s EXCEPT !.desc[intf] = "null"]

\* Put back the descriptor the interface was initialised with: dummy is a plain
\* global that nobody initialises, so its original descriptor is NULL.
OriginalDesc(intf) == IF intf = "dummy" THEN "unset" ELSE "own"

intf_reinit(s, intf) == [s EXCEPT !.desc[intf] = OriginalDesc(intf)]

\* First initialisation: whatever dest held before is overwritten.
intf_init(s, intf) == [s EXCEPT !.dest[intf] = NullIntf, !.desc[intf] = "own"]

-----------------------------------------------------------------------------
\* The run queue.
process_running(s, p) == Contains(s.queue, p)

process_add(s, p) ==
    IF process_running(s, p) THEN s
    ELSE [ref_get(s, ProcessOwner(p)) EXCEPT !.queue = Append(@, p)]

process_del(s, p) ==
    IF ~process_running(s, p) THEN s
    ELSE ref_put([s EXCEPT !.queue = Remove(@, p)], ProcessOwner(p))

-----------------------------------------------------------------------------
\* The timer of the SAN device, which holds a reference to it while it runs.
start_timer_fixed(s) ==
    IF s.timer THEN s ELSE [ref_get(s, "san") EXCEPT !.timer = TRUE]

StopTimerKeepsReference(s) == [s EXCEPT !.timer = FALSE]

stop_timer(s) ==
    IF ~s.timer THEN s ELSE ref_put([s EXCEPT !.timer = FALSE], "san")
=============================================================================
