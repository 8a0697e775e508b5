------------------------------ MODULE SanNvme -------------------------------
(***************************************************************************)
(* A SAN device with one path (core/sanboot.c) on top of the NVMe block    *)
(* device (drivers/block/nvme.c): registration by int13_hook, commands     *)
(* with their timeout and retries, resets that close and reopen the path,  *)
(* and the removal of the device.                                          *)
(*                                                                         *)
(* One CPU runs everything.  pc says which loop it is in; the state of the *)
(* objects is the record s (see IpxeCore).  What the CPU does not decide   *)
(* is chosen: whether opening the controller works, whether fifteen        *)
(* seconds have passed when the retry process looks at the timer, and what *)
(* the INT 13 caller asks for next.                                        *)
(***************************************************************************)
EXTENDS IpxeCore, FiniteSets

CONSTANTS
    SanRetries,     \* the san-retries setting
    MaxCalls,       \* bound: INT 13 calls after registration
    MaxBlocks       \* bound: blocks of one call, each a command of its own

ASSUME BoundsAssumption ==
    /\ SanRetries \in Nat
    /\ MaxCalls \in Nat
    /\ MaxBlocks \in Nat \ {0}

VARIABLES
    s,          \* the objects
    pc,         \* the loop the CPU is in
    return,     \* who called sandev_reopen
    op,         \* the operation in progress
    left,       \* blocks of the operation not yet transferred
    retries,    \* sandev_command's counter
    rc,         \* status of the last operation that returned
    calls       \* INT 13 calls made so far

vars == <<s, pc, return, op, left, retries, rc, calls>>

\* The state of the objects after alloc_sandev and nvme_probe.  Besides the
\* fields of IpxeCore:
\*   active, opened   sandev->active is the path; the path is on sandev->opened
\*   command_rc, cap  sandev->command_rc; sandev->capacity has been recorded
\*   isOpen, busy     nvme->opened; the global busy
\*   ns               nvme->ctrl->ns: "valid", "null" or "garbage"
\*   moved            the block of this command reached or left the device
\*   lost             references that were overwritten or taken without need
InitialObjects ==
    [count  |-> [o \in Objects |-> 0],
     freed  |-> {},
     dest   |-> [i \in Interfaces |-> IF i = "dummy" THEN NULL ELSE NullIntf],
     desc   |-> [i \in Interfaces |-> OriginalDesc(i)],
     queue  |-> <<"retry">>,
     timer  |-> FALSE,
     wild   |-> {},
     active |-> FALSE, opened |-> FALSE,
     command_rc |-> "ok", cap |-> FALSE,
     isOpen |-> FALSE, busy |-> FALSE, ns |-> "null",
     moved  |-> FALSE,
     lost   |-> [o \in Objects |-> 0]]

-----------------------------------------------------------------------------
(* Closing interfaces.  intf_close calls the close method of whoever is at *)
(* the other end, which closes interfaces of its own; the nullified        *)
(* descriptors are what ends the recursion.                                *)

RECURSIVE intf_close(_, _, _)

\* The temporary interface of the code carries the destination d.
intf_shutdown(t, intf, why) ==
    LET d == t.dest[intf]
        blocked == [intf_nullify(t, intf) EXCEPT !.dest[intf] = NullIntf]
    IN  ref_put(intf_close(blocked, d, why), Owner(d))

intf_restart(t, intf, why) == intf_reinit(intf_shutdown(t, intf, why), intf)

intfs_restart(t, a, b, why) ==
    LET nullified == intf_nullify(intf_nullify(t, a), b)
        down == intf_shutdown(intf_shutdown(nullified, a, why), b, why)
    IN  intf_reinit(intf_reinit(down, a), b)

\* sandev->command has been closed: the command is over.
sandev_command_close(t, why) ==
    [intf_restart(stop_timer(t), "command", why) EXCEPT !.command_rc = why]

sanpath_close(t, why) ==
    LET stopped == process_del([t EXCEPT !.opened = FALSE], "path")
    IN  IF t.active
        THEN sandev_command_close(
               [intfs_restart(stopped, "command", "path", why)
                  EXCEPT !.active = FALSE], why)
        ELSE intf_restart(stopped, "path", why)

sanpath_block_close(t, why) ==
    sanpath_close(t, IF why = "ok" THEN "ENOTCONN" ELSE why)

nvme_close(t, why) ==
    [intf_shutdown(t, "block", "ENODEV") EXCEPT !.isOpen = FALSE]

\* The descriptor of dummy is NULL until its first shutdown nullifies it: a
\* close before that looks for a method at address 0.  It is modelled as
\* finding none, which restarts the interface.
intf_close(t, d, why) ==
    LET u == ref_get(t, Owner(d))
        ignored == d \notin Interfaces \/ t.desc[d] = "null"
        method ==
          CASE d = "command" -> sandev_command_close(u, why)
            [] d = "path" -> sanpath_block_close(u, why)
            [] d = "block" -> nvme_close(u, why)
            [] d = "dummy" -> [intf_restart(u, "dummy", why)
                                 EXCEPT !.wild = @ \cup {"desc"}]
    IN  ref_put(IF ignored THEN u ELSE method, Owner(d))

-----------------------------------------------------------------------------
(* The NVMe block device.  An operation returns a status and a state.      *)

Outcome(status, t) == [rc |-> status, s |-> t]

\* A reference is overwritten, or taken by a call that will not drop it.
Lose(t, o) == [t EXCEPT !.lost[o] = @ + 1]

\* The outcomes of opening the controller: no device in nvme_devices; the
\* registers cannot be mapped, or the controller cannot be enabled; enabled, with
\* the namespace probed; enabled, with the probe of the namespace failed and
\* ctrl->ns left as malloc returned it.
OpenOutcomes == {"absent", "failed", "valid", "null", "garbage"}

\* ref_init with a NULL free method does nothing, so the count carries on from
\* the last time the device was open.
nvme_open_uri(t, outcome) ==
    LET lost == IF Owner(t.dest["block"]) = "san" THEN Lose(t, "san") ELSE t
        plugged == intf_plug_plug(intf_init(lost, "block"), "block", "path")
    IN  CASE outcome = "absent" -> Outcome("ENOENT", t)
          [] outcome # "absent" /\ t.isOpen -> Outcome("EBUSY", t)
          [] outcome = "failed" /\ ~t.isOpen -> Outcome("EBUSY", plugged)
          [] OTHER -> Outcome("ok", [plugged EXCEPT !.isOpen = TRUE,
                                                    !.ns = outcome])

\* The common end of the block operations: the process that will report the
\* completion is queued, the command interface is plugged into dummy and a
\* reference is taken for nvme_step to drop.
StartCompletion(t) ==
    LET lost == IF process_running(t, "nvme") THEN Lose(t, "nvme") ELSE t
        queued == process_add(lost, "nvme")
    IN  ref_get(intf_plug_plug(queued, "dummy", "command"), "nvme")

\* A refusal takes a reference that nobody will drop.
Refuse(t) == Outcome("EBUSY", Lose(ref_get(t, "nvme"), "nvme"))

ThroughGarbage(t) == [t EXCEPT !.wild = @ \cup {"ns"}]

\* count is always 1 (capacity.max_count), and len a multiple of the block size
\* of the namespace the capacity came from.
nvme_read(t) ==
    LET read == [StartCompletion(t) EXCEPT !.busy = TRUE]
    IN  CASE t.busy -> {Outcome("EBUSY", t)}
          [] ~t.busy /\ t.ns = "null" -> {Refuse(t)}
          [] ~t.busy /\ t.ns = "valid" ->
               {Outcome("ok", [read EXCEPT !.moved = TRUE])}
          [] ~t.busy /\ t.ns = "garbage" ->
               {Refuse(ThroughGarbage(t)), Outcome("ok", ThroughGarbage(read))}

\* Writing is disabled: the command completes and nothing is sent.
nvme_write(t) == {Outcome("ok", [StartCompletion(t) EXCEPT !.busy = TRUE])}

CapacityNotReported(t) == {Outcome("ok", StartCompletion(t))}

\* block_capacity reaches sandev_command_capacity through dummy.
nvme_read_capacity(t) ==
    LET started == StartCompletion(t)
        reported == [started EXCEPT !.cap = started.desc["command"] = "own"]
    IN  CASE t.ns = "null" -> {Refuse(t)}
          [] t.ns = "valid" -> {Outcome("ok", reported)}
          [] t.ns = "garbage" -> {Outcome("ok", ThroughGarbage(reported))}

nvme_step(t) ==
    [ref_put(process_del(intf_shutdown(t, "dummy", "ok"), "nvme"), "nvme")
       EXCEPT !.busy = FALSE]

\* block_read, block_write and block_read_capacity on sanpath->block.
BlockOperation(t, which) ==
    LET u == ref_get(t, "nvme")
        results == CASE which = "write" -> nvme_write(u)
                     [] which = "capacity" -> nvme_read_capacity(u)
                     [] OTHER -> nvme_read(u)
    IN  IF t.dest["path"] # "block" \/ t.desc["block"] # "own"
        THEN {Outcome("EOPNOTSUPP", t)}
        ELSE {Outcome(o.rc, ref_put(o.s, "nvme")) : o \in results}

-----------------------------------------------------------------------------
(* The run queue and the SAN path.                                         *)

\* xfer_window of the NVMe block interface is the unlimited default, so an
\* opened path becomes the active one the first time its process runs.
sanpath_step(t) == [t EXCEPT !.active = TRUE]

\* retry_poll: at most one timer expires, and only this one exists.
timer_expired(t) ==
    ref_put(sandev_command_close([t EXCEPT !.timer = FALSE], "ETIMEDOUT"), "san")

\* The first process of the run queue takes one step; late says that more than
\* SAN_COMMAND_TIMEOUT has passed since the timer was started.
step(t, late) ==
    LET p == Head(t.queue)
        held == ref_get(t, ProcessOwner(p))
        taken == IF p = "retry"
                 THEN [held EXCEPT !.queue = Append(Tail(@), p)]
                 ELSE process_del(held, p)
        stepped == CASE p = "path" -> sanpath_step(taken)
                     [] p = "nvme" -> nvme_step(taken)
                     [] p = "retry" -> IF t.timer /\ late
                                       THEN timer_expired(taken) ELSE taken
    IN  ref_put(stepped, ProcessOwner(p))

SanpathOpenStartsFirst(t, outcome) ==
    LET o == nvme_open_uri(process_add(t, "path"), outcome)
    IN  IF o.rc # "ok" THEN o ELSE Outcome("ok", [o.s EXCEPT !.opened = TRUE])

SanpathOpenActivates(t, outcome) ==
    LET o == nvme_open_uri(t, outcome)
    IN  IF o.rc # "ok" THEN o
        ELSE Outcome("ok", [o.s EXCEPT !.opened = TRUE, !.active = TRUE])

SanpathOpenNoProcess(t, outcome) ==
    LET o == nvme_open_uri(t, outcome)
    IN  IF o.rc # "ok" THEN o ELSE Outcome("ok", [o.s EXCEPT !.opened = TRUE])

\* acpi_describe finds no method in the NVMe device and returns no descriptor.
sanpath_open(t, outcome) ==
    LET o == nvme_open_uri(t, outcome)
    IN  IF o.rc # "ok" THEN o
        ELSE Outcome("ok", [process_add(o.s, "path") EXCEPT !.opened = TRUE])

sandev_restart(t, why) ==
    LET closed == IF t.opened THEN sanpath_close(t, why) ELSE t
    IN  sandev_command_close([closed EXCEPT !.active = FALSE], why)

\* unregister_sandev, or the error exits of register_sandev, followed by the
\* sandev_put of int13_hook or int13_unhook.
Dispose(t, why) == ref_put(sandev_restart(t, why), "san")

\* sandev_reopen before it waits for the path.
sandev_reopen(t, outcome) ==
    LET o == sanpath_open(sandev_restart(t, "ECONNRESET"), outcome)
    IN  IF o.rc = "ok" THEN o ELSE Outcome(o.rc, sandev_restart(o.s, o.rc))

-----------------------------------------------------------------------------
(* Control.                                                                *)

Init ==
    /\ s = InitialObjects
    /\ pc = "boot"
    /\ return = "none"
    /\ op = "none"
    /\ left = 0
    /\ retries = 0
    /\ rc = "ok"
    /\ calls = 0

\* register_sandev gives up, and int13_hook drops the device.
GiveUp(o) ==
    /\ s' = Dispose(o.s, o.rc)
    /\ pc' = "gone"
    /\ rc' = o.rc
    /\ return' = "none"
    /\ UNCHANGED <<op, left, retries, calls>>

\* sandev_command: the path cannot be reopened: sleep before the next attempt.
FallAsleep(o) ==
    /\ s' = o.s
    /\ pc' = "sleep"
    /\ rc' = o.rc
    /\ return' = "none"
    /\ UNCHANGED <<op, left, retries, calls>>

\* sandev_reset and INT 13,48: the caller gets the error.
ReopenFailed(o) ==
    /\ s' = o.s
    /\ pc' = "idle"
    /\ rc' = o.rc
    /\ return' = "none"
    /\ UNCHANGED <<op, left, retries, calls>>

\* sandev_reopen goes on to wait for the path it opened.
AwaitPath(caller, o) ==
    /\ o.rc = "ok"
    /\ s' = o.s
    /\ pc' = "reopen"
    /\ return' = caller
    /\ UNCHANGED <<op, left, retries, rc, calls>>

register_sandev ==
    /\ pc = "boot"
    /\ \E outcome \in OpenOutcomes :
           LET o == sandev_reopen(s, outcome)
           IN  AwaitPath("register", o) \/ (o.rc # "ok" /\ GiveUp(o))

\* The loop at the end of sandev_reopen.  Nothing closes an opened NVMe path
\* while it waits, so the list of opened paths never becomes empty.
WaitForPath ==
    /\ pc = "reopen"
    /\ ~s.active
    /\ s' = step(s, FALSE)
    /\ UNCHANGED <<pc, return, op, left, retries, rc, calls>>

\* sandev_reopen returns.  register_sandev goes on to sandev_describe, which
\* runs one step and has no descriptor to wait for, and to the capacity.
PathIsActive ==
    /\ pc = "reopen"
    /\ s.active
    /\ return' = "none"
    /\ UNCHANGED <<left, calls>>
    /\ \/ /\ return = "register"
          /\ s' = step(s, FALSE)
          /\ pc' = "try"
          /\ op' = "capacity"
          /\ retries' = 0
          /\ UNCHANGED rc
       \/ /\ return = "command"
          /\ pc' = "try"
          /\ UNCHANGED <<s, op, retries, rc>>
       \/ /\ return = "caller"
          /\ pc' = "idle"
          /\ rc' = "ok"
          /\ UNCHANGED <<s, op, retries>>

\* An operation begins: n blocks, each transferred by a sandev_command of its
\* own because capacity.max_count is 1.
Begin(which, n) ==
    /\ pc' = "try"
    /\ op' = which
    /\ left' = n
    /\ retries' = 0
    /\ UNCHANGED <<s, return, rc, calls>>

\* register_sandev after the capacity: sandev_parse_iso9660 reads nothing from a
\* device with large blocks, and fails if it has no memory to read into.
sandev_parse_iso9660 ==
    /\ pc = "iso9660"
    /\ \/ \E n \in 1 .. MaxBlocks : Begin("iso9660", n)
       \/ /\ pc' = "geometry"
          /\ UNCHANGED <<s, return, op, left, retries, rc, calls>>
       \/ GiveUp(Outcome("ENOMEM", s))

\* int13_hook after register_sandev: a block is read to guess the geometry of a
\* drive with 512-byte blocks, or to find the boot catalog of a CD-ROM; without
\* memory the drive is unregistered.
int13_hook ==
    /\ pc = "geometry"
    /\ \/ \E n \in 1 .. MaxBlocks : Begin("geometry", n)
       \/ /\ pc' = "idle"
          /\ UNCHANGED <<s, return, op, left, retries, rc, calls>>
       \/ GiveUp(Outcome("ok", s))

\* sandev_command returns to the operation it was called for.
Return(t, status) ==
    IF status # "ok"
    THEN IF op \in {"read", "write"}
         THEN /\ s' = t
              /\ pc' = "idle"
              /\ rc' = status
              /\ UNCHANGED <<return, op, left, retries, calls>>
         ELSE GiveUp(Outcome(status, t))
    ELSE /\ s' = t
         /\ rc' = status
         /\ left' = IF left > 0 THEN left - 1 ELSE 0
         /\ retries' = 0
         /\ pc' = CASE left > 1 -> "try"
                    [] left <= 1 /\ op = "capacity" -> "iso9660"
                    [] left <= 1 /\ op = "iso9660" -> "geometry"
                    [] OTHER -> "idle"
         /\ UNCHANGED <<return, op, calls>>

\* An attempt failed: the do loop of sandev_command tests its condition.
Again(t, status) ==
    IF retries + 1 <= SanRetries
    THEN /\ s' = t
         /\ pc' = "try"
         /\ retries' = retries + 1
         /\ UNCHANGED <<return, op, left, rc, calls>>
    ELSE Return(t, status)

sandev_needs_reopen == ~s.active

ReopenForCommand ==
    /\ pc = "try"
    /\ sandev_needs_reopen
    /\ \E outcome \in OpenOutcomes :
           LET o == sandev_reopen(s, outcome)
           IN  AwaitPath("command", o) \/ (o.rc # "ok" /\ FallAsleep(o))

\* sandev_command_rw or sandev_command_read_capacity, and the expiry timer.
InitiateCommand ==
    /\ pc = "try"
    /\ ~sandev_needs_reopen
    /\ \E o \in BlockOperation([s EXCEPT !.moved = FALSE], op) :
          IF o.rc # "ok" THEN Again(o.s, o.rc)
          ELSE /\ s' = start_timer_fixed(o.s)
               /\ pc' = "wait"
               /\ UNCHANGED <<return, op, left, retries, rc, calls>>

\* nvme_io_xfer polls for a completion that never comes, or repeats a command
\* that never succeeds.  The expiry timer has not been started yet.
ReadSticks ==
    /\ pc = "try"
    /\ ~sandev_needs_reopen
    /\ op \notin {"write", "capacity"}
    /\ ~s.busy
    /\ s.ns = "valid"
    /\ pc' = "polling"
    /\ UNCHANGED <<s, return, op, left, retries, rc, calls>>

KeepPolling == pc = "polling" /\ UNCHANGED vars

WaitForCommand ==
    /\ pc = "wait"
    /\ s.timer
    /\ \E late \in BOOLEAN : s' = step(s, late)
    /\ UNCHANGED <<pc, return, op, left, retries, rc, calls>>

CheckCommandStatus ==
    /\ pc = "wait"
    /\ ~s.timer
    /\ IF s.command_rc # "ok" THEN Again(s, s.command_rc) ELSE Return(s, "ok")

\* sleep_fixed runs the other processes; no timer is running.
SleepStep ==
    /\ pc = "sleep"
    /\ s' = step(s, FALSE)
    /\ UNCHANGED <<pc, return, op, left, retries, rc, calls>>

WakeUp == pc = "sleep" /\ Again(s, rc)

-----------------------------------------------------------------------------
(* The INT 13 caller.                                                      *)

Call == pc = "idle" /\ calls < MaxCalls

\* The call enters an operation; the next action runs it.
Enter(loop, which, n) ==
    /\ pc' = loop
    /\ op' = which
    /\ left' = n
    /\ retries' = 0
    /\ calls' = calls + 1
    /\ UNCHANGED <<s, return, rc>>

\* INT 13,02 and INT 13,42.
sandev_read == Call /\ \E n \in 1 .. MaxBlocks : Enter("try", "read", n)

\* INT 13,03 and INT 13,43.
sandev_write == Call /\ \E n \in 1 .. MaxBlocks : Enter("try", "write", n)

\* INT 13,00.
sandev_reset == Call /\ Enter("reset", "reset", 0)

\* INT 13,48 reopens the device only if it has no active path.
int13_device_path_info ==
    /\ Call
    /\ sandev_needs_reopen
    /\ Enter("reset", "parameters", 0)

ReopenForCaller ==
    /\ pc = "reset"
    /\ \E outcome \in OpenOutcomes :
           LET o == sandev_reopen(s, outcome)
           IN  AwaitPath("caller", o) \/ (o.rc # "ok" /\ ReopenFailed(o))

\* An operation of the SAN interface: uriboot calls it, ipxe() does not.
int13_unhook ==
    /\ pc = "idle"
    /\ s' = Dispose(s, "ok")
    /\ pc' = "gone"
    /\ UNCHANGED <<return, op, left, retries, rc, calls>>

\* The device is gone: ipxe() has returned to the BIOS, where no process is stepped.
BackInBios == pc = "gone" /\ UNCHANGED vars

-----------------------------------------------------------------------------
Caller == sandev_read \/ sandev_write \/ sandev_reset \/ int13_device_path_info
          \/ int13_unhook

Running ==
    \/ register_sandev \/ sandev_parse_iso9660 \/ int13_hook
    \/ WaitForPath \/ PathIsActive
    \/ ReopenForCommand \/ ReopenForCaller
    \/ InitiateCommand \/ ReadSticks \/ KeepPolling
    \/ WaitForCommand \/ CheckCommandStatus
    \/ SleepStep \/ BackInBios

Next == Caller \/ Running \/ WakeUp

Spec == Init /\ [][Next]_vars

\* Running changes the state: the caller is not being waited for, and a loop that
\* only steps processes has more than the retry process to step.
CanRun ==
    /\ pc \notin {"idle", "polling", "gone"}
    /\ (pc = "sleep" \/ (pc = "reopen" /\ ~s.active))
       => s.queue # <<"retry">>

\* The CPU never stops, and the clock that ends a sleep goes on: weak fairness of
\* Running and of WakeUp, with the conditions under which they are enabled
\* written out.
FairSpec ==
    /\ Spec
    /\ <>[]CanRun => []<><<Running>>_vars
    /\ <>[](pc = "sleep") => []<><<WakeUp>>_vars

-----------------------------------------------------------------------------
(* Properties.                                                             *)

\* The references to an object that the program can still follow: plugged
\* interfaces, queued processes, the running timer, and the reference a pending
\* block operation holds until nvme_step.
Holders(o) ==
    Cardinality({i \in Interfaces : Owner(s.dest[i]) = o})
    + Cardinality({p \in Processes : process_running(s, p) /\ ProcessOwner(p) = o})
    + (IF o = "san" /\ s.timer THEN 1 ELSE 0)
    + (IF o = "nvme" /\ process_running(s, "nvme") THEN 1 ELSE 0)

\* Reference counting is exact between handlers: the count of an object is the
\* number of references that exist, plus the ones known to be lost (the
\* overwritten destination of a failed open, the ref_get of a refused command),
\* less the allocation's own reference once sandev_put has dropped it.
RefcountsExact ==
    \A o \in Objects :
        s.count[o] = Holders(o) + s.lost[o]
                     - (IF o = "san" /\ pc = "gone" THEN 1 ELSE 0)

\* Nothing refers to a freed object, the SAN device is freed in the state
\* sandev_free asserts (no timer, no active path, no opened path), and the NVMe
\* device, which stays in nvme_devices for ever, is never freed.
FreedObjectsUnused ==
    \A o \in s.freed :
        /\ o = "san"
        /\ Holders(o) = 0
        /\ ~s.timer /\ ~s.active /\ ~s.opened

\* The assertions of sandev_reopen, sandev_command and unregister_sandev: the
\* timer runs only while a command is awaited, and an active path is an opened
\* one whose interface is plugged into the NVMe device.
SanAssertions ==
    /\ s.timer => pc = "wait"
    /\ s.active => /\ s.opened
                   /\ s.dest["path"] = "block" /\ s.dest["block"] = "path"
    /\ s.opened => s.isOpen

\* When sandev_command sees the status 0 of a command, the command has done what
\* it was for: the block was read, or the capacity was recorded.  (As long as the
\* namespace pointer was not garbage.)
SuccessMeansDone ==
    (/\ pc = "wait" /\ ~s.timer /\ s.command_rc = "ok"
     /\ "ns" \notin s.wild /\ s.ns # "garbage")
    => CASE op = "capacity" -> s.cap
         [] op = "write" -> TRUE
         [] OTHER -> s.moved

\* A reset that succeeded leaves a device that accepts commands: the completion
\* of a command that had timed out was run, in the order of the run queue, before
\* the path became active again.
ResetRevives ==
    (pc = "idle" /\ op = "reset" /\ rc = "ok")
    => /\ s.active
       /\ ~s.busy
       /\ ~process_running(s, "nvme")

\* Every call returns unless the controller leaves a read unanswered: whatever it
\* does with the opens, and however late the clock is, retries are bounded and a
\* waited-for process is stepped (sandev_reopen, sandev_command).
CallReturns == pc \notin {"idle", "gone"} ~> pc \in {"idle", "gone", "polling"}

\* The comment on SAN_COMMAND_TIMEOUT: "Use an overall timeout for all commands to
\* avoid this problem and bounce timeout failures to the caller", the problem being
\* a device that gets stuck and a machine that appears to hang.  So the timer runs
\* whenever the machine waits for the device to answer.
TimeoutCoversCommand == pc = "polling" => s.timer

\* A device that was given up or unhooked is freed before its handler returns:
\* nothing steps the processes once ipxe() is back in the BIOS, so the closing of the
\* path, the command and the timer must have dropped every reference (sandev_restart,
\* sandev_put).  It is not freed when the completion of a timed-out command is still
\* queued, or when a failed open lost a reference or left the NVMe device plugged
\* into it.
ReleasedAtOnce ==
    (/\ pc = "gone" /\ ~process_running(s, "nvme")
     /\ s.lost["san"] = 0 /\ Owner(s.dest["block"]) # "san")
    => "san" \in s.freed
=============================================================================
