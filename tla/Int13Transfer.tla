---------------------------- MODULE Int13Transfer ----------------------------
(***************************************************************************)
(* Reading blocks through INT 13: the sector and extended read calls       *)
(* (arch/x86/interface/pcbios/int13.c), the fragments sandev_rw splits     *)
(* them into (core/sanboot.c), the retries of every fragment, and the data *)
(* a block read of the NVMe device leaves in the caller's memory           *)
(* (drivers/block/nvme.c).                                                 *)
(*                                                                         *)
(* A drive has a scale, 2^blksize_shift: the blocks of the device in one   *)
(* block of the caller, more than 1 for a CD-ROM image; and a boot catalog *)
(* (int13->boot_catalog), 0 when there is none.                            *)
(* Buffers are counted in blocks of the device (capacity.blksize).  What a *)
(* cell of memory holds is the number of a block and how much of it.  How  *)
(* a command is opened, timed and completed is the subject of SanNvme;     *)
(* here an attempt succeeds or fails, before or after it moved its data.   *)
(***************************************************************************)
EXTENDS Integers

CONSTANTS
    Devices,     \* the drives: scale and boot catalog of each
    SmallBlocks, \* whether capacity.blksize is 512, the size of a sector
    SanRetries,  \* the san-retries setting
    Lbas,        \* starting blocks of the calls
    Counts,      \* block counts of the calls
    MemBlocks    \* bound: blocks of memory behind a buffer

ASSUME TransferAssumption ==
    /\ Devices \subseteq [scale : Nat \ {0}, catalog : Nat]
    /\ SmallBlocks \in BOOLEAN
    /\ SanRetries \in Nat
    /\ Lbas \subseteq Nat
    /\ Counts \subseteq Nat
    /\ MemBlocks \in Nat
    /\ \A n \in Counts, d \in Devices : n * d.scale <= MemBlocks

VARIABLES
    pc,         \* "caller", "fragment", "command", "returned" or "undefined"
    call,       \* the request: kind of call, scale of the drive, first block, ...
    params,     \* params.rw: next block, count and buffer of the fragment
    remaining,  \* blocks still to be transferred
    retries,    \* the counter of sandev_command
    rc,         \* what the call returned
    al,         \* the count register (INT 13,02) or packet field (INT 13,42)
    mem         \* the caller's memory

vars == <<pc, call, params, remaining, retries, rc, al, mem>>

Cells == 0 .. MemBlocks - 1

\* Memory a packet can name: by segment and offset, by a physical address below or
\* above 4GB, or physical address 0, when the packet is too short to hold one.
Areas == {"segoff", "phys", "high", "zero"}

\* A user pointer has 32 bits: an address above 4GB loses its high half and becomes
\* one below.
phys_to_user(area) == IF area = "high" THEN "phys" ELSE area

\* capacity.max_count of the NVMe device.
max_count == 1

Untouched == [lba |-> -1, whole |-> FALSE]
Contents == [lba : Nat \cup {-1}, whole : BOOLEAN]

NoCall == [kind |-> "none", scale |-> 1, lba |-> 0, count |-> 0,
           named |-> "segoff", area |-> "segoff"]

Init ==
    /\ pc = "caller"
    /\ call = NoCall
    /\ params = [lba |-> 0, count |-> 0, buffer |-> 0]
    /\ remaining = 0
    /\ retries = 0
    /\ rc = "ok"
    /\ al = 0
    /\ mem = [a \in Areas |-> [i \in Cells |-> Untouched]]

-----------------------------------------------------------------------------
(* The calls.                                                              *)

\* sandev_rw is entered: the request in device blocks, for the memory that the
\* caller named.
sandev_rw(kind, d, lba, count, named) ==
    /\ call' = [kind |-> kind, scale |-> d.scale, lba |-> lba, count |-> count,
                named |-> named, area |-> phys_to_user(named)]
    /\ params' = [lba |-> lba * d.scale, count |-> max_count, buffer |-> 0]
    /\ remaining' = count * d.scale
    /\ pc' = "fragment"
    /\ mem' = [a \in Areas |-> [i \in Cells |-> Untouched]]
    /\ UNCHANGED <<retries, rc>>

Invalid(kind, count) ==
    /\ call' = [NoCall EXCEPT !.kind = kind]
    /\ pc' = "returned"
    /\ rc' = "INVALID"
    /\ al' = count
    /\ mem' = [a \in Areas |-> [i \in Cells |-> Untouched]]
    /\ params' = [lba |-> 0, count |-> 0, buffer |-> 0]
    /\ remaining' = 0
    /\ UNCHANGED retries

\* INT 13,02.  The address is inside the geometry or the call is refused; so is
\* every call for a drive whose blocks are not sectors.
int13_rw_sectors ==
    /\ pc = "caller"
    /\ \E d \in Devices, lba \in Lbas, count \in Counts :
          \/ /\ SmallBlocks /\ d.scale = 1
             /\ sandev_rw("sectors", d, lba, count, "segoff")
             /\ al' = count
          \/ Invalid("sectors", count)

\* The buffer and the count a packet of size bytes names.  Fields past its end read
\* as zero; a count of 255 stands for the 32-bit one.
PacketBuffer(size, field, flat, above) ==
    IF field # 255 /\ ~flat THEN "segoff"
    ELSE IF size < 24 THEN "zero"
    ELSE IF above THEN "high" ELSE "phys"

PacketCount(size, field, long_count) ==
    IF field # 255 THEN field
    ELSE IF size >= 32 THEN long_count ELSE 0

\* The packet is copied whole, as long as it says it is, over the 32 bytes of addr:
\* the rest goes over the stack above, and what the program does next is undefined.
Overrun ==
    /\ pc' = "undefined"
    /\ UNCHANGED <<call, params, remaining, retries, rc, al, mem>>

Undefined == pc = "undefined" /\ UNCHANGED vars

\* INT 13,42.  flat says that the segment and offset are both 0xffff, above that the
\* physical address is above 4GB.  Counts from 128 to 254, short packets and floppy
\* drives are refused.
int13_extended_rw ==
    /\ pc = "caller"
    /\ \E size \in {8, 16, 24, 32, 40},
          field \in (Counts \cap 0 .. 127) \cup {128, 255},
          d \in Devices, lba \in Lbas, long_count \in Counts,
          flat \in BOOLEAN, above \in BOOLEAN, fdd \in BOOLEAN :
          \/ /\ fdd \/ size < 16 \/ (size <= 32 /\ field = 128)
             /\ Invalid("extended", field)
          \/ /\ ~fdd /\ size > 32
             /\ Overrun
          \/ /\ ~fdd /\ size \in 16 .. 32 /\ field # 128
             /\ sandev_rw("extended", d, lba, PacketCount(size, field, long_count),
                          PacketBuffer(size, field, flat, above))
             /\ al' = field

\* INT 13,4d.
int13_cdrom_read_boot_catalog ==
    /\ pc = "caller"
    /\ \E d \in Devices, start \in Lbas, count \in Counts :
          IF d.catalog = 0
          THEN Invalid("catalog", count)
          ELSE sandev_rw("catalog", d, d.catalog + start, count, "phys") /\ al' = count

-----------------------------------------------------------------------------
(* Fragments.                                                              *)

\* The head of the loop of sandev_rw: the next fragment, or the end.
Fragment ==
    /\ pc = "fragment" /\ remaining > 0
    /\ params' = [params EXCEPT !.count = IF @ > remaining THEN remaining ELSE @]
    /\ pc' = "command"
    /\ retries' = 0
    /\ UNCHANGED <<call, remaining, rc, al, mem>>

Finish ==
    /\ pc = "fragment" /\ remaining = 0
    /\ pc' = "returned"
    /\ rc' = "ok"
    /\ UNCHANGED <<call, params, remaining, retries, al, mem>>

\* What block_read leaves in memory.  nvme_read copies 512 bytes, to one place.
Block(lba) == [lba |-> lba, whole |-> SmallBlocks]

BlockReadLong ==
    [mem EXCEPT ![call.area] =
        [i \in Cells |-> IF i \in {params.buffer, params.buffer + 1}
                         THEN Block(params.lba) ELSE mem[call.area][i]]]

BlockRead ==
    [mem EXCEPT ![call.area] =
        [i \in Cells |-> IF i = params.buffer
                         THEN Block(params.lba) ELSE mem[call.area][i]]]

CommandKeepsLba ==
    /\ pc = "command"
    /\ params.count = 1
    /\ mem' = BlockRead
    /\ params' = [params EXCEPT !.buffer = @ + params.count]
    /\ remaining' = remaining - params.count
    /\ pc' = "fragment"
    /\ UNCHANGED <<call, retries, rc, al>>

\* sandev_command returns success.  nvme_read refuses every count but 1.
CommandSucceeds ==
    /\ pc = "command"
    /\ params.count = 1
    /\ mem' = BlockRead
    /\ params' = [lba |-> params.lba + params.count, count |-> params.count,
                  buffer |-> params.buffer + params.count]
    /\ remaining' = remaining - params.count
    /\ pc' = "fragment"
    /\ UNCHANGED <<call, retries, rc, al>>

\* What a failed attempt leaves in memory: its data if it timed out, or nothing.
AttemptMem == {mem} \cup (IF params.count = 1 THEN {BlockRead} ELSE {})

AttemptStatusLost ==
    /\ pc = "command"
    /\ mem' \in AttemptMem
    /\ retries' = retries + 1
    /\ IF retries' <= SanRetries THEN UNCHANGED pc ELSE pc' = "returned"
    /\ UNCHANGED <<call, params, remaining, rc, al>>

\* An attempt fails, having moved its data or not.  The last one
\* ends the call; INT 13,42 then reports that no block was transferred.
AttemptFails ==
    /\ pc = "command"
    /\ mem' \in AttemptMem
    /\ retries' = retries + 1
    /\ IF retries' <= SanRetries
       THEN UNCHANGED <<pc, rc, al>>
       ELSE /\ pc' = "returned"
            /\ rc' = "READ_ERROR"
            /\ al' = IF call.kind = "extended" THEN 0 ELSE al
    /\ UNCHANGED <<call, params, remaining>>

\* The caller takes the result and may call again.
Return ==
    /\ pc = "returned"
    /\ pc' = "caller"
    /\ call' = NoCall
    /\ retries' = 0
    /\ rc' = "ok"
    /\ al' = 0
    /\ params' = [lba |-> 0, count |-> 0, buffer |-> 0]
    /\ remaining' = 0
    /\ mem' = [a \in Areas |-> [i \in Cells |-> Untouched]]

Next ==
    \/ int13_rw_sectors \/ int13_extended_rw \/ int13_cdrom_read_boot_catalog
    \/ Fragment \/ Finish \/ CommandSucceeds \/ AttemptFails \/ Return
    \/ Undefined

Spec == Init /\ [][Next]_vars

-----------------------------------------------------------------------------
\* Every variable has its type; a fragment is one block and never longer than what
\* remains (params.rw.count in sandev_rw), nor tried more often than allowed.
TypeOK ==
    /\ pc \in {"caller", "fragment", "command", "returned", "undefined"}
    /\ call \in [kind : {"none", "sectors", "extended", "catalog"},
                 scale : Nat \ {0}, lba : Nat, count : Nat,
                 named : Areas, area : Areas]
    /\ call.area = phys_to_user(call.named)
    /\ params \in [lba : Nat, count : Nat, buffer : Nat]
    /\ remaining \in Nat
    /\ retries \in 0 .. SanRetries + 1
    /\ rc \in {"ok", "INVALID", "READ_ERROR"}
    /\ al \in Nat
    /\ mem \in [Areas -> [Cells -> Contents]]
    /\ pc \in {"fragment", "command"} => params.count = 1
    /\ pc = "command" => params.count <= remaining /\ retries <= SanRetries

\* The first device block and the number of device blocks of the request.
First == call.lba * call.scale
Total == call.count * call.scale

\* Where the loop of sandev_rw stands: what has been done and what remains add
\* up to the request, and block and buffer advance together.
Progress ==
    pc \in {"fragment", "command"} =>
        /\ params.buffer + remaining = Total
        /\ params.lba = First + params.buffer

\* In the middle of a call, the blocks already transferred are in place and
\* nothing outside the fragment being transferred has been touched, however often
\* the fragment has been tried.
PrefixInPlace ==
    pc \in {"fragment", "command"} =>
        \A i \in Cells :
            /\ i < params.buffer => mem[call.area][i] = Block(First + i)
            /\ i >= params.buffer => mem[call.area][i] \in {Untouched, Block(First + i)}

\* No call writes outside the buffer it was given: neither past the blocks asked
\* for, nor into memory the packet did not name (the buffer that int13_extended_rw
\* selects, advanced by sandev_rw).  This is so for packets that fit into struct
\* int13_disk_address and buffers that a 32-bit pointer reaches: a longer packet
\* overwrites the stack, and a buffer above 4GB is taken for the one 4GB, or a
\* multiple, below.
OnlyBufferWritten ==
    (pc # "undefined" /\ call.named # "high") =>
        \A a \in Areas, i \in Cells :
            mem[a][i] # Untouched => a = call.named /\ i < Total

\* A read that returns success has brought the whole of every block asked for,
\* each to its place in the memory that was named ("Read from SAN device",
\* sandev_read), if a 32-bit pointer reaches it.
SuccessBringsBlocks ==
    (pc = "returned" /\ rc = "ok" /\ call.named # "high") =>
        \A i \in Cells :
            i < Total => mem[call.named][i] = [lba |-> First + i, whole |-> TRUE]
=============================================================================
