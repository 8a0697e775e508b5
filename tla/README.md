# Verification of the NVMe INT 13 option ROM

TLA+ specifications of the parts of this repository that boot a legacy BIOS PC from an
NVMe drive, the TLC configurations that check small instances of them, and proofs that
the TLAPS proof system checks for every value of the constants.  Paths below are
relative to `src/src/`.

Contents: [the system](#the-system) · [modules](#modules) ·
[how the models correspond to the code](#how-the-models-correspond-to-the-code) ·
[runs](#runs) · [fairness](#fairness) · [proofs](#proofs) ·
[where code and comments disagree](#where-code-and-comments-disagree) ·
[what is not modelled](#what-is-not-modelled) ·
[what could come next](#what-could-come-next) · [running it](#running-it)

## The system

The BIOS enters the option ROM, which installs a copy of the program at the top of base
memory and in high memory and calls `main`.  `ipxe()` in `usr/autoboot.c` hooks INT 13 drive
0x80 onto the URI `nvme:0`, describes the device and boots it.  After that the machine is in
real mode and the program lives on as a handler of INT 13 and INT 15.  If the boot fails it
returns to the BIOS, and the BIOS may enter the ROM again.  From the ROM and the caller of
INT 13 down to the hardware:

| Part | Code | State | Operations |
|---|---|---|---|
| Option ROM and main flow | `arch/x86/prefix/romprefix.S`, `libprefix.S`, `core/init.c`, `core/device.c`, `usr/autoboot.c`, `arch/x86/image/bootsector.c` | interrupt vectors, `hooked_bios_interrupts`, free base memory, copies in memory | `exec`, `startup`, `int13_boot`, `bootsector_exec_fail`, `shutdown`, `free_basemem` |
| Memory map | `arch/x86/interface/pcbios/hidemem.c`, `e820mangler.S`, `memmap.c` | hidden regions, the cached entry of the BIOS's map | INT 15,e820, e801 and 88, `get_memmap` |
| External heap | `arch/x86/interface/pcbios/memtop_umalloc.c` | top, bottom and size, headers in memory | `memtop_urealloc` |
| INT 13 drive numbers | `arch/x86/interface/pcbios/int13.c`, `biosint.c` | registered devices, BIOS data area and its cached copy, interrupt vector and chaining vector | hook, unhook, dispatch of a call, renumbering, `int13_check_num_drives` |
| INT 13 transfers | `int13.c`, `core/sanboot.c` | the request, the fragment, the caller's memory | INT 13,02, 13,42, 13,4d, `sandev_rw` |
| INT 13 geometry | `int13.c` | geometry of a drive, its partition table | guessing, INT 13,02 addressing, INT 13,08, INT 13,48 |
| SAN device layer | `core/sanboot.c` | active path, command interface, expiry timer, `command_rc` | register, reopen, command with retries, reset, unregister |
| iPXE objects | `core/interface.c`, `core/refcnt.c`, `core/process.c`, `net/retry.c` | destinations and descriptors of interfaces, reference counts, run queue, timers | plug, nullify, close, restart; get, put; add, delete, step; start, stop, expire |
| NVMe block device | `drivers/block/nvme.c` | `opened`, `busy`, the interface `dummy`, the completion process | open, close, read, write, read capacity, `nvme_step` |
| NVMe controller | `nvme.c` | registers, queues, identify buffer, bounce buffer, namespace | `nvme_controller_enable`, `nvme_probe_ns`, their error exits |
| NVMe queue pair | `nvme.c`, `nvme-int.h` | rings in memory, heads, tails, phase, doorbells | get, fill, commit, poll, consume, retry |
| Heap | `core/malloc.c` | free list, blocks in use, statistics | `alloc_memblock`, `free_memblock`, `realloc`, discarding of caches |

The program runs on one CPU and is cooperative: INT 13 handlers run to the end, and the
SAN layer waits in loops that step the processes of the run queue.  What is concurrent
with it is the controller (it fetches commands, writes data and completions by DMA), the
clock, the BIOS (which may rewrite the drive counts), and other resident programs (which
hook interrupts over or under this one, and read the memory map in turns).

What makes it hard, and where the properties look:

* one phase bit tells a new completion from one of an earlier pass over the ring, and
  nothing compares command identifiers;
* the driver completes a read before it returns, yet reports completion later, from a
  process, through a *global* interface: timeouts, retries and resets meet completions of
  earlier commands;
* closing an interface calls its peer, which closes interfaces of its own and comes back;
* the driver opens the controller anew at every reset, with queues of the previous time
  still known to the hardware, and its error exits release what was set up half way;
* a request is cut into fragments, each retried on its own, possibly after its data has
  arrived;
* drive numbers are swapped under the BIOS's feet, and everything that counts drives has
  to be kept consistent;
* a geometry is reconstructed from addresses that were capped at cylinder 1023;
* memory may be given back only when no vector leads to it, while hooks can be undone only
  in the reverse order, which neither failed boots nor other programs respect;
* all readers of the memory map share a cache of one entry, and the map they read changes
  with the program's own external heap.

`PROJECT.json` lists these hazards with their lines and the properties that cover them.

## Modules

| Module | Models | Lines of argument |
|---|---|---|
| `NvmeQueuePair` | a queue pair and the controller behind it, interleaved | implements `BlockRead`; proofs in `NvmeQueuePairProofs` |
| `BlockRead` | what a queue pair promises: the block asked for, or (admin queue) an error | abstract specification |
| `NvmeController` | bring-up, probe and error exits, repeated opens, against a controller that performs DMA | memory ownership; proofs in `NvmeControllerProofs` |
| `IpxeCore` | interfaces, reference counts, run queue, timer, as functions on a state | used by `SanNvme` |
| `SanNvme` | SAN device with one path over the NVMe block device, from registration to removal | reference counts, timeouts, liveness |
| `Int13Drives` | drive numbers, counts and the interrupt vector | routing of calls; proofs in `Int13DrivesProofs` |
| `Int13Transfer` | INT 13 reads down to what is in memory | proofs in `Int13TransferProofs` |
| `Int13Geometry` | guessing and using a geometry | proofs in `Int13GeometryProofs` |
| `Malloc` | the heap | partition of memory |
| `OptionRom` | entries of the ROM, installation, `main`, boot and return, with several copies and other programs | residence of interrupt handlers; proofs in `OptionRomVectorProofs`, `OptionRomProofs` |
| `MemoryWindows` | the hidden regions, the four windows between them, and the sizes cut to them | proofs in `MemoryMapProofs` |
| `MemoryMap` | INT 15 and its cache, `get_memmap`, the external heap, interleaved readers | proofs in `MemoryMapProofs` |

The `MC…` modules give constants to these for TLC, one `.cfg` per run.

The components meet as in the code.  `SanNvme` composes three of them (SAN layer, NVMe
block device, object plumbing) in one state.  It takes from `NvmeQueuePair` only what
`BlockRead` says: a read brings its block, or polls for ever (`ReadSticks`).  It takes from
`NvmeController` the outcomes of an open (`OpenOutcomes`): absent, failed, a usable
namespace, none, or a garbage namespace pointer.  `Int13Transfer` sees a
`sandev_command` as a number of failing attempts and possibly a success.
`NvmeController` sees the heap as regions, of which allocation returns the first free one
or NULL; `Malloc` is that heap in detail.  `OptionRom` sees registration and boot as success
or failure, and the memory map as the set of places that no copy on the INT 15 chain hides;
`MemoryMap` is one of these copies in detail.

## How the models correspond to the code

`PROJECT.json` maps every definition to its lines.  The main decisions:

**NvmeQueuePair.**  `pc` is the place in `nvme_io_xfer` or `nvme_admin_identify`.  The
entries live in shared memory (`sqe`, `cqe`) and the doorbells in `dbl`; the controller
fetches an entry only after the doorbell, writes the data, then the completion, whose last
word (with the phase bit) comes last.  The content of a block is named by its address.
The `io` queue repeats a failed command, the `admin` queue reports the failure.  The index
arithmetic is `(i + 1) & (length - 1)`, exactly as written, for any length
(`NextIndex`), and `SqFull` compares `head + 1` with `tail`, as `nvme_get_next_sqe` does.
`IoLength` is the length the code takes from the controller's `CAP.MQES`.

**NvmeController.**  Memory is a set of regions with what each is allocated for.  The
controller remembers the addresses it was given, reads and writes them when it executes,
and records in `hw.stray` if one of them was no longer allocated for that purpose.  Every
allocation and every command may fail.  `ctrl` comes from `malloc`, so fields nobody has
assigned hold `Unset`.  Where the code writes through NULL, follows such a field, or gives
memory of `malloc_phys` to `free()`, `pc` becomes `"undefined"` and the model stops: `wild`
says what the driver did, and the properties claim nothing from there on.  Every error exit of
`nvme_controller_enable` that releases a queue ends there.

**IpxeCore and SanNvme.**  An operation of the object layer is a function from the record
`s` to the next one; since nothing preempts it, an action of `SanNvme` is one handler with
all the calls it makes.  `intf_close` and `intf_shutdown` are mutually recursive as in the
code.  Two places have undefined behaviour: `dummy` is used with a NULL destination and a
NULL descriptor, and `ctrl->ns` may be garbage.  The first is modelled as what the build
does (the reference count pointer near address 0 reads as none), the second as a choice;
both are recorded in `wild`.  `lost` counts references the code forgets, which makes
`RefcountsExact` an equation.  Which process runs next comes from the run queue, kept as
a sequence; whether fifteen seconds have passed when the retry process looks is a choice.

**Int13Drives.**  Drive numbers are the real ones.  `int13_hook` and `int13_unhook` are the
handlers including the trailing counts and vector changes.  A call goes from the wrapper
(`int13_wrapper`) to `int13`, from there to the next handler or not, and back through the
wrapper (`Return`), which fixes up `dl`.  Between calls the BIOS may restore its own
counts and another resident program may hook or unhook the vector.

**Int13Transfer.**  Memory is four areas (the segment:offset buffer, a physical buffer below
and one above 4GB, and physical address 0), each a row of cells as large as a device block.
A packet shorter than its fields reads as zeros; one longer than the structure it is copied
to overwrites the stack and leads to `"undefined"`; a buffer above 4GB is reached through a
32-bit pointer, which names another one (`phys_to_user`).  A fragment is one block, which is
the `max_count` of the NVMe device.  `Devices` gives scale (2048-byte CD-ROM requests on
512-byte blocks have scale 4) and boot catalog.  `SmallBlocks` says that blocks have 512
bytes, which is what the driver copies.  Block numbers and counts are natural numbers: the
32-bit product of count and scale cannot wrap for a buffer that fits into memory.

**Int13Geometry.**  Each of the four entries of the partition table comes from a partitioning
tool with a geometry of its own, which writes capped and packed addresses (`ToolChs`), is the
protective entry of a GUID partition table, or is something else (`others`), since nothing
tests whether the sector holds a partition table.  The unsigned 32-bit arithmetic of the code
is arithmetic modulo `Word`; a product of heads and sectors that is 0 there is divided by, and
leads to `"undefined"`.  Addresses of INT 13,02 are packed and unpacked bit for bit.

**Malloc.**  Sizes and addresses are counted in units of a pointer's alignment, in a
`size_t` that overflows at `SizeLimit`.  `request` is the allocation in progress, so that
the caches are discarded between two searches.

**OptionRom.**  Base memory is counted in units of one copy, and high memory in places that
lie apart, one more than copies.  `base` and `high` say whose content is in each: whatever the
BIOS or a boot sector is told is free (`fbms`, `Hidden`) may be used by them at any time.  A
handler on a vector is `Bios`, `Rom` (`int19_entry`), `Ipxe(i)` or `Other(k)`; `Reached` follows
the chain.  The places between which the program cannot be interrupted are the values of
`at`; between them are the points where each call can fail.  An `INT 18` raised because the
BIOS's stack was overwritten is among those of `RaiseFail`.  A copy whose vector for INT 18
or 19 another program has covered may be resumed after it has left; it then returns through
its saved stack, which is taken to be as it was.  `exec` decompresses to memory that INT 15
shows, or to the block from the POST memory manager if there is one (`decompress_to`), at every
entry and whatever is in it.  From there `relocate` moves the program to the highest place
that is shown above it, and leaves it where it is if there is none (`Relocated`).  An entry
that overwrites a copy in the block ends the behaviour (`at[1] = "overwritten"`).

**MemoryWindows and MemoryMap.**  Addresses are small numbers; a 64kB block, a page, 640kB, 1MB,
16MB and 4GB are constants in the right order.  `get_underlying_e820`, `get_windowed_e820`,
`get_nonempty_e820` and `get_mangled_e820` are functions of the cache and the continuation value,
as in `e820mangler.S`, with the window in the upper and the entry in the lower half of that
value.  A reader may give up in the middle and start over, and the external heap changes
only while no reader is at work, since the program does not run then.  A caller asks for 20
or for 24 bytes of an entry, and the cache holds what was asked for last (`wide`).  Regions
reach above 4GB, and lengths are computed in 32 bits.  `mem` holds the headers of the external
heap and whose data is in each cell, so that a block that moves without its data is noticed.
Failed allocations keep what they have done to `bottom`; when a header is then read where none
was written, or written outside of the heap, the model stops (`heap.lost`).

## Runs

"States" are distinct states.

| Run | Instance | States | Shows |
|---|---|---|---|
| `queue` | I/O and admin commands on a submission ring of length 2 and a completion ring of length 4, which wrap at different times; two blocks; success or a media error | 14,232 | `NoNullSqe`, `PollExact`, `ReadReturnsBlock`, `CompletionIsOurs`, `SubmittedEntriesStable`; every call returns with its block, or the failure (`ImplementsBlockRead`) |
| `san_device` | one retry, three INT 13 calls of one or two blocks, all outcomes of opens and timeouts | 86,527 | `RefcountsExact`, `FreedObjectsUnused`, `SanAssertions`, `SuccessMeansDone`, `ResetRevives`, `ReleasedAtOnce`; `CallReturns` |
| `san_stuck` | no retry, one call | violation | `TimeoutCoversCommand` fails |
| `controller` | 14 regions: opens until memory is used up | 3,204 | `DeviceTouchesOwned`, `OpenIsUsable`, `NoIdentifyLeak`; `OpenReturns` |
| `controller_free` | 6 regions | violation | `FreesMatchAllocator` fails |
| `drives` | 2 BIOS disks, 1 floppy drive, hooks of numbers 0, 128 and "next", up to two SAN devices, counts up to 4 | 239,571 | `ChainIsSound`, `CountsCoverDrives`, `CallerToldOfDrives`, `DriveServed`, `DisksReachable` |
| `transfer` | scales 1 and 4, counts 0, 1, 4, packets of 8 to 40 bytes, buffers below and above 4GB, one retry | 2,495 | `PrefixInPlace`, `OnlyBufferWritten`, `SuccessBringsBlocks` |
| `transfer_large` | the same with large blocks | violation | `SuccessBringsBlocks` fails |
| `geometry` | twelve disks in words of 15 bits, with all tables of four entries that are unused, protective, cut at given places or, on one disk, foreign | 360,995 | `GuessRecoversTool`, `PartitionsReadable`, `AcceptedOnDisk`, `WrittenTableFits`, `ParametersAreLast`, `ValidReachesPartitions` |
| `heap` | a misaligned heap of 26 words, up to 4 blocks of one or two units, alignments 1, 8, 16, and sizes that overflow | 221,645 | `FreeListSound`, `HeapPartitioned`, `NullMeansNoRoom` |
| `boot` | two entries of the ROM, two hooks of other programs, on a PnP BIOS or not, with a block from POST or not | 272,531 | `HandlersResident`, `CleanExit` |
| `memory` | nine BIOSes, two blocks of sizes 0, 1 and 4, one failed allocation, two readers | 519,587 | `EnumerationExact`, `SizesVisible`, `BlocksIntact` |

`queue` also checks the `TypeOK` of its module, on which the proofs rest.

Why the bounds are enough to be interesting:

* *Queues.*  Lengths 2 and 4 let both rings wrap, at different times, with stale entries of
  both phases in the slots.  The admin queues of the code have 64 and 256 entries; its I/O
  queues have equal lengths, which is an easier case.  The proofs cover all lengths up to 256
  that are powers of two.  Other lengths are possible in the code and are covered by neither
  (see [below](#where-code-and-comments-disagree)).
* *SAN device.*  One retry gives a failed attempt, a retry that meets the busy flag of the
  attempt before, and a reopen between them; three calls give read, reset, read; two
  blocks give a call whose second command fails.
* *Controller.*  An open keeps six regions, and the bounce buffer the first time, which no
  close releases; 14 regions give a second open that succeeds and a third that runs out
  of memory.
* *Drives.*  Two devices on two BIOS disks give a device at the number of a BIOS disk, at the
  next free number and at the first of its kind, a second one hooked over the first, and both
  orders of unhooking.  A drive argument that is the natural number of the other device is not
  among them; `DriveServed` fails for it (see [below](#where-code-and-comments-disagree)).
* *Transfer.*  Requests of 0, 1, 4 and, scaled, 16 device blocks move block by block, each of
  which may fail before or after its data has moved.  The proofs cover other lengths and
  scales.
* *Geometry.*  The disks have cylinders beyond 8 bits (300) and beyond 10 bits (2100, with
  capped addresses), the default geometry, a disk smaller than a cylinder, floppy sizes
  that are recognised and not (one of which is recognised by its low word only), and blocks
  that are not sectors.  `Word` is 2^15, which is below the sizes of two disks and lets the
  products of heads and sectors of the foreign entries wrap around or become 0.
* *Heap.*  The start is in the middle of a unit, and so is the end; four blocks in 6 units
  give every pattern of free neighbours when a block is freed.
* *Boot.*  Two copies give one entered while the vectors of the first are still hooked; two
  hooks of other programs can cover two vectors of one copy, or both copies on one vector.
  A block from POST may be any place or none.
* *Memory.*  The maps have reserved and disabled entries, empty and adjacent ones, memory above
  4GB, a hidden region in the middle of an entry, and two of them fail the sanity checks of
  `meme820`; the sizes come from the first or the second pair of INT 15,e801 or from INT 15,88.
  All of them list base memory first (see below for one that does not).  Three different
  sizes of two blocks reach every branch of `memtop_urealloc`, including blocks that are padded
  for alignment and allocations that fail; `MaxFailures` bounds the failed
  ones, each of which lowers the bottom of the heap once more.  Readers and owners of blocks are interchangeable, which the runs use.

### Properties in a sentence

* `PollExact`: the driver sees an entry as new if and only if the controller has posted it
  and it was not consumed.
* `SubmittedEntriesStable`: an entry is not rewritten between doorbell and fetch.
* `DeviceTouchesOwned`: the controller never touches memory that is not, or no longer,
  allocated for its command, across all reopenings and all failures whose outcome is defined.
* `RefcountsExact`: the count of an object is the number of references that exist plus the
  ones the code is known to lose.
* `SuccessMeansDone`: status 0 in `sandev_command` means that *this* command was carried
  out, not an earlier one whose completion was late.
* `ResetRevives`: after a successful reset the device is active and not busy: the late
  completion has run by then.
* `ReleasedAtOnce`: a device that was given up is freed before its handler returns, unless a
  completion is still queued or a failed open has lost a reference.
* `DisksReachable`: whatever was hooked and unhooked, each BIOS disk is reached by exactly
  one of the numbers a caller is told of.
* `PrefixInPlace`, `SuccessBringsBlocks`: during a call and after a success the blocks that
  count as transferred are in their place.
* `AcceptedOnDisk`, `WrittenTableFits`: an address that is accepted is on the disk as long as
  heads times sectors fits into a word, and with tables that tools wrote it does.
* `ValidReachesPartitions`: when INT 13,48 calls the geometry valid on a disk that a tool has
  cut at cylinders, every block of every partition has an address.
* `PartitionsReadable`: the start address a partitioning tool wrote into the table leads to
  the partition's first block.
* `FreeListSound`: the free list is in order, its blocks do not touch each other, and none is
  too small for its entry, which is what `check_blocks` asserts in a debug build.
* `HandlersResident`: a copy that any interrupt vector leads to is intact in base and high
  memory, and its INT 13 handler finds its SAN device and its devices.  The exception it names
  is a copy that has stayed in the block from POST when the ROM is entered again.
* `CleanExit`: a copy that hooked no drive leaves vectors, base memory and map as they were.
* `EnumerationExact`: whoever reads the map to its end got every address that is not hidden
  exactly as often, and with the type, as the BIOS reports it, and none that is hidden.  That
  memory is disabled is seen for sure only if all readers ask for attributes.
* `SizesVisible`: the sizes of extended memory never count hidden memory.
* `BlocksIntact`: each block of the external heap is memory, hidden, and holds its data, until
  the heap takes something for a header that is none.
* `NullMeansNoRoom`: an allocation fails only if there is no aligned gap of that size
  between the blocks in use, and nothing is cached.

## Fairness

* `NvmeQueuePair`: weak fairness of the driver, whose loop runs on the only CPU; weak
  fairness of the controller, which answers; and strong fairness of a successful
  execution: the device does not fail the same command for ever.  `nvme_io_xfer` retries
  without limit and `nvme_wait` polls without limit, so nothing less makes a read return.
* `SanNvme`: the CPU goes on (`Running`), and the clock that ends a sleep goes on
  (`WakeUp`).  Both are weak fairness conditions, written out with the states in which the
  actions are enabled (`CanRun`), because TLC cannot evaluate `ENABLED` of the recursive
  interface operations in reasonable time.  The controller is *not* fair there: `CallReturns`
  excludes the calls that poll for ever.  The INT 13 caller is never obliged to call.
* `NvmeController`: weak fairness of driver and hardware.  `OpenReturns` counts a step without
  a defined outcome as an end.
* All other runs check safety only.

Deadlock is checked in all passing runs except `boot`, where the machine may halt
(`install_death`).

## Proofs

| Theorem | Module | Says, for all constants |
|---|---|---|
| `AdminLengths`, `IoLengths` | `NvmeQueuePairProofs` | which queues have the lengths the other theorems need |
| `TypeCorrect`, `NoNullDereference`, `PhaseBitIsExact`, `ReadsAreCorrect`, `CompletionsAreOurs` | `NvmeQueuePairProofs` | the invariants of the queue pair, under the hypotheses below |
| `SubmittedEntriesAreStable` | `NvmeQueuePairProofs` | its action property, likewise |
| `Refinement` | `NvmeQueuePairProofs` | the queue pair implements `BlockRead` (safety), likewise |
| `DeviceTouchesOwnedTheorem`, `OpenIsUsableTheorem`, `NoIdentifyLeakTheorem` | `NvmeControllerProofs` | memory ownership, across reopenings and failures whose outcome is defined |
| `PrefixIsInPlace`, `BufferRespected`, `SuccessIsComplete` | `Int13TransferProofs` | a transfer loses, repeats and misplaces nothing |
| `ChainSound`, `CallersToldOfDrives` | `Int13DrivesProofs` | the chain of INT 13, and the count a caller gets |
| `CountsCoverAll`, `DrivesAreServed`, `DisksAreReachable`, with `NumbersInvariant` | `Int13DrivesProofs` | counts and renumbering, under the hypotheses below |
| `AddressesStayOnDisk`, `ToolTablesFit` | `Int13GeometryProofs` | an accepted address is on the disk if heads times sectors fits into a word, which it does with tables of tools |
| `ToolGeometryRecovered`, `PartitionsAreReadable` | `Int13GeometryProofs` | the guess recovers the tool's geometry, and the table's addresses lead to its blocks |
| `ParametersNameLast`, `ValidGeometryReaches` | `Int13GeometryProofs` | what INT 13,08 and INT 13,48 report |
| `BootInvariant`, `HandlersAreResident`, `ExitsAreClean` | `OptionRomProofs` | copies that are needed are intact, but for the exception above; others leave no trace |
| `WindowsShowTheRest` | `MemoryMapProofs` | the pieces of an entry are exactly what is not hidden of it |
| `SizesAreVisible` | `MemoryMapProofs` | INT 15,e801 and 88 count no hidden memory |

**Queue pair.**  The module itself assumes only lengths from 2 to 256.  The theorems have two
hypotheses, which are part of their statements:

* `LengthsArePowersOfTwo`, in all of them.  `AdminLengths` shows it of the admin queues, and
  `IoLengths` of the I/O queues of a controller that allows 256 entries or more, or a power of
  two of them.  With any other `CAP.MQES` the code takes another length, and nothing is proved.
* `StatusCodesTell`, in `ReadsAreCorrect` and `Refinement`: the only status with code 0 is
  success.  This is about the device; the code does not look at the status code type, and
  with a device that breaks it a failed read passes for a good one.

What happens without them is described [below](#where-code-and-comments-disagree).  None of the
invariants is inductive alone.  The strengthening `IInv` says that the driver has at most one command with the controller, in one of three places
(`Submitted`, `Running`, `Posted`), that the doorbells agree with the driver's indices, and
that the slots of the completion ring before the controller's tail carry its phase and the
others the opposite one.  From the last part follows that polling is exact; from the first
that the queue never looks full.

**Controller.**  For every number of regions of the heap (`RegionsAssumption`: at least one).
That the controller touches nothing it should not is about the moment a command is carried
out, so the inductive invariant `CInv` says, for each place of the driver (`Stage`), what is
allocated for what, what the controller has been told, and which command it may have.  The
parts that carry the argument: it has a command at five places only, and everything that
command names is allocated for it there (`CommandIsOwned`); whenever queues are released no
command is with the controller (`CompletedIsQuiet`); and while the admin queues are allocated
anew it is switched off and not ready, so what it still knows of the old ones is forgotten.
What is invariant is `Safe`: `CInv`, or `pc = "undefined"`.

**Transfer.**  Assumption: the sizes are natural numbers, and memory has room for the longest
request.  The inductive invariant is the type invariant, `Progress` (what is done and what
remains add up, block and buffer advance together), `PrefixInPlace`, that only the buffer in
use is written (`OnlyCallWritten`), and that a successful call has moved everything
(`AllMoved`).  `SuccessIsComplete` needs 512-byte blocks; `transfer_large` shows why.  The
conditions on packets and buffers are part of the properties.

**Geometry.**  For every disk of the type `GeometryAssumption` states, every table of unused,
protective, tool-written and foreign entries, and every `Word` above 2^14.  The inductive
invariant `GInv` bounds the entries of the table, the guess and the registers, and ties the
number of cylinders to the size of the disk; the core is the lemma `BoxBound` on numbering the places
of a box.  For the guess, cylinder, head and sector are the digits of a block number in a
mixed base (`ToolDigits`, `ChsRoundTrip`), and packing them into a table entry and into
registers loses nothing below cylinder 1024 (`ToolChsDecoded`, `RegsRoundTrip`).  The second
invariant, `GuessInv`, says that on a disk whose entries end with cylinders the scan has
found nothing before the first entry in use and the tool's geometry from there on
(`Scanned`), and that the guess leaves what the scan found for the calls (`Settled`); for
tables without foreign entries it also bounds the guess, which gives `ToolTablesFit`.

**Drive numbers.**  For every number of BIOS drives and of devices, every set of drive
arguments and any order of hooking, unhooking and calls.  The vector, the wrapper's
chaining vector and another handler can be linked in five ways (`Links`), and every step
leads from one to another.  `CountsInv` says that the counts iPXE remembers cover the
devices, and those of the BIOS data area as well once a call has been looked at;
`int13_sync_num_drives` takes a maximum, so it is shown once for an arbitrary set of devices
(`SyncedFacts`).  Two hypotheses about the drive arguments are needed, and both fail for a
reason (see [below](#where-code-and-comments-disagree)):

* `FloppiesFit`: at most four floppy drives are counted, or none is asked for.  The
  equipment word has two bits for them.
* `ArgsDisplace`: a device is hooked at the next free number, at the first of its kind, or
  at that of a BIOS drive, never at a number beyond, which a later device could get as its
  natural number.  Then numbers are distinct (`DistinctNumbers`), the search in `int13()` has
  one answer (`RouteOfDevice`), and the renumbering is a permutation of the disks.

The boot from NVMe asks for 0x80 only and satisfies both, and so do the arguments of the run.
`ChainSound` and `CallersToldOfDrives` need neither.

**Option ROM.**  For every number of entries, of foreign hooks and of units of base memory,
at least one per entry (`OptionRomAssumption`).  `BootInv` is about five things.  The
handlers of an interrupt form a stack with the BIOS or the ROM at the bottom, of which
every hook knows the one below it and nobody is on it twice (`IsStack`); hooking pushes,
unhooking pops, or does nothing where another program is on top.
`hooked_bios_interrupts` is the number of chaining vectors a copy has (`Counted`).  INT 15
is among them if any is (`Anchored`): it is hooked first, and `unhide_etherboot` leaves it
alone as long as the count says that something else is hooked.  So every copy that a vector
leads to is on the chain of INT 15 (`HookedHidden`), the memory map never shows its high
memory, and `free_basemem` never gives back its base memory.  A copy that is hooked or runs
is therefore resident (`MemInv`), and it keeps its devices while INT 13 is hooked
(`DevInv`).  What is invariant is `BootSafe`: `BootInv`, or a state in which an entry has just
overwritten a copy in the block from POST (`Overwritten`), for which the proof shows that no
other copy was touched.  `Reached` walks a chain with a recursive function; `ReachedWithin` and
`ReachedAlong` say what it computes.  For `CleanExit` a second invariant, `CleanState`, says
for each place of the program which interrupts the one copy that runs has hooked, in a
machine where nobody else hooks and INT 13 is not hooked.

**Memory map.**  Assumptions: `WindowsAssumption` (the order of the landmarks) and, as a
hypothesis, `Ordered(hid)`: the external heap lies below `.text`, which `hide_umalloc` asserts and
`BlocksIntact` checks.  The lemmas reduce a window to an intersection and bound a number of
blocks by what fits; the case of interest is a first region that no longer reaches 16MB.

Induction over natural numbers is done with sets: a set of numbers that contains 0 and the
successors of its elements contains them all (`SetInduction`, from the well-foundedness of
the order).  That is how facts about the recursive function of `Reached` are proved without
a theorem that takes an operator.

Only model-checked: liveness (`CallReturns`, `OpenReturns` and the
fairness part of `ImplementsBlockRead`); everything about `SanNvme`, whose interface
operations are RECURSIVE operators, which the prover does not handle; `EnumerationExact` and
`BlocksIntact`, which are about a walk over the map and over a list of headers in memory;
and `Malloc`, whose operators fold operators over sequences and sets.

## Where code and comments disagree

Three runs end in a violation:

* `san_stuck`: `core/sanboot.c:60` wants "an overall timeout for all commands"; the driver
  waits inside `block_read`, before the timer is started, and without limit.
* `controller_free`: `nvme.c:299` releases queues with `free()`; `core/malloc.c` says of
  memory from `malloc_phys()` that it "cannot be freed with free()".
* `transfer_large`: `nvme.c:779` copies 512 bytes of every block, whatever its size, while
  `sandev_read` returns success for the whole.

Observed while modelling, without a run of their own.  In these the repository states the
opposite:

* `nvme.c:189` steps indices with `& mask`, where mask is length - 1, while the I/O queues have
  length `1 + CAP.MQES` when that is below 256, which need not be a power of two.  With
  length 6 the head goes 0, 1, 0, so that the phase is inverted where the queue does not
  wrap; `nvme-int.h:77` says of it "This is inverted after each wrap".  The run has power-of-two
  lengths, and the theorems have them as a hypothesis.
* `int13.c:555`: a failed INT 13,02 leaves the count in `al` as it was; `int13.c:510` says "@ret al
  Number of sectors read or written".
* `int13.c:947`: INT 13,48 sets the flag of which `int13.h:154` says "CHS information is valid"
  also for a drive for which no geometry was ever guessed.  `ValidReachesPartitions` is about
  drives that have one.
* `int13.c:399` asserts that heads times sectors is not 0.  With a sector that holds no
  partition table the 32-bit product can be 0, and also wrap around to a small number, with
  which addresses past the end of the disk are accepted.  The run reaches both;
  `WrittenTableFits` says that tables of partitioning tools lead to neither.
* `int13.c:1280`: without memory for the scratch area `int13_hook` returns 0, which reads as
  a drive number, while its comment promises a "negative error"; `ipxe()` then goes on to boot
  drive 0.
* `memtop_umalloc.c:182`: an allocation that has space for its header but not for its data
  leaves `bottom` lowered without a header there; `memtop_umalloc.c:61` calls it the "current
  lowest allocated block".  A later collection reads a header there.
* `umalloc.h:63` says of UNULL that "no action is taken"; `urealloc` of UNULL to size 0, which is
  what `ufree` calls, allocates a header like any other request.
* `int13.c:1175`: the comment says that the wrapper clears CF; it sets CF.

In these it does not, or the case is outside of the instances above:

* `nvme.c:164` ignores the status code type, so a path-related status (type 3, code 0)
  passes for success.
* `nvme.c:714`: the global interface `dummy` is never initialised; its first use reads
  through a NULL destination.
* `nvme.c:792`: a write is acknowledged without writing (deliberately).
* `nvme.c:946`: the result of `malloc` is written to untested, and `nvme_init_sq` and
  `nvme_init_cq` clear their memory before they compare the pointer with NULL.
* `int13.c:734`: a packet longer than `struct int13_disk_address` is copied whole over it, and
  a buffer above 4GB loses the upper half of its address.
* `int13.c:1082`: a second SAN device whose number is the first one's natural number is
  shadowed by the renumbering.  It takes a drive number argument that `ipxe()` does not
  use.
* `int13.c:444`: more than four floppy drives wrap the two-bit field.
* `int13.c:618`: a disk of less than one guessed cylinder reports 1024 cylinders.
* `e820mangler.S:252`: an entry that was fetched for a caller of 20 bytes stays in the cache
  without its attributes, and is given so to a caller of 24 bytes, to whom disabled memory then
  looks usable.
* `libprefix.S:835`: the block from POST is decompressed to at every entry of the ROM, also when
  a copy has stayed in it because `relocate` found no room above, and interrupts lead to it.
* `memtop_umalloc.c:223`: a block that fills the heap to the last byte has its header in front of
  the memory that was found for the heap.
* `memtop_umalloc.c:232`: a request of size 0 that gets padded for alignment returns a pointer
  and not `UNOWHERE`, for a block that the next collection frees.
* `memmap.c:337`: the constructed map keeps the start of the first region that `meme820` left.
  After a map that lists extended memory first, that region ends below its start, and its
  32-bit length makes it the largest: the external heap goes into base memory.

## What is not modelled

* What `int13_load_mbr` and `int13_load_eltorito` read and compare, and the contents of the
  firmware tables; `OptionRom` has their success or failure.
* SAN devices with several paths, and their ACPI descriptions; `ipxe()` hooks one URI, and
  the NVMe device offers no descriptor.
* The bounce buffer variants of `nvme_bounce_xfer` and the PRP lists, which nothing calls.
* PCI configuration, mode switches, decompression, the copy of the ROM image in a second block
  from POST, and machines whose extended memory is too small for one more copy.
* A second copy of the program that resets the controller while the first one's INT 13
  handler, further down the chain, still has queues there.
* What follows undefined behaviour: the controller after an access through NULL or a wrong
  `free()`, a transfer after an overlong packet, a division by zero, an overwritten copy, the
  external heap after it has used a header that is none.
* A wrap-around of the 32-bit product of count and scale in `sandev_rw`, which takes a request
  larger than memory.
* The network stack, other transports, cryptography, images and scripts of iPXE, which the
  boot from NVMe does not reach.
* Heap requests with an offset from the alignment, which only network code makes.

## What could come next

* Proofs of `FreeListSound`, `HeapPartitioned` and `EnumerationExact`.
* An abstract specification of a SAN device (a call returns its blocks or an error) that
  `SanNvme` implements.
* Queue lengths that are not powers of two, once the code says what it wants to do with them.

## Running it

    tlc -config MCQueuePair.cfg MCNvmeQueuePair    # and so on, see PROJECT.json
    tlapm NvmeQueuePairProofs.tla
    tlapm NvmeControllerProofs.tla
    tlapm Int13TransferProofs.tla
    tlapm Int13DrivesProofs.tla
    tlapm Int13GeometryProofs.tla
    tlapm OptionRomVectorProofs.tla
    tlapm OptionRomProofs.tla
    tlapm MemoryMapProofs.tla
