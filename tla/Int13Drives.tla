----------------------------- MODULE Int13Drives -----------------------------
(***************************************************************************)
(* INT 13 drive numbers: how arch/x86/interface/pcbios/int13.c inserts SAN *)
(* devices among the BIOS drives.  It hooks the interrupt vector           *)
(* (biosint.c), serves the calls for its own drives, renumbers the BIOS    *)
(* drives it displaces, and keeps the drive counts in the BIOS data area   *)
(* large enough, while the BIOS may write the counts back and other code   *)
(* may hook the vector over or under it.                                   *)
(*                                                                         *)
(* Drive numbers are the real ones: 0, 1, ... for floppy drives, 128, 129, *)
(* ... for hard disks; 127 and 255 ask for the next free number.           *)
(***************************************************************************)
EXTENDS Integers, Sequences, FiniteSets

CONSTANTS
    BiosHdds,    \* the hard disks the BIOS found
    BiosFdds,    \* the floppy drives the BIOS found
    DriveArgs,   \* the drive numbers san_hook is called with
    MaxDevices,  \* bound: SAN devices at one time
    MaxCount     \* bound: drives of one kind that are ever counted

ASSUME DrivesAssumption ==
    /\ BiosHdds \in 0 .. 127
    /\ BiosFdds \in 0 .. 4
    /\ DriveArgs \subseteq 0 .. 255
    /\ MaxDevices \in Nat
    /\ MaxCount \in 0 .. 127

VARIABLES
    san_devices,  \* the SAN devices in the order they were registered
    bda,          \* the BIOS data area: equipment word and number of hard disks
    cache,        \* equipment_word, num_drives and num_fdds
    vector,       \* the handler the INT 13 vector points to
    int13_vector, \* where int13_wrapper chains to, NULL when not hooked
    other,        \* where another resident handler chains to, NULL when absent
    hooked,       \* hooked_bios_interrupts, as far as INT 13 adds to it
    pc,           \* "caller", "int13", "chain" or "return"
    call,         \* the call being served: command and drive (ah, dl)
    regs,         \* dl, and the flags CF and OF, on their way back
    served        \* the SAN device that served the call, or NoDrive

vars == <<san_devices, bda, cache, vector, int13_vector, other, hooked,
          pc, call, regs, served>>
vectorVars == <<vector, int13_vector, other, hooked>>
callVars == <<pc, call, regs, served>>

NULL == "NULL"
NoDrive == -1
Commands == {"io", "last_status", "parameters", "disk_type", "cdrom_status"}
NoCall == [ah |-> "io", dl |-> 0]
NoRegs == [dl |-> 0, cf |-> FALSE, of |-> FALSE]

MaxOf(S) == CHOOSE x \in S : \A y \in S : y <= x
Devices == {san_devices[i] : i \in DOMAIN san_devices}

-----------------------------------------------------------------------------
(* The drive counts.                                                       *)

\* Bit 0 of the equipment word says that there are floppy drives, bits 6 and 7
\* hold their number less one.
NumFdds(ew) == IF ew.present THEN ew.field + 1 ELSE 0

EquipmentWord(n) == [present |-> n > 0, field |-> IF n > 0 THEN (n - 1) % 4 ELSE 0]

int13_is_fdd(d) == d.drive < 128

Required(d) ==
    ((IF d.drive < d.natural_drive THEN d.natural_drive ELSE d.drive) % 128) + 1

\* The counts int13_sync_num_drives computes from the data area and the devices.
Synced(b, devs) ==
    [fdds |-> MaxOf({NumFdds(b.ew)} \cup {Required(d) : d \in {e \in devs : int13_is_fdd(e)}}),
     hdds |-> MaxOf({b.hdds} \cup {Required(d) : d \in {e \in devs : ~int13_is_fdd(e)}})]

SyncStaleFdds(n) ==
    /\ bda' = [ew |-> EquipmentWord(n.fdds), hdds |-> n.hdds]
    /\ cache' = [ew |-> EquipmentWord(n.fdds), hdds |-> n.hdds, fdds |-> NumFdds(bda.ew)]

SyncTo(n) ==
    /\ bda' = [ew |-> EquipmentWord(n.fdds), hdds |-> n.hdds]
    /\ cache' = [ew |-> EquipmentWord(n.fdds), hdds |-> n.hdds, fdds |-> n.fdds]

\* int13_check_num_drives: a change by the BIOS is noticed and undone.
CheckNever == UNCHANGED <<bda, cache>>

int13_check_num_drives ==
    IF bda.ew # cache.ew \/ bda.hdds # cache.hdds
    THEN SyncTo(Synced(bda, Devices))
    ELSE UNCHANGED <<bda, cache>>

-----------------------------------------------------------------------------
(* The interrupt vector.                                                   *)

hook_bios_interrupt ==
    IF int13_vector # NULL
    THEN UNCHANGED vectorVars
    ELSE /\ int13_vector' = vector
         /\ vector' = "ipxe"
         /\ hooked' = hooked + 1
         /\ UNCHANGED other

\* Fails, and leaves the handler resident, when it is not the first.
UnhookAnyway ==
    /\ vector' = int13_vector
    /\ int13_vector' = NULL
    /\ hooked' = hooked - 1
    /\ UNCHANGED other

unhook_bios_interrupt ==
    IF vector # "ipxe"
    THEN UNCHANGED vectorVars
    ELSE /\ vector' = int13_vector
         /\ int13_vector' = NULL
         /\ hooked' = hooked - 1
         /\ UNCHANGED other

-----------------------------------------------------------------------------
(* Hooking and unhooking SAN devices.                                      *)

Init ==
    /\ san_devices = <<>>
    /\ bda = [ew |-> EquipmentWord(BiosFdds), hdds |-> BiosHdds]
    /\ cache = [ew |-> EquipmentWord(0), hdds |-> 0, fdds |-> 0]
    /\ vector = "bios" /\ int13_vector = NULL /\ other = NULL /\ hooked = 0
    /\ pc = "caller" /\ call = NoCall /\ regs = NoRegs /\ served = NoDrive

\* The number that appending the drive to the BIOS drives would give it.
NaturalIsLast(arg, n) == IF arg >= 128 THEN 127 + (n.hdds % 128) ELSE n.fdds

NaturalDrive(arg, n) == IF arg >= 128 THEN 128 + (n.hdds % 128) ELSE n.fdds

\* The number asked for, or the natural one.
ChosenDrive(arg, n) == IF arg % 128 = 127 THEN NaturalDrive(arg, n) ELSE arg

Hook(arg) ==
    LET n == Synced(bda, Devices)
        d == [drive |-> ChosenDrive(arg, n), natural_drive |-> NaturalDrive(arg, n),
              is_cdrom |-> FALSE, last_status |-> 0]
    IN  \/ \* no memory, or register_sandev fails, or the first sectors cannot be read
           /\ SyncTo(n)
           /\ UNCHANGED <<san_devices, vectorVars>>
        \/ /\ \A e \in Devices : e.drive # d.drive
           /\ Len(san_devices) < MaxDevices
           /\ Required(d) <= MaxCount
           /\ \E cdrom \in BOOLEAN :
                 san_devices' = Append(san_devices, [d EXCEPT !.is_cdrom = cdrom])
           /\ IF san_devices = <<>> THEN hook_bios_interrupt ELSE UNCHANGED vectorVars
           /\ SyncTo(Synced([ew |-> EquipmentWord(n.fdds), hdds |-> n.hdds],
                            Devices \cup {d}))

int13_hook ==
    /\ pc = "caller"
    /\ \E arg \in DriveArgs : Hook(arg)
    /\ UNCHANGED callVars

\* The drive counts are not reduced.
int13_unhook ==
    /\ pc = "caller"
    /\ \E i \in DOMAIN san_devices :
          san_devices' = SubSeq(san_devices, 1, i - 1)
                         \o SubSeq(san_devices, i + 1, Len(san_devices))
    /\ IF san_devices' = <<>> THEN unhook_bios_interrupt ELSE UNCHANGED vectorVars
    /\ UNCHANGED <<bda, cache, callVars>>

-----------------------------------------------------------------------------
(* A call of INT 13.                                                       *)

\* The next handler after h.
Chained(h) == CASE h = "ipxe" -> int13_vector
                [] h = "other" -> other
                [] OTHER -> NULL

\* The call passes the handlers in the order of the chain; int13_wrapper clears
\* OF and sets CF on the way to int13().
ReachesIpxe == vector = "ipxe" \/ (vector = "other" /\ other = "ipxe")

int13_wrapper ==
    /\ pc = "caller"
    /\ ReachesIpxe
    /\ \E ah \in Commands, dl \in {d.drive : d \in Devices}
                                  \cup {d.natural_drive : d \in Devices}
                                  \cup (128 .. 127 + BiosHdds) \cup {127, 255} :
          /\ call' = [ah |-> ah, dl |-> dl]
          /\ regs' = [dl |-> dl, cf |-> TRUE, of |-> FALSE]
    /\ served' = NoDrive
    /\ pc' = "int13"
    /\ UNCHANGED <<san_devices, bda, cache, vectorVars>>

\* The list entries that stop the search of int13(), and the one that does.
StopsAt(dl, ah, d) ==
    \/ dl = d.drive
    \/ dl = d.natural_drive
    \/ dl % 128 = 127 /\ ah = "cdrom_status" /\ d.is_cdrom

Stops(dl, ah) == {i \in DOMAIN san_devices : StopsAt(dl, ah, san_devices[i])}

Found(dl, ah) == CHOOSE i \in Stops(dl, ah) : \A j \in Stops(dl, ah) : i <= j

RemappedFirst(dl, ah) == dl = san_devices[Found(dl, ah)].natural_drive

Remapped(dl, ah) ==
    LET d == san_devices[Found(dl, ah)] IN dl # d.drive /\ dl = d.natural_drive

\* The status of a call for device i: 0 for success.
StatusesOf(i, ah) ==
    IF ah = "last_status" THEN {san_devices[i].last_status}
    ELSE IF ah = "cdrom_status" /\ ~san_devices[i].is_cdrom THEN {1}
    ELSE {0, 1}

Serve(i, status) ==
    /\ san_devices' = [san_devices EXCEPT ![i].last_status = status]
    /\ regs' = [regs EXCEPT !.of = TRUE, !.cf = status # 0]
    /\ served' = san_devices[i].drive
    /\ pc' = "return"

Pass(dl) ==
    /\ regs' = [regs EXCEPT !.dl = dl]
    /\ pc' = "chain"
    /\ UNCHANGED <<san_devices, served>>

int13 ==
    /\ pc = "int13"
    /\ int13_check_num_drives
    /\ IF Stops(call.dl, call.ah) = {} THEN Pass(call.dl)
       ELSE LET i == Found(call.dl, call.ah)
            IN  IF Remapped(call.dl, call.ah) THEN Pass(san_devices[i].drive)
                ELSE \E status \in StatusesOf(i, call.ah) : Serve(i, status)
    /\ UNCHANGED <<vectorVars, call>>

\* What the wrapper gives back in dl: the number of drives for INT 13,08, a part
\* of the sector count for INT 13,15 on a hard disk, else the caller's own number.
ReturnedDl ==
    CASE call.ah = "parameters" -> IF call.dl >= 128 THEN cache.hdds ELSE cache.fdds
      [] call.ah = "disk_type" /\ call.dl >= 128 -> NoDrive
      [] OTHER -> call.dl

\* The wrapper chains unless OF is set, and returns.
Return ==
    /\ pc \in {"chain", "return"}
    /\ pc' = "caller"
    /\ call' = NoCall /\ regs' = NoRegs /\ served' = NoDrive
    /\ UNCHANGED <<san_devices, bda, cache, vectorVars>>

-----------------------------------------------------------------------------
(* The rest of the machine.                                                *)

\* The BIOS writes its own counts back.
BiosRestoresCounts ==
    /\ pc = "caller"
    /\ bda' = [ew |-> EquipmentWord(BiosFdds), hdds |-> BiosHdds]
    /\ UNCHANGED <<san_devices, cache, vectorVars, callVars>>

\* Another resident program, which unhooks itself only when it is the first.
OtherHooks ==
    /\ pc = "caller" /\ other = NULL
    /\ other' = vector
    /\ vector' = "other"
    /\ UNCHANGED <<san_devices, bda, cache, int13_vector, hooked, callVars>>

OtherUnhooks ==
    /\ pc = "caller" /\ vector = "other"
    /\ vector' = other
    /\ other' = NULL
    /\ UNCHANGED <<san_devices, bda, cache, int13_vector, hooked, callVars>>

Next ==
    \/ int13_hook \/ int13_unhook
    \/ int13_wrapper \/ int13 \/ Return
    \/ BiosRestoresCounts \/ OtherHooks \/ OtherUnhooks

Spec == Init /\ [][Next]_vars
-----------------------------------------------------------------------------
\* The handlers of INT 13, from the vector on: every one once, the BIOS last.
\* With any SAN device registered, iPXE's is among them; it is there exactly when
\* hook_bios_interrupt has stored a chaining vector, which is what the count of
\* hooked interrupts counts, even when unhooking failed in between.
ChainIsSound ==
    LET second == Chained(vector)
        third == Chained(second)
        chain == {vector, second, third} \ {NULL}
    IN  /\ "bios" \in chain
        /\ (vector = "bios" => other = NULL /\ int13_vector = NULL)
        /\ second # vector /\ (third # NULL => third \notin {vector, second})
        /\ ("ipxe" \in chain) <=> (int13_vector # NULL)
        /\ hooked = IF int13_vector # NULL THEN 1 ELSE 0
        /\ san_devices # <<>> => "ipxe" \in chain

\* Once int13() has looked at a call, the counts in the BIOS data area cover every
\* SAN device and every displaced BIOS drive, whatever the BIOS wrote there.
CountsCoverDrives ==
    pc \in {"chain", "return"} =>
        \A d \in Devices :
            Required(d) <= IF int13_is_fdd(d) THEN NumFdds(bda.ew) ELSE bda.hdds

\* A caller of INT 13,08 is told of enough drives to reach every SAN device of the
\* kind it asked about, by the count the wrapper loads from num_drives or num_fdds.
CallerToldOfDrives ==
    (pc \in {"chain", "return"} /\ call.ah = "parameters") =>
        \A d \in Devices : (int13_is_fdd(d) <=> call.dl < 128) => Required(d) <= ReturnedDl

\* A call for the number of a SAN device is served by that device: no other
\* device's renumbering gets in the way (the search in int13()).
DriveServed ==
    (pc \in {"chain", "return"} /\ call.dl \in {d.drive : d \in Devices})
    => served = call.dl

\* Where a call for dl ends: at BIOS drive dl, at the BIOS drive it is renumbered
\* to, or at a SAN device.
Route(dl) ==
    IF Stops(dl, "io") = {} THEN dl
    ELSE IF Remapped(dl, "io") THEN san_devices[Found(dl, "io")].drive
    ELSE NoDrive

\* No BIOS hard disk is lost or shows up twice: exactly one of the numbers a
\* caller is told of leads to it (natural_drive of struct int13_data).
DisksReachable ==
    pc = "caller" =>
        \A disk \in 128 .. 127 + BiosHdds :
            Cardinality({dl \in 128 .. 127 + Synced(bda, Devices).hdds :
                            Route(dl) = disk}) = 1
==============================================================================
