-------------------------- MODULE Int13DrivesProofs --------------------------
(***************************************************************************)
(* For any number of BIOS drives and SAN devices, any order of hooking and *)
(* unhooking, and whatever the BIOS and another resident handler do in     *)
(* between: the chain of INT 13 stays sound, the drive counts cover every  *)
(* drive, and the renumbering neither hides a SAN device nor loses a disk  *)
(* of the BIOS.                                                            *)
(***************************************************************************)
EXTENDS Int13Drives, TLAPS, FiniteSetTheorems, SequenceTheorems, WellFoundedInduction

-----------------------------------------------------------------------------
(* The interrupt vector.                                                   *)

\* The ways the vector, int13_wrapper and the other handler can be linked.
Links ==
    \/ vector = "bios" /\ int13_vector = NULL /\ other = NULL
    \/ vector = "ipxe" /\ int13_vector = "bios" /\ other = NULL
    \/ vector = "other" /\ other = "bios" /\ int13_vector = NULL
    \/ vector = "other" /\ other = "ipxe" /\ int13_vector = "bios"
    \/ vector = "ipxe" /\ int13_vector = "other" /\ other = "bios"

VectorInv ==
    /\ Links
    /\ hooked = IF int13_vector # NULL THEN 1 ELSE 0
    /\ san_devices # <<>> => int13_vector # NULL

\* Every step keeps the links.
LEMMA NextVectorInv == VectorInv /\ [Next]_vars => VectorInv'
<1> SUFFICES ASSUME VectorInv, [Next]_vars PROVE VectorInv'
  OBVIOUS
<1> USE DEF VectorInv
<1>1. CASE int13_hook
  <2>1. \/ UNCHANGED <<san_devices, vectorVars>>
        \/ IF san_devices = <<>> THEN hook_bios_interrupt ELSE UNCHANGED vectorVars
    BY <1>1 DEF int13_hook, Hook
  <2>2. CASE UNCHANGED vectorVars /\ (san_devices' # <<>> => san_devices # <<>>)
    BY <2>2 DEF vectorVars, Links
  <2>3. CASE san_devices # <<>> /\ UNCHANGED vectorVars
    BY <2>3 DEF vectorVars, Links
  <2>4. CASE hook_bios_interrupt
    BY <2>4 DEF hook_bios_interrupt, vectorVars, Links, NULL
  <2> QED
    BY <2>1, <2>2, <2>3, <2>4
<1>2. CASE int13_unhook
  <2>1. IF san_devices' = <<>> THEN unhook_bios_interrupt ELSE UNCHANGED vectorVars
    BY <1>2 DEF int13_unhook
  <2>2. san_devices # <<>>
    BY <1>2 DEF int13_unhook
  <2>3. CASE san_devices' = <<>> /\ unhook_bios_interrupt
    BY <2>3 DEF unhook_bios_interrupt, vectorVars, Links, NULL
  <2>4. CASE UNCHANGED vectorVars
    BY <2>2, <2>4 DEF vectorVars, Links
  <2> QED
    BY <2>1, <2>3, <2>4
<1>3. CASE int13_wrapper \/ Return \/ BiosRestoresCounts \/ UNCHANGED vars
  BY <1>3 DEF int13_wrapper, Return, BiosRestoresCounts, vars, vectorVars, Links
<1>4. CASE int13
  <2>1. UNCHANGED vectorVars
    BY <1>4 DEF int13
  <2>2. CASE UNCHANGED san_devices
    BY <2>1, <2>2 DEF vectorVars, Links
  <2>3. CASE Stops(call.dl, call.ah) # {}
    <3>1. san_devices # <<>>
      BY <2>3 DEF Stops
    <3> QED
      BY <2>1, <3>1 DEF vectorVars, Links
  <2> QED
    BY <1>4, <2>2, <2>3 DEF int13, Pass
<1>5. CASE OtherHooks
  BY <1>5 DEF OtherHooks, Links, NULL
<1>6. CASE OtherUnhooks
  BY <1>6 DEF OtherUnhooks, Links, NULL
<1> QED
  BY <1>1, <1>2, <1>3, <1>4, <1>5, <1>6 DEF Next

\* The handlers of INT 13 form a chain that ends in the BIOS; iPXE's is in it while
\* it has a device to serve, also after an attempt to unhook it that failed because
\* another handler stood in front of it.
THEOREM ChainSound == Spec => []ChainIsSound
<1>1. Init => VectorInv
  BY DEF Init, VectorInv, Links
<1>2. VectorInv => ChainIsSound
  BY DEF VectorInv, Links, ChainIsSound, Chained, NULL
<1> QED
  BY <1>1, <1>2, NextVectorInv, PTL DEF Spec
-----------------------------------------------------------------------------
(* Numbers.                                                                *)

\* Every non-empty set of natural numbers has a least element.
LEMMA SmallestNat ==
  ASSUME NEW T, T \subseteq Nat, T # {}
  PROVE  \E x \in T : \A y \in T : x <= y
<1> DEFINE Less == {p \in Nat \X Nat : p[1] < p[2]}
<1>1. IsWellFoundedOn(Less, Nat)
  <2>1. Less = OpToRel(<, Nat)
    BY DEF OpToRel
  <2> HIDE DEF Less
  <2> QED
    BY <2>1, NatLessThanWellFounded, Zenon
<1>2. PICK x \in T : \A y \in T : ~ (<<y, x>> \in Less)
  <2> HIDE DEF Less
  <2> QED
    BY <1>1, WFMin, Zenon
<1>3. ASSUME NEW y \in T PROVE x <= y
  <2>1. x \in Nat /\ y \in Nat
    OBVIOUS
  <2>2. <<y, x>> \in Nat \X Nat /\ <<y, x>>[1] = y /\ <<y, x>>[2] = x
    BY <2>1
  <2>3. ~ (y < x)
    BY <1>2, <2>2
  <2> QED
    BY <2>1, <2>3
<1> QED
  BY <1>3

\* The largest element of a bounded set of natural numbers.
LEMMA MaxOfFacts ==
  ASSUME NEW S, S \subseteq Nat, S # {}, NEW bound \in Nat, \A x \in S : x <= bound
  PROVE  MaxOf(S) \in S /\ \A x \in S : x <= MaxOf(S)
<1> DEFINE Bounds == {b \in Nat : \A x \in S : x <= b}
<1>1. PICK m \in Bounds : \A b \in Bounds : m <= b
  <2>1. bound \in Bounds /\ Bounds \subseteq Nat
    OBVIOUS
  <2> HIDE DEF Bounds
  <2> QED
    BY <2>1, SmallestNat
<1>2. m \in S
  <2> SUFFICES ASSUME m \notin S PROVE FALSE
    OBVIOUS
  <2>1. \A x \in S : x \in Nat /\ x <= m /\ x # m
    OBVIOUS
  <2>2. m # 0
    <3>1. PICK x \in S : TRUE
      OBVIOUS
    <3> QED
      BY <2>1, <3>1
  <2>3. m - 1 \in Bounds
    BY <2>1, <2>2
  <2> QED
    BY <1>1, <2>3
<1>3. \E x \in S : \A y \in S : y <= x
  BY <1>2
<1> QED
  BY <1>3 DEF MaxOf

\* Drive numbers, and those of floppy drives.
Bytes == 0 .. 255
FloppyNumber(n) == n < 128

\* A device and its two numbers: both are of one kind.
SanDevice ==
    {d \in [drive : Bytes, natural_drive : Bytes, is_cdrom : BOOLEAN, last_status : {0, 1}] :
        FloppyNumber(d.drive) <=> FloppyNumber(d.natural_drive)}

\* The numbers of a device, which neither its status nor its kind of medium change.
Same(d, e) == d.drive = e.drive /\ d.natural_drive = e.natural_drive

\* The fields of a device.
LEMMA SanDeviceFields ==
  ASSUME NEW d \in SanDevice
  PROVE  /\ d.drive \in Bytes /\ d.natural_drive \in Bytes
         /\ FloppyNumber(d.drive) <=> FloppyNumber(d.natural_drive)
         /\ d.last_status \in {0, 1}
         /\ int13_is_fdd(d) <=> FloppyNumber(d.drive)
  BY DEF SanDevice, int13_is_fdd, FloppyNumber

\* A device that is put together, and one of which a field changes.
LEMMA SanDeviceBuilt ==
  ASSUME NEW a \in Bytes, NEW b \in Bytes, FloppyNumber(a) <=> FloppyNumber(b)
  PROVE  [drive |-> a, natural_drive |-> b, is_cdrom |-> FALSE, last_status |-> 0] \in SanDevice
  BY DEF SanDevice

LEMMA SanDeviceChanged ==
  ASSUME NEW d \in SanDevice, NEW cdrom \in BOOLEAN, NEW status \in {0, 1}
  PROVE  /\ [d EXCEPT !.is_cdrom = cdrom] \in SanDevice
         /\ Same([d EXCEPT !.is_cdrom = cdrom], d)
         /\ [d EXCEPT !.last_status = status] \in SanDevice
         /\ Same([d EXCEPT !.last_status = status], d)
  BY DEF SanDevice, Same

\* The count a device needs is one more than the larger of its numbers within its kind.
LEMMA RequiredFacts ==
  ASSUME NEW d \in SanDevice
  PROVE  /\ Required(d) \in 1 .. 128
         /\ int13_is_fdd(d) => d.drive < Required(d) /\ d.natural_drive < Required(d)
         /\ ~int13_is_fdd(d) => /\ 128 <= d.drive /\ d.drive - 128 < Required(d)
                                /\ 128 <= d.natural_drive /\ d.natural_drive - 128 < Required(d)
<1> DEFINE a == d.drive
           b == d.natural_drive
           n == Required(d)
<1>1. a \in Bytes /\ b \in Bytes /\ (FloppyNumber(a) <=> FloppyNumber(b))
  BY SanDeviceFields, Zenon
<1>2. n = ((IF a < b THEN b ELSE a) % 128) + 1
  BY DEF Required
<1>3. int13_is_fdd(d) <=> a < 128
  BY DEF int13_is_fdd
<1> HIDE DEF a, b, n
<1>4. /\ n \in 1 .. 128
      /\ a < 128 => a < n /\ b < n
      /\ ~(a < 128) => 128 <= a /\ a - 128 < n /\ 128 <= b /\ b - 128 < n
  BY <1>1, <1>2, SMTT(30) DEF Bytes, FloppyNumber
<1> QED
  BY <1>3, <1>4 DEF a, b, n

EquipmentWords == [present : BOOLEAN, field : 0 .. 3]

\* The equipment word counts up to four floppy drives.
LEMMA EquipmentWordFacts ==
  /\ \A n \in Nat : EquipmentWord(n) \in EquipmentWords
  /\ \A n \in 0 .. 4 : NumFdds(EquipmentWord(n)) = n
  /\ \A ew \in EquipmentWords : NumFdds(ew) \in 0 .. 4
<1>1. \A n \in Nat : EquipmentWord(n) \in EquipmentWords
  BY DEF EquipmentWord, EquipmentWords
<1>2. ASSUME NEW n \in 0 .. 4 PROVE NumFdds(EquipmentWord(n)) = n
  <2>1. n > 0 => (n - 1) % 4 = n - 1
    OBVIOUS
  <2>2. CASE n = 0
    <3>1. (n > 0) = FALSE
      BY <2>2
    <3>2. EquipmentWord(n) = [present |-> FALSE, field |-> 0]
      BY <3>1, Zenon DEF EquipmentWord
    <3> QED
      BY <2>2, <3>2 DEF NumFdds
  <2>3. CASE n > 0
    <3>1. EquipmentWord(n) = [present |-> TRUE, field |-> n - 1]
      BY <2>1, <2>3 DEF EquipmentWord
    <3> QED
      BY <3>1 DEF NumFdds
  <2> QED
    BY <2>2, <2>3
<1>3. \A ew \in EquipmentWords : NumFdds(ew) \in 0 .. 4
  BY DEF EquipmentWords, NumFdds
<1> QED
  BY <1>1, <1>2, <1>3

\* What the counts are that int13_sync_num_drives computes.
CountsEnough(b, D, fdds, hdds) ==
    /\ fdds \in 0 .. 127 /\ hdds \in 0 .. 127
    /\ NumFdds(b.ew) <= fdds /\ b.hdds <= hdds
    /\ \A d \in D : Required(d) <= IF int13_is_fdd(d) THEN fdds ELSE hdds
    /\ (\A d \in D : int13_is_fdd(d) => Required(d) <= 4) => fdds <= 4

\* What int13_sync_num_drives computes: counts no smaller than those of the data
\* area, that cover every device and stay within the bounds.
LEMMA SyncedFacts ==
  ASSUME NEW b, b.ew \in EquipmentWords, b.hdds \in 0 .. 127,
         NEW D, D \subseteq SanDevice, \A d \in D : Required(d) <= MaxCount
  PROVE  CountsEnough(b, D, Synced(b, D).fdds, Synced(b, D).hdds)
<1> DEFINE F == {NumFdds(b.ew)} \cup {Required(d) : d \in {e \in D : int13_is_fdd(e)}}
           H == {b.hdds} \cup {Required(d) : d \in {e \in D : ~int13_is_fdd(e)}}
<1>1. \A d \in D : Required(d) \in 1 .. 127
  BY RequiredFacts, DrivesAssumption
<1>2. NumFdds(b.ew) \in 0 .. 4
  BY EquipmentWordFacts
<1>3. F \subseteq 0 .. 127 /\ F # {} /\ H \subseteq 0 .. 127 /\ H # {}
  BY <1>1, <1>2
<1>4. /\ MaxOf(F) \in F /\ \A x \in F : x <= MaxOf(F)
      /\ MaxOf(H) \in H /\ \A x \in H : x <= MaxOf(H)
  <2> HIDE DEF F, H
  <2>1. 127 \in Nat /\ F \subseteq Nat /\ H \subseteq Nat
    BY <1>3
  <2>2. (\A x \in F : x <= 127) /\ (\A x \in H : x <= 127)
    BY <1>3
  <2>3. MaxOf(F) \in F /\ \A x \in F : x <= MaxOf(F)
    BY <1>3, <2>1, <2>2, MaxOfFacts
  <2>4. MaxOf(H) \in H /\ \A x \in H : x <= MaxOf(H)
    BY <1>3, <2>1, <2>2, MaxOfFacts
  <2> QED
    BY <2>3, <2>4
<1>5. Synced(b, D).fdds = MaxOf(F) /\ Synced(b, D).hdds = MaxOf(H)
  BY DEF Synced
<1>6. (\A d \in D : int13_is_fdd(d) => Required(d) <= 4) => \A x \in F : x <= 4
  BY <1>2
<1>7. NumFdds(b.ew) \in F /\ b.hdds \in H
  OBVIOUS
<1>8. \A d \in D : Required(d) \in IF int13_is_fdd(d) THEN F ELSE H
  OBVIOUS
<1> DEFINE f == MaxOf(F)
           h == MaxOf(H)
<1> HIDE DEF F, H
<1>9. f \in F /\ h \in H /\ (\A x \in F : x <= f) /\ (\A x \in H : x <= h)
  BY <1>4
<1> HIDE DEF f, h
<1>10. f \in 0 .. 127 /\ h \in 0 .. 127
  BY <1>3, <1>9
<1>11. NumFdds(b.ew) <= f /\ b.hdds <= h
  BY <1>7, <1>9
<1>12. \A d \in D : Required(d) <= IF int13_is_fdd(d) THEN f ELSE h
  BY <1>8, <1>9
<1>13. (\A d \in D : int13_is_fdd(d) => Required(d) <= 4) => f <= 4
  BY <1>6, <1>9
<1>14. CountsEnough(b, D, f, h)
  BY <1>10, <1>11, <1>12, <1>13 DEF CountsEnough
<1> QED
  BY <1>5, <1>14 DEF f, h

-----------------------------------------------------------------------------
(* The drive counts.                                                       *)

\* The counts cover the devices: those iPXE remembers always, those of the BIOS
\* data area once a call has been looked at.
CountsInv ==
    /\ san_devices \in Seq(SanDevice)
    /\ \A d \in Devices : Required(d) <= MaxCount
    /\ bda.ew \in EquipmentWords /\ bda.hdds \in 0 .. 127 /\ BiosHdds <= bda.hdds
    /\ cache.fdds \in 0 .. 127 /\ cache.ew = EquipmentWord(cache.fdds)
    /\ cache.hdds \in 0 .. 127
    /\ \A d \in Devices : Required(d) <= IF int13_is_fdd(d) THEN cache.fdds ELSE cache.hdds
    /\ pc \in {"chain", "return"} => bda.ew = cache.ew /\ bda.hdds = cache.hdds

\* The equipment word has two bits for the number of floppy drives: more than four
\* cannot be counted.  Nobody asks for so many, or for none at all.
FloppiesFit == MaxCount <= 4 \/ \A a \in DriveArgs : a >= 128

FloppyInv ==
    /\ \A d \in Devices : int13_is_fdd(d) => Required(d) <= 4
    /\ BiosFdds <= NumFdds(bda.ew)
    /\ cache.fdds <= 4

\* Who asks for a number, and not for the next free one, asks for the first of
\* its kind or for that of a BIOS drive, which the device then displaces.
ArgsDisplace ==
    \A a \in DriveArgs :
        a % 128 # 127 =>
            a % 128 = 0 \/ a % 128 < IF a >= 128 THEN BiosHdds ELSE BiosFdds

\* No two devices share a number, and none has the number another displaced.
DistinctNumbers ==
    \A i, j \in DOMAIN san_devices : i # j =>
        /\ san_devices[i].drive # san_devices[j].drive
        /\ san_devices[i].natural_drive # san_devices[j].natural_drive
        /\ san_devices[i].natural_drive # san_devices[j].drive

\* Natural numbers come after those of the BIOS; the first number of a kind is a
\* natural number only of a device that has it.
NaturalsLast ==
    \A i \in DOMAIN san_devices :
        LET d == san_devices[i]
        IN  /\ IF int13_is_fdd(d) THEN BiosFdds <= d.natural_drive
               ELSE 128 + BiosHdds <= d.natural_drive
            /\ d.natural_drive \in {0, 128} => d.drive = d.natural_drive

NumbersInv ==
    /\ CountsInv
    /\ FloppiesFit => FloppyInv
    /\ FloppiesFit /\ ArgsDisplace => DistinctNumbers /\ NaturalsLast

\* What it needs is a matter of its numbers.
LEMMA SameFacts ==
  ASSUME NEW d, NEW e, Same(d, e)
  PROVE  Required(d) = Required(e) /\ (int13_is_fdd(d) <=> int13_is_fdd(e))
  BY DEF Same, Required, int13_is_fdd

\* The devices are well numbered.
LEMMA DevicesTyped ==
  ASSUME san_devices \in Seq(SanDevice)
  PROVE  /\ Devices \subseteq SanDevice
         /\ \A i \in DOMAIN san_devices : san_devices[i] \in Devices
         /\ \A d \in Devices : \E i \in DOMAIN san_devices : d = san_devices[i]
  BY DEF Devices

\* What a step that sets the counts from b and D keeps.
CountsKept(b, D) ==
    /\ CountsInv'
    /\ (/\ \A d \in D : int13_is_fdd(d) => Required(d) <= 4
        /\ BiosFdds <= NumFdds(b.ew)) => FloppyInv'

\* int13_sync_num_drives makes the counts cover the devices D it looks at, and so
\* every device that has the numbers of one of them.
LEMMA SyncStep ==
  ASSUME NEW b, b.ew \in EquipmentWords, b.hdds \in 0 .. 127, BiosHdds <= b.hdds,
         NEW D, D \subseteq SanDevice, \A d \in D : Required(d) <= MaxCount,
         SyncTo(Synced(b, D)), san_devices' \in Seq(SanDevice),
         \A d \in Devices' : \E e \in D : Same(d, e)
  PROVE  CountsKept(b, D)
<1> DEFINE fdds == Synced(b, D).fdds
           hdds == Synced(b, D).hdds
           had == b.hdds
           word == NumFdds(b.ew)
<1>1. /\ fdds \in 0 .. 127 /\ hdds \in 0 .. 127
      /\ word <= fdds /\ had <= hdds
      /\ \A d \in D : Required(d) <= IF int13_is_fdd(d) THEN fdds ELSE hdds
      /\ (\A d \in D : int13_is_fdd(d) => Required(d) <= 4) => fdds <= 4
  <2>1. CountsEnough(b, D, fdds, hdds)
    BY SyncedFacts
  <2> QED
    BY <2>1 DEF CountsEnough
<1>2. /\ bda'.ew = EquipmentWord(fdds) /\ bda'.hdds = hdds
      /\ cache'.ew = EquipmentWord(fdds) /\ cache'.hdds = hdds /\ cache'.fdds = fdds
  BY DEF SyncTo
<1>3. had \in 0 .. 127 /\ BiosHdds <= had /\ word \in 0 .. 4
  BY EquipmentWordFacts
<1>4. BiosFdds <= NumFdds(b.ew) <=> BiosFdds <= word
  OBVIOUS
<1> HIDE DEF fdds, hdds, had, word
<1>5. ASSUME NEW d \in Devices'
      PROVE  /\ Required(d) <= MaxCount
             /\ Required(d) <= IF int13_is_fdd(d) THEN fdds ELSE hdds
  BY <1>1, SameFacts
<1>6. BiosHdds <= hdds /\ fdds \in Nat
  <2>1. had <= hdds /\ hdds \in 0 .. 127 /\ fdds \in 0 .. 127
    BY <1>1
  <2> QED
    BY <1>3, <2>1, DrivesAssumption, SMTT(30)
<1>7. EquipmentWord(fdds) \in EquipmentWords
  BY <1>6, EquipmentWordFacts
<1>8. CountsInv'
  BY <1>1, <1>2, <1>5, <1>6, <1>7 DEF CountsInv
<1>9. ASSUME \A d \in D : int13_is_fdd(d) => Required(d) <= 4, BiosFdds <= word
      PROVE  FloppyInv'
  <2>1. fdds \in 0 .. 4
    BY <1>1, <1>9
  <2>2. NumFdds(bda'.ew) = fdds
    BY <1>2, <2>1, EquipmentWordFacts
  <2>3. BiosFdds <= fdds
    <3>1. word <= fdds
      BY <1>1
    <3> QED
      BY <1>3, <1>6, <1>9, <3>1, DrivesAssumption
  <2>4. \A d \in Devices' : int13_is_fdd(d) => Required(d) <= 4
    BY <1>9, SameFacts
  <2> QED
    BY <1>2, <2>1, <2>2, <2>3, <2>4 DEF FloppyInv
<1> QED
  BY <1>4, <1>8, <1>9 DEF CountsKept

\* A list of devices whose numbers are those of different devices of the old list
\* keeps what is said about numbers.
LEMMA InheritNumbers ==
  ASSUME san_devices \in Seq(SanDevice), san_devices' \in Seq(SanDevice),
         NEW f \in [DOMAIN san_devices' -> DOMAIN san_devices],
         \A i, j \in DOMAIN san_devices' : i # j => f[i] # f[j],
         \A i \in DOMAIN san_devices' : Same(san_devices'[i], san_devices[f[i]])
  PROVE  /\ \A d \in Devices' : \E e \in Devices : Same(d, e)
         /\ DistinctNumbers => DistinctNumbers'
         /\ NaturalsLast => NaturalsLast'
<1>1. \A d \in Devices' : \E e \in Devices : Same(d, e)
  BY DEF Devices
<1>2. DistinctNumbers => DistinctNumbers'
  BY DEF DistinctNumbers, Same
<1>3. NaturalsLast => NaturalsLast'
  <2> SUFFICES ASSUME NaturalsLast, NEW i \in DOMAIN san_devices'
               PROVE  LET d == san_devices'[i]
                      IN  /\ IF int13_is_fdd(d) THEN BiosFdds <= d.natural_drive
                             ELSE 128 + BiosHdds <= d.natural_drive
                          /\ d.natural_drive \in {0, 128} => d.drive = d.natural_drive
    BY DEF NaturalsLast
  <2>1. Same(san_devices'[i], san_devices[f[i]]) /\ f[i] \in DOMAIN san_devices
    OBVIOUS
  <2> QED
    BY <2>1 DEF NaturalsLast, Same, int13_is_fdd
<1> QED
  BY <1>1, <1>2, <1>3
\* The device int13_hook prepares.
NewDevice(arg, n) ==
    [drive |-> ChosenDrive(arg, n), natural_drive |-> NaturalDrive(arg, n),
     is_cdrom |-> FALSE, last_status |-> 0]

\* Its natural number comes after every number in use.
NewDeviceFits(arg, n) ==
    /\ n.fdds \in 0 .. 127 /\ n.hdds \in 0 .. 127 /\ BiosHdds <= n.hdds
    /\ NaturalDrive(arg, n) = IF arg >= 128 THEN 128 + n.hdds ELSE n.fdds
    /\ NewDevice(arg, n) \in SanDevice
    /\ int13_is_fdd(NewDevice(arg, n)) <=> arg < 128
    /\ \A e \in Devices : /\ e.drive # NaturalDrive(arg, n)
                          /\ e.natural_drive # NaturalDrive(arg, n)
    /\ FloppyInv => n.fdds \in 0 .. 4 /\ BiosFdds <= n.fdds

LEMMA NewDeviceFacts ==
  ASSUME CountsInv, NEW arg \in DriveArgs, NEW n, n = Synced(bda, Devices)
  PROVE  NewDeviceFits(arg, n)
<1> DEFINE fdds == n.fdds
           hdds == n.hdds
           had == bda.hdds
           word == NumFdds(bda.ew)
           natural == NaturalDrive(arg, n)
           drive == ChosenDrive(arg, n)
<1>0. Devices \subseteq SanDevice
  BY DevicesTyped DEF CountsInv
<1>1. /\ fdds \in 0 .. 127 /\ hdds \in 0 .. 127
      /\ word <= fdds /\ had <= hdds
      /\ \A d \in Devices : Required(d) <= IF int13_is_fdd(d) THEN fdds ELSE hdds
      /\ (\A d \in Devices : int13_is_fdd(d) => Required(d) <= 4) => fdds <= 4
  <2>1. /\ bda.ew \in EquipmentWords /\ bda.hdds \in 0 .. 127
        /\ \A d \in Devices : Required(d) <= MaxCount
    BY DEF CountsInv
  <2>2. CountsEnough(bda, Devices, Synced(bda, Devices).fdds, Synced(bda, Devices).hdds)
    BY <1>0, <2>1, SyncedFacts
  <2>3. CountsEnough(bda, Devices, fdds, hdds)
    BY <2>2
  <2> QED
    BY <2>3 DEF CountsEnough
<1>2. /\ had \in 0 .. 127 /\ BiosHdds <= had /\ word \in 0 .. 4
      /\ FloppyInv => BiosFdds <= word
  BY EquipmentWordFacts DEF CountsInv, FloppyInv
<1>3. FloppyInv => \A d \in Devices : int13_is_fdd(d) => Required(d) <= 4
  BY DEF FloppyInv
<1>4. natural = IF arg >= 128 THEN 128 + (hdds % 128) ELSE fdds
  BY DEF NaturalDrive
<1>5. drive = IF arg % 128 = 127 THEN natural ELSE arg
  BY DEF ChosenDrive
<1>6. /\ NewDevice(arg, n) = [drive |-> drive, natural_drive |-> natural,
                              is_cdrom |-> FALSE, last_status |-> 0]
  BY DEF NewDevice
<1> HIDE DEF fdds, hdds, had, word, natural, drive
<1>7. arg \in 0 .. 255
  BY DrivesAssumption
<1>8. natural = IF arg >= 128 THEN 128 + hdds ELSE fdds
  <2>1. hdds % 128 = hdds
    BY <1>1
  <2> QED
    BY <1>4, <2>1
<1>9. natural \in Bytes /\ (FloppyNumber(natural) <=> arg < 128)
  <2>1. fdds \in 0 .. 127 /\ hdds \in 0 .. 127
    BY <1>1
  <2> QED
    BY <1>7, <1>8, <2>1, SMTT(30) DEF Bytes, FloppyNumber
<1>10. drive \in Bytes /\ (FloppyNumber(drive) <=> arg < 128)
  BY <1>5, <1>7, <1>9 DEF Bytes, FloppyNumber
<1>11. NewDevice(arg, n) \in SanDevice
  BY <1>6, <1>9, <1>10, SanDeviceBuilt
<1>12. int13_is_fdd(NewDevice(arg, n)) <=> arg < 128
  <2>1. NewDevice(arg, n).drive = drive
    BY <1>6
  <2> QED
    BY <1>10, <1>11, <2>1, SanDeviceFields
<1>13. ASSUME NEW e \in Devices PROVE e.drive # natural /\ e.natural_drive # natural
  <2> DEFINE ed == e.drive
             en == e.natural_drive
             er == Required(e)
  <2>0. e \in SanDevice
    BY <1>0
  <2>1. ed \in Bytes /\ en \in Bytes /\ (FloppyNumber(ed) <=> FloppyNumber(en))
    BY <2>0, SanDeviceFields, Zenon
  <2>2. int13_is_fdd(e) <=> ed < 128
    BY DEF int13_is_fdd
  <2>3. /\ er \in 1 .. 128
        /\ ed < 128 => ed < er /\ en < er
        /\ ~(ed < 128) => ed - 128 < er /\ en - 128 < er
    BY <2>0, <2>2, RequiredFacts, Zenon
  <2>4. er <= IF ed < 128 THEN fdds ELSE hdds
    BY <1>1, <2>2
  <2> HIDE DEF ed, en, er
  <2>5. ed # natural /\ en # natural
    <3>1. fdds \in 0 .. 127 /\ hdds \in 0 .. 127
      BY <1>1
    <3> QED
      <4>1. ed \in Int /\ en \in Int /\ (ed < 128 <=> en < 128)
        BY <2>1 DEF Bytes, FloppyNumber
      <4>2. CASE arg >= 128
        BY <1>8, <2>3, <2>4, <3>1, <4>1, <4>2, SMTT(30)
      <4>3. CASE ~(arg >= 128)
        BY <1>8, <2>3, <2>4, <3>1, <4>1, <4>3, SMTT(30)
      <4> QED
        BY <4>2, <4>3
  <2> QED
    BY <2>5 DEF ed, en
<1>14. fdds \in 0 .. 127 /\ hdds \in 0 .. 127 /\ word <= fdds /\ had <= hdds
  BY <1>1
<1>15. BiosHdds <= hdds
  BY <1>2, <1>14, DrivesAssumption
<1>16. FloppyInv => fdds \in 0 .. 4 /\ BiosFdds <= fdds
  <2>1. FloppyInv => fdds <= 4
    BY <1>1, <1>3
  <2> QED
    BY <1>2, <1>14, <2>1, DrivesAssumption
<1> QED
  BY <1>8, <1>11, <1>12, <1>13, <1>14, <1>15, <1>16 DEF fdds, hdds, natural, NewDeviceFits
\* A device that is registered keeps the numbers distinct.
LEMMA HookDistinct ==
  ASSUME NumbersInv, FloppiesFit, ArgsDisplace, NEW arg \in DriveArgs,
         NEW n, n = Synced(bda, Devices), NEW new \in SanDevice, Same(new, NewDevice(arg, n)),
         \A e \in Devices : e.drive # ChosenDrive(arg, n),
         san_devices' = Append(san_devices, new)
  PROVE  DistinctNumbers' /\ NaturalsLast'
<1> DEFINE natural == NaturalDrive(arg, n)
           drive == ChosenDrive(arg, n)
           fdds == n.fdds
           hdds == n.hdds
           last == Len(san_devices) + 1
<1>1. CountsInv /\ FloppyInv /\ DistinctNumbers /\ NaturalsLast
  BY DEF NumbersInv
<1>2. san_devices \in Seq(SanDevice) /\ NewDeviceFits(arg, n)
  BY <1>1, NewDeviceFacts DEF CountsInv
<1>3. /\ DOMAIN san_devices' = (DOMAIN san_devices) \cup {last}
      /\ \A i \in DOMAIN san_devices : i # last /\ san_devices'[i] = san_devices[i]
      /\ san_devices'[last] = new
  BY <1>2
<1>4. new.drive = drive /\ new.natural_drive = natural /\ (int13_is_fdd(new) <=> arg < 128)
  <2>1. new.drive = drive /\ new.natural_drive = natural
    BY DEF Same, NewDevice
  <2>2. int13_is_fdd(new) <=> int13_is_fdd(NewDevice(arg, n))
    BY SameFacts
  <2>3. int13_is_fdd(NewDevice(arg, n)) <=> arg < 128
    BY <1>2 DEF NewDeviceFits
  <2> QED
    BY <2>1, <2>2, <2>3
<1>5. drive = IF arg % 128 = 127 THEN natural ELSE arg
  BY DEF ChosenDrive
<1>6. /\ fdds \in 0 .. 4 /\ BiosFdds <= fdds /\ hdds \in 0 .. 127 /\ BiosHdds <= hdds
      /\ natural = IF arg >= 128 THEN 128 + hdds ELSE fdds
  BY <1>1, <1>2 DEF NewDeviceFits
<1>7. \A i \in DOMAIN san_devices :
        /\ san_devices[i].drive # natural /\ san_devices[i].natural_drive # natural
        /\ san_devices[i].drive # drive
  <2>1. \A e \in Devices : e.drive # natural /\ e.natural_drive # natural
    BY <1>2 DEF NewDeviceFits
  <2>2. \A i \in DOMAIN san_devices : san_devices[i] \in Devices
    BY DEF Devices
  <2> QED
    BY <2>1, <2>2, Zenon
<1> HIDE DEF natural, drive, fdds, hdds, last
<1>8. /\ arg \in 0 .. 255
      /\ arg % 128 # 127 =>
            arg % 128 = 0 \/ arg % 128 < IF arg >= 128 THEN BiosHdds ELSE BiosFdds
  BY DrivesAssumption DEF ArgsDisplace
<1>9. BiosHdds \in 0 .. 127 /\ BiosFdds \in 0 .. 4
  BY DrivesAssumption
<1>10. ASSUME NEW i \in DOMAIN san_devices PROVE san_devices[i].natural_drive # drive
  <2> DEFINE en == san_devices[i].natural_drive
             ed == san_devices[i].drive
  <2>1. en \in Bytes /\ ed \in Bytes /\ (FloppyNumber(ed) <=> FloppyNumber(en))
    <3>1. san_devices[i] \in SanDevice
      BY <1>2
    <3> QED
      BY <3>1, SanDeviceFields, Zenon
  <2>2. /\ IF ed < 128 THEN BiosFdds <= en ELSE 128 + BiosHdds <= en
        /\ en \in {0, 128} => ed = en
    BY <1>1 DEF NaturalsLast, int13_is_fdd
  <2>3. en # natural /\ ed # drive
    BY <1>7
  <2> HIDE DEF en, ed
  <2>4. CASE arg % 128 = 127
    BY <1>5, <2>3, <2>4 DEF en
  <2>5. CASE arg % 128 # 127
    <3>1. drive = arg
      BY <1>5, <2>5
    <3>2. CASE arg % 128 = 0
      <4>1. arg \in {0, 128}
        <5>1. arg \in 0 .. 255
          BY <1>8
        <5> QED
          BY <3>2, <5>1, SMTT(30)
      <4> QED
        BY <2>2, <2>3, <3>1, <4>1 DEF en
    <3>3. CASE arg % 128 < IF arg >= 128 THEN BiosHdds ELSE BiosFdds
      <4>1. IF arg >= 128 THEN arg < 128 + BiosHdds ELSE arg < BiosFdds
        BY <1>8, <1>9, <3>3
      <4>2. en # arg
        <5>1. arg \in 0 .. 255
          BY <1>8
        <5> QED
          BY <1>9, <2>1, <2>2, <4>1, <5>1, SMTT(30) DEF Bytes, FloppyNumber
      <4> QED
        BY <3>1, <4>2 DEF en
    <3> QED
      BY <1>8, <2>5, <3>2, <3>3
  <2> QED
    BY <2>4, <2>5
<1>11. DistinctNumbers'
  <2> SUFFICES ASSUME NEW i \in DOMAIN san_devices', NEW j \in DOMAIN san_devices', i # j
               PROVE  /\ san_devices'[i].drive # san_devices'[j].drive
                      /\ san_devices'[i].natural_drive # san_devices'[j].natural_drive
                      /\ san_devices'[i].natural_drive # san_devices'[j].drive
    BY DEF DistinctNumbers
  <2>1. CASE i \in DOMAIN san_devices /\ j \in DOMAIN san_devices
    <3>1. san_devices'[i] = san_devices[i] /\ san_devices'[j] = san_devices[j]
      BY <1>3, <2>1
    <3> QED
      BY <1>1, <2>1, <3>1, Zenon DEF DistinctNumbers
  <2>2. CASE i = last /\ j \in DOMAIN san_devices
    BY <1>3, <1>4, <1>7, <2>2
  <2>3. CASE i \in DOMAIN san_devices /\ j = last
    BY <1>3, <1>4, <1>7, <1>10, <2>3
  <2> QED
    BY <1>3, <2>1, <2>2, <2>3
<1>12. /\ IF arg < 128 THEN BiosFdds <= natural ELSE 128 + BiosHdds <= natural
       /\ natural \in {0, 128} => drive = natural
  <2>1. IF arg < 128 THEN BiosFdds <= natural ELSE 128 + BiosHdds <= natural
    BY <1>6, <1>8, <1>9
  <2>2. CASE arg % 128 = 127
    BY <1>5, <2>1, <2>2
  <2>3. CASE arg % 128 # 127 /\ natural \in {0, 128}
    <3>1. (IF arg >= 128 THEN BiosHdds ELSE BiosFdds) = 0
      BY <1>6, <1>8, <1>9, <2>3
    <3>2. arg % 128 = 0
      BY <1>8, <2>3, <3>1
    <3>3. natural = IF arg >= 128 THEN 128 ELSE 0
      BY <1>6, <1>8, <2>3
    <3>4. arg = IF arg >= 128 THEN 128 ELSE 0
      <4>1. arg \in 0 .. 255
        BY <1>8
      <4> QED
        BY <3>2, <4>1, SMTT(30)
    <3> QED
      BY <1>5, <2>1, <2>3, <3>3, <3>4
  <2> QED
    BY <2>1, <2>2, <2>3
<1>13. NaturalsLast'
  <2> SUFFICES ASSUME NEW i \in DOMAIN san_devices'
               PROVE  LET d == san_devices'[i]
                      IN  /\ IF int13_is_fdd(d) THEN BiosFdds <= d.natural_drive
                             ELSE 128 + BiosHdds <= d.natural_drive
                          /\ d.natural_drive \in {0, 128} => d.drive = d.natural_drive
    BY DEF NaturalsLast
  <2>1. CASE i \in DOMAIN san_devices
    <3>1. san_devices'[i] = san_devices[i]
      BY <1>3, <2>1
    <3> QED
      BY <1>1, <2>1, <3>1, SMTT(30) DEF NaturalsLast
  <2>2. CASE i = last
    BY <1>3, <1>4, <1>12, <2>2, Zenon
  <2> QED
    BY <1>3, <2>1, <2>2
<1> QED
  BY <1>11, <1>13
\* int13_hook, whether or not a device is registered in the end.
LEMMA HookNumbers == ASSUME NumbersInv, int13_hook PROVE NumbersInv'
<1>1. PICK arg \in DriveArgs : Hook(arg)
  BY DEF int13_hook
<1> DEFINE n == Synced(bda, Devices)
           d == NewDevice(arg, n)
           b == [ew |-> EquipmentWord(n.fdds), hdds |-> n.hdds]
<1>2. CountsInv /\ (FloppiesFit => FloppyInv) /\ pc' = "caller"
  BY DEF NumbersInv, int13_hook, callVars
<1>3. /\ san_devices \in Seq(SanDevice) /\ Devices \subseteq SanDevice
      /\ \A e \in Devices : Required(e) <= MaxCount
      /\ bda.ew \in EquipmentWords /\ bda.hdds \in 0 .. 127 /\ BiosHdds <= bda.hdds
  BY <1>2, DevicesTyped DEF CountsInv
<1>4. CASE SyncTo(n) /\ UNCHANGED <<san_devices, vectorVars>>
  <2>1. \A e \in Devices' : \E f \in Devices : Same(e, f)
    BY <1>4 DEF Devices, Same
  <2>2. CountsInv' /\ (FloppyInv => FloppyInv')
    <3>1. san_devices' \in Seq(SanDevice)
      BY <1>3, <1>4
    <3>2. CountsKept(bda, Devices)
      BY <1>3, <1>4, <2>1, <3>1, SyncStep
    <3> QED
      BY <3>2 DEF CountsKept, FloppyInv
  <2>3. (DistinctNumbers => DistinctNumbers') /\ (NaturalsLast => NaturalsLast')
    BY <1>4 DEF DistinctNumbers, NaturalsLast
  <2> QED
    BY <1>2, <2>2, <2>3 DEF NumbersInv
<1>5. CASE /\ \A e \in Devices : e.drive # d.drive
           /\ Required(d) <= MaxCount
           /\ \E cdrom \in BOOLEAN :
                 san_devices' = Append(san_devices, [d EXCEPT !.is_cdrom = cdrom])
           /\ SyncTo(Synced(b, Devices \cup {d}))
  <2>1. PICK cdrom \in BOOLEAN :
                 san_devices' = Append(san_devices, [d EXCEPT !.is_cdrom = cdrom])
    BY <1>5
  <2> DEFINE new == [d EXCEPT !.is_cdrom = cdrom]
  <2>2. /\ n.fdds \in 0 .. 127 /\ n.hdds \in 0 .. 127 /\ BiosHdds <= n.hdds
        /\ d \in SanDevice /\ (int13_is_fdd(d) <=> arg < 128)
        /\ FloppyInv => n.fdds \in 0 .. 4 /\ BiosFdds <= n.fdds
    <3>1. n = Synced(bda, Devices)
      OBVIOUS
    <3> HIDE DEF n
    <3>2. NewDeviceFits(arg, n)
      BY <1>2, <3>1, NewDeviceFacts
    <3> QED
      BY <3>2 DEF NewDeviceFits
  <2>3. /\ new \in SanDevice /\ Same(new, d)
        /\ d.drive = ChosenDrive(arg, n)
    <3>1. d.drive = ChosenDrive(arg, n)
      BY DEF NewDevice
    <3> HIDE DEF d, n
    <3>2. new \in SanDevice /\ Same(new, d)
      BY <2>2, SanDeviceChanged
    <3> QED
      BY <3>1, <3>2
  <2> HIDE DEF new
  <2>4. san_devices' \in Seq(SanDevice)
    BY <1>3, <2>1, <2>3 DEF new
  <2>5. ASSUME NEW e \in Devices' PROVE e \in Devices \/ e = new
    <3>1. san_devices' = Append(san_devices, new)
      BY <2>1 DEF new
    <3>2. /\ Len(san_devices') = Len(san_devices) + 1
          /\ \A k \in 1 .. Len(san_devices) : san_devices'[k] = san_devices[k]
          /\ san_devices'[Len(san_devices) + 1] = new
      BY <1>3, <2>3, <3>1, AppendProperties
    <3>3. PICK k \in DOMAIN san_devices' : e = san_devices'[k]
      BY DEF Devices
    <3>4. DOMAIN san_devices' = 1 .. Len(san_devices') /\ DOMAIN san_devices = 1 .. Len(san_devices)
      BY <1>3, <2>4, LenProperties
    <3>5. Len(san_devices) \in Nat
      BY <1>3
    <3>6. k \in 1 .. Len(san_devices) \/ k = Len(san_devices) + 1
      BY <3>2, <3>3, <3>4, <3>5
    <3> QED
      BY <3>2, <3>3, <3>4, <3>6 DEF Devices
  <2>6. \A e \in Devices' : \E f \in Devices \cup {d} : Same(e, f)
    BY <2>3, <2>5 DEF Same
  <2>7. b.ew = EquipmentWord(n.fdds) /\ b.hdds = n.hdds
    OBVIOUS
  <2>8. /\ Devices \cup {d} \subseteq SanDevice
        /\ \A e \in Devices \cup {d} : Required(e) <= MaxCount
    BY <1>3, <1>5, <2>2
  <2>9. b.ew \in EquipmentWords /\ b.hdds \in 0 .. 127 /\ BiosHdds <= b.hdds
    <3> HIDE DEF b, n
    <3>1. n.fdds \in Nat
      BY <2>2
    <3>2. b.ew \in EquipmentWords
      BY <2>7, <3>1, EquipmentWordFacts
    <3> QED
      BY <2>2, <2>7, <3>2, Zenon
  <2>10. CountsKept(b, Devices \cup {d})
    <3> HIDE DEF b, d, n
    <3> QED
      BY <1>5, <2>4, <2>6, <2>8, <2>9, SyncStep
  <2>11. ASSUME FloppiesFit PROVE FloppyInv'
    <3>1. FloppyInv
      BY <1>2, <2>11
    <3>2. n.fdds \in 0 .. 4 /\ BiosFdds <= n.fdds
      BY <2>2, <3>1
    <3>3. NumFdds(b.ew) = n.fdds
      BY <2>7, <3>2, EquipmentWordFacts
    <3>4. int13_is_fdd(d) => Required(d) <= 4
      <4> HIDE DEF b, d, n
      <4>1. CASE MaxCount <= 4
        <5>1. Required(d) <= MaxCount
          BY <1>5
        <5>2. Required(d) \in 1 .. 128
          BY <2>2, RequiredFacts
        <5> QED
          BY <4>1, <5>1, <5>2, DrivesAssumption
      <4>2. CASE \A a \in DriveArgs : a >= 128
        <5>1. arg >= 128 /\ arg \in 0 .. 255
          BY <4>2, DrivesAssumption
        <5>2. ~int13_is_fdd(d)
          <6>1. ~(arg < 128)
            BY <5>1
          <6> QED
            BY <2>2, <6>1, Zenon
        <5> QED
          BY <5>2
      <4> QED
        BY <2>11, <4>1, <4>2 DEF FloppiesFit
    <3>5. \A e \in Devices \cup {d} : int13_is_fdd(e) => Required(e) <= 4
      BY <3>1, <3>4 DEF FloppyInv
    <3>6. BiosFdds <= NumFdds(b.ew)
      BY <3>2, <3>3
    <3> HIDE DEF b, d, n
    <3> QED
      BY <2>10, <3>5, <3>6 DEF CountsKept
  <2>12. ASSUME FloppiesFit, ArgsDisplace PROVE DistinctNumbers' /\ NaturalsLast'
    <3>1. \A e \in Devices : e.drive # ChosenDrive(arg, n)
      BY <1>5, <2>3
    <3>2. new \in SanDevice /\ Same(new, NewDevice(arg, n))
      BY <2>3
    <3>3. san_devices' = Append(san_devices, new)
      BY <2>1 DEF new
    <3> HIDE DEF b, d, n
    <3> QED
      BY <2>12, <3>1, <3>2, <3>3, HookDistinct DEF n
  <2>13. CountsInv'
    BY <2>10 DEF CountsKept
  <2> QED
    BY <2>11, <2>12, <2>13 DEF NumbersInv
<1> QED
  BY <1>1, <1>4, <1>5 DEF Hook, NewDevice
\* A list without its element i.
Without(s, i) == SubSeq(s, 1, i - 1) \o SubSeq(s, i + 1, Len(s))

LEMMA WithoutElement ==
  ASSUME NEW S, NEW s \in Seq(S), NEW i \in DOMAIN s
  PROVE  /\ Without(s, i) \in Seq(S) /\ DOMAIN Without(s, i) = 1 .. Len(s) - 1
         /\ \A j \in 1 .. Len(s) - 1 : Without(s, i)[j] = s[IF j < i THEN j ELSE j + 1]
<1> DEFINE n == Len(s)
           a == SubSeq(s, 1, i - 1)
           b == SubSeq(s, i + 1, n)
           t == Without(s, i)
<1>1. i \in 1 .. n /\ n \in Nat
  OBVIOUS
<1>2. (\A j \in 1 .. i - 1 : s[j] \in S) /\ (\A j \in i + 1 .. n : s[j] \in S)
  OBVIOUS
<1>3. t = a \o b
  BY DEF Without
<1>4. /\ a \in Seq(S) /\ Len(a) = IF 1 <= i - 1 THEN (i - 1) - 1 + 1 ELSE 0
      /\ \A j \in 1 .. (i - 1) - 1 + 1 : a[j] = s[1 + j - 1]
  <2>1. i - 1 \in Int /\ 1 \in Int
    BY <1>1
  <2> HIDE DEF n, t
  <2> QED
    BY <1>2, <2>1, SubSeqProperties
<1>5. /\ b \in Seq(S)
      /\ Len(b) = IF i + 1 <= n THEN n - (i + 1) + 1 ELSE 0
      /\ \A j \in 1 .. n - (i + 1) + 1 : b[j] = s[(i + 1) + j - 1]
  <2>1. i + 1 \in Int /\ n \in Int
    BY <1>1
  <2> HIDE DEF n, t
  <2> QED
    BY <1>2, <2>1, SubSeqProperties
<1> HIDE DEF n, a, b, t
<1>6. /\ t \in Seq(S) /\ Len(t) = Len(a) + Len(b)
      /\ \A j \in 1 .. Len(a) + Len(b) : t[j] = IF j <= Len(a) THEN a[j] ELSE b[j - Len(a)]
  <2>1. t = a \o b
    BY <1>3
  <2> QED
    BY <1>4, <1>5, <2>1, ConcatProperties
<1>7. Len(a) = i - 1 /\ Len(b) = n - i /\ Len(a) + Len(b) = n - 1
  <2> DEFINE la == Len(a)
             lb == Len(b)
  <2>1. la = IF 1 <= i - 1 THEN (i - 1) - 1 + 1 ELSE 0
    BY <1>4
  <2>2. lb = IF i + 1 <= n THEN n - (i + 1) + 1 ELSE 0
    BY <1>5
  <2> HIDE DEF la, lb
  <2>3. la = i - 1
    BY <1>1, <2>1
  <2>4. lb = n - i
    BY <1>1, <2>2
  <2>5. la + lb = n - 1
    BY <1>1, <2>3, <2>4
  <2> QED
    BY <2>3, <2>4, <2>5 DEF la, lb
<1>8. DOMAIN t = 1 .. n - 1
  BY <1>6, <1>7, LenProperties
<1>9. ASSUME NEW j \in 1 .. n - 1 PROVE t[j] = s[IF j < i THEN j ELSE j + 1]
  <2>1. j \in Int /\ 1 <= j /\ j <= n - 1
    BY <1>1
  <2>2. t[j] = IF j <= i - 1 THEN a[j] ELSE b[j - (i - 1)]
    BY <1>6, <1>7
  <2>3. CASE j < i
    <3>1. j \in 1 .. (i - 1) - 1 + 1 /\ 1 + j - 1 = j /\ j <= i - 1
      BY <1>1, <2>1, <2>3
    <3> QED
      BY <1>4, <2>2, <2>3, <3>1
  <2>4. CASE ~(j < i)
    <3>1. /\ j - (i - 1) \in 1 .. n - (i + 1) + 1 /\ (i + 1) + (j - (i - 1)) - 1 = j + 1
          /\ ~(j <= i - 1)
      BY <1>1, <2>1, <2>4
    <3>2. b[j - (i - 1)] = s[j + 1]
      BY <1>5, <3>1
    <3> QED
      BY <2>2, <2>4, <3>1, <3>2
  <2> QED
    BY <2>3, <2>4
<1> QED
  BY <1>6, <1>8, <1>9 DEF n, t

\* int13_unhook removes a device and keeps the rest.
LEMMA UnhookNumbers == ASSUME NumbersInv, int13_unhook PROVE NumbersInv'
<1>1. PICK i \in DOMAIN san_devices :
          san_devices' = SubSeq(san_devices, 1, i - 1)
                         \o SubSeq(san_devices, i + 1, Len(san_devices))
  BY DEF int13_unhook
<1>2. UNCHANGED <<bda, cache>> /\ pc' = pc
  BY DEF int13_unhook, callVars
<1>3. CountsInv /\ san_devices \in Seq(SanDevice)
  BY DEF NumbersInv, CountsInv
<1> DEFINE f == [j \in DOMAIN san_devices' |-> IF j < i THEN j ELSE j + 1]
<1>4. /\ san_devices' \in Seq(SanDevice) /\ DOMAIN san_devices' = 1 .. Len(san_devices) - 1
      /\ \A j \in DOMAIN san_devices' : san_devices'[j] = san_devices[IF j < i THEN j ELSE j + 1]
  <2>1. san_devices' = Without(san_devices, i)
    BY <1>1 DEF Without
  <2>2. /\ Without(san_devices, i) \in Seq(SanDevice)
        /\ DOMAIN Without(san_devices, i) = 1 .. Len(san_devices) - 1
        /\ \A j \in 1 .. Len(san_devices) - 1 :
              Without(san_devices, i)[j] = san_devices[IF j < i THEN j ELSE j + 1]
    BY <1>3, WithoutElement
  <2> QED
    BY <2>1, <2>2, Zenon
<1>5. i \in 1 .. Len(san_devices) /\ Len(san_devices) \in Nat
      /\ DOMAIN san_devices = 1 .. Len(san_devices)
  BY <1>3
<1>6. /\ f \in [DOMAIN san_devices' -> DOMAIN san_devices]
      /\ \A j, k \in DOMAIN san_devices' : j # k => f[j] # f[k]
  BY <1>4, <1>5
<1>7. \A j \in DOMAIN san_devices' : Same(san_devices'[j], san_devices[f[j]])
  BY <1>4 DEF Same
<1> HIDE DEF f
<1>8. /\ \A d \in Devices' : \E e \in Devices : Same(d, e)
      /\ DistinctNumbers => DistinctNumbers'
      /\ NaturalsLast => NaturalsLast'
  BY <1>3, <1>4, <1>6, <1>7, InheritNumbers
<1>9. CountsInv'
  BY <1>2, <1>3, <1>4, <1>8, SameFacts DEF CountsInv
<1>10. FloppyInv => FloppyInv'
  BY <1>2, <1>8, SameFacts DEF FloppyInv
<1> QED
  BY <1>8, <1>9, <1>10 DEF NumbersInv

\* int13 looks at the counts and changes at most the status of a device.
LEMMA ServeNumbers == ASSUME NumbersInv, int13 PROVE NumbersInv'
<1>1. CountsInv /\ san_devices \in Seq(SanDevice) /\ pc = "int13"
  BY DEF NumbersInv, CountsInv, int13
<1>2. /\ san_devices' \in Seq(SanDevice) /\ DOMAIN san_devices' = DOMAIN san_devices
      /\ \A j \in DOMAIN san_devices : Same(san_devices'[j], san_devices[j])
  <2>1. CASE UNCHANGED san_devices
    BY <1>1, <2>1 DEF Same
  <2>2. CASE ~UNCHANGED san_devices
    <3> DEFINE i == Found(call.dl, call.ah)
    <3>1. PICK status \in StatusesOf(i, call.ah) :
                 san_devices' = [san_devices EXCEPT ![i].last_status = status]
      BY <2>2 DEF int13, Pass, Serve
    <3>2. CASE i \in DOMAIN san_devices
      <4>1. status \in {0, 1}
        <5>1. san_devices[i] \in SanDevice
          BY <1>1, <3>2
        <5> QED
          BY <3>1, <5>1, SanDeviceFields DEF StatusesOf
      <4> DEFINE new == [san_devices[i] EXCEPT !.last_status = status]
      <4>4. new \in SanDevice /\ Same(new, san_devices[i])
        <5>1. san_devices[i] \in SanDevice
          BY <1>1, <3>2
        <5> HIDE DEF i
        <5> QED
          BY <4>1, <5>1, SanDeviceChanged
      <4>5. san_devices' = [san_devices EXCEPT ![i] = new]
        BY <3>1
      <4> HIDE DEF new, i
      <4>6. /\ san_devices' \in Seq(SanDevice) /\ DOMAIN san_devices' = DOMAIN san_devices
            /\ \A j \in DOMAIN san_devices : san_devices'[j] = IF j = i THEN new ELSE san_devices[j]
        BY <1>1, <3>2, <4>4, <4>5
      <4> QED
        BY <4>4, <4>6 DEF Same
    <3>3. CASE i \notin DOMAIN san_devices
      <4>1. san_devices' = san_devices
        BY <1>1, <3>1, <3>3
      <4> QED
        BY <2>2, <4>1
    <3> QED
      BY <3>2, <3>3
  <2> QED
    BY <2>1, <2>2
<1> DEFINE f == [j \in DOMAIN san_devices' |-> j]
<1>3. /\ \A d \in Devices' : \E e \in Devices : Same(d, e)
      /\ DistinctNumbers => DistinctNumbers'
      /\ NaturalsLast => NaturalsLast'
  <2>1. /\ f \in [DOMAIN san_devices' -> DOMAIN san_devices]
        /\ \A j, k \in DOMAIN san_devices' : j # k => f[j] # f[k]
        /\ \A j \in DOMAIN san_devices' : Same(san_devices'[j], san_devices[f[j]])
    BY <1>2
  <2> HIDE DEF f
  <2> QED
    BY <1>1, <1>2, <2>1, InheritNumbers
<1>4. CASE bda.ew = cache.ew /\ bda.hdds = cache.hdds /\ UNCHANGED <<bda, cache>>
  <2>1. CountsInv'
    BY <1>1, <1>2, <1>3, <1>4, SameFacts DEF CountsInv
  <2>2. FloppyInv => FloppyInv'
    BY <1>3, <1>4, SameFacts DEF FloppyInv
  <2> QED
    BY <1>3, <2>1, <2>2 DEF NumbersInv
<1>5. CASE SyncTo(Synced(bda, Devices))
  <2>1. /\ Devices \subseteq SanDevice /\ \A e \in Devices : Required(e) <= MaxCount
        /\ bda.ew \in EquipmentWords /\ bda.hdds \in 0 .. 127 /\ BiosHdds <= bda.hdds
    BY <1>1, DevicesTyped DEF CountsInv
  <2>2. CountsInv' /\ (FloppyInv => FloppyInv')
    <3>1. CountsKept(bda, Devices)
      BY <1>2, <1>3, <1>5, <2>1, SyncStep
    <3> QED
      BY <3>1 DEF CountsKept, FloppyInv
  <2> QED
    BY <1>3, <2>2 DEF NumbersInv
<1> QED
  BY <1>4, <1>5 DEF int13, int13_check_num_drives
\* Every step keeps the invariant.
LEMMA NextNumbersInv == NumbersInv /\ [Next]_vars => NumbersInv'
<1> SUFFICES ASSUME NumbersInv, [Next]_vars PROVE NumbersInv'
  OBVIOUS
<1>1. CASE \/ int13_wrapper \/ Return \/ OtherHooks \/ OtherUnhooks \/ UNCHANGED vars
  <2>1. UNCHANGED <<san_devices, bda, cache>> /\ (pc' = pc \/ pc' \in {"int13", "caller"})
    BY <1>1 DEF int13_wrapper, Return, OtherHooks, OtherUnhooks, callVars, vars
  <2>2. Devices' = Devices
    BY <2>1 DEF Devices
  <2>3. CountsInv => CountsInv'
    BY <2>1, <2>2 DEF CountsInv
  <2>4. FloppyInv => FloppyInv'
    BY <2>1, <2>2 DEF FloppyInv
  <2>5. (DistinctNumbers => DistinctNumbers') /\ (NaturalsLast => NaturalsLast')
    <3>1. DistinctNumbers => DistinctNumbers'
      BY <2>1, SMTT(30) DEF DistinctNumbers
    <3>2. NaturalsLast => NaturalsLast'
      BY <2>1, SMTT(30) DEF NaturalsLast
    <3> QED
      BY <3>1, <3>2
  <2> QED
    BY <2>3, <2>4, <2>5 DEF NumbersInv
<1>2. CASE BiosRestoresCounts
  <2>1. /\ UNCHANGED <<san_devices, cache>> /\ pc' = "caller"
        /\ bda'.ew = EquipmentWord(BiosFdds) /\ bda'.hdds = BiosHdds
    BY <1>2 DEF BiosRestoresCounts, callVars
  <2>2. Devices' = Devices
    BY <2>1 DEF Devices
  <2>3. /\ EquipmentWord(BiosFdds) \in EquipmentWords
        /\ NumFdds(EquipmentWord(BiosFdds)) = BiosFdds
    BY DrivesAssumption, EquipmentWordFacts
  <2>4. BiosHdds \in 0 .. 127 /\ BiosHdds <= BiosHdds /\ BiosFdds <= BiosFdds
    BY DrivesAssumption
  <2>5. CountsInv => CountsInv'
    BY <2>1, <2>2, <2>3, <2>4 DEF CountsInv
  <2>6. FloppyInv => FloppyInv'
    BY <2>1, <2>2, <2>3, <2>4 DEF FloppyInv
  <2>7. (DistinctNumbers => DistinctNumbers') /\ (NaturalsLast => NaturalsLast')
    <3>1. DistinctNumbers => DistinctNumbers'
      BY <2>1, SMTT(30) DEF DistinctNumbers
    <3>2. NaturalsLast => NaturalsLast'
      BY <2>1, SMTT(30) DEF NaturalsLast
    <3> QED
      BY <3>1, <3>2
  <2> QED
    BY <2>5, <2>6, <2>7 DEF NumbersInv
<1> QED
  BY <1>1, <1>2, HookNumbers, UnhookNumbers, ServeNumbers DEF Next

\* It holds initially.
LEMMA InitNumbersInv == Init => NumbersInv
<1> SUFFICES ASSUME Init PROVE NumbersInv
  OBVIOUS
<1>1. san_devices = <<>> /\ Devices = {} /\ DOMAIN san_devices = {} /\ pc = "caller"
  BY DEF Init, Devices
<1>2. /\ bda.ew = EquipmentWord(BiosFdds) /\ bda.hdds = BiosHdds
      /\ cache.ew = EquipmentWord(0) /\ cache.hdds = 0 /\ cache.fdds = 0
  BY DEF Init
<1>3. /\ EquipmentWord(BiosFdds) \in EquipmentWords
      /\ NumFdds(EquipmentWord(BiosFdds)) = BiosFdds
  BY DrivesAssumption, EquipmentWordFacts
<1>4. BiosHdds \in 0 .. 127 /\ BiosHdds <= BiosHdds /\ BiosFdds <= BiosFdds
  BY DrivesAssumption
<1>5. CountsInv
  BY <1>1, <1>2, <1>3, <1>4, SMTT(30) DEF CountsInv
<1>6. FloppyInv
  BY <1>1, <1>2, <1>3, <1>4 DEF FloppyInv
<1>7. DistinctNumbers /\ NaturalsLast
  BY <1>1 DEF DistinctNumbers, NaturalsLast
<1> QED
  BY <1>5, <1>6, <1>7 DEF NumbersInv

\* The invariant about counts and numbers holds throughout.
THEOREM NumbersInvariant == Spec => []NumbersInv
  BY InitNumbersInv, NextNumbersInv, PTL DEF Spec

\* The drive number of a call is a byte.
CallInv == call.dl \in Bytes

LEMMA NextCallInv == NumbersInv /\ CallInv /\ [Next]_vars => CallInv'
<1> SUFFICES ASSUME NumbersInv, CallInv, [Next]_vars PROVE CallInv'
  OBVIOUS
<1>1. CASE int13_wrapper
  <2> DEFINE bios == 128 .. 127 + BiosHdds
             none == {127, 255}
  <2>1. bios \cup none \subseteq Bytes
    BY DrivesAssumption, SMTT(30) DEF Bytes
  <2>2. PICK ah \in Commands, dl \in {d.drive : d \in Devices}
                                    \cup {d.natural_drive : d \in Devices}
                                    \cup bios \cup none :
              call' = [ah |-> ah, dl |-> dl]
    BY <1>1, Zenon DEF int13_wrapper
  <2> HIDE DEF bios, none
  <2>3. \A d \in Devices : d.drive \in Bytes /\ d.natural_drive \in Bytes
    <3>1. Devices \subseteq SanDevice
      BY DevicesTyped DEF NumbersInv, CountsInv
    <3> QED
      BY <3>1, SanDeviceFields, Zenon
  <2>4. dl \in Bytes
    BY <2>1, <2>2, <2>3
  <2> QED
    BY <2>2, <2>4 DEF CallInv
<1>2. CASE Return
  BY <1>2 DEF Return, NoCall, CallInv, Bytes
<1>3. CASE UNCHANGED call
  BY <1>3 DEF CallInv
<1> QED
  BY <1>1, <1>2, <1>3 DEF Next, int13_hook, int13_unhook, int13, BiosRestoresCounts,
                          OtherHooks, OtherUnhooks, callVars, vars

LEMMA CallInvariant == Spec => []CallInv
<1>1. Init => CallInv
  BY SMTT(30) DEF Init, NoCall, CallInv, Bytes
<1> QED
  BY <1>1, NumbersInvariant, NextCallInv, PTL DEF Spec

\* A caller of INT 13,08 is told of every SAN device of the kind it asks about, also
\* when there are more floppy drives than the equipment word can count: num_fdds and
\* num_drives are up to date after every int13_sync_num_drives.
THEOREM CallersToldOfDrives == Spec => []CallerToldOfDrives
<1>1. NumbersInv /\ CallInv => CallerToldOfDrives
  <2> SUFFICES ASSUME NumbersInv, CallInv, pc \in {"chain", "return"}, call.ah = "parameters",
                      NEW d \in Devices, int13_is_fdd(d) <=> call.dl < 128
               PROVE  Required(d) <= ReturnedDl
    BY DEF CallerToldOfDrives
  <2>1. Required(d) <= IF int13_is_fdd(d) THEN cache.fdds ELSE cache.hdds
    BY DEF NumbersInv, CountsInv
  <2>2. ReturnedDl = IF call.dl >= 128 THEN cache.hdds ELSE cache.fdds
    BY DEF ReturnedDl
  <2>3. call.dl < 128 <=> ~(call.dl >= 128)
    BY DEF CallInv, Bytes
  <2> QED
    BY <2>1, <2>2, <2>3
<1> QED
  BY <1>1, NumbersInvariant, CallInvariant, PTL

\* Once int13() has looked at a call, the BIOS data area counts every SAN device and
\* every displaced drive, whatever the BIOS had written there; provided that the
\* floppy drives fit into the two bits the equipment word has for them.
THEOREM CountsCoverAll ==
  ASSUME FloppiesFit
  PROVE  Spec => []CountsCoverDrives
<1>1. NumbersInv => CountsCoverDrives
  <2> SUFFICES ASSUME NumbersInv, pc \in {"chain", "return"}, NEW d \in Devices
               PROVE  Required(d) <= IF int13_is_fdd(d) THEN NumFdds(bda.ew) ELSE bda.hdds
    BY DEF CountsCoverDrives
  <2>1. /\ bda.ew = EquipmentWord(cache.fdds) /\ bda.hdds = cache.hdds
        /\ Required(d) <= IF int13_is_fdd(d) THEN cache.fdds ELSE cache.hdds
    BY DEF NumbersInv, CountsInv
  <2>2. cache.fdds \in 0 .. 127 /\ cache.fdds <= 4
    BY DEF NumbersInv, CountsInv, FloppyInv
  <2>3. cache.fdds \in 0 .. 4
    BY <2>2
  <2>4. NumFdds(bda.ew) = cache.fdds
    BY <2>1, <2>3, EquipmentWordFacts
  <2> QED
    BY <2>1, <2>4
<1> QED
  BY <1>1, NumbersInvariant, PTL
-----------------------------------------------------------------------------
(* The search of int13().                                                  *)

\* The search stops at the first device it could stop at.
LEMMA FoundFacts ==
  ASSUME san_devices \in Seq(SanDevice), NEW dl, NEW ah, Stops(dl, ah) # {}
  PROVE  /\ Found(dl, ah) \in DOMAIN san_devices
         /\ StopsAt(dl, ah, san_devices[Found(dl, ah)])
<1>1. Stops(dl, ah) \subseteq Nat
  BY DEF Stops
<1>2. \E i \in Stops(dl, ah) : \A j \in Stops(dl, ah) : i <= j
  BY <1>1, SmallestNat
<1>3. Found(dl, ah) \in Stops(dl, ah)
  BY <1>2 DEF Found
<1> QED
  BY <1>3 DEF Stops

\* No device has the number that is reserved for the emulation status call.
LEMMA DriveNotReserved ==
  ASSUME CountsInv, NEW k \in DOMAIN san_devices
  PROVE  san_devices[k].drive % 128 # 127
<1> DEFINE drive == san_devices[k].drive
           required == Required(san_devices[k])
<1>1. san_devices[k] \in SanDevice /\ required <= MaxCount
  BY DevicesTyped DEF CountsInv
<1>2. drive \in Bytes
  BY <1>1, SanDeviceFields
<1>3. /\ required \in 1 .. 128
      /\ drive < 128 => drive < required
      /\ ~(drive < 128) => drive - 128 < required
  BY <1>1, RequiredFacts, Zenon DEF int13_is_fdd
<1> HIDE DEF drive, required
<1>4. drive # 127 /\ drive # 255
  <2>1. required <= MaxCount
    BY <1>1
  <2> QED
    BY <1>2, <1>3, <2>1, DrivesAssumption, SMTT(30) DEF Bytes
<1>5. drive % 128 # 127
  BY <1>2, <1>4, SMTT(30) DEF Bytes
<1> QED
  BY <1>5 DEF drive

\* A number of device k stops the search there and nowhere else.
LEMMA FoundDevice ==
  ASSUME CountsInv, DistinctNumbers, NEW k \in DOMAIN san_devices, NEW dl, NEW ah,
         dl = san_devices[k].drive \/ (dl = san_devices[k].natural_drive /\ ah = "io")
  PROVE  Stops(dl, ah) # {} /\ Found(dl, ah) = k
<1>1. k \in Stops(dl, ah)
  BY DEF Stops, StopsAt
<1>2. /\ Found(dl, ah) \in DOMAIN san_devices
      /\ StopsAt(dl, ah, san_devices[Found(dl, ah)])
  BY <1>1, FoundFacts DEF CountsInv
<1>3. ~(dl % 128 = 127 /\ ah = "cdrom_status")
  BY DriveNotReserved
<1>4. \/ dl = san_devices[Found(dl, ah)].drive
      \/ dl = san_devices[Found(dl, ah)].natural_drive
  BY <1>2, <1>3 DEF StopsAt
<1>5. Found(dl, ah) = k
  BY <1>2, <1>4 DEF DistinctNumbers
<1> QED
  BY <1>1, <1>5

\* A call for the number of a SAN device is served by that device, provided that
\* devices are given numbers of the BIOS drives they displace or the next free ones.
THEOREM DrivesAreServed ==
  ASSUME FloppiesFit, ArgsDisplace
  PROVE  Spec => []DriveServed
<1>1. Init => DriveServed
  BY DEF Init, DriveServed
<1>2. ASSUME NumbersInv, DriveServed, [Next]_vars PROVE DriveServed'
  <2>1. CASE int13
    <3> SUFFICES ASSUME call'.dl \in {d.drive : d \in Devices'} PROVE served' = call'.dl
      BY DEF DriveServed
    <3>1. CountsInv /\ DistinctNumbers /\ call' = call
      BY <1>2, <2>1 DEF NumbersInv, int13
    <3>2. PICK k \in DOMAIN san_devices : san_devices[k].drive = call.dl
      <4>1. PICK j \in DOMAIN san_devices' : san_devices'[j].drive = call.dl
        BY <3>1 DEF Devices
      <4>2. DOMAIN san_devices' = DOMAIN san_devices
            /\ san_devices'[j].drive = san_devices[j].drive
        <5>1. CASE UNCHANGED san_devices
          BY <5>1
        <5>2. CASE \E i, status : san_devices' = [san_devices EXCEPT ![i].last_status = status]
          BY <3>1, <4>1, <5>2, SMTT(30) DEF CountsInv, SanDevice
        <5> QED
          BY <2>1, <5>1, <5>2 DEF int13, Pass, Serve
      <4> QED
        BY <4>1, <4>2
    <3>3. Stops(call.dl, call.ah) # {} /\ Found(call.dl, call.ah) = k
      BY <3>1, <3>2, FoundDevice
    <3>4. ~Remapped(call.dl, call.ah)
      BY <3>2, <3>3 DEF Remapped
    <3>5. served' = san_devices[k].drive
      BY <2>1, <3>3, <3>4 DEF int13, Serve
    <3> QED
      BY <3>1, <3>2, <3>5
  <2>2. CASE \/ int13_hook \/ int13_unhook \/ int13_wrapper \/ Return
             \/ BiosRestoresCounts \/ OtherHooks \/ OtherUnhooks
    <3>1. pc' \notin {"chain", "return"}
      BY <2>2 DEF int13_hook, int13_unhook, int13_wrapper, Return, BiosRestoresCounts,
                  OtherHooks, OtherUnhooks, callVars
    <3> QED
      BY <3>1 DEF DriveServed
  <2>3. CASE UNCHANGED vars
    BY <1>2, <2>3 DEF vars, DriveServed, Devices
  <2> QED
    BY <1>2, <2>1, <2>2, <2>3 DEF Next
<1>3. NumbersInv /\ DriveServed /\ [Next]_vars => DriveServed'
  BY <1>2
<1> QED
  BY <1>1, <1>3, NumbersInvariant, PTL DEF Spec
\* Where a number of a SAN device leads.
LEMMA RouteOfDevice ==
  ASSUME CountsInv, DistinctNumbers, NEW k \in DOMAIN san_devices
  PROVE  /\ Route(san_devices[k].drive) = NoDrive
         /\ san_devices[k].natural_drive # san_devices[k].drive =>
               Route(san_devices[k].natural_drive) = san_devices[k].drive
<1>1. Route(san_devices[k].drive) = NoDrive
  <2> DEFINE dl == san_devices[k].drive
  <2>1. Stops(dl, "io") # {} /\ Found(dl, "io") = k
    BY FoundDevice
  <2>2. ~Remapped(dl, "io")
    BY <2>1 DEF Remapped
  <2> HIDE DEF dl
  <2>3. Route(dl) = NoDrive
    BY <2>1, <2>2 DEF Route
  <2> QED
    BY <2>3 DEF dl
<1>2. ASSUME san_devices[k].natural_drive # san_devices[k].drive
      PROVE  Route(san_devices[k].natural_drive) = san_devices[k].drive
  <2> DEFINE dl == san_devices[k].natural_drive
  <2>1. Stops(dl, "io") # {} /\ Found(dl, "io") = k
    BY FoundDevice
  <2>2. Remapped(dl, "io")
    BY <1>2, <2>1 DEF Remapped
  <2> HIDE DEF dl
  <2>3. Route(dl) = san_devices[k].drive
    BY <2>1, <2>2 DEF Route
  <2> QED
    BY <2>3 DEF dl
<1> QED
  BY <1>1, <1>2

\* What leads to a BIOS drive: its own number, or the natural number of a device that
\* displaced it.
LEMMA RouteToDisk ==
  ASSUME CountsInv, NEW dl, Route(dl) # NoDrive
  PROVE  \/ dl = Route(dl) /\ \A k \in DOMAIN san_devices : dl # san_devices[k].drive
         \/ \E k \in DOMAIN san_devices :
               san_devices[k].drive = Route(dl) /\ san_devices[k].natural_drive = dl
<1>1. CASE Stops(dl, "io") = {}
  BY <1>1 DEF Route, Stops, StopsAt
<1>2. CASE Stops(dl, "io") # {}
  <2>1. Found(dl, "io") \in DOMAIN san_devices
    BY <1>2, FoundFacts DEF CountsInv
  <2>2. Remapped(dl, "io") /\ Route(dl) = san_devices[Found(dl, "io")].drive
    BY <1>2 DEF Route
  <2> QED
    BY <2>1, <2>2 DEF Remapped
<1> QED
  BY <1>1, <1>2

\* No BIOS hard disk is lost or shows up twice: exactly one of the numbers a caller
\* is told of leads to it, its own or the natural number of the device that displaced
\* it (natural_drive of struct int13_data).
THEOREM DisksAreReachable ==
  ASSUME FloppiesFit, ArgsDisplace
  PROVE  Spec => []DisksReachable
<1>1. NumbersInv => DisksReachable
  <2> SUFFICES ASSUME NumbersInv, NEW disk \in 128 .. 127 + BiosHdds
               PROVE  Cardinality({dl \in 128 .. 127 + Synced(bda, Devices).hdds :
                                      Route(dl) = disk}) = 1
    BY DEF DisksReachable
  <2> DEFINE hdds == Synced(bda, Devices).hdds
             had == bda.hdds
             S == {dl \in 128 .. 127 + hdds : Route(dl) = disk}
  <2>1. CountsInv /\ DistinctNumbers /\ NaturalsLast
    BY DEF NumbersInv
  <2>2. /\ had \in 0 .. 127 /\ BiosHdds <= had /\ had <= hdds /\ hdds \in 0 .. 127
        /\ \A d \in Devices : ~int13_is_fdd(d) => Required(d) <= hdds
    <3>1. /\ bda.ew \in EquipmentWords /\ bda.hdds \in 0 .. 127 /\ BiosHdds <= bda.hdds
          /\ Devices \subseteq SanDevice /\ \A d \in Devices : Required(d) <= MaxCount
      BY <2>1, DevicesTyped DEF CountsInv
    <3>2. CountsEnough(bda, Devices, Synced(bda, Devices).fdds, hdds)
      BY <3>1, SyncedFacts
    <3> QED
      BY <3>1, <3>2 DEF CountsEnough
  <2>3. BiosHdds \in 0 .. 127
    BY DrivesAssumption
  <2> HIDE DEF hdds, had
  <2>4. disk \in 128 .. 127 + hdds /\ disk # NoDrive
    BY <2>2, <2>3 DEF NoDrive
  <2>5. \E dl : S = {dl}
    <3>1. CASE \E k \in DOMAIN san_devices : san_devices[k].drive = disk
      <4>1. PICK k \in DOMAIN san_devices : san_devices[k].drive = disk
        BY <3>1
      <4> DEFINE natural == san_devices[k].natural_drive
                 required == Required(san_devices[k])
      <4>2. san_devices[k] \in SanDevice /\ san_devices[k] \in Devices
        BY <2>1, DevicesTyped DEF CountsInv
      <4>3. ~int13_is_fdd(san_devices[k])
        BY <2>3, <4>1 DEF int13_is_fdd
      <4>4. /\ required \in 1 .. 128 /\ natural \in Bytes /\ natural - 128 < required
            /\ required <= hdds /\ 128 + BiosHdds <= natural
        <5>1. required \in 1 .. 128 /\ natural - 128 < required
          BY <4>2, <4>3, RequiredFacts, Zenon
        <5>2. natural \in Bytes
          BY <4>2, SanDeviceFields, Zenon
        <5>3. required <= hdds
          BY <2>2, <4>2, <4>3, Zenon
        <5>4. 128 + BiosHdds <= natural
          BY <2>1, <4>3, Zenon DEF NaturalsLast
        <5> QED
          BY <5>1, <5>2, <5>3, <5>4
      <4>5. /\ Route(disk) = NoDrive
            /\ natural # disk => Route(natural) = disk
        BY <2>1, <4>1, RouteOfDevice
      <4>6. \A j \in DOMAIN san_devices : san_devices[j].drive = disk => j = k
        BY <2>1, <4>1 DEF DistinctNumbers
      <4>7. ASSUME NEW dl, Route(dl) = disk PROVE dl = natural
        <5>1. \/ dl = disk
              \/ \E j \in DOMAIN san_devices :
                    san_devices[j].drive = disk /\ san_devices[j].natural_drive = dl
          BY <2>1, <2>4, <4>7, RouteToDisk
        <5>2. dl # disk
          BY <2>4, <4>5, <4>7
        <5> QED
          BY <4>6, <5>1, <5>2
      <4> HIDE DEF natural, required
      <4>8. natural \in 128 .. 127 + hdds /\ natural # disk
        <5>1. hdds \in 0 .. 127
          BY <2>2
        <5> QED
          BY <2>3, <4>4, <5>1, SMTT(30) DEF Bytes
      <4>9. S = {natural}
        BY <4>5, <4>7, <4>8
      <4> QED
        BY <4>9
    <3>2. CASE \A k \in DOMAIN san_devices : san_devices[k].drive # disk
      <4>1. ASSUME NEW k \in DOMAIN san_devices PROVE san_devices[k].natural_drive # disk
        <5> DEFINE natural == san_devices[k].natural_drive
                   drive == san_devices[k].drive
        <5>1. natural \in Bytes /\ drive \in Bytes
              /\ (FloppyNumber(drive) <=> FloppyNumber(natural))
          <6>1. san_devices[k] \in SanDevice
            BY <2>1, DevicesTyped DEF CountsInv
          <6> QED
            BY <6>1, SanDeviceFields, Zenon
        <5>2. drive < 128 \/ 128 + BiosHdds <= natural
          BY <2>1 DEF NaturalsLast, int13_is_fdd
        <5> HIDE DEF natural, drive
        <5>3. natural # disk
          BY <2>3, <5>1, <5>2, SMTT(30) DEF Bytes, FloppyNumber
        <5> QED
          BY <5>3 DEF natural
      <4>2. Stops(disk, "io") = {}
        BY <3>2, <4>1 DEF Stops, StopsAt
      <4>3. Route(disk) = disk
        BY <4>2 DEF Route
      <4>4. \A dl : Route(dl) = disk => dl = disk
        BY <2>1, <2>4, <3>2, RouteToDisk
      <4>5. S = {disk}
        BY <2>4, <4>3, <4>4
      <4> QED
        BY <4>5
    <3> QED
      BY <3>1, <3>2
  <2>6. Cardinality(S) = 1
    <3> HIDE DEF S
    <3> QED
      BY <2>5, FS_Singleton
  <2> QED
    BY <2>6 DEF hdds
<1> QED
  BY <1>1, NumbersInvariant, PTL
=============================================================================
