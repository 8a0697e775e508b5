------------------------- MODULE Int13TransferProofs -------------------------
(***************************************************************************)
(* For every request, scale and number of retries, the loop                *)
(* of sandev_rw neither loses, repeats nor misplaces a block.              *)
(*                                                                         *)
(* The inductive invariant is the type invariant, where the loop stands    *)
(* (Progress), what it has moved (PrefixInPlace, OnlyCallWritten) and,     *)
(* for a call that has returned, that it moved everything.                 *)
(***************************************************************************)
EXTENDS Int13Transfer, TLAPS

\* Nothing is written but the memory that the pointer given to sandev_rw leads to.
OnlyCallWritten ==
    \A a \in Areas, i \in Cells :
        mem[a][i] # Untouched => a = call.area /\ i < Total

\* A successful call has moved the block of every cell, as much of it as the
\* device copies.
AllMoved ==
    (pc = "returned" /\ rc = "ok") =>
        \A i \in Cells : i < Total => mem[call.area][i] = Block(First + i)

IInv == TypeOK /\ Progress /\ PrefixInPlace /\ OnlyCallWritten /\ AllMoved

\* Scaling a count or an address gives a natural number.
LEMMA ScaledNat == \A n \in Nat, k \in Nat \ {0} : n * k \in Nat
  BY SMT

\* The content of a block is a content of memory.
LEMMA BlockType == \A n \in Nat : Block(n) \in Contents
  BY TransferAssumption DEF Block, Contents

\* An empty memory has its type.
LEMMA EmptyMem == [a \in Areas |-> [i \in Cells |-> Untouched]] \in [Areas -> [Cells -> Contents]]
  BY DEF Contents, Untouched

\* The initial state satisfies the invariant.
LEMMA InitIInv == Init => IInv
<1> SUFFICES ASSUME Init PROVE IInv
  OBVIOUS
<1>1. TypeOK
  BY EmptyMem, TransferAssumption DEF Init, TypeOK, NoCall, Areas, phys_to_user
<1>2. OnlyCallWritten
  BY DEF Init, OnlyCallWritten
<1> QED
  BY <1>1, <1>2 DEF Init, IInv, Progress, PrefixInPlace, AllMoved

\* Entering sandev_rw with a request establishes the invariant.
LEMMA EnterIInv ==
  ASSUME IInv, pc = "caller", NEW d \in Devices,
         NEW kind \in {"sectors", "extended", "catalog"}, NEW lba \in Nat, NEW count \in Nat,
         NEW named \in Areas, sandev_rw(kind, d, lba, count, named), al' \in Nat
  PROVE  IInv'
<1>0. d.scale \in Nat \ {0}
  BY TransferAssumption
<1>1. /\ lba * d.scale \in Nat /\ count * d.scale \in Nat
  BY <1>0, ScaledNat
<1>2. TypeOK'
  <2>1. phys_to_user(named) \in Areas
    BY DEF phys_to_user, Areas
  <2>2. /\ call' \in [kind : {"none", "sectors", "extended", "catalog"},
                      scale : Nat \ {0}, lba : Nat, count : Nat,
                      named : Areas, area : Areas]
        /\ call'.area = phys_to_user(call'.named)
    BY <1>0, <2>1 DEF sandev_rw
  <2> QED
    BY <1>1, <2>2, EmptyMem, TransferAssumption DEF IInv, TypeOK, sandev_rw, max_count
<1>3. call'.scale = d.scale /\ call'.lba = lba /\ call'.count = count
  BY DEF sandev_rw
<1>4. Progress'
  BY <1>1, <1>3 DEF sandev_rw, Progress, First, Total
<1>5. \A a \in Areas, i \in Cells : mem'[a][i] = Untouched
  BY DEF sandev_rw
<1>6. PrefixInPlace'
  <2>1. call'.area \in Areas /\ params'.buffer = 0
    BY <1>2 DEF TypeOK, sandev_rw
  <2>2. \A i \in Cells : ~(i < 0)
    BY DEF Cells
  <2> QED
    BY <1>5, <2>1, <2>2 DEF PrefixInPlace
<1>7. OnlyCallWritten'
  BY <1>5 DEF OnlyCallWritten
<1>8. AllMoved'
  BY DEF sandev_rw, AllMoved
<1> QED
  BY <1>2, <1>4, <1>6, <1>7, <1>8 DEF IInv

\* So does refusing a request.
LEMMA InvalidIInv ==
  ASSUME IInv, pc = "caller", NEW kind \in {"sectors", "extended", "catalog"},
         NEW count \in Nat, Invalid(kind, count)
  PROVE  IInv'
<1>1. TypeOK'
  <2>1. /\ call' \in [kind : {"none", "sectors", "extended", "catalog"},
                      scale : Nat \ {0}, lba : Nat, count : Nat,
                      named : Areas, area : Areas]
        /\ call'.area = phys_to_user(call'.named)
    BY DEF Invalid, NoCall, Areas, phys_to_user
  <2> QED
    BY <2>1, EmptyMem, TransferAssumption DEF IInv, TypeOK, Invalid
<1>2. \A a \in Areas, i \in Cells : mem'[a][i] = Untouched
  BY DEF Invalid
<1>3. OnlyCallWritten'
  BY <1>2 DEF OnlyCallWritten
<1>4. Progress' /\ PrefixInPlace' /\ AllMoved'
  BY DEF Invalid, Progress, PrefixInPlace, AllMoved
<1> QED
  BY <1>1, <1>3, <1>4 DEF IInv

\* What a read of the current fragment does to the memory: the cells of the
\* fragment hold their blocks, the others are as before.
LEMMA BlockReadEffect ==
  ASSUME IInv, pc = "command"
  PROVE  /\ BlockRead \in [Areas -> [Cells -> Contents]]
         /\ \A i \in Cells :
               BlockRead[call.area][i] =
                 IF params.buffer <= i /\ i < params.buffer + params.count
                 THEN Block(First + i) ELSE mem[call.area][i]
         /\ \A a \in Areas \ {call.area}, i \in Cells : BlockRead[a][i] = mem[a][i]
<1>1. /\ call.area \in Areas /\ call.scale \in Nat \ {0} /\ call.lba \in Nat
      /\ params.lba \in Nat /\ params.count \in Nat /\ params.buffer \in Nat
      /\ mem \in [Areas -> [Cells -> Contents]]
  BY DEF IInv, TypeOK
<1>2. First \in Nat /\ params.lba = First + params.buffer
  BY <1>1, ScaledNat DEF IInv, Progress, First
<1>3. \A i \in Cells : i \in Nat
  BY TransferAssumption DEF Cells
<1>4. params.count = 1
  BY DEF IInv, TypeOK
<1>5. \A i \in Cells : i = params.buffer <=>
                         params.buffer <= i /\ i < params.buffer + params.count
  BY <1>1, <1>3, <1>4
<1>6. Block(params.lba) \in Contents
  BY <1>1, BlockType
<1> DEFINE row == [i \in Cells |-> IF i = params.buffer
                                   THEN Block(params.lba) ELSE mem[call.area][i]]
<1>7. row \in [Cells -> Contents]
  BY <1>1, <1>6
<1>8. BlockRead = [mem EXCEPT ![call.area] = row]
  BY DEF BlockRead
<1>9. BlockRead[call.area] = row /\ \A a \in Areas \ {call.area} : BlockRead[a] = mem[a]
  BY <1>1, <1>8, Zenon
<1>10. BlockRead \in [Areas -> [Cells -> Contents]]
  BY <1>1, <1>7, <1>8
<1>11. \A i \in Cells :
               row[i] = IF params.buffer <= i /\ i < params.buffer + params.count
                        THEN Block(First + i) ELSE mem[call.area][i]
  BY <1>2, <1>5
<1> HIDE DEF row
<1> QED
  BY <1>9, <1>10, <1>11

\* A fragment that succeeds extends the prefix that is in place.
LEMMA CommandSucceedsIInv == ASSUME IInv, CommandSucceeds PROVE IInv'
<1>1. /\ pc = "command" /\ pc' = "fragment" /\ mem' = BlockRead
      /\ UNCHANGED <<call, retries, rc, al>>
      /\ params' = [lba |-> params.lba + params.count, count |-> params.count,
                    buffer |-> params.buffer + params.count]
      /\ remaining' = remaining - params.count
  BY DEF CommandSucceeds
<1>2. TypeOK /\ Progress /\ PrefixInPlace /\ OnlyCallWritten
  BY DEF IInv
<1>3. /\ params.lba \in Nat /\ params.count \in Nat /\ params.buffer \in Nat
      /\ remaining \in Nat /\ 0 < params.count /\ params.count <= remaining
      /\ call.area \in Areas /\ call.scale \in Nat \ {0} /\ call.lba \in Nat /\ call.count \in Nat
  BY <1>1, <1>2 DEF TypeOK
<1>4. /\ params'.buffer = params.buffer + params.count
      /\ params'.lba = params.lba + params.count
      /\ params'.count = params.count
  BY <1>1, <1>2 DEF TypeOK
<1>5. First \in Nat /\ Total \in Nat
  BY <1>3, ScaledNat DEF First, Total
<1>6. First' = First /\ Total' = Total
  BY <1>1 DEF First, Total
<1>7. TypeOK'
  <2>1. mem' \in [Areas -> [Cells -> Contents]]
    BY <1>1, BlockReadEffect
  <2>2. params' \in [lba : Nat, count : Nat, buffer : Nat]
    BY <1>1, <1>2, <1>3 DEF TypeOK
  <2>3. remaining' \in Nat
    BY <1>1, <1>3
  <2> QED
    BY <1>1, <1>2, <1>3, <1>4, <2>1, <2>2, <2>3 DEF TypeOK
<1>8. Progress'
  BY <1>1, <1>2, <1>3, <1>4, <1>5, <1>6 DEF Progress
<1>9. \A i \in Cells : i \in Nat
  BY TransferAssumption DEF Cells
<1>10. PrefixInPlace'
  <2> SUFFICES ASSUME NEW i \in Cells
               PROVE  /\ i < params'.buffer => mem'[call.area][i] = Block(First + i)
                      /\ i >= params'.buffer =>
                            mem'[call.area][i] \in {Untouched, Block(First + i)}
    BY <1>1, <1>6 DEF PrefixInPlace
  <2>1. mem'[call.area][i] = IF params.buffer <= i /\ i < params.buffer + params.count
                             THEN Block(First + i) ELSE mem[call.area][i]
    BY <1>1, BlockReadEffect
  <2>2. /\ i < params.buffer => mem[call.area][i] = Block(First + i)
        /\ i >= params.buffer => mem[call.area][i] \in {Untouched, Block(First + i)}
    BY <1>1, <1>2 DEF PrefixInPlace
  <2>3. i \in Nat /\ params'.buffer = params.buffer + params.count
    BY <1>4, <1>9
  <2>4. CASE i < params.buffer
    BY <1>3, <2>1, <2>2, <2>3, <2>4
  <2>5. CASE params.buffer <= i /\ i < params.buffer + params.count
    BY <1>3, <2>1, <2>3, <2>5
  <2>6. CASE i >= params.buffer + params.count
    BY <1>3, <2>1, <2>2, <2>3, <2>6
  <2> QED
    BY <1>3, <2>3, <2>4, <2>5, <2>6
<1>11. OnlyCallWritten'
  <2> SUFFICES ASSUME NEW a \in Areas, NEW i \in Cells, mem'[a][i] # Untouched
               PROVE  a = call.area /\ i < Total
    BY <1>1, <1>6 DEF OnlyCallWritten
  <2>1. CASE a # call.area
    BY <1>1, <1>2, <2>1, BlockReadEffect DEF OnlyCallWritten
  <2>2. CASE a = call.area
    <3>1. mem'[a][i] = IF params.buffer <= i /\ i < params.buffer + params.count
                       THEN Block(First + i) ELSE mem[a][i]
      BY <1>1, <2>2, BlockReadEffect
    <3>2. params.buffer + params.count <= Total
      BY <1>1, <1>2, <1>3, <1>5 DEF Progress
    <3>3. mem[a][i] # Untouched => i < Total
      BY <1>2 DEF OnlyCallWritten
    <3> QED
      BY <1>3, <1>5, <1>9, <2>2, <3>1, <3>2, <3>3
  <2> QED
    BY <2>1, <2>2
<1>12. AllMoved'
  BY <1>1 DEF AllMoved
<1> QED
  BY <1>7, <1>8, <1>10, <1>11, <1>12 DEF IInv

\* A failed attempt, whether or not it moved its data, keeps the invariant: a
\* repetition moves the same blocks to the same place.
LEMMA AttemptFailsIInv == ASSUME IInv, AttemptFails PROVE IInv'
<1>1. /\ pc = "command" /\ mem' \in {mem, BlockRead}
      /\ UNCHANGED <<call, params, remaining>>
      /\ retries' = retries + 1
      /\ \/ retries' <= SanRetries /\ UNCHANGED <<pc, rc, al>>
         \/ ~(retries' <= SanRetries) /\ pc' = "returned" /\ rc' = "READ_ERROR" /\ al' \in {0, al}
  BY DEF AttemptFails, AttemptMem
<1>2. TypeOK /\ Progress /\ PrefixInPlace /\ OnlyCallWritten
  BY DEF IInv
<1>3. /\ params.lba \in Nat /\ params.count \in Nat /\ params.buffer \in Nat
      /\ remaining \in Nat /\ 0 < params.count /\ params.count <= remaining
      /\ call.area \in Areas /\ call.scale \in Nat \ {0} /\ call.lba \in Nat /\ call.count \in Nat
  BY <1>1, <1>2 DEF TypeOK
<1>4. First \in Nat /\ Total \in Nat /\ First' = First /\ Total' = Total
  BY <1>1, <1>3, ScaledNat DEF First, Total
<1>5. \A i \in Cells : i \in Nat
  BY TransferAssumption DEF Cells
<1>6. mem' \in [Areas -> [Cells -> Contents]]
  BY <1>1, <1>2, BlockReadEffect DEF TypeOK
<1>7. TypeOK'
  <2>1. retries \in Nat /\ retries <= SanRetries /\ retries' \in 0 .. SanRetries + 1
    BY <1>1, <1>2, TransferAssumption DEF TypeOK
  <2>2. pc' \in {"command", "returned"} /\ rc' \in {"ok", "INVALID", "READ_ERROR"} /\ al' \in Nat
    BY <1>1, <1>2 DEF TypeOK
  <2>3. pc' = "command" => retries' <= SanRetries
    BY <1>1
  <2> QED
    BY <1>1, <1>2, <1>6, <2>1, <2>2, <2>3 DEF TypeOK
<1>8. Progress'
  BY <1>1, <1>2, <1>4 DEF Progress
<1>9. PrefixInPlace'
  <2> SUFFICES ASSUME NEW i \in Cells
               PROVE  /\ i < params.buffer => mem'[call.area][i] = Block(First + i)
                      /\ i >= params.buffer =>
                            mem'[call.area][i] \in {Untouched, Block(First + i)}
    BY <1>1, <1>4 DEF PrefixInPlace
  <2>1. /\ i < params.buffer => mem[call.area][i] = Block(First + i)
        /\ i >= params.buffer => mem[call.area][i] \in {Untouched, Block(First + i)}
    BY <1>1, <1>2 DEF PrefixInPlace
  <2>2. CASE mem' = mem
    BY <2>1, <2>2
  <2>3. CASE mem' = BlockRead
    <3>1. mem'[call.area][i] = IF params.buffer <= i /\ i < params.buffer + params.count
                               THEN Block(First + i) ELSE mem[call.area][i]
      BY <1>1, <2>3, BlockReadEffect
    <3> QED
      BY <1>3, <1>5, <2>1, <3>1
  <2> QED
    BY <1>1, <2>2, <2>3
<1>10. OnlyCallWritten'
  <2> SUFFICES ASSUME NEW a \in Areas, NEW i \in Cells, mem'[a][i] # Untouched
               PROVE  a = call.area /\ i < Total
    BY <1>1, <1>4 DEF OnlyCallWritten
  <2>1. CASE mem' = mem \/ a # call.area
    BY <1>1, <1>2, <2>1, BlockReadEffect DEF OnlyCallWritten
  <2>2. CASE mem' = BlockRead /\ a = call.area
    <3>1. mem'[a][i] = IF params.buffer <= i /\ i < params.buffer + params.count
                       THEN Block(First + i) ELSE mem[a][i]
      BY <1>1, <2>2, BlockReadEffect
    <3>2. params.buffer + params.count <= Total
      BY <1>1, <1>2, <1>3, <1>4 DEF Progress
    <3>3. mem[a][i] # Untouched => i < Total
      BY <1>2 DEF OnlyCallWritten
    <3> QED
      BY <1>3, <1>4, <1>5, <2>2, <3>1, <3>2, <3>3
  <2> QED
    BY <1>1, <2>1, <2>2
<1>11. AllMoved'
  BY <1>1 DEF AllMoved
<1> QED
  BY <1>7, <1>8, <1>9, <1>10, <1>11 DEF IInv

\* Every step keeps the invariant.
LEMMA NextIInv == IInv /\ [Next]_vars => IInv'
<1> SUFFICES ASSUME IInv, [Next]_vars PROVE IInv'
  OBVIOUS
<1>1. CASE int13_rw_sectors
  <2>1. PICK d \in Devices, lba \in Lbas, count \in Counts :
               \/ sandev_rw("sectors", d, lba, count, "segoff") /\ al' = count
               \/ Invalid("sectors", count)
    BY <1>1 DEF int13_rw_sectors
  <2>2. pc = "caller" /\ lba \in Nat /\ count \in Nat /\ "segoff" \in Areas
    BY <1>1, TransferAssumption DEF int13_rw_sectors, Areas
  <2> QED
    BY <2>1, <2>2, EnterIInv, InvalidIInv
<1>2. CASE int13_extended_rw
  <2>1. PICK size \in {8, 16, 24, 32, 40},
             field \in (Counts \cap 0 .. 127) \cup {128, 255},
             d \in Devices, lba \in Lbas, long_count \in Counts,
             flat \in BOOLEAN, above \in BOOLEAN :
               \/ Invalid("extended", field)
               \/ Overrun
               \/ /\ sandev_rw("extended", d, lba, PacketCount(size, field, long_count),
                               PacketBuffer(size, field, flat, above))
                  /\ al' = field
    BY <1>2 DEF int13_extended_rw
  <2>2. /\ pc = "caller" /\ lba \in Nat /\ field \in Nat
        /\ PacketCount(size, field, long_count) \in Nat
        /\ PacketBuffer(size, field, flat, above) \in Areas
    BY <1>2, TransferAssumption DEF int13_extended_rw, Areas, PacketCount, PacketBuffer
  <2>3. CASE Overrun
    BY <2>3 DEF Overrun, IInv, TypeOK, Progress, PrefixInPlace, OnlyCallWritten,
                AllMoved, First, Total
  <2> QED
    BY <2>1, <2>2, <2>3, EnterIInv, InvalidIInv
<1>3. CASE int13_cdrom_read_boot_catalog
  <2>1. PICK d \in Devices, start \in Lbas, count \in Counts :
               \/ Invalid("catalog", count)
               \/ sandev_rw("catalog", d, d.catalog + start, count, "phys") /\ al' = count
    BY <1>3 DEF int13_cdrom_read_boot_catalog
  <2>2. pc = "caller" /\ d.catalog + start \in Nat /\ count \in Nat /\ "phys" \in Areas
    BY <1>3, TransferAssumption DEF int13_cdrom_read_boot_catalog, Areas
  <2> QED
    BY <2>1, <2>2, EnterIInv, InvalidIInv
<1>4. CASE Fragment
  <2>1. /\ pc = "fragment" /\ remaining > 0 /\ pc' = "command" /\ retries' = 0
        /\ params' = [params EXCEPT !.count = IF @ > remaining THEN remaining ELSE @]
        /\ UNCHANGED <<call, remaining, rc, al, mem>>
    BY <1>4 DEF Fragment
  <2>2. TypeOK /\ Progress /\ PrefixInPlace /\ OnlyCallWritten
    BY DEF IInv
  <2>3. /\ params'.buffer = params.buffer /\ params'.lba = params.lba
        /\ params'.count = IF params.count > remaining THEN remaining ELSE params.count
        /\ params' \in [lba : Nat, count : Nat, buffer : Nat]
    BY <2>1, <2>2 DEF TypeOK
  <2>4. TypeOK'
    BY <2>1, <2>2, <2>3, TransferAssumption DEF TypeOK
  <2>5. First' = First /\ Total' = Total
    BY <2>1 DEF First, Total
  <2>6. Progress' /\ PrefixInPlace' /\ OnlyCallWritten' /\ AllMoved'
    BY <2>1, <2>2, <2>3, <2>5 DEF Progress, PrefixInPlace, OnlyCallWritten, AllMoved
  <2> QED
    BY <2>4, <2>6 DEF IInv
<1>5. CASE Finish
  <2>1. /\ pc = "fragment" /\ remaining = 0 /\ pc' = "returned" /\ rc' = "ok"
        /\ UNCHANGED <<call, params, remaining, retries, al, mem>>
    BY <1>5 DEF Finish
  <2>2. TypeOK /\ Progress /\ PrefixInPlace /\ OnlyCallWritten
    BY DEF IInv
  <2>3. First' = First /\ Total' = Total
    BY <2>1 DEF First, Total
  <2>4. params.buffer = Total
    BY <2>1, <2>2 DEF Progress, TypeOK
  <2>5. AllMoved'
    BY <2>1, <2>2, <2>3, <2>4 DEF AllMoved, PrefixInPlace
  <2>6. TypeOK' /\ Progress' /\ PrefixInPlace' /\ OnlyCallWritten'
    BY <2>1, <2>2, <2>3 DEF TypeOK, Progress, PrefixInPlace, OnlyCallWritten
  <2> QED
    BY <2>5, <2>6 DEF IInv
<1>6. CASE CommandSucceeds
  BY <1>6, CommandSucceedsIInv
<1>7. CASE AttemptFails
  BY <1>7, AttemptFailsIInv
<1>8. CASE Return
  <2>1. TypeOK'
    BY <1>8, EmptyMem, TransferAssumption
       DEF Return, NoCall, Areas, TypeOK, phys_to_user
  <2>2. OnlyCallWritten'
    BY <1>8 DEF Return, OnlyCallWritten
  <2>3. Progress' /\ PrefixInPlace' /\ AllMoved'
    BY <1>8 DEF Return, Progress, PrefixInPlace, AllMoved
  <2> QED
    BY <2>1, <2>2, <2>3 DEF IInv
<1>9. CASE Undefined \/ UNCHANGED vars
  BY <1>9 DEF Undefined, vars, IInv, TypeOK, Progress, PrefixInPlace, OnlyCallWritten, AllMoved,
              First, Total
<1> QED
  BY <1>1, <1>2, <1>3, <1>4, <1>5, <1>6, <1>7, <1>8, <1>9 DEF Next

\* The invariant holds throughout.
THEOREM TransferInvariant == Spec => []IInv
  BY InitIInv, NextIInv, PTL DEF Spec

\* In the middle of any call, of any length and however often its fragments are
\* tried, what the loop of sandev_rw has moved so far is in place.
THEOREM PrefixIsInPlace == Spec => []PrefixInPlace
<1>1. IInv => PrefixInPlace
  BY DEF IInv
<1> QED
  BY <1>1, TransferInvariant, PTL

\* A call writes nothing but the buffer its caller named, as long as the packet is no
\* longer than struct int13_disk_address and the buffer is below 4GB: the two
\* conditions are part of OnlyBufferWritten.
THEOREM BufferRespected == Spec => []OnlyBufferWritten
<1>1. IInv => OnlyBufferWritten
  BY DEF IInv, TypeOK, phys_to_user, OnlyCallWritten, OnlyBufferWritten
<1> QED
  BY <1>1, TransferInvariant, PTL

\* When a block is a sector, a successful call brought every block asked for to the
\* buffer that was named, if it is below 4GB; the copy of 512 bytes in nvme_read is
\* why the assumption is needed.
THEOREM SuccessIsComplete ==
  ASSUME SmallBlocks = TRUE
  PROVE  Spec => []SuccessBringsBlocks
<1>1. IInv => SuccessBringsBlocks
  BY DEF IInv, TypeOK, phys_to_user, AllMoved, SuccessBringsBlocks, Block
<1> QED
  BY <1>1, TransferInvariant, PTL
=============================================================================
