--------------------------- MODULE OptionRomProofs ---------------------------
(***************************************************************************)
(* A copy that an interrupt vector leads to is intact, and a copy that     *)
(* could not hook INT 13 leaves no trace: no step of the ROM, of a copy or *)
(* of another program breaks the invariants.                               *)
(*                                                                         *)
(* A copy that any vector leads to is hidden from the memory map, because  *)
(* its INT 15 is under every other hook of its, and it holds its base      *)
(* memory as long as hooked_bios_interrupts counts a hook.                 *)
(***************************************************************************)
EXTENDS OptionRomVectorProofs

-----------------------------------------------------------------------------
(* The steps of the ROM and of its copies.                                 *)

\* What a step of a copy has to show when it leaves memory and the counter alone.
LEMMA VectorStep ==
  ASSUME BootInv, UNCHANGED <<others, fbms, base, high>>,
         VecInv(vec', others), Anchored(vec'),
         copies' \in [Copies -> CopyType],
         \A j \in Copies : copies'[j].base = copies[j].base /\ copies'[j].high = copies[j].high,
         \A j \in Copies : copies'[j].sandev => copies[j].high # 0,
         at'[1] \in States, at'[1] \in RunStates \cup {"bootsector"} => at'[2] \in Copies,
         \A j \in Copies : Live(j)' => Live(j),
         AtInv', DevInv'
  PROVE  BootInv'
<1>1. VecInv(vec, others)' /\ Anchored(vec)'
  BY VecInvPrimed
<1>2. BootType'
  BY DEF BootInv, BootType
<1>3. fbms' \in Nat /\ fbms' >= fbms
  <2>1. fbms \in 0 .. BaseTop
    BY DEF BootInv, BootType
  <2> QED BY <2>1, OptionRomAssumption
<1>4. EnteredInv'
  BY <1>3, EnteredKept DEF BootInv
<1>5. MemInv'
  BY MemKept DEF BootInv
<1> QED
  BY <1>1, <1>2, <1>4, <1>5 DEF BootInv

\* What the steps of a copy start from.
LEMMA RunFacts ==
  ASSUME BootInv
  PROVE  /\ VecInv(vec, others) /\ Len(others) \in Nat
         /\ copies \in [Copies -> CopyType]
         /\ \A j \in Copies : copies[j].sandev => copies[j].high # 0
         /\ at[1] \in RunStates \cup {"bootsector"} => at[2] \in Copies
         /\ \A j \in Copies : Live(j) => copies[j].high # 0
         /\ "startup" \in RunStates /\ "hook" \in RunStates /\ "describe" \in RunStates
         /\ "boot" \in RunStates /\ "fail" \in RunStates /\ "shutdown" \in RunStates
         /\ "uninstall" \in RunStates
<1>1. Len(others) \in Nat
  BY OptionRomAssumption DEF BootInv, BootType
<1>2. \A j \in Copies : Live(j) => copies[j].high # 0
  BY OptionRomAssumption DEF BootInv, MemInv, Resident, Places
<1> QED
  BY <1>1, <1>2 DEF BootInv, BootType, EnteredInv, RunStates

\* What exec does, with the decompression area it uses.
ExecAt(temporary) ==
    LET i == Cardinality(Entered) + 1
        place == Relocated(temporary)
    IN  /\ i \in Copies
        /\ fbms' = fbms - 1
        /\ base' = [base EXCEPT ![fbms - 1] = i]
        /\ copies' = [copies EXCEPT ![i] = [Absent EXCEPT !.base = fbms - 1, !.high = place]]
        /\ high' = [high EXCEPT ![temporary] = Nobody, ![place] = i]
        /\ at' = <<IF temporary \in Hidden THEN "overwritten" ELSE "startup", i>>

\* The block from POST is a place in high memory, if there is one.
PmmType == decompress_to \in Places \cup {0}

\* exec uses the block from POST, or memory that is not hidden.
LEMMA ExecArea ==
  ASSUME PmmType, exec
  PROVE  \E t \in Places : ExecAt(t) /\ (t \notin Hidden \/ t = decompress_to)
<1>1. PICK t \in DecompressionAreas : ExecAt(t)
  BY DEF exec, ExecAt
<1>2. t \in Places /\ (t \notin Hidden \/ t = decompress_to)
  BY DEF DecompressionAreas, PmmType
<1> QED
  BY <1>1, <1>2

\* The BIOS enters the ROM: the copy is a new one, and has base memory of its own.
LEMMA ExecFacts ==
  ASSUME BootInv, NEW t \in Places, ExecAt(t)
  PROVE  LET i == Cardinality(Entered) + 1
         IN  \E e \in 0 .. MaxRuns :
                /\ Entered = 1 .. e /\ fbms >= BaseTop - e
                /\ i = e + 1 /\ i \in Copies /\ i \in Nat /\ e + 1 \in 0 .. MaxRuns
                /\ fbms \in 1 .. BaseTop /\ fbms - 1 \in 0 .. BaseTop - 1 /\ fbms - 1 \in Nat
                /\ \A int \in Ints : vec.chain[i][int] = Null
<1>1. MaxRuns \in Nat /\ MaxOthers \in Nat /\ BaseTop \in Nat /\ BaseTop >= MaxRuns
  BY OptionRomAssumption
<1>2. PICK e \in 0 .. MaxRuns : Entered = 1 .. e /\ fbms >= BaseTop - e
  BY DEF BootInv, EnteredInv
<1> DEFINE i == Cardinality(Entered) + 1
<1>3. i = e + 1 /\ i \in Copies /\ i \in Nat /\ e + 1 \in 0 .. MaxRuns
  <2>1. 1 \in Int /\ e \in Int
    BY <1>1
  <2>2. Cardinality(1 .. e) = IF 1 > e THEN 0 ELSE e - 1 + 1
    BY <2>1, FS_Interval
  <2>3. Cardinality(Entered) = e
    BY <1>2, <2>2
  <2>4. i \in Copies
    BY DEF ExecAt
  <2> QED BY <1>1, <2>3, <2>4 DEF Copies
<1>4. fbms \in 1 .. BaseTop /\ fbms - 1 \in 0 .. BaseTop - 1 /\ fbms - 1 \in Nat
  <2>1. fbms \in 0 .. BaseTop
    BY DEF BootInv, BootType
  <2>2. e + 1 <= MaxRuns
    BY <1>3
  <2> QED BY <1>1, <1>2, <2>1, <2>2
<1> HIDE DEF i
<1>5. \A int \in Ints : vec.chain[i][int] = Null
  <2> SUFFICES ASSUME NEW int \in Ints, vec.chain[i][int] # Null PROVE FALSE
    OBVIOUS
  <2>1. vec.chain[i]["15"] # Null
    BY <1>3 DEF BootInv, Anchored
  <2>2. Resident(i)
    BY <1>3, <2>1 DEF BootInv, MemInv, Live
  <2>3. copies[i].high # 0
    BY <1>1, <2>2 DEF Resident, Places
  <2>4. i \in Entered
    BY <1>3, <2>3 DEF Entered
  <2> QED BY <1>2, <1>3, <2>4
<1> QED
  BY <1>2, <1>3, <1>4, <1>5 DEF i

\* The BIOS enters the ROM, and the decompression area is free: a new copy, in memory
\* that nobody else has.
LEMMA ExecStep ==
  ASSUME BootInv, Outside, NEW temporary \in Places \ Hidden, ExecAt(temporary),
         UNCHANGED <<vec, others>>
  PROVE  BootInv'
<1>1. MaxRuns \in Nat /\ MaxOthers \in Nat /\ BaseTop \in Nat /\ BaseTop >= MaxRuns
  BY OptionRomAssumption
<1> DEFINE i == Cardinality(Entered) + 1
<1>2. PICK e \in 0 .. MaxRuns :
         /\ Entered = 1 .. e /\ fbms >= BaseTop - e
         /\ i = e + 1 /\ i \in Copies /\ i \in Nat /\ e + 1 \in 0 .. MaxRuns
         /\ fbms \in 1 .. BaseTop /\ fbms - 1 \in 0 .. BaseTop - 1 /\ fbms - 1 \in Nat
         /\ \A int \in Ints : vec.chain[i][int] = Null
  BY ExecFacts
<1>3. i = e + 1 /\ i \in Copies /\ i \in Nat /\ e + 1 \in 0 .. MaxRuns
  BY <1>2
<1>4. fbms \in 1 .. BaseTop /\ fbms - 1 \in 0 .. BaseTop - 1 /\ fbms - 1 \in Nat
  BY <1>2
<1> DEFINE R == Relocated(temporary)
           c == [Absent EXCEPT !.base = fbms - 1, !.high = R]
<1>5. high' = [high EXCEPT ![temporary] = Nobody, ![R] = i]
  BY DEF ExecAt
<1>6. /\ fbms' = fbms - 1 /\ copies' = [copies EXCEPT ![i] = c]
      /\ base' = [base EXCEPT ![fbms - 1] = i] /\ at' = <<"startup", i>>
  BY DEF ExecAt
<1>7. R \in Places \ Hidden /\ R \in Nat \ {0}
  <2>1. R \in Places \ Hidden
    BY RelocatedPlace
  <2> QED BY <1>1, <2>1 DEF Places
<1>8. /\ c \in CopyType /\ c.base = fbms - 1 /\ c.high = R /\ ~c.sandev
  BY <1>4, <1>7 DEF Absent, CopyType
<1> HIDE DEF R, c, i
<1>9. /\ copies \in [Copies -> CopyType] /\ base \in [0 .. BaseTop - 1 -> Nat]
      /\ high \in [Places -> Nat]
  BY DEF BootInv, BootType
<1>10. copies'[i] = c /\ \A j \in Copies \ {i} : copies'[j] = copies[j]
  BY <1>3, <1>6, <1>9
<1>11. base'[fbms - 1] = i /\ \A u \in 0 .. BaseTop - 1 : u # fbms - 1 => base'[u] = base[u]
  BY <1>4, <1>6, <1>9
<1>12. high'[R] = i
       /\ \A p \in Places : p # R /\ p # temporary => high'[p] = high[p]
  BY <1>5, <1>7, <1>9
<1>13. \A int \in Ints : vec.chain[i][int] = Null
  BY <1>2
<1>14. VecInv(vec, others)' /\ Anchored(vec)'
  BY VecInvPrimed DEF BootInv
<1>15. BootType'
  <2>1. copies' \in [Copies -> CopyType]
    BY <1>3, <1>6, <1>8, <1>9
  <2>2. base' \in [0 .. BaseTop - 1 -> Nat]
    BY <1>3, <1>6, <1>9
  <2>3. high' \in [Places -> Nat]
    BY <1>3, <1>5, <1>9 DEF Nobody
  <2>4. fbms' \in 0 .. BaseTop
    BY <1>1, <1>4, <1>6
  <2>5. at'[1] \in States /\ at'[2] \in Copies
    BY <1>3, <1>6 DEF States, RunStates
  <2>6. others' \in Seq([int : Ints, next : HandlerType]) /\ Len(others') \in 0 .. MaxOthers
    BY DEF BootInv, BootType
  <2> QED BY <2>1, <2>2, <2>3, <2>4, <2>5, <2>6 DEF BootType
<1>16. EnteredInv'
  <2>1. Entered' = 1 .. e + 1
    <3>1. Copies = 1 .. MaxRuns
      BY DEF Copies
    <3>2. \A j \in Copies \ {i} : copies'[j].high # 0 <=> copies[j].high # 0
      BY <1>10
    <3>3. copies'[i].high # 0
      BY <1>7, <1>8, <1>10
    <3>4. Entered' = Entered \cup {i}
      <4>1. Entered' = {j \in Copies : copies'[j].high # 0}
        BY DEF Entered
      <4>2. Entered = {j \in Copies : copies[j].high # 0}
        BY DEF Entered
      <4> QED BY <1>3, <3>2, <3>3, <4>1, <4>2
    <3> QED BY <1>1, <1>2, <1>3, <3>4
  <2>2. fbms' >= BaseTop - (e + 1)
    BY <1>1, <1>2, <1>4, <1>6
  <2>3. ASSUME NEW j \in Copies, copies'[j].sandev PROVE copies'[j].high # 0
    <3>1. j # i
      BY <1>8, <1>10, <2>3
    <3> QED BY <1>10, <2>3, <3>1 DEF BootInv, EnteredInv
  <2> QED BY <1>3, <2>1, <2>2, <2>3 DEF EnteredInv
<1>17. MemInv'
  <2> SUFFICES ASSUME NEW j \in Copies, Live(j)' PROVE Resident(j)'
    BY DEF MemInv
  <2>1. CASE j = i
    <3>1. copies'[j].base = fbms - 1 /\ copies'[j].high = R
      BY <1>8, <1>10, <2>1
    <3>2. fbms - 1 \in fbms' .. BaseTop - 1
      BY <1>1, <1>4, <1>6
    <3> QED BY <1>7, <1>11, <1>12, <2>1, <3>1, <3>2 DEF Resident, Places
  <2>2. CASE j # i
    <3>1. vec.chain[j]["15"] # Null
      BY <1>6, <2>2 DEF Live, Running
    <3>2. Resident(j)
      BY <3>1 DEF BootInv, MemInv, Live
    <3>3. copies[j].high \in Hidden
      BY <3>1, HookedHidden DEF BootInv, BootType
    <3>4. copies'[j] = copies[j]
      BY <1>10, <2>2
    <3>5. copies[j].base \in fbms .. BaseTop - 1 /\ base[copies[j].base] = j
          /\ copies[j].high \in Places /\ high[copies[j].high] = j
      BY <3>2 DEF Resident
    <3> DEFINE b == copies[j].base
    <3>6. b \in fbms' .. BaseTop - 1 /\ base'[b] = j
      <4>1. b \in fbms .. BaseTop - 1 /\ base[b] = j
        BY <3>5
      <4> HIDE DEF b
      <4> QED BY <1>1, <1>4, <1>6, <1>11, <4>1
    <3>7. high'[copies[j].high] = j
      BY <1>5, <1>7, <1>12, <3>3, <3>5
    <3> QED BY <3>4, <3>5, <3>6, <3>7 DEF Resident, Places
  <2> QED BY <2>1, <2>2
<1>18. AtInv'
  <2>1. at'[1] = "startup" /\ at'[2] = i
    BY <1>6
  <2>2. copies'[i].base = fbms'
    BY <1>6, <1>8, <1>10
  <2> QED BY <1>13, <2>1, <2>2 DEF AtInv
<1>19. DevInv'
  <2> SUFFICES ASSUME NEW j \in Copies, vec.chain[j]["13"] # Null
               PROVE  copies'[j].sandev /\ copies'[j].devices /\ copies'[j].keep # 0
    BY DEF DevInv
  <2>1. j # i
    BY <1>13, IntsFacts
  <2> QED BY <1>10, <2>1 DEF BootInv, DevInv
<1> QED
  BY <1>14, <1>15, <1>16, <1>17, <1>18, <1>19 DEF BootInv

\* The ROM has been entered, and what was in the block from POST is overwritten.
Overwritten == at[1] = "overwritten" /\ HandlersResident

\* The decompression area is hidden: the copies that are elsewhere stay whole.
LEMMA OverwriteStep ==
  ASSUME BootInv, NEW t \in Places, t \in Hidden, t = decompress_to, ExecAt(t),
         UNCHANGED <<vec, others, decompress_to>>
  PROVE  Overwritten'
<1> DEFINE i == Cardinality(Entered) + 1
           R == Relocated(t)
<1>1. PICK e \in 0 .. MaxRuns :
         /\ Entered = 1 .. e /\ fbms >= BaseTop - e
         /\ i = e + 1 /\ i \in Copies /\ i \in Nat /\ e + 1 \in 0 .. MaxRuns
         /\ fbms \in 1 .. BaseTop /\ fbms - 1 \in 0 .. BaseTop - 1 /\ fbms - 1 \in Nat
         /\ \A int \in Ints : vec.chain[i][int] = Null
  BY ExecFacts
<1>2. /\ base' = [base EXCEPT ![fbms - 1] = i]
      /\ high' = [high EXCEPT ![t] = Nobody, ![R] = i]
      /\ at'[1] = "overwritten" /\ at'[2] = i
      /\ \A j \in Copies \ {i} : copies'[j] = copies[j]
  BY <1>1 DEF ExecAt, BootInv, BootType
<1>3. R \in Places /\ (R = t \/ R \notin Hidden)
  BY RelocatedPlace
<1> HIDE DEF i, R
<1>4. \A int : Serving(int)' = Serving(int)
  BY DEF Serving, Reached, NextHandler
<1>5. ASSUME NEW int \in Ints, NEW j \in Serving(int)
      PROVE  /\ j \in Copies /\ vec.chain[j][int] # Null /\ vec.chain[j]["15"] # Null
             /\ copies'[j] = copies[j] /\ j # i
  <2>1. j \in Copies /\ vec.chain[j][int] # Null
    BY ServingHooked DEF BootInv
  <2>2. j # i
    BY <1>1, <2>1
  <2> QED BY <1>2, <2>1, <2>2 DEF BootInv, Anchored
<1>6. ASSUME NEW int \in Ints, NEW j \in Serving(int)
      PROVE  /\ base'[copies'[j].base] = j
             /\ \/ high'[copies'[j].high] = j
                \/ at'[1] = "overwritten" /\ at'[2] # j /\ copies'[j].high = decompress_to'
  <2>1. /\ j \in Copies /\ vec.chain[j]["15"] # Null /\ copies'[j] = copies[j] /\ j # i
    BY <1>5
  <2> DEFINE b == copies[j].base
             p == copies[j].high
  <2>2. b \in fbms .. BaseTop - 1 /\ base[b] = j /\ p \in Places /\ high[p] = j
    BY <2>1 DEF BootInv, MemInv, Live, Resident
  <2>3. p \in Hidden
    BY <2>1, HookedHidden DEF BootInv, BootType
  <2>4. base \in [0 .. BaseTop - 1 -> Nat] /\ high \in [Places -> Nat] /\ BaseTop \in Nat
    BY OptionRomAssumption DEF BootInv, BootType
  <2> HIDE DEF b, p
  <2>5. base'[b] = j
    <3>1. b # fbms - 1 /\ b \in 0 .. BaseTop - 1
      BY <1>1, <2>2, <2>4
    <3> QED BY <1>2, <2>2, <2>4, <3>1
  <2>6. p # t => high'[p] = j
    BY <1>2, <1>3, <2>2, <2>3, <2>4
  <2> QED BY <1>2, <2>1, <2>5, <2>6 DEF b, p
<1>7. ASSUME NEW j \in Serving("13")
      PROVE  copies'[j].sandev /\ copies'[j].devices
  BY <1>5, IntsFacts DEF BootInv, DevInv
<1> QED
  BY <1>2, <1>4, <1>6, <1>7 DEF Overwritten, HandlersResident

\* So an entry of the ROM leads to one of the two.
LEMMA EntryStep ==
  ASSUME BootInv, PmmType, Outside, exec, UNCHANGED <<vec, others, decompress_to>>
  PROVE  BootInv' \/ Overwritten'
<1>1. PICK t \in Places : ExecAt(t) /\ (t \notin Hidden \/ t = decompress_to)
  BY ExecArea
<1>2. CASE t \notin Hidden
  BY <1>1, <1>2, ExecStep
<1>3. CASE t \in Hidden
  BY <1>1, <1>3, OverwriteStep
<1> QED
  BY <1>2, <1>3

\* POST calls the ROM: no hook above the BIOS, so INT 19 may become the ROM's.
LEMMA RomInitStep ==
  ASSUME BootInv, RomInit
  PROVE  BootInv'
<1>1. /\ \A int \in Ints : vec.ivt[int] = Bios
      /\ \A i \in Copies, int \in Ints : vec.chain[i][int] = Null
  BY DEF BootInv, AtInv, RomInit
<1>2. PICK pnp \in BOOLEAN : vec' = IF pnp THEN vec ELSE [vec EXCEPT !.ivt["19"] = Rom]
  BY DEF RomInit
<1>3. at' = <<"bios", 0>> /\ at'[1] = "bios" /\ UNCHANGED <<others, fbms, copies, base, high>>
  BY DEF RomInit
<1>4. vec \in VecType /\ Counted(vec)
  BY DEF BootInv, VecInv
<1>5. /\ vec.ivt \in [Ints -> HandlerType] /\ vec.chain \in [Copies -> [Ints -> HandlerType]]
      /\ vec.hooked \in [Copies -> Int]
  BY <1>4, VecFields
<1>6. vec = [ivt |-> vec.ivt, chain |-> vec.chain, hooked |-> vec.hooked]
  BY <1>4 DEF VecType
<1>7. /\ vec' \in VecType /\ vec'.chain = vec.chain /\ vec'.hooked = vec.hooked
      /\ \A int \in Ints : vec'.ivt[int] \in {Bios, Rom}
  <2>1. CASE pnp
    BY <1>1, <1>2, <1>4, <2>1
  <2>2. CASE ~pnp
    <3> DEFINE w == [vec.ivt EXCEPT !["19"] = Rom]
    <3>1. vec' = [ivt |-> w, chain |-> vec.chain, hooked |-> vec.hooked]
      BY <1>2, <1>6, <2>2
    <3>2. w \in [Ints -> HandlerType] /\ \A int \in Ints : w[int] \in {Bios, Rom}
      BY <1>1, <1>5, HandlerFacts
    <3> HIDE DEF w
    <3>3. [ivt |-> w, chain |-> vec.chain, hooked |-> vec.hooked] \in VecType
      BY <1>5, <3>2, VecBuilt
    <3> QED BY <3>1, <3>2, <3>3
  <2> QED BY <2>1, <2>2
<1>8. ASSUME NEW int \in Ints PROVE Stacked(vec', others, int)
  <2> DEFINE s == [j \in {1} |-> vec'.ivt[int]]
  <2>1. s[1] = vec'.ivt[int]
    OBVIOUS
  <2>2. IsStack(vec', others, int, 1, s)
    <3>1. 2 .. 1 = {} /\ 1 .. 1 = {1}
      OBVIOUS
    <3>2. \A i \in Copies : vec'.chain[i][int] = Null
      BY <1>1, <1>7
    <3> HIDE DEF s
    <3> QED BY <1>7, <2>1, <3>1, <3>2 DEF IsStack
  <2> HIDE DEF s
  <2> QED BY <2>2 DEF Stacked
<1>9. VecInv(vec', others)
  <2>1. Counted(vec')
    BY <1>4, <1>7 DEF Counted, Hooks
  <2> QED BY <1>7, <1>8, <2>1 DEF VecInv
<1>10. Anchored(vec') /\ DevInv'
  BY <1>1, <1>7, IntsFacts DEF Anchored, DevInv
<1>11. AtInv'
  BY <1>3 DEF AtInv
<1>12. \A j \in Copies : Live(j)' => Live(j)
  BY <1>3, <1>7 DEF Live, Running, RunStates
<1>13. at'[1] \in States /\ at'[1] \notin RunStates \cup {"bootsector"}
  BY <1>3 DEF States, RunStates
<1> QED
  BY <1>3, <1>9, <1>10, <1>11, <1>12, <1>13, RunFacts, VectorStep

\* A step that changes no vector, no copy and no memory, only who runs.
LEMMA ControlStep ==
  ASSUME BootInv, UNCHANGED <<vec, others, fbms, copies, base, high>>,
         at'[1] \in States, at'[1] \in RunStates \cup {"bootsector"} => at'[2] \in Copies,
         \A j \in Copies : Running(j)' => Live(j),
         AtInv'
  PROVE  BootInv'
<1>1. VecInv(vec', others) /\ Anchored(vec')
  BY DEF BootInv
<1>2. DevInv'
  BY DEF BootInv, DevInv
<1>3. \A j \in Copies : Live(j)' => Live(j)
  BY DEF Live
<1> QED
  BY <1>1, <1>2, <1>3, RunFacts, VectorStep

\* The installation fails.
LEMMA DeathStep ==
  ASSUME BootInv, install_death
  PROVE  BootInv'
<1>1. at'[1] = "halted" /\ UNCHANGED <<vec, others, fbms, copies, base, high>>
  BY DEF install_death
<1>2. at'[1] \in States /\ at'[1] \notin RunStates \cup {"bootsector"} /\ AtInv'
  BY <1>1 DEF States, RunStates, AtInv
<1>3. \A j \in Copies : Running(j)' => Live(j)
  BY <1>2 DEF Running
<1> QED
  BY <1>1, <1>2, <1>3, ControlStep

\* The tables are described, or do not fit.
LEMMA DescribeStep ==
  ASSUME BootInv, int13_describe
  PROVE  BootInv'
<1>1. at[1] = "describe" /\ UNCHANGED <<vec, others, fbms, copies, base, high>>
      /\ at'[1] \in {"boot", "shutdown"} /\ at'[2] = at[2]
  BY DEF int13_describe
<1>2. at[2] \in Copies
  BY <1>1, RunFacts
<1>3. vec.chain[at[2]]["15"] # Null
  BY <1>1 DEF BootInv, AtInv
<1>4. at'[1] \in States /\ at'[1] \in RunStates
  BY <1>1 DEF States, RunStates
<1>5. AtInv'
  BY <1>1, <1>3 DEF AtInv
<1>6. \A j \in Copies : Running(j)' => Live(j)
  BY <1>1, <1>3 DEF Running, Live
<1> QED
  BY <1>1, <1>2, <1>4, <1>5, <1>6, ControlStep

\* startup: the copy is at the counter, so INT 15 is hooked before INT 16.
LEMMA StartupStep ==
  ASSUME BootInv, startup
  PROVE  BootInv'
<1> DEFINE i == at[2]
           v == hook_bios_interrupt(vec, i, "15")
           w == hook_bios_interrupt(v, i, "16")
<1>1. at[1] = "startup" /\ i \in Copies /\ "startup" \in RunStates
  BY RunFacts DEF startup
<1>2. copies[i].base = fbms
  BY <1>1 DEF BootInv, AtInv
<1>3. hide_etherboot(vec, i) = v
  <2>1. fbms \in Int
    BY OptionRomAssumption DEF BootInv, BootType
  <2>2. ~(copies[i].base + 1 < fbms)
    BY <1>2, <2>1
  <2> QED BY <2>2 DEF hide_etherboot
<1>4. vec' = w /\ at' = <<"hook", i>> /\ UNCHANGED <<others, fbms, base, high>>
      /\ copies' = [copies EXCEPT ![i].started = TRUE, ![i].devices = TRUE]
  BY <1>3 DEF startup
<1>5. VecInv(vec, others) /\ Len(others) \in Nat /\ copies \in [Copies -> CopyType]
  BY RunFacts
<1>6. VecInv(v, others) /\ Hooking(vec, v, i, "15")
  BY <1>1, <1>5, IntsFacts, HookInv
<1> HIDE DEF v
<1>7. VecInv(w, others) /\ Hooking(v, w, i, "16")
  BY <1>1, <1>5, <1>6, IntsFacts, HookInv
<1> HIDE DEF w, i
<1>8. /\ w.chain[i]["15"] # Null
      /\ \A j \in Copies, m \in Ints : j # i \/ m \notin {"15", "16"} =>
            w.chain[j][m] = vec.chain[j][m]
  <2>1. "15" \in Ints /\ "16" \in Ints /\ "15" # "16"
    BY IntsFacts
  <2>2. HookingBoth(vec, w, i, "15", "16")
    BY <1>1, <1>6, <1>7, <2>1, HookTwice
  <2> QED BY <2>2 DEF HookingBoth
<1>9. Anchored(w)
  BY <1>8, IntsFacts DEF BootInv, Anchored
<1>10. /\ copies' \in [Copies -> CopyType]
       /\ \A j \in Copies : /\ copies'[j].base = copies[j].base
                            /\ copies'[j].high = copies[j].high
                            /\ copies'[j].sandev = copies[j].sandev
                            /\ copies'[j].keep = copies[j].keep
                            /\ copies[j].devices => copies'[j].devices
       /\ copies'[i].devices
  BY <1>1, <1>4, <1>5 DEF CopyType
<1>11. at'[1] = "hook" /\ at'[2] = i
  BY <1>4
<1>12. AtInv'
  BY <1>4, <1>8, <1>10, <1>11 DEF AtInv
<1>13. DevInv'
  <2> SUFFICES ASSUME NEW j \in Copies, w.chain[j]["13"] # Null
               PROVE  copies'[j].sandev /\ copies'[j].devices /\ copies'[j].keep # 0
    BY <1>4 DEF DevInv
  <2>1. vec.chain[j]["13"] # Null
    BY <1>8, IntsFacts
  <2> QED BY <1>10, <2>1 DEF BootInv, DevInv
<1>14. \A j \in Copies : Live(j)' => Live(j)
  <2> SUFFICES ASSUME NEW j \in Copies, Live(j)' PROVE Live(j)
    OBVIOUS
  <2>1. CASE j = i
    BY <1>1, <2>1 DEF Live, Running, i
  <2>2. CASE j # i
    BY <1>4, <1>8, <1>11, <2>2, IntsFacts DEF Live, Running
  <2> QED BY <2>1, <2>2
<1>15. at'[1] \in States /\ at'[2] \in Copies
  BY <1>1, <1>11 DEF States, RunStates
<1>16. \A j \in Copies : copies'[j].sandev => copies[j].high # 0
  BY <1>10, RunFacts
<1> QED
  BY <1>4, <1>7, <1>9, <1>10, <1>12, <1>13, <1>14, <1>15, <1>16, VectorStep

\* int13_hook: INT 13 comes after INT 15, with the SAN device and the devices it needs.
LEMMA Int13HookStep ==
  ASSUME BootInv, int13_hook
  PROVE  BootInv'
<1> DEFINE i == at[2]
           w == hook_bios_interrupt(vec, i, "13")
<1>1. at[1] = "hook" /\ i \in Copies /\ at[1] \in RunStates
      /\ UNCHANGED <<others, fbms, base, high>>
  BY RunFacts DEF int13_hook
<1>2. vec.chain[i]["15"] # Null /\ copies[i].devices
  BY <1>1 DEF BootInv, AtInv
<1>3. VecInv(vec, others) /\ Len(others) \in Nat /\ copies \in [Copies -> CopyType]
  BY RunFacts
<1>4. Live(i)
  BY <1>2 DEF Live
<1>5. CASE /\ vec' = w
           /\ copies' = [copies EXCEPT ![i].sandev = TRUE, ![i].keep = @ + 1]
           /\ at' = <<"describe", i>>
  <2>1. VecInv(w, others) /\ Hooking(vec, w, i, "13")
    BY <1>1, <1>3, IntsFacts, HookInv
  <2> HIDE DEF w, i
  <2>2. \A j \in Copies, m \in Ints : j # i \/ m # "13" => w.chain[j][m] = vec.chain[j][m]
    BY <1>1, <2>1, IntsFacts DEF Hooking
  <2>3. w.chain[i]["15"] # Null
    BY <1>1, <1>2, <2>2, IntsFacts
  <2>4. Anchored(w)
    BY <2>2, <2>3, IntsFacts DEF BootInv, Anchored
  <2>5. /\ copies' \in [Copies -> CopyType]
        /\ \A j \in Copies : /\ copies'[j].base = copies[j].base
                             /\ copies'[j].high = copies[j].high
                             /\ copies'[j].devices = copies[j].devices
        /\ \A j \in Copies \ {i} : copies'[j] = copies[j]
        /\ copies'[i].sandev /\ copies'[i].keep # 0
    BY <1>1, <1>3, <1>5 DEF CopyType
  <2>6. at'[1] = "describe" /\ at'[2] = i
    BY <1>5
  <2>7. AtInv'
    BY <1>5, <2>3, <2>6 DEF AtInv
  <2>8. DevInv'
    <3> SUFFICES ASSUME NEW j \in Copies, w.chain[j]["13"] # Null
                 PROVE  copies'[j].sandev /\ copies'[j].devices /\ copies'[j].keep # 0
      BY <1>5 DEF DevInv
    <3>1. CASE j = i
      BY <1>2, <2>5, <3>1
    <3>2. CASE j # i
      <4>1. vec.chain[j]["13"] # Null
        BY <2>2, <3>2, IntsFacts
      <4> QED BY <2>5, <3>2, <4>1 DEF BootInv, DevInv
    <3> QED BY <3>1, <3>2
  <2>9. \A j \in Copies : Live(j)' => Live(j)
    <3> SUFFICES ASSUME NEW j \in Copies, Live(j)' PROVE Live(j)
      OBVIOUS
    <3>1. CASE j = i
      BY <1>4, <3>1
    <3>2. CASE j # i
      BY <1>5, <2>2, <2>6, <3>2, IntsFacts DEF Live, Running
    <3> QED BY <3>1, <3>2
  <2>10. at'[1] \in States /\ at'[2] \in Copies
    BY <1>1, <2>6 DEF States, RunStates
  <2>11. \A j \in Copies : copies'[j].sandev => copies[j].high # 0
    BY <1>4, <2>5, RunFacts
  <2> QED
    BY <1>1, <1>5, <2>1, <2>4, <2>5, <2>7, <2>8, <2>9, <2>10, <2>11, VectorStep
<1>6. CASE /\ at' \in {<<"describe", i>>, <<"shutdown", i>>}
           /\ UNCHANGED <<vec, copies>>
  <2>1. at'[1] \in {"describe", "shutdown"} /\ at'[2] = i
    BY <1>6
  <2>2. at'[1] \in States
    BY <2>1 DEF States, RunStates
  <2>3. AtInv'
    BY <1>2, <1>6, <2>1 DEF AtInv
  <2>4. \A j \in Copies : Running(j)' => Live(j)
    BY <1>4, <2>1 DEF Running
  <2> QED BY <1>1, <1>6, <2>1, <2>2, <2>3, <2>4, ControlStep
<1> QED
  BY <1>5, <1>6 DEF int13_hook

\* int13_boot: nothing to boot, or INT 18 and INT 19 on top of INT 15.
LEMMA Int13BootStep ==
  ASSUME BootInv, int13_boot
  PROVE  BootInv'
<1> DEFINE i == at[2]
           v == hook_bios_interrupt(vec, i, "18")
           w == hook_bios_interrupt(v, i, "19")
<1>1. at[1] = "boot" /\ i \in Copies /\ UNCHANGED <<others, fbms, copies, base, high>>
  BY RunFacts DEF int13_boot
<1>2. vec.chain[i]["15"] # Null
  BY <1>1 DEF BootInv, AtInv
<1>3. VecInv(vec, others) /\ Len(others) \in Nat
  BY RunFacts
<1>4. Live(i)
  BY <1>2 DEF Live
<1>5. CASE at' = <<"shutdown", i>> /\ UNCHANGED vec
  <2>1. at'[1] = "shutdown" /\ at'[2] = i
    BY <1>5
  <2>2. at'[1] \in States /\ AtInv'
    BY <2>1 DEF States, RunStates, AtInv
  <2>3. \A j \in Copies : Running(j)' => Live(j)
    BY <1>4, <2>1 DEF Running
  <2> QED BY <1>1, <1>5, <2>1, <2>2, <2>3, ControlStep
<1>6. CASE vec' = w /\ at' = <<"bootsector", i>>
  <2>1. VecInv(v, others) /\ Hooking(vec, v, i, "18")
    BY <1>1, <1>3, IntsFacts, HookInv
  <2> HIDE DEF v
  <2>2. VecInv(w, others) /\ Hooking(v, w, i, "19")
    BY <1>1, <1>3, <2>1, IntsFacts, HookInv
  <2> HIDE DEF w, i
  <2>3. \A j \in Copies, m \in Ints : j # i \/ m \notin {"18", "19"} =>
            w.chain[j][m] = vec.chain[j][m]
    <3>1. "18" \in Ints /\ "19" \in Ints /\ "18" # "19"
      BY IntsFacts
    <3>2. HookingBoth(vec, w, i, "18", "19")
      BY <1>1, <2>1, <2>2, <3>1, HookTwice
    <3> QED BY <3>2 DEF HookingBoth
  <2>4. w.chain[i]["15"] # Null
    BY <1>1, <1>2, <2>3, IntsFacts
  <2>5. Anchored(w)
    BY <2>3, <2>4, IntsFacts DEF BootInv, Anchored
  <2>6. at'[1] = "bootsector" /\ at'[2] = i
    BY <1>6
  <2>7. AtInv'
    BY <1>6, <2>4, <2>6 DEF AtInv
  <2>8. DevInv'
    <3> SUFFICES ASSUME NEW j \in Copies, w.chain[j]["13"] # Null
                 PROVE  copies[j].sandev /\ copies[j].devices /\ copies[j].keep # 0
      BY <1>1, <1>6 DEF DevInv
    <3>1. vec.chain[j]["13"] # Null
      BY <2>3, IntsFacts
    <3> QED BY <3>1 DEF BootInv, DevInv
  <2>9. \A j \in Copies : Live(j)' => Live(j)
    BY <1>6, <2>3, <2>6, IntsFacts DEF Live, Running, RunStates
  <2>10. at'[1] \in States
    BY <2>6 DEF States, RunStates
  <2> QED
    BY <1>1, <1>6, <2>2, <2>5, <2>6, <2>7, <2>8, <2>9, <2>10, RunFacts, VectorStep
<1> QED
  BY <1>5, <1>6 DEF int13_boot

\* call_bootsector returns: INT 18 and INT 19 are unhooked where nobody covers them.
LEMMA ExecFailStep ==
  ASSUME BootInv, bootsector_exec_fail
  PROVE  BootInv'
<1> DEFINE i == at[2]
           v == unhook_bios_interrupt(vec, i, "18")
           w == unhook_bios_interrupt(v, i, "19")
<1>1. /\ at[1] = "fail" /\ i \in Copies /\ vec' = w /\ at' = <<"shutdown", i>>
      /\ UNCHANGED <<others, fbms, copies, base, high>>
  BY RunFacts DEF bootsector_exec_fail
<1>2. VecInv(vec, others)
  BY RunFacts
<1>3. VecInv(v, others) /\ Unhooking(vec, v, i, "18")
  BY <1>1, <1>2, IntsFacts, UnhookInv
<1> HIDE DEF v
<1>4. VecInv(w, others) /\ Unhooking(v, w, i, "19")
  BY <1>1, <1>3, IntsFacts, UnhookInv
<1> HIDE DEF w
<1>5. /\ \A j \in Copies, m \in Ints : j # i \/ m \notin {"18", "19"} =>
            w.chain[j][m] = vec.chain[j][m]
      /\ \A j \in Copies, m \in Ints : w.chain[j][m] # Null => vec.chain[j][m] # Null
  <2>1. \A j \in Copies, m \in Ints : j # i \/ m # "18" => v.chain[j][m] = vec.chain[j][m]
    BY <1>3 DEF Unhooking
  <2>2. \A j \in Copies, m \in Ints : j # i \/ m # "19" => w.chain[j][m] = v.chain[j][m]
    BY <1>4 DEF Unhooking
  <2>3. v.chain[i]["18"] # Null => vec.chain[i]["18"] # Null
    BY <1>3 DEF Unhooking
  <2>4. w.chain[i]["19"] # Null => v.chain[i]["19"] # Null
    BY <1>4 DEF Unhooking
  <2>5. "18" # "19"
    OBVIOUS
  <2> HIDE DEF i
  <2> QED BY <1>1, <2>1, <2>2, <2>3, <2>4, <2>5, IntsFacts
<1> HIDE DEF i
<1>6. Anchored(w)
  BY <1>5, IntsFacts DEF BootInv, Anchored
<1>7. at'[1] = "shutdown" /\ at'[2] = i
  BY <1>1
<1>8. AtInv'
  BY <1>7 DEF AtInv
<1>9. DevInv'
  BY <1>1, <1>5, IntsFacts DEF BootInv, DevInv
<1>10. \A j \in Copies : Live(j)' => Live(j)
  BY <1>1, <1>5, <1>7, IntsFacts, RunFacts DEF Live, Running, i
<1>11. at'[1] \in States
  BY <1>7 DEF States, RunStates
<1> QED
  BY <1>1, <1>4, <1>6, <1>7, <1>8, <1>9, <1>10, <1>11, RunFacts, VectorStep

\* shutdown: devices are removed unless the SAN device keeps them.
LEMMA ShutdownStep ==
  ASSUME BootInv, shutdown
  PROVE  BootInv'
<1> DEFINE i == at[2]
           w == ShutdownVectors(vec, i)
<1>1. /\ at[1] = "shutdown" /\ i \in Copies /\ at' = <<"uninstall", i>>
      /\ UNCHANGED <<others, fbms, base, high>>
  BY RunFacts DEF shutdown
<1>2. at'[1] = "uninstall" /\ at'[2] = i /\ at'[1] \in States /\ AtInv'
  BY <1>1 DEF States, RunStates, AtInv
<1>3. Live(i)
  BY <1>1, RunFacts DEF Live, Running
<1>4. CASE UNCHANGED <<vec, copies>>
  <2>1. \A j \in Copies : Running(j)' => Live(j)
    BY <1>2, <1>3 DEF Running
  <2> QED BY <1>1, <1>2, <1>4, <2>1, ControlStep
<1>5. CASE /\ vec' = w
           /\ copies' = [copies EXCEPT ![i].started = FALSE,
                                       ![i].devices = @ /\ copies[i].keep # 0]
  <2>1. /\ VecInv(w, others) /\ Anchored(w)
        /\ \A j \in Copies, m \in Ints : w.chain[j][m] # Null => vec.chain[j][m] # Null
    <3>1. VecInv(vec, others) /\ Anchored(vec)
      BY DEF BootInv
    <3> QED BY <1>1, <3>1, ShutdownVectorsInv, SMTT(30)
  <2>2. copies \in [Copies -> CopyType]
    BY RunFacts
  <2> HIDE DEF w, i
  <2>3. /\ copies' \in [Copies -> CopyType]
        /\ \A j \in Copies : /\ copies'[j].base = copies[j].base
                             /\ copies'[j].high = copies[j].high
                             /\ copies'[j].sandev = copies[j].sandev
                             /\ copies'[j].keep = copies[j].keep
                             /\ copies[j].devices /\ copies[j].keep # 0 => copies'[j].devices
    <3> DEFINE d == copies[i].devices /\ copies[i].keep # 0
    <3>1. d \in BOOLEAN
      OBVIOUS
    <3>2. copies' = [copies EXCEPT ![i].started = FALSE, ![i].devices = d]
      BY <1>1, <1>5, <2>2
    <3> HIDE DEF d
    <3>3. /\ copies' \in [Copies -> CopyType]
          /\ \A j \in Copies \ {i} : copies'[j] = copies[j]
          /\ copies'[i].base = copies[i].base /\ copies'[i].high = copies[i].high
          /\ copies'[i].sandev = copies[i].sandev /\ copies'[i].keep = copies[i].keep
          /\ copies'[i].devices = d
      BY <1>1, <2>2, <3>1, <3>2 DEF CopyType
    <3> QED BY <3>3 DEF d
  <2>4. DevInv'
    <3> SUFFICES ASSUME NEW j \in Copies, w.chain[j]["13"] # Null
                 PROVE  copies'[j].sandev /\ copies'[j].devices /\ copies'[j].keep # 0
      BY <1>5 DEF DevInv
    <3>1. vec.chain[j]["13"] # Null
      BY <2>1, IntsFacts
    <3>2. copies[j].sandev /\ copies[j].devices /\ copies[j].keep # 0
      BY <3>1 DEF BootInv, DevInv
    <3> QED BY <2>3, <3>2
  <2>5. \A j \in Copies : Live(j)' => Live(j)
    <3> SUFFICES ASSUME NEW j \in Copies, Live(j)' PROVE Live(j)
      OBVIOUS
    <3>1. CASE j = i
      BY <1>3, <3>1
    <3>2. CASE j # i
      BY <1>2, <1>5, <2>1, <3>2, IntsFacts DEF Live, Running
    <3> QED BY <3>1, <3>2
  <2>6. \A j \in Copies : copies'[j].sandev => copies[j].high # 0
    BY <2>3, RunFacts
  <2> QED
    BY <1>1, <1>2, <1>5, <2>1, <2>3, <2>4, <2>5, <2>6, VectorStep
<1> QED
  BY <1>4, <1>5 DEF shutdown

\* uninstall: the base memory goes back only if no vector leads to the copy.
LEMMA UninstallStep ==
  ASSUME BootInv, uninstall
  PROVE  BootInv'
<1> DEFINE i == at[2]
<1>1. /\ at[1] = "uninstall" /\ i \in Copies /\ at' = <<"bios", 0>> /\ at'[1] = "bios"
      /\ fbms' = free_basemem(i) /\ UNCHANGED <<vec, others, copies, base, high>>
  BY RunFacts DEF uninstall
<1>2. at'[1] \in States /\ at'[1] \notin RunStates \cup {"bootsector"} /\ AtInv'
  BY <1>1 DEF States, RunStates, AtInv
<1>3. \A j \in Copies : Live(j)' => vec.chain[j]["15"] # Null
  BY <1>1, <1>2 DEF Live, Running
<1>4. Resident(i)
  BY <1>1, RunFacts DEF BootInv, MemInv, Live, Running
<1>5. fbms \in 0 .. BaseTop /\ BaseTop \in Nat
  BY OptionRomAssumption DEF BootInv, BootType
<1>6. CASE fbms' = fbms
  <2>1. \A j \in Copies : Running(j)' => Live(j)
    BY <1>2 DEF Running
  <2> QED BY <1>1, <1>2, <1>6, <2>1, ControlStep
<1>7. CASE fbms' # fbms
  <2>1. fbms = copies[i].base /\ vec.hooked[i] = 0 /\ fbms' = fbms + 1
    BY <1>1, <1>7 DEF free_basemem
  <2>2. vec.chain[i]["15"] = Null
    <3>1. Cardinality(Hooks(vec, i)) = 0
      BY <1>1, <2>1 DEF BootInv, VecInv, Counted
    <3>2. Hooks(vec, i) = {}
      BY <3>1, HooksFinite, FS_EmptySet
    <3> QED BY <3>2, IntsFacts DEF Hooks
  <2>3. fbms' \in 0 .. BaseTop /\ fbms' \in Nat /\ fbms' >= fbms
    <3>1. fbms \in fbms .. BaseTop - 1
      BY <1>4, <2>1 DEF Resident
    <3> QED BY <1>5, <2>1, <3>1, SMTT(30)
  <2>4. BootType'
    BY <1>1, <1>2, <2>3 DEF BootInv, BootType
  <2>5. EnteredInv'
    BY <1>1, <2>3, EnteredKept, RunFacts DEF BootInv
  <2>6. MemInv'
    <3> SUFFICES ASSUME NEW j \in Copies, vec.chain[j]["15"] # Null PROVE Resident(j)'
      BY <1>3 DEF MemInv
    <3>1. j # i
      BY <2>2
    <3>2. /\ copies[j].base \in fbms .. BaseTop - 1 /\ base[copies[j].base] = j
          /\ copies[j].high \in Places /\ high[copies[j].high] = j
      BY DEF BootInv, MemInv, Live, Resident
    <3>3. copies[j].base # fbms
      BY <1>4, <2>1, <3>1, <3>2 DEF Resident
    <3> DEFINE b == copies[j].base
    <3>4. b \in fbms' .. BaseTop - 1
      <4>1. b \in fbms .. BaseTop - 1 /\ b # fbms
        BY <3>2, <3>3
      <4> HIDE DEF b
      <4> QED BY <1>5, <2>1, <4>1
    <3> QED BY <1>1, <3>2, <3>4 DEF Resident, Places
  <2>7. VecInv(vec, others)' /\ Anchored(vec)'
    BY <1>1, VecInvPrimed DEF BootInv
  <2>8. DevInv'
    BY <1>1 DEF BootInv, DevInv
  <2> QED BY <1>2, <2>4, <2>5, <2>6, <2>7, <2>8 DEF BootInv
<1> QED
  BY <1>6, <1>7

\* INT 18 or INT 19 gets to a copy that is still there, to the ROM, or to the BIOS.
LEMMA RaiseFailStep ==
  ASSUME BootInv, PmmType, NEW int \in {"18", "19"}, RaiseFail(int)
  PROVE  BootInv' \/ Overwritten'
<1> DEFINE h == FailHandler(int)
<1>1. Outside /\ UNCHANGED <<vec, others, decompress_to>>
  BY DEF RaiseFail
<1>2. h \in Reached(int)
  BY FailHandlerReached DEF BootInv, BootType
<1>3. int \in Ints
  BY IntsFacts
<1>4. CASE h = Rom /\ exec
  BY <1>1, <1>4, EntryStep
<1>5. CASE /\ h[1] = "ipxe" /\ at' = <<"fail", h[2]>>
           /\ UNCHANGED <<fbms, copies, base, high>>
  <2>1. h[2] \in Copies /\ h = Ipxe(h[2])
    BY <1>2, <1>3, <1>5, ReachedIpxe DEF BootInv
  <2>2. h[2] \in Serving(int)
    BY <1>2, <2>1 DEF Serving
  <2>3. vec.chain[h[2]][int] # Null
    BY <1>3, <2>2, ServingHooked DEF BootInv
  <2>4. vec.chain[h[2]]["15"] # Null
    BY <1>3, <2>1, <2>3 DEF BootInv, Anchored
  <2>5. at'[1] = "fail" /\ at'[2] = h[2]
    BY <1>5
  <2> HIDE DEF h
  <2>6. at'[1] \in States /\ AtInv'
    BY <2>5 DEF States, RunStates, AtInv
  <2>7. \A j \in Copies : Running(j)' => Live(j)
    BY <2>4, <2>5 DEF Running, Live
  <2> QED BY <1>1, <1>5, <2>1, <2>5, <2>6, <2>7, ControlStep
<1>6. CASE at' = <<"bios", 0>> /\ UNCHANGED <<fbms, copies, base, high>>
  <2>1. at'[1] = "bios"
    BY <1>6
  <2>2. at'[1] \in States /\ at'[1] \notin RunStates \cup {"bootsector"} /\ AtInv'
    BY <2>1 DEF States, RunStates, AtInv
  <2>3. \A j \in Copies : Running(j)' => Live(j)
    BY <2>2 DEF Running
  <2> QED BY <1>1, <1>6, <2>2, <2>3, ControlStep
<1> QED
  BY <1>4, <1>5, <1>6 DEF RaiseFail

-----------------------------------------------------------------------------
(* The steps of other programs.                                            *)

\* A step of another program, which touches only vectors and its own list of hooks.
LEMMA ForeignStep ==
  ASSUME BootInv, UNCHANGED <<fbms, copies, base, high, at>>, Outside,
         vec'.chain = vec.chain, vec'.hooked = vec.hooked,
         vec' \in VecType, \A m \in Ints : Stacked(vec', others', m),
         others' \in Seq([int : Ints, next : HandlerType]), Len(others') \in 0 .. MaxOthers
  PROVE  BootInv'
<1>1. VecInv(vec', others') /\ Anchored(vec')
  BY DEF BootInv, VecInv, Counted, Hooks, Anchored
<1>2. VecInv(vec, others)'
  BY <1>1, Zenon DEF VecInv, Stacked, IsStack, Counted, Hooks
<1>3. Anchored(vec)'
  BY <1>1, Zenon DEF Anchored
<1>4. BootType'
  BY DEF BootInv, BootType
<1>5. EnteredInv'
  BY DEF BootInv, EnteredInv, Entered
<1>6. MemInv'
  BY DEF BootInv, MemInv, Live, Running, Resident, Places
<1>7. AtInv'
  BY DEF BootInv, AtInv, Outside
<1>8. DevInv'
  BY DEF BootInv, DevInv
<1> QED
  BY <1>2, <1>3, <1>4, <1>5, <1>6, <1>7, <1>8 DEF BootInv

\* Another program hooks an interrupt.
LEMMA OtherHooksStep ==
  ASSUME BootInv, NEW int \in Ints, OtherHooks(int)
  PROVE  BootInv'
<1> DEFINE k == Len(others) + 1
           r == [int |-> int, next |-> vec.ivt[int]]
           f == [vec.ivt EXCEPT ![int] = Other(k)]
<1>1. /\ Outside /\ Len(others) < MaxOthers /\ others' = Append(others, r)
      /\ vec' = [vec EXCEPT !.ivt[int] = Other(k)]
      /\ UNCHANGED <<fbms, copies, base, high, at>>
  BY DEF OtherHooks
<1>2. /\ others \in Seq([int : Ints, next : HandlerType]) /\ Len(others) \in 0 .. MaxOthers
      /\ MaxOthers \in Nat /\ Len(others) \in Nat /\ k \in Nat
  BY OptionRomAssumption DEF BootInv, BootType
<1>3. vec \in VecType /\ \A m \in Ints : Stacked(vec, others, m)
  BY DEF BootInv, VecInv
<1>4. /\ vec.ivt \in [Ints -> HandlerType] /\ vec.chain \in [Copies -> [Ints -> HandlerType]]
      /\ vec.hooked \in [Copies -> Int]
  BY <1>3, VecFields
<1>5. vec' = [ivt |-> f, chain |-> vec.chain, hooked |-> vec.hooked]
  <2>1. vec = [ivt |-> vec.ivt, chain |-> vec.chain, hooked |-> vec.hooked]
    BY <1>3 DEF VecType
  <2> QED BY <1>1, <2>1
<1>6. f \in [Ints -> HandlerType] /\ f[int] = Other(k)
      /\ \A m \in Ints \ {int} : f[m] = vec.ivt[m]
  <2>1. Other(k) \in HandlerType
    BY <1>2, HandlerFacts
  <2> QED BY <1>4, <2>1
<1> HIDE DEF f
<1>7. vec' \in VecType
  BY <1>4, <1>5, <1>6, VecBuilt
<1>8. vec'.ivt = f /\ vec'.chain = vec.chain /\ vec'.hooked = vec.hooked
  BY <1>5
<1>9. r \in [int : Ints, next : HandlerType] /\ r.next = vec.ivt[int]
  BY <1>4
<1> HIDE DEF r
<1>10. /\ others' \in Seq([int : Ints, next : HandlerType])
       /\ Len(others') = k /\ others'[k] = r
       /\ \A j \in 1 .. Len(others) : others'[j] = others[j]
  BY <1>1, <1>2, <1>9
<1>11. /\ Len(others') \in 0 .. MaxOthers /\ Len(others') \in Nat
       /\ Len(others) <= Len(others') /\ k \in 1 .. Len(others') /\ k > Len(others)
  BY <1>1, <1>2, <1>10
<1> HIDE DEF k
<1>12. ASSUME NEW m \in Ints PROVE Stacked(vec', others', m)
  <2>0. Stacked(vec, others, m)
    BY <1>3
  <2>1. CASE m = int
    <3>1. vec'.ivt[m] = Other(k) /\ others'[k].next = vec.ivt[m]
      BY <1>6, <1>8, <1>9, <1>10, <2>1
    <3>2. \A j \in Copies : vec'.chain[j][m] = vec.chain[j][m]
      BY <1>8
    <3>3. \E l \in 1 .. Len(others') : /\ Other(k) = Other(l) /\ l > Len(others)
                                       /\ others'[l].next = vec.ivt[m]
      BY <1>11, <3>1
    <3> QED BY <1>2, <1>10, <1>11, <2>0, <3>1, <3>2, <3>3, Push
  <2>2. CASE m # int
    <3>1. vec'.ivt[m] = vec.ivt[m] /\ \A j \in Copies : vec'.chain[j][m] = vec.chain[j][m]
      BY <1>6, <1>8, <2>2
    <3> QED BY <1>2, <1>10, <1>11, <2>0, <3>1, StackGrown
  <2> QED BY <2>1, <2>2
<1> QED
  BY <1>1, <1>7, <1>8, <1>10, <1>11, <1>12, ForeignStep

\* Another program takes its hook off the top.
LEMMA OtherUnhooksStep ==
  ASSUME BootInv, NEW int \in Ints, OtherUnhooks(int)
  PROVE  BootInv'
<1> DEFINE k == vec.ivt[int][2]
           f == [vec.ivt EXCEPT ![int] = others[k].next]
<1>1. /\ Outside /\ vec.ivt[int][1] = "other"
      /\ vec' = [vec EXCEPT !.ivt[int] = others[@[2]].next]
      /\ others' = others /\ UNCHANGED <<fbms, copies, base, high, at>>
  BY DEF OtherUnhooks
<1>2. /\ others \in Seq([int : Ints, next : HandlerType]) /\ Len(others) \in 0 .. MaxOthers
      /\ Len(others) \in Nat
  BY OptionRomAssumption DEF BootInv, BootType
<1>3. vec \in VecType /\ \A m \in Ints : Stacked(vec, others, m)
  BY DEF BootInv, VecInv
<1>4. /\ vec.ivt \in [Ints -> HandlerType] /\ vec.chain \in [Copies -> [Ints -> HandlerType]]
      /\ vec.hooked \in [Copies -> Int]
  BY <1>3, VecFields
<1>5. vec' = [ivt |-> f, chain |-> vec.chain, hooked |-> vec.hooked]
  <2>1. vec = [ivt |-> vec.ivt, chain |-> vec.chain, hooked |-> vec.hooked]
    BY <1>3 DEF VecType
  <2> QED BY <1>1, <2>1
<1>6. vec.ivt[int] = Other(k) /\ k \in 1 .. Len(others)
  <2>1. PICK n \in Nat \ {0} : \E s : IsStack(vec, others, int, n, s)
    BY <1>3 DEF Stacked
  <2>2. PICK s : IsStack(vec, others, int, n, s)
    BY <2>1
  <2>3. s[n] = vec.ivt[int] /\ s[1] \in {Bios, Rom}
    BY <2>2 DEF IsStack
  <2>4. n # 1
    BY <1>1, <2>3, HandlerFacts
  <2>5. n \in 2 .. n
    BY <2>4
  <2>6. \/ \E i \in Copies : s[n] = Ipxe(i)
        \/ \E l \in 1 .. Len(others) : s[n] = Other(l)
    BY <2>2, <2>5 DEF IsStack
  <2>7. PICK l \in 1 .. Len(others) : vec.ivt[int] = Other(l)
    BY <1>1, <2>3, <2>6, HandlerFacts
  <2>8. k = l
    BY <2>7, HandlerFacts
  <2> QED BY <2>7, <2>8
<1> HIDE DEF k
<1>7. others[k].next \in HandlerType
  <2> DEFINE T == [int : Ints, next : HandlerType]
  <2>1. \A r \in T : r.next \in HandlerType
    OBVIOUS
  <2>2. others \in Seq(T)
    BY <1>2
  <2> HIDE DEF T
  <2>3. others[k] \in T
    BY <1>6, <2>2
  <2> QED BY <2>1, <2>3
<1>8. f \in [Ints -> HandlerType] /\ f[int] = others[k].next
      /\ \A m \in Ints \ {int} : f[m] = vec.ivt[m]
  BY <1>4, <1>7
<1> HIDE DEF f
<1>9. vec' \in VecType
  BY <1>4, <1>5, <1>8, VecBuilt
<1>10. vec'.ivt = f /\ vec'.chain = vec.chain /\ vec'.hooked = vec.hooked
  BY <1>5
<1>11. ASSUME NEW m \in Ints PROVE Stacked(vec', others', m)
  <2>0. Stacked(vec, others, m) /\ \A j \in Copies : vec'.chain[j][m] = vec.chain[j][m]
    BY <1>3, <1>10
  <2>1. CASE m = int
    <3>1. vec.ivt[m] = Other(k) /\ vec'.ivt[m] = others[k].next
      BY <1>6, <1>8, <1>10, <2>1
    <3>2. Stacked(vec', others, m)
      BY <2>0, <3>1, Pop
    <3> QED BY <1>1, <3>2
  <2>2. CASE m # int
    <3>1. vec'.ivt[m] = vec.ivt[m]
      BY <1>8, <1>10, <2>2
    <3>2. Stacked(vec', others, m)
      BY <2>0, <3>1, StackKept
    <3> QED BY <1>1, <3>2
  <2> QED BY <2>1, <2>2
<1> QED
  BY <1>1, <1>2, <1>9, <1>10, <1>11, ForeignStep

\* Programs use what the counter and the memory map call free: no live copy is there.
LEMMA UseMemoryStep ==
  ASSUME BootInv, UseBaseMemory \/ UseHighMemory
  PROVE  BootInv'
<1>1. Outside /\ UNCHANGED <<vec, others, fbms, copies, at>>
  BY DEF UseBaseMemory, UseHighMemory
<1>2. VecInv(vec, others)' /\ Anchored(vec)'
  BY <1>1, VecInvPrimed DEF BootInv
<1>3. base \in [0 .. BaseTop - 1 -> Nat] /\ high \in [Places -> Nat]
  BY DEF BootInv, BootType
<1>4. base' \in [0 .. BaseTop - 1 -> Nat] /\ high' \in [Places -> Nat]
  BY <1>3 DEF UseBaseMemory, UseHighMemory, Nobody
<1>5. BootType'
  BY <1>1, <1>4 DEF BootInv, BootType
<1>6. EnteredInv'
  BY <1>1 DEF BootInv, EnteredInv, Entered
<1>7. ASSUME NEW j \in Copies, Live(j)' PROVE Resident(j)'
  <2>1. vec.chain[j]["15"] # Null
    BY <1>1, <1>7 DEF Live, Running, RunStates, Outside
  <2>2. copies[j].high \in Hidden
    BY <2>1, HookedHidden DEF BootInv, BootType
  <2> DEFINE b == copies[j].base
             p == copies[j].high
  <2>3. b \in fbms .. BaseTop - 1 /\ base[b] = j /\ p \in Places /\ high[p] = j
    BY <2>1 DEF BootInv, MemInv, Live, Resident
  <2>4. fbms \in 0 .. BaseTop /\ BaseTop \in Nat
    BY OptionRomAssumption DEF BootInv, BootType
  <2>5. p \in Hidden
    BY <2>2
  <2> HIDE DEF b, p
  <2>6. base'[b] = j
    <3>1. CASE UseBaseMemory
      <4>1. base' = [u \in DOMAIN base |-> IF u < fbms THEN Nobody ELSE base[u]]
        BY <3>1 DEF UseBaseMemory
      <4>2. b \in DOMAIN base /\ ~(b < fbms)
        BY <1>3, <2>3, <2>4
      <4> QED BY <2>3, <4>1, <4>2
    <3>2. CASE UseHighMemory
      BY <2>3, <3>2 DEF UseHighMemory
    <3> QED BY <3>1, <3>2
  <2>7. high'[p] = j
    BY <2>3, <2>5 DEF UseBaseMemory, UseHighMemory
  <2> QED BY <1>1, <2>3, <2>6, <2>7 DEF Resident, Places, b, p
<1>8. AtInv' /\ DevInv'
  BY <1>1 DEF BootInv, AtInv, DevInv
<1> QED
  BY <1>2, <1>5, <1>6, <1>7, <1>8 DEF BootInv, MemInv

-----------------------------------------------------------------------------
(* What interrupts rely on.                                                *)

\* One lemma per action: no step breaks the invariant.
LEMMA NextBootInv == BootInv /\ PmmType /\ [Next]_vars => BootInv' \/ Overwritten'
<1> SUFFICES ASSUME BootInv, PmmType, [Next]_vars PROVE BootInv' \/ Overwritten'
  OBVIOUS
<1>1. CASE RomInit
  BY <1>1, RomInitStep
<1>2. CASE bev_entry
  BY <1>2, EntryStep DEF bev_entry, Outside
<1>3. CASE install_death
  BY <1>3, DeathStep
<1>4. CASE uninstall
  BY <1>4, UninstallStep
<1>5. CASE startup
  BY <1>5, StartupStep
<1>6. CASE int13_hook
  BY <1>6, Int13HookStep
<1>7. CASE int13_describe
  BY <1>7, DescribeStep
<1>8. CASE int13_boot
  BY <1>8, Int13BootStep
<1>9. CASE bootsector_exec_fail
  BY <1>9, ExecFailStep
<1>10. CASE shutdown
  BY <1>10, ShutdownStep
<1>11. ASSUME NEW int \in {"18", "19"}, RaiseFail(int) PROVE BootInv' \/ Overwritten'
  BY <1>11, RaiseFailStep
<1>12. ASSUME NEW int \in Ints, OtherHooks(int) PROVE BootInv'
  BY <1>12, OtherHooksStep
<1>13. ASSUME NEW int \in Ints, OtherUnhooks(int) PROVE BootInv'
  BY <1>13, OtherUnhooksStep
<1>14. CASE UseBaseMemory \/ UseHighMemory
  BY <1>14, UseMemoryStep
<1>15. CASE UNCHANGED vars
  <2>1. UNCHANGED <<vec, others, fbms, copies, base, high, at>>
    BY <1>15 DEF vars
  <2>2. VecInv(vec, others)' /\ Anchored(vec)'
    BY <2>1, VecInvPrimed DEF BootInv
  <2>3. BootType' /\ EnteredInv'
    BY <2>1 DEF BootInv, BootType, EnteredInv, Entered
  <2>4. MemInv' /\ AtInv' /\ DevInv'
    BY <2>1 DEF BootInv, MemInv, Live, Running, Resident, Places, AtInv, DevInv
  <2> QED BY <2>2, <2>3, <2>4 DEF BootInv
<1> QED
  BY <1>1, <1>2, <1>3, <1>4, <1>5, <1>6, <1>7, <1>8, <1>9, <1>10, <1>11, <1>12, <1>13,
     <1>14, <1>15 DEF Next

\* The block from POST is chosen once.
LEMMA NextPmmType == PmmType /\ [Next]_vars => PmmType'
<1> SUFFICES ASSUME PmmType, [Next]_vars PROVE PmmType'
  OBVIOUS
<1>1. CASE RomInit
  BY <1>1 DEF RomInit, PmmType, Places
<1>2. CASE UNCHANGED decompress_to
  BY <1>2 DEF PmmType, Places
<1>3. CASE bev_entry \/ install_death \/ uninstall \/ startup \/ int13_hook
  BY <1>2, <1>3 DEF bev_entry, install_death, uninstall, startup, int13_hook
<1>4. CASE int13_describe \/ int13_boot \/ bootsector_exec_fail \/ shutdown
  BY <1>2, <1>4 DEF int13_describe, int13_boot, bootsector_exec_fail, shutdown
<1>5. ASSUME NEW int, RaiseFail(int) \/ OtherHooks(int) \/ OtherUnhooks(int)
      PROVE  UNCHANGED decompress_to
  BY <1>5 DEF RaiseFail, OtherHooks, OtherUnhooks
<1>6. CASE UseBaseMemory \/ UseHighMemory \/ UNCHANGED vars
  BY <1>2, <1>6 DEF UseBaseMemory, UseHighMemory, vars
<1> QED
  BY <1>1, <1>2, <1>3, <1>4, <1>5, <1>6 DEF Next

\* After an entry that has overwritten a copy the model takes no further step.
LEMMA OverwrittenStays == Overwritten /\ [Next]_vars => Overwritten'
<1> SUFFICES ASSUME Overwritten, [Next]_vars PROVE Overwritten'
  OBVIOUS
<1>1. at[1] = "overwritten" /\ HandlersResident
  BY DEF Overwritten
<1>2. ~Outside
  BY <1>1 DEF Outside
<1>3. UNCHANGED vars
  <2>1. ~(RomInit \/ bev_entry \/ install_death \/ uninstall \/ startup)
    BY <1>1 DEF RomInit, bev_entry, install_death, uninstall, startup
  <2>2. ~(int13_hook \/ int13_describe \/ int13_boot \/ bootsector_exec_fail \/ shutdown)
    BY <1>1 DEF int13_hook, int13_describe, int13_boot, bootsector_exec_fail, shutdown
  <2>3. \A int : ~(RaiseFail(int) \/ OtherHooks(int) \/ OtherUnhooks(int))
    BY <1>2 DEF RaiseFail, OtherHooks, OtherUnhooks
  <2>4. ~(UseBaseMemory \/ UseHighMemory)
    BY <1>2 DEF UseBaseMemory, UseHighMemory
  <2> QED BY <2>1, <2>2, <2>3, <2>4 DEF Next
<1>4. UNCHANGED <<vec, others, fbms, copies, base, high, decompress_to, at>>
  BY <1>3 DEF vars
<1>5. \A int : Serving(int)' = Serving(int)
  BY <1>4 DEF Serving, Reached, NextHandler
<1> QED
  BY <1>1, <1>4, <1>5 DEF Overwritten, HandlersResident

\* What the program in memory relies on, throughout: stacked vectors, counted hooks,
\* INT 15 under every other hook, and memory for every copy that is hooked or runs;
\* or an entry has overwritten a copy in the block from POST, and only that.
BootSafe == PmmType /\ (BootInv \/ Overwritten)

\* No step of the ROM, of a copy or of another program breaks it (exec, startup,
\* int13_hook, call_bootsector, shutdown, free_basemem).
THEOREM BootInvariant == Spec => []BootSafe
<1>1. Init => BootSafe
  BY InitBootInv DEF BootSafe, PmmType, Init
<1>2. BootSafe /\ [Next]_vars => BootSafe'
  BY NextBootInv, NextPmmType, OverwrittenStays DEF BootSafe
<1> QED
  BY <1>1, <1>2, PTL DEF Spec

\* Every copy that a vector leads to still has its base memory (free_basemem), and its
\* high memory (unhide_etherboot) unless it is in the block from POST and the ROM has
\* been entered again; one that INT 13 leads to has its SAN device and its device tree
\* (remove_devices).
THEOREM HandlersAreResident == Spec => []HandlersResident
<1>1. BootInv => HandlersResident
  <2> SUFFICES ASSUME BootInv PROVE HandlersResident
    OBVIOUS
  <2>1. ASSUME NEW int \in Ints, NEW i \in Serving(int)
        PROVE  base[copies[i].base] = i /\ high[copies[i].high] = i
    <3>1. i \in Copies /\ vec.chain[i][int] # Null
      BY ServingHooked DEF BootInv
    <3>2. vec.chain[i]["15"] # Null
      BY <3>1 DEF BootInv, Anchored
    <3> QED BY <3>1, <3>2 DEF BootInv, MemInv, Live, Resident
  <2>2. ASSUME NEW i \in Serving("13")
        PROVE  copies[i].sandev /\ copies[i].devices
    <3>1. i \in Copies /\ vec.chain[i]["13"] # Null
      BY ServingHooked, IntsFacts DEF BootInv
    <3> QED BY <3>1 DEF BootInv, DevInv
  <2> QED BY <2>1, <2>2 DEF HandlersResident
<1>2. BootSafe => HandlersResident
  BY <1>1 DEF BootSafe, Overwritten
<1> QED
  BY <1>2, BootInvariant, PTL

-----------------------------------------------------------------------------
(* A machine in which nobody else hooks and INT 13 is not hooked.          *)

\* No other program has hooked an interrupt, and no copy has hooked INT 13.
Quiet == others = <<>> /\ \A i \in Copies : ~copies[i].sandev

\* Where a copy has hooked INT 15 and INT 16.
Started == {"hook", "describe", "boot", "bootsector", "fail", "shutdown"}

\* Where also INT 18 and INT 19.
Booted == {"bootsector", "fail"}

\* The interrupts that the copy that runs has hooked.
HookedNow(int) == \/ int \in {"15", "16"} /\ at[1] \in Started
                  \/ int \in {"18", "19"} /\ at[1] \in Booted

\* In a quiet machine only the copy that runs has hooks, and one unit is taken.
CleanState ==
    /\ \A i \in Copies, int \in Ints :
          vec.chain[i][int] # Null <=> at[2] = i /\ HookedNow(int)
    /\ at[1] \in {"post", "bios"} => fbms = BaseTop
    /\ at[1] \in RunStates \cup {"bootsector"} =>
          fbms = BaseTop - 1 /\ copies[at[2]].base = fbms
    /\ at[1] \in Started => copies[at[2]].started

\* The inductive invariant of the quiet machine.
CleanInv == Quiet => CleanState

\* A handler of a copy that has hooked the interrupt.
OfHooked(v, int, h) == \E i \in Copies : h = Ipxe(i) /\ v.chain[i][int] # Null

\* With no hook of another program, a stack consists of hooked copies.
LEMMA QuietStack ==
  ASSUME NEW v, NEW int, NEW n \in Nat \ {0}, NEW s, IsStack(v, <<>>, int, n, s),
         NEW j \in 2 .. n
  PROVE  OfHooked(v, int, s[j])
<1>1. \A m \in 1 .. n : s[m] # Null
  BY StackElement
<1>2. \/ \E i \in Copies : s[j] = Ipxe(i) /\ v.chain[i][int] = s[j - 1]
      \/ \E k \in 1 .. Len(<<>>) : s[j] = Other(k)
  BY DEF IsStack
<1>3. 1 .. Len(<<>>) = {}
  <2>1. Len(<<>>) = 0
    OBVIOUS
  <2> QED BY <2>1
<1>4. j - 1 \in 1 .. n
  OBVIOUS
<1>5. s[j - 1] # Null
  BY <1>1, <1>4
<1> QED
  BY <1>2, <1>3, <1>5 DEF OfHooked

\* So the vector is a hooked copy's, or that of the BIOS.
LEMMA QuietTop ==
  ASSUME NEW v, VecInv(v, <<>>), NEW int \in Ints
  PROVE  v.ivt[int] \in {Bios, Rom} \/ OfHooked(v, int, v.ivt[int])
<1>1. PICK n \in Nat \ {0} : \E s : IsStack(v, <<>>, int, n, s)
  BY DEF VecInv, Stacked
<1>2. PICK s : IsStack(v, <<>>, int, n, s)
  BY <1>1
<1>3. s[1] \in {Bios, Rom} /\ s[n] = v.ivt[int]
  BY <1>2 DEF IsStack
<1>4. CASE n = 1
  BY <1>3, <1>4
<1>5. CASE n # 1
  <2>1. n \in 2 .. n
    BY <1>5
  <2>2. OfHooked(v, int, s[n])
    BY <1>2, <2>1, QuietStack
  <2> QED BY <1>3, <2>2
<1> QED
  BY <1>4, <1>5

\* And if one copy alone has hooked the interrupt, the vector is its.
LEMMA QuietOwner ==
  ASSUME NEW v, VecInv(v, <<>>), NEW int \in Ints, NEW i \in Copies,
         v.chain[i][int] # Null, \A j \in Copies \ {i} : v.chain[j][int] = Null
  PROVE  v.ivt[int] = Ipxe(i)
<1>1. PICK n \in Nat \ {0} : \E s : IsStack(v, <<>>, int, n, s)
  BY DEF VecInv, Stacked
<1>2. PICK s : IsStack(v, <<>>, int, n, s)
  BY <1>1
<1>3. s[n] = v.ivt[int]
  BY <1>2 DEF IsStack
<1>4. PICK j \in 2 .. n : s[j] = Ipxe(i)
  BY <1>2 DEF IsStack
<1>5. n \in 2 .. n
  BY <1>4
<1>6. PICK k \in Copies : s[n] = Ipxe(k) /\ v.chain[k][int] # Null
  <2>1. OfHooked(v, int, s[n])
    BY <1>2, <1>5, QuietStack
  <2> QED BY <2>1 DEF OfHooked
<1> QED
  BY <1>3, <1>6

\* INT 18 and INT 19 with a copy's hook on top end up there.
LEMMA FailToTop ==
  ASSUME VecInv(vec, others), Len(others) \in 0 .. MaxOthers, NEW int \in {"18", "19"},
         NEW i, vec.ivt[int] = Ipxe(i)
  PROVE  FailHandler(int) = Ipxe(i)
<1> DEFINE S == {Ipxe(i)}
<1>1. vec.ivt[int] \in S
  OBVIOUS
<1>2. int \notin {"13", "15", "16"}
  OBVIOUS
<1>3. ASSUME NEW h \in S PROVE NextHandler(int, h) \in S
  BY <1>2, NextHandlerCases
<1> HIDE DEF S
<1>4. Reached(int) \subseteq S
  BY <1>1, <1>3, ReachedWithin
<1>5. FailHandler(int) \in S
  BY <1>4, FailHandlerReached
<1> QED
  BY <1>5 DEF S

\* exec makes a copy that has not been entered before.
LEMMA ExecNew ==
  ASSUME BootInv, exec
  PROVE  Cardinality(Entered) + 1 \in Copies \ Entered
<1>1. MaxRuns \in Nat
  BY OptionRomAssumption
<1>2. PICK e \in 0 .. MaxRuns : Entered = 1 .. e
  BY DEF BootInv, EnteredInv
<1>3. 1 \in Int /\ e \in Int
  BY <1>1
<1>4. Cardinality(1 .. e) = IF 1 > e THEN 0 ELSE e - 1 + 1
  BY <1>3, FS_Interval
<1>5. Cardinality(Entered) = e
  BY <1>1, <1>2, <1>4
<1>6. e + 1 \notin 1 .. e
  BY <1>3
<1> QED
  BY <1>2, <1>5, <1>6 DEF exec

\* A machine that is quiet after a step was quiet before it.
LEMMA QuietBefore ==
  ASSUME BootInv, [Next]_vars, Quiet'
  PROVE  Quiet
<1>1. ASSUME exec, UNCHANGED others PROVE Quiet
  <2> DEFINE i == Cardinality(Entered) + 1
  <2>1. i \in Copies \ Entered
    BY <1>1, ExecNew
  <2>2. \A j \in Copies \ {i} : copies'[j] = copies[j]
    <3>1. copies \in [Copies -> CopyType]
      BY DEF BootInv, BootType
    <3>2. PICK p : copies' = [copies EXCEPT ![i] = [Absent EXCEPT !.base = fbms - 1, !.high = p]]
      BY <1>1 DEF exec
    <3> HIDE DEF i
    <3> QED BY <3>1, <3>2
  <2>3. ~copies[i].sandev
    <3>1. copies[i].high = 0
      BY <2>1 DEF Entered
    <3> HIDE DEF i
    <3> QED BY <2>1, <3>1 DEF BootInv, EnteredInv
  <2> HIDE DEF i
  <2> QED BY <1>1, <2>2, <2>3 DEF Quiet
<1>2. ASSUME UNCHANGED others,
             \A j \in Copies : copies[j].sandev => copies'[j].sandev
      PROVE  Quiet
  BY <1>2 DEF Quiet
<1>3. copies \in [Copies -> CopyType]
  BY DEF BootInv, BootType
<1>4. CASE UNCHANGED <<others, copies>>
  BY <1>4 DEF Quiet
<1>5. CASE startup \/ int13_hook \/ shutdown
  <2>1. at[2] \in Copies /\ others' = others
    BY <1>5, RunFacts DEF startup, int13_hook, shutdown
  <2>2. \A j \in Copies : copies[j].sandev => copies'[j].sandev
    BY <1>3, <1>5, <2>1 DEF startup, int13_hook, shutdown, CopyType
  <2> QED BY <1>2, <2>1, <2>2
<1>6. ASSUME NEW int \in Ints, OtherHooks(int) PROVE FALSE
  <2>1. others' = Append(others, [int |-> int, next |-> vec.ivt[int]])
    BY <1>6 DEF OtherHooks
  <2>2. others \in Seq([int : Ints, next : HandlerType])
    BY DEF BootInv, BootType
  <2>3. others' = <<>>
    BY DEF Quiet
  <2> QED BY <2>1, <2>2, <2>3
<1>7. CASE bev_entry
  BY <1>1, <1>7 DEF bev_entry
<1>8. ASSUME NEW int \in {"18", "19"}, RaiseFail(int) PROVE Quiet
  BY <1>1, <1>4, <1>8 DEF RaiseFail
<1>9. ASSUME NEW int \in Ints, OtherUnhooks(int) PROVE Quiet
  BY <1>4, <1>9 DEF OtherUnhooks
<1>10. CASE RomInit \/ install_death \/ uninstall \/ int13_describe \/ int13_boot
  BY <1>4, <1>10 DEF RomInit, install_death, uninstall, int13_describe, int13_boot
<1>11. CASE bootsector_exec_fail \/ UseBaseMemory \/ UseHighMemory
  BY <1>4, <1>11 DEF bootsector_exec_fail, UseBaseMemory, UseHighMemory
<1>12. CASE UNCHANGED vars
  BY <1>4, <1>12 DEF vars
<1> QED
  BY <1>5, <1>6, <1>7, <1>8, <1>9, <1>10, <1>11, <1>12 DEF Next

\* exec takes one unit of base memory and hooks nothing; nothing is hidden before it.
LEMMA CleanExec ==
  ASSUME BootInv, CleanState, at[1] = "bios", exec, UNCHANGED <<vec, others>>
  PROVE  CleanState'
<1> DEFINE i == Cardinality(Entered) + 1
<1>1. i \in Copies
  BY ExecNew
<1>a. Hidden = {}
  <2>1. \A j \in Copies, int \in Ints : vec.chain[j][int] = Null
    BY DEF CleanState, HookedNow, Started, Booted
  <2>2. Serving("15") = {}
    BY <2>1, ServingHooked, IntsFacts DEF BootInv
  <2> QED BY <2>2 DEF Hidden
<1>b. PICK p : copies' = [copies EXCEPT ![i] = [Absent EXCEPT !.base = fbms - 1, !.high = p]]
  BY DEF exec
<1> DEFINE c == [Absent EXCEPT !.base = fbms - 1, !.high = p]
<1>2. fbms' = fbms - 1 /\ copies' = [copies EXCEPT ![i] = c] /\ at' = <<"startup", i>>
  BY <1>a, <1>b DEF exec
<1>3. copies \in [Copies -> CopyType]
  BY DEF BootInv, BootType
<1>4. c.base = fbms - 1
  BY DEF Absent
<1> HIDE DEF i, c
<1>5. copies'[i].base = fbms - 1 /\ at'[1] = "startup" /\ at'[2] = i
  BY <1>1, <1>2, <1>3, <1>4
<1>6. fbms = BaseTop
  BY DEF CleanState
<1>7. \A int : ~HookedNow(int) /\ ~HookedNow(int)'
  BY <1>5 DEF HookedNow, Started, Booted
<1>8. \A j \in Copies, int \in Ints : vec'.chain[j][int] # Null <=> at'[2] = j /\ HookedNow(int)'
  BY <1>7 DEF CleanState
<1> QED
  BY <1>2, <1>5, <1>6, <1>8 DEF CleanState, Started

\* startup hooks INT 15, because the copy is at the counter, and INT 16.
LEMMA CleanStartup ==
  ASSUME BootInv, CleanState, startup
  PROVE  CleanState'
<1> DEFINE i == at[2]
           v == hook_bios_interrupt(vec, i, "15")
           w == hook_bios_interrupt(v, i, "16")
<1>1. at[1] = "startup" /\ i \in Copies
  BY RunFacts DEF startup
<1>2. copies[i].base = fbms /\ fbms = BaseTop - 1
  BY <1>1, RunFacts DEF CleanState
<1>3. hide_etherboot(vec, i) = v
  <2>1. fbms \in Int
    BY OptionRomAssumption DEF BootInv, BootType
  <2>2. ~(copies[i].base + 1 < fbms)
    BY <1>2, <2>1
  <2> QED BY <2>2 DEF hide_etherboot
<1>4. vec' = w /\ at' = <<"hook", i>> /\ fbms' = fbms
      /\ copies' = [copies EXCEPT ![i].started = TRUE, ![i].devices = TRUE]
  BY <1>3 DEF startup
<1>5. VecInv(vec, others) /\ Len(others) \in Nat /\ copies \in [Copies -> CopyType]
  BY RunFacts
<1>6. VecInv(v, others) /\ Hooking(vec, v, i, "15")
  BY <1>1, <1>5, IntsFacts, HookInv
<1> HIDE DEF v
<1>7. Hooking(v, w, i, "16")
  BY <1>1, <1>5, <1>6, IntsFacts, HookInv
<1> HIDE DEF w
<1>8. /\ w.chain[i]["15"] # Null /\ w.chain[i]["16"] # Null
      /\ \A j \in Copies, m \in Ints : j # i \/ m \notin {"15", "16"} =>
            w.chain[j][m] = vec.chain[j][m]
  <2>1. "15" \in Ints /\ "16" \in Ints /\ "15" # "16"
    BY IntsFacts
  <2>2. HookingBoth(vec, w, i, "15", "16")
    BY <1>1, <1>6, <1>7, <2>1, HookTwice
  <2> QED BY <2>2 DEF HookingBoth
<1>9. \A j \in Copies, m \in Ints : vec.chain[j][m] = Null
  BY <1>1 DEF CleanState, HookedNow, Started, Booted
<1>10. \A m : HookedNow(m)' <=> m \in {"15", "16"}
  BY <1>4 DEF HookedNow, Started, Booted
<1> HIDE DEF i
<1>11. \A j \in Copies, m \in Ints : vec'.chain[j][m] # Null <=> at'[2] = j /\ HookedNow(m)'
  <2>1. at'[2] = i
    BY <1>4
  <2>2. \A j \in Copies, m \in Ints : w.chain[j][m] # Null <=> i = j /\ m \in {"15", "16"}
    BY <1>8, <1>9
  <2> QED BY <1>4, <1>10, <2>1, <2>2
<1>12. copies'[i].base = copies[i].base /\ copies'[i].started
  BY <1>1, <1>4, <1>5 DEF CopyType
<1>13. at'[1] = "hook" /\ at'[2] = i
  BY <1>4
<1> QED
  BY <1>2, <1>4, <1>11, <1>12, <1>13 DEF CleanState, i

\* int13_boot hooks INT 18 and INT 19, or leaves the vectors alone.
LEMMA CleanBoot ==
  ASSUME BootInv, CleanState, int13_boot
  PROVE  CleanState'
<1> DEFINE i == at[2]
           v == hook_bios_interrupt(vec, i, "18")
           w == hook_bios_interrupt(v, i, "19")
<1>1. at[1] = "boot" /\ i \in Copies /\ UNCHANGED <<fbms, copies>>
  BY RunFacts DEF int13_boot
<1>2. copies[i].base = fbms /\ fbms = BaseTop - 1 /\ copies[i].started
  BY <1>1, RunFacts DEF CleanState, Started
<1>3. VecInv(vec, others) /\ Len(others) \in Nat
  BY RunFacts
<1>4. \A j \in Copies, m \in Ints : vec.chain[j][m] # Null <=> i = j /\ m \in {"15", "16"}
  BY <1>1 DEF CleanState, HookedNow, Started, Booted
<1>5. CASE at' = <<"shutdown", i>> /\ UNCHANGED vec
  <2>1. at'[1] = "shutdown" /\ at'[2] = i
    BY <1>5
  <2>2. \A m : HookedNow(m)' <=> m \in {"15", "16"}
    BY <2>1 DEF HookedNow, Started, Booted
  <2>3. \A j \in Copies, m \in Ints : vec'.chain[j][m] # Null <=> at'[2] = j /\ HookedNow(m)'
    BY <1>4, <1>5, <2>1, <2>2
  <2> QED BY <1>1, <1>2, <2>1, <2>3 DEF CleanState
<1>6. CASE vec' = w /\ at' = <<"bootsector", i>>
  <2>1. VecInv(v, others) /\ Hooking(vec, v, i, "18")
    BY <1>1, <1>3, IntsFacts, HookInv
  <2> HIDE DEF v
  <2>2. Hooking(v, w, i, "19")
    BY <1>1, <1>3, <2>1, IntsFacts, HookInv
  <2> HIDE DEF w
  <2>3. /\ w.chain[i]["18"] # Null /\ w.chain[i]["19"] # Null
        /\ \A j \in Copies, m \in Ints : j # i \/ m \notin {"18", "19"} =>
              w.chain[j][m] = vec.chain[j][m]
    <3>1. "18" \in Ints /\ "19" \in Ints /\ "18" # "19"
      BY IntsFacts
    <3>2. HookingBoth(vec, w, i, "18", "19")
      BY <1>1, <2>1, <2>2, <3>1, HookTwice
    <3> QED BY <3>2 DEF HookingBoth
  <2>4. at'[1] = "bootsector" /\ at'[2] = i
    BY <1>6
  <2>5. \A m : HookedNow(m)' <=> m \in {"15", "16"} \cup {"18", "19"}
    BY <2>4 DEF HookedNow, Started, Booted
  <2> HIDE DEF i
  <2>6. \A j \in Copies, m \in Ints : vec'.chain[j][m] # Null <=> at'[2] = j /\ HookedNow(m)'
    <3>1. \A j \in Copies, m \in Ints :
              w.chain[j][m] # Null <=> i = j /\ m \in {"15", "16"} \cup {"18", "19"}
      BY <1>4, <2>3
    <3> QED BY <1>6, <2>4, <2>5, <3>1
  <2> QED BY <1>1, <1>2, <2>4, <2>6 DEF CleanState
<1> QED
  BY <1>5, <1>6 DEF int13_boot

\* Both are on top, so the return from call_bootsector unhooks them.
LEMMA CleanExecFail ==
  ASSUME BootInv, Quiet, CleanState, bootsector_exec_fail
  PROVE  CleanState'
<1> DEFINE i == at[2]
           v == unhook_bios_interrupt(vec, i, "18")
           w == unhook_bios_interrupt(v, i, "19")
<1>1. /\ at[1] = "fail" /\ i \in Copies /\ vec' = w /\ at' = <<"shutdown", i>>
      /\ UNCHANGED <<fbms, copies>>
  BY RunFacts DEF bootsector_exec_fail
<1>2. copies[i].base = fbms /\ fbms = BaseTop - 1 /\ copies[i].started
  BY <1>1, RunFacts DEF CleanState, Started
<1>3. VecInv(vec, <<>>)
  BY RunFacts DEF Quiet
<1>4. \A j \in Copies, m \in Ints :
          vec.chain[j][m] # Null <=> i = j /\ m \in {"15", "16"} \cup {"18", "19"}
  BY <1>1 DEF CleanState, HookedNow, Started, Booted
<1>5. vec.ivt["18"] = Ipxe(i) /\ vec.ivt["19"] = Ipxe(i)
  <2>1. \A m \in {"18", "19"} : m \in Ints
    BY IntsFacts
  <2>2. ASSUME NEW m \in {"18", "19"} PROVE vec.ivt[m] = Ipxe(i)
    <3>1. vec.chain[i][m] # Null /\ \A j \in Copies \ {i} : vec.chain[j][m] = Null
      BY <1>1, <1>4, <2>1
    <3> QED BY <1>1, <1>3, <2>1, <3>1, QuietOwner
  <2> QED BY <2>2
<1>6. VecInv(v, <<>>) /\ Unhooking(vec, v, i, "18")
  BY <1>1, <1>3, IntsFacts, UnhookInv
<1> HIDE DEF v
<1>7. Unhooking(v, w, i, "19")
  BY <1>1, <1>6, IntsFacts, UnhookInv
<1> HIDE DEF w
<1>8. v.ivt["19"] = Ipxe(i) /\ v.chain[i]["18"] = Null
      /\ \A j \in Copies, m \in Ints : j # i \/ m # "18" => v.chain[j][m] = vec.chain[j][m]
  BY <1>5, <1>6, IntsFacts DEF Unhooking
<1>9. w.chain[i]["19"] = Null
      /\ \A j \in Copies, m \in Ints : j # i \/ m # "19" => w.chain[j][m] = v.chain[j][m]
  BY <1>7, <1>8 DEF Unhooking
<1>10. at'[1] = "shutdown" /\ at'[2] = i
  BY <1>1
<1>11. \A m : HookedNow(m)' <=> m \in {"15", "16"}
  BY <1>10 DEF HookedNow, Started, Booted
<1> HIDE DEF i
<1>12. \A j \in Copies, m \in Ints : vec'.chain[j][m] # Null <=> at'[2] = j /\ HookedNow(m)'
  <2>1. w.chain[i]["18"] = Null
    BY <1>1, <1>8, <1>9, IntsFacts
  <2>2. \A j \in Copies, m \in Ints : j # i \/ m \notin {"18", "19"} =>
            w.chain[j][m] = vec.chain[j][m]
    BY <1>8, <1>9
  <2>3. \A j \in Copies, m \in Ints : w.chain[j][m] # Null <=> i = j /\ m \in {"15", "16"}
    BY <1>4, <1>9, <2>1, <2>2, SMTT(30)
  <2> QED BY <1>1, <1>10, <1>11, <2>3
<1> QED
  BY <1>1, <1>2, <1>10, <1>12 DEF CleanState, Started

\* INT 16 goes first, so that INT 15 is the last hook and goes as well.
LEMMA CleanShutdown ==
  ASSUME BootInv, Quiet, CleanState, shutdown
  PROVE  CleanState'
<1> DEFINE i == at[2]
           u == unhook_bios_interrupt(vec, i, "16")
           w == unhook_bios_interrupt(u, i, "15")
<1>1. at[1] = "shutdown" /\ i \in Copies /\ at' = <<"uninstall", i>> /\ fbms' = fbms
  BY RunFacts DEF shutdown
<1>2. copies[i].base = fbms /\ fbms = BaseTop - 1 /\ copies[i].started
  BY <1>1, RunFacts DEF CleanState, Started
<1>3. vec' = ShutdownVectors(vec, i)
      /\ copies' = [copies EXCEPT ![i].started = FALSE, ![i].devices = @ /\ copies[i].keep # 0]
  BY <1>2 DEF shutdown
<1>4. VecInv(vec, <<>>) /\ copies \in [Copies -> CopyType]
  BY RunFacts DEF Quiet
<1>5. \A j \in Copies, m \in Ints : vec.chain[j][m] # Null <=> i = j /\ m \in {"15", "16"}
  BY <1>1 DEF CleanState, HookedNow, Started, Booted
<1>6. vec.ivt["15"] = Ipxe(i) /\ vec.ivt["16"] = Ipxe(i)
  <2>1. \A m \in {"15", "16"} : m \in Ints
    BY IntsFacts
  <2>2. ASSUME NEW m \in {"15", "16"} PROVE vec.ivt[m] = Ipxe(i)
    <3>1. vec.chain[i][m] # Null /\ \A j \in Copies \ {i} : vec.chain[j][m] = Null
      BY <1>1, <1>5, <2>1
    <3> QED BY <1>1, <1>4, <2>1, <3>1, QuietOwner
  <2> QED BY <2>2
<1>7. VecInv(u, <<>>) /\ Unhooking(vec, u, i, "16")
  BY <1>1, <1>4, IntsFacts, UnhookInv
<1>8. ShutdownVectors(vec, i) = unhide_etherboot(u, i)
  BY DEF ShutdownVectors
<1> HIDE DEF u
<1>9. u.ivt["15"] = Ipxe(i) /\ u.chain[i]["16"] = Null
      /\ \A j \in Copies, m \in Ints : j # i \/ m # "16" => u.chain[j][m] = vec.chain[j][m]
  BY <1>6, <1>7, IntsFacts DEF Unhooking
<1>10. u.hooked[i] = 1
  <2>1. Hooks(u, i) = {"15"}
    <3>1. ASSUME NEW m \in Ints PROVE u.chain[i][m] # Null <=> m = "15"
      <4>1. CASE m = "16"
        BY <1>9, <4>1
      <4>2. CASE m # "16"
        <5>1. u.chain[i][m] = vec.chain[i][m]
          BY <1>1, <1>9, <4>2
        <5> QED BY <1>1, <1>5, <4>2, <5>1
      <4> QED BY <4>1, <4>2
    <3> QED BY <3>1, IntsFacts DEF Hooks
  <2>2. Cardinality({"15"}) = 1
    BY FS_Singleton
  <2> QED BY <1>1, <1>7, <2>1, <2>2 DEF VecInv, Counted
<1>11. vec' = w
  <2>1. ~(u.hooked[i] > 1)
    BY <1>10
  <2> QED BY <1>3, <1>8, <2>1 DEF unhide_etherboot
<1>12. Unhooking(u, w, i, "15")
  BY <1>1, <1>7, IntsFacts, UnhookInv
<1> HIDE DEF w
<1>13. w.chain[i]["15"] = Null
       /\ \A j \in Copies, m \in Ints : j # i \/ m # "15" => w.chain[j][m] = u.chain[j][m]
  BY <1>9, <1>12 DEF Unhooking
<1>14. at'[1] = "uninstall" /\ at'[2] = i
  BY <1>1
<1>15. \A m : ~HookedNow(m)'
  BY <1>14 DEF HookedNow, Started, Booted
<1> HIDE DEF i
<1>16. \A j \in Copies, m \in Ints : w.chain[j][m] = Null
  <2>1. w.chain[i]["16"] = Null
    BY <1>1, <1>9, <1>13, IntsFacts
  <2>2. \A j \in Copies, m \in Ints : j # i \/ m \notin {"15", "16"} =>
            w.chain[j][m] = vec.chain[j][m]
    BY <1>9, <1>13
  <2> QED BY <1>5, <1>13, <2>1, <2>2
<1>17. \A j \in Copies, m \in Ints : vec'.chain[j][m] # Null <=> at'[2] = j /\ HookedNow(m)'
  BY <1>11, <1>15, <1>16
<1>18. copies'[i].base = copies[i].base
  BY <1>1, <1>3, <1>4 DEF CopyType
<1> QED
  BY <1>1, <1>2, <1>14, <1>17, <1>18 DEF CleanState, Started

\* No hook is left, so free_basemem gives the unit back.
LEMMA CleanUninstall ==
  ASSUME BootInv, CleanState, uninstall
  PROVE  CleanState'
<1> DEFINE i == at[2]
<1>1. /\ at[1] = "uninstall" /\ i \in Copies /\ at' = <<"bios", 0>> /\ at'[1] = "bios"
      /\ fbms' = free_basemem(i) /\ vec' = vec
  BY RunFacts DEF uninstall
<1>2. copies[i].base = fbms /\ fbms = BaseTop - 1
  BY <1>1, RunFacts DEF CleanState
<1>3. \A j \in Copies, m \in Ints : vec.chain[j][m] = Null
  BY <1>1 DEF CleanState, HookedNow, Started, Booted
<1>4. vec.hooked[i] = 0
  <2>1. Hooks(vec, i) = {}
    BY <1>1, <1>3 DEF Hooks
  <2> QED BY <1>1, <2>1, FS_EmptySet DEF BootInv, VecInv, Counted
<1>5. fbms' = fbms + 1
  BY <1>1, <1>2, <1>4 DEF free_basemem
<1>6. fbms' = BaseTop
  BY <1>2, <1>5, OptionRomAssumption
<1>7. \A m : ~HookedNow(m)'
  BY <1>1 DEF HookedNow, Started, Booted
<1>8. \A j \in Copies, m \in Ints : vec'.chain[j][m] # Null <=> at'[2] = j /\ HookedNow(m)'
  BY <1>1, <1>3, <1>7
<1> QED
  BY <1>1, <1>6, <1>8 DEF CleanState, RunStates, Started

\* INT 18 and INT 19 lead to the copy that runs, or from the BIOS to the ROM.
LEMMA CleanFail ==
  ASSUME BootInv, Quiet, CleanState, NEW int \in {"18", "19"}, RaiseFail(int)
  PROVE  CleanState'
<1> DEFINE h == FailHandler(int)
<1>1. Outside /\ UNCHANGED <<vec, others>> /\ int \in Ints
  BY IntsFacts DEF RaiseFail
<1>2. VecInv(vec, others) /\ Len(others) \in 0 .. MaxOthers
  BY DEF BootInv, BootType
<1>3. CASE at[1] = "bios"
  <2>1. \A j \in Copies, m \in Ints : vec.chain[j][m] = Null
    BY <1>3 DEF CleanState, HookedNow, Started, Booted
  <2>2. h[1] # "ipxe"
    <3> SUFFICES ASSUME h[1] = "ipxe" PROVE FALSE
      OBVIOUS
    <3>1. h \in Reached(int)
      BY <1>2, FailHandlerReached
    <3>2. h[2] \in Copies /\ h = Ipxe(h[2])
      BY <1>1, <1>2, <3>1, ReachedIpxe
    <3>3. h[2] \in Serving(int)
      BY <3>1, <3>2 DEF Serving
    <3>4. vec.chain[h[2]][int] # Null
      BY <1>1, <1>2, <3>3, ServingHooked
    <3> QED BY <1>1, <2>1, <3>2, <3>4
  <2>3. exec
    BY <1>3, <2>2 DEF RaiseFail
  <2> QED BY <1>1, <1>3, <2>3, CleanExec
<1>4. CASE at[1] = "bootsector"
  <2> DEFINE i == at[2]
  <2>1. i \in Copies
    BY <1>4, RunFacts
  <2>2. vec.chain[i][int] # Null /\ \A j \in Copies \ {i} : vec.chain[j][int] = Null
    BY <1>1, <1>4, <2>1 DEF CleanState, HookedNow, Booted
  <2>3. VecInv(vec, <<>>)
    BY <1>2 DEF Quiet
  <2>4. vec.ivt[int] = Ipxe(i)
    BY <1>1, <2>1, <2>2, <2>3, QuietOwner
  <2>5. h = Ipxe(i)
    BY <1>2, <2>4, FailToTop
  <2>6. h[1] = "ipxe" /\ h[2] = i /\ h # Rom
    BY <2>5, HandlerFacts
  <2>7. at' = <<"fail", i>> /\ UNCHANGED <<fbms, copies>>
    BY <2>6 DEF RaiseFail
  <2>8. at'[1] = "fail" /\ at'[2] = i
    BY <2>7
  <2>9. \A m : HookedNow(m)' <=> HookedNow(m)
    BY <1>4, <2>8 DEF HookedNow, Started, Booted
  <2>10. \A j \in Copies, m \in Ints : vec'.chain[j][m] # Null <=> at'[2] = j /\ HookedNow(m)'
    BY <1>1, <2>8, <2>9 DEF CleanState
  <2>11. copies[i].base = fbms /\ fbms = BaseTop - 1 /\ copies[i].started
    BY <1>4 DEF CleanState, Started
  <2> QED BY <2>7, <2>8, <2>10, <2>11 DEF CleanState
<1> QED
  BY <1>1, <1>3, <1>4 DEF Outside

\* The steps that move on without touching vectors, copies or the counter.
LEMMA CleanControl ==
  ASSUME BootInv, Quiet', CleanState,
         int13_hook \/ int13_describe \/ install_death \/ RomInit
  PROVE  CleanState'
<1>1. CASE int13_hook
  <2>1. at[1] = "hook" /\ at[2] \in Copies /\ fbms' = fbms
    BY <1>1, RunFacts DEF int13_hook
  <2>2. /\ at' \in {<<"describe", at[2]>>, <<"shutdown", at[2]>>} /\ UNCHANGED <<vec, copies>>
    <3> SUFFICES ASSUME copies' = [copies EXCEPT ![at[2]].sandev = TRUE, ![at[2]].keep = @ + 1]
                 PROVE  FALSE
      BY <1>1 DEF int13_hook
    <3>1. copies \in [Copies -> CopyType]
      BY RunFacts
    <3>2. copies'[at[2]].sandev
      BY <2>1, <3>1 DEF CopyType
    <3> QED BY <2>1, <3>2 DEF Quiet
  <2>3. at'[1] \in {"describe", "shutdown"} /\ at'[2] = at[2]
    BY <2>2
  <2>4. \A m : HookedNow(m)' <=> HookedNow(m)
    BY <2>1, <2>3 DEF HookedNow, Started, Booted
  <2>5. copies[at[2]].base = fbms /\ fbms = BaseTop - 1 /\ copies[at[2]].started
    BY <2>1, RunFacts DEF CleanState, Started
  <2>6. \A j \in Copies, m \in Ints : vec'.chain[j][m] # Null <=> at'[2] = j /\ HookedNow(m)'
    BY <2>2, <2>3, <2>4, SMTT(30) DEF CleanState
  <2> QED BY <2>1, <2>2, <2>3, <2>5, <2>6 DEF CleanState
<1>2. CASE int13_describe
  <2>1. /\ at[1] = "describe" /\ at'[1] \in {"boot", "shutdown"} /\ at'[2] = at[2]
        /\ UNCHANGED <<vec, fbms, copies>>
    BY <1>2 DEF int13_describe
  <2>2. \A m : HookedNow(m)' <=> HookedNow(m)
    BY <2>1 DEF HookedNow, Started, Booted
  <2>3. copies[at[2]].base = fbms /\ fbms = BaseTop - 1 /\ copies[at[2]].started
    BY <2>1, RunFacts DEF CleanState, Started
  <2>4. \A j \in Copies, m \in Ints : vec'.chain[j][m] # Null <=> at'[2] = j /\ HookedNow(m)'
    BY <2>1, <2>2 DEF CleanState
  <2> QED BY <2>1, <2>3, <2>4 DEF CleanState
<1>3. CASE install_death
  <2>1. at[1] = "startup" /\ at'[1] = "halted" /\ UNCHANGED <<vec, fbms, copies>>
    BY <1>3 DEF install_death
  <2>2. \A m : ~HookedNow(m)' /\ ~HookedNow(m)
    BY <2>1 DEF HookedNow, Started, Booted
  <2>3. \A j \in Copies, m \in Ints : vec'.chain[j][m] # Null <=> at'[2] = j /\ HookedNow(m)'
    BY <2>1, <2>2 DEF CleanState
  <2> QED BY <2>1, <2>3 DEF CleanState, RunStates, Started
<1>4. CASE RomInit
  <2>1. at[1] = "post" /\ at'[1] = "bios" /\ fbms' = fbms
    BY <1>4 DEF RomInit
  <2>2. PICK pnp \in BOOLEAN : vec' = IF pnp THEN vec ELSE [vec EXCEPT !.ivt["19"] = Rom]
    BY <1>4 DEF RomInit
  <2>3. vec'.chain = vec.chain
    <3>1. vec = [ivt |-> vec.ivt, chain |-> vec.chain, hooked |-> vec.hooked]
      BY RunFacts DEF VecInv, VecType
    <3> QED BY <2>2, <3>1
  <2>4. \A m : ~HookedNow(m)' /\ ~HookedNow(m)
    BY <2>1 DEF HookedNow, Started, Booted
  <2>5. \A j \in Copies, m \in Ints : vec'.chain[j][m] # Null <=> at'[2] = j /\ HookedNow(m)'
    BY <2>3, <2>4 DEF CleanState
  <2> QED BY <2>1, <2>5 DEF CleanState, RunStates, Started
<1> QED
  BY <1>1, <1>2, <1>3, <1>4

\* No step breaks the invariant of the quiet machine.
LEMMA NextCleanInv == BootInv /\ CleanInv /\ [Next]_vars => CleanInv'
<1> SUFFICES ASSUME BootInv, CleanInv, [Next]_vars, Quiet' PROVE CleanState'
  BY DEF CleanInv
<1>1. Quiet /\ CleanState
  BY QuietBefore DEF CleanInv
<1>2. CASE bev_entry
  BY <1>1, <1>2, CleanExec DEF bev_entry
<1>3. CASE startup
  BY <1>1, <1>3, CleanStartup
<1>4. CASE int13_boot
  BY <1>1, <1>4, CleanBoot
<1>5. CASE bootsector_exec_fail
  BY <1>1, <1>5, CleanExecFail
<1>6. CASE shutdown
  BY <1>1, <1>6, CleanShutdown
<1>7. CASE uninstall
  BY <1>1, <1>7, CleanUninstall
<1>8. ASSUME NEW int \in {"18", "19"}, RaiseFail(int) PROVE CleanState'
  BY <1>1, <1>8, CleanFail
<1>9. CASE int13_hook \/ int13_describe \/ install_death \/ RomInit
  BY <1>1, <1>9, CleanControl
<1>10. ASSUME NEW int \in Ints, OtherHooks(int) PROVE FALSE
  <2>1. others' = Append(others, [int |-> int, next |-> vec.ivt[int]])
    BY <1>10 DEF OtherHooks
  <2>2. others \in Seq([int : Ints, next : HandlerType]) /\ others' = <<>>
    BY DEF BootInv, BootType, Quiet
  <2> QED BY <2>1, <2>2
<1>11. ASSUME NEW int \in Ints, OtherUnhooks(int) PROVE FALSE
  <2>1. VecInv(vec, <<>>)
    BY <1>1, RunFacts DEF Quiet
  <2>2. vec.ivt[int] \in {Bios, Rom} \/ OfHooked(vec, int, vec.ivt[int])
    BY <2>1, QuietTop
  <2>3. vec.ivt[int][1] = "other"
    BY <1>11 DEF OtherUnhooks
  <2> QED BY <2>2, <2>3, HandlerFacts DEF OfHooked
<1>12. CASE UNCHANGED <<vec, fbms, copies, at>>
  BY <1>1, <1>12 DEF CleanState, HookedNow
<1>13. CASE UseBaseMemory \/ UseHighMemory \/ UNCHANGED vars
  BY <1>12, <1>13 DEF UseBaseMemory, UseHighMemory, vars
<1> QED
  BY <1>2, <1>3, <1>4, <1>5, <1>6, <1>7, <1>8, <1>9, <1>10, <1>11, <1>13 DEF Next

\* A copy that could not hook INT 13 and was not covered leaves vectors, free base
\* memory and memory map as it found them (shutdown, free_basemem).
THEOREM ExitsAreClean == Spec => []CleanExit
<1>1. Init => CleanInv
  <2> SUFFICES ASSUME Init PROVE CleanState
    BY DEF CleanInv
  <2>1. at[1] = "post" /\ fbms = BaseTop
    BY DEF Init
  <2>2. \A i \in Copies, int \in Ints : vec.chain[i][int] = Null
    BY DEF Init
  <2>3. \A int : ~HookedNow(int)
    BY <2>1 DEF HookedNow, Started, Booted
  <2> QED BY <2>1, <2>2, <2>3 DEF CleanState, RunStates, Started
<1> DEFINE QuietSafe == at[1] = "overwritten" \/ CleanInv
<1>2. BootSafe /\ QuietSafe /\ [Next]_vars => QuietSafe'
  <2>1. BootInv => at[1] # "overwritten"
    BY DEF BootInv, BootType, States, RunStates
  <2> QED BY <2>1, NextCleanInv, OverwrittenStays DEF BootSafe, Overwritten
<1>3. BootInv /\ CleanInv => CleanExit
  <2> SUFFICES ASSUME BootInv, CleanState, at[1] = "bios", Quiet
               PROVE  /\ \A int \in Ints : vec.ivt[int] \in {Bios, Rom}
                      /\ fbms = BaseTop
                      /\ Hidden = {}
    BY DEF CleanInv, CleanExit, Quiet
  <2>1. \A i \in Copies, int \in Ints : vec.chain[i][int] = Null
    BY DEF CleanState, HookedNow, Started, Booted
  <2>2. VecInv(vec, <<>>) /\ VecInv(vec, others)
    BY RunFacts DEF Quiet
  <2>3. ASSUME NEW int \in Ints PROVE vec.ivt[int] \in {Bios, Rom}
    <3>1. vec.ivt[int] \in {Bios, Rom} \/ OfHooked(vec, int, vec.ivt[int])
      BY <2>2, QuietTop
    <3> QED BY <2>1, <3>1 DEF OfHooked
  <2>4. Serving("15") = {}
    <3> SUFFICES ASSUME NEW i \in Serving("15") PROVE FALSE
      OBVIOUS
    <3>1. i \in Copies /\ vec.chain[i]["15"] # Null
      BY <2>2, ServingHooked, IntsFacts
    <3> QED BY <2>1, <3>1, IntsFacts
  <2>5. Hidden = {}
    BY <2>4 DEF Hidden
  <2>6. fbms = BaseTop
    BY DEF CleanState
  <2> QED BY <2>3, <2>5, <2>6
<1>4. BootSafe /\ QuietSafe => CleanExit
  <2>1. at[1] = "overwritten" => CleanExit
    BY DEF CleanExit
  <2> QED BY <1>3, <2>1 DEF BootSafe, Overwritten
<1>5. Init => QuietSafe
  BY <1>1
<1> HIDE DEF QuietSafe
<1> QED
  BY <1>2, <1>4, <1>5, BootInvariant, PTL DEF Spec
=============================================================================
