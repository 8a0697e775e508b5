------------------------------ MODULE OptionRom ------------------------------
(***************************************************************************)
(* The life of the program in memory.  The BIOS enters the option ROM,     *)
(* exec takes base memory, installs a copy of the program there and in     *)
(* high memory, and calls main: startup, ipxe(), shutdown.  ipxe() hooks   *)
(* INT 13 and jumps to a boot sector, which may take over the machine, or  *)
(* come back through INT 18 or INT 19.  The copy then gives its memory     *)
(* back, unless an interrupt vector still leads to it.                     *)
(*                                                                         *)
(* A BIOS may enter the ROM again, so that several copies exist at a time. *)
(* Around them are the BIOS and other programs: they hook and unhook       *)
(* interrupts in a stack-like manner, raise INT 18 and INT 19, and use     *)
(* every piece of memory that the free base memory counter and INT 15 call *)
(* free.                                                                   *)
(***************************************************************************)
EXTENDS Integers, Sequences, FiniteSets, FiniteSetsExt

CONSTANTS MaxRuns,   \* how often the ROM is entered, the bound on copies
          MaxOthers, \* how often other programs hook an interrupt
          BaseTop    \* free base memory at power on, in units of one copy

ASSUME OptionRomAssumption ==
    /\ MaxRuns \in Nat
    /\ MaxOthers \in Nat
    /\ BaseTop \in Nat
    /\ BaseTop >= MaxRuns

VARIABLES vec,     \* interrupt vectors, and the chaining vectors and
                   \* hooked_bios_interrupts of every copy
          others,  \* the hooks of other programs: interrupt, next handler
          fbms,    \* free base memory counter of the BIOS
          copies,  \* per copy: base and high memory, started, devices, ...
          base,    \* whose content is in each unit of base memory
          high,    \* whose content is in each place of high memory
          decompress_to, \* the block that POST has given the ROM, or 0
          at       \* which code runs, and in which copy

vars == <<vec, others, fbms, copies, base, high, decompress_to, at>>

Ints == {"13", "15", "16", "18", "19"}

Copies == 1 .. MaxRuns

Bios == <<"bios", 0>>
Rom == <<"rom", 0>>
Ipxe(i) == <<"ipxe", i>>
Other(k) == <<"other", k>>
Null == <<"null", 0>>

(* Places for a copy in high memory, from the lowest to the highest.  They *)
(* lie apart, and there is one more than copies, so that one is visible.   *)
Places == 1 .. MaxRuns + 1

Nobody == 0

-----------------------------------------------------------------------------
(* Interrupt vectors *)

hook_bios_interrupt(v, i, int) ==
    IF v.chain[i][int] # Null
    THEN v
    ELSE [ivt    |-> [v.ivt EXCEPT ![int] = Ipxe(i)],
          chain  |-> [v.chain EXCEPT ![i][int] = v.ivt[int]],
          hooked |-> [v.hooked EXCEPT ![i] = @ + 1]]

unhook_bios_interrupt(v, i, int) ==
    IF v.ivt[int] # Ipxe(i)
    THEN v
    ELSE [ivt    |-> [v.ivt EXCEPT ![int] = v.chain[i][int]],
          chain  |-> [v.chain EXCEPT ![i][int] = Null],
          hooked |-> [v.hooked EXCEPT ![i] = @ - 1]]

(* Where a handler passes a call on to.  bootsector_exec_fail, which hooks *)
(* INT 18 and INT 19, does not chain; int19_entry chains to orig_int19.    *)
NextHandler(int, h) ==
    CASE h[1] = "ipxe" /\ int \in {"13", "15", "16"} -> vec.chain[h[2]][int]
      [] h[1] = "rom" -> Bios
      [] h[1] = "other" -> others[h[2]].next
      [] OTHER -> h

Reached(int) ==
    LET upTo[n \in 0 .. MaxRuns + MaxOthers + 1] ==
            IF n = 0 THEN {vec.ivt[int]}
            ELSE LET before == upTo[n - 1]
                 IN  before \cup {NextHandler(int, h) : h \in before}
    IN  upTo[MaxRuns + MaxOthers + 1]

(* The copies that a call of the interrupt gets to.                        *)
Serving(int) == {i \in Copies : Ipxe(i) \in Reached(int)}

(* What the memory map of INT 15 leaves out: every copy on the chain       *)
(* removes its own high memory from the map of the next handler.           *)
Hidden == {copies[i].high : i \in Serving("15")}

(* Where INT 18 or INT 19 ends up when other programs pass it on.          *)
FailHandler(int) ==
    CHOOSE h \in Reached(int) :
        /\ h[1] # "other"
        /\ \A g \in Reached(int) : g[1] \notin {"other", "bios"} => g = h
        /\ h = Bios => \A g \in Reached(int) : g[1] \in {"other", "bios"}

Absent == [base |-> 0, high |-> 0, started |-> FALSE, devices |-> FALSE,
           keep |-> 0, sandev |-> FALSE]

Entered == {i \in Copies : copies[i].high # 0}

Init ==
    /\ vec = [ivt    |-> [int \in Ints |-> Bios],
              chain  |-> [i \in Copies |-> [int \in Ints |-> Null]],
              hooked |-> [i \in Copies |-> 0]]
    /\ others = <<>>
    /\ fbms = BaseTop
    /\ copies = [i \in Copies |-> Absent]
    /\ base = [u \in 0 .. BaseTop - 1 |-> Nobody]
    /\ high = [p \in Places |-> Nobody]
    /\ decompress_to = 0
    /\ at = <<"post", 0>>

-----------------------------------------------------------------------------
(* The option ROM prefix *)

(* POST calls the ROM: without a PnP BIOS, hook INT 19.  A BIOS with POST  *)
(* memory management may give it a block, anywhere, to decompress to.      *)
RomInit ==
    /\ at[1] = "post"
    /\ \E pnp \in BOOLEAN :
          vec' = IF pnp THEN vec ELSE [vec EXCEPT !.ivt["19"] = Rom]
    /\ decompress_to' \in Places \cup {0}
    /\ at' = <<"bios", 0>>
    /\ UNCHANGED <<others, fbms, copies, base, high>>

(* The highest place that the memory map shows above the current one, if   *)
(* there is any; otherwise the program stays where it is.                  *)
Relocated(current) ==
    LET above == {p \in Places \ Hidden : p > current}
    IN  IF above = {} THEN current ELSE Max(above)

(* The block from POST is used at every entry, whatever is in it by then;  *)
(* without one, memory that INT 15,88 calls free.                          *)
DecompressionAreas ==
    IF decompress_to # 0 THEN {decompress_to} ELSE Places \ Hidden

(* alloc_basemem, install_prealloc: take base memory off the counter,      *)
(* install the program there, decompress the rest into a temporary area,   *)
(* and move it from there to where relocate() wants it.  If that area is   *)
(* hidden, a copy was left there: it is overwritten, and what its handlers *)
(* do from now on is not followed.                                         *)
exec ==
    LET i == Cardinality(Entered) + 1
    IN  /\ i \in Copies
        /\ fbms' = fbms - 1
        /\ base' = [base EXCEPT ![fbms - 1] = i]
        /\ \E temporary \in DecompressionAreas :
              LET place == Relocated(temporary)
              IN  /\ copies' = [copies EXCEPT ![i] =
                                   [Absent EXCEPT !.base = fbms - 1, !.high = place]]
                  /\ high' = [high EXCEPT ![temporary] = Nobody, ![place] = i]
                  /\ at' = <<IF temporary \in Hidden THEN "overwritten"
                                                    ELSE "startup", i>>

(* The BIOS calls the boot execution vector, or POST saw Ctrl-B.           *)
bev_entry ==
    /\ at[1] = "bios"
    /\ exec
    /\ UNCHANGED <<vec, others, decompress_to>>

(* The gate A20 cannot be opened, or a block cannot be decompressed.       *)
install_death ==
    /\ at[1] = "startup"
    /\ at' = <<"halted", 0>>
    /\ UNCHANGED <<vec, others, fbms, copies, base, high, decompress_to>>

FreeThoughHooked(i) == IF fbms = copies[i].base THEN fbms + 1 ELSE fbms

(* Only if the copy is the lowest one and no vector leads to it.           *)
free_basemem(i) ==
    IF fbms = copies[i].base /\ vec.hooked[i] = 0 THEN fbms + 1 ELSE fbms

(* Back to the BIOS.  If its stack was overwritten, that is an INT 18,     *)
(* which RaiseFail includes.                                               *)
uninstall ==
    LET i == at[2]
    IN  /\ at[1] = "uninstall"
        /\ fbms' = free_basemem(i)
        /\ at' = <<"bios", 0>>
        /\ UNCHANGED <<vec, others, copies, base, high, decompress_to>>

-----------------------------------------------------------------------------
(* main *)

(* INT 15 is left alone if the copy is not where exec puts it, below the   *)
(* free base memory: then it has been loaded in another way.               *)
hide_etherboot(v, i) ==
    IF copies[i].base + 1 < fbms THEN v ELSE hook_bios_interrupt(v, i, "15")

(* startup: hide_etherboot, then bios_inject_startup and probe_devices.    *)
startup ==
    LET i == at[2]
    IN  /\ at[1] = "startup"
        /\ vec' = hook_bios_interrupt(hide_etherboot(vec, i), i, "16")
        /\ copies' = [copies EXCEPT ![i].started = TRUE,
                                    ![i].devices = TRUE]
        /\ at' = <<"hook", i>>
        /\ UNCHANGED <<others, fbms, base, high, decompress_to>>

(* int13_hook with drive 0x80.  Registration may fail, and so may reading  *)
(* the boot catalog or the partition table: a negative result ends ipxe(). *)
(* Without scratch memory everything is undone, but the result is 0.       *)
int13_hook ==
    LET i == at[2]
    IN  /\ at[1] = "hook"
        /\ \/ /\ vec' = hook_bios_interrupt(vec, i, "13")
              /\ copies' = [copies EXCEPT ![i].sandev = TRUE,
                                          ![i].keep = @ + 1]
              /\ at' = <<"describe", i>>
           \/ /\ at' \in {<<"describe", i>>, <<"shutdown", i>>}
              /\ UNCHANGED <<vec, copies>>
        /\ UNCHANGED <<others, fbms, base, high, decompress_to>>

(* int13_describe: a table may not fit.                                    *)
int13_describe ==
    /\ at[1] = "describe"
    /\ at' \in {<<"boot", at[2]>>, <<"shutdown", at[2]>>}
    /\ UNCHANGED <<vec, others, fbms, copies, base, high, decompress_to>>

(* int13_boot: neither a master boot record nor an El Torito image, or a   *)
(* jump to the one loaded, with INT 18 and INT 19 hooked.                  *)
int13_boot ==
    LET i == at[2]
    IN  /\ at[1] = "boot"
        /\ \/ /\ at' = <<"shutdown", i>>
              /\ UNCHANGED vec
           \/ /\ vec' = hook_bios_interrupt(
                            hook_bios_interrupt(vec, i, "18"), i, "19")
              /\ at' = <<"bootsector", i>>
        /\ UNCHANGED <<others, fbms, copies, base, high, decompress_to>>

(* The rest of call_bootsector, after an INT 18 or INT 19; every caller    *)
(* up to main returns the error.  A copy whose vectors another program has *)
(* covered may get here again after it has left: it then returns through   *)
(* the same saved stack, which is taken to be as it was.                   *)
bootsector_exec_fail ==
    LET i == at[2]
    IN  /\ at[1] = "fail"
        /\ vec' = unhook_bios_interrupt(
                      unhook_bios_interrupt(vec, i, "18"), i, "19")
        /\ at' = <<"shutdown", i>>
        /\ UNCHANGED <<others, fbms, copies, base, high, decompress_to>>

unhide_etherboot(v, i) ==
    IF v.hooked[i] > 1 THEN v ELSE unhook_bios_interrupt(v, i, "15")

ShutdownInOrder(v, i) ==
    unhook_bios_interrupt(unhide_etherboot(v, i), i, "16")

(* shutdown, in the reverse order of startup: remove_devices and           *)
(* bios_inject_shutdown, and last unhide_etherboot.                        *)
ShutdownVectors(v, i) ==
    unhide_etherboot(unhook_bios_interrupt(v, i, "16"), i)

shutdown ==
    LET i == at[2]
    IN  /\ at[1] = "shutdown"
        /\ IF copies[i].started
           THEN /\ vec' = ShutdownVectors(vec, i)
                /\ copies' = [copies EXCEPT ![i].started = FALSE,
                                            ![i].devices = @ /\ copies[i].keep # 0]
           ELSE UNCHANGED <<vec, copies>>
        /\ at' = <<"uninstall", i>>
        /\ UNCHANGED <<others, fbms, base, high, decompress_to>>

-----------------------------------------------------------------------------
(* The BIOS, the boot sector and what it loads *)

Outside == at[1] \in {"bios", "bootsector"}

(* INT 18 or INT 19 from a boot sector that gives up, or from the BIOS.    *)
(* Handlers of other programs pass it on.                                  *)
RaiseFail(int) ==
    LET h == FailHandler(int)
    IN  /\ Outside
        /\ \/ /\ h[1] = "ipxe"
              /\ at' = <<"fail", h[2]>>
              /\ UNCHANGED <<fbms, copies, base, high>>
           \/ h = Rom /\ exec
           \/ /\ h[1] \in {"bios", "rom"}
              /\ at[1] = "bootsector"
              /\ at' = <<"bios", 0>>
              /\ UNCHANGED <<fbms, copies, base, high>>
        /\ UNCHANGED <<vec, others, decompress_to>>

OtherHooks(int) ==
    /\ Outside
    /\ Len(others) < MaxOthers
    /\ others' = Append(others, [int |-> int, next |-> vec.ivt[int]])
    /\ vec' = [vec EXCEPT !.ivt[int] = Other(Len(others) + 1)]
    /\ UNCHANGED <<fbms, copies, base, high, decompress_to, at>>

OtherUnhooks(int) ==
    /\ Outside
    /\ vec.ivt[int][1] = "other"
    /\ vec' = [vec EXCEPT !.ivt[int] = others[@[2]].next]
    /\ UNCHANGED <<others, fbms, copies, base, high, decompress_to, at>>

UseBaseMemory ==
    /\ Outside
    /\ base' = [u \in DOMAIN base |-> IF u < fbms THEN Nobody ELSE base[u]]
    /\ UNCHANGED <<vec, others, fbms, copies, high, decompress_to, at>>

UseHighMemory ==
    /\ Outside
    /\ high' = [p \in Places |-> IF p \in Hidden THEN high[p] ELSE Nobody]
    /\ UNCHANGED <<vec, others, fbms, copies, base, decompress_to, at>>

Next ==
    \/ RomInit \/ bev_entry \/ install_death \/ uninstall
    \/ startup \/ int13_hook \/ int13_describe \/ int13_boot
    \/ bootsector_exec_fail \/ shutdown
    \/ \E int \in {"18", "19"} : RaiseFail(int)
    \/ \E int \in Ints : OtherHooks(int) \/ OtherUnhooks(int)
    \/ UseBaseMemory \/ UseHighMemory

Spec == Init /\ [][Next]_vars

-----------------------------------------------------------------------------
(* Properties *)

(* Whatever was hooked, unhooked, booted and entered again: a copy that an *)
(* interrupt vector leads to is intact.  Nobody was told that its base or  *)
(* high memory is free, and nobody used it (free_basemem tests             *)
(* hooked_bios_interrupts, unhide_etherboot leaves INT 15 in place while   *)
(* another vector is hooked).  The one exception is the ROM itself: an     *)
(* entry overwrites a copy that has stayed in the block from POST, and no  *)
(* other.  INT 13 finds its SAN device and the device tree it needs        *)
(* (remove_devices looks at device_keep_count).                            *)
HandlersResident ==
    /\ \A int \in Ints : \A i \in Serving(int) :
          /\ base[copies[i].base] = i
          /\ \/ high[copies[i].high] = i
             \/ at[1] = "overwritten" /\ at[2] # i /\ copies[i].high = decompress_to
    /\ \A i \in Serving("13") : copies[i].sandev /\ copies[i].devices

(* A copy that could not hook INT 13 and whose vectors nobody has covered  *)
(* leaves the machine as it found it: vectors, base memory, memory map.    *)
CleanExit ==
    at[1] = "bios" /\ others = <<>> /\ (\A i \in Copies : ~copies[i].sandev)
        => /\ \A int \in Ints : vec.ivt[int] \in {Bios, Rom}
           /\ fbms = BaseTop
           /\ Hidden = {}

=============================================================================
