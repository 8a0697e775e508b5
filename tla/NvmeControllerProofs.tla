------------------------ MODULE NvmeControllerProofs ------------------------
(***************************************************************************)
(* Proofs about NvmeController for every size of the heap: the controller  *)
(* touches only memory that is allocated for its command, an open device   *)
(* is usable, and no identify buffer is lost.                              *)
(***************************************************************************)
EXTENDS NvmeController, TLAPS

Addresses == 0 .. MaxRegions + 1

Uses == {"free", "ctrl", "admin_cq", "admin_sq", "io_cq", "io_sq", "identify",
         "dma_buffer", "ns"}

Ctrls == [admin_cq : Addresses, admin_sq : Addresses,
          io_cq : Addresses, io_sq : Addresses, ns : Addresses]

Commands == [op : {"none", "identify", "create_cq", "create_sq", "read"},
             prp : Addresses]

Hws == [en : BOOLEAN, rdy : BOOLEAN, asq : Addresses, acq : Addresses,
        sq : Addresses, cq : Addresses, io_cq : Addresses, io_sq : Addresses,
        cmd : Commands, status : {"none", "success", "failure"},
        stray : BOOLEAN]

Types ==
    /\ pc \in {"closed", "disable", "admin_cq", "admin_sq", "identify",
               "identified", "io_cq", "io_sq", "io_queues", "probe", "open",
               "reading"}
    /\ mem \in [Regions -> Uses]
    /\ ctrl \in Ctrls
    /\ id \in Pointers
    /\ dma_buffer \in Pointers
    /\ hw \in Hws

Owned(p, use) == p \in Regions /\ mem[p] = use

(* The admin queues, from the moment the controller is told of them.       *)
Admin ==
    /\ hw.en = TRUE
    /\ Owned(ctrl.admin_cq, "admin_cq") /\ hw.acq = ctrl.admin_cq
    /\ Owned(ctrl.admin_sq, "admin_sq") /\ hw.asq = ctrl.admin_sq
    /\ hw.rdy = TRUE => hw.cq = ctrl.admin_cq /\ hw.sq = ctrl.admin_sq

IoCq == Owned(ctrl.io_cq, "io_cq")
IoSq == Owned(ctrl.io_sq, "io_sq")
IoKnown == hw.io_cq = ctrl.io_cq /\ hw.io_sq = ctrl.io_sq

NoIdentify == \A r \in Regions : mem[r] # "identify"
OneIdentify == /\ Owned(id, "identify")
               /\ \A r \in Regions : mem[r] = "identify" => r = id

Quiet == hw.cmd = NoCommand

(* A command is with the controller, or has been answered.                 *)
Pending(op, prp) ==
    \/ hw.cmd = [op |-> op, prp |-> prp] /\ hw.status = "none"
    \/ hw.cmd = NoCommand /\ hw.status # "none"

Namespace ==
    ctrl.ns \in Regions => Owned(ctrl.ns, "ns") /\ Owned(dma_buffer, "dma_buffer")

(* How far the driver has got, and what it can rely on there.              *)
Stage ==
    /\ pc \in {"closed", "disable", "admin_cq", "admin_sq", "identify", "io_cq",
               "open"} => NoIdentify /\ Quiet
    /\ pc \in {"io_sq", "io_queues", "reading"} => NoIdentify
    /\ pc \in {"identified", "probe"} => OneIdentify /\ Pending("identify", id)
    /\ pc \in {"admin_cq", "admin_sq"} => hw.en = FALSE
    /\ pc = "admin_sq" => hw.rdy = FALSE /\ Owned(ctrl.admin_cq, "admin_cq")
    /\ pc \in {"identify", "identified", "io_cq", "io_sq", "io_queues", "probe",
               "open", "reading"} => Admin
    /\ pc \in {"identified", "io_cq", "io_sq", "io_queues", "probe", "open",
               "reading"} => hw.rdy = TRUE
    /\ pc = "io_sq" => /\ IoCq /\ Pending("create_cq", ctrl.io_cq)
                       /\ hw.status = "success" => hw.io_cq = ctrl.io_cq
    /\ pc = "io_queues" => /\ IoCq /\ IoSq /\ hw.io_cq = ctrl.io_cq
                           /\ Pending("create_sq", ctrl.io_sq)
                           /\ hw.status = "success" => hw.io_sq = ctrl.io_sq
    /\ pc \in {"probe", "open", "reading"} => IoCq /\ IoSq /\ IoKnown
    /\ pc \in {"disable", "admin_cq", "admin_sq", "identify", "identified",
               "io_cq", "io_sq", "io_queues", "probe"} => ctrl.ns = Unset
    /\ pc \in {"open", "reading"} => Namespace
    /\ pc = "reading" => ctrl.ns \in Regions /\ Pending("read", dma_buffer)

CInv ==
    /\ Types
    /\ Stage
    /\ dma_buffer # NULL => mem[dma_buffer] = "dma_buffer"
    /\ hw.stray = FALSE

(* What is invariant: CInv, until the driver does what has no defined      *)
(* outcome.                                                                *)
Safe == pc = "undefined" \/ CInv

-----------------------------------------------------------------------------
(* Memory *)

LEMMA AddressFacts ==
    /\ NULL \in Addresses /\ Unset \in Addresses
    /\ \A p \in Pointers : p \in Addresses /\ (p # NULL => p \in Regions)
    /\ \A r \in Regions : r \in Pointers /\ r \in Addresses
    /\ NULL \notin Regions /\ Unset \notin Regions /\ NULL \in Pointers
BY RegionsAssumption DEF Regions, NULL, Pointers, Unset, Addresses

(* What an allocation changes: nothing, or one region that was free.       *)
LEMMA AllocationIsFresh ==
    ASSUME mem \in [Regions -> Uses], NEW p \in Allocations, NEW use \in Uses
    PROVE  /\ Marked(mem, p, use) \in [Regions -> Uses]
           /\ p \in Pointers /\ p \in Addresses
           /\ p # NULL => /\ p \in Regions
                          /\ mem[p] = "free"
                          /\ Marked(mem, p, use)[p] = use
           /\ \A r \in Regions : r # p => Marked(mem, p, use)[r] = mem[r]
BY AddressFacts DEF Allocations, FreeRegions, Marked

(* What a release changes: the one region, if it is one.                   *)
LEMMA ReleaseIsLocal ==
    ASSUME NEW m \in [Regions -> Uses], NEW p
    PROVE  /\ Released(m, p) \in [Regions -> Uses]
           /\ \A r \in Regions :
                 Released(m, p)[r] = IF r = p THEN "free" ELSE m[r]
BY DEF Released, Uses

LEMMA InitCInv == Init => CInv
<1> SUFFICES ASSUME Init PROVE CInv
  OBVIOUS
<1>1. Types
  BY AddressFacts DEF Init, Types, Uses, Ctrls, Hws, Commands, NoCommand
<1>2. Stage
  BY DEF Init, Stage, NoIdentify, Quiet
<1> QED BY <1>1, <1>2 DEF Init, CInv

-----------------------------------------------------------------------------
(* Opening, up to the first command *)

LEMMA OpenStep == CInv /\ nvme_open_uri => Safe'
<1> SUFFICES ASSUME CInv, nvme_open_uri, pc' # "undefined" PROVE CInv'
  BY DEF Safe
<1>1. Types /\ Stage BY DEF CInv
<1>2. PICK p \in Allocations : /\ mem' = Marked(mem, p, "ctrl")
                               /\ pc' \in {"closed", "disable"}
  BY DEF nvme_open_uri, Undefined
<1>3. /\ mem' \in [Regions -> Uses]
      /\ \A r \in Regions : r # p => mem'[r] = mem[r]
      /\ p # NULL => p \in Regions /\ mem[p] = "free" /\ mem'[p] = "ctrl"
  BY <1>1, <1>2, AllocationIsFresh DEF Types, Uses
<1>4. /\ pc = "closed" /\ pc' \in {"closed", "disable"}
      /\ UNCHANGED <<id, dma_buffer, hw>>
      /\ ctrl' = [admin_cq |-> Unset, admin_sq |-> Unset,
                  io_cq |-> Unset, io_sq |-> Unset, ns |-> Unset]
  BY <1>2 DEF nvme_open_uri
<1>5. Types' /\ ctrl'.ns = Unset
  BY <1>1, <1>3, <1>4, AddressFacts DEF Types, Ctrls
<1>6. NoIdentify /\ Quiet
  BY <1>1, <1>4 DEF Stage
<1>7. Stage'
  <2>1. NoIdentify'
    BY <1>3, <1>6, AddressFacts DEF NoIdentify
  <2>2. Quiet'
    BY <1>4, <1>6 DEF Quiet
  <2> QED BY <1>4, <1>5, <2>1, <2>2 DEF Stage
<1>8. dma_buffer' # NULL => mem'[dma_buffer'] = "dma_buffer"
  BY <1>1, <1>3, <1>4, AddressFacts DEF CInv, Types
<1> QED BY <1>4, <1>5, <1>7, <1>8 DEF CInv

LEMMA DisableStep == CInv /\ Disable => CInv'
<1> SUFFICES ASSUME CInv, Disable PROVE CInv'
  OBVIOUS
<1>1. Types /\ Stage BY DEF CInv
<1>2. /\ pc = "disable" /\ pc' = "admin_cq"
      /\ hw' = [hw EXCEPT !.en = FALSE]
      /\ UNCHANGED <<mem, ctrl, id, dma_buffer>>
  BY DEF Disable
<1>3. /\ hw' \in Hws
      /\ hw'.en = FALSE /\ hw'.cmd = hw.cmd /\ hw'.stray = hw.stray
  BY <1>1, <1>2 DEF Types, Hws
<1>4. Types'
  BY <1>1, <1>2, <1>3 DEF Types
<1>5. NoIdentify /\ Quiet /\ ctrl.ns = Unset
  BY <1>1, <1>2 DEF Stage
<1>6. Stage'
  BY <1>2, <1>3, <1>5 DEF Stage, NoIdentify, Quiet
<1> QED BY <1>2, <1>3, <1>4, <1>6 DEF CInv

LEMMA InitAdminCqStep == CInv /\ InitAdminCq => Safe'
<1> SUFFICES ASSUME CInv, InitAdminCq, pc' # "undefined" PROVE CInv'
  BY DEF Safe
<1>1. Types /\ Stage BY DEF CInv
<1>2. PICK p \in Allocations :
         /\ p # NULL
         /\ mem' = Marked(mem, p, "admin_cq")
         /\ ctrl' = [ctrl EXCEPT !.admin_cq = p]
         /\ pc' = "admin_sq"
  BY DEF InitAdminCq, InitQueue, Undefined
<1>3. /\ mem' \in [Regions -> Uses] /\ p \in Addresses
      /\ \A r \in Regions : r # p => mem'[r] = mem[r]
      /\ p # NULL => p \in Regions /\ mem[p] = "free" /\ mem'[p] = "admin_cq"
  BY <1>1, <1>2, AllocationIsFresh DEF Types, Uses
<1>4. pc = "admin_cq" /\ ~hw.rdy /\ UNCHANGED <<id, dma_buffer, hw>>
  BY DEF InitAdminCq
<1>5. hw.rdy = FALSE
  BY <1>1, <1>4 DEF Types, Hws
<1>6. ctrl' \in Ctrls /\ ctrl'.admin_cq = p /\ ctrl'.ns = ctrl.ns
  BY <1>1, <1>2, <1>3 DEF Types, Ctrls
<1>7. Types'
  BY <1>1, <1>2, <1>3, <1>4, <1>6 DEF Types
<1>8. NoIdentify /\ Quiet /\ ctrl.ns = Unset /\ hw.en = FALSE
  BY <1>1, <1>4 DEF Stage
<1>9. Stage'
  <2>1. NoIdentify'
    BY <1>3, <1>8, AddressFacts DEF NoIdentify
  <2>2. Quiet'
    BY <1>4, <1>8 DEF Quiet
  <2>3. p # NULL => Owned(ctrl.admin_cq, "admin_cq")'
    BY <1>3, <1>6 DEF Owned
  <2> QED BY <1>2, <1>4, <1>5, <1>6, <1>8, <2>1, <2>2, <2>3 DEF Stage
<1>10. dma_buffer' # NULL => mem'[dma_buffer'] = "dma_buffer"
  BY <1>1, <1>3, <1>4, AddressFacts DEF CInv, Types
<1> QED BY <1>4, <1>7, <1>9, <1>10 DEF CInv

LEMMA InitAdminSqStep == CInv /\ InitAdminSq => Safe'
<1> SUFFICES ASSUME CInv, InitAdminSq, pc' # "undefined" PROVE CInv'
  BY DEF Safe
<1>1. Types /\ Stage BY DEF CInv
<1>2. pc = "admin_sq" /\ UNCHANGED <<id, dma_buffer>>
  BY DEF InitAdminSq
<1>3. /\ NoIdentify /\ Quiet /\ ctrl.ns = Unset
      /\ Owned(ctrl.admin_cq, "admin_cq") /\ hw.en = FALSE /\ hw.rdy = FALSE
  BY <1>1, <1>2 DEF Stage
<1>b. ASSUME NEW p \in Allocations, p # NULL,
             mem' = Marked(mem, p, "admin_sq"),
             ctrl' = [ctrl EXCEPT !.admin_sq = p],
             hw' = [hw EXCEPT !.asq = p, !.acq = ctrl.admin_cq, !.en = TRUE],
             pc' = "identify"
      PROVE  CInv'
  <2>1. /\ mem' \in [Regions -> Uses] /\ p \in Addresses
        /\ \A r \in Regions : r # p => mem'[r] = mem[r]
        /\ p \in Regions /\ mem[p] = "free" /\ mem'[p] = "admin_sq"
    BY <1>1, <1>b, AllocationIsFresh DEF Types, Uses
  <2>2. /\ ctrl' \in Ctrls /\ ctrl.admin_cq \in Addresses
        /\ ctrl'.admin_sq = p /\ ctrl'.admin_cq = ctrl.admin_cq
        /\ ctrl'.ns = ctrl.ns
    BY <1>1, <1>b, <2>1 DEF Types, Ctrls
  <2>3. /\ hw' \in Hws
        /\ hw'.asq = p /\ hw'.acq = ctrl.admin_cq /\ hw'.en = TRUE
        /\ hw'.rdy = hw.rdy /\ hw'.cmd = hw.cmd /\ hw'.stray = hw.stray
    BY <1>1, <1>b, <2>1, <2>2 DEF Types, Hws
  <2>4. Types'
    BY <1>1, <1>2, <1>b, <2>1, <2>2, <2>3 DEF Types
  <2>5. Admin'
    BY <1>3, <2>1, <2>2, <2>3 DEF Admin, Owned
  <2>6. Stage'
    BY <1>3, <1>b, <2>1, <2>2, <2>3, <2>5 DEF Stage, NoIdentify, Quiet
  <2>7. dma_buffer' # NULL => mem'[dma_buffer'] = "dma_buffer"
    BY <1>1, <1>2, <2>1, AddressFacts DEF CInv, Types
  <2> QED BY <2>3, <2>4, <2>6, <2>7 DEF CInv
<1> QED BY <1>b DEF InitAdminSq, InitQueue, Undefined

-----------------------------------------------------------------------------
(* The admin commands *)

(* What Submit changes.                                                    *)
LEMMA SubmitStep ==
    ASSUME Types, NEW op \in {"identify", "create_cq", "create_sq", "read"},
           NEW prp \in Addresses, Submit(op, prp)
    PROVE  /\ hw' \in Hws
           /\ hw'.cmd = [op |-> op, prp |-> prp] /\ hw'.status = "none"
           /\ hw'.en = hw.en /\ hw'.rdy = hw.rdy /\ hw'.stray = hw.stray
           /\ hw'.asq = hw.asq /\ hw'.acq = hw.acq
           /\ hw'.sq = hw.sq /\ hw'.cq = hw.cq
           /\ hw'.io_cq = hw.io_cq /\ hw'.io_sq = hw.io_sq
<1>1. [op |-> op, prp |-> prp] \in Commands
  BY DEF Commands
<1>2. hw' = [hw EXCEPT !.cmd = [op |-> op, prp |-> prp], !.status = "none"]
  BY DEF Submit
<1> QED BY <1>1, <1>2 DEF Types, Hws

(* A driver step that starts a command with a buffer of its own.           *)
LEMMA IdentifyStep ==
    ASSUME CInv, Admin, hw.rdy = TRUE, NoIdentify, ctrl.ns = Unset,
           NEW p \in Allocations, p # NULL,
           mem' = Marked(mem, p, "identify"), id' = p, Submit("identify", p),
           \/ pc' = "identified"
           \/ pc' = "probe" /\ IoCq /\ IoSq /\ IoKnown,
           UNCHANGED <<ctrl, dma_buffer>>
    PROVE  CInv'
<1>1. Types BY DEF CInv
<1>2. /\ mem' \in [Regions -> Uses] /\ p \in Addresses /\ p \in Pointers
      /\ \A r \in Regions : r # p => mem'[r] = mem[r]
      /\ p \in Regions /\ mem[p] = "free" /\ mem'[p] = "identify"
  BY <1>1, AllocationIsFresh DEF Types, Uses
<1>3. /\ hw' \in Hws
      /\ hw'.cmd = [op |-> "identify", prp |-> p] /\ hw'.status = "none"
      /\ hw'.en = hw.en /\ hw'.rdy = hw.rdy /\ hw'.stray = hw.stray
      /\ hw'.asq = hw.asq /\ hw'.acq = hw.acq
      /\ hw'.sq = hw.sq /\ hw'.cq = hw.cq
      /\ hw'.io_cq = hw.io_cq /\ hw'.io_sq = hw.io_sq
  BY <1>1, <1>2, SubmitStep
<1>4. Types'
  BY <1>1, <1>2, <1>3 DEF Types
<1>5. Admin'
  BY <1>2, <1>3 DEF Admin, Owned
<1>6. OneIdentify' /\ Pending("identify", id)'
  BY <1>2, <1>3 DEF OneIdentify, Owned, NoIdentify, Pending
<1>7. (IoCq /\ IoSq /\ IoKnown) => (IoCq /\ IoSq /\ IoKnown)'
  BY <1>2, <1>3 DEF IoCq, IoSq, IoKnown, Owned
<1>8. Stage'
  BY <1>3, <1>5, <1>6, <1>7 DEF Stage
<1>9. dma_buffer' # NULL => mem'[dma_buffer'] = "dma_buffer"
  BY <1>1, <1>2, AddressFacts DEF CInv, Types
<1> QED BY <1>3, <1>4, <1>8, <1>9 DEF CInv

LEMMA IdentifyCtrlStep == CInv /\ IdentifyCtrl => Safe'
<1> SUFFICES ASSUME CInv, IdentifyCtrl, pc' # "undefined" PROVE CInv'
  BY DEF Safe
<1>1. Types /\ Stage BY DEF CInv
<1>2. pc = "identify" /\ hw.rdy /\ UNCHANGED dma_buffer
  BY DEF IdentifyCtrl
<1>3. NoIdentify /\ Quiet /\ Admin /\ ctrl.ns = Unset
  BY <1>1, <1>2 DEF Stage
<1>4. hw.rdy = TRUE /\ hw.stray = FALSE
  BY <1>1, <1>2 DEF Types, Hws, CInv
<1>b. ASSUME NEW p \in Allocations, p # NULL,
             mem' = Marked(mem, p, "identify"), id' = p,
             Submit("identify", p), pc' = "identified", UNCHANGED ctrl
      PROVE  CInv'
  BY <1>2, <1>3, <1>4, <1>b, IdentifyStep
<1> QED BY <1>b DEF IdentifyCtrl, EnableFailed, FreeQueue, Undefined

(* An answered command leaves none with the controller.                    *)
LEMMA CompletedIsQuiet ==
    ASSUME NEW op, NEW prp, Pending(op, prp), Completed
    PROVE  Quiet
BY DEF Pending, Completed, Quiet

LEMMA IdentifyCtrlDoneStep == CInv /\ IdentifyCtrlDone => Safe'
<1> SUFFICES ASSUME CInv, IdentifyCtrlDone, pc' # "undefined" PROVE CInv'
  BY DEF Safe
<1>1. Types /\ Stage BY DEF CInv
<1>2. /\ pc = "identified" /\ Completed /\ id' = NULL
      /\ UNCHANGED <<dma_buffer, hw>>
  BY DEF IdentifyCtrlDone
<1>3. /\ OneIdentify /\ Pending("identify", id) /\ Admin /\ ctrl.ns = Unset
      /\ hw.rdy = TRUE
  BY <1>1, <1>2 DEF Stage
<1>4. Quiet
  BY <1>2, <1>3, CompletedIsQuiet
<1>5. id \in Regions /\ mem[id] = "identify"
  BY <1>3 DEF OneIdentify, Owned
<1>6. /\ Released(mem, id) \in [Regions -> Uses]
      /\ \A r \in Regions :
            Released(mem, id)[r] = IF r = id THEN "free" ELSE mem[r]
  BY <1>1, ReleaseIsLocal DEF Types
<1>7. \A r \in Regions : Released(mem, id)[r] # "identify"
  BY <1>3, <1>6 DEF OneIdentify
<1>8. /\ ctrl.admin_cq \in Regions /\ ctrl.admin_sq \in Regions
      /\ Released(mem, id)[ctrl.admin_cq] = "admin_cq"
      /\ Released(mem, id)[ctrl.admin_sq] = "admin_sq"
  BY <1>3, <1>5, <1>6 DEF Admin, Owned
<1>9. dma_buffer # NULL => Released(mem, id)[dma_buffer] = "dma_buffer"
  BY <1>1, <1>5, <1>6, AddressFacts DEF CInv, Types
<1>10. id' \in Pointers
  BY <1>2, AddressFacts
<1>b. CASE mem' = Released(mem, id) /\ pc' = "io_cq" /\ UNCHANGED ctrl
  <2>1. Types'
    BY <1>1, <1>2, <1>6, <1>10, <1>b DEF Types
  <2>2. NoIdentify' /\ Quiet'
    BY <1>2, <1>4, <1>7, <1>b DEF NoIdentify, Quiet
  <2>3. Admin'
    BY <1>2, <1>3, <1>8, <1>b DEF Admin, Owned
  <2>4. Stage'
    BY <1>2, <1>3, <1>b, <2>2, <2>3 DEF Stage
  <2> QED BY <1>2, <1>9, <1>b, <2>1, <2>4 DEF CInv
<1> QED BY <1>b DEF IdentifyCtrlDone, EnableFailed, FreeQueue, Undefined

-----------------------------------------------------------------------------
(* The I/O queues *)

LEMMA CreateIoCqStep == CInv /\ nvme_create_io_cq => Safe'
<1> SUFFICES ASSUME CInv, nvme_create_io_cq, pc' # "undefined" PROVE CInv'
  BY DEF Safe
<1>1. Types /\ Stage BY DEF CInv
<1>2. pc = "io_cq" /\ UNCHANGED <<id, dma_buffer>>
  BY DEF nvme_create_io_cq
<1>3. NoIdentify /\ Quiet /\ Admin /\ hw.rdy = TRUE /\ ctrl.ns = Unset
  BY <1>1, <1>2 DEF Stage
<1>b. ASSUME NEW p \in Allocations, p # NULL,
             mem' = Marked(mem, p, "io_cq"), ctrl' = [ctrl EXCEPT !.io_cq = p],
             Submit("create_cq", p), pc' = "io_sq"
      PROVE  CInv'
  <2>1. /\ mem' \in [Regions -> Uses] /\ p \in Addresses
        /\ \A r \in Regions : r # p => mem'[r] = mem[r]
        /\ p \in Regions /\ mem[p] = "free" /\ mem'[p] = "io_cq"
    BY <1>1, <1>b, AllocationIsFresh DEF Types, Uses
  <2>2. /\ ctrl' \in Ctrls /\ ctrl'.io_cq = p /\ ctrl'.ns = ctrl.ns
        /\ ctrl'.admin_cq = ctrl.admin_cq /\ ctrl'.admin_sq = ctrl.admin_sq
    BY <1>1, <1>b, <2>1 DEF Types, Ctrls
  <2>3. /\ hw' \in Hws
        /\ hw'.cmd = [op |-> "create_cq", prp |-> p] /\ hw'.status = "none"
        /\ hw'.en = hw.en /\ hw'.rdy = hw.rdy /\ hw'.stray = hw.stray
        /\ hw'.asq = hw.asq /\ hw'.acq = hw.acq
        /\ hw'.sq = hw.sq /\ hw'.cq = hw.cq
    BY <1>1, <1>b, <2>1, SubmitStep
  <2>4. Types'
    BY <1>1, <1>2, <1>b, <2>1, <2>2, <2>3 DEF Types
  <2>5. Admin' /\ NoIdentify' /\ IoCq'
    BY <1>3, <2>1, <2>2, <2>3 DEF Admin, Owned, NoIdentify, IoCq
  <2>6. Pending("create_cq", ctrl.io_cq)'
    BY <2>2, <2>3 DEF Pending
  <2>7. Stage'
    BY <1>3, <1>b, <2>2, <2>3, <2>5, <2>6 DEF Stage
  <2>8. dma_buffer' # NULL => mem'[dma_buffer'] = "dma_buffer"
    BY <1>1, <1>2, <2>1, AddressFacts DEF CInv, Types
  <2> QED BY <2>3, <2>4, <2>7, <2>8 DEF CInv
<1> QED BY <1>b DEF nvme_create_io_cq, InitQueue, Undefined

LEMMA CreateIoSqStep == CInv /\ nvme_create_io_sq => Safe'
<1> SUFFICES ASSUME CInv, nvme_create_io_sq, pc' # "undefined" PROVE CInv'
  BY DEF Safe
<1>1. Types /\ Stage BY DEF CInv
<1>2. pc = "io_sq" /\ Completed /\ UNCHANGED <<id, dma_buffer>>
  BY DEF nvme_create_io_sq
<1>3. /\ NoIdentify /\ Admin /\ hw.rdy = TRUE /\ ctrl.ns = Unset /\ IoCq
      /\ Pending("create_cq", ctrl.io_cq)
      /\ hw.status = "success" => hw.io_cq = ctrl.io_cq
  BY <1>1, <1>2 DEF Stage
<1>4. Quiet
  BY <1>2, <1>3, CompletedIsQuiet
<1>b. ASSUME Succeeded, NEW p \in Allocations, p # NULL,
             mem' = Marked(mem, p, "io_sq"), ctrl' = [ctrl EXCEPT !.io_sq = p],
             Submit("create_sq", p), pc' = "io_queues"
      PROVE  CInv'
  <2>1. /\ mem' \in [Regions -> Uses] /\ p \in Addresses
        /\ \A r \in Regions : r # p => mem'[r] = mem[r]
        /\ p \in Regions /\ mem[p] = "free" /\ mem'[p] = "io_sq"
    BY <1>1, <1>b, AllocationIsFresh DEF Types, Uses
  <2>2. /\ ctrl' \in Ctrls /\ ctrl'.io_sq = p /\ ctrl'.ns = ctrl.ns
        /\ ctrl'.io_cq = ctrl.io_cq
        /\ ctrl'.admin_cq = ctrl.admin_cq /\ ctrl'.admin_sq = ctrl.admin_sq
    BY <1>1, <1>b, <2>1 DEF Types, Ctrls
  <2>3. /\ hw' \in Hws
        /\ hw'.cmd = [op |-> "create_sq", prp |-> p] /\ hw'.status = "none"
        /\ hw'.en = hw.en /\ hw'.rdy = hw.rdy /\ hw'.stray = hw.stray
        /\ hw'.asq = hw.asq /\ hw'.acq = hw.acq
        /\ hw'.sq = hw.sq /\ hw'.cq = hw.cq /\ hw'.io_cq = hw.io_cq
    BY <1>1, <1>b, <2>1, SubmitStep
  <2>4. Types'
    BY <1>1, <1>2, <1>b, <2>1, <2>2, <2>3 DEF Types
  <2>5. Admin' /\ NoIdentify' /\ IoCq' /\ IoSq'
    <3>1. Admin'
      BY <1>3, <2>1, <2>2, <2>3, SMTT(30) DEF Admin, Owned
    <3>2. NoIdentify' /\ IoCq' /\ IoSq'
      BY <1>3, <2>1, <2>2 DEF Owned, NoIdentify, IoCq, IoSq
    <3> QED BY <3>1, <3>2
  <2>6. Pending("create_sq", ctrl.io_sq)' /\ hw'.io_cq = ctrl'.io_cq
    BY <1>3, <1>b, <2>2, <2>3 DEF Pending, Succeeded
  <2>7. Stage'
    BY <1>3, <1>b, <2>2, <2>3, <2>5, <2>6 DEF Stage
  <2>8. dma_buffer' # NULL => mem'[dma_buffer'] = "dma_buffer"
    BY <1>1, <1>2, <2>1, AddressFacts DEF CInv, Types
  <2> QED BY <2>3, <2>4, <2>7, <2>8 DEF CInv
<1> QED BY <1>b DEF nvme_create_io_sq, InitQueue, EnableFailed, FreeQueue, Undefined

-----------------------------------------------------------------------------
(* The namespace *)

LEMMA ProbeNsStep == CInv /\ nvme_probe_ns => Safe'
<1> SUFFICES ASSUME CInv, nvme_probe_ns, pc' # "undefined" PROVE CInv'
  BY DEF Safe
<1>1. Types /\ Stage BY DEF CInv
<1>2. pc = "io_queues" /\ Completed /\ UNCHANGED dma_buffer
  BY DEF nvme_probe_ns
<1>3. /\ NoIdentify /\ Admin /\ hw.rdy = TRUE /\ ctrl.ns = Unset
      /\ IoCq /\ IoSq /\ hw.io_cq = ctrl.io_cq
      /\ Pending("create_sq", ctrl.io_sq)
      /\ hw.status = "success" => hw.io_sq = ctrl.io_sq
  BY <1>1, <1>2 DEF Stage
<1>4. Quiet
  BY <1>2, <1>3, CompletedIsQuiet
<1>5. Succeeded => IoKnown
  BY <1>3 DEF Succeeded, IoKnown
<1>b. ASSUME Succeeded, pc' = "open", UNCHANGED <<mem, id, hw, ctrl>>
      PROVE  CInv'
  <2>1. Types'
    BY <1>1, <1>2, <1>b DEF Types
  <2>2. NoIdentify' /\ Quiet' /\ Admin' /\ IoCq' /\ IoSq' /\ IoKnown'
    BY <1>3, <1>4, <1>5, <1>b
       DEF NoIdentify, Quiet, Admin, IoCq, IoSq, IoKnown, Owned
  <2>3. Namespace'
    BY <1>3, <1>b, AddressFacts DEF Namespace
  <2>4. Stage'
    BY <1>3, <1>b, <2>2, <2>3 DEF Stage
  <2> QED BY <1>2, <1>b, <2>1, <2>4 DEF CInv
<1>c. ASSUME Succeeded, NEW p \in Allocations, p # NULL,
             mem' = Marked(mem, p, "identify"), id' = p,
             Submit("identify", p), pc' = "probe", UNCHANGED ctrl
      PROVE  CInv'
  BY <1>2, <1>3, <1>5, <1>c, IdentifyStep
<1> QED BY <1>b, <1>c DEF nvme_probe_ns, EnableFailed, FreeQueue, Undefined

(* However nvme_probe_ns ends: k is the memory after what it allocated and *)
(* before it releases the identify buffer.                                 *)
LEMMA ProbeEnds ==
    ASSUME CInv, pc = "probe", Completed, pc' = "open", id' = NULL, UNCHANGED hw,
           NEW k \in [Regions -> Uses], mem' = Released(k, id),
           \A r \in Regions : mem[r] # "free" => k[r] = mem[r],
           \A r \in Regions : k[r] = "identify" => r = id,
           ctrl' \in Ctrls,
           ctrl'.admin_cq = ctrl.admin_cq, ctrl'.admin_sq = ctrl.admin_sq,
           ctrl'.io_cq = ctrl.io_cq, ctrl'.io_sq = ctrl.io_sq,
           dma_buffer' \in Pointers,
           dma_buffer' # NULL => k[dma_buffer'] = "dma_buffer",
           ctrl'.ns \in Regions => k[ctrl'.ns] = "ns" /\ dma_buffer' # NULL
    PROVE  CInv'
<1>1. Types /\ Stage BY DEF CInv
<1>2. /\ OneIdentify /\ Pending("identify", id) /\ Admin /\ hw.rdy = TRUE
      /\ IoCq /\ IoSq /\ IoKnown
  BY <1>1 DEF Stage
<1>3. Quiet
  BY <1>2, CompletedIsQuiet
<1>4. id \in Regions /\ mem[id] = "identify" /\ k[id] = "identify"
  BY <1>2 DEF OneIdentify, Owned
<1>5. /\ mem' \in [Regions -> Uses]
      /\ \A r \in Regions : mem'[r] = IF r = id THEN "free" ELSE k[r]
  BY ReleaseIsLocal
<1>6. Types'
  BY <1>1, <1>5, AddressFacts DEF Types
<1>7. NoIdentify' /\ Quiet'
  BY <1>3, <1>5 DEF NoIdentify, Quiet
<1>8. Admin'
  BY <1>2, <1>4, <1>5, SMTT(30) DEF Admin, Owned
<1>9. IoCq' /\ IoSq' /\ IoKnown'
  BY <1>2, <1>4, <1>5, SMTT(30) DEF IoCq, IoSq, IoKnown, Owned
<1>10. dma_buffer' # NULL => Owned(dma_buffer, "dma_buffer")'
  BY <1>4, <1>5, AddressFacts DEF Owned
<1>11. Namespace'
  BY <1>4, <1>5, <1>10 DEF Namespace, Owned
<1>12. Stage'
  BY <1>2, <1>7, <1>8, <1>9, <1>11 DEF Stage
<1> QED BY <1>1, <1>6, <1>10, <1>12 DEF CInv, Owned

LEMMA ProbeNsDoneStep == CInv /\ ProbeNsDone => CInv'
<1> SUFFICES ASSUME CInv, ProbeNsDone PROVE CInv'
  OBVIOUS
<1>1. Types /\ Stage BY DEF CInv
<1>2. /\ pc = "probe" /\ Completed /\ pc' = "open" /\ id' = NULL
      /\ UNCHANGED hw
  BY DEF ProbeNsDone
<1>3. OneIdentify /\ ctrl.ns = Unset
  BY <1>1, <1>2 DEF Stage
<1>4. /\ mem \in [Regions -> Uses] /\ ctrl \in Ctrls /\ dma_buffer \in Pointers
      /\ \A r \in Regions : mem[r] = "identify" => r = id
      /\ ctrl.ns \notin Regions
      /\ dma_buffer # NULL => mem[dma_buffer] = "dma_buffer"
  BY <1>1, <1>3, AddressFacts DEF Types, OneIdentify, CInv
<1>a. CASE mem' = Released(mem, id) /\ UNCHANGED <<ctrl, dma_buffer>>
  BY <1>2, <1>4, <1>a, ProbeEnds
<1>b. ASSUME NEW b \in IF dma_buffer = NULL THEN Allocations \ {NULL}
                       ELSE {dma_buffer},
             dma_buffer' = b,
             \/ mem' = Released(Marked(mem, b, "dma_buffer"), id) /\ UNCHANGED ctrl
             \/ \E n \in {r \in Regions :
                             Marked(mem, b, "dma_buffer")[r] = "free"} :
                   /\ mem' = Released(Marked(Marked(mem, b, "dma_buffer"), n, "ns"),
                                      id)
                   /\ ctrl' = [ctrl EXCEPT !.ns = n]
      PROVE  CInv'
  <2> DEFINE m == Marked(mem, b, "dma_buffer")
  <2>1. /\ b \in Regions /\ b \in Pointers /\ b # NULL
        /\ mem[b] \in {"free", "dma_buffer"}
    <3>1. CASE dma_buffer = NULL
      BY <1>4, <1>b, <3>1, AllocationIsFresh, AddressFacts DEF Allocations,
         FreeRegions
    <3>2. CASE dma_buffer # NULL
      BY <1>4, <1>b, <3>2, AddressFacts
    <3> QED BY <3>1, <3>2
  <2>2. /\ m \in [Regions -> Uses]
        /\ \A r \in Regions : m[r] = IF r = b THEN "dma_buffer" ELSE mem[r]
    BY <1>4, <2>1 DEF Marked, Uses
  <2>a. CASE mem' = Released(m, id) /\ UNCHANGED ctrl
    <3> HIDE DEF m
    <3>1. /\ \A r \in Regions : mem[r] # "free" => m[r] = mem[r]
          /\ \A r \in Regions : m[r] = "identify" => r = id
          /\ m[b] = "dma_buffer"
      BY <1>4, <2>1, <2>2
    <3> QED BY <1>2, <1>4, <1>b, <2>1, <2>2, <2>a, <3>1, ProbeEnds
  <2>b. ASSUME NEW n \in Regions, m[n] = "free",
               mem' = Released(Marked(m, n, "ns"), id),
               ctrl' = [ctrl EXCEPT !.ns = n]
        PROVE  CInv'
    <3> DEFINE k == Marked(m, n, "ns")
    <3>1. mem' = Released(k, id)
      BY <2>b
    <3> HIDE DEF m
    <3>2. /\ k \in [Regions -> Uses]
          /\ \A r \in Regions : k[r] = IF r = n THEN "ns" ELSE m[r]
      BY <2>2, AddressFacts DEF Marked, Uses
    <3> HIDE DEF k
    <3>3. /\ \A r \in Regions : mem[r] # "free" => k[r] = mem[r]
          /\ \A r \in Regions : k[r] = "identify" => r = id
          /\ k[b] = "dma_buffer" /\ k[n] = "ns"
      BY <1>4, <2>1, <2>2, <2>b, <3>2
    <3>4. /\ ctrl' \in Ctrls /\ ctrl'.ns = n
          /\ ctrl'.admin_cq = ctrl.admin_cq /\ ctrl'.admin_sq = ctrl.admin_sq
          /\ ctrl'.io_cq = ctrl.io_cq /\ ctrl'.io_sq = ctrl.io_sq
      BY <1>4, <2>b, AddressFacts DEF Ctrls
    <3> QED BY <1>2, <1>b, <2>1, <3>1, <3>2, <3>3, <3>4, ProbeEnds
  <2> QED BY <1>b, <2>a, <2>b
<1> QED BY <1>a, <1>b DEF ProbeNsDone

-----------------------------------------------------------------------------
(* The open device *)

(* nvme_read and the repetition of a failed read.                          *)
LEMMA ReadStep ==
    ASSUME CInv, pc \in {"open", "reading"}, ctrl.ns \in Regions, pc' = "reading",
           Submit("read", dma_buffer), UNCHANGED <<mem, ctrl, id, dma_buffer>>
    PROVE  CInv'
<1>1. Types /\ Stage BY DEF CInv
<1>2. /\ NoIdentify /\ Admin /\ hw.rdy = TRUE /\ IoCq /\ IoSq /\ IoKnown
      /\ Namespace
  BY <1>1 DEF Stage
<1>3. dma_buffer \in Addresses
  BY <1>1, AddressFacts DEF Types
<1>4. /\ hw' \in Hws
      /\ hw'.cmd = [op |-> "read", prp |-> dma_buffer] /\ hw'.status = "none"
      /\ hw'.en = hw.en /\ hw'.rdy = hw.rdy /\ hw'.stray = hw.stray
      /\ hw'.asq = hw.asq /\ hw'.acq = hw.acq
      /\ hw'.sq = hw.sq /\ hw'.cq = hw.cq
      /\ hw'.io_cq = hw.io_cq /\ hw'.io_sq = hw.io_sq
  BY <1>1, <1>3, SubmitStep
<1>5. Types'
  BY <1>1, <1>4 DEF Types
<1>6. NoIdentify' /\ Admin' /\ IoCq' /\ IoSq' /\ IoKnown' /\ Namespace'
  BY <1>2, <1>4 DEF NoIdentify, Admin, IoCq, IoSq, IoKnown, Namespace, Owned
<1>7. Pending("read", dma_buffer)'
  BY <1>4 DEF Pending
<1>8. Stage'
  BY <1>2, <1>4, <1>6, <1>7 DEF Stage
<1> QED BY <1>4, <1>5, <1>8 DEF CInv

LEMMA CallerSteps == CInv /\ (nvme_read \/ ReadDone \/ nvme_close) => Safe'
<1> SUFFICES ASSUME CInv, nvme_read \/ ReadDone \/ nvme_close, pc' # "undefined"
             PROVE  CInv'
  BY DEF Safe
<1>1. Types /\ Stage BY DEF CInv
<1>2. CASE nvme_read
  BY <1>2, ReadStep DEF nvme_read, Undefined
<1>3. CASE ReadDone
  <2>1. /\ pc = "reading" /\ Completed
        /\ UNCHANGED <<mem, ctrl, id, dma_buffer>>
    BY <1>3 DEF ReadDone
  <2>2. /\ NoIdentify /\ Admin /\ hw.rdy = TRUE /\ IoCq /\ IoSq /\ IoKnown
        /\ Namespace /\ ctrl.ns \in Regions /\ Pending("read", dma_buffer)
    BY <1>1, <2>1 DEF Stage
  <2>3. Quiet
    BY <2>1, <2>2, CompletedIsQuiet
  <2>a. CASE pc' = "open" /\ UNCHANGED hw
    <3>1. Types'
      BY <1>1, <2>1, <2>a DEF Types
    <3>2. /\ NoIdentify' /\ Quiet' /\ Admin' /\ IoCq' /\ IoSq' /\ IoKnown'
          /\ Namespace'
      BY <2>1, <2>2, <2>3, <2>a
         DEF NoIdentify, Quiet, Admin, IoCq, IoSq, IoKnown, Namespace, Owned
    <3>3. Stage'
      BY <2>1, <2>2, <2>a, <3>2 DEF Stage
    <3> QED BY <2>1, <2>a, <3>1, <3>3 DEF CInv
  <2>b. CASE Submit("read", dma_buffer) /\ UNCHANGED pc
    BY <2>1, <2>2, <2>b, ReadStep
  <2> QED BY <1>3, <2>a, <2>b DEF ReadDone
<1>4. CASE nvme_close
  <2>1. /\ pc = "open" /\ pc' = "closed"
        /\ UNCHANGED <<mem, ctrl, id, dma_buffer, hw>>
    BY <1>4 DEF nvme_close
  <2>2. Types'
    BY <1>1, <2>1 DEF Types
  <2>3. NoIdentify' /\ Quiet'
    BY <1>1, <2>1 DEF Stage, NoIdentify, Quiet
  <2>4. Stage'
    BY <2>1, <2>3 DEF Stage
  <2> QED BY <2>1, <2>2, <2>4 DEF CInv
<1> QED BY <1>2, <1>3, <1>4

-----------------------------------------------------------------------------
(* The controller *)

LEMMA HwOffStep == CInv /\ HwOff => CInv'
<1> SUFFICES ASSUME CInv, HwOff PROVE CInv'
  OBVIOUS
<1>1. Types /\ Stage BY DEF CInv
<1>2. /\ ~hw.en /\ hw.rdy
      /\ hw' = [hw EXCEPT !.rdy = FALSE, !.sq = NULL, !.cq = NULL,
                          !.io_cq = NULL, !.io_sq = NULL,
                          !.cmd = NoCommand, !.status = "none"]
      /\ UNCHANGED <<pc, mem, ctrl, id, dma_buffer>>
  BY DEF HwOff
<1>3. NoCommand \in Commands
  BY AddressFacts DEF NoCommand, Commands
<1>4. /\ hw' \in Hws /\ hw'.rdy = FALSE /\ hw'.en = hw.en /\ hw'.cmd = NoCommand
      /\ hw'.stray = hw.stray
  BY <1>1, <1>2, <1>3, AddressFacts DEF Types, Hws
<1>5. Types'
  BY <1>1, <1>2, <1>4 DEF Types
<1>6. pc \in {"closed", "disable", "admin_cq"}
  BY <1>1, <1>2 DEF Stage, Admin, Types
<1>7. NoIdentify' /\ Quiet'
  BY <1>1, <1>2, <1>4, <1>6 DEF Stage, NoIdentify, Quiet
<1>8. Stage'
  BY <1>1, <1>2, <1>4, <1>6, <1>7 DEF Stage
<1> QED BY <1>2, <1>4, <1>5, <1>8 DEF CInv

LEMMA HwOnStep == CInv /\ HwOn => CInv'
<1> SUFFICES ASSUME CInv, HwOn PROVE CInv'
  OBVIOUS
<1>1. Types /\ Stage BY DEF CInv
<1>2. /\ hw.en /\ ~hw.rdy
      /\ hw' = [hw EXCEPT !.rdy = TRUE, !.sq = hw.asq, !.cq = hw.acq]
      /\ UNCHANGED <<pc, mem, ctrl, id, dma_buffer>>
  BY DEF HwOn
<1>3. /\ hw' \in Hws /\ hw'.rdy = TRUE /\ hw'.en = hw.en /\ hw'.cmd = hw.cmd
      /\ hw'.sq = hw.asq /\ hw'.cq = hw.acq
      /\ hw'.asq = hw.asq /\ hw'.acq = hw.acq /\ hw'.stray = hw.stray
  BY <1>1, <1>2 DEF Types, Hws
<1>4. Types'
  BY <1>1, <1>2, <1>3 DEF Types
<1>5. pc \in {"closed", "disable", "identify"}
  BY <1>1, <1>2 DEF Stage, Types
<1>6. NoIdentify' /\ Quiet'
  BY <1>1, <1>2, <1>3, <1>5 DEF Stage, NoIdentify, Quiet
<1>7. pc = "identify" => Admin'
  BY <1>1, <1>2, <1>3 DEF Stage, Admin, Owned
<1>8. Stage'
  BY <1>1, <1>2, <1>3, <1>5, <1>6, <1>7 DEF Stage
<1> QED BY <1>2, <1>3, <1>4, <1>8 DEF CInv

(* A command is with the controller only at five places of the driver, and *)
(* everything it names is allocated for it there.                          *)
LEMMA CommandIsOwned ==
    ASSUME CInv, hw.cmd # NoCommand
    PROVE  /\ pc \in {"identified", "io_sq", "io_queues", "probe", "reading"}
           /\ ~Stray(hw.cmd)
           /\ pc = "io_sq" => hw.cmd = [op |-> "create_cq", prp |-> ctrl.io_cq]
           /\ pc = "io_queues" => hw.cmd = [op |-> "create_sq", prp |-> ctrl.io_sq]
           /\ pc \in {"identified", "probe", "reading"}
                 => hw.cmd.op \notin {"create_cq", "create_sq"}
<1>1. Types /\ Stage BY DEF CInv
<1>2. pc \in {"identified", "io_sq", "io_queues", "probe", "reading"}
  BY <1>1 DEF Stage, Quiet, Types
<1>3. Admin /\ hw.rdy = TRUE
  BY <1>1, <1>2 DEF Stage
<1>4. /\ hw.sq \in Regions /\ mem[hw.sq] = "admin_sq" /\ hw.sq = ctrl.admin_sq
      /\ hw.cq \in Regions /\ mem[hw.cq] = "admin_cq" /\ hw.cq = ctrl.admin_cq
      /\ DOMAIN ctrl = {"admin_cq", "admin_sq", "io_cq", "io_sq", "ns"}
  BY <1>1, <1>3 DEF Admin, Owned, Types, Ctrls
<1>a. CASE pc \in {"identified", "probe"}
  <2>1. hw.cmd = [op |-> "identify", prp |-> id] /\ Owned(id, "identify")
    BY <1>1, <1>a DEF Stage, Pending, OneIdentify
  <2>2. Touched(hw.cmd) = {<<hw.sq, "admin_sq">>, <<hw.cq, "admin_cq">>,
                           <<id, "identify">>}
    BY <2>1 DEF Touched
  <2>3. ~Stray(hw.cmd)
    BY <1>4, <2>1, <2>2 DEF Stray, Owned
  <2> QED BY <1>2, <1>a, <2>1, <2>3
<1>b. CASE pc \in {"io_sq", "io_queues"}
  <2>1. /\ pc = "io_sq" => hw.cmd = [op |-> "create_cq", prp |-> ctrl.io_cq]
        /\ pc = "io_queues" => hw.cmd = [op |-> "create_sq", prp |-> ctrl.io_sq]
    BY <1>1 DEF Stage, Pending
  <2>2. Touched(hw.cmd) = {<<hw.sq, "admin_sq">>, <<hw.cq, "admin_cq">>}
    BY <1>b, <2>1 DEF Touched
  <2>3. ~Stray(hw.cmd)
    BY <1>4, <2>2 DEF Stray
  <2> QED BY <1>2, <1>b, <2>1, <2>3
<1>c. CASE pc = "reading"
  <2>1. /\ hw.cmd = [op |-> "read", prp |-> dma_buffer]
        /\ Owned(dma_buffer, "dma_buffer")
        /\ Owned(hw.io_cq, "io_cq") /\ Owned(hw.io_sq, "io_sq")
        /\ hw.io_cq = ctrl.io_cq /\ hw.io_sq = ctrl.io_sq
    BY <1>1, <1>c DEF Stage, Pending, Namespace, IoCq, IoSq, IoKnown
  <2>2. Touched(hw.cmd) = {<<hw.io_sq, "io_sq">>, <<hw.io_cq, "io_cq">>,
                           <<dma_buffer, "dma_buffer">>}
    BY <2>1 DEF Touched
  <2>3. ~Stray(hw.cmd)
    BY <1>4, <2>1, <2>2 DEF Stray, Owned
  <2> QED BY <1>2, <1>c, <2>1, <2>3
<1> QED BY <1>2, <1>a, <1>b, <1>c

LEMMA HwExecuteStep == CInv /\ HwExecute => CInv'
<1> SUFFICES ASSUME CInv, HwExecute PROVE CInv'
  OBVIOUS
<1>1. Types /\ Stage BY DEF CInv
<1>2. PICK status \in {"success", "failure"} :
         hw' = [hw EXCEPT
                  !.status = status,
                  !.cmd = NoCommand,
                  !.stray = @ \/ Stray(hw.cmd),
                  !.io_cq = IF status = "success" /\ hw.cmd.op = "create_cq"
                            THEN hw.cmd.prp ELSE @,
                  !.io_sq = IF status = "success" /\ hw.cmd.op = "create_sq"
                            THEN hw.cmd.prp ELSE @]
  BY DEF HwExecute
<1>3. hw.cmd # NoCommand /\ UNCHANGED <<pc, mem, ctrl, id, dma_buffer>>
  BY DEF HwExecute
<1>4. /\ pc \in {"identified", "io_sq", "io_queues", "probe", "reading"}
      /\ ~Stray(hw.cmd)
      /\ pc = "io_sq" => hw.cmd = [op |-> "create_cq", prp |-> ctrl.io_cq]
      /\ pc = "io_queues" => hw.cmd = [op |-> "create_sq", prp |-> ctrl.io_sq]
      /\ pc \in {"identified", "probe", "reading"}
            => hw.cmd.op \notin {"create_cq", "create_sq"}
  BY <1>3, CommandIsOwned
<1>5. /\ hw \in Hws /\ hw.stray = FALSE /\ NoCommand \in Commands
      /\ hw.cmd.prp \in Addresses
  BY <1>1, AddressFacts DEF CInv, Types, Hws, Commands, NoCommand
<1>6. (hw.stray \/ Stray(hw.cmd)) = FALSE
  BY <1>4, <1>5
<1>7. /\ hw'.status = status /\ hw'.cmd = NoCommand /\ hw'.stray = FALSE
      /\ hw'.en = hw.en /\ hw'.rdy = hw.rdy
      /\ hw'.asq = hw.asq /\ hw'.acq = hw.acq
      /\ hw'.sq = hw.sq /\ hw'.cq = hw.cq
      /\ hw'.io_cq = IF status = "success" /\ hw.cmd.op = "create_cq"
                     THEN hw.cmd.prp ELSE hw.io_cq
      /\ hw'.io_sq = IF status = "success" /\ hw.cmd.op = "create_sq"
                     THEN hw.cmd.prp ELSE hw.io_sq
  BY <1>2, <1>5, <1>6 DEF Hws
<1>8. hw' \in Hws
  BY <1>2, <1>5, <1>6 DEF Hws
<1>9. Types'
  BY <1>1, <1>3, <1>8 DEF Types
<1>10. hw'.cmd = NoCommand /\ hw'.status # "none"
  BY <1>7
<1>11. Admin /\ hw.rdy = TRUE /\ Admin'
  BY <1>1, <1>3, <1>4, <1>7 DEF Stage, Admin, Owned
<1>a. CASE pc \in {"identified", "probe"}
  <2>1. /\ OneIdentify' /\ Pending("identify", id)' /\ ctrl'.ns = Unset
    BY <1>1, <1>3, <1>a, <1>10 DEF Stage, OneIdentify, Owned, Pending
  <2>2. pc = "probe" => IoCq' /\ IoSq' /\ IoKnown'
    BY <1>1, <1>3, <1>4, <1>7 DEF Stage, IoCq, IoSq, IoKnown, Owned
  <2>3. Stage'
    BY <1>3, <1>7, <1>11, <1>a, <2>1, <2>2 DEF Stage
  <2> QED BY <1>3, <1>7, <1>9, <2>3 DEF CInv
<1>b. CASE pc = "io_sq"
  <2>1. NoIdentify' /\ IoCq' /\ Pending("create_cq", ctrl.io_cq)' /\ ctrl'.ns = Unset
    BY <1>1, <1>3, <1>b, <1>10 DEF Stage, NoIdentify, IoCq, Owned, Pending
  <2>2. hw'.status = "success" => hw'.io_cq = ctrl'.io_cq
    <3>1. hw.cmd.op = "create_cq" /\ hw.cmd.prp = ctrl.io_cq
      BY <1>4, <1>b
    <3> QED BY <1>3, <1>7, <3>1
  <2>3. Stage'
    BY <1>3, <1>7, <1>11, <1>b, <2>1, <2>2 DEF Stage
  <2> QED BY <1>3, <1>7, <1>9, <2>3 DEF CInv
<1>c. CASE pc = "io_queues"
  <2>1. /\ NoIdentify' /\ IoCq' /\ IoSq' /\ ctrl'.ns = Unset
        /\ Pending("create_sq", ctrl.io_sq)'
    BY <1>1, <1>3, <1>c, <1>10 DEF Stage, NoIdentify, IoCq, IoSq, Owned, Pending
  <2>2. /\ hw'.io_cq = ctrl'.io_cq
        /\ hw'.status = "success" => hw'.io_sq = ctrl'.io_sq
    <3>1. hw.io_cq = ctrl.io_cq
      BY <1>1, <1>c DEF Stage
    <3>2. hw.cmd.op = "create_sq" /\ hw.cmd.prp = ctrl.io_sq
      BY <1>4, <1>c
    <3> QED BY <1>3, <1>7, <3>1, <3>2
  <2>3. Stage'
    BY <1>3, <1>7, <1>11, <1>c, <2>1, <2>2 DEF Stage
  <2> QED BY <1>3, <1>7, <1>9, <2>3 DEF CInv
<1>d. CASE pc = "reading"
  <2>1. /\ NoIdentify' /\ Namespace' /\ ctrl'.ns \in Regions
        /\ Pending("read", dma_buffer)'
    BY <1>1, <1>3, <1>d, <1>10 DEF Stage, NoIdentify, Namespace, Owned, Pending
  <2>2. IoCq' /\ IoSq' /\ IoKnown'
    BY <1>1, <1>3, <1>4, <1>7, <1>d DEF Stage, IoCq, IoSq, IoKnown, Owned
  <2>3. Stage'
    BY <1>3, <1>7, <1>11, <1>d, <2>1, <2>2 DEF Stage
  <2> QED BY <1>3, <1>7, <1>9, <2>3 DEF CInv
<1> QED BY <1>4, <1>a, <1>b, <1>c, <1>d

-----------------------------------------------------------------------------
LEMMA StutterCInv == CInv /\ UNCHANGED vars => CInv'
<1> SUFFICES ASSUME CInv, UNCHANGED <<pc, mem, ctrl, id, dma_buffer, hw>>
             PROVE  CInv'
  BY DEF vars
<1>1. Types'
  BY DEF CInv, Types
<1>2. /\ NoIdentify' <=> NoIdentify
      /\ OneIdentify' <=> OneIdentify
      /\ Quiet' <=> Quiet
      /\ Namespace' <=> Namespace
  BY DEF NoIdentify, OneIdentify, Quiet, Namespace, Owned
<1>3. /\ Admin' <=> Admin
      /\ IoCq' <=> IoCq
      /\ IoSq' <=> IoSq
      /\ IoKnown' <=> IoKnown
      /\ Owned(ctrl.admin_cq, "admin_cq")' <=> Owned(ctrl.admin_cq, "admin_cq")
  BY DEF Admin, IoCq, IoSq, IoKnown, Owned
<1>4. /\ Pending("identify", id)' <=> Pending("identify", id)
      /\ Pending("create_cq", ctrl.io_cq)' <=> Pending("create_cq", ctrl.io_cq)
      /\ Pending("create_sq", ctrl.io_sq)' <=> Pending("create_sq", ctrl.io_sq)
      /\ Pending("read", dma_buffer)' <=> Pending("read", dma_buffer)
  BY DEF Pending
<1>5. Stage'
  <2>0. Stage
    BY DEF CInv
  <2>1. (/\ pc \in {"closed", "disable", "admin_cq", "admin_sq", "identify", "io_cq",
                    "open"} => NoIdentify /\ Quiet
         /\ pc \in {"io_sq", "io_queues", "reading"} => NoIdentify
         /\ pc \in {"identified", "probe"} => OneIdentify /\ Pending("identify", id))'
    BY <2>0, <1>2, <1>4 DEF Stage
  <2>2. (/\ pc \in {"admin_cq", "admin_sq"} => hw.en = FALSE
         /\ pc = "admin_sq" => hw.rdy = FALSE /\ Owned(ctrl.admin_cq, "admin_cq")
         /\ pc \in {"identify", "identified", "io_cq", "io_sq", "io_queues", "probe",
                    "open", "reading"} => Admin
         /\ pc \in {"identified", "io_cq", "io_sq", "io_queues", "probe", "open",
                    "reading"} => hw.rdy = TRUE)'
    BY <2>0, <1>3 DEF Stage
  <2>3. (/\ pc = "io_sq" => /\ IoCq /\ Pending("create_cq", ctrl.io_cq)
                            /\ hw.status = "success" => hw.io_cq = ctrl.io_cq
         /\ pc = "io_queues" => /\ IoCq /\ IoSq /\ hw.io_cq = ctrl.io_cq
                                /\ Pending("create_sq", ctrl.io_sq)
                                /\ hw.status = "success" => hw.io_sq = ctrl.io_sq)'
    BY <2>0, <1>3, <1>4 DEF Stage
  <2>4. (/\ pc \in {"probe", "open", "reading"} => IoCq /\ IoSq /\ IoKnown
         /\ pc \in {"disable", "admin_cq", "admin_sq", "identify", "identified",
                    "io_cq", "io_sq", "io_queues", "probe"} => ctrl.ns = Unset
         /\ pc \in {"open", "reading"} => Namespace
         /\ pc = "reading" => ctrl.ns \in Regions /\ Pending("read", dma_buffer))'
    BY <2>0, <1>2, <1>3, <1>4 DEF Stage
  <2> QED BY <2>1, <2>2, <2>3, <2>4, Zenon DEF Stage
<1> QED BY <1>1, <1>5 DEF CInv

(* Up to a step without a defined outcome, CInv is an invariant of opening,*)
(* using and reopening the controller.                                     *)
THEOREM ControllerInvariant == Spec => []Safe
<1>1. Safe /\ [Next]_vars => Safe'
  <2> SUFFICES ASSUME Safe, [Next]_vars PROVE Safe'
    OBVIOUS
  <2>1. CASE pc = "undefined"
    <3>1. pc' = "undefined"
      BY <2>1 DEF Next, Driver, Caller, Hw, Anything, vars, nvme_open_uri, Disable,
         InitAdminCq, InitAdminSq, IdentifyCtrl, IdentifyCtrlDone,
         nvme_create_io_cq, nvme_create_io_sq, nvme_probe_ns, ProbeNsDone,
         nvme_read, ReadDone, nvme_close, HwOff, HwOn, HwExecute
    <3> QED BY <3>1 DEF Safe
  <2>2. CASE CInv /\ pc # "undefined"
    <3>1. CInv' => Safe'
      BY DEF Safe
    <3> QED BY <2>2, <3>1, StutterCInv, OpenStep, DisableStep, InitAdminCqStep,
               InitAdminSqStep, IdentifyCtrlStep, IdentifyCtrlDoneStep,
               CreateIoCqStep, CreateIoSqStep, ProbeNsStep, ProbeNsDoneStep,
               CallerSteps, HwOffStep, HwOnStep, HwExecuteStep
               DEF Next, Driver, Caller, Hw, Anything
  <2> QED BY <2>1, <2>2 DEF Safe
<1>2. Init => Safe
  BY InitCInv DEF Safe
<1> QED BY <1>1, <1>2, PTL DEF Spec

(* Until a step without a defined outcome, and however often the device is *)
(* opened again, the controller reads and writes only memory that is       *)
(* allocated for the command it carries out and queues the driver uses: no *)
(* release in nvme_admin_identify or nvme_probe_ns comes too early, and no *)
(* queue of an earlier opening is in use.                                  *)
THEOREM DeviceTouchesOwnedTheorem == Spec => []DeviceTouchesOwned
<1>1. Safe => DeviceTouchesOwned
  BY DEF Safe, CInv, DeviceTouchesOwned
<1> QED BY ControllerInvariant, <1>1, PTL

(* A namespace that can be read has a running controller, which knows both *)
(* I/O queues nvme_create_io_queues made, and a bounce buffer.             *)
THEOREM OpenIsUsableTheorem == Spec => []OpenIsUsable
<1>1. Safe => OpenIsUsable
  <2> SUFFICES ASSUME CInv, pc \in {"open", "reading"}, ctrl.ns \in Regions
               PROVE  /\ hw.en /\ hw.rdy
                      /\ hw.io_sq = ctrl.io_sq /\ hw.io_cq = ctrl.io_cq
                      /\ hw.sq = ctrl.admin_sq /\ hw.cq = ctrl.admin_cq
                      /\ \A q \in {"admin_cq", "admin_sq", "io_cq", "io_sq", "ns"} :
                            ctrl[q] \in Regions /\ mem[ctrl[q]] = q
                      /\ dma_buffer \in Regions /\ mem[dma_buffer] = "dma_buffer"
    BY DEF OpenIsUsable, Safe
  <2>1. /\ Admin /\ hw.rdy = TRUE /\ IoCq /\ IoSq /\ IoKnown
        /\ Owned(ctrl.ns, "ns") /\ Owned(dma_buffer, "dma_buffer")
    BY DEF CInv, Stage, Namespace
  <2> QED BY <2>1 DEF Admin, IoCq, IoSq, IoKnown, Owned
<1> QED BY ControllerInvariant, <1>1, PTL

(* Every identify buffer has been released when a call has returned and    *)
(* when the controller is opened again (nvme_admin_identify's two callers).*)
THEOREM NoIdentifyLeakTheorem == Spec => []NoIdentifyLeak
<1>1. Safe => NoIdentifyLeak
  BY DEF Safe, CInv, Stage, NoIdentify, NoIdentifyLeak
<1> QED BY ControllerInvariant, <1>1, PTL

=============================================================================
