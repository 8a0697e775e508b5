------------------------- MODULE NvmeQueuePairProofs -------------------------
(***************************************************************************)
(* Theorems about NvmeQueuePair, for every set of blocks.  What they need  *)
(* of the lengths and of the statuses is a hypothesis of each: the code    *)
(* guarantees the lengths of the admin queues, and those of the I/O queues *)
(* of a controller that allows 256 entries (AdminLengths, IoLengths); it   *)
(* does not guarantee them for other controllers.                          *)
(***************************************************************************)
EXTENDS NvmeQueuePair, TLAPS

PowersOfTwo == {2, 4, 8, 16, 32, 64, 128, 256}

(* The driver's index arithmetic needs lengths that are powers of two.     *)
LengthsArePowersOfTwo == SqLen \in PowersOfTwo /\ CqLen \in PowersOfTwo

(* The driver looks at the status code only.                               *)
StatusCodesTell == \A s \in Statuses : s.sc = 0 => s = Success
-----------------------------------------------------------------------------
(***************************************************************************)
(* The inductive invariant.  The driver has at most one command with the   *)
(* controller, and that command is in one of three places.                 *)
(***************************************************************************)

OurSqe == [cid |-> sq.head, lba |-> lba]

Level ==
  /\ ctrl.tail = cq.head
  /\ ctrl.phase = cq.phase

(* The doorbell has been rung and the controller has not fetched.          *)
Submitted ==
  /\ Level
  /\ ctrl.state = "idle"
  /\ ctrl.head = sq.head
  /\ sqe[sq.head] = OurSqe

(* The controller has the command.                                         *)
Running ==
  /\ Level
  /\ ctrl.state \in {"fetched", "executed"}
  /\ ctrl.head = sq.tail
  /\ ctrl.sqe = OurSqe
  /\ ctrl.state = "executed" => /\ cqe[cq.head].sq_head = sq.tail
                                /\ ctrl.status = Success => buffer = lba

(* The completion is at the driver's head.                                 *)
Posted ==
  /\ ctrl.state = "idle"
  /\ ctrl.head = sq.tail
  /\ ctrl.tail = Succ(cq.head, CqLen)
  /\ ctrl.phase = IF ctrl.tail = 0 THEN 1 - cq.phase ELSE cq.phase
  /\ cqe[cq.head].sq_head = sq.tail
  /\ cqe[cq.head].cid = sq.head
  /\ cqe[cq.head].status = Success => buffer = lba

Outstanding ==
  /\ sq.tail = Succ(sq.head, SqLen)
  /\ Submitted \/ Running \/ Posted

Quiet ==
  /\ Level
  /\ ctrl.state = "idle"
  /\ ctrl.head = sq.tail
  /\ sq.head = sq.tail

DoorbellInv ==
  /\ dbl.sq = sq.tail
  /\ dbl.cq = cq.head

(* The slots before the controller's tail have its phase, the others the   *)
(* phase of the pass before.                                               *)
PhaseInv ==
  \A i \in CqSlots :
    cqe[i].phase = IF i < ctrl.tail THEN ctrl.phase ELSE 1 - ctrl.phase

CommandInv ==
  IF pc \in {"wait", "consume"} THEN Outstanding ELSE Quiet

PcInv ==
  /\ pc # "null"
  /\ pc = "fill" => sqe[sq.tail].cid = sq.tail
  /\ pc = "commit" => sqe[sq.tail] = [cid |-> sq.tail, lba |-> lba]
  /\ pc = "consume" => Posted
  /\ pc = "check" => /\ Succ(got.cid, SqLen) = sq.tail
                     /\ got.status = Success => buffer = lba
  /\ pc = "done" /\ StatusCodesTell => buffer = lba

(* The inductive invariant: where the one outstanding command is, that the *)
(* doorbells are up to date and which slots hold which phase.              *)
IInv == TypeOK /\ DoorbellInv /\ PhaseInv /\ CommandInv /\ PcInv
-----------------------------------------------------------------------------
(* On a power-of-two length, stepping an index with the mask is counting   *)
(* modulo the length.                                                      *)
LEMMA NextIndexIsSucc ==
  ASSUME NEW n \in PowersOfTwo, NEW i \in 0 .. n - 1
  PROVE  NextIndex(i, n) = Succ(i, n)
<1>1. CASE n = 2
  BY <1>1 DEF NextIndex, Succ, BitAnd, AndBit, Bit, mask
<1>2. CASE n = 4
  BY <1>2 DEF NextIndex, Succ, BitAnd, AndBit, Bit, mask
<1>3. CASE n = 8
  BY <1>3 DEF NextIndex, Succ, BitAnd, AndBit, Bit, mask
<1>4. CASE n = 16
  BY <1>4, SMTT(60) DEF NextIndex, Succ, BitAnd, AndBit, Bit, mask
<1>5. CASE n = 32
  BY <1>5, SMTT(60) DEF NextIndex, Succ, BitAnd, AndBit, Bit, mask
<1>6. CASE n = 64
  BY <1>6, SMTT(60) DEF NextIndex, Succ, BitAnd, AndBit, Bit, mask
<1>7. CASE n = 128
  BY <1>7, SMTT(60) DEF NextIndex, Succ, BitAnd, AndBit, Bit, mask
<1>8. CASE n = 256
  BY <1>8, SMTT(60) DEF NextIndex, Succ, BitAnd, AndBit, Bit, mask
<1>9. QED
  BY <1>1, <1>2, <1>3, <1>4, <1>5, <1>6, <1>7, <1>8 DEF PowersOfTwo

(* The admin queues always have such lengths.                              *)
THEOREM AdminLengths ==
  ASSUME SqLen = AdminSqLength, CqLen = AdminCqLength
  PROVE  LengthsArePowersOfTwo
BY DEF AdminSqLength, AdminCqLength, LengthsArePowersOfTwo, PowersOfTwo

(* So have the I/O queues of a controller that allows 256 entries or more, *)
(* and those of one that allows fewer if their number is a power of two.   *)
THEOREM IoLengths ==
  ASSUME NEW mqes \in Nat,
         mqes >= 255 \/ 1 + mqes \in PowersOfTwo,
         SqLen = IoLength(mqes), CqLen = IoLength(mqes)
  PROVE  LengthsArePowersOfTwo
<1>1. CASE mqes >= 255
  <2>1. IoLength(mqes) = 256
    BY <1>1 DEF IoLength
  <2>2. QED
    BY <2>1 DEF LengthsArePowersOfTwo, PowersOfTwo
<1>2. CASE mqes < 255 /\ 1 + mqes \in PowersOfTwo
  <2>1. IoLength(mqes) = 1 + mqes
    BY <1>2 DEF IoLength
  <2>2. QED
    BY <1>2, <2>1 DEF LengthsArePowersOfTwo
<1>3. QED
  BY <1>1, <1>2
-----------------------------------------------------------------------------
(* Every queue pair starts with nothing outstanding and no completion of   *)
(* the phase the driver waits for.                                         *)
LEMMA InitIInv == Init => IInv
BY LengthAssumption, StatusAssumption, QueueAssumption, SMTT(30)
   DEF Init, nvme_init_sq, nvme_init_cq, ControllerReset, IInv, TypeOK,
       DoorbellInv, PhaseInv, CommandInv, PcInv, Quiet, Level, SqSlots,
       CqSlots, ZeroSqe, ZeroCqe, Success

(* The same for the two queues at hand.                                    *)
LEMMA SqNext ==
  ASSUME LengthsArePowersOfTwo
  PROVE
  \A i \in SqSlots : /\ NextIndex(i, SqLen) = Succ(i, SqLen)
                     /\ Succ(i, SqLen) \in SqSlots
                     /\ Succ(i, SqLen) # i
<1>1. \A i \in SqSlots : NextIndex(i, SqLen) = Succ(i, SqLen)
  BY NextIndexIsSucc DEF SqSlots, LengthsArePowersOfTwo
<1>2. QED
  BY <1>1, LengthAssumption DEF SqSlots, Succ

LEMMA CqNext ==
  ASSUME LengthsArePowersOfTwo
  PROVE
  \A i \in CqSlots : /\ NextIndex(i, CqLen) = Succ(i, CqLen)
                     /\ Succ(i, CqLen) \in CqSlots
                     /\ Succ(i, CqLen) # i
<1>1. \A i \in CqSlots : NextIndex(i, CqLen) = Succ(i, CqLen)
  BY NextIndexIsSucc DEF CqSlots, LengthsArePowersOfTwo
<1>2. QED
  BY <1>1, LengthAssumption DEF CqSlots, Succ

(* The queue does not look full when nothing is outstanding.               *)
LEMMA NotFull ==
  ASSUME LengthsArePowersOfTwo, TypeOK, Quiet
  PROVE  ~SqFull
BY SqNext DEF SqFull, TypeOK, Quiet

(* What nvme_poll_cq sees follows from where the command is.               *)
LEMMA PollFact ==
  ASSUME IInv
  PROVE  PollExact
<1>1. cq.head \in CqSlots /\ ctrl.tail \in CqSlots
      /\ cq.phase \in {0, 1} /\ ctrl.phase \in {0, 1}
  BY DEF IInv, TypeOK
<1>2. cqe[cq.head].phase =
        IF cq.head < ctrl.tail THEN ctrl.phase ELSE 1 - ctrl.phase
  BY <1>1 DEF IInv, PhaseInv
<1>3. Level \/ Posted
  BY DEF IInv, CommandInv, Outstanding, Submitted, Running, Quiet
<1>4. CASE Level
  BY <1>1, <1>2, <1>4 DEF Level, PollExact, nvme_poll_cq, CqSlots
<1>5. CASE Posted
  BY <1>1, <1>2, <1>5, LengthAssumption
     DEF Posted, PollExact, nvme_poll_cq, CqSlots, Succ
<1>6. QED
  BY <1>3, <1>4, <1>5

(* Every step of the driver and of the controller preserves IInv.          *)
LEMMA NextIInv ==
  ASSUME LengthsArePowersOfTwo
  PROVE  IInv /\ [Next]_vars => IInv'
<1> SUFFICES ASSUME IInv, [Next]_vars
             PROVE  IInv'
  OBVIOUS
<1>1. ASSUME NEW b \in Lbas, Call(b)
      PROVE  IInv'
  BY <1>1, DataAssumption
     DEF Call, IInv, TypeOK, DoorbellInv, PhaseInv, CommandInv, PcInv,
         Quiet, Level
<1>2. CASE nvme_get_next_sqe
  BY <1>2, NotFull, SMTT(30)
     DEF nvme_get_next_sqe, IInv, TypeOK, DoorbellInv, PhaseInv,
         CommandInv, PcInv, Quiet, Level, ZeroSqe
<1>3. CASE FillCommand
  BY <1>3
     DEF FillCommand, IInv, TypeOK, DoorbellInv, PhaseInv, CommandInv,
         PcInv, Quiet, Level
<1>4. CASE nvme_commit_sqe
  <2>1. NextIndex(sq.tail, SqLen) = Succ(sq.tail, SqLen)
        /\ Succ(sq.tail, SqLen) \in SqSlots
    BY SqNext DEF IInv, TypeOK
  <2>2. QED
    BY <1>4, <2>1
       DEF nvme_commit_sqe, IInv, TypeOK, DoorbellInv, PhaseInv,
           CommandInv, PcInv, Quiet, Level, Outstanding, Submitted, OurSqe
<1>5. CASE nvme_wait
  <2>1. /\ pc = "wait" /\ pc' = "consume" /\ cq.head # ctrl.tail
        /\ UNCHANGED <<queue, sq, sqe, cq, cqe, dbl, ctrl, buffer, lba, got>>
    BY <1>5, PollFact DEF nvme_wait, PollExact
  <2>2. TypeOK' /\ DoorbellInv' /\ PhaseInv'
    BY <2>1 DEF IInv, TypeOK, DoorbellInv, PhaseInv
  <2>3. Posted
    BY <2>1 DEF IInv, CommandInv, PcInv, Outstanding, Submitted, Running, Level
  <2>4. Posted'
    BY <2>1, <2>3 DEF Posted, OurSqe
  <2>5. Outstanding'
    BY <2>1, <2>4 DEF IInv, CommandInv, Outstanding
  <2>6. QED
    BY <2>1, <2>2, <2>4, <2>5 DEF IInv, CommandInv, PcInv
<1>6. CASE nvme_consume_cqe
  <2>1. /\ Posted
        /\ sq.tail = Succ(sq.head, SqLen)
        /\ cq.head # ctrl.tail
    BY <1>6, CqNext
       DEF nvme_consume_cqe, IInv, PcInv, CommandInv, Outstanding, Posted,
           TypeOK
  <2>2. nvme_poll_cq
    BY <2>1, PollFact DEF PollExact
  <2>3. NextIndex(cq.head, CqLen) = Succ(cq.head, CqLen)
        /\ Succ(cq.head, CqLen) \in CqSlots
    BY CqNext DEF IInv, TypeOK
  <2>4. NextPhase(Succ(cq.head, CqLen)) = ctrl.phase
    BY <2>1, LengthAssumption
       DEF NextPhase, Posted, Succ, IInv, TypeOK, CqSlots
  <2>5. /\ got' = cqe[cq.head]
        /\ cq' = [head |-> Succ(cq.head, CqLen), phase |-> ctrl.phase]
        /\ sq' = [sq EXCEPT !.head = sq.tail]
        /\ dbl' = [dbl EXCEPT !.cq = Succ(cq.head, CqLen)]
        /\ pc' = "check"
        /\ UNCHANGED <<queue, sqe, cqe, ctrl, buffer, lba>>
    BY <1>6, <2>1, <2>2, <2>3, <2>4
       DEF nvme_consume_cqe, SqAfter, Posted
  <2>6. TypeOK'
    BY <2>3, <2>5 DEF IInv, TypeOK
  <2>7. DoorbellInv' /\ PhaseInv'
    BY <2>5 DEF IInv, TypeOK, DoorbellInv, PhaseInv
  <2>8. CommandInv'
    BY <2>1, <2>5 DEF IInv, TypeOK, CommandInv, Quiet, Level, Posted
  <2>9. PcInv'
    BY <2>1, <2>5 DEF IInv, TypeOK, PcInv, Posted
  <2>10. QED
    BY <2>6, <2>7, <2>8, <2>9 DEF IInv
<1>7. CASE CheckStatus
  <2>1. nvme_is_cqe_success(got) /\ StatusCodesTell => got.status = Success
    BY DEF StatusCodesTell, nvme_is_cqe_success, IInv, TypeOK
  <2>2. QED
    BY <1>7, <2>1, SMTT(30)
       DEF CheckStatus, IInv, TypeOK, DoorbellInv, PhaseInv, CommandInv,
           PcInv, Quiet, Level
<1>8. CASE ControllerFetch
  <2>1. pc \in {"wait", "consume"} /\ Submitted
    BY <1>8 DEF ControllerFetch, IInv, CommandInv, DoorbellInv, Quiet,
                Outstanding, Running, Posted
  <2>2. Succ(sq.head, SqLen) \in SqSlots
    BY SqNext DEF IInv, TypeOK
  <2>3. pc = "wait"
    BY <1>8, <2>1, SqNext
       DEF ControllerFetch, IInv, TypeOK, PcInv, CommandInv, Outstanding,
           Submitted, Posted
  <2>4. TypeOK'
    BY <1>8, <2>1, <2>2 DEF ControllerFetch, driverVars, IInv, TypeOK, Submitted
  <2>5. DoorbellInv' /\ PhaseInv'
    BY <1>8 DEF ControllerFetch, driverVars, IInv, TypeOK, DoorbellInv,
                PhaseInv
  <2>6. CommandInv'
    BY <1>8, <2>1, <2>3
       DEF ControllerFetch, driverVars, IInv, TypeOK, CommandInv,
           Outstanding, Submitted, Running, Level, OurSqe
  <2>7. QED
    BY <1>8, <2>3, <2>4, <2>5, <2>6
       DEF ControllerFetch, driverVars, IInv, PcInv
<1>9. ASSUME NEW s \in Statuses, ControllerExecute(s)
      PROVE  IInv'
  <2>1. pc = "wait" /\ Running
    BY <1>9 DEF ControllerExecute, IInv, CommandInv, PcInv, Quiet,
                Outstanding, Submitted, Posted
  <2>2. s = Success => buffer' = lba
    BY <1>9, <2>1 DEF ControllerExecute, Running, OurSqe
  <2>3. TypeOK'
    <3>1. cqe' \in [CqSlots -> [sq_head: SqSlots, cid: SqSlots,
                               status: Statuses, phase: {0, 1}]]
      BY <1>9 DEF ControllerExecute, IInv, TypeOK
    <3>2. ctrl' = [ctrl EXCEPT !.state = "executed", !.status = s]
      BY <1>9 DEF ControllerExecute
    <3>3. buffer' \in Lbas \cup {NoData}
      BY <1>9 DEF ControllerExecute, IInv, TypeOK
    <3>4. ctrl' \in [head: SqSlots, tail: CqSlots, phase: {0, 1},
                    state: {"idle", "fetched", "executed"},
                    sqe: [cid: SqSlots, lba: Lbas \cup {NoData}],
                    status: Statuses]
      BY <1>9, <3>2 DEF IInv, TypeOK
    <3>5. QED
      BY <1>9, <3>1, <3>3, <3>4
         DEF ControllerExecute, driverVars, IInv, TypeOK
  <2>4. DoorbellInv' /\ PhaseInv'
    BY <1>9 DEF ControllerExecute, driverVars, IInv, TypeOK, DoorbellInv,
                PhaseInv
  <2>5. Running'
    BY <1>9, <2>1, <2>2
       DEF ControllerExecute, driverVars, IInv, TypeOK, Running, Level, OurSqe
  <2>6. QED
    BY <1>9, <2>1, <2>3, <2>4, <2>5
       DEF ControllerExecute, driverVars, IInv, CommandInv, Outstanding, PcInv
<1>10. CASE ControllerPost
  <2>1. pc = "wait" /\ Running /\ ctrl.state = "executed"
    BY <1>10 DEF ControllerPost, IInv, CommandInv, PcInv, Quiet,
                 Outstanding, Submitted, Posted
  <2>2. Succ(ctrl.tail, CqLen) \in CqSlots
    BY CqNext DEF IInv, TypeOK
  <2>3. TypeOK'
    <3>1. cqe' \in [CqSlots -> [sq_head: SqSlots, cid: SqSlots,
                               status: Statuses, phase: {0, 1}]]
      BY <1>10 DEF ControllerPost, IInv, TypeOK
    <3>2. (IF Succ(ctrl.tail, CqLen) = 0 THEN 1 - ctrl.phase
           ELSE ctrl.phase) \in {0, 1}
      BY DEF IInv, TypeOK
    <3>3. ctrl' \in [head: SqSlots, tail: CqSlots, phase: {0, 1},
                    state: {"idle", "fetched", "executed"},
                    sqe: [cid: SqSlots, lba: Lbas \cup {NoData}],
                    status: Statuses]
      BY <1>10, <2>2, <3>2 DEF ControllerPost, IInv, TypeOK
    <3>4. QED
      BY <1>10, <3>1, <3>3 DEF ControllerPost, driverVars, IInv, TypeOK
  <2>4. DoorbellInv'
    BY <1>10 DEF ControllerPost, driverVars, IInv, DoorbellInv
  <2>5. PhaseInv'
    BY <1>10 DEF ControllerPost, driverVars, IInv, TypeOK, PhaseInv, Succ,
                 CqSlots
  <2>6. Posted'
    BY <1>10, <2>1
       DEF ControllerPost, driverVars, IInv, TypeOK, Running, Level, Posted,
           OurSqe
  <2>7. QED
    BY <1>10, <2>1, <2>3, <2>4, <2>5, <2>6
       DEF ControllerPost, driverVars, IInv, CommandInv, Outstanding, PcInv
<1>11. CASE UNCHANGED vars
  <2>1. TypeOK' /\ DoorbellInv' /\ PhaseInv'
    BY <1>11 DEF vars, IInv, TypeOK, DoorbellInv, PhaseInv
  <2>2. CommandInv'
    BY <1>11 DEF vars, IInv, CommandInv, Quiet, Level, Outstanding, Submitted,
                 Running, Posted, OurSqe
  <2>3. PcInv'
    BY <1>11 DEF vars, IInv, PcInv, Posted, OurSqe
  <2>4. QED
    BY <2>1, <2>2, <2>3 DEF IInv
<1>12. QED
  BY <1>1, <1>2, <1>3, <1>4, <1>5, <1>6, <1>7, <1>8, <1>9, <1>10, <1>11
     DEF Next, Driver, Controller
-----------------------------------------------------------------------------
(* IInv always holds.                                                      *)
THEOREM Invariance ==
  ASSUME LengthsArePowersOfTwo
  PROVE  Spec => []IInv
BY InitIInv, NextIInv, PTL DEF Spec

(* The variables keep their types; in particular no index ever leaves its  *)
(* ring and the error entry of nvme_consume_cqe is never returned.         *)
THEOREM TypeCorrect ==
  ASSUME LengthsArePowersOfTwo
  PROVE  Spec => []TypeOK
<1>1. IInv => TypeOK
  BY DEF IInv
<1>2. QED
  BY <1>1, Invariance, PTL

(* nvme_io_xfer never dereferences the NULL that nvme_get_next_sqe returns *)
(* for a full queue.                                                       *)
THEOREM NoNullDereference ==
  ASSUME LengthsArePowersOfTwo
  PROVE  Spec => []NoNullSqe
<1>1. IInv => NoNullSqe
  BY DEF IInv, PcInv, NoNullSqe
<1>2. QED
  BY <1>1, Invariance, PTL

(* nvme_poll_cq is true exactly when there is a completion to consume,     *)
(* over any number of wraps of the ring.                                   *)
THEOREM PhaseBitIsExact ==
  ASSUME LengthsArePowersOfTwo
  PROVE  Spec => []PollExact
<1>1. IInv => PollExact
  BY PollFact
<1>2. QED
  BY <1>1, Invariance, PTL

(* A read that returns has brought the block that was asked for.           *)
THEOREM ReadsAreCorrect ==
  ASSUME LengthsArePowersOfTwo, StatusCodesTell
  PROVE  Spec => []ReadReturnsBlock
<1>1. IInv => ReadReturnsBlock
  BY DEF IInv, PcInv, ReadReturnsBlock
<1>2. QED
  BY <1>1, Invariance, PTL

(* The completion consumed is that of the command submitted, although its  *)
(* command identifier is not looked at.                                    *)
THEOREM CompletionsAreOurs ==
  ASSUME LengthsArePowersOfTwo
  PROVE  Spec => []CompletionIsOurs
<1>1. IInv => CompletionIsOurs
  BY SqNext DEF IInv, TypeOK, PcInv, CompletionIsOurs
<1>2. QED
  BY <1>1, Invariance, PTL
-----------------------------------------------------------------------------
(* An entry that the controller has been told of and has not fetched is    *)
(* not written.                                                            *)
THEOREM SubmittedEntriesAreStable ==
  ASSUME LengthsArePowersOfTwo
  PROVE  Spec => SubmittedEntriesStable
<1>1. IInv /\ [Next]_vars => [\A i \in Unfetched : sqe'[i] = sqe[i]]_vars
  <2> SUFFICES ASSUME IInv, [Next]_vars, sqe' # sqe
               PROVE  Unfetched = {}
    BY DEF vars
  <2>1. pc \in {"get", "fill"}
    BY DEF Next, Driver, Controller, Call, nvme_get_next_sqe, FillCommand,
           nvme_commit_sqe, nvme_wait, nvme_consume_cqe, CheckStatus,
           ControllerFetch, ControllerExecute, ControllerPost, vars
  <2>2. ctrl.head = dbl.sq /\ ctrl.head \in SqSlots
    BY <2>1 DEF IInv, TypeOK, DoorbellInv, CommandInv, Quiet
  <2>3. QED
    BY <2>2 DEF Unfetched, SqSlots
<1>2. QED
  BY <1>1, Invariance, PTL DEF Spec, SubmittedEntriesStable

(* A queue pair implements BlockRead: the caller sees one command at a     *)
(* time, which brings the block asked for or, on the admin queue, fails.   *)
(* (That every call returns is for the model checker.)                     *)
THEOREM Refinement ==
  ASSUME LengthsArePowersOfTwo, StatusCodesTell
  PROVE  Spec => Abstract!Spec
<1>1. Init => Abstract!Init
  BY DEF Init, Abstract!Init
<1>2. IInv /\ IInv' /\ [Next]_vars => [Abstract!Next]_(Abstract!vars)
  <2> SUFFICES ASSUME IInv, IInv', [Next]_vars
               PROVE  [Abstract!Next]_(Abstract!vars)
    OBVIOUS
  <2> USE DEF Abstract!Next, Abstract!vars
  <2>1. ASSUME NEW b \in Lbas, Call(b)
        PROVE  Abstract!Request(b)
    BY <2>1 DEF Call, Abstract!Request
  <2>2. CASE CheckStatus
    <3>1. CASE pc' = "done"
      BY <2>2, <3>1 DEF CheckStatus, Abstract!Answer, IInv, PcInv
    <3>2. CASE pc' = "failed"
      BY <2>2, <3>2 DEF CheckStatus, Abstract!Fail, IInv, TypeOK
    <3>3. CASE pc' = "get"
      BY <2>2, <3>3 DEF CheckStatus
    <3>4. QED
      BY <2>2, <3>1, <3>2, <3>3 DEF CheckStatus
  <2>3. CASE nvme_get_next_sqe
    BY <2>3, NotFull DEF nvme_get_next_sqe, IInv, CommandInv
  <2>4. CASE FillCommand \/ nvme_commit_sqe \/ nvme_wait
               \/ nvme_consume_cqe
    BY <2>4 DEF FillCommand, nvme_commit_sqe, nvme_wait, nvme_consume_cqe
  <2>5. CASE ControllerFetch \/ ControllerPost
    BY <2>5 DEF ControllerFetch, ControllerPost, driverVars
  <2>6. ASSUME NEW s \in Statuses, ControllerExecute(s)
        PROVE  UNCHANGED Abstract!vars
    <3>1. pc = "wait" /\ pc' = "wait" /\ lba' = lba /\ queue' = queue
      BY <2>6
         DEF ControllerExecute, driverVars, IInv, CommandInv, PcInv, Quiet,
             Outstanding, Submitted, Posted
    <3>2. QED
      BY <3>1
  <2>7. CASE UNCHANGED vars
    BY <2>7 DEF vars
  <2>8. QED
    BY <2>1, <2>2, <2>3, <2>4, <2>5, <2>6, <2>7 DEF Next, Driver, Controller
<1>3. QED
  BY <1>1, <1>2, Invariance, PTL DEF Spec, Abstract!Spec
=============================================================================
