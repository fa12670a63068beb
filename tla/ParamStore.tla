------------------------------ MODULE ParamStore ------------------------------
(***************************************************************************)
(* The system parameter manager (platform/common/params/wm_param.c): a     *)
(* parameter block in RAM, saved alternately to two flash partitions, each *)
(* copy stamped with a partition number, a 16-bit modify_count and a CRC.  *)
(* tls_param_init loads the undamaged copy with the larger modify_count.   *)
(*                                                                         *)
(* A task's call is a job: it takes sys_param_lock, runs param_to_flash    *)
(* and returns.  A run of param_to_flash is four steps: stamp the block,   *)
(* erase the sector, program it, verify it.  tls_param_to_default takes no *)
(* lock: it clears the block, fills it, runs param_to_flash twice and      *)
(* clears the magic, each a step of its own.  Power may fail between any   *)
(* two steps.                                                              *)
(***************************************************************************)
EXTENDS Integers

CONSTANTS
  Tasks,            \* tasks that call the parameter API
  Main,             \* the start-up task, which runs tls_param_init
  NoTask,           \* "the lock is free"
  Params,           \* parameter blocks (struct tls_sys_param)
  NoParams,         \* an erased or cleared block, or one half filled with defaults
  Mixed,            \* a block with parameters of several callers, as none wrote it
  FactoryDefault,   \* the block tls_param_load_factory_default builds
  NoCrc,            \* a checksum that fits no block
  CountMod,         \* modify_count is a u16: 2^16 in the code
  MaxCount,         \* bound: no new save is started at or above this count
  AllocMayFail,     \* TRUE if tls_mem_alloc may fail in tls_fls_write and verify
  ResetAllowed      \* TRUE if tls_param_to_default is called

ASSUME ConstAssumption ==
  /\ Main \notin Tasks /\ NoTask \notin Tasks \cup {Main}
  /\ FactoryDefault \in Params /\ NoParams \notin Params /\ Mixed \notin Params
  /\ CountMod \in Nat /\ MaxCount \in Nat /\ CountMod > 2
  /\ AllocMayFail \in BOOLEAN /\ ResetAllowed \in BOOLEAN

VARIABLES
  flash,    \* the two parameter sectors
  ram,      \* flash_param: partition_num, modify_count and parameters
  magic,    \* flash_param.magic is TLS_PARAM_MAGIC
  crc,      \* flash_param.crc32: the block it was computed over, or NoCrc
  mode,     \* "off", "boot" (tls_param_init is running) or "run"
  sem,      \* holder of sys_param_lock
  fls,      \* holder of the flash driver's fls_lock
  job,      \* what each task is doing
  lastOK,   \* the block last reported as saved (or loaded at start-up)
  pending   \* blocks whose save began after lastOK and was not reported as done

vars == <<flash, ram, magic, crc, mode, sem, fls, job, lastOK, pending>>

Slots == {0, 1}
Counts == 0 .. CountMod - 1
Callers == Tasks \cup {Main}

\* The part of struct tls_param_flash that the checksum covers.
Blocks == Params \cup {NoParams, Mixed}
Image == [part : Slots, cnt : Counts, par : Blocks]
Blank == [part |-> 0, cnt |-> 0, par |-> NoParams]

\* Power loss never leaves a checksum that happens to fit.
ASSUME NoCrcAssumption == NoCrc \notin Image

\* A sector; the checksum is represented by the image it was computed over.
Sector == [magic : BOOLEAN, img : Image, crc : Image \cup {NoCrc}]
Erased == [magic |-> FALSE, img |-> Blank, crc |-> NoCrc]

\* A call of a task: the step it is at, the modify_count and partition_num
\* arguments of its current param_to_flash (a negative number asks for the next
\* count and for the other partition) and the address being written.
Steps == {"idle", "fill", "stamp", "erase", "program", "verify", "unmark"}
JobType == [pc : Steps, cnt : {-1, 1}, part : {-1, 0, 1}, addr : Slots]
Job(cnt, part) == [pc |-> "stamp", cnt |-> cnt, part |-> part, addr |-> 0]
Idle == [pc |-> "idle", cnt |-> -1, part |-> -1, addr |-> 0]

TypeOK ==
  /\ flash \in [Slots -> Sector]
  /\ ram \in Image
  /\ magic \in BOOLEAN
  /\ crc \in Image \cup {NoCrc}
  /\ mode \in {"off", "boot", "run"}
  /\ sem \in Tasks \cup {NoTask}
  /\ fls \in Callers \cup {NoTask}
  /\ job \in [Callers -> JobType]
  /\ lastOK \in Blocks
  /\ pending \subseteq Blocks

-----------------------------------------------------------------------------
\* A partition counts as undamaged when its magic and its checksum are right.
Valid(s) == s.magic /\ s.crc = s.img

Damaged == {i \in Slots : ~Valid(flash[i])}

\* (fault) the first undamaged partition is loaded, whatever its count
BootSlotFirst(fl) == IF Valid(fl[0]) THEN 0 ELSE 1

\* The partition tls_param_init loads: slots are visited in order and a later
\* one wins only with a strictly larger modify_count.
BootSlot(fl) ==
  IF Valid(fl[0]) /\ ~(Valid(fl[1]) /\ fl[0].img.cnt < fl[1].img.cnt) THEN 0 ELSE 1

BootPar(fl) ==
  IF Valid(fl[0]) \/ Valid(fl[1]) THEN fl[BootSlot(fl)].img.par ELSE FactoryDefault

\* tls_param_get(id, argv, from_flash = 1) copies from this block, with neither
\* sys_param_lock nor a checksum test.
GetFromFlash == flash[ram.part].img.par

-----------------------------------------------------------------------------
Init ==
  /\ flash = [i \in Slots |-> Erased]
  /\ ram = Blank
  /\ magic = FALSE
  /\ crc = NoCrc
  /\ mode = "off"
  /\ sem = NoTask
  /\ fls = NoTask
  /\ job = [t \in Callers |-> Idle]
  /\ lastOK = FactoryDefault
  /\ pending = {}

\* (fault) a single damaged partition is left as it is
RepairBothOnly ==
  IF Damaged = Slots
    THEN mode' = "boot" /\ job' = [job EXCEPT ![Main] = Job(1, 0)]
    ELSE mode' = "run" /\ job' = job

\* The writes with which tls_param_init repairs the flash: the factory default
\* to both partitions, or the block just loaded to the damaged one.
Repair ==
  \/ /\ Damaged = {}
     /\ mode' = "run" /\ job' = job
  \/ /\ Damaged = Slots
     /\ mode' = "boot" /\ job' = [job EXCEPT ![Main] = Job(1, 0)]
  \/ \E i \in Slots :
       /\ Damaged = {i}
       /\ mode' = "boot" /\ job' = [job EXCEPT ![Main] = Job(-1, i)]

\* tls_param_init up to its first write: load the latest copy, or the factory
\* default when both are damaged, and start repairing the flash.
tls_param_init ==
  /\ mode = "off"
  /\ IF Damaged = Slots
       THEN /\ ram' = [Blank EXCEPT !.par = FactoryDefault]
            /\ magic' = FALSE
            /\ crc' = NoCrc
       ELSE /\ ram' = flash[BootSlot(flash)].img
            /\ magic' = TRUE
            /\ crc' = flash[BootSlot(flash)].crc
  /\ Repair
  /\ lastOK' = BootPar(flash)
  /\ pending' = {}
  /\ UNCHANGED <<flash, sem, fls>>

\* What setting a parameter makes of the block: another whole block, unless a
\* reset has cleared it and only one parameter of it is set.
WithParameter(p) == {p} \cup (IF ram.par \in Params THEN {} ELSE {Mixed})

\* tls_param_set(id, argv, to_flash): the block in memory changes; with to_flash
\* the whole block, not only this parameter, is then saved under the lock.
tls_param_set(t, p, to_flash) ==
  /\ mode = "run" /\ job[t].pc = "idle" /\ sem = NoTask
  /\ ram.cnt < MaxCount
  /\ \E b \in WithParameter(p) : ram' = [ram EXCEPT !.par = b]
  /\ IF to_flash
       THEN sem' = t /\ job' = [job EXCEPT ![t] = Job(-1, -1)]
       ELSE UNCHANGED <<sem, job>>
  /\ UNCHANGED <<flash, magic, crc, mode, fls, lastOK, pending>>

\* tls_param_to_flash(TLS_PARAM_ID_ALL) when the partition in use already holds
\* the parameters: success is reported and nothing is written.
FlushSame(t) ==
  /\ mode = "run" /\ job[t].pc = "idle" /\ sem = NoTask /\ fls = NoTask
  /\ flash[ram.part].img.par = ram.par
  /\ lastOK' = ram.par
  /\ pending' = {}
  /\ UNCHANGED <<flash, ram, magic, crc, mode, sem, fls, job>>

\* tls_param_to_flash that writes: it is given a single parameter's id, or the
\* parameters differ, or the block to compare them with cannot be allocated.
FlushWrites(t) ==
  /\ mode = "run" /\ job[t].pc = "idle" /\ sem = NoTask /\ fls = NoTask
  /\ ram.cnt < MaxCount
  /\ sem' = t
  /\ job' = [job EXCEPT ![t] = Job(-1, -1)]
  /\ UNCHANGED <<flash, ram, magic, crc, mode, fls, lastOK, pending>>

tls_param_to_flash(t) == FlushSame(t) \/ FlushWrites(t)

\* tls_param_to_default: no lock is taken.  tls_param_load_factory_default first
\* clears the whole block in memory ...
tls_param_to_default(t) ==
  /\ ResetAllowed
  /\ mode = "run" /\ job[t].pc = "idle"
  /\ ram.cnt < MaxCount
  /\ ram' = [ram EXCEPT !.par = NoParams]
  /\ job' = [job EXCEPT ![t].pc = "fill"]
  /\ UNCHANGED <<flash, magic, crc, mode, sem, fls, lastOK, pending>>

\* What filling in field by field makes of the block: the factory default, but
\* parameters set since it was cleared may stay, and another reset may have
\* cleared fields that this one had filled.
Filled(t) ==
  {FactoryDefault}
    \cup (IF ram.par \in {NoParams, FactoryDefault} THEN {} ELSE {Mixed})
    \cup (IF \E u \in Tasks \ {t} : job[u].pc = "fill" THEN {NoParams} ELSE {})

\* ... and then fills it, and goes on to write it to both partitions.
Fill(t) ==
  /\ job[t].pc = "fill"
  /\ \E b \in Filled(t) : ram' = [ram EXCEPT !.par = b]
  /\ job' = [job EXCEPT ![t] = Job(1, 0)]
  /\ UNCHANGED <<flash, magic, crc, mode, sem, fls, lastOK, pending>>

\* Whatever became of the second write, the reset ends by clearing the magic of
\* the block in memory, which another task's save may be about to program.
Unmark(t) ==
  /\ job[t].pc = "unmark"
  /\ magic' = FALSE
  /\ job' = [job EXCEPT ![t] = Idle]
  /\ UNCHANGED <<flash, ram, crc, mode, sem, fls, lastOK, pending>>

-----------------------------------------------------------------------------
(* The steps of param_to_flash for caller t. *)

\* (fault) every save goes to the partition in use
NextPartSame(req) == IF req.part < 0 THEN ram.part ELSE req.part

\* (fault) the partition number is not masked
NextPartUnmasked(req) == IF req.part < 0 THEN ram.part + 1 ELSE req.part

\* The partition a save goes to.
NextPart(req) == IF req.part < 0 THEN (ram.part + 1) % 2 ELSE req.part

\* The modify_count a save carries.
NextCount(req) == IF req.cnt < 0 THEN (ram.cnt + 1) % CountMod ELSE req.cnt

\* The count and the partition are advanced before anything is written, and the
\* address of the write is taken from them.
Stamp(t) ==
  /\ job[t].pc = "stamp"
  /\ LET img == [part |-> NextPart(job[t]), cnt |-> NextCount(job[t]), par |-> ram.par]
     IN /\ ram' = img
        /\ magic' = TRUE
        /\ crc' = img
        /\ job' = [job EXCEPT ![t].pc = "erase", ![t].addr = img.part]
        /\ pending' = pending \cup {img.par}
  /\ UNCHANGED <<flash, mode, sem, fls, lastOK>>

\* (fault) the lock is kept
ReturnLocked(t) ==
  /\ job' = [job EXCEPT ![t] = Idle]
  /\ sem' = sem
  /\ mode' = IF t = Main THEN "run" ELSE mode

\* The second write of tls_param_to_default.
LastOfReset(t) == t \in Tasks /\ job[t].cnt = 1 /\ job[t].part = 1

\* The call of t is over: the lock is released, start-up is finished.  A reset
\* has its last statement still to do.
Return(t) ==
  /\ job' = [job EXCEPT ![t] = IF LastOfReset(t) THEN [@ EXCEPT !.pc = "unmark"] ELSE Idle]
  /\ sem' = IF sem = t THEN NoTask ELSE sem
  /\ mode' = IF t = Main THEN "run" ELSE mode

\* tls_fls_write gives up without touching the flash, or param_flash_verify
\* cannot allocate its buffer: EIO, the stamp stays as it is.
AllocFails(t) ==
  /\ AllocMayFail
  /\ job[t].pc \in {"erase", "verify"} /\ fls = NoTask
  /\ Return(t)
  /\ UNCHANGED <<flash, ram, magic, crc, fls, lastOK, pending>>

Erase(t) ==
  /\ job[t].pc = "erase" /\ fls = NoTask
  /\ fls' = t
  /\ flash' = [flash EXCEPT ![job[t].addr] = Erased]
  /\ job' = [job EXCEPT ![t].pc = "program"]
  /\ UNCHANGED <<ram, magic, crc, mode, sem, lastOK, pending>>

Program(t) ==
  /\ job[t].pc = "program"
  /\ flash' = [flash EXCEPT ![job[t].addr] = [magic |-> magic, img |-> ram, crc |-> crc]]
  /\ fls' = NoTask
  /\ job' = [job EXCEPT ![t].pc = "verify"]
  /\ UNCHANGED <<ram, magic, crc, mode, sem, lastOK, pending>>

\* The factory default goes to partition 0 first, then to partition 1.
More(t) == job[t].cnt = 1 /\ job[t].part = 0

\* param_flash_verify compares the sector partition_num now names, byte by byte.
Matches == LET s == flash[ram.part] IN s.magic = magic /\ s.img = ram /\ s.crc = crc

VerifyMore(t) ==
  /\ job[t].pc = "verify" /\ fls = NoTask
  /\ Matches /\ More(t)
  /\ job' = [job EXCEPT ![t] = Job(1, 1)]
  /\ UNCHANGED <<flash, ram, magic, crc, mode, sem, fls, lastOK, pending>>

VerifyDone(t) ==
  /\ job[t].pc = "verify" /\ fls = NoTask
  /\ Matches /\ ~More(t)
  /\ Return(t)
  /\ lastOK' = ram.par
  /\ pending' = {}
  /\ UNCHANGED <<flash, ram, magic, crc, fls>>

VerifyFails(t) ==
  /\ job[t].pc = "verify" /\ fls = NoTask
  /\ ~Matches
  /\ Return(t)
  /\ UNCHANGED <<flash, ram, magic, crc, fls, lastOK, pending>>

param_to_flash(t) ==
  Stamp(t) \/ Erase(t) \/ Program(t) \/ VerifyMore(t) \/ VerifyDone(t)

-----------------------------------------------------------------------------
\* What programming has left in a sector when power is lost: nothing, the first
\* page with the header, or every page but the one with the checksum.
HalfWritten(par) ==
  [magic |-> magic, img |-> [ram EXCEPT !.par = par], crc |-> NoCrc]
Torn == {Erased, HalfWritten(NoParams), HalfWritten(ram.par)}

\* External: power is lost.
PowerLoss ==
  /\ mode # "off"
  /\ mode' = "off"
  /\ IF fls = NoTask
       THEN flash' = flash
       ELSE \E s \in Torn : flash' = [flash EXCEPT ![job[fls].addr] = s]
  /\ ram' = Blank
  /\ magic' = FALSE
  /\ crc' = NoCrc
  /\ sem' = NoTask
  /\ fls' = NoTask
  /\ job' = [t \in Callers |-> Idle]
  /\ UNCHANGED <<lastOK, pending>>

Next ==
  \/ tls_param_init
  \/ \E t \in Tasks :
       \/ \E p \in Params, to_flash \in BOOLEAN : tls_param_set(t, p, to_flash)
       \/ tls_param_to_flash(t)
       \/ tls_param_to_default(t) \/ Fill(t) \/ Unmark(t)
  \/ \E t \in Callers : param_to_flash(t) \/ AllocFails(t) \/ VerifyFails(t)
  \/ PowerLoss

\* Every call runs on in its task, and a powered-down device is powered up again.
Fairness ==
  /\ WF_vars(tls_param_init)
  /\ \A t \in Callers : WF_vars(param_to_flash(t) \/ VerifyFails(t) \/ Fill(t) \/ Unmark(t))

Spec == Init /\ [][Next]_vars /\ Fairness

-----------------------------------------------------------------------------
(* Properties *)

\* Whatever instant power fails at, the next tls_param_init loads the block last
\* reported as saved or one whose save was started since: the two-partition
\* scheme never falls back to an older block, nor to the factory default.
AckedSurvives == BootPar(flash) \in {lastOK} \cup pending

\* Whenever the flash driver is free, the partition that partition_num names
\* is undamaged, so that tls_param_get(from_flash) and the comparison in
\* tls_param_to_flash, which test no checksum, read a real block.
FlashReadable == mode = "run" /\ fls = NoTask => Valid(flash[ram.part])

\* Whenever no call is in progress both partitions are undamaged: start-up has
\* restored the spare copy before the first save can put the other at risk.
RedundancyKept ==
  mode = "run" /\ (\A t \in Callers : job[t].pc = "idle") => Damaged = {}

\* Whatever power losses, unlocked resets that run into saves, failed saves and
\* a wrapped count have left in the flash, a tls_param_init that reports no
\* error ends with both partitions undamaged, and a further start-up would load
\* the very block it has put in memory.
StartUpHeals ==
  [][mode # "run" /\ mode' = "run" /\ ~AllocFails(Main)
       => Damaged' = {} /\ BootPar(flash') = ram'.par]_vars

\* sys_param_lock is given back by every call that takes it.
LockReleased == \A t \in Tasks : sem = t ~> sem # t

\* The whole is one atomic, durable parameter block (ParamRegister).
Register == INSTANCE ParamRegister WITH
  stored <- BootPar(flash),
  working <- IF mode = "off" THEN FactoryDefault ELSE ram.par,
  live <- mode # "off"

\* tls_param_set, tls_param_to_flash and tls_param_init with power failing at
\* any step implement that block: erasing, programming and repairing sectors
\* never shows, and the stored block is replaced in one step by the whole
\* working copy.
AtomicBlock == Register!Spec

-----------------------------------------------------------------------------
(* The inductive invariant behind AckedSurvives and AtomicBlock, for devices  *)
(* where no allocation fails, no reset is run and the count has not wrapped.  *)

Reliable ==
  /\ AllocMayFail = FALSE /\ ResetAllowed = FALSE
  /\ 2 <= MaxCount /\ MaxCount < CountMod

Other(i) == 1 - i
Writing == {"erase", "program", "verify"}

\* Only one call at a time works on the block: start-up, or the lock's holder.
Exclusive ==
  /\ (job[Main].pc # "idle") <=> (mode = "boot")
  /\ \A t \in Tasks : (job[t].pc # "idle") <=> (sem = t)
  /\ sem # NoTask => mode = "run"
  /\ \A t \in Callers : fls = t <=> job[t].pc = "program"
  /\ \A t \in Callers : job[t].pc \notin {"fill", "unmark"}
  /\ \A t \in Tasks : job[t].pc # "idle" => job[t].cnt = -1 /\ job[t].part = -1
  /\ job[Main].pc # "idle" =>
       job[Main].part \in Slots /\ (job[Main].cnt = -1 \/ job[Main].cnt = 1)

\* Undamaged partitions know their number, are within the count's bound, agree
\* when their counts tie, and a single one leaves room for the repair's count.
Partitions ==
  /\ \A i \in Slots : Valid(flash[i]) =>
       /\ flash[i].img.part = i
       /\ flash[i].img.par \in Params
       /\ flash[i].img.cnt <= MaxCount
       /\ ~Valid(flash[Other(i)]) => flash[i].img.cnt < MaxCount
  /\ Valid(flash[0]) /\ Valid(flash[1]) /\ flash[0].img.cnt = flash[1].img.cnt
       => flash[0].img.par = flash[1].img.par

\* The block in memory and, once it is stamped, what is about to be written.
Block ==
  /\ mode # "off" => ram.par \in Params /\ ram.cnt <= MaxCount
  /\ \A t \in Callers : job[t].pc \in Writing =>
       job[t].addr = ram.part /\ magic /\ crc = ram /\ ram.par \in pending

\* Between calls, and until a save is stamped, the partition in use holds the
\* last saved block under the highest count, and the other one is a spare.
Quiet ==
  mode = "run" /\ (\A t \in Tasks : job[t].pc \notin Writing) =>
    /\ Valid(flash[0]) /\ Valid(flash[1])
    /\ flash[ram.part].img.cnt = ram.cnt
    /\ flash[ram.part].img.par = lastOK
    /\ flash[Other(ram.part)].img.cnt <= ram.cnt
    /\ \A t \in Tasks : job[t].pc = "stamp" => ram.cnt < MaxCount

\* From the stamp on, the other partition holds the last saved block under a
\* smaller count until the new one is complete.
Saving ==
  \A t \in Callers : job[t].pc \in Writing /\ job[t].cnt = -1 =>
    /\ Valid(flash[Other(ram.part)])
    /\ flash[Other(ram.part)].img.cnt < ram.cnt
    /\ flash[Other(ram.part)].img.par = lastOK
    /\ job[t].pc = "erase" /\ t \in Tasks => Valid(flash[ram.part])
    /\ job[t].pc # "verify" => BootPar(flash) = lastOK
    /\ job[t].pc = "program" => ~Valid(flash[ram.part])
    /\ job[t].pc = "verify" => flash[ram.part] = [magic |-> TRUE, img |-> ram, crc |-> ram]

\* Start-up repairs a damaged partition from the block it has just loaded.
Restoring ==
  /\ mode = "boot" => ram.par = lastOK
  /\ job[Main].pc = "stamp" /\ job[Main].cnt = -1 =>
       /\ ~Valid(flash[job[Main].part])
       /\ Valid(flash[Other(job[Main].part)])
       /\ ram = flash[Other(job[Main].part)].img
  /\ job[Main].pc \in Writing /\ job[Main].cnt = -1 => ram.part = job[Main].part

\* Start-up on a blank or ruined flash writes the factory default twice.
Formatting ==
  job[Main].pc # "idle" /\ job[Main].cnt = 1 =>
    /\ ram.par = FactoryDefault
    /\ job[Main].pc \in Writing => ram.cnt = 1 /\ ram.part = job[Main].part
    /\ job[Main].part = 0 =>
         /\ ~Valid(flash[1])
         /\ job[Main].pc # "verify" => ~Valid(flash[0])
    /\ job[Main].part = 1 =>
         /\ Valid(flash[0]) /\ flash[0].img.cnt = 1 /\ flash[0].img.par = FactoryDefault
         /\ job[Main].pc # "verify" => ~Valid(flash[1])
    /\ job[Main].pc = "verify" =>
         flash[ram.part] = [magic |-> TRUE, img |-> ram, crc |-> ram]

\* While the device runs or repairs its flash without the spare or the default
\* being at stake, AckedSurvives follows from the parts above; off, it is kept.
IInv ==
  /\ TypeOK
  /\ Exclusive
  /\ Partitions
  /\ Block
  /\ Quiet
  /\ Saving
  /\ Restoring
  /\ Formatting
  /\ AckedSurvives
=============================================================================
