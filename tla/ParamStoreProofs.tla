--------------------------- MODULE ParamStoreProofs ---------------------------
(* Proofs about the parameter manager, for any number of tasks and any set   *)
(* of parameter blocks.                                                      *)
EXTENDS ParamStore, TLAPS

LEMMA TypeInit == Init => TypeOK
<1> SUFFICES ASSUME Init PROVE TypeOK
  OBVIOUS
<1>1. magic \in BOOLEAN
  BY DEF Init
<1>2. Erased \in Sector /\ Blank \in Image
  BY ConstAssumption DEF Erased, Sector, Blank, Image, Blocks, Slots, Counts
<1> QED
  BY <1>1, <1>2, ConstAssumption
     DEF Init, TypeOK, Blocks, JobType, Idle, Steps, Callers, Slots

LEMMA TypeStep == TypeOK /\ [Next]_vars => TypeOK'
<1> USE ConstAssumption
<1> SUFFICES ASSUME TypeOK, [Next]_vars PROVE TypeOK'
  OBVIOUS
<1> USE DEF TypeOK, Sector, Image, Blocks, Slots, Counts, JobType, Steps, Callers
<1>1. CASE tls_param_init
  <2>1. BootSlot(flash) \in Slots
    BY DEF BootSlot
  <2>2. ram' \in Image /\ crc' \in Image \cup {NoCrc}
    BY <1>1, <2>1 DEF tls_param_init, Blank
  <2>3. lastOK' \in Blocks
    BY <1>1, <2>1 DEF tls_param_init, BootPar
  <2>4. mode' \in {"off", "boot", "run"} /\ job' \in [Callers -> JobType]
    BY <1>1 DEF tls_param_init, Repair, Job
  <2> QED
    BY <1>1, <2>2, <2>3, <2>4 DEF tls_param_init
<1>2. ASSUME NEW t \in Tasks, NEW p \in Params, NEW f \in BOOLEAN, tls_param_set(t, p, f)
      PROVE TypeOK'
  BY <1>2 DEF tls_param_set, WithParameter, Job
<1>3. ASSUME NEW t \in Tasks, tls_param_to_flash(t) PROVE TypeOK'
  <2>1. CASE FlushSame(t)
    BY <2>1 DEF FlushSame
  <2>2. CASE FlushWrites(t)
    BY <2>2 DEF FlushWrites, Job
  <2> QED
    BY <1>3, <2>1, <2>2 DEF tls_param_to_flash
<1>4. ASSUME NEW t \in Tasks, tls_param_to_default(t) PROVE TypeOK'
  BY <1>4 DEF tls_param_to_default
<1>4a. ASSUME NEW t \in Tasks, Fill(t) PROVE TypeOK'
  BY <1>4a DEF Fill, Filled, Job
<1>4b. ASSUME NEW t \in Tasks, Unmark(t) PROVE TypeOK'
  BY <1>4b DEF Unmark, Idle
<1>5. ASSUME NEW t \in Callers, Stamp(t) PROVE TypeOK'
  <2>1. NextPart(job[t]) \in Slots /\ NextCount(job[t]) \in Counts
    BY DEF NextPart, NextCount
  <2> QED
    BY <1>5, <2>1 DEF Stamp
<1>6. ASSUME NEW t \in Callers, Erase(t) PROVE TypeOK'
  BY <1>6 DEF Erase, Erased, Blank
<1>7. ASSUME NEW t \in Callers, Program(t) PROVE TypeOK'
  BY <1>7 DEF Program
<1>8. ASSUME NEW t \in Callers, VerifyMore(t) PROVE TypeOK'
  BY <1>8 DEF VerifyMore, Job
<1>9. ASSUME NEW t \in Callers, VerifyDone(t) PROVE TypeOK'
  BY <1>9 DEF VerifyDone, Return, LastOfReset, Idle
<1>10. ASSUME NEW t \in Callers, AllocFails(t) \/ VerifyFails(t) PROVE TypeOK'
  BY <1>10 DEF AllocFails, VerifyFails, Return, LastOfReset, Idle
<1>11. CASE PowerLoss
  <2>1. flash' \in [Slots -> Sector]
    <3>1. \A s \in Torn : s \in Sector
      <4>1. Erased \in Sector
        BY DEF Erased, Blank
      <4>2. ASSUME NEW p \in Blocks PROVE HalfWritten(p) \in Sector
        <5>1. [ram EXCEPT !.par = p] \in Image
          OBVIOUS
        <5> QED
          BY <5>1 DEF HalfWritten
      <4> QED
        BY <4>1, <4>2 DEF Torn
    <3> QED
      BY <1>11, <3>1 DEF PowerLoss
  <2>2. magic' \in BOOLEAN
    BY <1>11 DEF PowerLoss
  <2> QED
    BY <1>11, <2>1, <2>2 DEF PowerLoss, Blank, Idle
<1>12. CASE UNCHANGED vars
  BY <1>12 DEF vars
<1> QED
  BY <1>1, <1>2, <1>3, <1>4, <1>4a, <1>4b, <1>5, <1>6, <1>7, <1>8, <1>9, <1>10, <1>11, <1>12
     DEF Next, param_to_flash

\* Each step keeps every field of struct tls_param_flash, of the sectors and of
\* the calls in range, whatever fails and whoever races: type correctness of
\* wm_param.c's state, including a modify_count that wraps.
THEOREM TypeCorrect == Spec => []TypeOK
BY TypeInit, TypeStep, PTL DEF Spec

-----------------------------------------------------------------------------
(* Power loss, for a device without allocation failures and resets. *)

\* tls_param_init loads the parameters of an undamaged partition i whose count
\* the other one does not exceed, also when equal blocks tie.
LEMMA BootOfNewest ==
  ASSUME NEW fl \in [Slots -> Sector], NEW i \in Slots, Valid(fl[i]),
         Valid(fl[Other(i)]) =>
           \/ fl[Other(i)].img.cnt < fl[i].img.cnt
           \/ fl[Other(i)].img.cnt = fl[i].img.cnt /\ fl[Other(i)].img.par = fl[i].img.par
  PROVE  BootPar(fl) = fl[i].img.par
<1>1. CASE i = 0
  BY <1>1, ConstAssumption DEF BootPar, BootSlot, Other, Slots, Sector, Image, Counts
<1>2. CASE i = 1
  BY <1>2, ConstAssumption DEF BootPar, BootSlot, Other, Slots, Sector, Image, Counts
<1> QED
  BY <1>1, <1>2 DEF Slots
LEMMA InvInit == Reliable /\ Init => IInv
<1> SUFFICES ASSUME Reliable, Init PROVE IInv
  OBVIOUS
<1>1. \A i \in Slots : ~Valid(flash[i])
  BY DEF Init, Valid, Erased
<1>2. TypeOK /\ Exclusive /\ Partitions /\ Block
  BY <1>1, TypeInit, ConstAssumption
     DEF Init, Exclusive, Partitions, Block, Callers, Idle, Writing, Slots
<1>3. Quiet /\ Saving /\ Restoring /\ Formatting
  BY <1>1, ConstAssumption
     DEF Init, Quiet, Saving, Restoring, Formatting, Callers, Idle, Writing
<1>4. AckedSurvives
  BY <1>1 DEF Init, AckedSurvives, BootPar, Slots
<1> QED
  BY <1>2, <1>3, <1>4 DEF IInv

LEMMA QuietBoot ==
  ASSUME IInv, mode = "run", \A t \in Tasks : job[t].pc \notin Writing
  PROVE  BootPar(flash) = lastOK /\ flash[ram.part].img.par = lastOK
<1>1. ram.part \in Slots /\ flash \in [Slots -> Sector]
  BY DEF IInv, TypeOK, Image
<1>2. Valid(flash[ram.part]) /\ flash[ram.part].img.par = lastOK
  BY <1>1 DEF IInv, Quiet, Slots
<1>3. \/ flash[Other(ram.part)].img.cnt < flash[ram.part].img.cnt
      \/ /\ flash[Other(ram.part)].img.cnt = flash[ram.part].img.cnt
         /\ flash[Other(ram.part)].img.par = flash[ram.part].img.par
  BY <1>1 DEF IInv, Quiet, Partitions, Slots, Other, Sector, Image, Counts
<1> QED
  BY <1>1, <1>2, <1>3, BootOfNewest

LEMMA SetKeeps ==
  ASSUME Reliable, IInv, NEW t \in Tasks, NEW p \in Params, NEW f \in BOOLEAN, tls_param_set(t, p, f)
  PROVE  IInv'
<1> USE ConstAssumption DEF Reliable, IInv, TypeOK, Callers, Slots, JobType
<1>0. TypeOK'
  BY TypeStep DEF Next
<1>1. Exclusive'
  BY DEF tls_param_set, WithParameter, Job, Image, Counts, Exclusive, Writing, Exclusive
<1>2. Partitions'
  BY DEF tls_param_set, WithParameter, Job, Image, Counts, Exclusive, Writing, Partitions
<1>3. Block'
  BY DEF tls_param_set, WithParameter, Job, Image, Counts, Exclusive, Writing, Block
<1>4. Quiet'
  BY DEF tls_param_set, WithParameter, Job, Image, Counts, Exclusive, Writing, Quiet
<1>5. Saving'
  BY DEF tls_param_set, WithParameter, Job, Image, Counts, Exclusive, Writing, Saving
<1>6. Restoring'
  BY DEF tls_param_set, WithParameter, Job, Image, Counts, Exclusive, Writing, Restoring
<1>7. Formatting'
  BY DEF tls_param_set, WithParameter, Job, Image, Counts, Exclusive, Writing, Formatting
<1>8. AckedSurvives'
  BY DEF tls_param_set, WithParameter, Job, Image, Counts, Exclusive, Writing, AckedSurvives
<1> QED
  BY <1>0, <1>1, <1>2, <1>3, <1>4, <1>5, <1>6, <1>7, <1>8

LEMMA FlushSameKeeps ==
  ASSUME Reliable, IInv, NEW t \in Tasks, FlushSame(t)
  PROVE  IInv'
<1> USE ConstAssumption DEF Reliable, IInv, TypeOK, Callers, Slots, JobType
<1>0. TypeOK'
  BY TypeStep DEF Next, tls_param_to_flash
<1>1. Exclusive'
  BY DEF FlushSame, Exclusive, Quiet, Writing, Exclusive
<1>2. Partitions'
  BY DEF FlushSame, Exclusive, Quiet, Writing, Partitions
<1>3. Block'
  BY DEF FlushSame, Exclusive, Quiet, Writing, Block
<1>4. Quiet'
  BY DEF FlushSame, Exclusive, Quiet, Writing, Quiet
<1>5. Saving'
  BY DEF FlushSame, Exclusive, Quiet, Writing, Saving
<1>6. Restoring'
  BY DEF FlushSame, Exclusive, Quiet, Writing, Restoring
<1>7. Formatting'
  BY DEF FlushSame, Exclusive, Quiet, Writing, Formatting
<1>8. AckedSurvives'
  BY QuietBoot DEF FlushSame, Exclusive, Quiet, Writing, AckedSurvives
<1> QED
  BY <1>0, <1>1, <1>2, <1>3, <1>4, <1>5, <1>6, <1>7, <1>8

LEMMA FlushWritesKeeps ==
  ASSUME Reliable, IInv, NEW t \in Tasks, FlushWrites(t)
  PROVE  IInv'
<1> USE ConstAssumption DEF Reliable, IInv, TypeOK, Callers, Slots, JobType
<1>0. TypeOK'
  BY TypeStep DEF Next, tls_param_to_flash
<1>1. Exclusive'
  BY DEF FlushWrites, Job, Exclusive, Writing, Exclusive
<1>2. Partitions'
  BY DEF FlushWrites, Job, Exclusive, Writing, Partitions
<1>3. Block'
  BY DEF FlushWrites, Job, Exclusive, Writing, Block
<1>4. Quiet'
  BY DEF FlushWrites, Job, Exclusive, Writing, Quiet
<1>5. Saving'
  BY DEF FlushWrites, Job, Exclusive, Writing, Saving
<1>6. Restoring'
  BY DEF FlushWrites, Job, Exclusive, Writing, Restoring
<1>7. Formatting'
  BY DEF FlushWrites, Job, Exclusive, Writing, Formatting
<1>8. AckedSurvives'
  BY DEF FlushWrites, Job, Exclusive, Writing, AckedSurvives
<1> QED
  BY <1>0, <1>1, <1>2, <1>3, <1>4, <1>5, <1>6, <1>7, <1>8

\* Below the bound the count does not wrap.
LEMMA CountAdvances ==
  ASSUME Reliable, TypeOK, NEW t, job[t].cnt = -1, ram.cnt < MaxCount
  PROVE  NextCount(job[t]) = ram.cnt + 1
BY ConstAssumption DEF Reliable, TypeOK, NextCount, Image, Counts

LEMMA StampKeeps ==
  ASSUME Reliable, IInv, NEW t \in Callers, Stamp(t)
  PROVE  IInv'
<1> USE ConstAssumption DEF Reliable, IInv, TypeOK, Callers, Slots, JobType
<1>0. TypeOK'
  BY TypeStep DEF Next, param_to_flash
<1>1. Exclusive'
  BY DEF Stamp, Exclusive
<1>2. Partitions'
  BY DEF Stamp, Partitions, Valid, Other
<1>3. Block'
  <2>1. mode # "off" /\ mode' = mode /\ job[t].pc = "stamp"
    BY DEF Stamp, Exclusive
  <2>2. ram'.par = ram.par /\ ram.par \in Params
    BY <2>1 DEF Stamp, Block
  <2>3. ram'.cnt <= MaxCount
    <3>1. CASE t \in Tasks
      <4>1. mode = "run" /\ job[t].cnt = -1 /\ \A c \in Tasks : job[c].pc \notin Writing
        BY <2>1, <3>1 DEF Exclusive, Writing
      <4>2. ram.cnt < MaxCount
        BY <2>1, <3>1, <4>1 DEF Quiet
      <4>3. NextCount(job[t]) = ram.cnt + 1
        BY <4>1, <4>2, CountAdvances
      <4>4. QED BY <4>2, <4>3 DEF Stamp, Image, Counts
    <3>2. CASE t = Main /\ job[t].cnt = -1
      <4>1. ram.cnt < MaxCount
        BY <2>1, <3>2 DEF Restoring, Partitions, Other, Exclusive
      <4>2. ram'.cnt = ram.cnt + 1
        BY <3>2, <4>1, CountAdvances DEF Stamp
      <4>3. QED BY <4>1, <4>2 DEF Image, Counts
    <3>3. CASE t = Main /\ job[t].cnt = 1
      BY <3>3 DEF Stamp, NextCount
    <3>4. QED BY <2>1, <3>1, <3>2, <3>3 DEF Exclusive
  <2>4. ASSUME NEW c \in Callers, job'[c].pc \in Writing
        PROVE  job'[c].addr = ram'.part /\ magic' /\ crc' = ram' /\ ram'.par \in pending'
    <3>1. c = t
      BY <2>4 DEF Stamp, Exclusive, Writing
    <3>2. QED BY <3>1 DEF Stamp
  <2>5. QED BY <2>1, <2>2, <2>3, <2>4 DEF Block
<1>4. Quiet'
  BY DEF Stamp, Quiet, Exclusive, Writing
<1>5. Saving'
  <2>1. CASE t \in Tasks
    <3>0. /\ mode = "run" /\ \A c \in Tasks : job[c].pc \notin Writing
          /\ job[t].pc = "stamp" /\ job[t].cnt = -1 /\ job[t].part = -1
      BY <2>1 DEF Stamp, Exclusive, Writing
    <3>1. ram'.part = Other(ram.part) /\ ram'.cnt = ram.cnt + 1 /\ Other(ram'.part) = ram.part
      <4>1. NextPart(job[t]) = Other(ram.part)
        BY <3>0 DEF NextPart, Image, Other
      <4>2. ram.cnt < MaxCount
        BY <2>1, <3>0 DEF Quiet
      <4>3. NextCount(job[t]) = ram.cnt + 1
        BY <3>0, <4>2, CountAdvances
      <4>4. ram'.part = NextPart(job[t]) /\ ram'.cnt = NextCount(job[t])
        BY DEF Stamp
      <4>5. Other(Other(ram.part)) = ram.part
        BY DEF Image, Other
      <4>6. QED
        BY <4>1, <4>3, <4>4, <4>5
    <3>2. /\ Valid(flash[ram.part]) /\ flash[ram.part].img.cnt = ram.cnt
          /\ flash[ram.part].img.par = lastOK
      BY <2>1 DEF Stamp, Exclusive, Quiet, Writing, Image
    <3>3. \A c \in Callers : job'[c].pc \in Writing => c = t /\ job'[c].pc = "erase"
      BY <2>1 DEF Stamp, Exclusive, Writing
    <3>4. Valid(flash[Other(ram.part)])
      BY <2>1 DEF Stamp, Exclusive, Quiet, Writing, Image, Other
    <3>5. BootPar(flash) = lastOK
      BY <2>1, QuietBoot DEF Stamp, Exclusive, Writing
    <3> QED
      BY <3>1, <3>2, <3>3, <3>4, <3>5 DEF Stamp, Saving, Image, Counts
  <2>2. CASE t = Main
    <3>1. CASE job[t].cnt = -1
      <4>1. /\ ram' = [part |-> job[t].part, cnt |-> ram.cnt + 1, par |-> ram.par]
            /\ job[t].part \in Slots
        BY <2>2, <3>1 DEF Stamp, NextPart, NextCount, Exclusive, Restoring, Partitions, Block, Image, Counts, Other
      <4>2. /\ Valid(flash[Other(job[t].part)]) /\ flash[Other(job[t].part)].img.cnt = ram.cnt
            /\ flash[Other(job[t].part)].img.par = lastOK
        BY <2>2, <3>1 DEF Stamp, Exclusive, Restoring
      <4>3. \A c \in Callers : job'[c].pc \in Writing => c = t /\ job'[c].pc = "erase"
        BY <2>2 DEF Stamp, Exclusive, Writing
      <4>4. BootPar(flash) = lastOK
        BY <2>2, <3>1, <4>1, <4>2 DEF Stamp, Restoring, BootPar, BootSlot, Other
      <4> QED
        BY <2>2, <4>1, <4>2, <4>3, <4>4 DEF Stamp, Saving, Image, Counts
    <3>2. CASE job[t].cnt = 1
      BY <2>2, <3>2 DEF Stamp, Exclusive, Saving, Writing
    <3> QED
      BY <3>1, <3>2
  <2> QED
    BY <2>1, <2>2
<1>6. Restoring'
  BY DEF Stamp, NextPart, NextCount, Exclusive, Restoring, Writing
<1>7. Formatting'
  BY DEF Stamp, NextPart, NextCount, Exclusive, Formatting, Writing
<1>8. AckedSurvives'
  BY DEF Stamp, Exclusive, AckedSurvives
<1> QED
  BY <1>0, <1>1, <1>2, <1>3, <1>4, <1>5, <1>6, <1>7, <1>8

LEMMA EraseKeeps ==
  ASSUME Reliable, IInv, NEW t \in Callers, Erase(t)
  PROVE  IInv'
<1> USE ConstAssumption DEF Reliable, IInv, TypeOK, Callers, Slots, JobType
<1>0. TypeOK'
  BY TypeStep DEF Next, param_to_flash
<1>a. BootPar(flash') = lastOK
  <2>1. ~Valid(flash'[ram.part]) /\ flash'[Other(ram.part)] = flash[Other(ram.part)]
    BY DEF Erase, Erased, Valid, Other, Block, Writing, Image
  <2>2. ram.part \in Slots /\ Other(ram.part) \in Slots /\ Other(Other(ram.part)) = ram.part
    BY DEF Image, Other
  <2>3. CASE job[t].cnt = -1
    <3>1. Valid(flash'[Other(ram.part)]) /\ flash'[Other(ram.part)].img.par = lastOK
      BY <2>1, <2>3 DEF Erase, Saving, Writing
    <3> QED
      BY <1>0, <2>1, <2>2, <3>1, BootOfNewest DEF TypeOK
  <2>4. CASE job[t].cnt = 1
    <3>1. lastOK = FactoryDefault /\ ram.part = job[t].part /\ t = Main
      BY <2>4 DEF Erase, Exclusive, Restoring, Formatting, Writing
    <3>2. BootPar(flash') = FactoryDefault
      BY <2>1, <2>4, <3>1 DEF Erase, Exclusive, Formatting, BootPar, BootSlot, Other, Writing
    <3> QED
      BY <3>1, <3>2
  <2> QED
    BY <2>3, <2>4
<1>1. Exclusive'
  BY DEF Erase, Erased, Valid, Other, Exclusive, Block, Saving, Restoring, Formatting, Partitions, Writing, Exclusive
<1>2. Partitions'
  <2>1. ~Valid(flash'[ram.part]) /\ flash'[Other(ram.part)] = flash[Other(ram.part)]
    BY DEF Erase, Erased, Valid, Other, Block, Writing, Image
  <2>2. Valid(flash[Other(ram.part)]) => flash[Other(ram.part)].img.cnt < MaxCount
    <3>1. CASE job[t].cnt = -1
      BY <3>1 DEF Erase, Saving, Block, Writing, Exclusive, Sector, Image, Counts, Other
    <3>2. CASE job[t].cnt = 1
      BY <3>2 DEF Erase, Formatting, Exclusive, Writing, Other
    <3> QED
      BY <3>1, <3>2
  <2> QED
    BY <2>1, <2>2 DEF Partitions, Image, Other
<1>3. Block'
  BY DEF Erase, Erased, Valid, Other, Exclusive, Block, Saving, Restoring, Formatting, Partitions, Writing, Block
<1>4. Quiet'
  BY DEF Erase, Erased, Valid, Other, Exclusive, Block, Saving, Restoring, Formatting, Partitions, Writing, Quiet
<1>5. Saving'
  <2> SUFFICES ASSUME NEW c \in Callers, job'[c].pc \in Writing, job'[c].cnt = -1
               PROVE  /\ Valid(flash'[Other(ram.part)])
                      /\ flash'[Other(ram.part)].img.cnt < ram.cnt
                      /\ flash'[Other(ram.part)].img.par = lastOK
                      /\ job'[c].pc = "program"
                      /\ ~Valid(flash'[ram.part])
    BY <1>a DEF Erase, Saving
  <2>1. c = t
    BY DEF Erase, Exclusive, Writing
  <2> QED
    BY <2>1 DEF Erase, Erased, Valid, Other, Saving, Block, Writing, Image
<1>6. Restoring'
  BY DEF Erase, Erased, Valid, Other, Exclusive, Block, Saving, Restoring, Formatting, Partitions, Writing, Restoring
<1>7. Formatting'
  BY DEF Erase, Erased, Valid, Other, Exclusive, Block, Saving, Restoring, Formatting, Partitions, Writing, Formatting
<1>8. AckedSurvives'
  BY <1>a DEF Erase, AckedSurvives
<1> QED
  BY <1>0, <1>1, <1>2, <1>3, <1>4, <1>5, <1>6, <1>7, <1>8

LEMMA ProgramKeeps ==
  ASSUME Reliable, IInv, NEW t \in Callers, Program(t)
  PROVE  IInv' /\ BootPar(flash') = ram.par
<1> USE ConstAssumption DEF Reliable, IInv, TypeOK, Callers, Slots, JobType
<1>0. TypeOK'
  BY TypeStep DEF Next, param_to_flash
<1>a. /\ flash'[ram.part] = [magic |-> TRUE, img |-> ram, crc |-> ram]
      /\ flash'[Other(ram.part)] = flash[Other(ram.part)]
      /\ Valid(flash'[ram.part])
  <2>1. job[t].addr = ram.part /\ magic /\ crc = ram /\ ram.part \in Slots
    BY DEF Program, Block, Writing, Image
  <2>2. /\ flash'[ram.part] = [magic |-> TRUE, img |-> ram, crc |-> ram]
        /\ flash'[Other(ram.part)] = flash[Other(ram.part)]
    BY <2>1 DEF Program, Other
  <2> QED
    BY <2>2 DEF Valid
<1>b. ram.part \in Slots /\ Other(ram.part) \in Slots /\ Other(Other(ram.part)) = ram.part
  BY DEF Image, Other
<1>c. Valid(flash[Other(ram.part)]) =>
        \/ flash[Other(ram.part)].img.cnt < ram.cnt
        \/ flash[Other(ram.part)].img.cnt = ram.cnt /\ flash[Other(ram.part)].img.par = ram.par
  <2>1. CASE job[t].cnt = -1
    BY <2>1 DEF Program, Saving, Writing
  <2>2. CASE job[t].cnt = 1
    BY <2>2 DEF Program, Formatting, Exclusive, Writing, Other
  <2> QED
    BY <2>1, <2>2
<1>d. ram.par \in Params /\ ram.cnt <= MaxCount /\ ram.par \in pending
  BY DEF Program, Block, Exclusive, Writing
<1>e. ~Valid(flash[Other(ram.part)]) => ram.cnt < MaxCount
  <2>1. CASE job[t].cnt = -1
    BY <2>1 DEF Program, Saving, Writing
  <2>2. CASE job[t].cnt = 1
    BY <2>2 DEF Program, Formatting, Exclusive, Writing, Image, Counts
  <2> QED
    BY <2>1, <2>2
<1>f. BootPar(flash') = ram.par
  BY <1>0, <1>a, <1>b, <1>c, BootOfNewest DEF TypeOK
<1>1. Exclusive'
  BY DEF Program, Valid, Other, Exclusive, Block, Saving, Restoring, Formatting, Partitions, Writing, Exclusive
<1>2. Partitions'
  <2>1. \A i \in Slots : i = ram.part \/ i = Other(ram.part)
    BY DEF Image, Other
  <2>2. ASSUME NEW i \in Slots, Valid(flash'[i])
        PROVE  /\ flash'[i].img.part = i
               /\ flash'[i].img.par \in Params
               /\ flash'[i].img.cnt <= MaxCount
               /\ ~Valid(flash'[Other(i)]) => flash'[i].img.cnt < MaxCount
    BY <1>a, <1>b, <1>d, <1>e, <2>1, <2>2 DEF Partitions
  <2>3. Valid(flash'[0]) /\ Valid(flash'[1]) /\ flash'[0].img.cnt = flash'[1].img.cnt
          => flash'[0].img.par = flash'[1].img.par
    BY <1>a, <1>b, <1>c DEF Other, Image, Counts, Sector
  <2> QED
    BY <2>2, <2>3 DEF Partitions
<1>3. Block'
  BY DEF Program, Valid, Other, Exclusive, Block, Saving, Restoring, Formatting, Partitions, Writing, Block
<1>4. Quiet'
  BY DEF Program, Valid, Other, Exclusive, Block, Saving, Restoring, Formatting, Partitions, Writing, Quiet
<1>5. Saving'
  <2> SUFFICES ASSUME NEW c \in Callers, job'[c].pc \in Writing, job'[c].cnt = -1
               PROVE  /\ Valid(flash'[Other(ram.part)])
                      /\ flash'[Other(ram.part)].img.cnt < ram.cnt
                      /\ flash'[Other(ram.part)].img.par = lastOK
                      /\ job'[c].pc = "verify"
                      /\ flash'[ram.part] = [magic |-> TRUE, img |-> ram, crc |-> ram]
    BY DEF Program, Saving
  <2>1. c = t
    BY DEF Program, Exclusive, Writing
  <2> QED
    BY <1>a, <2>1 DEF Program, Saving, Writing
<1>6. Restoring'
  BY DEF Program, Valid, Other, Exclusive, Block, Saving, Restoring, Formatting, Partitions, Writing, Restoring
<1>7. Formatting'
  <2>1. CASE job[Main].part = 0
    BY <1>a, <2>1 DEF Program, Exclusive, Formatting, Writing, Other
  <2>2. CASE job[Main].part = 1
    BY <1>a, <2>2 DEF Program, Exclusive, Formatting, Writing, Other
  <2>3. job[Main].pc # "idle" => job[Main].part \in Slots
    BY DEF Exclusive
  <2> QED
    BY <2>1, <2>2, <2>3 DEF Program, Exclusive, Formatting
<1>8. AckedSurvives'
  BY <1>d, <1>f DEF Program, AckedSurvives
<1> QED
  BY <1>f, <1>0, <1>1, <1>2, <1>3, <1>4, <1>5, <1>6, <1>7, <1>8

LEMMA VerifyMoreKeeps ==
  ASSUME Reliable, IInv, NEW t \in Callers, VerifyMore(t)
  PROVE  IInv'
<1> USE ConstAssumption DEF Reliable, IInv, TypeOK, Callers, Slots, JobType
<1>0. TypeOK'
  BY TypeStep DEF Next, param_to_flash
<1>1. Exclusive'
  BY DEF VerifyMore, More, Job, Valid, Other, Exclusive, Block, Formatting, Writing, Exclusive
<1>2. Partitions'
  BY DEF VerifyMore, More, Job, Valid, Other, Exclusive, Block, Formatting, Writing, Partitions
<1>3. Block'
  BY DEF VerifyMore, More, Job, Valid, Other, Exclusive, Block, Formatting, Writing, Block
<1>4. Quiet'
  BY DEF VerifyMore, More, Job, Valid, Other, Exclusive, Block, Formatting, Writing, Quiet
<1>5. Saving'
  BY DEF VerifyMore, More, Job, Valid, Other, Exclusive, Block, Formatting, Writing, Saving
<1>6. Restoring'
  BY DEF VerifyMore, More, Job, Valid, Other, Exclusive, Block, Formatting, Writing, Restoring
<1>7. Formatting'
  BY DEF VerifyMore, More, Job, Valid, Other, Exclusive, Block, Formatting, Writing, Formatting
<1>8. AckedSurvives'
  BY DEF VerifyMore, More, Job, Valid, Other, Exclusive, Block, Formatting, Writing, AckedSurvives
<1> QED
  BY <1>0, <1>1, <1>2, <1>3, <1>4, <1>5, <1>6, <1>7, <1>8

LEMMA VerifyDoneKeeps ==
  ASSUME Reliable, IInv, NEW t \in Callers, VerifyDone(t)
  PROVE  IInv'
<1> USE ConstAssumption DEF Reliable, IInv, TypeOK, Callers, Slots, JobType
<1>0. TypeOK'
  BY TypeStep DEF Next, param_to_flash
<1>1. Exclusive'
  BY DEF VerifyDone, Return, LastOfReset, Idle, More, Valid, Other, Exclusive, Block, Saving, Formatting, Writing, Exclusive
<1>2. Partitions'
  BY DEF VerifyDone, Return, LastOfReset, Idle, More, Valid, Other, Exclusive, Block, Saving, Formatting, Writing, Partitions
<1>3. Block'
  BY DEF VerifyDone, Return, LastOfReset, Idle, More, Valid, Other, Exclusive, Block, Saving, Formatting, Writing, Block
<1>4. Quiet'
  <2>1. ASSUME job[t].cnt = -1 PROVE Quiet'
    <3>1. /\ Valid(flash[ram.part]) /\ Valid(flash[Other(ram.part)])
          /\ flash[ram.part].img = ram
          /\ flash[Other(ram.part)].img.cnt < ram.cnt
      BY <2>1 DEF VerifyDone, Saving, Writing, Valid
    <3>2. Valid(flash[0]) /\ Valid(flash[1])
      BY <3>1 DEF Image, Other
    <3> QED
      BY <3>1, <3>2 DEF VerifyDone, Return, LastOfReset, Idle, Exclusive, Quiet, Writing, Sector, Image, Counts, Other
  <2>2. ASSUME job[t].cnt = 1 PROVE Quiet'
    <3>1. t = Main /\ job[t].part = 1 /\ ram.part = 1 /\ ram.cnt = 1
      BY <2>2 DEF VerifyDone, More, Exclusive, Formatting, Writing
    <3>2. Valid(flash[0]) /\ Valid(flash[1]) /\ flash[1].img = ram /\ flash[0].img.cnt = 1
      BY <2>2, <3>1 DEF VerifyDone, Formatting, Valid
    <3> QED
      BY <3>1, <3>2 DEF VerifyDone, Return, LastOfReset, Idle, Exclusive, Quiet, Writing, Other
  <2> QED
    BY <2>1, <2>2
<1>5. Saving'
  BY DEF VerifyDone, Return, LastOfReset, Idle, More, Valid, Other, Exclusive, Block, Saving, Formatting, Writing, Saving
<1>6. Restoring'
  BY DEF VerifyDone, Return, LastOfReset, Idle, More, Valid, Other, Exclusive, Block, Saving, Formatting, Writing, Restoring
<1>7. Formatting'
  BY DEF VerifyDone, Return, LastOfReset, Idle, More, Valid, Other, Exclusive, Block, Saving, Formatting, Writing, Formatting
<1>8. AckedSurvives'
  <2>1. mode' = "run" /\ \A c \in Tasks : job'[c].pc \notin Writing
    BY <1>1 DEF VerifyDone, Return, LastOfReset, Idle, Exclusive, Writing
  <2>2. flash' = flash /\ ram' = ram /\ lastOK' = ram.par
    BY DEF VerifyDone
  <2>3. Valid(flash[0]) /\ Valid(flash[1])
    BY <1>4, <2>1, <2>2 DEF Quiet
  <2>4. flash[ram.part].img.par = ram.par /\ flash[ram.part].img.cnt = ram.cnt
    BY <1>4, <2>1, <2>2 DEF Quiet
  <2>5. ram.part \in Slots /\ Other(ram.part) \in Slots
    BY DEF Image, Other
  <2>6. Valid(flash[ram.part])
    BY <2>3, <2>5
  <2>7. \/ flash[Other(ram.part)].img.cnt < flash[ram.part].img.cnt
        \/ /\ flash[Other(ram.part)].img.cnt = flash[ram.part].img.cnt
           /\ flash[Other(ram.part)].img.par = flash[ram.part].img.par
    BY <1>4, <2>1, <2>2, <2>3, <2>4, <2>5 DEF Quiet, Partitions, Other, Sector, Image, Counts
  <2>8. BootPar(flash) = flash[ram.part].img.par
    BY <2>5, <2>6, <2>7, BootOfNewest
  <2> QED
    BY <2>2, <2>4, <2>8 DEF AckedSurvives
<1> QED
  BY <1>0, <1>1, <1>2, <1>3, <1>4, <1>5, <1>6, <1>7, <1>8

LEMMA InitKeeps ==
  ASSUME Reliable, IInv, tls_param_init
  PROVE  IInv'
<1> USE ConstAssumption DEF Reliable, IInv, TypeOK, Callers, Slots, JobType
<1>0. TypeOK'
  BY TypeStep DEF Next
<1>a. BootSlot(flash) \in Slots
  BY DEF BootSlot
<1>b. \A t \in Callers : job[t].pc = "idle"
  BY DEF tls_param_init, Exclusive
<1>c. CASE Damaged = Slots
  <2>1. ~Valid(flash[0]) /\ ~Valid(flash[1])
    BY <1>c DEF Damaged
  <2>2. /\ ram' = [part |-> 0, cnt |-> 0, par |-> FactoryDefault]
        /\ job' = [job EXCEPT ![Main] = Job(1, 0)]
        /\ mode' = "boot" /\ lastOK' = FactoryDefault /\ pending' = {}
        /\ UNCHANGED <<flash, sem, fls>>
    BY <1>c, <2>1 DEF tls_param_init, Repair, Blank, BootPar
  <2>3. Exclusive' /\ Partitions' /\ Block'
    BY <1>b, <2>1, <2>2 DEF Exclusive, Partitions, Block, Job, Writing, tls_param_init
  <2>4. Quiet' /\ Saving' /\ Restoring' /\ Formatting'
    BY <1>b, <2>1, <2>2 DEF Quiet, Saving, Restoring, Formatting, Job, Writing
  <2>5. AckedSurvives'
    BY <2>1, <2>2 DEF AckedSurvives, BootPar
  <2> QED
    BY <1>0, <2>3, <2>4, <2>5
<1>d. ASSUME NEW i \in Slots, Damaged = {i} PROVE IInv'
  <2>1. ~Valid(flash[i]) /\ Valid(flash[Other(i)]) /\ BootSlot(flash) = Other(i)
    BY <1>d DEF Damaged, BootSlot, Other
  <2>2. /\ ram' = flash[Other(i)].img
        /\ job' = [job EXCEPT ![Main] = Job(-1, i)]
        /\ mode' = "boot" /\ lastOK' = flash[Other(i)].img.par /\ pending' = {}
        /\ UNCHANGED <<flash, sem, fls>>
    BY <1>d, <2>1 DEF tls_param_init, Repair, BootPar, Other
  <2>3. Exclusive' /\ Partitions'
    BY <1>b, <2>1, <2>2 DEF Exclusive, Partitions, Job, tls_param_init
  <2>4. Block'
    BY <1>b, <2>1, <2>2 DEF Partitions, Block, Job, Writing, Other
  <2>5. Quiet' /\ Saving' /\ Restoring' /\ Formatting'
    BY <1>b, <2>1, <2>2 DEF Quiet, Saving, Restoring, Formatting, Job, Writing
  <2>6. AckedSurvives'
    BY <2>1, <2>2 DEF AckedSurvives, BootPar, Other
  <2> QED
    BY <1>0, <2>3, <2>4, <2>5, <2>6
<1>e. CASE Damaged = {}
  <2> DEFINE b == BootSlot(flash)
  <2>1. Valid(flash[0]) /\ Valid(flash[1])
    BY <1>e DEF Damaged
  <2>2. /\ ram' = flash[b].img
        /\ mode' = "run" /\ lastOK' = flash[b].img.par /\ pending' = {}
        /\ UNCHANGED <<flash, sem, fls, job>>
    BY <1>e, <2>1 DEF tls_param_init, Repair, BootPar
  <2>3. flash[b].img.part = b /\ flash[b].img.par \in Params /\ flash[b].img.cnt <= MaxCount
    BY <1>a, <2>1 DEF Partitions
  <2>4. flash[Other(b)].img.cnt <= flash[b].img.cnt
    BY <2>1 DEF BootSlot, Other, Sector, Image, Counts
  <2>5. Exclusive' /\ Partitions' /\ Block'
    BY <1>b, <2>2, <2>3 DEF Exclusive, Partitions, Block, Writing, tls_param_init
  <2>6. Quiet'
    BY <1>b, <2>1, <2>2, <2>3, <2>4 DEF Quiet
  <2>7. Saving' /\ Restoring' /\ Formatting'
    BY <1>b, <2>2 DEF Saving, Restoring, Formatting, Writing
  <2>8. AckedSurvives'
    BY <2>1, <2>2 DEF AckedSurvives, BootPar
  <2> QED
    BY <1>0, <2>5, <2>6, <2>7, <2>8
<1> QED
  <2>1. Damaged = Slots \/ Damaged = {} \/ \E i \in Slots : Damaged = {i}
    BY DEF tls_param_init, Repair
  <2> QED
    BY <2>1, <1>c, <1>d, <1>e

LEMMA PowerLossKeeps ==
  ASSUME Reliable, IInv, PowerLoss
  PROVE  IInv' /\ BootPar(flash') = BootPar(flash)
<1> USE ConstAssumption DEF Reliable, IInv, TypeOK, Callers, Slots, JobType
<1>0. TypeOK'
  BY TypeStep DEF Next
<1>1. ASSUME NEW i \in Slots PROVE
        /\ Valid(flash'[i]) <=> Valid(flash[i])
        /\ Valid(flash[i]) => flash'[i] = flash[i]
  <2>1. CASE fls = NoTask
    BY <2>1 DEF PowerLoss
  <2>2. CASE fls # NoTask
    <3>1. fls \in Callers /\ job[fls].pc = "program" /\ job[fls].addr = ram.part
      BY <2>2 DEF Exclusive, Block, Writing
    <3>2. ~Valid(flash[ram.part])
      <4>1. CASE job[fls].cnt = -1
        BY <3>1, <4>1 DEF Saving, Writing
      <4>2. CASE job[fls].cnt = 1
        BY <3>1, <4>2 DEF Formatting, Exclusive, Writing
      <4> QED
        BY <3>1, <4>1, <4>2
    <3>3. PICK s \in Torn : flash' = [flash EXCEPT ![ram.part] = s]
      BY <2>2, <3>1 DEF PowerLoss
    <3>4. ~Valid(s)
      <4>1. ASSUME NEW p \in Blocks PROVE ~Valid(HalfWritten(p))
        <5>1. [ram EXCEPT !.par = p] \in Image
          BY DEF Image
        <5> QED
          BY <5>1, NoCrcAssumption DEF HalfWritten, Valid
      <4>2. ram.par \in Blocks
        BY DEF Image
      <4> QED
        BY <4>1, <4>2 DEF Torn, Erased, Valid, Blocks
    <3> QED
      BY <3>2, <3>3, <3>4 DEF Image
  <2> QED
    BY <2>1, <2>2
<1>2. Partitions'
  BY <1>1 DEF Partitions, Other
<1>3. Exclusive' /\ Block' /\ Quiet' /\ Saving' /\ Restoring' /\ Formatting'
  BY DEF PowerLoss, Idle, Exclusive, Block, Quiet, Saving, Restoring, Formatting, Writing
<1>4. BootPar(flash') = BootPar(flash)
  BY <1>1 DEF BootPar, BootSlot
<1>5. AckedSurvives'
  BY <1>4 DEF PowerLoss, AckedSurvives
<1> QED
  BY <1>0, <1>2, <1>3, <1>4, <1>5

LEMMA InvStep == Reliable /\ IInv /\ [Next]_vars => IInv'
<1> SUFFICES ASSUME Reliable, IInv, [Next]_vars PROVE IInv'
  OBVIOUS
<1>1. CASE tls_param_init
  BY <1>1, InitKeeps
<1>2. ASSUME NEW t \in Tasks, NEW p \in Params, NEW f \in BOOLEAN, tls_param_set(t, p, f)
      PROVE IInv'
  BY <1>2, SetKeeps
<1>3. ASSUME NEW t \in Tasks, tls_param_to_flash(t) PROVE IInv'
  BY <1>3, FlushSameKeeps, FlushWritesKeeps DEF tls_param_to_flash
<1>4. ASSUME NEW t \in Tasks, tls_param_to_default(t) \/ Fill(t) \/ Unmark(t) PROVE IInv'
  BY <1>4 DEF tls_param_to_default, Fill, Unmark, Reliable, IInv, Exclusive, Callers
<1>5. ASSUME NEW t \in Callers, param_to_flash(t) PROVE IInv'
  BY <1>5, StampKeeps, EraseKeeps, ProgramKeeps, VerifyMoreKeeps, VerifyDoneKeeps
     DEF param_to_flash
<1>6. ASSUME NEW t \in Callers, AllocFails(t) PROVE IInv'
  BY <1>6 DEF AllocFails, Reliable
<1>7. ASSUME NEW t \in Callers, VerifyFails(t) PROVE IInv'
  <2>1. /\ flash[ram.part] = [magic |-> TRUE, img |-> ram, crc |-> ram]
        /\ crc = ram /\ magic
    <3>1. job[t].pc = "verify" /\ job[t].cnt \in {-1, 1}
      BY <1>7 DEF VerifyFails, IInv, TypeOK, JobType
    <3>2. CASE job[t].cnt = -1
      BY <3>1, <3>2 DEF IInv, Saving, Block, Writing
    <3>3. CASE job[t].cnt = 1
      BY <3>1, <3>3 DEF IInv, Formatting, Exclusive, Block, Writing, Callers
    <3> QED
      BY <3>1, <3>2, <3>3
  <2>2. Matches
    BY <2>1 DEF Matches
  <2> QED
    BY <1>7, <2>2 DEF VerifyFails
<1>8. CASE PowerLoss
  BY <1>8, PowerLossKeeps
<1>9. CASE UNCHANGED vars
  <2>1. TypeOK'
    BY TypeStep DEF IInv
  <2>2. Exclusive' /\ Partitions' /\ Block' /\ Quiet' /\ Saving'
    BY <1>9 DEF vars, IInv, Exclusive, Partitions, Block, Quiet, Saving
  <2>3. Restoring' /\ Formatting' /\ AckedSurvives'
    BY <1>9 DEF vars, IInv, Restoring, Formatting, AckedSurvives
  <2> QED
    BY <2>1, <2>2, <2>3 DEF IInv
<1> QED
  BY <1>1, <1>2, <1>3, <1>4, <1>5, <1>6, <1>7, <1>8, <1>9 DEF Next

\* On a device whose saves do not run out of memory, that is not being reset and
\* whose modify_count has not wrapped, power may fail in any step of any
\* sequence of tls_param_set, tls_param_to_flash and tls_param_init: the next
\* start-up loads the block last reported as saved or one saved since.
THEOREM SavedBlockSurvives ==
  ASSUME Reliable
  PROVE  Spec => []AckedSurvives
<1>1. Init => IInv
  BY InvInit
<1>2. IInv /\ [Next]_vars => IInv'
  BY InvStep
<1>3. IInv => AckedSurvives
  BY DEF IInv
<1> QED
  BY <1>1, <1>2, <1>3, PTL DEF Spec

\* Under the same conditions the partition named by partition_num is readable
\* without a checksum test whenever the flash driver is free.
THEOREM NamedPartitionReadable ==
  ASSUME Reliable
  PROVE  Spec => []FlashReadable
<1>1. Init => IInv
  BY InvInit
<1>2. IInv /\ [Next]_vars => IInv'
  BY InvStep
<1>3. IInv => FlashReadable
  <2> SUFFICES ASSUME IInv, mode = "run", fls = NoTask PROVE Valid(flash[ram.part])
    BY DEF FlashReadable
  <2> USE DEF IInv
  <2>1. CASE \A t \in Tasks : job[t].pc \notin Writing
    BY <2>1 DEF Quiet, TypeOK, Image, Slots
  <2>2. ASSUME NEW t \in Tasks, job[t].pc \in Writing PROVE Valid(flash[ram.part])
    BY <2>2, ConstAssumption DEF Exclusive, Saving, Callers, Valid, Writing
  <2> QED
    BY <2>1, <2>2
<1> QED
  BY <1>1, <1>2, <1>3, PTL DEF Spec

\* Under the same conditions both partitions are good whenever no call is in progress,
\* so that the next save, which erases one of them, cannot lose the last copy.
THEOREM BothCopiesKept ==
  ASSUME Reliable
  PROVE  Spec => []RedundancyKept
<1>1. Init => IInv
  BY InvInit
<1>2. IInv /\ [Next]_vars => IInv'
  BY InvStep
<1>3. IInv => RedundancyKept
  <2> SUFFICES ASSUME IInv, mode = "run", \A t \in Callers : job[t].pc = "idle"
               PROVE  Damaged = {}
    BY DEF RedundancyKept
  <2>1. \A t \in Tasks : job[t].pc \notin Writing
    BY DEF Callers, Writing
  <2>2. Valid(flash[0]) /\ Valid(flash[1])
    BY <2>1 DEF IInv, Quiet
  <2> QED
    BY <2>2 DEF Damaged, Slots
<1> QED
  BY <1>1, <1>2, <1>3, PTL DEF Spec

-----------------------------------------------------------------------------
(* Start-up heals the flash, whatever it finds: with unlocked resets, failed *)
(* allocations and a count that wraps.                                       *)

\* Start-up works alone.  While it repairs, the partition it is not writing is
\* undamaged and holds the block in memory, except for the first of two writes
\* of the factory default; what it has programmed is the block it stamped.
StartUpAlone ==
  /\ mode # "run" => \A t \in Tasks : job[t].pc = "idle"
  /\ (job[Main].pc # "idle") <=> (mode = "boot")
  /\ job[Main].pc \in {"idle", "stamp"} \cup Writing

Repairing ==
  mode = "boot" =>
    /\ job[Main].part \in Slots
    /\ \/ job[Main].cnt = 1 /\ job[Main].part = 0
       \/ /\ Valid(flash[Other(job[Main].part)])
          /\ flash[Other(job[Main].part)].img.par = ram.par
    /\ job[Main].pc \in Writing =>
         /\ job[Main].addr = job[Main].part /\ ram.part = job[Main].part
         /\ magic /\ crc = ram
    /\ job[Main].pc = "verify" =>
         flash[ram.part] = [magic |-> TRUE, img |-> ram, crc |-> ram]

HealInv == TypeOK /\ StartUpAlone /\ Repairing

\* When both partitions hold the same parameters, start-up loads these.
LEMMA BootOfEqual ==
  ASSUME NEW fl, NEW p, Valid(fl[0]), Valid(fl[1]), fl[0].img.par = p, fl[1].img.par = p
  PROVE  BootPar(fl) = p
BY DEF BootPar, BootSlot

LEMMA HealInit == Init => HealInv
BY TypeInit, ConstAssumption
   DEF Init, HealInv, StartUpAlone, Repairing, Idle, Callers

\* A start-up that finds nothing to repair has loaded what it would load again.
LEMMA LoadHeals ==
  ASSUME HealInv, tls_param_init
  PROVE  /\ HealInv'
         /\ mode' = "run" => Damaged' = {} /\ BootPar(flash') = ram'.par
<1> USE ConstAssumption DEF HealInv, TypeOK, Callers, Slots, JobType
<1>0. TypeOK'
  BY TypeStep DEF Next
<1>1. flash' = flash /\ BootSlot(flash) \in Slots
  BY DEF tls_param_init, BootSlot
<1>2. ram'.par = BootPar(flash)
  BY DEF tls_param_init, BootPar, Damaged, Blank
<1>3. StartUpAlone'
  BY DEF tls_param_init, Repair, StartUpAlone, Job, Writing
<1>4. Repairing'
  <2>1. CASE Damaged = Slots
    <3>1. job'[Main] = Job(1, 0)
      BY <2>1 DEF tls_param_init, Repair
    <3> QED
      BY <3>1 DEF Repairing, Job, Writing
  <2>2. ASSUME NEW i \in Slots, Damaged = {i} PROVE Repairing'
    <3>1. Valid(flash[Other(i)]) /\ BootSlot(flash) = Other(i)
      BY <2>2 DEF Damaged, BootSlot, Other
    <3>2. job'[Main] = Job(-1, i) /\ ram' = flash[Other(i)].img
      BY <2>2, <3>1 DEF tls_param_init, Repair
    <3> QED
      BY <1>1, <3>1, <3>2 DEF Repairing, Job, Writing
  <2>3. CASE Damaged = {}
    BY <2>3 DEF tls_param_init, Repair, Repairing
  <2> QED
    BY <2>1, <2>2, <2>3 DEF tls_param_init, Repair
<1>5. ASSUME mode' = "run" PROVE Damaged' = {} /\ BootPar(flash') = ram'.par
  BY <1>1, <1>2, <1>5 DEF tls_param_init, Repair, Damaged
<1> QED
  BY <1>0, <1>3, <1>4, <1>5

\* Steps of the calls of tasks: start-up is over, and it is not begun again.
LEMMA TaskHeals ==
  ASSUME HealInv, [Next]_vars, mode = "run", mode' = "run", job'[Main] = job[Main]
  PROVE  HealInv'
<1>1. TypeOK'
  BY TypeStep DEF HealInv
<1> QED
  BY <1>1 DEF HealInv, StartUpAlone, Repairing

\* The steps of start-up's own writes.
LEMMA RepairHeals ==
  ASSUME HealInv, param_to_flash(Main) \/ VerifyFails(Main) \/ AllocFails(Main)
  PROVE  /\ HealInv'
         /\ ~AllocFails(Main) /\ mode' = "run"
              => Damaged' = {} /\ BootPar(flash') = ram'.par
<1> USE ConstAssumption DEF HealInv, TypeOK, Callers, Slots, JobType
<1>0. TypeOK'
  BY TypeStep DEF Next
<1>a. mode = "boot" /\ (\A t \in Tasks : job[t].pc = "idle") /\ job[Main].part \in Slots
  BY DEF param_to_flash, Stamp, Erase, Program, VerifyMore, VerifyDone, VerifyFails,
         AllocFails, StartUpAlone, Repairing
<1>b. ram.part \in Slots /\ ram \in Image /\ \A i \in Slots : Other(i) \in Slots /\ Other(i) # i
  BY DEF Image, Other
<1>1. CASE Stamp(Main)
  <2>1. mode' = "boot" /\ \A t \in Tasks : job'[t] = job[t]
    BY <1>1, <1>a DEF Stamp
  <2>2. NextPart(job[Main]) = job[Main].part
    BY <1>a DEF NextPart
  <2>3. StartUpAlone'
    BY <1>1, <1>a, <2>1 DEF Stamp, StartUpAlone, Writing
  <2>4. Repairing'
    BY <1>1, <1>a, <2>1, <2>2 DEF Stamp, Repairing, Writing
  <2> QED
    BY <1>0, <2>1, <2>3, <2>4
<1>2. CASE Erase(Main)
  <2>1. mode' = "boot" /\ \A t \in Tasks : job'[t] = job[t]
    BY <1>2, <1>a DEF Erase
  <2>2. StartUpAlone'
    BY <1>2, <1>a, <2>1 DEF Erase, StartUpAlone, Writing
  <2>3. flash'[Other(job[Main].part)] = flash[Other(job[Main].part)]
    BY <1>2, <1>a, <1>b DEF Erase, Repairing, Writing
  <2>4. Repairing'
    BY <1>2, <1>a, <2>1, <2>3 DEF Erase, Repairing, Writing
  <2> QED
    BY <1>0, <2>1, <2>2, <2>4
<1>3. CASE Program(Main)
  <2>1. mode' = "boot" /\ \A t \in Tasks : job'[t] = job[t]
    BY <1>3, <1>a DEF Program
  <2>2. StartUpAlone'
    BY <1>3, <1>a, <2>1 DEF Program, StartUpAlone, Writing
  <2>3. /\ flash'[Other(job[Main].part)] = flash[Other(job[Main].part)]
        /\ flash'[ram.part] = [magic |-> TRUE, img |-> ram, crc |-> ram]
    BY <1>3, <1>a, <1>b DEF Program, Repairing, Writing
  <2>4. Repairing'
    BY <1>3, <1>a, <2>1, <2>3 DEF Program, Repairing, Writing
  <2> QED
    BY <1>0, <2>1, <2>2, <2>4
<1>4. ASSUME job[Main].pc = "verify"
      PROVE  Matches /\ Valid(flash[job[Main].part]) /\ flash[job[Main].part].img.par = ram.par
  <2>1. /\ flash[ram.part] = [magic |-> TRUE, img |-> ram, crc |-> ram]
        /\ ram.part = job[Main].part /\ crc = ram
    BY <1>a, <1>4 DEF Repairing, Writing
  <2>2. magic = TRUE
    BY <1>a, <1>4 DEF Repairing, Writing
  <2> QED
    BY <2>1, <2>2 DEF Matches, Valid
<1>5. CASE VerifyMore(Main)
  <2>1. mode' = "boot" /\ \A t \in Tasks : job'[t] = job[t]
    BY <1>5, <1>a DEF VerifyMore
  <2>2. StartUpAlone'
    BY <1>5, <1>a, <2>1 DEF VerifyMore, StartUpAlone, Job
  <2>3. job[Main].part = 0 /\ job'[Main] = Job(1, 1) /\ job[Main].pc = "verify"
    BY <1>5 DEF VerifyMore, More
  <2>4. Repairing'
    BY <1>4, <1>5, <2>3 DEF VerifyMore, Repairing, Job, Writing, Other
  <2> QED
    BY <1>0, <2>1, <2>2, <2>4
<1>6. CASE VerifyDone(Main)
  <2>1. mode' = "run" /\ job'[Main] = Idle /\ UNCHANGED <<flash, ram>>
    BY <1>6 DEF VerifyDone, Return, LastOfReset
  <2>2. StartUpAlone' /\ Repairing'
    BY <2>1 DEF StartUpAlone, Repairing, Idle
  <2>3. \A i \in Slots : Valid(flash[i]) /\ flash[i].img.par = ram.par
    BY <1>4, <1>6, <1>a DEF VerifyDone, More, Repairing, Other
  <2>4. Damaged' = {} /\ BootPar(flash') = ram'.par
    BY <2>1, <2>3, BootOfEqual DEF Damaged
  <2> QED
    BY <1>0, <2>2, <2>4
<1>7. CASE VerifyFails(Main)
  BY <1>4, <1>7 DEF VerifyFails
<1>8. CASE AllocFails(Main)
  <2>1. mode' = "run" /\ job'[Main] = Idle
    BY <1>8 DEF AllocFails, Return, LastOfReset
  <2>2. StartUpAlone' /\ Repairing'
    BY <2>1 DEF StartUpAlone, Repairing, Idle
  <2> QED
    BY <1>0, <1>8, <2>2
<1> QED
  BY <1>1, <1>2, <1>3, <1>5, <1>6, <1>7, <1>8 DEF param_to_flash

LEMMA HealStep ==
  ASSUME HealInv, [Next]_vars
  PROVE  /\ HealInv'
         /\ mode # "run" /\ mode' = "run" /\ ~AllocFails(Main)
              => Damaged' = {} /\ BootPar(flash') = ram'.par
<1> USE ConstAssumption
<1>0. job \in [Callers -> JobType] /\ Main \in Callers
  BY DEF HealInv, TypeOK, Callers
<1>1. CASE tls_param_init
  BY <1>1, LoadHeals
<1>2. ASSUME NEW t \in Tasks,
             \/ \E p \in Params, f \in BOOLEAN : tls_param_set(t, p, f)
             \/ tls_param_to_flash(t) \/ tls_param_to_default(t)
      PROVE  mode = "run" /\ mode' = "run" /\ job'[Main] = job[Main]
  BY <1>0, <1>2 DEF tls_param_set, tls_param_to_flash, FlushSame, FlushWrites, tls_param_to_default
<1>3. ASSUME NEW t \in Tasks, Fill(t) \/ Unmark(t) \/ param_to_flash(t) \/ AllocFails(t) \/ VerifyFails(t)
      PROVE  mode = "run" /\ mode' = "run" /\ job'[Main] = job[Main]
  <2>1. job[t].pc # "idle" /\ t # Main
    BY <1>3 DEF Fill, Unmark, param_to_flash, Stamp, Erase, Program, VerifyMore, VerifyDone,
                AllocFails, VerifyFails
  <2>2. mode = "run"
    BY <2>1 DEF HealInv, StartUpAlone
  <2> QED
    BY <1>0, <1>3, <2>1, <2>2
       DEF Fill, Unmark, param_to_flash, Stamp, Erase, Program, VerifyMore, VerifyDone,
           AllocFails, VerifyFails, Return
<1>4. ASSUME param_to_flash(Main) \/ AllocFails(Main) \/ VerifyFails(Main)
      PROVE  /\ HealInv'
             /\ ~AllocFails(Main) /\ mode' = "run" => Damaged' = {} /\ BootPar(flash') = ram'.par
  BY <1>4, RepairHeals
<1>5. CASE PowerLoss
  <2>1. mode' = "off" /\ \A t \in Callers : job'[t].pc = "idle"
    BY <1>5 DEF PowerLoss, Idle
  <2>2. TypeOK'
    BY TypeStep DEF HealInv
  <2> QED
    BY <1>0, <2>1, <2>2 DEF HealInv, StartUpAlone, Repairing, Callers
<1>6. CASE UNCHANGED vars
  <2>1. TypeOK'
    BY TypeStep DEF HealInv
  <2> QED
    BY <1>6, <2>1 DEF vars, HealInv, StartUpAlone, Repairing
<1>7. ASSUME mode = "run", mode' = "run", job'[Main] = job[Main]
      PROVE  HealInv'
  BY <1>7, TaskHeals
<1> QED
  BY <1>1, <1>2, <1>3, <1>4, <1>5, <1>6, <1>7 DEF Next, Callers

\* On every device, with resets that take no lock and run into saves, with saves
\* that fail or overlap, a count that wraps and power lost in any step, also of
\* an earlier start-up: a tls_param_init that reports no error leaves both
\* partitions undamaged and would load again the block it has put in memory.
THEOREM FlashHealed == Spec => StartUpHeals
<1>1. HealInv /\ [Next]_vars => HealInv'
  BY HealStep
<1>2. HealInv /\ [Next]_vars =>
        [mode # "run" /\ mode' = "run" /\ ~AllocFails(Main)
           => Damaged' = {} /\ BootPar(flash') = ram'.par]_vars
  BY HealStep
<1> QED
  BY <1>1, <1>2, HealInit, PTL DEF Spec, StartUpHeals

-----------------------------------------------------------------------------
(* Implementation of the atomic parameter block. *)

LEMMA RefinesInit == Init => Register!Init
BY DEF Init, Register!Init, BootPar, Valid, Erased, Slots

LEMMA RefinesStep ==
  ASSUME Reliable, IInv, IInv', [Next]_vars
  PROVE  [Register!Next]_Register!vars
<1> USE ConstAssumption
<1>1. CASE tls_param_init
  <2>1. ram'.par = BootPar(flash)
    BY <1>1 DEF tls_param_init, BootPar, Damaged, Blank, Slots
  <2>2. Register!Load
    BY <1>1, <2>1 DEF tls_param_init, Repair, Register!Load
  <2> QED
    BY <2>2 DEF Register!Next
<1>2. ASSUME NEW t \in Tasks, NEW p \in Params, NEW f \in BOOLEAN, tls_param_set(t, p, f)
      PROVE [Register!Next]_Register!vars
  <2>1. Register!Change
    BY <1>2 DEF tls_param_set, WithParameter, Register!Change, IInv, Block, TypeOK, Image
  <2> QED
    BY <2>1 DEF Register!Next
<1>3. ASSUME NEW t \in Tasks, tls_param_to_flash(t) PROVE UNCHANGED Register!vars
  BY <1>3 DEF tls_param_to_flash, FlushSame, FlushWrites, Register!vars
<1>4. ASSUME NEW t \in Tasks, tls_param_to_default(t) \/ Fill(t) \/ Unmark(t)
      PROVE  UNCHANGED Register!vars
  BY <1>4 DEF tls_param_to_default, Fill, Unmark, Reliable, IInv, Exclusive, Callers
<1>5. ASSUME NEW t \in Callers, Stamp(t) PROVE UNCHANGED Register!vars
  BY <1>5 DEF Stamp, Register!vars
<1>6. ASSUME NEW t \in Callers, Erase(t) PROVE UNCHANGED Register!vars
  <2>1. job[t].cnt \in {-1, 1} /\ job[t].pc = "erase" /\ job'[t].cnt = job[t].cnt
        /\ job'[t].pc = "program" /\ lastOK' = lastOK
    BY <1>6 DEF Erase, IInv, TypeOK, JobType
  <2>2. BootPar(flash') = BootPar(flash)
    <3>1. CASE job[t].cnt = -1
      BY <2>1, <3>1 DEF IInv, Saving, Writing
    <3>2. CASE job[t].cnt = 1
      <4>1. t = Main
        BY <2>1, <3>2 DEF IInv, Exclusive, Callers
      <4>2. BootPar(flash) = FactoryDefault
        BY <2>1, <3>2, <4>1 DEF IInv, Formatting, Exclusive, BootPar, BootSlot, Slots
      <4>3. BootPar(flash') = FactoryDefault
        BY <2>1, <3>2, <4>1 DEF IInv, Formatting, Exclusive, BootPar, BootSlot, Slots
      <4> QED
        BY <4>2, <4>3
    <3> QED
      BY <2>1, <3>1, <3>2
  <2> QED
    BY <1>6, <2>2 DEF Erase, Register!vars
<1>7. ASSUME NEW t \in Callers, Program(t) PROVE [Register!Next]_Register!vars
  <2>1. BootPar(flash') = ram.par
    BY <1>7, ProgramKeeps
  <2>2. mode # "off"
    BY <1>7 DEF Program, IInv, Exclusive, Callers
  <2>3. Register!Store
    BY <1>7, <2>1, <2>2 DEF Program, Register!Store
  <2> QED
    BY <2>3 DEF Register!Next
<1>8. ASSUME NEW t \in Callers, VerifyMore(t) PROVE UNCHANGED Register!vars
  BY <1>8 DEF VerifyMore, Register!vars
<1>9. ASSUME NEW t \in Callers, VerifyDone(t) \/ VerifyFails(t) PROVE UNCHANGED Register!vars
  BY <1>9 DEF VerifyDone, VerifyFails, Return, LastOfReset, IInv, Exclusive, Register!vars, Callers
<1>10. ASSUME NEW t \in Callers, AllocFails(t) PROVE UNCHANGED Register!vars
  BY <1>10 DEF AllocFails, Reliable
<1>11. CASE PowerLoss
  <2>1. BootPar(flash') = BootPar(flash)
    BY <1>11, PowerLossKeeps
  <2>2. Register!Lose
    BY <1>11, <2>1 DEF PowerLoss, Register!Lose
  <2> QED
    BY <2>2 DEF Register!Next
<1>12. CASE UNCHANGED vars
  BY <1>12 DEF vars, Register!vars
<1> QED
  BY <1>1, <1>2, <1>3, <1>4, <1>5, <1>6, <1>7, <1>8, <1>9, <1>10, <1>11, <1>12
     DEF Next, param_to_flash

\* Under the same conditions the two partitions, the stamps and the repairs of
\* wm_param.c implement one parameter block that is loaded, replaced as a whole
\* and kept across power loss.
THEOREM ImplementsRegister ==
  ASSUME Reliable
  PROVE  Spec => AtomicBlock
<1>1. Init => IInv
  BY InvInit
<1>2. IInv /\ [Next]_vars => IInv'
  BY InvStep
<1>3. IInv /\ IInv' /\ [Next]_vars => [Register!Next]_Register!vars
  BY RefinesStep
<1> QED
  BY <1>1, <1>2, <1>3, RefinesInit, PTL DEF Spec, AtomicBlock, Register!Spec
=============================================================================
