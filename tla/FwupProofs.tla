------------------------------ MODULE FwupProofs ------------------------------
(***************************************************************************)
(* Proofs about Fwup, for any number of tasks, images, packets and         *)
(* sessions: type correctness, with the lengths of a session; that the OTA *)
(* flag announces an image that was verified; and that an update by        *)
(* numbered packets never fails.                                           *)
(***************************************************************************)
EXTENDS Fwup, SequenceTheorems, TLAPS

-----------------------------------------------------------------------------
(* Type correctness. *)

\* The lengths of a session that takes packets: nothing received, or less than the
\* whole image, of which all has been written.
Small(f) == f.recv = 0 \/ (f.recv <= f.upd /\ f.off <= f.upd /\ f.upd < Total)

\* The lengths while n blocks are being written.
Middle(f, n) ==
  /\ n \in 1 .. 2 /\ f.upd + n <= Total + 1 /\ f.off + n <= Total + 1
  /\ f.total = Total => f.recv <= f.upd + n /\ f.off <= f.upd

\* Where the scheduler is, and where a request ends.
Steps == {"wait", "start", "header", "write", "account", "verify", "flag", "finish",
          "unlisted", "done"}
Ending == {"finish", "unlisted", "done"}
USE DEF Steps, Ending

\* How far the scheduler is with session f.
Flow(f, s) ==
  /\ s.pc # "wait" => s.cur \in Tasks
  /\ s.pc \notin Ending => s.ok
  /\ s.pc \in {"wait", "start"} => Small(f)
  /\ s.pc = "header" => Len(s.data) = 1 /\ f.recv <= 1
  /\ s.pc \in {"write", "account"} => Middle(f, Len(s.data))
  /\ s.pc = "verify" /\ f.total = Total => f.upd >= Total
  /\ s.pc = "flag" => f.recv = 0 \/ f.upd >= Total
  /\ s.pc \in Ending /\ s.ok => Small(f) \/ f.upd >= Total

TypeInv == TypeOK /\ Flow(fw, sched)

\* The fields that the flow is about are cleared together.
Cleared(f) == f.recv = 0 /\ f.upd = 0 /\ f.off = 0 /\ f.total = 0

LEMMA Sizes ==
  /\ N \in Nat /\ N > 0 /\ Total \in Nat /\ Total = N + 1 /\ Total >= 2 /\ MaxSess \in Nat
  /\ 0 \in Places /\ 1 \in Places /\ 2 \in Places /\ NoTask \notin Tasks
BY FwupAssumption DEF Total, Places

LEMMA ClearedTypes ==
  /\ Closed \in FwType /\ Null \in FwType /\ [Closed EXCEPT !.num = 0] \in FwType
  /\ Cleared(Closed) /\ Cleared(Null) /\ Cleared([Closed EXCEPT !.num = 0])
<1>1. /\ 0 \in 0 .. MaxSess /\ {} \in SUBSET Flags /\ -1 \in -1 .. N - 1 /\ 0 \in -1 .. N - 1
      /\ 0 \in {0, Total}
  BY Sizes
<1>2. QED BY <1>1, Sizes DEF Closed, Null, FwType, Cleared

LEMMA ClearedFlow ==
  ASSUME NEW f, NEW g, NEW s \in SchedType, f \in FwType, Flow(f, s), Cleared(g)
  PROVE  Flow(g, s)
<1>1. s.pc \in {"write", "account"} => Len(s.data) \in 1 .. 2 BY DEF Flow, Middle
<1>2. s.pc \in {"write", "account"} => Middle(g, Len(s.data))
  <2> DEFINE n == Len(s.data)
  <2> SUFFICES ASSUME s.pc \in {"write", "account"} PROVE Middle(g, n)
    OBVIOUS
  <2>1. n \in 1 .. 2 BY <1>1
  <2> HIDE DEF n
  <2>2. g.recv = 0 /\ g.upd = 0 /\ g.off = 0 /\ g.total = 0 BY DEF Cleared
  <2>3. QED BY <2>1, <2>2, Sizes DEF Middle
<1>3. Small(g) BY DEF Small, Cleared
<1>4. g.total # Total BY Sizes DEF Cleared
<1>5. QED BY <1>2, <1>3, <1>4 DEF Flow, Cleared

\* Changes to the other fields do not touch the flow.
LEMMA SameFlow ==
  ASSUME NEW f, NEW g, NEW s, Flow(f, s),
         g.recv = f.recv, g.upd = f.upd, g.off = f.off, g.total = f.total
  PROVE  Flow(g, s)
BY DEF Flow, Small, Middle

LEMMA FwFields ==
  ASSUME NEW f \in FwType
  PROVE  /\ f.recv \in Places /\ f.upd \in Places /\ f.off \in Places /\ f.total \in {0, Total}
         /\ f.st \in SUBSET Flags /\ f.num \in -1 .. N - 1 /\ f.sess \in 0 .. MaxSess
         /\ f.recv \in Nat /\ f.upd \in Nat /\ f.off \in Nat /\ f.total \in Nat
         /\ f.up \in BOOLEAN /\ f.busy \in BOOLEAN /\ f.base \in BOOLEAN
BY Sizes DEF FwType, Places

\* What the status and the number of a session are set to.
LEMMA StFlow ==
  ASSUME NEW f \in FwType, NEW s, Flow(f, s), NEW st \in SUBSET Flags
  PROVE  [f EXCEPT !.st = st] \in FwType /\ Flow([f EXCEPT !.st = st], s)
<1> DEFINE g == [f EXCEPT !.st = st]
<1>1. g \in FwType /\ g.recv = f.recv /\ g.upd = f.upd /\ g.off = f.off /\ g.total = f.total
  BY DEF FwType
<1> HIDE DEF g
<1>2. Flow(g, s) BY <1>1, SameFlow
<1>3. QED BY <1>1, <1>2 DEF g

LEMMA NumFlow ==
  ASSUME NEW f \in FwType, NEW s, Flow(f, s), NEW n \in -1 .. N - 1
  PROVE  [f EXCEPT !.num = n] \in FwType /\ Flow([f EXCEPT !.num = n], s)
<1> DEFINE g == [f EXCEPT !.num = n]
<1>1. g \in FwType /\ g.recv = f.recv /\ g.upd = f.upd /\ g.off = f.off /\ g.total = f.total
  BY DEF FwType
<1> HIDE DEF g
<1>2. Flow(g, s) BY <1>1, SameFlow
<1>3. QED BY <1>1, <1>2 DEF g

LEMMA SchedFields ==
  ASSUME NEW s \in SchedType
  PROVE  /\ s.pc \in Steps
         /\ s.cur \in Tasks \cup {NoTask} /\ s.nxt \in Tasks \cup {NoTask}
         /\ s.data \in Seq(Block) /\ s.ok \in BOOLEAN /\ Len(s.data) \in Nat
BY DEF SchedType

\* The steps of the scheduler inside a request.
LEMMA StepPc ==
  ASSUME NEW s \in SchedType, NEW u,
         NEW pc \in Steps,
         u = [s EXCEPT !.pc = pc]
  PROVE  /\ u \in SchedType /\ u.pc = pc /\ u.cur = s.cur /\ u.nxt = s.nxt
         /\ u.data = s.data /\ u.ok = s.ok
BY DEF SchedType

LEMMA StepFail ==
  ASSUME NEW s \in SchedType, NEW u,
         NEW pc \in Steps,
         u = [s EXCEPT !.pc = pc, !.ok = FALSE]
  PROVE  /\ u \in SchedType /\ u.pc = pc /\ u.cur = s.cur /\ u.nxt = s.nxt
         /\ u.data = s.data /\ u.ok = FALSE
BY DEF SchedType

LEMMA DataType ==
  ASSUME NEW p \in Packet \cup {NoPacket}
  PROVE  /\ Data(p) \in Seq(Block) /\ Len(Data(p)) \in 1 .. 2 /\ Data(p)[1] \in Block
         /\ p.k = 0 => /\ Len(Data(p)) = 2 /\ Data(p)[1] = [img |-> p.img, n |-> 0]
                       /\ Tail(Data(p)) = <<[img |-> p.img, n |-> 1]>>
                       /\ Tail(Data(p)) \in Seq(Block) /\ Len(Tail(Data(p))) = 1
         /\ p.k # 0 => Data(p) = <<[img |-> p.img, n |-> p.k + 1]>> /\ Len(Data(p)) = 1
         /\ p.img \in Images \cup {NoImage} /\ p.k \in 0 .. N - 1
<1>1. p.img \in Images \cup {NoImage} /\ p.k \in 0 .. N - 1 BY Sizes DEF Packet, NoPacket
<1>2. /\ [img |-> p.img, n |-> 0] \in Block /\ [img |-> p.img, n |-> 1] \in Block
      /\ [img |-> p.img, n |-> p.k + 1] \in Block
  BY <1>1, Sizes DEF Block
<1>3. CASE p.k = 0
  <2> DEFINE x == [img |-> p.img, n |-> 0]
             y == [img |-> p.img, n |-> 1]
  <2>1. Data(p) = <<x, y>> BY <1>3 DEF Data
  <2> HIDE DEF x, y
  <2>2. x \in Block /\ y \in Block BY <1>2 DEF x, y
  <2>3. <<x, y>> \in Seq(Block) /\ Len(<<x, y>>) = 2 /\ <<x, y>>[1] = x BY <2>2
  <2>4. Tail(<<x, y>>) = <<y>> OBVIOUS
  <2>5. <<y>> \in Seq(Block) /\ Len(<<y>>) = 1 BY <2>2
  <2>6. QED BY <1>1, <1>3, <2>1, <2>2, <2>3, <2>4, <2>5 DEF x, y
<1>4. CASE p.k # 0
  <2> DEFINE x == [img |-> p.img, n |-> p.k + 1]
  <2>1. Data(p) = <<x>> BY <1>4 DEF Data
  <2> HIDE DEF x
  <2>2. x \in Block BY <1>2 DEF x
  <2>3. <<x>> \in Seq(Block) /\ Len(<<x>>) = 1 /\ <<x>>[1] = x BY <2>2
  <2>4. QED BY <1>1, <1>4, <2>1, <2>2, <2>3 DEF x
<1>5. QED BY <1>3, <1>4

LEMMA RemoveAtType ==
  ASSUME NEW S, NEW q \in Seq(S), NEW i \in 1 .. Len(q)
  PROVE  RemoveAt(q, i) \in Seq(S) /\ Len(RemoveAt(q, i)) = Len(q) - 1
<1>1. /\ SubSeq(q, 1, i - 1) \in Seq(S) /\ Len(SubSeq(q, 1, i - 1)) = i - 1
      /\ SubSeq(q, i + 1, Len(q)) \in Seq(S) /\ Len(SubSeq(q, i + 1, Len(q))) = Len(q) - i
  <2>1. \A j \in 1 .. Len(q) : q[j] \in S BY ElementOfSeq
  <2>2. QED BY <2>1, SubSeqProperties
<1> DEFINE a == SubSeq(q, 1, i - 1)
           b == SubSeq(q, i + 1, Len(q))
<1>2. RemoveAt(q, i) = a \o b BY DEF RemoveAt
<1>3. a \in Seq(S) /\ b \in Seq(S) /\ Len(a) = i - 1 /\ Len(b) = Len(q) - i BY <1>1
<1> HIDE DEF a, b
<1>4. a \o b \in Seq(S) /\ Len(a \o b) = Len(a) + Len(b) BY <1>3
<1>5. QED BY <1>2, <1>3, <1>4, LenProperties

LEMMA PickType ==
  ASSUME NEW t \in Tasks \cup {NoTask}, list \in Seq(Tasks)
  PROVE  /\ Pick(t) \in SchedType /\ Pick(t).cur = t /\ Pick(t).ok = TRUE
         /\ Pick(t).pc = (IF t = NoTask THEN "wait" ELSE "start") /\ Pick(t).nxt = Behind(t)
<1>1. Behind(t) \in Tasks \cup {NoTask}
  <2> DEFINE later == {i \in 1 .. Len(list) : i > 1 /\ list[i - 1] = t}
  <2>1. CASE later = {} BY <2>1 DEF Behind
  <2>2. CASE later # {}
    <3>1. (CHOOSE i \in later : TRUE) \in later BY <2>2
    <3>2. \A i \in 1 .. Len(list) : list[i] \in Tasks BY ElementOfSeq
    <3>3. Behind(t) = list[CHOOSE i \in later : TRUE] BY <2>2 DEF Behind
    <3>4. QED BY <3>1, <3>2, <3>3
  <2>3. QED BY <2>1, <2>2
<1>2. Quiet \in SchedType
  <2>1. <<>> \in Seq(Block) OBVIOUS
  <2>2. QED BY <2>1 DEF Quiet, SchedType
<1>3. (IF t = NoTask THEN "wait" ELSE "start") \in {"wait", "start"} OBVIOUS
<1>4. QED BY <1>1, <1>2, <1>3 DEF Pick, Quiet, SchedType

LEMMA TaskTypes ==
  ASSUME NEW r \in TaskType,
         NEW pc \in {"idle", "enter", "exit", "reset", "clear_error", "append", "kick", "wait"}
  PROVE  [r EXCEPT !.pc = pc] \in TaskType /\ Idle \in TaskType
BY Sizes DEF TaskType, Idle

LEMMA IdleIs == Idle \in TaskType /\ Idle.pc = "idle"
BY Sizes DEF TaskType, Idle

\* The calls.
LEMMA CallTypes ==
  ASSUME TypeInv, NEW t \in Tasks,
         EnterCheck(t) \/ LeaveCheck(t) \/ tls_fwup_set_crc_error(t) \/ Request(t) \/ Caller(t)
  PROVE  TypeInv'
<1> USE DEF TypeInv
<1>1. /\ fw \in FwType /\ sched \in SchedType /\ task \in [Tasks -> TaskType] /\ list \in Seq(Tasks)
      /\ msgs \in Nat /\ nsess \in 0 .. MaxSess /\ Flow(fw, sched)
      /\ task[t] \in TaskType /\ task[t].id \in 0 .. MaxSess
  BY DEF TypeOK, TaskType
<1>2. UNCHANGED <<mode, booter, area, flag, sched>>
  BY DEF EnterCheck, LeaveCheck, tls_fwup_set_crc_error, Request, Caller, Enter, Leave, Enqueue, Kick
<1>3. /\ mode' \in {"run", "reset"} /\ booter' \in Images \cup {NoImage}
      /\ flag' \in Images \cup {NoImage} /\ area' \in [Places -> Block] /\ sched' \in SchedType
  BY <1>2 DEF TypeOK
<1>4. /\ fw.st \cup {"ERROR"} \in SUBSET Flags /\ fw.st \ {"ERROR"} \in SUBSET Flags
  BY <1>1, FwFields DEF Flags
<1>5. CASE EnterCheck(t)
  <2>1. fw' \in FwType /\ Flow(fw', sched)
    BY <1>1, <1>5, ClearedTypes, ClearedFlow DEF EnterCheck
  <2>2. nsess' \in 0 .. MaxSess /\ nsess + 1 \in 0 .. MaxSess BY <1>1, <1>5, Sizes DEF EnterCheck
  <2>3. [Idle EXCEPT !.pc = "enter", !.id = nsess + 1] \in TaskType
    BY <2>2, IdleIs DEF TaskType
  <2>4. task' \in [Tasks -> TaskType] BY <1>1, <1>5, <2>3 DEF EnterCheck
  <2>5. UNCHANGED <<list, msgs>> BY <1>5 DEF EnterCheck
  <2>6. QED BY <1>1, <1>2, <1>3, <2>1, <2>2, <2>4, <2>5 DEF TypeOK
<1>6. CASE Enter(t)
  <2> DEFINE g == [Closed EXCEPT !.busy = TRUE, !.sess = task[t].id]
  <2>1. g \in FwType /\ Cleared(g) BY <1>1, ClearedTypes DEF FwType, Cleared
  <2>2. fw' = g BY <1>6 DEF Enter
  <2> HIDE DEF g
  <2>3. fw' \in FwType /\ Flow(fw', sched) BY <1>1, <2>1, <2>2, ClearedFlow
  <2>4. task' \in [Tasks -> TaskType] BY <1>1, <1>6, TaskTypes DEF Enter
  <2>5. UNCHANGED <<list, msgs, nsess>> BY <1>6 DEF Enter
  <2>6. QED BY <1>1, <1>2, <1>3, <2>3, <2>4, <2>5 DEF TypeOK
<1>7. CASE LeaveCheck(t)
  <2>1. UNCHANGED <<fw, list, msgs, nsess>> BY <1>7 DEF LeaveCheck
  <2>2. PICK c \in Calls \ {"set_crc_error"} : task' = [task EXCEPT ![t].pc = c]
    BY <1>7 DEF LeaveCheck
  <2>3. c \in {"exit", "reset", "clear_error"} BY FwupAssumption
  <2>4. task' = [task EXCEPT ![t] = [task[t] EXCEPT !.pc = c]] BY <1>1, <2>2
  <2>5. task' \in [Tasks -> TaskType] BY <1>1, <2>3, <2>4, TaskTypes
  <2>6. QED BY <1>1, <1>2, <1>3, <2>1, <2>5 DEF TypeOK
<1>8. CASE Leave(t)
  <2>1. fw' \in FwType /\ Flow(fw', sched)
    <3>1. CASE tls_fwup_exit BY <1>1, <3>1, ClearedTypes, ClearedFlow DEF tls_fwup_exit
    <3>2. CASE tls_fwup_reset
      <4> DEFINE g == [Closed EXCEPT !.busy = fw.busy, !.sess = fw.sess, !.num = fw.num]
      <4>1. g \in FwType /\ Cleared(g) BY <1>1, ClearedTypes DEF FwType, Cleared
      <4>2. fw' = g BY <3>2 DEF tls_fwup_reset
      <4> HIDE DEF g
      <4>3. QED BY <1>1, <4>1, <4>2, ClearedFlow
    <3>3. CASE tls_fwup_clear_error
      <4>1. fw' = [fw EXCEPT !.st = fw.st \ {"ERROR"}] BY <3>3 DEF tls_fwup_clear_error
      <4>2. QED BY <1>1, <1>4, <4>1, StFlow
    <3>4. QED BY <1>8, <3>1, <3>2, <3>3 DEF Leave
  <2>2. task' \in [Tasks -> TaskType] BY <1>1, <1>8, TaskTypes DEF Leave
  <2>3. UNCHANGED <<list, msgs, nsess>> BY <1>8 DEF Leave
  <2>4. QED BY <1>1, <1>2, <1>3, <2>1, <2>2, <2>3 DEF TypeOK
<1>9. CASE tls_fwup_set_crc_error(t)
  <2>1. fw' = [fw EXCEPT !.st = fw.st \cup {"ERROR"}] BY <1>9 DEF tls_fwup_set_crc_error
  <2>3. fw' \in FwType /\ Flow(fw', sched) BY <1>1, <1>4, <2>1, StFlow
  <2>4. UNCHANGED <<list, msgs, nsess, task>> BY <1>9 DEF tls_fwup_set_crc_error
  <2>5. QED BY <1>1, <1>2, <1>3, <2>3, <2>4 DEF TypeOK
<1>10. CASE Request(t)
  <2>1. PICK p \in Packet :
          /\ fw' = IF Numbered THEN [fw EXCEPT !.num = p.k] ELSE fw
          /\ task' = [task EXCEPT ![t] = [pc |-> "append", id |-> fw.sess, pkt |-> p]]
    BY <1>10 DEF Request
  <2>2. p.k \in -1 .. N - 1 BY Sizes DEF Packet
  <2>3. fw' \in FwType /\ Flow(fw', sched) BY <1>1, <2>1, <2>2, NumFlow
  <2>4. [pc |-> "append", id |-> fw.sess, pkt |-> p] \in TaskType BY <1>1, FwFields DEF TaskType
  <2>5. task' \in [Tasks -> TaskType] BY <1>1, <2>1, <2>4
  <2>6. UNCHANGED <<list, msgs, nsess>> BY <1>10 DEF Request
  <2>7. QED BY <1>1, <1>2, <1>3, <2>3, <2>5, <2>6 DEF TypeOK
<1>11. CASE Enqueue(t)
  <2>1. UNCHANGED <<fw, msgs, nsess>> BY <1>11 DEF Enqueue
  <2>2. list' \in Seq(Tasks)
    <3>1. Append(list, t) \in Seq(Tasks) BY <1>1
    <3>2. QED BY <1>1, <1>11, <3>1 DEF Enqueue
  <2>3. NeedSched \in {"kick", "wait"} BY DEF NeedSched
  <2>4. task' \in [Tasks -> TaskType] BY <1>1, <1>11, <2>3, TaskTypes DEF Enqueue
  <2>5. QED BY <1>1, <1>2, <1>3, <2>1, <2>2, <2>4 DEF TypeOK
<1>12. CASE Kick(t)
  <2>1. UNCHANGED <<fw, list, nsess>> /\ msgs' \in Nat BY <1>1, <1>12 DEF Kick
  <2>2. task' \in [Tasks -> TaskType] BY <1>1, <1>12, TaskTypes DEF Kick
  <2>3. QED BY <1>1, <1>2, <1>3, <2>1, <2>2 DEF TypeOK
<1>13. QED BY <1>5, <1>6, <1>7, <1>8, <1>9, <1>10, <1>11, <1>12 DEF Caller

\* The steps of the scheduler.
LEMMA ReceiveTypes ==
  ASSUME TypeInv, Receive
  PROVE  TypeInv'
<1>1. /\ fw \in FwType /\ list \in Seq(Tasks) /\ msgs \in Nat /\ Flow(fw, sched)
      /\ sched \in SchedType /\ sched.pc = "wait"
  BY DEF TypeInv, TypeOK, Receive
<1>2. UNCHANGED <<mode, booter, area, flag, list, task, nsess>> /\ msgs' \in Nat
  BY <1>1 DEF Receive
<1>3. fw' \in FwType /\ sched' \in SchedType /\ Flow(fw', sched')
  <2>1. CASE list = <<>> BY <1>1, <2>1 DEF Receive
  <2>2. CASE list # <<>>
    <3>1. Head(list) \in Tasks /\ Head(list) # NoTask BY <1>1, <2>2, Sizes
    <3>2. fw' = [fw EXCEPT !.st = fw.st \cup {"BUSY"}] /\ sched' = Pick(Head(list))
      BY <2>2 DEF Receive
    <3>3. fw.st \cup {"BUSY"} \in SUBSET Flags BY <1>1, FwFields DEF Flags
    <3>4. fw' \in FwType /\ Flow(fw', sched) BY <1>1, <3>2, <3>3, StFlow
    <3>5. Small(fw') BY <1>1, <3>4 DEF Flow
    <3>6. sched' \in SchedType /\ sched'.pc = "start" /\ sched'.cur \in Tasks /\ sched'.ok
      BY <1>1, <3>1, <3>2, PickType
    <3>7. QED BY <3>4, <3>5, <3>6 DEF Flow
  <2>3. QED BY <2>1, <2>2
<1>4. QED BY <1>1, <1>2, <1>3 DEF TypeInv, TypeOK

\* A request that fails is finished and not processed any further.
LEMMA FailedFlow ==
  ASSUME TypeInv, NEW g \in FwType, sched.pc # "wait", sched' = [sched EXCEPT !.pc = "finish", !.ok = FALSE]
  PROVE  /\ sched' \in SchedType /\ Flow(g, sched') /\ sched'.pc = "finish" /\ sched'.ok = FALSE
         /\ sched'.cur = sched.cur /\ sched'.nxt = sched.nxt /\ sched'.data = sched.data
<1>1. sched \in SchedType /\ Flow(fw, sched) BY DEF TypeInv, TypeOK
<1>3. sched' \in SchedType /\ sched'.pc = "finish" /\ sched'.cur = sched.cur /\ sched'.ok = FALSE
      /\ sched'.nxt = sched.nxt /\ sched'.data = sched.data
  BY <1>1, StepFail
<1>4. sched.cur \in Tasks BY <1>1 DEF Flow
<1>5. QED BY <1>3, <1>4 DEF Flow

LEMMA FailsTypes ==
  ASSUME TypeInv, SchedFails, sched.pc # "wait"
  PROVE  /\ fw' \in FwType /\ sched' \in SchedType /\ Flow(fw', sched')
         /\ sched'.pc = "finish" /\ sched'.ok = FALSE
<1>1. fw \in FwType /\ Flow(fw, sched) BY DEF TypeInv, TypeOK
<1>2. fw' = [fw EXCEPT !.st = fw.st \cup {"ERROR"}] BY DEF SchedFails
<1>3. fw.st \cup {"ERROR"} \in SUBSET Flags BY <1>1, FwFields DEF Flags
<1>4. fw' \in FwType BY <1>1, <1>2, <1>3, StFlow
<1>5. QED BY <1>4, FailedFlow DEF SchedFails

\* What a step of the scheduler on to another one leaves of it.
LEMMA GoesOn ==
  ASSUME TypeInv, sched.pc # "wait",
         NEW pc \in Steps \ {"wait"},
         sched' = [sched EXCEPT !.pc = pc]
  PROVE  /\ sched' \in SchedType /\ sched'.pc = pc /\ sched'.cur = sched.cur /\ sched'.cur \in Tasks
         /\ sched'.nxt = sched.nxt /\ sched'.data = sched.data /\ sched'.ok = sched.ok
<1>1. sched \in SchedType /\ Flow(fw, sched) BY DEF TypeInv, TypeOK
<1>3. /\ sched' \in SchedType /\ sched'.pc = pc /\ sched'.cur = sched.cur
      /\ sched'.nxt = sched.nxt /\ sched'.data = sched.data /\ sched'.ok = sched.ok
  BY <1>1, StepPc
<1>4. sched.cur \in Tasks BY <1>1 DEF Flow
<1>5. QED BY <1>3, <1>4

\* The packet of the request that is processed.
LEMMA PktType ==
  ASSUME TypeInv, sched.pc # "wait"
  PROVE  sched.cur \in Tasks /\ task[sched.cur] \in TaskType /\ task[sched.cur].pkt \in Packet \cup {NoPacket}
<1>1. sched.cur \in Tasks BY DEF TypeInv, Flow
<1>2. task[sched.cur] \in TaskType BY <1>1 DEF TypeInv, TypeOK
<1>3. QED BY <1>1, <1>2 DEF TaskType

\* The session after its first packet was found to begin with a header, or not; after the
\* header was written; and what a later packet changes of it.
HeaderOf(f) == [f EXCEPT !.base = TRUE, !.total = Total, !.off = 0, !.recv = 1]
NotHeader(f) == [f EXCEPT !.recv = 1, !.st = f.st \cup {"ERROR"}]
BegunOf(f, n) == [f EXCEPT !.upd = 1, !.off = 1, !.recv = f.recv + n]
MoreOf(f, n) == [f EXCEPT !.recv = f.recv + n]
WrittenOf(f, n) == [f EXCEPT !.off = f.off + n, !.upd = f.upd + n]

LEMMA StartFw ==
  ASSUME NEW f \in FwType
  PROVE  /\ HeaderOf(f) \in FwType /\ HeaderOf(f).off = 0 /\ HeaderOf(f).recv = 1
         /\ HeaderOf(f).total = Total /\ HeaderOf(f).base = TRUE
         /\ HeaderOf(f).st = f.st /\ HeaderOf(f).num = f.num /\ HeaderOf(f).sess = f.sess
         /\ NotHeader(f) \in FwType
  BY Sizes, FwFields DEF FwType, HeaderOf, NotHeader, Flags

LEMMA BegunFw ==
  ASSUME NEW f \in FwType, f.recv <= 1
  PROVE  /\ BegunOf(f, 1) \in FwType /\ BegunOf(f, 1).upd = 1 /\ BegunOf(f, 1).off = 1
         /\ BegunOf(f, 1).recv = f.recv + 1 /\ BegunOf(f, 1).total = f.total
         /\ BegunOf(f, 1).base = f.base /\ BegunOf(f, 1).st = f.st /\ BegunOf(f, 1).num = f.num
         /\ BegunOf(f, 1).sess = f.sess
<1>1. f.recv + 1 \in Places BY FwFields, Sizes DEF Places
<1>2. QED BY <1>1, Sizes, FwFields DEF FwType, BegunOf

LEMMA MoreFw ==
  ASSUME NEW f \in FwType, NEW n \in Nat, f.recv + n \in Places
  PROVE  /\ MoreOf(f, n) \in FwType /\ MoreOf(f, n).upd = f.upd /\ MoreOf(f, n).off = f.off
         /\ MoreOf(f, n).recv = f.recv + n /\ MoreOf(f, n).total = f.total
         /\ MoreOf(f, n).base = f.base /\ MoreOf(f, n).st = f.st /\ MoreOf(f, n).num = f.num
         /\ MoreOf(f, n).sess = f.sess
  BY FwFields DEF FwType, MoreOf

LEMMA WrittenFw ==
  ASSUME NEW f \in FwType, NEW n \in Nat, f.upd + n \in Places, f.off + n \in Places
  PROVE  /\ WrittenOf(f, n) \in FwType /\ WrittenOf(f, n).upd = f.upd + n
         /\ WrittenOf(f, n).off = f.off + n
         /\ WrittenOf(f, n).recv = f.recv /\ WrittenOf(f, n).total = f.total
         /\ WrittenOf(f, n).base = f.base /\ WrittenOf(f, n).st = f.st
         /\ WrittenOf(f, n).num = f.num /\ WrittenOf(f, n).sess = f.sess
  BY FwFields DEF FwType, WrittenOf

\* The alternatives of Start.
Fresh == fw.st \cap {"ERROR", "COMPLETE"} = {}
Pkt == task[sched.cur].pkt
Refused ==
  /\ ~Fresh /\ sched' = [sched EXCEPT !.pc = "finish", !.ok = FALSE] /\ UNCHANGED <<fw, booter>>
NoHeader ==
  /\ Fresh /\ fw.recv = 0 /\ Pkt.k # 0
  /\ booter' = NoImage /\ fw' = NotHeader(fw)
  /\ sched' = [sched EXCEPT !.pc = "finish", !.ok = FALSE]
Header ==
  /\ Fresh /\ fw.recv = 0 /\ Pkt.k = 0
  /\ booter' = Pkt.img /\ fw' = HeaderOf(fw)
  /\ sched' = [sched EXCEPT !.pc = "header", !.data = Tail(Data(Pkt))]
More ==
  /\ Fresh /\ fw.recv > 0
  /\ fw' = MoreOf(fw, Len(Data(Pkt)))
  /\ sched' = [sched EXCEPT !.pc = "write", !.data = Data(Pkt)]
  /\ UNCHANGED booter

LEMMA StartCases ==
  ASSUME Start
  PROVE  /\ Refused \/ NoHeader \/ Header \/ More
         /\ UNCHANGED <<mode, area, flag, list, msgs, task, nsess>>
         /\ mode = "run" /\ sched.pc = "start"
BY DEF Start, Refused, NoHeader, Header, More, Fresh, Pkt, HeaderOf, NotHeader, MoreOf

LEMMA StartTypes ==
  ASSUME TypeInv, Start
  PROVE  TypeInv'
<1>1. /\ fw \in FwType /\ sched \in SchedType /\ Flow(fw, sched) /\ sched.ok /\ Small(fw)
      /\ area \in [Places -> Block] /\ booter \in Images \cup {NoImage}
  BY StartCases DEF TypeInv, TypeOK, Flow
<1>2. UNCHANGED <<mode, area, flag, list, msgs, task, nsess>> /\ sched.pc = "start" BY StartCases
<1>3. Pkt \in Packet \cup {NoPacket} /\ sched.cur \in Tasks BY <1>2, PktType DEF Pkt
<1>4. /\ Data(Pkt) \in Seq(Block) /\ Len(Data(Pkt)) \in 1 .. 2
      /\ Pkt.k = 0 => Tail(Data(Pkt)) \in Seq(Block) /\ Len(Tail(Data(Pkt))) = 1
      /\ Pkt.img \in Images \cup {NoImage}
  BY <1>3, DataType
<1>5. SUFFICES /\ fw' \in FwType /\ sched' \in SchedType /\ Flow(fw', sched')
               /\ booter' \in Images \cup {NoImage}
  BY <1>1, <1>2 DEF TypeInv, TypeOK
<1>6. CASE Refused BY <1>1, <1>2, <1>6, FailedFlow DEF Refused
<1>7. CASE NoHeader BY <1>1, <1>2, <1>7, FailedFlow, StartFw DEF NoHeader
<1>9. CASE Header
  <2>1. fw' = HeaderOf(fw) BY <1>9 DEF Header
  <2>2. fw' \in FwType /\ fw'.recv = 1 BY <1>1, <2>1, StartFw
  <2>3. /\ sched' \in SchedType /\ sched'.pc = "header" /\ sched'.cur = sched.cur /\ sched'.ok
        /\ sched'.data = Tail(Data(Pkt))
    <3> DEFINE d == Tail(Data(Pkt))
    <3>1. d \in Seq(Block) /\ sched' = [sched EXCEPT !.pc = "header", !.data = d]
      BY <1>4, <1>9 DEF Header
    <3> HIDE DEF d
    <3>2. /\ sched' \in SchedType /\ sched'.pc = "header" /\ sched'.cur = sched.cur
          /\ sched'.data = d /\ sched'.ok = sched.ok
      BY <1>1, <3>1 DEF SchedType
    <3>3. QED BY <1>1, <3>2 DEF d
  <2>4. Len(sched'.data) = 1 BY <1>4, <1>9, <2>3 DEF Header
  <2>5. Flow(fw', sched') BY <1>3, <2>2, <2>3, <2>4 DEF Flow
  <2>6. QED BY <1>4, <1>9, <2>2, <2>3, <2>5 DEF Header
<1>10. CASE More
  <2> DEFINE n == Len(Data(Pkt))
  <2>1. n \in Nat /\ n \in 1 .. 2 BY <1>4
  <2>2. fw.recv <= fw.upd /\ fw.off <= fw.upd /\ fw.upd < Total
        /\ fw.recv \in Nat /\ fw.off \in Nat /\ fw.upd \in Nat
    BY <1>1, <1>10, FwFields DEF More, Small
  <2>3. fw' = MoreOf(fw, n) BY <1>10 DEF More
  <2>4. /\ sched' \in SchedType /\ sched'.pc = "write" /\ sched'.cur = sched.cur /\ sched'.ok
        /\ sched'.data = Data(Pkt)
    <3> DEFINE d == Data(Pkt)
    <3>1. d \in Seq(Block) /\ sched' = [sched EXCEPT !.pc = "write", !.data = d]
      BY <1>4, <1>10 DEF More
    <3> HIDE DEF d
    <3>2. /\ sched' \in SchedType /\ sched'.pc = "write" /\ sched'.cur = sched.cur
          /\ sched'.data = d /\ sched'.ok = sched.ok
      BY <1>1, <3>1 DEF SchedType
    <3>3. QED BY <1>1, <3>2 DEF d
  <2>5. Len(sched'.data) = n BY <2>4
  <2> HIDE DEF n
  <2>6. fw.recv + n \in Places BY <2>1, <2>2, Sizes DEF Places
  <2>7. /\ fw' \in FwType /\ fw'.upd = fw.upd /\ fw'.off = fw.off /\ fw'.recv = fw.recv + n
        /\ fw'.total = fw.total
    BY <1>1, <2>1, <2>3, <2>6, MoreFw
  <2>8. Middle(fw', n) BY <2>1, <2>2, <2>7, Sizes DEF Middle
  <2>9. Flow(fw', sched') BY <1>3, <2>4, <2>5, <2>8 DEF Flow
  <2>10. QED BY <1>1, <1>10, <2>4, <2>7, <2>9 DEF More
<1>11. QED BY <1>6, <1>7, <1>9, <1>10, StartCases

LEMMA WriteHeaderTypes ==
  ASSUME TypeInv, WriteHeader
  PROVE  TypeInv'
<1>1. /\ fw \in FwType /\ sched \in SchedType /\ Flow(fw, sched) /\ sched.ok
      /\ area \in [Places -> Block] /\ booter \in Images \cup {NoImage}
      /\ Len(sched.data) = 1 /\ fw.recv <= 1
  BY DEF TypeInv, TypeOK, WriteHeader, Flow
<1>2. UNCHANGED <<mode, booter, flag, list, msgs, task, nsess>> /\ sched.pc = "header"
  BY DEF WriteHeader
<1>3. CASE SchedFails /\ area' = area
  BY <1>1, <1>2, <1>3, FailsTypes DEF TypeInv, TypeOK
<1>4. CASE /\ area' = IF fw.base THEN [area EXCEPT ![fw.off] = [img |-> booter, n |-> 0]] ELSE area
           /\ fw' = BegunOf(fw, Len(sched.data)) /\ sched' = [sched EXCEPT !.pc = "write"]
  <2>1. [img |-> booter, n |-> 0] \in Block BY <1>1, Sizes DEF Block
  <2>2. area' \in [Places -> Block] BY <1>1, <1>4, <2>1
  <2>3. /\ sched' \in SchedType /\ sched'.pc = "write" /\ sched'.cur \in Tasks
        /\ sched'.data = sched.data /\ sched'.ok = sched.ok
    BY <1>2, <1>4, GoesOn
  <2>4. /\ fw' \in FwType /\ fw'.upd = 1 /\ fw'.off = 1 /\ fw'.recv = fw.recv + 1
    BY <1>1, <1>4, BegunFw
  <2>5. fw.recv \in Nat BY <1>1, FwFields
  <2>6. Middle(fw', 1) BY <1>1, <2>4, <2>5, Sizes DEF Middle
  <2>7. Flow(fw', sched') BY <1>1, <2>3, <2>6 DEF Flow
  <2>8. QED BY <1>1, <1>2, <2>2, <2>3, <2>4, <2>7 DEF TypeInv, TypeOK
<1>5. QED BY <1>3, <1>4 DEF WriteHeader, BegunOf

LEMMA WriteBlocksTypes ==
  ASSUME TypeInv, WriteBlocks
  PROVE  TypeInv'
<1>1. /\ fw \in FwType /\ sched \in SchedType /\ Flow(fw, sched)
      /\ area \in [Places -> Block] /\ sched.data \in Seq(Block)
  BY SchedFields DEF TypeInv, TypeOK
<1>2. UNCHANGED <<mode, booter, flag, list, msgs, task, nsess>> /\ sched.pc = "write"
  BY DEF WriteBlocks
<1>3. CASE SchedFails /\ area' = area
  BY <1>1, <1>2, <1>3, FailsTypes DEF TypeInv, TypeOK
<1>4. CASE /\ area' = [i \in Places |->
                      IF fw.base /\ i - fw.off + 1 \in 1 .. Len(sched.data)
                        THEN sched.data[i - fw.off + 1] ELSE area[i]]
           /\ sched' = [sched EXCEPT !.pc = "account"]
           /\ fw' = fw
  <2>1. \A j \in 1 .. Len(sched.data) : sched.data[j] \in Block BY <1>1, ElementOfSeq
  <2>2. area' \in [Places -> Block] BY <1>1, <1>4, <2>1
  <2>3. /\ sched' \in SchedType /\ sched'.pc = "account" /\ sched'.cur \in Tasks
        /\ sched'.data = sched.data /\ sched'.ok = sched.ok
    BY <1>2, <1>4, GoesOn
  <2>4. Flow(fw', sched') BY <1>1, <1>2, <1>4, <2>3 DEF Flow
  <2>5. QED BY <1>1, <1>2, <1>4, <2>2, <2>3, <2>4 DEF TypeInv, TypeOK
<1>5. QED BY <1>3, <1>4 DEF WriteBlocks

LEMMA AccountTypes ==
  ASSUME TypeInv, Account
  PROVE  TypeInv'
<1> DEFINE n == Len(sched.data)
<1>1. /\ fw \in FwType /\ sched \in SchedType /\ Flow(fw, sched) /\ sched.ok
      /\ Middle(fw, n) /\ n \in 1 .. 2
  BY DEF TypeInv, TypeOK, Flow, Account, Middle
<1>2. UNCHANGED <<mode, booter, area, flag, list, msgs, task, nsess>> /\ sched.pc = "account"
  BY DEF Account
<1>3. fw' = WrittenOf(fw, n) BY DEF Account, WrittenOf
<1>4. /\ sched' = [sched EXCEPT !.pc = IF Complete(fw.upd + n) THEN "verify" ELSE "finish"]
  BY DEF Account
<1> HIDE DEF n
<1>5. fw.upd \in Nat /\ fw.off \in Nat /\ fw.recv \in Nat /\ fw.total \in {0, Total}
  BY <1>1, FwFields
<1>6. fw.upd + n \in Places /\ fw.off + n \in Places /\ n \in Nat
  BY <1>1, <1>5, Sizes DEF Middle, Places
<1>7. /\ fw' \in FwType /\ fw'.upd = fw.upd + n /\ fw'.off = fw.off + n /\ fw'.recv = fw.recv
      /\ fw'.total = fw.total
  BY <1>1, <1>3, <1>6, WrittenFw
<1>8. CASE Complete(fw.upd + n)
  <2>1. sched' = [sched EXCEPT !.pc = "verify"] BY <1>4, <1>8
  <2>2. /\ sched' \in SchedType /\ sched'.pc = "verify" /\ sched'.cur \in Tasks
        /\ sched'.ok = sched.ok
    BY <1>2, <2>1, GoesOn
  <2>3. fw'.total = Total => fw'.upd >= Total BY <1>7, <1>8 DEF Complete
  <2>4. Flow(fw', sched') BY <1>1, <2>2, <2>3 DEF Flow
  <2>5. QED BY <1>2, <1>7, <2>2, <2>4 DEF TypeInv, TypeOK
<1>9. CASE ~Complete(fw.upd + n)
  <2>1. sched' = [sched EXCEPT !.pc = "finish"] BY <1>4, <1>9
  <2>2. /\ sched' \in SchedType /\ sched'.pc = "finish" /\ sched'.cur \in Tasks
        /\ sched'.ok = sched.ok
    BY <1>2, <2>1, GoesOn
  <2>3. fw.total = Total BY <1>5, <1>6, <1>9, Sizes DEF Complete
  <2>4. Small(fw') BY <1>1, <1>5, <1>6, <1>7, <1>9, <2>3, Sizes DEF Small, Middle, Complete
  <2>5. Flow(fw', sched') BY <1>1, <2>2, <2>4 DEF Flow
  <2>6. QED BY <1>2, <1>7, <2>2, <2>5 DEF TypeInv, TypeOK
<1>10. QED BY <1>8, <1>9

LEMMA VerifyTypes ==
  ASSUME TypeInv, Verify
  PROVE  TypeInv'
<1>1. fw \in FwType /\ sched \in SchedType /\ Flow(fw, sched) /\ sched.pc = "verify"
  BY DEF TypeInv, TypeOK, Verify
<1>2. UNCHANGED <<mode, booter, area, flag, list, msgs, task, nsess>> BY DEF Verify
<1>3. CASE SchedFails BY <1>1, <1>2, <1>3, FailsTypes DEF TypeInv, TypeOK
<1>4. CASE Verified /\ sched' = [sched EXCEPT !.pc = "flag"] /\ fw' = fw
  <2>1. /\ sched' \in SchedType /\ sched'.pc = "flag" /\ sched'.cur \in Tasks
        /\ sched'.ok = sched.ok
    BY <1>1, <1>4, GoesOn
  <2>2. fw.upd >= Total BY <1>1, <1>4 DEF Verified, Flow
  <2>3. Flow(fw', sched') BY <1>1, <1>4, <2>1, <2>2 DEF Flow
  <2>4. QED BY <1>1, <1>2, <1>4, <2>1, <2>3 DEF TypeInv, TypeOK
<1>5. QED BY <1>3, <1>4 DEF Verify

LEMMA SetFlagTypes ==
  ASSUME TypeInv, SetFlag
  PROVE  TypeInv'
<1>1. /\ fw \in FwType /\ sched \in SchedType /\ Flow(fw, sched) /\ sched.pc = "flag"
      /\ booter \in Images \cup {NoImage} /\ flag \in Images \cup {NoImage}
  BY DEF TypeInv, TypeOK, SetFlag
<1>2. UNCHANGED <<mode, booter, area, list, msgs, task, nsess>> BY DEF SetFlag
<1>3. flag' \in Images \cup {NoImage} BY <1>1 DEF SetFlag
<1>4. fw' = [fw EXCEPT !.st = fw.st \cup {"COMPLETE"}] /\ sched' = [sched EXCEPT !.pc = "finish"]
  BY DEF SetFlag
<1>5. fw.st \cup {"COMPLETE"} \in SUBSET Flags BY <1>1, FwFields DEF Flags
<1>6. fw' \in FwType /\ Flow(fw', sched) BY <1>1, <1>4, <1>5, StFlow
<1>7. /\ sched' \in SchedType /\ sched'.pc = "finish" /\ sched'.cur \in Tasks
  BY <1>1, <1>4, GoesOn
<1>8. Small(fw') \/ fw'.upd >= Total BY <1>1, <1>6 DEF Flow, Small
<1>9. Flow(fw', sched') BY <1>7, <1>8 DEF Flow
<1>10. QED BY <1>2, <1>3, <1>6, <1>7, <1>9 DEF TypeInv, TypeOK

LEMMA FinishTypes ==
  ASSUME TypeInv, Finish
  PROVE  TypeInv'
<1>1. /\ sched \in SchedType /\ Flow(fw, sched) /\ sched.pc = "finish" /\ list \in Seq(Tasks)
  BY DEF TypeInv, TypeOK, Finish
<1>2. UNCHANGED <<mode, fw, booter, area, flag, msgs, task, nsess>> BY DEF Finish
<1>3. list' \in Seq(Tasks)
  <2>1. PICK i \in 1 .. Len(list) : list' = RemoveAt(list, i) BY DEF Finish
  <2>2. QED BY <1>1, <2>1, RemoveAtType
<1>4. /\ sched' \in SchedType /\ sched'.pc = "unlisted" /\ sched'.cur \in Tasks
      /\ sched'.ok = sched.ok
  BY <1>1, GoesOn DEF Finish
<1>5. Flow(fw', sched') BY <1>1, <1>2, <1>4 DEF Flow
<1>6. QED BY <1>2, <1>3, <1>4, <1>5 DEF TypeInv, TypeOK

LEMMA ClearBusyTypes ==
  ASSUME TypeInv, ClearBusy
  PROVE  TypeInv'
<1>1. /\ fw \in FwType /\ sched \in SchedType /\ Flow(fw, sched) /\ sched.pc = "unlisted"
  BY DEF TypeInv, TypeOK, ClearBusy
<1>2. UNCHANGED <<mode, booter, area, flag, list, msgs, task, nsess>> BY DEF ClearBusy
<1>3. fw' = fw \/ fw' = [fw EXCEPT !.st = fw.st \ {"BUSY"}] BY DEF ClearBusy
<1>4. fw.st \ {"BUSY"} \in SUBSET Flags BY <1>1, FwFields
<1>5. fw' \in FwType /\ Flow(fw', sched) BY <1>1, <1>3, <1>4, StFlow
<1>6. sched' \in SchedType /\ sched'.pc = "done" /\ sched'.cur \in Tasks /\ sched'.ok = sched.ok
  BY <1>1, GoesOn DEF ClearBusy
<1>7. Flow(fw', sched') BY <1>1, <1>5, <1>6 DEF Flow
<1>8. QED BY <1>2, <1>5, <1>6, <1>7 DEF TypeInv, TypeOK

\* Whether the request ends in a reset.
Resets == (fw.upd >= 1 /\ Complete(fw.upd)) \/ ~sched.ok

LEMMA DoneTypes ==
  ASSUME TypeInv, Done
  PROVE  TypeInv' /\ (~Resets => sched.ok /\ Small(fw))
<1>1. /\ fw \in FwType /\ sched \in SchedType /\ Flow(fw, sched) /\ sched.pc = "done"
      /\ list \in Seq(Tasks) /\ task \in [Tasks -> TaskType]
  BY DEF TypeInv, TypeOK, Done
<1>2. UNCHANGED <<fw, booter, area, flag, list, msgs, nsess>> BY DEF Done
<1>3. ~Resets => sched.ok /\ Small(fw)
  <2>1. fw.upd >= Total => fw.upd >= 1 /\ Complete(fw.upd)
    BY <1>1, FwFields, Sizes DEF Complete
  <2>2. QED BY <1>1, <2>1 DEF Resets, Flow
<1>4. CASE Resets
  <2>1. mode' = "reset" /\ UNCHANGED <<task, sched>> BY <1>4 DEF Done, Resets
  <2>2. QED BY <1>1, <1>2, <1>3, <1>4, <2>1 DEF TypeInv, TypeOK
<1>5. CASE ~Resets
  <2>1. /\ task' = [task EXCEPT ![sched.cur] = Idle] /\ sched' = Pick(sched.nxt)
        /\ UNCHANGED mode
    BY <1>5 DEF Done, Resets
  <2>2. task' \in [Tasks -> TaskType] BY <1>1, <2>1, IdleIs
  <2>3. sched.nxt \in Tasks \cup {NoTask} BY <1>1, SchedFields
  <2>4. /\ sched' \in SchedType /\ sched'.cur = sched.nxt /\ sched'.ok = TRUE
        /\ sched'.pc = (IF sched.nxt = NoTask THEN "wait" ELSE "start")
    BY <1>1, <2>1, <2>3, PickType
  <2>5. Flow(fw', sched') BY <1>2, <1>3, <1>5, <2>3, <2>4 DEF Flow
  <2>6. QED BY <1>1, <1>2, <1>3, <2>1, <2>2, <2>4, <2>5 DEF TypeInv, TypeOK
<1>6. QED BY <1>4, <1>5

LEMMA InitTypes == Init => TypeInv
<1> SUFFICES ASSUME Init PROVE TypeInv
  OBVIOUS
<1>1. /\ mode = "run" /\ fw = Null /\ booter = NoImage /\ flag = NoImage
      /\ area = [i \in Places |-> Erased] /\ list = <<>> /\ msgs = 0 /\ sched = Quiet
      /\ task = [t \in Tasks |-> Idle] /\ nsess = 0
  BY DEF Init
<1>2. Quiet \in SchedType /\ Quiet.pc = "wait" /\ Quiet.ok = TRUE BY DEF Quiet, SchedType
<1>3. Erased \in Block BY Sizes DEF Erased, Block
<1>4. Small(Null) BY ClearedTypes DEF Small, Cleared
<1>5. Flow(fw, sched) BY <1>1, <1>2, <1>4 DEF Flow
<1>6. QED BY <1>1, <1>2, <1>3, <1>5, Sizes, ClearedTypes, IdleIs DEF TypeInv, TypeOK

LEMMA RestartTypes == TypeInv /\ Restart => TypeInv'
<1> SUFFICES ASSUME TypeInv, Restart PROVE TypeInv'
  OBVIOUS
<1>1. /\ mode' = "run" /\ fw' = Null /\ booter' = NoImage /\ flag' = NoImage
      /\ UNCHANGED <<area, nsess>> /\ list' = <<>> /\ msgs' = 0 /\ sched' = Quiet
      /\ task' = [t \in Tasks |-> Idle]
  BY DEF Restart
<1>2. Quiet \in SchedType /\ Quiet.pc = "wait" /\ Quiet.ok = TRUE BY DEF Quiet, SchedType
<1>3. Small(Null) BY ClearedTypes DEF Small, Cleared
<1>4. Flow(fw', sched') BY <1>1, <1>2, <1>3 DEF Flow
<1>5. QED BY <1>1, <1>2, <1>4, Sizes, ClearedTypes, IdleIs DEF TypeInv, TypeOK

LEMMA NextTypes == TypeInv /\ [Next]_vars => TypeInv'
<1> SUFFICES ASSUME TypeInv, [Next]_vars PROVE TypeInv'
  OBVIOUS
<1>1. CASE UNCHANGED vars BY <1>1 DEF vars, TypeInv, TypeOK
<1>2. CASE PowerLoss BY <1>2 DEF PowerLoss, TypeInv, TypeOK
<1>3. CASE fwup_scheduler
  BY <1>3, ReceiveTypes, StartTypes, WriteHeaderTypes, WriteBlocksTypes, AccountTypes, VerifyTypes,
     SetFlagTypes, FinishTypes, ClearBusyTypes, DoneTypes DEF fwup_scheduler
<1>4. QED BY <1>1, <1>2, <1>3, CallTypes, RestartTypes DEF Next

\* Type correctness, for any number of tasks, images and packets: in particular the
\* lengths of a session stay within the image and one packet, although sessions are
\* left, reset and opened while fwup_scheduler is in the middle of a request.
THEOREM FwupTypeCorrect == Spec => []TypeOK
<1>1. TypeInv => TypeOK BY DEF TypeInv
<1>2. QED BY <1>1, InitTypes, NextTypes, PTL DEF Spec

-----------------------------------------------------------------------------
(* What the flag announces. *)

\* As long as program_base is set, the header in the update area is the one of booter, and
\* only a header is written over it; what was verified stays until the flag is set.
HeaderInv ==
  /\ sched.pc = "header" => fw.off = 0
  /\ sched.ok /\ sched.pc # "header" /\ fw.base =>
       fw.off >= 1 /\ area[0] = [img |-> booter, n |-> 0]
  /\ sched.pc = "flag" => \A i \in {0} \cup Covered(booter) : area[i] = [img |-> booter, n |-> i]

\* The calls only clear base and off together, or leave both alone.
LEMMA CallFw ==
  ASSUME TypeInv, NEW t \in Tasks,
         EnterCheck(t) \/ LeaveCheck(t) \/ tls_fwup_set_crc_error(t) \/ Request(t) \/ Caller(t)
  PROVE  /\ UNCHANGED <<mode, booter, area, flag, sched>>
         /\ (fw'.base = FALSE /\ fw'.off = 0) \/ (fw'.base = fw.base /\ fw'.off = fw.off)
<1>1. UNCHANGED <<mode, booter, area, flag, sched>>
  BY DEF EnterCheck, LeaveCheck, tls_fwup_set_crc_error, Request, Caller, Enter, Leave, Enqueue, Kick
<1>2. fw \in FwType BY DEF TypeInv, TypeOK
<1>3. \/ fw' = fw \/ fw' = [Closed EXCEPT !.num = 0]
      \/ fw' = [Closed EXCEPT !.busy = TRUE, !.sess = task[t].id]
      \/ fw' = Closed
      \/ fw' = [Closed EXCEPT !.busy = fw.busy, !.sess = fw.sess, !.num = fw.num]
      \/ fw' = [fw EXCEPT !.st = fw.st \ {"ERROR"}]
      \/ fw' = [fw EXCEPT !.st = fw.st \cup {"ERROR"}]
      \/ \E p \in Packet : fw' = [fw EXCEPT !.num = p.k]
  BY DEF EnterCheck, LeaveCheck, tls_fwup_set_crc_error, Request, Caller, Enter, Leave, Enqueue,
         Kick, tls_fwup_exit, tls_fwup_reset, tls_fwup_clear_error
<1>4. (fw'.base = FALSE /\ fw'.off = 0) \/ (fw'.base = fw.base /\ fw'.off = fw.off)
  <2>1. CASE fw' = fw BY <2>1
  <2>2. CASE fw' = Closed BY <2>2 DEF Closed
  <2>3. CASE fw' = [Closed EXCEPT !.num = 0] BY <2>3 DEF Closed
  <2>4. CASE fw' = [Closed EXCEPT !.busy = TRUE, !.sess = task[t].id] BY <2>4 DEF Closed
  <2>5. CASE fw' = [Closed EXCEPT !.busy = fw.busy, !.sess = fw.sess, !.num = fw.num]
    BY <2>5 DEF Closed
  <2>6. CASE fw' = [fw EXCEPT !.st = fw.st \ {"ERROR"}] BY <1>2, <2>6 DEF FwType
  <2>7. CASE fw' = [fw EXCEPT !.st = fw.st \cup {"ERROR"}] BY <1>2, <2>7 DEF FwType
  <2>8. CASE \E p \in Packet : fw' = [fw EXCEPT !.num = p.k] BY <1>2, <2>8 DEF FwType
  <2>9. QED BY <1>3, <2>1, <2>2, <2>3, <2>4, <2>5, <2>6, <2>7, <2>8
<1>5. QED BY <1>1, <1>4

LEMMA NextHeader == TypeInv /\ HeaderInv /\ [Next]_vars => HeaderInv'
<1> SUFFICES ASSUME TypeInv, HeaderInv, [Next]_vars PROVE HeaderInv'
  OBVIOUS
<1>1. /\ fw \in FwType /\ sched \in SchedType /\ Flow(fw, sched)
      /\ area \in [Places -> Block] /\ booter \in Images \cup {NoImage}
      /\ fw.off \in Nat /\ fw.base \in BOOLEAN /\ sched.ok \in BOOLEAN
  BY FwFields, SchedFields DEF TypeInv, TypeOK
<1>2. CASE UNCHANGED vars BY <1>2 DEF vars, HeaderInv
<1>3. CASE PowerLoss BY <1>3 DEF PowerLoss, HeaderInv
<1>4. CASE Restart
  <2>1. booter' = NoImage /\ fw' = Null /\ sched' = Quiet BY <1>4 DEF Restart
  <2>2. fw'.base = FALSE /\ sched'.pc = "wait" BY <2>1 DEF Null, Closed, Quiet
  <2>3. QED BY <2>1, <2>2 DEF HeaderInv
<1>5. ASSUME NEW t \in Tasks,
             EnterCheck(t) \/ LeaveCheck(t) \/ tls_fwup_set_crc_error(t) \/ Request(t) \/ Caller(t)
      PROVE  HeaderInv'
  BY <1>5, CallFw DEF HeaderInv
<1>6. CASE Receive
  <2>1. UNCHANGED <<booter, area>> /\ sched.pc = "wait" /\ sched.ok BY <1>1, <1>6 DEF Receive, Flow
  <2>2. fw'.base = fw.base /\ fw'.off = fw.off BY <1>1, <1>6 DEF Receive, FwType
  <2>3. sched'.pc \in {"wait", "start"}
    <3>1. CASE list = <<>> BY <1>6, <2>1, <3>1 DEF Receive
    <3>2. CASE list # <<>>
      <4>1. list \in Seq(Tasks) /\ Head(list) \in Tasks BY <3>2 DEF TypeInv, TypeOK
      <4>2. sched' = Pick(Head(list)) BY <1>6, <3>2 DEF Receive
      <4>3. QED BY <4>1, <4>2, PickType
    <3>3. QED BY <3>1, <3>2
  <2>4. QED BY <2>1, <2>2, <2>3 DEF HeaderInv
<1>7. CASE Start
  <2>1. sched.pc = "start" /\ sched.ok /\ UNCHANGED area BY <1>1, <1>7, StartCases DEF Flow
  <2>2. CASE Refused \/ NoHeader
    <3>1. sched'.pc = "finish" /\ sched'.ok = FALSE
      BY <1>1, <2>1, <2>2, FailedFlow DEF Refused, NoHeader
    <3>2. QED BY <3>1 DEF HeaderInv
  <2>3. CASE Header
    <3>1. fw'.off = 0 BY <1>1, <2>3, StartFw DEF Header
    <3>2. sched'.pc = "header" BY <1>1, <2>3 DEF Header, SchedType
    <3>3. QED BY <3>1, <3>2 DEF HeaderInv
  <2>4. CASE More
    <3>1. fw' = [fw EXCEPT !.recv = fw.recv + Len(Data(Pkt))] BY <2>4 DEF More, MoreOf
    <3>2. fw'.base = fw.base /\ fw'.off = fw.off BY <1>1, <3>1 DEF FwType
    <3>3. sched'.pc = "write" BY <1>1, <2>4 DEF More, SchedType
    <3>4. UNCHANGED booter BY <2>4 DEF More
    <3>5. QED BY <2>1, <3>2, <3>3, <3>4 DEF HeaderInv
  <2>5. QED BY <1>7, <2>2, <2>3, <2>4, StartCases
<1>7h. CASE WriteHeader
  <2>1. UNCHANGED booter /\ sched.pc = "header" /\ sched.ok BY <1>1, <1>7h DEF WriteHeader, Flow
  <2>2. CASE SchedFails BY <2>1, <2>2, FailsTypes DEF HeaderInv
  <2>3. CASE /\ area' = IF fw.base THEN [area EXCEPT ![fw.off] = [img |-> booter, n |-> 0]] ELSE area
             /\ fw' = [fw EXCEPT !.upd = 1, !.off = 1, !.recv = fw.recv + Len(sched.data)]
             /\ sched' = [sched EXCEPT !.pc = "write"]
    <3>1. fw'.base = fw.base /\ fw'.off = 1 BY <1>1, <2>3 DEF FwType
    <3>2. fw.base => area'[0] = [img |-> booter, n |-> 0] BY <1>1, <2>1, <2>3, Sizes DEF HeaderInv
    <3>3. sched'.pc = "write" BY <1>1, <2>3 DEF SchedType
    <3>4. QED BY <2>1, <3>1, <3>2, <3>3 DEF HeaderInv
  <2>4. QED BY <1>7h, <2>2, <2>3 DEF WriteHeader
<1>8. CASE WriteBlocks
  <2>1. UNCHANGED booter /\ sched.pc = "write" /\ sched.ok BY <1>1, <1>8 DEF WriteBlocks, Flow
  <2>2. CASE SchedFails BY <2>1, <2>2, FailsTypes DEF HeaderInv
  <2>3. CASE /\ area' = [i \in Places |->
                      IF fw.base /\ i - fw.off + 1 \in 1 .. Len(sched.data)
                        THEN sched.data[i - fw.off + 1] ELSE area[i]]
             /\ sched' = [sched EXCEPT !.pc = "account"]
             /\ fw' = fw
    <3>1. fw.base => ~(0 - fw.off + 1 \in 1 .. Len(sched.data))
      BY <1>1, <2>1, SchedFields DEF HeaderInv
    <3>2. area'[0] = area[0] BY <2>3, <3>1, Sizes
    <3>3. sched'.pc = "account" BY <1>1, <2>3 DEF SchedType
    <3>4. QED BY <2>1, <2>3, <3>2, <3>3 DEF HeaderInv
  <2>4. QED BY <1>8, <2>2, <2>3 DEF WriteBlocks
<1>9. CASE Account
  <2>1. /\ UNCHANGED <<booter, area>> /\ sched.pc = "account" /\ sched.ok
        /\ fw' = [fw EXCEPT !.off = fw.off + Len(sched.data), !.upd = fw.upd + Len(sched.data)]
    BY <1>1, <1>9 DEF Account, Flow
  <2>2. fw'.base = fw.base /\ fw'.off = fw.off + Len(sched.data) BY <1>1, <2>1 DEF FwType
  <2>3. fw'.base => fw'.off >= 1 BY <1>1, <2>1, <2>2, SchedFields DEF HeaderInv
  <2>4. sched'.pc \notin {"header", "flag"} BY <1>1, <1>9 DEF Account, SchedType
  <2>5. QED BY <2>1, <2>2, <2>3, <2>4 DEF HeaderInv
<1>10. CASE Verify
  <2>1. UNCHANGED <<booter, area>> /\ sched.pc = "verify" /\ sched.ok BY <1>1, <1>10 DEF Verify, Flow
  <2>2. CASE SchedFails BY <2>1, <2>2, FailsTypes DEF HeaderInv
  <2>3. CASE Verified /\ fw' = fw /\ sched' = [sched EXCEPT !.pc = "flag"]
    <3>1. area[0] = [img |-> booter, n |-> 0] BY <2>1, <2>3 DEF HeaderInv, Verified
    <3>2. sched'.pc = "flag" BY <1>1, <2>3 DEF SchedType
    <3>3. QED BY <2>1, <2>3, <3>1, <3>2 DEF HeaderInv, Verified
  <2>4. QED BY <1>10, <2>2, <2>3 DEF Verify
<1>11. CASE SetFlag
  <2>1. UNCHANGED <<booter, area>> /\ sched.pc = "flag" /\ sched.ok BY <1>1, <1>11 DEF SetFlag, Flow
  <2>2. fw'.base = fw.base /\ fw'.off = fw.off BY <1>1, <1>11 DEF SetFlag, FwType
  <2>3. sched'.pc = "finish" BY <1>1, <1>11 DEF SetFlag, SchedType
  <2>4. QED BY <2>1, <2>2, <2>3 DEF HeaderInv
<1>12. CASE Finish \/ ClearBusy
  <2>1. /\ UNCHANGED <<booter, area>> /\ sched.pc \in {"finish", "unlisted"}
        /\ \E pc \in {"unlisted", "done"} : sched' = [sched EXCEPT !.pc = pc]
    BY <1>12 DEF Finish, ClearBusy
  <2>2. fw'.base = fw.base /\ fw'.off = fw.off BY <1>1, <1>12 DEF Finish, ClearBusy, FwType
  <2>3. sched'.pc \in {"unlisted", "done"} /\ sched'.ok = sched.ok BY <2>1, GoesOn
  <2>4. QED BY <2>1, <2>2, <2>3 DEF HeaderInv
<1>13. CASE Done
  <2>1. UNCHANGED <<fw, booter, area>> /\ sched.pc = "done" BY <1>13 DEF Done
  <2>2. CASE Resets
    <3>1. UNCHANGED sched BY <1>13, <2>2 DEF Done, Resets
    <3>2. QED BY <2>1, <3>1 DEF HeaderInv
  <2>3. CASE ~Resets
    <3>1. sched' = Pick(sched.nxt) /\ sched.ok BY <1>13, <2>3 DEF Done, Resets
    <3>2. list \in Seq(Tasks) /\ sched.nxt \in Tasks \cup {NoTask}
      BY <1>1, SchedFields DEF TypeInv, TypeOK
    <3>3. sched'.pc \in {"wait", "start"} BY <3>1, <3>2, PickType
    <3>4. QED BY <2>1, <3>1, <3>3 DEF HeaderInv
  <2>4. QED BY <2>2, <2>3
<1>14. QED BY <1>2, <1>3, <1>4, <1>5, <1>6, <1>7, <1>7h, <1>8, <1>9, <1>10, <1>11, <1>12, <1>13
           DEF Next, fwup_scheduler

LEMMA InitHeader == Init => HeaderInv
<1> SUFFICES ASSUME Init PROVE HeaderInv
  OBVIOUS
<1>1. booter = NoImage /\ fw = Null /\ sched = Quiet BY DEF Init
<1>2. fw.base = FALSE /\ sched.pc = "wait" BY <1>1 DEF Null, Closed, Quiet
<1>3. QED BY <1>1, <1>2 DEF HeaderInv

\* Only SetFlag sets the flag.
LEMMA OnlySetFlag ==
  ASSUME [Next]_vars, flag' # flag
  PROVE  SetFlag \/ flag' = NoImage
BY DEF Next, vars, EnterCheck, LeaveCheck, tls_fwup_set_crc_error, Request, Caller, Enter, Leave,
       Enqueue, Kick, fwup_scheduler, Receive, Start, WriteHeader, WriteBlocks, Account, Verify,
       Finish, ClearBusy, Done, PowerLoss, Restart

\* The flag is only ever set for an image whose header and whose every block under the
\* checksum are in the update area at that moment, for any number of tasks: no matter
\* which calls they make of the API, and when, even between the check of the header and
\* its write, the verified image is untouched.  The signature of a signed image is not
\* under the checksum.
THEOREM FlagSetVerified ==
  Spec => [][flag' # flag /\ flag' # NoImage =>
               \A i \in {0} \cup Covered(flag') : area'[i] = [img |-> flag', n |-> i]]_vars
<1>1. TypeInv /\ HeaderInv /\ [Next]_vars =>
        [flag' # flag /\ flag' # NoImage =>
           \A i \in {0} \cup Covered(flag') : area'[i] = [img |-> flag', n |-> i]]_vars
  <2> SUFFICES ASSUME TypeInv, HeaderInv, [Next]_vars, flag' # flag, flag' # NoImage,
                      NEW i \in {0} \cup Covered(flag')
               PROVE  area'[i] = [img |-> flag', n |-> i]
    OBVIOUS
  <2>1. SetFlag BY OnlySetFlag
  <2>2. flag' = booter /\ area' = area /\ sched.pc = "flag" BY <2>1 DEF SetFlag
  <2>3. QED BY <2>2 DEF HeaderInv
<1>2. QED BY <1>1, InitTypes, NextTypes, InitHeader, NextHeader, PTL DEF Spec

-----------------------------------------------------------------------------
(* One task that uses the API. *)

OneCaller == \A t, u \in Tasks : t = u

\* The task is in its request as long as the scheduler is.
OneInv ==
  /\ Len(list) <= 1
  /\ list # <<>> \/ sched.pc # "wait" => \A t \in Tasks : task[t].pc \in {"kick", "wait"}
  /\ sched.pc # "wait" => sched.nxt = NoTask
  /\ sched.pc \in {"unlisted", "done"} => list = <<>>

\* Once the flag is set, only the end of the request and the reset follow.
FlagInv ==
  /\ sched.pc = "flag" => fw.upd >= Total
  /\ mode = "run" /\ flag # NoImage => sched.pc \in Ending /\ fw.upd >= Total
  /\ FlagMeansVerified

\* A call other than the last step of a request finds the scheduler waiting.
LEMMA CallQuiet ==
  ASSUME TypeInv, OneInv, NEW t \in Tasks,
         EnterCheck(t) \/ LeaveCheck(t) \/ tls_fwup_set_crc_error(t) \/ Request(t) \/ Caller(t)
  PROVE  \/ sched.pc = "wait" /\ list = <<>>
         \/ Kick(t) /\ UNCHANGED <<fw, list>>
<1>1. CASE Kick(t) BY <1>1 DEF Kick
<1>2. CASE task[t].pc \notin {"kick", "wait"} BY <1>2 DEF OneInv
<1>3. EnterCheck(t) \/ LeaveCheck(t) \/ tls_fwup_set_crc_error(t) \/ Request(t)
        => task[t].pc = "idle"
  BY DEF EnterCheck, LeaveCheck, tls_fwup_set_crc_error, Request
<1>4. Enter(t) \/ Leave(t) \/ Enqueue(t) => task[t].pc \in {"enter", "exit", "reset", "clear_error", "append"}
  BY DEF Enter, Leave, Enqueue
<1>5. QED BY <1>1, <1>2, <1>3, <1>4 DEF Caller

LEMMA CallOne ==
  ASSUME OneCaller, TypeInv, OneInv, NEW t \in Tasks,
         EnterCheck(t) \/ LeaveCheck(t) \/ tls_fwup_set_crc_error(t) \/ Request(t) \/ Caller(t)
  PROVE  OneInv'
<1>1. UNCHANGED sched BY CallFw
<1>2. \A u \in Tasks : u = t BY DEF OneCaller
<1>3. task \in [Tasks -> TaskType] /\ task[t] \in TaskType /\ list \in Seq(Tasks)
  BY DEF TypeInv, TypeOK
<1>4. CASE Kick(t)
  <2>1. UNCHANGED list /\ task' = [task EXCEPT ![t].pc = "wait"] BY <1>4 DEF Kick
  <2>2. task'[t].pc = "wait" BY <1>3, <2>1 DEF TaskType
  <2>3. QED BY <1>1, <1>2, <2>1, <2>2 DEF OneInv
<1>5. CASE sched.pc = "wait" /\ list = <<>>
  <2>1. CASE list' = <<>>
    <3>1. Len(list') = 0 BY <2>1
    <3>2. QED BY <1>1, <1>5, <2>1, <3>1 DEF OneInv
  <2>2. CASE list' # <<>>
    <3>1. Enqueue(t) /\ task[t].id = fw.sess
      BY <1>5, <2>2 DEF EnterCheck, LeaveCheck, tls_fwup_set_crc_error, Request, Caller, Enter,
                        Leave, Enqueue, Kick
    <3>2. list' = Append(list, t) /\ task' = [task EXCEPT ![t].pc = NeedSched]
      BY <3>1 DEF Enqueue
    <3>3. Len(list') = 1 BY <1>3, <1>5, <3>2
    <3>4. NeedSched \in {"kick", "wait"} BY DEF NeedSched
    <3>5. task'[t].pc \in {"kick", "wait"} BY <1>3, <3>2, <3>4 DEF TaskType
    <3>6. QED BY <1>1, <1>2, <1>5, <3>3, <3>5 DEF OneInv
  <2>3. QED BY <2>1, <2>2
<1>6. QED BY <1>4, <1>5, CallQuiet

LEMMA BehindOne ==
  ASSUME TypeInv, Len(list) <= 1, NEW t
  PROVE  Behind(t) = NoTask
<1>1. Len(list) \in Nat BY DEF TypeInv, TypeOK
<1>2. {i \in 1 .. Len(list) : i > 1 /\ list[i - 1] = t} = {} BY <1>1
<1>3. QED BY <1>2 DEF Behind

\* What the steps of the scheduler between the first and the last leave alone.
LEMMA SchedMiddle ==
  ASSUME TypeInv, Start \/ WriteHeader \/ WriteBlocks \/ Account \/ Verify \/ SetFlag
  PROVE  /\ UNCHANGED <<list, task, mode, msgs>> /\ mode = "run"
         /\ sched.pc \in {"start", "header", "write", "account", "verify", "flag"}
         /\ sched'.nxt = sched.nxt
         /\ sched'.pc \in {"header", "write", "account", "verify", "flag", "finish"}
<1>1. sched \in SchedType BY DEF TypeInv, TypeOK
<1>2. /\ UNCHANGED <<list, task, mode, msgs>> /\ mode = "run"
      /\ sched.pc \in {"start", "header", "write", "account", "verify", "flag"}
  BY DEF Start, WriteHeader, WriteBlocks, Account, Verify, SetFlag
<1>3. \/ \E pc \in {"header", "write", "account", "verify", "flag", "finish"} : sched' = [sched EXCEPT !.pc = pc]
      \/ \E d : \/ sched' = [sched EXCEPT !.pc = "header", !.data = d]
                \/ sched' = [sched EXCEPT !.pc = "write", !.data = d]
      \/ sched' = [sched EXCEPT !.pc = "finish", !.ok = FALSE]
  BY DEF Start, WriteHeader, WriteBlocks, Account, Verify, SetFlag, SchedFails
<1>4. QED BY <1>1, <1>2, <1>3 DEF SchedType

LEMMA NextOne == OneCaller /\ TypeInv /\ OneInv /\ [Next]_vars => OneInv'
<1> SUFFICES ASSUME OneCaller, TypeInv, OneInv, [Next]_vars PROVE OneInv'
  OBVIOUS
<1>1. sched \in SchedType /\ list \in Seq(Tasks) /\ task \in [Tasks -> TaskType]
  BY DEF TypeInv, TypeOK
<1>2. CASE UNCHANGED vars BY <1>2 DEF vars, OneInv
<1>3. CASE PowerLoss BY <1>3 DEF PowerLoss, OneInv
<1>4. CASE Restart
  <2>1. list' = <<>> /\ sched'.pc = "wait" BY <1>4 DEF Restart, Quiet
  <2>2. QED BY <2>1 DEF OneInv
<1>5. CASE Start \/ WriteHeader \/ WriteBlocks \/ Account \/ Verify \/ SetFlag
  BY <1>5, SchedMiddle DEF OneInv
<1>6. CASE Receive
  <2>1. UNCHANGED <<list, task>> /\ sched.pc = "wait" BY <1>6 DEF Receive
  <2>2. CASE list = <<>> BY <1>6, <2>1, <2>2 DEF Receive, OneInv
  <2>3. CASE list # <<>>
    <3>1. sched' = Pick(Head(list)) /\ Head(list) \in Tasks BY <1>1, <1>6, <2>3 DEF Receive
    <3>2. sched'.pc = "start" /\ sched'.nxt = NoTask BY <1>1, <3>1, PickType, BehindOne, Sizes DEF OneInv
    <3>3. QED BY <2>1, <2>3, <3>2 DEF OneInv
  <2>4. QED BY <2>2, <2>3
<1>7. CASE Finish
  <2>1. UNCHANGED task /\ sched.pc = "finish" BY <1>7 DEF Finish
  <2>2. PICK i \in 1 .. Len(list) : list' = RemoveAt(list, i) BY <1>7 DEF Finish
  <2>3. list' \in Seq(Tasks) /\ Len(list') = Len(list) - 1 /\ Len(list) <= 1 /\ Len(list) \in Nat
    BY <1>1, <2>2, RemoveAtType DEF OneInv
  <2>4. Len(list') = 0 /\ list' = <<>> BY <2>3, <2>2, EmptySeq
  <2>5. sched' = [sched EXCEPT !.pc = "unlisted"] BY <1>7 DEF Finish
  <2>6. sched'.pc = "unlisted" /\ sched'.nxt = sched.nxt BY <1>1, <2>5 DEF SchedType
  <2>7. QED BY <2>1, <2>4, <2>6 DEF OneInv
<1>10. CASE ClearBusy
  <2>1. UNCHANGED <<list, task>> /\ sched.pc = "unlisted" /\ sched' = [sched EXCEPT !.pc = "done"]
    BY <1>10 DEF ClearBusy
  <2>2. sched'.pc = "done" /\ sched'.nxt = sched.nxt BY <1>1, <2>1 DEF SchedType
  <2>3. QED BY <2>1, <2>2 DEF OneInv
<1>8. CASE Done
  <2>1. UNCHANGED list /\ list = <<>> /\ sched.pc = "done" /\ sched.nxt = NoTask
    BY <1>8 DEF Done, OneInv
  <2>2. CASE Resets
    <3>1. UNCHANGED <<task, sched>> BY <1>8, <2>2 DEF Done, Resets
    <3>2. QED BY <2>1, <3>1 DEF OneInv
  <2>3. CASE ~Resets
    <3>1. sched' = Pick(NoTask) BY <1>8, <2>1, <2>3 DEF Done, Resets
    <3>2. sched'.pc = "wait" BY <1>1, <3>1, PickType
    <3>3. QED BY <2>1, <3>2 DEF OneInv
  <2>4. QED BY <2>2, <2>3
<1>9. QED BY <1>2, <1>3, <1>4, <1>5, <1>6, <1>7, <1>8, <1>10, CallOne DEF Next, fwup_scheduler

LEMMA InitOne == Init => OneInv
<1>1. Init => Len(list) = 0 /\ list = <<>> /\ sched.pc = "wait" BY DEF Init, Quiet
<1>2. QED BY <1>1 DEF OneInv

LEMMA NextFlag == TypeInv /\ HeaderInv /\ OneInv /\ FlagInv /\ [Next]_vars => FlagInv'
<1> SUFFICES ASSUME TypeInv, HeaderInv, OneInv, FlagInv, [Next]_vars PROVE FlagInv'
  OBVIOUS
<1>1. /\ fw \in FwType /\ sched \in SchedType /\ Flow(fw, sched) /\ fw.upd \in Nat
      /\ area \in [Places -> Block]
  BY FwFields DEF TypeInv, TypeOK
<1>2. CASE UNCHANGED vars BY <1>2 DEF vars, FlagInv, FlagMeansVerified
<1>3. CASE PowerLoss BY <1>3 DEF PowerLoss, FlagInv, FlagMeansVerified
<1>4. CASE Restart
  <2>1. flag' = NoImage /\ sched'.pc = "wait" BY <1>4 DEF Restart, Quiet
  <2>2. QED BY <2>1 DEF FlagInv, FlagMeansVerified
<1>5. ASSUME NEW t \in Tasks,
             EnterCheck(t) \/ LeaveCheck(t) \/ tls_fwup_set_crc_error(t) \/ Request(t) \/ Caller(t)
      PROVE  FlagInv'
  <2>1. UNCHANGED <<mode, area, flag, sched>> BY <1>5, CallFw
  <2>2. CASE UNCHANGED fw BY <2>1, <2>2 DEF FlagInv, FlagMeansVerified
  <2>3. CASE sched.pc = "wait" BY <2>1, <2>3 DEF FlagInv, FlagMeansVerified
  <2>4. QED BY <1>5, <2>2, <2>3, CallQuiet
<1>6. CASE Receive
  <2>1. UNCHANGED <<mode, area, flag>> /\ sched.pc = "wait" /\ mode = "run" BY <1>6 DEF Receive
  <2>2. flag = NoImage BY <2>1 DEF FlagInv
  <2>3. sched'.pc # "flag"
    <3>1. CASE list = <<>> BY <1>6, <2>1, <3>1 DEF Receive
    <3>2. CASE list # <<>>
      <4>1. list \in Seq(Tasks) /\ Head(list) \in Tasks BY <3>2 DEF TypeInv, TypeOK
      <4>2. sched' = Pick(Head(list)) BY <1>6, <3>2 DEF Receive
      <4>3. QED BY <4>1, <4>2, PickType
    <3>3. QED BY <3>1, <3>2
  <2>4. QED BY <2>1, <2>2, <2>3 DEF FlagInv, FlagMeansVerified
<1>7. CASE Start \/ WriteHeader \/ WriteBlocks \/ Account
  <2>1. UNCHANGED flag /\ mode = "run" /\ sched.pc \in {"start", "header", "write", "account"}
    BY <1>7 DEF Start, WriteHeader, WriteBlocks, Account
  <2>2. flag = NoImage BY <2>1 DEF FlagInv
  <2>3. sched'.pc # "flag"
    <3>1. CASE Start
      <4>1. \/ \E d : \/ sched' = [sched EXCEPT !.pc = "header", !.data = d]
                      \/ sched' = [sched EXCEPT !.pc = "write", !.data = d]
            \/ sched' = [sched EXCEPT !.pc = "finish", !.ok = FALSE]
        BY <3>1 DEF Start, SchedFails
      <4>2. QED BY <1>1, <4>1 DEF SchedType
    <3>2. CASE WriteHeader \/ WriteBlocks \/ Account
      BY <1>1, <3>2 DEF WriteHeader, WriteBlocks, Account, SchedFails, SchedType
    <3>3. QED BY <1>7, <3>1, <3>2
  <2>4. QED BY <2>1, <2>2, <2>3 DEF FlagInv, FlagMeansVerified
<1>8. CASE Verify
  <2>1. UNCHANGED flag /\ mode = "run" /\ sched.pc = "verify" BY <1>8 DEF Verify
  <2>2. flag = NoImage BY <2>1 DEF FlagInv
  <2>3. CASE Verified /\ fw' = fw
    <3>1. fw.upd >= Total BY <1>1, <2>1, <2>3 DEF Verified, Flow
    <3>2. QED BY <2>1, <2>2, <2>3, <3>1 DEF FlagInv, FlagMeansVerified
  <2>4. CASE SchedFails
    <3>1. sched'.pc = "finish" BY <2>1, <2>4, FailsTypes
    <3>2. QED BY <2>1, <2>2, <3>1 DEF FlagInv, FlagMeansVerified
  <2>5. QED BY <1>8, <2>3, <2>4 DEF Verify
<1>9. CASE SetFlag
  <2>1. UNCHANGED <<mode, area>> /\ sched.pc = "flag" /\ sched.ok BY <1>1, <1>9 DEF SetFlag, Flow
  <2>2. fw'.upd = fw.upd BY <1>1, <1>9 DEF SetFlag, FwType
  <2>3. sched'.pc = "finish" BY <1>1, <1>9 DEF SetFlag, SchedType
  <2>4. FlagMeansVerified'
    <3>1. CASE flag' = booter BY <2>1, <3>1 DEF HeaderInv, FlagMeansVerified
    <3>2. CASE flag' = flag BY <2>1, <3>2 DEF FlagInv, FlagMeansVerified
    <3>3. QED BY <1>9, <3>1, <3>2 DEF SetFlag
  <2>5. QED BY <2>1, <2>2, <2>3, <2>4 DEF FlagInv
<1>10. CASE Finish \/ ClearBusy
  <2>1. UNCHANGED <<mode, area, flag>> /\ sched.pc \in Ending BY <1>10 DEF Finish, ClearBusy
  <2>2. fw'.upd = fw.upd BY <1>1, <1>10 DEF Finish, ClearBusy, FwType
  <2>3. sched'.pc \in Ending BY <1>1, <1>10 DEF Finish, ClearBusy, SchedType
  <2>4. QED BY <2>1, <2>2, <2>3 DEF FlagInv, FlagMeansVerified
<1>11. CASE Done
  <2>1. UNCHANGED <<fw, area, flag>> /\ mode = "run" /\ sched.pc = "done" BY <1>11 DEF Done
  <2>2. CASE Resets
    <3>1. mode' = "reset" /\ UNCHANGED sched BY <1>11, <2>2 DEF Done, Resets
    <3>2. QED BY <2>1, <3>1 DEF FlagInv, FlagMeansVerified
  <2>3. CASE ~Resets
    <3>1. fw.upd >= Total => Resets BY <1>1, FwFields, Sizes DEF Resets, Complete
    <3>2. flag = NoImage BY <2>1, <2>3, <3>1 DEF FlagInv
    <3>3. sched' = Pick(NoTask) BY <1>11, <2>1, <2>3 DEF Done, Resets, OneInv
    <3>4. sched'.pc = "wait"
      <4>1. list \in Seq(Tasks) BY DEF TypeInv, TypeOK
      <4>2. QED BY <3>3, <4>1, PickType
    <3>5. QED BY <2>1, <3>2, <3>4 DEF FlagInv, FlagMeansVerified
  <2>4. QED BY <2>2, <2>3
<1>12. QED BY <1>2, <1>3, <1>4, <1>5, <1>6, <1>7, <1>8, <1>9, <1>10, <1>11 DEF Next, fwup_scheduler

LEMMA InitFlag == Init => FlagInv
<1>1. Init => flag = NoImage /\ sched.pc = "wait" BY DEF Init, Quiet
<1>2. QED BY <1>1 DEF FlagInv, FlagMeansVerified

\* With one task that uses the API, whatever packets, sessions, failures and power losses
\* it meets, a flag that is set always announces an image whose header and every block
\* under the checksum are in the update area: the system is reset before anything is
\* written there again.
THEOREM FlagAnnouncesVerified == OneCaller => (Spec => []FlagMeansVerified)
<1> SUFFICES ASSUME OneCaller PROVE Spec => []FlagMeansVerified
  OBVIOUS
<1> DEFINE Inv == TypeInv /\ HeaderInv /\ OneInv /\ FlagInv
<1>1. Init => Inv BY InitTypes, InitHeader, InitOne, InitFlag
<1>2. Inv /\ [Next]_vars => Inv' BY NextTypes, NextHeader, NextOne, NextFlag
<1>3. Inv => FlagMeansVerified BY DEF FlagInv
<1> HIDE DEF Inv
<1>4. QED BY <1>1, <1>2, <1>3, PTL DEF Spec

-----------------------------------------------------------------------------
(* An update by numbered packets. *)

\* One task sends packets of one image over the UART, into a flash that works.
Uart ==
  /\ OneCaller /\ Numbered = TRUE /\ IoMayFail = FALSE /\ Calls \subseteq {"exit"}
  /\ \A a, b \in Images : a = b

BlockOf(b, i) == [img |-> b, n |-> i]
Upto(a, b, m) == b \in Images /\ \A i \in 0 .. m - 1 : a[i] = BlockOf(b, i)
Lengths(f, n, r) == f.base = TRUE /\ f.total = Total /\ f.off = n /\ f.upd = n /\ f.recv = r

\* The first k packets of the image have been written.
Taken(f, a, img, k) ==
  IF k = 0 THEN f.recv = 0 ELSE Lengths(f, k + 1, k + 1) /\ Upto(a, img, k + 1)

Requesting == {"append", "kick", "wait"}

\* The header is about to be written, with the rest of packet 0 behind it.
HeaderAlone(f, d, b) ==
  /\ b \in Images /\ f.num = 0 /\ f.base = TRUE /\ f.total = Total /\ f.off = 0 /\ f.recv = 1
  /\ d = <<[img |-> b, n |-> 1]>>

\* The number of the session is that of the last packet that was handed over: it has
\* been written, or it is the one in the task's request.
NumInv ==
  /\ NumberedNeverFails
  /\ \A t \in Tasks :
       /\ task[t].pc \notin {"reset", "clear_error"}
       /\ task[t].pc = "append" => task[t].id = fw.sess
       /\ task[t].pc \in Requesting => fw.sess > 0 /\ task[t].pkt \in Packet /\ task[t].pkt.k = fw.num
       /\ task[t].pc \in Requesting /\ sched.pc \in {"wait", "start"} => Taken(fw, area, booter, fw.num)
       /\ task[t].pc \notin Requesting /\ fw.sess > 0 => Taken(fw, area, booter, fw.num + 1)
  /\ sched.pc = "header" => HeaderAlone(fw, sched.data, booter)
  /\ sched.pc \in {"write", "account"} =>
       /\ Lengths(fw, fw.num + 1, fw.num + 2) /\ Upto(area, booter, fw.num + 1)
       /\ sched.data = <<[img |-> booter, n |-> fw.num + 1]>>
  /\ sched.pc = "account" => area[fw.num + 1] = [img |-> booter, n |-> fw.num + 1]
  /\ sched.pc \in {"verify", "flag"} \/ (sched.pc \in Ending /\ sched.ok) =>
       Lengths(fw, fw.num + 2, fw.num + 2) /\ Upto(area, booter, fw.num + 2)

\* The fields that the packets of a session are counted in.
SameCounts(f, g) ==
  g.base = f.base /\ g.total = f.total /\ g.off = f.off /\ g.upd = f.upd /\ g.recv = f.recv
    /\ g.num = f.num /\ g.sess = f.sess

LEMMA SameTaken ==
  ASSUME NEW f, NEW g, NEW a, NEW img, NEW k, NEW n, NEW r, SameCounts(f, g)
  PROVE  Taken(g, a, img, k) = Taken(f, a, img, k) /\ Lengths(g, n, r) = Lengths(f, n, r)
BY DEF SameCounts, Taken, Lengths

\* The session keeps its counts, and the task what it does.
LEMMA SameNum ==
  ASSUME NumInv, SameCounts(fw, fw'), "ERROR" \notin fw'.st, UNCHANGED <<area, booter, sched>>,
         \A t \in Tasks : /\ task'[t].pkt = task[t].pkt /\ task'[t].id = task[t].id
                          /\ task'[t].pc # "append" \/ task[t].pc = "append"
                          /\ task'[t].pc \notin {"reset", "clear_error"}
                          /\ task'[t].pc \in Requesting <=> task[t].pc \in Requesting
  PROVE  NumInv'
<1>1. /\ fw'.num = fw.num /\ fw'.sess = fw.sess BY DEF SameCounts
<1>2. \A k : Taken(fw', area', booter', k) = Taken(fw, area, booter, k) BY SameTaken
<1>3. /\ \A n, r : Lengths(fw', n, r) = Lengths(fw, n, r)
      /\ \A d, b : HeaderAlone(fw', d, b) = HeaderAlone(fw, d, b)
  BY SameTaken DEF HeaderAlone, SameCounts
<1>4. NumberedNeverFails' BY DEF NumberedNeverFails
<1>5. \A t \in Tasks :
       /\ task'[t].pc \notin {"reset", "clear_error"}
       /\ task'[t].pc = "append" => task'[t].id = fw'.sess
       /\ task'[t].pc \in Requesting => fw'.sess > 0 /\ task'[t].pkt \in Packet /\ task'[t].pkt.k = fw'.num
       /\ task'[t].pc \in Requesting /\ sched'.pc \in {"wait", "start"} => Taken(fw', area', booter', fw'.num)
       /\ task'[t].pc \notin Requesting /\ fw'.sess > 0 => Taken(fw', area', booter', fw'.num + 1)
  BY <1>1, <1>2 DEF NumInv
<1>6. QED BY <1>1, <1>3, <1>4, <1>5 DEF NumInv

LEMMA CallNum ==
  ASSUME Uart, TypeInv, OneInv, NumInv, NEW t \in Tasks,
         EnterCheck(t) \/ LeaveCheck(t) \/ tls_fwup_set_crc_error(t) \/ Request(t) \/ Caller(t)
  PROVE  NumInv'
<1>1. UNCHANGED <<booter, area, sched>> BY CallFw
<1>2. \A u \in Tasks : u = t BY DEF Uart, OneCaller
<1>3. /\ task \in [Tasks -> TaskType] /\ task[t] \in TaskType /\ fw \in FwType
      /\ fw.num \in -1 .. N - 1
  BY FwFields DEF TypeInv, TypeOK
<1>4. "ERROR" \notin fw.st BY DEF NumInv, NumberedNeverFails
<1>5. SameCounts(fw, fw) BY DEF SameCounts
<1>6. CASE Kick(t)
  <2>1. UNCHANGED fw /\ task[t].pc = "kick" /\ task' = [task EXCEPT ![t].pc = "wait"] BY <1>6 DEF Kick
  <2>2. task'[t].pc = "wait" /\ task'[t].pkt = task[t].pkt /\ task'[t].id = task[t].id
    BY <1>3, <2>1 DEF TaskType
  <2>3. QED BY <1>1, <1>2, <1>4, <1>5, <2>1, <2>2, SameNum DEF Requesting
<1>7. ASSUME sched.pc = "wait", NumberedNeverFails',
             /\ task'[t].pc \notin {"reset", "clear_error"}
             /\ task'[t].pc = "append" => task'[t].id = fw'.sess
             /\ task'[t].pc \in Requesting => fw'.sess > 0 /\ task'[t].pkt \in Packet /\ task'[t].pkt.k = fw'.num
             /\ task'[t].pc \in Requesting => Taken(fw', area', booter', fw'.num)
             /\ task'[t].pc \notin Requesting /\ fw'.sess > 0 => Taken(fw', area', booter', fw'.num + 1)
      PROVE  NumInv'
  <2>1. sched'.pc = "wait" BY <1>1, <1>7
  <2>2. QED BY <1>2, <1>7, <2>1 DEF NumInv
<1>8. CASE sched.pc = "wait" /\ list = <<>> /\ ~Kick(t)
  <2>1. CASE EnterCheck(t)
    <3>1. task[t].pc = "idle" /\ task'[t].pc = "enter" BY <1>3, <2>1 DEF EnterCheck, TaskType, Idle
    <3>2. CASE fw' = fw
      BY <1>1, <1>4, <1>7, <1>8, <3>1, <3>2 DEF NumInv, NumberedNeverFails, Requesting
    <3>3. CASE fw' = [Closed EXCEPT !.num = 0]
      <4>1. fw'.sess = 0 /\ fw'.st = {} BY <3>3 DEF Closed
      <4>2. QED BY <1>7, <1>8, <3>1, <4>1 DEF NumberedNeverFails, Requesting
    <3>4. QED BY <2>1, <3>2, <3>3 DEF EnterCheck
  <2>2. CASE Enter(t)
    <3>1. task'[t].pc = "idle" BY <1>3, <2>2 DEF Enter, TaskType
    <3>2. fw' = [Closed EXCEPT !.busy = TRUE, !.sess = task[t].id] BY <2>2 DEF Enter
    <3>3. fw'.recv = 0 /\ fw'.st = {} /\ fw'.num = -1 BY <3>2 DEF Closed
    <3>4. Taken(fw', area', booter', fw'.num + 1) BY <3>3 DEF Taken
    <3>5. QED BY <1>7, <1>8, <3>1, <3>3, <3>4 DEF NumberedNeverFails, Requesting
  <2>3. CASE LeaveCheck(t)
    <3>1. fw' = fw /\ task[t].pc = "idle" BY <2>3 DEF LeaveCheck
    <3>2. PICK c \in Calls \ {"set_crc_error"} : task' = [task EXCEPT ![t].pc = c]
      BY <2>3 DEF LeaveCheck
    <3>3. c = "exit" BY DEF Uart
    <3>4. task'[t].pc = "exit" BY <1>3, <3>2, <3>3 DEF TaskType
    <3>5. QED BY <1>1, <1>7, <1>8, <3>1, <3>4 DEF NumInv, NumberedNeverFails, Requesting
  <2>4. CASE Leave(t)
    <3>1. fw' = Closed /\ task' = [task EXCEPT ![t].pc = "idle"]
      BY <2>4 DEF Leave, NumInv, tls_fwup_exit
    <3>2. task'[t].pc = "idle" BY <1>3, <3>1 DEF TaskType
    <3>3. fw'.sess = 0 /\ fw'.st = {} BY <3>1 DEF Closed
    <3>4. QED BY <1>7, <1>8, <3>2, <3>3 DEF NumberedNeverFails, Requesting
  <2>5. CASE tls_fwup_set_crc_error(t) BY <2>5 DEF tls_fwup_set_crc_error, Uart
  <2>6. CASE Request(t)
    <3>1. PICK p \in Packet :
            /\ uart_fwup_send(p.k) /\ fw' = [fw EXCEPT !.num = p.k]
            /\ task' = [task EXCEPT ![t] = [pc |-> "append", id |-> fw.sess, pkt |-> p]]
      BY <2>6 DEF Request, Uart
    <3>2. p.k \in 0 .. N - 1 BY DEF Packet
    <3>3. fw.sess > 0 /\ p.k = fw.num + 1 BY <1>3, <3>1, <3>2, Sizes DEF uart_fwup_send, NumberOk
    <3>4. /\ fw'.num = p.k /\ fw'.sess = fw.sess /\ fw'.st = fw.st /\ fw'.base = fw.base
          /\ fw'.total = fw.total /\ fw'.off = fw.off /\ fw'.upd = fw.upd /\ fw'.recv = fw.recv
      BY <1>3, <3>1 DEF FwType
    <3>5. task'[t].pc = "append" /\ task'[t].id = fw.sess /\ task'[t].pkt = p BY <1>3, <3>1
    <3>6. task[t].pc = "idle" BY <2>6 DEF Request
    <3>7. Taken(fw, area, booter, p.k) BY <3>3, <3>6 DEF NumInv, Requesting
    <3>8. Taken(fw', area', booter', p.k) BY <1>1, <3>4, <3>7 DEF Taken, Lengths
    <3>9. QED BY <1>4, <1>7, <1>8, <3>3, <3>4, <3>5, <3>8 DEF NumberedNeverFails, Requesting
  <2>7. CASE Enqueue(t)
    <3>1. fw' = fw /\ task[t].pc = "append" BY <2>7 DEF Enqueue
    <3>2. task[t].id = fw.sess BY <3>1 DEF NumInv
    <3>3. task' = [task EXCEPT ![t].pc = NeedSched] BY <2>7, <3>2 DEF Enqueue
    <3>4. NeedSched \in {"kick", "wait"} BY DEF NeedSched
    <3>5. task'[t].pc \in {"kick", "wait"} /\ task'[t].pkt = task[t].pkt
      BY <1>3, <3>3, <3>4 DEF TaskType
    <3>6. QED BY <1>1, <1>7, <1>8, <3>1, <3>5 DEF NumInv, NumberedNeverFails, Requesting
  <2>8. QED BY <1>8, <2>1, <2>2, <2>3, <2>4, <2>5, <2>6, <2>7 DEF Caller
<1>9. QED BY <1>6, <1>8, CallQuiet

\* What the scheduler finds when it starts with a request.
LEMMA StartNum ==
  ASSUME Uart, TypeInv, OneInv, NumInv, Start
  PROVE  /\ Pkt \in Packet /\ Pkt.k = fw.num /\ Taken(fw, area, booter, fw.num)
         /\ \A t \in Tasks : task[t].pc \in {"kick", "wait"} /\ t = sched.cur
<1>1. sched.pc = "start" BY StartCases
<1>2. sched.cur \in Tasks /\ \A t \in Tasks : t = sched.cur BY <1>1, PktType DEF Uart, OneCaller
<1>3. \A t \in Tasks : task[t].pc \in {"kick", "wait"} BY <1>1 DEF OneInv
<1>4. /\ task[sched.cur].pkt \in Packet /\ task[sched.cur].pkt.k = fw.num
      /\ Taken(fw, area, booter, fw.num)
  BY <1>1, <1>2, <1>3 DEF NumInv, Requesting
<1>5. QED BY <1>2, <1>3, <1>4 DEF Pkt

\* The steps after Start keep the number, and the task in its request.
LEMMA InRequest ==
  ASSUME Uart, OneInv, NumInv, sched.pc # "wait", UNCHANGED task, fw'.num = fw.num, fw'.sess = fw.sess,
         sched'.pc \notin {"wait", "start"}, "ERROR" \notin fw'.st,
         /\ sched'.pc = "header" => HeaderAlone(fw', sched'.data, booter')
         /\ sched'.pc \in {"write", "account"} =>
              /\ Lengths(fw', fw.num + 1, fw.num + 2) /\ Upto(area', booter', fw.num + 1)
              /\ sched'.data = <<[img |-> booter', n |-> fw.num + 1]>>
         /\ sched'.pc = "account" => area'[fw.num + 1] = [img |-> booter', n |-> fw.num + 1]
         /\ sched'.pc \in {"verify", "flag"} \/ (sched'.pc \in Ending /\ sched'.ok) =>
              Lengths(fw', fw.num + 2, fw.num + 2) /\ Upto(area', booter', fw.num + 2)
  PROVE  NumInv'
<1>1. \A t \in Tasks : task[t].pc \in {"kick", "wait"} BY DEF OneInv
<1>2. \A t \in Tasks :
       /\ task'[t].pc \notin {"reset", "clear_error"}
       /\ task'[t].pc = "append" => task'[t].id = fw'.sess
       /\ task'[t].pc \in Requesting => fw'.sess > 0 /\ task'[t].pkt \in Packet /\ task'[t].pkt.k = fw'.num
       /\ task'[t].pc \in Requesting /\ sched'.pc \in {"wait", "start"} => Taken(fw', area', booter', fw'.num)
       /\ task'[t].pc \notin Requesting /\ fw'.sess > 0 => Taken(fw', area', booter', fw'.num + 1)
  BY <1>1 DEF NumInv, Requesting
<1>3. NumberedNeverFails' BY DEF NumberedNeverFails
<1>4. QED BY <1>2, <1>3 DEF NumInv

LEMMA StartStepNum ==
  ASSUME Uart, TypeInv, OneInv, NumInv, Start
  PROVE  NumInv'
<1>1. /\ fw \in FwType /\ sched \in SchedType /\ fw.recv \in Nat /\ fw.num \in -1 .. N - 1
      /\ area \in [Places -> Block]
  BY FwFields DEF TypeInv, TypeOK
<1>2. UNCHANGED task /\ sched.pc = "start" BY StartCases
<1>3. Pkt \in Packet /\ Pkt.k = fw.num /\ Taken(fw, area, booter, fw.num) BY StartNum
<1>4. Pkt.k \in 0 .. N - 1 /\ Pkt.img \in Images BY <1>3 DEF Packet
<1>5. "ERROR" \notin fw.st BY DEF NumInv, NumberedNeverFails
<1>6. CASE Refused
  <2>1. sched'.pc = "finish" /\ sched'.ok = FALSE BY <1>1, <1>2, <1>6, FailedFlow DEF Refused
  <2>2. fw' = fw BY <1>6 DEF Refused
  <2>3. QED BY <1>2, <1>5, <2>1, <2>2, InRequest
<1>7. CASE NoHeader BY <1>3, <1>4, <1>7, Sizes DEF NoHeader, Taken, Lengths
<1>9. CASE Header
  <2>1. Tail(Data(Pkt)) = <<[img |-> Pkt.img, n |-> 1]>> BY <1>3, <1>9, DataType DEF Header
  <2>2. fw' = HeaderOf(fw) BY <1>9 DEF Header
  <2>3. /\ fw'.off = 0 /\ fw'.recv = 1 /\ fw'.total = Total /\ fw'.base = TRUE
        /\ fw'.st = fw.st /\ fw'.num = fw.num /\ fw'.sess = fw.sess
    BY <1>1, <2>2, StartFw
  <2>4. fw.num = 0 BY <1>3, <1>9 DEF Header
  <2> DEFINE d == Tail(Data(Pkt))
  <2>5. sched' = [sched EXCEPT !.pc = "header", !.data = d] BY <1>9 DEF Header
  <2>6. d = <<[img |-> booter', n |-> 1]>> BY <1>9, <2>1 DEF Header
  <2> HIDE DEF d
  <2>7. sched'.pc = "header" /\ sched'.data = d BY <1>1, <2>5 DEF SchedType
  <2>8. HeaderAlone(fw', sched'.data, booter')
    BY <1>4, <1>9, <2>3, <2>4, <2>6, <2>7 DEF HeaderAlone, Header
  <2>9. QED BY <1>2, <1>5, <2>3, <2>7, <2>8, InRequest
<1>10. CASE More
  <2>1. fw.num # 0 BY <1>3, <1>10 DEF More, Taken
  <2>2. Lengths(fw, fw.num + 1, fw.num + 1) /\ Upto(area, booter, fw.num + 1)
    BY <1>3, <2>1 DEF Taken
  <2>3. Data(Pkt) = <<[img |-> Pkt.img, n |-> Pkt.k + 1]>> /\ Len(Data(Pkt)) = 1
    BY <1>3, <2>1, DataType
  <2>4. Pkt.img = booter BY <1>4, <2>2 DEF Uart, Upto
  <2>5. UNCHANGED <<area, booter>> /\ fw' = MoreOf(fw, 1) BY <1>10, <2>3, StartCases DEF More
  <2>6. fw.recv + 1 \in Places BY <1>1, <1>3, <1>4, <2>2, Sizes DEF Places, Lengths
  <2>7. /\ fw'.upd = fw.upd /\ fw'.off = fw.off /\ fw'.recv = fw.recv + 1
        /\ fw'.total = fw.total /\ fw'.base = fw.base /\ fw'.st = fw.st /\ fw'.num = fw.num
        /\ fw'.sess = fw.sess
    BY <1>1, <2>5, <2>6, MoreFw
  <2>8. Lengths(fw', fw.num + 1, fw.num + 2) BY <1>1, <2>2, <2>7 DEF Lengths
  <2> DEFINE d == Data(Pkt)
  <2>9. sched' = [sched EXCEPT !.pc = "write", !.data = d] BY <1>10 DEF More
  <2>10. d = <<[img |-> booter', n |-> fw.num + 1]>> BY <1>3, <2>3, <2>4, <2>5
  <2> HIDE DEF d
  <2>11. sched'.pc = "write" /\ sched'.data = d BY <1>1, <2>9 DEF SchedType
  <2>12. QED BY <1>2, <1>5, <2>2, <2>5, <2>7, <2>8, <2>10, <2>11, InRequest
<1>11. QED BY <1>6, <1>7, <1>9, <1>10, StartCases

LEMMA HeaderNum ==
  ASSUME Uart, TypeInv, OneInv, NumInv, WriteHeader
  PROVE  NumInv'
<1>1. /\ fw \in FwType /\ sched \in SchedType /\ area \in [Places -> Block]
      /\ sched.pc = "header" /\ UNCHANGED <<task, booter>>
  BY DEF TypeInv, TypeOK, WriteHeader
<1>2. "ERROR" \notin fw.st BY DEF NumInv, NumberedNeverFails
<1>3. HeaderAlone(fw, sched.data, booter) BY <1>1 DEF NumInv
<1>4. /\ fw.num = 0 /\ fw.base = TRUE /\ fw.total = Total /\ fw.off = 0 /\ fw.recv = 1
      /\ booter \in Images /\ sched.data = <<[img |-> booter, n |-> 1]>>
  BY <1>3 DEF HeaderAlone
<1>5. Len(sched.data) = 1 BY <1>4
<1>6. /\ area' = [area EXCEPT ![fw.off] = [img |-> booter, n |-> 0]]
      /\ fw' = BegunOf(fw, Len(sched.data)) /\ sched' = [sched EXCEPT !.pc = "write"]
  BY <1>4 DEF WriteHeader, Uart, BegunOf
<1>7. /\ fw'.upd = 1 /\ fw'.off = 1 /\ fw'.recv = fw.recv + 1 /\ fw'.total = fw.total
      /\ fw'.base = fw.base /\ fw'.st = fw.st /\ fw'.num = fw.num /\ fw'.sess = fw.sess
  BY <1>1, <1>4, <1>5, <1>6, BegunFw
<1>8. Lengths(fw', fw.num + 1, fw.num + 2) BY <1>4, <1>7 DEF Lengths
<1>9. Upto(area', booter', fw.num + 1)
  <2>1. area'[0] = BlockOf(booter', 0) BY <1>1, <1>4, <1>6, Sizes DEF BlockOf
  <2>2. \A i \in 0 .. 1 - 1 : area'[i] = BlockOf(booter', i) BY <2>1
  <2>3. Upto(area', booter', 1) BY <1>1, <1>4, <2>2 DEF Upto
  <2>4. fw.num + 1 = 1 BY <1>4
  <2>5. QED BY <2>3, <2>4
<1>10. sched'.pc = "write" /\ sched'.data = sched.data BY <1>1, <1>6 DEF SchedType
<1>11. sched'.data = <<[img |-> booter', n |-> fw.num + 1]>> BY <1>1, <1>4, <1>10
<1>12. QED BY <1>1, <1>2, <1>7, <1>8, <1>9, <1>10, <1>11, InRequest

LEMMA WriteNum ==
  ASSUME Uart, TypeInv, OneInv, NumInv, WriteBlocks
  PROVE  NumInv'
<1>1. /\ fw \in FwType /\ sched \in SchedType /\ fw.num \in -1 .. N - 1 /\ sched.cur \in Tasks
      /\ area \in [Places -> Block] /\ sched.pc = "write" /\ UNCHANGED <<task, booter>>
  BY FwFields DEF TypeInv, TypeOK, WriteBlocks, Flow
<1>2. "ERROR" \notin fw.st BY DEF NumInv, NumberedNeverFails
<1>3. /\ Lengths(fw, fw.num + 1, fw.num + 2) /\ Upto(area, booter, fw.num + 1)
      /\ sched.data = <<[img |-> booter, n |-> fw.num + 1]>>
  BY <1>1 DEF NumInv
<1>4. /\ area' = [i \in Places |->
                      IF fw.base /\ i - fw.off + 1 \in 1 .. Len(sched.data)
                        THEN sched.data[i - fw.off + 1] ELSE area[i]]
      /\ sched' = [sched EXCEPT !.pc = "account"]
      /\ fw' = fw
  BY DEF WriteBlocks, Uart
<1>5. sched'.pc = "account" /\ sched'.data = sched.data BY <1>1, <1>4 DEF SchedType
<1>6. Len(sched.data) = 1 /\ sched.data[1] = [img |-> booter, n |-> fw.num + 1] BY <1>3
<1>7. fw.base = TRUE /\ fw.off = fw.num + 1 BY <1>3 DEF Lengths
<1>8. fw.num >= 0
  <2>1. task[sched.cur].pc \in {"kick", "wait"} BY <1>1 DEF OneInv
  <2>2. task[sched.cur].pkt \in Packet /\ task[sched.cur].pkt.k = fw.num
    BY <1>1, <2>1 DEF NumInv, Requesting
  <2>3. QED BY <2>2 DEF Packet
<1>9. area'[fw.num + 1] = [img |-> booter, n |-> fw.num + 1]
  <2>1. fw.num + 1 \in Places /\ fw.num + 1 - fw.off + 1 = 1 BY <1>1, <1>7, <1>8, Sizes DEF Places
  <2> DEFINE j == fw.num + 1
  <2>2. j \in Places /\ j - fw.off + 1 = 1 BY <1>1, <1>7, <2>1
  <2> HIDE DEF j
  <2>3. area'[j] = sched.data[1] BY <1>4, <1>6, <1>7, <2>2
  <2>4. QED BY <1>6, <2>3 DEF j
<1>10. Upto(area', booter', fw.num + 1)
  <2>1. \A i \in 0 .. fw.num + 1 - 1 :
          i \in Places /\ ~(i - fw.off + 1 \in 1 .. Len(sched.data))
    BY <1>1, <1>6, <1>7, Sizes DEF Places
  <2>2. \A i \in 0 .. fw.num + 1 - 1 : area'[i] = area[i] BY <1>4, <2>1
  <2>3. QED BY <1>1, <1>3, <2>2 DEF Upto
<1>11. QED BY <1>1, <1>2, <1>3, <1>4, <1>5, <1>9, <1>10, InRequest

LEMMA AccountNum ==
  ASSUME Uart, TypeInv, OneInv, NumInv, Account
  PROVE  NumInv'
<1>1. /\ fw \in FwType /\ sched \in SchedType /\ fw.num \in -1 .. N - 1
      /\ sched.pc = "account" /\ UNCHANGED <<task, booter, area>>
  BY FwFields DEF TypeInv, TypeOK, Account
<1>2. "ERROR" \notin fw.st BY DEF NumInv, NumberedNeverFails
<1>3. /\ Lengths(fw, fw.num + 1, fw.num + 2) /\ Upto(area, booter, fw.num + 1)
      /\ sched.data = <<[img |-> booter, n |-> fw.num + 1]>>
      /\ area[fw.num + 1] = [img |-> booter, n |-> fw.num + 1]
  BY <1>1 DEF NumInv
<1>4. Len(sched.data) = 1 BY <1>3
<1>5. fw' = WrittenOf(fw, 1) BY <1>4 DEF Account, WrittenOf
<1>6. fw.upd + 1 \in Places /\ fw.off + 1 \in Places BY <1>1, <1>3, Sizes DEF Lengths, Places
<1>7. /\ fw'.upd = fw.upd + 1 /\ fw'.off = fw.off + 1
      /\ fw'.recv = fw.recv /\ fw'.total = fw.total
      /\ fw'.base = fw.base /\ fw'.st = fw.st /\ fw'.num = fw.num /\ fw'.sess = fw.sess
  BY <1>1, <1>5, <1>6, WrittenFw
<1>8. Lengths(fw', fw.num + 2, fw.num + 2) BY <1>1, <1>3, <1>7 DEF Lengths
<1>9. Upto(area', booter', fw.num + 2)
  <2>1. \A i \in 0 .. fw.num + 2 - 1 : i \in 0 .. fw.num + 1 - 1 \/ i = fw.num + 1 BY <1>1
  <2>2. area[fw.num + 1] = BlockOf(booter, fw.num + 1) BY <1>3 DEF BlockOf
  <2>3. QED BY <1>1, <1>3, <2>1, <2>2 DEF Upto
<1>10. sched'.pc \in {"verify", "finish"} BY <1>1 DEF Account, SchedType
<1>11. QED BY <1>1, <1>2, <1>7, <1>8, <1>9, <1>10, InRequest

LEMMA VerifyNum ==
  ASSUME Uart, TypeInv, OneInv, NumInv, Verify
  PROVE  NumInv'
<1>1. /\ fw \in FwType /\ sched \in SchedType /\ fw.num \in -1 .. N - 1 /\ Flow(fw, sched)
      /\ sched.pc = "verify" /\ UNCHANGED <<task, booter, area>>
  BY FwFields DEF TypeInv, TypeOK, Verify
<1>2. "ERROR" \notin fw.st BY DEF NumInv, NumberedNeverFails
<1>3. Lengths(fw, fw.num + 2, fw.num + 2) /\ Upto(area, booter, fw.num + 2) BY <1>1 DEF NumInv
<1>4. fw.num + 2 >= Total BY <1>1, <1>3 DEF Flow, Lengths
<1>6. Verified
  <2>1. fw.base /\ fw.total = Total BY <1>3 DEF Lengths
  <2>2. ASSUME NEW i \in Covered(booter) PROVE area[i] = [img |-> booter, n |-> i]
    <3>0. i \in 1 .. N BY Sizes DEF Covered
    <3> DEFINE m == fw.num + 2
    <3>1. Upto(area, booter, m) BY <1>3
    <3>2. m \in Int /\ m >= N + 1 BY <1>1, <1>4, Sizes
    <3> HIDE DEF m
    <3>3. i \in 0 .. m - 1 BY <3>0, <3>2, Sizes
    <3>4. area[i] = BlockOf(booter, i) BY <3>1, <3>3 DEF Upto
    <3>5. QED BY <3>4 DEF BlockOf
  <2>3. QED BY <2>1, <2>2 DEF Verified
<1>7. sched' = [sched EXCEPT !.pc = "flag"] /\ fw' = fw BY <1>6 DEF Verify, Uart
<1>8. sched'.pc = "flag" BY <1>1, <1>7 DEF SchedType
<1>9. QED BY <1>1, <1>2, <1>3, <1>7, <1>8, InRequest

LEMMA EndNum ==
  ASSUME Uart, TypeInv, OneInv, NumInv, SetFlag \/ Finish \/ ClearBusy
  PROVE  NumInv'
<1>1. /\ fw \in FwType /\ sched \in SchedType /\ Flow(fw, sched)
      /\ sched.pc \in {"flag", "finish", "unlisted"} /\ UNCHANGED <<task, booter, area>>
  BY DEF TypeInv, TypeOK, SetFlag, Finish, ClearBusy
<1>2. "ERROR" \notin fw.st BY DEF NumInv, NumberedNeverFails
<1>3. \/ fw' = fw \/ fw' = [fw EXCEPT !.st = fw.st \cup {"COMPLETE"}]
      \/ fw' = [fw EXCEPT !.st = fw.st \ {"BUSY"}]
  BY DEF SetFlag, Finish, ClearBusy
<1>4. SameCounts(fw, fw') /\ "ERROR" \notin fw'.st BY <1>1, <1>2, <1>3 DEF SameCounts, FwType
<1>5. /\ sched'.pc \in Ending /\ sched'.ok = sched.ok
  BY <1>1 DEF SetFlag, Finish, ClearBusy, SchedType
<1>6. sched'.ok => Lengths(fw, fw.num + 2, fw.num + 2) /\ Upto(area, booter, fw.num + 2)
  BY <1>1, <1>5 DEF NumInv
<1>7. Lengths(fw', fw.num + 2, fw.num + 2) = Lengths(fw, fw.num + 2, fw.num + 2)
  BY <1>4, SameTaken
<1>8. fw'.num = fw.num /\ fw'.sess = fw.sess BY <1>4 DEF SameCounts
<1>9. QED BY <1>1, <1>4, <1>5, <1>6, <1>7, <1>8, InRequest

LEMMA DoneNum ==
  ASSUME Uart, TypeInv, OneInv, NumInv, Done
  PROVE  NumInv'
<1>1. /\ sched.pc = "done" /\ UNCHANGED <<fw, booter, area, list>>
      /\ sched.cur \in Tasks /\ sched.nxt = NoTask /\ list \in Seq(Tasks)
      /\ task \in [Tasks -> TaskType] /\ fw.num \in -1 .. N - 1
  BY FwFields DEF Done, TypeInv, TypeOK, Flow, OneInv
<1>2. \A t \in Tasks : t = sched.cur BY <1>1 DEF Uart, OneCaller
<1>3. NumberedNeverFails' BY <1>1 DEF NumInv, NumberedNeverFails
<1>4. CASE Resets
  <2>1. UNCHANGED <<task, sched>> BY <1>4 DEF Done, Resets
  <2>2. QED BY <1>1, <1>3, <2>1 DEF NumInv
<1>5. CASE ~Resets
  <2>1. task' = [task EXCEPT ![sched.cur] = Idle] /\ sched' = Pick(NoTask) BY <1>1, <1>5 DEF Done, Resets
  <2>2. sched'.pc = "wait" BY <1>1, <2>1, PickType
  <2>3. task'[sched.cur].pc = "idle" BY <1>1, <2>1, IdleIs
  <2>4. sched.ok BY <1>5, DoneTypes
  <2>5. Lengths(fw, fw.num + 2, fw.num + 2) /\ Upto(area, booter, fw.num + 2) BY <1>1, <2>4 DEF NumInv
  <2>6. fw.num >= 0
    <3>1. task[sched.cur].pc \in {"kick", "wait"} BY <1>1 DEF OneInv
    <3>2. task[sched.cur].pkt \in Packet /\ task[sched.cur].pkt.k = fw.num
      BY <1>1, <3>1 DEF NumInv, Requesting
    <3>3. QED BY <3>2 DEF Packet
  <2>7. fw.num + 1 # 0 /\ fw.num + 1 + 1 = fw.num + 2 BY <1>1, <2>6
  <2>8. Taken(fw', area', booter', fw'.num + 1) BY <1>1, <2>5, <2>7 DEF Taken
  <2>9. QED BY <1>2, <1>3, <2>2, <2>3, <2>8 DEF NumInv, Requesting
<1>6. QED BY <1>4, <1>5

LEMMA ReceiveNum ==
  ASSUME Uart, TypeInv, OneInv, NumInv, Receive
  PROVE  NumInv'
<1>1. /\ sched.pc = "wait" /\ UNCHANGED <<task, booter, area>> /\ fw \in FwType /\ list \in Seq(Tasks)
  BY DEF Receive, TypeInv, TypeOK
<1>2. "ERROR" \notin fw.st BY DEF NumInv, NumberedNeverFails
<1>3. fw' = fw \/ fw' = [fw EXCEPT !.st = fw.st \cup {"BUSY"}] BY DEF Receive
<1>4. SameCounts(fw, fw') /\ "ERROR" \notin fw'.st BY <1>1, <1>2, <1>3 DEF SameCounts, FwType
<1>5. sched'.pc \in {"wait", "start"}
  <2>1. CASE list = <<>> BY <1>1, <2>1 DEF Receive
  <2>2. CASE list # <<>>
    <3>1. Head(list) \in Tasks /\ sched' = Pick(Head(list)) BY <1>1, <2>2 DEF Receive
    <3>2. QED BY <1>1, <3>1, PickType
  <2>3. QED BY <2>1, <2>2
<1>6. /\ fw'.num = fw.num /\ fw'.sess = fw.sess BY <1>4 DEF SameCounts
<1>7. \A k : Taken(fw', area', booter', k) = Taken(fw, area, booter, k) BY <1>1, <1>4, SameTaken
<1>8. NumberedNeverFails' BY <1>4 DEF NumberedNeverFails
<1>9. \A t \in Tasks :
       /\ task'[t].pc \notin {"reset", "clear_error"}
       /\ task'[t].pc = "append" => task'[t].id = fw'.sess
       /\ task'[t].pc \in Requesting => fw'.sess > 0 /\ task'[t].pkt \in Packet /\ task'[t].pkt.k = fw'.num
       /\ task'[t].pc \in Requesting /\ sched'.pc \in {"wait", "start"} => Taken(fw', area', booter', fw'.num)
       /\ task'[t].pc \notin Requesting /\ fw'.sess > 0 => Taken(fw', area', booter', fw'.num + 1)
  BY <1>1, <1>6, <1>7 DEF NumInv
<1>10. QED BY <1>5, <1>8, <1>9 DEF NumInv

LEMMA NextNum == Uart /\ TypeInv /\ OneInv /\ NumInv /\ [Next]_vars => NumInv'
<1> SUFFICES ASSUME Uart, TypeInv, OneInv, NumInv, [Next]_vars PROVE NumInv'
  OBVIOUS
<1>1. CASE UNCHANGED <<fw, area, booter, sched, task>>
  BY <1>1 DEF NumInv, NumberedNeverFails
<1>2. CASE Restart
  <2>1. /\ fw' = Null /\ sched' = Quiet /\ task' = [t \in Tasks |-> Idle] BY <1>2 DEF Restart
  <2>2. fw'.sess = 0 /\ fw'.st = {} BY <2>1 DEF Null, Closed
  <2>3. sched'.pc = "wait" BY <2>1 DEF Quiet
  <2>4. \A t \in Tasks : task'[t].pc = "idle" BY <2>1, IdleIs
  <2>5. QED BY <2>2, <2>3, <2>4 DEF NumInv, NumberedNeverFails, Requesting
<1>3. UNCHANGED vars \/ PowerLoss => UNCHANGED <<fw, area, booter, sched, task>> BY DEF vars, PowerLoss
<1>4. QED BY <1>1, <1>2, <1>3, CallNum, StartStepNum, HeaderNum, WriteNum, AccountNum, VerifyNum,
             EndNum, DoneNum, ReceiveNum DEF Next, fwup_scheduler

LEMMA InitNum == Init => NumInv
<1> SUFFICES ASSUME Init PROVE NumInv
  OBVIOUS
<1>1. /\ fw = Null /\ sched = Quiet /\ task = [t \in Tasks |-> Idle] BY DEF Init
<1>2. fw.sess = 0 /\ fw.st = {} BY <1>1 DEF Null, Closed
<1>3. sched.pc = "wait" BY <1>1 DEF Quiet
<1>4. \A t \in Tasks : task[t].pc = "idle" BY <1>1, IdleIs
<1>5. QED BY <1>2, <1>3, <1>4 DEF NumInv, NumberedNeverFails, Requesting

\* An update by numbered packets over the UART never fails, for images of any number of
\* packets and any number of sessions, left in the middle or cut by power losses: no
\* packet that is sent again reaches the flash, none is taken for a header, and the
\* image that is complete is the one that was sent.
THEOREM NumberedUpdateNeverFails == Uart => (Spec => []NumberedNeverFails)
<1> SUFFICES ASSUME Uart PROVE Spec => []NumberedNeverFails
  OBVIOUS
<1> DEFINE Inv == TypeInv /\ OneInv /\ NumInv
<1>1. Init => Inv BY InitTypes, InitOne, InitNum
<1>2. Inv /\ [Next]_vars => Inv' BY NextTypes, NextOne, NextNum DEF Uart
<1>3. Inv => NumberedNeverFails BY DEF NumInv
<1> HIDE DEF Inv
<1>4. QED BY <1>1, <1>2, <1>3, PTL DEF Spec
=============================================================================
