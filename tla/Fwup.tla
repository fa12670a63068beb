--------------------------------- MODULE Fwup ---------------------------------
(***************************************************************************)
(* Firmware update (platform/common/fwup/wm_fwup.c).  Tasks open a session *)
(* and hand over packets of an image; the fwup task (fwup_scheduler) takes *)
(* them from wait_list, writes them to the update area, and, once the      *)
(* whole image has been written and its checksum verified, sets the OTA    *)
(* flag that makes the boot loader install it.  Any failure, and success,  *)
(* resets the system.                                                      *)
(*                                                                         *)
(* The session fields are changed inside a critical section, but checked   *)
(* before it; the scheduler uses no lock for them at all.  A packet is     *)
(* measured in blocks: packet 0 holds the header (block 0) and block 1,    *)
(* packet k block k + 1.  The last block of a signed image is its          *)
(* signature, which the checksum in the header does not cover.             *)
(***************************************************************************)
EXTENDS Integers, SequencesExt

CONSTANTS
  Tasks,        \* tasks that use the update API
  NoTask,
  Images,       \* firmware images
  Signed,       \* those whose header has img_attr.b.signature set
  NoImage,      \* an erased block, an unset flag
  N,            \* packets (and blocks besides the header) of an image
  Numbered,     \* packets come through uart_fwup_send, which checks their number
  IoMayFail,    \* flash writes or the allocation for the verification may fail
  PowerMayFail,
  Calls,        \* calls of the API other than enter and request_sync in use
  MaxSess       \* bound: sessions opened

ASSUME FwupAssumption ==
  /\ NoTask \notin Tasks /\ NoImage \notin Images /\ Signed \subseteq Images
  /\ N \in Nat \ {0} /\ MaxSess \in Nat
  /\ Numbered \in BOOLEAN /\ IoMayFail \in BOOLEAN /\ PowerMayFail \in BOOLEAN
  /\ Calls \subseteq {"exit", "reset", "clear_error", "set_crc_error"}

VARIABLES
  mode,     \* "run", or "reset" until the boot loader starts the system again
  fw,       \* struct tls_fwup without the list
  booter,   \* the header the scheduler read last: the image it belongs to
  area,     \* the update area in flash
  flag,     \* the OTA flag: the image whose checksum it holds
  list,     \* wait_list: the tasks whose requests wait or are being processed
  msgs,     \* messages in fwup_msg_queue
  sched,    \* the fwup task
  task,     \* what each task is doing
  nsess     \* sessions opened so far, up to MaxSess

vars == <<mode, fw, booter, area, flag, list, msgs, sched, task, nsess>>

Total == N + 1
Block == [img : Images \cup {NoImage}, n : 0 .. N]
Erased == [img |-> NoImage, n |-> 0]
Places == 0 .. Total + 1
Packet == [img : Images, k : 0 .. N - 1]
NoPacket == [img |-> NoImage, k |-> 0]
Data(p) == IF p.k = 0 THEN <<[img |-> p.img, n |-> 0], [img |-> p.img, n |-> 1]>>
                      ELSE <<[img |-> p.img, n |-> p.k + 1]>>

\* struct tls_fwup: up is FALSE while the pointer is NULL, base while program_base
\* is 0; lengths are in blocks.
Flags == {"BUSY", "COMPLETE", "ERROR"}
Closed == [up |-> TRUE, busy |-> FALSE, sess |-> 0, st |-> {}, recv |-> 0, total |-> 0,
           upd |-> 0, base |-> FALSE, off |-> 0, num |-> -1]
Null == [Closed EXCEPT !.up = FALSE]
FwType == [up : BOOLEAN, busy : BOOLEAN, sess : 0 .. MaxSess, st : SUBSET Flags,
           recv : Places, total : {0, Total}, upd : Places, base : BOOLEAN,
           off : Places, num : -1 .. N - 1]

Quiet == [pc |-> "wait", cur |-> NoTask, nxt |-> NoTask, data |-> <<>>, ok |-> TRUE]
SchedType ==
  [pc : {"wait", "start", "header", "write", "account", "verify", "flag", "finish",
         "unlisted", "done"},
   cur : Tasks \cup {NoTask}, nxt : Tasks \cup {NoTask}, data : Seq(Block), ok : BOOLEAN]

Idle == [pc |-> "idle", id |-> 0, pkt |-> NoPacket]
TaskType == [pc : {"idle", "enter", "exit", "reset", "clear_error", "append", "kick", "wait"},
             id : 0 .. MaxSess, pkt : Packet \cup {NoPacket}]

TypeOK ==
  /\ mode \in {"run", "reset"}
  /\ fw \in FwType
  /\ booter \in Images \cup {NoImage} /\ flag \in Images \cup {NoImage}
  /\ area \in [Places -> Block]
  /\ list \in Seq(Tasks) /\ msgs \in Nat
  /\ sched \in SchedType
  /\ task \in [Tasks -> TaskType]
  /\ nsess \in 0 .. MaxSess

Init ==
  /\ mode = "run"
  /\ fw = Null
  /\ booter = NoImage /\ flag = NoImage
  /\ area = [i \in Places |-> Erased]
  /\ list = <<>> /\ msgs = 0 /\ sched = Quiet
  /\ task = [t \in Tasks |-> Idle]
  /\ nsess = 0

-----------------------------------------------------------------------------
(* The API. *)

\* tls_fwup_enter, up to the critical section: the structure is allocated and
\* cleared if it was not there, and busy is tested.
EnterCheck(t) ==
  /\ mode = "run" /\ task[t].pc = "idle" /\ nsess < MaxSess
  /\ ~fw.busy
  /\ fw' = IF fw.up THEN fw ELSE [Closed EXCEPT !.num = 0]
  /\ nsess' = nsess + 1
  /\ task' = [task EXCEPT ![t] = [Idle EXCEPT !.pc = "enter", !.id = nsess + 1]]
  /\ UNCHANGED <<mode, booter, area, flag, list, msgs, sched>>

\* Its critical section opens a session under a new id.
Enter(t) ==
  /\ mode = "run" /\ task[t].pc = "enter"
  /\ fw' = [Closed EXCEPT !.busy = TRUE, !.sess = task[t].id]
  /\ task' = [task EXCEPT ![t].pc = "idle"]
  /\ UNCHANGED <<mode, booter, area, flag, list, msgs, sched, nsess>>

\* The tests of tls_fwup_exit, tls_fwup_reset and tls_fwup_clear_error.  Any task
\* gets the right id from tls_fwup_get_current_session_id; a call with another id
\* is refused and changes nothing.
MayLeave == fw.busy /\ "BUSY" \notin fw.st

LeaveCheck(t) ==
  /\ mode = "run" /\ task[t].pc = "idle"
  /\ MayLeave
  /\ \E c \in Calls \ {"set_crc_error"} : task' = [task EXCEPT ![t].pc = c]
  /\ UNCHANGED <<mode, fw, booter, area, flag, list, msgs, sched, nsess>>

\* Their critical sections.  tls_fwup_reset leaves received_number alone.
tls_fwup_exit == fw' = Closed
tls_fwup_reset == fw' = [Closed EXCEPT !.busy = fw.busy, !.sess = fw.sess, !.num = fw.num]
tls_fwup_clear_error == fw' = [fw EXCEPT !.st = @ \ {"ERROR"}]

Leave(t) ==
  /\ mode = "run"
  /\ \/ task[t].pc = "exit" /\ tls_fwup_exit
     \/ task[t].pc = "reset" /\ tls_fwup_reset
     \/ task[t].pc = "clear_error" /\ tls_fwup_clear_error
  /\ task' = [task EXCEPT ![t].pc = "idle"]
  /\ UNCHANGED <<mode, booter, area, flag, list, msgs, sched, nsess>>

tls_fwup_set_crc_error(t) ==
  /\ mode = "run" /\ task[t].pc = "idle" /\ "set_crc_error" \in Calls
  /\ fw.up
  /\ fw' = [fw EXCEPT !.st = @ \cup {"ERROR"}]
  /\ UNCHANGED <<mode, booter, area, flag, list, msgs, sched, task, nsess>>

\* (fault) a packet that was sent again is taken again
NumberOkAgain(k) == k - fw.num \in {0, 1}

\* tls_fwup_set_update_numer
NumberOk(k) == k - fw.num = 1

\* uart_fwup_send hands a packet over only in an open session, and if it is the
\* next one; the sender is told that another was refused.
uart_fwup_send(k) == fw.sess > 0 /\ NumberOk(k)

\* tls_fwup_request_sync up to the session check, which session id 0 passes when
\* no session is open.
Request(t) ==
  /\ mode = "run" /\ task[t].pc = "idle" /\ fw.up
  /\ \E p \in Packet :
       /\ Numbered => uart_fwup_send(p.k)
       /\ fw' = IF Numbered THEN [fw EXCEPT !.num = p.k] ELSE fw
       /\ task' = [task EXCEPT ![t] = [pc |-> "append", id |-> fw.sess, pkt |-> p]]
  /\ UNCHANGED <<mode, booter, area, flag, list, msgs, sched, nsess>>

\* (fault) the fwup task is never woken
NeedSchedNever == "wait"

\* need_sched: the fwup task is told of a request only when the list was empty.
NeedSched == IF list = <<>> THEN "kick" ELSE "wait"

\* tls_fwup_request_async: the session is checked again, and the request goes on
\* the list under list_lock.
Enqueue(t) ==
  /\ mode = "run" /\ task[t].pc = "append"
  /\ IF task[t].id = fw.sess
       THEN /\ list' = Append(list, t)
            /\ task' = [task EXCEPT ![t].pc = NeedSched]
       ELSE /\ task' = [task EXCEPT ![t] = Idle]
            /\ UNCHANGED list
  /\ UNCHANGED <<mode, fw, booter, area, flag, msgs, sched, nsess>>

Kick(t) ==
  /\ mode = "run" /\ task[t].pc = "kick"
  /\ msgs' = msgs + 1
  /\ task' = [task EXCEPT ![t].pc = "wait"]
  /\ UNCHANGED <<mode, fw, booter, area, flag, list, sched, nsess>>

-----------------------------------------------------------------------------
(* The steps of fwup_scheduler. *)

Behind(t) == LET later == {i \in 1 .. Len(list) : i > 1 /\ list[i - 1] = t}
             IN IF later = {} THEN NoTask ELSE list[CHOOSE i \in later : TRUE]

\* dl_list_for_each_safe: the request after this one is looked up before this one
\* is processed.
Pick(t) == [Quiet EXCEPT !.pc = IF t = NoTask THEN "wait" ELSE "start", !.cur = t,
                         !.nxt = Behind(t)]

Receive ==
  /\ mode = "run" /\ sched.pc = "wait" /\ msgs > 0
  /\ msgs' = msgs - 1
  /\ IF list = <<>> THEN UNCHANGED <<fw, sched>>
     ELSE /\ fw' = [fw EXCEPT !.st = @ \cup {"BUSY"}]
          /\ sched' = Pick(Head(list))
  /\ UNCHANGED <<mode, booter, area, flag, list, task, nsess>>

\* The request fails: the session is marked, the request is finished.
SchedFails ==
  /\ fw' = [fw EXCEPT !.st = @ \cup {"ERROR"}]
  /\ sched' = [sched EXCEPT !.pc = "finish", !.ok = FALSE]

\* A request is refused after an error or after completion.  What comes first is
\* copied to booter and must be a header, which says where the image goes and how
\* long it is.
Start ==
  /\ mode = "run" /\ sched.pc = "start"
  /\ LET p == task[sched.cur].pkt
         fresh == fw.st \cap {"ERROR", "COMPLETE"} = {}
     IN
     \/ /\ ~fresh
        /\ sched' = [sched EXCEPT !.pc = "finish", !.ok = FALSE]
        /\ UNCHANGED <<fw, booter>>
     \/ /\ fresh /\ fw.recv = 0 /\ p.k # 0
        /\ booter' = NoImage
        /\ fw' = [fw EXCEPT !.recv = 1, !.st = @ \cup {"ERROR"}]
        /\ sched' = [sched EXCEPT !.pc = "finish", !.ok = FALSE]
     \/ /\ fresh /\ fw.recv = 0 /\ p.k = 0
        /\ booter' = p.img
        /\ fw' = [fw EXCEPT !.base = TRUE, !.total = Total, !.off = 0, !.recv = 1]
        /\ sched' = [sched EXCEPT !.pc = "header", !.data = Tail(Data(p))]
     \/ /\ fresh /\ fw.recv > 0
        /\ fw' = [fw EXCEPT !.recv = @ + Len(Data(p))]
        /\ sched' = [sched EXCEPT !.pc = "write", !.data = Data(p)]
        /\ UNCHANGED booter
  /\ UNCHANGED <<mode, area, flag, list, msgs, task, nsess>>

\* The header is written and the lengths are set.  program_base is 0 once the session
\* fields were cleared: what is written then goes outside the update area.
WriteHeader ==
  /\ mode = "run" /\ sched.pc = "header"
  /\ \/ /\ area' = IF fw.base THEN [area EXCEPT ![fw.off] = [img |-> booter, n |-> 0]] ELSE area
        /\ fw' = [fw EXCEPT !.upd = 1, !.off = 1, !.recv = @ + Len(sched.data)]
        /\ sched' = [sched EXCEPT !.pc = "write"]
     \/ IoMayFail /\ SchedFails /\ area' = area
  /\ UNCHANGED <<mode, booter, flag, list, msgs, task, nsess>>

\* tls_fls_fast_write of what follows the header, or of a whole packet.
WriteBlocks ==
  /\ mode = "run" /\ sched.pc = "write"
  /\ \/ /\ area' = [i \in Places |->
                      IF fw.base /\ i - fw.off + 1 \in 1 .. Len(sched.data)
                        THEN sched.data[i - fw.off + 1] ELSE area[i]]
        /\ sched' = [sched EXCEPT !.pc = "account"]
        /\ fw' = fw
     \/ IoMayFail /\ SchedFails /\ area' = area
  /\ UNCHANGED <<mode, booter, flag, list, msgs, task, nsess>>

\* (fault) the end of the image is missed by one
CompleteLate(upd) == upd > fw.total

\* All blocks of the image have been written: tested before the verification and
\* again before the reset.
Complete(upd) == upd >= fw.total

Account ==
  /\ mode = "run" /\ sched.pc = "account"
  /\ fw' = [fw EXCEPT !.off = @ + Len(sched.data), !.upd = @ + Len(sched.data)]
  /\ sched' = [sched EXCEPT !.pc = IF Complete(fw.upd + Len(sched.data))
                                     THEN "verify" ELSE "finish"]
  /\ UNCHANGED <<mode, booter, area, flag, list, msgs, task, nsess>>

\* The blocks the checksum is computed over: the signature is left out.
Covered(img) == IF img \in Signed THEN 1 .. N - 1 ELSE 1 .. N

\* (fault) one block less is read, as if every image were signed
VerifiedLess ==
  /\ fw.base /\ fw.total = Total
  /\ \A i \in 1 .. N - 1 : area[i] = [img |-> booter, n |-> i]

\* The checksum of what was written is the one in the header.
Verified ==
  /\ fw.base /\ fw.total = Total
  /\ \A i \in Covered(booter) : area[i] = [img |-> booter, n |-> i]

Verify ==
  /\ mode = "run" /\ sched.pc = "verify"
  /\ \/ Verified /\ sched' = [sched EXCEPT !.pc = "flag"] /\ fw' = fw
     \/ (~Verified \/ IoMayFail) /\ SchedFails
  /\ UNCHANGED <<mode, booter, area, flag, list, msgs, task, nsess>>

\* The flag is written; the result of the write is not looked at.
SetFlag ==
  /\ mode = "run" /\ sched.pc = "flag"
  /\ flag' = booter \/ (IoMayFail /\ flag' = flag)
  /\ fw' = [fw EXCEPT !.st = @ \cup {"COMPLETE"}]
  /\ sched' = [sched EXCEPT !.pc = "finish"]
  /\ UNCHANGED <<mode, booter, area, list, msgs, task, nsess>>

\* request_finish: off the list, under list_lock.
Finish ==
  /\ mode = "run" /\ sched.pc = "finish"
  /\ \E i \in 1 .. Len(list) : list[i] = sched.cur /\ list' = RemoveAt(list, i)
  /\ sched' = [sched EXCEPT !.pc = "unlisted"]
  /\ UNCHANGED <<mode, fw, booter, area, flag, msgs, task, nsess>>

\* The list is looked at again, without the lock: the session is no longer busy if
\* nothing waits.
ClearBusy ==
  /\ mode = "run" /\ sched.pc = "unlisted"
  /\ fw' = IF list = <<>> THEN [fw EXCEPT !.st = @ \ {"BUSY"}] ELSE fw
  /\ sched' = [sched EXCEPT !.pc = "done"]
  /\ UNCHANGED <<mode, booter, area, flag, list, msgs, task, nsess>>

\* The system is reset when the image is complete or the request failed;
\* otherwise the requester is woken and the next request taken.
Done ==
  /\ mode = "run" /\ sched.pc = "done"
  /\ IF (fw.upd >= 1 /\ Complete(fw.upd)) \/ ~sched.ok
       THEN mode' = "reset" /\ UNCHANGED <<task, sched>>
       ELSE /\ task' = [task EXCEPT ![sched.cur] = Idle]
            /\ sched' = Pick(sched.nxt)
            /\ UNCHANGED mode
  /\ UNCHANGED <<fw, booter, area, flag, list, msgs, nsess>>

fwup_scheduler ==
  \/ Receive \/ Start \/ WriteHeader \/ WriteBlocks \/ Account \/ Verify \/ SetFlag
  \/ Finish \/ ClearBusy \/ Done

\* Power loss.
PowerLoss == PowerMayFail /\ mode = "run" /\ mode' = "reset"
             /\ UNCHANGED <<fw, booter, area, flag, list, msgs, sched, task, nsess>>

\* The boot loader has installed what the flag announced and starts the system.
Restart ==
  /\ mode = "reset" /\ mode' = "run"
  /\ fw' = Null
  /\ booter' = NoImage /\ flag' = NoImage
  /\ list' = <<>> /\ msgs' = 0 /\ sched' = Quiet
  /\ task' = [t \in Tasks |-> Idle]
  /\ UNCHANGED <<area, nsess>>

Caller(t) == Enter(t) \/ Leave(t) \/ Enqueue(t) \/ Kick(t)

Next ==
  \/ \E t \in Tasks : \/ EnterCheck(t) \/ LeaveCheck(t) \/ tls_fwup_set_crc_error(t)
                      \/ Request(t) \/ Caller(t)
  \/ fwup_scheduler \/ PowerLoss \/ Restart

\* The fwup task runs, and a task that is inside a call goes on with it.
Fairness == WF_vars(fwup_scheduler) /\ \A t \in Tasks : WF_vars(Caller(t))

Spec == Init /\ [][Next]_vars /\ Fairness

-----------------------------------------------------------------------------
(* Properties *)

\* As long as one task uses the API, the OTA flag is set only for an image whose header
\* and whose every block under the checksum are in the update area, in order, whatever
\* packets were lost, repeated or mixed, whatever sessions were ended or reset between
\* requests, and whatever an interrupted update left behind: the whole of an image
\* without a signature.  The signature of a signed image may be any block, and is for the
\* boot loader to judge.  (A second task whose tls_fwup_enter, exit or reset passed its
\* test earlier clears the session after the flag was set: the system goes on, and the
\* next header is written under the flag.)
FlagMeansVerified ==
  flag # NoImage => \A i \in {0} \cup Covered(flag) : area[i] = [img |-> flag, n |-> i]

\* An image sent through the UART with numbered packets, each repeated as often as
\* the sender likes, never fails: no duplicate reaches the flash, no packet is
\* taken for a header.
NumberedNeverFails == "ERROR" \notin fw.st

\* tls_fwup_request_sync returns, unless the system is reset.
RequestServed == \A t \in Tasks :
  task[t].pc \in {"append", "kick", "wait"} ~> task[t].pc = "idle" \/ mode = "reset"

\* No request lies in wait_list with nobody left to look at it.
NoRequestForgotten ==
  list # <<>> /\ sched.pc = "wait" /\ mode = "run" =>
    msgs > 0 \/ \E t \in Tasks : task[t].pc = "kick"
=============================================================================
