-------------------------------- MODULE WlTask --------------------------------
(***************************************************************************)
(* A worker task of the SDK (platform/common/task/wm_wl_task.c,            *)
(* wm_wl_mbox.c, wm_wl_timers.c).  Tasks and interrupt handlers post       *)
(* messages to its mailbox: callbacks, static callbacks that use one       *)
(* preallocated message per purpose (a slot), and requests to arm or       *)
(* cancel a timeout.  The worker waits for messages, and while it waits    *)
(* runs the timeouts, kept as a list in which each entry counts from the   *)
(* one before it.                                                          *)
(*                                                                         *)
(* No lock is used.  A task may be preempted between any two steps here,   *)
(* also between the load and the store of cnt++ and cnt--; an interrupt    *)
(* handler runs to its end.                                                *)
(***************************************************************************)
EXTENDS Integers, Sequences, FiniteSets

CONSTANTS
  Tasks,       \* tasks that call the worker's API
  Slots,       \* ids of static messages, posted by interrupt handlers
  Shared,      \* the slots that tasks post as well
  Handlers,    \* timeout handlers
  Times,       \* durations in milliseconds
  TickMs,      \* milliseconds per tick, 1000 / HZ
  MboxSize,    \* messages the mailbox holds
  Tries,       \* attempts of tls_mbox_post
  MaxReq       \* bound: calls of the API by tasks and by the worker itself

ASSUME WlAssumption ==
  /\ Shared \subseteq Slots /\ Times \subseteq Nat /\ "worker" \notin Tasks
  /\ TickMs \in Nat \ {0} /\ MboxSize \in Nat \ {0}
  /\ Tries \in Nat \ {0} /\ MaxReq \in Nat
  /\ \E m \in Times : \A n \in Times : n <= m

VARIABLES
  mbox,        \* the worker's queue
  cnt,         \* msg.cbs.cnt of each slot, a u8
  timers,      \* next_timeout of the worker, the list of pending timeouts
  worker,      \* task_thread: what it does, with which message, the cnt it loaded
  waited,      \* ticks it has waited for a message so far
  call,        \* the call of the API each task, and the worker, is in
  want,        \* (history) slots not shared whose last call has not been answered
  nreq         \* calls so far, up to MaxReq

vars == <<mbox, cnt, timers, worker, waited, call, want, nreq>>

Callers == Tasks \cup {"worker"}
NoMsg == [type |-> "none"]
Static(s) == [type |-> "static", slot |-> s]
Callback == [type |-> "callback"]
Untimeout(h) == [type |-> "untimeout", h |-> h]
TimeoutMsg(h, ms) == [type |-> "timeout", h |-> h, ms |-> ms]
MaxMs == CHOOSE m \in Times : \A n \in Times : n <= m
Msg == {Static(s) : s \in Slots} \cup {Callback} \cup {Untimeout(h) : h \in Handlers}
         \cup {TimeoutMsg(h, ms) : h \in Handlers, ms \in Times}

Idle == [pc |-> "idle", msg |-> NoMsg, block |-> FALSE, tries |-> 0, loaded |-> 0]

\* An entry of the list: time counts from the entry before it; owed (history) is
\* what is left, on the clock, of the time it was armed with, behind (history) the
\* number of timeouts that expired while this one was pending.
Entry == [h : Handlers, time : 0 .. MaxMs, owed : 0 .. MaxMs, behind : Nat]

TypeOK ==
  /\ mbox \in Seq(Msg) /\ Len(mbox) <= MboxSize
  /\ cnt \in [Slots -> 0 .. 255]
  /\ timers \in Seq(Entry)
  /\ worker \in [pc : {"fetch", "read", "load", "store", "arm", "run"},
                 msg : Msg \cup {NoMsg}, loaded : 0 .. 255]
  /\ waited \in Nat
  /\ call \in [Callers -> [pc : {"idle", "post", "load", "store"}, msg : Msg \cup {NoMsg},
                           block : BOOLEAN, tries : 0 .. Tries - 1, loaded : 0 .. 255]]
  /\ want \subseteq Slots \ Shared
  /\ nreq \in 0 .. MaxReq

Fetching == [pc |-> "fetch", msg |-> NoMsg, loaded |-> 0]

Init ==
  /\ mbox = <<>> /\ cnt = [s \in Slots |-> 0] /\ timers = <<>>
  /\ worker = Fetching /\ waited = 0
  /\ call = [c \in Callers |-> Idle]
  /\ want = {} /\ nreq = 0

-----------------------------------------------------------------------------
(* Posting. *)

\* tls_os_queue_send without waiting.
Room == Len(mbox) < MboxSize

\* An interrupt handler calls tls_wl_task_callback_static, without blocking, in one
\* go.  While cnt says that the message is in use the call is refused: the handler
\* relies on the run that is still to come.  In a full mailbox the call is lost,
\* and the handler told so.
IsrPost(s) ==
  /\ \/ cnt[s] > 0 /\ UNCHANGED <<mbox, cnt>>
        /\ want' = want \cup ({s} \ Shared)
     \/ cnt[s] = 0 /\ Room
        /\ mbox' = Append(mbox, Static(s))
        /\ cnt' = [cnt EXCEPT ![s] = (@ + 1) % 256]
        /\ want' = want \cup ({s} \ Shared)
     \/ cnt[s] = 0 /\ ~Room /\ UNCHANGED <<mbox, cnt, want>>
  /\ UNCHANGED <<timers, worker, waited, call, nreq>>

\* A task, or a function the worker runs, starts a call of the API.
MayCall(c) == /\ nreq < MaxReq /\ call[c].pc = "idle"
              /\ c = "worker" => worker.pc = "run"

Post(c, m, block) ==
  /\ call' = [call EXCEPT ![c] = [Idle EXCEPT !.pc = "post", !.msg = m, !.block = block]]
  /\ nreq' = nreq + 1
  /\ UNCHANGED <<mbox, cnt, timers, worker, waited, want>>

\* All callers in the SDK post callbacks without blocking.
tls_wl_task_callback_static(c) ==
  MayCall(c) /\ \E s \in Shared : cnt[s] = 0 /\ Post(c, Static(s), FALSE)

tls_wl_task_callback(c) == MayCall(c) /\ Post(c, Callback, FALSE)

tls_wl_task_add_timeout(c) ==
  /\ MayCall(c)
  /\ \E h \in Handlers, ms \in Times : Post(c, TimeoutMsg(h, ms), TRUE)

tls_wl_task_untimeout(c) ==
  MayCall(c) /\ \E h \in Handlers : Post(c, Untimeout(h), TRUE)

\* What follows the post: a static message is counted, also when tls_mbox_post has
\* given up.
Counted(c) == IF call[c].msg.type = "static" THEN [call[c] EXCEPT !.pc = "load"] ELSE Idle

\* n attempts have failed; another one follows.
Again(n) == n < Tries - 1

\* tls_mbox_trypost and each attempt of tls_mbox_post.  After the last attempt the
\* message is dropped, and the caller of tls_mbox_post is not told.
Send(c) ==
  /\ call[c].pc = "post"
  /\ \/ /\ Room
        /\ mbox' = Append(mbox, call[c].msg)
        /\ call' = [call EXCEPT ![c] = Counted(c)]
     \/ /\ ~Room /\ UNCHANGED mbox
        /\ call' = [call EXCEPT ![c] =
                      IF ~call[c].block THEN Idle
                      ELSE IF Again(call[c].tries) THEN [call[c] EXCEPT !.tries = call[c].tries + 1]
                      ELSE Counted(c)]
  /\ UNCHANGED <<cnt, timers, worker, waited, want, nreq>>

\* msg->msg.cbs.cnt++ of a task.
CntLoad(c) ==
  /\ call[c].pc = "load"
  /\ call' = [call EXCEPT ![c].pc = "store", ![c].loaded = cnt[call[c].msg.slot]]
  /\ UNCHANGED <<mbox, cnt, timers, worker, waited, want, nreq>>

CntStore(c) ==
  /\ call[c].pc = "store"
  /\ cnt' = [cnt EXCEPT ![call[c].msg.slot] = (call[c].loaded + 1) % 256]
  /\ call' = [call EXCEPT ![c] = Idle]
  /\ UNCHANGED <<mbox, timers, worker, waited, want, nreq>>

-----------------------------------------------------------------------------
(* The list of timeouts. *)

\* Time from now to the k-th entry of a list.
Until(l) == LET sum[k \in 0 .. Len(l)] == IF k = 0 THEN 0 ELSE sum[k - 1] + l[k].time
            IN sum

\* The entry of a list behind which tls_timeout_p puts a new one, 0 for the front.
Place(l, ms) ==
  CHOOSE k \in 0 .. Len(l) :
    /\ k = Len(l) \/ l[k + 1].time > ms - Until(l)[k]
    /\ \A j \in 0 .. k - 1 : l[j + 1].time <= ms - Until(l)[j]

tls_timeout_p(l, m) ==
  LET k == Place(l, m.ms)
      e == [h |-> m.h, time |-> m.ms - Until(l)[k], owed |-> m.ms, behind |-> 0]
  IN [i \in 1 .. Len(l) + 1 |->
        CASE i <= k -> l[i]
          [] i = k + 1 -> e
          [] i = k + 2 -> [l[k + 1] EXCEPT !.time = @ - e.time]
          [] OTHER -> l[i - 1]]

\* The entry of a list that tls_untimeout_p takes out for a handler, if there is one.
FirstOf(l, h) ==
  CHOOSE k \in 1 .. Len(l) : l[k].h = h /\ \A j \in 1 .. k - 1 : l[j].h # h

\* (fault) the time of the entry taken out is forgotten
UntimeoutForgets(l, h) ==
  IF \A i \in 1 .. Len(l) : l[i].h # h THEN l
  ELSE [i \in 1 .. Len(l) - 1 |-> IF i < FirstOf(l, h) THEN l[i] ELSE l[i + 1]]

\* The first entry of the handler is taken out, its time added to the next one.
tls_untimeout_p(l, h) ==
  LET k == FirstOf(l, h)
  IN IF \A i \in 1 .. Len(l) : l[i].h # h THEN l
     ELSE [i \in 1 .. Len(l) - 1 |->
             CASE i < k -> l[i]
               [] i = k -> [l[k + 1] EXCEPT !.time = @ + l[k].time]
               [] OTHER -> l[i + 1]]

-----------------------------------------------------------------------------
(* The worker. *)

\* (fault) less than a tick is rounded to 0
TicksDown(ms) == ms \div TickMs

\* tls_arch_mbox_fetch: milliseconds in ticks, rounded down, but not to 0.  Times so
\* long that timeout * HZ needs more than 32 bits are left out.
Ticks(ms) == IF ms > 0 /\ ms \div TickMs = 0 THEN 1 ELSE ms \div TickMs

\* (fault) the tick in which the wait began is taken for a whole one
ElapsedOneMore(l) ==
  IF l = <<>> THEN l
  ELSE [l EXCEPT ![1].time = IF (waited + 1) * TickMs < @ THEN @ - (waited + 1) * TickMs ELSE 0]

\* The time the worker waited for the message is taken from the next timeout.
Elapsed(l) ==
  IF l = <<>> THEN l
  ELSE [l EXCEPT ![1].time = IF waited * TickMs < @ THEN @ - waited * TickMs ELSE 0]

Overdue == timers # <<>> /\ Head(timers).time = 0

\* The queue's wait has timed out; a wait of 0 ticks is one without a limit.
TimedOut == Ticks(Head(timers).time) > 0 /\ waited >= Ticks(Head(timers).time)

\* A message is there before the next timeout.
Receive ==
  /\ worker.pc = "fetch" /\ mbox # <<>> /\ ~Overdue
  /\ mbox' = Tail(mbox)
  /\ timers' = Elapsed(timers)
  /\ waited' = 0
  /\ worker' = [Fetching EXCEPT !.msg = Head(mbox),
                                !.pc = CASE Head(mbox).type = "static" -> "read"
                                         [] Head(mbox).type = "callback" -> "run"
                                         [] OTHER -> "arm"]
  /\ UNCHANGED <<cnt, call, want, nreq>>

\* The next timeout comes first: its handler is run.
Expire ==
  /\ worker.pc = "fetch" /\ timers # <<>>
  /\ Overdue \/ TimedOut
  /\ timers' = [i \in 1 .. Len(timers) - 1 |-> [timers[i + 1] EXCEPT !.behind = @ + 1]]
  /\ waited' = 0
  /\ worker' = [Fetching EXCEPT !.pc = "run"]
  /\ UNCHANGED <<mbox, cnt, call, want, nreq>>

\* (fault) the slot is given back after the function has run
RunFirst == [read |-> "run", load |-> "store", store |-> "fetch", run |-> "load"]

\* TASK_MSG_CALLBACK_STATIC: function and argument are read, cnt is decremented in
\* two steps, the function runs.
StaticOrder == [read |-> "load", load |-> "store", store |-> "run", run |-> "fetch"]

\* The function of a slot sees everything its interrupt handler has left for it.
Goto(pc) ==
  LET w == [worker EXCEPT !.pc = pc]
  IN /\ worker' = IF pc = "fetch" THEN Fetching ELSE w
     /\ want' = IF pc = "run" THEN want \ {worker.msg.slot} ELSE want

ReadSlot ==
  /\ worker.pc = "read" /\ Goto(StaticOrder.read)
  /\ UNCHANGED <<mbox, cnt, timers, waited, call, nreq>>

Load ==
  /\ worker.pc = "load"
  /\ worker' = [worker EXCEPT !.pc = "store", !.loaded = cnt[worker.msg.slot]]
  /\ UNCHANGED <<mbox, cnt, timers, waited, call, want, nreq>>

Store ==
  /\ worker.pc = "store" /\ Goto(StaticOrder.store)
  /\ cnt' = [cnt EXCEPT ![worker.msg.slot] = (worker.loaded - 1) % 256]
  /\ UNCHANGED <<mbox, timers, waited, call, nreq>>

ArmOrCancel ==
  /\ worker.pc = "arm"
  /\ \/ worker.msg.type = "timeout" /\ timers' = tls_timeout_p(timers, worker.msg)
     \/ worker.msg.type = "timeout" /\ UNCHANGED timers       \* no memory for it
     \/ worker.msg.type = "untimeout" /\ timers' = tls_untimeout_p(timers, worker.msg.h)
  /\ worker' = Fetching
  /\ UNCHANGED <<mbox, cnt, waited, call, want, nreq>>

\* The function returns; task_thread fetches the next message.
FunReturns ==
  /\ worker.pc = "run" /\ call["worker"].pc = "idle"
  /\ IF worker.msg.type = "static" THEN Goto(StaticOrder.run)
     ELSE worker' = Fetching /\ UNCHANGED want
  /\ UNCHANGED <<mbox, cnt, timers, waited, call, nreq>>

task_thread == Receive \/ Expire \/ ReadSlot \/ Load \/ Store \/ ArmOrCancel \/ FunReturns

-----------------------------------------------------------------------------
\* The system tick.  It counts for the worker only while it waits.
Less(n) == IF n < TickMs THEN 0 ELSE n - TickMs
Waiting == worker.pc = "fetch" /\ mbox = <<>> /\ timers # <<>> /\ ~Overdue

Tick ==
  /\ waited' = IF Waiting /\ waited <= Ticks(Head(timers).time) THEN waited + 1 ELSE waited
  /\ timers' = [i \in 1 .. Len(timers) |-> [timers[i] EXCEPT !.owed = Less(@)]]
  /\ UNCHANGED <<mbox, cnt, worker, call, want, nreq>>

Step(c) == Send(c) \/ CntLoad(c) \/ CntStore(c)

Next ==
  \/ \E s \in Slots : IsrPost(s)
  \/ \E c \in Callers : \/ tls_wl_task_callback_static(c) \/ tls_wl_task_callback(c)
                        \/ tls_wl_task_add_timeout(c) \/ tls_wl_task_untimeout(c)
                        \/ Step(c)
  \/ task_thread \/ Tick

\* Time passes, the worker is scheduled, and a call that was begun is finished.
Fairness == WF_vars(task_thread) /\ WF_vars(Tick) /\ \A c \in Callers : WF_vars(Step(c))

Spec == Init /\ [][Next]_vars /\ Fairness

-----------------------------------------------------------------------------
(* Properties *)

\* A static callback is never lost: as long as the function has not run since an
\* interrupt handler's last call, refused or not, a run is still to come.  The
\* handler's refusal on cnt > 0 depends on it, and the order in which the worker
\* gives the slot back and runs the function.
RunToCome ==
  \A s \in want : \/ \E i \in 1 .. Len(mbox) : mbox[i] = Static(s)
                  \/ worker.msg = Static(s) /\ worker.pc \in {"read", "load", "store"}

\* cnt counts the messages of a slot that only an interrupt handler posts: those in
\* the mailbox and the one the worker has not given back yet.
CntExact ==
  \A s \in Slots \ Shared :
    cnt[s] = Cardinality({i \in 1 .. Len(mbox) : mbox[i] = Static(s)})
             + (IF worker.msg = Static(s) /\ worker.pc \in {"read", "load", "store"}
                THEN 1 ELSE 0)

\* Static messages are accounted for: the refusal of a call on cnt > 0, made by an
\* interrupt handler at any point of the worker's loop, is always the right answer.
StaticSound == TypeOK /\ RunToCome /\ CntExact

\* A timeout fires no earlier than was asked for, except for what the rounding of
\* waits to whole ticks loses: less than a tick for it and for each timeout that
\* expired before it.
NeverEarly ==
  [][Expire => Head(timers).owed <= (TickMs - 1) * (Head(timers).behind + 1)]_vars

\* The list in which entries count from one another behaves as a queue in which
\* every timeout has its own time, and in which arming, cancelling and the passing
\* of time leave the times of the others alone.
Queue == [i \in 1 .. Len(timers) |-> [h |-> timers[i].h, left |-> Until(timers)[i]]]
Q == INSTANCE TimerQueue WITH queue <- Queue, running <- (worker.pc = "run" /\ worker.msg = NoMsg)
RefinesQueue == Q!QSpec

\* Every timeout that is armed expires or is cancelled, unless interrupt handlers
\* never stop posting: each message they send ends a wait, and a wait of less than
\* a tick takes nothing from the timeouts.
TimersFire == \/ timers # <<>> ~> timers = <<>>
              \/ []<><<\E s \in Slots : IsrPost(s)>>_vars
=============================================================================
