------------------------------ MODULE TimerQueue ------------------------------
(***************************************************************************)
(* What the timeouts of a worker task promise (the comments of             *)
(* platform/common/task/wm_wl_timers.c): every timeout has a time left of  *)
(* its own, time passes for all of them alike, the one with the least time *)
(* left goes first, and among equals the one that was armed first.         *)
(***************************************************************************)
EXTENDS Integers, Sequences

CONSTANTS
  Handlers,      \* timeout handlers
  Times          \* durations they are armed with

VARIABLES
  queue,         \* the timeouts that are pending, the next one first
  running        \* whether a timeout's handler is running

\* A timeout is put behind the first k, or the k-th is taken out.
Insert(q, k, t) == [i \in 1 .. Len(q) + 1 |-> IF i <= k THEN q[i]
                                             ELSE IF i = k + 1 THEN t ELSE q[i - 1]]
Without(q, k) == [i \in 1 .. Len(q) - 1 |-> IF i < k THEN q[i] ELSE q[i + 1]]

\* All timeouts move d closer.
Closer(q, d) == [i \in 1 .. Len(q) |-> [q[i] EXCEPT !.left = @ - d]]

QInit == queue = <<>> /\ ~running

\* The new timeout goes behind those with at most as much time left, before the others.
Arm(h, ms) ==
  /\ ~running /\ UNCHANGED running
  /\ \E k \in 0 .. Len(queue) :
       /\ \A i \in 1 .. Len(queue) : i <= k <=> queue[i].left <= ms
       /\ queue' = Insert(queue, k, [h |-> h, left |-> ms])

\* The first timeout of the handler is taken out.
Cancel(h) ==
  /\ ~running /\ UNCHANGED running
  /\ \E k \in 1 .. Len(queue) :
       /\ queue[k].h = h /\ \A j \in 1 .. k - 1 : queue[j].h # h
       /\ queue' = Without(queue, k)

\* Time passes, not beyond the next timeout.
Pass ==
  /\ ~running /\ UNCHANGED running
  /\ queue # <<>> /\ \E d \in 0 .. Head(queue).left : queue' = Closer(queue, d)

\* The next timeout's time has come: its handler runs, alone.
Fire ==
  /\ ~running /\ running' = TRUE
  /\ queue # <<>> /\ queue' = Closer(Tail(queue), Head(queue).left)

Return == running /\ running' = FALSE /\ UNCHANGED queue

QNext ==
  \/ \E h \in Handlers, ms \in Times : Arm(h, ms)
  \/ \E h \in Handlers : Cancel(h)
  \/ Pass
  \/ Fire
  \/ Return

QSpec == QInit /\ [][QNext]_<<queue, running>>
=============================================================================
