---------------------------- MODULE ClientContext ----------------------------
(***************************************************************************)
(* One TCP connection of the Arduino WiFi library                          *)
(* (libraries/W600WiFi/ClientContext.h, WiFiClient.cpp).  The sketch's     *)
(* task connects, reads, writes, stops and releases it; the TCP/IP task of *)
(* lwIP, which preempts the sketch's task, runs its callbacks.  Neither    *)
(* takes a lock.                                                           *)
(*                                                                         *)
(* A callback runs in one step unless it calls delay(), which lets the     *)
(* sketch's task go on in the middle of it.  The steps of the sketch's     *)
(* task end where a callback could change what the next one uses; that     *)
(* _pcb becomes null between its test and a call that takes it is left out.*)
(* Once a callback runs without its context nothing more is modelled.      *)
(***************************************************************************)
EXTENDS Integers, Sequences, FiniteSets, SequencesExt

CONSTANTS
  SegLens,     \* lengths of the segments the peer sends
  MaxIn,       \* bound: bytes the peer sends
  Window,      \* TCP receive window
  ReadLens,    \* sizes of the sketch's reads
  WriteLens,   \* sizes of the sketch's writes
  MaxWrites,   \* bound: writes of the sketch
  SndBuf,      \* TCP_SND_BUF
  ChunkSize,   \* _write_chunk_size
  MaxPolls     \* delays after which _is_timeout() is true

ASSUME ContextAssumption ==
  /\ SegLens \subseteq Nat \ {0} /\ ReadLens \subseteq Nat \ {0}
  /\ WriteLens \subseteq Nat \ {0} /\ {MaxIn, MaxWrites, MaxPolls} \subseteq Nat
  /\ {Window, SndBuf, ChunkSize} \subseteq Nat \ {0}

VARIABLES
  pcb,         \* "null", or the state of the connection _pcb points to
  hooks,       \* how many of tcp_arg, tcp_sent, tcp_recv, tcp_err and tcp_poll are still
               \* set for it; they are taken away in this order
  rx,          \* _rx_buf, the chain of segments received; a byte is its number
  offset,      \* _rx_buf_offset
  unacked,     \* bytes received for which tcp_recved has not been called
  used,        \* bytes of the send buffer in use
  pending,     \* _connect_pending
  waiting,     \* _send_waiting, a u8
  sketch,      \* what the sketch's task does with the connection
  tcpip,       \* the callback the TCP/IP task is delayed in, "ready" for none,
               \* "undefined" once one had no context
  arrived,     \* (history) number of bytes received
  got,         \* (history) the bytes the sketch has read
  lost,        \* (history) the bytes that were freed unread
  writes       \* writes so far, up to MaxWrites

rxVars == <<rx, offset, unacked, arrived, got, lost>>
txVars == <<used, waiting, writes>>
vars == <<pcb, hooks, pending, sketch, tcpip, rxVars, txVars>>

\* In close() for stop(), in abort() for connect(), in close() for unref().
Closing == {"stopping", "aborting", "releasing"}

\* pc: what comes next; todo: bytes left to read or to write; will: will_send;
\* out: need_output; polls: delays since _op_start_time.
Sketch == [pc : {"new", "connecting", "idle", "read", "last", "freed", "some", "chunk",
                 "check", "delay", "unref", "discarded", "deleted"} \cup Closing,
           todo : Nat, will : Nat, out : BOOLEAN, polls : 0 .. MaxPolls + 1]
At(pc) == [pc |-> pc, todo |-> 0, will |-> 0, out |-> FALSE, polls |-> 0]

\* The sketch reads and writes only once it is connected, and never more than the
\* buffers of the stack hold.
TypeOK ==
  /\ pcb \in {"null", "CLOSED", "SYN_SENT", "ESTABLISHED", "CLOSE_WAIT"} /\ hooks \in 0 .. 5
  /\ rx \in Seq(Seq(1 .. MaxIn)) /\ <<>> \notin Range(rx)
  /\ IF rx = <<>> THEN offset = 0 ELSE offset \in 0 .. Len(Head(rx))
  /\ unacked \in 0 .. Window /\ used \in 0 .. SndBuf
  /\ pending \in BOOLEAN /\ waiting \in 0 .. 255
  /\ sketch \in Sketch /\ tcpip \in {"ready", "fin", "err", "ack", "undefined"}
  /\ arrived \in 0 .. MaxIn /\ got \in Seq(1 .. MaxIn) /\ lost \subseteq 1 .. MaxIn
  /\ writes \in 0 .. MaxWrites

\* A context is new, or was made by WiFiServer for a connection it accepted.
Init ==
  /\ \/ pcb = "CLOSED" /\ sketch = At("new")
     \/ pcb = "ESTABLISHED" /\ sketch = At("idle")
  /\ hooks = 5 /\ rx = <<>> /\ offset = 0 /\ unacked = 0 /\ used = 0
  /\ pending = FALSE /\ waiting = 0 /\ tcpip = "ready"
  /\ arrived = 0 /\ got = <<>> /\ lost = {} /\ writes = 0

state == IF pcb = "null" THEN "CLOSED" ELSE pcb

Smaller(a, b) == IF a < b THEN a ELSE b
Bytes(chain) == FlattenSeq(chain)

-----------------------------------------------------------------------------
(* Connecting and releasing, in the sketch's task. *)

\* tcp_connect fails at once, or the delay of _timeout_ms begins.
connect ==
  /\ sketch.pc = "new"
  /\ \/ pcb' = "SYN_SENT" /\ pending' = TRUE /\ sketch' = At("connecting")
     \/ sketch' = At("unref") /\ UNCHANGED <<pcb, pending>>
  /\ UNCHANGED <<hooks, tcpip, rxVars, txVars>>

\* What connect() calls a connection.
Connected == pcb = "ESTABLISHED"

\* The delay is over.  What is not established by now is aborted, and the context is
\* released.
ConnectReturns ==
  /\ sketch.pc = "connecting"
  /\ pending' = FALSE
  /\ \/ Connected /\ sketch' = At("idle") /\ UNCHANGED hooks
     \/ pcb = "null" /\ sketch' = At("unref") /\ UNCHANGED hooks
     \/ pcb # "null" /\ ~Connected /\ sketch' = At("aborting") /\ hooks' = 4
  /\ UNCHANGED <<pcb, tcpip, rxVars, txVars>>

\* WiFiClient::stop, up to tcp_arg(_pcb, NULL).  Unread data is kept.
close ==
  /\ sketch.pc = "idle" /\ pcb # "null"
  /\ sketch' = At("stopping") /\ hooks' = 4
  /\ UNCHANGED <<pcb, pending, tcpip, rxVars, txVars>>

\* The last unref, after a connect that failed or at any time: discard_received.
unref ==
  /\ sketch.pc \in {"idle", "unref"} /\ sketch' = At("discarded")
  /\ rx' = <<>> /\ offset' = 0
  /\ unacked' = IF pcb # "null" THEN unacked - Len(Bytes(rx)) ELSE unacked
  /\ UNCHANGED <<pcb, hooks, pending, tcpip, arrived, got, lost, txVars>>

\* close() in unref(), and delete.
Release ==
  /\ sketch.pc = "discarded"
  /\ \/ pcb = "null" /\ sketch' = At("deleted") /\ UNCHANGED hooks
     \/ pcb # "null" /\ sketch' = At("releasing") /\ hooks' = 4
  /\ UNCHANGED <<pcb, pending, tcpip, rxVars, txVars>>

\* The next of tcp_sent, tcp_recv, tcp_err and tcp_poll is taken away.
Detach ==
  /\ sketch.pc \in Closing /\ hooks > 0 /\ hooks' = hooks - 1
  /\ UNCHANGED <<pcb, pending, sketch, tcpip, rxVars, txVars>>

\* (fault) tcp_poll is forgotten, as in _error
PollKept == hooks = 1

AllDetached == hooks = 0

\* What comes after close() and abort().
After == [stopping |-> "idle", aborting |-> "unref", releasing |-> "deleted"]

\* tcp_close or tcp_abort, and _pcb = nullptr.
Closed ==
  /\ sketch.pc \in Closing /\ AllDetached
  /\ pcb' = "null" /\ sketch' = At(After[sketch.pc])
  /\ UNCHANGED <<hooks, pending, tcpip, rxVars, txVars>>

Releasing == ConnectReturns \/ Release \/ Detach \/ Closed

-----------------------------------------------------------------------------
(* Reading, in the sketch's task. *)

\* read(dst, size); read() is a read of one byte.
read ==
  /\ sketch.pc = "idle" /\ rx # <<>>
  /\ \E n \in ReadLens :
       sketch' = [At("read") EXCEPT !.todo = Smaller(n, Len(Bytes(rx)) - offset)]
  /\ UNCHANGED <<pcb, hooks, pending, tcpip, rxVars, txVars>>

\* tcp_recved, when there still is a connection.
Recved(n) == unacked' = IF pcb # "null" THEN unacked - n ELSE unacked

\* (fault) the bytes that were read are read again
NotAdvanced(n) == offset

Advanced(n) == offset + n

\* left > 0 in _consume: the segment is not read to its end.
BytesLeft(n) == offset + n < Len(Head(rx))

\* One round of the loop: a copy from the first segment, and _consume.
Copy ==
  LET n == Smaller(sketch.todo, Len(Head(rx)) - offset)
      more == [sketch EXCEPT !.todo = @ - n]
      done == IF more.todo = 0 THEN At("idle") ELSE more
  IN /\ sketch.pc = "read"
     /\ got' = got \o SubSeq(Head(rx), offset + 1, offset + n)
     /\ \/ BytesLeft(n) /\ offset' = Advanced(n) /\ sketch' = done
           /\ UNCHANGED <<rx, unacked>>
        \/ ~BytesLeft(n) /\ Len(rx) = 1 /\ sketch' = [more EXCEPT !.pc = "last"]
           /\ UNCHANGED <<rx, offset, unacked>>
        \/ ~BytesLeft(n) /\ Len(rx) > 1 /\ rx' = Tail(rx) /\ offset' = 0
           /\ Recved(Len(Head(rx))) /\ sketch' = done
     /\ UNCHANGED <<pcb, hooks, pending, tcpip, arrived, lost, txVars>>

\* (fault) the window is opened by the whole chain
RecvedChain == Recved(Len(Bytes(rx)))

\* _consume has found no other segment behind the first one.
RecvedLast == Recved(Len(Head(rx)))

\* The chain is freed: the segment, and with it any that has arrived since.
FreeLast ==
  /\ sketch.pc = "last" /\ sketch' = [sketch EXCEPT !.pc = "freed"]
  /\ RecvedLast
  /\ UNCHANGED <<pcb, hooks, pending, tcpip, rx, offset, arrived, got, lost, txVars>>

\* _rx_buf = 0.  What the TCP/IP task has appended to the chain is gone.
ResetChain ==
  /\ sketch.pc = "freed"
  /\ rx' = <<>> /\ offset' = 0 /\ lost' = lost \cup Range(Bytes(Tail(rx)))
  /\ sketch' = At("idle")
  /\ UNCHANGED <<pcb, hooks, pending, tcpip, unacked, arrived, got, txVars>>

-----------------------------------------------------------------------------
(* Writing, in the sketch's task. *)

\* write(data, size); without a connection it returns 0.
write ==
  /\ sketch.pc = "idle" /\ pcb # "null" /\ writes < MaxWrites
  /\ \E n \in WriteLens : sketch' = [At("some") EXCEPT !.todo = n]
  /\ writes' = writes + 1
  /\ UNCHANGED <<pcb, hooks, pending, tcpip, rxVars, used, waiting>>

\* (fault) the room in the send buffer is not looked at
WillSendAll(can) == IF pcb = "null" THEN 0 ELSE sketch.todo

WillSend(can) == IF pcb = "null" THEN 0 ELSE Smaller(can, sketch.todo)

\* _write_some up to its loop.  The queue of segments to send may be full before the
\* buffer is.
WriteSome ==
  /\ sketch.pc = "some"
  /\ \E can \in {0, SndBuf - used} :
       sketch' = [sketch EXCEPT !.pc = "chunk", !.out = FALSE, !.will = WillSend(can)]
  /\ UNCHANGED <<pcb, hooks, pending, tcpip, rxVars, txVars>>

\* One round of the loop: tcp_write takes a chunk, or has no memory for it.
Chunk ==
  LET n == Smaller(ChunkSize, sketch.will)
  IN /\ sketch.pc = "chunk"
     /\ \/ /\ sketch.will > 0 /\ state # "CLOSED"
           /\ used' = used + n
           /\ sketch' = [sketch EXCEPT !.todo = @ - n, !.will = @ - n, !.out = TRUE]
        \/ /\ sketch.will > 0 /\ UNCHANGED used
           /\ sketch' = [sketch EXCEPT !.pc = "check", !.out = @ /\ state # "CLOSED"]
        \/ /\ sketch.will = 0 /\ UNCHANGED used
           /\ sketch' = [sketch EXCEPT !.pc = "check"]
     /\ UNCHANGED <<pcb, hooks, pending, tcpip, rxVars, waiting, writes>>

\* (fault) every round of the loop starts the time-out again
PollsRestarted == 0

\* Only a round in which something was sent starts the time-out again.
Polls == IF sketch.out THEN 0 ELSE sketch.polls

\* (fault) _send_waiting is left as it is
WaitingKept == waiting

WaitingReset == 0

\* The test at the end of the loop of _write_from_source.
Check ==
  LET over == sketch.todo = 0 \/ Polls > MaxPolls \/ state = "CLOSED"
  IN /\ sketch.pc = "check"
     /\ \/ over /\ sketch' = At("idle") /\ waiting' = WaitingReset
        \/ ~over /\ waiting' = (waiting + 1) % 256
           /\ sketch' = [sketch EXCEPT !.pc = "delay", !.polls = Polls]
     /\ UNCHANGED <<pcb, hooks, pending, tcpip, rxVars, used, writes>>

\* delay(4) is over.
Wake ==
  /\ sketch.pc = "delay"
  /\ sketch' = [sketch EXCEPT !.pc = "some", !.polls = Smaller(@ + 1, MaxPolls + 1)]
  /\ UNCHANGED <<pcb, hooks, pending, tcpip, rxVars, txVars>>

Writing == WriteSome \/ Chunk \/ Check \/ Wake
Reading == Copy \/ FreeLast \/ ResetChain

-----------------------------------------------------------------------------
(* Callbacks, in the TCP/IP task. *)

\* lwIP calls back, and tcp_arg is still the context.
CallsBack == tcpip = "ready" /\ hooks = 5

SynAck ==
  /\ tcpip = "ready" /\ pcb = "SYN_SENT" /\ pcb' = "ESTABLISHED"
  /\ UNCHANGED <<hooks, pending, sketch, tcpip, rxVars, txVars>>

\* A segment, as far as the window allows.
_recv ==
  /\ CallsBack /\ pcb = "ESTABLISHED"
  /\ \E n \in SegLens :
       /\ unacked + n <= Window /\ arrived + n <= MaxIn
       /\ rx' = Append(rx, [i \in 1 .. n |-> arrived + i])
       /\ unacked' = unacked + n /\ arrived' = arrived + n
  /\ UNCHANGED <<pcb, hooks, pending, sketch, tcpip, offset, got, lost, txVars>>

\* _notify_error: the callback is delayed while the sketch waits in connect or write.
NotifyDelays == pending \/ waiting > 0

\* The peer has closed the connection: _recv without a segment aborts it.
PeerCloses ==
  /\ CallsBack /\ pcb = "ESTABLISHED"
  /\ IF NotifyDelays THEN pcb' = "CLOSE_WAIT" /\ tcpip' = "fin" /\ UNCHANGED hooks
                     ELSE pcb' = "null" /\ hooks' = 0 /\ UNCHANGED tcpip
  /\ UNCHANGED <<pending, sketch, rxVars, txVars>>

\* abort() after the delay.  The sketch may be in close() or abort() itself by then,
\* or may have deleted the context: what is left of that may say that there is no
\* connection.
FinAborts ==
  /\ tcpip = "fin"
  /\ \/ sketch.pc \notin Closing /\ tcpip' = "ready" /\ pcb' = "null" /\ hooks' = 0
     \/ sketch.pc \in Closing \cup {"deleted"} /\ tcpip' = "undefined"
        /\ UNCHANGED <<pcb, hooks>>
  /\ UNCHANGED <<pending, sketch, rxVars, txVars>>

\* The connection is reset or given up.
_error ==
  /\ CallsBack /\ pcb \notin {"null", "CLOSED"} /\ pcb' = "null" /\ hooks' = 0
  /\ tcpip' = IF NotifyDelays THEN "err" ELSE "ready"
  /\ UNCHANGED <<pending, sketch, rxVars, txVars>>

\* A segment, an acknowledgement, the timer or a reset comes after tcp_arg(_pcb, NULL)
\* and before the connection is closed: its callback runs on a null context, or
\* close() goes on with a connection that is gone.
NullContext ==
  /\ tcpip = "ready" /\ pcb \notin {"null", "CLOSED"} /\ hooks < 5
  /\ tcpip' = "undefined"
  /\ UNCHANGED <<pcb, hooks, pending, sketch, rxVars, txVars>>

\* _write_some_from_cb.
FromCb ==
  \/ waiting = 1 /\ waiting' = 0 /\ tcpip' = "ack"
  \/ waiting # 1 /\ UNCHANGED <<waiting, tcpip>>

_acked ==
  /\ CallsBack /\ pcb = "ESTABLISHED"
  /\ \E n \in 1 .. used : used' = used - n
  /\ FromCb
  /\ UNCHANGED <<pcb, hooks, pending, sketch, rxVars, writes>>

_poll ==
  /\ CallsBack /\ pcb = "ESTABLISHED" /\ FromCb
  /\ UNCHANGED <<pcb, hooks, pending, sketch, rxVars, used, writes>>

\* The delay in a callback is over, with nothing left to do.
Resume ==
  /\ tcpip \in {"err", "ack"} /\ tcpip' = "ready"
  /\ UNCHANGED <<pcb, hooks, pending, sketch, rxVars, txVars>>

Callbacks == SynAck \/ _recv \/ PeerCloses \/ FinAborts \/ _error \/ NullContext \/ _acked
               \/ _poll \/ Resume

Running == tcpip # "undefined"

Next == /\ Running
        /\ \/ connect \/ close \/ unref \/ Releasing \/ read \/ Reading \/ write \/ Writing
           \/ Callbacks

\* unref follows a connect that failed.
FailedConnect == sketch.pc = "unref" /\ unref

\* Both tasks are scheduled, and delays end.
Fairness ==
  /\ WF_vars(Running /\ Reading) /\ WF_vars(Running /\ Writing)
  /\ WF_vars(Running /\ (Releasing \/ FailedConnect))
  /\ WF_vars(FinAborts \/ Resume)

Spec == Init /\ [][Next]_vars /\ Fairness

-----------------------------------------------------------------------------
(* Properties *)

\* The sketch never reads a byte twice or out of order, although the TCP/IP task
\* appends to the chain while _consume takes it apart.
InOrder == \A i, j \in 1 .. Len(got) : i < j => got[i] < got[j]

\* The receive window the peer sees is short of exactly what is in the chain and what
\* was lost: a segment freed unread is never given back to the window.
WindowExact ==
  pcb # "null" =>
    unacked = Cardinality(lost)
                + Len(Bytes(IF sketch.pc = "freed" THEN Tail(rx) ELSE rx))

\* The assertion _send_waiting == 0 at the start of a write holds, whatever the
\* callbacks did to it during the writes before.
AssertWaiting == sketch.pc = "idle" => waiting = 0

\* The stack never calls back into a context that was deleted: all its callbacks are
\* taken away by then, whether the sketch, the peer or an error ended the connection
\* and at whatever point of connect(), stop() and unref() it did.  A callback finds no
\* context only while one of these takes them away, but for a close of the peer that
\* was delayed until after the release.
CallbacksToLive ==
  /\ sketch.pc = "deleted" => hooks = 0 /\ pcb = "null"
  /\ ~Running => sketch.pc \in Closing \cup {"deleted"}

\* A connect, a read, a write and a release always return: a write that makes no
\* progress times out.
CallsReturn ==
  sketch.pc \notin {"idle", "deleted", "new"} ~> sketch.pc \in {"idle", "deleted"} \/ ~Running
=============================================================================
