---------------------------- MODULE HardwareSerial ----------------------------
(***************************************************************************)
(* The serial port of a sketch: class HardwareSerial                       *)
(* (cores/w800/HardwareSerial.cpp, Stream.cpp) on UART 0 of the driver     *)
(* (platform/drivers/uart/wm_uart.c), after begin().                       *)
(*                                                                         *)
(* Sending: tasks put messages on the pending list and fill the FIFO of    *)
(* the port; the interrupt handler goes on when the FIFO has run empty.    *)
(* Both do so in critical sections, and free the messages that are done    *)
(* outside of them.                                                        *)
(* Receiving: the interrupt handler copies what has arrived to the start   *)
(* of _serial_buf, over whatever was there; the sketch's task reads the    *)
(* buffer through two indices without any lock.  Built with -O2, read()    *)
(* loads each index once.                                                  *)
(***************************************************************************)
EXTENDS Integers, Sequences, SequencesExt

CONSTANTS
  Tasks,       \* tasks that write, the sketch's among them
  Lens,        \* lengths of writes
  MaxMsgs,     \* bound: writes
  FifoSize,    \* bytes the FIFO takes, tx_fifofull
  Burst,       \* tx_count, the most that is sent in one go
  BufSize,     \* TLS_UART_RX_BUF_SIZE
  MaxBatch,    \* bytes the receive FIFO holds
  MaxIn,       \* bound: bytes received
  Zeros,       \* received bytes whose value is 0
  Terms        \* received bytes that end a readStringUntil

ASSUME SerialAssumption ==
  /\ Lens \subseteq Nat \ {0} /\ {MaxMsgs, MaxIn} \subseteq Nat
  /\ {FifoSize, Burst, MaxBatch} \subseteq Nat \ {0}
  /\ BufSize \in Nat /\ BufSize > 3 /\ Zeros \cup Terms \subseteq 1 .. MaxIn

VARIABLES
  pending,     \* tx_msg_pending_list: messages with their unsent bytes
  tofree,      \* tx_msg_to_be_freed_list
  freed,       \* (history) messages that were freed
  fifo,        \* bytes in the transmit FIFO
  wire,        \* (history) bytes sent
  txint,       \* the FIFO has run empty and asks for an interrupt
  writer,      \* what each task does in tls_uart_write_async
  queued,      \* (history) all bytes of the messages, in the order they were queued
  nmsgs,       \* messages so far, up to MaxMsgs
  buf,         \* _serial_buf; a byte is its number, 0 is none
  begin,       \* _s_buf_begin
  end,         \* _s_buf_end
  reader,      \* read() or readString() of the sketch in progress
  arrived,     \* (history) number of bytes received
  got          \* (history) the bytes other than 0 that read() returned

txVars == <<pending, tofree, freed, fifo, wire, txint, writer, queued, nmsgs>>
rxVars == <<buf, begin, end, reader, arrived, got>>
vars == <<txVars, rxVars>>

Msgs == 1 .. MaxMsgs
Byte == Msgs \X (Nat \ {0})
IdleWriter == [pc |-> "idle", msg |-> 0]
IdleReader == [pc |-> "idle", b |-> 0, e |-> 0, c |-> 0]

TypeOK ==
  /\ pending \in Seq([id : Msgs, left : Seq(Byte)]) /\ tofree \in Seq(Msgs)
  /\ freed \subseteq Msgs /\ fifo \in Seq(Byte) /\ Len(fifo) <= FifoSize
  /\ wire \in Seq(Byte) /\ queued \in Seq(Byte) /\ txint \in BOOLEAN
  /\ writer \in [Tasks -> [pc : {"idle", "start", "free", "freeing"}, msg : 0 .. MaxMsgs]]
  /\ nmsgs \in 0 .. MaxMsgs
  /\ buf \in [0 .. BufSize - 1 -> 0 .. MaxIn]
  /\ begin \in 0 .. BufSize - 3 /\ end \in 0 .. BufSize - 3
  /\ reader \in [pc : {"idle", "load", "store", "clear", "reset", "wiped"},
                 b : 0 .. BufSize - 3, e : 0 .. BufSize - 3, c : 0 .. MaxIn]
  /\ arrived \in 0 .. MaxIn /\ got \in Seq(1 .. MaxIn)

Init ==
  /\ pending = <<>> /\ tofree = <<>> /\ freed = {} /\ fifo = <<>> /\ wire = <<>>
  /\ txint = FALSE /\ writer = [t \in Tasks |-> IdleWriter] /\ queued = <<>> /\ nmsgs = 0
  /\ buf = [i \in 0 .. BufSize - 1 |-> 0] /\ begin = 0 /\ end = 0
  /\ reader = IdleReader /\ arrived = 0 /\ got = <<>>

Smaller(a, b) == IF a < b THEN a ELSE b

-----------------------------------------------------------------------------
(* Sending. *)

\* tls_uart_fill_buf.  Without memory for the message there is nothing to send.
tls_uart_fill_buf(t) ==
  /\ writer[t].pc = "idle" /\ nmsgs < MaxMsgs
  /\ nmsgs' = nmsgs + 1
  /\ \/ \E n \in Lens :
          LET data == [i \in 1 .. n |-> <<nmsgs + 1, i>>]
          IN /\ pending' = Append(pending, [id |-> nmsgs + 1, left |-> data])
             /\ queued' = queued \o data
             /\ writer' = [writer EXCEPT ![t].pc = "start"]
     \/ UNCHANGED <<pending, queued, writer>>
  /\ UNCHANGED <<tofree, freed, fifo, wire, txint, rxVars>>

\* Bytes of a message that go into the FIFO now.
Room(m) == Smaller(Smaller(Burst, FifoSize - Len(fifo)), Len(m.left))

\* (fault) the rest of the message waits behind the other ones
RestLast(m) == Append(Tail(pending), m)

\* What is not sent yet of the first message stays in front.
Rest(m) == <<m>> \o Tail(pending)

\* Whether the first message will be done.
Done == Room(Head(pending)) = Len(Head(pending).left)

\* The critical section of tls_uart_tx_chars and tls_uart_tx_chars_start, as far as
\* the pending list and the FIFO go.
TxChars ==
  LET m == Head(pending)
      n == Room(m)
  IN /\ pending # <<>>
     /\ fifo' = fifo \o SubSeq(m.left, 1, n)
     /\ pending' = IF Done THEN Tail(pending)
                   ELSE Rest([m EXCEPT !.left = SubSeq(@, n + 1, Len(@))])

\* A message that is done goes to the other list, and tx_callback,
\* tls_uart_free_tx_sent_data, follows.
tls_uart_tx_chars_start(t) ==
  /\ writer[t].pc = "start"
  /\ \/ TxChars /\ Done /\ tofree' = Append(tofree, Head(pending).id)
        /\ writer' = [writer EXCEPT ![t].pc = "free"]
     \/ TxChars /\ ~Done /\ writer' = [writer EXCEPT ![t].pc = "idle"] /\ UNCHANGED tofree
     \/ pending = <<>> /\ writer' = [writer EXCEPT ![t].pc = "idle"]
        /\ UNCHANGED <<pending, fifo, tofree>>
  /\ UNCHANGED <<freed, wire, txint, queued, nmsgs, rxVars>>

\* (fault) the message is left on the list until it has been freed
TakeLater == tofree

\* The message is taken from the list before the critical section is left.
TakeFirst == Tail(tofree)

FreeNext(t) ==
  /\ writer[t].pc = "free"
  /\ \/ /\ tofree # <<>> /\ tofree' = TakeFirst
        /\ writer' = [writer EXCEPT ![t] = [pc |-> "freeing", msg |-> Head(tofree)]]
     \/ /\ tofree = <<>> /\ writer' = [writer EXCEPT ![t] = IdleWriter] /\ UNCHANGED tofree
  /\ UNCHANGED <<pending, freed, fifo, wire, txint, queued, nmsgs, rxVars>>

Free(t) ==
  /\ writer[t].pc = "freeing"
  /\ freed' = freed \cup {writer[t].msg}
  /\ writer' = [writer EXCEPT ![t] = [pc |-> "free", msg |-> 0]]
  /\ UNCHANGED <<pending, tofree, fifo, wire, txint, queued, nmsgs, rxVars>>

\* (fault) the interrupt leaves the port to a task that is still freeing messages
SendsUnlessFreeing == pending # <<>> /\ tofree = <<>>

\* Whether the interrupt has something to send.
Sends == pending # <<>>

\* The transmit part of UART0_IRQHandler, with the freeing it ends in.
TxInterrupt ==
  /\ txint /\ txint' = FALSE
  /\ \/ Sends /\ TxChars /\ Done
        /\ tofree' = <<>> /\ freed' = freed \cup {tofree[i] : i \in 1 .. Len(tofree)} \cup {Head(pending).id}
     \/ Sends /\ TxChars /\ ~Done /\ UNCHANGED <<tofree, freed>>
     \/ ~Sends /\ UNCHANGED <<pending, fifo, tofree, freed>>
  /\ UNCHANGED <<wire, writer, queued, nmsgs, rxVars>>

\* The port sends a byte; when it was the last one in the FIFO it asks for more.
Shift ==
  /\ fifo # <<>> /\ wire' = Append(wire, Head(fifo)) /\ fifo' = Tail(fifo)
  /\ txint' = (txint \/ Len(fifo) = 1)
  /\ UNCHANGED <<pending, tofree, freed, writer, queued, nmsgs, rxVars>>

-----------------------------------------------------------------------------
(* Receiving. *)

\* (fault) the bytes go behind those that are already there
FirstFree == end

\* uart0_rx_cb starts at the front of the buffer.
FirstSlot == 0

\* The receive part of UART0_IRQHandler: what fits into the ring is moved on to
\* _serial_buf by uart0_rx_cb, in the same interrupt.  Bytes with an error are
\* dropped.
RxInterrupt ==
  /\ reader.pc # "wiped"
  /\ \E n \in 1 .. Smaller(MaxBatch, MaxIn - arrived) :
       LET kept == Smaller(n, BufSize - 3)
       IN /\ arrived' = arrived + n
          /\ \/ /\ buf' = [i \in 0 .. BufSize - 1 |->
                             IF FirstSlot <= i /\ i < FirstSlot + kept
                             THEN arrived + 1 + i - FirstSlot ELSE buf[i]]
                /\ begin' = FirstSlot /\ end' = FirstSlot + kept
             \/ UNCHANGED <<buf, begin, end>>
  /\ UNCHANGED <<reader, got, txVars>>

\* read() with the indices it loaded at its start ...
Read ==
  /\ reader.pc = "idle" /\ begin # end
  /\ reader' = [pc |-> "load", b |-> begin, e |-> end, c |-> 0]
  /\ UNCHANGED <<buf, begin, end, arrived, got, txVars>>

\* ... takes a byte, which is not consumed if it is 0 ...
ReadByte ==
  LET r == reader
      c == IF r.b < BufSize /\ r.b < r.e THEN buf[r.b] ELSE 0
      zero == c = 0 \/ c \in Zeros
  IN /\ r.pc = "load"
     /\ reader' = IF zero THEN IdleReader ELSE [r EXCEPT !.pc = "store", !.c = c]
     /\ got' = IF zero THEN got ELSE Append(got, c)
     /\ UNCHANGED <<buf, begin, end, arrived, txVars>>

\* (fault) the index is not moved on
BeginKept(b) == b

\* ... and stores the index of the next one.
NextBegin(b) == b + 1

StoreBegin ==
  /\ reader.pc = "store" /\ begin' = NextBegin(reader.b)
  /\ reader' = [IdleReader EXCEPT !.c = reader.c]
  /\ UNCHANGED <<buf, end, arrived, got, txVars>>

\* readString ends when nothing has come for a while, readStringUntil also after the
\* terminator.
StringEnds ==
  /\ reader.pc = "idle" /\ (begin = end \/ reader.c \in Terms)
  /\ reader' = [IdleReader EXCEPT !.pc = "clear"]
  /\ UNCHANGED <<buf, begin, end, arrived, got, txVars>>

\* memset of begin - end bytes.  With bytes unread the number is negative, that is
\* far more than the memory has: nothing is left of the program.
StringClears ==
  /\ reader.pc = "clear"
  /\ \/ /\ begin < end /\ reader' = [IdleReader EXCEPT !.pc = "wiped"] /\ UNCHANGED buf
     \/ /\ begin >= end /\ reader' = [IdleReader EXCEPT !.pc = "reset"]
        /\ buf' = [i \in 0 .. BufSize - 1 |-> IF i < begin - end THEN 0 ELSE buf[i]]
  /\ UNCHANGED <<begin, end, arrived, got, txVars>>

StringResets ==
  /\ reader.pc = "reset" /\ begin' = 0 /\ end' = 0 /\ reader' = IdleReader
  /\ UNCHANGED <<buf, arrived, got, txVars>>

-----------------------------------------------------------------------------
Writing(t) == tls_uart_tx_chars_start(t) \/ FreeNext(t) \/ Free(t)

Next ==
  /\ reader.pc # "wiped"
  /\ \/ \E t \in Tasks : tls_uart_fill_buf(t) \/ Writing(t)
     \/ TxInterrupt \/ Shift \/ RxInterrupt
     \/ Read \/ ReadByte \/ StoreBegin \/ StringEnds \/ StringClears \/ StringResets

\* The port sends, interrupts are served, tasks go on.
Fairness ==
  /\ WF_vars(Shift) /\ WF_vars(TxInterrupt) /\ \A t \in Tasks : WF_vars(Writing(t))

Spec == Init /\ [][Next]_vars /\ Fairness

-----------------------------------------------------------------------------
(* Properties *)

\* What is on the wire, in the FIFO and on the pending list is what was written, byte
\* for byte in the order of the writes, however tasks and interrupts share the work.
TxExact ==
  wire \o fifo \o FlattenSeq([i \in 1 .. Len(pending) |-> pending[i].left]) = queued

Waiting == {pending[i].id : i \in 1 .. Len(pending)}
Sent == {tofree[i] : i \in 1 .. Len(tofree)}
Freeing == {t \in Tasks : writer[t].pc = "freeing"}
Taken == {writer[t].msg : t \in Freeing}

\* A message is in one place only, and freed once: while it is pending nobody frees
\* it, and of a task and the interrupt that empty the list only one gets it.
FreedOnce ==
  /\ \A i, j \in 1 .. Len(pending) : pending[i].id = pending[j].id => i = j
  /\ \A i, j \in 1 .. Len(tofree) : tofree[i] = tofree[j] => i = j
  /\ \A t, u \in Freeing : writer[t].msg = writer[u].msg => t = u
  /\ Waiting \cap Sent = {} /\ (Waiting \cup Sent) \cap Taken = {}
  /\ (Waiting \cup Sent \cup Taken) \cap freed = {}

\* Everything that was written is sent in the end, without another write to push it.
AllSent == <>[](wire = queued \/ reader.pc = "wiped")

\* read() returns bytes in the order in which they arrived and none of them twice,
\* although the interrupt replaces the buffer under it.
ReadInOrder == \A i, j \in 1 .. Len(got) : i < j => got[i] < got[j]
=============================================================================
