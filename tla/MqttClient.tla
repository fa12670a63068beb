------------------------------ MODULE MqttClient ------------------------------
(***************************************************************************)
(* The MQTT library (libraries/MQTT): MQTTClient.cpp over lwmqtt's         *)
(* client.c.  A call of the sketch sends a packet and then cycles: it      *)
(* reads and handles one packet after the other until the answer it waits  *)
(* for (the needle) has come or the command timer has run out.  Incoming   *)
(* messages are handed to the sketch's callback in the middle of whatever  *)
(* call is cycling, and the callback may itself call the client, on the    *)
(* same timers and buffers: calls form a stack.                            *)
(*                                                                         *)
(* The TCP connection is seen through the Client interface only: a flag    *)
(* that connected() reads, the bytes received but unread (which survive    *)
(* stop() and are dropped by the next connect()), and the bytes sent.      *)
(***************************************************************************)
EXTENDS Integers, Sequences

CONSTANTS
  Out,            \* messages the sketch publishes
  NoMsg,          \* "no message"
  In,             \* messages of the broker, named by the packet id it gives them
  Large,          \* the messages of In that do not fit the read buffer
  MaxId,          \* the last packet id before the wrap to 1: 65535 in the code
  DropOverflow,   \* dropOverflow(true) was called
  MaxDepth,       \* bound: nested calls (1: the callback calls nothing)
  MaxCalls        \* bound: calls of the sketch other than loop()

ASSUME ClientAssumption ==
  /\ MaxId \in Nat /\ MaxId > 1 /\ In \subseteq 1 .. MaxId /\ Large \subseteq In
  /\ NoMsg \notin Out \cup In
  /\ DropOverflow \in BOOLEAN /\ MaxDepth \in Nat \ {0} /\ MaxCalls \in Nat

VARIABLES
  net,        \* netClient->connected()
  conn,       \* _connected
  lastId,     \* last_packet_id
  pong,       \* pong_pending
  kaDue,      \* the keep alive timer has run out
  cmdDue,     \* the command timer has run out
  nextDup,    \* nextDupPacketID
  stack,      \* calls in progress, the innermost first
  rx,         \* packets received and not read yet
  tx,         \* packets sent and not yet processed by the broker
  okPub,      \* messages whose publish() with QoS > 0 returned true
  delivered,  \* broker messages the callback was run for
  calls,      \* calls made so far, up to MaxCalls
  alive       \* FALSE once the other end has silently gone

timers == <<kaDue, cmdDue>>
clientVars == <<net, conn, lastId, pong, kaDue, cmdDue, nextDup, stack, rx, tx,
                okPub, delivered, calls, alive>>

Ids == 0 .. MaxId
Acks == {"PUBACK", "PUBREC", "PUBREL", "PUBCOMP", "SUBACK", "UNSUBACK"}
Types == Acks \cup {"NO_PACKET", "CONNECT", "CONNACK", "PUBLISH", "SUBSCRIBE",
                    "UNSUBSCRIBE", "PINGREQ", "PINGRESP", "DISCONNECT"}

\* A packet; code is the QoS of a PUBLISH, the return code of CONNACK and SUBACK.
Packet == [t : Types, id : Ids, m : Out \cup In \cup {NoMsg}, code : {0, 1, 2, 5, 128},
           dup : BOOLEAN]
Pkt(t, id, code) == [t |-> t, id |-> id, m |-> NoMsg, code |-> code, dup |-> FALSE]
NO_PACKET == Pkt("NO_PACKET", 0, 0)
Ack(t, id) == Pkt(t, id, 0)
\* A packet that no call waits for.
NoNeedle == Pkt("PUBLISH", 0, 0)

\* A call: out is the packet it is about to write, needle the answer it waits
\* for, left how many of the packets that loop() saw available are still unread,
\* m the message whose acknowledgement it waits for.
Ops == {"connect", "publish", "subscribe", "unsubscribe", "disconnect", "loop"}
Frame == [op : Ops, pc : {"write", "cycle", "callback", "ack", "keepalive"},
          out : Packet, needle : Types, left : Nat, m : Out \cup {NoMsg}]
Call(op, out, needle, m) ==
  [op |-> op, pc |-> "write", out |-> out, needle |-> needle, left |-> 0, m |-> m]

ClientTypeOK ==
  /\ net \in BOOLEAN /\ conn \in BOOLEAN /\ pong \in BOOLEAN
  /\ kaDue \in BOOLEAN /\ cmdDue \in BOOLEAN /\ alive \in BOOLEAN
  /\ lastId \in 1 .. MaxId /\ nextDup \in Ids /\ calls \in 0 .. MaxCalls
  /\ stack \in Seq(Frame) /\ Len(stack) <= MaxDepth
  /\ rx \in Seq(Packet) /\ tx \in Seq(Packet)
  /\ okPub \subseteq Out /\ delivered \subseteq In

\* MQTTClient::begin, before the first connect().
ClientInit ==
  /\ net = FALSE /\ conn = FALSE /\ lastId = 1 /\ pong = FALSE
  /\ kaDue = TRUE /\ cmdDue = TRUE /\ nextDup = 0
  /\ stack = <<>> /\ rx = <<>> /\ tx = <<>>
  /\ okPub = {} /\ delivered = {} /\ calls = 0 /\ alive = TRUE

connected == net /\ conn
Top == stack[1]
Goto(f, pc) == stack' = <<[f EXCEPT !.pc = pc]>> \o Tail(stack)

\* The sketch calls, or its callback does.
MayCall ==
  /\ calls < MaxCalls
  /\ \/ stack = <<>>
     \/ stack # <<>> /\ Len(stack) < MaxDepth /\ Top.pc = "callback"

\* (fault) the connection is kept after an error
CloseKeepsOpen == UNCHANGED <<conn, net>>

\* MQTTClient::close: unread bytes stay in the receive buffer.
close == conn' = FALSE /\ net' = FALSE

\* The innermost call returns true.
Return(f) ==
  /\ stack' = Tail(stack)
  /\ okPub' = IF f.m # NoMsg THEN okPub \cup {f.m} ELSE okPub
  /\ UNCHANGED <<conn, net>>

\* (fault) a failed connect() is not followed by close()
FailConnectOpen(f) ==
  /\ stack' = Tail(stack)
  /\ IF f.op = "connect" THEN UNCHANGED <<conn, net>> ELSE close
  /\ UNCHANGED okPub

\* The innermost call fails: close() and return false.
Fail(f) == stack' = Tail(stack) /\ close /\ UNCHANGED okPub

-----------------------------------------------------------------------------
(* The calls up to their first write. *)

\* (fault) the wrap is forgotten
NextIdNoWrap == lastId + 1

\* lwmqtt_get_next_packet_id
NextId == IF lastId = MaxId THEN 1 ELSE lastId + 1

\* connect(): an open connection is closed first; WiFiClient::connect drops the
\* old receive buffer.  When TCP fails, a stale _connected is left as it was.
connect ==
  /\ calls < MaxCalls /\ stack = <<>>
  /\ calls' = calls + 1
  /\ conn' = (conn /\ ~connected)
  /\ rx' = <<>> /\ tx' = <<>>
  /\ \/ /\ alive
        /\ net' = TRUE
        /\ pong' = FALSE /\ kaDue' = FALSE /\ cmdDue' = FALSE
        /\ stack' = <<Call("connect", Pkt("CONNECT", 0, 0), "CONNACK", NoMsg)>>
     \/ net' = FALSE /\ UNCHANGED <<pong, timers, stack>>
  /\ UNCHANGED <<lastId, nextDup, okPub, delivered, alive>>

\* A call that is refused at once unless connected(), and else starts the command
\* timer and is about to write.
Begin(f) ==
  /\ MayCall /\ connected
  /\ calls' = calls + 1
  /\ stack' = <<f>> \o stack
  /\ cmdDue' = FALSE
  /\ UNCHANGED <<net, conn, pong, kaDue, rx, tx, okPub, delivered, alive>>

\* publish() clears nextDupPacketID before lwmqtt_publish looks at it through
\* dup_id: a new id is used, stored there, and the packet is not flagged.
publish(m, qos) ==
  /\ IF qos = 0
       THEN /\ lastId' = lastId /\ nextDup' = 0
            /\ Begin(Call("publish", [Pkt("PUBLISH", 0, 0) EXCEPT !.m = m],
                          "NO_PACKET", NoMsg))
       ELSE /\ lastId' = NextId
            /\ nextDup' = IF nextDup > 0 THEN NextId ELSE 0
            /\ Begin(Call("publish", [Pkt("PUBLISH", NextId, qos) EXCEPT !.m = m],
                          IF qos = 1 THEN "PUBACK" ELSE "PUBCOMP", m))

prepareDuplicate ==
  /\ MayCall
  /\ calls' = calls + 1
  /\ nextDup' = lastId
  /\ UNCHANGED <<net, conn, lastId, pong, timers, stack, rx, tx, okPub, delivered, alive>>

subscribe ==
  /\ Begin(Call("subscribe", Pkt("SUBSCRIBE", NextId, 0), "SUBACK", NoMsg))
  /\ lastId' = NextId /\ UNCHANGED nextDup

unsubscribe ==
  /\ Begin(Call("unsubscribe", Pkt("UNSUBSCRIBE", NextId, 0), "UNSUBACK", NoMsg))
  /\ lastId' = NextId /\ UNCHANGED nextDup

disconnect ==
  /\ stack = <<>>
  /\ Begin(Call("disconnect", Pkt("DISCONNECT", 0, 0), "NO_PACKET", NoMsg))
  /\ UNCHANGED <<lastId, nextDup>>

\* loop(): yield for the packets available now, then keep the connection alive.
loop ==
  /\ stack = <<>> /\ connected
  /\ stack' = <<[Call("loop", NO_PACKET, "NO_PACKET", NoMsg) EXCEPT
                   !.pc = IF rx = <<>> THEN "keepalive" ELSE "cycle", !.left = Len(rx)]>>
  /\ cmdDue' = FALSE
  /\ UNCHANGED <<net, conn, lastId, pong, kaDue, nextDup, rx, tx, okPub, delivered,
                 calls, alive>>

-----------------------------------------------------------------------------
(* The steps of the innermost call. *)

\* (fault) lwmqtt_keep_alive forgets the pong it waits for
KeepAliveNoPong(f) ==
  /\ cmdDue' = FALSE
  /\ IF ~kaDue THEN Return(f)
     ELSE /\ stack' = <<[f EXCEPT !.pc = "write", !.out = Pkt("PINGREQ", 0, 0)]>>
          /\ UNCHANGED <<conn, net, okPub>>

\* lwmqtt_keep_alive
KeepAlive(f) ==
  /\ cmdDue' = FALSE
  /\ IF ~kaDue THEN Return(f)
     ELSE IF pong THEN Fail(f)
     ELSE /\ stack' = <<[f EXCEPT !.pc = "write", !.out = Pkt("PINGREQ", 0, 0)]>>
          /\ UNCHANGED <<conn, net, okPub>>

\* The needle p has been read.  Its packet id is decoded and not compared.
Found(f, p) ==
  \/ f.op = "loop" /\ Goto(f, "keepalive") /\ UNCHANGED <<conn, net, okPub>>
  \/ f.op = "connect" /\ p.code = 0
       /\ stack' = Tail(stack) /\ conn' = TRUE /\ UNCHANGED <<net, okPub>>
  \/ f.op = "connect" /\ p.code # 0 /\ Fail(f)
  \/ f.op = "subscribe" /\ p.code = 128 /\ Fail(f)
  \/ f.op = "subscribe" /\ p.code # 128 /\ Return(f)
  \/ f.op \in {"publish", "unsubscribe"} /\ Return(f)

\* The cycle ends without the needle: a yield has done its work, any other call
\* reports a missing packet.
NotFound(f) ==
  \/ f.op = "loop" /\ Goto(f, "keepalive") /\ UNCHANGED <<conn, net, okPub>>
  \/ f.op # "loop" /\ Fail(f)

\* (fault) a yield ends after the first packet
CycleUntilOne(f, p) ==
  \/ p.t = f.needle /\ Found(f, p)
  \/ p.t # f.needle /\ ~cmdDue /\ f.op # "loop"
       /\ Goto(f, "cycle") /\ UNCHANGED <<conn, net, okPub>>
  \/ p.t # f.needle /\ (cmdDue \/ f.op = "loop") /\ NotFound(f)

\* lwmqtt_cycle_until after packet p was handled.
CycleUntil(f, p) ==
  \/ p.t = f.needle /\ Found(f, p)
  \/ /\ p.t # f.needle /\ ~cmdDue /\ (f.op = "loop" => f.left > 0)
     /\ Goto(f, "cycle") /\ UNCHANGED <<conn, net, okPub>>
  \/ /\ p.t # f.needle /\ (cmdDue \/ (f.op = "loop" /\ f.left = 0))
     /\ NotFound(f)

\* lwmqtt_send_packet_in_buffer: every packet sent restarts the keep alive timer.
Write(f) ==
  /\ f.pc \in {"write", "ack"} /\ net /\ ~cmdDue
  /\ tx' = IF alive THEN Append(tx, f.out) ELSE tx
  /\ kaDue' = FALSE
  /\ pong' = (pong \/ f.out.t = "PINGREQ")
  /\ \/ f.pc = "ack" /\ CycleUntil(f, NoNeedle)
     \/ f.pc = "write" /\ f.needle = "NO_PACKET" /\ f.op # "disconnect" /\ Return(f)
     \/ f.op = "disconnect" /\ Fail(f)
     \/ /\ f.pc = "write" /\ f.needle # "NO_PACKET"
        /\ Goto(f, "cycle") /\ UNCHANGED <<conn, net, okPub>>
  /\ UNCHANGED <<cmdDue, rx, delivered>>

\* The write fails, or the command timer runs out before the TCP send buffer has
\* taken the whole packet: the other end never sees it complete.
WriteFails(f) ==
  /\ f.pc \in {"write", "ack"}
  /\ Fail(f)
  /\ UNCHANGED <<timers, pong, rx, tx, delivered>>

\* (fault) an incoming message is acknowledged with the client's own last id
AckForLastId(p) ==
  IF p.code = 0 THEN NO_PACKET
  ELSE Ack(IF p.code = 1 THEN "PUBACK" ELSE "PUBREC", lastId)

\* The acknowledgement lwmqtt_cycle_once sends for an incoming message.
AckFor(p) ==
  IF p.code = 0 THEN NO_PACKET
  ELSE Ack(IF p.code = 1 THEN "PUBACK" ELSE "PUBREC", p.id)

\* The message is decoded and the callback entered.
Deliver(f, p) ==
  /\ stack' = <<[f EXCEPT !.pc = "callback", !.out = AckFor(p)]>> \o Tail(stack)
  /\ delivered' = delivered \cup {p.m}

\* lwmqtt_cycle_once on a packet p that has arrived in full.
Handle(f, p) ==
  \/ /\ p.m \in Large /\ DropOverflow
     /\ CycleUntil(f, NO_PACKET) /\ UNCHANGED <<pong, delivered>>
  \/ /\ p.m \in Large /\ ~DropOverflow
     /\ Fail(f) /\ UNCHANGED <<pong, delivered>>
  \/ /\ p.t = "PUBLISH" /\ p.m \notin Large
     /\ Deliver(f, p)
     /\ UNCHANGED <<pong, conn, net, okPub>>
  \/ /\ p.t \in {"PUBREC", "PUBREL"}
     /\ stack' = <<[f EXCEPT !.pc = "ack", !.out =
                      Ack(IF p.t = "PUBREC" THEN "PUBREL" ELSE "PUBCOMP", p.id)]>>
                 \o Tail(stack)
     /\ UNCHANGED <<pong, delivered, conn, net, okPub>>
  \/ /\ p.t \notin {"PUBLISH", "PUBREC", "PUBREL"}
     /\ pong' = (pong /\ p.t # "PINGRESP")
     /\ CycleUntil(f, p) /\ UNCHANGED delivered

\* One packet is read; loop() counts it against what it saw available.
ReadPacket(f) ==
  /\ f.pc = "cycle" /\ ~cmdDue /\ rx # <<>>
  /\ rx' = Tail(rx)
  /\ Handle([f EXCEPT !.left = IF f.op = "loop" THEN @ - 1 ELSE 0], Head(rx))
  /\ UNCHANGED <<timers, tx>>

\* (fault) the read is not bounded by the command timer
ReadNothingWaits(f) ==
  /\ f.pc = "cycle" /\ rx = <<>> /\ ~net /\ Fail(f)
  /\ UNCHANGED <<timers, pong, rx, tx, delivered>>

\* The command timer has run out before a header byte was read, which is no error
\* yet; or nothing is left to read of a connection that is gone, which is one.
ReadNothing(f) ==
  /\ f.pc = "cycle"
  /\ \/ cmdDue /\ CycleUntil(f, NO_PACKET)
     \/ ~cmdDue /\ rx = <<>> /\ ~net /\ Fail(f)
  /\ UNCHANGED <<timers, pong, rx, tx, delivered>>

\* The timer runs out, or the connection breaks, in the middle of a packet.
ReadTruncated(f) ==
  /\ f.pc = "cycle" /\ ~cmdDue /\ rx # <<>>
  /\ rx' = Tail(rx)
  /\ Fail(f)
  /\ UNCHANGED <<timers, pong, tx, delivered>>

CallbackReturns(f) ==
  /\ f.pc = "callback"
  /\ IF f.out.t = "NO_PACKET"
       THEN CycleUntil(f, NoNeedle)
       ELSE Goto(f, "ack") /\ UNCHANGED <<conn, net, okPub>>
  /\ UNCHANGED <<timers, pong, rx, tx, delivered>>

\* A step of the innermost call.
Step ==
  /\ stack # <<>>
  /\ \/ Write(Top)
     \/ ReadPacket(Top)
     \/ ReadNothing(Top)
     \/ CallbackReturns(Top)
     \/ /\ Top.pc = "keepalive" /\ KeepAlive(Top)
        /\ UNCHANGED <<kaDue, pong, rx, tx, delivered>>
  /\ UNCHANGED <<lastId, nextDup, calls, alive>>

\* A step of the innermost call that goes wrong.
StepFails ==
  /\ stack # <<>>
  /\ WriteFails(Top) \/ ReadTruncated(Top)
  /\ UNCHANGED <<lastId, nextDup, calls, alive>>

\* The two timers run out.
CommandTimer ==
  /\ stack # <<>> /\ ~cmdDue /\ cmdDue' = TRUE
  /\ UNCHANGED <<net, conn, lastId, pong, kaDue, nextDup, stack, rx, tx, okPub,
                 delivered, calls, alive>>
KeepAliveTimer ==
  /\ connected /\ ~kaDue /\ kaDue' = TRUE
  /\ UNCHANGED <<net, conn, lastId, pong, cmdDue, nextDup, stack, rx, tx, okPub,
                 delivered, calls, alive>>

=============================================================================
