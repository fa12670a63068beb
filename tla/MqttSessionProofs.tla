--------------------------- MODULE MqttSessionProofs ---------------------------
(***************************************************************************)
(* Proofs for MqttSession: for any messages, packet ids and calls.         *)
(***************************************************************************)
EXTENDS MqttSession, SequenceTheorems, TLAPS

-----------------------------------------------------------------------------
(* Sequences over a set. *)

LEMMA SeqMono == ASSUME NEW S, NEW T, S \subseteq T, NEW s \in Seq(S) PROVE s \in Seq(T)
OBVIOUS

LEMMA SeqTail ==
  ASSUME NEW S, NEW s \in Seq(S), s # <<>>
  PROVE  /\ Head(s) \in S /\ s[1] \in S /\ s[1] = Head(s) /\ Tail(s) \in Seq(S)
         /\ Len(Tail(s)) = Len(s) - 1 /\ Len(s) \in Nat /\ Len(s) > 0
OBVIOUS

LEMMA SeqAppend ==
  ASSUME NEW S, NEW s \in Seq(S), NEW x \in S
  PROVE  Append(s, x) \in Seq(S) /\ Len(Append(s, x)) = Len(s) + 1 /\ Len(s) \in Nat
OBVIOUS

LEMMA SeqCat ==
  ASSUME NEW S, NEW s \in Seq(S), NEW t \in Seq(S)
  PROVE  s \o t \in Seq(S) /\ Len(s \o t) = Len(s) + Len(t)
BY ConcatProperties

LEMMA SeqPush ==
  ASSUME NEW S, NEW s \in Seq(S), NEW x \in S
  PROVE  /\ <<x>> \o s \in Seq(S) /\ Len(<<x>> \o s) = Len(s) + 1 /\ Len(s) \in Nat
         /\ (<<x>> \o s)[1] = x /\ Tail(<<x>> \o s) = s /\ <<x>> \o s # <<>>
<1>1. <<x>> \in Seq(S) /\ Len(<<x>>) = 1 /\ <<x>>[1] = x OBVIOUS
<1> DEFINE q == <<x>> \o s
<1>2. /\ q \in Seq(S) /\ Len(q) = 1 + Len(s) /\ Len(s) \in Nat
      /\ \A i \in 1 .. Len(q) : q[i] = IF i <= 1 THEN <<x>>[i] ELSE s[i - 1]
  BY <1>1, ConcatProperties
<1> HIDE DEF q
<1>3. q[1] = x BY <1>1, <1>2
<1>4. q # <<>> /\ Tail(q) \in Seq(S) /\ Len(Tail(q)) = Len(s)
  <2>1. Len(q) # 0 /\ Len(<<>>) = 0 BY <1>2
  <2>2. q # <<>> BY <2>1
  <2>3. Tail(q) \in Seq(S) /\ Len(Tail(q)) = Len(q) - 1 BY <1>2, <2>2
  <2>4. QED BY <1>2, <2>2, <2>3
<1>5. \A i \in 1 .. Len(s) : Tail(q)[i] = s[i]
  <2>1. ASSUME NEW i \in 1 .. Len(s) PROVE Tail(q)[i] = s[i]
    <3> DEFINE k == i + 1
    <3>1. k \in 1 .. Len(q) /\ ~(k <= 1) /\ k - 1 = i BY <1>2
    <3>2. Tail(q)[i] = q[k] BY <1>2, <1>4
    <3>3. q[k] = s[k - 1] BY <1>2, <3>1
    <3>4. QED BY <3>1, <3>2, <3>3
  <2>2. QED BY <2>1
<1>6. Tail(q) = s BY <1>4, <1>5, SeqEqual
<1>7. QED BY <1>2, <1>3, <1>4, <1>6 DEF q

-----------------------------------------------------------------------------
(* Types, and what the packets and the calls in progress carry. *)

\* What the client sends: it acknowledges messages it has delivered (the set D), and
\* publishes its own.
TxGood(p, D) ==
  /\ p.t \in {"PUBACK", "PUBREC", "PUBCOMP"} => p.id \in D
  /\ p.t = "PUBLISH" => p.m \in Out
TxOk(D) == {p \in Packet : TxGood(p, D)}

\* What the broker sends: its messages are named by their ids, and it releases what
\* the client has delivered.
RxGood(p, D) ==
  /\ p.t = "PUBREL" => p.id \in D
  /\ IF p.t = "PUBLISH" THEN p.m \in In /\ p.id = p.m ELSE p.m = NoMsg
  /\ p.t # "NO_PACKET"
RxOk(D) == {p \in Packet : RxGood(p, D)}

\* A call and the answer it waits for.
FrameShape(f) ==
  /\ f.op = "disconnect" => f.pc = "write" /\ f.needle = "NO_PACKET"
  /\ f.op = "loop" => f.needle = "NO_PACKET"
  /\ f.op = "connect" => f.needle = "CONNACK"
  /\ f.pc = "keepalive" => f.op = "loop"
  /\ f.needle # "PUBLISH"
  /\ f.m # NoMsg => f.needle \in {"PUBACK", "PUBCOMP"}
  /\ f.out.t = "CONNECT" => f.op = "connect"
  /\ f.out.t = "DISCONNECT" => f.op = "disconnect"
Frames(D) == {f \in Frame : FrameShape(f) /\ TxGood(f.out, D)}
\* loop() never reads more packets than it saw available.
LeftOk(f) == f.op = "loop" /\ f.pc = "cycle" => f.left > 0
FrameOk(D) == {f \in Frames(D) : LeftOk(f)}

Scalars ==
  /\ net \in BOOLEAN /\ conn \in BOOLEAN /\ pong \in BOOLEAN
  /\ kaDue \in BOOLEAN /\ cmdDue \in BOOLEAN /\ alive \in BOOLEAN
  /\ lastId \in 1 .. MaxId /\ nextDup \in Ids /\ calls \in 0 .. MaxCalls
  /\ okPub \subseteq Out /\ delivered \subseteq In

Stacked == stack \in Seq(FrameOk(delivered)) /\ Len(stack) <= MaxDepth
Flowing == rx \in Seq(RxOk(delivered)) /\ tx \in Seq(TxOk(delivered))

BrokerOk ==
  /\ accepted \in BOOLEAN /\ got \subseteq Out
  /\ inflight \subseteq [id : Ids, m : Out]
  /\ sent \subseteq In /\ done \subseteq In /\ done \subseteq delivered

Base == Scalars /\ Stacked /\ Flowing /\ BrokerOk

LEMMA Grow ==
  ASSUME NEW D, NEW E, D \subseteq E
  PROVE  TxOk(D) \subseteq TxOk(E) /\ RxOk(D) \subseteq RxOk(E) /\ FrameOk(D) \subseteq FrameOk(E)
         /\ Frames(D) \subseteq Frames(E)
BY DEF TxOk, RxOk, FrameOk, Frames, TxGood, RxGood

\* Packets.
LEMMA PktType ==
  ASSUME NEW t \in Types, NEW id \in Ids, NEW c \in {0, 1, 2, 5, 128}
  PROVE  Pkt(t, id, c) \in Packet /\ Pkt(t, id, c).t = t /\ Pkt(t, id, c).id = id
         /\ Pkt(t, id, c).m = NoMsg /\ Pkt(t, id, c).code = c
BY DEF Pkt, Packet

LEMMA PktTx ==
  ASSUME NEW t \in Types, NEW id \in Ids, NEW c \in {0, 1, 2, 5, 128}, NEW D,
         t # "PUBLISH", t \in {"PUBACK", "PUBREC", "PUBCOMP"} => id \in D
  PROVE  Pkt(t, id, c) \in TxOk(D)
BY PktType DEF TxOk, TxGood

LEMMA PktRx ==
  ASSUME NEW t \in Types, NEW id \in Ids, NEW c \in {0, 1, 2, 5, 128}, NEW D,
         t \notin {"PUBLISH", "NO_PACKET"}, t = "PUBREL" => id \in D
  PROVE  Pkt(t, id, c) \in RxOk(D)
BY PktType DEF RxOk, RxGood

LEMMA PacketFields ==
  ASSUME NEW p \in Packet
  PROVE  p.t \in Types /\ p.id \in Ids /\ p.code \in {0, 1, 2, 5, 128}
         /\ p.m \in Out \cup In \cup {NoMsg}
BY DEF Packet

\* Frames.
LEMMA FrameGoto ==
  ASSUME NEW D, NEW f \in Frames(D), NEW c \in {"write", "cycle", "callback", "ack", "keepalive"},
         f.op # "disconnect", c = "keepalive" => f.op = "loop",
         c = "cycle" /\ f.op = "loop" => f.left > 0
  PROVE  [f EXCEPT !.pc = c] \in FrameOk(D)
<1> DEFINE g == [f EXCEPT !.pc = c]
<1>1. f \in Frame BY DEF Frames
<1>2. /\ g \in Frame /\ g.op = f.op /\ g.pc = c /\ g.out = f.out /\ g.needle = f.needle
      /\ g.left = f.left /\ g.m = f.m
  BY <1>1 DEF Frame
<1> HIDE DEF g
<1>3. FrameShape(g) BY <1>2 DEF Frames, FrameShape
<1>4. LeftOk(g) BY <1>2 DEF LeftOk
<1>5. g \in FrameOk(D) BY <1>2, <1>3, <1>4 DEF FrameOk, Frames
<1>6. QED BY <1>5 DEF g

LEMMA FrameOut ==
  ASSUME NEW D, NEW f \in Frames(D), NEW c \in {"write", "callback", "ack"},
         f.op # "disconnect", NEW x \in TxOk(D), x.t \notin {"CONNECT", "DISCONNECT"}
  PROVE  [f EXCEPT !.pc = c, !.out = x] \in FrameOk(D)
<1> DEFINE g == [f EXCEPT !.pc = c, !.out = x]
<1>1. f \in Frame /\ x \in Packet BY DEF Frames, TxOk
<1>2. /\ g \in Frame /\ g.op = f.op /\ g.pc = c /\ g.out = x /\ g.needle = f.needle
      /\ g.left = f.left /\ g.m = f.m
  BY <1>1 DEF Frame
<1> HIDE DEF g
<1>3. FrameShape(g) BY <1>2 DEF Frames, FrameShape
<1>4. LeftOk(g) BY <1>2 DEF LeftOk
<1>5. TxGood(g.out, D) BY <1>2 DEF TxOk
<1>6. g \in FrameOk(D) BY <1>2, <1>3, <1>4, <1>5 DEF FrameOk, Frames
<1>7. QED BY <1>6 DEF g

LEMMA FrameFields ==
  ASSUME NEW D, NEW f \in Frames(D)
  PROVE  /\ f \in Frame /\ f.out \in TxOk(D) /\ f.left \in Nat /\ f.m \in Out \cup {NoMsg}
         /\ f.op \in Ops /\ f.needle \in Types
BY DEF Frames, Frame, TxOk

\* The ways in which a step of the innermost call ends.
Replaced(g) == stack' = <<g>> \o Tail(stack) /\ UNCHANGED <<conn, net, okPub>>

Ends(f, p) ==
  \/ /\ Replaced([f EXCEPT !.pc = "keepalive"]) /\ f.op = "loop"
     /\ p.t = f.needle \/ cmdDue \/ f.left = 0
  \/ Replaced([f EXCEPT !.pc = "cycle"]) /\ (f.op = "loop" => f.left > 0)
  \/ Fail(f)
  \/ /\ p.t = f.needle /\ f.op = "connect" /\ p.code = 0
     /\ stack' = Tail(stack) /\ conn' = TRUE /\ UNCHANGED <<net, okPub>>
  \/ p.t = f.needle /\ f.op \in {"publish", "subscribe", "unsubscribe"} /\ Return(f)

LEMMA CycleEnds == ASSUME NEW f, NEW p, CycleUntil(f, p) PROVE Ends(f, p)
BY DEF CycleUntil, Found, NotFound, Goto, Replaced, Ends

-----------------------------------------------------------------------------
(* The types are kept by the steps of a call. *)

LEMMA Popped ==
  ASSUME Stacked, stack # <<>>, delivered \subseteq delivered', stack' = Tail(stack)
  PROVE  Stacked'
<1>1. stack \in Seq(FrameOk(delivered')) BY Grow, SeqMono DEF Stacked
<1>2. /\ Tail(stack) \in Seq(FrameOk(delivered')) /\ Len(Tail(stack)) = Len(stack) - 1
      /\ Len(stack) \in Nat
  BY <1>1, SeqTail
<1>3. Len(stack') <= MaxDepth BY <1>2, ClientAssumption DEF Stacked
<1>4. QED BY <1>2, <1>3 DEF Stacked

LEMMA Swapped ==
  ASSUME Stacked, stack # <<>>, delivered \subseteq delivered',
         NEW g \in FrameOk(delivered'), stack' = <<g>> \o Tail(stack)
  PROVE  Stacked'
<1>1. stack \in Seq(FrameOk(delivered')) BY Grow, SeqMono DEF Stacked
<1>2. /\ Tail(stack) \in Seq(FrameOk(delivered')) /\ Len(Tail(stack)) = Len(stack) - 1
      /\ Len(stack) \in Nat
  BY <1>1, SeqTail
<1>3. stack' \in Seq(FrameOk(delivered')) /\ Len(stack') = Len(Tail(stack)) + 1
  BY <1>2, SeqPush
<1>4. Len(stack') <= MaxDepth BY <1>2, <1>3, ClientAssumption DEF Stacked
<1>5. QED BY <1>3, <1>4 DEF Stacked

LEMMA EndsTyped ==
  ASSUME Base, stack # <<>>, NEW f \in Frames(delivered), f.op # "disconnect", NEW p,
         delivered' = delivered, Ends(f, p)
  PROVE  Stacked' /\ conn' \in BOOLEAN /\ net' \in BOOLEAN /\ okPub' \subseteq Out
<1>1. Stacked /\ conn \in BOOLEAN /\ net \in BOOLEAN /\ okPub \subseteq Out
  BY DEF Base, Scalars
<1>2. ASSUME NEW c \in {"cycle", "keepalive"}, Replaced([f EXCEPT !.pc = c]),
             c = "keepalive" => f.op = "loop", c = "cycle" /\ f.op = "loop" => f.left > 0
      PROVE  Stacked' /\ conn' \in BOOLEAN /\ net' \in BOOLEAN /\ okPub' \subseteq Out
  <2> DEFINE g == [f EXCEPT !.pc = c]
  <2>1. g \in FrameOk(delivered) BY <1>2, FrameGoto
  <2> HIDE DEF g
  <2>2. stack' = <<g>> \o Tail(stack) /\ UNCHANGED <<conn, net, okPub>>
    BY <1>2 DEF Replaced, g
  <2>3. Stacked' BY <1>1, <2>1, <2>2, Swapped
  <2>4. QED BY <1>1, <2>2, <2>3
<1>3. CASE Fail(f) BY <1>1, <1>3, Popped DEF Fail, close
<1>4. CASE stack' = Tail(stack) /\ conn' = TRUE /\ UNCHANGED <<net, okPub>>
  BY <1>1, <1>4, Popped
<1>5. CASE Return(f)
  <2>1. okPub' \subseteq Out BY <1>1, <1>5, FrameFields DEF Return
  <2>2. QED BY <1>1, <1>5, <2>1, Popped DEF Return
<1>6. QED BY <1>2, <1>3, <1>4, <1>5 DEF Ends

Typed == Scalars /\ Stacked /\ Flowing

LEMMA TopFacts ==
  ASSUME Stacked, stack # <<>>
  PROVE  /\ Top \in FrameOk(delivered) /\ Top \in Frames(delivered) /\ Top \in Frame
         /\ Top.out \in TxOk(delivered) /\ FrameShape(Top) /\ LeftOk(Top)
<1>1. Top \in FrameOk(delivered) BY SeqTail DEF Stacked, Top
<1>2. QED BY <1>1, FrameFields DEF FrameOk, Frames

LEMMA WriteTyped ==
  ASSUME Base, stack # <<>>, Write(Top), UNCHANGED <<lastId, nextDup, calls, alive>>
  PROVE  Typed'
<1> DEFINE f == Top
<1>1. f \in Frames(delivered) /\ f.out \in TxOk(delivered) /\ FrameShape(f) /\ LeftOk(f)
  BY TopFacts DEF Base
<1> HIDE DEF f
<1>2. /\ f.pc \in {"write", "ack"} /\ net /\ ~cmdDue
      /\ tx' = IF alive THEN Append(tx, f.out) ELSE tx
      /\ kaDue' = FALSE /\ pong' = (pong \/ f.out.t = "PINGREQ")
      /\ \/ f.pc = "ack" /\ CycleUntil(f, NoNeedle)
         \/ f.pc = "write" /\ f.needle = "NO_PACKET" /\ f.op # "disconnect" /\ Return(f)
         \/ f.op = "disconnect" /\ Fail(f)
         \/ /\ f.pc = "write" /\ f.needle # "NO_PACKET"
            /\ Goto(f, "cycle") /\ UNCHANGED <<conn, net, okPub>>
      /\ UNCHANGED <<cmdDue, rx, delivered>>
  BY DEF Write, f
<1>3. Stacked' /\ conn' \in BOOLEAN /\ net' \in BOOLEAN /\ okPub' \subseteq Out
  <2>1. Stacked /\ conn \in BOOLEAN /\ net \in BOOLEAN /\ okPub \subseteq Out
    BY DEF Base, Scalars
  <2>2. CASE f.pc = "ack" /\ CycleUntil(f, NoNeedle)
    <3>1. f.op # "disconnect" BY <1>1, <2>2 DEF FrameShape
    <3>2. QED BY <1>1, <1>2, <2>2, <3>1, CycleEnds, EndsTyped
  <2>3. CASE Return(f)
    <3>1. okPub' \subseteq Out BY <1>1, <2>1, <2>3, FrameFields DEF Return
    <3>2. QED BY <1>2, <2>1, <2>3, <3>1, Popped DEF Return
  <2>4. CASE Fail(f) BY <1>2, <2>1, <2>4, Popped DEF Fail, close
  <2>5. CASE /\ f.pc = "write" /\ f.needle # "NO_PACKET"
             /\ Goto(f, "cycle") /\ UNCHANGED <<conn, net, okPub>>
    <3> DEFINE g == [f EXCEPT !.pc = "cycle"]
    <3>1. f.op # "disconnect" /\ f.op # "loop" BY <1>1, <2>5 DEF FrameShape
    <3>2. g \in FrameOk(delivered) BY <1>1, <3>1, FrameGoto
    <3> HIDE DEF g
    <3>3. stack' = <<g>> \o Tail(stack) BY <2>5 DEF Goto, g
    <3>4. QED BY <1>2, <2>1, <2>5, <3>2, <3>3, Swapped
  <2>6. QED BY <1>2, <2>2, <2>3, <2>4, <2>5
<1>4. Flowing'
  <2>1. tx \in Seq(TxOk(delivered)) /\ rx \in Seq(RxOk(delivered)) BY DEF Base, Flowing
  <2>2. tx' \in Seq(TxOk(delivered)) BY <1>1, <1>2, <2>1, SeqAppend
  <2>3. QED BY <1>2, <2>1, <2>2 DEF Flowing
<1>5. pong' \in BOOLEAN BY <1>2
<1>6. Scalars' BY <1>2, <1>3, <1>5 DEF Base, Scalars
<1>7. QED BY <1>3, <1>4, <1>6 DEF Typed

\* The frame of a call that has read a packet.
Counted(f) == [f EXCEPT !.left = IF f.op = "loop" THEN @ - 1 ELSE 0]

LEMMA CountedFrame ==
  ASSUME NEW D, NEW f \in FrameOk(D), f.pc = "cycle"
  PROVE  /\ Counted(f) \in Frames(D) /\ Counted(f).op = f.op /\ Counted(f).needle = f.needle
         /\ Counted(f).m = f.m /\ Counted(f).out = f.out /\ Counted(f).pc = "cycle"
         /\ f.op # "disconnect"
<1> DEFINE n == IF f.op = "loop" THEN f.left - 1 ELSE 0
           g == [f EXCEPT !.left = n]
<1>1. f \in Frame /\ f \in Frames(D) /\ f.left \in Nat BY FrameFields DEF FrameOk
<1>2. n \in Nat BY <1>1 DEF FrameOk, LeftOk
<1> HIDE DEF n
<1>3. /\ g \in Frame /\ g.op = f.op /\ g.pc = f.pc /\ g.out = f.out /\ g.needle = f.needle
      /\ g.m = f.m
  BY <1>1, <1>2 DEF Frame
<1>4. Counted(f) = g BY DEF Counted, n
<1> HIDE DEF g
<1>5. FrameShape(g) /\ TxGood(g.out, D) BY <1>1, <1>3 DEF Frames, FrameShape
<1>6. f.op # "disconnect" BY <1>1 DEF Frames, FrameShape
<1>7. QED BY <1>3, <1>4, <1>5, <1>6 DEF Frames

\* The acknowledgement that is prepared for a packet of the broker.
LEMMA AckTypes ==
  ASSUME NEW D, NEW p \in RxOk(D)
  PROVE  /\ p.t = "PUBLISH" =>
              /\ AckFor(p) \in TxOk(D \cup {p.m})
              /\ AckFor(p).t \in {"NO_PACKET", "PUBACK", "PUBREC"}
         /\ p.t = "PUBREL" => Ack("PUBCOMP", p.id) \in TxOk(D)
         /\ p.t = "PUBREC" => Ack("PUBREL", p.id) \in TxOk(D)
         /\ Ack("PUBCOMP", p.id).t = "PUBCOMP" /\ Ack("PUBREL", p.id).t = "PUBREL"
<1>1. p \in Packet /\ RxGood(p, D) BY DEF RxOk
<1>2. p.id \in Ids /\ 0 \in Ids BY <1>1, PacketFields, ClientAssumption DEF Ids
<1>3. ASSUME p.t = "PUBLISH"
      PROVE  /\ AckFor(p) \in TxOk(D \cup {p.m})
             /\ AckFor(p).t \in {"NO_PACKET", "PUBACK", "PUBREC"}
  <2>1. p.id \in D \cup {p.m} BY <1>1, <1>3 DEF RxGood
  <2>2. CASE p.code = 0
    <3>1. AckFor(p) = Pkt("NO_PACKET", 0, 0) BY <2>2 DEF AckFor, NO_PACKET
    <3>2. "NO_PACKET" \in Types BY DEF Types
    <3>3. QED BY <1>2, <3>1, <3>2, PktTx, PktType
  <2>3. CASE p.code # 0
    <3>1. PICK t \in {"PUBACK", "PUBREC"} : AckFor(p) = Pkt(t, p.id, 0)
      BY <2>3 DEF AckFor, Ack
    <3>2. t \in Types BY DEF Types, Acks
    <3>3. QED BY <1>2, <2>1, <3>1, <3>2, PktTx, PktType
  <2>4. QED BY <2>2, <2>3
<1>4. "PUBCOMP" \in Types /\ "PUBREL" \in Types BY DEF Types, Acks
<1>5. p.t = "PUBREL" => Ack("PUBCOMP", p.id) \in TxOk(D)
  BY <1>1, <1>2, <1>4, PktTx DEF Ack, RxGood
<1>6. Ack("PUBREL", p.id) \in TxOk(D) BY <1>2, <1>4, PktTx DEF Ack
<1>7. Ack("PUBCOMP", p.id).t = "PUBCOMP" /\ Ack("PUBREL", p.id).t = "PUBREL"
  BY <1>2, <1>4, PktType DEF Ack
<1>8. QED BY <1>3, <1>5, <1>6, <1>7

LEMMA ReadTyped ==
  ASSUME Base, stack # <<>>, ReadPacket(Top), UNCHANGED <<lastId, nextDup, calls, alive>>
  PROVE  Typed'
<1> DEFINE f == Counted(Top)
           p == Head(rx)
<1>1. Top \in FrameOk(delivered) /\ Top.pc = "cycle" BY TopFacts DEF Base, ReadPacket
<1>2. f \in Frames(delivered) /\ f.op # "disconnect" BY <1>1, CountedFrame
<1>3. /\ rx # <<>> /\ rx' = Tail(rx) /\ Handle(f, p) /\ UNCHANGED <<kaDue, cmdDue, tx>>
  BY DEF ReadPacket, Counted, timers
<1>4. p \in RxOk(delivered) /\ rx' \in Seq(RxOk(delivered)) /\ tx \in Seq(TxOk(delivered))
  BY <1>3, SeqTail DEF Base, Flowing
<1>5. Stacked /\ conn \in BOOLEAN /\ net \in BOOLEAN /\ okPub \subseteq Out /\ pong \in BOOLEAN
      /\ delivered \subseteq In
  BY DEF Base, Scalars
<1> HIDE DEF f, p
<1>6. ASSUME delivered \subseteq delivered', delivered' \subseteq In, Stacked', conn' \in BOOLEAN,
             net' \in BOOLEAN, okPub' \subseteq Out, pong' \in BOOLEAN
      PROVE  Typed'
  <2>1. Flowing'
    <3>1. rx' \in Seq(RxOk(delivered')) BY <1>4, <1>6, Grow, SeqMono
    <3>2. tx' \in Seq(TxOk(delivered')) BY <1>3, <1>4, <1>6, Grow, SeqMono
    <3>3. QED BY <3>1, <3>2 DEF Flowing
  <2>2. Scalars' BY <1>3, <1>6 DEF Base, Scalars
  <2>3. QED BY <1>6, <2>1, <2>2 DEF Typed
<1>7. CASE CycleUntil(f, NO_PACKET) /\ UNCHANGED <<pong, delivered>>
  BY <1>2, <1>5, <1>6, <1>7, CycleEnds, EndsTyped
<1>8. CASE Fail(f) /\ UNCHANGED <<pong, delivered>>
  BY <1>5, <1>6, <1>8, Popped DEF Fail, close
<1>9. CASE p.t = "PUBLISH" /\ Deliver(f, p) /\ UNCHANGED <<pong, conn, net, okPub>>
  <2> DEFINE x == AckFor(p)
             g == [f EXCEPT !.pc = "callback", !.out = x]
  <2>1. delivered' = delivered \cup {p.m} /\ stack' = <<g>> \o Tail(stack) BY <1>9 DEF Deliver
  <2>2. delivered \subseteq delivered' /\ delivered' \subseteq In
    BY <1>4, <1>5, <1>9, <2>1 DEF RxOk, RxGood
  <2>3. x \in TxOk(delivered') /\ x.t \notin {"CONNECT", "DISCONNECT"}
    BY <1>4, <1>9, <2>1, AckTypes
  <2>4. f \in Frames(delivered') BY <1>2, <2>2, Grow
  <2> HIDE DEF x
  <2>5. g \in FrameOk(delivered') BY <1>2, <2>3, <2>4, FrameOut
  <2> HIDE DEF g
  <2>6. Stacked' BY <1>5, <2>1, <2>2, <2>5, Swapped
  <2>7. QED BY <1>5, <1>6, <1>9, <2>2, <2>6
<1>10. CASE /\ p.t \in {"PUBREC", "PUBREL"}
            /\ stack' = <<[f EXCEPT !.pc = "ack", !.out =
                             Ack(IF p.t = "PUBREC" THEN "PUBREL" ELSE "PUBCOMP", p.id)]>>
                        \o Tail(stack)
            /\ UNCHANGED <<pong, delivered, conn, net, okPub>>
  <2> DEFINE x == Ack(IF p.t = "PUBREC" THEN "PUBREL" ELSE "PUBCOMP", p.id)
             g == [f EXCEPT !.pc = "ack", !.out = x]
  <2>1. x \in TxOk(delivered) /\ x.t \notin {"CONNECT", "DISCONNECT"}
    BY <1>4, <1>10, AckTypes
  <2>2. stack' = <<g>> \o Tail(stack) BY <1>10
  <2> HIDE DEF x
  <2>3. g \in FrameOk(delivered) BY <1>2, <2>1, FrameOut
  <2> HIDE DEF g
  <2>4. Stacked' BY <1>5, <1>10, <2>2, <2>3, Swapped
  <2>5. QED BY <1>5, <1>6, <1>10, <2>4
<1>11. CASE CycleUntil(f, p) /\ pong' = (pong /\ p.t # "PINGRESP") /\ UNCHANGED delivered
  BY <1>2, <1>5, <1>6, <1>11, CycleEnds, EndsTyped
<1>12. QED BY <1>3, <1>7, <1>8, <1>9, <1>10, <1>11 DEF Handle

LEMMA OtherTyped ==
  ASSUME Base, stack # <<>>, UNCHANGED <<lastId, nextDup, calls, alive>>,
         \/ ReadNothing(Top) \/ CallbackReturns(Top) \/ WriteFails(Top) \/ ReadTruncated(Top)
         \/ /\ Top.pc = "keepalive" /\ KeepAlive(Top)
            /\ UNCHANGED <<kaDue, pong, rx, tx, delivered>>
  PROVE  Typed'
<1> DEFINE f == Top
<1>1. /\ f \in FrameOk(delivered) /\ f \in Frames(delivered) /\ FrameShape(f) /\ LeftOk(f)
      /\ f.out \in TxOk(delivered)
  BY TopFacts DEF Base
<1>2. Stacked /\ conn \in BOOLEAN /\ net \in BOOLEAN /\ okPub \subseteq Out /\ cmdDue \in BOOLEAN
      /\ rx \in Seq(RxOk(delivered)) /\ tx \in Seq(TxOk(delivered)) /\ kaDue \in BOOLEAN
  BY DEF Base, Scalars, Flowing
<1> HIDE DEF f
<1>3. UNCHANGED <<kaDue, pong, tx, delivered>> /\ cmdDue' \in BOOLEAN
      /\ (rx' = rx \/ (rx # <<>> /\ rx' = Tail(rx)))
  BY <1>2 DEF ReadNothing, CallbackReturns, WriteFails, ReadTruncated, KeepAlive, timers
<1>4. Flowing' BY <1>2, <1>3, SeqTail DEF Flowing
<1>5. ASSUME Stacked', conn' \in BOOLEAN, net' \in BOOLEAN, okPub' \subseteq Out PROVE Typed'
  <2>1. Scalars' BY <1>3, <1>5 DEF Base, Scalars
  <2>2. QED BY <1>4, <1>5, <2>1 DEF Typed
<1>6. CASE Fail(f) BY <1>2, <1>3, <1>5, <1>6, Popped DEF Fail, close
<1>7. CASE Return(f)
  <2>1. okPub' \subseteq Out BY <1>1, <1>2, <1>7, FrameFields DEF Return
  <2>2. QED BY <1>2, <1>3, <1>5, <1>7, <2>1, Popped DEF Return
<1>8. ASSUME NEW p, CycleUntil(f, p), f.op # "disconnect" PROVE Typed'
  BY <1>1, <1>3, <1>5, <1>8, CycleEnds, EndsTyped
<1>9. CASE ReadNothing(f)
  <2>1. f.op # "disconnect" BY <1>1, <1>9 DEF ReadNothing, FrameShape
  <2>2. QED BY <1>6, <1>8, <1>9, <2>1 DEF ReadNothing
<1>10. CASE CallbackReturns(f)
  <2>1. f.op # "disconnect" BY <1>1, <1>10 DEF CallbackReturns, FrameShape
  <2>2. CASE f.out.t = "NO_PACKET" BY <1>8, <1>10, <2>1, <2>2 DEF CallbackReturns
  <2>3. CASE f.out.t # "NO_PACKET"
    <3> DEFINE g == [f EXCEPT !.pc = "ack"]
    <3>1. g \in FrameOk(delivered) BY <1>1, <2>1, FrameGoto
    <3> HIDE DEF g
    <3>2. stack' = <<g>> \o Tail(stack) /\ UNCHANGED <<conn, net, okPub>>
      BY <1>10, <2>3 DEF CallbackReturns, Goto, g
    <3>3. Stacked' BY <1>2, <1>3, <3>1, <3>2, Swapped
    <3>4. QED BY <1>2, <1>5, <3>2, <3>3
  <2>4. QED BY <2>2, <2>3
<1>11. CASE f.pc = "keepalive" /\ KeepAlive(f)
  <2>1. f.op = "loop" BY <1>1, <1>11 DEF FrameShape
  <2> DEFINE x == Pkt("PINGREQ", 0, 0)
             g == [f EXCEPT !.pc = "write", !.out = x]
  <2>2. CASE stack' = <<g>> /\ UNCHANGED <<conn, net, okPub>>
    <3>1. "PINGREQ" \in Types /\ 0 \in Ids BY ClientAssumption DEF Types, Ids
    <3>2. x \in TxOk(delivered) /\ x.t = "PINGREQ" BY <3>1, PktTx, PktType
    <3> HIDE DEF x
    <3>3. g \in FrameOk(delivered) BY <1>1, <2>1, <3>2, FrameOut
    <3> HIDE DEF g
    <3>4. stack' \in Seq(FrameOk(delivered)) /\ Len(stack') = 1 BY <2>2, <3>3
    <3>5. Stacked' BY <1>3, <3>4, ClientAssumption DEF Stacked
    <3>6. QED BY <1>2, <1>5, <2>2, <3>5
  <2>3. QED BY <1>6, <1>7, <1>11, <2>2 DEF KeepAlive
<1>12. CASE WriteFails(f) \/ ReadTruncated(f) BY <1>6, <1>12 DEF WriteFails, ReadTruncated
<1>13. QED BY <1>9, <1>10, <1>11, <1>12 DEF f

LEMMA StepTyped == ASSUME Base, Step \/ StepFails PROVE Typed'
BY WriteTyped, ReadTyped, OtherTyped DEF Step, StepFails

-----------------------------------------------------------------------------
(* The types are kept when a call begins, by the timers and by the broker. *)

LEMMA NextIdType == ASSUME Scalars PROVE NextId \in 1 .. MaxId /\ NextId \in Ids
BY ClientAssumption DEF Scalars, NextId, Ids

LEMMA CallFrame ==
  ASSUME NEW D, NEW op \in Ops, NEW out \in TxOk(D), NEW needle \in Types, NEW m \in Out \cup {NoMsg},
         op = "disconnect" => needle = "NO_PACKET", op = "loop" => needle = "NO_PACKET",
         op = "connect" => needle = "CONNACK", needle # "PUBLISH",
         m # NoMsg => needle \in {"PUBACK", "PUBCOMP"},
         out.t = "CONNECT" => op = "connect", out.t = "DISCONNECT" => op = "disconnect"
  PROVE  /\ Call(op, out, needle, m) \in FrameOk(D)
         /\ Call(op, out, needle, m).op = op /\ Call(op, out, needle, m).out = out
         /\ Call(op, out, needle, m).needle = needle /\ Call(op, out, needle, m).m = m
         /\ Call(op, out, needle, m).pc = "write"
<1> DEFINE g == Call(op, out, needle, m)
<1>1. out \in Packet /\ TxGood(out, D) BY DEF TxOk
<1>2. /\ g \in Frame /\ g.op = op /\ g.pc = "write" /\ g.out = out /\ g.needle = needle
      /\ g.left = 0 /\ g.m = m
  BY <1>1 DEF Call, Frame
<1> HIDE DEF g
<1>3. FrameShape(g) /\ LeftOk(g) BY <1>2 DEF FrameShape, LeftOk
<1>4. g \in FrameOk(D) BY <1>1, <1>2, <1>3 DEF FrameOk, Frames
<1>5. QED BY <1>2, <1>4 DEF g

LEMMA BeginTyped ==
  ASSUME Base, NEW f \in FrameOk(delivered), Begin(f),
         lastId' \in 1 .. MaxId, nextDup' \in Ids
  PROVE  Typed'
<1>1. /\ MayCall /\ calls' = calls + 1 /\ stack' = <<f>> \o stack /\ cmdDue' = FALSE
      /\ UNCHANGED <<net, conn, pong, kaDue, rx, tx, okPub, delivered, alive>>
  BY DEF Begin
<1>2. calls' \in 0 .. MaxCalls BY <1>1, ClientAssumption DEF Base, Scalars, MayCall
<1>3. Scalars' BY <1>1, <1>2 DEF Base, Scalars
<1>4. stack \in Seq(FrameOk(delivered)) BY DEF Base, Stacked
<1>5. stack' \in Seq(FrameOk(delivered)) /\ Len(stack') = Len(stack) + 1 /\ Len(stack) \in Nat
  BY <1>1, <1>4, SeqPush
<1>6. Len(stack) < MaxDepth
  <2>1. Len(<<>>) = 0 OBVIOUS
  <2>2. QED BY <1>1, <2>1, ClientAssumption DEF MayCall
<1>7. Len(stack') <= MaxDepth BY <1>5, <1>6, ClientAssumption
<1>8. Stacked' BY <1>1, <1>5, <1>7 DEF Stacked
<1>9. Flowing' BY <1>1 DEF Base, Flowing
<1>10. QED BY <1>3, <1>8, <1>9 DEF Typed

\* The frames of the calls.
LEMMA CallFrames ==
  ASSUME Scalars
  PROVE  /\ Call("subscribe", Pkt("SUBSCRIBE", NextId, 0), "SUBACK", NoMsg) \in FrameOk(delivered)
         /\ Call("unsubscribe", Pkt("UNSUBSCRIBE", NextId, 0), "UNSUBACK", NoMsg)
              \in FrameOk(delivered)
         /\ Call("disconnect", Pkt("DISCONNECT", 0, 0), "NO_PACKET", NoMsg) \in FrameOk(delivered)
         /\ Call("connect", Pkt("CONNECT", 0, 0), "CONNACK", NoMsg) \in FrameOk(delivered)
         /\ Call("connect", Pkt("CONNECT", 0, 0), "CONNACK", NoMsg).op = "connect"
         /\ Call("connect", Pkt("CONNECT", 0, 0), "CONNACK", NoMsg).pc = "write"
         /\ Call("connect", Pkt("CONNECT", 0, 0), "CONNACK", NoMsg).out.t = "CONNECT"
         /\ Call("loop", NO_PACKET, "NO_PACKET", NoMsg) \in FrameOk(delivered)
         /\ Call("loop", NO_PACKET, "NO_PACKET", NoMsg).op = "loop"
<1>1. NextId \in Ids /\ 0 \in Ids BY NextIdType, ClientAssumption DEF Ids
<1>2. {"SUBSCRIBE", "UNSUBSCRIBE", "DISCONNECT", "CONNECT", "NO_PACKET", "SUBACK", "UNSUBACK",
       "CONNACK"} \subseteq Types
  BY DEF Types, Acks
<1>3. {"subscribe", "unsubscribe", "disconnect", "connect", "loop"} \subseteq Ops BY DEF Ops
<1>4. ASSUME NEW t \in {"SUBSCRIBE", "UNSUBSCRIBE", "DISCONNECT", "CONNECT", "NO_PACKET"},
             NEW id \in Ids
      PROVE  Pkt(t, id, 0) \in TxOk(delivered) /\ Pkt(t, id, 0).t = t
  BY <1>2, PktTx, PktType
<1>5. Call("subscribe", Pkt("SUBSCRIBE", NextId, 0), "SUBACK", NoMsg) \in FrameOk(delivered)
  <2> DEFINE x == Pkt("SUBSCRIBE", NextId, 0)
  <2>1. x \in TxOk(delivered) /\ x.t = "SUBSCRIBE" BY <1>1, <1>4
  <2> HIDE DEF x
  <2>2. Call("subscribe", x, "SUBACK", NoMsg) \in FrameOk(delivered) BY <1>2, <1>3, <2>1, CallFrame
  <2>3. QED BY <2>2 DEF x
<1>6. Call("unsubscribe", Pkt("UNSUBSCRIBE", NextId, 0), "UNSUBACK", NoMsg) \in FrameOk(delivered)
  <2> DEFINE x == Pkt("UNSUBSCRIBE", NextId, 0)
  <2>1. x \in TxOk(delivered) /\ x.t = "UNSUBSCRIBE" BY <1>1, <1>4
  <2> HIDE DEF x
  <2>2. Call("unsubscribe", x, "UNSUBACK", NoMsg) \in FrameOk(delivered)
    BY <1>2, <1>3, <2>1, CallFrame
  <2>3. QED BY <2>2 DEF x
<1>7. Call("disconnect", Pkt("DISCONNECT", 0, 0), "NO_PACKET", NoMsg) \in FrameOk(delivered)
  <2> DEFINE x == Pkt("DISCONNECT", 0, 0)
  <2>1. x \in TxOk(delivered) /\ x.t = "DISCONNECT" BY <1>1, <1>4
  <2> HIDE DEF x
  <2>2. Call("disconnect", x, "NO_PACKET", NoMsg) \in FrameOk(delivered)
    BY <1>2, <1>3, <2>1, CallFrame
  <2>3. QED BY <2>2 DEF x
<1>8. /\ Call("connect", Pkt("CONNECT", 0, 0), "CONNACK", NoMsg) \in FrameOk(delivered)
      /\ Call("connect", Pkt("CONNECT", 0, 0), "CONNACK", NoMsg).op = "connect"
      /\ Call("connect", Pkt("CONNECT", 0, 0), "CONNACK", NoMsg).pc = "write"
      /\ Call("connect", Pkt("CONNECT", 0, 0), "CONNACK", NoMsg).out.t = "CONNECT"
  <2> DEFINE x == Pkt("CONNECT", 0, 0)
  <2>1. x \in TxOk(delivered) /\ x.t = "CONNECT" BY <1>1, <1>4
  <2> HIDE DEF x
  <2>2. /\ Call("connect", x, "CONNACK", NoMsg) \in FrameOk(delivered)
        /\ Call("connect", x, "CONNACK", NoMsg).op = "connect"
        /\ Call("connect", x, "CONNACK", NoMsg).pc = "write"
        /\ Call("connect", x, "CONNACK", NoMsg).out = x
    BY <1>2, <1>3, <2>1, CallFrame
  <2>3. QED BY <2>1, <2>2 DEF x
<1>9. /\ Call("loop", NO_PACKET, "NO_PACKET", NoMsg) \in FrameOk(delivered)
      /\ Call("loop", NO_PACKET, "NO_PACKET", NoMsg).op = "loop"
  <2> DEFINE x == Pkt("NO_PACKET", 0, 0)
  <2>1. x \in TxOk(delivered) /\ x.t = "NO_PACKET" BY <1>1, <1>4
  <2> HIDE DEF x
  <2>2. /\ Call("loop", x, "NO_PACKET", NoMsg) \in FrameOk(delivered)
        /\ Call("loop", x, "NO_PACKET", NoMsg).op = "loop"
    BY <1>2, <1>3, <2>1, CallFrame
  <2>3. QED BY <2>2 DEF x, NO_PACKET
<1>10. QED BY <1>5, <1>6, <1>7, <1>8, <1>9

\* A PUBLISH of the client and the frame of its call.
PubPkt(m, id, qos) == [Pkt("PUBLISH", id, qos) EXCEPT !.m = m]

LEMMA PubPktType ==
  ASSUME NEW m \in Out, NEW id \in Ids, NEW qos \in {0, 1, 2}, NEW D
  PROVE  /\ PubPkt(m, id, qos) \in TxOk(D) /\ PubPkt(m, id, qos).t = "PUBLISH"
         /\ PubPkt(m, id, qos).m = m /\ PubPkt(m, id, qos).code = qos
<1>1. "PUBLISH" \in Types BY DEF Types
<1>2. /\ PubPkt(m, id, qos) \in Packet /\ PubPkt(m, id, qos).t = "PUBLISH"
      /\ PubPkt(m, id, qos).m = m /\ PubPkt(m, id, qos).code = qos
  BY <1>1 DEF PubPkt, Pkt, Packet
<1>3. QED BY <1>2 DEF TxOk, TxGood

LEMMA PublishFrame ==
  ASSUME Scalars, NEW m \in Out, NEW qos \in {0, 1, 2}, publish(m, qos)
  PROVE  \E f \in FrameOk(delivered) :
           /\ Begin(f) /\ f.op = "publish" /\ f.pc = "write"
           /\ f.out.t = "PUBLISH" /\ f.out.m = m /\ f.out.code = qos
           /\ f.needle = CASE qos = 0 -> "NO_PACKET" [] qos = 1 -> "PUBACK" [] qos = 2 -> "PUBCOMP"
           /\ f.m = (IF qos = 0 THEN NoMsg ELSE m)
           /\ lastId' \in 1 .. MaxId /\ nextDup' \in Ids
<1>1. NextId \in Ids /\ NextId \in 1 .. MaxId /\ 0 \in Ids /\ lastId \in 1 .. MaxId
  BY NextIdType, ClientAssumption DEF Ids, Scalars
<1>2. "publish" \in Ops /\ {"NO_PACKET", "PUBACK", "PUBCOMP"} \subseteq Types
  BY DEF Ops, Types, Acks
<1>3. CASE qos = 0
  <2> DEFINE x == PubPkt(m, 0, 0)
             f == Call("publish", x, "NO_PACKET", NoMsg)
  <2>1. x \in TxOk(delivered) /\ x.t = "PUBLISH" /\ x.m = m /\ x.code = 0 BY <1>1, PubPktType
  <2>2. Begin(f) /\ lastId' = lastId /\ nextDup' = 0 BY <1>3 DEF publish, PubPkt
  <2> HIDE DEF x
  <2>3. /\ f \in FrameOk(delivered) /\ f.op = "publish" /\ f.pc = "write" /\ f.out = x
        /\ f.needle = "NO_PACKET" /\ f.m = NoMsg
    BY <1>2, <2>1, CallFrame
  <2> HIDE DEF f
  <2>4. QED BY <1>1, <1>3, <2>1, <2>2, <2>3
<1>4. CASE qos # 0
  <2> DEFINE x == PubPkt(m, NextId, qos)
             n == IF qos = 1 THEN "PUBACK" ELSE "PUBCOMP"
             f == Call("publish", x, n, m)
  <2>1. x \in TxOk(delivered) /\ x.t = "PUBLISH" /\ x.m = m /\ x.code = qos BY <1>1, PubPktType
  <2>2. Begin(f) /\ lastId' = NextId /\ nextDup' = IF nextDup > 0 THEN NextId ELSE 0
    BY <1>4 DEF publish, PubPkt
  <2>3. n \in {"PUBACK", "PUBCOMP"} /\ n \in Types /\ m \in Out \cup {NoMsg} /\ m # NoMsg
    BY <1>2, ClientAssumption
  <2>4. n = CASE qos = 0 -> "NO_PACKET" [] qos = 1 -> "PUBACK" [] qos = 2 -> "PUBCOMP"
    BY <1>4
  <2> HIDE DEF x, n
  <2>5. /\ f \in FrameOk(delivered) /\ f.op = "publish" /\ f.pc = "write" /\ f.out = x
        /\ f.needle = n /\ f.m = m
    BY <1>2, <2>1, <2>3, CallFrame
  <2> HIDE DEF f
  <2>6. QED BY <1>1, <1>4, <2>1, <2>2, <2>4, <2>5
<1>5. QED BY <1>3, <1>4

\* The frame of loop().
LoopFrame == [Call("loop", NO_PACKET, "NO_PACKET", NoMsg) EXCEPT
                !.pc = IF rx = <<>> THEN "keepalive" ELSE "cycle", !.left = Len(rx)]

LEMMA LoopFrameType ==
  ASSUME Scalars, Flowing
  PROVE  /\ LoopFrame \in FrameOk(delivered) /\ LoopFrame.op = "loop" /\ LoopFrame.m = NoMsg
         /\ LoopFrame.needle = "NO_PACKET" /\ LoopFrame.left = Len(rx)
         /\ LoopFrame.pc = (IF rx = <<>> THEN "keepalive" ELSE "cycle")
         /\ LoopFrame.out.t = "NO_PACKET"
<1> DEFINE f == Call("loop", NO_PACKET, "NO_PACKET", NoMsg)
           c == IF rx = <<>> THEN "keepalive" ELSE "cycle"
           g == [f EXCEPT !.pc = c, !.left = Len(rx)]
<1>1. f \in FrameOk(delivered) /\ f.op = "loop" BY CallFrames
<1>2. f \in Frame /\ FrameShape(f) /\ TxGood(f.out, delivered) BY <1>1 DEF FrameOk, Frames
<1>3. f.m = NoMsg /\ f.needle = "NO_PACKET" /\ f.out = NO_PACKET BY DEF Call
<1>4. NO_PACKET.t = "NO_PACKET" BY DEF NO_PACKET, Pkt
<1> HIDE DEF f
<1>5. Len(rx) \in Nat /\ (rx # <<>> => Len(rx) > 0) BY SeqTail DEF Flowing
<1>6. c \in {"keepalive", "cycle"} /\ (c = "cycle" => Len(rx) > 0) BY <1>5
<1>7. /\ g \in Frame /\ g.op = f.op /\ g.pc = c /\ g.out = f.out /\ g.needle = f.needle
      /\ g.left = Len(rx) /\ g.m = f.m
  <2> HIDE DEF c
  <2>1. QED BY <1>2, <1>5, <1>6 DEF Frame
<1>8. LoopFrame = g BY DEF LoopFrame, f
<1> HIDE DEF g
<1>9. FrameShape(g) /\ LeftOk(g)
  <2> HIDE DEF c
  <2>1. QED BY <1>1, <1>2, <1>6, <1>7 DEF FrameShape, LeftOk
<1>10. g \in FrameOk(delivered) BY <1>2, <1>7, <1>9 DEF FrameOk, Frames
<1>11. QED BY <1>1, <1>3, <1>4, <1>7, <1>8, <1>10

LEMMA LoopSets == ASSUME loop PROVE stack = <<>> /\ connected /\ stack' = <<LoopFrame>>
BY DEF loop, LoopFrame

LEMMA CallsTyped ==
  ASSUME Base,
         \/ subscribe \/ unsubscribe \/ disconnect \/ prepareDuplicate \/ loop \/ connect
         \/ \E m \in Out, qos \in {0, 1, 2} : publish(m, qos)
         \/ CommandTimer \/ KeepAliveTimer
  PROVE  Typed'
<1>1. Scalars /\ Stacked /\ Flowing BY DEF Base
<1>2. NextId \in 1 .. MaxId /\ nextDup \in Ids /\ lastId \in 1 .. MaxId /\ lastId \in Ids
  BY <1>1, NextIdType, ClientAssumption DEF Scalars, Ids
<1>3. CASE subscribe BY <1>1, <1>2, <1>3, CallFrames, BeginTyped DEF subscribe
<1>4. CASE unsubscribe BY <1>1, <1>2, <1>4, CallFrames, BeginTyped DEF unsubscribe
<1>5. CASE disconnect BY <1>1, <1>2, <1>5, CallFrames, BeginTyped DEF disconnect
<1>6. CASE \E m \in Out, qos \in {0, 1, 2} : publish(m, qos)
  <2>1. PICK m \in Out, qos \in {0, 1, 2} : publish(m, qos) BY <1>6
  <2>2. PICK f \in FrameOk(delivered) :
          Begin(f) /\ lastId' \in 1 .. MaxId /\ nextDup' \in Ids
    BY <1>1, <2>1, PublishFrame
  <2>3. QED BY <2>2, BeginTyped
<1>7. CASE prepareDuplicate
  <2>1. /\ UNCHANGED <<net, conn, lastId, pong, kaDue, cmdDue, stack, rx, tx, okPub, delivered, alive>>
        /\ nextDup' \in Ids /\ calls' = calls + 1 /\ calls < MaxCalls
    BY <1>2, <1>7 DEF prepareDuplicate, timers, MayCall
  <2>2. calls' \in 0 .. MaxCalls BY <1>1, <2>1, ClientAssumption DEF Scalars
  <2>3. QED BY <1>1, <2>1, <2>2 DEF Typed, Scalars, Stacked, Flowing
<1>8. CASE loop
  <2>1. /\ UNCHANGED <<net, conn, lastId, pong, kaDue, nextDup, rx, tx, okPub, delivered, calls, alive>>
        /\ cmdDue' = FALSE /\ stack' = <<LoopFrame>>
    BY <1>8, LoopSets DEF loop
  <2>2. LoopFrame \in FrameOk(delivered) BY <1>1, LoopFrameType
  <2>3. <<LoopFrame>> \in Seq(FrameOk(delivered)) /\ Len(<<LoopFrame>>) = 1 BY <2>2
  <2>4. Stacked' BY <2>1, <2>3, ClientAssumption DEF Stacked
  <2>5. QED BY <1>1, <2>1, <2>4 DEF Typed, Scalars, Flowing
<1>9. CASE connect
  <2> DEFINE g == Call("connect", Pkt("CONNECT", 0, 0), "CONNACK", NoMsg)
  <2>1. g \in FrameOk(delivered) BY <1>1, CallFrames
  <2>2. stack = <<>> /\ (stack' = stack \/ stack' = <<g>>) BY <1>9 DEF connect
  <2> HIDE DEF g
  <2>3. <<g>> \in Seq(FrameOk(delivered)) /\ Len(<<g>>) = 1 BY <2>1
  <2>4. UNCHANGED <<lastId, nextDup, okPub, delivered, alive>> /\ rx' = <<>> /\ tx' = <<>>
        /\ calls' = calls + 1 /\ calls < MaxCalls
    BY <1>9 DEF connect
  <2>5. Stacked'
    <3>1. CASE stack' = stack BY <1>1, <2>4, <3>1 DEF Stacked
    <3>2. CASE stack' = <<g>> BY <2>3, <2>4, <3>2, ClientAssumption DEF Stacked
    <3>3. QED BY <2>2, <3>1, <3>2
  <2>6. Flowing'
    <3>1. rx' \in Seq(RxOk(delivered')) /\ tx' \in Seq(TxOk(delivered')) BY <2>4, EmptySeq
    <3>2. QED BY <3>1 DEF Flowing
  <2>7. calls' \in 0 .. MaxCalls BY <1>1, <2>4, ClientAssumption DEF Scalars
  <2>8. conn' \in BOOLEAN /\ net' \in BOOLEAN /\ pong' \in BOOLEAN /\ kaDue' \in BOOLEAN
        /\ cmdDue' \in BOOLEAN
    BY <1>1, <1>9 DEF connect, Scalars, timers
  <2>9. Scalars' BY <1>1, <2>4, <2>7, <2>8 DEF Scalars
  <2>10. QED BY <2>5, <2>6, <2>9 DEF Typed
<1>10. CASE CommandTimer \/ KeepAliveTimer
  BY <1>1, <1>10 DEF CommandTimer, KeepAliveTimer, Typed, Scalars, Stacked, Flowing
<1>11. QED BY <1>3, <1>4, <1>5, <1>6, <1>7, <1>8, <1>9, <1>10

\* What the broker answers to a packet.
Answered(p, D, t) ==
  \E x \in RxOk(D) : Answer(p) = <<x>> /\ x.t = t /\ (t # "PINGRESP" => x.id = p.id)

LEMMA AnswerType ==
  ASSUME NEW D, NEW p \in TxOk(D)
  PROVE  /\ p.t = "PUBLISH" /\ p.code = 1 => Answered(p, D, "PUBACK")
         /\ p.t = "PUBLISH" /\ p.code = 2 => Answered(p, D, "PUBREC")
         /\ p.t = "PUBREL" => Answered(p, D, "PUBCOMP")
         /\ p.t = "PUBREC" => Answered(p, D, "PUBREL")
         /\ p.t = "UNSUBSCRIBE" => Answered(p, D, "UNSUBACK")
         /\ p.t = "PINGREQ" => Answered(p, D, "PINGRESP")
         /\ \/ p.t \in {"PUBREL", "PUBREC", "UNSUBSCRIBE", "PINGREQ"}
            \/ p.t = "PUBLISH" /\ p.code \in {1, 2}
            \/ Answer(p) = <<>>
<1>1. p \in Packet /\ p.id \in Ids /\ 0 \in Ids /\ TxGood(p, D)
  BY PacketFields, ClientAssumption DEF TxOk, Ids
<1>2. {"PUBACK", "PUBREC", "PUBCOMP", "PUBREL", "UNSUBACK", "PINGRESP"} \subseteq Types
  BY DEF Types, Acks
<1>3. ASSUME NEW t \in {"PUBACK", "PUBREC", "PUBCOMP", "UNSUBACK", "PINGRESP", "PUBREL"},
             NEW i \in Ids, t = "PUBREL" => i \in D, t # "PINGRESP" => i = p.id,
             Answer(p) = <<Pkt(t, i, 0)>>
      PROVE  Answered(p, D, t)
  <2> DEFINE x == Pkt(t, i, 0)
  <2>1. x \in RxOk(D) /\ x.t = t /\ x.id = i BY <1>2, <1>3, PktRx, PktType
  <2>2. Answer(p) = <<x>> BY <1>3
  <2> HIDE DEF x
  <2>3. QED BY <1>3, <2>1, <2>2 DEF Answered
<1>4. ASSUME p.t = "PUBLISH", p.code = 1 PROVE Answered(p, D, "PUBACK")
  <2>1. Answer(p) = <<Pkt("PUBACK", p.id, 0)>> BY <1>4 DEF Answer, Ack
  <2>2. QED BY <1>1, <1>3, <2>1
<1>5. ASSUME p.t = "PUBLISH", p.code = 2 PROVE Answered(p, D, "PUBREC")
  <2>1. Answer(p) = <<Pkt("PUBREC", p.id, 0)>> BY <1>5 DEF Answer, Ack
  <2>2. QED BY <1>1, <1>3, <2>1
<1>6. ASSUME p.t = "PUBREL" PROVE Answered(p, D, "PUBCOMP")
  <2>1. Answer(p) = <<Pkt("PUBCOMP", p.id, 0)>> BY <1>6 DEF Answer, Ack
  <2>2. QED BY <1>1, <1>3, <2>1
<1>7. ASSUME p.t = "PUBREC" PROVE Answered(p, D, "PUBREL")
  <2>1. Answer(p) = <<Pkt("PUBREL", p.id, 0)>> BY <1>7 DEF Answer, Ack
  <2>2. p.id \in D BY <1>1, <1>7 DEF TxGood
  <2>3. QED BY <1>1, <1>3, <2>1, <2>2
<1>8. ASSUME p.t = "UNSUBSCRIBE" PROVE Answered(p, D, "UNSUBACK")
  <2>1. Answer(p) = <<Pkt("UNSUBACK", p.id, 0)>> BY <1>8 DEF Answer, Ack
  <2>2. QED BY <1>1, <1>3, <2>1
<1>9. ASSUME p.t = "PINGREQ" PROVE Answered(p, D, "PINGRESP")
  <2>1. Answer(p) = <<Pkt("PINGRESP", 0, 0)>> BY <1>9 DEF Answer
  <2>2. QED BY <1>1, <1>3, <2>1
<1>10. ASSUME ~(p.t = "PUBLISH" /\ p.code = 1), ~(p.t = "PUBLISH" /\ p.code = 2),
              p.t # "PUBREL", p.t # "PUBREC", p.t # "UNSUBSCRIBE", p.t # "PINGREQ"
       PROVE  Answer(p) = <<>>
  BY <1>10 DEF Answer
<1>11. QED BY <1>4, <1>5, <1>6, <1>7, <1>8, <1>9, <1>10

LEMMA ReplyType ==
  ASSUME Flowing, NEW q \in Seq(RxOk(delivered)), Reply(q)
  PROVE  rx' \in Seq(RxOk(delivered))
BY SeqCat DEF Flowing, Reply

LEMMA AnswerSeq ==
  ASSUME NEW D, NEW p \in TxOk(D) PROVE Answer(p) \in Seq(RxOk(D))
<1>1. ASSUME NEW t, Answered(p, D, t) PROVE Answer(p) \in Seq(RxOk(D))
  <2>1. PICK x \in RxOk(D) : Answer(p) = <<x>> BY <1>1 DEF Answered
  <2>2. QED BY <2>1
<1>2. CASE Answer(p) = <<>> BY <1>2, EmptySeq
<1>3. QED BY <1>1, <1>2, AnswerType

LEMMA BrokerBase == ASSUME Base, Broker \/ NetBreak \/ BrokerVanishes PROVE Base'
<1>1. Scalars /\ Stacked /\ Flowing /\ BrokerOk BY DEF Base
<1>2. /\ UNCHANGED <<conn, lastId, pong, kaDue, cmdDue, nextDup, stack, okPub, delivered, calls>>
      /\ net' \in BOOLEAN /\ alive' \in BOOLEAN
  BY <1>1 DEF Broker, BrokerReceive, BrokerConnect, BrokerPublish, NetBreak, BrokerVanishes,
              timers, Scalars
<1>3. Scalars' /\ Stacked' BY <1>1, <1>2 DEF Scalars, Stacked
<1>4. rx \in Seq(RxOk(delivered)) /\ tx \in Seq(TxOk(delivered)) BY <1>1 DEF Flowing
<1>5. CASE BrokerReceive
  <2> DEFINE p == Head(tx)
  <2>1. tx # <<>> /\ tx' = Tail(tx) /\ sent' = sent BY <1>5 DEF BrokerReceive
  <2>2. p \in TxOk(delivered) /\ tx' \in Seq(TxOk(delivered)) BY <1>4, <2>1, SeqTail
  <2> HIDE DEF p
  <2>3. p \in Packet /\ TxGood(p, delivered) /\ p.id \in Ids /\ p.t \in Types
    BY <2>2, PacketFields DEF TxOk
  <2>4. /\ \/ p.t # "SUBSCRIBE" /\ Reply(Answer(p))
           \/ p.t = "SUBSCRIBE" /\ \E c \in {0, 128} : Reply(<<Pkt("SUBACK", p.id, c)>>)
        /\ got' = got \cup (IF p.t = "PUBLISH" /\ p.code < 2 THEN {p.m} ELSE {})
                      \cup (IF p.t = "PUBREL" THEN {i.m : i \in {j \in inflight : j.id = p.id}}
                                              ELSE {})
        /\ inflight' =
             IF p.t = "PUBLISH" /\ p.code = 2
               THEN {i \in inflight : i.id # p.id} \cup {[id |-> p.id, m |-> p.m]}
               ELSE IF p.t = "PUBREL" THEN {i \in inflight : i.id # p.id} ELSE inflight
        /\ done' = done \cup (IF p.t \in {"PUBACK", "PUBCOMP"} THEN {p.id} \cap sent ELSE {})
        /\ accepted' = (p.t # "DISCONNECT")
    BY <1>5 DEF BrokerReceive, p
  <2>5. rx' \in Seq(RxOk(delivered))
    <3>1. CASE Reply(Answer(p)) BY <1>1, <2>2, <3>1, AnswerSeq, ReplyType
    <3>2. CASE \E c \in {0, 128} : Reply(<<Pkt("SUBACK", p.id, c)>>)
      <4>1. PICK c \in {0, 128} : Reply(<<Pkt("SUBACK", p.id, c)>>) BY <3>2
      <4> DEFINE x == Pkt("SUBACK", p.id, c)
      <4>2. "SUBACK" \in Types BY DEF Types, Acks
      <4>3. x \in RxOk(delivered) BY <2>3, <4>2, PktRx
      <4> HIDE DEF x
      <4>4. <<x>> \in Seq(RxOk(delivered)) BY <4>3
      <4>5. Reply(<<x>>) BY <4>1 DEF x
      <4>6. QED BY <1>1, <4>4, <4>5, ReplyType
    <3>3. QED BY <2>4, <3>1, <3>2
  <2>6. Flowing' BY <1>2, <2>2, <2>5 DEF Flowing
  <2>7. BrokerOk'
    <3>1. accepted' \in BOOLEAN BY <2>4
    <3>2. got' \subseteq Out
      <4>1. p.t = "PUBLISH" => p.m \in Out BY <2>3 DEF TxGood
      <4>2. \A i \in inflight : i.m \in Out BY <1>1 DEF BrokerOk
      <4>3. QED BY <1>1, <2>4, <4>1, <4>2 DEF BrokerOk
    <3>3. inflight' \subseteq [id : Ids, m : Out]
      <4>1. p.t = "PUBLISH" => [id |-> p.id, m |-> p.m] \in [id : Ids, m : Out]
        BY <2>3 DEF TxGood
      <4>2. QED BY <1>1, <2>4, <4>1 DEF BrokerOk
    <3>4. done' \subseteq In /\ done' \subseteq delivered
      <4>1. p.t \in {"PUBACK", "PUBCOMP"} => p.id \in delivered BY <2>3 DEF TxGood
      <4>2. QED BY <1>1, <2>4, <4>1 DEF BrokerOk
    <3>5. QED BY <1>1, <1>2, <2>1, <3>1, <3>2, <3>3, <3>4 DEF BrokerOk
  <2>8. QED BY <1>3, <2>6, <2>7 DEF Base
<1>6. CASE BrokerConnect
  <2>1. PICK c \in {0, 5} : Reply(<<Pkt("CONNACK", 0, c)>>) /\ accepted' = (c = 0)
    BY <1>6 DEF BrokerConnect
  <2> DEFINE x == Pkt("CONNACK", 0, c)
  <2>2. "CONNACK" \in Types /\ 0 \in Ids BY ClientAssumption DEF Types, Ids
  <2>3. x \in RxOk(delivered) BY <2>2, PktRx
  <2>4. Reply(<<x>>) BY <2>1
  <2> HIDE DEF x
  <2>5. <<x>> \in Seq(RxOk(delivered)) BY <2>3
  <2>6. rx' \in Seq(RxOk(delivered)) BY <1>1, <2>4, <2>5, ReplyType
  <2>7. tx' \in Seq(TxOk(delivered)) BY <1>4, <1>6, SeqTail DEF BrokerConnect
  <2>8. Flowing' BY <1>2, <2>6, <2>7 DEF Flowing
  <2>9. BrokerOk' BY <1>1, <1>2, <1>6, <2>1 DEF BrokerConnect, BrokerOk
  <2>10. QED BY <1>3, <2>8, <2>9 DEF Base
<1>7. CASE \E m \in In, qos \in {0, 1, 2} : BrokerPublish(m, qos)
  <2>1. PICK m \in In, qos \in {0, 1, 2} : BrokerPublish(m, qos) BY <1>7
  <2> DEFINE x == [t |-> "PUBLISH", id |-> m, m |-> m, code |-> qos, dup |-> FALSE]
  <2>2. m \in Ids BY ClientAssumption DEF Ids
  <2>3. "PUBLISH" \in Types BY DEF Types
  <2>4. x \in Packet /\ x.t = "PUBLISH" /\ x.m = m /\ x.id = m BY <2>2, <2>3 DEF Packet
  <2>5. rx' = Append(rx, x) /\ tx' = tx /\ sent' = sent \cup {m}
        /\ UNCHANGED <<accepted, got, inflight, done>>
    BY <2>1 DEF BrokerPublish
  <2> HIDE DEF x
  <2>6. x \in RxOk(delivered) BY <2>4 DEF RxOk, RxGood
  <2>7. rx' \in Seq(RxOk(delivered)) BY <1>4, <2>5, <2>6, SeqAppend
  <2>8. Flowing' BY <1>2, <1>4, <2>5, <2>7 DEF Flowing
  <2>9. BrokerOk' BY <1>1, <1>2, <2>5 DEF BrokerOk
  <2>10. QED BY <1>3, <2>8, <2>9 DEF Base
<1>8. CASE NetBreak \/ BrokerVanishes
  <2>1. rx' = rx /\ tx' = <<>> /\ accepted' = FALSE /\ UNCHANGED <<got, inflight, sent, done>>
    BY <1>8 DEF NetBreak, BrokerVanishes
  <2>2. Flowing' BY <1>2, <1>4, <2>1, EmptySeq DEF Flowing
  <2>3. BrokerOk' BY <1>1, <1>2, <2>1 DEF BrokerOk
  <2>4. QED BY <1>3, <2>2, <2>3 DEF Base
<1>9. QED BY <1>5, <1>6, <1>7, <1>8 DEF Broker

LEMMA DeliveredGrows ==
  ASSUME Next PROVE delivered \subseteq delivered'
<1>1. CASE Step
  BY <1>1 DEF Step, Write, ReadPacket, ReadNothing, CallbackReturns, Handle, Deliver
<1>2. CASE ~Step
  BY <1>2 DEF Next, Reconnect, connect, Client, subscribe, unsubscribe, disconnect, Begin,
       prepareDuplicate, publish, loop, StepFails, WriteFails, ReadTruncated, CommandTimer,
       KeepAliveTimer, Broker, BrokerReceive, BrokerConnect, BrokerPublish, NetBreak, BrokerVanishes
<1>3. QED BY <1>1, <1>2

LEMMA BaseStep == Base /\ [Next]_vars => Base'
<1> SUFFICES ASSUME Base, [Next]_vars PROVE Base' OBVIOUS
<1>1. CASE Reconnect \/ Client
  <2>1. Typed' BY <1>1, CallsTyped, StepTyped DEF Reconnect, Client
  <2>2. delivered \subseteq delivered' BY <1>1, DeliveredGrows DEF Next
  <2>3. BrokerOk' BY <1>1, <2>2 DEF Base, BrokerOk, Reconnect, Client, brokerVars
  <2>4. QED BY <2>1, <2>3 DEF Base, Typed
<1>2. CASE Broker \/ NetBreak \/ BrokerVanishes BY <1>2, BrokerBase
<1>3. CASE UNCHANGED vars
  BY <1>3 DEF vars, clientVars, brokerVars, Base, Scalars, Stacked, Flowing, BrokerOk
<1>4. QED BY <1>1, <1>2, <1>3 DEF Next

LEMMA BaseInit == Init => Base
<1> SUFFICES ASSUME Init PROVE Base OBVIOUS
<1>1. Scalars
  <2>1. 1 \in 1 .. MaxId /\ 0 \in 0 .. MaxId /\ 0 \in 0 .. MaxCalls BY ClientAssumption
  <2>2. QED BY <2>1 DEF Init, ClientInit, Scalars, Ids
<1>2. Flowing BY EmptySeq DEF Init, ClientInit, Flowing
<1>3. Stacked
  <2>1. stack = <<>> /\ Len(<<>>) = 0 BY DEF Init, ClientInit
  <2>2. QED BY <2>1, EmptySeq, ClientAssumption DEF Stacked
<1>4. BrokerOk BY DEF Init, BrokerOk
<1>5. QED BY <1>1, <1>2, <1>3, <1>4 DEF Base

LEMMA BaseAlways == Spec => []Base
BY BaseInit, BaseStep, PTL DEF Spec

\* Packets, calls and ids keep their types, and loop() never counts below zero the
\* packets it saw available.
THEOREM SessionTypeCorrect == Spec => []TypeOK
<1>1. ASSUME Base PROVE TypeOK
  <2>1. FrameOk(delivered) \subseteq Frame BY DEF FrameOk, Frames
  <2>2. stack \in Seq(Frame) /\ Len(stack) <= MaxDepth
    BY <1>1, <2>1, SeqMono DEF Base, Stacked
  <2>3. RxOk(delivered) \subseteq Packet /\ TxOk(delivered) \subseteq Packet BY DEF RxOk, TxOk
  <2>4. rx \in Seq(Packet) /\ tx \in Seq(Packet) BY <1>1, <2>3, SeqMono DEF Base, Flowing
  <2>5. ClientTypeOK BY <1>1, <2>2, <2>4 DEF Base, Scalars, ClientTypeOK
  <2>6. QED BY <1>1, <2>5 DEF Base, BrokerOk, TypeOK
<1>2. QED BY <1>1, BaseAlways, PTL

\* What the broker will not send again was handed to the sketch's callback, however
\* deep calls nest and wherever they fail.
THEOREM AcknowledgedDelivered == Spec => []AckedWasDelivered
<1>1. Base => AckedWasDelivered BY DEF Base, BrokerOk, AckedWasDelivered
<1>2. QED BY <1>1, BaseAlways, PTL

-----------------------------------------------------------------------------
(* The connection. *)

InConnect == Len(stack) = 1 /\ Top.op = "connect"

\* The handshake of connect(): the CONNECT is on its way, or its answer is the first
\* packet to be read, and nothing else has been sent.
Handshake ==
  /\ Top.pc \in {"write", "cycle"} /\ Top.out.t = "CONNECT"
  /\ \/ /\ rx = <<>> /\ ~accepted
        /\ \/ tx = <<>>
           \/ Top.pc = "cycle" /\ net /\ tx = <<Top.out>>
     \/ /\ Top.pc = "cycle" /\ rx # <<>> /\ tx = <<>> /\ Head(rx).t = "CONNACK"
        /\ Head(rx).code = 0 /\ net => accepted \/ ~alive

\* Outside of connect() no CONNECT is under way, a DISCONNECT only after close(), and
\* connected() means what it says.
Others == {f \in Frame : f.op # "connect"}
Without(t) == {p \in Packet : p.t # t}
Session ==
  /\ InConnect => Handshake
  /\ ~InConnect => stack \in Seq(Others)
  /\ ~InConnect /\ (net \/ stack # <<>>) => tx \in Seq(Without("CONNECT"))
  /\ ~InConnect /\ net => tx \in Seq(Without("DISCONNECT"))
  /\ ~InConnect /\ net /\ conn => accepted \/ ~alive

At(f, c) == [f EXCEPT !.pc = c]
AtOut(f, c, x) == [f EXCEPT !.pc = c, !.out = x]

LEMMA EditFrame ==
  ASSUME NEW f \in Frame, NEW c \in {"write", "cycle", "callback", "ack", "keepalive"}
  PROVE  /\ At(f, c) \in Frame /\ At(f, c).op = f.op /\ At(f, c).pc = c /\ At(f, c).left = f.left
         /\ At(f, c).out = f.out /\ At(f, c).m = f.m /\ At(f, c).needle = f.needle
BY DEF Frame, At

LEMMA EditOut ==
  ASSUME NEW f \in Frame, NEW c, c = "write" \/ c = "callback" \/ c = "ack", NEW x \in Packet
  PROVE  /\ AtOut(f, c, x) \in Frame /\ AtOut(f, c, x).op = f.op /\ AtOut(f, c, x).pc = c
         /\ AtOut(f, c, x).out = x /\ AtOut(f, c, x).m = f.m /\ AtOut(f, c, x).needle = f.needle
BY DEF Frame, AtOut

\* A loop() that is about to keep the connection alive has read all that it saw, unless
\* its time is over or an oversized message, dropped, looked like the end.
Rested(g) == g.pc = "keepalive" => cmdDue' \/ DropOverflow \/ g.left = 0

\* What a step of the innermost call does to the stack.
Moved ==
  \/ stack' = Tail(stack)
  \/ \E g \in Frame : g.op = Top.op /\ Rested(g) /\ stack' = <<g>> \o Tail(stack)
  \/ Top.op = "loop" /\ \E g \in Frame : g.op = "loop" /\ g.pc = "write" /\ stack' = <<g>>

LEMMA EndsMoved ==
  ASSUME Base, stack # <<>>, NEW f \in Frame, f.op = Top.op, NEW p, Ends(f, p),
         cmdDue' = cmdDue, f.op = "loop" => p.t # f.needle \/ cmdDue \/ DropOverflow
  PROVE  Moved /\ (net' => net) /\ (f.op # "connect" => (conn' => conn))
<1>1. ASSUME NEW c \in {"keepalive", "cycle"}, Replaced([f EXCEPT !.pc = c]),
             c = "keepalive" => cmdDue \/ DropOverflow \/ f.left = 0
      PROVE  Moved /\ net' = net /\ conn' = conn
  <2> DEFINE g == At(f, c)
  <2>1. g \in Frame /\ g.op = Top.op /\ g.pc = c /\ g.left = f.left BY EditFrame
  <2>2. stack' = <<g>> \o Tail(stack) /\ net' = net /\ conn' = conn BY <1>1 DEF Replaced, At
  <2> HIDE DEF g
  <2>3. QED BY <1>1, <2>1, <2>2 DEF Moved, Rested
<1>2. CASE Fail(f) BY <1>2 DEF Fail, close, Moved
<1>3. CASE /\ p.t = f.needle /\ f.op = "connect" /\ p.code = 0
           /\ stack' = Tail(stack) /\ conn' = TRUE /\ UNCHANGED <<net, okPub>>
  BY <1>3 DEF Moved
<1>4. CASE Return(f) BY <1>4 DEF Return, Moved
<1>5. QED BY <1>1, <1>2, <1>3, <1>4 DEF Ends

LEMMA StepMoves ==
  ASSUME Base, Step \/ StepFails
  PROVE  /\ stack # <<>> /\ Moved /\ (net' => net) /\ (Top.op # "connect" => (conn' => conn))
         /\ \/ tx' = tx
            \/ tx' = Append(tx, Top.out) /\ (Top.op = "disconnect" => ~net')
<1> DEFINE f == Top
<1>1. stack # <<>> BY DEF Step, StepFails
<1>2. f \in FrameOk(delivered) /\ f \in Frame /\ FrameShape(f) /\ f.out \in Packet
  BY <1>1, TopFacts DEF Base, TxOk
<1> HIDE DEF f
<1>3. ASSUME NEW g \in Frame, g.op = f.op, NEW p, CycleUntil(g, p), cmdDue' = cmdDue,
             g.op = "loop" => p.t # g.needle \/ cmdDue \/ DropOverflow
      PROVE  Moved /\ (net' => net) /\ (f.op # "connect" => (conn' => conn))
  BY <1>1, <1>3, CycleEnds, EndsMoved DEF f
<1>4. ASSUME NEW g, Fail(g)
      PROVE  Moved /\ ~net' /\ (net' => net) /\ (f.op # "connect" => (conn' => conn))
  BY <1>4 DEF Fail, close, Moved
<1>5. ASSUME NEW g, Return(g)
      PROVE  Moved /\ (net' => net) /\ (f.op # "connect" => (conn' => conn))
  BY <1>5 DEF Return, Moved
<1>6. ASSUME NEW c \in {"cycle", "ack"}, Goto(f, c), UNCHANGED <<conn, net, okPub>>
      PROVE  Moved /\ (net' => net) /\ (f.op # "connect" => (conn' => conn))
  <2> DEFINE g == At(f, c)
  <2>1. g \in Frame /\ g.op = f.op /\ g.pc = c BY <1>2, EditFrame
  <2>2. stack' = <<g>> \o Tail(stack) BY <1>6 DEF Goto, At
  <2> HIDE DEF g
  <2>3. QED BY <1>6, <2>1, <2>2 DEF Moved, Rested, f
<1>14. NoNeedle.t # f.needle BY <1>2 DEF FrameShape, NoNeedle, Pkt
<1>7. CASE Write(f)
  <2>1. /\ cmdDue' = cmdDue
        /\ tx' = IF alive THEN Append(tx, f.out) ELSE tx
        /\ \/ f.pc = "ack" /\ CycleUntil(f, NoNeedle)
           \/ f.pc = "write" /\ f.needle = "NO_PACKET" /\ f.op # "disconnect" /\ Return(f)
           \/ f.op = "disconnect" /\ Fail(f)
           \/ /\ f.pc = "write" /\ f.needle # "NO_PACKET"
              /\ Goto(f, "cycle") /\ UNCHANGED <<conn, net, okPub>>
    BY <1>7 DEF Write
  <2>2. Moved /\ (net' => net) /\ (f.op # "connect" => (conn' => conn))
    BY <1>2, <1>3, <1>4, <1>5, <1>6, <1>14, <2>1
  <2>3. f.op = "disconnect" => ~net' BY <1>2, <1>4, <2>1 DEF FrameShape
  <2>4. QED BY <1>1, <2>1, <2>2, <2>3 DEF f
<1>8. CASE ReadPacket(f)
  <2> DEFINE g == Counted(f)
             p == Head(rx)
  <2>1. f.pc = "cycle" /\ tx' = tx /\ cmdDue' = cmdDue /\ Handle(g, p)
    BY <1>8 DEF ReadPacket, Counted, timers
  <2>2. g \in Frame /\ g.op = f.op /\ g.needle = f.needle BY <1>2, <2>1, CountedFrame DEF Frames
  <2> HIDE DEF g
  <2>3. ASSUME NEW c \in {"callback", "ack"}, NEW x \in Packet,
               stack' = <<[g EXCEPT !.pc = c, !.out = x]>> \o Tail(stack), UNCHANGED <<conn, net, okPub>>
        PROVE  Moved /\ (net' => net) /\ (f.op # "connect" => (conn' => conn))
    <3> DEFINE h == AtOut(g, c, x)
    <3>1. h \in Frame /\ h.op = f.op /\ h.pc = c
      <4>1. c = "callback" \/ c = "ack" OBVIOUS
      <4> HIDE DEF h
      <4>2. QED BY <2>2, <4>1, EditOut DEF h
    <3>2. stack' = <<h>> \o Tail(stack) BY <2>3 DEF AtOut
    <3> HIDE DEF h
    <3>3. QED BY <2>3, <3>1, <3>2 DEF Moved, Rested, f
  <2>4. p \in RxOk(delivered) BY <1>8, SeqTail DEF ReadPacket, Base, Flowing
  <2> HIDE DEF p
  <2>5. CASE p.t = "PUBLISH" /\ Deliver(g, p) /\ UNCHANGED <<conn, net, okPub>>
    <3>1. AckFor(p) \in Packet BY <2>4, <2>5, AckTypes DEF TxOk
    <3>2. QED BY <1>1, <2>1, <2>3, <2>5, <3>1 DEF Deliver, f
  <2>6. CASE /\ p.t \in {"PUBREC", "PUBREL"}
             /\ stack' = <<[g EXCEPT !.pc = "ack", !.out =
                              Ack(IF p.t = "PUBREC" THEN "PUBREL" ELSE "PUBCOMP", p.id)]>>
                         \o Tail(stack)
             /\ UNCHANGED <<conn, net, okPub>>
    <3>1. Ack(IF p.t = "PUBREC" THEN "PUBREL" ELSE "PUBCOMP", p.id) \in Packet
      BY <2>4, <2>6, AckTypes DEF TxOk
    <3>2. QED BY <1>1, <2>1, <2>3, <2>6, <3>1 DEF f
  <2>7. CASE CycleUntil(g, p) \/ (CycleUntil(g, NO_PACKET) /\ DropOverflow) \/ Fail(g)
    <3>1. g.op = "loop" => p.t # g.needle BY <1>2, <2>2, <2>4 DEF FrameShape, RxOk, RxGood
    <3>2. QED BY <1>1, <1>3, <1>4, <2>1, <2>2, <2>7, <3>1 DEF f
  <2>8. QED BY <2>1, <2>5, <2>6, <2>7 DEF Handle
<1>9. CASE ReadNothing(f) BY <1>1, <1>2, <1>3, <1>4, <1>9 DEF ReadNothing, timers, f
<1>10. CASE CallbackReturns(f) BY <1>1, <1>2, <1>3, <1>6, <1>10, <1>14 DEF CallbackReturns, timers, f
<1>11. CASE f.pc = "keepalive" /\ KeepAlive(f) /\ tx' = tx
  <2> DEFINE x == Pkt("PINGREQ", 0, 0)
             g == AtOut(f, "write", x)
  <2>1. CASE stack' = <<g>> /\ UNCHANGED <<conn, net, okPub>>
    <3>1. "PINGREQ" \in Types /\ 0 \in Ids BY ClientAssumption DEF Types, Ids
    <3>2. x \in Packet BY <3>1, PktType
    <3> HIDE DEF x
    <3>3. g \in Frame /\ g.op = f.op /\ g.pc = "write" /\ f.op = "loop"
      BY <1>2, <1>11, <3>2, EditOut DEF FrameShape
    <3> HIDE DEF g
    <3>4. QED BY <1>1, <1>11, <2>1, <3>3 DEF Moved, f
  <2>2. QED BY <1>1, <1>4, <1>5, <1>11, <2>1 DEF KeepAlive, AtOut, f
<1>12. CASE WriteFails(f) \/ ReadTruncated(f) BY <1>1, <1>4, <1>12 DEF WriteFails, ReadTruncated, f
<1>13. QED BY <1>7, <1>8, <1>9, <1>10, <1>11, <1>12 DEF Step, StepFails, f

LEMMA OthersFirst == ASSUME NEW s \in Seq(Others), Len(s) = 1 PROVE s[1].op # "connect"
<1>1. s[1] \in Others OBVIOUS
<1>2. QED BY <1>1 DEF Others

\* Session for the calls other than connect().
LEMMA SessionOf ==
  ASSUME stack' \in Seq(Others),
         (net \/ stack # <<>>)' => tx' \in Seq(Without("CONNECT")),
         net' => tx' \in Seq(Without("DISCONNECT")),
         net' /\ conn' => (accepted \/ ~alive)'
  PROVE  Session'
<1>1. ~InConnect' BY OthersFirst DEF InConnect, Top
<1>2. QED BY <1>1 DEF Session

\* Nothing is left of a connection that close() has ended.
LEMMA SessionClosed == ASSUME stack' = <<>>, ~net' PROVE Session'
<1>1. stack' \in Seq(Others) BY EmptySeq
<1>2. QED BY <1>1, SessionOf

LEMMA SessionStep ==
  ASSUME Base, Session, ~InConnect, Step \/ StepFails, UNCHANGED accepted
  PROVE  Session'
<1>1. /\ stack # <<>> /\ Moved /\ (net' => net) /\ (Top.op # "connect" => (conn' => conn))
      /\ \/ tx' = tx
         \/ tx' = Append(tx, Top.out) /\ (Top.op = "disconnect" => ~net')
  BY StepMoves
<1>2. alive' = alive BY DEF Step, StepFails
<1>3. stack \in Seq(Others) /\ tx \in Seq(Without("CONNECT"))
      /\ (net => tx \in Seq(Without("DISCONNECT"))) /\ (net /\ conn => accepted \/ ~alive)
  BY <1>1 DEF Session
<1>4. Top.op # "connect" /\ Tail(stack) \in Seq(Others)
  <2>1. Top \in Others /\ Tail(stack) \in Seq(Others) BY <1>1, <1>3, SeqTail DEF Top
  <2>2. QED BY <2>1 DEF Others
<1>5. stack' \in Seq(Others)
  <2>1. ASSUME NEW g \in Frame, g.op # "connect", NEW s \in Seq(Others), stack' = <<g>> \o s
        PROVE  stack' \in Seq(Others)
    <3>1. g \in Others BY <2>1 DEF Others
    <3>2. QED BY <2>1, <3>1, SeqPush
  <2>2. ASSUME NEW g \in Frame, g.op = "loop", stack' = <<g>> PROVE stack' \in Seq(Others)
    <3>1. g \in Others BY <2>2 DEF Others
    <3>2. QED BY <2>2, <3>1
  <2>3. QED BY <1>1, <1>4, <2>1, <2>2 DEF Moved
<1>6. Top.out \in Without("CONNECT") /\ (Top.op # "disconnect" => Top.out \in Without("DISCONNECT"))
  BY <1>1, <1>4, TopFacts DEF Base, TxOk, FrameShape, Without
<1>7. tx' \in Seq(Without("CONNECT")) BY <1>1, <1>3, <1>6, SeqAppend
<1>8. net' => tx' \in Seq(Without("DISCONNECT")) BY <1>1, <1>3, <1>6, SeqAppend
<1>9. net' /\ conn' => (accepted \/ ~alive)' BY <1>1, <1>2, <1>3, <1>4
<1>10. QED BY <1>5, <1>7, <1>8, <1>9, SessionOf

LEMMA SingleTail ==
  ASSUME NEW S, NEW s \in Seq(S), Len(s) = 1 PROVE Tail(s) = <<>> /\ s = <<s[1]>> /\ s # <<>>
<1>1. s # <<>> OBVIOUS
<1> DEFINE t == Tail(s)
<1>2. Len(t) = 0 /\ t \in Seq(S) BY <1>1, SeqTail
<1> HIDE DEF t
<1>3. t = <<>> BY <1>2
<1>4. s = <<s[1]>> OBVIOUS
<1>5. QED BY <1>1, <1>3, <1>4 DEF t

LEMMA HandshakeStep ==
  ASSUME Base, Session, InConnect, Step \/ StepFails, UNCHANGED accepted
  PROVE  Session'
<1> DEFINE f == Top
           p == Head(rx)
<1>1. /\ Handshake /\ Len(stack) = 1 /\ f.op = "connect" BY DEF Session, InConnect
<1>2. stack # <<>> /\ Tail(stack) = <<>> BY <1>1, SingleTail DEF Base, Stacked
<1>3. /\ f \in FrameOk(delivered) /\ f \in Frame /\ f.needle = "CONNACK" /\ f.out \in Packet
      /\ f.out.t = "CONNECT" /\ f.pc \in {"write", "cycle"}
  BY <1>1, <1>2, TopFacts DEF Base, TxOk, FrameShape, Handshake
<1>4. UNCHANGED <<alive, accepted>> BY DEF Step, StepFails
<1> HIDE DEF f
<1>5. ASSUME NEW g, Fail(g) PROVE Session' BY <1>2, <1>5, SessionClosed DEF Fail, close
<1>6. CASE Write(f)
  <2> DEFINE g == At(f, "cycle")
  <2>1. f.pc = "write" /\ f.needle # "NO_PACKET" /\ net BY <1>3, <1>6 DEF Write
  <2>2. rx = <<>> /\ ~accepted /\ tx = <<>> BY <1>1, <2>1 DEF Handshake, f
  <2>3. Goto(f, "cycle") /\ net' = net /\ rx' = rx BY <1>1, <1>6, <2>1 DEF Write
  <2>4. g \in Frame /\ g.op = "connect" /\ g.pc = "cycle" /\ g.out = f.out BY <1>1, <1>3, EditFrame
  <2>5. stack' = <<g>> \o <<>> BY <1>2, <2>3 DEF Goto, At
  <2> HIDE DEF g
  <2>6. stack' = <<g>> /\ Len(<<g>>) = 1 /\ <<g>>[1] = g BY <2>5
  <2>7. tx' = <<>> \/ tx' = <<f.out>> BY <1>6, <2>2 DEF Write
  <2>8. Handshake' BY <1>3, <1>4, <2>1, <2>2, <2>3, <2>4, <2>6, <2>7 DEF Handshake, Top
  <2>9. InConnect' BY <2>4, <2>6 DEF InConnect, Top
  <2>10. QED BY <2>8, <2>9 DEF Session
<1>7. CASE ReadPacket(f)
  <2> DEFINE g == Counted(f)
  <2>1. rx # <<>> /\ Handle(g, p) /\ tx' = tx BY <1>7 DEF ReadPacket, Counted
  <2>2. g.op = "connect" /\ g.needle = "CONNACK" BY <1>1, <1>3, <1>7, CountedFrame DEF ReadPacket
  <2> HIDE DEF g
  <2>3. tx = <<>> /\ p.t = "CONNACK" /\ (p.code = 0 /\ net => accepted \/ ~alive)
    BY <1>1, <2>1 DEF Handshake
  <2>4. p.m \notin Large
    <3>1. p \in RxOk(delivered) BY <2>1, SeqTail DEF Base, Flowing
    <3>2. QED BY <2>3, <3>1, ClientAssumption DEF RxOk, RxGood
  <2>5. CycleUntil(g, p) BY <2>1, <2>3, <2>4 DEF Handle
  <2>6. \/ p.code = 0 /\ stack' = Tail(stack) /\ conn' = TRUE /\ UNCHANGED <<net, okPub>>
        \/ Fail(g)
    BY <2>2, <2>3, <2>5 DEF CycleUntil, Found
  <2>7. CASE p.code = 0 /\ stack' = Tail(stack) /\ conn' = TRUE /\ UNCHANGED <<net, okPub>>
    <3>1. stack' \in Seq(Others) /\ tx' \in Seq(Without("CONNECT")) /\ tx' \in Seq(Without("DISCONNECT"))
      BY <1>2, <2>1, <2>3, <2>7, EmptySeq
    <3>2. net' => accepted \/ ~alive BY <2>3, <2>7
    <3>3. QED BY <1>4, <3>1, <3>2, SessionOf
  <2>8. QED BY <1>5, <2>6, <2>7
<1>8. CASE ReadNothing(f)
  <2>1. NO_PACKET.t # "CONNACK" BY DEF NO_PACKET, Pkt
  <2>2. cmdDue /\ CycleUntil(f, NO_PACKET) => Fail(f)
    BY <1>1, <1>3, <2>1 DEF CycleUntil, NotFound
  <2>3. QED BY <1>5, <1>8, <2>2 DEF ReadNothing
<1>9. CASE WriteFails(f) \/ ReadTruncated(f) BY <1>5, <1>9 DEF WriteFails, ReadTruncated
<1>10. QED BY <1>3, <1>6, <1>7, <1>8, <1>9 DEF Step, StepFails, CallbackReturns, f

\* The call that Begin starts, and none of the others, depends on who calls.
Begun(f) ==
  /\ f \in FrameOk(delivered) /\ f.pc = "write" /\ f.op \notin {"connect", "loop"}
  /\ f.m # NoMsg => f.op = "publish"
  /\ f.op # "publish" => f.out.t \notin {"PUBLISH", "PUBREL"} /\ f.needle \notin {"PUBACK", "PUBCOMP"}
  /\ f.out.t # "CONNECT"
  /\ Begin(f)

LEMMA Begins ==
  ASSUME Base, \/ subscribe \/ unsubscribe \/ disconnect
  PROVE  \E f \in Frame : Begun(f) /\ f.op # "publish"
<1>1. NextId \in Ids /\ 0 \in Ids /\ Scalars BY NextIdType, ClientAssumption DEF Base, Ids
<1>2. ASSUME NEW op \in {"subscribe", "unsubscribe", "disconnect"},
             NEW t \in {"SUBSCRIBE", "UNSUBSCRIBE", "DISCONNECT"}, NEW id \in Ids,
             NEW n \in {"SUBACK", "UNSUBACK", "NO_PACKET"}, Begin(Call(op, Pkt(t, id, 0), n, NoMsg)),
             Call(op, Pkt(t, id, 0), n, NoMsg) \in FrameOk(delivered)
      PROVE  \E f \in Frame : Begun(f) /\ f.op # "publish"
  <2> DEFINE f == Call(op, Pkt(t, id, 0), n, NoMsg)
  <2>1. Pkt(t, id, 0).t = t BY DEF Pkt
  <2>2. f.op = op /\ f.pc = "write" /\ f.m = NoMsg /\ f.needle = n /\ f.out = Pkt(t, id, 0) BY DEF Call
  <2>3. f \in FrameOk(delivered) /\ f \in Frame /\ Begin(f) BY <1>2 DEF FrameOk, Frames
  <2> HIDE DEF f
  <2>4. QED BY <2>1, <2>2, <2>3 DEF Begun
<1>3. CASE subscribe BY <1>1, <1>2, <1>3, CallFrames DEF subscribe
<1>4. CASE unsubscribe BY <1>1, <1>2, <1>4, CallFrames DEF unsubscribe
<1>5. CASE disconnect BY <1>1, <1>2, <1>5, CallFrames DEF disconnect
<1>6. QED BY <1>3, <1>4, <1>5

LEMMA PublishBegins ==
  ASSUME Base, NEW m \in Out, NEW qos \in {0, 1, 2}, publish(m, qos)
  PROVE  \E f \in Frame :
           /\ Begun(f) /\ f.op = "publish"
           /\ f.out.t = "PUBLISH" /\ f.out.m = m /\ f.out.code = qos
           /\ f.needle = CASE qos = 0 -> "NO_PACKET" [] qos = 1 -> "PUBACK" [] qos = 2 -> "PUBCOMP"
           /\ f.m = (IF qos = 0 THEN NoMsg ELSE m)
BY PublishFrame DEF Base, Begun, FrameOk, Frames

LEMMA SessionBegins ==
  ASSUME Base, Session, NEW f \in Frame, Begun(f), UNCHANGED brokerVars
  PROVE  Session'
<1>1. /\ MayCall /\ net /\ conn /\ stack' = <<f>> \o stack
      /\ UNCHANGED <<net, conn, tx, alive, accepted>>
  BY DEF Begun, Begin, connected, brokerVars
<1>2. ~InConnect
  <2>1. Len(<<>>) = 0 OBVIOUS
  <2>2. QED BY <1>1, <2>1 DEF MayCall, Session, InConnect, Handshake
<1>3. f \in Others BY DEF Begun, Others
<1>4. stack' \in Seq(Others) BY <1>1, <1>2, <1>3, SeqPush DEF Session
<1>5. QED BY <1>1, <1>2, <1>4, SessionOf DEF Session

LEMMA SessionReceives == ASSUME Base, Session, Broker \/ NetBreak \/ BrokerVanishes PROVE Session'
<1>1. stack' = stack /\ conn' = conn /\ (net' => net) /\ (InConnect' <=> InConnect)
  <2>1. CASE BrokerReceive \/ BrokerConnect
    BY <2>1 DEF BrokerReceive, BrokerConnect, InConnect, Top
  <2>2. CASE \E m \in In, qos \in {0, 1, 2} : BrokerPublish(m, qos)
    BY <2>2 DEF BrokerPublish, InConnect, Top
  <2>3. CASE NetBreak \/ BrokerVanishes
    BY <2>3 DEF NetBreak, BrokerVanishes, InConnect, Top
  <2>4. QED BY <2>1, <2>2, <2>3 DEF Broker
<1>2. \A S : tx \in Seq(S) /\ tx # <<>> => Head(tx) \in S /\ Tail(tx) \in Seq(S) BY SeqTail
<1>3. CASE BrokerReceive
  <2>1. /\ alive /\ tx # <<>> /\ accepted /\ accepted' = (Head(tx).t # "DISCONNECT")
        /\ tx' = Tail(tx) /\ net' = net
    BY <1>3 DEF BrokerReceive
  <2>2. ~InConnect BY <2>1 DEF Session, Handshake
  <2>3. ASSUME net PROVE accepted'
    <3>1. Head(tx) \in Without("DISCONNECT") BY <1>2, <2>1, <2>2, <2>3 DEF Session
    <3>2. QED BY <2>1, <3>1 DEF Without
  <2>4. stack' \in Seq(Others) BY <1>1, <2>2 DEF Session
  <2>5. net \/ stack # <<>> => tx' \in Seq(Without("CONNECT"))
    BY <1>2, <2>1, <2>2 DEF Session
  <2>6. net => tx' \in Seq(Without("DISCONNECT")) BY <1>2, <2>1, <2>2 DEF Session
  <2>7. QED BY <1>1, <2>1, <2>3, <2>4, <2>5, <2>6, SessionOf
<1>4. CASE BrokerConnect
  <2>1. /\ alive /\ tx # <<>> /\ Head(tx).t = "CONNECT" /\ tx' = Tail(tx) /\ net' = net
    BY <1>4 DEF BrokerConnect
  <2>2. CASE InConnect
    <3>1. Handshake BY <2>2 DEF Session
    <3>2. rx = <<>> /\ Top.pc = "cycle" /\ net /\ tx = <<Top.out>> /\ Top.out.t = "CONNECT"
      BY <2>1, <3>1 DEF Handshake
    <3>3. PICK c \in {0, 5} : Reply(<<Pkt("CONNACK", 0, c)>>) /\ accepted' = (c = 0)
      BY <1>4 DEF BrokerConnect
    <3> DEFINE x == Pkt("CONNACK", 0, c)
    <3>4. x.t = "CONNACK" /\ x.code = c BY DEF Pkt
    <3>5. rx' = <<>> \o <<x>> BY <3>2, <3>3 DEF Reply
    <3> HIDE DEF x
    <3>6. rx' = <<x>> /\ rx' # <<>> /\ Head(rx') = x BY <3>5
    <3>7. tx' = <<>> BY <2>1, <3>2
    <3>8. Handshake' BY <1>1, <3>2, <3>3, <3>4, <3>6, <3>7 DEF Handshake, Top
    <3>9. QED BY <1>1, <2>2, <3>8 DEF Session
  <2>3. CASE ~InConnect
    <3>1. ASSUME net \/ stack # <<>> PROVE FALSE
      <4>1. Head(tx) \in Without("CONNECT") BY <1>2, <2>1, <2>3, <3>1 DEF Session
      <4>2. QED BY <2>1, <4>1 DEF Without
    <3>2. stack' \in Seq(Others) BY <1>1, <2>3 DEF Session
    <3>3. QED BY <1>1, <2>1, <3>1, <3>2, SessionOf
  <2>4. QED BY <2>2, <2>3
<1>5. CASE \E m \in In, qos \in {0, 1, 2} : BrokerPublish(m, qos)
  <2>1. PICK m \in In, qos \in {0, 1, 2} : BrokerPublish(m, qos) BY <1>5
  <2> DEFINE x == [t |-> "PUBLISH", id |-> m, m |-> m, code |-> qos, dup |-> FALSE]
  <2>2. alive /\ accepted /\ rx' = Append(rx, x) /\ UNCHANGED <<tx, net, accepted, alive>>
    BY <2>1 DEF BrokerPublish
  <2> HIDE DEF x
  <2>3. CASE InConnect
    <3>1. Handshake BY <2>3 DEF Session
    <3>2. rx # <<>> BY <2>2, <3>1 DEF Handshake
    <3>3. rx \in Seq(RxOk(delivered)) BY DEF Base, Flowing
    <3>4. Append(rx, x) # <<>> /\ Head(Append(rx, x)) = Head(rx) BY <3>2, <3>3
    <3>5. Handshake' BY <1>1, <2>2, <3>1, <3>2, <3>4 DEF Handshake, Top
    <3>6. QED BY <1>1, <2>3, <3>5 DEF Session
  <2>4. CASE ~InConnect BY <1>1, <2>2, <2>4 DEF Session
  <2>5. QED BY <2>3, <2>4
<1>6. CASE NetBreak \/ BrokerVanishes
  <2>1. tx' = <<>> /\ rx' = rx /\ accepted' = FALSE /\ (~net' \/ ~alive')
    BY <1>6 DEF NetBreak, BrokerVanishes
  <2>2. \A S : tx' \in Seq(S) BY <2>1, EmptySeq
  <2>3. CASE InConnect
    <3>1. Handshake BY <2>3 DEF Session
    <3>2. Handshake' BY <1>1, <2>1, <3>1 DEF Handshake, Top
    <3>3. QED BY <1>1, <2>3, <3>2 DEF Session
  <2>4. CASE ~InConnect BY <1>1, <2>1, <2>2, <2>4 DEF Session
  <2>5. QED BY <2>3, <2>4
<1>7. QED BY <1>3, <1>4, <1>5, <1>6 DEF Broker

LEMMA SessionNext == Base /\ Session /\ [Next]_vars => Session'
<1> SUFFICES ASSUME Base, Session, [Next]_vars PROVE Session' OBVIOUS
<1>1. CASE Reconnect
  <2> DEFINE g == Call("connect", Pkt("CONNECT", 0, 0), "CONNACK", NoMsg)
  <2>1. connect /\ stack = <<>> /\ accepted' = FALSE /\ rx' = <<>> /\ tx' = <<>>
    BY <1>1 DEF Reconnect, connect
  <2>2. g.op = "connect" /\ g.pc = "write" /\ g.out.t = "CONNECT" BY CallFrames DEF Base
  <2>3. (stack' = <<g>> /\ net') \/ (stack' = <<>> /\ ~net') BY <2>1 DEF connect
  <2> HIDE DEF g
  <2>4. CASE stack' = <<g>>
    <3>1. Len(<<g>>) = 1 /\ <<g>>[1] = g OBVIOUS
    <3>2. InConnect' BY <2>2, <2>4, <3>1 DEF InConnect, Top
    <3>3. Handshake' BY <2>1, <2>2, <2>4, <3>1 DEF Handshake, Top
    <3>4. QED BY <3>2, <3>3 DEF Session
  <2>5. QED BY <2>3, <2>4, SessionClosed
<1>2. CASE Client /\ (Step \/ StepFails)
  <2>1. UNCHANGED accepted BY <1>2 DEF Client, brokerVars
  <2>2. QED BY <1>2, <2>1, SessionStep, HandshakeStep
<1>3. CASE Client /\ (subscribe \/ unsubscribe \/ disconnect)
  BY <1>3, Begins, SessionBegins DEF Client
<1>4. CASE Client /\ \E m \in Out, qos \in {0, 1, 2} : publish(m, qos)
  <2>1. PICK m \in Out, qos \in {0, 1, 2} : publish(m, qos) BY <1>4
  <2>2. PICK f \in Frame : Begun(f) BY <2>1, PublishBegins
  <2>3. QED BY <1>4, <2>2, SessionBegins DEF Client
<1>5. CASE Client /\ loop
  <2>1. stack = <<>> /\ net /\ stack' = <<LoopFrame>> /\ UNCHANGED <<net, conn, tx, alive, accepted>>
    BY <1>5, LoopSets DEF loop, connected, Client, brokerVars
  <2>2. LoopFrame \in Others BY LoopFrameType DEF Base, FrameOk, Frames, Others
  <2>3. stack' \in Seq(Others) BY <2>1, <2>2
  <2>4. ~InConnect
    <3>1. Len(<<>>) = 0 OBVIOUS
    <3>2. QED BY <2>1, <3>1 DEF InConnect
  <2>5. QED BY <2>1, <2>3, <2>4, SessionOf DEF Session
<1>6. CASE \/ Client /\ (prepareDuplicate \/ CommandTimer \/ KeepAliveTimer)
           \/ UNCHANGED vars
  <2>1. UNCHANGED <<net, conn, stack, rx, tx, alive, accepted>>
    BY <1>6 DEF Client, brokerVars, prepareDuplicate, CommandTimer, KeepAliveTimer, vars, clientVars
  <2>2. QED BY <2>1 DEF Session, InConnect, Handshake, Top
<1>7. CASE Broker \/ NetBreak \/ BrokerVanishes BY <1>7, SessionReceives
<1>8. QED BY <1>1, <1>2, <1>3, <1>4, <1>5, <1>6, <1>7 DEF Next, Client

LEMMA SessionAlways == Spec => [](Base /\ Session)
<1>1. Init => Session
  <2> SUFFICES ASSUME Init PROVE Session OBVIOUS
  <2>1. stack = <<>> /\ net = FALSE /\ Len(<<>>) = 0 BY DEF Init, ClientInit
  <2>2. ~InConnect BY <2>1 DEF InConnect
  <2>3. QED BY <2>1, <2>2, EmptySeq DEF Session
<1>2. QED BY <1>1, BaseInit, BaseStep, SessionNext, PTL DEF Spec

\* Between calls connected() means that the broker accepted a CONNECT on this very TCP
\* connection or has gone, however deep callbacks nest: a _connected left behind by a
\* lost connection is cleared or confirmed before the network client is connected again.
THEOREM ConnectedIsAccepted == Spec => []ConnectedMeansAccepted
<1>1. Base /\ Session => ConnectedMeansAccepted
  <2> SUFFICES ASSUME Session, stack = <<>>, connected PROVE accepted \/ ~alive
    BY DEF ConnectedMeansAccepted
  <2>1. Len(<<>>) = 0 OBVIOUS
  <2>2. ~InConnect BY <2>1 DEF InConnect
  <2>3. QED BY <2>2 DEF Session, connected
<1>2. QED BY <1>1, SessionAlways, PTL

-----------------------------------------------------------------------------
(* Keep alive. *)

\* A call that is interrupted is in its callback; loop() has read all that it saw when
\* it comes to keep the connection alive in time.
Waiting == {f \in Frame : f.pc = "callback"}
Yielded ==
  stack # <<>> =>
    /\ Tail(stack) \in Seq(Waiting)
    /\ Top.pc = "keepalive" /\ ~cmdDue => Top.left = 0

LEMMA YieldedPush ==
  ASSUME NEW g \in Frame, NEW s \in Seq(Waiting), stack' = <<g>> \o s,
         g.pc = "keepalive" /\ ~cmdDue' => g.left = 0
  PROVE  Yielded'
<1>1. Waiting \subseteq Frame BY DEF Waiting
<1>2. s \in Seq(Frame) BY <1>1, SeqMono
<1>3. Tail(stack') = s /\ stack'[1] = g BY <1>2, SeqPush
<1>4. QED BY <1>3 DEF Yielded, Top

LEMMA YieldedOne ==
  ASSUME NEW g \in Frame, stack' = <<g>>, g.pc = "keepalive" /\ ~cmdDue' => g.left = 0
  PROVE  Yielded'
<1>1. <<g>> \o <<>> = <<g>> /\ <<>> \in Seq(Waiting) BY EmptySeq
<1>2. QED BY <1>1, YieldedPush

LEMMA SeqCons ==
  ASSUME NEW S, NEW T, S \subseteq T, NEW s \in Seq(T), s # <<>>, s[1] \in S, Tail(s) \in Seq(S)
  PROVE  s \in Seq(S)
<1>1. s = <<s[1]>> \o Tail(s)
  <2> DEFINE q == <<s[1]>> \o Tail(s)
             t == Tail(s)
  <2>1. t \in Seq(T) /\ Len(t) = Len(s) - 1 /\ Len(s) \in Nat /\ Len(s) > 0 BY SeqTail
  <2>2. <<s[1]>> \in Seq(T) /\ Len(<<s[1]>>) = 1 /\ <<s[1]>>[1] = s[1] OBVIOUS
  <2>3. \A i \in 1 .. Len(t) : t[i] = s[i + 1] BY <2>1
  <2> HIDE DEF t
  <2>4. /\ q \in Seq(T) /\ Len(q) = 1 + Len(t)
        /\ \A i \in 1 .. Len(q) : q[i] = IF i <= 1 THEN <<s[1]>>[i] ELSE t[i - 1]
    BY <2>1, <2>2, ConcatProperties DEF t
  <2> HIDE DEF q
  <2>5. \A i \in 1 .. Len(s) : s[i] = q[i]
    <3> SUFFICES ASSUME NEW i \in 1 .. Len(s) PROVE s[i] = q[i] OBVIOUS
    <3>1. i \in 1 .. Len(q) BY <2>1, <2>4
    <3>2. CASE i = 1 BY <2>2, <2>4, <3>1, <3>2
    <3>3. CASE i # 1
      <4> DEFINE k == i - 1
      <4>1. k \in 1 .. Len(t) /\ k + 1 = i /\ ~(i <= 1) BY <2>1, <3>3
      <4>2. q[i] = t[k] BY <2>4, <3>1, <4>1
      <4>3. t[k] = s[k + 1] BY <2>3, <4>1
      <4>4. QED BY <4>1, <4>2, <4>3
    <3>4. QED BY <3>2, <3>3
  <2>6. Len(s) = Len(q) BY <2>1, <2>4
  <2>7. s = q BY <2>4, <2>5, <2>6, SeqEqual
  <2>8. QED BY <2>7 DEF q
<1>2. <<s[1]>> \o Tail(s) \in Seq(S) BY SeqPush
<1>3. QED BY <1>1, <1>2

LEMMA YieldedNext ==
  ASSUME ~DropOverflow PROVE Base /\ Yielded /\ [Next]_vars => Yielded'
<1> SUFFICES ASSUME Base, Yielded, [Next]_vars PROVE Yielded' OBVIOUS
<1>1. CASE Reconnect
  <2> DEFINE g == Call("connect", Pkt("CONNECT", 0, 0), "CONNACK", NoMsg)
  <2>1. g \in Frame /\ g.pc = "write" BY CallFrames DEF Base, FrameOk, Frames
  <2>2. stack' = <<g>> \/ stack' = <<>> BY <1>1 DEF Reconnect, connect
  <2> HIDE DEF g
  <2>3. CASE stack' = <<g>> BY <2>1, <2>3, YieldedOne
  <2>4. CASE stack' = <<>> BY <2>4 DEF Yielded
  <2>5. QED BY <2>2, <2>3, <2>4
<1>2. CASE Step \/ StepFails
  <2>1. stack # <<>> /\ Moved BY <1>2, StepMoves
  <2>2. Tail(stack) \in Seq(Waiting) BY <2>1 DEF Yielded
  <2>3. CASE stack' = Tail(stack)
    <3>1. ASSUME stack' # <<>> PROVE Tail(stack') \in Seq(Waiting) /\ stack'[1] \in Waiting
      BY <2>2, <2>3, <3>1, SeqTail
    <3>2. QED BY <3>1 DEF Yielded, Top, Waiting
  <2>4. CASE \E g \in Frame : g.op = Top.op /\ Rested(g) /\ stack' = <<g>> \o Tail(stack)
    BY <2>2, <2>4, YieldedPush DEF Rested
  <2>5. CASE \E g \in Frame : g.op = "loop" /\ g.pc = "write" /\ stack' = <<g>>
    BY <2>5, YieldedOne
  <2>6. QED BY <2>1, <2>3, <2>4, <2>5 DEF Moved
<1>3. ASSUME NEW f \in Frame, Begun(f) PROVE Yielded'
  <2>1. MayCall /\ stack' = <<f>> \o stack /\ f.pc = "write" BY <1>3 DEF Begun, Begin
  <2>2. stack \in Seq(Waiting)
    <3>1. CASE stack = <<>> BY <3>1, EmptySeq
    <3>2. CASE stack # <<>>
      <4>1. Tail(stack) \in Seq(Waiting) /\ stack[1].pc = "callback"
        BY <2>1, <3>2 DEF Yielded, MayCall, Top
      <4>2. FrameOk(delivered) \subseteq Frame BY DEF FrameOk, Frames
      <4>3. stack \in Seq(Frame) BY <4>2, SeqMono DEF Base, Stacked
      <4>4. stack[1] \in Waiting BY <3>2, <4>1, <4>3, SeqTail DEF Waiting
      <4>5. Waiting \subseteq Frame BY DEF Waiting
      <4>6. QED BY <3>2, <4>1, <4>3, <4>4, <4>5, SeqCons
    <3>3. QED BY <3>1, <3>2
  <2>3. QED BY <2>1, <2>2, YieldedPush
<1>4. CASE subscribe \/ unsubscribe \/ disconnect BY <1>3, <1>4, Begins
<1>5. CASE \E m \in Out, qos \in {0, 1, 2} : publish(m, qos) BY <1>3, <1>5, PublishBegins
<1>6. CASE loop
  <2>1. LoopFrame \in Frame /\ (LoopFrame.pc = "keepalive" => LoopFrame.left = 0)
    <3>1. Len(<<>>) = 0 OBVIOUS
    <3>2. QED BY <3>1, LoopFrameType DEF Base, FrameOk, Frames
  <2>2. QED BY <1>6, <2>1, LoopSets, YieldedOne
<1>7. CASE prepareDuplicate \/ CommandTimer \/ KeepAliveTimer \/ UNCHANGED vars
  <2>1. stack' = stack /\ (cmdDue => cmdDue')
    BY <1>7 DEF prepareDuplicate, CommandTimer, KeepAliveTimer, vars, clientVars, timers
  <2>2. QED BY <2>1 DEF Yielded, Top
<1>8. CASE Broker \/ NetBreak \/ BrokerVanishes
  <2>1. UNCHANGED <<stack, cmdDue>>
    BY <1>8 DEF Broker, BrokerReceive, BrokerConnect, BrokerPublish, NetBreak, BrokerVanishes, timers
  <2>2. QED BY <2>1 DEF Yielded, Top
<1>9. QED BY <1>1, <1>2, <1>4, <1>5, <1>6, <1>7, <1>8 DEF Next, Client

\* Unless oversized messages are dropped, loop() gives up with a pong timeout only if no
\* PINGRESP was among the packets it saw available, or reading them took all its time:
\* it reads every one of them before it looks at the pong it waits for, whatever calls
\* the callback makes in between.
THEOREM PongTimeoutIsJustified == ~DropOverflow => (Spec => []PongTimeoutJustified)
<1> SUFFICES ASSUME ~DropOverflow PROVE Spec => []PongTimeoutJustified OBVIOUS
<1>1. Init => Yielded BY DEF Init, ClientInit, Yielded
<1>2. Base /\ Yielded /\ [Next]_vars => Yielded' BY YieldedNext
<1>3. Base /\ Yielded => PongTimeoutJustified
  <2> SUFFICES ASSUME Yielded, stack # <<>>, Top.pc = "keepalive", ~cmdDue
               PROVE  \A i \in 1 .. Top.left : rx[i].t # "PINGRESP"
    BY DEF PongTimeoutJustified
  <2>1. Top.left = 0 BY DEF Yielded
  <2>2. QED BY <2>1
<1>4. QED BY <1>1, <1>2, <1>3, BaseInit, BaseStep, PTL DEF Spec

-----------------------------------------------------------------------------
(* The acknowledgement of a message: packet ids are never compared, but there is at  *)
(* most one exchange, which is about to be sent, on its way, or answered.            *)

None(s, K) == \A i \in 1 .. Len(s) : s[i] \notin K
Once(s, K) == \A i, j \in 1 .. Len(s) : s[i] \in K /\ s[j] \in K => i = j

\* The packets of the exchange for a message of the sketch.
Offers == {p \in Packet : p.t = "PUBREL" \/ (p.t = "PUBLISH" /\ p.code \in {1, 2})}
Answers == {p \in Packet : p.t \in {"PUBACK", "PUBREC", "PUBCOMP"}}

\* The broker has message M, or will when id is released.
Kept(id, M, G, I) == M \in G \/ [id |-> id, m |-> M] \in I

\* The packets that fit a call that waits for N, about message M, with a broker that has
\* the messages G and holds back I.
OfferFits(p, N, M, G, I) ==
  /\ p.t = "PUBLISH" /\ p.code = 1 => N = "PUBACK" /\ p.m = M
  /\ p.t = "PUBLISH" /\ p.code = 2 => N = "PUBCOMP" /\ p.m = M
  /\ p.t = "PUBREL" => N = "PUBCOMP" /\ Kept(p.id, M, G, I)
AnswerFits(p, N, M, G, I) ==
  /\ p.t = "PUBACK" => N = "PUBACK" /\ M \in G
  /\ p.t = "PUBREC" => N = "PUBCOMP" /\ Kept(p.id, M, G, I)
  /\ p.t = "PUBCOMP" => N = "PUBCOMP" /\ M \in G
TxFit(N, M, G, I) == {p \in Packet : OfferFits(p, N, M, G, I)}
RxFit(N, M, G, I) == {p \in Packet : AnswerFits(p, N, M, G, I)}

Quiet(tq, rq) == None(tq, Offers) /\ None(rq, Answers)
Exchange(tq, rq, N, M, G, I) ==
  /\ tq \in Seq(TxFit(N, M, G, I)) /\ rq \in Seq(RxFit(N, M, G, I))
  /\ Once(tq, Offers) /\ Once(rq, Answers)
  /\ None(tq, Offers) \/ None(rq, Answers)

\* What the innermost call waits for and, when it is about to send its part of the
\* exchange, that nothing else of it is under way.
Needle == IF stack = <<>> THEN "NO_PACKET" ELSE Top.needle
Msg == IF stack = <<>> THEN NoMsg ELSE Top.m
Offering == stack # <<>> /\ Top.pc \in {"write", "callback", "ack"} /\ Top.out \in Offers

Published ==
  /\ okPub \subseteq got
  /\ net \/ stack # <<>> =>
       /\ Exchange(tx, rx, Needle, Msg, got, inflight)
       /\ Offering => Quiet(tx, rx) /\ Top.out \in TxFit(Needle, Msg, got, inflight)

LEMMA NoneEmpty == ASSUME NEW K PROVE None(<<>>, K) /\ Once(<<>>, K)
BY DEF None, Once

LEMMA NoneTail ==
  ASSUME NEW S, NEW s \in Seq(S), s # <<>>, NEW K
  PROVE  /\ None(s, K) => None(Tail(s), K) /\ Head(s) \notin K
         /\ Once(s, K) => Once(Tail(s), K)
         /\ Once(s, K) /\ Head(s) \in K => None(Tail(s), K)
<1> DEFINE t == Tail(s)
<1>1. /\ Len(t) = Len(s) - 1 /\ Len(s) \in Nat /\ Len(s) > 0 /\ s[1] = Head(s)
  BY SeqTail
<1>2. \A i \in 1 .. Len(t) : t[i] = s[i + 1] BY <1>1
<1> HIDE DEF t
<1>3. \A i \in 1 .. Len(t) : i + 1 \in 1 .. Len(s) /\ i + 1 # 1 BY <1>1
<1>4. 1 \in 1 .. Len(s) BY <1>1
<1>5. None(s, K) => None(t, K) /\ Head(s) \notin K BY <1>1, <1>2, <1>3, <1>4 DEF None
<1>6. ASSUME Once(s, K) PROVE Once(t, K)
  <2> SUFFICES ASSUME NEW i \in 1 .. Len(t), NEW j \in 1 .. Len(t), t[i] \in K, t[j] \in K
               PROVE  i = j
    BY DEF Once
  <2>1. s[i + 1] \in K /\ s[j + 1] \in K BY <1>2
  <2>2. i + 1 = j + 1 BY <1>3, <1>6, <2>1 DEF Once
  <2>3. i \in Int /\ j \in Int OBVIOUS
  <2>4. QED BY <2>2, <2>3
<1>7. ASSUME Once(s, K), Head(s) \in K PROVE None(t, K)
  <2> SUFFICES ASSUME NEW i \in 1 .. Len(t), t[i] \in K PROVE FALSE BY DEF None
  <2>1. s[i + 1] \in K /\ s[1] \in K BY <1>1, <1>2, <1>7
  <2>2. QED BY <1>3, <1>4, <1>7, <2>1 DEF Once
<1>8. QED BY <1>5, <1>6, <1>7 DEF t

LEMMA NoneAppend ==
  ASSUME NEW S, NEW s \in Seq(S), NEW x, NEW K
  PROVE  /\ None(s, K) => Once(s, K)
         /\ None(s, K) /\ x \notin K => None(Append(s, x), K)
         /\ Once(s, K) /\ x \notin K => Once(Append(s, x), K)
         /\ None(s, K) => Once(Append(s, x), K)
<1> DEFINE t == Append(s, x)
           n == Len(s)
<1>1. n \in Nat /\ Len(t) = n + 1 /\ t[n + 1] = x /\ \A i \in 1 .. n : t[i] = s[i] OBVIOUS
<1> HIDE DEF t, n
<1>2. \A i \in 1 .. Len(t) : i = n + 1 \/ i \in 1 .. n BY <1>1
<1>3. None(s, K) => Once(s, K) BY DEF None, Once
<1>4. None(s, K) /\ x \notin K => None(t, K) BY <1>1, <1>2 DEF None, n
<1>5. \A i \in 1 .. Len(t) : t[i] = (IF i = n + 1 THEN x ELSE s[i]) BY <1>1, <1>2
<1>6. ASSUME Once(s, K), x \notin K PROVE Once(t, K)
  <2> SUFFICES ASSUME NEW i \in 1 .. Len(t), NEW j \in 1 .. Len(t), t[i] \in K, t[j] \in K
               PROVE  i = j
    BY DEF Once
  <2>1. i \in 1 .. n /\ j \in 1 .. n BY <1>1, <1>2, <1>6
  <2>2. s[i] \in K /\ s[j] \in K BY <1>1, <2>1
  <2>3. QED BY <1>6, <2>1, <2>2 DEF Once, n
<1>7. ASSUME None(s, K) PROVE Once(t, K)
  <2> SUFFICES ASSUME NEW i \in 1 .. Len(t), NEW j \in 1 .. Len(t), t[i] \in K, t[j] \in K
               PROVE  i = j
    BY DEF Once
  <2>1. i = n + 1 /\ j = n + 1 BY <1>1, <1>2, <1>7 DEF None, n
  <2>2. QED BY <2>1
<1>8. QED BY <1>3, <1>4, <1>6, <1>7 DEF t

LEMMA AppendIs == ASSUME NEW S, NEW s \in Seq(S), NEW x \in S PROVE s \o <<x>> = Append(s, x)
<1> DEFINE q == s \o <<x>>
           t == Append(s, x)
           n == Len(s)
<1>1. <<x>> \in Seq(S) /\ Len(<<x>>) = 1 /\ <<x>>[1] = x OBVIOUS
<1>2. /\ q \in Seq(S) /\ Len(q) = n + 1 /\ n \in Nat
      /\ \A i \in 1 .. Len(q) : q[i] = IF i <= n THEN s[i] ELSE <<x>>[i - n]
  BY <1>1, ConcatProperties
<1>3. t \in Seq(S) /\ Len(t) = n + 1 /\ t[n + 1] = x /\ \A i \in 1 .. n : t[i] = s[i] OBVIOUS
<1> HIDE DEF q, t, n
<1>4. \A i \in 1 .. Len(q) : q[i] = t[i]
  <2> SUFFICES ASSUME NEW i \in 1 .. Len(q) PROVE q[i] = t[i] OBVIOUS
  <2>1. CASE i <= n
    <3>1. i \in 1 .. n BY <1>2, <2>1
    <3>2. QED BY <1>2, <1>3, <2>1, <3>1
  <2>2. CASE ~(i <= n)
    <3>1. i = n + 1 /\ i - n = 1 BY <1>2, <2>2
    <3>2. QED BY <1>1, <1>2, <1>3, <2>2, <3>1
  <2>3. QED BY <2>1, <2>2
<1>5. q = t BY <1>2, <1>3, <1>4, SeqEqual
<1>6. QED BY <1>5 DEF q, t

\* A sequence without any packet of the exchange fits every call.
LEMMA QuietFits ==
  ASSUME NEW tq \in Seq(Packet), NEW rq \in Seq(Packet), Quiet(tq, rq),
         NEW N, NEW M, NEW G, NEW I
  PROVE  Exchange(tq, rq, N, M, G, I)
<1>1. ASSUME NEW i \in 1 .. Len(tq) PROVE tq[i] \in TxFit(N, M, G, I)
  <2>1. tq[i] \in Packet /\ tq[i] \notin Offers BY DEF Quiet, None
  <2>2. QED BY <2>1 DEF Offers, TxFit, OfferFits
<1>2. ASSUME NEW i \in 1 .. Len(rq) PROVE rq[i] \in RxFit(N, M, G, I)
  <2>1. rq[i] \in Packet /\ rq[i] \notin Answers BY DEF Quiet, None
  <2>2. QED BY <2>1 DEF Answers, RxFit, AnswerFits
<1>3. ASSUME NEW S, NEW s \in Seq(Packet), \A i \in 1 .. Len(s) : s[i] \in S PROVE s \in Seq(S)
  BY <1>3
<1>4. tq \in Seq(TxFit(N, M, G, I)) /\ rq \in Seq(RxFit(N, M, G, I)) BY <1>1, <1>2, <1>3
<1>5. QED BY <1>4, NoneAppend DEF Exchange, Quiet

\* A call that waits for no acknowledgement of a message has no exchange.
LEMMA IdleQuiet ==
  ASSUME NEW tq, NEW rq, NEW N, NEW M, NEW G, NEW I, Exchange(tq, rq, N, M, G, I),
         N \notin {"PUBACK", "PUBCOMP"}
  PROVE  Quiet(tq, rq)
<1>1. ASSUME NEW i \in 1 .. Len(tq) PROVE tq[i] \notin Offers
  <2>1. tq[i] \in TxFit(N, M, G, I) BY DEF Exchange
  <2>2. QED BY <2>1 DEF TxFit, OfferFits, Offers
<1>2. ASSUME NEW i \in 1 .. Len(rq) PROVE rq[i] \notin Answers
  <2>1. rq[i] \in RxFit(N, M, G, I) BY DEF Exchange
  <2>2. QED BY <2>1 DEF RxFit, AnswerFits, Answers
<1>3. QED BY <1>1, <1>2 DEF Quiet, None

LEMMA ExchangeRead ==
  ASSUME NEW tq, NEW rq, NEW N, NEW M, NEW G, NEW I, Exchange(tq, rq, N, M, G, I), rq # <<>>
  PROVE  /\ Exchange(tq, Tail(rq), N, M, G, I) /\ Head(rq) \in RxFit(N, M, G, I)
         /\ Head(rq) \in Answers => Quiet(tq, Tail(rq))
<1>1. rq \in Seq(RxFit(N, M, G, I)) BY DEF Exchange
<1>2. Head(rq) \in RxFit(N, M, G, I) /\ Tail(rq) \in Seq(RxFit(N, M, G, I)) BY <1>1, SeqTail
<1>3. /\ None(rq, Answers) => None(Tail(rq), Answers) /\ Head(rq) \notin Answers
      /\ Once(rq, Answers) => Once(Tail(rq), Answers)
      /\ Once(rq, Answers) /\ Head(rq) \in Answers => None(Tail(rq), Answers)
  BY <1>1, NoneTail
<1>4. QED BY <1>2, <1>3 DEF Exchange, Quiet

LEMMA ExchangeSend ==
  ASSUME NEW tq, NEW rq, NEW N, NEW M, NEW G, NEW I, Exchange(tq, rq, N, M, G, I),
         NEW x \in Packet,
         x \notin Offers \/ (Quiet(tq, rq) /\ x \in TxFit(N, M, G, I))
  PROVE  Exchange(Append(tq, x), rq, N, M, G, I)
<1>1. tq \in Seq(TxFit(N, M, G, I)) BY DEF Exchange
<1>2. x \in TxFit(N, M, G, I) BY DEF TxFit, OfferFits, Offers
<1>3. Append(tq, x) \in Seq(TxFit(N, M, G, I)) BY <1>1, <1>2, SeqAppend
<1>4. /\ None(tq, Offers) /\ x \notin Offers => None(Append(tq, x), Offers)
      /\ Once(tq, Offers) /\ x \notin Offers => Once(Append(tq, x), Offers)
      /\ None(tq, Offers) => Once(Append(tq, x), Offers)
  BY <1>1, NoneAppend
<1>5. QED BY <1>3, <1>4 DEF Exchange, Quiet

LEMMA ExchangeTaken ==
  ASSUME NEW tq, NEW rq, NEW N, NEW M, NEW G, NEW I, Exchange(tq, rq, N, M, G, I), tq # <<>>
  PROVE  /\ Exchange(Tail(tq), rq, N, M, G, I) /\ Head(tq) \in TxFit(N, M, G, I)
         /\ Head(tq) \in Offers => Quiet(Tail(tq), rq)
         /\ None(tq, Offers) => None(Tail(tq), Offers) /\ Head(tq) \notin Offers
<1>1. tq \in Seq(TxFit(N, M, G, I)) BY DEF Exchange
<1>2. Head(tq) \in TxFit(N, M, G, I) /\ Tail(tq) \in Seq(TxFit(N, M, G, I)) BY <1>1, SeqTail
<1>3. /\ None(tq, Offers) => None(Tail(tq), Offers) /\ Head(tq) \notin Offers
      /\ Once(tq, Offers) => Once(Tail(tq), Offers)
      /\ Once(tq, Offers) /\ Head(tq) \in Offers => None(Tail(tq), Offers)
  BY <1>1, NoneTail
<1>4. QED BY <1>2, <1>3 DEF Exchange, Quiet

LEMMA ExchangeReply ==
  ASSUME NEW tq, NEW rq \in Seq(Packet), NEW N, NEW M, NEW G, NEW I,
         Exchange(tq, rq, N, M, G, I), NEW x \in Packet,
         x \notin Answers \/ (Quiet(tq, rq) /\ x \in RxFit(N, M, G, I))
  PROVE  /\ Exchange(tq, Append(rq, x), N, M, G, I)
         /\ x \notin Answers /\ None(rq, Answers) => None(Append(rq, x), Answers)
         /\ rq \o <<x>> = Append(rq, x)
<1>1. rq \in Seq(RxFit(N, M, G, I)) BY DEF Exchange
<1>2. x \in RxFit(N, M, G, I) BY DEF RxFit, AnswerFits, Answers
<1>3. Append(rq, x) \in Seq(RxFit(N, M, G, I)) BY <1>1, <1>2, SeqAppend
<1>4. /\ None(rq, Answers) /\ x \notin Answers => None(Append(rq, x), Answers)
      /\ Once(rq, Answers) /\ x \notin Answers => Once(Append(rq, x), Answers)
      /\ None(rq, Answers) => Once(Append(rq, x), Answers)
  BY <1>1, NoneAppend
<1>5. rq \o <<x>> = Append(rq, x) BY AppendIs
<1>6. QED BY <1>3, <1>4, <1>5 DEF Exchange, Quiet

\* The broker takes over more.
LEMMA ExchangeGrows ==
  ASSUME NEW tq, NEW rq, NEW N, NEW M, NEW G, NEW I, Exchange(tq, rq, N, M, G, I),
         NEW H, G \subseteq H
  PROVE  Exchange(tq, rq, N, M, H, I) /\ TxFit(N, M, G, I) \subseteq TxFit(N, M, H, I)
<1>1. TxFit(N, M, G, I) \subseteq TxFit(N, M, H, I) /\ RxFit(N, M, G, I) \subseteq RxFit(N, M, H, I)
  BY DEF TxFit, RxFit, OfferFits, AnswerFits, Kept
<1>2. tq \in Seq(TxFit(N, M, H, I)) /\ rq \in Seq(RxFit(N, M, H, I)) BY <1>1, SeqMono DEF Exchange
<1>3. QED BY <1>1, <1>2 DEF Exchange

LEMMA PublishedClosed == ASSUME stack' = <<>>, ~net', okPub' \subseteq got' PROVE Published'
BY DEF Published

LEMMA PublishedEnd ==
  ASSUME stack' = <<>>, okPub' \subseteq got', tx' \in Seq(Packet), rx' \in Seq(Packet), Quiet(tx', rx')
  PROVE  Published'
<1>1. Exchange(tx', rx', "NO_PACKET", NoMsg, got', inflight') BY QuietFits
<1>2. Needle' = "NO_PACKET" /\ Msg' = NoMsg /\ ~Offering' BY DEF Needle, Msg, Offering
<1>3. QED BY <1>1, <1>2 DEF Published

LEMMA PublishedAt ==
  ASSUME NEW g, stack' = <<g>>, okPub' \subseteq got',
         Exchange(tx', rx', g.needle, g.m, got', inflight'),
         g.pc \in {"write", "callback", "ack"} /\ g.out \in Offers =>
           Quiet(tx', rx') /\ g.out \in TxFit(g.needle, g.m, got', inflight')
  PROVE  Published'
<1>1. <<g>>[1] = g /\ <<g>> # <<>> OBVIOUS
<1>2. Top' = g /\ stack' # <<>> BY <1>1 DEF Top
<1>3. Needle' = g.needle /\ Msg' = g.m BY <1>2 DEF Needle, Msg
<1>4. Offering' => g.pc \in {"write", "callback", "ack"} /\ g.out \in Offers BY <1>2 DEF Offering
<1>5. QED BY <1>2, <1>3, <1>4 DEF Published

LEMMA EndsPublished ==
  ASSUME Base, stack # <<>>, Tail(stack) = <<>>, NEW f \in Frame, NEW p, Ends(f, p),
         UNCHANGED <<got, inflight>>, okPub \subseteq got, tx' \in Seq(Packet), rx' \in Seq(Packet),
         Exchange(tx', rx', f.needle, f.m, got, inflight),
         p.t = f.needle => Quiet(tx', rx') /\ (f.m # NoMsg => f.m \in got)
  PROVE  Published'
<1>1. ASSUME NEW c \in {"keepalive", "cycle"}, Replaced([f EXCEPT !.pc = c]) PROVE Published'
  <2> DEFINE g == At(f, c)
  <2>1. g.pc = c /\ g.needle = f.needle /\ g.m = f.m BY EditFrame
  <2>2. stack' = <<g>> \o <<>> /\ okPub' = okPub BY <1>1 DEF Replaced, At
  <2> HIDE DEF g
  <2>3. stack' = <<g>> BY <2>2
  <2>4. QED BY <2>1, <2>2, <2>3, PublishedAt
<1>2. CASE Fail(f) BY <1>2, PublishedClosed DEF Fail, close
<1>3. CASE /\ p.t = f.needle /\ f.op = "connect" /\ p.code = 0
           /\ stack' = Tail(stack) /\ conn' = TRUE /\ UNCHANGED <<net, okPub>>
  BY <1>3, PublishedEnd
<1>4. CASE p.t = f.needle /\ Return(f)
  <2>1. okPub' \subseteq got BY <1>4 DEF Return
  <2>2. QED BY <1>4, <2>1, PublishedEnd DEF Return
<1>5. QED BY <1>1, <1>2, <1>3, <1>4 DEF Ends

LEMMA AckPackets ==
  ASSUME NEW p \in RxOk(delivered)
  PROVE  /\ p.t = "PUBLISH" => AckFor(p) \in Packet /\ AckFor(p) \notin Offers
         /\ p.t = "PUBREL" => Ack("PUBCOMP", p.id) \in Packet /\ Ack("PUBCOMP", p.id) \notin Offers
         /\ p.t = "PUBREC" => /\ Ack("PUBREL", p.id) \in Packet /\ Ack("PUBREL", p.id).t = "PUBREL"
                              /\ Ack("PUBREL", p.id).id = p.id
<1>1. p.t = "PUBLISH" => AckFor(p) \in Packet /\ AckFor(p) \notin Offers
  BY AckTypes DEF TxOk, Offers
<1>2. p.t = "PUBREL" => Ack("PUBCOMP", p.id) \in Packet /\ Ack("PUBCOMP", p.id) \notin Offers
  BY AckTypes DEF TxOk, Offers
<1>3. "PUBREL" \in Types BY DEF Types, Acks
<1>4. p.id \in Ids BY PacketFields DEF RxOk
<1>5. Ack("PUBREL", p.id) \in Packet /\ Ack("PUBREL", p.id).t = "PUBREL" /\ Ack("PUBREL", p.id).id = p.id
  BY <1>3, <1>4, PktType DEF Ack
<1>6. QED BY <1>1, <1>2, <1>5

LEMMA PublishedStep ==
  ASSUME MaxDepth = 1, Base, Base', Published, Step \/ StepFails, UNCHANGED brokerVars
  PROVE  Published'
<1> DEFINE f == Top
<1>1. stack # <<>> BY DEF Step, StepFails
<1>2. Tail(stack) = <<>>
  <2> DEFINE n == Len(stack)
  <2>1. stack \in Seq(FrameOk(delivered)) /\ n <= 1 BY DEF Base, Stacked
  <2>2. n \in Nat /\ n > 0 BY <1>1, <2>1, SeqTail
  <2> HIDE DEF n
  <2>3. n = 1 BY <2>1, <2>2
  <2>4. QED BY <2>1, <2>3, SingleTail DEF n
<1>3. f \in FrameOk(delivered) /\ f \in Frame /\ FrameShape(f) /\ f.out \in Packet
  BY <1>1, TopFacts DEF Base, TxOk
<1>4. /\ okPub \subseteq got /\ Exchange(tx, rx, f.needle, f.m, got, inflight)
      /\ f.pc \in {"write", "callback", "ack"} /\ f.out \in Offers =>
           Quiet(tx, rx) /\ f.out \in TxFit(f.needle, f.m, got, inflight)
  BY <1>1 DEF Published, Needle, Msg, Offering
<1>5. UNCHANGED <<got, inflight>> BY DEF brokerVars
<1>6. tx' \in Seq(Packet) /\ rx' \in Seq(Packet)
  <2>1. RxOk(delivered') \subseteq Packet /\ TxOk(delivered') \subseteq Packet BY DEF RxOk, TxOk
  <2>2. QED BY <2>1, SeqMono DEF Base, Flowing
<1>7. f.needle = "NO_PACKET" => f.m = NoMsg BY <1>3 DEF FrameShape
<1>8. NoNeedle.t # f.needle /\ NO_PACKET.t = "NO_PACKET"
  BY <1>3 DEF FrameShape, NoNeedle, NO_PACKET, Pkt
<1> HIDE DEF f
<1>9. ASSUME NEW g, Fail(g) PROVE Published'
  BY <1>2, <1>4, <1>5, <1>9, PublishedClosed DEF Fail, close
\* A call that waits for no acknowledgement returns.
<1>10. ASSUME Return(f), f.needle = "NO_PACKET", Exchange(tx', rx', f.needle, f.m, got, inflight)
       PROVE  Published'
  <2>1. Quiet(tx', rx') BY <1>10, IdleQuiet
  <2>2. stack' = <<>> /\ okPub' = okPub BY <1>2, <1>7, <1>10 DEF Return
  <2>3. QED BY <1>4, <1>5, <1>6, <2>1, <2>2, PublishedEnd
<1>11. ASSUME NEW c \in {"cycle", "ack"}, Goto(f, c), UNCHANGED <<conn, net, okPub>>,
              Exchange(tx', rx', f.needle, f.m, got, inflight),
              c = "ack" /\ f.out \in Offers =>
                Quiet(tx', rx') /\ f.out \in TxFit(f.needle, f.m, got, inflight)
       PROVE  Published'
  <2> DEFINE g == At(f, c)
  <2>1. g.pc = c /\ g.needle = f.needle /\ g.m = f.m /\ g.out = f.out BY <1>3, EditFrame
  <2>2. stack' = <<g>> \o <<>> BY <1>2, <1>11 DEF Goto, At
  <2> HIDE DEF g
  <2>3. stack' = <<g>> BY <2>2
  <2>4. QED BY <1>4, <1>5, <1>11, <2>1, <2>3, PublishedAt
<1>12. ASSUME NEW g \in Frame, g.needle = f.needle, g.m = f.m, NEW p, CycleUntil(g, p),
              Exchange(tx', rx', f.needle, f.m, got, inflight),
              p.t = f.needle => Quiet(tx', rx') /\ (f.m # NoMsg => f.m \in got)
       PROVE  Published'
  BY <1>1, <1>2, <1>4, <1>5, <1>6, <1>12, CycleEnds, EndsPublished
<1>13. CASE Write(f)
  <2>1. /\ tx' = (IF alive THEN Append(tx, f.out) ELSE tx) /\ rx' = rx /\ f.pc \in {"write", "ack"}
        /\ \/ f.pc = "ack" /\ CycleUntil(f, NoNeedle)
           \/ f.pc = "write" /\ f.needle = "NO_PACKET" /\ f.op # "disconnect" /\ Return(f)
           \/ f.op = "disconnect" /\ Fail(f)
           \/ /\ f.pc = "write" /\ f.needle # "NO_PACKET"
              /\ Goto(f, "cycle") /\ UNCHANGED <<conn, net, okPub>>
    BY <1>13 DEF Write
  <2>2. f.out \notin Offers \/ (Quiet(tx, rx) /\ f.out \in TxFit(f.needle, f.m, got, inflight))
    BY <1>4, <2>1
  <2>3. Exchange(Append(tx, f.out), rx, f.needle, f.m, got, inflight)
    BY <1>3, <1>4, <2>2, ExchangeSend
  <2>4. Exchange(tx', rx', f.needle, f.m, got, inflight) BY <1>4, <2>1, <2>3
  <2>5. QED BY <1>3, <1>8, <1>9, <1>10, <1>11, <1>12, <2>1, <2>4
<1>14. CASE ReadPacket(f)
  <2> DEFINE g == Counted(f)
             p == Head(rx)
  <2>1. f.pc = "cycle" /\ rx # <<>> /\ tx' = tx /\ rx' = Tail(rx) /\ Handle(g, p)
    BY <1>14 DEF ReadPacket, Counted
  <2>2. g \in Frame /\ g.needle = f.needle /\ g.m = f.m BY <1>3, <2>1, CountedFrame DEF Frames
  <2>3. /\ Exchange(tx, Tail(rx), f.needle, f.m, got, inflight)
        /\ p \in RxFit(f.needle, f.m, got, inflight)
        /\ p \in Answers => Quiet(tx, Tail(rx))
    BY <1>4, <2>1, ExchangeRead
  <2>4. p \in RxOk(delivered) BY <2>1, SeqTail DEF Base, Flowing
  <2> HIDE DEF g, p
  <2>5. Exchange(tx', rx', f.needle, f.m, got, inflight) BY <2>1, <2>3
  <2>6. f.needle \notin {"PUBACK", "PUBCOMP"} => Quiet(tx', rx') BY <2>5, IdleQuiet
  <2>7. f.m # NoMsg => f.needle \in {"PUBACK", "PUBCOMP"} BY <1>3 DEF FrameShape
  <2>8. ASSUME NEW c \in {"callback", "ack"}, NEW x \in Packet, UNCHANGED <<conn, net, okPub>>,
               stack' = <<[g EXCEPT !.pc = c, !.out = x]>> \o Tail(stack),
               x \in Offers => Quiet(tx', rx') /\ x \in TxFit(f.needle, f.m, got, inflight)
        PROVE  Published'
    <3> DEFINE h == AtOut(g, c, x)
    <3>1. c = "callback" \/ c = "ack" OBVIOUS
    <3>2. stack' = <<h>> \o <<>> BY <1>2, <2>8 DEF AtOut
    <3> HIDE DEF h
    <3>3. h.needle = f.needle /\ h.m = f.m /\ h.out = x BY <2>2, <3>1, EditOut DEF h
    <3>4. stack' = <<h>> BY <3>2
    <3>5. QED BY <1>4, <1>5, <2>5, <2>8, <3>3, <3>4, PublishedAt
  <2>9. CASE CycleUntil(g, NO_PACKET) BY <1>8, <1>12, <2>2, <2>5, <2>6, <2>7, <2>9
  <2>10. CASE Fail(g) BY <1>9, <2>10
  <2>11. CASE p.t = "PUBLISH" /\ Deliver(g, p) /\ UNCHANGED <<conn, net, okPub>>
    BY <2>4, <2>8, <2>11, AckPackets DEF Deliver
  <2>12. CASE /\ p.t \in {"PUBREC", "PUBREL"}
              /\ stack' = <<[g EXCEPT !.pc = "ack", !.out =
                               Ack(IF p.t = "PUBREC" THEN "PUBREL" ELSE "PUBCOMP", p.id)]>>
                          \o Tail(stack)
              /\ UNCHANGED <<conn, net, okPub>>
    <3>1. CASE p.t = "PUBREC"
      <4> DEFINE x == Ack("PUBREL", p.id)
      <4>1. x \in Packet /\ x.t = "PUBREL" /\ x.id = p.id BY <2>4, <3>1, AckPackets
      <4>2. stack' = <<[g EXCEPT !.pc = "ack", !.out = x]>> \o Tail(stack) BY <2>12, <3>1
      <4> HIDE DEF x
      <4>3. Quiet(tx', rx') BY <2>1, <2>3, <2>4, <3>1 DEF Answers, RxOk
      <4>4. x \in TxFit(f.needle, f.m, got, inflight)
        BY <2>3, <3>1, <4>1 DEF RxFit, AnswerFits, TxFit, OfferFits
      <4>5. QED BY <2>8, <2>12, <4>1, <4>2, <4>3, <4>4
    <3>2. CASE p.t = "PUBREL"
      <4> DEFINE x == Ack("PUBCOMP", p.id)
      <4>1. x \in Packet /\ x \notin Offers BY <2>4, <3>2, AckPackets
      <4>2. stack' = <<[g EXCEPT !.pc = "ack", !.out = x]>> \o Tail(stack) BY <2>12, <3>2
      <4> HIDE DEF x
      <4>3. QED BY <2>8, <2>12, <4>1, <4>2
    <3>3. QED BY <2>12, <3>1, <3>2
  <2>13. CASE CycleUntil(g, p)
    <3>1. ASSUME p.t = f.needle PROVE Quiet(tx', rx') /\ (f.m # NoMsg => f.m \in got)
      <4>1. CASE f.needle \notin {"PUBACK", "PUBCOMP"} BY <2>6, <2>7, <4>1
      <4>2. CASE f.needle \in {"PUBACK", "PUBCOMP"}
        <5>1. p \in Answers BY <2>4, <3>1, <4>2 DEF Answers, RxOk
        <5>2. f.m \in got BY <2>3, <3>1, <4>2 DEF RxFit, AnswerFits
        <5>3. QED BY <2>1, <2>3, <5>1, <5>2
      <4>3. QED BY <4>1, <4>2
    <3>2. QED BY <1>12, <2>2, <2>5, <2>13, <3>1
  <2>14. QED BY <2>1, <2>9, <2>10, <2>11, <2>12, <2>13 DEF Handle
<1>15. CASE ReadNothing(f)
  <2>1. UNCHANGED <<tx, rx>> BY <1>15 DEF ReadNothing
  <2>2. f.needle = "NO_PACKET" => Quiet(tx', rx') BY <1>4, <2>1, IdleQuiet
  <2>3. QED BY <1>3, <1>4, <1>7, <1>8, <1>9, <1>12, <1>15, <2>1, <2>2 DEF ReadNothing
<1>16. CASE CallbackReturns(f)
  <2>1. UNCHANGED <<tx, rx>> /\ f.pc = "callback" BY <1>16 DEF CallbackReturns
  <2>2. QED BY <1>3, <1>4, <1>8, <1>11, <1>12, <1>16, <2>1 DEF CallbackReturns
<1>17. CASE f.pc = "keepalive" /\ KeepAlive(f) /\ UNCHANGED <<rx, tx>>
  <2>1. f.needle = "NO_PACKET" BY <1>3, <1>17 DEF FrameShape
  <2> DEFINE x == Pkt("PINGREQ", 0, 0)
             g == AtOut(f, "write", x)
  <2>2. CASE stack' = <<g>> /\ UNCHANGED <<conn, net, okPub>>
    <3>1. "PINGREQ" \in Types /\ 0 \in Ids BY ClientAssumption DEF Types, Ids
    <3>2. x \in Packet /\ x.t = "PINGREQ" BY <3>1, PktType
    <3>3. x \notin Offers BY <3>2 DEF Offers
    <3> HIDE DEF x
    <3>4. g.needle = f.needle /\ g.m = f.m /\ g.out = x BY <1>3, <3>2, EditOut
    <3> HIDE DEF g
    <3>5. QED BY <1>4, <1>5, <1>17, <2>2, <3>3, <3>4, PublishedAt
  <2>3. QED BY <1>4, <1>9, <1>10, <1>17, <2>1, <2>2 DEF KeepAlive, AtOut
<1>18. CASE WriteFails(f) \/ ReadTruncated(f) BY <1>9, <1>18 DEF WriteFails, ReadTruncated
<1>19. QED BY <1>13, <1>14, <1>15, <1>16, <1>17, <1>18 DEF Step, StepFails, f

LEMMA QueuesPackets == ASSUME Base PROVE tx \in Seq(Packet) /\ rx \in Seq(Packet)
<1>1. RxOk(delivered) \subseteq Packet /\ TxOk(delivered) \subseteq Packet BY DEF RxOk, TxOk
<1>2. QED BY <1>1, SeqMono DEF Base, Flowing

LEMMA PublishedBegins ==
  ASSUME MaxDepth = 1, Base, Published, NEW f \in Frame, Begun(f), UNCHANGED brokerVars,
         f.out \in Offers => f.out \in TxFit(f.needle, f.m, got, inflight)
  PROVE  Published'
<1>1. /\ stack = <<>> /\ net /\ stack' = <<f>> \o <<>>
      /\ UNCHANGED <<net, tx, rx, okPub, got, inflight>>
  <2>1. MayCall /\ net /\ stack' = <<f>> \o stack /\ UNCHANGED <<net, tx, rx, okPub, got, inflight>>
    BY DEF Begun, Begin, connected, brokerVars
  <2>2. stack = <<>>
    <3>1. stack \in Seq(FrameOk(delivered)) BY DEF Base, Stacked
    <3>2. stack # <<>> => Len(stack) \in Nat /\ Len(stack) > 0 BY <3>1, SeqTail
    <3>3. QED BY <2>1, <3>2 DEF MayCall
  <2>3. QED BY <2>1, <2>2
<1>2. stack' = <<f>> BY <1>1
<1>3. okPub \subseteq got /\ Exchange(tx, rx, "NO_PACKET", NoMsg, got, inflight)
  BY <1>1 DEF Published, Needle, Msg
<1>4. Quiet(tx, rx) BY <1>3, IdleQuiet
<1>5. Exchange(tx, rx, f.needle, f.m, got, inflight) BY <1>4, QueuesPackets, QuietFits
<1>6. QED BY <1>1, <1>2, <1>3, <1>4, <1>5, PublishedAt

\* The broker takes over, holds back or releases a message.
LEMMA PublishedReceive == ASSUME Base, Base', Published, BrokerReceive PROVE Published'
<1> DEFINE p == Head(tx)
<1>1. /\ tx # <<>> /\ tx' = Tail(tx) /\ UNCHANGED <<net, stack, okPub>>
      /\ \/ p.t # "SUBSCRIBE" /\ Reply(Answer(p))
         \/ p.t = "SUBSCRIBE" /\ \E c \in {0, 128} : Reply(<<Pkt("SUBACK", p.id, c)>>)
      /\ got' = got \cup (IF p.t = "PUBLISH" /\ p.code < 2 THEN {p.m} ELSE {})
                    \cup (IF p.t = "PUBREL" THEN {i.m : i \in {j \in inflight : j.id = p.id}}
                                            ELSE {})
      /\ inflight' =
           IF p.t = "PUBLISH" /\ p.code = 2
             THEN {i \in inflight : i.id # p.id} \cup {[id |-> p.id, m |-> p.m]}
             ELSE IF p.t = "PUBREL" THEN {i \in inflight : i.id # p.id} ELSE inflight
  BY DEF BrokerReceive
<1>2. p \in TxOk(delivered) /\ p \in Packet /\ p.id \in Ids
  <2>1. p \in TxOk(delivered) BY <1>1, SeqTail DEF Base, Flowing
  <2>2. QED BY <2>1, PacketFields DEF TxOk
<1>3. tx \in Seq(Packet) /\ rx \in Seq(Packet) BY QueuesPackets
<1> HIDE DEF p
<1>4. okPub' \subseteq got' /\ got \subseteq got' BY <1>1 DEF Published
<1>5. UNCHANGED <<Needle, Msg, Top>> /\ (Offering' <=> Offering)
  BY <1>1 DEF Needle, Msg, Offering, Top
<1>6. CASE ~(net \/ stack # <<>>) BY <1>1, <1>4, <1>6 DEF Published
<1>7. CASE net \/ stack # <<>>
  <2> DEFINE N == Needle
             M == Msg
             t == Tail(tx)
  <2>1. /\ Exchange(tx, rx, N, M, got, inflight)
        /\ Offering => Quiet(tx, rx) /\ Top.out \in TxFit(N, M, got, inflight)
    BY <1>7 DEF Published
  <2>2. /\ Exchange(t, rx, N, M, got, inflight) /\ p \in TxFit(N, M, got, inflight)
        /\ p \in Offers => Quiet(t, rx)
        /\ None(tx, Offers) => None(t, Offers) /\ p \notin Offers
    BY <1>1, <2>1, ExchangeTaken DEF p
  <2>3. t \in Seq(Packet) BY <1>1, <1>3, SeqTail
  <2> HIDE DEF N, M, t
  <2>4. ASSUME Exchange(t, rx', N, M, got', inflight'),
               Offering => Quiet(t, rx') /\ Top.out \in TxFit(N, M, got', inflight')
        PROVE  Published'
    BY <1>1, <1>4, <1>5, <2>4 DEF Published, N, M, t
  <2>5. CASE p \notin Offers
    <3>1. inflight' = inflight BY <1>1, <1>2, <2>5 DEF Offers
    <3>2. /\ Exchange(t, rx, N, M, got', inflight)
          /\ TxFit(N, M, got, inflight) \subseteq TxFit(N, M, got', inflight)
      BY <1>4, <2>2, ExchangeGrows
    <3>3. ASSUME rx' = rx PROVE Published'
      BY <2>1, <2>2, <2>4, <3>1, <3>2, <3>3 DEF Quiet
    <3>4. ASSUME NEW x \in Packet, x \notin Answers, rx' = rx \o <<x>> PROVE Published'
      <4>1. /\ Exchange(t, Append(rx, x), N, M, got', inflight)
            /\ None(rx, Answers) => None(Append(rx, x), Answers)
            /\ rx \o <<x>> = Append(rx, x)
        BY <1>3, <3>2, <3>4, ExchangeReply
      <4>2. QED BY <2>1, <2>2, <2>4, <3>1, <3>2, <3>4, <4>1 DEF Quiet
    <3>5. ASSUME NEW x \in Packet, x \notin Answers, Reply(<<x>>) PROVE Published'
      BY <3>3, <3>4, <3>5 DEF Reply
    <3>6. CASE \E c \in {0, 128} : Reply(<<Pkt("SUBACK", p.id, c)>>)
      <4>1. PICK c \in {0, 128} : Reply(<<Pkt("SUBACK", p.id, c)>>) BY <3>6
      <4> DEFINE x == Pkt("SUBACK", p.id, c)
      <4>2. "SUBACK" \in Types BY DEF Types, Acks
      <4>3. x \in Packet /\ x.t = "SUBACK" BY <1>2, <4>2, PktType
      <4>4. Reply(<<x>>) BY <4>1
      <4> HIDE DEF x
      <4>5. QED BY <3>5, <4>3, <4>4 DEF Answers
    <3>7. CASE Reply(Answer(p))
      <4>1. ASSUME NEW u \in {"PUBREL", "UNSUBACK", "PINGRESP"}, Answered(p, delivered, u)
            PROVE  Published'
        <5>1. PICK x \in RxOk(delivered) : Answer(p) = <<x>> /\ x.t = u BY <4>1 DEF Answered
        <5>2. x \in Packet /\ x \notin Answers BY <5>1 DEF RxOk, Answers
        <5>3. QED BY <3>5, <3>7, <5>1, <5>2
      <4>2. CASE Answer(p) = <<>>
        <5>1. rx \o <<>> = rx BY <1>3
        <5>2. QED BY <3>3, <3>7, <4>2, <5>1 DEF Reply
      <4>3. \/ Answered(p, delivered, "PUBREL") \/ Answered(p, delivered, "UNSUBACK")
            \/ Answered(p, delivered, "PINGRESP") \/ Answer(p) = <<>>
        BY <1>2, <2>5, AnswerType DEF Offers
      <4>4. QED BY <4>1, <4>2, <4>3
    <3>8. QED BY <1>1, <3>6, <3>7
  <2>6. CASE p \in Offers
    <3>1. Quiet(t, rx) /\ ~Offering BY <2>1, <2>2, <2>6 DEF Quiet
    <3>2. Exchange(t, rx, N, M, got', inflight') BY <1>3, <2>3, <3>1, QuietFits
    <3>3. ASSUME NEW u \in {"PUBACK", "PUBREC", "PUBCOMP"}, Answered(p, delivered, u),
                 \A x \in Packet : x.t = u /\ x.id = p.id => x \in RxFit(N, M, got', inflight')
          PROVE  Published'
      <4>1. PICK x \in RxOk(delivered) : Answer(p) = <<x>> /\ x.t = u /\ x.id = p.id
        BY <3>3 DEF Answered
      <4>2. x \in Packet /\ x \in RxFit(N, M, got', inflight') BY <3>3, <4>1 DEF RxOk
      <4>3. Reply(<<x>>) BY <1>1, <2>6, <4>1 DEF Offers
      <4>4. CASE net
        <5>1. Exchange(t, Append(rx, x), N, M, got', inflight') /\ rx \o <<x>> = Append(rx, x)
          BY <1>3, <3>1, <3>2, <4>2, ExchangeReply
        <5>2. rx' = Append(rx, x) BY <4>3, <4>4, <5>1 DEF Reply
        <5>3. QED BY <2>4, <3>1, <5>1, <5>2
      <4>5. CASE ~net
        <5>1. rx' = rx BY <4>3, <4>5 DEF Reply
        <5>2. QED BY <2>4, <3>1, <3>2, <5>1
      <4>6. QED BY <4>4, <4>5
    <3>4. CASE p.t = "PUBLISH" /\ p.code = 1
      <4>1. Answered(p, delivered, "PUBACK") BY <1>2, <3>4, AnswerType
      <4>2. N = "PUBACK" /\ M \in got' BY <1>1, <2>2, <3>4 DEF TxFit, OfferFits
      <4>3. \A x \in Packet : x.t = "PUBACK" => x \in RxFit(N, M, got', inflight')
        BY <4>2 DEF RxFit, AnswerFits
      <4>4. QED BY <3>3, <4>1, <4>3
    <3>5. CASE p.t = "PUBLISH" /\ p.code = 2
      <4>1. Answered(p, delivered, "PUBREC") BY <1>2, <3>5, AnswerType
      <4>2. N = "PUBCOMP" /\ [id |-> p.id, m |-> M] \in inflight'
        BY <1>1, <2>2, <3>5 DEF TxFit, OfferFits
      <4>3. \A x \in Packet : x.t = "PUBREC" /\ x.id = p.id => x \in RxFit(N, M, got', inflight')
        BY <4>2 DEF RxFit, AnswerFits, Kept
      <4>4. QED BY <3>3, <4>1, <4>3
    <3>6. CASE p.t = "PUBREL"
      <4>1. Answered(p, delivered, "PUBCOMP") BY <1>2, <3>6, AnswerType
      <4>2. N = "PUBCOMP" /\ Kept(p.id, M, got, inflight) BY <2>2, <3>6 DEF TxFit, OfferFits
      <4>3. M \in got'
        <5>1. CASE M \in got BY <1>4, <5>1
        <5>2. CASE [id |-> p.id, m |-> M] \in inflight
          <6> DEFINE r == [id |-> p.id, m |-> M]
          <6>1. r \in inflight /\ r.id = p.id /\ r.m = M BY <5>2
          <6> HIDE DEF r
          <6>2. r.m \in {i.m : i \in {j \in inflight : j.id = p.id}} BY <6>1
          <6>3. QED BY <1>1, <3>6, <6>1, <6>2
        <5>3. QED BY <4>2, <5>1, <5>2 DEF Kept
      <4>4. \A x \in Packet : x.t = "PUBCOMP" => x \in RxFit(N, M, got', inflight')
        BY <4>2, <4>3 DEF RxFit, AnswerFits
      <4>5. QED BY <3>3, <4>1, <4>4
    <3>7. QED BY <2>6, <3>4, <3>5, <3>6 DEF Offers
  <2>7. QED BY <2>5, <2>6
<1>8. QED BY <1>6, <1>7

LEMMA PublishedElsewhere ==
  ASSUME Base, Session, Published,
         \/ BrokerConnect \/ NetBreak \/ BrokerVanishes
         \/ \E m \in In, qos \in {0, 1, 2} : BrokerPublish(m, qos)
  PROVE  Published'
<1>1. tx \in Seq(Packet) /\ rx \in Seq(Packet) BY QueuesPackets
<1>2. UNCHANGED <<stack, okPub, got>> /\ (net' => net)
  <2>1. CASE \E m \in In, qos \in {0, 1, 2} : BrokerPublish(m, qos) BY <2>1 DEF BrokerPublish
  <2>2. CASE BrokerConnect BY <2>2 DEF BrokerConnect
  <2>3. CASE NetBreak \/ BrokerVanishes BY <2>3 DEF NetBreak, BrokerVanishes
  <2>4. QED BY <2>1, <2>2, <2>3
<1>3. UNCHANGED <<Needle, Msg, Top>> /\ (Offering' <=> Offering) /\ okPub' \subseteq got'
  BY <1>2 DEF Needle, Msg, Offering, Top, Published
<1>4. CASE ~(net \/ stack # <<>>) BY <1>2, <1>3, <1>4 DEF Published
<1>5. CASE net \/ stack # <<>>
  <2> DEFINE N == Needle
             M == Msg
  <2>1. /\ Exchange(tx, rx, N, M, got, inflight)
        /\ Offering => Quiet(tx, rx) /\ Top.out \in TxFit(N, M, got, inflight)
    BY <1>5 DEF Published
  <2>2. ASSUME Exchange(tx', rx', N, M, got, inflight'),
               Offering => Quiet(tx', rx') /\ Top.out \in TxFit(N, M, got, inflight')
        PROVE  Published'
    BY <1>2, <1>3, <2>2 DEF Published
  <2>3. CASE BrokerConnect
    <3>1. tx # <<>> /\ Head(tx).t = "CONNECT" /\ tx' = Tail(tx) BY <2>3 DEF BrokerConnect
    <3>2. InConnect
      <4>1. ASSUME ~InConnect PROVE FALSE
        <5>1. tx \in Seq(Without("CONNECT")) BY <1>5, <4>1 DEF Session
        <5>2. Head(tx) \in Without("CONNECT") BY <3>1, <5>1, SeqTail
        <5>3. QED BY <3>1, <5>2 DEF Without
      <4>2. QED BY <4>1
    <3>3. stack # <<>>
      <4>1. Len(<<>>) = 0 OBVIOUS
      <4>2. QED BY <3>2, <4>1 DEF InConnect
    <3>4. N = "CONNACK" /\ Top.out.t = "CONNECT"
      <4>1. Top.needle = "CONNACK" BY <3>2, <3>3, TopFacts DEF Base, FrameShape, InConnect
      <4>2. QED BY <3>2, <3>3, <4>1 DEF Needle, Session, Handshake
    <3>5. ~Offering BY <3>4 DEF Offering, Offers
    <3> HIDE DEF N, M
    <3>6. Quiet(tx, rx) BY <2>1, <3>4, IdleQuiet
    <3>7. None(Tail(tx), Offers) /\ Tail(tx) \in Seq(Packet)
      BY <1>1, <3>1, <3>6, SeqTail, NoneTail DEF Quiet
    <3>8. Exchange(tx', rx, N, M, got, inflight') BY <1>1, <3>1, <3>6, <3>7, QuietFits DEF Quiet
    <3>9. PICK c \in {0, 5} : Reply(<<Pkt("CONNACK", 0, c)>>) BY <2>3 DEF BrokerConnect
    <3> DEFINE x == Pkt("CONNACK", 0, c)
    <3>10. "CONNACK" \in Types /\ 0 \in Ids BY ClientAssumption DEF Types, Ids
    <3>11. x \in Packet /\ x.t = "CONNACK" BY <3>10, PktType
    <3>12. Reply(<<x>>) BY <3>9
    <3> HIDE DEF x
    <3>13. x \notin Answers BY <3>11 DEF Answers
    <3>14. Exchange(tx', Append(rx, x), N, M, got, inflight') /\ rx \o <<x>> = Append(rx, x)
      BY <1>1, <3>8, <3>11, <3>13, ExchangeReply
    <3>15. Exchange(tx', rx', N, M, got, inflight') BY <3>8, <3>12, <3>14 DEF Reply
    <3>16. QED BY <2>2, <3>5, <3>15
  <2>4. CASE \E m \in In, qos \in {0, 1, 2} : BrokerPublish(m, qos)
    <3>1. PICK m \in In, qos \in {0, 1, 2} : BrokerPublish(m, qos) BY <2>4
    <3> DEFINE x == [t |-> "PUBLISH", id |-> m, m |-> m, code |-> qos, dup |-> FALSE]
    <3>2. rx' = Append(rx, x) /\ tx' = tx /\ inflight' = inflight BY <3>1 DEF BrokerPublish
    <3>3. m \in Ids /\ "PUBLISH" \in Types BY ClientAssumption DEF Ids, Types
    <3>4. x \in Packet /\ x.t = "PUBLISH" BY <3>3 DEF Packet
    <3> HIDE DEF x
    <3>5. x \notin Answers BY <3>4 DEF Answers
    <3> HIDE DEF N, M
    <3>6. /\ Exchange(tx, Append(rx, x), N, M, got, inflight)
          /\ None(rx, Answers) => None(Append(rx, x), Answers)
      BY <1>1, <2>1, <3>4, <3>5, ExchangeReply
    <3>7. QED BY <2>1, <2>2, <3>2, <3>6 DEF Quiet
  <2>5. CASE NetBreak \/ BrokerVanishes
    <3>1. rx' = rx /\ tx' = <<>> /\ inflight' = inflight BY <2>5 DEF NetBreak, BrokerVanishes
    <3> HIDE DEF N, M
    <3>2. Exchange(<<>>, rx, N, M, got, inflight) BY <2>1, NoneEmpty, EmptySeq DEF Exchange
    <3>3. Offering => Quiet(<<>>, rx) BY <2>1, NoneEmpty DEF Quiet
    <3>4. QED BY <2>1, <2>2, <3>1, <3>2, <3>3
  <2>6. QED BY <2>3, <2>4, <2>5
<1>6. QED BY <1>4, <1>5

LEMMA PublishedNext ==
  ASSUME MaxDepth = 1 PROVE Base /\ Session /\ Published /\ [Next]_vars => Published'
<1> SUFFICES ASSUME Base, Session, Published, [Next]_vars PROVE Published' OBVIOUS
<1>1. Base' BY BaseStep
<1>2. tx \in Seq(Packet) /\ rx \in Seq(Packet) /\ okPub \subseteq got BY QueuesPackets DEF Published
<1>3. CASE Reconnect
  <2> DEFINE g == Call("connect", Pkt("CONNECT", 0, 0), "CONNACK", NoMsg)
  <2>1. rx' = <<>> /\ tx' = <<>> /\ UNCHANGED <<okPub, got, inflight>>
        /\ ((stack' = <<>> /\ ~net') \/ stack' = <<g>>)
    BY <1>3 DEF Reconnect, connect
  <2>2. g.out.t = "CONNECT" BY CallFrames DEF Base
  <2> HIDE DEF g
  <2>3. CASE stack' = <<g>>
    <3>1. Quiet(<<>>, <<>>) BY NoneEmpty DEF Quiet
    <3>2. Exchange(<<>>, <<>>, g.needle, g.m, got, inflight) BY <3>1, QuietFits, EmptySeq
    <3>3. g.out \notin Offers BY <2>2 DEF Offers
    <3>4. QED BY <1>2, <2>1, <2>3, <3>2, <3>3, PublishedAt
  <2>4. QED BY <1>2, <2>1, <2>3, PublishedClosed
<1>4. CASE Client /\ (Step \/ StepFails) BY <1>1, <1>4, PublishedStep DEF Client
<1>5. CASE Client /\ (subscribe \/ unsubscribe \/ disconnect)
  <2>1. PICK f \in Frame : Begun(f) /\ f.op # "publish" BY <1>5, Begins
  <2>2. f.out \notin Offers BY <2>1 DEF Begun, Offers
  <2>3. QED BY <1>5, <2>1, <2>2, PublishedBegins DEF Client
<1>6. CASE Client /\ \E m \in Out, qos \in {0, 1, 2} : publish(m, qos)
  <2>1. PICK m \in Out, qos \in {0, 1, 2} : publish(m, qos) BY <1>6
  <2>2. PICK f \in Frame :
          /\ Begun(f)
          /\ f.out.t = "PUBLISH" /\ f.out.m = m /\ f.out.code = qos
          /\ f.needle = CASE qos = 0 -> "NO_PACKET" [] qos = 1 -> "PUBACK" [] qos = 2 -> "PUBCOMP"
          /\ f.m = (IF qos = 0 THEN NoMsg ELSE m)
    BY <2>1, PublishBegins
  <2>3. /\ qos = 1 => f.needle = "PUBACK" /\ f.m = m
        /\ qos = 2 => f.needle = "PUBCOMP" /\ f.m = m
    BY <2>2
  <2>4. f.out \in Offers => f.out \in TxFit(f.needle, f.m, got, inflight)
    BY <2>2, <2>3 DEF Offers, TxFit, OfferFits
  <2>5. QED BY <1>6, <2>2, <2>4, PublishedBegins DEF Client
<1>7. CASE Client /\ loop
  <2>1. /\ stack = <<>> /\ net /\ stack' = <<LoopFrame>>
        /\ UNCHANGED <<tx, rx, okPub, got, inflight>>
    BY <1>7, LoopSets DEF loop, connected, Client, brokerVars
  <2>2. Exchange(tx, rx, "NO_PACKET", NoMsg, got, inflight) BY <2>1 DEF Published, Needle, Msg
  <2>3. LoopFrame.needle = "NO_PACKET" /\ LoopFrame.m = NoMsg /\ LoopFrame.out.t = "NO_PACKET"
    BY LoopFrameType DEF Base
  <2>4. LoopFrame.out \notin Offers BY <2>3 DEF Offers
  <2>5. QED BY <1>2, <2>1, <2>2, <2>3, <2>4, PublishedAt
<1>8. CASE \/ Client /\ (prepareDuplicate \/ CommandTimer \/ KeepAliveTimer)
           \/ UNCHANGED vars
  <2>1. UNCHANGED <<net, stack, rx, tx, okPub, got, inflight>>
    BY <1>8 DEF Client, brokerVars, prepareDuplicate, CommandTimer, KeepAliveTimer, vars, clientVars
  <2>2. UNCHANGED <<Needle, Msg, Top>> /\ (Offering' <=> Offering)
    BY <2>1 DEF Needle, Msg, Offering, Top
  <2>3. QED BY <2>1, <2>2 DEF Published
<1>9. CASE Broker \/ NetBreak \/ BrokerVanishes
  BY <1>1, <1>9, PublishedReceive, PublishedElsewhere DEF Broker
<1>10. QED BY <1>3, <1>4, <1>5, <1>6, <1>7, <1>8, <1>9 DEF Next, Client

\* If the callback calls nothing, a publish() with QoS 1 or 2 that returned true was
\* acknowledged for its own message, for any packet ids, connections and failures: the
\* client never compares the id of an acknowledgement, and need not.
THEOREM PublishIsConfirmed == MaxDepth = 1 => (Spec => []PublishConfirmed)
<1> SUFFICES ASSUME MaxDepth = 1 PROVE Spec => []PublishConfirmed OBVIOUS
<1>1. Init => Published
  <2> SUFFICES ASSUME Init PROVE Published OBVIOUS
  <2>1. stack = <<>> /\ net = FALSE /\ okPub = {} BY DEF Init, ClientInit
  <2>2. QED BY <2>1 DEF Published
<1>2. Base /\ Session /\ Published /\ [Next]_vars => Published' BY PublishedNext
<1>3. Published => PublishConfirmed BY DEF Published, PublishConfirmed
<1>4. QED BY <1>1, <1>2, <1>3, SessionAlways, PTL DEF Spec

=============================================================================
