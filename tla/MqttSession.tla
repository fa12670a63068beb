----------------------------- MODULE MqttSession -----------------------------
(***************************************************************************)
(* A session of the MQTT client with a broker.  The broker is not part of  *)
(* the repository: it answers every packet as MQTT 3.1.1 asks, redelivers  *)
(* after a reconnection what was not acknowledged, and may refuse,         *)
(* disconnect or silently disappear.                                       *)
(***************************************************************************)
EXTENDS MqttClient

VARIABLES
  accepted,   \* the broker accepted a CONNECT on the present TCP connection
  got,        \* messages of the sketch the broker has taken over
  inflight,   \* QoS 2 messages of the sketch that await their PUBREL
  sent,       \* messages sent to the client on this connection
  done        \* messages the client has acknowledged

brokerVars == <<accepted, got, inflight, sent, done>>
vars == <<clientVars, brokerVars>>

TypeOK ==
  /\ ClientTypeOK
  /\ accepted \in BOOLEAN /\ got \subseteq Out
  /\ inflight \subseteq [id : Ids, m : Out]
  /\ sent \subseteq In /\ done \subseteq In

Init ==
  /\ ClientInit
  /\ accepted = FALSE /\ got = {} /\ inflight = {} /\ sent = {} /\ done = {}

-----------------------------------------------------------------------------
\* The packets q reach the client, unless it has closed the connection.
Reply(q) == rx' = IF net THEN rx \o q ELSE rx

Answer(p) ==
  CASE p.t = "PUBLISH" /\ p.code = 1 -> <<Ack("PUBACK", p.id)>>
    [] p.t = "PUBLISH" /\ p.code = 2 -> <<Ack("PUBREC", p.id)>>
    [] p.t = "PUBREL" -> <<Ack("PUBCOMP", p.id)>>
    [] p.t = "PUBREC" -> <<Ack("PUBREL", p.id)>>
    [] p.t = "UNSUBSCRIBE" -> <<Ack("UNSUBACK", p.id)>>
    [] p.t = "PINGREQ" -> <<Pkt("PINGRESP", 0, 0)>>
    [] OTHER -> <<>>

\* The broker takes the next packet of an accepted connection.
BrokerReceive ==
  /\ alive /\ tx # <<>> /\ accepted
  /\ LET p == Head(tx) IN
     /\ \/ p.t # "SUBSCRIBE" /\ Reply(Answer(p))
        \/ p.t = "SUBSCRIBE" /\ \E c \in {0, 128} : Reply(<<Pkt("SUBACK", p.id, c)>>)
     /\ got' = got \cup (IF p.t = "PUBLISH" /\ p.code < 2 THEN {p.m} ELSE {})
                   \cup (IF p.t = "PUBREL" THEN {i.m : i \in {j \in inflight : j.id = p.id}}
                                           ELSE {})
     /\ inflight' =
          IF p.t = "PUBLISH" /\ p.code = 2
            THEN {i \in inflight : i.id # p.id} \cup {[id |-> p.id, m |-> p.m]}
            ELSE IF p.t = "PUBREL" THEN {i \in inflight : i.id # p.id} ELSE inflight
     /\ done' = done \cup (IF p.t \in {"PUBACK", "PUBCOMP"} THEN {p.id} \cap sent ELSE {})
     /\ accepted' = (p.t # "DISCONNECT")
  /\ tx' = Tail(tx)
  /\ UNCHANGED <<net, conn, lastId, pong, timers, nextDup, stack, okPub, delivered,
                 calls, alive, sent>>

\* The broker accepts or refuses the connection.  A clean session forgets what
\* was in flight; what the client never acknowledged will be sent again.
BrokerConnect ==
  /\ alive /\ tx # <<>> /\ Head(tx).t = "CONNECT"
  /\ \E c \in {0, 5} : Reply(<<Pkt("CONNACK", 0, c)>>) /\ accepted' = (c = 0)
  /\ tx' = Tail(tx)
  /\ inflight' = {} /\ sent' = {}
  /\ UNCHANGED <<net, conn, lastId, pong, timers, nextDup, stack, okPub, delivered,
                 calls, alive, got, done>>

\* The client never decodes the QoS of a message that does not fit: one stands for all.
BrokerPublish(m, qos) ==
  /\ alive /\ accepted /\ net /\ m \notin sent \cup done
  /\ m \in Large => qos = 0
  /\ rx' = Append(rx, [t |-> "PUBLISH", id |-> m, m |-> m, code |-> qos, dup |-> FALSE])
  /\ sent' = sent \cup {m}
  /\ UNCHANGED <<net, conn, lastId, pong, timers, nextDup, stack, tx, okPub, delivered,
                 calls, alive, accepted, got, inflight, done>>

\* The connection is reset or closed by the other end: what the client has
\* received can still be read, what it has sent is lost.
NetBreak ==
  /\ net
  /\ net' = FALSE /\ tx' = <<>> /\ accepted' = FALSE
  /\ UNCHANGED <<conn, lastId, pong, timers, nextDup, stack, rx, okPub, delivered,
                 calls, alive, got, inflight, sent, done>>

\* The other end is gone, and nothing tells the client.
BrokerVanishes ==
  /\ alive
  /\ alive' = FALSE /\ tx' = <<>> /\ accepted' = FALSE
  /\ UNCHANGED <<net, conn, lastId, pong, timers, nextDup, stack, rx, okPub, delivered,
                 calls, got, inflight, sent, done>>

\* A new TCP connection is a new connection for the broker too.
Reconnect == connect /\ accepted' = FALSE /\ UNCHANGED <<got, inflight, sent, done>>

Client ==
  /\ \/ subscribe \/ unsubscribe \/ disconnect \/ prepareDuplicate
     \/ \E m \in Out, qos \in {0, 1, 2} : publish(m, qos)
     \/ loop \/ Step \/ StepFails \/ CommandTimer \/ KeepAliveTimer
  /\ UNCHANGED brokerVars

Broker ==
  \/ BrokerReceive \/ BrokerConnect
  \/ \E m \in In, qos \in {0, 1, 2} : BrokerPublish(m, qos)

Next == Reconnect \/ Client \/ Broker \/ NetBreak \/ BrokerVanishes

\* Time passes, a started call goes on running, and the sketch keeps calling
\* loop(), as it must.  Nothing is assumed of the broker or of the network.
Fairness ==
  /\ WF_vars((Step \/ StepFails) /\ UNCHANGED brokerVars)
  /\ WF_vars(CommandTimer /\ UNCHANGED brokerVars)
  /\ WF_vars(KeepAliveTimer /\ UNCHANGED brokerVars)
  /\ WF_vars(loop /\ UNCHANGED brokerVars)

Spec == Init /\ [][Next]_vars /\ Fairness

-----------------------------------------------------------------------------
(* Properties *)

\* A message whose publish() with QoS 1 or 2 returned true has been taken over by
\* the broker: the acknowledgement lwmqtt_publish found was really for it, although
\* packet ids are never compared, because any error closes the connection and no
\* late acknowledgement can be taken for a later one.
PublishConfirmed == okPub \subseteq got

\* What the broker regards as received, and will not send again, the sketch's
\* callback was run for: lwmqtt_cycle_once acknowledges after the callback, with
\* the id it decoded before it, whatever calls and errors came in between.
AckedWasDelivered == done \subseteq delivered

\* Between calls, connected() is true only if the broker has accepted a CONNECT on
\* this very TCP connection (or has left it since), however stale the _connected
\* that a lost connection or a failed TCP connect leaves behind.
ConnectedMeansAccepted ==
  stack = <<>> /\ connected => accepted \/ ~alive

\* loop() gives up with a pong timeout only if no PINGRESP was among the packets
\* it saw available when it began, unless reading them took all its time.
PongTimeoutJustified ==
  stack # <<>> /\ Top.pc = "keepalive" /\ kaDue /\ pong /\ ~cmdDue =>
    \A i \in 1 .. Top.left : rx[i].t # "PINGRESP"

\* Every call returns, whatever the broker and the network do, once the callback makes no
\* more calls (MaxCalls is where it stops): the command timer bounds the wait of
\* lwmqtt_cycle_until even if a nested call has restarted it in the middle, has failed and
\* closed the connection, or has eaten the answer that the outer call waits for.  A
\* callback that goes on calling for every message keeps an outer call waiting for ever.
CallsReturn == stack # <<>> ~> stack = <<>>

\* A broker that has silently vanished is noticed: the keep alive of loop() ends
\* the connection once the sketch has stopped sending.
VanishedBrokerNoticed == (~alive /\ connected) ~> ~connected
=============================================================================
