------------------------- MODULE MqttClientProofs -------------------------
(***************************************************************************)
(* Theorems about MqttClient, for every number of connections, messages,   *)
(* packets and segments and for all timeouts.                              *)
(***************************************************************************)
EXTENDS MqttClient, TLAPS

(* Types; what is written and not acknowledged need only be an integer. *)
Segments == [ack : Nat, packets : Seq(Packets)]

StateTypes ==
    /\ StackTypeOK /\ pesp_conn \in Conns \union {NULL}
    /\ self_ref \in BOOLEAN /\ held \in BOOLEAN /\ deleted \in BOOLEAN
    /\ connected \in BOOLEAN /\ connState \in {"INIT", "CONNECT_SENDING", "DATA"}
    /\ mqttTimer \in BOOLEAN /\ send_timeout \in Nat
    /\ inited \in BOOLEAN /\ early \in BOOLEAN
    /\ phase \in {"idle", "received", "again", "sent", "callback", "offline", "renewed", "undefined"}

PacketTypes ==
    /\ pending \in Packets /\ message_id \in Nat
    /\ job \in Seq(Packets) /\ outbound \in Seq(Packets)
    /\ out \in Seq(Packets) /\ flight \in Int
    /\ inn \in Seq(Segments) /\ session \in {"none", "open", "bad"}
    /\ queue \in Seq(Packets) /\ taken \in Nat
    /\ published \in Nat /\ subscribed \in Nat /\ messages \in Nat /\ Events <= MaxEvents
    /\ delivered \in Seq(Nat) /\ got \subseteq Nat /\ acked \subseteq Nat

(* Who keeps whom. *)
Lives ==
    /\ ClientKept
    /\ deleted => pesp_conn = NULL /\ ~held /\ ~self_ref
    /\ phase = "offline" => pesp_conn # NULL /\ link[pesp_conn] = "none"
    /\ phase = "renewed" => pesp_conn # NULL /\ link[pesp_conn] \notin {"up", "err"}
    /\ phase \in {"sent", "callback", "received", "again"} => pesp_conn # NULL /\ link[pesp_conn] \in {"up", "closing"}
    /\ phase \in {"received", "again"} => job # <<>>
    /\ pesp_conn # NULL /\ connected => inited
    /\ pesp_conn # NULL /\ link[pesp_conn] = "up" => connected

(* Messages on their way to the client. *)
IsMessage(p) == p.type = "PUBLISH"
Rising(s) == \A i, j \in DOMAIN s : i < j /\ IsMessage(s[i]) /\ IsMessage(s[j]) => s[i].n < s[j].n
Below(s, t) == \A i \in DOMAIN s, j \in DOMAIN t : IsMessage(s[i]) /\ IsMessage(t[j]) => s[i].n < t[j].n
Above(d, s) == \A i \in DOMAIN d, j \in DOMAIN s : IsMessage(s[j]) => d[i] < s[j].n
Numbered(s) == \A i \in DOMAIN s : IsMessage(s[i]) => s[i].n <= messages

OnTheWay ==
    /\ MessagesInOrder /\ \A i \in DOMAIN delivered : delivered[i] <= messages
    /\ Rising(job) /\ Numbered(job) /\ Above(delivered, job)
    /\ Rising(queue) /\ Numbered(queue) /\ Above(delivered, queue) /\ Below(job, queue)
    /\ \A x \in DOMAIN inn :
          /\ Rising(inn[x].packets) /\ Numbered(inn[x].packets) /\ Above(delivered, inn[x].packets)
          /\ Below(job, inn[x].packets) /\ Below(inn[x].packets, queue)
          /\ \A y \in DOMAIN inn : x < y => Below(inn[x].packets, inn[y].packets)

(* Acknowledgements on their way.  The ids given out so far are 1..m, w is *)
(* the pending message and g what the broker received.  A packet that      *)
(* acknowledges has a known id, and if that is the pending message's the   *)
(* broker has it; a message on its way out with the id of the pending one  *)
(* is that message.                                                        *)
Earned(p, m, w, g) == p.id \in 1..m /\ (w.type = "PUBLISH" /\ w.id = p.id => w.n \in g)

EarnedIn(p, m, w, g) == p.type \in {"PUBACK", "PUBREC", "PUBCOMP"} => Earned(p, m, w, g)

EarnedOut(p, m, w, g) ==
    /\ p.type = "PUBREL" => Earned(p, m, w, g)
    /\ p.type = "PUBLISH" /\ p.qos > 0 => p.id \in 1..m /\ (w.type = "PUBLISH" /\ w.id = p.id => w.n = p.n)

AckIn(s, m, w, g) == \A i \in DOMAIN s : EarnedIn(s[i], m, w, g)
AckOut(s, m, w, g) == \A i \in DOMAIN s : EarnedOut(s[i], m, w, g)

AllEarned(m, w, g) ==
    /\ AckIn(job, m, w, g) /\ AckIn(queue, m, w, g) /\ \A x \in DOMAIN inn : AckIn(inn[x].packets, m, w, g)
    /\ AckOut(out, m, w, g) /\ AckOut(outbound, m, w, g)

AcksEarned ==
    /\ AckedMeansReceived
    /\ message_id <= published + subscribed
    /\ ~inited => message_id = 0 /\ pending.id = 0
    /\ AllEarned(message_id, pending, got)

(* The CONNECT and its answer.  While the CONNACK is awaited and the       *)
(* script has kept quiet, something was written before the CONNECT and the *)
(* broker will not answer; or the CONNECT is all that was written, and it  *)
(* is on its way, taken by the broker, acknowledged by a segment under     *)
(* way, or acknowledged, which has cleared the timeout.                    *)
NoConnack(s) == \A i \in DOMAIN s : s[i].type # "CONNACK"

NotUp == pesp_conn = NULL \/ link[pesp_conn] \notin {"up", "closing"}

Quiet ==
    /\ session = "none" /\ taken = 0 /\ inn = <<>> /\ queue = <<>>
    /\ flight = Len(out) /\ \A i \in DOMAIN out : out[i].type # "CONNECT"

Doomed ==
    /\ NoConnack(queue) /\ NoConnack(job) /\ \A x \in DOMAIN inn : NoConnack(inn[x].packets)
    /\ session = "bad" \/ (session = "none" /\ out # <<>> /\ Head(out).type # "CONNECT")

Written ==
    /\ out = <<Packet("CONNECT", 0)>> /\ flight = 1 /\ taken = 0
    /\ inn = <<>> /\ queue = <<>> /\ phase = "idle" /\ session = "none"

Taken == out = <<>> /\ flight = 1 /\ taken = 1 /\ inn = <<>> /\ phase = "idle"

Confirmed ==
    /\ out = <<>> /\ flight = 1 /\ taken = 0 /\ phase = "idle"
    /\ inn # <<>> /\ inn[1].ack = 1 /\ \A x \in DOMAIN inn : x > 1 => inn[x].ack = 0

Settled ==
    /\ out = <<>> /\ flight = 0 /\ taken = 0 /\ send_timeout = 0
    /\ \A x \in DOMAIN inn : inn[x].ack = 0

Awaits ==
    /\ connState = "CONNECT_SENDING" /\ ~early /\ pesp_conn # NULL /\ link[pesp_conn] = "up"
    /\ phase # "undefined"

Opening ==
    /\ NotUp /\ phase # "undefined" => Quiet
    /\ phase \in {"callback", "again"} => connState = "DATA"
    /\ phase = "received" /\ connState = "CONNECT_SENDING" => link[pesp_conn] = "up"
    /\ phase \in {"idle", "offline", "renewed"} => job = <<>>
    /\ Awaits => Doomed \/ Written \/ Taken \/ Confirmed \/ Settled

(* What is left of a sequence behind its first k elements. *)
LEMMA RestAfter ==
    ASSUME NEW S, NEW q \in Seq(S), NEW k \in Nat, k <= Len(q)
    PROVE  \A i \in DOMAIN SubSeq(q, k + 1, Len(q)) :
               i + k \in DOMAIN q /\ SubSeq(q, k + 1, Len(q))[i] = q[i + k]
<1>1. Len(q) \in Nat /\ DOMAIN q = 1..Len(q)
  OBVIOUS
<1>2. DOMAIN SubSeq(q, k + 1, Len(q)) = 1..Len(q) - k
  BY <1>1
<1> QED
  BY <1>1, <1>2

-----------------------------------------------------------------------------
(* Shapes of the sending operators.                                        *)
LEMMA SendShape ==
    ASSUME NEW p, Send(p)
    PROVE  \/ out' = Append(out, p) /\ flight' = flight + 1
           \/ out' = out /\ flight' = flight
  BY DEF Send

LEMMA PacketType ==
    ASSUME NEW t \in Types, NEW i \in Nat
    PROVE  /\ Packet(t, i) \in Packets /\ Packet(t, i).type = t /\ Packet(t, i).id = i
           /\ Packet(t, i).qos = 0 /\ Packet(t, i).n = 0
  BY DEF Packet, Packets

LEMMA PublishedType ==
    ASSUME NEW i \in Nat, NEW q \in 0..2, NEW k \in Nat
    PROVE  /\ Published(i, q, k) \in Packets /\ Published(i, q, k).type = "PUBLISH" /\ Published(i, q, k).id = i
           /\ Published(i, q, k).qos = q /\ Published(i, q, k).n = k
  BY DEF Published, Packets, Types

(* The broker's answers: at most one packet, of a type that depends on the *)
(* packet answered, with its id; never a message.                          *)
LEMMA ReplyShape ==
    ASSUME NEW p \in Packets
    PROVE  \/ Reply(p) = <<>>
           \/ \E r \in Packets :
                 /\ Reply(p) = <<r>>
                 /\ r.type # "PUBLISH"
                 /\ r.type \in {"PUBACK", "PUBREC", "PUBCOMP"} =>
                       r.id = p.id /\ (p.type = "PUBREL" \/ (p.type = "PUBLISH" /\ p.qos > 0))
                 /\ r.type = "CONNACK" => p.type = "CONNECT"
<1>0. p.id \in Nat /\ p.qos \in 0..2 /\ p.type \in Types /\ 0 \in Nat
  BY DEF Packets
<1>1. CASE p.type = "CONNECT"
  <2>1. Reply(p) = <<Packet("CONNACK", 0)>>
    BY <1>1 DEF Reply
  <2> QED BY <1>1, <2>1, PacketType DEF Types
<1>2. CASE p.type = "SUBSCRIBE"
  <2>1. Reply(p) = <<Packet("SUBACK", p.id)>>
    BY <1>2 DEF Reply
  <2> QED BY <1>0, <2>1, PacketType DEF Types
<1>3. CASE p.type = "PUBLISH" /\ p.qos = 1
  <2>1. Reply(p) = <<Packet("PUBACK", p.id)>>
    BY <1>3 DEF Reply
  <2> QED BY <1>0, <1>3, <2>1, PacketType DEF Types
<1>4. CASE p.type = "PUBLISH" /\ p.qos = 2
  <2>1. Reply(p) = <<Packet("PUBREC", p.id)>>
    BY <1>4 DEF Reply
  <2> QED BY <1>0, <1>4, <2>1, PacketType DEF Types
<1>5. CASE p.type = "PUBREL"
  <2>1. Reply(p) = <<Packet("PUBCOMP", p.id)>>
    BY <1>5 DEF Reply
  <2> QED BY <1>0, <1>5, <2>1, PacketType DEF Types
<1>6. CASE p.type = "PUBREC"
  <2>1. Reply(p) = <<Packet("PUBREL", p.id)>>
    BY <1>6 DEF Reply
  <2> QED BY <1>0, <1>6, <2>1, PacketType DEF Types
<1>7. CASE p.type = "PINGREQ"
  <2>1. Reply(p) = <<Packet("PINGRESP", 0)>>
    BY <1>7 DEF Reply
  <2> QED BY <1>0, <1>7, <2>1, PacketType DEF Types
<1>8. CASE /\ p.type \notin {"CONNECT", "SUBSCRIBE", "PUBREL", "PUBREC", "PINGREQ"}
           /\ ~(p.type = "PUBLISH" /\ p.qos = 1) /\ ~(p.type = "PUBLISH" /\ p.qos = 2)
  BY <1>8 DEF Reply
<1> QED
  BY <1>1, <1>2, <1>3, <1>4, <1>5, <1>6, <1>7, <1>8

(* The client's answers to the packet it reads. *)
LEMMA AnswerShape ==
    ASSUME job \in Seq(Packets), job # <<>>
    PROVE  \/ Answer = <<>>
           \/ \E r \in Packets :
                 /\ Answer = <<r>>
                 /\ r.type \in {"PUBACK", "PUBREC", "PUBREL", "PUBCOMP"}
                 /\ r.type = "PUBREL" => r.id = Head(job).id /\ Head(job).type = "PUBREC"
<1> DEFINE p == Head(job)
<1>0. p \in Packets /\ p = FirstPacket
  BY DEF FirstPacket
<1>00. p.id \in Nat
  BY <1>0 DEF Packets
<1> HIDE DEF p
<1>1. CASE p.type = "PUBLISH" /\ p.qos = 1
  <2>1. Answer = <<Packet("PUBACK", p.id)>>
    BY <1>0, <1>1 DEF Answer
  <2> QED BY <1>00, <2>1, PacketType DEF Types
<1>2. CASE p.type = "PUBLISH" /\ p.qos = 2
  <2>1. Answer = <<Packet("PUBREC", p.id)>>
    BY <1>0, <1>2 DEF Answer
  <2> QED BY <1>00, <2>1, PacketType DEF Types
<1>3. CASE p.type = "PUBREC"
  <2>1. Answer = <<Packet("PUBREL", p.id)>>
    BY <1>0, <1>3 DEF Answer
  <2> QED BY <1>00, <1>3, <2>1, PacketType DEF Types, p
<1>4. CASE p.type = "PUBREL"
  <2>1. Answer = <<Packet("PUBCOMP", p.id)>>
    BY <1>0, <1>4 DEF Answer
  <2> QED BY <1>00, <2>1, PacketType DEF Types
<1>5. CASE /\ p.type \notin {"PUBREC", "PUBREL"}
           /\ ~(p.type = "PUBLISH" /\ p.qos = 1) /\ ~(p.type = "PUBLISH" /\ p.qos = 2)
  BY <1>0, <1>5 DEF Answer
<1> QED
  BY <1>1, <1>2, <1>3, <1>4, <1>5

-----------------------------------------------------------------------------
LEMMA StateTypesStep ==
    ASSUME StateTypes, Next
    PROVE  StateTypes'
<1> USE MqttAssumption DEF StateTypes, StackTypeOK, Links, stack, object, state, message, handler, broker, script, reports
<1>1. CASE \E c \in Conns, byName \in BOOLEAN : MqttConnect(c, byName)
  <2>1. PICK c \in Conns, byName \in BOOLEAN : MqttConnect(c, byName)
    BY <1>1
  <2>2. \E l \in {"dns", "syn", "stuck", "none"} : link' = [link EXCEPT ![c] = l]
    BY <2>1 DEF MqttConnect, StackConnect
  <2>3. link' \in [Conns -> Links]
    BY <2>2
  <2> QED
    BY <2>1, <2>3 DEF MqttConnect
<1>2. CASE MqttClose
  BY <1>2 DEF MqttClose, ClientClose
<1>3. CASE \E q \in 0..2 : MqttPublish(q)
  BY <1>3 DEF MqttPublish
<1>4. CASE MqttSubscribe
  BY <1>4 DEF MqttSubscribe
<1>5. CASE DropClient
  BY <1>5 DEF DropClient
<1>6. CASE MqttDelete
  BY <1>6 DEF MqttDelete
<1>7. CASE SocketConnected
  BY <1>7 DEF SocketConnected, LinkUp
<1>8. CASE OfflineReturns
  BY <1>8 DEF OfflineReturns
<1>9. CASE \E ok \in BOOLEAN : DnsFound(ok)
  BY <1>9 DEF DnsFound, StackConnect, GoOffline, wire
<1>10. CASE LinkLost
  BY <1>10 DEF LinkLost, LinkBreaks, ClientClose, WireCut, wire, InList
<1>11. CASE LinkGone
  BY <1>11 DEF LinkGone, LinkEnds, WireCut, GoOffline
<1>12. CASE SocketTimer
  BY <1>12 DEF SocketTimer
<1>13. CASE SegmentArrives
  BY <1>13 DEF SegmentArrives
<1>14. CASE SentReturns
  BY <1>14 DEF SentReturns
<1>15. CASE ReadConnack
  BY <1>15 DEF ReadConnack, ClientClose, HandlerDone
<1>16. CASE ReadWithCallback
  BY <1>16 DEF ReadWithCallback
<1>17. CASE ReadSilently
  BY <1>17 DEF ReadSilently, HandlerDone
<1>18. CASE CallbackReturns
  BY <1>18 DEF CallbackReturns, HandlerDone
<1>19. CASE BrokerTakes
  BY <1>19 DEF BrokerTakes
<1>20. CASE \E q \in 0..2 : BrokerPublishes(q)
  BY <1>20 DEF BrokerPublishes
<1>21. CASE \E k \in 0..2 : BrokerSends(k)
  BY <1>21 DEF BrokerSends
<1>22. CASE ConnectInUse \/ SegmentOverruns
  BY <1>22 DEF ConnectInUse, SegmentOverruns
<1> QED
  BY <1>1, <1>2, <1>3, <1>4, <1>5, <1>6, <1>7, <1>8, <1>9, <1>10, <1>11, <1>12, <1>13, <1>14, <1>15, <1>16, <1>17, <1>18, <1>19, <1>20, <1>21, <1>22 DEF Next

LEMMA LivesStep ==
    ASSUME StateTypes, Lives, Next
    PROVE  Lives'
<1> USE MqttAssumption DEF StateTypes, StackTypeOK, Links, Lives, ClientKept, NULL, ScriptRuns
<1> USE DEF stack, object, state, message, handler, broker, script, reports
<1>1. CASE \E c \in Conns, byName \in BOOLEAN : MqttConnect(c, byName)
  BY <1>1 DEF MqttConnect, StackConnect, Unused, InUse
<1>2. CASE MqttClose
  BY <1>2 DEF MqttClose, ClientClose, InList
<1>3. CASE \E q \in 0..2 : MqttPublish(q)
  BY <1>3 DEF MqttPublish
<1>4. CASE MqttSubscribe
  BY <1>4 DEF MqttSubscribe
<1>5. CASE DropClient
  BY <1>5 DEF DropClient
<1>6. CASE MqttDelete
  BY <1>6 DEF MqttDelete
<1>7. CASE SocketConnected
  BY <1>7 DEF SocketConnected, LinkUp
<1>8. CASE OfflineReturns
  BY <1>8 DEF OfflineReturns
<1>9. CASE \E ok \in BOOLEAN : DnsFound(ok)
  BY <1>9 DEF DnsFound, StackConnect, GoOffline, wire
<1>10. CASE LinkLost
  BY <1>10 DEF LinkLost, LinkBreaks, ClientClose, WireCut, wire, InList
<1>11. CASE LinkGone
  BY <1>11 DEF LinkGone, LinkEnds, WireCut, GoOffline
<1>12. CASE SocketTimer
  BY <1>12 DEF SocketTimer
<1>13. CASE SegmentArrives
  BY <1>13 DEF SegmentArrives
<1>14. CASE SentReturns
  BY <1>14 DEF SentReturns
<1>15. CASE ReadConnack
  BY <1>15 DEF ReadConnack, Reads, ClientClose, InList, HandlerDone
<1>16. CASE ReadWithCallback
  BY <1>16 DEF ReadWithCallback, Reads
<1>17. CASE ReadSilently
  <2>1. /\ phase \in {"received", "again"} /\ phase' = "idle"
        /\ UNCHANGED <<link, pesp_conn, inited, deleted, held, self_ref, connected, mqttTimer>>
    BY <1>17 DEF ReadSilently, Reads, HandlerDone
  <2> QED BY <2>1
<1>18. CASE CallbackReturns
  BY <1>18 DEF CallbackReturns, HandlerDone
<1>19. CASE BrokerTakes
  BY <1>19 DEF BrokerTakes
<1>20. CASE \E q \in 0..2 : BrokerPublishes(q)
  BY <1>20 DEF BrokerPublishes
<1>21. CASE \E k \in 0..2 : BrokerSends(k)
  BY <1>21 DEF BrokerSends
<1>22. CASE ConnectInUse \/ SegmentOverruns
  BY <1>22 DEF ConnectInUse, SegmentOverruns
<1> QED
  BY <1>1, <1>2, <1>3, <1>4, <1>5, <1>6, <1>7, <1>8, <1>9, <1>10, <1>11, <1>12, <1>13, <1>14, <1>15, <1>16, <1>17, <1>18, <1>19, <1>20, <1>21, <1>22 DEF Next

LEMMA IdAfterNat ==
    ASSUME NEW i \in Nat
    PROVE  IdAfter(i) \in Nat /\ IdAfter(i) >= 1 /\ IdAfter(i) <= i + 1
<1> DEFINE m == (i + 1) % IdSpan
<1>1. m \in 0..IdSpan - 1 /\ IdSpan \in Nat /\ IdSpan > 2
  BY MqttAssumption
<1>2. m <= i + 1
  <2>1. i + 1 \in Nat
    OBVIOUS
  <2> QED
    BY <1>1, <2>1, MqttAssumption
<1> HIDE DEF m
<1> QED
  BY <1>1, <1>2 DEF IdAfter, m

LEMMA SendType ==
    ASSUME out \in Seq(Packets), flight \in Int, NEW p \in Packets, Send(p) \/ UNCHANGED <<out, flight>>
    PROVE  out' \in Seq(Packets) /\ flight' \in Int
  BY SendShape

LEMMA SubscribeRecord ==
    ASSUME NEW p \in Packets, NEW i \in Nat
    PROVE  LET q == [p EXCEPT !.type = "SUBSCRIBE", !.id = i, !.qos = 1]
           IN q \in Packets /\ q.type = "SUBSCRIBE" /\ q.id = i /\ q.n = p.n
<1> DEFINE d1 == [p EXCEPT !.type = "SUBSCRIBE"]
           d2 == [d1 EXCEPT !.id = i]
           d3 == [d2 EXCEPT !.qos = 1]
<1>1. d1 \in Packets /\ d1.type = "SUBSCRIBE" /\ d1.n = p.n
  BY DEF Packets, Types
<1> HIDE DEF d1
<1>2. d2 \in Packets /\ d2.type = "SUBSCRIBE" /\ d2.id = i /\ d2.n = p.n
  BY <1>1 DEF Packets
<1> HIDE DEF d2
<1>3. d3 \in Packets /\ d3.type = "SUBSCRIBE" /\ d3.id = i /\ d3.n = p.n
  BY <1>2 DEF Packets
<1> QED
  BY <1>3 DEF d1, d2, d3

LEMMA PacketTypesStep ==
    ASSUME StateTypes, Lives, PacketTypes, Next
    PROVE  PacketTypes'
<1> USE MqttAssumption
<1>1. CASE \/ \E c \in Conns, byName \in BOOLEAN : MqttConnect(c, byName)
           \/ MqttClose \/ DropClient \/ MqttDelete \/ OfflineReturns \/ ConnectInUse \/ SegmentOverruns
           \/ \E ok \in BOOLEAN : DnsFound(ok)
  <2>1. /\ UNCHANGED <<pending, message_id, job, outbound, out, flight, inn, session, queue, taken>>
        /\ UNCHANGED <<published, subscribed, messages, delivered, got, acked>>
    BY <1>1 DEF MqttConnect, MqttClose, DropClient, MqttDelete, OfflineReturns, ConnectInUse, SegmentOverruns, DnsFound, GoOffline, wire,
        message, handler, broker, script, reports
  <2> QED
    BY <2>1 DEF PacketTypes, Events
<1>2. CASE \E q \in 0..2 : MqttPublish(q)
  <2>1. PICK q \in 0..2 : MqttPublish(q)
    BY <1>2
  <2>2. published' = published + 1 /\ UNCHANGED <<subscribed, messages, job, inn, session, queue, taken, delivered, got, acked>>
        /\ Events < MaxEvents /\ outbound' = <<>>
    BY <2>1 DEF MqttPublish, broker, reports
  <2>3. message_id' \in Nat
    BY <2>1, IdAfterNat DEF MqttPublish, PacketTypes
  <2>4. pending.id \in Nat /\ published' \in Nat
    BY <2>2 DEF PacketTypes, Packets
  <2>5. pending' \in Packets
    <3> DEFINE i == IF ~inited THEN pending.id ELSE IF q > 0 THEN message_id' ELSE 0
    <3>1. i \in Nat
      BY <2>3, <2>4
    <3>2. pending' = Published(i, q, published')
      BY <2>1 DEF MqttPublish
    <3> HIDE DEF i
    <3> QED BY <3>1, <3>2, <2>4, PublishedType
  <2>6. out' \in Seq(Packets) /\ flight' \in Int
    BY <2>1, <2>5, SendType DEF MqttPublish, PacketTypes
  <2> QED
    BY <2>2, <2>3, <2>5, <2>6 DEF PacketTypes, Events
<1>3. CASE MqttSubscribe
  <2>1. subscribed' = subscribed + 1 /\ UNCHANGED <<published, messages, job, inn, session, queue, taken, delivered, got, acked>>
        /\ Events < MaxEvents /\ message_id' = IdAfter(message_id)
    BY <1>3 DEF MqttSubscribe, broker, reports
  <2>2. message_id' \in Nat
    BY <2>1, IdAfterNat DEF PacketTypes
  <2>3. Packet("SUBSCRIBE", message_id') \in Packets
    BY <2>2, PacketType DEF Types
  <2>4. pending' \in Packets
    BY <1>3, <2>2, SubscribeRecord DEF MqttSubscribe, PacketTypes
  <2>5. out' \in Seq(Packets) /\ flight' \in Int
    BY <1>3, <2>3, SendType DEF MqttSubscribe, PacketTypes
  <2>6. outbound' \in Seq(Packets)
    BY <1>3, <2>3 DEF MqttSubscribe
  <2> QED
    BY <2>1, <2>2, <2>4, <2>5, <2>6 DEF PacketTypes, Events
<1>4. CASE SocketConnected
  <2>1. Packet("CONNECT", 0) \in Packets
    BY PacketType DEF Types
  <2>2. out' \in Seq(Packets) /\ flight' \in Int
    BY <1>4, <2>1, SendType DEF SocketConnected, PacketTypes
  <2> QED
    BY <1>4, <2>2 DEF SocketConnected, PacketTypes, Events, handler, broker, script, reports
<1>5. CASE LinkLost \/ LinkGone
  <2>1. UNCHANGED <<pending, message_id, job, outbound, published, subscribed, messages, delivered, got, acked>>
    BY <1>5 DEF LinkLost, LinkGone, GoOffline, message, handler, script, reports
  <2>2. UNCHANGED <<out, flight, inn, session, queue, taken>> \/ WireCut
    BY <1>5 DEF LinkLost, LinkGone, wire
  <2>3. CASE UNCHANGED <<out, flight, inn, session, queue, taken>>
    BY <2>1, <2>3 DEF PacketTypes, Events
  <2>4. CASE WireCut
    BY <2>1, <2>4 DEF PacketTypes, Events, WireCut
  <2> QED BY <2>2, <2>3, <2>4
<1>6. CASE SocketTimer
  <2>1. Packet("PINGREQ", 0) \in Packets
    BY PacketType DEF Types
  <2>2. out' \in Seq(Packets) /\ flight' \in Int
    BY <1>6, <2>1, SendType DEF SocketTimer, PacketTypes
  <2>3. pending' \in Packets
    BY <1>6 DEF SocketTimer, PacketTypes, Packets, Types
  <2> QED
    BY <1>6, <2>2, <2>3 DEF SocketTimer, PacketTypes, Events, handler, broker, script, reports
<1>7. CASE SegmentArrives
  <2>1. Head(inn) \in Segments /\ Tail(inn) \in Seq(Segments)
    BY <1>7 DEF SegmentArrives, PacketTypes
  <2>2. inn' = Tail(inn) /\ flight' = flight - Head(inn).ack /\ job' = Head(inn).packets
        /\ UNCHANGED <<pending, message_id, outbound, out, session, queue, taken, published, subscribed, messages, delivered, got, acked>>
    BY <1>7 DEF SegmentArrives, message, script
  <2>3. Head(inn).ack \in Nat /\ Head(inn).packets \in Seq(Packets)
    BY <2>1 DEF Segments
  <2> QED
    BY <2>1, <2>2, <2>3 DEF PacketTypes, Events
<1>8. CASE SentReturns
  BY <1>8 DEF SentReturns, PacketTypes, Events, message, broker, script, reports
<1>9. CASE ReadConnack
  BY <1>9 DEF ReadConnack, HandlerDone, PacketTypes, Events, message, broker, script, reports
<1>10. CASE ReadWithCallback \/ ReadSilently
  <2>1. job # <<>> /\ job \in Seq(Packets)
    BY <1>10 DEF ReadWithCallback, ReadSilently, Reads, Lives, PacketTypes
  <2>2. Answer \in Seq(Packets)
    <3>1. CASE Answer = <<>>
      BY <3>1
    <3>2. CASE Answer # <<>>
      <4>1. PICK r \in Packets : Answer = <<r>>
        BY <2>1, <3>2, AnswerShape
      <4> QED BY <4>1
    <3> QED BY <3>1, <3>2
  <2>3. Answer # <<>> => Answer[1] \in Packets
    BY <2>2
  <2>4. Head(job) \in Packets /\ Tail(job) \in Seq(Packets) /\ Head(job).n \in Nat /\ pending.n \in Nat
    <3>1. Head(job) \in Packets /\ Tail(job) \in Seq(Packets) /\ pending \in Packets
      BY <2>1 DEF PacketTypes
    <3>2. \A p \in Packets : p.n \in Nat
      BY DEF Packets
    <3> QED BY <3>1, <3>2
  <2>5. CASE ReadWithCallback
    <3>1. job' \in Seq(Packets) /\ outbound' \in Seq(Packets)
      BY <2>2, <2>4, <2>5 DEF ReadWithCallback
    <3>2. delivered' \in Seq(Nat) /\ acked' \subseteq Nat
      <4>1. delivered' = Append(delivered, Head(job).n) \/ delivered' = delivered
        BY <2>5 DEF ReadWithCallback, FirstPacket
      <4>2. acked' = acked \union {pending.n} \/ acked' = acked
        BY <2>5 DEF ReadWithCallback
      <4>3. delivered \in Seq(Nat) /\ acked \subseteq Nat
        BY DEF PacketTypes
      <4>4. delivered' \in Seq(Nat)
        <5> DEFINE k == Head(job).n
        <5>1. k \in Nat
          BY <2>4
        <5>2. delivered' = Append(delivered, k) \/ delivered' = delivered
          BY <4>1
        <5> HIDE DEF k
        <5> QED BY <5>1, <5>2, <4>3
      <4>5. acked' \subseteq Nat
        BY <2>4, <4>2, <4>3
      <4> QED BY <4>4, <4>5
    <3> QED
      BY <2>5, <3>1, <3>2 DEF ReadWithCallback, PacketTypes, Events, message, broker, script
  <2>6. CASE ReadSilently
    <3>1. out' \in Seq(Packets) /\ flight' \in Int
      BY <2>3, <2>6, SendType DEF ReadSilently, PacketTypes
    <3> QED
      BY <2>6, <3>1 DEF ReadSilently, HandlerDone, PacketTypes, Events, message, broker, script, reports
  <2> QED BY <1>10, <2>5, <2>6
<1>11. CASE CallbackReturns
  <2>1. outbound # <<>> => outbound[1] \in Packets
    BY DEF PacketTypes
  <2>2. out' \in Seq(Packets) /\ flight' \in Int
    BY <1>11, <2>1, SendType DEF CallbackReturns, PacketTypes
  <2> QED
    <3>0. (job' = job \/ job' = <<>>) /\ outbound' = <<>>
      BY <1>11 DEF CallbackReturns, HandlerDone
    <3>1. job' \in Seq(Packets) /\ outbound' \in Seq(Packets)
      <4>1. <<>> \in Seq(Packets)
        OBVIOUS
      <4> QED BY <3>0, <4>1 DEF PacketTypes
    <3>2. /\ UNCHANGED <<pending, message_id, inn, session, queue, taken>>
          /\ UNCHANGED <<published, subscribed, messages, delivered, got, acked>>
      BY <1>11 DEF CallbackReturns, message, broker, script, reports
    <3> QED
      BY <2>2, <3>1, <3>2 DEF PacketTypes, Events
<1>12. CASE BrokerTakes
  <2>1. Head(out) \in Packets /\ Tail(out) \in Seq(Packets)
    BY <1>12 DEF BrokerTakes, PacketTypes
  <2>2. Reply(Head(out)) \in Seq(Packets) /\ Head(out).n \in Nat
    <3>1. Head(out).n \in Nat
      BY <2>1 DEF Packets
    <3> DEFINE p == Head(out)
    <3>2. p \in Packets
      BY <2>1
    <3> HIDE DEF p
    <3>3. Reply(p) = <<>> \/ \E r \in Packets : Reply(p) = <<r>>
      BY <3>2, ReplyShape
    <3>4. <<>> \in Seq(Packets) /\ \A r \in Packets : <<r>> \in Seq(Packets)
      OBVIOUS
    <3>5. Reply(p) \in Seq(Packets)
      BY <3>3, <3>4
    <3> QED BY <3>1, <3>5 DEF p
  <2>3. queue' \in Seq(Packets)
    BY <1>12, <2>2 DEF BrokerTakes, PacketTypes
  <2>4. got' \subseteq Nat
    BY <1>12, <2>2 DEF BrokerTakes, PacketTypes
  <2> QED
    BY <1>12, <2>1, <2>3, <2>4 DEF BrokerTakes, PacketTypes, Events, message, handler, script, reports
<1>13. CASE \E q \in 0..2 : BrokerPublishes(q)
  <2>1. PICK q \in 0..2 : BrokerPublishes(q)
    BY <1>13
  <2>2. messages' = messages + 1 /\ messages' \in Nat /\ Events < MaxEvents
        /\ queue' = Append(queue, Published(messages', q, messages'))
    BY <2>1 DEF BrokerPublishes, PacketTypes
  <2>0. PICK n \in Nat : n = messages'
    BY <2>2
  <2>4. Published(n, q, n) \in Packets
    BY PublishedType
  <2>3. queue' \in Seq(Packets)
    BY <2>2, <2>0, <2>4 DEF PacketTypes
  <2> QED
    BY <2>1, <2>2, <2>3 DEF BrokerPublishes, PacketTypes, Events, message, handler, script, reports
<1>14. CASE \E k \in 0..2 : BrokerSends(k)
  <2>1. PICK k \in 0..2 : BrokerSends(k)
    BY <1>14
  <2>2. k <= Len(queue) /\ inn' = Append(inn, [ack |-> taken, packets |-> SubSeq(queue, 1, k)])
        /\ queue' = SubSeq(queue, k + 1, Len(queue)) /\ taken' = 0
    BY <2>1 DEF BrokerSends
  <2>3. SubSeq(queue, 1, k) \in Seq(Packets) /\ SubSeq(queue, k + 1, Len(queue)) \in Seq(Packets)
    BY <2>2 DEF PacketTypes
  <2>4. [ack |-> taken, packets |-> SubSeq(queue, 1, k)] \in Segments
    BY <2>3 DEF Segments, PacketTypes
  <2>5. inn' \in Seq(Segments)
    BY <2>2, <2>4 DEF PacketTypes
  <2> QED
    BY <2>1, <2>2, <2>3, <2>5 DEF BrokerSends, PacketTypes, Events, message, handler, script, reports
<1> QED
  BY <1>1, <1>2, <1>3, <1>4, <1>5, <1>6, <1>7, <1>8, <1>9, <1>10, <1>11, <1>12, <1>13, <1>14 DEF Next

-----------------------------------------------------------------------------
(* Nothing is put in front of or between the messages on their way when    *)
(* parts of them are lost.                                                 *)
LEMMA OnTheWayKept ==
    ASSUME OnTheWay, UNCHANGED <<delivered, messages>>,
           job' = job \/ job' = <<>>, inn' = inn \/ inn' = <<>>, queue' = queue \/ queue' = <<>>
    PROVE  OnTheWay'
<1>0. DOMAIN <<>> = {}
  OBVIOUS
<1>1. MessagesInOrder' /\ \A i \in DOMAIN delivered' : delivered'[i] <= messages'
  BY DEF OnTheWay, MessagesInOrder
<1>2. Rising(job') /\ Numbered(job)' /\ Above(delivered', job')
  BY <1>0 DEF OnTheWay, Rising, Numbered, Above
<1>3. Rising(queue') /\ Numbered(queue)' /\ Above(delivered', queue')
  BY <1>0 DEF OnTheWay, Rising, Numbered, Above
<1>4. Below(job', queue')
  BY <1>0 DEF OnTheWay, Below
<1>5. ASSUME NEW x \in DOMAIN inn'
      PROVE  /\ Rising(inn'[x].packets) /\ (\A i \in DOMAIN inn'[x].packets : IsMessage(inn'[x].packets[i]) => inn'[x].packets[i].n <= messages')
             /\ Above(delivered', inn'[x].packets)
             /\ Below(job', inn'[x].packets) /\ Below(inn'[x].packets, queue')
             /\ \A y \in DOMAIN inn' : x < y => Below(inn'[x].packets, inn'[y].packets)
  <2>1. inn' = inn
    BY <1>0, <1>5
  <2> QED
    BY <1>0, <1>5, <2>1 DEF OnTheWay, Numbered, Below
<1> QED
  BY <1>1, <1>2, <1>3, <1>4, <1>5 DEF OnTheWay, Numbered

(* The next segment is read. *)
LEMMA OnTheWayRead ==
    ASSUME PacketTypes, OnTheWay, inn # <<>>, UNCHANGED <<delivered, messages, queue>>,
           inn' = Tail(inn), job' = Head(inn).packets
    PROVE  OnTheWay'
<1>1. inn \in Seq(Segments) /\ Len(inn) \in Nat /\ Len(inn) > 0 /\ DOMAIN inn = 1..Len(inn)
  BY DEF PacketTypes
<1>2. 1 \in DOMAIN inn /\ job' = inn[1].packets
  BY <1>1
<1>3. DOMAIN inn' = 1..Len(inn) - 1 /\ \A x \in DOMAIN inn' : x + 1 \in DOMAIN inn /\ inn'[x] = inn[x + 1]
  BY <1>1
<1>4. MessagesInOrder' /\ \A i \in DOMAIN delivered' : delivered'[i] <= messages'
  BY DEF OnTheWay, MessagesInOrder
<1>5. Rising(job') /\ Numbered(job)' /\ Above(delivered', job') /\ Below(job', queue')
  BY <1>2 DEF OnTheWay, Numbered
<1>6. Rising(queue') /\ Numbered(queue)' /\ Above(delivered', queue')
  BY DEF OnTheWay, Numbered
<1>7. ASSUME NEW x \in DOMAIN inn'
      PROVE  /\ Rising(inn'[x].packets) /\ (\A i \in DOMAIN inn'[x].packets : IsMessage(inn'[x].packets[i]) => inn'[x].packets[i].n <= messages')
             /\ Above(delivered', inn'[x].packets)
             /\ Below(job', inn'[x].packets) /\ Below(inn'[x].packets, queue')
             /\ \A y \in DOMAIN inn' : x < y => Below(inn'[x].packets, inn'[y].packets)
  <2>1. x + 1 \in DOMAIN inn /\ inn'[x] = inn[x + 1] /\ 1 < x + 1 /\ x \in Nat
    BY <1>1, <1>3
  <2>2. Below(job', inn'[x].packets)
    BY <1>2, <2>1 DEF OnTheWay
  <2>3. ASSUME NEW y \in DOMAIN inn', x < y
        PROVE  Below(inn'[x].packets, inn'[y].packets)
    <3>1. y + 1 \in DOMAIN inn /\ inn'[y] = inn[y + 1] /\ x + 1 < y + 1
      BY <1>1, <1>3, <2>1, <2>3
    <3> QED
      BY <2>1, <3>1 DEF OnTheWay
  <2> QED
    BY <2>1, <2>2, <2>3 DEF OnTheWay, Numbered
<1> QED
  BY <1>4, <1>5, <1>6, <1>7 DEF OnTheWay, Numbered

(* A message is given to the callback. *)
LEMMA OnTheWayDelivered ==
    ASSUME PacketTypes, OnTheWay, job # <<>>, IsMessage(Head(job)), UNCHANGED <<messages, queue, inn>>,
           job' = Tail(job), delivered' = Append(delivered, Head(job).n)
    PROVE  OnTheWay'
<1> DEFINE m == Head(job).n
<1>1. job \in Seq(Packets) /\ Len(job) \in Nat /\ Len(job) > 0 /\ DOMAIN job = 1..Len(job)
  BY DEF PacketTypes
<1>2. 1 \in DOMAIN job /\ m = job[1].n /\ IsMessage(job[1]) /\ job[1] \in Packets
  BY <1>1
<1>3. DOMAIN job' = 1..Len(job) - 1 /\ \A x \in DOMAIN job' : x + 1 \in DOMAIN job /\ 1 < x + 1 /\ job'[x] = job[x + 1]
  BY <1>1
<1>4. m \in Nat
  BY <1>2 DEF Packets
<1>5. m <= messages /\ messages \in Nat
  BY <1>2 DEF OnTheWay, Numbered, PacketTypes
<1>6. /\ \A x \in DOMAIN job' : IsMessage(job'[x]) => m < job'[x].n
      /\ \A x \in DOMAIN queue : IsMessage(queue[x]) => m < queue[x].n
      /\ \A y \in DOMAIN inn : \A x \in DOMAIN inn[y].packets : IsMessage(inn[y].packets[x]) => m < inn[y].packets[x].n
  BY <1>2, <1>3 DEF OnTheWay, Rising, Below
<1>7. delivered \in Seq(Nat) /\ Len(delivered) \in Nat /\ DOMAIN delivered = 1..Len(delivered)
  BY DEF PacketTypes
<1> HIDE DEF m
<1>8. delivered' = Append(delivered, m)
  BY DEF m
<1>9. /\ DOMAIN delivered' = 1..Len(delivered) + 1
      /\ \A i \in DOMAIN delivered' : (i \in DOMAIN delivered /\ delivered'[i] = delivered[i] /\ i <= Len(delivered))
                                      \/ (i = Len(delivered) + 1 /\ delivered'[i] = m)
  BY <1>4, <1>7, <1>8
<1>10. \A i \in DOMAIN delivered : delivered[i] < m
  BY <1>2 DEF OnTheWay, Above
<1>11. MessagesInOrder'
  <2> SUFFICES ASSUME NEW i \in DOMAIN delivered', NEW j \in DOMAIN delivered', i < j
              PROVE  delivered'[i] < delivered'[j]
    BY DEF MessagesInOrder
  <2>1. i \in DOMAIN delivered /\ delivered'[i] = delivered[i] /\ i \in Nat /\ j \in Nat
    BY <1>7, <1>9
  <2> QED
    BY <1>9, <1>10, <2>1 DEF OnTheWay, MessagesInOrder
<1>12. \A i \in DOMAIN delivered' : delivered'[i] <= messages'
  BY <1>5, <1>9 DEF OnTheWay
<1>13. ASSUME NEW s, \A j \in DOMAIN s : IsMessage(s[j]) => m < s[j].n, Above(delivered, s)
       PROVE  Above(delivered', s)
  BY <1>9, <1>13 DEF Above
<1>14. Rising(job') /\ Numbered(job)' /\ Above(delivered, job') /\ Below(job', queue')
  <2>1. Rising(job')
    <3> SUFFICES ASSUME NEW i \in DOMAIN job', NEW j \in DOMAIN job', i < j, IsMessage(job'[i]), IsMessage(job'[j])
                PROVE  job'[i].n < job'[j].n
      BY DEF Rising
    <3>1. i + 1 < j + 1
      BY <1>1, <1>3
    <3> QED BY <1>3, <3>1 DEF OnTheWay, Rising
  <2> QED
    BY <1>3, <2>1 DEF OnTheWay, Numbered, Above, Below
<1>15. Above(delivered', job')
  BY <1>6, <1>13, <1>14
<1>16. Rising(queue') /\ Numbered(queue)' /\ Above(delivered', queue')
  BY <1>6, <1>13 DEF OnTheWay, Numbered
<1>17. ASSUME NEW x \in DOMAIN inn'
       PROVE  /\ Rising(inn'[x].packets) /\ (\A i \in DOMAIN inn'[x].packets : IsMessage(inn'[x].packets[i]) => inn'[x].packets[i].n <= messages')
              /\ Above(delivered', inn'[x].packets)
              /\ Below(job', inn'[x].packets) /\ Below(inn'[x].packets, queue')
              /\ \A y \in DOMAIN inn' : x < y => Below(inn'[x].packets, inn'[y].packets)
  <2>1. Above(delivered', inn'[x].packets)
    BY <1>6, <1>13 DEF OnTheWay
  <2>2. Below(job', inn'[x].packets)
    BY <1>3 DEF OnTheWay, Below
  <2> QED
    BY <2>1, <2>2 DEF OnTheWay, Numbered
<1> QED
  BY <1>11, <1>12, <1>14, <1>15, <1>16, <1>17 DEF OnTheWay, Numbered

(* The broker has a packet more to send: an answer, or a new message with  *)
(* a number of its own.                                                    *)
LEMMA OnTheWayQueued ==
    ASSUME PacketTypes, OnTheWay, UNCHANGED <<delivered, inn, job>>, messages' \in Nat, messages <= messages',
           NEW p \in Packets, queue' = Append(queue, p),
           IsMessage(p) => p.n = messages + 1 /\ p.n <= messages'
    PROVE  OnTheWay'
<1>1. queue \in Seq(Packets) /\ Len(queue) \in Nat /\ DOMAIN queue = 1..Len(queue) /\ messages \in Nat
  BY DEF PacketTypes
<1>2. /\ DOMAIN queue' = 1..Len(queue) + 1
      /\ \A i \in DOMAIN queue' : (i \in DOMAIN queue /\ queue'[i] = queue[i] /\ i <= Len(queue))
                                  \/ (i = Len(queue) + 1 /\ queue'[i] = p)
  BY <1>1
<1>3. p.n \in Nat /\ \A q \in Packets : q.n \in Nat
  BY DEF Packets
<1>4. \A k \in Nat : k <= messages => k <= messages' /\ (IsMessage(p) => k < p.n)
  BY <1>1, <1>3
<1>5. delivered \in Seq(Nat) /\ job \in Seq(Packets) /\ inn \in Seq(Segments)
  BY DEF PacketTypes
<1>6. \A x \in DOMAIN inn : inn[x].packets \in Seq(Packets)
  <2>1. \A x \in DOMAIN inn : inn[x] \in Segments
    BY <1>5
  <2>2. \A r \in Segments : r.packets \in Seq(Packets)
    BY DEF Segments
  <2> QED BY <2>1, <2>2
<1>7. \A s \in Seq(Packets) : \A i \in DOMAIN s : s[i].n \in Nat
  <2> SUFFICES ASSUME NEW s \in Seq(Packets), NEW i \in DOMAIN s
              PROVE  s[i].n \in Nat
    OBVIOUS
  <2>1. s[i] \in Packets
    OBVIOUS
  <2> QED BY <1>3, <2>1
<1>8. MessagesInOrder' /\ \A i \in DOMAIN delivered' : delivered'[i] <= messages'
  BY <1>4, <1>5 DEF OnTheWay, MessagesInOrder
<1>9. Rising(job') /\ Numbered(job)' /\ Above(delivered', job')
  BY <1>4, <1>5, <1>7 DEF OnTheWay, Numbered
<1>10. ASSUME NEW s \in Seq(Packets), Numbered(s), Below(s, queue)
       PROVE  Below(s, queue')
  BY <1>2, <1>4, <1>7, <1>10 DEF Numbered, Below
<1>11. Rising(queue')
  <2> SUFFICES ASSUME NEW i \in DOMAIN queue', NEW j \in DOMAIN queue', i < j, IsMessage(queue'[i]), IsMessage(queue'[j])
              PROVE  queue'[i].n < queue'[j].n
    BY DEF Rising
  <2>1. i \in DOMAIN queue /\ queue'[i] = queue[i] /\ i \in Nat /\ j \in Nat
    BY <1>1, <1>2
  <2> QED
    BY <1>1, <1>2, <1>4, <1>7, <2>1 DEF OnTheWay, Rising, Numbered
<1>12. Numbered(queue)'
  BY <1>1, <1>2, <1>4, <1>7 DEF OnTheWay, Numbered
<1>13. Above(delivered', queue')
  <2>1. \A i \in DOMAIN delivered : delivered[i] \in Nat /\ delivered[i] <= messages
    BY <1>5 DEF OnTheWay
  <2> QED
    BY <1>2, <1>4, <2>1 DEF OnTheWay, Above
<1>14. Below(job', queue')
  BY <1>5, <1>10 DEF OnTheWay
<1>15. ASSUME NEW x \in DOMAIN inn'
       PROVE  /\ Rising(inn'[x].packets) /\ (\A i \in DOMAIN inn'[x].packets : IsMessage(inn'[x].packets[i]) => inn'[x].packets[i].n <= messages')
              /\ Above(delivered', inn'[x].packets)
              /\ Below(job', inn'[x].packets) /\ Below(inn'[x].packets, queue')
              /\ \A y \in DOMAIN inn' : x < y => Below(inn'[x].packets, inn'[y].packets)
  <2>1. Below(inn'[x].packets, queue')
    BY <1>6, <1>10 DEF OnTheWay
  <2>2. \A i \in DOMAIN inn'[x].packets : IsMessage(inn'[x].packets[i]) => inn'[x].packets[i].n <= messages'
    BY <1>4, <1>6, <1>7 DEF OnTheWay, Numbered
  <2> QED
    BY <2>1, <2>2 DEF OnTheWay
<1> QED
  BY <1>8, <1>9, <1>11, <1>12, <1>13, <1>14, <1>15 DEF OnTheWay, Numbered

(* The first packets of the queue become a segment. *)
LEMMA OnTheWaySent ==
    ASSUME PacketTypes, OnTheWay, UNCHANGED <<delivered, job, messages>>, NEW k \in Nat, k <= Len(queue), NEW a,
           inn' = Append(inn, [ack |-> a, packets |-> SubSeq(queue, 1, k)]),
           queue' = SubSeq(queue, k + 1, Len(queue))
    PROVE  OnTheWay'
<1> DEFINE s == SubSeq(queue, 1, k)
           r == [ack |-> a, packets |-> s]
<1>1. queue \in Seq(Packets) /\ Len(queue) \in Nat /\ DOMAIN queue = 1..Len(queue)
  BY DEF PacketTypes
<1>2. s \in Seq(Packets) /\ DOMAIN s = 1..k /\ \A i \in DOMAIN s : i \in Nat /\ i <= k /\ i \in DOMAIN queue /\ s[i] = queue[i]
  BY <1>1
<1>3. /\ queue' \in Seq(Packets) /\ DOMAIN queue' = 1..Len(queue) - k
      /\ \A i \in DOMAIN queue' : i \in Nat /\ i + k > k /\ i + k \in DOMAIN queue /\ queue'[i] = queue[i + k]
  BY <1>1
<1>4. r.packets = s
  OBVIOUS
<1>5. inn \in Seq(Segments) /\ Len(inn) \in Nat /\ DOMAIN inn = 1..Len(inn)
  BY DEF PacketTypes
<1> HIDE DEF s
<1> HIDE DEF r
<1>6. inn' = Append(inn, r)
  BY DEF r, s
<1>7. /\ DOMAIN inn' = 1..Len(inn) + 1
      /\ \A x \in DOMAIN inn' : (x \in DOMAIN inn /\ inn'[x] = inn[x] /\ x <= Len(inn))
                                \/ (x = Len(inn) + 1 /\ inn'[x] = r)
  BY <1>5, <1>6
<1>8. Rising(s) /\ Numbered(s) /\ Above(delivered, s) /\ Below(job, s)
  BY <1>2 DEF OnTheWay, Rising, Numbered, Above, Below
<1>9. Numbered(queue)' /\ Above(delivered, queue') /\ Below(job, queue')
  BY <1>3 DEF OnTheWay, Numbered, Above, Below
<1>10. Rising(queue')
  <2> SUFFICES ASSUME NEW i \in DOMAIN queue', NEW j \in DOMAIN queue', i < j, IsMessage(queue'[i]), IsMessage(queue'[j])
              PROVE  queue'[i].n < queue'[j].n
    BY DEF Rising
  <2>1. i + k < j + k
    BY <1>3
  <2> QED
    BY <1>3, <2>1 DEF OnTheWay, Rising
<1>11. Below(s, queue')
  <2> SUFFICES ASSUME NEW i \in DOMAIN s, NEW j \in DOMAIN queue', IsMessage(s[i]), IsMessage(queue'[j])
              PROVE  s[i].n < queue'[j].n
    BY DEF Below
  <2>1. i < j + k
    BY <1>2, <1>3
  <2> QED
    BY <1>2, <1>3, <2>1 DEF OnTheWay, Rising
<1>12. \A x \in DOMAIN inn : Below(inn[x].packets, s) /\ Below(inn[x].packets, queue')
  BY <1>2, <1>3 DEF OnTheWay, Below
<1>13. ASSUME NEW x \in DOMAIN inn'
       PROVE  /\ Rising(inn'[x].packets) /\ (\A i \in DOMAIN inn'[x].packets : IsMessage(inn'[x].packets[i]) => inn'[x].packets[i].n <= messages')
              /\ Above(delivered', inn'[x].packets)
              /\ Below(job', inn'[x].packets) /\ Below(inn'[x].packets, queue')
              /\ \A y \in DOMAIN inn' : x < y => Below(inn'[x].packets, inn'[y].packets)
  <2>1. CASE x \in DOMAIN inn /\ inn'[x] = inn[x] /\ x <= Len(inn)
    <3>1. ASSUME NEW y \in DOMAIN inn', x < y
          PROVE  Below(inn'[x].packets, inn'[y].packets)
      BY <1>4, <1>7, <1>12, <2>1, <3>1 DEF OnTheWay
    <3> QED
      BY <1>12, <2>1, <3>1 DEF OnTheWay, Numbered
  <2>2. CASE x = Len(inn) + 1 /\ inn'[x] = r
    <3>1. \A y \in DOMAIN inn' : ~(x < y)
      BY <1>5, <1>7, <2>2
    <3> QED
      BY <1>4, <1>8, <1>11, <2>2, <3>1 DEF Numbered
  <2> QED BY <1>7, <2>1, <2>2
<1>14. MessagesInOrder' /\ \A i \in DOMAIN delivered' : delivered'[i] <= messages'
  BY DEF OnTheWay, MessagesInOrder
<1>15. Rising(job') /\ Numbered(job)' /\ Above(delivered', job')
  BY DEF OnTheWay, Numbered
<1> QED
  BY <1>9, <1>10, <1>13, <1>14, <1>15 DEF OnTheWay, Numbered

LEMMA OnTheWayStep ==
    ASSUME StateTypes, Lives, PacketTypes, OnTheWay, Next
    PROVE  OnTheWay'
<1>1. CASE \/ \E c \in Conns, byName \in BOOLEAN : MqttConnect(c, byName)
           \/ MqttClose \/ (\E q \in 0..2 : MqttPublish(q)) \/ MqttSubscribe \/ DropClient \/ MqttDelete
           \/ SocketConnected \/ OfflineReturns \/ (\E ok \in BOOLEAN : DnsFound(ok)) \/ SocketTimer
           \/ ConnectInUse \/ SegmentOverruns
  <2>1. UNCHANGED <<delivered, messages, job, inn, queue>>
    BY <1>1 DEF MqttConnect, MqttClose, MqttPublish, MqttSubscribe, DropClient, MqttDelete, SocketConnected,
        OfflineReturns, DnsFound, SocketTimer, ConnectInUse, SegmentOverruns, GoOffline, wire, handler, broker, reports
  <2> QED
    BY <2>1, OnTheWayKept
<1>2. CASE LinkLost \/ LinkGone \/ SentReturns \/ ReadConnack \/ ReadSilently \/ CallbackReturns
  <2>1. /\ UNCHANGED <<delivered, messages>>
        /\ job' = job \/ job' = <<>>
        /\ inn' = inn \/ inn' = <<>>
        /\ queue' = queue \/ queue' = <<>>
    BY <1>2 DEF LinkLost, LinkGone, SentReturns, ReadConnack, ReadSilently, CallbackReturns, GoOffline, WireCut,
        HandlerDone, wire, handler, broker, reports
  <2> QED
    BY <2>1, OnTheWayKept
<1>3. CASE SegmentArrives
  BY <1>3, OnTheWayRead DEF SegmentArrives
<1>4. CASE ReadWithCallback
  <2>1. job # <<>> /\ UNCHANGED <<messages, queue, inn>>
    BY <1>4 DEF ReadWithCallback, Reads, Lives, broker
  <2>2. CASE Head(job).type = "PUBLISH"
    BY <1>4, <2>1, <2>2, OnTheWayDelivered DEF ReadWithCallback, FirstPacket, IsMessage
  <2>3. CASE Head(job).type # "PUBLISH"
    <3>1. job' = <<>> /\ delivered' = delivered
      BY <1>4, <2>3 DEF ReadWithCallback, FirstPacket
    <3> QED BY <2>1, <3>1, OnTheWayKept
  <2> QED BY <2>2, <2>3
<1>5. CASE BrokerTakes
  <2>1. UNCHANGED <<delivered, messages, job, inn>> /\ (queue' = queue \/ queue' = queue \o Reply(Head(out)))
    BY <1>5 DEF BrokerTakes, handler, reports
  <2> DEFINE p == Head(out)
  <2>2. p \in Packets
    BY <1>5 DEF BrokerTakes, PacketTypes
  <2>3. queue' = queue \/ queue' = queue \o Reply(p)
    BY <2>1
  <2> HIDE DEF p
  <2>4. Reply(p) = <<>> \/ \E r \in Packets : Reply(p) = <<r>> /\ r.type # "PUBLISH"
    BY <2>2, ReplyShape
  <2>5. queue \in Seq(Packets) /\ messages \in Nat
    BY DEF PacketTypes
  <2>6. CASE queue' = queue
    BY <2>1, <2>6, OnTheWayKept
  <2>7. CASE queue' = queue \o Reply(p) /\ Reply(p) = <<>>
    <3>1. queue' = queue
      BY <2>5, <2>7
    <3> QED BY <2>1, <3>1, OnTheWayKept
  <2>8. CASE queue' = queue \o Reply(p) /\ Reply(p) # <<>>
    <3>1. PICK r \in Packets : Reply(p) = <<r>> /\ r.type # "PUBLISH"
      BY <2>4, <2>8
    <3>2. queue' = Append(queue, r)
      BY <2>5, <2>8, <3>1
    <3>3. messages' \in Nat /\ messages <= messages' /\ ~IsMessage(r)
      BY <2>1, <2>5, <3>1 DEF IsMessage
    <3> QED BY <2>1, <3>2, <3>3, OnTheWayQueued
  <2> QED BY <2>3, <2>6, <2>7, <2>8
<1>6. CASE \E q \in 0..2 : BrokerPublishes(q)
  <2>1. PICK q \in 0..2 : BrokerPublishes(q)
    BY <1>6
  <2>2. UNCHANGED <<delivered, inn, job>> /\ messages' = messages + 1
        /\ queue' = Append(queue, Published(messages', q, messages'))
    BY <2>1 DEF BrokerPublishes, handler, reports
  <2>3. messages \in Nat /\ messages' \in Nat /\ messages <= messages'
    BY <2>2 DEF PacketTypes
  <2> DEFINE p == Published(messages', q, messages')
  <2>4. p \in Packets /\ p.n = messages'
    BY <2>3, PublishedType
  <2>5. queue' = Append(queue, p)
    BY <2>2
  <2> HIDE DEF p
  <2> QED BY <2>2, <2>3, <2>4, <2>5, OnTheWayQueued
<1>7. CASE \E k \in 0..2 : BrokerSends(k)
  <2>1. PICK k \in 0..2 : BrokerSends(k)
    BY <1>7
  <2>2. UNCHANGED <<delivered, job, messages>> /\ k \in Nat /\ k <= Len(queue)
        /\ inn' = Append(inn, [ack |-> taken, packets |-> SubSeq(queue, 1, k)])
        /\ queue' = SubSeq(queue, k + 1, Len(queue))
    BY <2>1 DEF BrokerSends, handler, reports
  <2> QED BY <2>2, OnTheWaySent
<1> QED
  BY <1>1, <1>2, <1>3, <1>4, <1>5, <1>6, <1>7 DEF Next

-----------------------------------------------------------------------------
(* What is earned stays earned: ids are only added, the broker forgets     *)
(* nothing, and a new pending message has none of the old ids.             *)
LEMMA EarnedKept ==
    ASSUME NEW m \in Nat, NEW mm \in Nat, m <= mm, NEW w, NEW ww, NEW g, NEW gg, g \subseteq gg,
           \A i \in 1..m : ww.type = "PUBLISH" /\ ww.id = i => w.type = "PUBLISH" /\ w.id = i /\ ww.n = w.n
    PROVE  /\ \A s : AckIn(s, m, w, g) => AckIn(s, mm, ww, gg)
           /\ \A s : AckOut(s, m, w, g) => AckOut(s, mm, ww, gg)
<1>0. \A k \in 1..m : k \in 1..mm
  OBVIOUS
<1>1. \A p : Earned(p, m, w, g) => Earned(p, mm, ww, gg)
  BY <1>0 DEF Earned
<1>2. \A p : EarnedIn(p, m, w, g) => EarnedIn(p, mm, ww, gg)
  BY <1>1 DEF EarnedIn
<1>3. \A p : EarnedOut(p, m, w, g) => EarnedOut(p, mm, ww, gg)
  BY <1>0, <1>1 DEF EarnedOut
<1> QED
  BY <1>2, <1>3 DEF AckIn, AckOut

LEMMA AckAppend ==
    ASSUME NEW s \in Seq(Packets), NEW p \in Packets, NEW m, NEW w, NEW g
    PROVE  /\ AckIn(s, m, w, g) /\ EarnedIn(p, m, w, g) => AckIn(Append(s, p), m, w, g)
           /\ AckOut(s, m, w, g) /\ EarnedOut(p, m, w, g) => AckOut(Append(s, p), m, w, g)
<1>1. \A i \in DOMAIN Append(s, p) : (i \in DOMAIN s /\ Append(s, p)[i] = s[i]) \/ Append(s, p)[i] = p
  OBVIOUS
<1> QED
  BY <1>1 DEF AckIn, AckOut

LEMMA AckEmpty ==
    ASSUME NEW m, NEW w, NEW g
    PROVE  AckIn(<<>>, m, w, g) /\ AckOut(<<>>, m, w, g)
  BY DEF AckIn, AckOut

(* What Send does to the packets on their way out. *)
LEMMA AckSend ==
    ASSUME out \in Seq(Packets), NEW p \in Packets, Send(p) \/ UNCHANGED <<out, flight>>,
           NEW m, NEW w, NEW g, AckOut(out, m, w, g), EarnedOut(p, m, w, g)
    PROVE  AckOut(out', m, w, g)
<1>1. out' = out \/ out' = Append(out, p)
  BY SendShape
<1> QED
  BY <1>1, AckAppend

(* Before the ids wrap each is the successor of the last. *)
LEMMA IdIsNext ==
    ASSUME NEW i \in Nat, i + 1 < IdSpan
    PROVE  IdAfter(i) = i + 1
<1>1. IdSpan \in Nat /\ i + 1 \in Nat /\ i + 1 > 0
  BY MqttAssumption
<1>2. (i + 1) % IdSpan = i + 1
  BY <1>1
<1> QED
  BY <1>1, <1>2 DEF IdAfter

LEMMA AcksStep ==
    ASSUME MaxEvents < IdSpan, StateTypes, Lives, PacketTypes, AcksEarned, Next
    PROVE  AcksEarned'
<1> USE MqttAssumption
<1>0. /\ message_id \in Nat /\ published \in Nat /\ subscribed \in Nat /\ messages \in Nat /\ pending \in Packets
      /\ out \in Seq(Packets) /\ outbound \in Seq(Packets) /\ job \in Seq(Packets) /\ queue \in Seq(Packets)
      /\ inn \in Seq(Segments) /\ got \subseteq Nat
  BY DEF PacketTypes
<1>00. message_id <= message_id /\ got \subseteq got
  BY <1>0
<1>1. CASE \/ \E c \in Conns, byName \in BOOLEAN : MqttConnect(c, byName)
           \/ MqttClose \/ DropClient \/ MqttDelete \/ OfflineReturns \/ ConnectInUse \/ SegmentOverruns
           \/ \E ok \in BOOLEAN : DnsFound(ok)
  <2>1. /\ UNCHANGED <<pending, message_id, inited, job, outbound, out, inn, queue>>
        /\ UNCHANGED <<published, subscribed, got, acked>>
    BY <1>1 DEF MqttConnect, MqttClose, DropClient, MqttDelete, OfflineReturns, ConnectInUse, SegmentOverruns, DnsFound, GoOffline, wire,
        message, handler, broker, script, reports
  <2> QED
    BY <2>1 DEF AcksEarned, AllEarned, AckedMeansReceived
<1>2. CASE \E q \in 0..2 : MqttPublish(q)
  <2>1. PICK q \in 0..2 : MqttPublish(q)
    BY <1>2
  <2>2. /\ published' = published + 1 /\ outbound' = <<>> /\ Events < MaxEvents
        /\ UNCHANGED <<subscribed, job, inn, queue, got, acked, inited>>
    BY <2>1 DEF MqttPublish, broker, reports
  <2>3. IdAfter(message_id) = message_id + 1
    <3>1. message_id + 1 < IdSpan
      BY <1>0, <2>2 DEF AcksEarned, Events
    <3> QED BY <1>0, <3>1, IdIsNext
  <2>4. message_id' = IF inited /\ q > 0 THEN message_id + 1 ELSE message_id
    BY <2>1, <2>3 DEF MqttPublish
  <2> DEFINE i == IF ~inited THEN pending.id ELSE IF q > 0 THEN message_id' ELSE 0
  <2>5. i \in Nat /\ published' \in Nat /\ message_id' \in Nat /\ message_id <= message_id'
        /\ message_id' <= published' + subscribed' /\ i \notin 1..message_id
    BY <1>0, <2>2, <2>4 DEF AcksEarned, Packets
  <2>6. (~inited => i = 0 /\ message_id' = 0) /\ (inited /\ q > 0 => i \in 1..message_id')
    BY <1>0, <2>4 DEF AcksEarned
  <2>7. pending' = Published(i, q, published')
    BY <2>1 DEF MqttPublish
  <2> HIDE DEF i
  <2>8. pending' \in Packets /\ pending'.type = "PUBLISH" /\ pending'.id = i /\ pending'.qos = q /\ pending'.n = published'
    BY <2>5, <2>7, PublishedType
  <2>9. AllEarned(message_id', pending', got)
    <3>1. \A k \in 1..message_id : pending'.type = "PUBLISH" /\ pending'.id = k =>
             pending.type = "PUBLISH" /\ pending.id = k /\ pending'.n = pending.n
      BY <2>5, <2>8
    <3>2. /\ \A s : AckIn(s, message_id, pending, got) => AckIn(s, message_id', pending', got)
          /\ \A s : AckOut(s, message_id, pending, got) => AckOut(s, message_id', pending', got)
      BY <1>0, <1>00, <2>5, <3>1, EarnedKept
    <3> QED
      BY <3>2 DEF AcksEarned, AllEarned
  <2>10. AckOut(out', message_id', pending', got)
    <3>1. CASE inited
      <4>1. EarnedOut(pending', message_id', pending', got)
        BY <2>6, <2>8, <3>1 DEF EarnedOut
      <4>2. Send(pending')
        BY <2>1, <3>1 DEF MqttPublish
      <4> QED
        BY <1>0, <2>8, <2>9, <4>1, <4>2, AckSend DEF AllEarned
    <3>2. CASE ~inited
      <4>1. out' = out
        BY <2>1, <3>2 DEF MqttPublish
      <4> QED BY <2>9, <4>1 DEF AllEarned
    <3> QED BY <3>1, <3>2
  <2> QED
    BY <2>2, <2>5, <2>6, <2>8, <2>9, <2>10, AckEmpty DEF AcksEarned, AllEarned, AckedMeansReceived
<1>3. CASE MqttSubscribe
  <2>1. /\ subscribed' = subscribed + 1 /\ Events < MaxEvents /\ message_id' = IdAfter(message_id)
        /\ UNCHANGED <<published, job, inn, queue, got, acked, inited>>
    BY <1>3 DEF MqttSubscribe, broker, reports
  <2>2. IdAfter(message_id) = message_id + 1
    <3>1. message_id + 1 < IdSpan
      BY <1>0, <2>1 DEF AcksEarned, Events
    <3> QED BY <1>0, <3>1, IdIsNext
  <2>3. message_id' \in Nat /\ message_id <= message_id' /\ message_id' <= published' + subscribed'
    BY <1>0, <2>1, <2>2 DEF AcksEarned
  <2>4. pending'.type = "SUBSCRIBE"
    BY <1>0, <1>3, <2>3, SubscribeRecord DEF MqttSubscribe
  <2>5. inited
    BY <1>3 DEF MqttSubscribe, Lives
  <2>6. AllEarned(message_id', pending', got)
    <3>1. \A k \in 1..message_id : pending'.type = "PUBLISH" /\ pending'.id = k =>
             pending.type = "PUBLISH" /\ pending.id = k /\ pending'.n = pending.n
      BY <2>4
    <3>2. /\ \A s : AckIn(s, message_id, pending, got) => AckIn(s, message_id', pending', got)
          /\ \A s : AckOut(s, message_id, pending, got) => AckOut(s, message_id', pending', got)
      BY <1>0, <1>00, <2>3, <3>1, EarnedKept
    <3> QED
      BY <3>2 DEF AcksEarned, AllEarned
  <2> DEFINE p == Packet("SUBSCRIBE", message_id')
  <2>7. p \in Packets /\ p.type = "SUBSCRIBE"
    BY <2>3, PacketType DEF Types
  <2>8. Send(p) /\ (outbound' = <<p>> \/ outbound' = <<>>)
    BY <1>3 DEF MqttSubscribe
  <2> HIDE DEF p
  <2>9. EarnedOut(p, message_id', pending', got)
    BY <2>7 DEF EarnedOut
  <2>10. AckOut(out', message_id', pending', got)
    BY <1>0, <2>6, <2>7, <2>8, <2>9, AckSend DEF AllEarned
  <2>11. AckOut(outbound', message_id', pending', got)
    BY <2>8, <2>9, AckEmpty DEF AckOut
  <2> QED
    BY <2>1, <2>3, <2>5, <2>6, <2>10, <2>11 DEF AcksEarned, AllEarned, AckedMeansReceived
<1>4. CASE SocketConnected
  <2>1. /\ UNCHANGED <<pending, message_id, job, outbound, inn, queue, published, subscribed, got, acked>>
        /\ inited' /\ Send(Packet("CONNECT", 0))
    BY <1>4 DEF SocketConnected, handler, broker, script, reports
  <2> DEFINE p == Packet("CONNECT", 0)
  <2>2. p \in Packets /\ p.type = "CONNECT"
    BY PacketType DEF Types
  <2>3. Send(p)
    BY <2>1
  <2> HIDE DEF p
  <2>4. EarnedOut(p, message_id, pending, got)
    BY <2>2 DEF EarnedOut
  <2>5. AckOut(out', message_id, pending, got)
    BY <1>0, <2>2, <2>3, <2>4, AckSend DEF AcksEarned, AllEarned
  <2> QED
    BY <2>1, <2>5 DEF AcksEarned, AllEarned, AckedMeansReceived
<1>5. CASE LinkLost \/ LinkGone
  <2>1. UNCHANGED <<pending, message_id, inited, job, outbound, published, subscribed, got, acked>>
    BY <1>5 DEF LinkLost, LinkGone, GoOffline, message, handler, script, reports
  <2>2. UNCHANGED <<out, inn, queue>> \/ (out' = <<>> /\ inn' = <<>> /\ queue' = <<>>)
    BY <1>5 DEF LinkLost, LinkGone, wire, WireCut
  <2>3. CASE UNCHANGED <<out, inn, queue>>
    BY <2>1, <2>3 DEF AcksEarned, AllEarned, AckedMeansReceived
  <2>4. CASE out' = <<>> /\ inn' = <<>> /\ queue' = <<>>
    <3>1. \A x \in DOMAIN inn' : FALSE
      BY <2>4
    <3> QED
      BY <2>1, <2>4, <3>1, AckEmpty DEF AcksEarned, AllEarned, AckedMeansReceived
  <2> QED BY <2>2, <2>3, <2>4
<1>6. CASE SocketTimer
  <2>1. /\ UNCHANGED <<message_id, inited, job, outbound, inn, queue, published, subscribed, got, acked>>
        /\ Send(Packet("PINGREQ", 0)) \/ UNCHANGED <<out, flight>>
        /\ pending' = pending \/ pending' = [pending EXCEPT !.type = "PINGREQ"]
    BY <1>6 DEF SocketTimer, handler, broker, script, reports
  <2>2. pending'.id = pending.id /\ (pending' = pending \/ pending'.type = "PINGREQ")
    BY <1>0, <2>1 DEF Packets
  <2>3. AllEarned(message_id, pending', got)
    <3>1. \A k \in 1..message_id : pending'.type = "PUBLISH" /\ pending'.id = k =>
             pending.type = "PUBLISH" /\ pending.id = k /\ pending'.n = pending.n
      BY <2>2
    <3>2. /\ \A s : AckIn(s, message_id, pending, got) => AckIn(s, message_id, pending', got)
          /\ \A s : AckOut(s, message_id, pending, got) => AckOut(s, message_id, pending', got)
      BY <1>0, <1>00, <3>1, EarnedKept
    <3> QED
      BY <3>2 DEF AcksEarned, AllEarned
  <2> DEFINE p == Packet("PINGREQ", 0)
  <2>4. p \in Packets /\ p.type = "PINGREQ"
    BY PacketType DEF Types
  <2>5. Send(p) \/ UNCHANGED <<out, flight>>
    BY <2>1
  <2> HIDE DEF p
  <2>6. EarnedOut(p, message_id, pending', got)
    BY <2>4 DEF EarnedOut
  <2>7. AckOut(out', message_id, pending', got)
    BY <1>0, <2>3, <2>4, <2>5, <2>6, AckSend DEF AllEarned
  <2> QED
    BY <2>1, <2>2, <2>3, <2>7 DEF AcksEarned, AllEarned, AckedMeansReceived
<1>7. CASE SegmentArrives
  <2>1. /\ inn # <<>> /\ inn' = Tail(inn) /\ job' = Head(inn).packets
        /\ UNCHANGED <<pending, message_id, inited, outbound, out, queue, published, subscribed, got, acked>>
    BY <1>7 DEF SegmentArrives, message, script
  <2>2. 1 \in DOMAIN inn /\ job' = inn[1].packets /\ \A x \in DOMAIN inn' : x + 1 \in DOMAIN inn /\ inn'[x] = inn[x + 1]
    BY <1>0, <2>1
  <2> QED
    BY <2>1, <2>2 DEF AcksEarned, AllEarned, AckedMeansReceived
<1>8. CASE SentReturns \/ ReadConnack
  <2>1. /\ job' = job \/ job' = <<>>
        /\ outbound' = outbound \/ outbound' = <<>>
        /\ UNCHANGED <<pending, message_id, inited, out, inn, queue, published, subscribed, got, acked>>
    BY <1>8 DEF SentReturns, ReadConnack, HandlerDone, message, broker, script, reports
  <2>2. AckIn(job', message_id, pending, got) /\ AckOut(outbound', message_id, pending, got)
    BY <2>1, AckEmpty DEF AcksEarned, AllEarned
  <2> QED
    BY <2>1, <2>2 DEF AcksEarned, AllEarned, AckedMeansReceived
<1>9. CASE ReadWithCallback \/ ReadSilently
  <2>1. job # <<>> /\ UNCHANGED <<pending, message_id, inited, inn, queue, published, subscribed, got>>
    BY <1>9 DEF ReadWithCallback, ReadSilently, Reads, Lives, message, broker, script
  <2> DEFINE h == Head(job)
  <2>2. 1 \in DOMAIN job /\ h = job[1] /\ h \in Packets
    BY <1>0, <2>1
  <2>3. EarnedIn(h, message_id, pending, got)
    BY <2>2 DEF AcksEarned, AllEarned, AckIn
  <2>4. AckIn(Tail(job), message_id, pending, got)
    <3>1. \A x \in DOMAIN Tail(job) : x + 1 \in DOMAIN job /\ Tail(job)[x] = job[x + 1]
      BY <1>0, <2>1
    <3> QED BY <3>1 DEF AcksEarned, AllEarned, AckIn
  <2>5. Answer = <<>> \/ \E r \in Packets : Answer = <<r>> /\ EarnedOut(r, message_id, pending, got)
    <3>1. Answer = <<>> \/ \E r \in Packets :
                 /\ Answer = <<r>>
                 /\ r.type \in {"PUBACK", "PUBREC", "PUBREL", "PUBCOMP"}
                 /\ r.type = "PUBREL" => r.id = h.id /\ h.type = "PUBREC"
      BY <1>0, <2>1, AnswerShape
    <3> HIDE DEF h
    <3>2. \A r \in Packets : /\ r.type \in {"PUBACK", "PUBREC", "PUBREL", "PUBCOMP"}
                             /\ r.type = "PUBREL" => r.id = h.id /\ h.type = "PUBREC"
                             => EarnedOut(r, message_id, pending, got)
      BY <2>3 DEF EarnedOut, EarnedIn, Earned
    <3> QED BY <3>1, <3>2
  <2>6. CASE ReadWithCallback
    <3>1. (job' = Tail(job) \/ job' = <<>>) /\ outbound' = Answer /\ UNCHANGED out
      BY <2>6 DEF ReadWithCallback
    <3>2. acked' \subseteq got
      <4>1. CASE h.type \in {"PUBACK", "PUBCOMP"}
        <5>1. pending.type = "PUBLISH" /\ pending.id = h.id /\ acked' = acked \union {pending.n}
          BY <2>6, <4>1 DEF ReadWithCallback, FirstPacket, AckMatches, IsAck
        <5>2. pending.n \in got
          BY <2>3, <4>1, <5>1 DEF EarnedIn, Earned
        <5> QED BY <5>1, <5>2 DEF AcksEarned, AckedMeansReceived
      <4>2. CASE h.type \notin {"PUBACK", "PUBCOMP"}
        <5>1. acked' = acked
          BY <2>6, <4>2 DEF ReadWithCallback, FirstPacket, IsAck
        <5> QED BY <5>1 DEF AcksEarned, AckedMeansReceived
      <4> QED BY <4>1, <4>2
    <3>3. AckIn(job', message_id, pending, got) /\ AckOut(outbound', message_id, pending, got)
      <4>1. AckIn(job', message_id, pending, got)
        BY <2>4, <3>1, AckEmpty
      <4>2. AckOut(Answer, message_id, pending, got)
        BY <2>5, AckEmpty DEF AckOut
      <4> QED BY <3>1, <4>1, <4>2
    <3> QED
      BY <2>1, <3>1, <3>2, <3>3 DEF AcksEarned, AllEarned, AckedMeansReceived
  <2>7. CASE ReadSilently
    <3>1. job' = <<>> /\ outbound' = <<>> /\ UNCHANGED acked
      BY <2>7 DEF ReadSilently, HandlerDone, reports
    <3>2. AckOut(out', message_id, pending, got)
      <4>1. CASE Answer = <<>>
        BY <2>7, <4>1 DEF ReadSilently, AcksEarned, AllEarned
      <4>2. CASE Answer # <<>>
        <5>1. PICK r \in Packets : Answer = <<r>> /\ EarnedOut(r, message_id, pending, got)
          BY <2>5, <4>2
        <5>2. Send(r)
          BY <2>7, <4>2, <5>1 DEF ReadSilently
        <5> QED BY <1>0, <5>1, <5>2, AckSend DEF AcksEarned, AllEarned
      <4> QED BY <4>1, <4>2
    <3> QED
      BY <2>1, <3>1, <3>2, AckEmpty DEF AcksEarned, AllEarned, AckedMeansReceived
  <2> QED BY <1>9, <2>6, <2>7
<1>10. CASE CallbackReturns
  <2>1. /\ (job' = job \/ job' = <<>>) /\ outbound' = <<>>
        /\ UNCHANGED <<pending, message_id, inited, inn, queue, published, subscribed, got, acked>>
    BY <1>10 DEF CallbackReturns, HandlerDone, message, broker, script, reports
  <2>2. AckOut(out', message_id, pending, got)
    <3>1. CASE outbound = <<>> \/ job # <<>>
      BY <1>10, <3>1 DEF CallbackReturns, AcksEarned, AllEarned
    <3>2. CASE outbound # <<>> /\ job = <<>>
      <4> DEFINE r == outbound[1]
      <4>1. r \in Packets /\ 1 \in DOMAIN outbound
        BY <1>0, <3>2
      <4>2. EarnedOut(r, message_id, pending, got)
        BY <4>1 DEF AcksEarned, AllEarned, AckOut
      <4>3. Send(r)
        BY <1>10, <3>2 DEF CallbackReturns
      <4> HIDE DEF r
      <4> QED BY <1>0, <4>1, <4>2, <4>3, AckSend DEF AcksEarned, AllEarned
    <3> QED BY <3>1, <3>2
  <2>3. AckIn(job', message_id, pending, got)
    BY <2>1, AckEmpty DEF AcksEarned, AllEarned
  <2> QED
    BY <2>1, <2>2, <2>3, AckEmpty DEF AcksEarned, AllEarned, AckedMeansReceived
<1>11. CASE BrokerTakes
  <2>1. /\ out # <<>> /\ out' = Tail(out)
        /\ UNCHANGED <<pending, message_id, inited, job, outbound, inn, published, subscribed, acked>>
    BY <1>11 DEF BrokerTakes, message, handler, script, reports
  <2> DEFINE p == Head(out)
  <2>2. 1 \in DOMAIN out /\ p = out[1] /\ p \in Packets
    BY <1>0, <2>1
  <2>3. EarnedOut(p, message_id, pending, got)
    BY <2>2 DEF AcksEarned, AllEarned, AckOut
  <2>4. AckOut(Tail(out), message_id, pending, got)
    <3>1. \A x \in DOMAIN Tail(out) : x + 1 \in DOMAIN out /\ Tail(out)[x] = out[x + 1]
      BY <1>0, <2>1
    <3> QED BY <3>1 DEF AcksEarned, AllEarned, AckOut
  <2>5. \/ UNCHANGED <<queue, got>>
        \/ /\ queue' = queue \o Reply(p)
           /\ got' = IF p.type = "PUBLISH" THEN got \union {p.n} ELSE got
    BY <1>11 DEF BrokerTakes
  <2> HIDE DEF p
  <2>6. got \subseteq got'
    BY <2>5
  <2>7. AllEarned(message_id, pending, got') /\ AckOut(Tail(out), message_id, pending, got')
    <3>1. /\ \A s : AckIn(s, message_id, pending, got) => AckIn(s, message_id, pending, got')
          /\ \A s : AckOut(s, message_id, pending, got) => AckOut(s, message_id, pending, got')
      BY <1>0, <1>00, <2>6, EarnedKept
    <3> QED
      BY <2>4, <3>1 DEF AcksEarned, AllEarned
  <2>8. AckIn(queue', message_id, pending, got')
    <3>1. CASE UNCHANGED <<queue, got>>
      BY <3>1 DEF AcksEarned, AllEarned
    <3>2. CASE /\ queue' = queue \o Reply(p)
               /\ got' = IF p.type = "PUBLISH" THEN got \union {p.n} ELSE got
      <4>1. CASE Reply(p) = <<>>
        <5>1. queue' = queue
          BY <1>0, <3>2, <4>1
        <5> QED BY <2>7, <5>1 DEF AllEarned
      <4>2. CASE Reply(p) # <<>>
        <5>1. PICK r \in Packets : /\ Reply(p) = <<r>>
                                   /\ r.type \in {"PUBACK", "PUBREC", "PUBCOMP"} =>
                                         r.id = p.id /\ (p.type = "PUBREL" \/ (p.type = "PUBLISH" /\ p.qos > 0))
          BY <2>2, <4>2, ReplyShape
        <5>2. queue' = Append(queue, r)
          BY <1>0, <3>2, <5>1
        <5>3. EarnedIn(r, message_id, pending, got')
          BY <2>3, <2>6, <3>2, <5>1 DEF EarnedOut, EarnedIn, Earned
        <5> QED BY <1>0, <2>7, <5>2, <5>3, AckAppend DEF AllEarned
      <4> QED BY <4>1, <4>2
    <3> QED BY <2>5, <3>1, <3>2
  <2> QED
    BY <2>1, <2>6, <2>7, <2>8 DEF AcksEarned, AllEarned, AckedMeansReceived
<1>12. CASE \E q \in 0..2 : BrokerPublishes(q)
  <2>1. PICK q \in 0..2 : BrokerPublishes(q)
    BY <1>12
  <2>2. /\ messages' = messages + 1 /\ queue' = Append(queue, Published(messages', q, messages'))
        /\ UNCHANGED <<pending, message_id, inited, job, outbound, out, inn, published, subscribed, got, acked>>
    BY <2>1 DEF BrokerPublishes, message, handler, script, reports
  <2> DEFINE p == Published(messages', q, messages')
  <2>3. p \in Packets /\ p.type = "PUBLISH"
    BY <1>0, <2>2, PublishedType
  <2>4. queue' = Append(queue, p)
    BY <2>2
  <2> HIDE DEF p
  <2>5. AckIn(queue', message_id, pending, got)
    <3>1. EarnedIn(p, message_id, pending, got)
      BY <2>3 DEF EarnedIn
    <3> QED BY <1>0, <2>3, <2>4, <3>1, AckAppend DEF AcksEarned, AllEarned
  <2> QED
    BY <2>2, <2>5 DEF AcksEarned, AllEarned, AckedMeansReceived
<1>13. CASE \E k \in 0..2 : BrokerSends(k)
  <2>1. PICK k \in 0..2 : BrokerSends(k)
    BY <1>13
  <2>2. /\ k \in Nat /\ k <= Len(queue)
        /\ inn' = Append(inn, [ack |-> taken, packets |-> SubSeq(queue, 1, k)])
        /\ queue' = SubSeq(queue, k + 1, Len(queue))
        /\ UNCHANGED <<pending, message_id, inited, job, outbound, out, published, subscribed, got, acked>>
    BY <2>1 DEF BrokerSends, message, handler, script, reports
  <2> DEFINE s == SubSeq(queue, 1, k)
             r == [ack |-> taken, packets |-> s]
  <2>3. \A i \in DOMAIN s : i \in DOMAIN queue /\ s[i] = queue[i]
    BY <1>0, <2>2
  <2>4. \A i \in DOMAIN queue' : i + k \in DOMAIN queue /\ queue'[i] = queue[i + k]
    <3>1. k \in Nat /\ k <= Len(queue) /\ queue' = SubSeq(queue, k + 1, Len(queue)) /\ queue \in Seq(Packets)
      BY <1>0, <2>2
    <3> QED BY <3>1, RestAfter
  <2>5. r.packets = s
    OBVIOUS
  <2> HIDE DEF s
  <2> HIDE DEF r
  <2>6. inn' = Append(inn, r)
    BY <2>2 DEF r, s
  <2>7. \A x \in DOMAIN inn' : (x \in DOMAIN inn /\ inn'[x] = inn[x]) \/ inn'[x] = r
    BY <1>0, <2>6
  <2>8. AckIn(s, message_id, pending, got) /\ AckIn(queue', message_id, pending, got)
    BY <2>3, <2>4 DEF AcksEarned, AllEarned, AckIn
  <2> QED
    BY <2>2, <2>5, <2>7, <2>8 DEF AcksEarned, AllEarned, AckedMeansReceived
<1> QED
  BY <1>1, <1>2, <1>3, <1>4, <1>5, <1>6, <1>7, <1>8, <1>9, <1>10, <1>11, <1>12, <1>13 DEF Next

-----------------------------------------------------------------------------
LEMMA OpeningStep ==
    ASSUME StateTypes, Lives, PacketTypes, Opening, Next
    PROVE  Opening'
<1> USE MqttAssumption DEF NULL
<1>0. /\ out \in Seq(Packets) /\ job \in Seq(Packets) /\ queue \in Seq(Packets) /\ inn \in Seq(Segments)
      /\ flight \in Int /\ taken \in Nat /\ session \in {"none", "open", "bad"} /\ send_timeout \in Nat
      /\ link \in [Conns -> Links] /\ pesp_conn \in Conns \union {NULL} /\ NULL \notin Conns
      /\ phase \in {"idle", "received", "again", "sent", "callback", "offline", "renewed", "undefined"}
  BY DEF PacketTypes, StateTypes, StackTypeOK
(* While the connection is not up, another packet than CONNECT may be written. *)
<1>00. ASSUME NEW p \in Packets, p.type # "CONNECT", Send(p) \/ UNCHANGED <<out, flight>>, Quiet,
              UNCHANGED <<session, taken, inn, queue>>
       PROVE  Quiet'
  <2>1. \/ out' = Append(out, p) /\ flight' = flight + 1
        \/ out' = out /\ flight' = flight
    BY <1>00, SendShape
  <2>2. CASE out' = out /\ flight' = flight
    BY <1>00, <2>2 DEF Quiet
  <2>3. CASE out' = Append(out, p) /\ flight' = flight + 1
    <3>1. Len(out') = Len(out) + 1 /\ \A i \in DOMAIN out' : (i \in DOMAIN out /\ out'[i] = out[i]) \/ out'[i] = p
      BY <1>0, <2>3
    <3> QED BY <1>00, <2>3, <3>1 DEF Quiet
  <2> QED BY <2>1, <2>2, <2>3
<1>1. CASE \E c \in Conns, byName \in BOOLEAN : MqttConnect(c, byName)
  <2>1. PICK c \in Conns, byName \in BOOLEAN : MqttConnect(c, byName)
    BY <1>1
  <2>2. /\ pesp_conn' = c /\ ScriptRuns /\ (pesp_conn # NULL => link[pesp_conn] = "none")
        /\ phase' \in {phase, "renewed"} /\ (phase' # phase => phase = "offline")
        /\ UNCHANGED <<connState, job, out, flight, inn, session, queue, taken>>
    BY <2>1 DEF MqttConnect, InUse, broker
  <2>3. link'[c] \in {"dns", "syn", "stuck", "none"} /\ c # NULL
    BY <1>0, <2>1 DEF MqttConnect, StackConnect
  <2>4. NotUp /\ ~Awaits' /\ phase \notin {"received", "again", "undefined"}
    BY <2>2, <2>3 DEF NotUp, Awaits, ScriptRuns
  <2>5. Quiet'
    BY <2>2, <2>4 DEF Opening, Quiet
  <2> QED
    BY <2>2, <2>4, <2>5 DEF Opening
<1>2. CASE MqttClose
  <2>1. /\ ScriptRuns /\ pesp_conn # NULL /\ ClientClose(pesp_conn)
        /\ UNCHANGED <<pesp_conn, connState, phase, job, out, flight, inn, session, queue, taken>>
    BY <1>2 DEF MqttClose, handler, broker, state
  <2>2. link'[pesp_conn] # "up" /\ (NotUp' => NotUp) /\ phase \notin {"received", "again"}
    BY <1>0, <2>1 DEF ClientClose, InList, NotUp, ScriptRuns
  <2>3. ~Awaits'
    BY <2>1, <2>2 DEF Awaits
  <2>4. NotUp' => Quiet'
    BY <2>1, <2>2 DEF Opening, Quiet, ScriptRuns
  <2> QED
    BY <2>1, <2>2, <2>3, <2>4 DEF Opening
<1>3. CASE (\E q \in 0..2 : MqttPublish(q)) \/ MqttSubscribe
  <2>1. /\ ScriptRuns /\ pesp_conn # NULL
        /\ UNCHANGED <<link, pesp_conn, connState, phase, job, inn, session, queue, taken>>
        /\ early' = (early \/ connState # "DATA" \/ link[pesp_conn] # "up")
    BY <1>3 DEF MqttPublish, MqttSubscribe, broker, state, stack
  <2>2. ~Awaits'
    BY <2>1 DEF Awaits
  <2>3. \E p \in Packets : p.type # "CONNECT" /\ (Send(p) \/ UNCHANGED <<out, flight>>)
    <3>1. CASE \E q \in 0..2 : MqttPublish(q)
      <4>1. PICK q \in 0..2 : MqttPublish(q)
        BY <3>1
      <4>2. Send(pending') \/ UNCHANGED <<out, flight>>
        BY <4>1 DEF MqttPublish
      <4>3. pending' = Published(IF ~inited THEN pending.id ELSE IF q > 0 THEN message_id' ELSE 0, q, published')
        BY <4>1 DEF MqttPublish
      <4>4. pending'.type = "PUBLISH"
        BY <4>3 DEF Published
      <4>5. pending' \in Packets
        BY PacketTypesStep DEF PacketTypes
      <4> QED BY <4>2, <4>4, <4>5
    <3>2. CASE MqttSubscribe
      <4>1. message_id' \in Nat
        BY PacketTypesStep DEF PacketTypes
      <4> DEFINE p == Packet("SUBSCRIBE", message_id')
      <4>2. p \in Packets /\ p.type = "SUBSCRIBE"
        BY <4>1, PacketType DEF Types
      <4>3. Send(p)
        BY <3>2 DEF MqttSubscribe
      <4> HIDE DEF p
      <4> QED BY <4>2, <4>3
    <3> QED BY <1>3, <3>1, <3>2
  <2>4. NotUp' => Quiet'
    BY <1>00, <2>1, <2>3 DEF Opening, NotUp, ScriptRuns
  <2> QED
    BY <2>1, <2>2, <2>4 DEF Opening
<1>4. CASE DropClient \/ MqttDelete \/ (OfflineReturns /\ phase = "offline")
  <2>1. /\ UNCHANGED <<link, connState, job, out, flight, inn, session, queue, taken, send_timeout, early>>
        /\ phase \in {"idle", "offline"} /\ phase' = "idle"
    BY <1>4 DEF DropClient, MqttDelete, OfflineReturns, handler, broker, state, stack, script
  <2>2. CASE DropClient
    <3>1. UNCHANGED <<pesp_conn, phase>>
      BY <2>2 DEF DropClient, handler
    <3>2. Quiet => Quiet'
      BY <2>1 DEF Quiet
    <3>3. (Doomed => Doomed') /\ (Written => Written') /\ (Taken => Taken') /\ (Confirmed => Confirmed') /\ (Settled => Settled')
      BY <2>1, <3>1 DEF Doomed, Written, Taken, Confirmed, Settled
    <3> QED
      BY <2>1, <3>1, <3>2, <3>3 DEF Opening, NotUp, Awaits
  <2>3. CASE MqttDelete \/ (OfflineReturns /\ phase = "offline")
    <3>1. pesp_conn' = NULL
      BY <2>3 DEF MqttDelete, OfflineReturns
    <3>2. NotUp
      BY <1>0, <2>3 DEF MqttDelete, OfflineReturns, NotUp, Lives, ClientKept
    <3>3. Quiet'
      BY <2>1, <3>2 DEF Opening, Quiet
    <3> QED
      BY <2>1, <3>1, <3>3 DEF Opening, Awaits
  <2> QED BY <1>4, <2>2, <2>3
<1>5. CASE SocketConnected
  <2>1. /\ phase = "idle" /\ pesp_conn # NULL /\ link[pesp_conn] = "syn" /\ link' = [link EXCEPT ![pesp_conn] = "up"]
        /\ UNCHANGED <<pesp_conn, phase, job, inn, session, queue, taken>>
        /\ connState' = "CONNECT_SENDING" /\ Send(Packet("CONNECT", 0))
    BY <1>5 DEF SocketConnected, LinkUp, handler, broker
  <2>2. link'[pesp_conn'] = "up" /\ ~NotUp'
    BY <1>0, <2>1 DEF NotUp
  <2>3. Quiet /\ job = <<>>
    BY <2>1 DEF Opening, NotUp
  <2>4. Doomed' \/ Written'
    <3> DEFINE p == Packet("CONNECT", 0)
    <3>1. p \in Packets
      BY PacketType DEF Types
    <3>2. Send(p) /\ Writable(pesp_conn)
      BY <2>1 DEF Writable
    <3>3. CASE out = <<>>
      <4>1. flight < SndBuf /\ flight = 0
        BY <2>3, <3>3 DEF Quiet
      <4>2. out' = Append(out, p) /\ flight' = flight + 1
        BY <2>1, <3>2, <4>1 DEF Send
      <4>3. out' = <<Packet("CONNECT", 0)>> /\ flight' = 1
        BY <3>3, <4>1, <4>2
      <4> QED
        BY <2>1, <2>3, <4>3 DEF Written, Quiet
    <3>4. CASE out # <<>>
      <4>1. 1 \in DOMAIN out /\ Head(out) = out[1]
        BY <1>0, <3>4
      <4>2. Head(out).type # "CONNECT"
        BY <2>3, <4>1 DEF Quiet
      <4> HIDE DEF p
      <4>3. out' # <<>> /\ Head(out') = Head(out)
        <5>1. out' = out \/ out' = Append(out, p)
          BY <3>2, SendShape
        <5>2. Append(out, p) # <<>> /\ Head(Append(out, p)) = Head(out)
          BY <1>0, <3>1, <3>4
        <5> QED BY <3>4, <5>1, <5>2
      <4> QED
        BY <2>1, <2>3, <4>2, <4>3 DEF Doomed, Quiet, NoConnack
    <3> QED BY <3>3, <3>4
  <2> QED
    BY <2>1, <2>2, <2>3, <2>4 DEF Opening
<1>6. CASE \E ok \in BOOLEAN : DnsFound(ok)
  <2>1. /\ phase = "idle" /\ pesp_conn # NULL /\ link[pesp_conn] = "dns" /\ phase' \in {"idle", "offline"}
        /\ UNCHANGED <<pesp_conn, connState, job, out, flight, inn, session, queue, taken>>
    BY <1>6 DEF DnsFound, GoOffline, wire, handler, broker, state
  <2>2. link'[pesp_conn] \in {"none", "dns", "syn", "stuck"}
    BY <1>0, <1>6 DEF DnsFound, StackConnect
  <2>3. Quiet'
    BY <2>1 DEF Opening, NotUp, Quiet
  <2> QED
    BY <2>1, <2>2, <2>3 DEF Opening, Awaits
<1>7. CASE LinkLost \/ LinkGone
  <2>1. /\ phase = "idle" /\ pesp_conn # NULL /\ phase' \in {"idle", "offline"}
        /\ UNCHANGED <<pesp_conn, connState, job>>
    BY <1>7 DEF LinkLost, LinkGone, GoOffline, handler, state
  <2>2. link'[pesp_conn] \in {"none", "err", "closing"} /\ (WireCut \/ link'[pesp_conn] = "closing")
    BY <1>0, <1>7 DEF LinkLost, LinkGone, LinkBreaks, LinkEnds, ClientClose, InList
  <2>3. WireCut => Quiet'
    BY DEF WireCut, Quiet
  <2> QED
    BY <2>1, <2>2, <2>3 DEF Opening, Awaits, NotUp
<1>8. CASE SocketTimer
  <2>1. /\ phase = "idle"
        /\ UNCHANGED <<link, pesp_conn, connState, phase, job, inn, session, queue, taken, early>>
        /\ Send(Packet("PINGREQ", 0)) \/ UNCHANGED <<out, flight>>
    BY <1>8 DEF SocketTimer, handler, broker, script, stack
  <2>2. connState # "DATA" => UNCHANGED <<out, flight>> /\ (send_timeout = 0 => send_timeout' = 0)
    BY <1>8 DEF SocketTimer, KeepAliveDue
  <2>3. NotUp' => Quiet'
    <3> DEFINE p == Packet("PINGREQ", 0)
    <3>1. p \in Packets /\ p.type # "CONNECT"
      BY PacketType DEF Types
    <3>2. Send(p) \/ UNCHANGED <<out, flight>>
      BY <2>1
    <3> HIDE DEF p
    <3> QED BY <1>00, <2>1, <3>1, <3>2 DEF Opening, NotUp
  <2>4. Awaits' => Doomed' \/ Written' \/ Taken' \/ Confirmed' \/ Settled'
    <3> SUFFICES ASSUME Awaits'
                PROVE  Doomed' \/ Written' \/ Taken' \/ Confirmed' \/ Settled'
      OBVIOUS
    <3>1. Awaits /\ UNCHANGED <<out, flight>> /\ (send_timeout = 0 => send_timeout' = 0)
      BY <2>1, <2>2 DEF Awaits
    <3>2. (Doomed => Doomed') /\ (Written => Written') /\ (Taken => Taken') /\ (Confirmed => Confirmed') /\ (Settled => Settled')
      BY <2>1, <3>1 DEF Doomed, Written, Taken, Confirmed, Settled
    <3> QED BY <3>1, <3>2 DEF Opening
  <2> QED
    BY <2>1, <2>3, <2>4 DEF Opening
<1>9. CASE SegmentArrives
  <2>1. /\ phase = "idle" /\ inn # <<>> /\ pesp_conn # NULL /\ link[pesp_conn] = "up"
        /\ inn' = Tail(inn) /\ flight' = flight - Head(inn).ack /\ job' = Head(inn).packets
        /\ phase' \in {"sent", "received", "idle"} /\ (phase' = "idle" => job' = <<>>)
        /\ UNCHANGED <<link, pesp_conn, connState, out, session, queue, taken, early>>
        /\ Head(inn).ack > 0 /\ flight' = 0 /\ connected => send_timeout' = 0
        /\ send_timeout' = send_timeout \/ send_timeout' = 0
    BY <1>9 DEF SegmentArrives, stack, state, script
  <2>2. 1 \in DOMAIN inn /\ Head(inn) = inn[1] /\ \A x \in DOMAIN inn' : x + 1 \in DOMAIN inn /\ x + 1 > 1 /\ inn'[x] = inn[x + 1]
    BY <1>0, <2>1
  <2>3. connected
    BY <2>1 DEF Lives
  <2>4. ~NotUp'
    BY <2>1 DEF NotUp
  <2>5. Awaits' => Doomed' \/ Settled'
    <3> SUFFICES ASSUME Awaits'
                PROVE  Doomed' \/ Settled'
      OBVIOUS
    <3>1. Doomed \/ Confirmed \/ Settled
      BY <2>1 DEF Awaits, Opening, Written, Taken
    <3>2. CASE Doomed
      <4>1. NoConnack(job') /\ \A x \in DOMAIN inn' : NoConnack(inn'[x].packets)
        BY <2>1, <2>2, <3>2 DEF Doomed
      <4> QED BY <2>1, <3>2, <4>1 DEF Doomed
    <3>3. CASE Confirmed
      <4>1. flight' = 0 /\ send_timeout' = 0
        BY <2>1, <2>2, <2>3, <3>3 DEF Confirmed
      <4> QED BY <2>1, <2>2, <3>3, <4>1 DEF Confirmed, Settled
    <3>4. CASE Settled
      BY <2>1, <2>2, <3>4 DEF Settled
    <3> QED BY <3>1, <3>2, <3>3, <3>4
  <2> QED
    BY <2>1, <2>4, <2>5 DEF Opening
<1>10. CASE SentReturns
  <2>1. /\ phase = "sent" /\ job' = (IF link[pesp_conn] = "up" THEN job ELSE <<>>)
        /\ phase' = (IF job' = <<>> THEN "idle" ELSE "received")
        /\ UNCHANGED <<link, pesp_conn, connState, out, flight, inn, session, queue, taken, early, send_timeout>>
    BY <1>10 DEF SentReturns, stack, state, broker, script
  <2>2. ~NotUp'
    BY <2>1 DEF NotUp, Lives
  <2>3. Awaits' => Doomed' \/ Settled'
    <3> SUFFICES ASSUME Awaits'
                PROVE  Doomed' \/ Settled'
      OBVIOUS
    <3>1. (Doomed \/ Settled) /\ job' = job
      BY <2>1 DEF Awaits, Opening, Written, Taken, Confirmed
    <3>2. (Doomed => Doomed') /\ (Settled => Settled')
      BY <2>1, <3>1 DEF Doomed, Settled
    <3> QED BY <3>1, <3>2
  <2> QED
    BY <2>1, <2>2, <2>3 DEF Opening
<1>11. CASE ReadConnack
  <2>0. phase = "received"
    BY <1>11 DEF ReadConnack, Reads, Opening
  <2>1. /\ phase = "received" /\ pesp_conn # NULL /\ phase' = "idle" /\ job' = <<>> /\ connState' \in {"DATA", "INIT"}
        /\ UNCHANGED pesp_conn
        /\ link' = link \/ ClientClose(pesp_conn)
    BY <1>11, <2>0 DEF ReadConnack, Reads, HandlerDone, stack, Lives
  <2>2. ~NotUp'
    BY <1>0, <2>1 DEF NotUp, Lives, ClientClose, InList
  <2> QED
    BY <2>1, <2>2 DEF Opening, Awaits
<1>12. CASE ReadWithCallback \/ ReadSilently \/ CallbackReturns
  <2>1. connState' = "DATA" /\ phase \in {"received", "again", "callback"} /\ UNCHANGED <<link, pesp_conn>>
    BY <1>12 DEF ReadWithCallback, ReadSilently, CallbackReturns, Reads, stack, state, Opening
  <2>2. ~NotUp'
    BY <2>1 DEF NotUp, Lives
  <2>3. phase' \in {"idle", "offline", "renewed"} => job' = <<>>
    BY <1>12 DEF ReadWithCallback, ReadSilently, CallbackReturns, HandlerDone
  <2> QED
    BY <2>1, <2>2, <2>3 DEF Opening, Awaits
<1>13. CASE BrokerTakes
  <2>1. /\ pesp_conn # NULL /\ link[pesp_conn] \in {"up", "closing"} /\ out # <<>> /\ out' = Tail(out) /\ taken' = taken + 1
        /\ UNCHANGED <<link, pesp_conn, connState, phase, job, flight, inn, early, send_timeout>>
        /\ ~(session = "open" \/ (session = "none" /\ Head(out).type = "CONNECT")) => session' = "bad" /\ queue' = queue
    BY <1>13 DEF BrokerTakes, stack, state, handler, script
  <2>2. ~NotUp'
    BY <2>1 DEF NotUp
  <2>3. Awaits' => Doomed' \/ Taken'
    <3> SUFFICES ASSUME Awaits'
                PROVE  Doomed' \/ Taken'
      OBVIOUS
    <3>1. Doomed \/ Written
      BY <2>1 DEF Awaits, Opening, Taken, Confirmed, Settled
    <3>2. CASE Doomed
      BY <2>1, <3>2 DEF Doomed
    <3>3. CASE Written
      <4>1. out' = <<>>
        BY <2>1, <3>3 DEF Written
      <4> QED
        BY <2>1, <3>3, <4>1 DEF Written, Taken
    <3> QED BY <3>1, <3>2, <3>3
  <2> QED
    BY <2>1, <2>2, <2>3 DEF Opening
<1>14. CASE \E q \in 0..2 : BrokerPublishes(q)
  <2>1. /\ session = "open" /\ phase # "undefined"
        /\ UNCHANGED <<link, pesp_conn, connState, phase, job, out, flight, inn, session, taken, early, send_timeout>>
    BY <1>14 DEF BrokerPublishes, stack, state, handler, script
  <2>2. ~NotUp'
    BY <2>1 DEF NotUp, Opening, Quiet
  <2>3. Awaits' => Taken' \/ Confirmed' \/ Settled'
    <3> SUFFICES ASSUME Awaits'
                PROVE  Taken' \/ Confirmed' \/ Settled'
      OBVIOUS
    <3>1. Taken \/ Confirmed \/ Settled
      BY <2>1 DEF Awaits, Opening, Doomed, Written
    <3>2. (Taken => Taken') /\ (Confirmed => Confirmed') /\ (Settled => Settled')
      BY <2>1 DEF Taken, Confirmed, Settled
    <3> QED BY <3>1, <3>2
  <2> QED
    BY <2>1, <2>2, <2>3 DEF Opening
<1>15. CASE \E k \in 0..2 : BrokerSends(k)
  <2>1. PICK k \in 0..2 : BrokerSends(k)
    BY <1>15
  <2> DEFINE s == SubSeq(queue, 1, k)
             r == [ack |-> taken, packets |-> s]
  <2>2. /\ pesp_conn # NULL /\ link[pesp_conn] = "up" /\ k \in Nat /\ k <= Len(queue) /\ (k > 0 \/ taken > 0)
        /\ inn' = Append(inn, r) /\ queue' = SubSeq(queue, k + 1, Len(queue)) /\ taken' = 0
        /\ UNCHANGED <<link, pesp_conn, connState, phase, job, out, flight, session, early, send_timeout>>
    BY <2>1 DEF BrokerSends, stack, state, handler, script
  <2>3. \A i \in DOMAIN s : i \in DOMAIN queue /\ s[i] = queue[i]
    BY <1>0, <2>2
  <2>8. \A i \in DOMAIN queue' : i + k \in DOMAIN queue /\ queue'[i] = queue[i + k]
    <3>1. k \in Nat /\ k <= Len(queue) /\ queue' = SubSeq(queue, k + 1, Len(queue)) /\ queue \in Seq(Packets)
      BY <1>0, <2>2
    <3> QED BY <3>1, RestAfter
  <2>4. r.packets = s /\ r.ack = taken
    OBVIOUS
  <2> HIDE DEF s
  <2> HIDE DEF r
  <2>5. /\ inn' # <<>> /\ (inn # <<>> => inn'[1] = inn[1]) /\ (inn = <<>> => inn'[1] = r /\ \A x \in DOMAIN inn' : ~(x > 1))
        /\ \A x \in DOMAIN inn' : (x \in DOMAIN inn /\ inn'[x] = inn[x]) \/ inn'[x] = r
    BY <1>0, <2>2
  <2>6. ~NotUp'
    BY <2>2 DEF NotUp
  <2>7. Awaits' => Doomed' \/ Confirmed' \/ Settled'
    <3> SUFFICES ASSUME Awaits'
                PROVE  Doomed' \/ Confirmed' \/ Settled'
      OBVIOUS
    <3>1. Doomed \/ Taken \/ Confirmed \/ Settled
      <4>1. ~Written
        BY <2>2 DEF Written
      <4> QED BY <2>2, <4>1 DEF Awaits, Opening
    <3>2. CASE Doomed
      <4>1. NoConnack(s) /\ NoConnack(queue')
        BY <2>3, <2>8, <3>2 DEF Doomed, NoConnack
      <4>2. \A x \in DOMAIN inn' : NoConnack(inn'[x].packets)
        BY <2>4, <2>5, <3>2, <4>1 DEF Doomed
      <4> QED BY <2>2, <3>2, <4>1, <4>2 DEF Doomed
    <3>3. CASE Taken
      BY <2>2, <2>4, <2>5, <3>3 DEF Taken, Confirmed
    <3>4. CASE Confirmed
      BY <2>2, <2>4, <2>5, <3>4 DEF Confirmed
    <3>5. CASE Settled
      BY <2>2, <2>4, <2>5, <3>5 DEF Settled
    <3> QED BY <3>1, <3>2, <3>3, <3>4, <3>5
  <2> QED
    BY <2>2, <2>6, <2>7 DEF Opening
(* Nothing is claimed of a client that is undefined. *)
<1>16. CASE ConnectInUse \/ SegmentOverruns \/ (OfflineReturns /\ phase = "renewed")
  <2>1. phase' = "undefined"
    BY <1>16 DEF ConnectInUse, SegmentOverruns, OfflineReturns
  <2> QED
    BY <2>1 DEF Opening, Awaits
<1>17. OfflineReturns => phase \in {"offline", "renewed"}
  BY DEF OfflineReturns
<1> QED
  BY <1>1, <1>2, <1>3, <1>4, <1>5, <1>6, <1>7, <1>8, <1>9, <1>10, <1>11, <1>12, <1>13, <1>14, <1>15, <1>16, <1>17 DEF Next

-----------------------------------------------------------------------------
MqttInv == StateTypes /\ Lives /\ PacketTypes /\ OnTheWay

LEMMA MqttStart ==
    ASSUME Init
    PROVE  MqttInv /\ AcksEarned /\ Opening
<1> USE MqttAssumption DEF Init, StackInit, NULL
<1>0. Packet("NONE", 0) \in Packets /\ Packet("NONE", 0).id = 0
  BY PacketType DEF Types
<1>00. \A s : s = <<>> => DOMAIN s = {}
  OBVIOUS
<1>1. StateTypes
  BY DEF StateTypes, StackTypeOK, Links
<1>2. Lives
  BY DEF Lives, ClientKept
<1>3. PacketTypes
  <2>1. pending \in Packets
    BY <1>0
  <2>2. job \in Seq(Packets) /\ outbound \in Seq(Packets) /\ out \in Seq(Packets) /\ queue \in Seq(Packets)
        /\ inn \in Seq(Segments) /\ delivered \in Seq(Nat)
    OBVIOUS
  <2> QED BY <2>1, <2>2 DEF PacketTypes, Events
<1>4. OnTheWay
  BY <1>00 DEF OnTheWay, MessagesInOrder, Rising, Numbered, Above, Below
<1>5. AcksEarned
  <2>1. pending.id = 0
    BY <1>0
  <2> QED
    BY <1>00, <2>1 DEF AcksEarned, AckedMeansReceived, AllEarned, AckIn, AckOut
<1>6. Opening
  BY <1>00 DEF Opening, Quiet, Awaits
<1> QED
  BY <1>1, <1>2, <1>3, <1>4, <1>5, <1>6 DEF MqttInv

LEMMA MqttIdle ==
    ASSUME UNCHANGED vars
    PROVE  (MqttInv => MqttInv') /\ (AcksEarned => AcksEarned') /\ (Opening => Opening')
<1> USE DEF vars, stack, object, state, message, handler, broker, script, reports
<1>1. StateTypes => StateTypes'
  BY DEF StateTypes, StackTypeOK
<1>2. Lives => Lives'
  BY DEF Lives, ClientKept
<1>3. PacketTypes => PacketTypes'
  BY DEF PacketTypes, Events
<1>4. OnTheWay => OnTheWay'
  BY OnTheWayKept
<1>5. AcksEarned => AcksEarned'
  BY DEF AcksEarned, AckedMeansReceived, AllEarned
<1>6. Opening => Opening'
  <2>1. (NotUp' => NotUp) /\ (Quiet => Quiet') /\ (Awaits' => Awaits)
    BY DEF NotUp, Quiet, Awaits
  <2>2. (Doomed => Doomed') /\ (Written => Written') /\ (Taken => Taken') /\ (Confirmed => Confirmed') /\ (Settled => Settled')
    BY DEF Doomed, Written, Taken, Confirmed, Settled
  <2>3. UNCHANGED <<phase, connState, link, pesp_conn, job>>
    OBVIOUS
  <2> QED
    BY <2>1, <2>2, <2>3 DEF Opening
<1> QED
  BY <1>1, <1>2, <1>3, <1>4, <1>5, <1>6 DEF MqttInv

LEMMA MqttInductive == Spec => []MqttInv
<1>1. Init => MqttInv
  BY MqttStart
<1>2. MqttInv /\ [Next]_vars => MqttInv'
  <2>1. MqttInv /\ Next => MqttInv'
    BY StateTypesStep, LivesStep, PacketTypesStep, OnTheWayStep DEF MqttInv
  <2> QED
    BY <2>1, MqttIdle
<1> QED
  BY <1>1, <1>2, PTL DEF Spec

(* However the script, the collector, the stack and the timer interleave,  *)
(* the collector never frees a client that is still called: as long as the *)
(* timer is armed or the stack is busy with an espconn, mqtt_delete has    *)
(* not run.  And unless the script calls connect() while its espconn is in *)
(* use or in the offline callback, which frees an espconn in use, or a     *)
(* segment overruns in_buffer, the espconn the stack works on is the       *)
(* client's own and self_ref keeps the client.                             *)
THEOREM StackKeepsClient == Spec => []ClientKept
<1>1. MqttInv => ClientKept
  BY DEF MqttInv, Lives
<1> QED
  BY <1>1, MqttInductive, PTL

(* The message callback gets the broker's messages in the order they were  *)
(* published and none twice, for every way of packing them into segments   *)
(* and losing the tail of one, over all connections of the client.         *)
THEOREM CallbackOrder == Spec => []MessagesInOrder
<1>1. MqttInv => MessagesInOrder
  BY DEF MqttInv, OnTheWay
<1> QED
  BY <1>1, MqttInductive, PTL

(* A message reported to the script as acknowledged has reached the        *)
(* broker, until the 16 bits of message_id wrap: with more events than ids *)
(* an answer that was under way all that time could meet its id again.     *)
THEOREM ReportedMeansReceived ==
    ASSUME MaxEvents < IdSpan
    PROVE  Spec => []AckedMeansReceived
<1>1. Init => MqttInv /\ AcksEarned
  BY MqttStart
<1>2. MqttInv /\ AcksEarned /\ [Next]_vars => AcksEarned'
  <2>1. MqttInv /\ AcksEarned /\ Next => AcksEarned'
    BY AcksStep DEF MqttInv
  <2> QED
    BY <2>1, MqttIdle
<1>3. AcksEarned => AckedMeansReceived
  BY DEF AcksEarned
<1> QED
  BY <1>1, <1>2, <1>3, MqttInductive, PTL DEF Spec

(* When the CONNACK makes the connect callback, the script can publish at  *)
(* once: unless it sent something itself since connect(), the CONNECT was  *)
(* the only packet written, its acknowledgement came before the CONNACK or *)
(* with it, and mqtt_socket_sent has cleared the timeout an earlier        *)
(* connection may have left.                                               *)
THEOREM ConnectCallbackMayPublish == Spec => ReadyOnConnect
<1>1. Init => Opening
  BY MqttStart
<1>2. MqttInv /\ Opening /\ [Next]_vars => Opening'
  <2>1. MqttInv /\ Opening /\ Next => Opening'
    BY OpeningStep DEF MqttInv
  <2> QED
    BY <2>1, MqttIdle
<1>3. MqttInv /\ Opening /\ [Next]_vars =>
         [connState # "DATA" /\ connState' = "DATA" /\ ~early => send_timeout' = 0]_vars
  <2> SUFFICES ASSUME MqttInv, Opening, Next, connState # "DATA", connState' = "DATA", ~early
              PROVE  send_timeout' = 0
    OBVIOUS
  <2>1. ReadConnack
    BY DEF Next, MqttConnect, MqttClose, MqttPublish, MqttSubscribe, DropClient, MqttDelete, SocketConnected,
        OfflineReturns, DnsFound, LinkLost, LinkGone, GoOffline, SocketTimer, SegmentArrives, SentReturns,
        ConnectInUse, SegmentOverruns,
        ReadWithCallback, ReadSilently, CallbackReturns, BrokerTakes, BrokerPublishes, BrokerSends, state
  <2>2. /\ phase \in {"received", "again"} /\ pesp_conn # NULL /\ connState = "CONNECT_SENDING" /\ Head(job).type = "CONNACK"
        /\ send_timeout' = send_timeout
    BY <2>1 DEF ReadConnack, Reads, FirstPacket
  <2>3. Awaits
    BY <2>2 DEF Opening, Awaits
  <2>4. ~NoConnack(job)
    <3>1. job \in Seq(Packets) /\ job # <<>>
      BY <2>2 DEF MqttInv, PacketTypes, Lives
    <3>2. 1 \in DOMAIN job /\ job[1] = Head(job)
      BY <3>1
    <3> QED BY <2>2, <3>2 DEF NoConnack
  <2>5. Settled
    BY <2>2, <2>3, <2>4 DEF Opening, Doomed, Written, Taken, Confirmed
  <2> QED
    BY <2>2, <2>5 DEF Settled
<1> QED
  BY <1>1, <1>2, <1>3, MqttInductive, PTL DEF Spec, ReadyOnConnect
=============================================================================
