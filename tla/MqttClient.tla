---------------------------- MODULE MqttClient ----------------------------
(***************************************************************************)
(* One client object of app/modules/mqtt.c, with the packets of            *)
(* app/mqtt/mqtt_msg.c, on the client side of espconn, against a broker.   *)
(*                                                                         *)
(* A packet is [type, id, qos, n]: n numbers the messages that are         *)
(* published, so that the properties can tell them apart.  Several packets *)
(* may come in one TCP segment; a packet is never cut in two.  A segment   *)
(* also acknowledges packets: espconn_client_sent runs first, and          *)
(* mqtt_socket_sent only when nothing written is left unacknowledged.      *)
(*                                                                         *)
(* Handlers run one at a time, but Lua callbacks in the middle of          *)
(* mqtt_socket_received and mqtt_socket_disconnected may call the client   *)
(* again; there the handlers are split.                                    *)
(*                                                                         *)
(* Three things end in memory that is used after it was freed, or written  *)
(* past its end: connect() while the stack works on the last espconn,      *)
(* connect() in the offline callback, and a segment longer than in_buffer. *)
(* What the program does then is undefined, and the model stops in the     *)
(* phase "undefined".                                                      *)
(***************************************************************************)
EXTENDS EspconnClient, Integers, Sequences

CONSTANTS
    KeepAlive,    \* connect_info.keepalive in seconds
    SendTimeout,  \* MQTT_SEND_TIMEOUT
    DnsTries,     \* failed lookups after which the client gives up
    SndBuf,       \* packets that fit the TCP send buffer
    IdSpan,       \* number of values of message_id (2^16)
    MaxEvents,    \* bound: messages published by either side, and subscriptions
    MaxQueue,     \* bound: packets the broker has to send
    MaxSegments   \* bound: segments on their way to the client

ASSUME MqttAssumption ==
    /\ KeepAlive \in Nat \ {0} /\ SendTimeout \in Nat \ {0}
    /\ DnsTries \in Nat \ {0} /\ SndBuf \in Nat \ {0}
    /\ IdSpan \in Nat /\ IdSpan > 2
    /\ MaxEvents \in Nat /\ MaxQueue \in Nat /\ MaxSegments \in Nat
    /\ Conns \subseteq Nat \ {0}

VARIABLES
    pesp_conn,      \* the espconn, NULL if none
    self_ref,       \* the registry keeps the client alive
    held,           \* the script has a reference to the client
    deleted,        \* the collector ran mqtt_delete
    connected,
    connState,
    mqttTimer,      \* armed
    keep_alive_tick,
    send_timeout,
    pending,        \* pending_msg_type, pending_msg_id, pending_publish_qos; n: history
    message_id,     \* the last id used
    inited,         \* mqtt_msg_init gave the connection its buffer
    dns_reconn_count,
    phase,          \* "idle", which handler is in progress, or "undefined"
    job,            \* packets mqtt_socket_received has still to look at
    outbound,       \* outbound_message: <<>> or the packet
    out,            \* packets written and not yet received by the broker
    flight,         \* number of packets written and not acknowledged
    inn,            \* segments on their way to the client
    session,        \* the broker: "none", "open" or "bad"
    queue,          \* packets the broker has to send
    taken,          \* packets the broker received and has not acknowledged
    published,      \* number of messages published by the script
    subscribed,     \* number of subscriptions
    messages,       \* number of messages published by the broker
    delivered,      \* history: messages given to the message callback
    got,            \* history: the script's messages the broker received
    acked,          \* history: messages of QoS 1 and 2 reported to the script
    early           \* history: the script sent something before the CONNACK

object == <<self_ref, held, deleted>>
state == <<connected, connState, mqttTimer, keep_alive_tick>>
message == <<pending, message_id, inited>>
handler == <<phase, job, outbound>>
broker == <<inn, session, queue, taken, messages, got>>
script == <<published, subscribed, early>>
reports == <<delivered, acked>>
vars == <<stack, pesp_conn, object, state, send_timeout, message, dns_reconn_count,
          handler, out, flight, broker, script, reports>>

NULL == 0
Types == {"NONE", "CONNECT", "CONNACK", "PUBLISH", "PUBACK", "PUBREC", "PUBREL", "PUBCOMP",
          "SUBSCRIBE", "SUBACK", "PINGREQ", "PINGRESP"}
Packet(t, i) == [type |-> t, id |-> i, qos |-> 0, n |-> 0]
Published(i, q, k) == [type |-> "PUBLISH", id |-> i, qos |-> q, n |-> k]

Events == published + subscribed + messages

(* append_message_id never gives out 0. *)
IdAfter(i) == IF (i + 1) % IdSpan = 0 THEN 1 ELSE (i + 1) % IdSpan

(* espconn_sent *)
Send(p) ==
    IF pesp_conn # NULL /\ Writable(pesp_conn) /\ flight < SndBuf
    THEN out' = Append(out, p) /\ flight' = flight + 1
    ELSE UNCHANGED <<out, flight>>

(* The pcb is gone, and what was under way in it. *)
WireCut ==
    /\ out' = <<>> /\ flight' = 0 /\ inn' = <<>>
    /\ session' = "none" /\ queue' = <<>> /\ taken' = 0

wire == <<out, flight, inn, session, queue, taken>>

Init ==
    /\ StackInit
    /\ pesp_conn = NULL
    /\ self_ref = FALSE /\ held = TRUE /\ deleted = FALSE
    /\ connected \in BOOLEAN
    /\ connState = "INIT" /\ mqttTimer = FALSE /\ keep_alive_tick = 0
    /\ send_timeout = 0
    /\ pending = Packet("NONE", 0) /\ message_id = 0 /\ inited = FALSE
    /\ dns_reconn_count = 0
    /\ phase = "idle" /\ job = <<>> /\ outbound = <<>>
    /\ out = <<>> /\ flight = 0
    /\ inn = <<>> /\ session = "none" /\ queue = <<>> /\ taken = 0
    /\ published = 0 /\ subscribed = 0 /\ messages = 0
    /\ delivered = <<>> /\ got = {} /\ acked = {} /\ early = FALSE

----------------------------------------------------------------------------
(* Lua code runs between handlers and in the callbacks they make. *)
ScriptRuns == held /\ ~deleted /\ phase \in {"idle", "sent", "callback", "offline", "renewed"}

(* The espconn objects not yet used for a connection that came up. *)
Unused == {c \in Conns : link[c] = "none" /\ ~discb[c] /\ c # pesp_conn}

(* The stack works on the client's espconn. *)
InUse == pesp_conn # NULL /\ link[pesp_conn] # "none"

(* mqtt_socket_connect frees the last espconn without asking the stack,    *)
(* which goes on working on it.                                            *)
ConnectInUse ==
    /\ ScriptRuns /\ InUse
    /\ phase' = "undefined"
    /\ UNCHANGED <<stack, pesp_conn, object, state, send_timeout, message, dns_reconn_count,
                   job, outbound, out, flight, broker, script, reports>>

(* mqtt_socket_connect.  connState, keep_alive_tick, send_timeout and what *)
(* is pending stay as the last connection left them.  In the offline       *)
(* callback it frees the espconn that mqtt_socket_disconnected will go on  *)
(* with when the callback returns.                                         *)
MqttConnect(c, byName) ==
    /\ ScriptRuns /\ ~InUse
    /\ c \in Unused /\ \A d \in Unused : c <= d
    /\ pesp_conn' = c
    /\ IF byName THEN link' = [link EXCEPT ![c] = "dns"] /\ dns_reconn_count' = 0
                 ELSE StackConnect(c) /\ UNCHANGED dns_reconn_count
    /\ connected' = FALSE
    /\ self_ref' = TRUE
    /\ mqttTimer' = TRUE
    /\ early' = FALSE
    /\ phase' = IF phase = "offline" THEN "renewed" ELSE phase
    /\ UNCHANGED <<discb, held, deleted, connState, keep_alive_tick, send_timeout, message,
                   job, outbound, out, flight, broker, published, subscribed, reports>>

CloseUnrefs ==
    /\ ScriptRuns
    /\ pesp_conn # NULL
    /\ ClientClose(pesp_conn)
    /\ self_ref' = FALSE
    /\ UNCHANGED <<discb, pesp_conn, held, deleted, state, send_timeout, message,
                   dns_reconn_count, handler, out, flight, broker, script, reports>>

(* mqtt_socket_close *)
MqttClose ==
    /\ ScriptRuns
    /\ pesp_conn # NULL
    /\ ClientClose(pesp_conn)
    /\ UNCHANGED <<discb, pesp_conn, object, state, send_timeout, message, dns_reconn_count,
                   handler, out, flight, broker, script, reports>>

(* mqtt_socket_publish; with send_timeout # 0 it raises "sending in        *)
(* process".  Before the first connection there is no buffer to write to.  *)
MqttPublish(q) ==
    /\ ScriptRuns
    /\ pesp_conn # NULL /\ send_timeout = 0
    /\ Events < MaxEvents
    /\ published' = published + 1
    /\ message_id' = IF inited /\ q > 0 THEN IdAfter(message_id) ELSE message_id
    /\ pending' = Published(IF ~inited THEN pending.id ELSE IF q > 0 THEN message_id' ELSE 0,
                            q, published')
    /\ send_timeout' = SendTimeout
    /\ IF inited THEN Send(pending') ELSE UNCHANGED <<out, flight>>
    /\ outbound' = <<>>
    /\ early' = (early \/ connState # "DATA" \/ link[pesp_conn] # "up")
    /\ UNCHANGED <<stack, pesp_conn, object, state, inited, dns_reconn_count,
                   phase, job, broker, subscribed, reports>>

(* mqtt_socket_subscribe leaves its packet in outbound_message, which      *)
(* matters inside a callback of mqtt_socket_received.  The script does not *)
(* subscribe before its first connect(), when `connected' is not set yet.  *)
MqttSubscribe ==
    /\ ScriptRuns
    /\ send_timeout = 0 /\ connected
    /\ pesp_conn # NULL /\ Events < MaxEvents
    /\ subscribed' = subscribed + 1
    /\ message_id' = IdAfter(message_id)
    /\ pending' = [pending EXCEPT !.type = "SUBSCRIBE", !.id = message_id', !.qos = 1]
    /\ send_timeout' = SendTimeout
    /\ Send(Packet("SUBSCRIBE", message_id'))
    /\ outbound' = IF phase = "callback" THEN <<Packet("SUBSCRIBE", message_id')>> ELSE <<>>
    /\ early' = (early \/ connState # "DATA" \/ link[pesp_conn] # "up")
    /\ UNCHANGED <<stack, pesp_conn, object, state, inited, dns_reconn_count,
                   phase, job, broker, published, reports>>

DropClient ==
    /\ held /\ phase = "idle"
    /\ held' = FALSE
    /\ UNCHANGED <<stack, pesp_conn, self_ref, deleted, state, send_timeout, message,
                   dns_reconn_count, handler, out, flight, broker, script, reports>>

(* mqtt_delete, run by the collector when nothing refers to the client. *)
MqttDelete ==
    /\ phase = "idle" /\ ~held /\ ~self_ref /\ ~deleted
    /\ deleted' = TRUE
    /\ mqttTimer' = FALSE /\ connected' = FALSE
    /\ pesp_conn' = NULL
    /\ UNCHANGED <<stack, self_ref, held, connState, keep_alive_tick, send_timeout, message,
                   dns_reconn_count, handler, out, flight, broker, script, reports>>

----------------------------------------------------------------------------
(* mqtt_socket_connected *)
SocketConnected ==
    /\ phase = "idle" /\ pesp_conn # NULL
    /\ LinkUp(pesp_conn)
    /\ discb' = [discb EXCEPT ![pesp_conn] = TRUE]
    /\ connected' = TRUE
    /\ inited' = TRUE
    /\ Send(Packet("CONNECT", 0))
    /\ connState' = "CONNECT_SENDING"
    /\ UNCHANGED <<pesp_conn, object, mqttTimer, keep_alive_tick, send_timeout, pending,
                   message_id, dns_reconn_count, handler, broker, script, reports>>

(* The first half of mqtt_socket_disconnected, up to the offline callback. *)
GoOffline ==
    /\ phase' = "offline"
    /\ UNCHANGED <<pesp_conn, object, state, send_timeout, message, job, outbound,
                   messages, got, script, reports>>

(* The second half.  It reads the espconn it was called with, and frees    *)
(* the one the client has now: after a connect() in the callback the first *)
(* is freed already, and the second is the new connection's.               *)
OfflineReturns ==
    /\ phase \in {"offline", "renewed"}
    /\ phase' = IF phase = "renewed" THEN "undefined" ELSE "idle"
    /\ connected' = FALSE
    /\ mqttTimer' = FALSE
    /\ pesp_conn' = NULL
    /\ self_ref' = FALSE
    /\ UNCHANGED <<stack, held, deleted, connState, keep_alive_tick, send_timeout, message,
                   dns_reconn_count, job, outbound, out, flight, broker, script, reports>>

(* socket_dns_found: a failed lookup is tried again, in the end the client *)
(* is told that it is offline.                                             *)
DnsFound(ok) ==
    /\ phase = "idle" /\ pesp_conn # NULL /\ link[pesp_conn] = "dns"
    /\ IF ok
       THEN /\ dns_reconn_count' = 0
            /\ StackConnect(pesp_conn)
            /\ UNCHANGED <<pesp_conn, object, state, send_timeout, message, handler,
                           out, flight, broker, script, reports>>
       ELSE /\ dns_reconn_count' = dns_reconn_count + 1
            /\ IF dns_reconn_count' >= DnsTries
               THEN link' = [link EXCEPT ![pesp_conn] = "none"] /\ GoOffline /\ UNCHANGED wire
               ELSE UNCHANGED <<link, pesp_conn, object, state, send_timeout, message, handler,
                                out, flight, broker, script, reports>>
    /\ UNCHANGED discb

(* The connection is refused, reset or closed by the other side. *)
LinkLost ==
    /\ phase = "idle" /\ pesp_conn # NULL
    /\ \/ LinkBreaks(pesp_conn) /\ WireCut
       \/ /\ link[pesp_conn] = "up" /\ inn = <<>>
          /\ ClientClose(pesp_conn)
          /\ UNCHANGED <<discb, wire>>
    /\ UNCHANGED <<pesp_conn, object, state, send_timeout, message, dns_reconn_count, handler,
                   messages, got, script, reports>>

(* A timer of the stack calls mqtt_socket_disconnected or                  *)
(* mqtt_socket_reconnected; a connection closed before it was up has no    *)
(* disconnect callback.                                                    *)
LinkGone ==
    /\ phase = "idle" /\ pesp_conn # NULL
    /\ LinkEnds(pesp_conn)
    /\ WireCut
    /\ UNCHANGED dns_reconn_count
    /\ IF Notifies(pesp_conn)
       THEN GoOffline
       ELSE UNCHANGED <<pesp_conn, object, state, send_timeout, message, handler,
                        messages, got, script, reports>>

DueEarly == connState = "DATA" /\ keep_alive_tick + 1 >= KeepAlive

KeepAliveDue == connState = "DATA" /\ keep_alive_tick + 1 > KeepAlive

(* mqtt_socket_timer, once a second. *)
SocketTimer ==
    /\ phase = "idle" /\ mqttTimer
    /\ LET ping == KeepAliveDue
           busy == IF ping THEN SendTimeout ELSE send_timeout
       IN /\ keep_alive_tick' = IF ping THEN 0
                                ELSE IF connState = "DATA" THEN keep_alive_tick + 1
                                ELSE keep_alive_tick
          /\ pending' = IF ping THEN [pending EXCEPT !.type = "PINGREQ"] ELSE pending
          /\ IF ping THEN Send(Packet("PINGREQ", 0)) ELSE UNCHANGED <<out, flight>>
          /\ send_timeout' = IF busy > 0 THEN busy - 1 ELSE 0
    /\ UNCHANGED <<stack, pesp_conn, object, connected, connState, mqttTimer, message_id, inited,
                   dns_reconn_count, handler, broker, script, reports>>

----------------------------------------------------------------------------
SegmentKeepsTimeout ==
    /\ phase = "idle" /\ inn # <<>>
    /\ pesp_conn # NULL /\ link[pesp_conn] = "up"
    /\ inn' = Tail(inn)
    /\ flight' = flight - Head(inn).ack
    /\ job' = Head(inn).packets
    /\ LET told == /\ Head(inn).ack > 0 /\ flight' = 0 /\ connected
                   /\ pending.type = "PUBLISH" /\ pending.qos = 0
       IN /\ send_timeout' = IF told THEN 0 ELSE send_timeout
          /\ phase' = IF told THEN "sent" ELSE IF job' = <<>> THEN "idle" ELSE "received"
    /\ UNCHANGED <<stack, pesp_conn, object, state, message, dns_reconn_count, outbound, out,
                   session, queue, taken, messages, got, script, delivered, acked>>

(* A segment arrives: espconn_client_sent, then espconn_client_recv.  When *)
(* everything written is acknowledged, mqtt_socket_sent clears the timeout *)
(* and reports a message of QoS 0.                                         *)
SegmentArrives ==
    /\ phase = "idle" /\ inn # <<>>
    /\ pesp_conn # NULL /\ link[pesp_conn] = "up"
    /\ inn' = Tail(inn)
    /\ flight' = flight - Head(inn).ack
    /\ job' = Head(inn).packets
    /\ LET all == Head(inn).ack > 0 /\ flight' = 0 /\ connected
           told == all /\ pending.type = "PUBLISH" /\ pending.qos = 0
       IN /\ send_timeout' = IF all THEN 0 ELSE send_timeout
          /\ phase' = IF told THEN "sent" ELSE IF job' = <<>> THEN "idle" ELSE "received"
    /\ UNCHANGED <<stack, pesp_conn, object, state, message, dns_reconn_count, outbound, out,
                   session, queue, taken, messages, got, script, delivered, acked>>

(* A script that has closed the connection gets no more of the segment. *)
SentReturns ==
    /\ phase = "sent"
    /\ job' = IF link[pesp_conn] = "up" THEN job ELSE <<>>
    /\ phase' = IF job' = <<>> THEN "idle" ELSE "received"
    /\ UNCHANGED <<stack, pesp_conn, object, state, send_timeout, message, dns_reconn_count,
                   outbound, out, flight, broker, script, reports>>

(* mqtt_socket_received copies what it was given to in_buffer: its check   *)
(* `len > MQTT_BUF_SIZE && len <= 0' never holds, and with a long message  *)
(* the segment may be longer than the buffer.                              *)
SegmentOverruns ==
    /\ phase = "received" /\ \E i \in DOMAIN job : job[i].type = "PUBLISH"
    /\ phase' = "undefined"
    /\ UNCHANGED <<stack, pesp_conn, object, state, send_timeout, message, dns_reconn_count,
                   job, outbound, out, flight, broker, script, reports>>

(* It then looks at the first packet; "again" is the jump to READPACKET    *)
(* with the rest of a segment that fitted.  Its state is CONNECT_SENDING   *)
(* or DATA: INIT only follows the close of the connection, after which no  *)
(* segment comes.                                                          *)
FirstPacket == Head(job)
Reads == phase \in {"received", "again"} /\ pesp_conn # NULL

HandlerDone == phase' = "idle" /\ job' = <<>> /\ outbound' = <<>>

(* Until the CONNACK any other packet ends the connection; what comes      *)
(* behind the first packet is not looked at.                               *)
ReadConnack ==
    /\ Reads /\ connState = "CONNECT_SENDING"
    /\ IF FirstPacket.type = "CONNACK"
       THEN connState' = "DATA" /\ UNCHANGED stack
       ELSE connState' = "INIT" /\ ClientClose(pesp_conn) /\ UNCHANGED discb
    /\ HandlerDone
    /\ UNCHANGED <<pesp_conn, object, connected, mqttTimer, keep_alive_tick, send_timeout, message,
                   dns_reconn_count, out, flight, broker, script, reports>>

Answer ==
    CASE FirstPacket.type = "PUBLISH" /\ FirstPacket.qos = 1 -> <<Packet("PUBACK", FirstPacket.id)>>
      [] FirstPacket.type = "PUBLISH" /\ FirstPacket.qos = 2 -> <<Packet("PUBREC", FirstPacket.id)>>
      [] FirstPacket.type = "PUBREC" -> <<Packet("PUBREL", FirstPacket.id)>>
      [] FirstPacket.type = "PUBREL" -> <<Packet("PUBCOMP", FirstPacket.id)>>
      [] OTHER -> <<>>

IsAck == FirstPacket.type \in {"PUBACK", "PUBCOMP"}

AnyAckMatches == IsAck /\ pending.type = "PUBLISH"

AckMatches == IsAck /\ pending.type = "PUBLISH" /\ pending.id = FirstPacket.id

ReadsSameAgain ==
    /\ Reads /\ connState = "DATA"
    /\ FirstPacket.type \in {"PUBLISH", "SUBACK"} \/ AckMatches
    /\ phase' = "callback"
    /\ outbound' = Answer
    /\ job' = IF FirstPacket.type = "PUBLISH" /\ Len(job) > 1 THEN job ELSE <<>>
    /\ delivered' = IF FirstPacket.type = "PUBLISH" THEN Append(delivered, FirstPacket.n) ELSE delivered
    /\ acked' = IF IsAck THEN acked \union {pending.n} ELSE acked
    /\ UNCHANGED <<stack, pesp_conn, object, state, send_timeout, message, dns_reconn_count,
                   out, flight, broker, script>>

(* In state DATA: a message, a SUBACK or the acknowledgement of the        *)
(* pending message make a Lua callback.                                    *)
ReadWithCallback ==
    /\ Reads /\ connState = "DATA"
    /\ FirstPacket.type \in {"PUBLISH", "SUBACK"} \/ AckMatches
    /\ phase' = "callback"
    /\ outbound' = Answer
    /\ job' = IF FirstPacket.type = "PUBLISH" THEN Tail(job) ELSE <<>>
    /\ delivered' = IF FirstPacket.type = "PUBLISH" THEN Append(delivered, FirstPacket.n) ELSE delivered
    /\ acked' = IF IsAck THEN acked \union {pending.n} ELSE acked
    /\ UNCHANGED <<stack, pesp_conn, object, state, send_timeout, message, dns_reconn_count,
                   out, flight, broker, script>>

(* ... and the others do not; packets behind them are lost. *)
ReadSilently ==
    /\ Reads /\ connState = "DATA"
    /\ ~(FirstPacket.type \in {"PUBLISH", "SUBACK"} \/ AckMatches)
    /\ IF Answer # <<>> THEN Send(Answer[1]) ELSE UNCHANGED <<out, flight>>
    /\ HandlerDone
    /\ UNCHANGED <<stack, pesp_conn, object, state, send_timeout, message, dns_reconn_count,
                   broker, script, reports>>

(* The callback returns: another message in the segment is read, with the  *)
(* answer to this one forgotten, or the answer is sent.                    *)
CallbackReturns ==
    /\ phase = "callback"
    /\ IF job # <<>>
       THEN phase' = "again" /\ outbound' = <<>> /\ UNCHANGED <<job, out, flight>>
       ELSE /\ IF outbound # <<>> THEN Send(outbound[1]) ELSE UNCHANGED <<out, flight>>
            /\ HandlerDone
    /\ UNCHANGED <<stack, pesp_conn, object, state, send_timeout, message, dns_reconn_count,
                   broker, script, reports>>

----------------------------------------------------------------------------
(* The broker (external): it takes packets in order, closes a connection   *)
(* that does not begin with CONNECT, and answers as the protocol says.     *)
(* What it does once the client is undefined is not followed.              *)
Reply(p) ==
    CASE p.type = "CONNECT" -> <<Packet("CONNACK", 0)>>
      [] p.type = "SUBSCRIBE" -> <<Packet("SUBACK", p.id)>>
      [] p.type = "PUBLISH" /\ p.qos = 1 -> <<Packet("PUBACK", p.id)>>
      [] p.type = "PUBLISH" /\ p.qos = 2 -> <<Packet("PUBREC", p.id)>>
      [] p.type = "PUBREL" -> <<Packet("PUBCOMP", p.id)>>
      [] p.type = "PUBREC" -> <<Packet("PUBREL", p.id)>>
      [] p.type = "PINGREQ" -> <<Packet("PINGRESP", 0)>>
      [] OTHER -> <<>>

BrokerTakes ==
    /\ phase # "undefined"
    /\ pesp_conn # NULL /\ link[pesp_conn] \in {"up", "closing"}
    /\ out # <<>> /\ Len(queue) < MaxQueue
    /\ out' = Tail(out)
    /\ taken' = taken + 1
    /\ LET p == Head(out)
           ok == session = "open" \/ (session = "none" /\ p.type = "CONNECT")
       IN /\ session' = IF ok THEN "open" ELSE "bad"
          /\ queue' = IF ok THEN queue \o Reply(p) ELSE queue
          /\ got' = IF ok /\ p.type = "PUBLISH" THEN got \union {p.n} ELSE got
    /\ UNCHANGED <<stack, pesp_conn, object, state, send_timeout, message, dns_reconn_count,
                   handler, flight, inn, messages, script, reports>>

BrokerPublishes(q) ==
    /\ phase # "undefined"
    /\ session = "open" /\ Events < MaxEvents /\ Len(queue) < MaxQueue
    /\ messages' = messages + 1
    /\ queue' = Append(queue, Published(messages', q, messages'))
    /\ UNCHANGED <<stack, pesp_conn, object, state, send_timeout, message, dns_reconn_count,
                   handler, out, flight, inn, session, taken, got, script, reports>>

(* The first k packets go out in one segment, with the acknowledgement of  *)
(* all that came in so far.                                                *)
BrokerSends(k) ==
    /\ phase # "undefined"
    /\ pesp_conn # NULL /\ link[pesp_conn] = "up"
    /\ k <= Len(queue) /\ (k > 0 \/ taken > 0) /\ Len(inn) < MaxSegments
    /\ inn' = Append(inn, [ack |-> taken, packets |-> SubSeq(queue, 1, k)])
    /\ queue' = SubSeq(queue, k + 1, Len(queue))
    /\ taken' = 0
    /\ UNCHANGED <<stack, pesp_conn, object, state, send_timeout, message, dns_reconn_count,
                   handler, out, flight, session, messages, got, script, reports>>

Returns == OfflineReturns \/ SentReturns \/ ReadConnack \/ ReadWithCallback \/ ReadSilently
           \/ CallbackReturns

Next ==
    \/ \E c \in Conns, byName \in BOOLEAN : MqttConnect(c, byName)
    \/ ConnectInUse
    \/ MqttClose
    \/ \E q \in 0..2 : MqttPublish(q)
    \/ MqttSubscribe
    \/ DropClient
    \/ MqttDelete
    \/ SocketConnected
    \/ OfflineReturns
    \/ \E ok \in BOOLEAN : DnsFound(ok)
    \/ LinkLost
    \/ LinkGone
    \/ SocketTimer
    \/ SegmentArrives
    \/ SentReturns
    \/ SegmentOverruns
    \/ ReadConnack
    \/ ReadWithCallback
    \/ ReadSilently
    \/ CallbackReturns
    \/ BrokerTakes
    \/ \E q \in 0..2 : BrokerPublishes(q)
    \/ \E k \in 0..2 : BrokerSends(k)

(* Handlers return, and the client's timer, when armed, fires. *)
Fairness ==
    /\ WF_vars(Returns)
    /\ SF_vars(SocketTimer)

Spec == Init /\ [][Next]_vars /\ Fairness

----------------------------------------------------------------------------
Packets == [type : Types, id : Nat, qos : 0..2, n : Nat]

TypeOK ==
    /\ StackTypeOK /\ pesp_conn \in Conns \union {NULL}
    /\ self_ref \in BOOLEAN /\ held \in BOOLEAN /\ deleted \in BOOLEAN
    /\ connected \in BOOLEAN /\ connState \in {"INIT", "CONNECT_SENDING", "DATA"}
    /\ mqttTimer \in BOOLEAN /\ keep_alive_tick \in 0..KeepAlive /\ send_timeout \in 0..SendTimeout
    /\ pending \in Packets /\ message_id \in 0..IdSpan - 1 /\ inited \in BOOLEAN
    /\ dns_reconn_count \in 0..DnsTries
    /\ phase \in {"idle", "received", "again", "sent", "callback", "offline", "renewed", "undefined"}
    /\ job \in Seq(Packets) /\ outbound \in Seq(Packets) /\ Len(outbound) <= 1
    /\ out \in Seq(Packets) /\ flight \in 0..SndBuf
    /\ inn \in Seq([ack : Nat, packets : Seq(Packets)]) /\ session \in {"none", "open", "bad"}
    /\ queue \in Seq(Packets) /\ taken \in Nat
    /\ published \in Nat /\ subscribed \in Nat /\ messages \in Nat /\ Events <= MaxEvents
    /\ delivered \in Seq(Nat) /\ got \subseteq Nat /\ acked \subseteq Nat
    /\ early \in BOOLEAN

(* The stack and the timer hold raw pointers into a client that the        *)
(* garbage collector may free: as long as either may still call it, the    *)
(* registry keeps it alive and its espconn is the client's own.  The two   *)
(* uses of connect() that free an espconn in use are the only way for the  *)
(* stack to be left with one.                                              *)
ClientKept ==
    /\ deleted => ~mqttTimer /\ \A c \in Conns : link[c] = "none"
    /\ phase # "undefined" => \A c \in Conns : link[c] # "none" => pesp_conn = c /\ self_ref

(* A message of QoS 1 or 2 that the script was told is acknowledged has    *)
(* reached the broker, whatever else was published, subscribed or pinged   *)
(* in between, on this connection or an earlier one.                       *)
AckedMeansReceived == acked \subseteq got

(* Messages reach the message callback in the order the broker sent them   *)
(* and none twice, however they are packed into segments.                  *)
MessagesInOrder == \A i, j \in DOMAIN delivered : i < j => delivered[i] < delivered[j]

(* When the connect callback runs the script may publish or subscribe at   *)
(* once: nothing that an earlier connection left behind makes the call     *)
(* raise "sending in process", which in a callback would be a panic.       *)
ReadyOnConnect == [][connState # "DATA" /\ connState' = "DATA" /\ ~early => send_timeout' = 0]_vars

(* A client that raises "sending in process" accepts again, or goes        *)
(* offline, even if the broker never answers and the keep-alive goes on    *)
(* renewing the timeout: it counts down to 0 between two of them unless    *)
(* the script chose a keep-alive of less than SendTimeout - 1.             *)
BusyEnds ==
    SendTimeout <= KeepAlive + 1 =>
        (mqttTimer /\ send_timeout > 0 ~> send_timeout = 0 \/ ~mqttTimer \/ phase = "undefined")
=============================================================================
