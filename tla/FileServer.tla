----------------------------- MODULE FileServer -----------------------------
(***************************************************************************)
(* The file server of app/modules/file_server.c on top of espconn: one     *)
(* client at a time sends commands                                         *)
(*        <letter> "|" <size> "|" <payload of that size>                   *)
(* (O open, W write, C close, G run) over TCP, in segments of any size,    *)
(* and gets each one back behind "Y|" or "N|".  A received segment is      *)
(* consumed by fs_data_received and its tail calls to itself; between two  *)
(* of them `pending' holds what is left of the segment, and no other       *)
(* handler runs.  The file system and the console's line buffer, which RUN *)
(* borrows, are seen as the handler uses them.                             *)
(***************************************************************************)
EXTENDS EspconnServer, Sequences

CONSTANTS
    MaxBufferSize,  \* MAX_BUFFER_SIZE
    NameMax,        \* FS_NAME_MAX_LENGTH
    Digits,         \* byte |-> value, for the bytes '0'..'9' in use
    Letters,        \* the bytes of payloads
    Scripts,        \* the command sequences a client may send over one connection
    FlashMayFail,   \* whether fs_open, fs_write and fs_flush may fail
    MayStop,        \* whether Lua calls fs:stop()
    MaxConnects,    \* bound: connections accepted
    DigitFor(_)     \* the size field of a number, as the client prints it

Commands == {"O", "W", "C", "G"}
IDLE == "-"
Sep == "|"
Zero == "NUL"
Bytes == Commands \union {Sep, Zero, "?"} \union DOMAIN Digits \union Letters
NoClient == "none"
NoFile == <<"none">>

ASSUME FileServerAssumption ==
    /\ MaxBufferSize \in Nat /\ MaxBufferSize > 2
    /\ NameMax \in Nat
    /\ NoClient \notin Conns
    /\ \A d \in DOMAIN Digits : Digits[d] \in 0..9
    /\ Sep \notin DOMAIN Digits
    /\ Scripts \subseteq Seq([command : Bytes, payload : Seq(Bytes)])
    /\ FlashMayFail \in BOOLEAN /\ MayStop \in BOOLEAN
    /\ MaxConnects \in Nat
    /\ \A sc \in Scripts : \A i \in 1..Len(sc) : DigitFor(Len(sc[i].payload)) \in Seq(DOMAIN Digits)

VARIABLES
    g_pServer,      \* g_pServer # NULL
    m_pClient,      \* the connection in the client slot
    m_DataBuffer,   \* the m_DataLength bytes received
    m_ReadPoint,
    m_Payload,
    m_State,        \* "NO_COMMAND", "NO_SIZE" or "NO_DATA"
    m_Command,
    file_fd,        \* name of the open file, or NoFile
    files,          \* contents of the files that exist
    lineBusy,       \* gLoad.line_position # 0
    handling,       \* the connection whose data is being handled, or NoClient
    pending,        \* the rest of the segment being handled
    tosend,         \* per connection: bytes the client has not sent yet
    connects,       \* number of connections accepted
    script,         \* history, per connection: the commands the client sends
    log,            \* per connection: the commands executed and the answers given to espconn
    opener,         \* history: the connection whose command opened file_fd
    faulted         \* a NULL proto.tcp or g_pServer was dereferenced

parser  == <<m_DataBuffer, m_ReadPoint, m_Payload, m_State, m_Command>>
storage == <<file_fd, files, opener>>
client  == <<tosend, connects, script>>
vars == <<espconnVars, g_pServer, m_pClient, parser, storage, lineBusy,
          handling, pending, client, log, faulted>>

Init ==
    /\ EspconnInit
    /\ g_pServer = TRUE /\ m_pClient = NoClient
    /\ m_DataBuffer = <<>> /\ m_ReadPoint = 0 /\ m_Payload = 0
    /\ m_State = "NO_COMMAND" /\ m_Command = IDLE
    /\ file_fd = NoFile /\ files = <<>> /\ opener = NoClient
    /\ lineBusy = FALSE
    /\ handling = NoClient /\ pending = <<>>
    /\ tosend = [c \in Conns |-> <<>>] /\ connects = 0
    /\ script = [c \in Conns |-> <<>>] /\ log = [c \in Conns |-> <<>>]
    /\ faulted = FALSE

(* Between two handlers. *)
Quiet == handling = NoClient /\ ~faulted

----------------------------------------------------------------------------
(* Parsing. Positions are 0-based as in the source. *)

(* The position of the first separator from position rp on, if any. *)
SepAt(b, rp) == {i \in rp..Len(b) - 1 : b[i + 1] = Sep /\ \A j \in rp..i - 1 : b[j + 1] # Sep}

(* atoi: 0 as soon as one byte is no digit. *)
Atoi(s) ==
    LET value[i \in 0..Len(s)] == IF i = 0 THEN 0 ELSE 10 * value[i - 1] + Digits[s[i]]
    IN IF \A i \in 1..Len(s) : s[i] \in DOMAIN Digits THEN value[Len(s)] ELSE 0

(* Clients print sizes in decimal ("%d"): atoi reads them back. *)
ASSUME DigitForAssumption ==
    \A n \in 0..MaxBufferSize : DigitFor(n) \in Seq(DOMAIN Digits) /\ Atoi(DigitFor(n)) = n

Header(state, command, rp, payload) ==
    [state |-> state, command |-> command, rp |-> rp, payload |-> payload]

(* The command byte: an unknown one leaves the state at NO_COMMAND. *)
AfterCommand(b) ==
    IF m_State # "NO_COMMAND" THEN Header(m_State, m_Command, m_ReadPoint, m_Payload)
    ELSE IF b[1] \in Commands THEN Header("NO_SIZE", b[1], 2, m_Payload)
    ELSE Header("NO_COMMAND", IDLE, 2, m_Payload)

(* The size field. *)
AfterSize(b, h) ==
    IF h.state # "NO_SIZE" \/ SepAt(b, h.rp) = {} THEN h
    ELSE LET i == CHOOSE i \in SepAt(b, h.rp) : TRUE
         IN Header("NO_DATA", h.command, i + 1, Atoi(SubSeq(b, h.rp + 1, i)))

Parsed(b) == AfterSize(b, AfterCommand(b))

(* strlen stops at a zero byte inside the payload. *)
CString(s) ==
    IF \E i \in 1..Len(s) : s[i] = Zero
    THEN SubSeq(s, 1, (CHOOSE i \in 1..Len(s) : s[i] = Zero /\ \A j \in 1..i-1 : s[j] # Zero) - 1)
    ELSE s

----------------------------------------------------------------------------
(* The client's side of the wire: "W|%d|%s" and so on. *)
Encode(p) == <<p.command, Sep>> \o DigitFor(Len(p.payload)) \o <<Sep>> \o p.payload

Stream(sc) ==
    LET enc[i \in 0..Len(sc)] == IF i = 0 THEN <<>> ELSE enc[i - 1] \o Encode(sc[i])
    IN enc[Len(sc)]

ConnectedKeepsReverse(c) ==
    IF m_pClient # NoClient
    THEN AcceptAs(c, listen, "closing") /\ UNCHANGED m_pClient
    ELSE AcceptAs(c, [reverse |-> TRUE, callbacks |-> TRUE], "open") /\ m_pClient' = c

(* fs_client_connected: the first client takes the slot and registers its  *)
(* callbacks; further ones are marked and disconnected at once.            *)
ClientConnected(c) ==
    IF m_pClient # NoClient
    THEN /\ AcceptAs(c, [reverse |-> FALSE, callbacks |-> listen.callbacks], "closing")
         /\ UNCHANGED m_pClient
    ELSE /\ AcceptAs(c, [reverse |-> TRUE, callbacks |-> TRUE], "open")
         /\ m_pClient' = c

(* What is kept about connections is forgotten once they are gone. *)
Living(f) == [d \in Conns |-> IF conn[d] = "free" THEN <<>> ELSE f[d]]

(* A client that is going to send the commands sc connects; `bytes' is    *)
(* what it sends right away.                                               *)
Accept(c, sc, bytes) ==
    /\ Quiet /\ connects < MaxConnects /\ conn[c] = "free"
    /\ connects' = connects + 1
    /\ IF listenTcp /\ g_pServer
       THEN /\ ClientConnected(c)
            /\ script' = [Living(script) EXCEPT ![c] = sc]
            /\ tosend' = [Living(tosend) EXCEPT ![c] = bytes]
            /\ log' = Living(log)
            /\ UNCHANGED faulted
       ELSE /\ faulted' = TRUE
            /\ UNCHANGED <<espconnVars, m_pClient, script, tosend, log>>
    /\ UNCHANGED <<g_pServer, parser, storage, lineBusy, handling, pending>>

Connect(c, sc) == Accept(c, sc, Stream(sc))

(* The peer closes, or espconn_server_poll times the connection out. *)
CloseConn(c) ==
    /\ Quiet
    /\ ServerClose(c)
    /\ UNCHANGED <<fields, listen, listenTcp, g_pServer, m_pClient, parser, storage,
                   lineBusy, handling, pending, client, log, faulted>>

FailConn(c) ==
    /\ Quiet
    /\ ServerErr(c)
    /\ UNCHANGED <<g_pServer, m_pClient, parser, storage, lineBusy, handling, pending,
                   client, log, faulted>>

DisconnectedKeepsFile(c) ==
    IF fields[c].reverse /\ fields[c].callbacks
    THEN /\ EndOf(c, FALSE)
         /\ m_pClient' = NoClient
         /\ m_DataBuffer' = <<>> /\ m_ReadPoint' = 0 /\ m_Payload' = 0
         /\ m_State' = "NO_COMMAND" /\ m_Command' = IDLE
         /\ UNCHANGED storage
    ELSE EndOf(c, fields[c].reverse) /\ UNCHANGED <<m_pClient, parser, storage>>

DisconnectedKeepsBuffer(c) ==
    IF fields[c].reverse /\ fields[c].callbacks
    THEN /\ EndOf(c, FALSE)
         /\ m_pClient' = NoClient
         /\ file_fd' = NoFile /\ opener' = NoClient
         /\ UNCHANGED <<parser, files>>
    ELSE EndOf(c, fields[c].reverse) /\ UNCHANGED <<m_pClient, parser, storage>>

(* fs_client_disconnected on the listening espconn, which now carries the  *)
(* fields of connection c.                                                 *)
ClientDisconnected(c) ==
    IF fields[c].reverse /\ fields[c].callbacks
    THEN /\ EndOf(c, FALSE)
         /\ m_pClient' = NoClient
         /\ m_DataBuffer' = <<>> /\ m_ReadPoint' = 0 /\ m_Payload' = 0
         /\ m_State' = "NO_COMMAND" /\ m_Command' = IDLE
         /\ file_fd' = NoFile /\ opener' = NoClient
         /\ UNCHANGED files
    ELSE /\ EndOf(c, fields[c].reverse)
         /\ UNCHANGED <<m_pClient, parser, storage>>

EndConn(c) ==
    /\ Quiet
    /\ IF listenTcp
       THEN ClientDisconnected(c) /\ UNCHANGED faulted
       ELSE /\ conn[c] \in {"closing", "failed"}
            /\ faulted' = TRUE
            /\ UNCHANGED <<espconnVars, m_pClient, parser, storage>>
    /\ UNCHANGED <<g_pServer, lineBusy, handling, pending, client, log>>

(* espconn_server_recv delivers the next n bytes as one segment. *)
Receive(c, n) ==
    /\ Quiet /\ conn[c] = "open"
    /\ tosend' = [tosend EXCEPT ![c] = SubSeq(@, n + 1, Len(@))]
    /\ IF fields[c].callbacks /\ fields[c].reverse
       THEN handling' = c /\ pending' = SubSeq(tosend[c], 1, n)
       ELSE UNCHANGED <<handling, pending>>
    /\ UNCHANGED <<espconnVars, g_pServer, m_pClient, parser, storage, lineBusy,
                   connects, script, log, faulted>>

----------------------------------------------------------------------------
CopiedAll == Len(pending)

(* One run of fs_data_received on `pending'; b is the buffer after the     *)
(* copy and h what its header says.                                        *)
Copied == LET room == MaxBufferSize - Len(m_DataBuffer)
          IN IF Len(pending) < room THEN Len(pending) ELSE room
Filled == m_DataBuffer \o SubSeq(pending, 1, Copied)
Rest == SubSeq(pending, Copied + 1, Len(pending))
TooShort(b) == m_State = "NO_COMMAND" /\ Len(b) < 2

Continue(rest) ==
    /\ pending' = rest
    /\ handling' = IF rest = <<>> THEN NoClient ELSE handling

Disconnect(c) == conn' = [conn EXCEPT ![c] = IF @ = "open" THEN "closing" ELSE @]

NoRoomGoesOn ==
    /\ Copied = 0
    /\ Disconnect(handling)
    /\ Continue(pending)
    /\ UNCHANGED <<fields, listen, listenTcp, g_pServer, m_pClient, parser, storage,
                   lineBusy, client, log, faulted>>

(* No room for a single byte more: the client is disconnected. *)
DataNoRoom ==
    /\ Copied = 0
    /\ Disconnect(handling)
    /\ Continue(<<>>)
    /\ UNCHANGED <<fields, listen, listenTcp, g_pServer, m_pClient, parser, storage,
                   lineBusy, client, log, faulted>>

SaveHeader(b, h) ==
    /\ m_DataBuffer' = b
    /\ m_State' = h.state /\ m_Command' = h.command
    /\ m_ReadPoint' = h.rp /\ m_Payload' = h.payload

(* No command or no size yet: return, whatever is left of the segment. *)
DataNoHeader(b, h) ==
    /\ Copied > 0
    /\ IF TooShort(b)
       THEN m_DataBuffer' = b /\ UNCHANGED <<m_ReadPoint, m_Payload, m_State, m_Command>>
       ELSE h.state = "NO_SIZE" /\ SaveHeader(b, h)
    /\ Continue(<<>>)
    /\ UNCHANGED <<espconnVars, g_pServer, m_pClient, storage, lineBusy, client, log, faulted>>

(* The payload is not complete yet: go on with the rest of the segment. *)
DataIncomplete(b, h) ==
    /\ Copied > 0 /\ ~TooShort(b)
    /\ h.state = "NO_DATA" /\ Len(b) - h.rp < h.payload
    /\ SaveHeader(b, h)
    /\ Continue(Rest)
    /\ UNCHANGED <<espconnVars, g_pServer, m_pClient, storage, lineBusy, client, log, faulted>>

(* A whole packet is in the buffer.  The byte behind it is replaced by the *)
(* terminator and put back before anything else is read: when the packet   *)
(* fills the buffer that byte is the first one of m_DataLength, which      *)
(* follows it in FileServer_t and is not used in between.                  *)
HasPacket(b, h) ==
    /\ Copied > 0 /\ ~TooShort(b)
    /\ h.state # "NO_SIZE" /\ Len(b) - h.rp >= h.payload

PacketLen(h) == h.rp + h.payload
Payload(b, h) == CString(SubSeq(b, h.rp + 1, PacketLen(h)))

(* "Y|" or "N|" and the bytes of the packet are given to espconn_sent,     *)
(* whose result is ignored: whether they reach the client is another       *)
(* matter (see FileTransfer).                                              *)
Reply(b, h, ok) ==
    log' = [log EXCEPT ![handling] =
               Append(@, [command |-> h.command, payload |-> Payload(b, h), ok |-> ok,
                          packet |-> SubSeq(b, 1, PacketLen(h))])]

AnswerDropsRest(b, h, ok) ==
    /\ Reply(b, h, ok)
    /\ IF ok THEN UNCHANGED conn ELSE Disconnect(handling)
    /\ m_DataBuffer' = <<>>
    /\ m_ReadPoint' = 0 /\ m_Payload' = 0
    /\ m_State' = "NO_COMMAND" /\ m_Command' = IDLE
    /\ Continue(Rest)
    /\ UNCHANGED <<fields, listen, listenTcp, g_pServer, m_pClient, lineBusy, client, faulted>>

(* The answer, the disconnection after a failure, the move of what is left *)
(* in the buffer to its front and the reset of the state machine.          *)
Answer(b, h, ok) ==
    /\ Reply(b, h, ok)
    /\ IF ok THEN UNCHANGED conn ELSE Disconnect(handling)
    /\ m_DataBuffer' = SubSeq(b, PacketLen(h) + 1, Len(b))
    /\ m_ReadPoint' = 0 /\ m_Payload' = 0
    /\ m_State' = "NO_COMMAND" /\ m_Command' = IDLE
    /\ Continue(Rest)
    /\ UNCHANGED <<fields, listen, listenTcp, g_pServer, m_pClient, lineBusy, client, faulted>>

SetFile(n, text) == [m \in DOMAIN files \union {n} |-> IF m = n THEN text ELSE files[m]]
WithoutFile(n) == [m \in DOMAIN files \ {n} |-> files[m]]

(* OPEN closes the file that is still open, then replaces the named one. *)
OpenFile(b, h) ==
    /\ HasPacket(b, h) /\ h.command = "O"
    /\ \/ /\ Len(Payload(b, h)) <= NameMax
          /\ files' = SetFile(Payload(b, h), <<>>)
          /\ file_fd' = Payload(b, h) /\ opener' = handling
          /\ Answer(b, h, TRUE)
       \/ /\ Len(Payload(b, h)) <= NameMax /\ FlashMayFail
          /\ files' \in {files, WithoutFile(Payload(b, h)), SetFile(Payload(b, h), <<>>)}
          /\ file_fd' = NoFile /\ opener' = NoClient
          /\ Answer(b, h, FALSE)
       \/ /\ Len(Payload(b, h)) > NameMax
          /\ file_fd' = NoFile /\ opener' = NoClient
          /\ UNCHANGED files
          /\ Answer(b, h, FALSE)

WriteFile(b, h) ==
    /\ HasPacket(b, h) /\ h.command = "W"
    /\ \/ /\ file_fd # NoFile
          /\ files' = SetFile(file_fd, files[file_fd] \o Payload(b, h))
          /\ Answer(b, h, TRUE)
       \/ /\ file_fd # NoFile /\ FlashMayFail
          /\ \E k \in 0..Len(Payload(b, h)) - 1 :
                files' = SetFile(file_fd, files[file_fd] \o SubSeq(Payload(b, h), 1, k))
          /\ Answer(b, h, FALSE)
       \/ /\ file_fd = NoFile
          /\ UNCHANGED files
          /\ Answer(b, h, FALSE)
    /\ UNCHANGED <<file_fd, opener>>

CloseFile(b, h) ==
    /\ HasPacket(b, h) /\ h.command = "C"
    /\ file_fd' = NoFile /\ opener' = NoClient
    /\ UNCHANGED files
    /\ \/ file_fd # NoFile /\ Answer(b, h, TRUE)
       \/ (file_fd = NoFile \/ FlashMayFail) /\ Answer(b, h, FALSE)

RunLua(b, h) ==
    /\ HasPacket(b, h) /\ h.command = "G"
    /\ Answer(b, h, ~lineBusy)
    /\ UNCHANGED storage

UnknownCommand(b, h) ==
    /\ HasPacket(b, h) /\ h.command = IDLE
    /\ Answer(b, h, FALSE)
    /\ UNCHANGED storage

----------------------------------------------------------------------------
(* Someone types on the console, or dojob has taken the line. *)
Console ==
    /\ Quiet
    /\ lineBusy' = ~lineBusy
    /\ UNCHANGED <<espconnVars, g_pServer, m_pClient, parser, storage, handling, pending,
                   client, log, faulted>>

(* fs:stop(), also called when the Lua object is collected. *)
Stop ==
    /\ Quiet /\ MayStop /\ g_pServer
    /\ g_pServer' = FALSE /\ listenTcp' = FALSE
    /\ UNCHANGED <<conn, fields, listen, m_pClient, parser, storage, lineBusy, handling,
                   pending, client, log, faulted>>

(* The access through a NULL pointer raises an exception and the node      *)
(* starts again; init.lua starts a new server.  The files stay.            *)
Restart ==
    /\ faulted
    /\ faulted' = FALSE
    /\ conn' = [c \in Conns |-> "free"] /\ fields' = [c \in Conns |-> NoFields]
    /\ listen' = [reverse |-> TRUE, callbacks |-> FALSE] /\ listenTcp' = TRUE
    /\ g_pServer' = TRUE /\ m_pClient' = NoClient
    /\ m_DataBuffer' = <<>> /\ m_ReadPoint' = 0 /\ m_Payload' = 0
    /\ m_State' = "NO_COMMAND" /\ m_Command' = IDLE
    /\ file_fd' = NoFile /\ opener' = NoClient
    /\ lineBusy' = FALSE
    /\ tosend' = [c \in Conns |-> <<>>]
    /\ script' = [c \in Conns |-> <<>>] /\ log' = [c \in Conns |-> <<>>]
    /\ UNCHANGED <<files, handling, pending, connects>>

Handler ==
    /\ handling # NoClient
    /\ LET b == Filled
           h == Parsed(b)
       IN \/ DataNoRoom
          \/ DataNoHeader(b, h)
          \/ DataIncomplete(b, h)
          \/ OpenFile(b, h)
          \/ WriteFile(b, h)
          \/ CloseFile(b, h)
          \/ RunLua(b, h)
          \/ UnknownCommand(b, h)

Next ==
    \/ \E c \in Conns, sc \in Scripts : Connect(c, sc)
    \/ \E c \in Conns : \E n \in 1..Len(tosend[c]) : Receive(c, n)
    \/ \E c \in Conns : CloseConn(c)
    \/ \E c \in Conns : FailConn(c)
    \/ \E c \in Conns : EndConn(c)
    \/ Handler
    \/ Console
    \/ Stop
    \/ Restart

(* Handlers return, the timers behind a dying connection fire and a node   *)
(* that crashed restarts.                                                  *)
Fairness ==
    /\ WF_vars(Handler)
    /\ WF_vars(Restart)
    /\ \A c \in Conns : WF_vars(EndConn(c))

Spec == Init /\ [][Next]_vars /\ Fairness

----------------------------------------------------------------------------
TypeOK ==
    /\ EspconnTypeOK
    /\ g_pServer \in BOOLEAN /\ m_pClient \in Conns \union {NoClient}
    /\ m_DataBuffer \in Seq(Bytes) /\ Len(m_DataBuffer) <= MaxBufferSize
    /\ m_ReadPoint \in 0..Len(m_DataBuffer) /\ m_Payload \in Nat
    /\ m_State \in {"NO_COMMAND", "NO_SIZE", "NO_DATA"}
    /\ m_Command \in Commands \union {IDLE}
    /\ file_fd = NoFile \/ file_fd \in DOMAIN files
    /\ opener \in Conns \union {NoClient}
    /\ lineBusy \in BOOLEAN /\ faulted \in BOOLEAN
    /\ handling \in Conns \union {NoClient} /\ pending \in Seq(Bytes)
    /\ connects \in Nat

(* The client slot and the connections agree: the server's object is       *)
(* reachable through `reverse' from the connection in the slot and from no *)
(* other, although rejected clients, dying clients and the listening       *)
(* espconn keep copying these fields from one to the other.                *)
SlotMatches ==
    \A c \in Conns : m_pClient = c <=> conn[c] # "free" /\ fields[c].reverse

(* A free slot is as new: nothing of a former client's bytes, half parsed  *)
(* command or open file is left for the next one, however the former one   *)
(* went away.                                                              *)
FreshSlot ==
    m_pClient = NoClient =>
        /\ m_DataBuffer = <<>> /\ m_ReadPoint = 0 /\ m_Payload = 0
        /\ m_State = "NO_COMMAND" /\ m_Command = IDLE
        /\ file_fd = NoFile

(* file_fd is one global for all clients: an open file was always opened   *)
(* by the client that is in the slot, so nobody writes into a file that    *)
(* someone else opened.                                                    *)
FileOfClient == file_fd # NoFile => opener = m_pClient

(* A script of known commands without zero bytes, each small enough for    *)
(* the buffer.                                                             *)
WellFormed(sc) ==
    \A i \in 1..Len(sc) :
        /\ sc[i].command \in Commands
        /\ Len(Encode(sc[i])) <= MaxBufferSize
        /\ \A j \in 1..Len(sc[i].payload) : sc[i].payload[j] # Zero

(* However TCP cuts the client's bytes into segments, and whatever bytes   *)
(* the payloads consist of, the server executes the commands it was sent,  *)
(* in order, none twice and none that was not sent.                        *)
InOrder ==
    \A c \in Conns : WellFormed(script[c]) =>
        /\ Len(log[c]) <= Len(script[c])
        /\ \A i \in 1..Len(log[c]) :
              /\ log[c][i].command = script[c][i].command
              /\ log[c][i].payload = script[c][i].payload

(* A client that is going away gives the slot back. *)
SlotIsFreed ==
    \A c \in Conns : (m_pClient = c /\ conn[c] # "open") ~> m_pClient = NoClient

(* fs_data_received's calls to itself end. *)
HandlerReturns == handling # NoClient ~> handling = NoClient

(* stop() "stops the file server and destroys all associated data": what   *)
(* connections still do afterwards does not touch destroyed data.          *)
NoFault == ~faulted
=============================================================================
