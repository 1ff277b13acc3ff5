---------------------------- MODULE FileTransfer ----------------------------
(***************************************************************************)
(* The upload tool LuaNode/tools/wireless_file.py against the file server. *)
(* The tool turns a file into commands, sends one, waits until it comes    *)
(* back confirmed and sends the next one; it gives up on the first         *)
(* failure, and the user runs it again.  The server, the connections and   *)
(* the way TCP cuts the commands are those of FileServer; an answer that   *)
(* arrives in pieces waits in the tool's own buffer and counts when it is  *)
(* complete.                                                               *)
(***************************************************************************)
EXTENDS FileServer

CONSTANTS
    Sources,       \* the texts the user uploads
    Name,          \* os.path.basename(path)
    Remove,        \* the file.remove(...) command for the compiled form
    Chunk,         \* packet_size
    PowerMayFail   \* whether the node may lose its power

ASSUME TransferAssumption ==
    /\ Sources \subseteq Seq(Bytes) /\ Sources # {}
    /\ Name \in Seq(Bytes) /\ Name # NoFile /\ Remove \in Seq(Bytes)
    /\ Chunk \in Nat \ {0}
    /\ PowerMayFail \in BOOLEAN
    /\ Conns # {}

VARIABLES
    report,        \* what the tool said last
    source,        \* full_text
    sock,          \* the connection it uses
    status,        \* the "?" field of each command (a FAILED one ends the tool)
    send_num,
    allow_send,
    answered,      \* number of answers taken from the connection
    silent         \* espconn dropped an answer, or a part of it, on this connection

tool == <<report, source, sock, status, send_num, allow_send, answered>>
transferVars == <<vars, tool, silent>>

----------------------------------------------------------------------------
Packet(c, p) == [command |-> c, payload |-> p]

WholeChunksOnly(s) ==
    [i \in 1..Len(s) \div Chunk |-> Packet("W", SubSeq(s, Chunk * (i - 1) + 1, Chunk * i))]

(* The text in pieces of at most Chunk bytes. *)
Chunks(s) ==
    [i \in 1..(Len(s) + Chunk - 1) \div Chunk |->
        Packet("W", SubSeq(s, Chunk * (i - 1) + 1,
                           IF Chunk * i < Len(s) THEN Chunk * i ELSE Len(s)))]

(* prepare_file *)
PrepareFile(s) ==
    <<Packet("O", Name), Packet("G", Remove)>> \o Chunks(s) \o <<Packet("C", Name)>>

(* The user uploads text files, and packet_size, with the longest name a   *)
(* file may have, lets each command fit into the server's buffer.          *)
ASSUME UploadAssumption ==
    \A s \in Sources :
        /\ WellFormed(PrepareFile(s))
        /\ \A i \in 1..Len(PrepareFile(s)) :
              DigitFor(Len(PrepareFile(s)[i].payload)) \in Seq(DOMAIN Digits)

commands == PrepareFile(source)

TransferInit ==
    /\ Init
    /\ report = "idle" /\ source \in Sources
    /\ sock = CHOOSE c \in Conns : TRUE
    /\ status = <<>> /\ send_num = 0 /\ allow_send = TRUE /\ answered = 0
    /\ silent = FALSE

(* The tool is started: it queues all commands and connects. *)
Begin(c, s) ==
    /\ report # "running"
    /\ Accept(c, PrepareFile(s), <<>>)
    /\ report' = "running" /\ source' = s /\ sock' = c
    /\ status' = [i \in 1..Len(PrepareFile(s)) |-> "QUEUED"]
    /\ send_num' = 0 /\ allow_send' = TRUE /\ answered' = 0
    /\ silent' = FALSE

SendWithoutWaiting ==
    /\ report = "running" /\ send_num < Len(commands)
    /\ tosend' = [tosend EXCEPT ![sock] = @ \o Encode(commands[send_num + 1])]
    /\ status' = [status EXCEPT ![send_num + 1] = "SENT"]
    /\ send_num' = send_num + 1
    /\ allow_send' = FALSE
    /\ UNCHANGED <<espconnVars, g_pServer, m_pClient, parser, storage, lineBusy, handling,
                   pending, connects, script, log, faulted, report, source, sock, answered,
                   silent>>

SendCommand ==
    /\ report = "running" /\ send_num < Len(commands)
    /\ status[send_num + 1] = "QUEUED" /\ allow_send
    /\ tosend' = [tosend EXCEPT ![sock] = @ \o Encode(commands[send_num + 1])]
    /\ status' = [status EXCEPT ![send_num + 1] = "SENT"]
    /\ send_num' = send_num + 1
    /\ allow_send' = FALSE
    /\ UNCHANGED <<espconnVars, g_pServer, m_pClient, parser, storage, lineBusy, handling,
                   pending, connects, script, log, faulted, report, source, sock, answered,
                   silent>>

----------------------------------------------------------------------------
(* The commands an answer is about. *)
Matching(a) == {i \in 1..Len(commands) : status[i] = "SENT" /\ Encode(commands[i]) = a.packet}

(* The tool ends, and with it all it knew. *)
Exit(verdict) ==
    /\ report' = verdict
    /\ status' = <<>> /\ send_num' = 0 /\ allow_send' = TRUE /\ answered' = 0

Answered(a) ==
    [i \in 1..Len(status) |-> IF i \in Matching(a) THEN "CONFIRMED" ELSE status[i]]

AllConfirmed(a) == \A i \in 1..Len(status) : Answered(a)[i] = "CONFIRMED"

ConfirmWithoutSend(a) ==
    IF AllConfirmed(a) THEN Exit("done")
    ELSE status' = Answered(a) /\ answered' = answered + 1 /\ UNCHANGED <<report, send_num, allow_send>>

(* "Y|": the command is confirmed, the next one may be sent; the last one  *)
(* ends the loop with "File transfer done!".                               *)
Confirm(a) ==
    IF AllConfirmed(a) THEN Exit("done")
    ELSE /\ status' = Answered(a)
         /\ allow_send' = (allow_send \/ Matching(a) # {})
         /\ answered' = answered + 1
         /\ UNCHANGED <<report, send_num>>

(* "N|": the exception ends the tool. *)
Refuse(a) ==
    IF Matching(a) # {} THEN Exit("failed")
    ELSE answered' = answered + 1 /\ UNCHANGED <<report, status, send_num, allow_send>>

(* process_packet on the next answer; one that did not arrive whole stays  *)
(* in the tool's buffer.                                                   *)
ProcessPacket ==
    /\ report = "running" /\ answered < Len(log[sock]) /\ ~silent
    /\ LET a == log[sock][answered + 1]
       IN IF a.ok THEN Confirm(a) ELSE Refuse(a)
    /\ UNCHANGED <<vars, source, sock, silent>>

(* The tool finds the connection closed or reset, if the FIN or the reset  *)
(* reaches it: its select has no timeout and its socket no keep-alive.  A  *)
(* reset may overtake answers not read yet.                                *)
ConnectionLost ==
    /\ report = "running" /\ conn[sock] # "open"
    /\ Exit("failed")
    /\ silent' = FALSE
    /\ UNCHANGED <<vars, source, sock>>

(* The user interrupts the tool; what it has sent is still on its way. *)
Interrupt ==
    /\ report = "running"
    /\ Exit("failed")
    /\ silent' = FALSE
    /\ UNCHANGED <<vars, source, sock>>

(* The node loses its power: of a file that is still open only what was    *)
(* written to the flash remains.                                           *)
PowerLoss ==
    /\ PowerMayFail /\ ~faulted
    /\ faulted' = TRUE
    /\ handling' = NoClient /\ pending' = <<>>
    /\ IF file_fd = NoFile THEN UNCHANGED files
       ELSE \E n \in 0..Len(files[file_fd]) : files' = SetFile(file_fd, SubSeq(files[file_fd], 1, n))
    /\ UNCHANGED <<espconnVars, g_pServer, m_pClient, parser, file_fd, opener, lineBusy,
                   client, log, tool, silent>>

Deliver == \E c \in Conns : \E n \in 1..Len(tosend[c]) : Receive(c, n) /\ UNCHANGED <<tool, silent>>

(* fs_data_received; each of the two calls of espconn_sent that answer may *)
(* refuse, when a part of the last one is still to be written, or drop     *)
(* what it is given, when lwip has no memory.                              *)
Serve ==
    /\ Handler
    /\ silent' \in {silent, silent \/ (report = "running" /\ handling = sock /\ log' # log)}
    /\ UNCHANGED tool

(* espconn_server_poll closes a connection on which nothing happens. *)
PollCloses == silent /\ CloseConn(sock) /\ UNCHANGED <<tool, silent>>

TransferNext ==
    \/ \E c \in Conns, s \in Sources : Begin(c, s)
    \/ SendCommand
    \/ ProcessPacket
    \/ ConnectionLost
    \/ Interrupt
    \/ Deliver
    \/ Serve
    \/ \E c \in Conns : CloseConn(c) /\ UNCHANGED <<tool, silent>>
    \/ \E c \in Conns : FailConn(c) /\ UNCHANGED <<tool, silent>>
    \/ \E c \in Conns : EndConn(c) /\ UNCHANGED <<tool, silent>>
    \/ Console /\ UNCHANGED <<tool, silent>>
    \/ PowerLoss
    \/ Restart /\ UNCHANGED <<tool, silent>>

(* TCP delivers what was sent on a connection that stays open; the tool's  *)
(* loop, the server's handlers, lwip's poll timer and a node that starts   *)
(* again make progress.  Nothing says that the tool ever learns of a       *)
(* connection that is gone.                                                *)
TransferFairness ==
    /\ WF_transferVars(SendCommand)
    /\ WF_transferVars(ProcessPacket)
    /\ SF_transferVars(Deliver)
    /\ WF_transferVars(Serve)
    /\ WF_transferVars(PollCloses)
    /\ WF_transferVars(Restart /\ UNCHANGED <<tool, silent>>)

TransferSpec == TransferInit /\ [][TransferNext]_transferVars /\ TransferFairness

----------------------------------------------------------------------------
TransferTypeOK ==
    /\ TypeOK
    /\ report \in {"idle", "running", "done", "failed"}
    /\ source \in Sources /\ sock \in Conns
    /\ status \in Seq({"QUEUED", "SENT", "CONFIRMED"})
    /\ send_num \in 0..Len(status) /\ allow_send \in BOOLEAN
    /\ answered \in 0..send_num
    /\ silent \in BOOLEAN

Stored == IF Name \in DOMAIN files THEN files[Name] ELSE NoFile

(* The tool and the server implement Upload: however the connections fail, *)
(* the flash fails, the tool is interrupted and started again with another *)
(* text or the node loses its power, the node holds the beginning of a     *)
(* text that was uploaded, success is reported only when all of it is      *)
(* there, and then it stays there.                                         *)
Promise == INSTANCE Upload WITH stored <- Stored, Absent <- NoFile
KeepsPromise == Promise!Spec

(* What tcp_write did not take of an answer espconn keeps as a pointer     *)
(* into m_DataBuffer, and writes it from there when the part before it was *)
(* acknowledged: as long as the tool has not read the answer, no further   *)
(* byte is in the buffer or on its way to it.                              *)
AnswerIntact ==
    report = "running" /\ m_pClient = sock /\ answered < Len(log[sock]) =>
        m_DataBuffer = <<>> /\ tosend[sock] = <<>>

(* The tool and the server do not wait for each other on an open           *)
(* connection: the tool ends, or the server's side of the connection does, *)
(* also when espconn dropped the answer the tool is waiting for.           *)
NoMutualWait ==
    report = "running" ~> report # "running" \/ conn[sock] # "open"
=============================================================================
