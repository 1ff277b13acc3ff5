--------------------------- MODULE EspconnServer ---------------------------
(***************************************************************************)
(* The server side of espconn (app/lwip/app/espconn.c, espconn_tcp.c): how *)
(* accepted connections live and die and how they share fields with the    *)
(* listening espconn.  An accepted connection starts as a copy of the      *)
(* listening one; when it ends its fields are copied back into the         *)
(* listening one, it is freed, and the disconnect or reconnect callback is *)
(* called with the LISTENING espconn.  Of the fields only two matter to    *)
(* the callbacks: the `reverse' pointer and whether the user registered    *)
(* its callbacks.                                                          *)
(***************************************************************************)
EXTENDS Integers, FiniteSets

CONSTANT Conns        \* identities of accepted connections

VARIABLES
    conn,     \* state of each connection: "free", "open", "closing", "failed"
    fields,   \* of each connection: [reverse |-> BOOLEAN, callbacks |-> BOOLEAN]
    listen,   \* the same fields of the listening espconn
    listenTcp \* the listening espconn still has its proto.tcp block

espconnVars == <<conn, fields, listen, listenTcp>>

Fields == [reverse : BOOLEAN, callbacks : BOOLEAN]
NoFields == [reverse |-> FALSE, callbacks |-> FALSE]

EspconnTypeOK ==
    /\ conn \in [Conns -> {"free", "open", "closing", "failed"}]
    /\ fields \in [Conns -> Fields]
    /\ listen \in Fields
    /\ listenTcp \in BOOLEAN

(* espconn_accept: listening, reverse points to the user's object.         *)
EspconnInit ==
    /\ conn = [c \in Conns |-> "free"]
    /\ fields = [c \in Conns |-> NoFields]
    /\ listen = [reverse |-> TRUE, callbacks |-> FALSE]
    /\ listenTcp = TRUE

(* espconn_tcp_accept: the new connection is a copy of the listening one,  *)
(* which the connect callback turns into f; it may be closed right there.  *)
AcceptAs(c, f, state) ==
    /\ conn[c] = "free"
    /\ conn' = [conn EXCEPT ![c] = state]
    /\ fields' = [fields EXCEPT ![c] = f]
    /\ UNCHANGED <<listen, listenTcp>>

(* espconn_server_close, called by espconn_disconnect, on a FIN from the   *)
(* peer and when espconn_server_poll finds the connection idle too long:   *)
(* a timer watches the pcb.  No more data is delivered, also when          *)
(* tcp_close fails and espconn_server_recv is installed again: tcp_close   *)
(* sets TF_RXCLOSED before anything can fail, and tcp_input aborts such a  *)
(* connection when data arrives (ServerErr).  After a failure the poll     *)
(* callback stays, and closes again.                                       *)
ServerClose(c) ==
    /\ conn[c] = "open"
    /\ conn' = [conn EXCEPT ![c] = "closing"]

(* esponn_server_err: the connection was reset or gave up retransmitting;  *)
(* a 10 ms timer leads to espconn_tcp_reconnect.                           *)
ServerErr(c) ==
    /\ conn[c] \in {"open", "closing"}
    /\ conn' = [conn EXCEPT ![c] = "failed"]
    /\ UNCHANGED <<fields, listen, listenTcp>>

EndOfClosedOnly(c, rev) ==
    /\ conn[c] = "closing"
    /\ conn' = [conn EXCEPT ![c] = "free"]
    /\ fields' = [fields EXCEPT ![c] = NoFields]
    /\ listen' = [reverse |-> rev, callbacks |-> fields[c].callbacks]
    /\ UNCHANGED listenTcp

(* espconn_sclose_cb followed by espconn_tcp_disconnect_successful, or     *)
(* espconn_tcp_reconnect: the fields go back to the listening espconn and  *)
(* the connection is freed.  The callback that follows leaves `rev' in the *)
(* listening espconn's reverse.                                            *)
EndOf(c, rev) ==
    /\ conn[c] \in {"closing", "failed"}
    /\ conn' = [conn EXCEPT ![c] = "free"]
    /\ fields' = [fields EXCEPT ![c] = NoFields]
    /\ listen' = [reverse |-> rev, callbacks |-> fields[c].callbacks]
    /\ UNCHANGED listenTcp
=============================================================================
