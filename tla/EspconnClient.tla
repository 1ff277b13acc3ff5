--------------------------- MODULE EspconnClient ---------------------------
(***************************************************************************)
(* The client side of espconn (lwip/app/espconn.c and espconn_tcp.c): what *)
(* a connection that the node opened goes through, and which callback the  *)
(* module above gets when it ends.  The stack keeps a raw pointer to the   *)
(* module's espconn from espconn_connect until it has made that callback.  *)
(*                                                                         *)
(* The reconnect callback is registered before espconn_connect; the        *)
(* disconnect callback only once the connection is up.                     *)
(***************************************************************************)
CONSTANTS
    Conns        \* the espconn objects allocated one after the other

VARIABLES
    link,        \* what the stack does with each of them
    discb        \* the disconnect callback is registered

stack == <<link, discb>>

(* "none": no business of the stack; "dns": waiting for an address; "syn": *)
(* tcp_connect was called; "stuck": it failed, and the node stays in the   *)
(* list with a pcb that is not open; "closing": tcp_close was called and   *)
(* the close timer runs; "err": the connection broke and the reconnect     *)
(* timer runs.                                                             *)
Links == {"none", "dns", "syn", "stuck", "up", "closing", "err"}

StackInit ==
    /\ link = [c \in Conns |-> "none"]
    /\ discb = [c \in Conns |-> FALSE]

StackTypeOK == link \in [Conns -> Links] /\ discb \in [Conns -> BOOLEAN]

(* espconn_find_connection: c is in plink_active. *)
InList(c) == link[c] \in {"syn", "stuck", "up", "closing"}

(* espconn_tcp_sent gets data into the pcb: before the connection is up    *)
(* tcp_write queues it, after tcp_close it refuses.                        *)
Writable(c) == link[c] \in {"syn", "up"}

(* espconn_connect: without an address of its own, or out of memory, it    *)
(* returns an error and nothing more happens; when tcp_connect fails, the  *)
(* node that espconn_tcp_client put into plink_active stays there.         *)
StackConnect(c) == link' \in {[link EXCEPT ![c] = l] : l \in {"syn", "stuck", "none"}}

(* espconn_client_connect, up to the module's connect callback. *)
LinkUp(c) ==
    /\ link[c] = "syn"
    /\ link' = [link EXCEPT ![c] = "up"]

(* espconn_client_err: refused, reset or given up after retransmissions. *)
LinkBreaks(c) ==
    /\ InList(c) /\ link[c] # "stuck"
    /\ link' = [link EXCEPT ![c] = "err"]
    /\ UNCHANGED discb

(* espconn_client_close: called by espconn_disconnect, and by              *)
(* espconn_client_recv when the other side has closed.  When tcp_close     *)
(* fails it puts espconn_client_recv back, but tcp_close has set           *)
(* TF_RXCLOSED first, with which tcp_input aborts the connection instead   *)
(* of delivering data.                                                     *)
ClientClose(c) == link' = [link EXCEPT ![c] = IF InList(c) THEN "closing" ELSE @]

(* The close timer, or the reconnect timer, makes the callback. *)
LinkEnds(c) ==
    /\ link[c] \in {"closing", "err"}
    /\ link' = [link EXCEPT ![c] = "none"]
    /\ UNCHANGED discb

Notifies(c) == link[c] = "err" \/ discb[c]
=============================================================================
