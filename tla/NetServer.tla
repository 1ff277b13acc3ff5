----------------------------- MODULE NetServer -----------------------------
(***************************************************************************)
(* The TCP server of app/modules/net.c on the server side of espconn: each *)
(* accepted connection has a userdata (net.socket), kept alive by a        *)
(* reference to itself that is stored twice, in the userdata and in the    *)
(* static array socket[], until the end of the connection is reported.     *)
(* The report comes through the LISTENING espconn, whose reverse pointer   *)
(* is overwritten by each connection that ends.                            *)
(*                                                                         *)
(* In a callback the script does what it may do at any time; while         *)
(* net_server_disconnected waits for the disconnection callback (`ending') *)
(* the stack does nothing.  Socks are addresses: a userdata that was       *)
(* collected leaves its address to the next one, and pointers to it may    *)
(* still be around.  As soon as the code reads or writes memory that is    *)
(* free, or through NULL, the behaviour is undefined and the model ends.   *)
(***************************************************************************)
EXTENDS EspconnServer, LuaRegistry

CONSTANTS
    MAX_SOCKET,
    MaxCon,       \* MEMP_NUM_TCP_PCB, the connections espconn accepts
    Socks,        \* addresses of userdata
    Funs,         \* Lua functions
    MaxAccepts,   \* bound: connections the peers make
    Events        \* the callbacks of a socket that the script may set

VARIABLES
    socket,       \* the references in the static array
    socket_num,
    tcpserver_cb_connect_ref,
    nud,          \* of each userdata: [pesp_conn, self_ref, cb, state]
    remote,       \* the connection whose address the listening espconn has, NULL if it is gone
    accepts,      \* number of connections made so far
    ending,       \* the userdata whose disconnection callback runs, or NULL
    undefined,    \* freed memory, or NULL, was used
    own,          \* history: the userdata each connection was given
    inherited     \* history: a connection without one has got a socket's address

netVars == <<registry, socket, socket_num, tcpserver_cb_connect_ref, nud, remote,
             accepts, ending, undefined, own, inherited>>
vars == <<espconnVars, netVars>>

NULL == NoFields.reverse

(* Functions and userdata are different Lua values, and an address is not  *)
(* NULL.                                                                   *)
ASSUME NetAssumption ==
    /\ MAX_SOCKET \in Nat \ {0} /\ MaxCon \in Nat \ {0} /\ MaxAccepts \in Nat
    /\ Events \subseteq {"disconnection", "receive", "sent", "dns"}
    /\ "disconnection" \in Events
    /\ Funs \intersect Socks = {}
    /\ NULL \notin Conns /\ NULL \notin Socks

(* A net.server userdata behind a reverse pointer counts as NULL: it has   *)
(* no references, and all callbacks pass over it.                          *)
NoSocket == [pesp_conn |-> NULL, self_ref |-> NOREF, cb |-> [e \in Events |-> NOREF],
             state |-> "free"]

Slots == 1..MAX_SOCKET

(* luaopen_net, net.createServer and server:listen(port, f). *)
Init ==
    /\ conn = [c \in Conns |-> "free"]
    /\ fields = [c \in Conns |-> NoFields]
    /\ listen = NoFields
    /\ listenTcp = TRUE
    /\ socket = [i \in Slots |-> NOREF] /\ socket_num = 0
    /\ \E f \in Funs :
          /\ tcpserver_cb_connect_ref = NewRef(EmptyRegistry)
          /\ registry = Referenced(EmptyRegistry, f)
    /\ nud = [s \in Socks |-> NoSocket]
    /\ remote = NULL /\ accepts = 0 /\ ending = NULL
    /\ undefined = FALSE /\ own = [c \in Conns |-> NULL] /\ inherited = FALSE

EmptySlots == {i \in Slots : socket[i] = NOREF}
FirstOf(slots) == CHOOSE i \in slots : \A j \in slots : i <= j

(* Between two callbacks of the stack. *)
Idle == ending = NULL /\ ~undefined

(* plink_active *)
Linked == {c \in Conns : conn[c] \in {"open", "closing"}}

(* A connection comes in; its address goes to the listening espconn. *)
Counted(c) ==
    /\ accepts < MaxAccepts
    /\ accepts' = accepts + 1
    /\ remote' = c

(* It is given no userdata and keeps what it copied, which may be a socket *)
(* that the listening espconn still points to.                             *)
Inherits == inherited' = (inherited \/ listen.reverse # NULL) /\ UNCHANGED own

(* espconn_tcp_accept finds too many connections: the pcb is aborted, and  *)
(* esponn_server_err is called for the copy of the listening espconn.      *)
Refuse(c) ==
    /\ Idle
    /\ Cardinality(Linked) = MaxCon
    /\ AcceptAs(c, listen, "failed")
    /\ Counted(c) /\ Inherits
    /\ UNCHANGED <<registry, socket, socket_num, tcpserver_cb_connect_ref, nud, ending, undefined>>

(* net_server_connected without an empty slot: connections that failed may *)
(* still have theirs.                                                      *)
AcceptNoSlot(c) ==
    /\ Idle
    /\ Cardinality(Linked) < MaxCon
    /\ EmptySlots = {}
    /\ AcceptAs(c, [listen EXCEPT !.reverse = NULL], "closing")
    /\ Counted(c)
    /\ UNCHANGED <<registry, socket, socket_num, tcpserver_cb_connect_ref, nud, ending, undefined,
                   own, inherited>>

(* net_server_connected after server:close(): nothing is done, and the     *)
(* connection keeps the fields of the listening espconn.                   *)
AcceptUnserved(c) ==
    /\ Idle
    /\ Cardinality(Linked) < MaxCon
    /\ EmptySlots # {}
    /\ tcpserver_cb_connect_ref = NOREF
    /\ AcceptAs(c, listen, "open")
    /\ Counted(c) /\ Inherits
    /\ UNCHANGED <<registry, socket, socket_num, tcpserver_cb_connect_ref, nud, ending, undefined>>

(* net_server_connected: a new userdata, handed to the script. *)
Accept(c, s) ==
    /\ Idle
    /\ Cardinality(Linked) < MaxCon
    /\ EmptySlots # {}
    /\ tcpserver_cb_connect_ref # NOREF
    /\ nud[s].state = "free"
    /\ AcceptAs(c, [reverse |-> s, callbacks |-> TRUE], "open")
    /\ Counted(c)
    /\ own' = [own EXCEPT ![c] = s]
    /\ LET ref == NewRef(registry)
       IN /\ nud' = [nud EXCEPT ![s] = [@ EXCEPT !.pesp_conn = c, !.self_ref = ref,
                                                 !.state = "live"]]
          /\ registry' = Referenced(registry, s)
          /\ socket' = [socket EXCEPT ![FirstOf(EmptySlots)] = ref]
          /\ socket_num' = socket_num + 1
    /\ UNCHANGED <<tcpserver_cb_connect_ref, ending, undefined, inherited>>
-----------------------------------------------------------------------------
(* What the script does with a socket it has, or gets in a callback, as    *)
(* long as the socket's espconn is there (else see UsesFreedEspconn).      *)
Attached(s) == nud[s].pesp_conn # NULL /\ conn[nud[s].pesp_conn] # "free"
Usable(s) == ~undefined /\ Attached(s)

(* socket:on(e, f); send(data, f) for "sent" and dns(name, f) for "dns"    *)
(* store their function in the same way.                                   *)
On(s, e, f) ==
    /\ Usable(s)
    /\ LET r == Unreferenced(registry, nud[s].cb[e])
       IN /\ nud' = [nud EXCEPT ![s].cb[e] = NewRef(r)]
          /\ registry' = Referenced(r, f)
    /\ UNCHANGED <<espconnVars, socket, socket_num, tcpserver_cb_connect_ref, remote,
                   accepts, ending, undefined, own, inherited>>

DnsRefsFirst(s) ==
    /\ Usable(s)
    /\ LET r == Referenced(registry, s)
       IN /\ nud' = [nud EXCEPT ![s].self_ref = NewRef(registry)]
          /\ registry' = Unreferenced(r, nud[s].self_ref)
    /\ UNCHANGED <<espconnVars, socket, socket_num, tcpserver_cb_connect_ref, remote,
                   accepts, ending, undefined, own, inherited>>

(* socket:dns(name) gives the reference to the socket back and takes a new *)
(* one; socket[] is not told.                                              *)
Dns(s) ==
    /\ Usable(s)
    /\ LET r == Unreferenced(registry, nud[s].self_ref)
       IN /\ nud' = [nud EXCEPT ![s].self_ref = NewRef(r)]
          /\ registry' = Referenced(r, s)
    /\ UNCHANGED <<espconnVars, socket, socket_num, tcpserver_cb_connect_ref, remote,
                   accepts, ending, undefined, own, inherited>>

(* socket:close(), which does nothing to a connection that is already      *)
(* closing or has left the list.                                           *)
Close(s) ==
    /\ Usable(s)
    /\ ServerClose(nud[s].pesp_conn)
    /\ UNCHANGED <<fields, listen, listenTcp, netVars>>

CollectKeepsRefs(s) ==
    /\ ~undefined
    /\ nud[s].state = "live" /\ ~Rooted(registry, s)
    /\ nud' = [nud EXCEPT ![s] = NoSocket]
    /\ UNCHANGED <<espconnVars, registry, socket, socket_num, tcpserver_cb_connect_ref, remote,
                   accepts, ending, undefined, own, inherited>>

(* net_delete gives back the callbacks that are set, one after the other. *)
GivenBack(r, cb, e) == IF e \in Events THEN Unreferenced(r, cb[e]) ELSE r

(* net_delete, called by the collector: a socket whose connection ended    *)
(* has no espconn and no self_ref any more.  Nobody asks whether the       *)
(* listening espconn, or a connection that copied it, still points to it.  *)
Collect(s) ==
    /\ ~undefined
    /\ nud[s].state = "live" /\ ~Rooted(registry, s)
    /\ registry' = LET cb == nud[s].cb
                       r1 == GivenBack(registry, cb, "disconnection")
                       r2 == GivenBack(r1, cb, "receive")
                       r3 == GivenBack(r2, cb, "sent")
                   IN GivenBack(r3, cb, "dns")
    /\ nud' = [nud EXCEPT ![s] = NoSocket]
    /\ UNCHANGED <<espconnVars, socket, socket_num, tcpserver_cb_connect_ref, remote,
                   accepts, ending, undefined, own, inherited>>
-----------------------------------------------------------------------------
(* Server objects.  All of them share the one listening espconn; the       *)
(* script is taken to have one at any time, and may let go of others.      *)
(* net.createServer: only after server:close().                            *)
CreateServer ==
    /\ ~undefined
    /\ tcpserver_cb_connect_ref = NOREF
    /\ listen' = [listen EXCEPT !.reverse = NULL]
    /\ UNCHANGED <<conn, fields, listenTcp, netVars>>

(* server:listen(port, f): the listening espconn goes on listening. *)
Listen(f) ==
    /\ ~undefined
    /\ LET r == Unreferenced(registry, tcpserver_cb_connect_ref)
       IN /\ tcpserver_cb_connect_ref' = NewRef(r)
          /\ registry' = Referenced(r, f)
    /\ UNCHANGED <<espconnVars, socket, socket_num, nud, remote, accepts, ending, undefined, own,
                   inherited>>

(* server:close() gives the function back and closes the connections of    *)
(* all sockets and the one the listening espconn's address belongs to.  It *)
(* goes on listening.                                                      *)
Kept == {s \in Socks : \E i \in Slots : socket[i] # NOREF /\ Found(registry, socket[i]) = <<"value", s>>}

CloseServer ==
    /\ ~undefined
    /\ \A s \in Kept : Attached(s)
    /\ registry' = Unreferenced(registry, tcpserver_cb_connect_ref)
    /\ tcpserver_cb_connect_ref' = NOREF
    /\ LET closed == {remote} \cup {nud[s].pesp_conn : s \in Kept}
       IN conn' = [c \in Conns |-> IF c \in closed /\ conn[c] = "open" THEN "closing" ELSE conn[c]]
    /\ UNCHANGED <<fields, listen, listenTcp, socket, socket_num, nud, remote, accepts, ending,
                   undefined, own, inherited>>

(* net_delete of a server object the script has forgotten. *)
CollectServer ==
    /\ ~undefined
    /\ listen' = [listen EXCEPT !.reverse = NULL]
    /\ UNCHANGED <<conn, fields, listenTcp, netVars>>
-----------------------------------------------------------------------------
(* The peer closes, or espconn_server_poll finds the connection idle. *)
PeerCloses(c) ==
    /\ Idle
    /\ ServerClose(c)
    /\ UNCHANGED <<fields, listen, listenTcp, netVars>>

Fails(c) ==
    /\ Idle
    /\ ServerErr(c)
    /\ UNCHANGED netVars

(* The userdata that exist, with and without a reference to themselves. *)
Unreleased == {s \in Socks : nud[s].state = "live" /\ nud[s].self_ref # NOREF}
Released == {s \in Socks : nud[s].state = "live" /\ nud[s].self_ref = NOREF}

(* The end of a connection without callbacks, without a userdata, or with  *)
(* one that has been released: net_server_disconnected does nothing.       *)
EndsSilently(c) ==
    /\ Idle
    /\ ~fields[c].callbacks \/ fields[c].reverse \in {NULL} \cup Released
    /\ EndOf(c, fields[c].reverse)
    /\ remote' = NULL
    /\ own' = [own EXCEPT ![c] = NULL]
    /\ UNCHANGED <<registry, socket, socket_num, tcpserver_cb_connect_ref, nud, accepts, ending,
                   undefined, inherited>>

(* Else net_server_disconnected, also for a failed connection, calls the   *)
(* disconnection callback, which has the socket as its argument.           *)
Ends(c) ==
    /\ Idle
    /\ fields[c].callbacks /\ fields[c].reverse \in Unreleased
    /\ EndOf(c, fields[c].reverse)
    /\ remote' = NULL
    /\ own' = [own EXCEPT ![c] = NULL]
    /\ ending' = fields[c].reverse
    /\ UNCHANGED <<registry, socket, socket_num, tcpserver_cb_connect_ref, nud, accepts, undefined,
                   inherited>>

(* The slots of socket[] that hold the reference of the ending socket. *)
Mine == {i \in Slots : socket[i] # NOREF /\ socket[i] = nud[ending].self_ref}

EndKeepsEspconn ==
    /\ ending # NULL /\ ~undefined
    /\ IF Mine = {}
       THEN UNCHANGED <<registry, socket, socket_num, nud, fields>>
       ELSE /\ registry' = Unreferenced(registry, socket[FirstOf(Mine)])
            /\ socket' = [socket EXCEPT ![FirstOf(Mine)] = NOREF]
            /\ socket_num' = socket_num - 1
            /\ nud' = [nud EXCEPT ![ending].self_ref = NOREF]
            /\ UNCHANGED fields
    /\ ending' = NULL
    /\ UNCHANGED <<conn, listen, listenTcp, tcpserver_cb_connect_ref, remote, accepts, undefined, own,
                   inherited>>

(* ... and when it returns, the slot that holds the socket's reference, if *)
(* there is one, is released.  The reverse pointer of the socket's espconn *)
(* is cleared: mostly that espconn has been freed (see UsesFreedEspconn),  *)
(* and the write has no effect.                                            *)
EndReturns ==
    /\ ending # NULL /\ ~undefined
    /\ IF Mine = {}
       THEN UNCHANGED <<registry, socket, socket_num, nud, fields>>
       ELSE /\ registry' = Unreferenced(registry, socket[FirstOf(Mine)])
            /\ socket' = [socket EXCEPT ![FirstOf(Mine)] = NOREF]
            /\ socket_num' = socket_num - 1
            /\ nud' = [nud EXCEPT ![ending] = [@ EXCEPT !.pesp_conn = NULL, !.self_ref = NOREF]]
            /\ fields' = IF Attached(ending) THEN [fields EXCEPT ![nud[ending].pesp_conn].reverse = NULL]
                         ELSE fields
    /\ ending' = NULL
    /\ UNCHANGED <<conn, listen, listenTcp, tcpserver_cb_connect_ref, remote, accepts, undefined, own,
                   inherited>>
-----------------------------------------------------------------------------
BecomesUndefined ==
    /\ ~undefined
    /\ undefined' = TRUE
    /\ UNCHANGED <<espconnVars, registry, socket, socket_num, tcpserver_cb_connect_ref, nud, remote,
                   accepts, ending, own, inherited>>

(* Data, an acknowledgement or the end of a connection leads a callback to *)
(* a userdata that was collected.                                          *)
ReachesCollected(c) ==
    /\ Idle
    /\ conn[c] # "free" /\ fields[c].callbacks
    /\ fields[c].reverse \in {s \in Socks : nud[s].state = "free"}
    /\ BecomesUndefined

(* The disconnection callback uses the socket, or closes the server, while *)
(* the socket's espconn is free; or what it allocates gets the memory of   *)
(* the espconn, into which net_server_disconnected writes afterwards.      *)
UsesFreedEspconn ==
    /\ ending # NULL /\ ~Attached(ending) /\ nud[ending].cb["disconnection"] # NOREF
    /\ BecomesUndefined

(* socket:on() of a socket whose end was reported. *)
OnAfterEnd(s) ==
    /\ nud[s].state = "live" /\ nud[s].pesp_conn = NULL
    /\ BecomesUndefined
-----------------------------------------------------------------------------
Stack(c) ==
    \/ Refuse(c) \/ AcceptNoSlot(c) \/ AcceptUnserved(c)
    \/ \E s \in Socks : Accept(c, s)
    \/ PeerCloses(c) \/ Fails(c) \/ EndsSilently(c) \/ Ends(c) \/ ReachesCollected(c)

Script ==
    \/ \E s \in Socks : Dns(s) \/ Close(s) \/ OnAfterEnd(s)
    \/ \E s \in Socks, e \in Events, f \in Funs : On(s, e, f)
    \/ CreateServer \/ CloseServer
    \/ \E f \in Funs : Listen(f)

Collector == CollectServer \/ \E s \in Socks : Collect(s)

Next == (\E c \in Conns : Stack(c)) \/ Script \/ Collector \/ EndReturns \/ UsesFreedEspconn

Spec == Init /\ [][Next]_vars
-----------------------------------------------------------------------------
Refs == {NOREF} \cup DOMAIN registry.slots

TypeOK ==
    /\ conn \in [Conns -> {"free", "open", "closing", "failed"}]
    /\ fields \in [Conns -> [reverse : Socks \cup {NULL}, callbacks : BOOLEAN]]
    /\ listen \in [reverse : Socks \cup {NULL}, callbacks : BOOLEAN] /\ listenTcp \in BOOLEAN
    /\ socket \in [Slots -> Refs] /\ socket_num \in 0..MAX_SOCKET
    /\ tcpserver_cb_connect_ref \in Refs
    /\ nud \in [Socks -> [pesp_conn : Conns \cup {NULL}, self_ref : Refs,
                          cb : [Events -> Refs], state : {"free", "live"}]]
    /\ remote \in Conns \cup {NULL} /\ accepts \in 0..MaxAccepts /\ ending \in Socks \cup {NULL}
    /\ undefined \in BOOLEAN /\ own \in [Conns -> Socks \cup {NULL}] /\ inherited \in BOOLEAN

(* The module's references are exact: the server's function, the sockets   *)
(* and their functions each have a slot of the registry of their own, with *)
(* a value in it, and no slot stays in use after them (the luaL_ref and    *)
(* luaL_unref calls of net.c balance over any life of the sockets).        *)
RegistryExact ==
    RefsExact({p \in {<<"server", tcpserver_cb_connect_ref>>}
                     \cup {<<"self", nud[s].self_ref, s>> : s \in Socks}
                     \cup UNION {{<<"cb", nud[s].cb[e], s, e>> : e \in Events} : s \in Socks} :
               p[2] # NOREF})

(* socket[] and the userdata agree: the references in the array are those  *)
(* of the sockets, each once, although socket:dns() renews the reference   *)
(* in the userdata only, and socket_num counts them.                       *)
SlotsExact ==
    LET used == Slots \ EmptySlots
    IN /\ socket_num = Cardinality(used)
       /\ \A i, j \in used : socket[i] = socket[j] => i = j
       /\ {socket[i] : i \in used} = {nud[s].self_ref : s \in Socks} \ {NOREF}

(* A connection and the userdata it was given belong to each other until   *)
(* the end of the connection is reported, whatever else ends, is refused   *)
(* or is accepted unserved in between, is collected and has its address    *)
(* used again: the userdata lives, is kept by its own reference and is     *)
(* what the connection's callbacks reach.  Only when a connection without  *)
(* a userdata has inherited a stale address of the listening espconn may   *)
(* its end release the new owner of that address; then the owner's         *)
(* connection reaches nothing any more, and never somebody else's socket.  *)
OwnSocket ==
    /\ \A c \in Conns : conn[c] # "free" /\ own[c] # NULL =>
          \/ /\ fields[c] = [reverse |-> own[c], callbacks |-> TRUE]
             /\ nud[own[c]].state = "live" /\ nud[own[c]].pesp_conn = c
             /\ nud[own[c]].self_ref # NOREF
          \/ inherited /\ fields[c].reverse = NULL
    /\ \A s \in Socks : nud[s].state = "live" =>
          IF nud[s].self_ref # NOREF
          THEN /\ Found(registry, nud[s].self_ref) = <<"value", s>>
               /\ ending # s => conn[nud[s].pesp_conn] # "free" /\ own[nud[s].pesp_conn] = s
          ELSE nud[s].pesp_conn = NULL /\ ~Rooted(registry, s)
=============================================================================
