-------------------------- MODULE NetServerProofs --------------------------
(***************************************************************************)
(* Theorems about NetServer, for every number of connections, userdata,    *)
(* functions, callbacks and slots of socket[].                             *)
(***************************************************************************)
EXTENDS NetServer, LuaRegistryProofs, FiniteSetTheorems, WellFoundedInduction

(* Who keeps a reference: the server its function, a socket itself and its *)
(* callbacks.                                                              *)
Holders == {<<NULL, "server">>} \union (Socks \X ({"self"} \union Events))

HeldIn(ref, u) == [h \in Holders |-> IF h[2] = "server" THEN ref
                                     ELSE IF h[2] = "self" THEN u[h[1]].self_ref
                                     ELSE u[h[1]].cb[h[2]]]

Held == HeldIn(tcpserver_cb_connect_ref, nud)

Stores == [h \in Holders |-> IF h[2] = "self" THEN {h[1]} ELSE Funs]

NetBalanced == Balanced(registry, Funs \union Socks, Held, Stores)

MaybeRef == Nat \union {NOREF}

SocketFields == [reverse : Socks \union {NULL}, callbacks : BOOLEAN]

Userdata == [pesp_conn : Conns \union {NULL}, self_ref : MaybeRef,
             cb : [Events -> MaybeRef], state : {"free", "live"}]

NetTypes ==
    /\ conn \in [Conns -> {"free", "open", "closing", "failed"}]
    /\ fields \in [Conns -> SocketFields]
    /\ listen \in SocketFields /\ listenTcp \in BOOLEAN
    /\ socket \in [Slots -> MaybeRef]
    /\ tcpserver_cb_connect_ref \in MaybeRef
    /\ nud \in [Socks -> Userdata]
    /\ remote \in Conns \union {NULL} /\ accepts \in 0..MaxAccepts
    /\ ending \in Socks \union {NULL}
    /\ undefined \in BOOLEAN /\ own \in [Conns -> Socks \union {NULL}] /\ inherited \in BOOLEAN

(* A socket is kept by its own reference just as long as it has an         *)
(* espconn, and a userdata nobody has is blank.                            *)
SocketLife ==
    \A s \in Socks : /\ nud[s].state = "free" => nud[s] = NoSocket
                     /\ nud[s].pesp_conn = NULL <=> nud[s].self_ref = NOREF

(* A socket that is kept has its connection, unless the end of that        *)
(* connection is just being reported.                                      *)
HasConn(s, c) ==
    conn[c] # "free" /\ own[c] = s /\ fields[c] = [reverse |-> s, callbacks |-> TRUE]

Owned ==
    \A s \in Socks : nud[s].self_ref # NOREF =>
        HasConn(s, nud[s].pesp_conn) \/ (s = ending /\ conn[nud[s].pesp_conn] = "free")

(* A connection that was given a userdata has it still, or was cut off     *)
(* from it through a pointer that somebody else inherited.                 *)
Tied(c, s) ==
    /\ fields[c] = [reverse |-> s, callbacks |-> TRUE]
    /\ nud[s].pesp_conn = c /\ nud[s].self_ref # NOREF

Given ==
    \A c \in Conns : own[c] # NULL =>
        conn[c] # "free" /\ (Tied(c, own[c]) \/ (inherited /\ fields[c].reverse = NULL))

(* As long as nobody inherited one, reverse pointers of connections lead   *)
(* to their own userdata, and an end is reported to the one that ends.     *)
Straight ==
    /\ ending # NULL => nud[ending].self_ref # NOREF
    /\ ~inherited => /\ \A c \in Conns : fields[c].reverse \in {NULL, own[c]}
                     /\ ending # NULL => conn[nud[ending].pesp_conn] = "free"

(* SlotsExact, element by element. *)
SlotsAgree ==
    /\ socket_num = Cardinality(Slots \ EmptySlots)
    /\ \A i, j \in Slots : socket[i] = socket[j] /\ socket[i] # NOREF => i = j
    /\ \A i \in Slots : socket[i] # NOREF => \E s \in Socks : nud[s].self_ref = socket[i]
    /\ \A s \in Socks : nud[s].self_ref # NOREF => \E i \in Slots : socket[i] = nud[s].self_ref

NetInv == NetTypes /\ NetBalanced /\ SocketLife /\ Owned /\ Given /\ Straight /\ SlotsAgree

-----------------------------------------------------------------------------
LEMMA NoFieldsNull ==
    /\ NoFields.reverse = NULL /\ NoFields \in SocketFields
    /\ NULL \notin Socks /\ NULL \notin Conns
<1>1. NoFields.reverse = NULL /\ NoFields = [reverse |-> NULL, callbacks |-> FALSE]
  BY DEF NULL, NoFields
<1> QED
  BY <1>1, NetAssumption DEF SocketFields

(* The search through socket[] stops at a slot that is wanted. *)
LEMMA FirstWanted ==
    ASSUME NEW S, S \subseteq Slots, S # {}
    PROVE  FirstOf(S) \in S
<1> DEFINE R == {ss \in Nat \X Nat : ss[1] < ss[2]}
<1>0. S \subseteq Nat
  BY NetAssumption DEF Slots
<1>1. IsWellFoundedOn(R, Nat)
  BY NatLessThanWellFounded DEF OpToRel
<1>2. PICK i \in S : \A j \in S : <<j, i>> \notin R
  <2> HIDE DEF R
  <2> QED
    BY <1>0, <1>1, WFMin
<1>3. ASSUME NEW j \in S PROVE i <= j
  <2>1. i \in Nat /\ j \in Nat /\ <<j, i>> \in Nat \X Nat
    BY <1>0
  <2>2. ~(j < i)
    BY <2>1, <1>2
  <2> QED
    BY <2>1, <2>2
<1> QED
  BY <1>3 DEF FirstOf

LEMMA SlotsFinite ==
    ASSUME NEW S, S \subseteq Slots
    PROVE  IsFiniteSet(S) /\ Cardinality(S) \in Nat
<1>1. IsFiniteSet(Slots)
  BY FS_Interval, NetAssumption DEF Slots
<1> QED
  BY <1>1, FS_Subset, FS_CardinalityType

LEMMA NetInvInit == Init => NetInv
<1> SUFFICES ASSUME Init PROVE NetInv
  OBVIOUS
<1> USE NoFieldsNull, NetAssumption
<1>1. PICK f \in Funs : /\ tcpserver_cb_connect_ref = NewRef(EmptyRegistry)
                        /\ registry = Referenced(EmptyRegistry, f)
  BY DEF Init
<1>2. \A s \in Socks : nud[s] = NoSocket
  BY DEF Init
<1>3. NoSocket = [pesp_conn |-> NULL, self_ref |-> NOREF, cb |-> [e \in Events |-> NOREF],
                  state |-> "free"]
  BY DEF NoSocket
<1>4. ASSUME NEW s \in Socks
      PROVE  /\ nud[s].self_ref = NOREF /\ nud[s].pesp_conn = NULL
             /\ \A e \in Events : nud[s].cb[e] = NOREF
  BY <1>2, <1>3
<1>5. NetBalanced /\ tcpserver_cb_connect_ref \in Nat
  <2> DEFINE H == [h \in Holders |-> NOREF]
             h == <<NULL, "server">>
             V == Funs \union Socks
  <2>1. Balanced(EmptyRegistry, V, H, Stores)
    BY EmptyIsRegistry DEF Balanced, HeldBy
  <2>2. h \in DOMAIN H /\ H[h] = NOREF /\ f \in V /\ f \in Stores[h]
    BY DEF Holders, Stores
  <2>3. Held = [H EXCEPT ![h] = NewRef(EmptyRegistry)]
    <3>1. ASSUME NEW k \in Holders PROVE Held[k] = [H EXCEPT ![h] = NewRef(EmptyRegistry)][k]
      <4>1. CASE k = h
        BY <4>1, <1>1 DEF Held, HeldIn
      <4>2. CASE k # h
        <5>1. k \in Socks \X ({"self"} \union Events)
          BY <4>2 DEF Holders
        <5>2. k[1] \in Socks /\ k[2] # "server" /\ (k[2] = "self" \/ k[2] \in Events)
          BY <5>1
        <5>3. Held[k] = NOREF
          BY <5>2, <1>4 DEF Held, HeldIn
        <5> QED
          BY <5>3, <4>2
      <4> QED
        BY <4>1, <4>2
    <3>2. Held = [k \in Holders |-> Held[k]]
      BY DEF Held, HeldIn
    <3> QED
      BY <3>1, <3>2
  <2> HIDE DEF H, h, V
  <2>4. /\ Balanced(Referenced(EmptyRegistry, f), V, [H EXCEPT ![h] = NewRef(EmptyRegistry)], Stores)
        /\ NewRef(EmptyRegistry) \in Nat
    BY <2>1, <2>2, HolderTakes
  <2> QED
    BY <2>3, <2>4, <1>1 DEF NetBalanced, V
<1>6. NetTypes
  <2>1. NoSocket \in Userdata
    BY <1>3 DEF Userdata, MaybeRef
  <2>2. nud \in [Socks -> Userdata] /\ own \in [Conns -> Socks \union {NULL}]
    BY <2>1 DEF Init
  <2>3. undefined \in BOOLEAN /\ inherited \in BOOLEAN /\ listenTcp \in BOOLEAN
    BY DEF Init
  <2>4. /\ conn \in [Conns -> {"free", "open", "closing", "failed"}]
        /\ fields \in [Conns -> SocketFields] /\ listen \in SocketFields
    BY DEF Init
  <2> QED
    BY <1>5, <2>2, <2>3, <2>4 DEF Init, NetTypes, MaybeRef
<1>7. SocketLife /\ Owned
  BY <1>2, <1>4 DEF SocketLife, Owned
<1>8. Given /\ Straight
  BY DEF Init, Given, Straight
<1>9. SlotsAgree
  <2>1. EmptySlots = Slots /\ Slots \ EmptySlots = {}
    BY DEF Init, EmptySlots
  <2>2. \A s \in Socks : nud[s].self_ref = NOREF
    BY <1>4
  <2> QED
    BY <2>1, <2>2, FS_EmptySet DEF SlotsAgree, Init
<1> QED
  BY <1>5, <1>6, <1>7, <1>8, <1>9 DEF NetInv

-----------------------------------------------------------------------------
(* What espconn does on its own, and the closing of connections: the       *)
(* references stay as they are, the pointers between connections and       *)
(* sockets move.                                                           *)
LEMMA RefsUntouched ==
    ASSUME NetInv, UNCHANGED <<registry, socket, socket_num, tcpserver_cb_connect_ref, nud>>
    PROVE  NetBalanced' /\ SocketLife' /\ SlotsAgree'
<1>1. Held' = Held
  BY DEF Held
<1>2. EmptySlots' = EmptySlots
  BY DEF EmptySlots
<1> QED
  BY <1>1, <1>2 DEF NetInv, NetBalanced, SocketLife, SlotsAgree

LEMMA OwnerHasConn ==
    ASSUME NetInv, NEW s \in Socks, nud[s].self_ref # NOREF
    PROVE  nud[s].pesp_conn \in Conns
BY DEF NetInv, SocketLife, NetTypes, Userdata

(* A connection that ends has no userdata afterwards; one that is accepted *)
(* had none, and no socket that is kept.                                   *)
LEMMA FreeHasNone ==
    ASSUME NetInv, NEW c \in Conns, conn[c] = "free"
    PROVE  /\ own[c] = NULL
           /\ \A s \in Socks : nud[s].self_ref # NOREF /\ s # ending => nud[s].pesp_conn # c
BY DEF NetInv, Given, Owned, HasConn

LEMMA AcceptKeeps ==
    ASSUME NetInv, NEW c \in Conns, NEW f \in SocketFields, NEW state \in {"open", "closing", "failed"},
           AcceptAs(c, f, state), Counted(c), Idle,
           inherited' \in BOOLEAN, inherited => inherited', f.reverse # NULL => inherited',
           UNCHANGED <<registry, socket, socket_num, tcpserver_cb_connect_ref, nud, ending, undefined, own>>
    PROVE  NetInv'
<1> USE NoFieldsNull
<1>1. /\ conn[c] = "free"
      /\ conn' = [conn EXCEPT ![c] = state] /\ fields' = [fields EXCEPT ![c] = f]
      /\ listen' = listen /\ listenTcp' = listenTcp /\ ending = NULL /\ ending' = NULL
      /\ accepts < MaxAccepts /\ accepts' = accepts + 1 /\ remote' = c
  BY DEF AcceptAs, Counted, Idle
<1>2. NetTypes'
  BY <1>1, NetAssumption DEF NetInv, NetTypes
<1>3. \A d \in Conns : /\ conn'[d] = IF d = c THEN state ELSE conn[d]
                       /\ fields'[d] = IF d = c THEN f ELSE fields[d]
  BY <1>1 DEF NetInv, NetTypes
<1>4. own[c] = NULL /\ \A s \in Socks : nud[s].self_ref # NOREF => nud[s].pesp_conn # c
  BY <1>1, FreeHasNone
<1>5. Owned'
  <2> SUFFICES ASSUME NEW s \in Socks, nud[s].self_ref # NOREF
               PROVE  HasConn(s, nud[s].pesp_conn)'
    BY DEF Owned
  <2>1. nud[s].pesp_conn \in Conns /\ nud[s].pesp_conn # c
    BY OwnerHasConn, <1>4
  <2>2. HasConn(s, nud[s].pesp_conn)
    BY <1>1 DEF NetInv, Owned
  <2> QED
    BY <2>1, <2>2, <1>3 DEF HasConn
<1>6. Given'
  <2> SUFFICES ASSUME NEW d \in Conns, own[d] # NULL
               PROVE  conn'[d] # "free" /\ (Tied(d, own[d])' \/ (inherited' /\ fields'[d].reverse = NULL))
    BY DEF Given
  <2>1. d # c /\ conn[d] # "free" /\ (Tied(d, own[d]) \/ (inherited /\ fields[d].reverse = NULL))
    BY <1>4 DEF NetInv, Given
  <2> QED
    BY <2>1, <1>3 DEF Tied
<1>7. Straight'
  BY <1>1, <1>3, <1>4 DEF NetInv, Straight
<1> QED
  BY <1>2, <1>5, <1>6, <1>7, RefsUntouched DEF NetInv

LEMMA RefuseInv ==
    ASSUME NetInv, NEW c \in Conns, Refuse(c) \/ AcceptUnserved(c)
    PROVE  NetInv'
<1>1. listen \in SocketFields /\ inherited \in BOOLEAN
  BY DEF NetInv, NetTypes
<1>2. PICK state \in {"open", "closing", "failed"} : AcceptAs(c, listen, state)
  BY DEF Refuse, AcceptUnserved
<1>3. /\ Counted(c) /\ Idle
      /\ inherited' = (inherited \/ listen.reverse # NULL)
      /\ UNCHANGED <<registry, socket, socket_num, tcpserver_cb_connect_ref, nud, ending, undefined, own>>
  BY Zenon DEF Refuse, AcceptUnserved, Inherits
<1>4. inherited' \in BOOLEAN /\ (inherited => inherited') /\ (listen.reverse # NULL => inherited')
  BY <1>1, <1>3, Zenon
<1> QED
  BY <1>1, <1>2, <1>3, <1>4, AcceptKeeps

LEMMA AcceptNoSlotInv ==
    ASSUME NetInv, NEW c \in Conns, AcceptNoSlot(c)
    PROVE  NetInv'
<1> DEFINE f == [listen EXCEPT !.reverse = NULL]
<1>1. f \in SocketFields /\ f.reverse = NULL /\ inherited \in BOOLEAN
  BY DEF NetInv, NetTypes, SocketFields
<1> HIDE DEF f
<1>2. AcceptAs(c, f, "closing")
  BY DEF AcceptNoSlot, f
<1> QED
  BY <1>1, <1>2, AcceptKeeps DEF AcceptNoSlot

(* No connection is freed or comes in, no pointer to a socket is added. *)
LEMMA ConnMoves ==
    ASSUME NetInv, UNCHANGED netVars, UNCHANGED <<fields, listenTcp>>,
           conn' \in [Conns -> {"free", "open", "closing", "failed"}],
           \A c \in Conns : conn[c] = "free" <=> conn'[c] = "free",
           listen' \in SocketFields
    PROVE  NetInv'
<1> USE NoFieldsNull DEF netVars
<1>1. NetTypes'
  BY DEF NetInv, NetTypes
<1>2. Owned'
  BY OwnerHasConn DEF NetInv, Owned, HasConn
<1>3. Given'
  BY DEF NetInv, Given, Tied
<1>4. Straight'
  <2>1. ending # NULL => nud[ending].pesp_conn \in Conns
    BY OwnerHasConn DEF NetInv, NetTypes, Straight
  <2> QED
    BY <2>1 DEF NetInv, Straight
<1> QED
  BY <1>1, <1>2, <1>3, <1>4, RefsUntouched DEF NetInv

LEMMA ConnActionsInv ==
    ASSUME NetInv,
           \/ CreateServer \/ CollectServer
           \/ \E c \in Conns : PeerCloses(c) \/ Fails(c)
           \/ \E s \in Socks : Close(s)
    PROVE  NetInv'
<1> USE NoFieldsNull
<1>1. conn \in [Conns -> {"free", "open", "closing", "failed"}] /\ listen \in SocketFields
  BY DEF NetInv, NetTypes
<1>2. CASE CreateServer \/ CollectServer
  <2>1. /\ listen' = [listen EXCEPT !.reverse = NULL]
        /\ UNCHANGED <<conn, fields, listenTcp, netVars>>
    BY <1>2 DEF CreateServer, CollectServer
  <2>2. listen' \in SocketFields
    BY <1>1, <2>1 DEF SocketFields
  <2> QED
    BY <1>1, <2>1, <2>2, ConnMoves
<1>3. ASSUME NEW c \in Conns, PeerCloses(c) PROVE NetInv'
  BY <1>1, <1>3, ConnMoves DEF PeerCloses, ServerClose
<1>4. ASSUME NEW c \in Conns, Fails(c) PROVE NetInv'
  BY <1>1, <1>4, ConnMoves DEF Fails, ServerErr
<1>5. ASSUME NEW s \in Socks, Close(s) PROVE NetInv'
  <2>1. nud[s].pesp_conn \in Conns
    BY <1>5 DEF Close, Usable, Attached, NetInv, NetTypes, Userdata
  <2> QED
    BY <1>1, <1>5, <2>1, ConnMoves DEF Close, ServerClose
<1> QED
  BY <1>2, <1>3, <1>4, <1>5

(* The model ends. *)
LEMMA UndefinedInv ==
    ASSUME NetInv, BecomesUndefined
    PROVE  NetInv'
<1>1. /\ UNCHANGED <<conn, fields, listen, listenTcp, registry, socket, socket_num,
                     tcpserver_cb_connect_ref, nud, remote, accepts, ending, own, inherited>>
      /\ undefined' = TRUE
  BY DEF BecomesUndefined, espconnVars
<1>2. NetTypes' /\ Owned' /\ Given' /\ Straight'
  BY <1>1 DEF NetInv, NetTypes, Owned, HasConn, Given, Tied, Straight
<1> QED
  BY <1>1, <1>2, RefsUntouched DEF NetInv

(* The end of a connection.  Its own socket, if it still has it, is the    *)
(* one the callback is called with.                                        *)
LEMMA EndKeeps ==
    ASSUME NetInv, NEW c \in Conns, NEW rev \in Socks \union {NULL},
           EndOf(c, rev), rev = fields[c].reverse, Idle, remote' = NULL,
           own' = [own EXCEPT ![c] = NULL],
           \/ ending' = NULL /\ \A s \in Socks : nud[s].self_ref # NOREF => nud[s].pesp_conn # c
           \/ ending' = rev /\ rev # NULL /\ nud[rev].self_ref # NOREF,
           UNCHANGED <<registry, socket, socket_num, tcpserver_cb_connect_ref, nud, accepts, undefined,
                       inherited>>
    PROVE  NetInv'
<1> USE NoFieldsNull
<1>1. /\ conn' = [conn EXCEPT ![c] = "free"] /\ fields' = [fields EXCEPT ![c] = NoFields]
      /\ listen' = [reverse |-> rev, callbacks |-> fields[c].callbacks]
      /\ listenTcp' = listenTcp /\ ending = NULL
  BY DEF EndOf, Idle
<1>2. NetTypes'
  <2>1. listen' \in SocketFields
    BY <1>1 DEF NetInv, NetTypes, SocketFields
  <2>2. own' \in [Conns -> Socks \union {NULL}]
    BY DEF NetInv, NetTypes
  <2> QED
    BY <1>1, <2>1, <2>2 DEF NetInv, NetTypes
<1>3. \A d \in Conns : /\ conn'[d] = IF d = c THEN "free" ELSE conn[d]
                       /\ fields'[d] = IF d = c THEN NoFields ELSE fields[d]
                       /\ own'[d] = IF d = c THEN NULL ELSE own[d]
  BY <1>1 DEF NetInv, NetTypes
<1>4. Owned'
  <2> SUFFICES ASSUME NEW s \in Socks, nud[s].self_ref # NOREF
               PROVE  \/ HasConn(s, nud[s].pesp_conn)'
                      \/ s = ending' /\ conn'[nud[s].pesp_conn] = "free"
    BY DEF Owned
  <2>1. nud[s].pesp_conn \in Conns /\ HasConn(s, nud[s].pesp_conn)
    BY OwnerHasConn, <1>1 DEF NetInv, Owned
  <2>2. CASE nud[s].pesp_conn = c
    <3>1. fields[c].reverse = s
      BY <2>1, <2>2 DEF HasConn
    <3> QED
      BY <3>1, <2>2, <1>3
  <2>3. CASE nud[s].pesp_conn # c
    BY <2>1, <2>3, <1>3 DEF HasConn
  <2> QED
    BY <2>2, <2>3
<1>5. Given'
  <2> SUFFICES ASSUME NEW d \in Conns, own'[d] # NULL
               PROVE  conn'[d] # "free" /\ (Tied(d, own[d])' \/ (inherited' /\ fields'[d].reverse = NULL))
    BY DEF Given
  <2>1. d # c /\ own'[d] = own[d] /\ conn[d] # "free"
        /\ (Tied(d, own[d]) \/ (inherited /\ fields[d].reverse = NULL))
    BY <1>3 DEF NetInv, Given
  <2> QED
    BY <2>1, <1>3 DEF Tied
<1>6. Straight'
  <2>1. ending' # NULL => nud[ending'].self_ref # NOREF
    OBVIOUS
  <2>2. ASSUME ~inherited, NEW d \in Conns PROVE fields'[d].reverse \in {NULL, own'[d]}
    BY <2>2, <1>3 DEF NetInv, Straight
  <2>3. ASSUME ~inherited, ending' # NULL PROVE conn'[nud[ending'].pesp_conn] = "free"
    <3>1. ending' = rev /\ rev # NULL /\ own[c] = rev
      BY <2>3 DEF NetInv, Straight
    <3>2. Tied(c, rev)
      BY <3>1, <2>3 DEF NetInv, Given
    <3> QED
      BY <3>1, <3>2, <1>3 DEF Tied
  <2> QED
    BY <2>1, <2>2, <2>3 DEF Straight
<1> QED
  BY <1>2, <1>4, <1>5, <1>6, RefsUntouched DEF NetInv

LEMMA EndsInv ==
    ASSUME NetInv, NEW c \in Conns, EndsSilently(c) \/ Ends(c)
    PROVE  NetInv'
<1> USE NoFieldsNull
<1> DEFINE rev == fields[c].reverse
<1>1. rev \in Socks \union {NULL}
  BY DEF NetInv, NetTypes, SocketFields
<1>2. ASSUME NEW s \in Socks, nud[s].self_ref # NOREF, nud[s].pesp_conn = c
      PROVE  fields[c].reverse = s /\ fields[c].callbacks
  <2>1. s # ending
    BY DEF EndsSilently, Ends, Idle
  <2>2. fields[c] = [reverse |-> s, callbacks |-> TRUE]
    BY <1>2, <2>1 DEF NetInv, Owned, HasConn
  <2> QED
    BY <2>2
<1>3. CASE EndsSilently(c)
  <2>1. /\ EndOf(c, rev) /\ Idle /\ ending' = NULL /\ remote' = NULL
        /\ ~fields[c].callbacks \/ rev \in {NULL} \union Released
        /\ own' = [own EXCEPT ![c] = NULL]
        /\ UNCHANGED <<registry, socket, socket_num, tcpserver_cb_connect_ref, nud, accepts, undefined,
                       inherited>>
    BY <1>3 DEF EndsSilently, Idle
  <2>2. \A s \in Socks : nud[s].self_ref # NOREF => nud[s].pesp_conn # c
    BY <1>2, <2>1 DEF Released
  <2> HIDE DEF rev
  <2> QED
    BY <1>1, <2>1, <2>2, EndKeeps DEF rev
<1>4. CASE Ends(c)
  <2>1. /\ EndOf(c, rev) /\ Idle /\ ending' = rev /\ remote' = NULL
        /\ rev # NULL /\ nud[rev].self_ref # NOREF
        /\ own' = [own EXCEPT ![c] = NULL]
        /\ UNCHANGED <<registry, socket, socket_num, tcpserver_cb_connect_ref, nud, accepts, undefined,
                       inherited>>
    BY <1>4 DEF Ends, Unreleased
  <2> HIDE DEF rev
  <2> QED
    BY <1>1, <2>1, EndKeeps DEF rev
<1> QED
  BY <1>3, <1>4

-----------------------------------------------------------------------------
(* The references.                                                         *)
Server == <<NULL, "server">>
Holder(s, x) == <<s, x>>
With(H, h, n) == [H EXCEPT ![h] = n]

LEMMA HolderKinds ==
    ASSUME NEW ref, NEW u
    PROVE  /\ DOMAIN HeldIn(ref, u) = Holders /\ Server \in Holders
           /\ HeldIn(ref, u)[Server] = ref /\ Stores[Server] = Funs
           /\ \A s \in Socks : /\ <<s, "self">> \in Holders /\ <<s, "self">> # Server
                               /\ HeldIn(ref, u)[<<s, "self">>] = u[s].self_ref
                               /\ Stores[<<s, "self">>] = {s}
           /\ \A s \in Socks, e \in Events :
                  /\ <<s, e>> \in Holders /\ e # "self" /\ <<s, e>> # Server
                  /\ HeldIn(ref, u)[<<s, e>>] = u[s].cb[e] /\ Stores[<<s, e>>] = Funs
           /\ \A h \in Holders : \/ h = Server
                                 \/ \E s \in Socks : h = <<s, "self">>
                                 \/ \E s \in Socks, e \in Events : h = <<s, e>>
<1> USE NetAssumption DEF Server
<1>1. DOMAIN HeldIn(ref, u) = Holders /\ Server \in Holders
  BY DEF HeldIn, Holders
<1>2. HeldIn(ref, u)[Server] = ref /\ Stores[Server] = Funs
  BY <1>1 DEF HeldIn, Stores
<1>3. \A s \in Socks : /\ <<s, "self">> \in Holders /\ <<s, "self">> # Server
                       /\ HeldIn(ref, u)[<<s, "self">>] = u[s].self_ref
                       /\ Stores[<<s, "self">>] = {s}
  BY DEF HeldIn, Holders, Stores
<1>4. \A s \in Socks, e \in Events :
           /\ <<s, e>> \in Holders /\ e # "self" /\ <<s, e>> # Server
           /\ HeldIn(ref, u)[<<s, e>>] = u[s].cb[e] /\ Stores[<<s, e>>] = Funs
  <2> SUFFICES ASSUME NEW s \in Socks, NEW e \in Events
               PROVE  /\ <<s, e>> \in Holders /\ e # "self" /\ <<s, e>> # Server
                      /\ HeldIn(ref, u)[<<s, e>>] = u[s].cb[e] /\ Stores[<<s, e>>] = Funs
    OBVIOUS
  <2>1. <<s, e>> \in Holders /\ e # "self" /\ e # "server" /\ <<s, e>> # Server
    BY DEF Holders
  <2> QED
    BY <2>1 DEF HeldIn, Stores
<1>5. ASSUME NEW h \in Holders, h # Server
      PROVE  \/ \E s \in Socks : h = <<s, "self">>
             \/ \E s \in Socks, e \in Events : h = <<s, e>>
  <2>1. h \in Socks \X ({"self"} \union Events)
    BY <1>5 DEF Holders
  <2>2. h = <<h[1], h[2]>> /\ h[1] \in Socks /\ h[2] \in {"self"} \union Events
    BY <2>1
  <2> QED
    BY <2>2
<1> QED
  BY <1>1, <1>2, <1>3, <1>4, <1>5

(* When one holder alone changes its reference. *)
LEMMA OneHolder ==
    ASSUME NEW F, NEW G, F = [k \in Holders |-> F[k]], G = [k \in Holders |-> G[k]],
           NEW h \in Holders, \A k \in Holders : k # h => G[k] = F[k]
    PROVE  G = [F EXCEPT ![h] = G[h]]
OBVIOUS

LEMMA ServerHolds ==
    ASSUME NEW ref, NEW u, NEW ref2
    PROVE  HeldIn(ref2, u) = [HeldIn(ref, u) EXCEPT ![Server] = ref2]
<1>1. \A k \in Holders \ {Server} : HeldIn(ref2, u)[k] = HeldIn(ref, u)[k]
  <2> SUFFICES ASSUME NEW k \in Holders, k # Server PROVE HeldIn(ref2, u)[k] = HeldIn(ref, u)[k]
    OBVIOUS
  <2>1. CASE \E s \in Socks : k = <<s, "self">>
    BY <2>1, HolderKinds
  <2>2. CASE \E s \in Socks, e \in Events : k = <<s, e>>
    BY <2>2, HolderKinds
  <2> QED
    BY <2>1, <2>2, HolderKinds
<1>2. Server \in Holders /\ HeldIn(ref2, u)[Server] = ref2
  BY HolderKinds
<1> DEFINE F == HeldIn(ref, u)
           G == HeldIn(ref2, u)
           h == Server
<1>3. F = [k \in Holders |-> F[k]] /\ G = [k \in Holders |-> G[k]]
  BY DEF HeldIn
<1>4. h \in Holders /\ \A k \in Holders : k # h => G[k] = F[k]
  BY <1>1, <1>2
<1> HIDE DEF F, G, h
<1>5. G = [F EXCEPT ![h] = G[h]]
  BY <1>3, <1>4, OneHolder
<1> QED
  BY <1>2, <1>5 DEF F, G, h

(* Of the references in u and u2, only that of <<s, e>> differs. *)
OthersKept(u, u2, s, e) ==
    /\ \A t \in Socks : \A d \in Events : t # s \/ d # e => u2[t].cb[d] = u[t].cb[d]
    /\ \A t \in Socks : t # s \/ e # "self" => u2[t].self_ref = u[t].self_ref

LEMMA SelfHolds ==
    ASSUME NEW ref, NEW u, NEW u2, NEW s \in Socks, OthersKept(u, u2, s, "self")
    PROVE  HeldIn(ref, u2) = With(HeldIn(ref, u), Holder(s, "self"), u2[s].self_ref)
<1>0. /\ \A t \in Socks : \A e \in Events : u2[t].cb[e] = u[t].cb[e]
      /\ \A t \in Socks \ {s} : u2[t].self_ref = u[t].self_ref
  BY NetAssumption DEF OthersKept
<1>1. ASSUME NEW k \in Holders, k # <<s, "self">> PROVE HeldIn(ref, u2)[k] = HeldIn(ref, u)[k]
  <2>1. CASE k = Server
    BY <2>1, HolderKinds
  <2>2. ASSUME NEW t \in Socks, k = <<t, "self">> PROVE HeldIn(ref, u2)[k] = HeldIn(ref, u)[k]
    <3>1. t # s
      BY <1>1, <2>2
    <3> QED
      BY <1>0, <3>1, <2>2, HolderKinds
  <2>3. CASE \E t \in Socks, e \in Events : k = <<t, e>>
    BY <1>0, <2>3, HolderKinds
  <2> QED
    BY <2>1, <2>2, <2>3, HolderKinds
<1>2. <<s, "self">> \in Holders /\ HeldIn(ref, u2)[<<s, "self">>] = u2[s].self_ref
  BY HolderKinds
<1> DEFINE F == HeldIn(ref, u)
           G == HeldIn(ref, u2)
           h == <<s, "self">>
<1>3. F = [k \in Holders |-> F[k]] /\ G = [k \in Holders |-> G[k]]
  BY DEF HeldIn
<1>4. h \in Holders /\ \A k \in Holders : k # h => G[k] = F[k]
  BY <1>1, <1>2
<1> HIDE DEF F, G, h
<1>5. G = [F EXCEPT ![h] = G[h]]
  BY <1>3, <1>4, OneHolder
<1> QED
  BY <1>2, <1>5 DEF F, G, h, Holder, With

LEMMA CallbackHolds ==
    ASSUME NEW ref, NEW u, NEW u2, NEW s \in Socks, NEW e \in Events,
           OthersKept(u, u2, s, e)
    PROVE  HeldIn(ref, u2) = With(HeldIn(ref, u), Holder(s, e), u2[s].cb[e])
<1> DEFINE h == <<s, e>>
<1>0. /\ \A t \in Socks : \A d \in Events : t # s \/ d # e => u2[t].cb[d] = u[t].cb[d]
      /\ \A t \in Socks : u2[t].self_ref = u[t].self_ref
  BY NetAssumption DEF OthersKept
<1>1. ASSUME NEW k \in Holders, k # h PROVE HeldIn(ref, u2)[k] = HeldIn(ref, u)[k]
  <2>1. CASE k = Server
    BY <2>1, HolderKinds
  <2>2. CASE \E t \in Socks : k = <<t, "self">>
    BY <1>0, <2>2, HolderKinds
  <2>3. ASSUME NEW t \in Socks, NEW d \in Events, k = <<t, d>>
        PROVE  HeldIn(ref, u2)[k] = HeldIn(ref, u)[k]
    BY <1>0, <1>1, <2>3, HolderKinds
  <2> QED
    BY <2>1, <2>2, <2>3, HolderKinds
<1>2. h \in Holders /\ HeldIn(ref, u2)[h] = u2[s].cb[e]
  BY HolderKinds
<1> DEFINE F == HeldIn(ref, u)
           G == HeldIn(ref, u2)
<1>3. F = [k \in Holders |-> F[k]] /\ G = [k \in Holders |-> G[k]]
  BY DEF HeldIn
<1>4. h \in Holders /\ \A k \in Holders : k # h => G[k] = F[k]
  BY <1>1, <1>2
<1> HIDE DEF F, G, h
<1>5. G = [F EXCEPT ![h] = G[h]]
  BY <1>3, <1>4, OneHolder
<1> QED
  BY <1>2, <1>5 DEF F, G, h, Holder, With

(* The sockets and socket[] stay as they are but for the callbacks. *)
LEMMA SocketsUntouched ==
    ASSUME NetInv, NetBalanced', tcpserver_cb_connect_ref' \in MaybeRef,
           nud' \in [Socks -> Userdata],
           \A s \in Socks : /\ nud'[s].pesp_conn = nud[s].pesp_conn
                            /\ nud'[s].self_ref = nud[s].self_ref
                            /\ nud'[s].state = nud[s].state
                            /\ nud[s].state = "free" => nud'[s] = nud[s],
           conn' \in [Conns -> {"free", "open", "closing", "failed"}],
           \A c \in Conns : conn[c] = "free" <=> conn'[c] = "free",
           UNCHANGED <<fields, listen, listenTcp, socket, socket_num, remote, accepts, ending, undefined,
                       own, inherited>>
    PROVE  NetInv'
<1>1. NetTypes'
  BY DEF NetInv, NetTypes
<1>2. SocketLife'
  BY DEF NetInv, SocketLife
<1>3. Owned'
  BY OwnerHasConn DEF NetInv, Owned, HasConn
<1>4. Given' /\ Straight'
  <2>1. /\ ending # NULL => ending \in Socks
        /\ \A c \in Conns : own[c] # NULL => own[c] \in Socks
    BY DEF NetInv, NetTypes
  <2>2. ending # NULL => nud[ending].pesp_conn \in Conns
    BY <2>1, OwnerHasConn DEF NetInv, Straight
  <2>3. Given'
    BY <2>1 DEF NetInv, Given, Tied
  <2>4. Straight'
    BY <2>1, <2>2 DEF NetInv, Straight
  <2> QED
    BY <2>3, <2>4
<1>5. SlotsAgree'
  <2>1. EmptySlots' = EmptySlots
    BY DEF EmptySlots
  <2> QED
    BY <2>1 DEF NetInv, SlotsAgree
<1> QED
  BY <1>1, <1>2, <1>3, <1>4, <1>5 DEF NetInv

LEMMA ListenInv ==
    ASSUME NetInv, NEW f \in Funs, Listen(f)
    PROVE  NetInv'
<1> DEFINE V == Funs \union Socks
           r == Unreferenced(registry, Held[Server])
           n == NewRef(r)
<1>1. /\ DOMAIN Held = Holders /\ Server \in DOMAIN Held
      /\ Held[Server] = tcpserver_cb_connect_ref /\ f \in V /\ f \in Stores[Server]
  BY HolderKinds DEF Held
<1>2. Balanced(Referenced(r, f), V, [Held EXCEPT ![Server] = n], Stores) /\ n \in Nat
  BY <1>1, HolderRenews DEF NetInv, NetBalanced
<1>3. /\ registry' = Referenced(r, f) /\ tcpserver_cb_connect_ref' = n
      /\ UNCHANGED <<conn, fields, listen, listenTcp, socket, socket_num, nud, remote, accepts, ending,
                     undefined, own, inherited>>
  BY <1>1 DEF Listen, espconnVars
<1> HIDE DEF r, n
<1>4. Held' = [Held EXCEPT ![Server] = n]
  BY <1>3, ServerHolds DEF Held
<1>5. NetBalanced'
  BY <1>2, <1>3, <1>4 DEF NetBalanced
<1> QED
  BY <1>2, <1>3, <1>5, SocketsUntouched DEF NetInv, NetTypes, MaybeRef

LEMMA CloseServerInv ==
    ASSUME NetInv, CloseServer
    PROVE  NetInv'
<1> DEFINE V == Funs \union Socks
           r == Unreferenced(registry, Held[Server])
<1>1. Server \in DOMAIN Held /\ Held[Server] = tcpserver_cb_connect_ref
  BY HolderKinds DEF Held
<1>2. Balanced(r, V, [Held EXCEPT ![Server] = NOREF], Stores)
  BY <1>1, HolderGives DEF NetInv, NetBalanced
<1>3. /\ registry' = r /\ tcpserver_cb_connect_ref' = NOREF
      /\ UNCHANGED <<fields, listen, listenTcp, socket, socket_num, nud, remote, accepts, ending,
                     undefined, own, inherited>>
  BY <1>1 DEF CloseServer
<1>4. /\ conn' \in [Conns -> {"free", "open", "closing", "failed"}]
      /\ \A c \in Conns : conn[c] = "free" <=> conn'[c] = "free"
  <2> DEFINE closed == {remote} \union {nud[s].pesp_conn : s \in Kept}
  <2>1. conn' = [c \in Conns |-> IF c \in closed /\ conn[c] = "open" THEN "closing" ELSE conn[c]]
    BY DEF CloseServer
  <2> HIDE DEF closed
  <2> QED
    BY <2>1 DEF NetInv, NetTypes
<1> HIDE DEF r
<1>5. Held' = [Held EXCEPT ![Server] = NOREF]
  BY <1>3, ServerHolds DEF Held
<1>6. NetBalanced'
  BY <1>2, <1>3, <1>5 DEF NetBalanced
<1> QED
  BY <1>3, <1>4, <1>6, SocketsUntouched DEF NetInv, NetTypes, MaybeRef

LEMMA OnInv ==
    ASSUME NetInv, NEW s \in Socks, NEW e \in Events, NEW f \in Funs, On(s, e, f)
    PROVE  NetInv'
<1> DEFINE V == Funs \union Socks
           h == <<s, e>>
           r == Unreferenced(registry, Held[h])
           n == NewRef(r)
<1>1. h \in DOMAIN Held /\ Held[h] = nud[s].cb[e] /\ f \in V /\ f \in Stores[h]
  BY HolderKinds DEF Held
<1>2. Balanced(Referenced(r, f), V, [Held EXCEPT ![h] = n], Stores) /\ n \in Nat
  <2> HIDE DEF h
  <2> QED
    BY <1>1, HolderRenews DEF NetInv, NetBalanced
<1>3. /\ registry' = Referenced(r, f) /\ nud' = [nud EXCEPT ![s].cb[e] = n]
      /\ UNCHANGED <<conn, fields, listen, listenTcp, socket, socket_num, tcpserver_cb_connect_ref,
                     remote, accepts, ending, undefined, own, inherited>>
  BY <1>1 DEF On, espconnVars
<1> HIDE DEF r, n
<1>4. nud \in [Socks -> Userdata]
  BY DEF NetInv, NetTypes
<1>5. nud[s].state = "live"
  <2>1. nud[s].pesp_conn # NULL
    BY DEF On, Usable, Attached
  <2>2. NoSocket.pesp_conn = NULL
    BY DEF NoSocket
  <2> QED
    BY <2>1, <2>2, <1>4 DEF NetInv, SocketLife, Userdata
<1>6. /\ nud' \in [Socks -> Userdata]
      /\ \A t \in Socks : t # s => nud'[t] = nud[t]
      /\ nud'[s].pesp_conn = nud[s].pesp_conn /\ nud'[s].self_ref = nud[s].self_ref
      /\ nud'[s].state = nud[s].state
      /\ \A d \in Events : nud'[s].cb[d] = IF d = e THEN n ELSE nud[s].cb[d]
  <2>1. n \in MaybeRef
    BY <1>2 DEF MaybeRef
  <2>2. nud' = [nud EXCEPT ![s] = [nud[s] EXCEPT !.cb = [nud[s].cb EXCEPT ![e] = n]]]
    BY <1>3
  <2>3. [nud[s].cb EXCEPT ![e] = n] \in [Events -> MaybeRef]
    BY <2>1, <1>4 DEF Userdata
  <2>4. nud'[s] = [pesp_conn |-> nud[s].pesp_conn, self_ref |-> nud[s].self_ref,
                   cb |-> [nud[s].cb EXCEPT ![e] = n], state |-> nud[s].state]
    BY <2>2, <1>4 DEF Userdata
  <2>5. \A t \in Socks : t # s => nud'[t] = nud[t]
    BY <2>2
  <2>6. nud' = [t \in Socks |-> nud'[t]]
    BY <2>2, <1>4
  <2>7. /\ nud'[s] \in Userdata
        /\ nud'[s].pesp_conn = nud[s].pesp_conn /\ nud'[s].self_ref = nud[s].self_ref
        /\ nud'[s].state = nud[s].state /\ nud'[s].cb = [nud[s].cb EXCEPT ![e] = n]
    BY <2>3, <2>4, <1>4 DEF Userdata
  <2>8. \A d \in Events : [nud[s].cb EXCEPT ![e] = n][d] = IF d = e THEN n ELSE nud[s].cb[d]
    BY <1>4 DEF Userdata
  <2>9. nud' \in [Socks -> Userdata]
    BY <2>5, <2>6, <2>7, <1>4
  <2> QED
    BY <2>5, <2>7, <2>8, <2>9
<1>7. Held' = [Held EXCEPT ![h] = n]
  <2>1. OthersKept(nud, nud', s, e)
    BY <1>6, NetAssumption DEF OthersKept
  <2>2. HeldIn(tcpserver_cb_connect_ref, nud')
            = With(HeldIn(tcpserver_cb_connect_ref, nud), Holder(s, e), nud'[s].cb[e])
    BY <2>1, CallbackHolds
  <2> QED
    BY <2>2, <1>3, <1>6 DEF Held, Holder, With
<1>8. NetBalanced'
  BY <1>2, <1>3, <1>7 DEF NetBalanced
<1> QED
  BY <1>3, <1>5, <1>6, <1>8, SocketsUntouched DEF NetInv, NetTypes

(* The references sockets have to themselves are in use and all different. *)
LEMMA SelvesHeld ==
    ASSUME NetInv
    PROVE  /\ \A s \in Socks : nud[s].self_ref # NOREF =>
                  /\ nud[s].self_ref \in Values(registry)
                  /\ registry.slots[nud[s].self_ref] = <<"value", s>>
           /\ \A s, t \in Socks : nud[s].self_ref = nud[t].self_ref /\ nud[s].self_ref # NOREF => s = t
<1>1. /\ \A h, k \in Holders : Held[h] = Held[k] /\ Held[h] # NOREF => h = k
      /\ \A h \in Holders : Held[h] # NOREF => /\ Held[h] \in Values(registry)
                                               /\ registry.slots[Held[h]][2] \in Stores[h]
  BY HolderKinds DEF NetInv, NetBalanced, Balanced, HeldBy, Held
<1>2. \A n \in Values(registry) : registry.slots[n] = <<"value", registry.slots[n][2]>>
  BY DEF NetInv, NetBalanced, Balanced, IsRegistry, Values
<1>3. ASSUME NEW s \in Socks
      PROVE  /\ Holder(s, "self") \in Holders
             /\ Held[Holder(s, "self")] = nud[s].self_ref /\ Stores[Holder(s, "self")] = {s}
  BY HolderKinds DEF Held, Holder
<1>4. ASSUME NEW s \in Socks, nud[s].self_ref # NOREF
      PROVE  /\ nud[s].self_ref \in Values(registry)
             /\ registry.slots[nud[s].self_ref] = <<"value", s>>
  <2>1. nud[s].self_ref \in Values(registry) /\ registry.slots[nud[s].self_ref][2] = s
    BY <1>1, <1>3, <1>4
  <2> QED
    BY <2>1, <1>2
<1>5. ASSUME NEW s \in Socks, NEW t \in Socks, nud[s].self_ref = nud[t].self_ref, nud[s].self_ref # NOREF
      PROVE  s = t
  <2>1. Holder(s, "self") = Holder(t, "self")
    BY <1>1, <1>3, <1>5
  <2> QED
    BY <2>1 DEF Holder
<1> QED
  BY <1>4, <1>5

(* socket:dns(name): the reference the socket gets is the one it gave      *)
(* back, which is why socket[] need not be told.                           *)
LEMMA DnsInv ==
    ASSUME NetInv, NEW s \in Socks, Dns(s)
    PROVE  NetInv'
<1> DEFINE V == Funs \union Socks
           h == <<s, "self">>
           r == Unreferenced(registry, Held[h])
           n == NewRef(r)
<1>1. h \in DOMAIN Held /\ Held[h] = nud[s].self_ref /\ s \in V /\ s \in Stores[h]
  BY HolderKinds DEF Held
<1>2. nud[s].self_ref # NOREF
  BY DEF Dns, Usable, Attached, NetInv, SocketLife
<1>3. Balanced(Referenced(r, s), V, [Held EXCEPT ![h] = n], Stores) /\ n = nud[s].self_ref
  <2> HIDE DEF h
  <2> QED
    BY <1>1, <1>2, HolderRenews DEF NetInv, NetBalanced
<1>4. /\ registry' = Referenced(r, s) /\ nud' = [nud EXCEPT ![s].self_ref = n]
      /\ UNCHANGED <<conn, fields, listen, listenTcp, socket, socket_num, tcpserver_cb_connect_ref,
                     remote, accepts, ending, undefined, own, inherited>>
  BY <1>1 DEF Dns, espconnVars
<1> HIDE DEF r, n
<1>5. nud' = nud
  <2>1. nud \in [Socks -> Userdata]
    BY DEF NetInv, NetTypes
  <2>2. nud' = [nud EXCEPT ![s] = [nud[s] EXCEPT !.self_ref = nud[s].self_ref]]
    BY <1>3, <1>4
  <2>3. [nud[s] EXCEPT !.self_ref = nud[s].self_ref] = nud[s]
    BY <2>1 DEF Userdata
  <2> QED
    BY <2>1, <2>2, <2>3
<1>6. Held' = Held /\ [Held EXCEPT ![h] = n] = Held
  <2>1. Held' = Held
    BY <1>4, <1>5 DEF Held
  <2> HIDE DEF h
  <2>2. [Held EXCEPT ![h] = n] = Held
    BY <1>1, <1>3 DEF Held, HeldIn
  <2> QED
    BY <2>1, <2>2
<1>7. NetBalanced'
  BY <1>3, <1>4, <1>6 DEF NetBalanced
<1> QED
  BY <1>4, <1>5, <1>7, SocketsUntouched DEF NetInv, NetTypes

(* One userdata is written. *)
LEMMA OneUserdata ==
    ASSUME nud \in [Socks -> Userdata], NEW s \in Socks, NEW u \in Userdata,
           nud' = [nud EXCEPT ![s] = u]
    PROVE  nud' \in [Socks -> Userdata] /\ \A t \in Socks : nud'[t] = IF t = s THEN u ELSE nud[t]
OBVIOUS

(* net_server_connected *)
LEMMA AcceptInv ==
    ASSUME NetInv, NEW c \in Conns, NEW s \in Socks, Accept(c, s)
    PROVE  NetInv'
<1> USE NoFieldsNull
<1> DEFINE V == Funs \union Socks
           h == <<s, "self">>
           n == NewRef(registry)
           i0 == FirstOf(EmptySlots)
           u == [pesp_conn |-> c, self_ref |-> n, cb |-> nud[s].cb, state |-> "live"]
<1>1. /\ nud \in [Socks -> Userdata] /\ socket \in [Slots -> MaybeRef]
      /\ nud[s].state = "free" /\ nud[s] = NoSocket
  BY DEF NetInv, NetTypes, SocketLife, Accept
<1>2. nud[s].self_ref = NOREF /\ nud[s].pesp_conn = NULL
  BY <1>1 DEF NoSocket
<1>3. h \in DOMAIN Held /\ Held[h] = NOREF /\ s \in V /\ s \in Stores[h]
  BY <1>2, HolderKinds DEF Held
<1>4. /\ Balanced(Referenced(registry, s), V, [Held EXCEPT ![h] = n], Stores)
      /\ n \in Nat /\ n # NOREF /\ n \notin Values(registry)
  <2> HIDE DEF h
  <2> QED
    BY <1>3, HolderTakes DEF NetInv, NetBalanced
<1>5. i0 \in EmptySlots /\ i0 \in Slots /\ socket[i0] = NOREF
  BY FirstWanted DEF Accept, EmptySlots
<1>6. /\ conn[c] = "free" /\ ending = NULL /\ ending' = NULL
      /\ conn' = [conn EXCEPT ![c] = "open"]
      /\ fields' = [fields EXCEPT ![c] = [reverse |-> s, callbacks |-> TRUE]]
      /\ UNCHANGED <<listen, listenTcp, tcpserver_cb_connect_ref>>
      /\ accepts < MaxAccepts /\ accepts' = accepts + 1 /\ remote' = c
      /\ registry' = Referenced(registry, s)
      /\ socket' = [socket EXCEPT ![i0] = n] /\ socket_num' = socket_num + 1
      /\ own' = [own EXCEPT ![c] = s] /\ UNCHANGED <<undefined, inherited>>
  BY DEF Accept, AcceptAs, Counted, Idle
<1>7. u \in Userdata /\ nud' = [nud EXCEPT ![s] = u]
  <2>1. u \in Userdata
    BY <1>1, <1>4 DEF Userdata, MaybeRef
  <2>2. nud' = [nud EXCEPT ![s] = [nud[s] EXCEPT !.pesp_conn = c, !.self_ref = n, !.state = "live"]]
    BY DEF Accept
  <2>3. [nud[s] EXCEPT !.pesp_conn = c, !.self_ref = n, !.state = "live"] = u
    <3> DEFINE d == nud[s]
    <3>1. d = [pesp_conn |-> d.pesp_conn, self_ref |-> d.self_ref, cb |-> d.cb, state |-> d.state]
      BY <1>1 DEF Userdata
    <3> HIDE DEF d
    <3> DEFINE d1 == [pesp_conn |-> c, self_ref |-> d.self_ref, cb |-> d.cb, state |-> d.state]
               d2 == [pesp_conn |-> c, self_ref |-> n, cb |-> d.cb, state |-> d.state]
               d3 == [pesp_conn |-> c, self_ref |-> n, cb |-> d.cb, state |-> "live"]
    <3>2. [d EXCEPT !.pesp_conn = c] = d1
      BY <3>1
    <3>3. [d1 EXCEPT !.self_ref = n] = d2
      OBVIOUS
    <3>4. [d2 EXCEPT !.state = "live"] = d3
      OBVIOUS
    <3>5. [d EXCEPT !.pesp_conn = c, !.self_ref = n, !.state = "live"]
            = [[[d EXCEPT !.pesp_conn = c] EXCEPT !.self_ref = n] EXCEPT !.state = "live"]
      OBVIOUS
    <3>6. u = d3
      BY DEF d
    <3> HIDE DEF d1, d2, d3, u
    <3> QED
      BY <3>2, <3>3, <3>4, <3>5, <3>6, Zenon DEF d
  <2> QED
    BY <2>1, <2>2, <2>3
<1>8. u.pesp_conn = c /\ u.self_ref = n /\ u.cb = nud[s].cb /\ u.state = "live"
  OBVIOUS
<1> HIDE DEF n, i0, u
<1>9. nud' \in [Socks -> Userdata] /\ \A t \in Socks : nud'[t] = IF t = s THEN u ELSE nud[t]
  BY <1>1, <1>7, OneUserdata
<1>10. \A i \in Slots : socket'[i] = IF i = i0 THEN n ELSE socket[i]
  BY <1>1, <1>6
<1>11. \A d \in Conns : /\ conn'[d] = IF d = c THEN "open" ELSE conn[d]
                        /\ fields'[d] = IF d = c THEN [reverse |-> s, callbacks |-> TRUE] ELSE fields[d]
                        /\ own'[d] = IF d = c THEN s ELSE own[d]
  BY <1>6 DEF NetInv, NetTypes
<1>12. NetTypes'
  <2>1. [reverse |-> s, callbacks |-> TRUE] \in SocketFields
    BY DEF SocketFields
  <2> QED
    BY <1>4, <1>5, <1>6, <1>9, <2>1, NetAssumption DEF NetInv, NetTypes, MaybeRef
<1>13. NetBalanced'
  <2>1. OthersKept(nud, nud', s, "self")
    BY <1>8, <1>9 DEF OthersKept
  <2>2. HeldIn(tcpserver_cb_connect_ref, nud')
            = With(HeldIn(tcpserver_cb_connect_ref, nud), Holder(s, "self"), nud'[s].self_ref)
    BY <2>1, SelfHolds
  <2>3. Held' = [Held EXCEPT ![h] = n]
    BY <2>2, <1>6, <1>8, <1>9 DEF Held, Holder, With
  <2> QED
    BY <2>3, <1>4, <1>6 DEF NetBalanced
<1>14. SocketLife'
  BY <1>4, <1>8, <1>9 DEF NetInv, SocketLife
<1>15. Owned'
  <2> SUFFICES ASSUME NEW t \in Socks, nud'[t].self_ref # NOREF
               PROVE  HasConn(t, nud[t].pesp_conn)'
    BY DEF Owned
  <2>1. CASE t = s
    <3>1. nud'[t].pesp_conn = c
      BY <2>1, <1>8, <1>9
    <3> QED
      BY <2>1, <3>1, <1>11 DEF HasConn
  <2>2. CASE t # s
    <3>1. nud'[t] = nud[t] /\ nud[t].self_ref # NOREF /\ nud[t].pesp_conn \in Conns
      BY <2>2, <1>9, OwnerHasConn
    <3>2. HasConn(t, nud[t].pesp_conn) /\ nud[t].pesp_conn # c
      BY <3>1, <1>6 DEF NetInv, Owned, HasConn
    <3> QED
      BY <3>1, <3>2, <1>11 DEF HasConn
  <2> QED
    BY <2>1, <2>2
<1>16. Given' /\ Straight'
  <2>1. ASSUME NEW d \in Conns, own'[d] # NULL
        PROVE  conn'[d] # "free" /\ (Tied(d, own[d])' \/ (inherited' /\ fields'[d].reverse = NULL))
    <3>1. CASE d = c
      <4>1. nud'[s].pesp_conn = c /\ nud'[s].self_ref # NOREF
        BY <1>4, <1>8, <1>9
      <4> QED
        BY <3>1, <4>1, <1>11 DEF Tied
    <3>2. CASE d # c
      <4>1. /\ own'[d] = own[d] /\ conn[d] # "free" /\ own[d] \in Socks
            /\ Tied(d, own[d]) \/ (inherited /\ fields[d].reverse = NULL)
        BY <3>2, <2>1, <1>11 DEF NetInv, Given, NetTypes
      <4>2. CASE Tied(d, own[d])
        <5>1. own[d] # s /\ nud'[own[d]] = nud[own[d]]
          BY <4>1, <4>2, <1>2, <1>9 DEF Tied
        <5> QED
          BY <5>1, <4>1, <4>2, <3>2, <1>11 DEF Tied
      <4>3. CASE inherited /\ fields[d].reverse = NULL
        BY <4>1, <4>3, <3>2, <1>6, <1>11
      <4> QED
        BY <4>1, <4>2, <4>3
    <3> QED
      BY <3>1, <3>2
  <2>2. Given'
    BY <2>1 DEF Given
  <2>3. Straight'
    BY <1>6, <1>11 DEF NetInv, Straight
  <2> QED
    BY <2>2, <2>3
<1>17. SlotsAgree'
  <2>1. \A i \in Slots : socket[i] # n
    <3>1. \A t \in Socks : nud[t].self_ref # n
      BY <1>4, SelvesHeld
    <3> QED
      BY <3>1, <1>4 DEF NetInv, SlotsAgree
  <2>2. socket_num' = Cardinality((Slots \ EmptySlots)')
    <3>1. (Slots \ EmptySlots)' = (Slots \ EmptySlots) \union {i0} /\ i0 \notin Slots \ EmptySlots
      BY <1>4, <1>5, <1>10 DEF EmptySlots
    <3>2. IsFiniteSet(Slots \ EmptySlots)
      BY SlotsFinite
    <3>3. Cardinality((Slots \ EmptySlots) \union {i0}) = Cardinality(Slots \ EmptySlots) + 1
      BY <3>1, <3>2, FS_AddElement
    <3> QED
      BY <3>1, <3>3, <1>6 DEF NetInv, SlotsAgree
  <2>3. \A i, j \in Slots : socket'[i] = socket'[j] /\ socket'[i] # NOREF => i = j
    BY <2>1, <1>10 DEF NetInv, SlotsAgree
  <2>4. \A i \in Slots : socket'[i] # NOREF => \E t \in Socks : nud'[t].self_ref = socket'[i]
    <3> SUFFICES ASSUME NEW i \in Slots, socket'[i] # NOREF
                 PROVE  \E t \in Socks : nud'[t].self_ref = socket'[i]
      OBVIOUS
    <3>1. CASE i = i0
      BY <3>1, <1>8, <1>9, <1>10
    <3>2. CASE i # i0
      <4>1. PICK t \in Socks : nud[t].self_ref = socket[i]
        BY <3>2, <1>10 DEF NetInv, SlotsAgree
      <4> QED
        BY <4>1, <3>2, <1>2, <1>9, <1>10
    <3> QED
      BY <3>1, <3>2
  <2>5. \A t \in Socks : nud'[t].self_ref # NOREF => \E i \in Slots : socket'[i] = nud'[t].self_ref
    <3> SUFFICES ASSUME NEW t \in Socks, nud'[t].self_ref # NOREF
                 PROVE  \E i \in Slots : socket'[i] = nud'[t].self_ref
      OBVIOUS
    <3>1. CASE t = s
      BY <3>1, <1>5, <1>8, <1>9, <1>10
    <3>2. CASE t # s
      <4>1. PICK i \in Slots : socket[i] = nud[t].self_ref
        BY <3>2, <1>9 DEF NetInv, SlotsAgree
      <4> QED
        BY <4>1, <3>2, <1>5, <1>9, <1>10
    <3> QED
      BY <3>1, <3>2
  <2> QED
    BY <2>2, <2>3, <2>4, <2>5 DEF SlotsAgree
<1> QED
  BY <1>12, <1>13, <1>14, <1>15, <1>16, <1>17 DEF NetInv

(* The end of net_server_disconnected. *)
LEMMA EndReturnsInv ==
    ASSUME NetInv, EndReturns
    PROVE  NetInv'
<1> USE NoFieldsNull
<1> DEFINE V == Funs \union Socks
           s == ending
           mine == {i \in Slots : socket[i] # NOREF /\ socket[i] = nud[s].self_ref}
<1>1. /\ nud \in [Socks -> Userdata] /\ socket \in [Slots -> MaybeRef]
      /\ s \in Socks /\ nud[s].state = "live" /\ nud[s].self_ref # NOREF
  <2>1. /\ nud \in [Socks -> Userdata] /\ socket \in [Slots -> MaybeRef]
        /\ s \in Socks /\ nud[s].self_ref # NOREF
    BY DEF NetInv, NetTypes, Straight, EndReturns
  <2>2. NoSocket.self_ref = NOREF
    BY DEF NoSocket
  <2> QED
    BY <2>1, <2>2 DEF NetInv, SocketLife, Userdata
<1>2. /\ ending' = NULL
      /\ UNCHANGED <<conn, listen, listenTcp, tcpserver_cb_connect_ref, remote, accepts, undefined, own,
                     inherited>>
  BY DEF EndReturns
<1>3. mine # {} /\ mine = Mine
  BY <1>1 DEF NetInv, SlotsAgree, Mine
<1>4. CASE mine # {}
  <2> DEFINE i0 == FirstOf(mine)
             h == <<s, "self">>
             u == [pesp_conn |-> NULL, self_ref |-> NOREF, cb |-> nud[s].cb, state |-> nud[s].state]
  <2>1. i0 \in Slots /\ socket[i0] # NOREF /\ socket[i0] = nud[s].self_ref
    BY <1>4, FirstWanted
  <2>2. /\ registry' = Unreferenced(registry, nud[s].self_ref)
        /\ socket' = [socket EXCEPT ![i0] = NOREF] /\ socket_num' = socket_num - 1
        /\ nud' = [nud EXCEPT ![s] = [nud[s] EXCEPT !.pesp_conn = NULL, !.self_ref = NOREF]]
    BY <1>3, <2>1 DEF EndReturns
  <2>3. u \in Userdata /\ nud' = [nud EXCEPT ![s] = u]
    <3>1. u \in Userdata
      BY <1>1 DEF Userdata, MaybeRef
    <3> DEFINE d == nud[s]
               d1 == [pesp_conn |-> NULL, self_ref |-> d.self_ref, cb |-> d.cb, state |-> d.state]
    <3>2. d = [pesp_conn |-> d.pesp_conn, self_ref |-> d.self_ref, cb |-> d.cb, state |-> d.state]
      BY <1>1 DEF Userdata
    <3> HIDE DEF d
    <3>3. [d EXCEPT !.pesp_conn = NULL] = d1
      BY <3>2
    <3>4. [d1 EXCEPT !.self_ref = NOREF] = u
      BY DEF d
    <3>5. [d EXCEPT !.pesp_conn = NULL, !.self_ref = NOREF]
            = [[d EXCEPT !.pesp_conn = NULL] EXCEPT !.self_ref = NOREF]
      OBVIOUS
    <3> HIDE DEF d1, u
    <3>6. [d EXCEPT !.pesp_conn = NULL, !.self_ref = NOREF] = u
      BY <3>3, <3>4, <3>5, Zenon
    <3> QED
      BY <3>1, <3>6, <2>2 DEF d
  <2>4. u.pesp_conn = NULL /\ u.self_ref = NOREF /\ u.cb = nud[s].cb /\ u.state = "live"
    BY <1>1
  <2> HIDE DEF i0, u, mine
  <2>5. nud' \in [Socks -> Userdata] /\ \A t \in Socks : nud'[t] = IF t = s THEN u ELSE nud[t]
    BY <1>1, <2>3, OneUserdata
  <2>6. \A i \in Slots : socket'[i] = IF i = i0 THEN NOREF ELSE socket[i]
    BY <1>1, <2>2
  <2> DEFINE c0 == nud[s].pesp_conn
  <2>7. c0 \in Conns /\ (HasConn(s, c0) \/ conn[c0] = "free")
    BY <1>1, OwnerHasConn DEF NetInv, Owned
  <2>8. fields' = IF conn[c0] # "free" THEN [fields EXCEPT ![c0].reverse = NULL] ELSE fields
    BY <1>3, <2>7 DEF EndReturns, Attached
  <2>9. /\ fields' \in [Conns -> SocketFields]
        /\ \A d \in Conns : d # c0 \/ conn[c0] = "free" => fields'[d] = fields[d]
        /\ conn[c0] # "free" => fields'[c0].reverse = NULL
    BY <2>7, <2>8 DEF NetInv, NetTypes, SocketFields
  <2>10. conn[c0] # "free" => inherited
    BY <1>1 DEF NetInv, Straight
  <2> HIDE DEF c0
  <2>11. NetTypes'
    BY <1>2, <2>2, <2>5, <2>9 DEF NetInv, NetTypes, MaybeRef
  <2>12. NetBalanced'
    <3>1. h \in DOMAIN Held /\ Held[h] = nud[s].self_ref
      BY <1>1, HolderKinds DEF Held
    <3>2. Balanced(Unreferenced(registry, Held[h]), V, [Held EXCEPT ![h] = NOREF], Stores)
      <4> HIDE DEF h
      <4> QED
        BY <3>1, HolderGives DEF NetInv, NetBalanced
    <3>3. OthersKept(nud, nud', s, "self")
      BY <2>4, <2>5 DEF OthersKept
    <3>4. HeldIn(tcpserver_cb_connect_ref, nud')
              = With(HeldIn(tcpserver_cb_connect_ref, nud), Holder(s, "self"), nud'[s].self_ref)
      <4> HIDE DEF s
      <4> QED
        BY <1>1, <3>3, SelfHolds
    <3>5. Held' = [Held EXCEPT ![h] = NOREF]
      BY <3>4, <1>1, <1>2, <2>4, <2>5 DEF Held, Holder, With
    <3> QED
      BY <3>1, <3>2, <3>5, <2>2 DEF NetBalanced
  <2>13. SocketLife'
    BY <2>4, <2>5 DEF NetInv, SocketLife
  <2>14. Owned'
    <3> SUFFICES ASSUME NEW t \in Socks, nud'[t].self_ref # NOREF
                 PROVE  HasConn(t, nud[t].pesp_conn)'
      BY DEF Owned
    <3>1. t # s /\ nud'[t] = nud[t] /\ nud[t].self_ref # NOREF /\ nud[t].pesp_conn \in Conns
      BY <2>4, <2>5, OwnerHasConn
    <3>2. HasConn(t, nud[t].pesp_conn)
      BY <3>1 DEF NetInv, Owned
    <3>3. nud[t].pesp_conn # c0 \/ conn[c0] = "free"
      BY <3>1, <3>2, <2>7 DEF HasConn
    <3> QED
      BY <3>1, <3>2, <3>3, <1>2, <2>9 DEF HasConn
  <2>15. Given' /\ Straight'
    <3>1. ASSUME NEW d \in Conns, own'[d] # NULL
          PROVE  conn'[d] # "free" /\ (Tied(d, own[d])' \/ (inherited' /\ fields'[d].reverse = NULL))
      <4>1. /\ own'[d] = own[d] /\ conn[d] # "free" /\ conn'[d] = conn[d] /\ own[d] \in Socks
            /\ Tied(d, own[d]) \/ (inherited /\ fields[d].reverse = NULL)
        BY <3>1, <1>2 DEF NetInv, Given, NetTypes
      <4>2. CASE d = c0
        BY <4>1, <4>2, <1>2, <2>9, <2>10
      <4>3. CASE d # c0 /\ Tied(d, own[d])
        <5>1. own[d] # s
          BY <4>3 DEF Tied, c0
        <5>2. nud'[own[d]] = nud[own[d]] /\ fields'[d] = fields[d]
          BY <4>1, <4>3, <5>1, <2>5, <2>9
        <5> QED
          BY <4>1, <4>3, <5>2 DEF Tied
      <4>4. CASE d # c0 /\ inherited /\ fields[d].reverse = NULL
        BY <4>1, <4>4, <1>2, <2>9
      <4> QED
        BY <4>1, <4>2, <4>3, <4>4
    <3>2. Given'
      BY <3>1 DEF Given
    <3>3. ASSUME ~inherited PROVE \A d \in Conns : fields'[d].reverse \in {NULL, own'[d]}
      BY <3>3, <1>2, <2>9, <2>10 DEF NetInv, Straight
    <3>4. Straight'
      BY <3>3, <1>2 DEF Straight
    <3> QED
      BY <3>2, <3>4
  <2>16. SlotsAgree'
    <3>1. socket_num' = Cardinality((Slots \ EmptySlots)')
      <4>1. (Slots \ EmptySlots)' = (Slots \ EmptySlots) \ {i0} /\ i0 \in Slots \ EmptySlots
        BY <2>1, <2>6 DEF EmptySlots
      <4>2. IsFiniteSet(Slots \ EmptySlots) /\ Cardinality(Slots \ EmptySlots) \in Nat
        BY SlotsFinite
      <4>3. Cardinality((Slots \ EmptySlots) \ {i0}) = Cardinality(Slots \ EmptySlots) - 1
        BY <4>1, <4>2, FS_RemoveElement
      <4> QED
        BY <4>1, <4>3, <2>2 DEF NetInv, SlotsAgree
    <3>2. \A i, j \in Slots : socket'[i] = socket'[j] /\ socket'[i] # NOREF => i = j
      BY <2>6 DEF NetInv, SlotsAgree
    <3>3. \A i \in Slots : socket'[i] # NOREF => \E t \in Socks : nud'[t].self_ref = socket'[i]
      <4> SUFFICES ASSUME NEW i \in Slots, socket'[i] # NOREF
                   PROVE  \E t \in Socks : nud'[t].self_ref = socket'[i]
        OBVIOUS
      <4>1. i # i0 /\ socket'[i] = socket[i]
        BY <2>6
      <4>2. PICK t \in Socks : nud[t].self_ref = socket[i]
        BY <4>1 DEF NetInv, SlotsAgree
      <4>3. t # s
        BY <4>1, <4>2, <2>1 DEF NetInv, SlotsAgree
      <4> QED
        BY <4>1, <4>2, <4>3, <2>5
    <3>4. \A t \in Socks : nud'[t].self_ref # NOREF => \E i \in Slots : socket'[i] = nud'[t].self_ref
      <4> SUFFICES ASSUME NEW t \in Socks, nud'[t].self_ref # NOREF
                   PROVE  \E i \in Slots : socket'[i] = nud'[t].self_ref
        OBVIOUS
      <4>1. t # s /\ nud'[t] = nud[t]
        BY <2>4, <2>5
      <4>2. PICK i \in Slots : socket[i] = nud[t].self_ref
        BY <4>1 DEF NetInv, SlotsAgree
      <4>3. i # i0
        BY <4>1, <4>2, <2>1, <1>1, SelvesHeld
      <4> QED
        BY <4>1, <4>2, <4>3, <2>6
    <3> QED
      BY <3>1, <3>2, <3>3, <3>4 DEF SlotsAgree
  <2> QED
    BY <2>11, <2>12, <2>13, <2>14, <2>15, <2>16 DEF NetInv
<1> QED
  BY <1>3, <1>4

(* net_delete gives back one callback. *)
Gone(H, s, e) == IF e \in Events THEN [H EXCEPT ![Holder(s, e)] = NOREF] ELSE H

Cleared(G, H, s, e) ==
    \A h \in Holders : G[h] = IF e \in Events /\ h = Holder(s, e) THEN NOREF ELSE H[h]

LEMMA OneGivenBack ==
    ASSUME NEW V, NEW r, NEW H, NEW cb, NEW e, NEW s \in Socks,
           Balanced(r, V, H, Stores), DOMAIN H = Holders,
           e \in Events => H[Holder(s, e)] = cb[e]
    PROVE  /\ Balanced(GivenBack(r, cb, e), V, Gone(H, s, e), Stores)
           /\ DOMAIN Gone(H, s, e) = Holders /\ Cleared(Gone(H, s, e), H, s, e)
<1>1. CASE e \notin Events
  BY <1>1 DEF GivenBack, Gone, Cleared
<1>2. CASE e \in Events
  <2> DEFINE h == Holder(s, e)
  <2>1. h \in DOMAIN H /\ H[h] = cb[e]
    BY <1>2, HolderKinds DEF Holder
  <2> HIDE DEF h
  <2>2. Balanced(Unreferenced(r, H[h]), V, [H EXCEPT ![h] = NOREF], Stores)
    BY <2>1, HolderGives
  <2>3. GivenBack(r, cb, e) = Unreferenced(r, H[h]) /\ Gone(H, s, e) = [H EXCEPT ![h] = NOREF]
    BY <1>2, <2>1 DEF GivenBack, Gone, h
  <2> QED
    BY <2>2, <2>3, <1>2 DEF h, Cleared
<1> QED
  BY <1>1, <1>2

(* The collector finds no reference to a socket that is kept. *)
LEMMA RootedSelf ==
    ASSUME NetInv, NEW s \in Socks
    PROVE  Rooted(registry, s) <=> nud[s].self_ref # NOREF
<1>1. ASSUME nud[s].self_ref # NOREF PROVE Rooted(registry, s)
  <2>1. nud[s].self_ref \in DOMAIN registry.slots /\ registry.slots[nud[s].self_ref] = <<"value", s>>
    BY <1>1, SelvesHeld DEF Values
  <2> QED
    BY <2>1 DEF Rooted
<1>2. ASSUME Rooted(registry, s) PROVE nud[s].self_ref # NOREF
  <2>1. PICK i \in DOMAIN registry.slots : registry.slots[i] = <<"value", s>>
    BY <1>2 DEF Rooted
  <2>2. i \in Values(registry)
    BY <2>1 DEF Values
  <2>3. DOMAIN Held = Holders
    BY HolderKinds DEF Held
  <2>4. PICK h \in Holders : Held[h] = i
    BY <2>2, <2>3 DEF NetInv, NetBalanced, Balanced, HeldBy
  <2>5. i # NOREF
    BY <2>2, NorefNoSlot DEF NetInv, NetBalanced, Balanced
  <2>6. s \in Stores[h]
    BY <2>1, <2>3, <2>4, <2>5 DEF NetInv, NetBalanced, Balanced, HeldBy
  <2>7. s \notin Funs
    BY NetAssumption
  <2>8. CASE h = Server
    BY <2>6, <2>7, <2>8, HolderKinds
  <2>9. ASSUME NEW t \in Socks, h = <<t, "self">> PROVE nud[s].self_ref # NOREF
    <3>1. t = s
      BY <2>6, <2>9, HolderKinds
    <3> QED
      BY <3>1, <2>4, <2>5, <2>9, HolderKinds DEF Held
  <2>10. ASSUME NEW t \in Socks, NEW e \in Events, h = <<t, e>> PROVE nud[s].self_ref # NOREF
    BY <2>6, <2>7, <2>10, HolderKinds
  <2> QED
    BY <2>8, <2>9, <2>10, HolderKinds
<1> QED
  BY <1>1, <1>2

(* net_delete *)
LEMMA CollectInv ==
    ASSUME NetInv, NEW s \in Socks, Collect(s)
    PROVE  NetInv'
<1> USE NoFieldsNull
<1> DEFINE V == Funs \union Socks
           cb == nud[s].cb
           r1 == GivenBack(registry, cb, "disconnection")
           r2 == GivenBack(r1, cb, "receive")
           r3 == GivenBack(r2, cb, "sent")
           r4 == GivenBack(r3, cb, "dns")
           H1 == Gone(Held, s, "disconnection")
           H2 == Gone(H1, s, "receive")
           H3 == Gone(H2, s, "sent")
           H4 == Gone(H3, s, "dns")
<1>1. /\ nud \in [Socks -> Userdata] /\ nud[s].state = "live"
      /\ nud[s].self_ref = NOREF /\ nud[s].pesp_conn = NULL
  BY RootedSelf DEF NetInv, NetTypes, SocketLife, Collect
<1>2. /\ registry' = r4 /\ nud' = [nud EXCEPT ![s] = NoSocket]
      /\ UNCHANGED <<conn, fields, listen, listenTcp, socket, socket_num, tcpserver_cb_connect_ref,
                     remote, accepts, ending, undefined, own, inherited>>
  BY DEF Collect, espconnVars
<1>3. NoSocket \in Userdata /\ NoSocket.self_ref = NOREF /\ NoSocket.pesp_conn = NULL
      /\ NoSocket.state = "free" /\ \A e \in Events : NoSocket.cb[e] = NOREF
  BY DEF NoSocket, Userdata, MaybeRef
<1>4. nud' \in [Socks -> Userdata] /\ \A t \in Socks : nud'[t] = IF t = s THEN NoSocket ELSE nud[t]
  BY <1>1, <1>2, <1>3, OneUserdata
<1>5. NetBalanced'
  <2>1. /\ Balanced(registry, V, Held, Stores) /\ DOMAIN Held = Holders
        /\ \A e \in Events : Holder(s, e) \in Holders /\ Held[Holder(s, e)] = cb[e]
    BY HolderKinds DEF NetInv, NetBalanced, Held, Holder
  <2>2. \A d, e : Holder(s, d) = Holder(s, e) => d = e
    BY DEF Holder
  <2> HIDE DEF V, cb
  <2>3. /\ Balanced(r1, V, H1, Stores) /\ DOMAIN H1 = Holders
        /\ Cleared(H1, Held, s, "disconnection")
    BY <2>1, OneGivenBack
  <2>4. "receive" \in Events => H1[Holder(s, "receive")] = cb["receive"]
    BY <2>1, <2>2, <2>3 DEF Cleared
  <2> HIDE DEF r1, H1
  <2>5. /\ Balanced(r2, V, H2, Stores) /\ DOMAIN H2 = Holders
        /\ Cleared(H2, H1, s, "receive")
    BY <2>3, <2>4, OneGivenBack
  <2>6. "sent" \in Events => H2[Holder(s, "sent")] = cb["sent"]
    BY <2>1, <2>2, <2>3, <2>5 DEF Cleared
  <2> HIDE DEF r2, H2
  <2>7. /\ Balanced(r3, V, H3, Stores) /\ DOMAIN H3 = Holders
        /\ Cleared(H3, H2, s, "sent")
    BY <2>5, <2>6, OneGivenBack
  <2>8. "dns" \in Events => H3[Holder(s, "dns")] = cb["dns"]
    BY <2>1, <2>2, <2>3, <2>5, <2>7 DEF Cleared
  <2> HIDE DEF r3, H3
  <2>9. /\ Balanced(r4, V, H4, Stores) /\ DOMAIN H4 = Holders
        /\ Cleared(H4, H3, s, "dns")
    BY <2>7, <2>8, OneGivenBack
  <2> HIDE DEF r4
  <2>10. H4 = [h \in Holders |-> H4[h]]
    <3>1. /\ Held = [h \in Holders |-> Held[h]]
      BY DEF Held, HeldIn
    <3>2. H1 = [h \in Holders |-> H1[h]]
      BY <3>1 DEF H1, Gone
    <3>3. H2 = [h \in Holders |-> H2[h]]
      BY <3>2 DEF H2, Gone
    <3>4. H3 = [h \in Holders |-> H3[h]]
      BY <3>3 DEF H3, Gone
    <3> QED
      BY <3>4 DEF Gone
  <2> HIDE DEF H4
  <2>11. ASSUME NEW h \in Holders PROVE Held'[h] = H4[h]
    <3>0. Held' = HeldIn(tcpserver_cb_connect_ref, nud') /\ Held = HeldIn(tcpserver_cb_connect_ref, nud)
      BY <1>2 DEF Held
    <3>1. CASE h = Server
      <4>1. \A e \in Events : h # Holder(s, e)
        BY <3>1, HolderKinds DEF Holder
      <4>2. H4[h] = Held[h]
        BY <4>1, <2>3, <2>5, <2>7, <2>9 DEF Cleared
      <4> QED
        BY <3>0, <3>1, <4>2, HolderKinds
    <3>2. ASSUME NEW t \in Socks, h = <<t, "self">> PROVE Held'[h] = H4[h]
      <4>1. \A e \in Events : h # Holder(s, e)
        BY <3>2, HolderKinds DEF Holder
      <4>2. H4[h] = Held[h]
        BY <4>1, <2>3, <2>5, <2>7, <2>9 DEF Cleared
      <4>3. Held'[h] = nud'[t].self_ref /\ Held[h] = nud[t].self_ref
        BY <3>0, <3>2, HolderKinds
      <4> QED
        BY <4>2, <4>3, <1>1, <1>3, <1>4
    <3>3. ASSUME NEW t \in Socks, NEW e \in Events, h = <<t, e>> PROVE Held'[h] = H4[h]
      <4>1. Held'[h] = nud'[t].cb[e] /\ Held[h] = nud[t].cb[e]
        BY <3>0, <3>3, HolderKinds
      <4>2. CASE t = s
        <5>1. Held'[h] = NOREF
          BY <4>1, <4>2, <1>3, <1>4
        <5>2. h = Holder(s, e) /\ e \in {"disconnection", "receive", "sent", "dns"}
          BY <4>2, <3>3, NetAssumption DEF Holder
        <5> QED
          BY <5>1, <5>2, <2>3, <2>5, <2>7, <2>9 DEF Cleared
      <4>3. CASE t # s
        <5>1. \A d : h # Holder(s, d)
          BY <4>3, <3>3 DEF Holder
        <5>2. H4[h] = Held[h]
          BY <5>1, <2>3, <2>5, <2>7, <2>9 DEF Cleared
        <5> QED
          BY <5>2, <4>1, <4>3, <1>4
      <4> QED
        BY <4>2, <4>3
    <3> QED
      BY <3>1, <3>2, <3>3, HolderKinds
  <2>12. Held' = [h \in Holders |-> Held'[h]]
    BY DEF Held, HeldIn
  <2>13. Held' = H4
    BY <2>10, <2>11, <2>12
  <2> QED
    BY <2>9, <2>13, <1>2 DEF NetBalanced, V
<1> HIDE DEF r4
<1>6. NetTypes'
  BY <1>2, <1>4 DEF NetInv, NetTypes
<1>7. SocketLife'
  BY <1>3, <1>4 DEF NetInv, SocketLife
<1>8. Owned'
  BY <1>2, <1>3, <1>4 DEF NetInv, Owned, HasConn
<1>9. Given' /\ Straight'
  <2>1. \A t \in Socks : nud[t].self_ref # NOREF => nud'[t] = nud[t]
    BY <1>1, <1>4
  <2>2. /\ ending # NULL => ending \in Socks
        /\ \A c \in Conns : own[c] # NULL => own[c] \in Socks
    BY DEF NetInv, NetTypes
  <2>3. Given'
    BY <1>2, <2>1, <2>2 DEF NetInv, Given, Tied
  <2>4. Straight'
    BY <1>2, <2>1, <2>2 DEF NetInv, Straight
  <2> QED
    BY <2>3, <2>4
<1>10. SlotsAgree'
  <2>1. EmptySlots' = EmptySlots
    BY <1>2 DEF EmptySlots
  <2>2. \A t \in Socks : nud'[t].self_ref = nud[t].self_ref
    BY <1>1, <1>3, <1>4
  <2> QED
    BY <1>2, <2>1, <2>2 DEF NetInv, SlotsAgree
<1> QED
  BY <1>5, <1>6, <1>7, <1>8, <1>9, <1>10 DEF NetInv

-----------------------------------------------------------------------------
LEMMA NetInvStep == NetInv /\ [Next]_vars => NetInv'
<1> SUFFICES ASSUME NetInv, [Next]_vars PROVE NetInv'
  OBVIOUS
<1>1. ASSUME NEW c \in Conns, Stack(c) PROVE NetInv'
  <2>1. CASE Refuse(c) \/ AcceptUnserved(c)
    BY <2>1, RefuseInv
  <2>2. CASE AcceptNoSlot(c)
    BY <2>2, AcceptNoSlotInv
  <2>3. CASE \E s \in Socks : Accept(c, s)
    BY <2>3, AcceptInv
  <2>4. CASE PeerCloses(c) \/ Fails(c)
    BY <2>4, ConnActionsInv
  <2>5. CASE EndsSilently(c) \/ Ends(c)
    BY <2>5, EndsInv
  <2>6. CASE ReachesCollected(c)
    BY <2>6, UndefinedInv DEF ReachesCollected
  <2> QED
    BY <1>1, <2>1, <2>2, <2>3, <2>4, <2>5, <2>6 DEF Stack
<1>2. CASE Script
  <2>1. CASE \E s \in Socks : Dns(s)
    BY <2>1, DnsInv
  <2>2. CASE \/ \E s \in Socks : Close(s)
             \/ CreateServer
    BY <2>2, ConnActionsInv
  <2>3. CASE \E s \in Socks, e \in Events, f \in Funs : On(s, e, f)
    BY <2>3, OnInv
  <2>4. CASE CloseServer
    BY <2>4, CloseServerInv
  <2>5. CASE \E f \in Funs : Listen(f)
    BY <2>5, ListenInv
  <2>6. CASE \E s \in Socks : OnAfterEnd(s)
    BY <2>6, UndefinedInv DEF OnAfterEnd
  <2> QED
    BY <1>2, <2>1, <2>2, <2>3, <2>4, <2>5, <2>6 DEF Script
<1>3. CASE Collector
  BY <1>3, CollectInv, ConnActionsInv DEF Collector
<1>4. CASE EndReturns \/ UsesFreedEspconn
  BY <1>4, EndReturnsInv, UndefinedInv DEF UsesFreedEspconn
<1>5. CASE UNCHANGED vars
  <2>1. UNCHANGED <<conn, fields, listen, listenTcp, registry, socket, socket_num,
                    tcpserver_cb_connect_ref, nud, remote, accepts, ending, undefined, own, inherited>>
    BY <1>5 DEF vars, espconnVars, netVars
  <2>2. NetTypes' /\ Owned' /\ Given' /\ Straight'
    BY <2>1 DEF NetInv, NetTypes, Owned, HasConn, Given, Tied, Straight
  <2> QED
    BY <2>1, <2>2, RefsUntouched DEF NetInv
<1> QED
  BY <1>1, <1>2, <1>3, <1>4, <1>5 DEF Next

LEMMA NetInvAlways == Spec => []NetInv
BY NetInvInit, NetInvStep, PTL DEF Spec

(* The tags RegistryExact gives to the holders. *)
Tag(h) == IF h[2] = "server" THEN <<"server", Held[h]>>
          ELSE IF h[2] = "self" THEN <<"self", Held[h], h[1]>>
          ELSE <<"cb", Held[h], h[1], h[2]>>

LEMMA TagKinds ==
    /\ Tag(Server) = <<"server", tcpserver_cb_connect_ref>> /\ Held[Server] = tcpserver_cb_connect_ref
    /\ \A s \in Socks : /\ Tag(Holder(s, "self")) = <<"self", nud[s].self_ref, s>>
                        /\ Held[Holder(s, "self")] = nud[s].self_ref
    /\ \A s \in Socks, e \in Events : /\ Tag(Holder(s, e)) = <<"cb", nud[s].cb[e], s, e>>
                                      /\ Held[Holder(s, e)] = nud[s].cb[e]
<1>1. Server[2] = "server" /\ Held[Server] = tcpserver_cb_connect_ref
  BY HolderKinds DEF Server, Held
<1>2. ASSUME NEW s \in Socks
      PROVE  /\ Tag(Holder(s, "self")) = <<"self", nud[s].self_ref, s>>
             /\ Held[Holder(s, "self")] = nud[s].self_ref
  <2>1. Held[Holder(s, "self")] = nud[s].self_ref
    BY HolderKinds DEF Holder, Held
  <2>2. Holder(s, "self")[1] = s /\ Holder(s, "self")[2] = "self"
    BY DEF Holder
  <2> QED
    BY <2>1, <2>2 DEF Tag
<1>3. ASSUME NEW s \in Socks, NEW e \in Events
      PROVE  /\ Tag(Holder(s, e)) = <<"cb", nud[s].cb[e], s, e>>
             /\ Held[Holder(s, e)] = nud[s].cb[e]
  <2>1. Held[Holder(s, e)] = nud[s].cb[e]
    BY HolderKinds DEF Holder, Held
  <2>2. Holder(s, e)[1] = s /\ Holder(s, e)[2] = e /\ e # "self" /\ e # "server"
    BY NetAssumption DEF Holder
  <2> QED
    BY <2>1, <2>2 DEF Tag
<1> QED
  BY <1>1, <1>2, <1>3 DEF Tag

LEMMA BalancedExact == NetInv => RegistryExact
<1> SUFFICES ASSUME NetInv PROVE RegistryExact
  OBVIOUS
<1> DEFINE A == {<<"server", tcpserver_cb_connect_ref>>}
           B == {<<"self", nud[s].self_ref, s>> : s \in Socks}
           C == UNION {{<<"cb", nud[s].cb[e], s, e>> : e \in Events} : s \in Socks}
           P == {p \in A \union B \union C : p[2] # NOREF}
<1>1. ASSUME NEW p \in P PROVE p[2] # NOREF /\ \E h \in Holders : Held[h] = p[2] /\ p = Tag(h)
  <2>1. CASE p \in A
    <3>1. p = Tag(Server) /\ p[2] = Held[Server]
      BY <2>1, TagKinds
    <3>2. Server \in Holders
      BY HolderKinds
    <3> QED
      BY <3>1, <3>2, <1>1
  <2>2. CASE p \in B
    <3>1. PICK s \in Socks : p = <<"self", nud[s].self_ref, s>>
      BY <2>2
    <3>2. Holder(s, "self") \in Holders
      BY HolderKinds DEF Holder
    <3>3. p = Tag(Holder(s, "self")) /\ p[2] = Held[Holder(s, "self")]
      BY <3>1, TagKinds
    <3> QED
      BY <3>2, <3>3, <1>1
  <2>3. CASE p \in C
    <3>1. PICK s \in Socks, e \in Events : p = <<"cb", nud[s].cb[e], s, e>>
      BY <2>3
    <3>2. Holder(s, e) \in Holders
      BY HolderKinds DEF Holder
    <3>3. p = Tag(Holder(s, e)) /\ p[2] = Held[Holder(s, e)]
      BY <3>1, TagKinds
    <3> QED
      BY <3>2, <3>3, <1>1
  <2> QED
    BY <1>1, <2>1, <2>2, <2>3
<1>2. ASSUME NEW h \in Holders, Held[h] # NOREF PROVE Tag(h) \in P /\ Tag(h)[2] = Held[h]
  <2>1. CASE h = Server
    BY <1>2, <2>1, TagKinds
  <2>2. ASSUME NEW s \in Socks, h = Holder(s, "self") PROVE Tag(h) \in P /\ Tag(h)[2] = Held[h]
    BY <1>2, <2>2, TagKinds
  <2>3. ASSUME NEW s \in Socks, NEW e \in Events, h = Holder(s, e)
        PROVE  Tag(h) \in P /\ Tag(h)[2] = Held[h]
    <3>1. Tag(h) = <<"cb", nud[s].cb[e], s, e>> /\ Held[h] = nud[s].cb[e]
      BY <2>3, TagKinds
    <3>2. <<"cb", nud[s].cb[e], s, e>> \in C
      OBVIOUS
    <3> QED
      BY <1>2, <3>1, <3>2
  <2> QED
    BY <2>1, <2>2, <2>3, HolderKinds DEF Holder
<1>3. RegistryExact = RefsExact(P)
  BY DEF RegistryExact
<1> HIDE DEF P
<1>4. /\ \A h, k \in Holders : Held[h] = Held[k] /\ Held[h] # NOREF => h = k
      /\ \A h \in Holders : Held[h] # NOREF => Held[h] \in Values(registry)
      /\ \A n \in Values(registry) : \E h \in Holders : Held[h] = n
      /\ NOREF \notin Values(registry)
  BY HolderKinds, NorefNoSlot DEF NetInv, NetBalanced, Balanced, HeldBy, Held
<1>5. \A p, q \in P : p[2] = q[2] => p = q
  BY <1>1, <1>4
<1>6. \A p \in P : p[2] \in DOMAIN registry.slots /\ Found(registry, p[2])[1] = "value"
  BY <1>1, <1>4 DEF Values, Found
<1>7. \A i \in DOMAIN registry.slots : registry.slots[i][1] = "value" => \E p \in P : p[2] = i
  <2> SUFFICES ASSUME NEW i \in Values(registry) PROVE \E p \in P : p[2] = i
    BY DEF Values
  <2>1. PICK h \in Holders : Held[h] = i /\ Held[h] # NOREF
    BY <1>4
  <2> QED
    BY <2>1, <1>2
<1> QED
  BY <1>3, <1>5, <1>6, <1>7 DEF RefsExact

(* The luaL_ref and luaL_unref calls of net.c balance over any life of     *)
(* any number of sockets and servers: every reference is in use by one     *)
(* holder only, finds a value, and none is lost.                           *)
THEOREM NetReferences == Spec => []RegistryExact
BY NetInvAlways, BalancedExact, PTL

(* The static array socket[] and the userdata have the same references,    *)
(* and socket_num counts them, although socket:dns() renews the reference  *)
(* in the userdata alone.                                                  *)
THEOREM SocketArray == Spec => []SlotsExact
<1>1. NetInv => SlotsExact
  <2> SUFFICES ASSUME NetInv PROVE SlotsExact
    OBVIOUS
  <2> DEFINE used == Slots \ EmptySlots
  <2>1. \A i \in Slots : i \in used <=> socket[i] # NOREF
    BY DEF EmptySlots
  <2>2. \A i, j \in used : socket[i] = socket[j] => i = j
    BY <2>1 DEF NetInv, SlotsAgree
  <2>3. ASSUME NEW x PROVE x \in {socket[i] : i \in used} <=> x \in {nud[s].self_ref : s \in Socks} \ {NOREF}
    <3>1. ASSUME x \in {socket[i] : i \in used} PROVE x \in {nud[s].self_ref : s \in Socks} \ {NOREF}
      <4>1. PICK i \in used : x = socket[i]
        BY <3>1
      <4>2. PICK s \in Socks : nud[s].self_ref = socket[i]
        BY <2>1, <4>1 DEF NetInv, SlotsAgree
      <4> QED
        BY <2>1, <4>1, <4>2
    <3>2. ASSUME x \in {nud[s].self_ref : s \in Socks} \ {NOREF} PROVE x \in {socket[i] : i \in used}
      <4>1. PICK s \in Socks : x = nud[s].self_ref /\ x # NOREF
        BY <3>2
      <4>2. PICK i \in Slots : socket[i] = x
        BY <4>1 DEF NetInv, SlotsAgree
      <4> QED
        BY <2>1, <4>1, <4>2
    <3> QED
      BY <3>1, <3>2
  <2>4. {socket[i] : i \in used} = {nud[s].self_ref : s \in Socks} \ {NOREF}
    BY <2>3
  <2>5. socket_num = Cardinality(used)
    BY DEF NetInv, SlotsAgree
  <2> QED
    BY <2>2, <2>4, <2>5 DEF SlotsExact
<1> QED
  BY <1>1, NetInvAlways, PTL

(* A connection and the userdata it was given stay together until the end  *)
(* of the connection is reported, for any number of connections, sockets   *)
(* and reused addresses, although all reports come through the one         *)
(* listening espconn, whose reverse pointer may lead to a userdata that    *)
(* was collected.  Where a connection without a userdata inherits that     *)
(* pointer it may release somebody else's; then the other's connection     *)
(* reaches nothing any more.                                               *)
THEOREM SocketAndConnection == Spec => []OwnSocket
<1>1. NetInv => OwnSocket
  <2> SUFFICES ASSUME NetInv PROVE OwnSocket
    OBVIOUS
  <2>1. ASSUME NEW s \in Socks, nud[s].state = "live"
        PROVE  IF nud[s].self_ref # NOREF
               THEN /\ Found(registry, nud[s].self_ref) = <<"value", s>>
                    /\ ending # s => conn[nud[s].pesp_conn] # "free" /\ own[nud[s].pesp_conn] = s
               ELSE nud[s].pesp_conn = NULL /\ ~Rooted(registry, s)
    <3>1. CASE nud[s].self_ref # NOREF
      BY <3>1, SelvesHeld DEF NetInv, Owned, HasConn, Found
    <3>2. CASE nud[s].self_ref = NOREF
      BY <3>2, RootedSelf DEF NetInv, SocketLife
    <3> QED
      BY <3>1, <3>2
  <2>2. ASSUME NEW c \in Conns, own[c] # NULL
        PROVE  \/ /\ fields[c] = [reverse |-> own[c], callbacks |-> TRUE]
                  /\ nud[own[c]].state = "live" /\ nud[own[c]].pesp_conn = c
                  /\ nud[own[c]].self_ref # NOREF
               \/ inherited /\ fields[c].reverse = NULL
    <3>1. own[c] \in Socks /\ nud[own[c]] \in Userdata /\ NoSocket.self_ref = NOREF
      BY <2>2 DEF NetInv, NetTypes, NoSocket
    <3>2. nud[own[c]].self_ref # NOREF => nud[own[c]].state = "live"
      BY <3>1 DEF NetInv, SocketLife, Userdata
    <3> QED
      BY <2>2, <3>2 DEF NetInv, Given, Tied
  <2> QED
    BY <2>1, <2>2 DEF OwnSocket
<1> QED
  BY <1>1, NetInvAlways, PTL

(* The variables of net.c and of espconn keep their types: references are  *)
(* slots of the registry, and socket_num never leaves the array.           *)
THEOREM NetTypesKept == Spec => []TypeOK
<1>1. NetInv => TypeOK
  <2> SUFFICES ASSUME NetInv PROVE TypeOK
    OBVIOUS
  <2>1. \A h \in Holders : Held[h] \in Refs
    BY HolderKinds DEF NetInv, NetBalanced, Balanced, HeldBy, Held, Values, Refs
  <2>2. tcpserver_cb_connect_ref \in Refs
    BY <2>1, HolderKinds, TagKinds
  <2>3. \A s \in Socks : nud[s].self_ref \in Refs /\ \A e \in Events : nud[s].cb[e] \in Refs
    <3>1. \A s \in Socks : Holder(s, "self") \in Holders /\ \A e \in Events : Holder(s, e) \in Holders
      BY HolderKinds DEF Holder
    <3> QED
      BY <2>1, <3>1, TagKinds
  <2>4. nud \in [Socks -> [pesp_conn : Conns \cup {NULL}, self_ref : Refs,
                           cb : [Events -> Refs], state : {"free", "live"}]]
    <3>1. nud \in [Socks -> Userdata]
      BY DEF NetInv, NetTypes
    <3>2. ASSUME NEW s \in Socks
          PROVE  nud[s] \in [pesp_conn : Conns \cup {NULL}, self_ref : Refs,
                             cb : [Events -> Refs], state : {"free", "live"}]
      <4>1. nud[s].cb \in [Events -> Refs]
        <5>1. nud[s].cb \in [Events -> MaybeRef]
          BY <3>1 DEF Userdata
        <5> QED
          BY <5>1, <2>3
      <4> QED
        BY <4>1, <2>3, <3>1 DEF Userdata
    <3> QED
      BY <3>1, <3>2
  <2>5. \A i \in Slots : socket[i] \in Refs
    <3>1. \A i \in Slots : socket[i] # NOREF => socket[i] \in Refs
      BY <2>3 DEF NetInv, SlotsAgree
    <3> QED
      BY <3>1 DEF Refs
  <2>6. socket \in [Slots -> Refs]
    BY <2>5 DEF NetInv, NetTypes
  <2>7. socket_num \in 0..MAX_SOCKET
    <3>1. IsFiniteSet(Slots) /\ Cardinality(Slots) = MAX_SOCKET
      BY FS_Interval, NetAssumption DEF Slots
    <3>2. Cardinality(Slots \ EmptySlots) \in Nat /\ Cardinality(Slots \ EmptySlots) <= Cardinality(Slots)
      BY <3>1, SlotsFinite, FS_Subset
    <3> QED
      BY <3>1, <3>2, NetAssumption DEF NetInv, SlotsAgree
  <2> QED
    BY <2>2, <2>4, <2>6, <2>7 DEF NetInv, NetTypes, TypeOK, SocketFields
<1> QED
  BY <1>1, NetInvAlways, PTL
=============================================================================
