------------------------- MODULE FileServerProofs ------------------------
(***************************************************************************)
(* Proofs about the file server, for every buffer size, every set of       *)
(* scripts and payloads, and every way TCP cuts them into segments.  The   *)
(* first part is about the client slot, the second about types, the third  *)
(* about the stream of commands: what is in the buffer, in the segment and *)
(* still to be sent continues the client's stream right behind the         *)
(* commands executed.  The fourth puts the upload tool before the server:  *)
(* together they implement Upload.                                         *)
(***************************************************************************)
EXTENDS FileTransfer, TLAPS, WellFoundedInduction

(* A set of naturals has a least element. *)
LEMMA LeastElement ==
    ASSUME NEW T, T \subseteq Nat, T # {}
    PROVE  \E i \in T : \A j \in T : i <= j
<1> DEFINE R == {ss \in Nat \X Nat : ss[1] < ss[2]}
<1>1. IsWellFoundedOn(R, Nat)
  BY NatLessThanWellFounded DEF OpToRel
<1>2. PICK i \in T : \A j \in T : <<j, i>> \notin R
  <2> HIDE DEF R
  <2> QED
    BY <1>1, WFMin
<1>3. ASSUME NEW j \in T PROVE i <= j
  <2>1. i \in Nat /\ j \in Nat /\ <<j, i>> \in Nat \X Nat
    OBVIOUS
  <2>2. ~(j < i)
    BY <2>1, <1>2
  <2> QED
    BY <2>1, <2>2
<1> QED
  BY <1>3

(* Induction over the naturals, for a set of them. *)
LEMMA SetInduction ==
    ASSUME NEW T, 0 \in T, \A n \in Nat : n \in T => n + 1 \in T
    PROVE  Nat \subseteq T
<1> DEFINE U == {n \in Nat : n \notin T}
<1>1. SUFFICES ASSUME U # {} PROVE FALSE
  OBVIOUS
<1>2. PICK i \in U : \A j \in U : i <= j
  <2>1. U \subseteq Nat
    OBVIOUS
  <2> HIDE DEF U
  <2> QED BY <1>1, <2>1, LeastElement
<1>3. i \in Nat /\ i # 0 /\ i - 1 \in Nat /\ (i - 1) + 1 = i
  BY <1>2
<1>4. i - 1 \in T
  BY <1>2, <1>3
<1>5. i \in T
  BY <1>3, <1>4
<1> QED
  BY <1>5

AtoiUpTo(s, f, n) ==
    f = [i \in 0..n |-> IF i = 0 THEN 0 ELSE 10 * f[i - 1] + Digits[s[i]]]

(* The function that Atoi defines by recursion exists. *)
LEMMA AtoiExists ==
    ASSUME NEW s
    PROVE  \A n \in Nat : \E f : AtoiUpTo(s, f, n)
<1> DEFINE T == {n \in Nat : \E f : AtoiUpTo(s, f, n)}
<1>1. 0 \in T
  <2>1. AtoiUpTo(s, [i \in 0..0 |-> 0], 0)
    BY DEF AtoiUpTo
  <2> QED BY <2>1
<1>2. ASSUME NEW n \in Nat, n \in T PROVE n + 1 \in T
  <2>1. PICK f : AtoiUpTo(s, f, n)
    BY <1>2
  <2> DEFINE g == [i \in 0..(n + 1) |-> IF i = n + 1 THEN 10 * f[n] + Digits[s[n + 1]] ELSE f[i]]
  <2>2. \A i \in 0..n : f[i] = IF i = 0 THEN 0 ELSE 10 * f[i - 1] + Digits[s[i]]
    BY <2>1 DEF AtoiUpTo
  <2>3. \A i \in 0..(n+1) : g[i] = IF i = 0 THEN 0 ELSE 10 * g[i - 1] + Digits[s[i]]
    BY <2>2
  <2>4. AtoiUpTo(s, g, n + 1)
    <3>1. g = [i \in 0..(n + 1) |-> g[i]]
      OBVIOUS
    <3> HIDE DEF g
    <3> QED BY <2>3, <3>1 DEF AtoiUpTo
  <2> QED BY <2>4
<1>3. Nat \subseteq T
  <2> HIDE DEF T
  <2> QED BY <1>1, <1>2, SetInduction
<1> QED BY <1>3

(* atoi never yields a negative number. *)
LEMMA AtoiNat ==
    ASSUME NEW S, NEW s \in Seq(S)
    PROVE  Atoi(s) \in Nat
<1> USE FileServerAssumption
<1> DEFINE value == CHOOSE f : f = [i \in 0..Len(s) |-> IF i = 0 THEN 0 ELSE 10 * f[i - 1] + Digits[s[i]]]
<1>1. \E f : f = [i \in 0..Len(s) |-> IF i = 0 THEN 0 ELSE 10 * f[i - 1] + Digits[s[i]]]
  BY AtoiExists DEF AtoiUpTo
<1>2. value = [i \in 0..Len(s) |-> IF i = 0 THEN 0 ELSE 10 * value[i - 1] + Digits[s[i]]]
  BY <1>1
<1>3. Atoi(s) = IF \A i \in 1..Len(s) : s[i] \in DOMAIN Digits THEN value[Len(s)] ELSE 0
  BY DEF Atoi
<1> HIDE DEF value
<1>4. SUFFICES ASSUME \A i \in 1..Len(s) : s[i] \in DOMAIN Digits PROVE value[Len(s)] \in Nat
  BY <1>3
<1> DEFINE T == {n \in Nat : n \in 0..Len(s) => value[n] \in Nat}
<1>5. 0 \in T
  BY <1>2
<1>6. ASSUME NEW n \in Nat, n \in T PROVE n + 1 \in T
  <2> SUFFICES ASSUME n + 1 \in 0..Len(s) PROVE value[n + 1] \in Nat
    OBVIOUS
  <2>1. n \in 0..Len(s) /\ n + 1 \in 1..Len(s) /\ value[n] \in Nat
    BY <1>6
  <2>2. value[n + 1] = 10 * value[n] + Digits[s[n + 1]]
    BY <1>2, <2>1
  <2>3. Digits[s[n + 1]] \in Nat
    BY <2>1, <1>4
  <2> QED
    BY <2>1, <2>2, <2>3
<1>7. Nat \subseteq T
  <2> HIDE DEF T
  <2> QED BY <1>5, <1>6, SetInduction
<1> QED BY <1>7

-----------------------------------------------------------------------------
(* What keeps the slot, its connection and the running handler together.   *)
SlotTypes ==
    /\ EspconnTypeOK
    /\ g_pServer \in BOOLEAN /\ lineBusy \in BOOLEAN /\ faulted \in BOOLEAN
    /\ m_pClient \in Conns \union {NoClient}
    /\ handling \in Conns \union {NoClient}
    /\ opener \in Conns \union {NoClient}
    /\ connects \in Nat

(* The connection in the slot has its callbacks, so its end frees the      *)
(* slot; only its data is handled, and never after a fault.                *)
SlotServed ==
    /\ m_pClient # NoClient => fields[m_pClient].callbacks
    /\ handling # NoClient => handling = m_pClient /\ ~faulted
    /\ handling = NoClient <=> pending = <<>>

SlotInv == SlotTypes /\ SlotMatches /\ SlotServed /\ FreshSlot /\ FileOfClient

(* What a run of fs_data_received may change outside the parser.           *)
LEMMA HandlerShape ==
    ASSUME Handler
    PROVE  /\ handling # NoClient
           /\ UNCHANGED <<fields, listen, listenTcp, g_pServer, m_pClient, lineBusy, client, faulted>>
           /\ conn' = conn \/ Disconnect(handling)
           /\ \/ file_fd' = NoFile /\ opener' = NoClient
              \/ opener' = handling
              \/ UNCHANGED <<file_fd, opener>>
           /\ \E rest : Continue(rest)
<1> DEFINE b == Filled
           h == Parsed(b)
<1> HIDE DEF b, h
<1>1. handling # NoClient
  BY DEF Handler
<1>2. ASSUME NEW ok, Answer(b, h, ok)
      PROVE  /\ UNCHANGED <<fields, listen, listenTcp, g_pServer, m_pClient, lineBusy, client, faulted>>
             /\ conn' = conn \/ Disconnect(handling)
             /\ \E rest : Continue(rest)
  BY <1>2 DEF Answer
<1>3. CASE DataNoRoom
  BY <1>1, <1>3 DEF DataNoRoom, storage
<1>4. CASE DataNoHeader(b, h)
  BY <1>1, <1>4 DEF DataNoHeader, storage, espconnVars
<1>5. CASE DataIncomplete(b, h)
  BY <1>1, <1>5 DEF DataIncomplete, storage, espconnVars
<1>6. CASE OpenFile(b, h)
  BY <1>1, <1>2, <1>6 DEF OpenFile
<1>7. CASE WriteFile(b, h)
  BY <1>1, <1>2, <1>7 DEF WriteFile
<1>8. CASE CloseFile(b, h)
  BY <1>1, <1>2, <1>8 DEF CloseFile
<1>9. CASE RunLua(b, h)
  BY <1>1, <1>2, <1>9 DEF RunLua, storage
<1>10. CASE UnknownCommand(b, h)
  BY <1>1, <1>2, <1>10 DEF UnknownCommand, storage
<1> QED
  BY <1>3, <1>4, <1>5, <1>6, <1>7, <1>8, <1>9, <1>10 DEF Handler, b, h

(* A server that was just started. *)
LEMMA SlotInitially == Init => SlotInv
<1> SUFFICES ASSUME Init PROVE SlotInv
  OBVIOUS
<1> USE FileServerAssumption
<1>1. SlotTypes
  BY DEF Init, EspconnInit, SlotTypes, EspconnTypeOK, Fields, NoFields
<1>2. SlotMatches
  BY DEF Init, EspconnInit, SlotMatches
<1>3. SlotServed /\ FreshSlot /\ FileOfClient
  BY DEF Init, SlotServed, FreshSlot, FileOfClient
<1> QED
  BY <1>1, <1>2, <1>3 DEF SlotInv

(* A client connects: it takes the free slot or is sent away. *)
LEMMA SlotAccept ==
    ASSUME SlotInv, NEW c \in Conns, NEW sc, NEW bytes, Accept(c, sc, bytes)
    PROVE  SlotInv'
<1> USE FileServerAssumption
<1>0. c # NoClient /\ conn[c] = "free" /\ m_pClient # c /\ handling = NoClient /\ ~faulted
  BY DEF Accept, Quiet, SlotInv, SlotMatches
<1>1. CASE ~(listenTcp /\ g_pServer)
  <2>1. /\ faulted' = TRUE /\ connects' = connects + 1
        /\ UNCHANGED <<conn, fields, listen, listenTcp, m_pClient, g_pServer, lineBusy, handling, pending>>
        /\ UNCHANGED <<m_DataBuffer, m_ReadPoint, m_Payload, m_State, m_Command, file_fd, opener>>
    BY <1>1 DEF Accept, espconnVars, parser, storage
  <2>2. SlotTypes'
    BY <2>1 DEF SlotInv, SlotTypes, EspconnTypeOK
  <2>3. SlotMatches'
    BY <2>1 DEF SlotInv, SlotMatches
  <2>4. (SlotServed /\ FreshSlot /\ FileOfClient)'
    BY <1>0, <2>1 DEF SlotInv, SlotServed, FreshSlot, FileOfClient
  <2> QED
    BY <2>2, <2>3, <2>4 DEF SlotInv
<1>2. CASE listenTcp /\ g_pServer
  <2> DEFINE f == IF m_pClient # NoClient THEN [reverse |-> FALSE, callbacks |-> listen.callbacks]
                  ELSE [reverse |-> TRUE, callbacks |-> TRUE]
             st == IF m_pClient # NoClient THEN "closing" ELSE "open"
  <2>1. /\ conn' = [conn EXCEPT ![c] = st] /\ fields' = [fields EXCEPT ![c] = f]
        /\ UNCHANGED <<listen, listenTcp>>
        /\ m_pClient' = IF m_pClient # NoClient THEN m_pClient ELSE c
    BY <1>2 DEF Accept, ClientConnected, AcceptAs
  <2>2. /\ connects' = connects + 1
        /\ UNCHANGED <<faulted, g_pServer, lineBusy, handling, pending>>
        /\ UNCHANGED <<m_DataBuffer, m_ReadPoint, m_Payload, m_State, m_Command, file_fd, opener>>
    BY <1>2 DEF Accept, parser, storage
  <2>3. f \in Fields /\ (f.reverse <=> m_pClient = NoClient) /\ (m_pClient = NoClient => f.callbacks)
    BY DEF SlotInv, SlotTypes, EspconnTypeOK, Fields
  <2>4. st \in {"free", "open", "closing", "failed"} /\ st # "free"
    OBVIOUS
  <2> HIDE DEF f, st
  <2>5. SlotTypes'
    BY <2>1, <2>2, <2>3, <2>4 DEF SlotInv, SlotTypes, EspconnTypeOK
  <2>6. SlotMatches'
    <3> SUFFICES ASSUME NEW d \in Conns PROVE m_pClient' = d <=> conn'[d] # "free" /\ fields'[d].reverse
      BY DEF SlotMatches
    <3>1. conn \in [Conns -> {"free", "open", "closing", "failed"}] /\ fields \in [Conns -> Fields]
      BY DEF SlotInv, SlotTypes, EspconnTypeOK
    <3>2. m_pClient = d <=> conn[d] # "free" /\ fields[d].reverse
      BY DEF SlotInv, SlotMatches
    <3>3. CASE d = c
      <4>1. conn'[d] # "free" /\ fields'[d] = f
        BY <2>1, <2>4, <3>1, <3>3
      <4>2. m_pClient' = d <=> m_pClient = NoClient
        BY <1>0, <2>1, <3>3
      <4> QED
        BY <2>3, <4>1, <4>2
    <3>4. CASE d # c
      <4>1. conn'[d] = conn[d] /\ fields'[d] = fields[d]
        BY <2>1, <3>1, <3>4
      <4>2. m_pClient' = d <=> m_pClient = d
        BY <2>1, <3>4
      <4> QED
        BY <3>2, <4>1, <4>2
    <3> QED
      BY <3>3, <3>4
  <2>7. SlotServed'
    BY <1>0, <2>1, <2>2, <2>3 DEF SlotInv, SlotTypes, EspconnTypeOK, SlotServed
  <2>8. (FreshSlot /\ FileOfClient)'
    BY <1>0, <2>1, <2>2 DEF SlotInv, FreshSlot, FileOfClient
  <2> QED
    BY <2>5, <2>6, <2>7, <2>8 DEF SlotInv
<1> QED
  BY <1>1, <1>2

(* The peer closes, or the connection idles too long. *)
LEMMA SlotClose ==
    ASSUME SlotInv, NEW c \in Conns, CloseConn(c)
    PROVE  SlotInv'
  BY DEF CloseConn, ServerClose, SlotInv, SlotTypes, EspconnTypeOK, SlotMatches, SlotServed, FreshSlot,
      FileOfClient, parser, storage, client

(* The connection is reset. *)
LEMMA SlotFail ==
    ASSUME SlotInv, NEW c \in Conns, FailConn(c)
    PROVE  SlotInv'
  BY DEF FailConn, ServerErr, SlotInv, SlotTypes, EspconnTypeOK, SlotMatches, SlotServed, FreshSlot,
      FileOfClient, parser, storage, client

(* espconn frees a connection and calls fs_client_disconnected. *)
LEMMA SlotEnd ==
    ASSUME SlotInv, NEW c \in Conns, EndConn(c)
    PROVE  SlotInv'
<1> USE FileServerAssumption
<1>0. handling = NoClient /\ ~faulted /\ UNCHANGED <<g_pServer, lineBusy, handling, pending, client, log>>
      /\ c # NoClient
  BY DEF EndConn, Quiet
<1>1. CASE ~listenTcp
  BY <1>0, <1>1 DEF EndConn, SlotInv, SlotTypes, EspconnTypeOK, SlotMatches, SlotServed, FreshSlot,
      FileOfClient, espconnVars, parser, storage, client
<1>2. CASE listenTcp
  <2>1. ClientDisconnected(c) /\ UNCHANGED faulted
    BY <1>2 DEF EndConn
  <2>2. conn[c] # "free" /\ fields[c] \in Fields
    BY <2>1 DEF ClientDisconnected, EndOf, SlotInv, SlotTypes, EspconnTypeOK
  <2>3. fields[c].reverse \in BOOLEAN /\ fields[c].callbacks \in BOOLEAN
    BY <2>2 DEF Fields
  <2> DEFINE served == fields[c].reverse /\ fields[c].callbacks
  <2>4. served <=> m_pClient = c
    BY <1>0, <2>2, <2>3 DEF SlotInv, SlotMatches, SlotServed
  <2>5. /\ conn' = [conn EXCEPT ![c] = "free"] /\ fields' = [fields EXCEPT ![c] = NoFields]
        /\ listen' \in Fields /\ UNCHANGED listenTcp
    <3>1. EndOf(c, FALSE) \/ EndOf(c, fields[c].reverse)
      BY <2>1 DEF ClientDisconnected
    <3>2. [reverse |-> FALSE, callbacks |-> fields[c].callbacks] \in Fields
      BY <2>3 DEF Fields
    <3>3. [reverse |-> fields[c].reverse, callbacks |-> fields[c].callbacks] \in Fields
      BY <2>3 DEF Fields
    <3> QED
      BY <3>1, <3>2, <3>3 DEF EndOf
  <2>6. IF served THEN /\ m_pClient' = NoClient /\ file_fd' = NoFile /\ opener' = NoClient
                       /\ m_DataBuffer' = <<>> /\ m_ReadPoint' = 0 /\ m_Payload' = 0
                       /\ m_State' = "NO_COMMAND" /\ m_Command' = IDLE
        ELSE UNCHANGED <<m_pClient, file_fd, opener, m_DataBuffer, m_ReadPoint, m_Payload, m_State, m_Command>>
    BY <2>1 DEF ClientDisconnected, parser, storage
  <2> HIDE DEF served
  <2>7. SlotTypes'
    BY <1>0, <2>1, <2>5, <2>6 DEF SlotInv, SlotTypes, EspconnTypeOK, NoFields, Fields, client
  <2>8. SlotMatches'
    BY <1>0, <2>4, <2>5, <2>6 DEF SlotInv, SlotTypes, EspconnTypeOK, SlotMatches
  <2>9. SlotServed'
    BY <1>0, <2>1, <2>4, <2>5, <2>6 DEF SlotInv, SlotTypes, EspconnTypeOK, SlotServed
  <2>10. (FreshSlot /\ FileOfClient)'
    BY <2>6 DEF SlotInv, FreshSlot, FileOfClient
  <2> QED
    BY <2>7, <2>8, <2>9, <2>10 DEF SlotInv
<1> QED
  BY <1>1, <1>2

(* A segment arrives: only the client in the slot is served. *)
LEMMA SlotReceive ==
    ASSUME SlotInv, NEW c \in Conns, NEW n \in 1..Len(tosend[c]), Receive(c, n), Len(tosend[c]) \in Nat,
           tosend[c] \in Seq(Bytes)
    PROVE  SlotInv'
<1> USE FileServerAssumption
<1>1. /\ handling = NoClient /\ ~faulted /\ conn[c] = "open"
      /\ UNCHANGED <<conn, fields, listen, listenTcp, m_pClient, g_pServer, lineBusy, connects, faulted>>
      /\ UNCHANGED <<m_DataBuffer, m_ReadPoint, m_Payload, m_State, m_Command, file_fd, opener>>
  BY DEF Receive, Quiet, espconnVars, parser, storage
<1>2. SubSeq(tosend[c], 1, n) # <<>>
  OBVIOUS
<1>3. \/ handling' = c /\ pending' # <<>> /\ fields[c].reverse
      \/ UNCHANGED <<handling, pending>>
  BY <1>2 DEF Receive
<1>4. handling' # NoClient => handling' = m_pClient
  BY <1>1, <1>3 DEF SlotInv, SlotMatches
<1>5. SlotTypes'
  BY <1>1, <1>3 DEF SlotInv, SlotTypes, EspconnTypeOK
<1>6. SlotMatches'
  BY <1>1 DEF SlotInv, SlotMatches
<1>7. (SlotServed /\ FreshSlot /\ FileOfClient)'
  BY <1>1, <1>3, <1>4 DEF SlotInv, SlotServed, FreshSlot, FileOfClient
<1> QED
  BY <1>5, <1>6, <1>7 DEF SlotInv

(* A run of fs_data_received leaves the slot alone. *)
LEMMA SlotHandler ==
    ASSUME SlotInv, Handler
    PROVE  SlotInv'
<1> USE FileServerAssumption
<1>1. /\ handling # NoClient /\ handling = m_pClient /\ ~faulted /\ m_pClient \in Conns
      /\ UNCHANGED <<fields, listen, listenTcp, g_pServer, m_pClient, lineBusy, connects, faulted>>
  BY HandlerShape DEF SlotInv, SlotTypes, SlotServed, client
<1>2. conn' \in [Conns -> {"free", "open", "closing", "failed"}] /\ \A c \in Conns : conn'[c] = "free" <=> conn[c] = "free"
  BY <1>1, HandlerShape DEF Disconnect, SlotInv, SlotTypes, EspconnTypeOK
<1>3. handling' \in {handling, NoClient} /\ (handling' = NoClient <=> pending' = <<>>)
  BY <1>1, HandlerShape DEF Continue
<1>4. SlotTypes'
  BY <1>1, <1>2, <1>3, HandlerShape DEF SlotInv, SlotTypes, EspconnTypeOK
<1>5. SlotMatches'
  BY <1>1, <1>2 DEF SlotInv, SlotMatches
<1>6. SlotServed' /\ FreshSlot'
  BY <1>1, <1>3 DEF SlotInv, SlotServed, FreshSlot
<1>7. FileOfClient'
  BY <1>1, HandlerShape DEF SlotInv, FileOfClient
<1> QED
  BY <1>4, <1>5, <1>6, <1>7 DEF SlotInv

(* The console, stop() and a restart. *)
LEMMA SlotRest ==
    ASSUME SlotInv, Console \/ Stop \/ Restart
    PROVE  SlotInv'
<1> USE FileServerAssumption
<1>1. CASE Console
  BY <1>1 DEF Console, SlotInv, SlotTypes, EspconnTypeOK, SlotMatches, SlotServed, FreshSlot,
      FileOfClient, parser, storage, client, espconnVars
<1>2. CASE Stop
  BY <1>2 DEF Stop, SlotInv, SlotTypes, EspconnTypeOK, SlotMatches, SlotServed, FreshSlot,
      FileOfClient, parser, storage, client
<1>3. CASE Restart
  <2>1. SlotTypes'
    BY <1>3 DEF Restart, SlotInv, SlotTypes, EspconnTypeOK, Fields, NoFields
  <2>2. SlotMatches'
    BY <1>3 DEF Restart, SlotMatches
  <2>3. (SlotServed /\ FreshSlot /\ FileOfClient)'
    BY <1>3 DEF Restart, SlotInv, SlotServed, FreshSlot, FileOfClient
  <2> QED
    BY <2>1, <2>2, <2>3 DEF SlotInv
<1> QED
  BY <1>1, <1>2, <1>3

-----------------------------------------------------------------------------
(* The client's bytes.                                                     *)
CommandRecords == [command : Bytes, payload : Seq(Bytes)]

Printable(sc) == \A i \in 1..Len(sc) : DigitFor(Len(sc[i].payload)) \in Seq(DOMAIN Digits)

HeaderLen(p) == Len(DigitFor(Len(p.payload))) + 3

(* Two sequences of bytes, one behind the other. *)
LEMMA Concat ==
    ASSUME NEW s \in Seq(Bytes), NEW t \in Seq(Bytes)
    PROVE  /\ s \o t \in Seq(Bytes) /\ Len(s \o t) = Len(s) + Len(t)
           /\ Len(s) \in Nat /\ Len(t) \in Nat
           /\ \A i \in 1..Len(s) : (s \o t)[i] = s[i]
           /\ \A i \in 1..Len(t) : (s \o t)[Len(s) + i] = t[i]
<1>1. Len(s) \in Nat /\ Len(t) \in Nat /\ s \o t \in Seq(Bytes) /\ Len(s \o t) = Len(s) + Len(t)
  OBVIOUS
<1>2. \A i \in 1..Len(s) + Len(t) : (s \o t)[i] = IF i <= Len(s) THEN s[i] ELSE t[i - Len(s)]
  OBVIOUS
<1>3. ASSUME NEW i \in 1..Len(s) PROVE (s \o t)[i] = s[i]
  BY <1>1, <1>2
<1>4. ASSUME NEW i \in 1..Len(t) PROVE (s \o t)[Len(s) + i] = t[i]
  <2> DEFINE j == Len(s) + i
  <2>1. j \in 1..Len(s) + Len(t) /\ ~(j <= Len(s)) /\ j - Len(s) = i
    BY <1>1
  <2> HIDE DEF j
  <2>2. (s \o t)[j] = t[i]
    BY <1>2, <2>1
  <2> QED
    BY <2>2 DEF j
<1> QED
  BY <1>1, <1>3, <1>4

(* The bytes of one command, position by position. *)
LEMMA Encoded ==
    ASSUME NEW p \in CommandRecords, DigitFor(Len(p.payload)) \in Seq(DOMAIN Digits)
    PROVE  /\ Encode(p) \in Seq(Bytes) /\ HeaderLen(p) \in Nat /\ HeaderLen(p) >= 3
           /\ Len(Encode(p)) = HeaderLen(p) + Len(p.payload)
           /\ Encode(p)[1] = p.command /\ Encode(p)[2] = Sep
           /\ \A i \in 1..HeaderLen(p) - 3 : Encode(p)[i + 2] = DigitFor(Len(p.payload))[i]
           /\ Encode(p)[HeaderLen(p)] = Sep
           /\ \A i \in 1..Len(p.payload) : Encode(p)[HeaderLen(p) + i] = p.payload[i]
<1> DEFINE d == DigitFor(Len(p.payload))
           h == <<p.command, Sep>>
           x == h \o d
           y == x \o <<Sep>>
           z == y \o p.payload
<1>1. p.command \in Bytes /\ p.payload \in Seq(Bytes) /\ Sep \in Bytes /\ d \in Seq(Bytes) /\ d \in Seq(DOMAIN Digits)
  <2>1. d \in Seq(Bytes)
    <3>1. DOMAIN Digits \subseteq Bytes
      BY DEF Bytes
    <3> QED BY <3>1
  <2> QED
    BY <2>1 DEF CommandRecords, Bytes
<1>2. h \in Seq(Bytes) /\ Len(h) = 2 /\ h[1] = p.command /\ h[2] = Sep /\ <<Sep>> \in Seq(Bytes)
      /\ Len(<<Sep>>) = 1 /\ <<Sep>>[1] = Sep
  BY <1>1
<1>3. Encode(p) = z
  BY DEF Encode
<1>4. HeaderLen(p) = Len(d) + 3 /\ Len(d) \in Nat /\ Len(p.payload) \in Nat
  BY <1>1 DEF HeaderLen
<1> HIDE DEF h, d
<1>5. x \in Seq(Bytes) /\ Len(x) = 2 + Len(d) /\ x[1] = p.command /\ x[2] = Sep
      /\ (\A i \in 1..Len(d) : x[2 + i] = d[i])
  <2>0. h \in Seq(Bytes) /\ d \in Seq(Bytes) /\ x = h \o d
    BY <1>1, <1>2
  <2> HIDE DEF x
  <2>1. x \in Seq(Bytes) /\ Len(x) = Len(h) + Len(d) /\ (\A i \in 1..Len(h) : x[i] = h[i]) /\ (\A i \in 1..Len(d) : x[Len(h) + i] = d[i])
    BY <2>0, Concat
  <2> QED
    BY <1>2, <2>1
<1> HIDE DEF x
<1>6. y \in Seq(Bytes) /\ Len(y) = 3 + Len(d) /\ (\A i \in 1..Len(x) : y[i] = x[i]) /\ y[3 + Len(d)] = Sep
  <2> DEFINE q == <<Sep>>
  <2>1. y = x \o q /\ q \in Seq(Bytes) /\ Len(q) = 1 /\ q[1] = Sep /\ 1 \in 1..Len(q)
    BY <1>2
  <2> HIDE DEF q, y
  <2>2. y \in Seq(Bytes) /\ Len(y) = Len(x) + 1 /\ (\A i \in 1..Len(x) : y[i] = x[i]) /\ (\A i \in 1..Len(q) : y[Len(x) + i] = q[i])
    BY <1>5, <2>1, Concat
  <2>3. y[Len(x) + 1] = Sep /\ Len(x) + 1 = 3 + Len(d) /\ Len(y) = 3 + Len(d)
    BY <1>4, <1>5, <2>1, <2>2
  <2> QED
    BY <2>2, <2>3
<1> HIDE DEF y
<1>7. z \in Seq(Bytes) /\ Len(z) = Len(y) + Len(p.payload) /\ (\A i \in 1..Len(y) : z[i] = y[i])
      /\ (\A i \in 1..Len(p.payload) : z[Len(y) + i] = p.payload[i])
  BY <1>1, <1>6, Concat
<1> HIDE DEF z
<1>8. z[1] = p.command /\ z[2] = Sep /\ z[3 + Len(d)] = Sep
  <2>1. 1 \in 1..Len(y) /\ 2 \in 1..Len(y) /\ 3 + Len(d) \in 1..Len(y) /\ 1 \in 1..Len(x) /\ 2 \in 1..Len(x)
    BY <1>4, <1>5, <1>6
  <2>2. z[1] = y[1] /\ z[2] = y[2] /\ z[3 + Len(d)] = y[3 + Len(d)] /\ y[1] = x[1] /\ y[2] = x[2]
    BY <2>1, <1>6, <1>7
  <2> QED
    BY <2>2, <1>5, <1>6
<1>9. ASSUME NEW i \in 1..Len(d) PROVE z[i + 2] = d[i]
  <2>1. i + 2 \in 1..Len(y) /\ i + 2 \in 1..Len(x) /\ i + 2 = 2 + i
    BY <1>4, <1>5, <1>6
  <2>2. z[i + 2] = y[i + 2] /\ y[i + 2] = x[i + 2] /\ x[2 + i] = d[i]
    BY <2>1, <1>5, <1>6, <1>7
  <2> QED
    BY <2>1, <2>2
<1>10. HeaderLen(p) = Len(y) /\ HeaderLen(p) \in Nat /\ HeaderLen(p) >= 3 /\ HeaderLen(p) - 3 = Len(d) /\ HeaderLen(p) = 3 + Len(d)
  BY <1>4, <1>6
<1> HIDE DEF HeaderLen
<1>11. z[HeaderLen(p)] = Sep /\ \A i \in 1..Len(p.payload) : z[HeaderLen(p) + i] = p.payload[i]
  BY <1>7, <1>8, <1>10
<1>12. \A i \in 1..HeaderLen(p) - 3 : z[i + 2] = d[i]
  BY <1>9, <1>10
<1> QED
  BY <1>3, <1>7, <1>8, <1>10, <1>11, <1>12 DEF d

EncUpTo(sc, f, n) == f = [i \in 0..n |-> IF i = 0 THEN <<>> ELSE f[i - 1] \o Encode(sc[i])]

(* The function that Stream defines by recursion exists. *)
LEMMA EncExists ==
    ASSUME NEW sc
    PROVE  \A n \in Nat : \E f : EncUpTo(sc, f, n)
<1> DEFINE T == {n \in Nat : \E f : EncUpTo(sc, f, n)}
<1>1. 0 \in T
  <2>1. EncUpTo(sc, [i \in 0..0 |-> <<>>], 0)
    BY DEF EncUpTo
  <2> QED BY <2>1
<1>2. ASSUME NEW n \in Nat, n \in T PROVE n + 1 \in T
  <2>1. PICK f : EncUpTo(sc, f, n)
    BY <1>2
  <2> DEFINE g == [i \in 0..(n + 1) |-> IF i = n + 1 THEN f[n] \o Encode(sc[n + 1]) ELSE f[i]]
  <2>2. \A i \in 0..n : f[i] = IF i = 0 THEN <<>> ELSE f[i - 1] \o Encode(sc[i])
    BY <2>1 DEF EncUpTo
  <2>3. \A i \in 0..(n + 1) : g[i] = IF i = 0 THEN <<>> ELSE g[i - 1] \o Encode(sc[i])
    BY <2>2
  <2>4. EncUpTo(sc, g, n + 1)
    <3>1. g = [i \in 0..(n + 1) |-> g[i]]
      OBVIOUS
    <3> HIDE DEF g
    <3> QED BY <2>3, <3>1 DEF EncUpTo
  <2> QED BY <2>4
<1>3. Nat \subseteq T
  <2> HIDE DEF T
  <2> QED BY <1>1, <1>2, SetInduction
<1> QED BY <1>3

(* Enc(sc)[k]: the first k commands, encoded. *)
Enc(sc) == CHOOSE f : f = [i \in 0..Len(sc) |-> IF i = 0 THEN <<>> ELSE f[i - 1] \o Encode(sc[i])]

(* The stream is built command by command. *)
LEMMA StreamUnfolds ==
    ASSUME NEW sc \in Seq(CommandRecords), Printable(sc)
    PROVE  /\ Stream(sc) = Enc(sc)[Len(sc)]
           /\ Enc(sc)[0] = <<>>
           /\ \A k \in 0..Len(sc) - 1 : Enc(sc)[k + 1] = Enc(sc)[k] \o Encode(sc[k + 1])
           /\ \A k \in 0..Len(sc) : Enc(sc)[k] \in Seq(Bytes)
<1> DEFINE e == Enc(sc)
<1>1. \E f : f = [i \in 0..Len(sc) |-> IF i = 0 THEN <<>> ELSE f[i - 1] \o Encode(sc[i])]
  <2>1. Len(sc) \in Nat
    OBVIOUS
  <2> QED
    BY <2>1, EncExists DEF EncUpTo
<1>2. e = [i \in 0..Len(sc) |-> IF i = 0 THEN <<>> ELSE e[i - 1] \o Encode(sc[i])]
  BY <1>1 DEF Enc
<1>3. Stream(sc) = e[Len(sc)]
  BY DEF Stream, Enc
<1> HIDE DEF e
<1>4. e[0] = <<>> /\ \A k \in 0..Len(sc) - 1 : e[k + 1] = e[k] \o Encode(sc[k + 1])
  BY <1>2
<1>5. \A k \in 0..Len(sc) - 1 : Encode(sc[k + 1]) \in Seq(Bytes)
  BY Encoded DEF Printable
<1> DEFINE T == {n \in Nat : n \in 0..Len(sc) => e[n] \in Seq(Bytes)}
<1>6. 0 \in T
  <2>1. <<>> \in Seq(Bytes)
    OBVIOUS
  <2> QED
    BY <1>4, <2>1
<1>7. ASSUME NEW n \in Nat, n \in T PROVE n + 1 \in T
  <2> SUFFICES ASSUME n + 1 \in 0..Len(sc) PROVE e[n + 1] \in Seq(Bytes)
    OBVIOUS
  <2>1. n \in 0..Len(sc) - 1 /\ e[n] \in Seq(Bytes)
    BY <1>7
  <2>2. Encode(sc[n + 1]) \in Seq(Bytes) /\ e[n + 1] = e[n] \o Encode(sc[n + 1])
    BY <2>1, <1>4, <1>5
  <2> QED
    BY <2>1, <2>2, Concat
<1>8. Nat \subseteq T
  <2> HIDE DEF T
  <2> QED BY <1>6, <1>7, SetInduction
<1>9. \A k \in 0..Len(sc) : e[k] \in Seq(Bytes)
  BY <1>8
<1> QED
  BY <1>3, <1>4, <1>9 DEF e

(* The stream and its prefixes consist of bytes. *)
LEMMA StreamType ==
    ASSUME NEW sc \in Seq(CommandRecords), Printable(sc), NEW k \in 0..Len(sc)
    PROVE  /\ Enc(sc)[k] \in Seq(Bytes) /\ Len(Enc(sc)[k]) \in Nat
           /\ Stream(sc) \in Seq(Bytes) /\ Len(Stream(sc)) \in Nat
           /\ Stream(sc) = Enc(sc)[Len(sc)]
<1> DEFINE e == Enc(sc)
           w == Stream(sc)
<1>1. Len(sc) \in 0..Len(sc)
  OBVIOUS
<1>2. w = e[Len(sc)] /\ \A j \in 0..Len(sc) : e[j] \in Seq(Bytes)
  BY StreamUnfolds
<1> HIDE DEF e, w
<1>3. e[k] \in Seq(Bytes) /\ w \in Seq(Bytes)
  BY <1>1, <1>2
<1> QED
  BY <1>2, <1>3 DEF e, w

(* The encoding of the first commands is a prefix of the stream. *)
LEMMA EncPrefix ==
    ASSUME NEW sc \in Seq(CommandRecords), Printable(sc), NEW k \in 0..Len(sc)
    PROVE  /\ Len(Enc(sc)[k]) <= Len(Stream(sc))
           /\ \A i \in 1..Len(Enc(sc)[k]) : Stream(sc)[i] = Enc(sc)[k][i]
<1> DEFINE e == Enc(sc)
           P(m) == /\ Len(e[k]) <= Len(e[m])
                   /\ \A i \in 1..Len(e[k]) : e[m][i] = e[k][i]
           T == {m \in Nat : k + m \in 0..Len(sc) => P(k + m)}
<1>1. /\ Stream(sc) = e[Len(sc)]
      /\ \A m \in 0..Len(sc) - 1 : e[m + 1] = e[m] \o Encode(sc[m + 1])
      /\ \A m \in 0..Len(sc) : e[m] \in Seq(Bytes)
  BY StreamUnfolds
<1>2. \A m \in 0..Len(sc) - 1 : Encode(sc[m + 1]) \in Seq(Bytes)
  BY Encoded DEF Printable
<1> HIDE DEF e
<1>3. 0 \in T
  BY <1>1
<1>4. ASSUME NEW n \in Nat, n \in T PROVE n + 1 \in T
  <2> SUFFICES ASSUME k + (n + 1) \in 0..Len(sc) PROVE P(k + (n + 1))
    OBVIOUS
  <2> DEFINE m == k + n
  <2>1. m \in 0..Len(sc) - 1 /\ m \in 0..Len(sc) /\ P(m) /\ m + 1 = k + (n + 1)
    BY <1>4
  <2>2. e[m] \in Seq(Bytes) /\ e[k] \in Seq(Bytes) /\ Encode(sc[m + 1]) \in Seq(Bytes) /\ e[m + 1] = e[m] \o Encode(sc[m + 1])
    BY <2>1, <1>1, <1>2
  <2> HIDE DEF m
  <2> DEFINE s == e[m]
             t == Encode(sc[m + 1])
             r == e[m + 1]
             q == e[k]
  <2>3. s \in Seq(Bytes) /\ t \in Seq(Bytes) /\ r = s \o t /\ q \in Seq(Bytes)
        /\ Len(q) <= Len(s) /\ \A i \in 1..Len(q) : s[i] = q[i]
    BY <2>1, <2>2
  <2> HIDE DEF s, t, r, q
  <2>4. Len(r) = Len(s) + Len(t) /\ Len(s) \in Nat /\ Len(t) \in Nat /\ Len(q) \in Nat /\ \A i \in 1..Len(s) : r[i] = s[i]
    BY <2>3, Concat
  <2>5. Len(q) <= Len(r) /\ \A i \in 1..Len(q) : r[i] = q[i]
    BY <2>3, <2>4
  <2> QED
    BY <2>1, <2>5 DEF r, q
<1>5. Nat \subseteq T
  <2> HIDE DEF T
  <2> QED BY <1>3, <1>4, SetInduction
<1>6. Len(sc) - k \in T /\ k + (Len(sc) - k) = Len(sc)
  BY <1>5
<1>7. P(Len(sc))
  BY <1>6
<1> QED
  BY <1>1, <1>7 DEF e

(* Where the next command stands in the stream. *)
LEMMA CommandAt ==
    ASSUME NEW sc \in Seq(CommandRecords), Printable(sc), NEW k \in 0..Len(sc) - 1
    PROVE  LET o == Len(Enc(sc)[k])
               e == Encode(sc[k + 1])
           IN /\ o \in Nat /\ Len(Stream(sc)) \in Nat
              /\ Len(Enc(sc)[k + 1]) = o + Len(e)
              /\ o + Len(e) <= Len(Stream(sc))
              /\ \A i \in 1..Len(e) : Stream(sc)[o + i] = e[i]
<1> DEFINE u == Enc(sc)[k]
           v == Enc(sc)[k + 1]
           e == Encode(sc[k + 1])
           w == Stream(sc)
<1>1. u \in Seq(Bytes) /\ v = u \o e /\ w \in Seq(Bytes)
  <2>1. k \in 0..Len(sc) /\ Len(sc) \in 0..Len(sc)
    OBVIOUS
  <2> QED
    BY <2>1, StreamUnfolds
<1>2. e \in Seq(Bytes)
  BY Encoded DEF Printable
<1>3. Len(v) <= Len(w) /\ \A i \in 1..Len(v) : w[i] = v[i]
  <2>1. k + 1 \in 0..Len(sc)
    OBVIOUS
  <2> QED
    BY <2>1, EncPrefix
<1> HIDE DEF u, v, e, w
<1>4. Len(v) = Len(u) + Len(e) /\ \A i \in 1..Len(e) : v[Len(u) + i] = e[i]
  BY <1>1, <1>2, Concat
<1>5. Len(u) \in Nat /\ Len(e) \in Nat /\ Len(w) \in Nat
  BY <1>1, <1>2
<1>6. \A i \in 1..Len(e) : w[Len(u) + i] = e[i]
  BY <1>3, <1>4, <1>5
<1> QED
  BY <1>3, <1>4, <1>5, <1>6 DEF u, v, e, w

-----------------------------------------------------------------------------
(* Types of the parser's state and of what is on its way.                  *)
Logged == [command : Commands \union {IDLE}, payload : Seq(Bytes), ok : BOOLEAN, packet : Seq(Bytes)]

States == {"NO_COMMAND", "NO_SIZE", "NO_DATA"}

BufferTypes ==
    /\ m_DataBuffer \in Seq(Bytes) /\ Len(m_DataBuffer) <= MaxBufferSize
    /\ m_ReadPoint \in 0..Len(m_DataBuffer) /\ m_Payload \in Nat
    /\ m_State \in States
    /\ m_Command \in Commands \union {IDLE}
    /\ m_State = "NO_COMMAND" => m_ReadPoint = 0 /\ m_Payload = 0

WireTypes ==
    /\ pending \in Seq(Bytes)
    /\ tosend \in [Conns -> Seq(Bytes)]
    /\ script \in [Conns -> Seq(CommandRecords)] /\ \A c \in Conns : Printable(script[c])
    /\ log \in [Conns -> Seq(Logged)]

FileTypes == file_fd = NoFile \/ file_fd \in DOMAIN files

ServerInv == SlotInv /\ BufferTypes /\ WireTypes /\ FileTypes

(* The invariant implies the type invariant of the module. *)
LEMMA InvTypeOK == ServerInv => TypeOK
  BY DEF ServerInv, SlotInv, SlotTypes, BufferTypes, WireTypes, FileTypes, TypeOK, States

(* A part of a sequence of bytes. *)
LEMMA SubSeqOf ==
    ASSUME NEW s \in Seq(Bytes), NEW m \in 1..Len(s) + 1, NEW n \in m - 1..Len(s)
    PROVE  /\ SubSeq(s, m, n) \in Seq(Bytes)
           /\ Len(SubSeq(s, m, n)) = n - m + 1
           /\ \A i \in 1..n - m + 1 : SubSeq(s, m, n)[i] = s[m + i - 1]
<1>1. Len(s) \in Nat /\ m \in Int /\ n \in Int
  OBVIOUS
<1>2. \A i \in m..n : s[i] \in Bytes
  OBVIOUS
<1>3. SubSeq(s, m, n) \in Seq(Bytes)
  BY <1>2
<1>4. Len(SubSeq(s, m, n)) = n - m + 1
  BY <1>1
<1>5. \A i \in 1..n - m + 1 : SubSeq(s, m, n)[i] = s[m + i - 1]
  BY <1>1
<1> QED
  BY <1>3, <1>4, <1>5

(* A payload without a zero byte is kept whole. *)
LEMMA CStringOf ==
    ASSUME NEW s \in Seq(Bytes)
    PROVE  /\ CString(s) \in Seq(Bytes)
           /\ (\A i \in 1..Len(s) : s[i] # Zero) => CString(s) = s
<1>1. CASE \A i \in 1..Len(s) : s[i] # Zero
  BY <1>1 DEF CString
<1>2. CASE \E i \in 1..Len(s) : s[i] = Zero
  <2> DEFINE T == {i \in 1..Len(s) : s[i] = Zero}
             z == CHOOSE i \in 1..Len(s) : s[i] = Zero /\ \A j \in 1..i-1 : s[j] # Zero
  <2>1. T \subseteq Nat /\ T # {}
    BY <1>2
  <2>2. PICK i \in T : \A j \in T : i <= j
    <3> HIDE DEF T
    <3> QED BY <2>1, LeastElement
  <2>3. i \in 1..Len(s) /\ s[i] = Zero /\ \A j \in 1..i-1 : s[j] # Zero
    BY <2>2
  <2>4. z \in 1..Len(s)
    BY <2>3
  <2>5. CString(s) = SubSeq(s, 1, z - 1)
    BY <1>2 DEF CString
  <2> HIDE DEF z
  <2>6. 1 \in 1..Len(s) + 1 /\ z - 1 \in 1 - 1..Len(s)
    BY <2>4
  <2> QED
    BY <1>2, <2>5, <2>6, SubSeqOf
<1> QED
  BY <1>1, <1>2

(* What is copied, and what is left of the segment. *)
LEMMA FilledType ==
    ASSUME BufferTypes, pending \in Seq(Bytes)
    PROVE  /\ Copied \in 0..Len(pending) /\ Len(m_DataBuffer) + Copied <= MaxBufferSize
           /\ Copied = Len(pending) \/ Len(m_DataBuffer) + Copied = MaxBufferSize
           /\ Filled \in Seq(Bytes) /\ Len(Filled) = Len(m_DataBuffer) + Copied
           /\ \A i \in 1..Len(m_DataBuffer) : Filled[i] = m_DataBuffer[i]
           /\ \A i \in 1..Copied : Filled[Len(m_DataBuffer) + i] = pending[i]
           /\ Rest \in Seq(Bytes) /\ Len(Rest) = Len(pending) - Copied
           /\ \A i \in 1..Len(pending) - Copied : Rest[i] = pending[Copied + i]
<1> USE FileServerAssumption
<1>1. m_DataBuffer \in Seq(Bytes) /\ Len(m_DataBuffer) \in Nat /\ Len(m_DataBuffer) <= MaxBufferSize /\ Len(pending) \in Nat
  BY DEF BufferTypes
<1>2. Copied \in 0..Len(pending) /\ Len(m_DataBuffer) + Copied <= MaxBufferSize
      /\ (Copied = Len(pending) \/ Len(m_DataBuffer) + Copied = MaxBufferSize)
  BY <1>1 DEF Copied
<1> DEFINE n == Copied
           t == SubSeq(pending, 1, n)
<1>3. Filled = m_DataBuffer \o t /\ Rest = SubSeq(pending, n + 1, Len(pending)) /\ n \in 0..Len(pending)
  BY <1>2 DEF Filled, Rest
<1> HIDE DEF n
<1>4. t \in Seq(Bytes) /\ Len(t) = n /\ \A i \in 1..n : t[i] = pending[i]
  <2>1. 1 \in 1..Len(pending) + 1 /\ n \in 1 - 1..Len(pending) /\ n - 1 + 1 = n
    BY <1>1, <1>3
  <2>2. t \in Seq(Bytes) /\ Len(t) = n - 1 + 1 /\ \A i \in 1..n - 1 + 1 : t[i] = pending[1 + i - 1]
    BY <2>1, SubSeqOf
  <2>3. \A i \in 1..n : 1 + i - 1 = i
    OBVIOUS
  <2> HIDE DEF t
  <2> QED
    BY <2>1, <2>2, <2>3
<1>5. Rest \in Seq(Bytes) /\ Len(Rest) = Len(pending) - n /\ \A i \in 1..Len(pending) - n : Rest[i] = pending[n + i]
  <2>1. n + 1 \in 1..Len(pending) + 1 /\ Len(pending) \in (n + 1) - 1..Len(pending) /\ Len(pending) - (n + 1) + 1 = Len(pending) - n
    BY <1>1, <1>3
  <2>2. Rest \in Seq(Bytes) /\ Len(Rest) = Len(pending) - (n + 1) + 1
        /\ \A i \in 1..Len(pending) - (n + 1) + 1 : Rest[i] = pending[n + 1 + i - 1]
    BY <1>3, <2>1, SubSeqOf
  <2>3. \A i \in 1..Len(pending) - n : n + 1 + i - 1 = n + i
    BY <1>3
  <2> QED
    BY <2>1, <2>2, <2>3
<1> HIDE DEF t
<1>6. Filled \in Seq(Bytes) /\ Len(Filled) = Len(m_DataBuffer) + n
      /\ (\A i \in 1..Len(m_DataBuffer) : Filled[i] = m_DataBuffer[i])
      /\ (\A i \in 1..n : Filled[Len(m_DataBuffer) + i] = pending[i])
  BY <1>1, <1>3, <1>4, Concat
<1> QED
  BY <1>2, <1>5, <1>6 DEF n

(* What the search for a separator finds. *)
LEMMA SepAtType ==
    ASSUME NEW b \in Seq(Bytes), NEW rp \in Nat, NEW i \in SepAt(b, rp)
    PROVE  i \in rp..Len(b) - 1 /\ b[i + 1] = Sep /\ \A j \in rp..i - 1 : b[j + 1] # Sep
  BY DEF SepAt

(* What the header of a long enough buffer says. *)
LEMMA ParsedType ==
    ASSUME BufferTypes, NEW b \in Seq(Bytes), Len(m_DataBuffer) <= Len(b), ~TooShort(b)
    PROVE  /\ Parsed(b).state \in States
           /\ Parsed(b).command \in Commands \union {IDLE}
           /\ Parsed(b).rp \in 0..Len(b)
           /\ Parsed(b).payload \in Nat
           /\ Parsed(b).state = "NO_COMMAND" => Parsed(b).rp = 2
<1> DEFINE h == AfterCommand(b)
<1>1. Len(b) \in Nat /\ (m_State = "NO_COMMAND" => Len(b) >= 2)
  BY DEF TooShort
<1>2. /\ h.state \in States /\ h.command \in Commands \union {IDLE} /\ h.rp \in 0..Len(b) /\ h.payload \in Nat
      /\ h.state = "NO_COMMAND" => h.rp = 2
  BY <1>1 DEF AfterCommand, Header, BufferTypes, States
<1>3. Parsed(b) = AfterSize(b, h)
  BY DEF Parsed
<1> HIDE DEF h
<1>4. CASE h.state # "NO_SIZE" \/ SepAt(b, h.rp) = {}
  BY <1>2, <1>3, <1>4 DEF AfterSize
<1>5. CASE ~(h.state # "NO_SIZE" \/ SepAt(b, h.rp) = {})
  <2> DEFINE i == CHOOSE i \in SepAt(b, h.rp) : TRUE
             d == SubSeq(b, h.rp + 1, i)
  <2>1. i \in SepAt(b, h.rp)
    BY <1>5
  <2>2. Parsed(b) = Header("NO_DATA", h.command, i + 1, Atoi(d))
    BY <1>3, <1>5 DEF AfterSize
  <2> HIDE DEF i
  <2>3. i \in h.rp..Len(b) - 1 /\ h.rp \in Nat
    BY <1>2, <2>1, SepAtType
  <2>4. h.rp + 1 \in 1..Len(b) + 1 /\ i \in h.rp + 1 - 1..Len(b)
    BY <1>1, <2>3
  <2>5. Atoi(d) \in Nat
    <3>1. d \in Seq(Bytes)
      BY <2>4, SubSeqOf
    <3> HIDE DEF d
    <3> QED BY <3>1, AtoiNat
  <2> HIDE DEF d
  <2> QED
    BY <1>1, <1>2, <2>2, <2>3, <2>5 DEF Header, States
<1> QED
  BY <1>4, <1>5

(* The packet, its payload and what follows it in the buffer. *)
LEMMA PayloadType ==
    ASSUME NEW b \in Seq(Bytes), NEW h, h.rp \in 0..Len(b), h.payload \in Nat, Len(b) - h.rp >= h.payload
    PROVE  /\ PacketLen(h) \in 0..Len(b)
           /\ Payload(b, h) \in Seq(Bytes)
           /\ SubSeq(b, 1, PacketLen(h)) \in Seq(Bytes)
           /\ SubSeq(b, PacketLen(h) + 1, Len(b)) \in Seq(Bytes)
           /\ Len(SubSeq(b, PacketLen(h) + 1, Len(b))) = Len(b) - PacketLen(h)
<1> DEFINE n == PacketLen(h)
           m == h.rp + 1
<1>1. n \in 0..Len(b) /\ Len(b) \in Nat /\ m \in 1..Len(b) + 1 /\ n \in m - 1..Len(b)
  BY DEF PacketLen
<1>2. Payload(b, h) = CString(SubSeq(b, m, n))
  BY DEF Payload
<1> HIDE DEF n, m
<1>3. SubSeq(b, m, n) \in Seq(Bytes)
  BY <1>1, SubSeqOf
<1>4. Payload(b, h) \in Seq(Bytes)
  BY <1>2, <1>3, CStringOf
<1>5. SubSeq(b, 1, n) \in Seq(Bytes)
  <2>1. 1 \in 1..Len(b) + 1 /\ n \in 1 - 1..Len(b)
    BY <1>1
  <2> QED BY <2>1, SubSeqOf
<1>6. SubSeq(b, n + 1, Len(b)) \in Seq(Bytes) /\ Len(SubSeq(b, n + 1, Len(b))) = Len(b) - n
  <2>1. n + 1 \in 1..Len(b) + 1 /\ Len(b) \in (n + 1) - 1..Len(b) /\ Len(b) - (n + 1) + 1 = Len(b) - n
    BY <1>1
  <2> QED BY <2>1, SubSeqOf
<1> QED
  BY <1>1, <1>4, <1>5, <1>6 DEF n

(* An answer leaves the parser and the log well typed. *)
LEMMA AnswerType ==
    ASSUME BufferTypes, WireTypes, handling \in Conns,
           NEW b \in Seq(Bytes), Len(b) <= MaxBufferSize, NEW h, h.command \in Commands \union {IDLE},
           h.rp \in 0..Len(b), h.payload \in Nat, HasPacket(b, h), NEW ok \in BOOLEAN, Answer(b, h, ok)
    PROVE  BufferTypes' /\ WireTypes'
<1> DEFINE x == [command |-> h.command, payload |-> Payload(b, h), ok |-> ok,
                 packet |-> SubSeq(b, 1, PacketLen(h))]
<1>1. Len(b) - h.rp >= h.payload
  BY DEF HasPacket
<1>2. x \in Logged
  BY <1>1, PayloadType DEF Logged
<1>3. log' = [log EXCEPT ![handling] = Append(@, x)]
  BY DEF Answer, Reply
<1> HIDE DEF x
<1>4. log' \in [Conns -> Seq(Logged)]
  BY <1>2, <1>3 DEF WireTypes
<1>5. Rest \in Seq(Bytes)
  BY FilledType DEF WireTypes
<1>6. WireTypes'
  BY <1>4, <1>5 DEF Answer, Continue, WireTypes, client, Printable
<1>7. BufferTypes'
  <2> DEFINE r == SubSeq(b, PacketLen(h) + 1, Len(b))
  <2>1. r \in Seq(Bytes) /\ Len(r) = Len(b) - PacketLen(h) /\ PacketLen(h) \in 0..Len(b)
    BY <1>1, PayloadType
  <2>2. m_DataBuffer' = r /\ m_ReadPoint' = 0 /\ m_Payload' = 0 /\ m_State' = "NO_COMMAND" /\ m_Command' = IDLE
    BY DEF Answer
  <2> HIDE DEF r
  <2>3. Len(r) \in Nat /\ Len(r) <= MaxBufferSize
    BY <2>1, FileServerAssumption
  <2> QED
    BY <2>1, <2>2, <2>3 DEF BufferTypes, States
<1> QED
  BY <1>6, <1>7

(* Each branch of fs_data_received keeps the types. *)
LEMMA HandlerTypes ==
    ASSUME ServerInv, Handler
    PROVE  BufferTypes' /\ WireTypes' /\ FileTypes'
<1> USE FileServerAssumption
<1> DEFINE b == Filled
           h == Parsed(b)
<1>1. BufferTypes /\ WireTypes /\ FileTypes /\ handling \in Conns
  BY HandlerShape DEF ServerInv, SlotInv, SlotTypes
<1>2. b \in Seq(Bytes) /\ Len(b) <= MaxBufferSize /\ Len(m_DataBuffer) <= Len(b) /\ Rest \in Seq(Bytes)
      /\ Len(b) \in Nat /\ Len(m_DataBuffer) \in Nat
  BY <1>1, FilledType DEF WireTypes, BufferTypes
<1>3. ~TooShort(b) => /\ h.state \in States /\ h.command \in Commands \union {IDLE}
                      /\ h.rp \in 0..Len(b) /\ h.payload \in Nat
  BY <1>1, <1>2, ParsedType
<1>4. /\ handling # NoClient
      /\ \/ DataNoRoom
         \/ DataNoHeader(b, h)
         \/ DataIncomplete(b, h)
         \/ OpenFile(b, h)
         \/ WriteFile(b, h)
         \/ CloseFile(b, h)
         \/ RunLua(b, h)
         \/ UnknownCommand(b, h)
  BY DEF Handler
<1> HIDE DEF b, h
<1>5. ASSUME NEW ok \in BOOLEAN, HasPacket(b, h), Answer(b, h, ok) PROVE BufferTypes' /\ WireTypes'
  BY <1>1, <1>2, <1>3, <1>5, AnswerType DEF HasPacket
<1>6. CASE DataNoRoom
  <2>1. UNCHANGED <<m_DataBuffer, m_ReadPoint, m_Payload, m_State, m_Command, file_fd, files, tosend, script, log>>
        /\ pending' = <<>>
    BY <1>6 DEF DataNoRoom, Continue, parser, storage, client
  <2>2. WireTypes'
    BY <1>1, <2>1 DEF WireTypes, Printable
  <2> QED
    BY <1>1, <2>1, <2>2 DEF BufferTypes, FileTypes
<1>7. CASE DataNoHeader(b, h)
  <2>1. UNCHANGED <<file_fd, files, tosend, script, log>> /\ pending' = <<>>
    BY <1>7 DEF DataNoHeader, Continue, storage, client
  <2>2. WireTypes' /\ FileTypes'
    BY <1>1, <2>1 DEF WireTypes, FileTypes, Printable
  <2>3. CASE TooShort(b)
    <3>1. m_DataBuffer' = b /\ UNCHANGED <<m_ReadPoint, m_Payload, m_State, m_Command>>
      BY <1>7, <2>3 DEF DataNoHeader
    <3> QED
      BY <1>1, <1>2, <2>2, <3>1 DEF BufferTypes
  <2>4. CASE ~TooShort(b)
    <3>1. SaveHeader(b, h) /\ h.state = "NO_SIZE"
      BY <1>7, <2>4 DEF DataNoHeader
    <3> QED
      BY <1>2, <1>3, <2>2, <2>4, <3>1 DEF SaveHeader, BufferTypes
  <2> QED
    BY <2>3, <2>4
<1>8. CASE DataIncomplete(b, h)
  <2>1. UNCHANGED <<file_fd, files, tosend, script, log>> /\ pending' = Rest /\ ~TooShort(b) /\ SaveHeader(b, h)
        /\ h.state = "NO_DATA"
    BY <1>8 DEF DataIncomplete, Continue, storage, client
  <2>2. WireTypes' /\ FileTypes'
    BY <1>1, <1>2, <2>1 DEF WireTypes, FileTypes, Printable
  <2> QED
    BY <1>2, <1>3, <2>1, <2>2 DEF SaveHeader, BufferTypes
<1>9. CASE OpenFile(b, h)
  <2>1. BufferTypes' /\ WireTypes'
    BY <1>5, <1>9 DEF OpenFile
  <2>2. FileTypes'
    BY <1>9 DEF OpenFile, SetFile, FileTypes
  <2> QED BY <2>1, <2>2
<1>10. CASE WriteFile(b, h)
  <2>1. BufferTypes' /\ WireTypes'
    BY <1>5, <1>10 DEF WriteFile
  <2>2. FileTypes'
    BY <1>1, <1>10 DEF WriteFile, SetFile, FileTypes
  <2> QED BY <2>1, <2>2
<1>11. CASE CloseFile(b, h)
  <2>1. BufferTypes' /\ WireTypes'
    BY <1>5, <1>11 DEF CloseFile
  <2>2. FileTypes'
    BY <1>11 DEF CloseFile, FileTypes
  <2> QED BY <2>1, <2>2
<1>12. CASE RunLua(b, h)
  <2>1. (~lineBusy) \in BOOLEAN
    OBVIOUS
  <2>2. BufferTypes' /\ WireTypes'
    BY <1>5, <1>12, <2>1 DEF RunLua
  <2> QED
    BY <1>1, <1>12, <2>2 DEF RunLua, FileTypes, storage
<1>13. CASE UnknownCommand(b, h)
  <2>1. BufferTypes' /\ WireTypes'
    BY <1>5, <1>13 DEF UnknownCommand
  <2> QED
    BY <1>1, <1>13, <2>1 DEF UnknownCommand, FileTypes, storage
<1> QED
  BY <1>4, <1>6, <1>7, <1>8, <1>9, <1>10, <1>11, <1>12, <1>13

(* The whole invariant through a run of fs_data_received. *)
LEMMA ServerHandler ==
    ASSUME ServerInv, Handler
    PROVE  ServerInv'
  BY HandlerTypes, SlotHandler DEF ServerInv

(* The invariant holds at the start ... *)
LEMMA ServerInitially == Init => ServerInv
<1> SUFFICES ASSUME Init PROVE ServerInv
  OBVIOUS
<1>1. BufferTypes
  BY FileServerAssumption DEF Init, BufferTypes, States
<1>2. WireTypes /\ FileTypes
  <2>1. Printable(<<>>)
    BY DEF Printable
  <2>2. /\ pending = <<>> /\ tosend = [c \in Conns |-> <<>>] /\ script = [c \in Conns |-> <<>>]
        /\ log = [c \in Conns |-> <<>>] /\ file_fd = NoFile
    BY DEF Init
  <2> QED
    BY <2>1, <2>2 DEF WireTypes, FileTypes
<1> QED
  BY <1>1, <1>2, SlotInitially DEF ServerInv

(* ... when a client connects ... *)
LEMMA ServerAccept ==
    ASSUME ServerInv, NEW c \in Conns, NEW sc \in Seq(CommandRecords), Printable(sc),
           NEW bytes \in Seq(Bytes), Accept(c, sc, bytes)
    PROVE  ServerInv'
<1>1. SlotInv'
  BY SlotAccept DEF ServerInv
<1>2. BufferTypes' /\ FileTypes'
  BY DEF Accept, ServerInv, BufferTypes, FileTypes, parser, storage
<1>3. /\ pending' = pending
      /\ \/ UNCHANGED <<script, tosend, log>>
         \/ /\ script' = [Living(script) EXCEPT ![c] = sc]
            /\ tosend' = [Living(tosend) EXCEPT ![c] = bytes]
            /\ log' = Living(log)
  BY DEF Accept
<1>4. ASSUME NEW S, NEW f \in [Conns -> Seq(S)]
      PROVE  Living(f) \in [Conns -> Seq(S)] /\ \A d \in Conns : Living(f)[d] = IF conn[d] = "free" THEN <<>> ELSE f[d]
  BY DEF Living
<1>5. Printable(<<>>)
  BY DEF Printable
<1>6. script' \in [Conns -> Seq(CommandRecords)] /\ \A d \in Conns : Printable(script'[d])
  <2>1. CASE script' = script
    BY <2>1 DEF ServerInv, WireTypes
  <2>2. CASE script' = [Living(script) EXCEPT ![c] = sc]
    <3> DEFINE f == Living(script)
    <3>1. f \in [Conns -> Seq(CommandRecords)] /\ \A d \in Conns : f[d] = <<>> \/ f[d] = script[d]
      BY <1>4 DEF ServerInv, WireTypes
    <3>2. \A d \in Conns : Printable(f[d])
      BY <1>5, <3>1 DEF ServerInv, WireTypes
    <3> HIDE DEF f
    <3> QED
      BY <2>2, <3>1, <3>2 DEF f
  <2> QED
    BY <1>3, <2>1, <2>2
<1>7. tosend' \in [Conns -> Seq(Bytes)]
  <2>1. Living(tosend) \in [Conns -> Seq(Bytes)]
    BY <1>4 DEF ServerInv, WireTypes
  <2> QED
    BY <1>3, <2>1 DEF ServerInv, WireTypes
<1>8. log' \in [Conns -> Seq(Logged)]
  <2>1. Living(log) \in [Conns -> Seq(Logged)]
    BY <1>4 DEF ServerInv, WireTypes
  <2> QED
    BY <1>3, <2>1 DEF ServerInv, WireTypes
<1>9. WireTypes'
  BY <1>3, <1>6, <1>7, <1>8 DEF ServerInv, WireTypes, Printable
<1> QED
  BY <1>1, <1>2, <1>9 DEF ServerInv

(* ... when a segment arrives ... *)
LEMMA ServerReceive ==
    ASSUME ServerInv, NEW c \in Conns, NEW n \in 1..Len(tosend[c]), Receive(c, n)
    PROVE  ServerInv'
<1> DEFINE t == tosend[c]
<1>1. t \in Seq(Bytes) /\ Len(t) \in Nat /\ n \in 1..Len(t)
  BY DEF ServerInv, WireTypes
<1>2. SlotInv'
  BY <1>1, SlotReceive DEF ServerInv
<1>3. BufferTypes' /\ FileTypes'
  BY DEF Receive, ServerInv, BufferTypes, FileTypes, parser, storage
<1>4. /\ tosend' = [tosend EXCEPT ![c] = SubSeq(t, n + 1, Len(t))]
      /\ pending' = SubSeq(t, 1, n) \/ pending' = pending
      /\ UNCHANGED <<script, log>>
  BY DEF Receive
<1> HIDE DEF t
<1>5. SubSeq(t, n + 1, Len(t)) \in Seq(Bytes)
  <2>1. n + 1 \in 1..Len(t) + 1 /\ Len(t) \in (n + 1) - 1..Len(t)
    BY <1>1
  <2> QED BY <1>1, <2>1, SubSeqOf
<1>6. SubSeq(t, 1, n) \in Seq(Bytes)
  <2>1. 1 \in 1..Len(t) + 1 /\ n \in 1 - 1..Len(t)
    BY <1>1
  <2> QED BY <1>1, <2>1, SubSeqOf
<1>7. WireTypes'
  BY <1>4, <1>5, <1>6 DEF ServerInv, WireTypes, Printable
<1> QED
  BY <1>2, <1>3, <1>7 DEF ServerInv

(* ... when a connection closes, fails or ends ... *)
LEMMA ServerConn ==
    ASSUME ServerInv, NEW c \in Conns, CloseConn(c) \/ FailConn(c) \/ EndConn(c)
    PROVE  ServerInv'
<1>1. SlotInv'
  BY SlotClose, SlotFail, SlotEnd DEF ServerInv
<1>2. UNCHANGED <<pending, tosend, script, log, files>>
  BY DEF CloseConn, FailConn, EndConn, ClientDisconnected, client, storage
<1>3. WireTypes'
  BY <1>2 DEF ServerInv, WireTypes, Printable
<1>4. \/ UNCHANGED <<m_DataBuffer, m_ReadPoint, m_Payload, m_State, m_Command, file_fd>>
      \/ m_DataBuffer' = <<>> /\ m_ReadPoint' = 0 /\ m_Payload' = 0 /\ m_State' = "NO_COMMAND" /\ m_Command' = IDLE
         /\ file_fd' = NoFile
  BY DEF CloseConn, FailConn, EndConn, ClientDisconnected, parser, storage
<1>5. BufferTypes'
  <2>1. CASE UNCHANGED <<m_DataBuffer, m_ReadPoint, m_Payload, m_State, m_Command, file_fd>>
    BY <2>1 DEF ServerInv, BufferTypes
  <2>2. CASE m_DataBuffer' = <<>> /\ m_ReadPoint' = 0 /\ m_Payload' = 0 /\ m_State' = "NO_COMMAND" /\ m_Command' = IDLE
    BY <2>2, FileServerAssumption DEF BufferTypes, States
  <2> QED
    BY <1>4, <2>1, <2>2
<1>6. FileTypes'
  BY <1>2, <1>4 DEF ServerInv, FileTypes
<1> QED
  BY <1>1, <1>3, <1>5, <1>6 DEF ServerInv

(* ... and through everything else. *)
LEMMA ServerRest ==
    ASSUME ServerInv, Console \/ Stop \/ Restart
    PROVE  ServerInv'
<1>1. SlotInv'
  BY SlotRest DEF ServerInv
<1>2. CASE Console \/ Stop
  <2>1. /\ UNCHANGED <<pending, tosend, script, log, files, file_fd>>
        /\ UNCHANGED <<m_DataBuffer, m_ReadPoint, m_Payload, m_State, m_Command>>
    BY <1>2 DEF Console, Stop, client, storage, parser
  <2>2. WireTypes'
    BY <2>1 DEF ServerInv, WireTypes, Printable
  <2> QED
    BY <1>1, <2>1, <2>2 DEF ServerInv, BufferTypes, FileTypes
<1>3. CASE Restart
  <2>1. BufferTypes' /\ FileTypes'
    BY <1>3, FileServerAssumption DEF Restart, BufferTypes, FileTypes, States
  <2>2. pending' = pending /\ tosend' = [c \in Conns |-> <<>>] /\ script' = [c \in Conns |-> <<>>]
        /\ log' = [c \in Conns |-> <<>>]
    BY <1>3 DEF Restart
  <2>3. Printable(<<>>)
    BY DEF Printable
  <2>4. WireTypes'
    BY <2>2, <2>3 DEF ServerInv, WireTypes, Printable
  <2> QED
    BY <1>1, <2>1, <2>4 DEF ServerInv
<1> QED
  BY <1>2, <1>3

(* Every step keeps the invariant. *)
LEMMA ServerStep ==
    ASSUME ServerInv, [Next]_vars
    PROVE  ServerInv'
<1>1. ASSUME NEW c \in Conns, NEW sc \in Scripts, Connect(c, sc) PROVE ServerInv'
  <2>1. sc \in Seq(CommandRecords) /\ Printable(sc)
    BY FileServerAssumption DEF CommandRecords, Printable
  <2>2. Len(sc) \in 0..Len(sc)
    BY <2>1
  <2>3. Stream(sc) \in Seq(Bytes)
    BY <2>1, <2>2, StreamUnfolds
  <2> QED
    BY <1>1, <2>1, <2>3, ServerAccept DEF Connect
<1>2. CASE UNCHANGED vars
  <2>1. /\ UNCHANGED <<conn, fields, listen, listenTcp, g_pServer, m_pClient, lineBusy, handling, pending>>
        /\ UNCHANGED <<m_DataBuffer, m_ReadPoint, m_Payload, m_State, m_Command, file_fd, files, opener>>
        /\ UNCHANGED <<tosend, connects, script, log, faulted>>
    BY <1>2 DEF vars, espconnVars, parser, storage, client
  <2>2. SlotInv'
    BY <2>1 DEF ServerInv, SlotInv, SlotTypes, EspconnTypeOK, SlotMatches, SlotServed, FreshSlot, FileOfClient
  <2>3. BufferTypes' /\ FileTypes'
    BY <2>1 DEF ServerInv, BufferTypes, FileTypes
  <2>4. WireTypes'
    BY <2>1 DEF ServerInv, WireTypes, Printable
  <2> QED
    BY <2>2, <2>3, <2>4 DEF ServerInv
<1> QED
  BY <1>1, <1>2, ServerReceive, ServerConn, ServerHandler, ServerRest DEF Next

(* No segmentation of the stream makes the parser leave its types: the     *)
(* buffer of fs_data_received never holds more than MAX_BUFFER_SIZE bytes  *)
(* and the read point stays inside it.                                     *)
THEOREM ServerTypesKept == Spec => []TypeOK
<1>1. Init => ServerInv
  BY ServerInitially
<1>2. ServerInv /\ [Next]_vars => ServerInv'
  BY ServerStep
<1>3. ServerInv => TypeOK
  BY InvTypeOK
<1> QED
  BY <1>1, <1>2, <1>3, PTL DEF Spec

(* fs_client_connected and fs_client_disconnected keep the client slot and *)
(* the `reverse' pointers of all connections in agreement.                 *)
THEOREM SlotAgrees == Spec => []SlotMatches
<1>1. Init => ServerInv
  BY ServerInitially
<1>2. ServerInv /\ [Next]_vars => ServerInv'
  BY ServerStep
<1>3. ServerInv => SlotMatches
  BY DEF ServerInv, SlotInv
<1> QED
  BY <1>1, <1>2, <1>3, PTL DEF Spec

(* A slot that is free holds nothing of its last client.                   *)
THEOREM SlotIsFresh == Spec => []FreshSlot
<1>1. Init => ServerInv
  BY ServerInitially
<1>2. ServerInv /\ [Next]_vars => ServerInv'
  BY ServerStep
<1>3. ServerInv => FreshSlot
  BY DEF ServerInv, SlotInv
<1> QED
  BY <1>1, <1>2, <1>3, PTL DEF Spec

(* The global file_fd is only ever open for the client in the slot.        *)
THEOREM FileHasOwner == Spec => []FileOfClient
<1>1. Init => ServerInv
  BY ServerInitially
<1>2. ServerInv /\ [Next]_vars => ServerInv'
  BY ServerStep
<1>3. ServerInv => FileOfClient
  BY DEF ServerInv, SlotInv
<1> QED
  BY <1>1, <1>2, <1>3, PTL DEF Spec

-----------------------------------------------------------------------------
(* The commands are executed in order.  As long as a well-formed client is *)
(* in the slot, what is in the buffer, in the segment and not yet sent     *)
(* continues its stream right behind the commands executed.  (A node that  *)
(* loses its power forgets the segment.)                                   *)
InStep(sc, k, buf, pen, tos) ==
    LET o == Len(Enc(sc)[k])
        w == Stream(sc)
    IN /\ k \in 0..Len(sc)
       /\ o + Len(buf) + Len(pen) + Len(tos) <= Len(w)
       /\ \A i \in 1..Len(buf) : buf[i] = w[o + i]
       /\ \A i \in 1..Len(pen) : pen[i] = w[o + Len(buf) + i]
       /\ \A i \in 1..Len(tos) : tos[i] = w[o + Len(buf) + Len(pen) + i]

(* The buffer has room, and what the parser knows of the next command is   *)
(* so.                                                                     *)
HeaderKnown(sc, k) ==
    /\ Len(m_DataBuffer) < MaxBufferSize
    /\ m_State # "NO_COMMAND" => k < Len(sc) /\ m_Command = sc[k + 1].command
    /\ m_State = "NO_SIZE" => m_ReadPoint = 2
    /\ m_State = "NO_DATA" => m_ReadPoint = HeaderLen(sc[k + 1]) /\ m_Payload = Len(sc[k + 1].payload)

Synchronised ==
    \A c \in Conns : m_pClient = c /\ ~faulted /\ WellFormed(script[c]) =>
        /\ InStep(script[c], Len(log[c]), m_DataBuffer, pending, tosend[c])
        /\ HeaderKnown(script[c], Len(log[c]))

(* The answer to a command also carries its bytes. *)
Executed(l, sc) ==
    /\ Len(l) <= Len(sc)
    /\ \A i \in 1..Len(l) : /\ l[i].command = sc[i].command /\ l[i].payload = sc[i].payload
                            /\ l[i].packet = Encode(sc[i])

AllExecuted == \A c \in Conns : WellFormed(script[c]) => Executed(log[c], script[c])

OrderInv == ServerInv /\ Synchronised /\ AllExecuted

(* fs_data_received's copy moves bytes from the segment to the buffer. *)
LEMMA CopyInStep ==
    ASSUME ServerInv, NEW c \in Conns, NEW sc \in Seq(CommandRecords), Printable(sc),
           NEW k \in 0..Len(sc), InStep(sc, k, m_DataBuffer, pending, tosend[c])
    PROVE  InStep(sc, k, Filled, Rest, tosend[c])
<1> DEFINE o == Len(Enc(sc)[k])
           w == Stream(sc)
           buf == m_DataBuffer
           tos == tosend[c]
           n == Copied
           B == Len(buf)
           P == Len(pending)
           Q == Len(tos)
<1>1. o \in Nat /\ Len(w) \in Nat /\ B \in Nat /\ P \in Nat /\ Q \in Nat
  <2>1. o \in Nat /\ Len(w) \in Nat
    BY StreamType
  <2>2. buf \in Seq(Bytes) /\ pending \in Seq(Bytes) /\ tos \in Seq(Bytes)
    BY DEF ServerInv, BufferTypes, WireTypes
  <2> QED BY <2>1, <2>2
<1>2. /\ o + B + P + Q <= Len(w)
      /\ \A i \in 1..B : buf[i] = w[o + i]
      /\ \A i \in 1..P : pending[i] = w[o + B + i]
      /\ \A i \in 1..Q : tos[i] = w[o + B + P + i]
  BY DEF InStep
<1>3. /\ n \in 0..P /\ Len(Filled) = B + n /\ Len(Rest) = P - n
      /\ \A i \in 1..B : Filled[i] = buf[i]
      /\ \A i \in 1..n : Filled[B + i] = pending[i]
      /\ \A i \in 1..P - n : Rest[i] = pending[n + i]
  BY FilledType DEF ServerInv, WireTypes
<1> HIDE DEF o, w, n, B, P, Q, buf, tos
<1>4. (B + n) + (P - n) = B + P /\ o + (B + n) + (P - n) + Q = o + B + P + Q /\ o + (B + n) + (P - n) = o + B + P
  BY <1>1, <1>3
<1>5. ASSUME NEW i \in 1..B + n PROVE Filled[i] = w[o + i]
  <2>1. CASE i <= B
    BY <2>1, <1>1, <1>2, <1>3
  <2>2. CASE ~(i <= B)
    <3> DEFINE j == i - B
    <3>1. j \in 1..n /\ j \in 1..P /\ i = B + j /\ o + i = o + B + j
      BY <2>2, <1>1, <1>3
    <3> HIDE DEF j
    <3>2. Filled[B + j] = pending[j] /\ pending[j] = w[o + B + j]
      BY <3>1, <1>2, <1>3
    <3> QED BY <3>1, <3>2
  <2> QED BY <2>1, <2>2
<1>6. ASSUME NEW i \in 1..P - n PROVE Rest[i] = w[o + (B + n) + i]
  <2> DEFINE j == n + i
  <2>1. j \in 1..P /\ o + (B + n) + i = o + B + j
    BY <1>1, <1>3
  <2>2. Rest[i] = pending[j]
    BY <1>3
  <2> HIDE DEF j
  <2> QED BY <2>1, <2>2, <1>2
<1>7. \A i \in 1..Q : tos[i] = w[o + (B + n) + (P - n) + i]
  BY <1>2, <1>4
<1> QED
  BY <1>2, <1>3, <1>4, <1>5, <1>6, <1>7 DEF InStep, o, w, Q, tos

(* The next command's bytes are what a buffer in step begins with. *)
LEMMA NextCommand ==
    ASSUME NEW sc \in Seq(CommandRecords), Printable(sc), NEW k \in 0..Len(sc),
           NEW b \in Seq(Bytes), NEW r \in Seq(Bytes), NEW t \in Seq(Bytes), InStep(sc, k, b, r, t), b # <<>>
    PROVE  /\ k \in 0..Len(sc) - 1 /\ k + 1 \in 1..Len(sc) /\ sc[k + 1] \in CommandRecords
           /\ DigitFor(Len(sc[k + 1].payload)) \in Seq(DOMAIN Digits)
           /\ \A i \in 1..Len(b) : i <= Len(Encode(sc[k + 1])) => b[i] = Encode(sc[k + 1])[i]
<1> DEFINE o == Len(Enc(sc)[k])
           w == Stream(sc)
<1>1. Len(b) \in Nat /\ Len(r) \in Nat /\ Len(t) \in Nat /\ Len(b) > 0 /\ Len(sc) \in Nat
  OBVIOUS
<1>2. o \in Nat /\ Len(w) \in Nat /\ w = Enc(sc)[Len(sc)]
  BY StreamType
<1>3. o + Len(b) + Len(r) + Len(t) <= Len(w) /\ \A i \in 1..Len(b) : b[i] = w[o + i]
  BY DEF InStep
<1>4. k # Len(sc)
  <2> SUFFICES ASSUME k = Len(sc) PROVE FALSE
    OBVIOUS
  <2>1. o = Len(w)
    BY <1>2
  <2> HIDE DEF o, w
  <2> QED
    BY <2>1, <1>1, <1>2, <1>3
<1>5. k \in 0..Len(sc) - 1 /\ k + 1 \in 1..Len(sc) /\ sc[k + 1] \in CommandRecords
  BY <1>1, <1>4
<1>6. \A i \in 1..Len(Encode(sc[k + 1])) : w[o + i] = Encode(sc[k + 1])[i]
  BY <1>5, CommandAt
<1> DEFINE e == Encode(sc[k + 1])
<1>7. Len(e) \in Nat
  <2>1. e \in Seq(Bytes)
    BY <1>5, Encoded DEF Printable
  <2> HIDE DEF e
  <2> QED BY <2>1
<1>8. \A i \in 1..Len(b) : i <= Len(e) => b[i] = e[i]
  <2> HIDE DEF e, o, w
  <2>1. \A i \in 1..Len(e) : w[o + i] = e[i]
    BY <1>6 DEF e
  <2> QED BY <1>1, <1>3, <1>7, <2>1
<1> QED
  BY <1>5, <1>8 DEF Printable

(* The header of the next command is parsed as it was printed, from        *)
(* whatever the parser knew before.                                        *)
LEMMA ParsedNext ==
    ASSUME BufferTypes, NEW sc \in Seq(CommandRecords), NEW k \in 0..Len(sc) - 1,
           DigitFor(Len(sc[k + 1].payload)) \in Seq(DOMAIN Digits),
           sc[k + 1].command \in Commands, Len(Encode(sc[k + 1])) <= MaxBufferSize,
           HeaderKnown(sc, k),
           NEW b \in Seq(Bytes), Len(m_DataBuffer) <= Len(b), ~TooShort(b),
           \A i \in 1..Len(b) : i <= Len(Encode(sc[k + 1])) => b[i] = Encode(sc[k + 1])[i]
    PROVE  /\ Len(b) < HeaderLen(sc[k + 1]) =>
                  /\ Parsed(b).state = "NO_SIZE" /\ Parsed(b).command = sc[k + 1].command
                  /\ Parsed(b).rp = 2
           /\ Len(b) >= HeaderLen(sc[k + 1]) =>
                  /\ Parsed(b).state = "NO_DATA" /\ Parsed(b).command = sc[k + 1].command
                  /\ Parsed(b).rp = HeaderLen(sc[k + 1]) /\ Parsed(b).payload = Len(sc[k + 1].payload)
<1> DEFINE p == sc[k + 1]
           e == Encode(p)
           H == HeaderLen(p)
           n == Len(p.payload)
           dg == DigitFor(n)
           h == AfterCommand(b)
<1>1. p \in CommandRecords /\ Len(b) \in Nat
  OBVIOUS
<1>2. /\ e \in Seq(Bytes) /\ H \in Nat /\ H >= 3 /\ Len(e) = H + n
      /\ e[1] = p.command /\ e[2] = Sep
      /\ \A i \in 1..H - 3 : e[i + 2] = dg[i]
      /\ e[H] = Sep
  BY <1>1, Encoded
<1>3. n \in Nat /\ H = Len(dg) + 3 /\ dg \in Seq(DOMAIN Digits) /\ Len(dg) \in Nat
  BY <1>1 DEF CommandRecords, HeaderLen
<1>4. n \in 0..MaxBufferSize /\ Len(e) \in Nat /\ H <= Len(e)
  <2>1. Len(e) <= MaxBufferSize
    OBVIOUS
  <2>2. Len(e) = H + n /\ H \in Nat
    BY <1>2
  <2> HIDE DEF e, H, n
  <2> QED
    BY <2>1, <2>2, <1>3, FileServerAssumption
<1>5. Atoi(dg) = n
  BY <1>4, DigitForAssumption
<1>6. p.command \in Commands /\ \A i \in 1..Len(b) : i <= Len(e) => b[i] = e[i]
  OBVIOUS
<1>7. m_State # "NO_COMMAND" => m_Command = p.command
  BY DEF HeaderKnown
<1>8. m_State \in States /\ m_ReadPoint \in 0..Len(m_DataBuffer) /\ Len(m_DataBuffer) \in Nat
  BY DEF BufferTypes
<1>9. m_State = "NO_DATA" => m_ReadPoint = H /\ m_Payload = n
  BY DEF HeaderKnown
<1>10. m_State = "NO_SIZE" => m_ReadPoint = 2
  BY DEF HeaderKnown
<1>11. Parsed(b) = AfterSize(b, h)
  BY DEF Parsed
<1>12. m_State = "NO_COMMAND" => Len(b) >= 2 /\ b[1] = p.command
  <2> SUFFICES ASSUME m_State = "NO_COMMAND" PROVE Len(b) >= 2 /\ b[1] = p.command
    OBVIOUS
  <2>1. Len(b) >= 2
    BY <1>1 DEF TooShort
  <2>2. 1 \in 1..Len(b) /\ 1 <= Len(e)
    BY <1>1, <1>2, <1>4, <2>1
  <2> HIDE DEF e
  <2> QED BY <1>2, <1>6, <2>1, <2>2
<1> HIDE DEF p, e, H, n, dg
<1>13. CASE m_State = "NO_DATA"
  <2>1. h = Header("NO_DATA", p.command, H, n)
    BY <1>7, <1>9, <1>13 DEF AfterCommand
  <2>2. Parsed(b) = h
    BY <1>11, <2>1 DEF AfterSize, Header
  <2>3. Len(b) >= H
    BY <1>1, <1>2, <1>8, <1>9, <1>13
  <2> QED
    BY <1>1, <1>2, <2>1, <2>2, <2>3 DEF Header, p, H, n
<1>14. CASE m_State # "NO_DATA"
  <2>1. h.state = "NO_SIZE" /\ h.command = p.command /\ h.rp = 2
    <3>1. CASE m_State = "NO_COMMAND"
      BY <1>6, <1>12, <3>1 DEF AfterCommand, Header
    <3>2. CASE m_State = "NO_SIZE"
      BY <1>7, <1>10, <3>2 DEF AfterCommand, Header
    <3> QED
      BY <1>8, <1>14, <3>1, <3>2 DEF States
  <2> HIDE DEF h
  <2>2. ASSUME NEW j \in 3..H - 1, j \in 1..Len(b) PROVE b[j] # Sep /\ b[j] = dg[j - 2]
    <3>1. j <= Len(e) /\ j - 2 \in 1..H - 3 /\ (j - 2) + 2 = j /\ j - 2 \in 1..Len(dg)
      BY <1>2, <1>3, <1>4
    <3>2. b[j] = e[j] /\ e[j] = dg[j - 2]
      BY <1>2, <1>6, <2>2, <3>1
    <3>3. dg[j - 2] \in DOMAIN Digits
      BY <1>3, <3>1
    <3> QED
      BY <3>2, <3>3, FileServerAssumption
  <2>3. CASE Len(b) < H
    <3>1. SepAt(b, 2) = {}
      <4> SUFFICES ASSUME NEW i \in SepAt(b, 2) PROVE FALSE
        OBVIOUS
      <4>1. i \in 2..Len(b) - 1 /\ b[i + 1] = Sep
        BY SepAtType
      <4>2. i + 1 \in 3..H - 1 /\ i + 1 \in 1..Len(b)
        BY <1>1, <1>2, <2>3, <4>1
      <4> QED
        BY <2>2, <4>1, <4>2
    <3>2. Parsed(b) = h
      BY <1>11, <2>1, <3>1 DEF AfterSize
    <3> QED
      BY <1>1, <1>2, <2>1, <2>3, <3>2 DEF p, H
  <2>4. CASE Len(b) >= H
    <3> DEFINE i == CHOOSE i \in SepAt(b, 2) : TRUE
    <3>1. b[H] = Sep
      BY <1>1, <1>2, <1>4, <1>6, <2>4
    <3>2. H - 1 \in SepAt(b, 2)
      <4>1. H - 1 \in 2..Len(b) - 1 /\ (H - 1) + 1 = H
        BY <1>1, <1>2, <2>4
      <4>2. ASSUME NEW j \in 2..(H - 1) - 1 PROVE b[j + 1] # Sep
        <5>1. j + 1 \in 3..H - 1 /\ j + 1 \in 1..Len(b)
          BY <1>1, <1>2, <2>4
        <5> QED BY <2>2, <5>1
      <4> QED
        BY <3>1, <4>1, <4>2 DEF SepAt
    <3>3. i \in SepAt(b, 2)
      BY <3>2
    <3>4. Parsed(b) = Header("NO_DATA", p.command, i + 1, Atoi(SubSeq(b, 3, i)))
      BY <1>11, <2>1, <3>2 DEF AfterSize
    <3> HIDE DEF i
    <3>5. i \in 2..Len(b) - 1 /\ b[i + 1] = Sep /\ \A j \in 2..i - 1 : b[j + 1] # Sep
      BY <3>3, SepAtType
    <3>6. i = H - 1
      <4>1. ~(i < H - 1)
        <5> SUFFICES ASSUME i < H - 1 PROVE FALSE
          OBVIOUS
        <5>1. i + 1 \in 3..H - 1 /\ i + 1 \in 1..Len(b)
          BY <1>1, <1>2, <3>5
        <5> QED BY <2>2, <3>5, <5>1
      <4>2. ~(i > H - 1)
        <5> SUFFICES ASSUME i > H - 1 PROVE FALSE
          OBVIOUS
        <5>1. H - 1 \in 2..i - 1 /\ (H - 1) + 1 = H
          BY <1>1, <1>2, <3>5
        <5> QED BY <3>1, <3>5, <5>1
      <4> QED
        BY <1>2, <3>5, <4>1, <4>2
    <3> DEFINE x == SubSeq(b, 3, i)
    <3>7. x = dg
      <4>1. 3 \in 1..Len(b) + 1 /\ i \in 3 - 1..Len(b) /\ i - 3 + 1 = Len(dg)
        BY <1>1, <1>2, <1>3, <2>4, <3>5, <3>6
      <4>2. x \in Seq(Bytes) /\ Len(x) = i - 3 + 1 /\ \A j \in 1..i - 3 + 1 : x[j] = b[3 + j - 1]
        BY <4>1, SubSeqOf
      <4> HIDE DEF x
      <4>3. ASSUME NEW j \in 1..Len(dg) PROVE x[j] = dg[j]
        <5>1. 3 + j - 1 \in 3..H - 1 /\ 3 + j - 1 \in 1..Len(b) /\ (3 + j - 1) - 2 = j
          BY <1>1, <1>2, <1>3, <2>4
        <5>2. x[j] = b[3 + j - 1]
          BY <4>1, <4>2
        <5> QED
          BY <2>2, <5>1, <5>2
      <4>4. Len(x) = Len(dg) /\ x = [j \in 1..Len(x) |-> x[j]] /\ dg = [j \in 1..Len(dg) |-> dg[j]]
        BY <1>3, <4>1, <4>2
      <4> QED
        BY <4>3, <4>4
    <3>8. Parsed(b) = Header("NO_DATA", p.command, H, n)
      <4>1. i + 1 = H
        BY <1>2, <3>6
      <4>2. Atoi(x) = n
        BY <1>5, <3>7
      <4> QED
        BY <3>4, <4>1, <4>2
    <3> QED
      BY <1>1, <1>2, <2>4, <3>8 DEF Header, p, H, n
  <2> QED
    BY <1>1, <1>2, <2>3, <2>4
<1> QED
  BY <1>13, <1>14

(* One run of fs_data_received for a well-formed client. *)
LEMMA HandlerInStep ==
    ASSUME OrderInv, Handler, NEW c \in Conns, m_pClient = c, WellFormed(script[c])
    PROVE  /\ InStep(script[c], Len(log'[c]), m_DataBuffer', pending', tosend[c])
           /\ HeaderKnown(script[c], Len(log[c]))'
           /\ Executed(log'[c], script[c])
           /\ Len(log[c]) + 1 \in 1..Len(script[c])
           /\ \/ /\ Len(log'[c]) = Len(log[c])
                 /\ Len(m_DataBuffer') + Len(pending') = Len(m_DataBuffer) + Len(pending)
              \/ /\ Len(log'[c]) = Len(log[c]) + 1
                 /\ Len(m_DataBuffer') + Len(pending') + Len(Encode(script[c][Len(log[c]) + 1]))
                        = Len(m_DataBuffer) + Len(pending)
<1> USE FileServerAssumption
<1> DEFINE sc == script[c]
           k == Len(log[c])
           b == Filled
           h == Parsed(b)
           p == sc[k + 1]
           e == Encode(p)
           H == HeaderLen(p)
<1>1. /\ ServerInv /\ BufferTypes /\ WireTypes /\ handling = c /\ pending # <<>> /\ ~faulted
      /\ sc \in Seq(CommandRecords) /\ Printable(sc) /\ tosend[c] \in Seq(Bytes) /\ pending \in Seq(Bytes)
      /\ log[c] \in Seq(Logged) /\ log \in [Conns -> Seq(Logged)] /\ k \in Nat
  BY HandlerShape DEF OrderInv, ServerInv, SlotInv, SlotServed, WireTypes
<1>2. InStep(sc, k, m_DataBuffer, pending, tosend[c]) /\ HeaderKnown(sc, k) /\ Executed(log[c], sc)
  BY <1>1 DEF OrderInv, Synchronised, AllExecuted
<1>3. /\ b \in Seq(Bytes) /\ Rest \in Seq(Bytes) /\ Len(b) = Len(m_DataBuffer) + Copied
      /\ Copied \in 0..Len(pending) /\ Len(m_DataBuffer) \in Nat /\ Len(b) \in Nat /\ Len(b) <= MaxBufferSize
      /\ Copied = Len(pending) \/ Len(b) = MaxBufferSize
      /\ Len(Rest) = Len(pending) - Copied /\ Len(pending) \in Nat /\ Len(pending) # 0
  BY <1>1, FilledType DEF BufferTypes
<1>4. Copied > 0 /\ b # <<>> /\ Len(b) > 0
  <2>1. Len(m_DataBuffer) < MaxBufferSize
    BY <1>2 DEF HeaderKnown
  <2>2. Copied > 0
    BY <1>3, <2>1
  <2>3. Len(b) > 0
    BY <1>3, <2>2
  <2> QED
    BY <2>2, <2>3
<1>5. k \in 0..Len(sc) /\ InStep(sc, k, b, Rest, tosend[c])
  <2>1. k \in 0..Len(sc)
    BY <1>2 DEF InStep
  <2> HIDE DEF sc, k
  <2> QED
    BY <1>1, <1>2, <2>1, CopyInStep
<1>6. /\ k \in 0..Len(sc) - 1 /\ k + 1 \in 1..Len(sc) /\ p \in CommandRecords
      /\ DigitFor(Len(p.payload)) \in Seq(DOMAIN Digits)
      /\ \A i \in 1..Len(b) : i <= Len(e) => b[i] = e[i]
  <2> HIDE DEF sc, k, b
  <2> QED
    BY <1>1, <1>3, <1>4, <1>5, NextCommand
<1>7. p.command \in Commands /\ Len(e) <= MaxBufferSize /\ \A j \in 1..Len(p.payload) : p.payload[j] # Zero
  BY <1>6 DEF WellFormed
<1>8. ~TooShort(b) => /\ Len(b) < H => h.state = "NO_SIZE" /\ h.command = p.command /\ h.rp = 2
                      /\ Len(b) >= H => /\ h.state = "NO_DATA" /\ h.command = p.command
                                        /\ h.rp = H /\ h.payload = Len(p.payload)
  <2>1. Len(m_DataBuffer) <= Len(b)
    BY <1>3
  <2> HIDE DEF sc, k, b
  <2> QED
    BY <1>1, <1>2, <1>3, <1>6, <1>7, <2>1, ParsedNext
<1>9. /\ e \in Seq(Bytes) /\ H \in Nat /\ H >= 3 /\ Len(e) = H + Len(p.payload) /\ Len(p.payload) \in Nat
      /\ \A i \in 1..Len(p.payload) : e[H + i] = p.payload[i]
      /\ p.payload \in Seq(Bytes)
  <2>1. p \in CommandRecords /\ DigitFor(Len(p.payload)) \in Seq(DOMAIN Digits)
    BY <1>6
  <2> HIDE DEF p
  <2>2. p.payload \in Seq(Bytes)
    BY <2>1 DEF CommandRecords
  <2> QED
    BY <2>1, <2>2, Encoded
<1>10. Len(b) < MaxBufferSize => Rest = <<>> /\ Len(Rest) = 0
  BY <1>3
<1>11. /\ \/ DataNoRoom
          \/ DataNoHeader(b, h)
          \/ DataIncomplete(b, h)
          \/ \E ok : HasPacket(b, h) /\ Answer(b, h, ok)
  BY DEF Handler, OpenFile, WriteFile, CloseFile, RunLua, UnknownCommand
<1> HIDE DEF b, h, sc, k, p, e, H
<1>12. CASE DataNoRoom
  BY <1>4, <1>12 DEF DataNoRoom
<1>13. CASE DataNoHeader(b, h) \/ DataIncomplete(b, h)
  <2>1. m_DataBuffer' = b /\ log' = log
    BY <1>13 DEF DataNoHeader, DataIncomplete, SaveHeader
  <2>2. Len(b) < MaxBufferSize
    <3>1. CASE DataNoHeader(b, h)
      <4>1. CASE TooShort(b)
        BY <1>3, <4>1 DEF TooShort
      <4>2. CASE ~TooShort(b)
        <5>1. Len(b) < H
          BY <1>3, <1>8, <1>9, <3>1, <4>2 DEF DataNoHeader
        <5> QED
          BY <1>3, <1>7, <1>9, <5>1
      <4> QED BY <4>1, <4>2
    <3>2. CASE DataIncomplete(b, h)
      <4>1. ~TooShort(b) /\ h.state = "NO_DATA" /\ Len(b) - h.rp < h.payload
        BY <3>2 DEF DataIncomplete
      <4>2. Len(b) >= H
        BY <1>3, <1>8, <1>9, <4>1
      <4>3. Len(b) - H < Len(p.payload)
        BY <1>8, <4>1, <4>2
      <4> QED
        BY <1>3, <1>7, <1>9, <4>3
    <3> QED BY <1>13, <3>1, <3>2
  <2>3. pending' = Rest
    BY <1>10, <1>13, <2>2 DEF DataNoHeader, DataIncomplete, Continue
  <2>4. Len(log'[c]) = k /\ script' = script
    BY <2>1, <1>13 DEF k, DataNoHeader, DataIncomplete, client
  <2>5. HeaderKnown(script[c], Len(log[c]))'
    <3>1. CASE TooShort(b)
      <4>1. UNCHANGED <<m_ReadPoint, m_Payload, m_State, m_Command>> /\ m_State = "NO_COMMAND"
        BY <1>13, <3>1 DEF DataNoHeader, DataIncomplete, TooShort
      <4> QED
        BY <2>1, <2>2, <4>1 DEF HeaderKnown
    <3>2. CASE ~TooShort(b)
      <4>1. SaveHeader(b, h)
        BY <1>13, <3>2 DEF DataNoHeader, DataIncomplete
      <4>2. h.command = p.command /\ (h.state = "NO_SIZE" \/ h.state = "NO_DATA")
        BY <1>3, <1>8, <1>9, <3>2
      <4>3. (h.state = "NO_SIZE" => h.rp = 2) /\ (h.state = "NO_DATA" => h.rp = H /\ h.payload = Len(p.payload))
        BY <1>3, <1>8, <1>9, <3>2
      <4>4. script'[c] = sc /\ k < Len(sc) /\ p = sc[k + 1] /\ H = HeaderLen(p)
        BY <1>1, <1>6, <2>4 DEF sc, p, H
      <4> QED
        BY <2>1, <2>2, <2>4, <4>1, <4>2, <4>3, <4>4 DEF HeaderKnown, SaveHeader
    <3> QED BY <3>1, <3>2
  <2>6. Len(m_DataBuffer') + Len(pending') = Len(m_DataBuffer) + Len(pending)
    BY <1>3, <2>1, <2>3
  <2> QED
    BY <1>2, <1>5, <1>6, <2>1, <2>3, <2>4, <2>5, <2>6 DEF sc, k
<1>14. CASE \E ok : HasPacket(b, h) /\ Answer(b, h, ok)
  <2>1. PICK ok : HasPacket(b, h) /\ Answer(b, h, ok)
    BY <1>14
  <2> DEFINE L == Len(e)
             r == SubSeq(b, L + 1, Len(b))
             x == [command |-> h.command, payload |-> Payload(b, h), ok |-> ok,
                   packet |-> SubSeq(b, 1, PacketLen(h))]
  <2>2. /\ ~TooShort(b) /\ Len(b) >= H /\ h.command = p.command /\ h.rp = H /\ h.payload = Len(p.payload)
    BY <1>3, <1>8, <1>9, <2>1 DEF HasPacket
  <2>3. PacketLen(h) = L /\ L \in Nat /\ L <= Len(b) /\ L >= 3
    BY <1>3, <1>9, <2>1, <2>2 DEF PacketLen, HasPacket
  <2>4. SubSeq(b, 1, L) = e
    <3> DEFINE y == SubSeq(b, 1, L)
    <3>1. 1 \in 1..Len(b) + 1 /\ L \in 1 - 1..Len(b) /\ L - 1 + 1 = L
      BY <1>3, <2>3
    <3>2. y \in Seq(Bytes) /\ Len(y) = L /\ \A i \in 1..L : y[i] = b[1 + i - 1]
      BY <1>3, <3>1, SubSeqOf
    <3> HIDE DEF y
    <3>3. ASSUME NEW i \in 1..L PROVE y[i] = e[i]
      <4>1. 1 + i - 1 = i /\ i \in 1..Len(b) /\ i <= Len(e)
        BY <1>3, <2>3
      <4> QED BY <1>6, <3>2, <4>1
    <3>4. y = [i \in 1..L |-> y[i]] /\ e = [i \in 1..L |-> e[i]]
      BY <1>9, <3>2
    <3>5. y = e
      BY <3>3, <3>4
    <3> QED BY <3>5 DEF y
  <2>5. Payload(b, h) = p.payload
    <3> DEFINE y == SubSeq(b, H + 1, L)
    <3>1. H + 1 \in 1..Len(b) + 1 /\ L \in (H + 1) - 1..Len(b) /\ L - (H + 1) + 1 = Len(p.payload)
      BY <1>3, <1>9, <2>3
    <3>2. y \in Seq(Bytes) /\ Len(y) = Len(p.payload) /\ \A i \in 1..Len(p.payload) : y[i] = b[H + 1 + i - 1]
      BY <1>3, <3>1, SubSeqOf
    <3>3. Payload(b, h) = CString(y)
      BY <2>2, <2>3 DEF Payload
    <3> HIDE DEF y
    <3>4. ASSUME NEW i \in 1..Len(p.payload) PROVE y[i] = p.payload[i]
      <4>1. H + 1 + i - 1 = H + i /\ H + i \in 1..Len(b) /\ H + i <= Len(e)
        BY <1>3, <1>9, <2>3
      <4>2. b[H + i] = e[H + i] /\ e[H + i] = p.payload[i]
        BY <1>6, <1>9, <4>1
      <4> QED BY <3>2, <4>1, <4>2
    <3>5. y = [i \in 1..Len(p.payload) |-> y[i]] /\ p.payload = [i \in 1..Len(p.payload) |-> p.payload[i]]
      <4> DEFINE pl == p.payload
      <4>1. pl \in Seq(Bytes) /\ y \in Seq(Bytes) /\ Len(y) = Len(pl)
        BY <1>9, <3>2
      <4> HIDE DEF pl
      <4>2. y = [i \in 1..Len(pl) |-> y[i]] /\ pl = [i \in 1..Len(pl) |-> pl[i]]
        BY <4>1
      <4> QED
        BY <4>2 DEF pl
    <3>6. y = p.payload
      BY <3>4, <3>5
    <3> QED
      BY <1>7, <3>2, <3>3, <3>6, CStringOf
  <2>6. /\ log' = [log EXCEPT ![c] = Append(@, x)]
        /\ m_DataBuffer' = r /\ pending' = Rest /\ m_State' = "NO_COMMAND"
        /\ UNCHANGED <<tosend, script>>
    BY <1>1, <2>1, <2>3 DEF Answer, Reply, Continue, client
  <2>7. x.command = p.command /\ x.payload = p.payload /\ x.packet = e
    BY <2>2, <2>3, <2>4, <2>5
  <2> HIDE DEF x
  <2>8. log'[c] = Append(log[c], x)
    BY <1>1, <2>6
  <2>9. /\ Len(log'[c]) = k + 1 /\ log'[c][k + 1] = x
        /\ \A i \in 1..k : log'[c][i] = log[c][i]
    BY <1>1, <2>8 DEF k
  <2>10. Executed(log'[c], sc)
    <3>1. k + 1 <= Len(sc)
      BY <1>1, <1>6
    <3>2. ASSUME NEW i \in 1..k + 1
          PROVE  /\ log'[c][i].command = sc[i].command /\ log'[c][i].payload = sc[i].payload
                 /\ log'[c][i].packet = Encode(sc[i])
      <4>1. CASE i = k + 1
        BY <2>7, <2>9, <4>1 DEF p, e
      <4>2. CASE i # k + 1
        <5>1. i \in 1..k
          BY <1>1, <4>2
        <5> QED
          BY <1>2, <2>9, <5>1 DEF Executed, k
      <4> QED BY <4>1, <4>2
    <3> QED
      BY <2>9, <3>1, <3>2 DEF Executed
  <2>11. /\ r \in Seq(Bytes) /\ Len(r) = Len(b) - L
         /\ \A i \in 1..Len(b) - L : r[i] = b[L + i]
    <3>1. L + 1 \in 1..Len(b) + 1 /\ Len(b) \in (L + 1) - 1..Len(b) /\ Len(b) - (L + 1) + 1 = Len(b) - L
      BY <1>3, <2>3
    <3>2. r \in Seq(Bytes) /\ Len(r) = Len(b) - L /\ \A i \in 1..Len(b) - L : r[i] = b[L + 1 + i - 1]
      BY <1>3, <3>1, SubSeqOf
    <3>3. \A i \in 1..Len(b) - L : L + 1 + i - 1 = L + i
      BY <2>3
    <3> QED BY <3>2, <3>3
  <2> HIDE DEF r
  <2>12. InStep(sc, k + 1, r, Rest, tosend[c])
    <3> DEFINE o == Len(Enc(sc)[k])
               q == Len(Enc(sc)[k + 1])
               w == Stream(sc)
               R == Len(Rest)
               Q == Len(tosend[c])
    <3>1. o \in Nat /\ q = o + L /\ R \in Nat /\ Q \in Nat
      <4>1. o \in Nat /\ q = o + Len(Encode(sc[k + 1]))
        BY <1>1, <1>6, CommandAt
      <4>2. R \in Nat /\ Q \in Nat
        BY <1>1, <1>3
      <4> QED
        BY <4>1, <4>2 DEF p, e
    <3>2. /\ o + Len(b) + R + Q <= Len(w)
          /\ \A i \in 1..Len(b) : b[i] = w[o + i]
          /\ \A i \in 1..R : Rest[i] = w[o + Len(b) + i]
          /\ \A i \in 1..Q : tosend[c][i] = w[o + Len(b) + R + i]
      BY <1>5 DEF InStep
    <3> HIDE DEF o, q, w, R, Q, L
    <3>3. q + Len(r) + R + Q = o + Len(b) + R + Q /\ q + Len(r) = o + Len(b) /\ q + Len(r) + R = o + Len(b) + R
      <4>1. o \in Nat /\ L \in Nat /\ Len(b) \in Nat /\ q = o + L /\ R \in Nat /\ Q \in Nat
        BY <1>3, <2>3, <3>1
      <4>2. Len(r) = Len(b) - L
        BY <2>11
      <4>3. q + Len(r) = o + Len(b)
        BY <4>1, <4>2
      <4> QED
        BY <4>3
    <3>4. ASSUME NEW i \in 1..Len(r) PROVE r[i] = w[q + i]
      <4>1. L + i \in 1..Len(b) /\ o + (L + i) = q + i /\ i \in 1..Len(b) - L
        BY <1>3, <2>3, <2>11, <3>1
      <4>2. r[i] = b[L + i] /\ b[L + i] = w[o + (L + i)]
        BY <2>11, <3>2, <4>1
      <4> QED BY <4>1, <4>2
    <3>5. \A i \in 1..R : Rest[i] = w[q + Len(r) + i]
      BY <3>2, <3>3
    <3>6. \A i \in 1..Q : tosend[c][i] = w[q + Len(r) + R + i]
      BY <3>2, <3>3
    <3>7. k + 1 \in 0..Len(sc)
      BY <1>1, <1>6
    <3> QED
      BY <3>2, <3>3, <3>4, <3>5, <3>6, <3>7 DEF InStep, q, w, R, Q
  <2>13. HeaderKnown(script[c], Len(log[c]))'
    <3>1. Len(r) < MaxBufferSize
      BY <1>3, <2>3, <2>11
    <3> QED
      BY <2>6, <3>1 DEF HeaderKnown
  <2>14. Len(m_DataBuffer') + Len(pending') + L = Len(m_DataBuffer) + Len(pending)
    <3>1. m_DataBuffer' = r /\ pending' = Rest
      BY <2>6
    <3>2. Len(r) = Len(b) - L /\ L \in Nat /\ L <= Len(b)
      BY <2>3, <2>11
    <3> DEFINE B == Len(m_DataBuffer)
               P == Len(pending)
               C == Copied
               D == Len(b)
               R == Len(Rest)
    <3>3. B \in Nat /\ P \in Nat /\ C \in Nat /\ D = B + C /\ R = P - C
      BY <1>3
    <3> HIDE DEF L, B, P, C, D, R
    <3>4. (D - L) + R + L = B + P
      BY <3>2, <3>3
    <3> QED
      BY <3>1, <3>2, <3>4 DEF B, P, D, R
  <2> QED
    BY <1>6, <2>6, <2>9, <2>10, <2>12, <2>13, <2>14 DEF sc, k, p, e
<1> QED
  BY <1>11, <1>12, <1>13, <1>14

(* The log changes for the connection handled only. *)
LEMMA HandlerLog ==
    ASSUME ServerInv, Handler
    PROVE  \A d \in Conns : d # handling => log'[d] = log[d]
<1> DEFINE b == Filled
           h == Parsed(b)
<1>1. \/ DataNoRoom
      \/ DataNoHeader(b, h)
      \/ DataIncomplete(b, h)
      \/ \E ok : Answer(b, h, ok)
  BY DEF Handler, OpenFile, WriteFile, CloseFile, RunLua, UnknownCommand
<1> HIDE DEF b, h
<1>2. log \in [Conns -> Seq(Logged)]
  BY DEF ServerInv, WireTypes
<1>3. CASE DataNoRoom \/ DataNoHeader(b, h) \/ DataIncomplete(b, h)
  BY <1>3 DEF DataNoRoom, DataNoHeader, DataIncomplete
<1>4. CASE \E ok : Answer(b, h, ok)
  <2>1. PICK x : log' = [log EXCEPT ![handling] = x]
    BY <1>4 DEF Answer, Reply
  <2> QED
    BY <1>2, <2>1
<1> QED
  BY <1>1, <1>3, <1>4

(* fs_data_received keeps the client in step. *)
LEMMA OrderHandler ==
    ASSUME OrderInv, Handler
    PROVE  OrderInv'
<1>1. ServerInv'
  BY ServerHandler DEF OrderInv
<1>2. UNCHANGED <<m_pClient, tosend, script>> /\ handling = m_pClient
  BY HandlerShape DEF client, OrderInv, ServerInv, SlotInv, SlotServed
<1>3. Synchronised'
  <2> SUFFICES ASSUME NEW c \in Conns, m_pClient' = c, WellFormed(script'[c])
               PROVE  /\ InStep(script'[c], Len(log'[c]), m_DataBuffer', pending', tosend'[c])
                      /\ HeaderKnown(script[c], Len(log[c]))'
    BY DEF Synchronised
  <2> QED
    BY <1>2, HandlerInStep
<1>4. AllExecuted'
  <2> SUFFICES ASSUME NEW c \in Conns, WellFormed(script'[c]) PROVE Executed(log'[c], script'[c])
    BY DEF AllExecuted
  <2>1. CASE c = handling
    BY <1>2, <2>1, HandlerInStep
  <2>2. CASE c # handling
    BY <1>2, <2>2, HandlerLog DEF OrderInv, AllExecuted
  <2> QED
    BY <2>1, <2>2
<1> QED
  BY <1>1, <1>3, <1>4 DEF OrderInv

(* A new client is in step from its first byte on. *)
LEMMA OrderAccept ==
    ASSUME OrderInv, NEW c \in Conns, NEW sc \in Seq(CommandRecords), Printable(sc),
           NEW bytes \in Seq(Bytes), InStep(sc, 0, <<>>, <<>>, bytes), Accept(c, sc, bytes)
    PROVE  OrderInv'
<1> USE FileServerAssumption
<1>1. ServerInv'
  BY ServerAccept DEF OrderInv
<1>2. handling = NoClient /\ pending = <<>> /\ conn[c] = "free" /\ m_pClient # c /\ ~faulted
      /\ UNCHANGED <<pending, m_DataBuffer, m_ReadPoint, m_Payload, m_State, m_Command>>
  BY DEF Accept, Quiet, OrderInv, ServerInv, SlotInv, SlotMatches, SlotServed, parser
<1>3. CASE UNCHANGED <<m_pClient, script, tosend, log>>
  BY <1>1, <1>2, <1>3 DEF OrderInv, Synchronised, AllExecuted, HeaderKnown
<1>4. CASE ~UNCHANGED <<m_pClient, script, tosend, log>>
  <2>1. /\ ClientConnected(c)
        /\ script' = [Living(script) EXCEPT ![c] = sc]
        /\ tosend' = [Living(tosend) EXCEPT ![c] = bytes]
        /\ log' = Living(log)
    BY <1>4 DEF Accept
  <2>2. /\ script'[c] = sc /\ tosend'[c] = bytes /\ log'[c] = <<>>
        /\ \A d \in Conns : d # c =>
              IF conn[d] = "free" THEN script'[d] = <<>> /\ log'[d] = <<>>
              ELSE script'[d] = script[d] /\ log'[d] = log[d] /\ tosend'[d] = tosend[d]
    BY <1>2, <2>1 DEF Living
  <2>3. Executed(<<>>, <<>>) /\ Executed(<<>>, sc)
    BY DEF Executed
  <2>4. AllExecuted'
    <3> SUFFICES ASSUME NEW d \in Conns, WellFormed(script'[d]) PROVE Executed(log'[d], script'[d])
      BY DEF AllExecuted
    <3> QED
      BY <2>2, <2>3 DEF OrderInv, AllExecuted
  <2>5. Synchronised'
    <3> SUFFICES ASSUME NEW d \in Conns, m_pClient' = d, WellFormed(script'[d])
                 PROVE  /\ InStep(script'[d], Len(log'[d]), m_DataBuffer', pending', tosend'[d])
                        /\ HeaderKnown(script[d], Len(log[d]))'
      BY DEF Synchronised
    <3>1. CASE m_pClient = NoClient
      <4>1. d = c /\ m_DataBuffer = <<>> /\ m_State = "NO_COMMAND"
        BY <2>1, <3>1 DEF ClientConnected, OrderInv, ServerInv, SlotInv, FreshSlot
      <4>2. HeaderKnown(script[d], Len(log[d]))'
        BY <1>2, <4>1 DEF HeaderKnown
      <4> QED
        BY <1>2, <2>2, <4>1, <4>2
    <3>2. CASE m_pClient # NoClient
      <4>1. m_pClient = d /\ d # c
        BY <1>2, <2>1, <3>2 DEF ClientConnected
      <4>2. conn[d] # "free"
        BY <4>1 DEF OrderInv, ServerInv, SlotInv, SlotMatches
      <4>3. script'[d] = script[d] /\ log'[d] = log[d] /\ tosend'[d] = tosend[d]
        BY <2>2, <4>1, <4>2
      <4>4. InStep(script[d], Len(log[d]), m_DataBuffer, pending, tosend[d]) /\ HeaderKnown(script[d], Len(log[d]))
        BY <1>2, <4>1, <4>3 DEF OrderInv, Synchronised
      <4> QED
        BY <1>2, <4>3, <4>4 DEF HeaderKnown
    <3> QED
      BY <3>1, <3>2
  <2> QED
    BY <1>1, <2>4, <2>5 DEF OrderInv
<1> QED
  BY <1>3, <1>4

(* A segment moves bytes from the wire to the handler. *)
LEMMA OrderReceive ==
    ASSUME OrderInv, NEW c \in Conns, NEW n \in 1..Len(tosend[c]), Receive(c, n)
    PROVE  OrderInv'
<1>1. ServerInv' /\ ServerInv
  BY ServerReceive DEF OrderInv
<1>2. /\ handling = NoClient /\ pending = <<>> /\ conn[c] = "open" /\ ~faulted
      /\ UNCHANGED <<m_pClient, m_DataBuffer, m_ReadPoint, m_Payload, m_State, m_Command, script, log>>
      /\ tosend \in [Conns -> Seq(Bytes)]
      /\ tosend' = [tosend EXCEPT ![c] = SubSeq(tosend[c], n + 1, Len(tosend[c]))]
  BY DEF Receive, Quiet, OrderInv, ServerInv, SlotInv, SlotServed, WireTypes, parser
<1>3. AllExecuted'
  BY <1>2 DEF OrderInv, AllExecuted
<1>4. Synchronised'
  <2> SUFFICES ASSUME NEW d \in Conns, m_pClient = d, WellFormed(script[d])
               PROVE  /\ InStep(script[d], Len(log[d]), m_DataBuffer, pending', tosend'[d])
                      /\ HeaderKnown(script[d], Len(log[d]))'
    BY <1>2 DEF Synchronised
  <2>1. InStep(script[d], Len(log[d]), m_DataBuffer, pending, tosend[d]) /\ HeaderKnown(script[d], Len(log[d]))
    BY <1>2 DEF OrderInv, Synchronised
  <2>2. HeaderKnown(script[d], Len(log[d]))'
    BY <1>2, <2>1 DEF HeaderKnown
  <2>3. CASE c # d
    <3>1. ~fields[c].reverse
      BY <1>1, <1>2, <2>3 DEF ServerInv, SlotInv, SlotMatches
    <3>2. pending' = pending
      BY <3>1 DEF Receive
    <3> QED
      BY <1>2, <2>1, <2>2, <2>3, <3>2
  <2>4. CASE c = d
    <3> DEFINE sc == script[c]
               k == Len(log[c])
               o == Len(Enc(sc)[k])
               w == Stream(sc)
               t == tosend[c]
               B == Len(m_DataBuffer)
               u == SubSeq(t, 1, n)
               v == SubSeq(t, n + 1, Len(t))
    <3>1. fields[c].reverse /\ fields[c].callbacks /\ c # NoClient
      BY <1>1, <1>2, <2>4, FileServerAssumption DEF ServerInv, SlotInv, SlotMatches, SlotServed
    <3>2. pending' = u /\ tosend'[c] = v
      BY <1>2, <3>1 DEF Receive
    <3>3. /\ k \in 0..Len(sc) /\ o + B + 0 + Len(t) <= Len(w)
          /\ \A i \in 1..B : m_DataBuffer[i] = w[o + i]
          /\ \A i \in 1..Len(t) : t[i] = w[o + B + 0 + i]
      <4>1. Len(pending) = 0
        BY <1>2
      <4> QED
        BY <2>1, <2>4, <4>1 DEF InStep
    <3>4. /\ sc \in Seq(CommandRecords) /\ Printable(sc) /\ t \in Seq(Bytes) /\ Len(t) \in Nat /\ B \in Nat /\ n \in 1..Len(t)
      BY <1>1 DEF ServerInv, WireTypes, BufferTypes
    <3>5. o \in Nat /\ Len(w) \in Nat
      BY <3>3, <3>4, StreamType
    <3> HIDE DEF sc, k, o, w, t, B
    <3>6. Len(u) = n /\ \A i \in 1..n : u[i] = t[i]
      <4>1. 1 \in 1..Len(t) + 1 /\ n \in 1 - 1..Len(t) /\ n - 1 + 1 = n
        BY <3>4
      <4>2. Len(u) = n /\ \A i \in 1..n : u[i] = t[1 + i - 1]
        BY <3>4, <4>1, SubSeqOf
      <4>3. \A i \in 1..n : 1 + i - 1 = i
        OBVIOUS
      <4> QED BY <4>2, <4>3
    <3>7. Len(v) = Len(t) - n /\ \A i \in 1..Len(t) - n : v[i] = t[n + i]
      <4>1. n + 1 \in 1..Len(t) + 1 /\ Len(t) \in (n + 1) - 1..Len(t) /\ Len(t) - (n + 1) + 1 = Len(t) - n
        BY <3>4
      <4>2. Len(v) = Len(t) - n /\ \A i \in 1..Len(t) - n : v[i] = t[n + 1 + i - 1]
        BY <3>4, <4>1, SubSeqOf
      <4>3. \A i \in 1..Len(t) - n : n + 1 + i - 1 = n + i
        BY <3>4
      <4> QED BY <4>2, <4>3
    <3> HIDE DEF u, v
    <3>8. o + B + Len(u) + Len(v) <= Len(w)
      BY <3>3, <3>4, <3>5, <3>6, <3>7
    <3>9. ASSUME NEW i \in 1..Len(u) PROVE u[i] = w[o + B + i]
      <4>1. i \in 1..Len(t) /\ o + B + 0 + i = o + B + i
        BY <3>4, <3>5, <3>6
      <4> QED BY <3>3, <3>6, <4>1
    <3>10. ASSUME NEW i \in 1..Len(v) PROVE v[i] = w[o + B + Len(u) + i]
      <4>1. n + i \in 1..Len(t) /\ o + B + 0 + (n + i) = o + B + Len(u) + i /\ i \in 1..Len(t) - n
        BY <3>4, <3>5, <3>6, <3>7
      <4>2. v[i] = t[n + i] /\ t[n + i] = w[o + B + 0 + (n + i)]
        BY <3>3, <3>7, <4>1
      <4> QED BY <4>1, <4>2
    <3>11. InStep(sc, k, m_DataBuffer, u, v)
      BY <3>3, <3>8, <3>9, <3>10 DEF InStep, o, w, B
    <3> QED
      BY <2>2, <2>4, <3>2, <3>11 DEF sc, k
  <2> QED
    BY <2>3, <2>4
<1> QED
  BY <1>1, <1>3, <1>4 DEF OrderInv

(* The other steps end the client's turn or do not touch it. *)
LEMMA OrderKept ==
    ASSUME OrderInv, ServerInv',
           \/ /\ UNCHANGED <<m_pClient, pending, m_DataBuffer, m_ReadPoint, m_Payload, m_State, m_Command, tosend, script, log>>
              /\ faulted => faulted'
           \/ m_pClient' = NoClient /\ UNCHANGED <<script, log>>
           \/ m_pClient' = NoClient /\ script' = [c \in Conns |-> <<>>] /\ log' = [c \in Conns |-> <<>>]
    PROVE  OrderInv'
<1>1. CASE /\ UNCHANGED <<m_pClient, pending, m_DataBuffer, m_ReadPoint, m_Payload, m_State, m_Command, tosend, script, log>>
           /\ faulted => faulted'
  BY <1>1 DEF OrderInv, Synchronised, AllExecuted, HeaderKnown
<1>2. CASE m_pClient' = NoClient
  <2>1. Synchronised'
    BY <1>2, FileServerAssumption DEF Synchronised
  <2>2. AllExecuted'
    <3>1. CASE UNCHANGED <<script, log>>
      BY <3>1 DEF OrderInv, AllExecuted
    <3>2. CASE script' = [c \in Conns |-> <<>>] /\ log' = [c \in Conns |-> <<>>]
      <4>1. Executed(<<>>, <<>>)
        BY DEF Executed
      <4> QED
        BY <3>2, <4>1 DEF AllExecuted
    <3> QED
      BY <3>1, <3>2
  <2> QED
    BY <2>1, <2>2 DEF OrderInv
<1> QED
  BY <1>1, <1>2

(* Ends of connections, the console, stop() and a restart. *)
LEMMA OrderOther ==
    ASSUME OrderInv, (\E c \in Conns : CloseConn(c) \/ FailConn(c) \/ EndConn(c)) \/ Console \/ Stop \/ Restart
    PROVE  OrderInv'
<1>1. ServerInv'
  BY ServerConn, ServerRest DEF OrderInv
<1>2. ASSUME NEW c \in Conns, CloseConn(c) \/ FailConn(c) \/ EndConn(c) PROVE OrderInv'
  <2>1. UNCHANGED <<pending, tosend, script, log>>
    BY <1>2 DEF CloseConn, FailConn, EndConn, client
  <2>2. \/ UNCHANGED <<m_pClient, m_DataBuffer, m_ReadPoint, m_Payload, m_State, m_Command>>
        \/ m_pClient' = NoClient
    BY <1>2 DEF CloseConn, FailConn, EndConn, ClientDisconnected, parser
  <2>3. ~faulted
    BY <1>2 DEF CloseConn, FailConn, EndConn, Quiet
  <2> QED
    BY <1>1, <2>1, <2>2, <2>3, OrderKept
<1>3. CASE Console \/ Stop
  BY <1>1, <1>3, OrderKept DEF Console, Stop, parser, client
<1>4. CASE Restart
  BY <1>1, <1>4, OrderKept DEF Restart
<1> QED
  BY <1>2, <1>3, <1>4

(* A client that connects has its whole stream before it. *)
LEMMA StartsInStep ==
    ASSUME NEW sc \in Seq(CommandRecords), Printable(sc)
    PROVE  InStep(sc, 0, <<>>, <<>>, Stream(sc)) /\ InStep(sc, 0, <<>>, <<>>, <<>>)
<1> DEFINE w == Stream(sc)
           o == Len(Enc(sc)[0])
<1>1. 0 \in 0..Len(sc) /\ Len(<<>>) = 0
  OBVIOUS
<1>2. o = 0 /\ Len(w) \in Nat
  BY <1>1, StreamUnfolds, StreamType
<1> HIDE DEF w, o
<1>3. o + Len(<<>>) + Len(<<>>) + Len(w) <= Len(w) /\ \A i \in 1..Len(w) : w[i] = w[o + Len(<<>>) + Len(<<>>) + i]
  BY <1>1, <1>2
<1>4. o + Len(<<>>) + Len(<<>>) + Len(<<>>) <= Len(w)
  BY <1>1, <1>2
<1> QED
  BY <1>1, <1>3, <1>4 DEF InStep, w, o

(* Every step keeps clients in step. *)
LEMMA OrderStep ==
    ASSUME OrderInv, [Next]_vars
    PROVE  OrderInv'
<1>1. ASSUME NEW c \in Conns, NEW sc \in Scripts, Connect(c, sc) PROVE OrderInv'
  <2>1. sc \in Seq(CommandRecords) /\ Printable(sc)
    BY FileServerAssumption DEF CommandRecords, Printable
  <2>2. 0 \in 0..Len(sc)
    BY <2>1
  <2>3. Stream(sc) \in Seq(Bytes)
    BY <2>1, <2>2, StreamType
  <2> QED
    BY <1>1, <2>1, <2>3, StartsInStep, OrderAccept DEF Connect
<1>2. CASE UNCHANGED vars
  <2>1. ServerInv'
    BY <1>2, ServerStep DEF OrderInv
  <2> QED
    BY <1>2, <2>1, OrderKept DEF vars, parser, client
<1> QED
  BY <1>1, <1>2, OrderReceive, OrderHandler, OrderOther DEF Next

(* fs_data_received executes the commands of a well-formed client in the   *)
(* order they were sent, none twice and none that was not sent, whatever   *)
(* segments TCP makes of them and whatever the payloads contain.           *)
THEOREM CommandsInOrder == Spec => []InOrder
<1>1. Init => OrderInv
  <2> SUFFICES ASSUME Init PROVE OrderInv
    OBVIOUS
  <2>1. Synchronised
    BY FileServerAssumption DEF Init, Synchronised
  <2>2. AllExecuted
    BY DEF Init, AllExecuted, Executed
  <2> QED
    BY <2>1, <2>2, ServerInitially DEF OrderInv
<1>2. OrderInv /\ [Next]_vars => OrderInv'
  BY OrderStep
<1>3. OrderInv => InOrder
  BY DEF OrderInv, AllExecuted, Executed, InOrder
<1> QED
  BY <1>1, <1>2, <1>3, PTL DEF Spec

-----------------------------------------------------------------------------
(* The upload tool.  First the commands it makes of a text.                *)

(* How much of s the first k commands have written. *)
Upto(s, k) == IF k <= 2 THEN 0 ELSE IF Chunk * (k - 2) < Len(s) THEN Chunk * (k - 2) ELSE Len(s)

(* A text of L bytes needs q chunks of at most C. *)
LEMMA ChunkCount ==
    ASSUME NEW L \in Nat, NEW C \in Nat, C # 0
    PROVE  LET q == (L + C - 1) \div C
           IN /\ q \in Nat /\ (q = 0 => L = 0) /\ C * q >= L
              /\ \A j \in 1..q : C * (j - 1) \in Nat /\ C * (j - 1) < L /\ C * j = C * (j - 1) + C
<1> DEFINE a == L + C - 1
           q == a \div C
           r == a % C
<1>1. a \in Nat /\ C > 0
  OBVIOUS
<1>2. a = C * q + r /\ q \in Nat /\ r \in 0..C - 1
  <2> HIDE DEF a
  <2> QED BY <1>1
<1> HIDE DEF q, r
<1>3. C * q \in Nat /\ C * q >= L /\ C * q <= a
  BY <1>1, <1>2
<1>4. q = 0 => L = 0
  <2> SUFFICES ASSUME q = 0 PROVE L = 0
    OBVIOUS
  <2>1. C * q = 0
    OBVIOUS
  <2> QED BY <1>3, <2>1
<1>5. ASSUME NEW j \in 1..q
      PROVE  C * (j - 1) \in Nat /\ C * (j - 1) < L /\ C * j = C * (j - 1) + C
  <2>1. j \in Nat /\ j >= 1 /\ q - j \in Nat
    BY <1>2
  <2>2. C * j = C * (j - 1) + C
    BY <2>1
  <2>3. C * q = C * j + C * (q - j)
    BY <1>2, <2>1
  <2>4. C * (q - j) \in Nat /\ C * (j - 1) \in Nat
    BY <2>1
  <2> QED
    BY <1>3, <2>2, <2>3, <2>4
<1> QED
  BY <1>2, <1>3, <1>4, <1>5 DEF q, a

(* Two sequences of commands, one behind the other. *)
LEMMA Joined ==
    ASSUME NEW s \in Seq(CommandRecords), NEW t \in Seq(CommandRecords)
    PROVE  /\ s \o t \in Seq(CommandRecords) /\ Len(s \o t) = Len(s) + Len(t)
           /\ Len(s) \in Nat /\ Len(t) \in Nat
           /\ \A i \in 1..Len(s) : (s \o t)[i] = s[i]
           /\ \A i \in 1..Len(t) : (s \o t)[Len(s) + i] = t[i]
<1>1. /\ s \o t \in Seq(CommandRecords) /\ Len(s \o t) = Len(s) + Len(t) /\ Len(s) \in Nat /\ Len(t) \in Nat
  OBVIOUS
<1>2. ASSUME NEW i \in 1..Len(s) PROVE (s \o t)[i] = s[i]
  OBVIOUS
<1>3. ASSUME NEW i \in 1..Len(t) PROVE (s \o t)[Len(s) + i] = t[i]
  OBVIOUS
<1> QED
  BY <1>1, <1>2, <1>3

(* A beginning of s grows by the bytes that follow it. *)
LEMMA PrefixGrows ==
    ASSUME NEW s \in Seq(Bytes), NEW a \in 0..Len(s), NEW b \in a..Len(s), NEW k \in 0..b - a
    PROVE  /\ SubSeq(s, a + 1, b) \in Seq(Bytes) /\ Len(SubSeq(s, a + 1, b)) = b - a
           /\ SubSeq(s, 1, a) \o SubSeq(SubSeq(s, a + 1, b), 1, k) = SubSeq(s, 1, a + k)
           /\ SubSeq(s, 1, a) \o SubSeq(s, a + 1, b) = SubSeq(s, 1, b)
<1> DEFINE t == SubSeq(s, a + 1, b)
           p == SubSeq(s, 1, a)
<1>0. Len(s) \in Nat /\ a \in Nat /\ b \in Nat /\ a <= b /\ b <= Len(s)
  OBVIOUS
<1>1. t \in Seq(Bytes) /\ Len(t) = b - a /\ \A i \in 1..b - a : t[i] = s[a + i]
  <2>1. a + 1 \in 1..Len(s) + 1 /\ b \in (a + 1) - 1..Len(s) /\ b - (a + 1) + 1 = b - a
    BY <1>0
  <2>2. t \in Seq(Bytes) /\ Len(t) = b - a /\ \A i \in 1..b - a : t[i] = s[(a + 1) + i - 1]
    BY <2>1, SubSeqOf
  <2>3. \A i \in 1..b - a : (a + 1) + i - 1 = a + i
    BY <1>0
  <2> QED BY <2>2, <2>3
<1>2. ASSUME NEW n \in 0..Len(s)
      PROVE  SubSeq(s, 1, n) \in Seq(Bytes) /\ Len(SubSeq(s, 1, n)) = n /\ \A i \in 1..n : SubSeq(s, 1, n)[i] = s[i]
  <2>1. 1 \in 1..Len(s) + 1 /\ n \in 1 - 1..Len(s) /\ n - 1 + 1 = n
    BY <1>0
  <2>2. SubSeq(s, 1, n) \in Seq(Bytes) /\ Len(SubSeq(s, 1, n)) = n /\ \A i \in 1..n : SubSeq(s, 1, n)[i] = s[1 + i - 1]
    BY <2>1, SubSeqOf
  <2>3. \A i \in 1..n : 1 + i - 1 = i
    BY <1>0
  <2> QED BY <2>2, <2>3
<1>3. ASSUME NEW m \in 0..b - a
      PROVE  p \o SubSeq(t, 1, m) = SubSeq(s, 1, a + m)
  <2> DEFINE u == SubSeq(t, 1, m)
             w == SubSeq(s, 1, a + m)
             x == p \o u
  <2>1. 1 \in 1..Len(t) + 1 /\ m \in 1 - 1..Len(t) /\ m - 1 + 1 = m /\ a + m \in 0..Len(s) /\ m \in Nat
    BY <1>0, <1>1
  <2>2. u \in Seq(Bytes) /\ Len(u) = m /\ \A i \in 1..m : u[i] = t[1 + i - 1]
    <3> HIDE DEF t
    <3> QED BY <1>1, <2>1, SubSeqOf
  <2>3. p \in Seq(Bytes) /\ Len(p) = a /\ \A i \in 1..a : p[i] = s[i]
    BY <1>0, <1>2
  <2>4. w \in Seq(Bytes) /\ Len(w) = a + m /\ \A i \in 1..a + m : w[i] = s[i]
    BY <1>2, <2>1
  <2> HIDE DEF u, p, w, t
  <2>5. x \in Seq(Bytes) /\ Len(x) = a + m /\ (\A i \in 1..a : x[i] = p[i]) /\ \A i \in 1..m : x[a + i] = u[i]
    <3>1. /\ x \in Seq(Bytes) /\ Len(x) = Len(p) + Len(u)
          /\ \A i \in 1..Len(p) : x[i] = p[i]
          /\ \A i \in 1..Len(u) : x[Len(p) + i] = u[i]
      BY <2>2, <2>3, Concat, Zenon
    <3> QED BY <2>2, <2>3, <3>1
  <2> HIDE DEF x
  <2>6. ASSUME NEW i \in 1..a + m PROVE x[i] = w[i]
    <3>1. CASE i <= a
      <4>1. i \in 1..a
        BY <1>0, <2>1, <3>1
      <4> QED BY <2>3, <2>4, <2>5, <4>1
    <3>2. CASE i > a
      <4>1. i - a \in 1..m /\ a + (i - a) = i /\ 1 + (i - a) - 1 = i - a /\ i - a \in 1..b - a
        BY <1>0, <2>1, <3>2
      <4>2. x[a + (i - a)] = u[i - a] /\ u[i - a] = t[i - a] /\ t[i - a] = s[a + (i - a)]
        BY <1>1, <2>2, <2>5, <4>1
      <4> QED BY <2>4, <4>1, <4>2
    <3> QED BY <1>0, <2>1, <3>1, <3>2
  <2>7. x = w
    BY <2>4, <2>5, <2>6
  <2> QED BY <2>7 DEF x, u, w
<1>4. SubSeq(t, 1, b - a) = t
  <2> HIDE DEF t
  <2>1. 1 \in 1..Len(t) + 1 /\ b - a \in 1 - 1..Len(t) /\ (b - a) - 1 + 1 = b - a
    BY <1>0, <1>1
  <2>2. SubSeq(t, 1, b - a) \in Seq(Bytes) /\ Len(SubSeq(t, 1, b - a)) = b - a /\ \A i \in 1..b - a : SubSeq(t, 1, b - a)[i] = t[1 + i - 1]
    BY <1>1, <2>1, SubSeqOf
  <2>3. \A i \in 1..b - a : 1 + i - 1 = i
    BY <1>0
  <2> QED BY <1>0, <1>1, <2>2, <2>3
<1>5. b - a \in 0..b - a /\ a + (b - a) = b
  BY <1>0
<1>6. p \o SubSeq(t, 1, b - a) = SubSeq(s, 1, a + (b - a))
  BY <1>3, <1>5
<1>7. p \o t = SubSeq(s, 1, b)
  <2> HIDE DEF t, p
  <2> QED BY <1>4, <1>5, <1>6
<1> QED
  BY <1>1, <1>3, <1>7

(* The chunks are what follows, in the text, the chunks before. *)
LEMMA ChunksOf ==
    ASSUME NEW s \in Seq(Bytes)
    PROVE  LET q == (Len(s) + Chunk - 1) \div Chunk
           IN /\ q \in Nat /\ Chunks(s) \in Seq(CommandRecords) /\ Len(Chunks(s)) = q
              /\ Upto(s, 1) = 0 /\ Upto(s, 2) = 0 /\ Upto(s, q + 2) = Len(s)
              /\ \A k \in 2..q + 1 :
                    /\ Upto(s, k) \in 0..Len(s) /\ Upto(s, k + 1) \in Upto(s, k)..Len(s)
                    /\ Chunks(s)[k - 1] = Packet("W", SubSeq(s, Upto(s, k) + 1, Upto(s, k + 1)))
<1> DEFINE L == Len(s)
           q == (L + Chunk - 1) \div Chunk
           M(j) == IF Chunk * j < L THEN Chunk * j ELSE L
<1>0. Chunk \in Nat /\ Chunk # 0 /\ L \in Nat
  BY TransferAssumption
<1>1. /\ q \in Nat /\ (q = 0 => L = 0) /\ Chunk * q >= L
      /\ \A j \in 1..q : Chunk * (j - 1) \in Nat /\ Chunk * (j - 1) < L /\ Chunk * j = Chunk * (j - 1) + Chunk
  <2> HIDE DEF L
  <2> QED BY <1>0, ChunkCount
<1>2. Chunks(s) = [i \in 1..q |-> Packet("W", SubSeq(s, Chunk * (i - 1) + 1, M(i)))]
  BY DEF Chunks
<1> HIDE DEF q
<1>3. ASSUME NEW k \in 2..q + 1
      PROVE  /\ k - 1 \in 1..q /\ Upto(s, k) = Chunk * ((k - 1) - 1) /\ Upto(s, k + 1) = M(k - 1)
             /\ Upto(s, k) \in 0..L /\ Upto(s, k + 1) \in Upto(s, k)..L
  <2> DEFINE j == k - 1
             a == Chunk * (j - 1)
             b == Chunk * j
  <2>1. j \in 1..q /\ k \in Nat /\ k - 2 = j - 1 /\ (k + 1) - 2 = j /\ ~(k + 1 <= 2) /\ j \in Nat
    BY <1>1
  <2>2. a \in Nat /\ a < L /\ b = a + Chunk
    BY <1>1, <2>1
  <2>3. k <= 2 => a = 0
    <3>1. ASSUME k <= 2 PROVE j - 1 = 0
      BY <2>1, <3>1
    <3> QED BY <1>0, <3>1
  <2>4. Upto(s, k + 1) = IF b < L THEN b ELSE L
    BY <2>1 DEF Upto
  <2>5. Upto(s, k) = a
    <3>1. Upto(s, k) = IF k <= 2 THEN 0 ELSE IF a < L THEN a ELSE L
      BY <2>1 DEF Upto
    <3> HIDE DEF a, L
    <3> QED BY <2>2, <2>3, <3>1
  <2> HIDE DEF a, b, L
  <2>6. a \in 0..L /\ (IF b < L THEN b ELSE L) \in a..L
    BY <1>0, <2>2
  <2> QED
    BY <2>1, <2>4, <2>5, <2>6 DEF a, b, L
<1>4. Upto(s, q + 2) = L
  <2>1. CASE q = 0
    <3>1. q + 2 <= 2
      BY <2>1
    <3> QED BY <1>1, <2>1, <3>1 DEF Upto
  <2>2. CASE q # 0
    <3>1. (q + 2) - 2 = q /\ ~(q + 2 <= 2)
      BY <1>1, <2>2
    <3>2. Chunk * q \in Nat /\ ~(Chunk * q < L)
      BY <1>0, <1>1
    <3> QED BY <3>1, <3>2 DEF Upto
  <2> QED BY <2>1, <2>2
<1>5. Upto(s, 1) = 0 /\ Upto(s, 2) = 0
  BY DEF Upto
<1>6. ASSUME NEW k \in 2..q + 1
      PROVE  Chunks(s)[k - 1] = Packet("W", SubSeq(s, Upto(s, k) + 1, Upto(s, k + 1)))
  <2> HIDE DEF M
  <2>1. Chunks(s)[k - 1] = Packet("W", SubSeq(s, Chunk * ((k - 1) - 1) + 1, M(k - 1)))
    BY <1>2, <1>3
  <2> QED BY <1>3, <2>1
<1>7. Chunks(s) \in Seq(CommandRecords) /\ Len(Chunks(s)) = q
  <2>1. ASSUME NEW i \in 1..q PROVE Packet("W", SubSeq(s, Chunk * (i - 1) + 1, M(i))) \in CommandRecords
    <3> DEFINE k == i + 1
               a == Upto(s, k)
               b == Upto(s, k + 1)
    <3>1. k \in 2..q + 1 /\ k - 1 = i
      BY <1>1
    <3>2. a = Chunk * (i - 1) /\ b = M(i) /\ a \in 0..L /\ b \in a..L
      BY <1>3, <3>1
    <3> HIDE DEF a, b, M
    <3>3. a + 1 \in 1..Len(s) + 1 /\ b \in (a + 1) - 1..Len(s)
      BY <1>0, <3>2
    <3>4. SubSeq(s, a + 1, b) \in Seq(Bytes)
      BY <3>3, SubSeqOf
    <3>5. "W" \in Bytes
      BY DEF Bytes, Commands
    <3> QED BY <3>2, <3>4, <3>5 DEF Packet, CommandRecords
  <2> HIDE DEF M
  <2> QED BY <1>1, <1>2, <2>1
<1> QED
  BY <1>1, <1>3, <1>4, <1>5, <1>6, <1>7 DEF q

(* The commands of prepare_file. *)
LEMMA Prepared ==
    ASSUME NEW s \in Seq(Bytes)
    PROVE  LET sc == PrepareFile(s)
               n == Len(sc)
           IN /\ sc \in Seq(CommandRecords) /\ n \in Nat /\ n >= 3
              /\ sc[1] = Packet("O", Name) /\ sc[2] = Packet("G", Remove) /\ sc[n] = Packet("C", Name)
              /\ Upto(s, 1) = 0 /\ Upto(s, 2) = 0 /\ Upto(s, n - 1) = Len(s)
              /\ \A k \in 2..n - 2 :
                    /\ Upto(s, k) \in 0..Len(s) /\ Upto(s, k + 1) \in Upto(s, k)..Len(s)
                    /\ sc[k + 1] = Packet("W", SubSeq(s, Upto(s, k) + 1, Upto(s, k + 1)))
<1> DEFINE q == (Len(s) + Chunk - 1) \div Chunk
           first == <<Packet("O", Name), Packet("G", Remove)>>
           ch == Chunks(s)
           last == <<Packet("C", Name)>>
           x == first \o ch
           sc == x \o last
<1>1. /\ q \in Nat /\ ch \in Seq(CommandRecords) /\ Len(ch) = q
      /\ Upto(s, 1) = 0 /\ Upto(s, 2) = 0 /\ Upto(s, q + 2) = Len(s)
      /\ \A k \in 2..q + 1 :
            /\ Upto(s, k) \in 0..Len(s) /\ Upto(s, k + 1) \in Upto(s, k)..Len(s)
            /\ ch[k - 1] = Packet("W", SubSeq(s, Upto(s, k) + 1, Upto(s, k + 1)))
  BY ChunksOf
<1>2. /\ first \in Seq(CommandRecords) /\ last \in Seq(CommandRecords) /\ Len(first) = 2 /\ Len(last) = 1
      /\ first[1] = Packet("O", Name) /\ first[2] = Packet("G", Remove) /\ last[1] = Packet("C", Name)
  <2>1. Packet("O", Name) \in CommandRecords /\ Packet("G", Remove) \in CommandRecords /\ Packet("C", Name) \in CommandRecords
    BY TransferAssumption DEF Packet, CommandRecords, Bytes, Commands
  <2> QED BY <2>1
<1>3. PrepareFile(s) = sc
  BY DEF PrepareFile
<1> HIDE DEF q, first, ch, last
<1>4. /\ x \in Seq(CommandRecords) /\ Len(x) = q + 2
      /\ x[1] = first[1] /\ x[2] = first[2] /\ \A i \in 1..q : x[2 + i] = ch[i]
  <2>1. /\ x \in Seq(CommandRecords) /\ Len(x) = Len(first) + Len(ch)
        /\ \A i \in 1..Len(first) : x[i] = first[i]
        /\ \A i \in 1..Len(ch) : x[Len(first) + i] = ch[i]
    BY <1>1, <1>2, Joined, Zenon
  <2> HIDE DEF x
  <2>2. 1 \in 1..Len(first) /\ 2 \in 1..Len(first) /\ Len(x) = q + 2
    BY <1>1, <1>2, <2>1
  <2> QED BY <1>1, <1>2, <2>1, <2>2
<1> HIDE DEF x
<1>5. /\ sc \in Seq(CommandRecords) /\ Len(sc) = q + 3
      /\ (\A i \in 1..q + 2 : sc[i] = x[i]) /\ sc[q + 3] = last[1]
  <2>1. /\ sc \in Seq(CommandRecords) /\ Len(sc) = Len(x) + Len(last)
        /\ \A i \in 1..Len(x) : sc[i] = x[i]
        /\ \A i \in 1..Len(last) : sc[Len(x) + i] = last[i]
    BY <1>2, <1>4, Joined, Zenon
  <2> HIDE DEF sc
  <2>2. 1 \in 1..Len(last) /\ Len(x) + 1 = q + 3 /\ Len(sc) = q + 3
    BY <1>1, <1>2, <1>4, <2>1
  <2> QED BY <1>1, <1>2, <1>4, <2>1, <2>2
<1> HIDE DEF sc
<1> DEFINE n == Len(sc)
<1>6. n \in Nat /\ n >= 3 /\ n = q + 3 /\ n - 1 = q + 2 /\ n - 2 = q + 1
  BY <1>1, <1>5
<1>7. sc[1] = Packet("O", Name) /\ sc[2] = Packet("G", Remove) /\ sc[n] = Packet("C", Name)
  <2>1. 1 \in 1..q + 2 /\ 2 \in 1..q + 2
    BY <1>1
  <2> QED BY <1>2, <1>4, <1>5, <1>6, <2>1
<1>8. ASSUME NEW k \in 2..n - 2
      PROVE  sc[k + 1] = ch[k - 1] /\ k \in 2..q + 1
  <2>1. k - 1 \in 1..q /\ k + 1 \in 1..q + 2 /\ k + 1 = 2 + (k - 1) /\ k \in 2..q + 1
    BY <1>1, <1>6
  <2> QED BY <1>4, <1>5, <2>1
<1> HIDE DEF n
<1>9. Upto(s, n - 1) = Len(s)
  BY <1>1, <1>6
<1> QED
  BY <1>1, <1>3, <1>5, <1>6, <1>7, <1>8, <1>9 DEF n

-----------------------------------------------------------------------------
(* The invariant of the tool and the server.                               *)

(* The bytes of client c that the server has not executed yet. *)
InFlight(c) == Len(m_DataBuffer) + Len(pending) + Len(tosend[c])

AllOk(l) == \A i \in 1..Len(l) : l[i].ok

Uploads == {PrepareFile(s) : s \in Sources}

(* The file after the first k commands, all of them successful. *)
FileHolds(s, k) ==
    IF k \in 1..Len(PrepareFile(s)) - 1
    THEN file_fd = Name /\ Name \in DOMAIN files /\ files[Name] = SubSeq(s, 1, Upto(s, k))
    ELSE file_fd = NoFile /\ (k # 0 => Stored = s)

(* At most one command of the client in the slot is on its way, and none   *)
(* behind one that failed; the file has grown with the commands.           *)
Uploading(c) ==
    /\ script[c] \in Uploads
    /\ InFlight(c) # 0 =>
          /\ Len(log[c]) < Len(script[c]) /\ AllOk(log[c])
          /\ InFlight(c) = Len(Encode(script[c][Len(log[c]) + 1]))
    /\ AllOk(log[c]) => \A s \in Sources : script[c] = PrepareFile(s) => FileHolds(s, Len(log[c]))

SlotUploads == \A c \in Conns : m_pClient = c /\ ~faulted => Uploading(c)

(* The "?" fields of the commands follow from two numbers. *)
StatusOf(sc, a, n) ==
    [i \in 1..Len(sc) |-> IF i <= a THEN "CONFIRMED" ELSE IF i <= n THEN "SENT" ELSE "QUEUED"]

ToolState ==
    /\ report \in {"idle", "running", "done", "failed"}
    /\ source \in Sources /\ sock \in Conns
    /\ report = "running" =>
          /\ allow_send \in BOOLEAN /\ answered \in Nat /\ send_num \in 0..Len(commands)
          /\ send_num = IF allow_send THEN answered ELSE answered + 1
          /\ status = StatusOf(commands, answered, send_num)

(* The server has executed what it was sent, or all but the last of it,    *)
(* and what the tool took for confirmed succeeded.                         *)
ToolAndServer ==
    report = "running" =>
        /\ Len(log[sock]) <= send_num /\ (log[sock] # <<>> => script[sock] = commands)
        /\ \A i \in 1..answered : i <= Len(log[sock]) => log[sock][i].ok
        /\ m_pClient = sock /\ ~faulted =>
              /\ script[sock] = commands /\ answered <= Len(log[sock])
              /\ send_num = Len(log[sock]) + (IF InFlight(sock) = 0 THEN 0 ELSE 1)

(* All commands of the tool succeeded: the file is there, and nobody can   *)
(* touch it.                                                               *)
Complete == Len(log[sock]) = Len(commands) /\ AllOk(log[sock])

Safe ==
    /\ file_fd = NoFile /\ Stored = source
    /\ m_pClient = NoClient \/ (m_pClient = sock /\ (faulted \/ InFlight(sock) = 0))

Finished == report = "done" \/ (report = "running" /\ Complete) => Safe

(* No other file is open, and the file is a beginning of a text. *)
FileSafe ==
    /\ file_fd \in {NoFile, Name}
    /\ Name \in DOMAIN files => files[Name] \in Promise!Beginnings

ServerUp == listenTcp /\ g_pServer

TransferInv ==
    /\ OrderInv /\ ServerUp /\ SlotUploads /\ FileSafe
    /\ ToolState /\ ToolAndServer /\ AnswerIntact /\ Finished

-----------------------------------------------------------------------------
(* The commands of an upload are well formed. *)
LEMMA UploadCommands ==
    ASSUME NEW s \in Sources
    PROVE  /\ s \in Seq(Bytes) /\ PrepareFile(s) \in Seq(CommandRecords)
           /\ Printable(PrepareFile(s)) /\ WellFormed(PrepareFile(s))
           /\ Len(PrepareFile(s)) \in Nat /\ Len(PrepareFile(s)) >= 3
<1>1. s \in Seq(Bytes)
  BY TransferAssumption
<1>2. Printable(PrepareFile(s)) /\ WellFormed(PrepareFile(s))
  BY UploadAssumption DEF Printable
<1> QED
  BY <1>1, <1>2, Prepared

(* What is needed of the types. *)
LEMMA WireFacts ==
    ASSUME ServerInv, NEW c \in Conns
    PROVE  /\ Len(m_DataBuffer) \in Nat /\ Len(pending) \in Nat /\ Len(tosend[c]) \in Nat
           /\ InFlight(c) \in Nat /\ Len(log[c]) \in Nat
           /\ InFlight(c) = 0 => m_DataBuffer = <<>> /\ pending = <<>> /\ tosend[c] = <<>>
           /\ pending # <<>> => InFlight(c) # 0
           /\ m_DataBuffer \in Seq(Bytes) /\ pending \in Seq(Bytes) /\ tosend[c] \in Seq(Bytes)
           /\ log[c] \in Seq(Logged) /\ c # NoClient
<1>1. /\ m_DataBuffer \in Seq(Bytes) /\ pending \in Seq(Bytes) /\ tosend[c] \in Seq(Bytes)
      /\ log[c] \in Seq(Logged) /\ c # NoClient
  BY FileServerAssumption DEF ServerInv, WireTypes, BufferTypes
<1> DEFINE x == m_DataBuffer
           y == pending
           z == tosend[c]
<1>2. Len(x) \in Nat /\ Len(y) \in Nat /\ Len(z) \in Nat /\ Len(log[c]) \in Nat
  BY <1>1
<1>3. InFlight(c) = Len(x) + Len(y) + Len(z)
  BY DEF InFlight
<1> HIDE DEF x, y, z
<1>4. InFlight(c) \in Nat /\ (InFlight(c) = 0 => Len(x) = 0 /\ Len(y) = 0 /\ Len(z) = 0) /\ (Len(y) # 0 => InFlight(c) # 0)
  BY <1>2, <1>3
<1>5. (Len(x) = 0 => x = <<>>) /\ (Len(y) = 0 => y = <<>>) /\ (Len(z) = 0 => z = <<>>)
  BY <1>1 DEF x, y, z
<1> QED
  BY <1>1, <1>2, <1>4, <1>5 DEF x, y, z

(* Nothing is in flight when three sequences of bytes are empty. *)
LEMMA NoBytes ==
    ASSUME NEW x \in Seq(Bytes), NEW y \in Seq(Bytes), NEW z \in Seq(Bytes), Len(x) + Len(y) + Len(z) = 0
    PROVE  x = <<>> /\ y = <<>> /\ z = <<>>
<1> DEFINE a == Len(x)
           b == Len(y)
           c == Len(z)
<1>1. a \in Nat /\ b \in Nat /\ c \in Nat /\ a + b + c = 0
  OBVIOUS
<1> HIDE DEF a, b, c
<1>2. a = 0 /\ b = 0 /\ c = 0
  BY <1>1
<1> QED
  BY <1>2 DEF a, b, c

(* After a step of a powered node the buffer is not touched while an       *)
(* answer is on its way.                                                   *)
LEMMA IntactAlways ==
    ASSUME ServerInv', ToolState', ToolAndServer', ~faulted'
    PROVE  AnswerIntact'
<1> SUFFICES ASSUME report' = "running", m_pClient' = sock', answered' < Len(log'[sock'])
             PROVE  m_DataBuffer' = <<>> /\ tosend'[sock'] = <<>>
  BY DEF AnswerIntact
<1> DEFINE x == m_DataBuffer'
           y == pending'
           z == tosend'[sock']
           f == Len(x) + Len(y) + Len(z)
           a == answered'
           k == Len(log'[sock'])
           n == send_num'
<1>1. sock' \in Conns /\ a \in Nat /\ (n = a \/ n = a + 1)
  BY DEF ToolState
<1>2. n = k + (IF f = 0 THEN 0 ELSE 1)
  BY DEF ToolAndServer, InFlight
<1>3. x \in Seq(Bytes) /\ y \in Seq(Bytes) /\ z \in Seq(Bytes) /\ log'[sock'] \in Seq(Logged)
  BY <1>1 DEF ServerInv, WireTypes, BufferTypes
<1>4. k \in Nat /\ a < k
  BY <1>3
<1>5. f = 0
  <2> HIDE DEF f, a, k, n
  <2> QED BY <1>1, <1>2, <1>4
<1> HIDE DEF x, y, z
<1>6. x = <<>> /\ z = <<>>
  BY <1>3, <1>5, NoBytes
<1> QED
  BY <1>6 DEF x, z

(* Steps of the server that move bytes and nothing else. *)
LEMMA SameUpload ==
    ASSUME TransferInv, OrderInv', ~faulted, ~faulted',
           UNCHANGED <<script, log, m_pClient, file_fd, files, tool, listenTcp, g_pServer>>,
           \A c \in Conns : m_pClient = c => InFlight(c)' = InFlight(c)
    PROVE  TransferInv'
<1> USE DEF tool
<1>1. ServerUp' /\ FileSafe'
  BY DEF TransferInv, ServerUp, FileSafe, Stored
<1>2. SlotUploads'
  <2> SUFFICES ASSUME NEW c \in Conns, m_pClient = c PROVE Uploading(c)'
    BY DEF SlotUploads
  <2>1. Uploading(c) /\ InFlight(c)' = InFlight(c)
    BY DEF TransferInv, SlotUploads
  <2> QED
    BY <2>1 DEF Uploading, FileHolds, Stored
<1>3. ToolState'
  BY DEF TransferInv, ToolState, commands
<1>4. ToolAndServer'
  <2>1. m_pClient = sock => InFlight(sock)' = InFlight(sock) /\ sock' = sock
    BY DEF TransferInv, ToolState
  <2> QED
    BY <2>1 DEF TransferInv, ToolAndServer, commands
<1>5. AnswerIntact'
  <2>1. ServerInv'
    BY DEF OrderInv
  <2> QED BY <1>3, <1>4, <2>1, IntactAlways
<1>6. Finished'
  <2>1. m_pClient = sock => InFlight(sock)' = InFlight(sock)
    BY DEF TransferInv, ToolState
  <2> QED
    BY <2>1 DEF TransferInv, Finished, Safe, Complete, commands, Stored
<1> QED
  BY <1>1, <1>2, <1>3, <1>4, <1>5, <1>6 DEF TransferInv

(* The client's connection ends, or the node starts again. *)
LEMMA UploadEnds ==
    ASSUME TransferInv, OrderInv', ~faulted', UNCHANGED tool,
           listenTcp', g_pServer', m_pClient' = NoClient, file_fd' = NoFile, files' = files,
           \/ UNCHANGED <<script, log>>
           \/ log' = [c \in Conns |-> <<>>]
    PROVE  TransferInv'
<1> USE FileServerAssumption DEF tool
<1>0. /\ UNCHANGED <<report, source, sock, status, send_num, allow_send, answered>>
      /\ sock \in Conns /\ source \in Sources /\ commands' = commands /\ Stored' = Stored
  BY DEF TransferInv, ToolState, commands, Stored
<1>1. ServerUp' /\ FileSafe' /\ SlotUploads' /\ AnswerIntact'
  BY <1>0 DEF TransferInv, ServerUp, FileSafe, SlotUploads, AnswerIntact
<1>2. ToolState'
  BY <1>0 DEF TransferInv, ToolState
<1>3. Len(commands) \in Nat /\ Len(commands) >= 3
  BY <1>0, UploadCommands DEF commands
<1>4. (log'[sock] = log[sock] /\ script'[sock] = script[sock]) \/ log'[sock] = <<>>
  BY <1>0
<1>5. ToolAndServer'
  <2> SUFFICES ASSUME report = "running"
               PROVE  /\ Len(log'[sock]) <= send_num /\ (log'[sock] # <<>> => script'[sock] = commands)
                      /\ \A i \in 1..answered : i <= Len(log'[sock]) => log'[sock][i].ok
    BY <1>0 DEF ToolAndServer
  <2>1. CASE log'[sock] = <<>>
    <3>1. Len(log'[sock]) = 0 /\ send_num \in Nat
      BY <2>1 DEF TransferInv, ToolState
    <3> QED BY <2>1, <3>1
  <2>2. CASE log'[sock] = log[sock] /\ script'[sock] = script[sock]
    BY <2>2 DEF TransferInv, ToolAndServer
  <2> QED BY <1>4, <2>1, <2>2
<1>6. Finished'
  <2> SUFFICES ASSUME report = "done" \/ (report = "running" /\ Len(log'[sock]) = Len(commands) /\ AllOk(log'[sock]))
               PROVE  Stored = source
    BY <1>0 DEF Finished, Complete, Safe
  <2>1. log'[sock] # <<>> \/ report = "done"
    <3>1. log'[sock] = <<>> => Len(log'[sock]) = 0
      OBVIOUS
    <3> QED BY <1>3, <3>1
  <2>2. report = "done" \/ (report = "running" /\ Complete)
    BY <1>4, <2>1 DEF Complete
  <2> QED
    BY <2>2 DEF TransferInv, Finished, Safe
<1> QED
  BY <1>1, <1>2, <1>5, <1>6 DEF TransferInv

(* A connection closes, fails or ends; someone types; the node restarts. *)
LEMMA TransferConn ==
    ASSUME TransferInv, UNCHANGED tool,
           (\E c \in Conns : CloseConn(c) \/ FailConn(c) \/ EndConn(c)) \/ Console \/ Restart
    PROVE  TransferInv'
<1>1. OrderInv'
  BY OrderOther DEF TransferInv
<1>2. CASE Restart
  <2>1. /\ ~faulted' /\ listenTcp' /\ g_pServer' /\ m_pClient' = NoClient /\ file_fd' = NoFile
        /\ files' = files /\ log' = [c \in Conns |-> <<>>]
    BY <1>2 DEF Restart
  <2> QED BY <1>1, <2>1, UploadEnds
<1>3. ASSUME UNCHANGED <<m_DataBuffer, pending, tosend>> PROVE \A c \in Conns : InFlight(c)' = InFlight(c)
  BY <1>3 DEF InFlight
<1>4. CASE Console \/ \E c \in Conns : CloseConn(c) \/ FailConn(c)
  <2>1. /\ ~faulted /\ ~faulted'
        /\ UNCHANGED <<script, log, m_pClient, file_fd, files, listenTcp, g_pServer, m_DataBuffer, pending, tosend>>
    BY <1>4 DEF Console, CloseConn, FailConn, ServerErr, Quiet, espconnVars, storage, parser, client
  <2> QED BY <1>1, <1>3, <2>1, SameUpload
<1>5. ASSUME NEW c \in Conns, EndConn(c) PROVE TransferInv'
  <2>1. /\ ~faulted /\ listenTcp /\ g_pServer
        /\ ClientDisconnected(c) /\ UNCHANGED <<faulted, g_pServer, pending, tosend, script, log>>
    BY <1>5 DEF EndConn, Quiet, TransferInv, ServerUp, client
  <2>2. listenTcp' = listenTcp
    BY <2>1 DEF ClientDisconnected, EndOf
  <2>3. CASE fields[c].reverse /\ fields[c].callbacks
    <3>1. m_pClient' = NoClient /\ file_fd' = NoFile /\ files' = files
      BY <2>1, <2>3 DEF ClientDisconnected
    <3> QED BY <1>1, <2>1, <2>2, <3>1, UploadEnds
  <2>4. CASE ~(fields[c].reverse /\ fields[c].callbacks)
    <3>1. UNCHANGED <<m_pClient, m_DataBuffer, file_fd, files>>
      BY <2>1, <2>4 DEF ClientDisconnected, parser, storage
    <3> QED BY <1>1, <1>3, <2>1, <2>2, <3>1, SameUpload
  <2> QED BY <2>3, <2>4
<1> QED
  BY <1>2, <1>4, <1>5

(* A segment arrives. *)
LEMMA TransferReceive ==
    ASSUME TransferInv, UNCHANGED tool, NEW c \in Conns, NEW n \in 1..Len(tosend[c]), Receive(c, n)
    PROVE  TransferInv'
<1>1. OrderInv' /\ ServerInv
  BY OrderReceive DEF TransferInv, OrderInv
<1>2. /\ ~faulted /\ ~faulted' /\ handling = NoClient /\ pending = <<>> /\ conn[c] = "open"
      /\ UNCHANGED <<script, log, m_pClient, file_fd, files, listenTcp, g_pServer, m_DataBuffer>>
      /\ tosend' = [tosend EXCEPT ![c] = SubSeq(tosend[c], n + 1, Len(tosend[c]))]
      /\ tosend \in [Conns -> Seq(Bytes)] /\ tosend[c] \in Seq(Bytes)
      /\ IF fields[c].callbacks /\ fields[c].reverse THEN pending' = SubSeq(tosend[c], 1, n) ELSE pending' = pending
  BY <1>1 DEF Receive, Quiet, ServerInv, SlotInv, SlotServed, WireTypes, espconnVars, storage, parser
<1>3. ASSUME NEW d \in Conns, m_pClient = d PROVE InFlight(d)' = InFlight(d)
  <2>1. CASE d # c
    <3>1. ~fields[c].reverse
      BY <1>1, <1>2, <1>3, <2>1 DEF ServerInv, SlotInv, SlotMatches
    <3> QED BY <1>2, <2>1, <3>1 DEF InFlight
  <2>2. CASE d = c
    <3> DEFINE t == tosend[c]
               u == SubSeq(t, 1, n)
               v == SubSeq(t, n + 1, Len(t))
               L == Len(t)
               B == Len(m_DataBuffer)
    <3>1. fields[c].reverse /\ fields[c].callbacks
      BY <1>1, <1>2, <1>3, <2>2, FileServerAssumption DEF ServerInv, SlotInv, SlotMatches, SlotServed
    <3>2. pending' = u /\ tosend'[c] = v /\ t \in Seq(Bytes) /\ L \in Nat /\ n \in 1..L /\ B \in Nat
      BY <1>1, <1>2, <3>1, WireFacts
    <3>3. Len(u) = n /\ Len(v) = L - n
      <4>1. /\ 1 \in 1..Len(t) + 1 /\ n \in 1 - 1..Len(t) /\ n - 1 + 1 = n
            /\ n + 1 \in 1..Len(t) + 1 /\ Len(t) \in (n + 1) - 1..Len(t) /\ Len(t) - (n + 1) + 1 = Len(t) - n
        BY <3>2
      <4> HIDE DEF t
      <4> QED BY <3>2, <4>1, SubSeqOf
    <3>4. InFlight(c)' = B + Len(u) + Len(v) /\ InFlight(c) = B + 0 + L
      <4>1. Len(pending) = 0
        BY <1>2
      <4> QED BY <1>2, <3>2, <4>1 DEF InFlight
    <3> HIDE DEF t, u, v, L, B
    <3>5. B + Len(u) + Len(v) = B + 0 + L
      BY <3>2, <3>3
    <3> QED BY <2>2, <3>4, <3>5
  <2> QED BY <2>1, <2>2
<1> QED
  BY <1>1, <1>2, <1>3, SameUpload

(* Part of a beginning is a beginning. *)
LEMMA BeginningCut ==
    ASSUME NEW f \in Promise!Beginnings, NEW n \in 0..Len(f)
    PROVE  SubSeq(f, 1, n) \in Promise!Beginnings
<1>1. PICK s \in Sources : \E m \in 0..Len(s) : f = SubSeq(s, 1, m)
  BY DEF Promise!Beginnings
<1>2. PICK m \in 0..Len(s) : f = SubSeq(s, 1, m)
  BY <1>1
<1>3. s \in Seq(Bytes) /\ Len(s) \in Nat
  BY TransferAssumption
<1>4. f \in Seq(Bytes) /\ Len(f) = m /\ \A i \in 1..m : f[i] = s[i]
  <2>1. 1 \in 1..Len(s) + 1 /\ m \in 1 - 1..Len(s) /\ m - 1 + 1 = m
    BY <1>3
  <2>2. f \in Seq(Bytes) /\ Len(f) = m /\ \A i \in 1..m : f[i] = s[1 + i - 1]
    BY <1>2, <1>3, <2>1, SubSeqOf
  <2>3. \A i \in 1..m : 1 + i - 1 = i
    BY <1>3
  <2> QED BY <2>2, <2>3
<1>5. n \in 0..Len(s) /\ n \in 0..m
  BY <1>3, <1>4
<1>6. SubSeq(f, 1, n) = SubSeq(s, 1, n)
  <2> DEFINE x == SubSeq(f, 1, n)
             y == SubSeq(s, 1, n)
  <2>1. /\ 1 \in 1..Len(s) + 1 /\ n \in 1 - 1..Len(s) /\ n - 1 + 1 = n
        /\ 1 \in 1..Len(f) + 1 /\ n \in 1 - 1..Len(f)
    BY <1>3, <1>4, <1>5
  <2>2. /\ x \in Seq(Bytes) /\ Len(x) = n /\ \A i \in 1..n : x[i] = f[1 + i - 1]
        /\ y \in Seq(Bytes) /\ Len(y) = n /\ \A i \in 1..n : y[i] = s[1 + i - 1]
    BY <1>3, <1>4, <2>1, SubSeqOf
  <2>3. \A i \in 1..n : 1 + i - 1 = i /\ i \in 1..m
    BY <1>3, <1>5
  <2> HIDE DEF x, y
  <2>4. \A i \in 1..n : x[i] = y[i]
    BY <1>4, <2>2, <2>3
  <2>5. x = y
    BY <2>2, <2>4
  <2> QED BY <2>5 DEF x, y
<1> QED
  BY <1>5, <1>6 DEF Promise!Beginnings

(* The node loses its power, and part of the open file with it. *)
LEMMA TransferPowerLoss ==
    ASSUME TransferInv, PowerLoss
    PROVE  TransferInv'
<1>1. /\ faulted' /\ handling' = NoClient /\ pending' = <<>>
      /\ UNCHANGED <<conn, fields, listen, listenTcp, g_pServer, m_pClient, m_DataBuffer, m_ReadPoint, m_Payload,
                     m_State, m_Command, file_fd, opener, lineBusy, tosend, connects, script, log>>
      /\ UNCHANGED <<report, source, sock, status, send_num, allow_send, answered>>
      /\ IF file_fd = NoFile THEN files' = files
         ELSE \E n \in 0..Len(files[file_fd]) : files' = SetFile(file_fd, SubSeq(files[file_fd], 1, n))
  BY DEF PowerLoss, espconnVars, parser, client, tool
<1>2. file_fd \in {NoFile, Name} /\ (file_fd # NoFile => file_fd = Name /\ Name \in DOMAIN files)
  BY DEF TransferInv, FileSafe, OrderInv, ServerInv, FileTypes
<1>3. (Promise!Beginnings)' = Promise!Beginnings
  BY DEF Promise!Beginnings
<1>4. FileSafe' /\ (file_fd = NoFile => Stored' = Stored)
  <2>1. CASE file_fd = NoFile
    BY <1>1, <1>3, <2>1 DEF TransferInv, FileSafe, Stored
  <2>2. CASE file_fd # NoFile
    <3> DEFINE f == files[Name]
    <3>1. PICK n \in 0..Len(f) : files' = SetFile(Name, SubSeq(f, 1, n))
      BY <1>1, <1>2, <2>2
    <3>2. f \in Promise!Beginnings
      BY <1>2, <2>2 DEF TransferInv, FileSafe
    <3> HIDE DEF f
    <3>3. SubSeq(f, 1, n) \in Promise!Beginnings
      BY <3>1, <3>2, BeginningCut
    <3>4. files'[Name] = SubSeq(f, 1, n)
      BY <3>1 DEF SetFile
    <3> QED BY <1>1, <1>2, <1>3, <2>2, <3>3, <3>4 DEF FileSafe
  <2> QED BY <2>1, <2>2
<1>5. DOMAIN files \subseteq DOMAIN files'
  BY <1>1 DEF SetFile
<1>6. ServerInv'
  <2>1. SlotInv'
    BY <1>1, FileServerAssumption DEF TransferInv, OrderInv, ServerInv, SlotInv, SlotTypes, EspconnTypeOK, SlotMatches,
        SlotServed, FreshSlot, FileOfClient
  <2>2. BufferTypes' /\ FileTypes'
    BY <1>1, <1>5 DEF TransferInv, OrderInv, ServerInv, BufferTypes, FileTypes
  <2>3. WireTypes'
    BY <1>1 DEF TransferInv, OrderInv, ServerInv, WireTypes, Printable
  <2> QED BY <2>1, <2>2, <2>3 DEF ServerInv
<1>7. OrderInv'
  BY <1>1, <1>6 DEF TransferInv, OrderInv, Synchronised, AllExecuted
<1>8. ServerUp' /\ SlotUploads'
  BY <1>1 DEF TransferInv, ServerUp, SlotUploads
<1>9. ToolState' /\ ToolAndServer' /\ AnswerIntact'
  BY <1>1 DEF TransferInv, ToolState, ToolAndServer, AnswerIntact, commands
<1>10. Finished'
  BY <1>1, <1>4 DEF TransferInv, Finished, Safe, Complete, commands
<1> QED
  BY <1>4, <1>7, <1>8, <1>9, <1>10 DEF TransferInv

(* The tool moves on while the server does nothing. *)
LEMMA ServerWaits ==
    ASSUME TransferInv, UNCHANGED <<vars, source, sock>>, ToolState', ToolAndServer', AnswerIntact', Finished'
    PROVE  TransferInv'
<1> USE DEF vars, espconnVars, parser, storage, client
<1>1. OrderInv'
  <2>1. ServerInv'
    BY ServerStep DEF TransferInv, OrderInv
  <2> QED
    BY <2>1, OrderKept DEF TransferInv
<1>2. ServerUp' /\ FileSafe'
  <2>1. (Promise!Beginnings)' = Promise!Beginnings
    BY DEF Promise!Beginnings
  <2> QED BY <2>1 DEF TransferInv, ServerUp, FileSafe
<1>3. SlotUploads'
  BY DEF TransferInv, SlotUploads, Uploading, FileHolds, Stored, InFlight
<1> QED
  BY <1>1, <1>2, <1>3 DEF TransferInv

(* The tool ends; it reports success only when the file is safe. *)
LEMMA TransferExit ==
    ASSUME TransferInv, UNCHANGED <<vars, source, sock>>, report' \in {"done", "failed"}, report' = "done" => Safe
    PROVE  TransferInv'
<1>1. ToolState' /\ ToolAndServer' /\ AnswerIntact'
  BY DEF TransferInv, ToolState, ToolAndServer, AnswerIntact
<1>2. Finished'
  BY DEF Finished, Safe, InFlight, Stored, vars, espconnVars, parser, storage, client
<1> QED
  BY <1>1, <1>2, ServerWaits

(* The answer that is read belongs to the one command that is on its way. *)
LEMMA AnswerMatches ==
    ASSUME TransferInv, report = "running", answered < Len(log[sock])
    PROVE  LET n == answered + 1
               a == log[sock][n]
           IN /\ n \in 1..Len(commands) /\ send_num = n /\ Len(log[sock]) = n /\ answered \in Nat /\ ~allow_send
              /\ script[sock] = commands /\ sock \in Conns
              /\ Matching(a) = {n}
              /\ Answered(a) = StatusOf(commands, n, n)
              /\ AllConfirmed(a) => n = Len(commands)
              /\ \A i \in 1..answered : log[sock][i].ok
<1> DEFINE n == answered + 1
           l == log[sock]
           a == l[n]
           L == Len(commands)
<1>1. /\ sock \in Conns /\ source \in Sources /\ answered \in Nat /\ send_num \in 0..L /\ allow_send \in BOOLEAN
      /\ send_num = IF allow_send THEN answered ELSE answered + 1
      /\ status = StatusOf(commands, answered, send_num)
  BY DEF TransferInv, ToolState
<1>2. L \in Nat /\ WellFormed(commands) /\ L >= 3
  BY <1>1, UploadCommands DEF commands
<1>3. l \in Seq(Logged) /\ Len(l) \in Nat /\ Len(l) <= send_num
  <2>1. l \in Seq(Logged)
    BY <1>1 DEF TransferInv, OrderInv, ServerInv, WireTypes
  <2> QED BY <2>1 DEF TransferInv, ToolAndServer
<1>4. n \in 1..L /\ send_num = n /\ Len(l) = n /\ ~allow_send
  BY <1>1, <1>2, <1>3
<1>5. script[sock] = commands
  <2>1. l # <<>>
    BY <1>3, <1>4
  <2> QED BY <2>1 DEF TransferInv, ToolAndServer
<1>6. a.packet = Encode(commands[n])
  <2>1. Executed(l, commands)
    BY <1>1, <1>2, <1>5 DEF TransferInv, OrderInv, AllExecuted
  <2>2. n \in 1..Len(l)
    BY <1>1, <1>4
  <2> QED BY <2>1, <2>2 DEF Executed
<1>7. /\ status = [i \in 1..L |-> IF i <= answered THEN "CONFIRMED" ELSE IF i <= n THEN "SENT" ELSE "QUEUED"]
      /\ Len(status) = L
  BY <1>1, <1>2, <1>4 DEF StatusOf
<1>8. ASSUME NEW i \in 1..L PROVE status[i] = "SENT" <=> i = n
  BY <1>1, <1>2, <1>7
<1>9. Matching(a) = {n}
  BY <1>4, <1>6, <1>8 DEF Matching
<1>10. Answered(a) = StatusOf(commands, n, n)
  <2>1. Answered(a) = [i \in 1..L |-> IF i = n THEN "CONFIRMED" ELSE status[i]]
    BY <1>7, <1>9 DEF Answered
  <2>2. ASSUME NEW i \in 1..L
        PROVE  (IF i = n THEN "CONFIRMED" ELSE status[i]) = IF i <= n THEN "CONFIRMED" ELSE IF i <= n THEN "SENT" ELSE "QUEUED"
    BY <1>1, <1>2, <1>7
  <2> QED BY <2>1, <2>2 DEF StatusOf
<1>11. AllConfirmed(a) => n = L
  <2> SUFFICES ASSUME AllConfirmed(a) PROVE n = L
    OBVIOUS
  <2>1. L \in 1..Len(status)
    BY <1>2, <1>7
  <2>2. StatusOf(commands, n, n)[L] = "CONFIRMED"
    BY <1>10, <2>1 DEF AllConfirmed
  <2>3. L <= n
    BY <1>2, <1>4, <2>2 DEF StatusOf
  <2> QED BY <1>2, <1>4, <2>3
<1>12. \A i \in 1..answered : l[i].ok
  <2>1. \A i \in 1..answered : i <= Len(l)
    BY <1>1, <1>4
  <2> QED BY <2>1 DEF TransferInv, ToolAndServer
<1> QED
  BY <1>1, <1>4, <1>5, <1>9, <1>10, <1>11, <1>12

(* The tool reads an answer. *)
LEMMA TransferProcess ==
    ASSUME TransferInv, ProcessPacket
    PROVE  TransferInv'
<1> DEFINE n == answered + 1
           l == log[sock]
           a == l[n]
           L == Len(commands)
<1>1. report = "running" /\ answered < Len(l) /\ UNCHANGED <<vars, source, sock>>
      /\ IF a.ok THEN Confirm(a) ELSE Refuse(a)
  BY DEF ProcessPacket
<1>2. /\ n \in 1..L /\ send_num = n /\ Len(l) = n /\ answered \in Nat /\ ~allow_send
      /\ script[sock] = commands /\ sock \in Conns
      /\ Matching(a) = {n} /\ Answered(a) = StatusOf(commands, n, n)
      /\ (AllConfirmed(a) => n = L)
      /\ \A i \in 1..answered : l[i].ok
  BY <1>1, AnswerMatches
<1>3. UNCHANGED <<script, log, m_pClient, faulted, pending, m_DataBuffer, tosend, files, file_fd>> /\ commands' = commands
  BY <1>1 DEF vars, parser, storage, client, commands
<1> HIDE DEF a
<1>4. a = l[n]
  BY DEF a
<1>5. CASE a.ok
  <2>1. \A i \in 1..n : l[i].ok
    <3>1. ASSUME NEW i \in 1..n PROVE l[i].ok
      <4>1. i = n \/ i \in 1..answered
        BY <1>2
      <4> QED BY <1>2, <1>4, <1>5, <4>1
    <3> QED BY <3>1
  <2>2. CASE AllConfirmed(a)
    <3>1. Complete
      BY <1>2, <2>1, <2>2 DEF Complete, AllOk
    <3>2. Safe
      BY <1>1, <3>1 DEF TransferInv, Finished
    <3>3. report' = "done"
      BY <1>1, <1>5, <2>2 DEF Confirm, Exit
    <3> QED BY <1>1, <3>2, <3>3, TransferExit
  <2>3. CASE ~AllConfirmed(a)
    <3>1. /\ status' = StatusOf(commands, n, n) /\ allow_send' = TRUE /\ answered' = n
          /\ UNCHANGED <<report, send_num>>
      BY <1>1, <1>2, <1>5, <2>3 DEF Confirm
    <3>2. ToolState'
      BY <1>1, <1>2, <1>3, <3>1 DEF TransferInv, ToolState
    <3>3. ToolAndServer'
      <4>1. Len(log'[sock']) <= send_num' /\ (log'[sock'] # <<>> => script'[sock'] = commands')
        BY <1>1, <1>2, <1>3, <3>1
      <4>2. \A i \in 1..answered' : log'[sock'][i].ok
        BY <1>1, <1>3, <2>1, <3>1
      <4>3. answered' <= Len(log'[sock']) /\ script'[sock'] = commands'
        BY <1>1, <1>2, <1>3, <3>1
      <4>4. m_pClient' = sock' /\ ~faulted' => send_num' = Len(log'[sock']) + (IF InFlight(sock)' = 0 THEN 0 ELSE 1)
        <5>1. InFlight(sock)' = InFlight(sock)
          BY <1>1, <1>3 DEF InFlight
        <5> QED BY <1>1, <1>3, <3>1, <5>1 DEF TransferInv, ToolAndServer
      <4> QED BY <4>1, <4>2, <4>3, <4>4 DEF ToolAndServer
    <3>4. AnswerIntact'
      BY <1>1, <1>2, <1>3, <3>1 DEF AnswerIntact
    <3>5. Finished'
      BY <1>1, <1>3, <3>1 DEF TransferInv, Finished, Complete, Safe, InFlight, Stored
    <3> QED BY <1>1, <3>2, <3>3, <3>4, <3>5, ServerWaits
  <2> QED BY <2>2, <2>3
<1>6. CASE ~a.ok
  <2>1. report' = "failed"
    BY <1>1, <1>2, <1>6 DEF Refuse, Exit
  <2> QED BY <1>1, <2>1, TransferExit
<1> QED
  BY <1>5, <1>6

(* The connection is lost, or the user interrupts the tool. *)
LEMMA TransferGiveUp ==
    ASSUME TransferInv, ConnectionLost \/ Interrupt
    PROVE  TransferInv'
  BY TransferExit DEF ConnectionLost, Interrupt, Exit

(* The tool sends its next command: nothing else is on its way. *)
LEMMA TransferSend ==
    ASSUME TransferInv, SendCommand
    PROVE  TransferInv'
<1> DEFINE n == send_num + 1
           e == Encode(commands[n])
           l == log[sock]
           L == Len(commands)
           z == tosend[sock]
<1>1. /\ report = "running" /\ send_num < L /\ allow_send
      /\ tosend' = [tosend EXCEPT ![sock] = z \o e]
      /\ status' = [status EXCEPT ![n] = "SENT"] /\ send_num' = n /\ allow_send' = FALSE
      /\ UNCHANGED <<conn, fields, listen, listenTcp, g_pServer, m_pClient, m_DataBuffer, m_ReadPoint, m_Payload,
                     m_State, m_Command, file_fd, files, opener, lineBusy, handling, pending>>
      /\ UNCHANGED <<connects, script, log, faulted, report, source, sock, answered>>
  BY DEF SendCommand, espconnVars, parser, storage
<1>2. /\ sock \in Conns /\ source \in Sources /\ answered \in Nat /\ send_num \in 0..L /\ send_num = answered
      /\ status = StatusOf(commands, answered, send_num)
  BY <1>1 DEF TransferInv, ToolState
<1>3. /\ commands \in Seq(CommandRecords) /\ Printable(commands) /\ WellFormed(commands) /\ L \in Nat /\ n \in 1..L
      /\ commands' = commands
  BY <1>1, <1>2, UploadCommands DEF commands
<1>4. commands[n] \in CommandRecords /\ DigitFor(Len(commands[n].payload)) \in Seq(DOMAIN Digits)
  BY <1>3 DEF Printable
<1>5. e \in Seq(Bytes) /\ Len(e) \in Nat /\ Len(e) >= 3
  <2> DEFINE p == commands[n]
             H == HeaderLen(p)
             m == Len(p.payload)
  <2>1. m \in Nat
    BY <1>4 DEF CommandRecords
  <2>2. Encode(p) \in Seq(Bytes) /\ H \in Nat /\ H >= 3 /\ Len(Encode(p)) = H + m
    <3> HIDE DEF p
    <3> QED BY <1>4, Encoded DEF p
  <2> HIDE DEF p, H, m
  <2>3. Len(Encode(p)) \in Nat /\ Len(Encode(p)) >= 3
    BY <2>1, <2>2
  <2> QED BY <2>2, <2>3 DEF p
<1>6. ServerInv /\ z \in Seq(Bytes) /\ l \in Seq(Logged) /\ Len(l) \in Nat /\ Len(l) <= send_num
  <2>1. ServerInv /\ z \in Seq(Bytes) /\ l \in Seq(Logged)
    BY <1>2 DEF TransferInv, OrderInv, ServerInv, WireTypes
  <2> QED BY <1>1, <2>1 DEF TransferInv, ToolAndServer
<1> HIDE DEF e
<1>7. z \o e \in Seq(Bytes)
  BY <1>5, <1>6
<1>8. ServerInv'
  <2>1. SlotInv'
    BY <1>1, <1>6 DEF ServerInv, SlotInv, SlotTypes, EspconnTypeOK, SlotMatches, SlotServed, FreshSlot, FileOfClient
  <2>2. BufferTypes' /\ FileTypes'
    BY <1>1, <1>6 DEF ServerInv, BufferTypes, FileTypes
  <2>3. WireTypes'
    BY <1>1, <1>6, <1>7 DEF ServerInv, WireTypes, Printable
  <2> QED BY <2>1, <2>2, <2>3 DEF ServerInv
<1>9. ASSUME m_pClient = sock, ~faulted
      PROVE  /\ m_DataBuffer = <<>> /\ pending = <<>> /\ z = <<>> /\ Len(l) = send_num /\ tosend'[sock] = e
             /\ script[sock] = commands /\ InFlight(sock)' = Len(e) /\ AllOk(l)
             /\ InStep(commands, send_num, <<>>, <<>>, e)
  <2>1. /\ script[sock] = commands /\ answered <= Len(l)
        /\ send_num = Len(l) + (IF InFlight(sock) = 0 THEN 0 ELSE 1)
        /\ \A i \in 1..answered : i <= Len(l) => l[i].ok
    BY <1>1, <1>9 DEF TransferInv, ToolAndServer
  <2>2. InFlight(sock) = 0 /\ Len(l) = send_num
    <3> DEFINE f == InFlight(sock)
               k == Len(l)
    <3>1. k \in Nat /\ send_num \in Nat /\ send_num <= k /\ send_num = k + (IF f = 0 THEN 0 ELSE 1)
      BY <1>2, <1>6, <2>1
    <3> HIDE DEF f, k
    <3>2. f = 0 /\ k = send_num
      BY <3>1
    <3> QED BY <3>2 DEF f, k
  <2>3. m_DataBuffer = <<>> /\ pending = <<>> /\ z = <<>>
    BY <1>2, <1>6, <2>2, WireFacts
  <2>4. tosend'[sock] = e
    <3>1. <<>> \o e = e
      BY <1>5
    <3>2. tosend'[sock] = z \o e
      BY <1>1, <1>2, <1>6 DEF ServerInv, WireTypes
    <3> QED BY <2>3, <3>1, <3>2
  <2>5. InFlight(sock)' = Len(e)
    <3>1. Len(<<>>) = 0
      OBVIOUS
    <3>2. InFlight(sock)' = 0 + 0 + Len(e)
      BY <1>1, <2>3, <2>4, <3>1 DEF InFlight
    <3> QED BY <1>5, <3>2
  <2>6. AllOk(l)
    BY <1>2, <2>1, <2>2 DEF AllOk
  <2>7. InStep(commands, send_num, <<>>, <<>>, e)
    <3> DEFINE k == send_num
               sc == commands
               o == Len(Enc(sc)[k])
               w == Stream(sc)
    <3>1. k \in 0..Len(sc) - 1 /\ k \in 0..Len(sc) /\ Len(<<>>) = 0
      BY <1>1, <1>2, <1>3
    <3>2. o \in Nat /\ Len(w) \in Nat /\ o + Len(e) <= Len(w) /\ \A i \in 1..Len(e) : w[o + i] = e[i]
      <4> HIDE DEF k, sc, o, w
      <4>1. /\ Len(Enc(sc)[k]) \in Nat /\ Len(Stream(sc)) \in Nat
            /\ Len(Enc(sc)[k]) + Len(Encode(sc[k + 1])) <= Len(Stream(sc))
            /\ \A i \in 1..Len(Encode(sc[k + 1])) : Stream(sc)[Len(Enc(sc)[k]) + i] = Encode(sc[k + 1])[i]
        BY <1>3, <3>1, CommandAt DEF sc
      <4> QED BY <4>1 DEF o, w, e, k, sc
    <3> HIDE DEF o, w
    <3>3. o + Len(<<>>) + Len(<<>>) + Len(e) <= Len(w)
      BY <1>5, <3>1, <3>2
    <3>4. \A i \in 1..Len(e) : e[i] = w[o + Len(<<>>) + Len(<<>>) + i]
      BY <3>1, <3>2
    <3> QED BY <3>1, <3>3, <3>4 DEF InStep, o, w
  <2> QED BY <2>1, <2>2, <2>3, <2>4, <2>5, <2>6, <2>7
<1>10. ASSUME NEW c \in Conns, c # sock PROVE tosend'[c] = tosend[c] /\ InFlight(c)' = InFlight(c)
  <2>1. tosend'[c] = tosend[c]
    BY <1>1, <1>2, <1>6, <1>10 DEF ServerInv, WireTypes
  <2> QED BY <1>1, <2>1 DEF InFlight
<1>11. OrderInv'
  <2>1. AllExecuted'
    BY <1>1 DEF TransferInv, OrderInv, AllExecuted
  <2>2. ASSUME NEW c \in Conns, m_pClient' = c, ~faulted', WellFormed(script'[c])
        PROVE  /\ InStep(script'[c], Len(log'[c]), m_DataBuffer', pending', tosend'[c])
               /\ HeaderKnown(script[c], Len(log[c]))'
    <3>1. InStep(script[c], Len(log[c]), m_DataBuffer, pending, tosend[c]) /\ HeaderKnown(script[c], Len(log[c]))
      BY <1>1, <2>2 DEF TransferInv, OrderInv, Synchronised
    <3>2. HeaderKnown(script[c], Len(log[c]))'
      BY <1>1, <3>1 DEF HeaderKnown
    <3>3. CASE c = sock
      BY <1>1, <1>9, <2>2, <3>2, <3>3
    <3>4. CASE c # sock
      BY <1>1, <1>10, <3>1, <3>2, <3>4
    <3> QED BY <3>3, <3>4
  <2>3. Synchronised'
    BY <2>2 DEF Synchronised
  <2> QED BY <1>8, <2>1, <2>3 DEF OrderInv
<1>12. ServerUp' /\ FileSafe'
  <2>1. (Promise!Beginnings)' = Promise!Beginnings
    BY DEF Promise!Beginnings
  <2> QED BY <1>1, <2>1 DEF TransferInv, ServerUp, FileSafe
<1>13. SlotUploads'
  <2> SUFFICES ASSUME NEW c \in Conns, m_pClient = c, ~faulted PROVE Uploading(c)'
    BY <1>1 DEF SlotUploads
  <2>1. Uploading(c)
    BY DEF TransferInv, SlotUploads
  <2>2. CASE c = sock
    <3>1. /\ Len(log'[c]) < Len(script'[c]) /\ AllOk(log'[c])
          /\ InFlight(c)' = Len(Encode(script'[c][Len(log'[c]) + 1]))
      BY <1>1, <1>9, <2>2 DEF e
    <3> QED BY <1>1, <2>1, <3>1 DEF Uploading, FileHolds, Stored
  <2>3. CASE c # sock
    BY <1>1, <1>10, <2>1, <2>3 DEF Uploading, FileHolds, Stored
  <2> QED BY <2>2, <2>3
<1>14. ToolState'
  <2>1. status' = StatusOf(commands, answered, n)
    <3>1. status' = [i \in 1..L |-> IF i = n THEN "SENT" ELSE status[i]]
      BY <1>1, <1>2, <1>3 DEF StatusOf
    <3>2. ASSUME NEW i \in 1..L
          PROVE  (IF i = n THEN "SENT" ELSE status[i]) = IF i <= answered THEN "CONFIRMED" ELSE IF i <= n THEN "SENT" ELSE "QUEUED"
      BY <1>2, <1>3 DEF StatusOf
    <3> QED BY <3>1, <3>2 DEF StatusOf
  <2>2. send_num' \in 0..L /\ send_num' = answered + 1
    BY <1>1, <1>2, <1>3
  <2>3. report \in {"idle", "running", "done", "failed"}
    BY <1>1
  <2> QED BY <1>1, <1>2, <1>3, <2>1, <2>2, <2>3 DEF ToolState
<1>15. ToolAndServer'
  <2>1. Len(l) <= n /\ (l # <<>> => script[sock] = commands) /\ \A i \in 1..answered : i <= Len(l) => l[i].ok
    BY <1>1, <1>2, <1>6 DEF TransferInv, ToolAndServer
  <2>2. m_pClient = sock /\ ~faulted =>
           /\ script[sock] = commands /\ answered <= Len(l)
           /\ n = Len(l) + (IF InFlight(sock)' = 0 THEN 0 ELSE 1)
    <3> SUFFICES ASSUME m_pClient = sock, ~faulted
                 PROVE  /\ script[sock] = commands /\ answered <= Len(l)
                        /\ n = Len(l) + (IF InFlight(sock)' = 0 THEN 0 ELSE 1)
      OBVIOUS
    <3>1. script[sock] = commands /\ Len(l) = send_num /\ InFlight(sock)' = Len(e)
      BY <1>9
    <3>2. InFlight(sock)' # 0
      BY <1>5, <3>1
    <3>3. answered <= Len(l)
      BY <1>2, <3>1
    <3> QED BY <3>1, <3>2, <3>3
  <2> QED BY <1>1, <1>3, <2>1, <2>2 DEF ToolAndServer
<1>16. AnswerIntact' /\ Finished'
  BY <1>1, <1>2, <1>3, <1>6 DEF AnswerIntact, Finished, Complete
<1> QED
  BY <1>11, <1>12, <1>13, <1>14, <1>15, <1>16 DEF TransferInv

(* The tool is started: it gets the slot, or it is sent away. *)
LEMMA TransferBegin ==
    ASSUME TransferInv, NEW c \in Conns, NEW s \in Sources, Begin(c, s)
    PROVE  TransferInv'
<1> USE FileServerAssumption
<1> DEFINE sc == PrepareFile(s)
<1>1. /\ Accept(c, sc, <<>>) /\ report' = "running" /\ source' = s /\ sock' = c
      /\ status' = [i \in 1..Len(sc) |-> "QUEUED"] /\ send_num' = 0 /\ allow_send' = TRUE /\ answered' = 0
  BY DEF Begin
<1>2. sc \in Seq(CommandRecords) /\ Printable(sc) /\ WellFormed(sc) /\ Len(sc) \in Nat /\ Len(sc) >= 3 /\ commands' = sc
  BY <1>1, UploadCommands DEF commands
<1>3. /\ handling = NoClient /\ ~faulted /\ conn[c] = "free" /\ listenTcp /\ g_pServer /\ ServerInv /\ m_pClient # c
      /\ pending = <<>>
  BY <1>1 DEF Accept, Quiet, TransferInv, ServerUp, OrderInv, ServerInv, SlotInv, SlotMatches, SlotServed
<1>4. OrderInv'
  <2>1. InStep(sc, 0, <<>>, <<>>, <<>>)
    BY <1>2, StartsInStep
  <2>2. <<>> \in Seq(Bytes)
    OBVIOUS
  <2> HIDE DEF sc
  <2> QED BY <1>1, <1>2, <2>1, <2>2, OrderAccept DEF TransferInv
<1> HIDE DEF sc
<1>5. /\ ClientConnected(c)
      /\ script' = [Living(script) EXCEPT ![c] = sc] /\ tosend' = [Living(tosend) EXCEPT ![c] = <<>>] /\ log' = Living(log)
      /\ UNCHANGED <<faulted, g_pServer, pending, m_DataBuffer, file_fd, files>>
  BY <1>1, <1>3 DEF Accept, parser, storage
<1>6. listenTcp' = listenTcp /\ m_pClient' = IF m_pClient # NoClient THEN m_pClient ELSE c
  BY <1>5 DEF ClientConnected, AcceptAs
<1>7. script'[c] = sc /\ tosend'[c] = <<>> /\ log'[c] = <<>>
  BY <1>3, <1>5 DEF Living
<1>8. ASSUME NEW d \in Conns, d # c, conn[d] # "free"
      PROVE  script'[d] = script[d] /\ tosend'[d] = tosend[d] /\ log'[d] = log[d]
  BY <1>5, <1>8 DEF Living
<1>9. ServerUp' /\ FileSafe'
  <2>1. (Promise!Beginnings)' = Promise!Beginnings
    BY DEF Promise!Beginnings
  <2> QED BY <1>3, <1>5, <1>6, <2>1 DEF TransferInv, ServerUp, FileSafe
<1>10. m_pClient = NoClient => InFlight(c)' = 0 /\ file_fd = NoFile
  <2>1. Len(<<>>) = 0 /\ 0 + 0 + 0 = 0
    OBVIOUS
  <2> QED BY <1>3, <1>5, <1>7, <2>1 DEF InFlight, ServerInv, SlotInv, FreshSlot
<1>11. SlotUploads'
  <2> SUFFICES ASSUME NEW d \in Conns, m_pClient' = d PROVE Uploading(d)'
    BY DEF SlotUploads
  <2>1. CASE m_pClient = NoClient
    <3>1. d = c /\ Len(<<>>) = 0 /\ ~(0 \in 1..0 - 1)
      BY <1>6, <2>1
    <3>2. \A t \in Sources : FileHolds(t, 0)'
      <4>1. \A t \in Sources : ~(0 \in 1..Len(PrepareFile(t)) - 1)
        OBVIOUS
      <4> QED BY <1>5, <1>10, <2>1, <4>1 DEF FileHolds
    <3>3. script'[c] \in Uploads
      BY <1>7 DEF Uploads, sc
    <3> QED BY <1>7, <1>10, <2>1, <3>1, <3>2, <3>3 DEF Uploading
  <2>2. CASE m_pClient # NoClient
    <3>1. d = m_pClient /\ d # c /\ conn[d] # "free" /\ Uploading(d)
      BY <1>3, <1>6, <2>2 DEF TransferInv, SlotUploads, ServerInv, SlotInv, SlotMatches
    <3>2. script'[d] = script[d] /\ tosend'[d] = tosend[d] /\ log'[d] = log[d]
      BY <1>8, <3>1
    <3>3. InFlight(d)' = InFlight(d)
      BY <1>5, <3>2 DEF InFlight
    <3> QED BY <1>5, <3>1, <3>2, <3>3 DEF Uploading, FileHolds, Stored
  <2> QED BY <2>1, <2>2
<1>12. ToolState'
  <2>1. status' = StatusOf(sc, 0, 0)
    <3>1. \A i \in 1..Len(sc) : ~(i <= 0)
      BY <1>2
    <3> QED BY <1>1, <3>1 DEF StatusOf
  <2> QED BY <1>1, <1>2, <2>1 DEF ToolState
<1>13. ToolAndServer'
  <2>1. m_pClient' = c => m_pClient = NoClient
    BY <1>3, <1>6
  <2>2. Len(<<>>) = 0 /\ 0 = 0 + 0
    OBVIOUS
  <2> QED BY <1>1, <1>2, <1>7, <1>10, <2>1, <2>2 DEF ToolAndServer
<1>14. AnswerIntact'
  <2>1. ServerInv' /\ ~faulted'
    BY <1>3, <1>4, <1>5 DEF OrderInv
  <2> QED BY <1>12, <1>13, <2>1, IntactAlways
<1>15. Finished'
  <2>1. Len(<<>>) = 0
    OBVIOUS
  <2> QED BY <1>1, <1>2, <1>7, <2>1 DEF Finished, Complete
<1> QED
  BY <1>4, <1>9, <1>11, <1>12, <1>13, <1>14, <1>15 DEF TransferInv

(* What a command does to the files, and what its answer says about it.    *)
FileEffect(cmd, pay, ok) ==
    \/ /\ cmd = "O"
       /\ \/ ok /\ file_fd' = pay /\ files' = SetFile(pay, <<>>)
          \/ ~ok /\ file_fd' = NoFile /\ files' \in {files, WithoutFile(pay), SetFile(pay, <<>>)}
    \/ /\ cmd = "W" /\ file_fd' = file_fd
       /\ \/ ok /\ file_fd # NoFile /\ files' = SetFile(file_fd, files[file_fd] \o pay)
          \/ ~ok /\ files' = files
          \/ ~ok /\ file_fd # NoFile /\ \E j \in 0..Len(pay) - 1 :
                files' = SetFile(file_fd, files[file_fd] \o SubSeq(pay, 1, j))
    \/ cmd = "C" /\ file_fd' = NoFile /\ files' = files
    \/ cmd \in {"G", IDLE} /\ file_fd' = file_fd /\ files' = files

(* fs_data_received executes one command and answers it, or touches no     *)
(* file.                                                                   *)
LEMMA HandlerEffect ==
    ASSUME ServerInv, Handler
    PROVE  \/ UNCHANGED <<log, file_fd, files>>
           \/ \E x : /\ log' = [log EXCEPT ![handling] = Append(@, x)]
                     /\ FileEffect(x.command, x.payload, x.ok)
<1> DEFINE b == Filled
           h == Parsed(b)
           x(ok) == [command |-> h.command, payload |-> Payload(b, h), ok |-> ok,
                     packet |-> SubSeq(b, 1, PacketLen(h))]
<1>1. \/ DataNoRoom
      \/ DataNoHeader(b, h)
      \/ DataIncomplete(b, h)
      \/ OpenFile(b, h)
      \/ WriteFile(b, h)
      \/ CloseFile(b, h)
      \/ RunLua(b, h)
      \/ UnknownCommand(b, h)
  BY DEF Handler
<1> HIDE DEF b, h
<1>2. ASSUME NEW ok, Answer(b, h, ok), FileEffect(h.command, Payload(b, h), ok)
      PROVE  \E y : log' = [log EXCEPT ![handling] = Append(@, y)] /\ FileEffect(y.command, y.payload, y.ok)
  <2>1. log' = [log EXCEPT ![handling] = Append(@, x(ok))]
    BY <1>2 DEF Answer, Reply
  <2>2. x(ok).command = h.command /\ x(ok).payload = Payload(b, h) /\ x(ok).ok = ok
    OBVIOUS
  <2> HIDE DEF x
  <2> QED BY <1>2, <2>1, <2>2
<1>3. CASE DataNoRoom \/ DataNoHeader(b, h) \/ DataIncomplete(b, h)
  BY <1>3 DEF DataNoRoom, DataNoHeader, DataIncomplete, storage
<1> DEFINE pay == Payload(b, h)
<1> HIDE DEF x
<1>4. CASE OpenFile(b, h)
  <2> HIDE DEF pay
  <2>1. h.command = "O" /\ \E ok \in BOOLEAN : /\ Answer(b, h, ok)
             /\ \/ ok /\ file_fd' = pay /\ files' = SetFile(pay, <<>>)
                \/ ~ok /\ file_fd' = NoFile /\ files' \in {files, WithoutFile(pay), SetFile(pay, <<>>)}
    BY <1>4 DEF OpenFile, pay
  <2> QED BY <1>2, <2>1 DEF FileEffect, pay
<1>5. CASE WriteFile(b, h)
  <2> HIDE DEF pay
  <2>1. h.command = "W" /\ file_fd' = file_fd /\ \E ok \in BOOLEAN : /\ Answer(b, h, ok)
             /\ \/ ok /\ file_fd # NoFile /\ files' = SetFile(file_fd, files[file_fd] \o pay)
                \/ ~ok /\ files' = files
                \/ ~ok /\ file_fd # NoFile /\ \E j \in 0..Len(pay) - 1 :
                      files' = SetFile(file_fd, files[file_fd] \o SubSeq(pay, 1, j))
    BY <1>5 DEF WriteFile, pay
  <2> QED BY <1>2, <2>1 DEF FileEffect, pay
<1>6. CASE CloseFile(b, h)
  BY <1>2, <1>6 DEF CloseFile, FileEffect
<1>7. CASE RunLua(b, h)
  BY <1>2, <1>7 DEF RunLua, FileEffect, storage
<1>8. CASE UnknownCommand(b, h)
  BY <1>2, <1>8 DEF UnknownCommand, FileEffect, storage
<1> QED
  BY <1>1, <1>3, <1>4, <1>5, <1>6, <1>7, <1>8

(* The next command of an upload makes the file grow, and a failing one    *)
(* leaves a beginning of the text.                                         *)
LEMMA FileAfter ==
    ASSUME NEW s \in Sources, NEW k \in 0..Len(PrepareFile(s)) - 1, FileSafe, FileHolds(s, k), NEW ok,
           FileEffect(PrepareFile(s)[k + 1].command, PrepareFile(s)[k + 1].payload, ok)
    PROVE  FileSafe' /\ (ok => FileHolds(s, k + 1)')
<1> DEFINE sc == PrepareFile(s)
           n == Len(sc)
           B == Promise!Beginnings
<1>1. /\ s \in Seq(Bytes) /\ Len(s) \in Nat /\ n \in Nat /\ n >= 3
      /\ sc[1] = Packet("O", Name) /\ sc[2] = Packet("G", Remove) /\ sc[n] = Packet("C", Name)
      /\ Upto(s, 1) = 0 /\ Upto(s, 2) = 0 /\ Upto(s, n - 1) = Len(s)
      /\ \A i \in 2..n - 2 :
            /\ Upto(s, i) \in 0..Len(s) /\ Upto(s, i + 1) \in Upto(s, i)..Len(s)
            /\ sc[i + 1] = Packet("W", SubSeq(s, Upto(s, i) + 1, Upto(s, i + 1)))
  <2>1. s \in Seq(Bytes)
    BY TransferAssumption
  <2> QED BY <2>1, Prepared
<1>2. B' = B /\ \A m \in 0..Len(s) : SubSeq(s, 1, m) \in B
  BY DEF Promise!Beginnings
<1>3. file_fd \in {NoFile, Name} /\ (Name \in DOMAIN files => files[Name] \in B) /\ Name # NoFile
  BY TransferAssumption DEF FileSafe
<1>4. FileEffect(sc[k + 1].command, sc[k + 1].payload, ok)
  OBVIOUS
<1> HIDE DEF sc, n, B
<1>5. /\ k \in 0..n - 1
      /\ k \in 1..n - 1 => file_fd = Name /\ Name \in DOMAIN files /\ files[Name] = SubSeq(s, 1, Upto(s, k))
      /\ k \notin 1..n - 1 => file_fd = NoFile
  BY DEF FileHolds, n, sc
<1>6. /\ FileSafe' <=> file_fd' \in {NoFile, Name} /\ (Name \in DOMAIN files' => files'[Name] \in B)
      /\ k + 1 \in 1..n - 1 =>
           (FileHolds(s, k + 1)' <=>
               file_fd' = Name /\ Name \in DOMAIN files' /\ files'[Name] = SubSeq(s, 1, Upto(s, k + 1)))
      /\ k + 1 \notin 1..n - 1 => (FileHolds(s, k + 1)' <=> file_fd' = NoFile /\ (k + 1 # 0 => Stored' = s))
  BY <1>2 DEF FileSafe, FileHolds, n, sc, B
<1>7. k = 0 \/ k = 1 \/ k \in 2..n - 2 \/ k = n - 1
  BY <1>1, <1>5
<1>8. CASE k = 0
  <2>1. k + 1 = 1 /\ k + 1 \in 1..n - 1 /\ SubSeq(s, 1, 0) = <<>> /\ 0 \in 0..Len(s)
    BY <1>1, <1>8
  <2>2. FileEffect("O", Name, ok)
    BY <1>1, <1>4, <2>1 DEF Packet
  <2>3. <<>> \in B
    BY <1>2, <2>1
  <2>4. \/ ok /\ file_fd' = Name /\ files' = SetFile(Name, <<>>)
        \/ ~ok /\ file_fd' = NoFile /\ files' \in {files, WithoutFile(Name), SetFile(Name, <<>>)}
    BY <2>2 DEF FileEffect, IDLE
  <2>5. ASSUME files' = SetFile(Name, <<>>) PROVE Name \in DOMAIN files' /\ files'[Name] = <<>>
    BY <2>5 DEF SetFile
  <2>6. ASSUME files' = WithoutFile(Name) PROVE Name \notin DOMAIN files'
    BY <2>6 DEF WithoutFile
  <2>7. CASE ok
    BY <1>1, <1>6, <2>1, <2>3, <2>4, <2>5, <2>7
  <2>8. CASE ~ok
    BY <1>3, <1>6, <2>3, <2>4, <2>5, <2>6, <2>8
  <2> QED BY <2>7, <2>8
<1>9. CASE k = 1
  <2>1. k + 1 = 2 /\ k + 1 \in 1..n - 1 /\ k \in 1..n - 1
    BY <1>1, <1>9
  <2>2. FileEffect("G", Remove, ok)
    BY <1>1, <1>4, <2>1 DEF Packet
  <2>3. file_fd' = file_fd /\ files' = files
    BY <2>2 DEF FileEffect
  <2> QED BY <1>1, <1>3, <1>5, <1>6, <1>9, <2>1, <2>3
<1>10. CASE k \in 2..n - 2
  <2> DEFINE a == Upto(s, k)
             d == Upto(s, k + 1)
             pay == SubSeq(s, a + 1, d)
  <2>1. k \in 1..n - 1 /\ k + 1 \in 1..n - 1
    BY <1>1, <1>10
  <2>2. a \in 0..Len(s) /\ d \in a..Len(s) /\ FileEffect("W", pay, ok)
    <3>1. a \in 0..Len(s) /\ d \in a..Len(s) /\ sc[k + 1] = Packet("W", pay)
      BY <1>1, <1>10
    <3> HIDE DEF a, d, pay
    <3>2. sc[k + 1].command = "W" /\ sc[k + 1].payload = pay
      BY <3>1 DEF Packet
    <3> QED BY <1>4, <3>1, <3>2
  <2>3. file_fd = Name /\ Name \in DOMAIN files /\ files[Name] = SubSeq(s, 1, a)
    BY <1>5, <2>1
  <2> HIDE DEF a, d
  <2>4. /\ pay \in Seq(Bytes) /\ Len(pay) = d - a /\ SubSeq(s, 1, a) \o pay = SubSeq(s, 1, d)
        /\ \A j \in 0..d - a : SubSeq(s, 1, a) \o SubSeq(pay, 1, j) = SubSeq(s, 1, a + j)
    <3>1. 0 \in 0..d - a
      BY <1>1, <2>2
    <3>2. ASSUME NEW j \in 0..d - a
          PROVE  /\ pay \in Seq(Bytes) /\ Len(pay) = d - a /\ SubSeq(s, 1, a) \o pay = SubSeq(s, 1, d)
                 /\ SubSeq(s, 1, a) \o SubSeq(pay, 1, j) = SubSeq(s, 1, a + j)
      BY <1>1, <2>2, PrefixGrows
    <3> QED BY <3>1, <3>2
  <2> HIDE DEF pay
  <2>5. /\ file_fd' = Name
        /\ \/ ok /\ files' = SetFile(Name, SubSeq(s, 1, d))
           \/ ~ok /\ files' = files
           \/ ~ok /\ \E j \in 0..Len(pay) - 1 : files' = SetFile(Name, SubSeq(s, 1, a) \o SubSeq(pay, 1, j))
    BY <2>2, <2>3, <2>4 DEF FileEffect, IDLE
  <2>6. CASE ok
    <3>1. Name \in DOMAIN files' /\ files'[Name] = SubSeq(s, 1, d)
      BY <2>5, <2>6 DEF SetFile
    <3>2. d \in 0..Len(s)
      BY <1>1, <2>2
    <3>3. SubSeq(s, 1, d) \in B
      BY <1>2, <3>2
    <3> QED BY <1>6, <2>1, <2>5, <3>1, <3>3 DEF d
  <2>7. CASE ~ok
    <3>1. CASE files' = files
      BY <1>3, <1>6, <2>5, <2>7, <3>1
    <3>2. CASE files' # files
      <4>1. PICK j \in 0..Len(pay) - 1 : files' = SetFile(Name, SubSeq(s, 1, a) \o SubSeq(pay, 1, j))
        BY <2>5, <2>7, <3>2
      <4>2. j \in 0..d - a /\ a + j \in 0..Len(s)
        BY <1>1, <2>2, <2>4, <4>1
      <4>3. files'[Name] = SubSeq(s, 1, a + j)
        BY <2>4, <4>1, <4>2 DEF SetFile
      <4>4. SubSeq(s, 1, a + j) \in B
        BY <1>2, <4>2
      <4> QED BY <1>6, <2>5, <2>7, <4>3, <4>4
    <3> QED BY <3>1, <3>2
  <2> QED BY <2>6, <2>7
<1>11. CASE k = n - 1
  <2>1. k \in 1..n - 1 /\ k + 1 = n /\ k + 1 \notin 1..n - 1 /\ SubSeq(s, 1, Len(s)) = s
    BY <1>1, <1>11
  <2>2. FileEffect("C", Name, ok)
    BY <1>1, <1>4, <2>1 DEF Packet
  <2>3. file_fd' = NoFile /\ files' = files
    BY <2>2 DEF FileEffect, IDLE
  <2>4. files[Name] = s /\ Name \in DOMAIN files
    BY <1>1, <1>5, <1>11, <2>1
  <2>5. Stored' = s
    BY <2>3, <2>4 DEF Stored
  <2> QED BY <1>3, <1>6, <2>1, <2>3, <2>5
<1> QED
  BY <1>7, <1>8, <1>9, <1>10, <1>11

(* The server runs fs_data_received on what it has of the command. *)
LEMMA TransferHandler ==
    ASSUME TransferInv, Handler, UNCHANGED tool
    PROVE  TransferInv'
<1> USE FileServerAssumption
<1> DEFINE c == m_pClient
           sc == script[c]
           l == log[c]
           k == Len(l)
           E == Len(Encode(sc[k + 1]))
<1>1. /\ UNCHANGED <<report, source, sock, status, send_num, allow_send, answered>>
      /\ commands' = commands /\ sock \in Conns /\ source \in Sources
  BY DEF tool, TransferInv, ToolState, commands
<1>2. /\ handling = c /\ c \in Conns /\ c # NoClient /\ pending # <<>> /\ ~faulted /\ ~faulted' /\ ServerInv
      /\ UNCHANGED <<listenTcp, g_pServer, m_pClient, tosend, script>>
  BY HandlerShape DEF TransferInv, OrderInv, ServerInv, SlotInv, SlotTypes, SlotServed, client
<1>3. OrderInv' /\ ServerInv'
  BY OrderHandler DEF TransferInv, OrderInv
<1>4. /\ l \in Seq(Logged) /\ k \in Nat /\ InFlight(c) # 0 /\ Uploading(c)
      /\ log \in [Conns -> Seq(Logged)]
  <2>1. l \in Seq(Logged) /\ k \in Nat /\ InFlight(c) # 0
    BY <1>2, WireFacts
  <2>2. Uploading(c) /\ log \in [Conns -> Seq(Logged)]
    BY <1>2 DEF TransferInv, SlotUploads, ServerInv, WireTypes
  <2> QED BY <2>1, <2>2
<1>5. sc \in Uploads /\ WellFormed(sc) /\ k < Len(sc) /\ AllOk(l) /\ InFlight(c) = E
      /\ \A s \in Sources : sc = PrepareFile(s) => FileHolds(s, k)
  <2>1. /\ sc \in Uploads /\ k < Len(sc) /\ AllOk(l) /\ InFlight(c) = E
        /\ \A s \in Sources : sc = PrepareFile(s) => FileHolds(s, k)
    BY <1>4 DEF Uploading
  <2>2. WellFormed(sc)
    <3>1. PICK s \in Sources : sc = PrepareFile(s)
      BY <2>1 DEF Uploads
    <3>2. WellFormed(PrepareFile(s))
      BY UploadCommands
    <3> QED BY <3>1, <3>2
  <2> QED BY <2>1, <2>2
<1>0. PICK q \in Nat : q = k
  BY <1>4
<1>6. /\ Executed(log'[c], sc) /\ k + 1 \in 1..Len(sc)
      /\ \/ Len(log'[c]) = k /\ Len(m_DataBuffer') + Len(pending') = Len(m_DataBuffer) + Len(pending)
         \/ /\ Len(log'[c]) = k + 1
            /\ Len(m_DataBuffer') + Len(pending') + E = Len(m_DataBuffer) + Len(pending)
  BY <1>2, <1>5, HandlerInStep DEF TransferInv
<1> DEFINE X == Len(m_DataBuffer)
           Y == Len(pending)
           Z == Len(tosend[c])
           X1 == Len(m_DataBuffer')
           Y1 == Len(pending')
<1>7. X \in Nat /\ Y \in Nat /\ Z \in Nat /\ X1 \in Nat /\ Y1 \in Nat
      /\ InFlight(c) = X + Y + Z /\ InFlight(c)' = X1 + Y1 + Z
  <2>1. X \in Nat /\ Y \in Nat /\ Z \in Nat
    BY <1>2, WireFacts
  <2>2. m_DataBuffer' \in Seq(Bytes) /\ pending' \in Seq(Bytes)
    BY <1>3 DEF ServerInv, WireTypes, BufferTypes
  <2>3. tosend'[c'] = tosend[c] /\ c' = c
    BY <1>2
  <2> QED BY <2>1, <2>2, <2>3 DEF InFlight
<1>8. CASE UNCHANGED <<log, file_fd, files>>
  <2>1. Len(log'[c]) = k /\ k # k + 1
    BY <1>4, <1>8
  <2>2. X1 + Y1 = X + Y
    BY <1>6, <2>1
  <2>3. InFlight(c)' = InFlight(c)
    <3> HIDE DEF X, Y, Z, X1, Y1
    <3> QED BY <1>7, <2>2
  <2>4. \A d \in Conns : m_pClient = d => InFlight(d)' = InFlight(d)
    <3> SUFFICES ASSUME NEW d \in Conns, m_pClient = d PROVE InFlight(d)' = InFlight(d)
      OBVIOUS
    <3>1. InFlight(d)' = X1 + Y1 + Z /\ InFlight(d) = X + Y + Z
      BY <1>2 DEF InFlight
    <3> QED BY <1>7, <2>3, <3>1
  <2> QED BY <1>2, <1>3, <1>8, <2>4, SameUpload
<1>9. ASSUME NEW x, log' = [log EXCEPT ![handling] = Append(@, x)], FileEffect(x.command, x.payload, x.ok)
      PROVE  TransferInv'
  <2>1. log'[c] = Append(l, x) /\ \A d \in Conns : d # c => log'[d] = log[d]
    BY <1>2, <1>4, <1>9
  <2>2. x \in Logged
    <3>1. log'[c] \in Seq(Logged)
      BY <1>2, <1>3 DEF ServerInv, WireTypes
    <3>2. Len(Append(l, x)) = k + 1 /\ Append(l, x)[k + 1] = x
      BY <1>4
    <3>3. k + 1 \in 1..Len(log'[c])
      BY <1>4, <2>1, <3>2
    <3> QED BY <2>1, <3>1, <3>2, <3>3
  <2>3. Len(log'[c]) = k + 1 /\ log'[c][k + 1] = x /\ \A i \in 1..k : log'[c][i] = l[i]
    BY <1>4, <2>1, <2>2
  <2>4. InFlight(c)' = 0
    <3>1. X1 + Y1 + E = X + Y
      BY <1>4, <1>6, <2>3
    <3>2. X + Y + Z = E
      BY <1>5, <1>7
    <3> HIDE DEF X, Y, Z, X1, Y1, E
    <3>3. E = X + Y + Z /\ E \in Nat
      BY <1>7, <3>2
    <3>4. X1 + Y1 + Z = 0
      BY <1>7, <3>1, <3>3
    <3> QED BY <1>7, <3>4
  <2>5. FileEffect(sc[k + 1].command, sc[k + 1].payload, x.ok)
    <3>1. x.command = sc[k + 1].command /\ x.payload = sc[k + 1].payload
      <4>1. k + 1 \in 1..Len(log'[c])
        BY <1>4, <2>3
      <4> QED BY <1>6, <2>3, <4>1 DEF Executed
    <3> QED BY <1>9, <3>1
  <2>6. ASSUME NEW s \in Sources, sc = PrepareFile(s) PROVE FileSafe' /\ (x.ok => FileHolds(s, q + 1)')
    <3>1. k \in 0..Len(PrepareFile(s)) - 1
      <4>1. Len(PrepareFile(s)) \in Nat
        BY UploadCommands
      <4> QED BY <1>4, <1>5, <2>6, <4>1
    <3>2. FileHolds(s, k) /\ FileSafe
      BY <1>5, <2>6 DEF TransferInv
    <3>3. FileEffect(PrepareFile(s)[k + 1].command, PrepareFile(s)[k + 1].payload, x.ok)
      BY <2>5, <2>6
    <3> HIDE DEF k
    <3> QED BY <1>0, <3>1, <3>2, <3>3, FileAfter
  <2>7. FileSafe' /\ ServerUp'
    BY <1>2, <1>5, <2>6 DEF Uploads, TransferInv, ServerUp
  <2>8. AllOk(log'[c]) => x.ok
    <3>1. k + 1 \in 1..Len(log'[c])
      BY <1>4, <2>3
    <3> QED BY <2>3, <3>1 DEF AllOk
  <2>9. SlotUploads'
    <3> SUFFICES ASSUME NEW d \in Conns, m_pClient' = d PROVE Uploading(d)'
      BY DEF SlotUploads
    <3>1. d = c /\ script'[d] = sc /\ log'[d] = log'[c]
      BY <1>2
    <3>2. InFlight(d)' = 0
      <4>1. InFlight(d)' = X1 + Y1 + Z
        BY <1>2, <3>1 DEF InFlight
      <4> QED BY <1>7, <2>4, <4>1
    <3>3. ASSUME AllOk(log'[d]), NEW s \in Sources, script'[d] = PrepareFile(s) PROVE FileHolds(s, Len(log[d]))'
      <4>1. x.ok /\ sc = PrepareFile(s) /\ Len(log'[d]) = k + 1
        BY <2>3, <2>8, <3>1, <3>3
      <4>2. FileHolds(s, q + 1)'
        BY <2>6, <4>1
      <4>3. Len(log'[d]) = q + 1
        BY <1>0, <4>1
      <4> QED BY <4>2, <4>3 DEF FileHolds
    <3> QED BY <1>5, <3>1, <3>2, <3>3 DEF Uploading, Uploads
  <2>10. ToolState'
    BY <1>1 DEF TransferInv, ToolState
  <2>11. ASSUME report = "running", sock = c
         PROVE  script[sock] = commands /\ answered <= k /\ send_num = k + 1 /\ answered \in Nat
    BY <1>1, <1>2, <1>4, <2>11 DEF TransferInv, ToolAndServer, ToolState
  <2>12. ToolAndServer'
    <3> SUFFICES ASSUME report = "running"
                 PROVE  /\ Len(log'[sock]) <= send_num /\ (log'[sock] # <<>> => script[sock] = commands)
                        /\ \A i \in 1..answered : i <= Len(log'[sock]) => log'[sock][i].ok
                        /\ m_pClient = sock /\ ~faulted =>
                              /\ script[sock] = commands /\ answered <= Len(log'[sock])
                              /\ send_num = Len(log'[sock]) + (IF InFlight(sock)' = 0 THEN 0 ELSE 1)
      BY <1>1, <1>2 DEF ToolAndServer
    <3>1. CASE sock = c
      <4>1. script[sock] = commands /\ answered <= k /\ send_num = k + 1 /\ answered \in Nat
        BY <2>11, <3>1
      <4>2. InFlight(sock)' = 0
        <5>1. InFlight(sock)' = X1 + Y1 + Z
          BY <1>1, <1>2, <3>1 DEF InFlight
        <5> QED BY <1>7, <2>4, <5>1
      <4>3. Len(log'[sock]) = k + 1 /\ \A i \in 1..k : log'[sock][i] = l[i]
        BY <2>3, <3>1
      <4>4. ASSUME NEW i \in 1..answered PROVE log'[sock][i].ok
        <5>1. i \in 1..k
          BY <1>4, <4>1
        <5>2. l[i].ok
          BY <1>5, <5>1 DEF AllOk
        <5> QED BY <4>3, <5>1, <5>2
      <4>5. k + 1 <= send_num /\ answered <= k + 1 /\ send_num = k + 1 + 0
        BY <1>4, <4>1
      <4> HIDE DEF k
      <4> QED BY <4>1, <4>2, <4>3, <4>4, <4>5
    <3>2. CASE sock # c
      BY <1>1, <2>1, <3>2 DEF TransferInv, ToolAndServer
    <3> QED BY <3>1, <3>2
  <2>13. AnswerIntact'
    BY <1>2, <1>3, <2>10, <2>12, IntactAlways
  <2>14. Finished'
    <3> SUFFICES ASSUME report = "done" \/ (report = "running" /\ Len(log'[sock]) = Len(commands) /\ AllOk(log'[sock]))
                 PROVE  Safe'
      BY <1>1 DEF Finished, Complete
    <3>1. ~Safe
      <4> SUFFICES ASSUME Safe, m_pClient = sock, InFlight(sock) = 0 PROVE FALSE
        BY <1>2 DEF Safe
      <4> QED BY <1>4
    <3>2. report = "running" /\ sock = c
      BY <1>1, <2>1, <3>1 DEF TransferInv, Finished, Complete
    <3>3. script[c] = commands /\ x.ok /\ k + 1 = Len(PrepareFile(source))
      BY <2>3, <2>8, <2>11, <3>2 DEF commands
    <3>4. FileHolds(source, q + 1)'
      <4>1. PICK s \in Sources : s = source
        BY <1>1
      <4>2. FileHolds(s, q + 1)'
        BY <2>6, <3>3, <4>1 DEF commands
      <4> QED BY <1>1, <4>1, <4>2
    <3>5. file_fd' = NoFile /\ Stored' = source
      <4>1. q + 1 # 0 /\ q + 1 = Len(PrepareFile(source)) /\ q + 1 \notin 1..(q + 1) - 1
        BY <1>0, <3>3
      <4>2. Len(PrepareFile(source')) = Len(PrepareFile(source))
        BY <1>1
      <4> QED BY <1>1, <3>4, <4>1, <4>2 DEF FileHolds
    <3>6. InFlight(sock)' = 0
      <4>1. InFlight(sock)' = X1 + Y1 + Z
        BY <1>1, <1>2, <3>2 DEF InFlight
      <4> QED BY <1>7, <2>4, <4>1
    <3> QED BY <1>1, <1>2, <3>2, <3>5, <3>6 DEF Safe
  <2> QED
    BY <1>3, <2>7, <2>9, <2>10, <2>12, <2>13, <2>14 DEF TransferInv
<1>10. UNCHANGED <<log, file_fd, files>>
       \/ \E x : log' = [log EXCEPT ![handling] = Append(@, x)] /\ FileEffect(x.command, x.payload, x.ok)
  BY <1>2, HandlerEffect
<1> QED
  BY <1>8, <1>9, <1>10

(* The invariant holds at the start. *)
LEMMA TransferInitially == TransferInit => TransferInv
<1> SUFFICES ASSUME TransferInit PROVE TransferInv
  OBVIOUS
<1> USE FileServerAssumption
<1>1. Init /\ report = "idle" /\ source \in Sources /\ sock = CHOOSE d \in Conns : TRUE
  BY DEF TransferInit
<1>2. OrderInv
  <2>1. Synchronised
    BY <1>1 DEF Init, Synchronised
  <2>2. AllExecuted
    BY <1>1 DEF Init, AllExecuted, Executed
  <2> QED
    BY <1>1, <2>1, <2>2, ServerInitially DEF OrderInv
<1>3. ServerUp /\ SlotUploads /\ FileSafe
  BY <1>1 DEF Init, EspconnInit, ServerUp, SlotUploads, FileSafe
<1>4. ToolState
  BY <1>1, TransferAssumption DEF ToolState
<1>5. ToolAndServer /\ AnswerIntact /\ Finished
  BY <1>1 DEF ToolAndServer, AnswerIntact, Finished
<1> QED
  BY <1>2, <1>3, <1>4, <1>5 DEF TransferInv

(* Every step keeps it. *)
LEMMA TransferStep ==
    ASSUME TransferInv, [TransferNext]_transferVars
    PROVE  TransferInv'
<1>1. CASE UNCHANGED transferVars
  <2>1. UNCHANGED <<vars, source, sock>> /\ UNCHANGED tool
    BY <1>1 DEF transferVars, tool
  <2>2. ToolState' /\ ToolAndServer' /\ AnswerIntact' /\ Finished'
    BY <2>1 DEF TransferInv, ToolState, ToolAndServer, AnswerIntact, Finished, Complete, Safe, InFlight, Stored, commands,
        tool, vars, parser, storage, client
  <2> QED BY <2>1, <2>2, ServerWaits
<1>2. CASE TransferNext
  BY <1>2, TransferBegin, TransferSend, TransferProcess, TransferGiveUp, TransferReceive, TransferHandler,
      TransferConn, TransferPowerLoss DEF TransferNext, Deliver, Serve
<1> QED
  BY <1>1, <1>2

(* What tcp_write does not take of an answer is written later, out of      *)
(* m_DataBuffer; the tool waits for the answer before it sends the next    *)
(* command: until it has read it nothing is written into the buffer,       *)
(* whatever the sizes of texts, chunks and segments.                       *)
THEOREM AnswersNotOverwritten == TransferSpec => []AnswerIntact
<1>1. TransferInv => AnswerIntact
  BY DEF TransferInv
<1> QED
  BY <1>1, TransferInitially, TransferStep, PTL DEF TransferSpec

(* As long as nobody starts or ends the tool, the file changes only to a   *)
(* beginning of a text, and not at all once success was reported.          *)
LEMMA FileStep ==
    ASSUME TransferInv, TransferInv', UNCHANGED <<source, report>>
    PROVE  [Promise!Next]_<<Stored, source, report>>
<1>1. Stored' \in Promise!Beginnings \union {NoFile}
  <2>1. (Promise!Beginnings)' = Promise!Beginnings
    BY DEF Promise!Beginnings
  <2> QED BY <2>1 DEF TransferInv, FileSafe, Stored
<1>2. CASE report = "done"
  <2>1. Stored' = Stored
    BY <1>2 DEF TransferInv, Finished, Safe
  <2> QED BY <2>1
<1>3. CASE report # "done"
  BY <1>1, <1>3 DEF Promise!Next, Promise!Store
<1> QED
  BY <1>2, <1>3

(* Each step of the tool and the server is a step of an upload, or none. *)
LEMMA PromiseStep ==
    ASSUME TransferInv, TransferInv', [TransferNext]_transferVars
    PROVE  [Promise!Next]_<<Stored, source, report>>
<1>1. CASE UNCHANGED <<source, report>>
  BY <1>1, FileStep
<1>2. ASSUME NEW c \in Conns, NEW s \in Sources, Begin(c, s) PROVE [Promise!Next]_<<Stored, source, report>>
  <2>1. report # "running" /\ report' = "running" /\ source' = s /\ Stored' = Stored
    BY <1>2 DEF Begin, Accept, storage, Stored
  <2> QED BY <2>1 DEF Promise!Next, Promise!Begin
<1>3. ASSUME UNCHANGED vars, source' = source, report = "running", report' \in {"done", "failed"}
      PROVE  [Promise!Next]_<<Stored, source, report>>
  <2>1. Stored' = Stored
    BY <1>3 DEF vars, storage, Stored
  <2>2. CASE report' = "done"
    <3>1. Stored' = source'
      BY <2>2 DEF TransferInv, Finished, Safe
    <3> QED BY <1>3, <2>1, <2>2, <3>1 DEF Promise!Next, Promise!Finish
  <2>3. CASE report' = "failed"
    BY <1>3, <2>1, <2>3 DEF Promise!Next, Promise!GiveUp
  <2> QED BY <1>3, <2>2, <2>3
<1>4. CASE ProcessPacket
  <2>1. report = "running" /\ UNCHANGED <<vars, source>> /\ report' \in {"done", "failed", report}
    BY <1>4 DEF ProcessPacket, Confirm, Refuse, Exit
  <2> QED BY <1>1, <1>3, <2>1
<1>5. CASE ConnectionLost \/ Interrupt
  BY <1>3, <1>5 DEF ConnectionLost, Interrupt, Exit
<1>6. CASE SendCommand \/ PowerLoss \/ UNCHANGED tool
  BY <1>1, <1>6 DEF SendCommand, PowerLoss, tool
<1>7. CASE UNCHANGED transferVars
  BY <1>1, <1>7 DEF transferVars, tool
<1> QED
  BY <1>2, <1>4, <1>5, <1>6, <1>7 DEF TransferNext, Deliver, Serve

(* The tool and the server keep what Upload promises, for all texts, chunk *)
(* and buffer sizes, however TCP cuts the commands, and however the        *)
(* connections, the flash, the power and the user fail: the node holds the *)
(* beginning of a text that was uploaded, "File transfer done!" is printed *)
(* only when all of it is there, and then it stays there.                  *)
THEOREM UploadKept == TransferSpec => KeepsPromise
<1>1. TransferInit => Promise!Init
  <2> SUFFICES ASSUME TransferInit PROVE Promise!Init
    OBVIOUS
  <2>1. files = <<>> /\ source \in Sources /\ report = "idle"
    BY DEF TransferInit, Init
  <2>2. Stored = NoFile
    BY <2>1 DEF Stored
  <2> QED BY <2>1, <2>2 DEF Promise!Init
<1>2. TransferInv /\ TransferInv' /\ [TransferNext]_transferVars => [Promise!Next]_<<Stored, source, report>>
  BY PromiseStep
<1> QED
  BY <1>1, <1>2, TransferInitially, TransferStep, PTL DEF TransferSpec, KeepsPromise, Promise!Spec
=============================================================================
