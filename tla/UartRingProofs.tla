-------------------------- MODULE UartRingProofs --------------------------
(***************************************************************************)
(* The receive ring implements a lossy queue for every size of the ring    *)
(* and of the hardware FIFO, every trigger level and every set of          *)
(* characters.                                                             *)
(***************************************************************************)
EXTENDS UartRing, SequenceTheorems, TLAPS

(* What makes NonEmptyStays inductive.  A ring that is empty when the test *)
(* loads the second position was empty when it loaded the first: only      *)
(* uart_getc empties a ring.  Between lock and unlock the handler is out.  *)
Inv ==
    /\ TypeOK
    /\ NonEmptyStays
    /\ pc = "test" /\ pWritePos = pReadPos => loaded[2] = pReadPos
    /\ pc = "locked" => ~intr /\ ch = buff[pReadPos]

LEMMA AheadMoves ==
    ASSUME NEW p \in Offsets
    PROVE  Ahead(p) \in Offsets /\ Ahead(p) # p
BY RingAssumption DEF Ahead, Offsets

LEMMA InitInv == Init => Inv
BY RingAssumption DEF Init, Inv, TypeOK, NonEmptyStays, Offsets

(* The handler never leaves the ring empty. *)
LEMMA StoreLeavesSome ==
    ASSUME TypeOK, IntrStore
    PROVE  pWritePos' # pReadPos' /\ pWritePos' \in Offsets /\ pReadPos' \in Offsets
<1>1. pWritePos' \in Offsets
    BY AheadMoves DEF IntrStore, TypeOK
<1>2. CASE pWritePos' = pReadPos
    <2>1. pReadPos' = Ahead(pReadPos)
        BY <1>2 DEF IntrStore
    <2> QED
        BY <1>1, <1>2, <2>1, AheadMoves DEF TypeOK
<1>3. CASE pWritePos' # pReadPos
    BY <1>1, <1>3 DEF IntrStore, TypeOK
<1> QED
    BY <1>2, <1>3

LEMMA NextInv == Inv /\ [Next]_vars => Inv'
<1> SUFFICES ASSUME Inv, [Next]_vars PROVE Inv'
    OBVIOUS
<1> USE DEF Inv
<1>1. ASSUME NEW c \in Chars, LineChar(c) PROVE Inv'
    BY <1>1 DEF LineChar, ring, getc, TypeOK, NonEmptyStays
<1>2. CASE UartSetup
    BY <1>2 DEF UartSetup, ring, getc, TypeOK, NonEmptyStays
<1>3. CASE IntrEnter
    BY <1>3 DEF IntrEnter, ring, getc, TypeOK, NonEmptyStays
<1>4. CASE IntrStore
    <2>1. Head(fifo) \in Chars /\ Tail(fifo) \in Seq(Chars)
        BY <1>4, HeadTailProperties DEF IntrStore, TypeOK
    <2>2. buff' \in [Offsets -> Chars]
        BY <1>4, <2>1 DEF IntrStore, TypeOK
    <2>3. TypeOK'
        BY <1>4, <2>1, <2>2, StoreLeavesSome DEF IntrStore, getc, TypeOK
    <2>4. pc # "locked" /\ UNCHANGED pc
        BY <1>4 DEF IntrStore, getc
    <2> QED
        BY <1>4, <2>3, <2>4, StoreLeavesSome DEF NonEmptyStays
<1>5. CASE IntrReturn
    BY <1>5 DEF IntrReturn, ring, getc, TypeOK, NonEmptyStays
<1>6. CASE GetcCall
    BY <1>6 DEF GetcCall, ring, TypeOK, NonEmptyStays
<1>7. CASE GetcLoad
    BY <1>7 DEF GetcLoad, ring, TypeOK, NonEmptyStays
<1>8. CASE GetcTest
    BY <1>8 DEF GetcTest, LooksEmpty, ring, TypeOK, NonEmptyStays
<1>9. CASE GetcRead
    BY <1>9 DEF GetcRead, ring, TypeOK, NonEmptyStays
<1>10. CASE GetcAdvance
    BY <1>10, AheadMoves DEF GetcAdvance, TypeOK, NonEmptyStays
<1>11. CASE UNCHANGED vars
    BY <1>11 DEF vars, ring, getc, TypeOK, NonEmptyStays
<1> QED
    BY <1>1, <1>2, <1>3, <1>4, <1>5, <1>6, <1>7, <1>8, <1>9, <1>10, <1>11 DEF Next

(* uart_getc never reads from an empty ring, although it tests before it   *)
(* locks out the interrupt.                                                *)
THEOREM NeverReadsEmpty == Spec => []NonEmptyStays
<1>1. Inv => NonEmptyStays
    BY DEF Inv
<1> QED
    BY InitInv, NextInv, <1>1, PTL DEF Spec

----------------------------------------------------------------------------
(* The contents of the ring as a sequence. *)
ContentsFacts ==
    /\ Waiting \in 0..RX_BUFF_SIZE
    /\ \A i \in 1..Waiting : Place(i) \in Offsets
    /\ Contents \in Seq(Chars)
    /\ Len(Contents) = Waiting
    /\ \A i \in 1..Waiting : Contents[i] = buff[Place(i)]

LEMMA ContentsSeq == TypeOK => ContentsFacts
<1> SUFFICES ASSUME TypeOK PROVE ContentsFacts
    OBVIOUS
<1>1. Waiting \in 0..RX_BUFF_SIZE
    BY RingAssumption DEF TypeOK, Waiting, Offsets
<1>2. \A i \in 1..Waiting : Place(i) \in Offsets
    BY RingAssumption DEF TypeOK, Waiting, Place, Offsets
<1>3. Contents \in [1..Waiting -> Chars]
    BY <1>2 DEF Contents, TypeOK
<1> QED
    BY <1>1, <1>2, <1>3, RingAssumption DEF Contents, ContentsFacts

(* The same after a step. *)
LEMMA ContentsSeqNext == TypeOK' => ContentsFacts'
BY ContentsSeq, PTL

(* Places and positions after the reader moved one ahead. *)
LEMMA PlaceAhead ==
    ASSUME TypeOK, TypeOK', pReadPos' = Ahead(pReadPos),
           NEW i \in 1..RX_BUFF_SIZE
    PROVE  Place(i)' = Place(i + 1)
BY RingAssumption DEF Place, Ahead, TypeOK, Offsets

LEMMA PlaceOfWriter ==
    ASSUME TypeOK
    PROVE  Place(Waiting + 1) = pWritePos
BY RingAssumption DEF Place, Waiting, TypeOK, Offsets

LEMMA PlacesDiffer ==
    ASSUME TypeOK, NEW i \in 1..Waiting
    PROVE  Place(i) # pWritePos
BY RingAssumption DEF Place, Waiting, TypeOK, Offsets

(* One round of the handler's loop is Put. *)
LEMMA StoreIsPut ==
    ASSUME Inv, Inv', IntrStore
    PROVE  \E c \in Chars : Queue!Put(c)
<1> USE DEF ContentsFacts
<1> DEFINE c == Head(fifo)
<1>1. c \in Chars /\ UNCHANGED got
    BY HeadTailProperties DEF IntrStore, Inv, TypeOK, getc
<1>2. TypeOK /\ TypeOK' /\ RX_BUFF_SIZE \in Nat \ {0}
    BY RingAssumption DEF Inv
<1>3. /\ buff' = [buff EXCEPT ![pWritePos] = c]
      /\ pWritePos' = Ahead(pWritePos)
    BY DEF IntrStore
<1>4. buff'[pWritePos] = c /\ \A p \in Offsets : p # pWritePos => buff'[p] = buff[p]
    BY <1>2, <1>3 DEF TypeOK
<1>5. CASE pWritePos' # pReadPos
    <2>1. pReadPos' = pReadPos
        BY <1>5 DEF IntrStore
    <2>2. Waiting # RX_BUFF_SIZE /\ Waiting' = Waiting + 1
        BY <1>2, <1>3, <1>5, <2>1 DEF Waiting, Ahead, TypeOK, Offsets
    <2>3. \A i \in 1..Waiting + 1 : Place(i)' = Place(i)
        BY <2>1 DEF Place
    <2>4. \A i \in 1..Waiting : Contents'[i] = Contents[i]
        BY <1>2, <1>4, <2>2, <2>3, ContentsSeq, ContentsSeqNext, PlacesDiffer
    <2>5. Contents'[Waiting + 1] = c
        BY <1>2, <1>4, <2>2, <2>3, ContentsSeq, ContentsSeqNext, PlaceOfWriter
    <2>6. Contents' = Append(Contents, c)
        <3> DEFINE t == Append(Contents, c)
        <3>1. t \in Seq(Chars) /\ Len(t) = Waiting + 1
            BY <1>1, <1>2, ContentsSeq, ContentsSeqNext
        <3>2. \A i \in 1..Waiting + 1 : t[i] = Contents'[i]
            BY <1>1, <1>2, <2>4, <2>5, ContentsSeq, ContentsSeqNext
        <3>3. Contents' \in Seq(Chars) /\ Len(Contents') = Waiting + 1
            BY <1>2, <2>2, ContentsSeq, ContentsSeqNext
        <3> HIDE DEF t
        <3> QED
            BY <3>1, <3>2, <3>3, SeqEqual DEF t
    <2>7. Len(Contents) # RX_BUFF_SIZE
        BY <1>2, <2>2, ContentsSeq, ContentsSeqNext
    <2> QED
        BY <1>1, <2>6, <2>7 DEF Queue!Put, Queue!Kept
<1>6. CASE pWritePos' = pReadPos
    <2>1. pReadPos' = Ahead(pReadPos)
        BY <1>6 DEF IntrStore
    <2>2. Waiting = RX_BUFF_SIZE /\ Waiting' = RX_BUFF_SIZE
        BY <1>2, <1>3, <1>6, <2>1 DEF Waiting, Ahead, TypeOK, Offsets
    <2>3. \A i \in 1..Waiting : Place(i)' = Place(i + 1)
        BY <1>2, <2>1, <2>2, PlaceAhead
    <2>4. Contents # <<>> /\ Contents \in Seq(Chars) /\ Len(Contents) = RX_BUFF_SIZE
        BY <1>2, <2>2, ContentsSeq, ContentsSeqNext
    <2>5. /\ Tail(Contents) \in Seq(Chars) /\ Len(Tail(Contents)) = RX_BUFF_SIZE - 1
          /\ \A i \in 1..RX_BUFF_SIZE - 1 : Tail(Contents)[i] = Contents[i + 1]
        BY <2>4, HeadTailProperties
    <2>6. \A i \in 1..RX_BUFF_SIZE - 1 : Contents'[i] = Contents[i + 1]
        <3> TAKE i \in 1..RX_BUFF_SIZE - 1
        <3>1. i \in 1..Waiting' /\ i \in 1..Waiting /\ i + 1 \in 1..Waiting
            BY <1>2, <2>2
        <3>2. Contents'[i] = buff'[Place(i + 1)]
            BY <1>2, <3>1, <2>3, ContentsSeq, ContentsSeqNext
        <3>3. Place(i + 1) \in Offsets /\ Place(i + 1) # pWritePos
            BY <1>2, <3>1, ContentsSeq, ContentsSeqNext, PlacesDiffer
        <3> QED
            BY <1>2, <1>4, <3>1, <3>2, <3>3, ContentsSeq, ContentsSeqNext
    <2>7. Contents'[RX_BUFF_SIZE] = c
        BY <1>2, <1>4, <2>2, <2>3, ContentsSeq, ContentsSeqNext, PlaceOfWriter
    <2>8. Contents' = Append(Tail(Contents), c)
        <3> DEFINE t == Append(Tail(Contents), c)
        <3>1. t \in Seq(Chars) /\ Len(t) = RX_BUFF_SIZE
            BY <1>1, <1>2, <2>5
        <3>2. \A i \in 1..RX_BUFF_SIZE : t[i] = Contents'[i]
            BY <1>1, <1>2, <2>5, <2>6, <2>7
        <3>3. Contents' \in Seq(Chars) /\ Len(Contents') = RX_BUFF_SIZE
            BY <1>2, <2>2, ContentsSeq, ContentsSeqNext
        <3> HIDE DEF t
        <3> QED
            BY <3>1, <3>2, <3>3, SeqEqual DEF t
    <2> QED
        BY <1>1, <2>4, <2>8 DEF Queue!Put, Queue!Kept
<1> QED
    BY <1>5, <1>6

(* The end of uart_getc is Get. *)
LEMMA AdvanceIsGet ==
    ASSUME Inv, Inv', GetcAdvance
    PROVE  Queue!Get
<1> USE DEF ContentsFacts
<1>1. TypeOK /\ TypeOK' /\ RX_BUFF_SIZE \in Nat \ {0}
    BY RingAssumption DEF Inv
<1>2. pWritePos # pReadPos /\ ch = buff[pReadPos]
    BY DEF Inv, NonEmptyStays, GetcAdvance
<1>3. /\ pReadPos' = Ahead(pReadPos) /\ got' = <<ch>>
      /\ UNCHANGED <<buff, pWritePos>>
    BY DEF GetcAdvance
<1>4. Waiting >= 1 /\ Waiting' = Waiting - 1
    BY <1>1, <1>2, <1>3 DEF Waiting, Ahead, TypeOK, Offsets
<1>5. Place(1) = pReadPos
    BY <1>1 DEF Place, TypeOK, Offsets
<1>6. Contents # <<>> /\ Contents \in Seq(Chars) /\ Len(Contents) = Waiting
    BY <1>1, <1>4, ContentsSeq, ContentsSeqNext
<1>7. Head(Contents) = ch
    BY <1>1, <1>2, <1>4, <1>5, <1>6, ContentsSeq, ContentsSeqNext
<1>8. Contents' = Tail(Contents)
    <2>1. /\ Tail(Contents) \in Seq(Chars) /\ Len(Tail(Contents)) = Waiting - 1
          /\ \A i \in 1..Waiting - 1 : Tail(Contents)[i] = Contents[i + 1]
        BY <1>6, HeadTailProperties
    <2>2. Contents' \in Seq(Chars) /\ Len(Contents') = Waiting - 1
        BY <1>1, <1>4, ContentsSeq, ContentsSeqNext
    <2>3. \A i \in 1..Waiting - 1 : Contents'[i] = Contents[i + 1]
        <3> TAKE i \in 1..Waiting - 1
        <3>1. i \in 1..Waiting' /\ i + 1 \in 1..Waiting /\ i \in 1..RX_BUFF_SIZE
            BY <1>1, <1>4, ContentsSeq, ContentsSeqNext
        <3>2. Contents'[i] = buff[Place(i + 1)]
            BY <1>1, <1>3, <3>1, ContentsSeq, ContentsSeqNext, PlaceAhead
        <3> QED
            BY <1>1, <3>1, <3>2, ContentsSeq, ContentsSeqNext
    <2> QED
        BY <2>1, <2>2, <2>3, SeqEqual
<1> QED
    BY <1>3, <1>6, <1>7, <1>8 DEF Queue!Get

(* Ring, interrupt handler and uart_getc behave as a queue that loses its  *)
(* oldest character when it is full, and in no other way.                  *)
THEOREM RingIsQueue == Spec => IsLossyQueue
<1>1. Init => Queue!Init
    <2> SUFFICES ASSUME Init PROVE Queue!Init
        OBVIOUS
    <2>1. Waiting = 0
        BY DEF Init, Waiting
    <2>2. Contents = <<>>
        BY <2>1 DEF Contents
    <2> QED
        BY <2>2 DEF Init, Queue!Init
<1>2. Inv /\ Inv' /\ [Next]_vars => [Queue!Next]_<<Contents, got>>
    <2> SUFFICES ASSUME Inv, Inv', [Next]_vars PROVE [Queue!Next]_<<Contents, got>>
        OBVIOUS
    <2>1. ASSUME UNCHANGED ring PROVE UNCHANGED Contents
        BY <2>1 DEF ring, Contents, Waiting, Place
    <2>2. ASSUME NEW c \in Chars, LineChar(c) PROVE UNCHANGED <<Contents, got>>
        BY <2>1, <2>2 DEF LineChar, getc
    <2>3. CASE UartSetup
        BY <2>1, <2>3 DEF UartSetup, getc
    <2>4. CASE IntrEnter
        BY <2>1, <2>4 DEF IntrEnter, getc
    <2>5. CASE IntrStore
        BY <2>5, StoreIsPut DEF Queue!Next
    <2>6. CASE IntrReturn
        BY <2>1, <2>6 DEF IntrReturn, getc
    <2>7. CASE GetcCall
        BY <2>1, <2>7 DEF GetcCall
    <2>8. CASE GetcLoad
        BY <2>1, <2>8 DEF GetcLoad
    <2>9. CASE GetcTest
        BY <2>1, <2>9 DEF GetcTest, Queue!Next, Queue!Miss
    <2>10. CASE GetcRead
        BY <2>1, <2>10 DEF GetcRead
    <2>11. CASE GetcAdvance
        BY <2>11, AdvanceIsGet DEF Queue!Next
    <2>12. CASE UNCHANGED vars
        BY <2>1, <2>12 DEF vars, getc
    <2> QED
        BY <2>2, <2>3, <2>4, <2>5, <2>6, <2>7, <2>8, <2>9, <2>10, <2>11, <2>12 DEF Next
<1> QED
    BY InitInv, NextInv, <1>1, <1>2, PTL DEF Spec, IsLossyQueue, Queue!Spec
=============================================================================
