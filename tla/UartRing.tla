----------------------------- MODULE UartRing -----------------------------
(***************************************************************************)
(* The receive path of UART 0: the interrupt handler of driver/uart.c      *)
(* moves characters from the hardware FIFO to a ring, uart_getc of         *)
(* driver/readline.c takes them out for the console.                       *)
(*                                                                         *)
(* This is the one place in the firmware with real preemption.  uart_getc  *)
(* tests for an empty ring before it locks out the interrupt, and the test *)
(* is two loads that the compiler may order either way; the handler, which *)
(* moves both positions when the ring is full, may run between any two of  *)
(* those steps.  BuffState is written and never read, and left out.        *)
(*                                                                         *)
(* Positions are offsets from pRcvMsgBuff.  They wrap after offset         *)
(* RX_BUFF_SIZE = 0x100, so handler and uart_getc use RX_BUFF_SIZE + 1     *)
(* places, while the comments on uart_config give the buffer, which the    *)
(* boot ROM allocates, 0x100 bytes: each time round the handler stores one *)
(* character in the byte behind it.  Nothing in the repository says whose  *)
(* byte that is.  The model keeps it with the ring and lets nobody else    *)
(* write it; what the handler's character does to its owner is left out.   *)
(***************************************************************************)
EXTENDS Integers, Sequences

CONSTANTS
    Chars,        \* the characters on the line
    RX_BUFF_SIZE, \* bytes of pRcvMsgBuff, and the last offset in use
    FifoSize,     \* places of the hardware FIFO
    TrigLvl       \* the interrupt is raised when the FIFO holds so many

ASSUME RingAssumption ==
    /\ RX_BUFF_SIZE \in Nat \ {0}
    /\ FifoSize \in Nat /\ TrigLvl \in 1..FifoSize

VARIABLES
    fifo,      \* the characters in the hardware FIFO
    intr,      \* uart0_rx_intr_handler is running
    buff,      \* the bytes of pRcvMsgBuff and the one behind them
    pWritePos,
    pReadPos,
    pc,        \* uart_getc: "idle", "load", "test", "tested" or "locked"
    loaded,    \* the position loaded first, and which one it was
    ch,        \* *c, the character uart_getc read
    got        \* what the last uart_getc returned: <<c>>, or <<>> for false

ring == <<buff, pWritePos, pReadPos>>
getc == <<pc, loaded, ch, got>>
vars == <<fifo, intr, ring, getc>>

(* The places the code uses, RX_BUFF_SIZE + 1 of them. *)
Offsets == 0..RX_BUFF_SIZE

(* One place ahead, as both the handler and uart_getc compute it. *)
Ahead(pos) == IF pos = RX_BUFF_SIZE THEN 0 ELSE pos + 1

Init ==
    /\ fifo = <<>> /\ intr = FALSE
    /\ buff \in [Offsets -> Chars]
    /\ pWritePos = 0 /\ pReadPos = 0
    /\ pc = "idle" /\ loaded = <<"w", 0>>
    /\ ch \in Chars /\ got = <<>>

(* A character comes in from the line; a full FIFO loses it. *)
LineChar(c) ==
    /\ Len(fifo) < FifoSize
    /\ fifo' = Append(fifo, c)
    /\ UNCHANGED <<intr, ring, getc>>

(* uart_setup: the handler is off while uart_config resets the FIFO. *)
UartSetup ==
    /\ ~intr /\ pc = "idle"
    /\ fifo' = <<>>
    /\ UNCHANGED <<intr, ring, getc>>

----------------------------------------------------------------------------
IntrWhileLocked ==
    /\ ~intr /\ Len(fifo) >= TrigLvl
    /\ intr' = TRUE
    /\ UNCHANGED <<fifo, ring, getc>>

(* The interrupt is taken anywhere but between ETS_INTR_LOCK and UNLOCK. *)
IntrEnter ==
    /\ ~intr /\ pc # "locked" /\ Len(fifo) >= TrigLvl
    /\ intr' = TRUE
    /\ UNCHANGED <<fifo, ring, getc>>

StoreWithoutPush ==
    /\ intr /\ fifo # <<>>
    /\ fifo' = Tail(fifo)
    /\ buff' = [buff EXCEPT ![pWritePos] = Head(fifo)]
    /\ pWritePos' = Ahead(pWritePos)
    /\ UNCHANGED <<intr, pReadPos, getc>>

(* One round of the handler's loop: store, advance, and when the ring is   *)
(* full push the reader one place ahead.                                   *)
IntrStore ==
    /\ intr /\ fifo # <<>>
    /\ fifo' = Tail(fifo)
    /\ buff' = [buff EXCEPT ![pWritePos] = Head(fifo)]
    /\ pWritePos' = Ahead(pWritePos)
    /\ pReadPos' = IF pWritePos' = pReadPos THEN Ahead(pReadPos) ELSE pReadPos
    /\ UNCHANGED <<intr, getc>>

IntrReturn ==
    /\ intr /\ fifo = <<>>
    /\ intr' = FALSE
    /\ UNCHANGED <<fifo, ring, getc>>

----------------------------------------------------------------------------
GetcCall ==
    /\ ~intr /\ pc = "idle"
    /\ pc' = "load"
    /\ UNCHANGED <<fifo, intr, ring, loaded, ch, got>>

GetcLoad ==
    /\ ~intr /\ pc = "load"
    /\ loaded' \in {<<"w", pWritePos>>, <<"r", pReadPos>>}
    /\ pc' = "test"
    /\ UNCHANGED <<fifo, intr, ring, ch, got>>

(* `pWritePos == pReadPos': the other position is loaded only now. *)
LooksEmpty == loaded[2] = (IF loaded[1] = "w" THEN pReadPos ELSE pWritePos)

GetcTest ==
    /\ ~intr /\ pc = "test"
    /\ IF LooksEmpty
       THEN pc' = "idle" /\ got' = <<>>
       ELSE pc' = "tested" /\ UNCHANGED got
    /\ UNCHANGED <<fifo, intr, ring, loaded, ch>>

(* ETS_INTR_LOCK and the read. *)
GetcRead ==
    /\ ~intr /\ pc = "tested"
    /\ ch' = buff[pReadPos]
    /\ pc' = "locked"
    /\ UNCHANGED <<fifo, intr, ring, loaded, got>>

(* The advance and ETS_INTR_UNLOCK. *)
GetcAdvance ==
    /\ ~intr /\ pc = "locked"
    /\ pReadPos' = Ahead(pReadPos)
    /\ got' = <<ch>>
    /\ pc' = "idle"
    /\ UNCHANGED <<fifo, intr, buff, pWritePos, loaded, ch>>

Next ==
    \/ \E c \in Chars : LineChar(c)
    \/ UartSetup
    \/ IntrEnter
    \/ IntrStore
    \/ IntrReturn
    \/ GetcCall
    \/ GetcLoad
    \/ GetcTest
    \/ GetcRead
    \/ GetcAdvance

Spec == Init /\ [][Next]_vars

----------------------------------------------------------------------------
(* The types of the state, with positions up to one past the buffer. *)
TypeOK ==
    /\ fifo \in Seq(Chars) /\ intr \in BOOLEAN
    /\ buff \in [Offsets -> Chars]
    /\ pWritePos \in Offsets /\ pReadPos \in Offsets
    /\ pc \in {"idle", "load", "test", "tested", "locked"}
    /\ loaded \in {"w", "r"} \X Offsets
    /\ ch \in Chars /\ got \in {<<>>} \union {<<c>> : c \in Chars}

(* A ring that was found not empty, before the interrupt is locked out, is *)
(* still not empty when uart_getc reads from it, however many characters   *)
(* the handler put in and pushed out in between.                           *)
NonEmptyStays == pc \in {"tested", "locked"} => pWritePos # pReadPos

(* The characters in the ring, from the reader's place to the writer's. *)
Waiting ==
    IF pReadPos <= pWritePos THEN pWritePos - pReadPos
    ELSE pWritePos + RX_BUFF_SIZE + 1 - pReadPos

Place(i) ==
    IF pReadPos + i - 1 <= RX_BUFF_SIZE THEN pReadPos + i - 1
    ELSE pReadPos + i - 1 - (RX_BUFF_SIZE + 1)

Contents == [i \in 1..Waiting |-> buff[Place(i)]]

(* Ring, handler and uart_getc together are a queue that loses its oldest  *)
(* character when RX_BUFF_SIZE of them wait, as long as the byte behind    *)
(* pRcvMsgBuff, which holds one of them, keeps what the handler wrote.     *)
Queue == INSTANCE LossyQueue WITH queue <- Contents, Capacity <- RX_BUFF_SIZE

IsLossyQueue == Queue!Spec
=============================================================================
