----------------------------- MODULE LpdTicker -----------------------------
(***************************************************************************)
(* The scrolling text ticker of app/modules/lpd_ticker.c on top of one     *)
(* LPD8806 strip (app/modules/lpd8806.c).                                  *)
(*                                                                         *)
(* m_Used and m_Length keep the unit of the source: bytes of one row,      *)
(* three per column.  The six rows of m_OutputBuffer share their columns,  *)
(* so `buffer' holds one cell per column of a row: Blank, or which column  *)
(* of which glyph mask is drawn there.  The firmware runs one handler at a *)
(* time; the only place where two handlers overlap is the Lua callback     *)
(* that ticker_scroll_cb calls in the middle of its own run, and there     *)
(* the handler is split in two actions (ScrollFinish and ScrollEnd).       *)
(***************************************************************************)
EXTENDS Integers, Sequences, FiniteSets

CONSTANTS
    Lengths,     \* the length arguments (in letters) given to ticker.setup
    Texts,       \* the strings given to set_text and add_text: sequences of codes
    LetterArgs,  \* arguments of add_letter and set_char_mask: <<"str"|"num", code>>
    Codes,       \* the bytes in use
    Masks,       \* glyph masks an entry of ascii_table may hold
    Font,        \* the masks compiled into ascii_table
    Levels,      \* brightness levels given to set_brightness
    FullLevel,   \* the level that stands for 1.0
    UIntSpan     \* number of values of `unsigned' (2^32 on the target)

(* The bytes ascii_table has an entry for, and the ones behind its end. *)
TableCodes == Codes \cap (0..126)
Beyond == Codes \ (0..126)

(* An element or argument that luaL_checkinteger refuses. *)
NotANumber == -1

ASSUME ConstantsAssumption ==
    /\ Lengths \subseteq Nat
    /\ Texts \subseteq Seq(Codes \union {NotANumber})
    /\ LetterArgs \subseteq {"str", "num"} \X Codes
    /\ Codes \subseteq 0..255
    /\ Masks \subseteq Nat /\ Font \in [TableCodes -> Masks]
    /\ Levels \subseteq Nat /\ FullLevel \in Levels

\* The product length * 12 does not wrap for the lengths in use (rows so long
\* do not fit the heap).  Rows shorter than the blank start are in use.
ASSUME UIntAssumption ==
    /\ UIntSpan \in Nat
    /\ \A n \in Lengths : 12 * n + 30 < UIntSpan - 12

VARIABLES
    ticker,      \* the ticker_t userdata: "none", "live" or "freed"
    held,        \* the application still holds a Lua reference to it
    strip,       \* the lpd_userdata: "none", "live" or "freed"
    stripHeld,   \* the application still holds a Lua reference to the strip
    stripRef,    \* m_StripRef is a registry reference
    callback,    \* m_ScrollCallback # LUA_NOREF
    armed,       \* m_ScrollTimer is armed
    length,      \* m_Length
    used,        \* m_Used
    position,    \* m_Position
    buffer,      \* m_OutputBuffer, one cell per column
    ascii_table, \* glyph mask of each code
    brightness,  \* m_Brightness
    phase,       \* "idle", or "finish" while ticker_scroll_cb is inside lua_call,
                 \* or why the firmware's own state is no longer defined
    frame,       \* what update() last pushed to the strip: cells and level
    seen,        \* history: columns of the text shown since the last finish or clear
    steady       \* history: the text did not change since the last frame

strips == <<strip, stripHeld, stripRef>>
object == <<ticker, held, callback, length>>
text   == <<used, position, buffer>>
looks  == <<ascii_table, brightness>>
ghosts == <<seen, steady>>
vars   == <<strips, object, armed, text, looks, phase, frame, ghosts>>

NUM_COLS == 10
LetterBytes == 12
BlankBytes == 3 * NUM_COLS
NoMask == 0
Blank == <<NoMask, 0>>
Cells == {Blank} \union (Masks \X (0..3))
Dark == [c \in 0..NUM_COLS-1 |-> Blank]

----------------------------------------------------------------------------
(* Unsigned room left in a row, as `m_Length - m_Used' computes it. *)
RoomLeft(u) == (length - u) % UIntSpan

FullOnlyAtZero(u) == RoomLeft(u) = 0

Full(u) == RoomLeft(u) < LetterBytes

(* Columns of the current text and the ones the window at `position' shows. *)
Columns == 0..(used \div 3) - 1

ShownColumn(c) == (((position + c) * 3) % used) \div 3

(* Writing the four columns of a glyph at byte offset u of each row. *)
DrawLetter(buf, u, mask) ==
    [i \in DOMAIN buf |->
        IF i \in (u \div 3)..(u \div 3) + 3 THEN <<mask, i - (u \div 3)>> ELSE buf[i]]

(* The words behind ascii_table at the time of a call, and what the        *)
(* unchecked ascii_table[byte] of a string reads.                          *)
Memory == [Beyond -> Masks]

Glyph(memory, c) == IF c \in TableCodes THEN ascii_table[c] ELSE memory[c]

FiveColumnLetters(buf, u, s, k, memory) ==
    [i \in DOMAIN buf |->
        IF i \in (u \div 3)..(u \div 3) + 4 * k
        THEN <<Glyph(memory, s[((i - (u \div 3)) \div 5) + 1]), (i - (u \div 3)) % 5>>
        ELSE buf[i]]

(* Writing k letters of s one after the other from offset u on. *)
DrawLetters(buf, u, s, k, memory) ==
    [i \in DOMAIN buf |->
        IF i \in (u \div 3)..(u \div 3) + 4 * k - 1
        THEN <<Glyph(memory, s[((i - (u \div 3)) \div 4) + 1]), (i - (u \div 3)) % 4>>
        ELSE buf[i]]

BlankStart(buf) == [i \in DOMAIN buf |-> IF i < NUM_COLS THEN Blank ELSE buf[i]]

(* lua_isstring accepts numbers, so a numeric code reaches                 *)
(* lua_tostring(L, 2)[0]: the first digit of its decimal form.             *)
LeadingDigit(n) ==
    48 + (IF n >= 100 THEN n \div 100 ELSE IF n >= 10 THEN n \div 10 ELSE n)

TableIndex(arg) == IF arg[1] = "num" THEN LeadingDigit(arg[2]) ELSE arg[2]

\* The first digit of a numeric argument is a code of the instance as well.
ASSUME LetterArgsAssumption == \A arg \in LetterArgs : TableIndex(arg) \in Codes

----------------------------------------------------------------------------
Init ==
    /\ ticker = "none" /\ held = FALSE
    /\ strip = "none" /\ stripHeld = FALSE /\ stripRef = FALSE
    /\ callback = FALSE
    /\ armed = FALSE
    /\ length = 0 /\ used = 0 /\ position = 0
    /\ buffer = [i \in {} |-> Blank]
    /\ ascii_table = Font
    /\ brightness = FullLevel
    /\ phase = "idle"
    /\ frame = [cells |-> Dark, level |-> FullLevel]
    /\ seen = {}
    /\ steady = FALSE

(* Lua code runs between two handlers, or as the callback of the scroll    *)
(* handler; it reaches the ticker through a reference it holds.            *)
LuaRuns == phase = "idle" \/ (phase = "finish" /\ callback)

CanCall == LuaRuns /\ ticker = "live" /\ held

(* lpd8806.setup: a cleared strip. *)
LpdSetup ==
    /\ LuaRuns /\ strip # "live"
    /\ strip' = "live" /\ stripHeld' = TRUE
    /\ frame' = [frame EXCEPT !.cells = Dark]
    /\ UNCHANGED <<stripRef, object, armed, text, looks, phase, ghosts>>

(* ticker.setup(lpd, speed, length, callback).  When either allocation     *)
(* fails the call raises an error and leaves nothing behind.               *)
TickerSetup(n, cb) ==
    /\ phase = "idle" /\ ticker # "live"
    /\ strip = "live" /\ stripHeld
    /\ ticker' = "live" /\ held' = TRUE
    /\ length' = 12 * n
    /\ used' = 0 /\ position' = 0
    /\ buffer' = [i \in 0..4 * n - 1 |-> Blank]
    /\ brightness' = FullLevel
    /\ stripRef' = TRUE
    /\ callback' = cb
    /\ armed' = TRUE
    /\ seen' = {} /\ steady' = FALSE
    /\ UNCHANGED <<strip, stripHeld, ascii_table, phase, frame>>

----------------------------------------------------------------------------
(* An error raised under the console's pcall ends the line.  Raised by a   *)
(* callback it meets no pcall: luaD_throw resets the Lua stack, panic()    *)
(* prints and returns, the exit is commented out, and the call goes on     *)
(* with L->ci below its array.  What the node does from there on no source *)
(* line decides: "panic" is where the model ends.                          *)
Raised == IF phase = "finish" THEN {"panic"} ELSE {phase, "panic"}

(* How a call ends that wrote each row up to byte u: behind the last row   *)
(* lies the heap's next block.                                             *)
Ends(u, failed) ==
    phase' \in IF u > length THEN {"overrun"} ELSE IF failed THEN Raised ELSE {phase}

(* An argument check that fails, or add_letter's full buffer: an error     *)
(* before the call changes anything.                                       *)
TickerArgError ==
    /\ CanCall
    /\ phase' \in Raised
    /\ UNCHANGED <<strips, object, armed, text, looks, frame, ghosts>>

ClearKeepsPosition ==
    /\ frame' = [frame EXCEPT !.cells = Dark]
    /\ armed' = TRUE
    /\ seen' = {}
    /\ steady' = FALSE
    /\ UNCHANGED position

(* What ticker_clear does but for the blank start. *)
ClearText ==
    /\ position' = 0
    /\ frame' = [frame EXCEPT !.cells = Dark]
    /\ armed' = TRUE
    /\ seen' = {}
    /\ steady' = FALSE

TickerClear ==
    /\ CanCall
    /\ ClearText
    /\ used' = BlankBytes
    /\ buffer' = BlankStart(buffer)
    /\ Ends(BlankBytes, FALSE)
    /\ UNCHANGED <<strips, object, looks>>

(* The loop of ticker_add_text wrote k letters of s from offset u on: all  *)
(* of them, or as many as there was room for, or the ones before an        *)
(* element that is not a number.                                           *)
LettersFit(u, s, k) ==
    /\ \A j \in 0..k - 1 : ~Full(u + LetterBytes * j) /\ s[j + 1] # NotANumber
    /\ k < Len(s) => Full(u + LetterBytes * k) \/ s[k + 1] = NotANumber

(* A string's bytes are used as they are, a table's elements modulo the    *)
(* size of ascii_table.                                                    *)
TickerAddText(s, k, memory) ==
    /\ CanCall
    /\ LettersFit(used, s, k)
    /\ used' = used + LetterBytes * k
    /\ buffer' = DrawLetters(buffer, used, s, k, memory)
    /\ steady' = (steady /\ k = 0)
    /\ Ends(used + LetterBytes * k, k < Len(s))
    /\ UNCHANGED <<strips, object, armed, position, looks, frame, seen>>

(* ticker_set_text: ticker_clear, then ticker_add_text. *)
TickerSetText(s, k, memory) ==
    /\ CanCall
    /\ ClearText
    /\ LettersFit(BlankBytes, s, k)
    /\ used' = BlankBytes + LetterBytes * k
    /\ buffer' = DrawLetters(BlankStart(buffer), BlankBytes, s, k, memory)
    /\ Ends(BlankBytes + LetterBytes * k, k < Len(s))
    /\ UNCHANGED <<strips, object, looks>>

TickerAddLetter(arg, memory) ==
    /\ CanCall /\ ~Full(used)
    /\ used' = used + LetterBytes
    /\ buffer' = DrawLetter(buffer, used, Glyph(memory, TableIndex(arg)))
    /\ steady' = FALSE
    /\ Ends(used + LetterBytes, FALSE)
    /\ UNCHANGED <<strips, object, armed, position, looks, frame, seen>>

(* ticker_set_char_mask changes the font, not the text in the buffer; a    *)
(* byte that has no entry makes it write behind ascii_table.               *)
TickerSetCharMask(arg, mask) ==
    /\ CanCall
    /\ IF TableIndex(arg) \in TableCodes
       THEN /\ ascii_table' = [ascii_table EXCEPT ![TableIndex(arg)] = mask]
            /\ UNCHANGED phase
       ELSE /\ phase' = "wildwrite"
            /\ UNCHANGED ascii_table
    /\ UNCHANGED <<strips, object, armed, text, brightness, frame, ghosts>>

TickerSetBrightness(level) ==
    /\ CanCall
    /\ brightness' = level
    /\ UNCHANGED <<strips, object, armed, text, ascii_table, phase, frame, ghosts>>

(* ticker_start and ticker_set_speed both leave the timer armed. *)
TickerStart ==
    /\ CanCall
    /\ armed' = TRUE
    /\ UNCHANGED <<strips, object, text, looks, phase, frame, ghosts>>

TickerStop ==
    /\ CanCall
    /\ armed' = FALSE
    /\ UNCHANGED <<strips, object, text, looks, phase, frame, ghosts>>

----------------------------------------------------------------------------
(* One frame: ten columns of the text from m_Position on, wrapping round.  *)
ShowFrame ==
    /\ frame' = [cells |-> [c \in 0..NUM_COLS-1 |-> buffer[ShownColumn(c)]],
                 level |-> brightness]
    /\ steady' = TRUE

Showing == {ShownColumn(c) : c \in 0..NUM_COLS-1}

(* The timer fires ticker_scroll_cb; nothing happens while m_Used = 0. *)
TimerFires == phase = "idle" /\ armed /\ used # 0

AtEndOneWindowEarly == (position + NUM_COLS) * 3 >= used

AtEnd == position * 3 = used

ScrollTick ==
    /\ TimerFires /\ ~AtEnd
    /\ ShowFrame
    /\ position' = position + 1
    /\ seen' = seen \union Showing
    /\ UNCHANGED <<strips, object, armed, used, buffer, looks, phase>>

(* The last frame: m_Position is reset and the Lua callback starts. *)
ScrollFinish ==
    /\ TimerFires /\ AtEnd
    /\ ShowFrame
    /\ position' = 0
    /\ phase' = "finish"
    /\ seen' = seen \union Showing
    /\ UNCHANGED <<strips, object, armed, used, buffer, looks>>

ScrollEndNoStep ==
    /\ phase = "finish"
    /\ phase' = "idle"
    /\ seen' = {}
    /\ UNCHANGED <<strips, object, armed, text, looks, frame, steady>>

(* The callback has returned: ++m_Position.  If the collector destroyed    *)
(* the ticker during the callback the increment hits freed memory, which   *)
(* no variable here stands for.                                            *)
ScrollEnd ==
    /\ phase = "finish"
    /\ phase' = "idle"
    /\ position' = IF ticker = "live" THEN position + 1 ELSE position
    /\ seen' = {}
    /\ UNCHANGED <<strips, object, armed, used, buffer, looks, frame, steady>>

----------------------------------------------------------------------------
(* The application drops its references; the collector runs later, at any  *)
(* allocation Lua makes, also one made by the callback.                    *)
DropTicker ==
    /\ CanCall
    /\ held' = FALSE
    /\ UNCHANGED <<strips, ticker, callback, length, armed, text, looks, phase, frame, ghosts>>

DropStrip ==
    /\ LuaRuns /\ strip = "live" /\ stripHeld
    /\ stripHeld' = FALSE
    /\ UNCHANGED <<strip, stripRef, object, armed, text, looks, phase, frame, ghosts>>

DestroyLeavesTimer ==
    /\ LuaRuns /\ ticker = "live" /\ ~held
    /\ ticker' = "freed"
    /\ buffer' = [i \in {} |-> Blank]
    /\ stripRef' = FALSE /\ callback' = FALSE
    /\ UNCHANGED <<strip, stripHeld, held, length, armed, used, position, looks, phase, frame, ghosts>>

(* __gc of the ticker: ticker_destroy. *)
TickerDestroy ==
    /\ LuaRuns /\ ticker = "live" /\ ~held
    /\ ticker' = "freed"
    /\ armed' = FALSE
    /\ buffer' = [i \in {} |-> Blank]
    /\ stripRef' = FALSE
    /\ callback' = FALSE
    /\ UNCHANGED <<strip, stripHeld, held, length, used, position, looks, phase, frame, ghosts>>

(* __gc of the strip: nothing refers to it any more. *)
LpdDestroy ==
    /\ LuaRuns /\ strip = "live" /\ ~stripHeld /\ ~stripRef
    /\ strip' = "freed"
    /\ UNCHANGED <<stripHeld, stripRef, object, armed, text, looks, phase, frame, ghosts>>

Lost == phase \in {"panic", "overrun", "wildwrite"}

(* A lost node may be reset, by a watchdog or by hand; nothing says that   *)
(* it ever is.                                                             *)
Reboot ==
    /\ Lost
    /\ phase' = "idle"
    /\ ticker' = "none" /\ held' = FALSE
    /\ strip' = "none" /\ stripHeld' = FALSE /\ stripRef' = FALSE
    /\ callback' = FALSE /\ armed' = FALSE
    /\ length' = 0 /\ used' = 0 /\ position' = 0
    /\ buffer' = [i \in {} |-> Blank]
    /\ ascii_table' = Font
    /\ brightness' = FullLevel
    /\ seen' = {} /\ steady' = FALSE
    /\ UNCHANGED <<frame>>
----------------------------------------------------------------------------
AddText == \E s \in Texts, m \in Memory : \E k \in 0..Len(s) : TickerAddText(s, k, m)

SetText == \E s \in Texts, m \in Memory : \E k \in 0..Len(s) : TickerSetText(s, k, m)

Next ==
    \/ LpdSetup
    \/ \E n \in Lengths, cb \in BOOLEAN : TickerSetup(n, cb)
    \/ TickerClear
    \/ AddText
    \/ SetText
    \/ \E arg \in LetterArgs, m \in Memory : TickerAddLetter(arg, m)
    \/ TickerArgError
    \/ \E arg \in LetterArgs, m \in Masks : TickerSetCharMask(arg, m)
    \/ \E level \in Levels : TickerSetBrightness(level)
    \/ TickerStart
    \/ TickerStop
    \/ ScrollTick
    \/ ScrollFinish
    \/ ScrollEnd
    \/ DropTicker
    \/ DropStrip
    \/ TickerDestroy
    \/ LpdDestroy
    \/ Reboot

Spec == Init /\ [][Next]_vars

----------------------------------------------------------------------------
TypeOK ==
    /\ ticker \in {"none", "live", "freed"} /\ held \in BOOLEAN
    /\ strip \in {"none", "live", "freed"}
    /\ stripHeld \in BOOLEAN /\ stripRef \in BOOLEAN
    /\ callback \in BOOLEAN /\ armed \in BOOLEAN
    /\ length \in Nat /\ used \in Nat /\ position \in Nat
    /\ ascii_table \in [TableCodes -> Masks]
    /\ brightness \in Levels
    /\ phase \in {"idle", "finish", "panic", "overrun", "wildwrite"}
    /\ ticker = "live" => buffer \in [0..(length \div 3) - 1 -> Cells]
    /\ frame \in [cells : [0..NUM_COLS-1 -> Cells], level : Levels]
    /\ steady \in BOOLEAN
    /\ seen \subseteq Nat

(* Rows are written past their end only in a ticker of fewer than three    *)
(* letters, by the blank start that ticker_clear and set_text write        *)
(* without a check.  ticker_setup accepts such a length; at every other    *)
(* length no sequence of calls overruns the heap block: m_Used stays       *)
(* within m_Length and the unsigned `m_Length - m_Used' does not wrap.     *)
BufferBound ==
    IF phase = "overrun" THEN length < BlankBytes
    ELSE ticker = "live" => used <= length

(* ticker_scroll_cb recognises the end of the text only when m_Position    *)
(* equals it: whatever clear, set_text or add_text do between two ticks or *)
(* inside the callback, m_Position never gets past it.                     *)
FinishNotSkipped == ticker = "live" /\ used # 0 => position * 3 <= used

(* A timer that may still fire has its ticker and its strip.  The strip    *)
(* outlives the application's own reference through m_StripRef.            *)
ArmedHasObjects == armed => ticker = "live" /\ stripRef /\ strip = "live"

(* When the scroll callback is called every column of the text has been on *)
(* the strip since the text was set or since the previous call, also when  *)
(* text was appended half way.                                             *)
AllShownAtFinish ==
    [][phase = "idle" /\ phase' = "finish" => Columns \subseteq seen']_vars

(* As long as the text does not change, each frame is the previous one     *)
(* moved by exactly one column, also across the wrap-around where          *)
(* ticker_scroll_cb resets m_Position and increments it in the same run.   *)
SmoothScroll ==
    [][(ScrollTick \/ ScrollFinish) /\ steady =>
          \A c \in 0..NUM_COLS-2 : frame'.cells[c] = frame.cells[c + 1]]_vars
=============================================================================
