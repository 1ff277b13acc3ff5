-------------------------- MODULE LpdTickerProofs --------------------------
(***************************************************************************)
(* Proofs about the ticker, for every font, every text and every number of *)
(* letters that ticker.setup is given, rows too short for the blank start  *)
(* of ticker_clear included; and about the clock application that drives   *)
(* the ticker from its callback, for every address and sensor value whose  *)
(* text fits into the row.                                                 *)
(***************************************************************************)
EXTENDS ClockDisplay, TLAPS

(***************************************************************************)
(* The inductive invariant.                                                *)
(***************************************************************************)

\* Rows and texts are whole numbers of columns; texts end within the row
\* unless a blank start was written into a row that is too short for it.
Layout ==
    /\ ticker = "live" =>
        /\ \E n \in Lengths : length = 12 * n
        /\ \E m \in Nat : used = 3 * m
        /\ phase # "overrun" => used <= length
    /\ phase = "overrun" => length < BlankBytes

\* m_Position is within the text; the callback runs at the start of a text
\* that is not empty.
Progress ==
    ticker = "live" =>
        /\ position * 3 <= used
        /\ phase = "finish" => position = 0 /\ used >= 3

\* Who refers to whom.
Ownership ==
    /\ armed => ticker = "live"
    /\ ticker = "live" => stripRef
    /\ stripRef => strip = "live"

\* The columns passed since the last finish have been on the strip.
SeenSoFar == ticker = "live" => \A i \in 1..position - 1 : i \in seen

Inv == TypeOK /\ Layout /\ Progress /\ Ownership /\ SeenSoFar

(***************************************************************************)
(* Facts about numbers.                                                    *)
(***************************************************************************)

\* A remainder of what is smaller than the divisor.
LEMMA ModSmall == ASSUME NEW a \in Nat, NEW n \in Nat, a < n PROVE a % n = a
  OBVIOUS

\* What division by the sizes of the ticker means.
LEMMA DivFacts ==
  ASSUME NEW a \in Nat
  PROVE  /\ a \div 12 \in Nat /\ 12 * (a \div 12) <= a /\ a < 12 * (a \div 12) + 12
         /\ a \div 4 \in Nat /\ 4 * (a \div 4) <= a /\ a < 4 * (a \div 4) + 4
         /\ a \div 3 \in Nat /\ 3 * (a \div 3) <= a /\ a < 3 * (a \div 3) + 3
         /\ a % 4 \in 0..3
  OBVIOUS

\* Quotient and remainder.
LEMMA DivMod ==
  ASSUME NEW a \in Nat, NEW n \in Nat, n > 0
  PROVE  a = n * (a \div n) + (a % n) /\ a \div n \in Nat /\ a % n \in 0..n-1
  OBVIOUS

\* Multiples of n are n apart.
LEMMA MultiplesApart ==
  ASSUME NEW n \in Nat, n > 0, NEW x \in Int, NEW y \in Int, x > y
  PROVE  n * x >= n * y + n
<1>1. n * x = n * y + n * (x - y)
  OBVIOUS
<1>2. n * (x - y) >= n
  OBVIOUS
<1>3. QED
  BY <1>1, <1>2

\* There is only one remainder.
LEMMA RemainderUnique ==
  ASSUME NEW n \in Nat, n > 0, NEW x \in Int, NEW y \in Int,
         NEW r \in 0..n-1, NEW q \in 0..n-1, n * x + r = n * y + q
  PROVE  r = q
<1>1. CASE x = y
  BY <1>1
<1>2. CASE x > y
  BY <1>2, MultiplesApart
<1>3. CASE y > x
  BY <1>3, MultiplesApart
<1>4. QED
  BY <1>1, <1>2, <1>3

\* Going round once does not change the remainder.
LEMMA ModAround ==
  ASSUME NEW a \in Nat, NEW n \in Nat, n > 0
  PROVE  (a + n) % n = a % n
<1> DEFINE x == (a + n) \div n
           y == a \div n
<1>1. a + n = n * x + ((a + n) % n) /\ x \in Nat /\ (a + n) % n \in 0..n-1
  BY DivMod
<1>2. a = n * y + (a % n) /\ y \in Nat /\ a % n \in 0..n-1
  BY DivMod
<1>3. n * (y + 1) = n * y + n
  BY <1>2
<1>4. n * x + ((a + n) % n) = n * (y + 1) + (a % n)
  BY <1>1, <1>2, <1>3
<1>5. x \in Int /\ y + 1 \in Int
  BY <1>1, <1>2
<1> HIDE DEF x, y
<1>6. QED
  BY <1>1, <1>2, <1>4, <1>5, RemainderUnique

(***************************************************************************)
(* Facts about the operators of the model.                                 *)
(***************************************************************************)

\* The bound check of ticker_add_text, unsigned arithmetic included, keeps
\* the letters it lets through within the row.
LEMMA LettersFitBound ==
  ASSUME length \in Nat, \E n \in Lengths : length = 12 * n,
         NEW u \in Nat, u <= length, NEW s, NEW k \in Nat, LettersFit(u, s, k)
  PROVE  u + LetterBytes * k <= length
<1> DEFINE j == (length - u) \div 12
<1>1. /\ j \in Nat
      /\ 12 * j <= length - u
      /\ length - u < 12 * j + 12
  BY DivFacts
<1>2. CASE k <= j
  BY <1>1, <1>2 DEF LetterBytes
<1>3. CASE k > j
  <2>1. ~Full(u + LetterBytes * j)
    BY <1>1, <1>3 DEF LettersFit
  <2>2. length - (u + LetterBytes * j) \in 0..11
    BY <1>1 DEF LetterBytes
  <2>3. length - (u + LetterBytes * j) < UIntSpan /\ UIntSpan \in Nat
    BY <2>2, UIntAssumption, ConstantsAssumption
  <2>4. RoomLeft(u + LetterBytes * j) = length - (u + LetterBytes * j)
    BY <2>2, <2>3, ModSmall DEF RoomLeft
  <2>5. QED
    BY <2>1, <2>2, <2>4 DEF Full, LetterBytes
<1>4. QED
  BY <1>1, <1>2, <1>3

\* What stands behind ascii_table is a mask, too, if a wrong one.
LEMMA GlyphType ==
  ASSUME ascii_table \in [TableCodes -> Masks], NEW memory \in Memory, NEW c \in Codes
  PROVE  Glyph(memory, c) \in Masks
  BY DEF Glyph, Memory, Beyond, TableCodes

\* The letters that add_text draws have a code.
LEMMA DrawnAreCodes ==
  ASSUME NEW s \in Seq(Codes \union {NotANumber}), NEW k \in 0..Len(s), NEW u, LettersFit(u, s, k)
  PROVE  k \in Nat /\ \A j \in 1..k : s[j] \in Codes
<1>1. k \in Nat
  OBVIOUS
<1>2. ASSUME NEW j \in 1..k PROVE s[j] \in Codes
  <2>1. j \in 1..Len(s) /\ j - 1 \in 0..k - 1 /\ (j - 1) + 1 = j
    BY <1>2
  <2>2. s[j] # NotANumber
    BY <2>1 DEF LettersFit
  <2> QED BY <2>1, <2>2
<1> QED BY <1>1, <1>2

\* A call that writes within the rows ends where it began, or in a panic.
LEMMA EndsWithin ==
  ASSUME NEW u \in Nat, length \in Nat, NEW f, Ends(u, f)
  PROVE  \/ u <= length /\ phase' \in {phase, "panic"}
         \/ u > length /\ phase' = "overrun"
<1>1. CASE u > length
  BY <1>1 DEF Ends
<1>2. CASE ~(u > length)
  BY <1>2 DEF Ends, Raised
<1> QED BY <1>1, <1>2

\* Letters, like single glyphs and the blank start, only change cells.
LEMMA DrawLettersType ==
  ASSUME ascii_table \in [TableCodes -> Masks], NEW memory \in Memory,
         NEW D \in SUBSET Nat, NEW buf \in [D -> Cells],
         NEW u \in Nat, NEW s, NEW k \in Nat, \A j \in 1..k : s[j] \in Codes
  PROVE  DrawLetters(buf, u, s, k, memory) \in [D -> Cells]
<1> DEFINE a == u \div 3
<1>1. a \in Nat
  BY DivFacts
<1>2. ASSUME NEW i \in D, i \in a..a + 4 * k - 1
      PROVE  <<Glyph(memory, s[((i - a) \div 4) + 1]), (i - a) % 4>> \in Cells
  <2>1. i - a \in Nat /\ i - a < 4 * k
    BY <1>1, <1>2
  <2>2. (i - a) \div 4 \in 0..k - 1 /\ (i - a) % 4 \in 0..3
    BY <2>1, DivFacts
  <2>3. ((i - a) \div 4) + 1 \in 1..k
    BY <2>2
  <2>4. Glyph(memory, s[((i - a) \div 4) + 1]) \in Masks
    BY <2>3, GlyphType
  <2>5. QED
    BY <2>2, <2>4 DEF Cells
<1>3. QED
  BY <1>2 DEF DrawLetters

\* Drawing one glyph leaves a row of cells.
LEMMA DrawLetterType ==
  ASSUME NEW mask \in Masks, NEW D \in SUBSET Nat, NEW buf \in [D -> Cells], NEW u \in Nat
  PROVE  DrawLetter(buf, u, mask) \in [D -> Cells]
<1>1. u \div 3 \in Nat
  BY DivFacts
<1>2. QED
  BY <1>1 DEF DrawLetter, Cells

\* So does the blank start of ticker_clear.
LEMMA BlankStartType ==
  ASSUME NEW D, NEW buf \in [D -> Cells]
  PROVE  BlankStart(buf) \in [D -> Cells]
  BY DEF BlankStart, Cells, Blank, NoMask

\* A cleared strip is a frame of cells.
LEMMA DarkType == Dark \in [0..NUM_COLS-1 -> Cells]
  BY DEF Dark, Cells

\* The columns of a frame are columns of the text.
LEMMA ShownColumnRange ==
  ASSUME position \in Nat, NEW m \in Nat, used = 3 * m, m > 0, NEW c \in Nat
  PROVE  ShownColumn(c) \in 0..m - 1
<1>1. ((position + c) * 3) % used \in 0..used - 1
  OBVIOUS
<1>2. QED
  BY <1>1, DivFacts DEF ShownColumn

\* The leftmost column of a frame is the one at m_Position, and at the end
\* of the text the first one.
LEMMA ShownColumnFirst ==
  ASSUME position \in Nat, used \in Nat
  PROVE  /\ position * 3 < used => ShownColumn(0) = position
         /\ position * 3 = used /\ used > 0 => ShownColumn(0) = 0
<1>1. ASSUME position * 3 < used PROVE ShownColumn(0) = position
  <2>1. (position * 3) % used = position * 3
    BY <1>1, ModSmall
  <2>2. (position * 3) \div 3 = position
    OBVIOUS
  <2>3. position + 0 = position
    OBVIOUS
  <2>4. QED
    BY <2>1, <2>2, <2>3, Zenon DEF ShownColumn
<1>2. ASSUME position * 3 = used, used > 0 PROVE ShownColumn(0) = 0
  <2>1. (position * 3) % used = 0
    BY <1>2
  <2>2. 0 \div 3 = 0
    OBVIOUS
  <2>3. position + 0 = position
    OBVIOUS
  <2>4. QED
    BY <2>1, <2>2, <2>3, Zenon DEF ShownColumn
<1>3. QED
  BY <1>1, <1>2

\* Clearing the strip leaves a frame.
LEMMA ClearedFrameType ==
  ASSUME NEW f \in [cells : [0..NUM_COLS-1 -> Cells], level : Levels]
  PROVE  [f EXCEPT !.cells = Dark] \in [cells : [0..NUM_COLS-1 -> Cells], level : Levels]
  BY DarkType

\* A row of a ticker of n letters.
LEMMA RowColumns ==
  ASSUME NEW n \in Nat
  PROVE  12 * n \in Nat /\ (12 * n) \div 3 = 4 * n
  OBVIOUS

(***************************************************************************)
(* Init and the steps.                                                     *)
(***************************************************************************)
\* The invariant holds before the first ticker.setup.
LEMMA InitInv == Init => Inv
<1> SUFFICES ASSUME Init PROVE Inv
  OBVIOUS
<1>1. frame \in [cells : [0..NUM_COLS-1 -> Cells], level : Levels]
  BY DarkType, ConstantsAssumption DEF Init
<1>2. TypeOK
  BY <1>1, ConstantsAssumption DEF Init, TypeOK
<1>3. QED
  BY <1>2 DEF Init, Inv, Layout, Progress, Ownership, SeenSoFar

\* ticker_setup's empty buffer of n letters.
LEMMA SetupInv ==
  ASSUME Inv, NEW n \in Lengths, NEW cb \in BOOLEAN, TickerSetup(n, cb)
  PROVE  Inv'
<1>1. n \in Nat /\ 12 * n \in Nat /\ (12 * n) \div 3 = 4 * n
  BY ConstantsAssumption, RowColumns
<1>2. buffer' \in [0..(length' \div 3) - 1 -> Cells]
  BY <1>1 DEF TickerSetup, Cells
<1>3. TypeOK'
  BY <1>1, <1>2, ConstantsAssumption DEF Inv, TypeOK, TickerSetup
<1>4. Layout'
  BY <1>1 DEF TickerSetup, Layout
<1>5. Progress' /\ Ownership' /\ SeenSoFar'
  BY DEF Inv, TickerSetup, Progress, Ownership, SeenSoFar
<1>6. QED
  BY <1>3, <1>4, <1>5 DEF Inv

\* What ticker_clear, add_text, set_text and add_letter have in common: they
\* keep the row, draw cells, end within the row and do not move ahead.
LEMMA TextChangeInv ==
  ASSUME Inv, CanCall,
         UNCHANGED <<strips, object>>,
         ascii_table' \in [TableCodes -> Masks], brightness' \in Levels,
         armed' \in BOOLEAN, steady' \in BOOLEAN,
         frame' \in [cells : [0..NUM_COLS-1 -> Cells], level : Levels],
         buffer' \in [0..(length \div 3) - 1 -> Cells],
         used' \in Nat, \E m \in Nat : used' = 3 * m,
         \/ position' = 0 /\ used' >= 3 /\ seen' = {}
         \/ position' = position /\ used' >= used /\ seen' = seen,
         \/ used' <= length /\ phase' \in {phase, "panic"}
         \/ length < BlankBytes /\ phase' = "overrun"
  PROVE  Inv'
<1>1. ticker = "live" /\ ticker' = "live" /\ length' = length /\ phase # "overrun"
  BY DEF CanCall, LuaRuns, object
<1>2. TypeOK'
  <2>1. seen' \subseteq Nat /\ position' \in Nat
    <3>1. seen \subseteq Nat /\ position \in Nat
      BY DEF Inv, TypeOK
    <3>2. CASE position' = 0 /\ seen' = {}
      BY <3>2
    <3>3. CASE position' = position /\ seen' = seen
      BY <3>1, <3>3
    <3>4. QED
      BY <3>2, <3>3
  <2>2. phase' \in {"idle", "finish", "panic", "overrun", "wildwrite"}
    BY DEF Inv, TypeOK
  <2>3. /\ ticker' = ticker /\ held' = held /\ callback' = callback /\ length' = length
        /\ strip' = strip /\ stripHeld' = stripHeld /\ stripRef' = stripRef
    BY DEF strips, object
  <2>4. QED
    BY <2>1, <2>2, <2>3 DEF Inv, TypeOK
<1>3. Layout'
  BY <1>1 DEF Inv, Layout
<1>4. Progress'
  BY <1>1 DEF Inv, TypeOK, Progress
<1>5. Ownership'
  BY <1>1 DEF Inv, Ownership, strips, object
<1>6. SeenSoFar'
  BY <1>1 DEF Inv, SeenSoFar
<1>7. QED
  BY <1>2, <1>3, <1>4, <1>5, <1>6 DEF Inv

\* ticker_clear's unchecked 30 bytes.
LEMMA ClearInv ==
  ASSUME Inv, TickerClear
  PROVE  Inv'
<1>1. CanCall /\ ticker = "live" /\ TypeOK
  BY DEF TickerClear, CanCall, Inv
<1>2. used' = 30 /\ BlankBytes = 30 /\ used' \in Nat /\ used' >= 3 /\ used' = 3 * 10
  BY DEF TickerClear, BlankBytes, NUM_COLS
<1>3. \E m \in Nat : used' = 3 * m
  BY <1>2
<1>4. buffer' \in [0..(length \div 3) - 1 -> Cells]
  BY <1>1, BlankStartType DEF TickerClear, TypeOK
<1>5. frame' \in [cells : [0..NUM_COLS-1 -> Cells], level : Levels]
  BY <1>1, ClearedFrameType DEF TickerClear, ClearText, TypeOK
<1>6. /\ UNCHANGED <<strips, object>>
      /\ ascii_table' \in [TableCodes -> Masks] /\ brightness' \in Levels
      /\ armed' \in BOOLEAN /\ steady' \in BOOLEAN
      /\ position' = 0 /\ seen' = {}
  BY <1>1 DEF TickerClear, ClearText, TypeOK, looks
<1>7. \/ used' <= length /\ phase' \in {phase, "panic"}
      \/ length < BlankBytes /\ phase' = "overrun"
  BY <1>1, <1>2, EndsWithin DEF TickerClear, TypeOK
<1> QED
  BY <1>1, <1>2, <1>3, <1>4, <1>5, <1>6, <1>7, TextChangeInv

\* ticker_add_text, complete or stopped by a full buffer.
LEMMA AddTextInv ==
  ASSUME Inv, NEW s \in Texts, NEW k \in 0..Len(s), NEW memory \in Memory,
         TickerAddText(s, k, memory)
  PROVE  Inv'
<1>1. CanCall /\ ticker = "live" /\ TypeOK /\ phase # "overrun"
  BY DEF TickerAddText, CanCall, LuaRuns, Inv
<1>2. k \in Nat /\ \A j \in 1..k : s[j] \in Codes
  <2>1. s \in Seq(Codes \union {NotANumber}) /\ LettersFit(used, s, k)
    BY ConstantsAssumption DEF TickerAddText
  <2> QED BY <2>1, DrawnAreCodes
<1>3. used \in Nat /\ length \in Nat /\ used' = used + LetterBytes * k
  BY <1>1 DEF TickerAddText, TypeOK
<1>4. used' <= length
  <2>1. used <= length /\ \E n \in Lengths : length = 12 * n
    BY <1>1 DEF Inv, Layout
  <2>2. LettersFit(used, s, k)
    BY DEF TickerAddText
  <2>3. QED
    BY <1>2, <1>3, <2>1, <2>2, LettersFitBound
<1>5. used' \in Nat /\ used' >= used /\ \E m \in Nat : used' = 3 * m
  <2>1. PICK m \in Nat : used = 3 * m
    BY <1>1 DEF Inv, Layout
  <2>2. used' = 3 * (m + 4 * k) /\ m + 4 * k \in Nat
    BY <1>2, <1>3, <2>1 DEF LetterBytes
  <2>3. used' \in Nat /\ used' >= used
    BY <1>2, <1>3 DEF LetterBytes
  <2>4. QED
    BY <2>2, <2>3, Zenon
<1>6. buffer' \in [0..(length \div 3) - 1 -> Cells]
  <2>1. 0..(length \div 3) - 1 \in SUBSET Nat
    BY <1>3, DivFacts
  <2>2. buffer' = DrawLetters(buffer, used, s, k, memory)
    BY DEF TickerAddText
  <2>3. QED
    BY <1>1, <1>2, <1>3, <2>1, <2>2, DrawLettersType DEF TypeOK
<1>7. /\ UNCHANGED <<strips, object>>
      /\ ascii_table' \in [TableCodes -> Masks] /\ brightness' \in Levels
      /\ armed' \in BOOLEAN /\ steady' \in BOOLEAN
      /\ position' = position /\ seen' = seen
      /\ frame' \in [cells : [0..NUM_COLS-1 -> Cells], level : Levels]
  BY <1>1 DEF TickerAddText, TypeOK, looks
<1>8. phase' \in {phase, "panic"}
  <2>1. Ends(used + LetterBytes * k, k < Len(s))
    BY DEF TickerAddText
  <2>2. used + LetterBytes * k \in Nat /\ used + LetterBytes * k <= length
    BY <1>3, <1>4, <1>5
  <2> QED BY <1>3, <2>1, <2>2, EndsWithin
<1>9. QED
  BY <1>1, <1>4, <1>5, <1>6, <1>7, <1>8, TextChangeInv

\* ticker_set_text: the blank start and the letters behind it.
LEMMA SetTextInv ==
  ASSUME Inv, NEW s \in Seq(Codes \union {NotANumber}), NEW k \in 0..Len(s),
         NEW memory \in Memory, TickerSetText(s, k, memory)
  PROVE  Inv'
<1>1. CanCall /\ ticker = "live" /\ TypeOK
  BY DEF TickerSetText, CanCall, Inv
<1>2. k \in Nat /\ \A j \in 1..k : s[j] \in Codes
  BY DrawnAreCodes DEF TickerSetText
<1>3. length \in Nat /\ BlankBytes = 30 /\ used' = 30 + LetterBytes * k
  BY <1>1 DEF TickerSetText, TypeOK, BlankBytes, NUM_COLS
<1>4. length < BlankBytes \/ used' <= length
  <2>1. SUFFICES ASSUME BlankBytes <= length PROVE used' <= length
    BY <1>3
  <2>2. PICK n \in Lengths : length = 12 * n
    BY <1>1 DEF Inv, Layout
  <2>3. BlankBytes \in Nat /\ LettersFit(BlankBytes, s, k)
    BY <1>3 DEF TickerSetText
  <2>4. QED
    BY <1>2, <1>3, <2>1, <2>2, <2>3, LettersFitBound
<1>5. used' \in Nat /\ used' >= 3 /\ \E m \in Nat : used' = 3 * m
  <2>1. used' = 3 * (10 + 4 * k) /\ 10 + 4 * k \in Nat
    BY <1>2, <1>3 DEF LetterBytes
  <2>2. QED
    BY <1>2, <2>1
<1>6. buffer' \in [0..(length \div 3) - 1 -> Cells]
  <2>1. 0..(length \div 3) - 1 \in SUBSET Nat
    BY <1>3, DivFacts
  <2>2. BlankStart(buffer) \in [0..(length \div 3) - 1 -> Cells]
    BY <1>1, BlankStartType DEF TypeOK
  <2>3. buffer' = DrawLetters(BlankStart(buffer), BlankBytes, s, k, memory)
    BY DEF TickerSetText
  <2>4. QED
    BY <1>1, <1>2, <1>3, <2>1, <2>2, <2>3, DrawLettersType DEF TypeOK
<1>7. /\ UNCHANGED <<strips, object>>
      /\ ascii_table' \in [TableCodes -> Masks] /\ brightness' \in Levels
      /\ armed' \in BOOLEAN /\ steady' \in BOOLEAN
      /\ position' = 0 /\ seen' = {}
  BY <1>1 DEF TickerSetText, ClearText, TypeOK, looks
<1>8. frame' \in [cells : [0..NUM_COLS-1 -> Cells], level : Levels]
  BY <1>1, ClearedFrameType DEF TickerSetText, ClearText, TypeOK
<1>9. \/ used' <= length /\ phase' \in {phase, "panic"}
      \/ length < BlankBytes /\ phase' = "overrun"
  <2>1. Ends(used', k < Len(s))
    BY DEF TickerSetText
  <2> QED BY <1>3, <1>4, <1>5, <2>1, EndsWithin
<1>10. QED
  BY <1>1, <1>4, <1>5, <1>6, <1>7, <1>8, <1>9, TextChangeInv

\* ticker_add_letter.
LEMMA AddLetterInv ==
  ASSUME Inv, NEW arg \in LetterArgs, NEW memory \in Memory, TickerAddLetter(arg, memory)
  PROVE  Inv'
<1>1. CanCall /\ ticker = "live" /\ TypeOK /\ phase # "overrun" /\ ~Full(used)
  BY DEF TickerAddLetter, CanCall, LuaRuns, Inv
<1>2. used \in Nat /\ length \in Nat /\ used <= length
  BY <1>1 DEF Inv, Layout, TypeOK
<1>3. PICK m \in Nat : used = 3 * m
  BY <1>1 DEF Inv, Layout
<1>4. PICK n \in Lengths : length = 12 * n
  BY <1>1 DEF Inv, Layout
<1>5. /\ UNCHANGED <<strips, object>>
      /\ ascii_table' \in [TableCodes -> Masks] /\ brightness' \in Levels
      /\ armed' \in BOOLEAN /\ seen' = seen /\ position' = position /\ steady' \in BOOLEAN
      /\ frame' \in [cells : [0..NUM_COLS-1 -> Cells], level : Levels]
  BY <1>1 DEF TickerAddLetter, TypeOK, looks
<1>6. used' = used + 12 /\ used' = used + LetterBytes
  BY DEF TickerAddLetter, LetterBytes
<1>7. RoomLeft(used) = length - used
  <2>1. n \in Nat /\ 12 * n + 30 < UIntSpan - 12 /\ UIntSpan \in Nat
    BY UIntAssumption, ConstantsAssumption
  <2>2. length - used \in Nat /\ length - used < UIntSpan
    BY <1>2, <1>4, <2>1
  <2>3. QED
    BY <2>1, <2>2, ModSmall DEF RoomLeft
<1>8. used' <= length
  BY <1>1, <1>2, <1>6, <1>7 DEF Full, LetterBytes
<1>9. used' = 3 * (m + 4) /\ m + 4 \in Nat
  BY <1>3, <1>6
<1>10. used' \in Nat /\ used' >= used /\ \E i \in Nat : used' = 3 * i
  <2>1. used' \in Nat /\ used' >= used
    BY <1>2, <1>6
  <2>2. QED
    BY <1>9, <2>1, Zenon
<1>11. buffer' \in [0..(length \div 3) - 1 -> Cells]
  <2>1. Glyph(memory, TableIndex(arg)) \in Masks
    BY <1>1, LetterArgsAssumption, GlyphType DEF TypeOK
  <2>2. 0..(length \div 3) - 1 \in SUBSET Nat
    BY <1>2, DivFacts
  <2>3. buffer' = DrawLetter(buffer, used, Glyph(memory, TableIndex(arg)))
    BY DEF TickerAddLetter
  <2>4. QED
    BY <1>1, <1>2, <2>1, <2>2, <2>3, DrawLetterType DEF TypeOK
<1>12. phase' \in {phase, "panic"}
  <2>1. Ends(used + LetterBytes, FALSE)
    BY DEF TickerAddLetter
  <2>2. used + LetterBytes \in Nat /\ used + LetterBytes <= length
    BY <1>6, <1>8, <1>10
  <2>3. ~(used + LetterBytes > length)
    BY <1>2, <2>2
  <2> QED BY <2>1, <2>3 DEF Ends
<1>13. QED
  BY <1>1, <1>5, <1>8, <1>10, <1>11, <1>12, TextChangeInv

\* A call that fails before it changes anything.
LEMMA ArgErrorInv ==
  ASSUME Inv, TickerArgError
  PROVE  Inv'
<1>1. /\ UNCHANGED <<ticker, held, strip, stripHeld, stripRef, callback, armed, length, used,
                     position, buffer, ascii_table, brightness, frame, seen, steady>>
      /\ phase' \in {phase, "panic"} /\ phase \in {"idle", "finish"}
  BY DEF TickerArgError, CanCall, LuaRuns, Raised, strips, object, text, looks, ghosts
<1>2. TypeOK' /\ Layout'
  BY <1>1 DEF Inv, TypeOK, Layout
<1>3. Progress' /\ Ownership' /\ SeenSoFar'
  BY <1>1 DEF Inv, Progress, Ownership, SeenSoFar
<1> QED BY <1>2, <1>3 DEF Inv

\* A frame is made of cells of the buffer, and what it shows are columns.
LEMMA FrameShown ==
  ASSUME Inv, TimerFires, ShowFrame
  PROVE  /\ ticker = "live" /\ used > 0
         /\ frame' \in [cells : [0..NUM_COLS-1 -> Cells], level : Levels]
         /\ Showing \subseteq Nat
<1>1. ticker = "live" /\ TypeOK
  BY DEF Inv, Ownership, TimerFires
<1>2. PICK m \in Nat : used = 3 * m
  BY <1>1 DEF Inv, Layout
<1>3. PICK n \in Lengths : length = 12 * n
  BY <1>1 DEF Inv, Layout
<1>4. /\ used \in Nat /\ used > 0 /\ m > 0
      /\ length \in Nat /\ used <= length /\ position \in Nat /\ n \in Nat
  BY <1>1, <1>2, ConstantsAssumption DEF Inv, Layout, TypeOK, TimerFires
<1>5. ASSUME NEW c \in 0..NUM_COLS-1
      PROVE  ShownColumn(c) \in 0..(length \div 3) - 1
  <2>1. c \in Nat
    BY <1>5 DEF NUM_COLS
  <2>2. ShownColumn(c) \in 0..m - 1
    BY <1>2, <1>4, <2>1, ShownColumnRange
  <2>3. (length \div 3) = 4 * n
    BY <1>3, <1>4, RowColumns
  <2>4. QED
    BY <1>2, <1>3, <1>4, <2>2, <2>3
<1>6. \A c \in 0..NUM_COLS-1 : buffer[ShownColumn(c)] \in Cells
  BY <1>1, <1>5 DEF TypeOK
<1>7. brightness \in Levels
  BY <1>1 DEF TypeOK
<1>8. frame' \in [cells : [0..NUM_COLS-1 -> Cells], level : Levels]
  BY <1>6, <1>7 DEF ShowFrame
<1>9. Showing \subseteq Nat
  BY <1>4, <1>5, DivFacts DEF Showing
<1>10. QED
  BY <1>1, <1>4, <1>8, <1>9

\* One step of ticker_scroll_cb within the text.
LEMMA ScrollTickInv ==
  ASSUME Inv, ScrollTick
  PROVE  Inv'
<1>1. TimerFires /\ ShowFrame /\ ~AtEnd /\ TypeOK
  BY DEF ScrollTick, Inv
<1>2. /\ ticker = "live" /\ used > 0
      /\ frame' \in [cells : [0..NUM_COLS-1 -> Cells], level : Levels]
      /\ Showing \subseteq Nat
  BY <1>1, FrameShown
<1>3. /\ UNCHANGED <<ticker, held, strip, stripHeld, stripRef, callback, armed, length,
                     used, buffer, ascii_table, brightness, phase>>
      /\ position' = position + 1 /\ seen' = seen \union Showing /\ steady' = TRUE
  BY DEF ScrollTick, ShowFrame, strips, object, looks
<1>4. position \in Nat /\ used \in Nat /\ position * 3 < used
  BY <1>1, <1>2 DEF Inv, Progress, TypeOK, AtEnd
<1>5. TypeOK'
  <2>1. position' \in Nat /\ seen' \subseteq Nat
    BY <1>1, <1>2, <1>3, <1>4 DEF TypeOK
  <2>2. QED
    BY <1>1, <1>2, <1>3, <2>1 DEF TypeOK
<1>6. Layout'
  BY <1>1, <1>3 DEF Inv, Layout, TimerFires
<1>7. Progress'
  <2>1. PICK m \in Nat : used = 3 * m
    BY <1>2 DEF Inv, Layout
  <2>2. (position + 1) * 3 <= used
    BY <1>4, <2>1
  <2>3. phase' = "idle"
    BY <1>1, <1>3 DEF TimerFires
  <2>4. QED
    BY <1>3, <2>2, <2>3 DEF Progress
<1>8. Ownership'
  BY <1>3 DEF Inv, Ownership
<1>9. SeenSoFar'
  <2>1. position \in Showing
    <3>1. ShownColumn(0) = position /\ 0 \in 0..NUM_COLS-1
      BY <1>4, ShownColumnFirst DEF NUM_COLS
    <3>2. QED
      BY <3>1 DEF Showing
  <2>2. \A i \in 1..position - 1 : i \in seen
    BY <1>2 DEF Inv, SeenSoFar
  <2>3. ASSUME NEW i \in 1..position' - 1 PROVE i \in seen'
    <3>1. i = position \/ i \in 1..position - 1
      BY <1>3, <1>4
    <3>2. QED
      BY <1>3, <2>1, <2>2, <3>1
  <2>4. QED
    BY <2>3 DEF SeenSoFar
<1>10. QED
  BY <1>5, <1>6, <1>7, <1>8, <1>9 DEF Inv

\* ticker_scroll_cb at the end of the text, up to the callback.
LEMMA ScrollFinishInv ==
  ASSUME Inv, ScrollFinish
  PROVE  Inv'
<1>1. TimerFires /\ ShowFrame /\ TypeOK
  BY DEF ScrollFinish, Inv
<1>2. /\ ticker = "live" /\ used > 0
      /\ frame' \in [cells : [0..NUM_COLS-1 -> Cells], level : Levels]
      /\ Showing \subseteq Nat
  BY <1>1, FrameShown
<1>3. /\ UNCHANGED <<ticker, held, strip, stripHeld, stripRef, callback, armed, length,
                     used, buffer, ascii_table, brightness>>
      /\ position' = 0 /\ phase' = "finish"
      /\ seen' = seen \union Showing /\ steady' = TRUE
  BY DEF ScrollFinish, ShowFrame, strips, object, looks
<1>4. TypeOK'
  <2>1. seen' \subseteq Nat
    BY <1>1, <1>2, <1>3 DEF TypeOK
  <2>2. QED
    BY <1>1, <1>2, <1>3, <2>1 DEF TypeOK
<1>5. Layout'
  BY <1>1, <1>3 DEF Inv, Layout, TimerFires
<1>6. Progress'
  <2>1. PICK m \in Nat : used = 3 * m
    BY <1>2 DEF Inv, Layout
  <2>2. used >= 3
    BY <1>2, <2>1
  <2>3. QED
    BY <1>3, <2>1, <2>2 DEF Progress
<1>7. Ownership' /\ SeenSoFar'
  BY <1>3 DEF Inv, Ownership, SeenSoFar
<1>8. QED
  BY <1>4, <1>5, <1>6, <1>7 DEF Inv

\* The increment of m_Position after the callback.
LEMMA ScrollEndInv ==
  ASSUME Inv, ScrollEnd
  PROVE  Inv'
<1>1. /\ UNCHANGED <<ticker, held, strip, stripHeld, stripRef, callback, armed, length,
                     used, buffer, ascii_table, brightness, frame, steady>>
      /\ phase = "finish" /\ phase' = "idle" /\ seen' = {}
      /\ position' = IF ticker = "live" THEN position + 1 ELSE position
  BY DEF ScrollEnd, strips, object, looks
<1>2. TypeOK'
  <2>1. position' \in Nat
    BY <1>1 DEF Inv, TypeOK
  <2>2. QED
    BY <1>1, <2>1 DEF Inv, TypeOK
<1>3. Layout' /\ Ownership'
  BY <1>1 DEF Inv, Layout, Ownership
<1>4. ticker = "live" => position' = 1 /\ used >= 3
  BY <1>1 DEF Inv, Progress
<1>5. Progress' /\ SeenSoFar'
  <2>1. Progress'
    BY <1>1, <1>4 DEF Inv, TypeOK, Progress
  <2>2. SeenSoFar'
    BY <1>1, <1>4 DEF SeenSoFar
  <2>3. QED
    BY <2>1, <2>2
<1>6. QED
  BY <1>2, <1>3, <1>5 DEF Inv

\* Handlers that leave the text and its place alone.
LEMMA OtherInv ==
  ASSUME Inv, UNCHANGED <<text, phase, seen>>, ticker' = ticker, length' = length,
         \/ LpdSetup
         \/ \E level \in Levels : TickerSetBrightness(level)
         \/ TickerStart
         \/ TickerStop
         \/ DropTicker
         \/ DropStrip
         \/ LpdDestroy
         \/ UNCHANGED vars
  PROVE  Inv'
<1>1. used' = used /\ position' = position /\ buffer' = buffer
  BY DEF text
<1>2. Layout' /\ Progress' /\ SeenSoFar'
  <2>1. Layout'
    BY <1>1 DEF Inv, Layout
  <2>2. Progress'
    BY <1>1 DEF Inv, Progress
  <2>3. SeenSoFar'
    BY <1>1 DEF Inv, SeenSoFar
  <2>4. QED
    BY <2>1, <2>2, <2>3
<1>3. CASE LpdSetup
  <2>1. frame' \in [cells : [0..NUM_COLS-1 -> Cells], level : Levels]
    BY <1>3, ClearedFrameType DEF LpdSetup, Inv, TypeOK
  <2>2. TypeOK'
    BY <1>1, <1>3, <2>1 DEF LpdSetup, Inv, TypeOK, object, looks, ghosts
  <2>3. Ownership'
    BY <1>3 DEF LpdSetup, Inv, Ownership, object
  <2>4. QED
    BY <1>2, <2>2, <2>3 DEF Inv
<1>5. ASSUME NEW level \in Levels, TickerSetBrightness(level)
      PROVE  Inv'
  <2>1. TypeOK'
    BY <1>1, <1>5 DEF TickerSetBrightness, Inv, TypeOK, strips, object, ghosts
  <2>2. Ownership'
    BY <1>5 DEF TickerSetBrightness, Inv, Ownership, strips
  <2>3. QED
    BY <1>2, <2>1, <2>2 DEF Inv
<1>6. CASE TickerStart \/ TickerStop
  <2>1. TypeOK'
    <3>1. /\ UNCHANGED <<ticker, held, strip, stripHeld, stripRef, callback, length, used, position,
                         buffer, ascii_table, brightness, phase, frame, seen, steady>>
          /\ armed' \in BOOLEAN
      BY <1>1, <1>6 DEF TickerStart, TickerStop, strips, object, looks, ghosts
    <3> QED BY <3>1 DEF Inv, TypeOK
  <2>2. Ownership'
    BY <1>6 DEF TickerStart, TickerStop, CanCall, Inv, Ownership, strips
  <2>3. QED
    BY <1>2, <2>1, <2>2 DEF Inv
<1>7. CASE DropTicker \/ DropStrip \/ LpdDestroy
  <2>1. TypeOK'
    <3>1. /\ UNCHANGED <<ticker, stripRef, callback, length, armed, used, position,
                         buffer, ascii_table, brightness, phase, frame, seen, steady>>
          /\ held' \in {held, FALSE} /\ stripHeld' \in {stripHeld, FALSE}
          /\ strip' \in {strip, "freed"}
      BY <1>1, <1>7 DEF DropTicker, DropStrip, LpdDestroy, strips, object, looks, ghosts
    <3>2. held' \in BOOLEAN /\ stripHeld' \in BOOLEAN /\ strip' \in {"none", "live", "freed"}
      BY <3>1 DEF Inv, TypeOK
    <3> QED BY <3>1, <3>2 DEF Inv, TypeOK
  <2>2. Ownership'
    BY <1>7 DEF DropTicker, DropStrip, LpdDestroy, Inv, Ownership, strips
  <2>3. QED
    BY <1>2, <2>1, <2>2 DEF Inv
<1>8. CASE UNCHANGED vars
  <2>1. TypeOK'
    BY <1>1, <1>8 DEF vars, Inv, TypeOK, strips, object, looks, ghosts
  <2>2. Ownership'
    BY <1>8 DEF vars, Inv, Ownership, strips
  <2>3. QED
    BY <1>2, <2>1, <2>2 DEF Inv
<1>9. QED
  BY <1>3, <1>5, <1>6, <1>7, <1>8

\* ticker_set_char_mask, within the font or behind it.
LEMMA SetCharMaskInv ==
  ASSUME Inv, NEW arg \in LetterArgs, NEW m \in Masks, TickerSetCharMask(arg, m)
  PROVE  Inv'
<1>1. /\ UNCHANGED <<ticker, held, strip, stripHeld, stripRef, callback, armed, length, used,
                     position, buffer, brightness, frame, seen, steady>>
      /\ phase' \in {phase, "wildwrite"} /\ phase \in {"idle", "finish"}
  BY DEF TickerSetCharMask, CanCall, LuaRuns, strips, object, text, ghosts
<1>2. ascii_table' \in [TableCodes -> Masks]
  BY DEF TickerSetCharMask, Inv, TypeOK
<1>3. TypeOK'
  BY <1>1, <1>2 DEF Inv, TypeOK
<1>5. Layout'
  BY <1>1 DEF Inv, Layout
<1>4. Progress' /\ Ownership' /\ SeenSoFar'
  BY <1>1 DEF Inv, Progress, Ownership, SeenSoFar
<1> QED BY <1>3, <1>4, <1>5 DEF Inv

\* The collector frees the ticker, or the node starts again.
LEMMA GoneInv ==
  ASSUME Inv, TickerDestroy \/ Reboot
  PROVE  Inv'
<1>1. /\ ticker' \in {"none", "freed"} /\ armed' = FALSE /\ stripRef' = FALSE
      /\ phase' # "overrun"
  BY DEF TickerDestroy, LuaRuns, Reboot
<1>2. TypeOK'
  <2>1. CASE TickerDestroy
    BY <2>1 DEF TickerDestroy, Inv, TypeOK, looks, ghosts
  <2>2. CASE Reboot
    BY <2>2, ConstantsAssumption DEF Reboot, Inv, TypeOK
  <2>3. QED
    BY <2>1, <2>2
<1>3. QED
  BY <1>1, <1>2 DEF Inv, Layout, Progress, Ownership, SeenSoFar

\* Every step keeps the inductive invariant.
LEMMA StepInv ==
  ASSUME Inv, [Next]_vars
  PROVE  Inv'
<1>1. ASSUME NEW n \in Lengths, NEW cb \in BOOLEAN, TickerSetup(n, cb) PROVE Inv'
  BY <1>1, SetupInv
<1>2. CASE TickerClear
  BY <1>2, ClearInv
<1>3. CASE AddText
  BY <1>3, AddTextInv DEF AddText
<1>4. CASE SetText
  BY <1>4, SetTextInv, ConstantsAssumption DEF SetText
<1>5. ASSUME NEW arg \in LetterArgs, NEW memory \in Memory, TickerAddLetter(arg, memory)
      PROVE  Inv'
  BY <1>5, AddLetterInv
<1>6. CASE ScrollTick
  BY <1>6, ScrollTickInv
<1>7. CASE ScrollFinish
  BY <1>7, ScrollFinishInv
<1>8. CASE ScrollEnd
  BY <1>8, ScrollEndInv
<1>9. CASE TickerDestroy \/ Reboot
  BY <1>9, GoneInv
<1>10. CASE LpdSetup
  BY <1>10, OtherInv DEF LpdSetup, object, ghosts
<1>11. ASSUME NEW arg \in LetterArgs, NEW m \in Masks, TickerSetCharMask(arg, m) PROVE Inv'
  BY <1>11, SetCharMaskInv
<1>12. ASSUME NEW level \in Levels, TickerSetBrightness(level) PROVE Inv'
  BY <1>12, OtherInv DEF TickerSetBrightness, object, ghosts
<1>13. CASE TickerStart
  BY <1>13, OtherInv DEF TickerStart, object, ghosts
<1>14. CASE TickerStop
  BY <1>14, OtherInv DEF TickerStop, object, ghosts
<1>15. CASE DropTicker
  BY <1>15, OtherInv DEF DropTicker, ghosts
<1>16. CASE DropStrip
  BY <1>16, OtherInv DEF DropStrip, object, ghosts
<1>17. CASE LpdDestroy
  BY <1>17, OtherInv DEF LpdDestroy, object, ghosts
<1>18. CASE UNCHANGED vars
  BY <1>18, OtherInv DEF vars, object, ghosts
<1>20. CASE TickerArgError
  BY <1>20, ArgErrorInv
<1>19. QED
  BY <1>1, <1>2, <1>3, <1>4, <1>5, <1>6, <1>7, <1>8, <1>9, <1>10, <1>11, <1>12, <1>13,
     <1>14, <1>15, <1>16, <1>17, <1>18, <1>20 DEF Next

(***************************************************************************)
(* The safety theorems.                                                    *)
(***************************************************************************)
\* The inductive invariant holds in every behaviour.
LEMMA AlwaysInv == Spec => []Inv
<1>1. Init => Inv
  BY InitInv
<1>2. Inv /\ [Next]_vars => Inv'
  BY StepInv
<1>3. QED
  BY <1>1, <1>2, PTL DEF Spec

\* Every variable of lpd_ticker.c's ticker_t keeps its type; the buffer has
\* the columns ticker_setup allocated and every frame shows cells of it.
THEOREM TypeCorrect == Spec => []TypeOK
<1>1. Inv => TypeOK
  BY DEF Inv
<1>2. QED
  BY <1>1, AlwaysInv, PTL

\* For every length ticker_setup accepts: rows are written past their end in
\* tickers of fewer than three letters only, where the unchecked blank start
\* of ticker_clear does it; else m_Used never exceeds m_Length, unsigned
\* wrap-around included.
THEOREM BufferNeverOverrun == Spec => []BufferBound
<1>1. Inv => BufferBound
  BY DEF Inv, Layout, BufferBound
<1>2. QED
  BY <1>1, AlwaysInv, PTL

\* m_Position never passes the end of the text, which ticker_scroll_cb would
\* then miss.
THEOREM FinishIsReachable == Spec => []FinishNotSkipped
<1>1. Inv => FinishNotSkipped
  BY DEF Inv, Progress, FinishNotSkipped
<1>2. QED
  BY <1>1, AlwaysInv, PTL

\* An armed scroll timer always has its ticker and its strip, whatever the
\* garbage collector has taken.
THEOREM TimerHasObjects == Spec => []ArmedHasObjects
<1>1. Inv => ArmedHasObjects
  BY DEF Inv, Ownership, ArmedHasObjects
<1>2. QED
  BY <1>1, AlwaysInv, PTL

\* The scroll callback is only called once every column has been shown.
THEOREM TextFullyShown == Spec => AllShownAtFinish
<1>1. ASSUME Inv, [Next]_vars, phase = "idle", phase' = "finish"
      PROVE  Columns \subseteq seen'
  <2>1. ScrollFinish
    BY <1>1 DEF Next, vars, AddText, SetText, LpdSetup, TickerSetup, TickerClear,
                TickerAddText, TickerSetText, TickerAddLetter, TickerArgError, Ends, Raised,
                TickerSetCharMask,
                TickerSetBrightness, TickerStart, TickerStop, ScrollTick, ScrollEnd,
                DropTicker, DropStrip, TickerDestroy, LpdDestroy, Reboot
  <2>2. /\ ticker = "live" /\ position \in Nat /\ used \in Nat
        /\ position * 3 = used /\ used > 0 /\ seen' = seen \union Showing
    BY <1>1, <2>1 DEF Inv, TypeOK, Ownership, ScrollFinish, TimerFires, AtEnd
  <2>3. 0 \in Showing
    <3>1. ShownColumn(0) = 0 /\ 0 \in 0..NUM_COLS-1
      BY <2>2, ShownColumnFirst DEF NUM_COLS
    <3>2. QED
      BY <3>1 DEF Showing
  <2>4. \A i \in 1..position - 1 : i \in seen
    BY <1>1, <2>2 DEF Inv, SeenSoFar
  <2>5. Columns = 0..position - 1
    BY <2>2 DEF Columns
  <2>6. QED
    BY <2>2, <2>3, <2>4, <2>5
<1>2. Inv /\ [Next]_vars => [phase = "idle" /\ phase' = "finish" => Columns \subseteq seen']_vars
  BY <1>1
<1>3. QED
  BY <1>2, AlwaysInv, PTL DEF Spec, AllShownAtFinish

(***************************************************************************)
(* Smooth scrolling.  The second invariant says what is on the strip while *)
(* the text does not change: the window one column before m_Position, or,  *)
(* while the callback runs, the window at the start of the text.           *)
(***************************************************************************)
Window(u, p, c) == (((p + c) * 3) % u) \div 3

OnStrip(p) == \A c \in 0..NUM_COLS-1 : frame.cells[c] = buffer[Window(used, p, c)]

SteadyFrame ==
    ticker = "live" /\ steady =>
        /\ phase = "idle" => position >= 1 /\ OnStrip(position - 1)
        /\ phase = "finish" => OnStrip(0)

\* The window at the end of the text is the one at its start.
LEMMA WindowAround ==
  ASSUME NEW u \in Nat, u > 0, NEW p \in Nat, p * 3 = u, NEW c \in Nat
  PROVE  Window(u, p, c) = Window(u, 0, c)
<1>1. (p + c) * 3 = (c * 3) + u /\ (0 + c) * 3 = c * 3 /\ c * 3 \in Nat
  OBVIOUS
<1>2. ((c * 3) + u) % u = (c * 3) % u
  BY <1>1, ModAround
<1>3. QED
  BY <1>1, <1>2, Zenon DEF Window

\* Drawing no letter changes nothing.
LEMMA DrawNothing ==
  ASSUME NEW D, NEW buf \in [D -> Cells], D \subseteq Nat, NEW u \in Nat, NEW s, NEW memory
  PROVE  DrawLetters(buf, u, s, 0, memory) = buf
<1>1. u \div 3 \in Nat
  BY DivFacts
<1>2. \A i : i \notin (u \div 3)..(u \div 3) + 4 * 0 - 1
  BY <1>1
<1>3. QED
  BY <1>2 DEF DrawLetters

\* A step that leaves strip, text and phase alone, or after which the node is
\* lost.
LEMMA SteadySame ==
  ASSUME SteadyFrame, UNCHANGED <<ticker, used, position, buffer, frame, steady>>,
         phase' = phase \/ Lost'
  PROVE  SteadyFrame'
<1>1. OnStrip(0)' = OnStrip(0) /\ OnStrip(position - 1)' = OnStrip(position - 1)
  BY DEF OnStrip, Window
<1>2. QED
  BY <1>1 DEF SteadyFrame, Lost

\* The three parts of ticker_scroll_cb.
LEMMA SteadyScroll ==
  ASSUME Inv, SteadyFrame, ScrollTick \/ ScrollFinish \/ ScrollEnd
  PROVE  SteadyFrame'
<1>1. position \in Nat /\ used \in Nat
  BY DEF Inv, TypeOK
<1>2. CASE ScrollTick
  <2>1. /\ phase' = "idle" /\ position' = position + 1 /\ position' - 1 = position
        /\ used' = used /\ buffer' = buffer
        /\ \A c \in 0..NUM_COLS-1 : frame'.cells[c] = buffer[ShownColumn(c)]
    BY <1>1, <1>2 DEF ScrollTick, TimerFires, ShowFrame
  <2>2. OnStrip(position - 1)'
    BY <2>1 DEF OnStrip, Window, ShownColumn
  <2>3. QED
    BY <1>1, <2>1, <2>2 DEF SteadyFrame
<1>3. CASE ScrollFinish
  <2>1. /\ phase' = "finish" /\ used' = used /\ buffer' = buffer
        /\ position * 3 = used /\ used > 0
        /\ \A c \in 0..NUM_COLS-1 : frame'.cells[c] = buffer[ShownColumn(c)]
    BY <1>1, <1>3 DEF ScrollFinish, TimerFires, ShowFrame, AtEnd
  <2>2. \A c \in 0..NUM_COLS-1 : c \in Nat
    BY DEF NUM_COLS
  <2>3. \A c \in 0..NUM_COLS-1 : ShownColumn(c) = Window(used, 0, c)
    <3>1. \A c : ShownColumn(c) = Window(used, position, c)
      BY DEF ShownColumn, Window
    <3>2. QED
      BY <1>1, <2>1, <2>2, <3>1, WindowAround
  <2>4. OnStrip(0)'
    BY <2>1, <2>3, Zenon DEF OnStrip, Window
  <2>5. QED
    BY <2>1, <2>4 DEF SteadyFrame
<1>4. CASE ScrollEnd
  <2>1. /\ phase = "finish" /\ phase' = "idle"
        /\ UNCHANGED <<ticker, used, buffer, frame, steady>>
        /\ position' = IF ticker = "live" THEN position + 1 ELSE position
    BY <1>4 DEF ScrollEnd, object
  <2>2. ASSUME ticker = "live", steady PROVE position' >= 1 /\ OnStrip(position - 1)'
    <3>1. position = 0 /\ position' = 1 /\ position' - 1 = 0
      BY <2>1, <2>2 DEF Inv, Progress
    <3>2. OnStrip(0)
      BY <2>1, <2>2 DEF SteadyFrame
    <3>3. QED
      BY <2>1, <3>1, <3>2 DEF OnStrip
  <2>3. QED
    BY <2>1, <2>2 DEF SteadyFrame
<1>5. QED
  BY <1>2, <1>3, <1>4

\* Every step keeps the second invariant.
LEMMA SteadyStep ==
  ASSUME Inv, SteadyFrame, [Next]_vars
  PROVE  SteadyFrame'
<1>1. ASSUME NEW n \in Lengths, NEW cb \in BOOLEAN, TickerSetup(n, cb) PROVE SteadyFrame'
  BY <1>1 DEF TickerSetup, SteadyFrame
<1>2. CASE TickerClear
  BY <1>2 DEF TickerClear, ClearText, SteadyFrame
<1>3. ASSUME NEW s \in Texts, NEW memory \in Memory, NEW k \in 0..Len(s),
             TickerAddText(s, k, memory)
      PROVE  SteadyFrame'
  <2>1. CASE k # 0
    BY <1>3, <2>1 DEF TickerAddText, SteadyFrame
  <2>2. CASE k = 0
    <3>1. ticker = "live" /\ used \in Nat /\ length \in Nat /\ steady \in BOOLEAN
      BY <1>3 DEF TickerAddText, CanCall, Inv, TypeOK
    <3>2. 0..(length \div 3) - 1 \subseteq Nat
      BY <3>1, DivFacts
    <3>3. buffer \in [0..(length \div 3) - 1 -> Cells]
      BY <3>1 DEF Inv, TypeOK
    <3>4. buffer' = buffer
      BY <1>3, <2>2, <3>1, <3>2, <3>3, DrawNothing DEF TickerAddText
    <3>5. used' = used
      BY <1>3, <2>2, <3>1 DEF TickerAddText, LetterBytes
    <3>6. UNCHANGED <<ticker, position, frame, steady>>
      BY <1>3, <2>2, <3>1 DEF TickerAddText, object
    <3>7. phase' = phase \/ Lost'
      BY <1>3 DEF TickerAddText, Ends, Raised, Lost
    <3>8. QED
      BY <3>4, <3>5, <3>6, <3>7, SteadySame
  <2>3. QED
    BY <2>1, <2>2
<1>4. ASSUME NEW s \in Texts, NEW memory \in Memory, NEW k \in 0..Len(s),
             TickerSetText(s, k, memory)
      PROVE  SteadyFrame'
  BY <1>4 DEF TickerSetText, ClearText, SteadyFrame
<1>5. ASSUME NEW arg \in LetterArgs, NEW memory \in Memory, TickerAddLetter(arg, memory)
      PROVE  SteadyFrame'
  BY <1>5 DEF TickerAddLetter, SteadyFrame
<1>15. CASE TickerArgError
  BY <1>15, SteadySame DEF TickerArgError, Raised, Lost, object, text, ghosts
<1>6. CASE ScrollTick \/ ScrollFinish \/ ScrollEnd
  BY <1>6, SteadyScroll
<1>7. CASE TickerDestroy \/ Reboot
  BY <1>7 DEF TickerDestroy, Reboot, SteadyFrame
<1>8. CASE LpdSetup
  <2>1. ticker' # "live"
    BY <1>8 DEF LpdSetup, object, Inv, Ownership
  <2>2. QED
    BY <2>1 DEF SteadyFrame
<1>9. ASSUME NEW arg \in LetterArgs, NEW m \in Masks, TickerSetCharMask(arg, m)
      PROVE  SteadyFrame'
  BY <1>9, SteadySame DEF TickerSetCharMask, Lost, object, text, ghosts
<1>10. ASSUME NEW level \in Levels, TickerSetBrightness(level) PROVE SteadyFrame'
  BY <1>10, SteadySame DEF TickerSetBrightness, object, text, ghosts
<1>11. CASE TickerStart \/ TickerStop
  BY <1>11, SteadySame DEF TickerStart, TickerStop, object, text, ghosts
<1>12. CASE DropTicker \/ DropStrip \/ LpdDestroy
  BY <1>12, SteadySame DEF DropTicker, DropStrip, LpdDestroy, object, text, ghosts
<1>13. CASE UNCHANGED vars
  BY <1>13, SteadySame DEF vars, object, text, ghosts
<1>14. QED
  BY <1>1, <1>2, <1>3, <1>4, <1>5, <1>6, <1>7, <1>8, <1>9, <1>10, <1>11, <1>12, <1>13,
     <1>15 DEF Next, AddText, SetText

\* While the text does not change, consecutive frames differ by exactly one
\* column, across the wrap-around and the callback too.
THEOREM ScrollIsSmooth == Spec => SmoothScroll
<1>1. Init => SteadyFrame
  BY DEF Init, SteadyFrame
<1>2. Inv /\ SteadyFrame /\ [Next]_vars => SteadyFrame'
  BY SteadyStep
<1>3. ASSUME Inv, SteadyFrame, ScrollTick \/ ScrollFinish, steady, NEW c \in 0..NUM_COLS-2
      PROVE  frame'.cells[c] = frame.cells[c + 1]
  <2>1. ticker = "live" /\ phase = "idle" /\ position \in Nat
    BY <1>3 DEF Inv, TypeOK, Ownership, ScrollTick, ScrollFinish, TimerFires
  <2>2. c \in 0..NUM_COLS-1 /\ c + 1 \in 0..NUM_COLS-1
    BY DEF NUM_COLS
  <2>3. frame.cells[c + 1] = buffer[Window(used, position - 1, c + 1)]
    BY <1>3, <2>1, <2>2 DEF SteadyFrame, OnStrip
  <2>4. position - 1 + (c + 1) = position + c
    BY <2>1, <2>2 DEF NUM_COLS
  <2>5. Window(used, position - 1, c + 1) = ShownColumn(c)
    BY <2>4, Zenon DEF Window, ShownColumn
  <2>6. frame'.cells[c] = buffer[ShownColumn(c)]
    <3>1. ShowFrame
      BY <1>3 DEF ScrollTick, ScrollFinish
    <3>2. \A d \in 0..NUM_COLS-1 : frame'.cells[d] = buffer[ShownColumn(d)]
      BY <3>1 DEF ShowFrame
    <3>3. QED
      BY <2>2, <3>2
  <2>7. QED
    BY <2>3, <2>5, <2>6
<1>4. Inv /\ SteadyFrame =>
        [(ScrollTick \/ ScrollFinish) /\ steady =>
            \A c \in 0..NUM_COLS-2 : frame'.cells[c] = frame.cells[c + 1]]_vars
  BY <1>3
<1>5. QED
  BY <1>1, <1>2, <1>4, AlwaysInv, PTL DEF Spec, SmoothScroll

(***************************************************************************)
(* The clock application on its ticker.                                    *)
(***************************************************************************)

\* The 60 letters user_script.lua asks for hold the end of the address, and
\* ticker_clear's blank start with the longest message behind it.
TextsFit ==
    \A n \in Lengths : Len(IpText) <= n /\ BlankBytes + 4 * LetterBytes <= 12 * n

\* The parts of a text are told apart by what they look like on the strip.
ValueLooks == {Font[v] : v \in Co2Values}

PartsApart ==
    /\ NoMask \notin ValueLooks
    /\ \A d \in DhtValues \union {Label} : Font[d] \notin ValueLooks
    /\ \A i \in 1..Len(IpText) : Font[IpText[i]] \notin ValueLooks

\* What the application adds to the ticker's invariant.
ClockState ==
    /\ ascii_table = Font
    /\ co2 \in Co2Values \union {Nil}
    /\ TextNeverPanics

\* No two CO2 values on the strip, nor in the text it is taken from.
OneValueText ==
    \A i, j \in 0..(used \div 3) - 1 :
        buffer[i][1] \in ValueLooks /\ buffer[j][1] \in ValueLooks => buffer[i][1] = buffer[j][1]

OneValueFrame ==
    \A c, d \in 0..NUM_COLS-1 :
        frame.cells[c][1] \in ValueLooks /\ frame.cells[d][1] \in ValueLooks =>
            frame.cells[c][1] = frame.cells[d][1]

ClockInv == Inv /\ ClockState

\* Text that fits all the way is never refused: the unsigned room is exact.
LEMMA MessageFits ==
  ASSUME TextsFit, Inv, ticker = "live", NEW s \in Seq(TableCodes), NEW k \in 0..Len(s),
         Len(s) \in 0..4, LettersFit(BlankBytes, s, k)
  PROVE  k = Len(s)
<1> SUFFICES ASSUME k < Len(s) PROVE FALSE
  OBVIOUS
<1>1. PICK n \in Lengths : length = 12 * n
  BY DEF Inv, Layout
<1>2. n \in Nat /\ 78 <= 12 * n /\ 12 * n + 30 < UIntSpan - 12 /\ UIntSpan \in Nat /\ k \in 0..3
  <2>1. BlankBytes + 4 * LetterBytes = 78
    BY DEF BlankBytes, NUM_COLS, LetterBytes
  <2>2. n \in Nat /\ 78 <= 12 * n
    BY <2>1, ConstantsAssumption DEF TextsFit
  <2>3. k \in 0..3
    <3> DEFINE l == Len(s)
    <3>1. l \in 0..4 /\ k \in 0..l /\ k < l
      OBVIOUS
    <3> HIDE DEF l
    <3> QED BY <3>1
  <2> QED BY <2>2, <2>3, UIntAssumption
<1> DEFINE r == length - (30 + 12 * k)
<1>3. r \in Nat /\ r >= 12 /\ r < UIntSpan
  BY <1>1, <1>2
<1>4. r % UIntSpan = r
  BY <1>2, <1>3, ModSmall
<1>5. Full(30 + 12 * k)
  <2>1. k + 1 \in 1..Len(s)
    BY <1>2
  <2>2. s[k + 1] # NotANumber
    <3>1. s[k + 1] \in TableCodes
      BY <2>1
    <3>2. s[k + 1] \in 0..126
      BY <3>1 DEF TableCodes
    <3>3. NotANumber \notin 0..126
      BY DEF NotANumber
    <3> QED BY <3>2, <3>3
  <2> QED BY <2>2 DEF LettersFit, BlankBytes, NUM_COLS, LetterBytes
<1> QED
  BY <1>3, <1>4, <1>5 DEF Full, RoomLeft, LetterBytes

\* A text of codes is one that ticker_set_text may be given.
LEMMA ParsedText == ASSUME NEW s \in Seq(TableCodes) PROVE s \in Seq(Codes \union {NotANumber})
  BY DEF TableCodes

\* What M.run() of user_script.lua leaves is a ticker with its text.
LEMMA RunSetupInv ==
  ASSUME Inv, ascii_table = Font, NEW t \in Seq(TableCodes), \A n \in Lengths : Len(t) <= n,
         RunSetup(t), phase' \in {"idle", "panic"}
  PROVE  Inv' /\ frame'.cells = Dark
         /\ \A i \in 0..(used' \div 3) - 1 : \E j \in 1..Len(t) : buffer'[i][1] = Font[t[j]]
<1>1. PICK n \in Lengths, memory \in Memory :
           /\ length' = 12 * n /\ used' = LetterBytes * Len(t)
           /\ buffer' = DrawLetters([i \in 0..4 * n - 1 |-> Blank], 0, t, Len(t), memory)
  BY DEF RunSetup
<1> DEFINE l == Len(t)
<1>2. n \in Nat /\ 12 * n \in Nat /\ (12 * n) \div 3 = 4 * n /\ l \in Nat /\ l <= n
  BY ConstantsAssumption, RowColumns
<1>3. used' = 12 * l /\ used' \in Nat /\ used' <= length' /\ used' = 3 * (4 * l) /\ 4 * l \in Nat /\ used' \div 3 = 4 * l
  BY <1>1, <1>2 DEF LetterBytes
<1>4. buffer' \in [0..(length' \div 3) - 1 -> Cells]
  <2>1. [i \in 0..4 * n - 1 |-> Blank] \in [0..4 * n - 1 -> Cells] /\ 0..4 * n - 1 \in SUBSET Nat
    BY <1>2 DEF Cells
  <2>2. ascii_table \in [TableCodes -> Masks] /\ Len(t) \in Nat /\ 0 \in Nat
    BY <1>2 DEF Inv, TypeOK
  <2>3. \A j \in 1..Len(t) : t[j] \in Codes
    BY DEF TableCodes
  <2> QED
    BY <1>1, <1>2, <2>1, <2>2, <2>3, DrawLettersType
<1>5. frame \in [cells : [0..NUM_COLS-1 -> Cells], level : Levels]
  BY DEF Inv, TypeOK
<1>6. frame' \in [cells : [0..NUM_COLS-1 -> Cells], level : Levels] /\ frame'.cells = Dark
  BY <1>5, ClearedFrameType DEF RunSetup
<1>7. /\ strip' = "live" /\ stripHeld' = TRUE /\ stripRef' = TRUE /\ ticker' = "live" /\ held' = TRUE
      /\ callback' = TRUE /\ armed' = TRUE /\ position' = 0 /\ seen' = {} /\ steady' = FALSE
      /\ UNCHANGED <<ascii_table, brightness>>
  BY DEF RunSetup, looks
<1>8. TypeOK'
  BY <1>1, <1>2, <1>3, <1>4, <1>6, <1>7 DEF Inv, TypeOK
<1>9. Layout'
  BY <1>1, <1>3 DEF Layout
<1>10. Progress' /\ Ownership' /\ SeenSoFar'
  BY <1>3, <1>7 DEF Progress, Ownership, SeenSoFar
<1>11. ASSUME NEW i \in 0..(used' \div 3) - 1
       PROVE  \E j \in 1..Len(t) : buffer'[i][1] = Font[t[j]]
  <2>1. i \in 0..4 * l - 1 /\ i \in 0..4 * n - 1 /\ i \in Nat /\ 0 \div 3 = 0
    BY <1>2, <1>3
  <2>2. (i - 0) \div 4 \in 0..l - 1 /\ i - 0 = i
    BY <1>2, <2>1, DivFacts
  <2>5. ((i - 0) \div 4) + 1 \in 1..Len(t)
    BY <1>2, <2>2
  <2>6. Glyph(memory, t[((i - 0) \div 4) + 1]) = Font[t[((i - 0) \div 4) + 1]]
    BY <2>5 DEF Glyph
  <2>3. buffer'[i] = <<Glyph(memory, t[((i - 0) \div 4) + 1]), (i - 0) % 4>>
    BY <1>1, <1>2, <2>1 DEF DrawLetters
  <2>4. buffer'[i][1] = Font[t[((i - 0) \div 4) + 1]]
    BY <2>3, <2>6
  <2> QED
    BY <2>4, <2>5
<1> QED
  BY <1>6, <1>8, <1>9, <1>10, <1>11 DEF Inv

\* The message scroll_finish composes: labels, the CO2 value and a reading.
LEMMA MessageParts ==
  ASSUME co2 \in Co2Values, NEW reading \in DhtValues \union {Nil}
  PROVE  /\ Message(reading) \in Seq(TableCodes) /\ Len(Message(reading)) \in 0..4
         /\ \A j \in 1..Len(Message(reading)) : Message(reading)[j] \in {co2, Label} \union DhtValues
<1>1. co2 \in TableCodes /\ Label \in TableCodes /\ DhtValues \subseteq TableCodes
  BY ClockAssumption
<1>2. CASE reading = Nil
  BY <1>1, <1>2 DEF Message
<1>3. CASE reading # Nil
  BY <1>1, <1>3 DEF Message
<1> QED
  BY <1>2, <1>3

\* Each step of the application keeps the ticker's invariant and its own.
LEMMA ClockStep ==
  ASSUME TextsFit, ClockInv, [ClockNext]_clockVars
  PROVE  ClockInv'
<1>1. CASE GotIp \/ Retry \/ UNCHANGED clockVars
  <2>1. UNCHANGED vars /\ UNCHANGED <<ascii_table, phase, co2, wifi>>
    BY <1>1 DEF GotIp, Retry, clockVars, boot, vars, looks
  <2>2. Inv'
    BY <2>1, StepInv DEF ClockInv
  <2> QED
    BY <2>1, <2>2 DEF ClockInv, ClockState, TextNeverPanics, Lost
<1>2. CASE \E v \in Co2Values \union {Nil} : Measurement(v)
  <2>1. UNCHANGED vars /\ UNCHANGED <<ascii_table, phase>> /\ co2' \in Co2Values \union {Nil} /\ phase = "idle"
    BY <1>2 DEF Measurement, vars, looks
  <2>2. Inv'
    BY <2>1, StepInv DEF ClockInv
  <2> QED
    BY <2>1, <2>2 DEF ClockInv, ClockState, TextNeverPanics, Lost
<1>3. CASE RunScript
  <2>1. /\ RunSetup(IpText) /\ phase' = "idle" /\ ascii_table' = ascii_table /\ co2' = StartCo2
    BY <1>3 DEF RunScript, Alarm, RunSetup, looks
  <2>2. Inv'
    BY <2>1, RunSetupInv, ClockAssumption DEF TextsFit, ClockInv, ClockState
  <2> QED
    BY <2>1, <2>2, ClockAssumption DEF ClockInv, ClockState, TextNeverPanics, Lost
<1>4. CASE FallBack
  <2>1. RunSetup(<<>>) /\ phase' = "panic" /\ ascii_table' = ascii_table /\ wifi' = "softap" /\ UNCHANGED co2
    BY <1>4 DEF FallBack, RunSetup, looks
  <2>2. <<>> \in Seq(TableCodes) /\ \A n \in Lengths : Len(<<>>) <= n
    BY ConstantsAssumption
  <2>3. Inv'
    BY <2>1, <2>2, RunSetupInv DEF ClockInv, ClockState
  <2> QED
    BY <2>1, <2>3 DEF ClockInv, ClockState, TextNeverPanics, Lost
<1>5. CASE Scroll
  <2>1. (ScrollTick \/ ScrollFinish) /\ UNCHANGED <<ascii_table, co2, wifi>> /\ phase' \in {"idle", "finish"}
    BY <1>5 DEF Scroll, ScrollTick, ScrollFinish, TimerFires, looks, boot
  <2>2. Inv'
    BY <2>1, ScrollTickInv, ScrollFinishInv DEF ClockInv
  <2> QED
    BY <2>1, <2>2 DEF ClockInv, ClockState, TextNeverPanics, Lost
<1>6. CASE ScrollCallback
  <2>1. UNCHANGED <<co2, wifi>> /\ phase = "finish"
    BY <1>6 DEF ScrollCallback, boot
  <2>2. CASE co2 = Nil
    <3>1. phase' = "panic" /\ UNCHANGED <<strips, object, armed, text, looks, frame, ghosts>>
      BY <1>6, <2>2 DEF ScrollCallback
    <3>2. Inv'
      BY <2>1, <3>1 DEF ClockInv, Inv, TypeOK, Layout, Progress, Ownership, SeenSoFar, strips, object, text, looks, ghosts
    <3> QED
      BY <2>1, <2>2, <3>1, <3>2 DEF ClockInv, ClockState, TextNeverPanics, Lost, looks
  <2>3. CASE co2 # Nil
    <3>1. PICK reading \in DhtValues \union {Nil} : ShowMessage(reading)
      BY <1>6, <2>3 DEF ScrollCallback
    <3>2. PICK m \in Memory, k \in 0..Len(Message(reading)) : TickerSetText(Message(reading), k, m)
      BY <3>1 DEF ShowMessage
    <3> DEFINE s == Message(reading)
    <3>3. s \in Seq(TableCodes) /\ Len(s) \in 0..4 /\ k \in 0..Len(s) /\ TickerSetText(s, k, m)
      BY <2>3, <3>2, MessageParts DEF ClockInv, ClockState
    <3> HIDE DEF s
    <3>4. Inv'
      BY <3>3, ParsedText, SetTextInv DEF ClockInv
    <3>5. ticker = "live" /\ LettersFit(BlankBytes, s, k) /\ ascii_table' = ascii_table
      BY <3>3 DEF TickerSetText, CanCall, looks
    <3>6. phase' = "finish"
      <4>1. k = Len(s)
        BY <3>3, <3>5, MessageFits DEF ClockInv
      <4>2. Ends(BlankBytes + LetterBytes * k, k < Len(s)) /\ ~(k < Len(s))
        BY <3>3, <4>1 DEF TickerSetText
      <4>3. BlankBytes + LetterBytes * k <= length
        <5>1. PICK n \in Lengths : length = 12 * n
          BY <3>5 DEF ClockInv, Inv, Layout
        <5>2. n \in Nat /\ 78 <= 12 * n /\ k \in 0..4
          BY <3>3, <4>1, ConstantsAssumption DEF TextsFit, BlankBytes, NUM_COLS, LetterBytes
        <5> QED BY <5>1, <5>2 DEF BlankBytes, NUM_COLS, LetterBytes
      <4>4. ~(BlankBytes + LetterBytes * k > length)
        <5>1. BlankBytes + LetterBytes * k \in Nat /\ length \in Nat
          BY <3>3 DEF BlankBytes, NUM_COLS, LetterBytes, ClockInv, Inv, TypeOK
        <5> QED BY <4>3, <5>1
      <4> QED BY <2>1, <4>2, <4>4 DEF Ends
    <3> QED
      BY <2>1, <3>4, <3>5, <3>6 DEF ClockInv, ClockState, TextNeverPanics, Lost
  <2> QED BY <2>2, <2>3
<1>7. CASE EndScroll
  <2>1. ScrollEnd /\ UNCHANGED <<ascii_table, co2, wifi>> /\ phase' = "idle"
    BY <1>7 DEF EndScroll, ScrollEnd, looks, boot
  <2>2. Inv'
    BY <2>1, ScrollEndInv DEF ClockInv
  <2> QED
    BY <2>1, <2>2 DEF ClockInv, ClockState, TextNeverPanics, Lost
<1>8. CASE Restart
  <2>1. Reboot /\ ascii_table' = Font /\ co2' = Nil
    BY <1>8 DEF Restart, Reboot
  <2>2. Inv'
    BY <2>1, GoneInv DEF ClockInv
  <2> QED
    BY <2>1, <2>2 DEF ClockInv, ClockState, TextNeverPanics, Lost
<1> QED
  BY <1>1, <1>2, <1>3, <1>4, <1>5, <1>6, <1>7, <1>8 DEF ClockNext

LEMMA AlwaysClockInv ==
  ASSUME TextsFit
  PROVE  ClockSpec => []ClockInv
<1>1. ClockInit => ClockInv
  BY InitInv, ClockAssumption DEF ClockInit, Init, ClockInv, ClockState, TextNeverPanics
<1>2. ClockInv /\ [ClockNext]_clockVars => ClockInv'
  BY ClockStep
<1> QED
  BY <1>1, <1>2, PTL DEF ClockSpec

\* The ticker's promises survive in the application, whose texts are none of
\* LpdTicker's Texts: rows are not overrun, the end of the text is not
\* missed and the armed timer has its ticker and strip, through every boot,
\* measurement, callback and panic.
THEOREM ClockKeepsTicker ==
  ASSUME TextsFit
  PROVE  ClockSpec => [](TypeOK /\ BufferBound /\ FinishNotSkipped /\ ArmedHasObjects)
<1>1. ClockInv => TypeOK /\ BufferBound /\ FinishNotSkipped /\ ArmedHasObjects
  BY DEF ClockInv, Inv, Layout, Progress, Ownership, BufferBound, FinishNotSkipped, ArmedHasObjects
<1> QED
  BY <1>1, AlwaysClockInv, PTL

\* The node is taken down by nothing but a measurement that did not parse or
\* the address missing in access-point mode: "Ticker buffer is full." is
\* never raised in scroll_finish.
THEOREM PanicHasKnownCause ==
  ASSUME TextsFit
  PROVE  ClockSpec => []TextNeverPanics
<1>1. ClockInv => TextNeverPanics
  BY DEF ClockInv, ClockState
<1> QED
  BY <1>1, AlwaysClockInv, PTL

\* A cleared strip shows no value.
LEMMA DarkShowsNone ==
  ASSUME PartsApart
  PROVE  \A c \in 0..NUM_COLS-1 : Dark[c][1] \notin ValueLooks
  BY DEF Dark, Blank, PartsApart

\* A frame shows columns of the text.
LEMMA FrameOfText ==
  ASSUME Inv, TimerFires, ShowFrame, OneValueText
  PROVE  OneValueFrame'
<1>1. ticker = "live" /\ TypeOK
  BY DEF Inv, Ownership, TimerFires
<1>2. PICK m \in Nat : used = 3 * m
  BY <1>1 DEF Inv, Layout
<1>3. used \in Nat /\ m > 0 /\ position \in Nat /\ used \div 3 = m
  BY <1>1, <1>2 DEF TypeOK, TimerFires
<1>4. ASSUME NEW c \in 0..NUM_COLS-1
      PROVE  ShownColumn(c) \in 0..(used \div 3) - 1 /\ frame'.cells[c] = buffer[ShownColumn(c)]
  <2>1. c \in Nat
    BY <1>4 DEF NUM_COLS
  <2>2. ShownColumn(c) \in 0..m - 1
    BY <1>2, <1>3, <2>1, ShownColumnRange
  <2>3. frame'.cells[c] = buffer[ShownColumn(c)]
    BY <1>4 DEF ShowFrame
  <2> QED BY <1>3, <2>2, <2>3
<1> QED
  BY <1>4 DEF OneValueText, OneValueFrame

\* The text that scroll_finish sets has one value in it.
LEMMA TextOfMessage ==
  ASSUME PartsApart, ClockInv, co2 # Nil, NEW reading \in DhtValues \union {Nil},
         NEW m \in Memory, NEW k \in 0..Len(Message(reading)),
         TickerSetText(Message(reading), k, m), TextsFit
  PROVE  OneValueText'
<1> DEFINE s == Message(reading)
<1>0. /\ s \in Seq(TableCodes) /\ \A j \in 1..Len(s) : s[j] \in {co2, Label} \union DhtValues
      /\ k \in 0..Len(s) /\ k \in Nat /\ TickerSetText(s, k, m)
  BY MessageParts DEF ClockInv, ClockState
<1> HIDE DEF s
<1>1. ticker = "live" /\ TypeOK /\ length' = length /\ buffer \in [0..(length \div 3) - 1 -> Cells] /\ length \in Nat
  BY <1>0 DEF TickerSetText, CanCall, ClockInv, Inv, TypeOK, object
<1>2. used' = 30 + 12 * k /\ used' \div 3 = 10 + 4 * k /\ BlankBytes \div 3 = 10
  BY <1>0 DEF TickerSetText, BlankBytes, NUM_COLS, LetterBytes
<1>3. used' <= length
  <2>1. PICK n \in Lengths : length = 12 * n
    BY <1>1 DEF ClockInv, Inv, Layout
  <2>2. n \in Nat /\ 78 <= 12 * n
    BY ConstantsAssumption DEF TextsFit, BlankBytes, NUM_COLS, LetterBytes
  <2>3. BlankBytes \in Nat /\ BlankBytes = 30 /\ BlankBytes <= length /\ LettersFit(BlankBytes, s, k)
    BY <1>0, <2>1, <2>2 DEF TickerSetText, BlankBytes, NUM_COLS
  <2> QED
    BY <1>0, <1>1, <1>2, <2>1, <2>3, LettersFitBound DEF LetterBytes
<1>4. \A i \in 0..(used' \div 3) - 1 : i \in DOMAIN buffer /\ i \in Nat
  BY <1>0, <1>1, <1>2, <1>3, DivFacts
<1>5. buffer' = DrawLetters(BlankStart(buffer), BlankBytes, s, k, m)
  BY <1>0 DEF TickerSetText
<1>6. ASSUME NEW i \in 0..(used' \div 3) - 1
      PROVE  buffer'[i][1] \in ValueLooks => buffer'[i][1] = Font[co2]
  <2>1. CASE i < 10
    <3>1. buffer'[i] = Blank
      BY <1>2, <1>4, <1>5, <1>6, <2>1 DEF DrawLetters, BlankStart, NUM_COLS
    <3> QED BY <3>1 DEF Blank, PartsApart
  <2>2. CASE i >= 10
    <3>1. i \in 10..10 + 4 * k - 1 /\ i - 10 \in Nat /\ i - 10 < 4 * k
      BY <1>0, <1>2, <1>4, <1>6, <2>2
    <3> DEFINE q == (i - 10) \div 4
    <3>2. q \in 0..k - 1
      BY <1>0, <3>1, DivFacts
    <3>3. buffer'[i] = <<Glyph(m, s[q + 1]), (i - 10) % 4>>
      BY <1>2, <1>4, <1>5, <1>6, <3>1 DEF DrawLetters, BlankStart
    <3> HIDE DEF q
    <3>4. buffer'[i][1] = Font[s[q + 1]] /\ q + 1 \in 1..Len(s)
      BY <1>0, <3>2, <3>3 DEF ClockInv, ClockState, Glyph
    <3>5. s[q + 1] \in {co2, Label} \union DhtValues
      BY <1>0, <3>4
    <3> QED BY <3>4, <3>5 DEF PartsApart
  <2> QED BY <1>4, <1>6, <2>1, <2>2
<1> QED
  BY <1>6 DEF OneValueText

\* However measurements arrive relative to the scrolling, the strip never
\* shows parts of two CO2 values: scroll_finish replaces the text as a
\* whole, frames are taken from the text up to m_Used only, and the columns
\* of older, longer texts behind it stay hidden.
THEOREM StripShowsOneValue ==
  ASSUME TextsFit, PartsApart
  PROVE  ClockSpec => []OneValueShown
<1> DEFINE One == OneValueText /\ OneValueFrame
<1>1. ClockInit => One
  <2> SUFFICES ASSUME ClockInit PROVE One
    OBVIOUS
  <2>1. frame.cells = Dark /\ 0..(used \div 3) - 1 = {}
    BY DEF ClockInit, Init
  <2> QED
    BY <2>1, DarkShowsNone DEF OneValueText, OneValueFrame
<1>2. ASSUME ClockInv, One, [ClockNext]_clockVars
      PROVE  One'
  <2>1. CASE UNCHANGED <<used, buffer, frame>>
    BY <1>2, <2>1 DEF OneValueText, OneValueFrame
  <2>2. CASE Scroll
    <3>1. TimerFires /\ ShowFrame /\ UNCHANGED <<used, buffer>>
      BY <2>2 DEF Scroll, ScrollTick, ScrollFinish
    <3>2. OneValueFrame'
      BY <1>2, <3>1, FrameOfText DEF ClockInv
    <3> QED BY <1>2, <3>1, <3>2 DEF OneValueText
  <2>3. ASSUME NEW t \in Seq(TableCodes), \A n \in Lengths : Len(t) <= n, \A j \in 1..Len(t) : Font[t[j]] \notin ValueLooks,
               RunSetup(t), phase' \in {"idle", "panic"}
        PROVE  One'
    <3>1. /\ frame'.cells = Dark
          /\ \A i \in 0..(used' \div 3) - 1 : \E j \in 1..Len(t) : buffer'[i][1] = Font[t[j]]
      BY <1>2, <2>3, RunSetupInv DEF ClockInv, ClockState
    <3>2. OneValueText'
      BY <2>3, <3>1 DEF OneValueText
    <3>3. OneValueFrame'
      BY <3>1, DarkShowsNone DEF OneValueFrame
    <3> QED BY <3>2, <3>3
  <2>4. CASE RunScript
    BY <2>3, <2>4, ClockAssumption DEF RunScript, Alarm, TextsFit, PartsApart
  <2>5. CASE FallBack
    <3>1. <<>> \in Seq(TableCodes) /\ (\A n \in Lengths : Len(<<>>) <= n) /\ 1..Len(<<>>) = {}
      BY ConstantsAssumption
    <3> QED BY <2>3, <2>5, <3>1 DEF FallBack
  <2>6. CASE ScrollCallback /\ co2 # Nil
    <3>1. PICK reading \in DhtValues \union {Nil} : ShowMessage(reading)
      BY <2>6 DEF ScrollCallback
    <3>2. PICK m \in Memory, k \in 0..Len(Message(reading)) : TickerSetText(Message(reading), k, m)
      BY <3>1 DEF ShowMessage
    <3>3. OneValueText'
      BY <1>2, <2>6, <3>2, TextOfMessage
    <3>4. frame'.cells = Dark
      BY <1>2, <3>2 DEF TickerSetText, ClearText, ClockInv, Inv, TypeOK
    <3>5. OneValueFrame'
      BY <3>4, DarkShowsNone DEF OneValueFrame
    <3> QED BY <3>3, <3>5
  <2>7. CASE Restart
    <3>1. used' = 0 /\ UNCHANGED frame
      BY <2>7 DEF Restart, Reboot
    <3>2. 0..(used' \div 3) - 1 = {}
      BY <3>1
    <3> QED BY <1>2, <3>1, <3>2 DEF OneValueText, OneValueFrame
  <2>8. CASE GotIp \/ Retry \/ (\E v \in Co2Values \union {Nil} : Measurement(v)) \/ EndScroll
             \/ (ScrollCallback /\ co2 = Nil) \/ UNCHANGED clockVars
    <3>1. UNCHANGED <<used, buffer, frame>>
      BY <2>8 DEF GotIp, Retry, Measurement, EndScroll, ScrollEnd, ScrollCallback, clockVars, vars, text
    <3> QED BY <2>1, <3>1
  <2> QED
    BY <1>2, <2>2, <2>4, <2>5, <2>6, <2>7, <2>8 DEF ClockNext
<1>3. ClockInv /\ One => OneValueShown
  <2>1. ClockInv => ValueMasks = ValueLooks
    BY DEF ClockInv, ClockState, ValueMasks, ValueLooks
  <2> QED
    BY <2>1 DEF OneValueFrame, OneValueShown
<1> HIDE DEF One
<1> QED
  BY <1>1, <1>2, <1>3, AlwaysClockInv, PTL DEF ClockSpec
=============================================================================
