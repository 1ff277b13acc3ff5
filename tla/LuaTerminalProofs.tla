------------------------- MODULE LuaTerminalProofs -------------------------
(***************************************************************************)
(* Theorems about LuaTerminal, for every line length, ring size, alphabet, *)
(* set of modes and set of RUN commands.                                   *)
(***************************************************************************)
EXTENDS LuaTerminal, TLAPS, WellFoundedInduction

(* Every non-empty set of naturals has a least element. *)
LEMMA LeastElement ==
    ASSUME NEW T, T \subseteq Nat, T # {}
    PROVE  \E i \in T : \A j \in T : i <= j
<1> DEFINE R == {ss \in Nat \X Nat : ss[1] < ss[2]}
<1>1. IsWellFoundedOn(R, Nat)
  BY NatLessThanWellFounded DEF OpToRel
<1>2. PICK i \in T : \A j \in T : <<j, i>> \notin R
  <2> HIDE DEF R
  <2> QED
    BY <1>1, WFMin
<1>3. ASSUME NEW j \in T PROVE i <= j
  <2>1. i \in Nat /\ j \in Nat /\ <<j, i>> \in Nat \X Nat
    OBVIOUS
  <2>2. ~(j < i)
    BY <2>1, <1>2
  <2> QED
    BY <2>1, <2>2
<1> QED
  BY <1>3

Bytes == Keys \union {Nul}

Lines == [0..LineLen-1 -> Bytes]

(* c_strlen stops at the first zero, or at the end of the buffer. *)
LEMMA StrLenFirstNul ==
    ASSUME NEW l \in Lines
    PROVE  /\ StrLen(l) \in 0..LineLen
           /\ \A j \in 0..StrLen(l)-1 : l[j] # Nul
<1> USE TerminalAssumption
<1> DEFINE N == {i \in DOMAIN l : l[i] = Nul}
<1>0. DOMAIN l = 0..LineLen-1
  BY DEF Lines
<1>1. CASE N = {}
  BY <1>0, <1>1 DEF StrLen
<1>2. CASE N # {}
  <2>1. N \subseteq Nat
    BY <1>0
  <2>2. PICK i \in N : \A j \in N : i <= j
    <3> HIDE DEF N
    <3> QED BY <1>2, <2>1, LeastElement
  <2>3. i \in DOMAIN l /\ l[i] = Nul /\ \A j \in 0..i-1 : l[j] # Nul
    BY <1>0, <2>2
  <2>4. StrLen(l) = CHOOSE k \in DOMAIN l : l[k] = Nul /\ \A j \in 0..k-1 : l[j] # Nul
    BY <1>2 DEF StrLen
  <2>5. StrLen(l) \in DOMAIN l /\ \A j \in 0..StrLen(l)-1 : l[j] # Nul
    BY <2>3, <2>4
  <2> QED
    BY <1>0, <2>5
<1> QED
  BY <1>1, <1>2

LEMMA StrLenAtNul ==
    ASSUME NEW l \in Lines
    PROVE  StrLen(l) = LineLen \/ (StrLen(l) \in 0..LineLen-1 /\ l[StrLen(l)] = Nul)
<1> USE TerminalAssumption
<1> DEFINE N == {i \in DOMAIN l : l[i] = Nul}
<1>0. DOMAIN l = 0..LineLen-1
  BY DEF Lines
<1>1. CASE N = {}
  BY <1>0, <1>1 DEF StrLen
<1>2. CASE N # {}
  <2>1. N \subseteq Nat
    BY <1>0
  <2>2. PICK i \in N : \A j \in N : i <= j
    <3> HIDE DEF N
    <3> QED BY <1>2, <2>1, LeastElement
  <2>3. i \in DOMAIN l /\ l[i] = Nul /\ \A j \in 0..i-1 : l[j] # Nul
    BY <1>0, <2>2
  <2>4. StrLen(l) = CHOOSE k \in DOMAIN l : l[k] = Nul /\ \A j \in 0..k-1 : l[j] # Nul
    BY <1>2 DEF StrLen
  <2>5. StrLen(l) \in DOMAIN l /\ l[StrLen(l)] = Nul
    BY <2>3, <2>4
  <2> QED
    BY <1>0, <2>5
<1> QED
  BY <1>1, <1>2

LEMMA TextOfKeys ==
    ASSUME NEW l \in Lines
    PROVE  Text(l) \in Seq(Keys)
<1> USE TerminalAssumption
<1>1. StrLen(l) \in 0..LineLen /\ \A j \in 0..StrLen(l)-1 : l[j] # Nul
  BY StrLenFirstNul
<1>2. \A i \in 1..StrLen(l) : l[i - 1] \in Keys
  BY <1>1 DEF Lines, Bytes
<1> QED
  BY <1>1, <1>2 DEF Text

(* A buffer that holds a text and a zero behind it is read as that text. *)
LEMMA TextThenNul ==
    ASSUME NEW l \in Lines, NEW p \in Seq(Keys), Len(p) < LineLen,
           \A i \in 0..Len(p)-1 : l[i] = p[i + 1],
           l[Len(p)] = Nul
    PROVE  Text(l) = p
<1> USE TerminalAssumption
<1>0. DOMAIN l = 0..LineLen-1 /\ Len(p) \in Nat /\ Len(p) \in DOMAIN l
  BY DEF Lines
<1>1. \A i \in 0..Len(p)-1 : l[i] # Nul
  <2> SUFFICES ASSUME NEW i \in 0..Len(p)-1 PROVE l[i] # Nul
    OBVIOUS
  <2>1. p[i + 1] \in Keys
    BY <1>0
  <2> QED
    BY <2>1 DEF Keys, NL, CR, BS, Nul
<1>2. \A k \in DOMAIN l : (l[k] = Nul /\ \A j \in 0..k-1 : l[j] # Nul) => k = Len(p)
  <2> SUFFICES ASSUME NEW k \in DOMAIN l, l[k] = Nul, \A j \in 0..k-1 : l[j] # Nul PROVE k = Len(p)
    OBVIOUS
  <2>1. ~(k < Len(p))
    BY <1>0, <1>1
  <2>2. ~(Len(p) < k)
    BY <1>0
  <2> QED
    BY <1>0, <2>1, <2>2
<1>3. StrLen(l) = CHOOSE k \in DOMAIN l : l[k] = Nul /\ \A j \in 0..k-1 : l[j] # Nul
  BY <1>0 DEF StrLen
<1>4. StrLen(l) = Len(p)
  BY <1>0, <1>1, <1>2, <1>3
<1>5. /\ p = [i \in 1..Len(p) |-> p[i]]
      /\ Text(l) = [i \in 1..Len(p) |-> l[i - 1]]
      /\ \A i \in 1..Len(p) : l[i - 1] = p[i]
  BY <1>0, <1>4 DEF Text
<1> QED
  BY <1>5

-----------------------------------------------------------------------------
(* Type correctness.                                                       *)
LEMMA ChoppedType ==
    ASSUME NEW t \in Seq(Keys)
    PROVE  Chopped(t) \in Seq(Keys)
BY DEF Chopped

LEMMA JoinedType ==
    ASSUME TypeOK, NEW t \in Seq(Keys)
    PROVE  Joined(t) \in Seq(Keys)
<1>1. chunk \in Seq(Keys) /\ <<NL>> \in Seq(Keys)
  BY DEF TypeOK, Keys
<1> QED
  BY <1>1 DEF Joined

LEMMA DoJobOnType ==
    ASSUME TypeOK, NEW l \in Lines, DoJobOn(l)
    PROVE  chunk' \in Seq(Keys) /\ executed' \in Seq(Seq(Keys)) /\ Wiped
<1> DEFINE whole == Joined(Chopped(Text(l)))
<1>1. whole \in Seq(Keys)
  BY TextOfKeys, ChoppedType, JoinedType
<1>2. chunk \in Seq(Keys) /\ executed \in Seq(Seq(Keys))
  BY DEF TypeOK
<1>3. IF Incomplete(whole) THEN chunk' = whole /\ executed' = executed
      ELSE chunk' = <<>> /\ executed' = Append(executed, whole)
  BY DEF DoJobOn
<1> HIDE DEF whole
<1>5. chunk' \in Seq(Keys) /\ executed' \in Seq(Seq(Keys))
  <2>1. CASE Incomplete(whole)
    BY <2>1, <1>1, <1>2, <1>3
  <2>2. CASE ~Incomplete(whole)
    <3>1. chunk' = <<>> /\ executed' = Append(executed, whole)
      BY <2>2, <1>3
    <3> QED
      BY <3>1, <1>1, <1>2
  <2> QED
    BY <2>1, <2>2
<1> QED
  BY <1>5 DEF DoJobOn

LEMMA EmptyLineType ==
    EmptyLine \in [0..LineLen-1 -> Keys \union {Nul}] /\ 0 \in 0..LineLen-1
BY TerminalAssumption DEF EmptyLine

LEMMA RunLineType ==
    ASSUME TypeOK, NEW p \in Payloads
    PROVE  RunLine(p) \in Lines
<1> USE TerminalAssumption
<1>1. p \in Seq(Keys) /\ Len(p) \in Nat
  OBVIOUS
<1>2. \A i \in 0..Len(p)-1 : p[i + 1] \in Keys
  BY <1>1
<1> QED
  BY <1>1, <1>2 DEF RunLine, Lines, Bytes, TypeOK

(* What uart.on leaves is a mode. *)
LEMMA OnType ==
    ASSUME TypeOK, NEW a \in Calls
    PROVE  On(a) \in AllModes
<1>1. a \in AllCalls /\ mode \in AllModes /\ NeedMax \in Nat
  BY TerminalAssumption DEF TypeOK
<1>2. OnLimit(a) \in AllModes
  BY <1>1 DEF OnLimit, AllModes, AllCalls
<1> QED
  BY <1>1, <1>2 DEF On, AllModes, AllCalls

LEMMA DataCallbackType ==
    ASSUME TypeOK, NEW n, DataCallback(n)
    PROVE  mode' \in AllModes
BY OnType DEF TypeOK, DataCallback

LEMMA PassDataType ==
    ASSUME TypeOK, NEW n, PassData(n)
    PROVE  mode' \in AllModes /\ line_position' = 0 /\ typed' = <<>> /\ left' \in BOOLEAN
BY DataCallbackType DEF PassData

LEMMA WipedType ==
    ASSUME Wiped
    PROVE  /\ line' \in [0..LineLen-1 -> Keys \union {Nul}] /\ line_position' \in 0..LineLen-1
           /\ done' \in BOOLEAN /\ readline_timer' \in BOOLEAN
           /\ typed' \in Seq(Keys) /\ entered' \in Seq(Keys) /\ late' \in BOOLEAN /\ left' \in BOOLEAN
<1>1. /\ line' = EmptyLine /\ line_position' = 0 /\ done' = FALSE /\ readline_timer' = TRUE
      /\ typed' = <<>> /\ entered' = <<>> /\ late' = FALSE /\ left' = FALSE
  BY DEF Wiped
<1>2. <<>> \in Seq(Keys)
  OBVIOUS
<1> QED
  BY <1>1, <1>2, EmptyLineType

LEMMA KeyType ==
    ASSUME TypeOK, phase = "cr" \/ Reading
    PROVE  /\ Key \in Keys /\ RxRest \in Seq(Keys)
           /\ rx # <<>> => rx[1] \in Keys /\ Tail(rx) \in Seq(Keys)
<1>1. rx \in Seq(Keys) /\ CR \in Keys
  BY DEF TypeOK, Keys
<1>2. rx # <<>> => rx[1] \in Keys /\ Tail(rx) \in Seq(Keys)
  BY <1>1
<1> QED
  BY <1>1, <1>2 DEF Key, RxRest

(* The buffer up to line_position holds what was taken since it was 0. *)
Front ==
    /\ Len(typed) = line_position
    /\ \A i \in 0..line_position-1 : line[i] = typed[i + 1]

LEMMA TypeInit == Init => TypeOK
<1> SUFFICES ASSUME Init PROVE TypeOK
  OBVIOUS
<1>1. Console \in AllModes
  BY DEF Console, AllModes
<1>2. <<>> \in Seq(Keys) /\ <<>> \in Seq(Seq(Keys))
  OBVIOUS
<1> QED
  BY <1>1, <1>2, EmptyLineType DEF Init, TypeOK

LEMMA TypeStep == TypeOK /\ Front /\ [Next]_vars => TypeOK'
<1> SUFFICES ASSUME TypeOK, Front, [Next]_vars PROVE TypeOK'
  OBVIOUS
<1> USE TerminalAssumption
<1>1. ASSUME NEW c \in Keys, RxChar(c) PROVE TypeOK'
  <2>1. rx' \in Seq(Keys)
    <3>1. rx \in Seq(Keys) /\ Len(rx) \in Nat
      BY DEF TypeOK
    <3>2. CASE Len(rx) = RingSize
      <4>1. Tail(rx) \in Seq(Keys)
        BY <3>1, <3>2
      <4> QED
        BY <4>1, <3>2, <1>1 DEF RxChar
    <3>3. CASE Len(rx) # RingSize
      BY <3>1, <3>3, <1>1 DEF RxChar
    <3> QED
      BY <3>2, <3>3
  <2> QED
    BY <2>1, <1>1 DEF RxChar, TypeOK, load, timers, ghosts
<1>2. CASE ReadlineStart
  BY <1>2 DEF ReadlineStart, TypeOK, reader, load, ghosts
<1>3. CASE ReadCr
  <2>1. rx' \in Seq(Keys)
    BY <1>3, KeyType DEF ReadCr, Reading
  <2> QED
    BY <2>1, <1>3 DEF ReadCr, TypeOK, load, timers, ghosts
<1>4. CASE ReadBackspace
  <2>1. rx' \in Seq(Keys)
    BY <1>4, KeyType DEF ReadBackspace, Reading
  <2>2. line_position' \in 0..LineLen-1
    BY <1>4 DEF ReadBackspace, TypeOK
  <2>3. typed' = SubSeq(typed, 1, line_position')
    BY <1>4 DEF ReadBackspace
  <2>4. PICK q \in 0..LineLen-1 : q = line_position'
    BY <2>2
  <2>5. Len(typed) = line_position
    BY DEF Front
  <2>6. typed' \in Seq(Keys)
    <3>1. typed \in Seq(Keys) /\ q \in 0..Len(typed)
      BY <2>4, <2>5, <1>4 DEF TypeOK, ReadBackspace
    <3> QED
      BY <3>1, <2>3, <2>4
  <2>7. late' \in BOOLEAN /\ line' = [line EXCEPT ![line_position'] = Nul]
        /\ UNCHANGED <<received, runs, done, chunk, mode, timers, phase, executed, entered, left>>
    BY <1>4 DEF ReadBackspace, Taken
  <2> QED
    BY <2>1, <2>2, <2>6, <2>7 DEF TypeOK, timers
<1>5. CASE ReadEol
  <2>1. rx' \in Seq(Keys) /\ mode' \in AllModes
    BY <1>5, KeyType, DataCallbackType DEF ReadEol, HaveKey
  <2>2. /\ line' = [line EXCEPT ![line_position] = Nul]
        /\ done' \in BOOLEAN /\ lua_timer' \in BOOLEAN /\ readline_timer' \in BOOLEAN
        /\ phase' = "reading" /\ late' \in BOOLEAN /\ entered' \in Seq(Keys)
        /\ UNCHANGED <<received, runs, line_position, chunk, executed, typed, left>>
    BY <1>5 DEF ReadEol, Taken, TypeOK
  <2> QED
    BY <2>1, <2>2 DEF TypeOK
<1>6. CASE ReadKey
  <2> DEFINE at == IF Overlong THEN 0 ELSE line_position
  <2>1. rx' \in Seq(Keys) /\ Key \in Keys
    BY <1>6, KeyType DEF ReadKey, HaveKey
  <2>2. at \in 0..LineLen-1 /\ at + 1 \in 0..LineLen-1
    BY DEF TypeOK, Overlong
  <2>3. /\ line' = [line EXCEPT ![at] = Key] /\ line_position' = at + 1
        /\ left' \in BOOLEAN /\ late' \in BOOLEAN /\ phase' = "reading"
        /\ UNCHANGED <<received, runs, done, chunk, mode, timers, executed, entered>>
    BY <1>6 DEF ReadKey, Taken
  <2>4. typed' \in Seq(Keys)
    <3>1. typed \in Seq(Keys) /\ (typed' = <<Key>> \/ typed' = Append(typed, Key))
      BY <1>6 DEF ReadKey, TypeOK
    <3>2. PICK k \in Keys : k = Key
      BY <2>1
    <3>3. <<k>> \in Seq(Keys) /\ Append(typed, k) \in Seq(Keys)
      BY <3>1
    <3> QED
      BY <3>1, <3>2, <3>3
  <2> HIDE DEF at
  <2> QED
    BY <2>1, <2>2, <2>3, <2>4 DEF TypeOK, timers
<1>7. CASE ReadData
  <2>1. rx' \in Seq(Keys) /\ rx[1] \in Keys
    BY <1>7, KeyType DEF ReadData, Reading
  <2>2. /\ line_position' \in 0..LineLen-1 /\ mode' \in AllModes
        /\ typed' \in Seq(Keys) /\ left' \in BOOLEAN
    <3>1. CASE PassData(line_position + 1)
      BY <3>1, PassDataType, EmptyLineType
    <3>2. CASE /\ ~(line_position + 1 >= LineLen) /\ line_position' = line_position + 1
               /\ typed' = Append(typed, rx[1]) /\ UNCHANGED <<mode, left>>
      BY <3>2, <2>1 DEF TypeOK
    <3> QED
      BY <1>7, <3>1, <3>2 DEF ReadData
  <2>3. /\ line' = [line EXCEPT ![line_position] = rx[1]] /\ late' \in BOOLEAN
        /\ UNCHANGED <<received, runs, done, chunk, timers, phase, executed, entered>>
    BY <1>7 DEF ReadData, Taken
  <2> QED
    BY <2>1, <2>2, <2>3 DEF TypeOK, timers
<1>8. CASE ReadlineEnd
  <2>1. mode' \in AllModes /\ line_position' \in 0..LineLen-1 /\ typed' \in Seq(Keys) /\ left' \in BOOLEAN
    <3>1. CASE PassData(line_position)
      BY <3>1, PassDataType, EmptyLineType
    <3>2. CASE UNCHANGED <<mode, line_position, typed, left>>
      BY <3>2 DEF TypeOK
    <3> QED
      BY <1>8, <3>1, <3>2 DEF ReadlineEnd
  <2>2. /\ readline_timer' = TRUE /\ phase' = "idle"
        /\ UNCHANGED <<reader, runs, line, done, chunk, lua_timer, executed, entered, late>>
    BY <1>8 DEF ReadlineEnd
  <2> QED
    BY <2>1, <2>2 DEF TypeOK, reader
<1>9. CASE DoJob
  <2>1. lua_timer' = FALSE /\ UNCHANGED <<rx, received, runs, mode, phase>>
    BY <1>9 DEF DoJob, reader
  <2>2. chunk' \in Seq(Keys) /\ executed' \in Seq(Seq(Keys)) /\ Wiped
    <3>1. CASE done
      <4>1. DoJobOn(line) /\ line \in Lines
        BY <3>1, <1>9 DEF DoJob, TypeOK, Lines, Bytes
      <4> QED
        BY <4>1, DoJobOnType
    <3>2. CASE ~done
      BY <3>2, <1>9 DEF DoJob, TypeOK
    <3> QED
      BY <3>1, <3>2
  <2> QED
    BY <2>1, <2>2, WipedType DEF TypeOK
<1>10. ASSUME NEW p \in Payloads, RunCommand(p) PROVE TypeOK'
  <2>1. CASE line_position = 0
    <3>1. DoJobOn(RunLine(p)) /\ RunLine(p) \in Lines
      BY <2>1, <1>10, RunLineType DEF RunCommand
    <3>2. chunk' \in Seq(Keys) /\ executed' \in Seq(Seq(Keys)) /\ Wiped
      BY <3>1, DoJobOnType
    <3>3. runs' \in Nat /\ UNCHANGED <<rx, received, mode, lua_timer, phase>>
      BY <1>10 DEF RunCommand, reader, TypeOK
    <3> QED
      BY <3>2, <3>3, WipedType DEF TypeOK
  <2>2. CASE line_position # 0
    BY <2>2, <1>10 DEF RunCommand, TypeOK, reader, load, ghosts
  <2> QED
    BY <2>1, <2>2
<1>11. ASSUME NEW a \in Calls, UartOn(a) PROVE TypeOK'
  BY <1>11, OnType DEF UartOn, TypeOK, reader, load, timers, ghosts
<1>12. CASE UNCHANGED vars
  BY <1>12 DEF vars, TypeOK, reader, load, timers, ghosts
<1> QED
  BY <1>1, <1>2, <1>3, <1>4, <1>5, <1>6, <1>7, <1>8, <1>9, <1>10, <1>11, <1>12 DEF Next, Rx

-----------------------------------------------------------------------------
(* What was taken and what the buffer holds.  LineAsEntered is not         *)
(* inductive: it rests on what stands before and behind line_position.     *)
Behind == ~left => \A i \in line_position..LineLen-1 : line[i] = Nul
Kept == done /\ ~late => Text(line) = entered

LineInv == TypeOK /\ Front /\ Behind /\ Kept

(* Front, pointwise, for the step. *)
LEMMA FrontType ==
    ASSUME TypeOK, Front
    PROVE  /\ typed \in Seq(Keys) /\ Len(typed) = line_position
           /\ line \in Lines /\ line_position \in 0..LineLen-1
           /\ \A i \in 1..line_position : typed[i] \in Keys /\ line[i - 1] = typed[i]
<1>1. typed \in Seq(Keys) /\ Len(typed) = line_position /\ line \in Lines /\ line_position \in 0..LineLen-1
  BY DEF TypeOK, Front, Lines, Bytes
<1>2. \A i \in 1..line_position : typed[i] \in Keys
  BY <1>1
<1>3. ASSUME NEW i \in 1..line_position PROVE line[i - 1] = typed[i]
  <2>1. i - 1 \in 0..line_position-1 /\ (i - 1) + 1 = i
    BY <1>1
  <2> QED BY <2>1 DEF Front
<1> QED BY <1>1, <1>2, <1>3

(* A zero at line_position makes the C string what was taken. *)
LEMMA TextAtEnd ==
    ASSUME NEW l \in Lines, NEW t \in Seq(Keys), NEW n \in 0..LineLen-1, Len(t) = n,
           \A i \in 0..n-1 : l[i] = t[i + 1], l[n] = Nul
    PROVE  Text(l) = t
BY TextThenNul, TerminalAssumption

LEMMA WipedKeeps ==
    ASSUME Wiped
    PROVE  Front' /\ Behind' /\ Kept'
<1>1. line_position' = 0 /\ Len(typed') = 0 /\ line' = EmptyLine /\ done' = FALSE
  BY DEF Wiped
<1> QED
  BY <1>1, TerminalAssumption DEF Front, Behind, Kept, EmptyLine

LEMMA LineInvInit == Init => LineInv
<1> SUFFICES ASSUME Init PROVE Front /\ Behind /\ Kept
  BY TypeInit DEF LineInv
<1>1. line_position = 0 /\ Len(typed) = 0 /\ line = EmptyLine /\ done = FALSE
  BY DEF Init
<1> QED
  BY <1>1, TerminalAssumption DEF Front, Behind, Kept, EmptyLine

LEMMA LineInvStep == LineInv /\ [Next]_vars => LineInv'
<1> SUFFICES ASSUME LineInv, [Next]_vars PROVE Front' /\ Behind' /\ Kept'
  BY TypeStep DEF LineInv
<1> USE TerminalAssumption DEF LineInv
<1>0. /\ typed \in Seq(Keys) /\ Len(typed) = line_position
      /\ line \in Lines /\ line_position \in 0..LineLen-1
      /\ \A i \in 1..line_position : typed[i] \in Keys /\ line[i - 1] = typed[i]
  BY FrontType
<1>1. ASSUME UNCHANGED <<line, line_position, typed, done, entered, late, left>>
      PROVE  Front' /\ Behind' /\ Kept'
  BY <1>1 DEF Front, Behind, Kept
<1>2. CASE Rx \/ ReadlineStart \/ ReadCr
  BY <1>1, <1>2 DEF Rx, RxChar, ReadlineStart, ReadCr, load, ghosts
<1>3. ASSUME Taken, done' = done PROVE Kept'
  BY <1>3 DEF Taken, Kept, TypeOK
<1>4. CASE ReadBackspace
  <2>1. /\ line_position' = IF line_position > 0 THEN line_position - 1 ELSE 0
        /\ line' = [line EXCEPT ![line_position'] = Nul]
        /\ typed' = SubSeq(typed, 1, line_position')
        /\ left' = left /\ done' = done /\ Taken
    BY <1>4 DEF ReadBackspace
  <2>2. PICK q \in 0..LineLen-1 : q = line_position'
    BY <2>1, <1>0
  <2>3. q <= line_position /\ (line_position > 0 => q = line_position - 1)
    BY <2>1, <2>2, <1>0
  <2>4. typed' = SubSeq(typed, 1, q) /\ line' = [line EXCEPT ![q] = Nul]
    BY <2>1, <2>2
  <2>5. Len(SubSeq(typed, 1, q)) = q /\ \A i \in 1..q : SubSeq(typed, 1, q)[i] = typed[i]
    BY <1>0, <2>3
  <2>6. Len(typed') = line_position' /\ \A i \in 1..q : typed'[i] = typed[i]
    BY <2>2, <2>4, <2>5
  <2>7. ASSUME NEW i \in 0..q-1 PROVE line'[i] = typed'[i + 1]
    <3>1. i + 1 \in 1..q /\ i + 1 \in 1..line_position /\ (i + 1) - 1 = i /\ i # q /\ i \in 0..LineLen-1
      BY <2>3, <1>0
    <3>2. line'[i] = line[i]
      BY <3>1, <2>4, <1>0 DEF Lines
    <3>3. line[i] = typed[i + 1]
      BY <3>1, <1>0
    <3> QED BY <3>1, <3>2, <3>3, <2>6
  <2>8. Front'
    BY <2>2, <2>6, <2>7 DEF Front
  <2>9. Behind'
    <3> SUFFICES ASSUME ~left, NEW i \in q..LineLen-1 PROVE line'[i] = Nul
      BY <2>1, <2>2 DEF Behind
    <3>1. i \in 0..LineLen-1
      BY <2>2
    <3>2. i = q => line'[i] = Nul
      BY <2>4, <3>1, <1>0 DEF Lines
    <3>3. i # q => line'[i] = line[i] /\ i \in line_position..LineLen-1
      BY <2>3, <2>4, <3>1, <1>0 DEF Lines
    <3> QED BY <3>2, <3>3 DEF Behind
  <2> QED BY <2>1, <2>8, <2>9, <1>3
<1>5. CASE ReadEol
  <2>1. /\ line' = [line EXCEPT ![line_position] = Nul]
        /\ UNCHANGED <<line_position, typed, left>> /\ Taken
        /\ entered' = IF done THEN entered ELSE typed
    BY <1>5 DEF ReadEol
  <2>2. line' \in Lines /\ line'[line_position] = Nul
        /\ \A i \in 0..LineLen-1 : i # line_position => line'[i] = line[i]
    BY <2>1, <1>0 DEF Lines, Bytes
  <2>3. Front'
    BY <2>1, <2>2, <1>0 DEF Front
  <2>4. Behind'
    BY <2>1, <2>2, <1>0 DEF Behind
  <2>5. Kept'
    <3>1. CASE done
      BY <2>1, <3>1 DEF Kept, Taken
    <3>2. CASE ~done
      <4>1. \A i \in 0..line_position-1 : line'[i] = typed[i + 1]
        BY <2>1, <2>3 DEF Front
      <4>2. Text(line') = typed
        BY <4>1, <2>2, <1>0, TextAtEnd
      <4> QED BY <4>2, <2>1, <3>2 DEF Kept
    <3> QED BY <3>1, <3>2
  <2> QED BY <2>3, <2>4, <2>5
<1>6. CASE ReadKey
  <2>1. Key \in Keys
    BY <1>6, KeyType DEF ReadKey, HaveKey
  <2>2. done' = done /\ Taken
    BY <1>6 DEF ReadKey
  <2>3. CASE Overlong
    <3>0. left' = (left \/ Overlong)
      BY <1>6 DEF ReadKey
    <3>1. /\ line' = [line EXCEPT ![0] = Key] /\ line_position' = 0 + 1
          /\ typed' = <<Key>>
      BY <1>6, <2>3 DEF ReadKey
    <3>4. left'
      BY <3>0, <2>3, Zenon
    <3>2. line'[0] = Key /\ Len(typed') = 1 /\ typed'[1] = Key
      BY <3>1, <1>0 DEF Lines
    <3> QED BY <3>1, <3>2, <3>4, <2>2, <1>3 DEF Front, Behind
  <2>4. CASE ~Overlong
    <3>1. /\ line' = [line EXCEPT ![line_position] = Key] /\ line_position' = line_position + 1
          /\ typed' = Append(typed, Key) /\ left' = left
      BY <1>6, <2>4 DEF ReadKey, TypeOK
    <3>2. /\ Len(typed') = line_position + 1 /\ typed'[line_position + 1] = Key
          /\ \A i \in 1..line_position : typed'[i] = typed[i]
      BY <3>1, <2>1, <1>0
    <3>3. line'[line_position] = Key /\ \A i \in 0..LineLen-1 : i # line_position => line'[i] = line[i]
      BY <3>1, <1>0 DEF Lines
    <3>4. ASSUME NEW i \in 0..line_position PROVE line'[i] = typed'[i + 1]
      <4>1. CASE i = line_position
        BY <4>1, <3>2, <3>3
      <4>2. CASE i # line_position
        <5>1. i + 1 \in 1..line_position /\ (i + 1) - 1 = i /\ i \in 0..LineLen-1
          BY <4>2, <1>0
        <5> QED BY <4>2, <5>1, <3>2, <3>3, <1>0
      <4> QED BY <4>1, <4>2
    <3>5. Front'
      BY <3>1, <3>2, <3>4, <1>0 DEF Front
    <3>6. Behind'
      BY <3>1, <3>3, <1>0 DEF Behind
    <3> QED BY <3>5, <3>6, <2>2, <1>3
  <2> QED BY <2>3, <2>4
<1>7. CASE ReadData
  <2>1. rx[1] \in Keys
    BY <1>7, KeyType DEF ReadData, Reading
  <2>2. done' = done /\ Taken /\ line' = [line EXCEPT ![line_position] = rx[1]]
    BY <1>7 DEF ReadData
  <2>3. CASE PassData(line_position + 1)
    <3>0. line_position + 1 > 0
      BY <1>0
    <3>1. line_position' = 0 /\ Len(typed') = 0 /\ left'
      BY <2>3, <3>0 DEF PassData
    <3> QED BY <3>1, <2>2, <1>3 DEF Front, Behind
  <2>4. CASE line_position' = line_position + 1 /\ typed' = Append(typed, rx[1]) /\ UNCHANGED left
    <3>2. /\ Len(typed') = line_position + 1 /\ typed'[line_position + 1] = rx[1]
          /\ \A i \in 1..line_position : typed'[i] = typed[i]
      BY <2>4, <2>1, <1>0
    <3>3. line'[line_position] = rx[1] /\ \A i \in 0..LineLen-1 : i # line_position => line'[i] = line[i]
      BY <2>2, <1>0 DEF Lines
    <3>4. ASSUME NEW i \in 0..line_position PROVE line'[i] = typed'[i + 1]
      <4>1. CASE i = line_position
        BY <4>1, <3>2, <3>3
      <4>2. CASE i # line_position
        <5>1. i + 1 \in 1..line_position /\ (i + 1) - 1 = i /\ i \in 0..LineLen-1
          BY <4>2, <1>0
        <5> QED BY <4>2, <5>1, <3>2, <3>3, <1>0
      <4> QED BY <4>1, <4>2
    <3>5. Front'
      BY <2>4, <3>2, <3>4, <1>0 DEF Front
    <3>6. Behind'
      BY <2>4, <3>3, <1>0 DEF Behind
    <3> QED BY <3>5, <3>6, <2>2, <1>3
  <2> QED BY <1>7, <2>3, <2>4 DEF ReadData
<1>8. CASE ReadlineEnd
  <2>1. UNCHANGED <<line, done, entered, late>>
    BY <1>8 DEF ReadlineEnd
  <2>2. CASE PassData(line_position)
    <3>1. line_position' = 0 /\ Len(typed') = 0 /\ (~left' => ~left /\ ~(line_position > 0))
      BY <2>2 DEF PassData
    <3>2. Behind'
      BY <3>1, <2>1, <1>0 DEF Behind
    <3>3. Kept'
      BY <2>1 DEF Kept
    <3> QED BY <3>1, <3>2, <3>3 DEF Front
  <2>3. CASE UNCHANGED <<line_position, typed, left>>
    BY <2>1, <2>3, <1>1
  <2> QED BY <1>8, <2>2, <2>3 DEF ReadlineEnd
<1>9. CASE DoJob
  <2>1. Wiped
    BY <1>9 DEF DoJob, DoJobOn
  <2> QED BY <2>1, WipedKeeps
<1>10. ASSUME NEW p \in Payloads, RunCommand(p) PROVE Front' /\ Behind' /\ Kept'
  <2>1. CASE line_position = 0
    <3>1. Wiped
      BY <1>10, <2>1 DEF RunCommand, DoJobOn
    <3> QED BY <3>1, WipedKeeps
  <2>2. CASE line_position # 0
    BY <2>2, <1>1, <1>10 DEF RunCommand, load, ghosts
  <2> QED
    BY <2>1, <2>2
<1>11. CASE \E a \in Calls : UartOn(a)
  BY <1>11, <1>1 DEF UartOn, load, ghosts
<1>12. CASE UNCHANGED vars
  BY <1>12, <1>1 DEF vars, load, ghosts
<1> QED
  BY <1>2, <1>4, <1>5, <1>6, <1>7, <1>8, <1>9, <1>10, <1>11, <1>12 DEF Next

LEMMA LineInvAlways == Spec => []LineInv
BY LineInvInit, LineInvStep, PTL DEF Spec

(* The console's variables keep their types, whatever is typed, sent or    *)
(* run: line_position never leaves the buffer gLoad.line.                  *)
THEOREM TypeCorrect == Spec => []TypeOK
<1>1. LineInv => TypeOK
  BY DEF LineInv
<1> QED
  BY <1>1, LineInvAlways, PTL

(* The C string in the buffer starts with what was taken. *)
LEMMA TextStartsTyped ==
    ASSUME TypeOK, Front
    PROVE  SubSeq(Text(line), 1, Len(typed)) = typed
<1> USE TerminalAssumption
<1>0. /\ typed \in Seq(Keys) /\ Len(typed) = line_position
      /\ line \in Lines /\ line_position \in 0..LineLen-1
      /\ \A i \in 1..line_position : typed[i] \in Keys /\ line[i - 1] = typed[i]
  BY FrontType
<1>1. \A i \in 1..line_position : line[i - 1] # Nul
  BY <1>0 DEF Keys, NL, CR, BS, Nul
<1>2. StrLen(line) \in 0..LineLen /\ line_position <= StrLen(line)
  <2>1. StrLen(line) \in 0..LineLen
    BY <1>0, StrLenFirstNul
  <2>2. StrLen(line) = LineLen \/ (StrLen(line) \in 0..LineLen-1 /\ line[StrLen(line)] = Nul)
    BY <1>0, StrLenAtNul
  <2>3. CASE StrLen(line) < line_position
    <3>1. PICK q \in Nat : q = StrLen(line)
      BY <2>1
    <3>2. q + 1 \in 1..line_position /\ (q + 1) - 1 = q /\ q # LineLen
      BY <3>1, <2>3, <1>0
    <3>3. line[q] = Nul
      BY <3>1, <3>2, <2>2
    <3>4. line[(q + 1) - 1] # Nul
      BY <3>2, <1>1
    <3> QED BY <3>2, <3>3, <3>4
  <2> QED BY <2>1, <2>3, <1>0
<1>3. Text(line) \in Seq(Keys) /\ Len(Text(line)) = StrLen(line)
      /\ \A i \in 1..StrLen(line) : Text(line)[i] = line[i - 1]
  BY <1>0, <1>2, TextOfKeys DEF Text
<1> DEFINE t == Text(line)
<1>4. t \in Seq(Keys) /\ line_position <= Len(t) /\ \A i \in 1..line_position : t[i] = typed[i]
  BY <1>0, <1>2, <1>3
<1> HIDE DEF t
<1>5. /\ Len(SubSeq(t, 1, line_position)) = line_position
      /\ \A i \in 1..line_position : SubSeq(t, 1, line_position)[i] = t[i]
      /\ SubSeq(t, 1, line_position) \in Seq(Keys)
  BY <1>0, <1>4
<1>6. SubSeq(t, 1, line_position) = typed
  BY <1>0, <1>4, <1>5
<1> QED BY <1>0, <1>6 DEF t

LEMMA LineInvSays == LineInv => LineAsEntered
<1> SUFFICES ASSUME LineInv, done PROVE IF ~late THEN Text(line) = entered
                 ELSE SubSeq(Text(line), 1, Len(typed)) = typed /\ (~left => Text(line) = typed)
  BY DEF LineAsEntered
<1> USE DEF LineInv
<1>1. CASE ~late
  BY <1>1 DEF Kept
<1>2. CASE late
  <2>1. ASSUME ~left PROVE Text(line) = typed
    <3>1. /\ typed \in Seq(Keys) /\ Len(typed) = line_position
          /\ line \in Lines /\ line_position \in 0..LineLen-1
      BY FrontType
    <3>2. line[line_position] = Nul
      BY <2>1, <3>1, TerminalAssumption DEF Behind
    <3>3. \A i \in 0..line_position-1 : line[i] = typed[i + 1]
      BY DEF Front
    <3> QED BY <3>1, <3>2, <3>3, TextAtEnd
  <2> QED BY <1>2, <2>1, TextStartsTyped
<1> QED BY <1>1, <1>2

(* dojob, which goes by c_strlen, finds the line as it was ended, for      *)
(* every length of the buffer and every order of keys, backspaces, lines   *)
(* too long, data packets, changes of mode and RUN commands before it.     *)
(* Bytes taken between the end of the line and dojob join it.              *)
THEOREM LineIsAsEntered == Spec => []LineAsEntered
BY LineInvSays, LineInvAlways, PTL

-----------------------------------------------------------------------------
LEMMA AliveStep == ReaderAlive /\ [Next]_vars => ReaderAlive'
<1> SUFFICES ASSUME ReaderAlive, [Next]_vars PROVE ReaderAlive'
  OBVIOUS
<1> USE DEF ReaderAlive
<1>1. CASE Rx \/ UNCHANGED vars
  BY <1>1 DEF Rx, RxChar, timers, vars
<1>2. CASE ReadlineStart \/ ReadCr \/ ReadBackspace \/ ReadEol \/ ReadKey \/ ReadData
  BY <1>2 DEF ReadlineStart, ReadCr, ReadBackspace, ReadEol, ReadKey, ReadData, Reading
<1>3. CASE ReadlineEnd
  BY <1>3 DEF ReadlineEnd
<1>4. CASE DoJob
  BY <1>4 DEF DoJob, DoJobOn, Wiped
<1>5. CASE \E p \in Payloads : RunCommand(p)
  BY <1>5 DEF RunCommand, DoJobOn, Wiped
<1>6. CASE \E a \in Calls : UartOn(a)
  BY <1>6 DEF UartOn, timers
<1> QED
  BY <1>1, <1>2, <1>3, <1>4, <1>5, <1>6 DEF Next

(* No path through readline, dojob, a RUN command or a change of mode      *)
(* leaves the console without a timer that leads back to readline.         *)
THEOREM ConsoleNeverDeaf == Spec => []ReaderAlive
<1>1. Init => ReaderAlive
  BY DEF Init, ReaderAlive
<1> QED
  BY <1>1, AliveStep, PTL DEF Spec

-----------------------------------------------------------------------------
(* Only a RUN command counts as one. *)
LEMMA RunsCounted ==
    ASSUME [Next]_vars, runs' # runs
    PROVE  \E p \in Payloads : RunCommand(p)
<1>1. ~Rx /\ ~ReadlineStart /\ ~ReadCr /\ ~ReadBackspace /\ ~ReadEol /\ ~ReadKey
  BY DEF Rx, RxChar, ReadlineStart, ReadCr, ReadBackspace, ReadEol, ReadKey
<1>2. ~ReadData /\ ~ReadlineEnd /\ ~DoJob /\ ~(\E a \in Calls : UartOn(a)) /\ ~UNCHANGED vars
  BY DEF ReadData, ReadlineEnd, DoJob, UartOn, vars
<1> QED
  BY <1>1, <1>2 DEF Next

(* A RUN command from the network never throws away keys typed on the      *)
(* console.                                                                *)
THEOREM RunSparesConsole == Spec => RunKeepsTypedKeys
<1>1. LineInv /\ [Next]_vars => [runs' # runs => typed' = typed]_vars
  <2> SUFFICES ASSUME LineInv, [Next]_vars, runs' # runs PROVE typed' = typed
    OBVIOUS
  <2>1. PICK p \in Payloads : RunCommand(p)
    BY RunsCounted
  <2>2. CASE line_position = 0
    <3>1. typed \in Seq(Keys) /\ Len(typed) = 0
      BY <2>2, FrontType DEF LineInv
    <3>2. typed = <<>>
      BY <3>1
    <3> QED
      BY <3>2, <2>1, <2>2 DEF RunCommand, DoJobOn, Wiped
  <2>3. CASE line_position # 0
    BY <2>1, <2>3 DEF RunCommand, ghosts
  <2> QED
    BY <2>2, <2>3
<1> QED
  BY <1>1, LineInvAlways, PTL DEF Spec, RunKeepsTypedKeys

(* What RUN leaves in the buffer is read back as the payload, or as the    *)
(* payload and the one byte in front of the misplaced terminator.          *)
LEMMA RunLineText ==
    ASSUME TypeOK, NEW p \in Payloads
    PROVE  /\ line[Len(p)] = Nul => Text(RunLine(p)) = p
           /\ line[Len(p)] # Nul => /\ line[Len(p)] \in Keys
                                    /\ Text(RunLine(p)) = Append(p, line[Len(p)])
<1> USE TerminalAssumption
<1>1. p \in Seq(Keys) /\ Len(p) \in Nat /\ Len(p) + 1 < LineLen
  OBVIOUS
<1>2. \A i \in 0..Len(p)-1 : RunLine(p)[i] = p[i + 1]
  BY <1>1 DEF RunLine
<1>3. RunLine(p)[Len(p)] = line[Len(p)] /\ RunLine(p)[Len(p) + 1] = Nul
  BY <1>1 DEF RunLine
<1>4. ASSUME line[Len(p)] = Nul PROVE Text(RunLine(p)) = p
  BY <1>1, <1>2, <1>3, <1>4, RunLineType, TextThenNul
<1>5. ASSUME line[Len(p)] # Nul PROVE line[Len(p)] \in Keys /\ Text(RunLine(p)) = Append(p, line[Len(p)])
  <2>1. line[Len(p)] \in Keys
    BY <1>1, <1>5 DEF TypeOK
  <2> DEFINE q == Append(p, line[Len(p)])
  <2>2. q \in Seq(Keys) /\ Len(q) = Len(p) + 1 /\ q[Len(p) + 1] = line[Len(p)]
        /\ \A i \in 1..Len(p) : q[i] = p[i]
    BY <1>1, <2>1
  <2> HIDE DEF q
  <2>3. ASSUME NEW i \in 0..Len(q)-1 PROVE RunLine(p)[i] = q[i + 1]
    <3>1. CASE i = Len(p)
      BY <3>1, <2>2, <1>3
    <3>2. CASE i # Len(p)
      <4>1. i \in 0..Len(p)-1 /\ i + 1 \in 1..Len(p)
        BY <3>2, <2>2, <1>1
      <4> QED BY <4>1, <1>2, <2>2
    <3> QED BY <3>1, <3>2
  <2>4. RunLine(p)[Len(q)] = Nul /\ Len(q) < LineLen
    BY <2>2, <1>1, <1>3
  <2>5. Text(RunLine(p)) = q
    BY <2>2, <2>3, <2>4, RunLineType, TextThenNul
  <2> QED BY <2>1, <2>5 DEF q
<1> QED
  BY <1>4, <1>5

(* RUN gives its payload to Lua behind the lines of an unfinished chunk,   *)
(* with at most one stale byte, and none if neither a data packet nor a    *)
(* discarded line left bytes in the buffer; for every length of the buffer *)
(* and every payload that fits.                                            *)
THEOREM RunRunsItsPayload == Spec => RunExecutesPayload
<1> DEFINE A == \A p \in Payloads :
                   RunCommand(p) /\ line_position = 0 =>
                       \E t \in {p} \union (IF left THEN {Append(p, b) : b \in Keys} ELSE {}) :
                           \/ executed' = Append(executed, Joined(Chopped(t)))
                           \/ executed' = executed /\ chunk' = Joined(Chopped(t))
<1>1. LineInv => A
  <2> SUFFICES ASSUME LineInv, NEW p \in Payloads, RunCommand(p), line_position = 0
               PROVE  \E t \in {p} \union (IF left THEN {Append(p, b) : b \in Keys} ELSE {}) :
                           \/ executed' = Append(executed, Joined(Chopped(t)))
                           \/ executed' = executed /\ chunk' = Joined(Chopped(t))
    OBVIOUS
  <2> DEFINE t == Text(RunLine(p))
  <2>1. t \in {p} \union (IF left THEN {Append(p, b) : b \in Keys} ELSE {})
    <3>1. CASE line[Len(p)] = Nul
      BY <3>1, RunLineText DEF LineInv
    <3>2. CASE line[Len(p)] # Nul
      <4>1. left
        <5>1. Len(p) \in line_position..LineLen-1
          BY TerminalAssumption
        <5> QED BY <3>2, <5>1 DEF LineInv, Behind
      <4>2. line[Len(p)] \in Keys /\ t = Append(p, line[Len(p)])
        BY <3>2, RunLineText DEF LineInv
      <4> HIDE DEF t
      <4> QED BY <4>1, <4>2
    <3> QED BY <3>1, <3>2
  <2>2. DoJobOn(RunLine(p))
    BY DEF RunCommand
  <2>3. \/ executed' = Append(executed, Joined(Chopped(t)))
        \/ executed' = executed /\ chunk' = Joined(Chopped(t))
    BY <2>2 DEF DoJobOn
  <2> HIDE DEF t
  <2> QED
    BY <2>1, <2>3
<1>2. LineInv /\ [Next]_vars => [A]_vars
  BY <1>1
<1> QED
  BY <1>2, LineInvAlways, PTL DEF Spec, RunExecutesPayload
=============================================================================
