---------------------------- MODULE LuaTerminal ----------------------------
(***************************************************************************)
(* The Lua console of app/lua/lua.c: readline() and dojob(), which share   *)
(* the line buffer gLoad and run as one-shot timer callbacks; uart.on of   *)
(* app/modules/uart.c, which turns the same reader into a data channel;    *)
(* and the RUN command of app/modules/file_server.c, which borrows the     *)
(* line buffer to execute a command received over the network.             *)
(*                                                                         *)
(* Handlers run one at a time, only the UART interrupt runs inside them:   *)
(* readline's loop is a phase during which nothing but the interrupt and   *)
(* the loop itself takes steps.                                            *)
(***************************************************************************)
EXTENDS Integers, Sequences

CONSTANTS
    Chars,       \* ordinary characters
    EndChar,     \* the ordinary character uart.on may wait for
    Opener,      \* the character that leaves a Lua chunk incomplete
    LineLen,     \* gLoad.len (LUA_MAXINPUT)
    RingSize,    \* characters the receive ring holds
    MaxInput,    \* bound: characters the UART delivers
    MaxRuns,     \* bound: RUN commands received
    Payloads,    \* texts of RUN commands
    NeedMax,     \* the largest number uart.on accepts
    Calls        \* the arguments uart.on may be called with

NL == "NL"
CR == "CR"
BS == "BS"
Nul == "Nul"
Keys == Chars \union {NL, CR, BS}

\* A mode is what uart.on leaves in run_input, need_len, end_char and
\* uart_receive_rf.
AllModes == [run_input : BOOLEAN, need_len : Nat, end : BOOLEAN, cb : BOOLEAN]
Console == [run_input |-> TRUE, need_len |-> 0, end |-> FALSE, cb |-> FALSE]

\* The arguments of uart.on: whether the method is "data", the second one (a
\* number, one character, a longer string, or left out), whether a function is
\* given, and whether run_input is given as 0.
AllCalls == [data : BOOLEAN, second : {"number", "char", "string", "none"}, n : Nat,
             fn : BOOLEAN, run0 : BOOLEAN]

ASSUME TerminalAssumption ==
    /\ LineLen \in Nat /\ LineLen > 2
    /\ RingSize \in Nat \ {0} /\ MaxInput \in Nat /\ MaxRuns \in Nat
    /\ EndChar \in Chars
    /\ Chars \intersect {NL, CR, BS, Nul} = {}
    /\ Payloads \subseteq Seq(Keys)
    /\ \A p \in Payloads : Len(p) + 1 < LineLen
    /\ NeedMax \in Nat /\ Calls \subseteq AllCalls

VARIABLES
    rx,             \* characters in the UART receive ring
    received,       \* number of characters received so far
    runs,           \* number of RUN commands received so far
    line,           \* gLoad.line
    line_position,  \* gLoad.line_position
    done,           \* gLoad.done
    chunk,          \* the text on the Lua stack; gLoad.firstline is chunk = <<>>
    mode,           \* run_input, need_len, end_char
    lua_timer,      \* armed to call dojob
    readline_timer, \* armed to call readline
    phase,          \* "idle", or readline's loop: "reading", "cr" behind a CR
    executed,       \* history: the chunks handed to the Lua compiler
    typed,          \* history: bytes taken since line_position was last 0, less erased ones
    entered,        \* history: the first line ended since the last dojob
    late,           \* history: bytes were taken since that line was ended
    left            \* history: since the last dojob line_position was set back to 0
                    \* with bytes in the buffer

reader == <<rx, received>>
load == <<line, line_position, done, chunk>>
timers == <<lua_timer, readline_timer>>
ghosts == <<executed, typed, entered, late, left>>
vars == <<reader, runs, load, mode, timers, phase, ghosts>>

EmptyLine == [i \in 0..LineLen-1 |-> Nul]

(* c_strlen and the C string it delimits. *)
StrLen(l) ==
    IF \E i \in DOMAIN l : l[i] = Nul
    THEN CHOOSE i \in DOMAIN l : l[i] = Nul /\ \A j \in 0..i-1 : l[j] # Nul
    ELSE LineLen

Text(l) == [i \in 1..StrLen(l) |-> l[i - 1]]

(* dojob removes a newline at the end of the line. *)
Chopped(t) == IF t # <<>> /\ t[Len(t)] = NL THEN SubSeq(t, 1, Len(t) - 1) ELSE t

(* incomplete(): the compiler wants more input. *)
Incomplete(t) == t # <<>> /\ t[Len(t)] = Opener

Init ==
    /\ rx = <<>> /\ received = 0 /\ runs = 0
    /\ line = EmptyLine /\ line_position = 0 /\ done = FALSE /\ chunk = <<>>
    /\ mode = Console
    /\ lua_timer = TRUE /\ readline_timer = FALSE
    /\ phase = "idle"
    /\ executed = <<>> /\ typed = <<>> /\ entered = <<>> /\ late = FALSE /\ left = FALSE

----------------------------------------------------------------------------
(* uart0_rx_intr_handler puts a character into the ring, which loses its   *)
(* oldest one when it is full (UartRing shows that it does just that).     *)
RxChar(c) ==
    /\ received < MaxInput
    /\ rx' = Append(IF Len(rx) = RingSize THEN Tail(rx) ELSE rx, c)
    /\ received' = received + 1
    /\ UNCHANGED <<runs, load, mode, timers, phase, ghosts>>

ReadlineStart ==
    /\ phase = "idle" /\ readline_timer
    /\ phase' = "reading"
    /\ readline_timer' = FALSE
    /\ UNCHANGED <<reader, runs, load, mode, lua_timer, ghosts>>

Reading == phase = "reading" /\ rx # <<>>

(* A CR gives way to the key behind it if that one has arrived already.    *)
(* Characters may come in, and be lost, between the two uart_getc.         *)
ReadCr ==
    /\ Reading /\ mode.run_input /\ rx[1] = CR
    /\ rx' = Tail(rx)
    /\ phase' = "cr"
    /\ UNCHANGED <<received, runs, load, mode, timers, ghosts>>

(* The key readline works on, and what it leaves in the ring. *)
HaveKey ==
    /\ mode.run_input
    /\ phase = "cr" \/ (Reading /\ rx[1] \notin {CR, BS})

Key == IF rx = <<>> THEN CR ELSE rx[1]
RxRest == IF rx = <<>> THEN <<>> ELSE Tail(rx)

(* uart.on: the second argument is stored before the call can fail. *)
OnRaises(a) == a.second = "string" \/ (a.second = "number" /\ a.n > NeedMax) \/ ~a.data

OnLimit(a) ==
    CASE a.second = "number" -> [mode EXCEPT !.need_len = IF a.n > NeedMax THEN NeedMax ELSE a.n,
                                             !.end = FALSE]
      [] a.second = "char" -> [mode EXCEPT !.need_len = 0, !.end = TRUE]
      [] OTHER -> mode

On(a) ==
    IF OnRaises(a) THEN OnLimit(a)
    ELSE [OnLimit(a) EXCEPT !.run_input = ~(a.fn /\ a.run0), !.cb = a.fn]

(* uart_on_data_cb calls the Lua callback if there is one and the buffer   *)
(* is not empty; the callback may call uart.on.  An error in it is not     *)
(* caught: the node panics, which is where the model of it ends.           *)
DataCallback(count) ==
    mode' \in {mode} \union
              (IF mode.cb /\ count > 0 THEN {On(a) : a \in {b \in Calls : ~OnRaises(b)}} ELSE {})

(* A byte is taken; if a line waits for dojob, it comes too early. *)
Taken == late' = (late \/ done)

ReadBackspace ==
    /\ Reading /\ mode.run_input /\ rx[1] = BS
    /\ rx' = Tail(rx)
    /\ line_position' = IF line_position > 0 THEN line_position - 1 ELSE 0
    /\ line' = [line EXCEPT ![line_position'] = Nul]
    /\ typed' = SubSeq(typed, 1, line_position')
    /\ Taken
    /\ UNCHANGED <<received, runs, done, chunk, mode, timers, phase, executed, entered, left>>

EolWithoutTimer ==
    /\ HaveKey /\ Key \in {NL, CR}
    /\ rx' = RxRest /\ phase' = "reading"
    /\ line' = [line EXCEPT ![line_position] = Nul]
    /\ done' = (line_position # 0 \/ done)
    /\ Taken
    /\ entered' = IF done THEN entered ELSE typed
    /\ DataCallback(line_position)
    /\ UNCHANGED <<received, runs, line_position, chunk, timers, executed, typed, left>>

EolWithoutNul ==
    /\ HaveKey /\ Key \in {NL, CR}
    /\ rx' = RxRest /\ phase' = "reading"
    /\ IF line_position = 0
       THEN readline_timer' = TRUE /\ UNCHANGED <<done, lua_timer>>
       ELSE done' = TRUE /\ lua_timer' = TRUE /\ UNCHANGED readline_timer
    /\ Taken
    /\ entered' = IF done THEN entered ELSE typed
    /\ DataCallback(line_position)
    /\ UNCHANGED <<received, runs, line, line_position, chunk, executed, typed, left>>

(* End of line: dojob is left to lua_timer, line_position is not reset. *)
ReadEol ==
    /\ HaveKey /\ Key \in {NL, CR}
    /\ rx' = RxRest /\ phase' = "reading"
    /\ line' = [line EXCEPT ![line_position] = Nul]
    /\ IF line_position = 0
       THEN readline_timer' = TRUE /\ UNCHANGED <<done, lua_timer>>
       ELSE done' = TRUE /\ lua_timer' = TRUE /\ UNCHANGED readline_timer
    /\ Taken
    /\ entered' = IF done THEN entered ELSE typed
    /\ DataCallback(line_position)
    /\ UNCHANGED <<received, runs, line_position, chunk, executed, typed, left>>

OverlongByOne == line_position + 1 > LineLen

Overlong == line_position + 1 >= LineLen

(* An ordinary key; a line that does not fit starts again at position 0. *)
ReadKey ==
    /\ HaveKey /\ Key \notin {NL, CR}
    /\ rx' = RxRest /\ phase' = "reading"
    /\ LET at == IF Overlong THEN 0 ELSE line_position
       IN /\ line' = [line EXCEPT ![at] = Key]
          /\ line_position' = at + 1
    /\ typed' = IF Overlong THEN <<Key>> ELSE Append(typed, Key)
    /\ left' = (left \/ Overlong)
    /\ Taken
    /\ UNCHANGED <<received, runs, done, chunk, mode, timers, executed, entered>>

(* The data in the buffer goes to the callback and the next byte to its    *)
(* start; the bytes stay behind.                                           *)
PassData(count) ==
    /\ DataCallback(count)
    /\ line_position' = 0
    /\ typed' = <<>> /\ left' = (left \/ count > 0)

(* In data mode the buffer collects bytes until the Lua callback is due;   *)
(* the callback may itself select another mode.                            *)
ReadData ==
    /\ Reading /\ ~mode.run_input
    /\ rx' = Tail(rx)
    /\ line' = [line EXCEPT ![line_position] = rx[1]]
    /\ IF \/ mode.need_len # 0 /\ line_position + 1 >= mode.need_len
          \/ line_position + 1 >= LineLen
          \/ mode.end /\ rx[1] = EndChar
       THEN PassData(line_position + 1)
       ELSE /\ line_position' = line_position + 1
            /\ typed' = Append(typed, rx[1])
            /\ UNCHANGED <<mode, left>>
    /\ Taken
    /\ UNCHANGED <<received, runs, done, chunk, timers, phase, executed, entered>>

ReadlineEndReturnsEarly ==
    /\ phase = "reading" /\ rx = <<>>
    /\ IF ~mode.run_input /\ mode.need_len = 0 /\ ~mode.end
       THEN PassData(line_position) /\ UNCHANGED readline_timer
       ELSE readline_timer' = TRUE /\ UNCHANGED <<mode, line_position, typed, left>>
    /\ phase' = "idle"
    /\ UNCHANGED <<reader, runs, line, done, chunk, lua_timer, executed, entered, late>>

ReadlineEnd ==
    /\ phase = "reading" /\ rx = <<>>
    /\ IF ~mode.run_input /\ mode.need_len = 0 /\ ~mode.end
       THEN PassData(line_position)
       ELSE UNCHANGED <<mode, line_position, typed, left>>
    /\ readline_timer' = TRUE
    /\ phase' = "idle"
    /\ UNCHANGED <<reader, runs, line, done, chunk, lua_timer, executed, entered, late>>

----------------------------------------------------------------------------
(* The buffer is wiped and the reader armed. *)
Wiped ==
    /\ done' = FALSE
    /\ line_position' = 0
    /\ line' = EmptyLine
    /\ readline_timer' = TRUE
    /\ typed' = <<>> /\ entered' = <<>> /\ late' = FALSE /\ left' = FALSE

(* A text joins an incomplete chunk. *)
Joined(t) == IF chunk = <<>> THEN t ELSE chunk \o <<NL>> \o t

(* dojob on a buffer that holds l: the C string joins an incomplete chunk  *)
(* and the whole is compiled and either run or kept as incomplete.         *)
DoJobOn(l) ==
    LET whole == Joined(Chopped(Text(l)))
    IN /\ IF Incomplete(whole)
          THEN chunk' = whole /\ UNCHANGED executed
          ELSE chunk' = <<>> /\ executed' = Append(executed, whole)
       /\ Wiped

DoJob ==
    /\ phase = "idle" /\ lua_timer
    /\ lua_timer' = FALSE
    /\ IF done THEN DoJobOn(line) ELSE Wiped /\ UNCHANGED <<chunk, executed>>
    /\ UNCHANGED <<reader, runs, mode, phase>>

RunLineShort(p) ==
    [i \in 0..LineLen-1 |->
        IF i < Len(p) - 1 THEN p[i + 1] ELSE IF i = Len(p) THEN Nul ELSE line[i]]

(* What the RUN case of fs_data_received leaves in the line buffer: the    *)
(* payload, and the terminator one byte after its end.                     *)
RunLine(p) ==
    [i \in 0..LineLen-1 |->
        IF i < Len(p) THEN p[i + 1] ELSE IF i = Len(p) + 1 THEN Nul ELSE line[i]]

RunAlways(p) ==
    /\ phase = "idle" /\ runs < MaxRuns
    /\ runs' = runs + 1
    /\ DoJobOn(RunLine(p))
    /\ UNCHANGED <<reader, mode, lua_timer, phase>>

RunCommand(p) ==
    /\ phase = "idle" /\ runs < MaxRuns
    /\ runs' = runs + 1
    /\ IF line_position = 0
       THEN DoJobOn(RunLine(p))
       ELSE UNCHANGED <<load, readline_timer, ghosts>>
    /\ UNCHANGED <<reader, mode, lua_timer, phase>>

(* uart.on called by Lua code between two handlers; an error it raises is  *)
(* reported by whoever called the code, and the second argument stays.     *)
UartOn(a) ==
    /\ phase = "idle"
    /\ mode' = On(a)
    /\ UNCHANGED <<reader, runs, load, timers, phase, ghosts>>

Rx == \E c \in Keys : RxChar(c)

Read == ReadCr \/ ReadBackspace \/ ReadEol \/ ReadKey \/ ReadData \/ ReadlineEnd

Next ==
    \/ Rx
    \/ ReadlineStart
    \/ ReadCr
    \/ ReadBackspace
    \/ ReadEol
    \/ ReadKey
    \/ ReadData
    \/ ReadlineEnd
    \/ DoJob
    \/ \E p \in Payloads : RunCommand(p)
    \/ \E a \in Calls : UartOn(a)

(* Timers that are armed fire, and the reading loop runs to its end.  The  *)
(* timer list is ordered by deadline: a readline_timer armed again and     *)
(* again always comes behind the lua_timer that waits already, so readline *)
(* cannot starve dojob (strong fairness).                                  *)
Fairness ==
    /\ WF_vars(ReadlineStart)
    /\ WF_vars(Read)
    /\ SF_vars(DoJob)

Spec == Init /\ [][Next]_vars /\ Fairness

----------------------------------------------------------------------------
TypeOK ==
    /\ rx \in Seq(Keys) /\ received \in Nat /\ runs \in Nat
    /\ line \in [0..LineLen-1 -> Keys \union {Nul}]
    /\ line_position \in 0..LineLen-1
    /\ done \in BOOLEAN /\ chunk \in Seq(Keys)
    /\ mode \in AllModes
    /\ lua_timer \in BOOLEAN /\ readline_timer \in BOOLEAN
    /\ phase \in {"idle", "reading", "cr"}
    /\ executed \in Seq(Seq(Keys)) /\ typed \in Seq(Keys) /\ entered \in Seq(Keys)
    /\ late \in BOOLEAN /\ left \in BOOLEAN

(* dojob goes by c_strlen and not by line_position.  It finds the line as  *)
(* it was ended, whatever backspaces, lines too long for the buffer, data  *)
(* packets, changes of mode and RUN commands went over the buffer before,  *)
(* provided no byte was taken between the end of the line and dojob.  One  *)
(* that was joins the line, ends of line not counting: dojob then finds    *)
(* all that was taken since line_position was 0, and behind it nothing, or *)
(* what a discarded line or a data packet left there.                      *)
LineAsEntered ==
    done => IF ~late THEN Text(line) = entered
            ELSE /\ SubSeq(Text(line), 1, Len(typed)) = typed
                 /\ ~left => Text(line) = typed

(* The console never goes deaf: readline is running, or one of the two     *)
(* one-shot timers that lead back to it is armed.                          *)
ReaderAlive == phase # "idle" \/ readline_timer \/ lua_timer

(* A RUN command from the network does not throw away keys typed on the    *)
(* console: file_server.c uses the buffer only if line_position is 0.      *)
RunKeepsTypedKeys == [][runs' # runs => typed' = typed]_vars

(* A line that was ended is eventually handed to dojob. *)
LineIsExecuted == done ~> ~done

(* What RUN gives to Lua is the command it was sent, behind the lines of   *)
(* an unfinished chunk.  The terminator goes one byte too far: if a data   *)
(* packet or a discarded line left bytes in the buffer, one of them may    *)
(* come with the command, and never more than one.                         *)
RunExecutesPayload ==
    [][\A p \in Payloads :
          RunCommand(p) /\ line_position = 0 =>
              \E t \in {p} \union (IF left THEN {Append(p, b) : b \in Keys} ELSE {}) :
                  \/ executed' = Append(executed, Joined(Chopped(t)))
                  \/ executed' = executed /\ chunk' = Joined(Chopped(t))]_vars
=============================================================================
