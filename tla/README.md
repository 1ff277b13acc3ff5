# Verification of esp-clock

esp-clock is a scrolling LED clock on an ESP8266: a fork of the NodeMCU firmware
with modules of its own (`src/nodemcu-firmware/app/modules/`) and a Lua
application (`src/LuaNode/base/`).  This directory holds TLA+ models of the parts
that carry its own logic, the TLC configurations that check them on small
instances, and theorems checked by TLAPS that hold for every instance.

    tlc -config LpdTicker.cfg MCLpdTicker      # a run
    tlapm LpdTickerProofs.tla                  # the proofs

Paths below are relative to `src/nodemcu-firmware/app/` unless they start with
`LuaNode/`.

## 1. Inventory

The firmware is single-threaded: the SDK calls one handler at a time (a software
timer, a network callback, a posted task), a handler runs to its end, and only the
UART interrupt runs inside it.  What makes it hard is therefore not preemption but
state that survives from one handler to the next in globals and raw pointers, Lua
callbacks that re-enter a module in the middle of its handler, one-shot timers that
must re-arm each other, and a TCP stack that cuts data anywhere and tells about the
end of a connection late and through another object.

| Component | State | Operations | Interacts with |
|---|---|---|---|
| Scrolling ticker, `modules/lpd_ticker.c` | text buffer (`m_OutputBuffer`), `m_Length`, `m_Used`, `m_Position`, timer, references to callback and strip, global font | setup, clear, set_text, add_text, add_letter, set_char_mask, set_brightness, set_speed, start, stop, timer handler, `__gc` | draws on the strip through a raw pointer; calls a Lua callback at the end of each pass, which may call the ticker again |
| LED strip, `modules/lpd8806.c` | pixel buffer | setup, set_color, update, clear, `__gc` | used by the ticker |
| Clock application, `LuaNode/base/*.lua` | retries, wifi mode, co2 | boot with retries, AP fall-back, scroll callback, sensor messages | ticker, uart data channel, file server |
| Lua console, `lua/lua.c` | `gLoad` (line, line_position, done), incomplete chunk, two one-shot timers | readline, dojob | UART ring, `uart.on`, RUN of the file server (all share `gLoad`) |
| uart module, `modules/uart.c` | `run_input`, `need_len`, `end_char`, callback reference | uart.on, data callback | console reader |
| UART driver, `driver/uart.c`, `driver/readline.c` | receive ring | interrupt handler, uart_getc | console reader |
| File server, `modules/file_server.c` | client slot, packet buffer, parser state, global `file_fd` | connected, data received, disconnected, reconnect, start, stop | espconn, file system, console |
| espconn, `lwip/app/espconn*.c` | list of connections, listening espconn | accept, receive, close, err, poll, end of connection; connect and its timers | callbacks of file server, net, mqtt |
| Upload tool, `LuaNode/tools/*.py` | queue of packets, state of each | send, receive confirmation | file server over TCP |
| net module, `modules/net.c` | `socket[]`, `socket_num`, the server's function, of each socket: espconn, reference to itself, functions | connected, on, dns, send, close, disconnected, `__gc`, createServer, listen | espconn, registry, garbage collector |
| mqtt module, `modules/mqtt.c`, `mqtt/mqtt_msg.c` | connection state, the one pending message, `send_timeout`, `keep_alive_tick`, message id | connect with DNS, publish, subscribe, close, receive handler, one-second timer, `__gc` | espconn, a broker, callbacks that call the client again |
| tmr module, `modules/tmr.c` | alarms and their functions, `cur_count`, `rtc_us` | alarm, stop, expiry, clock update | registry, RTC |
| Lua registry, `lua/lauxlib.c` | slots and a free list threaded through them | luaL_ref, luaL_unref | all modules that keep Lua functions |
| dht, gpio, i2c, node, file, wifi ... | none of their own, or the SDK's | — | hardware, SDK |
| lwIP core, SPIFFS, axTLS, Lua core, json, libc | vendored | — | — |

What makes the parts correct:

* Ticker: no letter is drawn past a row of three letters or more; the end of the text, recognised by equality
  only, is never stepped over; every column is shown before the callback; frames
  move by one column, also at the wrap-around; an armed timer has its objects.
* Clock: the text never mixes two values, fits its buffer, and each value gets on
  the strip; a node is lost in two known ways only.
* Console: dojob gets the line that was ended; it never goes deaf; a finished line
  is executed; a command from the network does not destroy typed keys.
* File server: commands are executed in order whatever the segmentation; the client
  slot is given back whatever way a connection ends; nothing of a client is left
  for the next one; the parser ends.
* UART ring: a queue that loses its oldest character, although the test for an empty
  ring is not protected from the interrupt.
* net: each socket is reached by its own connection until its end, the two copies of
  its reference stay equal, and references are neither lost nor given back twice.
* mqtt: nothing the stack or a timer may still call is freed; "acknowledged" means
  received; messages come in order; "sending in process" ends.
* tmr: a timer calls the function it was given last; the clock loses no tick when the
  counter wraps.

`PROJECT.json` lists under "hazards" the places in the code where these could go
wrong in a way a test would hardly reach.

## 2. Modules

| Module | Models | Built on |
|---|---|---|
| `LpdTicker` | ticker and strip | — |
| `ClockDisplay` | init.lua, user_script.lua, K30.lua | `LpdTicker` (composition: the script is the ticker's callback) |
| `LuaTerminal` | readline, dojob, uart.on, RUN | — |
| `LossyQueue` | abstract: a queue that loses its oldest element | — |
| `UartRing` | interrupt handler, ring, uart_getc | implements `LossyQueue` |
| `EspconnServer` | accepted and listening connections of espconn | — |
| `EspconnClient` | connections the node opens | — |
| `FileServer` | file server | `EspconnServer` |
| `Upload` | abstract: what an upload promises | — |
| `FileTransfer` | the upload tool against the server | `FileServer`; implements `Upload` |
| `LuaRegistry` | luaL_ref, luaL_unref | — |
| `NetServer` | TCP server of net.c and its sockets | `EspconnServer`, `LuaRegistry` |
| `MqttClient` | one client of mqtt.c, and a broker | `EspconnClient` |
| `RtcClock` | rtc_timer_update_cb | — |
| `Tmr` | alarms of tmr.c | `LuaRegistry`, `RtcClock` |
| `LpdTickerProofs` | theorems about ticker and clock | `ClockDisplay` |
| `TmrProofs` | theorems about timers and clock counter | `Tmr`, `LuaRegistryProofs` |
| `LuaTerminalProofs`, `UartRingProofs`, `MqttClientProofs` | theorems about the module of that name | |
| `FileServerProofs` | theorems about `FileServer` and about `FileTransfer`, with `Upload` | |
| `LuaRegistryProofs` | lemmas about references and their holders | `LuaRegistry` |
| `NetServerProofs` | theorems about `NetServer` | `LuaRegistryProofs` |
| `MC...` | the constants of the runs | the module of that name |

### LpdTicker

One action per Lua function and one for the timer handler, except where the handler
calls the Lua callback: `ScrollFinish` is the part before `lua_call`, `ScrollEnd`
the `++m_Position` after it, and between them the callback's calls are ordinary
actions with `phase = "finish"`.  `used` and `length` keep the source's unit, bytes
of a row (three per column, twelve per letter), and the test for room is the
unsigned subtraction of the source modulo `UIntSpan`.  The six rows of the output
buffer hold the same columns, so `buffer` is one cell per column: which column of
which glyph is drawn there.  Colours are left out; brightness is kept as the level
of a frame.  The garbage collector may run `__gc` whenever Lua runs, also inside
the callback.  `seen` and `steady` are history variables.  `TickerAddText(s, k, memory)`
writes the loop as its result: k is the number of letters that were drawn, before the
row was full or an element was not a number.

Three phases are ends of the model, since no line of the source says what comes after
them: "panic" (an error raised in the callback meets no `pcall`; `luaD_throw` resets the
Lua stack, `panic()` prints and returns, the exit is commented out, and the call goes
on with `L->ci` below its array), "overrun" (a row was written past its end) and
"wildwrite" (`set_char_mask` of a byte that `ascii_table` has no entry for).  Drawing
such a byte only reads what lies behind the table, `memory`, which is any mask.  A lost
node may be reset (`Reboot`); that it ever is, is nowhere assumed.

### ClockDisplay

Alarm 0 of init.lua is `Retry`, `RunScript` and `FallBack`; `ScrollCallback` is
`scroll_finish`; `Measurement` is K30.lua's data callback.  `IpInTime` and `Garbled`
choose the environment: whether an access point answers before the retries are used
up, and whether a sensor message may fail to parse.

### LuaTerminal

`readline`'s loop is a phase in which only the loop itself and the UART interrupt
take steps; each branch of the loop is an action.  A mode is what `uart.on` leaves
in `run_input`, `need_len`, `end_char` and the callback reference.  The Lua compiler
is the predicate `Incomplete`: a chunk that ends in `Opener` wants more input.
`UartOn` takes the arguments of `uart.on`, wrong ones too: need_len and end_char are
stored before the call raises its error.  Four history variables say what the buffer
should hold: `typed` (what was taken since `line_position` was 0), `entered` (the line as
it was ended), `late` (a byte was taken while that line waited for dojob) and `left` (an
overlong line or a data packet left bytes behind).  `RunCommand` is the RUN case of `fs_data_received`, with the terminator where the
code puts it.  The receive ring is what `UartRing` is shown to be, a queue that loses
its oldest character when it is full.

### UartRing, LossyQueue

The only place with real preemption.  uart_getc is four steps: the load of one
position, the load of the other with the comparison (the compiler may order the two
either way), the read under ETS_INTR_LOCK and the advance; the handler may be taken
between any two except inside the lock, and each round of its loop is a step.  The
refinement mapping reads the queue off the ring, from the reader's place to the writer's.

### EspconnServer, FileServer

espconn copies the listening espconn's fields to a new connection, and a dead
connection's fields back to the listening one before it calls the user's callback
with the latter.  `EspconnServer` keeps the two fields that decide what the callbacks
do, `reverse` and whether callbacks are registered.  `FileServer` adds the client
slot, the parser and the files.  A segment is consumed by one or more runs of
`fs_data_received`; each branch of a run is an action, `pending` is what the next
run gets, and no other handler runs in between.  Bytes are symbols; sizes are parsed
(`Atoi`) and payloads cut at a zero byte (`CString`) as the code does.  `log` is what was
given to `espconn_sent`; whether it gets out is a matter of `FileTransfer`.

Two details of the code that the models do without.  The zero that
`fs_data_received` puts behind a packet of 64 bytes falls into the first byte of
`m_DataLength`, the next field, and is put back before that is used
(`file_server.c:208-209` and `278`).  When `tcp_close` fails, `espconn_server_close` installs its
receive callback again (`espconn_tcp.c:584-586`), but `tcp_close` has set
`TF_RXCLOSED` before it tried (`lwip/core/tcp.c:272-275`), and with that flag lwip
aborts a connection on which data arrives instead of delivering it
(`lwip/core/tcp_in.c:373-378`); the poll callback is left in place and closes again.
So "closing" is a state without data that ends in the usual ways, and the abort is
`ServerErr`.

### FileTransfer, Upload

`Upload` is the view of the user: the node holds no file of that name or the beginning
of a text that was uploaded, "done" is said only when all of it is there, and then the
file stays until the next upload.  `FileTransfer` adds the tool to the server:
`Begin` (queue the commands, connect), `SendCommand` (one at a time, `allow_send`),
`ProcessPacket` (an answer is matched by its text with a command that was sent), and
the ways it ends.  The user may interrupt it and start it again with another text
while the server still holds the old connection.  `PowerLoss` stops the node at any
point; of a file that is open any beginning may be left.  The refinement mapping takes
the file of that name for `stored`; the tool's own `report` and `source` are the
abstract ones.  An answer counts when it is complete: a part of one only waits in the
tool's buffer.  `espconn_sent` may refuse an answer, when a part of the last one is still
to be written, or drop it when lwip has no memory; `silent` says that this happened to
the running tool.  Nothing happens on its connection any more then, until
`espconn_server_poll` closes it (`PollCloses`).

### NetServer, LuaRegistry

`LuaRegistry` is the free list as the code has it: a slot in use cannot be told from
a free one, and a reference given back twice makes a cycle.  `NetServer` keeps of a
socket its espconn, its reference to itself and its functions; `socket[]` holds the
second copy of that reference.  espconn's acceptance limit and `MAX_SOCKET` are
separate constants, since a failed connection leaves espconn's list before it gives
its slot back.  net_server_disconnected is split where it calls Lua (`Ends`,
`EndReturns`); the collector takes a socket as soon as the registry does not hold it.
A script that keeps a socket of its own longer only delays that.

`Socks` are addresses: a collected userdata leaves its address to the next one.  Neither
the collector nor net_delete asks who still points there, and the listening espconn's
reverse pointer is cleared by createServer and the collection of a server object only.
A connection that is refused, or accepted after server:close(), copies that pointer
(`Inherits`).  Where the code goes through a pointer to something that is gone the model
ends (`undefined`): a callback that reaches a collected userdata (`ReachesCollected`), a
disconnection callback that uses its socket or closes the server while the espconn is
freed already (`UsesFreedEspconn`; net_server_disconnected itself writes into that espconn
in every case, `net.c:89`, which has no effect unless the callback's allocations got its
memory), and on() after the end (`OnAfterEnd`).  Where the address has a new owner the
code works on that one, and so does the model.  `own` and `inherited` are history
variables: the userdata each connection was given, and whether any connection ever
inherited an address.  A net.server userdata behind a reverse pointer counts as NULL;
that one can also be collected under an unserved connection is not modelled.

### MqttClient, EspconnClient

A packet is a record of type, id, QoS and a number that tells messages apart.  A
segment carries acknowledgements and one or more packets; `job` is what the receive
loop has still to look at, and the phases "callback", "sent" and "offline" are the
places where Lua runs inside a handler and may call the client again.  The broker
answers what it takes, publishes by itself, closes a connection that does not start
with CONNECT, and may be lost at any point.  `EspconnClient` says what the stack does
with an espconn until its last callback, and which callback that is; a `tcp_connect`
that fails leaves the connection in espconn's list for good ("stuck").

`connect()` may be called at any time.  Three things end the model
(`phase = "undefined"`): `connect()` while the stack uses the client's espconn, which
frees it (`ConnectInUse`); the return of the offline callback after a `connect()` in it,
which frees the new espconn ("renewed", `OfflineReturns`); and a segment of more than
1024 bytes, which overruns `in_buffer` because the check at `mqtt.c:167` can never hold
(`SegmentOverruns`).  What is said about mqtt holds up to there.  close() of a connection
that is not up yet leaves its timer with a pcb that lwip has taken back; that read is not
modelled.

### Tmr, RtcClock

Alarms share the registry with `Others`, which stand for the other modules.  The clock
keeps the counter's width and the fixed-point calibration; `ticks` and `exact` are the
counter and the time without limits, to compare with.

## 3. Runs

| Run | Result | Shows |
|---|---|---|
| ticker | holds | all six ticker properties under every order of calls, callbacks, errors and collections, short rows included (1.5 million states, about a minute) |
| clock | holds | one value at a time, the text always fits, every value that stays is shown; a node is lost through a garbled message or a missing access point only |
| terminal | holds | dojob finds the line as it was ended, with what was taken after it; the console stays alive, lines are executed, RUN respects typed keys and executes its payload |
| file_server_parsing | holds | commands in order for every segmentation, file of the right client, the handler ends |
| file_server_slot | holds | the slot belongs to a live connection, is handed on clean and is given back |
| file_server_stop | violated | callbacks after stop() use what stop() destroyed |
| transfer | holds | tool and server implement `Upload` through failures, repeated runs and power losses; answers are not overwritten; tool and server never wait for each other on an open connection |
| uart_ring | holds | ring, handler and uart_getc implement `LossyQueue`; a ring found not empty stays so |
| mqtt | holds | nothing freed is called; an acknowledged message was received; messages in order; ready in the connect callback (10.9 million states, 2 to 3 minutes) |
| mqtt_busy | holds | a busy client gets ready again or goes offline |
| net | holds | references exact, `socket[]` and userdata agree, each socket belongs to its connection (1.9 million states up to symmetry, 2 minutes) |
| timers | holds | references exact, the function last given is called, the clock is exact up to a microsecond per update |

`TypeOK` of `NetServer`, `MqttClient`, `Tmr` and `UartRing`, `ClockTypeOK` and `TransferTypeOK` hold
on these instances too; no run lists them, since the other properties say more.

The violated property states what a comment of the repository says; `PROJECT.json`
quotes it under "findings".

### What the models show besides

Facts about the code that came up while modelling and have no run of their own:

* Ticker: in a ticker of one or two letters `ticker_clear` writes 30 bytes into rows of
  12 or 24 and the unsigned room wraps: `BufferBound` says that no other ticker is ever
  overrun.  A byte above 126 in a text draws what lies behind `ascii_table`, and
  `set_char_mask` writes there.  `add_letter(97)`,
  documented as the letter "a", takes the string branch and draws "9" (`TableIndex`).
  A ticker collected in its own callback would be incremented after its end; the
  script keeps it in a global.
* Clock: "Restarting in AP mode!" is followed by a panic on the nil address
  (`user_script.lua:37`), and nothing in the source makes a node that panicked restart.
* Console: of a line that is too long the last characters are taken as a line of their
  own, whatever "discard it" (`lua.c:667`) says.  Characters that arrive between the end
  of a line and dojob join that line, ends of line not counting.  If data mode has reset
  `line_position` while a line waits, a RUN throws that line away.  An error in the data
  callback of `uart.on` is a panic.
* File server: RUN stores its terminator one byte late (`file_server.c:265`), so that
  after a data mode an old byte is executed too; a RUN received while the console waits
  for the rest of a chunk is compiled as part of it; a payload is cut at a zero byte and
  confirmed in full (`file_server.c:212`); a second command in one segment waits for
  more bytes (`Continue`).  The tool avoids the last two: it sends text and waits.
* UART ring: it holds `RX_BUFF_SIZE` characters in `RX_BUFF_SIZE + 1` places.  The
  unprotected test can answer "empty" for a full ring, which only delays the reader.
  The buffer has 0x100 bytes (`uart.c:29`), and the write at offset 0x100 (`uart.c:205-213`)
  goes to whatever is linked behind it.  The model gives the ring the places the index
  runs over: that nothing else uses the last one is its assumption.
* mqtt: a keep-alive overwrites the pending message, whose acknowledgement is then not
  reported; `connState` and `keep_alive_tick` survive a connection, so a PINGREQ can
  precede CONNECT on the next one; the answer to a message is forgotten when another
  one follows in the segment or the callback publishes; packets behind one that is not
  PUBLISH are dropped; a subscription made in a callback is sent twice; close() before
  the connection is up is not reported to the script.  `BusyEnds` needs a keep-alive of
  at least `MQTT_SEND_TIMEOUT - 1` seconds.
* net: server:close() leaves the espconn listening, and later connections stay open
  unserved until the peer or the idle timeout ends them (`AcceptUnserved`).  The end of
  a connection that inherited a stale address may release the socket that lives at that
  address now: that one gets the disconnection callback, loses its slot and is collected
  while its connection is up, and its data reaches nobody.  `OwnSocket` says that this is
  the worst of it, and that it takes such an inheritance.

### Bounds

* Ticker: tickers of two, three and four letters (24, 36 and 48 bytes; the blank start
  has 30): the first is overrun, in the others the text of one letter fits exactly or
  nearly, the next does not, so both outcomes of the room test, partial `add_text`s and
  the wrap-around occur.  Two glyphs, one of them the digit a numeric argument turns
  into, and a byte behind the font.  Lengths whose product with 12 wraps (2^32 / 12
  letters) are excluded by `UIntAssumption`: the heap has no such rows.
* Clock: a ticker of seven letters, the smallest in which the longest message
  (blank start and four parts) fits; two CO2 values.
* Console: a line of three characters, a ring of three and four characters of input
  reach the lost character, the overlong line, a line ended before dojob runs and typed on, and backspace at
  position 0; one RUN; data mode up to a character, by number and without a limit, and
  two calls of `uart.on` that fail.
* File server: a buffer of nine bytes is filled by the largest well-formed command
  and by a pair of short ones; sizes have one digit; two connections one after the
  other for parsing, two at the same time and four in all for the slot.
* Transfer: two runs of the tool, on two connections, the second with the same text or
  the other one; chunks of two bytes, one text with two equal chunks, one shorter than
  a chunk.

* UART ring: three characters in four places, a FIFO of four with an interrupt level of
  two: the handler can go round the whole ring between two steps of uart_getc.
* mqtt: two connections one after the other, two messages or subscriptions in all, two
  packets in a segment, one segment on its way, timeouts of one (mqtt) and two
  (mqtt_busy) seconds; message ids do not wrap.
* net: two slots, two connections in espconn's list and a third that has failed or is
  refused, four in all, with two addresses of sockets, so that slots, addresses and registry
  slots are used again while pointers to their last owner exist; one function and one kind of callback, since all four are stored in the same way.
* Timers: two timers, two functions, two other holders, three alarms: the free list gets
  long enough to be used out of order.  The counter wraps at 4 and calibrations are
  5/4 and 7/4.

### Fairness

* Ticker: none, its properties are safety properties.
* Clock: the scroll timer repeats and handlers return (weak fairness of `Scroll`,
  `ScrollCallback`, `EndScroll`).  Nothing is assumed of the access point, of the alarm
  at boot or of a reset after a panic: `ValueIsShown` is about a value that was measured,
  which needs a running script.
* Console: armed timers fire and readline's loop ends.  Strong fairness of `DoJob`:
  the SDK's timer list is ordered by deadline, so a `readline_timer` armed again and
  again cannot overtake the `lua_timer` that waits.
* File server: handlers return; espconn's timers behind a closing or failed
  connection fire (`EndConn`); a crashed node restarts.  Nothing is assumed of clients.
* mqtt: handlers return, and the client's one-second timer fires while it is armed
  (strong fairness of `SocketTimer`: other handlers run in between, and the timer list is
  ordered by deadline).  Nothing is assumed of the broker, the network or the script.
* Transfer: TCP goes on delivering on a connection that stays open (strong fairness of
  `Deliver`, since handlers of other connections come in between); the tool's loop, the
  server's handlers and lwip's poll timer run, and a node without power gets it back.
  Nothing says that the tool ever learns of a connection that is gone: its `select` has
  no timeout and its socket no keep-alive, so a node that vanishes without a trace
  hangs it for ever.  `NoMutualWait` therefore claims an end of the tool or of the
  server's side of the connection.

## 4. Proofs

Every theorem holds for all values of the constants that satisfy the assumptions of
its module (TLC evaluates those on every run) and the hypotheses named here.  The
general shape is the same everywhere: an inductive invariant, one lemma for the initial
states, one per action, and the property as a consequence.

### Ticker and clock: `LpdTickerProofs`

| Theorem | Property |
|---|---|
| TypeCorrect | TypeOK |
| BufferNeverOverrun | BufferBound |
| FinishIsReachable | FinishNotSkipped |
| TimerHasObjects | ArmedHasObjects |
| TextFullyShown | AllShownAtFinish |
| ScrollIsSmooth | SmoothScroll |
| ClockKeepsTicker | the first four again, in the application |
| PanicHasKnownCause | TextNeverPanics |
| StripShowsOneValue | OneValueShown |

The first six need no hypothesis.  None of the properties is inductive alone.  `Inv` adds
to `TypeOK`: `Layout` (a row is a whole number of letters, a text a whole number of
columns, and it ends within the row unless a blank start was written into a row too short
for it: only then is the unsigned room the true room);
`Progress` (`position` is within the text, and 0 while the callback runs, since
`ScrollEnd` increments it afterwards); `Ownership` (an armed timer has a live ticker,
that a reference to the strip, and that a live strip); and `SeenSoFar` (every column
passed since the last finish has been shown).  `ScrollIsSmooth` needs `SteadyFrame`: as
long as the text did not change since the last frame, that frame is the window at
`position - 1`, or at 0 while the callback runs.  The arithmetic of the window (`%` and
`\div` by variables) is in lemmas of its own.

The application's texts are not among the ticker's `Texts`, so the last three are about
`ClockSpec`.  Their hypothesis `TextsFit` says that the letters asked for in
`user_script.lua:35` hold the blank start and the longest message, and the address:
true of the source's 60.  With it `add_text` always takes the whole text, which is why
no error is raised.  `StripShowsOneValue` also assumes `PartsApart`, that the glyphs of
values are different from those of labels and other sensors; otherwise "a part of a
value" has no meaning on the strip.  Its invariants are `OneValueText` (all columns up
to `used` that look like a value are of one value) and `OneValueFrame` (the same of the
frame; it survives a change of the text, since frames are copies).

### Console: `LuaTerminalProofs`

| Theorem | Property |
|---|---|
| TypeCorrect | TypeOK |
| LineIsAsEntered | LineAsEntered |
| ConsoleNeverDeaf | ReaderAlive |
| RunSparesConsole | RunKeepsTypedKeys |
| RunRunsItsPayload | RunExecutesPayload |

`LineAsEntered` speaks of the moments when a line waits; `LineInv` says of every state
that the buffer begins with `typed`, whose length is `line_position` (`Front`), that
behind it there are zeros unless something was left (`Behind`), and that a line that
waits and that nobody touched is the one that was ended (`Kept`).  `RunRunsItsPayload`
needs `Behind` for the byte before RUN's misplaced terminator.  `ReaderAlive` is
inductive alone.  The lemmas are about strlen on the buffer: `StrLenFirstNul`, and
`TextThenNul` for a text with a zero behind it.

### UART ring: `UartRingProofs`

| Theorem | Property |
|---|---|
| NeverReadsEmpty | NonEmptyStays |
| RingIsQueue | IsLossyQueue |

The invariant is the first together with the types.  The handler can only make a ring that is not
empty stay so: storing moves the writer, and when it meets the reader pushes that one
place on (`StoreLeavesSome`, which needs at least two places).  The refinement maps
each round of the handler to `Put` and the advance of uart_getc to `Get`; the lemmas
about `Place` are the arithmetic of the ring.

### File server and upload tool: `FileServerProofs`

| Theorem | Property |
|---|---|
| ServerTypesKept | TypeOK |
| SlotAgrees | SlotMatches |
| SlotIsFresh | FreshSlot |
| FileHasOwner | FileOfClient |
| CommandsInOrder | InOrder |
| AnswersNotOverwritten | AnswerIntact |
| UploadKept | KeepsPromise |

`SlotInv` joins three of the properties with `SlotServed`: the client in the slot has
its callbacks, so its end frees the slot, and only its data is ever handled.  Without
that `FreshSlot` is not inductive: a client without callbacks would leave its bytes.
`ServerInv` adds the types of the parser.

`CommandsInOrder` is the correctness of the parser.  `Synchronised` says that for a
well-formed client in the slot, buffer, segment and unsent bytes, one behind the other,
continue its stream right behind the commands executed, and that what the parser already
knows of the next command (`HeaderKnown`) is so; `AllExecuted` that what was executed and
answered is what the script says.  Each run of `fs_data_received` keeps this
(`HandlerInStep`): the copy moves bytes from the segment to the buffer (`CopyInStep`),
the buffer begins with the next command (`NextCommand`), and its header is parsed as it
was printed from whatever was known before (`ParsedNext`).  The last step needs
`DigitForAssumption`: clients print sizes so that atoi reads them back.

`Stream` and `Atoi` are recursive functions.  What they compute is proved by induction
(`SetInduction`, which takes a set instead of a predicate): that the defining function
exists, and that a prefix of the script encodes to a prefix of the stream.

The last two are about `TransferSpec`, the tool and the server together, with all its
failures.  They use `UploadAssumption`: the commands of an upload are well formed, that
is the text has no zero bytes and each command fits into the buffer (50 bytes of text
and a header of 5 in a buffer of 64; the name of a file is limited too).
`TransferInv` says, besides `OrderInv`:

* `SlotUploads`: of the client in the slot at most one command is on its way, counting
  the bytes in the buffer, in the segment and unsent, and none behind one that failed.
  As long as none failed, the open file holds just the text of the chunks executed
  (`FileHolds`).  It speaks of any client, not only of the running tool: an interrupted
  one leaves its connection, and perhaps a command, behind.
* `ToolState` and `ToolAndServer`: the "?" fields follow from two numbers, what was
  confirmed and what was sent, and the server is behind the tool by at most one command.
  `AnswerIntact` follows on a node with power; it is part of the invariant since nothing
  moves on one without.
* `Finished`: once all commands of the running tool succeeded, or it reported so, no file
  is open and the client in the slot, if any, is that of the tool with nothing on its
  way.  This is why the file stays: no handler can run before the next upload.
* `FileSafe`: the file is a beginning of a text, also after a failed write and after
  power was lost (`BeginningCut`).

`FileAfter` takes the commands of `prepare_file` one by one; that the chunks make up the
text again is `ChunksOf` and `PrefixGrows`.  In the refinement (`PromiseStep`) the end
of the tool is `Finish` or `GiveUp`, and every other step `Store` or nothing.

### net module: `NetServerProofs`, with `LuaRegistryProofs`

| Theorem | Property |
|---|---|
| NetReferences | RegistryExact |
| SocketArray | SlotsExact |
| SocketAndConnection | OwnSocket |
| NetTypesKept | TypeOK |

`LuaRegistryProofs` has no theorem about a specification but the lemmas the others use:
on a registry whose free list is one list (`FreeList`), luaL_ref gives out a slot that
nobody has and changes no other, and luaL_unref of a slot in use keeps the list.
`Balanced` says of any set of holders that each one's reference leads to a value of its
own kind, that no slot has two holders and that none in use is without one; `HolderTakes`,
`HolderGives` and `HolderRenews` that a holder may take, give back or renew its
reference.  `HolderRenews` is the point of dns(): the slot freed last is the one given
out next, so that the copy in `socket[]` stays right.

`NetInv` adds: a socket has a reference to itself exactly as long as it has an espconn
(`SocketLife`); a socket that is kept has its connection, which was given to it and points
back, unless its end is just being reported (`Owned`); a connection that was given a
userdata has it still, or has lost its pointer after somebody inherited one (`Given`); as
long as nobody did, reverse pointers lead to a connection's own userdata and an end is
reported to the one that ends (`Straight`); and `SlotsAgree`, SlotsExact element by
element.  Nothing is said of the listening espconn's pointer, which may lead anywhere:
`EndKeeps` and `EndReturnsInv` show that a socket that is kept has the one connection
that points to it, whatever else does, so that the end that releases it finds it whole.

### mqtt module: `MqttClientProofs`

| Theorem | Property |
|---|---|
| StackKeepsClient | ClientKept |
| CallbackOrder | MessagesInOrder |
| ReportedMeansReceived | AckedMeansReceived |
| ConnectCallbackMayPublish | ReadyOnConnect |

`MqttInv` is types, `Lives` (who keeps whom, up to "undefined", and what each phase of a
handler implies about the connection) and `OnTheWay` (the messages delivered, in the handler, in
segments and at the broker are numbered upwards in this order).  `ReportedMeansReceived`
adds `AcksEarned`: an acknowledgement anywhere on its way with the id of the pending
message is one the broker gave for that message, and a message with that id on its way
out is that message.  Its hypothesis, fewer events than ids (`MaxEvents < IdSpan`), is
needed: `message_id` has 16 bits, and an answer delayed by 65535 messages would meet its
id again.  `ConnectCallbackMayPublish` adds `Opening`: while the CONNACK is awaited and
the script kept quiet, either something was written before the CONNECT and the broker
will not answer, or the CONNECT is the only thing written, and it is on its way, taken,
acknowledged by a segment on its way, or acknowledged, which has cleared the timeout.

### Timers: `TmrProofs`

| Theorem | Property |
|---|---|
| ReferencesExact | RegistryExact |
| RightFunctionCalled | CallsLastGiven |
| TimerTypes | TypeOK |
| ClockExact | RtcExact |

`RefInv` adds to the types that the free list is intact, that a timer's reference leads
to the function it was last given, that no slot has two holders and that none in use is
without one; each part needs the others.  `ClockExact`, for every width of the counter
and every calibration, assumes what `RtcTick` says: an update comes before the counter
has gone round.  `RtcInSync` makes it inductive.

### Only model-checked

* Liveness, which is out of the prover's reach: `ValueIsShown`,
  `LineIsExecuted`, `SlotIsFreed`, `HandlerReturns`, `NoMutualWait`, `BusyEnds`.
* `NoFault` is violated, not proved.

## 5. Not modelled

* Third-party code, most of the repository: lwIP's core, axTLS, SPIFFS, the Lua core,
  json, libc and the SDK's headers.  They have upstreams of their own, and the
  application's correctness rests on a small part of what they do; that part is in the
  models as the environment (`EspconnServer`, `EspconnClient`, `LuaRegistry`, the
  external actions).  Measured against the whole repository the models cover a few
  per cent of the lines; of the source files of the modelled parts, somewhat less than half.
* net: client sockets (also their DNS retries, after five of which nothing is
  reported), UDP, hold and unhold, and the data.  What happens after a use of freed
  memory (section 2, NetServer); server objects behind a reverse pointer.
* mqtt: lwt() and on(), which only store; secure connections; packets cut by TCP; what
  happens after the three uses of freed or foreign memory (section 2, MqttClient).
* Console: node.input, which writes into the same buffer and arms dojob's timer
  (`modules/node.c:247-270`); the `=` in front of a line, which makes it an expression.
* Whatever a node does after a panic, an overrun or a wild write.
* uart.setup and uart.write beyond the reset of the FIFO: hardware registers.
* `LuaNode/tools/transfer.py`: types commands on the console and sleeps.
* dht, gpio, pwm, i2c, spi, 1-wire, ws2812, adc, bit: timed access to hardware or pure
  functions, without state that outlives a call.
* node, file, wifi: thin wrappers around the SDK and the file system; they appear as
  the environment of the modelled parts.
* user_main.c and platform: one linear start-up.

## 6. Plan

Written in this order: the ticker and its proofs, since the display is what the
firmware is for; the clock on top of it; the console and the file server, which share
its line buffer; the upload tool composed with the server against `Upload`; the receive
ring under the console; the network modules mqtt and net, and tmr, on the registry they
share; then the proofs, module by module.  Left:

1. Client sockets of net.c on `EspconnClient`.
