---------------------------- MODULE ClockDisplay ----------------------------
(***************************************************************************)
(* The clock application: LuaNode/base/init.lua, which waits for an IP     *)
(* address and falls back to access-point mode, then user_script.lua and   *)
(* K30.lua driving the ticker.  The script installs scroll_finish as the   *)
(* ticker's callback and is the only code that touches the ticker; the     *)
(* K-30 sensor's messages arrive through uart.on("data", "]") between two  *)
(* handlers.  Each part of the text ("CO2=", a value, "t=" ...) is one     *)
(* code.                                                                   *)
(***************************************************************************)
EXTENDS LpdTicker

CONSTANTS
    Retries,     \* config.ap_connect_retries
    IpInTime,    \* whether the access point answers before they are used up
    IpText,      \* the end of the IP address shown at start-up
    Label,       \* the parts "CO2=" and "t="/"h="
    StartCo2,    \* the code of K30.lua's first value, 0
    Co2Values,   \* codes of the CO2 values
    DhtValues,   \* codes of the temperature/humidity readings
    Garbled      \* whether a K-30 message may fail to parse as a number

ASSUME ClockAssumption ==
    /\ Retries \in Nat \ {0} /\ IpInTime \in BOOLEAN
    /\ IpText \in Seq(TableCodes) /\ Label \in TableCodes
    /\ Co2Values \subseteq TableCodes /\ StartCo2 \in Co2Values
    /\ DhtValues \subseteq TableCodes
    /\ Garbled \in BOOLEAN

Nil == -1

VARIABLES
    ip,          \* wifi.sta.getip() ~= nil
    wifi,        \* the mode set: "station" or "softap"
    retries,     \* init.lua's global retries
    script,      \* "boot" while alarm 0 of init.lua runs, then "running"
    co2,         \* K30.lua's upvalue co2
    called       \* scroll_finish already ran in this run of ticker_scroll_cb

boot == <<ip, wifi, retries>>
clockVars == <<vars, boot, script, co2, called>>

ClockInit ==
    /\ Init
    /\ ip = FALSE /\ wifi = "station" /\ retries = Retries
    /\ script = "boot" /\ co2 = Nil /\ called = FALSE

----------------------------------------------------------------------------
(* What M.run() leaves: strip and ticker, with the text of the IP address  *)
(* if there is one.                                                        *)
RunSetup(t) ==
    /\ strip' = "live" /\ stripHeld' = TRUE /\ stripRef' = TRUE
    /\ ticker' = "live" /\ held' = TRUE /\ callback' = TRUE /\ armed' = TRUE
    /\ \E n \in Lengths :
         /\ length' = 12 * n
         /\ used' = LetterBytes * Len(t)
         /\ \E m \in Memory :
              buffer' = DrawLetters([i \in 0..4 * n - 1 |-> Blank], 0, t, Len(t), m)
    /\ position' = 0
    /\ frame' = [frame EXCEPT !.cells = Dark]
    /\ seen' = {} /\ steady' = FALSE
    /\ UNCHANGED looks

(* The station gets its address. *)
GotIp ==
    /\ wifi = "station" /\ ~ip
    /\ ip' = TRUE
    /\ UNCHANGED <<vars, wifi, retries, script, co2, called>>

Alarm == script = "boot" /\ phase = "idle"

(* Alarm 0 finds an address: it stops itself, starts the file server and   *)
(* runs the user script to its end, K30 and DHT sensors included.          *)
RunScript ==
    /\ Alarm /\ ip
    /\ script' = "running"
    /\ RunSetup(IpText)
    /\ co2' = StartCo2
    /\ UNCHANGED <<boot, phase, called>>

(* Alarm 0 finds none: one retry less. *)
Retry ==
    /\ Alarm /\ ~ip /\ retries > 1
    /\ retries' = retries - 1
    /\ UNCHANGED <<vars, ip, wifi, script, co2, called>>

(* The last retry: access-point mode, and the user script once more.  Its  *)
(* wifi.sta.getip() is nil, and `ip:sub' raises an error in the alarm's    *)
(* unprotected lua_call.                                                   *)
FallBack ==
    /\ Alarm /\ ~ip /\ retries = 1 /\ ~IpInTime
    /\ retries' = 0 /\ wifi' = "softap"
    /\ script' = "running"
    /\ RunSetup(<<>>)
    /\ phase' = "panic"
    /\ UNCHANGED <<ip, co2, called>>

----------------------------------------------------------------------------
MessageLastPartOnly(reading) ==
    IF reading = Nil THEN <<Label, co2>> ELSE <<Label, reading>>

(* The text scroll_finish composes; the DHT read may give nothing. *)
Message(reading) ==
    IF reading = Nil THEN <<Label, co2>> ELSE <<Label, co2, Label, reading>>

AppendMessage(reading) ==
    \E m \in Memory, k \in 0..Len(Message(reading)) : TickerAddText(Message(reading), k, m)

ShowMessage(reading) ==
    \E m \in Memory, k \in 0..Len(Message(reading)) : TickerSetText(Message(reading), k, m)

(* scroll_finish: set_text followed by add_texts fills the buffer as one   *)
(* set_text of the whole message would.  A nil co2 cannot be concatenated: *)
(* the error is raised inside the scroll handler's unprotected lua_call.   *)
ScrollCallback ==
    /\ phase = "finish" /\ callback /\ ~called
    /\ called' = TRUE
    /\ IF co2 = Nil
       THEN /\ phase' = "panic"
            /\ UNCHANGED <<strips, object, armed, text, looks, frame, ghosts>>
       ELSE \E reading \in DhtValues \union {Nil} : ShowMessage(reading)
    /\ UNCHANGED <<boot, script, co2>>

(* K30.lua's data callback: tonumber of what stands between "[" and "]". *)
Measurement(v) ==
    /\ script = "running" /\ phase = "idle"
    /\ v \in Co2Values \union (IF Garbled THEN {Nil} ELSE {})
    /\ co2' = v
    /\ UNCHANGED <<vars, boot, script, called>>

Scroll ==
    /\ ScrollTick \/ ScrollFinish
    /\ called' = FALSE
    /\ UNCHANGED <<boot, script, co2>>

EndScroll ==
    /\ called
    /\ ScrollEnd
    /\ UNCHANGED <<boot, script, co2, called>>

(* Reset by a watchdog or by hand: possible, never certain. *)
Restart ==
    /\ Reboot
    /\ ip' = FALSE /\ wifi' = "station" /\ retries' = Retries
    /\ script' = "boot" /\ co2' = Nil /\ called' = FALSE

ClockNext ==
    \/ GotIp
    \/ Retry
    \/ FallBack
    \/ RunScript
    \/ Scroll
    \/ ScrollCallback
    \/ EndScroll
    \/ \E v \in Co2Values \union {Nil} : Measurement(v)
    \/ Restart

(* The repeating timers keep firing and every handler returns. *)
ClockFairness ==
    /\ WF_clockVars(Scroll)
    /\ WF_clockVars(ScrollCallback)
    /\ WF_clockVars(EndScroll)

ClockSpec == ClockInit /\ [][ClockNext]_clockVars /\ ClockFairness

----------------------------------------------------------------------------
ClockTypeOK ==
    /\ TypeOK
    /\ ip \in BOOLEAN /\ wifi \in {"station", "softap"} /\ retries \in 0..Retries
    /\ script \in {"boot", "running"} /\ called \in BOOLEAN
    /\ co2 \in Co2Values \union {Nil}

ValueMasks == {ascii_table[v] : v \in Co2Values}

(* The text on the strip never mixes two CO2 values, whenever measurements *)
(* arrive relative to the scrolling: scroll_finish replaces the text as a  *)
(* whole and the columns past m_Used, which still hold older text, are     *)
(* never shown.                                                            *)
OneValueShown ==
    \A c, d \in 0..NUM_COLS-1 :
        LET x == frame.cells[c][1]
            y == frame.cells[d][1]
        IN x \in ValueMasks /\ y \in ValueMasks => x = y

(* The node is lost for two reasons only: a measurement that does not      *)
(* parse and is still the last one when the text has scrolled through, and *)
(* the missing address in access-point mode.  The script's texts always    *)
(* fit the buffer it asks for: "Ticker buffer is full." is never raised in *)
(* the callback and no row is overrun.                                     *)
TextNeverPanics == Lost => co2 = Nil \/ wifi = "softap"

(* A CO2 value is eventually scrolled over the strip unless a newer one    *)
(* replaces it first: the finish of each pass is reached and refreshes the *)
(* text.                                                                   *)
ValueIsShown ==
    \A v \in Co2Values :
        co2 = v ~> (\E c \in 0..NUM_COLS-1 : frame.cells[c][1] = ascii_table[v]) \/ co2 # v
=============================================================================
