----------------------------- MODULE RtcClock -----------------------------
(***************************************************************************)
(* The time of day of app/modules/tmr.c: rtc_timer_update_cb, every half   *)
(* second, adds what the 32-bit RTC counter has gone on since the last     *)
(* call to rtc_us, times the length of a tick, which the SDK measures anew *)
(* and gives with 12 binary places.                                        *)
(***************************************************************************)
EXTENDS Integers

CONSTANTS
    Wrap,         \* values of the RTC counter (2^32)
    Fraction,     \* one microsecond, as system_rtc_clock_cali_proc scales it (2^12)
    Periods,      \* the tick lengths it may return
    MaxTicks,     \* bound: ticks of the RTC
    MaxUpdates    \* bound: calls of rtc_timer_update_cb

ASSUME RtcAssumption ==
    /\ Wrap \in Nat \ {0} /\ Fraction \in Nat \ {0}
    /\ Periods \subseteq Nat
    /\ MaxTicks \in Nat /\ MaxUpdates \in Nat

VARIABLES
    ticks,        \* the RTC counter without its limit of 32 bits
    cur_count,
    rtc_us,
    counted,      \* history: ticks at the last update
    exact,        \* history: the time up to then, in 1/Fraction microseconds
    updates       \* history: number of updates

rtc == <<ticks, cur_count, rtc_us, counted, exact, updates>>

(* The counter may have any value when the module is loaded. *)
RtcInit ==
    /\ ticks \in 0..Wrap-1
    /\ cur_count = 0 /\ rtc_us = 0
    /\ counted = 0 /\ exact = 0 /\ updates = 0

(* The timer of 500 ms is never late by a whole turn of the counter, which *)
(* is seven hours.                                                         *)
RtcTick ==
    /\ ticks < MaxTicks /\ ticks + 1 < counted + Wrap
    /\ ticks' = ticks + 1
    /\ UNCHANGED <<cur_count, rtc_us, counted, exact, updates>>

Delta(t) == IF t >= cur_count THEN t - cur_count ELSE Wrap + t - cur_count

ShiftsFirst(d, c) == d * (c \div Fraction) + (d \div Fraction) * (c % Fraction)

(* Whole and binary places of the period are multiplied apart. *)
Microseconds(d, c) == d * (c \div Fraction) + (d * (c % Fraction)) \div Fraction

RtcUpdate(c) ==
    /\ updates < MaxUpdates
    /\ cur_count' = ticks % Wrap
    /\ rtc_us' = rtc_us + Microseconds(Delta(ticks % Wrap), c)
    /\ counted' = ticks
    /\ exact' = exact + (ticks - counted) * c
    /\ updates' = updates + 1
    /\ UNCHANGED ticks

RtcNext == RtcTick \/ \E c \in Periods : RtcUpdate(c)

RtcSpec == RtcInit /\ [][RtcNext]_rtc

----------------------------------------------------------------------------
RtcTypeOK ==
    /\ ticks \in Nat /\ cur_count \in 0..Wrap-1 /\ rtc_us \in Nat
    /\ counted \in Nat /\ exact \in Nat /\ updates \in Nat

(* However often the counter wraps and whatever periods are measured, no   *)
(* tick is lost or counted twice, and the time is behind the exact one by  *)
(* less than a microsecond per update, and never ahead of it.              *)
RtcExact ==
    /\ Fraction * rtc_us <= exact
    /\ exact <= Fraction * rtc_us + (Fraction - 1) * updates

(* What makes RtcExact inductive: cur_count is the counter at the last     *)
(* update, less than one turn ago.                                         *)
RtcInSync ==
    /\ cur_count = counted % Wrap
    /\ counted <= ticks /\ ticks < counted + Wrap
=============================================================================
