-------------------------------- MODULE Tmr --------------------------------
(***************************************************************************)
(* app/modules/tmr.c: the alarms, whose Lua functions are kept in the      *)
(* registry that all modules share, and the clock of RtcClock.  Nothing is *)
(* read after a callback returns, so that what a Lua function does is      *)
(* steps of its own, behind the step that calls it.                        *)
(***************************************************************************)
EXTENDS LuaRegistry, RtcClock

CONSTANTS
    Ids,          \* the timers (NUM_TMR of them)
    Funs,         \* Lua functions
    Others,       \* references other modules may have at the same time
    MaxAlarms     \* bound: calls of tmr.alarm

ASSUME TmrAssumption == MaxAlarms \in Nat

VARIABLES
    alarm_timer,         \* "off", "once" or "repeat"
    alarm_timer_cb_ref,
    otherRef,            \* the references of other modules
    alarms,              \* number of calls of tmr.alarm
    given,               \* history: the function last given to each timer, <<>> if none
    called               \* history: the function the last timer called

alarmVars == <<registry, alarm_timer, alarm_timer_cb_ref, otherRef, alarms, given, called>>
vars == <<rtc, alarmVars>>

Init ==
    /\ RtcInit
    /\ registry = EmptyRegistry
    /\ alarm_timer = [i \in Ids |-> "off"]
    /\ alarm_timer_cb_ref = [i \in Ids |-> NOREF]
    /\ otherRef = [o \in Others |-> NOREF]
    /\ alarms = 0
    /\ given = [i \in Ids |-> <<>>] /\ called = <<>>

AlarmKeepsFirst(id, repeat, f) ==
    /\ alarms < MaxAlarms
    /\ alarms' = alarms + 1
    /\ IF alarm_timer_cb_ref[id] = NOREF
       THEN /\ alarm_timer_cb_ref' = [alarm_timer_cb_ref EXCEPT ![id] = NewRef(registry)]
            /\ registry' = Referenced(registry, f)
       ELSE UNCHANGED <<alarm_timer_cb_ref, registry>>
    /\ alarm_timer' = [alarm_timer EXCEPT ![id] = repeat]
    /\ given' = [given EXCEPT ![id] = <<f>>]
    /\ UNCHANGED <<rtc, otherRef, called>>

(* tmr_alarm with a function: the old one is given back first, so that the *)
(* new one finds a free slot and luaL_ref cannot run out of memory.        *)
AlarmWith(id, repeat, f) ==
    /\ alarms < MaxAlarms
    /\ alarms' = alarms + 1
    /\ LET r == Unreferenced(registry, alarm_timer_cb_ref[id])
       IN /\ alarm_timer_cb_ref' = [alarm_timer_cb_ref EXCEPT ![id] = NewRef(r)]
          /\ registry' = Referenced(r, f)
    /\ alarm_timer' = [alarm_timer EXCEPT ![id] = repeat]
    /\ given' = [given EXCEPT ![id] = <<f>>]
    /\ UNCHANGED <<rtc, otherRef, called>>

(* Without one the timer keeps the function it had, if it had one. *)
AlarmAgain(id, repeat) ==
    /\ alarms < MaxAlarms
    /\ alarms' = alarms + 1
    /\ alarm_timer' = [alarm_timer EXCEPT ![id] = repeat]
    /\ UNCHANGED <<rtc, registry, alarm_timer_cb_ref, otherRef, given, called>>

StopReleases(id) ==
    /\ alarm_timer' = [alarm_timer EXCEPT ![id] = "off"]
    /\ registry' = Unreferenced(registry, alarm_timer_cb_ref[id])
    /\ UNCHANGED <<rtc, alarm_timer_cb_ref, otherRef, alarms, given, called>>

(* tmr_stop keeps the function. *)
Stop(id) ==
    /\ alarm_timer' = [alarm_timer EXCEPT ![id] = "off"]
    /\ UNCHANGED <<rtc, registry, alarm_timer_cb_ref, otherRef, alarms, given, called>>

(* The timer expires: alarm_timer_common. *)
Fire(id) ==
    /\ alarm_timer[id] # "off"
    /\ alarm_timer' = [alarm_timer EXCEPT ![id] = IF @ = "once" THEN "off" ELSE @]
    /\ called' = IF alarm_timer_cb_ref[id] = NOREF THEN <<>>
                 ELSE <<Found(registry, alarm_timer_cb_ref[id])[2]>>
    /\ UNCHANGED <<rtc, registry, alarm_timer_cb_ref, otherRef, alarms, given>>

(* Another module takes a reference, or gives it back. *)
OtherRef(o) ==
    /\ IF otherRef[o] = NOREF
       THEN /\ otherRef' = [otherRef EXCEPT ![o] = NewRef(registry)]
            /\ registry' = Referenced(registry, o)
       ELSE /\ otherRef' = [otherRef EXCEPT ![o] = NOREF]
            /\ registry' = Unreferenced(registry, otherRef[o])
    /\ UNCHANGED <<rtc, alarm_timer, alarm_timer_cb_ref, alarms, given, called>>

Clock == RtcNext /\ UNCHANGED alarmVars

Next ==
    \/ \E id \in Ids, repeat \in {"once", "repeat"}, f \in Funs : AlarmWith(id, repeat, f)
    \/ \E id \in Ids, repeat \in {"once", "repeat"} : AlarmAgain(id, repeat)
    \/ \E id \in Ids : Stop(id)
    \/ \E id \in Ids : Fire(id)
    \/ \E o \in Others : OtherRef(o)
    \/ Clock

Spec == Init /\ [][Next]_vars

----------------------------------------------------------------------------
TypeOK ==
    /\ RtcTypeOK
    /\ alarm_timer \in [Ids -> {"off", "once", "repeat"}]
    /\ alarm_timer_cb_ref \in [Ids -> Nat \union {NOREF}]
    /\ otherRef \in [Others -> Nat \union {NOREF}]
    /\ alarms \in Nat
    /\ given \in [Ids -> {<<>>} \union {<<f>> : f \in Funs}]

Held ==
    {<<id, alarm_timer_cb_ref[id]>> : id \in {i \in Ids : alarm_timer_cb_ref[i] # NOREF}}
    \union {<<o, otherRef[o]>> : o \in {p \in Others : otherRef[p] # NOREF}}

(* No two holders share a slot of the registry and no slot is lost, over   *)
(* every sequence of alarms, functions replaced and references given back. *)
RegistryExact == RefsExact(Held)

(* A timer calls the function it was last given, whether it was stopped,   *)
(* armed again without one, or given another in the meantime, and whatever *)
(* slots other timers and modules took and gave back.                      *)
CallsLastGiven == [][\A id \in Ids : Fire(id) => called' = given[id]]_vars
=============================================================================
