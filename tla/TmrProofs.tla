----------------------------- MODULE TmrProofs -----------------------------
(***************************************************************************)
(* Theorems about Tmr, for every number of timers, functions and other     *)
(* users of the registry, and about its clock RtcClock, which is exact to  *)
(* less than a microsecond per update for every counter width, scale and   *)
(* sequence of periods.                                                    *)
(***************************************************************************)
EXTENDS Tmr, LuaRegistryProofs

(* Division with remainder, for the operators the code writes as shifts    *)
(* and masks.                                                              *)
LEMMA Division ==
    ASSUME NEW a \in Nat, NEW b \in Nat \ {0}
    PROVE  /\ a \div b \in Nat /\ (a % b) \in Nat
           /\ a = b * (a \div b) + (a % b)
           /\ a % b <= b - 1
BY SMT

LEMMA RoundedDown ==
    ASSUME NEW a \in Nat, NEW b \in Nat \ {0}
    PROVE  /\ a \div b \in Nat
           /\ b * (a \div b) <= a /\ a <= b * (a \div b) + (b - 1)
<1>1. PICK q \in Nat, r \in Nat : a = b * q + r /\ r <= b - 1 /\ q = a \div b
  BY Division
<1>2. b * q \in Nat
  BY <1>1
<1> QED
  BY <1>1, <1>2

(* The two products of rtc_timer_update_cb are together the whole product, *)
(* rounded down once.                                                      *)
LEMMA ProductRounded ==
    ASSUME NEW d \in Nat, NEW c \in Nat
    PROVE  /\ Microseconds(d, c) \in Nat
           /\ Fraction * Microseconds(d, c) <= d * c
           /\ d * c <= Fraction * Microseconds(d, c) + (Fraction - 1)
<1> DEFINE i == c \div Fraction
           f == c % Fraction
           q == (d * f) \div Fraction
<1>1. /\ i \in Nat /\ f \in Nat /\ c = Fraction * i + f
  BY Division, RtcAssumption
<1>2. d * f \in Nat /\ d * i \in Nat
  BY <1>1
<1>3. /\ q \in Nat
      /\ Fraction * q <= d * f /\ d * f <= Fraction * q + (Fraction - 1)
  BY <1>2, RoundedDown, RtcAssumption
<1>4. d * c = Fraction * (d * i) + d * f
  <2> HIDE DEF i, f
  <2> QED
    BY <1>1, RtcAssumption, SMT
<1>5. Fraction * (d * i + q) = Fraction * (d * i) + Fraction * q
  <2> HIDE DEF i, f, q
  <2> QED
    BY <1>2, <1>3, RtcAssumption, SMT
<1>6. Microseconds(d, c) = d * i + q
  BY DEF Microseconds
<1> HIDE DEF i, f, q
<1>7. Fraction * (d * i) \in Nat /\ Fraction * q \in Nat
  BY <1>2, <1>3, RtcAssumption
<1> QED
  BY <1>2, <1>3, <1>4, <1>5, <1>6, <1>7, RtcAssumption

(* Less than a turn after the last update, the difference of two counter   *)
(* values, with the correction for a wrap, is the number of ticks between. *)
LEMMA DeltaCounts ==
    ASSUME RtcTypeOK, RtcInSync
    PROVE  Delta(ticks % Wrap) = ticks - counted
<1> DEFINE qt == ticks \div Wrap
           qc == counted \div Wrap
           rt == ticks % Wrap
           rc == counted % Wrap
<1>1. /\ qt \in Nat /\ rt \in Nat /\ ticks = Wrap * qt + rt /\ rt <= Wrap - 1
      /\ qc \in Nat /\ rc \in Nat /\ counted = Wrap * qc + rc /\ rc <= Wrap - 1
  <2>1. ticks \in Nat /\ counted \in Nat /\ Wrap \in Nat \ {0}
    BY RtcAssumption DEF RtcTypeOK
  <2>2. qt \in Nat /\ rt \in Nat /\ ticks = Wrap * qt + rt /\ rt <= Wrap - 1
    BY <2>1, Division
  <2>3. qc \in Nat /\ rc \in Nat /\ counted = Wrap * qc + rc /\ rc <= Wrap - 1
    BY <2>1, Division
  <2> QED
    BY <2>2, <2>3
<1>2. cur_count = rc /\ counted <= ticks /\ ticks < counted + Wrap
  BY DEF RtcInSync
<1> HIDE DEF qt, qc, rt, rc
<1>3. qt = qc \/ qt = qc + 1
  <2>1. CASE qt <= qc - 1
    <3>1. Wrap * qt <= Wrap * (qc - 1)
      BY <2>1, <1>1, RtcAssumption, SMT
    <3>2. Wrap * (qc - 1) = Wrap * qc - Wrap
      BY <1>1, RtcAssumption, SMT
    <3> QED
      BY <3>1, <3>2, <1>1, <1>2, RtcAssumption, SMT
  <2>2. CASE qt >= qc + 2
    <3>1. Wrap * qt >= Wrap * (qc + 2)
      BY <2>2, <1>1, RtcAssumption, SMT
    <3>2. Wrap * (qc + 2) = Wrap * qc + Wrap + Wrap
      BY <1>1, RtcAssumption, SMT
    <3> QED
      BY <3>1, <3>2, <1>1, <1>2, RtcAssumption, SMT
  <2> QED
    BY <2>1, <2>2, <1>1
<1>4. CASE qt = qc
  <2>1. ticks - counted = rt - rc
    BY <1>4, <1>1, RtcAssumption, SMT
  <2> QED
    BY <2>1, <1>1, <1>2, RtcAssumption, SMT DEF Delta, rt
<1>5. CASE qt = qc + 1
  <2>1. Wrap * qt = Wrap * qc + Wrap
    BY <1>5, <1>1, RtcAssumption, SMT
  <2>2. ticks - counted = Wrap + rt - rc
    BY <2>1, <1>1, RtcAssumption, SMT
  <2>3. rt < rc
    BY <2>2, <1>1, <1>2, RtcAssumption, SMT
  <2> QED
    BY <2>2, <2>3, <1>1, <1>2, RtcAssumption, SMT DEF Delta, rt
<1> QED
  BY <1>3, <1>4, <1>5

RtcInv == RtcTypeOK /\ RtcInSync /\ RtcExact

LEMMA RtcInvInit == RtcInit => RtcInv
<1> SUFFICES ASSUME RtcInit PROVE RtcInv
  OBVIOUS
<1>1. 0 % Wrap = 0
  BY RtcAssumption
<1> QED
  BY <1>1, RtcAssumption DEF RtcInit, RtcInv, RtcTypeOK, RtcInSync, RtcExact

LEMMA RtcInvStep == RtcInv /\ [RtcNext]_rtc => RtcInv'
<1> SUFFICES ASSUME RtcInv, [RtcNext]_rtc PROVE RtcInv'
  OBVIOUS
<1> USE RtcAssumption
<1>1. CASE RtcTick
  BY <1>1 DEF RtcInv, RtcTypeOK, RtcInSync, RtcExact, RtcTick
<1>2. ASSUME NEW c \in Periods, RtcUpdate(c) PROVE RtcInv'
  <2> DEFINE d == ticks - counted
             m == Microseconds(d, c)
  <2>1. c \in Nat /\ d \in Nat
    BY <1>2 DEF RtcInv, RtcTypeOK, RtcInSync
  <2>2. Delta(ticks % Wrap) = d
    BY DeltaCounts DEF RtcInv
  <2>3. m \in Nat /\ Fraction * m <= d * c /\ d * c <= Fraction * m + (Fraction - 1)
    BY <2>1, ProductRounded
  <2>4. /\ rtc_us' = rtc_us + m /\ exact' = exact + d * c /\ updates' = updates + 1
        /\ cur_count' = ticks % Wrap /\ counted' = ticks /\ ticks' = ticks
    BY <1>2, <2>2 DEF RtcUpdate
  <2> HIDE DEF m, d
  <2>5. d * c \in Nat
    BY <2>1
  <2>6. RtcTypeOK'
    <3>1. ticks % Wrap \in 0..Wrap-1
      BY Division DEF RtcInv, RtcTypeOK
    <3> QED
      BY <3>1, <2>3, <2>4, <2>5 DEF RtcInv, RtcTypeOK
  <2>7. RtcInSync'
    BY <2>4 DEF RtcInv, RtcTypeOK, RtcInSync
  <2>8. RtcExact'
    <3>1. Fraction * (rtc_us + m) = Fraction * rtc_us + Fraction * m
      BY <2>3, SMT DEF RtcInv, RtcTypeOK
    <3>2. (Fraction - 1) * (updates + 1) = (Fraction - 1) * updates + (Fraction - 1)
      BY SMT DEF RtcInv, RtcTypeOK
    <3>3. /\ Fraction * rtc_us \in Nat /\ Fraction * m \in Nat
          /\ (Fraction - 1) * updates \in Nat
      BY <2>3, SMT DEF RtcInv, RtcTypeOK
    <3> QED
      BY <3>1, <3>2, <3>3, <2>3, <2>4, <2>5 DEF RtcInv, RtcTypeOK, RtcExact
  <2> QED
    BY <2>6, <2>7, <2>8 DEF RtcInv
<1>3. CASE UNCHANGED rtc
  BY <1>3 DEF rtc, RtcInv, RtcTypeOK, RtcInSync, RtcExact
<1> QED
  BY <1>1, <1>2, <1>3 DEF RtcNext

(* rtc_us never runs ahead of the RTC and falls behind by less than a      *)
(* microsecond per call of rtc_timer_update_cb, however often the 32-bit   *)
(* counter wraps and whatever period each call measures.                   *)
THEOREM ClockExact == RtcSpec => []RtcExact
<1>1. RtcSpec => []RtcInv
  BY RtcInvInit, RtcInvStep, PTL DEF RtcSpec
<1>2. RtcInv => RtcExact
  BY DEF RtcInv
<1> QED
  BY <1>1, <1>2, PTL

-----------------------------------------------------------------------------
RefTypes ==
    /\ alarm_timer \in [Ids -> {"off", "once", "repeat"}]
    /\ alarm_timer_cb_ref \in [Ids -> Nat \union {NOREF}]
    /\ otherRef \in [Others -> Nat \union {NOREF}]
    /\ given \in [Ids -> {<<>>} \union {<<f>> : f \in Funs}]
    /\ alarms \in Nat

RegistryOK == IsRegistry(registry, Funs \union Others) /\ FreeList(registry)

(* A timer that has a reference finds the function it was last given. *)
TimersFind ==
    \A id \in Ids :
        IF alarm_timer_cb_ref[id] = NOREF THEN given[id] = <<>>
        ELSE /\ alarm_timer_cb_ref[id] \in Values(registry)
             /\ \E f \in Funs : given[id] = <<f>> /\ registry.slots[alarm_timer_cb_ref[id]] = <<"value", f>>

OthersFind == \A o \in Others : otherRef[o] # NOREF => otherRef[o] \in Values(registry)

(* No slot has two holders ... *)
NoneShared ==
    /\ \A i, j \in Ids : alarm_timer_cb_ref[i] = alarm_timer_cb_ref[j] /\ alarm_timer_cb_ref[i] # NOREF => i = j
    /\ \A o, p \in Others : otherRef[o] = otherRef[p] /\ otherRef[o] # NOREF => o = p
    /\ \A i \in Ids, o \in Others : alarm_timer_cb_ref[i] = otherRef[o] => otherRef[o] = NOREF

(* ... and none in use is without one. *)
NoneLost ==
    \A n \in Values(registry) : \/ \E i \in Ids : alarm_timer_cb_ref[i] = n
                                \/ \E o \in Others : otherRef[o] = n

RefInv == RefTypes /\ RegistryOK /\ TimersFind /\ OthersFind /\ NoneShared /\ NoneLost

refs == <<registry, alarm_timer_cb_ref, otherRef, given>>

LEMMA RefInvInit == Init => RefInv
<1> SUFFICES ASSUME Init PROVE RefInv
    OBVIOUS
<1>1. RegistryOK /\ Values(registry) = {}
    BY EmptyIsRegistry DEF Init, RegistryOK
<1> QED
    BY <1>1 DEF Init, RefInv, RefTypes, TimersFind, OthersFind, NoneShared, NoneLost, NOREF

(* tmr.alarm with a function: the slot is given back and taken again, or a *)
(* new one is taken.                                                       *)
LEMMA AlarmWithInv ==
    ASSUME RefInv, NEW id \in Ids, NEW repeat \in {"once", "repeat"}, NEW f \in Funs,
           AlarmWith(id, repeat, f)
    PROVE  RefInv'
<1> DEFINE V == Funs \union Others
           old == alarm_timer_cb_ref[id]
           r == Unreferenced(registry, old)
           n == NewRef(r)
<1> USE DEF RefInv
<1>1. /\ alarm_timer_cb_ref' = [alarm_timer_cb_ref EXCEPT ![id] = n]
      /\ registry' = Referenced(r, f)
      /\ given' = [given EXCEPT ![id] = <<f>>]
      /\ alarm_timer' = [alarm_timer EXCEPT ![id] = repeat]
      /\ otherRef' = otherRef /\ alarms' = alarms + 1
    BY DEF AlarmWith
<1>2. /\ IsRegistry(r, V) /\ FreeList(r)
      /\ Values(r) = Values(registry) \ {old}
      /\ \A i \in Values(r) : r.slots[i] = registry.slots[i]
    <2>1. CASE old = NOREF
        <3>1. r = registry
            BY <2>1, UnrefNothing
        <3>2. NOREF \notin Values(registry)
            BY DEF RegistryOK, IsRegistry, Values, NOREF
        <3> QED
            BY <2>1, <3>1, <3>2 DEF RegistryOK
    <2>2. CASE old # NOREF
        <3>1. old \in Values(registry)
            BY <2>2 DEF TimersFind
        <3> HIDE DEF r, old
        <3> QED
            BY <3>1, UnrefFreesSlot DEF RegistryOK, r, V
    <2> QED
        BY <2>1, <2>2
<1> HIDE DEF r
<1>3. f \in V
    OBVIOUS
<1>4. /\ IsRegistry(registry', V) /\ FreeList(registry')
      /\ n \in Nat \ {0} /\ n \notin Values(r)
      /\ Values(registry') = Values(r) \union {n}
      /\ registry'.slots[n] = <<"value", f>>
      /\ \A i \in Values(r) : registry'.slots[i] = r.slots[i]
    BY <1>1, <1>2, <1>3, RefTakesFreeSlot
<1> HIDE DEF n
<1>5. RefTypes'
    BY <1>1, <1>4 DEF RefTypes
<1>6. RegistryOK'
    BY <1>4 DEF RegistryOK, Values
<1>7. n # NOREF
    BY <1>4 DEF NOREF
<1>8. /\ \A i \in Ids : alarm_timer_cb_ref'[i] = IF i = id THEN n ELSE alarm_timer_cb_ref[i]
      /\ \A i \in Ids : given'[i] = IF i = id THEN <<f>> ELSE given[i]
    BY <1>1 DEF RefTypes
<1>9. \A i \in Ids : i # id /\ alarm_timer_cb_ref[i] # NOREF => alarm_timer_cb_ref[i] \in Values(r)
    BY <1>2 DEF TimersFind, NoneShared
<1>10. \A o \in Others : otherRef[o] # NOREF => otherRef[o] \in Values(r)
    BY <1>2 DEF OthersFind, NoneShared
<1>11. TimersFind'
    <2> SUFFICES ASSUME NEW i \in Ids
                 PROVE  IF alarm_timer_cb_ref'[i] = NOREF THEN given'[i] = <<>>
                        ELSE /\ alarm_timer_cb_ref'[i] \in Values(registry')
                             /\ \E g \in Funs : /\ given'[i] = <<g>>
                                                /\ registry'.slots[alarm_timer_cb_ref'[i]] = <<"value", g>>
        BY DEF TimersFind, Values
    <2>1. CASE i = id
        BY <2>1, <1>4, <1>7, <1>8
    <2>2. CASE i # id
        <3>1. alarm_timer_cb_ref'[i] = alarm_timer_cb_ref[i] /\ given'[i] = given[i]
            BY <2>2, <1>8
        <3>2. CASE alarm_timer_cb_ref[i] = NOREF
            BY <3>1, <3>2 DEF TimersFind
        <3>3. CASE alarm_timer_cb_ref[i] # NOREF
            <4>1. alarm_timer_cb_ref[i] \in Values(r)
                BY <2>2, <3>3, <1>9
            <4>2. registry'.slots[alarm_timer_cb_ref[i]] = registry.slots[alarm_timer_cb_ref[i]]
                BY <4>1, <1>2, <1>4
            <4>3. PICK g \in Funs : given[i] = <<g>> /\ registry.slots[alarm_timer_cb_ref[i]] = <<"value", g>>
                BY <3>3 DEF TimersFind
            <4> QED
                BY <3>1, <3>3, <4>1, <4>2, <4>3, <1>4
        <3> QED
            BY <3>2, <3>3
    <2> QED
        BY <2>1, <2>2
<1>12. OthersFind'
    BY <1>1, <1>4, <1>10 DEF OthersFind, Values
<1>13. NoneShared'
    BY <1>1, <1>4, <1>7, <1>8, <1>9, <1>10 DEF NoneShared
<1>14. NoneLost'
    <2> SUFFICES ASSUME NEW m \in Values(registry')
                 PROVE  \/ \E i \in Ids : alarm_timer_cb_ref'[i] = m
                        \/ \E o \in Others : otherRef'[o] = m
        BY DEF NoneLost, Values
    <2>1. CASE m = n
        BY <2>1, <1>8
    <2>2. CASE m \in Values(registry) /\ m # old
        BY <2>2, <1>1, <1>8 DEF NoneLost
    <2> QED
        BY <2>1, <2>2, <1>2, <1>4
<1> QED
    BY <1>5, <1>6, <1>11, <1>12, <1>13, <1>14

(* Another module takes a reference or gives its own back. *)
LEMMA OtherRefInv ==
    ASSUME RefInv, NEW o \in Others, OtherRef(o)
    PROVE  RefInv'
<1> DEFINE V == Funs \union Others
           n == NewRef(registry)
<1> USE DEF RefInv
<1>1. /\ alarm_timer_cb_ref' = alarm_timer_cb_ref /\ given' = given
      /\ alarm_timer' = alarm_timer /\ alarms' = alarms
    BY DEF OtherRef
<1>2. CASE otherRef[o] = NOREF
    <2>1. otherRef' = [otherRef EXCEPT ![o] = n] /\ registry' = Referenced(registry, o)
        BY <1>2 DEF OtherRef
    <2>2. o \in V
        OBVIOUS
    <2>3. /\ IsRegistry(registry', V) /\ FreeList(registry')
          /\ n \in Nat \ {0} /\ n \notin Values(registry)
          /\ Values(registry') = Values(registry) \union {n}
          /\ \A i \in Values(registry) : registry'.slots[i] = registry.slots[i]
        BY <2>1, <2>2, RefTakesFreeSlot DEF RegistryOK
    <2> HIDE DEF n
    <2>4. n # NOREF /\ \A p \in Others : otherRef'[p] = IF p = o THEN n ELSE otherRef[p]
        BY <2>1, <2>3 DEF NOREF, RefTypes
    <2>5. RefTypes' /\ RegistryOK'
        BY <1>1, <2>1, <2>3 DEF RefTypes, RegistryOK, Values
    <2>6. TimersFind'
        BY <1>1, <2>3 DEF TimersFind, Values
    <2>7. OthersFind'
        BY <2>3, <2>4 DEF OthersFind, Values
    <2>8. NoneShared'
        BY <1>1, <2>3, <2>4 DEF NoneShared, TimersFind, OthersFind
    <2>9. NoneLost'
        <3> SUFFICES ASSUME NEW m \in Values(registry')
                     PROVE  \/ \E i \in Ids : alarm_timer_cb_ref[i] = m
                            \/ \E p \in Others : otherRef'[p] = m
            BY <1>1 DEF NoneLost, Values
        <3>1. CASE m = n
            BY <3>1, <2>4
        <3>2. CASE m \in Values(registry)
            <4>1. m # NOREF
                BY <3>2 DEF RegistryOK, IsRegistry, Values, NOREF
            <4> QED
                BY <3>2, <4>1, <1>2, <2>4 DEF NoneLost
        <3> QED
            BY <3>1, <3>2, <2>3
    <2> QED
        BY <2>5, <2>6, <2>7, <2>8, <2>9
<1>3. CASE otherRef[o] # NOREF
    <2> DEFINE old == otherRef[o]
    <2>1. otherRef' = [otherRef EXCEPT ![o] = NOREF] /\ registry' = Unreferenced(registry, old)
        BY <1>3 DEF OtherRef
    <2>2. old \in Values(registry)
        BY <1>3 DEF OthersFind
    <2>3. /\ IsRegistry(registry', V) /\ FreeList(registry')
          /\ Values(registry') = Values(registry) \ {old}
          /\ \A i \in Values(registry) \ {old} : registry'.slots[i] = registry.slots[i]
        BY <2>1, <2>2, UnrefFreesSlot DEF RegistryOK
    <2>4. \A p \in Others : otherRef'[p] = IF p = o THEN NOREF ELSE otherRef[p]
        BY <2>1 DEF RefTypes
    <2>5. RefTypes' /\ RegistryOK'
        BY <1>1, <2>1, <2>3 DEF RefTypes, RegistryOK, Values
    <2>6. \A i \in Ids : alarm_timer_cb_ref[i] # old
        BY <1>3 DEF NoneShared
    <2>7. TimersFind'
        BY <1>1, <2>3, <2>6 DEF TimersFind, Values
    <2>8. OthersFind'
        BY <1>3, <2>3, <2>4 DEF OthersFind, NoneShared, Values
    <2>9. NoneShared'
        BY <1>1, <2>4 DEF NoneShared
    <2>10. NoneLost'
        BY <1>1, <2>3, <2>4 DEF NoneLost, Values
    <2> QED
        BY <2>5, <2>7, <2>8, <2>9, <2>10
<1> QED
    BY <1>2, <1>3

LEMMA RefInvStep == RefInv /\ [Next]_vars => RefInv'
<1> SUFFICES ASSUME RefInv, [Next]_vars PROVE RefInv'
    OBVIOUS
<1>1. ASSUME UNCHANGED refs, RefTypes' PROVE RefInv'
    BY <1>1 DEF refs, RefInv, RegistryOK, TimersFind, OthersFind, NoneShared, NoneLost, Values
<1>2. ASSUME NEW id \in Ids, NEW repeat \in {"once", "repeat"}, NEW f \in Funs,
             AlarmWith(id, repeat, f)
      PROVE  RefInv'
    BY <1>2, AlarmWithInv
<1>3. ASSUME NEW id \in Ids, NEW repeat \in {"once", "repeat"}, AlarmAgain(id, repeat) PROVE RefInv'
    BY <1>1, <1>3 DEF AlarmAgain, RefInv, RefTypes, refs
<1>4. ASSUME NEW id \in Ids, Stop(id) PROVE RefInv'
    BY <1>1, <1>4 DEF Stop, RefInv, RefTypes, refs
<1>5. ASSUME NEW id \in Ids, Fire(id) PROVE RefInv'
    BY <1>1, <1>5 DEF Fire, RefInv, RefTypes, refs
<1>6. ASSUME NEW o \in Others, OtherRef(o) PROVE RefInv'
    BY <1>6, OtherRefInv
<1>7. ASSUME Clock PROVE RefInv'
    BY <1>1, <1>7 DEF Clock, alarmVars, RefInv, RefTypes, refs
<1>8. ASSUME UNCHANGED vars PROVE RefInv'
    BY <1>1, <1>8 DEF vars, alarmVars, RefInv, RefTypes, refs
<1> QED
    BY <1>2, <1>3, <1>4, <1>5, <1>6, <1>7, <1>8 DEF Next

LEMMA RefInvHolds == Spec => []RefInv
BY RefInvInit, RefInvStep, PTL DEF Spec

(* Every timer and every other module has a slot of the registry of its    *)
(* own, with a value in it, and no slot in use is without a holder, after  *)
(* any sequence of tmr.alarm, tmr.stop, expired timers and references of   *)
(* other modules taken and given back.                                     *)
THEOREM ReferencesExact == Spec => []RegistryExact
<1>1. RefInv => RegistryExact
    <2> SUFFICES ASSUME RefInv PROVE RefsExact(Held)
        BY DEF RegistryExact
    <2>1. \A p, q \in Held : p[2] = q[2] => p = q
        BY DEF RefInv, NoneShared, Held
    <2>2. \A p \in Held : p[2] \in Values(registry)
        BY DEF RefInv, TimersFind, OthersFind, Held
    <2>3. \A n \in Values(registry) : n # NOREF
        BY DEF RefInv, RegistryOK, IsRegistry, Values, NOREF
    <2>4. \A n \in Values(registry) : \E p \in Held : p[2] = n
        <3> SUFFICES ASSUME NEW n \in Values(registry) PROVE \E p \in Held : p[2] = n
            OBVIOUS
        <3>1. CASE \E i \in Ids : alarm_timer_cb_ref[i] = n
            <4>1. PICK i \in Ids : alarm_timer_cb_ref[i] = n
                BY <3>1
            <4>2. <<i, n>> \in Held
                BY <4>1, <2>3 DEF Held
            <4> QED
                BY <4>2
        <3>2. CASE \E o \in Others : otherRef[o] = n
            <4>1. PICK o \in Others : otherRef[o] = n
                BY <3>2
            <4>2. <<o, n>> \in Held
                BY <4>1, <2>3 DEF Held
            <4> QED
                BY <4>2
        <3> QED
            BY <3>1, <3>2 DEF RefInv, NoneLost
    <2> QED
        BY <2>1, <2>2, <2>4 DEF RefsExact, Values, Found
<1> QED
    BY RefInvHolds, <1>1, PTL

(* A timer that expires calls the function it was given last, whatever     *)
(* slots of the registry were taken and given back in the meantime.        *)
THEOREM RightFunctionCalled == Spec => CallsLastGiven
<1>1. RefInv /\ [Next]_vars => [\A id \in Ids : Fire(id) => called' = given[id]]_vars
    <2> SUFFICES ASSUME RefInv, NEW id \in Ids, Fire(id) PROVE called' = given[id]
        OBVIOUS
    <2>1. CASE alarm_timer_cb_ref[id] = NOREF
        BY <2>1 DEF Fire, RefInv, TimersFind
    <2>2. CASE alarm_timer_cb_ref[id] # NOREF
        <3>1. PICK f \in Funs : given[id] = <<f>> /\ registry.slots[alarm_timer_cb_ref[id]] = <<"value", f>>
            BY <2>2 DEF RefInv, TimersFind
        <3> QED
            BY <2>2, <3>1 DEF Fire, Found
    <2> QED
        BY <2>1, <2>2
<1> QED
    BY RefInvHolds, <1>1, PTL DEF Spec, CallsLastGiven

(* The clock goes on exactly while timers run and expire. *)
LEMMA ClockSteps == Spec => RtcSpec
<1>1. Init => RtcInit
    BY DEF Init
<1>2. [Next]_vars => [RtcNext]_rtc
    BY DEF Next, vars, Clock, AlarmWith, AlarmAgain, Stop, Fire, OtherRef
<1> QED
    BY <1>1, <1>2, PTL DEF Spec, RtcSpec

(* Types: a reference is a number or LUA_NOREF, a timer is off or armed,   *)
(* and the clock counts in natural numbers.                                *)
THEOREM TimerTypes == Spec => []TypeOK
<1>1. RefInv /\ RtcInv => TypeOK
    BY DEF RefInv, RefTypes, RtcInv, TypeOK
<1>2. Spec => []RtcInv
    BY ClockSteps, RtcInvInit, RtcInvStep, PTL DEF RtcSpec
<1> QED
    BY RefInvHolds, <1>1, <1>2, PTL
=============================================================================
