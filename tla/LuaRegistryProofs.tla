------------------------- MODULE LuaRegistryProofs -------------------------
(***************************************************************************)
(* What luaL_ref and luaL_unref do to the registry, for every sequence of  *)
(* calls that gives back only what was taken.                              *)
(***************************************************************************)
EXTENDS LuaRegistry, TLAPS

Links(r) == {i \in DOMAIN r.slots : r.slots[i][1] = "link"}
Values(r) == {i \in DOMAIN r.slots : r.slots[i][1] = "value"}

IsRegistry(r, V) ==
    /\ r = [free |-> r.free, slots |-> r.slots]
    /\ r.slots \in Seq(({"value"} \X V) \union ({"link"} \X Nat))
    /\ r.free \in Nat

(* The free slots are one list: it starts at slot 0, a link leads to a     *)
(* free slot or to the end, and no two lead to the same one.  Without the  *)
(* last part a slot in use could come to be linked, and be given out.      *)
FreeList(r) ==
    /\ r.free \in Links(r) \union {0}
    /\ \A i \in Links(r) : r.slots[i][2] \in Links(r) \union {0}
    /\ \A i \in Links(r) : r.slots[i][2] = r.free => r.free = 0
    /\ \A i, j \in Links(r) : r.slots[i][2] = r.slots[j][2] /\ r.slots[i][2] # 0 => i = j

(* luaL_ref gives out a slot that nobody has, stores the value there and   *)
(* leaves all others as they are.                                          *)
LEMMA RefTakesFreeSlot ==
    ASSUME NEW V, NEW r, IsRegistry(r, V), FreeList(r), NEW v \in V
    PROVE  LET s == Referenced(r, v)  n == NewRef(r)
           IN /\ IsRegistry(s, V) /\ FreeList(s)
              /\ n \in Nat \ {0} /\ n \notin Values(r)
              /\ Values(s) = Values(r) \union {n}
              /\ s.slots[n] = <<"value", v>>
              /\ \A i \in Values(r) : s.slots[i] = r.slots[i]
<1> DEFINE S == ({"value"} \X V) \union ({"link"} \X Nat)
           s == Referenced(r, v)
           n == NewRef(r)
<1>1. /\ r.slots \in Seq(S) /\ r.free \in Nat /\ Len(r.slots) \in Nat
      /\ DOMAIN r.slots = 1..Len(r.slots)
      /\ <<"value", v>> \in S
      BY DEF IsRegistry
<1>2. CASE r.free # 0
    <2>1. r.free \in Links(r) /\ r.free \in 1..Len(r.slots) /\ n = r.free
        BY <1>1, <1>2 DEF FreeList, Links, NewRef
    <2>2. /\ s.free = r.slots[r.free][2]
          /\ s.slots = [r.slots EXCEPT ![r.free] = <<"value", v>>]
          /\ s = [free |-> s.free, slots |-> s.slots]
        BY <1>2 DEF Referenced
    <2>3. s.slots \in Seq(S) /\ DOMAIN s.slots = DOMAIN r.slots
        BY <1>1, <2>1, <2>2
    <2>4. /\ \A i \in DOMAIN r.slots : i # n => s.slots[i] = r.slots[i]
          /\ s.slots[n] = <<"value", v>>
        BY <1>1, <2>1, <2>2
    <2>5. Links(s) = Links(r) \ {n} /\ Values(s) = Values(r) \union {n} /\ n \notin Values(r)
        BY <2>1, <2>3, <2>4 DEF Links, Values
    <2>6. s.free \in Nat
        BY <1>1, <2>1, <2>2 DEF FreeList, Links
    <2>7. FreeList(s)
        BY <1>2, <2>1, <2>2, <2>4, <2>5 DEF FreeList, Links
    <2> QED
        BY <1>1, <2>1, <2>2, <2>3, <2>4, <2>5, <2>6, <2>7 DEF IsRegistry, Values
<1>3. CASE r.free = 0
    <2>1. n = Len(r.slots) + 1 /\ n \notin DOMAIN r.slots
        BY <1>1, <1>3 DEF NewRef
    <2>2. s.free = 0 /\ s.slots = Append(r.slots, <<"value", v>>) /\ s = [free |-> s.free, slots |-> s.slots]
        BY <1>3 DEF Referenced, IsRegistry
    <2>3. s.slots \in Seq(S) /\ DOMAIN s.slots = DOMAIN r.slots \union {n}
        BY <1>1, <2>1, <2>2
    <2>4. /\ \A i \in DOMAIN r.slots : s.slots[i] = r.slots[i]
          /\ s.slots[n] = <<"value", v>>
        BY <1>1, <2>1, <2>2
    <2>5. Links(s) = Links(r) /\ Values(s) = Values(r) \union {n} /\ n \notin Values(r)
        BY <2>1, <2>3, <2>4 DEF Links, Values
    <2>6. FreeList(s)
        BY <1>3, <2>2, <2>4, <2>5 DEF FreeList, Links
    <2> QED
        BY <1>1, <2>1, <2>2, <2>3, <2>4, <2>5, <2>6 DEF IsRegistry, Values
<1> QED
    BY <1>2, <1>3

(* luaL_unref of a slot in use frees it and leaves all others as they are. *)
LEMMA UnrefFreesSlot ==
    ASSUME NEW V, NEW r, IsRegistry(r, V), FreeList(r), NEW n \in Values(r)
    PROVE  LET s == Unreferenced(r, n)
           IN /\ IsRegistry(s, V) /\ FreeList(s)
              /\ Values(s) = Values(r) \ {n}
              /\ \A i \in Values(r) \ {n} : s.slots[i] = r.slots[i]
<1> DEFINE S == ({"value"} \X V) \union ({"link"} \X Nat)
           s == Unreferenced(r, n)
<1>1. /\ r.slots \in Seq(S) /\ r.free \in Nat
      /\ DOMAIN r.slots = 1..Len(r.slots) /\ Len(r.slots) \in Nat
      /\ n \in DOMAIN r.slots /\ n \in Nat \ {0}
      BY DEF IsRegistry, Values
<1>2. /\ s.free = n /\ s.slots = [r.slots EXCEPT ![n] = <<"link", r.free>>]
      /\ s = [free |-> s.free, slots |-> s.slots]
    BY <1>1 DEF Unreferenced
<1>3. s.slots \in Seq(S) /\ DOMAIN s.slots = DOMAIN r.slots
    BY <1>1, <1>2
<1>4. /\ \A i \in DOMAIN r.slots : i # n => s.slots[i] = r.slots[i]
      /\ s.slots[n] = <<"link", r.free>>
    BY <1>1, <1>2
<1>5. Links(s) = Links(r) \union {n} /\ Values(s) = Values(r) \ {n} /\ n \notin Links(r)
    BY <1>1, <1>3, <1>4 DEF Links, Values
<1>6. FreeList(s)
    BY <1>1, <1>2, <1>4, <1>5 DEF FreeList, Links
<1> QED
    BY <1>1, <1>2, <1>3, <1>4, <1>5, <1>6 DEF IsRegistry, Values

(* A reference that was never taken may be given back: nothing happens. *)
LEMMA UnrefNothing == \A r : Unreferenced(r, NOREF) = r
BY DEF Unreferenced, NOREF

(* The registry the firmware starts with. *)
LEMMA EmptyIsRegistry ==
    ASSUME NEW V
    PROVE  IsRegistry(EmptyRegistry, V) /\ FreeList(EmptyRegistry) /\ Values(EmptyRegistry) = {}
BY DEF EmptyRegistry, IsRegistry, FreeList, Links, Values

-----------------------------------------------------------------------------
(* Those who keep references, each in a variable of its own: H gives the   *)
(* reference each holder has, W what it may have stored.  No two holders   *)
(* share a slot, each finds one of its own values there, and each slot in  *)
(* use has a holder.                                                       *)
HeldBy(r, H, W) ==
    /\ \A h, k \in DOMAIN H : H[h] = H[k] /\ H[h] # NOREF => h = k
    /\ \A h \in DOMAIN H : H[h] # NOREF => /\ H[h] \in Values(r)
                                           /\ r.slots[H[h]][2] \in W[h]
    /\ \A n \in Values(r) : \E h \in DOMAIN H : H[h] = n

Balanced(r, V, H, W) == IsRegistry(r, V) /\ FreeList(r) /\ HeldBy(r, H, W)

LEMMA NorefNoSlot ==
    ASSUME NEW V, NEW r, IsRegistry(r, V)
    PROVE  NOREF \notin Values(r) /\ Values(r) \subseteq Nat
BY DEF IsRegistry, Values, NOREF

(* A holder without a reference takes one. *)
LEMMA HolderTakes ==
    ASSUME NEW V, NEW r, NEW H, NEW W, Balanced(r, V, H, W),
           NEW h \in DOMAIN H, H[h] = NOREF, NEW v \in V, v \in W[h]
    PROVE  /\ Balanced(Referenced(r, v), V, [H EXCEPT ![h] = NewRef(r)], W)
           /\ NewRef(r) \in Nat /\ NewRef(r) # NOREF /\ NewRef(r) \notin Values(r)
<1> DEFINE s == Referenced(r, v)
           n == NewRef(r)
           G == [H EXCEPT ![h] = n]
<1>1. /\ IsRegistry(s, V) /\ FreeList(s)
      /\ n \in Nat \ {0} /\ n \notin Values(r)
      /\ Values(s) = Values(r) \union {n}
      /\ s.slots[n] = <<"value", v>>
      /\ \A i \in Values(r) : s.slots[i] = r.slots[i]
  BY RefTakesFreeSlot DEF Balanced
<1>2. NOREF \notin Values(r) /\ n # NOREF
  BY <1>1, NorefNoSlot DEF Balanced, NOREF
<1> HIDE DEF s, n
<1>3. DOMAIN G = DOMAIN H /\ \A k \in DOMAIN H : G[k] = IF k = h THEN n ELSE H[k]
  OBVIOUS
<1> HIDE DEF G
<1>4. \A k \in DOMAIN H : k # h /\ G[k] # NOREF => H[k] \in Values(r) /\ G[k] = H[k] /\ G[k] # n
  BY <1>1, <1>3 DEF Balanced, HeldBy
<1>5. HeldBy(s, G, W)
  <2>1. \A i, k \in DOMAIN G : G[i] = G[k] /\ G[i] # NOREF => i = k
    BY <1>3, <1>4 DEF Balanced, HeldBy
  <2>2. \A k \in DOMAIN G : G[k] # NOREF => G[k] \in Values(s) /\ s.slots[G[k]][2] \in W[k]
    <3> SUFFICES ASSUME NEW k \in DOMAIN G, G[k] # NOREF
                 PROVE  G[k] \in Values(s) /\ s.slots[G[k]][2] \in W[k]
      OBVIOUS
    <3>1. CASE k = h
      BY <3>1, <1>1, <1>3
    <3>2. CASE k # h
      BY <3>2, <1>1, <1>3, <1>4 DEF Balanced, HeldBy
    <3> QED
      BY <3>1, <3>2
  <2>3. \A i \in Values(s) : \E k \in DOMAIN G : G[k] = i
    <3> SUFFICES ASSUME NEW i \in Values(s) PROVE \E k \in DOMAIN G : G[k] = i
      OBVIOUS
    <3>1. CASE i = n
      BY <3>1, <1>3
    <3>2. CASE i \in Values(r)
      <4>1. PICK k \in DOMAIN H : H[k] = i
        BY <3>2 DEF Balanced, HeldBy
      <4>2. k # h
        BY <4>1, <3>2, <1>2
      <4> QED
        BY <4>1, <4>2, <1>3
    <3> QED
      BY <3>1, <3>2, <1>1
  <2> QED
    BY <2>1, <2>2, <2>3 DEF HeldBy
<1> QED
  BY <1>1, <1>2, <1>5 DEF Balanced, s, n, G

(* A holder gives its reference back, if it has one. *)
LEMMA HolderGives ==
    ASSUME NEW V, NEW r, NEW H, NEW W, Balanced(r, V, H, W), NEW h \in DOMAIN H
    PROVE  /\ Balanced(Unreferenced(r, H[h]), V, [H EXCEPT ![h] = NOREF], W)
           /\ Values(Unreferenced(r, H[h])) = Values(r) \ {H[h]}
<1> DEFINE s == Unreferenced(r, H[h])
           G == [H EXCEPT ![h] = NOREF]
<1>0. NOREF \notin Values(r)
  BY NorefNoSlot DEF Balanced
<1>1. CASE H[h] = NOREF
  <2>1. s = r
    BY <1>1, UnrefNothing
  <2>2. DOMAIN G = DOMAIN H /\ \A k \in DOMAIN H : G[k] = H[k]
    BY <1>1
  <2> HIDE DEF s, G
  <2> QED
    BY <1>0, <1>1, <2>1, <2>2 DEF Balanced, HeldBy, s, G
<1>2. CASE H[h] # NOREF
  <2>1. H[h] \in Values(r)
    BY <1>2 DEF Balanced, HeldBy
  <2>2. /\ IsRegistry(s, V) /\ FreeList(s)
        /\ Values(s) = Values(r) \ {H[h]}
        /\ \A i \in Values(r) \ {H[h]} : s.slots[i] = r.slots[i]
    BY <2>1, UnrefFreesSlot DEF Balanced
  <2>3. DOMAIN G = DOMAIN H /\ \A k \in DOMAIN H : G[k] = IF k = h THEN NOREF ELSE H[k]
    OBVIOUS
  <2> HIDE DEF s, G
  <2>4. HeldBy(s, G, W)
    <3>1. \A i, k \in DOMAIN G : G[i] = G[k] /\ G[i] # NOREF => i = k
      BY <2>3 DEF Balanced, HeldBy
    <3>2. \A k \in DOMAIN G : G[k] # NOREF => G[k] \in Values(s) /\ s.slots[G[k]][2] \in W[k]
      BY <2>2, <2>3 DEF Balanced, HeldBy
    <3>3. \A i \in Values(s) : \E k \in DOMAIN G : G[k] = i
      <4> SUFFICES ASSUME NEW i \in Values(s) PROVE \E k \in DOMAIN G : G[k] = i
        OBVIOUS
      <4>1. PICK k \in DOMAIN H : H[k] = i
        BY <2>2 DEF Balanced, HeldBy
      <4>2. k # h
        BY <4>1, <2>2
      <4> QED
        BY <4>1, <4>2, <2>3
    <3> QED
      BY <3>1, <3>2, <3>3 DEF HeldBy
  <2> QED
    BY <2>2, <2>4 DEF Balanced, s, G
<1> QED
  BY <1>1, <1>2

(* A holder gives its reference back and takes one for another value: if   *)
(* it had one it gets the same again, from the head of the free list.      *)
LEMMA HolderRenews ==
    ASSUME NEW V, NEW r, NEW H, NEW W, Balanced(r, V, H, W),
           NEW h \in DOMAIN H, NEW v \in V, v \in W[h]
    PROVE  LET s == Unreferenced(r, H[h])
               n == NewRef(s)
           IN /\ Balanced(Referenced(s, v), V, [H EXCEPT ![h] = n], W)
              /\ n \in Nat /\ n # NOREF
              /\ H[h] # NOREF => n = H[h]
              /\ n \notin Values(r) \ {H[h]}
<1> DEFINE s == Unreferenced(r, H[h])
           n == NewRef(s)
           G == [H EXCEPT ![h] = NOREF]
<1>1. Balanced(s, V, G, W) /\ Values(s) = Values(r) \ {H[h]}
  BY HolderGives
<1>2. h \in DOMAIN G /\ G[h] = NOREF /\ [G EXCEPT ![h] = n] = [H EXCEPT ![h] = n]
  OBVIOUS
<1>3. H[h] # NOREF => n = H[h]
  <2> SUFFICES ASSUME H[h] # NOREF PROVE n = H[h]
    OBVIOUS
  <2>1. H[h] \in Values(r)
    BY DEF Balanced, HeldBy
  <2>2. H[h] \in Nat \ {0}
    BY <2>1 DEF Balanced, IsRegistry, Values
  <2> QED
    BY <2>2 DEF NewRef, Unreferenced
<1> HIDE DEF s, G
<1>4. /\ Balanced(Referenced(s, v), V, [G EXCEPT ![h] = NewRef(s)], W)
      /\ NewRef(s) \in Nat /\ NewRef(s) # NOREF /\ NewRef(s) \notin Values(s)
  BY <1>1, <1>2, HolderTakes
<1> QED
  BY <1>1, <1>2, <1>3, <1>4 DEF s
=============================================================================
