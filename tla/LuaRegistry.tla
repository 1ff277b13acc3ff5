---------------------------- MODULE LuaRegistry ----------------------------
(***************************************************************************)
(* luaL_ref and luaL_unref of app/lua/lauxlib.c on the Lua registry, where *)
(* the modules written in C keep the Lua functions and objects they will   *)
(* need in a callback.  Slot 0 heads a list of free slots, threaded        *)
(* through the slots themselves; nothing tells a free slot from one in     *)
(* use but the care of those who hold references.                          *)
(***************************************************************************)
EXTENDS Integers, Sequences

VARIABLE registry     \* [free |-> slot 0, slots |-> the slots 1, 2, ...]

NOREF == -2           \* LUA_NOREF

(* A slot holds <<"link", next>> while it is free, <<"value", v>> in use. *)
EmptyRegistry == [free |-> 0, slots |-> <<>>]

(* luaL_ref: the reference it returns, and the registry it leaves. *)
NewRef(r) == IF r.free # 0 THEN r.free ELSE Len(r.slots) + 1

Referenced(r, v) ==
    IF r.free # 0
    THEN [free |-> r.slots[r.free][2], slots |-> [r.slots EXCEPT ![r.free] = <<"value", v>>]]
    ELSE [free |-> 0, slots |-> Append(r.slots, <<"value", v>>)]

(* luaL_unref *)
Unreferenced(r, ref) ==
    IF ref >= 0
    THEN [free |-> ref, slots |-> [r.slots EXCEPT ![ref] = <<"link", r.free>>]]
    ELSE r

(* lua_rawgeti: what a callback finds behind a reference, an integer if it *)
(* was given back.                                                         *)
Found(r, ref) == r.slots[ref]

(* The collector may not free what the registry holds. *)
Rooted(r, v) == \E i \in DOMAIN r.slots : r.slots[i] = <<"value", v>>

(* What makes the references right: `held' relates holders, each known by  *)
(* a tag, to the references they have.  No two have the same one, each     *)
(* finds a value behind it, and a slot nobody has a reference to is free.  *)
RefsExact(held) ==
    /\ \A p, q \in held : p[2] = q[2] => p = q
    /\ \A p \in held : p[2] \in DOMAIN registry.slots /\ Found(registry, p[2])[1] = "value"
    /\ \A i \in DOMAIN registry.slots :
          registry.slots[i][1] = "value" => \E p \in held : p[2] = i
=============================================================================
