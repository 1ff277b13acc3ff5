--------------------------- MODULE MCLuaTerminal ---------------------------
(* Instances of LuaTerminal for TLC.                                       *)
EXTENDS LuaTerminal

Call(second, n, fn, run0) ==
    [data |-> TRUE, second |-> second, n |-> n, fn |-> fn, run0 |-> run0]

\* Packets up to a character, of two bytes, and of whatever has arrived; the
\* console with a callback; the end of all that; two calls that fail.
MCCalls == {Call("char", 0, TRUE, TRUE), Call("number", 2, TRUE, TRUE), Call("number", 0, TRUE, TRUE),
            Call("none", 0, TRUE, FALSE), Call("none", 0, FALSE, FALSE),
            Call("number", 3, TRUE, TRUE), [Call("char", 0, FALSE, FALSE) EXCEPT !.data = FALSE]}
MCPayloads == {<<"a">>}
=============================================================================
