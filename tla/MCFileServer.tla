---------------------------- MODULE MCFileServer ----------------------------
(* Instances of FileServer for TLC: one-digit sizes, a buffer of nine bytes*)
(* that the largest well-formed command, and a short pair of them, fill.   *)
EXTENDS FileServer

MCDigits == [d \in {"0", "1", "2", "3", "4", "5", "6", "7", "8", "9"} |->
                CASE d = "0" -> 0 [] d = "1" -> 1 [] d = "2" -> 2 [] d = "3" -> 3 [] d = "4" -> 4
                  [] d = "5" -> 5 [] d = "6" -> 6 [] d = "7" -> 7 [] d = "8" -> 8 [] d = "9" -> 9]
MCDigitFor(n) == <<CHOOSE d \in DOMAIN MCDigits : MCDigits[d] = n>>

Cmd(c, p) == [command |-> c, payload |-> p]

\* A file whose text looks like commands and separators.
Upload == <<Cmd("O", <<"x">>), Cmd("W", <<"|", "1", "|", "W", "|">>), Cmd("C", <<>>)>>
\* A command to execute, and a write without an open file.
RunAndWrite == <<Cmd("G", <<"G", "|">>), Cmd("W", <<"x">>)>>
\* An open without a close; a name that is too long.
LeaveOpen == <<Cmd("O", <<"x">>), Cmd("W", <<"x">>)>>
LongName == <<Cmd("O", <<"x", "x">>)>>
\* Malformed input: an unknown command, a zero byte, a packet too large.
Unknown == <<Cmd("?", <<>>), Cmd("G", <<>>)>>
ZeroByte == <<Cmd("O", <<"x">>), Cmd("W", <<"NUL">>)>>
TooLarge == <<Cmd("G", <<"x", "x", "x", "x", "x", "x">>)>>

MCScripts == {Upload, RunAndWrite, LeaveOpen, LongName, Unknown, ZeroByte, TooLarge}
SlotScripts == {<<Cmd("O", <<"x">>)>>}
OpenClose == {<<Cmd("O", <<"x">>), Cmd("C", <<>>)>>}
=============================================================================
