--------------------------- MODULE MCFileTransfer ---------------------------
(* Instances of FileTransfer for TLC.  One text consists of two equal      *)
(* chunks, the other one is less than a chunk and looks like a separator.  *)
EXTENDS FileTransfer

MCDigits == [d \in {"0", "1", "2", "3", "4", "5", "6", "7", "8", "9"} |->
                CASE d = "0" -> 0 [] d = "1" -> 1 [] d = "2" -> 2 [] d = "3" -> 3 [] d = "4" -> 4
                  [] d = "5" -> 5 [] d = "6" -> 6 [] d = "7" -> 7 [] d = "8" -> 8 [] d = "9" -> 9]
MCDigitFor(n) == <<CHOOSE d \in DOMAIN MCDigits : MCDigits[d] = n>>

MCName == <<"x">>
MCRemove == <<"G">>
MCSources == {<<"x", "x", "x", "x">>, <<"|">>}
=============================================================================
