---------------------------- MODULE MCLpdTicker ----------------------------
(* Instances of LpdTicker for TLC: the letters "9" (57) and "a" (97), a    *)
(* byte behind the table (200), a row shorter than the blank start.        *)
EXTENDS LpdTicker, TLC

MCTexts == {<<97>>, <<57, 200>>, <<97, NotANumber>>}
MCLetterArgs == {<<"str", 200>>, <<"num", 97>>}
MCFont == (57 :> 1) @@ (97 :> 2)
=============================================================================
