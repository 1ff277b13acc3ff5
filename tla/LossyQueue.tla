---------------------------- MODULE LossyQueue ----------------------------
(***************************************************************************)
(* What the receive path of the UART promises the console: a queue of      *)
(* bounded capacity that gives characters back in the order they came and, *)
(* when it is full, loses its oldest one.  A read may find nothing; it     *)
(* never invents, repeats or reorders a character.                         *)
(***************************************************************************)
EXTENDS Integers, Sequences

CONSTANTS
    Chars,     \* the characters on the line
    Capacity   \* how many of them the queue holds

VARIABLES
    queue,     \* the characters waiting, oldest first
    got        \* the result of the last read: <<c>>, or <<>> for none

Init == queue = <<>> /\ got = <<>>

Kept == IF Len(queue) = Capacity THEN Tail(queue) ELSE queue

Put(c) == queue' = Append(Kept, c) /\ UNCHANGED got

Get == queue # <<>> /\ got' = <<Head(queue)>> /\ queue' = Tail(queue)

Miss == got' = <<>> /\ UNCHANGED queue

Next == (\E c \in Chars : Put(c)) \/ Get \/ Miss

Spec == Init /\ [][Next]_<<queue, got>>
=============================================================================
