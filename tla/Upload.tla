------------------------------- MODULE Upload -------------------------------
(***************************************************************************)
(* What uploading a file promises to the person at the keyboard: whatever  *)
(* happens on the way, the node holds no file of that name or the          *)
(* beginning of one that was to be uploaded; success is reported only when *)
(* the node holds all of it, and from then on the file stays as it is      *)
(* until the next upload.                                                  *)
(***************************************************************************)
EXTENDS Naturals, Sequences

CONSTANTS
    Sources,     \* the texts that may be uploaded
    Absent       \* no file of that name on the node

VARIABLES
    stored,      \* the file on the node
    source,      \* the text of the upload in progress, or of the last one
    report       \* "idle", "running", "done" or "failed"

Beginnings == UNION {{SubSeq(s, 1, n) : n \in 0..Len(s)} : s \in Sources}

Init ==
    /\ stored = Absent
    /\ source \in Sources
    /\ report = "idle"

Begin ==
    /\ report # "running"
    /\ report' = "running"
    /\ source' \in Sources
    /\ UNCHANGED stored

Store ==
    /\ report # "done"
    /\ stored' \in Beginnings \union {Absent}
    /\ UNCHANGED <<source, report>>

Finish ==
    /\ report = "running" /\ stored = source
    /\ report' = "done"
    /\ UNCHANGED <<stored, source>>

GiveUp ==
    /\ report = "running"
    /\ report' = "failed"
    /\ UNCHANGED <<stored, source>>

Next == Begin \/ Store \/ Finish \/ GiveUp

Spec == Init /\ [][Next]_<<stored, source, report>>
=============================================================================
