------------------------------ MODULE Recording ------------------------------
(***************************************************************************)
(* What download() promises to its caller, without generators, threads and *)
(* cancellations: a recording begins once its file is open, stores chunk   *)
(* after chunk and counts each only after it was stored; once it is told   *)
(* to end nothing more is counted, at most the one chunk in hand is still  *)
(* stored, and the file, once closed, stays as it is.                      *)
(***************************************************************************)
EXTENDS Naturals

VARIABLES
    phase,   \* of the call: opening, recording, ending, over
    file,    \* none, open, closed
    length,  \* chunks in the file
    counted  \* chunks counted

vars == <<phase, file, length, counted>>

Init ==
    /\ phase = "opening"
    /\ file = "none"
    /\ length = 0
    /\ counted = 0

OpenFile ==
    /\ phase = "opening" /\ file = "none"
    /\ file' = "open"
    /\ UNCHANGED <<phase, length, counted>>

\* Nothing is recorded if the time is up at once.
Begin ==
    /\ phase = "opening" /\ file = "open"
    /\ phase' \in {"recording", "ending"}
    /\ UNCHANGED <<file, length, counted>>

\* The call ends before it began; a file that is already open is closed.
Abandon ==
    /\ phase = "opening"
    /\ phase' = "over"
    /\ file' = IF file = "open" THEN "closed" ELSE file
    /\ UNCHANGED <<length, counted>>

\* One chunk at a time: the last one has been counted before.
Store ==
    /\ phase # "opening" /\ file = "open"
    /\ length = counted
    /\ length' = length + 1
    /\ UNCHANGED <<phase, file, counted>>

Count ==
    /\ phase = "recording"
    /\ length = counted + 1
    /\ counted' = length
    /\ UNCHANGED <<phase, file, length>>

Stop ==
    /\ phase = "recording"
    /\ phase' = "ending"
    /\ UNCHANGED <<file, length, counted>>

\* A cancelled call does not wait for its file to be closed.
Close ==
    /\ phase \in {"ending", "over"}
    /\ file' = "closed"
    /\ UNCHANGED <<phase, length, counted>>

End ==
    /\ phase = "ending"
    /\ phase' = "over"
    /\ UNCHANGED <<file, length, counted>>

Next == OpenFile \/ Begin \/ Abandon \/ Store \/ Count \/ Stop \/ Close \/ End

Spec == Init /\ [][Next]_vars
=============================================================================
