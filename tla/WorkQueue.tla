----------------------------- MODULE WorkQueue -----------------------------
(***************************************************************************)
(* What a queue of work promises: every payload that is taken was inserted *)
(* before, and payloads are taken in the order of their insertion, each    *)
(* once, whichever thread takes it.  A payload is the number of its        *)
(* insertion.  Nothing is promised once something was taken from the       *)
(* queue while it was empty (misused).                                     *)
(***************************************************************************)
EXTENDS Naturals, Sequences

VARIABLES inserted,     \* how many payloads were inserted
          taken,        \* the payloads that were taken, in this order
          misused

vars == <<inserted, taken, misused>>

Init == inserted = 0 /\ taken = << >> /\ misused = FALSE

Insert ==
    /\ inserted' = inserted + 1
    /\ UNCHANGED <<taken, misused>>

Take ==
    /\ Len(taken) < inserted
    /\ taken' = Append(taken, Len(taken) + 1)
    /\ UNCHANGED <<inserted, misused>>

Misuse ==
    /\ Len(taken) = inserted \/ misused
    /\ misused'

Next == Insert \/ Take \/ Misuse

Spec == Init /\ [][Next]_vars
=============================================================================
