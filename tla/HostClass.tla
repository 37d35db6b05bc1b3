----------------------------- MODULE HostClass ------------------------------
(***************************************************************************)
(* What the classifier promises: the class of the host follows from the    *)
(* last run of usable frames of one kind, and from AUX traffic seen since  *)
(* that run was long enough.                                               *)
(***************************************************************************)
EXTENDS Naturals

CONSTANT Confidence   \* CONFIDENCE_THRESHOLD

VARIABLES
    kind,  \* of the last usable frame: "At", "Xt", or "none" before the first
    run,   \* how many of them in a row, up to Confidence
    aux    \* AUX traffic since

vars == <<kind, run, aux>>

Class == IF run < Confidence THEN "none" ELSE IF aux THEN "Ps2" ELSE kind

Init == kind = "none" /\ run = 0 /\ aux = FALSE

Frame(k) ==
    /\ kind' = k
    /\ run' = IF k # kind THEN 1 ELSE IF run < Confidence THEN run + 1 ELSE run
    /\ aux' = (aux /\ k = kind)

AuxTraffic == Class = "At" /\ aux' = TRUE /\ UNCHANGED <<kind, run>>

Next == AuxTraffic \/ \E k \in {"At", "Xt"} : Frame(k)

Spec == Init /\ [][Next]_vars
=============================================================================
