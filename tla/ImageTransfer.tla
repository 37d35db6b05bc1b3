--------------------------- MODULE ImageTransfer ---------------------------
(***************************************************************************)
(* What the Stage 2 bootstrap promises, without the wire, the packets or   *)
(* the retries: the file PICO1284.EXE grows only by appending after it has *)
(* been created empty, it is executed only when it is the whole Image the  *)
(* Pico holds, and a run that gives up after creating it leaves no file    *)
(* behind, unless DOS refused to delete it (UnlinkMayFail) or the file is  *)
(* the complete Image (it could not be loaded).                            *)
(***************************************************************************)
EXTENDS Integers, Sequences

CONSTANTS Image,         \* the Stage 2 image
          NoFile,        \* the disk without PICO1284.EXE
          UnlinkMayFail  \* whether DOS may refuse to delete the file

VARIABLES disk,      \* the contents of PICO1284.EXE, or NoFile
          started,   \* this run has created the file
          verdict    \* "pending", "executed" or "refused"

vars == <<disk, started, verdict>>

Extends(old, new) == /\ Len(old) <= Len(new)
                     /\ SubSeq(new, 1, Len(old)) = old

Init == disk = NoFile /\ started = FALSE /\ verdict = "pending"

(* The file is created, or truncated when an earlier run left one.         *)
Create ==
    /\ verdict = "pending" /\ ~started
    /\ started' = TRUE
    /\ disk' = <<>>
    /\ UNCHANGED verdict

Grow ==
    /\ verdict = "pending" /\ started
    /\ UNCHANGED <<started, verdict>>
    /\ Extends(disk, disk')

Execute ==
    /\ verdict = "pending" /\ started
    /\ disk = Image
    /\ verdict' = "executed"
    /\ UNCHANGED <<disk, started>>

(* Giving up before the file exists leaves the disk alone; afterwards the  *)
(* file goes, or is the whole Image.                                       *)
GiveUp ==
    /\ verdict = "pending"
    /\ verdict' = "refused"
    /\ UNCHANGED started
    /\ \/ started /\ disk' = NoFile
       \/ (~started \/ disk = Image \/ UnlinkMayFail) /\ UNCHANGED disk

(* The machine is power-cycled and Stage 1 run again; the disk survives.   *)
Rerun ==
    /\ verdict' = "pending"
    /\ started' = FALSE
    /\ UNCHANGED disk

Next == Create \/ Grow \/ Execute \/ GiveUp \/ Rerun

Spec == Init /\ [][Next]_vars
=============================================================================
