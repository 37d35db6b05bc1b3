------------------------------- MODULE LptMux -------------------------------
(***************************************************************************)
(* Who owns the hardware of the LPT port: the state machines, the DMA      *)
(* channel and the instruction memory of PIO0, and the pins that steer the *)
(* 74LVC161284, over every switch_to of firmware/src/lpt/mux.rs.  A phy is *)
(* built from what hardware.rs has parked and gives it back 5 ms after it  *)
(* was taken down; in between no phy is active.                            *)
(***************************************************************************)
EXTENDS Integers

Phys  == {"SppNibble", "Byte", "Epp", "Ecp"}
Modes == Phys \cup {"Spp", "EcpDma"}

VARIABLES
    hw,       \* LptHardware, see Hardware below
    active,   \* LptMux::active: a phy, or "None" inside switch_to, or
              \* "Panicked"
    leaving,  \* the phy being dismantled, or the last one
    target,   \* the argument of switch_to
    answer    \* its last result

muxVars == <<hw, active, leaving, target, answer>>

-----------------------------------------------------------------------------
Parts     == {"sm0", "sm1", "sm2", "dma4"}
InstrSlots == 32
PinGroups == {"status", "nack", "busy", "data", "dir"}

\* parked: what no phy holds; used: instruction slots taken; dirSel: who
\* drives DIR; hd: the level of HD; out: pins whose direction is Out;
\* armed: the receive ring's DMA channel runs.
Hardware == [parked : SUBSET Parts, used : 0 .. InstrSlots, dirSel : {"SIO", "PIO0"},
             hd : {0, 1}, out : SUBSET PinGroups, armed : BOOLEAN]

\* LptHardware::new
Parked == [parked |-> Parts, used |-> 0, dirSel |-> "SIO", hd |-> 0,
           out |-> {}, armed |-> FALSE]

\* What each phy's build takes, loads and drives.
Takes(p) == {"sm0", "sm1", "dma4"} \cup (IF p = "Epp" THEN {"sm2"} ELSE {})
CompatInSlots == 3
Slots(p) == CASE p = "SppNibble" -> CompatInSlots + 5
              [] p = "Byte"      -> CompatInSlots + 5
              [] p = "Epp"       -> 14 + 1
              [] p = "Ecp"       -> 5 + 5
FollowerSlots == 1
Drives(p) == CASE p = "SppNibble" -> {"status"}
               [] p = "Byte"      -> {"nack", "data"}
               [] p = "Epp"       -> {"dir"}
               [] p = "Ecp"       -> {"busy", "nack", "data"}
RingFed(p) == p \in {"SppNibble", "Byte"}

\* No `expect' fails and load_program finds room.
CanBuild(p, h) == Takes(p) \subseteq h.parked /\ h.used + Slots(p) <= InstrSlots

\* Pin directions are set, never taken back.
Build(p, h) ==
    [h EXCEPT !.parked = @ \ Takes(p), !.used = @ + Slots(p),
              !.out = @ \cup Drives(p), !.armed = RingFed(p),
              !.dirSel = IF p = "Epp" THEN "PIO0" ELSE @]

\* EppPhy::dismantle stops the follower before it waits; the others first
\* wait for the transmitter.
\* Mutant: DIR stays with PIO0
BeforeDrain_keepsDir(p, h) ==
    IF p = "Epp" THEN [h EXCEPT !.used = @ - FollowerSlots] ELSE h

\* Mutant: the slots are freed here and again after the drain
BeforeDrain_freesAll(p, h) ==
    IF p = "Epp" THEN [h EXCEPT !.used = @ - Slots(p), !.dirSel = "SIO"] ELSE h
BeforeDrain(p, h) ==
    IF p = "Epp" THEN [h EXCEPT !.used = @ - FollowerSlots, !.dirSel = "SIO"] ELSE h

\* Mutant: the follower's state machine is not parked again
AfterDrain_keepsSm2(p, h) ==
    [h EXCEPT !.parked = @ \cup {"sm0", "sm1", "dma4"}, !.armed = FALSE,
              !.used = @ - (IF p = "Epp" THEN Slots(p) - FollowerSlots ELSE Slots(p))]
AfterDrain(p, h) ==
    [h EXCEPT !.parked = @ \cup Takes(p),
              !.used = @ - (IF p = "Epp" THEN Slots(p) - FollowerSlots ELSE Slots(p)),
              !.armed = FALSE]

PhyTarget(t) == IF t \in {"Spp", "EcpDma"} THEN "SppNibble" ELSE t

\* DIR is driven low for every mode; set_data_direction has no caller.
SetTransceiverMode(p, h) == [h EXCEPT !.hd = IF p = "SppNibble" THEN 0 ELSE 1]

-----------------------------------------------------------------------------
MuxInit ==
    /\ hw = Build("SppNibble", Parked)
    /\ active = "SppNibble" /\ leaving = "SppNibble"
    /\ target = "SppNibble" /\ answer = "Ok"

\* switch_to, up to the await of the drain ...
BeginSwitch(t) ==
    /\ active \in Phys
    /\ active' = "None" /\ leaving' = active /\ target' = t
    /\ hw' = BeforeDrain(active, hw)
    /\ UNCHANGED answer

\* ... and from there to its return.
FinishSwitch ==
    /\ active = "None"
    /\ LET p == PhyTarget(target)
           h == SetTransceiverMode(p, AfterDrain(leaving, hw))
       IN IF CanBuild(p, h) THEN active' = p /\ hw' = Build(p, h)
                            ELSE active' = "Panicked" /\ hw' = h
    /\ answer' = IF target \in Phys THEN "Ok" ELSE "ModeMismatch"
    /\ UNCHANGED <<leaving, target>>

MuxNext == (\E t \in Modes : BeginSwitch(t)) \/ FinishSwitch

MuxSpec == MuxInit /\ [][MuxNext]_muxVars

-----------------------------------------------------------------------------
MuxTypeOK ==
    /\ hw \in Hardware
    /\ active \in Phys \cup {"None", "Panicked"}
    /\ leaving \in Phys /\ target \in Modes /\ answer \in {"Ok", "ModeMismatch"}

(* hardware.rs: phys take what they need and dismantle returns it.  After  *)
(* any sequence of switches, with EPP's third state machine or without,    *)
(* the parts and instruction slots that are gone are those of the active   *)
(* phy: no `expect' ever fails, no load_program runs out of memory.        *)
Conserved ==
    /\ active # "Panicked"
    /\ active \in Phys => hw.parked = Parts \ Takes(active) /\ hw.used = Slots(active)

(* pio_dir_follower.rs: DIR belongs to the follower while EPP is active    *)
(* and to the CPU at every other time, inside a switch too; HD is high     *)
(* exactly for the modes that need totem-pole drivers, and the ring is fed *)
(* only while its reader exists.                                           *)
PinsFollowMode ==
    /\ (hw.dirSel = "PIO0") <=> (active = "Epp")
    /\ active \in Phys => (hw.hd = 1 <=> active # "SppNibble")
    /\ active \in Phys => (hw.armed <=> RingFed(active))
=============================================================================
