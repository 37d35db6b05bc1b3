---------------------------- MODULE BootChannels ----------------------------
(***************************************************************************)
(* The keyboard from the start of Stage 0 to the end of Stage 1: Stage 0   *)
(* hands over the IRQ masks and the CCB with DX, the bitmap of channels    *)
(* that are up, and Stage 1 goes by DX when it returns to DOS.             *)
(***************************************************************************)
EXTENDS Stage0Channels

vars == <<i8042Vars, stage0Vars>>

Init == I8042Init /\ Stage0Init

---------------------------------------------------------------------------
(* restore_irq_state_if_masked: IRQ1 if KBD or AUX is up, IRQ12 if AUX is. *)
UnmaskedByStage1 ==
    IF dx_bitmap \cap {"KBD", "AUX"} = {} THEN masked
    ELSE masked \ (IF "AUX" \in dx_bitmap THEN {1, 12} ELSE {1})

(* validate_handoff: the marker and the size are those of Stage 0.         *)
HandoffValid == dx_bitmap # {}

(* start; only a bad hand-off leads to exit_error.                         *)
EnterStage1 ==
    /\ pc = "handoff"
    /\ IF HandoffValid THEN pc' = "stage1" /\ UNCHANGED masked
       ELSE pc' = "exit" /\ masked' = UnmaskedByStage1
    /\ UNCHANGED <<machine, ccb, command, obf, owed, keys, faults, variant, dx_bitmap,
                   savedVars, unlockVars, restore_refused>>

(* Without an LPT there is no pump and no Stage 2; otherwise the download  *)
(* and the EXEC end as they may.                                           *)
RunStage1 ==
    /\ pc = "stage1"
    /\ \/ pc' = "no_stage2"
       \/ "LPT" \in dx_bitmap /\ pc' \in {"exec_failed", "executed"}
    /\ UNCHANGED <<i8042Vars, variant, dx_bitmap, savedVars, unlockVars, restore_refused>>

Final == {"exit", "no_stage2", "exec_failed", "executed"}

Program == Stage0Next \/ EnterStage1 \/ RunStage1
Devices == Answer /\ UNCHANGED stage0Vars
User == pc \notin Final /\ Typed /\ UNCHANGED stage0Vars
Rest == pc \in Final /\ UNCHANGED vars

Next == Program \/ Devices \/ User \/ Rest

Spec == Init /\ [][Next]_vars

(* The program polls with timeouts only, and devices answer in the end.    *)
FairSpec == Spec /\ WF_vars(Program) /\ WF_vars(Devices)

---------------------------------------------------------------------------
TypeOK == I8042TypeOK /\ Stage0TypeOK

(* The machine is as Stage 0 found it.                                     *)
AsFound == masked = bios.masked /\ ccb = bios.ccb /\ command = "none"

(* MasksComeBack: no exit of Stage 0 leaves an IRQ line masked that was    *)
(* not, or the reverse, whatever the i8042 refused on the way.             *)
MasksComeBack == pc = "exit" => masked = bios.masked

(* GivenBack: "every Stage 0 path that can fail must leave the system in a *)
(* typeable state": a Stage 0 that gives up, or hands over the LPT alone,  *)
(* leaves translation, AUX port and IRQ masks as it found them, provided   *)
(* it had read the CCB and the i8042 took what it wrote to restore.        *)
GivenBack ==
    /\ \/ pc = "exit"
       \/ pc = "handoff" /\ dx_bitmap = {"LPT"}
    /\ ~restore_refused /\ ~ccb_misread
    => AsFound

(* HandoffHonest: DX tells Stage 1 the truth.  A channel it lists has a    *)
(* Pico behind it and its line masked and untranslated, so that neither    *)
(* BIOS nor the controller gets at its bytes; with no channel listed the   *)
(* lines are the BIOS's; and Stage 1 accepts the hand-off.                 *)
HandoffHonest ==
    pc = "handoff" =>
        /\ dx_bitmap # {}
        /\ "KBD" \in dx_bitmap => kbd_device = "pico"
        /\ "AUX" \in dx_bitmap => aux_device = "pico" /\ 12 \in masked /\ "AUX_OFF" \notin ccb
        /\ IF dx_bitmap = {"LPT"} THEN masked = bios.masked
           ELSE 1 \in masked /\ "TRANSLATE" \notin ccb

(* Terminates: Stage 0 and Stage 1 come to an end with any device, or      *)
(* none, on the ports.                                                     *)
Terminates == <>(pc \in Final)

(* SecondAttemptWorks: "on failure, wait ~100 ms and retry once.  Some     *)
(* slow Super I/O parts need a settling window": after one answer too slow *)
(* for the first attempt the second one finds the Pico.                    *)
SecondAttemptWorks ==
    /\ attempt = 2 /\ pc \in {"probed", "enable_aux", "choose"}
    /\ kbd_device = "pico" /\ ~ccb_misread
    => "KBD" \in dx_bitmap

(* Typeable: the same sentence of the design without a proviso for what    *)
(* the user types while Stage 0 starts.                                    *)
Typeable == pc = "exit" /\ ~restore_refused => ccb = bios.ccb

(* Stage1Unmasks: "All failure paths print a one-line error, restore IRQ   *)
(* masks if Stage 0 left them masked": a Stage 1 that failed leaves the    *)
(* keyboard's line as BIOS had it.                                         *)
Stage1Unmasks == pc \in {"no_stage2", "exec_failed"} => (1 \in masked => 1 \in bios.masked)
=============================================================================
