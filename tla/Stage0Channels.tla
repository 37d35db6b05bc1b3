--------------------------- MODULE Stage0Channels ---------------------------
(***************************************************************************)
(* Stage 0 up to its hand-off: which channels to the Pico are up, and what *)
(* becomes of the keyboard meanwhile.  S0_XT looks at the LPT only; S0_AT  *)
(* and S0_PS2 take the i8042 from BIOS, try to unlock a private channel on *)
(* its ports and give it back unless one came up.                          *)
(***************************************************************************)
EXTENDS I8042

CONSTANTS Variants,  \* the Stage 0 programs considered
          LedBytes,  \* bytes of the keyboard sequence: 10 in the code
          RateBytes  \* bytes of the AUX sequence: 6 in the code

ASSUME Stage0Assumption ==
    /\ Variants \subseteq {"XT", "AT", "PS2"}
    /\ LedBytes \in Nat \ {0} /\ RateBytes \in Nat \ {0}

VARIABLES variant,
          pc,
          dx_bitmap,        \* channels that are up
          pic_mask_orig,    \* pic1_mask_orig and pic2_mask_orig
          ccb_orig,
          ccb_saved,
          ccb_misread,      \* what was saved is not the CCB
          aux_enabled,
          lane,             \* the port being unlocked
          attempt,          \* of its unlock sequence
          acked,            \* answers accepted in this attempt
          restore_refused   \* a wait timed out in restore_i8042_and_pic

savedVars == <<pic_mask_orig, ccb_orig, ccb_saved, ccb_misread, aux_enabled>>
unlockVars == <<lane, attempt, acked>>
stage0Vars == <<variant, pc, dx_bitmap, savedVars, unlockVars, restore_refused>>

Bytes == IF lane = "KBD" THEN LedBytes ELSE RateBytes

Stage0TypeOK ==
    /\ variant \in Variants
    /\ pc \in {"lpt", "mask", "read_ccb", "recv_ccb", "write_ccb", "mastery_failed",
               "send", "recv", "settle", "enable_aux", "probed", "choose",
               "download", "fail", "exit", "handoff", "stage1", "no_stage2",
               "exec_failed", "executed"}
    /\ dx_bitmap \in SUBSET {"LPT", "KBD", "AUX"}
    /\ pic_mask_orig \in SUBSET IrqLines
    /\ ccb_orig \in SUBSET CcbBits
    /\ ccb_saved \in BOOLEAN /\ ccb_misread \in BOOLEAN /\ aux_enabled \in BOOLEAN
    /\ lane \in {"KBD", "AUX"}
    /\ attempt \in 1 .. 2
    /\ acked \in 0 .. Bytes + 2
    /\ restore_refused \in BOOLEAN

Stage0Init ==
    /\ variant \in Variants
    /\ pc = "lpt"
    /\ dx_bitmap = {}
    /\ pic_mask_orig = {} /\ ccb_orig = {}
    /\ ccb_saved = FALSE /\ ccb_misread = FALSE /\ aux_enabled = FALSE
    /\ lane = "KBD" /\ attempt = 1 /\ acked = 0
    /\ restore_refused = FALSE

(* ENABLE_AUX, and the IRQ lines the program masks.                        *)
EnableAux == variant = "PS2"
Lines == IF EnableAux THEN {1, 12} ELSE {1}

---------------------------------------------------------------------------
(* find_pico_lpt over the three candidate ports.                           *)
TryLptChannel ==
    /\ pc = "lpt"
    /\ \E found \in BOOLEAN :
         /\ dx_bitmap' = IF found THEN {"LPT"} ELSE {}
         /\ pc' = IF variant # "XT" THEN "mask" ELSE IF found THEN "download" ELSE "fail"
    /\ UNCHANGED <<i8042Vars, variant, savedVars, unlockVars, restore_refused>>

(* i8042_mastery masks the lines and flushes the output buffer ...         *)
MaskAndFlush ==
    /\ pc = "mask"
    /\ pic_mask_orig' = masked \cap Lines
    /\ masked' = masked \cup Lines
    /\ obf' = <<>>
    /\ pc' = "read_ccb"
    /\ UNCHANGED <<machine, ccb, command, owed, keys, faults, variant, dx_bitmap,
                   ccb_orig, ccb_saved, ccb_misread, aux_enabled, unlockVars, restore_refused>>

(* ... asks for the CCB ...                                                *)
ReadCcb ==
    /\ pc = "read_ccb"
    /\ \/ /\ owed' = Append(owed, [from |-> "CTL", byte |-> "CCB", bits |-> ccb])
          /\ pc' = "recv_ccb"
          /\ UNCHANGED faults
       \/ Fault /\ pc' = "mastery_failed" /\ UNCHANGED owed
    /\ UNCHANGED <<machine, masked, ccb, command, obf, keys, variant, dx_bitmap,
                   savedVars, unlockVars, restore_refused>>

(* ... takes the next byte for it, whoever sent it (the PS/2 program skips *)
(* what came from the other port) ...                                      *)
Mine(port) == EnableAux => (Head(obf).from = "AUX") = (port = "AUX")

RecvCcb ==
    /\ pc = "recv_ccb"
    /\ obf # <<>> /\ Mine("KBD")
    /\ ccb_orig' = Head(obf).bits
    /\ ccb_saved' = TRUE
    /\ ccb_misread' = (Head(obf).byte # "CCB")
    /\ obf' = Tail(obf)
    /\ pc' = "write_ccb"
    /\ UNCHANGED <<machine, masked, ccb, command, owed, keys, faults, variant,
                   dx_bitmap, pic_mask_orig, aux_enabled, unlockVars, restore_refused>>

CcbLate ==
    /\ pc = "recv_ccb"
    /\ obf = <<>>
    /\ Fault
    /\ pc' = "mastery_failed"
    /\ UNCHANGED <<machine, masked, ccb, command, obf, owed, keys, variant,
                   dx_bitmap, savedVars, unlockVars, restore_refused>>

(* i8042_write_ccb of a value: what becomes of the CCB and of a pending    *)
(* command when it is written, when the first wait times out, and when the *)
(* wait between the command and its data byte does.                        *)
Before == [ccb |-> ccb, command |-> command, timeouts |-> 0]
WriteOutcomes(before, value) ==
    {[ccb |-> value, command |-> "none", timeouts |-> before.timeouts],
     [ccb |-> before.ccb, command |-> before.command, timeouts |-> before.timeouts + 1],
     [ccb |-> before.ccb, command |-> "ccb", timeouts |-> before.timeouts + 1]}

(* ... and writes it back with the translation off.                        *)
WriteCcb ==
    /\ pc = "write_ccb"
    /\ \E after \in WriteOutcomes(Before, ccb_orig \ {"TRANSLATE"}) :
         /\ ccb' = after.ccb
         /\ command' = after.command
         /\ Timeouts(after.timeouts)
         /\ pc' = IF after.timeouts > 0 THEN "mastery_failed" ELSE "send"
    /\ UNCHANGED <<machine, masked, obf, owed, keys, variant, dx_bitmap,
                   savedVars, unlockVars, restore_refused>>

---------------------------------------------------------------------------
(* kbd_unlock_private and aux_unlock_private: bytes of a sequence, each    *)
(* acknowledged, then AA 55 from a Pico.  The keyboard sequence gets a     *)
(* second attempt after 100 ms, the AUX sequence does not.                 *)
Device == IF lane = "KBD" THEN kbd_device ELSE aux_device
AfterLane == IF lane = "KBD" /\ EnableAux THEN "enable_aux" ELSE "probed"
AttemptFails_forever ==  \* mutant: every failed attempt is followed by another
    pc' = IF lane = "KBD" THEN "settle" ELSE AfterLane
AttemptFails == pc' = IF lane = "KBD" /\ attempt = 1 THEN "settle" ELSE AfterLane

SendByte ==
    /\ pc = "send"
    /\ \/ /\ owed' = owed \o Answers(lane, Device, acked + 1 = Bytes)
          /\ command' = "none"
          /\ pc' = "recv"
          /\ UNCHANGED faults
       \/ /\ Fault
          /\ AttemptFails
          /\ command' \in IF lane = "AUX" THEN {command, "aux"} ELSE {command}
          /\ UNCHANGED owed
    /\ UNCHANGED <<machine, masked, ccb, obf, keys, variant, dx_bitmap, savedVars,
                   unlockVars, restore_refused>>

Expected == CASE acked < Bytes -> "ACK" [] acked = Bytes -> "AA" [] OTHER -> "55"

RecvByte ==
    /\ pc = "recv"
    /\ obf # <<>> /\ Mine(lane)
    /\ obf' = Tail(obf)
    /\ IF Head(obf).byte # Expected
       THEN AttemptFails /\ UNCHANGED <<acked, dx_bitmap>>
       ELSE /\ acked' = acked + 1
            /\ dx_bitmap' = IF acked' = Bytes + 2 THEN dx_bitmap \cup {lane} ELSE dx_bitmap
            /\ pc' = CASE acked' < Bytes     -> "send"
                       [] acked' = Bytes + 2 -> AfterLane
                       [] OTHER              -> "recv"
    /\ UNCHANGED <<machine, masked, ccb, command, owed, keys, faults, variant,
                   savedVars, lane, attempt, restore_refused>>

DrainOther ==
    /\ pc \in {"recv_ccb", "recv"}
    /\ obf # <<>> /\ ~Mine(IF pc = "recv" THEN lane ELSE "KBD")
    /\ obf' = Tail(obf)
    /\ UNCHANGED <<machine, masked, ccb, command, owed, keys, faults, stage0Vars>>

NoAnswer_endless == FALSE  \* mutant: the poll of port 64h never gives up
NoAnswer == obf = <<>> /\ owed = <<>> /\ UNCHANGED faults

RecvTimesOut ==
    /\ pc = "recv"
    /\ \/ NoAnswer
       \/ obf = <<>> /\ owed # <<>> /\ Fault
    /\ AttemptFails
    /\ UNCHANGED <<machine, masked, ccb, command, obf, owed, keys, variant,
                   dx_bitmap, savedVars, unlockVars, restore_refused>>

(* After delay_100ms; nothing reads what has come meanwhile.               *)
SecondAttempt ==
    /\ pc = "settle"
    /\ attempt' = attempt + 1
    /\ acked' = 0
    /\ pc' = "send"
    /\ UNCHANGED <<i8042Vars, variant, dx_bitmap, savedVars, lane, restore_refused>>

EnableAuxPort ==
    /\ pc = "enable_aux"
    /\ \/ /\ ccb' = ccb \ {"AUX_OFF"}
          /\ command' = "none"
          /\ aux_enabled' = TRUE
          /\ lane' = "AUX"
          /\ acked' = 0
          /\ pc' = "send"
          /\ UNCHANGED faults
       \/ /\ Fault
          /\ pc' = "probed"
          /\ UNCHANGED <<ccb, command, aux_enabled, lane, acked>>
    /\ UNCHANGED <<machine, masked, obf, owed, keys, variant, dx_bitmap,
                   pic_mask_orig, ccb_orig, ccb_saved, ccb_misread, attempt, restore_refused>>

---------------------------------------------------------------------------
(* restore_i8042_and_pic: AUX off again if it was enabled, then the CCB if *)
(* it was saved, then the PICs.  A wait that times out skips its write and *)
(* nothing else, and neither flag survives.                                *)
DisableAux(before) ==
    {[ccb |-> before.ccb \cup {"AUX_OFF"}, command |-> "none", timeouts |-> before.timeouts],
     [ccb |-> before.ccb, command |-> before.command, timeouts |-> before.timeouts + 1]}

RestoreOutcomes_auxLast ==  \* mutant: the AUX port is disabled after the CCB is back
    LET restored == IF ccb_saved THEN WriteOutcomes(Before, ccb_orig) ELSE {Before}
    IN  IF aux_enabled THEN UNION {DisableAux(r) : r \in restored} ELSE restored

RestoreOutcomes ==
    LET auxOff == IF aux_enabled THEN DisableAux(Before) ELSE {Before}
    IN  IF ccb_saved THEN UNION {WriteOutcomes(a, ccb_orig) : a \in auxOff} ELSE auxOff

RestoredMask_allOff == masked \ Lines  \* mutant: unmasks instead of restoring
RestoredMask == (masked \ Lines) \cup pic_mask_orig

RestoreI8042AndPic ==
    /\ \E after \in RestoreOutcomes :
         /\ ccb' = after.ccb
         /\ command' = after.command
         /\ Timeouts(after.timeouts)
         /\ restore_refused' = (restore_refused \/ after.timeouts > 0)
    /\ aux_enabled' = FALSE
    /\ ccb_saved' = FALSE
    /\ masked' = RestoredMask
    /\ UNCHANGED <<machine, obf, owed, keys, variant, dx_bitmap, pic_mask_orig,
                   ccb_orig, ccb_misread, unlockVars>>

MasteryFails ==
    /\ pc = "mastery_failed"
    /\ pc' = "choose"
    /\ RestoreI8042AndPic

(* try_i8042_private: .restore_if_none.                                    *)
NoneUp_kbdOnly == "KBD" \notin dx_bitmap  \* mutant: the AUX bit is not tested
NoneUp == dx_bitmap \cap {"KBD", "AUX"} = {}

RestoreIfNone ==
    /\ pc = "probed"
    /\ pc' = "choose"
    /\ IF NoneUp THEN RestoreI8042AndPic
       ELSE UNCHANGED <<i8042Vars, variant, dx_bitmap, savedVars, unlockVars,
                        restore_refused>>

---------------------------------------------------------------------------
(* choose_download_channel prefers LPT, then KBD, then AUX.                *)
current_channel ==
    IF "LPT" \in dx_bitmap THEN "LPT" ELSE IF "KBD" \in dx_bitmap THEN "KBD" ELSE "AUX"

ChooseDownloadChannel ==
    /\ pc = "choose"
    /\ pc' = IF dx_bitmap = {} THEN "fail" ELSE "download"
    /\ UNCHANGED <<i8042Vars, variant, dx_bitmap, savedVars, unlockVars, restore_refused>>

(* get_stage1_meta to verify_image_checksum, whose outcome is the Pico's.  *)
(* A D4 left without its byte sends GET_META to the AUX port.              *)
DownloadStage1 ==
    /\ pc = "download"
    /\ \/ pc' = "handoff" /\ ~(current_channel = "KBD" /\ command = "aux")
       \/ pc' = "fail"
    /\ UNCHANGED <<i8042Vars, variant, dx_bitmap, savedVars, unlockVars, restore_refused>>

(* exit_error; S0_XT has nothing to restore.                               *)
ExitError ==
    /\ pc = "fail"
    /\ pc' = "exit"
    /\ IF variant = "XT"
       THEN UNCHANGED <<i8042Vars, variant, dx_bitmap, savedVars, unlockVars,
                        restore_refused>>
       ELSE RestoreI8042AndPic

Stage0Next ==
    \/ TryLptChannel \/ MaskAndFlush \/ ReadCcb \/ RecvCcb \/ CcbLate \/ WriteCcb
    \/ MasteryFails \/ SendByte \/ RecvByte \/ DrainOther \/ RecvTimesOut
    \/ SecondAttempt \/ EnableAuxPort \/ RestoreIfNone
    \/ ChooseDownloadChannel \/ DownloadStage1 \/ ExitError
=============================================================================
