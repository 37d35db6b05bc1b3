------------------------- MODULE BootChannels_proofs -------------------------
(***************************************************************************)
(* The keyboard comes back from every exit of Stage 0, and DX tells Stage  *)
(* 1 the truth, for every machine, any number of keystrokes and any number *)
(* of timeouts.                                                            *)
(***************************************************************************)
EXTENDS BootChannels, SequenceTheorems, TLAPS

(* Where Stage 0 is: it has not touched the CCB, it is at the ports, or it *)
(* has made up its mind about them.                                        *)
Untouched == pc \in {"lpt", "mask", "read_ccb", "recv_ccb"}
Probing == pc \in {"send", "recv", "settle", "enable_aux", "probed"}
Decided == pc \in {"choose", "download", "fail", "handoff"}
LptOnly == dx_bitmap \subseteq {"LPT"}

(* The masks: what Stage 0 saved restores what BIOS had.                   *)
MaskInv ==
    /\ pc \in {"lpt", "mask"} \/ variant = "XT" => masked = bios.masked
    /\ pc \notin {"lpt", "mask"} /\ variant # "XT" => RestoredMask = bios.masked
    /\ pc = "exit" => masked = bios.masked
    /\ Decided /\ LptOnly => masked = bios.masked

(* The bitmap: empty until something came up, settled before a download.   *)
BitmapInv ==
    /\ Untouched \/ pc \in {"write_ccb", "mastery_failed"} => LptOnly
    /\ variant = "XT" =>
          /\ LptOnly
          /\ pc \in {"lpt", "download", "fail", "handoff", "stage1"} \cup Final
    /\ pc \in {"download", "handoff"} => dx_bitmap # {}

(* The CCB: while it is saved the copy is BIOS's; when it is not, BIOS's   *)
(* is in place, unless it was misread or a restoring write was refused.    *)
CcbInv ==
    /\ ~ccb_misread =>
          /\ ccb_saved => ccb_orig = bios.ccb
          /\ ~ccb_saved /\ ~restore_refused => ccb = bios.ccb /\ command = "none"
    /\ Untouched => ~ccb_saved /\ ~ccb_misread /\ ~restore_refused
    /\ Probing \/ pc = "write_ccb" => ccb_saved
    /\ (Decided /\ LptOnly) \/ pc = "exit" \/ variant = "XT" => ~ccb_saved
    /\ aux_enabled => ccb_saved

(* Bytes at port 60h or under way are what they seem to be.                *)
HonestByte ==
    {b \in OutputByte :
        /\ b.byte = "CCB" => b.bits = bios.ccb
        /\ b.byte \in {"AA", "55"} =>
              \/ b.from = "KBD" /\ kbd_device = "pico"
              \/ b.from = "AUX" /\ aux_device = "pico" /\ EnableAux}
ByteInv == obf \in Seq(HonestByte) /\ owed \in Seq(HonestByte)

(* A channel that is up has a Pico behind it and the port to itself.       *)
LaneInv ==
    /\ lane = "AUX" => EnableAux
    /\ "KBD" \in dx_bitmap => kbd_device = "pico"
    /\ "AUX" \in dx_bitmap => aux_device = "pico" /\ EnableAux
    /\ Probing \/ (Decided /\ ~LptOnly) => Lines \subseteq masked /\ "TRANSLATE" \notin ccb
    /\ Probing => /\ lane = "AUX" => "AUX_OFF" \notin ccb
                  /\ "AUX" \in dx_bitmap => lane = "AUX"
    /\ Decided /\ "AUX" \in dx_bitmap => "AUX_OFF" \notin ccb
    /\ pc \in {"read_ccb", "recv_ccb", "write_ccb"} => Lines \subseteq masked
    /\ Untouched \/ pc = "write_ccb" => lane = "KBD"
    /\ pc = "enable_aux" => EnableAux

---------------------------------------------------------------------------
(* What restore_i8042_and_pic achieves.                                    *)
LEMMA Restored ==
    ASSUME RestoreI8042AndPic, ccb_saved \in BOOLEAN, aux_enabled \in BOOLEAN,
           restore_refused \in BOOLEAN, aux_enabled => ccb_saved
    PROVE  /\ masked' = RestoredMask
           /\ ccb_saved' = FALSE /\ aux_enabled' = FALSE
           /\ ~restore_refused' =>
                 /\ ~restore_refused
                 /\ ccb_saved => ccb' = ccb_orig /\ command' = "none"
                 /\ ~ccb_saved => ccb' = ccb /\ command' = command
           /\ UNCHANGED <<machine, obf, owed, keys, variant, dx_bitmap, pic_mask_orig,
                          ccb_orig, ccb_misread, unlockVars>>
<1>1. PICK after \in RestoreOutcomes :
        /\ ccb' = after.ccb
        /\ command' = after.command
        /\ restore_refused' = (restore_refused \/ after.timeouts > 0)
  BY DEF RestoreI8042AndPic
<1>2. after.timeouts = 0 =>
        /\ ccb_saved => after.ccb = ccb_orig /\ after.command = "none"
        /\ ~ccb_saved => after.ccb = ccb /\ after.command = command
  <2>1. CASE ccb_saved
    <3>1. PICK first \in IF aux_enabled THEN DisableAux(Before) ELSE {Before} :
             after \in WriteOutcomes(first, ccb_orig)
      BY <2>1 DEF RestoreOutcomes
    <3>2. first.timeouts \in Nat
      BY DEF DisableAux, Before
    <3> QED
      BY <2>1, <3>1, <3>2 DEF WriteOutcomes
  <2>2. CASE ~ccb_saved
    BY <2>2 DEF RestoreOutcomes, Before
  <2> QED
    BY <2>1, <2>2
<1>3. after.timeouts \in Nat
  BY DEF RestoreOutcomes, WriteOutcomes, DisableAux, Before
<1>4. ~restore_refused' => ~restore_refused /\ after.timeouts = 0
  <2>1. ~restore_refused' => ~restore_refused /\ ~(after.timeouts > 0)
    BY <1>1, Zenon
  <2> QED
    BY <1>3, <2>1
<1> QED
  BY <1>1, <1>2, <1>4 DEF RestoreI8042AndPic

---------------------------------------------------------------------------
(* Types.  Lengths of sequences are numbers and so on are left to the      *)
(* library.                                                                *)
LEMMA ByteTypes ==
    /\ \A port \in {"KBD", "AUX"} : \A b \in {"SCAN", "ACK", "AA", "55"} :
          FromDevice(port, b) \in OutputByte
    /\ \A bits \in SUBSET CcbBits :
          /\ [from |-> "KBD", byte |-> "SCAN", bits |-> bits] \in OutputByte
          /\ [from |-> "CTL", byte |-> "CCB", bits |-> bits] \in OutputByte
  BY DEF FromDevice, OutputByte

LEMMA AnswerTypes ==
    ASSUME NEW port \in {"KBD", "AUX"}, NEW device, NEW last
    PROVE  Answers(port, device, last) \in Seq(OutputByte)
<1>1. /\ <<>> \in Seq(OutputByte)
      /\ <<FromDevice(port, "ACK")>> \in Seq(OutputByte)
      /\ <<FromDevice(port, "ACK"), FromDevice(port, "AA"), FromDevice(port, "55")>>
            \in Seq(OutputByte)
  BY ByteTypes
<1> QED
  BY <1>1 DEF Answers

LEMMA WriteTypes ==
    ASSUME NEW before \in [ccb : SUBSET CcbBits, command : {"none", "ccb", "aux"},
                           timeouts : Nat],
           NEW value \in SUBSET CcbBits
    PROVE  /\ WriteOutcomes(before, value) \subseteq
                [ccb : SUBSET CcbBits, command : {"none", "ccb", "aux"}, timeouts : Nat]
           /\ DisableAux(before) \subseteq
                [ccb : SUBSET CcbBits, command : {"none", "ccb", "aux"}, timeouts : Nat]
<1>1. before.ccb \cup {"AUX_OFF"} \in SUBSET CcbBits
  BY DEF CcbBits
<1> QED
  BY <1>1 DEF WriteOutcomes, DisableAux

LEMMA RestoreTypes ==
    ASSUME TypeOK
    PROVE  RestoreOutcomes \subseteq
              [ccb : SUBSET CcbBits, command : {"none", "ccb", "aux"}, timeouts : Nat]
<1>1. Before \in [ccb : SUBSET CcbBits, command : {"none", "ccb", "aux"}, timeouts : Nat]
  BY DEF TypeOK, I8042TypeOK, Before
<1>2. ccb_orig \in SUBSET CcbBits
  BY DEF TypeOK, Stage0TypeOK
<1> DEFINE auxOff == IF aux_enabled THEN DisableAux(Before) ELSE {Before}
<1>3. auxOff \subseteq
         [ccb : SUBSET CcbBits, command : {"none", "ccb", "aux"}, timeouts : Nat]
  BY <1>1, <1>2, WriteTypes
<1>4. \A a \in auxOff : WriteOutcomes(a, ccb_orig) \subseteq
         [ccb : SUBSET CcbBits, command : {"none", "ccb", "aux"}, timeouts : Nat]
  BY <1>2, <1>3, WriteTypes
<1> QED
  BY <1>3, <1>4 DEF RestoreOutcomes

LEMMA RestoreKeepsTypes ==
    ASSUME TypeOK, RestoreI8042AndPic,
           pc' \in {"choose", "exit"}
    PROVE  TypeOK'
<1>1. PICK after \in RestoreOutcomes :
        /\ ccb' = after.ccb
        /\ command' = after.command
        /\ Timeouts(after.timeouts)
        /\ restore_refused' = (restore_refused \/ after.timeouts > 0)
  BY DEF RestoreI8042AndPic
<1>2. /\ ccb' \in SUBSET CcbBits
      /\ command' \in {"none", "ccb", "aux"}
      /\ after.timeouts \in Nat
  BY <1>1, RestoreTypes
<1>3. faults' \in 0 .. MaxFaults
  BY <1>1, <1>2, I8042Assumption DEF TypeOK, I8042TypeOK, Timeouts
<1>4. restore_refused' \in BOOLEAN /\ aux_enabled' \in BOOLEAN /\ ccb_saved' \in BOOLEAN
  BY <1>1, Zenon DEF RestoreI8042AndPic
<1>5. masked' \in SUBSET IrqLines
  BY DEF TypeOK, I8042TypeOK, Stage0TypeOK, RestoreI8042AndPic, RestoredMask
<1> QED
  BY <1>2, <1>3, <1>4, <1>5
  DEF TypeOK, I8042TypeOK, Stage0TypeOK, RestoreI8042AndPic, machine, unlockVars, Bytes

(* TypeOK is not inductive by itself: a third attempt or an answer too     *)
(* many must be out of reach where attempts and answers are counted.       *)
Counts ==
    /\ pc \in {"lpt", "mask", "read_ccb", "recv_ccb", "write_ccb"} => acked = 0
    /\ pc = "settle" => attempt = 1
    /\ pc = "send" => acked < Bytes
    /\ pc = "recv" => acked < Bytes + 2

TypeInv == TypeOK /\ Counts

LEMMA TypeInit == Init => TypeInv
<1> SUFFICES ASSUME Init PROVE TypeInv
  OBVIOUS
<1>1. bios.masked \in SUBSET IrqLines /\ bios.ccb \in SUBSET CcbBits
  BY I8042Assumption DEF Init, I8042Init
<1>2. <<>> \in Seq(OutputByte)
  OBVIOUS
<1>3. I8042TypeOK
  BY <1>1, <1>2, I8042Assumption DEF Init, I8042Init, I8042TypeOK
<1>4. /\ ccb_saved \in BOOLEAN /\ ccb_misread \in BOOLEAN
      /\ aux_enabled \in BOOLEAN /\ restore_refused \in BOOLEAN
  BY Zenon DEF Init, Stage0Init
<1> QED
  BY <1>3, <1>4, Stage0Assumption DEF Init, Stage0Init, TypeInv, TypeOK, Counts,
                                                  Stage0TypeOK, Bytes

LEMMA TypeStep == TypeInv /\ [Next]_vars => TypeInv'
<1> SUFFICES ASSUME TypeInv, [Next]_vars PROVE TypeInv'
  OBVIOUS
<1> USE DEF machine, savedVars, unlockVars
<1>1. CASE UNCHANGED vars
  BY <1>1 DEF vars, i8042Vars, stage0Vars, TypeInv, TypeOK, Counts,
      I8042TypeOK, Stage0TypeOK, Bytes
<1>2. CASE TryLptChannel
  BY <1>2 DEF TryLptChannel, i8042Vars, TypeInv, TypeOK, Counts,
      I8042TypeOK, Stage0TypeOK, Bytes
<1>3. CASE MaskAndFlush
  <2>1. masked' \in SUBSET IrqLines /\ pic_mask_orig' \in SUBSET IrqLines
    BY <1>3 DEF MaskAndFlush, TypeInv, TypeOK, I8042TypeOK, Lines, IrqLines
  <2>2. obf' \in Seq(OutputByte)
    BY <1>3 DEF MaskAndFlush
  <2> QED
    BY <1>3, <2>1, <2>2 DEF MaskAndFlush, TypeInv, TypeOK, Counts,
      I8042TypeOK, Stage0TypeOK, Bytes
<1>4. CASE ReadCcb
  <2>1. owed' \in Seq(OutputByte)
    <3>1. /\ owed \in Seq(OutputByte)
          /\ [from |-> "CTL", byte |-> "CCB", bits |-> ccb] \in OutputByte
      BY ByteTypes DEF TypeInv, TypeOK, I8042TypeOK
    <3> QED
      BY <1>4, <3>1, AppendProperties DEF ReadCcb
  <2>2. faults' \in 0 .. MaxFaults
    BY <1>4, I8042Assumption DEF ReadCcb, Fault, Timeouts, TypeInv, TypeOK, I8042TypeOK
  <2> QED
    BY <1>4, <2>1, <2>2 DEF ReadCcb, TypeInv, TypeOK, Counts,
      I8042TypeOK, Stage0TypeOK, Bytes
<1>5. CASE RecvCcb
  <2>1. obf' \in Seq(OutputByte) /\ Head(obf) \in OutputByte
    BY <1>5, HeadTailProperties DEF RecvCcb, TypeInv, TypeOK, I8042TypeOK
  <2>2. ccb_orig' \in SUBSET CcbBits
    BY <1>5, <2>1 DEF RecvCcb, OutputByte
  <2>3. ccb_saved' \in BOOLEAN /\ ccb_misread' \in BOOLEAN
    BY <1>5, Zenon DEF RecvCcb
  <2> QED
    BY <1>5, <2>1, <2>2, <2>3 DEF RecvCcb, TypeInv, TypeOK, Counts,
      I8042TypeOK, Stage0TypeOK, Bytes
<1>6. CASE CcbLate
  BY <1>6, I8042Assumption
  DEF CcbLate, Fault, Timeouts, TypeInv, TypeOK, Counts,
      I8042TypeOK, Stage0TypeOK, Bytes
<1>7. CASE WriteCcb
  <2>1. PICK after \in WriteOutcomes(Before, ccb_orig \ {"TRANSLATE"}) :
           /\ ccb' = after.ccb
           /\ command' = after.command
           /\ Timeouts(after.timeouts)
           /\ pc' = IF after.timeouts > 0 THEN "mastery_failed" ELSE "send"
    BY <1>7 DEF WriteCcb
  <2>2. Before \in [ccb : SUBSET CcbBits, command : {"none", "ccb", "aux"}, timeouts : Nat]
    BY DEF TypeInv, TypeOK, I8042TypeOK, Before
  <2>3. after \in [ccb : SUBSET CcbBits, command : {"none", "ccb", "aux"}, timeouts : Nat]
    BY <2>1, <2>2, WriteTypes DEF TypeInv, TypeOK, Counts, Stage0TypeOK
  <2>4. faults' \in 0 .. MaxFaults
    BY <2>1, <2>3, I8042Assumption DEF Timeouts, TypeInv, TypeOK, I8042TypeOK
  <2>5. acked' = 0 /\ Bytes' > 0
    BY <1>7, Stage0Assumption DEF WriteCcb, TypeInv, Counts, Bytes
  <2> QED
    BY <1>7, <2>1, <2>3, <2>4, <2>5 DEF WriteCcb, TypeInv, TypeOK, Counts,
      I8042TypeOK, Stage0TypeOK, Bytes
<1>8. CASE MasteryFails
  BY <1>8, RestoreKeepsTypes
    DEF TypeInv, Counts, MasteryFails
<1>9. CASE SendByte
  <2>1. owed' \in Seq(OutputByte)
    <3>1. /\ owed \in Seq(OutputByte)
          /\ Answers(lane, Device, acked + 1 = Bytes) \in Seq(OutputByte)
      BY AnswerTypes DEF TypeInv, TypeOK, I8042TypeOK, Stage0TypeOK
    <3> QED
      BY <1>9, <3>1, ConcatProperties DEF SendByte
  <2>2. faults' \in 0 .. MaxFaults
    BY <1>9, I8042Assumption DEF SendByte, Fault, Timeouts, TypeInv, TypeOK, I8042TypeOK
  <2>3. command' \in {"none", "ccb", "aux"}
    BY <1>9 DEF SendByte, TypeInv, TypeOK, I8042TypeOK
  <2>4. pc' \in {"recv", "settle", "enable_aux", "probed"}
    BY <1>9 DEF SendByte, AttemptFails, AfterLane
  <2>5. /\ pc' = "settle" => attempt' = 1
        /\ acked' < Bytes' + 2
    BY <1>9, Stage0Assumption DEF SendByte, AttemptFails, AfterLane, Bytes,
      TypeInv, TypeOK, Counts, Stage0TypeOK
  <2> QED
    BY <1>9, <2>1, <2>2, <2>3, <2>4, <2>5
    DEF SendByte, TypeInv, TypeOK, Counts,
      I8042TypeOK, Stage0TypeOK, Bytes
<1>10. CASE RecvByte
  <2>1. obf' \in Seq(OutputByte)
    BY <1>10, HeadTailProperties DEF RecvByte, TypeInv, TypeOK, I8042TypeOK
  <2>2. Bytes \in Nat /\ UNCHANGED Bytes
    BY <1>10, Stage0Assumption DEF RecvByte, Bytes
  <2>5. /\ acked' \in 0 .. Bytes' + 2
        /\ pc' = "send" => acked' < Bytes'
        /\ pc' = "recv" => acked' < Bytes' + 2
        /\ pc' = "settle" => attempt' = 1
    BY <1>10, <2>2 DEF RecvByte, AttemptFails, AfterLane, TypeInv, TypeOK, Counts, Stage0TypeOK
  <2>3. dx_bitmap' \in SUBSET {"LPT", "KBD", "AUX"}
    BY <1>10 DEF RecvByte, TypeInv, TypeOK, Counts, Stage0TypeOK
  <2>4. pc' \in {"send", "recv", "settle", "enable_aux", "probed"}
    BY <1>10 DEF RecvByte, AttemptFails, AfterLane
  <2> QED
    BY <1>10, <2>1, <2>3, <2>4, <2>5
    DEF RecvByte, TypeInv, TypeOK, Counts,
      I8042TypeOK, Stage0TypeOK
<1>11. CASE DrainOther
  BY <1>11, HeadTailProperties
  DEF DrainOther, stage0Vars, TypeInv, TypeOK, Counts,
      I8042TypeOK, Stage0TypeOK, Bytes
<1>12. CASE RecvTimesOut
  <2>1. faults' \in 0 .. MaxFaults
    BY <1>12, I8042Assumption
    DEF RecvTimesOut, NoAnswer, Fault, Timeouts, TypeInv, TypeOK, I8042TypeOK
  <2> QED
    BY <1>12, <2>1
    DEF RecvTimesOut, AttemptFails, AfterLane, TypeInv, TypeOK, Counts,
      I8042TypeOK, Stage0TypeOK, Bytes
<1>13. CASE SecondAttempt
  <2>1. Bytes' = Bytes /\ Bytes > 0
    BY <1>13, Stage0Assumption DEF SecondAttempt, Bytes
  <2>2. attempt' \in 1 .. 2 /\ acked' \in 0 .. Bytes' + 2
    BY <1>13, <2>1, Stage0Assumption
    DEF SecondAttempt, TypeInv, TypeOK, Counts, Stage0TypeOK, Bytes
  <2> QED
    BY <1>13, <2>1, <2>2
  DEF SecondAttempt, i8042Vars, TypeInv, TypeOK, Counts,
      I8042TypeOK, Stage0TypeOK, Bytes
<1>14. CASE EnableAuxPort
  <2>1. faults' \in 0 .. MaxFaults
    BY <1>14, I8042Assumption DEF EnableAuxPort, Fault, Timeouts, TypeInv, TypeOK, I8042TypeOK
  <2>2. aux_enabled' \in BOOLEAN
    BY <1>14, Zenon DEF EnableAuxPort, TypeInv, TypeOK, Counts, Stage0TypeOK
  <2>3. /\ acked' \in 0 .. Bytes' + 2 /\ lane' \in {"KBD", "AUX"}
        /\ pc' \in {"send", "probed"} /\ (pc' = "send" => acked' < Bytes')
    BY <1>14, Stage0Assumption DEF EnableAuxPort, TypeInv, TypeOK, Counts, Stage0TypeOK, Bytes
  <2>4. ccb' \in SUBSET CcbBits /\ command' \in {"none", "ccb", "aux"}
    BY <1>14 DEF EnableAuxPort, TypeInv, TypeOK, I8042TypeOK
  <2> QED
    BY <1>14, <2>1, <2>2, <2>3, <2>4
    DEF EnableAuxPort, TypeInv, TypeOK, Counts,
      I8042TypeOK, Stage0TypeOK
<1>15. CASE RestoreIfNone
  <2>1. CASE NoneUp
    BY <1>15, <2>1, RestoreKeepsTypes
    DEF TypeInv, Counts, RestoreIfNone
  <2>2. CASE ~NoneUp
    BY <1>15, <2>2
    DEF RestoreIfNone, i8042Vars, TypeInv, TypeOK, Counts,
      I8042TypeOK, Stage0TypeOK, Bytes
  <2> QED
    BY <2>1, <2>2
<1>16. CASE ChooseDownloadChannel
  BY <1>16 DEF ChooseDownloadChannel, i8042Vars, TypeInv, TypeOK, Counts,
      I8042TypeOK, Stage0TypeOK, Bytes
<1>17. CASE DownloadStage1
  BY <1>17 DEF DownloadStage1, i8042Vars, TypeInv, TypeOK, Counts,
      I8042TypeOK, Stage0TypeOK, Bytes
<1>18. CASE ExitError
  <2>1. CASE variant = "XT"
    BY <1>18, <2>1 DEF ExitError, i8042Vars, TypeInv, TypeOK, Counts,
      I8042TypeOK, Stage0TypeOK, Bytes
  <2>2. CASE variant # "XT"
    BY <1>18, <2>2, RestoreKeepsTypes
    DEF TypeInv, Counts, ExitError
  <2> QED
    BY <2>1, <2>2
<1>19. CASE EnterStage1
  BY <1>19
  DEF EnterStage1, UnmaskedByStage1, TypeInv, TypeOK, Counts,
      I8042TypeOK, Stage0TypeOK, Bytes
<1>20. CASE RunStage1
  BY <1>20 DEF RunStage1, i8042Vars, TypeInv, TypeOK, Counts,
      I8042TypeOK, Stage0TypeOK, Bytes
<1>21. CASE Devices
  <2>1. obf' \in Seq(OutputByte) /\ owed' \in Seq(OutputByte)
    BY <1>21, HeadTailProperties, AppendProperties
    DEF Devices, Answer, TypeInv, TypeOK, I8042TypeOK
  <2> QED
    BY <1>21, <2>1 DEF Devices, Answer, stage0Vars, TypeInv, TypeOK, Counts,
      I8042TypeOK, Stage0TypeOK, Bytes
<1>22. CASE User
  <2>1. \A scan \in ScanCodes :
           [from |-> "KBD", byte |-> "SCAN", bits |-> scan] \in OutputByte
    BY I8042Assumption, ByteTypes
  <2>2. obf' \in Seq(OutputByte)
    <3>1. obf \in Seq(OutputByte) /\ FromDevice("AUX", "SCAN") \in OutputByte
      BY ByteTypes DEF TypeInv, TypeOK, I8042TypeOK
    <3>2. \A b \in OutputByte : Append(obf, b) \in Seq(OutputByte)
      BY <3>1, AppendProperties
    <3> QED
      BY <1>22, <2>1, <3>1, <3>2 DEF User, Typed
  <2>3. keys' \in 0 .. MaxKeys
    BY <1>22, I8042Assumption DEF User, Typed, TypeInv, TypeOK, I8042TypeOK
  <2> QED
    BY <1>22, <2>2, <2>3
    DEF User, Typed, stage0Vars, TypeInv, TypeOK, Counts,
      I8042TypeOK, Stage0TypeOK, Bytes
<1> QED
  BY <1>1, <1>2, <1>3, <1>4, <1>5, <1>6, <1>7, <1>8, <1>9, <1>10, <1>11, <1>12, <1>13,
     <1>14, <1>15, <1>16, <1>17, <1>18, <1>19, <1>20, <1>21, <1>22
  DEF Next, Program, Stage0Next, Rest

---------------------------------------------------------------------------
(* The bitmap and the masks.                                               *)
LEMMA BitmapStep == TypeInv /\ BitmapInv /\ [Next]_vars => BitmapInv'
<1> SUFFICES ASSUME TypeInv, BitmapInv, [Next]_vars PROVE BitmapInv'
  OBVIOUS
<1> USE DEF BitmapInv, LptOnly, Untouched, Final, savedVars, unlockVars
<1>0. /\ dx_bitmap \subseteq {"LPT", "KBD", "AUX"}
      /\ lane \in {"KBD", "AUX"}
  BY DEF TypeInv, TypeOK, Stage0TypeOK
<1>1. CASE UNCHANGED vars
  BY <1>1 DEF vars, stage0Vars
<1>2. CASE TryLptChannel
  BY <1>2 DEF TryLptChannel
<1>3. CASE MaskAndFlush \/ ReadCcb \/ RecvCcb \/ CcbLate \/ WriteCcb
  BY <1>3 DEF MaskAndFlush, ReadCcb, RecvCcb, CcbLate, WriteCcb
<1>4. CASE SendByte \/ RecvTimesOut \/ SecondAttempt
  BY <1>4 DEF SendByte, RecvTimesOut, SecondAttempt, AttemptFails, AfterLane
<1>5. CASE RecvByte
  BY <1>0, <1>5 DEF RecvByte, AttemptFails, AfterLane
<1>6. CASE DrainOther \/ Devices \/ User
  BY <1>6 DEF DrainOther, Devices, User, stage0Vars
<1>7. CASE EnableAuxPort
  BY <1>7 DEF EnableAuxPort
<1>8. CASE MasteryFails \/ RestoreIfNone \/ ExitError
  BY <1>8 DEF MasteryFails, RestoreIfNone, ExitError, RestoreI8042AndPic
<1>9. CASE ChooseDownloadChannel \/ DownloadStage1 \/ EnterStage1 \/ RunStage1
  BY <1>9 DEF ChooseDownloadChannel, DownloadStage1, EnterStage1, RunStage1
<1> QED
  BY <1>1, <1>2, <1>3, <1>4, <1>5, <1>6, <1>7, <1>8, <1>9 DEF Next, Program, Stage0Next, Rest

LEMMA MaskStep == TypeInv /\ BitmapInv /\ MaskInv /\ [Next]_vars => MaskInv'
<1> SUFFICES ASSUME TypeInv, BitmapInv, MaskInv, [Next]_vars PROVE MaskInv'
  OBVIOUS
<1> USE DEF MaskInv, Decided, LptOnly, RestoredMask, Lines, EnableAux, machine, savedVars
<1>1. CASE UNCHANGED vars
  BY <1>1 DEF vars, i8042Vars, stage0Vars
<1>2. CASE TryLptChannel
  <2>1. masked = bios.masked
    BY <1>2 DEF TryLptChannel
  <2>2. CASE variant = "XT"
    BY <1>2, <2>1, <2>2 DEF TryLptChannel, i8042Vars
  <2>3. CASE variant # "XT"
    <3>1. pc' = "mask"
      BY <1>2, <2>3 DEF TryLptChannel
    <3> QED
      BY <1>2, <2>1, <3>1 DEF TryLptChannel, i8042Vars
  <2> QED
    BY <2>2, <2>3
<1>3. CASE MaskAndFlush
  <2>1. variant # "XT" /\ masked = bios.masked
    BY <1>3 DEF MaskAndFlush, BitmapInv, Final
  <2>2. RestoredMask' = masked
    BY <1>3 DEF MaskAndFlush
  <2> QED
    BY <1>3, <2>1, <2>2 DEF MaskAndFlush
<1>4. CASE ReadCcb \/ RecvCcb \/ CcbLate \/ WriteCcb
  BY <1>4 DEF ReadCcb, RecvCcb, CcbLate, WriteCcb, BitmapInv
<1>5. CASE SendByte \/ RecvTimesOut \/ SecondAttempt \/ RecvByte
  BY <1>5 DEF SendByte, RecvTimesOut, SecondAttempt, RecvByte, AttemptFails, AfterLane,
              i8042Vars, BitmapInv, Final
<1>6. CASE DrainOther \/ Devices \/ User
  BY <1>6 DEF DrainOther, Devices, Answer, User, Typed, stage0Vars
<1>7. CASE EnableAuxPort
  BY <1>7 DEF EnableAuxPort, BitmapInv, Final
<1>8. ASSUME RestoreI8042AndPic, variant # "XT", pc \notin {"lpt", "mask"},
             pc' \notin {"lpt", "mask"}
      PROVE  MaskInv'
  BY <1>8 DEF RestoreI8042AndPic
<1>9. CASE MasteryFails
  BY <1>8, <1>9 DEF MasteryFails, BitmapInv, Final
<1>10. CASE RestoreIfNone
  <2>1. CASE NoneUp
    BY <1>8, <1>10, <2>1 DEF RestoreIfNone, BitmapInv, Final
  <2>2. CASE ~NoneUp
    BY <1>10, <2>2 DEF RestoreIfNone, NoneUp, i8042Vars, BitmapInv, Final
  <2> QED
    BY <2>1, <2>2
<1>11. CASE ExitError
  <2>1. CASE variant = "XT"
    BY <1>11, <2>1 DEF ExitError, i8042Vars
  <2>2. CASE variant # "XT"
    BY <1>8, <1>11, <2>2 DEF ExitError
  <2> QED
    BY <2>1, <2>2
<1>12. CASE ChooseDownloadChannel \/ DownloadStage1 \/ RunStage1
  BY <1>12 DEF ChooseDownloadChannel, DownloadStage1, RunStage1, i8042Vars
<1>13. CASE EnterStage1
  BY <1>13 DEF EnterStage1, HandoffValid, BitmapInv
<1> QED
  BY <1>1, <1>2, <1>3, <1>4, <1>5, <1>6, <1>7, <1>9, <1>10, <1>11, <1>12, <1>13
  DEF Next, Program, Stage0Next, Rest

LEMMA MaskInit == Init => BitmapInv /\ MaskInv
  BY DEF Init, I8042Init, Stage0Init, BitmapInv, MaskInv, Untouched, Decided, LptOnly, Final

---------------------------------------------------------------------------
(* The bytes.                                                              *)
LEMMA AnswersHonest ==
    ASSUME lane \in {"KBD", "AUX"}, lane = "AUX" => EnableAux, NEW last
    PROVE  Answers(lane, Device, last) \in Seq(HonestByte)
<1>1. /\ FromDevice(lane, "ACK") \in HonestByte
      /\ Device = "pico" => /\ FromDevice(lane, "AA") \in HonestByte
                            /\ FromDevice(lane, "55") \in HonestByte
  BY ByteTypes DEF HonestByte, FromDevice, Device
<1>2. /\ <<>> \in Seq(HonestByte)
      /\ <<FromDevice(lane, "ACK")>> \in Seq(HonestByte)
      /\ Device = "pico" =>
            <<FromDevice(lane, "ACK"), FromDevice(lane, "AA"), FromDevice(lane, "55")>>
               \in Seq(HonestByte)
  BY <1>1
<1> QED
  BY <1>2 DEF Answers

LEMMA ByteStep ==
    TypeInv /\ CcbInv /\ LaneInv /\ ByteInv /\ [Next]_vars => ByteInv'
<1> SUFFICES ASSUME TypeInv, CcbInv, LaneInv, ByteInv, [Next]_vars PROVE ByteInv'
  OBVIOUS
<1> USE DEF machine, savedVars, unlockVars
<1>1. HonestByte' = HonestByte
  BY DEF Next, Program, Stage0Next, Rest, Devices, User, vars, i8042Vars, stage0Vars,
     TryLptChannel, MaskAndFlush, ReadCcb, RecvCcb, CcbLate, WriteCcb, MasteryFails,
     SendByte, RecvByte, DrainOther, RecvTimesOut, SecondAttempt, EnableAuxPort,
     RestoreIfNone, ChooseDownloadChannel, DownloadStage1, ExitError, RestoreI8042AndPic,
     EnterStage1, RunStage1, Answer, Typed, HonestByte, EnableAux
<1> DEFINE S == HonestByte
<1>2. SUFFICES obf' \in Seq(S) /\ owed' \in Seq(S)
  BY <1>1 DEF ByteInv
<1>3. obf \in Seq(S) /\ owed \in Seq(S) /\ <<>> \in Seq(S)
  BY DEF ByteInv
<1>4. CASE UNCHANGED <<obf, owed>>
  BY <1>3, <1>4
<1>5. CASE MaskAndFlush
  BY <1>3, <1>5 DEF MaskAndFlush
<1>6. CASE ReadCcb
  <2>1. ccb = bios.ccb
    BY <1>6, Zenon DEF ReadCcb, CcbInv, Untouched
  <2>2. [from |-> "CTL", byte |-> "CCB", bits |-> ccb] \in S
    BY <2>1, ByteTypes DEF TypeInv, TypeOK, I8042TypeOK, HonestByte
  <2> QED
    BY <1>3, <1>6, <2>2, AppendProperties DEF ReadCcb
<1>7. CASE RecvCcb \/ RecvByte \/ DrainOther
  BY <1>3, <1>7, HeadTailProperties DEF RecvCcb, RecvByte, DrainOther
<1>8. CASE SendByte
  <2>1. Answers(lane, Device, acked + 1 = Bytes) \in Seq(S)
    BY AnswersHonest DEF LaneInv, TypeInv, TypeOK, Stage0TypeOK
  <2> QED
    BY <1>3, <1>8, <2>1, ConcatProperties DEF SendByte
<1>9. CASE Devices
  BY <1>3, <1>9, HeadTailProperties, AppendProperties DEF Devices, Answer
<1>10. CASE User
  <2>1. \A scan \in ScanCodes : [from |-> "KBD", byte |-> "SCAN", bits |-> scan] \in S
    BY I8042Assumption, ByteTypes DEF HonestByte
  <2>2. FromDevice("AUX", "SCAN") \in S
    BY ByteTypes DEF HonestByte, FromDevice
  <2>3. \A b \in S : Append(obf, b) \in Seq(S)
    BY <1>3, AppendProperties
  <2> HIDE DEF S
  <2> QED
    BY <1>3, <1>10, <2>1, <2>2, <2>3 DEF User, Typed
<1>11. CASE MasteryFails \/ RestoreIfNone \/ ExitError
  BY <1>4, <1>11 DEF MasteryFails, RestoreIfNone, ExitError, RestoreI8042AndPic, i8042Vars
<1>12. CASE TryLptChannel \/ CcbLate \/ WriteCcb \/ RecvTimesOut \/ SecondAttempt
            \/ EnableAuxPort \/ ChooseDownloadChannel \/ DownloadStage1 \/ EnterStage1
            \/ RunStage1 \/ UNCHANGED vars
  BY <1>4, <1>12
  DEF TryLptChannel, CcbLate, WriteCcb, RecvTimesOut, SecondAttempt, EnableAuxPort,
      ChooseDownloadChannel, DownloadStage1, EnterStage1, RunStage1, vars, i8042Vars
<1> QED
  BY <1>5, <1>6, <1>7, <1>8, <1>9, <1>10, <1>11, <1>12
  DEF Next, Program, Stage0Next, Rest

LEMMA ByteInit == Init => ByteInv
  BY EmptySeq DEF Init, I8042Init, ByteInv

---------------------------------------------------------------------------
(* The CCB.                                                                *)
LEMMA CcbInit == Init => CcbInv
<1> SUFFICES ASSUME Init PROVE CcbInv
  OBVIOUS
<1>1. ~ccb_saved /\ ~ccb_misread /\ ~aux_enabled /\ ~restore_refused
  BY Zenon DEF Init, Stage0Init
<1>2. ccb = bios.ccb /\ command = "none" /\ pc = "lpt"
  BY DEF Init, I8042Init, Stage0Init
<1> QED
  BY <1>1, <1>2 DEF CcbInv, Untouched, Probing, Decided

LEMMA CcbRestored ==
    ASSUME TypeInv, CcbInv, RestoreI8042AndPic, pc' \in {"choose", "exit"}
    PROVE  CcbInv'
<1>1. /\ ccb_saved \in BOOLEAN /\ aux_enabled \in BOOLEAN /\ restore_refused \in BOOLEAN
      /\ aux_enabled => ccb_saved
  BY Zenon DEF TypeInv, TypeOK, Stage0TypeOK, CcbInv
<1>2. /\ ccb_saved' = FALSE /\ aux_enabled' = FALSE
      /\ ~restore_refused' =>
            /\ ~restore_refused
            /\ ccb_saved => ccb' = ccb_orig /\ command' = "none"
            /\ ~ccb_saved => ccb' = ccb /\ command' = command
      /\ bios' = bios /\ ccb_misread' = ccb_misread
  BY <1>1, Restored DEF machine
<1>3. ~ccb_misread' /\ ~restore_refused' => ccb' = bios'.ccb /\ command' = "none"
  BY <1>2, Zenon DEF CcbInv
<1> QED
  BY <1>2, <1>3 DEF CcbInv, Untouched, Probing

LEMMA CcbStep ==
    TypeInv /\ BitmapInv /\ ByteInv /\ CcbInv /\ [Next]_vars => CcbInv'
<1> SUFFICES ASSUME TypeInv, BitmapInv, ByteInv, CcbInv, [Next]_vars PROVE CcbInv'
  OBVIOUS
<1> USE DEF Untouched, Probing, Decided, LptOnly, Final, machine, savedVars, unlockVars
<1>1. CASE UNCHANGED vars
  BY <1>1 DEF vars, i8042Vars, stage0Vars, CcbInv
<1>2. CASE TryLptChannel
  BY <1>2 DEF TryLptChannel, i8042Vars, CcbInv
<1>3. CASE MaskAndFlush \/ ReadCcb \/ CcbLate
  BY <1>3 DEF MaskAndFlush, ReadCcb, CcbLate, CcbInv, BitmapInv
<1>4. CASE RecvCcb
  <2>1. /\ Head(obf) \in HonestByte
        /\ ccb_orig' = Head(obf).bits /\ ccb_saved' = TRUE
        /\ ccb_misread' = (Head(obf).byte # "CCB")
    BY <1>4, HeadTailProperties DEF RecvCcb, ByteInv
  <2>2. ~ccb_misread' => ccb_orig' = bios.ccb
    BY <2>1 DEF HonestByte
  <2>3. pc' = "write_ccb" /\ bios' = bios /\ variant' # "XT"
    BY <1>4 DEF RecvCcb, BitmapInv
  <2> QED
    BY <2>1, <2>2, <2>3 DEF CcbInv
<1>5. CASE WriteCcb
  <2>1. pc' \in {"mastery_failed", "send"}
    BY <1>5 DEF WriteCcb
  <2> QED
    BY <1>5, <2>1 DEF WriteCcb, CcbInv, BitmapInv
<1>6. CASE SendByte \/ RecvTimesOut
  <2>1. pc' \in {"recv", "settle", "enable_aux", "probed"} /\ Probing
    BY <1>6 DEF SendByte, RecvTimesOut, AttemptFails, AfterLane
  <2> QED
    BY <1>6, <2>1 DEF SendByte, RecvTimesOut, CcbInv
<1>7. CASE RecvByte
  <2>1. pc' \in {"send", "recv", "settle", "enable_aux", "probed"} /\ Probing
    BY <1>7 DEF RecvByte, AttemptFails, AfterLane
  <2> QED
    BY <1>7, <2>1 DEF RecvByte, CcbInv
<1>8. CASE SecondAttempt
  BY <1>8 DEF SecondAttempt, i8042Vars, CcbInv
<1>9. CASE EnableAuxPort
  BY <1>9 DEF EnableAuxPort, CcbInv
<1>10. CASE DrainOther \/ Devices \/ User
  BY <1>10 DEF DrainOther, Devices, Answer, User, Typed, stage0Vars, CcbInv
<1>11. CASE MasteryFails
  BY <1>11, CcbRestored DEF MasteryFails
<1>12. CASE RestoreIfNone
  <2>1. CASE NoneUp
    BY <1>12, <2>1, CcbRestored DEF RestoreIfNone
  <2>2. CASE ~NoneUp
    BY <1>12, <2>2 DEF RestoreIfNone, NoneUp, i8042Vars, CcbInv, BitmapInv
  <2> QED
    BY <2>1, <2>2
<1>13. CASE ExitError
  <2>1. CASE variant = "XT"
    BY <1>13, <2>1 DEF ExitError, i8042Vars, CcbInv
  <2>2. CASE variant # "XT"
    BY <1>13, <2>2, CcbRestored DEF ExitError
  <2> QED
    BY <2>1, <2>2
<1>14. CASE ChooseDownloadChannel \/ DownloadStage1 \/ RunStage1
  BY <1>14 DEF ChooseDownloadChannel, DownloadStage1, RunStage1, i8042Vars, CcbInv
<1>15. CASE EnterStage1
  BY <1>15 DEF EnterStage1, HandoffValid, CcbInv, BitmapInv
<1> QED
  BY <1>1, <1>2, <1>3, <1>4, <1>5, <1>6, <1>7, <1>8, <1>9, <1>10, <1>11, <1>12, <1>13,
     <1>14, <1>15
  DEF Next, Program, Stage0Next, Rest

---------------------------------------------------------------------------
(* The ports.                                                              *)
LEMMA LaneInit == Init => LaneInv
  BY DEF Init, I8042Init, Stage0Init, LaneInv, Untouched, Probing, Decided

LEMMA LaneStep ==
    TypeInv /\ BitmapInv /\ ByteInv /\ LaneInv /\ [Next]_vars => LaneInv'
<1> SUFFICES ASSUME TypeInv, BitmapInv, ByteInv, LaneInv, [Next]_vars PROVE LaneInv'
  OBVIOUS
<1> USE DEF LaneInv, Untouched, Probing, Decided, LptOnly, EnableAux, Lines,
            machine, savedVars, unlockVars
<1>0. /\ dx_bitmap \subseteq {"LPT", "KBD", "AUX"}
      /\ lane \in {"KBD", "AUX"}
  BY DEF TypeInv, TypeOK, Stage0TypeOK
<1>1. CASE UNCHANGED vars
  BY <1>1 DEF vars, i8042Vars, stage0Vars
<1>2. CASE TryLptChannel
  BY <1>2 DEF TryLptChannel, i8042Vars
<1>3. CASE MaskAndFlush
  BY <1>3 DEF MaskAndFlush
<1>4. CASE ReadCcb \/ RecvCcb \/ CcbLate
  BY <1>4 DEF ReadCcb, RecvCcb, CcbLate
<1>5. CASE WriteCcb
  <2>1. PICK after \in WriteOutcomes(Before, ccb_orig \ {"TRANSLATE"}) :
           /\ ccb' = after.ccb
           /\ pc' = IF after.timeouts > 0 THEN "mastery_failed" ELSE "send"
    BY <1>5 DEF WriteCcb
  <2>2. pc' = "mastery_failed" \/ (pc' = "send" /\ "TRANSLATE" \notin ccb')
    BY <2>1 DEF WriteOutcomes, Before
  <2>3. LptOnly /\ Lines \subseteq masked /\ lane = "KBD"
    BY <1>5 DEF WriteCcb, BitmapInv
  <2> QED
    BY <1>5, <2>2, <2>3 DEF WriteCcb
<1>6. CASE SendByte \/ RecvTimesOut
  <2>1. Probing /\ pc' \in {"recv", "settle", "enable_aux", "probed"}
        /\ (pc' = "enable_aux" => EnableAux)
    BY <1>6 DEF SendByte, RecvTimesOut, AttemptFails, AfterLane
  <2> QED
    BY <1>6, <2>1 DEF SendByte, RecvTimesOut
<1>7. CASE RecvByte
  <2>1. Probing /\ pc' \in {"send", "recv", "settle", "enable_aux", "probed"}
        /\ (pc' = "enable_aux" => EnableAux)
    BY <1>7 DEF RecvByte, AttemptFails, AfterLane
  <2>2. dx_bitmap' = dx_bitmap \/ (dx_bitmap' = dx_bitmap \cup {lane} /\ Head(obf).byte = "55")
    <3>1. CASE Head(obf).byte # Expected
      BY <1>7, <3>1 DEF RecvByte
    <3>2. CASE Head(obf).byte = Expected /\ acked + 1 = Bytes + 2
      <4>1. ~(acked < Bytes) /\ acked # Bytes
        BY <3>2, Stage0Assumption DEF Bytes, TypeInv, TypeOK, Stage0TypeOK
      <4> QED
        BY <1>7, <3>2, <4>1 DEF RecvByte, Expected
    <3>3. CASE Head(obf).byte = Expected /\ acked + 1 # Bytes + 2
      BY <1>7, <3>3 DEF RecvByte
    <3> QED
      BY <3>1, <3>2, <3>3
  <2>3. Head(obf) \in HonestByte /\ Mine(lane)
    BY <1>7, HeadTailProperties DEF RecvByte, ByteInv
  <2>4. Head(obf).byte = "55" =>
           /\ lane = "KBD" => kbd_device = "pico"
           /\ lane = "AUX" => aux_device = "pico"
    BY <1>0, <2>3 DEF HonestByte, Mine
  <2>5. UNCHANGED <<machine, masked, ccb, variant, lane>>
    BY <1>7 DEF RecvByte
  <2> QED
    BY <1>0, <2>1, <2>2, <2>4, <2>5
<1>8. CASE SecondAttempt
  BY <1>8 DEF SecondAttempt, i8042Vars
<1>9. CASE EnableAuxPort
  BY <1>9 DEF EnableAuxPort
<1>10. CASE DrainOther \/ Devices \/ User
  BY <1>10 DEF DrainOther, Devices, Answer, User, Typed, stage0Vars
<1>11. CASE MasteryFails
  BY <1>0, <1>11 DEF MasteryFails, RestoreI8042AndPic, BitmapInv
<1>12. CASE RestoreIfNone
  <2>1. CASE NoneUp
    BY <1>0, <1>12, <2>1 DEF RestoreIfNone, NoneUp, RestoreI8042AndPic
  <2>2. CASE ~NoneUp
    BY <1>12, <2>2 DEF RestoreIfNone, NoneUp, i8042Vars
  <2> QED
    BY <2>1, <2>2
<1>13. CASE ExitError
  BY <1>13 DEF ExitError, RestoreI8042AndPic, i8042Vars
<1>14. CASE ChooseDownloadChannel \/ DownloadStage1 \/ RunStage1
  BY <1>14 DEF ChooseDownloadChannel, DownloadStage1, RunStage1, i8042Vars
<1>15. CASE EnterStage1
  BY <1>15 DEF EnterStage1
<1> QED
  BY <1>1, <1>2, <1>3, <1>4, <1>5, <1>6, <1>7, <1>8, <1>9, <1>10, <1>11, <1>12, <1>13,
     <1>14, <1>15
  DEF Next, Program, Stage0Next, Rest

---------------------------------------------------------------------------
(* The six parts together are inductive.                                  *)
BootInv == TypeInv /\ BitmapInv /\ MaskInv /\ CcbInv /\ ByteInv /\ LaneInv

LEMMA BootInductive == Spec => []BootInv
<1>1. Init => BootInv
  BY TypeInit, MaskInit, CcbInit, ByteInit, LaneInit DEF BootInv
<1>2. BootInv /\ [Next]_vars => BootInv'
  BY TypeStep, BitmapStep, MaskStep, CcbStep, ByteStep, LaneStep DEF BootInv
<1> QED
  BY <1>1, <1>2, PTL DEF Spec

(* Every variable of Stage 0 and of the machine keeps its type; there is   *)
(* no third attempt and no answer beyond AA 55.                            *)
THEOREM BootTypeCorrect == Spec => []TypeOK
<1>1. BootInv => TypeOK
  BY DEF BootInv, TypeInv
<1> QED
  BY <1>1, BootInductive, PTL

(* restore_i8042_and_pic runs on every error exit and puts back what       *)
(* i8042_mastery saved: the IRQ masks of BIOS come back whatever fails.    *)
THEOREM MasksRestored == Spec => []MasksComeBack
<1>1. BootInv => MasksComeBack
  BY DEF BootInv, MaskInv, MasksComeBack
<1> QED
  BY <1>1, BootInductive, PTL

(* A Stage 0 that ends without a private channel gives CCB, AUX port and   *)
(* masks back, if it read the CCB and the i8042 took the restoring writes. *)
THEOREM KeyboardGivenBack == Spec => []GivenBack
<1>1. BootInv => GivenBack
  <2> SUFFICES ASSUME BootInv, pc = "exit" \/ (pc = "handoff" /\ dx_bitmap = {"LPT"}),
                      ~restore_refused, ~ccb_misread
               PROVE  AsFound
    BY DEF GivenBack
  <2>1. masked = bios.masked
    BY DEF BootInv, MaskInv, Decided, LptOnly
  <2>2. ~ccb_saved
    BY DEF BootInv, CcbInv, Decided, LptOnly
  <2>3. ccb = bios.ccb /\ command = "none"
    BY <2>2, Zenon DEF BootInv, CcbInv
  <2> QED
    BY <2>1, <2>3 DEF AsFound
<1> QED
  BY <1>1, BootInductive, PTL

(* The bitmap Stage 0 passes in DX lists the channels that are really up,  *)
(* and the masks and the CCB fit it.                                       *)
THEOREM HandoffIsHonest == Spec => []HandoffHonest
<1>1. BootInv => HandoffHonest
  <2> SUFFICES ASSUME BootInv, pc = "handoff" PROVE HandoffHonest
    BY DEF HandoffHonest
  <2>1. dx_bitmap # {} /\ dx_bitmap \subseteq {"LPT", "KBD", "AUX"}
    BY DEF BootInv, BitmapInv, TypeInv, TypeOK, Stage0TypeOK
  <2>2. CASE dx_bitmap = {"LPT"}
    BY <2>2 DEF BootInv, MaskInv, Decided, LptOnly, HandoffHonest
  <2>3. CASE dx_bitmap # {"LPT"}
    BY <2>1, <2>3 DEF BootInv, LaneInv, Decided, LptOnly, HandoffHonest, Lines
  <2> QED
    BY <2>2, <2>3
<1> QED
  BY <1>1, BootInductive, PTL
=============================================================================
