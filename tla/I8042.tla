------------------------------- MODULE I8042 -------------------------------
(***************************************************************************)
(* The hardware Stage 0 takes from BIOS and DOS: the interrupt masks of    *)
(* the keyboard and AUX lines, the i8042 with its command byte (CCB) and   *)
(* output buffer, and what is plugged into its ports.  None of it is in    *)
(* the repository: it behaves as s0_atps2_core.inc relies on.              *)
(***************************************************************************)
EXTENDS Naturals, Sequences, FiniteSets

CONSTANTS BiosStates,    \* [masked, ccb] as BIOS may have left them
          KbdDevices,    \* what may be on the keyboard port
          AuxDevices,    \* and on the AUX port
          ScanCodes,     \* scan codes, as the bits of a CCB they would be
          MaxKeys,       \* bound on what the user types or moves meanwhile
          MaxFaults      \* bound on timeouts of a device that does answer

(* The bits of the CCB that Stage 0 or the user can tell apart.            *)
CcbBits == {"KBD_INT", "KBD_OFF", "AUX_OFF", "TRANSLATE"}
IrqLines == {1, 12}

ASSUME I8042Assumption ==
    /\ BiosStates \subseteq [masked : SUBSET IrqLines, ccb : SUBSET CcbBits]
    /\ KbdDevices \subseteq {"none", "plain", "pico"}
    /\ AuxDevices \subseteq {"none", "plain", "pico"}
    /\ ScanCodes \subseteq SUBSET CcbBits
    /\ MaxKeys \in Nat /\ MaxFaults \in Nat

VARIABLES bios,        \* the state Stage 0 found
          kbd_device,
          aux_device,
          masked,      \* the IRQ lines masked at the PICs
          ccb,
          command,     \* a controller command that still awaits its data byte
          obf,         \* bytes that port 60h will give, in order
          owed,        \* answers the devices still have to give
          keys,
          faults

machine == <<bios, kbd_device, aux_device>>
i8042Vars == <<machine, masked, ccb, command, obf, owed, keys, faults>>

(* A byte and the port it came from; bits is its value read as a CCB.      *)
OutputByte == [from : {"KBD", "AUX", "CTL"},
               byte : {"CCB", "SCAN", "ACK", "AA", "55"},
               bits : SUBSET CcbBits]
FromDevice(port, b) == [from |-> port, byte |-> b, bits |-> {}]

I8042TypeOK ==
    /\ bios \in BiosStates
    /\ kbd_device \in KbdDevices /\ aux_device \in AuxDevices
    /\ masked \in SUBSET IrqLines
    /\ ccb \in SUBSET CcbBits
    /\ command \in {"none", "ccb", "aux"}
    /\ obf \in Seq(OutputByte) /\ owed \in Seq(OutputByte)
    /\ keys \in 0 .. MaxKeys
    /\ faults \in 0 .. MaxFaults

I8042Init ==
    /\ bios \in BiosStates
    /\ kbd_device \in KbdDevices /\ aux_device \in AuxDevices
    /\ masked = bios.masked
    /\ ccb = bios.ccb
    /\ command = "none"
    /\ obf = <<>> /\ owed = <<>>
    /\ keys = 0
    /\ faults = 0

---------------------------------------------------------------------------
(* i8042_wait_ibe times out, or a receive does although an answer is due.  *)
Timeouts(n) ==
    /\ faults + n <= MaxFaults
    /\ faults' = faults + n
Fault == Timeouts(1)

(* A device, or the controller asked for its CCB, gives its next answer.   *)
Answer ==
    /\ owed # <<>>
    /\ obf' = Append(obf, Head(owed))
    /\ owed' = Tail(owed)
    /\ UNCHANGED <<machine, masked, ccb, command, keys, faults>>

(* The user presses or releases a key, or moves the mouse.  A device that  *)
(* owes an answer gives it first, and unless its line is masked BIOS or a  *)
(* driver takes the byte before Stage 0 sees it.                           *)
OwesNone(port) == \A i \in DOMAIN owed : owed[i].from # port

Typed ==
    /\ keys < MaxKeys
    /\ keys' = keys + 1
    /\ \/ /\ 1 \in masked
          /\ kbd_device # "none" /\ "KBD_OFF" \notin ccb
          /\ OwesNone("KBD")
          /\ \E scan \in ScanCodes :
                obf' = Append(obf, [from |-> "KBD", byte |-> "SCAN", bits |-> scan])
       \/ /\ 12 \in masked
          /\ aux_device # "none" /\ "AUX_OFF" \notin ccb
          /\ OwesNone("AUX")
          /\ obf' = Append(obf, FromDevice("AUX", "SCAN"))
    /\ UNCHANGED <<machine, masked, ccb, command, owed, faults>>

(* What a device answers to a byte of an unlock sequence; only a Pico      *)
(* knows the sequence and follows its last byte with AA 55.                *)
Answers(port, device, last) ==
    CASE device = "none" -> <<>>
      [] device = "pico" /\ last -> <<FromDevice(port, "ACK"), FromDevice(port, "AA"),
                                      FromDevice(port, "55")>>
      [] OTHER -> <<FromDevice(port, "ACK")>>
=============================================================================
