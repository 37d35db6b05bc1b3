--------------------------- MODULE MCBootChannels ---------------------------
(***************************************************************************)
(* Instances of the boot channels for TLC: BIOS with and without a mouse   *)
(* driver, and two scan codes, one that read as a CCB would switch the     *)
(* keyboard off, one that would leave translation and interrupts on.       *)
(***************************************************************************)
EXTENDS BootChannels

MCBiosStates ==
    {[masked |-> {12}, ccb |-> {"KBD_INT", "TRANSLATE", "AUX_OFF"}],
     [masked |-> {}, ccb |-> {"KBD_INT", "TRANSLATE"}]}
MCPlainBios == {[masked |-> {12}, ccb |-> {"KBD_INT", "TRANSLATE", "AUX_OFF"}]}

MCDevices == {"none", "plain", "pico"}
MCPico == {"pico"}
MCNoDevice == {"none"}
MCScanCodes == {{"KBD_OFF"}, {"KBD_INT", "TRANSLATE"}}
MCVariants == {"XT", "AT", "PS2"}
MCAt == {"AT"}
=============================================================================
