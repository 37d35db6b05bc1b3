------------------------------- MODULE LptPhys ------------------------------
(***************************************************************************)
(* The PIO programs of the LPT phys and how words are packed for them:     *)
(* pio_compat_in, pio_nibble_out, pio_byte_rev, pio_epp, pio_ecp and       *)
(* pio_dir_follower.  nWait, PeriphAck and Busy are one pin, "busy"; nAck  *)
(* and PeriphClk another, "nack"; the five status lines that nibble_out    *)
(* drives together are "status".  "d" is the level read from D0..D7,       *)
(* "data" what PIO0 would drive there.  A byte is its bits, lowest first.  *)
(***************************************************************************)
EXTENDS Pio

CONSTANT FifoDepth     \* words of one FIFO; joined ones have twice as many

CompatIn == << Wait(0, "strobe"),
               In,
               Wait(1, "strobe") >>

\* Mutant: a nibble is held for 32 cycles
NibbleOut_slow == << Pull, Out("pins", 5), Nop(31), Out("pins", 5), Nop(31) >>
NibbleOut == << Pull,
                Out("pins", 5), Nop(9),
                Out("pins", 5), Nop(9) >>

ByteRev == << Side(Pull, 1),
              Side(Wait(0, "autofd"), 1),
              Side(Out("pins", 8), 1),
              Side(Nop(4), 0),
              Side(Wait(1, "autofd"), 1) >>

EppReverse == << Side(Out("pins", 8), 1), Side(Wait(0, "autofd"), 1), Side(Nop(4), 0),
                 Side(Wait(1, "autofd"), 1), Side(Jmp("always", 1), 1) >>

\* Mutant: Busy is let go before the host ends its cycle
EppForward_noRelease ==
    << Side(Wait(0, "autofd"), 1), Side(In, 0), Side(Push, 0), Side(Jmp("always", 1), 1) >>
EppForward == << Side(Wait(0, "autofd"), 1), Side(In, 0), Side(Push, 0),
                 Side(Wait(1, "autofd"), 0), Side(Jmp("always", 1), 1) >>

Epp == << Side(Pull, 1), Side(Out("x", 1), 1), Side(Out("null", 23), 1),
          Side(Jmp("!x", 5 + Len(EppReverse)), 1) >> \o EppReverse \o EppForward

EcpFwd == << Side(Wait(0, "strobe"), 1), Side(In, 1),
             Side(Nop(2), 0), Side(Push, 0),
             Side(Wait(1, "strobe"), 1) >>

EcpRev == << Side(Pull, 1), Side(Out("pins", 8), 1),
             Side(Wait(0, "autofd"), 1), Side(Nop(2), 0),
             Side(Wait(1, "autofd"), 1) >>

DirFollower == << MovPins("strobe") >>

\* set_config; `join' says which FIFO has all the words.
Config(prog, in, out, side, join) ==
    [prog |-> prog, in |-> in, out |-> out, set |-> out, side |-> side, join |-> join,
     autopush |-> prog = CompatIn,
     depth |-> CASE join = "Rx" -> 2 * FifoDepth [] join = "Tx" -> 0
                 [] join = "Duplex" -> FifoDepth]

CompatInConfig  == Config(CompatIn, <<"strobe", "d">>, "none", "none", "Rx")
NibbleOutConfig == Config(NibbleOut, <<>>, "status", "none", "Tx")
ByteRevConfig   == Config(ByteRev, <<>>, "data", "nack", "Tx")
EppConfig       == Config(Epp, <<"d">>, "data", "busy", "Duplex")
EcpFwdConfig    == Config(EcpFwd, <<"strobe", "d">>, "none", "busy", "Rx")
EcpRevConfig    == Config(EcpRev, <<>>, "data", "nack", "Tx")
FollowerConfig  == Config(DirFollower, <<"strobe">>, "dir", "none", "Duplex")

TxDepth(cfg) == IF cfg.join = "Tx" THEN 2 * FifoDepth ELSE FifoDepth

Configs(p) ==
    CASE p = "SppNibble" -> [sm0 |-> CompatInConfig, sm1 |-> NibbleOutConfig]
      [] p = "Byte"      -> [sm0 |-> CompatInConfig, sm1 |-> ByteRevConfig]
      [] p = "Epp"       -> [sm0 |-> EppConfig,      sm1 |-> EppConfig]
      [] p = "Ecp"       -> [sm0 |-> EcpFwdConfig,   sm1 |-> EcpRevConfig]

\* A FIFO is emptied when its joining changes, and only then (external).
Configured(old, cfg, sm) ==
    [Idle EXCEPT !.tx = IF old.join = cfg.join THEN sm.tx ELSE <<>>,
                 !.rx = IF old.join = cfg.join THEN sm.rx ELSE <<>>]

\* The levels a build drives first; autofd of EPP and the data need none.
Levels(p) ==
    CASE p = "SppNibble" -> [status |-> <<0, 0, 0, 0, 0>>]
      [] p = "Byte"      -> [nack |-> 1, data |-> [k \in 1 .. 8 |-> 0]]
      [] p = "Epp"       -> <<>>
      [] p = "Ecp"       -> [busy |-> 1, nack |-> 1, data |-> [k \in 1 .. 8 |-> 0]]

-----------------------------------------------------------------------------
\* n is a nibble, n[k + 1] its bit k; the phase goes out on Busy.
PackNibble(n, phase) == << n[4], phase, n[3], n[2], n[1] >>

\* Mutant: the high nibble first
PackByte_highFirst(byte) ==
    PackNibble(SubSeq(byte, 5, 8), 1) \o PackNibble(SubSeq(byte, 1, 4), 0)
PackByte(byte) ==
    PackNibble(SubSeq(byte, 1, 4), 1) \o PackNibble(SubSeq(byte, 5, 8), 0)

\* The host's view of it: Stage 0 and Stage 1 read the status port.
PhaseOf(status)  == status[2]
NibbleOf(status) == << status[5], status[4], status[3], status[1] >>

Zeros(n) == [k \in 1 .. n |-> 0]
EncodeForwardCmd       == Zeros(32)
EncodeReverseCmd(byte) == <<1>> \o Zeros(23) \o byte

\* send_byte and recv_byte of the phys, which state machine they use, and
\* the last element of the window as the byte received.
Sender(p) == IF p = "Epp" THEN "sm0" ELSE "sm1"
Packed(p, byte) ==
    CASE p = "SppNibble" -> PackByte(byte)
      [] p = "Epp"       -> EncodeReverseCmd(byte)
      [] OTHER           -> byte
ByteOf(word) == word[Len(word)]
=============================================================================
