----------------------------- MODULE Ps2Framer ------------------------------
(***************************************************************************)
(* crates/ps2-framer: frames out of the samples of CLK and DATA, and the   *)
(* words the transmitter is given.  The framer only ever compares times    *)
(* with the present, so its time stamps are ages in ticks, capped at the   *)
(* idle timeout; the timing it reports with a frame is left out.  A byte   *)
(* is the sequence of its bits, least significant first.                   *)
(***************************************************************************)
EXTENDS Naturals, SequencesExt

CONSTANTS
    IdleTimeout,     \* IDLE_TIMEOUT_US, in ticks
    GlitchThreshold  \* GLITCH_THRESHOLD_US, in ticks

ASSUME TimesAssumption ==
    /\ IdleTimeout \in Nat /\ GlitchThreshold \in Nat
    /\ GlitchThreshold < IdleTimeout

NoFrame == [kind |-> "None"]
NoLevel == 2          \* last_clk: None
XtBitCount == 9
AtBitCount == 11

\* bits is what is assembled so far; none is State::Idle.
NewFramer == [bits |-> <<>>, clk |-> NoLevel, sinceEdge |-> 0, sinceFall |-> 0]

Older(f) == [f EXCEPT !.sinceEdge = Min({@ + 1, IdleTimeout}),
                      !.sinceFall = Min({@ + 1, IdleTimeout})]

Ones(bits) == Quantify(DOMAIN bits, LAMBDA i : bits[i] = 1)

Data(bits) == SubSeq(bits \o <<0, 0, 0, 0, 0, 0, 0, 0>>, 2, 9)

BuildFrame(kind, bits) ==
    [kind |-> kind, data |-> Data(bits),
     parity_ok  |-> CASE kind = "At" -> Ones(SubSeq(bits, 2, 10)) % 2 = 1
                      [] kind = "Xt" -> TRUE
                      [] OTHER       -> FALSE,
     framing_ok |-> CASE kind = "At" -> bits[1] = 0 /\ bits[11] = 1
                      [] kind = "Xt" -> bits[1] = 1
                      [] OTHER       -> FALSE]

EmitOnTimeout(bits) ==
    IF Len(bits) = XtBitCount /\ bits[1] = 1 THEN BuildFrame("Xt", bits)
                                             ELSE BuildFrame("Invalid", bits)

ResetIdle(f) == [f EXCEPT !.bits = <<>>, !.sinceFall = 0]

\* The first falling edge of a frame is its start bit.
OnClkFall(f, data) ==
    LET bits == Append(f.bits, data)
        g    == [f EXCEPT !.bits = bits, !.sinceFall = 0]
    IN IF Len(bits) >= AtBitCount
       THEN [f |-> ResetIdle(g), frame |-> BuildFrame("At", bits)]
       ELSE [f |-> g, frame |-> NoFrame]

\* One sample.  A sample that finds the frame timed out is not looked at for
\* an edge; an edge too soon after the last one is a glitch.
Ingest(f, clk, data) ==
    LET g    == [f EXCEPT !.clk = clk]
        edge == f.clk # NoLevel /\ f.clk # clk
    IN IF f.bits # <<>> /\ f.sinceFall >= IdleTimeout
       THEN [f |-> ResetIdle(g), frame |-> EmitOnTimeout(f.bits)]
       ELSE IF ~edge THEN [f |-> g, frame |-> NoFrame]
       ELSE IF f.sinceEdge >= GlitchThreshold /\ clk = 0
       THEN OnClkFall([g EXCEPT !.sinceEdge = 0], data)
       ELSE [f |-> [g EXCEPT !.sinceEdge = 0], frame |-> NoFrame]

\* The words of the transmitter: padded with ones to 32 bits.
Pad(bits) == bits \o [i \in 1 .. 32 - Len(bits) |-> 1]
PackAtFrame(byte) == Pad(<<0>> \o byte \o <<1 - (Ones(byte) % 2), 1>>)
PackXtFrame(byte) == Pad(<<1>> \o byte)
=============================================================================
