------------------------------- MODULE Pio ----------------------------------
(***************************************************************************)
(* One clock cycle of a programmable I/O state machine of the RP2350, for  *)
(* the instructions the firmware's programs are assembled from.  The       *)
(* silicon is external to the repository; the programs and their           *)
(* configurations are the repository's (modules Ps2Wire and LptPhys).        *)
(*                                                                         *)
(* A word in a transmit FIFO is the sequence of its bits, the first to be  *)
(* shifted out first; a received word is the tuple of the levels sampled.  *)
(* Pins are a function from names to levels; lines that are only driven    *)
(* together are one name, whose level is a tuple.                          *)
(***************************************************************************)
EXTENDS Integers, Sequences, TLC

\* An instruction: the fields an operation does not use are absent.
Pull          == [op |-> "pull", delay |-> 0]
Push          == [op |-> "push", delay |-> 0]
Out(to, n)    == [op |-> "out", to |-> to, n |-> n, delay |-> 0]
Set(to, v, d) == [op |-> "set", to |-> to, v |-> v, delay |-> d]
MovPins(from) == [op |-> "mov", from |-> from, delay |-> 0]
Nop(d)        == [op |-> "nop", delay |-> d]
Wait(v, pin)  == [op |-> "wait", v |-> v, pin |-> pin, delay |-> 0]
In            == [op |-> "in", delay |-> 0]
Jmp(c, to)    == [op |-> "jmp", when |-> c, to |-> to, delay |-> 0]

\* A program with side-set drives its side pin with every instruction.
Side(i, level) ==
    [f \in DOMAIN i \cup {"side"} |-> IF f = "side" THEN level ELSE i[f]]

\* A state machine just configured: at its wrap target, registers clear.
Idle == [pc |-> 1, delay |-> 0, x |-> 0, y |-> 0, osr |-> <<>>, isr |-> <<>>,
         tx |-> <<>>, rx |-> <<>>]

Instruction(cfg, sm) == cfg.prog[sm.pc]

\* What keeps an instruction from completing in this cycle.
Stalled(cfg, sm, pins) ==
    LET i == Instruction(cfg, sm)
    IN \/ i.op = "pull" /\ sm.tx = <<>>
       \/ i.op = "wait" /\ pins[i.pin] # i.v
       \/ Len(sm.rx) >= cfg.depth /\ (i.op = "push" \/ (i.op = "in" /\ cfg.autopush))

\* No instruction is executing and none will until the CPU pushes a word.
AwaitsWord(cfg, sm) ==
    sm.delay = 0 /\ Instruction(cfg, sm).op = "pull" /\ sm.tx = <<>>

Jumps(i, sm) ==
    i.op = "jmp" /\ \/ i.when = "always"
                    \/ i.when = "!x" /\ sm.x = 0
                    \/ i.when = "y--" /\ sm.y # 0

\* The n bits an `out' takes; beyond the word there are zeros.
Taken(osr, n) ==
    IF n = 1 THEN Head(osr)
    ELSE [k \in 1 .. n |-> IF k <= Len(osr) THEN osr[k] ELSE 0]

Window(cfg, pins) == [k \in DOMAIN cfg.in |-> pins[cfg.in[k]]]

\* y-- counts down before zero is looked at again: 0 becomes all ones, here -1.
Registers(cfg, i, sm, pins) ==
    CASE i.op = "pull" -> [sm EXCEPT !.osr = Head(sm.tx), !.tx = Tail(@)]
      [] i.op = "push" -> [sm EXCEPT !.rx = Append(@, sm.isr)]
      [] i.op = "out"  -> [sm EXCEPT !.x = IF i.to = "x" THEN Taken(sm.osr, i.n) ELSE @,
                                     !.osr = SubSeq(@, i.n + 1, Len(@))]
      [] i.op = "set" /\ i.to = "y"     -> [sm EXCEPT !.y = i.v]
      [] i.op = "jmp" /\ i.when = "y--" -> [sm EXCEPT !.y = @ - 1]
      [] i.op = "in"   -> [sm EXCEPT !.isr = Window(cfg, pins),
                                     !.rx = IF cfg.autopush THEN Append(@, Window(cfg, pins))
                                                            ELSE @]
      [] OTHER -> sm

\* One pin at a level, and levels that take the place of those of pins.
Pin(pin, level)     == [p \in {pin} |-> level]
Onto(levels, pins) == [p \in DOMAIN levels \cup DOMAIN pins |->
                          IF p \in DOMAIN levels THEN levels[p] ELSE pins[p]]

Driven(cfg, i, sm, pins) ==
    CASE i.op = "out" /\ i.to = "pins" -> Pin(cfg.out, Taken(sm.osr, i.n))
      [] i.op = "set" /\ i.to = "pins" -> Pin(cfg.set, i.v)
      [] i.op = "mov"                  -> Pin(cfg.out, IF i.from = "x" THEN sm.x
                                                      ELSE pins[cfg.in[1]])
      [] OTHER                         -> <<>>

Sided(cfg, i) == IF "side" \in DOMAIN i THEN Pin(cfg.side, i.side) ELSE <<>>

\* The cycle: the side-set level is driven even while the instruction stalls.
Cycle(cfg, sm, pins) ==
    LET i    == Instruction(cfg, sm)
        next == IF Jumps(i, sm) THEN i.to
                ELSE IF sm.pc = Len(cfg.prog) THEN 1 ELSE sm.pc + 1
    IN IF sm.delay > 0
       THEN [sm |-> [sm EXCEPT !.delay = @ - 1], pins |-> pins]
       ELSE IF Stalled(cfg, sm, pins)
       THEN [sm |-> sm, pins |-> Onto(Sided(cfg, i), pins)]
       ELSE [sm |-> [Registers(cfg, i, sm, pins) EXCEPT !.pc = next, !.delay = i.delay],
             pins |-> Onto(Driven(cfg, i, sm, pins), Onto(Sided(cfg, i), pins))]
=============================================================================
