--------------------------- MODULE Ps2Wire_proofs ---------------------------
(***************************************************************************)
(* The transmitter's frames and the oversampler's ring, whatever is sent,  *)
(* whatever the host does to CLK and however often it does it.             *)
(*                                                                         *)
(* The first part counts the cycles and the pulses that the transmitter's  *)
(* program has still to make: a frame of eleven bits takes FrameTicks, and *)
(* a pause between keystrokes of at least that lets every frame end before *)
(* the next.  The second part follows the ring: as long as no poll is late *)
(* by a whole ring, a word is never passed over unless an overrun says so. *)
(* The third follows what is read of the ring, sample by sample: on the    *)
(* keyboard wire a frame with a bit of our own is too young to be passed   *)
(* on.  The last is the mouse's wire, where age does not count: its frames *)
(* come back malformed, with DATA high where their start bit should be.    *)
(***************************************************************************)
EXTENDS Ps2Wire, FoldTheorems, SequenceTheorems, TLAPS

-----------------------------------------------------------------------------
(* Which instruction is where, and that only its first needs a word.       *)

LEMMA Program ==
  /\ Len(TxProgram) = 8
  /\ TxProgram[1] = Set("y", 10, 0)
  /\ TxProgram[2] = Pull
  /\ TxProgram[3] = Out("x", 1)
  /\ TxProgram[4] = Set("pins", 0, 3)
  /\ TxProgram[5] = MovPins("x")
  /\ TxProgram[6] = Set("pins", 1, 3)
  /\ TxProgram[7] = Jmp("y--", 3)
  /\ TxProgram[8] = Set("pins", 1, 0)
  BY DEF TxProgram, AtLoopInit

LEMMA Config == TxConfig.prog = TxProgram /\ TxConfig.set = "clk" /\ TxConfig.out = "data" /\ TxConfig.depth = 8
  BY DEF TxConfig

(* What a state machine is, as far as EXCEPT has to know.                  *)
Machine(m) ==
    m = [f \in {"pc", "delay", "x", "y", "osr", "isr", "tx", "rx"} |-> m[f]]

(* What a cycle makes of the fields that count cycles.                     *)
Becomes(m, pc, y, delay, tx) ==
    /\ Machine(m) /\ m.rx = <<>>
    /\ m.pc = pc /\ m.y = y /\ m.delay = delay /\ m.tx = tx

(* What it makes of CLK.                                                   *)
Drives(p, level) == "clk" \in DOMAIN p /\ p["clk"] = level

LEMMA OntoClk ==
  ASSUME NEW p, "clk" \in DOMAIN p
  PROVE  /\ \A v : Drives(Onto(Pin("clk", v), Onto(<<>>, p)), v)
         /\ \A v : Drives(Onto(Pin("data", v), Onto(<<>>, p)), p["clk"])
         /\ Drives(Onto(<<>>, Onto(<<>>, p)), p["clk"])
         /\ Drives(Onto(<<>>, p), p["clk"])
<1>1. DOMAIN Onto(<<>>, p) = DOMAIN p /\ \A l \in DOMAIN p : Onto(<<>>, p)[l] = p[l]
  BY DEF Onto
<1> QED
  BY <1>1 DEF Onto, Pin, Drives

LEMMA NoSide ==
  \A k \in 1 .. 8 : Sided(TxConfig, TxProgram[k]) = <<>>
  BY Program DEF Sided, Set, Pull, Out, MovPins, Jmp

LEMMA Waits ==
  ASSUME NEW m, m.delay = 0, m.pc = 2, m.tx = <<>>, NEW p
  PROVE  /\ Cycle(TxConfig, m, p).sm = m
         /\ Cycle(TxConfig, m, p).pins = Onto(<<>>, p)
<1>1. Instruction(TxConfig, m) = Pull
  BY Program, Config DEF Instruction
<1>2. Stalled(TxConfig, m, p)
  BY <1>1 DEF Stalled, Pull
<1>3. Sided(TxConfig, Pull) = <<>>
  BY DEF Sided, Pull
<1> QED
  BY <1>1, <1>2, <1>3 DEF Cycle

LEMMA Delays ==
  ASSUME NEW m, Machine(m), m.rx = <<>>, m.delay > 0, NEW p
  PROVE  /\ Becomes(Cycle(TxConfig, m, p).sm, m.pc, m.y, m.delay - 1, m.tx)
         /\ Cycle(TxConfig, m, p).pins = p
<1>1. ASSUME NEW n, n = [m EXCEPT !.delay = m.delay - 1]
      PROVE  Becomes(n, m.pc, m.y, m.delay - 1, m.tx)
  BY <1>1 DEF Becomes, Machine
<1>2. Cycle(TxConfig, m, p).sm = [m EXCEPT !.delay = m.delay - 1]
  BY DEF Cycle, Machine
<1>3. Cycle(TxConfig, m, p).pins = p
  BY DEF Cycle
<1> QED
  BY <1>1, <1>2, <1>3

LEMMA Runs ==
  ASSUME NEW m, m.rx = <<>>, m.delay = 0, m.pc \in 1 .. 8, ~(m.pc = 2 /\ m.tx = <<>>), NEW p,
         NEW i, i = TxProgram[m.pc],
         NEW r, r = Registers(TxConfig, i, m, p), Machine(r), r.rx = <<>>,
         NEW next, next = IF Jumps(i, m) THEN i.to ELSE IF m.pc = 8 THEN 1 ELSE m.pc + 1
  PROVE  /\ Becomes(Cycle(TxConfig, m, p).sm, next, r.y, i.delay, r.tx)
         /\ Cycle(TxConfig, m, p).sm.osr = r.osr /\ Cycle(TxConfig, m, p).sm.x = r.x
         /\ Cycle(TxConfig, m, p).pins = Onto(Driven(TxConfig, i, m, p), Onto(<<>>, p))
<1>1. Instruction(TxConfig, m) = i /\ Len(TxConfig.prog) = 8
  BY Program, Config DEF Instruction
<1>2. i.op \notin {"wait", "push", "in"} /\ (i.op = "pull" => m.pc = 2)
  BY Program DEF Set, Pull, Out, MovPins, Jmp
<1>3. ~Stalled(TxConfig, m, p)
  BY <1>1, <1>2 DEF Stalled
<1>4. Sided(TxConfig, i) = <<>>
  BY NoSide
<1>5. Cycle(TxConfig, m, p) = [sm |-> [r EXCEPT !.pc = next, !.delay = i.delay],
                               pins |-> Onto(Driven(TxConfig, i, m, p), Onto(<<>>, p))]
  BY <1>1, <1>3, <1>4 DEF Cycle
<1>6. ASSUME NEW n, n = [r EXCEPT !.pc = next, !.delay = i.delay]
      PROVE  Becomes(n, next, r.y, i.delay, r.tx) /\ n.osr = r.osr /\ n.x = r.x
  BY <1>6 DEF Becomes, Machine
<1>7. PICK c : c = Cycle(TxConfig, m, p)
  OBVIOUS
<1>8. /\ c.sm = [r EXCEPT !.pc = next, !.delay = i.delay]
      /\ c.pins = Onto(Driven(TxConfig, i, m, p), Onto(<<>>, p))
  BY <1>5, <1>7
<1>9. Becomes(c.sm, next, r.y, i.delay, r.tx) /\ c.sm.osr = r.osr /\ c.sm.x = r.x
  BY <1>6, <1>8, Zenon
<1> QED
  BY <1>7, <1>8, <1>9, Zenon

(* One cycle at each place of the program.                                 *)
LEMMA CycleIs ==
  ASSUME NEW m, Machine(m), m.rx = <<>>, m.delay \in Nat, m.y \in Int,
         NEW p, "clk" \in DOMAIN p,
         NEW c, c = Cycle(TxConfig, m, p)
  PROVE  /\ m.delay > 0 =>
              /\ Becomes(c.sm, m.pc, m.y, m.delay - 1, m.tx) /\ Drives(c.pins, p["clk"])
         /\ m.delay = 0 =>
              /\ m.pc = 1 => Becomes(c.sm, 2, 10, 0, m.tx) /\ Drives(c.pins, p["clk"])
              /\ m.pc = 2 /\ m.tx = <<>> => c.sm = m /\ Drives(c.pins, p["clk"])
              /\ m.pc = 2 /\ m.tx # <<>> =>
                   Becomes(c.sm, 3, m.y, 0, Tail(m.tx)) /\ Drives(c.pins, p["clk"])
              /\ m.pc = 3 => Becomes(c.sm, 4, m.y, 0, m.tx) /\ Drives(c.pins, p["clk"])
              /\ m.pc = 4 => Becomes(c.sm, 5, m.y, 3, m.tx) /\ Drives(c.pins, 0)
              /\ m.pc = 5 => Becomes(c.sm, 6, m.y, 0, m.tx) /\ Drives(c.pins, p["clk"])
              /\ m.pc = 6 => Becomes(c.sm, 7, m.y, 3, m.tx) /\ Drives(c.pins, 1)
              /\ m.pc = 7 => /\ Becomes(c.sm, IF m.y = 0 THEN 8 ELSE 3, m.y - 1, 0, m.tx)
                             /\ Drives(c.pins, p["clk"])
              /\ m.pc = 8 => Becomes(c.sm, 1, m.y, 0, m.tx) /\ Drives(c.pins, 1)
<1> DEFINE i == TxProgram[m.pc]
           r == Registers(TxConfig, i, m, p)
           next == IF Jumps(i, m) THEN i.to ELSE IF m.pc = 8 THEN 1 ELSE m.pc + 1
           driven == Driven(TxConfig, i, m, p)
<1>1. /\ i = TxProgram[m.pc] /\ r = Registers(TxConfig, i, m, p)
      /\ next = IF Jumps(i, m) THEN i.to ELSE IF m.pc = 8 THEN 1 ELSE m.pc + 1
      /\ driven = Driven(TxConfig, i, m, p)
  OBVIOUS
<1>2. m.delay = 0 /\ m.pc \in 1 .. 8 /\ ~(m.pc = 2 /\ m.tx = <<>>) /\ Machine(r) /\ r.rx = <<>>
      => Becomes(c.sm, next, r.y, i.delay, r.tx) /\ c.pins = Onto(driven, Onto(<<>>, p))
  BY Runs
<1> HIDE DEF i, r, next, driven
<1>3. m.delay > 0 =>
        Becomes(c.sm, m.pc, m.y, m.delay - 1, m.tx) /\ Drives(c.pins, p["clk"])
  BY Delays DEF Drives
<1>4. m.delay = 0 /\ m.pc = 2 /\ m.tx = <<>> => c.sm = m /\ Drives(c.pins, p["clk"])
  BY Waits, OntoClk
<1>5. ASSUME m.delay = 0, m.pc = 1
      PROVE  Becomes(c.sm, 2, 10, 0, m.tx) /\ Drives(c.pins, p["clk"])
  <2>1. i = Set("y", 10, 0)
    BY <1>5, <1>1, Program
  <2>2. next = (2) /\ i.delay = 0
    BY <1>5, <1>1, <2>1 DEF Jumps, Set
  <2>3. Machine(r) /\ r.rx = <<>> /\ r.y = 10 /\ r.tx = m.tx
    BY <1>1, <2>1 DEF Registers, Set, Machine
  <2>4. driven = <<>>
    BY <1>1, <2>1, Config DEF Driven, Set
  <2> QED
    BY <1>5, <1>2, <2>2, <2>3, <2>4, OntoClk
<1>6. ASSUME m.delay = 0, m.pc = 2, m.tx # <<>>
      PROVE  Becomes(c.sm, 3, m.y, 0, Tail(m.tx)) /\ Drives(c.pins, p["clk"])
  <2>1. i = Pull
    BY <1>6, <1>1, Program
  <2>2. next = (3) /\ i.delay = 0
    BY <1>6, <1>1, <2>1 DEF Jumps, Pull
  <2>3. Machine(r) /\ r.rx = <<>> /\ r.y = m.y /\ r.tx = Tail(m.tx)
    <3>1. r = [m EXCEPT !.osr = Head(m.tx), !.tx = Tail(@)]
      BY <1>1, <2>1 DEF Registers, Pull
    <3> QED
      BY <3>1 DEF Machine
  <2>4. driven = <<>>
    BY <1>1, <2>1, Config DEF Driven, Pull
  <2> QED
    BY <1>6, <1>2, <2>2, <2>3, <2>4, OntoClk
<1>7. ASSUME m.delay = 0, m.pc = 3
      PROVE  Becomes(c.sm, 4, m.y, 0, m.tx) /\ Drives(c.pins, p["clk"])
  <2>1. i = Out("x", 1)
    BY <1>7, <1>1, Program
  <2>2. next = (4) /\ i.delay = 0
    BY <1>7, <1>1, <2>1 DEF Jumps, Out
  <2>3. Machine(r) /\ r.rx = <<>> /\ r.y = m.y /\ r.tx = m.tx
    <3>1. r = [m EXCEPT !.x = IF i.to = "x" THEN Taken(m.osr, i.n) ELSE @,
                        !.osr = SubSeq(@, i.n + 1, Len(@))]
      BY <1>1, <2>1 DEF Registers, Out
    <3> QED
      BY <3>1 DEF Machine
  <2>4. driven = <<>>
    BY <1>1, <2>1, Config DEF Driven, Out
  <2> QED
    BY <1>7, <1>2, <2>2, <2>3, <2>4, OntoClk
<1>8. ASSUME m.delay = 0, m.pc = 4
      PROVE  Becomes(c.sm, 5, m.y, 3, m.tx) /\ Drives(c.pins, 0)
  <2>1. i = Set("pins", 0, 3)
    BY <1>8, <1>1, Program
  <2>2. next = (5) /\ i.delay = 3
    BY <1>8, <1>1, <2>1 DEF Jumps, Set
  <2>3. Machine(r) /\ r.rx = <<>> /\ r.y = m.y /\ r.tx = m.tx
    BY <1>1, <2>1 DEF Registers, Set, Machine
  <2>4. driven = Pin("clk", 0)
    BY <1>1, <2>1, Config DEF Driven, Set
  <2> QED
    BY <1>8, <1>2, <2>2, <2>3, <2>4, OntoClk
<1>9. ASSUME m.delay = 0, m.pc = 5
      PROVE  Becomes(c.sm, 6, m.y, 0, m.tx) /\ Drives(c.pins, p["clk"])
  <2>1. i = MovPins("x")
    BY <1>9, <1>1, Program
  <2>2. next = (6) /\ i.delay = 0
    BY <1>9, <1>1, <2>1 DEF Jumps, MovPins
  <2>3. Machine(r) /\ r.rx = <<>> /\ r.y = m.y /\ r.tx = m.tx
    BY <1>1, <2>1 DEF Registers, MovPins, Machine
  <2>4. driven = Pin("data", m.x)
    BY <1>1, <2>1, Config DEF Driven, MovPins
  <2> QED
    BY <1>9, <1>2, <2>2, <2>3, <2>4, OntoClk
<1>10. ASSUME m.delay = 0, m.pc = 6
      PROVE  Becomes(c.sm, 7, m.y, 3, m.tx) /\ Drives(c.pins, 1)
  <2>1. i = Set("pins", 1, 3)
    BY <1>10, <1>1, Program
  <2>2. next = (7) /\ i.delay = 3
    BY <1>10, <1>1, <2>1 DEF Jumps, Set
  <2>3. Machine(r) /\ r.rx = <<>> /\ r.y = m.y /\ r.tx = m.tx
    BY <1>1, <2>1 DEF Registers, Set, Machine
  <2>4. driven = Pin("clk", 1)
    BY <1>1, <2>1, Config DEF Driven, Set
  <2> QED
    BY <1>10, <1>2, <2>2, <2>3, <2>4, OntoClk
<1>11. ASSUME m.delay = 0, m.pc = 7
      PROVE  Becomes(c.sm, IF m.y = 0 THEN 8 ELSE 3, m.y - 1, 0, m.tx) /\ Drives(c.pins, p["clk"])
  <2>1. i = Jmp("y--", 3)
    BY <1>11, <1>1, Program
  <2>2. next = (IF m.y = 0 THEN 8 ELSE 3) /\ i.delay = 0
    BY <1>11, <1>1, <2>1 DEF Jumps, Jmp
  <2>3. Machine(r) /\ r.rx = <<>> /\ r.y = m.y - 1 /\ r.tx = m.tx
    BY <1>1, <2>1 DEF Registers, Jmp, Machine
  <2>4. driven = <<>>
    BY <1>1, <2>1, Config DEF Driven, Jmp
  <2> QED
    BY <1>11, <1>2, <2>2, <2>3, <2>4, OntoClk
<1>12. ASSUME m.delay = 0, m.pc = 8
      PROVE  Becomes(c.sm, 1, m.y, 0, m.tx) /\ Drives(c.pins, 1)
  <2>1. i = Set("pins", 1, 0)
    BY <1>12, <1>1, Program
  <2>2. next = (1) /\ i.delay = 0
    BY <1>12, <1>1, <2>1 DEF Jumps, Set
  <2>3. Machine(r) /\ r.rx = <<>> /\ r.y = m.y /\ r.tx = m.tx
    BY <1>1, <2>1 DEF Registers, Set, Machine
  <2>4. driven = Pin("clk", 1)
    BY <1>1, <2>1, Config DEF Driven, Set
  <2> QED
    BY <1>12, <1>2, <2>2, <2>3, <2>4, OntoClk
<1> QED
  BY <1>3, <1>4, <1>5, <1>6, <1>7, <1>8, <1>9, <1>10, <1>11, <1>12

-----------------------------------------------------------------------------
(* The cycles that a frame of eleven bits takes, the fetching of the word  *)
(* and the return to it included; those that are left of the present one   *)
(* and the pulses that are.                                                *)
FrameTicks == 124

Left(m) ==
    CASE m.pc = 2 -> IF m.tx = <<>> THEN 0 ELSE 11 * (m.y + 1) + 3
      [] m.pc = 3 -> 11 * m.y + 13
      [] m.pc = 4 -> 11 * m.y + 12
      [] m.pc = 5 -> 11 * m.y + 8 + m.delay
      [] m.pc = 6 -> 11 * m.y + 7
      [] m.pc = 7 -> 11 * m.y + 3 + m.delay
      [] m.pc = 8 -> 2
      [] OTHER    -> 1

PulsesLeft(m) ==
    CASE m.pc \in {3, 4} \/ (m.pc = 2 /\ m.tx # <<>>) -> m.y + 1
      [] m.pc \in {5, 6, 7} -> m.y
      [] OTHER -> 0

(* The program is stalled with its own count loaded, or on its way through *)
(* the only word it has.                                                   *)
Placed(m) ==
    /\ Machine(m) /\ m.rx = <<>>
    /\ m.pc \in 1 .. 8 /\ m.y \in Int /\ m.delay \in 0 .. 3
    /\ m.delay # 0 => m.pc \in {5, 7}
    /\ m.pc \in 3 .. 7 => m.y \in 0 .. 10
    /\ m.pc = 2 => m.y = 10 \/ (m.tx # <<>> /\ m.y = 8)
    /\ m.tx = <<>> \/ (m.pc = 2 /\ \E w : m.tx = <<w>>)

Level(m) == IF m.pc \in {5, 6} THEN 0 ELSE 1

LEMMA LeftIs ==
  ASSUME NEW m
  PROVE  /\ m.pc = 1 => Left(m) = 1
         /\ m.pc = 2 /\ m.tx = <<>> => Left(m) = 0
         /\ m.pc = 2 /\ m.tx # <<>> => Left(m) = 11 * (m.y + 1) + 3
         /\ m.pc = 3 => Left(m) = 11 * m.y + 13
         /\ m.pc = 4 => Left(m) = 11 * m.y + 12
         /\ m.pc = 5 => Left(m) = 11 * m.y + 8 + m.delay
         /\ m.pc = 6 => Left(m) = 11 * m.y + 7
         /\ m.pc = 7 => Left(m) = 11 * m.y + 3 + m.delay
         /\ m.pc = 8 => Left(m) = 2
  BY DEF Left

LEMMA PulsesLeftIs ==
  ASSUME NEW m
  PROVE  /\ m.pc \in {1, 8} => PulsesLeft(m) = 0
         /\ m.pc = 2 /\ m.tx = <<>> => PulsesLeft(m) = 0
         /\ m.pc = 2 /\ m.tx # <<>> => PulsesLeft(m) = m.y + 1
         /\ m.pc \in {3, 4} => PulsesLeft(m) = m.y + 1
         /\ m.pc \in {5, 6, 7} => PulsesLeft(m) = m.y
  BY DEF PulsesLeft

LEMMA LeftNat ==
  ASSUME NEW m, Placed(m)
  PROVE  Left(m) \in Nat /\ (Left(m) = 0 <=> m.pc = 2 /\ m.tx = <<>>)
<1>1. m.pc \in {1, 2, 8} \/ m.pc \in 3 .. 7
  BY DEF Placed
<1>2. CASE m.pc \in {1, 8} \/ (m.pc = 2 /\ m.tx = <<>>)
  BY <1>2, LeftIs
<1>3. CASE m.pc = 2 /\ m.tx # <<>>
  <2>1. m.y \in {8, 10}
    BY <1>3 DEF Placed
  <2>2. Left(m) = 11 * (m.y + 1) + 3
    BY <1>3, LeftIs
  <2> QED
    BY <1>3, <2>1, <2>2
<1>4. CASE m.pc \in 3 .. 7
  <2>1. m.y \in 0 .. 10 /\ m.delay \in 0 .. 3
    BY <1>4 DEF Placed
  <2>2. Left(m) \in Nat /\ Left(m) # 0
    <3>1. \/ m.pc = 3 /\ Left(m) = 11 * m.y + 13
          \/ m.pc = 4 /\ Left(m) = 11 * m.y + 12
          \/ m.pc = 5 /\ Left(m) = 11 * m.y + 8 + m.delay
          \/ m.pc = 6 /\ Left(m) = 11 * m.y + 7
          \/ m.pc = 7 /\ Left(m) = 11 * m.y + 3 + m.delay
      BY <1>4, LeftIs
    <3>2. 11 * m.y \in Nat /\ m.delay \in Nat
      BY <2>1
    <3> QED
      BY <3>1, <3>2
  <2> QED
    BY <1>4, <2>2
<1> QED
  BY <1>1, <1>2, <1>3, <1>4

LEMMA PulsesLeftInt ==
  ASSUME NEW m, Placed(m) PROVE PulsesLeft(m) \in Int
  BY DEF PulsesLeft, Placed

LEMMA Advances ==
  ASSUME NEW m, Placed(m), NEW p, Drives(p, Level(m)), NEW c, c = Cycle(TxConfig, m, p)
  PROVE  /\ Placed(c.sm) /\ Drives(c.pins, Level(c.sm))
         /\ Left(m) = 0 => Left(c.sm) = 0
         /\ Left(m) # 0 => Left(c.sm) = Left(m) - 1
         /\ PulsesLeft(m) = PulsesLeft(c.sm) + (IF p["clk"] > c.pins["clk"] THEN 1 ELSE 0)
<1>1. /\ Machine(m) /\ m.rx = <<>> /\ m.delay \in Nat /\ m.y \in Int /\ "clk" \in DOMAIN p
      /\ p["clk"] = Level(m)
  BY DEF Placed, Drives
<1> DEFINE n == c.sm
           Goal == /\ Placed(n) /\ Drives(c.pins, Level(n))
                   /\ Left(m) = 0 => Left(n) = 0
                   /\ Left(m) # 0 => Left(n) = Left(m) - 1
                   /\ PulsesLeft(m) = PulsesLeft(n) +
                                        (IF p["clk"] > c.pins["clk"] THEN 1 ELSE 0)
<1>0. n = c.sm
  OBVIOUS
<1> HIDE DEF n
<1> SUFFICES Goal
  BY <1>0
<1>2. CASE m.delay > 0 /\ m.pc = 5
  <2>1. Becomes(n, m.pc, m.y, m.delay - 1, m.tx) /\ Drives(c.pins, p["clk"])
    BY <1>0, <1>1, <1>2, CycleIs
  <2>2. m.tx = <<>> /\ m.y \in 0 .. 10 /\ m.delay \in 1 .. 3
    BY <1>2 DEF Placed
  <2>3. Placed(n)
    BY <1>2, <2>1, <2>2 DEF Placed, Becomes
  <2>4. Level(n) = p["clk"] /\ Level(m) = 0
    BY <1>1, <1>2, <2>1 DEF Level, Becomes
  <2>5. Left(m) = 11 * m.y + 8 + m.delay /\ PulsesLeft(m) = m.y
    BY <1>2, LeftIs, PulsesLeftIs
  <2>6. Left(n) = 11 * m.y + 8 + (m.delay - 1) /\ PulsesLeft(n) = m.y
    BY <1>2, <2>1, <2>2, LeftIs, PulsesLeftIs DEF Becomes
  <2>7. p["clk"] > c.pins["clk"] <=> FALSE
    BY <1>1, <2>1, <2>4 DEF Drives
  <2>8. Drives(c.pins, Level(n))
    BY <1>1, <2>1, <2>4
  <2>9. Left(m) # 0 /\ Left(n) = Left(m) - 1
    <3> DEFINE a == 11 * m.y + 8
    <3>1. a \in Nat
      BY <2>2
    <3>2. Left(m) = a + m.delay /\ Left(n) = a + (m.delay - 1)
      BY <2>5, <2>6
    <3> HIDE DEF a
    <3> QED
      BY <2>2, <3>1, <3>2
  <2>10. PulsesLeft(m) = PulsesLeft(n) + 0
    BY <1>1, <1>2, <2>2, <2>5, <2>6
  <2> QED
    BY <2>3, <2>7, <2>8, <2>9, <2>10
<1>3. CASE m.delay > 0 /\ m.pc = 7
  <2>1. Becomes(n, m.pc, m.y, m.delay - 1, m.tx) /\ Drives(c.pins, p["clk"])
    BY <1>0, <1>1, <1>3, CycleIs
  <2>2. m.tx = <<>> /\ m.y \in 0 .. 10 /\ m.delay \in 1 .. 3
    BY <1>3 DEF Placed
  <2>3. Placed(n)
    BY <1>3, <2>1, <2>2 DEF Placed, Becomes
  <2>4. Level(n) = p["clk"] /\ Level(m) = 1
    BY <1>1, <1>3, <2>1 DEF Level, Becomes
  <2>5. Left(m) = 11 * m.y + 3 + m.delay /\ PulsesLeft(m) = m.y
    BY <1>3, LeftIs, PulsesLeftIs
  <2>6. Left(n) = 11 * m.y + 3 + (m.delay - 1) /\ PulsesLeft(n) = m.y
    BY <1>3, <2>1, <2>2, LeftIs, PulsesLeftIs DEF Becomes
  <2>7. p["clk"] > c.pins["clk"] <=> FALSE
    BY <1>1, <2>1, <2>4 DEF Drives
  <2>8. Drives(c.pins, Level(n))
    BY <1>1, <2>1, <2>4
  <2>9. Left(m) # 0 /\ Left(n) = Left(m) - 1
    <3> DEFINE a == 11 * m.y + 3
    <3>1. a \in Nat
      BY <2>2
    <3>2. Left(m) = a + m.delay /\ Left(n) = a + (m.delay - 1)
      BY <2>5, <2>6
    <3> HIDE DEF a
    <3> QED
      BY <2>2, <3>1, <3>2
  <2>10. PulsesLeft(m) = PulsesLeft(n) + 0
    BY <1>1, <1>3, <2>2, <2>5, <2>6
  <2> QED
    BY <2>3, <2>7, <2>8, <2>9, <2>10
<1>4. CASE m.delay = 0 /\ m.pc = 1
  <2>1. Becomes(n, 2, 10, 0, m.tx) /\ Drives(c.pins, p["clk"])
    BY <1>0, <1>1, <1>4, CycleIs
  <2>2. m.tx = <<>>
    BY <1>4 DEF Placed
  <2>3. Placed(n)
    BY <1>4, <2>1, <2>2 DEF Placed, Becomes
  <2>4. Level(n) = p["clk"] /\ Level(m) = 1
    BY <1>1, <1>4, <2>1 DEF Level, Becomes
  <2>5. Left(m) = 1 /\ PulsesLeft(m) = 0
    BY <1>4, LeftIs, PulsesLeftIs
  <2>6. Left(n) = 0 /\ PulsesLeft(n) = 0
    BY <1>4, <2>1, <2>2, LeftIs, PulsesLeftIs DEF Becomes
  <2>7. p["clk"] > c.pins["clk"] <=> FALSE
    BY <1>1, <2>1, <2>4 DEF Drives
  <2>8. Drives(c.pins, Level(n))
    BY <1>1, <2>1, <2>4
  <2>9. Left(m) # 0 /\ Left(n) = Left(m) - 1
    BY <2>2, <2>5, <2>6
  <2>10. PulsesLeft(m) = PulsesLeft(n) + 0
    BY <1>1, <1>4, <2>2, <2>5, <2>6
  <2> QED
    BY <2>3, <2>7, <2>8, <2>9, <2>10
<1>5. CASE m.delay = 0 /\ m.pc = 2 /\ m.tx = <<>>
  <2>1. n = m /\ Drives(c.pins, p["clk"])
    BY <1>0, <1>1, <1>5, CycleIs
  <2>2. Left(m) = 0 /\ PulsesLeft(m) = 0
    BY <1>5, LeftIs, PulsesLeftIs
  <2>3. c.pins["clk"] = p["clk"] /\ p["clk"] \in {0, 1} /\ Drives(c.pins, Level(n))
    BY <1>1, <2>1 DEF Drives, Level
  <2>4. ~(p["clk"] > c.pins["clk"])
    BY <2>3
  <2> QED
    BY <2>1, <2>2, <2>3, <2>4
<1>6. CASE m.delay = 0 /\ m.pc = 2 /\ m.tx # <<>>
  <2>1. Becomes(n, 3, m.y, 0, Tail(m.tx)) /\ Drives(c.pins, p["clk"])
    BY <1>0, <1>1, <1>6, CycleIs
  <2>2. m.y \in {8, 10} /\ Tail(m.tx) = <<>>
    <3>1. PICK w : m.tx = <<w>>
      BY <1>6 DEF Placed
    <3>2. m.y \in {8, 10}
      BY <1>6 DEF Placed
    <3> QED
      BY <3>1, <3>2
  <2>3. Placed(n)
    BY <1>6, <2>1, <2>2 DEF Placed, Becomes
  <2>4. Level(n) = p["clk"] /\ Level(m) = 1
    BY <1>1, <1>6, <2>1 DEF Level, Becomes
  <2>5. Left(m) = 11 * (m.y + 1) + 3 /\ PulsesLeft(m) = m.y + 1
    BY <1>6, LeftIs, PulsesLeftIs
  <2>6. Left(n) = 11 * m.y + 13 /\ PulsesLeft(n) = m.y + 1
    BY <1>6, <2>1, <2>2, LeftIs, PulsesLeftIs DEF Becomes
  <2>7. p["clk"] > c.pins["clk"] <=> FALSE
    BY <1>1, <2>1, <2>4 DEF Drives
  <2>8. Drives(c.pins, Level(n))
    BY <1>1, <2>1, <2>4
  <2>9. Left(m) # 0 /\ Left(n) = Left(m) - 1
    <3> DEFINE a == 11 * m.y
    <3>1. a \in Nat /\ 11 * (m.y + 1) = a + 11 /\ 11 * (m.y - 1) = a - 11
      BY <2>2
    <3>2. Left(m) = (a + 11) + 3 /\ Left(n) = a + 13
      BY <2>5, <2>6, <3>1
    <3> HIDE DEF a
    <3> QED
      BY <3>1, <3>2
  <2>10. PulsesLeft(m) = PulsesLeft(n) + 0
    BY <1>1, <1>6, <2>2, <2>5, <2>6
  <2> QED
    BY <2>3, <2>7, <2>8, <2>9, <2>10
<1>7. CASE m.delay = 0 /\ m.pc = 3
  <2>1. Becomes(n, 4, m.y, 0, m.tx) /\ Drives(c.pins, p["clk"])
    BY <1>0, <1>1, <1>7, CycleIs
  <2>2. m.tx = <<>> /\ m.y \in 0 .. 10
    BY <1>7 DEF Placed
  <2>3. Placed(n)
    BY <1>7, <2>1, <2>2 DEF Placed, Becomes
  <2>4. Level(n) = p["clk"] /\ Level(m) = 1
    BY <1>1, <1>7, <2>1 DEF Level, Becomes
  <2>5. Left(m) = 11 * m.y + 13 /\ PulsesLeft(m) = m.y + 1
    BY <1>7, LeftIs, PulsesLeftIs
  <2>6. Left(n) = 11 * m.y + 12 /\ PulsesLeft(n) = m.y + 1
    BY <1>7, <2>1, <2>2, LeftIs, PulsesLeftIs DEF Becomes
  <2>7. p["clk"] > c.pins["clk"] <=> FALSE
    BY <1>1, <2>1, <2>4 DEF Drives
  <2>8. Drives(c.pins, Level(n))
    BY <1>1, <2>1, <2>4
  <2>9. Left(m) # 0 /\ Left(n) = Left(m) - 1
    <3> DEFINE a == 11 * m.y
    <3>1. a \in Nat
      BY <2>2
    <3>2. Left(m) = a + 13 /\ Left(n) = a + 12
      BY <2>5, <2>6
    <3> HIDE DEF a
    <3> QED
      BY <3>1, <3>2
  <2>10. PulsesLeft(m) = PulsesLeft(n) + 0
    BY <1>1, <1>7, <2>2, <2>5, <2>6
  <2> QED
    BY <2>3, <2>7, <2>8, <2>9, <2>10
<1>8. CASE m.delay = 0 /\ m.pc = 4
  <2>1. Becomes(n, 5, m.y, 3, m.tx) /\ Drives(c.pins, 0)
    BY <1>0, <1>1, <1>8, CycleIs
  <2>2. m.tx = <<>> /\ m.y \in 0 .. 10
    BY <1>8 DEF Placed
  <2>3. Placed(n)
    BY <1>8, <2>1, <2>2 DEF Placed, Becomes
  <2>4. Level(n) = 0 /\ Level(m) = 1
    BY <1>1, <1>8, <2>1 DEF Level, Becomes
  <2>5. Left(m) = 11 * m.y + 12 /\ PulsesLeft(m) = m.y + 1
    BY <1>8, LeftIs, PulsesLeftIs
  <2>6. Left(n) = 11 * m.y + 8 + 3 /\ PulsesLeft(n) = m.y
    BY <1>8, <2>1, <2>2, LeftIs, PulsesLeftIs DEF Becomes
  <2>7. p["clk"] > c.pins["clk"] <=> TRUE
    BY <1>1, <2>1, <2>4 DEF Drives
  <2>8. Drives(c.pins, Level(n))
    BY <1>1, <2>1, <2>4
  <2>9. Left(m) # 0 /\ Left(n) = Left(m) - 1
    <3> DEFINE a == 11 * m.y
    <3>1. a \in Nat
      BY <2>2
    <3>2. Left(m) = a + 12 /\ Left(n) = a + 8 + 3
      BY <2>5, <2>6
    <3> HIDE DEF a
    <3> QED
      BY <3>1, <3>2
  <2>10. PulsesLeft(m) = PulsesLeft(n) + 1
    BY <1>1, <1>8, <2>2, <2>5, <2>6
  <2> QED
    BY <2>3, <2>7, <2>8, <2>9, <2>10
<1>9. CASE m.delay = 0 /\ m.pc = 5
  <2>1. Becomes(n, 6, m.y, 0, m.tx) /\ Drives(c.pins, p["clk"])
    BY <1>0, <1>1, <1>9, CycleIs
  <2>2. m.tx = <<>> /\ m.y \in 0 .. 10
    BY <1>9 DEF Placed
  <2>3. Placed(n)
    BY <1>9, <2>1, <2>2 DEF Placed, Becomes
  <2>4. Level(n) = p["clk"] /\ Level(m) = 0
    BY <1>1, <1>9, <2>1 DEF Level, Becomes
  <2>5. Left(m) = 11 * m.y + 8 + 0 /\ PulsesLeft(m) = m.y
    BY <1>9, LeftIs, PulsesLeftIs
  <2>6. Left(n) = 11 * m.y + 7 /\ PulsesLeft(n) = m.y
    BY <1>9, <2>1, <2>2, LeftIs, PulsesLeftIs DEF Becomes
  <2>7. p["clk"] > c.pins["clk"] <=> FALSE
    BY <1>1, <2>1, <2>4 DEF Drives
  <2>8. Drives(c.pins, Level(n))
    BY <1>1, <2>1, <2>4
  <2>9. Left(m) # 0 /\ Left(n) = Left(m) - 1
    <3> DEFINE a == 11 * m.y
    <3>1. a \in Nat
      BY <2>2
    <3>2. Left(m) = a + 8 + 0 /\ Left(n) = a + 7
      BY <2>5, <2>6
    <3> HIDE DEF a
    <3> QED
      BY <3>1, <3>2
  <2>10. PulsesLeft(m) = PulsesLeft(n) + 0
    BY <1>1, <1>9, <2>2, <2>5, <2>6
  <2> QED
    BY <2>3, <2>7, <2>8, <2>9, <2>10
<1>10. CASE m.delay = 0 /\ m.pc = 6
  <2>1. Becomes(n, 7, m.y, 3, m.tx) /\ Drives(c.pins, 1)
    BY <1>0, <1>1, <1>10, CycleIs
  <2>2. m.tx = <<>> /\ m.y \in 0 .. 10
    BY <1>10 DEF Placed
  <2>3. Placed(n)
    BY <1>10, <2>1, <2>2 DEF Placed, Becomes
  <2>4. Level(n) = 1 /\ Level(m) = 0
    BY <1>1, <1>10, <2>1 DEF Level, Becomes
  <2>5. Left(m) = 11 * m.y + 7 /\ PulsesLeft(m) = m.y
    BY <1>10, LeftIs, PulsesLeftIs
  <2>6. Left(n) = 11 * m.y + 3 + 3 /\ PulsesLeft(n) = m.y
    BY <1>10, <2>1, <2>2, LeftIs, PulsesLeftIs DEF Becomes
  <2>7. p["clk"] > c.pins["clk"] <=> FALSE
    BY <1>1, <2>1, <2>4 DEF Drives
  <2>8. Drives(c.pins, Level(n))
    BY <1>1, <2>1, <2>4
  <2>9. Left(m) # 0 /\ Left(n) = Left(m) - 1
    <3> DEFINE a == 11 * m.y
    <3>1. a \in Nat
      BY <2>2
    <3>2. Left(m) = a + 7 /\ Left(n) = a + 3 + 3
      BY <2>5, <2>6
    <3> HIDE DEF a
    <3> QED
      BY <3>1, <3>2
  <2>10. PulsesLeft(m) = PulsesLeft(n) + 0
    BY <1>1, <1>10, <2>2, <2>5, <2>6
  <2> QED
    BY <2>3, <2>7, <2>8, <2>9, <2>10
<1>11. CASE m.delay = 0 /\ m.pc = 7 /\ m.y # 0
  <2>1. Becomes(n, 3, m.y - 1, 0, m.tx) /\ Drives(c.pins, p["clk"])
    BY <1>0, <1>1, <1>11, CycleIs
  <2>2. m.tx = <<>> /\ m.y \in 0 .. 10
    BY <1>11 DEF Placed
  <2>3. Placed(n)
    BY <1>11, <2>1, <2>2 DEF Placed, Becomes
  <2>4. Level(n) = p["clk"] /\ Level(m) = 1
    BY <1>1, <1>11, <2>1 DEF Level, Becomes
  <2>5. Left(m) = 11 * m.y + 3 + 0 /\ PulsesLeft(m) = m.y
    BY <1>11, LeftIs, PulsesLeftIs
  <2>6. Left(n) = 11 * (m.y - 1) + 13 /\ PulsesLeft(n) = (m.y - 1) + 1
    BY <1>11, <2>1, <2>2, LeftIs, PulsesLeftIs DEF Becomes
  <2>7. p["clk"] > c.pins["clk"] <=> FALSE
    BY <1>1, <2>1, <2>4 DEF Drives
  <2>8. Drives(c.pins, Level(n))
    BY <1>1, <2>1, <2>4
  <2>9. Left(m) # 0 /\ Left(n) = Left(m) - 1
    <3> DEFINE a == 11 * m.y
    <3>1. a \in Nat /\ 11 * (m.y + 1) = a + 11 /\ 11 * (m.y - 1) = a - 11
      BY <2>2
    <3>2. Left(m) = a + 3 + 0 /\ Left(n) = (a - 11) + 13
      BY <2>5, <2>6, <3>1
    <3> HIDE DEF a
    <3> QED
      BY <3>1, <3>2
  <2>10. PulsesLeft(m) = PulsesLeft(n) + 0
    BY <1>1, <1>11, <2>2, <2>5, <2>6
  <2> QED
    BY <2>3, <2>7, <2>8, <2>9, <2>10
<1>12. CASE m.delay = 0 /\ m.pc = 7 /\ m.y = 0
  <2>1. Becomes(n, 8, m.y - 1, 0, m.tx) /\ Drives(c.pins, p["clk"])
    BY <1>0, <1>1, <1>12, CycleIs
  <2>2. m.tx = <<>> /\ m.y \in 0 .. 10
    BY <1>12 DEF Placed
  <2>3. Placed(n)
    BY <1>12, <2>1, <2>2 DEF Placed, Becomes
  <2>4. Level(n) = p["clk"] /\ Level(m) = 1
    BY <1>1, <1>12, <2>1 DEF Level, Becomes
  <2>5. Left(m) = 3 /\ PulsesLeft(m) = 0
    BY <1>12, LeftIs, PulsesLeftIs
  <2>6. Left(n) = 2 /\ PulsesLeft(n) = 0
    BY <1>12, <2>1, <2>2, LeftIs, PulsesLeftIs DEF Becomes
  <2>7. p["clk"] > c.pins["clk"] <=> FALSE
    BY <1>1, <2>1, <2>4 DEF Drives
  <2>8. Drives(c.pins, Level(n))
    BY <1>1, <2>1, <2>4
  <2>9. Left(m) # 0 /\ Left(n) = Left(m) - 1
    BY <2>2, <2>5, <2>6
  <2>10. PulsesLeft(m) = PulsesLeft(n) + 0
    BY <1>1, <1>12, <2>2, <2>5, <2>6
  <2> QED
    BY <2>3, <2>7, <2>8, <2>9, <2>10
<1>13. CASE m.delay = 0 /\ m.pc = 8
  <2>1. Becomes(n, 1, m.y, 0, m.tx) /\ Drives(c.pins, 1)
    BY <1>0, <1>1, <1>13, CycleIs
  <2>2. m.tx = <<>>
    BY <1>13 DEF Placed
  <2>3. Placed(n)
    BY <1>13, <2>1, <2>2 DEF Placed, Becomes
  <2>4. Level(n) = 1 /\ Level(m) = 1
    BY <1>1, <1>13, <2>1 DEF Level, Becomes
  <2>5. Left(m) = 2 /\ PulsesLeft(m) = 0
    BY <1>13, LeftIs, PulsesLeftIs
  <2>6. Left(n) = 1 /\ PulsesLeft(n) = 0
    BY <1>13, <2>1, <2>2, LeftIs, PulsesLeftIs DEF Becomes
  <2>7. p["clk"] > c.pins["clk"] <=> FALSE
    BY <1>1, <2>1, <2>4 DEF Drives
  <2>8. Drives(c.pins, Level(n))
    BY <1>1, <2>1, <2>4
  <2>9. Left(m) # 0 /\ Left(n) = Left(m) - 1
    BY <2>2, <2>5, <2>6
  <2>10. PulsesLeft(m) = PulsesLeft(n) + 0
    BY <1>1, <1>13, <2>2, <2>5, <2>6
  <2> QED
    BY <2>3, <2>7, <2>8, <2>9, <2>10
<1>14. /\ m.pc \in 1 .. 8 /\ m.delay \in Nat /\ (m.delay > 0 => m.pc \in {5, 7})
       /\ m.delay = 0 \/ m.delay > 0
  BY DEF Placed
<1>15. \/ m.pc = 1 \/ m.pc = 2 \/ m.pc = 3 \/ m.pc = 4
       \/ m.pc = 5 \/ m.pc = 6 \/ m.pc = 7 \/ m.pc = 8
  BY <1>14
<1> HIDE DEF Goal
<1>16. CASE m.delay > 0
  <2>1. (m.delay > 0 /\ m.pc = 5) \/ (m.delay > 0 /\ m.pc = 7)
    BY <1>14, <1>16
  <2> QED
    BY <2>1, <1>2, <1>3, Zenon
<1>17. CASE m.delay = 0
  BY <1>4, <1>5, <1>6, <1>7, <1>8, <1>9, <1>10, <1>11, <1>12, <1>13, <1>15, <1>17, Zenon
<1> QED
  BY <1>14, <1>16, <1>17

-----------------------------------------------------------------------------
(* What is left of a frame ends within what is left of the pause.          *)
SendInv ==
    /\ Placed(sm) /\ Drives(pins, Level(sm))
    /\ pulses \in Int /\ due = pulses + PulsesLeft(sm)
    /\ gap \in Nat /\ Left(sm) <= gap
    /\ todo \in Seq(Keys)

LEMMA ReadyIs ==
  ASSUME Placed(sm)
  PROVE  TxReady <=> sm.pc = 2 /\ sm.tx = <<>>
<1>1. Instruction(TxConfig, sm).op = "pull" <=> sm.pc = 2
  BY Program, Config DEF Placed, Instruction, Set, Pull, Out, MovPins, Jmp
<1> QED
  BY <1>1 DEF Placed, TxReady, AwaitsWord

LEMMA SendInit ==
  ASSUME Keystroke >= FrameTicks, Init PROVE SendInv
<1>1. Placed(Idle) /\ Level(Idle) = 1
  BY DEF Placed, Machine, Idle, Level
<1>2. Left(Idle) = 1 /\ PulsesLeft(Idle) = 0
  BY DEF Left, PulsesLeft, Idle
<1>3. Keystroke \in Nat /\ 1 <= Keystroke
  BY LineAssumption DEF FrameTicks
<1>4. todo \in Seq(Keys)
  BY LineAssumption DEF Init
<1>5. Drives(pins, 1)
  BY DEF Init, Drives
<1>6. sm = Idle /\ pulses = 0 /\ due = 0 /\ gap = Keystroke
  BY DEF Init
<1> QED
  BY <1>1, <1>2, <1>3, <1>4, <1>5, <1>6 DEF SendInv

LEMMA SendKeeps ==
  ASSUME Keystroke >= FrameTicks, SendInv, Send PROVE SendInv'
<1> DEFINE key == Head(todo)
           word == Frame(key)
<1>1. todo \in Seq(Keys) /\ todo # <<>> /\ gap = 0 /\ todo' = Tail(todo) /\ gap' = Keystroke
  BY DEF SendInv, Send
<1>2. key \in Keys /\ todo' \in Seq(Keys)
  BY <1>1, HeadTailProperties
<1>3. sm.pc = 2 /\ sm.tx = <<>> /\ sm.delay = 0 /\ sm.y = 10 /\ Machine(sm) /\ sm.rx = <<>>
  BY <1>1, LeftNat DEF SendInv, Placed
<1> DEFINE count == IF key.mode = "Xt" THEN 8 ELSE 10
<1>4. /\ Becomes(sm', 2, count, 0, <<word>>) /\ pins' = pins /\ pulses' = pulses
      /\ due' = due + (IF key.mode = "Xt" THEN 9 ELSE 11)
  <2>1. sm' = [sm EXCEPT !.tx = Append(@, Frame(key)),
                         !.y = IF key.mode = "Xt" THEN XtLoopInit ELSE @]
    BY DEF Send
  <2>2. Append(<<>>, word) = <<word>>
    OBVIOUS
  <2>3. key.mode \in {"At", "Xt"}
    BY <1>2 DEF Keys
  <2> HIDE DEF word, key
  <2>4. Becomes(sm', 2, count, 0, <<Frame(key)>>)
    BY <1>3, <2>1, <2>2 DEF Becomes, Machine, XtLoopInit, word
  <2>5. due' = due + BitsOf(key) /\ pins' = pins /\ pulses' = pulses
    BY DEF Send, key
  <2>6. BitsOf(key) = IF key.mode = "Xt" THEN 9 ELSE 11
    BY <2>3 DEF BitsOf, AtBitCount, XtBitCount
  <2> QED
    BY <2>4, <2>5, <2>6 DEF word
<1> HIDE DEF key, word
<1>5. Placed(sm') /\ Level(sm') = 1
  BY <1>4 DEF Placed, Becomes, Level
<1>6. Left(sm') = 11 * (count + 1) + 3 /\ PulsesLeft(sm') = count + 1
  <2>1. sm'.pc = 2 /\ sm'.y = count /\ sm'.tx # <<>>
    BY <1>4 DEF Becomes
  <2> HIDE DEF count
  <2> QED
    BY <2>1, LeftIs, PulsesLeftIs
<1>7. Level(sm) = 1 /\ PulsesLeft(sm) = 0
  BY <1>3, PulsesLeftIs DEF Level
<1>8. Drives(pins', Level(sm'))
  BY <1>4, <1>5, <1>7 DEF SendInv
<1>9. pulses' \in Int /\ due' = pulses' + PulsesLeft(sm')
  BY <1>4, <1>6, <1>7 DEF SendInv
<1>10. gap' \in Nat /\ Left(sm') <= gap'
  BY <1>1, <1>6, LineAssumption DEF FrameTicks
<1> QED
  BY <1>2, <1>5, <1>8, <1>9, <1>10 DEF SendInv

LEMMA TickKeepsSend ==
  ASSUME SendInv, NEW spike \in BOOLEAN, Tick(spike) PROVE SendInv'
<1> DEFINE c == Cycle(TxConfig, sm, pins)
<1>1. /\ sm' = c.sm /\ pins' = c.pins /\ gap > 0 /\ gap' = gap - 1 /\ todo' = todo
      /\ pulses' = pulses + (IF pins["clk"] > c.pins["clk"] THEN 1 ELSE 0) /\ due' = due
  BY DEF Tick
<1>2. /\ Placed(c.sm) /\ Drives(c.pins, Level(c.sm))
      /\ Left(sm) = 0 => Left(c.sm) = 0
      /\ Left(sm) # 0 => Left(c.sm) = Left(sm) - 1
      /\ PulsesLeft(sm) = PulsesLeft(c.sm) + (IF pins["clk"] > c.pins["clk"] THEN 1 ELSE 0)
  BY Advances DEF SendInv
<1>3. Left(c.sm) \in Nat /\ Left(sm) \in Nat /\ PulsesLeft(c.sm) \in Int
  BY <1>2, LeftNat, PulsesLeftInt DEF SendInv
<1> HIDE DEF c
<1>4. gap' \in Nat /\ Left(sm') <= gap'
  BY <1>1, <1>2, <1>3 DEF SendInv
<1>5. pulses' \in Int /\ due' = pulses' + PulsesLeft(sm')
  BY <1>1, <1>2, <1>3 DEF SendInv
<1> QED
  BY <1>1, <1>2, <1>4, <1>5 DEF SendInv

LEMMA SendStep ==
  ASSUME Keystroke >= FrameTicks, SendInv, [Next]_vars PROVE SendInv'
<1>1. CASE Send
  BY <1>1, SendKeeps
<1>2. CASE \E spike \in BOOLEAN : Tick(spike)
  BY <1>2, TickKeepsSend
<1>3. CASE UNCHANGED txVars
  BY <1>3 DEF txVars, SendInv
<1> QED
  BY <1>1, <1>2, <1>3 DEF Next, Spike, HostHoldsClock, PollLate, Poll, vars

(* Both properties of the transmitter: the count is patched into a stalled *)
(* machine, and a frame has the clocks of its format.                      *)
THEOREM SendInvariant ==
  ASSUME Keystroke >= FrameTicks PROVE Spec => []SendInv
<1>1. Init => SendInv
  BY SendInit
<1>2. SendInv /\ [Next]_vars => SendInv'
  BY SendStep
<1> QED
  BY <1>1, <1>2, PTL DEF Spec

(* send_xt_byte's safety comment, and what makes it true: with the pause   *)
(* of type_byte (KEYSTROKE_GAP_MS) at least as long as a frame of eleven   *)
(* bits, whatever the bytes, the formats and their order, the loop counter *)
(* is only ever overridden in a machine that waits for a word.             *)
THEOREM StalledWhenSentTo ==
  ASSUME Keystroke >= FrameTicks PROVE Spec => []SendsToStalledMachine
<1>1. SendInv => SendsToStalledMachine
  BY LeftNat, ReadyIs DEF SendInv, SendsToStalledMachine
<1> QED
  BY <1>1, SendInvariant, PTL

(* The transmitter clocks out 11 pulses for an AT frame and 9 for an XT    *)
(* frame, in any order of the formats: the patched count is good for one   *)
(* frame and the program's own is back for the next.                       *)
THEOREM EveryBitClocked ==
  ASSUME Keystroke >= FrameTicks PROVE Spec => []ClocksPerFrame
<1>1. SendInv => ClocksPerFrame
  <2> SUFFICES ASSUME SendInv, TxReady PROVE pulses = due
    BY DEF ClocksPerFrame
  <2>1. PulsesLeft(sm) = 0
    BY ReadyIs, PulsesLeftIs DEF SendInv
  <2> QED
    BY <2>1 DEF SendInv
<1> QED
  BY <1>1, SendInvariant, PTL

-----------------------------------------------------------------------------
(* All the late polls there are do not make up for a ring, together with   *)
(* the time between two polls.                                             *)
InTime(late) ==
    /\ late \in Nat
    /\ \A d \in LateBy : d <= late
    /\ PollTicks + late * MaxDisturbed < RingWords

PollsInTime == \E late \in Nat : InTime(late)

Lateness == CHOOSE late : InTime(late)

(* How far the DMA channel is ahead of the reader.                         *)
Ahead(h, t) == IF h >= t THEN h - t ELSE (h + RingWords) - t

LEMMA ModOnce ==
  ASSUME NEW r \in Nat \ {0}, NEW x \in 0 .. r + r - 1
  PROVE  x % r = IF x < r THEN x ELSE x - r
<1>1. CASE x < r
  BY <1>1, SMTT(30)
<1>2. CASE ~(x < r)
  BY <1>2, SMTT(30)
<1> QED
  BY <1>1, <1>2

LEMMA RingIs ==
  ASSUME NEW h \in 0 .. RingWords - 1, NEW t \in 0 .. RingWords - 1
  PROVE  /\ (h + RingWords - t) % RingWords = Ahead(h, t)
         /\ Ahead(h, t) \in 0 .. RingWords - 1
         /\ (t + Ahead(h, t)) % RingWords = h
         /\ (h + 1) % RingWords = IF h + 1 = RingWords THEN 0 ELSE h + 1
         /\ (h + 1) % RingWords \in 0 .. RingWords - 1
         /\ (h + RingWords - 1) % RingWords \in 0 .. RingWords - 1
<1>1. RingWords \in Nat \ {0}
  BY LineAssumption
<1>2. Ahead(h, t) \in 0 .. RingWords - 1
  BY <1>1 DEF Ahead
<1>3. (h + RingWords - t) % RingWords = Ahead(h, t)
  <2> DEFINE x == h + RingWords - t
  <2>1. x \in 0 .. RingWords + RingWords - 1
    BY <1>1
  <2>2. x % RingWords = IF x < RingWords THEN x ELSE x - RingWords
    <3> HIDE DEF x
    <3> QED
      BY <1>1, <2>1, ModOnce
  <2> QED
    BY <1>1, <2>2 DEF Ahead
<1>4. (t + Ahead(h, t)) % RingWords = h
  <2> DEFINE x == t + Ahead(h, t)
  <2>1. x \in 0 .. RingWords + RingWords - 1
    BY <1>1, <1>2
  <2>2. x % RingWords = IF x < RingWords THEN x ELSE x - RingWords
    <3> HIDE DEF x
    <3> QED
      BY <1>1, <2>1, ModOnce
  <2> QED
    BY <1>1, <2>2 DEF Ahead
<1>5. (h + 1) % RingWords = IF h + 1 = RingWords THEN 0 ELSE h + 1
  <2>1. h + 1 \in 0 .. RingWords + RingWords - 1
    BY <1>1
  <2> QED
    BY <1>1, <2>1, ModOnce
<1>6. (h + RingWords - 1) % RingWords \in 0 .. RingWords - 1
  <2>1. h + RingWords - 1 \in 0 .. RingWords + RingWords - 1
    BY <1>1
  <2> QED
    BY <1>1, <2>1, ModOnce
<1> QED
  BY <1>1, <1>2, <1>3, <1>4, <1>5, <1>6

LEMMA LesserIs ==
  ASSUME NEW a \in Int, NEW b \in Int, b <= a PROVE Min({a, b}) = b
<1>1. b \in {a, b} /\ \A y \in {a, b} : b =< y
  OBVIOUS
<1>2. \A x \in {a, b} : (\A y \in {a, b} : x =< y) => x = b
  OBVIOUS
<1> QED
  BY <1>1, <1>2, Zenon DEF Min

(* A word is passed over only where an overrun is counted: the channel     *)
(* never gets round the ring between two polls.                            *)
RingInv ==
    /\ head \in 0 .. RingWords - 1 /\ tail \in 0 .. RingWords - 1
    /\ pollIn \in Nat /\ disturbed \in 0 .. MaxDisturbed
    /\ Ahead(head, tail) + pollIn + Lateness * (MaxDisturbed - disturbed)
         <= PollTicks + Lateness * MaxDisturbed
    /\ OverrunsCounted

LEMMA LatenessIs ==
  ASSUME PollsInTime PROVE InTime(Lateness)
  BY DEF PollsInTime, Lateness

(* The lateness still to come, before and after a disturbance.             *)
LEMMA Slack ==
  ASSUME NEW l \in Nat, NEW m \in Nat, NEW d \in 0 .. m
  PROVE  /\ l * (m - d) \in Nat /\ l * (m - d) <= l * m
         /\ d < m => l * (m - d) = l + l * (m - (d + 1))
<1>1. \A k \in Nat : l * k \in Nat /\ l * (k + 1) = l + l * k
  OBVIOUS
<1>2. m - d \in Nat
  OBVIOUS
<1>3. ASSUME d < m PROVE l * (m - d) = l + l * (m - (d + 1))
  <2>1. m - (d + 1) \in Nat /\ m - d = (m - (d + 1)) + 1
    BY <1>3
  <2> QED
    BY <1>1, <2>1
<1>4. l * (m - d) <= l * m
  <2>1. l * m = l * (m - d) + l * d
    OBVIOUS
  <2>2. l * (m - d) \in Nat /\ l * d \in Nat
    BY <1>1, <1>2
  <2> QED
    BY <2>1, <2>2
<1> QED
  BY <1>1, <1>2, <1>3, <1>4

LEMMA PendingIs ==
  ASSUME head \in 0 .. RingWords - 1, tail \in 0 .. RingWords - 1
  PROVE  Pending = Ahead(head, tail) /\ Pending \in 0 .. RingWords - 1
  BY RingIs DEF Pending

LEMMA RingInit ==
  ASSUME PollsInTime, Init PROVE RingInv
<1>1. Ahead(0, 0) = 0
  BY DEF Ahead
<1>2. Lateness * (MaxDisturbed - 0) = Lateness * MaxDisturbed /\ Lateness * MaxDisturbed \in Nat
  BY LatenessIs, LineAssumption DEF InTime
<1>3. head = 0 /\ tail = 0 /\ pollIn = PollTicks /\ disturbed = 0 /\ ~gone
  BY DEF Init
<1>4. 0 \in 0 .. RingWords - 1 /\ PollTicks \in Nat /\ 0 \in 0 .. MaxDisturbed
  BY LineAssumption
<1> QED
  BY <1>1, <1>2, <1>3, <1>4 DEF RingInv, OverrunsCounted

LEMMA TickKeepsRing ==
  ASSUME PollsInTime, RingInv, NEW spike \in BOOLEAN, Tick(spike),
         spike => disturbed < MaxDisturbed
  PROVE  RingInv'
<1> DEFINE a == Ahead(head, tail)
           slack == Lateness * (MaxDisturbed - disturbed)
           bound == PollTicks + Lateness * MaxDisturbed
<1>1. /\ pollIn > 0 /\ pollIn' = pollIn - 1 /\ tail' = tail /\ overruns' = overruns
      /\ disturbed' = disturbed + (IF spike THEN 1 ELSE 0)
  BY DEF Tick, readVars
<1>2. /\ head' = (head + 1) % RingWords
      /\ gone' = (gone \/ (head + 1) % RingWords = tail)
  BY DEF Tick, Written
<1>3. /\ a \in 0 .. RingWords - 1 /\ head' \in 0 .. RingWords - 1
      /\ head' = IF head + 1 = RingWords THEN 0 ELSE head + 1
  BY <1>2, RingIs DEF RingInv
<1>4. slack \in Nat /\ bound \in Nat /\ bound < RingWords
  BY Slack, LatenessIs, LineAssumption DEF RingInv, InTime
<1>5. a + pollIn + slack <= bound /\ pollIn \in Nat
  BY DEF RingInv
<1> HIDE DEF slack, bound
<1>6. a + 1 < RingWords
  BY <1>1, <1>3, <1>4, <1>5, LineAssumption
<1>7. head' # tail /\ Ahead(head', tail') = a + 1
  BY <1>1, <1>3, <1>6, LineAssumption DEF RingInv, Ahead
<1>8. disturbed' \in 0 .. MaxDisturbed
  BY <1>1, LineAssumption DEF RingInv
<1>9. Lateness * (MaxDisturbed - disturbed') \in Nat
      /\ Lateness * (MaxDisturbed - disturbed') <= slack
  <2>1. CASE spike
    BY <1>1, <2>1, Slack, LatenessIs, LineAssumption DEF RingInv, InTime, slack
  <2>2. CASE ~spike
    BY <1>1, <1>4, <2>2 DEF slack, RingInv
  <2> QED
    BY <2>1, <2>2
<1>10. OverrunsCounted'
  BY <1>1, <1>2, <1>7 DEF RingInv, OverrunsCounted
<1> DEFINE slack2 == Lateness * (MaxDisturbed - disturbed')
<1>11. slack2 \in Nat /\ slack2 <= slack
  BY <1>9
<1> HIDE DEF slack2, a
<1>12. Ahead(head', tail') + pollIn' + slack2 <= bound
  BY <1>1, <1>3, <1>4, <1>5, <1>7, <1>11
<1> QED
  BY <1>1, <1>3, <1>5, <1>8, <1>10, <1>12 DEF RingInv, slack2, bound

(* A poll takes every word there is: its limit is the most there can be.   *)
LEMMA PollTakesAll ==
  ASSUME head \in 0 .. RingWords - 1, tail \in 0 .. RingWords - 1, Poll
  PROVE  tail' = head
<1> DEFINE from == IF Overrun THEN Resync ELSE tail
           waiting == (head + RingWords - from) % RingWords
           n == Min({Batch, waiting})
<1>1. from \in 0 .. RingWords - 1
  BY RingIs DEF Resync
<1>2. tail' = (from + n) % RingWords
  BY DEF Poll
<1> HIDE DEF from
<1>3. /\ waiting = Ahead(head, from) /\ waiting \in 0 .. RingWords - 1
      /\ (from + waiting) % RingWords = head
  BY <1>1, RingIs
<1> HIDE DEF waiting
<1>4. n = waiting
  BY <1>3, LesserIs, LineAssumption DEF Batch
<1> QED
  BY <1>2, <1>3, <1>4

LEMMA PollKeepsRing ==
  ASSUME PollsInTime, RingInv, Poll PROVE RingInv'
<1> DEFINE slack == Lateness * (MaxDisturbed - disturbed)
           most == Lateness * MaxDisturbed
<1>1. head' = head /\ disturbed' = disturbed /\ pollIn' = PollTicks
  BY DEF Poll
<1>2. tail' = head
  BY PollTakesAll DEF RingInv
<1>3. OverrunsCounted'
  <2>1. gone' = (gone \/ (Overrun /\ Pending > 1)) /\ overruns' = (overruns \/ Overrun)
    BY DEF Poll
  <2> QED
    BY <2>1 DEF RingInv, OverrunsCounted
<1>4. Ahead(head', tail') = 0
  BY <1>1, <1>2 DEF Ahead, RingInv
<1>5. slack <= most /\ slack \in Nat /\ most \in Nat
  BY Slack, LatenessIs, LineAssumption DEF RingInv, InTime
<1>6. slack = Lateness * (MaxDisturbed - disturbed') /\ most = Lateness * MaxDisturbed
  BY <1>1
<1> HIDE DEF slack, most
<1>7. Ahead(head', tail') + pollIn' + slack <= PollTicks + most
  BY <1>1, <1>4, <1>5, LineAssumption
<1>8. /\ head' \in 0 .. RingWords - 1 /\ tail' \in 0 .. RingWords - 1
      /\ pollIn' \in Nat /\ disturbed' \in 0 .. MaxDisturbed
  BY <1>1, <1>2, LineAssumption DEF RingInv
<1> QED
  BY <1>3, <1>6, <1>7, <1>8 DEF RingInv

LEMMA DisturbedKeepsRing ==
  ASSUME PollsInTime, RingInv, disturbed < MaxDisturbed, disturbed' = disturbed + 1,
         UNCHANGED ringVars, overruns' = overruns, NEW late \in Nat, late <= Lateness,
         pollIn' = pollIn + late
  PROVE  RingInv'
<1> DEFINE slack == Lateness * (MaxDisturbed - disturbed)
           slack2 == Lateness * (MaxDisturbed - (disturbed + 1))
           most == Lateness * MaxDisturbed
<1>1. head' = head /\ tail' = tail /\ gone' = gone
  BY DEF ringVars
<1>2. /\ disturbed \in Nat /\ MaxDisturbed \in Nat /\ disturbed + 1 \in 0 .. MaxDisturbed
      /\ Lateness \in Nat
  BY LatenessIs, LineAssumption DEF RingInv, InTime
<1>3. slack = Lateness + slack2 /\ slack2 \in Nat /\ slack \in Nat /\ most \in Nat
  BY <1>2, Slack DEF RingInv
<1>4. Ahead(head, tail) + pollIn + slack <= PollTicks + most /\ Ahead(head, tail) \in Nat
  BY RingIs DEF RingInv
<1>5. slack2 = Lateness * (MaxDisturbed - disturbed') /\ most = Lateness * MaxDisturbed
  OBVIOUS
<1> HIDE DEF slack, slack2, most
<1>6. Ahead(head, tail) + pollIn' + slack2 <= PollTicks + most
  BY <1>2, <1>3, <1>4, LineAssumption DEF RingInv
<1> QED
  BY <1>1, <1>2, <1>5, <1>6 DEF RingInv, OverrunsCounted

LEMMA RingStep ==
  ASSUME PollsInTime, RingInv, [Next]_vars PROVE RingInv'
<1>1. CASE Send
  BY <1>1 DEF Send, RingInv, OverrunsCounted, ringVars, readVars
<1>2. CASE Tick(FALSE)
  BY <1>2, TickKeepsRing
<1>3. CASE Spike
  BY <1>3, TickKeepsRing DEF Spike
<1>4. CASE HostHoldsClock
  <2>1. pollIn' = pollIn + 0 /\ 0 <= Lateness
    BY <1>4, LatenessIs DEF HostHoldsClock, RingInv, InTime
  <2> QED
    BY <1>4, <2>1, DisturbedKeepsRing DEF HostHoldsClock, readVars
<1>5. CASE PollLate
  <2>1. PICK late \in LateBy : pollIn' = late
    BY <1>5 DEF PollLate
  <2>2. late \in Nat /\ late <= Lateness /\ pollIn = 0
    BY <1>5, LatenessIs, LineAssumption DEF PollLate, InTime
  <2>3. /\ disturbed < MaxDisturbed /\ disturbed' = disturbed + 1
        /\ UNCHANGED ringVars /\ overruns' = overruns
    BY <1>5 DEF PollLate, readVars
  <2>4. pollIn' = pollIn + late
    BY <2>1, <2>2
  <2> QED
    BY <2>2, <2>3, <2>4, DisturbedKeepsRing
<1>6. CASE Poll
  BY <1>6, PollKeepsRing
<1>7. CASE UNCHANGED vars
  BY <1>7 DEF vars, ringVars, readVars, RingInv, OverrunsCounted
<1> QED
  BY <1>1, <1>2, <1>3, <1>4, <1>5, <1>6, <1>7 DEF Next

(* oversampler.rs: "the resync path handles real overruns separately".  As *)
(* long as the polls of a ring's time are not all late together, a word of *)
(* samples is only passed over with the counter of overruns going up: the  *)
(* reader's difference modulo the ring is what is really pending.          *)
THEOREM NoSilentOverrun ==
  ASSUME PollsInTime PROVE Spec => []OverrunsCounted
<1>1. Init => RingInv
  BY RingInit
<1>2. RingInv /\ [Next]_vars => RingInv'
  BY RingStep
<1>3. RingInv => OverrunsCounted
  BY DEF RingInv
<1> QED
  BY <1>1, <1>2, <1>3, PTL DEF Spec

-----------------------------------------------------------------------------
(* The reader of the ring: the framer and what run keeps with it, for      *)
(* samples whose levels are in D.                                          *)
Samples(D) == [clk : D, pull : D, data : D]
Framers(D) == [bits : Seq(D), clk : D, sinceEdge : Nat, sinceFall : 0 .. IdleTimeout]
Passed == [kind : {"At", "Xt", "Invalid"}, own : BOOLEAN]
Readers(D) == [framer : Framers(D), selfAge : Nat, own : BOOLEAN, forwarded : SUBSET Passed]

Reader == [framer |-> framer, selfAge |-> selfAge, own |-> own, forwarded |-> forwarded]

(* The guard of SELF_TX_GUARD_US outlasts the silences that disturbances   *)
(* can put between the bits of one frame, each below IDLE_TIMEOUT_US.      *)
GuardCovers ==
    /\ SelfTxGuard \in Nat
    /\ (MaxDisturbed + 1) * IdleTimeout < SelfTxGuard

LEMMA Grows ==
  ASSUME NEW s \in Nat, NEW t \in Nat
  PROVE  /\ s * IdleTimeout \in Nat
         /\ s <= t => s * IdleTimeout <= t * IdleTimeout
         /\ s < t => s * IdleTimeout + IdleTimeout <= t * IdleTimeout
         /\ (t + 1) * IdleTimeout = t * IdleTimeout + IdleTimeout
<1>1. IdleTimeout \in Nat
  BY TimesAssumption
<1>2. \A k \in Nat : k * IdleTimeout \in Nat /\ (k + 1) * IdleTimeout = k * IdleTimeout + IdleTimeout
  BY <1>1
<1>3. ASSUME s <= t PROVE s * IdleTimeout <= t * IdleTimeout
  <2>1. PICK d \in Nat : t = s + d
    BY <1>3
  <2>2. t * IdleTimeout = s * IdleTimeout + d * IdleTimeout
    BY <1>1, <2>1
  <2> QED
    BY <1>2, <2>2
<1>4. ASSUME s < t PROVE s * IdleTimeout + IdleTimeout <= t * IdleTimeout
  <2>1. PICK d \in Nat : t = (s + 1) + d
    BY <1>4
  <2>2. t * IdleTimeout = (s + 1) * IdleTimeout + d * IdleTimeout
    BY <1>1, <2>1
  <2>3. d * IdleTimeout \in Nat /\ (s + 1) * IdleTimeout = s * IdleTimeout + IdleTimeout
    BY <1>2
  <2>4. s * IdleTimeout \in Nat
    BY <1>2
  <2> HIDE DEF GuardCovers
  <2> QED
    BY <1>1, <2>2, <2>3, <2>4
<1> QED
  BY <1>2, <1>3, <1>4

(* What one sample does to the framer.                                     *)
TimedOut(f) == f.bits # <<>> /\ f.sinceFall >= IdleTimeout

LEMMA EmitIs ==
  ASSUME NEW b PROVE EmitOnTimeout(b).kind \in {"Xt", "Invalid"}
  BY DEF EmitOnTimeout, BuildFrame

LEMMA FallIs ==
  ASSUME NEW D, NEW f \in Framers(D), NEW data \in D, NEW i, i = OnClkFall(f, data)
  PROVE  /\ i.f \in Framers(D) /\ i.f.clk = f.clk /\ i.f.sinceFall = 0
         /\ \/ i.frame = NoFrame /\ i.f.bits # <<>> /\ i.f.bits # f.bits
            \/ i.frame.kind = "At" /\ i.f.bits = <<>>
<1> DEFINE b == Append(f.bits, data)
           g == [f EXCEPT !.bits = b, !.sinceFall = 0]
<1>1. f.bits \in Seq(D) /\ b \in Seq(D) /\ Len(b) = Len(f.bits) + 1 /\ Len(f.bits) \in Nat
  BY AppendProperties DEF Framers
<1>2. b # <<>> /\ b # f.bits
  BY <1>1
<1>3. <<>> \in Seq(D) /\ 0 \in 0 .. IdleTimeout
  BY TimesAssumption
<1>4. i = IF Len(b) >= AtBitCount THEN [f |-> ResetIdle(g), frame |-> BuildFrame("At", b)]
          ELSE [f |-> g, frame |-> NoFrame]
  BY DEF OnClkFall
<1> HIDE DEF b
<1>5. g \in Framers(D) /\ g.clk = f.clk /\ g.sinceFall = 0 /\ g.bits = b
  BY <1>1, <1>3 DEF Framers
<1> HIDE DEF g
<1>6. /\ ResetIdle(g) \in Framers(D) /\ ResetIdle(g).clk = f.clk /\ ResetIdle(g).sinceFall = 0
      /\ ResetIdle(g).bits = <<>>
  BY <1>3, <1>5 DEF ResetIdle, Framers
<1>7. BuildFrame("At", b).kind = "At"
  BY DEF BuildFrame
<1> QED
  BY <1>2, <1>4, <1>5, <1>6, <1>7

LEMMA IngestIs ==
  ASSUME NEW D, NEW f \in Framers(D), NEW clk \in D, NEW data \in D,
         NEW i, i = Ingest(f, clk, data)
  PROVE  /\ i.f \in Framers(D) /\ i.f.clk = clk
         /\ i.f.bits # <<>> => i.f.sinceFall < IdleTimeout
         /\ \/ i.frame.kind \in {"Xt", "Invalid"} /\ TimedOut(f) /\ i.f.bits = <<>>
            \/ i.frame = NoFrame /\ i.f.bits = f.bits /\ i.f.sinceFall = f.sinceFall
            \/ /\ f.clk # 0 /\ clk = 0 /\ ~TimedOut(f)
               /\ i.f.sinceFall = 0
               /\ \/ i.frame = NoFrame /\ i.f.bits # <<>> /\ i.f.bits # f.bits
                  \/ i.frame.kind = "At" /\ i.f.bits = <<>>
<1> DEFINE g == [f EXCEPT !.clk = clk]
           h == [g EXCEPT !.sinceEdge = 0]
           edge == f.clk # NoLevel /\ f.clk # clk
<1>0. <<>> \in Seq(D) /\ 0 \in 0 .. IdleTimeout /\ 0 < IdleTimeout /\ IdleTimeout \in Nat
  BY TimesAssumption
<1>1. g \in Framers(D) /\ g.clk = clk /\ g.bits = f.bits /\ g.sinceFall = f.sinceFall
  BY DEF Framers
<1>2. i = IF f.bits # <<>> /\ f.sinceFall >= IdleTimeout
          THEN [f |-> ResetIdle(g), frame |-> EmitOnTimeout(f.bits)]
          ELSE IF ~edge THEN [f |-> g, frame |-> NoFrame]
          ELSE IF f.sinceEdge >= GlitchThreshold /\ clk = 0
          THEN OnClkFall(h, data) ELSE [f |-> h, frame |-> NoFrame]
  BY DEF Ingest
<1> HIDE DEF g
<1>3. h \in Framers(D) /\ h.clk = clk /\ h.bits = f.bits /\ h.sinceFall = f.sinceFall
  BY <1>1 DEF Framers
<1> HIDE DEF h
<1>4. f.sinceFall \in Nat
  BY <1>0 DEF Framers
<1>5. CASE TimedOut(f)
  <2>1. i = [f |-> ResetIdle(g), frame |-> EmitOnTimeout(f.bits)]
    BY <1>2, <1>5 DEF TimedOut
  <2>2. ResetIdle(g) \in Framers(D) /\ ResetIdle(g).clk = clk /\ ResetIdle(g).bits = <<>>
    BY <1>0, <1>1 DEF ResetIdle, Framers
  <2> QED
    BY <1>5, <2>1, <2>2, EmitIs
<1>6. CASE ~TimedOut(f) /\ ~(edge /\ f.sinceEdge >= GlitchThreshold /\ clk = 0)
  <2>1. i = [f |-> g, frame |-> NoFrame] \/ i = [f |-> h, frame |-> NoFrame]
    BY <1>2, <1>6 DEF TimedOut
  <2>2. f.bits # <<>> => f.sinceFall < IdleTimeout
    BY <1>0, <1>4, <1>6 DEF TimedOut
  <2> QED
    BY <1>1, <1>3, <2>1, <2>2
<1>7. CASE ~TimedOut(f) /\ edge /\ f.sinceEdge >= GlitchThreshold /\ clk = 0
  <2>1. i = OnClkFall(h, data)
    BY <1>2, <1>7 DEF TimedOut
  <2>2. /\ i.f \in Framers(D) /\ i.f.clk = clk /\ i.f.sinceFall = 0
        /\ \/ i.frame = NoFrame /\ i.f.bits # <<>> /\ i.f.bits # f.bits
           \/ i.frame.kind = "At" /\ i.f.bits = <<>>
    BY <1>3, <2>1, FallIs
  <2> QED
    BY <1>0, <1>7, <2>2
<1> QED
  BY <1>5, <1>6, <1>7

(* A frame with a bit of ours is younger than the disturbances it took:    *)
(* each can have put off its end by less than the idle timeout.  s counts  *)
(* the disturbances up to the last word read.                              *)
Settled(r, s) ==
    /\ r.own => r.framer.bits # <<>> /\ r.selfAge <= s * IdleTimeout + r.framer.sinceFall
    /\ \A f \in r.forwarded : ~f.own

Timed(r) == r.framer.bits # <<>> => r.framer.sinceFall < IdleTimeout

(* The parts of a sample's effect on the keyboard's reader.                *)
AgeAt(r, x) == IF x.pull = 0 THEN 0 ELSE r.selfAge
Took(r, x) == Ingest(r.framer, x.clk, x.data)
Fell(r, x) == Took(r, x).f.bits # r.framer.bits \/ Took(r, x).frame.kind # "None"
Mine(r, x) == r.own \/ (Fell(r, x) /\ x.pull = 0)

LEMMA SampledIs ==
  ASSUME wire = "kbd", NEW r, NEW x
  PROVE  Sampled(r, x) =
           [framer |-> Took(r, x).f, selfAge |-> AgeAt(r, x),
            own |-> Mine(r, x) /\ Took(r, x).frame.kind = "None",
            forwarded |-> IF Took(r, x).frame.kind # "None" /\ ~(AgeAt(r, x) < SelfTxGuard)
                          THEN r.forwarded \cup {[kind |-> Took(r, x).frame.kind,
                                                  own |-> Mine(r, x)]}
                          ELSE r.forwarded]
<1>1. (x.pull = 0 \/ wire = "aux") = (x.pull = 0)
  OBVIOUS
<1> QED
  BY <1>1 DEF Sampled, KbdPasses, SelfDriven, AgeAt, Took, Fell, Mine

LEMMA SampleKeeps ==
  ASSUME wire = "kbd", GuardCovers, MaxDisturbed \in Nat,
         NEW D, NEW r \in Readers(D), NEW x \in Samples(D), NEW q, q = Sampled(r, x),
         NEW s \in Nat, NEW t \in Nat, s <= t, t <= MaxDisturbed, Settled(r, s),
         r.framer.clk # 0 /\ x.clk = 0 /\ x.pull # 0 => s < t
  PROVE  q \in Readers(D) /\ Settled(q, t) /\ Timed(q) /\ q.framer.clk = x.clk
<1> DEFINE age == AgeAt(r, x)
           i == Took(r, x)
           fell == Fell(r, x)
           mine == Mine(r, x)
           G == SelfTxGuard
           lag == IdleTimeout
           si == s * IdleTimeout
           ti == t * IdleTimeout
<1>1. /\ r.framer \in Framers(D) /\ x.clk \in D /\ x.data \in D /\ r.own \in BOOLEAN
      /\ r.selfAge \in Nat /\ r.forwarded \in SUBSET Passed /\ r.framer.sinceFall \in 0 .. lag
  BY DEF Readers, Samples, Framers
<1>2. q = [framer |-> i.f, selfAge |-> age, own |-> mine /\ i.frame.kind = "None",
           forwarded |-> IF i.frame.kind # "None" /\ ~(age < G)
                         THEN r.forwarded \cup {[kind |-> i.frame.kind, own |-> mine]}
                         ELSE r.forwarded]
  BY SampledIs
<1>3. /\ i.f \in Framers(D) /\ i.f.clk = x.clk
      /\ i.f.bits # <<>> => i.f.sinceFall < lag
      /\ \/ i.frame.kind \in {"Xt", "Invalid"} /\ TimedOut(r.framer) /\ i.f.bits = <<>>
         \/ i.frame = NoFrame /\ i.f.bits = r.framer.bits /\ i.f.sinceFall = r.framer.sinceFall
         \/ /\ r.framer.clk # 0 /\ x.clk = 0 /\ ~TimedOut(r.framer)
            /\ i.f.sinceFall = 0
            /\ \/ i.frame = NoFrame /\ i.f.bits # <<>> /\ i.f.bits # r.framer.bits
               \/ i.frame.kind = "At" /\ i.f.bits = <<>>
  BY <1>1, IngestIs DEF Took
<1>4. NoFrame.kind = "None"
  BY DEF NoFrame
<1>5. /\ si \in Nat /\ ti \in Nat /\ si <= ti /\ (s < t => si + lag <= ti)
      /\ ti + lag < G /\ lag \in Nat /\ G \in Nat
  <2>1. si \in Nat /\ ti \in Nat /\ si <= ti /\ (s < t => si + lag <= ti)
    BY Grows
  <2>2. t * IdleTimeout <= MaxDisturbed * IdleTimeout
        /\ (MaxDisturbed + 1) * IdleTimeout = MaxDisturbed * IdleTimeout + IdleTimeout
    BY Grows
  <2>3. MaxDisturbed * IdleTimeout \in Nat
    BY Grows
  <2> QED
    BY <2>1, <2>2, <2>3, TimesAssumption DEF GuardCovers
<1>6. /\ r.own => r.framer.bits # <<>> /\ r.selfAge <= si + r.framer.sinceFall
      /\ \A f \in r.forwarded : ~f.own
  BY DEF Settled
<1>7. age \in Nat /\ age <= r.selfAge /\ (x.pull = 0 => age = 0)
  BY <1>1 DEF AgeAt
<1>8. TimedOut(r.framer) \/ r.framer.bits = <<>> \/ r.framer.sinceFall < lag
  BY <1>1, <1>5 DEF TimedOut
<1>9. fell \in BOOLEAN /\ mine \in BOOLEAN
  BY <1>1 DEF Fell, Mine
<1>10. (fell <=> i.f.bits # r.framer.bits \/ i.frame.kind # "None")
       /\ (mine <=> r.own \/ (fell /\ x.pull = 0))
  BY DEF Fell, Mine
<1> HIDE DEF age, i, fell, mine, G, lag, si, ti
<1>11. mine => age < G
  BY <1>1, <1>5, <1>6, <1>7, <1>10
<1>12. i.frame.kind # "None" /\ ~(age < G) => ~mine /\ i.frame.kind \in {"At", "Xt", "Invalid"}
  BY <1>3, <1>4, <1>10, <1>11
<1>13. q.forwarded \in SUBSET Passed /\ \A f \in q.forwarded : ~f.own
  BY <1>1, <1>2, <1>6, <1>9, <1>12 DEF Passed
<1>14. q \in Readers(D)
  <2>1. (mine /\ i.frame.kind = "None") \in BOOLEAN
    OBVIOUS
  <2> QED
    BY <1>2, <1>3, <1>7, <1>13, <2>1 DEF Readers
<1>15. ASSUME mine, i.frame.kind = "None"
       PROVE  i.f.bits # <<>> /\ age <= ti + i.f.sinceFall
  <2>1. CASE i.f.bits = r.framer.bits /\ i.f.sinceFall = r.framer.sinceFall
    <3>1. r.own
      BY <1>10, <1>15, <2>1
    <3> QED
      BY <1>1, <1>5, <1>6, <1>7, <2>1, <3>1
  <2>2. CASE /\ r.framer.clk # 0 /\ x.clk = 0 /\ ~TimedOut(r.framer)
             /\ i.f.sinceFall = 0 /\ i.f.bits # <<>>
    <3>1. CASE x.pull = 0
      BY <1>5, <1>7, <2>2, <3>1
    <3>2. CASE x.pull # 0
      <4>1. r.own /\ s < t
        BY <1>10, <1>15, <2>2, <3>2
      <4> QED
        BY <1>1, <1>5, <1>6, <1>7, <1>8, <2>2, <4>1
    <3> QED
      BY <3>1, <3>2
  <2> QED
    BY <1>3, <1>15, <2>1, <2>2
<1>16. Settled(q, t)
  <2>1. q.own => i.f.bits # <<>> /\ age <= ti + i.f.sinceFall
    <3> DEFINE b == mine /\ i.frame.kind = "None"
    <3>1. b => mine /\ i.frame.kind = "None"
      OBVIOUS
    <3>2. q.own = b
      <4> HIDE DEF b
      <4> QED
        BY <1>2 DEF b
    <3> HIDE DEF b
    <3> QED
      BY <1>15, <3>1, <3>2, Zenon
  <2>2. q.framer = i.f /\ q.selfAge = age
    BY <1>2
  <2> QED
    BY <1>13, <2>1, <2>2, Zenon DEF Settled, ti
<1>17. Timed(q) /\ q.framer.clk = x.clk
  BY <1>2, <1>3 DEF Timed, lag
<1> QED
  BY <1>14, <1>16, <1>17

(* A sample of an undecoded or a driven line passes nothing.               *)
LEMMA NothingPasses ==
  ASSUME wire = "kbd", GuardCovers,
         NEW D, NEW r \in Readers(D), NEW x \in Samples(D), NEW q, q = Sampled(r, x),
         r.selfAge = 0 \/ x.pull = 0, r.forwarded = {}
  PROVE  q.selfAge = 0 /\ q.forwarded = {}
<1> DEFINE age == AgeAt(r, x)
<1>1. age = 0 /\ 0 < SelfTxGuard
  <2>1. (MaxDisturbed + 1) * IdleTimeout \in Nat /\ SelfTxGuard \in Nat
    BY Grows, LineAssumption, TimesAssumption DEF GuardCovers
  <2> QED
    BY <2>1 DEF GuardCovers, AgeAt
<1> DEFINE i == Took(r, x)
           mine == Mine(r, x)
<1>2. q = [framer |-> i.f, selfAge |-> age, own |-> mine /\ i.frame.kind = "None",
           forwarded |-> IF i.frame.kind # "None" /\ ~(age < SelfTxGuard)
                         THEN r.forwarded \cup {[kind |-> i.frame.kind, own |-> mine]}
                         ELSE r.forwarded]
  BY SampledIs
<1> HIDE DEF i, mine, age
<1> QED
  BY <1>1, <1>2

(* Between two words everything is a tick older.                           *)
LEMMA LesserOf ==
  ASSUME NEW a \in Nat, NEW b \in Nat
  PROVE  Min({a, b}) \in Nat /\ Min({a, b}) <= a /\ Min({a, b}) <= b
         /\ (a <= b => Min({a, b}) = a)
<1>1. {a, b} = {b, a}
  OBVIOUS
<1>2. CASE a <= b
  BY <1>1, <1>2, LesserIs
<1>3. CASE ~(a <= b)
  <2>1. Min({a, b}) = b
    BY <1>3, LesserIs
  <2> QED
    BY <1>3, <2>1
<1> QED
  BY <1>2, <1>3

LEMMA AgedKeeps ==
  ASSUME GuardCovers, NEW D, NEW r \in Readers(D), NEW q, q = Aged(r)
  PROVE  /\ q \in Readers(D) /\ q.framer.clk = r.framer.clk /\ q.forwarded = r.forwarded
         /\ \A s \in Nat : Settled(r, s) /\ Timed(r) => Settled(q, s)
<1> DEFINE f == r.framer
           g == Older(f)
           e == Min({f.sinceEdge + 1, IdleTimeout})
           d == Min({f.sinceFall + 1, IdleTimeout})
           a == Min({r.selfAge + 1, SelfTxGuard})
<1>1. /\ f \in Framers(D) /\ f.sinceEdge \in Nat /\ f.sinceFall \in 0 .. IdleTimeout
      /\ r.selfAge \in Nat /\ IdleTimeout \in Nat /\ SelfTxGuard \in Nat
  BY TimesAssumption DEF Readers, Framers, GuardCovers
<1>2. e \in Nat
  BY <1>1, LesserOf
<1>3. d \in 0 .. IdleTimeout /\ (f.sinceFall < IdleTimeout => d = f.sinceFall + 1)
  BY <1>1, LesserOf
<1>4. a \in Nat /\ a <= r.selfAge + 1
  BY <1>1, LesserOf
<1>5. g = [f EXCEPT !.sinceEdge = e, !.sinceFall = d]
  BY Zenon DEF Older
<1> HIDE DEF e, d
<1>6. g \in Framers(D) /\ g.clk = f.clk /\ g.bits = f.bits /\ g.sinceFall = d
  BY <1>1, <1>2, <1>3, <1>5 DEF Framers
<1>7. q = [r EXCEPT !.framer = g, !.selfAge = a]
  BY Zenon DEF Aged
<1> HIDE DEF g, a
<1>8. /\ q \in Readers(D) /\ q.framer = g /\ q.selfAge = a /\ q.own = r.own
      /\ q.forwarded = r.forwarded
  BY <1>4, <1>6, <1>7 DEF Readers
<1>9. ASSUME NEW s \in Nat, Settled(r, s), Timed(r) PROVE Settled(q, s)
  <2>1. s * IdleTimeout \in Nat
    BY Grows
  <2>2. r.own => r.framer.bits # <<>> /\ r.selfAge <= s * IdleTimeout + f.sinceFall
    BY <1>9 DEF Settled
  <2>3. r.own => f.sinceFall < IdleTimeout
    BY <1>9, <2>2 DEF Timed
  <2> DEFINE u == s * IdleTimeout
  <2>4. u \in Nat /\ (r.own => r.selfAge <= u + f.sinceFall)
    BY <2>1, <2>2
  <2> HIDE DEF u
  <2>5. r.own => a <= u + d
    BY <1>1, <1>3, <1>4, <2>3, <2>4
  <2>6. r.own => q.framer.bits # <<>>
    BY <1>6, <1>8, <2>2
  <2>7. \A x \in q.forwarded : ~x.own
    BY <1>8, <1>9 DEF Settled
  <2> QED
    BY <1>6, <1>8, <2>5, <2>6, <2>7 DEF Settled, u
<1> QED
  BY <1>6, <1>8, <1>9

LEMMA SampledTyped ==
  ASSUME NEW D, NEW r \in Readers(D), NEW x \in Samples(D)
  PROVE  Sampled(r, x) \in Readers(D)
<1> DEFINE i == Took(r, x)
           fell == i.f.bits # r.framer.bits \/ i.frame.kind # "None"
           mine == r.own \/ (fell /\ (x.pull = 0 \/ wire = "aux"))
           age == AgeAt(r, x)
           idle == i.frame.kind = "None"
           pass == IF wire = "kbd" THEN KbdPasses(i.frame, age) ELSE AuxPasses(i.frame)
           passed == IF pass THEN r.forwarded \cup {[kind |-> i.frame.kind, own |-> mine]}
                     ELSE r.forwarded
<1>1. /\ r.framer \in Framers(D) /\ x.clk \in D /\ x.data \in D /\ r.own \in BOOLEAN
      /\ r.selfAge \in Nat /\ r.forwarded \in SUBSET Passed
  BY DEF Readers, Samples
<1>2. Sampled(r, x) = [framer |-> i.f, selfAge |-> age, own |-> mine /\ idle,
                       forwarded |-> passed]
  BY DEF Sampled, Took, AgeAt
<1>3. i.f \in Framers(D) /\ i.frame.kind \in {"None", "At", "Xt", "Invalid"}
  BY <1>1, IngestIs DEF Took, NoFrame
<1>4. mine \in BOOLEAN /\ age \in Nat
  BY <1>1 DEF AgeAt
<1>5. passed \in SUBSET Passed
  <2>1. pass => i.frame.kind # "None"
    BY DEF KbdPasses, AuxPasses
  <2> HIDE DEF mine, i, age, pass
  <2> QED
    BY <1>1, <1>3, <1>4, <2>1 DEF Passed
<1>6. (mine /\ idle) \in BOOLEAN
  OBVIOUS
<1> HIDE DEF passed, mine, i, age, idle
<1> QED
  BY <1>2, <1>3, <1>4, <1>5, <1>6 DEF Readers

SamplesRead(a, w) == FoldLeft(Sampled, a, w)

(* SamplesRead is the last of a sequence of readers, one a      *)
(* sample.                                                                 *)
LEMMA SampledSteps ==
  ASSUME NEW D, NEW base \in Readers(D), NEW w \in Seq(Samples(D))
  PROVE  \E r \in [0 .. Len(w) -> Readers(D)] :
             /\ r[0] = base
             /\ \A k \in 1 .. Len(w) : r[k] = Sampled(r[k - 1], w[k])
             /\ r[Len(w)] = SamplesRead(base, w)
<1> DEFINE n == Len(w)
           A == Readers(D)
           Solves(f) == f = [s \in SUBSET DOMAIN w |->
                                IF s = {} THEN base ELSE Sampled(f[s \ {Max(s)}], w[Max(s)])]
           F == CHOOSE f : Solves(f)
<1>1. SamplesRead(base, w) = F[DOMAIN w]
  BY Zenon DEF SamplesRead, FoldLeft, MapThenFoldSet
<1>2. n \in Nat /\ DOMAIN w = 1 .. n /\ \A k \in 1 .. n : w[k] \in Samples(D)
  OBVIOUS
<1>3. \A c \in A : \A k \in 1 .. n : Sampled(c, w[k]) \in A
  BY <1>2, SampledTyped
<1> DEFINE H == [p \in (1 .. n) \X A |-> Sampled(p[2], w[p[1]])]
<1> HIDE DEF A, n
<1>4. H \in [(1 .. n) \X A -> A]
  BY <1>2, <1>3
<1>5. base \in A
  BY DEF A
<1>6. \A s \in SUBSET (1 .. n) : s # {} => Max(s) \in 1 .. n /\ s \ {Max(s)} \in SUBSET (1 .. n)
  BY <1>2, MaxExists
<1>7. \E f : Solves(f)
  <2> HIDE DEF H
  <2>1. PICK g \in [SUBSET (1 .. n) -> A] : Folds(g, base, n, H)
    <3>1. n \in Nat
      BY <1>2
    <3> QED
      BY <3>1, <1>4, <1>5, FoldRecursion, Zenon
  <2>2. ASSUME NEW s \in SUBSET (1 .. n), s # {}
        PROVE  H[<<Max(s), g[s \ {Max(s)}]>>] = Sampled(g[s \ {Max(s)}], w[Max(s)])
    <3>1. Max(s) \in 1 .. n /\ g[s \ {Max(s)}] \in A
      BY <2>2, <1>6
    <3> QED
      BY <3>1 DEF H
  <2>3. Solves(g)
    BY <2>1, <2>2, <1>2 DEF Folds
  <2> QED
    BY <2>3
<1>8. Solves(F)
  BY <1>7
<1> HIDE DEF F
<1> DEFINE r == [k \in 0 .. n |-> F[1 .. k]]
<1>9. r[0] = base
  <2>1. 1 .. 0 = {} /\ {} \in SUBSET DOMAIN w /\ 0 \in 0 .. n
    BY <1>2
  <2> QED
    BY <2>1, <1>8
<1>10. ASSUME NEW k \in 1 .. n PROVE r[k] = Sampled(r[k - 1], w[k])
  <2>1. 1 .. k \in SUBSET DOMAIN w /\ 1 .. k # {}
    <3>1. 1 .. k \subseteq 1 .. n /\ k \in 1 .. k
      BY <1>2
    <3> QED
      BY <3>1, <1>2, Zenon
  <2>2. Max(1 .. k) = k
    <3>1. k \in 1 .. k /\ k \in Nat /\ 1 .. k \subseteq 0 .. k
      BY <1>2
    <3> QED
      BY <3>1, MaxIs
  <2>3. (1 .. k) \ {k} = 1 .. k - 1
    BY <1>2
  <2>4. F[1 .. k] = Sampled(F[1 .. k - 1], w[k])
    BY <2>1, <2>2, <2>3, <1>8
  <2>5. k \in 0 .. n /\ k - 1 \in 0 .. n
    BY <1>2
  <2> QED
    BY <2>4, <2>5
<1>11. r[n] = F[DOMAIN w]
  BY <1>2
<1>12. \A k \in 0 .. n : r[k] \in A
  <2>1. \A k \in 1 .. n : r[k - 1] \in A => r[k] \in A
    BY <1>3, <1>10
  <2> HIDE DEF r
  <2> QED
    BY <2>1, <1>9, <1>5, <1>2, HoldsAlong
<1>13. r \in [0 .. n -> A]
  BY <1>12
<1> HIDE DEF r
<1> QED
  BY <1>1, <1>9, <1>10, <1>11, <1>13 DEF A, n

(* A word of the ring: a sample, or a spike and a sample.                  *)
IsWord(w, D) ==
    \/ \E y \in Samples(D) : w = <<y>>
    \/ \E x, y \in Samples(D) : w = <<x, y>> /\ (y.clk = 0 => x.clk # 0)

(* clk was the level when v disturbances had happened; w is later and was  *)
(* written after t of them.  A clock edge that is not ours is one of them. *)
Later(clk, v, w, t) ==
    /\ v <= t
    /\ Len(w) = 2 => v < t
    /\ clk # 0 /\ w[1].pull # 0 /\ w[1].clk = 0 => v < t

Levels(D) == {0, 1, NoLevel} \subseteq D

WordRead(a, w) == SamplesRead(Aged(a), Decoded(w))

LEMMA WordIs ==
  ASSUME NEW D, NEW w, IsWord(w, D)
  PROVE  w \in Seq(Samples(D)) /\ Len(w) \in {1, 2}
<1>1. CASE \E y \in Samples(D) : w = <<y>>
  BY <1>1
<1>2. CASE \E x, y \in Samples(D) : w = <<x, y>>
  BY <1>2
<1> QED
  BY <1>1, <1>2 DEF IsWord

(* Both layouts of the word decode to samples; in the layout the comments  *)
(* do not have, the first finds CLK_PULL low.                              *)
LEMMA DecodedIs ==
  ASSUME NEW D, Levels(D), NEW w, IsWord(w, D)
  PROVE  /\ Decoded(w) \in Seq(Samples(D))
         /\ layout = "low" => Decoded(w) = w
         /\ layout # "low" => Len(Decoded(w)) >= 1 /\ Decoded(w)[1].pull = 0
<1>1. w \in Seq(Samples(D)) /\ Len(w) \in {1, 2}
  BY WordIs
<1>2. CASE layout = "low"
  BY <1>1, <1>2 DEF Decoded
<1>3. CASE layout # "low"
  <2> DEFINE shifted == [i \in DOMAIN w |->
                           [clk |-> w[i].pull, pull |-> w[i].data, data |-> w[i].clk]]
             rest == IF wire = "kbd" THEN shifted ELSE w
             first == IF wire = "kbd" THEN [clk |-> 0, pull |-> 0, data |-> w[1].clk]
                      ELSE [clk |-> 0, pull |-> 0, data |-> 0]
  <2>1. \A i \in 1 .. Len(w) : w[i] \in Samples(D)
    BY <1>1
  <2>2. shifted \in Seq(Samples(D)) /\ Len(shifted) = Len(w)
    <3>1. DOMAIN w = 1 .. Len(w) /\ Len(w) \in Nat
      BY <1>1
    <3>2. \A i \in 1 .. Len(w) : shifted[i] \in Samples(D)
      BY <2>1, <3>1 DEF Samples
    <3>3. shifted \in [1 .. Len(w) -> Samples(D)]
      BY <3>1, <3>2
    <3> HIDE DEF shifted
    <3> QED
      BY <3>1, <3>3
  <2>3. first \in Samples(D) /\ first.pull = 0
    <3>1. w[1] \in Samples(D)
      BY <1>1, <2>1
    <3>2. 0 \in D
      BY DEF Levels
    <3> QED
      BY <3>1, <3>2 DEF Samples
  <2>4. Decoded(w) = <<first>> \o rest
    BY <1>3 DEF Decoded
  <2> HIDE DEF first, shifted
  <2>5. <<first>> \in Seq(Samples(D)) /\ Len(<<first>>) = 1
    BY <2>3
  <2>6. rest \in Seq(Samples(D)) /\ Len(rest) \in Nat
    BY <1>1, <2>2
  <2> HIDE DEF rest
  <2> QED
    BY <1>3, <2>3, <2>4, <2>5, <2>6
<1> QED
  BY <1>2, <1>3

LEMMA WordTyped ==
  ASSUME GuardCovers, NEW D, Levels(D), NEW a \in Readers(D), NEW w, IsWord(w, D)
  PROVE  WordRead(a, w) \in Readers(D)
<1>1. Aged(a) \in Readers(D)
  BY AgedKeeps
<1>2. Decoded(w) \in Seq(Samples(D))
  BY DecodedIs
<1>3. PICK r \in [0 .. Len(Decoded(w)) -> Readers(D)] :
            r[Len(Decoded(w))] = WordRead(a, w)
  BY <1>1, <1>2, SampledSteps DEF WordRead
<1>4. Len(Decoded(w)) \in 0 .. Len(Decoded(w))
  BY <1>2
<1> QED
  BY <1>3, <1>4

(* In that layout nothing is ever passed.                                  *)
LEMMA NoWordPasses ==
  ASSUME wire = "kbd", layout # "low", GuardCovers, NEW D, Levels(D), NEW a \in Readers(D),
         NEW w, IsWord(w, D), a.forwarded = {}
  PROVE  WordRead(a, w).forwarded = {}
<1> DEFINE d == Decoded(w)
           n == Len(d)
           Silent == {r \in Readers(D) : r.selfAge = 0 /\ r.forwarded = {}}
<1>1. Aged(a) \in Readers(D) /\ Aged(a).forwarded = {}
  BY AgedKeeps
<1>2. d \in Seq(Samples(D)) /\ n >= 1 /\ d[1].pull = 0
  BY DecodedIs
<1>3. n \in Nat /\ \A k \in 1 .. n : d[k] \in Samples(D)
  BY <1>2
<1>4. PICK r \in [0 .. n -> Readers(D)] :
             /\ r[0] = Aged(a)
             /\ \A k \in 1 .. n : r[k] = Sampled(r[k - 1], d[k])
             /\ r[n] = WordRead(a, w)
  BY <1>1, <1>2, SampledSteps DEF WordRead
<1> HIDE DEF d, n
<1> DEFINE q == [k \in 0 .. n - 1 |-> r[k + 1]]
<1>5. \A k \in 0 .. n : r[k] \in Readers(D)
  BY <1>3, <1>4
<1>6. \A k \in 0 .. n - 1 : q[k] = r[k + 1] /\ q[k] \in Readers(D)
  BY <1>3, <1>5
<1> HIDE DEF q
<1>7. q[0] \in Silent
  <2>1. q[0] = Sampled(Aged(a), d[1]) /\ q[0] \in Readers(D) /\ d[1] \in Samples(D)
    BY <1>2, <1>3, <1>4, <1>6
  <2> QED
    BY <1>1, <1>2, <2>1, NothingPasses
<1>8. ASSUME NEW k \in 1 .. n - 1, q[k - 1] \in Silent PROVE q[k] \in Silent
  <2>1. k \in 0 .. n - 1 /\ k - 1 \in 0 .. n - 1 /\ k + 1 \in 1 .. n /\ (k + 1) - 1 = k /\ (k - 1) + 1 = k
    BY <1>3
  <2>2. q[k] = Sampled(q[k - 1], d[k + 1]) /\ q[k] \in Readers(D) /\ d[k + 1] \in Samples(D)
    BY <1>3, <1>4, <1>6, <2>1
  <2> QED
    BY <1>8, <2>2, NothingPasses
<1>9. n - 1 \in Nat
  BY <1>2, <1>3
<1>10. \A k \in 0 .. n - 1 : q[k] \in Silent
  <2> DEFINE m == n - 1
  <2>1. m \in Nat /\ \A k \in 1 .. m : q[k - 1] \in Silent => q[k] \in Silent
    BY <1>8, <1>9
  <2> HIDE DEF m, Silent
  <2>2. \A k \in 0 .. m : q[k] \in Silent
    BY <1>7, <2>1, HoldsAlong
  <2> QED
    BY <2>2 DEF m
<1>11. n - 1 \in 0 .. n - 1 /\ (n - 1) + 1 = n
  BY <1>3, <1>9
<1>12. q[n - 1] = WordRead(a, w)
  BY <1>4, <1>6, <1>11
<1> QED
  BY <1>10, <1>11, <1>12 DEF Silent

(* In the other, what a word makes of a settled reader is settled at the   *)
(* word's count of disturbances.                                           *)
LEMMA WordKeeps ==
  ASSUME wire = "kbd", layout = "low", GuardCovers, MaxDisturbed \in Nat,
         NEW D, Levels(D), NEW a \in Readers(D), NEW w, IsWord(w, D),
         NEW s \in Nat, NEW t \in Nat, t <= MaxDisturbed, Settled(a, s), Timed(a),
         Later(a.framer.clk, s, w, t), NEW q, q = WordRead(a, w)
  PROVE  /\ q \in Readers(D) /\ Settled(q, t) /\ Timed(q)
         /\ q.framer.clk = w[Len(w)].clk
<1> DEFINE b == Aged(a)
<1>1. b \in Readers(D) /\ Settled(b, s) /\ b.framer.clk = a.framer.clk
  BY AgedKeeps
<1>2. w \in Seq(Samples(D)) /\ Decoded(w) = w
  BY DecodedIs, WordIs
<1>3. PICK r \in [0 .. Len(w) -> Readers(D)] :
             /\ r[0] = b
             /\ \A k \in 1 .. Len(w) : r[k] = Sampled(r[k - 1], w[k])
             /\ r[Len(w)] = q
  BY <1>1, <1>2, SampledSteps DEF WordRead
<1>4. s <= t /\ (Len(w) = 2 => s < t)
      /\ (a.framer.clk # 0 /\ w[1].pull # 0 /\ w[1].clk = 0 => s < t)
  BY DEF Later
<1> HIDE DEF b
<1>5. CASE \E y \in Samples(D) : w = <<y>>
  <2>1. PICK y \in Samples(D) : w = <<y>>
    BY <1>5
  <2>2. Len(w) = 1 /\ w[1] = y /\ w[Len(w)] = y
    BY <2>1
  <2>3. q = Sampled(b, y)
    BY <1>3, <2>2
  <2>4. b.framer.clk # 0 /\ y.clk = 0 /\ y.pull # 0 => s < t
    BY <1>1, <1>4, <2>2
  <2> QED
    BY <1>1, <1>4, <2>2, <2>3, <2>4, SampleKeeps
<1>6. CASE \E x, y \in Samples(D) : w = <<x, y>> /\ (y.clk = 0 => x.clk # 0)
  <2>1. PICK x \in Samples(D), y \in Samples(D) : w = <<x, y>> /\ (y.clk = 0 => x.clk # 0)
    BY <1>6
  <2>2. Len(w) = 2 /\ w[1] = x /\ w[2] = y /\ w[Len(w)] = y /\ s < t
    BY <1>4, <2>1
  <2> DEFINE p == Sampled(b, x)
  <2>3. p = r[1] /\ q = Sampled(p, y)
    <3>1. r[1] = Sampled(r[0], w[1]) /\ r[2] = Sampled(r[1], w[2]) /\ r[2] = q
      BY <1>3, <2>2
    <3> QED
      BY <1>3, <2>2, <3>1
  <2>4. CASE x.clk = 0
    <3>1. p \in Readers(D) /\ Settled(p, t)
      BY <1>1, <1>4, <2>2, SampleKeeps
    <3>2. y.clk # 0 /\ t <= t
      BY <2>1, <2>4
    <3> HIDE DEF p
    <3> QED
      BY <2>2, <2>3, <3>1, <3>2, SampleKeeps
  <2>5. CASE x.clk # 0
    <3>1. s <= s /\ s <= MaxDisturbed
      BY <1>4
    <3>2. p \in Readers(D) /\ Settled(p, s)
      BY <1>1, <2>5, <3>1, SampleKeeps
    <3> HIDE DEF p
    <3> QED
      BY <1>4, <2>2, <2>3, <3>2, SampleKeeps
  <2> QED
    BY <2>4, <2>5
<1> QED
  BY <1>5, <1>6 DEF IsWord

-----------------------------------------------------------------------------
(* drain() takes the words one by one.                                     *)
Slot(from, k) == (from + k) % RingWords

DrainRead(base, from, n) ==
    FoldLeft(LAMBDA a, k : WordRead(a, words[Slot(from, k)]), base, [k \in 1 .. n |-> k - 1])

Readable(D, from, n) == \A k \in 0 .. n - 1 : IsWord(words[Slot(from, k)], D)

(* r holds the reader after each of the n words from a slot on.            *)
ReadsOn(r, D, base, from, n) ==
    /\ r \in [0 .. n -> Readers(D)]
    /\ r[0] = base
    /\ \A k \in 1 .. n : r[k] = WordRead(r[k - 1], words[Slot(from, k - 1)])

LEMMA DrainSteps ==
  ASSUME GuardCovers, NEW D, Levels(D), NEW base \in Readers(D),
         NEW from, NEW n \in Nat, Readable(D, from, n)
  PROVE  \E r : ReadsOn(r, D, base, from, n) /\ r[n] = DrainRead(base, from, n)
<1> DEFINE w == [k \in 1 .. n |-> k - 1]
           A == Readers(D)
           Solves(f) == f = [s \in SUBSET DOMAIN w |->
                                IF s = {} THEN base
                                ELSE WordRead(f[s \ {Max(s)}], words[Slot(from, w[Max(s)])])]
           F == CHOOSE f : Solves(f)
<1>1. DrainRead(base, from, n) = F[DOMAIN w]
  BY Zenon DEF DrainRead, FoldLeft, MapThenFoldSet
<1>2. n \in Nat /\ DOMAIN w = 1 .. n /\ \A k \in 1 .. n : w[k] = k - 1
  OBVIOUS
<1>3. \A c \in A : \A k \in 1 .. n : WordRead(c, words[Slot(from, w[k])]) \in A
  <2>1. ASSUME NEW c \in A, NEW k \in 1 .. n PROVE WordRead(c, words[Slot(from, w[k])]) \in A
    <3>1. k - 1 \in 0 .. n - 1 /\ w[k] = k - 1
      OBVIOUS
    <3>2. IsWord(words[Slot(from, w[k])], D)
      BY <3>1 DEF Readable
    <3> QED
      BY <3>2, WordTyped
  <2> QED
    BY <2>1
<1> DEFINE H == [p \in (1 .. n) \X A |-> WordRead(p[2], words[Slot(from, w[p[1]])])]
<1> HIDE DEF A, w
<1>4. H \in [(1 .. n) \X A -> A]
  BY <1>3
<1>5. base \in A
  BY DEF A
<1>6. \A s \in SUBSET (1 .. n) : s # {} => Max(s) \in 1 .. n /\ s \ {Max(s)} \in SUBSET (1 .. n)
  BY MaxExists
<1>7. \E f : Solves(f)
  <2> HIDE DEF H
  <2>1. PICK g \in [SUBSET (1 .. n) -> A] : Folds(g, base, n, H)
    BY <1>4, <1>5, FoldRecursion, Zenon
  <2>2. ASSUME NEW s \in SUBSET (1 .. n), s # {}
        PROVE  H[<<Max(s), g[s \ {Max(s)}]>>]
               = WordRead(g[s \ {Max(s)}], words[Slot(from, w[Max(s)])])
    <3>1. Max(s) \in 1 .. n /\ g[s \ {Max(s)}] \in A
      BY <2>2, <1>6
    <3> QED
      BY <3>1 DEF H
  <2>3. Solves(g)
    BY <2>1, <2>2, <1>2 DEF Folds
  <2> QED
    BY <2>3
<1>8. Solves(F)
  BY <1>7
<1> HIDE DEF F
<1> DEFINE r == [k \in 0 .. n |-> F[1 .. k]]
<1>9. r[0] = base
  <2>1. 1 .. 0 = {} /\ {} \in SUBSET DOMAIN w /\ 0 \in 0 .. n
    OBVIOUS
  <2> QED
    BY <2>1, <1>8
<1>10. ASSUME NEW k \in 1 .. n PROVE r[k] = WordRead(r[k - 1], words[Slot(from, w[k])])
  <2>1. 1 .. k \in SUBSET DOMAIN w /\ 1 .. k # {}
    <3>1. 1 .. k \subseteq 1 .. n /\ k \in 1 .. k
      OBVIOUS
    <3> QED
      BY <3>1, <1>2, Zenon
  <2>2. Max(1 .. k) = k
    <3>1. k \in 1 .. k /\ k \in Nat /\ 1 .. k \subseteq 0 .. k
      OBVIOUS
    <3> QED
      BY <3>1, MaxIs
  <2>3. (1 .. k) \ {k} = 1 .. k - 1
    OBVIOUS
  <2>4. F[1 .. k] = WordRead(F[1 .. k - 1], words[Slot(from, w[k])])
    BY <2>1, <2>2, <2>3, <1>8
  <2>5. k \in 0 .. n /\ k - 1 \in 0 .. n
    OBVIOUS
  <2> QED
    BY <2>4, <2>5
<1>11. r[n] = F[DOMAIN w]
  BY <1>2
<1>12. \A k \in 0 .. n : r[k] \in A
  <2>1. \A k \in 1 .. n : r[k - 1] \in A => r[k] \in A
    BY <1>3, <1>10
  <2> HIDE DEF r
  <2> QED
    BY <2>1, <1>9, <1>5, HoldsAlong
<1>13. r \in [0 .. n -> A]
  BY <1>12
<1> HIDE DEF r
<1>14. \A k \in 1 .. n : r[k] = WordRead(r[k - 1], words[Slot(from, k - 1)])
  BY <1>2, <1>10
<1>15. ReadsOn(r, D, base, from, n)
  BY <1>9, <1>13, <1>14 DEF A, ReadsOn
<1> QED
  BY <1>1, <1>11, <1>15

(* What a poll does.                                                       *)
From == IF Overrun THEN Resync ELSE tail

LEMMA PollIs ==
  ASSUME Poll, NEW D, NEW n, n = Min({Batch, (head + RingWords - From) % RingWords}),
         NEW r \in Readers(D), r = DrainRead(Reader, From, n)
  PROVE  Reader' = r
<1>1. framer' = r.framer /\ selfAge' = r.selfAge /\ own' = r.own /\ forwarded' = r.forwarded
  BY Zenon DEF Poll, DrainRead, WordRead, SamplesRead, Slot, Reader, From
<1>2. r = [framer |-> r.framer, selfAge |-> r.selfAge, own |-> r.own, forwarded |-> r.forwarded]
  BY DEF Readers
<1>3. Reader' = [framer |-> framer', selfAge |-> selfAge', own |-> own',
                 forwarded |-> forwarded']
  BY DEF Reader
<1> QED
  BY <1>1, <1>2, <1>3

(* How many words the channel wrote after the one in slot i.               *)
Behind(h, i) == IF i < h THEN (h - 1) - i ELSE (h + RingWords - 1) - i

(* The words read are the latest, in the order of their writing.           *)
LEMMA SlotIs ==
  ASSUME NEW h \in 0 .. RingWords - 1, NEW f \in 0 .. RingWords - 1,
         NEW n, n = Ahead(h, f), NEW k \in 0 .. n - 1
  PROVE  /\ Slot(f, k) \in 0 .. RingWords - 1
         /\ Behind(h, Slot(f, k)) = (n - 1) - k
<1>1. RingWords \in Nat \ {0} /\ n \in 0 .. RingWords - 1
  BY LineAssumption, RingIs
<1> DEFINE x == f + k
<1>2. x \in 0 .. RingWords + RingWords - 1
  BY <1>1
<1>3. x % RingWords = IF x < RingWords THEN x ELSE x - RingWords
  <2> HIDE DEF x
  <2> QED
    BY <1>1, <1>2, ModOnce
<1>4. Slot(f, k) = x % RingWords
  BY DEF Slot
<1>5. Slot(f, k) = IF f + k < RingWords THEN f + k ELSE f + k - RingWords
  <2>1. x = f + k
    OBVIOUS
  <2> HIDE DEF x
  <2> QED
    BY <1>1, <1>2, <1>3, <1>4, <2>1
<1> QED
  BY <1>1, <1>5 DEF Behind, Ahead

(* The order of the words after one more is written at h.                  *)
LEMMA BehindIs ==
  ASSUME NEW h \in 0 .. RingWords - 1, NEW g, g = (h + 1) % RingWords
  PROVE  /\ g \in 0 .. RingWords - 1
         /\ Behind(g, h) = 0
         /\ \A i \in 0 .. RingWords - 1 : /\ Behind(h, i) \in 0 .. RingWords - 1
                                          /\ Behind(g, i) \in 0 .. RingWords - 1
                                          /\ i # h => Behind(g, i) = Behind(h, i) + 1
<1>1. RingWords \in Nat \ {0}
  BY LineAssumption
<1>2. g \in 0 .. RingWords - 1 /\ g = IF h + 1 = RingWords THEN 0 ELSE h + 1
  BY RingIs
<1>3. Behind(g, h) = 0
  BY <1>1, <1>2 DEF Behind
<1>4. ASSUME NEW i \in 0 .. RingWords - 1
      PROVE  /\ Behind(h, i) \in 0 .. RingWords - 1
             /\ Behind(g, i) \in 0 .. RingWords - 1
             /\ i # h => Behind(g, i) = Behind(h, i) + 1
  BY <1>1, <1>2 DEF Behind
<1> QED
  BY <1>2, <1>3, <1>4

(* A tick more is pending, or nothing is: the reader has been lapped.      *)
LEMMA PendingAfter ==
  ASSUME NEW h \in 0 .. RingWords - 1, NEW t \in 0 .. RingWords - 1,
         NEW g, g = (h + 1) % RingWords
  PROVE  Ahead(g, t) = 0 \/ Ahead(g, t) = Ahead(h, t) + 1
<1>1. RingWords \in Nat \ {0}
  BY LineAssumption
<1>2. g = IF h + 1 = RingWords THEN 0 ELSE h + 1
  BY RingIs
<1> QED
  BY <1>1, <1>2 DEF Ahead

(* What the ring holds, and what the reader has of it.                     *)
Places ==
    /\ head \in 0 .. RingWords - 1 /\ tail \in 0 .. RingWords - 1
    /\ disturbed \in 0 .. MaxDisturbed
    /\ DOMAIN words = 0 .. RingWords - 1

Leveled(D) ==
    /\ Levels(D) /\ Reader \in Readers(D)
    /\ \A i \in 0 .. RingWords - 1 : words[i] # <<>> => IsWord(words[i], D)
    /\ \A i \in 0 .. RingWords - 1 : Behind(head, i) < Ahead(head, tail) => words[i] # <<>>

LastClk(w) == w[Len(w)].clk

(* c counts the disturbances up to each word of the ring, s those up to    *)
(* the last word read.                                                     *)
Stamped(c, s) ==
    /\ c \in [0 .. RingWords - 1 -> 0 .. disturbed] /\ s \in 0 .. disturbed
    /\ Settled(Reader, s) /\ Timed(Reader)
    /\ \A i, j \in 0 .. RingWords - 1 :
          words[i] # <<>> /\ words[j] # <<>> /\ Behind(head, j) < Behind(head, i)
          => Later(LastClk(words[i]), c[i], words[j], c[j])
    /\ \A i \in 0 .. RingWords - 1 :
          Behind(head, i) < Ahead(head, tail) => Later(framer.clk, s, words[i], c[i])
    /\ hostPull > 0 =>
          /\ framer.clk # 0 => s < disturbed
          /\ \A i \in 0 .. RingWords - 1 :
                words[i] # <<>> /\ LastClk(words[i]) # 0 => c[i] < disturbed

(* On the keyboard wire nothing is passed in one layout of the words, and  *)
(* in the other only what is older than the disturbances explain.          *)
KbdInv ==
    wire = "kbd" =>
        /\ Places
        /\ \E D : Leveled(D)
        /\ layout # "low" => forwarded = {}
        /\ layout = "low" => \E c, s : Stamped(c, s)

LEMMA Widens ==
  ASSUME NEW D, NEW E, D \subseteq E
  PROVE  /\ Readers(D) \subseteq Readers(E)
         /\ \A w : IsWord(w, D) => IsWord(w, E)
<1>1. \A b \in Seq(D) : b \in Seq(E)
  <2> SUFFICES ASSUME NEW b \in Seq(D) PROVE b \in Seq(E)
    OBVIOUS
  <2>1. Len(b) \in Nat /\ b \in [1 .. Len(b) -> D]
    OBVIOUS
  <2>2. b \in [1 .. Len(b) -> E]
    BY <2>1
  <2> QED
    BY <2>1, <2>2
<1>2. Framers(D) \subseteq Framers(E)
  BY <1>1 DEF Framers
<1>3. Samples(D) \subseteq Samples(E)
  BY DEF Samples
<1> QED
  BY <1>2, <1>3 DEF Readers, IsWord

(* What a tick writes.                                                     *)
Sample == IF wire = "kbd" THEN KbdSample(Cycle(TxConfig, sm, pins).pins)
          ELSE AuxSample(Cycle(TxConfig, sm, pins).pins)
NewWord(spike) == IF spike THEN <<[Sample EXCEPT !.clk = 1 - @], Sample>> ELSE <<Sample>>

LEMMA SampleIs ==
  /\ Sample = [clk |-> Sample.clk, pull |-> Sample.pull, data |-> Sample.data]
  /\ hostPull > 0 => Sample.clk = 0
  /\ wire = "kbd" /\ ~(hostPull > 0) => Sample.clk = Sample.pull
  BY DEF Sample, KbdSample, AuxSample, ClkIn

LEMMA TickIs ==
  ASSUME Places, NEW spike \in BOOLEAN, Tick(spike)
  PROVE  /\ wire' = wire /\ layout' = layout /\ tail' = tail /\ Reader' = Reader
         /\ framer' = framer /\ forwarded' = forwarded
         /\ head' = (head + 1) % RingWords
         /\ disturbed' = disturbed + (IF spike THEN 1 ELSE 0)
         /\ DOMAIN words' = 0 .. RingWords - 1
         /\ words'[head] = NewWord(spike)
         /\ \A i \in 0 .. RingWords - 1 : i # head => words'[i] = words[i]
         /\ hostPull' > 0 => hostPull > 0
<1>1. /\ wire' = wire /\ layout' = layout /\ tail' = tail
      /\ framer' = framer /\ forwarded' = forwarded /\ selfAge' = selfAge /\ own' = own
      /\ disturbed' = disturbed + (IF spike THEN 1 ELSE 0)
      /\ hostPull' = IF hostPull > 0 THEN hostPull - 1 ELSE 0
  BY DEF Tick, readVars
<1>2. Written(NewWord(spike))
  BY DEF Tick, NewWord, Sample
<1>3. head' = (head + 1) % RingWords /\ words' = [words EXCEPT ![head] = NewWord(spike)]
  BY <1>2 DEF Written
<1>4. DOMAIN words = 0 .. RingWords - 1 /\ head \in 0 .. RingWords - 1
  BY DEF Places
<1>5. Reader' = Reader
  BY <1>1 DEF Reader
<1>6. hostPull' > 0 => hostPull > 0
  BY <1>1
<1> QED
  BY <1>1, <1>3, <1>4, <1>5, <1>6

LEMMA NewWordIs ==
  ASSUME NEW D, {0, 1, NoLevel, Sample.clk, Sample.pull, Sample.data, 1 - Sample.clk} \subseteq D,
         NEW spike \in BOOLEAN, NEW w, w = NewWord(spike)
  PROVE  /\ IsWord(w, D) /\ w # <<>> /\ LastClk(w) = Sample.clk
         /\ Len(w) = 2 => spike
         /\ ~spike => w[1] = Sample
<1> DEFINE s == Sample
           x == [s EXCEPT !.clk = 1 - @]
<1>1. s = [clk |-> s.clk, pull |-> s.pull, data |-> s.data]
  BY SampleIs
<1>2. s \in Samples(D)
  <2> HIDE DEF s
  <2> QED
    BY <1>1 DEF Samples, s
<1>3. x \in Samples(D) /\ x.clk = 1 - s.clk
  <2> HIDE DEF s
  <2> QED
    BY <1>1, <1>2 DEF Samples, s
<1>4. s.clk = 0 => x.clk # 0
  BY <1>3
<1>5. w = IF spike THEN <<x, s>> ELSE <<s>>
  BY DEF NewWord
<1> HIDE DEF s, x
<1>6. CASE spike
  <2>1. w = <<x, s>> /\ Len(w) = 2 /\ w[2] = s
    BY <1>5, <1>6
  <2>2. IsWord(w, D)
    BY <1>2, <1>3, <1>4, <2>1, Zenon DEF IsWord
  <2>3. LastClk(w) = s.clk
    BY <2>1 DEF LastClk
  <2>4. w # <<>>
    BY <2>1
  <2> QED
    BY <1>6, <2>1, <2>2, <2>3, <2>4 DEF s
<1>7. CASE ~spike
  <2>1. w = <<s>> /\ Len(w) = 1 /\ w[1] = s
    BY <1>5, <1>7
  <2> QED
    BY <1>2, <1>7, <2>1 DEF IsWord, LastClk, s
<1> QED
  BY <1>6, <1>7

(* A word written now is later than what has been read or written.         *)
LEMMA NewIsLater ==
  ASSUME wire = "kbd", NEW spike \in BOOLEAN, disturbed \in Nat,
         NEW e, e = disturbed + (IF spike THEN 1 ELSE 0),
         NEW clk, NEW v \in Nat, v <= disturbed, hostPull > 0 /\ clk # 0 => v < disturbed
  PROVE  Later(clk, v, NewWord(spike), e)
<1> DEFINE w == NewWord(spike)
           D == {0, 1, NoLevel, Sample.clk, Sample.pull, Sample.data, 1 - Sample.clk}
<1>1. (Len(w) = 2 => spike) /\ (~spike => w[1] = Sample)
  <2> HIDE DEF D
  <2>1. {0, 1, NoLevel, Sample.clk, Sample.pull, Sample.data, 1 - Sample.clk} \subseteq D
    BY DEF D
  <2> QED
    BY <2>1, NewWordIs
<1>2. (hostPull > 0 => Sample.clk = 0) /\ (~(hostPull > 0) => Sample.clk = Sample.pull)
  BY SampleIs
<1> HIDE DEF w
<1>3. v <= e /\ (spike => v < e)
  OBVIOUS
<1>4. ASSUME clk # 0, w[1].pull # 0, w[1].clk = 0 PROVE v < e
  <2>1. CASE spike
    BY <1>3, <2>1
  <2>2. CASE ~spike
    <3>1. hostPull > 0
      BY <1>1, <1>2, <1>4, <2>2
    <3> QED
      BY <1>4, <2>2, <3>1
  <2> QED
    BY <2>1, <2>2
<1>5. Later(clk, v, w, e)
  BY <1>1, <1>3, <1>4 DEF Later
<1> QED
  BY <1>5 DEF w

LEMMA TickKeepsLevels ==
  ASSUME Places, NEW spike \in BOOLEAN, Tick(spike),
         spike => disturbed < MaxDisturbed, \E D : Leveled(D)
  PROVE  Places' /\ \E D : Leveled(D)'
<1>1. /\ tail' = tail /\ Reader' = Reader
      /\ head' = (head + 1) % RingWords
      /\ disturbed' = disturbed + (IF spike THEN 1 ELSE 0)
      /\ DOMAIN words' = 0 .. RingWords - 1
      /\ words'[head] = NewWord(spike)
      /\ \A i \in 0 .. RingWords - 1 : i # head => words'[i] = words[i]
  BY TickIs
<1>2. /\ head \in 0 .. RingWords - 1 /\ tail \in 0 .. RingWords - 1
      /\ disturbed \in 0 .. MaxDisturbed
  BY DEF Places
<1>3. head' \in 0 .. RingWords - 1
  BY <1>1, <1>2, RingIs
<1>4. Places'
  <2>1. disturbed' \in 0 .. MaxDisturbed
    BY <1>1, <1>2, LineAssumption
  <2> QED
    BY <1>1, <1>2, <1>3, <2>1 DEF Places
<1>5. PICK D : Leveled(D)
  OBVIOUS
<1>e. PICK E : E = D \cup {0, 1, NoLevel, Sample.clk, Sample.pull, Sample.data,
                           1 - Sample.clk}
  OBVIOUS
<1>6. /\ D \subseteq E
      /\ {0, 1, NoLevel, Sample.clk, Sample.pull, Sample.data, 1 - Sample.clk} \subseteq E
      /\ {0, 1, NoLevel} \subseteq E
  BY <1>e
<1>7. IsWord(NewWord(spike), E) /\ NewWord(spike) # <<>>
  BY <1>6, NewWordIs
<1>8. Reader' \in Readers(E)
  BY <1>1, <1>5, <1>6, Widens DEF Leveled
<1>9. ASSUME NEW i \in 0 .. RingWords - 1, words'[i] # <<>> PROVE IsWord(words'[i], E)
  <2>1. CASE i = head
    BY <1>1, <1>7, <2>1
  <2>2. CASE i # head
    BY <1>1, <1>5, <1>6, <1>9, <2>2, Widens DEF Leveled
  <2> QED
    BY <2>1, <2>2
<1>a. head' = (head + 1) % RingWords
  BY <1>1
<1>b. \A i \in 0 .. RingWords - 1 : /\ Behind(head, i) \in Nat
                                    /\ i # head => Behind(head', i) = Behind(head, i) + 1
  BY <1>2, <1>a, BehindIs
<1>c. Ahead(head', tail) = 0 \/ Ahead(head', tail) = Ahead(head, tail) + 1
  BY <1>2, <1>a, PendingAfter
<1>d. tail' = tail
  BY <1>1
<1>10. ASSUME NEW i \in 0 .. RingWords - 1, Behind(head', i) < Ahead(head', tail')
       PROVE  words'[i] # <<>>
  <2>1. CASE i = head
    BY <1>1, <1>7, <2>1
  <2>2. CASE i # head
    <3>1. Behind(head', i) = Behind(head, i) + 1 /\ Behind(head, i) \in Nat
      BY <1>b, <2>2
    <3>2. Ahead(head, tail) \in Nat
      BY <1>2, RingIs
    <3>3. Behind(head', i) < Ahead(head', tail)
      BY <1>10, <1>d
    <3>4. Behind(head, i) < Ahead(head, tail)
      BY <1>c, <3>1, <3>2, <3>3
    <3> QED
      BY <1>1, <1>5, <2>2, <3>4 DEF Leveled
  <2> QED
    BY <2>1, <2>2
<1>11. Levels(E)
  BY <1>6 DEF Levels
<1>12. Leveled(E)'
  BY <1>8, <1>9, <1>10, <1>11 DEF Leveled
<1> QED
  BY <1>4, <1>12

LEMMA TickKeepsStamps ==
  ASSUME wire = "kbd", Places, NEW spike \in BOOLEAN, Tick(spike),
         NEW D, Leveled(D), NEW c, NEW s, Stamped(c, s)
  PROVE  \E d : Stamped(d, s)'
<1>1. /\ tail' = tail /\ Reader' = Reader /\ framer' = framer
      /\ head' = (head + 1) % RingWords
      /\ disturbed' = disturbed + (IF spike THEN 1 ELSE 0)
      /\ words'[head] = NewWord(spike)
      /\ \A i \in 0 .. RingWords - 1 : i # head => words'[i] = words[i]
      /\ hostPull' > 0 => hostPull > 0
  BY TickIs
<1>2. /\ head \in 0 .. RingWords - 1 /\ tail \in 0 .. RingWords - 1
      /\ disturbed \in Nat /\ disturbed' \in Nat /\ disturbed <= disturbed'
  BY <1>1 DEF Places
<1>3. PICK d : d = [c EXCEPT ![head] = disturbed']
  OBVIOUS
<1>4. /\ c \in [0 .. RingWords - 1 -> 0 .. disturbed] /\ s \in 0 .. disturbed
      /\ Settled(Reader, s) /\ Timed(Reader)
  BY DEF Stamped
<1>5. /\ d \in [0 .. RingWords - 1 -> 0 .. disturbed'] /\ d[head] = disturbed'
      /\ \A i \in 0 .. RingWords - 1 : i # head => d[i] = c[i]
  BY <1>2, <1>3, <1>4
<1>6. \A i \in 0 .. RingWords - 1 : c[i] \in Nat /\ c[i] <= disturbed
  BY <1>2, <1>4
<1>a. head' = (head + 1) % RingWords
  BY <1>1
<1>7. /\ Behind(head', head) = 0
      /\ \A i \in 0 .. RingWords - 1 : /\ Behind(head, i) \in Nat /\ Behind(head', i) \in Nat
                                       /\ i # head => Behind(head', i) = Behind(head, i) + 1
  BY <1>2, <1>a, BehindIs
<1>8. LastClk(NewWord(spike)) = Sample.clk
  <2>1. PICK E : E = {0, 1, NoLevel, Sample.clk, Sample.pull, Sample.data, 1 - Sample.clk}
    OBVIOUS
  <2> QED
    BY <2>1, NewWordIs
<1>9. ASSUME NEW i \in 0 .. RingWords - 1, NEW j \in 0 .. RingWords - 1,
             words'[i] # <<>>, words'[j] # <<>>, Behind(head', j) < Behind(head', i)
      PROVE  Later(LastClk(words'[i]), d[i], words'[j], d[j])
  <2>1. i # head
    BY <1>7, <1>9
  <2>2. words'[i] = words[i] /\ d[i] = c[i] /\ words[i] # <<>>
    BY <1>1, <1>5, <1>9, <2>1
  <2>3. CASE j = head
    <3>1. hostPull > 0 /\ LastClk(words[i]) # 0 => c[i] < disturbed
      BY <2>2 DEF Stamped
    <3>2. Later(LastClk(words[i]), c[i], NewWord(spike), disturbed')
      BY <1>1, <1>2, <1>6, <3>1, NewIsLater
    <3> QED
      BY <1>1, <1>5, <2>2, <2>3, <3>2
  <2>4. CASE j # head
    <3>1. words'[j] = words[j] /\ d[j] = c[j] /\ words[j] # <<>>
      BY <1>1, <1>5, <1>9, <2>4
    <3>2. Behind(head, j) < Behind(head, i)
      BY <1>7, <1>9, <2>1, <2>4
    <3> QED
      BY <2>2, <3>1, <3>2 DEF Stamped
  <2> QED
    BY <2>3, <2>4
<1>10. ASSUME NEW i \in 0 .. RingWords - 1, Behind(head', i) < Ahead(head', tail')
       PROVE  Later(framer.clk, s, words'[i], d[i])
  <2>1. CASE i = head
    <3>1. hostPull > 0 /\ framer.clk # 0 => s < disturbed
      BY DEF Stamped
    <3>2. s \in Nat /\ s <= disturbed
      BY <1>2, <1>4
    <3>3. Later(framer.clk, s, NewWord(spike), disturbed')
      BY <1>1, <1>2, <3>1, <3>2, NewIsLater
    <3> QED
      BY <1>1, <1>5, <2>1, <3>3
  <2>2. CASE i # head
    <3>1. Ahead(head', tail) = 0 \/ Ahead(head', tail) = Ahead(head, tail) + 1
      BY <1>1, <1>2, PendingAfter
    <3>2. Ahead(head, tail) \in Nat
      BY <1>2, RingIs
    <3>3. Behind(head, i) < Ahead(head, tail)
      BY <1>1, <1>7, <1>10, <2>2, <3>1, <3>2
    <3>4. Later(framer.clk, s, words[i], c[i])
      BY <3>3 DEF Stamped
    <3> QED
      BY <1>1, <1>5, <2>2, <3>4
  <2> QED
    BY <2>1, <2>2
<1>11. ASSUME hostPull' > 0
       PROVE  /\ framer.clk # 0 => s < disturbed'
              /\ \A i \in 0 .. RingWords - 1 :
                    words'[i] # <<>> /\ LastClk(words'[i]) # 0 => d[i] < disturbed'
  <2>1. hostPull > 0
    BY <1>1, <1>11
  <2>2. framer.clk # 0 => s < disturbed'
    BY <1>2, <1>4, <2>1 DEF Stamped
  <2>3. ASSUME NEW i \in 0 .. RingWords - 1, words'[i] # <<>>, LastClk(words'[i]) # 0
        PROVE  d[i] < disturbed'
    <3>1. i # head
      BY <1>1, <1>8, <2>1, <2>3, SampleIs
    <3>2. words'[i] = words[i] /\ d[i] = c[i] /\ c[i] \in Nat
      BY <1>1, <1>5, <1>6, <3>1
    <3>3. c[i] < disturbed
      BY <2>1, <2>3, <3>2 DEF Stamped
    <3> QED
      BY <1>2, <3>2, <3>3
  <2> QED
    BY <2>2, <2>3
<1>12. s \in 0 .. disturbed'
  BY <1>2, <1>4
<1>13. Settled(Reader', s) /\ Timed(Reader')
  BY <1>1, <1>4
<1>14. Stamped(d, s)'
  BY <1>1, <1>5, <1>9, <1>10, <1>11, <1>12, <1>13 DEF Stamped
<1> QED
  BY <1>14

-----------------------------------------------------------------------------
(* What a poll reads: of the words that are pending, the last so many.     *)
LEMMA PollReads ==
  ASSUME Places, Poll, NEW n, n = Min({Batch, (head + RingWords - From) % RingWords})
  PROVE  /\ From \in 0 .. RingWords - 1 /\ n = Ahead(head, From) /\ n \in 0 .. RingWords - 1
         /\ n <= Ahead(head, tail)
         /\ wire' = wire /\ layout' = layout /\ words' = words /\ head' = head /\ tail' = head
         /\ hostPull' = hostPull /\ disturbed' = disturbed
<1>1. head \in 0 .. RingWords - 1 /\ tail \in 0 .. RingWords - 1 /\ RingWords \in Nat \ {0}
  BY LineAssumption DEF Places
<1>2. /\ wire' = wire /\ layout' = layout /\ words' = words /\ head' = head
      /\ hostPull' = hostPull /\ disturbed' = disturbed
  BY DEF Poll, txVars
<1>3. tail' = head
  BY <1>1, PollTakesAll
<1>4. Resync \in 0 .. RingWords - 1 /\ From \in 0 .. RingWords - 1
  BY <1>1, RingIs DEF Resync, From
<1> DEFINE waiting == (head + RingWords - From) % RingWords
<1>5. waiting = Ahead(head, From) /\ waiting \in 0 .. RingWords - 1
  BY <1>1, <1>4, RingIs
<1>6. n = waiting
  <2> HIDE DEF waiting
  <2>1. n = Min({Batch, waiting})
    BY DEF waiting
  <2> QED
    BY <1>1, <1>5, <2>1, LesserIs DEF Batch
<1>7. n <= Ahead(head, tail)
  <2>1. Ahead(head, tail) \in 0 .. RingWords - 1 /\ Pending = Ahead(head, tail)
    BY <1>1, RingIs, PendingIs
  <2>2. CASE ~Overrun
    <3>1. From = tail
      BY <2>2 DEF From
    <3> QED
      BY <1>5, <1>6, <2>1, <3>1
  <2>3. CASE Overrun
    <3>1. Ahead(head, tail) = RingWords - 1
      BY <1>1, <2>1, <2>3 DEF Overrun
    <3> HIDE DEF waiting
    <3>2. n \in 0 .. RingWords - 1
      BY <1>5, <1>6
    <3> QED
      BY <1>1, <3>1, <3>2
  <2> QED
    BY <2>2, <2>3
<1> QED
  BY <1>2, <1>3, <1>4, <1>5, <1>6, <1>7

LEMMA WordsThere ==
  ASSUME Places, NEW D, Leveled(D), NEW f \in 0 .. RingWords - 1,
         NEW n, n = Ahead(head, f), n <= Ahead(head, tail)
  PROVE  \A k \in 0 .. n - 1 : /\ Slot(f, k) \in 0 .. RingWords - 1
                               /\ Behind(head, Slot(f, k)) = (n - 1) - k
                               /\ words[Slot(f, k)] # <<>> /\ IsWord(words[Slot(f, k)], D)
<1>1. head \in 0 .. RingWords - 1 /\ tail \in 0 .. RingWords - 1
  BY DEF Places
<1>2. n \in Nat /\ Ahead(head, tail) \in Nat
  BY <1>1, RingIs
<1> TAKE k \in 0 .. n - 1
<1>3. Slot(f, k) \in 0 .. RingWords - 1 /\ Behind(head, Slot(f, k)) = (n - 1) - k
  BY <1>1, SlotIs
<1>4. Behind(head, Slot(f, k)) < Ahead(head, tail)
  BY <1>2, <1>3
<1>5. words[Slot(f, k)] # <<>> /\ IsWord(words[Slot(f, k)], D)
  BY <1>3, <1>4 DEF Leveled
<1> QED
  BY <1>3, <1>5

LEMMA PollSteps ==
  ASSUME GuardCovers, Places, Poll, NEW D, Leveled(D)
  PROVE  /\ Places' /\ Leveled(D)'
         /\ wire' = wire /\ layout' = layout /\ words' = words /\ head' = head /\ tail' = head
         /\ hostPull' = hostPull /\ disturbed' = disturbed
         /\ \E f \in 0 .. RingWords - 1, n \in Nat : \E r :
               /\ n = Ahead(head, f) /\ n <= Ahead(head, tail) /\ (Overrun \/ f = tail)
               /\ ReadsOn(r, D, Reader, f, n) /\ Reader' = r[n]
<1> DEFINE n == Min({Batch, (head + RingWords - From) % RingWords})
<1>1. /\ From \in 0 .. RingWords - 1 /\ n = Ahead(head, From) /\ n \in Nat
      /\ n <= Ahead(head, tail)
      /\ wire' = wire /\ layout' = layout /\ words' = words /\ head' = head /\ tail' = head
      /\ hostPull' = hostPull /\ disturbed' = disturbed
  BY PollReads
<1>2. n = Min({Batch, (head + RingWords - From) % RingWords})
  OBVIOUS
<1> HIDE DEF n
<1>3. Levels(D) /\ Reader \in Readers(D)
  BY DEF Leveled
<1>4. Readable(D, From, n)
  BY <1>1, WordsThere DEF Readable
<1>5. PICK r : ReadsOn(r, D, Reader, From, n) /\ r[n] = DrainRead(Reader, From, n)
  BY <1>1, <1>3, <1>4, DrainSteps
<1>6. r[n] \in Readers(D)
  BY <1>1, <1>5 DEF ReadsOn
<1>7. Reader' = r[n]
  BY <1>2, <1>5, <1>6, PollIs
<1>8. Places'
  BY <1>1 DEF Places
<1>9. \A i \in 0 .. RingWords - 1 : ~(Behind(head', i) < Ahead(head', tail'))
  <2>1. head \in 0 .. RingWords - 1
    BY DEF Places
  <2>2. \A i \in 0 .. RingWords - 1 : Behind(head, i) \in Nat
    BY <2>1, BehindIs
  <2>3. Ahead(head', tail') = 0
    BY <1>1, <2>1 DEF Ahead
  <2> QED
    BY <1>1, <2>2, <2>3
<1>10. Leveled(D)'
  BY <1>1, <1>6, <1>7, <1>9 DEF Leveled, Levels
<1>11. Overrun \/ From = tail
  BY DEF From
<1> QED
  BY <1>1, <1>5, <1>7, <1>8, <1>10, <1>11

LEMMA PollPassesNothing ==
  ASSUME wire = "kbd", layout # "low", GuardCovers, Places, NEW D, Leveled(D),
         forwarded = {}, NEW f \in 0 .. RingWords - 1, NEW n \in Nat, n = Ahead(head, f),
         n <= Ahead(head, tail), NEW r, ReadsOn(r, D, Reader, f, n)
  PROVE  r[n].forwarded = {}
<1> DEFINE Silent == {a \in Readers(D) : a.forwarded = {}}
<1>1. /\ Reader \in Readers(D) /\ Levels(D) /\ Reader.forwarded = {}
  BY DEF Leveled, Reader
<1>2. /\ \A k \in 0 .. n : r[k] \in Readers(D)
      /\ r[0] = Reader
      /\ \A k \in 1 .. n : r[k] = WordRead(r[k - 1], words[Slot(f, k - 1)])
  BY DEF ReadsOn
<1>3. r[0] \in Silent
  BY <1>1, <1>2
<1>4. ASSUME NEW k \in 1 .. n, r[k - 1] \in Silent PROVE r[k] \in Silent
  <2>1. k - 1 \in 0 .. n - 1 /\ k \in 0 .. n
    OBVIOUS
  <2>2. IsWord(words[Slot(f, k - 1)], D)
    BY <2>1, WordsThere
  <2>3. r[k] = WordRead(r[k - 1], words[Slot(f, k - 1)]) /\ r[k] \in Readers(D)
    BY <1>2, <2>1
  <2>4. WordRead(r[k - 1], words[Slot(f, k - 1)]).forwarded = {}
    BY <1>1, <1>4, <2>2, NoWordPasses
  <2> QED
    BY <2>3, <2>4
<1>5. \A k \in 1 .. n : r[k - 1] \in Silent => r[k] \in Silent
  BY <1>4
<1> HIDE DEF Silent
<1>6. \A k \in 0 .. n : r[k] \in Silent
  BY <1>3, <1>5, HoldsAlong
<1> QED
  BY <1>6 DEF Silent

(* A reader that has read all but the last m of the words.                 *)
Caught(a, c, v, m) ==
    /\ v \in 0 .. disturbed /\ Settled(a, v) /\ Timed(a)
    /\ hostPull > 0 /\ a.framer.clk # 0 => v < disturbed
    /\ \A i \in 0 .. RingWords - 1 : Behind(head, i) < m => Later(a.framer.clk, v, words[i], c[i])

LEMMA WordCaught ==
  ASSUME wire = "kbd", layout = "low", GuardCovers, Places, NEW D, Leveled(D),
         NEW c, NEW s, Stamped(c, s),
         NEW a \in Readers(D), NEW v, NEW m \in Nat, Caught(a, c, v, m + 1),
         m < Ahead(head, tail),
         NEW i \in 0 .. RingWords - 1, Behind(head, i) = m, words[i] # <<>>, IsWord(words[i], D)
  PROVE  Caught(WordRead(a, words[i]), c, c[i], m)
<1> DEFINE w == words[i]
           q == WordRead(a, w)
<1>1. /\ Levels(D) /\ disturbed \in 0 .. MaxDisturbed /\ MaxDisturbed \in Nat
      /\ head \in 0 .. RingWords - 1
  BY LineAssumption DEF Leveled, Places
<1>2. c[i] \in 0 .. disturbed
  BY DEF Stamped
<1>3. v \in Nat /\ c[i] \in Nat /\ c[i] <= MaxDisturbed /\ Settled(a, v) /\ Timed(a)
  BY <1>1, <1>2 DEF Caught
<1>4. Later(a.framer.clk, v, w, c[i])
  BY DEF Caught
<1>5. Settled(q, c[i]) /\ Timed(q) /\ q.framer.clk = LastClk(w)
  <2> HIDE DEF w
  <2>1. IsWord(w, D)
    BY DEF w
  <2> QED
    BY <1>1, <1>3, <1>4, <2>1, WordKeeps DEF LastClk
<1>6. hostPull > 0 /\ q.framer.clk # 0 => c[i] < disturbed
  BY <1>5 DEF Stamped
<1>7. ASSUME NEW j \in 0 .. RingWords - 1, Behind(head, j) < m
      PROVE  Later(q.framer.clk, c[i], words[j], c[j])
  <2>1. Behind(head, j) \in Nat /\ Ahead(head, tail) \in Nat
    BY <1>1, BehindIs, RingIs DEF Places
  <2>2. words[j] # <<>>
    BY <1>7, <2>1 DEF Leveled
  <2>3. Later(LastClk(w), c[i], words[j], c[j])
    BY <1>7, <2>2 DEF Stamped
  <2> QED
    BY <1>5, <2>3
<1> QED
  BY <1>2, <1>5, <1>6, <1>7 DEF Caught

LEMMA PollKeepsStamps ==
  ASSUME wire = "kbd", layout = "low", GuardCovers, Places, NEW D, Leveled(D),
         NEW c, NEW s, Stamped(c, s), NEW f \in 0 .. RingWords - 1, NEW n \in Nat,
         n = Ahead(head, f), n <= Ahead(head, tail), NEW r, ReadsOn(r, D, Reader, f, n)
  PROVE  \E v : Caught(r[n], c, v, 0)
<1> DEFINE T == {k \in Nat : k <= n => \E v : Caught(r[k], c, v, n - k)}
<1>1. /\ \A k \in 0 .. n : r[k] \in Readers(D)
      /\ r[0] = Reader
      /\ \A k \in 1 .. n : r[k] = WordRead(r[k - 1], words[Slot(f, k - 1)])
  BY DEF ReadsOn
<1>2. Ahead(head, tail) \in Nat /\ \A i \in 0 .. RingWords - 1 : Behind(head, i) \in Nat
  BY RingIs, BehindIs DEF Places
<1>3. 0 \in T
  <2>1. Caught(Reader, c, s, n - 0)
    <3>1. Reader.framer.clk = framer.clk
      BY DEF Reader
    <3>2. \A i \in 0 .. RingWords - 1 :
             Behind(head, i) < n - 0 => Later(framer.clk, s, words[i], c[i])
      <4>1. \A i \in 0 .. RingWords - 1 :
               Behind(head, i) < n - 0 => Behind(head, i) < Ahead(head, tail)
        BY <1>2
      <4> QED
        BY <4>1 DEF Stamped
    <3> QED
      BY <3>1, <3>2 DEF Caught, Stamped
  <2> QED
    BY <1>1, <2>1
<1>4. ASSUME NEW k \in Nat, k \in T PROVE k + 1 \in T
  <2> SUFFICES ASSUME k + 1 <= n PROVE \E v : Caught(r[k + 1], c, v, n - (k + 1))
    OBVIOUS
  <2> DEFINE m == n - (k + 1)
             i == Slot(f, k)
  <2>1. m \in Nat /\ n - k = m + 1 /\ m < Ahead(head, tail) /\ k \in 0 .. n - 1
        /\ k \in 0 .. n /\ k + 1 \in 1 .. n /\ (k + 1) - 1 = k /\ (n - 1) - k = m
    BY <1>2
  <2>2. PICK v : Caught(r[k], c, v, m + 1)
    <3>1. \E v : Caught(r[k], c, v, n - k)
      BY <1>4, <2>1
    <3> HIDE DEF m
    <3> QED
      BY <2>1, <3>1
  <2>3. /\ i \in 0 .. RingWords - 1 /\ Behind(head, i) = m
        /\ words[i] # <<>> /\ IsWord(words[i], D)
    <3> HIDE DEF m
    <3> QED
      BY <2>1, WordsThere
  <2>4. r[k] \in Readers(D) /\ r[k + 1] = WordRead(r[k], words[i])
    BY <1>1, <2>1
  <2> HIDE DEF m, i
  <2>5. Caught(WordRead(r[k], words[i]), c, c[i], m)
    BY <2>1, <2>2, <2>3, <2>4, WordCaught
  <2>6. \E u : Caught(r[k + 1], c, u, m)
    BY <2>4, <2>5
  <2> QED
    BY <2>6 DEF m
<1>5. \A k \in Nat : k \in T => k + 1 \in T
  BY <1>4
<1>6. \A k \in T : k <= n => \E v : Caught(r[k], c, v, n - k)
  OBVIOUS
<1> HIDE DEF T
<1>7. n \in T
  BY <1>3, <1>5, SetInduction
<1>8. \E v : Caught(r[n], c, v, n - n)
  BY <1>6, <1>7
<1> QED
  BY <1>8

LEMMA PollKeepsKbd ==
  ASSUME GuardCovers, KbdInv, Poll PROVE KbdInv'
<1> SUFFICES ASSUME wire' = "kbd" PROVE KbdInv'
  BY DEF KbdInv
<1>1. wire = "kbd" /\ layout' = layout
  BY DEF Poll, txVars
<1>2. Places /\ \E D : Leveled(D)
  BY <1>1 DEF KbdInv
<1>3. PICK D : Leveled(D)
  BY <1>2
<1>4. /\ Places' /\ Leveled(D)'
      /\ words' = words /\ head' = head /\ tail' = head
      /\ hostPull' = hostPull /\ disturbed' = disturbed
      /\ \E f \in 0 .. RingWords - 1, n \in Nat : \E r :
            /\ n = Ahead(head, f) /\ n <= Ahead(head, tail)
            /\ ReadsOn(r, D, Reader, f, n) /\ Reader' = r[n]
  BY <1>1, <1>2, <1>3, PollSteps
<1>5. PICK f, n, r :
            /\ f \in 0 .. RingWords - 1 /\ n \in Nat
            /\ n = Ahead(head, f) /\ n <= Ahead(head, tail)
            /\ ReadsOn(r, D, Reader, f, n) /\ Reader' = r[n]
  BY <1>4
<1>6. Reader'.framer = framer' /\ Reader'.forwarded = forwarded'
  BY DEF Reader
<1>7. ASSUME layout # "low" PROVE forwarded' = {}
  <2>1. forwarded = {}
    BY <1>1, <1>7 DEF KbdInv
  <2> QED
    BY <1>1, <1>2, <1>3, <1>5, <1>6, <1>7, <2>1, PollPassesNothing
<1>8. ASSUME layout = "low" PROVE (\E c, s : Stamped(c, s))'
  <2>1. PICK c, s : Stamped(c, s)
    BY <1>1, <1>8 DEF KbdInv
  <2>2. PICK v : Caught(r[n], c, v, 0)
    BY <1>1, <1>2, <1>3, <1>5, <1>8, <2>1, PollKeepsStamps
  <2>3. /\ v \in 0 .. disturbed /\ Settled(Reader', v) /\ Timed(Reader')
        /\ (hostPull > 0 /\ framer'.clk # 0 => v < disturbed)
    BY <1>5, <1>6, <2>2 DEF Caught
  <2>4. \A i \in 0 .. RingWords - 1 : ~(Behind(head', i) < Ahead(head', tail'))
    <3>1. head \in 0 .. RingWords - 1
      BY <1>2 DEF Places
    <3>2. \A i \in 0 .. RingWords - 1 : Behind(head, i) \in Nat
      BY <3>1, BehindIs
    <3>3. Ahead(head', tail') = 0
      BY <1>4, <3>1 DEF Ahead
    <3> QED
      BY <1>4, <3>2, <3>3
  <2>5. Stamped(c, v)'
    BY <1>4, <2>1, <2>3, <2>4 DEF Stamped
  <2> QED
    BY <2>5
<1> QED
  BY <1>1, <1>4, <1>7, <1>8 DEF KbdInv

LEMMA TickKeepsKbd ==
  ASSUME KbdInv, NEW spike \in BOOLEAN, Tick(spike), spike => disturbed < MaxDisturbed
  PROVE  KbdInv'
<1> SUFFICES ASSUME wire' = "kbd" PROVE KbdInv'
  BY DEF KbdInv
<1>1. wire = "kbd" /\ layout' = layout /\ forwarded' = forwarded
  BY DEF Tick, readVars
<1>2. Places /\ \E D : Leveled(D)
  BY <1>1 DEF KbdInv
<1>3. Places' /\ \E D : Leveled(D)'
  BY <1>1, <1>2, TickKeepsLevels
<1>4. ASSUME layout = "low" PROVE (\E c, s : Stamped(c, s))'
  <2>1. PICK c, s : Stamped(c, s)
    BY <1>1, <1>4 DEF KbdInv
  <2>2. PICK D : Leveled(D)
    BY <1>2
  <2>3. \E d : Stamped(d, s)'
    BY <1>1, <1>2, <2>1, <2>2, TickKeepsStamps
  <2> QED
    BY <2>3
<1> QED
  BY <1>1, <1>2, <1>3, <1>4 DEF KbdInv

(* What leaves the ring and the reader alone, and disturbs the wire if it  *)
(* starts to hold CLK down.                                                *)
LEMMA OthersKeepKbd ==
  ASSUME KbdInv, UNCHANGED <<wire, layout, ringVars, readVars>>,
         \/ disturbed' = disturbed /\ hostPull' = hostPull
         \/ disturbed' = disturbed + 1 /\ disturbed < MaxDisturbed
  PROVE  KbdInv'
<1> SUFFICES ASSUME wire' = "kbd" PROVE KbdInv'
  BY DEF KbdInv
<1>1. /\ wire = "kbd" /\ layout' = layout /\ forwarded' = forwarded /\ framer' = framer
      /\ words' = words /\ head' = head /\ tail' = tail /\ Reader' = Reader
  BY DEF ringVars, readVars, Reader
<1>2. Places /\ \E D : Leveled(D)
  BY <1>1 DEF KbdInv
<1>3. disturbed \in Nat /\ disturbed' \in 0 .. MaxDisturbed /\ disturbed <= disturbed'
      /\ (disturbed' = disturbed \/ disturbed < disturbed')
  BY <1>2, LineAssumption DEF Places
<1>4. Places'
  BY <1>1, <1>2, <1>3 DEF Places
<1>5. PICK D : Leveled(D)
  BY <1>2
<1>6. Leveled(D)'
  BY <1>1, <1>5 DEF Leveled, Levels
<1>7. ASSUME layout = "low" PROVE (\E c, s : Stamped(c, s))'
  <2>1. PICK c, s : Stamped(c, s)
    BY <1>1, <1>7 DEF KbdInv
  <2>2. /\ c \in [0 .. RingWords - 1 -> 0 .. disturbed'] /\ s \in 0 .. disturbed'
        /\ \A i \in 0 .. RingWords - 1 : c[i] \in 0 .. disturbed
        /\ s \in 0 .. disturbed
    BY <1>3, <2>1 DEF Stamped
  <2>3. ASSUME hostPull' > 0
        PROVE  /\ framer.clk # 0 => s < disturbed'
               /\ \A i \in 0 .. RingWords - 1 :
                     words[i] # <<>> /\ LastClk(words[i]) # 0 => c[i] < disturbed'
    <3>1. CASE disturbed' = disturbed /\ hostPull' = hostPull
      BY <2>1, <2>3, <3>1 DEF Stamped
    <3>2. CASE disturbed' = disturbed + 1
      BY <1>3, <2>2, <3>2
    <3> QED
      BY <3>1, <3>2
  <2>4. Stamped(c, s)'
    BY <1>1, <2>1, <2>2, <2>3 DEF Stamped
  <2> QED
    BY <2>4
<1> QED
  BY <1>1, <1>2, <1>4, <1>6, <1>7 DEF KbdInv

LEMMA KbdInit ==
  ASSUME GuardCovers, Init PROVE KbdInv
<1>1. /\ head = 0 /\ tail = 0 /\ disturbed = 0 /\ hostPull = 0
      /\ words = [i \in 0 .. RingWords - 1 |-> <<>>]
      /\ framer = NewFramer /\ selfAge = SelfTxGuard /\ forwarded = {} /\ own = FALSE
  BY DEF Init
<1>2. RingWords \in Nat \ {0} /\ MaxDisturbed \in Nat /\ SelfTxGuard \in Nat
      /\ IdleTimeout \in Nat
  BY LineAssumption, TimesAssumption DEF GuardCovers
<1>3. Places
  BY <1>1, <1>2 DEF Places
<1>4. \A i \in 0 .. RingWords - 1 : words[i] = <<>>
  BY <1>1
<1>5. \A i \in 0 .. RingWords - 1 : ~(Behind(head, i) < Ahead(head, tail))
  <2>1. Ahead(head, tail) = 0
    BY <1>1 DEF Ahead
  <2>2. \A i \in 0 .. RingWords - 1 : Behind(head, i) \in Nat
    BY <1>3, BehindIs DEF Places
  <2> QED
    BY <2>1, <2>2
<1>6. PICK D : D = {0, 1, NoLevel}
  OBVIOUS
<1>7. Leveled(D)
  <2>1. framer = [bits |-> <<>>, clk |-> NoLevel, sinceEdge |-> 0, sinceFall |-> 0]
    BY <1>1 DEF NewFramer
  <2>2. framer \in Framers(D)
    BY <1>2, <1>6, <2>1 DEF Framers
  <2>3. Reader \in Readers(D)
    BY <1>1, <1>2, <2>2 DEF Readers, Reader
  <2> QED
    BY <1>4, <1>5, <1>6, <2>3 DEF Leveled, Levels
<1>8. PICK c : c = [i \in 0 .. RingWords - 1 |-> 0]
  OBVIOUS
<1>9. Stamped(c, 0)
  <2>1. c \in [0 .. RingWords - 1 -> 0 .. disturbed] /\ 0 \in 0 .. disturbed
    BY <1>1, <1>8
  <2>2. Settled(Reader, 0) /\ Timed(Reader)
    BY <1>1 DEF Settled, Timed, Reader, NewFramer
  <2>3. ~(hostPull > 0)
    BY <1>1
  <2> QED
    BY <1>4, <1>5, <2>1, <2>2, <2>3 DEF Stamped
<1> QED
  BY <1>1, <1>3, <1>7, <1>9 DEF KbdInv

LEMMA KbdStep ==
  ASSUME GuardCovers, KbdInv, [Next]_vars PROVE KbdInv'
<1>1. CASE Send
  BY <1>1, OthersKeepKbd DEF Send
<1>2. CASE Tick(FALSE)
  BY <1>2, TickKeepsKbd
<1>3. CASE Spike
  BY <1>3, TickKeepsKbd DEF Spike
<1>4. CASE HostHoldsClock
  BY <1>4, OthersKeepKbd DEF HostHoldsClock, txVars
<1>5. CASE PollLate
  BY <1>5, OthersKeepKbd DEF PollLate, txVars
<1>6. CASE Poll
  BY <1>6, PollKeepsKbd
<1>7. CASE UNCHANGED vars
  BY <1>7, OthersKeepKbd DEF vars, txVars
<1> QED
  BY <1>1, <1>2, <1>3, <1>4, <1>5, <1>6, <1>7 DEF Next

(* What the injector types loops back through the oversampler of the same  *)
(* wire, which drops a frame only if a bit of it is the firmware's own and *)
(* the last such bit is younger than SELF_TX_GUARD_US (oversampler.rs).    *)
(* On the keyboard wire no frame with a bit of the firmware's own passes,  *)
(* in either layout of the DMA words, whatever words are lost to a late    *)
(* task, as long as GuardCovers: the undisturbed bits of a frame each end  *)
(* within the idle timeout, and every gap longer than that takes a spike   *)
(* or a host that holds CLK down.                                          *)
THEOREM NoLoopbackOnKeyboardWire ==
  ASSUME GuardCovers PROVE Spec => [](wire = "kbd" => NoLoopback)
<1>1. Init => KbdInv
  BY KbdInit
<1>2. KbdInv /\ [Next]_vars => KbdInv'
  BY KbdStep
<1>3. KbdInv => (wire = "kbd" => NoLoopback)
  <2> SUFFICES ASSUME KbdInv, wire = "kbd" PROVE NoLoopback
    OBVIOUS
  <2>1. \A f \in forwarded : ~f.own
    <3>1. CASE layout = "low"
      <4>1. PICK c, s : Stamped(c, s)
        BY <3>1 DEF KbdInv
      <4>2. \A f \in Reader.forwarded : ~f.own
        BY <4>1 DEF Stamped, Settled
      <4> QED
        BY <4>2 DEF Reader
    <3>2. CASE layout # "low"
      BY <3>2 DEF KbdInv
    <3> QED
      BY <3>1, <3>2
  <2> QED
    BY <2>1 DEF NoLoopback
<1> QED
  BY <1>1, <1>2, <1>3, PTL DEF Spec

-----------------------------------------------------------------------------
(* What a cycle leaves alone of the word being sent and of DATA.           *)
Same(c, m, p) == c.sm.osr = m.osr /\ c.sm.x = m.x /\ c.pins["data"] = p["data"]

LEMMA OntoData ==
  ASSUME NEW p, "data" \in DOMAIN p
  PROVE  /\ \A v : LET q == Onto(Pin("clk", v), Onto(<<>>, p))
                   IN  "data" \in DOMAIN q /\ q["data"] = p["data"]
         /\ \A v : LET q == Onto(Pin("data", v), Onto(<<>>, p))
                   IN  "data" \in DOMAIN q /\ q["data"] = v
         /\ "data" \in DOMAIN Onto(<<>>, Onto(<<>>, p)) /\ Onto(<<>>, Onto(<<>>, p))["data"] = p["data"]
         /\ "data" \in DOMAIN Onto(<<>>, p) /\ Onto(<<>>, p)["data"] = p["data"]
<1>1. DOMAIN Onto(<<>>, p) = DOMAIN p /\ \A l \in DOMAIN p : Onto(<<>>, p)[l] = p[l]
  BY DEF Onto
<1> QED
  BY <1>1 DEF Onto, Pin

(* The bits of the word, and what of them is on DATA.                      *)
LEMMA DataIs ==
  ASSUME NEW m, Machine(m), m.rx = <<>>, m.delay \in Nat, m.pc \in 1 .. 8,
         NEW p, "data" \in DOMAIN p, NEW c, c = Cycle(TxConfig, m, p)
  PROVE  /\ "data" \in DOMAIN c.pins
         /\ m.delay > 0 \/ m.pc \notin {2, 3, 5} \/ (m.pc = 2 /\ m.tx = <<>>) => Same(c, m, p)
         /\ m.delay = 0 /\ m.pc = 2 /\ m.tx # <<>> =>
              c.sm.osr = Head(m.tx) /\ c.pins["data"] = p["data"]
         /\ m.delay = 0 /\ m.pc = 3 =>
              /\ c.sm.x = Head(m.osr) /\ c.sm.osr = SubSeq(m.osr, 2, Len(m.osr))
              /\ c.pins["data"] = p["data"]
         /\ m.delay = 0 /\ m.pc = 5 =>
              c.sm.osr = m.osr /\ c.sm.x = m.x /\ c.pins["data"] = m.x
<1> DEFINE i == TxProgram[m.pc]
           r == Registers(TxConfig, i, m, p)
           driven == Driven(TxConfig, i, m, p)
<1>1. CASE m.delay > 0
  <2>1. c.sm = [m EXCEPT !.delay = m.delay - 1] /\ c.pins = p
    BY <1>1 DEF Cycle, Machine
  <2>2. c.sm.osr = m.osr /\ c.sm.x = m.x
    BY <2>1 DEF Machine
  <2> QED
    BY <1>1, <2>1, <2>2 DEF Same
<1>2. CASE m.delay = 0 /\ m.pc = 2 /\ m.tx = <<>>
  BY <1>2, Waits, OntoData DEF Same
<1>3. ASSUME m.delay = 0, ~(m.pc = 2 /\ m.tx = <<>>), Machine(r), r.rx = <<>>
      PROVE  /\ c.sm.osr = r.osr /\ c.sm.x = r.x
             /\ c.pins = Onto(driven, Onto(<<>>, p))
  <2>1. /\ i = TxProgram[m.pc] /\ r = Registers(TxConfig, i, m, p)
        /\ driven = Driven(TxConfig, i, m, p)
    OBVIOUS
  <2>2. PICK next : next = IF Jumps(i, m) THEN i.to ELSE IF m.pc = 8 THEN 1 ELSE m.pc + 1
    OBVIOUS
  <2> HIDE DEF i, r, driven
  <2> QED
    BY <1>3, <2>1, <2>2, Runs
<1>4. i = TxProgram[m.pc] /\ r = Registers(TxConfig, i, m, p) /\ driven = Driven(TxConfig, i, m, p)
  OBVIOUS
<1> HIDE DEF i, r, driven
<1>5. CASE m.delay = 0 /\ m.pc = 2 /\ m.tx # <<>>
  <2>1. i = Pull
    BY <1>5, <1>4, Program
  <2>2. r = [m EXCEPT !.osr = Head(m.tx), !.tx = Tail(@)]
    BY <1>4, <2>1 DEF Registers, Pull
  <2>3. Machine(r) /\ r.rx = <<>> /\ r.osr = Head(m.tx)
    BY <2>2 DEF Machine
  <2>4. driven = <<>>
    BY <1>4, <2>1 DEF Driven, Pull
  <2> QED
    BY <1>3, <1>5, <2>3, <2>4, OntoData
<1>6. CASE m.delay = 0 /\ m.pc = 3
  <2>1. i = Out("x", 1)
    BY <1>6, <1>4, Program
  <2>2. i.to = "x" /\ i.n = 1 /\ Taken(m.osr, 1) = Head(m.osr) /\ 1 + 1 = 2
    BY <2>1 DEF Out, Taken
  <2>3. Machine(r) /\ r.rx = <<>> /\ r.x = Head(m.osr) /\ r.osr = SubSeq(m.osr, 2, Len(m.osr))
    <3> DEFINE u == IF i.to = "x" THEN Taken(m.osr, i.n) ELSE m.x
               v == SubSeq(m.osr, i.n + 1, Len(m.osr))
    <3>1. r = [m EXCEPT !.x = u, !.osr = v]
      BY <1>4, <2>1 DEF Registers, Out
    <3>2. u = Head(m.osr) /\ v = SubSeq(m.osr, 2, Len(m.osr))
      BY <2>2
    <3> HIDE DEF u, v
    <3>3. Machine(r) /\ r.rx = <<>> /\ r.x = u /\ r.osr = v
      BY <3>1 DEF Machine
    <3> QED
      BY <3>2, <3>3
  <2>4. driven = <<>>
    BY <1>4, <2>1 DEF Driven, Out
  <2> QED
    BY <1>3, <1>6, <2>3, <2>4, OntoData
<1>7. CASE m.delay = 0 /\ m.pc = 5
  <2>1. i = MovPins("x")
    BY <1>7, <1>4, Program
  <2>2. r = m
    BY <1>4, <2>1 DEF Registers, MovPins
  <2>3. driven = Pin("data", m.x)
    BY <1>4, <2>1, Config DEF Driven, MovPins
  <2> QED
    BY <1>3, <1>7, <2>2, <2>3, OntoData
<1>8. CASE m.delay = 0 /\ m.pc \in {1, 4, 6, 7, 8}
  <2>1. r.osr = m.osr /\ r.x = m.x /\ Machine(r) /\ r.rx = <<>>
    <3>1. CASE m.pc = 1
      <4>1. i = Set("y", 10, 0)
        BY <1>4, <3>1, Program
      <4>2. r = [m EXCEPT !.y = 10]
        BY <1>4, <4>1 DEF Registers, Set
      <4> QED
        BY <4>2 DEF Machine
    <3>2. CASE m.pc \in {4, 6, 8}
      <4>1. r = m
        BY <1>4, <3>2, Program DEF Registers, Set
      <4> QED
        BY <4>1
    <3>3. CASE m.pc = 7
      <4>1. i = Jmp("y--", 3)
        BY <1>4, <3>3, Program
      <4>2. r = [m EXCEPT !.y = @ - 1]
        BY <1>4, <4>1 DEF Registers, Jmp
      <4> QED
        BY <4>2 DEF Machine
    <3> QED
      BY <1>8, <3>1, <3>2, <3>3
  <2>2. driven = <<>> \/ \E v : driven = Pin("clk", v)
    BY <1>4, <1>8, Program, Config DEF Driven, Set, Jmp
  <2>3. c.sm.osr = m.osr /\ c.sm.x = m.x /\ c.pins = Onto(driven, Onto(<<>>, p))
    BY <1>3, <1>8, <2>1
  <2>4. "data" \in DOMAIN c.pins /\ c.pins["data"] = p["data"]
    BY <2>2, <2>3, OntoData
  <2> QED
    BY <1>8, <2>3, <2>4 DEF Same
<1> QED
  BY <1>1, <1>2, <1>5, <1>6, <1>7, <1>8

(* The stop bit, a 1, is the k-th that is still to be shifted out.         *)
StopAhead(o, k) == k <= Len(o) /\ o[k] = 1

AtWord(w) == (\E S : w \in Seq(S)) /\ StopAhead(w, 11)

(* An AT frame ends with DATA high, and so begins with it: the stop bit is *)
(* where the loop counter says, and DATA is high before the first bit.     *)
Stopping(m, p) ==
    /\ "data" \in DOMAIN p /\ \E S : m.osr \in Seq(S)
    /\ m.pc = 2 /\ m.tx # <<>> => m.y = 10 /\ \E w : m.tx = <<w>> /\ AtWord(w)
    /\ m.pc = 3 => StopAhead(m.osr, m.y + 1)
    /\ m.pc \in {4, 5} => IF m.y = 0 THEN m.x = 1 ELSE StopAhead(m.osr, m.y)
    /\ m.pc \in {6, 7} => IF m.y = 0 THEN p["data"] = 1 ELSE StopAhead(m.osr, m.y)
    /\ m.pc \in {1, 2, 8} \/ (m.pc \in {3, 4} /\ m.y = 10) => p["data"] = 1

LEMMA ShiftedOut ==
  ASSUME NEW S, NEW o \in Seq(S), NEW y \in 0 .. 10, StopAhead(o, y + 1)
  PROVE  /\ SubSeq(o, 2, Len(o)) \in Seq(S)
         /\ y = 0 => Head(o) = 1
         /\ y # 0 => StopAhead(SubSeq(o, 2, Len(o)), y)
<1>1. Len(o) \in Nat /\ y + 1 <= Len(o) /\ o[y + 1] = 1 /\ o # <<>>
  BY DEF StopAhead
<1>2. Tail(o) = SubSeq(o, 2, Len(o)) /\ Tail(o) \in Seq(S)
  BY <1>1
<1>3. Len(Tail(o)) = Len(o) - 1 /\ \A i \in 1 .. Len(o) - 1 : Tail(o)[i] = o[i + 1]
  BY <1>1
<1>4. Head(o) = o[1]
  BY <1>1
<1>5. y # 0 => y \in 1 .. Len(o) - 1
  BY <1>1
<1>6. y # 0 => StopAhead(Tail(o), y)
  BY <1>1, <1>3, <1>5 DEF StopAhead
<1>7. y = 0 => Head(o) = 1
  BY <1>1, <1>4
<1> QED
  BY <1>2, <1>6, <1>7

LEMMA StopKeeps ==
  ASSUME NEW m, Placed(m), NEW p, Drives(p, Level(m)), Stopping(m, p),
         NEW c, c = Cycle(TxConfig, m, p)
  PROVE  Stopping(c.sm, c.pins)
<1>1. /\ Machine(m) /\ m.rx = <<>> /\ m.delay \in Nat /\ m.y \in Int /\ m.pc \in 1 .. 8
      /\ "clk" \in DOMAIN p /\ "data" \in DOMAIN p
      /\ m.delay # 0 => m.pc \in {5, 7}
      /\ m.pc \in 3 .. 7 => m.y \in 0 .. 10
      /\ m.pc # 2 => m.tx = <<>>
  BY DEF Placed, Drives, Stopping
<1>2. PICK n, q : n = c.sm /\ q = c.pins
  OBVIOUS
<1>3. "data" \in DOMAIN q
  BY <1>1, <1>2, DataIs
<1>4. PICK S : m.osr \in Seq(S)
  BY DEF Stopping
<1> SUFFICES Stopping(n, q)
  BY <1>2
<1>5. CASE m.delay > 0
  <2>1. n.pc = m.pc /\ n.y = m.y /\ n.tx = m.tx /\ m.pc \in {5, 7}
    BY <1>1, <1>2, <1>5, CycleIs DEF Becomes
  <2>2. n.osr = m.osr /\ n.x = m.x /\ q["data"] = p["data"]
    BY <1>1, <1>2, <1>5, DataIs DEF Same
  <2> QED
    BY <1>3, <2>1, <2>2 DEF Stopping
<1>6. CASE m.delay = 0 /\ m.pc = 1
  <2>1. n.pc = 2 /\ n.tx = <<>>
    BY <1>1, <1>2, <1>6, CycleIs DEF Becomes
  <2>2. n.osr = m.osr /\ q["data"] = p["data"]
    BY <1>1, <1>2, <1>6, DataIs DEF Same
  <2> QED
    BY <1>3, <1>6, <2>1, <2>2 DEF Stopping
<1>7. CASE m.delay = 0 /\ m.pc = 2 /\ m.tx = <<>>
  <2>1. n = m
    BY <1>1, <1>2, <1>7, CycleIs
  <2>2. q["data"] = p["data"]
    BY <1>1, <1>2, <1>7, DataIs DEF Same
  <2> QED
    BY <1>3, <1>7, <2>1, <2>2 DEF Stopping
<1>8. CASE m.delay = 0 /\ m.pc = 2 /\ m.tx # <<>>
  <2>1. n.pc = 3 /\ n.y = m.y
    BY <1>1, <1>2, <1>8, CycleIs DEF Becomes
  <2>2. n.osr = Head(m.tx) /\ q["data"] = p["data"]
    BY <1>1, <1>2, <1>8, DataIs
  <2>3. PICK w : m.tx = <<w>> /\ AtWord(w)
    BY <1>8 DEF Stopping
  <2>4. m.y = 10 /\ p["data"] = 1 /\ n.osr = w
    BY <1>8, <2>2, <2>3 DEF Stopping
  <2>5. (\E T : n.osr \in Seq(T)) /\ StopAhead(n.osr, n.y + 1)
    BY <2>1, <2>3, <2>4 DEF AtWord
  <2> QED
    BY <1>3, <2>1, <2>2, <2>4, <2>5 DEF Stopping
<1>9. CASE m.delay = 0 /\ m.pc = 3
  <2>1. n.pc = 4 /\ n.y = m.y /\ m.y \in 0 .. 10
    BY <1>1, <1>2, <1>9, CycleIs DEF Becomes
  <2>2. n.x = Head(m.osr) /\ n.osr = SubSeq(m.osr, 2, Len(m.osr)) /\ q["data"] = p["data"]
    BY <1>1, <1>2, <1>9, DataIs
  <2>3. StopAhead(m.osr, m.y + 1) /\ (m.y = 10 => p["data"] = 1)
    BY <1>9 DEF Stopping
  <2>4. n.osr \in Seq(S) /\ (n.y = 0 => n.x = 1) /\ (n.y # 0 => StopAhead(n.osr, n.y))
    BY <1>4, <2>1, <2>2, <2>3, ShiftedOut
  <2>5. /\ \E T : n.osr \in Seq(T)
        /\ IF n.y = 0 THEN n.x = 1 ELSE StopAhead(n.osr, n.y)
        /\ n.y = 10 => q["data"] = 1
    BY <2>1, <2>2, <2>3, <2>4
  <2> QED
    BY <1>3, <2>1, <2>5 DEF Stopping
<1>10. CASE m.delay = 0 /\ m.pc = 4
  <2>1. n.pc = 5 /\ n.y = m.y
    BY <1>1, <1>2, <1>10, CycleIs DEF Becomes
  <2>2. n.osr = m.osr /\ n.x = m.x
    BY <1>1, <1>2, <1>10, DataIs DEF Same
  <2> QED
    BY <1>3, <1>10, <2>1, <2>2 DEF Stopping
<1>11. CASE m.delay = 0 /\ m.pc = 5
  <2>1. n.pc = 6 /\ n.y = m.y
    BY <1>1, <1>2, <1>11, CycleIs DEF Becomes
  <2>2. n.osr = m.osr /\ q["data"] = m.x
    BY <1>1, <1>2, <1>11, DataIs
  <2> QED
    BY <1>3, <1>11, <2>1, <2>2 DEF Stopping
<1>12. CASE m.delay = 0 /\ m.pc = 6
  <2>1. n.pc = 7 /\ n.y = m.y
    BY <1>1, <1>2, <1>12, CycleIs DEF Becomes
  <2>2. n.osr = m.osr /\ q["data"] = p["data"]
    BY <1>1, <1>2, <1>12, DataIs DEF Same
  <2> QED
    BY <1>3, <1>12, <2>1, <2>2 DEF Stopping
<1>13. CASE m.delay = 0 /\ m.pc = 7
  <2>1. n.pc = (IF m.y = 0 THEN 8 ELSE 3) /\ n.y = m.y - 1 /\ m.y \in 0 .. 10
    BY <1>1, <1>2, <1>13, CycleIs DEF Becomes
  <2>2. n.osr = m.osr /\ q["data"] = p["data"]
    BY <1>1, <1>2, <1>13, DataIs DEF Same
  <2>3. CASE m.y = 0
    BY <1>3, <1>13, <2>1, <2>2, <2>3 DEF Stopping
  <2>4. CASE m.y # 0
    <3>1. StopAhead(n.osr, n.y + 1) /\ n.pc = 3 /\ n.y # 10
      <4>1. n.y + 1 = m.y /\ n.y # 10 /\ n.pc = 3
        BY <2>1, <2>4
      <4> QED
        BY <1>13, <2>2, <2>4, <4>1 DEF Stopping
    <3> QED
      BY <1>3, <1>4, <2>2, <3>1 DEF Stopping
  <2> QED
    BY <2>3, <2>4
<1>14. CASE m.delay = 0 /\ m.pc = 8
  <2>1. n.pc = 1
    BY <1>1, <1>2, <1>14, CycleIs DEF Becomes
  <2>2. n.osr = m.osr /\ q["data"] = p["data"]
    BY <1>1, <1>2, <1>14, DataIs DEF Same
  <2> QED
    BY <1>3, <1>14, <2>1, <2>2 DEF Stopping
<1> QED
  BY <1>1, <1>5, <1>6, <1>7, <1>8, <1>9, <1>10, <1>11, <1>12, <1>13, <1>14

(* What the transmitter does to CLK: it lowers it as it begins a pulse,    *)
(* and raises it five cycles later.                                        *)
LEMMA ClkMoves ==
  ASSUME NEW m, Placed(m), NEW p, Drives(p, Level(m)), NEW n, n = Cycle(TxConfig, m, p).sm
  PROVE  /\ Level(m) = 1 /\ Level(n) = 0 =>
              /\ m.pc = 4 /\ PulsesLeft(m) \in 1 .. 11 /\ PulsesLeft(m) = m.y + 1
              /\ Left(m) = 11 * PulsesLeft(m) + 1
         /\ Level(m) = 0 /\ Level(n) = 1 =>
              Left(n) = 11 * PulsesLeft(n) + 6 /\ Left(m) = 11 * PulsesLeft(n) + 7
         /\ m.pc = 1 => n.pc = 2 /\ Level(m) = 1 /\ Level(n) = 1
<1>1. /\ Machine(m) /\ m.rx = <<>> /\ m.delay \in Nat /\ m.y \in Int /\ m.pc \in 1 .. 8
      /\ "clk" \in DOMAIN p
      /\ m.delay # 0 => m.pc \in {5, 7}
      /\ m.pc \in 3 .. 7 => m.y \in 0 .. 10
  BY DEF Placed, Drives
<1>2. PICK c : c = Cycle(TxConfig, m, p)
  OBVIOUS
<1>3. /\ m.delay > 0 => n.pc = m.pc
      /\ m.delay = 0 =>
           /\ m.pc = 1 => n.pc = 2
           /\ m.pc = 2 => n.pc \in {2, 3}
           /\ m.pc = 3 => n.pc = 4
           /\ m.pc = 5 => n.pc = 6
           /\ m.pc = 6 => n.pc = 7 /\ n.y = m.y /\ n.delay = 3
           /\ m.pc = 7 => n.pc \in {3, 8}
           /\ m.pc = 8 => n.pc = 1
  <2>1. n = c.sm
    BY <1>2
  <2>2. m.delay > 0 => n.pc = m.pc
    BY <1>1, <1>2, <2>1, CycleIs DEF Becomes
  <2>3. m.delay = 0 =>
           /\ m.pc = 1 => n.pc = 2
           /\ m.pc = 2 /\ m.tx = <<>> => n = m
           /\ m.pc = 2 /\ m.tx # <<>> => n.pc = 3
           /\ m.pc = 3 => n.pc = 4
           /\ m.pc = 5 => n.pc = 6
           /\ m.pc = 6 => n.pc = 7 /\ n.y = m.y /\ n.delay = 3
           /\ m.pc = 7 => n.pc = IF m.y = 0 THEN 8 ELSE 3
           /\ m.pc = 8 => n.pc = 1
    BY <1>1, <1>2, <2>1, CycleIs DEF Becomes
  <2> QED
    BY <2>2, <2>3
<1>4. ASSUME Level(m) = 1, Level(n) = 0
      PROVE  /\ m.pc = 4 /\ PulsesLeft(m) \in 1 .. 11 /\ PulsesLeft(m) = m.y + 1
             /\ Left(m) = 11 * PulsesLeft(m) + 1
  <2>1. m.pc = 4
    BY <1>1, <1>3, <1>4 DEF Level
  <2>2. PulsesLeft(m) = m.y + 1 /\ Left(m) = 11 * m.y + 12 /\ m.y \in 0 .. 10
    BY <1>1, <2>1, LeftIs, PulsesLeftIs
  <2> QED
    BY <2>1, <2>2
<1>5. ASSUME Level(m) = 0, Level(n) = 1
      PROVE  Left(n) = 11 * PulsesLeft(n) + 6 /\ Left(m) = 11 * PulsesLeft(n) + 7
  <2>1. m.pc = 6 /\ n.pc = 7 /\ n.y = m.y /\ n.delay = 3 /\ m.y \in 0 .. 10
    BY <1>1, <1>3, <1>5 DEF Level
  <2>2. PulsesLeft(n) = n.y /\ Left(n) = 11 * n.y + 3 + n.delay /\ Left(m) = 11 * m.y + 7
    BY <2>1, LeftIs, PulsesLeftIs
  <2> QED
    BY <2>1, <2>2
<1>6. m.pc = 1 => n.pc = 2 /\ Level(m) = 1 /\ Level(n) = 1
  BY <1>1, <1>3 DEF Level
<1> QED
  BY <1>4, <1>5, <1>6

(* A pulse still to come takes what is left of its bit at least.           *)
LEMMA LeftBound ==
  ASSUME NEW m, Placed(m)
  PROVE  PulsesLeft(m) \in 0 .. 11 /\ (PulsesLeft(m) > 0 => Left(m) >= 11 * PulsesLeft(m) + 1)
<1>1. m.pc \in 1 .. 8 /\ m.y \in Int /\ m.delay \in 0 .. 3
      /\ (m.pc \in 3 .. 7 => m.y \in 0 .. 10)
      /\ (m.pc = 2 => m.y = 10 \/ (m.tx # <<>> /\ m.y = 8))
  BY DEF Placed
<1>2. CASE m.pc \in {1, 8} \/ (m.pc = 2 /\ m.tx = <<>>)
  BY <1>2, PulsesLeftIs
<1>3. CASE m.pc = 2 /\ m.tx # <<>>
  <2>1. PulsesLeft(m) = m.y + 1 /\ Left(m) = 11 * (m.y + 1) + 3 /\ m.y \in {8, 10}
    BY <1>1, <1>3, LeftIs, PulsesLeftIs
  <2> QED
    BY <2>1
<1>4. CASE m.pc \in {3, 4}
  <2>1. PulsesLeft(m) = m.y + 1 /\ Left(m) \in {11 * m.y + 12, 11 * m.y + 13} /\ m.y \in 0 .. 10
    BY <1>1, <1>4, LeftIs, PulsesLeftIs
  <2> QED
    BY <2>1
<1>5. CASE m.pc \in {5, 6, 7}
  <2>1. PulsesLeft(m) = m.y /\ m.y \in 0 .. 10
        /\ Left(m) \in {11 * m.y + 8 + m.delay, 11 * m.y + 7, 11 * m.y + 3 + m.delay}
    BY <1>1, <1>5, LeftIs, PulsesLeftIs
  <2>2. Left(m) >= 11 * m.y + 1
    <3> DEFINE a == 11 * m.y
    <3>1. a \in Nat /\ Left(m) \in {a + 8 + m.delay, a + 7, a + 3 + m.delay}
      BY <2>1
    <3> HIDE DEF a
    <3>2. Left(m) >= a + 1
      BY <1>1, <3>1
    <3> QED
      BY <3>2 DEF a
  <2> QED
    BY <2>1, <2>2
<1> QED
  BY <1>1, <1>2, <1>3, <1>4, <1>5

-----------------------------------------------------------------------------
(* One sample in full: a timeout, no edge, an edge that counts for         *)
(* nothing, a bit.                                                         *)
LEMMA IngestDoes ==
  ASSUME NEW D, NEW f \in Framers(D), NEW clk \in D, NEW data \in D,
         NEW i, i = Ingest(f, clk, data)
  PROVE  /\ i.f.clk = clk
         /\ TimedOut(f) => i.frame = EmitOnTimeout(f.bits) /\ i.f.bits = <<>>
         /\ ~TimedOut(f) /\ (f.clk = NoLevel \/ f.clk = clk) =>
              /\ i.frame = NoFrame /\ i.f.bits = f.bits
              /\ i.f.sinceEdge = f.sinceEdge /\ i.f.sinceFall = f.sinceFall
         /\ ~TimedOut(f) /\ f.clk # NoLevel /\ f.clk # clk
              /\ ~(f.sinceEdge >= GlitchThreshold /\ clk = 0) =>
              /\ i.frame = NoFrame /\ i.f.bits = f.bits
              /\ i.f.sinceEdge = 0 /\ i.f.sinceFall = f.sinceFall
         /\ ~TimedOut(f) /\ f.clk # NoLevel /\ f.clk # clk
              /\ f.sinceEdge >= GlitchThreshold /\ clk = 0 =>
              /\ i.f.sinceEdge = 0 /\ i.f.sinceFall = 0
              /\ IF Len(f.bits) + 1 >= 11
                 THEN i.frame = BuildFrame("At", Append(f.bits, data)) /\ i.f.bits = <<>>
                 ELSE i.frame = NoFrame /\ i.f.bits = Append(f.bits, data)
<1> DEFINE g == [f EXCEPT !.clk = clk]
           h == [g EXCEPT !.sinceEdge = 0]
           edge == f.clk # NoLevel /\ f.clk # clk
           b == Append(f.bits, data)
           k == [h EXCEPT !.bits = b, !.sinceFall = 0]
<1>1. /\ g.clk = clk /\ g.bits = f.bits /\ g.sinceEdge = f.sinceEdge /\ g.sinceFall = f.sinceFall
      /\ ResetIdle(g).clk = clk /\ ResetIdle(g).bits = <<>>
  BY DEF Framers, ResetIdle
<1>2. h.clk = clk /\ h.bits = f.bits /\ h.sinceEdge = 0 /\ h.sinceFall = f.sinceFall
  BY DEF Framers
<1>3. /\ k.clk = clk /\ k.bits = b /\ k.sinceEdge = 0 /\ k.sinceFall = 0
      /\ ResetIdle(k).clk = clk /\ ResetIdle(k).bits = <<>>
      /\ ResetIdle(k).sinceEdge = 0 /\ ResetIdle(k).sinceFall = 0
  <2> HIDE DEF b
  <2> QED
    BY DEF Framers, ResetIdle
<1>4. OnClkFall(h, data) = IF Len(b) >= 11 THEN [f |-> ResetIdle(k), frame |-> BuildFrame("At", b)]
                           ELSE [f |-> k, frame |-> NoFrame]
  BY <1>2 DEF OnClkFall, AtBitCount
<1>5. Len(b) = Len(f.bits) + 1
  BY AppendProperties DEF Framers
<1>6. i = IF f.bits # <<>> /\ f.sinceFall >= IdleTimeout
          THEN [f |-> ResetIdle(g), frame |-> EmitOnTimeout(f.bits)]
          ELSE IF ~edge THEN [f |-> g, frame |-> NoFrame]
          ELSE IF f.sinceEdge >= GlitchThreshold /\ clk = 0
          THEN OnClkFall(h, data) ELSE [f |-> h, frame |-> NoFrame]
  BY DEF Ingest
<1> HIDE DEF g, h, k, b
<1>7. CASE TimedOut(f)
  BY <1>1, <1>6, <1>7 DEF TimedOut
<1>8. CASE ~TimedOut(f) /\ ~edge
  BY <1>1, <1>6, <1>8 DEF TimedOut
<1>9. CASE ~TimedOut(f) /\ edge /\ ~(f.sinceEdge >= GlitchThreshold /\ clk = 0)
  BY <1>2, <1>6, <1>9 DEF TimedOut
<1>10. CASE ~TimedOut(f) /\ edge /\ f.sinceEdge >= GlitchThreshold /\ clk = 0
  <2>1. i = OnClkFall(h, data)
    BY <1>6, <1>10 DEF TimedOut
  <2>2. CASE Len(f.bits) + 1 >= 11
    BY <1>3, <1>4, <1>5, <1>10, <2>1, <2>2 DEF b
  <2>3. CASE ~(Len(f.bits) + 1 >= 11)
    BY <1>3, <1>4, <1>5, <1>10, <2>1, <2>3 DEF b
  <2> QED
    BY <2>2, <2>3
<1> QED
  BY <1>7, <1>8, <1>9, <1>10

(* What the AUX task's well-formed frames look like.                       *)
LEMMA AuxPassesIs ==
  /\ ~AuxPasses(NoFrame)
  /\ \A b : AuxPasses(BuildFrame("At", b)) => b[1] = 0 /\ b[11] = 1
  /\ \A b : AuxPasses(EmitOnTimeout(b)) => Len(b) = 9 /\ b[1] = 1
<1>1. ~AuxPasses(NoFrame)
  BY DEF AuxPasses, NoFrame
<1>2. ASSUME NEW b, AuxPasses(BuildFrame("At", b)) PROVE b[1] = 0 /\ b[11] = 1
  BY <1>2 DEF AuxPasses, BuildFrame
<1>3. ASSUME NEW b, AuxPasses(EmitOnTimeout(b)) PROVE Len(b) = 9 /\ b[1] = 1
  BY <1>3 DEF AuxPasses, EmitOnTimeout, BuildFrame, XtBitCount
<1> QED
  BY <1>1, <1>2, <1>3

LEMMA AgedFramer ==
  ASSUME GuardCovers, NEW D, NEW r \in Readers(D), NEW q, q = Aged(r)
  PROVE  /\ q \in Readers(D) /\ q.forwarded = r.forwarded
         /\ q.framer.clk = r.framer.clk /\ q.framer.bits = r.framer.bits
         /\ r.framer.sinceFall < IdleTimeout => q.framer.sinceFall = r.framer.sinceFall + 1
         /\ q.framer.sinceEdge \in {r.framer.sinceEdge + 1, IdleTimeout}
<1> DEFINE f == r.framer
           e == Min({f.sinceEdge + 1, IdleTimeout})
           d == Min({f.sinceFall + 1, IdleTimeout})
           a == Min({r.selfAge + 1, SelfTxGuard})
<1>1. /\ f \in Framers(D) /\ f.sinceEdge \in Nat /\ f.sinceFall \in 0 .. IdleTimeout
      /\ IdleTimeout \in Nat
  BY TimesAssumption DEF Readers, Framers
<1>2. e \in {f.sinceEdge + 1, IdleTimeout}
  <2>1. CASE f.sinceEdge + 1 <= IdleTimeout
    BY <1>1, <2>1, LesserOf
  <2>2. CASE ~(f.sinceEdge + 1 <= IdleTimeout)
    <3>1. e = IdleTimeout
      BY <1>1, <2>2, LesserIs
    <3> QED
      BY <3>1
  <2> QED
    BY <2>1, <2>2
<1>3. f.sinceFall < IdleTimeout => d = f.sinceFall + 1
  BY <1>1, LesserOf
<1>4. Older(f) = [f EXCEPT !.sinceEdge = e, !.sinceFall = d]
  BY Zenon DEF Older
<1>5. q = [r EXCEPT !.framer = Older(f), !.selfAge = a]
  BY Zenon DEF Aged
<1> HIDE DEF e, d, a
<1>6. /\ Older(f).sinceEdge = e /\ Older(f).sinceFall = d
      /\ Older(f).clk = f.clk /\ Older(f).bits = f.bits
  BY <1>1, <1>4 DEF Framers
<1>7. q.framer = Older(f) /\ q.forwarded = r.forwarded
  BY <1>5 DEF Readers
<1>8. q \in Readers(D)
  BY AgedKeeps
<1> QED
  BY <1>2, <1>3, <1>6, <1>7, <1>8

(* The mouse's reader: a sample, and a word of one sample in either layout. *)
AuxSampled(r, x) ==
    [framer |-> Took(r, x).f, selfAge |-> AgeAt(r, x),
     own |-> (r.own \/ Fell(r, x)) /\ Took(r, x).frame.kind = "None",
     forwarded |-> IF AuxPasses(Took(r, x).frame)
                   THEN r.forwarded \cup {[kind |-> Took(r, x).frame.kind,
                                           own |-> r.own \/ Fell(r, x)]}
                   ELSE r.forwarded]

ZeroSample == [clk |-> 0, pull |-> 0, data |-> 0]

AuxRead(lay, a, x) ==
    IF lay = "low" THEN AuxSampled(Aged(a), x)
                   ELSE AuxSampled(AuxSampled(Aged(a), ZeroSample), x)

LEMMA AuxSampledIs ==
  ASSUME wire = "aux", NEW r, NEW x PROVE Sampled(r, x) = AuxSampled(r, x)
<1>1. (x.pull = 0 \/ wire = "aux") = TRUE /\ wire # "kbd"
  OBVIOUS
<1>2. (r.own \/ (Fell(r, x) /\ TRUE)) = (r.own \/ Fell(r, x))
  OBVIOUS
<1> QED
  BY <1>1, <1>2 DEF Sampled, AuxSampled, AgeAt, Took, Fell

LEMMA AuxReadIs ==
  ASSUME wire = "aux", GuardCovers, NEW D, Levels(D), NEW a \in Readers(D),
         NEW x \in Samples(D)
  PROVE  WordRead(a, <<x>>) = AuxRead(layout, a, x)
<1>1. Aged(a) \in Readers(D)
  BY AgedKeeps
<1>2. CASE layout = "low"
  <2>1. Decoded(<<x>>) = <<x>> /\ <<x>> \in Seq(Samples(D)) /\ Len(<<x>>) = 1 /\ <<x>>[1] = x
    BY <1>2 DEF Decoded
  <2>2. PICK r \in [0 .. 1 -> Readers(D)] :
             /\ r[0] = Aged(a)
             /\ \A k \in 1 .. 1 : r[k] = Sampled(r[k - 1], <<x>>[k])
             /\ r[1] = SamplesRead(Aged(a), <<x>>)
    <3> DEFINE w == <<x>>
    <3>1. w \in Seq(Samples(D)) /\ Len(w) = 1
      BY <2>1
    <3> HIDE DEF w
    <3>2. \E r \in [0 .. 1 -> Readers(D)] :
             /\ r[0] = Aged(a)
             /\ \A k \in 1 .. 1 : r[k] = Sampled(r[k - 1], w[k])
             /\ r[1] = SamplesRead(Aged(a), w)
      BY <1>1, <3>1, SampledSteps
    <3> QED
      BY <3>2 DEF w
  <2>3. r[1] = Sampled(Aged(a), x)
    BY <2>1, <2>2
  <2> QED
    BY <1>2, <2>1, <2>2, <2>3, AuxSampledIs DEF WordRead, AuxRead
<1>3. CASE layout # "low"
  <2>1. Decoded(<<x>>) = <<ZeroSample, x>>
    <3>1. Decoded(<<x>>) = <<ZeroSample>> \o <<x>>
      BY <1>3 DEF Decoded, ZeroSample
    <3> QED
      BY <3>1
  <2>2. ZeroSample \in Samples(D)
    BY DEF Levels, Samples, ZeroSample
  <2> DEFINE w == <<ZeroSample, x>>
  <2>3. w \in Seq(Samples(D)) /\ Len(w) = 2 /\ w[1] = ZeroSample /\ w[2] = x
    BY <2>2
  <2> HIDE DEF w
  <2>4. PICK r \in [0 .. 2 -> Readers(D)] :
             /\ r[0] = Aged(a)
             /\ \A k \in 1 .. 2 : r[k] = Sampled(r[k - 1], w[k])
             /\ r[2] = SamplesRead(Aged(a), w)
    BY <1>1, <2>3, SampledSteps
  <2>5. r[1] = Sampled(Aged(a), ZeroSample) /\ r[2] = Sampled(r[1], x)
    <3>1. 1 \in 1 .. 2 /\ 2 \in 1 .. 2 /\ 1 - 1 = 0 /\ 2 - 1 = 1
      OBVIOUS
    <3>2. r[1] = Sampled(r[1 - 1], w[1]) /\ r[2] = Sampled(r[2 - 1], w[2])
      BY <2>4, <3>1, Zenon
    <3> QED
      BY <2>3, <2>4, <3>1, <3>2
  <2> QED
    BY <1>3, <2>1, <2>4, <2>5, AuxSampledIs DEF WordRead, AuxRead, w
<1> QED
  BY <1>2, <1>3

LEMMA AuxSampledTyped ==
  ASSUME NEW D, NEW r \in Readers(D), NEW x \in Samples(D)
  PROVE  AuxSampled(r, x) \in Readers(D)
<1> DEFINE i == Took(r, x)
           mine == r.own \/ Fell(r, x)
           age == AgeAt(r, x)
           idle == i.frame.kind = "None"
           passed == IF AuxPasses(i.frame)
                     THEN r.forwarded \cup {[kind |-> i.frame.kind, own |-> mine]}
                     ELSE r.forwarded
<1>1. /\ r.framer \in Framers(D) /\ x.clk \in D /\ x.data \in D /\ r.own \in BOOLEAN
      /\ r.selfAge \in Nat /\ r.forwarded \in SUBSET Passed
  BY DEF Readers, Samples
<1>2. AuxSampled(r, x) = [framer |-> i.f, selfAge |-> age, own |-> mine /\ idle,
                          forwarded |-> passed]
  BY DEF AuxSampled
<1>3. i.f \in Framers(D)
  BY <1>1, IngestIs DEF Took
<1>4. mine \in BOOLEAN /\ age \in Nat
  BY <1>1 DEF AgeAt, Fell
<1>5. passed \in SUBSET Passed
  <2>1. AuxPasses(i.frame) => i.frame.kind \in {"At", "Xt"}
    BY DEF AuxPasses
  <2> HIDE DEF mine, i, age
  <2> QED
    BY <1>1, <1>4, <2>1 DEF Passed
<1>6. (mine /\ idle) \in BOOLEAN
  OBVIOUS
<1> HIDE DEF passed, mine, i, age, idle
<1> QED
  BY <1>2, <1>3, <1>4, <1>5, <1>6 DEF Readers

(* Where the framer has read no more than zeros nothing passes either.     *)
ZeroBits(f) == \A j \in 1 .. Len(f.bits) : f.bits[j] = 0

LEMMA ZerosPassNothing ==
  ASSUME NEW D, NEW r \in Readers(D), NEW x \in Samples(D), r.forwarded = {}, ZeroBits(r.framer),
         r.framer.clk # 0 /\ x.clk = 0 => x.data = 0
  PROVE  /\ AuxSampled(r, x).forwarded = {} /\ ZeroBits(AuxSampled(r, x).framer)
         /\ AuxSampled(r, x).framer.clk = x.clk
<1> DEFINE f == r.framer
           i == Took(r, x)
           b == Append(f.bits, x.data)
<1>1. f \in Framers(D) /\ x.clk \in D /\ x.data \in D /\ f.bits \in Seq(D) /\ Len(f.bits) \in Nat
  BY DEF Readers, Framers, Samples
<1>2. i = Ingest(f, x.clk, x.data)
  BY DEF Took
<1>3. /\ AuxSampled(r, x).framer = i.f
      /\ ~AuxPasses(i.frame) => AuxSampled(r, x).forwarded = {}
  BY DEF AuxSampled
<1>e. \A h : h.bits = <<>> => ZeroBits(h)
  BY DEF ZeroBits
<1> HIDE DEF i
<1>4. i.f.clk = x.clk
  BY <1>1, <1>2, IngestDoes
<1>5. CASE TimedOut(f)
  <2>1. i.frame = EmitOnTimeout(f.bits) /\ i.f.bits = <<>>
    BY <1>1, <1>2, <1>5, IngestDoes
  <2>2. ~AuxPasses(EmitOnTimeout(f.bits))
    <3> SUFFICES ASSUME AuxPasses(EmitOnTimeout(f.bits)) PROVE FALSE
      OBVIOUS
    <3>1. Len(f.bits) = 9 /\ f.bits[1] = 1
      BY AuxPassesIs
    <3>2. f.bits[1] = 0
      BY <3>1 DEF ZeroBits
    <3> QED
      BY <3>1, <3>2
  <2> QED
    BY <1>3, <1>4, <1>e, <2>1, <2>2
<1>6. CASE ~TimedOut(f) /\ (f.clk = NoLevel \/ f.clk = x.clk \/ ~(f.sinceEdge >= GlitchThreshold /\ x.clk = 0))
  <2>1. i.frame = NoFrame /\ i.f.bits = f.bits
    BY <1>1, <1>2, <1>6, IngestDoes
  <2>2. ZeroBits(i.f)
    BY <2>1 DEF ZeroBits
  <2> QED
    BY <1>3, <1>4, <2>1, <2>2, AuxPassesIs
<1>7. CASE /\ ~TimedOut(f) /\ f.clk # NoLevel /\ f.clk # x.clk
           /\ f.sinceEdge >= GlitchThreshold /\ x.clk = 0
  <2>1. x.data = 0
    BY <1>7
  <2>2. Len(b) = Len(f.bits) + 1 /\ \A j \in 1 .. Len(b) : b[j] = 0
    <3>1. /\ Len(b) = Len(f.bits) + 1
          /\ \A j \in 1 .. Len(f.bits) : b[j] = f.bits[j]
          /\ b[Len(f.bits) + 1] = x.data
      BY <1>1, AppendProperties
    <3>2. \A j \in 1 .. Len(f.bits) : f.bits[j] = 0
      BY DEF ZeroBits
    <3> HIDE DEF b
    <3>3. \A j \in 1 .. Len(b) : j \in 1 .. Len(f.bits) \/ j = Len(f.bits) + 1
      BY <1>1, <3>1
    <3> QED
      BY <2>1, <3>1, <3>2, <3>3
  <2>3. IF Len(f.bits) + 1 >= 11 THEN i.frame = BuildFrame("At", b) /\ i.f.bits = <<>>
        ELSE i.frame = NoFrame /\ i.f.bits = b
    <3>1. f.clk # NoLevel /\ f.clk # x.clk /\ f.sinceEdge >= GlitchThreshold /\ x.clk = 0
          /\ ~TimedOut(f)
      BY <1>7
    <3>2. PICK y : y = x.data
      OBVIOUS
    <3>3. b = Append(f.bits, y) /\ y \in D
      BY <1>1, <3>2
    <3> HIDE DEF b, f
    <3>4. IF Len(f.bits) + 1 >= 11
          THEN i.frame = BuildFrame("At", Append(f.bits, y)) /\ i.f.bits = <<>>
          ELSE i.frame = NoFrame /\ i.f.bits = Append(f.bits, y)
      BY <1>1, <1>2, <3>1, <3>2, <3>3, IngestDoes, SMTT(30)
    <3> QED
      BY <3>3, <3>4, Zenon
  <2> HIDE DEF b
  <2>4. CASE Len(f.bits) + 1 >= 11
    <3>1. b[11] = 0
      BY <1>1, <2>2, <2>4
    <3>2. ~AuxPasses(BuildFrame("At", b))
      BY <3>1, AuxPassesIs
    <3> QED
      BY <1>3, <1>4, <1>e, <2>3, <2>4, <3>2
  <2>5. CASE ~(Len(f.bits) + 1 >= 11)
    <3>1. ZeroBits(i.f)
      BY <2>2, <2>3, <2>5 DEF ZeroBits
    <3> QED
      BY <1>3, <1>4, <2>3, <2>5, <3>1, AuxPassesIs
  <2> QED
    BY <2>4, <2>5
<1> QED
  BY <1>5, <1>6, <1>7

(* In the layout that the comments do not have, the zeros below the        *)
(* samples are a falling edge a word, and a bit 0 each.                    *)
LEMMA HighKeeps ==
  ASSUME GuardCovers, NEW D, Levels(D), NEW r \in Readers(D), NEW x \in Samples(D),
         r.forwarded = {}, ZeroBits(r.framer), NEW lay, lay # "low", NEW q, q = AuxRead(lay, r, x)
  PROVE  q.forwarded = {} /\ ZeroBits(q.framer)
<1>1. PICK a : a = Aged(r)
  OBVIOUS
<1>2. a \in Readers(D) /\ a.forwarded = {} /\ ZeroBits(a.framer)
  <2>1. a \in Readers(D) /\ a.forwarded = r.forwarded /\ a.framer.bits = r.framer.bits
    BY <1>1, AgedFramer
  <2> QED
    BY <2>1 DEF ZeroBits
<1>3. ZeroSample \in Samples(D) /\ ZeroSample.data = 0 /\ ZeroSample.clk = 0
  BY DEF Levels, Samples, ZeroSample
<1>4. PICK b : b = AuxSampled(a, ZeroSample)
  OBVIOUS
<1>5. b \in Readers(D) /\ b.forwarded = {} /\ ZeroBits(b.framer) /\ b.framer.clk = 0
  <2>1. AuxSampled(a, ZeroSample) \in Readers(D)
    BY <1>2, <1>3, AuxSampledTyped
  <2>2. /\ AuxSampled(a, ZeroSample).forwarded = {} /\ ZeroBits(AuxSampled(a, ZeroSample).framer)
        /\ AuxSampled(a, ZeroSample).framer.clk = ZeroSample.clk
    BY <1>2, <1>3, ZerosPassNothing
  <2> QED
    BY <1>3, <1>4, <2>1, <2>2
<1>6. AuxSampled(b, x).forwarded = {} /\ ZeroBits(AuxSampled(b, x).framer)
  BY <1>5, ZerosPassNothing
<1> QED
  BY <1>1, <1>4, <1>6 DEF AuxRead

(* A bit takes eleven cycles, less than the idle timeout, and CLK rests    *)
(* for six of them, no less than the glitch threshold.                     *)
BitsInTime == 11 < IdleTimeout /\ GlitchThreshold <= 6

(* The framer of an undisturbed wire follows the transmitter: it has as    *)
(* many bits as have been clocked, the first of them high, the last as old *)
(* as the cycles since, and the next edge is no glitch.                    *)
Tracks(f, m, g) ==
    /\ f.clk = Level(m) \/ (f.clk = NoLevel /\ m.pc = 1)
    /\ Len(f.bits) = IF PulsesLeft(m) = 0 THEN 0 ELSE 11 - PulsesLeft(m)
    /\ f.bits # <<>> => f.bits[1] # 0 /\ f.sinceFall + Left(m) = 11 * PulsesLeft(m) + 11
    /\ PulsesLeft(m) = 0 => f.sinceEdge + g >= GlitchThreshold
    /\ PulsesLeft(m) # 0 /\ Level(m) = 1 =>
          f.sinceEdge >= GlitchThreshold \/ f.sinceEdge + Left(m) >= 11 * PulsesLeft(m) + 6

LEMMA LowKeeps ==
  ASSUME GuardCovers, BitsInTime, NEW D, Levels(D), NEW r \in Readers(D), NEW x \in Samples(D),
         r.forwarded = {},
         NEW m, Placed(m), NEW p, Drives(p, Level(m)), Stopping(m, p),
         NEW c, c = Cycle(TxConfig, m, p), x.clk = c.pins["clk"], x.data = c.pins["data"],
         NEW g \in Nat, Left(m) <= g, g > 0, Tracks(r.framer, m, g),
         NEW lay, lay = "low", NEW q, q = AuxRead(lay, r, x)
  PROVE  q.forwarded = {} /\ Tracks(q.framer, c.sm, g - 1)
<1>1. PICK n, a, i : n = c.sm /\ a = Aged(r) /\ i = Took(a, x)
  OBVIOUS
<1> DEFINE f == r.framer
           e == a.framer
           k == PulsesLeft(m)
           l == PulsesLeft(n)
<1>2. /\ q.framer = i.f
      /\ ~AuxPasses(i.frame) => q.forwarded = a.forwarded
  BY <1>1 DEF AuxRead, AuxSampled
<1>3. /\ a \in Readers(D) /\ a.forwarded = {} /\ e.clk = f.clk /\ e.bits = f.bits
      /\ f.sinceFall < IdleTimeout => e.sinceFall = f.sinceFall + 1
      /\ e.sinceEdge \in {f.sinceEdge + 1, IdleTimeout}
  BY <1>1, AgedFramer
<1>4. /\ e \in Framers(D) /\ x.clk \in D /\ x.data \in D /\ i = Ingest(e, x.clk, x.data)
      /\ f.bits \in Seq(D) /\ Len(f.bits) \in Nat /\ f.sinceEdge \in Nat /\ f.sinceFall \in Nat
  BY <1>1, <1>3, TimesAssumption DEF Took, Readers, Framers, Samples
<1>5. /\ Placed(n) /\ Drives(c.pins, Level(n))
      /\ Left(m) # 0 => Left(n) = Left(m) - 1
      /\ k = l + (IF p["clk"] > c.pins["clk"] THEN 1 ELSE 0)
  BY <1>1, Advances
<1>6. p["clk"] = Level(m) /\ x.clk = Level(n) /\ Level(m) \in {0, 1} /\ Level(n) \in {0, 1}
  BY <1>5 DEF Drives, Level
<1>7. /\ Level(m) = 1 /\ Level(n) = 0 => m.pc = 4 /\ k \in 1 .. 11 /\ k = m.y + 1 /\ Left(m) = 11 * k + 1
      /\ Level(m) = 0 /\ Level(n) = 1 => Left(n) = 11 * l + 6 /\ Left(m) = 11 * l + 7
      /\ m.pc = 1 => n.pc = 2 /\ Level(m) = 1 /\ Level(n) = 1
  BY <1>1, ClkMoves
<1>8. /\ k \in 0 .. 11 /\ (k > 0 => Left(m) >= 11 * k + 1)
      /\ l \in 0 .. 11 /\ Left(m) \in Nat /\ Left(n) \in Nat
  BY <1>5, LeftBound, LeftNat
<1>9. /\ IdleTimeout \in Nat /\ GlitchThreshold \in Nat /\ GlitchThreshold < IdleTimeout
      /\ 11 < IdleTimeout /\ GlitchThreshold <= 6
  BY TimesAssumption DEF BitsInTime
<1>10. /\ f.clk = Level(m) \/ (f.clk = NoLevel /\ m.pc = 1)
       /\ Len(f.bits) = IF k = 0 THEN 0 ELSE 11 - k
       /\ f.bits # <<>> => f.bits[1] # 0 /\ f.sinceFall + Left(m) = 11 * k + 11
       /\ k = 0 => f.sinceEdge + g >= GlitchThreshold
       /\ k # 0 /\ Level(m) = 1 =>
            f.sinceEdge >= GlitchThreshold \/ f.sinceEdge + Left(m) >= 11 * k + 6
  BY DEF Tracks
<1>11. f.bits # <<>> => /\ k > 0 /\ f.sinceFall <= 10 /\ e.sinceFall = f.sinceFall + 1
  <2> SUFFICES ASSUME f.bits # <<>> PROVE k > 0 /\ f.sinceFall <= 10 /\ e.sinceFall = f.sinceFall + 1
    OBVIOUS
  <2>1. Len(f.bits) # 0
    BY <1>4
  <2>2. k > 0
    BY <1>8, <1>10, <2>1
  <2>3. f.sinceFall <= 10
    <3> HIDE DEF k, f
    <3> QED
      BY <1>4, <1>8, <1>10, <2>2
  <2> QED
    BY <1>3, <1>4, <1>9, <2>2, <2>3
<1>12. ~TimedOut(e)
  BY <1>3, <1>4, <1>9, <1>11 DEF TimedOut
<1> HIDE DEF f, e, k, l
<1>13. CASE Level(m) = 1 /\ Level(n) = 0
  <2>1. k = l + 1 /\ m.pc = 4 /\ k \in 1 .. 11 /\ k = m.y + 1 /\ Left(m) = 11 * k + 1 /\ l \in 0 .. 10
    BY <1>5, <1>6, <1>7, <1>8, <1>13 DEF Drives
  <2>2. e.clk = 1 /\ x.clk = 0 /\ e.clk # NoLevel
    <3>1. m.pc # 1
      BY <2>1
    <3>2. f.clk = Level(m)
      BY <1>10, <3>1
    <3>3. e.clk = 1 /\ x.clk = 0
      BY <1>3, <1>6, <1>13, <3>2
    <3> QED
      BY <3>3 DEF NoLevel
  <2>3. e.sinceEdge >= GlitchThreshold
    <3>1. k # 0 /\ (~(f.sinceEdge + Left(m) >= 11 * k + 6) \/ f.sinceEdge >= 5)
      <4>1. k # 0 /\ Left(m) = 11 * k + 1 /\ k \in Int
        BY <2>1
      <4> QED
        BY <1>4, <4>1
    <3>2. f.sinceEdge >= GlitchThreshold \/ f.sinceEdge >= 5
      BY <1>10, <1>13, <2>1, <3>1
    <3> QED
      BY <1>3, <1>4, <1>9, <3>2
  <2> DEFINE b == Append(e.bits, x.data)
  <2>4. /\ i.f.clk = 0 /\ i.f.sinceEdge = 0 /\ i.f.sinceFall = 0
        /\ IF Len(e.bits) + 1 >= 11 THEN i.frame = BuildFrame("At", b) /\ i.f.bits = <<>>
           ELSE i.frame = NoFrame /\ i.f.bits = b
    BY <1>4, <1>12, <2>2, <2>3, IngestDoes
  <2>5. Len(e.bits) = 11 - k /\ Len(b) = 12 - k /\ e.bits \in Seq(D)
    BY <1>3, <1>4, <1>10, <2>1, AppendProperties
  <2>6. b[1] # 0
    <3>1. CASE e.bits = <<>>
      <4>1. Len(e.bits) = 0
        BY <3>1
      <4>2. k = 11 /\ m.y = 10
        <5>1. 0 = 11 - k /\ k \in Int /\ k = m.y + 1 /\ m.y \in Int
          BY <2>1, <2>5, <4>1 DEF Placed
        <5> QED
          BY <5>1
      <4>3. p["data"] = 1
        BY <2>1, <4>2 DEF Stopping
      <4>4. c.pins["data"] = p["data"]
        <5>1. Machine(m) /\ m.rx = <<>> /\ m.delay \in Nat /\ m.pc \in 1 .. 8 /\ "data" \in DOMAIN p
          BY DEF Placed, Stopping
        <5> QED
          BY <2>1, <5>1, DataIs DEF Same
      <4>5. b[1] = x.data
        BY <1>4, <3>1
      <4> QED
        BY <4>3, <4>4, <4>5
    <3>2. CASE e.bits # <<>>
      <4>1. f.bits[1] # 0 /\ Len(e.bits) >= 1
        BY <1>3, <1>10, <2>5, <3>2
      <4>2. b[1] = e.bits[1]
        BY <1>4, <2>5, <4>1, AppendProperties
      <4> QED
        BY <1>3, <4>1, <4>2
    <3> QED
      BY <3>1, <3>2
  <2> HIDE DEF b
  <2>7. ~AuxPasses(i.frame)
    BY <2>4, <2>6, AuxPassesIs
  <2>8. Left(n) = 11 * l + 11 /\ g - 1 >= 11
    BY <1>5, <1>8, <2>1
  <2>9. Len(i.f.bits) = IF l = 0 THEN 0 ELSE 11 - l
    <3>1. CASE l = 0
      BY <2>1, <2>4, <2>5, <3>1
    <3>2. CASE l # 0
      BY <2>1, <2>4, <2>5, <3>2
    <3> QED
      BY <3>1, <3>2
  <2>10. i.f.bits # <<>> => i.f.bits[1] # 0 /\ i.f.sinceFall + Left(n) = 11 * l + 11
    BY <1>8, <2>4, <2>6, <2>8
  <2>11. l = 0 => i.f.sinceEdge + (g - 1) >= GlitchThreshold
    BY <1>9, <2>4, <2>8
  <2>12. Tracks(i.f, n, g - 1)
    BY <1>13, <2>4, <2>9, <2>10, <2>11 DEF Tracks, l
  <2> QED
    BY <1>1, <1>2, <1>3, <2>7, <2>12
<1>14. CASE ~(Level(m) = 1 /\ Level(n) = 0)
  <2>1. k = l
    BY <1>5, <1>6, <1>8, <1>14 DEF Drives
  <2>2. /\ i.f.clk = Level(n) /\ i.frame = NoFrame /\ i.f.bits = e.bits
        /\ i.f.sinceFall = e.sinceFall
    <3>1. e.clk = NoLevel \/ e.clk = x.clk \/ (e.clk = 0 /\ x.clk = 1)
      BY <1>3, <1>6, <1>10, <1>14
    <3>2. CASE e.clk = NoLevel \/ e.clk = x.clk
      BY <1>4, <1>6, <1>12, <3>2, IngestDoes
    <3>3. CASE e.clk = 0 /\ x.clk = 1
      <4>1. e.clk # NoLevel /\ e.clk # x.clk /\ ~(e.sinceEdge >= GlitchThreshold /\ x.clk = 0)
        BY <3>3 DEF NoLevel
      <4> QED
        BY <1>4, <1>6, <1>12, <4>1, IngestDoes
    <3> QED
      BY <3>1, <3>2, <3>3
  <2>3. \/ i.f.sinceEdge = e.sinceEdge
        \/ Level(m) = 0 /\ Level(n) = 1 /\ i.f.sinceEdge = 0
    <3>1. e.clk = NoLevel \/ e.clk = x.clk \/ (e.clk = 0 /\ x.clk = 1 /\ Level(m) = 0)
      BY <1>3, <1>6, <1>7, <1>10, <1>14 DEF NoLevel
    <3>2. CASE e.clk = NoLevel \/ e.clk = x.clk
      BY <1>4, <1>12, <3>2, IngestDoes
    <3>3. CASE e.clk = 0 /\ x.clk = 1 /\ Level(m) = 0
      <4>1. e.clk # NoLevel /\ e.clk # x.clk /\ ~(e.sinceEdge >= GlitchThreshold /\ x.clk = 0)
        BY <3>3 DEF NoLevel
      <4> QED
        BY <1>4, <1>6, <1>12, <3>3, <4>1, IngestDoes
    <3> QED
      BY <3>1, <3>2, <3>3
  <2>4. Len(i.f.bits) = IF l = 0 THEN 0 ELSE 11 - l
    BY <1>3, <1>10, <2>1, <2>2
  <2>5. i.f.bits # <<>> => i.f.bits[1] # 0 /\ i.f.sinceFall + Left(n) = 11 * l + 11
    <3> SUFFICES ASSUME i.f.bits # <<>>
                 PROVE  i.f.bits[1] # 0 /\ i.f.sinceFall + Left(n) = 11 * l + 11
      OBVIOUS
    <3>1. f.bits # <<>> /\ i.f.bits = f.bits /\ i.f.sinceFall = f.sinceFall + 1 /\ k > 0
      BY <1>3, <1>11, <2>2
    <3>2. Left(n) = Left(m) - 1
      BY <1>5, <1>8, <3>1
    <3> QED
      BY <1>4, <1>8, <1>10, <2>1, <3>1, <3>2
  <2>6. l = 0 => i.f.sinceEdge + (g - 1) >= GlitchThreshold
    <3> SUFFICES ASSUME l = 0 PROVE i.f.sinceEdge + (g - 1) >= GlitchThreshold
      OBVIOUS
    <3>1. CASE i.f.sinceEdge = e.sinceEdge
      BY <1>3, <1>4, <1>9, <1>10, <2>1, <3>1
    <3>2. CASE Level(m) = 0 /\ Level(n) = 1 /\ i.f.sinceEdge = 0
      BY <1>7, <1>8, <1>9, <3>2
    <3> QED
      BY <2>3, <3>1, <3>2
  <2>7. l # 0 /\ Level(n) = 1 =>
          i.f.sinceEdge >= GlitchThreshold \/ i.f.sinceEdge + Left(n) >= 11 * l + 6
    <3> SUFFICES ASSUME l # 0, Level(n) = 1
                 PROVE  i.f.sinceEdge >= GlitchThreshold \/ i.f.sinceEdge + Left(n) >= 11 * l + 6
      OBVIOUS
    <3>1. CASE Level(m) = 1
      <4>1. i.f.sinceEdge = e.sinceEdge
        BY <2>3, <3>1
      <4>2. Left(n) = Left(m) - 1 /\ Left(m) \in Nat
        BY <1>5, <1>8, <2>1
      <4> QED
        BY <1>3, <1>4, <1>8, <1>9, <1>10, <2>1, <3>1, <4>1, <4>2
    <3>2. CASE Level(m) = 0
      <4>1. Left(n) = 11 * l + 6
        BY <1>7, <3>2
      <4>2. i.f.sinceEdge \in Nat
        BY <1>3, <1>4, <1>9, <2>3
      <4> QED
        BY <1>8, <4>1, <4>2
    <3> QED
      BY <1>6, <3>1, <3>2
  <2>8. Tracks(i.f, n, g - 1)
    BY <2>2, <2>4, <2>5, <2>6, <2>7 DEF Tracks, l
  <2> QED
    BY <1>1, <1>2, <1>3, <2>2, <2>8, AuxPassesIs
<1> QED
  BY <1>6, <1>13, <1>14

-----------------------------------------------------------------------------
LEMMA AuxReadTyped ==
  ASSUME GuardCovers, NEW D, Levels(D), NEW a \in Readers(D), NEW x \in Samples(D), NEW lay
  PROVE  AuxRead(lay, a, x) \in Readers(D)
<1>1. Aged(a) \in Readers(D)
  BY AgedFramer
<1>2. ZeroSample \in Samples(D)
  BY DEF Levels, Samples, ZeroSample
<1>3. AuxSampled(Aged(a), ZeroSample) \in Readers(D)
  BY <1>1, <1>2, AuxSampledTyped
<1>4. AuxSampled(Aged(a), x) \in Readers(D)
  BY <1>1, AuxSampledTyped
<1>5. AuxSampled(AuxSampled(Aged(a), ZeroSample), x) \in Readers(D)
  BY <1>3, AuxSampledTyped
<1> QED
  BY <1>4, <1>5 DEF AuxRead

(* The reader once it has read all that is pending, word by word.          *)
CaughtUp(r) ==
    /\ r[0] = Reader
    /\ \A k \in 1 .. Ahead(head, tail) :
          r[k] = AuxRead(layout, r[k - 1], words[Slot(tail, k - 1)][1])

(* It has passed nothing, and its framer is where the transmitter is.      *)
FollowsWire(q, lay, m, g) ==
    /\ \E D : Levels(D) /\ q \in Readers(D)
    /\ q.forwarded = {}
    /\ IF lay = "low" THEN Tracks(q.framer, m, g) ELSE ZeroBits(q.framer)

OnlyAt(keys) == \A i \in DOMAIN keys : keys[i].mode = "At"

(* The mouse's wire while nobody has disturbed it.                         *)
Undisturbed ==
    /\ Places /\ \E D : Leveled(D)
    /\ hostPull = 0 /\ forwarded = {}
    /\ pollIn \in Nat /\ Ahead(head, tail) + pollIn <= PollTicks
    /\ \A i \in 0 .. RingWords - 1 : words[i] # <<>> => Len(words[i]) = 1
    /\ Stopping(sm, pins) /\ OnlyAt(todo)
    /\ \A r : CaughtUp(r) => FollowsWire(r[Ahead(head, tail)], layout, sm, gap)

AuxInv ==
    /\ wire \in {"kbd", "aux"} /\ disturbed \in Nat
    /\ wire = "aux" /\ disturbed = 0 => Undisturbed

(* The mouse's half of it: frames and polls in time, and mouse_input.rs    *)
(* sends in the AT format alone.                                           *)
AuxInTime ==
    /\ BitsInTime /\ PollTicks + 1 < RingWords
    /\ \A s \in Sessions : s.wire = "kbd" \/ (s.wire = "aux" /\ OnlyAt(s.keys))

LEMMA AuxInit ==
  ASSUME GuardCovers, Keystroke >= FrameTicks, AuxInTime, Init PROVE AuxInv
<1>1. /\ head = 0 /\ tail = 0 /\ disturbed = 0 /\ hostPull = 0 /\ pollIn = PollTicks
      /\ words = [i \in 0 .. RingWords - 1 |-> <<>>] /\ sm = Idle /\ gap = Keystroke
      /\ pins = [clk |-> 1, data |-> 1]
      /\ framer = NewFramer /\ selfAge = SelfTxGuard /\ forwarded = {} /\ own = FALSE
  BY DEF Init
<1>2. RingWords \in Nat \ {0} /\ SelfTxGuard \in Nat /\ IdleTimeout \in Nat /\ PollTicks \in Nat
      /\ MaxDisturbed \in Nat /\ Keystroke \in Nat /\ Keystroke >= 124 /\ GlitchThreshold \in Nat
      /\ GlitchThreshold <= 6
  BY LineAssumption, TimesAssumption DEF GuardCovers, AuxInTime, BitsInTime, FrameTicks
<1>3. wire \in {"kbd", "aux"} /\ (wire = "aux" => OnlyAt(todo))
  <2>1. PICK s \in Sessions : wire = s.wire /\ todo = s.keys
    BY DEF Init
  <2> QED
    BY <2>1 DEF AuxInTime
<1>4. Ahead(head, tail) = 0
  BY <1>1 DEF Ahead
<1>5. Places
  BY <1>1, <1>2 DEF Places
<1>6. \A i \in 0 .. RingWords - 1 : ~(Behind(head, i) < Ahead(head, tail))
  <2>1. \A i \in 0 .. RingWords - 1 : Behind(head, i) \in Nat
    BY <1>5, BehindIs DEF Places
  <2> QED
    BY <1>4, <2>1
<1>7. PICK D : D = {0, 1, NoLevel}
  OBVIOUS
<1>8. Levels(D) /\ Reader \in Readers(D)
  <2>1. framer = [bits |-> <<>>, clk |-> NoLevel, sinceEdge |-> 0, sinceFall |-> 0]
    BY <1>1 DEF NewFramer
  <2>2. framer \in Framers(D)
    BY <1>2, <1>7, <2>1 DEF Framers
  <2>3. Reader \in Readers(D)
    BY <1>1, <1>2, <2>2 DEF Readers, Reader
  <2> QED
    BY <1>7, <2>3 DEF Levels
<1>9. \A i \in 0 .. RingWords - 1 : words[i] = <<>>
  BY <1>1
<1>10. Leveled(D)
  BY <1>6, <1>8, <1>9 DEF Leveled
<1>11. Stopping(sm, pins)
  <2>1. sm.pc = 1 /\ sm.osr = <<>> /\ "data" \in DOMAIN pins /\ pins["data"] = 1
    BY <1>1 DEF Idle
  <2>2. \E S : sm.osr \in Seq(S)
    <3>1. <<>> \in Seq({0})
      OBVIOUS
    <3> QED
      BY <2>1, <3>1
  <2> QED
    BY <2>1, <2>2 DEF Stopping
<1>12. FollowsWire(Reader, layout, sm, gap)
  <2>1. /\ Reader.framer.bits = <<>> /\ Reader.framer.clk = NoLevel
        /\ Reader.framer.sinceEdge = 0 /\ Reader.forwarded = {}
    BY <1>1 DEF Reader, NewFramer
  <2>2. sm.pc = 1 /\ PulsesLeft(sm) = 0
    BY <1>1, PulsesLeftIs DEF Idle
  <2>3. Len(Reader.framer.bits) = 0
    BY <2>1
  <2>4. 0 + gap >= GlitchThreshold
    BY <1>1, <1>2
  <2>5. Tracks(Reader.framer, sm, gap)
    BY <2>1, <2>2, <2>3, <2>4 DEF Tracks
  <2>6. ZeroBits(Reader.framer)
    BY <2>1 DEF ZeroBits
  <2> QED
    BY <1>8, <2>1, <2>5, <2>6 DEF FollowsWire
<1>13. \A r : CaughtUp(r) => FollowsWire(r[Ahead(head, tail)], layout, sm, gap)
  BY <1>4, <1>12 DEF CaughtUp
<1>14. ASSUME wire = "aux" PROVE Undisturbed
  BY <1>1, <1>2, <1>3, <1>4, <1>5, <1>9, <1>10, <1>11, <1>13, <1>14 DEF Undisturbed
<1> QED
  BY <1>1, <1>3, <1>14 DEF AuxInv

(* An AT frame's word: eleven bits, the last of them high, and padding.    *)
LEMMA FunctionIsSeq ==
  ASSUME NEW n \in Nat, NEW S, NEW f \in [1 .. n -> S]
  PROVE  f \in Seq(S) /\ Len(f) = n
<1>1. f \in Seq(S)
  BY SeqDef, Zenon
<1>2. Len(f) \in Nat /\ DOMAIN f = 1 .. Len(f)
  BY <1>1, LenProperties
<1>3. DOMAIN f = 1 .. n
  OBVIOUS
<1>4. 1 .. n = 1 .. Len(f)
  BY <1>2, <1>3
<1>5. Len(f) = n
  <2>1. \A m, k \in Nat : 1 .. m = 1 .. k => m <= k
    OBVIOUS
  <2> QED
    BY <1>2, <1>4, <2>1
<1> QED
  BY <1>1, <1>5

LEMMA JoinedIs ==
  ASSUME NEW S, NEW s \in Seq(S), NEW t \in Seq(S)
  PROVE  /\ s \o t \in Seq(S) /\ Len(s \o t) = Len(s) + Len(t)
         /\ \A i \in 1 .. Len(s) : (s \o t)[i] = s[i]
         /\ \A i \in 1 .. Len(t) : (s \o t)[Len(s) + i] = t[i]
  OBVIOUS

LEMMA JoinedLengths ==
  ASSUME NEW S, NEW s \in Seq(S), NEW t \in Seq(S)
  PROVE  /\ s \o t \in Seq(S)
         /\ Len(s) = 1 /\ Len(t) = 8 => Len(s \o t) = 9
         /\ Len(s) = 9 /\ Len(t) = 2 => Len(s \o t) = 11 /\ (s \o t)[11] = t[2]
         /\ Len(s) = 11 => 11 <= Len(s \o t) /\ (s \o t)[11] = s[11]
<1>1. PICK j : j = s \o t
  OBVIOUS
<1>2. /\ j \in Seq(S) /\ Len(j) = Len(s) + Len(t)
      /\ \A i \in 1 .. Len(s) : j[i] = s[i]
      /\ \A i \in 1 .. Len(t) : j[Len(s) + i] = t[i]
  BY <1>1, JoinedIs
<1>3. Len(s) \in Nat /\ Len(t) \in Nat
  OBVIOUS
<1>4. ASSUME Len(s) = 9, Len(t) = 2 PROVE Len(j) = 11 /\ j[11] = t[2]
  <2>1. 2 \in 1 .. Len(t) /\ Len(s) + 2 = 11
    BY <1>4
  <2>2. j[Len(s) + 2] = t[2]
    BY <1>2, <2>1
  <2> QED
    BY <1>2, <1>4, <2>1, <2>2
<1>5. ASSUME Len(s) = 11 PROVE 11 <= Len(j) /\ j[11] = s[11]
  <2>1. 11 \in 1 .. Len(s)
    BY <1>5
  <2> QED
    BY <1>2, <1>3, <1>5, <2>1
<1>6. Len(s) = 1 /\ Len(t) = 8 => Len(j) = 9
  BY <1>2
<1> QED
  BY <1>1, <1>2, <1>4, <1>5, <1>6, Zenon

(* The eleventh bit of a byte between a start bit and two more.            *)
Bits(b, S, n) == b \in Seq(S) /\ Len(b) = n

EndsHigh(b, S) == Bits(b, S, 11) /\ b[11] = 1

LEMMA NineBits ==
  ASSUME NEW S, NEW z, Bits(z, S, 1), NEW y, Bits(y, S, 8), NEW a, a = z \o y
  PROVE  Bits(a, S, 9)
<1>1. z \in Seq(S) /\ y \in Seq(S) /\ Len(z) = 1 /\ Len(y) = 8
  BY DEF Bits
<1>2. z \o y \in Seq(S) /\ Len(z \o y) = 9
  BY <1>1, JoinedLengths, Zenon
<1> QED
  BY <1>2 DEF Bits

LEMMA ElevenBits ==
  ASSUME NEW S, NEW a, Bits(a, S, 9), NEW q, Bits(q, S, 2), q[2] = 1, NEW b, b = a \o q
  PROVE  EndsHigh(b, S)
<1>1. a \in Seq(S) /\ q \in Seq(S) /\ Len(a) = 9 /\ Len(q) = 2
  BY DEF Bits
<1>2. a \o q \in Seq(S) /\ Len(a \o q) = 11 /\ (a \o q)[11] = q[2]
  BY <1>1, JoinedLengths, SMTT(30)
<1>3. b \in Seq(S) /\ Len(b) = 11 /\ b[11] = q[2]
  BY <1>2
<1> QED
  BY <1>3 DEF Bits, EndsHigh

LEMMA AtFrameIs ==
  ASSUME NEW key \in Keys, key.mode = "At" PROVE AtWord(Frame(key))
<1> DEFINE p == 1 - (Ones(key.byte) % 2)
<1>1. PICK byte, z, q, S : byte = key.byte /\ z = <<0>> /\ q = <<p, 1>> /\ S = {0, 1, p}
  OBVIOUS
<1>2. PICK b : b = z \o byte \o q
  OBVIOUS
<1>3. Frame(key) = Pad(b)
  BY <1>1, <1>2 DEF Frame, PackAtFrame
<1> HIDE DEF p
<1>4. byte \in Seq(S) /\ Len(byte) = 8
  <2>1. byte \in [1 .. 8 -> {0, 1}] /\ {0, 1} \subseteq S
    BY <1>1 DEF Keys
  <2>2. byte \in [1 .. 8 -> S] /\ 8 \in Nat
    BY <2>1
  <2> QED
    BY <2>2, FunctionIsSeq, Zenon
<1>5. z \in Seq(S) /\ Len(z) = 1 /\ q \in Seq(S) /\ Len(q) = 2 /\ q[2] = 1 /\ 1 \in S
  BY <1>1
<1>6. b \in Seq(S) /\ Len(b) = 11 /\ b[11] = 1
  <2>1. Bits(z, S, 1) /\ Bits(byte, S, 8) /\ Bits(q, S, 2) /\ q[2] = 1
    BY <1>4, <1>5 DEF Bits
  <2>2. EndsHigh(b, S)
    BY <1>2, <2>1, NineBits, ElevenBits, Zenon
  <2> QED
    BY <2>2 DEF Bits, EndsHigh
<1>7. PICK t : t = [i \in 1 .. 32 - Len(b) |-> 1]
  OBVIOUS
<1>8. t \in Seq(S)
  <2>1. 32 - Len(b) = 21 /\ 21 \in Nat
    BY <1>6
  <2>2. t \in [1 .. 21 -> S]
    BY <1>5, <1>7, <2>1
  <2> QED
    BY <2>1, <2>2, FunctionIsSeq
<1>9. Frame(key) = b \o t
  BY <1>3, <1>7 DEF Pad
<1>10. b \o t \in Seq(S) /\ 11 <= Len(b \o t) /\ (b \o t)[11] = 1
  <2>1. b \o t \in Seq(S) /\ 11 <= Len(b \o t) /\ (b \o t)[11] = b[11]
    BY <1>6, <1>8, JoinedLengths, SMTT(30)
  <2> QED
    BY <1>6, <2>1, Zenon
<1>11. (\E T : Frame(key) \in Seq(T)) /\ StopAhead(Frame(key), 11)
  BY <1>9, <1>10, Zenon DEF StopAhead
<1> QED
  BY <1>11 DEF AtWord

(* A byte for the transmitter, to which the reader has caught up.          *)
LEMMA SendKeepsAux ==
  ASSUME Keystroke >= FrameTicks, SendInv, AuxInv, Send PROVE AuxInv'
<1>1. /\ wire' = wire /\ layout' = layout /\ disturbed' = disturbed /\ hostPull' = hostPull
      /\ words' = words /\ head' = head /\ tail' = tail /\ pollIn' = pollIn
      /\ Reader' = Reader /\ forwarded' = forwarded /\ pins' = pins
  BY DEF Send, ringVars, readVars, Reader
<1> SUFFICES ASSUME wire = "aux", disturbed = 0 PROVE Undisturbed'
  BY <1>1 DEF AuxInv
<1>2. Undisturbed
  BY DEF AuxInv
<1>3. /\ todo \in Seq(Keys) /\ todo # <<>> /\ gap = 0 /\ gap' = Keystroke
      /\ todo' = Tail(todo)
  BY DEF SendInv, Send
<1>4. PICK key \in Keys : key = Head(todo) /\ key.mode = "At"
  <2>1. Head(todo) = todo[1] /\ 1 \in DOMAIN todo /\ Head(todo) \in Keys
    BY <1>3
  <2>2. todo[1].mode = "At"
    BY <1>2, <2>1 DEF Undisturbed, OnlyAt
  <2> QED
    BY <2>1, <2>2
<1>5. OnlyAt(todo')
  <2>1. /\ DOMAIN Tail(todo) = 1 .. Len(todo) - 1 /\ DOMAIN todo = 1 .. Len(todo)
        /\ \A i \in 1 .. Len(todo) - 1 : Tail(todo)[i] = todo[i + 1]
    BY <1>3
  <2>2. Len(todo) \in Nat
    BY <1>3
  <2>3. ASSUME NEW i \in DOMAIN Tail(todo) PROVE Tail(todo)[i].mode = "At"
    <3>1. i + 1 \in DOMAIN todo /\ Tail(todo)[i] = todo[i + 1]
      BY <2>1, <2>2, <2>3
    <3> QED
      BY <1>2, <3>1 DEF Undisturbed, OnlyAt
  <2> QED
    BY <1>3, <2>3 DEF OnlyAt
<1>6. sm.pc = 2 /\ sm.tx = <<>> /\ sm.delay = 0 /\ sm.y = 10 /\ Machine(sm)
  BY <1>3, LeftNat DEF SendInv, Placed
<1>7. /\ sm'.pc = 2 /\ sm'.y = 10 /\ sm'.tx = <<Frame(key)>> /\ sm'.osr = sm.osr
  <2>1. sm' = [sm EXCEPT !.tx = Append(@, Frame(key)),
                         !.y = IF key.mode = "Xt" THEN XtLoopInit ELSE @]
    BY <1>4 DEF Send
  <2>2. Append(<<>>, Frame(key)) = <<Frame(key)>>
    OBVIOUS
  <2> QED
    BY <1>4, <1>6, <2>1, <2>2 DEF Machine
<1>8. Stopping(sm', pins')
  <2>1. /\ "data" \in DOMAIN pins /\ (\E S : sm.osr \in Seq(S)) /\ pins["data"] = 1
    BY <1>2, <1>6 DEF Undisturbed, Stopping
  <2>2. AtWord(Frame(key))
    BY <1>4, AtFrameIs
  <2>3. \E w : sm'.tx = <<w>> /\ AtWord(w)
    BY <1>7, <2>2
  <2>4. "data" \in DOMAIN pins' /\ (\E S : sm'.osr \in Seq(S)) /\ pins'["data"] = 1
    BY <1>1, <1>7, <2>1
  <2> QED
    BY <1>7, <2>3, <2>4 DEF Stopping
<1>9. PulsesLeft(sm) = 0 /\ PulsesLeft(sm') = 11 /\ Left(sm') = 124 /\ Level(sm) = 1 /\ Level(sm') = 1
  <2>1. PulsesLeft(sm) = 0 /\ Level(sm) = 1 /\ Level(sm') = 1
    BY <1>6, <1>7, PulsesLeftIs DEF Level
  <2>2. sm'.pc = 2 /\ sm'.y = 10 /\ sm'.tx # <<>>
    BY <1>7
  <2>3. PulsesLeft(sm') = sm'.y + 1 /\ Left(sm') = 11 * (sm'.y + 1) + 3
    BY <2>2, LeftIs, PulsesLeftIs
  <2> QED
    BY <2>1, <2>2, <2>3
<1>10. ASSUME NEW q, FollowsWire(q, layout, sm, gap) PROVE FollowsWire(q, layout, sm', gap')
  <2>1. ASSUME Tracks(q.framer, sm, gap), \E D : q \in Readers(D)
        PROVE  Tracks(q.framer, sm', gap')
    <3>1. /\ q.framer.clk = 1 /\ Len(q.framer.bits) = 0
          /\ q.framer.sinceEdge + 0 >= GlitchThreshold
      BY <1>3, <1>6, <1>9, <2>1 DEF Tracks
    <3>2. PICK D : q.framer \in Framers(D)
      BY <2>1 DEF Readers
    <3>3. q.framer.bits \in Seq(D) /\ q.framer.sinceEdge \in Nat
      BY <3>2 DEF Framers
    <3>4. q.framer.bits = <<>>
      BY <3>1, <3>3
    <3>5. q.framer.sinceEdge >= GlitchThreshold
      BY <3>1, <3>3
    <3> QED
      BY <1>9, <3>1, <3>4, <3>5 DEF Tracks
  <2> QED
    BY <1>10, <2>1 DEF FollowsWire
<1>11. ASSUME NEW r, CaughtUp(r)' PROVE FollowsWire(r[Ahead(head, tail)], layout, sm', gap')
  <2>1. CaughtUp(r)
    BY <1>1, <1>11 DEF CaughtUp
  <2>2. FollowsWire(r[Ahead(head, tail)], layout, sm, gap)
    BY <1>2, <2>1 DEF Undisturbed
  <2> QED
    BY <1>10, <2>2
<1>12. Places' /\ \E D : Leveled(D)'
  BY <1>1, <1>2 DEF Undisturbed, Places, Leveled, Levels
<1> QED
  BY <1>1, <1>2, <1>5, <1>8, <1>11, <1>12 DEF Undisturbed

(* A cycle, and the sample of it that the reader will come to.             *)
LEMMA LastIsNewest ==
  ASSUME Places, NEW n, n = Ahead(head, tail), n + 1 < RingWords
  PROVE  /\ Slot(tail, n) = head
         /\ Ahead((head + 1) % RingWords, tail) = n + 1
         /\ \A k \in 0 .. n - 1 : Slot(tail, k) \in 0 .. RingWords - 1 /\ Slot(tail, k) # head
<1>1. head \in 0 .. RingWords - 1 /\ tail \in 0 .. RingWords - 1 /\ RingWords \in Nat \ {0}
  BY LineAssumption DEF Places
<1>2. n \in Nat /\ Slot(tail, n) = head
  BY <1>1, RingIs DEF Slot
<1>3. (head + 1) % RingWords = IF head + 1 = RingWords THEN 0 ELSE head + 1
  BY <1>1, RingIs
<1>4. Ahead((head + 1) % RingWords, tail) = n + 1
  BY <1>1, <1>2, <1>3 DEF Ahead
<1>5. ASSUME NEW k \in 0 .. n - 1
      PROVE  Slot(tail, k) \in 0 .. RingWords - 1 /\ Slot(tail, k) # head
  <2>1. Slot(tail, k) \in 0 .. RingWords - 1 /\ Behind(head, Slot(tail, k)) = (n - 1) - k
    BY <1>1, SlotIs
  <2>2. Behind(head, head) = (head + RingWords - 1) - head
    BY <1>1 DEF Behind
  <2> QED
    BY <1>1, <1>2, <2>1, <2>2
<1> QED
  BY <1>2, <1>4, <1>5

LEMMA TickKeepsAux ==
  ASSUME GuardCovers, AuxInTime, SendInv, AuxInv, Tick(FALSE) PROVE AuxInv'
<1>1. /\ wire' = wire /\ layout' = layout /\ disturbed' = disturbed /\ forwarded' = forwarded
      /\ hostPull' = (IF hostPull > 0 THEN hostPull - 1 ELSE 0) /\ todo' = todo
      /\ gap > 0 /\ gap' = gap - 1 /\ pollIn > 0 /\ pollIn' = pollIn - 1 /\ tail' = tail
  <2>1. disturbed' = disturbed + 0
    BY DEF Tick
  <2>2. disturbed \in Nat
    BY DEF AuxInv
  <2> QED
    BY <2>1, <2>2 DEF Tick, readVars
<1> SUFFICES ASSUME wire = "aux", disturbed = 0 PROVE Undisturbed'
  BY <1>1 DEF AuxInv
<1>2. Undisturbed
  BY DEF AuxInv
<1>3. Places /\ hostPull = 0 /\ FALSE \in BOOLEAN
  BY <1>2 DEF Undisturbed
<1>4. PICK D : Leveled(D)
  BY <1>2 DEF Undisturbed
<1>5. PICK c, x : c = Cycle(TxConfig, sm, pins) /\ x = Sample
  OBVIOUS
<1>6. sm' = c.sm /\ pins' = c.pins
  BY <1>5 DEF Tick
<1>7. x.clk = c.pins["clk"] /\ x.data = c.pins["data"] /\ x = [clk |-> x.clk, pull |-> 1, data |-> x.data]
  BY <1>3, <1>5 DEF Sample, AuxSample, ClkIn
<1>8. /\ Reader' = Reader /\ head' = (head + 1) % RingWords /\ words'[head] = <<x>>
      /\ DOMAIN words' = 0 .. RingWords - 1
      /\ \A i \in 0 .. RingWords - 1 : i # head => words'[i] = words[i]
  BY <1>3, <1>5, TickIs DEF NewWord
<1>9. Places' /\ \E E : Leveled(E)'
  BY <1>3, <1>4, TickKeepsLevels
<1>10. PICK n : n = Ahead(head, tail)
  OBVIOUS
<1>11. /\ n \in Nat /\ pollIn \in Nat /\ n + pollIn <= PollTicks /\ PollTicks + 1 < RingWords
       /\ PollTicks \in Nat /\ RingWords \in Nat
  BY <1>2, <1>3, <1>10, RingIs, LineAssumption DEF Undisturbed, Places, AuxInTime
<1>12. n + 1 < RingWords
  BY <1>1, <1>11
<1>13. /\ Slot(tail, n) = head /\ Ahead(head', tail') = n + 1
       /\ \A k \in 0 .. n - 1 : Slot(tail, k) \in 0 .. RingWords - 1 /\ Slot(tail, k) # head
  BY <1>1, <1>3, <1>8, <1>10, <1>12, LastIsNewest
<1>14. pollIn' \in Nat /\ Ahead(head', tail') + pollIn' <= PollTicks
  BY <1>1, <1>11, <1>13
<1>15. ASSUME NEW i \in 0 .. RingWords - 1, words'[i] # <<>> PROVE Len(words'[i]) = 1
  <2>1. CASE i = head
    BY <1>8, <2>1
  <2>2. CASE i # head
    BY <1>2, <1>8, <1>15, <2>2 DEF Undisturbed
  <2> QED
    BY <2>1, <2>2
<1>16. Placed(sm) /\ Drives(pins, Level(sm)) /\ Stopping(sm, pins) /\ gap \in Nat /\ Left(sm) <= gap
  BY <1>2 DEF Undisturbed, SendInv
<1>17. Stopping(sm', pins')
  BY <1>5, <1>6, <1>16, StopKeeps
<1>18. ASSUME NEW r, CaughtUp(r)'
       PROVE  FollowsWire(r[Ahead(head', tail')], layout', sm', gap')
  <2>1. /\ r[0] = Reader
        /\ \A k \in 1 .. n + 1 : r[k] = AuxRead(layout, r[k - 1], words'[Slot(tail, k - 1)][1])
    BY <1>1, <1>8, <1>13, <1>18 DEF CaughtUp
  <2>2. ASSUME NEW k \in 1 .. n
        PROVE  r[k] = AuxRead(layout, r[k - 1], words[Slot(tail, k - 1)][1])
    <3>1. k \in 1 .. n + 1 /\ k - 1 \in 0 .. n - 1
      BY <1>11
    <3>2. words'[Slot(tail, k - 1)] = words[Slot(tail, k - 1)]
      BY <1>8, <1>13, <3>1
    <3>3. r[k] = AuxRead(layout, r[k - 1], words'[Slot(tail, k - 1)][1])
      BY <2>1, <3>1, Zenon
    <3> QED
      BY <3>2, <3>3, Zenon
  <2>3. CaughtUp(r)
    BY <1>10, <2>1, <2>2 DEF CaughtUp
  <2>4. FollowsWire(r[n], layout, sm, gap)
    BY <1>2, <1>10, <2>3 DEF Undisturbed
  <2>5. r[n + 1] = AuxRead(layout, r[n], x)
    <3>1. n + 1 \in 1 .. n + 1 /\ (n + 1) - 1 = n
      BY <1>11
    <3>2. r[n + 1] = AuxRead(layout, r[(n + 1) - 1], words'[Slot(tail, (n + 1) - 1)][1])
      BY <2>1, <3>1, Zenon
    <3>3. words'[Slot(tail, n)][1] = x
      BY <1>8, <1>13
    <3> QED
      BY <3>1, <3>2, <3>3
  <2>6. PICK E : Levels(E) /\ r[n] \in Readers(E)
    BY <2>4 DEF FollowsWire
  <2>7. PICK F : F = E \cup {x.clk, x.data, 1}
    OBVIOUS
  <2>8. Levels(F) /\ r[n] \in Readers(F) /\ x \in Samples(F)
    <3>1. E \subseteq F
      BY <2>7
    <3>2. Levels(F) /\ r[n] \in Readers(F)
      BY <2>6, <3>1, Widens DEF Levels
    <3>3. x \in Samples(F)
      BY <1>7, <2>7 DEF Samples
    <3> QED
      BY <3>2, <3>3
  <2>9. r[n].forwarded = {}
    BY <2>4 DEF FollowsWire
  <2>10. PICK q : q = r[n + 1]
    OBVIOUS
  <2>11. q = AuxRead(layout, r[n], x)
    BY <2>5, <2>10
  <2>12. q \in Readers(F)
    BY <2>8, <2>11, AuxReadTyped
  <2>13. CASE layout = "low"
    <3>1. Tracks(r[n].framer, sm, gap)
      BY <2>4, <2>13 DEF FollowsWire
    <3>2. BitsInTime
      BY DEF AuxInTime
    <3>3. q.forwarded = {} /\ Tracks(q.framer, c.sm, gap - 1)
      BY <1>1, <1>5, <1>7, <1>16, <2>8, <2>9, <2>11, <2>13, <3>1, <3>2, LowKeeps
    <3> QED
      BY <1>1, <1>6, <1>13, <2>8, <2>10, <2>12, <2>13, <3>3 DEF FollowsWire
  <2>14. CASE layout # "low"
    <3>1. ZeroBits(r[n].framer)
      BY <2>4, <2>14 DEF FollowsWire
    <3>2. q.forwarded = {} /\ ZeroBits(q.framer)
      BY <2>8, <2>9, <2>11, <2>14, <3>1, HighKeeps
    <3> QED
      BY <1>1, <1>13, <2>8, <2>10, <2>12, <2>14, <3>2 DEF FollowsWire
  <2> QED
    BY <2>13, <2>14
<1> QED
  BY <1>1, <1>2, <1>3, <1>9, <1>14, <1>15, <1>17, <1>18 DEF Undisturbed

(* A poll catches up: its reader is the one that has read what is pending. *)
LEMMA PollKeepsAux ==
  ASSUME GuardCovers, AuxInTime, AuxInv, Poll PROVE AuxInv'
<1>1. /\ wire' = wire /\ layout' = layout /\ disturbed' = disturbed /\ hostPull' = hostPull
      /\ words' = words /\ sm' = sm /\ pins' = pins /\ todo' = todo /\ gap' = gap
      /\ pollIn' = PollTicks
  BY DEF Poll, txVars
<1> SUFFICES ASSUME wire = "aux", disturbed = 0 PROVE Undisturbed'
  BY <1>1 DEF AuxInv
<1>2. Undisturbed
  BY DEF AuxInv
<1>3. Places
  BY <1>2 DEF Undisturbed
<1>4. PICK D : Leveled(D)
  BY <1>2 DEF Undisturbed
<1>5. /\ Places' /\ Leveled(D)' /\ head' = head /\ tail' = head
      /\ \E f \in 0 .. RingWords - 1, n \in Nat : \E r :
            /\ n = Ahead(head, f) /\ n <= Ahead(head, tail) /\ (Overrun \/ f = tail)
            /\ ReadsOn(r, D, Reader, f, n) /\ Reader' = r[n]
  BY <1>3, <1>4, PollSteps
<1>6. ~Overrun
  <2>1. Pending = Ahead(head, tail) /\ Ahead(head, tail) \in Nat
    BY <1>3, PendingIs DEF Places
  <2>2. pollIn \in Nat /\ Ahead(head, tail) + pollIn <= PollTicks /\ PollTicks + 1 < RingWords
        /\ PollTicks \in Nat /\ RingWords \in Nat
    BY <1>2, LineAssumption DEF Undisturbed, AuxInTime
  <2> QED
    BY <2>1, <2>2 DEF Overrun
<1>7. PICK n, r : /\ n = Ahead(head, tail) /\ n \in Nat
                  /\ ReadsOn(r, D, Reader, tail, n) /\ Reader' = r[n]
  BY <1>5, <1>6
<1>8. Levels(D) /\ \A k \in 0 .. n : r[k] \in Readers(D)
  BY <1>4, <1>7 DEF Leveled, ReadsOn
<1>9. CaughtUp(r)
  <2>1. ASSUME NEW k \in 1 .. n
        PROVE  r[k] = AuxRead(layout, r[k - 1], words[Slot(tail, k - 1)][1])
    <3>1. k - 1 \in 0 .. n - 1 /\ k - 1 \in 0 .. n
      BY <1>7
    <3>2. PICK w : w = words[Slot(tail, k - 1)]
      OBVIOUS
    <3>3. tail \in 0 .. RingWords - 1 /\ n <= Ahead(head, tail)
      BY <1>3, <1>7 DEF Places
    <3>4. Slot(tail, k - 1) \in 0 .. RingWords - 1 /\ w # <<>> /\ IsWord(w, D)
      BY <1>3, <1>4, <1>7, <3>1, <3>2, <3>3, WordsThere
    <3>5. Len(w) = 1
      BY <1>2, <3>2, <3>4 DEF Undisturbed
    <3>6. PICK x \in Samples(D) : w = <<x>>
      <4>1. ~(\E x, y \in Samples(D) : w = <<x, y>>)
        BY <3>5
      <4> QED
        BY <3>4, <4>1 DEF IsWord
    <3>7. r[k] = WordRead(r[k - 1], w)
      BY <1>7, <3>2, Zenon DEF ReadsOn
    <3>8. r[k - 1] \in Readers(D)
      BY <1>8, <3>1
    <3>9. WordRead(r[k - 1], <<x>>) = AuxRead(layout, r[k - 1], x)
      BY <1>8, <3>8, AuxReadIs
    <3>10. w[1] = x
      BY <3>6
    <3> QED
      BY <3>2, <3>6, <3>7, <3>9, <3>10, Zenon
  <2> QED
    BY <1>7, <2>1 DEF CaughtUp, ReadsOn
<1>10. FollowsWire(r[n], layout, sm, gap)
  BY <1>2, <1>7, <1>9 DEF Undisturbed
<1>11. Ahead(head', tail') = 0
  BY <1>3, <1>5 DEF Places, Ahead
<1>12. ASSUME NEW q, CaughtUp(q)'
       PROVE  FollowsWire(q[Ahead(head', tail')], layout', sm', gap')
  <2>1. q[0] = Reader'
    BY <1>12 DEF CaughtUp
  <2> QED
    BY <1>1, <1>7, <1>10, <1>11, <2>1
<1>13. forwarded' = {}
  <2>1. Reader'.forwarded = {}
    BY <1>7, <1>10 DEF FollowsWire
  <2> QED
    BY <2>1 DEF Reader
<1>14. pollIn' \in Nat /\ Ahead(head', tail') + pollIn' <= PollTicks
  BY <1>1, <1>11, LineAssumption
<1>15. /\ \A i \in 0 .. RingWords - 1 : words'[i] # <<>> => Len(words'[i]) = 1
       /\ Stopping(sm', pins') /\ OnlyAt(todo') /\ hostPull' = 0
  BY <1>1, <1>2 DEF Undisturbed
<1> QED
  BY <1>5, <1>12, <1>13, <1>14, <1>15 DEF Undisturbed

LEMMA NothingKeepsAux ==
  ASSUME AuxInv, UNCHANGED vars PROVE AuxInv'
<1>1. /\ wire' = wire /\ layout' = layout /\ disturbed' = disturbed /\ hostPull' = hostPull
      /\ words' = words /\ head' = head /\ tail' = tail /\ pollIn' = pollIn
      /\ Reader' = Reader /\ forwarded' = forwarded /\ pins' = pins /\ sm' = sm
      /\ todo' = todo /\ gap' = gap
  BY DEF vars, txVars, ringVars, readVars, Reader
<1>2. Undisturbed => Undisturbed'
  <2> SUFFICES ASSUME Undisturbed PROVE Undisturbed'
    OBVIOUS
  <2>1. Places' /\ \E D : Leveled(D)'
    BY <1>1 DEF Undisturbed, Places, Leveled, Levels
  <2>2. ASSUME NEW r, CaughtUp(r)' PROVE CaughtUp(r)
    BY <1>1, <2>2 DEF CaughtUp
  <2> QED
    BY <1>1, <2>1, <2>2 DEF Undisturbed
<1> QED
  BY <1>1, <1>2 DEF AuxInv

LEMMA AuxStep ==
  ASSUME GuardCovers, Keystroke >= FrameTicks, AuxInTime, SendInv, AuxInv, [Next]_vars
  PROVE  AuxInv'
<1>1. ASSUME disturbed' = disturbed + 1, wire' = wire PROVE AuxInv'
  BY <1>1 DEF AuxInv
<1>2. CASE Send
  BY <1>2, SendKeepsAux
<1>3. CASE Tick(FALSE)
  BY <1>3, TickKeepsAux
<1>4. CASE Spike
  <2>1. Tick(TRUE)
    BY <1>4 DEF Spike
  <2>2. disturbed' = disturbed + 1 /\ wire' = wire
    BY <2>1 DEF Tick
  <2> QED
    BY <1>1, <2>2
<1>5. CASE HostHoldsClock
  BY <1>1, <1>5 DEF HostHoldsClock, txVars
<1>6. CASE PollLate
  BY <1>1, <1>6 DEF PollLate, txVars
<1>7. CASE Poll
  BY <1>7, PollKeepsAux
<1>8. CASE UNCHANGED vars
  BY <1>8, NothingKeepsAux
<1> QED
  BY <1>2, <1>3, <1>4, <1>5, <1>6, <1>7, <1>8 DEF Next

(* The self-classification caveat of injector.rs for both wires: no frame  *)
(* with a bit that this firmware clocked reaches the supervisor.  The AUX  *)
(* task (aux_oversampler.rs) has no guard, and none is needed while nobody *)
(* disturbs the wire: it reads every word, a bit at each falling edge, and *)
(* since the transmitter sets DATA after CLK falls the first bit it reads  *)
(* is the stop bit of the frame before, so that no frame is well formed.   *)
THEOREM NoLoopbackAnywhere ==
  ASSUME GuardCovers, Keystroke >= FrameTicks, AuxInTime PROVE Spec => []NoLoopback
<1>1. Init => AuxInv
  BY AuxInit
<1>2. SendInv /\ AuxInv /\ [Next]_vars => AuxInv'
  BY AuxStep
<1>3. AuxInv /\ (wire = "kbd" => NoLoopback) => NoLoopback
  <2> SUFFICES ASSUME AuxInv, wire = "aux" PROVE NoLoopback
    BY DEF AuxInv
  <2>1. CASE disturbed = 0
    <3>1. forwarded = {}
      BY <2>1 DEF AuxInv, Undisturbed
    <3> QED
      BY <3>1 DEF NoLoopback
  <2>2. CASE disturbed # 0
    <3>1. disturbed > 0
      BY <2>2 DEF AuxInv
    <3> QED
      BY <3>1 DEF NoLoopback
  <2> QED
    BY <2>1, <2>2
<1> QED
  BY <1>1, <1>2, <1>3, SendInvariant, NoLoopbackOnKeyboardWire, PTL DEF Spec
=============================================================================
