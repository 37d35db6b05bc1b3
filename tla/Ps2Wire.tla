------------------------------- MODULE Ps2Wire ------------------------------
(***************************************************************************)
(* A PS/2 wire as the firmware sees and drives it: a transmitter on PIO1   *)
(* (ps2/tx.rs), the oversampler whose DMA ring a task polls                *)
(* (oversampler.rs, aux_oversampler.rs, ring_dma.rs), the framer, and what *)
(* keeps the firmware from classifying the host by its own traffic.  The   *)
(* keyboard wire samples CLK_PULL as well; the AUX wire does not.          *)
(*                                                                         *)
(* One Tick is a cycle of the transmitter (10 us) and one word of the      *)
(* ring (10 samples of 1 us; 7 on the AUX wire, a difference left out).    *)
(* A word stands for its changes: one sample, or two when CLK moves for    *)
(* less than the glitch threshold inside it.                               *)
(***************************************************************************)
EXTENDS Pio, Ps2Framer

CONSTANTS
    Sessions,     \* [wire, keys]: a wire and the [mode, byte] sent on it
    Keystroke,    \* KEYSTROKE_GAP_MS, in ticks
    PollTicks,    \* POLL_INTERVAL_MS, in ticks
    RingWords,    \* RING_WORDS
    SelfTxGuard,  \* SELF_TX_GUARD_US, in ticks
    Layouts,      \* where the DMA word holds the samples: "low" or "high"
    HostPulls,    \* ticks for which the host may hold CLK down
    LateBy,       \* ticks by which a poll may be late
    MaxDisturbed  \* bound: host pulls, spikes and late polls

Keys == [mode : {"At", "Xt"}, byte : [1 .. 8 -> {0, 1}]]

ASSUME LineAssumption ==
    /\ \A s \in Sessions : s.keys \in Seq(Keys)
    /\ Keystroke \in Nat /\ PollTicks \in Nat /\ RingWords \in Nat \ {0}
    /\ LateBy \subseteq Nat /\ MaxDisturbed \in Nat

VARIABLES
    wire, layout,       \* "kbd" or "aux"; the layout of the received words
    sm, pins,           \* the transmitter and the pins it drives
    todo, gap,          \* what is left to send, and the pause before it
    hostPull,           \* ticks for which the host still holds CLK down
    words, head, tail,  \* the ring, DMA's place in it and the reader's
    pollIn,             \* ticks until the task wakes
    overruns,           \* KBD_COUNTERS.fifo_overrun > 0
    framer, selfAge,    \* the framer, ticks since CLK_PULL was read low
    forwarded,          \* frames sent to the supervisor, or signalled to it
    disturbed,
    \* history: pulses begun and due, unread words gone, a bit of the frame
    \* being received is ours, the byte sent and what the host latched of it
    pulses, due, gone, own, sent, latched

txVars   == <<wire, layout, sm, pins, todo, gap, pulses, due, sent, latched>>
ringVars == <<words, head, tail, gone>>
readVars == <<overruns, framer, selfAge, forwarded, own>>
vars     == <<txVars, hostPull, ringVars, pollIn, readVars, disturbed>>

-----------------------------------------------------------------------------
AtLoopInit == 10

\* Mutant: the number of bits, not one less
XtLoopInit_bits == 9

XtLoopInit == 8

\* Mutant: each half of a bit takes eight cycles
TxProgram_slow == << Set("y", AtLoopInit, 0), Pull,
                     Out("x", 1),
                     Set("pins", 0, 7),
                     MovPins("x"),
                     Set("pins", 1, 7),
                     Jmp("y--", 3),
                     Set("pins", 1, 0) >>

TxProgram == << Set("y", AtLoopInit, 0), Pull,
                Out("x", 1),
                Set("pins", 0, 3),
                MovPins("x"),
                Set("pins", 1, 3),
                Jmp("y--", 3),
                Set("pins", 1, 0) >>
TxConfig == [prog |-> TxProgram, set |-> "clk", out |-> "data",
             depth |-> 8, autopush |-> FALSE]
TxReady == AwaitsWord(TxConfig, sm)

Frame(key) == IF key.mode = "At" THEN PackAtFrame(key.byte) ELSE PackXtFrame(key.byte)
BitsOf(key) == IF key.mode = "At" THEN AtBitCount ELSE XtBitCount

\* send_at_byte, send_xt_byte: the latter first makes the state machine
\* execute `set y', which counts only if it is waiting for the word.
Send ==
    /\ todo # <<>> /\ gap = 0
    /\ LET key == Head(todo)
       IN /\ sm' = [sm EXCEPT !.tx = Append(@, Frame(key)),
                              !.y = IF key.mode = "Xt" THEN XtLoopInit ELSE @]
          /\ due' = due + BitsOf(key)
          /\ sent' = key /\ latched' = <<>>
    /\ todo' = Tail(todo) /\ gap' = Keystroke
    /\ UNCHANGED <<wire, layout, pins, pulses, hostPull, ringVars, pollIn, readVars, disturbed>>

-----------------------------------------------------------------------------
ClkIn(p) == IF hostPull > 0 THEN 0 ELSE p["clk"]

\* KbdOversampler: GP2, GP3 and GP4 in one sample.  AuxOversampler: GP6 and
\* GP9 of its window; GP28, which the AUX transmitter pulls, is not in it.
KbdSample(p) == [clk |-> ClkIn(p), pull |-> p["clk"], data |-> p["data"]]
AuxSample(p) == [clk |-> ClkIn(p), pull |-> 1, data |-> p["data"]]

\* The DMA channel writes on, whether or not the reader has been there.
Written(word) ==
    /\ words' = [words EXCEPT ![head] = word]
    /\ head' = (head + 1) % RingWords
    /\ gone' = (gone \/ (head + 1) % RingWords = tail)

Tick(spike) ==
    /\ todo # <<>> => gap > 0
    /\ gap > 0 /\ pollIn > 0
    /\ LET c   == Cycle(TxConfig, sm, pins)
           s == IF wire = "kbd" THEN KbdSample(c.pins) ELSE AuxSample(c.pins)
       IN /\ sm' = c.sm /\ pins' = c.pins
          /\ pulses' = pulses + (IF pins["clk"] > c.pins["clk"] THEN 1 ELSE 0)
          /\ latched' = IF ClkIn(pins) > s.clk THEN Append(latched, s.data) ELSE latched
          /\ Written(IF spike THEN <<[s EXCEPT !.clk = 1 - @], s>> ELSE <<s>>)
    /\ disturbed' = disturbed + (IF spike THEN 1 ELSE 0)
    /\ gap' = gap - 1 /\ pollIn' = pollIn - 1
    /\ hostPull' = IF hostPull > 0 THEN hostPull - 1 ELSE 0
    /\ UNCHANGED <<wire, layout, todo, due, sent, tail, readVars>>

Spike == disturbed < MaxDisturbed /\ Tick(TRUE)

HostHoldsClock ==
    /\ disturbed < MaxDisturbed /\ hostPull = 0
    /\ hostPull' \in HostPulls
    /\ disturbed' = disturbed + 1
    /\ UNCHANGED <<txVars, ringVars, pollIn, readVars>>

\* Another task keeps the executor busy.
PollLate ==
    /\ pollIn = 0 /\ disturbed < MaxDisturbed
    /\ pollIn' \in LateBy
    /\ disturbed' = disturbed + 1
    /\ UNCHANGED <<txVars, hostPull, ringVars, readVars>>

-----------------------------------------------------------------------------
\* Mutant: the guard covers one bit, not the frame
SelfDriven_short(age) == age < 10

SelfDriven(age) == age < SelfTxGuard

\* The samples the tasks take out of a word.  They look for the first in the
\* lowest bits, as the comments say it is ("low").  PIO shifts to the right from
\* the top of a 32-bit register, though, and pushes it after 30 (28) bits: the two
\* (four) lowest bits are zero and everything else is that much higher ("high").
\* A three-bit sample is then read one place off; a four-bit one, one sample late.
Decoded(word) ==
    LET shifted == [i \in DOMAIN word |->
                      [clk |-> word[i].pull, pull |-> word[i].data, data |-> word[i].clk]]
    IN  IF layout = "low" THEN word
        ELSE IF wire = "kbd" THEN <<[clk |-> 0, pull |-> 0, data |-> word[1].clk]>> \o shifted
        ELSE <<[clk |-> 0, pull |-> 0, data |-> 0]>> \o word

\* A frame passes to the supervisor: from the keyboard task unless it is
\* self-driven, from the AUX task if it is well formed.
KbdPasses(frame, age) == frame.kind # "None" /\ ~SelfDriven(age)
AuxPasses(frame) == frame.kind \in {"At", "Xt"} /\ frame.parity_ok /\ frame.framing_ok

\* The reader's state after one sample of a word.  (A bit is ours if it fell
\* while our own transmitter held CLK down: on the AUX wire, always.)
Sampled(r, s) ==
    LET age  == IF s.pull = 0 THEN 0 ELSE r.selfAge
        i    == Ingest(r.framer, s.clk, s.data)
        fell == i.f.bits # r.framer.bits \/ i.frame.kind # "None"
        mine == r.own \/ (fell /\ (s.pull = 0 \/ wire = "aux"))
        pass == IF wire = "kbd" THEN KbdPasses(i.frame, age) ELSE AuxPasses(i.frame)
    IN [framer |-> i.f, selfAge |-> age,
        own |-> mine /\ i.frame.kind = "None",
        forwarded |-> IF pass THEN r.forwarded \cup {[kind |-> i.frame.kind, own |-> mine]}
                      ELSE r.forwarded]

Aged(r) == [r EXCEPT !.framer = Older(@), !.selfAge = Min({@ + 1, SelfTxGuard})]

Pending == (head + RingWords - tail) % RingWords

\* Mutant: a wake takes fewer words than arrive between two wakes
Batch_small == PollTicks - 2

Batch == RingWords - 1

Overrun == Pending >= RingWords - 1

Resync == (head + RingWords - 1) % RingWords

\* run: an overrun is noticed, then drain() takes the pending words.
Poll ==
    /\ pollIn = 0
    /\ LET from == IF Overrun THEN Resync ELSE tail
           n    == Min({Batch, (head + RingWords - from) % RingWords})
           Drained(r, word) == FoldLeft(Sampled, Aged(r), Decoded(word))
           r    == FoldLeft(LAMBDA a, k : Drained(a, words[(from + k) % RingWords]),
                            [framer |-> framer, selfAge |-> selfAge, own |-> own,
                             forwarded |-> forwarded],
                            [k \in 1 .. n |-> k - 1])
       IN /\ overruns' = (overruns \/ Overrun)
          /\ gone' = (gone \/ (Overrun /\ Pending > 1))
          /\ framer' = r.framer /\ selfAge' = r.selfAge
          /\ own' = r.own /\ forwarded' = r.forwarded
          /\ tail' = (from + n) % RingWords
    /\ pollIn' = PollTicks
    /\ UNCHANGED <<txVars, hostPull, words, head, disturbed>>

-----------------------------------------------------------------------------
Init ==
    /\ sm = Idle /\ pins = [clk |-> 1, data |-> 1]
    /\ \E s \in Sessions : wire = s.wire /\ todo = s.keys /\ sent = Head(s.keys)
    /\ layout \in Layouts
    /\ gap = Keystroke
    /\ hostPull = 0
    /\ words = [i \in 0 .. RingWords - 1 |-> <<>>] /\ head = 0 /\ tail = 0
    /\ pollIn = PollTicks /\ overruns = FALSE
    /\ framer = NewFramer /\ selfAge = SelfTxGuard /\ forwarded = {}
    /\ disturbed = 0
    /\ pulses = 0 /\ due = 0 /\ gone = FALSE /\ own = FALSE /\ latched = <<>>

Next ==
    \/ Send \/ Tick(FALSE) \/ Spike \/ HostHoldsClock \/ PollLate \/ Poll

Spec == Init /\ [][Next]_vars

-----------------------------------------------------------------------------
(* The self-classification caveat of injector.rs, and the guards against   *)
(* it: no frame that holds a bit this firmware clocked itself reaches the  *)
(* classifier, whatever the host does to CLK, whatever words are lost.  On *)
(* the AUX wire nothing but the transmitter's late DATA makes it so, its   *)
(* frames come back malformed, and only while nobody disturbs the wire.    *)
NoLoopback == \A f \in forwarded : f.own => wire = "aux" /\ disturbed > 0

(* main.rs: "GP3 and GP28 (CLK_PULL pins) are read by the oversamplers":   *)
(* the AUX task, too, could tell its own traffic from a mouse's.           *)
AuxNoLoopback == wire = "aux" => \A f \in forwarded : ~f.own

(* send_xt_byte overrides the loop counter of a running state machine; its *)
(* safety comment says the machine is stalled.  Nothing but the pause      *)
(* between keystrokes makes it so.                                         *)
SendsToStalledMachine == todo # <<>> /\ gap = 0 => TxReady

(* A frame is clocked exactly as often as its format has bits: 11 or 9,    *)
(* though the program's own count is 11 and the XT count is patched in.    *)
ClocksPerFrame == TxReady => pulses = due

(* oversampler.rs: "the resync path handles real overruns separately": a   *)
(* word is only ever skipped with the overrun counter going up, as long as *)
(* no poll is late by a whole ring (pending() is a difference modulo the   *)
(* ring, and would be small again).                                        *)
OverrunsCounted == gone => overruns

(* oversampler.rs: last_self_tx_us is when `the injector was driving the   *)
(* wire LOW', `None until first observation': before the first pulse of    *)
(* the transmitter no frame is dropped as self-driven.                     *)
SelfDrivenAfterPulse == wire = "kbd" /\ pulses = 0 => ~SelfDriven(selfAge)

(* docs/pio_state_machines_design.md 9.1: "Host samples DATA on each CLK   *)
(* falling edge": what it has latched of an undisturbed frame is that      *)
(* frame.                                                                  *)
HostLatchesFrame ==
    TxReady /\ disturbed = 0 /\ latched # <<>> =>
        latched = SubSeq(Frame(sent), 1, BitsOf(sent))
=============================================================================
