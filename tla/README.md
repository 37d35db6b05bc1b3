# vintage-kvm: a TLA+ development

The repository bootstraps a vintage PC from a Raspberry Pi Pico (RP2350) plugged
into its keyboard, mouse and parallel ports.  This directory models what both ends
do, from the first frame on the keyboard wire to the EXEC of Stage 2, checks it
with TLC and proves all of its safety with TLAPS (section 4).

    tlc -config Safety.cfg MCStage2Bootstrap.tla       model-check
    tlc -config BootChannels.cfg MCBootChannels.tla
    tlc -config Ps2Wire.cfg MCPs2Wire.tla
    tlc -config Ps2Bootstrap.cfg MCPs2Bootstrap.tla
    tlc -config Lpt.cfg MCLpt.tla
    tlc -config Usb.cfg MCUsb.tla
    tlapm Stage2Bootstrap_proofs.tla                   check proofs
    tlapm BootChannels_proofs.tla
    tlapm FoldTheorems.tla
    tlapm Ps2Bootstrap_proofs.tla
    tlapm Lpt_proofs.tla
    tlapm LptBytes_proofs.tla
    tlapm Usb_proofs.tla
    tlapm Ps2Wire_proofs.tla

## 1. The system

| component | state it keeps | operations | what makes it hard |
|---|---|---|---|
| **Stage 1** (`dos/stage1/stage1.asm`), DOS program | `tx_seq`, `negotiated_mode`, `stage2_image_size/crc32`, `current_block`, `retry_count`, `crc32_state`, the file handle; `PICO1284.EXE` on disk | ladder, CAP handshake, stress test, block download with retries, CRC-32 check, EXEC | timeouts against late answers, retries, every INT 21h call may fail, power cycles, no step looks at the SEQ of a reply |
| **Pico dispatcher** (`firmware/src/protocol`, `serve_loop`) | `SessionState`: `block_server`, `tx_seq`, `rx_seq_expected`, `cap_acked` | `handle_packet` for CAP_REQ, CAP_ACK, PING, SEND_BLOCK, BLOCK_ACK, BLOCK_NAK | it outlives the PC; lost acknowledgements; only CAP_REQ resets it |
| **Block server, image** (`crates/protocol`) | `expected_block` | `build_recv_block`, `handle_ack`, `SliceBlob::block` | the short last block, u16 block numbers |
| **Wire, reassembly** (`transport/packet_stream.rs`, `lpt_nibble.inc`) | bytes under way, `last_phase` | `next_packet`, `rx_fill`, `lpt_recv_nibble` | loss, damage, lost packet boundaries, a transmitter that does not wait for the host |
| **LPT phys and mux** (`firmware/src/lpt`) | the active phy, parked state machines and DMA channel, DIR and HD, pin directions, FIFOs, the receive ring | `build`, `dismantle`, `switch_to`, `send_byte`, `recv_byte` of each phy | resources taken before their successor exists; a fixed time for draining; what a phy leaves behind for the next |
| **IEEE 1284 negotiation** (`negotiator.rs`) | step of the handshake, the request value, status lines taken from PIO | `wait_for_start`, `handshake`, `claim`/`release_status_pins` | two sides with deadlines, lines sampled at intervals and written one by one; not yet run by `serve_loop` |
| **Stage 0** (`dos/stage0`) | channel bitmap, IRQ masks, i8042 command byte, block counter | find the Pico, take the i8042, download Stage 1, hand off | partial failures that must restore the keyboard; unframed byte protocol |
| **PS/2 framer and classifier** (`crates/ps2-framer`) | framer phase and time stamps, candidate and streak | `ingest`, `ingest_kbd_frame`, `ingest_aux_activity`, the packers | noise, a host that changes class |
| **PS/2 tasks** (`firmware/src/ps2`) | DMA ring and tail, `KBD_FRAMES`, `AUX_ACTIVITY`, `INJECT_TRIGGER`, `INJECT_RAW`, life-cycle, mouse buttons | transmit, oversample, classify, type the DEBUG script, send mouse packets | five tasks, lossy channels, the firmware's own keystrokes looped back, a PIO program whose loop count is patched while it runs |
| **USB** (`firmware/src/usb`) | event and bulk queues, drop counter, bulk sequence, the partial command line | emit, four writers, control commands, console echo | full queues, a host that disconnects in the middle of a frame, transfers without an end |

Interactions: Stage 0 loads Stage 1 and hands over registers and IRQ masks;
Stage 1 and the dispatcher exchange packets over the LPT; oversamplers feed the
supervisor through a bounded channel and a signal, the supervisor triggers the
injector through a signal; the control port feeds injector, mouse task and bulk
writer through bounded channels; everything on the Pico emits telemetry into the USB
event queue; supervisor, injector and `main` share one life-cycle variable.

What makes each correct: Stage 1 never runs anything but the Pico's image, cleans
up after every failure and always ends; the dispatcher's view of the download
never runs ahead of the disk; the mux always has exactly one phy, no part of the
hardware is lost between two of them, and in each mode bytes keep their order;
a negotiated mode means the same to both ends; Stage 0 and 1 return the keyboard
to DOS however they end; the classifier confirms a class from host traffic only;
Stage 0 starts from nothing but its own image; the event queue loses nothing
silently, and every writer comes back to its queue.

`PROJECT.json` lists every component with its status and every hazard with the
line where it bites.

## 2. The modules

| module | models |
|---|---|
| `ImageTransfer` | the promise: a file that is created empty, only grows, is executed only when it is the whole image, and is gone after a failure |
| `Packets` | the image, its division into blocks on either side, packets as records, payload lengths |
| `LptWire` | two lanes of packets and the faults of the wire |
| `PicoSession` | `serve_loop`, the reassembler at packet level, every handler of `handle_packet` |
| `Stage1` | Stage 1 from the negotiation ladder to EXEC, one action per decision |
| `Stage2Bootstrap` | the composition, its properties, the refinement of `ImageTransfer` |
| `MCStage2Bootstrap` | small instances for TLC |
| `Stage2Bootstrap_proofs` | theorems |
| `Pio` | external: one cycle of a PIO state machine, for the instructions used |
| `LptPhys` | the seven PIO programs of the port, their configurations, the packing of bytes |
| `LptMux` | who owns the hardware: `LptHardware`, `build`, `dismantle`, `switch_to` |
| `Negotiator` | the handshake of `negotiator.rs`, the status pins, and (external) a host |
| `Lpt` | the composition: the programs run, the ring, `send_byte`, `recv_byte`, a host that writes and reads |
| `MCLpt`, `Lpt_proofs`, `LptBytes_proofs` | instances for TLC; theorems |
| `Ps2Framer` | the framer sample by sample, the frame packers |
| `Ps2Wire` | a PS/2 wire: transmitter, oversampler, DMA ring, polling task, self-drive guard |
| `DebugScript` | scan code tables, the script typed, and (external) BIOS and DEBUG that read it |
| `HostClass` | the promise of the classifier |
| `Ps2Bootstrap` | classifier, supervisor, injector, life-cycle and the channels between them |
| `MCPs2Wire`, `MCPs2Bootstrap`, `Ps2Wire_proofs`, `Ps2Bootstrap_proofs` | instances for TLC; theorems |
| `FoldTheorems` | lemmas for both: induction over a set of numbers, folds and flattened sequences a step at a time |
| `MouseInput` | mouse commands to PS/2 packets |
| `Usb` | the USB tasks, their queues, the control commands and a host that comes and goes |
| `MCUsb`, `Usb_proofs` | instances for TLC; theorems |
| `I8042` | external: IRQ masks, i8042, the devices on its ports and the user |
| `Stage0Channels` | Stage 0 (all three programs) up to its hand-off |
| `BootChannels` | the composition, Stage 1's entry and exits, the properties |
| `MCBootChannels` | small instances for TLC |
| `BootChannels_proofs` | theorems |

The modules stack up along the boot.  `Ps2Bootstrap` types Stage 0 over the wire of
`Ps2Wire`; `BootChannels` is Stage 0 and the keyboard; `Stage2Bootstrap` is the
download over the port of `Lpt`; `Usb` watches and steers the firmware.  Where two
of them meet, the upper one sees of the lower what its properties promise: a frame
either reaches the classifier or does not (`NoLoopback`), bytes arrive in order
(`ForwardInOrder`, `ReverseInOrder`), and what goes wrong with them is a fault.

`BootChannels` and `Stage2Bootstrap` meet at Stage 1: the one follows the
keyboard through it, the other the file, and neither's state occurs in the other.

A step of either program is one packet sent, one answer awaited, or one INT 21h
call.  Between two such steps neither program looks at anything the other side
can change, so that finer interleavings add nothing; what happens to the *bytes*
of a packet is a fault of the wire.

*Stage 1.*  `pc` is where the program is; the other variables carry the names of
the assembly.  `RecvCapRsp` stores the size before it is checked, as
`parse_cap_rsp_fields` does, and only the CAP_ACK depends on the check, since
`start` ignores the carry.  A mode above SPP skips the handshake (no pump), still
runs the stress test, and then finds no size.  `RefuseBlock` is a failed
`request_one_block`, `dec`/`jz` of the counter and the BLOCK_NAK; `CommitBlock`
is `commit_one_block`: CRC, write, BLOCK_ACK.  A failed write (`WriteFails`) has
already updated the CRC and may have written part of the block.

*Reading replies.*  The host reads five header bytes, then the rest if the length
is one it accepts.  `ReadAndRefuse` leaves on the lane what `rx_fill` did not
read: nothing more of that packet if the length was accepted; otherwise its
remainder as `NOISE`, or nothing when the nibble transmitter, which does not
wait, has let it pass.  A read that starts in noise takes any number of bytes,
and with them whole packets.

*Timeouts.*  `TimedOut` is free when no answer is under way; giving up although
one is (the Pico is slow, or the host fast) is the fault `late`, after which the
answer may still be read by a later attempt.

*The wire.*  `lose_*`, `garble_*` (framing lost), `corrupt_reply` (CRC-16 fails,
length intact), `collide` (the CRC-16 does not notice: other data in a block,
another size in a CAP_RSP).  A damaged request with an intact frame is dropped by
the reassembler, which is what losing it does.

*Power cycle.*  The PC restarts, the Pico does not; the file on disk stays.

### Stage 0 and the keyboard

A step of Stage 0 is one exchange with the i8042: a byte sent, a byte taken, a
write of the CCB.  Between two of them a device may answer (`Answer`) and the user
may type or move the mouse (`Typed`), whose byte then lies in front of the answer
Stage 0 waits for.  `owed` is what devices still have to say, `obf` what port 60h
will give next.

*Waits.*  `i8042_wait_ibe` and the receive loops count down about a second.  A
receive with no answer owed times out freely (`NoAnswer`); any other timeout is a
fault and counted.

*Writing the CCB* is two waits and two writes.  `WriteOutcomes` has the three
results: written, not begun, and the command given without its byte.  In the last
case `command` keeps it until somebody writes a data byte; the same holds for the
D4 in front of an AUX byte.

*The unlock.*  `acked` counts the answers of an attempt: one ACK for each byte of
the sequence, then AA 55.  `AttemptFails` sends the keyboard lane into its second
attempt after 100 ms, and the AUX lane out.  Nothing is flushed in between.

*Restoring.*  `RestoreI8042AndPic` is called from three places and is one action:
AUX off if it was enabled, then the CCB if it was saved, then the masks.  A timeout
skips a write and no more (`restore_refused` remembers it for the property).

*The download* of Stage 1 is one step with two outcomes; it succeeds on the
keyboard lane only if no D4 is pending, for GET_META would go to the mouse.

*Stage 1* validates DX and, on its exits, unmasks or does not.

### The LPT port

*PIO.*  `Pio!Cycle` is one clock cycle of a state machine: delay, stall, registers,
driven pins, side-set.  The programs of `LptPhys` and `Ps2Wire` are the assembler
of the repository, an instruction an element, with jumps by number.  A word is the
sequence of its bits in the order they are shifted.

*Time.*  The PIO runs at tens of MHz, a host on an ISA bus and the tasks behind
interrupts do not: `PioWaits` makes them act only when the running programs have
come to a wait.  A delay is one step (`Whole`), except while `dismantle` drains,
when `drain` counts it down cycle by cycle.

*Switching.*  `switch_to` is two actions around its one await: `CallSwitch` takes the
active phy down up to the 5 ms sleep, `CompleteSwitch` does the rest, the build of
the next phy included.  A failed `expect` or `load_program` is the phy `Panicked`.
What outlives a switch is kept: pin directions (`hw.out`), and the words of a FIFO
whose joining does not change (`Configured`); `ghosts` says that there are some.

*Host.*  It writes with the handshake of the mode, reads only a reply that is due,
and is between two bytes when the caller switches.  Where both ends drive D0..D7
the byte sampled is neither's (`Contended`), and `fought` remembers it.

*Negotiation.*  A look at the lines and a write of one of them are a step each, since
`drive_status` writes four pins one after the other; a deadline may pass at any
wait.  The caller, who is to claim the pins and to call `handshake`, does not exist
yet; what the comments of `negotiator.rs` ask of it is `ClaimStatusPins` and
`ReleaseStatusPins`.  The negotiation is composed with the SppNibble phy, whose
receiver takes the host's strobe for that of a byte.

### The PS/2 wire

`Tick` is a cycle of the transmitter and a word of the oversampler's ring.  The
sample is taken of the wire, wire-ANDed with a host that holds CLK; a spike is a
pulse inside a word.  `Poll` is a wake of the task: overrun check, resync, and
`ingest` of every sample of every pending word, with the ages of the framer's time
stamps in place of the stamps.  `layout` is where in the word the samples are: at
the bottom as the code expects, or at the top where PIO leaves them; both are
checked, the real one is `high`.

### Class, script and life-cycle

`Ps2Bootstrap` has one action for what a task does between two awaits.  The
supervisor takes a frame, or, when there is none, the AUX signal (`select` polls
the frames first); the injector takes a trigger before a raw request, and types a
line of the script per step.  `lost` is a history: which of the trigger and the
script under way belong to a detection that has been reset since.

A host makes characters of the scan codes by the other table's rules and obeys the
lines as DEBUG does; the memory it ends up with is compared with the image.

### USB

A frame is its length and a number; the four writers differ in what they wait for,
in what they do after a failed write and in when they send a zero-length packet
(`Idle`, `WriteFailed`, `FlushDue`).  A behaviour interleaves the tasks of one
member of `Together`; ports of different members share nothing but the connection.
Control lines are sequences of words, replies a length.

### Abstractions

- CCB: the bits KBD_INT, KBD_OFF, AUX_OFF and TRANSLATE; a scan code is the set
  of those bits it has.  The masks are the lines 1 and 12, the only ones touched.
- On the AT and XT an AUX device never answers, as Stage 0 sends it nothing.

- The CRC-32 of a string is the string: CRC-32 collisions are outside the model,
  and so is a CAP_RSP whose CRC-32 field is changed without the CRC-16 noticing.
- Payloads that nobody looks at (PING, CAP flags, versions) are left out; the
  Pico's version is always 1.x, so `parse_cap_rsp_fields` fails on the size only.
- Sending never fails: `tx_drain` returns carry only without a pump, and without
  an LPT the ladder ends in `NONE` and the download skips itself.
- `build_environment` and the console output change nothing the properties see.
- The wire itself, DOS, the operator, the PIO silicon, the host of a PS/2, LPT or
  USB port are not in the repository; what stands for them is marked external in
  the map.
- The framer's timing statistics, the counters other than overruns and drops, and
  the texts of answers are left out.

## 3. What is checked

| run | question | instance | result |
|---|---|---|---|
| `safety` | does it hold with everything going wrong? | image of 3 bytes in blocks of 2 (short last block), 3 faults of all 7 kinds, all 5 modes, all 5 DOS failures, 1 power cycle, 6 misread sizes | passes, about 358 000 states |
| `recovery_lossy` | do retries recover? | 5 bytes, 2 faults that lose or corrupt packets | passes, about 1 000 states |
| `recovery_late` | and from answers that come too late? | 6 bytes (whole blocks), 2 faults including `late` | passes, about 4 500 states |
| `boot_channels` | does the keyboard come back, is DX true, does it end? | XT, AT and PS/2 programs; no, plain or Pico device on each port; BIOS with and without a mouse driver; 1 keystroke, 2 timeouts | passes, about 243 000 states |
| `ps2_wire` | is the firmware deaf to itself, and are frames whole? | an AT byte, two XT bytes and an AT byte after them, a mouse byte; both layouts; 1 spike, late poll or host pull of 30 or 300 us | passes, about 322 000 states |
| `ps2_bootstrap` | does the class follow the frames, and Stage 0 start from its image? | threshold 3, channels of depth 1, images of 3 bytes in `e` lines of 2, XT and AT host | passes, about 190 000 states |
| `lpt` | does the port keep its parts and its bytes? | 2 bytes each way, all modes, 2 switches, FIFOs of 1 (joined 2), ring of 2; a negotiation for a known, a flagged and an unknown mode, 1 restart | passes, about 425 000 states |
| `usb` | do the USB tasks keep their promises? | packets of 2 bytes, queues of 1 or 2, 8 command lines, 3 jobs, 2 disconnections | passes, about 521 000 states |
| `stage1_exit` | do Stage 1's failures unmask IRQ1? | no fault | violated |
| `sample_layout` | is `self_driven` false before the first pulse? | layout `high`, no fault | violated |
| `tx_frame` | does a host that samples at CLK's falling edge read the frame? | no fault | violated |
| `lpt_revert` | is the rebuilt SppNibble phy quiet on D0..D7? | 1 switch away and back | violated |

Properties of `safety`:

- `ExecExact`: nothing but the exact image is executed.
- `CrcCoversDisk`: the running CRC is that of the file, not merely of what arrived.
- `NoPartialFileAfterFailure`: failures leave no partial file of this run, unless
  DOS refused that very delete (`unlink_refused`, a result the code ignores).
- `ServerNeverAhead`: no block counts as acknowledged that is not on disk, even
  across restarts with acknowledgements of the old run still under way.
- `ImplementsTransfer`: refinement of `ImageTransfer`.
- `Terminates`: the run ends whatever happens.

`CommittedPrefix` (in `recovery_late`) says that stale, repeated or refused
replies never put a byte out of place.  `Recovers` says that fewer faults than
attempts never cost the image once the file is created with the right size and
nothing stale is about.

Properties of `boot_channels`:

- `MasksComeBack`: every error exit of Stage 0 has the IRQ masks of BIOS.
- `GivenBack`: it has the CCB, AUX port and pending command as well, and so has a
  hand-off with the LPT alone.  Two provisos: no scan code was taken for the CCB
  (without this one: `key_race`), and the i8042 took the restoring writes.
- `HandoffHonest`: bitmap, masks, translation and AUX port agree at the hand-off,
  and a channel in DX has a Pico behind it.  IRQ12 may stay masked when only KBD
  is up, which `stage1.asm:619` accepts.
- `Terminates`: neither stage hangs, whatever is on the ports.

Properties of `ps2_wire`:

- `NoLoopback`: no frame with a bit the firmware clocked itself reaches the
  classifier, through any loss of words on the keyboard wire.  On the AUX wire, whose
  oversampler has no view of the pull, it says nothing once somebody has disturbed
  the wire or a poll came late.
- `SendsToStalledMachine`, `ClocksPerFrame`: the loop counter that `send_xt_byte`
  patches is the one of a stalled program, and each frame has 11 or 9 pulses.
- `OverrunsCounted`: words are skipped only with the counter going up.  `LateBy` is
  below a whole ring: `pending` is a difference modulo the ring, so that a task late
  by more finds a small number and notices nothing.

Properties of `ps2_bootstrap`:

- `ClassFollowsFrames`: refinement of `HostClass`, and no usable frame is taken from
  the channel without counting.
- `FreshUnlessReset`: what is typed, or about to be, is for the class now held,
  unless that was taken back since.
- `InjectShownOnlyWhileTyping`: three tasks store into the life-cycle; still
  `InjectDebug` stands there only while the injector types.
- `ImageTyped`: Stage 0 is never started from a memory that is not its image,
  although the script may meet a host of the other class, a reset in the middle, or
  unfinished keys in front of it.
- `TriggerServed`: a detection reaches the injector in the end.

Properties of `lpt`:

- `Conserved`: parked parts and instruction slots are those the active phy does not
  hold; no build can fail.  `PinsFollowMode`: DIR, HD and the ring follow the phy.
- `ForwardInOrder`: in each mode `recv_byte` returns the host's bytes, in order and
  once, with three provisos that name what the code leaves open: words an earlier phy
  left in a FIFO that is not cleared (`ghosts`), both ends driving the lines (`fought`,
  in Byte mode and ECP from the first sample), an overflow of the receive ring that
  nothing detects (`overran`).
- `ReverseInOrder`: the host reads the bytes sent, in order and once, wherever they
  reach it (`ReachesHost`), with the first of these provisos only.  They reach it in
  SppNibble, and in EPP if an earlier Byte or ECP phy has left D0..D7 outputs.  In Byte
  mode and ECP nothing turns the transceiver round, and any other EPP drives nothing:
  there each byte the host is acknowledged is what floating lines show (`Floating`, one
  value unlike every byte, as nothing in the code decides it).  The property says so
  mode by mode; that EPP is meant to drive the lines is `EppDrivesData`, violated in
  `EppUndriven.cfg` (section 5).
- `DrainedWhenDisabled`: the fixed wait of `dismantle` is long enough for the FIFO
  and the byte in the shift register, provided no ghost stands before them.
- `NegotiatedModeAgrees`: `handshake` returns a mode only to the caller whose host
  has read the verdict and asked for that mode, provided the host has neither given
  up nor started over: an early release of nAutoFd is not told from step 5.
  `drive_status` shows the verdict one line at a time, nAck first.  For a mode that
  is accepted this is harmless, since Select stands at 1 from the step before; a
  refusal can be read as an acceptance (`RefusalTold`, section 5).
- `HandshakeEnds`: once begun, it gives the status lines back.

Properties of `usb`:

- `EventsAccounted`: no event comes twice or out of order, and while the host stays,
  what it has, what is on its way and `USB_EVENT_DROPS` add up to what was emitted.
- `BulkSurvivesDisconnect`: an accepted bulk frame arrives in its turn; what is being
  written and what waits are the last accepted, and a disconnection costs at most the
  one being written.  A frame has arrived with its last byte (`Delivered`); the empty
  packet that may follow is the business of `FramesFlushed`.
- `FramesFlushed`: no task waits for work with a transfer open; the console is
  excluded, as it never ends one.
- `MouseAnswers`: the packets on the AUX wire are the commands answered "ok": clamped
  motion, nine-bit signs, sticky buttons.
- `PortsServe`: if the host stays, the queues empty.

What `Recovers` needs was found by weakening it:

- It is tight: `BlockRetries - 1` faults are survived, `BlockRetries` on one block
  are not.
- The handshake has a single attempt: one packet lost there means no download.
- One late answer makes every later block pay an attempt, since each reply then
  answers the request before.  It is survived when all blocks have one length.
  Before a short last block the host reads only the header of the stale reply,
  and what is left of it as noise can eat the remaining attempts; a late PONG
  left over from the stress test does the same.  Hence the two recovery runs, and
  the condition `Quiet` in the property.
- A partial file left by a power failure is not removed by a later run that skips
  its download; it is never executed by Stage 1.

### Bounds

`MaxFaults` 3 equals `BlockRetries`, so that a block can fail for good and a fault
can still hit the clean-up or the handshake; with two blocks, one short, every
retry can meet a reply of the block before or behind it.  `MaxRestarts` 1 lets an
old file and an old session meet a new run.  `StressIterations` (8 in the code) is
1 or 2: an iteration only counts its outcome, and one is enough to leave a stale
PONG.  Sizes scale down together (`MaxStage2Size`, `MaxBlocks`, `SizeModulus`),
keeping their order, and the misread sizes lie on both sides of each.  SEQ keeps
its 8 bits.

In `boot_channels` the unlock sequences have 2 bytes instead of 10 and 6: a
command and its argument, and every position of a failure (first byte, later byte,
AA, 55) occurs.  Two timeouts let an operation and the restore after it fail, or
both attempts; one keystroke can meet each step.

In `ps2_wire` a tick is 10 us: the idle timeout (200 us), the self-drive guard (1.5 ms)
and the poll keep the relations to the bit time of 110 us that decide; the pause between
keystrokes is longer than the guard, as in the code; the ring of 12 words is three polls
long, as the real one is many, so that a poll late by 7 overruns it.  The keys have an XT
frame followed by an AT one, which needs the patched loop counter to come back.  In
`ps2_bootstrap` a threshold of 3 has a first, a middle and a last frame; the last chunk of
the image is short.  In `lpt` `DrainTicks` is 68 cycles, what a joined FIFO of 2 and the
byte being shifted take, so that what the comment of `pio_nibble_out` calls headroom is
tight; two switches suffice to leave a phy for each other phy and come back, or to switch
after a negotiation.  In `usb` events and replies of 2 and 3 bytes in packets of 2 are the
exact multiple and the one with a short last packet; a bulk frame that is accepted has 4
bytes, two full packets and the empty one after them (5 are refused), and one with a short
last packet is left to `TransfersEnd` and `BulkAccounted`; every queue is at its limit at
once within three jobs, and the second disconnection can meet the recovery from the first.

The theorems of section 4 hold without these bounds; those of `Ps2Wire` and the last of
`Lpt` name the relations between the sizes that they need.

### Fairness

`FairSpec` is weak fairness of each program's next step.  Stage 1 is a loop whose
only waits, in `lpt_recv_nibble`, count down; `serve_loop` awaits the next byte on
its own executor and then runs to the reply.  The wire may lose everything and the
operator need never act, so neither has fairness.  Deadlock is checked; `Rest` is
the state in which Stage 1 has ended and the Pico waits for a packet for ever.
In `BootChannels` the programs and `Answer` are fair (devices either answer or,
after a counted timeout, are given up); the user is not, and may type no more
than `MaxKeys` times.
On the Pico every task runs on an executor that polls whatever is ready: the
supervisor and the injector, each USB task, and the negotiator, whose sleeps and
deadlines end, have weak fairness.  The host, on any port, has none, with one
assumption: a USB host that has configured the device polls its endpoints, so that a write
succeeds while `up` holds.  `Ps2Wire` is
checked without fairness, it has no liveness property.  `CHECK_DEADLOCK FALSE` stands
in the configurations of `ps2_wire`, `lpt` and `usb`: a wire with nothing left to send,
a port whose bytes and switches are used up, and a device nobody gives work are at
rest.

## 4. What is proved

For every image, block size, retry count, mode set, set of DOS failures and any
number of faults, under the assumptions named in the modules (`ImageAssumption`,
`SizeAssumption`, `WireAssumption`, `Stage1Assumption`: the constants have their
types, the image's length is a u32, there is at least one attempt per block):

| theorem | states |
|---|---|
| `TypeCorrect` | `Spec => []TypeOK` |
| `OnlyTheImageRuns` | `Spec => []ExecExact` |
| `CrcVouchesForDisk` | `Spec => []CrcCoversDisk` |
| `FailureLeavesNoPart` | `Spec => []NoPartialFileAfterFailure` |
| `BootstrapImplementsTransfer` | `Spec => ImplementsTransfer` |
| `BlocksInOrder` | `"collide" \notin FaultKinds` gives `Spec => []CommittedPrefix` |
| `AckedBlocksAreOnDisk` | `Spec => []ServerNeverAhead` |
| `BootTypeCorrect` | `Spec => []TypeOK` of `BootChannels` |
| `MasksRestored` | `Spec => []MasksComeBack` |
| `KeyboardGivenBack` | `Spec => []GivenBack` |
| `HandoffIsHonest` | `Spec => []HandoffHonest` |
| `MuxTypeCorrect` | `Spec => []MuxTypeOK` of `Lpt` |
| `HardwareConserved` | `Spec => []Conserved` |
| `TransceiverFollowsMode` | `Spec => []PinsFollowMode` |
| `NegotiationAgrees` | `Spec => []NegotiatedModeAgrees` |
| `DrainSuffices` | `DrainTicks >= DrainNeeded` gives `Spec => []DrainedWhenDisabled` |
| `ForwardKept` | `Spec => []ForwardInOrder` |
| `ReverseKept` | `Spec => []ReverseInOrder` |
| `Ps2TypeCorrect` | `Spec => []TypeOK` of `Ps2Bootstrap` |
| `InjectShownRight` | `Spec => []InjectShownOnlyWhileTyping` |
| `ScriptIsFresh` | `Spec => []FreshUnlessReset` |
| `ClassifierImplementsHostClass` | `Spec => ClassFollowsFrames` |
| `WordsReadAre` | a host of its class reads of the script typed for an image the image's addresses and bytes |
| `Stage0FromItsImage` | `Spec => []ImageTyped` |
| `EventStreamAccounted` | `Spec => []EventsAccounted` |
| `UsbTyped` | `Spec => []TypeOK` of `Usb` |
| `TransfersEnd` | `Spec => []FramesFlushed` |
| `BulkAccounted` | `Spec => []BulkSurvivesDisconnect` |
| `MouseTellsTheHost` | `Spec => []MouseAnswers` |
| `StalledWhenSentTo` | `Keystroke >= FrameTicks` gives `Spec => []SendsToStalledMachine` |
| `EveryBitClocked` | `Keystroke >= FrameTicks` gives `Spec => []ClocksPerFrame` |
| `NoSilentOverrun` | `PollsInTime` gives `Spec => []OverrunsCounted` |
| `NoLoopbackOnKeyboardWire` | `GuardCovers` gives `Spec => [](wire = "kbd" => NoLoopback)` |
| `NoLoopbackAnywhere` | `GuardCovers`, `Keystroke >= FrameTicks` and `AuxInTime` give `Spec => []NoLoopback` |

The first seven are of `Stage2Bootstrap`, with the assumptions above.  The four of
`BootChannels` hold for every set of BIOS states and devices, any sequence lengths, any
number of keystrokes and timeouts (`I8042Assumption`, `Stage0Assumption`).  The seven of
`Lpt` hold for every depth of FIFO and ring, any bytes, requests, switches and restarts
(`TargetsAssumption`: the modes asked for are modes, `PortAssumption`: the constants have
their types), all but `DrainSuffices` for any drain time, those of `Ps2Bootstrap` for any
threshold of at least 2 and any depth of its channels (`DepthAssumption`), any frames and
any image that fits the segment DEBUG enters it in, in any chunks whose `e` line fits the
command (`ScriptAssumption`: 7 + 3 * EChunk <= 64, where the code has E_CHUNK 16), and the
five of `Usb` for every packet size, queue depth, frame length and command line, and any
coming and going of the host (`UsbAssumption`, `MouseDepthAssumption`).

The five of `Ps2Wire` hold for any keys in any formats, any holds of CLK by the host,
spikes and late polls (`LineAssumption`: the constants have their types), each with the
hypothesis that makes it true.  `Keystroke >= FrameTicks` says that the pause is not
shorter than a frame of eleven bits, 124 ticks of 10 us; `KEYSTROKE_GAP_MS` and
`BYTE_GAP_MS` are 500 of them, and 165 in the run.  `PollsInTime` says that a poll and all
the delays there may be stay below a ring: the code fills 200 words of 1024 between two
polls, so that a task may be late by 8 ms; the run has 4 + 7 words of 12. `GuardCovers`
says that `MaxDisturbed + 1` idle timeouts are shorter than the self-drive guard: each bit
of a frame comes within the idle timeout of the one before, but a host that stretches
every one of them ends the frame after the guard.  With the code's 200 us and 1.5 ms a
session may have six disturbances; the run has 1, with 20 and 150 ticks. `AuxInTime` is
about the mouse's wire: the bit time of 11 ticks is below the idle timeout and no half of
a bit is taken for a glitch (`GLITCH_THRESHOLD_US` is 4, a single tick; 6 ticks would
still do), an undelayed poll finds less than a ring, and what `mouse_input.rs` sends are
frames of eleven bits.  The run's constants satisfy all four.  Without the first two the
properties are false; the last two are sufficient, and what the argument below uses.

So it is with `DrainSuffices` of `Lpt`: `DrainNeeded` is 23 cycles for each word of the
joined FIFO and 22 for the byte before them.  With the RP2350's FIFO of 4, 8 joined,
that is 206 cycles, and the 5 ms of `dismantle` are 500 of nibble_out's 100 kHz clock; the
run has 68 of 68.

*Types.*  `TypeOK` is not inductive: `retry_count` could be 0 while a block is
awaited.  `TypeInv` adds that attempts remain wherever one can be used up, and
likewise for the stress test.

*The copy.*  `CopyInv` says what flows: the announced CRC is the image or still
empty, in the host and in every CAP_RSP under way; while the file is open the
running CRC equals the file; from `exec` on, the comparison has succeeded.
`ExecExact` follows without any knowledge of the blocks: damaged data may reach
the disk and is caught by the comparison.  The refinement follows from `CopyInv`:
the disk changes by appending only, and a run refused after the create left the
file as `GiveUp` allows.

*The order.*  `CommittedPrefix` needs an invariant on the replies under way
(`PrefixInv`):
without `collide` every RECV_BLOCK carries the very block its number names and
every CAP_RSP the real size, so that an accepted reply extends the prefix by one
block.

*The acknowledgements.*  `ServerNeverAhead` needs one on both lanes (`CountInv`).
Before the file exists no BLOCK_ACK is under way: `PowerCycle` waits for the Pico
to have served what is on the lane, since a reboot outlasts it.  A count left by
an earlier run is reset by the time Stage 1 can learn a size, because the only
CAP_RSP it can read is the answer to its own CAP_REQ.  During the download every
BLOCK_ACK under way is for a block below `current_block`.

*The keyboard.*  `BootInv` has six parts.  `TypeInv` adds to the types that answers
and attempts stay in range.  `MaskInv`: once the lines are masked, the saved masks
restore those of BIOS.  `BitmapInv`: DX lists at most the LPT until the ports are
probed.  `CcbInv`: while `ccb_saved`, the copy is the CCB of BIOS; when it is not,
that CCB is in place, unless one of the provisos of `GivenBack` applies; this holds
whichever writes time out.  `ByteInv`: a byte in the buffer or owed is honest, so
that AA and 55 come from a Pico on the port they seem to come from, and a CCB is
that of BIOS; it needs `CcbInv`, since the CCB is read before it is changed, and
`CcbInv` needs it, since the byte read is kept.  `LaneInv`: a lane that is up has
its Pico, its line masked, and translation off.

*The port.*  Ownership is inductive only with what holds between two phys:
`MuxInv` adds to `MuxTypeOK`, `Conserved` and `PinsFollowMode` the part `Between`,
which says what `dismantle` has given back when `switch_to` sleeps with no phy
active.  That every build then finds its state machines, DMA channel and instruction
slots is arithmetic on the lengths of the programs (`SlotsFit`, `SlotsLeft`); EPP's
15 and the direction follower's share of PIO1 are the tightest.

*The negotiation.*  `NegInv` relates three parties that look at each other only
through lines.  `NegShape` gives each step its pending writes.  `StatusInv`: nAck is
low until `handshake` has the verdict, Select is 1 before it, and
stays 1 unless the request is refused.  `HostInv`: a host that waits holds nAutoFd
and what it put on D0..D7, and an unanswered request is the one that was read.  No
PIO program, build or byte touches the lines of the handshake, which is most of the
proof.

*The drain.*  `StreamInv` says where the bytes given to `send_byte` are: those the
host has, the one on its way through the shift register, those in the FIFO, in this
order (`Flow`); the place in the program tells how much of the byte on its way is on
the lines or read by the host (`Place`).  `DrainInv` bounds the cycles the rest takes by
those left of the wait (`CyclesLeft`): each cycle takes one from both.  When none is left
the program waits for a word with nothing in it, and `Flow` makes `got` equal to `rev`.

*The bytes.*  `PortInv` is what both directions rest on, and says for each mode where every
byte is.  `LinesInv`: the host is in one exchange at a time, and nStrobe, nAutoFd, the ring's
DMA channel and the answers it has seen show which.  `CompatInv`: the bytes returned and
the words of the ring, one after the other, are those written so far (`Inward`), and the
place in compat_in tells whether the strobe that is out has been sampled.  `DrivenInv`: Byte
mode and ECP drive D0..D7 against the host, so the first sample is fought over, and nothing
a host reads is a byte.  `EppInv` takes the most: there one program does both directions.
`Counts` bounds how far host, program and tasks can be apart, `Queue` says which commands
its FIFO holds, `Word` what is left of the one pulled, `Turns` where the program can be while
a cycle is open.  From these follows that a host's write meets the program receiving and its
read a reply on the lines, although nothing in the handshake says which of the two the host
wants.  An EPP built after EPP finds its FIFOs empty, since the caller switches with no
command under way; after another mode their joining differs and they are cleared.
What the host takes is decided by the pins: `TurnInv` says that the follower has copied
nStrobe, high during a read, to DIR before the reply is acknowledged, and whether D0..D7
are outputs is not changed by any step of EPP, so that what was read (`ReadSo`) is the
bytes sent, all of them, or floating lines, all of them (`EppReads`).

`ForwardInOrder` needs that a change of nStrobe waits for the programs, as every other act
of the host does: were a negotiation that starts over able to raise the strobe and lower it
again between two cycles of compat_in, which takes one every few ns, the receiver would see
no edge and the byte would be missing.

*The class.*  `InjShape` ties the injector's script to its step.  For
`InjectShownOnlyWhileTyping` and `FreshUnlessReset` it suffices to follow the three
writers of the life-cycle and the one place where a class is dropped; the refinement
of `HostClass` follows per action of the supervisor, since nobody else stores the
classifier's state.

*The script.*  `WordsReadAre` is about data of any length, and therefore about folds
(`FoldTheorems`): `FoldLeft` and `FlattenSeq` are recursive functions, which exist
(`FoldRecursion`, `FlattenRecursion`) and build up their result a step at a time
(`WrittenSteps`, `FlattenSteps`, `WordsSteps`, `ValueSteps`).  The induction needs no
operator as a parameter: `SetInduction` is about a set with 0 and all successors, and
follows from the least element outside it.  On these steps stand the layers of the script,
each read back as it was written: keys and characters (`ReadAt`, `ReadXt`: three keys a
character, or two, from tables in which no character and no code has two rows), a byte and
its two digits (`ByteRead`), an address and its three or four (`AddressRead`), a line and
its words (`LineWords`, which needs that the line fits, since a piece that does not is
dropped), an image and its chunks (`ELineRead`).

*The host.*  `HostInv` says that a host in DEBUG is of the class typed for, has no
unfinished keys in front of it, and has entered the chunks of the lines so far (`Prefix`).
Only the first line of a script brings a host there.  A host of the other class never
understands a line.  A reset takes it back to DOS, where the rest of the script is not
obeyed, and raw requests wait for the script to end.  When `g` is typed the prefix is the
image.

*The event stream.*  `EventsInv`: `Ordered` puts what the host has before the frame
being written and that before what waits; `Progress` says that, while the host has
stayed, the packet about to go out follows those that the host has; `Counted` is the
sum.  The last packet of a frame moves it from the writer to the host, which needs
all three.

*The transmitter.*  `CycleIs` says what one cycle does at each place of the program.
`Left` and `PulsesLeft` are the cycles and clock pulses of the present frame still to
come, `Placed` the values that counter and delay can have at an instruction.  `SendInv`
says that no more cycles are left than the pause has ticks, and that the pulses made and
those left are the frame's: at the end of the pause `Left` is 0, which is the machine
stalled at its pull, where the patched counter is the one the next frame uses.

*The ring.*  The reader knows its backlog modulo the ring only.  `RingInv` bounds it: how far
the DMA channel is ahead of the reader, the ticks until the next poll and the delays
still to come add up to no more than at the start.  A tick moves one from the second to
the first, a delay one from the third to the second, and a poll takes everything
(`PollTakesAll`), overrun or not.

*The loopback on the keyboard wire.*  What keeps `NoLoopback` is the age of each bit on
its way through the ring and the framer.  `Places` and `Leveled` say where the reader and
the DMA channel are in the ring, and that what is pending has been written.  `Stamped`
gives every word, and the last one read, the number of disturbances up to it (`Later`):
between a high CLK and a low one that is not our own pull there is one more.  So a bit of
our own starts the age anew, each bit of somebody else costs a disturbance, and between
two bits of a frame there is less than the idle timeout (`Timed`): the youngest bit of our
own is younger than one idle timeout for each disturbance and the time since the last
edge (`Settled`).  The age is counted in words read, so that words lost to an overrun add
nothing to it.  By `GuardCovers` a frame with such a bit ends under guard.  In the other
layout of the DMA words the zeros below the samples look like the firmware's own pull in
every word, and nothing is ever passed at all: this is `KbdInv`.

*The loopback on the mouse's wire.*  There is no guard; `AuxInv` follows an undisturbed
wire exactly.  The reader has taken every word (`CaughtUp`), so that the framer `Tracks`
the transmitter, with one bit for each pulse made.  The transmitter changes DATA after
CLK has fallen: the first bit read is the level the frame before left, its stop bit, and
a frame that starts with DATA high is malformed (`Stopping` says where the stop bit
stands).  In the other layout every bit read is 0, and a frame without a stop bit is
malformed too (`ZeroBits`).

*The ports.*  `PortsInv`: a transfer is open only while its task is writing or flushing it
and the host is there.  `TransfersEnd` follows from `LastFull`: a last packet is full
only if the frame is a multiple of it, and then the writer asks for the empty one.

*The bulk frames.*  A writer is `Doomed` when the frame it holds, or the next it takes,
is lost to a disconnection that has already happened.  `BulkInv` keeps one disconnection
in reserve for that frame; the others are at least the frames missing before it.  Since
the writer waits for the host before it takes another, no disconnection takes two.

*The mouse.*  `MouseInv`: for some n the packets sent, the one under way included, are
those of the first n commands answered "ok", the buttons held are those after them, and
the queue holds the rest.

Every invariant a passing run checks, and every refinement, is stated by one of these
theorems.  Left to TLC is liveness, which the prover does not treat: both `Terminates`,
`Recovers`, `HandshakeEnds`, `TriggerServed`, `PortsServe`.

## 5. Disagreements

Four runs show the code doing what a comment, a document or a name of the
repository denies; each violated property quotes it.

| run | property | what happens |
|---|---|---|
| `stage1_exit` | `Stage1Unmasks` | the exits without a Stage 2, and after a failed EXEC, leave IRQ1 as Stage 0 masked it |
| `sample_layout` | `SelfDrivenAfterPulse` | autopush at 30 bits leaves two zeros below the samples; read three bits each from bit 0, they look like the firmware driving the wire |
| `tx_frame` | `HostLatchesFrame` | DATA changes about 40 us after CLK has fallen, so that a host sampling at the falling edge reads the bit before |
| `lpt_revert` | `TransportOperational` | the pin directions of D0..D7 outlive Byte and ECP, and the rebuilt SppNibble phy drives against the host |

These configurations are kept beside the runs; TLC finds each violated.

| configuration (module) | property | the text | what happens |
|---|---|---|---|
| `StuckServer.cfg` (`MCStage2Bootstrap`) | `ServerTracksHost` | `block_server.rs:35-36` | a lost BLOCK_ACK leaves `expected_block` behind for the rest of the download; it is used for logging only |
| `Oversize.cfg` (`MCStage2Bootstrap`) | `OversizeNotDownloaded` | `stage1.asm:1754` | `start` ignores the carry of the size check, and the size is stored before it |
| `SeqGap.cfg` (`MCStage2Bootstrap`) | `RxSeqFollows` | `pico_firmware_design.md:496` | `mod.rs:92` takes any SEQ as the new expectation, also one it has just logged as a gap |
| `KeyRace.cfg` (`MCBootChannels`) | `Typeable` | `stage0_design.md:637` | a key typed while the CCB is awaited is taken for it, and later written back |
| `SecondAttempt.cfg` (`MCBootChannels`) | `SecondAttemptWorks` | `s0_atps2_core.inc:386-387` | nothing reads the answer that came during the 100 ms: it is taken for that of the next byte, and every later answer is one too early |
| `AuxLoopback.cfg` (`MCPs2Wire`) | `AuxNoLoopback` | `main.rs:133-135` | the AUX oversampler does not sample CLK_PULL; a spike makes the firmware's own mouse frame pass for another's |
| `TornVerdict.cfg` (`MCLpt`) | `RefusalTold` | `negotiator.rs:405-408` | not one batched write but four: nAck rises while Select still says yes |
| `EppUndriven.cfg` (`MCLpt`) | `EppDrivesData` | `pio_epp.rs:17` | the program is to `drive D0..D7`, but `PioEpp::new` (`pio_epp.rs:154`) makes them no outputs, as `PioByteRev` and `PioEcp` do: after SppNibble the host is acknowledged its reads and takes what floating lines show |

Met while modelling, and not a property of a run:

- The events writer never goes back to `wait_connection` (`events.rs:50-53` says it
  does): after a disconnection it burns the queue.  The sentinel that `events.rs:6-9`
  promises for dropped events is a TODO (`events.rs:32-33`) and never sent.
- `bulk_test` spends a sequence number (`control.rs:216`) before the length or the
  queue can refuse the frame: the host sees a gap where nothing was lost.
- The tail of an over-long control line is read as a new command, and the console
  never ends a transfer with an empty packet.  "too long" of `bulk_test` cannot be
  reached with lines of 128 characters.
- `pio_byte_rev` holds its pulse for 100 ns where its comment (`pio_byte_rev.rs:33-35`)
  asks for more than 750.  The transmitter's bit takes 110 us, the design
  (`pio_state_machines_design.md:320`) has about 80.
- A refused negotiation leaves the host's strobe behind as a data byte.  Words in a FIFO
  whose joining does not change survive a switch.  A cancelled `recv_byte` of EPP
  leaves its command queued.
- In Byte mode and ECP replies never leave the board: `set_data_direction` has no caller
  (`hardware.rs:273` allows the dead code).  `byte.rs:13-18` calls this a TODO; that
  `ecp.rs:14-15` has reverse bursts flip DIR is not so.
- `classifier.rs:30-31` and `pio_state_machines_design.md:285,290` speak of a reset from a
  candidate to `Unknown`.  A frame of the other format makes the classifier
  (`observe_at`, `observe_xt`), its tests and `HostClass` start the other candidate, with
  a streak of 1.
- `usb_interface_design.md:153` and `telemetry-schema/src/lib.rs:161` have the oldest
  events dropped.  `try_send` drops the newest; `EventsAccounted` counts, and would hold
  of either.
- A receive ring overrun by the host goes unnoticed (`overran`), and 5 us between two
  looks at nStrobe miss a legal pulse of 500 ns.

## 6. Not modelled

- *Stage 0's block download.*  No firmware in the repository answers its protocol, so
  that a model would have to invent the other end.  It is one step with two outcomes.
- *Bytes of a packet.*  Encoding, the reassembler's buffer and the arithmetic of CRC-16
  and CRC-32; what they let through or lose is a fault of `LptWire`.
- *Stage 1's ladder.*  Chipset detection and the register side of the 1284 handshake; the
  ladder ends in any mode.  `build_environment` changes nothing the properties see.
- *What nothing calls.*  `handle_terminate` (nInit is routed to no pin),
  `set_data_direction`; the negotiator itself has no caller, and the firmware's only
  switch is the one to SppNibble at start.  The negotiator is modelled nonetheless,
  with the callers its comments ask for.
- *Measurement and wording.*  Timing statistics of the framer, counters other than
  overruns and drops, replies of the control port, `run_reader`, descriptors, the
  encoding of telemetry, stalls of a transmitting endpoint.
- *Output and tools.*  The status LED, the DMA CRC sniffer, the programs under
  `src/tools`, the placeholder of PICO1284.EXE, the type declarations of signatures
  and of the telemetry schema.
- *The rest of a control packet.*  After an answer that could not be written
  `control.rs:72` still goes through the bytes behind the line it answers; in the model
  `ControlWord` and `ControlEnter` need the host.  No property depends on it.
- Ports in different members of `Together` share the connection only, so their
  interleavings are not explored.
