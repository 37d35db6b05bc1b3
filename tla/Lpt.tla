--------------------------------- MODULE Lpt --------------------------------
(***************************************************************************)
(* The LPT port: the multiplexer and its phys, the PIO programs they run,  *)
(* the receive ring, and a host (external) that negotiates a mode or not,  *)
(* writes bytes and reads the replies.  The serving code sends only what   *)
(* answers a byte it has received, as the packet protocol above it does.   *)
(***************************************************************************)
EXTENDS LptMux, LptPhys, Negotiator, SequencesExt

CONSTANTS
    Bytes,        \* the bytes exchanged, a sequence
    DrainTicks,   \* the 5 ms of dismantle, in cycles of nibble_out
    RingWords,    \* RING_WORDS
    Targets,      \* modes the caller switches to
    MaxSwitches   \* bound: switches

Byte == [1 .. 8 -> {0, 1}]

ASSUME TargetsAssumption == Targets \subseteq Modes
ASSUME PortAssumption ==
    /\ FifoDepth \in Nat \ {0} /\ RingWords \in Nat \ {0}
    /\ DrainTicks \in Nat /\ MaxSwitches \in Nat
    /\ Bytes \in Seq(Byte) \ {<<>>}

VARIABLES
    sm0, sm1,       \* their state, enabled or not
    drain,          \* cycles left of dismantle's wait
    ring,           \* unread words of the receive ring
    awaiting,       \* EppPhy::recv_byte has queued its command
    host, acked,    \* host's handshake, and the answer it has seen to it
    heard,          \* phase, low nibble and bytes a nibble-mode host has read
    switches,
    \* history, since the active phy was built: bytes written by the host,
    \* returned by recv_byte, given to send_byte and read by the host; the
    \* ring overflowed; words were left in a FIFO by an earlier phy; a byte
    \* was sampled while both ends drove the data lines
    written, taken, rev, got, overran, ghosts, fought

phyVars  == <<sm0, sm1, drain, ring, awaiting>>
hostVars == <<host, acked, heard>>
history  == <<written, taken, rev, got, overran, ghosts, fought>>
vars     == <<muxVars, negVars, pins, phyVars, hostVars, switches, history>>

-----------------------------------------------------------------------------
\* The phy whose programs run: it runs on while dismantle waits.
Running == IF active = "None" THEN leaving ELSE active
Cfg     == Configs(Running)

PicoDrivesData == "data" \in hw.out
TowardsHost    == IF hw.dirSel = "PIO0" THEN pins["dir"] = 1 ELSE FALSE

\* What is read from D0..D7: with two drivers, neither's level.
Contended == PicoDrivesData /\ ~TowardsHost
DataRead  == IF Contended THEN <<>> ELSE pins["d"]

\* Nobody drives the lines towards the host: a marker, unlike every byte, for
\* what they happen to show.  A host that is acknowledged takes it for a byte.
Floating == <<>>

\* What a host in a read cycle finds on the data lines.
AtHost(p) == IF TowardsHost /\ PicoDrivesData THEN p["data"] ELSE Floating

AckLine == IF Running = "Epp" THEN "busy"
           ELSE IF Running = "Ecp" /\ host = "write" THEN "busy" ELSE "nack"

Sees(p) ==
    IF host # "idle" /\ acked = <<>> /\ p[AckLine] = 0 THEN <<AtHost(p)>> ELSE acked

\* A nibble-mode host takes a nibble at each change of the phase.
Hears(p) ==
    IF Running # "SppNibble" \/ PhaseOf(p["status"]) = heard.phase THEN heard
    ELSE IF heard.low = <<>>
         THEN [heard EXCEPT !.phase = 1 - @, !.low = NibbleOf(p["status"])]
         ELSE [phase |-> 1 - heard.phase, low |-> <<>>,
               bytes |-> Append(heard.bytes, heard.low \o NibbleOf(p["status"]))]

\* An instruction with the delay behind it, of which `left' cycles are run.
Whole(c, left) == [c EXCEPT !.sm.delay = IF @ < left THEN 0 ELSE @ - left + 1]
Forever == 1000

\* The host, at the pace of an ISA bus, and the tasks, woken by interrupts,
\* act when the programs that run at tens of MHz have come to a wait.
Stands(cfg, sm) == Stalled(cfg, sm, pins) /\ sm.delay = 0
PioWaits ==
    /\ Stands(Cfg.sm0, sm0)
    /\ Running \in {"Byte", "Ecp"} => Stands(Cfg.sm1, sm1)

Followed(p) ==
    IF active = "Epp" THEN Cycle(FollowerConfig, Idle, p).pins ELSE p

-----------------------------------------------------------------------------
\* The ring's index wraps: the word that fills it makes it look empty.
Ringed(word) == IF Len(ring) + 1 = RingWords THEN <<>> ELSE Append(ring, word)

RunSm0 ==
    /\ active \in Phys \cup {"None"}
    /\ LET c == Whole(Cycle(Cfg.sm0, sm0, [pins EXCEPT !["d"] = DataRead]), Forever)
           p == Followed([c.pins EXCEPT !["d"] = pins["d"]])
           sampled == c.sm.pc # sm0.pc /\ Instruction(Cfg.sm0, sm0).op = "in"
           toRing  == hw.armed /\ c.sm.rx # <<>>
       IN /\ sm0' = IF toRing THEN [c.sm EXCEPT !.rx = <<>>] ELSE c.sm
          /\ ring' = IF toRing THEN Ringed(Head(c.sm.rx)) ELSE ring
          /\ overran' = (overran \/ (toRing /\ Len(ring) + 1 = RingWords))
          /\ fought' = (fought \/ (sampled /\ Contended))
          /\ pins' = p /\ acked' = Sees(p)
    /\ UNCHANGED <<muxVars, negVars, sm1, drain, awaiting, host, heard, switches,
                   written, taken, rev, got, ghosts>>

RunSm1 ==
    /\ active \in (Phys \ {"Epp"}) \cup {"None"} /\ Running # "Epp"
    /\ active = "None" => drain > 0
    /\ LET delay == Cycle(Cfg.sm1, sm1, pins).sm.delay
           c == Whole(Cycle(Cfg.sm1, sm1, pins), IF active = "None" THEN drain ELSE Forever)
       IN /\ sm1' = c.sm /\ pins' = c.pins
          /\ acked' = Sees(c.pins) /\ heard' = Hears(c.pins)
          /\ got' = IF Running = "SppNibble" THEN Hears(c.pins).bytes ELSE got
          /\ drain' = IF active = "None" THEN drain - 1 - (delay - c.sm.delay) ELSE drain
    /\ UNCHANGED <<muxVars, negVars, sm0, ring, awaiting, host, switches,
                   written, taken, rev, overran, ghosts, fought>>

-----------------------------------------------------------------------------
Serving == active \in Phys /\ ~Negotiating /\ PioWaits

Unacked == Len(taken) > Len(rev)

SendByte ==
    /\ Serving /\ Unacked /\ ~awaiting /\ Len(rev) < Len(Bytes)
    /\ LET byte == Bytes[Len(rev) + 1]
           word == Packed(active, byte)
       IN /\ rev' = Append(rev, byte)
          /\ IF Sender(active) = "sm0"
             THEN /\ Len(sm0.tx) < TxDepth(Cfg.sm0)
                  /\ sm0' = [sm0 EXCEPT !.tx = Append(@, word)] /\ UNCHANGED sm1
             ELSE /\ Len(sm1.tx) < TxDepth(Cfg.sm1)
                  /\ sm1' = [sm1 EXCEPT !.tx = Append(@, word)] /\ UNCHANGED sm0
    /\ UNCHANGED <<muxVars, negVars, pins, drain, ring, awaiting, hostVars, switches,
                   written, taken, got, overran, ghosts, fought>>

\* EppPhy::recv_byte first queues a command.
AskForward ==
    /\ Serving /\ active = "Epp" /\ ~awaiting
    /\ ~Unacked /\ Len(taken) < Len(Bytes)
    /\ Len(sm0.tx) < TxDepth(Cfg.sm0)
    /\ sm0' = [sm0 EXCEPT !.tx = Append(@, EncodeForwardCmd)]
    /\ awaiting' = TRUE
    /\ UNCHANGED <<muxVars, negVars, pins, sm1, drain, ring, hostVars, switches, history>>

RecvFromRing ==
    /\ Serving /\ hw.armed
    /\ ring # <<>>
    /\ taken' = Append(taken, ByteOf(Head(ring))) /\ ring' = Tail(ring)
    /\ UNCHANGED <<muxVars, negVars, pins, sm0, sm1, drain, awaiting, hostVars, switches,
                   written, rev, got, overran, ghosts, fought>>

RecvFromFifo ==
    /\ Serving /\ ~hw.armed
    /\ active = "Epp" => awaiting
    /\ sm0.rx # <<>>
    /\ taken' = Append(taken, ByteOf(Head(sm0.rx))) /\ sm0' = [sm0 EXCEPT !.rx = Tail(@)]
    /\ awaiting' = FALSE
    /\ UNCHANGED <<muxVars, negVars, pins, sm1, drain, ring, hostVars, switches,
                   written, rev, got, overran, ghosts, fought>>

-----------------------------------------------------------------------------
\* A host writes or reads only where the mode has a handshake for it, and
\* reads only a reply it knows to be due.
Settled  == ~Negotiating /\ peer.pc \notin {"asked", "strobing", "strobed"}
HostIdle == active \in Phys /\ host = "idle" /\ Settled /\ PioWaits

HostWrites ==
    /\ HostIdle /\ Len(written) < Len(Bytes)
    /\ active = "Epp" => Len(got) = Len(written)
    /\ host' = "write" /\ acked' = <<>>
    /\ pins' = [pins EXCEPT !["d"] = Bytes[Len(written) + 1], !["strobe"] = 0,
                            !["autofd"] = IF active = "Epp" THEN 0 ELSE @]
    /\ UNCHANGED <<muxVars, negVars, phyVars, heard, switches, history>>

HostReads ==
    /\ HostIdle /\ active # "SppNibble"
    /\ Len(got) < Len(rev)
    /\ host' = "read" /\ acked' = <<>>
    /\ pins' = [pins EXCEPT !["autofd"] = 0]
    /\ UNCHANGED <<muxVars, negVars, phyVars, heard, switches, history>>

\* Nothing acknowledges a byte of SPP but the time the host takes.
HostEnds ==
    /\ host # "idle" /\ PioWaits
    /\ (hw.armed /\ host = "write") \/ acked # <<>>
    /\ pins' = [pins EXCEPT !["strobe"] = 1, !["autofd"] = 1]
    /\ host' = "idle" /\ acked' = <<>>
    /\ IF host = "write" THEN written' = Append(written, pins["d"]) /\ UNCHANGED got
                         ELSE got' = Append(got, Head(acked)) /\ UNCHANGED written
    /\ UNCHANGED <<muxVars, negVars, phyVars, heard, switches,
                   taken, rev, overran, ghosts, fought>>

-----------------------------------------------------------------------------
\* nibble_out is given all of its 5 ms; a phy that keeps pace with its host
\* may have got anywhere in that time.
DrainFor(p) == IF p = "SppNibble" THEN DrainTicks ELSE 0

\* The caller switches of its own accord, or to the mode negotiated, while
\* the host is between two bytes.
CallSwitch(t) ==
    /\ Serving /\ Settled /\ host = "idle" /\ ~awaiting
    /\ switches < MaxSwitches
    /\ neg.result = "Ok" => t = XrvToMode(neg.xrv)
    /\ BeginSwitch(t)
    /\ drain' = DrainFor(active)
    /\ switches' = switches + 1
    /\ UNCHANGED <<negVars, pins, sm0, sm1, ring, awaiting, hostVars, history>>

CompleteSwitch ==
    /\ drain = 0
    /\ FinishSwitch
    /\ LET c == Configs(PhyTarget(target))
       IN /\ sm0' = Configured(Cfg.sm0, c.sm0, sm0)
          /\ sm1' = Configured(Cfg.sm1, c.sm1, sm1)
          /\ ghosts' = (sm0'.rx # <<>> \/ sm1'.tx # <<>>)
    /\ pins' = Onto(Levels(PhyTarget(target)), pins)
    /\ ring' = <<>>
    /\ heard' = [phase |-> 0, low |-> <<>>, bytes |-> <<>>]
    /\ written' = <<>> /\ taken' = <<>> /\ rev' = <<>> /\ got' = <<>>
    /\ overran' = FALSE /\ fought' = FALSE
    /\ UNCHANGED <<negVars, drain, awaiting, host, acked, switches>>

\* The receiver in place takes the negotiation's strobe for one of a byte:
\* the firmware's polls may miss the pulse, the PIO does not.
Negotiation ==
    /\ \/ NegotiatorStep
       \/ (Negotiating \/ ~Settled) /\ PeerStep
    /\ LET rises == pins["strobe"] = 0 /\ pins'["strobe"] = 1
       IN /\ pins'["strobe"] # pins["strobe"] => PioWaits
          /\ written' = IF rises THEN Append(written, pins["d"]) ELSE written
    /\ UNCHANGED <<muxVars, phyVars, hostVars, switches, taken, rev, got, overran, ghosts, fought>>

-----------------------------------------------------------------------------
Init ==
    /\ MuxInit
    /\ \/ NegInit /\ switches = MaxSwitches - 1
       \/ /\ switches = 0
          /\ neg = [pc |-> "done", writes |-> <<>>, xrv |-> NIBBLE, result |-> ""]
          /\ claimed = FALSE /\ sio = [l \in StatusLines |-> 0]
          /\ peer = [pc |-> "none", xrv |-> NIBBLE, left |-> 0]
    /\ pins = Onto(Levels("SppNibble"),
                   [strobe |-> 1, autofd |-> 1, selectin |-> 0, d |-> Bytes[1],
                    data |-> Zeros(8), nack |-> 1, busy |-> 1, dir |-> 0])
    /\ sm0 = Idle /\ sm1 = Idle /\ drain = 0 /\ ring = <<>> /\ awaiting = FALSE
    /\ host = "idle" /\ acked = <<>>
    /\ heard = [phase |-> 0, low |-> <<>>, bytes |-> <<>>]
    /\ written = <<>> /\ taken = <<>> /\ rev = <<>> /\ got = <<>>
    /\ overran = FALSE /\ ghosts = FALSE /\ fought = FALSE

Next ==
    \/ RunSm0 \/ RunSm1
    \/ SendByte \/ AskForward \/ RecvFromRing \/ RecvFromFifo
    \/ HostWrites \/ HostReads \/ HostEnds
    \/ \E t \in Targets : CallSwitch(t)
    \/ CompleteSwitch
    \/ Negotiation

Spec == Init /\ [][Next]_vars

\* Sleeps and deadlines end: every step of the handshake is taken in time.
FairSpec == Spec /\ WF_vars(Negotiation /\ NegotiatorStep)

-----------------------------------------------------------------------------
(* lpt/mod.rs: recv_byte waits for one inbound byte.  In every mode the    *)
(* bytes it returns are those the host has written, in order, none twice   *)
(* and none skipped, unless the ring was left unread until it was full,    *)
(* both ends drove the lines, or an earlier phy left words behind.         *)
ForwardInOrder ==
    ~ghosts /\ ~fought /\ ~overran =>
        IsPrefix(taken, IF host = "write" \/ peer.pc = "strobing"
                        THEN Append(written, pins["d"]) ELSE written)

(* Where what send_byte is given reaches the host.  SPP nibbles go out on  *)
(* the status lines.  In EPP the follower turns the transceiver round, and *)
(* bytes pass if D0..D7 are outputs: PioEpp::new does not make them so, an *)
(* earlier Byte or ECP phy does.  In Byte and ECP nothing turns the        *)
(* transceiver round: D0..D7 never leave the board.                        *)
ReachesHost == Running = "SppNibble" \/ (Running = "Epp" /\ PicoDrivesData)

(* send_byte: where its bytes reach the host, the host has read the bytes  *)
(* sent, in order, each once, unscrambled, and never floating lines; where *)
(* they do not, every byte it was acknowledged is what floating lines      *)
(* showed.  It never reads more bytes than were sent.  Excepted are only   *)
(* words an earlier phy left behind.                                       *)
ReverseInOrder ==
    ~ghosts => /\ Len(got) <= Len(rev)
               /\ \A k \in DOMAIN got : got[k] = IF ReachesHost THEN rev[k] ELSE Floating

(* pio_epp.rs: "out pins, 8 side 1 ; drive D0..D7": the bytes an EPP host  *)
(* is acknowledged are the bytes sent.                                     *)
EppDrivesData ==
    Running = "Epp" /\ ~ghosts => \A k \in DOMAIN got : got[k] = rev[k]

(* pio_nibble_out.rs: 5 ms is "comfortable headroom": when the state       *)
(* machine is disabled, every byte handed to send_byte has been on the     *)
(* wire for its full settle time.                                          *)
DrainedWhenDisabled ==
    active = "None" /\ leaving = "SppNibble" /\ drain = 0 /\ ~ghosts =>
        AwaitsWord(NibbleOutConfig, sm1) /\ got = rev

(* mux.rs: the SppNibble phy is rebuilt "so the transport stays            *)
(* operational": nobody but the host drives D0..D7 in it.                  *)
TransportOperational == active = "SppNibble" => ~PicoDrivesData
=============================================================================
