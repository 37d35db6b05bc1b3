----------------------------- MODULE Lpt_proofs -----------------------------
(***************************************************************************)
(* Three things about the LPT port, for every FIFO depth and ring, any     *)
(* bytes, and any number of switches, requests and retries: the hardware   *)
(* that changes hands in switch_to is never lost, a finished negotiation   *)
(* means the same mode to both ends, and a wait in dismantle that covers a *)
(* full FIFO leaves no byte of nibble_out behind.                          *)
(***************************************************************************)
EXTENDS Lpt, SequenceTheorems, TLAPS

(* Inside a switch everything is parked that the phy being taken down does *)
(* not hold, and DIR is the CPU's already.                                 *)
DrainSlots(p) == Slots(p) - (IF p = "Epp" THEN FollowerSlots ELSE 0)
Between ==
    active = "None" =>
        /\ hw.parked = Parts \ Takes(leaving)
        /\ hw.used = DrainSlots(leaving)
        /\ hw.dirSel = "SIO"

MuxInv == MuxTypeOK /\ Conserved /\ PinsFollowMode /\ Between

USE DEF Phys, Modes, Parts, InstrSlots, PinGroups, CompatInSlots, FollowerSlots

(* The sizes of the programs, and that each fits.                          *)
LEMMA SlotsFit == \A p \in Phys : Slots(p) \in 8 .. 15 /\ DrainSlots(p) \in 8 .. 15
  BY DEF Slots, DrainSlots

LEMMA SlotsLeft ==
  /\ Slots("Epp") = 15 /\ DrainSlots("Epp") = 14
  /\ \A p \in Phys \ {"Epp"} : DrainSlots(p) = Slots(p)
<1>1. Slots("Epp") = 15
  BY DEF Slots
<1>2. DrainSlots("Epp") = 14
  BY <1>1 DEF DrainSlots
<1>3. \A p \in Phys \ {"Epp"} : DrainSlots(p) = Slots(p)
  BY SlotsFit DEF DrainSlots
<1> QED
  BY <1>1, <1>2, <1>3

LEMMA TakesParts == \A p \in Phys : Takes(p) \subseteq Parts
  BY DEF Takes

LEMMA PhyTargetIsPhy == \A t \in Modes : PhyTarget(t) \in Phys
  BY DEF PhyTarget

LEMMA ResizedIsHardware ==
  ASSUME NEW r \in Hardware, NEW n \in 0 .. InstrSlots PROVE
  /\ [r EXCEPT !.used = n, !.dirSel = "SIO"] \in Hardware
  /\ [r EXCEPT !.parked = Parts, !.used = n, !.armed = FALSE] \in Hardware
<1>1. [r EXCEPT !.used = n, !.dirSel = "SIO"] \in Hardware
  BY DEF Hardware
<1>2. [r EXCEPT !.parked = Parts, !.used = n, !.armed = FALSE] \in Hardware
  BY DEF Hardware
<1> QED
  BY <1>1, <1>2

LEMMA MuxStarts == MuxInit => MuxInv
<1> SUFFICES ASSUME MuxInit PROVE MuxInv
  OBVIOUS
<1>1. hw = [parked |-> Parts \ Takes("SppNibble"), used |-> Slots("SppNibble"),
            dirSel |-> "SIO", hd |-> 0, out |-> Drives("SppNibble"), armed |-> TRUE]
  <2>1. {} \cup Drives("SppNibble") = Drives("SppNibble") /\ 0 + Slots("SppNibble") = Slots("SppNibble")
    BY SlotsFit
  <2>2. RingFed("SppNibble") = TRUE
    BY DEF RingFed
  <2> QED
    BY <2>1, <2>2 DEF MuxInit, Build, Parked
<1>2. hw \in Hardware
  BY <1>1, SlotsFit DEF Hardware, Drives
<1> QED
  BY <1>1, <1>2 DEF MuxInit, MuxInv, MuxTypeOK, Conserved, PinsFollowMode, Between, RingFed

(* BeginSwitch: the follower's slot and DIR go back before the wait.       *)
LEMMA BeginKeeps ==
  ASSUME MuxInv, NEW t \in Modes, BeginSwitch(t) PROVE MuxInv'
<1>1. active \in Phys /\ active' = "None" /\ leaving' = active /\ target' = t
      /\ answer' = answer /\ hw' = BeforeDrain(active, hw)
  BY DEF BeginSwitch
<1>2. hw \in Hardware /\ hw.parked = Parts \ Takes(active) /\ hw.used = Slots(active)
      /\ answer \in {"Ok", "ModeMismatch"}
  BY <1>1 DEF MuxInv, MuxTypeOK, Conserved
<1>3. hw' \in Hardware /\ hw'.parked = hw.parked /\ hw'.used = DrainSlots(active)
      /\ hw'.dirSel = "SIO"
  <2>1. CASE active = "Epp"
    <3>1. hw' = [hw EXCEPT !.used = @ - 1, !.dirSel = "SIO"]
      BY <1>1, <2>1 DEF BeforeDrain
    <3>2. hw.used = 15 /\ DrainSlots(active) = 14
      BY <1>2, <2>1, SlotsLeft
    <3>3. hw' = [hw EXCEPT !.used = 14, !.dirSel = "SIO"]
      BY <3>1, <3>2
    <3>4. hw' \in Hardware
      <4>1. hw \in Hardware /\ 14 \in 0 .. InstrSlots
        BY <1>2
      <4>2. [hw EXCEPT !.used = 14, !.dirSel = "SIO"] \in Hardware
        BY <4>1, ResizedIsHardware
      <4> QED
        BY <3>3, <4>2
    <3>5. hw'.parked = hw.parked /\ hw'.used = 14 /\ hw'.dirSel = "SIO"
      BY <1>2, <3>3 DEF Hardware
    <3> QED
      BY <2>1, <3>2, <3>4, <3>5
  <2>2. CASE active # "Epp"
    <3>1. hw' = hw
      BY <1>1, <2>2 DEF BeforeDrain
    <3>2. hw.dirSel = "SIO"
      BY <1>2, <2>2 DEF MuxInv, PinsFollowMode, Hardware
    <3>3. DrainSlots(active) = Slots(active)
      BY <1>1, <2>2, SlotsLeft
    <3> QED
      BY <1>2, <3>1, <3>2, <3>3
  <2> QED
    BY <2>1, <2>2
<1> QED
  BY <1>1, <1>2, <1>3
     DEF MuxInv, MuxTypeOK, Conserved, PinsFollowMode, Between

(* FinishSwitch: everything is parked again, so that any phy can be built. *)
LEMMA FinishKeeps ==
  ASSUME MuxInv, FinishSwitch PROVE MuxInv'
<1> DEFINE p == PhyTarget(target)
           h == SetTransceiverMode(p, AfterDrain(leaving, hw))
<1>1. active = "None" /\ leaving' = leaving /\ target' = target
      /\ answer' = (IF target \in Phys THEN "Ok" ELSE "ModeMismatch")
      /\ IF CanBuild(p, h) THEN active' = p /\ hw' = Build(p, h)
                           ELSE active' = "Panicked" /\ hw' = h
  BY DEF FinishSwitch
<1>2. hw \in Hardware /\ hw.parked = Parts \ Takes(leaving) /\ hw.used = DrainSlots(leaving)
      /\ hw.dirSel = "SIO" /\ leaving \in Phys /\ target \in Modes
  BY <1>1 DEF MuxInv, MuxTypeOK, Between
<1>3. p \in Phys
  BY <1>2, PhyTargetIsPhy
<1> HIDE DEF p
<1>4. /\ h \in Hardware
      /\ h.parked = Parts /\ h.used = 0 /\ h.dirSel = "SIO"
      /\ h.hd = (IF p = "SppNibble" THEN 0 ELSE 1)
  <2> DEFINE freed == IF leaving = "Epp" THEN Slots(leaving) - FollowerSlots ELSE Slots(leaving)
             d == AfterDrain(leaving, hw)
  <2>1. hw.parked \cup Takes(leaving) = Parts
    BY <1>2, TakesParts
  <2>2. hw.used - freed = 0
    <3>1. CASE leaving = "Epp"
      BY <1>2, <3>1, SlotsLeft
    <3>2. CASE leaving # "Epp"
      BY <1>2, <3>2, SlotsLeft, SlotsFit
    <3> QED
      BY <3>1, <3>2
  <2> HIDE DEF freed
  <2>3. d = [hw EXCEPT !.parked = Parts, !.used = 0, !.armed = FALSE]
    <3>1. d = [hw EXCEPT !.parked = @ \cup Takes(leaving), !.used = @ - freed, !.armed = FALSE]
      BY Zenon DEF AfterDrain, freed
    <3> QED
      BY <2>1, <2>2, <3>1, Zenon
  <2> HIDE DEF d, h
  <2>4. d \in Hardware /\ d.parked = Parts /\ d.used = 0 /\ d.dirSel = "SIO"
    <3>1. hw \in Hardware /\ 0 \in 0 .. InstrSlots
      BY <1>2
    <3>2. [hw EXCEPT !.parked = Parts, !.used = 0, !.armed = FALSE] \in Hardware
      BY <3>1, ResizedIsHardware
    <3>3. d \in Hardware
      BY <2>3, <3>2
    <3>4. d.parked = Parts /\ d.used = 0 /\ d.dirSel = "SIO"
      BY <1>2, <2>3 DEF Hardware
    <3> QED
      BY <3>3, <3>4
  <2>5. h = [d EXCEPT !.hd = IF p = "SppNibble" THEN 0 ELSE 1]
    BY DEF h, d, SetTransceiverMode
  <2> QED
    BY <2>4, <2>5 DEF Hardware
<1> HIDE DEF h
<1>5. CanBuild(p, h)
  BY <1>3, <1>4, SlotsFit, TakesParts DEF CanBuild
<1>6. /\ active' = p /\ hw' \in Hardware
      /\ hw'.parked = Parts \ Takes(p) /\ hw'.used = Slots(p)
      /\ hw'.dirSel = (IF p = "Epp" THEN "PIO0" ELSE "SIO")
      /\ hw'.hd = (IF p = "SppNibble" THEN 0 ELSE 1)
  <2>1. /\ 0 + Slots(p) = Slots(p) /\ Slots(p) \in 0 .. 32
        /\ Parts \ Takes(p) \subseteq Parts
        /\ h.out \cup Drives(p) \subseteq PinGroups /\ RingFed(p) \in BOOLEAN
    BY <1>3, <1>4, SlotsFit DEF Hardware, Drives, RingFed
  <2>2. hw' = [h EXCEPT !.parked = Parts \ Takes(p), !.used = Slots(p),
                        !.out = h.out \cup Drives(p), !.armed = RingFed(p),
                        !.dirSel = IF p = "Epp" THEN "PIO0" ELSE "SIO"]
    BY <1>1, <1>4, <1>5, <2>1 DEF Build
  <2> QED
    BY <1>1, <1>4, <1>5, <2>1, <2>2 DEF Hardware
<1>7. hw'.armed = RingFed(p)
  <2>1. "armed" \in DOMAIN h
    BY <1>4 DEF Hardware
  <2>2. hw' = Build(p, h)
    BY <1>1, <1>5
  <2> QED
    BY <2>1, <2>2 DEF Build
<1>8. MuxTypeOK'
  BY <1>1, <1>2, <1>3, <1>6 DEF MuxTypeOK
<1>9. Conserved'
  BY <1>3, <1>6 DEF Conserved
<1>10. PinsFollowMode'
  BY <1>3, <1>6, <1>7 DEF PinsFollowMode
<1>11. Between'
  BY <1>3, <1>6 DEF Between
<1> QED
  BY <1>8, <1>9, <1>10, <1>11 DEF MuxInv

(* The rest of the port leaves the multiplexer alone.                      *)
LEMMA PortMovesMux ==
  ASSUME Next PROVE (\E t \in Modes : BeginSwitch(t)) \/ FinishSwitch \/ UNCHANGED muxVars
<1>1. CASE \E t \in Targets : CallSwitch(t)
  BY <1>1, TargetsAssumption DEF CallSwitch
<1>2. CASE CompleteSwitch
  BY <1>2 DEF CompleteSwitch
<1>3. CASE RunSm0 \/ RunSm1
  BY <1>3 DEF RunSm0, RunSm1
<1>4. CASE SendByte \/ AskForward \/ RecvFromRing \/ RecvFromFifo
  BY <1>4 DEF SendByte, AskForward, RecvFromRing, RecvFromFifo
<1>5. CASE HostWrites \/ HostReads \/ HostEnds \/ Negotiation
  BY <1>5 DEF HostWrites, HostReads, HostEnds, Negotiation
<1> QED
  BY <1>1, <1>2, <1>3, <1>4, <1>5 DEF Next

LEMMA MuxUnchanged == MuxInv /\ UNCHANGED muxVars => MuxInv'
  BY DEF MuxInv, MuxTypeOK, Conserved, PinsFollowMode, Between, muxVars

LEMMA MuxInductive == Spec => []MuxInv
<1>1. Init => MuxInv
  BY MuxStarts DEF Init
<1>2. MuxInv /\ [Next]_vars => MuxInv'
  <2> SUFFICES ASSUME MuxInv, [Next]_vars PROVE MuxInv'
    OBVIOUS
  <2>1. CASE Next
    BY <2>1, PortMovesMux, BeginKeeps, FinishKeeps, MuxUnchanged
  <2>2. CASE UNCHANGED vars
    BY <2>2, MuxUnchanged DEF vars
  <2> QED
    BY <2>1, <2>2
<1> QED
  BY <1>1, <1>2, PTL DEF Spec

(* LptHardware's fields, the phys and switch_to's answers are what         *)
(* mux.rs and hardware.rs say they can be.                                 *)
THEOREM MuxTypeCorrect == Spec => []MuxTypeOK
<1>1. MuxInv => MuxTypeOK
  BY DEF MuxInv
<1> QED
  BY <1>1, MuxInductive, PTL

(* No `expect' of a build fails and no load_program runs out of memory,    *)
(* however often and from wherever switch_to is called.                    *)
THEOREM HardwareConserved == Spec => []Conserved
<1>1. MuxInv => Conserved
  BY DEF MuxInv
<1> QED
  BY <1>1, MuxInductive, PTL

(* The pins that steer the transceiver follow the active phy.              *)
THEOREM TransceiverFollowsMode == Spec => []PinsFollowMode
<1>1. MuxInv => PinsFollowMode
  BY DEF MuxInv
<1> QED
  BY <1>1, MuxInductive, PTL

-----------------------------------------------------------------------------
(* The lines of the handshake, what is still to be written to the status   *)
(* lines, and what has been.                                               *)
Lines == {"strobe", "autofd", "selectin", "d"}
Verdict == IF XrvToMode(neg.xrv) # "" THEN 1 ELSE 0
Left(w) == {w, <<w[2], w[3], w[4]>>, <<w[3], w[4]>>, <<w[4]>>, <<>>}

(* The host that has neither given up nor asked a second time.             *)
Fresh == peer.pc # "gaveUp" /\ peer.left = 0
Asking == peer.pc \in {"asked", "strobing", "strobed"}

NegShape ==
    /\ Lines \subseteq DOMAIN pins
    /\ DOMAIN neg = {"pc", "writes", "xrv", "result"}
    /\ DOMAIN peer = {"pc", "xrv", "left"}
    /\ neg.pc \in {"wait", "claim", "strobeLow", "strobeHigh", "release", "return", "done"}
    /\ peer.pc \in {"none", "idle", "asked", "strobing", "strobed", "agreed", "refused", "gaveUp"}
    /\ peer.left \in Nat
    /\ sio \in [StatusLines -> {0, 1}]
    /\ claimed \in BOOLEAN

(* The firmware's side: the verdict's four writes come one by one, nAck    *)
(* first, so that Select still stands at the answer to the request when a  *)
(* host may read it, and falls only for a request that is refused.         *)
Pending ==
    /\ neg.pc = "strobeLow" =>
          /\ neg.writes \in Left(Writes(0, 1, 1, 1))
          /\ Len(neg.writes) < 2 => sio["select"] = 1
    /\ neg.pc = "release" => neg.writes \in Left(Writes(1, 1, Verdict, 1))
    /\ neg.pc \notin {"strobeLow", "release"} => neg.writes = <<>>
StatusInv ==
    /\ Pending
    /\ claimed <=> neg.pc \in {"strobeLow", "strobeHigh", "release", "return"}
    /\ neg.pc = "strobeHigh" => sio["select"] = 1
    /\ neg.pc \in {"release", "return"} => sio["select"] = 1 \/ XrvToMode(neg.xrv) = ""
    /\ neg.pc \in {"wait", "claim", "strobeLow", "strobeHigh"} => sio["nack"] = 0

(* The host's side: while it waits for the verdict it holds nAutoFd, and   *)
(* what was read from D0..D7 is what it has asked for.                     *)
HostInv ==
    /\ host # "idle" => ~Negotiating
    /\ Negotiating /\ Asking => pins["autofd"] = 0 /\ pins["d"] = peer.xrv
    /\ peer.pc = "idle" => neg.pc = "wait" /\ pins["selectin"] = 0
    /\ neg.pc \in {"wait", "claim"} => peer.pc \in {"idle", "asked", "gaveUp"}
    /\ neg.pc # "wait" /\ peer.pc # "none" /\ Fresh => neg.xrv = peer.xrv
    /\ peer.pc = "refused" /\ Fresh => XrvToMode(neg.xrv) = ""
    /\ peer.pc = "none" => neg.pc = "done" /\ neg.result = ""
    /\ neg.result = "Ok" => neg.pc \in {"return", "done"}

NegInv == NegShape /\ StatusInv /\ HostInv /\ NegotiatedModeAgrees

(* No program, no build and no byte touches the lines of the handshake.    *)
HostDriven(old, new) ==
    Lines \subseteq DOMAIN new /\ \A l \in Lines : new[l] = old[l]

LEMMA OntoKeeps ==
  ASSUME NEW p, Lines \subseteq DOMAIN p, NEW levels, DOMAIN levels \cap Lines = {}
  PROVE  HostDriven(p, Onto(levels, p))
  BY DEF HostDriven, Onto

LEMMA HostDrivenTrans ==
  ASSUME NEW p, NEW q, NEW r, HostDriven(p, q), HostDriven(q, r) PROVE HostDriven(p, r)
  BY DEF HostDriven

LEMMA CycleKeeps ==
  ASSUME NEW cfg, {cfg.out, cfg.set, cfg.side} \cap Lines = {}, NEW sm,
         NEW p, Lines \subseteq DOMAIN p
  PROVE  HostDriven(p, Cycle(cfg, sm, p).pins)
<1> DEFINE i == Instruction(cfg, sm)
<1>1. DOMAIN Sided(cfg, i) \cap Lines = {}
  BY DEF Sided, Pin
<1>2. DOMAIN Driven(cfg, i, sm, p) \cap Lines = {}
  BY DEF Driven, Pin
<1>3. HostDriven(p, Onto(Sided(cfg, i), p))
  BY <1>1, OntoKeeps
<1>4. HostDriven(p, Onto(Driven(cfg, i, sm, p), Onto(Sided(cfg, i), p)))
  <2>1. Lines \subseteq DOMAIN Onto(Sided(cfg, i), p)
    BY <1>3 DEF HostDriven
  <2>2. HostDriven(Onto(Sided(cfg, i), p), Onto(Driven(cfg, i, sm, p), Onto(Sided(cfg, i), p)))
    BY <1>2, <2>1, OntoKeeps
  <2> QED
    BY <1>3, <2>2, HostDrivenTrans
<1>5. HostDriven(p, p)
  BY DEF HostDriven
<1>6. CASE sm.delay > 0
  BY <1>5, <1>6 DEF Cycle
<1>7. CASE ~(sm.delay > 0) /\ Stalled(cfg, sm, p)
  BY <1>3, <1>7 DEF Cycle
<1>8. CASE ~(sm.delay > 0) /\ ~Stalled(cfg, sm, p)
  BY <1>4, <1>8 DEF Cycle
<1> QED
  BY <1>6, <1>7, <1>8

LEMMA ConfigsKeep ==
  /\ \A p \in Phys : /\ {Configs(p).sm0.out, Configs(p).sm0.set, Configs(p).sm0.side} \cap Lines = {}
                    /\ {Configs(p).sm1.out, Configs(p).sm1.set, Configs(p).sm1.side} \cap Lines = {}
  /\ {FollowerConfig.out, FollowerConfig.set, FollowerConfig.side} \cap Lines = {}
<1> DEFINE Safe(c) == {c.out, c.set, c.side} \cap Lines = {}
<1>1. Safe(CompatInConfig) /\ Safe(NibbleOutConfig) /\ Safe(ByteRevConfig) /\ Safe(EppConfig)
  BY DEF CompatInConfig, NibbleOutConfig, ByteRevConfig, EppConfig, Config, Lines
<1>2. Safe(EcpFwdConfig) /\ Safe(EcpRevConfig) /\ Safe(FollowerConfig)
  BY DEF EcpFwdConfig, EcpRevConfig, FollowerConfig, Config, Lines
<1> HIDE DEF Safe
<1>3. \A p \in Phys : Safe(Configs(p).sm0) /\ Safe(Configs(p).sm1)
  BY <1>1, <1>2 DEF Configs
<1> QED
  BY <1>2, <1>3 DEF Safe

LEMMA RunningIsPhy ==
  ASSUME MuxInv, active \in Phys \cup {"None"} PROVE Running \in Phys
  BY DEF MuxInv, MuxTypeOK, Running

LEMMA Sm1Keeps ==
  ASSUME MuxInv, Lines \subseteq DOMAIN pins, RunSm1 PROVE HostDriven(pins, pins')
<1> DEFINE cycle == Cycle(Cfg.sm1, sm1, pins)
<1>1. pins' = cycle.pins
  BY DEF RunSm1, Whole, Cycle
<1>2. Running \in Phys
  BY RunningIsPhy DEF RunSm1
<1> QED
  BY <1>1, <1>2, ConfigsKeep, CycleKeeps DEF Cfg

LEMMA Sm0Keeps ==
  ASSUME MuxInv, Lines \subseteq DOMAIN pins, RunSm0 PROVE HostDriven(pins, pins')
<1> DEFINE read == [pins EXCEPT !["d"] = DataRead]
           cycle == Cycle(Cfg.sm0, sm0, read)
           back == [cycle.pins EXCEPT !["d"] = pins["d"]]
<1>1. pins' = Followed(back)
  BY DEF RunSm0, Whole, Cycle
<1>2. Running \in Phys
  BY RunningIsPhy DEF RunSm0
<1>3. Lines \subseteq DOMAIN read
  OBVIOUS
<1>4. HostDriven(read, cycle.pins)
  BY <1>2, <1>3, ConfigsKeep, CycleKeeps DEF Cfg
<1>5. HostDriven(pins, back)
  BY <1>4 DEF HostDriven, Lines
<1>6. HostDriven(back, Followed(back))
  <2>1. Lines \subseteq DOMAIN back
    BY <1>5 DEF HostDriven
  <2> HIDE DEF back
  <2>2. HostDriven(back, Cycle(FollowerConfig, Idle, back).pins)
    BY <2>1, ConfigsKeep, CycleKeeps
  <2> QED
    BY <2>1, <2>2 DEF Followed, HostDriven
<1> QED
  BY <1>1, <1>5, <1>6, HostDrivenTrans

LEMMA LevelsKeep ==
  ASSUME Lines \subseteq DOMAIN pins, NEW p \in Phys
  PROVE  HostDriven(pins, Onto(Levels(p), pins))
<1>1. DOMAIN Levels(p) \cap Lines = {}
  BY DEF Levels, Lines
<1> QED
  BY <1>1, OntoKeeps

LEMMA PortKeepsNeg ==
  ASSUME NegInv, UNCHANGED negVars, Lines \subseteq DOMAIN pins',
         pins'["selectin"] = pins["selectin"],
         Negotiating => pins'["autofd"] = pins["autofd"] /\ pins'["d"] = pins["d"],
         host' # "idle" => ~Negotiating
  PROVE  NegInv'
<1>1. neg' = neg /\ claimed' = claimed /\ sio' = sio /\ peer' = peer
  BY DEF negVars
<1>2. NegShape'
  BY <1>1 DEF NegInv, NegShape
<1>3. StatusInv'
  BY <1>1 DEF NegInv, StatusInv, Pending, Verdict
<1>4. HostInv'
  BY <1>1 DEF NegInv, HostInv, Negotiating, Asking, Fresh
<1>5. NegotiatedModeAgrees'
  BY <1>1 DEF NegInv, NegotiatedModeAgrees
<1> QED
  BY <1>2, <1>3, <1>4, <1>5 DEF NegInv

LEMMA WritesLeft ==
  ASSUME NEW a \in {0, 1}, NEW b \in {0, 1}, NEW c \in {0, 1}, NEW d \in {0, 1},
         NEW s \in Left(Writes(a, b, c, d)), s # <<>>
  PROVE  /\ Tail(s) \in Left(Writes(a, b, c, d))
         /\ Head(s)[1] \in StatusLines /\ Head(s)[2] \in {0, 1}
         /\ Head(s)[1] = "nack" => Head(s)[2] = a
         /\ Head(s)[1] = "select" => Head(s)[2] = c
         /\ Len(Tail(s)) < 2 => Head(s)[1] = "select" \/ Len(s) < 2
<1> DEFINE w == Writes(a, b, c, d)
<1>1. CASE s = w
  BY <1>1 DEF Left, Writes, StatusLines
<1>2. CASE s = <<w[2], w[3], w[4]>>
  BY <1>2 DEF Left, Writes, StatusLines
<1>3. CASE s = <<w[3], w[4]>>
  BY <1>3 DEF Left, Writes, StatusLines
<1>4. CASE s = <<w[4]>>
  BY <1>4 DEF Left, Writes, StatusLines
<1> QED
  BY <1>1, <1>2, <1>3, <1>4 DEF Left

LEMMA WritesStart ==
  \A a, b, c, d : /\ Writes(a, b, c, d) \in Left(Writes(a, b, c, d))
                  /\ Len(Writes(a, b, c, d)) = 4
  BY DEF Left, Writes

LEMMA NegotiatorKeeps ==
  ASSUME NegInv, NegotiatorStep, UNCHANGED host PROVE NegInv'
<1>1. CASE DetectStart
  <2>1. /\ neg'.pc = "claim" /\ neg'.xrv = pins["d"]
        /\ neg'.writes = neg.writes /\ neg'.result = neg.result
    BY <1>1 DEF DetectStart, NegInv, NegShape
  <2>2. NegShape'
    BY <1>1, <2>1 DEF NegInv, NegShape, DetectStart
  <2>3. StatusInv'
    BY <1>1, <2>1 DEF NegInv, NegShape, StatusInv, Pending, Verdict, Left, Waiting, DetectStart
  <2>4. HostInv'
    <3>1. peer.pc \in {"asked", "gaveUp"} /\ neg.pc = "wait"
      <4>1. neg.pc = "wait" /\ pins["selectin"] = 1
        BY <1>1 DEF DetectStart
      <4>2. peer.pc = "idle" => pins["selectin"] = 0
        BY Zenon DEF NegInv, HostInv
      <4>3. peer.pc \in {"idle", "asked", "gaveUp"}
        BY <4>1 DEF NegInv, HostInv
      <4> QED
        BY <4>1, <4>2, <4>3
    <3>2. peer.pc = "asked" => pins["d"] = peer.xrv
      BY <3>1 DEF NegInv, HostInv, Negotiating, Asking
    <3> QED
      BY <1>1, <2>1, <3>1, <3>2 DEF NegInv, NegShape, HostInv, Negotiating, Asking, Fresh, DetectStart
  <2>5. NegotiatedModeAgrees'
    BY <1>1, <2>1 DEF NegInv, NegShape, HostInv, NegotiatedModeAgrees, DetectStart
  <2> QED
    BY <2>2, <2>3, <2>4, <2>5 DEF NegInv
<1>2. CASE ClaimStatusPins
  <2>1. /\ neg'.pc = "strobeLow" /\ neg'.writes = Writes(0, 1, 1, 1)
        /\ neg'.xrv = neg.xrv /\ neg'.result = neg.result
    BY <1>2 DEF ClaimStatusPins, NegInv, NegShape
  <2>2. NegShape'
    BY <1>2, <2>1 DEF NegInv, NegShape, ClaimStatusPins
  <2>3. StatusInv'
    <3>1. Pending'
      <4>1. /\ Writes(0, 1, 1, 1) \in Left(Writes(0, 1, 1, 1))
            /\ ~(Len(Writes(0, 1, 1, 1)) < 2)
        BY DEF Left, Writes
      <4>2. /\ neg'.writes \in Left(Writes(0, 1, 1, 1))
            /\ ~(Len(neg'.writes) < 2)
        BY <2>1, <4>1
      <4> QED
        BY <2>1, <4>2 DEF Pending
    <3>2. (claimed <=> neg.pc \in {"strobeLow", "strobeHigh", "release", "return"})'
      BY <1>2, <2>1 DEF ClaimStatusPins
    <3> QED
      BY <1>2, <2>1, <3>1, <3>2 DEF NegInv, StatusInv, ClaimStatusPins
  <2>4. HostInv'
    BY <1>2, <2>1 DEF NegInv, NegShape, HostInv, Negotiating, Asking, Fresh, ClaimStatusPins
  <2>5. NegotiatedModeAgrees'
    BY <1>2, <2>1 DEF NegInv, NegShape, HostInv, NegotiatedModeAgrees, ClaimStatusPins
  <2> QED
    BY <2>2, <2>3, <2>4, <2>5 DEF NegInv
<1>4. CASE StrobeLow
  <2>1. /\ neg'.pc = "strobeHigh" /\ neg'.result = neg.result
        /\ neg'.writes = neg.writes /\ neg'.xrv = neg.xrv
    BY <1>4 DEF StrobeLow, NegInv, NegShape
  <2>2. NegShape'
    BY <1>4, <2>1 DEF NegInv, NegShape, StrobeLow
  <2>3. StatusInv'
    BY <1>4, <2>1 DEF NegInv, NegShape, StatusInv, Pending, Verdict, Left, Waiting, StrobeLow
  <2>4. HostInv'
    BY <1>4, <2>1 DEF NegInv, NegShape, HostInv, Negotiating, Asking, Fresh, StrobeLow
  <2>5. NegotiatedModeAgrees'
    BY <1>4, <2>1 DEF NegInv, NegShape, HostInv, NegotiatedModeAgrees, StrobeLow
  <2> QED
    BY <2>2, <2>3, <2>4, <2>5 DEF NegInv
<1>5. CASE StrobeHigh
  <2>1. /\ neg'.pc = "release" /\ neg'.writes = Writes(1, 1, Verdict, 1)
        /\ neg'.xrv = neg.xrv /\ neg'.result = neg.result
    BY <1>5 DEF StrobeHigh, NegInv, NegShape, Verdict
  <2>2. NegShape'
    BY <1>5, <2>1 DEF NegInv, NegShape, StrobeHigh
  <2>3. StatusInv'
    BY <1>5, <2>1, WritesStart DEF NegInv, NegShape, StatusInv, Pending, Verdict, Waiting, StrobeHigh
  <2>4. HostInv'
    BY <1>5, <2>1 DEF NegInv, NegShape, HostInv, Negotiating, Asking, Fresh, StrobeHigh
  <2>5. NegotiatedModeAgrees'
    BY <1>5, <2>1 DEF NegInv, NegShape, HostInv, NegotiatedModeAgrees, StrobeHigh
  <2> QED
    BY <2>2, <2>3, <2>4, <2>5 DEF NegInv
<1>6. CASE AutoFdReleased
  <2>1. /\ neg'.pc = "return" /\ neg'.writes = neg.writes /\ neg'.xrv = neg.xrv
        /\ neg'.result = IF XrvToMode(neg.xrv) # "" THEN "Ok" ELSE "UnsupportedXrv"
    BY <1>6 DEF AutoFdReleased, NegInv, NegShape
  <2>2. NegShape'
    BY <1>6, <2>1 DEF NegInv, NegShape, AutoFdReleased
  <2>3. StatusInv'
    BY <1>6, <2>1 DEF NegInv, NegShape, StatusInv, Pending, Verdict, Left, Waiting, AutoFdReleased
  <2>4. HostInv'
    BY <1>6, <2>1 DEF NegInv, NegShape, HostInv, Negotiating, Asking, Fresh, AutoFdReleased
  <2>5. NegotiatedModeAgrees'
    <3>0. peer' = peer
      BY <1>6 DEF AutoFdReleased
    <3>1. neg.pc = "release" /\ pins["autofd"] = 1
      BY <1>6 DEF AutoFdReleased, Released
    <3>2. ~Asking
      <4>1. Negotiating /\ Asking => pins["autofd"] = 0
        BY Zenon DEF NegInv, HostInv
      <4> QED
        BY <3>1, <4>1 DEF Negotiating
    <3> SUFFICES ASSUME XrvToMode(neg.xrv) # "", Fresh
                 PROVE  peer.pc = "agreed" /\ neg.xrv = peer.xrv
      <4>1. neg'.result = "Ok" => XrvToMode(neg.xrv) # ""
        BY <2>1
      <4>2. neg'.result = "Ok" /\ Fresh => peer.pc = "agreed" /\ neg.xrv = peer.xrv
        BY <4>1
      <4> QED
        <5>1. neg'.xrv = neg.xrv
          BY <2>1
        <5> QED
          BY <3>0, <4>2, <5>1 DEF NegotiatedModeAgrees, Fresh
    <3>3. peer.pc \notin {"idle", "none", "refused"}
      BY <3>1 DEF NegInv, HostInv
    <3>4. peer.pc = "agreed"
      BY <3>2, <3>3 DEF NegInv, NegShape, Asking, Fresh
    <3> QED
      BY <3>1, <3>4 DEF NegInv, HostInv
  <2> QED
    BY <2>2, <2>3, <2>4, <2>5 DEF NegInv
<1>7. CASE NegTimeout
  <2>1. /\ neg'.pc = "return" /\ neg'.writes = neg.writes /\ neg'.xrv = neg.xrv
        /\ neg'.result = "Timeout"
    BY <1>7 DEF NegTimeout, NegInv, NegShape
  <2>2. NegShape'
    BY <1>7, <2>1 DEF NegInv, NegShape, NegTimeout
  <2>3. StatusInv'
    <3>1. sio["select"] = 1 \/ XrvToMode(neg.xrv) = ""
      <4>1. Len(neg.writes) < 2
        BY <1>7 DEF NegTimeout, Waiting
      <4> QED
        BY <1>7, <4>1 DEF NegInv, StatusInv, Pending, TimesOut, NegTimeout
    <3>2. neg.writes = <<>> /\ claimed /\ neg'.writes = <<>>
      BY <1>7, <2>1 DEF NegInv, StatusInv, TimesOut, NegTimeout, Waiting
    <3>3. Pending'
      BY <2>1, <3>2 DEF Pending
    <3> QED
      BY <1>7, <2>1, <3>1, <3>2, <3>3 DEF StatusInv, NegTimeout
  <2>4. HostInv'
    BY <1>7, <2>1 DEF NegInv, NegShape, HostInv, Negotiating, Asking, Fresh, TimesOut, NegTimeout
  <2>5. NegotiatedModeAgrees'
    BY <1>7, <2>1 DEF NegInv, NegShape, HostInv, NegotiatedModeAgrees, NegTimeout
  <2> QED
    BY <2>2, <2>3, <2>4, <2>5 DEF NegInv
<1>8. CASE ReleaseStatusPins
  <2>1. /\ neg'.pc = "done" /\ neg'.writes = neg.writes /\ neg'.xrv = neg.xrv
        /\ neg'.result = neg.result
    BY <1>8 DEF ReleaseStatusPins, NegInv, NegShape
  <2>2. NegShape'
    BY <1>8, <2>1 DEF NegInv, NegShape, ReleaseStatusPins
  <2>3. StatusInv'
    BY <1>8, <2>1 DEF NegInv, NegShape, StatusInv, Pending, Verdict, Left, Waiting, ReleaseStatusPins
  <2>4. HostInv'
    BY <1>8, <2>1 DEF NegInv, NegShape, HostInv, Negotiating, Asking, Fresh, ReleaseStatusPins
  <2>5. NegotiatedModeAgrees'
    BY <1>8, <2>1 DEF NegInv, NegShape, HostInv, NegotiatedModeAgrees, ReleaseStatusPins
  <2> QED
    BY <2>2, <2>3, <2>4, <2>5 DEF NegInv
<1>9. CASE DriveStatus
  <2>1. PICK a \in {0, 1}, b \in {0, 1}, c \in {0, 1}, d \in {0, 1} :
          /\ neg.pc \in {"strobeLow", "release"} /\ neg.writes \in Left(Writes(a, b, c, d))
          /\ neg.pc = "strobeLow" => a = 0 /\ b = 1 /\ c = 1 /\ d = 1
          /\ neg.pc = "release" => a = 1 /\ b = 1 /\ c = Verdict /\ d = 1
    <3>1. neg.writes # <<>>
      BY <1>9 DEF DriveStatus
    <3>2. neg.pc \in {"strobeLow", "release"}
      BY <3>1, Zenon DEF NegInv, StatusInv, Pending
    <3>3. neg.pc = "strobeLow" => neg.writes \in Left(Writes(0, 1, 1, 1))
      BY Zenon DEF NegInv, StatusInv, Pending
    <3>4. neg.pc = "release" => neg.writes \in Left(Writes(1, 1, Verdict, 1))
      BY Zenon DEF NegInv, StatusInv, Pending
    <3>5. Verdict \in {0, 1}
      BY DEF Verdict
    <3>6. CASE neg.pc = "strobeLow"
      BY <3>3, <3>6
    <3>7. CASE neg.pc = "release"
      BY <3>4, <3>5, <3>7
    <3> QED
      BY <3>2, <3>6, <3>7
  <2> DEFINE w == Head(neg.writes)
  <2>2. /\ Tail(neg.writes) \in Left(Writes(a, b, c, d))
        /\ w[1] \in StatusLines /\ w[2] \in {0, 1}
        /\ w[1] = "nack" => w[2] = a
        /\ w[1] = "select" => w[2] = c
        /\ Len(Tail(neg.writes)) < 2 => w[1] = "select" \/ Len(neg.writes) < 2
    <3>1. neg.writes # <<>>
      BY <1>9 DEF DriveStatus
    <3> QED
      BY <2>1, <3>1, WritesLeft
  <2>3. /\ neg'.pc = neg.pc /\ neg'.writes = Tail(neg.writes)
        /\ neg'.xrv = neg.xrv /\ neg'.result = neg.result
        /\ peer' = peer /\ claimed' = claimed /\ pins' = pins
        /\ sio' = [sio EXCEPT ![w[1]] = w[2]]
    BY <1>9 DEF DriveStatus, NegInv, NegShape
  <2> HIDE DEF w
  <2>4. NegShape'
    BY <1>9, <2>2, <2>3 DEF NegInv, NegShape, DriveStatus
  <2>5. /\ sio \in [StatusLines -> {0, 1}]
        /\ sio'["select"] = (IF w[1] = "select" THEN c ELSE sio["select"])
        /\ sio'["nack"] = (IF w[1] = "nack" THEN a ELSE sio["nack"])
    BY <2>2, <2>3 DEF NegInv, NegShape, StatusLines
  <2>6. StatusInv'
    <3>1. CASE neg.pc = "strobeLow"
      <4>1. /\ Len(neg.writes) < 2 => sio["select"] = 1
            /\ claimed /\ sio["nack"] = 0
        BY <3>1, Zenon DEF NegInv, StatusInv, Pending
      <4>2. /\ Len(neg'.writes) < 2 => sio'["select"] = 1
            /\ claimed' /\ sio'["nack"] = 0
        BY <2>1, <2>2, <2>3, <2>5, <3>1, <4>1
      <4>3. neg'.writes \in Left(Writes(0, 1, 1, 1))
        BY <2>1, <2>2, <2>3, <3>1
      <4> QED
        BY <2>3, <3>1, <4>2, <4>3 DEF StatusInv, Pending
    <3>2. CASE neg.pc = "release"
      <4>1. claimed /\ (sio["select"] = 1 \/ XrvToMode(neg.xrv) = "")
        BY <3>2, Zenon DEF NegInv, StatusInv
      <4>2. sio'["select"] = 1 \/ XrvToMode(neg'.xrv) = ""
        BY <2>1, <2>3, <2>5, <3>2, <4>1 DEF Verdict
      <4>3. neg'.writes \in Left(Writes(1, 1, Verdict', 1))
        BY <2>1, <2>2, <2>3, <3>2 DEF Verdict
      <4> QED
        BY <2>3, <3>2, <4>1, <4>2, <4>3 DEF StatusInv, Pending
    <3> QED
      BY <2>1, <3>1, <3>2
  <2>7. HostInv'
    BY <2>3 DEF NegInv, HostInv, Negotiating, Asking, Fresh
  <2>8. NegotiatedModeAgrees'
    BY <2>3 DEF NegInv, NegotiatedModeAgrees
  <2> QED
    BY <2>4, <2>6, <2>7, <2>8 DEF NegInv
<1> QED
  BY <1>9, <1>1, <1>2, <1>4, <1>5, <1>6, <1>7, <1>8 DEF NegotiatorStep

LEMMA PeerKeeps ==
  ASSUME NegInv, PeerStep, UNCHANGED host PROVE NegInv'
<1>0. StatusInv'
  <2>1. neg' = neg /\ claimed' = claimed /\ sio' = sio
    BY DEF PeerStep, Request, Strobe, EndStrobe, ReadVerdict, GiveUp
  <2> QED
    BY <2>1 DEF NegInv, StatusInv, Pending, Verdict
<1>1. CASE Request
  <2>1. /\ neg' = neg /\ claimed' = claimed /\ sio' = sio
        /\ peer'.pc = "asked" /\ pins'["autofd"] = 0 /\ pins'["d"] = peer'.xrv
        /\ peer'.left = 0 => peer.pc = "idle"
    BY <1>1 DEF Request, NegInv, NegShape, Lines
  <2>2. NegShape'
    BY <1>1, <2>1 DEF NegInv, NegShape, Lines, Request
  <2>3. HostInv'
    BY <1>1, <2>1 DEF NegInv, NegShape, HostInv, Negotiating, Asking, Fresh, Lines, Request
  <2>4. NegotiatedModeAgrees'
    BY <1>1, <2>1 DEF NegInv, NegShape, HostInv, Fresh, NegotiatedModeAgrees, Request
  <2> QED
    BY <1>0, <2>2, <2>3, <2>4 DEF NegInv
<1>2. CASE Strobe
  <2>1. /\ neg' = neg /\ claimed' = claimed /\ sio' = sio
        /\ peer.pc = "asked" /\ peer'.pc = "strobing" /\ peer'.xrv = peer.xrv /\ peer'.left = peer.left
        /\ pins'["autofd"] = pins["autofd"] /\ pins'["d"] = pins["d"]
    BY <1>2 DEF Strobe, NegInv, NegShape, Lines
  <2>2. NegShape'
    BY <1>2, <2>1 DEF NegInv, NegShape, Lines, Strobe
  <2>3. HostInv'
    <3>1. claimed
      <4>1. Status("perror") = 1
        BY <1>2 DEF Strobe, StatusLines
      <4> QED
        BY <4>1 DEF Status
    <3>2. neg.pc \notin {"wait", "claim"}
      BY <3>1, Zenon DEF NegInv, StatusInv
    <3> QED
      BY <1>2, <2>1, <3>2 DEF NegInv, NegShape, HostInv, Negotiating, Asking, Fresh
  <2>4. NegotiatedModeAgrees'
    BY <1>2, <2>1 DEF NegInv, NegShape, HostInv, Fresh, NegotiatedModeAgrees, Strobe
  <2> QED
    BY <1>0, <2>2, <2>3, <2>4 DEF NegInv
<1>3. CASE EndStrobe
  <2>1. /\ neg' = neg /\ claimed' = claimed /\ sio' = sio
        /\ peer.pc = "strobing" /\ peer'.pc = "strobed" /\ peer'.xrv = peer.xrv /\ peer'.left = peer.left
        /\ pins'["autofd"] = pins["autofd"] /\ pins'["d"] = pins["d"]
    BY <1>3 DEF EndStrobe, NegInv, NegShape, Lines
  <2>2. NegShape'
    BY <1>3, <2>1 DEF NegInv, NegShape, Lines, EndStrobe
  <2>3. HostInv'
    BY <1>3, <2>1 DEF NegInv, NegShape, HostInv, Negotiating, Asking, Fresh, Lines, EndStrobe
  <2>4. NegotiatedModeAgrees'
    BY <1>3, <2>1 DEF NegInv, NegShape, HostInv, Fresh, NegotiatedModeAgrees, EndStrobe
  <2> QED
    BY <1>0, <2>2, <2>3, <2>4 DEF NegInv
<1>4. CASE ReadVerdict
  <2>1. /\ neg' = neg /\ claimed' = claimed /\ sio' = sio
        /\ peer.pc = "strobed" /\ peer'.pc \in {"agreed", "refused"}
        /\ peer'.xrv = peer.xrv /\ peer'.left = peer.left
    BY <1>4 DEF ReadVerdict, NegInv, NegShape, Lines
  <2>2. NegShape'
    BY <1>4, <2>1 DEF NegInv, NegShape, Lines, ReadVerdict
  <2>3. HostInv'
    <3>1. claimed /\ sio["nack"] = 1
      BY <1>4 DEF ReadVerdict, Status
    <3>2. neg.pc \in {"release", "return"}
      <4>1. neg.pc \in {"strobeLow", "strobeHigh", "release", "return"}
        BY <3>1, Zenon DEF NegInv, StatusInv
      <4>2. neg.pc \in {"strobeLow", "strobeHigh"} => sio["nack"] = 0
        BY Zenon DEF NegInv, StatusInv
      <4> QED
        BY <3>1, <4>1, <4>2
    <3>3. sio["select"] = 1 \/ XrvToMode(neg.xrv) = ""
      BY <3>2, Zenon DEF NegInv, StatusInv
    <3>4. peer'.pc = "refused" => XrvToMode(neg.xrv) = ""
      <4>1. peer'.pc = (IF sio["select"] = 1 THEN "agreed" ELSE "refused")
        BY <1>4, <3>1 DEF ReadVerdict, Status, NegInv, NegShape
      <4> QED
        BY <3>3, <4>1
    <3> QED
      BY <1>4, <2>1, <3>2, <3>4
         DEF NegInv, NegShape, HostInv, Negotiating, Asking, Fresh, ReadVerdict
  <2>4. NegotiatedModeAgrees'
    BY <1>4, <2>1 DEF NegInv, NegShape, HostInv, Fresh, NegotiatedModeAgrees, ReadVerdict
  <2> QED
    BY <1>0, <2>2, <2>3, <2>4 DEF NegInv
<1>5. CASE GiveUp
  <2>1. /\ neg' = neg /\ claimed' = claimed /\ sio' = sio
        /\ Asking /\ peer'.pc = "gaveUp" /\ peer'.left = peer.left
    BY <1>5 DEF GiveUp, Asking, NegInv, NegShape, Lines
  <2>2. NegShape'
    BY <1>5, <2>1 DEF NegInv, NegShape, Lines, GiveUp
  <2>3. HostInv'
    BY <1>5, <2>1 DEF NegInv, NegShape, HostInv, Negotiating, Asking, Fresh, Lines, GiveUp
  <2>4. NegotiatedModeAgrees'
    BY <1>5, <2>1 DEF NegInv, NegShape, HostInv, Fresh, NegotiatedModeAgrees, GiveUp
  <2> QED
    BY <1>0, <2>2, <2>3, <2>4 DEF NegInv
<1> QED
  BY <1>1, <1>2, <1>3, <1>4, <1>5 DEF PeerStep

(* Every other step of the port leaves the handshake's lines alone while   *)
(* it lasts.                                                               *)
LEMMA HostDrivenKeepsNeg ==
  ASSUME NegInv, UNCHANGED negVars, HostDriven(pins, pins'),
         host' = host \/ ~Negotiating
  PROVE  NegInv'
<1>1. Lines \subseteq DOMAIN pins' /\ \A l \in Lines : pins'[l] = pins[l]
  BY DEF HostDriven
<1>2. host' # "idle" => ~Negotiating
  BY Zenon DEF NegInv, HostInv
<1> QED
  BY <1>1, <1>2, PortKeepsNeg DEF Lines

LEMMA NegStarts == Init => NegInv
<1> SUFFICES ASSUME Init PROVE NegInv
  OBVIOUS
<1>1. Lines \subseteq DOMAIN pins /\ pins["selectin"] = 0
  BY DEF Init, Onto, Levels, Lines
<1>2. CASE NegInit
  <2>1. /\ neg = [pc |-> "wait", writes |-> <<>>, xrv |-> NIBBLE, result |-> ""]
        /\ claimed = FALSE /\ sio = [l \in StatusLines |-> 0]
        /\ peer = [pc |-> "idle", xrv |-> NIBBLE, left |-> 0]
    BY <1>2 DEF NegInit
  <2>2. NegShape
    BY <1>1, <2>1 DEF NegShape
  <2>3. StatusInv
    BY <2>1 DEF StatusInv, Pending, StatusLines
  <2>4. HostInv
    <3>1. host = "idle"
      BY DEF Init
    <3> QED
      BY <1>1, <2>1, <3>1 DEF HostInv, Negotiating, Asking
  <2>5. NegotiatedModeAgrees
    BY <2>1 DEF NegotiatedModeAgrees
  <2> QED
    BY <2>2, <2>3, <2>4, <2>5 DEF NegInv
<1>3. CASE ~NegInit
  <2>1. /\ neg = [pc |-> "done", writes |-> <<>>, xrv |-> NIBBLE, result |-> ""]
        /\ claimed = FALSE /\ sio = [l \in StatusLines |-> 0]
        /\ peer = [pc |-> "none", xrv |-> NIBBLE, left |-> 0]
    BY <1>3 DEF Init
  <2>2. NegShape
    BY <1>1, <2>1 DEF NegShape
  <2>3. StatusInv
    BY <2>1 DEF StatusInv, Pending
  <2>4. HostInv
    BY <2>1 DEF HostInv, Negotiating
  <2>5. NegotiatedModeAgrees
    BY <2>1 DEF NegotiatedModeAgrees
  <2> QED
    BY <2>2, <2>3, <2>4, <2>5 DEF NegInv
<1> QED
  BY <1>2, <1>3

LEMMA NegStep ==
  ASSUME MuxInv, NegInv, Next PROVE NegInv'
<1>1. Lines \subseteq DOMAIN pins
  BY DEF NegInv, NegShape
<1>2. CASE RunSm0 \/ RunSm1
  <2>1. UNCHANGED negVars /\ host' = host
    BY <1>2 DEF RunSm0, RunSm1
  <2> QED
    BY <1>1, <1>2, <2>1, Sm0Keeps, Sm1Keeps, HostDrivenKeepsNeg
<1>3. CASE SendByte \/ AskForward \/ RecvFromRing \/ RecvFromFifo
  <2>1. UNCHANGED <<negVars, pins>> /\ host' = host
    BY <1>3 DEF SendByte, AskForward, RecvFromRing, RecvFromFifo, hostVars
  <2> QED
    BY <1>1, <2>1, HostDrivenKeepsNeg DEF HostDriven
<1>4. CASE HostWrites \/ HostReads
  <2>1. UNCHANGED negVars /\ ~Negotiating
    BY <1>4 DEF HostWrites, HostReads, HostIdle, Settled
  <2>2. Lines \subseteq DOMAIN pins' /\ pins'["selectin"] = pins["selectin"]
    BY <1>1, <1>4 DEF HostWrites, HostReads, Lines
  <2> QED
    BY <2>1, <2>2, PortKeepsNeg
<1>5. CASE HostEnds
  <2>1. UNCHANGED negVars /\ host # "idle"
    BY <1>5 DEF HostEnds
  <2>2. ~Negotiating
    BY <2>1, Zenon DEF NegInv, HostInv
  <2>3. Lines \subseteq DOMAIN pins' /\ pins'["selectin"] = pins["selectin"]
    BY <1>1, <1>5 DEF HostEnds, Lines
  <2> QED
    BY <2>1, <2>2, <2>3, PortKeepsNeg
<1>6. CASE \E t \in Targets : CallSwitch(t)
  <2>1. UNCHANGED <<negVars, pins>> /\ host' = host
    BY <1>6 DEF CallSwitch, hostVars
  <2> QED
    BY <1>1, <2>1, HostDrivenKeepsNeg DEF HostDriven
<1>7. CASE CompleteSwitch
  <2>1. UNCHANGED negVars /\ host' = host /\ pins' = Onto(Levels(PhyTarget(target)), pins)
    BY <1>7 DEF CompleteSwitch
  <2>2. PhyTarget(target) \in Phys
    BY PhyTargetIsPhy DEF MuxInv, MuxTypeOK
  <2> QED
    BY <1>1, <2>1, <2>2, LevelsKeep, HostDrivenKeepsNeg
<1>8. CASE Negotiation
  <2>1. (NegotiatorStep \/ PeerStep) /\ UNCHANGED host
    BY <1>8 DEF Negotiation, hostVars
  <2> QED
    BY <2>1, NegotiatorKeeps, PeerKeeps
<1> QED
  BY <1>2, <1>3, <1>4, <1>5, <1>6, <1>7, <1>8 DEF Next

(* A mode is returned by handshake only when a host that has not given up  *)
(* has read the verdict, and it is the mode that host asked for.           *)
THEOREM NegotiationAgrees == Spec => []NegotiatedModeAgrees
<1>1. Init => MuxInv /\ NegInv
  BY MuxStarts, NegStarts DEF Init
<1>2. MuxInv /\ NegInv /\ [Next]_vars => MuxInv' /\ NegInv'
  <2> SUFFICES ASSUME MuxInv, NegInv, [Next]_vars PROVE MuxInv' /\ NegInv'
    OBVIOUS
  <2>1. CASE Next
    BY <2>1, NegStep, PortMovesMux, BeginKeeps, FinishKeeps, MuxUnchanged
  <2>2. CASE UNCHANGED vars
    <3>1. UNCHANGED <<negVars, pins, muxVars>> /\ host' = host
      BY <2>2 DEF vars, hostVars
    <3>2. HostDriven(pins, pins')
      BY <3>1 DEF HostDriven, NegInv, NegShape
    <3> QED
      BY <3>1, <3>2, MuxUnchanged, HostDrivenKeepsNeg
  <2> QED
    BY <2>1, <2>2
<1>3. NegInv => NegotiatedModeAgrees
  BY DEF NegInv
<1> QED
  BY <1>1, <1>2, <1>3, PTL DEF Spec

-----------------------------------------------------------------------------
(* A byte's nibbles, the lines that carry them and the word for the two.   *)
LoNibble(b) == <<b[1], b[2], b[3], b[4]>>
HiNibble(b) == <<b[5], b[6], b[7], b[8]>>
LoLines(b)  == <<b[4], 1, b[3], b[2], b[1]>>
HiLines(b)  == <<b[8], 0, b[7], b[6], b[5]>>
WordOf(b)   == <<b[4], 1, b[3], b[2], b[1], b[8], 0, b[7], b[6], b[5]>>

LEMMA ByteIsSeq ==
  ASSUME NEW b \in Byte
  PROVE  /\ b \in Seq({0, 1}) /\ Len(b) = 8
         /\ b[1] \in {0, 1} /\ b[2] \in {0, 1} /\ b[3] \in {0, 1} /\ b[4] \in {0, 1}
         /\ b[5] \in {0, 1} /\ b[6] \in {0, 1} /\ b[7] \in {0, 1} /\ b[8] \in {0, 1}
<1>1. b \in [1 .. 8 -> {0, 1}] /\ 8 \in Nat
  BY DEF Byte
<1>2. b = [i \in 1 .. 8 |-> b[i]] /\ \A i \in 1 .. 8 : b[i] \in {0, 1}
  BY <1>1
<1>3. [i \in 1 .. 8 |-> b[i]] \in Seq({0, 1}) /\ Len([i \in 1 .. 8 |-> b[i]]) = 8
  BY <1>2
<1> QED
  BY <1>2, <1>3

LEMMA Shapes ==
  ASSUME NEW b \in Byte
  PROVE  /\ LoNibble(b) \in Seq({0, 1}) /\ Len(LoNibble(b)) = 4
         /\ HiNibble(b) \in Seq({0, 1}) /\ Len(HiNibble(b)) = 4
         /\ LoLines(b) \in Seq({0, 1}) /\ Len(LoLines(b)) = 5
         /\ HiLines(b) \in Seq({0, 1}) /\ Len(HiLines(b)) = 5
         /\ WordOf(b) \in Seq({0, 1}) /\ Len(WordOf(b)) = 10
  BY ByteIsSeq DEF LoNibble, HiNibble, LoLines, HiLines, WordOf

LEMMA Halves ==
  ASSUME NEW b \in Byte
  PROVE  /\ SubSeq(b, 1, 4) = LoNibble(b) /\ SubSeq(b, 5, 8) = HiNibble(b)
         /\ LoNibble(b) \o HiNibble(b) = b
<1>1. SubSeq(b, 1, 4) = LoNibble(b)
  <2>1. /\ SubSeq(b, 1, 4) \in Seq({0, 1}) /\ Len(SubSeq(b, 1, 4)) = 4
        /\ \A i \in 1 .. 4 : SubSeq(b, 1, 4)[i] = b[i]
    BY SubSeqProperties DEF Byte
  <2>2. \A i \in 1 .. 4 : LoNibble(b)[i] = b[i]
    BY DEF LoNibble
  <2> QED
    BY <2>1, <2>2, Shapes, SeqEqual
<1>2. SubSeq(b, 5, 8) = HiNibble(b)
  <2>1. /\ SubSeq(b, 5, 8) \in Seq({0, 1}) /\ Len(SubSeq(b, 5, 8)) = 4
        /\ \A i \in 1 .. 4 : SubSeq(b, 5, 8)[i] = b[4 + i]
    BY SubSeqProperties DEF Byte
  <2>2. \A i \in 1 .. 4 : HiNibble(b)[i] = b[4 + i]
    BY DEF HiNibble
  <2> QED
    BY <2>1, <2>2, Shapes, SeqEqual
<1>3. LoNibble(b) \o HiNibble(b) = b
  <2> DEFINE c == LoNibble(b) \o HiNibble(b)
  <2>1. /\ c \in Seq({0, 1}) /\ Len(c) = 8
        /\ \A i \in 1 .. 8 : c[i] = IF i <= 4 THEN LoNibble(b)[i] ELSE HiNibble(b)[i - 4]
    <3>1. LoNibble(b) \in Seq({0, 1}) /\ HiNibble(b) \in Seq({0, 1})
      BY Shapes
    <3>2. Len(LoNibble(b)) = 4 /\ Len(HiNibble(b)) = 4
      BY Shapes
    <3>3. /\ c \in Seq({0, 1}) /\ Len(c) = Len(LoNibble(b)) + Len(HiNibble(b))
          /\ \A i \in 1 .. Len(LoNibble(b)) + Len(HiNibble(b)) :
               c[i] = IF i <= Len(LoNibble(b)) THEN LoNibble(b)[i]
                      ELSE HiNibble(b)[i - Len(LoNibble(b))]
      BY <3>1, ConcatProperties
    <3> HIDE DEF c
    <3> QED
      BY <3>2, <3>3
  <2>2. \A i \in 1 .. 8 : i <= 4 => LoNibble(b)[i] = b[i]
    BY DEF LoNibble
  <2>3. \A i \in 1 .. 8 : ~(i <= 4) => HiNibble(b)[i - 4] = b[i]
    <3>1. \A i \in 1 .. 4 : HiNibble(b)[i] = b[i + 4]
      BY DEF HiNibble
    <3>2. ASSUME NEW i \in 1 .. 8, ~(i <= 4) PROVE i - 4 \in 1 .. 4 /\ (i - 4) + 4 = i
      BY <3>2
    <3> QED
      BY <3>1, <3>2
  <2> HIDE DEF c
  <2>4. \A i \in 1 .. 8 : c[i] = b[i]
    BY <2>1, <2>2, <2>3
  <2>5. c = b
    BY <2>1, <2>4, ByteIsSeq, SeqEqual
  <2> QED
    BY <2>5 DEF c
<1> QED
  BY <1>1, <1>2, <1>3

LEMMA Packing ==
  ASSUME NEW b \in Byte
  PROVE  PackByte(b) = WordOf(b)
<1>1. PackNibble(LoNibble(b), 1) = LoLines(b) /\ PackNibble(HiNibble(b), 0) = HiLines(b)
  BY DEF PackNibble, LoNibble, HiNibble, LoLines, HiLines
<1>2. PackByte(b) = LoLines(b) \o HiLines(b)
  BY <1>1, Halves DEF PackByte
<1> DEFINE c == LoLines(b) \o HiLines(b)
<1>3. /\ c \in Seq({0, 1}) /\ Len(c) = 10
      /\ \A i \in 1 .. 10 : c[i] = IF i <= 5 THEN LoLines(b)[i] ELSE HiLines(b)[i - 5]
  <2>1. LoLines(b) \in Seq({0, 1}) /\ HiLines(b) \in Seq({0, 1})
    BY Shapes
  <2>2. Len(LoLines(b)) = 5 /\ Len(HiLines(b)) = 5
    BY Shapes
  <2>3. /\ c \in Seq({0, 1}) /\ Len(c) = Len(LoLines(b)) + Len(HiLines(b))
        /\ \A i \in 1 .. Len(LoLines(b)) + Len(HiLines(b)) :
             c[i] = IF i <= Len(LoLines(b)) THEN LoLines(b)[i]
                    ELSE HiLines(b)[i - Len(LoLines(b))]
    BY <2>1, ConcatProperties
  <2> HIDE DEF c
  <2> QED
    BY <2>2, <2>3
<1>4. \A i \in 1 .. 10 : i <= 5 => LoLines(b)[i] = WordOf(b)[i]
  BY DEF LoLines, WordOf
<1>5. \A i \in 1 .. 10 : ~(i <= 5) => HiLines(b)[i - 5] = WordOf(b)[i]
  <2>1. \A i \in 1 .. 5 : HiLines(b)[i] = WordOf(b)[i + 5]
    BY DEF HiLines, WordOf
  <2>2. ASSUME NEW i \in 1 .. 10, ~(i <= 5) PROVE i - 5 \in 1 .. 5 /\ (i - 5) + 5 = i
    BY <2>2
  <2> QED
    BY <2>1, <2>2
<1> HIDE DEF c
<1>6. \A i \in 1 .. 10 : c[i] = WordOf(b)[i]
  BY <1>3, <1>4, <1>5
<1>7. c = WordOf(b)
  <2>1. WordOf(b) \in Seq({0, 1}) /\ Len(WordOf(b)) = 10
    BY Shapes
  <2> QED
    BY <1>3, <1>6, <2>1, SeqEqual
<1> QED
  BY <1>2, <1>7 DEF c

LEMMA Nibbles ==
  ASSUME NEW b \in Byte
  PROVE  /\ Taken(WordOf(b), 5) = LoLines(b)
         /\ SubSeq(WordOf(b), 6, 10) = HiLines(b)
         /\ Taken(HiLines(b), 5) = HiLines(b)
<1>1. Taken(WordOf(b), 5) = LoLines(b)
  <2>1. \A i \in 1 .. 5 : WordOf(b)[i] = LoLines(b)[i]
    BY DEF WordOf, LoLines
  <2>2. Taken(WordOf(b), 5) = [k \in 1 .. 5 |-> WordOf(b)[k]]
    BY Shapes DEF Taken
  <2>3. LoLines(b) \in [1 .. 5 -> {0, 1}]
    BY Shapes, LenProperties
  <2> QED
    BY <2>1, <2>2, <2>3
<1>2. SubSeq(WordOf(b), 6, 10) = HiLines(b)
  <2> DEFINE w == WordOf(b)
  <2>0. \A i \in 6 .. 10 : w[i] \in {0, 1}
    BY Shapes, ElementOfSeq
  <2>1. /\ SubSeq(w, 6, 10) \in Seq({0, 1}) /\ Len(SubSeq(w, 6, 10)) = 5
        /\ \A i \in 1 .. 5 : SubSeq(w, 6, 10)[i] = w[5 + i]
    <3> HIDE DEF w
    <3> QED
      BY <2>0, SubSeqProperties
  <2>2. \A i \in 1 .. 5 : HiLines(b)[i] = w[5 + i]
    BY DEF HiLines, WordOf
  <2> QED
    BY <2>1, <2>2, Shapes, SeqEqual
<1>3. Taken(HiLines(b), 5) = HiLines(b)
  <2>1. Taken(HiLines(b), 5) = [k \in 1 .. 5 |-> HiLines(b)[k]]
    BY Shapes DEF Taken
  <2>2. HiLines(b) \in [1 .. 5 -> {0, 1}]
    BY Shapes, LenProperties
  <2> QED
    BY <2>1, <2>2
<1> QED
  BY <1>1, <1>2, <1>3

LEMMA Reading ==
  ASSUME NEW b \in Byte
  PROVE  /\ PhaseOf(LoLines(b)) = 1 /\ NibbleOf(LoLines(b)) = LoNibble(b)
         /\ PhaseOf(HiLines(b)) = 0 /\ NibbleOf(HiLines(b)) = HiNibble(b)
         /\ LoNibble(b) # <<>>
  BY DEF PhaseOf, NibbleOf, LoLines, HiLines, LoNibble, HiNibble

-----------------------------------------------------------------------------
(* nibble_out, one cycle at each place of the program.                     *)

LEMMA NibbleProgram ==
  /\ Len(NibbleOut) = 5
  /\ NibbleOut[1] = Pull
  /\ NibbleOut[2] = Out("pins", 5) /\ NibbleOut[3] = Nop(9)
  /\ NibbleOut[4] = Out("pins", 5) /\ NibbleOut[5] = Nop(9)
  BY DEF NibbleOut

LEMMA NibbleConfig == NibbleOutConfig.prog = NibbleOut /\ NibbleOutConfig.out = "status"
  BY DEF NibbleOutConfig, Config

(* What a state machine is, as far as EXCEPT has to know.                  *)
Machine(m) ==
    m = [f \in {"pc", "delay", "x", "y", "osr", "isr", "tx", "rx"} |-> m[f]]

Becomes(m, pc, delay, osr, tx) ==
    Machine(m) /\ m.pc = pc /\ m.delay = delay /\ m.osr = osr /\ m.tx = tx

(* The levels nibble_out drives on the status lines.                       *)
Shows(p, lines) == "status" \in DOMAIN p /\ p["status"] = lines

LEMMA OntoStatus ==
  ASSUME NEW p, "status" \in DOMAIN p
  PROVE  /\ \A v : Shows(Onto(Pin("status", v), Onto(<<>>, p)), v)
         /\ Shows(Onto(<<>>, Onto(<<>>, p)), p["status"])
         /\ Shows(Onto(<<>>, p), p["status"])
<1>1. DOMAIN Onto(<<>>, p) = DOMAIN p /\ \A l \in DOMAIN p : Onto(<<>>, p)[l] = p[l]
  BY DEF Onto
<1> QED
  BY <1>1 DEF Onto, Pin, Shows

LEMMA NibbleRuns ==
  ASSUME NEW m, m.delay = 0, m.pc \in 1 .. 5, ~(m.pc = 1 /\ m.tx = <<>>), NEW p,
         NEW i, i = NibbleOut[m.pc],
         NEW r, r = Registers(NibbleOutConfig, i, m, p), Machine(r),
         NEW next, next = IF m.pc = 5 THEN 1 ELSE m.pc + 1
  PROVE  /\ Becomes(Cycle(NibbleOutConfig, m, p).sm, next, i.delay, r.osr, r.tx)
         /\ Cycle(NibbleOutConfig, m, p).pins = Onto(Driven(NibbleOutConfig, i, m, p), Onto(<<>>, p))
<1>1. Instruction(NibbleOutConfig, m) = i /\ Len(NibbleOutConfig.prog) = 5
  BY NibbleProgram, NibbleConfig DEF Instruction
<1>2. i.op \notin {"wait", "push", "in", "jmp"} /\ (i.op = "pull" => m.pc = 1)
  BY NibbleProgram DEF Pull, Out, Nop
<1>3. ~Stalled(NibbleOutConfig, m, p) /\ ~Jumps(i, m)
  BY <1>1, <1>2 DEF Stalled, Jumps
<1>4. Sided(NibbleOutConfig, i) = <<>>
  BY NibbleProgram DEF Sided, Pull, Out, Nop
<1>5. Cycle(NibbleOutConfig, m, p) =
        [sm |-> [r EXCEPT !.pc = next, !.delay = i.delay],
         pins |-> Onto(Driven(NibbleOutConfig, i, m, p), Onto(<<>>, p))]
  BY <1>1, <1>3, <1>4 DEF Cycle
<1>6. ASSUME NEW n, n = [r EXCEPT !.pc = next, !.delay = i.delay]
      PROVE  Becomes(n, next, i.delay, r.osr, r.tx)
  BY <1>6 DEF Becomes, Machine
<1> QED
  BY <1>5, <1>6

LEMMA NibbleCycle ==
  ASSUME NEW m, Machine(m), m.delay \in Nat, NEW p, "status" \in DOMAIN p,
         NEW c, c = Cycle(NibbleOutConfig, m, p)
  PROVE  /\ m.delay > 0 =>
              Becomes(c.sm, m.pc, m.delay - 1, m.osr, m.tx) /\ Shows(c.pins, p["status"])
         /\ m.delay = 0 =>
              /\ m.pc = 1 /\ m.tx = <<>> => c.sm = m /\ Shows(c.pins, p["status"])
              /\ m.pc = 1 /\ m.tx # <<>> =>
                   Becomes(c.sm, 2, 0, Head(m.tx), Tail(m.tx)) /\ Shows(c.pins, p["status"])
              /\ m.pc \in {2, 4} =>
                   /\ Becomes(c.sm, m.pc + 1, 0, SubSeq(m.osr, 6, Len(m.osr)), m.tx)
                   /\ Shows(c.pins, Taken(m.osr, 5))
              /\ m.pc \in {3, 5} =>
                   /\ Becomes(c.sm, IF m.pc = 5 THEN 1 ELSE 4, 9, m.osr, m.tx)
                   /\ Shows(c.pins, p["status"])
<1> DEFINE i == NibbleOut[m.pc]
           r == Registers(NibbleOutConfig, i, m, p)
           next == IF m.pc = 5 THEN 1 ELSE m.pc + 1
           driven == Driven(NibbleOutConfig, i, m, p)
<1>1. /\ i = NibbleOut[m.pc] /\ r = Registers(NibbleOutConfig, i, m, p)
      /\ next = IF m.pc = 5 THEN 1 ELSE m.pc + 1
      /\ driven = Driven(NibbleOutConfig, i, m, p)
  OBVIOUS
<1>2. m.delay = 0 /\ m.pc \in 1 .. 5 /\ ~(m.pc = 1 /\ m.tx = <<>>) /\ Machine(r)
      => Becomes(c.sm, next, i.delay, r.osr, r.tx) /\ c.pins = Onto(driven, Onto(<<>>, p))
  BY NibbleRuns
<1> HIDE DEF i, r, next, driven
<1>3. m.delay > 0 =>
        Becomes(c.sm, m.pc, m.delay - 1, m.osr, m.tx) /\ Shows(c.pins, p["status"])
  <2>1. ASSUME NEW n, n = [m EXCEPT !.delay = m.delay - 1]
        PROVE  Becomes(n, m.pc, m.delay - 1, m.osr, m.tx)
    BY <2>1 DEF Becomes, Machine
  <2>2. m.delay > 0 => c.sm = [m EXCEPT !.delay = m.delay - 1] /\ c.pins = p
    BY DEF Cycle, Machine
  <2> QED
    BY <2>1, <2>2 DEF Shows
<1>4. m.delay = 0 /\ m.pc = 1 /\ m.tx = <<>> => c.sm = m /\ Shows(c.pins, p["status"])
  <2> SUFFICES ASSUME m.delay = 0, m.pc = 1, m.tx = <<>>
               PROVE  c.sm = m /\ c.pins = Onto(<<>>, p)
    BY OntoStatus
  <2>1. Instruction(NibbleOutConfig, m) = Pull
    BY NibbleProgram, NibbleConfig DEF Instruction
  <2>2. Stalled(NibbleOutConfig, m, p)
    BY <2>1 DEF Stalled, Pull
  <2>3. Sided(NibbleOutConfig, Pull) = <<>>
    BY DEF Sided, Pull
  <2> QED
    BY <2>1, <2>2, <2>3 DEF Cycle
<1>5. ASSUME m.delay = 0, m.pc = 1, m.tx # <<>>
      PROVE  Becomes(c.sm, 2, 0, Head(m.tx), Tail(m.tx)) /\ Shows(c.pins, p["status"])
  <2>1. i = Pull
    BY <1>5, <1>1, NibbleProgram
  <2>2. next = (2) /\ i.delay = 0
    BY <1>5, <1>1, <2>1 DEF Pull
  <2>3. Machine(r) /\ r.osr = Head(m.tx) /\ r.tx = Tail(m.tx)
    <3>1. r = [m EXCEPT !.osr = Head(m.tx), !.tx = Tail(@)]
      BY <1>1, <2>1 DEF Registers, Pull
    <3> QED
      BY <3>1 DEF Machine
  <2>4. driven = <<>>
    BY <1>1, <2>1 DEF Driven, Pull
  <2> QED
    BY <1>5, <1>2, <2>2, <2>3, <2>4, OntoStatus
<1>6. ASSUME m.delay = 0, m.pc \in {2, 4}
      PROVE  /\ Becomes(c.sm, m.pc + 1, 0, SubSeq(m.osr, 6, Len(m.osr)), m.tx)
             /\ Shows(c.pins, Taken(m.osr, 5))
  <2>1. i = Out("pins", 5)
    BY <1>6, <1>1, NibbleProgram
  <2>2. next = m.pc + 1 /\ i.delay = 0
    BY <1>6, <1>1, <2>1 DEF Out
  <2>3. Machine(r) /\ r.osr = SubSeq(m.osr, 6, Len(m.osr)) /\ r.tx = m.tx
    <3>1. r = [m EXCEPT !.x = IF i.to = "x" THEN Taken(m.osr, i.n) ELSE @,
                        !.osr = SubSeq(@, i.n + 1, Len(@))]
      BY <1>1, <2>1 DEF Registers, Out
    <3>2. i.n + 1 = 6
      BY <2>1 DEF Out
    <3> QED
      BY <3>1, <3>2 DEF Machine
  <2>4. driven = Pin("status", Taken(m.osr, 5))
    BY <1>1, <2>1, NibbleConfig DEF Driven, Out
  <2> QED
    BY <1>6, <1>2, <2>2, <2>3, <2>4, OntoStatus
<1>7. ASSUME m.delay = 0, m.pc \in {3, 5}
      PROVE  /\ Becomes(c.sm, IF m.pc = 5 THEN 1 ELSE 4, 9, m.osr, m.tx)
             /\ Shows(c.pins, p["status"])
  <2>1. i = Nop(9)
    BY <1>7, <1>1, NibbleProgram
  <2>2. next = (IF m.pc = 5 THEN 1 ELSE 4) /\ i.delay = 9
    BY <1>7, <1>1, <2>1 DEF Nop
  <2>3. Machine(r) /\ r.osr = m.osr /\ r.tx = m.tx
    BY <1>1, <2>1 DEF Registers, Nop, Machine
  <2>4. driven = <<>>
    BY <1>1, <2>1 DEF Driven, Nop
  <2> QED
    BY <1>7, <1>2, <2>2, <2>3, <2>4, OntoStatus
<1> QED
  BY <1>3, <1>4, <1>5, <1>6, <1>7

(* The same for an instruction run with as much of the delay behind it as  *)
(* there is time for.                                                      *)
LEMMA WholeIs ==
  ASSUME NEW c, NEW n, NEW q, c = [sm |-> n, pins |-> q],
         NEW pc, NEW delay \in Nat, NEW osr, NEW tx, Becomes(n, pc, delay, osr, tx), NEW left \in Nat
  PROVE  /\ Becomes(Whole(c, left).sm, pc, IF delay < left THEN 0 ELSE delay - left + 1, osr, tx)
         /\ Whole(c, left).pins = q
<1> DEFINE d == IF delay < left THEN 0 ELSE delay - left + 1
<1>1. ASSUME NEW k, k = [n EXCEPT !.delay = d] PROVE Becomes(k, pc, d, osr, tx)
  BY <1>1 DEF Becomes, Machine
<1>2. n.delay = delay
  BY DEF Becomes
<1>3. c.sm = n /\ c.pins = q
  OBVIOUS
<1>4. Whole(c, left) = [c EXCEPT !.sm = [n EXCEPT !.delay = d]]
  BY <1>2, <1>3 DEF Whole
<1>5. Whole(c, left).sm = [n EXCEPT !.delay = d] /\ Whole(c, left).pins = q
  BY <1>4
<1> QED
  BY <1>1, <1>5

After(delay, left) == IF delay < left THEN 0 ELSE delay - left + 1

LEMMA NibbleWhole ==
  ASSUME NEW m, Machine(m), m.delay = 0, m.pc \in 1 .. 5, NEW p, "status" \in DOMAIN p,
         NEW left \in Nat \ {0},
         NEW c, c = Cycle(NibbleOutConfig, m, p), NEW w, w = Whole(c, left)
  PROVE  /\ w.pins = c.pins
         /\ m.pc = 1 /\ m.tx = <<>> =>
              /\ c.sm.delay = 0
              /\ Becomes(w.sm, 1, 0, m.osr, m.tx) /\ Shows(w.pins, p["status"])
         /\ m.pc = 1 /\ m.tx # <<>> =>
              /\ c.sm.delay = 0
              /\ Becomes(w.sm, 2, 0, Head(m.tx), Tail(m.tx)) /\ Shows(w.pins, p["status"])
         /\ m.pc \in {2, 4} =>
              /\ c.sm.delay = 0
              /\ Becomes(w.sm, m.pc + 1, 0, SubSeq(m.osr, 6, Len(m.osr)), m.tx)
              /\ Shows(w.pins, Taken(m.osr, 5))
         /\ m.pc \in {3, 5} =>
              /\ c.sm.delay = 9
              /\ Becomes(w.sm, IF m.pc = 5 THEN 1 ELSE 4, After(9, left), m.osr, m.tx)
              /\ Shows(w.pins, p["status"])
<1>0. c = [sm |-> c.sm, pins |-> c.pins]
  BY DEF Cycle
<1>1. ASSUME NEW pc, NEW delay \in Nat, NEW osr, NEW tx, Becomes(c.sm, pc, delay, osr, tx)
      PROVE  c.sm.delay = delay /\ Becomes(w.sm, pc, After(delay, left), osr, tx)
  BY <1>0, <1>1, WholeIs DEF After, Becomes
<1>2. w.pins = c.pins
  BY <1>0 DEF Whole
<1>3. After(0, left) = 0
  BY DEF After
<1>4. 0 \in Nat /\ 9 \in Nat
  OBVIOUS
<1>5. ASSUME m.pc = 1, m.tx = <<>>
      PROVE  Becomes(c.sm, 1, 0, m.osr, m.tx) /\ Shows(c.pins, p["status"])
  BY <1>5, NibbleCycle DEF Becomes
<1>6. ASSUME m.pc = 1, m.tx # <<>>
      PROVE  Becomes(c.sm, 2, 0, Head(m.tx), Tail(m.tx)) /\ Shows(c.pins, p["status"])
  BY <1>6, NibbleCycle
<1>7. ASSUME m.pc \in {2, 4}
      PROVE  /\ Becomes(c.sm, m.pc + 1, 0, SubSeq(m.osr, 6, Len(m.osr)), m.tx)
             /\ Shows(c.pins, Taken(m.osr, 5))
  BY <1>7, NibbleCycle
<1>8. ASSUME m.pc \in {3, 5}
      PROVE  /\ Becomes(c.sm, IF m.pc = 5 THEN 1 ELSE 4, 9, m.osr, m.tx)
             /\ Shows(c.pins, p["status"])
  BY <1>8, NibbleCycle
<1>9. m.pc = 1 /\ m.tx = <<>> =>
        /\ c.sm.delay = 0
        /\ Becomes(w.sm, 1, 0, m.osr, m.tx) /\ Shows(w.pins, p["status"])
  BY <1>1, <1>2, <1>3, <1>4, <1>5
<1>10. m.pc = 1 /\ m.tx # <<>> =>
        /\ c.sm.delay = 0
        /\ Becomes(w.sm, 2, 0, Head(m.tx), Tail(m.tx)) /\ Shows(w.pins, p["status"])
  BY <1>1, <1>2, <1>3, <1>4, <1>6
<1>11. m.pc \in {2, 4} =>
        /\ c.sm.delay = 0
        /\ Becomes(w.sm, m.pc + 1, 0, SubSeq(m.osr, 6, Len(m.osr)), m.tx)
        /\ Shows(w.pins, Taken(m.osr, 5))
  BY <1>1, <1>2, <1>3, <1>4, <1>7
<1>12. m.pc \in {3, 5} =>
        /\ c.sm.delay = 9
        /\ Becomes(w.sm, IF m.pc = 5 THEN 1 ELSE 4, After(9, left), m.osr, m.tx)
        /\ Shows(w.pins, p["status"])
  BY <1>1, <1>2, <1>4, <1>8
<1> QED
  BY <1>2, <1>9, <1>10, <1>11, <1>12

-----------------------------------------------------------------------------
(* The bytes given to send_byte, v, are those the host has, the one on its *)
(* way (held) and those in the FIFO, in this order.                        *)
Flow(bytes, held, tx, v) ==
    /\ bytes \in Seq(Byte) /\ held \in {0, 1} /\ tx \in Seq(Seq({0, 1})) /\ v \in Seq(Byte)
    /\ Len(v) = Len(bytes) + held + Len(tx)
    /\ \A k \in 1 .. Len(bytes) : bytes[k] = v[k]
    /\ \A k \in 1 .. Len(tx) : tx[k] = WordOf(v[Len(bytes) + held + k])

LEMMA FlowLens ==
  ASSUME NEW bytes, NEW held, NEW tx, NEW v, Flow(bytes, held, tx, v)
  PROVE  Len(bytes) \in Nat /\ held \in Nat /\ Len(tx) \in Nat /\ Len(v) \in Nat
  BY LenProperties DEF Flow

LEMMA FlowPull ==
  ASSUME NEW bytes, NEW tx, NEW v, Flow(bytes, 0, tx, v), tx # <<>>
  PROVE  Flow(bytes, 1, Tail(tx), v) /\ Head(tx) = WordOf(v[Len(bytes) + 1])
<1> DEFINE n == Len(bytes)
<1>1. n \in Nat /\ Len(tx) \in Nat
  BY FlowLens
<1>2. Len(tx) >= 1 /\ Head(tx) = tx[1]
  BY <1>1, EmptySeq DEF Flow
<1>3. /\ Tail(tx) \in Seq(Seq({0, 1})) /\ Len(Tail(tx)) = Len(tx) - 1
      /\ \A k \in 1 .. Len(Tail(tx)) : Tail(tx)[k] = tx[k + 1]
  BY HeadTailProperties DEF Flow
<1>4. \A k \in 1 .. Len(tx) : tx[k] = WordOf(v[(n + 0) + k])
  BY DEF Flow
<1>5. Len(v) = (n + 0) + Len(tx)
  BY DEF Flow
<1>6. bytes \in Seq(Byte) /\ v \in Seq(Byte) /\ \A k \in 1 .. Len(bytes) : bytes[k] = v[k]
  BY DEF Flow
<1> HIDE DEF n
<1>7. Head(tx) = WordOf(v[n + 1])
  <2>1. (n + 0) + 1 = n + 1 /\ 1 \in 1 .. Len(tx)
    BY <1>1, <1>2
  <2>2. tx[1] = WordOf(v[(n + 0) + 1])
    BY <1>4, <2>1
  <2> QED
    BY <1>2, <2>1, <2>2
<1>8. \A k \in 1 .. Len(Tail(tx)) : Tail(tx)[k] = WordOf(v[(n + 1) + k])
  <2> SUFFICES ASSUME NEW k \in 1 .. Len(Tail(tx)) PROVE Tail(tx)[k] = WordOf(v[(n + 1) + k])
    OBVIOUS
  <2>1. k + 1 \in 1 .. Len(tx) /\ (n + 0) + (k + 1) = (n + 1) + k
    BY <1>1, <1>3
  <2>2. tx[k + 1] = WordOf(v[(n + 0) + (k + 1)])
    BY <1>4, <2>1
  <2> QED
    BY <1>3, <2>1, <2>2
<1>9. Len(v) = (n + 1) + Len(Tail(tx))
  BY <1>1, <1>3, <1>5
<1> QED
  BY <1>3, <1>6, <1>7, <1>8, <1>9 DEF n, Flow

LEMMA FlowTake ==
  ASSUME NEW bytes, NEW tx, NEW v, Flow(bytes, 1, tx, v), NEW b, b = v[Len(bytes) + 1]
  PROVE  b \in Byte /\ Flow(Append(bytes, b), 0, tx, v)
<1> DEFINE n == Len(bytes)
           c == Append(bytes, b)
<1>1. n \in Nat /\ Len(tx) \in Nat /\ Len(v) = (n + 1) + Len(tx)
  BY FlowLens DEF Flow
<1>2. b \in Byte
  BY <1>1, ElementOfSeq DEF Flow
<1>3. /\ c \in Seq(Byte) /\ Len(c) = n + 1
      /\ \A k \in 1 .. n : c[k] = bytes[k]
      /\ c[n + 1] = b
  BY <1>2, AppendProperties DEF Flow
<1>4. \A k \in 1 .. n : bytes[k] = v[k]
  BY DEF Flow
<1>5. \A k \in 1 .. Len(tx) : tx[k] = WordOf(v[(n + 1) + k])
  BY DEF Flow
<1>6. tx \in Seq(Seq({0, 1})) /\ v \in Seq(Byte)
  BY DEF Flow
<1>7. b = v[n + 1]
  OBVIOUS
<1> HIDE DEF n, c
<1>8. \A k \in 1 .. Len(c) : c[k] = v[k]
  <2>1. \A k \in 1 .. Len(c) : k \in 1 .. n \/ k = n + 1
    BY <1>1, <1>3
  <2> QED
    BY <1>3, <1>4, <1>7, <2>1
<1>9. \A k \in 1 .. Len(tx) : tx[k] = WordOf(v[(Len(c) + 0) + k])
  <2>1. Len(c) + 0 = n + 1
    BY <1>1, <1>3
  <2> QED
    BY <1>5, <2>1
<1>10. Len(v) = (Len(c) + 0) + Len(tx)
  BY <1>1, <1>3
<1>11. Flow(c, 0, tx, v)
  BY <1>3, <1>6, <1>8, <1>9, <1>10 DEF Flow
<1> QED
  BY <1>2, <1>11 DEF c

LEMMA FlowSend ==
  ASSUME NEW bytes, NEW held, NEW tx, NEW v, Flow(bytes, held, tx, v), NEW b \in Byte
  PROVE  /\ Flow(bytes, held, Append(tx, WordOf(b)), Append(v, b))
         /\ held = 1 => Append(v, b)[Len(bytes) + 1] = v[Len(bytes) + 1]
         /\ Len(Append(tx, WordOf(b))) = Len(tx) + 1
<1> DEFINE n == Len(bytes)
           t == Append(tx, WordOf(b))
           w == Append(v, b)
<1>1. /\ n \in Nat /\ held \in Nat /\ Len(tx) \in Nat /\ Len(v) \in Nat
      /\ Len(v) = (n + held) + Len(tx)
  BY FlowLens DEF Flow
<1>2. WordOf(b) \in Seq({0, 1})
  BY Shapes
<1>3. /\ t \in Seq(Seq({0, 1})) /\ Len(t) = Len(tx) + 1
      /\ \A k \in 1 .. Len(tx) : t[k] = tx[k]
      /\ t[Len(tx) + 1] = WordOf(b)
  BY <1>2, AppendProperties DEF Flow
<1>4. /\ w \in Seq(Byte) /\ Len(w) = Len(v) + 1
      /\ \A k \in 1 .. Len(v) : w[k] = v[k]
      /\ w[Len(v) + 1] = b
  BY AppendProperties DEF Flow
<1>5. /\ \A k \in 1 .. n : bytes[k] = v[k]
      /\ \A k \in 1 .. Len(tx) : tx[k] = WordOf(v[(n + held) + k])
  BY DEF Flow
<1>6. bytes \in Seq(Byte) /\ held \in {0, 1}
  BY DEF Flow
<1> HIDE DEF n, t, w
<1>7. \A k \in 1 .. n : bytes[k] = w[k]
  <2>1. \A k \in 1 .. n : k \in 1 .. Len(v)
    BY <1>1
  <2> QED
    BY <1>4, <1>5, <2>1
<1>8. \A k \in 1 .. Len(t) : t[k] = WordOf(w[(n + held) + k])
  <2> SUFFICES ASSUME NEW k \in 1 .. Len(t) PROVE t[k] = WordOf(w[(n + held) + k])
    OBVIOUS
  <2>1. CASE k \in 1 .. Len(tx)
    <3>1. (n + held) + k \in 1 .. Len(v)
      BY <1>1, <2>1
    <3> QED
      BY <1>3, <1>4, <1>5, <2>1, <3>1
  <2>2. CASE k = Len(tx) + 1
    <3>1. (n + held) + k = Len(v) + 1
      BY <1>1, <2>2
    <3> QED
      BY <1>3, <1>4, <2>2, <3>1
  <2> QED
    BY <1>1, <1>3, <2>1, <2>2
<1>9. Len(w) = (n + held) + Len(t)
  BY <1>1, <1>3, <1>4
<1>10. held = 1 => w[n + 1] = v[n + 1]
  <2>1. held = 1 => n + 1 \in 1 .. Len(v)
    BY <1>1
  <2> QED
    BY <1>4, <2>1
<1>11. Flow(bytes, held, t, w)
  BY <1>3, <1>4, <1>6, <1>7, <1>8, <1>9 DEF n, Flow
<1> QED
  BY <1>3, <1>10, <1>11 DEF n, t, w

-----------------------------------------------------------------------------
(* At each place of the program: what is left of the word of the byte b,   *)
(* and which phase and nibble of it the host holds.                        *)
Place(pc, osr, phase, low, lines, b) ==
    /\ pc = 2 => osr = WordOf(b)
    /\ pc \in {3, 4} =>
         osr = HiLines(b) /\ phase = 1 /\ low = LoNibble(b) /\ PhaseOf(lines) = 1
    /\ pc \notin {3, 4} => phase = 0 /\ low = <<>> /\ PhaseOf(lines) = 0

Held(m) == IF m.pc \in {2, 3, 4} THEN 1 ELSE 0

Listener(h) == h \in [phase : {0, 1}, low : Seq({0, 1}), bytes : Seq(Byte)]

Stream(m, h, lines, v) ==
    /\ Machine(m) /\ m.pc \in 1 .. 5 /\ Listener(h)
    /\ Flow(h.bytes, Held(m), m.tx, v)
    /\ Place(m.pc, m.osr, h.phase, h.low, lines, v[Len(h.bytes) + 1])

(* What a host makes of the status lines.                                  *)
Listens(h, lines) ==
    IF PhaseOf(lines) = h.phase THEN h
    ELSE IF h.low = <<>>
         THEN [h EXCEPT !.phase = 1 - @, !.low = NibbleOf(lines)]
         ELSE [phase |-> 1 - h.phase, low |-> <<>>,
               bytes |-> Append(h.bytes, h.low \o NibbleOf(lines))]

LEMMA StreamCycle ==
  ASSUME NEW m, NEW h, NEW lines, NEW v, Stream(m, h, lines, v), m.delay = 0,
         NEW n, NEW now, NEW g, g = Listens(h, now), NEW d,
         /\ m.pc = 1 /\ m.tx = <<>> => Becomes(n, 1, d, m.osr, m.tx) /\ now = lines
         /\ m.pc = 1 /\ m.tx # <<>> => Becomes(n, 2, d, Head(m.tx), Tail(m.tx)) /\ now = lines
         /\ m.pc \in {2, 4} =>
              Becomes(n, m.pc + 1, d, SubSeq(m.osr, 6, Len(m.osr)), m.tx) /\ now = Taken(m.osr, 5)
         /\ m.pc \in {3, 5} =>
              Becomes(n, IF m.pc = 5 THEN 1 ELSE 4, d, m.osr, m.tx) /\ now = lines
  PROVE  Stream(n, g, now, v)
<1> DEFINE b == v[Len(h.bytes) + 1]
<1>0. /\ Machine(m) /\ m.pc \in 1 .. 5 /\ Listener(h)
      /\ Flow(h.bytes, Held(m), m.tx, v)
      /\ Place(m.pc, m.osr, h.phase, h.low, lines, b)
  BY DEF Stream
<1> HIDE DEF b
<1>1. CASE m.pc = 1 /\ m.tx = <<>>
  <2>1. Becomes(n, 1, d, m.osr, m.tx) /\ now = lines
    BY <1>1
  <2>2. g = h
    BY <1>0, <1>1, <2>1 DEF Listens, Place
  <2>3. Held(n) = Held(m) /\ n.pc = 1 /\ n.tx = m.tx /\ Machine(n)
    BY <1>1, <2>1 DEF Held, Becomes
  <2>4. Place(n.pc, n.osr, g.phase, g.low, now, b)
    BY <1>0, <1>1, <2>1, <2>2, <2>3 DEF Place
  <2> QED
    BY <1>0, <2>2, <2>3, <2>4 DEF Stream, b
<1>2. CASE m.pc = 1 /\ m.tx # <<>>
  <2>1. Becomes(n, 2, d, Head(m.tx), Tail(m.tx)) /\ now = lines
    BY <1>2
  <2>2. g = h
    BY <1>0, <1>2, <2>1 DEF Listens, Place
  <2>3. Held(m) = 0 /\ Held(n) = 1 /\ n.pc = 2 /\ n.tx = Tail(m.tx) /\ n.osr = Head(m.tx) /\ Machine(n)
    BY <1>2, <2>1 DEF Held, Becomes
  <2>4. Flow(h.bytes, 1, Tail(m.tx), v) /\ Head(m.tx) = WordOf(b)
    BY <1>0, <1>2, <2>3, FlowPull DEF b
  <2>5. Place(n.pc, n.osr, g.phase, g.low, now, b)
    BY <1>0, <1>2, <2>1, <2>2, <2>3, <2>4 DEF Place
  <2> QED
    BY <1>0, <2>2, <2>3, <2>4, <2>5 DEF Stream, b
<1>3. CASE m.pc = 2
  <2>1. Flow(h.bytes, 1, m.tx, v) /\ Held(m) = 1
    BY <1>0, <1>3 DEF Held
  <2>2. b \in Byte
    BY <2>1, FlowTake DEF b
  <2>3. m.osr = WordOf(b) /\ h.phase = 0 /\ h.low = <<>>
    BY <1>0, <1>3 DEF Place
  <2>4. Becomes(n, 3, d, SubSeq(m.osr, 6, Len(m.osr)), m.tx) /\ now = Taken(m.osr, 5)
    BY <1>3
  <2>5. n.osr = HiLines(b) /\ now = LoLines(b)
    BY <2>2, <2>3, <2>4, Nibbles, Shapes DEF Becomes
  <2>6. PhaseOf(now) = 1 /\ NibbleOf(now) = LoNibble(b)
    BY <2>2, <2>5, Reading
  <2>7. g = [h EXCEPT !.phase = 1, !.low = LoNibble(b)]
    BY <2>3, <2>6 DEF Listens
  <2>8. g.phase = 1 /\ g.low = LoNibble(b) /\ g.bytes = h.bytes /\ Listener(g)
    BY <1>0, <2>2, <2>7, Shapes DEF Listener
  <2>9. n.pc = 3 /\ n.tx = m.tx /\ Machine(n) /\ Held(n) = 1
    BY <2>4 DEF Becomes, Held
  <2>10. Place(n.pc, n.osr, g.phase, g.low, now, b)
    BY <2>5, <2>6, <2>8, <2>9 DEF Place
  <2> QED
    BY <2>1, <2>8, <2>9, <2>10 DEF Stream, b
<1>4. CASE m.pc = 4
  <2>1. Flow(h.bytes, 1, m.tx, v) /\ Held(m) = 1
    BY <1>0, <1>4 DEF Held
  <2>2. b \in Byte /\ Flow(Append(h.bytes, b), 0, m.tx, v)
    BY <2>1, FlowTake DEF b
  <2>3. m.osr = HiLines(b) /\ h.phase = 1 /\ h.low = LoNibble(b)
    BY <1>0, <1>4 DEF Place
  <2>4. Becomes(n, 5, d, SubSeq(m.osr, 6, Len(m.osr)), m.tx) /\ now = Taken(m.osr, 5)
    BY <1>4
  <2>5. now = HiLines(b)
    BY <2>2, <2>3, <2>4, Nibbles
  <2>6. PhaseOf(now) = 0 /\ NibbleOf(now) = HiNibble(b) /\ LoNibble(b) # <<>>
    BY <2>2, <2>5, Reading
  <2>7. LoNibble(b) \o HiNibble(b) = b
    BY <2>2, Halves
  <2>8. g = [phase |-> 0, low |-> <<>>, bytes |-> Append(h.bytes, b)]
    <3>1. ~(PhaseOf(now) = h.phase) /\ ~(h.low = <<>>) /\ 1 - h.phase = 0
      BY <2>3, <2>6
    <3>2. g = [phase |-> 1 - h.phase, low |-> <<>>, bytes |-> Append(h.bytes, h.low \o NibbleOf(now))]
      BY <3>1 DEF Listens
    <3> QED
      BY <2>3, <2>6, <2>7, <3>1, <3>2
  <2>9. g.phase = 0 /\ g.low = <<>> /\ g.bytes = Append(h.bytes, b) /\ Listener(g)
    <3>1. <<>> \in Seq({0, 1}) /\ Append(h.bytes, b) \in Seq(Byte)
      BY <2>2, EmptySeq DEF Flow
    <3> QED
      BY <2>8, <3>1 DEF Listener
  <2>10. n.pc = 5 /\ n.tx = m.tx /\ Machine(n) /\ Held(n) = 0
    BY <2>4 DEF Becomes, Held
  <2>11. Place(n.pc, n.osr, g.phase, g.low, now, v[Len(g.bytes) + 1])
    BY <2>6, <2>9, <2>10 DEF Place
  <2> QED
    BY <2>2, <2>9, <2>10, <2>11 DEF Stream
<1>5. CASE m.pc = 3
  <2>1. Becomes(n, 4, d, m.osr, m.tx) /\ now = lines
    BY <1>5
  <2>2. g = h
    BY <1>0, <1>5, <2>1 DEF Listens, Place
  <2>3. Held(n) = Held(m) /\ n.pc = 4 /\ n.osr = m.osr /\ n.tx = m.tx /\ Machine(n)
    BY <1>5, <2>1 DEF Held, Becomes
  <2>4. Place(n.pc, n.osr, g.phase, g.low, now, b)
    BY <1>0, <1>5, <2>1, <2>2, <2>3 DEF Place
  <2> QED
    BY <1>0, <2>2, <2>3, <2>4 DEF Stream, b
<1>6. CASE m.pc = 5
  <2>1. Becomes(n, 1, d, m.osr, m.tx) /\ now = lines
    BY <1>6
  <2>2. g = h
    BY <1>0, <1>6, <2>1 DEF Listens, Place
  <2>3. Held(n) = Held(m) /\ n.pc = 1 /\ n.tx = m.tx /\ Machine(n)
    BY <1>6, <2>1 DEF Held, Becomes
  <2>4. Place(n.pc, n.osr, g.phase, g.low, now, b)
    BY <1>0, <1>6, <2>1, <2>2, <2>3 DEF Place
  <2> QED
    BY <1>0, <2>2, <2>3, <2>4 DEF Stream, b
<1> QED
  BY <1>0, <1>1, <1>2, <1>3, <1>4, <1>5, <1>6

(* The cycles until the last byte has been on the lines for its time.      *)
Rest(pc) == CASE pc = 1 -> 0 [] pc = 2 -> 22 [] pc = 3 -> 21 [] pc = 4 -> 11 [] pc = 5 -> 10
CyclesLeft(m) == m.delay + 23 * Len(m.tx) + Rest(m.pc)

Nibbling == Running = "SppNibble" /\ ~ghosts

StreamInv ==
    Nibbling =>
      /\ "status" \in DOMAIN pins
      /\ got = heard.bytes
      /\ Stream(sm1, heard, pins["status"], rev)
      /\ sm1.delay \in 0 .. 9
      /\ sm1.delay # 0 => active = "None" /\ drain = 0
      /\ Len(sm1.tx) <= 2 * FifoDepth
      /\ active = "None" => drain \in Nat

DrainInv == active = "None" /\ Nibbling => CyclesLeft(sm1) <= drain

HostQuiet ==
    /\ host \in {"idle", "read", "write"}
    /\ host = "read" => active \notin {"SppNibble", "None"}
    /\ active = "None" => host = "idle"

(* RunSm1 with nibble_out.                                                 *)
LEMMA NibbleSm1 ==
  ASSUME StreamInv, Nibbling, RunSm1,
         NEW left, left = IF active = "None" THEN drain ELSE Forever
  PROVE  /\ left \in Nat \ {0} /\ Machine(sm1) /\ sm1.pc \in 1 .. 5 /\ sm1.delay = 0
         /\ "status" \in DOMAIN pins'
         /\ heard' = Listens(heard, pins'["status"]) /\ got' = heard'.bytes
         /\ sm1.pc = 1 /\ sm1.tx = <<>> =>
              /\ Becomes(sm1', 1, 0, sm1.osr, sm1.tx) /\ pins'["status"] = pins["status"]
              /\ active = "None" => drain' = drain - 1
         /\ sm1.pc = 1 /\ sm1.tx # <<>> =>
              /\ Becomes(sm1', 2, 0, Head(sm1.tx), Tail(sm1.tx)) /\ pins'["status"] = pins["status"]
              /\ active = "None" => drain' = drain - 1
         /\ sm1.pc \in {2, 4} =>
              /\ Becomes(sm1', sm1.pc + 1, 0, SubSeq(sm1.osr, 6, Len(sm1.osr)), sm1.tx)
              /\ pins'["status"] = Taken(sm1.osr, 5)
              /\ active = "None" => drain' = drain - 1
         /\ sm1.pc \in {3, 5} =>
              /\ Becomes(sm1', IF sm1.pc = 5 THEN 1 ELSE 4, After(9, left), sm1.osr, sm1.tx)
              /\ pins'["status"] = pins["status"]
              /\ active = "None" => drain' = drain - 1 - (9 - After(9, left))
<1> DEFINE c == Cycle(NibbleOutConfig, sm1, pins)
           w == Whole(c, left)
<1>1. Cfg.sm1 = NibbleOutConfig /\ Running = "SppNibble" /\ ~ghosts
  BY DEF Nibbling, Cfg, Configs
<1>2. /\ sm1' = w.sm /\ pins' = w.pins /\ heard' = Hears(w.pins) /\ got' = Hears(w.pins).bytes
      /\ active = "None" => drain' = drain - 1 - (c.sm.delay - w.sm.delay)
      /\ active = "None" => drain > 0
  BY <1>1 DEF RunSm1
<1>3. /\ "status" \in DOMAIN pins
      /\ Stream(sm1, heard, pins["status"], rev)
      /\ sm1.delay # 0 => active = "None" /\ drain = 0
      /\ active = "None" => drain \in Nat
  BY DEF StreamInv
<1>4. Machine(sm1) /\ sm1.pc \in 1 .. 5
  BY <1>3 DEF Stream
<1>5. sm1.delay = 0
  BY <1>2, <1>3
<1>6. left \in Nat \ {0}
  BY <1>2, <1>3 DEF Forever
<1> HIDE DEF w, c
<1>7. c = Cycle(NibbleOutConfig, sm1, pins) /\ w = Whole(c, left)
  BY DEF w, c
<1>8. /\ sm1.pc = 1 /\ sm1.tx = <<>> =>
           /\ c.sm.delay = 0
           /\ Becomes(w.sm, 1, 0, sm1.osr, sm1.tx) /\ Shows(w.pins, pins["status"])
      /\ sm1.pc = 1 /\ sm1.tx # <<>> =>
           /\ c.sm.delay = 0
           /\ Becomes(w.sm, 2, 0, Head(sm1.tx), Tail(sm1.tx)) /\ Shows(w.pins, pins["status"])
      /\ sm1.pc \in {2, 4} =>
           /\ c.sm.delay = 0
           /\ Becomes(w.sm, sm1.pc + 1, 0, SubSeq(sm1.osr, 6, Len(sm1.osr)), sm1.tx)
           /\ Shows(w.pins, Taken(sm1.osr, 5))
      /\ sm1.pc \in {3, 5} =>
           /\ c.sm.delay = 9
           /\ Becomes(w.sm, IF sm1.pc = 5 THEN 1 ELSE 4, After(9, left), sm1.osr, sm1.tx)
           /\ Shows(w.pins, pins["status"])
  BY <1>3, <1>4, <1>5, <1>6, <1>7, NibbleWhole
<1>9. heard' = Listens(heard, pins'["status"]) /\ got' = heard'.bytes
  BY <1>1, <1>2 DEF Hears, Listens
<1>10. ASSUME sm1.pc = 1, sm1.tx = <<>>
       PROVE  /\ "status" \in DOMAIN pins'
              /\ Becomes(sm1', 1, 0, sm1.osr, sm1.tx) /\ pins'["status"] = pins["status"]
              /\ active = "None" => drain' = drain - 1
  BY <1>2, <1>3, <1>8, <1>10 DEF Shows, Becomes
<1>11. ASSUME sm1.pc = 1, sm1.tx # <<>>
       PROVE  /\ "status" \in DOMAIN pins'
              /\ Becomes(sm1', 2, 0, Head(sm1.tx), Tail(sm1.tx)) /\ pins'["status"] = pins["status"]
              /\ active = "None" => drain' = drain - 1
  BY <1>2, <1>3, <1>8, <1>11 DEF Shows, Becomes
<1>12. ASSUME sm1.pc \in {2, 4}
       PROVE  /\ "status" \in DOMAIN pins'
              /\ Becomes(sm1', sm1.pc + 1, 0, SubSeq(sm1.osr, 6, Len(sm1.osr)), sm1.tx)
              /\ pins'["status"] = Taken(sm1.osr, 5)
              /\ active = "None" => drain' = drain - 1
  BY <1>2, <1>3, <1>8, <1>12 DEF Shows, Becomes
<1>13. ASSUME sm1.pc \in {3, 5}
       PROVE  /\ "status" \in DOMAIN pins'
              /\ Becomes(sm1', IF sm1.pc = 5 THEN 1 ELSE 4, After(9, left), sm1.osr, sm1.tx)
              /\ pins'["status"] = pins["status"]
              /\ active = "None" => drain' = drain - 1 - (9 - After(9, left))
  BY <1>2, <1>3, <1>8, <1>13 DEF Shows, Becomes
<1>14. "status" \in DOMAIN pins'
  BY <1>4, <1>10, <1>11, <1>12, <1>13
<1> QED
  BY <1>4, <1>5, <1>6, <1>9, <1>10, <1>11, <1>12, <1>13, <1>14

(* The cycle keeps the stream, and the wait of dismantle.                  *)
LEMMA Sm1KeepsStream ==
  ASSUME StreamInv, RunSm1 PROVE StreamInv'
<1> SUFFICES ASSUME Nibbling' PROVE StreamInv'
  BY DEF StreamInv
<1>1. UNCHANGED <<active, leaving, ghosts, rev, host>>
  BY DEF RunSm1, muxVars
<1>2. Nibbling
  BY <1>1 DEF Nibbling, Running
<1> DEFINE left == IF active = "None" THEN drain ELSE Forever
<1>3. left = IF active = "None" THEN drain ELSE Forever
  OBVIOUS
<1> HIDE DEF left
<1>4. /\ left \in Nat \ {0} /\ Machine(sm1) /\ sm1.pc \in 1 .. 5 /\ sm1.delay = 0
      /\ "status" \in DOMAIN pins'
      /\ heard' = Listens(heard, pins'["status"]) /\ got' = heard'.bytes
  BY <1>2, <1>3, NibbleSm1
<1>5. sm1.pc = 1 /\ sm1.tx = <<>> =>
        /\ Becomes(sm1', 1, 0, sm1.osr, sm1.tx) /\ pins'["status"] = pins["status"]
        /\ active = "None" => drain' = drain - 1
  BY <1>2, <1>3, NibbleSm1
<1>6. sm1.pc = 1 /\ sm1.tx # <<>> =>
        /\ Becomes(sm1', 2, 0, Head(sm1.tx), Tail(sm1.tx)) /\ pins'["status"] = pins["status"]
        /\ active = "None" => drain' = drain - 1
  BY <1>2, <1>3, NibbleSm1
<1>7. sm1.pc \in {2, 4} =>
        /\ Becomes(sm1', sm1.pc + 1, 0, SubSeq(sm1.osr, 6, Len(sm1.osr)), sm1.tx)
        /\ pins'["status"] = Taken(sm1.osr, 5)
        /\ active = "None" => drain' = drain - 1
  BY <1>2, <1>3, NibbleSm1
<1>8. sm1.pc \in {3, 5} =>
        /\ Becomes(sm1', IF sm1.pc = 5 THEN 1 ELSE 4, After(9, left), sm1.osr, sm1.tx)
        /\ pins'["status"] = pins["status"]
        /\ active = "None" => drain' = drain - 1 - (9 - After(9, left))
  BY <1>2, <1>3, NibbleSm1
<1>9. Stream(sm1, heard, pins["status"], rev) /\ Len(sm1.tx) <= 2 * FifoDepth /\ (active = "None" => drain \in Nat)
  BY <1>2 DEF StreamInv
<1>10. sm1'.delay = 0 \/ (sm1.pc \in {3, 5} /\ sm1'.delay = After(9, left))
  BY <1>4, <1>5, <1>6, <1>7, <1>8 DEF Becomes
<1>11. Stream(sm1', heard', pins'["status"], rev)
  <2>1. /\ sm1.pc = 1 /\ sm1.tx = <<>> =>
             Becomes(sm1', 1, sm1'.delay, sm1.osr, sm1.tx) /\ pins'["status"] = pins["status"]
        /\ sm1.pc = 1 /\ sm1.tx # <<>> =>
             Becomes(sm1', 2, sm1'.delay, Head(sm1.tx), Tail(sm1.tx)) /\ pins'["status"] = pins["status"]
    BY <1>5, <1>6 DEF Becomes
  <2>2. sm1.pc \in {2, 4} =>
             /\ Becomes(sm1', sm1.pc + 1, sm1'.delay, SubSeq(sm1.osr, 6, Len(sm1.osr)), sm1.tx)
             /\ pins'["status"] = Taken(sm1.osr, 5)
    BY <1>7 DEF Becomes
  <2>3. sm1.pc \in {3, 5} =>
             /\ Becomes(sm1', IF sm1.pc = 5 THEN 1 ELSE 4, sm1'.delay, sm1.osr, sm1.tx)
             /\ pins'["status"] = pins["status"]
    BY <1>8 DEF Becomes
  <2> QED
    BY <1>4, <1>9, <2>1, <2>2, <2>3, StreamCycle
<1>12. Len(sm1'.tx) <= 2 * FifoDepth
  <2>1. sm1.pc = 1 /\ sm1.tx # <<>> => Len(Tail(sm1.tx)) <= 2 * FifoDepth
    <3>1. sm1.tx \in Seq(Seq({0, 1}))
      BY <1>9 DEF Stream, Flow
    <3>2. Len(sm1.tx) \in Nat
      BY <3>1, LenProperties
    <3>3. 2 * FifoDepth \in Nat
      BY PortAssumption
    <3>4. sm1.tx # <<>> => Len(Tail(sm1.tx)) = Len(sm1.tx) - 1
      BY <3>1, HeadTailProperties
    <3> QED
      BY <1>9, <3>2, <3>3, <3>4
  <2>2. sm1'.tx = sm1.tx \/ (sm1.tx # <<>> /\ sm1.pc = 1 /\ sm1'.tx = Tail(sm1.tx))
    BY <1>4, <1>5, <1>6, <1>7, <1>8 DEF Becomes
  <2> QED
    BY <1>9, <2>1, <2>2
<1>13. sm1'.delay \in 0 .. 9 /\ (sm1'.delay # 0 => active = "None" /\ drain' = 0)
  <2>1. CASE sm1'.delay = 0
    BY <2>1
  <2>2. CASE sm1'.delay # 0
    <3>1. sm1.pc \in {3, 5} /\ sm1'.delay = After(9, left)
      BY <1>10, <2>2
    <3>2. ~(9 < left)
      BY <2>2, <3>1 DEF After
    <3>3. active = "None" /\ left = drain
      BY <1>3, <3>2 DEF Forever
    <3>4. After(9, left) = 9 - left + 1 /\ drain \in Nat
      BY <1>9, <3>2, <3>3 DEF After
    <3>5. drain' = drain - 1 - (9 - After(9, left))
      BY <1>8, <3>1, <3>3
    <3> QED
      BY <1>4, <3>1, <3>2, <3>3, <3>4, <3>5
  <2> QED
    BY <2>1, <2>2
<1>14. active = "None" => drain' \in Nat
  <2> SUFFICES ASSUME active = "None" PROVE drain' \in Nat
    OBVIOUS
  <2>1. drain \in Nat \ {0} /\ left = drain
    BY <1>3, <1>4
  <2>2. CASE sm1.pc \in {3, 5}
    <3>1. drain' = drain - 1 - (9 - After(9, drain))
      BY <1>8, <2>1, <2>2
    <3> QED
      BY <2>1, <3>1 DEF After
  <2>3. CASE sm1.pc \notin {3, 5}
    BY <1>4, <1>5, <1>6, <1>7, <2>1, <2>3
  <2> QED
    BY <2>2, <2>3
<1> QED
  BY <1>1, <1>4, <1>11, <1>12, <1>13, <1>14 DEF StreamInv

LEMMA Sm1KeepsDrain ==
  ASSUME StreamInv, DrainInv, RunSm1 PROVE DrainInv'
<1> SUFFICES ASSUME active' = "None", Nibbling' PROVE CyclesLeft(sm1') <= drain'
  BY DEF DrainInv
<1>1. UNCHANGED <<active, leaving, ghosts, rev, host>>
  BY DEF RunSm1, muxVars
<1>2. Nibbling /\ active = "None"
  BY <1>1 DEF Nibbling, Running
<1>3. /\ drain \in Nat \ {0} /\ sm1.pc \in 1 .. 5 /\ sm1.delay = 0
      /\ sm1.pc = 1 /\ sm1.tx = <<>> =>
              /\ Becomes(sm1', 1, 0, sm1.osr, sm1.tx) /\ drain' = drain - 1
      /\ sm1.pc = 1 /\ sm1.tx # <<>> =>
              /\ Becomes(sm1', 2, 0, Head(sm1.tx), Tail(sm1.tx)) /\ drain' = drain - 1
      /\ sm1.pc \in {2, 4} =>
              /\ Becomes(sm1', sm1.pc + 1, 0, SubSeq(sm1.osr, 6, Len(sm1.osr)), sm1.tx)
              /\ drain' = drain - 1
      /\ sm1.pc \in {3, 5} =>
              /\ Becomes(sm1', IF sm1.pc = 5 THEN 1 ELSE 4, After(9, drain), sm1.osr, sm1.tx)
              /\ drain' = drain - 1 - (9 - After(9, drain))
  BY <1>2, NibbleSm1
<1> DEFINE L == 23 * Len(sm1.tx)
<1>4. sm1.tx \in Seq(Seq({0, 1}))
  BY <1>2 DEF StreamInv, Stream, Flow
<1>5. Len(sm1.tx) \in Nat
  BY <1>4, LenProperties
<1>6. L \in Nat
  BY <1>5
<1>7. L + Rest(sm1.pc) <= drain
  <2>1. 0 + L + Rest(sm1.pc) <= drain
    BY <1>2, <1>3 DEF DrainInv, CyclesLeft
  <2>2. Rest(sm1.pc) \in Nat
    BY <1>3 DEF Rest
  <2> HIDE DEF L
  <2> QED
    BY <1>6, <2>1, <2>2
<1>8. sm1.tx # <<>> => 23 * Len(Tail(sm1.tx)) = L - 23
  <2>1. sm1.tx # <<>> => Len(Tail(sm1.tx)) = Len(sm1.tx) - 1
    BY <1>4, HeadTailProperties
  <2> QED
    BY <1>5, <2>1
<1> HIDE DEF L
<1>9. CASE sm1.pc = 1 /\ sm1.tx = <<>>
  <2>1. sm1'.delay = 0 /\ sm1'.pc = 1 /\ sm1'.tx = <<>> /\ drain' = drain - 1
    BY <1>3, <1>9 DEF Becomes
  <2>2. Len(sm1'.tx) = 0
    BY <2>1
  <2> QED
    BY <1>3, <2>1, <2>2 DEF CyclesLeft, Rest
<1>10. CASE sm1.pc = 1 /\ sm1.tx # <<>>
  <2>1. sm1'.delay = 0 /\ sm1'.pc = 2 /\ sm1'.tx = Tail(sm1.tx) /\ drain' = drain - 1
    BY <1>3, <1>10 DEF Becomes
  <2>2. Rest(1) = 0 /\ Rest(2) = 22
    BY DEF Rest
  <2>3. CyclesLeft(sm1') = 0 + (L - 23) + 22
    BY <1>8, <1>10, <2>1, <2>2 DEF CyclesLeft
  <2> QED
    BY <1>3, <1>6, <1>7, <1>10, <2>1, <2>2, <2>3
<1>11. CASE sm1.pc \in {2, 4}
  <2>1. sm1'.delay = 0 /\ sm1'.pc = sm1.pc + 1 /\ sm1'.tx = sm1.tx /\ drain' = drain - 1
    BY <1>3, <1>11 DEF Becomes
  <2>2. Rest(2) = 22 /\ Rest(3) = 21 /\ Rest(4) = 11 /\ Rest(5) = 10
    BY DEF Rest
  <2>3. CyclesLeft(sm1') = 0 + L + Rest(sm1.pc + 1)
    BY <2>1 DEF CyclesLeft, L
  <2>4. Rest(sm1.pc + 1) = Rest(sm1.pc) - 1
    BY <1>11, <2>2
  <2>5. Rest(sm1.pc) \in Nat
    BY <1>11, <2>2
  <2> QED
    BY <1>3, <1>6, <1>7, <2>1, <2>3, <2>4, <2>5
<1>12. CASE sm1.pc \in {3, 5}
  <2>1. sm1'.pc = (IF sm1.pc = 5 THEN 1 ELSE 4) /\ sm1'.tx = sm1.tx
        /\ sm1'.delay = After(9, drain) /\ drain' = drain - 1 - (9 - After(9, drain))
    BY <1>3, <1>12 DEF Becomes
  <2>2. Rest(3) = 21 /\ Rest(4) = 11 /\ Rest(5) = 10 /\ Rest(1) = 0
    BY DEF Rest
  <2>3. 9 < drain
    BY <1>3, <1>6, <1>7, <1>12, <2>2
  <2>4. After(9, drain) = 0
    BY <2>3 DEF After
  <2>5. CyclesLeft(sm1') = 0 + L + Rest(IF sm1.pc = 5 THEN 1 ELSE 4)
    BY <2>1, <2>4 DEF CyclesLeft, L
  <2>6. Rest(IF sm1.pc = 5 THEN 1 ELSE 4) = Rest(sm1.pc) - 10 /\ Rest(sm1.pc) \in Nat
    BY <1>12, <2>2
  <2> QED
    BY <1>3, <1>6, <1>7, <2>1, <2>4, <2>5, <2>6
<1> QED
  BY <1>3, <1>9, <1>10, <1>11, <1>12

-----------------------------------------------------------------------------
(* A program touches no line but its own.                                  *)
LEMMA CycleLeaves ==
  ASSUME NEW cfg, NEW sm, NEW p, NEW l \in DOMAIN p, l \notin {cfg.out, cfg.set, cfg.side}
  PROVE  l \in DOMAIN Cycle(cfg, sm, p).pins /\ Cycle(cfg, sm, p).pins[l] = p[l]
<1> DEFINE i == Instruction(cfg, sm)
           q == Onto(Sided(cfg, i), p)
           r == Onto(Driven(cfg, i, sm, p), q)
<1>1. l \notin DOMAIN Sided(cfg, i) /\ l \notin DOMAIN Driven(cfg, i, sm, p)
  BY DEF Sided, Driven, Pin
<1>2. l \in DOMAIN q /\ q[l] = p[l]
  BY <1>1 DEF Onto
<1>3. l \in DOMAIN r /\ r[l] = p[l]
  BY <1>1, <1>2 DEF Onto
<1>4. Cycle(cfg, sm, p).pins \in {p, q, r}
  BY DEF Cycle
<1> HIDE DEF q, r
<1> QED
  BY <1>2, <1>3, <1>4

LEMMA Sm0LeavesStatus ==
  ASSUME RunSm0, Running = "SppNibble", "status" \in DOMAIN pins
  PROVE  "status" \in DOMAIN pins' /\ pins'["status"] = pins["status"]
<1> DEFINE read == [pins EXCEPT !["d"] = DataRead]
           c == Cycle(Cfg.sm0, sm0, read)
           back == [c.pins EXCEPT !["d"] = pins["d"]]
<1>1. Cfg.sm0 = CompatInConfig /\ active # "Epp"
  BY DEF Cfg, Configs, Running
<1>2. pins' = back
  BY <1>1 DEF RunSm0, Whole, Cycle, Followed
<1>3. "status" \in DOMAIN read /\ read["status"] = pins["status"]
  OBVIOUS
<1>4. "status" \notin {CompatInConfig.out, CompatInConfig.set, CompatInConfig.side}
  BY DEF CompatInConfig, Config
<1>5. "status" \in DOMAIN c.pins /\ c.pins["status"] = read["status"]
  BY <1>1, <1>3, <1>4, CycleLeaves
<1> HIDE DEF c, read
<1> QED
  BY <1>2, <1>3, <1>5

LEMMA StreamUnchanged ==
  ASSUME StreamInv, UNCHANGED <<active, leaving, ghosts, sm1, heard, got, rev, drain>>,
         Nibbling => "status" \in DOMAIN pins' /\ pins'["status"] = pins["status"]
  PROVE  StreamInv' /\ (DrainInv => DrainInv')
<1>1. StreamInv'
  BY DEF StreamInv, Nibbling, Running
<1>2. DrainInv => DrainInv'
  BY DEF DrainInv, Nibbling, Running
<1> QED
  BY <1>1, <1>2

LEMMA SendKeepsStream ==
  ASSUME StreamInv, SendByte PROVE StreamInv' /\ (DrainInv => DrainInv')
<1>1. UNCHANGED <<active, leaving, ghosts, pins, heard, got, drain>> /\ active \in Phys
  BY DEF SendByte, muxVars, hostVars, Serving
<1>2. DrainInv'
  BY <1>1 DEF DrainInv, Phys
<1> SUFFICES ASSUME Nibbling' PROVE StreamInv'
  BY <1>2 DEF StreamInv
<1>3. Nibbling /\ active = "SppNibble"
  BY <1>1 DEF Nibbling, Running, Phys
<1> DEFINE b == Bytes[Len(rev) + 1]
           t == Append(sm1.tx, WordOf(b))
<1>4. /\ "status" \in DOMAIN pins /\ got = heard.bytes /\ Stream(sm1, heard, pins["status"], rev)
      /\ sm1.delay = 0 /\ Len(sm1.tx) <= 2 * FifoDepth
  BY <1>3 DEF StreamInv
<1>5. /\ Machine(sm1) /\ sm1.pc \in 1 .. 5 /\ Listener(heard)
      /\ Flow(heard.bytes, Held(sm1), sm1.tx, rev)
      /\ Place(sm1.pc, sm1.osr, heard.phase, heard.low, pins["status"], rev[Len(heard.bytes) + 1])
  BY <1>4 DEF Stream
<1>6. Len(rev) \in Nat /\ Len(sm1.tx) \in Nat /\ Held(sm1) \in {0, 1}
  BY <1>5, FlowLens DEF Held
<1>7. b \in Byte
  <2>1. Bytes \in Seq(Byte) /\ Len(Bytes) \in Nat
    BY PortAssumption, LenProperties
  <2>2. Len(rev) < Len(Bytes)
    BY DEF SendByte
  <2>3. Len(rev) + 1 \in 1 .. Len(Bytes)
    BY <1>6, <2>1, <2>2
  <2> QED
    BY <2>1, <2>3, ElementOfSeq
<1>8. /\ rev' = Append(rev, b) /\ Len(sm1.tx) < 2 * FifoDepth
      /\ sm1' = [sm1 EXCEPT !.tx = Append(sm1.tx, PackByte(b))]
  <2>1. Sender(active) = "sm1" /\ Packed(active, b) = PackByte(b)
    BY <1>3 DEF Sender, Packed
  <2>2. TxDepth(Cfg.sm1) = 2 * FifoDepth
    BY <1>3 DEF Cfg, Configs, Running, TxDepth, NibbleOutConfig, Config
  <2> QED
    BY <2>1, <2>2 DEF SendByte
<1>9. sm1' = [sm1 EXCEPT !.tx = t]
  BY <1>7, <1>8, Packing
<1> HIDE DEF t, b
<1>10. Machine(sm1') /\ sm1'.pc = sm1.pc /\ sm1'.osr = sm1.osr /\ sm1'.delay = sm1.delay /\ sm1'.tx = t
  <2>1. ASSUME NEW n, n = [sm1 EXCEPT !.tx = t]
        PROVE  Machine(n) /\ n.pc = sm1.pc /\ n.osr = sm1.osr /\ n.delay = sm1.delay /\ n.tx = t
    BY <1>5, <2>1 DEF Machine
  <2> QED
    BY <1>9, <2>1
<1>11. /\ Flow(heard.bytes, Held(sm1), t, rev')
       /\ Held(sm1) = 1 => rev'[Len(heard.bytes) + 1] = rev[Len(heard.bytes) + 1]
       /\ Len(t) = Len(sm1.tx) + 1
  <2>1. /\ Flow(heard.bytes, Held(sm1), Append(sm1.tx, WordOf(b)), Append(rev, b))
        /\ Held(sm1) = 1 => Append(rev, b)[Len(heard.bytes) + 1] = rev[Len(heard.bytes) + 1]
        /\ Len(Append(sm1.tx, WordOf(b))) = Len(sm1.tx) + 1
    <3>1. Flow(heard.bytes, Held(sm1), sm1.tx, rev)
      BY <1>5
    <3> QED
      BY <1>7, <3>1, FlowSend, Zenon
  <2>2. rev' = Append(rev, b)
    BY <1>8
  <2>3. t = Append(sm1.tx, WordOf(b))
    BY DEF t
  <2> HIDE DEF t
  <2> QED
    BY <2>1, <2>2, <2>3
<1>12. Held(sm1') = Held(sm1)
  BY <1>10 DEF Held
<1>13. Place(sm1'.pc, sm1'.osr, heard.phase, heard.low, pins["status"], rev'[Len(heard.bytes) + 1])
  <2>1. CASE Held(sm1) = 1
    BY <1>5, <1>10, <1>11, <2>1
  <2>2. CASE Held(sm1) = 0
    <3>1. sm1.pc \notin {2, 3, 4}
      BY <2>2 DEF Held
    <3> QED
      BY <1>5, <1>10, <3>1 DEF Place
  <2> QED
    BY <1>6, <2>1, <2>2
<1>14. Stream(sm1', heard', pins'["status"], rev')
  BY <1>1, <1>5, <1>10, <1>11, <1>12, <1>13 DEF Stream
<1>15. Len(sm1'.tx) <= 2 * FifoDepth
  <2>1. 2 * FifoDepth \in Nat
    BY PortAssumption
  <2> QED
    BY <1>6, <1>8, <1>10, <1>11, <2>1
<1> QED
  BY <1>1, <1>3, <1>4, <1>10, <1>14, <1>15 DEF StreamInv, Phys

(* What the joined FIFO and the shift register hold is on the lines within *)
(* this time.                                                              *)
DrainNeeded == 23 * (2 * FifoDepth) + 22

LEMMA CallKeepsStream ==
  ASSUME StreamInv, NEW t \in Targets, CallSwitch(t)
  PROVE  StreamInv' /\ (DrainTicks >= DrainNeeded => DrainInv')
<1>1. /\ active \in Phys /\ active' = "None" /\ leaving' = active
      /\ UNCHANGED <<ghosts, pins, sm1, heard, got, rev>>
      /\ drain' = DrainFor(active)
  BY DEF CallSwitch, BeginSwitch, Serving, hostVars, history
<1>2. Nibbling' => Nibbling /\ active = "SppNibble"
  BY <1>1 DEF Nibbling, Running, Phys
<1>3. StreamInv'
  <2> SUFFICES ASSUME Nibbling' PROVE StreamInv'
    BY DEF StreamInv
  <2>1. drain' = DrainTicks /\ DrainTicks \in Nat
    BY <1>1, <1>2, PortAssumption DEF DrainFor
  <2>2. sm1.delay = 0
    BY <1>1, <1>2 DEF StreamInv, Phys
  <2> QED
    BY <1>1, <1>2, <2>1, <2>2 DEF StreamInv
<1>4. ASSUME DrainTicks >= DrainNeeded, Nibbling' PROVE CyclesLeft(sm1') <= drain'
  <2>1. drain' = DrainTicks /\ DrainTicks \in Nat /\ FifoDepth \in Nat
    BY <1>1, <1>2, <1>4, PortAssumption DEF DrainFor
  <2>2. /\ sm1.delay = 0 /\ sm1.pc \in 1 .. 5 /\ Len(sm1.tx) <= 2 * FifoDepth
        /\ sm1.tx \in Seq(Seq({0, 1}))
    BY <1>1, <1>2, <1>4 DEF StreamInv, Stream, Flow, Phys
  <2>3. Len(sm1.tx) \in Nat
    BY <2>2, LenProperties
  <2>4. 23 * Len(sm1.tx) <= 23 * (2 * FifoDepth)
    BY <2>1, <2>2, <2>3
  <2>5. Rest(sm1.pc) \in 0 .. 22
    BY <2>2 DEF Rest
  <2>6. CyclesLeft(sm1) = 0 + 23 * Len(sm1.tx) + Rest(sm1.pc)
    BY <2>2 DEF CyclesLeft
  <2> DEFINE x == 23 * Len(sm1.tx)
             y == 23 * (2 * FifoDepth)
  <2>7. x \in Nat /\ y \in Nat
    BY <2>1, <2>3
  <2>8. x <= y /\ CyclesLeft(sm1) = 0 + x + Rest(sm1.pc) /\ DrainTicks >= y + 22
    BY <1>4, <2>4, <2>6 DEF DrainNeeded
  <2> HIDE DEF x, y
  <2> QED
    BY <1>1, <2>1, <2>5, <2>7, <2>8
<1> QED
  BY <1>1, <1>3, <1>4 DEF DrainInv

LEMMA EmptyFlow == Flow(<<>>, 0, <<>>, <<>>)
  BY EmptySeq DEF Flow

(* A phy just built: nothing sent, nothing heard, and the lines low.       *)
LEMMA FreshStream ==
  ASSUME NEW m, Machine(m), m.pc = 1, m.tx = <<>>,
         NEW h, h = [phase |-> 0, low |-> <<>>, bytes |-> <<>>]
  PROVE  Stream(m, h, <<0, 0, 0, 0, 0>>, <<>>)
<1>1. Listener(h) /\ h.bytes = <<>> /\ h.phase = 0 /\ h.low = <<>>
  BY EmptySeq DEF Listener
<1>2. Held(m) = 0
  BY DEF Held
<1>3. PhaseOf(<<0, 0, 0, 0, 0>>) = 0
  BY DEF PhaseOf
<1>4. Place(m.pc, m.osr, h.phase, h.low, <<0, 0, 0, 0, 0>>, <<>>[Len(h.bytes) + 1])
  BY <1>1, <1>3 DEF Place
<1> QED
  BY <1>1, <1>2, <1>4, EmptyFlow DEF Stream

LEMMA LevelsShow ==
  ASSUME NEW p PROVE Shows(Onto(Levels("SppNibble"), p), <<0, 0, 0, 0, 0>>)
<1>1. Levels("SppNibble") = [status |-> <<0, 0, 0, 0, 0>>]
  BY DEF Levels
<1>2. DOMAIN Levels("SppNibble") = {"status"} /\ Levels("SppNibble")["status"] = <<0, 0, 0, 0, 0>>
  BY <1>1
<1> QED
  BY <1>2 DEF Onto, Shows

LEMMA CompleteKeepsStream ==
  ASSUME MuxInv, CompleteSwitch PROVE StreamInv' /\ DrainInv'
<1>1. PhyTarget(target) \in Phys
  BY PhyTargetIsPhy DEF MuxInv, MuxTypeOK
<1>2. active' \in {PhyTarget(target), "Panicked"}
  BY DEF CompleteSwitch, FinishSwitch
<1>3. active' # "None"
  BY <1>1, <1>2 DEF Phys
<1>4. DrainInv'
  BY <1>3 DEF DrainInv
<1> SUFFICES ASSUME Nibbling' PROVE StreamInv'
  BY <1>4 DEF StreamInv
<1>5. PhyTarget(target) = "SppNibble"
  BY <1>2, <1>3 DEF Nibbling, Running
<1>6. sm1' = Configured(Cfg.sm1, NibbleOutConfig, sm1)
  BY <1>5 DEF CompleteSwitch, Configs
<1>7. sm1'.tx = <<>>
  BY DEF Nibbling, CompleteSwitch
<1>8. Machine(sm1') /\ sm1'.pc = 1 /\ sm1'.delay = 0
  <2>1. ASSUME NEW tx, NEW rx, NEW n, n = [Idle EXCEPT !.tx = tx, !.rx = rx]
        PROVE  Machine(n) /\ n.pc = 1 /\ n.delay = 0
    <3>1. Machine(Idle) /\ Idle.pc = 1 /\ Idle.delay = 0
      BY DEF Machine, Idle
    <3> QED
      BY <2>1, <3>1 DEF Machine
  <2> DEFINE a == IF Cfg.sm1.join = NibbleOutConfig.join THEN sm1.tx ELSE <<>>
             b == IF Cfg.sm1.join = NibbleOutConfig.join THEN sm1.rx ELSE <<>>
  <2>2. sm1' = [Idle EXCEPT !.tx = a, !.rx = b]
    BY <1>6 DEF Configured
  <2> HIDE DEF a, b
  <2> QED
    BY <2>1, <2>2
<1>9. Shows(pins', <<0, 0, 0, 0, 0>>)
  BY <1>5, LevelsShow DEF CompleteSwitch
<1>10. heard' = [phase |-> 0, low |-> <<>>, bytes |-> <<>>] /\ rev' = <<>> /\ got' = <<>>
  BY DEF CompleteSwitch
<1>11. Stream(sm1', heard', pins'["status"], rev')
  BY <1>7, <1>8, <1>9, <1>10, FreshStream DEF Shows
<1>12. Len(sm1'.tx) <= 2 * FifoDepth
  <2>1. Len(<<>>) = 0 /\ 2 * FifoDepth \in Nat
    BY PortAssumption
  <2> QED
    BY <1>7, <2>1
<1>13. got' = heard'.bytes
  BY <1>10
<1> QED
  BY <1>3, <1>8, <1>9, <1>11, <1>12, <1>13 DEF StreamInv, Shows

LEMMA StreamStarts == Init => StreamInv /\ DrainInv /\ HostQuiet
<1> SUFFICES ASSUME Init PROVE StreamInv /\ DrainInv /\ HostQuiet
  OBVIOUS
<1>1. active = "SppNibble" /\ host = "idle"
  BY DEF Init, MuxInit
<1>2. DrainInv /\ HostQuiet
  BY <1>1 DEF DrainInv, HostQuiet
<1>3. Machine(sm1) /\ sm1.pc = 1 /\ sm1.tx = <<>> /\ sm1.delay = 0
  BY DEF Init, Idle, Machine
<1>4. Shows(pins, <<0, 0, 0, 0, 0>>)
  BY LevelsShow DEF Init
<1>5. heard = [phase |-> 0, low |-> <<>>, bytes |-> <<>>] /\ rev = <<>> /\ got = <<>>
  BY DEF Init
<1>6. Stream(sm1, heard, pins["status"], rev)
  BY <1>3, <1>4, <1>5, FreshStream DEF Shows
<1>7. Len(sm1.tx) <= 2 * FifoDepth
  <2>1. Len(<<>>) = 0 /\ 2 * FifoDepth \in Nat
    BY PortAssumption
  <2> QED
    BY <1>3, <2>1
<1>8. got = heard.bytes
  BY <1>5
<1> QED
  BY <1>1, <1>2, <1>3, <1>4, <1>6, <1>7, <1>8 DEF StreamInv, Shows

LEMMA HostStaysQuiet ==
  ASSUME HostQuiet, MuxInv, Next PROVE HostQuiet'
<1>1. CASE RunSm0 \/ RunSm1 \/ SendByte \/ AskForward \/ RecvFromRing \/ RecvFromFifo \/ Negotiation
  <2>1. active' = active /\ host' = host
    BY <1>1 DEF RunSm0, RunSm1, SendByte, AskForward, RecvFromRing, RecvFromFifo, Negotiation,
                muxVars, hostVars
  <2> QED
    BY <2>1 DEF HostQuiet
<1>2. CASE HostWrites \/ HostReads \/ HostEnds
  <2>1. active' = active
    BY <1>2 DEF HostWrites, HostReads, HostEnds, muxVars
  <2>2. CASE HostWrites
    <3>1. host' = "write" /\ active \in Phys
      BY <2>2 DEF HostWrites, HostIdle
    <3> QED
      BY <2>1, <3>1 DEF HostQuiet, Phys
  <2>3. CASE HostReads
    <3>1. active # "SppNibble" /\ active \in Phys /\ host' = "read"
      BY <2>3 DEF HostReads, HostIdle
    <3> QED
      BY <2>1, <3>1 DEF HostQuiet, Phys
  <2>4. CASE HostEnds
    <3>1. host' = "idle"
      BY <2>4 DEF HostEnds
    <3> QED
      BY <2>1, <3>1 DEF HostQuiet
  <2> QED
    BY <1>2, <2>2, <2>3, <2>4
<1>3. CASE \E t \in Targets : CallSwitch(t)
  <2>1. host = "idle" /\ host' = host
    BY <1>3 DEF CallSwitch, hostVars
  <2> QED
    BY <2>1 DEF HostQuiet
<1>4. CASE CompleteSwitch
  <2>1. active = "None" /\ host' = host
    BY <1>4 DEF CompleteSwitch, FinishSwitch
  <2> QED
    BY <2>1 DEF HostQuiet
<1> QED
  BY <1>1, <1>2, <1>3, <1>4 DEF Next

LEMMA StreamStep ==
  ASSUME MuxInv, HostQuiet, StreamInv, Next
  PROVE  StreamInv' /\ (DrainTicks >= DrainNeeded /\ DrainInv => DrainInv')
<1>1. CASE RunSm0
  <2>1. UNCHANGED <<active, leaving, ghosts, sm1, heard, got, rev, drain>>
    BY <1>1 DEF RunSm0, muxVars
  <2>2. Nibbling => "status" \in DOMAIN pins' /\ pins'["status"] = pins["status"]
    BY <1>1, Sm0LeavesStatus DEF Nibbling, StreamInv
  <2> QED
    BY <2>1, <2>2, StreamUnchanged
<1>2. CASE RunSm1
  BY <1>2, Sm1KeepsStream, Sm1KeepsDrain
<1>3. CASE SendByte
  BY <1>3, SendKeepsStream
<1>4. CASE AskForward
  <2>1. active = "Epp" /\ active' = active
    BY <1>4 DEF AskForward, muxVars
  <2> QED
    BY <2>1 DEF StreamInv, DrainInv, Nibbling, Running
<1>5. CASE RecvFromRing \/ RecvFromFifo
  <2>1. UNCHANGED <<active, leaving, ghosts, sm1, heard, got, rev, drain, pins>>
    BY <1>5 DEF RecvFromRing, RecvFromFifo, muxVars, hostVars
  <2>2. Nibbling => "status" \in DOMAIN pins' /\ pins'["status"] = pins["status"]
    BY <2>1 DEF StreamInv
  <2> QED
    BY <2>1, <2>2, StreamUnchanged
<1>6. CASE HostWrites
  <2>1. UNCHANGED <<active, leaving, ghosts, sm1, heard, got, rev, drain>>
    BY <1>6 DEF HostWrites, muxVars, phyVars, history
  <2>2. Nibbling => "status" \in DOMAIN pins' /\ pins'["status"] = pins["status"]
    BY <1>6 DEF HostWrites, StreamInv
  <2> QED
    BY <2>1, <2>2, StreamUnchanged
<1>7. CASE HostReads
  <2>1. active \in Phys /\ active # "SppNibble" /\ active' = active
    BY <1>7 DEF HostReads, HostIdle, muxVars
  <2> QED
    BY <2>1 DEF StreamInv, DrainInv, Nibbling, Running, Phys
<1>8. CASE HostEnds
  <2>1. UNCHANGED <<active, leaving, ghosts, sm1, heard, rev, drain>>
    BY <1>8 DEF HostEnds, muxVars, phyVars
  <2>2. CASE ~Nibbling
    BY <2>1, <2>2 DEF StreamInv, DrainInv, Nibbling, Running
  <2>3. CASE Nibbling
    <3>1. host # "idle" /\ active # "None" /\ active = "SppNibble"
      BY <1>8, <2>3 DEF HostEnds, HostQuiet, Nibbling, Running
    <3>2. host = "write"
      BY <3>1 DEF HostQuiet
    <3>3. host = "write" => got' = got
      BY <1>8 DEF HostEnds
    <3>4. "status" \in DOMAIN pins' /\ pins'["status"] = pins["status"]
      BY <1>8, <2>3 DEF HostEnds, StreamInv
    <3> QED
      BY <2>1, <3>2, <3>3, <3>4, StreamUnchanged
  <2> QED
    BY <2>2, <2>3
<1>9. CASE \E t \in Targets : CallSwitch(t)
  BY <1>9, CallKeepsStream
<1>10. CASE CompleteSwitch
  BY <1>10, CompleteKeepsStream
<1>11. CASE Negotiation
  <2>1. UNCHANGED <<active, leaving, ghosts, sm1, heard, got, rev, drain>>
    BY <1>11 DEF Negotiation, muxVars, phyVars, hostVars
  <2>2. pins' = pins \/ PeerStep
    BY <1>11 DEF Negotiation, NegotiatorStep, DetectStart, ClaimStatusPins, DriveStatus,
                 StrobeLow, StrobeHigh, AutoFdReleased, NegTimeout, ReleaseStatusPins
  <2>3. "status" \in DOMAIN pins => "status" \in DOMAIN pins' /\ pins'["status"] = pins["status"]
    BY <2>2 DEF PeerStep, Request, Strobe, EndStrobe, ReadVerdict, GiveUp
  <2>4. Nibbling => "status" \in DOMAIN pins' /\ pins'["status"] = pins["status"]
    BY <2>3 DEF StreamInv
  <2> QED
    BY <2>1, <2>4, StreamUnchanged
<1> QED
  BY <1>1, <1>2, <1>3, <1>4, <1>5, <1>6, <1>7, <1>8, <1>9, <1>10, <1>11 DEF Next

(* pio_nibble_out.rs: "5 ms is comfortable headroom".  With as many cycles *)
(* as a full FIFO and the byte before it take, every byte handed to        *)
(* send_byte has been on the lines for its full settle time when the state *)
(* machine is disabled, and the host has read them all.                    *)
THEOREM DrainSuffices ==
  ASSUME DrainTicks >= DrainNeeded PROVE Spec => []DrainedWhenDisabled
<1> DEFINE Inv == MuxInv /\ HostQuiet /\ StreamInv /\ DrainInv
<1>1. Init => Inv
  BY MuxStarts, StreamStarts DEF Init
<1>2. Inv /\ [Next]_vars => Inv'
  <2> SUFFICES ASSUME Inv, [Next]_vars PROVE Inv'
    OBVIOUS
  <2>1. CASE Next
    <3>1. MuxInv'
      BY <2>1, PortMovesMux, BeginKeeps, FinishKeeps, MuxUnchanged
    <3>2. HostQuiet' /\ StreamInv' /\ DrainInv'
      BY <2>1, HostStaysQuiet, StreamStep
    <3> QED
      BY <3>1, <3>2
  <2>2. CASE UNCHANGED vars
    <3>1. UNCHANGED <<muxVars, host>> /\ UNCHANGED <<active, leaving, ghosts, sm1, heard, got, rev, drain, pins>>
      BY <2>2 DEF vars, hostVars, muxVars, phyVars, history
    <3>2. MuxInv' /\ HostQuiet'
      BY <3>1, MuxUnchanged DEF HostQuiet
    <3>3. Nibbling => "status" \in DOMAIN pins' /\ pins'["status"] = pins["status"]
      BY <3>1 DEF StreamInv
    <3> QED
      BY <3>1, <3>2, <3>3, StreamUnchanged
  <2> QED
    BY <2>1, <2>2
<1>3. Inv => DrainedWhenDisabled
  <2> SUFFICES ASSUME StreamInv, DrainInv, active = "None", leaving = "SppNibble", drain = 0, ~ghosts
               PROVE  AwaitsWord(NibbleOutConfig, sm1) /\ got = rev
    BY DEF DrainedWhenDisabled
  <2>1. Nibbling
    BY DEF Nibbling, Running
  <2>2. /\ got = heard.bytes /\ sm1.delay \in Nat /\ sm1.pc \in 1 .. 5
        /\ Flow(heard.bytes, Held(sm1), sm1.tx, rev)
    BY <2>1 DEF StreamInv, Stream
  <2>3. sm1.delay + 23 * Len(sm1.tx) + Rest(sm1.pc) <= 0
    BY <2>1 DEF DrainInv, CyclesLeft
  <2>4. Len(sm1.tx) \in Nat /\ Rest(sm1.pc) \in Nat /\ (Rest(sm1.pc) = 0 => sm1.pc = 1)
    BY <2>2, FlowLens DEF Rest
  <2>5. sm1.delay = 0 /\ Len(sm1.tx) = 0 /\ sm1.pc = 1
    BY <2>2, <2>3, <2>4
  <2>6. sm1.tx = <<>>
    BY <2>2, <2>5, EmptySeq DEF Flow
  <2>7. AwaitsWord(NibbleOutConfig, sm1)
    BY <2>5, <2>6, NibbleProgram, NibbleConfig DEF AwaitsWord, Instruction, Pull
  <2>8. Held(sm1) = 0
    BY <2>5 DEF Held
  <2>9. /\ heard.bytes \in Seq(Byte) /\ rev \in Seq(Byte) /\ Len(rev) = Len(heard.bytes)
        /\ \A k \in 1 .. Len(heard.bytes) : heard.bytes[k] = rev[k]
    BY <2>2, <2>5, <2>8, FlowLens DEF Flow
  <2> QED
    BY <2>2, <2>7, <2>9, SeqEqual
<1> QED
  BY <1>1, <1>2, <1>3, PTL DEF Spec
=============================================================================
