------------------------------ MODULE LptWire ------------------------------
(***************************************************************************)
(* The two directions of the LPT between Stage 1 and the Pico, as lanes of *)
(* packets in the order they were sent, and the faults of the wire.  A     *)
(* step of a process is one whole packet; what happens to its bytes is a   *)
(* fault of the lane.                                                      *)
(***************************************************************************)
EXTENDS Packets

CONSTANTS MaxFaults,   \* bound on the faults of one behaviour
          FaultKinds,  \* the faults the wire commits
          MisreadSizes \* sizes a CAP_RSP may announce after an undetected error

AllFaultKinds == {"lose_request", "garble_request", "lose_reply",
                  "corrupt_reply", "garble_reply", "collide", "late"}

ASSUME WireAssumption ==
    /\ MaxFaults \in Nat
    /\ FaultKinds \subseteq AllFaultKinds
    /\ MisreadSizes \subseteq 0 .. SizeModulus - 1

VARIABLES toPico,  \* requests on their way to the Pico's reassembler
          toHost,  \* reply bytes on their way to Stage 1's rx_fill
          faults   \* how many faults have happened

wireVars == <<toPico, toHost, faults>>

WireTypeOK ==
    /\ toPico \in Seq(Request)
    /\ toHost \in Seq(Reply)
    /\ faults \in Nat

WireInit == toPico = <<>> /\ toHost = <<>> /\ faults = 0

Fault(kind) ==
    /\ kind \in FaultKinds
    /\ faults < MaxFaults
    /\ faults' = faults + 1

WithHead(lane, p) == <<p>> \o Tail(lane)

LoseRequest ==
    /\ Fault("lose_request")
    /\ toPico # <<>>
    /\ toPico' = Tail(toPico)
    /\ UNCHANGED toHost

(* Bytes of a request are damaged or missing: the reassembler cannot frame *)
(* it.                                                                     *)
GarbleRequest ==
    /\ Fault("garble_request")
    /\ toPico # <<>>
    /\ toPico' = WithHead(toPico, Noise)
    /\ UNCHANGED toHost

LoseReply ==
    /\ Fault("lose_reply")
    /\ toHost # <<>>
    /\ toHost' = Tail(toHost)
    /\ UNCHANGED toPico

(* A reply whose header survives and whose CRC does not check.             *)
CorruptReply ==
    /\ Fault("corrupt_reply")
    /\ toHost # <<>> /\ Head(toHost).cmd # "NOISE"
    /\ toHost' = WithHead(toHost, BadCrc(PayloadLen(Head(toHost))))
    /\ UNCHANGED toPico

(* A reply whose header is damaged or some bytes of which are missing.     *)
GarbleReply ==
    /\ Fault("garble_reply")
    /\ toHost # <<>>
    /\ toHost' = WithHead(toHost, Noise)
    /\ UNCHANGED toPico

OtherData(p, i, b) == [p EXCEPT !.data = [@ EXCEPT ![i] = b]]

(* An error the CRC-16 does not detect: other data in a block, or another  *)
(* size in a CAP_RSP.                                                      *)
Collide ==
    /\ Fault("collide")
    /\ toHost # <<>>
    /\ \/ /\ Head(toHost).cmd = "RECV_BLOCK"
          /\ \E i \in DOMAIN Head(toHost).data, b \in Byte :
                toHost' = WithHead(toHost, OtherData(Head(toHost), i, b))
       \/ /\ Head(toHost).cmd = "CAP_RSP"
          /\ \E n \in MisreadSizes : toHost' = WithHead(toHost, [Head(toHost) EXCEPT !.size = n])
    /\ UNCHANGED toPico

WireNext == LoseRequest \/ GarbleRequest \/ LoseReply \/ CorruptReply
              \/ GarbleReply \/ Collide

---------------------------------------------------------------------------
(* What rx_fill leaves on the lane.  The host reads the 5-byte header; if  *)
(* the announced length is the one it wants it reads the rest too,         *)
(* otherwise it stops and the rest of the packet is either read as the     *)
(* start of the next reply or passes by unread (the nibble transmitter     *)
(* does not wait for the host).  Out of NOISE a read takes any number of   *)
(* bytes, so whole packets behind it may be swallowed.                     *)
DropFirst(lane, k) == SubSeq(lane, k + 1, Len(lane))

LeftAfterWhole == {Tail(toHost)}
LeftAfterHeader == {Tail(toHost), <<Noise>> \o Tail(toHost)}
LeftAfterNoise ==
    {DropFirst(toHost, k) : k \in 1 .. Len(toHost)}
      \cup {<<Noise>> \o DropFirst(toHost, k) : k \in 1 .. Len(toHost)}
=============================================================================
