----------------------------- MODULE Negotiator -----------------------------
(***************************************************************************)
(* The peripheral's side of an IEEE 1284 negotiation (lpt/negotiator.rs),  *)
(* a host that may give up or start over at any point (external), and the  *)
(* lines between them.  The firmware looks at the lines between sleeps of  *)
(* POLL_TICK_US and writes the status lines one by one, so that each look  *)
(* and each write is a step; a deadline may pass whenever it waits.        *)
(***************************************************************************)
EXTENDS Integers, Sequences

CONSTANTS
    Xrvs,         \* extensibility request values a host may place
    MaxRestarts   \* bound: times a host that gave up tries again

VARIABLES
    pins,         \* of these: "strobe", "autofd", "selectin", "d"
    neg,          \* the Negotiator and its caller
    claimed, sio, \* the status lines belong to SIO; what SIO drives on them
    peer          \* the host

negVars == <<neg, claimed, sio, peer>>

-----------------------------------------------------------------------------
StatusLines == {"nack", "perror", "select", "nfault"}

\* The request values, lowest bit first.
Bit(n)    == [k \in 1 .. 8 |-> IF k = n + 1 THEN 1 ELSE 0]
NIBBLE    == [k \in 1 .. 8 |-> 0]
BYTE      == Bit(0)
DEVICE_ID == 2
ECP       == Bit(4)
ECP_RLE   == [ECP EXCEPT ![6] = 1]
EPP       == Bit(6)
EXT_LINK  == Bit(7)

\* xrv_to_mode; "" stands for None.
XrvToMode(xrv) ==
    LET bare == [xrv EXCEPT ![DEVICE_ID + 1] = 0]
    IN CASE bare = NIBBLE         -> "SppNibble"
         [] bare = BYTE           -> "Byte"
         [] bare \in {ECP, ECP_RLE} -> "Ecp"
         [] bare = EPP            -> "Epp"
         [] OTHER                 -> ""

\* The writes of one drive_status, in the order of the code.
Writes(nack, perror, select, nfault) ==
    << <<"nack", nack>>, <<"perror", perror>>, <<"select", select>>, <<"nfault", nfault>> >>

NegInit ==
    /\ neg = [pc |-> "wait", writes |-> <<>>, xrv |-> NIBBLE, result |-> ""]
    /\ claimed = FALSE /\ sio = [l \in StatusLines |-> 0]
    /\ peer = [pc |-> "idle", xrv |-> NIBBLE, left |-> 0]

Negotiating == neg.pc # "done"

-----------------------------------------------------------------------------
\* wait_for_start, detect_start
DetectStart ==
    /\ neg.pc = "wait"
    /\ pins["selectin"] = 1 /\ pins["autofd"] = 0
    /\ neg' = [neg EXCEPT !.pc = "claim", !.xrv = pins["d"]]
    /\ UNCHANGED <<pins, claimed, sio, peer>>

\* The caller's claim_status_pins; handshake begins with the response.
ClaimStatusPins ==
    /\ neg.pc = "claim"
    /\ claimed' = TRUE
    /\ neg' = [neg EXCEPT !.pc = "strobeLow", !.writes = Writes(0, 1, 1, 1)]
    /\ UNCHANGED <<pins, sio, peer>>

DriveStatus ==
    /\ neg.writes # <<>>
    /\ LET w == Head(neg.writes) IN sio' = [sio EXCEPT ![w[1]] = w[2]]
    /\ neg' = [neg EXCEPT !.writes = Tail(@)]
    /\ UNCHANGED <<pins, claimed, peer>>

Waiting == neg.writes = <<>>

StrobeLow ==
    /\ neg.pc = "strobeLow" /\ Waiting
    /\ pins["strobe"] = 0
    /\ neg' = [neg EXCEPT !.pc = "strobeHigh"]
    /\ UNCHANGED <<pins, claimed, sio, peer>>

StrobeHigh ==
    /\ neg.pc = "strobeHigh"
    /\ pins["strobe"] = 1
    /\ neg' = [neg EXCEPT !.pc = "release",
                   !.writes = Writes(1, 1, IF XrvToMode(neg.xrv) # "" THEN 1 ELSE 0, 1)]
    /\ UNCHANGED <<pins, claimed, sio, peer>>

\* Mutant: the release of nAutoFd is not waited for
Released_unchecked == TRUE
Released == pins["autofd"] = 1

AutoFdReleased ==
    /\ neg.pc = "release" /\ Waiting
    /\ Released
    /\ neg' = [neg EXCEPT !.pc = "return",
                          !.result = IF XrvToMode(neg.xrv) # "" THEN "Ok" ELSE "UnsupportedXrv"]
    /\ UNCHANGED <<pins, claimed, sio, peer>>

\* Mutant: no deadline for the end of the strobe
TimesOut_notHigh == {"strobeLow", "release"}
TimesOut == {"strobeLow", "strobeHigh", "release"}

NegTimeout ==
    /\ neg.pc \in TimesOut /\ Waiting
    /\ neg' = [neg EXCEPT !.pc = "return", !.result = "Timeout"]
    /\ UNCHANGED <<pins, claimed, sio, peer>>

\* release_status_pins, before a phy is built.
ReleaseStatusPins ==
    /\ neg.pc = "return"
    /\ claimed' = FALSE
    /\ neg' = [neg EXCEPT !.pc = "done"]
    /\ UNCHANGED <<pins, sio, peer>>

NegotiatorStep ==
    \/ DetectStart \/ ClaimStatusPins \/ DriveStatus \/ StrobeLow \/ StrobeHigh
    \/ AutoFdReleased \/ NegTimeout \/ ReleaseStatusPins

-----------------------------------------------------------------------------
\* What the host reads; nibble_out leaves the lines low.
Status(l) == IF claimed THEN sio[l] ELSE 0

Request ==
    /\ \/ peer.pc = "idle" /\ peer' \in {[pc |-> "asked", xrv |-> x, left |-> 0] : x \in Xrvs}
       \/ /\ peer.pc = "gaveUp" /\ peer.left < MaxRestarts
          /\ peer' \in {[pc |-> "asked", xrv |-> x, left |-> peer.left + 1] : x \in Xrvs}
    /\ pins' = [pins EXCEPT !["d"] = peer'.xrv, !["selectin"] = 1, !["autofd"] = 0]
    /\ UNCHANGED <<neg, claimed, sio>>

Strobe ==
    /\ peer.pc = "asked"
    /\ \A l \in StatusLines : Status(l) = IF l = "nack" THEN 0 ELSE 1
    /\ peer' = [peer EXCEPT !.pc = "strobing"]
    /\ pins' = [pins EXCEPT !["strobe"] = 0]
    /\ UNCHANGED <<neg, claimed, sio>>

EndStrobe ==
    /\ peer.pc = "strobing"
    /\ peer' = [peer EXCEPT !.pc = "strobed"]
    /\ pins' = [pins EXCEPT !["strobe"] = 1]
    /\ UNCHANGED <<neg, claimed, sio>>

ReadVerdict ==
    /\ peer.pc = "strobed" /\ Status("nack") = 1
    /\ peer' = [peer EXCEPT !.pc = IF Status("select") = 1 THEN "agreed" ELSE "refused"]
    /\ pins' = [pins EXCEPT !["autofd"] = 1]
    /\ UNCHANGED <<neg, claimed, sio>>

GiveUp ==
    /\ peer.pc \in {"asked", "strobing", "strobed"}
    /\ peer' = [peer EXCEPT !.pc = "gaveUp"]
    /\ pins' = [pins EXCEPT !["strobe"] = 1, !["autofd"] = 1, !["selectin"] = 0]
    /\ UNCHANGED <<neg, claimed, sio>>

PeerStep == Request \/ Strobe \/ EndStrobe \/ ReadVerdict \/ GiveUp

-----------------------------------------------------------------------------
(* negotiator.rs, step 5: "After step 5 both sides have agreed on the      *)
(* target mode".  handshake returns a mode only once a host that has not   *)
(* given up has read the verdict, and the mode is the one it asked for.    *)
(* A host that gave up, or that asked again for another mode, may be       *)
(* mistaken for one that agreed: an early release of nAutoFd is not told   *)
(* from step 5, and the request is read once.                              *)
NegotiatedModeAgrees ==
    neg.result = "Ok" /\ peer.pc # "gaveUp" /\ peer.left = 0 =>
        peer.pc = "agreed" /\ XrvToMode(peer.xrv) = XrvToMode(neg.xrv)

(* negotiator.rs, step 4: "Select reflects whether the XRV is supported,   *)
(* nAck = 1": a host that reads the verdict when nAck has come back is not *)
(* told of a mode that handshake refuses.  (drive_status raises nAck two   *)
(* writes before it takes Select down.)                                    *)
RefusalTold == neg.result = "UnsupportedXrv" /\ peer.left = 0 => peer.pc # "agreed"

(* negotiator.rs: each wait of the handshake has a deadline.  Once it has  *)
(* begun it ends, and the status lines go back to the phy, whatever the    *)
(* host does or stops doing.                                               *)
HandshakeEnds == neg.pc = "claim" ~> neg.pc = "done" /\ ~claimed
=============================================================================
