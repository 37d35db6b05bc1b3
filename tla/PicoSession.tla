---------------------------- MODULE PicoSession ----------------------------
(***************************************************************************)
(* The firmware's protocol dispatcher: serve_loop receives one packet at a *)
(* time, handle_packet dispatches it, and a reply, if any, is sent before  *)
(* the next packet is looked at.  The session survives anything the host   *)
(* does; only CAP_REQ resets it.                                           *)
(***************************************************************************)
EXTENDS LptWire

VARIABLES expected_block,   \* BlockServer: the next block to be acknowledged
          pico_tx_seq,      \* SEQ of the next reply
          rx_seq_expected,  \* SEQ expected on the next request
          cap_acked         \* CAP_ACK has been received

picoVars == <<expected_block, pico_tx_seq, rx_seq_expected, cap_acked>>

PicoTypeOK ==
    /\ expected_block \in 0 .. MaxBlocks
    /\ pico_tx_seq \in Seq8
    /\ rx_seq_expected \in Seq8
    /\ cap_acked \in BOOLEAN

PicoInit ==
    /\ expected_block = 0
    /\ pico_tx_seq = 0
    /\ rx_seq_expected = 0
    /\ cap_acked = FALSE

---------------------------------------------------------------------------
(* handle_packet: the head of the lane is a request of this command; it is *)
(* consumed and, whatever its SEQ, its successor is expected next.         *)
Received(cmd) ==
    /\ toPico # <<>>
    /\ Head(toPico).cmd = cmd
    /\ toPico' = Tail(toPico)
    /\ UNCHANGED faults

Follow == rx_seq_expected' = NextSeq(Head(toPico).seq)

Answer(reply) == toHost' = Append(toHost, reply)

CapRsp(seq) == [cmd |-> "CAP_RSP", seq |-> seq, size |-> Len(Image), crc |-> Image]
Pong(seq) == [cmd |-> "PONG", seq |-> seq]
RecvBlock(seq, n) == [cmd |-> "RECV_BLOCK", seq |-> seq, block |-> n, data |-> Block(n)]

(* SessionState::reset.  It follows the assignment of rx_seq_expected, so  *)
(* that SEQ 0 is expected next, and the CAP_RSP takes SEQ 0.               *)
Reset_keepsBlocks ==  \* mutant: the block server is not reset
    rx_seq_expected' = 0 /\ cap_acked' = FALSE /\ UNCHANGED expected_block

Reset ==
    /\ rx_seq_expected' = 0
    /\ expected_block' = 0
    /\ cap_acked' = FALSE

HandleCapReq ==
    /\ Received("CAP_REQ")
    /\ Reset
    /\ pico_tx_seq' = NextSeq(0)
    /\ Answer(CapRsp(0))

HandleCapAck ==
    /\ Received("CAP_ACK")
    /\ Follow
    /\ cap_acked' = TRUE
    /\ UNCHANGED <<toHost, expected_block, pico_tx_seq>>

HandlePing ==
    /\ Received("PING")
    /\ Follow
    /\ pico_tx_seq' = NextSeq(pico_tx_seq)
    /\ Answer(Pong(pico_tx_seq))
    /\ UNCHANGED <<expected_block, cap_acked>>

HandleSendBlock ==
    /\ Received("SEND_BLOCK")
    /\ Follow
    /\ HasBlock(Head(toPico).block)
    /\ pico_tx_seq' = NextSeq(pico_tx_seq)
    /\ Answer(RecvBlock(pico_tx_seq, Head(toPico).block))
    /\ UNCHANGED <<expected_block, cap_acked>>

(* BlockOutOfRange: the request is ignored and the host hears nothing.     *)
IgnoreSendBlock ==
    /\ Received("SEND_BLOCK")
    /\ Follow
    /\ ~HasBlock(Head(toPico).block)
    /\ UNCHANGED <<toHost, expected_block, pico_tx_seq, cap_acked>>

(* handle_ack: only the acknowledgement of the expected block advances,    *)
(* and never past the last u16 (saturating_add).                           *)
HandleBlockAck ==
    /\ Received("BLOCK_ACK")
    /\ Follow
    /\ expected_block' = IF Head(toPico).block = expected_block
                         THEN Least(expected_block + 1, MaxBlocks)
                         ELSE expected_block
    /\ UNCHANGED <<toHost, pico_tx_seq, cap_acked>>

HandleBlockNak ==
    /\ Received("BLOCK_NAK")
    /\ Follow
    /\ UNCHANGED <<toHost, expected_block, pico_tx_seq, cap_acked>>

(* next_packet: bytes that frame no packet are dropped up to the next SOH; *)
(* a damaged length makes the reassembler take the following packet for    *)
(* the rest of this one.                                                   *)
Resync ==
    /\ Received("NOISE")
    /\ UNCHANGED <<toHost, picoVars>>

Swallow ==
    /\ Len(toPico) > 1
    /\ Head(toPico).cmd = "NOISE"
    /\ toPico' = <<Noise>> \o DropFirst(toPico, 2)
    /\ UNCHANGED <<toHost, faults, picoVars>>

PicoNext ==
    \/ HandleCapReq \/ HandleCapAck \/ HandlePing
    \/ HandleSendBlock \/ IgnoreSendBlock
    \/ HandleBlockAck \/ HandleBlockNak
    \/ Resync \/ Swallow
=============================================================================
