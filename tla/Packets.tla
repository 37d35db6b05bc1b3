------------------------------ MODULE Packets ------------------------------
(***************************************************************************)
(* The Stage 2 image, its blocks, and the packets Stage 1 (DOS host) and   *)
(* the Pico firmware exchange over the LPT.  A packet is a record with the *)
(* fields either side looks at; framing, the CRC-16 arithmetic and byte    *)
(* order are abstracted.  The CRC-32 of a byte string is represented by    *)
(* the byte string itself: two strings have one CRC exactly when they are  *)
(* equal (collisions of the CRC-32 are outside the model), and the CRC of  *)
(* no bytes, <<>>, is 0, the value of the host's field before CAP_RSP.     *)
(***************************************************************************)
EXTENDS Integers, Sequences

CONSTANTS Byte,            \* the values of one byte of the image
          Image,           \* the Stage 2 image embedded in the firmware
          BlockSize,       \* 64 in the code
          MaxStage2Size,   \* 200000 in the code
          SizeModulus,     \* 2^32 in the code: the size is a u32
          MaxBlocks        \* 65535 in the code: block numbers are u16

ASSUME ImageAssumption == Image \in Seq(Byte)
ASSUME SizeAssumption ==
    /\ BlockSize \in Nat \ {0}
    /\ MaxStage2Size \in Nat
    /\ SizeModulus \in Nat /\ Len(Image) < SizeModulus
    /\ MaxBlocks \in Nat

(* SEQ is one byte and wraps on both sides.                                *)
Seq8 == 0 .. 255
NextSeq(s) == (s + 1) % 256

Least(a, b) == IF a <= b THEN a ELSE b

(* BlockSource: block n of a blob, shorter at the end of the image; none   *)
(* past it.                                                                *)
HasBlock(n) == n * BlockSize < Len(Image)
Block(n) == SubSeq(Image, n * BlockSize + 1,
                   Least((n + 1) * BlockSize, Len(Image)))

(* Stage 1's view of the same division, from the size CAP_RSP announced;   *)
(* the rounding up of a size close to 2^32 wraps.                          *)
CountIn_full(size, n) == BlockSize  \* mutant: the last block is taken for a whole one

BlocksIn(size) == ((size + BlockSize - 1) % SizeModulus) \div BlockSize
CountIn(size, n) == Least(BlockSize, size - n * BlockSize)

---------------------------------------------------------------------------
(* Host to Pico.  Only the block commands have a payload that matters.     *)
Plain == {"CAP_REQ", "CAP_ACK", "PING"}
Numbered == {"SEND_BLOCK", "BLOCK_ACK", "BLOCK_NAK"}

Request == [cmd : Plain, seq : Seq8]
             \cup [cmd : Numbered, seq : Seq8, block : Nat]
             \cup [cmd : {"NOISE"}]

(* Pico to host.  BAD_CRC is a packet of an announced payload length whose *)
(* CRC or ETX does not check; NOISE is any run of bytes without packet     *)
(* boundaries, for example what is left of a packet after its header.      *)
Reply == [cmd : {"CAP_RSP"}, seq : Seq8, size : Nat, crc : Seq(Byte)]
           \cup [cmd : {"PONG"}, seq : Seq8]
           \cup [cmd : {"RECV_BLOCK"}, seq : Seq8, block : Nat, data : Seq(Byte)]
           \cup [cmd : {"BAD_CRC"}, len : Nat]
           \cup [cmd : {"NOISE"}]

Noise == [cmd |-> "NOISE"]
BadCrc(len) == [cmd |-> "BAD_CRC", len |-> len]

(* Payload lengths on the wire: what LEN_HI/LEN_LO of the header says.     *)
CapRspLen == 36
StressPayloadLen == 64
RecvBlockHdrLen == 5

PayloadLen(p) ==
    CASE p.cmd = "CAP_RSP"    -> CapRspLen
      [] p.cmd = "PONG"       -> StressPayloadLen
      [] p.cmd = "RECV_BLOCK" -> RecvBlockHdrLen + Len(p.data)
      [] p.cmd = "BAD_CRC"    -> p.len
=============================================================================
