----------------------- MODULE Stage2Bootstrap_proofs -----------------------
(***************************************************************************)
(* Proofs about the Stage 2 bootstrap, for every image, block size, number *)
(* of retries, set of faults and number of power cycles: what is on disk,  *)
(* the order of the blocks in the file, and the Pico's count of those      *)
(* acknowledged.                                                           *)
(***************************************************************************)
EXTENDS Stage2Bootstrap, SequenceTheorems, TLAPS

---------------------------------------------------------------------------
(* Lanes.  The lemmas speak of lanes over any set S of packets, so that    *)
(* they serve the type invariant and the invariants about the contents.    *)

(* Taking from, replacing the head of, and skipping into a lane.           *)
LEMMA LaneOps ==
    ASSUME NEW S, NEW lane \in Seq(S), lane # <<>>, NEW p \in S
    PROVE  /\ Head(lane) \in S
           /\ Tail(lane) \in Seq(S)
           /\ WithHead(lane, p) \in Seq(S)
           /\ \A k \in Nat : /\ DropFirst(lane, k) \in Seq(S)
                             /\ <<p>> \o DropFirst(lane, k) \in Seq(S)
<1>1. <<p>> \in Seq(S)
  OBVIOUS
<1>2. Head(lane) \in S /\ Tail(lane) \in Seq(S)
  BY HeadTailProperties
<1>3. WithHead(lane, p) \in Seq(S)
  BY <1>1, <1>2, ConcatProperties DEF WithHead
<1>4. ASSUME NEW k \in Nat
      PROVE  DropFirst(lane, k) \in Seq(S)
  <2>1. Len(lane) \in Nat /\ \A i \in k + 1 .. Len(lane) : lane[i] \in S
    BY ElementOfSeq, LenProperties
  <2> QED
    BY <2>1, SubSeqProperties DEF DropFirst
<1> QED
  BY <1>1, <1>2, <1>3, <1>4, ConcatProperties

(* Whatever a refused reply or a timeout leaves on the lane was there, or  *)
(* is noise.                                                               *)
LEMMA HostReads ==
    ASSUME NEW S, toHost \in Seq(S), Noise \in S, NEW lengths,
           ReadAndRefuse(lengths)
    PROVE  toHost' \in Seq(S)
<1>1. toHost # <<>>
  BY DEF ReadAndRefuse, Arrived
<1>2. Len(toHost) \in Nat
  BY LenProperties
<1>3. Tail(toHost) \in Seq(S) /\ <<Noise>> \o Tail(toHost) \in Seq(S)
  BY <1>1, LaneOps DEF WithHead
<1>4. \A k \in 1 .. Len(toHost) :
         DropFirst(toHost, k) \in Seq(S) /\ <<Noise>> \o DropFirst(toHost, k) \in Seq(S)
  BY <1>1, <1>2, LaneOps
<1>5. /\ LeftAfterWhole \subseteq Seq(S)
      /\ LeftAfterHeader \subseteq Seq(S)
      /\ LeftAfterNoise \subseteq Seq(S)
  BY <1>3, <1>4 DEF LeftAfterWhole, LeftAfterHeader, LeftAfterNoise
<1> QED
  BY <1>5 DEF ReadAndRefuse

LEMMA HostTimesOut ==
    ASSUME NEW S, toHost \in Seq(S), TimedOut, faults \in Nat
    PROVE  toHost' \in Seq(S) /\ faults' \in Nat
<1>1. <<>> \in Seq(S)
  BY EmptySeq
<1>2. CASE UNCHANGED <<toHost, faults>>
  BY <1>2
<1>3. CASE Fault("late") /\ toHost' \in {toHost, <<>>}
  <2>1. toHost' \in Seq(S)
    BY <1>1, <1>3, Zenon
  <2>2. faults' \in Nat
    BY <1>3 DEF Fault
  <2> QED
    BY <2>1, <2>2
<1> QED
  BY <1>2, <1>3 DEF TimedOut

---------------------------------------------------------------------------
(* The type invariant.                                                     *)

LEMMA NextSeqType == ASSUME NEW s \in Seq8 PROVE NextSeq(s) \in Seq8
  BY DEF NextSeq, Seq8

LEMMA BlockType ==
    ASSUME NEW n \in Nat, HasBlock(n)
    PROVE  Block(n) \in Seq(Byte)
<1> DEFINE first == n * BlockSize + 1
           last == Least((n + 1) * BlockSize, Len(Image))
<1>1. n * BlockSize \in Nat /\ (n + 1) * BlockSize \in Nat /\ Len(Image) \in Nat
  BY SizeAssumption, ImageAssumption, LenProperties
<1>2. first \in Int /\ last \in Int /\ first >= 1 /\ last <= Len(Image)
  BY <1>1 DEF Least
<1> HIDE DEF first, last
<1>3. \A i \in first .. last : Image[i] \in Byte
  BY <1>1, <1>2, ImageAssumption, ElementOfSeq
<1>4. SubSeq(Image, first, last) \in Seq(Byte)
  BY <1>2, <1>3, SubSeqProperties
<1> QED
  BY <1>4 DEF Block, first, last

LEMMA ReplyTypes ==
    /\ Noise \in Reply /\ Noise \in Request
    /\ \A len \in Nat : BadCrc(len) \in Reply
    /\ \A s \in Seq8 : CapRsp(s) \in Reply /\ Pong(s) \in Reply
    /\ \A s \in Seq8, n \in Nat : HasBlock(n) => RecvBlock(s, n) \in Reply
<1>1. Len(Image) \in Nat /\ Image \in Seq(Byte)
  BY ImageAssumption, LenProperties
<1>2. \A s \in Seq8 : CapRsp(s) \in Reply /\ Pong(s) \in Reply
  BY <1>1 DEF CapRsp, Pong, Reply
<1>3. \A s \in Seq8, n \in Nat : HasBlock(n) => RecvBlock(s, n) \in Reply
  BY BlockType DEF RecvBlock, Reply
<1> QED
  BY <1>2, <1>3 DEF Noise, BadCrc, Reply, Request

(* What a packet's fields are, by its command.                             *)
LEMMA ReplyFields ==
    ASSUME NEW r \in Reply
    PROVE  /\ r.cmd = "CAP_RSP" => r.size \in Nat /\ r.crc \in Seq(Byte)
           /\ r.cmd = "RECV_BLOCK" => r.block \in Nat /\ r.data \in Seq(Byte)
           /\ r.cmd # "NOISE" => PayloadLen(r) \in Nat
<1>1. /\ r.cmd = "CAP_RSP" => r.size \in Nat /\ r.crc \in Seq(Byte)
      /\ r.cmd = "RECV_BLOCK" => r.block \in Nat /\ r.data \in Seq(Byte)
      /\ r.cmd = "BAD_CRC" => r.len \in Nat
      /\ r.cmd \in {"CAP_RSP", "PONG", "RECV_BLOCK", "BAD_CRC", "NOISE"}
  BY DEF Reply
<1>2. r.cmd = "RECV_BLOCK" => Len(r.data) \in Nat
  BY <1>1, LenProperties
<1> QED
  BY <1>1, <1>2 DEF PayloadLen, CapRspLen, StressPayloadLen, RecvBlockHdrLen

(* An undetected error changes the data of a block, or the size in a       *)
(* CAP_RSP, and nothing else.                                              *)
LEMMA Collisions ==
    ASSUME NEW r \in Reply
    PROVE  /\ r.cmd = "RECV_BLOCK" =>
                \A i \in DOMAIN r.data, b \in Byte :
                   OtherData(r, i, b) \in Reply /\ OtherData(r, i, b).cmd = r.cmd
           /\ r.cmd = "CAP_RSP" =>
                \A n \in MisreadSizes :
                   /\ [r EXCEPT !.size = n] \in Reply
                   /\ [r EXCEPT !.size = n].cmd = r.cmd
                   /\ [r EXCEPT !.size = n].crc = r.crc
<1>1. ASSUME r.cmd = "RECV_BLOCK", NEW i \in DOMAIN r.data, NEW b \in Byte
      PROVE  OtherData(r, i, b) \in Reply /\ OtherData(r, i, b).cmd = r.cmd
  <2>1. r \in [cmd : {"RECV_BLOCK"}, seq : Seq8, block : Nat, data : Seq(Byte)]
    BY <1>1 DEF Reply
  <2>2. [r.data EXCEPT ![i] = b] \in Seq(Byte)
    BY <1>1, <2>1, ExceptSeq, LenProperties
  <2> QED
    BY <2>1, <2>2 DEF OtherData, Reply
<1>2. ASSUME r.cmd = "CAP_RSP", NEW n \in MisreadSizes
      PROVE  /\ [r EXCEPT !.size = n] \in Reply
             /\ [r EXCEPT !.size = n].cmd = r.cmd
             /\ [r EXCEPT !.size = n].crc = r.crc
  <2>1. r \in [cmd : {"CAP_RSP"}, seq : Seq8, size : Nat, crc : Seq(Byte)]
    BY <1>2 DEF Reply
  <2>2. n \in Nat
    BY WireAssumption
  <2> QED
    BY <2>1, <2>2 DEF Reply
<1> QED
  BY <1>1, <1>2

(* TypeOK is not inductive by itself: the counters that are decremented    *)
(* must not be 0 where they are, and there must be a file to append to.    *)
Attempts ==
    /\ pc \in {"request", "await_block"} => retry_count > 0
    /\ pc = "await_pong" => stress_left > 0
    /\ Downloading => disk # NoFile

TypeInv == TypeOK /\ Attempts

LEMMA TypeInit == Init => TypeInv
<1> SUFFICES ASSUME Init PROVE TypeInv
  OBVIOUS
<1>1. WireTypeOK
  BY EmptySeq DEF Init, WireInit, WireTypeOK
<1>2. PicoTypeOK
  <2>1. 0 \in Seq8 /\ 0 \in 0 .. MaxBlocks
    BY SizeAssumption DEF Seq8
  <2> QED
    BY <2>1, Zenon DEF Init, PicoInit, PicoTypeOK
<1>3. Stage1TypeOK
  <2>1. unlink_refused \in BOOLEAN
    BY Zenon DEF Init, Stage1Init
  <2> QED
    BY <2>1, Stage1Assumption, EmptySeq
    DEF Init, Stage1Init, Stage1TypeOK, AllModes, Seq8
<1> QED
  BY <1>1, <1>2, <1>3 DEF TypeInv, TypeOK, Attempts, Downloading, Init, Stage1Init

LEMMA WireType == TypeInv /\ Wire => TypeInv'
<1> SUFFICES ASSUME TypeInv, Wire PROVE TypeInv'
  OBVIOUS
<1>1. toPico \in Seq(Request) /\ toHost \in Seq(Reply) /\ faults \in Nat
  BY DEF TypeInv, TypeOK, WireTypeOK
<1>2. UNCHANGED <<picoVars, hostVars>>
  BY DEF Wire
<1>3. toPico # <<>> => /\ Tail(toPico) \in Seq(Request)
                       /\ WithHead(toPico, Noise) \in Seq(Request)
  BY <1>1, ReplyTypes, LaneOps
<1>4. toHost # <<>> => /\ Head(toHost) \in Reply
                       /\ Tail(toHost) \in Seq(Reply)
                       /\ \A p \in Reply : WithHead(toHost, p) \in Seq(Reply)
  BY <1>1, ReplyTypes, LaneOps
<1>5. WireTypeOK'
  <2>1. CASE LoseRequest
    BY <1>1, <1>3, <2>1 DEF LoseRequest, Fault, WireTypeOK
  <2>2. CASE GarbleRequest
    BY <1>1, <1>3, <2>2 DEF GarbleRequest, Fault, WireTypeOK
  <2>3. CASE LoseReply
    BY <1>1, <1>4, <2>3 DEF LoseReply, Fault, WireTypeOK
  <2>4. CASE CorruptReply
    <3>1. Head(toHost) \in Reply /\ Head(toHost).cmd # "NOISE"
      BY <1>4, <2>4 DEF CorruptReply
    <3>2. BadCrc(PayloadLen(Head(toHost))) \in Reply
      BY <3>1, ReplyFields, ReplyTypes
    <3>3. toHost' \in Seq(Reply)
      BY <1>4, <2>4, <3>2, Zenon DEF CorruptReply
    <3> QED
      BY <1>1, <2>4, <3>3 DEF CorruptReply, Fault, WireTypeOK
  <2>5. CASE GarbleReply
    BY <1>1, <1>4, <2>5, ReplyTypes DEF GarbleReply, Fault, WireTypeOK
  <2>6. CASE Collide
    <3>1. toHost' \in Seq(Reply)
      BY <1>4, <2>6, Collisions, Zenon DEF Collide
    <3> QED
      BY <1>1, <2>6, <3>1 DEF Collide, Fault, WireTypeOK
  <2> QED
    BY <2>1, <2>2, <2>3, <2>4, <2>5, <2>6 DEF Wire, WireNext
<1> QED
  BY <1>2, <1>5 DEF TypeInv, TypeOK, PicoTypeOK, Stage1TypeOK, Attempts, Downloading,
                    picoVars, hostVars, capVars, downloadVars

(* What a request's fields are, by its command.                            *)
LEMMA RequestFields ==
    ASSUME NEW r \in Request
    PROVE  /\ r.cmd # "NOISE" => r.seq \in Seq8
           /\ r.cmd \in Numbered => r.block \in Nat
  BY DEF Request, Plain, Numbered

LEMMA PicoType == TypeInv /\ Pico => TypeInv'
<1> SUFFICES ASSUME TypeInv, Pico PROVE TypeInv'
  OBVIOUS
<1>1. /\ toPico \in Seq(Request) /\ toHost \in Seq(Reply) /\ faults \in Nat
      /\ PicoTypeOK
  BY DEF TypeInv, TypeOK, WireTypeOK
<1>2. UNCHANGED hostVars /\ PicoNext
  BY DEF Pico
<1>3. toPico # <<>> => /\ Head(toPico) \in Request
                       /\ Tail(toPico) \in Seq(Request)
                       /\ <<Noise>> \o DropFirst(toPico, 2) \in Seq(Request)
  <2>1. Noise \in Request /\ 2 \in Nat
    BY ReplyTypes
  <2> QED
    BY <1>1, <2>1, LaneOps
<1>4. /\ 0 \in Seq8 /\ 0 \in 0 .. MaxBlocks
      /\ \A s \in Seq8 : NextSeq(s) \in Seq8
  <2>1. 0 \in Seq8 /\ 0 \in 0 .. MaxBlocks
    BY SizeAssumption DEF Seq8
  <2> QED
    BY <2>1, NextSeqType
<1>5. ASSUME NEW r \in Reply PROVE Append(toHost, r) \in Seq(Reply)
  BY <1>1, AppendProperties
<1> DEFINE p == Head(toPico)
<1>6. WireTypeOK' /\ PicoTypeOK'
  <2>1. CASE HandleCapReq
    <3>1. toHost' \in Seq(Reply)
      BY <1>4, <1>5, <2>1, ReplyTypes, Zenon DEF HandleCapReq, Reset, Answer
    <3>2. toPico' \in Seq(Request) /\ faults' \in Nat
      BY <1>1, <1>3, <2>1 DEF HandleCapReq, Reset, Received
    <3>3. PicoTypeOK'
      BY <1>4, <2>1, Zenon DEF HandleCapReq, Reset, PicoTypeOK
    <3> QED
      BY <3>1, <3>2, <3>3 DEF WireTypeOK
  <2>2. CASE HandleCapAck
    <3>1. rx_seq_expected' \in Seq8
      BY <1>3, <1>4, <2>2, RequestFields DEF HandleCapAck, Received, Follow
    <3>2. WireTypeOK'
      BY <1>1, <1>3, <2>2 DEF HandleCapAck, Received, WireTypeOK
    <3> QED
      BY <1>1, <2>2, <3>1, <3>2, Zenon DEF HandleCapAck, PicoTypeOK
  <2>3. CASE HandlePing
    <3>1. /\ rx_seq_expected' \in Seq8 /\ pico_tx_seq' \in Seq8
          /\ expected_block' \in 0 .. MaxBlocks /\ cap_acked' \in BOOLEAN
      BY <1>1, <1>3, <1>4, <2>3, RequestFields
      DEF HandlePing, Received, Follow, PicoTypeOK
    <3>2. toHost' \in Seq(Reply)
      BY <1>1, <1>5, <2>3, ReplyTypes DEF HandlePing, Answer, PicoTypeOK
    <3>3. toPico' \in Seq(Request) /\ faults' \in Nat
      BY <1>1, <1>3, <2>3 DEF HandlePing, Received
    <3> QED
      BY <3>1, <3>2, <3>3 DEF PicoTypeOK, WireTypeOK
  <2>4. CASE HandleSendBlock
    <3>1. /\ rx_seq_expected' \in Seq8 /\ pico_tx_seq' \in Seq8
          /\ expected_block' \in 0 .. MaxBlocks /\ cap_acked' \in BOOLEAN
      BY <1>1, <1>3, <1>4, <2>4, RequestFields
      DEF HandleSendBlock, Received, Follow, PicoTypeOK
    <3>2. p.block \in Nat /\ HasBlock(p.block)
      BY <1>3, <2>4, RequestFields DEF HandleSendBlock, Received, Numbered
    <3>3. RecvBlock(pico_tx_seq, p.block) \in Reply
      BY <1>1, <3>2, ReplyTypes DEF PicoTypeOK
    <3>4. toHost' \in Seq(Reply)
      BY <1>5, <2>4, <3>3, Zenon DEF HandleSendBlock, Answer
    <3>5. toPico' \in Seq(Request) /\ faults' \in Nat
      BY <1>1, <1>3, <2>4 DEF HandleSendBlock, Received
    <3> QED
      BY <3>1, <3>4, <3>5 DEF PicoTypeOK, WireTypeOK
  <2>5. CASE IgnoreSendBlock \/ HandleBlockNak
    <3>1. rx_seq_expected' \in Seq8
      BY <1>3, <1>4, <2>5, RequestFields
      DEF IgnoreSendBlock, HandleBlockNak, Received, Follow
    <3>2. WireTypeOK'
      BY <1>1, <1>3, <2>5 DEF IgnoreSendBlock, HandleBlockNak, Received, WireTypeOK
    <3> QED
      BY <1>1, <2>5, <3>1, <3>2 DEF IgnoreSendBlock, HandleBlockNak, PicoTypeOK
  <2>6. CASE HandleBlockAck
    <3>1. rx_seq_expected' \in Seq8
      BY <1>3, <1>4, <2>6, RequestFields DEF HandleBlockAck, Received, Follow
    <3>2. expected_block' \in 0 .. MaxBlocks
      BY <1>1, <2>6, SizeAssumption DEF HandleBlockAck, Least, PicoTypeOK
    <3>3. WireTypeOK'
      BY <1>1, <1>3, <2>6 DEF HandleBlockAck, Received, WireTypeOK
    <3> QED
      BY <1>1, <2>6, <3>1, <3>2, <3>3 DEF HandleBlockAck, PicoTypeOK
  <2>7. CASE Resync
    BY <1>1, <1>3, <2>7 DEF Resync, Received, picoVars, WireTypeOK, PicoTypeOK
  <2>8. CASE Swallow
    <3>1. toPico # <<>>
      BY <1>1, <2>8, EmptySeq DEF Swallow
    <3> QED
      BY <1>1, <1>3, <2>8, <3>1 DEF Swallow, picoVars, WireTypeOK, PicoTypeOK
  <2> QED
    BY <1>2, <2>1, <2>2, <2>3, <2>4, <2>5, <2>6, <2>7, <2>8 DEF PicoNext
<1> QED
  BY <1>2, <1>6 DEF TypeInv, TypeOK, Stage1TypeOK, Attempts, Downloading,
                    hostVars, capVars, downloadVars

(* What Stage 1 sends is a request.                                        *)
LEMMA HostSends ==
    ASSUME TypeInv, NEW command
    PROVE  /\ Send1(PlainPacket(command)) /\ command \in Plain
                => toPico' \in Seq(Request) /\ host_tx_seq' \in Seq8
           /\ Send1(NumberedPacket(command)) /\ command \in Numbered
                => toPico' \in Seq(Request) /\ host_tx_seq' \in Seq8
<1>1. toPico \in Seq(Request) /\ host_tx_seq \in Seq8 /\ current_block \in Nat
  BY DEF TypeInv, TypeOK, WireTypeOK, Stage1TypeOK
<1>2. command \in Plain => PlainPacket(command) \in Request
  BY <1>1 DEF PlainPacket, Request
<1>3. command \in Numbered => NumberedPacket(command) \in Request
  BY <1>1 DEF NumberedPacket, Request
<1> QED
  BY <1>1, <1>2, <1>3, AppendProperties, NextSeqType DEF Send1

LEMMA HostType == TypeInv /\ Host => TypeInv'
<1> SUFFICES ASSUME TypeInv, Host PROVE TypeInv'
  OBVIOUS
<1>1. WireTypeOK /\ PicoTypeOK /\ Stage1TypeOK /\ Attempts
  BY DEF TypeInv, TypeOK
<1>2. UNCHANGED picoVars /\ Stage1Next
  BY DEF Host
<1>3. \A c \in Plain : Send1(PlainPacket(c))
                        => toPico' \in Seq(Request) /\ host_tx_seq' \in Seq8
  BY HostSends
<1>4. \A c \in Numbered : Send1(NumberedPacket(c))
                        => toPico' \in Seq(Request) /\ host_tx_seq' \in Seq8
  BY HostSends
<1>5. TimedOut => toHost' \in Seq(Reply) /\ faults' \in Nat
  BY <1>1, HostTimesOut DEF WireTypeOK
<1>6. ASSUME NEW lengths, ReadAndRefuse(lengths)
      PROVE  toHost' \in Seq(Reply)
  BY <1>1, <1>6, HostReads, ReplyTypes DEF WireTypeOK
<1>7. toHost # <<>> => Head(toHost) \in Reply /\ Tail(toHost) \in Seq(Reply)
  BY <1>1, HeadTailProperties DEF WireTypeOK
<1>8. /\ StressIterations \in Nat /\ BlockRetries \in Nat \ {0}
      /\ Modes \subseteq AllModes /\ MaxRestarts \in Nat /\ NoFile \notin Seq(Byte)
      /\ <<>> \in Seq(Byte)
  BY Stage1Assumption, EmptySeq
<1>9. WireTypeOK' /\ Stage1TypeOK' /\ Attempts'
  <2> USE DEF wireVars, capVars, downloadVars, Downloading
  <2>1. CASE Negotiate
    BY <1>1, <1>8, <2>1 DEF Negotiate, WireTypeOK, Stage1TypeOK, Attempts, Final
  <2>2. CASE SendCapReq
    BY <1>1, <1>3, <2>2 DEF SendCapReq, WireTypeOK, Stage1TypeOK, Attempts, Plain
  <2>3. CASE RecvCapRsp
    <3>1. /\ toHost' \in Seq(Reply)
          /\ stage2_image_size' \in Nat
          /\ stage2_image_crc32' \in Seq(Byte)
      BY <1>7, <2>3, ReplyFields DEF RecvCapRsp, Framed, Arrived, Reply1
    <3>2. toPico' \in Seq(Request) /\ host_tx_seq' \in Seq8
      BY <1>1, <1>3, <2>3 DEF RecvCapRsp, WireTypeOK, Stage1TypeOK, Plain
    <3> QED
      BY <1>1, <2>3, <3>1, <3>2 DEF RecvCapRsp, WireTypeOK, Stage1TypeOK, Attempts
  <2>4. CASE NoCapRsp
    <3>1. toHost' \in Seq(Reply) /\ faults' \in Nat
      BY <1>1, <1>5, <1>6, <2>4 DEF NoCapRsp, WireTypeOK
    <3> QED
      BY <1>1, <2>4, <3>1 DEF NoCapRsp, WireTypeOK, Stage1TypeOK, Attempts
  <2>5. CASE SendPing
    BY <1>1, <1>3, <2>5 DEF SendPing, WireTypeOK, Stage1TypeOK, Attempts, Plain
  <2>6. CASE StressIteration
    <3>1. toHost' \in Seq(Reply) /\ faults' \in Nat
      BY <1>1, <1>5, <1>6, <2>6 DEF StressIteration, WireTypeOK
    <3> QED
      BY <1>1, <1>8, <2>6, <3>1 DEF StressIteration, WireTypeOK, Stage1TypeOK, Attempts
  <2>7. CASE StressDone
    BY <1>1, <2>7 DEF StressDone, WireTypeOK, Stage1TypeOK, Attempts, Final
  <2>8. CASE CreateFile
    <3>1. /\ disk' \in Seq(Byte) /\ disk' # NoFile /\ crc32_state' \in Seq(Byte)
      BY <1>8, <2>8, Zenon DEF CreateFile, NewFile
    <3>2. current_block' \in Nat /\ retry_count' \in 0 .. BlockRetries /\ retry_count' > 0
      BY <1>8, <2>8 DEF CreateFile, NewFile
    <3>3. pc' = "request" /\ file' = "open"
      BY <2>8 DEF CreateFile, NewFile
    <3>4. UNCHANGED <<wireVars, host_tx_seq, capVars, stress_left, unlink_refused, restarts>>
      BY <2>8 DEF CreateFile, NewFile
    <3> QED
      BY <1>1, <3>1, <3>2, <3>3, <3>4 DEF WireTypeOK, Stage1TypeOK, Attempts
  <2>9. CASE CreateFails
    BY <1>1, <2>9 DEF CreateFails, WireTypeOK, Stage1TypeOK, Attempts, Final
  <2>10. CASE RequestBlock
    BY <1>1, <1>4, <2>10 DEF RequestBlock, WireTypeOK, Stage1TypeOK, Attempts, Numbered
  <2>11. CASE AllBlocksDone
    BY <1>1, <2>11 DEF AllBlocksDone, WireTypeOK, Stage1TypeOK, Attempts
  <2>12. ASSUME BlockArrived, pc = "await_block"
         PROVE  /\ Reply1.data \in Seq(Byte)
                /\ crc32_state \o Reply1.data \in Seq(Byte)
                /\ disk \in Seq(Byte) /\ disk \o Reply1.data \in Seq(Byte)
    <3>1. Reply1.data \in Seq(Byte)
      BY <1>7, <2>12, ReplyFields DEF BlockArrived, Framed, Arrived, Reply1
    <3>2. disk \in Seq(Byte) /\ crc32_state \in Seq(Byte)
      BY <1>1, <2>12 DEF Stage1TypeOK, Attempts
    <3> QED
      BY <3>1, <3>2, ConcatProperties
  <2>13. CASE CommitBlock
    <3>1. /\ toHost' \in Seq(Reply)
          /\ crc32_state' \in Seq(Byte) /\ disk' \in Seq(Byte)
      BY <1>7, <2>12, <2>13 DEF CommitBlock, BlockArrived, Framed, Arrived
    <3>2. toPico' \in Seq(Request) /\ host_tx_seq' \in Seq8
      BY <1>4, <2>13 DEF CommitBlock, Numbered
    <3>3. disk' # NoFile
      BY <1>8, <3>1
    <3>4. current_block' \in Nat /\ retry_count' \in 0 .. BlockRetries /\ retry_count' > 0
      BY <1>1, <1>8, <2>13 DEF CommitBlock, Stage1TypeOK
    <3>5. /\ pc' = "request"
          /\ UNCHANGED <<faults, capVars, stress_left, file, unlink_refused, restarts>>
      BY <2>13 DEF CommitBlock
    <3> QED
      BY <1>1, <3>1, <3>2, <3>3, <3>4, <3>5 DEF WireTypeOK, Stage1TypeOK, Attempts
  <2>14. CASE WriteFails
    <3>1. /\ toHost' \in Seq(Reply)
          /\ crc32_state' \in Seq(Byte)
      BY <1>7, <2>12, <2>14 DEF WriteFails, AfterWriteError, BlockArrived, Framed, Arrived
    <3>2. PICK k \in 0 .. Len(Reply1.data) - 1 :
                 disk' = disk \o SubSeq(Reply1.data, 1, k)
      BY <2>14 DEF WriteFails, AfterWriteError
    <3>3. Reply1.data \in Seq(Byte) /\ disk \in Seq(Byte) /\ Len(Reply1.data) \in Nat
      BY <2>12, <2>14, LenProperties DEF WriteFails, AfterWriteError
    <3>4. \A i \in 1 .. k : Reply1.data[i] \in Byte
      BY <3>2, <3>3, ElementOfSeq
    <3>5. SubSeq(Reply1.data, 1, k) \in Seq(Byte)
      BY <3>2, <3>4, SubSeqProperties
    <3>6. disk' \in Seq(Byte)
      BY <3>2, <3>3, <3>5, ConcatProperties
    <3> QED
      BY <1>1, <2>14, <3>1, <3>6 DEF WriteFails, AfterWriteError, WireTypeOK, Stage1TypeOK, Attempts
  <2>15. CASE RefuseBlock
    <3>1. toHost' \in Seq(Reply) /\ faults' \in Nat
      BY <1>1, <1>5, <1>6, <2>15 DEF RefuseBlock, AttemptsRemain, WireTypeOK
    <3>2. toPico' \in Seq(Request) /\ host_tx_seq' \in Seq8
      BY <1>1, <1>4, <2>15 DEF RefuseBlock, AttemptsRemain, WireTypeOK, Stage1TypeOK, Numbered
    <3>3. retry_count' \in 0 .. BlockRetries /\ (pc' = "request" => retry_count' > 0)
      BY <1>1, <1>8, <2>15 DEF RefuseBlock, AttemptsRemain, Stage1TypeOK, Attempts
    <3> QED
      BY <1>1, <2>15, <3>1, <3>2, <3>3 DEF RefuseBlock, AttemptsRemain, WireTypeOK, Stage1TypeOK, Attempts
  <2>16. CASE AbortDownload
    BY <1>1, <2>16 DEF AbortDownload, Unlink, WireTypeOK, Stage1TypeOK, Attempts, Final
  <2>17. CASE CloseFails
    BY <1>1, <2>17 DEF CloseFails, WireTypeOK, Stage1TypeOK, Attempts
  <2>18. CASE VerifyCrc
    BY <1>1, <2>18 DEF VerifyCrc, Unlink, WireTypeOK, Stage1TypeOK, Attempts, Final
  <2>19. CASE ExecStage2
    BY <1>1, <2>19 DEF ExecStage2, WireTypeOK, Stage1TypeOK, Attempts, Final
  <2> QED
    BY <1>2, <2>1, <2>2, <2>3, <2>4, <2>5, <2>6, <2>7, <2>8, <2>9, <2>10, <2>11,
       <2>13, <2>14, <2>15, <2>16, <2>17, <2>18, <2>19 DEF Stage1Next
<1> QED
  BY <1>1, <1>2, <1>9 DEF TypeInv, TypeOK, PicoTypeOK, picoVars

LEMMA RebootType == TypeInv /\ Reboot => TypeInv'
<1> SUFFICES ASSUME TypeInv, Reboot PROVE TypeInv'
  OBVIOUS
<1>1. <<>> \in Seq(Reply) /\ <<>> \in Seq(Byte) /\ 1 \in Seq8
  BY EmptySeq DEF Seq8
<1>2. WireTypeOK'
  BY <1>1 DEF TypeInv, TypeOK, Reboot, PowerCycle, WireTypeOK
<1>3. Stage1TypeOK'
  <2>1. unlink_refused' \in BOOLEAN
    BY Zenon DEF Reboot, PowerCycle
  <2> QED
    BY <1>1, <2>1, Stage1Assumption
    DEF TypeInv, TypeOK, Reboot, PowerCycle, Stage1TypeOK, AllModes
<1> QED
  BY <1>2, <1>3 DEF TypeInv, TypeOK, Reboot, PowerCycle, picoVars, PicoTypeOK,
                    Attempts, Downloading

LEMMA TypeStep == TypeInv /\ [Next]_vars => TypeInv'
<1> SUFFICES ASSUME TypeInv, [Next]_vars PROVE TypeInv'
  OBVIOUS
<1>1. CASE UNCHANGED vars
  BY <1>1 DEF vars, wireVars, picoVars, hostVars, capVars, downloadVars, TypeInv,
              TypeOK, WireTypeOK, PicoTypeOK, Stage1TypeOK, Attempts, Downloading
<1> QED
  BY <1>1, HostType, PicoType, WireType, RebootType DEF Next, Rest

(* Every variable keeps its type: no counter underflows and nothing is     *)
(* appended to a file that is not there.                                   *)
THEOREM TypeCorrect == Spec => []TypeOK
<1>1. TypeInv => TypeOK
  BY DEF TypeInv
<1> QED
  BY <1>1, TypeInit, TypeStep, PTL DEF Spec

---------------------------------------------------------------------------
(* The image is what is executed.                                          *)

(* The wire may change the size a CAP_RSP announces, never its CRC.        *)
Honest == {r \in Reply : r.cmd = "CAP_RSP" => r.crc = Image}

BeforeFile == {"negotiate", "cap_req", "await_cap_rsp", "stress", "await_pong", "create"}

(* From the announced CRC to the EXEC: a size is never known without the   *)
(* CRC of the Image, the running CRC is that of the file while it is       *)
(* written, and so a match at the end is a match of the file with the      *)
(* Image.                                                                  *)
CopyInv ==
    /\ toHost \in Seq(Honest)
    /\ stage2_image_size # 0 => stage2_image_crc32 = Image
    /\ pc = "create" \/ Downloading => stage2_image_size # 0
    /\ pc \in BeforeFile => file = "none"
    /\ Downloading => file = "open" /\ disk = crc32_state
    /\ pc = "abort" => file # "none"
    /\ pc \in {"exec", "executed"} => file = "closed" /\ disk = Image
    /\ NoPartialFileAfterFailure

LEMMA HonestReplies ==
    /\ Noise \in Honest
    /\ \A len \in Nat : BadCrc(len) \in Honest
    /\ \A s \in Seq8 : CapRsp(s) \in Honest /\ Pong(s) \in Honest
    /\ \A s \in Seq8, n \in Nat : HasBlock(n) => RecvBlock(s, n) \in Honest
  BY ReplyTypes DEF Honest, Noise, BadCrc, CapRsp, Pong, RecvBlock

LEMMA CopyInit == Init => CopyInv
  BY EmptySeq DEF Init, WireInit, PicoInit, Stage1Init, CopyInv, Downloading,
                  BeforeFile, NoPartialFileAfterFailure

LEMMA CopyWire == TypeInv /\ CopyInv /\ Wire => CopyInv'
<1> SUFFICES ASSUME TypeInv, CopyInv, Wire PROVE CopyInv'
  OBVIOUS
<1>1. toHost \in Seq(Honest) /\ UNCHANGED hostVars
  BY DEF CopyInv, Wire
<1>2. toHost # <<>> => /\ Head(toHost) \in Honest
                       /\ Tail(toHost) \in Seq(Honest)
                       /\ \A p \in Honest : WithHead(toHost, p) \in Seq(Honest)
  BY <1>1, HonestReplies, LaneOps
<1>3. toHost' \in Seq(Honest)
  <2> DEFINE r == Head(toHost)
  <2>1. CASE LoseRequest \/ GarbleRequest
    BY <1>1, <2>1 DEF LoseRequest, GarbleRequest
  <2>2. CASE LoseReply
    BY <1>2, <2>2 DEF LoseReply
  <2>3. CASE CorruptReply
    <3>1. r \in Reply /\ r.cmd # "NOISE"
      BY <1>2, <2>3 DEF CorruptReply, Honest
    <3>2. BadCrc(PayloadLen(r)) \in Honest
      BY <3>1, ReplyFields, HonestReplies
    <3> QED
      BY <1>2, <2>3, <3>2, Zenon DEF CorruptReply
  <2>4. CASE GarbleReply
    BY <1>2, <2>4, HonestReplies DEF GarbleReply
  <2>5. CASE Collide
    <3>1. r \in Reply /\ (r.cmd = "CAP_RSP" => r.crc = Image)
      BY <1>2, <2>5 DEF Collide, Honest
    <3>2. r.cmd = "RECV_BLOCK" =>
            \A i \in DOMAIN r.data, b \in Byte : OtherData(r, i, b) \in Honest
      BY <3>1, Collisions DEF Honest
    <3>3. r.cmd = "CAP_RSP" =>
            \A n \in MisreadSizes : [r EXCEPT !.size = n] \in Honest
      BY <3>1, Collisions DEF Honest
    <3> QED
      BY <1>2, <2>5, <3>2, <3>3, Zenon DEF Collide
  <2> QED
    BY <2>1, <2>2, <2>3, <2>4, <2>5 DEF Wire, WireNext
<1> QED
  BY <1>1, <1>3 DEF CopyInv, Downloading, NoPartialFileAfterFailure,
                    hostVars, capVars, downloadVars

LEMMA CopyPico == TypeInv /\ CopyInv /\ Pico => CopyInv'
<1> SUFFICES ASSUME TypeInv, CopyInv, Pico PROVE CopyInv'
  OBVIOUS
<1>1. toHost \in Seq(Honest) /\ UNCHANGED hostVars /\ PicoNext
  BY DEF CopyInv, Pico
<1>2. ASSUME NEW r \in Honest PROVE Append(toHost, r) \in Seq(Honest)
  BY <1>1, AppendProperties
<1>3. pico_tx_seq \in Seq8 /\ 0 \in Seq8 /\ toPico \in Seq(Request)
  BY DEF TypeInv, TypeOK, WireTypeOK, PicoTypeOK, Seq8
<1>4. toHost' \in Seq(Honest)
  <2>1. CASE HandleCapReq
    BY <1>2, <1>3, <2>1, HonestReplies DEF HandleCapReq, Reset, Answer
  <2>2. CASE HandlePing
    BY <1>2, <1>3, <2>2, HonestReplies DEF HandlePing, Answer
  <2>3. CASE HandleSendBlock
    <3>1. Head(toPico).block \in Nat /\ HasBlock(Head(toPico).block)
      BY <1>3, <2>3, RequestFields, HeadTailProperties
      DEF HandleSendBlock, Received, Numbered
    <3>2. RecvBlock(pico_tx_seq, Head(toPico).block) \in Honest
      BY <1>3, <3>1, HonestReplies
    <3> QED
      BY <1>2, <2>3, <3>2 DEF HandleSendBlock, Answer
  <2>4. CASE HandleCapAck \/ IgnoreSendBlock \/ HandleBlockAck \/ HandleBlockNak
               \/ Resync \/ Swallow
    BY <1>1, <2>4 DEF HandleCapAck, IgnoreSendBlock, HandleBlockAck, HandleBlockNak,
                      Resync, Swallow
  <2> QED
    BY <1>1, <2>1, <2>2, <2>3, <2>4 DEF PicoNext
<1> QED
  BY <1>1, <1>4 DEF CopyInv, Downloading, NoPartialFileAfterFailure,
                    hostVars, capVars, downloadVars

LEMMA CopyHost == TypeInv /\ CopyInv /\ Host => CopyInv'
<1> SUFFICES ASSUME TypeInv, CopyInv, Host PROVE CopyInv'
  OBVIOUS
<1> USE DEF Downloading, BeforeFile, NoPartialFileAfterFailure, wireVars, capVars,
            downloadVars
<1>1. CopyInv /\ toHost \in Seq(Honest) /\ Stage1Next
  BY DEF CopyInv, Host
<1>2. toHost # <<>> => Head(toHost) \in Honest /\ Tail(toHost) \in Seq(Honest)
  BY <1>1, HeadTailProperties
<1>3. TimedOut => toHost' \in Seq(Honest)
  BY <1>1, HostTimesOut DEF TypeInv, TypeOK, WireTypeOK
<1>4. ASSUME NEW lengths, ReadAndRefuse(lengths)
      PROVE  toHost' \in Seq(Honest)
  BY <1>1, <1>4, HostReads, HonestReplies
<1>5. CASE Negotiate
  BY <1>1, <1>5 DEF Negotiate, CopyInv
<1>6. CASE SendCapReq
  BY <1>1, <1>6 DEF SendCapReq, CopyInv
<1>7. CASE RecvCapRsp
  <2>1. toHost' \in Seq(Honest) /\ stage2_image_crc32' = Image
    BY <1>2, <1>7 DEF RecvCapRsp, Framed, Arrived, Reply1, Honest
  <2> QED
    BY <1>1, <1>7, <2>1 DEF RecvCapRsp, CopyInv
<1>8. CASE NoCapRsp
  <2>1. toHost' \in Seq(Honest)
    BY <1>3, <1>4, <1>8 DEF NoCapRsp
  <2> QED
    BY <1>1, <1>8, <2>1 DEF NoCapRsp, CopyInv
<1>9. CASE SendPing
  BY <1>1, <1>9 DEF SendPing, CopyInv
<1>10. CASE StressIteration
  <2>1. toHost' \in Seq(Honest)
    BY <1>3, <1>4, <1>10 DEF StressIteration
  <2> QED
    BY <1>1, <1>10, <2>1 DEF StressIteration, CopyInv
<1>11. CASE StressDone
  BY <1>1, <1>11 DEF StressDone, CopyInv
<1>12. CASE CreateFile
  BY <1>1, <1>12 DEF CreateFile, NewFile, CopyInv
<1>13. CASE CreateFails
  BY <1>1, <1>13 DEF CreateFails, CopyInv
<1>14. CASE RequestBlock
  BY <1>1, <1>14 DEF RequestBlock, CopyInv
<1>15. CASE AllBlocksDone
  BY <1>1, <1>15 DEF AllBlocksDone, CopyInv
<1>16. CASE CommitBlock
  BY <1>1, <1>2, <1>16 DEF CommitBlock, BlockArrived, Framed, Arrived, CopyInv
<1>17. CASE WriteFails
  BY <1>1, <1>2, <1>17 DEF WriteFails, AfterWriteError, BlockArrived, Framed, Arrived, CopyInv
<1>18. CASE RefuseBlock
  <2>1. toHost' \in Seq(Honest)
    BY <1>3, <1>4, <1>18 DEF RefuseBlock, AttemptsRemain
  <2> QED
    BY <1>1, <1>18, <2>1 DEF RefuseBlock, AttemptsRemain, CopyInv
<1>19. CASE AbortDownload
  BY <1>1, <1>19 DEF AbortDownload, Unlink, CopyInv
<1>20. CASE CloseFails
  BY <1>1, <1>20 DEF CloseFails, CopyInv
<1>21. CASE VerifyCrc
  BY <1>1, <1>21 DEF VerifyCrc, CrcMatches, Unlink, CopyInv
<1>22. CASE ExecStage2
  BY <1>1, <1>22 DEF ExecStage2, CopyInv
<1> QED
  BY <1>1, <1>5, <1>6, <1>7, <1>8, <1>9, <1>10, <1>11, <1>12, <1>13, <1>14, <1>15,
     <1>16, <1>17, <1>18, <1>19, <1>20, <1>21, <1>22 DEF Stage1Next

LEMMA CopyReboot == CopyInv /\ Reboot => CopyInv'
  BY EmptySeq DEF CopyInv, Reboot, PowerCycle, Downloading, BeforeFile,
                  NoPartialFileAfterFailure

LEMMA CopyStep == TypeInv /\ CopyInv /\ [Next]_vars => CopyInv'
<1> SUFFICES ASSUME TypeInv, CopyInv, [Next]_vars PROVE CopyInv'
  OBVIOUS
<1>1. CASE UNCHANGED vars
  BY <1>1 DEF vars, wireVars, hostVars, capVars, downloadVars, CopyInv, Downloading,
              BeforeFile, NoPartialFileAfterFailure
<1> QED
  BY <1>1, CopyHost, CopyPico, CopyWire, CopyReboot DEF Next, Rest

LEMMA CopyCorrect == Spec => [](TypeInv /\ CopyInv)
  BY TypeInit, TypeStep, CopyInit, CopyStep, PTL DEF Spec

(* Only the Image is ever executed.                                        *)
THEOREM OnlyTheImageRuns == Spec => []ExecExact
<1>1. CopyInv => ExecExact
  BY DEF CopyInv, ExecExact
<1> QED
  BY <1>1, CopyCorrect, PTL

(* The running CRC-32 is the CRC of the file.                              *)
THEOREM CrcVouchesForDisk == Spec => []CrcCoversDisk
<1>1. CopyInv => CrcCoversDisk
  BY DEF CopyInv, CrcCoversDisk
<1> QED
  BY <1>1, CopyCorrect, PTL

(* A download that fails leaves no part of the image behind.               *)
THEOREM FailureLeavesNoPart == Spec => []NoPartialFileAfterFailure
<1>1. CopyInv => NoPartialFileAfterFailure
  BY DEF CopyInv
<1> QED
  BY <1>1, CopyCorrect, PTL

---------------------------------------------------------------------------
(* The bootstrap implements the abstract transfer.                         *)

(* What is written is appended: the old contents stay where they were.     *)
LEMMA AppendExtends ==
    ASSUME NEW S, NEW s \in Seq(S), NEW t \in Seq(S)
    PROVE  Transfer!Extends(s, s \o t) /\ Transfer!Extends(s, s)
<1>1. /\ s \o t \in Seq(S) /\ Len(s \o t) = Len(s) + Len(t)
      /\ Len(s) \in Nat /\ Len(t) \in Nat
      /\ \A i \in 1 .. Len(s) : (s \o t)[i] = s[i]
  BY ConcatProperties, LenProperties
<1>2. \A i \in 1 .. Len(s) : (s \o t)[i] \in S
  BY <1>1, ElementOfSeq
<1> DEFINE u == s \o t
           n == Len(s)
<1>3. /\ SubSeq(u, 1, n) \in Seq(S)
      /\ Len(SubSeq(u, 1, n)) = n
      /\ \A i \in 1 .. n : SubSeq(u, 1, n)[i] = u[i]
  <2>1. n \in Nat /\ \A i \in 1 .. n : u[i] \in S
    BY <1>1, <1>2
  <2> HIDE DEF u, n
  <2> QED
    BY <2>1, SubSeqProperties
<1>4. SubSeq(s \o t, 1, Len(s)) = s
  BY <1>1, <1>3, SeqEqual
<1>5. SubSeq(s, 1, Len(s)) = s
  BY SubSeqFull
<1> QED
  BY <1>1, <1>4, <1>5 DEF Transfer!Extends

LEMMA RefinementInit == Init => Transfer!Init
  BY DEF Init, Stage1Init, Transfer!Init, Final

LEMMA RefinementHost ==
    TypeInv /\ CopyInv /\ Host => [Transfer!Next]_Transfer!vars
<1> SUFFICES ASSUME TypeInv, CopyInv, Host PROVE [Transfer!Next]_Transfer!vars
  OBVIOUS
<1> USE DEF Downloading, BeforeFile, Final, downloadVars, Transfer!vars
<1>1. CopyInv /\ Stage1Next
  BY DEF Host
<1>2. CASE Negotiate \/ SendCapReq \/ RecvCapRsp \/ NoCapRsp \/ SendPing
             \/ StressIteration \/ StressDone \/ CreateFails
  BY <1>1, <1>2 DEF Negotiate, SendCapReq, RecvCapRsp, NoCapRsp, SendPing,
                    StressIteration, StressDone, CreateFails, CopyInv,
                    Transfer!Next, Transfer!GiveUp
<1>3. CASE RequestBlock \/ AllBlocksDone \/ RefuseBlock
  BY <1>3 DEF RequestBlock, AllBlocksDone, RefuseBlock, AttemptsRemain
<1>4. CASE CreateFile
  BY <1>1, <1>4 DEF CreateFile, NewFile, CopyInv, Transfer!Next, Transfer!Create
<1>5. CASE CommitBlock \/ WriteFails
  <2>1. pc = "await_block" /\ BlockArrived /\ file = "open"
    BY <1>1, <1>5 DEF CommitBlock, WriteFails, AfterWriteError, CopyInv
  <2>2. Reply1.data \in Seq(Byte) /\ Len(Reply1.data) \in Nat /\ disk \in Seq(Byte)
    <3>1. toHost \in Seq(Reply) /\ toHost # <<>>
      BY <2>1 DEF TypeInv, TypeOK, WireTypeOK, BlockArrived, Framed, Arrived
    <3>2. Reply1.data \in Seq(Byte)
      BY <2>1, <3>1, HeadTailProperties, ReplyFields DEF BlockArrived, Framed, Reply1
    <3> QED
      BY <2>1, <3>2, LenProperties DEF TypeInv, TypeOK, Stage1TypeOK, Attempts
  <2>3. \E t \in Seq(Byte) : disk' = disk \o t
    <3>1. CASE CommitBlock
      BY <2>2, <3>1 DEF CommitBlock
    <3>2. CASE WriteFails
      <4>1. PICK k \in 0 .. Len(Reply1.data) - 1 :
                   disk' = disk \o SubSeq(Reply1.data, 1, k)
        BY <3>2 DEF WriteFails, AfterWriteError
      <4>2. \A i \in 1 .. k : Reply1.data[i] \in Byte
        BY <2>2, <4>1, ElementOfSeq
      <4>3. SubSeq(Reply1.data, 1, k) \in Seq(Byte)
        BY <4>1, <4>2, SubSeqProperties
      <4> QED
        BY <4>1, <4>3
    <3> QED
      BY <1>5, <3>1, <3>2
  <2>4. Transfer!Extends(disk, disk')
    BY <2>2, <2>3, AppendExtends
  <2>5. pc' \notin Final /\ UNCHANGED file
    BY <1>5 DEF CommitBlock, WriteFails, AfterWriteError
  <2> QED
    BY <2>1, <2>4, <2>5 DEF Transfer!Next, Transfer!Grow
<1>6. CASE AbortDownload
  BY <1>1, <1>6 DEF AbortDownload, Unlink, CopyInv, Transfer!Next, Transfer!GiveUp
<1>7. CASE CloseFails
  BY <1>1, <1>7 DEF CloseFails, CopyInv
<1>8. CASE VerifyCrc
  BY <1>1, <1>8 DEF VerifyCrc, Unlink, CopyInv, Transfer!Next, Transfer!GiveUp
<1>9. CASE ExecStage2
  BY <1>1, <1>9 DEF ExecStage2, CopyInv, Transfer!Next, Transfer!GiveUp, Transfer!Execute
<1> QED
  BY <1>1, <1>2, <1>3, <1>4, <1>5, <1>6, <1>7, <1>8, <1>9 DEF Stage1Next

LEMMA RefinementStep ==
    TypeInv /\ CopyInv /\ [Next]_vars => [Transfer!Next]_Transfer!vars
<1> SUFFICES ASSUME TypeInv, CopyInv, [Next]_vars
             PROVE  [Transfer!Next]_Transfer!vars
  OBVIOUS
<1>1. CASE Pico \/ Wire \/ Rest \/ UNCHANGED vars
  BY <1>1 DEF Pico, Wire, Rest, vars, hostVars, downloadVars, Transfer!vars
<1>2. CASE Reboot
  BY <1>2 DEF Reboot, PowerCycle, Final, Transfer!Next, Transfer!Rerun
<1> QED
  BY <1>1, <1>2, RefinementHost DEF Next

(* Whatever the wire, DOS and the operator do, the bootstrap is a transfer *)
(* that grows the file by appending, executes nothing but the Image and    *)
(* cleans up after itself.                                                 *)
THEOREM BootstrapImplementsTransfer == Spec => ImplementsTransfer
  BY RefinementInit, RefinementStep, CopyCorrect, PTL
  DEF Spec, ImplementsTransfer, Transfer!Spec

---------------------------------------------------------------------------
(* Blocks reach the file in order, and once.                               *)

(* Without undetected errors a reply that frames is as the Pico sent it.   *)
Intact == {r \in Reply : /\ r.cmd = "CAP_RSP" => r.size = Len(Image)
                         /\ r.cmd = "RECV_BLOCK" =>
                               HasBlock(r.block) /\ r.data = Block(r.block)}

PrefixInv ==
    /\ toHost \in Seq(Intact)
    /\ stage2_image_size \in {0, Len(Image)}
    /\ CommittedPrefix

LEMMA IntactReplies ==
    /\ Noise \in Intact
    /\ \A len \in Nat : BadCrc(len) \in Intact
    /\ \A s \in Seq8 : CapRsp(s) \in Intact /\ Pong(s) \in Intact
    /\ \A s \in Seq8, n \in Nat : HasBlock(n) => RecvBlock(s, n) \in Intact
<1>1. \A s \in Seq8, n \in Nat :
        HasBlock(n) => /\ RecvBlock(s, n).cmd = "RECV_BLOCK"
                       /\ RecvBlock(s, n).block = n
                       /\ RecvBlock(s, n).data = Block(n)
  BY DEF RecvBlock
<1>2. \A s \in Seq8, n \in Nat : HasBlock(n) => RecvBlock(s, n) \in Intact
  BY <1>1, ReplyTypes DEF Intact
<1> QED
  BY <1>2, ReplyTypes DEF Intact, Noise, BadCrc, CapRsp, Pong

(* The next block of the image continues the prefix before it.             *)
LEMMA NextBlock ==
    ASSUME NEW n \in Nat, HasBlock(n)
    PROVE  SubSeq(Image, 1, Least(n * BlockSize, Len(Image))) \o Block(n)
             = SubSeq(Image, 1, Least((n + 1) * BlockSize, Len(Image)))
<1> DEFINE k == n * BlockSize
           last == Least((n + 1) * BlockSize, Len(Image))
<1>1. /\ k \in Nat /\ k < Len(Image) /\ Len(Image) \in Nat
      /\ (n + 1) * BlockSize = k + BlockSize /\ BlockSize \in Nat
  BY SizeAssumption, ImageAssumption, LenProperties DEF HasBlock
<1>2. Least(k, Len(Image)) = k
  BY <1>1 DEF Least
<1>3. last \in k .. Len(Image)
  BY <1>1 DEF Least
<1>4. SubSeq(Image, 1, k) \o SubSeq(Image, k + 1, last) = SubSeq(Image, 1, last)
  <2>1. 1 \in 1 .. Len(Image) + 1 /\ k \in 1 - 1 .. Len(Image)
    BY <1>1
  <2> HIDE DEF k, last
  <2> QED
    BY <1>3, <2>1, ImageAssumption, ConcatAdjacentSubSeq
<1> QED
  BY <1>2, <1>4 DEF Block

LEMMA PrefixInit == Init => PrefixInv
  BY EmptySeq DEF Init, WireInit, Stage1Init, PrefixInv, CommittedPrefix, Downloading

LEMMA PrefixWire ==
    ASSUME "collide" \notin FaultKinds, TypeInv, PrefixInv, Wire
    PROVE  PrefixInv'
<1>1. toHost \in Seq(Intact) /\ UNCHANGED hostVars
  BY DEF PrefixInv, Wire
<1>2. toHost # <<>> => /\ Head(toHost) \in Intact
                       /\ Tail(toHost) \in Seq(Intact)
                       /\ \A p \in Intact : WithHead(toHost, p) \in Seq(Intact)
  BY <1>1, IntactReplies, LaneOps
<1>3. toHost' \in Seq(Intact)
  <2>1. CASE LoseRequest \/ GarbleRequest
    BY <1>1, <2>1 DEF LoseRequest, GarbleRequest
  <2>2. CASE LoseReply
    BY <1>2, <2>2 DEF LoseReply
  <2>3. CASE CorruptReply
    <3>1. Head(toHost) \in Reply /\ Head(toHost).cmd # "NOISE"
      BY <1>2, <2>3 DEF CorruptReply, Intact
    <3>2. BadCrc(PayloadLen(Head(toHost))) \in Intact
      BY <3>1, ReplyFields, IntactReplies
    <3> QED
      BY <1>2, <2>3, <3>2, Zenon DEF CorruptReply
  <2>4. CASE GarbleReply
    BY <1>2, <2>4, IntactReplies DEF GarbleReply
  <2> QED
    BY <2>1, <2>2, <2>3, <2>4 DEF Wire, WireNext, Collide, Fault
<1> QED
  BY <1>1, <1>3 DEF PrefixInv, CommittedPrefix, Downloading, hostVars, capVars, downloadVars

LEMMA PrefixPico ==
    ASSUME TypeInv, PrefixInv, Pico
    PROVE  PrefixInv'
<1>1. toHost \in Seq(Intact) /\ UNCHANGED hostVars /\ PicoNext
  BY DEF PrefixInv, Pico
<1>2. ASSUME NEW r \in Intact PROVE Append(toHost, r) \in Seq(Intact)
  BY <1>1, AppendProperties
<1>3. pico_tx_seq \in Seq8 /\ 0 \in Seq8 /\ toPico \in Seq(Request)
  BY DEF TypeInv, TypeOK, WireTypeOK, PicoTypeOK, Seq8
<1>4. toHost' \in Seq(Intact)
  <2>1. CASE HandleCapReq
    BY <1>2, <1>3, <2>1, IntactReplies DEF HandleCapReq, Reset, Answer
  <2>2. CASE HandlePing
    BY <1>2, <1>3, <2>2, IntactReplies DEF HandlePing, Answer
  <2>3. CASE HandleSendBlock
    <3>1. Head(toPico).block \in Nat /\ HasBlock(Head(toPico).block)
      BY <1>3, <2>3, RequestFields, HeadTailProperties
      DEF HandleSendBlock, Received, Numbered
    <3>2. RecvBlock(pico_tx_seq, Head(toPico).block) \in Intact
      BY <1>3, <3>1, IntactReplies
    <3> QED
      BY <1>2, <2>3, <3>2 DEF HandleSendBlock, Answer
  <2>4. CASE HandleCapAck \/ IgnoreSendBlock \/ HandleBlockAck \/ HandleBlockNak
               \/ Resync \/ Swallow
    BY <1>1, <2>4 DEF HandleCapAck, IgnoreSendBlock, HandleBlockAck, HandleBlockNak,
                      Resync, Swallow
  <2> QED
    BY <1>1, <2>1, <2>2, <2>3, <2>4 DEF PicoNext
<1> QED
  BY <1>1, <1>4 DEF PrefixInv, CommittedPrefix, Downloading, hostVars, capVars, downloadVars

LEMMA PrefixHost ==
    ASSUME TypeInv, PrefixInv, Host
    PROVE  PrefixInv'
<1> USE DEF Downloading, wireVars, capVars, downloadVars
<1>1. PrefixInv /\ toHost \in Seq(Intact) /\ Stage1Next
  BY DEF PrefixInv, Host
<1>2. toHost # <<>> => Head(toHost) \in Intact /\ Tail(toHost) \in Seq(Intact)
  BY <1>1, HeadTailProperties
<1>3. TimedOut => toHost' \in Seq(Intact)
  BY <1>1, HostTimesOut DEF TypeInv, TypeOK, WireTypeOK
<1>4. ASSUME NEW lengths, ReadAndRefuse(lengths)
      PROVE  toHost' \in Seq(Intact)
  BY <1>1, <1>4, HostReads, IntactReplies
<1>5. CASE Negotiate \/ SendCapReq \/ SendPing \/ StressDone \/ CreateFails
  BY <1>1, <1>5 DEF Negotiate, SendCapReq, SendPing, StressDone, CreateFails, Final,
                    PrefixInv, CommittedPrefix
<1>6. CASE RecvCapRsp
  <2>1. toHost' \in Seq(Intact) /\ stage2_image_size' = Len(Image)
    BY <1>2, <1>6 DEF RecvCapRsp, Framed, Arrived, Reply1, Intact
  <2> QED
    BY <1>6, <2>1 DEF RecvCapRsp, PrefixInv, CommittedPrefix
<1>7. CASE NoCapRsp
  <2>1. toHost' \in Seq(Intact)
    BY <1>3, <1>4, <1>7 DEF NoCapRsp
  <2> QED
    BY <1>1, <1>7, <2>1 DEF NoCapRsp, PrefixInv, CommittedPrefix
<1>8. CASE StressIteration
  <2>1. toHost' \in Seq(Intact)
    BY <1>3, <1>4, <1>8 DEF StressIteration
  <2> QED
    BY <1>1, <1>8, <2>1 DEF StressIteration, PrefixInv, CommittedPrefix
<1>9. CASE CreateFile
  <2>1. Least(0 * BlockSize, Len(Image)) = 0
    BY SizeAssumption, ImageAssumption, LenProperties DEF Least
  <2>2. SubSeq(Image, 1, 0) = <<>>
    BY SubSeqEmpty
  <2> QED
    BY <1>1, <1>9, <2>1, <2>2 DEF CreateFile, NewFile, PrefixInv, CommittedPrefix
<1>10. CASE RequestBlock \/ AllBlocksDone
  BY <1>1, <1>10 DEF RequestBlock, AllBlocksDone, PrefixInv, CommittedPrefix
<1>11. CASE CommitBlock
  <2>1. /\ Reply1 \in Intact /\ Reply1.cmd = "RECV_BLOCK"
        /\ Reply1.block = current_block /\ toHost' \in Seq(Intact)
    BY <1>2, <1>11 DEF CommitBlock, BlockArrived, Framed, Arrived, Reply1
  <2>2. HasBlock(current_block) /\ Reply1.data = Block(current_block)
    BY <2>1 DEF Intact
  <2>3. current_block \in Nat
    BY DEF TypeInv, TypeOK, Stage1TypeOK
  <2>4. disk' = SubSeq(Image, 1, Least((current_block + 1) * BlockSize, Len(Image)))
    BY <1>1, <1>11, <2>2, <2>3, NextBlock DEF CommitBlock, PrefixInv, CommittedPrefix
  <2> QED
    BY <1>1, <1>11, <2>1, <2>4 DEF CommitBlock, PrefixInv, CommittedPrefix
<1>12. CASE WriteFails
  BY <1>1, <1>2, <1>12 DEF WriteFails, AfterWriteError, BlockArrived, Framed, Arrived, PrefixInv, CommittedPrefix
<1>13. CASE RefuseBlock
  <2>1. toHost' \in Seq(Intact)
    BY <1>3, <1>4, <1>13 DEF RefuseBlock, AttemptsRemain
  <2> QED
    BY <1>1, <1>13, <2>1 DEF RefuseBlock, AttemptsRemain, PrefixInv, CommittedPrefix
<1>14. CASE AbortDownload \/ CloseFails \/ VerifyCrc \/ ExecStage2
  BY <1>1, <1>14 DEF AbortDownload, CloseFails, VerifyCrc, ExecStage2,
                     PrefixInv, CommittedPrefix
<1> QED
  BY <1>1, <1>5, <1>6, <1>7, <1>8, <1>9, <1>10, <1>11, <1>12, <1>13, <1>14 DEF Stage1Next

LEMMA PrefixStep ==
    ASSUME "collide" \notin FaultKinds
    PROVE  TypeInv /\ PrefixInv /\ [Next]_vars => PrefixInv'
<1> SUFFICES ASSUME TypeInv, PrefixInv, [Next]_vars PROVE PrefixInv'
  OBVIOUS
<1>1. CASE UNCHANGED vars
  BY <1>1 DEF vars, wireVars, hostVars, capVars, downloadVars, PrefixInv,
              CommittedPrefix, Downloading
<1>2. CASE Reboot
  BY <1>2, EmptySeq DEF Reboot, PowerCycle, PrefixInv, CommittedPrefix, Downloading
<1> QED
  BY <1>1, <1>2, PrefixHost, PrefixPico, PrefixWire DEF Next, Rest

(* Unless a damaged block passes the CRC-16, the file is at all times the  *)
(* image up to a block boundary: no retry, duplicate or late reply puts a  *)
(* block in twice or out of order.                                         *)
THEOREM BlocksInOrder ==
    ASSUME "collide" \notin FaultKinds
    PROVE  Spec => []CommittedPrefix
<1>1. PrefixInv => CommittedPrefix
  BY DEF PrefixInv
<1> QED
  BY <1>1, TypeInit, TypeStep, PrefixInit, PrefixStep, PTL DEF Spec

---------------------------------------------------------------------------
(* The Pico never counts a block that is not on disk.                      *)

Unacked == {r \in Request : r.cmd # "BLOCK_ACK"}
AckedBefore(n) == {r \in Request : r.cmd = "BLOCK_ACK" => r.block < n}
NotCapRsp == {r \in Reply : r.cmd # "CAP_RSP"}

(* Before the file exists no acknowledgement is under way, and a count     *)
(* left by an earlier run has been reset by the time Stage 1 can learn a   *)
(* size.  Afterwards acknowledgements under way are of blocks on disk.     *)
CountInv ==
    /\ pc \in BeforeFile => toPico \in Seq(Unacked)
    /\ pc \in BeforeFile /\ expected_block # 0
         => stage2_image_size = 0 /\ toHost \in Seq(NotCapRsp)
    /\ Downloading => toPico \in Seq(AckedBefore(current_block))
    /\ ServerNeverAhead

LEMMA CountInit == Init => CountInv
  BY EmptySeq DEF Init, WireInit, PicoInit, Stage1Init, CountInv, Downloading,
                  BeforeFile, ServerNeverAhead

(* Sending keeps a lane of requests within a set of requests.              *)
LEMMA CountSends ==
    ASSUME TypeInv, NEW S, toPico \in Seq(S), NEW packet \in S, Send1(packet)
    PROVE  toPico' \in Seq(S)
  BY AppendProperties DEF Send1

LEMMA CountWire == ASSUME TypeInv, CountInv, Wire PROVE CountInv'
<1>1. UNCHANGED <<picoVars, hostVars>> /\ WireNext
  BY DEF Wire
<1>2. ASSUME NEW S, Noise \in S, toPico \in Seq(S) PROVE toPico' \in Seq(S)
  <2>1. toPico # <<>> => Tail(toPico) \in Seq(S) /\ WithHead(toPico, Noise) \in Seq(S)
    BY <1>2, LaneOps
  <2> QED
    BY <1>1, <1>2, <2>1 DEF WireNext, LoseRequest, GarbleRequest, LoseReply,
                            CorruptReply, GarbleReply, Collide
<1>3. ASSUME toHost \in Seq(NotCapRsp) PROVE toHost' \in Seq(NotCapRsp)
  <2>1. Noise \in NotCapRsp /\ \A len \in Nat : BadCrc(len) \in NotCapRsp
    BY ReplyTypes DEF NotCapRsp, Noise, BadCrc
  <2>2. toHost # <<>> => /\ Head(toHost) \in NotCapRsp
                         /\ Tail(toHost) \in Seq(NotCapRsp)
                         /\ \A p \in NotCapRsp : WithHead(toHost, p) \in Seq(NotCapRsp)
    BY <1>3, <2>1, LaneOps
  <2>3. CASE LoseRequest \/ GarbleRequest \/ LoseReply
    BY <1>3, <2>2, <2>3 DEF LoseRequest, GarbleRequest, LoseReply
  <2>4. CASE CorruptReply
    <3>1. Head(toHost) \in Reply /\ Head(toHost).cmd # "NOISE"
      BY <2>2, <2>4 DEF CorruptReply, NotCapRsp
    <3>2. BadCrc(PayloadLen(Head(toHost))) \in NotCapRsp
      BY <3>1, <2>1, ReplyFields
    <3> QED
      BY <2>2, <2>4, <3>2, Zenon DEF CorruptReply
  <2>5. CASE GarbleReply
    BY <2>1, <2>2, <2>5 DEF GarbleReply
  <2>6. CASE Collide
    <3>1. /\ Head(toHost) \in Reply /\ Head(toHost).cmd = "RECV_BLOCK"
          /\ \E i \in DOMAIN Head(toHost).data, b \in Byte :
                toHost' = WithHead(toHost, OtherData(Head(toHost), i, b))
      BY <2>2, <2>6 DEF Collide, NotCapRsp
    <3>2. \A i \in DOMAIN Head(toHost).data, b \in Byte :
             OtherData(Head(toHost), i, b) \in NotCapRsp
      BY <3>1, Collisions DEF NotCapRsp
    <3> QED
      BY <2>2, <2>6, <3>1, <3>2, Zenon DEF Collide
  <2> QED
    BY <1>1, <2>3, <2>4, <2>5, <2>6 DEF WireNext
<1>4. Noise \in Unacked /\ Noise \in AckedBefore(current_block)
  BY ReplyTypes DEF Unacked, AckedBefore, Noise
<1> QED
  BY <1>1, <1>2, <1>3, <1>4
  DEF CountInv, Downloading, BeforeFile, ServerNeverAhead, AckedBefore,
      picoVars, hostVars, capVars, downloadVars

LEMMA CountPico == ASSUME TypeInv, CountInv, Pico PROVE CountInv'
<1>1. UNCHANGED hostVars /\ PicoNext
  BY DEF Pico
<1>2. ASSUME NEW S, Noise \in S, toPico \in Seq(S)
      PROVE  toPico' \in Seq(S) /\ (toPico # <<>> => Head(toPico) \in S)
  <2>1. toPico # <<>> => /\ Head(toPico) \in S /\ Tail(toPico) \in Seq(S)
                         /\ <<Noise>> \o DropFirst(toPico, 2) \in Seq(S)
    <3>1. 2 \in Nat
      OBVIOUS
    <3> QED
      BY <1>2, <3>1, LaneOps
  <2>2. Len(toPico) > 1 => toPico # <<>>
    BY <1>2, EmptySeq
  <2> QED
    BY <1>1, <2>1, <2>2
    DEF PicoNext, HandleCapReq, Reset, HandleCapAck, HandlePing, HandleSendBlock,
        IgnoreSendBlock, HandleBlockAck, HandleBlockNak, Resync, Swallow, Received
<1>3. Noise \in Unacked /\ Noise \in AckedBefore(current_block)
  BY ReplyTypes DEF Unacked, AckedBefore, Noise
<1>4. /\ expected_block \in Nat /\ MaxBlocks \in Nat /\ current_block \in Nat
      /\ toHost \in Seq(Reply) /\ toPico \in Seq(Request) /\ pico_tx_seq \in Seq8
  BY SizeAssumption DEF TypeInv, TypeOK, WireTypeOK, PicoTypeOK, Stage1TypeOK
<1>5. expected_block' # 0 /\ pc \in BeforeFile
        => expected_block # 0 /\ (toHost \in Seq(NotCapRsp) => toHost' \in Seq(NotCapRsp))
  <2> SUFFICES ASSUME expected_block' # 0, pc \in BeforeFile
               PROVE  /\ expected_block # 0
                      /\ toHost \in Seq(NotCapRsp) => toHost' \in Seq(NotCapRsp)
    OBVIOUS
  <2>1. ~HandleCapReq
    BY DEF HandleCapReq, Reset
  <2>2. ~HandleBlockAck
    BY <1>2, <1>3 DEF CountInv, HandleBlockAck, Received, Unacked
  <2>3. CASE HandleCapAck \/ IgnoreSendBlock \/ HandleBlockNak \/ Resync \/ Swallow
    BY <2>3 DEF HandleCapAck, IgnoreSendBlock, HandleBlockNak, Resync, Swallow, picoVars
  <2>4. CASE HandlePing
    <3>1. Pong(pico_tx_seq) \in NotCapRsp
      BY <1>4, ReplyTypes DEF NotCapRsp, Pong
    <3> QED
      BY <2>4, <3>1, AppendProperties DEF HandlePing, Answer
  <2>5. CASE HandleSendBlock
    <3>1. Head(toPico).block \in Nat /\ HasBlock(Head(toPico).block)
      BY <1>4, <2>5, RequestFields, HeadTailProperties
      DEF HandleSendBlock, Received, Numbered
    <3>2. RecvBlock(pico_tx_seq, Head(toPico).block) \in NotCapRsp
      BY <1>4, <3>1, ReplyTypes DEF NotCapRsp, RecvBlock
    <3> QED
      BY <2>5, <3>2, AppendProperties DEF HandleSendBlock, Answer
  <2> QED
    BY <1>1, <2>1, <2>2, <2>3, <2>4, <2>5 DEF PicoNext
<1>6. Downloading => expected_block' <= current_block
  <2> SUFFICES ASSUME Downloading PROVE expected_block' <= current_block
    OBVIOUS
  <2>1. expected_block <= current_block /\ toPico \in Seq(AckedBefore(current_block))
    BY DEF CountInv, ServerNeverAhead
  <2>2. CASE HandleCapReq
    BY <1>4, <2>2 DEF HandleCapReq, Reset
  <2>3. CASE HandleBlockAck
    <3>1. Head(toPico) \in AckedBefore(current_block) /\ Head(toPico).cmd = "BLOCK_ACK"
      BY <1>2, <1>3, <2>1, <2>3 DEF HandleBlockAck, Received
    <3>2. Head(toPico).block < current_block
      BY <3>1 DEF AckedBefore
    <3> QED
      BY <1>4, <2>1, <2>3, <3>2 DEF HandleBlockAck, Least
  <2> QED
    BY <1>1, <2>1, <2>2, <2>3
    DEF PicoNext, HandleCapAck, HandlePing, HandleSendBlock, IgnoreSendBlock,
        HandleBlockNak, Resync, Swallow, picoVars
<1> QED
  BY <1>1, <1>2, <1>3, <1>5, <1>6
  DEF CountInv, Downloading, BeforeFile, ServerNeverAhead, AckedBefore,
      hostVars, capVars, downloadVars

LEMMA CountHost == ASSUME TypeInv, CountInv, CopyInv, Host PROVE CountInv'
<1> USE DEF Downloading, BeforeFile, wireVars, capVars, downloadVars
<1>1. CountInv /\ Stage1Next /\ UNCHANGED picoVars
  BY DEF Host
<1>2. /\ host_tx_seq \in Seq8 /\ current_block \in Nat /\ expected_block \in Nat
      /\ faults \in Nat /\ expected_block' = expected_block
  BY <1>1 DEF TypeInv, TypeOK, WireTypeOK, PicoTypeOK, Stage1TypeOK, picoVars
<1>3. \A c \in Plain : PlainPacket(c) \in Unacked
  BY <1>2 DEF PlainPacket, Unacked, Request, Plain
<1>4. \A n \in Nat : /\ NumberedPacket("SEND_BLOCK") \in AckedBefore(n)
                     /\ NumberedPacket("BLOCK_NAK") \in AckedBefore(n)
      /\ NumberedPacket("BLOCK_ACK") \in AckedBefore(current_block + 1)
  BY <1>2 DEF NumberedPacket, AckedBefore, Request, Numbered
<1>5. ASSUME toHost \in Seq(NotCapRsp)
      PROVE  /\ TimedOut => toHost' \in Seq(NotCapRsp)
             /\ \A lengths : ReadAndRefuse(lengths) => toHost' \in Seq(NotCapRsp)
  <2>1. Noise \in NotCapRsp
    BY ReplyTypes DEF NotCapRsp, Noise
  <2> QED
    BY <1>2, <1>5, <2>1, HostTimesOut, HostReads
<1>6. CASE Negotiate \/ StressDone \/ CreateFails
  BY <1>1, <1>2, <1>6 DEF Negotiate, StressDone, CreateFails, Final, CountInv,
                          ServerNeverAhead
<1>7. CASE SendCapReq \/ SendPing
  <2>1. toPico' \in Seq(Unacked)
    BY <1>1, <1>3, <1>7, CountSends DEF SendCapReq, SendPing, CountInv, Plain
  <2> QED
    BY <1>1, <1>2, <1>7, <2>1 DEF SendCapReq, SendPing, CountInv, ServerNeverAhead
<1>8. CASE RecvCapRsp
  <2>1. toPico' \in Seq(Unacked)
    BY <1>1, <1>3, <1>8, CountSends DEF RecvCapRsp, CountInv, Plain
  <2>2. toHost \notin Seq(NotCapRsp)
    BY <1>8, HeadTailProperties DEF RecvCapRsp, Framed, Arrived, Reply1, NotCapRsp
  <2>3. expected_block = 0
    BY <1>1, <1>8, <2>2 DEF CountInv, RecvCapRsp
  <2> QED
    BY <1>1, <1>2, <1>8, <2>1, <2>3 DEF RecvCapRsp, CountInv, ServerNeverAhead
<1>9. CASE NoCapRsp
  BY <1>1, <1>2, <1>5, <1>9 DEF NoCapRsp, CountInv, ServerNeverAhead
<1>10. CASE StressIteration
  BY <1>1, <1>2, <1>5, <1>10 DEF StressIteration, CountInv, ServerNeverAhead
<1>11. CASE CreateFile
  <2>1. Unacked \subseteq AckedBefore(0)
    BY DEF Unacked, AckedBefore
  <2>2. toPico' \in Seq(AckedBefore(0))
    BY <1>1, <1>11, <2>1, SeqMonotonic DEF CreateFile, NewFile, CountInv
  <2>3. expected_block = 0
    BY <1>1, <1>11 DEF CreateFile, NewFile, CountInv, CopyInv
  <2> QED
    BY <1>2, <1>11, <2>2, <2>3 DEF CreateFile, NewFile, CountInv, ServerNeverAhead
<1>12. CASE RequestBlock
  <2>1. toPico' \in Seq(AckedBefore(current_block))
    BY <1>1, <1>2, <1>4, <1>12, CountSends DEF RequestBlock, CountInv
  <2> QED
    BY <1>1, <1>2, <1>12, <2>1 DEF RequestBlock, CountInv, ServerNeverAhead
<1>13. CASE AllBlocksDone
  BY <1>1, <1>2, <1>13 DEF AllBlocksDone, CountInv, ServerNeverAhead
<1>14. CASE CommitBlock
  <2>1. AckedBefore(current_block) \subseteq AckedBefore(current_block + 1)
    <3>1. \A r \in Request : r.cmd = "BLOCK_ACK" => r.block \in Nat
      BY RequestFields DEF Numbered
    <3> QED
      BY <1>2, <3>1 DEF AckedBefore
  <2>2. toPico \in Seq(AckedBefore(current_block + 1))
    BY <1>1, <1>14, <2>1, SeqMonotonic DEF CommitBlock, CountInv
  <2>3. toPico' \in Seq(AckedBefore(current_block + 1))
    BY <1>4, <1>14, <2>2, CountSends DEF CommitBlock
  <2> QED
    BY <1>1, <1>2, <1>14, <2>3 DEF CommitBlock, CountInv, ServerNeverAhead
<1>15. CASE RefuseBlock
  <2>1. pc' = "request" => toPico' \in Seq(AckedBefore(current_block))
    BY <1>1, <1>2, <1>4, <1>15, CountSends DEF RefuseBlock, AttemptsRemain, CountInv
  <2> QED
    BY <1>1, <1>2, <1>15, <2>1 DEF RefuseBlock, AttemptsRemain, CountInv, ServerNeverAhead
<1>16. CASE WriteFails \/ AbortDownload \/ CloseFails \/ VerifyCrc \/ ExecStage2
  BY <1>16 DEF WriteFails, AfterWriteError, AbortDownload, CloseFails, VerifyCrc, ExecStage2, Final,
               CountInv, ServerNeverAhead
<1> QED
  BY <1>1, <1>6, <1>7, <1>8, <1>9, <1>10, <1>11, <1>12, <1>13, <1>14, <1>15, <1>16
  DEF Stage1Next

LEMMA CountStep == TypeInv /\ CopyInv /\ CountInv /\ [Next]_vars => CountInv'
<1> SUFFICES ASSUME TypeInv, CopyInv, CountInv, [Next]_vars PROVE CountInv'
  OBVIOUS
<1>1. CASE UNCHANGED vars
  BY <1>1 DEF vars, wireVars, picoVars, hostVars, capVars, downloadVars, CountInv,
              ServerNeverAhead, Downloading, BeforeFile
<1>2. CASE Reboot
  <2>1. <<>> \in Seq(Unacked) /\ <<>> \in Seq(NotCapRsp)
    BY EmptySeq
  <2> QED
    BY <1>2, <2>1 DEF Reboot, PowerCycle, CountInv, Downloading, BeforeFile,
                      ServerNeverAhead
<1> QED
  BY <1>1, <1>2, CountHost, CountPico, CountWire DEF Next, Rest

(* The Pico's report of acknowledged blocks never runs ahead of the disk,  *)
(* whatever is lost or repeated, and even when the session it last served  *)
(* was cut short by a power cycle of the PC.                               *)
THEOREM AckedBlocksAreOnDisk == Spec => []ServerNeverAhead
<1>1. CountInv => ServerNeverAhead
  BY DEF CountInv
<1> QED
  BY <1>1, TypeInit, TypeStep, CopyInit, CopyStep, CountInit, CountStep, PTL DEF Spec
=============================================================================
