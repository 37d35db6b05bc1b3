------------------------------- MODULE Stage1 -------------------------------
(***************************************************************************)
(* DOS Stage 1 from the IEEE 1284 ladder to the EXEC of Stage 2.  One      *)
(* action per decision of the program: what it sends, how it takes or      *)
(* refuses the reply, the silence after which rx_fill gives up, and each   *)
(* INT 21h call that can fail.  No step of Stage 1 checks the SEQ of a     *)
(* reply.                                                                  *)
(***************************************************************************)
EXTENDS LptWire

CONSTANTS StressIterations,  \* 8 in the code
          BlockRetries,      \* 3 in the code
          Modes,             \* what the negotiation ladder may end with
          DosFailures,       \* the INT 21h calls that may fail
          MaxRestarts,       \* bound on the power cycles of one behaviour
          NoFile             \* the disk without PICO1284.EXE

AllModes == {"NONE", "SPP", "BYTE", "EPP", "ECP"}

ASSUME Stage1Assumption ==
    /\ StressIterations \in Nat
    /\ BlockRetries \in Nat \ {0}
    /\ Modes \subseteq AllModes
    /\ DosFailures \subseteq {"create", "write", "close", "delete", "exec"}
    /\ MaxRestarts \in Nat
    /\ NoFile \notin Seq(Byte)

VARIABLES pc,                  \* where Stage 1 is
          negotiated_mode,     \* NEG_MODE_*
          host_tx_seq,         \* SEQ of the next request
          stage2_image_size,   \* from CAP_RSP; 0 before it
          stage2_image_crc32,  \* from CAP_RSP; 0 before it
          stress_left,         \* iterations of the stress test still to run
          current_block,
          retry_count,
          crc32_state,         \* the running CRC-32 of the download
          file,                \* "none", "open" (stage2_file_handle # 0) or "closed"
          disk,                \* the contents of PICO1284.EXE
          unlink_refused,      \* the carry of DOS_DELETE, which nobody looks at
          restarts             \* power cycles so far

downloadVars == <<current_block, retry_count, crc32_state, file, disk, unlink_refused>>
capVars == <<negotiated_mode, stage2_image_size, stage2_image_crc32>>
hostVars == <<pc, capVars, host_tx_seq, stress_left, downloadVars, restarts>>

Final == {"executed", "refused"}

Stage1TypeOK ==
    /\ pc \in {"negotiate", "cap_req", "await_cap_rsp", "stress", "await_pong",
               "create", "request", "await_block", "finish", "abort", "exec"} \cup Final
    /\ negotiated_mode \in AllModes
    /\ host_tx_seq \in Seq8
    /\ stage2_image_size \in Nat
    /\ stage2_image_crc32 \in Seq(Byte)
    /\ stress_left \in 0 .. StressIterations
    /\ current_block \in Nat
    /\ retry_count \in 0 .. BlockRetries
    /\ crc32_state \in Seq(Byte)
    /\ file \in {"none", "open", "closed"}
    /\ disk \in Seq(Byte) \cup {NoFile}
    /\ unlink_refused \in BOOLEAN
    /\ restarts \in 0 .. MaxRestarts

(* packet_self_test has already used SEQ 0 when the ladder runs.           *)
Stage1Init ==
    /\ pc = "negotiate"
    /\ negotiated_mode = "NONE"
    /\ host_tx_seq = 1
    /\ stage2_image_size = 0
    /\ stage2_image_crc32 = <<>>
    /\ stress_left = StressIterations
    /\ current_block = 0
    /\ retry_count = BlockRetries
    /\ crc32_state = <<>>
    /\ file = "none"
    /\ disk = NoFile
    /\ unlink_refused = FALSE
    /\ restarts = 0

---------------------------------------------------------------------------
(* packet_encode and tx_drain: every packet takes a SEQ of its own.        *)
Send1(packet) ==
    /\ toPico' = Append(toPico, packet)
    /\ host_tx_seq' = NextSeq(host_tx_seq)

PlainPacket(command) == [cmd |-> command, seq |-> host_tx_seq]
NumberedPacket(command) ==
    [cmd |-> command, seq |-> host_tx_seq, block |-> current_block]

(* rx_fill, asked for a packet the caller accepts whatever its length or   *)
(* only with a payload of the given length: Framed when packet_validate    *)
(* passes on the packet at the head of the lane.                           *)
Arrived == toHost # <<>>
Reply1 == Head(toHost)
Framed(cmd) == Arrived /\ Reply1.cmd = cmd

(* A reply that is refused, and what it leaves on the lane.                *)
ReadAndRefuse(lengths) ==
    /\ Arrived
    /\ toHost' \in IF Reply1.cmd = "NOISE" THEN LeftAfterNoise
                  ELSE IF PayloadLen(Reply1) \in lengths THEN LeftAfterWhole
                  ELSE LeftAfterHeader

(* rx_fill times out.  When the Pico owes an answer, or an answer is on    *)
(* the lane, the host has given up too early: a fault, after which the     *)
(* bytes on the lane may still be read later or have passed by.            *)
Answerable == {"CAP_REQ", "PING", "SEND_BLOCK"}
Quiet == toHost = <<>> /\ \A i \in DOMAIN toPico : toPico[i].cmd \notin Answerable

TimedOut_never == FALSE  \* mutant: rx_fill waits for ever

TimedOut ==
    \/ Quiet /\ UNCHANGED <<toHost, faults>>
    \/ ~Quiet /\ Fault("late") /\ toHost' \in {toHost, <<>>}

---------------------------------------------------------------------------
(* ieee1284_negotiate_ladder, and the cases in which cap_handshake,        *)
(* pump_stress_test and download_stage2 skip themselves: no LPT means no   *)
(* pump, and a mode above SPP means no handshake, hence no size.           *)
Negotiate ==
    /\ pc = "negotiate"
    /\ \E mode \in Modes :
         /\ negotiated_mode' = mode
         /\ pc' = CASE mode = "NONE" -> "refused"
                    [] mode = "SPP"  -> "cap_req"
                    [] OTHER         -> "stress"
    /\ UNCHANGED <<wireVars, host_tx_seq, stage2_image_size, stage2_image_crc32,
                   stress_left, downloadVars, restarts>>

SendCapReq ==
    /\ pc = "cap_req"
    /\ Send1(PlainPacket("CAP_REQ"))
    /\ pc' = "await_cap_rsp"
    /\ UNCHANGED <<toHost, faults, capVars, stress_left, downloadVars, restarts>>

(* parse_cap_rsp_fields stores the fields before it checks the size, and   *)
(* start ignores the carry: only the CAP_ACK depends on the check.         *)
SizeIsSane(size) == 0 < size /\ size <= MaxStage2Size

RecvCapRsp ==
    /\ pc = "await_cap_rsp"
    /\ Framed("CAP_RSP")
    /\ toHost' = Tail(toHost)
    /\ stage2_image_size' = Reply1.size
    /\ stage2_image_crc32' = Reply1.crc
    /\ IF SizeIsSane(Reply1.size)
       THEN Send1(PlainPacket("CAP_ACK"))
       ELSE UNCHANGED <<toPico, host_tx_seq>>
    /\ pc' = "stress"
    /\ UNCHANGED <<faults, negotiated_mode, stress_left, downloadVars, restarts>>

(* recv_cap_rsp takes any length that fits its buffer.                     *)
NoCapRsp ==
    /\ pc = "await_cap_rsp"
    /\ \/ TimedOut
       \/ /\ ~Framed("CAP_RSP")
          /\ ReadAndRefuse(Nat)
          /\ UNCHANGED faults
    /\ pc' = "stress"
    /\ UNCHANGED <<toPico, host_tx_seq, capVars, stress_left, downloadVars, restarts>>

---------------------------------------------------------------------------
(* pump_stress_test: the errors it counts are printed, nothing else.       *)
SendPing ==
    /\ pc = "stress"
    /\ stress_left > 0
    /\ Send1(PlainPacket("PING"))
    /\ pc' = "await_pong"
    /\ UNCHANGED <<toHost, faults, capVars, stress_left, downloadVars, restarts>>

StressIteration ==
    /\ pc = "await_pong"
    /\ \/ TimedOut
       \/ /\ ReadAndRefuse({StressPayloadLen})
          /\ UNCHANGED faults
    /\ stress_left' = stress_left - 1
    /\ pc' = "stress"
    /\ UNCHANGED <<toPico, host_tx_seq, capVars, downloadVars, restarts>>

(* download_stage2's preflight: a size, whatever it is, and a number of    *)
(* blocks that fits a u16.                                                 *)
StressDone ==
    /\ pc = "stress"
    /\ stress_left = 0
    /\ pc' = IF stage2_image_size = 0 \/ BlocksIn(stage2_image_size) > MaxBlocks
             THEN "refused" ELSE "create"
    /\ UNCHANGED <<wireVars, host_tx_seq, capVars, stress_left, downloadVars, restarts>>

---------------------------------------------------------------------------
(* download_stage2 creates, or truncates, the file.                        *)
NewFile_reopened == IF disk = NoFile THEN <<>> ELSE disk  \* mutant: opened, not truncated
NewFile == <<>>

CreateFile ==
    /\ pc = "create"
    /\ disk' = NewFile
    /\ file' = "open"
    /\ crc32_state' = <<>>
    /\ current_block' = 0
    /\ retry_count' = BlockRetries
    /\ pc' = "request"
    /\ UNCHANGED <<wireVars, host_tx_seq, capVars, stress_left, unlink_refused, restarts>>

CreateFails ==
    /\ pc = "create"
    /\ "create" \in DosFailures
    /\ pc' = "refused"
    /\ UNCHANGED <<wireVars, host_tx_seq, capVars, stress_left, downloadVars, restarts>>

total_blocks == BlocksIn(stage2_image_size)
expected_byte_count == CountIn(stage2_image_size, current_block)

RequestBlock ==
    /\ pc = "request"
    /\ current_block < total_blocks
    /\ Send1(NumberedPacket("SEND_BLOCK"))
    /\ pc' = "await_block"
    /\ UNCHANGED <<toHost, faults, capVars, stress_left, downloadVars, restarts>>

AllBlocksDone ==
    /\ pc = "request"
    /\ current_block >= total_blocks
    /\ pc' = "finish"
    /\ UNCHANGED <<wireVars, host_tx_seq, capVars, stress_left, downloadVars, restarts>>

(* request_one_block takes a RECV_BLOCK that echoes current_block and      *)
(* carries expected_byte_count bytes.                                      *)
BlockArrived_anyBlock ==  \* mutant: the echoed block number is not compared
    /\ Framed("RECV_BLOCK")
    /\ Len(Reply1.data) = expected_byte_count

BlockArrived ==
    /\ Framed("RECV_BLOCK")
    /\ Reply1.block = current_block
    /\ Len(Reply1.data) = expected_byte_count

(* commit_one_block: the CRC is updated, the data written and the block    *)
(* acknowledged; the retries of the next block start afresh.               *)
CommitBlock ==
    /\ pc = "await_block"
    /\ BlockArrived
    /\ toHost' = Tail(toHost)
    /\ crc32_state' = crc32_state \o Reply1.data
    /\ disk' = disk \o Reply1.data
    /\ Send1(NumberedPacket("BLOCK_ACK"))
    /\ current_block' = current_block + 1
    /\ retry_count' = BlockRetries
    /\ pc' = "request"
    /\ UNCHANGED <<faults, capVars, stress_left, file, unlink_refused, restarts>>

AfterWriteError_retry == "request"  \* mutant: a failed write is treated as a bad block
AfterWriteError == "abort"

(* DOS reports an error or writes fewer bytes: no BLOCK_ACK is sent.       *)
WriteFails ==
    /\ pc = "await_block"
    /\ "write" \in DosFailures
    /\ BlockArrived
    /\ toHost' = Tail(toHost)
    /\ crc32_state' = crc32_state \o Reply1.data
    /\ \E k \in 0 .. Len(Reply1.data) - 1 :
          disk' = disk \o SubSeq(Reply1.data, 1, k)
    /\ pc' = AfterWriteError
    /\ UNCHANGED <<toPico, faults, host_tx_seq, capVars, stress_left,
                   current_block, retry_count, file, unlink_refused, restarts>>

AttemptsRemain_once_more == retry_count > 0  \* mutant: tested before the decrement
AttemptsRemain_once_less == retry_count > 2  \* mutant: the first attempt counted twice
AttemptsRemain == retry_count > 1

(* Another attempt after a BLOCK_NAK, as long as attempts remain.          *)
RefuseBlock ==
    /\ pc = "await_block"
    /\ \/ TimedOut
       \/ /\ ~BlockArrived
          /\ ReadAndRefuse({RecvBlockHdrLen + expected_byte_count})
          /\ UNCHANGED faults
    /\ retry_count' = retry_count - 1
    /\ IF AttemptsRemain
       THEN Send1(NumberedPacket("BLOCK_NAK")) /\ pc' = "request"
       ELSE UNCHANGED <<toPico, host_tx_seq>> /\ pc' = "abort"
    /\ UNCHANGED <<capVars, stress_left, current_block, crc32_state, file, disk,
                   unlink_refused, restarts>>

---------------------------------------------------------------------------
(* DOS_DELETE, whose failure nobody looks at.                              *)
Unlink_forgotten == UNCHANGED <<disk, unlink_refused>>  \* mutant: the file is left behind

Unlink ==
    \/ disk' = NoFile /\ UNCHANGED unlink_refused
    \/ "delete" \in DosFailures /\ unlink_refused' = TRUE /\ UNCHANGED disk

(* abort_download closes the file if it is open and deletes it.            *)
AbortDownload ==
    /\ pc = "abort"
    /\ file' = "closed"
    /\ Unlink
    /\ pc' = "refused"
    /\ UNCHANGED <<wireVars, host_tx_seq, capVars, stress_left, current_block,
                   retry_count, crc32_state, restarts>>

(* The handle is forgotten whether DOS_CLOSE succeeds or not.              *)
CloseFails ==
    /\ pc = "finish"
    /\ "close" \in DosFailures
    /\ file' = "closed"
    /\ pc' = "abort"
    /\ UNCHANGED <<wireVars, host_tx_seq, capVars, stress_left, current_block,
                   retry_count, crc32_state, disk, unlink_refused, restarts>>

CrcMatches_sizeOnly == Len(crc32_state) = stage2_image_size  \* mutant: no CRC check
CrcMatches == crc32_state = stage2_image_crc32

VerifyCrc ==
    /\ pc = "finish"
    /\ file' = "closed"
    /\ \/ CrcMatches /\ pc' = "exec" /\ UNCHANGED <<disk, unlink_refused>>
       \/ ~CrcMatches /\ pc' = "refused" /\ Unlink
    /\ UNCHANGED <<wireVars, host_tx_seq, capVars, stress_left, current_block,
                   retry_count, crc32_state, restarts>>

ExecStage2 ==
    /\ pc = "exec"
    /\ \/ pc' = "executed"
       \/ "exec" \in DosFailures /\ pc' = "refused"
    /\ UNCHANGED <<wireVars, host_tx_seq, capVars, stress_left, downloadVars, restarts>>

Stage1Next ==
    \/ Negotiate \/ SendCapReq \/ RecvCapRsp \/ NoCapRsp
    \/ SendPing \/ StressIteration \/ StressDone
    \/ CreateFile \/ CreateFails \/ RequestBlock \/ AllBlocksDone
    \/ CommitBlock \/ WriteFails \/ RefuseBlock
    \/ AbortDownload \/ CloseFails \/ VerifyCrc \/ ExecStage2

(* The PC is power-cycled and Stage 1 run again.  The reboot outlasts what *)
(* the Pico still had to serve, whose replies nobody read; the disk keeps  *)
(* whatever file the earlier run left.                                     *)
PowerCycle ==
    /\ restarts < MaxRestarts
    /\ toPico = <<>>
    /\ toHost' = <<>>
    /\ restarts' = restarts + 1
    /\ pc' = "negotiate"
    /\ negotiated_mode' = "NONE"
    /\ host_tx_seq' = 1
    /\ stage2_image_size' = 0
    /\ stage2_image_crc32' = <<>>
    /\ stress_left' = StressIterations
    /\ current_block' = 0
    /\ retry_count' = BlockRetries
    /\ crc32_state' = <<>>
    /\ file' = "none"
    /\ unlink_refused' = FALSE
    /\ UNCHANGED <<toPico, faults, disk>>
=============================================================================
