-------------------------- MODULE Stage2Bootstrap --------------------------
(***************************************************************************)
(* The Stage 2 bootstrap: Stage 1 on the DOS side, the packet dispatcher   *)
(* on the Pico, and the LPT between them.                                  *)
(***************************************************************************)
EXTENDS PicoSession, Stage1

vars == <<wireVars, picoVars, hostVars>>

Init == WireInit /\ PicoInit /\ Stage1Init

Host == Stage1Next /\ UNCHANGED picoVars
Pico == PicoNext /\ UNCHANGED hostVars
Wire == WireNext /\ UNCHANGED <<picoVars, hostVars>>
Reboot == PowerCycle /\ UNCHANGED picoVars

(* Stage 1 has returned to DOS, or handed over to Stage 2, and the Pico    *)
(* has nothing left to serve: it waits for the next packet for ever.       *)
Rest == pc \in Final /\ toPico = <<>> /\ UNCHANGED vars

Next == Host \/ Pico \/ Wire \/ Reboot \/ Rest

Spec == Init /\ [][Next]_vars

(* Both programs are loops that never block but on each other: rx_fill     *)
(* polls with a timeout, serve_loop awaits the next byte.  The wire and    *)
(* the operator owe nothing.                                               *)
FairSpec == Spec /\ WF_vars(Host) /\ WF_vars(Pico)

---------------------------------------------------------------------------
TypeOK == WireTypeOK /\ PicoTypeOK /\ Stage1TypeOK

Downloading == pc \in {"request", "await_block", "finish"}

(* ExecExact: whatever the wire and DOS did, Stage 1 loads PICO1284.EXE    *)
(* only when the file is byte for byte the image in the Pico's flash.      *)
ExecExact == pc \in {"exec", "executed"} => disk = Image

(* CrcCoversDisk: the running CRC-32 of download_stage2 is the CRC of what *)
(* has reached the file, so the comparison at the end vouches for the file *)
(* and not only for what was received.                                     *)
CrcCoversDisk == Downloading => disk = crc32_state

(* CommittedPrefix: as long as the CRC-16 lets no damaged block through,   *)
(* retries, stale replies and refused packets never put a byte out of      *)
(* place: the file is a prefix of the image cut at a block boundary.       *)
CommittedPrefix ==
    Downloading =>
        disk = SubSeq(Image, 1, Least(current_block * BlockSize, Len(Image)))

(* NoPartialFileAfterFailure: "on any failure: close + delete".  A run     *)
(* that created the file and did not hand over to Stage 2 leaves no file,  *)
(* or the complete image (the EXEC itself failed), unless DOS refused to   *)
(* delete it.                                                              *)
NoPartialFileAfterFailure ==
    pc = "refused" /\ file # "none" /\ ~unlink_refused
        => disk \in {NoFile, Image}

(* ServerNeverAhead: the block number the Pico reports as acknowledged     *)
(* (expected_block - 1 in Event::BlockAck) is never one that Stage 1 has   *)
(* not written to disk in this session.                                    *)
ServerNeverAhead == Downloading => expected_block <= current_block

(* ServerTracksHost: "Tracks which block Stage 1 is expected to request    *)
(* next": when the Pico has answered the request for a block, that block   *)
(* is its expected_block.                                                  *)
ServerTracksHost ==
    pc = "await_block" /\ toPico = <<>> /\ toHost # <<>>
        => expected_block = current_block

(* OversizeNotDownloaded: "Skip cleanly if ... size > MAX_STAGE2_SIZE".    *)
OversizeNotDownloaded == file # "none" => stage2_image_size <= MaxStage2Size

(* RxSeqFollows: "rx_seq_expected: incremented on each valid packet        *)
(* receipt": after a packet the next one in sequence is expected.          *)
RxSeqFollows ==
    [][PicoNext /\ Head(toPico).cmd # "NOISE"
          => rx_seq_expected' = NextSeq(Head(toPico).seq)]_vars

---------------------------------------------------------------------------
(* The bootstrap implements the abstract transfer.                         *)
Transfer == INSTANCE ImageTransfer WITH
    started <- file # "none",
    verdict <- IF pc \in Final THEN pc ELSE "pending",
    UnlinkMayFail <- "delete" \in DosFailures

ImplementsTransfer == Transfer!Spec

(* Terminates: Stage 1 never hangs, whatever is lost, late or garbled.     *)
Terminates == <>(pc \in Final)

(* Recovers: once the file is created with the right size announced and no *)
(* stale reply about, fewer faults of the kinds of a run than attempts per *)
(* block never cost the image.                                             *)
Recovers ==
    (pc = "create" /\ stage2_image_size = Len(Image) /\ Quiet)
        ~> (pc = "executed")
=============================================================================
