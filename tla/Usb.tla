-------------------------------- MODULE Usb --------------------------------
(***************************************************************************)
(* The tasks of src/firmware/src/usb: the events writer, the control RPC,  *)
(* the console loopback and the bulk writer, with the queues they share    *)
(* with the rest of the firmware, on a device whose host comes and goes.   *)
(*                                                                         *)
(* A frame is its length and, for events and bulk frames, a serial number  *)
(* from 1 up (answers, echoes and greetings have number 0); it leaves in   *)
(* packets of at most Packet bytes (64 in the code).  A line of the        *)
(* control interface is a sequence of words.                               *)
(*                                                                         *)
(* The USB peripheral and the host are outside the repository: a write     *)
(* succeeds while the host has the device configured (up) and fails        *)
(* otherwise, and a transfer the host has begun ends with a packet shorter *)
(* than Packet.                                                            *)
(***************************************************************************)
EXTENDS MouseInput, SequencesExt

CONSTANTS
    Packet,        \* wMaxPacketSize: 64
    EventDepth,    \* USB_EVENT_CHAN: 32
    BulkDepth,     \* BULK_OUT: 4
    InjectDepth,   \* INJECT_RAW: 4
    InjectMax,     \* INJECT_RAW_MAX, in hex bytes
    LineCap,       \* LINE_CAP, in words
    SeqWrap,        \* next_seq wraps at 2^16
    BulkHeader,    \* the sixteen bytes before the payload
    BULK_FRAME_MAX, \* 512: header and payload
    Lengths,       \* lengths of events, replies and echoes
    Delta,         \* the numbers of mouse_move, as a function of the word
    Lines,         \* bound: the lines the operator types, as sequences of words
    Work,          \* bound: events emitted, lines typed and packets echoed
    Drops,         \* bound: disconnections
    Together       \* bound: the sets of ports whose tasks a behaviour interleaves;
                   \* ports of different sets share nothing but the connection

ASSUME UsbAssumption ==
    /\ Packet \in Nat \ {0} /\ EventDepth \in Nat \ {0} /\ BulkDepth \in Nat \ {0}
    /\ InjectDepth \in Nat \ {0} /\ InjectMax \in Nat \ {0} /\ LineCap \in Nat \ {0}
    /\ SeqWrap \in Nat \ {0} /\ BulkHeader \in Nat /\ BULK_FRAME_MAX \in Nat /\ Lengths \subseteq Nat \ {0}
    /\ \A word \in DOMAIN Delta : Delta[word] \in Int
    /\ Work \in Nat /\ Drops \in Nat
    /\ UNION Together = {"events", "bulk", "control", "console"}

VARIABLES
    up,       \* the host has the device configured
    queue,    \* USB_EVENT_CHAN and BULK_OUT
    writer,   \* the task of each port
    line,     \* the control task's partial line
    rpc,      \* the queue and the counters behind the control commands; asked and
              \* accepted are histories: the bulk_tests so far and the seqs answered "ok"
    mouse,    \* the task of mouse_input.rs
    host,     \* what the host has of each port since it configured the device
    spent,    \* the bounds' counters
    running   \* the member of Together this behaviour is about

vars == <<up, queue, writer, line, rpc, mouse, host, spent, running>>

Ports == {"events", "bulk", "control", "console"}
NoFrame == [n |-> 0, len |-> 0]
\* A task between two frames
At(pc) == [pc |-> pc, frame |-> NoFrame, i |-> 0, sent_full |-> FALSE]
HostInit == [part |-> 0, held |-> FALSE, got |-> <<>>]

Init ==
    /\ up = FALSE
    /\ queue = [events |-> <<>>, bulk |-> <<>>]
    /\ writer = [p \in Ports |-> At("connect")]
    /\ line = <<>>
    /\ rpc = [inject |-> 0, BULK_SEQ |-> 0, asked |-> 0, accepted |-> <<>>,
              USB_EVENT_DROPS |-> 0, emitted |-> 0]
    /\ mouse = MouseInit
    /\ host = [p \in Ports |-> HostInit]
    /\ spent = [work |-> 0, drops |-> 0]
    /\ running \in Together

Worked == spent.work < Work /\ spent' = [spent EXCEPT !.work = @ + 1]

-----------------------------------------------------------------------------
(* Packets                                                                 *)

\* chunks(64): how many packets, and the size of the i-th
Chunks(len) == (len + Packet - 1) \div Packet
ChunkLen(len, i) == IF i * Packet <= len THEN Packet ELSE len % Packet

\* The host side of a write: a full packet leaves the transfer open, a shorter
\* one ends it; a frame is whole when its packets arrived in one session
Delivered(h, frame, i) ==
    LET part == IF i = 1 \/ h.part = i - 1 THEN i ELSE 0
        whole == part = Chunks(frame.len)
    IN  [part |-> IF whole THEN 0 ELSE part,
         held |-> ChunkLen(frame.len, i) = Packet,
         got  |-> IF whole /\ frame.n > 0 THEN Append(h.got, frame.n) ELSE h.got]

Idle(p) == IF p \in {"events", "bulk"} THEN "receive" ELSE "read"

\* Mutant: the single-packet frame is forgotten
FlushDue_long(p, w, complete) ==
    p # "console" /\ w.frame.len > Packet /\ w.frame.len % Packet = 0

\* Whether the zero-length packet is due when the loop over the chunks ends:
\* events.rs and bulk.rs ask for a full packet already sent, write_chunks of
\* control.rs for a complete message, console.rs never sends one
FlushDue(p, w, complete) ==
    CASE p \in {"events", "bulk"} -> w.sent_full /\ w.frame.len % Packet = 0
      [] p = "control"            -> complete /\ w.frame.len % Packet = 0
      [] p = "console"            -> FALSE

AfterChunks(p, w, complete) ==
    At(IF FlushDue(p, w, complete) THEN "flush" ELSE Idle(p))

Begin(frame) == [pc |-> "write", frame |-> frame, i |-> 1, sent_full |-> FALSE]

\* Mutant: the loop goes on to the next frame while the host is away
WriteFailed_noWait(p, w) == AfterChunks(p, w, FALSE)

\* A write that fails ends the loop; the bulk writer waits for the host first
WriteFailed(p, w) ==
    IF p = "bulk" THEN [w EXCEPT !.pc = "wait_enabled"] ELSE AfterChunks(p, w, FALSE)

WriteChunk(p) ==
    LET w == writer[p]
        sent == [w EXCEPT !.sent_full = @ \/ ChunkLen(w.frame.len, w.i) = Packet]
    IN  /\ w.pc = "write"
        /\ writer' = [writer EXCEPT ![p] =
             IF ~up THEN WriteFailed(p, w)
             ELSE IF w.i < Chunks(w.frame.len) THEN [sent EXCEPT !.i = @ + 1]
             ELSE AfterChunks(p, sent, TRUE)]
        /\ host' = IF up THEN [host EXCEPT ![p] = Delivered(@, w.frame, w.i)] ELSE host
        /\ UNCHANGED <<up, queue, line, rpc, mouse, spent>>

\* The result of writing the zero-length packet is ignored
Flush(p) ==
    /\ writer[p].pc = "flush"
    /\ writer' = [writer EXCEPT ![p].pc = Idle(p)]
    /\ host' = IF up THEN [host EXCEPT ![p].held = FALSE] ELSE host
    /\ UNCHANGED <<up, queue, line, rpc, mouse, spent>>

\* Mutant: the writer is woken only in the middle of a frame
BulkEnabled_midFrame ==
    /\ writer["bulk"].pc = "wait_enabled" /\ up /\ writer["bulk"].i > 1
    /\ writer' = [writer EXCEPT !["bulk"] = AfterChunks("bulk", @, FALSE)]
    /\ UNCHANGED <<up, queue, line, rpc, mouse, host, spent>>

\* bulk.rs: wait_enabled after a failed write, then break
BulkEnabled ==
    /\ writer["bulk"].pc = "wait_enabled" /\ up
    /\ writer' = [writer EXCEPT !["bulk"] = AfterChunks("bulk", @, FALSE)]
    /\ UNCHANGED <<up, queue, line, rpc, mouse, host, spent>>

\* wait_connection (wait_enabled for bulk): the control task clears its line and
\* greets, the console sends its banner
Connected(p) ==
    /\ writer[p].pc = "connect" /\ up
    /\ \E len \in Lengths :
         writer' = [writer EXCEPT ![p] = IF p \in {"control", "console"}
                                         THEN Begin([n |-> 0, len |-> len])
                                         ELSE At("receive")]
    /\ line' = IF p = "control" THEN <<>> ELSE line
    /\ UNCHANGED <<up, queue, rpc, mouse, host, spent>>

\* The writers take the next frame; they never look at the connection again
Receive(p) ==
    /\ p \in {"events", "bulk"} /\ writer[p].pc = "receive" /\ queue[p] # <<>>
    /\ writer' = [writer EXCEPT ![p] = Begin(Head(queue[p]))]
    /\ queue' = [queue EXCEPT ![p] = Tail(@)]
    /\ UNCHANGED <<up, line, rpc, mouse, host, spent>>

EventRoom == Len(queue.events) < EventDepth

\* Mutant: what does not fit is not counted
Emit_uncounted(len) ==
    /\ Worked
    /\ rpc' = [rpc EXCEPT !.emitted = @ + 1]
    /\ queue' = IF EventRoom
                THEN [queue EXCEPT !.events =
                        Append(@, [n |-> rpc.emitted + 1, len |-> len])]
                ELSE queue
    /\ UNCHANGED <<up, writer, line, mouse, host>>

\* UsbEmit::emit: try_send, and a count of what does not fit
Emit(len) ==
    /\ Worked
    /\ rpc' = [rpc EXCEPT !.emitted = @ + 1,
                          !.USB_EVENT_DROPS = IF EventRoom THEN @ ELSE @ + 1]
    /\ queue' = IF EventRoom
                THEN [queue EXCEPT !.events =
                        Append(@, [n |-> rpc.emitted + 1, len |-> len])]
                ELSE queue
    /\ UNCHANGED <<up, writer, line, mouse, host>>

-----------------------------------------------------------------------------
(* Control: one line, one answer                                           *)

Reply(len) == writer' = [writer EXCEPT !["control"] = Begin([n |-> 0, len |-> len])]

\* handle_inject: hex bytes, at least one, at most INJECT_RAW_MAX, and room
HandleInject(args, len) ==
    LET ok == /\ Range(args) \subseteq {"ff"} /\ args # <<>>
              /\ Len(args) <= InjectMax /\ rpc.inject < InjectDepth
    IN  /\ Reply(len)
        /\ rpc' = IF ok THEN [rpc EXCEPT !.inject = @ + 1] ELSE rpc
        /\ UNCHANGED <<queue, mouse>>

\* handle_mouse_move and handle_mouse_button: the words that parse, and as what
Parses(verb, args) ==
    /\ Len(args) >= 2
    /\ IF verb = "mouse_move"
       THEN args[1] \in DOMAIN Delta /\ args[2] \in DOMAIN Delta
       ELSE args[1] \in DOMAIN BtnMask /\ args[2] \in {"up", "down"}
MouseCmd(verb, args) ==
    IF verb = "mouse_move" THEN Move(Delta[args[1]], Delta[args[2]])
                           ELSE Button(args[1], args[2] = "down")

HandleMouse(verb, args, len) ==
    LET ok == Parses(verb, args) /\ ~MouseFull(mouse)
    IN  /\ Reply(len)
        /\ mouse' = IF ok THEN MouseQueued(mouse, MouseCmd(verb, args)) ELSE mouse
        /\ UNCHANGED <<queue, rpc>>

\* build_frame refuses what does not fit; next_seq wraps
Fits(size) == size <= BULK_FRAME_MAX
NextSeq(seq) == (seq + 1) % SeqWrap

\* handle_bulk_test: the sequence number is spent before build_frame and try_send
\* can refuse the frame
HandleBulkTest(args, len) ==
    LET size == BulkHeader + (IF args = <<>> THEN 1 ELSE Len(args))
        ok == Fits(size) /\ Len(queue.bulk) < BulkDepth
    IN  /\ Reply(len)
        /\ rpc' = [rpc EXCEPT !.BULK_SEQ = NextSeq(@), !.asked = @ + 1,
                              !.accepted = IF ok THEN Append(@, (rpc.asked % SeqWrap) + 1) ELSE @]
        /\ queue' = IF ok THEN [queue EXCEPT !.bulk =
                                  Append(@, [n |-> rpc.BULK_SEQ + 1, len |-> size])]
                          ELSE queue
        /\ UNCHANGED mouse

Dispatch(verb, args, len) ==
    CASE verb = "inject"                          -> HandleInject(args, len)
      [] verb \in {"mouse_move", "mouse_button"}  -> HandleMouse(verb, args, len)
      [] verb = "bulk_test"                       -> HandleBulkTest(args, len)
      [] OTHER (* ping, stats, unknown verb *)    -> /\ Reply(len)
                                                     /\ UNCHANGED <<queue, rpc, mouse>>

\* Left out: what control.rs still does with the rest of a packet after its answer to
\* a line in it has failed.
ControlReads == up /\ writer["control"].pc = "read"

\* A word goes to the line; the word that does not fit is lost with the line, and
\* what the operator typed after it begins a line of its own
ControlWord(word) ==
    /\ ControlReads
    /\ \E l \in Lines : IsPrefix(Append(line, word), l)
    /\ IF Len(line) < LineCap
       THEN line' = Append(line, word) /\ UNCHANGED writer
       ELSE line' = <<>> /\ \E len \in Lengths : Reply(len)
    /\ UNCHANGED <<up, queue, rpc, mouse, host, spent>>

ControlEnter ==
    /\ ControlReads /\ line # <<>> /\ Worked
    /\ \E len \in Lengths : Dispatch(Head(line), Tail(line), len)
    /\ line' = <<>>
    /\ UNCHANGED <<up, host>>

\* console.rs: n bytes come back as n + crs, the buffer of 2 * Packet holds them
ConsoleEcho(n, crs) ==
    /\ up /\ writer["console"].pc = "read" /\ Worked
    /\ writer' = [writer EXCEPT !["console"] = Begin([n |-> 0, len |-> n + crs])]
    /\ UNCHANGED <<up, queue, line, rpc, mouse, host>>

\* read_packet fails: back to wait_connection
ReadFails(p) ==
    /\ p \in {"control", "console"} /\ ~up /\ writer[p].pc = "read"
    /\ writer' = [writer EXCEPT ![p].pc = "connect"]
    /\ UNCHANGED <<up, queue, line, rpc, mouse, host, spent>>

-----------------------------------------------------------------------------
(* The tasks behind the queues, and the host                               *)

MouseTask ==
    /\ MouseTake(mouse, mouse') \/ MouseSend(mouse, mouse')
    /\ UNCHANGED <<up, queue, writer, line, rpc, host, spent>>

\* injector.rs receives from INJECT_RAW (Ps2Bootstrap models what it types)
InjectorTakes ==
    /\ rpc.inject > 0
    /\ rpc' = [rpc EXCEPT !.inject = @ - 1]
    /\ UNCHANGED <<up, queue, writer, line, mouse, host, spent>>

Configure ==
    /\ ~up /\ up' = TRUE
    /\ UNCHANGED <<queue, writer, line, rpc, mouse, host, spent>>

\* The host's partial transfers go with the session
Disconnect ==
    /\ up /\ up' = FALSE /\ spent.drops < Drops
    /\ spent' = [spent EXCEPT !.drops = @ + 1]
    /\ host' = [p \in Ports |-> [host[p] EXCEPT !.part = 0, !.held = FALSE]]
    /\ UNCHANGED <<queue, writer, line, rpc, mouse>>

Task(p) == WriteChunk(p) \/ Flush(p) \/ Connected(p) \/ Receive(p) \/ ReadFails(p)

Next ==
  /\ \/ \E p \in running : Task(p)
     \/ BulkEnabled
     \/ MouseTask
     \/ InjectorTakes
     \/ "events" \in running /\ \E len \in Lengths : Emit(len)
     \/ \E word \in UNION {Range(l) : l \in Lines} : ControlWord(word)
     \/ ControlEnter
     \/ \E n \in 1..Packet, crs \in 0..Packet : crs <= n /\ ConsoleEcho(n, crs)
     \/ Configure
     \/ Disconnect
  /\ UNCHANGED running

Spec == Init /\ [][Next]_vars

\* Every task is polled by the executor.  The host need not stay, type or configure
\* anything; but one that has the device configured is taken to poll it, since a
\* write succeeds while it is up.
FairSpec ==
    /\ Spec
    /\ \A p \in Ports : WF_vars(p \in running /\ Task(p) /\ UNCHANGED running)
    /\ WF_vars(BulkEnabled /\ UNCHANGED running)
    /\ WF_vars(MouseTask /\ UNCHANGED running)

-----------------------------------------------------------------------------
(* Properties                                                              *)

TypeOK ==
    /\ up \in BOOLEAN
    /\ Len(queue.events) <= EventDepth /\ Len(queue.bulk) <= BulkDepth
    /\ \A p \in Ports : writer[p].pc \in
         {"connect", "receive", "read", "write", "flush", "wait_enabled"}
    /\ Len(line) <= LineCap /\ rpc.inject \in 0..InjectDepth
    /\ Len(mouse.queue) <= MouseDepth /\ mouse.BUTTONS \subseteq Range(BtnMask)

\* The frames of a port that the host has, that is being written and that wait
Serials(q) == [i \in 1..Len(q) |-> q[i].n]
Frames(p) ==
    host[p].got
      \o (IF writer[p].pc = "write" THEN <<writer[p].frame.n>> ELSE <<>>)
      \o Serials(queue[p])

\* The packets of an event stream: no event comes twice or out of order, and as
\* long as the host stayed, what it has, what is on its way and USB_EVENT_DROPS
\* add up to what was emitted.
EventsAccounted ==
    LET f == Frames("events")
    IN  /\ \A i, j \in 1..Len(f) : i < j => f[i] < f[j]
        /\ spent.drops = 0 => Len(f) + rpc.USB_EVENT_DROPS = rpc.emitted

\* A frame answered "ok" reaches the host in its turn, its seq counting the
\* refusals before it: what is being written and what waits are the last frames
\* accepted, whatever the host does, and a disconnection costs at most the frame
\* being written, because the writer waits for the host before it takes the next.
BulkSurvivesDisconnect ==
    LET f == Frames("bulk")
        a == rpc.accepted
        p == Len(f) - Len(host["bulk"].got)
    IN  /\ Len(f) <= Len(a) /\ Len(a) <= Len(f) + spent.drops
        /\ \A i \in 1 .. p : a[Len(a) - p + i] = f[Len(f) - p + i]
        /\ spent.drops = 0 => f = a

\* A port whose task waits for work has left no transfer open: the host is not
\* sitting on a frame whose length is a multiple of the packet.
FramesFlushed ==
    \A p \in {"events", "bulk", "control"} :
      writer[p].pc = Idle(p) => ~host[p].held

\* The mouse packets on the AUX wire are what the operator was told "ok"
MouseAnswers == MouseReported(mouse)

\* If the host stays, every task comes back to its queue or its read, and the
\* queues empty: no failure path leaves a writer waiting for good.
PortsServe ==
    <>[]up => \A p \in Ports :
                []<>(p \in running =>
                       /\ writer[p].pc = Idle(p)
                       /\ p \in {"events", "bulk"} => queue[p] = <<>>)
=============================================================================
