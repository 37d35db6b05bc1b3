------------------------------ MODULE Usb_proofs ------------------------------
(***************************************************************************)
(* The event stream, for every packet size and queue depth, any number of  *)
(* events of any length, and a host that comes and goes at any point: no   *)
(* event comes twice or out of order, and none is missing without being    *)
(* counted as long as the host stays.  Then the ports of the device and    *)
(* the mouse behind the control port: no port at rest leaves the host      *)
(* waiting for the end of a transfer, a bulk frame answered "ok" is lost   *)
(* only to a disconnection, and the mouse sends what the operator was      *)
(* told.                                                                   *)
(***************************************************************************)
EXTENDS Usb, SequenceTheorems, TLAPS

w == writer["events"]
h == host["events"]
q == queue["events"]

Frame == [n : Nat \ {0}, len : Nat \ {0}]
Rpc == [inject : Nat, BULK_SEQ : Nat, asked : Nat, accepted : Seq(Nat),
        USB_EVENT_DROPS : Nat, emitted : Nat]

(* The records of the port, and the function each is kept in.              *)
Shape ==
    /\ running \subseteq Ports
    /\ DOMAIN writer = Ports /\ DOMAIN host = Ports
    /\ DOMAIN queue = {"events", "bulk"}
    /\ w \in [pc : {"connect", "receive", "read", "write", "flush", "wait_enabled"},
              frame : [n : Nat, len : Nat], i : Nat, sent_full : BOOLEAN]
    /\ h \in [part : Nat, held : BOOLEAN, got : Seq(Nat)]
    /\ q \in Seq(Frame)
    /\ rpc \in Rpc
    /\ spent \in [work : Nat, drops : Nat]

(* What the host has lies before what is being written, and that before    *)
(* what waits.                                                             *)
Ordered ==
    /\ \A j, k \in 1 .. Len(h.got) : j < k => h.got[j] < h.got[k]
    /\ \A j, k \in 1 .. Len(q) : j < k => q[j].n < q[k].n
    /\ \A j \in 1 .. Len(h.got), k \in 1 .. Len(q) : h.got[j] < q[k].n
    /\ \A j \in 1 .. Len(h.got) : h.got[j] <= rpc.emitted
    /\ \A k \in 1 .. Len(q) : q[k].n <= rpc.emitted
    /\ w.pc = "write" =>
         /\ w.frame \in Frame /\ w.frame.n <= rpc.emitted
         /\ \A j \in 1 .. Len(h.got) : h.got[j] < w.frame.n
         /\ \A k \in 1 .. Len(q) : w.frame.n < q[k].n

(* The packet about to go out is one of the frame's, and while the host    *)
(* stays it has all those before it.                                       *)
Progress ==
    /\ w.pc = "write" => w.i >= 1 /\ w.i <= Chunks(w.frame.len)
    /\ spent.drops = 0 =>
         /\ w.pc # "connect" => up
         /\ w.pc = "write" => w.i = 1 \/ h.part = w.i - 1

Writing == IF w.pc = "write" THEN 1 ELSE 0

Counted ==
    spent.drops = 0 =>
        Len(h.got) + Writing + Len(q) + rpc.USB_EVENT_DROPS = rpc.emitted

EventsInv == Shape /\ Ordered /\ Progress /\ Counted

(* A frame has a packet.                                                   *)
LEMMA ChunksPositive ==
  ASSUME NEW len \in Nat \ {0} PROVE Chunks(len) \in Nat \ {0}
<1>1. Packet \in Nat \ {0}
  BY UsbAssumption
<1>2. (len + Packet - 1) \div Packet \in Nat \ {0}
  BY <1>1, SMTT(30)
<1> QED
  BY <1>2 DEF Chunks

LEMMA EventsStart == Init => EventsInv
<1> SUFFICES ASSUME Init PROVE EventsInv
  OBVIOUS
<1>1. w = [pc |-> "connect", frame |-> [n |-> 0, len |-> 0], i |-> 0, sent_full |-> FALSE]
  BY DEF Init, w, At, NoFrame, Ports
<1>2. h = [part |-> 0, held |-> FALSE, got |-> <<>>]
  BY DEF Init, h, HostInit, Ports
<1>3. q = <<>> /\ q \in Seq(Frame) /\ Len(q) = 0
  BY DEF Init, q
<1>4. /\ rpc = [inject |-> 0, BULK_SEQ |-> 0, asked |-> 0, accepted |-> <<>>,
              USB_EVENT_DROPS |-> 0, emitted |-> 0]
      /\ spent = [work |-> 0, drops |-> 0]
  BY DEF Init
<1>5. DOMAIN writer = Ports /\ DOMAIN host = Ports /\ DOMAIN queue = {"events", "bulk"}
  BY DEF Init
<1>6. Shape
  BY <1>1, <1>2, <1>3, <1>4, <1>5, UsbAssumption DEF Shape, Init, Ports, Rpc
<1>7. Ordered /\ Progress /\ Counted
  BY <1>1, <1>2, <1>3, <1>4 DEF Ordered, Progress, Counted, Writing
<1> QED
  BY <1>6, <1>7 DEF EventsInv

-----------------------------------------------------------------------------
LEMMA AskedIsRpc ==
  ASSUME rpc \in Rpc, NEW n \in Nat, NEW a \in Seq(Nat),
         rpc' = [rpc EXCEPT !.BULK_SEQ = n, !.asked = @ + 1, !.accepted = a]
  PROVE  rpc' \in Rpc /\ rpc'.emitted = rpc.emitted
         /\ rpc'.USB_EVENT_DROPS = rpc.USB_EVENT_DROPS
<1>1. rpc.asked + 1 \in Nat
  BY DEF Rpc
<1> DEFINE m == rpc.asked + 1
<1>2. rpc' = [rpc EXCEPT !.BULK_SEQ = n, !.asked = m, !.accepted = a] /\ m \in Nat
  BY <1>1
<1> HIDE DEF m
<1> QED
  BY <1>2 DEF Rpc

LEMMA InjectIsRpc ==
  ASSUME rpc \in Rpc, NEW m \in Nat, rpc' = [rpc EXCEPT !.inject = m]
  PROVE  rpc' \in Rpc /\ rpc'.emitted = rpc.emitted
         /\ rpc'.USB_EVENT_DROPS = rpc.USB_EVENT_DROPS
  BY DEF Rpc

(* next_seq stays a number, and so does the list of those answered "ok".   *)
LEMMA BulkTestAnswered ==
  ASSUME rpc \in Rpc, NEW ok \in BOOLEAN
  PROVE  /\ NextSeq(rpc.BULK_SEQ) \in Nat
         /\ (IF ok THEN Append(rpc.accepted, (rpc.asked % SeqWrap) + 1) ELSE rpc.accepted)
              \in Seq(Nat)
<1>1. rpc.BULK_SEQ \in Nat /\ rpc.asked \in Nat /\ rpc.accepted \in Seq(Nat)
  BY DEF Rpc
<1>2. NextSeq(rpc.BULK_SEQ) \in Nat /\ (rpc.asked % SeqWrap) + 1 \in Nat
  BY <1>1, UsbAssumption DEF NextSeq
<1>3. Append(rpc.accepted, (rpc.asked % SeqWrap) + 1) \in Seq(Nat)
  BY <1>1, <1>2, AppendProperties
<1> QED
  BY <1>1, <1>2, <1>3

LEMMA EmittedIsRpc ==
  ASSUME rpc \in Rpc, NEW m \in Nat, NEW d \in Nat,
         rpc' = [rpc EXCEPT !.emitted = m, !.USB_EVENT_DROPS = d]
  PROVE  rpc' \in Rpc /\ rpc'.emitted = m /\ rpc'.USB_EVENT_DROPS = d
  BY DEF Rpc

LEMMA ShapeFacts ==
  ASSUME Shape PROVE
  /\ rpc.emitted \in Nat /\ rpc.USB_EVENT_DROPS \in Nat /\ spent.drops \in Nat
  /\ Len(q) \in Nat /\ \A k \in 1 .. Len(q) : q[k] \in Frame /\ q[k].n \in Nat
  /\ h.got \in Seq(Nat) /\ Len(h.got) \in Nat
  /\ \A j \in 1 .. Len(h.got) : h.got[j] \in Nat
<1>1. rpc.emitted \in Nat /\ rpc.USB_EVENT_DROPS \in Nat /\ spent.drops \in Nat
  BY DEF Shape, Rpc
<1>2. q \in Seq(Frame)
  BY DEF Shape
<1>3. Len(q) \in Nat /\ \A k \in 1 .. Len(q) : q[k] \in Frame
  BY <1>2, LenProperties, ElementOfSeq
<1>4. \A f \in Frame : f.n \in Nat
  BY DEF Frame
<1>5. h.got \in Seq(Nat)
  BY DEF Shape
<1>6. Len(h.got) \in Nat /\ \A j \in 1 .. Len(h.got) : h.got[j] \in Nat
  BY <1>5, LenProperties, ElementOfSeq
<1> QED
  BY <1>1, <1>3, <1>4, <1>5, <1>6

(* What leaves the port's own state alone leaves the invariant alone.      *)
LEMMA Unmoved ==
  ASSUME EventsInv, Shape', w' = w, h' = h, q' = q,
         rpc'.emitted = rpc.emitted, rpc'.USB_EVENT_DROPS = rpc.USB_EVENT_DROPS,
         spent'.drops = spent.drops, up => up'
  PROVE  EventsInv'
<1>1. Ordered'
  BY DEF EventsInv, Ordered
<1>2. Progress'
  BY DEF EventsInv, Progress
<1>3. Counted'
  BY DEF EventsInv, Counted, Writing
<1> QED
  BY <1>1, <1>2, <1>3 DEF EventsInv

(* The other ports' tasks.                                                 *)
LEMMA OtherTasks ==
  ASSUME EventsInv, NEW p \in Ports \ {"events"}, Task(p), UNCHANGED running
  PROVE  EventsInv'
<1>1. DOMAIN writer = Ports /\ DOMAIN host = Ports /\ DOMAIN queue = {"events", "bulk"}
  BY DEF EventsInv, Shape
<1>2. /\ rpc' = rpc /\ spent' = spent /\ up' = up
      /\ w' = w /\ DOMAIN writer' = Ports
      /\ h' = h /\ DOMAIN host' = Ports
      /\ q' = q /\ DOMAIN queue' = {"events", "bulk"}
  <2>1. CASE WriteChunk(p)
    BY <1>1, <2>1 DEF WriteChunk, w, h, q, Ports
  <2>2. CASE Flush(p)
    BY <1>1, <2>2 DEF Flush, w, h, q, Ports
  <2>3. CASE Connected(p)
    BY <1>1, <2>3 DEF Connected, w, h, q, Ports
  <2>4. CASE Receive(p)
    BY <1>1, <2>4 DEF Receive, w, h, q, Ports
  <2>5. CASE ReadFails(p)
    BY <1>1, <2>5 DEF ReadFails, w, h, q, Ports
  <2> QED
    BY <2>1, <2>2, <2>3, <2>4, <2>5 DEF Task
<1>3. Shape'
  BY <1>2 DEF EventsInv, Shape
<1> QED
  BY <1>2, <1>3, Unmoved

(* The answer to a line goes to the control port, and its effects to the   *)
(* queues of the injector, the mouse and the bulk writer.                  *)
LEMMA ControlKeeps ==
  ASSUME EventsInv, ControlEnter, UNCHANGED running PROVE EventsInv'
<1>1. /\ DOMAIN writer = Ports /\ DOMAIN host = Ports /\ DOMAIN queue = {"events", "bulk"}
      /\ rpc \in Rpc
      /\ spent \in [work : Nat, drops : Nat]
  BY DEF EventsInv, Shape
<1>2. host' = host /\ up' = up /\ spent' = [spent EXCEPT !.work = @ + 1]
  BY DEF ControlEnter, Worked
<1>3. PICK len \in Lengths : Dispatch(Head(line), Tail(line), len)
  BY DEF ControlEnter
<1> DEFINE verb == Head(line)
           args == Tail(line)
<1> HIDE DEF verb, args
<1>4. Reply(len)
  BY <1>3 DEF Dispatch, HandleInject, HandleMouse, HandleBulkTest, verb, args
<1>5. w' = w /\ DOMAIN writer' = Ports
  BY <1>1, <1>4 DEF Reply, w, Ports
<1>6. \/ UNCHANGED <<queue, rpc>>
      \/ queue' = queue /\ rpc' = [rpc EXCEPT !.inject = @ + 1]
      \/ /\ queue' = queue \/ \E x : queue' = [queue EXCEPT !.bulk = x]
         /\ \E ok \in BOOLEAN :
              rpc' = [rpc EXCEPT !.BULK_SEQ = NextSeq(@), !.asked = @ + 1,
                        !.accepted = IF ok THEN Append(@, (rpc.asked % SeqWrap) + 1) ELSE @]
  <2>1. CASE HandleInject(args, len)
    BY <2>1 DEF HandleInject
  <2>2. CASE HandleMouse(verb, args, len)
    BY <2>2 DEF HandleMouse
  <2>3. CASE HandleBulkTest(args, len)
    BY <2>3 DEF HandleBulkTest
  <2>4. CASE UNCHANGED <<queue, rpc, mouse>>
    BY <2>4
  <2> QED
    BY <1>3, <2>1, <2>2, <2>3, <2>4 DEF Dispatch, verb, args
<1>7. q' = q /\ DOMAIN queue' = {"events", "bulk"}
  BY <1>1, <1>6 DEF q
<1>9. /\ rpc' \in Rpc
      /\ rpc'.emitted = rpc.emitted /\ rpc'.USB_EVENT_DROPS = rpc.USB_EVENT_DROPS
  <2>1. CASE UNCHANGED <<queue, rpc>>
    BY <1>1, <2>1
  <2>2. CASE rpc' = [rpc EXCEPT !.inject = @ + 1]
    <3>1. rpc.inject + 1 \in Nat
      BY <1>1 DEF Rpc
    <3> QED
      BY <1>1, <2>2, <3>1, InjectIsRpc
  <2>3. ASSUME NEW ok \in BOOLEAN,
               rpc' = [rpc EXCEPT !.BULK_SEQ = NextSeq(@), !.asked = @ + 1,
                         !.accepted = IF ok THEN Append(@, (rpc.asked % SeqWrap) + 1) ELSE @]
        PROVE  <1>9
    <3> DEFINE a == IF ok THEN Append(rpc.accepted, (rpc.asked % SeqWrap) + 1) ELSE rpc.accepted
               n == NextSeq(rpc.BULK_SEQ)
    <3>1. n \in Nat /\ a \in Seq(Nat)
      BY <1>1, <2>3, BulkTestAnswered
    <3>2. rpc' = [rpc EXCEPT !.BULK_SEQ = n, !.asked = @ + 1, !.accepted = a]
      BY <2>3
    <3> HIDE DEF a, n
    <3> QED
      BY <1>1, <3>1, <3>2, AskedIsRpc
  <2> QED
    BY <1>6, <2>1, <2>2, <2>3
<1>10. spent' \in [work : Nat, drops : Nat] /\ spent'.drops = spent.drops
  BY <1>1, <1>2
<1>11. h' = h
  BY <1>2 DEF h
<1>12. Shape'
  BY <1>2, <1>5, <1>7, <1>9, <1>10, <1>11 DEF EventsInv, Shape
<1> QED
  BY <1>2, <1>5, <1>7, <1>9, <1>10, <1>11, <1>12, Unmoved

(* Everything else that leaves the event stream alone.                     *)
LEMMA RestKeeps ==
  ASSUME EventsInv, UNCHANGED running,
         \/ BulkEnabled \/ MouseTask \/ InjectorTakes \/ Configure
         \/ \E word \in UNION {Range(l) : l \in Lines} : ControlWord(word)
         \/ \E n \in 1..Packet, crs \in 0..Packet : crs <= n /\ ConsoleEcho(n, crs)
  PROVE  EventsInv'
<1>1. /\ DOMAIN writer = Ports /\ DOMAIN host = Ports
      /\ rpc \in Rpc
      /\ spent \in [work : Nat, drops : Nat]
  BY DEF EventsInv, Shape
<1>2. /\ queue' = queue /\ host' = host /\ (up => up')
      /\ w' = w /\ DOMAIN writer' = Ports
      /\ rpc' \in Rpc
      /\ rpc'.emitted = rpc.emitted /\ rpc'.USB_EVENT_DROPS = rpc.USB_EVENT_DROPS
      /\ spent' \in [work : Nat, drops : Nat] /\ spent'.drops = spent.drops
  <2>1. CASE BulkEnabled
    BY <1>1, <2>1 DEF BulkEnabled, w, Ports
  <2>2. CASE MouseTask
    BY <1>1, <2>2 DEF MouseTask, w
  <2>3. CASE InjectorTakes
    <3>1. rpc.inject - 1 \in Nat /\ rpc' = [rpc EXCEPT !.inject = rpc.inject - 1]
      BY <1>1, <2>3 DEF InjectorTakes, Rpc
    <3>2. /\ rpc' \in Rpc /\ rpc'.emitted = rpc.emitted
          /\ rpc'.USB_EVENT_DROPS = rpc.USB_EVENT_DROPS
      BY <1>1, <3>1, InjectIsRpc
    <3> QED
      BY <1>1, <2>3, <3>2 DEF InjectorTakes, w
  <2>4. CASE Configure
    BY <1>1, <2>4 DEF Configure, w
  <2>5. CASE \E word \in UNION {Range(l) : l \in Lines} : ControlWord(word)
    <3>1. PICK word : ControlWord(word)
      BY <2>5
    <3>2. UNCHANGED <<up, queue, rpc, mouse, host, spent>>
      BY <3>1 DEF ControlWord
    <3>3. UNCHANGED writer \/ \E len \in Lengths : Reply(len)
      BY <3>1 DEF ControlWord
    <3>4. w' = w /\ DOMAIN writer' = Ports
      BY <1>1, <3>3 DEF Reply, w, Ports
    <3> QED
      BY <1>1, <3>2, <3>4
  <2>6. CASE \E n \in 1..Packet, crs \in 0..Packet : crs <= n /\ ConsoleEcho(n, crs)
    BY <1>1, <2>6 DEF ConsoleEcho, Worked, w, Ports
  <2> QED
    BY <2>1, <2>2, <2>3, <2>4, <2>5, <2>6
<1>3. h' = h /\ q' = q
  BY <1>2 DEF h, q
<1>4. Shape'
  BY <1>2, <1>3 DEF EventsInv, Shape
<1> QED
  BY <1>2, <1>3, <1>4, Unmoved

-----------------------------------------------------------------------------
(* emit: the new event is behind all others, or counted.                   *)
LEMMA EmitKeeps ==
  ASSUME EventsInv, NEW len \in Lengths, Emit(len), UNCHANGED running
  PROVE  EventsInv'
<1> DEFINE new == [n |-> rpc.emitted + 1, len |-> len]
<1>1. Shape /\ Ordered /\ Progress /\ Counted
  BY DEF EventsInv
<1>2. /\ rpc.emitted \in Nat /\ rpc.USB_EVENT_DROPS \in Nat
      /\ Len(q) \in Nat /\ Len(h.got) \in Nat
      /\ \A k \in 1 .. Len(q) : q[k].n \in Nat
      /\ \A j \in 1 .. Len(h.got) : h.got[j] \in Nat
  BY <1>1, ShapeFacts
<1>3. new \in Frame
  BY <1>2, UsbAssumption DEF Frame
<1>4. w' = w /\ h' = h /\ up' = up /\ DOMAIN writer' = Ports /\ DOMAIN host' = Ports
  BY <1>1 DEF Emit, Shape, w, h
<1>5. spent' \in [work : Nat, drops : Nat] /\ spent'.drops = spent.drops
  BY <1>1 DEF Emit, Worked, Shape
<1>6. rpc' \in Rpc /\ rpc'.emitted = rpc.emitted + 1
      /\ rpc'.USB_EVENT_DROPS = IF EventRoom THEN rpc.USB_EVENT_DROPS
                                             ELSE rpc.USB_EVENT_DROPS + 1
  <2>1. rpc \in Rpc
    BY <1>1 DEF Shape
  <2>2. CASE EventRoom
    <3>1. rpc' = [rpc EXCEPT !.emitted = rpc.emitted + 1, !.USB_EVENT_DROPS = rpc.USB_EVENT_DROPS]
      BY <2>2 DEF Emit
    <3>2. rpc.emitted + 1 \in Nat /\ rpc.USB_EVENT_DROPS \in Nat
      BY <1>2
    <3> QED
      BY <2>1, <2>2, <3>1, <3>2, EmittedIsRpc
  <2>3. CASE ~EventRoom
    <3>1. rpc' = [rpc EXCEPT !.emitted = rpc.emitted + 1,
                             !.USB_EVENT_DROPS = rpc.USB_EVENT_DROPS + 1]
      BY <2>3 DEF Emit
    <3>2. rpc.emitted + 1 \in Nat /\ rpc.USB_EVENT_DROPS + 1 \in Nat
      BY <1>2
    <3> QED
      BY <2>1, <2>3, <3>1, <3>2, EmittedIsRpc
  <2> QED
    BY <2>2, <2>3
<1>7. DOMAIN queue' = {"events", "bulk"} /\ q \in Seq(Frame)
      /\ (EventRoom => q' = Append(q, new)) /\ (~EventRoom => q' = q)
  BY <1>1 DEF Emit, Shape, q
<1>8. new.n = rpc.emitted + 1
  BY DEF new
<1> HIDE DEF new
<1>9. EventRoom =>
        /\ q' \in Seq(Frame) /\ Len(q') = Len(q) + 1 /\ q'[Len(q) + 1] = new
        /\ \A k \in 1 .. Len(q) : q'[k] = q[k]
  BY <1>3, <1>7, AppendProperties
<1>10. Shape'
  <2>1. q' \in Seq(Frame)
    BY <1>7, <1>9
  <2> QED
    BY <1>1, <1>4, <1>5, <1>6, <1>7, <2>1 DEF Shape
<1>11. w.pc = "write" => w.frame \in Frame /\ w.frame.n \in Nat
  BY <1>1 DEF Ordered, Frame
<1>12. \A k \in 1 .. Len(q') :
          \/ k \in 1 .. Len(q) /\ q'[k] = q[k]
          \/ EventRoom /\ k = Len(q) + 1 /\ q'[k] = new
  BY <1>2, <1>7, <1>9
<1>13. Ordered'
  <2>1. \A j, k \in 1 .. Len(q') : j < k => q'[j].n < q'[k].n
    <3> SUFFICES ASSUME NEW j \in 1 .. Len(q'), NEW k \in 1 .. Len(q'), j < k
                 PROVE  q'[j].n < q'[k].n
      OBVIOUS
    <3>1. j \in 1 .. Len(q) /\ q'[j] = q[j]
      BY <1>2, <1>7, <1>9, <1>12
    <3>2. CASE k \in 1 .. Len(q) /\ q'[k] = q[k]
      BY <1>1, <3>1, <3>2 DEF Ordered
    <3>3. CASE q'[k] = new
      <4>1. q[j].n <= rpc.emitted /\ q[j].n \in Nat
        BY <1>1, <1>2, <3>1 DEF Ordered
      <4> QED
        BY <1>2, <1>8, <3>1, <3>3, <4>1
    <3> QED
      BY <1>12, <3>2, <3>3
  <2>2. \A k \in 1 .. Len(q') : q'[k].n <= rpc'.emitted
    <3>1. rpc'.emitted \in Nat /\ rpc'.emitted >= rpc.emitted /\ new.n <= rpc'.emitted
      BY <1>2, <1>6, <1>8
    <3>2. \A k \in 1 .. Len(q) : q[k].n \in Nat /\ q[k].n <= rpc.emitted
      BY <1>1, <1>2 DEF Ordered
    <3> QED
      BY <1>2, <1>12, <3>1, <3>2
  <2>3. \A j \in 1 .. Len(h.got), k \in 1 .. Len(q') : h.got[j] < q'[k].n
    <3> SUFFICES ASSUME NEW j \in 1 .. Len(h.got), NEW k \in 1 .. Len(q')
                 PROVE  h.got[j] < q'[k].n
      OBVIOUS
    <3>1. CASE k \in 1 .. Len(q) /\ q'[k] = q[k]
      BY <1>1, <3>1 DEF Ordered
    <3>2. CASE q'[k] = new
      <4>1. h.got[j] <= rpc.emitted /\ h.got[j] \in Nat
        BY <1>1, <1>2 DEF Ordered
      <4> QED
        BY <1>2, <1>8, <3>2, <4>1
    <3> QED
      BY <1>12, <3>1, <3>2
  <2>4. \A j \in 1 .. Len(h.got) : h.got[j] <= rpc'.emitted
    BY <1>1, <1>2, <1>6 DEF Ordered
  <2>5. w.pc = "write" => /\ w.frame.n <= rpc'.emitted
                          /\ \A k \in 1 .. Len(q') : w.frame.n < q'[k].n
    <3> SUFFICES ASSUME w.pc = "write"
                 PROVE  /\ w.frame.n <= rpc'.emitted
                        /\ \A k \in 1 .. Len(q') : w.frame.n < q'[k].n
      OBVIOUS
    <3>1. /\ w.frame.n \in Nat /\ w.frame.n <= rpc.emitted
          /\ \A k \in 1 .. Len(q) : w.frame.n < q[k].n
      BY <1>1, <1>11 DEF Ordered
    <3>2. w.frame.n <= rpc'.emitted
      BY <1>2, <1>6, <3>1
    <3>3. w.frame.n < new.n
      BY <1>2, <1>8, <3>1
    <3>4. \A k \in 1 .. Len(q') : w.frame.n < q'[k].n
      BY <1>12, <3>1, <3>3
    <3> QED
      BY <3>2, <3>4
  <2> QED
    BY <1>1, <1>4, <2>1, <2>2, <2>3, <2>4, <2>5 DEF Ordered
<1>14. Progress'
  BY <1>1, <1>4, <1>5 DEF Progress
<1>15. Counted'
  <2>1. Writing \in Nat /\ Writing' = Writing
    BY <1>4 DEF Writing
  <2>2. Len(h'.got) = Len(h.got) /\ spent'.drops = spent.drops
    BY <1>4, <1>5
  <2>3. CASE EventRoom
    <3>1. /\ Len(q') = Len(q) + 1 /\ rpc'.USB_EVENT_DROPS = rpc.USB_EVENT_DROPS
          /\ rpc'.emitted = rpc.emitted + 1
      BY <1>6, <1>9, <2>3
    <3>2. spent.drops = 0 => Len(h.got) + Writing + Len(q) + rpc.USB_EVENT_DROPS = rpc.emitted
      BY <1>1 DEF Counted
    <3>3. spent.drops = 0 =>
            Len(h.got) + Writing + (Len(q) + 1) + rpc.USB_EVENT_DROPS = rpc.emitted + 1
      <4> DEFINE a == Len(h.got)
                 c == Len(q)
                 d == rpc.USB_EVENT_DROPS
                 e == rpc.emitted
      <4>1. a \in Nat /\ c \in Nat /\ d \in Nat /\ e \in Nat /\ Writing \in Nat
        BY <1>2, <2>1
      <4>2. spent.drops = 0 => a + Writing + c + d = e
        BY <3>2
      <4> HIDE DEF a, c, d, e
      <4>3. spent.drops = 0 => a + Writing + (c + 1) + d = e + 1
        BY <4>1, <4>2
      <4> QED
        BY <4>3 DEF a, c, d, e
    <3> QED
      BY <2>1, <2>2, <3>1, <3>3 DEF Counted
  <2>4. CASE ~EventRoom
    BY <1>1, <1>2, <1>6, <1>7, <2>1, <2>2, <2>4 DEF Counted
  <2> QED
    BY <2>3, <2>4
<1> QED
  BY <1>10, <1>13, <1>14, <1>15 DEF EventsInv

(* A disconnection takes nothing back from the host; what it costs is not  *)
(* claimed to be counted.                                                  *)
LEMMA DisconnectKeeps ==
  ASSUME EventsInv, Disconnect, UNCHANGED running PROVE EventsInv'
<1>1. Shape /\ Ordered /\ Progress
  BY DEF EventsInv
<1>2. w' = w /\ q' = q /\ rpc' = rpc /\ writer' = writer /\ queue' = queue
  BY DEF Disconnect, w, q
<1>3. spent' \in [work : Nat, drops : Nat] /\ spent'.drops # 0
  <2>1. spent \in [work : Nat, drops : Nat] /\ spent' = [spent EXCEPT !.drops = spent.drops + 1]
    BY <1>1 DEF Disconnect, Shape
  <2>2. spent.drops + 1 \in Nat \ {0}
    BY <2>1
  <2> QED
    BY <2>1, <2>2
<1>4. DOMAIN host' = Ports /\ h' = [h EXCEPT !.part = 0, !.held = FALSE]
  BY <1>1 DEF Disconnect, Shape, h, Ports
<1>5. h' \in [part : Nat, held : BOOLEAN, got : Seq(Nat)] /\ h'.got = h.got
  BY <1>1, <1>4 DEF Shape
<1>6. Shape'
  BY <1>1, <1>2, <1>3, <1>4, <1>5 DEF Shape
<1>7. Ordered'
  BY <1>1, <1>2, <1>5 DEF Ordered
<1>8. Progress' /\ Counted'
  BY <1>1, <1>2, <1>3 DEF Progress, Counted
<1> QED
  BY <1>6, <1>7, <1>8 DEF EventsInv

-----------------------------------------------------------------------------
(* The events writer itself.                                               *)
LEMMA AfterChunksFacts ==
  ASSUME NEW r, NEW c PROVE
  AfterChunks("events", r, c) \in {At("flush"), At("receive")}
  BY DEF AfterChunks, Idle

LEMMA AtShape ==
  ASSUME NEW pc \in {"flush", "receive"} PROVE
  /\ At(pc) \in [pc : {"connect", "receive", "read", "write", "flush", "wait_enabled"},
                frame : [n : Nat, len : Nat], i : Nat, sent_full : BOOLEAN]
  /\ At(pc).pc = pc
  BY DEF At, NoFrame

(* It connects, or ends a frame with an empty packet.                      *)
LEMMA RestsKeeps ==
  ASSUME EventsInv, Shape', q' = q, rpc' = rpc, spent' = spent, up' = up,
         h'.got = h.got, w'.pc \in {"flush", "receive"}, w.pc # "write",
         w.pc = "connect" => up
  PROVE  EventsInv'
<1>1. Ordered'
  BY DEF EventsInv, Ordered
<1>2. Progress'
  BY DEF EventsInv, Progress
<1>3. Counted'
  BY DEF EventsInv, Counted, Writing
<1> QED
  BY <1>1, <1>2, <1>3 DEF EventsInv

LEMMA FlushKeeps ==
  ASSUME EventsInv, Flush("events"), UNCHANGED running PROVE EventsInv'
<1>1. Shape
  BY DEF EventsInv
<1>2. w.pc = "flush" /\ UNCHANGED <<up, queue, line, rpc, mouse, spent>>
  BY DEF Flush, w
<1>3. DOMAIN writer' = Ports /\ w' = [w EXCEPT !.pc = "receive"]
  BY <1>1 DEF Flush, Shape, w, Ports, Idle
<1>4. DOMAIN host' = Ports /\ (h' = h \/ h' = [h EXCEPT !.held = FALSE])
  BY <1>1 DEF Flush, Shape, h, Ports
<1>5. w'.pc = "receive"
      /\ w' \in [pc : {"connect", "receive", "read", "write", "flush", "wait_enabled"},
                frame : [n : Nat, len : Nat], i : Nat, sent_full : BOOLEAN]
  BY <1>1, <1>3 DEF Shape
<1>6. h' \in [part : Nat, held : BOOLEAN, got : Seq(Nat)] /\ h'.got = h.got
  BY <1>1, <1>4 DEF Shape
<1>7. q' = q
  BY <1>2 DEF q
<1>8. Shape'
  BY <1>1, <1>2, <1>3, <1>4, <1>5, <1>6, <1>7 DEF Shape
<1> QED
  BY <1>2, <1>5, <1>6, <1>7, <1>8, RestsKeeps

LEMMA ConnectedKeeps ==
  ASSUME EventsInv, Connected("events"), UNCHANGED running PROVE EventsInv'
<1>1. Shape
  BY DEF EventsInv
<1>2. w.pc = "connect" /\ up /\ UNCHANGED <<up, queue, rpc, mouse, host, spent>>
  BY DEF Connected, w
<1>3. DOMAIN writer' = Ports /\ w' = At("receive")
  BY <1>1 DEF Connected, Shape, w, Ports
<1>4. q' = q /\ h' = h
  BY <1>2 DEF q, h
<1>5. Shape'
  BY <1>1, <1>2, <1>3, <1>4, AtShape DEF Shape
<1> QED
  BY <1>2, <1>3, <1>4, <1>5, AtShape, RestsKeeps

(* The frame taken is the first of those that wait.                        *)
LEMMA ReceiveKeeps ==
  ASSUME EventsInv, Receive("events"), UNCHANGED running PROVE EventsInv'
<1>1. Shape /\ Ordered /\ Progress /\ Counted
  BY DEF EventsInv
<1>2. /\ w.pc = "receive" /\ q # <<>>
      /\ up' = up /\ rpc' = rpc /\ host' = host /\ h' = h /\ spent' = spent
  BY DEF Receive, w, q, h
<1>3. DOMAIN writer' = Ports /\ w' = Begin(Head(q))
  BY <1>1 DEF Receive, Shape, w, q, Ports
<1>4. DOMAIN queue' = {"events", "bulk"} /\ q' = Tail(q) /\ q \in Seq(Frame)
  BY <1>1 DEF Receive, Shape, q
<1>5. /\ Head(q) = q[1] /\ q' \in Seq(Frame) /\ Len(q) \in Nat \ {0} /\ Len(q') = Len(q) - 1
      /\ \A k \in 1 .. Len(q') : q'[k] = q[k + 1]
  BY <1>2, <1>4, EmptySeq, LenProperties, HeadTailProperties
<1>6. 1 \in 1 .. Len(q) /\ \A k \in 1 .. Len(q') : k + 1 \in 1 .. Len(q)
  BY <1>5
<1>7. /\ rpc.emitted \in Nat /\ rpc.USB_EVENT_DROPS \in Nat
      /\ Len(h.got) \in Nat /\ q[1] \in Frame
      /\ \A k \in 1 .. Len(q) : q[k].n \in Nat
  BY <1>1, <1>6, ShapeFacts
<1>8. w' = [pc |-> "write", frame |-> q[1], i |-> 1, sent_full |-> FALSE]
  BY <1>3, <1>5 DEF Begin
<1>9. /\ w' \in [pc : {"connect", "receive", "read", "write", "flush", "wait_enabled"},
                frame : [n : Nat, len : Nat], i : Nat, sent_full : BOOLEAN]
      /\ w'.pc = "write" /\ w'.frame = q[1] /\ w'.i = 1
  BY <1>7, <1>8 DEF Frame
<1>10. Shape'
  BY <1>1, <1>2, <1>3, <1>4, <1>5, <1>9 DEF Shape
<1>11. Ordered'
  <2>1. \A j, k \in 1 .. Len(q') : j < k => q'[j].n < q'[k].n
    <3> SUFFICES ASSUME NEW j \in 1 .. Len(q'), NEW k \in 1 .. Len(q'), j < k
                 PROVE  q'[j].n < q'[k].n
      OBVIOUS
    <3>1. j + 1 \in 1 .. Len(q) /\ k + 1 \in 1 .. Len(q) /\ j + 1 < k + 1
      BY <1>6
    <3>2. q[j + 1].n < q[k + 1].n
      BY <1>1, <3>1 DEF Ordered
    <3> QED
      BY <1>5, <3>2
  <2>2. \A j \in 1 .. Len(h.got), k \in 1 .. Len(q') : h.got[j] < q'[k].n
    BY <1>1, <1>5, <1>6 DEF Ordered
  <2>3. \A k \in 1 .. Len(q') : q'[k].n <= rpc.emitted
    BY <1>1, <1>5, <1>6 DEF Ordered
  <2>4. q[1] \in Frame /\ q[1].n <= rpc.emitted
    BY <1>1, <1>6, <1>7 DEF Ordered
  <2>5. \A j \in 1 .. Len(h.got) : h.got[j] < q[1].n
    BY <1>1, <1>6 DEF Ordered
  <2>6. \A k \in 1 .. Len(q') : q[1].n < q'[k].n
    <3> SUFFICES ASSUME NEW k \in 1 .. Len(q') PROVE q[1].n < q'[k].n
      OBVIOUS
    <3>1. k + 1 \in 1 .. Len(q) /\ 1 < k + 1
      BY <1>6
    <3>2. q[1].n < q[k + 1].n
      BY <1>1, <1>6, <3>1 DEF Ordered
    <3> QED
      BY <1>5, <3>2
  <2> QED
    BY <1>1, <1>2, <1>9, <2>1, <2>2, <2>3, <2>4, <2>5, <2>6 DEF Ordered
<1>12. Progress'
  <2>1. Chunks(q[1].len) >= 1 /\ Chunks(q[1].len) \in Nat
    BY <1>7, ChunksPositive DEF Frame
  <2> QED
    BY <1>1, <1>2, <1>9, <2>1 DEF Progress
<1>13. Counted'
  <2>1. Writing = 0 /\ Writing' = 1
    BY <1>2, <1>9 DEF Writing
  <2>2. spent.drops = 0 => Len(h.got) + 0 + Len(q) + rpc.USB_EVENT_DROPS = rpc.emitted
    BY <1>1, <2>1 DEF Counted
  <2> DEFINE a == Len(h.got)
             c == Len(q)
             d == rpc.USB_EVENT_DROPS
             e == rpc.emitted
  <2>3. a \in Nat /\ c \in Nat /\ d \in Nat /\ e \in Nat /\ Len(q') = c - 1
    BY <1>5, <1>7
  <2>4. spent.drops = 0 => a + 0 + c + d = e
    BY <2>2
  <2> HIDE DEF a, c, d, e
  <2>5. spent.drops = 0 => a + 1 + (c - 1) + d = e
    BY <2>3, <2>4
  <2> QED
    BY <1>2, <2>1, <2>3, <2>5 DEF Counted, a, c, d, e
<1> QED
  BY <1>10, <1>11, <1>12, <1>13 DEF EventsInv

(* A packet goes out, the last of a frame or not, or the write fails.      *)
LEMMA WriteKeeps ==
  ASSUME EventsInv, WriteChunk("events"), UNCHANGED running PROVE EventsInv'
<1>1. Shape /\ Ordered /\ Progress /\ Counted
  BY DEF EventsInv
<1>2. /\ w.pc = "write"
      /\ up' = up /\ queue' = queue /\ q' = q /\ rpc' = rpc /\ spent' = spent
  BY DEF WriteChunk, w, q
<1> DEFINE W == [pc : {"connect", "receive", "read", "write", "flush", "wait_enabled"},
                 frame : [n : Nat, len : Nat], i : Nat, sent_full : BOOLEAN]
           sent == [w EXCEPT !.sent_full = @ \/ ChunkLen(w.frame.len, w.i) = Packet]
           last == ~(w.i < Chunks(w.frame.len))
<1>3. /\ w \in W /\ w.frame \in Frame /\ w.i \in Nat
      /\ w.frame.n \in Nat \ {0} /\ w.frame.len \in Nat \ {0}
      /\ w.i >= 1 /\ w.i <= Chunks(w.frame.len) /\ Chunks(w.frame.len) \in Nat \ {0}
  <2>1. w \in W /\ w.frame \in Frame /\ w.i >= 1 /\ w.i <= Chunks(w.frame.len)
    BY <1>1, <1>2 DEF Shape, Ordered, Progress
  <2>2. w.frame.n \in Nat \ {0} /\ w.frame.len \in Nat \ {0}
    BY <2>1 DEF Frame
  <2> QED
    BY <2>1, <2>2, ChunksPositive
<1>4. /\ rpc.emitted \in Nat /\ rpc.USB_EVENT_DROPS \in Nat
      /\ Len(q) \in Nat /\ h.got \in Seq(Nat) /\ Len(h.got) \in Nat
      /\ \A k \in 1 .. Len(q) : q[k].n \in Nat
      /\ \A j \in 1 .. Len(h.got) : h.got[j] \in Nat
  BY <1>1, ShapeFacts
<1>5. sent \in W /\ sent.i = w.i /\ sent.pc = "write" /\ sent.frame = w.frame
  BY <1>2, <1>3
<1>6. DOMAIN writer' = Ports /\ DOMAIN host' = Ports
  BY <1>1 DEF WriteChunk, Shape
<1>7. /\ up /\ ~last => w' = [sent EXCEPT !.i = w.i + 1]
      /\ ~up \/ last => w' \in {At("flush"), At("receive")}
      /\ up => h' = Delivered(h, w.frame, w.i)
      /\ ~up => h' = h
  <2>1. writer["events"] = w /\ host["events"] = h /\ "events" \in DOMAIN writer
        /\ "events" \in DOMAIN host
    BY <1>1 DEF w, h, Shape, Ports
  <2>2. CASE up
    <3>1. h' = Delivered(h, w.frame, w.i)
      BY <2>1, <2>2 DEF WriteChunk, h, w
    <3>2. w' = IF last THEN AfterChunks("events", sent, TRUE) ELSE [sent EXCEPT !.i = w.i + 1]
      BY <1>5, <2>1, <2>2 DEF WriteChunk, w
    <3> HIDE DEF last, sent
    <3> QED
      BY <2>2, <3>1, <3>2, AfterChunksFacts
  <2>3. CASE ~up
    <3>1. h' = h
      BY <2>3 DEF WriteChunk, h
    <3>2. w' = AfterChunks("events", w, FALSE)
      BY <2>1, <2>3 DEF WriteChunk, WriteFailed, w
    <3> QED
      BY <2>3, <3>1, <3>2, AfterChunksFacts
  <2> QED
    BY <2>2, <2>3
<1> DEFINE part == IF w.i = 1 \/ h.part = w.i - 1 THEN w.i ELSE 0
           whole == part = Chunks(w.frame.len)
<1>8. up => /\ h' \in [part : Nat, held : BOOLEAN, got : Seq(Nat)]
            /\ h'.part = IF whole THEN 0 ELSE part
            /\ h'.got = IF whole THEN Append(h.got, w.frame.n) ELSE h.got
  <2> SUFFICES ASSUME up
               PROVE  /\ h' \in [part : Nat, held : BOOLEAN, got : Seq(Nat)]
                      /\ h'.part = IF whole THEN 0 ELSE part
                      /\ h'.got = IF whole THEN Append(h.got, w.frame.n) ELSE h.got
    OBVIOUS
  <2>1. Append(h.got, w.frame.n) \in Seq(Nat)
    BY <1>3, <1>4, AppendProperties
  <2> DEFINE more == Append(h.got, w.frame.n)
  <2>2. h' = [part |-> IF whole THEN 0 ELSE part,
              held |-> ChunkLen(w.frame.len, w.i) = Packet,
              got  |-> IF whole THEN more ELSE h.got]
    BY <1>3, <1>7 DEF Delivered
  <2>3. part \in Nat /\ whole \in BOOLEAN
    BY <1>3
  <2> HIDE DEF more, part, whole
  <2>4. more \in Seq(Nat)
    BY <2>1 DEF more
  <2>5. (IF whole THEN 0 ELSE part) \in Nat /\ (IF whole THEN more ELSE h.got) \in Seq(Nat)
    BY <1>4, <2>3, <2>4
  <2> QED
    BY <2>2, <2>5 DEF more
<1> HIDE DEF W, sent
<1>9. ~last => ~whole
  BY <1>3
<1>10. spent.drops = 0 => up /\ part = w.i
  BY <1>1, <1>2 DEF Progress
<1>11. w' \in W
  <2>1. CASE up /\ ~last
    BY <1>3, <1>5, <1>7, <2>1 DEF W
  <2>2. CASE ~up \/ last
    BY <1>7, <2>2, AtShape DEF W
  <2> QED
    BY <2>1, <2>2
<1>12. up /\ ~last => w'.pc = "write" /\ w'.frame = w.frame /\ w'.i = w.i + 1
  BY <1>5, <1>7 DEF W
<1>13. ~up \/ last => w'.pc \in {"flush", "receive"}
  BY <1>7, AtShape
<1> HIDE DEF part, whole, last
<1>14. Shape'
  <2>1. h' \in [part : Nat, held : BOOLEAN, got : Seq(Nat)]
    BY <1>1, <1>7, <1>8 DEF Shape
  <2> QED
    BY <1>1, <1>2, <1>6, <1>11, <2>1 DEF Shape, W
<1>15. \A j \in 1 .. Len(h.got) : h.got[j] < w.frame.n
       /\ \A k \in 1 .. Len(q) : w.frame.n < q[k].n
  BY <1>1, <1>2 DEF Ordered
<1>16. w.frame.n <= rpc.emitted /\ \A k \in 1 .. Len(q) : w.frame.n < q[k].n
  BY <1>1, <1>2 DEF Ordered
<1>17. CASE up /\ ~last
  <2>1. h'.got = h.got /\ h'.part = part
    BY <1>8, <1>9, <1>17
  <2>2. Ordered'
    BY <1>1, <1>2, <1>12, <1>17, <2>1 DEF Ordered
  <2>3. Progress'
    <3>1. w.i + 1 >= 1 /\ w.i + 1 <= Chunks(w.frame.len)
      BY <1>3, <1>17 DEF last
    <3>2. spent.drops = 0 => h'.part = (w.i + 1) - 1
      BY <1>3, <1>10, <2>1
    <3> QED
      BY <1>2, <1>12, <1>17, <3>1, <3>2 DEF Progress
  <2>4. Counted'
    <3>1. Writing' = Writing
      BY <1>2, <1>12, <1>17 DEF Writing
    <3> QED
      BY <1>1, <1>2, <2>1, <3>1 DEF Counted
  <2> QED
    BY <1>14, <2>2, <2>3, <2>4 DEF EventsInv
<1>18. CASE ~up \/ last
  <2>1. w'.pc \in {"flush", "receive"} /\ Writing = 1 /\ Writing' = 0
    BY <1>2, <1>13, <1>18 DEF Writing
  <2>2. h'.got = h.got \/ h'.got = Append(h.got, w.frame.n)
    BY <1>7, <1>8
  <2>3. spent.drops = 0 => h'.got = Append(h.got, w.frame.n)
    BY <1>3, <1>8, <1>10, <1>18 DEF last, whole
  <2>4. Progress'
    BY <1>2, <1>10, <2>1 DEF Progress
  <2>5. Ordered'
    <3>1. CASE h'.got = h.got
      BY <1>1, <1>2, <2>1, <3>1 DEF Ordered
    <3>2. CASE h'.got = Append(h.got, w.frame.n)
      <4>1. /\ Len(h'.got) = Len(h.got) + 1 /\ h'.got[Len(h.got) + 1] = w.frame.n
            /\ \A j \in 1 .. Len(h.got) : h'.got[j] = h.got[j]
        BY <1>3, <1>4, <3>2, AppendProperties
      <4>2. \A j \in 1 .. Len(h'.got) : \/ j \in 1 .. Len(h.got) /\ h'.got[j] = h.got[j]
                                        \/ j = Len(h.got) + 1 /\ h'.got[j] = w.frame.n
        <5> SUFFICES ASSUME NEW j \in 1 .. Len(h'.got)
                     PROVE  \/ j \in 1 .. Len(h.got) /\ h'.got[j] = h.got[j]
                            \/ j = Len(h.got) + 1 /\ h'.got[j] = w.frame.n
          OBVIOUS
        <5>1. Len(h.got) \in Nat /\ j \in Int /\ 1 <= j /\ j <= Len(h.got) + 1
          BY <1>4, <4>1
        <5>2. CASE j <= Len(h.got)
          BY <4>1, <5>1, <5>2
        <5>3. CASE j = Len(h.got) + 1
          BY <4>1, <5>3
        <5> QED
          BY <5>1, <5>2, <5>3
      <4>3. \A j, k \in 1 .. Len(h'.got) : j < k => h'.got[j] < h'.got[k]
        <5> SUFFICES ASSUME NEW j \in 1 .. Len(h'.got), NEW k \in 1 .. Len(h'.got), j < k
                     PROVE  h'.got[j] < h'.got[k]
          OBVIOUS
        <5>1. j \in 1 .. Len(h.got) /\ h'.got[j] = h.got[j]
          BY <1>4, <4>1, <4>2
        <5>2. CASE k \in 1 .. Len(h.got) /\ h'.got[k] = h.got[k]
          BY <1>1, <5>1, <5>2 DEF Ordered
        <5>3. CASE h'.got[k] = w.frame.n
          BY <1>15, <5>1, <5>3
        <5> QED
          BY <4>2, <5>2, <5>3
      <4>4. \A j \in 1 .. Len(h'.got), k \in 1 .. Len(q) : h'.got[j] < q[k].n
        BY <1>1, <1>16, <4>2 DEF Ordered
      <4>5. \A j \in 1 .. Len(h'.got) : h'.got[j] <= rpc.emitted
        BY <1>1, <1>16, <4>2 DEF Ordered
      <4> QED
        BY <1>1, <1>2, <2>1, <4>3, <4>4, <4>5 DEF Ordered
    <3> QED
      BY <2>2, <3>1, <3>2
  <2>6. Counted'
    <3>1. spent.drops = 0 => Len(h.got) + 1 + Len(q) + rpc.USB_EVENT_DROPS = rpc.emitted
      BY <1>1, <2>1 DEF Counted
    <3>2. spent.drops = 0 => Len(h'.got) = Len(h.got) + 1
      BY <1>3, <1>4, <2>3, AppendProperties
    <3> DEFINE a == Len(h.got)
               c == Len(q)
               d == rpc.USB_EVENT_DROPS
               e == rpc.emitted
    <3>3. a \in Nat /\ c \in Nat /\ d \in Nat /\ e \in Nat
      BY <1>4
    <3>4. spent.drops = 0 => a + 1 + c + d = e /\ Len(h'.got) = a + 1
      BY <3>1, <3>2
    <3> HIDE DEF a, c, d, e
    <3>5. spent.drops = 0 => (a + 1) + 0 + c + d = e
      BY <3>3, <3>4
    <3> QED
      BY <1>2, <2>1, <3>4, <3>5 DEF Counted, a, c, d, e
  <2> QED
    BY <1>14, <2>4, <2>5, <2>6 DEF EventsInv
<1> QED
  BY <1>17, <1>18

-----------------------------------------------------------------------------
LEMMA EventsStep ==
  ASSUME EventsInv, Next PROVE EventsInv'
<1>1. UNCHANGED running /\ running \subseteq Ports
  BY DEF Next, EventsInv, Shape
<1>2. CASE \E p \in running : Task(p)
  <2>1. PICK p \in running : Task(p)
    BY <1>2
  <2>2. CASE p = "events"
    <3>1. ~ReadFails("events")
      BY DEF ReadFails
    <3> QED
      BY <1>1, <2>1, <2>2, <3>1, WriteKeeps, FlushKeeps, ConnectedKeeps, ReceiveKeeps DEF Task
  <2>3. CASE p # "events"
    BY <1>1, <2>1, <2>3, OtherTasks
  <2> QED
    BY <2>2, <2>3
<1>3. CASE \E len \in Lengths : Emit(len)
  BY <1>1, <1>3, EmitKeeps
<1>4. CASE ControlEnter
  BY <1>1, <1>4, ControlKeeps
<1>5. CASE Disconnect
  BY <1>1, <1>5, DisconnectKeeps
<1>6. CASE \/ BulkEnabled \/ MouseTask \/ InjectorTakes \/ Configure
           \/ \E word \in UNION {Range(l) : l \in Lines} : ControlWord(word)
           \/ \E n \in 1..Packet, crs \in 0..Packet : crs <= n /\ ConsoleEcho(n, crs)
  BY <1>1, <1>6, RestKeeps
<1> QED
  BY <1>2, <1>3, <1>4, <1>5, <1>6 DEF Next

LEMMA EventsStutter == EventsInv /\ UNCHANGED vars => EventsInv'
<1> SUFFICES ASSUME EventsInv, UNCHANGED vars PROVE EventsInv'
  OBVIOUS
<1>1. /\ up' = up /\ rpc' = rpc /\ spent' = spent /\ running' = running
      /\ w' = w /\ h' = h /\ q' = q /\ writer' = writer /\ host' = host /\ queue' = queue
  BY DEF vars, w, h, q
<1>2. Shape'
  BY <1>1 DEF EventsInv, Shape
<1> QED
  BY <1>1, <1>2, Unmoved

LEMMA EventsInductive == Spec => []EventsInv
  BY EventsStart, EventsStep, EventsStutter, PTL DEF Spec

(* Three ascending runs, each before the next, ascend.                     *)
LEMMA Joined ==
  ASSUME NEW a \in Seq(Nat), NEW b \in Seq(Nat),
         \A j, k \in 1 .. Len(a) : j < k => a[j] < a[k],
         \A j, k \in 1 .. Len(b) : j < k => b[j] < b[k],
         \A j \in 1 .. Len(a), k \in 1 .. Len(b) : a[j] < b[k]
  PROVE  /\ a \o b \in Seq(Nat) /\ Len(a \o b) = Len(a) + Len(b)
         /\ \A j, k \in 1 .. Len(a \o b) : j < k => (a \o b)[j] < (a \o b)[k]
<1> DEFINE s == a \o b
<1>1. /\ s \in Seq(Nat) /\ Len(s) = Len(a) + Len(b) /\ Len(a) \in Nat /\ Len(b) \in Nat
      /\ \A k \in 1 .. Len(s) : s[k] = IF k <= Len(a) THEN a[k] ELSE b[k - Len(a)]
  BY ConcatProperties, LenProperties
<1> HIDE DEF s
<1>2. ASSUME NEW j \in 1 .. Len(s), NEW k \in 1 .. Len(s), j < k PROVE s[j] < s[k]
  <2>1. CASE k <= Len(a)
    <3>1. j \in 1 .. Len(a) /\ k \in 1 .. Len(a) /\ s[j] = a[j] /\ s[k] = a[k]
      BY <1>1, <1>2, <2>1
    <3> QED
      BY <1>2, <3>1
  <2>2. CASE j <= Len(a) /\ ~(k <= Len(a))
    <3>1. j \in 1 .. Len(a) /\ k - Len(a) \in 1 .. Len(b) /\ s[j] = a[j] /\ s[k] = b[k - Len(a)]
      BY <1>1, <1>2, <2>2
    <3> QED
      BY <3>1
  <2>3. CASE ~(j <= Len(a)) /\ ~(k <= Len(a))
    <3>1. /\ j - Len(a) \in 1 .. Len(b) /\ k - Len(a) \in 1 .. Len(b)
          /\ j - Len(a) < k - Len(a)
          /\ s[j] = b[j - Len(a)] /\ s[k] = b[k - Len(a)]
      <4>1. /\ s[j] = b[j - Len(a)] /\ s[k] = b[k - Len(a)]
            /\ j \in Nat /\ k \in Nat /\ j <= Len(a) + Len(b) /\ k <= Len(a) + Len(b)
        BY <1>1, <1>2, <2>3
      <4>2. Len(a) \in Nat /\ Len(b) \in Nat
        BY <1>1
      <4> QED
        BY <4>1, <4>2, <1>2, <2>3
    <3> QED
      BY <3>1
  <2> QED
    BY <1>1, <1>2, <2>1, <2>2, <2>3
<1> QED
  BY <1>1, <1>2 DEF s

(* The host reads the event stream as a log: nothing in it twice or out of *)
(* order, and while the host stays, nothing missing that USB_EVENT_DROPS   *)
(* does not count.                                                         *)
THEOREM EventStreamAccounted == Spec => []EventsAccounted
<1>1. EventsInv => EventsAccounted
  <2> SUFFICES ASSUME EventsInv PROVE EventsAccounted
    OBVIOUS
  <2>1. Shape /\ Ordered /\ Counted
    BY DEF EventsInv
  <2>2. /\ rpc.emitted \in Nat /\ rpc.USB_EVENT_DROPS \in Nat
        /\ Len(q) \in Nat /\ \A k \in 1 .. Len(q) : q[k].n \in Nat
        /\ h.got \in Seq(Nat) /\ Len(h.got) \in Nat
    BY <2>1, ShapeFacts
  <2> DEFINE a == h.got
             b == IF w.pc = "write" THEN <<w.frame.n>> ELSE <<>>
             c == [k \in 1 .. Len(q) |-> q[k].n]
  <2>3. a \in Seq(Nat) /\ \A j, k \in 1 .. Len(a) : j < k => a[j] < a[k]
    BY <2>1, <2>2 DEF Ordered
  <2>4. /\ b \in Seq(Nat) /\ Len(b) = Writing
        /\ \A j, k \in 1 .. Len(b) : j < k => b[j] < b[k]
        /\ \A k \in 1 .. Len(b) : b[k] = w.frame.n /\ w.pc = "write"
    <3>1. CASE w.pc = "write"
      <4>1. w.frame.n \in Nat
        BY <2>1, <3>1 DEF Ordered, Frame
      <4> QED
        BY <3>1, <4>1 DEF Writing
    <3>2. CASE w.pc # "write"
      BY <3>2 DEF Writing
    <3> QED
      BY <3>1, <3>2
  <2>5. /\ c \in Seq(Nat) /\ Len(c) = Len(q)
        /\ \A k \in 1 .. Len(q) : c[k] = q[k].n
    BY <2>2
  <2>6. /\ \A j, k \in 1 .. Len(c) : j < k => c[j] < c[k]
        /\ \A j \in 1 .. Len(a), k \in 1 .. Len(c) : a[j] < c[k]
    BY <2>1, <2>5 DEF Ordered
  <2>7. \A j \in 1 .. Len(a), k \in 1 .. Len(b) : a[j] < b[k]
    BY <2>1, <2>4 DEF Ordered
  <2>8. \A j \in 1 .. Len(b), k \in 1 .. Len(c) : b[j] < c[k]
    BY <2>1, <2>4, <2>5 DEF Ordered
  <2> DEFINE f == a \o b \o c
  <2>9. Frames("events") = f
    BY DEF Frames, Serials, w, h, q
  <2> HIDE DEF a, b, c
  <2>10. /\ a \o b \in Seq(Nat) /\ Len(a \o b) = Len(a) + Len(b)
         /\ \A j, k \in 1 .. Len(a \o b) : j < k => (a \o b)[j] < (a \o b)[k]
    BY <2>3, <2>4, <2>7, Joined
  <2>11. \A j \in 1 .. Len(a \o b) : \/ j \in 1 .. Len(a) /\ (a \o b)[j] = a[j]
                                     \/ j - Len(a) \in 1 .. Len(b) /\ (a \o b)[j] = b[j - Len(a)]
    <3> SUFFICES ASSUME NEW j \in 1 .. Len(a \o b)
                 PROVE  \/ j \in 1 .. Len(a) /\ (a \o b)[j] = a[j]
                        \/ j - Len(a) \in 1 .. Len(b) /\ (a \o b)[j] = b[j - Len(a)]
      OBVIOUS
    <3>1. Len(a) \in Nat /\ Len(b) \in Nat /\ j \in Int /\ 1 <= j /\ j <= Len(a) + Len(b)
      BY <2>3, <2>4, <2>10, LenProperties
    <3>2. (a \o b)[j] = IF j <= Len(a) THEN a[j] ELSE b[j - Len(a)]
      BY <2>3, <2>4, <3>1, ConcatProperties
    <3> QED
      BY <3>1, <3>2
  <2>12. \A j \in 1 .. Len(a \o b), k \in 1 .. Len(c) : (a \o b)[j] < c[k]
    BY <2>6, <2>8, <2>11
  <2>13. /\ Len(f) = Len(a) + Len(b) + Len(c)
         /\ \A j, k \in 1 .. Len(f) : j < k => f[j] < f[k]
    BY <2>5, <2>6, <2>10, <2>12, Joined
  <2>14. spent.drops = 0 => Len(a) + Len(b) + Len(c) + rpc.USB_EVENT_DROPS = rpc.emitted
    BY <2>1, <2>4, <2>5 DEF Counted, a
  <2> HIDE DEF f
  <2> QED
    BY <2>9, <2>13, <2>14 DEF EventsAccounted
<1> QED
  BY <1>1, EventsInductive, PTL

-----------------------------------------------------------------------------
(* The ports and the mouse.                                               *)
PCs == {"connect", "receive", "read", "write", "flush", "wait_enabled"}
WriterRec == [pc : PCs, frame : [n : Nat, len : Nat], i : Nat, sent_full : BOOLEAN]
HostRec == [part : Nat, held : BOOLEAN, got : Seq(Nat)]

PortsShape ==
    /\ running \subseteq Ports
    /\ up \in BOOLEAN
    /\ writer \in [Ports -> WriterRec]
    /\ host \in [Ports -> HostRec]
    /\ queue \in [events : Seq(Frame), bulk : Seq(Frame)]
    /\ rpc \in Rpc
    /\ spent \in [work : Nat, drops : Nat]

(* A port writes a packet its frame has; and a transfer is open only while *)
(* its task still writes it and the host is there to receive it.           *)
Sound(p, r, g, there) ==
    /\ r.pc = "write" =>
         r.frame.len \in Nat \ {0} /\ r.i >= 1 /\ r.i <= Chunks(r.frame.len)
    /\ p # "console" /\ g.held => there /\ r.pc \in {"write", "flush"}

PortsInv == PortsShape /\ \A p \in Ports : Sound(p, writer[p], host[p], up)

-----------------------------------------------------------------------------
(* If the last packet of a frame is full, the frame's length is a multiple *)
(* of the packet.                                                          *)
LEMMA LastFull ==
  ASSUME NEW len \in Nat \ {0}, NEW i \in Nat, i >= Chunks(len), ChunkLen(len, i) = Packet
  PROVE  len % Packet = 0
<1>1. Packet \in Nat \ {0}
  BY UsbAssumption
<1>2. len % Packet # Packet
  BY <1>1, SMTT(30)
<1>3. i * Packet <= len
  BY <1>2 DEF ChunkLen
<1> DEFINE c == (len + Packet - 1) \div Packet
<1>4. c \in Nat /\ c * Packet > len - 1
  BY <1>1, SMTT(30)
<1>5. i >= c
  BY DEF Chunks
<1> HIDE DEF c
<1>6. i * Packet >= c * Packet
  BY <1>1, <1>4, <1>5, SMTT(30)
<1>7. i * Packet \in Nat /\ c * Packet \in Nat
  BY <1>1, <1>4
<1>8. len = i * Packet
  BY <1>3, <1>4, <1>6, <1>7
<1>9. (i * Packet) % Packet = 0
  BY <1>1, SMTT(30)
<1> QED
  BY <1>8, <1>9

LEMMA AtIsWriter ==
  ASSUME NEW pc \in PCs PROVE At(pc) \in WriterRec /\ At(pc).pc = pc
  BY DEF At, NoFrame, WriterRec

LEMMA BeginIsWriter ==
  ASSUME NEW f \in [n : Nat, len : Nat \ {0}]
  PROVE  /\ Begin(f) \in WriterRec /\ Begin(f).pc = "write" /\ Begin(f).frame = f
         /\ Begin(f).i = 1
         /\ f.len \in Nat \ {0} /\ 1 <= Chunks(f.len)
<1>1. f.len \in Nat \ {0} /\ f.n \in Nat
  OBVIOUS
<1>2. Chunks(f.len) \in Nat \ {0}
  BY <1>1, ChunksPositive
<1> QED
  BY <1>1, <1>2 DEF Begin, WriterRec, PCs

LEMMA IdleFacts ==
  ASSUME NEW p \in Ports PROVE Idle(p) \in {"receive", "read"} /\ Idle(p) \in PCs
  BY DEF Idle, PCs

(* The loop over the chunks ends in a flush or in the port's idle state.   *)
LEMMA AfterChunksPort ==
  ASSUME NEW p \in Ports, NEW r, NEW c
  PROVE  /\ AfterChunks(p, r, c) \in WriterRec
         /\ AfterChunks(p, r, c).pc \in {"flush", "receive", "read"}
         /\ FlushDue(p, r, c) => AfterChunks(p, r, c).pc = "flush"
<1>1. "flush" \in PCs
  BY DEF PCs
<1>2. CASE FlushDue(p, r, c)
  BY <1>1, <1>2, AtIsWriter DEF AfterChunks
<1>3. CASE ~FlushDue(p, r, c)
  BY <1>3, IdleFacts, AtIsWriter DEF AfterChunks
<1> QED
  BY <1>2, <1>3

-----------------------------------------------------------------------------
(* A step that changes one port only.                                      *)
LEMMA OnePort ==
  ASSUME PortsInv, NEW p \in Ports, NEW r \in WriterRec, NEW g \in HostRec,
         writer' = [writer EXCEPT ![p] = r], host' = [host EXCEPT ![p] = g], up' = up,
         Sound(p, r, g, up),
         queue' \in [events : Seq(Frame), bulk : Seq(Frame)], rpc' \in Rpc,
         spent' \in [work : Nat, drops : Nat], running' = running
  PROVE  PortsInv'
<1>1. writer \in [Ports -> WriterRec] /\ host \in [Ports -> HostRec]
  BY DEF PortsInv, PortsShape
<1>2. writer' \in [Ports -> WriterRec] /\ host' \in [Ports -> HostRec]
  BY <1>1
<1>3. \A s \in Ports : /\ writer'[s] = IF s = p THEN r ELSE writer[s]
                       /\ host'[s] = IF s = p THEN g ELSE host[s]
  BY <1>1
<1>4. PortsShape'
  BY <1>2 DEF PortsInv, PortsShape
<1>5. \A s \in Ports : Sound(s, writer[s], host[s], up)
  BY DEF PortsInv
<1>6. ASSUME NEW s \in Ports PROVE Sound(s, writer'[s], host'[s], up')
  <2>1. CASE s = p
    BY <1>3, <2>1
  <2>2. CASE s # p
    BY <1>3, <1>5, <2>2
  <2> QED
    BY <2>1, <2>2
<1> QED
  BY <1>4, <1>6 DEF PortsInv

(* A step that changes no port.                                            *)
LEMMA NoPort ==
  ASSUME PortsInv, writer' = writer, host' = host, up' \in BOOLEAN, up => up',
         queue' \in [events : Seq(Frame), bulk : Seq(Frame)], rpc' \in Rpc,
         spent' \in [work : Nat, drops : Nat], running' = running
  PROVE  PortsInv'
<1>1. PortsShape'
  BY DEF PortsInv, PortsShape
<1>2. ASSUME NEW s \in Ports PROVE Sound(s, writer'[s], host'[s], up')
  <2>1. Sound(s, writer[s], host[s], up)
    BY DEF PortsInv
  <2> QED
    BY <2>1 DEF Sound
<1> QED
  BY <1>1, <1>2 DEF PortsInv

LEMMA PortsStart == Init => PortsInv
<1> SUFFICES ASSUME Init PROVE PortsInv
  OBVIOUS
<1>1. \A p \in Ports : writer[p] = At("connect") /\ host[p] = HostInit
  BY DEF Init
<1>2. At("connect") \in WriterRec /\ At("connect").pc = "connect"
  BY AtIsWriter DEF PCs
<1>3. HostInit \in HostRec /\ HostInit.held = FALSE
  BY DEF HostInit, HostRec
<1>4. writer \in [Ports -> WriterRec] /\ host \in [Ports -> HostRec]
  BY <1>2, <1>3 DEF Init
<1>5. queue \in [events : Seq(Frame), bulk : Seq(Frame)] /\ rpc \in Rpc
  BY DEF Init, Rpc
<1>6. PortsShape
  BY <1>4, <1>5, UsbAssumption DEF PortsShape, Init, Ports
<1>7. \A p \in Ports : Sound(p, writer[p], host[p], up)
  BY <1>1, <1>2, <1>3 DEF Sound
<1> QED
  BY <1>6, <1>7 DEF PortsInv

LEMMA PortFacts ==
  ASSUME PortsInv, NEW p \in Ports
  PROVE  /\ writer[p] \in WriterRec /\ host[p] \in HostRec
         /\ Sound(p, writer[p], host[p], up)
         /\ DOMAIN writer = Ports /\ DOMAIN host = Ports
         /\ queue \in [events : Seq(Frame), bulk : Seq(Frame)] /\ rpc \in Rpc
         /\ spent \in [work : Nat, drops : Nat] /\ up \in BOOLEAN
  BY DEF PortsInv, PortsShape

-----------------------------------------------------------------------------
(* The tasks of the ports.                                                 *)
LEMMA DeliveredPort ==
  ASSUME NEW g \in HostRec, NEW f \in [n : Nat, len : Nat \ {0}], NEW i \in Nat
  PROVE  /\ Delivered(g, f, i) \in HostRec
         /\ Delivered(g, f, i).held = (ChunkLen(f.len, i) = Packet)
<1> DEFINE part == IF i = 1 \/ g.part = i - 1 THEN i ELSE 0
           whole == part = Chunks(f.len)
           full == ChunkLen(f.len, i) = Packet
           more == Append(g.got, f.n)
<1>1. Delivered(g, f, i) = [part |-> IF whole THEN 0 ELSE part, held |-> full,
                            got |-> IF whole /\ f.n > 0 THEN more ELSE g.got]
  BY DEF Delivered
<1>2. g.got \in Seq(Nat) /\ f.n \in Nat /\ part \in Nat /\ full \in BOOLEAN
  BY DEF HostRec
<1>3. more \in Seq(Nat)
  BY <1>2, AppendProperties
<1> HIDE DEF part, whole, full, more
<1> QED
  BY <1>1, <1>2, <1>3 DEF HostRec, full

(* A packet goes out or the write fails: the last packet is full only if   *)
(* the flush is due.                                                       *)
LEMMA WritePort ==
  ASSUME PortsInv, NEW p \in Ports, WriteChunk(p), running' = running PROVE PortsInv'
<1> DEFINE r == writer[p]
           g == host[p]
           sent == [r EXCEPT !.sent_full = @ \/ ChunkLen(r.frame.len, r.i) = Packet]
           r2 == IF ~up THEN WriteFailed(p, r)
                 ELSE IF r.i < Chunks(r.frame.len) THEN [sent EXCEPT !.i = @ + 1]
                 ELSE AfterChunks(p, sent, TRUE)
           g2 == IF up THEN Delivered(g, r.frame, r.i) ELSE g
<1>1. /\ r \in WriterRec /\ g \in HostRec /\ Sound(p, r, g, up)
      /\ DOMAIN writer = Ports /\ DOMAIN host = Ports
      /\ queue \in [events : Seq(Frame), bulk : Seq(Frame)] /\ rpc \in Rpc
      /\ spent \in [work : Nat, drops : Nat]
  BY PortFacts
<1>2. /\ r.pc = "write" /\ UNCHANGED <<up, queue, line, rpc, mouse, spent>>
      /\ writer' = [writer EXCEPT ![p] = r2]
  BY DEF WriteChunk
<1>3. host' = [host EXCEPT ![p] = g2]
  <2>1. host \in [Ports -> HostRec]
    BY DEF PortsInv, PortsShape
  <2>2. host' = IF up THEN [host EXCEPT ![p] = Delivered(@, r.frame, r.i)] ELSE host
    BY DEF WriteChunk
  <2> QED
    BY <2>1, <2>2
<1>4. /\ r.frame \in [n : Nat, len : Nat \ {0}] /\ r.frame.len \in Nat \ {0}
      /\ r.i \in Nat /\ r.i >= 1 /\ r.i <= Chunks(r.frame.len)
      /\ Chunks(r.frame.len) \in Nat
  <2>1. r.frame.len \in Nat \ {0} /\ r.i >= 1 /\ r.i <= Chunks(r.frame.len)
    BY <1>1, <1>2 DEF Sound
  <2> QED
    BY <1>1, <2>1, ChunksPositive DEF WriterRec
<1>5. /\ sent \in WriterRec /\ sent.pc = "write" /\ sent.i = r.i /\ sent.frame = r.frame
      /\ ChunkLen(r.frame.len, r.i) = Packet => sent.sent_full
  <2> DEFINE full == ChunkLen(r.frame.len, r.i) = Packet
             mark == r.sent_full \/ full
  <2>1. mark \in BOOLEAN /\ (full => mark) /\ sent = [r EXCEPT !.sent_full = mark]
    OBVIOUS
  <2>2. r \in WriterRec /\ r.pc = "write"
    BY <1>1, <1>2
  <2> HIDE DEF sent, mark, r
  <2>3. /\ sent \in WriterRec /\ sent.pc = "write" /\ sent.i = r.i /\ sent.frame = r.frame
        /\ sent.sent_full = mark
    BY <2>1, <2>2 DEF WriterRec
  <2> QED
    BY <2>1, <2>3
<1>6. g2 \in HostRec /\ (up => g2.held = (ChunkLen(r.frame.len, r.i) = Packet))
  <2> DEFINE f == r.frame
             i == r.i
  <2>1. g \in HostRec /\ f \in [n : Nat, len : Nat \ {0}] /\ i \in Nat
    BY <1>1, <1>4
  <2> HIDE DEF f, i, r, g
  <2>2. /\ Delivered(g, f, i) \in HostRec
        /\ Delivered(g, f, i).held = (ChunkLen(f.len, i) = Packet)
    BY <2>1, DeliveredPort
  <2> QED
    BY <2>1, <2>2 DEF f, i
<1> HIDE DEF sent
<1>7. r2 \in WriterRec /\ Sound(p, r2, g2, up)
  <2>1. CASE ~up
    <3>1. r2 = WriteFailed(p, r) /\ g2 = g
      BY <2>1
    <3>2. WriteFailed(p, r) \in WriterRec /\ WriteFailed(p, r).pc # "write"
      <4>1. CASE p = "bulk"
        BY <1>1, <4>1 DEF WriteFailed, WriterRec, PCs
      <4>2. CASE p # "bulk"
        BY <4>2, AfterChunksPort DEF WriteFailed
      <4> QED
        BY <4>1, <4>2
    <3> HIDE DEF r, g, r2, g2
    <3> QED
      BY <1>1, <2>1, <3>1, <3>2 DEF Sound
  <2>2. CASE up /\ r.i < Chunks(r.frame.len)
    <3>1. r2 = [sent EXCEPT !.i = r.i + 1]
      BY <1>5, <2>2
    <3> DEFINE next == r.i + 1
    <3>2. r2 = [sent EXCEPT !.i = next]
      BY <3>1
    <3> HIDE DEF r, g, r2, g2
    <3>3. next \in Nat
      BY <1>4
    <3> HIDE DEF next
    <3>4. r2 \in WriterRec /\ r2.pc = "write" /\ r2.frame = r.frame /\ r2.i = next
      BY <1>5, <3>2, <3>3 DEF WriterRec
    <3>5. next >= 1 /\ next <= Chunks(r.frame.len)
      BY <1>4, <2>2 DEF next
    <3> QED
      BY <1>4, <2>2, <3>4, <3>5 DEF Sound
  <2>3. CASE up /\ ~(r.i < Chunks(r.frame.len))
    <3>1. r2 = AfterChunks(p, sent, TRUE)
      BY <2>3
    <3> HIDE DEF r, g, r2, g2
    <3>2. /\ r2 \in WriterRec /\ r2.pc \in {"flush", "receive", "read"}
          /\ FlushDue(p, sent, TRUE) => r2.pc = "flush"
      BY <3>1, AfterChunksPort
    <3>3. ASSUME p # "console", g2.held PROVE FlushDue(p, sent, TRUE)
      <4>1. ChunkLen(r.frame.len, r.i) = Packet
        BY <1>6, <2>3, <3>3
      <4>2. r.frame.len % Packet = 0
        BY <1>4, <2>3, <4>1, LastFull
      <4>3. sent.sent_full /\ sent.frame.len % Packet = 0
        BY <1>5, <4>1, <4>2
      <4> QED
        BY <3>3, <4>3 DEF FlushDue, Ports
    <3> QED
      BY <2>3, <3>2, <3>3 DEF Sound
  <2> QED
    BY <2>1, <2>2, <2>3
<1> HIDE DEF r2, g2
<1> QED
  BY <1>1, <1>2, <1>3, <1>6, <1>7, OnePort

LEMMA FlushPort ==
  ASSUME PortsInv, NEW p \in Ports, Flush(p), running' = running PROVE PortsInv'
<1> DEFINE r2 == [writer[p] EXCEPT !.pc = Idle(p)]
           g2 == IF up THEN [host[p] EXCEPT !.held = FALSE] ELSE host[p]
<1>1. /\ writer[p] \in WriterRec /\ host[p] \in HostRec /\ Sound(p, writer[p], host[p], up)
      /\ queue \in [events : Seq(Frame), bulk : Seq(Frame)] /\ rpc \in Rpc
      /\ spent \in [work : Nat, drops : Nat]
  BY PortFacts
<1>2. writer[p].pc = "flush" /\ UNCHANGED <<up, queue, line, rpc, mouse, spent>>
  BY DEF Flush
<1>3. writer' = [writer EXCEPT ![p] = r2] /\ host' = [host EXCEPT ![p] = g2]
  <2>1. writer \in [Ports -> WriterRec] /\ host \in [Ports -> HostRec]
    BY DEF PortsInv, PortsShape
  <2> QED
    BY <2>1 DEF Flush
<1>4. r2 \in WriterRec /\ r2.pc = Idle(p) /\ r2.pc # "write"
  BY <1>1, IdleFacts DEF WriterRec
<1>5. g2 \in HostRec /\ (up => g2.held = FALSE) /\ (~up => g2 = host[p])
  BY <1>1 DEF HostRec
<1> HIDE DEF r2, g2
<1>6. Sound(p, r2, g2, up)
  BY <1>1, <1>4, <1>5 DEF Sound
<1> QED
  BY <1>1, <1>2, <1>3, <1>4, <1>5, <1>6, OnePort

(* A port whose task was at rest turns to a frame, or to rest elsewhere.   *)
LEMMA TurnPort ==
  ASSUME PortsInv, NEW p \in Ports, NEW r \in WriterRec,
         writer[p].pc \notin {"write", "flush"},
         r.pc = "write" => r.frame.len \in Nat \ {0} /\ r.i >= 1 /\ r.i <= Chunks(r.frame.len),
         writer' = [writer EXCEPT ![p] = r], host' = host, up' = up,
         queue' \in [events : Seq(Frame), bulk : Seq(Frame)], rpc' \in Rpc,
         spent' \in [work : Nat, drops : Nat], running' = running
  PROVE  PortsInv'
<1>1. host[p] \in HostRec /\ Sound(p, writer[p], host[p], up)
  BY PortFacts
<1>2. host' = [host EXCEPT ![p] = host[p]]
  BY DEF PortsInv, PortsShape
<1>3. Sound(p, r, host[p], up)
  BY <1>1 DEF Sound
<1> QED
  BY <1>1, <1>2, <1>3, OnePort

LEMMA BeginPort ==
  ASSUME PortsInv, NEW p \in Ports, NEW f \in [n : Nat, len : Nat \ {0}],
         writer[p].pc \notin {"write", "flush"},
         writer' = [writer EXCEPT ![p] = Begin(f)], host' = host, up' = up,
         queue' \in [events : Seq(Frame), bulk : Seq(Frame)], rpc' \in Rpc,
         spent' \in [work : Nat, drops : Nat], running' = running
  PROVE  PortsInv'
<1>1. /\ Begin(f) \in WriterRec /\ Begin(f).frame.len \in Nat \ {0}
      /\ Begin(f).i >= 1 /\ Begin(f).i <= Chunks(Begin(f).frame.len)
  BY BeginIsWriter
<1> QED
  BY <1>1, TurnPort

LEMMA ConnectedPort ==
  ASSUME PortsInv, NEW p \in Ports, Connected(p), running' = running PROVE PortsInv'
<1>1. /\ queue \in [events : Seq(Frame), bulk : Seq(Frame)] /\ rpc \in Rpc
      /\ spent \in [work : Nat, drops : Nat]
  BY PortFacts
<1>2. writer[p].pc = "connect" /\ UNCHANGED <<up, queue, rpc, mouse, host, spent>>
  BY DEF Connected
<1>3. PICK len \in Lengths :
         writer' = [writer EXCEPT ![p] = IF p \in {"control", "console"}
                                         THEN Begin([n |-> 0, len |-> len])
                                         ELSE At("receive")]
  BY DEF Connected
<1>4. CASE p \in {"control", "console"}
  <2>1. [n |-> 0, len |-> len] \in [n : Nat, len : Nat \ {0}]
    BY <1>3, UsbAssumption
  <2> QED
    BY <1>1, <1>2, <1>3, <1>4, <2>1, BeginPort
<1>5. CASE p \notin {"control", "console"}
  <2>1. At("receive") \in WriterRec /\ At("receive").pc = "receive"
    BY AtIsWriter DEF PCs
  <2> QED
    BY <1>1, <1>2, <1>3, <1>5, <2>1, TurnPort
<1> QED
  BY <1>4, <1>5

LEMMA ReadFailsPort ==
  ASSUME PortsInv, NEW p \in Ports, ReadFails(p), running' = running PROVE PortsInv'
<1> DEFINE r == [writer[p] EXCEPT !.pc = "connect"]
<1>1. /\ writer[p] \in WriterRec
      /\ queue \in [events : Seq(Frame), bulk : Seq(Frame)] /\ rpc \in Rpc
      /\ spent \in [work : Nat, drops : Nat]
  BY PortFacts
<1>2. /\ writer[p].pc = "read" /\ UNCHANGED <<up, queue, line, rpc, mouse, host, spent>>
      /\ writer' = [writer EXCEPT ![p] = r]
  BY DEF ReadFails
<1>3. r \in WriterRec /\ r.pc = "connect"
  BY <1>1 DEF WriterRec, PCs
<1> HIDE DEF r
<1> QED
  BY <1>1, <1>2, <1>3, TurnPort

(* The frame that the writers of events and bulk take.                     *)
LEMMA Taken ==
  ASSUME PortsInv, NEW p \in {"events", "bulk"}, Receive(p)
  PROVE  /\ writer[p].pc = "receive"
         /\ writer' = [writer EXCEPT ![p] = Begin(Head(queue[p]))]
         /\ queue[p] \in Seq(Frame) /\ Head(queue[p]) = queue[p][1]
         /\ Head(queue[p]) \in Frame
         /\ queue' = [queue EXCEPT ![p] = Tail(queue[p])] /\ Tail(queue[p]) \in Seq(Frame)
         /\ Len(queue[p]) \in Nat \ {0}
         /\ Len(Tail(queue[p])) = Len(queue[p]) - 1
         /\ \A k \in 1 .. Len(queue[p]) - 1 : Tail(queue[p])[k] = queue[p][k + 1]
         /\ queue' \in [events : Seq(Frame), bulk : Seq(Frame)]
         /\ UNCHANGED <<up, line, rpc, mouse, host, spent>>
<1>1. /\ writer[p].pc = "receive" /\ queue[p] # <<>>
      /\ writer' = [writer EXCEPT ![p] = Begin(Head(queue[p]))]
      /\ UNCHANGED <<up, line, rpc, mouse, host, spent>>
  BY DEF Receive
<1>2. queue \in [events : Seq(Frame), bulk : Seq(Frame)]
  BY DEF PortsInv, PortsShape
<1>3. queue[p] \in Seq(Frame)
  BY <1>2
<1>4. queue' = [queue EXCEPT ![p] = Tail(queue[p])]
  BY DEF Receive
<1> DEFINE s == queue[p]
<1>5. s \in Seq(Frame) /\ s # <<>>
  BY <1>1, <1>3
<1> HIDE DEF s
<1>6. /\ Head(s) \in Frame /\ Tail(s) \in Seq(Frame) /\ Len(Tail(s)) = Len(s) - 1
      /\ \A k \in 1 .. Len(Tail(s)) : Tail(s)[k] = s[k + 1]
      /\ Len(s) \in Nat \ {0} /\ Head(s) = s[1]
  BY <1>5, EmptySeq, LenProperties, HeadTailProperties
<1>7. \A k \in 1 .. Len(s) - 1 : Tail(s)[k] = s[k + 1]
  BY <1>6
<1>8. queue' \in [events : Seq(Frame), bulk : Seq(Frame)]
  BY <1>2, <1>4, <1>6 DEF s
<1> QED
  BY <1>1, <1>4, <1>5, <1>6, <1>7, <1>8 DEF s

LEMMA ReceivePort ==
  ASSUME PortsInv, NEW p \in Ports, Receive(p), running' = running PROVE PortsInv'
<1>1. rpc \in Rpc /\ spent \in [work : Nat, drops : Nat]
  BY PortFacts
<1>2. p \in {"events", "bulk"}
  BY DEF Receive
<1>3. Head(queue[p]) \in [n : Nat, len : Nat \ {0}]
  BY <1>2, Taken DEF Frame
<1>4. /\ writer[p].pc \notin {"write", "flush"}
      /\ writer' = [writer EXCEPT ![p] = Begin(Head(queue[p]))]
      /\ queue' \in [events : Seq(Frame), bulk : Seq(Frame)]
      /\ host' = host /\ up' = up /\ rpc' = rpc /\ spent' = spent
  BY <1>2, Taken
<1> QED
  BY <1>1, <1>3, <1>4, BeginPort

-----------------------------------------------------------------------------
(* The line of the control port.                                           *)
Words == UNION {Range(l) : l \in Lines}
LineInv == line \in Seq(Words) /\ Len(line) <= LineCap

LEMMA LineStep ==
  ASSUME LineInv, Next \/ UNCHANGED vars PROVE LineInv'
<1>1. LineCap \in Nat /\ <<>> \in Seq(Words) /\ Len(<<>>) = 0
  BY UsbAssumption
<1>2. CASE line' = line \/ line' = <<>>
  <2>1. CASE line' = line
    BY <2>1 DEF LineInv
  <2>2. CASE line' = <<>>
    BY <1>1, <2>2 DEF LineInv
  <2> QED
    BY <1>2, <2>1, <2>2
<1>3. ASSUME NEW word \in UNION {Range(l) : l \in Lines}, ControlWord(word) PROVE LineInv'
  <2>1. CASE Len(line) < LineCap
    <3>1. line' = Append(line, word) /\ word \in Words
      BY <1>3, <2>1 DEF ControlWord, Words
    <3>2. line' \in Seq(Words) /\ Len(line') = Len(line) + 1 /\ Len(line) \in Nat
      BY <3>1, AppendProperties, LenProperties DEF LineInv
    <3> QED
      BY <1>1, <2>1, <3>2 DEF LineInv
  <2>2. CASE ~(Len(line) < LineCap)
    BY <1>1, <1>2, <1>3, <2>2 DEF ControlWord
  <2> QED
    BY <2>1, <2>2
<1>4. ASSUME NEW p \in running, Task(p) PROVE LineInv'
  <2>1. CASE Connected(p)
    BY <1>2, <2>1 DEF Connected
  <2>2. CASE WriteChunk(p) \/ Flush(p) \/ Receive(p) \/ ReadFails(p)
    BY <1>2, <2>2 DEF WriteChunk, Flush, Receive, ReadFails
  <2> QED
    BY <1>4, <2>1, <2>2 DEF Task
<1>5. CASE \/ BulkEnabled \/ MouseTask \/ InjectorTakes \/ Configure \/ Disconnect
           \/ \E len \in Lengths : Emit(len)
           \/ \E n \in 1..Packet, crs \in 0..Packet : crs <= n /\ ConsoleEcho(n, crs)
  BY <1>2, <1>5 DEF BulkEnabled, MouseTask, InjectorTakes, Configure, Disconnect, Emit,
                    ConsoleEcho
<1>6. CASE ControlEnter
  BY <1>2, <1>6 DEF ControlEnter
<1>7. CASE UNCHANGED vars
  BY <1>2, <1>7 DEF vars
<1> QED
  BY <1>3, <1>4, <1>5, <1>6, <1>7 DEF Next

Cmd == [cmd : {"Move"}, dx : Int, dy : Int]
         \cup [cmd : {"Button"}, btn : {"l", "m", "r"}, down : BOOLEAN]

(* What a bulk_test does to the queue and to the counters.                 *)
BulkTested(ok, size) ==
    /\ ok => Len(queue.bulk) < BulkDepth
    /\ rpc' = [rpc EXCEPT !.BULK_SEQ = NextSeq(@), !.asked = @ + 1,
                 !.accepted = IF ok THEN Append(@, (rpc.asked % SeqWrap) + 1) ELSE @]
    /\ queue' = IF ok THEN [queue EXCEPT !.bulk =
                              Append(@, [n |-> rpc.BULK_SEQ + 1, len |-> size])]
                      ELSE queue

(* A line typed: an answer, and at most one of the queues behind the port. *)
LEMMA Entered ==
  ASSUME LineInv, ControlEnter
  PROVE  /\ up' = up /\ host' = host /\ writer["control"].pc = "read"
         /\ spent' = [spent EXCEPT !.work = @ + 1]
         /\ \E len \in Lengths :
              writer' = [writer EXCEPT !["control"] = Begin([n |-> 0, len |-> len])]
         /\ \/ mouse' = mouse
            \/ ~MouseFull(mouse) /\ \E c \in Cmd : mouse' = MouseQueued(mouse, c)
         /\ \/ queue' = queue /\ rpc' = rpc
            \/ /\ queue' = queue /\ rpc.inject < InjectDepth
               /\ rpc' = [rpc EXCEPT !.inject = @ + 1]
            \/ \E ok \in BOOLEAN, size \in Nat \ {0} : BulkTested(ok, size)
<1>1. /\ up' = up /\ host' = host /\ writer["control"].pc = "read"
      /\ spent' = [spent EXCEPT !.work = @ + 1] /\ line # <<>>
  BY DEF ControlEnter, ControlReads, Worked
<1>2. PICK len \in Lengths : Dispatch(Head(line), Tail(line), len)
  BY DEF ControlEnter
<1> DEFINE verb == Head(line)
           args == Tail(line)
<1>3. args \in Seq(Words)
  BY <1>1, HeadTailProperties DEF LineInv
<1> HIDE DEF verb, args
<1>4. Reply(len)
  BY <1>2 DEF Dispatch, HandleInject, HandleMouse, HandleBulkTest, verb, args
<1>5. \E l \in Lengths :
        writer' = [writer EXCEPT !["control"] = Begin([n |-> 0, len |-> l])]
  BY <1>2, <1>4 DEF Reply
<1>6. CASE HandleInject(args, len)
  <2>1. mouse' = mouse /\ queue' = queue
    BY <1>6 DEF HandleInject
  <2>2. rpc' = rpc \/ (rpc.inject < InjectDepth /\ rpc' = [rpc EXCEPT !.inject = @ + 1])
    BY <1>6 DEF HandleInject
  <2> QED
    BY <1>1, <1>5, <2>1, <2>2
<1>7. CASE HandleMouse(verb, args, len) /\ verb \in {"mouse_move", "mouse_button"}
  <2>1. queue' = queue /\ rpc' = rpc
    BY <1>7 DEF HandleMouse
  <2>2. \/ mouse' = mouse
        \/ /\ ~MouseFull(mouse) /\ Parses(verb, args)
           /\ mouse' = MouseQueued(mouse, MouseCmd(verb, args))
    BY <1>7 DEF HandleMouse
  <2>3. Parses(verb, args) => MouseCmd(verb, args) \in Cmd
    <3>1. CASE verb = "mouse_move"
      <4>1. Parses(verb, args) => Delta[args[1]] \in Int /\ Delta[args[2]] \in Int
        BY <3>1, UsbAssumption DEF Parses
      <4> QED
        BY <3>1, <4>1 DEF MouseCmd, Move, Cmd
    <3>2. CASE verb # "mouse_move"
      <4>1. Parses(verb, args) => args[1] \in {"l", "m", "r"}
        BY <3>2 DEF Parses, BtnMask
      <4> QED
        BY <3>2, <4>1 DEF MouseCmd, Button, Cmd
    <3> QED
      BY <3>1, <3>2
  <2> QED
    BY <1>1, <1>5, <2>1, <2>2, <2>3
<1>8. CASE HandleBulkTest(args, len)
  <2> DEFINE size == BulkHeader + (IF args = <<>> THEN 1 ELSE Len(args))
             ok == Fits(size) /\ Len(queue.bulk) < BulkDepth
  <2>1. mouse' = mouse /\ BulkTested(ok, size)
    BY <1>8 DEF HandleBulkTest, BulkTested
  <2>2. size \in Nat \ {0}
    <3>1. args # <<>> => Len(args) \in Nat \ {0}
      BY <1>3, EmptySeq
    <3>2. BulkHeader \in Nat
      BY UsbAssumption
    <3> QED
      BY <3>1, <3>2
  <2>3. ok \in BOOLEAN
    BY DEF Fits
  <2> HIDE DEF size, ok
  <2> QED
    BY <1>1, <1>5, <2>1, <2>2, <2>3
<1>9. CASE UNCHANGED <<queue, rpc, mouse>>
  BY <1>1, <1>5, <1>9
<1> QED
  BY <1>2, <1>6, <1>7, <1>8, <1>9 DEF Dispatch, verb, args

(* The state after a bulk_test.                                            *)
LEMMA Tested ==
  ASSUME rpc \in Rpc, queue \in [events : Seq(Frame), bulk : Seq(Frame)],
         NEW ok \in BOOLEAN, NEW size \in Nat \ {0}, BulkTested(ok, size)
  PROVE  /\ rpc' \in Rpc /\ queue' \in [events : Seq(Frame), bulk : Seq(Frame)]
         /\ rpc'.BULK_SEQ = NextSeq(rpc.BULK_SEQ) /\ rpc'.asked = rpc.asked + 1
         /\ rpc'.inject = rpc.inject
         /\ queue'.events = queue.events
         /\ rpc'.accepted = IF ok THEN Append(rpc.accepted, (rpc.asked % SeqWrap) + 1)
                                  ELSE rpc.accepted
         /\ queue'.bulk = IF ok THEN Append(queue.bulk, [n |-> rpc.BULK_SEQ + 1, len |-> size])
                                ELSE queue.bulk
<1> DEFINE a == IF ok THEN Append(rpc.accepted, (rpc.asked % SeqWrap) + 1) ELSE rpc.accepted
           n == NextSeq(rpc.BULK_SEQ)
           m == rpc.asked + 1
           new == [n |-> rpc.BULK_SEQ + 1, len |-> size]
           b == IF ok THEN Append(queue.bulk, new) ELSE queue.bulk
<1>1. n \in Nat /\ a \in Seq(Nat)
  BY BulkTestAnswered
<1>2. rpc.BULK_SEQ \in Nat /\ m \in Nat
  BY DEF Rpc
<1>3. new \in Frame
  BY <1>2 DEF Frame
<1>4. rpc' = [rpc EXCEPT !.BULK_SEQ = n, !.asked = m, !.accepted = a]
  BY DEF BulkTested
<1>5. queue' = [queue EXCEPT !.bulk = b]
  BY DEF BulkTested
<1> HIDE DEF new
<1>6. b \in Seq(Frame)
  BY <1>3, AppendProperties
<1> HIDE DEF a, n, m, b
<1>7. /\ rpc' \in Rpc /\ rpc'.BULK_SEQ = n /\ rpc'.asked = m /\ rpc'.accepted = a
      /\ rpc'.inject = rpc.inject
  BY <1>1, <1>2, <1>4 DEF Rpc
<1>8. /\ queue' \in [events : Seq(Frame), bulk : Seq(Frame)]
      /\ queue'.bulk = b /\ queue'.events = queue.events
  BY <1>5, <1>6
<1> QED
  BY <1>7, <1>8 DEF a, n, m, b, new

LEMMA EnterPort ==
  ASSUME PortsInv, LineInv, ControlEnter, running' = running PROVE PortsInv'
<1>1. /\ queue \in [events : Seq(Frame), bulk : Seq(Frame)] /\ rpc \in Rpc
      /\ spent \in [work : Nat, drops : Nat] /\ "control" \in Ports
  BY DEF PortsInv, PortsShape, Ports
<1>2. /\ up' = up /\ host' = host /\ writer["control"].pc = "read"
      /\ spent' = [spent EXCEPT !.work = @ + 1]
  BY Entered
<1>3. PICK len \in Lengths :
         writer' = [writer EXCEPT !["control"] = Begin([n |-> 0, len |-> len])]
  BY Entered
<1>4. [n |-> 0, len |-> len] \in [n : Nat, len : Nat \ {0}]
  BY <1>3, UsbAssumption
<1>5. rpc' \in Rpc /\ queue' \in [events : Seq(Frame), bulk : Seq(Frame)]
  <2>1. CASE queue' = queue /\ rpc' = rpc
    BY <1>1, <2>1
  <2>2. CASE queue' = queue /\ rpc' = [rpc EXCEPT !.inject = @ + 1]
    <3>1. rpc.inject + 1 \in Nat
      BY <1>1 DEF Rpc
    <3> QED
      BY <1>1, <2>2, <3>1, InjectIsRpc
  <2>3. ASSUME NEW ok \in BOOLEAN, NEW size \in Nat \ {0}, BulkTested(ok, size)
        PROVE  <1>5
    BY <1>1, <2>3, Tested
  <2> QED
    BY <2>1, <2>2, <2>3, Entered
<1>6. spent' \in [work : Nat, drops : Nat]
  BY <1>1, <1>2
<1> DEFINE f == [n |-> 0, len |-> len]
<1> HIDE DEF f
<1>7. f \in [n : Nat, len : Nat \ {0}] /\ writer' = [writer EXCEPT !["control"] = Begin(f)]
  BY <1>3, <1>4 DEF f
<1> QED
  BY <1>1, <1>2, <1>5, <1>6, <1>7, BeginPort

LEMMA EmitPort ==
  ASSUME PortsInv, NEW len \in Lengths, Emit(len), running' = running PROVE PortsInv'
<1> DEFINE new == [n |-> rpc.emitted + 1, len |-> len]
           d == IF EventRoom THEN rpc.USB_EVENT_DROPS ELSE rpc.USB_EVENT_DROPS + 1
           m == rpc.emitted + 1
<1>1. /\ queue \in [events : Seq(Frame), bulk : Seq(Frame)] /\ rpc \in Rpc
      /\ spent \in [work : Nat, drops : Nat] /\ up \in BOOLEAN
  BY DEF PortsInv, PortsShape
<1>2. /\ UNCHANGED <<up, writer, line, mouse, host>>
      /\ spent' = [spent EXCEPT !.work = @ + 1]
      /\ rpc' = [rpc EXCEPT !.emitted = m, !.USB_EVENT_DROPS = d]
      /\ queue' = IF EventRoom THEN [queue EXCEPT !.events = Append(@, new)] ELSE queue
  BY DEF Emit, Worked
<1>3. m \in Nat \ {0} /\ d \in Nat
  BY <1>1 DEF Rpc
<1>4. new \in Frame
  BY <1>3, UsbAssumption DEF Frame
<1> HIDE DEF new, d, m
<1>5. Append(queue.events, new) \in Seq(Frame)
  BY <1>1, <1>4, AppendProperties
<1>6. queue' \in [events : Seq(Frame), bulk : Seq(Frame)]
  BY <1>1, <1>2, <1>5
<1>7. rpc' \in Rpc
  BY <1>1, <1>2, <1>3, EmittedIsRpc
<1>8. spent' \in [work : Nat, drops : Nat]
  BY <1>1, <1>2
<1> QED
  BY <1>1, <1>2, <1>6, <1>7, <1>8, NoPort

LEMMA EchoPort ==
  ASSUME PortsInv, NEW n \in 1..Packet, NEW crs \in 0..Packet, ConsoleEcho(n, crs),
         running' = running
  PROVE  PortsInv'
<1>1. /\ queue \in [events : Seq(Frame), bulk : Seq(Frame)] /\ rpc \in Rpc
      /\ spent \in [work : Nat, drops : Nat] /\ "console" \in Ports
  BY DEF PortsInv, PortsShape, Ports
<1>2. /\ writer["console"].pc = "read" /\ UNCHANGED <<up, queue, line, rpc, mouse, host>>
      /\ spent' = [spent EXCEPT !.work = @ + 1]
      /\ writer' = [writer EXCEPT !["console"] = Begin([n |-> 0, len |-> n + crs])]
  BY DEF ConsoleEcho, Worked
<1> DEFINE f == [n |-> 0, len |-> n + crs]
<1>3. f \in [n : Nat, len : Nat \ {0}]
  BY UsbAssumption
<1> HIDE DEF f
<1>4. spent' \in [work : Nat, drops : Nat]
  BY <1>1, <1>2
<1> QED
  BY <1>1, <1>2, <1>3, <1>4, BeginPort DEF f

LEMMA WordPort ==
  ASSUME PortsInv, NEW word, ControlWord(word), running' = running PROVE PortsInv'
<1>1. /\ queue \in [events : Seq(Frame), bulk : Seq(Frame)] /\ rpc \in Rpc
      /\ spent \in [work : Nat, drops : Nat] /\ "control" \in Ports /\ up \in BOOLEAN
  BY DEF PortsInv, PortsShape, Ports
<1>2. writer["control"].pc = "read" /\ UNCHANGED <<up, queue, rpc, mouse, host, spent>>
  BY DEF ControlWord, ControlReads
<1>3. CASE writer' = writer
  BY <1>1, <1>2, <1>3, NoPort
<1>4. ASSUME NEW len \in Lengths, Reply(len) PROVE PortsInv'
  <2> DEFINE f == [n |-> 0, len |-> len]
  <2>1. f \in [n : Nat, len : Nat \ {0}]
    BY <1>4, UsbAssumption
  <2>2. writer' = [writer EXCEPT !["control"] = Begin(f)]
    BY <1>4 DEF Reply
  <2> HIDE DEF f
  <2> QED
    BY <1>1, <1>2, <2>1, <2>2, BeginPort
<1> QED
  BY <1>3, <1>4 DEF ControlWord

LEMMA EnabledPort ==
  ASSUME PortsInv, BulkEnabled, running' = running PROVE PortsInv'
<1>1. /\ queue \in [events : Seq(Frame), bulk : Seq(Frame)] /\ rpc \in Rpc
      /\ spent \in [work : Nat, drops : Nat] /\ "bulk" \in Ports
      /\ writer \in [Ports -> WriterRec]
  BY DEF PortsInv, PortsShape, Ports
<1> DEFINE r == AfterChunks("bulk", writer["bulk"], FALSE)
<1>2. /\ writer["bulk"].pc = "wait_enabled" /\ UNCHANGED <<up, queue, line, rpc, mouse, host, spent>>
      /\ writer' = [writer EXCEPT !["bulk"] = r]
  BY <1>1 DEF BulkEnabled
<1>3. r \in WriterRec /\ r.pc # "write"
  BY <1>1, AfterChunksPort
<1> HIDE DEF r
<1> QED
  BY <1>1, <1>2, <1>3, TurnPort

LEMMA DisconnectPort ==
  ASSUME PortsInv, Disconnect, running' = running PROVE PortsInv'
<1>1. PortsShape
  BY DEF PortsInv
<1>2. /\ up' = FALSE /\ UNCHANGED <<queue, writer, line, rpc, mouse>>
      /\ host' = [p \in Ports |-> [host[p] EXCEPT !.part = 0, !.held = FALSE]]
      /\ spent' = [spent EXCEPT !.drops = @ + 1]
  BY DEF Disconnect
<1>3. \A p \in Ports : host'[p] \in HostRec /\ host'[p].held = FALSE
  <2> SUFFICES ASSUME NEW p \in Ports PROVE host'[p] \in HostRec /\ host'[p].held = FALSE
    OBVIOUS
  <2> DEFINE g == host[p]
             g2 == host'[p]
  <2>1. g \in HostRec
    BY <1>1 DEF PortsShape
  <2>2. g2 = [g EXCEPT !.part = 0, !.held = FALSE]
    BY <1>2
  <2> HIDE DEF g, g2
  <2>3. g2 \in HostRec /\ g2.held = FALSE
    BY <2>1, <2>2 DEF HostRec
  <2> QED
    BY <2>3 DEF g2
<1>4. host' \in [Ports -> HostRec]
  BY <1>2, <1>3
<1>5. spent' \in [work : Nat, drops : Nat]
  <2>1. spent \in [work : Nat, drops : Nat]
    BY <1>1 DEF PortsShape
  <2>2. spent.drops + 1 \in Nat
    BY <2>1
  <2> QED
    BY <1>2, <2>1, <2>2
<1>6. PortsShape'
  BY <1>1, <1>2, <1>4, <1>5 DEF PortsShape
<1>7. ASSUME NEW p \in Ports PROVE Sound(p, writer'[p], host'[p], up')
  <2>1. Sound(p, writer[p], host[p], up)
    BY DEF PortsInv
  <2> QED
    BY <1>2, <1>3, <2>1 DEF Sound
<1> QED
  BY <1>6, <1>7 DEF PortsInv

LEMMA PortsStep ==
  ASSUME PortsInv, LineInv, Next PROVE PortsInv'
<1>1. running' = running /\ PortsShape
  BY DEF Next, PortsInv
<1>2. /\ queue \in [events : Seq(Frame), bulk : Seq(Frame)] /\ rpc \in Rpc
      /\ spent \in [work : Nat, drops : Nat] /\ up \in BOOLEAN
  BY <1>1 DEF PortsShape
<1>3. ASSUME NEW p \in running, Task(p) PROVE PortsInv'
  <2>1. p \in Ports
    BY <1>1, <1>3 DEF PortsShape
  <2> QED
    BY <1>1, <1>3, <2>1, WritePort, FlushPort, ConnectedPort, ReceivePort, ReadFailsPort DEF Task
<1>4. ASSUME NEW word, ControlWord(word) PROVE PortsInv'
  BY <1>1, <1>4, WordPort
<1>5. ASSUME NEW n \in 1..Packet, NEW crs \in 0..Packet, ConsoleEcho(n, crs) PROVE PortsInv'
  BY <1>1, <1>5, EchoPort
<1>6. ASSUME NEW len \in Lengths, Emit(len) PROVE PortsInv'
  BY <1>1, <1>6, EmitPort
<1>7. CASE MouseTask
  <2>1. UNCHANGED <<up, queue, writer, rpc, host, spent>>
    BY <1>7 DEF MouseTask
  <2> QED
    BY <1>1, <1>2, <2>1, NoPort
<1>8. CASE InjectorTakes
  <2>1. rpc \in Rpc /\ rpc.inject - 1 \in Nat /\ rpc' = [rpc EXCEPT !.inject = rpc.inject - 1]
    BY <1>1, <1>8 DEF InjectorTakes, Rpc, PortsShape
  <2>2. rpc' \in Rpc
    BY <2>1, InjectIsRpc
  <2>3. UNCHANGED <<up, queue, writer, host, spent>>
    BY <1>8 DEF InjectorTakes
  <2> QED
    BY <1>1, <1>2, <2>2, <2>3, NoPort
<1>9. CASE Configure
  <2>1. up' = TRUE /\ UNCHANGED <<queue, writer, rpc, host, spent>>
    BY <1>9 DEF Configure
  <2> QED
    BY <1>1, <1>2, <2>1, NoPort
<1>10. CASE ControlEnter
  BY <1>1, <1>10, EnterPort
<1>11. CASE BulkEnabled
  BY <1>1, <1>11, EnabledPort
<1>12. CASE Disconnect
  BY <1>1, <1>12, DisconnectPort
<1> QED
  BY <1>3, <1>4, <1>5, <1>6, <1>7, <1>8, <1>9, <1>10, <1>11, <1>12 DEF Next

LEMMA PortsInductive == Spec => [](PortsInv /\ LineInv)
<1>1. Init => PortsInv /\ LineInv
  <2>1. Init => LineInv
    BY UsbAssumption DEF Init, LineInv
  <2> QED
    BY <2>1, PortsStart
<1>2. PortsInv /\ LineInv /\ [Next]_vars => (PortsInv /\ LineInv)'
  <2>1. PortsInv /\ UNCHANGED vars => PortsInv'
    BY NoPort DEF vars, PortsInv, PortsShape
  <2> QED
    BY <2>1, PortsStep, LineStep
<1> QED
  BY <1>1, <1>2, PTL DEF Spec

(* No port at rest leaves the host sitting on a frame whose length is a    *)
(* multiple of the packet: sent_full and complete ask for the zero-length  *)
(* packet exactly when the host still waits for the end of the transfer.   *)
THEOREM TransfersEnd == Spec => []FramesFlushed
<1>1. PortsInv => FramesFlushed
  <2> SUFFICES ASSUME PortsInv, NEW p \in {"events", "bulk", "control"},
                      writer[p].pc = Idle(p), host[p].held
               PROVE  FALSE
    BY DEF FramesFlushed
  <2>1. Sound(p, writer[p], host[p], up)
    BY DEF PortsInv, Ports
  <2>2. writer[p].pc \in {"write", "flush"}
    BY <2>1 DEF Sound
  <2> QED
    BY <2>2, IdleFacts DEF Ports
<1> QED
  BY <1>1, PortsInductive, PTL

-----------------------------------------------------------------------------
(* The bulk frames                                                         *)

B == writer["bulk"]
Got == host["bulk"].got
Waiting == queue.bulk
InHand == IF B.pc = "write" THEN 1 ELSE 0

(* The frame in hand, or the next one, will be lost, and no disconnection  *)
(* to come is to blame for it.                                             *)
Doomed ==
    \/ B.pc \in {"receive", "flush"} /\ ~up
    \/ B.pc = "write" /\ (up => B.i # 1 /\ host["bulk"].part # B.i - 1)
Doom == IF Doomed THEN 1 ELSE 0

(* The frame in hand and those that wait are the last accepted, and every  *)
(* frame missing before them has its disconnection.                        *)
BulkInv ==
    /\ rpc.BULK_SEQ = rpc.asked % SeqWrap
    /\ Len(Got) + InHand + Len(Waiting) <= Len(rpc.accepted)
    /\ Len(rpc.accepted) + Doom <= Len(Got) + InHand + Len(Waiting) + spent.drops
    /\ B.pc = "write" =>
         B.frame.n > 0 /\ B.frame.n = rpc.accepted[Len(rpc.accepted) - Len(Waiting)]
    /\ \A k \in 1 .. Len(Waiting) :
         Waiting[k].n = rpc.accepted[Len(rpc.accepted) - Len(Waiting) + k]
    /\ spent.drops = 0 => \A k \in 1 .. Len(Got) : Got[k] = rpc.accepted[k]

LEMMA BulkFacts ==
  ASSUME PortsInv PROVE
  /\ B \in WriterRec /\ host["bulk"] \in HostRec /\ Got \in Seq(Nat) /\ Len(Got) \in Nat
  /\ Waiting \in Seq(Frame) /\ Len(Waiting) \in Nat
  /\ \A k \in 1 .. Len(Waiting) : Waiting[k] \in Frame /\ Waiting[k].n \in Nat \ {0}
  /\ rpc.accepted \in Seq(Nat) /\ Len(rpc.accepted) \in Nat
  /\ rpc.asked \in Nat /\ rpc.BULK_SEQ \in Nat /\ spent.drops \in Nat
  /\ InHand \in Nat /\ Doom \in Nat
  /\ B.i \in Nat /\ B.frame \in [n : Nat, len : Nat]
  /\ Sound("bulk", B, host["bulk"], up)
<1>1. "bulk" \in Ports
  BY DEF Ports
<1>2. B \in WriterRec /\ host["bulk"] \in HostRec /\ Sound("bulk", B, host["bulk"], up)
  BY <1>1 DEF PortsInv, PortsShape, B
<1>3. Got \in Seq(Nat) /\ Len(Got) \in Nat
  BY <1>2, LenProperties DEF Got, HostRec
<1>4. Waiting \in Seq(Frame)
  BY DEF PortsInv, PortsShape, Waiting
<1>5. Len(Waiting) \in Nat /\ \A k \in 1 .. Len(Waiting) : Waiting[k] \in Frame
  BY <1>4, LenProperties, ElementOfSeq
<1>6. \A k \in 1 .. Len(Waiting) : Waiting[k].n \in Nat \ {0}
  BY <1>5 DEF Frame
<1>7. rpc.accepted \in Seq(Nat) /\ rpc.asked \in Nat /\ rpc.BULK_SEQ \in Nat
  BY DEF PortsInv, PortsShape, Rpc
<1>8. Len(rpc.accepted) \in Nat
  BY <1>7, LenProperties
<1>9. spent.drops \in Nat
  BY DEF PortsInv, PortsShape
<1>10. B.i \in Nat /\ B.frame \in [n : Nat, len : Nat]
  BY <1>2 DEF WriterRec
<1> QED
  BY <1>2, <1>3, <1>4, <1>5, <1>6, <1>7, <1>8, <1>9, <1>10 DEF InHand, Doom

(* A step that leaves what the host has and what waits alone, and takes no *)
(* hope from the frame in hand.                                            *)
LEMMA BulkUnmoved ==
  ASSUME PortsInv, BulkInv, Got' = Got, Waiting' = Waiting,
         rpc'.accepted = rpc.accepted, rpc'.asked = rpc.asked, rpc'.BULK_SEQ = rpc.BULK_SEQ,
         spent'.drops = spent.drops, Doomed' => Doomed,
         B.pc = "write" <=> B'.pc = "write",
         B.pc = "write" => B'.frame = B.frame
  PROVE  BulkInv'
<1>1. InHand' = InHand /\ Doom' \in Nat /\ Doom' <= Doom
  BY DEF InHand, Doom
<1>2. /\ Len(Got) \in Nat /\ Len(Waiting) \in Nat /\ Len(rpc.accepted) \in Nat
      /\ spent.drops \in Nat /\ InHand \in Nat /\ Doom \in Nat
  BY BulkFacts
<1>3. Len(rpc.accepted) + Doom' <= Len(Got) + InHand + Len(Waiting) + spent.drops
  <2> DEFINE n == Len(rpc.accepted)
             f == Len(Got) + InHand + Len(Waiting) + spent.drops
             less == Doom'
  <2>1. n \in Nat /\ f \in Nat /\ less \in Nat /\ Doom \in Nat /\ less <= Doom
    BY <1>1, <1>2
  <2>2. n + Doom <= f
    BY DEF BulkInv
  <2> HIDE DEF n, f, less
  <2>3. n + less <= f
    BY <2>1, <2>2
  <2> QED
    BY <2>3 DEF n, f, less
<1> QED
  BY <1>1, <1>3 DEF BulkInv

LEMMA BulkStart == Init => BulkInv
<1> SUFFICES ASSUME Init PROVE BulkInv
  OBVIOUS
<1>1. B.pc = "connect" /\ Got = <<>> /\ Waiting = <<>>
  BY DEF Init, B, Got, Waiting, At, HostInit, Ports
<1>2. rpc.asked = 0 /\ rpc.BULK_SEQ = 0 /\ rpc.accepted = <<>> /\ spent.drops = 0
  BY DEF Init
<1>3. 0 % SeqWrap = 0
  BY UsbAssumption
<1>4. InHand = 0 /\ Doom = 0
  BY <1>1 DEF InHand, Doom, Doomed
<1> QED
  BY <1>1, <1>2, <1>3, <1>4 DEF BulkInv

(* next_seq is the number of bulk_tests, modulo the wrap.                  *)
LEMMA SeqCounts ==
  ASSUME NEW x \in Nat PROVE NextSeq(x % SeqWrap) = (x + 1) % SeqWrap
<1>1. SeqWrap \in Nat \ {0}
  BY UsbAssumption
<1> DEFINE quot == x \div SeqWrap
           r == x % SeqWrap
<1>2. quot \in Nat
  BY <1>1, SMTT(30)
<1>3. r \in 0 .. SeqWrap - 1
  BY <1>1, SMTT(30)
<1>4. x = quot * SeqWrap + r
  BY <1>1, SMTT(30)
<1> HIDE DEF quot, r
<1>5. quot * SeqWrap \in Nat
  BY <1>1, <1>2
<1>6. CASE r + 1 < SeqWrap
  <2>1. (quot * SeqWrap + (r + 1)) % SeqWrap = r + 1
    BY <1>1, <1>2, <1>3, <1>6, SMTT(30)
  <2>2. (r + 1) % SeqWrap = r + 1
    BY <1>1, <1>3, <1>6, SMTT(30)
  <2>3. x + 1 = quot * SeqWrap + (r + 1)
    BY <1>1, <1>3, <1>4, <1>5
  <2> QED
    BY <2>1, <2>2, <2>3 DEF NextSeq, r
<1>7. CASE r + 1 = SeqWrap
  <2>1. ((quot + 1) * SeqWrap) % SeqWrap = 0
    BY <1>1, <1>2, SMTT(30)
  <2>2. SeqWrap % SeqWrap = 0
    BY <1>1, SMTT(30)
  <2>3. (quot + 1) * SeqWrap = quot * SeqWrap + SeqWrap
    BY <1>1, <1>2, SMTT(30)
  <2>4. x + 1 = quot * SeqWrap + SeqWrap
    BY <1>1, <1>3, <1>4, <1>5, <1>7
  <2> QED
    BY <1>7, <2>1, <2>2, <2>3, <2>4 DEF NextSeq, r
<1> QED
  BY <1>1, <1>3, <1>6, <1>7

(* What another port does.                                                 *)
LEMMA BulkElsewhere ==
  ASSUME PortsInv, BulkInv, NEW p \in Ports \ {"bulk"}, NEW r,
         writer' = [writer EXCEPT ![p] = r] \/ writer' = writer, up' = up,
         host'["bulk"] = host["bulk"], Waiting' = Waiting,
         rpc'.accepted = rpc.accepted, rpc'.asked = rpc.asked, rpc'.BULK_SEQ = rpc.BULK_SEQ,
         spent'.drops = spent.drops
  PROVE  BulkInv'
<1>1. B' = B
  BY DEF B, PortsInv, PortsShape, Ports
<1>2. Got' = Got
  BY DEF Got
<1>3. Doomed' = Doomed
  BY <1>1 DEF Doomed
<1> QED
  BY <1>1, <1>2, <1>3, BulkUnmoved

LEMMA BulkOtherTask ==
  ASSUME PortsInv, BulkInv, NEW p \in Ports \ {"bulk"}, Task(p) PROVE BulkInv'
<1>1. /\ writer \in [Ports -> WriterRec] /\ host \in [Ports -> HostRec] /\ "bulk" \in Ports
      /\ DOMAIN queue = {"events", "bulk"}
  BY DEF PortsInv, PortsShape, Ports
<1>2. rpc' = rpc /\ spent' = spent /\ up' = up
  BY DEF Task, WriteChunk, Flush, Connected, Receive, ReadFails
<1>3. host'["bulk"] = host["bulk"]
  BY <1>1 DEF Task, WriteChunk, Flush, Connected, Receive, ReadFails
<1>4. Waiting' = Waiting
  BY <1>1 DEF Task, WriteChunk, Flush, Connected, Receive, ReadFails, Waiting
<1>5. writer'["bulk"] = writer["bulk"]
  BY <1>1 DEF Task, WriteChunk, Flush, Connected, Receive, ReadFails
<1>6. B' = B /\ Got' = Got
  BY <1>3, <1>5 DEF B, Got
<1>7. Doomed' = Doomed
  BY <1>2, <1>3, <1>6 DEF Doomed
<1> QED
  BY <1>2, <1>4, <1>6, <1>7, BulkUnmoved

(* Between two frames of its own.                                          *)
LEMMA BulkFlushes ==
  ASSUME PortsInv, BulkInv, Flush("bulk") PROVE BulkInv'
<1>1. /\ writer \in [Ports -> WriterRec] /\ host \in [Ports -> HostRec] /\ "bulk" \in Ports
  BY DEF PortsInv, PortsShape, Ports
<1>2. B.pc = "flush" /\ UNCHANGED <<up, queue, rpc, spent>>
  BY DEF Flush, B
<1>3. B'.pc = "receive"
  <2>1. B \in WriterRec
    BY <1>1 DEF B
  <2>2. B' = [B EXCEPT !.pc = "receive"]
    BY <1>1 DEF Flush, B, Idle
  <2> QED
    BY <2>1, <2>2 DEF WriterRec
<1>4. Got' = Got
  <2> DEFINE g == host["bulk"]
             g2 == host'["bulk"]
  <2>1. g \in HostRec
    BY <1>1
  <2>2. g2 = g \/ g2 = [g EXCEPT !.held = FALSE]
    BY <1>1 DEF Flush
  <2> HIDE DEF g, g2
  <2>3. g2.got = g.got
    BY <2>1, <2>2 DEF HostRec
  <2> QED
    BY <2>3 DEF Got, g, g2
<1>5. Doomed' => Doomed
  BY <1>2, <1>3 DEF Doomed
<1>6. Waiting' = Waiting
  BY <1>2 DEF Waiting
<1> QED
  BY <1>2, <1>3, <1>4, <1>5, <1>6, BulkUnmoved

LEMMA BulkAwakes ==
  ASSUME PortsInv, BulkInv, Connected("bulk") \/ BulkEnabled PROVE BulkInv'
<1>1. /\ writer \in [Ports -> WriterRec] /\ "bulk" \in Ports
  BY DEF PortsInv, PortsShape, Ports
<1>2. /\ B.pc \in {"connect", "wait_enabled"} /\ up
      /\ UNCHANGED <<up, queue, rpc, host, spent>>
  BY DEF Connected, BulkEnabled, B
<1>3. B'.pc \in {"receive", "flush", "read"}
  <2>1. CASE Connected("bulk")
    <3>1. B' = At("receive")
      BY <1>1, <2>1 DEF Connected, B
    <3> QED
      BY <3>1, AtIsWriter DEF PCs
  <2>2. CASE BulkEnabled
    <3>1. B' = AfterChunks("bulk", writer["bulk"], FALSE)
      BY <1>1, <2>2 DEF BulkEnabled, B
    <3> QED
      BY <1>1, <3>1, AfterChunksPort
  <2> QED
    BY <2>1, <2>2
<1>4. ~Doomed'
  BY <1>2, <1>3 DEF Doomed
<1>5. Waiting' = Waiting /\ Got' = Got
  BY <1>2 DEF Waiting, Got
<1> QED
  BY <1>2, <1>3, <1>4, <1>5, BulkUnmoved

(* The writer takes the frame at the head of the queue.                    *)
LEMMA BulkTakes ==
  ASSUME PortsInv, BulkInv, Receive("bulk") PROVE BulkInv'
<1>1. /\ writer \in [Ports -> WriterRec] /\ "bulk" \in Ports
      /\ queue \in [events : Seq(Frame), bulk : Seq(Frame)]
  BY DEF PortsInv, PortsShape, Ports
<1>2. /\ B.pc = "receive" /\ Waiting' = Tail(Waiting) /\ Len(Waiting) \in Nat \ {0}
      /\ Len(Waiting') = Len(Waiting) - 1 /\ Head(Waiting) = Waiting[1] /\ Waiting[1] \in Frame
      /\ \A k \in 1 .. Len(Waiting) - 1 : Waiting'[k] = Waiting[k + 1]
      /\ up' = up /\ rpc' = rpc /\ host' = host /\ spent' = spent
  <2>1. Waiting' = Tail(Waiting)
    BY <1>1, Taken DEF Waiting
  <2> QED
    BY <2>1, Taken DEF B, Waiting
<1>3. B' = Begin(Waiting[1])
  BY <1>1, <1>2, Taken DEF B, Waiting
<1>4. B'.pc = "write" /\ B'.frame = Waiting[1] /\ B'.i = 1
  BY <1>2, <1>3, BeginIsWriter DEF Frame
<1>5. /\ Len(Got) \in Nat /\ Len(rpc.accepted) \in Nat /\ spent.drops \in Nat /\ Got' = Got
      /\ \A k \in 1 .. Len(Waiting) : Waiting[k].n \in Nat \ {0}
  BY <1>2, BulkFacts DEF Got
<1>6. InHand = 0 /\ InHand' = 1 /\ Doom' = Doom
  BY <1>2, <1>4 DEF InHand, Doom, Doomed
<1> DEFINE a == rpc.accepted
           g == Len(Got)
           s == Len(Waiting)
           n == Len(a)
<1>7. /\ g + 0 + s <= n /\ n + Doom <= g + 0 + s + spent.drops
      /\ \A k \in 1 .. s : Waiting[k].n = a[n - s + k]
  BY <1>6 DEF BulkInv
<1>8. g \in Nat /\ n \in Nat /\ s \in Nat \ {0} /\ Doom \in Nat /\ Len(Waiting') = s - 1
  BY <1>2, <1>5, BulkFacts
<1> HIDE DEF g, s, n
<1>9. g + 1 + (s - 1) <= n /\ n + Doom <= g + 1 + (s - 1) + spent.drops
  BY <1>5, <1>7, <1>8
<1>10. B'.frame.n > 0 /\ B'.frame.n = a[n - (s - 1)]
  <2>1. 1 \in 1 .. s /\ n - s + 1 = n - (s - 1)
    BY <1>8
  <2>2. Waiting[1].n = a[n - s + 1] /\ Waiting[1].n \in Nat \ {0}
    BY <1>5, <1>7, <2>1 DEF s
  <2> QED
    BY <1>4, <2>1, <2>2
<1>11. \A k \in 1 .. s - 1 : Waiting'[k].n = a[n - (s - 1) + k]
  <2> SUFFICES ASSUME NEW k \in 1 .. s - 1 PROVE Waiting'[k].n = a[n - (s - 1) + k]
    OBVIOUS
  <2>1. k + 1 \in 1 .. s /\ n - s + (k + 1) = n - (s - 1) + k
    BY <1>8
  <2>2. Waiting'[k] = Waiting[k + 1]
    BY <1>2 DEF s
  <2>3. Waiting[k + 1].n = a[n - s + (k + 1)]
    BY <1>7, <2>1
  <2> QED
    BY <2>1, <2>2, <2>3
<1> QED
  BY <1>2, <1>5, <1>6, <1>8, <1>9, <1>10, <1>11 DEF BulkInv, g, n

(* A packet of the frame in hand, its last one, or a write that fails.     *)
LEMMA BulkWrites ==
  ASSUME PortsInv, BulkInv, WriteChunk("bulk") PROVE BulkInv'
<1> DEFINE g == host["bulk"]
           part == IF B.i = 1 \/ g.part = B.i - 1 THEN B.i ELSE 0
           sent == [B EXCEPT !.sent_full = @ \/ ChunkLen(B.frame.len, B.i) = Packet]
           last == ~(B.i < Chunks(B.frame.len))
<1>1. /\ writer \in [Ports -> WriterRec] /\ host \in [Ports -> HostRec] /\ "bulk" \in Ports
  BY DEF PortsInv, PortsShape, Ports
<1>2. /\ B.pc = "write" /\ UNCHANGED <<up, queue, rpc, spent>> /\ Waiting' = Waiting
  BY DEF WriteChunk, B, Waiting
<1>3. /\ B \in WriterRec /\ B.i \in Nat /\ B.frame.len \in Nat \ {0} /\ B.frame.n \in Nat \ {0}
      /\ B.i >= 1 /\ B.i <= Chunks(B.frame.len) /\ Chunks(B.frame.len) \in Nat \ {0}
      /\ g \in HostRec /\ Got \in Seq(Nat) /\ Len(Got) \in Nat
  <2>1. B.frame.len \in Nat \ {0} /\ B.i >= 1 /\ B.i <= Chunks(B.frame.len)
    BY <1>2, BulkFacts DEF Sound
  <2>2. B.frame.n \in Nat \ {0}
    BY <1>2, BulkFacts DEF BulkInv
  <2> QED
    BY <2>1, <2>2, BulkFacts, ChunksPositive
<1>4. Doomed <=> ~(up /\ part = B.i)
  BY <1>2, <1>3 DEF Doomed
<1>5. CASE up /\ ~last
  <2> DEFINE next == B.i + 1
  <2>1. next \in Nat /\ sent.i = B.i
    BY <1>3 DEF WriterRec
  <2>2. B' = [sent EXCEPT !.i = next]
    BY <1>1, <1>5, <2>1 DEF WriteChunk, B
  <2>3. host'["bulk"] = Delivered(g, B.frame, B.i)
    BY <1>1, <1>5 DEF WriteChunk, B
  <2>4. part # Chunks(B.frame.len) /\ Chunks(B.frame.len) # 0
    BY <1>3, <1>5
  <2>5. host'["bulk"].part = part /\ host'["bulk"].got = g.got
    BY <2>3, <2>4 DEF Delivered
  <2>6. sent \in WriterRec /\ sent.pc = "write" /\ sent.frame = B.frame
    BY <1>2, <1>3 DEF WriterRec
  <2> HIDE DEF next, sent
  <2>7. B'.pc = "write" /\ B'.frame = B.frame /\ B'.i = next
    BY <2>1, <2>2, <2>6 DEF WriterRec
  <2>8. Doomed' => part # B.i
    <3>1. next # 1 /\ next - 1 = B.i
      BY <1>3 DEF next
    <3> QED
      BY <1>2, <1>5, <2>5, <2>7, <3>1 DEF Doomed
  <2> QED
    BY <1>2, <1>4, <2>5, <2>7, <2>8, BulkUnmoved DEF Got
<1>6. CASE ~up \/ last
  <2>1. B'.pc \in {"wait_enabled", "flush", "receive", "read"} /\ (up' \/ B'.pc = "wait_enabled")
    <3>1. CASE ~up
      <4>1. B' = [B EXCEPT !.pc = "wait_enabled"]
        BY <1>1, <3>1 DEF WriteChunk, WriteFailed, B
      <4> QED
        BY <1>3, <4>1 DEF WriterRec
    <3>2. CASE up /\ last
      <4>1. B' = AfterChunks("bulk", sent, TRUE)
        BY <1>1, <3>2 DEF WriteChunk, B
      <4> QED
        BY <1>1, <1>2, <3>2, <4>1, AfterChunksPort
    <3> QED
      BY <1>6, <3>1, <3>2
  <2>2. ~Doomed' /\ InHand = 1 /\ InHand' = 0 /\ Doom' = 0 /\ B'.pc # "write"
    BY <1>2, <2>1 DEF Doomed, Doom, InHand
  <2>3. IF Doomed THEN Got' = Got ELSE Got' = Append(Got, B.frame.n)
    <3>1. CASE ~up
      BY <1>4, <3>1 DEF WriteChunk, Got
    <3>2. CASE up /\ last
      <4>1. host'["bulk"] = Delivered(g, B.frame, B.i)
        BY <1>1, <3>2 DEF WriteChunk, B
      <4>2. part = Chunks(B.frame.len) <=> part = B.i
        BY <1>3, <3>2
      <4>3. B.frame.n > 0
        BY <1>3
      <4>4. Got' = IF part = Chunks(B.frame.len) THEN Append(Got, B.frame.n) ELSE Got
        BY <4>1, <4>3 DEF Delivered, Got
      <4> QED
        BY <1>4, <3>2, <4>2, <4>4
    <3> QED
      BY <1>6, <3>1, <3>2
  <2> DEFINE a == rpc.accepted
             n == Len(a)
             s == Len(Waiting)
             m == Len(Got)
             d == spent.drops
  <2>4. m \in Nat /\ n \in Nat /\ s \in Nat /\ d \in Nat
    BY BulkFacts
  <2>5. m + 1 + s <= n /\ n + Doom <= m + 1 + s + d /\ B.frame.n = a[n - s]
    BY <1>2, <2>2 DEF BulkInv
  <2>6. d = 0 => \A k \in 1 .. m : Got[k] = a[k]
    BY DEF BulkInv
  <2> HIDE DEF m, n, s, d
  <2>7. CASE Doomed
    <3>1. Doom = 1 /\ Got' = Got
      BY <2>3, <2>7 DEF Doom
    <3>2. m + 0 + s <= n /\ n + 0 <= m + 0 + s + d
      BY <2>4, <2>5, <3>1
    <3> QED
      BY <1>2, <2>2, <3>1, <3>2 DEF BulkInv, m, n, s, d
  <2>8. CASE ~Doomed
    <3>1. Doom = 0 /\ Got' = Append(Got, B.frame.n)
      BY <2>3, <2>8 DEF Doom
    <3>2. /\ Len(Got') = m + 1 /\ Got'[m + 1] = B.frame.n
          /\ \A k \in 1 .. m : Got'[k] = Got[k]
      BY <1>3, <3>1, AppendProperties DEF m
    <3>3. (m + 1) + 0 + s <= n /\ n + 0 <= (m + 1) + 0 + s + d
      BY <2>4, <2>5, <3>1
    <3>4. d = 0 => \A k \in 1 .. m + 1 : Got'[k] = a[k]
      <4> SUFFICES ASSUME d = 0, NEW k \in 1 .. m + 1 PROVE Got'[k] = a[k]
        OBVIOUS
      <4>1. CASE k \in 1 .. m
        BY <2>6, <3>2, <4>1
      <4>2. CASE k = m + 1
        <5>1. n - s = m + 1
          BY <2>4, <2>5, <3>1
        <5> QED
          BY <2>5, <3>2, <4>2, <5>1
      <4> QED
        BY <2>4, <4>1, <4>2
    <3> QED
      BY <1>2, <2>2, <3>2, <3>3, <3>4 DEF BulkInv, m, n, s, d
  <2> QED
    BY <2>7, <2>8
<1> QED
  BY <1>5, <1>6

(* A frame accepted goes behind those that wait.                           *)
LEMMA BulkAsked ==
  ASSUME PortsInv, BulkInv, NEW ok \in BOOLEAN, NEW size \in Nat \ {0}, BulkTested(ok, size),
         B' = B, host' = host, up' = up, spent'.drops = spent.drops
  PROVE  BulkInv'
<1> DEFINE a == rpc.accepted
           n == Len(a)
           s == Len(Waiting)
           m == Len(Got)
           d == spent.drops
           seq == (rpc.asked % SeqWrap) + 1
           new == [n |-> rpc.BULK_SEQ + 1, len |-> size]
<1>1. /\ m \in Nat /\ n \in Nat /\ s \in Nat /\ d \in Nat /\ rpc.asked \in Nat
      /\ a \in Seq(Nat) /\ Waiting \in Seq(Frame) /\ rpc.BULK_SEQ \in Nat
      /\ InHand \in Nat /\ Doom \in Nat
  BY BulkFacts
<1>2. rpc \in Rpc /\ queue \in [events : Seq(Frame), bulk : Seq(Frame)]
  BY DEF PortsInv, PortsShape
<1>3. /\ rpc'.BULK_SEQ = NextSeq(rpc.BULK_SEQ) /\ rpc'.asked = rpc.asked + 1
      /\ rpc'.accepted = IF ok THEN Append(a, seq) ELSE a
      /\ Waiting' = IF ok THEN Append(Waiting, new) ELSE Waiting
  BY <1>2, Tested DEF Waiting
<1>4. rpc.BULK_SEQ = rpc.asked % SeqWrap
  BY DEF BulkInv
<1>5. rpc'.BULK_SEQ = rpc'.asked % SeqWrap
  BY <1>1, <1>3, <1>4, SeqCounts
<1>6. Got' = Got /\ InHand' = InHand /\ Doom' = Doom
  BY DEF Got, InHand, Doom, Doomed
<1>7. CASE ~ok
  BY <1>3, <1>5, <1>6, <1>7 DEF BulkInv
<1>8. CASE ok
  <2>1. seq \in Nat /\ new \in Frame /\ new.n = seq
    BY <1>1, <1>4, UsbAssumption DEF Frame
  <2>2. rpc'.accepted = Append(a, seq) /\ Waiting' = Append(Waiting, new)
    BY <1>3, <1>8
  <2> HIDE DEF seq, new
  <2>3. /\ Len(rpc'.accepted) = n + 1 /\ rpc'.accepted[n + 1] = seq
        /\ \A k \in 1 .. n : rpc'.accepted[k] = a[k]
    BY <1>1, <2>1, <2>2, AppendProperties
  <2>4. /\ Len(Waiting') = s + 1 /\ Waiting'[s + 1] = new
        /\ \A k \in 1 .. s : Waiting'[k] = Waiting[k]
    BY <1>1, <2>1, <2>2, AppendProperties
  <2>5. /\ m + InHand + s <= n /\ n + Doom <= m + InHand + s + d
        /\ B.pc = "write" => B.frame.n > 0 /\ B.frame.n = a[n - s] /\ InHand = 1
        /\ \A k \in 1 .. s : Waiting[k].n = a[n - s + k]
        /\ d = 0 => \A k \in 1 .. m : Got[k] = a[k]
    BY DEF BulkInv, InHand
  <2> HIDE DEF m, n, s, d
  <2>6. m + InHand + (s + 1) <= n + 1 /\ (n + 1) + Doom <= m + InHand + (s + 1) + d
    <3>1. /\ m \in Nat /\ n \in Nat /\ s \in Nat /\ d \in Nat
          /\ InHand \in Nat /\ Doom \in Nat
      BY <1>1
    <3>2. m + InHand + s <= n /\ n + Doom <= m + InHand + s + d
      BY <2>5
    <3> QED
      BY <3>1, <3>2
  <2>7. B.pc = "write" => B.frame.n > 0 /\ B.frame.n = rpc'.accepted[(n + 1) - (s + 1)]
    <3> SUFFICES ASSUME B.pc = "write"
                 PROVE  B.frame.n > 0 /\ B.frame.n = rpc'.accepted[(n + 1) - (s + 1)]
      OBVIOUS
    <3>1. n - s \in 1 .. n /\ (n + 1) - (s + 1) = n - s
      BY <1>1, <2>5
    <3> QED
      BY <2>3, <2>5, <3>1
  <2>8. \A k \in 1 .. s + 1 : Waiting'[k].n = rpc'.accepted[(n + 1) - (s + 1) + k]
    <3> SUFFICES ASSUME NEW k \in 1 .. s + 1
                 PROVE  Waiting'[k].n = rpc'.accepted[(n + 1) - (s + 1) + k]
      OBVIOUS
    <3>1. CASE k \in 1 .. s
      <4>1. n - s + k \in 1 .. n /\ (n + 1) - (s + 1) + k = n - s + k
        <5>1. s <= n
          BY <1>1, <2>5
        <5>2. k \in Int /\ 1 <= k /\ k <= s /\ n \in Nat /\ s \in Nat
          BY <1>1, <3>1
        <5> QED
          BY <5>1, <5>2
      <4>2. Waiting'[k].n = a[n - s + k]
        BY <2>4, <2>5, <3>1
      <4>3. rpc'.accepted[n - s + k] = a[n - s + k]
        BY <2>3, <4>1
      <4> QED
        BY <4>1, <4>2, <4>3
    <3>2. CASE k = s + 1
      <4>1. (n + 1) - (s + 1) + k = n + 1
        BY <1>1, <3>2
      <4> QED
        BY <2>1, <2>3, <2>4, <3>2, <4>1
    <3> QED
      BY <1>1, <3>1, <3>2
  <2>9. d = 0 => \A k \in 1 .. m : Got[k] = rpc'.accepted[k]
    <3>1. \A k \in 1 .. m : k \in 1 .. n
      BY <1>1, <2>5
    <3> QED
      BY <2>3, <2>5, <3>1
  <2> QED
    BY <1>5, <1>6, <2>3, <2>4, <2>6, <2>7, <2>8, <2>9 DEF BulkInv, m, n, s, d
<1> QED
  BY <1>7, <1>8

(* A disconnection dooms at most the frame in hand, or the next one.       *)
LEMMA BulkDisconnects ==
  ASSUME PortsInv, BulkInv, Disconnect PROVE BulkInv'
<1>1. /\ UNCHANGED <<queue, writer, rpc>> /\ spent' = [spent EXCEPT !.drops = @ + 1]
      /\ host' = [p \in Ports |-> [host[p] EXCEPT !.part = 0, !.held = FALSE]]
      /\ spent \in [work : Nat, drops : Nat] /\ host \in [Ports -> HostRec] /\ "bulk" \in Ports
  BY DEF Disconnect, PortsInv, PortsShape, Ports
<1>2. B' = B /\ Waiting' = Waiting /\ InHand' = InHand
  BY <1>1 DEF B, Waiting, InHand
<1>3. spent'.drops = spent.drops + 1
  BY <1>1
<1>4. Got' = Got
  <2> DEFINE g == host["bulk"]
             g2 == host'["bulk"]
  <2>1. g \in HostRec
    BY <1>1
  <2>2. g2 = [g EXCEPT !.part = 0, !.held = FALSE]
    BY <1>1
  <2> HIDE DEF g, g2
  <2>3. g2.got = g.got
    BY <2>1, <2>2 DEF HostRec
  <2> QED
    BY <2>3 DEF Got, g, g2
<1> DEFINE n == Len(rpc.accepted)
           f == Len(Got) + InHand + Len(Waiting)
           d == spent.drops
           more == Doom'
<1>5. n \in Nat /\ f \in Nat /\ d \in Nat /\ Doom \in Nat
  BY BulkFacts
<1>6. more \in {0, 1}
  BY DEF Doom
<1>7. n + Doom <= f + d
  BY DEF BulkInv
<1> HIDE DEF n, f, d, more
<1>8. n + more <= f + (d + 1) /\ d + 1 # 0
  BY <1>5, <1>6, <1>7
<1>9. Len(rpc'.accepted) + Doom' <= Len(Got') + InHand' + Len(Waiting') + spent'.drops
  BY <1>1, <1>2, <1>3, <1>4, <1>8 DEF n, f, d, more
<1>10. spent'.drops # 0
  BY <1>3, <1>8 DEF d
<1> QED
  BY <1>1, <1>2, <1>4, <1>9, <1>10 DEF BulkInv

LEMMA BulkStep ==
  ASSUME PortsInv, LineInv, BulkInv, Next PROVE BulkInv'
<1>1. /\ rpc \in Rpc /\ spent \in [work : Nat, drops : Nat] /\ running \subseteq Ports
      /\ queue \in [events : Seq(Frame), bulk : Seq(Frame)]
      /\ {"control", "console"} \subseteq Ports \ {"bulk"}
      /\ writer \in [Ports -> WriterRec] /\ "bulk" \in Ports
  BY DEF PortsInv, PortsShape, Ports
<1>2. ASSUME NEW p \in running, Task(p) PROVE BulkInv'
  <2>1. CASE p = "bulk"
    <3>1. ~ReadFails("bulk")
      BY DEF ReadFails
    <3> QED
      BY <1>2, <2>1, <3>1, BulkWrites, BulkFlushes, BulkAwakes, BulkTakes DEF Task
  <2>2. CASE p # "bulk"
    BY <1>1, <1>2, <2>2, BulkOtherTask
  <2> QED
    BY <2>1, <2>2
<1>3. ASSUME writer'["bulk"] = writer["bulk"], host' = host, up => up', queue'.bulk = queue.bulk,
             rpc'.accepted = rpc.accepted, rpc'.asked = rpc.asked, rpc'.BULK_SEQ = rpc.BULK_SEQ,
             spent'.drops = spent.drops
      PROVE  BulkInv'
  <2>1. B' = B /\ Got' = Got /\ Waiting' = Waiting
    BY <1>3 DEF B, Got, Waiting
  <2>2. Doomed' => Doomed
    BY <1>3, <2>1 DEF Doomed
  <2> QED
    BY <1>3, <2>1, <2>2, BulkUnmoved
<1>4. ASSUME NEW word, ControlWord(word) PROVE BulkInv'
  <2>1. UNCHANGED <<up, queue, rpc, host, spent>>
    BY <1>4 DEF ControlWord
  <2>2. writer'["bulk"] = writer["bulk"]
    BY <1>1, <1>4 DEF ControlWord, Reply
  <2> QED
    BY <1>3, <2>1, <2>2
<1>5. ASSUME NEW n \in 1..Packet, NEW crs \in 0..Packet, ConsoleEcho(n, crs) PROVE BulkInv'
  <2>1. /\ UNCHANGED <<up, queue, rpc, host>> /\ writer'["bulk"] = writer["bulk"]
        /\ spent'.drops = spent.drops
    BY <1>1, <1>5 DEF ConsoleEcho, Worked
  <2> QED
    BY <1>3, <2>1
<1>6. ASSUME NEW len \in Lengths, Emit(len) PROVE BulkInv'
  <2>1. UNCHANGED <<up, host, writer>> /\ spent'.drops = spent.drops /\ queue'.bulk = queue.bulk
    BY <1>1, <1>6 DEF Emit, Worked
  <2>2. rpc'.accepted = rpc.accepted /\ rpc'.asked = rpc.asked /\ rpc'.BULK_SEQ = rpc.BULK_SEQ
    BY <1>1, <1>6 DEF Emit, Rpc
  <2> QED
    BY <1>3, <2>1, <2>2
<1>7. CASE MouseTask \/ Configure
  BY <1>3, <1>7 DEF MouseTask, Configure
<1>8. CASE InjectorTakes
  <2>1. rpc'.accepted = rpc.accepted /\ rpc'.asked = rpc.asked /\ rpc'.BULK_SEQ = rpc.BULK_SEQ
    BY <1>1, <1>8 DEF InjectorTakes, Rpc
  <2> QED
    BY <1>3, <1>8, <2>1 DEF InjectorTakes
<1>9. CASE ControlEnter
  <2>1. up' = up /\ host' = host /\ spent'.drops = spent.drops
    BY <1>1, <1>9, Entered
  <2>2. writer'["bulk"] = writer["bulk"]
    BY <1>1, <1>9, Entered
  <2>3. CASE queue' = queue /\ rpc' = rpc
    BY <1>3, <2>1, <2>2, <2>3
  <2>4. CASE queue' = queue /\ rpc' = [rpc EXCEPT !.inject = @ + 1]
    <3>1. rpc'.accepted = rpc.accepted /\ rpc'.asked = rpc.asked /\ rpc'.BULK_SEQ = rpc.BULK_SEQ
      BY <1>1, <2>4 DEF Rpc
    <3> QED
      BY <1>3, <2>1, <2>2, <2>4, <3>1
  <2>5. ASSUME NEW ok \in BOOLEAN, NEW size \in Nat \ {0}, BulkTested(ok, size)
        PROVE  BulkInv'
    BY <2>1, <2>2, <2>5, BulkAsked DEF B
  <2> QED
    BY <1>9, <2>3, <2>4, <2>5, Entered
<1>10. CASE BulkEnabled
  BY <1>10, BulkAwakes
<1>11. CASE Disconnect
  BY <1>11, BulkDisconnects
<1>12. CASE Configure
  BY <1>7, <1>12
<1> QED
  BY <1>2, <1>4, <1>5, <1>6, <1>7, <1>8, <1>9, <1>10, <1>11 DEF Next

LEMMA BulkInductive == Spec => []BulkInv
<1>1. BulkInv /\ PortsInv /\ LineInv /\ [Next]_vars => BulkInv'
  <2>1. BulkInv /\ PortsInv /\ UNCHANGED vars => BulkInv'
    BY BulkUnmoved DEF vars, B, Got, Waiting, Doomed
  <2> QED
    BY <2>1, BulkStep
<1> QED
  BY <1>1, BulkStart, PortsInductive, PTL DEF Spec

(* A bulk_test answered "ok" reaches the host in its turn, or a            *)
(* disconnection took it: what is being written and what waits are the     *)
(* last frames accepted, and the frames missing before them are no more    *)
(* than the disconnections.                                                *)
THEOREM BulkAccounted == Spec => []BulkSurvivesDisconnect
<1>1. PortsInv /\ BulkInv => BulkSurvivesDisconnect
  <2> SUFFICES ASSUME PortsInv, BulkInv PROVE BulkSurvivesDisconnect
    OBVIOUS
  <2> DEFINE a == rpc.accepted
             n == Len(a)
             m == Len(Got)
             s == Len(Waiting)
             d == spent.drops
             x == IF B.pc = "write" THEN <<B.frame.n>> ELSE <<>>
             y == [k \in 1 .. s |-> Waiting[k].n]
             z == Got \o x
             f == z \o y
  <2>1. /\ n \in Nat /\ m \in Nat /\ s \in Nat /\ d \in Nat /\ InHand \in Nat /\ Doom \in Nat
        /\ a \in Seq(Nat) /\ Got \in Seq(Nat)
    BY BulkFacts
  <2>2. /\ x \in Seq(Nat) /\ Len(x) = InHand
        /\ \A k \in 1 .. InHand : x[k] = a[n - s]
    <3>1. CASE B.pc = "write"
      <4>1. B.frame.n \in Nat /\ B.frame.n = a[n - s]
        BY <3>1, BulkFacts DEF BulkInv
      <4> QED
        BY <3>1, <4>1 DEF InHand
    <3>2. CASE B.pc # "write"
      BY <3>2 DEF InHand
    <3> QED
      BY <3>1, <3>2
  <2>3. /\ y \in Seq(Nat) /\ Len(y) = s
        /\ \A k \in 1 .. s : y[k] = a[n - s + k]
    <3>1. \A k \in 1 .. s : Waiting[k].n \in Nat /\ Waiting[k].n = a[n - s + k]
      BY BulkFacts DEF BulkInv
    <3> QED
      BY <2>1, <3>1
  <2>4. /\ m + InHand + s <= n /\ n <= m + InHand + s + d
        /\ d = 0 => \A k \in 1 .. m : Got[k] = a[k]
        /\ InHand \in {0, 1}
    <3>1. m + InHand + s <= n /\ n + Doom <= m + InHand + s + d
      BY DEF BulkInv
    <3>2. (d = 0 => \A k \in 1 .. m : Got[k] = a[k]) /\ InHand \in {0, 1}
      BY DEF BulkInv, InHand
    <3> HIDE DEF n, m, s, d
    <3>3. m + InHand + s <= n /\ n <= m + InHand + s + d
      BY <2>1, <3>1
    <3> QED
      BY <3>2, <3>3
  <2>5. Frames("bulk") = f
    BY DEF Frames, Serials, B, Got, Waiting
  <2> HIDE DEF x, y, s, m, n, d
  <2>6. /\ z \in Seq(Nat) /\ Len(z) = m + InHand
        /\ \A i \in 1 .. m + InHand : z[i] = IF i <= m THEN Got[i] ELSE x[i - m]
    BY <2>1, <2>2, ConcatProperties DEF m
  <2> HIDE DEF z
  <2>7. /\ f \in Seq(Nat) /\ Len(f) = m + InHand + s
        /\ \A i \in 1 .. m + InHand + s :
             f[i] = IF i <= m + InHand THEN z[i] ELSE y[i - (m + InHand)]
    <3>1. z \in Seq(Nat) /\ y \in Seq(Nat)
      BY <2>3, <2>6
    <3>2. /\ f \in Seq(Nat) /\ Len(f) = Len(z) + Len(y)
          /\ \A i \in 1 .. Len(z) + Len(y) : f[i] = IF i <= Len(z) THEN z[i] ELSE y[i - Len(z)]
      BY <3>1, ConcatProperties
    <3> HIDE DEF f
    <3>3. Len(z) = m + InHand /\ Len(y) = s
      BY <2>3, <2>6
    <3> QED
      BY <3>2, <3>3
  <2> HIDE DEF f
  <2> DEFINE p == InHand + s
  <2>8. ASSUME NEW i \in 1 .. p PROVE a[n - p + i] = f[m + i]
    <3>1. i \in Int /\ 1 <= i /\ i <= InHand + s
      BY <2>1, <2>8
    <3>2. CASE i <= InHand
      <4>1. InHand = 1 /\ i = 1 /\ n - p + i = n - s
        BY <2>1, <2>4, <3>1, <3>2
      <4>2. f[m + i] = x[1]
        <5>1. m + i \in 1 .. m + InHand + s /\ m + i <= m + InHand /\ ~(m + i <= m)
              /\ m + i \in 1 .. m + InHand /\ (m + i) - m = 1
          BY <2>1, <4>1
        <5> QED
          BY <2>6, <2>7, <5>1
      <4> QED
        BY <2>2, <4>1, <4>2
    <3>3. CASE ~(i <= InHand)
      <4>1. i - InHand \in 1 .. s /\ n - p + i = n - s + (i - InHand)
        BY <2>1, <3>1, <3>3
      <4>2. f[m + i] = y[i - InHand]
        <5>1. m + i \in 1 .. m + InHand + s /\ ~(m + i <= m + InHand)
              /\ (m + i) - (m + InHand) = i - InHand
          BY <2>1, <3>1, <3>3
        <5> QED
          BY <2>7, <5>1
      <4> QED
        BY <2>3, <4>1, <4>2
    <3> QED
      BY <3>2, <3>3
  <2>9. ASSUME d = 0 PROVE f = a
    <3>1. Len(f) = n /\ n = m + p
      BY <2>1, <2>4, <2>7, <2>9
    <3>2. ASSUME NEW k \in 1 .. Len(f) PROVE f[k] = a[k]
      <4>1. k \in Int /\ 1 <= k /\ k <= m + p
        BY <2>1, <3>1, <3>2
      <4>2. CASE k <= m
        <5>1. k \in 1 .. m /\ k \in 1 .. m + InHand /\ k \in 1 .. m + InHand + s
          BY <2>1, <4>1, <4>2
        <5>2. k <= m + InHand
          BY <2>1, <4>1, <4>2
        <5>3. f[k] = z[k] /\ z[k] = Got[k]
          BY <2>6, <2>7, <4>2, <5>1, <5>2
        <5> QED
          BY <2>4, <2>9, <5>1, <5>3
      <4>3. CASE ~(k <= m)
        <5>1. k - m \in 1 .. p /\ m + (k - m) = k /\ n - p + (k - m) = k
          BY <2>1, <3>1, <4>1, <4>3
        <5> HIDE DEF p
        <5>2. a[n - p + (k - m)] = f[m + (k - m)]
          BY <2>8, <5>1
        <5> QED
          BY <5>1, <5>2
      <4> QED
        BY <4>2, <4>3
    <3> QED
      BY <2>1, <2>7, <3>1, <3>2, SeqEqual DEF n
  <2>10. Len(f) - m = p /\ Len(f) - p = m /\ Len(f) <= n /\ n <= Len(f) + d
    BY <2>1, <2>4, <2>7
  <2> HIDE DEF p
  <2>11. \A i \in 1 .. Len(f) - m : a[n - (Len(f) - m) + i] = f[Len(f) - (Len(f) - m) + i]
    <3>1. Len(f) - (Len(f) - m) = m
      BY <2>10
    <3> QED
      BY <2>8, <2>10, <3>1
  <2> QED
    BY <2>5, <2>9, <2>10, <2>11 DEF BulkSurvivesDisconnect, Got, n, m, d
<1> QED
  BY <1>1, PortsInductive, BulkInductive, PTL

-----------------------------------------------------------------------------
(* The mouse                                                               *)

Names == {"l", "m", "r"}
Bits == {1, 2, 4}
MaskOf(held) == {BtnMask[b] : b \in held}

(* The ninth bit and the low byte tell the motion, clamped to nine bits.   *)
LEMMA ClampedReads ==
  ASSUME NEW d \in Int
  PROVE  /\ Clamped(d) \in -256 .. 255
         /\ (Clamped(d) \div 256) % 2 \in {0, 1}
         /\ (Clamped(d) % 256) - 256 * ((Clamped(d) \div 256) % 2) = Clamped(d)
         /\ Clamped(d) % 256 \in Nat
<1> DEFINE c == Clamped(d)
<1>1. c \in -256 .. 255
  BY DEF Clamped
<1> HIDE DEF c
<1>2. CASE c < 0
  <2> DEFINE e == c \div 256
  <2>1. e \in Int /\ e + 1 = 0 /\ c % 256 = c + 256
    BY <1>1, <1>2
  <2> HIDE DEF e
  <2>2. e % 2 = 1
    BY <2>1
  <2> QED
    BY <1>1, <1>2, <2>1, <2>2 DEF c, e
<1>3. CASE c >= 0
  <2>1. c \div 256 = 0 /\ c % 256 = c /\ 0 % 2 = 0
    BY <1>1, <1>3
  <2> QED
    BY <1>1, <1>3, <2>1 DEF c
<1> QED
  BY <1>1, <1>2, <1>3

(* Byte 0 carries the buttons in its low bits and the ninth bits above.    *)
LEMMA StatusReads ==
  ASSUME NEW l \in {0, 1}, NEW r \in {0, 2}, NEW m \in {0, 4}, NEW x \in {0, 1}, NEW y \in {0, 1}
  PROVE  LET b0 == 8 + l + r + m + 16 * x + 32 * y
         IN  /\ b0 \in Nat
             /\ (b0 \div 16) % 2 = x /\ (b0 \div 32) % 2 = y
             /\ (b0 \div 1) % 2 = 1 <=> l = 1
             /\ (b0 \div 2) % 2 = 1 <=> r = 2
             /\ (b0 \div 4) % 2 = 1 <=> m = 4
  OBVIOUS

(* What the PS/2 host reads from a packet: the motion and the buttons.     *)
LEMMA PacketReads ==
  ASSUME NEW dx \in Int, NEW dy \in Int, NEW buttons \in SUBSET Bits
  PROVE  LET pkt == PackPacket(dx, dy, buttons)
         IN  /\ pkt \in Seq(Nat) /\ Len(pkt) = 3
             /\ Reported(pkt[1], pkt[2], pkt[3]) =
                  [dx |-> Clamped(dx), dy |-> Clamped(dy),
                   held |-> {b \in Names : BtnMask[b] \in buttons}]
<1> DEFINE l == IF 1 \in buttons THEN 1 ELSE 0
           r == IF 2 \in buttons THEN 2 ELSE 0
           m == IF 4 \in buttons THEN 4 ELSE 0
           x == (Clamped(dx) \div 256) % 2
           y == (Clamped(dy) \div 256) % 2
           b0 == 8 + l + r + m + 16 * x + 32 * y
           b1 == Clamped(dx) % 256
           b2 == Clamped(dy) % 256
<1>1. PackPacket(dx, dy, buttons) = <<b0, b1, b2>>
  BY DEF PackPacket
<1>2. /\ x \in {0, 1} /\ b1 - 256 * x = Clamped(dx) /\ b1 \in Nat
      /\ y \in {0, 1} /\ b2 - 256 * y = Clamped(dy) /\ b2 \in Nat
  BY ClampedReads
<1>3. /\ b0 \in Nat
      /\ (b0 \div 16) % 2 = x /\ (b0 \div 32) % 2 = y
      /\ (b0 \div 1) % 2 = 1 <=> l = 1
      /\ (b0 \div 2) % 2 = 1 <=> r = 2
      /\ (b0 \div 4) % 2 = 1 <=> m = 4
  <2>1. l \in {0, 1} /\ r \in {0, 2} /\ m \in {0, 4}
    OBVIOUS
  <2> HIDE DEF l, r, m, x, y
  <2> QED
    BY <1>2, <2>1, StatusReads
<1>4. (l = 1 <=> 1 \in buttons) /\ (r = 2 <=> 2 \in buttons) /\ (m = 4 <=> 4 \in buttons)
  OBVIOUS
<1> HIDE DEF l, r, m, x, y, b0, b1, b2
<1>5. {b \in {"l", "m", "r"} : (b0 \div BtnMask[b]) % 2 = 1}
        = {b \in Names : BtnMask[b] \in buttons}
  <2>1. BtnMask["l"] = 1 /\ BtnMask["m"] = 4 /\ BtnMask["r"] = 2
    BY DEF BtnMask
  <2>2. \A b \in Names : (b0 \div BtnMask[b]) % 2 = 1 <=> BtnMask[b] \in buttons
    BY <1>3, <1>4, <2>1 DEF Names
  <2> QED
    BY <2>2 DEF Names
<1>6. Reported(b0, b1, b2) = [dx |-> Clamped(dx), dy |-> Clamped(dy),
                              held |-> {b \in Names : BtnMask[b] \in buttons}]
  BY <1>2, <1>3, <1>5 DEF Reported
<1>7. <<b0, b1, b2>> \in Seq(Nat) /\ Len(<<b0, b1, b2>>) = 3
  BY <1>2, <1>3
<1> QED
  BY <1>1, <1>6, <1>7

LEMMA MaskFacts ==
  ASSUME NEW held \in SUBSET Names
  PROVE  /\ MaskOf(held) \in SUBSET Bits
         /\ {b \in Names : BtnMask[b] \in MaskOf(held)} = held
         /\ \A b \in Names : /\ MaskOf(held \cup {b}) = MaskOf(held) \cup {BtnMask[b]}
                             /\ MaskOf(held \ {b}) = MaskOf(held) \ {BtnMask[b]}
<1>1. BtnMask["l"] = 1 /\ BtnMask["m"] = 4 /\ BtnMask["r"] = 2
  BY DEF BtnMask
<1>2. \A b, c \in Names : BtnMask[b] = BtnMask[c] => b = c
  BY <1>1 DEF Names
<1>3. \A b \in Names : BtnMask[b] \in Bits
  BY <1>1 DEF Names, Bits
<1>4. \A b \in Names : BtnMask[b] \in MaskOf(held) <=> b \in held
  BY <1>2 DEF MaskOf
<1>5. MaskOf(held) \in SUBSET Bits
  BY <1>3 DEF MaskOf
<1>6. \A b \in Names : MaskOf(held \cup {b}) = MaskOf(held) \cup {BtnMask[b]}
  BY DEF MaskOf
<1>7. \A b \in Names : MaskOf(held \ {b}) = MaskOf(held) \ {BtnMask[b]}
  BY <1>2 DEF MaskOf
<1> QED
  BY <1>4, <1>5, <1>6, <1>7

LEMMA HeldIsNames ==
  ASSUME NEW s PROVE HeldAfter(s) \in SUBSET Names
  BY DEF HeldAfter, Names

(* One more command: a button is held as it says.                          *)
LEMMA HeldOneMore ==
  ASSUME NEW s \in Seq(Cmd), NEW c \in Cmd
  PROVE  HeldAfter(Append(s, c)) =
           IF c.cmd # "Button" THEN HeldAfter(s)
           ELSE IF c.down THEN HeldAfter(s) \cup {c.btn}
           ELSE HeldAfter(s) \ {c.btn}
<1> DEFINE t == Append(s, c)
           n == Len(s)
<1>1. /\ n \in Nat /\ Len(t) = n + 1 /\ t[n + 1] = c
      /\ \A i \in 1 .. n : t[i] = s[i]
  BY AppendProperties, LenProperties
<1>2. c.cmd = "Button" => c.btn \in Names /\ c.down \in BOOLEAN
  BY DEF Cmd, Names
<1> HIDE DEF t, n
<1>3. ASSUME NEW b \in Names, c.cmd = "Button", c.btn = b
      PROVE  b \in HeldAfter(t) <=> c.down
  <2>1. ASSUME c.down PROVE b \in HeldAfter(t)
    <3>1. n + 1 \in 1 .. Len(t) /\ (n + 1) + 1 .. Len(t) = {}
      BY <1>1
    <3> QED
      BY <1>1, <1>3, <2>1, <3>1 DEF HeldAfter, Names
  <2>2. ASSUME b \in HeldAfter(t) PROVE c.down
    <3>1. PICK i \in 1 .. Len(t) :
             /\ t[i].cmd = "Button" /\ t[i].btn = b /\ t[i].down
             /\ \A j \in i + 1 .. Len(t) : t[j].cmd = "Button" => t[j].btn # b
      BY <2>2 DEF HeldAfter
    <3>2. i = n + 1
      <4>1. i # n + 1 => n + 1 \in i + 1 .. Len(t)
        BY <1>1
      <4> QED
        BY <1>1, <1>3, <3>1, <4>1
    <3> QED
      BY <1>1, <3>1, <3>2
  <2> QED
    BY <2>1, <2>2
<1>4. ASSUME NEW b \in Names, c.cmd # "Button" \/ c.btn # b
      PROVE  b \in HeldAfter(t) <=> b \in HeldAfter(s)
  <2>1. ASSUME b \in HeldAfter(s) PROVE b \in HeldAfter(t)
    <3>1. PICK i \in 1 .. n :
             /\ s[i].cmd = "Button" /\ s[i].btn = b /\ s[i].down
             /\ \A j \in i + 1 .. n : s[j].cmd = "Button" => s[j].btn # b
      BY <2>1 DEF HeldAfter, n
    <3>2. i \in 1 .. Len(t) /\ t[i] = s[i]
      BY <1>1
    <3>3. ASSUME NEW j \in i + 1 .. Len(t), t[j].cmd = "Button" PROVE t[j].btn # b
      <4>1. CASE j = n + 1
        BY <1>1, <1>4, <3>3, <4>1
      <4>2. CASE j # n + 1
        <5>1. j \in i + 1 .. n /\ j \in 1 .. n
          BY <1>1, <4>2
        <5> QED
          BY <1>1, <3>1, <3>3, <5>1
      <4> QED
        BY <4>1, <4>2
    <3> QED
      BY <3>1, <3>2, <3>3 DEF HeldAfter, Names
  <2>2. ASSUME b \in HeldAfter(t) PROVE b \in HeldAfter(s)
    <3>1. PICK i \in 1 .. Len(t) :
             /\ t[i].cmd = "Button" /\ t[i].btn = b /\ t[i].down
             /\ \A j \in i + 1 .. Len(t) : t[j].cmd = "Button" => t[j].btn # b
      BY <2>2 DEF HeldAfter
    <3>2. i # n + 1
      BY <1>1, <1>4, <3>1
    <3>3. i \in 1 .. n /\ s[i] = t[i]
      BY <1>1, <3>2
    <3>4. \A j \in i + 1 .. n : j \in i + 1 .. Len(t) /\ s[j] = t[j]
      BY <1>1
    <3> QED
      BY <3>1, <3>3, <3>4 DEF HeldAfter, Names, n
  <2> QED
    BY <2>1, <2>2
<1>5. HeldAfter(s) \in SUBSET Names /\ HeldAfter(t) \in SUBSET Names
  BY HeldIsNames
<1>6. CASE c.cmd # "Button"
  BY <1>4, <1>5, <1>6 DEF t
<1>7. CASE c.cmd = "Button" /\ c.down
  BY <1>2, <1>3, <1>4, <1>5, <1>7 DEF t
<1>8. CASE c.cmd = "Button" /\ ~c.down
  BY <1>2, <1>3, <1>4, <1>5, <1>8 DEF t
<1> QED
  BY <1>6, <1>7, <1>8

(* The prefix of the commands, one longer, and with more behind it.        *)
LEMMA PrefixFacts ==
  ASSUME NEW s \in Seq(Cmd), NEW n \in 0 .. Len(s)
  PROVE  /\ SubSeq(s, 1, n) \in Seq(Cmd)
         /\ n < Len(s) => SubSeq(s, 1, n + 1) = Append(SubSeq(s, 1, n), s[n + 1])
         /\ \A c \in Cmd : SubSeq(Append(s, c), 1, n) = SubSeq(s, 1, n)
<1>1. Len(s) \in Nat /\ n \in Int /\ \A i \in 1 .. n : s[i] \in Cmd
  BY LenProperties, ElementOfSeq
<1>2. /\ SubSeq(s, 1, n) \in Seq(Cmd) /\ Len(SubSeq(s, 1, n)) = n
      /\ \A i \in 1 .. n : SubSeq(s, 1, n)[i] = s[i]
  <2>1. /\ SubSeq(s, 1, n) \in Seq(Cmd)
        /\ Len(SubSeq(s, 1, n)) = IF 1 <= n THEN n - 1 + 1 ELSE 0
        /\ \A i \in 1 .. n - 1 + 1 : SubSeq(s, 1, n)[i] = s[1 + i - 1]
    BY <1>1, SubSeqProperties
  <2>2. \A i \in 1 .. n : 1 + i - 1 = i /\ i \in 1 .. n - 1 + 1
    BY <1>1
  <2> QED
    BY <1>1, <2>1, <2>2
<1>3. ASSUME n < Len(s) PROVE SubSeq(s, 1, n + 1) = Append(SubSeq(s, 1, n), s[n + 1])
  <2>1. 1 \in 1 .. Len(s) /\ n + 1 \in 1 .. Len(s) /\ (n + 1) - 1 = n /\ s[n + 1] \in Cmd
    BY <1>1, <1>3, ElementOfSeq
  <2>2. SubSeq(s, 1, n + 1) = SubSeq(s, 1, (n + 1) - 1) \o <<s[n + 1]>>
    BY <2>1, SubSeqRecursiveSecond
  <2> QED
    BY <1>2, <2>1, <2>2, AppendIsConcat
<1>4. ASSUME NEW c \in Cmd PROVE SubSeq(Append(s, c), 1, n) = SubSeq(s, 1, n)
  <2> DEFINE t == Append(s, c)
  <2>1. t \in Seq(Cmd) /\ \A i \in 1 .. n : t[i] = s[i]
    BY <1>1, AppendProperties
  <2> HIDE DEF t
  <2>2. \A i \in 1 .. n : t[i] \in Cmd
    BY <1>1, <2>1
  <2>3. /\ SubSeq(t, 1, n) \in Seq(Cmd)
        /\ Len(SubSeq(t, 1, n)) = IF 1 <= n THEN n - 1 + 1 ELSE 0
        /\ \A i \in 1 .. n - 1 + 1 : SubSeq(t, 1, n)[i] = t[1 + i - 1]
    BY <1>1, <2>2, SubSeqProperties
  <2>4. \A i \in 1 .. n : 1 + i - 1 = i /\ i \in 1 .. n - 1 + 1
    BY <1>1
  <2>5. Len(SubSeq(t, 1, n)) = n /\ \A i \in 1 .. n : SubSeq(t, 1, n)[i] = s[i]
    BY <1>1, <2>1, <2>3, <2>4
  <2> QED
    BY <1>2, <2>3, <2>5, SeqEqual DEF t
<1> QED
  BY <1>2, <1>3, <1>4

MouseRec == [queue : Seq(Cmd), BUTTONS : SUBSET Bits, pkt : Seq(Nat),
             told : Seq(Cmd), sent : Seq(Nat)]

(* The bytes on the wire, and after them those of the packet being sent.   *)
Byte(m, j) == IF j <= Len(m.sent) THEN m.sent[j] ELSE m.pkt[j - Len(m.sent)]
Reads(m, k) == Reported(Byte(m, 3*k - 2), Byte(m, 3*k - 1), Byte(m, 3*k)) = Promised(m.told, k)

(* n commands are taken: the others wait in the order they were told, the  *)
(* mask is what the n promise, and their packets tell the PS/2 host so.    *)
MouseAt(m, n) ==
    /\ m \in MouseRec
    /\ n \in Nat /\ Len(m.told) = n + Len(m.queue) /\ Len(m.queue) <= MouseDepth
    /\ Len(m.sent) + Len(m.pkt) = 3 * n
    /\ \A k \in 1 .. Len(m.queue) : m.queue[k] = m.told[n + k]
    /\ m.BUTTONS = MaskOf(HeldAfter(SubSeq(m.told, 1, n)))
    /\ \A k \in 1 .. n : Reads(m, k)

MouseInv == \E n \in Nat : MouseAt(mouse, n)

LEMMA MouseStart == Init => MouseInv
<1> SUFFICES ASSUME Init PROVE MouseInv
  OBVIOUS
<1>1. mouse = [queue |-> <<>>, BUTTONS |-> {}, pkt |-> <<>>, told |-> <<>>, sent |-> <<>>]
  BY DEF Init, MouseInit
<1>2. mouse \in MouseRec
  BY <1>1 DEF MouseRec
<1>3. MouseDepth \in Nat
  BY MouseDepthAssumption
<1>4. HeldAfter(SubSeq(<<>>, 1, 0)) = {}
  <2>1. SubSeq(<<>>, 1, 0) = <<>> /\ Len(<<>>) = 0
    BY SubSeqEmpty
  <2> QED
    BY <2>1 DEF HeldAfter
<1>5. MouseAt(mouse, 0)
  BY <1>1, <1>2, <1>3, <1>4 DEF MouseAt, MaskOf
<1> QED
  BY <1>5 DEF MouseInv

LEMMA MouseFacts ==
  ASSUME NEW m, NEW n, MouseAt(m, n) PROVE
  /\ m.queue \in Seq(Cmd) /\ m.told \in Seq(Cmd) /\ m.pkt \in Seq(Nat) /\ m.sent \in Seq(Nat)
  /\ m.BUTTONS \in SUBSET Bits /\ m \in MouseRec /\ n \in Nat
  /\ Len(m.queue) \in Nat /\ Len(m.told) \in Nat /\ Len(m.pkt) \in Nat /\ Len(m.sent) \in Nat
<1>1. /\ m.queue \in Seq(Cmd) /\ m.told \in Seq(Cmd) /\ m.pkt \in Seq(Nat) /\ m.sent \in Seq(Nat)
      /\ m.BUTTONS \in SUBSET Bits /\ m \in MouseRec /\ n \in Nat
  BY DEF MouseAt, MouseRec
<1> QED
  BY <1>1, LenProperties

(* A command told goes behind those that wait.                             *)
LEMMA MouseTold ==
  ASSUME NEW m, NEW n, MouseAt(m, n), ~MouseFull(m), NEW c \in Cmd
  PROVE  MouseAt(MouseQueued(m, c), n)
<1> DEFINE wait == Append(m.queue, c)
           told == Append(m.told, c)
           m2 == MouseQueued(m, c)
           s == Len(m.queue)
           t == Len(m.told)
<1>1. /\ m \in MouseRec /\ n \in Nat /\ t = n + s /\ s \in Nat /\ t \in Nat
      /\ m.queue \in Seq(Cmd) /\ m.told \in Seq(Cmd)
      /\ Len(m.sent) + Len(m.pkt) = 3 * n /\ MouseDepth \in Nat
  BY MouseFacts, MouseDepthAssumption DEF MouseAt
<1>2. /\ wait \in Seq(Cmd) /\ Len(wait) = s + 1 /\ wait[s + 1] = c
      /\ \A k \in 1 .. s : wait[k] = m.queue[k]
  BY <1>1, AppendProperties
<1>3. /\ told \in Seq(Cmd) /\ Len(told) = t + 1 /\ told[t + 1] = c
      /\ \A k \in 1 .. t : told[k] = m.told[k]
  BY MouseFacts, AppendProperties
<1>4. m2 = [m EXCEPT !.queue = wait, !.told = told]
  BY DEF MouseQueued
<1>5. \A k \in 0 .. n : SubSeq(told, 1, k) = SubSeq(m.told, 1, k)
  BY <1>1, PrefixFacts
<1> HIDE DEF wait, told, m2
<1>6. /\ m2 \in MouseRec /\ m2.queue = wait /\ m2.told = told /\ m2.sent = m.sent
      /\ m2.pkt = m.pkt /\ m2.BUTTONS = m.BUTTONS
  BY <1>1, <1>2, <1>3, <1>4 DEF MouseRec
<1>7. s + 1 <= MouseDepth
  BY <1>1 DEF MouseFull
<1>8. \A k \in 1 .. s : m.queue[k] = m.told[n + k]
  BY DEF MouseAt
<1> HIDE DEF s, t
<1>9. \A k \in 1 .. s + 1 : wait[k] = told[n + k]
  <2> SUFFICES ASSUME NEW k \in 1 .. s + 1 PROVE wait[k] = told[n + k]
    OBVIOUS
  <2>1. CASE k = s + 1
    BY <1>1, <1>2, <1>3, <2>1
  <2>2. CASE k # s + 1
    <3>1. k \in 1 .. s /\ n + k \in 1 .. t
      BY <1>1, <2>2
    <3> QED
      BY <1>2, <1>3, <1>8, <3>1
  <2> QED
    BY <2>1, <2>2
<1>10. m2.BUTTONS = MaskOf(HeldAfter(SubSeq(m2.told, 1, n)))
  <2>1. n \in 0 .. n
    BY <1>1
  <2>2. m.BUTTONS = MaskOf(HeldAfter(SubSeq(m.told, 1, n)))
    BY DEF MouseAt
  <2> QED
    BY <1>5, <1>6, <2>1, <2>2
<1>11. ASSUME NEW k \in 1 .. n PROVE Reads(m2, k)
  <2>1. k \in 0 .. n /\ k \in 1 .. t
    BY <1>1
  <2>2. Promised(m2.told, k) = Promised(m.told, k)
    BY <1>3, <1>5, <1>6, <2>1 DEF Promised
  <2>3. Reads(m, k)
    BY DEF MouseAt
  <2> QED
    BY <1>6, <2>2, <2>3 DEF Reads, Byte
<1>12. Len(told) = n + (s + 1)
  BY <1>1, <1>3
<1> QED
  BY <1>1, <1>2, <1>6, <1>7, <1>9, <1>10, <1>11, <1>12 DEF MouseAt, m2

(* A byte goes from the packet to the wire.                                *)
LEMMA MouseSends ==
  ASSUME NEW m, NEW n, MouseAt(m, n), NEW m2, MouseSend(m, m2)
  PROVE  MouseAt(m2, n)
<1> DEFINE rest == Tail(m.pkt)
           more == Append(m.sent, Head(m.pkt))
           s == Len(m.sent)
           p == Len(m.pkt)
<1>1. /\ m \in MouseRec /\ n \in Nat /\ s \in Nat /\ p \in Nat
      /\ m.pkt \in Seq(Nat) /\ m.sent \in Seq(Nat) /\ m.pkt # <<>>
      /\ s + p = 3 * n
  BY MouseFacts DEF MouseAt, MouseSend
<1>2. /\ Head(m.pkt) \in Nat /\ Head(m.pkt) = m.pkt[1]
      /\ rest \in Seq(Nat) /\ Len(rest) = p - 1 /\ p \in Nat \ {0}
      /\ \A j \in 1 .. p - 1 : rest[j] = m.pkt[j + 1]
  BY <1>1, EmptySeq, HeadTailProperties
<1>3. /\ more \in Seq(Nat) /\ Len(more) = s + 1 /\ more[s + 1] = m.pkt[1]
      /\ \A j \in 1 .. s : more[j] = m.sent[j]
  BY <1>1, <1>2, AppendProperties
<1>4. m2 = [m EXCEPT !.pkt = rest, !.sent = more]
  BY DEF MouseSend
<1> HIDE DEF rest, more
<1>5. /\ m2 \in MouseRec /\ m2.queue = m.queue /\ m2.told = m.told /\ m2.sent = more
      /\ m2.pkt = rest /\ m2.BUTTONS = m.BUTTONS
  BY <1>1, <1>2, <1>3, <1>4 DEF MouseRec
<1> HIDE DEF s, p
<1>6. (s + 1) + (p - 1) = 3 * n
  BY <1>1, <1>2
<1>7. ASSUME NEW j \in 1 .. 3 * n PROVE Byte(m2, j) = Byte(m, j)
  <2>1. j \in Int /\ 1 <= j /\ j <= s + p
    BY <1>1, <1>7
  <2>2. CASE j <= s
    <3>1. j \in 1 .. s /\ j <= s + 1
      BY <1>1, <2>1, <2>2
    <3> QED
      BY <1>3, <1>5, <2>2, <3>1 DEF Byte, s
  <2>3. CASE j = s + 1
    <3>1. j <= s + 1 /\ ~(j <= s) /\ j - s = 1
      BY <1>1, <2>1, <2>3
    <3> QED
      BY <1>3, <1>5, <2>3, <3>1 DEF Byte, s
  <2>4. CASE j > s + 1
    <3>1. ~(j <= s + 1) /\ ~(j <= s) /\ j - (s + 1) \in 1 .. p - 1 /\ j - (s + 1) + 1 = j - s
      BY <1>1, <1>2, <2>1, <2>4
    <3>2. rest[j - (s + 1)] = m.pkt[j - s]
      BY <1>2, <3>1
    <3> QED
      BY <1>3, <1>5, <3>1, <3>2 DEF Byte, s
  <2> QED
    BY <1>1, <2>1, <2>2, <2>3, <2>4
<1>8. ASSUME NEW k \in 1 .. n PROVE Reads(m2, k)
  <2>1. 3*k - 2 \in 1 .. 3 * n /\ 3*k - 1 \in 1 .. 3 * n /\ 3*k \in 1 .. 3 * n
    BY <1>1
  <2>2. Reads(m, k)
    BY DEF MouseAt
  <2> QED
    BY <1>5, <1>7, <2>1, <2>2 DEF Reads
<1> QED
  BY <1>1, <1>2, <1>3, <1>5, <1>6, <1>8 DEF MouseAt

(* The command at the head of the queue becomes a packet.                  *)
LEMMA MouseTakes ==
  ASSUME NEW m, NEW n, MouseAt(m, n), NEW m2, MouseTake(m, m2)
  PROVE  MouseAt(m2, n + 1)
<1> DEFINE c == Head(m.queue)
           buttons == IF c.cmd = "Button" THEN Pressed(m.BUTTONS, c) ELSE m.BUTTONS
           dx == IF c.cmd = "Button" THEN 0 ELSE c.dx
           dy == IF c.cmd = "Button" THEN 0 ELSE c.dy
           pkt == PackPacket(dx, dy, buttons)
           rest == Tail(m.queue)
           s == Len(m.queue)
           t == Len(m.told)
<1>1. /\ m \in MouseRec /\ n \in Nat /\ s \in Nat /\ t \in Nat /\ t = n + s
      /\ m.queue \in Seq(Cmd) /\ m.sent \in Seq(Nat) /\ m.queue # <<>> /\ m.pkt = <<>>
      /\ s <= MouseDepth /\ MouseDepth \in Nat
      /\ m.BUTTONS = MaskOf(HeldAfter(SubSeq(m.told, 1, n)))
      /\ \A k \in 1 .. s : m.queue[k] = m.told[n + k]
  BY MouseFacts, MouseDepthAssumption DEF MouseAt, MouseTake
<1>2. m.told \in Seq(Cmd) /\ Len(m.sent) \in Nat /\ Len(m.sent) + Len(m.pkt) = 3 * n
  BY MouseFacts DEF MouseAt
<1>3. Len(m.sent) = 3 * n
  <2>1. Len(m.pkt) = 0
    BY <1>1
  <2> QED
    BY <1>1, <1>2, <2>1
<1>4. /\ c \in Cmd /\ rest \in Seq(Cmd) /\ Len(rest) = s - 1 /\ s \in Nat \ {0}
      /\ c = m.queue[1] /\ \A k \in 1 .. s - 1 : rest[k] = m.queue[k + 1]
  BY <1>1, EmptySeq, HeadTailProperties
<1>5. m2 = [m EXCEPT !.queue = rest, !.BUTTONS = buttons, !.pkt = pkt]
  BY DEF MouseTake
<1>6. c = m.told[n + 1]
  <2>1. 1 \in 1 .. s
    BY <1>4
  <2> QED
    BY <1>1, <1>4, <2>1
<1> DEFINE held == HeldAfter(SubSeq(m.told, 1, n))
           after == HeldAfter(SubSeq(m.told, 1, n + 1))
<1>7. /\ held \in SUBSET Names /\ after \in SUBSET Names
      /\ after = IF c.cmd # "Button" THEN held
                 ELSE IF c.down THEN held \cup {c.btn} ELSE held \ {c.btn}
  <2>1. n \in 0 .. t /\ n < t
    BY <1>1, <1>4
  <2>2. /\ SubSeq(m.told, 1, n) \in Seq(Cmd)
        /\ SubSeq(m.told, 1, n + 1) = Append(SubSeq(m.told, 1, n), c)
    BY <1>2, <1>6, <2>1, PrefixFacts
  <2> QED
    BY <1>4, <2>2, HeldOneMore, HeldIsNames
<1>8. c.cmd = "Button" => c.btn \in Names /\ c.down \in BOOLEAN
  BY <1>4 DEF Cmd, Names
<1>9. dx \in Int /\ dy \in Int
  BY <1>4 DEF Cmd
<1>10. buttons = MaskOf(after)
  <2>1. CASE c.cmd = "Button"
    <3>1. buttons = IF c.down THEN MaskOf(held) \cup {BtnMask[c.btn]}
                              ELSE MaskOf(held) \ {BtnMask[c.btn]}
      BY <1>1, <2>1 DEF Pressed
    <3> HIDE DEF buttons, held, after
    <3> QED
      BY <1>7, <1>8, <2>1, <3>1, MaskFacts
  <2>2. CASE c.cmd # "Button"
    BY <1>1, <1>7, <2>2
  <2> QED
    BY <2>1, <2>2
<1>11. /\ dx = IF c.cmd = "Move" THEN c.dx ELSE 0
       /\ dy = IF c.cmd = "Move" THEN c.dy ELSE 0
  BY <1>4 DEF Cmd
<1>12. Clamped(0) = 0
  BY DEF Clamped
<1> HIDE DEF buttons, dx, dy, held
<1>13. /\ buttons \in SUBSET Bits
       /\ {b \in Names : BtnMask[b] \in buttons} = after
  BY <1>7, <1>10, MaskFacts
<1>14. /\ pkt \in Seq(Nat) /\ Len(pkt) = 3
       /\ Reported(pkt[1], pkt[2], pkt[3])
            = [dx |-> Clamped(dx), dy |-> Clamped(dy), held |-> after]
  BY <1>9, <1>13, PacketReads
<1> HIDE DEF pkt, rest, after, c
<1>15. /\ m2 \in MouseRec /\ m2.queue = rest /\ m2.told = m.told /\ m2.sent = m.sent
       /\ m2.pkt = pkt /\ m2.BUTTONS = buttons
  BY <1>1, <1>4, <1>5, <1>13, <1>14 DEF MouseRec
<1>16. Reported(pkt[1], pkt[2], pkt[3]) = Promised(m.told, n + 1)
  BY <1>6, <1>11, <1>12, <1>14 DEF Promised, after
<1>17. ASSUME NEW k \in 1 .. n + 1 PROVE Reads(m2, k)
  <2>1. CASE k = n + 1
    <3>1. /\ ~(3*k - 2 <= 3*n) /\ ~(3*k - 1 <= 3*n) /\ ~(3*k <= 3*n)
          /\ 3*k - 2 - 3*n = 1 /\ 3*k - 1 - 3*n = 2 /\ 3*k - 3*n = 3
      BY <1>1, <2>1
    <3>2. Byte(m2, 3*k - 2) = pkt[1] /\ Byte(m2, 3*k - 1) = pkt[2] /\ Byte(m2, 3*k) = pkt[3]
      BY <1>3, <1>15, <3>1 DEF Byte
    <3> QED
      BY <1>15, <1>16, <2>1, <3>2 DEF Reads
  <2>2. CASE k # n + 1
    <3>1. k \in 1 .. n /\ 3*k - 2 <= 3*n /\ 3*k - 1 <= 3*n /\ 3*k <= 3*n
      BY <1>1, <2>2
    <3>2. Reads(m, k)
      BY <3>1 DEF MouseAt
    <3> QED
      BY <1>3, <1>15, <3>1, <3>2 DEF Reads, Byte
  <2> QED
    BY <2>1, <2>2
<1> HIDE DEF s, t
<1>18. \A k \in 1 .. s - 1 : rest[k] = m.told[(n + 1) + k]
  <2> SUFFICES ASSUME NEW k \in 1 .. s - 1 PROVE rest[k] = m.told[(n + 1) + k]
    OBVIOUS
  <2>1. k + 1 \in 1 .. s /\ n + (k + 1) = (n + 1) + k
    BY <1>1, <1>4
  <2> QED
    BY <1>1, <1>4, <2>1
<1>19. t = (n + 1) + (s - 1) /\ s - 1 <= MouseDepth /\ 3 * n + 3 = 3 * (n + 1) /\ n + 1 \in Nat
  BY <1>1, <1>4
<1> QED
  BY <1>3, <1>4, <1>10, <1>14, <1>15, <1>17, <1>18, <1>19 DEF MouseAt, after, t

LEMMA MouseStep ==
  ASSUME MouseInv, LineInv, Next \/ UNCHANGED vars PROVE MouseInv'
<1>1. PICK n \in Nat : MouseAt(mouse, n)
  BY DEF MouseInv
<1>2. CASE mouse' = mouse
  <2>1. MouseAt(mouse', n)
    BY <1>1, <1>2
  <2> QED
    BY <2>1 DEF MouseInv
<1>3. CASE MouseTask
  <2>1. MouseAt(mouse', n) \/ MouseAt(mouse', n + 1)
    BY <1>1, <1>3, MouseTakes, MouseSends DEF MouseTask
  <2> QED
    BY <2>1 DEF MouseInv
<1>4. CASE ControlEnter
  <2>1. mouse' = mouse \/ (~MouseFull(mouse) /\ \E c \in Cmd : mouse' = MouseQueued(mouse, c))
    BY <1>4, Entered
  <2>2. ASSUME ~MouseFull(mouse), NEW c \in Cmd, mouse' = MouseQueued(mouse, c) PROVE MouseInv'
    <3>1. MouseAt(mouse', n)
      BY <1>1, <2>2, MouseTold
    <3> QED
      BY <3>1 DEF MouseInv
  <2> QED
    BY <1>2, <2>1, <2>2
<1>5. CASE \E p \in running : Task(p)
  BY <1>2, <1>5 DEF Task, WriteChunk, Flush, Connected, Receive, ReadFails
<1>6. CASE \E word \in UNION {Range(l) : l \in Lines} : ControlWord(word)
  BY <1>2, <1>6 DEF ControlWord
<1>7. CASE \/ BulkEnabled \/ InjectorTakes \/ Configure \/ Disconnect
           \/ \E len \in Lengths : Emit(len)
           \/ \E k \in 1..Packet, crs \in 0..Packet : crs <= k /\ ConsoleEcho(k, crs)
  BY <1>2, <1>7 DEF BulkEnabled, InjectorTakes, Configure, Disconnect, Emit, ConsoleEcho
<1>8. CASE UNCHANGED vars
  BY <1>2, <1>8 DEF vars
<1> QED
  BY <1>3, <1>4, <1>5, <1>6, <1>7, <1>8 DEF Next

LEMMA MouseInductive == Spec => []MouseInv
<1>1. MouseInv /\ LineInv /\ [Next]_vars => MouseInv'
  BY MouseStep
<1> QED
  BY <1>1, MouseStart, PortsInductive, PTL DEF Spec

(* What the operator was told "ok" is what the PS/2 host reads: every      *)
(* command exactly once, in the order of the answers, with its motion and  *)
(* the buttons held after it.                                              *)
THEOREM MouseTellsTheHost == Spec => []MouseAnswers
<1>1. MouseInv => MouseAnswers
  <2> SUFFICES ASSUME MouseInv PROVE MouseReported(mouse)
    BY DEF MouseAnswers
  <2>1. PICK n \in Nat : MouseAt(mouse, n)
    BY DEF MouseInv
  <2> DEFINE s == Len(mouse.sent)
             p == Len(mouse.pkt)
             wait == Len(mouse.queue)
  <2>2. s \in Nat /\ p \in Nat /\ wait \in Nat /\ s + p = 3 * n /\ Len(mouse.told) = n + wait
    BY <2>1, MouseFacts DEF MouseAt
  <2> HIDE DEF s, p, wait
  <2>3. 3 * (n + wait) = s + p + 3 * wait
    BY <2>1, <2>2
  <2>4. ASSUME NEW k \in 1 .. (s \div 3)
        PROVE  Reported(mouse.sent[3*k - 2], mouse.sent[3*k - 1], mouse.sent[3*k])
                 = Promised(mouse.told, k)
    <3>1. k \in Int /\ 1 <= k /\ 3*k <= s
      BY <2>2, <2>4
    <3>2. k \in 1 .. n /\ 3*k - 2 <= s /\ 3*k - 1 <= s
      BY <2>1, <2>2, <3>1
    <3>3. Reads(mouse, k)
      BY <2>1, <3>2 DEF MouseAt
    <3> QED
      BY <3>1, <3>2, <3>3 DEF Reads, Byte, s
  <2> QED
    BY <2>2, <2>3, <2>4 DEF MouseReported, s, p, wait
<1> QED
  BY <1>1, MouseInductive, PTL

-----------------------------------------------------------------------------
(* The queues                                                              *)

RoomInv ==
    /\ Len(queue.events) <= EventDepth /\ Len(queue.bulk) <= BulkDepth
    /\ rpc.inject <= InjectDepth

LEMMA RoomStep ==
  ASSUME RoomInv, PortsInv, LineInv, Next \/ UNCHANGED vars PROVE RoomInv'
<1>1. /\ rpc \in Rpc /\ queue \in [events : Seq(Frame), bulk : Seq(Frame)]
      /\ running \subseteq Ports
  BY DEF PortsInv, PortsShape
<1>2. /\ Len(queue.events) \in Nat /\ Len(queue.bulk) \in Nat /\ rpc.inject \in Nat
      /\ EventDepth \in Nat /\ BulkDepth \in Nat /\ InjectDepth \in Nat
  BY <1>1, LenProperties, UsbAssumption DEF Rpc
<1>3. CASE queue' = queue /\ rpc' = rpc
  BY <1>3 DEF RoomInv
<1>4. ASSUME NEW p \in running, Task(p) PROVE RoomInv'
  <2>1. CASE Receive(p)
    <3>1. p \in {"events", "bulk"} /\ rpc' = rpc
      BY <2>1 DEF Receive
    <3>2. /\ queue' = [queue EXCEPT ![p] = Tail(queue[p])]
          /\ Len(Tail(queue[p])) = Len(queue[p]) - 1
      BY <2>1, <3>1, Taken
    <3>3. CASE p = "events"
      <4>1. queue'.bulk = queue.bulk /\ Len(queue'.events) = Len(queue.events) - 1
        BY <1>1, <3>2, <3>3
      <4> QED
        BY <1>2, <3>1, <4>1 DEF RoomInv
    <3>4. CASE p = "bulk"
      <4>1. queue'.events = queue.events /\ Len(queue'.bulk) = Len(queue.bulk) - 1
        BY <1>1, <3>2, <3>4
      <4> QED
        BY <1>2, <3>1, <4>1 DEF RoomInv
    <3> QED
      BY <3>1, <3>3, <3>4
  <2>2. CASE ~Receive(p)
    BY <1>3, <1>4, <2>2 DEF Task, WriteChunk, Flush, Connected, ReadFails
  <2> QED
    BY <2>1, <2>2
<1>5. ASSUME NEW len \in Lengths, Emit(len) PROVE RoomInv'
  <2> DEFINE new == [n |-> rpc.emitted + 1, len |-> len]
  <2>1. rpc'.inject = rpc.inject
    BY <1>1, <1>5 DEF Emit, Rpc
  <2>2. queue' = queue \/ (EventRoom /\ queue' = [queue EXCEPT !.events = Append(@, new)])
    BY <1>5 DEF Emit
  <2>3. new \in Frame
    BY <1>1, <1>5, UsbAssumption DEF Rpc, Frame
  <2> HIDE DEF new
  <2>4. Len(Append(queue.events, new)) = Len(queue.events) + 1
    BY <1>1, <2>3, AppendProperties
  <2>5. CASE queue' = queue
    BY <2>1, <2>5 DEF RoomInv
  <2>6. CASE EventRoom /\ queue' = [queue EXCEPT !.events = Append(@, new)]
    <3>1. queue'.bulk = queue.bulk /\ Len(queue'.events) = Len(queue.events) + 1
      BY <1>1, <2>4, <2>6
    <3> QED
      BY <1>2, <2>1, <2>6, <3>1 DEF RoomInv, EventRoom
  <2> QED
    BY <2>2, <2>5, <2>6
<1>6. CASE ControlEnter
  <2>1. CASE queue' = queue /\ rpc' = rpc
    BY <1>3, <2>1
  <2>2. CASE queue' = queue /\ rpc.inject < InjectDepth /\ rpc' = [rpc EXCEPT !.inject = @ + 1]
    <3>1. rpc'.inject = rpc.inject + 1
      BY <1>1, <2>2 DEF Rpc
    <3> QED
      BY <1>2, <2>2, <3>1 DEF RoomInv
  <2>3. ASSUME NEW ok \in BOOLEAN, NEW size \in Nat \ {0}, BulkTested(ok, size) PROVE RoomInv'
    <3> DEFINE new == [n |-> rpc.BULK_SEQ + 1, len |-> size]
    <3>1. /\ rpc'.inject = rpc.inject /\ queue'.events = queue.events
          /\ queue'.bulk = IF ok THEN Append(queue.bulk, new) ELSE queue.bulk
      BY <1>1, <2>3, Tested
    <3>2. new \in Frame
      BY <1>1, <2>3 DEF Rpc, Frame
    <3> HIDE DEF new
    <3>3. Len(Append(queue.bulk, new)) = Len(queue.bulk) + 1
      BY <1>1, <3>2, AppendProperties
    <3>4. ok => Len(queue.bulk) < BulkDepth
      BY <2>3 DEF BulkTested
    <3> QED
      BY <1>2, <3>1, <3>3, <3>4 DEF RoomInv
  <2> QED
    BY <1>6, <2>1, <2>2, <2>3, Entered
<1>7. CASE InjectorTakes
  <2>1. queue' = queue /\ rpc'.inject = rpc.inject - 1
    BY <1>1, <1>7 DEF InjectorTakes, Rpc
  <2> QED
    BY <1>2, <2>1 DEF RoomInv
<1>8. CASE \E word \in UNION {Range(l) : l \in Lines} : ControlWord(word)
  BY <1>3, <1>8 DEF ControlWord
<1>9. CASE \/ BulkEnabled \/ MouseTask \/ Configure \/ Disconnect
           \/ \E n \in 1..Packet, crs \in 0..Packet : crs <= n /\ ConsoleEcho(n, crs)
  BY <1>3, <1>9 DEF BulkEnabled, MouseTask, Configure, Disconnect, ConsoleEcho
<1>10. CASE UNCHANGED vars
  BY <1>3, <1>10 DEF vars
<1> QED
  BY <1>4, <1>5, <1>6, <1>7, <1>8, <1>9, <1>10 DEF Next

LEMMA RoomInductive == Spec => []RoomInv
<1>1. Init => RoomInv
  BY UsbAssumption DEF Init, RoomInv
<1>2. RoomInv /\ PortsInv /\ LineInv /\ [Next]_vars => RoomInv'
  BY RoomStep
<1> QED
  BY <1>1, <1>2, PortsInductive, PTL DEF Spec

(* Every queue keeps to its depth: each try_send looks before it puts.     *)
THEOREM UsbTyped == Spec => []TypeOK
<1>1. PortsInv /\ LineInv /\ RoomInv /\ MouseInv => TypeOK
  <2> SUFFICES ASSUME PortsInv, LineInv, RoomInv, MouseInv PROVE TypeOK
    OBVIOUS
  <2>1. up \in BOOLEAN /\ rpc.inject \in Nat
    BY DEF PortsInv, PortsShape, Rpc
  <2>2. \A p \in Ports : writer[p].pc \in PCs
    BY DEF PortsInv, PortsShape, WriterRec
  <2>3. Len(mouse.queue) <= MouseDepth /\ mouse.BUTTONS \subseteq Bits
    BY MouseFacts DEF MouseInv, MouseAt
  <2>4. Bits \subseteq Range(BtnMask)
    <3>1. BtnMask["l"] = 1 /\ BtnMask["m"] = 4 /\ BtnMask["r"] = 2
          /\ DOMAIN BtnMask = {"l", "m", "r"}
      BY DEF BtnMask
    <3> QED
      BY <3>1 DEF Bits, Range
  <2>5. InjectDepth \in Nat
    BY UsbAssumption
  <2> QED
    BY <2>1, <2>2, <2>3, <2>4, <2>5 DEF TypeOK, LineInv, RoomInv, PCs
<1> QED
  BY <1>1, PortsInductive, RoomInductive, MouseInductive, PTL
=============================================================================
