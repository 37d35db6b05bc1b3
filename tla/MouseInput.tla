----------------------------- MODULE MouseInput -----------------------------
(***************************************************************************)
(* src/firmware/src/ps2/mouse_input.rs: the task that owns AuxTx, turns    *)
(* the commands of the USB control interface into three-byte PS/2 packets  *)
(* and keeps the sticky button mask.  A record mouse holds the command     *)
(* queue, the mask (as the set of pressed bits) and the bytes of the       *)
(* packet being sent; told and sent are the histories the properties read: *)
(* the commands answered "ok" and the bytes put on the AUX wire.           *)
(***************************************************************************)
EXTENDS Integers, Sequences

CONSTANT MouseDepth            \* MOUSE_CMD: eight commands in the code

ASSUME MouseDepthAssumption == MouseDepth \in Nat \ {0}

\* MouseBtn::mask
BtnMask == [l |-> 1, m |-> 4, r |-> 2]

\* MouseCmd
Move(dx, dy)      == [cmd |-> "Move", dx |-> dx, dy |-> dy]
Button(btn, down) == [cmd |-> "Button", btn |-> btn, down |-> down]

MouseInit == [queue |-> <<>>, BUTTONS |-> {}, pkt |-> <<>>,
              told |-> <<>>, sent |-> <<>>]

\* i16::clamp(-256, 255)
Clamped(d) == IF d < -256 THEN -256 ELSE IF d > 255 THEN 255 ELSE d

\* pack_packet; \div floors, as >> does, and % 256 keeps the low byte
PackPacket(dx, dy, buttons) ==
    LET dx9 == Clamped(dx)
        dy9 == Clamped(dy)
        x_sign == (dx9 \div 256) % 2
        y_sign == (dy9 \div 256) % 2
        Bit(b) == IF b \in buttons THEN b ELSE 0
    IN  << 8 + Bit(1) + Bit(2) + Bit(4) + 16 * x_sign + 32 * y_sign, dx9 % 256, dy9 % 256 >>

\* Mutant: fetch_and of the bit instead of its complement
Pressed_complement(buttons, cmd) ==
    LET bit == {BtnMask[cmd.btn]}
    IN  IF cmd.down THEN buttons \cup bit ELSE buttons \cap bit

\* The mask a Button command leaves: fetch_or of the bit, fetch_and of its complement
Pressed(buttons, cmd) ==
    LET bit == {BtnMask[cmd.btn]}
    IN  IF cmd.down THEN buttons \cup bit ELSE buttons \ bit

\* Mutant: one command too many
MouseFull_late(m) == Len(m.queue) > MouseDepth

\* try_send on MOUSE_CMD by the control task
MouseFull(m) == Len(m.queue) >= MouseDepth
MouseQueued(m, cmd) ==
    [m EXCEPT !.queue = Append(@, cmd), !.told = Append(@, cmd)]

\* One turn of run: receive a command, update the mask, begin the packet
MouseTake(m, m2) ==
    /\ m.pkt = <<>> /\ m.queue # <<>>
    /\ LET cmd == Head(m.queue)
           new == IF cmd.cmd = "Button" THEN Pressed(m.BUTTONS, cmd) ELSE m.BUTTONS
           pkt == IF cmd.cmd = "Button" THEN PackPacket(0, 0, new)
                                        ELSE PackPacket(cmd.dx, cmd.dy, new)
       IN  m2 = [m EXCEPT !.queue = Tail(@), !.BUTTONS = new, !.pkt = pkt]

\* One turn of send_packet: send_at_byte and the gap after it
MouseSend(m, m2) ==
    /\ m.pkt # <<>>
    /\ m2 = [m EXCEPT !.pkt = Tail(@), !.sent = Append(@, Head(m.pkt))]

-----------------------------------------------------------------------------
\* What a PS/2 host reads from three bytes: byte 0 carries the ninth bits
Reported(b0, b1, b2) ==
    [dx |-> b1 - 256 * ((b0 \div 16) % 2),
     dy |-> b2 - 256 * ((b0 \div 32) % 2),
     held |-> {b \in {"l", "m", "r"} : (b0 \div BtnMask[b]) % 2 = 1}]

\* What the commands promise: a button is held when the last command about it said so
HeldAfter(cmds) ==
    {b \in {"l", "m", "r"} :
       \E i \in 1..Len(cmds) :
          /\ cmds[i].cmd = "Button" /\ cmds[i].btn = b /\ cmds[i].down
          /\ \A j \in i+1..Len(cmds) : cmds[j].cmd = "Button" => cmds[j].btn # b}

Promised(cmds, k) ==
    [dx |-> IF cmds[k].cmd = "Move" THEN Clamped(cmds[k].dx) ELSE 0,
     dy |-> IF cmds[k].cmd = "Move" THEN Clamped(cmds[k].dy) ELSE 0,
     held |-> HeldAfter(SubSeq(cmds, 1, k))]

\* Every command answered "ok" is waiting, being sent, or on the wire, exactly
\* once and in the order of the answers, and the k-th packet on the wire tells
\* the PS/2 host the motion of the k-th command and the buttons held after it.
MouseReported(m) ==
    /\ 3 * Len(m.told) = Len(m.sent) + Len(m.pkt) + 3 * Len(m.queue)
    /\ \A k \in 1..(Len(m.sent) \div 3) :
         Reported(m.sent[3*k - 2], m.sent[3*k - 1], m.sent[3*k]) = Promised(m.told, k)
=============================================================================
