--------------------------- MODULE LptBytes_proofs ---------------------------
(***************************************************************************)
(* The bytes that cross the LPT port, for every FIFO depth and ring, any   *)
(* bytes, and any number of switches, requests and retries: recv_byte      *)
(* returns what the host has written, in its order, and the host reads     *)
(* what send_byte was given, in its order.                                 *)
(***************************************************************************)
EXTENDS Lpt_proofs

-----------------------------------------------------------------------------
(* Sequences whose elements have no set of their own.                      *)

(* A sequence of anything: what Append and Tail need to know.              *)
Listed(s) == \E S : s \in Seq(S)

(* The bytes of v in their order: first those handed over, then those of   *)
(* the words that wait.                                                    *)
Inward(done, words, v) ==
    /\ Listed(done) /\ Listed(words) /\ Listed(v)
    /\ Len(done) + Len(words) <= Len(v)
    /\ \A k \in 1 .. Len(done) : done[k] = v[k]
    /\ \A k \in 1 .. Len(words) : ByteOf(words[k]) = v[Len(done) + k]

LEMMA ListedNone == Listed(<<>>) /\ Len(<<>>) = 0
<1>1. <<>> \in Seq({})
  BY EmptySeq
<1> QED
  BY <1>1 DEF Listed

LEMMA ListedLen ==
  ASSUME NEW s, Listed(s) PROVE Len(s) \in Nat /\ (Len(s) = 0 <=> s = <<>>)
<1>1. PICK S : s \in Seq(S)
  BY DEF Listed
<1> QED
  BY <1>1, EmptySeq, LenProperties

LEMMA ListedSeq == ASSUME NEW S, NEW s \in Seq(S) PROVE Listed(s)
  BY DEF Listed

LEMMA ListedAppend ==
  ASSUME NEW s, Listed(s), NEW e
  PROVE  /\ Listed(Append(s, e)) /\ Len(Append(s, e)) = Len(s) + 1
         /\ \A k \in 1 .. Len(s) : Append(s, e)[k] = s[k]
         /\ Append(s, e)[Len(s) + 1] = e
<1>1. PICK S : s \in Seq(S)
  BY DEF Listed
<1>2. s \in Seq(S \cup {e})
  BY <1>1
<1>3. Append(s, e) \in Seq(S \cup {e})
  BY <1>2
<1> QED
  BY <1>2, <1>3, AppendProperties DEF Listed

LEMMA ListedTail ==
  ASSUME NEW s, Listed(s), s # <<>>
  PROVE  /\ Listed(Tail(s)) /\ Len(Tail(s)) = Len(s) - 1 /\ Head(s) = s[1]
         /\ \A k \in 1 .. Len(s) - 1 : Tail(s)[k] = s[k + 1]
<1>1. PICK S : s \in Seq(S)
  BY DEF Listed
<1> QED
  BY <1>1, HeadTailProperties DEF Listed

(* A word handed over, a word that arrives, and a byte more that may come. *)
LEMMA InwardTaken ==
  ASSUME NEW done, NEW words, NEW v, Inward(done, words, v), words # <<>>
  PROVE  Inward(Append(done, ByteOf(Head(words))), Tail(words), v)
<1>1. /\ Listed(done) /\ Listed(words) /\ Listed(v)
      /\ Len(done) + Len(words) <= Len(v)
      /\ \A k \in 1 .. Len(done) : done[k] = v[k]
      /\ \A k \in 1 .. Len(words) : ByteOf(words[k]) = v[Len(done) + k]
  BY DEF Inward
<1> DEFINE e == ByteOf(Head(words))
           d == Append(done, e)
           t == Tail(words)
<1>2. Len(done) \in Nat /\ Len(words) \in Nat /\ Len(v) \in Nat /\ Len(words) # 0
  BY <1>1, ListedLen
<1>3. /\ Listed(d) /\ Len(d) = Len(done) + 1
      /\ \A k \in 1 .. Len(done) : d[k] = done[k]
      /\ d[Len(done) + 1] = e
  BY <1>1, ListedAppend
<1>4. /\ Listed(t) /\ Len(t) = Len(words) - 1 /\ Head(words) = words[1]
      /\ \A k \in 1 .. Len(words) - 1 : t[k] = words[k + 1]
  BY <1>1, ListedTail
<1>5. e = v[Len(done) + 1]
  BY <1>1, <1>2, <1>4
<1> HIDE DEF d, t, e
<1>6. \A k \in 1 .. Len(d) : d[k] = v[k]
  BY <1>1, <1>2, <1>3, <1>5
<1>7. \A k \in 1 .. Len(t) : ByteOf(t[k]) = v[Len(d) + k]
  <2> SUFFICES ASSUME NEW k \in 1 .. Len(t) PROVE ByteOf(t[k]) = v[Len(d) + k]
    OBVIOUS
  <2>1. t[k] = words[k + 1] /\ k + 1 \in 1 .. Len(words)
    BY <1>2, <1>4
  <2>2. ByteOf(words[k + 1]) = v[Len(done) + (k + 1)] /\ Len(done) + (k + 1) = Len(d) + k
    BY <1>1, <1>2, <1>3, <2>1
  <2> QED
    BY <2>1, <2>2
<1>8. Len(d) + Len(t) <= Len(v)
  BY <1>1, <1>2, <1>3, <1>4
<1>9. Inward(d, t, v)
  BY <1>1, <1>3, <1>4, <1>6, <1>7, <1>8 DEF Inward
<1> QED
  BY <1>9 DEF d, t, e

LEMMA InwardSampled ==
  ASSUME NEW done, NEW words, NEW v, Inward(done, words, v), NEW w,
         Len(done) + Len(words) + 1 <= Len(v), ByteOf(w) = v[Len(done) + Len(words) + 1]
  PROVE  Inward(done, Append(words, w), v)
<1>1. /\ Listed(done) /\ Listed(words) /\ Listed(v)
      /\ \A k \in 1 .. Len(done) : done[k] = v[k]
      /\ \A k \in 1 .. Len(words) : ByteOf(words[k]) = v[Len(done) + k]
  BY DEF Inward
<1>2. Len(done) \in Nat /\ Len(words) \in Nat /\ Len(v) \in Nat
  BY <1>1, ListedLen
<1> DEFINE a == Append(words, w)
<1>3. /\ Listed(a) /\ Len(a) = Len(words) + 1
      /\ \A k \in 1 .. Len(words) : a[k] = words[k]
      /\ a[Len(words) + 1] = w
  BY <1>1, ListedAppend
<1> HIDE DEF a
<1>4. \A k \in 1 .. Len(a) : ByteOf(a[k]) = v[Len(done) + k]
  <2> SUFFICES ASSUME NEW k \in 1 .. Len(a) PROVE ByteOf(a[k]) = v[Len(done) + k]
    OBVIOUS
  <2>1. CASE k \in 1 .. Len(words)
    BY <1>1, <1>3, <2>1
  <2>2. CASE k = Len(words) + 1
    <3>1. Len(done) + k = Len(done) + Len(words) + 1
      BY <1>2, <2>2
    <3> QED
      BY <1>3, <2>2, <3>1
  <2> QED
    BY <1>2, <1>3, <2>1, <2>2
<1>5. Len(done) + Len(a) <= Len(v)
  BY <1>2, <1>3
<1>6. Inward(done, a, v)
  BY <1>1, <1>3, <1>4, <1>5 DEF Inward
<1> QED
  BY <1>6 DEF a

LEMMA InwardMore ==
  ASSUME NEW done, NEW words, NEW v, NEW e, Listed(v)
  PROVE  /\ Inward(done, words, v) => Inward(done, words, Append(v, e))
         /\ Inward(done, words, Append(v, e)) /\ Len(done) + Len(words) <= Len(v)
              => Inward(done, words, v)
<1> DEFINE a == Append(v, e)
<1>1. /\ Listed(a) /\ Len(a) = Len(v) + 1 /\ \A k \in 1 .. Len(v) : a[k] = v[k]
  BY ListedAppend
<1>2. Len(v) \in Nat
  BY ListedLen
<1> HIDE DEF a
<1>3. ASSUME Listed(done), Listed(words), Len(done) + Len(words) <= Len(v)
      PROVE  /\ \A k \in 1 .. Len(done) : a[k] = v[k]
             /\ \A k \in 1 .. Len(words) : a[Len(done) + k] = v[Len(done) + k]
  <2>1. Len(done) \in Nat /\ Len(words) \in Nat
    BY <1>3, ListedLen
  <2> QED
    BY <1>1, <1>2, <1>3, <2>1
<1>4. Inward(done, words, v) => Inward(done, words, a)
  <2> SUFFICES ASSUME Inward(done, words, v) PROVE Inward(done, words, a)
    OBVIOUS
  <2>1. Len(done) \in Nat /\ Len(words) \in Nat
    BY ListedLen DEF Inward
  <2> QED
    BY <1>1, <1>2, <1>3, <2>1 DEF Inward
<1>5. Inward(done, words, a) /\ Len(done) + Len(words) <= Len(v) => Inward(done, words, v)
  BY <1>1, <1>3 DEF Inward
<1> QED
  BY <1>4, <1>5 DEF a

LEMMA InwardPrefix ==
  ASSUME NEW done, NEW words, NEW v, Inward(done, words, v) PROVE IsPrefix(done, v)
<1>1. /\ Listed(done) /\ Listed(words) /\ Listed(v)
      /\ Len(done) + Len(words) <= Len(v)
      /\ \A k \in 1 .. Len(done) : done[k] = v[k]
  BY DEF Inward
<1>2. Len(done) \in Nat /\ Len(words) \in Nat /\ Len(v) \in Nat /\ Len(done) <= Len(v)
  BY <1>1, ListedLen
<1>3. PICK S : done \in Seq(S)
  BY <1>1 DEF Listed
<1>4. PICK T : v \in Seq(T)
  BY <1>1 DEF Listed
<1>5. SubSeq(done, 1, Len(done)) = SubSeq(v, 1, Len(done))
  <2>1. SubSeq(done, 1, Len(done)) = [k \in 1 .. Len(done) |-> done[k]]
    BY <1>2, <1>3
  <2>2. SubSeq(v, 1, Len(done)) = [k \in 1 .. Len(done) |-> v[k]]
    BY <1>2, <1>4
  <2> QED
    BY <1>1, <2>1, <2>2
<1> QED
  BY <1>2, <1>5 DEF IsPrefix

LEMMA ListedChanged ==
  ASSUME NEW s, Listed(s), NEW t,
         \/ t = s \/ t = <<>>
         \/ \E e : t = Append(s, e)
         \/ s # <<>> /\ t = Tail(s)
  PROVE  Listed(t)
<1>1. CASE t = s \/ t = <<>>
  BY <1>1, ListedNone
<1>2. CASE \E e : t = Append(s, e)
  <2>1. PICK e : t = Append(s, e)
    BY <1>2
  <2>2. Listed(Append(s, e))
    BY ListedAppend
  <2> QED
    BY <2>1, <2>2
<1>3. CASE s # <<>> /\ t = Tail(s)
  BY <1>3, ListedTail
<1> QED
  BY <1>1, <1>2, <1>3

(* Short ones, spelled out.                                                *)
LEMMA Pulled ==
  ASSUME NEW a, NEW b
  PROVE  /\ Head(<<a>>) = a /\ Tail(<<a>>) = <<>> /\ Head(<<a, b>>) = a /\ Tail(<<a, b>>) = <<b>>
  OBVIOUS

LEMMA LengthTwo ==
  ASSUME NEW s, Listed(s), Len(s) = 1, NEW d, NEW a, a = Append(s, d)
  PROVE  Len(a) = 2 /\ a[1] = s[1] /\ a[2] = d
<1>1. /\ Len(a) = Len(s) + 1
      /\ \A k \in 1 .. Len(s) : a[k] = s[k]
      /\ a[Len(s) + 1] = d
  BY ListedAppend
<1> QED
  BY <1>1

LEMMA OneAfter ==
  ASSUME NEW c, NEW d
  PROVE  Append(<<c>>, d) = <<c, d>> /\ Append(<<>>, d) = <<d>>
<1>1. Append(<<>>, d) = <<d>>
  OBVIOUS
<1> DEFINE S == {c, d}
           s == <<c>>
           t == <<c, d>>
           a == Append(s, d)
<1>2. s \in Seq(S) /\ Len(s) = 1 /\ s[1] = c /\ d \in S
  OBVIOUS
<1>3. t \in Seq(S) /\ Len(t) = 2 /\ t[1] = c /\ t[2] = d
  OBVIOUS
<1> HIDE DEF S, s, t
<1>4. a \in Seq(S)
  BY <1>2, AppendProperties, Zenon
<1>5. Listed(s) /\ a = Append(s, d)
  BY <1>2, ListedSeq
<1> HIDE DEF a
<1>6. Len(a) = 2 /\ a[1] = c /\ a[2] = d
  BY <1>2, <1>5, LengthTwo
<1>7. \A i \in 1 .. 2 : a[i] = t[i]
  BY <1>3, <1>6
<1>8. a = t
  BY <1>3, <1>4, <1>6, <1>7, SeqEqual
<1> QED
  BY <1>1, <1>8 DEF a, s, t

LEMMA NotEmpty == \A a, b : <<a>> # <<>> /\ <<a, b>> # <<>>
  OBVIOUS

-----------------------------------------------------------------------------
(* The invariants, one for the lines and one for each way to move a byte.  *)

(* What the host has written, with the byte it has a strobe out for.       *)
Strobing == host = "write" \/ peer.pc = "strobing"
Sent == IF Strobing THEN Append(written, pins["d"]) ELSE written

(* The host is in one exchange at a time, and the lines show which.        *)
LinesInv ==
    /\ host # "idle" \/ active # "SppNibble" => Settled
    /\ pins["strobe"] = IF Strobing THEN 0 ELSE 1
    /\ pins["autofd"] = IF Asking \/ host = "read" \/ (host = "write" /\ active = "Epp")
                        THEN 0 ELSE 1
    /\ hw.armed <=> RingFed(Running)
    /\ active # "Epp" => ~awaiting
    /\ host = "idle" => acked = <<>>
    /\ Running # "Epp" => acked \in {<<>>, <<Floating>>}

BytesInv ==
    /\ rev \in Seq(Byte) /\ Listed(written) /\ Listed(taken) /\ Listed(ring)
    /\ Running # "SppNibble" => Listed(got)
    /\ Machine(sm0) /\ sm0.delay = 0 /\ sm0.pc \in 1 .. Len(Cfg.sm0.prog)

(* Compatibility mode: a word is sampled once in each strobe.              *)
Clean == ~ghosts /\ ~fought /\ ~overran
CompatInv ==
  Running = "SppNibble" /\ ~ghosts =>
    /\ sm0.rx = <<>>
    /\ Clean =>
      /\ Inward(taken, ring, Sent)
      /\ sm0.pc = 1 => Len(taken) + Len(ring) = Len(written)
      /\ sm0.pc = 2 => Len(taken) + Len(ring) = Len(written) /\ Strobing
      /\ sm0.pc = 3 => Len(taken) + Len(ring) = Len(Sent)

(* Byte mode and ECP drive the data lines without turning the transceiver  *)
(* round: the first byte sampled is fought over, and the host reads none.  *)
DrivenInv ==
  Running \in {"Byte", "Ecp"} =>
    /\ "data" \in hw.out
    /\ Clean => taken = <<>> /\ ring = <<>> /\ sm0.rx = <<>> /\ sm0.pc \in {1, 2}
    /\ Len(got) <= Len(rev) /\ (host = "read" => Len(got) < Len(rev))
    /\ \A k \in 1 .. Len(got) : got[k] = Floating

(* EPP: the program is sending a reply to the host, or receiving.          *)
Shifted(s, n) == SubSeq(s, n + 1, Len(s))

Replying == \/ sm0.pc = 2 /\ Head(sm0.osr) = 1
            \/ sm0.pc \in {3, 4} /\ sm0.x = 1
            \/ sm0.pc \in 5 .. 7
            \/ sm0.pc = 8 /\ host = "read"
Receiving == \/ sm0.pc = 2 /\ Head(sm0.osr) = 0
             \/ sm0.pc \in {3, 4} /\ sm0.x = 0
             \/ sm0.pc \in 10 .. 12
ReplyWaits == Len(rev) = Len(got) + 1 /\ ~Replying
CommandWaits == awaiting /\ ~Receiving /\ sm0.rx = <<>>
Reply == EncodeReverseCmd(rev[Len(rev)])

Queue ==
    /\ ReplyWaits /\ CommandWaits => sm0.tx = <<Reply, EncodeForwardCmd>>
    /\ ReplyWaits /\ ~CommandWaits => sm0.tx = <<Reply>>
    /\ ~ReplyWaits /\ CommandWaits => sm0.tx = <<EncodeForwardCmd>>
    /\ ~ReplyWaits /\ ~CommandWaits => sm0.tx = <<>>

(* How far host, program and tasks can be apart.                           *)
Counts ==
    /\ Len(got) <= Len(rev) /\ Len(rev) <= Len(got) + 1 /\ Len(rev) <= Len(taken)
    /\ Len(written) <= Len(got) + 1
    /\ sm0.rx # <<>> => sm0.rx = <<sm0.rx[1]>> /\ awaiting /\ Len(rev) = Len(got)
    /\ awaiting => Len(rev) = Len(taken)
    /\ Replying => Len(rev) = Len(got) + 1
    /\ Receiving => awaiting /\ Len(rev) = Len(got) /\ sm0.rx = <<>>
    /\ host = "write" => Len(got) = Len(written)
    /\ Len(taken) + (IF sm0.rx # <<>> \/ sm0.pc = 12 THEN 1 ELSE 0)
         = Len(written) + (IF host = "write" /\ sm0.pc \in {12, 13} THEN 1 ELSE 0)

(* What is left of the word pulled.                                        *)
Word ==
    /\ sm0.pc = 2 => (Receiving /\ sm0.osr = EncodeForwardCmd) \/ (Replying /\ sm0.osr = Reply)
    /\ sm0.pc = 3 => sm0.x = 0 \/ (sm0.x = 1 /\ sm0.osr = Shifted(Reply, 1))
    /\ sm0.pc = 4 => sm0.x = 0 \/ (sm0.x = 1 /\ sm0.osr = Shifted(Shifted(Reply, 1), 23))
    /\ sm0.pc = 5 => sm0.osr = Shifted(Shifted(Reply, 1), 23)
    /\ sm0.pc \in {6, 7} => pins["data"] = rev[Len(rev)]

(* What an acknowledged host takes for byte b, and what it has taken.  The *)
(* phy leaves D0..D7 outputs if it finds them so, and inputs otherwise.    *)
EppReads(b) == IF PicoDrivesData THEN b ELSE Floating
Shown  == EppReads(rev[Len(rev)])
ReadSo == \A k \in 1 .. Len(got) : got[k] = EppReads(rev[k])

(* Where the program can be while the host has a cycle open, and when the  *)
(* host has its answer.                                                    *)
Turns ==
    /\ host = "read" => sm0.pc \in 6 .. 8
    /\ sm0.pc = 7 => host = "read"
    /\ host = "write" => sm0.pc \in {1, 13} \/ Receiving
    /\ sm0.pc \in {11, 12} => host = "write"
    /\ host = "read" /\ sm0.pc = 8 =>
         acked = <<acked[1]>> /\ acked[1] = Shown
    /\ host = "write" /\ sm0.pc \in {12, 13} => acked # <<>>
    /\ host # "idle" /\ sm0.pc \notin {8, 12, 13} => acked = <<>>

EppInv ==
  Running = "Epp" =>
    /\ sm1.tx = <<>> /\ ~ghosts
    /\ ring = <<>>
    /\ active = "None" => sm0.tx = <<>>
    /\ Counts /\ Queue /\ Word /\ Turns
    /\ ReadSo
    /\ ~fought =>
         /\ Inward(taken, sm0.rx, Sent)
         /\ sm0.pc = 12 => sm0.isr = <<pins["d"]>>

(* PIO0's levels of the data lines and of DIR are kept while others have them. *)
DataKept == {"data", "dir"} \subseteq DOMAIN pins

(* The follower has turned the transceiver round before a reply is shown.  *)
TurnInv == active = "Epp" /\ sm0.pc = 7 => pins["dir"] = 1

-----------------------------------------------------------------------------
(* The lines.                                                              *)

(* Once host and firmware are done with a negotiation nothing is left of it. *)
LEMMA SettledEnds == NegInv /\ Settled => ~Negotiation
<1> SUFFICES ASSUME NegInv, Settled, Negotiation PROVE FALSE
  OBVIOUS
<1>1. neg.pc = "done" /\ neg.writes = <<>>
  BY DEF Settled, Negotiating, NegInv, StatusInv, Pending
<1>2. ~NegotiatorStep
  BY <1>1 DEF NegotiatorStep, DetectStart, ClaimStatusPins, DriveStatus, StrobeLow, StrobeHigh,
              AutoFdReleased, NegTimeout, TimesOut, ReleaseStatusPins
<1> QED
  BY <1>1, <1>2 DEF Negotiation, Settled, Negotiating

LEMMA NobodyReads ==
  ASSUME MuxInv, active # "Epp", NEW p PROVE AtHost(p) = Floating
<1>1. hw.dirSel # "PIO0"
  BY DEF MuxInv, PinsFollowMode
<1> QED
  BY <1>1 DEF AtHost, TowardsHost

LEMMA RunningEpp ==
  ASSUME MuxInv, active \in Phys \cup {"None"}
  PROVE  /\ Running # "Epp" => active # "Epp"
         /\ active \in Phys => Running = active
         /\ active = "None" => Running = leaving
  BY DEF Running, Phys

(* Steps that leave the modes, the negotiation and the host's lines alone. *)
LEMMA LinesKept ==
  ASSUME LinesInv, UNCHANGED <<muxVars, negVars, host>>, HostDriven(pins, pins'),
         active # "Epp" => (awaiting' => awaiting),
         host = "idle" => acked' = acked,
         Running # "Epp" => acked' \in {acked, <<Floating>>}
  PROVE  LinesInv'
<1>1. /\ pins'["strobe"] = pins["strobe"] /\ pins'["autofd"] = pins["autofd"]
      /\ active' = active /\ hw' = hw /\ neg' = neg /\ peer' = peer /\ host' = host
      /\ (Running = Running')
  BY DEF HostDriven, Lines, muxVars, negVars, Running
<1>2. (Settled' <=> Settled) /\ (Strobing' <=> Strobing) /\ (Asking' <=> Asking)
  BY <1>1 DEF Settled, Negotiating, Strobing, Asking
<1>3. (host # "idle" \/ active # "SppNibble" => Settled)'
  BY <1>1, <1>2 DEF LinesInv
<1>4. (pins["strobe"] = IF Strobing THEN 0 ELSE 1)'
  BY <1>1, <1>2 DEF LinesInv
<1>5. (pins["autofd"] = IF Asking \/ host = "read" \/ (host = "write" /\ active = "Epp")
                        THEN 0 ELSE 1)'
  BY <1>1, <1>2 DEF LinesInv
<1>6. (hw.armed <=> RingFed(Running))'
  BY <1>1 DEF LinesInv
<1>7. (active # "Epp" => ~awaiting)' /\ (host = "idle" => acked = <<>>)'
      /\ (Running # "Epp" => acked \in {<<>>, <<Floating>>})'
  BY <1>1 DEF LinesInv
<1> QED
  BY <1>3, <1>4, <1>5, <1>6, <1>7 DEF LinesInv

(* What a host that waits for an answer can see.                           *)
LEMMA SeesOnly ==
  ASSUME MuxInv, active \in Phys \cup {"None"}, NEW p
  PROVE  /\ host = "idle" => Sees(p) = acked
         /\ Running # "Epp" => Sees(p) \in {acked, <<Floating>>}
<1>1. Running # "Epp" => AtHost(p) = Floating
  BY RunningEpp, NobodyReads
<1> QED
  BY <1>1 DEF Sees

LEMMA PortKeepsLines ==
  ASSUME MuxInv, NegInv, LinesInv,
         RunSm0 \/ RunSm1 \/ SendByte \/ AskForward \/ RecvFromRing \/ RecvFromFifo
  PROVE  LinesInv'
<1>1. Lines \subseteq DOMAIN pins
  BY DEF NegInv, NegShape
<1>2. CASE RunSm0 \/ RunSm1
  <2>1. /\ UNCHANGED <<muxVars, negVars, host, awaiting>> /\ active \in Phys \cup {"None"}
        /\ acked' = Sees(pins')
    BY <1>2 DEF RunSm0, RunSm1
  <2>2. HostDriven(pins, pins')
    BY <1>1, <1>2, Sm0Keeps, Sm1Keeps
  <2>3. /\ host = "idle" => acked' = acked
        /\ Running # "Epp" => acked' \in {acked, <<Floating>>}
    BY <2>1, SeesOnly
  <2> QED
    BY <2>1, <2>2, <2>3, LinesKept
<1>3. CASE SendByte \/ AskForward \/ RecvFromRing \/ RecvFromFifo
  <2>1. /\ UNCHANGED <<muxVars, negVars, pins, hostVars>>
        /\ active # "Epp" => (awaiting' => awaiting)
    BY <1>3 DEF SendByte, AskForward, RecvFromRing, RecvFromFifo
  <2>2. HostDriven(pins, pins') /\ host' = host /\ acked' = acked
    BY <1>1, <2>1 DEF HostDriven, hostVars
  <2> QED
    BY <2>1, <2>2, LinesKept
<1> QED
  BY <1>2, <1>3

LEMMA HostKeepsLines ==
  ASSUME MuxInv, NegInv, HostQuiet, LinesInv, HostWrites \/ HostReads \/ HostEnds
  PROVE  LinesInv'
<1>1. Lines \subseteq DOMAIN pins
  BY DEF NegInv, NegShape
<1>2. /\ active' = active /\ hw' = hw /\ neg' = neg /\ peer' = peer /\ awaiting' = awaiting
      /\ (Running = Running')
  BY DEF HostWrites, HostReads, HostEnds, muxVars, negVars, phyVars, Running
<1>3. Settled /\ acked' = <<>>
  BY DEF HostWrites, HostReads, HostEnds, HostIdle, LinesInv
<1>4. peer.pc # "strobing" /\ ~Asking /\ Settled' /\ ~Asking'
  BY <1>2, <1>3 DEF Settled, Negotiating, Asking
<1>5. /\ pins'["strobe"] = (IF host' = "write" THEN 0 ELSE 1)
      /\ pins'["autofd"] = IF host' = "read" \/ (host' = "write" /\ active = "Epp") THEN 0 ELSE 1
  <2>1. CASE HostWrites
    <3>1. host' = "write" /\ pins'["strobe"] = 0
          /\ pins'["autofd"] = IF active = "Epp" THEN 0 ELSE pins["autofd"]
      BY <1>1, <2>1 DEF HostWrites, Lines
    <3>2. host = "idle"
      BY <2>1 DEF HostWrites, HostIdle
    <3>3. pins["autofd"] = 1
      BY <1>4, <3>2 DEF LinesInv
    <3> QED
      BY <3>1, <3>3
  <2>2. CASE HostReads
    <3>1. host' = "read" /\ pins'["strobe"] = pins["strobe"] /\ pins'["autofd"] = 0
      BY <1>1, <2>2 DEF HostReads, Lines
    <3>2. host = "idle"
      BY <2>2 DEF HostReads, HostIdle
    <3>3. pins["strobe"] = 1
      BY <1>4, <3>2 DEF LinesInv, Strobing
    <3> QED
      BY <3>1, <3>3
  <2>3. CASE HostEnds
    BY <1>1, <2>3 DEF HostEnds, Lines
  <2> QED
    BY <2>1, <2>2, <2>3
<1>6. Strobing' <=> host' = "write"
  BY <1>2, <1>4 DEF Strobing
<1>7. (hw.armed <=> RingFed(Running))' /\ (active # "Epp" => ~awaiting)'
  BY <1>2 DEF LinesInv
<1>8. (host # "idle" \/ active # "SppNibble" => Settled)'
  BY <1>4
<1>9. (pins["strobe"] = IF Strobing THEN 0 ELSE 1)'
  BY <1>5, <1>6
<1>10. (pins["autofd"] = IF Asking \/ host = "read" \/ (host = "write" /\ active = "Epp")
                        THEN 0 ELSE 1)'
  BY <1>2, <1>4, <1>5
<1> QED
  BY <1>3, <1>7, <1>8, <1>9, <1>10 DEF LinesInv

LEMMA SwitchKeepsLines ==
  ASSUME MuxInv, NegInv, HostQuiet, LinesInv, (\E t \in Targets : CallSwitch(t)) \/ CompleteSwitch, MuxInv'
  PROVE  LinesInv'
<1>1. Lines \subseteq DOMAIN pins
  BY DEF NegInv, NegShape
<1>2. host = "idle" /\ Settled
  BY DEF CallSwitch, CompleteSwitch, FinishSwitch, HostQuiet, LinesInv
<1>3. /\ neg' = neg /\ peer' = peer /\ host' = host /\ acked' = acked /\ awaiting' = awaiting
  BY DEF CallSwitch, CompleteSwitch, negVars, hostVars
<1>4. pins'["strobe"] = pins["strobe"] /\ pins'["autofd"] = pins["autofd"]
  <2>1. PhyTarget(target) \in Phys
    BY PhyTargetIsPhy DEF MuxInv, MuxTypeOK
  <2>2. HostDriven(pins, Onto(Levels(PhyTarget(target)), pins))
    BY <1>1, <2>1, LevelsKeep
  <2>3. pins' = pins \/ pins' = Onto(Levels(PhyTarget(target)), pins)
    BY DEF CallSwitch, CompleteSwitch
  <2> QED
    BY <2>2, <2>3 DEF HostDriven, Lines
<1>5. (Settled' <=> Settled) /\ (Strobing' <=> Strobing) /\ (Asking' <=> Asking)
  BY <1>3 DEF Settled, Negotiating, Strobing, Asking
<1>6. acked = <<>> /\ ~awaiting
  <2>1. acked = <<>>
    BY <1>2 DEF LinesInv
  <2>2. ~awaiting
    BY DEF CallSwitch, CompleteSwitch, FinishSwitch, LinesInv
  <2> QED
    BY <2>1, <2>2
<1>7. (hw.armed <=> RingFed(Running))'
  <2>1. CASE \E t \in Targets : CallSwitch(t)
    <3>1. active \in Phys /\ active' = "None" /\ leaving' = active /\ hw' = BeforeDrain(active, hw)
      BY <2>1 DEF CallSwitch, BeginSwitch
    <3>2. hw'.armed = hw.armed
      BY <3>1 DEF BeforeDrain
    <3>3. Running' = active /\ Running = active
      BY <3>1 DEF Running, Phys
    <3> QED
      BY <3>2, <3>3 DEF LinesInv
  <2>2. CASE CompleteSwitch
    <3>1. active' \in {PhyTarget(target), "Panicked"} /\ PhyTarget(target) \in Phys
      BY <2>2, PhyTargetIsPhy DEF CompleteSwitch, FinishSwitch, MuxInv, MuxTypeOK
    <3>2. active' \in Phys
      BY <3>1 DEF MuxInv, Conserved
    <3>3. Running' = active'
      BY <3>2 DEF Running, Phys
    <3> QED
      BY <3>2, <3>3 DEF MuxInv, PinsFollowMode
  <2> QED
    BY <2>1, <2>2
<1>8. (pins["strobe"] = IF Strobing THEN 0 ELSE 1)'
  BY <1>4, <1>5 DEF LinesInv
<1>9. (pins["autofd"] = IF Asking \/ host = "read" \/ (host = "write" /\ active = "Epp")
                        THEN 0 ELSE 1)'
  BY <1>2, <1>3, <1>4, <1>5 DEF LinesInv
<1>10. (host # "idle" \/ active # "SppNibble" => Settled)' /\ (active # "Epp" => ~awaiting)'
       /\ (host = "idle" => acked = <<>>)' /\ (Running # "Epp" => acked \in {<<>>, <<Floating>>})'
  BY <1>2, <1>3, <1>5, <1>6
<1> QED
  BY <1>7, <1>8, <1>9, <1>10 DEF LinesInv

LEMMA NegotiationKeepsLines ==
  ASSUME NegInv, HostQuiet, LinesInv, Negotiation PROVE LinesInv'
<1>1. ~Settled /\ active = "SppNibble" /\ host = "idle"
  BY SettledEnds DEF LinesInv
<1>2. /\ active' = active /\ hw' = hw /\ host' = host /\ acked' = acked /\ awaiting' = awaiting
      /\ (Running = Running')
  BY DEF Negotiation, muxVars, phyVars, hostVars, Running
<1>3. /\ pins'["strobe"] = (IF Strobing' THEN 0 ELSE 1)
      /\ pins'["autofd"] = IF Asking' THEN 0 ELSE 1
  <2>1. /\ pins["strobe"] = (IF peer.pc = "strobing" THEN 0 ELSE 1)
        /\ pins["autofd"] = (IF Asking THEN 0 ELSE 1)
        /\ (Strobing' <=> peer'.pc = "strobing")
        /\ Lines \subseteq DOMAIN pins /\ "pc" \in DOMAIN peer
    BY <1>1, <1>2 DEF LinesInv, Strobing, NegInv, NegShape
  <2>2. CASE NegotiatorStep
    <3>1. pins' = pins /\ peer' = peer
      BY <2>2 DEF NegotiatorStep, DetectStart, ClaimStatusPins, DriveStatus, StrobeLow, StrobeHigh,
                  AutoFdReleased, NegTimeout, ReleaseStatusPins
    <3> QED
      BY <2>1, <3>1 DEF Asking
  <2>3. CASE Request
    BY <2>1, <2>3 DEF Request, Asking, Lines
  <2>4. CASE Strobe
    BY <2>1, <2>4 DEF Strobe, Asking, Lines
  <2>5. CASE EndStrobe
    BY <2>1, <2>5 DEF EndStrobe, Asking, Lines
  <2>6. CASE ReadVerdict
    BY <2>1, <2>6 DEF ReadVerdict, Asking, Lines
  <2>7. CASE GiveUp
    BY <2>1, <2>7 DEF GiveUp, Asking, Lines
  <2> QED
    BY <2>2, <2>3, <2>4, <2>5, <2>6, <2>7 DEF Negotiation, PeerStep
<1> QED
  BY <1>1, <1>2, <1>3 DEF LinesInv

LEMMA LinesStep ==
  ASSUME MuxInv, NegInv, HostQuiet, LinesInv, Next, MuxInv' PROVE LinesInv'
  BY PortKeepsLines, HostKeepsLines, SwitchKeepsLines, NegotiationKeepsLines DEF Next

-----------------------------------------------------------------------------
(* The programs, and what a state machine and the sequences are made of.   *)

(* A machine between two instructions.                                     *)
Is(m, pc, x, osr, isr, tx, rx) ==
    /\ Machine(m) /\ m.pc = pc /\ m.delay = 0 /\ m.x = x /\ m.osr = osr /\ m.isr = isr
    /\ m.tx = tx /\ m.rx = rx

LEMMA WholeEnds ==
  ASSUME NEW n, Machine(n), n.delay \in 0 .. 9, NEW q, NEW c, c = [sm |-> n, pins |-> q]
  PROVE  /\ Is(Whole(c, Forever).sm, n.pc, n.x, n.osr, n.isr, n.tx, n.rx)
         /\ Whole(c, Forever).pins = q
<1>1. ASSUME NEW k, k = [n EXCEPT !.delay = 0]
      PROVE  Is(k, n.pc, n.x, n.osr, n.isr, n.tx, n.rx)
  BY <1>1 DEF Is, Machine
<1>2. c.sm = n /\ c.pins = q
  OBVIOUS
<1>3. Whole(c, Forever) = [c EXCEPT !.sm = [n EXCEPT !.delay = 0]]
  BY <1>2 DEF Whole, Forever
<1>4. Whole(c, Forever).sm = [n EXCEPT !.delay = 0] /\ Whole(c, Forever).pins = q
  BY <1>3
<1> QED
  BY <1>1, <1>4

LEMMA Runs ==
  ASSUME NEW cfg, NEW m, Machine(m), m.delay = 0, NEW p,
         NEW i, i = Instruction(cfg, m), i.delay \in 0 .. 9,
         NEW w, w = Whole(Cycle(cfg, m, p), Forever),
         NEW r, r = Registers(cfg, i, m, p),
         NEW next, next = IF Jumps(i, m) THEN i.to ELSE IF m.pc = Len(cfg.prog) THEN 1 ELSE m.pc + 1
  PROVE  /\ Stalled(cfg, m, p) =>
              /\ Is(w.sm, m.pc, m.x, m.osr, m.isr, m.tx, m.rx)
              /\ w.pins = Onto(Sided(cfg, i), p)
         /\ ~Stalled(cfg, m, p) /\ Machine(r) =>
              /\ Is(w.sm, next, r.x, r.osr, r.isr, r.tx, r.rx)
              /\ w.pins = Onto(Driven(cfg, i, m, p), Onto(Sided(cfg, i), p))
<1> DEFINE q == Onto(Sided(cfg, i), p)
           d == Onto(Driven(cfg, i, m, p), q)
           n == [r EXCEPT !.pc = next, !.delay = i.delay]
<1>1. CASE Stalled(cfg, m, p)
  <2>1. Cycle(cfg, m, p) = [sm |-> m, pins |-> q]
    BY <1>1 DEF Cycle
  <2> HIDE DEF q
  <2>2. Is(w.sm, m.pc, m.x, m.osr, m.isr, m.tx, m.rx) /\ w.pins = q
    BY <2>1, WholeEnds
  <2> QED
    BY <1>1, <2>2 DEF q
<1>2. CASE ~Stalled(cfg, m, p)
  <2> SUFFICES ASSUME Machine(r)
               PROVE  Is(w.sm, next, r.x, r.osr, r.isr, r.tx, r.rx) /\ w.pins = d
    BY <1>2
  <2>1. Cycle(cfg, m, p) = [sm |-> n, pins |-> d]
    BY <1>2 DEF Cycle
  <2>2. /\ Machine(n) /\ n.delay = i.delay /\ n.pc = next /\ n.x = r.x /\ n.osr = r.osr
        /\ n.isr = r.isr /\ n.tx = r.tx /\ n.rx = r.rx
    <3>1. ASSUME NEW k, k = [r EXCEPT !.pc = next, !.delay = i.delay]
          PROVE  /\ Machine(k) /\ k.delay = i.delay /\ k.pc = next /\ k.x = r.x /\ k.osr = r.osr
                 /\ k.isr = r.isr /\ k.tx = r.tx /\ k.rx = r.rx
      BY <3>1 DEF Machine
    <3> HIDE DEF n
    <3>2. n = [r EXCEPT !.pc = next, !.delay = i.delay]
      BY DEF n
    <3> QED
      BY <3>1, <3>2
  <2> HIDE DEF n, d, q
  <2>3. Is(w.sm, n.pc, n.x, n.osr, n.isr, n.tx, n.rx) /\ w.pins = d
    BY <2>1, <2>2, WholeEnds
  <2> QED
    BY <2>2, <2>3
<1> QED
  BY <1>1, <1>2

(* The program of EPP: each instruction, and the level of nWait with it.   *)
LEMMA SideIs ==
  ASSUME NEW i, NEW level
  PROVE  /\ "side" \in DOMAIN Side(i, level) /\ Side(i, level).side = level
         /\ \A f \in DOMAIN i \ {"side"} : Side(i, level)[f] = i[f]
  BY DEF Side

LEMMA EppProgram ==
  /\ Len(Epp) = 14
  /\ Epp[1] = Side(Pull, 1) /\ Epp[2] = Side(Out("x", 1), 1) /\ Epp[3] = Side(Out("null", 23), 1)
  /\ Epp[4] = Side(Jmp("!x", 10), 1)
  /\ Epp[5] = Side(Out("pins", 8), 1) /\ Epp[6] = Side(Wait(0, "autofd"), 1)
  /\ Epp[7] = Side(Nop(4), 0) /\ Epp[8] = Side(Wait(1, "autofd"), 1)
  /\ Epp[9] = Side(Jmp("always", 1), 1)
  /\ Epp[10] = Side(Wait(0, "autofd"), 1) /\ Epp[11] = Side(In, 0)
  /\ Epp[12] = Side(Push, 0) /\ Epp[13] = Side(Wait(1, "autofd"), 0)
  /\ Epp[14] = Side(Jmp("always", 1), 1)
<1> HIDE DEF Side
<1>1. /\ Len(EppReverse) = 5 /\ 5 + Len(EppReverse) = 10
  BY DEF EppReverse
<1> QED
  BY <1>1 DEF Epp, EppReverse, EppForward

(* The same, field by field.                                               *)
LEMMA EppFields ==
  /\ Epp[1].op = "pull" /\ Epp[1].delay = 0
  /\ Epp[2].op = "out" /\ Epp[2].to = "x" /\ Epp[2].n = 1 /\ Epp[2].delay = 0
  /\ Epp[3].op = "out" /\ Epp[3].to = "null" /\ Epp[3].n = 23 /\ Epp[3].delay = 0
  /\ Epp[4].op = "jmp" /\ Epp[4].when = "!x" /\ Epp[4].to = 10 /\ Epp[4].delay = 0
  /\ Epp[5].op = "out" /\ Epp[5].to = "pins" /\ Epp[5].n = 8 /\ Epp[5].delay = 0
  /\ Epp[6].op = "wait" /\ Epp[6].v = 0 /\ Epp[6].pin = "autofd" /\ Epp[6].delay = 0
  /\ Epp[7].op = "nop" /\ Epp[7].delay = 4
  /\ Epp[8].op = "wait" /\ Epp[8].v = 1 /\ Epp[8].pin = "autofd" /\ Epp[8].delay = 0
  /\ Epp[9].op = "jmp" /\ Epp[9].when = "always" /\ Epp[9].to = 1 /\ Epp[9].delay = 0
  /\ Epp[10].op = "wait" /\ Epp[10].v = 0 /\ Epp[10].pin = "autofd" /\ Epp[10].delay = 0
  /\ Epp[11].op = "in" /\ Epp[11].delay = 0
  /\ Epp[12].op = "push" /\ Epp[12].delay = 0
  /\ Epp[13].op = "wait" /\ Epp[13].v = 1 /\ Epp[13].pin = "autofd" /\ Epp[13].delay = 0
  /\ Epp[14].op = "jmp" /\ Epp[14].when = "always" /\ Epp[14].to = 1 /\ Epp[14].delay = 0
<1> DEFINE Pulls(i)       == i.op = "pull" /\ i.delay = 0
           Outs(i, to, n) == i.op = "out" /\ i.to = to /\ i.n = n /\ i.delay = 0
           Jumping(i, c, to) == i.op = "jmp" /\ i.when = c /\ i.to = to /\ i.delay = 0
           Waiting0(i, v) == i.op = "wait" /\ i.v = v /\ i.pin = "autofd" /\ i.delay = 0
<1>1. Pulls(Side(Pull, 1))
  BY SideIs DEF Pull
<1>2. \A to, n : Outs(Side(Out(to, n), 1), to, n)
  BY SideIs DEF Out
<1>3. \A c, to : Jumping(Side(Jmp(c, to), 1), c, to)
  BY SideIs DEF Jmp
<1>4. \A v, s : Waiting0(Side(Wait(v, "autofd"), s), v)
  BY SideIs DEF Wait
<1>5. Side(Nop(4), 0).op = "nop" /\ Side(Nop(4), 0).delay = 4
  BY SideIs DEF Nop
<1>6. /\ Side(In, 0).op = "in" /\ Side(In, 0).delay = 0
      /\ Side(Push, 0).op = "push" /\ Side(Push, 0).delay = 0
  BY SideIs DEF In, Push
<1>7. Pulls(Epp[1])
  BY <1>1, EppProgram
<1>8. Outs(Epp[2], "x", 1) /\ Outs(Epp[3], "null", 23) /\ Outs(Epp[5], "pins", 8)
  <2> HIDE DEF Outs
  <2> QED
    BY <1>2, EppProgram
<1>9. Jumping(Epp[4], "!x", 10) /\ Jumping(Epp[9], "always", 1) /\ Jumping(Epp[14], "always", 1)
  <2> HIDE DEF Jumping
  <2> QED
    BY <1>3, EppProgram
<1>10. Waiting0(Epp[6], 0) /\ Waiting0(Epp[8], 1) /\ Waiting0(Epp[10], 0) /\ Waiting0(Epp[13], 1)
  <2> HIDE DEF Waiting0
  <2> QED
    BY <1>4, EppProgram
<1> QED
  BY <1>5, <1>6, <1>7, <1>8, <1>9, <1>10, EppProgram

LEMMA EppSides ==
  \A k \in 1 .. 14 : /\ "side" \in DOMAIN Epp[k]
                     /\ Epp[k].side = IF k \in {7, 11, 12, 13} THEN 0 ELSE 1
  BY EppProgram, SideIs

LEMMA EppConfigIs ==
  /\ EppConfig.prog = Epp /\ EppConfig.in = <<"d">> /\ EppConfig.out = "data" /\ EppConfig.set = "data"
  /\ EppConfig.side = "busy" /\ EppConfig.autopush = FALSE /\ EppConfig.depth = FifoDepth
<1>1. Epp # CompatIn
  <2>1. Len(Epp) = 14 /\ Len(CompatIn) = 3
    BY EppProgram DEF CompatIn
  <2> QED
    BY <2>1
<1> QED
  BY <1>1 DEF EppConfig, Config

LEMMA EppOps ==
  \A k \in 1 .. 14 :
    /\ (Epp[k].op = "pull") <=> k = 1
    /\ (Epp[k].op = "push") <=> k = 12
    /\ (Epp[k].op = "wait") <=> k \in {6, 8, 10, 13}
    /\ (Epp[k].op = "jmp") <=> k \in {4, 9, 14}
    /\ (Epp[k].op = "out") <=> k \in {2, 3, 5}
    /\ (Epp[k].op = "in") <=> k = 11
    /\ Epp[k].op \notin {"set", "mov"}
    /\ k \in {6, 10} => Epp[k].pin = "autofd" /\ Epp[k].v = 0
    /\ k \in {8, 13} => Epp[k].pin = "autofd" /\ Epp[k].v = 1
    /\ k \in {9, 14} => Epp[k].when = "always" /\ Epp[k].to = 1
    /\ k = 4 => Epp[k].when = "!x" /\ Epp[k].to = 10
    /\ k = 2 => Epp[k].to = "x" /\ Epp[k].n = 1
    /\ k = 3 => Epp[k].to = "null" /\ Epp[k].n = 23
    /\ k = 5 => Epp[k].to = "pins" /\ Epp[k].n = 8
<1> SUFFICES ASSUME NEW k \in 1 .. 14
             PROVE  /\ (Epp[k].op = "pull") <=> k = 1
                    /\ (Epp[k].op = "push") <=> k = 12
                    /\ (Epp[k].op = "wait") <=> k \in {6, 8, 10, 13}
                    /\ (Epp[k].op = "jmp") <=> k \in {4, 9, 14}
                    /\ (Epp[k].op = "out") <=> k \in {2, 3, 5}
                    /\ (Epp[k].op = "in") <=> k = 11
                    /\ Epp[k].op \notin {"set", "mov"}
  BY EppFields
<1>1. CASE k \in {1, 12, 11, 7}
  BY <1>1, EppFields
<1>2. CASE k \in {6, 8, 10, 13}
  BY <1>2, EppFields
<1>3. CASE k \in {4, 9, 14}
  BY <1>3, EppFields
<1>4. CASE k \in {2, 3, 5}
  BY <1>4, EppFields
<1>5. k \in {1, 12, 11, 7} \/ k \in {6, 8, 10, 13} \/ k \in {4, 9, 14} \/ k \in {2, 3, 5}
  OBVIOUS
<1> QED
  BY <1>1, <1>2, <1>3, <1>4, <1>5

(* The programs of sm0: how long they are and what their instructions do.  *)
LEMMA CompatProgram ==
  /\ CompatInConfig.prog = CompatIn /\ Len(CompatIn) = 3
  /\ CompatIn[1] = Wait(0, "strobe") /\ CompatIn[2] = In /\ CompatIn[3] = Wait(1, "strobe")
  /\ CompatInConfig.autopush = TRUE /\ CompatInConfig.depth = 2 * FifoDepth
  /\ CompatInConfig.in = <<"strobe", "d">>
<1>1. /\ Len(CompatIn) = 3
      /\ CompatIn[1] = Wait(0, "strobe") /\ CompatIn[2] = In /\ CompatIn[3] = Wait(1, "strobe")
  BY DEF CompatIn
<1>2. /\ CompatInConfig.prog = CompatIn /\ CompatInConfig.autopush = TRUE
      /\ CompatInConfig.depth = 2 * FifoDepth /\ CompatInConfig.in = <<"strobe", "d">>
  BY DEF CompatInConfig, Config
<1> QED
  BY <1>1, <1>2

LEMMA EcpProgram ==
  /\ EcpFwdConfig.prog = EcpFwd /\ Len(EcpFwd) = 5
  /\ EcpFwd[1] = Side(Wait(0, "strobe"), 1) /\ EcpFwd[2] = Side(In, 1)
  /\ EcpFwd[3] = Side(Nop(2), 0) /\ EcpFwd[4] = Side(Push, 0) /\ EcpFwd[5] = Side(Wait(1, "strobe"), 1)
  /\ EcpFwdConfig.autopush = FALSE
<1>1. /\ Len(EcpFwd) = 5
      /\ EcpFwd[1] = Side(Wait(0, "strobe"), 1) /\ EcpFwd[2] = Side(In, 1)
      /\ EcpFwd[3] = Side(Nop(2), 0) /\ EcpFwd[4] = Side(Push, 0)
      /\ EcpFwd[5] = Side(Wait(1, "strobe"), 1)
  <2> HIDE DEF Side
  <2> QED
    BY DEF EcpFwd
<1>2. EcpFwdConfig.prog = EcpFwd /\ EcpFwdConfig.autopush = FALSE
  <2>1. EcpFwd # CompatIn
    BY <1>1, CompatProgram
  <2> QED
    BY <2>1 DEF EcpFwdConfig, Config
<1> QED
  BY <1>1, <1>2

LEMMA EcpFields ==
  /\ EcpFwd[1].op = "wait" /\ EcpFwd[1].delay = 0 /\ EcpFwd[2].op = "in" /\ EcpFwd[2].delay = 0
  /\ EcpFwd[3].op = "nop" /\ EcpFwd[3].delay = 2 /\ EcpFwd[4].op = "push" /\ EcpFwd[4].delay = 0
  /\ EcpFwd[5].op = "wait" /\ EcpFwd[5].delay = 0
<1> DEFINE Fields(i, op, d) == i.op = op /\ i.delay = d
<1>1. \A v : Fields(Side(Wait(v, "strobe"), 1), "wait", 0)
  BY SideIs DEF Wait
<1>2. Fields(Side(In, 1), "in", 0) /\ Fields(Side(Nop(2), 0), "nop", 2) /\ Fields(Side(Push, 0), "push", 0)
  BY SideIs DEF In, Nop, Push
<1> HIDE DEF Fields
<1>3. /\ Fields(EcpFwd[1], "wait", 0) /\ Fields(EcpFwd[2], "in", 0) /\ Fields(EcpFwd[3], "nop", 2)
      /\ Fields(EcpFwd[4], "push", 0) /\ Fields(EcpFwd[5], "wait", 0)
  BY <1>1, <1>2, EcpProgram
<1> QED
  BY <1>3 DEF Fields

LEMMA ReceiverIs ==
  ASSUME Running \in Phys
  PROVE  /\ Running \in {"SppNibble", "Byte"} => Cfg.sm0 = CompatInConfig /\ Len(Cfg.sm0.prog) = 3
         /\ Running = "Epp" => Cfg.sm0 = EppConfig /\ Len(Cfg.sm0.prog) = 14
         /\ Running = "Ecp" => Cfg.sm0 = EcpFwdConfig /\ Len(Cfg.sm0.prog) = 5
<1>1. /\ Running \in {"SppNibble", "Byte"} => Cfg.sm0 = CompatInConfig
      /\ Running = "Epp" => Cfg.sm0 = EppConfig
      /\ Running = "Ecp" => Cfg.sm0 = EcpFwdConfig
  BY DEF Cfg, Configs
<1> QED
  BY <1>1, CompatProgram, EcpProgram, EppProgram, EppConfigIs

(* Whatever an instruction of theirs does to the registers, they are a     *)
(* machine's, and where it goes on is in the program.                      *)
LEMMA ReceiverSteps ==
  ASSUME NEW m, Machine(m), NEW p, Running \in Phys, m.pc \in 1 .. Len(Cfg.sm0.prog),
         NEW i, i = Instruction(Cfg.sm0, m)
  PROVE  /\ Machine(Registers(Cfg.sm0, i, m, p)) /\ i.delay \in 0 .. 9
         /\ Jumps(i, m) => i.to \in 1 .. Len(Cfg.sm0.prog)
<1>1. CASE Running = "Epp"
  <2>1. m.pc \in 1 .. 14 /\ i = Epp[m.pc] /\ Cfg.sm0 = EppConfig /\ Len(Cfg.sm0.prog) = 14
    BY <1>1, ReceiverIs, EppConfigIs DEF Instruction
  <2>2. i.delay \in 0 .. 9
    BY <2>1, EppFields
  <2>3. Jumps(i, m) => i.to \in 1 .. 14
    BY <2>1, EppOps DEF Jumps
  <2>4. Machine(Registers(EppConfig, i, m, p))
    <3>1. i.op \in {"pull", "push", "out", "jmp", "wait", "nop", "in"} /\ (i.op = "jmp" => i.when # "y--")
      BY <2>1, EppFields
    <3> DEFINE a == Head(m.tx)
               b == Tail(m.tx)
               c == Append(m.rx, m.isr)
               d == IF i.to = "x" THEN Taken(m.osr, i.n) ELSE m.x
               e == SubSeq(m.osr, i.n + 1, Len(m.osr))
               f == Window(EppConfig, p)
               g == IF EppConfig.autopush THEN Append(m.rx, Window(EppConfig, p)) ELSE m.rx
    <3>2. Registers(EppConfig, i, m, p) \in
            {[m EXCEPT !.osr = a, !.tx = b], [m EXCEPT !.rx = c], [m EXCEPT !.x = d, !.osr = e],
             [m EXCEPT !.isr = f, !.rx = g], m}
      BY <3>1 DEF Registers
    <3> HIDE DEF a, b, c, d, e, f, g
    <3>3. ASSUME NEW k, k \in {[m EXCEPT !.osr = a, !.tx = b], [m EXCEPT !.rx = c],
                               [m EXCEPT !.x = d, !.osr = e], [m EXCEPT !.isr = f, !.rx = g], m}
          PROVE  Machine(k)
      BY <3>3 DEF Machine
    <3> QED
      BY <3>2, <3>3
  <2> QED
    BY <2>1, <2>2, <2>3, <2>4
<1>2. CASE Running # "Epp"
  <2>1. i.op \in {"wait", "in", "nop", "push"} /\ i.delay \in 0 .. 9
    <3>1. CASE Running \in {"SppNibble", "Byte"}
      <4>1. m.pc \in 1 .. 3 /\ i = CompatIn[m.pc]
        BY <3>1, ReceiverIs, CompatProgram DEF Instruction
      <4> QED
        BY <4>1, CompatProgram DEF Wait, In
    <3>2. CASE Running = "Ecp"
      <4>1. m.pc \in 1 .. 5 /\ i = EcpFwd[m.pc]
        BY <3>2, ReceiverIs, EcpProgram DEF Instruction
      <4> QED
        BY <4>1, EcpFields
    <3> QED
      BY <1>2, <3>1, <3>2 DEF Phys
  <2> DEFINE c == Append(m.rx, m.isr)
             f == Window(Cfg.sm0, p)
             g == IF Cfg.sm0.autopush THEN Append(m.rx, Window(Cfg.sm0, p)) ELSE m.rx
  <2>2. Registers(Cfg.sm0, i, m, p) \in {[m EXCEPT !.rx = c], [m EXCEPT !.isr = f, !.rx = g], m}
    BY <2>1 DEF Registers
  <2> HIDE DEF c, f, g
  <2>3. ASSUME NEW k, k \in {[m EXCEPT !.rx = c], [m EXCEPT !.isr = f, !.rx = g], m} PROVE Machine(k)
    BY <2>3 DEF Machine
  <2>4. ~Jumps(i, m)
    BY <2>1 DEF Jumps
  <2> QED
    BY <2>1, <2>2, <2>3, <2>4
<1> QED
  BY <1>1, <1>2

(* RunSm0, without what it samples: the machine after it, and the ring.    *)
LEMMA Sm0Runs ==
  ASSUME RunSm0, Running \in Phys, Machine(sm0), sm0.delay = 0, sm0.pc \in 1 .. Len(Cfg.sm0.prog)
  PROVE  /\ Machine(sm0') /\ sm0'.delay = 0 /\ sm0'.pc \in 1 .. Len(Cfg.sm0.prog)
         /\ ring' = ring \/ ring' = <<>> \/ \E w : ring' = Append(ring, w)
<1> DEFINE p == [pins EXCEPT !["d"] = DataRead]
           w == Whole(Cycle(Cfg.sm0, sm0, p), Forever)
           i == Instruction(Cfg.sm0, sm0)
           r == Registers(Cfg.sm0, i, sm0, p)
           len == Len(Cfg.sm0.prog)
           next == IF Jumps(i, sm0) THEN i.to ELSE IF sm0.pc = len THEN 1 ELSE sm0.pc + 1
           toRing == hw.armed /\ w.sm.rx # <<>>
<1>1. /\ i = Instruction(Cfg.sm0, sm0) /\ w = Whole(Cycle(Cfg.sm0, sm0, p), Forever)
      /\ r = Registers(Cfg.sm0, i, sm0, p)
      /\ next = IF Jumps(i, sm0) THEN i.to ELSE IF sm0.pc = Len(Cfg.sm0.prog) THEN 1 ELSE sm0.pc + 1
  OBVIOUS
<1>2. /\ sm0' = IF toRing THEN [w.sm EXCEPT !.rx = <<>>] ELSE w.sm
      /\ ring' = IF toRing THEN Ringed(Head(w.sm.rx)) ELSE ring
  BY DEF RunSm0
<1> HIDE DEF w, r, p, i
<1>3. Machine(r) /\ i.delay \in 0 .. 9 /\ (Jumps(i, sm0) => i.to \in 1 .. len)
  BY <1>1, ReceiverSteps
<1>4. next \in 1 .. len
  <2>1. len \in {3, 5, 14}
    BY ReceiverIs DEF Phys
  <2> HIDE DEF len
  <2>2. sm0.pc \in 1 .. len
    BY DEF len
  <2> QED
    BY <1>3, <2>1, <2>2
<1> HIDE DEF next
<1>5. \/ Is(w.sm, sm0.pc, sm0.x, sm0.osr, sm0.isr, sm0.tx, sm0.rx)
      \/ Is(w.sm, next, r.x, r.osr, r.isr, r.tx, r.rx)
  BY <1>1, <1>3, Runs, SMTT(60)
<1>6. Machine(w.sm) /\ w.sm.delay = 0 /\ w.sm.pc \in 1 .. len
  BY <1>4, <1>5 DEF Is
<1> HIDE DEF toRing
<1>7. Machine(sm0') /\ sm0'.delay = 0 /\ sm0'.pc \in 1 .. len
  <2>1. ASSUME NEW k, k \in {[w.sm EXCEPT !.rx = <<>>], w.sm}
        PROVE  Machine(k) /\ k.delay = 0 /\ k.pc \in 1 .. len
    BY <1>6, <2>1 DEF Machine
  <2> QED
    BY <1>2, <2>1
<1>8. ring' = ring \/ ring' = <<>> \/ \E u : ring' = Append(ring, u)
  BY <1>2 DEF Ringed
<1> QED
  BY <1>7, <1>8

LEMMA ExceptMachine ==
  ASSUME NEW m, Machine(m), NEW k, \E v : k \in {[m EXCEPT !.tx = v], [m EXCEPT !.rx = v]}
  PROVE  Machine(k) /\ k.delay = m.delay /\ k.pc = m.pc
  BY DEF Machine

LEMMA SentByte ==
  ASSUME SendByte
  PROVE  /\ Bytes[Len(rev) + 1] \in Byte \/ rev \notin Seq(Byte)
         /\ rev' = Append(rev, Bytes[Len(rev) + 1])
<1>1. Len(rev) < Len(Bytes) /\ rev' = Append(rev, Bytes[Len(rev) + 1])
  BY DEF SendByte
<1>2. ASSUME rev \in Seq(Byte) PROVE Bytes[Len(rev) + 1] \in Byte
  <2>1. Bytes \in Seq(Byte) /\ Len(rev) \in Nat
    BY <1>2, PortAssumption, LenProperties
  <2> QED
    BY <1>1, <2>1
<1> QED
  BY <1>1, <1>2

LEMMA ConfiguredIs ==
  ASSUME NEW old, NEW cfg, NEW m
  PROVE  LET c == Configured(old, cfg, m)
         IN /\ Machine(c) /\ c.pc = 1 /\ c.delay = 0
            /\ c.tx = IF old.join = cfg.join THEN m.tx ELSE <<>>
            /\ c.rx = IF old.join = cfg.join THEN m.rx ELSE <<>>
<1> DEFINE a == IF old.join = cfg.join THEN m.tx ELSE <<>>
           b == IF old.join = cfg.join THEN m.rx ELSE <<>>
           c == Configured(old, cfg, m)
<1>1. c = [Idle EXCEPT !.tx = a, !.rx = b]
  BY DEF Configured
<1> HIDE DEF a, b, c
<1>2. ASSUME NEW k, k = [Idle EXCEPT !.tx = a, !.rx = b]
      PROVE  Machine(k) /\ k.pc = 1 /\ k.delay = 0 /\ k.tx = a /\ k.rx = b
  BY <1>2 DEF Idle, Machine
<1>3. Machine(c) /\ c.pc = 1 /\ c.delay = 0 /\ c.tx = a /\ c.rx = b
  BY <1>1, <1>2
<1> QED
  BY <1>3 DEF a, b, c

LEMMA BuiltIs ==
  ASSUME MuxInv, CompleteSwitch, MuxInv'
  PROVE  /\ active' \in Phys /\ Running' = active' /\ active' = PhyTarget(target)
         /\ Running \in Phys /\ active = "None" /\ Running = leaving
<1>1. active' \in {PhyTarget(target), "Panicked"} /\ PhyTarget(target) \in Phys
  BY PhyTargetIsPhy DEF CompleteSwitch, FinishSwitch, MuxInv, MuxTypeOK
<1>2. active' \in Phys /\ active' = PhyTarget(target)
  BY <1>1 DEF MuxInv, Conserved
<1>3. Running' = active'
  BY <1>2 DEF Running, Phys
<1>4. active = "None"
  BY DEF CompleteSwitch, FinishSwitch
<1>5. Running = leaving /\ leaving \in Phys
  BY <1>4 DEF Running, MuxInv, MuxTypeOK
<1> QED
  BY <1>2, <1>3, <1>4, <1>5

LEMMA BytesStep ==
  ASSUME MuxInv, BytesInv, Next, MuxInv' PROVE BytesInv'
<1>0. /\ rev \in Seq(Byte) /\ Listed(written) /\ Listed(taken) /\ Listed(ring)
      /\ Running # "SppNibble" => Listed(got)
      /\ Machine(sm0) /\ sm0.delay = 0 /\ sm0.pc \in 1 .. Len(Cfg.sm0.prog)
  BY DEF BytesInv
<1>1. CASE RunSm0
  <2>1. UNCHANGED <<active, leaving, rev, written, taken, got>> /\ active \in Phys \cup {"None"}
    BY <1>1 DEF RunSm0, muxVars
  <2>2. Running' = Running /\ Running \in Phys
    BY <2>1, RunningIsPhy DEF Running
  <2>3. Machine(sm0') /\ sm0'.delay = 0 /\ sm0'.pc \in 1 .. Len(Cfg.sm0.prog)
        /\ (ring' = ring \/ ring' = <<>> \/ \E w : ring' = Append(ring, w))
    BY <1>0, <1>1, <2>2, Sm0Runs
  <2>4. Listed(ring')
    BY <1>0, <2>3, ListedChanged
  <2>5. Cfg' = Cfg
    BY <2>2 DEF Cfg
  <2> QED
    BY <1>0, <2>1, <2>2, <2>3, <2>4, <2>5 DEF BytesInv
<1>2. CASE RunSm1
  <2>1. UNCHANGED <<active, leaving, rev, written, taken, ring, sm0>>
        /\ (Running # "SppNibble" => got' = got)
    BY <1>2 DEF RunSm1, muxVars
  <2>2. Running' = Running /\ Cfg' = Cfg
    BY <2>1 DEF Running, Cfg
  <2> QED
    BY <1>0, <2>1, <2>2 DEF BytesInv
<1>3. CASE SendByte
  <2>1. UNCHANGED <<active, leaving, written, taken, ring, got>>
        /\ (sm0' = sm0 \/ \E v : sm0' \in {[sm0 EXCEPT !.tx = v], [sm0 EXCEPT !.rx = v]})
    BY <1>3 DEF SendByte, muxVars
  <2>2. Running' = Running /\ Cfg' = Cfg
    BY <2>1 DEF Running, Cfg
  <2>3. Machine(sm0') /\ sm0'.delay = sm0.delay /\ sm0'.pc = sm0.pc
    BY <1>0, <2>1, ExceptMachine
  <2>4. rev' \in Seq(Byte)
    BY <1>0, <1>3, SentByte
  <2> QED
    BY <1>0, <2>1, <2>2, <2>3, <2>4 DEF BytesInv
<1>4. CASE AskForward \/ RecvFromRing \/ RecvFromFifo
  <2>1. UNCHANGED <<active, leaving, written, rev, got>>
    BY <1>4 DEF AskForward, RecvFromRing, RecvFromFifo, muxVars, history
  <2>2. Running' = Running /\ Cfg' = Cfg
    BY <2>1 DEF Running, Cfg
  <2>3. Machine(sm0') /\ sm0'.delay = sm0.delay /\ sm0'.pc = sm0.pc
    <3>1. sm0' = sm0 \/ \E v : sm0' \in {[sm0 EXCEPT !.tx = v], [sm0 EXCEPT !.rx = v]}
      BY <1>4 DEF AskForward, RecvFromRing, RecvFromFifo
    <3> QED
      BY <1>0, <3>1, ExceptMachine
  <2>4. Listed(taken')
    <3>1. taken' = taken \/ \E b : taken' = Append(taken, b)
      BY <1>4 DEF AskForward, RecvFromRing, RecvFromFifo, history
    <3> QED
      BY <1>0, <3>1, ListedChanged
  <2>5. Listed(ring')
    <3>1. ring' = ring \/ (ring # <<>> /\ ring' = Tail(ring))
      BY <1>4 DEF AskForward, RecvFromRing, RecvFromFifo
    <3> QED
      BY <1>0, <3>1, ListedChanged
  <2> QED
    BY <1>0, <2>1, <2>2, <2>3, <2>4, <2>5 DEF BytesInv
<1>5. CASE HostWrites \/ HostReads \/ HostEnds
  <2>1. UNCHANGED <<active, leaving, rev, taken, ring, sm0>>
    BY <1>5 DEF HostWrites, HostReads, HostEnds, muxVars, phyVars, history
  <2>2. Running' = Running /\ Cfg' = Cfg
    BY <2>1 DEF Running, Cfg
  <2>3. /\ written' = written \/ \E b : written' = Append(written, b)
        /\ got' = got \/ \E b : got' = Append(got, b)
    BY <1>5 DEF HostWrites, HostReads, HostEnds, history
  <2>4. Listed(written') /\ (Running # "SppNibble" => Listed(got'))
    BY <1>0, <2>3, ListedChanged
  <2> QED
    BY <1>0, <2>1, <2>2, <2>4 DEF BytesInv
<1>6. CASE \E t \in Targets : CallSwitch(t)
  <2>1. /\ UNCHANGED <<rev, written, taken, got, ring, sm0>>
        /\ active \in Phys /\ active' = "None" /\ leaving' = active
    BY <1>6 DEF CallSwitch, BeginSwitch, history
  <2>2. Running' = Running
    BY <2>1 DEF Running, Phys
  <2>3. Cfg' = Cfg
    BY <2>2 DEF Cfg
  <2> QED
    BY <1>0, <2>1, <2>2, <2>3 DEF BytesInv
<1>7. CASE CompleteSwitch
  <2>1. written' = <<>> /\ taken' = <<>> /\ rev' = <<>> /\ got' = <<>> /\ ring' = <<>>
        /\ sm0' = Configured(Cfg.sm0, Configs(PhyTarget(target)).sm0, sm0)
    BY <1>7 DEF CompleteSwitch
  <2>2. Machine(sm0') /\ sm0'.pc = 1 /\ sm0'.delay = 0
    BY <2>1, ConfiguredIs
  <2>3. 1 \in 1 .. Len(Cfg'.sm0.prog)
    <3>1. Running' = PhyTarget(target) /\ Running' \in Phys
      BY <1>7, BuiltIs
    <3>2. Cfg' = Configs(PhyTarget(target))
      BY <3>1 DEF Cfg
    <3>3. Cfg'.sm0 \in {CompatInConfig, EppConfig, EcpFwdConfig}
      BY <3>1, <3>2 DEF Configs, Phys
    <3>4. Len(Cfg'.sm0.prog) \in {3, 14, 5}
      BY <3>3, CompatProgram, EcpProgram, EppProgram, EppConfigIs
    <3>5. \A n \in {3, 14, 5} : 1 \in 1 .. n
      OBVIOUS
    <3> QED
      BY <3>4, <3>5, Zenon
  <2>4. rev' \in Seq(Byte)
    BY <2>1, EmptySeq
  <2> QED
    BY <2>1, <2>2, <2>3, <2>4, ListedNone DEF BytesInv
<1>8. CASE Negotiation
  <2>1. UNCHANGED <<active, leaving, rev, taken, got, ring, sm0>>
    BY <1>8 DEF Negotiation, muxVars, phyVars
  <2>2. Running' = Running /\ Cfg' = Cfg
    BY <2>1 DEF Running, Cfg
  <2>3. written' = written \/ \E b : written' = Append(written, b)
    BY <1>8 DEF Negotiation
  <2>4. Listed(written')
    BY <1>0, <2>3, ListedChanged
  <2> QED
    BY <1>0, <2>1, <2>2, <2>4 DEF BytesInv
<1> QED
  BY <1>1, <1>2, <1>3, <1>4, <1>5, <1>6, <1>7, <1>8 DEF Next

-----------------------------------------------------------------------------
(* compat_in.                                                              *)

(* One instruction of compat_in.                                           *)
LEMMA CompatStalls ==
  ASSUME NEW m, m.pc \in 1 .. 3, m.rx = <<>>, NEW p
  PROVE  Stalled(CompatInConfig, m, p) <=> \/ m.pc = 1 /\ p["strobe"] # 0
                                           \/ m.pc = 3 /\ p["strobe"] # 1
<1> DEFINE i == Instruction(CompatInConfig, m)
<1>1. i = CompatIn[m.pc] /\ i = Instruction(CompatInConfig, m)
  BY CompatProgram DEF Instruction
<1>2. /\ m.pc = 1 => i.op = "wait" /\ i.pin = "strobe" /\ i.v = 0
      /\ m.pc = 3 => i.op = "wait" /\ i.pin = "strobe" /\ i.v = 1
      /\ m.pc = 2 => i.op = "in"
  BY <1>1, CompatProgram DEF Wait, In
<1>3. ~(Len(m.rx) >= CompatInConfig.depth)
  <2>1. Len(<<>>) = 0 /\ 2 * FifoDepth \in Nat \ {0}
    BY PortAssumption
  <2>2. CompatInConfig.depth \in Nat \ {0}
    BY <2>1, CompatProgram
  <2> QED
    BY <2>1, <2>2
<1> HIDE DEF i
<1>4. ~(i.op = "pull" /\ m.tx = <<>>)
      /\ ~(Len(m.rx) >= CompatInConfig.depth
             /\ (i.op = "push" \/ (i.op = "in" /\ CompatInConfig.autopush)))
  BY <1>2, <1>3
<1>5. Stalled(CompatInConfig, m, p) <=> (i.op = "wait" /\ p[i.pin] # i.v)
  BY <1>1, <1>4, Zenon DEF Stalled
<1> QED
  BY <1>2, <1>5

LEMMA CompatRuns ==
  ASSUME NEW m, Machine(m), m.delay = 0, m.pc \in 1 .. 3, m.rx = <<>>, NEW p,
         NEW w, w = Whole(Cycle(CompatInConfig, m, p), Forever)
  PROVE  /\ m.pc = 1 => w.sm.pc = (IF p["strobe"] = 0 THEN 2 ELSE 1) /\ w.sm.rx = <<>>
         /\ m.pc = 3 => w.sm.pc = (IF p["strobe"] = 1 THEN 1 ELSE 3) /\ w.sm.rx = <<>>
         /\ m.pc = 2 => w.sm.pc = 3 /\ \E u : w.sm.rx = <<u>> /\ ByteOf(u) = p["d"]
<1> DEFINE i == Instruction(CompatInConfig, m)
           r == Registers(CompatInConfig, i, m, p)
           u == Window(CompatInConfig, p)
<1>1. i = CompatIn[m.pc] /\ CompatInConfig.autopush = TRUE /\ Len(CompatInConfig.prog) = 3
  BY CompatProgram DEF Instruction
<1>2. /\ m.pc = 1 => i.op = "wait" /\ i.pin = "strobe" /\ i.v = 0
      /\ m.pc = 3 => i.op = "wait" /\ i.pin = "strobe" /\ i.v = 1
      /\ m.pc = 2 => i.op = "in"
      /\ i.delay = 0
  BY <1>1, CompatProgram DEF Wait, In
<1>4. ~Jumps(i, m)
  BY <1>2 DEF Jumps
<1>5. Stalled(CompatInConfig, m, p) <=> \/ m.pc = 1 /\ p["strobe"] # 0
                                        \/ m.pc = 3 /\ p["strobe"] # 1
  BY CompatStalls
<1>6. /\ m.pc # 2 => r = m
      /\ m.pc = 2 => r = [m EXCEPT !.isr = u, !.rx = <<u>>]
  <2>1. r = Registers(CompatInConfig, i, m, p) /\ Append(<<>>, u) = <<u>>
    OBVIOUS
  <2>2. m.pc # 2 => i.op = "wait"
    BY <1>2
  <2> HIDE DEF i, r
  <2> QED
    BY <1>1, <1>2, <2>1, <2>2 DEF Registers
<1>7. Machine(r) /\ r.rx = IF m.pc = 2 THEN <<u>> ELSE <<>>
  <2> HIDE DEF r, u
  <2>1. ASSUME NEW k, k = [m EXCEPT !.isr = u, !.rx = <<u>>] PROVE Machine(k) /\ k.rx = <<u>>
    BY <2>1 DEF Machine
  <2> QED
    BY <1>6, <2>1
<1>8. ByteOf(u) = p["d"]
  <2>1. CompatInConfig.in = <<"strobe", "d">>
    BY CompatProgram
  <2>2. u = [k \in 1 .. 2 |-> p[<<"strobe", "d">>[k]]]
    BY <2>1 DEF Window
  <2>3. Len(u) = 2
    BY <2>2
  <2> QED
    BY <2>2, <2>3 DEF ByteOf
<1> DEFINE next == IF Jumps(i, m) THEN i.to ELSE IF m.pc = 3 THEN 1 ELSE m.pc + 1
<1>9. next = IF m.pc = 3 THEN 1 ELSE m.pc + 1
  BY <1>4
<1>10. /\ i = Instruction(CompatInConfig, m) /\ i.delay \in 0 .. 9
       /\ r = Registers(CompatInConfig, i, m, p)
       /\ next = IF Jumps(i, m) THEN i.to
                 ELSE IF m.pc = Len(CompatInConfig.prog) THEN 1 ELSE m.pc + 1
  BY <1>1, <1>2
<1> HIDE DEF i, r, u, next
<1>11. /\ Stalled(CompatInConfig, m, p) => Is(w.sm, m.pc, m.x, m.osr, m.isr, m.tx, m.rx)
       /\ ~Stalled(CompatInConfig, m, p) => Is(w.sm, next, r.x, r.osr, r.isr, r.tx, r.rx)
  BY <1>7, <1>10, Runs, SMTT(60)
<1>12. /\ Stalled(CompatInConfig, m, p) => w.sm.pc = m.pc /\ w.sm.rx = <<>>
       /\ ~Stalled(CompatInConfig, m, p) =>
            w.sm.pc = (IF m.pc = 3 THEN 1 ELSE m.pc + 1) /\ w.sm.rx = IF m.pc = 2 THEN <<u>> ELSE <<>>
  BY <1>7, <1>9, <1>11 DEF Is
<1> QED
  BY <1>5, <1>8, <1>12

LEMMA CompatSm0 ==
  ASSUME RunSm0, Running = "SppNibble", hw.armed, Machine(sm0), sm0.delay = 0, sm0.pc \in 1 .. 3,
         sm0.rx = <<>>, Lines \subseteq DOMAIN pins
  PROVE  /\ sm0'.rx = <<>>
         /\ sm0.pc = 1 => sm0'.pc = IF pins["strobe"] = 0 THEN 2 ELSE 1
         /\ sm0.pc = 3 => sm0'.pc = IF pins["strobe"] = 1 THEN 1 ELSE 3
         /\ sm0.pc = 2 => sm0'.pc = 3
         /\ sm0.pc # 2 => ring' = ring
         /\ (overran => overran') /\ (fought => fought')
         /\ sm0.pc = 2 /\ ~overran' /\ ~fought' =>
              \E u : ring' = Append(ring, u) /\ ByteOf(u) = pins["d"]
<1> DEFINE p == [pins EXCEPT !["d"] = DataRead]
           w == Whole(Cycle(CompatInConfig, sm0, p), Forever)
           toRing == hw.armed /\ w.sm.rx # <<>>
<1>1. Cfg.sm0 = CompatInConfig
  BY DEF Cfg, Configs
<1>2. /\ sm0' = IF toRing THEN [w.sm EXCEPT !.rx = <<>>] ELSE w.sm
      /\ ring' = IF toRing THEN Ringed(Head(w.sm.rx)) ELSE ring
      /\ overran' = (overran \/ (toRing /\ Len(ring) + 1 = RingWords))
      /\ fought' = (fought \/ ((w.sm.pc # sm0.pc /\ Instruction(CompatInConfig, sm0).op = "in") /\ Contended))
  BY <1>1 DEF RunSm0
<1>3. p["strobe"] = pins["strobe"] /\ p["d"] = DataRead
  BY DEF Lines
<1>4. w = Whole(Cycle(CompatInConfig, sm0, p), Forever)
  OBVIOUS
<1> HIDE DEF w, p
<1>5. /\ sm0.pc = 1 => w.sm.pc = (IF p["strobe"] = 0 THEN 2 ELSE 1) /\ w.sm.rx = <<>>
      /\ sm0.pc = 3 => w.sm.pc = (IF p["strobe"] = 1 THEN 1 ELSE 3) /\ w.sm.rx = <<>>
      /\ sm0.pc = 2 => w.sm.pc = 3 /\ \E u : w.sm.rx = <<u>> /\ ByteOf(u) = p["d"]
  BY <1>4, CompatRuns
<1>6. (overran => overran') /\ (fought => fought')
  BY <1>2
<1>7. CASE sm0.pc # 2
  <2>1. w.sm.rx = <<>>
    BY <1>5, <1>7
  <2>2. sm0' = w.sm /\ ring' = ring
    BY <1>2, <2>1
  <2> QED
    BY <1>3, <1>5, <1>6, <1>7, <2>1, <2>2
<1>8. CASE sm0.pc = 2
  <2>1. PICK u : w.sm.rx = <<u>> /\ ByteOf(u) = p["d"]
    BY <1>5, <1>8
  <2>2. toRing /\ Head(w.sm.rx) = u
    BY <2>1
  <2>3. sm0' = [w.sm EXCEPT !.rx = <<>>] /\ ring' = Ringed(u)
    BY <1>2, <2>2
  <2>4. Machine(w.sm)
    <3>2. Running \in Phys /\ sm0.pc \in 1 .. Len(Cfg.sm0.prog)
      BY <1>1, CompatProgram DEF Phys
    <3>3. Machine(Registers(CompatInConfig, Instruction(CompatInConfig, sm0), sm0, p))
          /\ Instruction(CompatInConfig, sm0).delay \in 0 .. 9
      BY <1>1, <3>2, ReceiverSteps
    <3> QED
      BY <1>4, <3>3, Runs, SMTT(60) DEF Is
  <2>5. sm0'.rx = <<>> /\ sm0'.pc = 3
    <3>1. w.sm.pc = 3
      BY <1>5, <1>8
    <3> QED
      BY <2>3, <2>4, <3>1 DEF Machine
  <2>6. Instruction(CompatInConfig, sm0).op = "in"
    BY <1>8, CompatProgram DEF Instruction, In
  <2>7. ~fought' => DataRead = pins["d"]
    <3>1. w.sm.pc # sm0.pc
      BY <1>5, <1>8
    <3>2. ~fought' => ~Contended
      BY <1>2, <2>6, <3>1, Zenon
    <3> QED
      BY <3>2, Zenon DEF DataRead
  <2>8. ~overran' => Ringed(u) = Append(ring, u)
    BY <1>2, <2>2 DEF Ringed
  <2>9. ~overran' /\ ~fought' => ring' = Append(ring, u) /\ ByteOf(u) = pins["d"]
    BY <1>3, <2>1, <2>3, <2>7, <2>8
  <2> QED
    BY <1>6, <1>8, <2>5, <2>9
<1> QED
  BY <1>7, <1>8

LEMMA CompatWaits ==
  ASSUME PioWaits, Running = "SppNibble", sm0.pc \in 1 .. 3, sm0.rx = <<>>
  PROVE  (pins["strobe"] = 0 => sm0.pc = 3) /\ (pins["strobe"] = 1 => sm0.pc = 1)
<1>1. Cfg.sm0 = CompatInConfig
  BY DEF Cfg, Configs
<1>2. Stalled(CompatInConfig, sm0, pins)
  BY <1>1 DEF PioWaits, Stands
<1>3. \/ sm0.pc = 1 /\ pins["strobe"] # 0
      \/ sm0.pc = 3 /\ pins["strobe"] # 1
  BY <1>2, CompatStalls
<1> QED
  BY <1>3

LEMMA SentIs ==
  ASSUME Listed(written)
  PROVE  /\ Listed(Sent) /\ Len(written) \in Nat /\ Len(Sent) \in Nat
         /\ Strobing => Len(Sent) = Len(written) + 1 /\ Sent[Len(written) + 1] = pins["d"]
         /\ ~Strobing => Sent = written
  BY ListedAppend, ListedLen DEF Sent

(* Where a step that neither samples nor hands over leaves the pairs.      *)
LEMMA CompatKept ==
  ASSUME CompatInv, UNCHANGED <<active, leaving, sm0, ring, taken, written, host, peer>>,
         Running = "SppNibble" => pins'["d"] = pins["d"],
         ~ghosts' => ~ghosts, ~fought' => ~fought, ~overran' => ~overran
  PROVE  CompatInv'
<1>1. (Running = Running') /\ (Strobing' <=> Strobing)
  BY DEF Running, Strobing
<1>2. Running = "SppNibble" => Sent' = Sent
  BY <1>1 DEF Sent
<1>3. Clean' => Clean
  BY DEF Clean
<1> QED
  BY <1>1, <1>2, <1>3 DEF CompatInv

LEMMA CompatSampled ==
  ASSUME MuxInv, NegInv, LinesInv, BytesInv, CompatInv, RunSm0 PROVE CompatInv'
<1>1. UNCHANGED <<active, leaving, host, peer, written, taken, ghosts>> /\ active \in Phys \cup {"None"}
  BY DEF RunSm0, muxVars, negVars
<1>2. Lines \subseteq DOMAIN pins
  BY DEF NegInv, NegShape
<1>3. HostDriven(pins, pins')
  BY <1>2, Sm0Keeps
<1>4. (Running = Running') /\ (Strobing' <=> Strobing) /\ pins'["d"] = pins["d"]
  BY <1>1, <1>3 DEF Running, Strobing, HostDriven, Lines
<1>5. Sent' = Sent
  BY <1>1, <1>4 DEF Sent
<1> SUFFICES ASSUME Running = "SppNibble", ~ghosts
             PROVE  /\ sm0'.rx = <<>>
                    /\ Clean' =>
                      /\ Inward(taken, ring', Sent)
                      /\ sm0'.pc = 1 => Len(taken) + Len(ring') = Len(written)
                      /\ sm0'.pc = 2 => Len(taken) + Len(ring') = Len(written) /\ Strobing
                      /\ sm0'.pc = 3 => Len(taken) + Len(ring') = Len(Sent)
  BY <1>1, <1>4, <1>5 DEF CompatInv
<1>6. hw.armed /\ Machine(sm0) /\ sm0.delay = 0 /\ sm0.pc \in 1 .. 3 /\ sm0.rx = <<>>
  <2>1. hw.armed
    BY DEF LinesInv, RingFed
  <2>2. Running \in Phys
    BY DEF Phys
  <2> QED
    BY <2>1, <2>2, ReceiverIs DEF BytesInv, CompatInv
<1>7. /\ sm0'.rx = <<>>
      /\ sm0.pc = 1 => sm0'.pc = IF pins["strobe"] = 0 THEN 2 ELSE 1
      /\ sm0.pc = 3 => sm0'.pc = IF pins["strobe"] = 1 THEN 1 ELSE 3
      /\ sm0.pc = 2 => sm0'.pc = 3
      /\ sm0.pc # 2 => ring' = ring
      /\ (overran => overran') /\ (fought => fought')
      /\ sm0.pc = 2 /\ ~overran' /\ ~fought' =>
           \E u : ring' = Append(ring, u) /\ ByteOf(u) = pins["d"]
  BY <1>2, <1>6, CompatSm0
<1> SUFFICES ASSUME Clean'
             PROVE  /\ Inward(taken, ring', Sent)
                    /\ sm0'.pc = 1 => Len(taken) + Len(ring') = Len(written)
                    /\ sm0'.pc = 2 => Len(taken) + Len(ring') = Len(written) /\ Strobing
                    /\ sm0'.pc = 3 => Len(taken) + Len(ring') = Len(Sent)
  BY <1>7
<1>8. /\ Inward(taken, ring, Sent)
      /\ sm0.pc = 1 => Len(taken) + Len(ring) = Len(written)
      /\ sm0.pc = 2 => Len(taken) + Len(ring) = Len(written) /\ Strobing
      /\ sm0.pc = 3 => Len(taken) + Len(ring) = Len(Sent)
  BY <1>1, <1>7 DEF Clean, CompatInv
<1>9. /\ Len(written) \in Nat
      /\ Strobing => Len(Sent) = Len(written) + 1 /\ Sent[Len(written) + 1] = pins["d"]
      /\ ~Strobing => Sent = written
  BY SentIs DEF BytesInv
<1>10. pins["strobe"] = IF Strobing THEN 0 ELSE 1
  BY DEF LinesInv
<1>11. CASE sm0.pc \in {1, 3}
  BY <1>7, <1>8, <1>9, <1>10, <1>11
<1>12. CASE sm0.pc = 2
  <2>1. PICK u : ring' = Append(ring, u) /\ ByteOf(u) = pins["d"]
    BY <1>7, <1>12 DEF Clean
  <2>2. Listed(ring) /\ Listed(taken)
    BY DEF BytesInv
  <2>3. Len(ring') = Len(ring) + 1 /\ Len(ring) \in Nat /\ Len(taken) \in Nat
    BY <2>1, <2>2, ListedAppend, ListedLen
  <2>4. Len(taken) + Len(ring) + 1 <= Len(Sent) /\ ByteOf(u) = Sent[Len(taken) + Len(ring) + 1]
    BY <1>8, <1>9, <1>12, <2>1, <2>3
  <2>5. Inward(taken, ring', Sent)
    BY <1>8, <2>1, <2>4, InwardSampled
  <2> QED
    BY <1>7, <1>8, <1>9, <1>12, <2>3, <2>5
<1>13. sm0.pc \in {1, 3} \/ sm0.pc = 2
  BY <1>6
<1> QED
  BY <1>11, <1>12, <1>13, Zenon

LEMMA CompatReceives ==
  ASSUME MuxInv, LinesInv, BytesInv, CompatInv, RecvFromRing \/ RecvFromFifo PROVE CompatInv'
<1>1. UNCHANGED <<active, leaving, host, peer, written, ghosts, fought, overran, pins>>
      /\ (Running = Running') /\ active \in Phys
  BY DEF RecvFromRing, RecvFromFifo, Serving, muxVars, negVars, hostVars, Running
<1>2. Sent' = Sent /\ (Strobing' <=> Strobing) /\ (Clean' <=> Clean)
  BY <1>1 DEF Sent, Strobing, Clean
<1> SUFFICES ASSUME Running = "SppNibble", ~ghosts PROVE CompatInv'
  BY <1>1 DEF CompatInv
<1>3. hw.armed
  BY DEF LinesInv, RingFed
<1>4. /\ sm0' = sm0 /\ ring # <<>> /\ ring' = Tail(ring)
      /\ taken' = Append(taken, ByteOf(Head(ring)))
  BY <1>3 DEF RecvFromRing, RecvFromFifo
<1>5. Listed(ring) /\ Listed(taken)
  BY DEF BytesInv
<1>6. Len(taken') + Len(ring') = Len(taken) + Len(ring)
  <2>1. Len(taken') = Len(taken) + 1
    BY <1>4, <1>5, ListedAppend
  <2>2. Len(ring') = Len(ring) - 1
    BY <1>4, <1>5, ListedTail
  <2> QED
    BY <1>5, <2>1, <2>2, ListedLen
<1>7. Clean => Inward(taken', ring', Sent)
  BY <1>4, InwardTaken DEF CompatInv
<1> QED
  BY <1>1, <1>2, <1>4, <1>6, <1>7 DEF CompatInv

LEMMA CompatWritten ==
  ASSUME MuxInv, NegInv, HostQuiet, LinesInv, BytesInv, CompatInv, HostWrites \/ HostReads \/ HostEnds
  PROVE  CompatInv'
<1>1. /\ UNCHANGED <<active, leaving, peer, sm0, ring, taken, ghosts, fought, overran>>
      /\ (Running = Running')
  BY DEF HostWrites, HostReads, HostEnds, muxVars, negVars, phyVars, history, Running
<1> SUFFICES ASSUME Running = "SppNibble", ~ghosts PROVE CompatInv'
  BY <1>1 DEF CompatInv
<1>2. PioWaits /\ Settled /\ active \in Phys \cup {"None"}
  BY DEF HostWrites, HostReads, HostEnds, HostIdle, LinesInv, HostQuiet, MuxInv, MuxTypeOK, Conserved
<1>3. (pins["strobe"] = 0 => sm0.pc = 3) /\ (pins["strobe"] = 1 => sm0.pc = 1) /\ sm0.pc \in 1 .. 3
  <2>1. Running \in Phys
    BY DEF Phys
  <2>2. sm0.pc \in 1 .. 3 /\ sm0.rx = <<>>
    BY <2>1, ReceiverIs DEF BytesInv, CompatInv
  <2> QED
    BY <1>2, <2>2, CompatWaits
<1>4. peer.pc # "strobing"
  BY <1>2 DEF Settled
<1>5. /\ Len(written) \in Nat
      /\ Strobing => Len(Sent) = Len(written) + 1
      /\ ~Strobing => Sent = written
  BY SentIs DEF BytesInv
<1>6. (Clean' <=> Clean)
  BY <1>1 DEF Clean
<1>7. CASE HostWrites
  <2>1. host = "idle" /\ host' = "write" /\ written' = written
    BY <1>7 DEF HostWrites, HostIdle, history
  <2>2. ~Strobing /\ Strobing'
    BY <1>4, <2>1 DEF Strobing
  <2>3. sm0.pc = 1 /\ Sent = written
    BY <1>3, <1>5, <2>2 DEF LinesInv
  <2>4. Sent' = Append(written, pins'["d"])
    BY <2>1, <2>2 DEF Sent
  <2>5. Clean => Inward(taken, ring, Sent') /\ Len(taken) + Len(ring) = Len(written)
    BY <2>3, <2>4, InwardMore DEF CompatInv, BytesInv
  <2> QED
    BY <1>1, <1>6, <2>1, <2>3, <2>5 DEF CompatInv
<1>8. CASE HostReads
  <2>1. active \in Phys /\ active # "SppNibble"
    BY <1>8 DEF HostReads, HostIdle
  <2> QED
    BY <2>1 DEF Running, Phys
<1>9. CASE HostEnds
  <2>1. host # "idle" /\ host' = "idle"
    BY <1>9 DEF HostEnds
  <2>2. host = "write"
    <3>1. active # "None" /\ host \in {"read", "write"}
      BY <2>1 DEF HostQuiet
    <3> QED
      BY <3>1 DEF Running, HostQuiet
  <2>3. Strobing /\ ~Strobing'
    BY <1>1, <1>4, <2>1, <2>2 DEF Strobing
  <2>4. sm0.pc = 3
    BY <1>3, <2>3 DEF LinesInv
  <2>5. written' = Sent /\ Sent' = Sent
    BY <1>9, <2>2, <2>3 DEF HostEnds, Sent
  <2>6. Clean => Inward(taken, ring, Sent) /\ Len(taken) + Len(ring) = Len(Sent) /\ sm0.rx = <<>>
    BY <2>4 DEF CompatInv
  <2> QED
    BY <1>1, <1>6, <2>4, <2>5, <2>6 DEF CompatInv
<1> QED
  BY <1>7, <1>8, <1>9

(* The peer lowers nStrobe to have its request read, and raises it again.  *)
LEMMA PeerStrobes ==
  ASSUME NegInv, PeerStep, peer.pc = "strobing"
  PROVE  pins'["strobe"] = 1 /\ pins'["d"] = pins["d"]
<1>1. Lines \subseteq DOMAIN pins
  BY DEF NegInv, NegShape
<1>2. EndStrobe \/ GiveUp
  BY DEF PeerStep, Request, Strobe, ReadVerdict
<1> QED
  BY <1>1, <1>2 DEF EndStrobe, GiveUp, Lines

LEMMA CompatNegotiates ==
  ASSUME MuxInv, NegInv, HostQuiet, LinesInv, BytesInv, CompatInv, Negotiation
  PROVE  CompatInv'
<1>1. ~Settled /\ active = "SppNibble" /\ host = "idle" /\ LinesInv'
  BY SettledEnds, NegotiationKeepsLines DEF LinesInv
<1>2. /\ UNCHANGED <<active, leaving, sm0, ring, taken, host>>
      /\ (ghosts' <=> ghosts) /\ (fought' <=> fought) /\ (overran' <=> overran)
  BY DEF Negotiation, muxVars, phyVars, hostVars
<1>3. (Running = Running') /\ Running = "SppNibble" /\ (Clean' <=> Clean)
  BY <1>1, <1>2 DEF Running, Clean
<1> SUFFICES ASSUME ~ghosts PROVE CompatInv'
  BY <1>2 DEF CompatInv
<1>4. /\ pins["strobe"] = (IF Strobing THEN 0 ELSE 1)
      /\ pins'["strobe"] = (IF Strobing' THEN 0 ELSE 1)
      /\ (Strobing <=> peer.pc = "strobing")
  BY <1>1 DEF LinesInv, Strobing
<1>5. sm0.rx = <<>> /\ sm0.pc \in 1 .. 3 /\ Listed(written)
  <2>1. Running \in Phys
    BY <1>3 DEF Phys
  <2> QED
    BY <1>3, <2>1, ReceiverIs DEF BytesInv, CompatInv
<1>6. pins'["strobe"] # pins["strobe"] =>
        (pins["strobe"] = 0 => sm0.pc = 3) /\ (pins["strobe"] = 1 => sm0.pc = 1)
  BY <1>3, <1>5, CompatWaits DEF Negotiation
<1>7. written' = IF pins["strobe"] = 0 /\ pins'["strobe"] = 1
                 THEN Append(written, pins["d"]) ELSE written
  BY DEF Negotiation
<1>8. Clean => /\ Inward(taken, ring, Sent)
               /\ sm0.pc = 1 => Len(taken) + Len(ring) = Len(written)
               /\ sm0.pc = 2 => Len(taken) + Len(ring) = Len(written) /\ Strobing
               /\ sm0.pc = 3 => Len(taken) + Len(ring) = Len(Sent)
  BY <1>3 DEF CompatInv
<1>9. CASE Strobing' /\ Strobing
  <2>1. written' = written /\ pins'["strobe"] = 0
    BY <1>4, <1>7, <1>9
  <2>2. pins'["d"] = pins["d"]
    <3>1. ~PeerStep
      BY <1>4, <1>9, <2>1, PeerStrobes
    <3>2. NegotiatorStep
      BY <3>1 DEF Negotiation
    <3> QED
      BY <3>2 DEF NegotiatorStep, DetectStart, ClaimStatusPins, DriveStatus, StrobeLow, StrobeHigh,
                  AutoFdReleased, NegTimeout, ReleaseStatusPins
  <2>3. Sent' = Sent
    BY <1>9, <2>1, <2>2 DEF Sent
  <2> QED
    BY <1>2, <1>3, <1>5, <1>8, <1>9, <2>1, <2>3 DEF CompatInv
<1>10. CASE Strobing' /\ ~Strobing
  <2>1. written' = written /\ sm0.pc = 1
    BY <1>4, <1>6, <1>7, <1>10
  <2>2. Sent = written /\ Sent' = Append(written, pins'["d"])
    BY <1>10, <2>1 DEF Sent
  <2>3. Clean => Inward(taken, ring, Sent') /\ Len(taken) + Len(ring) = Len(written)
    BY <1>5, <1>8, <2>1, <2>2, InwardMore
  <2> QED
    BY <1>2, <1>3, <1>5, <2>1, <2>3 DEF CompatInv
<1>11. CASE ~Strobing' /\ Strobing
  <2>1. written' = Append(written, pins["d"]) /\ sm0.pc = 3
    BY <1>4, <1>6, <1>7, <1>11
  <2>2. Sent = written' /\ Sent' = written'
    BY <1>11, <2>1 DEF Sent
  <2> QED
    BY <1>2, <1>3, <1>5, <1>8, <2>1, <2>2 DEF CompatInv
<1>12. CASE ~Strobing' /\ ~Strobing
  <2>1. written' = written
    BY <1>4, <1>7, <1>12
  <2>2. Sent = written /\ Sent' = written
    BY <1>12, <2>1 DEF Sent
  <2> QED
    BY <1>2, <1>3, <1>5, <1>8, <1>12, <2>1, <2>2 DEF CompatInv
<1> QED
  BY <1>9, <1>10, <1>11, <1>12

LEMMA CompatSwitches ==
  ASSUME MuxInv, LinesInv, CompatInv, HostQuiet,
         (\E t \in Targets : CallSwitch(t)) \/ CompleteSwitch, MuxInv'
  PROVE  CompatInv'
<1>1. CASE \E t \in Targets : CallSwitch(t)
  <2>1. /\ active \in Phys /\ active' = "None" /\ leaving' = active
        /\ UNCHANGED <<sm0, ring, taken, written, host, peer, pins>>
        /\ (ghosts' <=> ghosts) /\ (fought' <=> fought) /\ (overran' <=> overran)
    BY <1>1 DEF CallSwitch, BeginSwitch, history, hostVars, negVars
  <2>2. Running' = Running
    BY <2>1 DEF Running, Phys
  <2>3. Sent' = Sent /\ (Strobing' <=> Strobing) /\ (Clean' <=> Clean)
    BY <2>1 DEF Sent, Strobing, Clean
  <2> QED
    BY <2>1, <2>2, <2>3 DEF CompatInv
<1>2. CASE CompleteSwitch
  <2>1. /\ written' = <<>> /\ taken' = <<>> /\ ring' = <<>> /\ host' = host /\ peer' = peer
        /\ sm0' = Configured(Cfg.sm0, Configs(PhyTarget(target)).sm0, sm0)
        /\ (ghosts' <=> sm0'.rx # <<>> \/ sm1'.tx # <<>>)
    BY <1>2 DEF CompleteSwitch, negVars
  <2>2. sm0'.pc = 1
    BY <2>1, ConfiguredIs
  <2>3. ~Strobing'
    <3>1. host = "idle" /\ Settled
      BY <1>2 DEF CompleteSwitch, FinishSwitch, HostQuiet, LinesInv
    <3> QED
      BY <2>1, <3>1 DEF Strobing, Settled
  <2>4. Sent' = <<>>
    BY <2>1, <2>3 DEF Sent
  <2>5. Inward(<<>>, <<>>, <<>>) /\ Len(<<>>) + Len(<<>>) = Len(<<>>)
    BY ListedNone DEF Inward
  <2>6. ~ghosts' => sm0'.rx = <<>>
    BY <2>1
  <2> QED
    BY <2>1, <2>2, <2>4, <2>5, <2>6 DEF CompatInv
<1> QED
  BY <1>1, <1>2

LEMMA CompatStep ==
  ASSUME MuxInv, NegInv, HostQuiet, LinesInv, BytesInv, CompatInv, Next, MuxInv'
  PROVE  CompatInv'
<1>1. CASE RunSm1
  <2>1. /\ UNCHANGED <<active, leaving, sm0, ring, taken, written, host, peer>>
        /\ (ghosts' <=> ghosts) /\ (fought' <=> fought) /\ (overran' <=> overran)
    BY <1>1 DEF RunSm1, muxVars, negVars
  <2>2. Lines \subseteq DOMAIN pins
    BY DEF NegInv, NegShape
  <2>3. pins'["d"] = pins["d"]
    BY <1>1, <2>2, Sm1Keeps DEF HostDriven, Lines
  <2> QED
    BY <2>1, <2>3, CompatKept
<1>2. CASE SendByte \/ AskForward
  <2>1. /\ UNCHANGED <<active, leaving, ring, taken, written, host, peer, pins>> /\ active \in Phys
        /\ (ghosts' <=> ghosts) /\ (fought' <=> fought) /\ (overran' <=> overran)
        /\ Running' = Running
    BY <1>2 DEF SendByte, AskForward, Serving, muxVars, negVars, hostVars, history, Running
  <2>2. Running = "SppNibble" => sm0' = sm0
    <3>1. Running = active
      BY <2>1 DEF Running, Phys
    <3> QED
      BY <1>2, <3>1 DEF SendByte, AskForward, Sender
  <2>3. CASE Running = "SppNibble"
    BY <2>1, <2>2, <2>3, CompatKept
  <2>4. CASE Running # "SppNibble"
    BY <2>1, <2>4 DEF CompatInv
  <2> QED
    BY <2>3, <2>4
<1> QED
  BY <1>1, <1>2, CompatSampled, CompatReceives, CompatWritten, CompatSwitches, CompatNegotiates
     DEF Next

-----------------------------------------------------------------------------
(* Byte mode and ECP.                                                      *)

(* The receiver of Byte mode or ECP at its first sample.                   *)
LEMMA DrivenSm0 ==
  ASSUME RunSm0, Running \in {"Byte", "Ecp"}, Machine(sm0), sm0.delay = 0, sm0.pc \in {1, 2},
         sm0.rx = <<>>, Contended
  PROVE  /\ sm0.pc = 2 => fought'
         /\ sm0.pc = 1 => sm0'.pc \in {1, 2} /\ sm0'.rx = <<>> /\ ring' = ring
<1> DEFINE p == [pins EXCEPT !["d"] = DataRead]
           w == Whole(Cycle(Cfg.sm0, sm0, p), Forever)
           i == Instruction(Cfg.sm0, sm0)
           r == Registers(Cfg.sm0, i, sm0, p)
           len == Len(Cfg.sm0.prog)
           next == IF Jumps(i, sm0) THEN i.to ELSE IF sm0.pc = len THEN 1 ELSE sm0.pc + 1
           toRing == hw.armed /\ w.sm.rx # <<>>
<1>1. /\ i = Instruction(Cfg.sm0, sm0) /\ w = Whole(Cycle(Cfg.sm0, sm0, p), Forever)
      /\ r = Registers(Cfg.sm0, i, sm0, p)
      /\ next = IF Jumps(i, sm0) THEN i.to ELSE IF sm0.pc = Len(Cfg.sm0.prog) THEN 1 ELSE sm0.pc + 1
  OBVIOUS
<1>2. /\ sm0' = IF toRing THEN [w.sm EXCEPT !.rx = <<>>] ELSE w.sm
      /\ ring' = IF toRing THEN Ringed(Head(w.sm.rx)) ELSE ring
      /\ (w.sm.pc # sm0.pc /\ i.op = "in") /\ Contended => fought'
  BY DEF RunSm0
<1>3. /\ len \in {3, 5} /\ Running \in Phys
      /\ sm0.pc = 1 => i.op = "wait" /\ i.delay = 0
      /\ sm0.pc = 2 => i.op = "in" /\ i.delay = 0
      /\ ~(Len(sm0.rx) >= Cfg.sm0.depth)
  <2>0. Running \in Phys
    BY DEF Phys
  <2>1. CASE Running = "Byte"
    <3>1. i = CompatIn[sm0.pc] /\ len = 3 /\ Cfg.sm0 = CompatInConfig
      BY <2>0, <2>1, ReceiverIs, CompatProgram DEF Instruction
    <3>2. Cfg.sm0.depth \in Nat \ {0} /\ Len(<<>>) = 0
      <4>1. 2 * FifoDepth \in Nat \ {0}
        BY PortAssumption
      <4> QED
        BY <3>1, <4>1, CompatProgram
    <3> HIDE DEF i, len
    <3> QED
      BY <2>0, <3>1, <3>2, CompatProgram DEF Wait, In
  <2>2. CASE Running = "Ecp"
    <3>1. i = EcpFwd[sm0.pc] /\ len = 5 /\ Cfg.sm0 = EcpFwdConfig
      BY <2>0, <2>2, ReceiverIs, EcpProgram DEF Instruction
    <3>2. Cfg.sm0.depth \in Nat \ {0} /\ Len(<<>>) = 0
      <4>1. 2 * FifoDepth \in Nat \ {0}
        BY PortAssumption
      <4>2. EcpFwdConfig.depth = 2 * FifoDepth
        BY DEF EcpFwdConfig, Config
      <4> QED
        BY <3>1, <4>1, <4>2
    <3> HIDE DEF i, len
    <3> QED
      BY <2>0, <3>1, <3>2, EcpFields
  <2> QED
    BY <2>1, <2>2
<1> HIDE DEF w, r, p, i
<1>4. ~Jumps(i, sm0) /\ Machine(r) /\ (sm0.pc = 1 => r = sm0)
  <2>1. i.op \in {"wait", "in"}
    BY <1>3
  <2>2. Machine(r)
    <3>1. sm0.pc \in 1 .. Len(Cfg.sm0.prog)
      <4> HIDE DEF len
      <4>1. sm0.pc \in 1 .. len
        BY <1>3
      <4> QED
        BY <4>1 DEF len
    <3> QED
      BY <1>1, <1>3, <3>1, ReceiverSteps
  <2>3. sm0.pc = 1 => r = sm0
    BY <1>1, <1>3 DEF Registers
  <2> QED
    BY <2>1, <2>2, <2>3 DEF Jumps
<1>5. next = sm0.pc + 1
  <2> HIDE DEF len
  <2> QED
    BY <1>3, <1>4
<1>6. i.delay \in 0 .. 9
  BY <1>3
<1> HIDE DEF next
<1>7. /\ Stalled(Cfg.sm0, sm0, p) => Is(w.sm, sm0.pc, sm0.x, sm0.osr, sm0.isr, sm0.tx, sm0.rx)
      /\ ~Stalled(Cfg.sm0, sm0, p) => Is(w.sm, next, r.x, r.osr, r.isr, r.tx, r.rx)
  BY <1>1, <1>4, <1>6, Runs, SMTT(60)
<1>8. CASE sm0.pc = 2
  <2>1. ~Stalled(Cfg.sm0, sm0, p)
    <3>1. i.op = "in"
      BY <1>3, <1>8
    <3> QED
      BY <1>1, <1>3, <3>1 DEF Stalled
  <2>2. w.sm.pc = 3
    BY <1>5, <1>7, <1>8, <2>1 DEF Is
  <2>3. fought'
    BY <1>2, <1>3, <1>8, <2>2
  <2> QED
    BY <1>8, <2>3
<1>9. CASE sm0.pc = 1
  <2>1. w.sm.pc \in {1, 2} /\ w.sm.rx = <<>>
    BY <1>4, <1>5, <1>7, <1>9 DEF Is
  <2> QED
    BY <1>2, <1>9, <2>1
<1> QED
  BY <1>8, <1>9

(* Steps after which there is as much as before, or more bytes to send.    *)
LEMMA DrivenKept ==
  ASSUME DrivenInv, BytesInv, UNCHANGED <<active, leaving, hw, sm0, ring, taken, got, host>>,
         rev' = rev \/ (rev \in Seq(Byte) /\ \E b : rev' = Append(rev, b)),
         ~ghosts' => ~ghosts, ~fought' => ~fought, ~overran' => ~overran
  PROVE  DrivenInv'
<1>1. (Running = Running') /\ (Clean' => Clean)
  BY DEF Running, Clean
<1> SUFFICES ASSUME Running \in {"Byte", "Ecp"} PROVE DrivenInv'
  BY <1>1 DEF DrivenInv
<1>2. Listed(got) /\ Len(got) \in Nat
  BY ListedLen DEF BytesInv
<1>3. Len(rev) \in Nat /\ (Len(rev') = Len(rev) \/ Len(rev') = Len(rev) + 1)
  BY AppendProperties, LenProperties DEF BytesInv
<1>4. Len(got) <= Len(rev') /\ (host = "read" => Len(got) < Len(rev'))
  BY <1>2, <1>3 DEF DrivenInv
<1> QED
  BY <1>1, <1>4 DEF DrivenInv

LEMMA DrivenPort ==
  ASSUME MuxInv, NegInv, BytesInv, LinesInv, DrivenInv,
         RunSm0 \/ RunSm1 \/ SendByte \/ AskForward \/ RecvFromRing \/ RecvFromFifo
  PROVE  DrivenInv'
<1>0. UNCHANGED <<active, leaving, hw, host>> /\ active \in Phys \cup {"None"} /\ (Running' = Running)
  <2>1. UNCHANGED <<muxVars, host>> /\ active \in Phys \cup {"None"}
    BY DEF RunSm0, RunSm1, SendByte, AskForward, RecvFromRing, RecvFromFifo, Serving, hostVars
  <2> QED
    BY <2>1 DEF muxVars, Running
<1> SUFFICES ASSUME Running \in {"Byte", "Ecp"} PROVE DrivenInv'
  BY <1>0 DEF DrivenInv
<1>1. active \in {"Byte", "Ecp", "None"}
  BY <1>0, RunningEpp
<1>2. CASE RunSm0
  <2>1. /\ UNCHANGED <<taken, rev, got>> /\ (ghosts' <=> ghosts)
        /\ (fought => fought') /\ (overran => overran')
    BY <1>2 DEF RunSm0
  <2>2. Clean' => Clean
    BY <2>1 DEF Clean
  <2>3. Contended
    <3>1. hw.dirSel # "PIO0"
      BY <1>1 DEF MuxInv, PinsFollowMode
    <3> QED
      BY <3>1 DEF Contended, PicoDrivesData, TowardsHost, DrivenInv
  <2>4. Clean' => sm0'.pc \in {1, 2} /\ sm0'.rx = <<>> /\ ring' = ring
    <3> SUFFICES ASSUME Clean' PROVE sm0'.pc \in {1, 2} /\ sm0'.rx = <<>> /\ ring' = ring
      OBVIOUS
    <3>1. sm0.pc \in {1, 2} /\ sm0.rx = <<>> /\ Machine(sm0) /\ sm0.delay = 0
      BY <2>2 DEF DrivenInv, BytesInv
    <3>2. ~fought'
      BY DEF Clean
    <3> QED
      BY <1>2, <2>3, <3>1, <3>2, DrivenSm0
  <2> QED
    BY <1>0, <2>1, <2>2, <2>4 DEF DrivenInv
<1>3. CASE RunSm1 \/ SendByte \/ AskForward
  <2>1. /\ UNCHANGED <<sm0, ring, taken, got>> /\ (ghosts' <=> ghosts)
        /\ (fought' <=> fought) /\ (overran' <=> overran)
    BY <1>1, <1>3 DEF RunSm1, SendByte, AskForward, Sender
  <2>2. rev' = rev \/ \E b : rev' = Append(rev, b)
    BY <1>1, <1>3 DEF RunSm1, SendByte, AskForward
  <2> QED
    BY <1>0, <2>1, <2>2, DrivenKept DEF BytesInv
<1>4. CASE RecvFromRing \/ RecvFromFifo
  <2>1. /\ UNCHANGED <<rev, got>> /\ (Clean' <=> Clean)
    BY <1>4 DEF RecvFromRing, RecvFromFifo, Clean
  <2>2. ring # <<>> \/ sm0.rx # <<>>
    BY <1>4 DEF RecvFromRing, RecvFromFifo
  <2>3. ~Clean
    BY <2>2 DEF DrivenInv
  <2> QED
    BY <1>0, <2>1, <2>3 DEF DrivenInv
<1> QED
  BY <1>2, <1>3, <1>4

LEMMA DrivenHost ==
  ASSUME MuxInv, HostQuiet, BytesInv, LinesInv, DrivenInv, HostWrites \/ HostReads \/ HostEnds
  PROVE  DrivenInv'
<1>0. /\ UNCHANGED <<active, leaving, hw, sm0, ring, taken, rev>> /\ (Running' = Running)
      /\ (Clean' <=> Clean)
  BY DEF HostWrites, HostReads, HostEnds, muxVars, phyVars, history, Running, Clean
<1> SUFFICES ASSUME Running \in {"Byte", "Ecp"} PROVE DrivenInv'
  BY <1>0 DEF DrivenInv
<1>1. Listed(got) /\ Len(got) \in Nat /\ Len(rev) \in Nat
  BY ListedLen, LenProperties DEF BytesInv
<1>2. CASE HostWrites \/ HostReads
  <2>1. got' = got /\ (host' = "read" => Len(got) < Len(rev))
    BY <1>2 DEF HostWrites, HostReads, history
  <2>2. Len(got') <= Len(rev') /\ (host' = "read" => Len(got') < Len(rev'))
    BY <1>0, <2>1 DEF DrivenInv
  <2> QED
    BY <1>0, <2>1, <2>2 DEF DrivenInv
<1>3. CASE HostEnds
  <2>1. host' = "idle" /\ host \in {"read", "write"}
    BY <1>3 DEF HostEnds, HostQuiet
  <2>2. CASE host = "write"
    <3>1. got' = got
      BY <1>3, <2>2 DEF HostEnds
    <3> QED
      BY <1>0, <2>1, <3>1 DEF DrivenInv
  <2>3. CASE host = "read"
    <3>1. acked # <<>> /\ got' = Append(got, Head(acked))
      BY <1>3, <2>3 DEF HostEnds
    <3>2. acked = <<Floating>>
      BY <3>1 DEF LinesInv
    <3>3. Head(acked) = Floating
      BY <3>2
    <3>4. got' = Append(got, Floating)
      BY <3>1, <3>3
    <3>5. /\ Len(got') = Len(got) + 1 /\ got'[Len(got) + 1] = Floating
          /\ \A k \in 1 .. Len(got) : got'[k] = got[k]
      BY <1>1, <3>4, ListedAppend
    <3>6. Len(got') <= Len(rev')
      BY <1>0, <1>1, <2>3, <3>5 DEF DrivenInv
    <3>7. \A k \in 1 .. Len(got') : got'[k] = Floating
      BY <1>1, <3>5 DEF DrivenInv
    <3>8. host' # "read"
      BY <2>1
    <3> QED
      BY <1>0, <3>6, <3>7, <3>8 DEF DrivenInv
  <2> QED
    BY <2>1, <2>2, <2>3
<1> QED
  BY <1>2, <1>3

LEMMA DrivenSwitches ==
  ASSUME MuxInv, BytesInv, LinesInv, DrivenInv, HostQuiet,
         (\E t \in Targets : CallSwitch(t)) \/ CompleteSwitch, MuxInv'
  PROVE  DrivenInv'
<1>1. CASE \E t \in Targets : CallSwitch(t)
  <2>1. /\ active \in Phys /\ active' = "None" /\ leaving' = active /\ hw' = BeforeDrain(active, hw)
        /\ UNCHANGED <<sm0, ring, taken, rev, got, host>> /\ (Clean' <=> Clean)
    BY <1>1 DEF CallSwitch, BeginSwitch, history, hostVars, Clean
  <2>2. Running' = Running /\ Running = active
    BY <2>1 DEF Running, Phys
  <2>3. active # "Epp" => hw' = hw
    BY <2>1 DEF BeforeDrain
  <2> QED
    BY <2>1, <2>2, <2>3 DEF DrivenInv
<1>2. CASE CompleteSwitch
  <2>1. /\ taken' = <<>> /\ ring' = <<>> /\ rev' = <<>> /\ got' = <<>> /\ host' = host
        /\ sm0' = Configured(Cfg.sm0, Configs(PhyTarget(target)).sm0, sm0)
        /\ (ghosts' <=> sm0'.rx # <<>> \/ sm1'.tx # <<>>)
    BY <1>2 DEF CompleteSwitch
  <2>2. sm0'.pc = 1
    BY <2>1, ConfiguredIs
  <2>3. host = "idle"
    BY <1>2 DEF CompleteSwitch, FinishSwitch, HostQuiet
  <2>4. Running' = PhyTarget(target) /\ active' = PhyTarget(target)
    BY <1>2, BuiltIs
  <2>5. Running' \in {"Byte", "Ecp"} => "data" \in hw'.out
    <3> DEFINE p == PhyTarget(target)
               h == SetTransceiverMode(p, AfterDrain(leaving, hw))
    <3>1. hw' = Build(p, h)
      BY <1>2, <2>4 DEF CompleteSwitch, FinishSwitch, MuxInv, Conserved
    <3>2. h \in Hardware
      <4>1. hw \in Hardware /\ hw.parked \cup Takes(leaving) \in SUBSET Parts /\ leaving \in Phys
            /\ active = "None"
        BY <1>2, TakesParts DEF MuxInv, MuxTypeOK, CompleteSwitch, FinishSwitch, Hardware
      <4> DEFINE n == hw.used - (IF leaving = "Epp" THEN Slots(leaving) - FollowerSlots ELSE Slots(leaving))
                 v == IF p = "SppNibble" THEN 0 ELSE 1
      <4>2. n \in 0 .. InstrSlots
        <5>1. hw.used = DrainSlots(leaving)
          BY <4>1 DEF MuxInv, Between
        <5>2. leaving = "Epp" => n = 14 - (15 - 1)
          BY <5>1, SlotsLeft DEF FollowerSlots
        <5>3. leaving # "Epp" => n = Slots(leaving) - Slots(leaving) /\ Slots(leaving) \in Nat
          BY <4>1, <5>1, SlotsLeft, SlotsFit
        <5> HIDE DEF n
        <5> QED
          BY <5>2, <5>3 DEF InstrSlots
      <4>3. h = [[hw EXCEPT !.parked = @ \cup Takes(leaving), !.used = n, !.armed = FALSE] EXCEPT !.hd = v]
        BY DEF SetTransceiverMode, AfterDrain
      <4>4. v \in {0, 1}
        OBVIOUS
      <4> HIDE DEF n, v, h
      <4> QED
        BY <4>1, <4>2, <4>3, <4>4 DEF Hardware
    <3>3. p \in {"Byte", "Ecp"} => "data" \in Drives(p)
      BY DEF Drives
    <3> HIDE DEF h, p
    <3>4. ASSUME NEW d, "data" \in d, NEW u, NEW a, NEW s, NEW q,
                 hw' = [h EXCEPT !.parked = q, !.used = u, !.out = @ \cup d, !.armed = a, !.dirSel = s]
          PROVE  "data" \in hw'.out
      BY <3>2, <3>4 DEF Hardware
    <3>5. Running' = p
      BY <2>4 DEF p
    <3> QED
      BY <3>1, <3>3, <3>4, <3>5 DEF Build
  <2>6. Len(<<>>) = 0 /\ 1 .. 0 = {}
    BY ListedNone
  <2>7. Clean' => sm0'.rx = <<>>
    BY <2>1 DEF Clean
  <2> QED
    BY <2>1, <2>2, <2>3, <2>5, <2>6, <2>7 DEF DrivenInv
<1> QED
  BY <1>1, <1>2

LEMMA DrivenStep ==
  ASSUME MuxInv, NegInv, HostQuiet, LinesInv, BytesInv, DrivenInv, Next, MuxInv'
  PROVE  DrivenInv'
<1>1. CASE Negotiation
  <2>1. active = "SppNibble" /\ active' = active
    BY <1>1, SettledEnds DEF LinesInv, Negotiation, muxVars
  <2>2. Running' = "SppNibble"
    BY <2>1 DEF Running
  <2> QED
    BY <2>2 DEF DrivenInv
<1> QED
  BY <1>1, DrivenPort, DrivenHost, DrivenSwitches DEF Next

-----------------------------------------------------------------------------
(* EPP: the levels PIO0 holds, the commands, and what the program does.    *)

LEMMA CycleGrows ==
  ASSUME NEW cfg, NEW sm, NEW p PROVE DOMAIN p \subseteq DOMAIN Cycle(cfg, sm, p).pins
<1> DEFINE i == Instruction(cfg, sm)
           q == Onto(Sided(cfg, i), p)
           r == Onto(Driven(cfg, i, sm, p), q)
<1>1. DOMAIN p \subseteq DOMAIN q /\ DOMAIN q \subseteq DOMAIN r
  BY DEF Onto
<1>2. Cycle(cfg, sm, p).pins \in {p, q, r}
  BY DEF Cycle
<1> HIDE DEF q, r
<1> QED
  BY <1>1, <1>2

LEMMA DataStep == DataKept /\ Next => DataKept'
<1> SUFFICES ASSUME DataKept, Next PROVE DataKept'
  OBVIOUS
<1>1. CASE RunSm0
  <2> DEFINE read == [pins EXCEPT !["d"] = DataRead]
             c == Cycle(Cfg.sm0, sm0, read)
             back == [c.pins EXCEPT !["d"] = pins["d"]]
  <2>1. pins' = Followed(back)
    BY <1>1 DEF RunSm0, Whole, Cycle
  <2>2. {"data", "dir"} \subseteq DOMAIN read
    BY DEF DataKept
  <2> HIDE DEF read
  <2>3. {"data", "dir"} \subseteq DOMAIN back
    BY <2>2, CycleGrows
  <2> HIDE DEF back
  <2> QED
    BY <2>1, <2>3, CycleGrows DEF Followed, DataKept
<1>2. CASE RunSm1
  <2>1. pins' = Cycle(Cfg.sm1, sm1, pins).pins
    BY <1>2 DEF RunSm1, Whole, Cycle
  <2> QED
    BY <2>1, CycleGrows DEF DataKept
<1>3. CASE SendByte \/ AskForward \/ RecvFromRing \/ RecvFromFifo \/ \E t \in Targets : CallSwitch(t)
  BY <1>3 DEF SendByte, AskForward, RecvFromRing, RecvFromFifo, CallSwitch, DataKept
<1>4. CASE HostWrites \/ HostReads \/ HostEnds
  BY <1>4 DEF HostWrites, HostReads, HostEnds, DataKept
<1>5. CASE CompleteSwitch
  BY <1>5 DEF CompleteSwitch, Onto, DataKept
<1>6. CASE Negotiation
  <2>1. NegotiatorStep => pins' = pins
    BY DEF NegotiatorStep, DetectStart, ClaimStatusPins, DriveStatus, StrobeLow, StrobeHigh,
           AutoFdReleased, NegTimeout, ReleaseStatusPins
  <2>2. PeerStep => DOMAIN pins' = DOMAIN pins
    BY DEF PeerStep, Request, Strobe, EndStrobe, ReadVerdict, GiveUp
  <2> QED
    BY <1>6, <2>1, <2>2 DEF Negotiation, DataKept
<1> QED
  BY <1>1, <1>2, <1>3, <1>4, <1>5, <1>6 DEF Next

(* The commands of EPP: a bit that says which, and a reply's byte.         *)
LEMMA ForwardBit == Head(EncodeForwardCmd) = 0
<1>1. EncodeForwardCmd = [k \in 1 .. 32 |-> 0]
  BY DEF EncodeForwardCmd, Zeros
<1> QED
  BY <1>1

LEMMA ReverseBits ==
  ASSUME NEW b \in Byte, NEW w, w = EncodeReverseCmd(b)
  PROVE  /\ w \in Seq({0, 1}) /\ Len(w) = 32 /\ w[1] = 1
         /\ \A k \in 1 .. 8 : w[24 + k] = b[k]
<1> DEFINE z == Zeros(23)
           u == <<1>> \o z
<1>1. z \in Seq({0, 1}) /\ Len(z) = 23
  <2> DEFINE y == [k \in 1 .. 23 |-> 0]
  <2>1. y \in Seq({0, 1}) /\ Len(y) = 23
    OBVIOUS
  <2>2. z = y
    BY DEF Zeros
  <2> HIDE DEF y, z
  <2> QED
    BY <2>1, <2>2
<1>2. <<1>> \in Seq({0, 1}) /\ Len(<<1>>) = 1 /\ <<1>>[1] = 1
  OBVIOUS
<1> HIDE DEF z
<1>3. /\ u \in Seq({0, 1}) /\ Len(u) = 24 /\ u[1] = 1
  <2>1. /\ u \in Seq({0, 1}) /\ Len(u) = Len(<<1>>) + Len(z)
        /\ \A i \in 1 .. Len(<<1>>) + Len(z) :
             u[i] = IF i <= Len(<<1>>) THEN <<1>>[i] ELSE z[i - Len(<<1>>)]
    BY <1>1, <1>2, ConcatProperties
  <2> HIDE DEF u
  <2> QED
    BY <1>1, <1>2, <2>1
<1>4. b \in Seq({0, 1}) /\ Len(b) = 8
  BY ByteIsSeq
<1>5. w = u \o b
  BY DEF EncodeReverseCmd, z
<1> HIDE DEF u
<1>6. /\ w \in Seq({0, 1}) /\ Len(w) = Len(u) + Len(b)
      /\ \A i \in 1 .. Len(u) + Len(b) : w[i] = IF i <= Len(u) THEN u[i] ELSE b[i - Len(u)]
  <2>1. /\ u \o b \in Seq({0, 1}) /\ Len(u \o b) = Len(u) + Len(b)
        /\ \A i \in 1 .. Len(u) + Len(b) : (u \o b)[i] = IF i <= Len(u) THEN u[i] ELSE b[i - Len(u)]
    BY <1>3, <1>4, ConcatProperties
  <2> QED
    BY <1>5, <2>1
<1>7. Len(w) = 32 /\ \A i \in 1 .. 32 : w[i] = IF i <= 24 THEN u[i] ELSE b[i - 24]
  BY <1>3, <1>4, <1>6
<1>8. \A k \in 1 .. 8 : 24 + k \in 1 .. 32 /\ ~(24 + k <= 24) /\ (24 + k) - 24 = k
  OBVIOUS
<1>9. \A k \in 1 .. 8 : w[24 + k] = b[k]
  BY <1>7, <1>8
<1>10. w[1] = 1
  <2>1. 1 \in 1 .. 32 /\ 1 <= 24
    OBVIOUS
  <2> QED
    BY <1>3, <1>7, <2>1
<1> QED
  BY <1>6, <1>7, <1>9, <1>10, Zenon

LEMMA ShiftedIs ==
  ASSUME NEW s \in Seq({0, 1}), NEW n \in Nat, n <= Len(s)
  PROVE  /\ Shifted(s, n) \in Seq({0, 1}) /\ Len(Shifted(s, n)) = Len(s) - n
         /\ \A k \in 1 .. Len(s) - n : Shifted(s, n)[k] = s[n + k]
<1>1. Len(s) \in Nat /\ \A i \in n + 1 .. Len(s) : s[i] \in {0, 1}
  BY LenProperties, ElementOfSeq
<1>2. /\ SubSeq(s, n + 1, Len(s)) \in Seq({0, 1})
      /\ Len(SubSeq(s, n + 1, Len(s))) = IF n + 1 <= Len(s) THEN Len(s) - (n + 1) + 1 ELSE 0
      /\ \A k \in 1 .. Len(s) - (n + 1) + 1 : SubSeq(s, n + 1, Len(s))[k] = s[n + 1 + k - 1]
  BY <1>1, SubSeqProperties
<1>3. \A k \in 1 .. Len(s) - n : k \in 1 .. Len(s) - (n + 1) + 1 /\ n + 1 + k - 1 = n + k
  BY <1>1
<1> QED
  BY <1>1, <1>2, <1>3 DEF Shifted

LEMMA ReplyArrives ==
  ASSUME NEW b \in Byte, NEW w, w = EncodeReverseCmd(b)
  PROVE  /\ Head(w) = 1 /\ Taken(Shifted(Shifted(w, 1), 23), 8) = b
<1> DEFINE s == Shifted(w, 1)
           t == Shifted(s, 23)
<1>1. /\ w \in Seq({0, 1}) /\ Len(w) = 32 /\ w[1] = 1
      /\ \A k \in 1 .. 8 : w[24 + k] = b[k]
  BY ReverseBits
<1>2. Head(w) = 1
  <2>1. w # <<>>
    <3>1. Listed(w) /\ Len(w) = 32
      BY <1>1, ListedSeq
    <3>2. (Len(w) = 0) <=> (w = <<>>)
      BY <3>1, ListedLen, Zenon
    <3>3. Len(w) # 0
      BY <3>1
    <3> QED
      BY <3>2, <3>3, Zenon
  <2> QED
    BY <1>1, <2>1, HeadTailProperties
<1>3. /\ s \in Seq({0, 1}) /\ Len(s) = 31 /\ \A k \in 1 .. 31 : s[k] = w[1 + k]
  <2>1. /\ s \in Seq({0, 1}) /\ Len(s) = Len(w) - 1
        /\ \A k \in 1 .. Len(w) - 1 : s[k] = w[1 + k]
    <3>1. w \in Seq({0, 1}) /\ 1 \in Nat /\ 1 <= Len(w)
      BY <1>1
    <3> QED
      BY <3>1, ShiftedIs, Zenon
  <2> HIDE DEF s
  <2>2. Len(w) - 1 = 31
    BY <1>1
  <2> QED
    BY <2>1, <2>2
<1> HIDE DEF s
<1>4. /\ t \in Seq({0, 1}) /\ Len(t) = 8 /\ \A k \in 1 .. 8 : t[k] = s[23 + k]
  <2>1. /\ t \in Seq({0, 1}) /\ Len(t) = Len(s) - 23
        /\ \A k \in 1 .. Len(s) - 23 : t[k] = s[23 + k]
    <3>1. s \in Seq({0, 1}) /\ 23 \in Nat /\ 23 <= Len(s)
      BY <1>3
    <3> QED
      BY <3>1, ShiftedIs, Zenon
  <2> HIDE DEF t
  <2>2. Len(s) - 23 = 8
    BY <1>3
  <2> QED
    BY <2>1, <2>2
<1>5. \A k \in 1 .. 8 : t[k] = b[k]
  <2>1. \A k \in 1 .. 8 : 23 + k \in 1 .. 31 /\ 1 + (23 + k) = 24 + k
    OBVIOUS
  <2> HIDE DEF t
  <2> QED
    BY <1>1, <1>3, <1>4, <2>1
<1> HIDE DEF t
<1>6. Taken(t, 8) = [k \in 1 .. 8 |-> t[k]]
  BY <1>4 DEF Taken
<1>7. b = [k \in 1 .. 8 |-> b[k]]
  BY DEF Byte
<1> QED
  BY <1>2, <1>5, <1>6, <1>7 DEF t, s

LEMMA EppRuns ==
  ASSUME NEW m, Machine(m), m.delay = 0, m.pc \in 1 .. 14, NEW p, NEW i, i = Epp[m.pc],
         NEW w, w = Whole(Cycle(EppConfig, m, p), Forever),
         NEW r, r = Registers(EppConfig, i, m, p),
         NEW next, next = IF Jumps(i, m) THEN i.to ELSE IF m.pc = 14 THEN 1 ELSE m.pc + 1
  PROVE  /\ Stalled(EppConfig, m, p) =>
              /\ Is(w.sm, m.pc, m.x, m.osr, m.isr, m.tx, m.rx)
              /\ w.pins = Onto(Pin("busy", i.side), p)
         /\ ~Stalled(EppConfig, m, p) /\ Machine(r) =>
              /\ Is(w.sm, next, r.x, r.osr, r.isr, r.tx, r.rx)
              /\ w.pins = Onto(Driven(EppConfig, i, m, p), Onto(Pin("busy", i.side), p))
<1>1. i = Instruction(EppConfig, m) /\ Len(EppConfig.prog) = 14
  BY EppProgram, EppConfigIs DEF Instruction
<1>2. Sided(EppConfig, i) = Pin("busy", i.side)
  BY EppSides, EppConfigIs DEF Sided
<1>3. i.delay \in 0 .. 9
  BY EppFields
<1>4. next = IF Jumps(i, m) THEN i.to ELSE IF m.pc = Len(EppConfig.prog) THEN 1 ELSE m.pc + 1
  BY <1>1
<1>5. /\ Stalled(EppConfig, m, p) =>
              /\ Is(w.sm, m.pc, m.x, m.osr, m.isr, m.tx, m.rx)
              /\ w.pins = Onto(Sided(EppConfig, i), p)
      /\ ~Stalled(EppConfig, m, p) /\ Machine(r) =>
              /\ Is(w.sm, next, r.x, r.osr, r.isr, r.tx, r.rx)
              /\ w.pins = Onto(Driven(EppConfig, i, m, p), Onto(Sided(EppConfig, i), p))
  <2>1. i = Instruction(EppConfig, m) /\ i.delay \in 0 .. 9
        /\ w = Whole(Cycle(EppConfig, m, p), Forever) /\ r = Registers(EppConfig, i, m, p)
    BY <1>1, <1>3
  <2> QED
    BY <1>4, <2>1, Runs, SMTT(60)
<1> QED
  BY <1>2, <1>5

(* The levels the program drives.                                          *)
LEMMA BusyShown ==
  ASSUME NEW p, NEW s
  PROVE  /\ Onto(Pin("busy", s), p)["busy"] = s
         /\ \A v : /\ Onto(Pin("data", v), Onto(Pin("busy", s), p))["busy"] = s
                   /\ Onto(Pin("data", v), Onto(Pin("busy", s), p))["data"] = v
         /\ Onto(<<>>, Onto(Pin("busy", s), p))["busy"] = s
         /\ "data" \in DOMAIN p =>
              /\ Onto(Pin("busy", s), p)["data"] = p["data"]
              /\ Onto(<<>>, Onto(Pin("busy", s), p))["data"] = p["data"]
  BY DEF Onto, Pin

(* What each instruction of EPP does when it completes, and when it cannot. *)
LEMMA EppActs ==
  ASSUME NEW m, Machine(m), m.delay = 0, m.pc \in 1 .. 14, NEW p,
         FifoDepth \in Nat \ {0}, m.pc = 12 => m.rx = <<>>,
         NEW r, r = Registers(EppConfig, Epp[m.pc], m, p),
         NEW next, next = IF Jumps(Epp[m.pc], m) THEN Epp[m.pc].to
                          ELSE IF m.pc = 14 THEN 1 ELSE m.pc + 1,
         NEW driven, driven = Driven(EppConfig, Epp[m.pc], m, p)
  PROVE  /\ Stalled(EppConfig, m, p) <=> \/ m.pc = 1 /\ m.tx = <<>>
                                         \/ m.pc \in {6, 10} /\ p["autofd"] # 0
                                         \/ m.pc \in {8, 13} /\ p["autofd"] # 1
         /\ Machine(r) /\ r.x = (IF m.pc = 2 THEN Head(m.osr) ELSE m.x)
         /\ r.osr = (CASE m.pc = 1 -> Head(m.tx) [] m.pc = 2 -> Shifted(m.osr, 1)
                       [] m.pc = 3 -> Shifted(m.osr, 23) [] m.pc = 5 -> Shifted(m.osr, 8)
                       [] OTHER -> m.osr)
         /\ r.isr = (IF m.pc = 11 THEN <<p["d"]>> ELSE m.isr)
         /\ r.tx = (IF m.pc = 1 THEN Tail(m.tx) ELSE m.tx)
         /\ r.rx = (IF m.pc = 12 THEN <<m.isr>> ELSE m.rx)
         /\ next = CASE m.pc = 4 -> (IF m.x = 0 THEN 10 ELSE 5) [] m.pc \in {9, 14} -> 1
                      [] OTHER -> m.pc + 1
         /\ driven = IF m.pc = 5 THEN Pin("data", Taken(m.osr, 8)) ELSE <<>>
<1> DEFINE i == Epp[m.pc]
<1>1. /\ i = Epp[m.pc] /\ r = Registers(EppConfig, i, m, p)
      /\ next = IF Jumps(i, m) THEN i.to ELSE IF m.pc = 14 THEN 1 ELSE m.pc + 1
      /\ driven = Driven(EppConfig, i, m, p)
  OBVIOUS
<1>3. Stalled(EppConfig, m, p) <=> \/ m.pc = 1 /\ m.tx = <<>>
                                   \/ m.pc \in {6, 10} /\ p["autofd"] # 0
                                   \/ m.pc \in {8, 13} /\ p["autofd"] # 1
  <2>1. Instruction(EppConfig, m) = i
    BY EppConfigIs DEF Instruction
  <2>2. m.pc = 12 => ~(Len(m.rx) >= EppConfig.depth)
    <3>1. Len(<<>>) = 0 /\ EppConfig.depth \in Nat \ {0}
      BY EppConfigIs
    <3> QED
      BY <3>1
  <2>3. /\ (i.op = "pull") <=> m.pc = 1
        /\ (i.op = "push") <=> m.pc = 12
        /\ (i.op = "wait") <=> m.pc \in {6, 8, 10, 13}
        /\ m.pc \in {6, 10} => i.pin = "autofd" /\ i.v = 0
        /\ m.pc \in {8, 13} => i.pin = "autofd" /\ i.v = 1
    BY EppOps
  <2> HIDE DEF i
  <2>4. EppConfig.autopush = FALSE
    BY EppConfigIs
  <2> QED
    BY <2>1, <2>2, <2>3, <2>4 DEF Stalled
<1>4. /\ Machine(r) /\ r.x = (IF m.pc = 2 THEN Head(m.osr) ELSE m.x)
      /\ r.osr = (CASE m.pc = 1 -> Head(m.tx) [] m.pc = 2 -> Shifted(m.osr, 1)
                    [] m.pc = 3 -> Shifted(m.osr, 23) [] m.pc = 5 -> Shifted(m.osr, 8)
                    [] OTHER -> m.osr)
      /\ r.isr = (IF m.pc = 11 THEN <<p["d"]>> ELSE m.isr)
      /\ r.tx = (IF m.pc = 1 THEN Tail(m.tx) ELSE m.tx)
      /\ r.rx = (IF m.pc = 12 THEN <<m.isr>> ELSE m.rx)
  <2>1. CASE m.pc = 1
    <3>1. r = [m EXCEPT !.osr = Head(m.tx), !.tx = Tail(@)]
      BY <1>1, <2>1, EppFields DEF Registers
    <3>2. ASSUME NEW k, k = [m EXCEPT !.osr = Head(m.tx), !.tx = Tail(@)]
          PROVE  /\ Machine(k) /\ k.x = m.x /\ k.osr = Head(m.tx) /\ k.isr = m.isr
                 /\ k.tx = Tail(m.tx) /\ k.rx = m.rx
      BY <3>2 DEF Machine
    <3> QED
      BY <2>1, <3>1, <3>2
  <2>2. CASE m.pc \in {2, 3, 5}
    <3>1. r = [m EXCEPT !.x = IF i.to = "x" THEN Taken(m.osr, i.n) ELSE @,
                        !.osr = SubSeq(@, i.n + 1, Len(@))]
      BY <1>1, <2>2, EppFields DEF Registers
    <3>2. /\ m.pc = 2 => i.to = "x" /\ i.n = 1
          /\ m.pc = 3 => i.to # "x" /\ i.n = 23
          /\ m.pc = 5 => i.to # "x" /\ i.n = 8
      BY EppFields
    <3>3. Taken(m.osr, 1) = Head(m.osr)
      BY DEF Taken
    <3> DEFINE a == IF i.to = "x" THEN Taken(m.osr, i.n) ELSE m.x
               b == SubSeq(m.osr, i.n + 1, Len(m.osr))
    <3>5. r = [m EXCEPT !.x = a, !.osr = b]
      BY <3>1
    <3>6. /\ m.pc = 2 => a = Head(m.osr) /\ b = Shifted(m.osr, 1)
          /\ m.pc = 3 => a = m.x /\ b = Shifted(m.osr, 23)
          /\ m.pc = 5 => a = m.x /\ b = Shifted(m.osr, 8)
      BY <3>2, <3>3 DEF Shifted
    <3> HIDE DEF i, a, b
    <3>4. ASSUME NEW k, k = [m EXCEPT !.x = a, !.osr = b]
          PROVE  /\ Machine(k) /\ k.x = a /\ k.osr = b /\ k.isr = m.isr /\ k.tx = m.tx /\ k.rx = m.rx
      BY <3>4 DEF Machine
    <3>7. Machine(r) /\ r.x = a /\ r.osr = b /\ r.isr = m.isr /\ r.tx = m.tx /\ r.rx = m.rx
      BY <3>4, <3>5
    <3> QED
      BY <2>2, <3>6, <3>7
  <2>3. CASE m.pc \in {4, 6, 7, 8, 9, 10, 13, 14}
    <3>1. r = m
      <4>1. i.op \in {"jmp", "wait", "nop"} /\ (i.op = "jmp" => i.when # "y--")
        BY <2>3, EppFields
      <4> HIDE DEF i
      <4> QED
        BY <1>1, <4>1 DEF Registers
    <3> QED
      BY <2>3, <3>1
  <2>4. CASE m.pc = 11
    <3>1. i.op = "in" /\ EppConfig.autopush = FALSE
      BY <2>4, EppFields, EppConfigIs
    <3>2. Window(EppConfig, p) = <<p["d"]>>
      BY EppConfigIs DEF Window
    <3> HIDE DEF i
    <3>3. r = [m EXCEPT !.isr = <<p["d"]>>, !.rx = m.rx]
      BY <1>1, <3>1, <3>2 DEF Registers
    <3>4. ASSUME NEW k, k = [m EXCEPT !.isr = <<p["d"]>>, !.rx = m.rx]
          PROVE  /\ Machine(k) /\ k.x = m.x /\ k.osr = m.osr /\ k.isr = <<p["d"]>>
                 /\ k.tx = m.tx /\ k.rx = m.rx
      BY <3>4 DEF Machine
    <3> QED
      BY <2>4, <3>3, <3>4
  <2>5. CASE m.pc = 12
    <3>1. i.op = "push"
      BY <2>5, EppFields
    <3> HIDE DEF i
    <3>2. r = [m EXCEPT !.rx = Append(@, m.isr)]
      BY <1>1, <3>1 DEF Registers
    <3>3. Append(<<>>, m.isr) = <<m.isr>>
      OBVIOUS
    <3>4. ASSUME NEW k, k = [m EXCEPT !.rx = <<m.isr>>]
          PROVE  /\ Machine(k) /\ k.x = m.x /\ k.osr = m.osr /\ k.isr = m.isr
                 /\ k.tx = m.tx /\ k.rx = <<m.isr>>
      BY <3>4 DEF Machine
    <3>5. r = [m EXCEPT !.rx = <<m.isr>>]
      BY <2>5, <3>2, <3>3
    <3> QED
      BY <2>5, <3>4, <3>5
  <2> QED
    BY <2>1, <2>2, <2>3, <2>4, <2>5
<1>5. next = CASE m.pc = 4 -> (IF m.x = 0 THEN 10 ELSE 5) [] m.pc \in {9, 14} -> 1 [] OTHER -> m.pc + 1
  <2>1. /\ (i.op = "jmp") <=> m.pc \in {4, 9, 14}
        /\ m.pc = 4 => i.when = "!x" /\ i.to = 10
        /\ m.pc \in {9, 14} => i.when = "always" /\ i.to = 1
    BY EppOps
  <2> HIDE DEF i
  <2> QED
    BY <1>1, <2>1 DEF Jumps
<1>6. driven = IF m.pc = 5 THEN Pin("data", Taken(m.osr, 8)) ELSE <<>>
  <2>1. /\ m.pc = 5 => i.op = "out" /\ i.to = "pins" /\ i.n = 8
        /\ i.op \notin {"set", "mov"}
        /\ m.pc # 5 => (i.op = "out" => i.to # "pins")
    BY EppOps
  <2> HIDE DEF i
  <2> QED
    BY <1>1, <2>1, EppConfigIs DEF Driven
<1> HIDE DEF i
<1> QED
  BY <1>3, <1>4, <1>5, <1>6, Zenon

(* One cycle of EPP, and its delay, at each place of the program.          *)
LEMMA EppCycle ==
  ASSUME NEW m, Machine(m), m.delay = 0, m.pc \in 1 .. 14, NEW p, "data" \in DOMAIN p,
         FifoDepth \in Nat \ {0}, m.pc = 12 => m.rx = <<>>,
         NEW w, w = Whole(Cycle(EppConfig, m, p), Forever), NEW n, n = w.sm
  PROVE  /\ m.pc = 1 /\ m.tx = <<>> => Is(n, 1, m.x, m.osr, m.isr, m.tx, m.rx)
         /\ m.pc = 1 /\ m.tx # <<>> => Is(n, 2, m.x, Head(m.tx), m.isr, Tail(m.tx), m.rx)
         /\ m.pc = 2 => Is(n, 3, Head(m.osr), Shifted(m.osr, 1), m.isr, m.tx, m.rx)
         /\ m.pc = 3 => Is(n, 4, m.x, Shifted(m.osr, 23), m.isr, m.tx, m.rx)
         /\ m.pc = 4 => Is(n, IF m.x = 0 THEN 10 ELSE 5, m.x, m.osr, m.isr, m.tx, m.rx)
         /\ m.pc = 5 => Is(n, 6, m.x, Shifted(m.osr, 8), m.isr, m.tx, m.rx)
         /\ m.pc = 6 => Is(n, IF p["autofd"] = 0 THEN 7 ELSE 6, m.x, m.osr, m.isr, m.tx, m.rx)
         /\ m.pc = 7 => Is(n, 8, m.x, m.osr, m.isr, m.tx, m.rx)
         /\ m.pc = 8 => Is(n, IF p["autofd"] = 1 THEN 9 ELSE 8, m.x, m.osr, m.isr, m.tx, m.rx)
         /\ m.pc = 9 => Is(n, 1, m.x, m.osr, m.isr, m.tx, m.rx)
         /\ m.pc = 10 => Is(n, IF p["autofd"] = 0 THEN 11 ELSE 10, m.x, m.osr, m.isr, m.tx, m.rx)
         /\ m.pc = 11 => Is(n, 12, m.x, m.osr, <<p["d"]>>, m.tx, m.rx)
         /\ m.pc = 12 => Is(n, 13, m.x, m.osr, m.isr, m.tx, <<m.isr>>)
         /\ m.pc = 13 => Is(n, IF p["autofd"] = 1 THEN 14 ELSE 13, m.x, m.osr, m.isr, m.tx, m.rx)
         /\ m.pc = 14 => Is(n, 1, m.x, m.osr, m.isr, m.tx, m.rx)
<1> DEFINE i == Epp[m.pc]
           r == Registers(EppConfig, i, m, p)
           next == IF Jumps(i, m) THEN i.to ELSE IF m.pc = 14 THEN 1 ELSE m.pc + 1
           driven == Driven(EppConfig, i, m, p)
<1>1. /\ i = Epp[m.pc] /\ r = Registers(EppConfig, i, m, p)
      /\ next = IF Jumps(i, m) THEN i.to ELSE IF m.pc = 14 THEN 1 ELSE m.pc + 1
      /\ driven = Driven(EppConfig, i, m, p)
      /\ i.side = IF m.pc \in {7, 11, 12, 13} THEN 0 ELSE 1
  BY EppSides
<1>2. /\ Stalled(EppConfig, m, p) =>
              /\ Is(n, m.pc, m.x, m.osr, m.isr, m.tx, m.rx)
              /\ w.pins = Onto(Pin("busy", i.side), p)
      /\ ~Stalled(EppConfig, m, p) /\ Machine(r) =>
              /\ Is(n, next, r.x, r.osr, r.isr, r.tx, r.rx)
              /\ w.pins = Onto(driven, Onto(Pin("busy", i.side), p))
  BY EppRuns
<1>3. /\ Stalled(EppConfig, m, p) <=> \/ m.pc = 1 /\ m.tx = <<>>
                                      \/ m.pc \in {6, 10} /\ p["autofd"] # 0
                                      \/ m.pc \in {8, 13} /\ p["autofd"] # 1
      /\ Machine(r) /\ r.x = (IF m.pc = 2 THEN Head(m.osr) ELSE m.x)
      /\ r.osr = (CASE m.pc = 1 -> Head(m.tx) [] m.pc = 2 -> Shifted(m.osr, 1)
                    [] m.pc = 3 -> Shifted(m.osr, 23) [] m.pc = 5 -> Shifted(m.osr, 8)
                    [] OTHER -> m.osr)
      /\ r.isr = (IF m.pc = 11 THEN <<p["d"]>> ELSE m.isr)
      /\ r.tx = (IF m.pc = 1 THEN Tail(m.tx) ELSE m.tx)
      /\ r.rx = (IF m.pc = 12 THEN <<m.isr>> ELSE m.rx)
      /\ next = CASE m.pc = 4 -> (IF m.x = 0 THEN 10 ELSE 5) [] m.pc \in {9, 14} -> 1
                   [] OTHER -> m.pc + 1
      /\ driven = IF m.pc = 5 THEN Pin("data", Taken(m.osr, 8)) ELSE <<>>
  BY <1>1, EppActs
<1> HIDE DEF i, r, next, driven
<1>8. Stalled(EppConfig, m, p) => Is(n, m.pc, m.x, m.osr, m.isr, m.tx, m.rx)
  BY <1>2
<1>9. ~Stalled(EppConfig, m, p) => Is(n, next, r.x, r.osr, r.isr, r.tx, r.rx)
  BY <1>2, <1>3
<1>10. CASE m.pc = 1
  BY <1>1, <1>3, <1>8, <1>9, <1>10
<1>11. CASE m.pc = 2
  BY <1>1, <1>3, <1>8, <1>9, <1>11
<1>12. CASE m.pc = 3
  BY <1>1, <1>3, <1>8, <1>9, <1>12
<1>13. CASE m.pc = 4
  BY <1>1, <1>3, <1>8, <1>9, <1>13
<1>14. CASE m.pc = 5
  BY <1>1, <1>3, <1>8, <1>9, <1>14
<1>15. CASE m.pc = 6
  BY <1>1, <1>3, <1>8, <1>9, <1>15
<1>16. CASE m.pc = 7
  BY <1>1, <1>3, <1>8, <1>9, <1>16
<1>17. CASE m.pc = 8
  BY <1>1, <1>3, <1>8, <1>9, <1>17
<1>18. CASE m.pc = 9
  BY <1>1, <1>3, <1>8, <1>9, <1>18
<1>19. CASE m.pc = 10
  BY <1>1, <1>3, <1>8, <1>9, <1>19
<1>20. CASE m.pc = 11
  BY <1>1, <1>3, <1>8, <1>9, <1>20
<1>21. CASE m.pc = 12
  BY <1>1, <1>3, <1>8, <1>9, <1>21
<1>22. CASE m.pc = 13
  BY <1>1, <1>3, <1>8, <1>9, <1>22
<1>23. CASE m.pc = 14
  BY <1>1, <1>3, <1>8, <1>9, <1>23
<1> QED
  BY <1>10, <1>11, <1>12, <1>13, <1>14, <1>15, <1>16, <1>17, <1>18, <1>19, <1>20, <1>21, <1>22, <1>23

(* The levels it drives on nWait and, for the host that reads, on the data. *)
LEMMA EppDrives ==
  ASSUME NEW m, Machine(m), m.delay = 0, m.pc \in 1 .. 14, NEW p, "data" \in DOMAIN p,
         FifoDepth \in Nat \ {0}, m.pc = 12 => m.rx = <<>>,
         NEW w, w = Whole(Cycle(EppConfig, m, p), Forever)
  PROVE  /\ w.pins["busy"] = IF m.pc \in {7, 11, 12, 13} THEN 0 ELSE 1
         /\ w.pins["data"] = IF m.pc = 5 THEN Taken(m.osr, 8) ELSE p["data"]
<1> DEFINE i == Epp[m.pc]
           r == Registers(EppConfig, i, m, p)
           next == IF Jumps(i, m) THEN i.to ELSE IF m.pc = 14 THEN 1 ELSE m.pc + 1
           driven == Driven(EppConfig, i, m, p)
<1>1. /\ i = Epp[m.pc] /\ r = Registers(EppConfig, i, m, p)
      /\ next = IF Jumps(i, m) THEN i.to ELSE IF m.pc = 14 THEN 1 ELSE m.pc + 1
      /\ driven = Driven(EppConfig, i, m, p)
      /\ i.side = IF m.pc \in {7, 11, 12, 13} THEN 0 ELSE 1
  BY EppSides
<1>2. /\ Stalled(EppConfig, m, p) =>
              /\ Is(w.sm, m.pc, m.x, m.osr, m.isr, m.tx, m.rx)
              /\ w.pins = Onto(Pin("busy", i.side), p)
      /\ ~Stalled(EppConfig, m, p) /\ Machine(r) =>
              /\ Is(w.sm, next, r.x, r.osr, r.isr, r.tx, r.rx)
              /\ w.pins = Onto(driven, Onto(Pin("busy", i.side), p))
  BY EppRuns
<1>3. /\ Stalled(EppConfig, m, p) <=> \/ m.pc = 1 /\ m.tx = <<>>
                                      \/ m.pc \in {6, 10} /\ p["autofd"] # 0
                                      \/ m.pc \in {8, 13} /\ p["autofd"] # 1
      /\ Machine(r) /\ r.x = (IF m.pc = 2 THEN Head(m.osr) ELSE m.x)
      /\ r.osr = (CASE m.pc = 1 -> Head(m.tx) [] m.pc = 2 -> Shifted(m.osr, 1)
                    [] m.pc = 3 -> Shifted(m.osr, 23) [] m.pc = 5 -> Shifted(m.osr, 8)
                    [] OTHER -> m.osr)
      /\ r.isr = (IF m.pc = 11 THEN <<p["d"]>> ELSE m.isr)
      /\ r.tx = (IF m.pc = 1 THEN Tail(m.tx) ELSE m.tx)
      /\ r.rx = (IF m.pc = 12 THEN <<m.isr>> ELSE m.rx)
      /\ next = CASE m.pc = 4 -> (IF m.x = 0 THEN 10 ELSE 5) [] m.pc \in {9, 14} -> 1
                   [] OTHER -> m.pc + 1
      /\ driven = IF m.pc = 5 THEN Pin("data", Taken(m.osr, 8)) ELSE <<>>
  BY <1>1, EppActs
<1> HIDE DEF i, r, next, driven
<1>4. CASE Stalled(EppConfig, m, p)
  BY <1>1, <1>2, <1>3, <1>4, BusyShown
<1>5. CASE ~Stalled(EppConfig, m, p)
  BY <1>1, <1>2, <1>3, <1>5, BusyShown
<1> QED
  BY <1>4, <1>5

(* RunSm0 with EPP.                                                        *)
LEMMA EppSm0 ==
  ASSUME RunSm0, Running = "Epp", ~hw.armed, Machine(sm0), sm0.delay = 0, sm0.pc \in 1 .. 14,
         Lines \subseteq DOMAIN pins, "data" \in DOMAIN pins, sm0.pc = 12 => sm0.rx = <<>>
  PROVE  /\ "data" \in DOMAIN pins'
         /\ pins'["data"] = IF sm0.pc = 5 THEN Taken(sm0.osr, 8) ELSE pins["data"]
         /\ acked' = acked \/ (/\ host # "idle" /\ acked = <<>> /\ sm0.pc \in {7, 11, 12, 13}
                               /\ acked' = <<AtHost(pins')>>)
         /\ host # "idle" /\ sm0.pc \in {7, 11, 12, 13} => acked' # <<>>
         /\ ring' = ring /\ (overran' <=> overran) /\ (fought => fought')
         /\ sm0.pc = 1 /\ sm0.tx = <<>> => Is(sm0', 1, sm0.x, sm0.osr, sm0.isr, sm0.tx, sm0.rx)
         /\ sm0.pc = 1 /\ sm0.tx # <<>> =>
              Is(sm0', 2, sm0.x, Head(sm0.tx), sm0.isr, Tail(sm0.tx), sm0.rx)
         /\ sm0.pc = 2 => Is(sm0', 3, Head(sm0.osr), Shifted(sm0.osr, 1), sm0.isr, sm0.tx, sm0.rx)
         /\ sm0.pc = 3 => Is(sm0', 4, sm0.x, Shifted(sm0.osr, 23), sm0.isr, sm0.tx, sm0.rx)
         /\ sm0.pc = 4 => Is(sm0', IF sm0.x = 0 THEN 10 ELSE 5, sm0.x, sm0.osr, sm0.isr, sm0.tx, sm0.rx)
         /\ sm0.pc = 5 => Is(sm0', 6, sm0.x, Shifted(sm0.osr, 8), sm0.isr, sm0.tx, sm0.rx)
         /\ sm0.pc = 6 => Is(sm0', IF pins["autofd"] = 0 THEN 7 ELSE 6,
                             sm0.x, sm0.osr, sm0.isr, sm0.tx, sm0.rx)
         /\ sm0.pc = 7 => Is(sm0', 8, sm0.x, sm0.osr, sm0.isr, sm0.tx, sm0.rx)
         /\ sm0.pc = 8 => Is(sm0', IF pins["autofd"] = 1 THEN 9 ELSE 8,
                             sm0.x, sm0.osr, sm0.isr, sm0.tx, sm0.rx)
         /\ sm0.pc = 9 => Is(sm0', 1, sm0.x, sm0.osr, sm0.isr, sm0.tx, sm0.rx)
         /\ sm0.pc = 10 => Is(sm0', IF pins["autofd"] = 0 THEN 11 ELSE 10,
                              sm0.x, sm0.osr, sm0.isr, sm0.tx, sm0.rx)
         /\ sm0.pc = 11 => /\ \E v : Is(sm0', 12, sm0.x, sm0.osr, <<v>>, sm0.tx, sm0.rx)
                           /\ ~fought' => Is(sm0', 12, sm0.x, sm0.osr, <<pins["d"]>>, sm0.tx, sm0.rx)
         /\ sm0.pc = 12 => Is(sm0', 13, sm0.x, sm0.osr, sm0.isr, sm0.tx, <<sm0.isr>>)
         /\ sm0.pc = 13 => Is(sm0', IF pins["autofd"] = 1 THEN 14 ELSE 13,
                              sm0.x, sm0.osr, sm0.isr, sm0.tx, sm0.rx)
         /\ sm0.pc = 14 => Is(sm0', 1, sm0.x, sm0.osr, sm0.isr, sm0.tx, sm0.rx)
<1> DEFINE p == [pins EXCEPT !["d"] = DataRead]
           w == Whole(Cycle(EppConfig, sm0, p), Forever)
           back == [w.pins EXCEPT !["d"] = pins["d"]]
<1>1. Cfg.sm0 = EppConfig
  BY DEF Cfg, Configs
<1>2. /\ sm0' = w.sm /\ pins' = Followed(back) /\ acked' = Sees(pins')
      /\ ring' = ring /\ (overran' <=> overran)
      /\ (fought => fought')
      /\ w.sm.pc # sm0.pc /\ Instruction(EppConfig, sm0).op = "in" /\ Contended => fought'
  <2>1. w = Whole(Cycle(Cfg.sm0, sm0, [pins EXCEPT !["d"] = DataRead]), Forever)
    BY <1>1
  <2> HIDE DEF w
  <2>2. /\ sm0' = w.sm /\ pins' = Followed([w.pins EXCEPT !["d"] = pins["d"]])
        /\ acked' = Sees(Followed([w.pins EXCEPT !["d"] = pins["d"]]))
        /\ ring' = ring
    BY <2>1 DEF RunSm0
  <2>3. overran' <=> overran
    BY <2>1 DEF RunSm0
  <2>4. fought' = (fought \/ ((w.sm.pc # sm0.pc /\ Instruction(EppConfig, sm0).op = "in") /\ Contended))
    BY <1>1, <2>1 DEF RunSm0
  <2> QED
    BY <2>2, <2>3, <2>4
<1>3. /\ "data" \in DOMAIN p /\ p["data"] = pins["data"]
      /\ p["autofd"] = pins["autofd"] /\ p["d"] = DataRead
  BY DEF Lines
<1>4. w.pins = Cycle(EppConfig, sm0, p).pins
  BY DEF Whole, Cycle
<1>5. "data" \in DOMAIN w.pins /\ "busy" \in DOMAIN w.pins
  <2> DEFINE i == Instruction(EppConfig, sm0)
  <2>1. i = Epp[sm0.pc]
    BY EppConfigIs DEF Instruction
  <2>2. Sided(EppConfig, i) = Pin("busy", i.side)
    BY <2>1, EppSides, EppConfigIs DEF Sided
  <2> HIDE DEF i, p
  <2>3. \A l, k : {"data", "busy"} \subseteq DOMAIN Onto(l, Onto(Pin("busy", k), p))
    BY <1>3 DEF Onto, Pin
  <2>4. \A k : {"data", "busy"} \subseteq DOMAIN Onto(Pin("busy", k), p)
    BY <1>3 DEF Onto, Pin
  <2>5. i = Instruction(EppConfig, sm0)
    BY DEF i
  <2> QED
    BY <1>4, <2>2, <2>3, <2>4, <2>5 DEF Cycle
<1> DEFINE n == w.sm
<1>6. /\ w.pins["busy"] = IF sm0.pc \in {7, 11, 12, 13} THEN 0 ELSE 1
      /\ w.pins["data"] = IF sm0.pc = 5 THEN Taken(sm0.osr, 8) ELSE p["data"]
  <2>1. w = Whole(Cycle(EppConfig, sm0, p), Forever) /\ FifoDepth \in Nat \ {0}
    BY PortAssumption
  <2> HIDE DEF p, w
  <2> QED
    BY <1>3, <2>1, EppDrives
<1>7. /\ "data" \in DOMAIN pins' /\ pins'["data"] = w.pins["data"]
      /\ "busy" \in DOMAIN pins' /\ pins'["busy"] = w.pins["busy"]
  <2>1. /\ "data" \in DOMAIN back /\ back["data"] = w.pins["data"]
        /\ "busy" \in DOMAIN back /\ back["busy"] = w.pins["busy"]
    BY <1>5
  <2>2. {"data", "busy"} \cap {FollowerConfig.out, FollowerConfig.set, FollowerConfig.side} = {}
    BY DEF FollowerConfig, Config
  <2> HIDE DEF back
  <2>3. \A l \in {"data", "busy"} : l \in DOMAIN back /\ l \notin {FollowerConfig.out, FollowerConfig.set, FollowerConfig.side}
    BY <2>1, <2>2
  <2>4. \A l \in {"data", "busy"} : /\ l \in DOMAIN Cycle(FollowerConfig, Idle, back).pins
                                    /\ Cycle(FollowerConfig, Idle, back).pins[l] = back[l]
    BY <2>3, CycleLeaves
  <2>5. pins' = back \/ pins' = Cycle(FollowerConfig, Idle, back).pins
    BY <1>2 DEF Followed
  <2> QED
    BY <2>1, <2>4, <2>5
<1>8. AckLine = "busy"
  BY DEF AckLine
<1>10. /\ acked' = acked \/ (/\ host # "idle" /\ acked = <<>> /\ sm0.pc \in {7, 11, 12, 13}
                             /\ acked' = <<AtHost(pins')>>)
       /\ host # "idle" /\ sm0.pc \in {7, 11, 12, 13} => acked' # <<>>
  <2>1. acked' = IF host # "idle" /\ acked = <<>> /\ pins'["busy"] = 0 THEN <<AtHost(pins')>> ELSE acked
    BY <1>2, <1>8 DEF Sees
  <2>2. (pins'["busy"] = 0) <=> sm0.pc \in {7, 11, 12, 13}
    BY <1>6, <1>7
  <2>3. <<AtHost(pins')>> # <<>>
    OBVIOUS
  <2> QED
    BY <2>1, <2>2, <2>3
<1>11. /\ "data" \in DOMAIN pins'
       /\ pins'["data"] = IF sm0.pc = 5 THEN Taken(sm0.osr, 8) ELSE pins["data"]
       /\ ring' = ring /\ (overran' <=> overran) /\ (fought => fought')
  BY <1>2, <1>3, <1>6, <1>7
<1>12. sm0.pc = 11 /\ n.pc = 12 /\ ~fought' => DataRead = pins["d"]
  <2>1. sm0.pc = 11 => Instruction(EppConfig, sm0).op = "in"
    BY EppFields, EppConfigIs DEF Instruction
  <2> HIDE DEF w
  <2> QED
    BY <1>2, <2>1 DEF DataRead
<1>13. n = w.sm /\ sm0' = n
  BY <1>2
<1>14. w = Whole(Cycle(EppConfig, sm0, p), Forever) /\ FifoDepth \in Nat \ {0}
  BY PortAssumption
<1> HIDE DEF p, n, w
<1>15. /\ sm0.pc = 1 /\ sm0.tx = <<>> => Is(n, 1, sm0.x, sm0.osr, sm0.isr, sm0.tx, sm0.rx)
       /\ sm0.pc = 1 /\ sm0.tx # <<>> => Is(n, 2, sm0.x, Head(sm0.tx), sm0.isr, Tail(sm0.tx), sm0.rx)
       /\ sm0.pc = 2 => Is(n, 3, Head(sm0.osr), Shifted(sm0.osr, 1), sm0.isr, sm0.tx, sm0.rx)
       /\ sm0.pc = 3 => Is(n, 4, sm0.x, Shifted(sm0.osr, 23), sm0.isr, sm0.tx, sm0.rx)
       /\ sm0.pc = 4 => Is(n, IF sm0.x = 0 THEN 10 ELSE 5, sm0.x, sm0.osr, sm0.isr, sm0.tx, sm0.rx)
       /\ sm0.pc = 5 => Is(n, 6, sm0.x, Shifted(sm0.osr, 8), sm0.isr, sm0.tx, sm0.rx)
       /\ sm0.pc = 6 => Is(n, IF p["autofd"] = 0 THEN 7 ELSE 6, sm0.x, sm0.osr, sm0.isr, sm0.tx, sm0.rx)
       /\ sm0.pc = 7 => Is(n, 8, sm0.x, sm0.osr, sm0.isr, sm0.tx, sm0.rx)
       /\ sm0.pc = 8 => Is(n, IF p["autofd"] = 1 THEN 9 ELSE 8, sm0.x, sm0.osr, sm0.isr, sm0.tx, sm0.rx)
       /\ sm0.pc = 9 => Is(n, 1, sm0.x, sm0.osr, sm0.isr, sm0.tx, sm0.rx)
       /\ sm0.pc = 10 => Is(n, IF p["autofd"] = 0 THEN 11 ELSE 10, sm0.x, sm0.osr, sm0.isr, sm0.tx, sm0.rx)
       /\ sm0.pc = 11 => Is(n, 12, sm0.x, sm0.osr, <<p["d"]>>, sm0.tx, sm0.rx)
       /\ sm0.pc = 12 => Is(n, 13, sm0.x, sm0.osr, sm0.isr, sm0.tx, <<sm0.isr>>)
       /\ sm0.pc = 13 => Is(n, IF p["autofd"] = 1 THEN 14 ELSE 13, sm0.x, sm0.osr, sm0.isr, sm0.tx, sm0.rx)
       /\ sm0.pc = 14 => Is(n, 1, sm0.x, sm0.osr, sm0.isr, sm0.tx, sm0.rx)
  BY <1>3, <1>13, <1>14, EppCycle
<1>16. sm0.pc = 11 => /\ \E v : Is(n, 12, sm0.x, sm0.osr, <<v>>, sm0.tx, sm0.rx)
                      /\ ~fought' => Is(n, 12, sm0.x, sm0.osr, <<pins["d"]>>, sm0.tx, sm0.rx)
  <2>1. sm0.pc = 11 => Is(n, 12, sm0.x, sm0.osr, <<p["d"]>>, sm0.tx, sm0.rx)
    BY <1>15
  <2>2. sm0.pc = 11 => n.pc = 12
    BY <2>1 DEF Is
  <2> QED
    BY <1>3, <1>12, <2>1, <2>2
<1>17. sm0' = n /\ p["autofd"] = pins["autofd"]
  BY <1>3, <1>13
<1>18. /\ sm0.pc = 1 /\ sm0.tx = <<>> => Is(sm0', 1, sm0.x, sm0.osr, sm0.isr, sm0.tx, sm0.rx)
       /\ sm0.pc = 1 /\ sm0.tx # <<>> =>
            Is(sm0', 2, sm0.x, Head(sm0.tx), sm0.isr, Tail(sm0.tx), sm0.rx)
       /\ sm0.pc = 2 => Is(sm0', 3, Head(sm0.osr), Shifted(sm0.osr, 1), sm0.isr, sm0.tx, sm0.rx)
       /\ sm0.pc = 3 => Is(sm0', 4, sm0.x, Shifted(sm0.osr, 23), sm0.isr, sm0.tx, sm0.rx)
       /\ sm0.pc = 4 => Is(sm0', IF sm0.x = 0 THEN 10 ELSE 5, sm0.x, sm0.osr, sm0.isr, sm0.tx, sm0.rx)
       /\ sm0.pc = 5 => Is(sm0', 6, sm0.x, Shifted(sm0.osr, 8), sm0.isr, sm0.tx, sm0.rx)
       /\ sm0.pc = 6 => Is(sm0', IF pins["autofd"] = 0 THEN 7 ELSE 6,
                           sm0.x, sm0.osr, sm0.isr, sm0.tx, sm0.rx)
  BY <1>15, <1>17
<1>19. /\ sm0.pc = 7 => Is(sm0', 8, sm0.x, sm0.osr, sm0.isr, sm0.tx, sm0.rx)
       /\ sm0.pc = 8 => Is(sm0', IF pins["autofd"] = 1 THEN 9 ELSE 8,
                           sm0.x, sm0.osr, sm0.isr, sm0.tx, sm0.rx)
       /\ sm0.pc = 9 => Is(sm0', 1, sm0.x, sm0.osr, sm0.isr, sm0.tx, sm0.rx)
       /\ sm0.pc = 10 => Is(sm0', IF pins["autofd"] = 0 THEN 11 ELSE 10,
                            sm0.x, sm0.osr, sm0.isr, sm0.tx, sm0.rx)
  BY <1>15, <1>17
<1>20. /\ sm0.pc = 11 => /\ \E v : Is(sm0', 12, sm0.x, sm0.osr, <<v>>, sm0.tx, sm0.rx)
                         /\ ~fought' => Is(sm0', 12, sm0.x, sm0.osr, <<pins["d"]>>, sm0.tx, sm0.rx)
       /\ sm0.pc = 12 => Is(sm0', 13, sm0.x, sm0.osr, sm0.isr, sm0.tx, <<sm0.isr>>)
       /\ sm0.pc = 13 => Is(sm0', IF pins["autofd"] = 1 THEN 14 ELSE 13,
                            sm0.x, sm0.osr, sm0.isr, sm0.tx, sm0.rx)
       /\ sm0.pc = 14 => Is(sm0', 1, sm0.x, sm0.osr, sm0.isr, sm0.tx, sm0.rx)
  BY <1>15, <1>16, <1>17
<1> QED
  BY <1>10, <1>11, <1>18, <1>19, <1>20, Zenon

-----------------------------------------------------------------------------
(* EPP: where the program waits, and what each instruction preserves.      *)

(* Where the program of EPP comes to a wait.                               *)
LEMMA EppWaits ==
  ASSUME PioWaits, Running = "Epp", Machine(sm0), sm0.delay = 0, sm0.pc \in 1 .. 14,
         sm0.pc = 12 => sm0.rx = <<>>
  PROVE  \/ sm0.pc = 1 /\ sm0.tx = <<>>
         \/ sm0.pc \in {6, 10} /\ pins["autofd"] # 0
         \/ sm0.pc \in {8, 13} /\ pins["autofd"] # 1
<1>1. Stalled(EppConfig, sm0, pins)
  <2>1. Cfg.sm0 = EppConfig
    BY DEF Cfg, Configs
  <2> QED
    BY <2>1 DEF PioWaits, Stands
<1>2. FifoDepth \in Nat \ {0}
  BY PortAssumption
<1> QED
  BY <1>1, <1>2, EppActs

(* In EPP nothing but the host moves nAutoFd.                              *)
LEMMA EppHolds ==
  ASSUME MuxInv, HostQuiet, LinesInv, Running = "Epp", active \in Phys \cup {"None"}
  PROVE  /\ active \in {"Epp", "None"} /\ Settled /\ ~hw.armed /\ host \in {"idle", "read", "write"}
         /\ pins["autofd"] = (IF host = "idle" THEN 1 ELSE 0)
         /\ (Strobing <=> host = "write")
         /\ host # "idle" => active = "Epp"
         /\ host = "idle" => acked = <<>>
<1>1. active \in {"Epp", "None"}
  BY RunningEpp
<1>2. Settled /\ host \in {"idle", "read", "write"} /\ (host # "idle" => active = "Epp")
  BY <1>1 DEF LinesInv, HostQuiet
<1>3. ~Asking /\ peer.pc # "strobing"
  BY <1>2 DEF Settled, Asking
<1>4. pins["autofd"] = IF host = "idle" THEN 1 ELSE 0
  BY <1>2, <1>3 DEF LinesInv
<1>5. ~hw.armed
  BY DEF LinesInv, RingFed
<1>6. host = "idle" => acked = <<>>
  BY DEF LinesInv
<1>7. Strobing <=> host = "write"
  BY <1>3 DEF Strobing
<1> QED
  BY <1>1, <1>2, <1>4, <1>5, <1>6, <1>7

LEMMA EppSent ==
  ASSUME MuxInv, HostQuiet, LinesInv, BytesInv, Running = "Epp", active \in Phys \cup {"None"}
  PROVE  /\ Listed(Sent) /\ Len(written) \in Nat
         /\ host = "write" => Len(Sent) = Len(written) + 1 /\ Sent[Len(written) + 1] = pins["d"]
                              /\ Sent = Append(written, pins["d"])
         /\ host # "write" => Sent = written
<1>1. Strobing <=> host = "write"
  BY EppHolds
<1>2. Listed(written)
  BY DEF BytesInv
<1> QED
  BY <1>1, <1>2, SentIs DEF Sent

(* Steps of the program that take no word and hand none over.              *)
LEMMA EppMoves ==
  ASSUME Counts, Queue, UNCHANGED <<host, written, taken, rev, got, awaiting>>,
         sm0'.tx = sm0.tx, sm0'.rx = sm0.rx, Replying' <=> Replying, Receiving' <=> Receiving,
         (sm0'.pc = 12) <=> (sm0.pc = 12), host = "write" => ((sm0'.pc = 13) <=> (sm0.pc = 13))
  PROVE  Counts' /\ Queue'
<1>1. (ReplyWaits' <=> ReplyWaits) /\ (CommandWaits' <=> CommandWaits) /\ Reply' = Reply
  BY DEF ReplyWaits, CommandWaits, Reply
<1>2. Queue'
  BY <1>1 DEF Queue
<1>3. (/\ Len(got) <= Len(rev) /\ Len(rev) <= Len(got) + 1 /\ Len(rev) <= Len(taken)
       /\ Len(written) <= Len(got) + 1
       /\ sm0.rx # <<>> => sm0.rx = <<sm0.rx[1]>> /\ awaiting /\ Len(rev) = Len(got)
       /\ awaiting => Len(rev) = Len(taken)
       /\ Replying => Len(rev) = Len(got) + 1
       /\ Receiving => awaiting /\ Len(rev) = Len(got) /\ sm0.rx = <<>>
       /\ host = "write" => Len(got) = Len(written))'
  BY DEF Counts
<1>4. (host = "write" /\ sm0'.pc \in {12, 13}) <=> (host = "write" /\ sm0.pc \in {12, 13})
  OBVIOUS
<1>5. (Len(taken) + (IF sm0.rx # <<>> \/ sm0.pc = 12 THEN 1 ELSE 0)
         = Len(written) + (IF host = "write" /\ sm0.pc \in {12, 13} THEN 1 ELSE 0))'
  BY <1>4 DEF Counts
<1> QED
  BY <1>2, <1>3, <1>5 DEF Counts

(* What the host is shown changes with the bytes and the pins' directions. *)
LEMMA ShownKept ==
  ASSUME UNCHANGED <<hw, rev>>
  PROVE  Shown' = Shown /\ (got' = got => (ReadSo' <=> ReadSo))
<1>1. (PicoDrivesData' <=> PicoDrivesData) /\ rev' = rev
  BY DEF PicoDrivesData
<1>2. Shown' = Shown
  BY <1>1 DEF Shown, EppReads, Floating
<1>3. got' = got => (ReadSo' <=> ReadSo)
  BY <1>1 DEF ReadSo, EppReads, Floating
<1> QED
  BY <1>2, <1>3

(* What RunSm0 leaves alone in EPP.                                        *)
LEMMA EppFrame ==
  ASSUME MuxInv, NegInv, HostQuiet, LinesInv, RunSm0, Running = "Epp"
  PROVE  /\ UNCHANGED <<active, leaving, hw, host, peer, sm1, written, taken, rev, got, awaiting>>
         /\ (Running' = Running) /\ (ghosts' <=> ghosts) /\ active \in Phys \cup {"None"}
         /\ pins'["d"] = pins["d"] /\ pins'["autofd"] = pins["autofd"]
         /\ (Strobing' <=> Strobing) /\ Sent' = Sent
<1>1. /\ UNCHANGED <<active, leaving, hw, host, peer, sm1, written, taken, rev, got, awaiting>>
      /\ (ghosts' <=> ghosts) /\ active \in Phys \cup {"None"}
  BY DEF RunSm0, muxVars, negVars
<1>2. Lines \subseteq DOMAIN pins
  BY DEF NegInv, NegShape
<1>3. pins'["d"] = pins["d"] /\ pins'["autofd"] = pins["autofd"]
  BY <1>2, Sm0Keeps DEF HostDriven, Lines
<1>4. (Running' = Running) /\ (Strobing' <=> Strobing)
  BY <1>1 DEF Running, Strobing
<1>5. Sent' = Sent
  BY <1>1, <1>3, <1>4 DEF Sent
<1> QED
  BY <1>1, <1>3, <1>4, <1>5

Core   == Counts /\ Queue /\ Word /\ Turns
Frozen == UNCHANGED <<host, written, taken, rev, got, awaiting>> /\ Shown' = Shown
Sized  == Len(rev) \in Nat /\ Len(got) \in Nat /\ Len(written) \in Nat /\ Len(taken) \in Nat

(* The instructions of EPP, one after the other.                           *)
LEMMA EppStays ==
  ASSUME Core, Frozen, Is(sm0', sm0.pc, sm0.x, sm0.osr, sm0.isr, sm0.tx, sm0.rx),
         acked' = acked, pins'["data"] = pins["data"]
  PROVE  Core'
<1>1. /\ sm0'.pc = sm0.pc /\ sm0'.x = sm0.x /\ sm0'.osr = sm0.osr /\ sm0'.tx = sm0.tx
      /\ sm0'.rx = sm0.rx /\ host' = host /\ rev' = rev /\ Shown' = Shown
  BY DEF Is, Frozen
<1>2. (Replying' <=> Replying) /\ (Receiving' <=> Receiving) /\ Reply' = Reply
  BY <1>1 DEF Replying, Receiving, Reply
<1>3. Counts' /\ Queue'
  BY <1>1, <1>2, EppMoves DEF Core, Frozen
<1>4. Word'
  BY <1>1, <1>2 DEF Core, Word
<1>5. Turns'
  BY <1>1, <1>2 DEF Core, Turns
<1> QED
  BY <1>3, <1>4, <1>5 DEF Core

LEMMA EppPulls ==
  ASSUME Core, Frozen, Sized, sm0.pc = 1, sm0.tx # <<>>,
         Len(rev) = Len(got) + 1 => \E b \in Byte : Reply = EncodeReverseCmd(b),
         Is(sm0', 2, sm0.x, Head(sm0.tx), sm0.isr, Tail(sm0.tx), sm0.rx), acked' = acked
  PROVE  Core'
<1>1. /\ sm0'.pc = 2 /\ sm0'.osr = Head(sm0.tx) /\ sm0'.tx = Tail(sm0.tx) /\ sm0'.rx = sm0.rx
      /\ host' = host /\ rev' = rev /\ got' = got /\ taken' = taken /\ written' = written
      /\ (awaiting' <=> awaiting)
  BY DEF Is, Frozen
<1>2. ~Replying /\ ~Receiving /\ Reply' = Reply
  BY <1>1 DEF Replying, Receiving, Reply
<1>3. (Len(rev) = Len(got) + 1 => Head(Reply) = 1) /\ Head(EncodeForwardCmd) = 0
  BY ReplyArrives, ForwardBit
<1>4. (Replying' <=> Head(sm0'.osr) = 1) /\ (Receiving' <=> Head(sm0'.osr) = 0)
  BY <1>1 DEF Replying, Receiving
<1>5. host # "read" /\ (host = "write" => Len(rev) # Len(got) + 1)
  BY <1>1 DEF Core, Turns, Counts, Sized
<1>6. CASE ReplyWaits
  <2>1. sm0'.osr = Reply /\ sm0'.tx = IF CommandWaits THEN <<EncodeForwardCmd>> ELSE <<>>
    <3>1. sm0.tx = IF CommandWaits THEN <<Reply, EncodeForwardCmd>> ELSE <<Reply>>
      BY <1>6, Zenon DEF Core, Queue
    <3> QED
      BY <1>1, <3>1, Pulled
  <2>2. Replying' /\ ~Receiving'
    BY <1>3, <1>4, <1>6, <2>1 DEF ReplyWaits
  <2>3. ~ReplyWaits' /\ (CommandWaits' <=> CommandWaits)
    BY <1>1, <1>2, <2>2 DEF ReplyWaits, CommandWaits
  <2>4. Queue'
    BY <2>1, <2>3 DEF Queue
  <2>5. Len(rev) = Len(got) + 1
    BY <1>6 DEF ReplyWaits
  <2>6. Counts'
    BY <1>1, <2>2, <2>5 DEF Core, Counts
  <2>7. Word'
    BY <1>1, <1>2, <2>1, <2>2 DEF Word
  <2>8. Turns'
    BY <1>1, <1>5, <2>5 DEF Core, Turns
  <2> QED
    BY <2>4, <2>6, <2>7, <2>8 DEF Core
<1>7. CASE ~ReplyWaits
  <2>1. CommandWaits /\ sm0'.osr = EncodeForwardCmd /\ sm0'.tx = <<>>
    <3>1. CommandWaits /\ sm0.tx = <<EncodeForwardCmd>>
      BY <1>7, Zenon DEF Core, Queue
    <3> QED
      BY <1>1, <3>1, Pulled
  <2>2. ~Replying' /\ Receiving'
    BY <1>3, <1>4, <2>1
  <2>3. Len(rev) = Len(got)
    BY <1>2, <1>7 DEF Core, Counts, ReplyWaits, Sized
  <2>4. ~ReplyWaits' /\ ~CommandWaits'
    BY <1>1, <2>2, <2>3 DEF ReplyWaits, CommandWaits, Sized
  <2>5. Queue'
    BY <2>1, <2>4 DEF Queue
  <2>6. Counts'
    BY <1>1, <2>1, <2>2, <2>3 DEF Core, Counts, CommandWaits
  <2>7. Word'
    BY <1>1, <2>1, <2>2 DEF Word
  <2>8. Turns'
    BY <1>1, <1>5, <2>2 DEF Core, Turns
  <2> QED
    BY <2>5, <2>6, <2>7, <2>8 DEF Core
<1> QED
  BY <1>6, <1>7

LEMMA EppShifts ==
  ASSUME Core, Frozen, acked' = acked, pins'["data"] = pins["data"],
         Len(rev) = Len(got) + 1 => \E b \in Byte : Reply = EncodeReverseCmd(b),
         \/ sm0.pc = 2 /\ Is(sm0', 3, Head(sm0.osr), Shifted(sm0.osr, 1), sm0.isr, sm0.tx, sm0.rx)
         \/ sm0.pc = 3 /\ Is(sm0', 4, sm0.x, Shifted(sm0.osr, 23), sm0.isr, sm0.tx, sm0.rx)
         \/ sm0.pc = 4 /\ Is(sm0', IF sm0.x = 0 THEN 10 ELSE 5, sm0.x, sm0.osr, sm0.isr, sm0.tx, sm0.rx)
  PROVE  Core'
<1>1. host' = host /\ rev' = rev /\ Reply' = Reply
  BY DEF Frozen, Reply
<1>2. (Len(rev) = Len(got) + 1 => Head(Reply) = 1) /\ Head(EncodeForwardCmd) = 0
  BY ReplyArrives, ForwardBit
<1>3. CASE sm0.pc = 2
  <2>1. /\ sm0'.pc = 3 /\ sm0'.x = Head(sm0.osr) /\ sm0'.osr = Shifted(sm0.osr, 1)
        /\ sm0'.tx = sm0.tx /\ sm0'.rx = sm0.rx
    BY <1>3 DEF Is
  <2>2. (Replying' <=> Replying) /\ (Receiving' <=> Receiving)
    BY <1>3, <2>1 DEF Replying, Receiving
  <2>3. Counts' /\ Queue'
    BY <1>3, <2>1, <2>2, EppMoves DEF Core, Frozen
  <2>4. Word'
    BY <1>1, <1>2, <1>3, <2>1 DEF Core, Word, Counts
  <2>5. Turns'
    BY <1>1, <1>3, <2>1, <2>2 DEF Core, Turns
  <2> QED
    BY <2>3, <2>4, <2>5 DEF Core
<1>4. CASE sm0.pc = 3
  <2>1. /\ sm0'.pc = 4 /\ sm0'.x = sm0.x /\ sm0'.osr = Shifted(sm0.osr, 23)
        /\ sm0'.tx = sm0.tx /\ sm0'.rx = sm0.rx
    BY <1>4 DEF Is
  <2>2. (Replying' <=> Replying) /\ (Receiving' <=> Receiving)
    BY <1>4, <2>1 DEF Replying, Receiving
  <2>3. Counts' /\ Queue'
    BY <1>4, <2>1, <2>2, EppMoves DEF Core, Frozen
  <2>4. Word'
    BY <1>1, <1>4, <2>1 DEF Core, Word
  <2>5. Turns'
    BY <1>1, <1>4, <2>1, <2>2 DEF Core, Turns
  <2> QED
    BY <2>3, <2>4, <2>5 DEF Core
<1>5. CASE sm0.pc = 4
  <2>1. /\ sm0'.pc = (IF sm0.x = 0 THEN 10 ELSE 5) /\ sm0'.osr = sm0.osr
        /\ sm0'.tx = sm0.tx /\ sm0'.rx = sm0.rx /\ sm0.x \in {0, 1}
    BY <1>5 DEF Is, Core, Word
  <2>2. (Replying' <=> Replying) /\ (Receiving' <=> Receiving)
    BY <1>5, <2>1 DEF Replying, Receiving
  <2>3. Counts' /\ Queue'
    BY <1>5, <2>1, <2>2, EppMoves DEF Core, Frozen
  <2>4. Word'
    BY <1>1, <1>5, <2>1 DEF Core, Word
  <2>5. Turns'
    BY <1>1, <1>5, <2>1, <2>2 DEF Core, Turns
  <2> QED
    BY <2>3, <2>4, <2>5 DEF Core
<1> QED
  BY <1>3, <1>4, <1>5

LEMMA EppReplies ==
  ASSUME Core, Frozen, Sized,
         Len(rev) = Len(got) + 1 => \E b \in Byte : Reply = EncodeReverseCmd(b) /\ rev[Len(rev)] = b,
         host \in {"idle", "read", "write"}, pins["autofd"] = IF host = "idle" THEN 1 ELSE 0,
         pins'["data"] = IF sm0.pc = 5 THEN Taken(sm0.osr, 8) ELSE pins["data"],
         acked' = acked \/ (acked = <<>> /\ sm0.pc = 7 /\ acked' = <<EppReads(pins'["data"])>>),
         host # "idle" /\ sm0.pc = 7 => acked' # <<>>,
         \/ sm0.pc = 5 /\ Is(sm0', 6, sm0.x, Shifted(sm0.osr, 8), sm0.isr, sm0.tx, sm0.rx)
         \/ sm0.pc = 6 /\ pins["autofd"] = 0 /\ Is(sm0', 7, sm0.x, sm0.osr, sm0.isr, sm0.tx, sm0.rx)
         \/ sm0.pc = 7 /\ Is(sm0', 8, sm0.x, sm0.osr, sm0.isr, sm0.tx, sm0.rx)
         \/ sm0.pc = 8 /\ pins["autofd"] = 1 /\ Is(sm0', 9, sm0.x, sm0.osr, sm0.isr, sm0.tx, sm0.rx)
         \/ sm0.pc = 9 /\ Is(sm0', 1, sm0.x, sm0.osr, sm0.isr, sm0.tx, sm0.rx)
  PROVE  Core'
<1>1. /\ sm0.pc \in 5 .. 9 /\ sm0'.pc = (IF sm0.pc = 9 THEN 1 ELSE sm0.pc + 1)
      /\ sm0'.tx = sm0.tx /\ sm0'.rx = sm0.rx /\ host' = host /\ rev' = rev /\ Shown' = Shown
  BY DEF Is, Frozen
<1>2. /\ sm0.pc = 6 => host # "idle"
      /\ sm0.pc = 8 => host = "idle"
  OBVIOUS
<1>3. sm0.pc = 7 => host = "read"
  BY DEF Core, Turns
<1>4. (Replying' <=> Replying) /\ (Receiving' <=> Receiving)
  <2>1. CASE sm0.pc \in {5, 6}
    BY <1>1, <2>1 DEF Replying, Receiving
  <2>2. CASE sm0.pc = 7
    BY <1>1, <1>3, <2>2 DEF Replying, Receiving
  <2>3. CASE sm0.pc \in {8, 9}
    BY <1>1, <1>2, <2>3 DEF Replying, Receiving
  <2> QED
    BY <1>1, <2>1, <2>2, <2>3
<1>5. Counts' /\ Queue'
  <2>1. ((sm0'.pc = 12) <=> (sm0.pc = 12)) /\ ((sm0'.pc = 13) <=> (sm0.pc = 13))
    BY <1>1
  <2> QED
    BY <1>1, <1>4, <2>1, EppMoves DEF Core, Frozen
<1>6. Word'
  <2>1. sm0.pc = 5 => pins'["data"] = rev[Len(rev)]
    <3> SUFFICES ASSUME sm0.pc = 5 PROVE pins'["data"] = rev[Len(rev)]
      OBVIOUS
    <3>0. Len(rev) = Len(got) + 1
      BY DEF Core, Counts, Replying
    <3>1. PICK b \in Byte : Reply = EncodeReverseCmd(b) /\ rev[Len(rev)] = b
      BY <3>0
    <3>2. Taken(Shifted(Shifted(Reply, 1), 23), 8) = b
      BY <3>1, ReplyArrives
    <3> QED
      BY <3>1, <3>2 DEF Core, Word
  <2> QED
    BY <1>1, <2>1 DEF Core, Word
<1>7. Turns'
  <2>1. host = "write" => sm0.pc \notin 5 .. 9
    BY DEF Core, Turns, Receiving
  <2>2. sm0.pc = 6 => host = "read"
    BY <1>1, <1>2, <2>1
  <2>3. sm0.pc = 7 => acked = <<>> /\ acked' = <<Shown>>
    <3> SUFFICES ASSUME sm0.pc = 7 PROVE acked = <<>> /\ acked' = <<Shown>>
      OBVIOUS
    <3>1. acked = <<>> /\ pins'["data"] = rev[Len(rev)]
      BY <1>3 DEF Core, Turns, Word
    <3>2. acked' = <<EppReads(pins'["data"])>>
      BY <1>3, <3>1
    <3> QED
      BY <3>1, <3>2 DEF Shown
  <2>4. host = "read" /\ sm0'.pc = 8 => acked' = <<acked'[1]>> /\ acked'[1] = Shown
    <3>1. sm0'.pc = 8 => sm0.pc = 7
      BY <1>1
    <3>2. ASSUME NEW v, acked' = <<v>> PROVE acked' = <<acked'[1]>> /\ acked'[1] = v
      BY <3>2
    <3> QED
      BY <2>3, <3>1, <3>2
  <2>5. host = "write" => FALSE
    BY <1>1, <2>1
  <2>6. host # "idle" /\ sm0'.pc \notin {8, 12, 13} => acked' = <<>>
    <3>1. sm0'.pc # 8 => sm0.pc # 7
      BY <1>1
    <3>2. sm0.pc # 7 => acked' = acked
      OBVIOUS
    <3>3. host # "idle" => sm0.pc # 8 /\ sm0.pc # 9
      BY <1>2, <2>5 DEF Core, Turns
    <3> QED
      BY <1>1, <3>1, <3>2, <3>3 DEF Core, Turns
  <2>7. host = "read" => sm0'.pc \in 6 .. 8
    BY <1>1, <1>2 DEF Core, Turns
  <2> QED
    BY <1>1, <2>2, <2>4, <2>5, <2>6, <2>7 DEF Turns
<1> QED
  BY <1>5, <1>6, <1>7 DEF Core

LEMMA EppListens ==
  ASSUME Core, Frozen, Sized, pins'["data"] = pins["data"],
         host \in {"idle", "read", "write"}, pins["autofd"] = IF host = "idle" THEN 1 ELSE 0,
         acked' = acked \/ (acked = <<>> /\ sm0.pc \in {11, 12, 13}),
         host # "idle" /\ sm0.pc \in {11, 12, 13} => acked' # <<>>,
         \/ sm0.pc = 10 /\ pins["autofd"] = 0 /\ Is(sm0', 11, sm0.x, sm0.osr, sm0.isr, sm0.tx, sm0.rx)
         \/ sm0.pc = 13 /\ pins["autofd"] = 1 /\ Is(sm0', 14, sm0.x, sm0.osr, sm0.isr, sm0.tx, sm0.rx)
         \/ sm0.pc = 14 /\ Is(sm0', 1, sm0.x, sm0.osr, sm0.isr, sm0.tx, sm0.rx)
  PROVE  Core'
<1>1. /\ sm0.pc \in {10, 13, 14} /\ sm0'.pc = (IF sm0.pc = 14 THEN 1 ELSE sm0.pc + 1)
      /\ sm0'.tx = sm0.tx /\ sm0'.rx = sm0.rx /\ host' = host /\ rev' = rev
  BY DEF Is, Frozen
<1>2. (Replying' <=> Replying) /\ (Receiving' <=> Receiving)
  BY <1>1 DEF Replying, Receiving
<1>3. (sm0.pc = 10 => host = "write") /\ (sm0.pc \in {13, 14} => host = "idle")
  BY DEF Core, Turns, Receiving
<1>4. Counts' /\ Queue'
  <2>1. /\ (sm0'.pc = 12) <=> (sm0.pc = 12)
        /\ host = "write" => ((sm0'.pc = 13) <=> (sm0.pc = 13))
    BY <1>1, <1>3
  <2> QED
    BY <1>1, <1>2, <2>1, EppMoves DEF Core, Frozen
<1>5. Word'
  BY <1>1 DEF Word
<1>6. Turns'
  BY <1>1, <1>2, <1>3 DEF Core, Turns, Receiving
<1> QED
  BY <1>4, <1>5, <1>6 DEF Core

LEMMA EppSamples ==
  ASSUME Core, Frozen, Sized, host # "idle" => acked' # <<>>, sm0.pc = 11, sm0'.pc = 12,
         sm0'.tx = sm0.tx, sm0'.rx = sm0.rx
  PROVE  Core'
<1>1. host = "write" /\ Receiving /\ ~Replying /\ Receiving' /\ ~Replying'
  BY DEF Core, Turns, Receiving, Replying
<1>2. host' = host /\ rev' = rev /\ got' = got /\ taken' = taken /\ written' = written
      /\ (awaiting' <=> awaiting)
  BY DEF Frozen
<1>3. sm0.rx = <<>> /\ awaiting /\ Len(rev) = Len(got)
  BY <1>1 DEF Core, Counts
<1>4. Counts'
  BY <1>1, <1>2, <1>3 DEF Core, Counts, Sized
<1>5. (ReplyWaits' <=> ReplyWaits) /\ (CommandWaits' <=> CommandWaits) /\ Reply' = Reply
  BY <1>1, <1>2 DEF ReplyWaits, CommandWaits, Reply
<1>6. Queue'
  BY <1>5 DEF Core, Queue
<1>7. Word' /\ Turns'
  BY <1>1, <1>2 DEF Word, Turns
<1> QED
  BY <1>4, <1>6, <1>7 DEF Core

LEMMA EppHands ==
  ASSUME Core, Frozen, Sized, acked' = acked \/ acked = <<>>, sm0.pc = 12, sm0'.pc = 13,
         sm0'.tx = sm0.tx, sm0'.rx = <<sm0.isr>>
  PROVE  Core'
<1>1. host = "write" /\ Receiving /\ ~Replying /\ ~Receiving' /\ ~Replying' /\ acked # <<>>
  BY DEF Core, Turns, Receiving, Replying
<1>2. host' = host /\ rev' = rev /\ got' = got /\ taken' = taken /\ written' = written
      /\ (awaiting' <=> awaiting)
  BY DEF Frozen
<1>3. awaiting /\ Len(rev) = Len(got)
  BY <1>1 DEF Core, Counts
<1>4. sm0'.rx # <<>> /\ sm0'.rx = <<sm0'.rx[1]>>
  OBVIOUS
<1>5. Counts'
  BY <1>1, <1>2, <1>3, <1>4 DEF Core, Counts, Sized
<1>6. ~ReplyWaits /\ ~ReplyWaits' /\ ~CommandWaits /\ ~CommandWaits'
  BY <1>1, <1>2, <1>3, <1>4 DEF ReplyWaits, CommandWaits, Sized
<1>7. Queue'
  BY <1>6 DEF Core, Queue
<1>8. Word' /\ Turns'
  BY <1>1, <1>2 DEF Word, Turns
<1> QED
  BY <1>5, <1>7, <1>8 DEF Core

LEMMA EppRunsOn ==
  ASSUME MuxInv, NegInv, HostQuiet, LinesInv, BytesInv, DataKept, TurnInv, EppInv, RunSm0,
         Running = "Epp"
  PROVE  /\ Core' /\ ring' = ring
         /\ active = "None" => sm0'.tx = <<>>
         /\ sm0.pc \notin {11, 12} => sm0'.rx = sm0.rx /\ sm0'.pc # 12
         /\ sm0.pc = 11 => sm0'.rx = sm0.rx /\ (~fought' => sm0'.isr = <<pins["d"]>>)
         /\ sm0.pc = 12 => sm0'.rx = <<sm0.isr>> /\ sm0'.pc = 13
         /\ fought => fought'
<1>1. /\ UNCHANGED <<active, leaving, hw, host, peer, sm1, written, taken, rev, got, awaiting>>
      /\ active \in Phys \cup {"None"} /\ pins'["d"] = pins["d"] /\ pins'["autofd"] = pins["autofd"]
  BY EppFrame
<1>2. Frozen
  BY <1>1, ShownKept DEF Frozen
<1>3. Core
  BY DEF EppInv, Core
<1>4. /\ ~hw.armed /\ host \in {"idle", "read", "write"} /\ Lines \subseteq DOMAIN pins
      /\ pins["autofd"] = IF host = "idle" THEN 1 ELSE 0
  BY <1>1, EppHolds DEF NegInv, NegShape
<1>5. Machine(sm0) /\ sm0.delay = 0 /\ sm0.pc \in 1 .. 14
  <2>1. Running \in Phys
    BY DEF Phys
  <2> QED
    BY <2>1, ReceiverIs DEF BytesInv
<1>6. Sized
  BY ListedLen, LenProperties DEF BytesInv, Sized
<1>7. Len(rev) = Len(got) + 1 => \E b \in Byte : Reply = EncodeReverseCmd(b) /\ rev[Len(rev)] = b
  <2>1. Len(rev) = Len(got) + 1 => Len(rev) \in 1 .. Len(rev)
    BY <1>6 DEF Sized
  <2>2. Len(rev) = Len(got) + 1 => rev[Len(rev)] \in Byte
    BY <2>1, ElementOfSeq DEF BytesInv
  <2> QED
    BY <2>2 DEF Reply
<1>8. sm0.pc = 12 => sm0.rx = <<>>
  BY <1>3 DEF Core, Counts, Receiving
<1>9. /\ pins'["data"] = IF sm0.pc = 5 THEN Taken(sm0.osr, 8) ELSE pins["data"]
      /\ acked' = acked \/ (/\ host # "idle" /\ acked = <<>> /\ sm0.pc \in {7, 11, 12, 13}
                            /\ acked' = <<AtHost(pins')>>)
      /\ host # "idle" /\ sm0.pc \in {7, 11, 12, 13} => acked' # <<>>
      /\ ring' = ring /\ (fought => fought')
  BY <1>4, <1>5, <1>8, EppSm0 DEF DataKept
<1>10. CASE sm0.pc = 1
  <2>1. /\ sm0.tx = <<>> => Is(sm0', 1, sm0.x, sm0.osr, sm0.isr, sm0.tx, sm0.rx)
        /\ sm0.tx # <<>> => Is(sm0', 2, sm0.x, Head(sm0.tx), sm0.isr, Tail(sm0.tx), sm0.rx)
    BY <1>4, <1>5, <1>8, <1>10, EppSm0 DEF DataKept
  <2>2. Core'
    BY <1>2, <1>3, <1>6, <1>7, <1>9, <1>10, <2>1, EppStays, EppPulls
  <2>3. active = "None" => sm0.tx = <<>>
    BY DEF EppInv
  <2> QED
    BY <1>9, <1>10, <2>1, <2>2, <2>3 DEF Is
<1>11. CASE sm0.pc \in 2 .. 4
  <2>1. /\ sm0.pc = 2 => Is(sm0', 3, Head(sm0.osr), Shifted(sm0.osr, 1), sm0.isr, sm0.tx, sm0.rx)
        /\ sm0.pc = 3 => Is(sm0', 4, sm0.x, Shifted(sm0.osr, 23), sm0.isr, sm0.tx, sm0.rx)
        /\ sm0.pc = 4 => Is(sm0', IF sm0.x = 0 THEN 10 ELSE 5, sm0.x, sm0.osr, sm0.isr, sm0.tx, sm0.rx)
    BY <1>4, <1>5, <1>8, <1>11, EppSm0 DEF DataKept
  <2>2. Core'
    <3>1. sm0.pc = 2 \/ sm0.pc = 3 \/ sm0.pc = 4
      BY <1>11
    <3>2. acked' = acked /\ pins'["data"] = pins["data"]
      BY <1>9, <1>11
    <3>3. Len(rev) = Len(got) + 1 => \E b \in Byte : Reply = EncodeReverseCmd(b)
      BY <1>7
    <3> QED
      BY <1>2, <1>3, <2>1, <3>1, <3>2, <3>3, EppShifts
  <2>3. active = "None" => sm0.tx = <<>>
    BY DEF EppInv
  <2>4. sm0'.tx = sm0.tx /\ sm0'.rx = sm0.rx /\ sm0'.pc # 12
    BY <1>11, <2>1 DEF Is
  <2> QED
    BY <1>9, <1>11, <2>2, <2>3, <2>4
<1>12. CASE sm0.pc \in 5 .. 9
  <2>1. /\ sm0.pc = 5 => Is(sm0', 6, sm0.x, Shifted(sm0.osr, 8), sm0.isr, sm0.tx, sm0.rx)
        /\ sm0.pc = 6 => Is(sm0', IF pins["autofd"] = 0 THEN 7 ELSE 6,
                            sm0.x, sm0.osr, sm0.isr, sm0.tx, sm0.rx)
        /\ sm0.pc = 7 => Is(sm0', 8, sm0.x, sm0.osr, sm0.isr, sm0.tx, sm0.rx)
        /\ sm0.pc = 8 => Is(sm0', IF pins["autofd"] = 1 THEN 9 ELSE 8,
                            sm0.x, sm0.osr, sm0.isr, sm0.tx, sm0.rx)
        /\ sm0.pc = 9 => Is(sm0', 1, sm0.x, sm0.osr, sm0.isr, sm0.tx, sm0.rx)
    BY <1>4, <1>5, <1>8, <1>12, EppSm0 DEF DataKept
  <2>2. sm0'.tx = sm0.tx /\ sm0'.rx = sm0.rx /\ sm0'.pc # 12
    BY <1>12, <2>1 DEF Is
  <2>3. /\ acked' = acked \/ (acked = <<>> /\ sm0.pc = 7 /\ acked' = <<EppReads(pins'["data"])>>)
        /\ host # "idle" /\ sm0.pc = 7 => acked' # <<>>
    <3>1. ASSUME sm0.pc = 7 PROVE AtHost(pins') = EppReads(pins'["data"])
      <4>1. host = "read"
        BY <1>3, <3>1 DEF Core, Turns
      <4>2. active = "Epp"
        BY <1>1, <4>1, EppHolds
      <4>3. hw.dirSel = "PIO0" /\ pins["dir"] = 1
        BY <3>1, <4>2 DEF MuxInv, PinsFollowMode, TurnInv
      <4>4. TowardsHost
        BY <4>3 DEF TowardsHost
      <4> QED
        BY <4>4 DEF AtHost, EppReads
    <3> QED
      BY <1>9, <1>12, <3>1
  <2>6. Core'
    <3>1. CASE (sm0.pc = 6 /\ pins["autofd"] # 0) \/ (sm0.pc = 8 /\ pins["autofd"] # 1)
      <4>1. Is(sm0', sm0.pc, sm0.x, sm0.osr, sm0.isr, sm0.tx, sm0.rx)
        BY <2>1, <3>1
      <4>2. acked' = acked /\ pins'["data"] = pins["data"]
        BY <1>9, <3>1
      <4> QED
        BY <1>2, <1>3, <4>1, <4>2, EppStays
    <3>2. CASE sm0.pc \in {5, 7, 9} \/ (sm0.pc = 6 /\ pins["autofd"] = 0) \/ (sm0.pc = 8 /\ pins["autofd"] = 1)
      <4>1. \/ sm0.pc = 5 /\ Is(sm0', 6, sm0.x, Shifted(sm0.osr, 8), sm0.isr, sm0.tx, sm0.rx)
            \/ sm0.pc = 6 /\ pins["autofd"] = 0 /\ Is(sm0', 7, sm0.x, sm0.osr, sm0.isr, sm0.tx, sm0.rx)
            \/ sm0.pc = 7 /\ Is(sm0', 8, sm0.x, sm0.osr, sm0.isr, sm0.tx, sm0.rx)
            \/ sm0.pc = 8 /\ pins["autofd"] = 1 /\ Is(sm0', 9, sm0.x, sm0.osr, sm0.isr, sm0.tx, sm0.rx)
            \/ sm0.pc = 9 /\ Is(sm0', 1, sm0.x, sm0.osr, sm0.isr, sm0.tx, sm0.rx)
        BY <2>1, <3>2
      <4> QED
        BY <1>2, <1>3, <1>4, <1>6, <1>7, <1>9, <2>3, <4>1, EppReplies
    <3> QED
      BY <1>12, <3>1, <3>2
  <2>7. active = "None" => sm0.tx = <<>>
    BY DEF EppInv
  <2> QED
    BY <1>9, <1>12, <2>2, <2>6, <2>7
<1>13. CASE sm0.pc \in {10, 13, 14}
  <2>1. /\ sm0.pc = 10 => Is(sm0', IF pins["autofd"] = 0 THEN 11 ELSE 10,
                             sm0.x, sm0.osr, sm0.isr, sm0.tx, sm0.rx)
        /\ sm0.pc = 13 => Is(sm0', IF pins["autofd"] = 1 THEN 14 ELSE 13,
                             sm0.x, sm0.osr, sm0.isr, sm0.tx, sm0.rx)
        /\ sm0.pc = 14 => Is(sm0', 1, sm0.x, sm0.osr, sm0.isr, sm0.tx, sm0.rx)
    BY <1>4, <1>5, <1>8, <1>13, EppSm0 DEF DataKept
  <2>2. sm0'.tx = sm0.tx /\ sm0'.rx = sm0.rx /\ sm0'.pc # 12
    BY <1>13, <2>1 DEF Is
  <2>3. pins'["data"] = pins["data"] /\ (acked' = acked \/ (acked = <<>> /\ sm0.pc \in {11, 12, 13}))
        /\ (host # "idle" /\ sm0.pc \in {11, 12, 13} => acked' # <<>>)
    BY <1>9, <1>13
  <2>6. Core'
    <3>1. CASE (sm0.pc = 10 /\ pins["autofd"] # 0) \/ (sm0.pc = 13 /\ pins["autofd"] # 1)
      <4>1. Is(sm0', sm0.pc, sm0.x, sm0.osr, sm0.isr, sm0.tx, sm0.rx)
        BY <2>1, <3>1
      <4>2. acked' = acked
        <5>1. sm0.pc = 13 => host = "write"
          BY <1>3, <1>4, <3>1 DEF Core, Turns
        <5>2. sm0.pc = 13 => acked # <<>>
          BY <1>3, <5>1 DEF Core, Turns
        <5> QED
          BY <1>9, <3>1, <5>2
      <4> QED
        BY <1>2, <1>3, <2>3, <4>1, <4>2, EppStays
    <3>2. CASE sm0.pc = 14 \/ (sm0.pc = 10 /\ pins["autofd"] = 0) \/ (sm0.pc = 13 /\ pins["autofd"] = 1)
      <4>1. \/ sm0.pc = 10 /\ pins["autofd"] = 0 /\ Is(sm0', 11, sm0.x, sm0.osr, sm0.isr, sm0.tx, sm0.rx)
            \/ sm0.pc = 13 /\ pins["autofd"] = 1 /\ Is(sm0', 14, sm0.x, sm0.osr, sm0.isr, sm0.tx, sm0.rx)
            \/ sm0.pc = 14 /\ Is(sm0', 1, sm0.x, sm0.osr, sm0.isr, sm0.tx, sm0.rx)
        BY <2>1, <3>2
      <4> QED
        BY <1>2, <1>3, <1>4, <1>6, <2>3, <4>1, EppListens
    <3> QED
      BY <1>13, <3>1, <3>2
  <2>7. active = "None" => sm0.tx = <<>>
    BY DEF EppInv
  <2> QED
    BY <1>9, <1>13, <2>2, <2>6, <2>7
<1>14. CASE sm0.pc = 11
  <2>1. /\ \E v : Is(sm0', 12, sm0.x, sm0.osr, <<v>>, sm0.tx, sm0.rx)
        /\ ~fought' => Is(sm0', 12, sm0.x, sm0.osr, <<pins["d"]>>, sm0.tx, sm0.rx)
    BY <1>4, <1>5, <1>8, <1>14, EppSm0 DEF DataKept
  <2>2. sm0'.pc = 12 /\ sm0'.tx = sm0.tx /\ sm0'.rx = sm0.rx /\ (~fought' => sm0'.isr = <<pins["d"]>>)
    BY <2>1 DEF Is
  <2>3. Core'
    BY <1>2, <1>3, <1>6, <1>9, <1>14, <2>2, EppSamples
  <2>4. active = "None" => sm0.tx = <<>>
    BY DEF EppInv
  <2> QED
    BY <1>9, <1>14, <2>2, <2>3, <2>4
<1>15. CASE sm0.pc = 12
  <2>1. Is(sm0', 13, sm0.x, sm0.osr, sm0.isr, sm0.tx, <<sm0.isr>>)
    BY <1>4, <1>5, <1>8, <1>15, EppSm0 DEF DataKept
  <2>2. sm0'.pc = 13 /\ sm0'.tx = sm0.tx /\ sm0'.rx = <<sm0.isr>>
    BY <2>1 DEF Is
  <2>3. Core'
    BY <1>2, <1>3, <1>6, <1>9, <1>15, <2>2, EppHands
  <2>4. active = "None" => sm0.tx = <<>>
    BY DEF EppInv
  <2> QED
    BY <1>9, <1>15, <2>2, <2>3, <2>4
<1> QED
  BY <1>5, <1>10, <1>11, <1>12, <1>13, <1>14, <1>15

LEMMA EppClocked ==
  ASSUME MuxInv, NegInv, HostQuiet, LinesInv, BytesInv, DataKept, TurnInv, EppInv, RunSm0,
         Running = "Epp"
  PROVE  EppInv'
<1>1. /\ Core' /\ ring' = ring
      /\ active = "None" => sm0'.tx = <<>>
      /\ sm0.pc \notin {11, 12} => sm0'.rx = sm0.rx /\ sm0'.pc # 12
      /\ sm0.pc = 11 => sm0'.rx = sm0.rx /\ (~fought' => sm0'.isr = <<pins["d"]>>)
      /\ sm0.pc = 12 => sm0'.rx = <<sm0.isr>> /\ sm0'.pc = 13
      /\ fought => fought'
  BY EppRunsOn
<1>2. /\ UNCHANGED <<active, leaving, hw, host, peer, sm1, written, taken, rev, got, awaiting>>
      /\ (Running' = Running) /\ (ghosts' <=> ghosts) /\ active \in Phys \cup {"None"}
      /\ pins'["d"] = pins["d"] /\ Sent' = Sent
  BY EppFrame
<1>3. ~fought' => /\ Inward(taken, sm0'.rx, Sent)
                  /\ sm0'.pc = 12 => sm0'.isr = <<pins["d"]>>
  <2> SUFFICES ASSUME ~fought'
               PROVE  Inward(taken, sm0'.rx, Sent) /\ (sm0'.pc = 12 => sm0'.isr = <<pins["d"]>>)
    OBVIOUS
  <2>1. Inward(taken, sm0.rx, Sent) /\ (sm0.pc = 12 => sm0.isr = <<pins["d"]>>)
    BY <1>1 DEF EppInv
  <2>2. CASE sm0.pc # 12
    BY <1>1, <2>1, <2>2
  <2>3. CASE sm0.pc = 12
    <3>1. host = "write" /\ sm0.rx = <<>> /\ Len(taken) + 1 = Len(written) + 1
      BY <2>3 DEF EppInv, Counts, Turns, Receiving
    <3>2. Len(Sent) = Len(written) + 1 /\ Sent[Len(written) + 1] = pins["d"]
      BY <1>2, <3>1, EppSent
    <3>3. Len(taken) \in Nat /\ Len(written) \in Nat /\ Len(<<>>) = 0
      BY ListedLen, ListedNone DEF BytesInv
    <3> DEFINE w == <<pins["d"]>>
    <3>4. ByteOf(w) = pins["d"]
      BY DEF ByteOf
    <3>5. sm0'.rx = Append(<<>>, w)
      <4>1. sm0'.rx = <<sm0.isr>> /\ sm0.isr = w
        BY <1>1, <2>1, <2>3
      <4> HIDE DEF w
      <4>2. Append(<<>>, w) = <<w>>
        BY OneAfter
      <4> QED
        BY <4>1, <4>2
    <3> HIDE DEF w
    <3>6. Inward(taken, <<>>, Sent) /\ Len(taken) + Len(<<>>) + 1 <= Len(Sent)
          /\ ByteOf(w) = Sent[Len(taken) + Len(<<>>) + 1]
      BY <2>1, <3>1, <3>2, <3>3, <3>4
    <3>7. Inward(taken, Append(<<>>, w), Sent)
      BY <3>6, InwardSampled
    <3> QED
      BY <1>1, <2>3, <3>5, <3>7
  <2> QED
    BY <2>2, <2>3
<1>4. ReadSo'
  BY <1>2, ShownKept DEF EppInv
<1> QED
  BY <1>1, <1>2, <1>3, <1>4 DEF EppInv, Core

-----------------------------------------------------------------------------
(* EPP: the serving code, the host and the switches.                       *)

LEMMA ExceptFields ==
  ASSUME NEW m, Machine(m), NEW v
  PROVE  /\ LET k == [m EXCEPT !.tx = v]
            IN  k.pc = m.pc /\ k.x = m.x /\ k.osr = m.osr /\ k.isr = m.isr /\ k.tx = v /\ k.rx = m.rx
         /\ LET k == [m EXCEPT !.rx = v]
            IN  k.pc = m.pc /\ k.x = m.x /\ k.osr = m.osr /\ k.isr = m.isr /\ k.rx = v /\ k.tx = m.tx
  BY DEF Machine

(* The serving code takes a word or queues one.                            *)
LEMMA EppServes ==
  ASSUME MuxInv, HostQuiet, LinesInv, BytesInv, EppInv, Running = "Epp",
         SendByte \/ AskForward \/ RecvFromFifo
  PROVE  EppInv'
<1>1. /\ UNCHANGED <<active, leaving, hw, host, acked, peer, pins, sm1, written, got, ring>>
      /\ (Running' = Running) /\ active \in Phys /\ PioWaits
      /\ (ghosts' <=> ghosts) /\ (fought' <=> fought)
  <2>1. UNCHANGED <<muxVars, negVars, hostVars, pins, written, got, ring>> /\ Serving
        /\ (ghosts' <=> ghosts) /\ (fought' <=> fought)
    BY DEF SendByte, AskForward, RecvFromFifo, history
  <2>2. active = "Epp"
    BY <2>1, RunningEpp DEF Serving
  <2>3. sm1' = sm1
    BY <2>2 DEF SendByte, AskForward, RecvFromFifo, Sender
  <2> QED
    BY <2>1, <2>3 DEF muxVars, negVars, hostVars, Serving, Running
<1>2. active = "Epp" /\ Sent' = Sent /\ Sized /\ Machine(sm0)
  <2>1. active = "Epp"
    BY <1>1, RunningEpp
  <2>2. Sent' = Sent
    BY <1>1 DEF Sent, Strobing
  <2>3. Sized
    BY ListedLen, LenProperties DEF BytesInv, Sized
  <2> QED
    BY <2>1, <2>2, <2>3 DEF BytesInv
<1>3. Core
  BY DEF EppInv, Core
<1>4. CASE SendByte
  <2>1. /\ taken' = taken /\ (awaiting' <=> awaiting) /\ ~awaiting /\ Len(taken) > Len(rev)
        /\ rev' = Append(rev, Bytes[Len(rev) + 1])
        /\ sm0' = [sm0 EXCEPT !.tx = Append(@, EncodeReverseCmd(Bytes[Len(rev) + 1]))]
    BY <1>2, <1>4 DEF SendByte, Unacked, Packed, Sender
  <2> DEFINE b == Bytes[Len(rev) + 1]
  <2>2. rev' = Append(rev, b) /\ sm0' = [sm0 EXCEPT !.tx = Append(sm0.tx, EncodeReverseCmd(b))]
    BY <2>1
  <2> HIDE DEF b
  <2>3. /\ Len(rev') = Len(rev) + 1 /\ rev'[Len(rev')] = b
        /\ \A k \in 1 .. Len(rev) : rev'[k] = rev[k]
    BY <2>2, AppendProperties DEF BytesInv
  <2>4. /\ sm0'.pc = sm0.pc /\ sm0'.x = sm0.x /\ sm0'.osr = sm0.osr /\ sm0'.isr = sm0.isr
        /\ sm0'.rx = sm0.rx /\ sm0'.tx = Append(sm0.tx, EncodeReverseCmd(b))
    BY <1>2, <2>2, ExceptFields
  <2>5. Len(rev) = Len(got)
    BY <1>2, <1>3, <2>1 DEF Core, Counts, Sized
  <2>6. ~Replying /\ ~Receiving /\ sm0.rx = <<>> /\ ~Replying' /\ ~Receiving'
    <3>1. ~Replying /\ ~Receiving /\ sm0.rx = <<>>
      BY <1>2, <1>3, <2>1, <2>5 DEF Core, Counts, Sized
    <3>2. (Replying' <=> Replying) /\ (Receiving' <=> Receiving)
      BY <1>1, <2>4 DEF Replying, Receiving
    <3> QED
      BY <3>1, <3>2
  <2>7. sm0.tx = <<>>
    BY <1>2, <1>3, <2>1, <2>5 DEF Core, Queue, ReplyWaits, CommandWaits, Sized
  <2>8. Reply' = EncodeReverseCmd(b) /\ sm0'.tx = <<Reply'>>
    BY <2>3, <2>4, <2>7 DEF Reply
  <2>9. Counts'
    BY <1>1, <1>2, <1>3, <2>1, <2>3, <2>4, <2>5, <2>6 DEF Core, Counts, Sized
  <2>10. Queue'
    <3>1. ReplyWaits' /\ ~CommandWaits'
      BY <1>1, <1>2, <2>1, <2>3, <2>5, <2>6 DEF ReplyWaits, CommandWaits, Sized
    <3> QED
      BY <2>8, <3>1, Zenon DEF Queue
  <2>11. sm0.pc \notin 2 .. 7 /\ (sm0.pc = 8 => host # "read")
    BY <1>3, <2>6 DEF Core, Word, Replying, Receiving
  <2>12. Word'
    BY <2>4, <2>11 DEF Word
  <2>13. Turns'
    BY <1>1, <1>3, <2>4, <2>6, <2>11 DEF Core, Turns
  <2>14. ReadSo'
    <3>1. \A k \in 1 .. Len(got) : got[k] = EppReads(rev[k])
      BY DEF EppInv, ReadSo
    <3>2. (PicoDrivesData' <=> PicoDrivesData) /\ got' = got
      BY <1>1 DEF PicoDrivesData
    <3> QED
      BY <2>3, <2>5, <3>1, <3>2 DEF ReadSo, EppReads, Floating
  <2> QED
    BY <1>1, <1>2, <2>1, <2>4, <2>9, <2>10, <2>12, <2>13, <2>14 DEF EppInv
<1>5. CASE AskForward
  <2>1. /\ taken' = taken /\ rev' = rev /\ awaiting' /\ ~awaiting /\ ~(Len(taken) > Len(rev))
        /\ sm0' = [sm0 EXCEPT !.tx = Append(sm0.tx, EncodeForwardCmd)]
    BY <1>5 DEF AskForward, Unacked, history
  <2>2. /\ sm0'.pc = sm0.pc /\ sm0'.x = sm0.x /\ sm0'.osr = sm0.osr /\ sm0'.isr = sm0.isr
        /\ sm0'.rx = sm0.rx /\ sm0'.tx = Append(sm0.tx, EncodeForwardCmd)
    BY <1>2, <2>1, ExceptFields
  <2>3. (Replying' <=> Replying) /\ (Receiving' <=> Receiving) /\ Reply' = Reply
    BY <1>1, <2>1, <2>2 DEF Replying, Receiving, Reply
  <2>4. ~Receiving /\ sm0.rx = <<>> /\ Len(rev) = Len(taken)
    BY <1>2, <1>3, <2>1 DEF Core, Counts, Sized
  <2>5. Counts'
    BY <1>1, <1>2, <1>3, <2>1, <2>2, <2>3, <2>4 DEF Core, Counts
  <2>6. Queue'
    <3>1. ~CommandWaits /\ CommandWaits' /\ (ReplyWaits' <=> ReplyWaits)
      BY <1>1, <2>1, <2>2, <2>3, <2>4 DEF ReplyWaits, CommandWaits
    <3>2. sm0.tx = IF ReplyWaits THEN <<Reply>> ELSE <<>>
      BY <1>3, <3>1, Zenon DEF Core, Queue
    <3>4. sm0'.tx = IF ReplyWaits THEN <<Reply, EncodeForwardCmd>> ELSE <<EncodeForwardCmd>>
      BY <2>2, <3>2, OneAfter
    <3> QED
      BY <2>3, <3>1, <3>4, Zenon DEF Queue
  <2>7. Word'
    BY <1>1, <1>3, <2>1, <2>2, <2>3 DEF Core, Word
  <2>8. Shown' = Shown /\ ReadSo'
    BY <1>1, <2>1, ShownKept DEF EppInv
  <2>9. Turns'
    BY <1>1, <1>3, <2>1, <2>2, <2>3, <2>8 DEF Core, Turns
  <2> QED
    BY <1>1, <1>2, <2>1, <2>2, <2>5, <2>6, <2>7, <2>8, <2>9 DEF EppInv
<1>6. CASE RecvFromFifo
  <2>1. /\ taken' = Append(taken, ByteOf(Head(sm0.rx))) /\ rev' = rev /\ ~awaiting' /\ awaiting
        /\ sm0.rx # <<>> /\ sm0' = [sm0 EXCEPT !.rx = Tail(sm0.rx)]
    BY <1>2, <1>6 DEF RecvFromFifo
  <2>2. /\ sm0'.pc = sm0.pc /\ sm0'.x = sm0.x /\ sm0'.osr = sm0.osr /\ sm0'.isr = sm0.isr
        /\ sm0'.rx = Tail(sm0.rx) /\ sm0'.tx = sm0.tx
    BY <1>2, <2>1, ExceptFields
  <2>3. (Replying' <=> Replying) /\ (Receiving' <=> Receiving) /\ Reply' = Reply
    BY <1>1, <2>1, <2>2 DEF Replying, Receiving, Reply
  <2>4. /\ sm0.rx = <<sm0.rx[1]>> /\ Len(rev) = Len(got) /\ Len(rev) = Len(taken)
        /\ ~Receiving /\ ~Replying /\ sm0.pc # 12
    <3>1. sm0.rx = <<sm0.rx[1]>> /\ Len(rev) = Len(got) /\ Len(rev) = Len(taken)
          /\ ~Receiving
      BY <1>3, <2>1 DEF Core, Counts
    <3>2. ~Replying
      BY <1>2, <1>3, <3>1 DEF Core, Counts, Sized
    <3> QED
      BY <3>1, <3>2 DEF Receiving
  <2>5. sm0'.rx = <<>>
    <3> DEFINE a == sm0.rx[1]
    <3>1. sm0.rx = <<a>>
      BY <2>4
    <3> HIDE DEF a
    <3>2. Tail(<<a>>) = <<>>
      BY Pulled
    <3> QED
      BY <2>2, <3>1, <3>2
  <2>6. Len(taken') = Len(taken) + 1
    BY <2>1, ListedAppend DEF BytesInv
  <2>7. Counts'
    BY <1>1, <1>2, <1>3, <2>1, <2>2, <2>3, <2>4, <2>5, <2>6 DEF Core, Counts, Sized
  <2>8. Queue'
    <3>1. ~CommandWaits /\ ~CommandWaits' /\ ~ReplyWaits /\ ~ReplyWaits'
      BY <1>1, <1>2, <2>1, <2>4 DEF ReplyWaits, CommandWaits, Sized
    <3> QED
      BY <1>3, <2>2, <3>1 DEF Core, Queue
  <2>9. Word'
    BY <1>1, <1>3, <2>1, <2>2, <2>3 DEF Core, Word
  <2>10. Shown' = Shown /\ ReadSo'
    BY <1>1, <2>1, ShownKept DEF EppInv
  <2>11. Turns'
    BY <1>1, <1>3, <2>1, <2>2, <2>3, <2>10 DEF Core, Turns
  <2>12. ~fought => Inward(taken', sm0'.rx, Sent)
    BY <2>1, <2>2, InwardTaken DEF EppInv
  <2> QED
    BY <1>1, <1>2, <2>1, <2>2, <2>4, <2>7, <2>8, <2>9, <2>10, <2>11, <2>12 DEF EppInv
<1> QED
  BY <1>4, <1>5, <1>6

(* The host begins and ends its cycles while the program waits.            *)
LEMMA EppHost ==
  ASSUME MuxInv, NegInv, HostQuiet, LinesInv, BytesInv, DataKept, EppInv, Running = "Epp",
         HostWrites \/ HostReads \/ HostEnds
  PROVE  EppInv'
<1>1. /\ UNCHANGED <<active, leaving, hw, peer, sm0, sm1, ring, awaiting, taken, rev>>
      /\ (Running' = Running) /\ (ghosts' <=> ghosts) /\ (fought' <=> fought) /\ PioWaits
      /\ active \in Phys \cup {"None"}
  <2>1. /\ UNCHANGED <<active, leaving, hw, peer, sm0, sm1, ring, awaiting, taken, rev>>
        /\ (ghosts' <=> ghosts) /\ (fought' <=> fought) /\ PioWaits
    BY DEF HostWrites, HostReads, HostEnds, HostIdle, muxVars, negVars, phyVars, history
  <2>2. active \in Phys \cup {"None"}
    BY DEF Running, Phys
  <2> QED
    BY <2>1, <2>2 DEF Running
<1>2. pins'["data"] = pins["data"] /\ (HostReads \/ HostEnds => pins'["d"] = pins["d"])
  <2>1. "data" \in DOMAIN pins /\ "d" \in DOMAIN pins
    BY DEF DataKept, NegInv, NegShape, Lines
  <2> QED
    BY <2>1 DEF HostWrites, HostReads, HostEnds
<1>3. Core /\ Sized /\ sm0.pc \in 1 .. 14
  <2>1. Sized
    BY ListedLen, LenProperties DEF BytesInv, Sized
  <2>2. sm0.pc \in 1 .. 14
    <3>1. Running \in Phys
      BY DEF Phys
    <3> QED
      BY <3>1, ReceiverIs DEF BytesInv
  <2> QED
    BY <2>1, <2>2 DEF EppInv, Core
<1>4. /\ active \in {"Epp", "None"} /\ Settled /\ ~hw.armed /\ host \in {"idle", "read", "write"}
      /\ pins["autofd"] = (IF host = "idle" THEN 1 ELSE 0)
      /\ (Strobing <=> host = "write") /\ (host = "idle" => acked = <<>>)
      /\ peer.pc # "strobing"
  BY <1>1, EppHolds DEF Settled
<1>5. \/ sm0.pc = 1 /\ sm0.tx = <<>>
      \/ sm0.pc \in {6, 10} /\ host = "idle"
      \/ sm0.pc \in {8, 13} /\ host # "idle"
  <2>1. sm0.pc = 12 => sm0.rx = <<>>
    BY <1>3 DEF Core, Counts, Receiving
  <2>2. \/ sm0.pc = 1 /\ sm0.tx = <<>>
        \/ sm0.pc \in {6, 10} /\ pins["autofd"] # 0
        \/ sm0.pc \in {8, 13} /\ pins["autofd"] # 1
    BY <1>1, <1>3, <2>1, EppWaits DEF BytesInv
  <2> QED
    BY <1>4, <2>2
<1>6. ReplyWaits => sm0.tx # <<>>
  BY <1>3, Zenon, Pulled, NotEmpty DEF Core, Queue
<1>7. /\ UNCHANGED <<ring, sm1>> /\ ring = <<>> /\ sm1.tx = <<>> /\ ~ghosts
      /\ active = "None" => sm0.tx = <<>>
      /\ ReadSo /\ (got' = got => ReadSo')
      /\ ~fought => Inward(taken, sm0.rx, Sent) /\ (sm0.pc = 12 => sm0.isr = <<pins["d"]>>)
  BY <1>1, ShownKept DEF EppInv
<1>8. Reply' = Reply
  BY <1>1 DEF Reply
<1>9. CASE HostWrites
  <2>1. /\ host = "idle" /\ host' = "write" /\ acked' = <<>> /\ written' = written /\ got' = got
        /\ Len(got) = Len(written)
    <3>1. active = "Epp"
      BY <1>4, <1>9 DEF HostWrites, HostIdle, Phys
    <3> QED
      BY <1>9, <3>1 DEF HostWrites, HostIdle, history
  <2>2. sm0.pc \in {1, 10}
    BY <1>3, <1>5, <2>1 DEF Core, Counts, Replying, Sized
  <2>3. ~Replying /\ ~Replying' /\ (Receiving' <=> Receiving) /\ (sm0.pc = 10 => Receiving)
    BY <1>1, <2>2 DEF Replying, Receiving
  <2>4. Counts'
    BY <1>1, <1>3, <2>1, <2>2, <2>3 DEF Core, Counts
  <2>5. Queue'
    <3>1. (ReplyWaits' <=> ReplyWaits) /\ (CommandWaits' <=> CommandWaits)
      BY <1>1, <2>1, <2>3 DEF ReplyWaits, CommandWaits
    <3> QED
      BY <1>1, <1>3, <1>8, <3>1 DEF Core, Queue
  <2>6. Word'
    BY <1>1, <2>2 DEF Word
  <2>7. Turns'
    BY <1>1, <2>1, <2>2, <2>3 DEF Turns
  <2>8. Sent' = Append(written, pins'["d"]) /\ Sent = written /\ Listed(written)
    BY <1>4, <2>1 DEF Sent, Strobing, BytesInv
  <2>9. ~fought => Inward(taken, sm0.rx, Sent')
    BY <1>7, <2>8, InwardMore
  <2> QED
    BY <1>1, <1>7, <2>1, <2>2, <2>4, <2>5, <2>6, <2>7, <2>9 DEF EppInv
<1>10. CASE HostReads
  <2>1. /\ host = "idle" /\ host' = "read" /\ acked' = <<>> /\ written' = written /\ got' = got
        /\ Len(got) < Len(rev)
    BY <1>10 DEF HostReads, HostIdle, history
  <2>2. sm0.pc = 6
    <3>1. Len(rev) = Len(got) + 1
      BY <1>3, <2>1 DEF Core, Counts, Sized
    <3>2. sm0.pc # 10
      BY <1>3, <3>1 DEF Core, Counts, Receiving, Sized
    <3>3. sm0.pc = 1 => ReplyWaits
      BY <3>1 DEF ReplyWaits, Replying
    <3> QED
      BY <1>5, <1>6, <2>1, <3>2, <3>3
  <2>3. Replying /\ Replying' /\ (Receiving' <=> Receiving)
    BY <1>1, <2>2 DEF Replying, Receiving
  <2>4. Counts'
    BY <1>1, <1>3, <2>1, <2>2, <2>3 DEF Core, Counts
  <2>5. Queue'
    <3>1. (ReplyWaits' <=> ReplyWaits) /\ (CommandWaits' <=> CommandWaits)
      BY <1>1, <2>1, <2>3 DEF ReplyWaits, CommandWaits
    <3> QED
      BY <1>1, <1>3, <1>8, <3>1 DEF Core, Queue
  <2>6. Word'
    BY <1>1, <1>2, <1>3, <2>2 DEF Core, Word
  <2>7. Turns'
    BY <1>1, <2>1, <2>2, <2>3 DEF Turns
  <2>8. Sent' = Sent
    BY <1>1, <1>4, <2>1 DEF Sent, Strobing
  <2> QED
    BY <1>1, <1>7, <2>1, <2>2, <2>4, <2>5, <2>6, <2>7, <2>8 DEF EppInv
<1>11. CASE HostEnds
  <2>1. host # "idle" /\ host' = "idle" /\ acked' = <<>> /\ acked # <<>>
    BY <1>4, <1>11 DEF HostEnds
  <2>2. sm0.pc = IF host = "write" THEN 13 ELSE 8
    BY <1>3, <1>4, <1>5, <2>1 DEF Core, Turns, Receiving
  <2>3. ~Replying' /\ ~Receiving' /\ ~Receiving /\ (Replying <=> host # "write")
    BY <1>1, <1>4, <2>1, <2>2 DEF Replying, Receiving
  <2>4. CASE host = "write"
    <3>1. written' = Append(written, pins["d"]) /\ got' = got
      BY <1>11, <2>4 DEF HostEnds
    <3>2. Sent' = Sent
      BY <1>1, <1>4, <2>1, <2>4, <3>1 DEF Sent, Strobing
    <3>3. Len(written') = Len(written) + 1
      BY <3>1, ListedAppend DEF BytesInv
    <3>4. Counts'
      BY <1>1, <1>3, <2>1, <2>2, <2>3, <2>4, <3>1, <3>3 DEF Core, Counts, Sized
    <3>5. Queue'
      <4>1. (ReplyWaits' <=> ReplyWaits) /\ (CommandWaits' <=> CommandWaits)
        BY <1>1, <2>3, <2>4, <3>1 DEF ReplyWaits, CommandWaits
      <4> QED
        BY <1>1, <1>3, <1>8, <4>1 DEF Core, Queue
    <3>6. Word' /\ Turns'
      BY <1>1, <2>1, <2>2, <2>4 DEF Word, Turns
    <3> QED
      BY <1>1, <1>7, <2>2, <2>4, <3>1, <3>2, <3>4, <3>5, <3>6 DEF EppInv
  <2>5. CASE host = "read"
    <3> DEFINE v == acked[1]
    <3>1. acked = <<v>> /\ v = EppReads(rev[Len(rev)])
      BY <1>3, <2>2, <2>5 DEF Core, Turns, Shown
    <3> HIDE DEF v
    <3>2. Head(acked) = v
      BY <3>1, Pulled
    <3>3. written' = written /\ got' = Append(got, v)
      BY <1>11, <2>5, <3>2 DEF HostEnds
    <3>4. Listed(got)
      BY DEF BytesInv
    <3>5. /\ Len(got') = Len(got) + 1 /\ got'[Len(got) + 1] = v
          /\ \A k \in 1 .. Len(got) : got'[k] = got[k]
      BY <3>3, <3>4, ListedAppend
    <3>6. Len(rev) = Len(got) + 1
      BY <1>3, <2>3, <2>5 DEF Core, Counts
    <3>7. Counts'
      BY <1>1, <1>3, <2>1, <2>2, <2>3, <2>5, <3>3, <3>5, <3>6 DEF Core, Counts, Sized
    <3>8. Queue'
      <4>1. ~ReplyWaits' /\ ~ReplyWaits /\ (CommandWaits' <=> CommandWaits)
        BY <1>1, <1>3, <2>3, <2>5, <3>5, <3>6 DEF ReplyWaits, CommandWaits, Sized
      <4> QED
        BY <1>1, <1>3, <4>1 DEF Core, Queue
    <3>9. Word' /\ Turns'
      BY <1>1, <2>1, <2>2, <2>5 DEF Word, Turns
    <3>10. Sent' = Sent
      BY <1>1, <1>4, <2>1, <2>5, <3>3 DEF Sent, Strobing
    <3>11. ReadSo'
      <4>1. \A k \in 1 .. Len(got') : got'[k] = EppReads(rev[k])
        BY <1>3, <1>7, <3>1, <3>5, <3>6 DEF Sized, ReadSo
      <4>2. (PicoDrivesData' <=> PicoDrivesData) /\ rev' = rev
        BY <1>1 DEF PicoDrivesData
      <4> QED
        BY <4>1, <4>2 DEF ReadSo, EppReads, Floating
    <3> QED
      BY <1>1, <1>7, <2>2, <2>5, <3>3, <3>7, <3>8, <3>9, <3>10, <3>11 DEF EppInv
  <2> QED
    BY <1>4, <2>1, <2>4, <2>5
<1> QED
  BY <1>9, <1>10, <1>11

(* EPP's FIFOs are of their own depth, the others' all joined.             *)
LEMMA Joins ==
  /\ Configs("Epp").sm0.join = "Duplex" /\ Configs("Epp").sm1.join = "Duplex"
  /\ \A p \in Phys \ {"Epp"} : Configs(p).sm0.join # "Duplex" /\ Configs(p).sm1.join # "Duplex"
<1>1. Configs("Epp").sm0.join = "Duplex" /\ Configs("Epp").sm1.join = "Duplex"
  BY DEF Configs, EppConfig, Config
<1>2. ASSUME NEW p \in {"SppNibble", "Byte"} PROVE Configs(p).sm0.join = "Rx"
  BY DEF Configs, CompatInConfig, Config
<1>3. Configs("Ecp").sm0.join = "Rx"
  BY DEF Configs, EcpFwdConfig, Config
<1>4. Configs("SppNibble").sm1.join = "Tx" /\ Configs("Byte").sm1.join = "Tx"
      /\ Configs("Ecp").sm1.join = "Tx"
  BY DEF Configs, NibbleOutConfig, ByteRevConfig, EcpRevConfig, Config
<1> QED
  BY <1>1, <1>2, <1>3, <1>4 DEF Phys

LEMMA EppDismantled ==
  ASSUME MuxInv, HostQuiet, LinesInv, BytesInv, EppInv, Running = "Epp", NEW t, CallSwitch(t)
  PROVE  EppInv'
<1>1. /\ UNCHANGED <<pins, sm0, sm1, ring, awaiting, host, acked, peer, written, taken, rev, got>>
      /\ (ghosts' <=> ghosts) /\ (fought' <=> fought)
      /\ active \in Phys /\ active' = "None" /\ leaving' = active
      /\ host = "idle" /\ ~awaiting /\ PioWaits
  BY DEF CallSwitch, BeginSwitch, Serving, negVars, hostVars, history
<1>2. Running' = Running
  BY <1>1 DEF Running, Phys
<1>3. Core /\ sm0.pc \in 1 .. 14
  <2>1. Running \in Phys
    BY DEF Phys
  <2> QED
    BY <2>1, ReceiverIs DEF BytesInv, EppInv, Core
<1>4. pins["autofd"] = 1
  BY <1>1, EppHolds
<1>5. sm0.pc \in {1, 6, 10}
  <2>1. sm0.pc = 12 => sm0.rx = <<>>
    BY <1>3 DEF Core, Counts, Receiving
  <2> QED
    BY <1>1, <1>3, <1>4, <2>1, EppWaits DEF BytesInv
<1>6. sm0.tx = <<>>
  <2>1. sm0.pc # 10
    BY <1>1, <1>3 DEF Core, Counts, Receiving
  <2>2. CASE sm0.pc = 6
    <3>1. ~ReplyWaits /\ ~CommandWaits
      BY <1>1, <2>2 DEF ReplyWaits, CommandWaits, Replying
    <3> QED
      BY <1>3, <3>1 DEF Core, Queue
  <2>3. CASE sm0.pc = 1
    <3>1. sm0.pc = 12 => sm0.rx = <<>>
      BY <2>3
    <3>2. \/ sm0.pc = 1 /\ sm0.tx = <<>>
          \/ sm0.pc \in {6, 10} \/ sm0.pc \in {8, 13}
      BY <1>1, <1>3, <3>1, EppWaits DEF BytesInv
    <3> QED
      BY <2>3, <3>2
  <2> QED
    BY <1>5, <2>1, <2>2, <2>3
<1>7. Sent' = Sent
  BY <1>1 DEF Sent, Strobing
<1>8. Counts' /\ Queue' /\ Word' /\ Turns'
  BY <1>1, <1>3 DEF Core, Counts, Queue, Word, Turns, ReplyWaits, CommandWaits, Replying,
                    Receiving, Reply
<1>9. ReadSo'
  <2>1. hw'.out = hw.out
    <3>1. hw' = BeforeDrain(active, hw) /\ hw \in Hardware
      BY DEF CallSwitch, BeginSwitch, MuxInv, MuxTypeOK
    <3> QED
      BY <3>1 DEF BeforeDrain, Hardware
  <2>2. (PicoDrivesData' <=> PicoDrivesData) /\ rev' = rev /\ got' = got
    BY <1>1, <2>1 DEF PicoDrivesData
  <2> QED
    BY <2>2 DEF EppInv, ReadSo, EppReads, Floating
<1> QED
  BY <1>1, <1>2, <1>6, <1>7, <1>8, <1>9 DEF EppInv

LEMMA EppBuilt ==
  ASSUME MuxInv, HostQuiet, LinesInv, EppInv, CompleteSwitch, MuxInv', Running' = "Epp"
  PROVE  EppInv'
<1>1. /\ PhyTarget(target) = "Epp" /\ active' = "Epp" /\ active = "None" /\ Running \in Phys
  BY BuiltIs
<1>2. /\ written' = <<>> /\ taken' = <<>> /\ rev' = <<>> /\ got' = <<>> /\ ring' = <<>>
      /\ UNCHANGED <<host, acked, awaiting, peer>>
      /\ sm0' = Configured(Cfg.sm0, Configs("Epp").sm0, sm0)
      /\ sm1' = Configured(Cfg.sm1, Configs("Epp").sm1, sm1)
      /\ (ghosts' <=> (sm0'.rx # <<>> \/ sm1'.tx # <<>>))
  BY <1>1 DEF CompleteSwitch, negVars
<1>3. host = "idle" /\ acked = <<>> /\ ~awaiting /\ ~Strobing'
  BY <1>1, <1>2 DEF HostQuiet, LinesInv, Settled, Strobing
<1>4. sm0'.pc = 1 /\ sm0'.tx = <<>> /\ sm0'.rx = <<>> /\ sm1'.tx = <<>>
  <2>1. /\ sm0'.pc = 1
        /\ sm0'.tx = IF Cfg.sm0.join = Configs("Epp").sm0.join THEN sm0.tx ELSE <<>>
        /\ sm0'.rx = IF Cfg.sm0.join = Configs("Epp").sm0.join THEN sm0.rx ELSE <<>>
        /\ sm1'.tx = IF Cfg.sm1.join = Configs("Epp").sm1.join THEN sm1.tx ELSE <<>>
    BY <1>2, ConfiguredIs
  <2>2. CASE Running # "Epp"
    <3>1. Cfg.sm0.join # Configs("Epp").sm0.join /\ Cfg.sm1.join # Configs("Epp").sm1.join
      BY <1>1, <2>2, Joins DEF Cfg
    <3> QED
      BY <2>1, <3>1
  <2>3. CASE Running = "Epp"
    <3>1. sm0.tx = <<>> /\ sm1.tx = <<>>
      BY <1>1, <2>3 DEF EppInv
    <3>2. sm0.rx = <<>>
      BY <1>3, <2>3 DEF EppInv, Counts
    <3> QED
      BY <2>1, <3>1, <3>2
  <2> QED
    BY <2>2, <2>3
<1>5. ~ghosts' /\ Sent' = <<>>
  BY <1>2, <1>3, <1>4 DEF Sent
<1>6. Len(<<>>) = 0
  OBVIOUS
<1>7. ~Replying' /\ ~Receiving'
  BY <1>4 DEF Replying, Receiving
<1>8. Counts'
  BY <1>2, <1>3, <1>4, <1>6, <1>7 DEF Counts
<1>9. Queue'
  <2>1. ~ReplyWaits' /\ ~CommandWaits'
    BY <1>2, <1>3, <1>6 DEF ReplyWaits, CommandWaits
  <2> QED
    BY <1>4, <2>1 DEF Queue
<1>10. Word' /\ Turns'
  BY <1>2, <1>3, <1>4 DEF Word, Turns
<1>11. Inward(<<>>, <<>>, <<>>) /\ 1 .. 0 = {}
  BY ListedNone DEF Inward
<1>12. ReadSo'
  BY <1>2, <1>6, <1>11 DEF ReadSo
<1> QED
  BY <1>1, <1>2, <1>4, <1>5, <1>6, <1>8, <1>9, <1>10, <1>11, <1>12 DEF EppInv

LEMMA EppStep ==
  ASSUME MuxInv, NegInv, HostQuiet, LinesInv, BytesInv, DataKept, TurnInv, EppInv, Next, MuxInv'
  PROVE  EppInv'
<1>1. CASE CompleteSwitch
  BY <1>1, EppBuilt DEF EppInv
<1>2. CASE Negotiation
  <2>1. active = "SppNibble" /\ active' = active
    BY <1>2, SettledEnds DEF LinesInv, Negotiation, muxVars
  <2>2. Running' = "SppNibble"
    BY <2>1 DEF Running
  <2> QED
    BY <2>2 DEF EppInv
<1>3. CASE ~CompleteSwitch /\ ~Negotiation
  <2>1. Running' = Running \/ Running' # "Epp"
    <3>1. CASE \E t \in Targets : CallSwitch(t)
      BY <3>1 DEF CallSwitch, Serving, BeginSwitch, Running, Phys
    <3>2. CASE ~\E t \in Targets : CallSwitch(t)
      BY <1>3, <3>2 DEF Next, RunSm0, RunSm1, SendByte, AskForward, RecvFromRing, RecvFromFifo,
                        HostWrites, HostReads, HostEnds, muxVars, Running
    <3> QED
      BY <3>1, <3>2
  <2>2. CASE Running # "Epp"
    BY <2>1, <2>2 DEF EppInv
  <2>3. CASE Running = "Epp"
    <3>1. ~RunSm1
      BY <2>3 DEF RunSm1
    <3>2. ~RecvFromRing
      <4>1. RecvFromRing => hw.armed /\ active \in Phys
        BY DEF RecvFromRing, Serving
      <4> QED
        BY <2>3, <4>1, EppHolds
    <3>3. CASE RunSm0
      BY <2>3, <3>3, EppClocked
    <3>4. CASE SendByte \/ AskForward \/ RecvFromFifo
      BY <2>3, <3>4, EppServes
    <3>5. CASE HostWrites \/ HostReads \/ HostEnds
      BY <2>3, <3>5, EppHost
    <3>6. CASE \E t \in Targets : CallSwitch(t)
      BY <2>3, <3>6, EppDismantled
    <3> QED
      BY <1>3, <3>1, <3>2, <3>3, <3>4, <3>5, <3>6 DEF Next
  <2> QED
    BY <2>2, <2>3
<1> QED
  BY <1>1, <1>2, <1>3

(* DIR is what nStrobe was when the follower last ran.                     *)
LEMMA FollowedTurns ==
  ASSUME active = "Epp", NEW p, {"strobe", "dir"} \subseteq DOMAIN p
  PROVE  /\ Followed(p)["dir"] = p["strobe"] /\ Followed(p)["strobe"] = p["strobe"]
<1> DEFINE i == Instruction(FollowerConfig, Idle)
<1>1. i = MovPins("strobe") /\ FollowerConfig.in = <<"strobe">> /\ FollowerConfig.out = "dir"
  BY DEF Instruction, FollowerConfig, Config, DirFollower, Idle
<1>2. Sided(FollowerConfig, i) = <<>>
  BY <1>1 DEF Sided, MovPins
<1>3. Driven(FollowerConfig, i, Idle, p) = Pin("dir", p["strobe"])
  BY <1>1 DEF Driven, MovPins
<1>4. ~Stalled(FollowerConfig, Idle, p) /\ ~(Idle.delay > 0)
  BY <1>1 DEF Stalled, MovPins, Idle
<1>5. Followed(p) = Onto(Pin("dir", p["strobe"]), Onto(<<>>, p))
  BY <1>2, <1>3, <1>4 DEF Followed, Cycle
<1>6. /\ Onto(<<>>, p)["strobe"] = p["strobe"] /\ "strobe" \in DOMAIN Onto(<<>>, p)
  BY DEF Onto
<1> HIDE DEF i
<1> QED
  BY <1>5, <1>6 DEF Onto, Pin

LEMMA TurnStep ==
  ASSUME MuxInv, NegInv, BytesInv, DataKept, LinesInv, TurnInv, Next,
         NegInv', HostQuiet', LinesInv', EppInv', MuxInv'
  PROVE  TurnInv'
<1> SUFFICES ASSUME active' = "Epp", sm0'.pc = 7 PROVE pins'["dir"] = 1
  BY DEF TurnInv
<1>1. CASE RunSm0
  <2>1. active = "Epp" /\ Running' = "Epp"
    BY <1>1 DEF RunSm0, muxVars, Running
  <2>2. host' = "read"
    BY <2>1 DEF EppInv, Turns
  <2>3. pins'["strobe"] = 1
    <3>1. Settled'
      BY <2>2 DEF LinesInv
    <3>2. ~Strobing'
      BY <2>2, <3>1 DEF Settled, Strobing
    <3> QED
      BY <3>2 DEF LinesInv
  <2> DEFINE back == [Whole(Cycle(Cfg.sm0, sm0, [pins EXCEPT !["d"] = DataRead]), Forever).pins
                        EXCEPT !["d"] = pins["d"]]
  <2>4. pins' = Followed(back)
    BY <1>1 DEF RunSm0
  <2>5. {"strobe", "dir"} \subseteq DOMAIN back
    <3> DEFINE read == [pins EXCEPT !["d"] = DataRead]
    <3>1. {"strobe", "dir"} \subseteq DOMAIN read
      BY DEF DataKept, NegInv, NegShape, Lines
    <3>2. DOMAIN back = DOMAIN Cycle(Cfg.sm0, sm0, read).pins
      BY DEF Whole, Cycle
    <3> HIDE DEF read, back
    <3> QED
      BY <3>1, <3>2, CycleGrows
  <2> HIDE DEF back
  <2>6. pins'["dir"] = back["strobe"] /\ pins'["strobe"] = back["strobe"]
    BY <2>1, <2>4, <2>5, FollowedTurns
  <2> QED
    BY <2>3, <2>6
<1>2. CASE RunSm1 \/ CompleteSwitch
  <2>1. ~RunSm1
    BY DEF RunSm1, muxVars
  <2>2. sm0'.pc = 1
    BY <1>2, <2>1, ConfiguredIs DEF CompleteSwitch
  <2> QED
    BY <2>2
<1>3. CASE SendByte \/ AskForward \/ RecvFromRing \/ RecvFromFifo
  <2>1. active = "Epp" /\ pins' = pins
    BY <1>3 DEF SendByte, AskForward, RecvFromRing, RecvFromFifo, muxVars
  <2>2. sm0'.pc = sm0.pc
    <3>1. sm0' = sm0 \/ \E v : sm0' = [sm0 EXCEPT !.tx = v] \/ sm0' = [sm0 EXCEPT !.rx = v]
      BY <1>3, Zenon DEF SendByte, AskForward, RecvFromRing, RecvFromFifo
    <3>2. \A v : [sm0 EXCEPT !.tx = v].pc = sm0.pc /\ [sm0 EXCEPT !.rx = v].pc = sm0.pc
      BY ExceptFields DEF BytesInv
    <3> QED
      BY <3>1, <3>2, Zenon
  <2> QED
    BY <2>1, <2>2 DEF TurnInv
<1>4. CASE HostWrites \/ HostReads \/ HostEnds
  <2>1. active = "Epp" /\ sm0' = sm0 /\ pins'["dir"] = pins["dir"]
    BY <1>4 DEF HostWrites, HostReads, HostEnds, muxVars, phyVars, DataKept
  <2> QED
    BY <2>1 DEF TurnInv
<1>5. CASE \E t \in Targets : CallSwitch(t)
  BY <1>5 DEF CallSwitch, BeginSwitch
<1>6. CASE Negotiation
  <2>1. active = "Epp"
    BY <1>6 DEF Negotiation, muxVars
  <2> QED
    BY <1>6, <2>1, SettledEnds DEF LinesInv
<1> QED
  BY <1>1, <1>2, <1>3, <1>4, <1>5, <1>6 DEF Next

-----------------------------------------------------------------------------
(* The invariant of the port, and the two theorems.                        *)

LEMMA PortStarts ==
  ASSUME Init
  PROVE  LinesInv /\ BytesInv /\ CompatInv /\ DrivenInv /\ DataKept /\ TurnInv /\ EppInv
<1>1. /\ active = "SppNibble" /\ Running = "SppNibble" /\ host = "idle" /\ acked = <<>>
      /\ ~awaiting /\ peer.pc \in {"idle", "none"} /\ hw.armed
      /\ ring = <<>> /\ written = <<>> /\ taken = <<>> /\ rev = <<>> /\ got = <<>>
  <2>1. active = "SppNibble" /\ hw.armed
    <3>1. MuxInv /\ active = "SppNibble"
      BY MuxStarts DEF Init, MuxInit
    <3> QED
      BY <3>1 DEF MuxInv, Between, PinsFollowMode, RingFed, Phys
  <2>2. peer.pc \in {"idle", "none"}
    <3>1. CASE peer = [pc |-> "idle", xrv |-> NIBBLE, left |-> 0]
      BY <3>1
    <3>2. CASE peer = [pc |-> "none", xrv |-> NIBBLE, left |-> 0]
      BY <3>2
    <3> QED
      BY <3>1, <3>2 DEF Init, NegInit
  <2> QED
    BY <2>1, <2>2 DEF Init, Running
<1>2. pins["strobe"] = 1 /\ pins["autofd"] = 1 /\ {"data", "dir"} \subseteq DOMAIN pins
  BY DEF Init, Onto, Levels
<1>3. Machine(sm0) /\ sm0.delay = 0 /\ sm0.pc = 1 /\ sm0.rx = <<>>
  BY DEF Init, Idle, Machine
<1>4. ~Strobing /\ ~Asking /\ Sent = <<>>
  BY <1>1 DEF Strobing, Asking, Sent
<1>5. LinesInv
  BY <1>1, <1>2, <1>4 DEF LinesInv, RingFed
<1>6. BytesInv
  <2>1. Listed(<<>>) /\ <<>> \in Seq(Byte)
    BY ListedNone
  <2>2. Len(Cfg.sm0.prog) \in Nat \ {0}
    BY <1>1, ReceiverIs DEF Cfg, Phys
  <2>3. sm0.pc \in 1 .. Len(Cfg.sm0.prog)
    BY <1>3, <2>2
  <2> QED
    BY <1>1, <1>3, <2>1, <2>3 DEF BytesInv
<1>7. CompatInv
  <2>1. Inward(<<>>, <<>>, <<>>) /\ Len(<<>>) + Len(<<>>) = Len(<<>>)
    BY ListedNone DEF Inward
  <2> QED
    BY <1>1, <1>3, <1>4, <2>1 DEF CompatInv
<1>8. DrivenInv /\ DataKept /\ TurnInv /\ EppInv
  BY <1>1, <1>2 DEF DrivenInv, DataKept, TurnInv, EppInv
<1> QED
  BY <1>5, <1>6, <1>7, <1>8

(* What the theorems about the bytes rest on.                              *)
PortInv ==
    /\ MuxInv /\ NegInv /\ HostQuiet /\ StreamInv
    /\ LinesInv /\ BytesInv /\ DataKept
    /\ CompatInv /\ DrivenInv /\ TurnInv /\ EppInv

LEMMA PortUnchanged == PortInv /\ UNCHANGED vars => PortInv'
<1> SUFFICES ASSUME PortInv, UNCHANGED vars PROVE PortInv'
  OBVIOUS
<1>1. /\ UNCHANGED <<muxVars, negVars, pins, sm0, sm1, drain, ring, awaiting, host, acked, heard,
                     written, taken, rev, got, overran, ghosts, fought>>
      /\ UNCHANGED <<active, leaving, hw, neg, claimed, sio, peer>>
  BY DEF vars, phyVars, hostVars, history, muxVars, negVars
<1>2. MuxInv'
  BY <1>1, MuxUnchanged DEF PortInv
<1>3. NegInv'
  <2>1. HostDriven(pins, pins')
    BY <1>1 DEF HostDriven, PortInv, NegInv, NegShape
  <2> QED
    BY <1>1, <2>1, HostDrivenKeepsNeg DEF PortInv, negVars
<1>4. StreamInv' /\ HostQuiet' /\ DataKept' /\ TurnInv'
  <2>1. StreamInv'
    <3>1. Nibbling => "status" \in DOMAIN pins' /\ pins'["status"] = pins["status"]
      BY <1>1 DEF PortInv, StreamInv
    <3> QED
      BY <1>1, <3>1, StreamUnchanged DEF PortInv
  <2> QED
    BY <1>1, <2>1 DEF PortInv, HostQuiet, DataKept, TurnInv
<1>5. (Running' = Running) /\ (Strobing' <=> Strobing) /\ Sent' = Sent /\ (Settled' <=> Settled)
      /\ (Clean' <=> Clean) /\ (Asking' <=> Asking) /\ Cfg' = Cfg
  <2>1. (Running' = Running) /\ (Strobing' <=> Strobing) /\ (Settled' <=> Settled)
        /\ (Clean' <=> Clean) /\ (Asking' <=> Asking)
    BY <1>1 DEF Running, Strobing, Settled, Clean, Asking, Negotiating
  <2> QED
    BY <1>1, <2>1 DEF Sent, Cfg
<1>6. LinesInv' /\ BytesInv'
  BY <1>1, <1>5 DEF PortInv, LinesInv, BytesInv
<1>7. CompatInv' /\ DrivenInv'
  BY <1>1, <1>5 DEF PortInv, CompatInv, DrivenInv
<1>8. EppInv'
  <2>1. Shown' = Shown /\ (ReadSo' <=> ReadSo)
    BY <1>1, ShownKept
  <2>2. (Counts' <=> Counts) /\ (Queue' <=> Queue) /\ (Word' <=> Word) /\ (Turns' <=> Turns)
    BY <1>1, <2>1 DEF Counts, Queue, Word, Turns, ReplyWaits, CommandWaits, Replying, Receiving, Reply
  <2> QED
    BY <1>1, <1>5, <2>1, <2>2 DEF PortInv, EppInv
<1> QED
  BY <1>2, <1>3, <1>4, <1>6, <1>7, <1>8 DEF PortInv

LEMMA PortInductive == Spec => []PortInv
<1>1. Init => PortInv
  BY MuxStarts, NegStarts, StreamStarts, PortStarts DEF Init, PortInv
<1>2. PortInv /\ [Next]_vars => PortInv'
  <2> SUFFICES ASSUME PortInv, [Next]_vars PROVE PortInv'
    OBVIOUS
  <2>1. CASE Next
    <3>1. /\ MuxInv /\ NegInv /\ HostQuiet /\ StreamInv /\ LinesInv /\ BytesInv /\ DataKept
          /\ CompatInv /\ DrivenInv /\ TurnInv /\ EppInv
      BY DEF PortInv
    <3>2. MuxInv'
      BY <2>1, <3>1, PortMovesMux, BeginKeeps, FinishKeeps, MuxUnchanged
    <3>3. NegInv' /\ HostQuiet' /\ StreamInv' /\ DataKept'
      BY <2>1, <3>1, NegStep, HostStaysQuiet, StreamStep, DataStep
    <3>4. LinesInv' /\ BytesInv'
      BY <2>1, <3>1, <3>2, LinesStep, BytesStep
    <3>5. CompatInv' /\ DrivenInv'
      BY <2>1, <3>1, <3>2, CompatStep, DrivenStep
    <3>6. EppInv'
      BY <2>1, <3>1, <3>2, EppStep
    <3>7. TurnInv'
      BY <2>1, <3>1, <3>2, <3>3, <3>4, <3>6, TurnStep
    <3> QED
      BY <3>2, <3>3, <3>4, <3>5, <3>6, <3>7 DEF PortInv
  <2>2. CASE UNCHANGED vars
    BY <2>2, PortUnchanged
  <2> QED
    BY <2>1, <2>2
<1> QED
  BY <1>1, <1>2, PTL DEF Spec

LEMMA RunsAPhy == MuxInv => Running \in Phys
<1> SUFFICES ASSUME MuxInv PROVE Running \in Phys
  OBVIOUS
<1>1. active \in Phys \cup {"None"} /\ leaving \in Phys
  BY DEF MuxInv, MuxTypeOK, Conserved
<1> QED
  BY <1>1 DEF Running

(* lpt/mod.rs, recv_byte: in every mode, and through every switch, restart *)
(* of a negotiation and queue of the receiver, what it returns is a prefix *)
(* of what the host has written.                                           *)
THEOREM ForwardKept == Spec => []ForwardInOrder
<1>1. PortInv => ForwardInOrder
  <2> SUFFICES ASSUME PortInv, ~ghosts, ~fought, ~overran PROVE IsPrefix(taken, Sent)
    BY DEF ForwardInOrder, Sent, Strobing
  <2>1. /\ MuxInv /\ BytesInv /\ CompatInv /\ DrivenInv /\ EppInv /\ Clean
    BY DEF PortInv, Clean
  <2>2. CASE Running = "SppNibble"
    <3>1. Inward(taken, ring, Sent)
      BY <2>1, <2>2 DEF CompatInv
    <3> QED
      BY <3>1, InwardPrefix
  <2>3. CASE Running \in {"Byte", "Ecp"}
    <3>1. taken = <<>> /\ Listed(Sent)
      <4>1. Listed(written)
        BY <2>1 DEF BytesInv
      <4> QED
        BY <2>1, <2>3, <4>1, ListedAppend DEF DrivenInv, Sent
    <3>2. Inward(<<>>, <<>>, Sent)
      <4>1. Len(Sent) \in Nat
        BY <3>1, ListedLen
      <4> QED
        BY <3>1, <4>1, ListedNone DEF Inward
    <3> QED
      BY <3>1, <3>2, InwardPrefix
  <2>4. CASE Running = "Epp"
    <3>1. Inward(taken, sm0.rx, Sent)
      BY <2>1, <2>4 DEF EppInv
    <3> QED
      BY <3>1, InwardPrefix
  <2> QED
    BY <2>1, <2>2, <2>3, <2>4, RunsAPhy DEF Phys
<1> QED
  BY <1>1, PortInductive, PTL

(* lpt/mod.rs, send_byte: the host reads the bytes sent, in their order,   *)
(* each once, in SPP nibbles and in EPP whose data lines are outputs.  In  *)
(* EPP that found them inputs, and in Byte mode and ECP, which leave the   *)
(* transceiver where it was, it is acknowledged as many reads and each is  *)
(* of floating lines.                                                      *)
THEOREM ReverseKept == Spec => []ReverseInOrder
<1>1. PortInv => ReverseInOrder
  <2> SUFFICES ASSUME PortInv, ~ghosts
               PROVE  /\ Len(got) <= Len(rev)
                      /\ \A k \in DOMAIN got :
                           got[k] = IF ReachesHost THEN rev[k] ELSE Floating
    BY DEF ReverseInOrder
  <2>1. MuxInv /\ StreamInv /\ BytesInv /\ DrivenInv /\ EppInv
    BY DEF PortInv
  <2>2. /\ Listed(got) /\ Len(got) <= Len(rev)
        /\ \A k \in 1 .. Len(got) : got[k] = IF ReachesHost THEN rev[k] ELSE Floating
    <3>1. CASE Running = "SppNibble"
      <4>1. got = heard.bytes /\ Flow(heard.bytes, Held(sm1), sm1.tx, rev)
        BY <2>1, <3>1 DEF StreamInv, Stream, Nibbling
      <4>2. /\ Len(got) \in Nat /\ Held(sm1) \in Nat /\ Len(sm1.tx) \in Nat
            /\ got \in Seq(Byte) /\ Len(rev) = Len(got) + Held(sm1) + Len(sm1.tx)
            /\ \A k \in 1 .. Len(got) : got[k] = rev[k]
        <5>1. Len(heard.bytes) \in Nat /\ Held(sm1) \in Nat /\ Len(sm1.tx) \in Nat
          BY <4>1, FlowLens
        <5> QED
          BY <4>1, <5>1 DEF Flow
      <4>3. Listed(got) /\ ReachesHost
        BY <3>1, <4>2, ListedSeq DEF ReachesHost
      <4> QED
        BY <4>2, <4>3
    <3>2. CASE Running \in {"Byte", "Ecp"}
      <4>1. Listed(got) /\ Len(got) <= Len(rev) /\ \A k \in 1 .. Len(got) : got[k] = Floating
        BY <2>1, <3>2 DEF DrivenInv, BytesInv
      <4>2. ~ReachesHost
        BY <3>2 DEF ReachesHost
      <4> QED
        BY <4>1, <4>2
    <3>3. CASE Running = "Epp"
      <4>1. Listed(got) /\ Len(got) <= Len(rev) /\ ReadSo
        BY <2>1, <3>3 DEF EppInv, Counts, BytesInv
      <4>2. ReachesHost <=> PicoDrivesData
        BY <3>3 DEF ReachesHost
      <4> QED
        BY <4>1, <4>2 DEF ReadSo, EppReads
    <3> QED
      BY <2>1, <3>1, <3>2, <3>3, RunsAPhy DEF Phys
  <2>3. DOMAIN got = 1 .. Len(got)
    BY <2>2, LenProperties DEF Listed
  <2> QED
    BY <2>2, <2>3
<1> QED
  BY <1>1, PortInductive, PTL
=============================================================================
