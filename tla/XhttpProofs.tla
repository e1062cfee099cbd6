---------------------------- MODULE XhttpProofs ----------------------------
(***************************************************************************)
(* What XHTTP promises on the server, each part for every value of its     *)
(* constants: the uplink of numbered POSTs, the response body, and the     *)
(* registry that brings GETs and POSTs together.                           *)
(***************************************************************************)
EXTENDS Xhttp, SequenceTheorems, TLAPS

-----------------------------------------------------------------------------
(***************************************************************************)
(* The order of the packet-up uplink for any number of payloads, of copies *)
(* of each POST and any queue size.  UplinkOrdered is inductive once one   *)
(* knows that every number still in the map lies at or above next_seq;     *)
(* the argument looks at Uplink, what was read followed by what is queued, *)
(* which every step leaves alone, extends by next_seq or cuts short.       *)
(***************************************************************************)
(* The map holds no number that was already passed. *)
PendingAhead == \A n \in pending : n >= next_seq

(* The inductive invariant. *)
Inv ==
  /\ TypeOK
  /\ PendingAhead
  /\ NoneHeldBack
  /\ UplinkOrdered
  /\ GapOnlyByOverflow

(* Moving the head of the queue to the end of what was read changes nothing *)
(* of the two together.                                                     *)
LEMMA MoveHead ==
  ASSUME NEW S, NEW d \in Seq(S), NEW q \in Seq(S), q # <<>>
  PROVE  Append(d, Head(q)) \o Tail(q) = d \o q
<1>1. Head(q) \in S /\ Tail(q) \in Seq(S) /\ Len(Tail(q)) = Len(q) - 1 /\ Len(q) > 0
  BY HeadTailProperties, EmptySeq
<1>. DEFINE a == Append(d, Head(q))
<1>2. a \in Seq(S) /\ Len(a) = Len(d) + 1
  BY <1>1, AppendProperties
<1>3. Len(a \o Tail(q)) = Len(d \o q)
  BY <1>1, <1>2, ConcatProperties
<1>4. ASSUME NEW i \in 1 .. Len(d \o q)
      PROVE  (a \o Tail(q))[i] = (d \o q)[i]
  BY <1>1, <1>2, AppendProperties, HeadTailProperties, ConcatProperties
<1>5. a \o Tail(q) \in Seq(S) /\ d \o q \in Seq(S)
  BY <1>1, <1>2, ConcatProperties, Zenon
<1>. HIDE DEF a
<1>6. a \o Tail(q) = d \o q
  BY <1>3, <1>4, <1>5, SeqEqual, Zenon
<1>. QED BY <1>6, Zenon DEF a

(* Sending into the queue extends the two together by the same element. *)
LEMMA SendExtends ==
  ASSUME NEW S, NEW d \in Seq(S), NEW q \in Seq(S), NEW x \in S
  PROVE  d \o Append(q, x) = Append(d \o q, x)
<1>1. Append(q, x) \in Seq(S) /\ Len(Append(q, x)) = Len(q) + 1
  BY AppendProperties, Zenon
<1>2. d \o q \in Seq(S) /\ Len(d \o q) = Len(d) + Len(q)
  BY ConcatProperties, Zenon
<1>3. /\ Append(d \o q, x) \in Seq(S)
      /\ Len(Append(d \o q, x)) = Len(d) + Len(q) + 1
  BY <1>2, AppendProperties
<1>4. /\ d \o Append(q, x) \in Seq(S)
      /\ Len(d \o Append(q, x)) = Len(d) + Len(q) + 1
  BY <1>1, ConcatProperties
<1>5. ASSUME NEW i \in 1 .. Len(d) + Len(q) + 1
      PROVE  (d \o Append(q, x))[i] = Append(d \o q, x)[i]
  <2>1. CASE i <= Len(d)
    BY <2>1, <1>1, <1>2, AppendProperties, ConcatProperties
  <2>2. CASE i > Len(d) /\ i <= Len(d) + Len(q)
    <3>1. i - Len(d) \in 1 .. Len(q)
      BY <2>2
    <3>2. Append(q, x)[i - Len(d)] = q[i - Len(d)]
      BY <3>1, AppendProperties
    <3>3. (d \o Append(q, x))[i] = Append(q, x)[i - Len(d)]
      BY <2>2, <1>1, <1>2, ConcatProperties
    <3>4. (d \o q)[i] = q[i - Len(d)]
      BY <2>2, <1>2, ConcatProperties
    <3>5. Append(d \o q, x)[i] = (d \o q)[i]
      BY <2>2, <1>2, AppendProperties
    <3>. QED BY <3>2, <3>3, <3>4, <3>5, Zenon
  <2>3. CASE i = Len(d) + Len(q) + 1
    <3>1. (d \o Append(q, x))[i] = Append(q, x)[Len(q) + 1]
      BY <2>3, <1>1, <1>2, ConcatProperties
    <3>2. Append(q, x)[Len(q) + 1] = x
      BY AppendProperties
    <3>3. Append(d \o q, x)[i] = x
      BY <2>3, <1>2, AppendProperties
    <3>. QED BY <3>1, <3>2, <3>3, Zenon
  <2>. QED BY <2>1, <2>2, <2>3
<1>. QED BY <1>3, <1>4, <1>5, SeqEqual, Zenon

(* Payload numbers are natural numbers. *)
LEMMA SeqsAreNat == \A n \in Seqs : n \in Nat
BY PacketUpAssumption DEF Seqs

(* The uplink is a sequence of numbers of payloads. *)
LEMMA UplinkType ==
  ASSUME TypeOK
  PROVE  Uplink \in Seq(Seqs) /\ Len(Uplink) \in Nat
BY ConcatProperties, LenProperties, Zenon DEF TypeOK, Uplink

(* The initial state satisfies the inductive invariant. *)
LEMMA InitInv == Init => Inv
<1>. SUFFICES ASSUME Init PROVE Inv
  OBVIOUS
<1>1. TypeOK
  <2>1. /\ copies \in [Seqs -> 0 .. MaxCopies]
        /\ next_seq \in 0 .. Packets
    BY PacketUpAssumption DEF Init
  <2>2. queue \in Seq(Seqs) /\ delivered \in Seq(Seqs) /\ Len(queue) <= QueueSize
    BY PacketUpAssumption, EmptySeq DEF Init
  <2>3. pending \in SUBSET Seqs /\ draining \in BOOLEAN /\ overflowed \in BOOLEAN
    BY Zenon DEF Init
  <2>. QED BY <2>1, <2>2, <2>3, Zenon DEF Init, TypeOK
<1>2. Uplink = <<>> /\ Len(Uplink) = 0
  BY ConcatEmptySeq, EmptySeq, Zenon DEF Init, Uplink
<1>. QED
  BY <1>1, <1>2 DEF Init, Inv, PendingAhead, NoneHeldBack, UplinkOrdered,
                    GapOnlyByOverflow

(* Every step keeps the inductive invariant. *)
LEMMA StepInv == Inv /\ [Next]_vars => Inv'
<1>. SUFFICES ASSUME Inv, [Next]_vars PROVE Inv'
  OBVIOUS
<1>. USE DEF Inv
<1>1. ASSUME NEW n \in Seqs, Push(n) PROVE Inv'
  <2>1. TypeOK'
    <3>1. copies' \in [Seqs -> 0 .. MaxCopies]
      BY <1>1, PacketUpAssumption DEF Push, TypeOK
    <3>2. pending' \in SUBSET Seqs /\ draining' \in BOOLEAN
      BY <1>1, Zenon DEF Push, TypeOK
    <3>. QED BY <1>1, <3>1, <3>2, Zenon DEF Push, TypeOK
  <2>2. PendingAhead'
    <3>1. CASE n < next_seq
      BY <1>1, <3>1, Zenon DEF Push, PendingAhead
    <3>2. CASE ~(n < next_seq)
      <4>1. n >= next_seq
        BY <3>2, SeqsAreNat, PacketUpAssumption DEF TypeOK
      <4>. QED BY <1>1, <3>2, <4>1, Zenon DEF Push, PendingAhead
    <3>. QED BY <3>1, <3>2, Zenon
  <2>3. NoneHeldBack'
    <3>1. CASE n < next_seq
      BY <1>1, <3>1, Zenon DEF Push, NoneHeldBack
    <3>2. CASE ~(n < next_seq)
      BY <1>1, <3>2, Zenon DEF Push, NoneHeldBack
    <3>. QED BY <3>1, <3>2, Zenon
  <2>4. UplinkOrdered' /\ GapOnlyByOverflow'
    BY <1>1, Zenon DEF Push, UplinkOrdered, GapOnlyByOverflow, Uplink
  <2>. QED BY <2>1, <2>2, <2>3, <2>4, Zenon
<1>2. ASSUME NEW n \in Seqs, LosePost(n) PROVE Inv'
  <2>1. TypeOK'
    BY <1>2, PacketUpAssumption, SMTT(20) DEF LosePost, TypeOK, Seqs
  <2>. QED
    BY <1>2, <2>1, Zenon DEF LosePost, PendingAhead, NoneHeldBack, UplinkOrdered,
                      GapOnlyByOverflow, Uplink
<1>3. CASE Drain
  <2>1. next_seq \in Seqs /\ next_seq \in Nat
    BY <1>3 DEF Drain, TypeOK, Seqs
  <2>2. TypeOK'
    <3>1. next_seq' \in 0 .. Packets /\ pending' \in SUBSET Seqs
      BY <1>3, <2>1, PacketUpAssumption DEF Drain, TypeOK, Seqs
    <3>2. queue' \in Seq(Seqs) /\ Len(queue') <= QueueSize
      BY <1>3, <2>1, AppendProperties, PacketUpAssumption DEF Drain, TypeOK
    <3>3. overflowed' \in BOOLEAN
      BY <1>3, Zenon DEF Drain
    <3>. QED BY <1>3, <3>1, <3>2, <3>3, Zenon DEF Drain, TypeOK
  <2>3. PendingAhead' /\ NoneHeldBack'
    BY <1>3, <2>1 DEF Drain, PendingAhead, NoneHeldBack, TypeOK, Seqs
  <2>4. CASE rx # "closed" /\ Len(queue) < QueueSize
    <3>1. Uplink' = Append(Uplink, next_seq)
      BY <1>3, <2>1, <2>4, SendExtends DEF Drain, TypeOK, Uplink
    <3>2. /\ Len(Uplink') = Len(Uplink) + 1
          /\ \A i \in 1 .. Len(Uplink) : Uplink'[i] = Uplink[i]
          /\ Uplink'[Len(Uplink) + 1] = next_seq
          /\ Len(Uplink) \in Nat
      BY <2>1, <3>1, UplinkType, AppendProperties
    <3>3. \A i \in 1 .. Len(Uplink) : Uplink[i] \in Nat
      BY UplinkType, ElementOfSeq, SeqsAreNat, Zenon
    <3>4. UplinkOrdered'
      BY <1>3, <2>1, <3>2, <3>3, SMTT(20) DEF Drain, UplinkOrdered
    <3>5. overflowed' = overflowed
      BY <1>3, <2>4, PacketUpAssumption DEF Drain, TypeOK
    <3>6. GapOnlyByOverflow'
      BY <1>3, <2>1, <2>4, <3>2, <3>5 DEF Drain, GapOnlyByOverflow
    <3>. QED BY <2>2, <2>3, <3>4, <3>6, Zenon
  <2>5. CASE ~(rx # "closed" /\ Len(queue) < QueueSize)
    <3>1. Uplink' = Uplink
      BY <1>3, <2>5, Zenon DEF Drain, Uplink
    <3>2. \A i \in 1 .. Len(Uplink) : Uplink[i] \in Nat
      BY UplinkType, ElementOfSeq, SeqsAreNat, Zenon
    <3>3. UplinkOrdered'
      BY <1>3, <2>1, <3>1, <3>2 DEF Drain, UplinkOrdered
    <3>4. rx # "closed" => overflowed'
      <4>. SUFFICES ASSUME rx # "closed" PROVE overflowed'
        OBVIOUS
      <4>1. Len(queue) = QueueSize
        BY <2>5, LenProperties, PacketUpAssumption DEF TypeOK
      <4>. QED BY <1>3, <4>1, Zenon DEF Drain
    <3>5. GapOnlyByOverflow'
      BY <1>3, <3>1, <3>4, Zenon DEF Drain, GapOnlyByOverflow
    <3>. QED BY <2>2, <2>3, <3>3, <3>5, Zenon
  <2>. QED BY <2>4, <2>5, Zenon
<1>4. CASE DrainEnds
  <2>1. TypeOK'
    BY <1>4, Zenon DEF DrainEnds, TypeOK
  <2>2. NoneHeldBack'
    BY <1>4 DEF DrainEnds, NoneHeldBack, PendingAhead, TypeOK, Seqs
  <2>. QED
    BY <1>4, <2>1, <2>2, Zenon DEF DrainEnds, PendingAhead, UplinkOrdered,
                            GapOnlyByOverflow, Uplink
<1>5. CASE TakeUploadRx
  BY <1>5, Zenon DEF TakeUploadRx, TypeOK, PendingAhead, NoneHeldBack, UplinkOrdered,
              GapOnlyByOverflow, Uplink
<1>6. CASE Read
  <2>1. /\ Head(queue) \in Seqs /\ Tail(queue) \in Seq(Seqs)
        /\ Len(Tail(queue)) = Len(queue) - 1
    BY <1>6, HeadTailProperties, Zenon DEF Read, TypeOK
  <2>2. TypeOK'
    BY <1>6, <2>1, AppendProperties, LenProperties, PacketUpAssumption DEF Read, TypeOK
  <2>3. Uplink' = Uplink
    BY <1>6, MoveHead, Zenon DEF Read, TypeOK, Uplink
  <2>. QED
    BY <1>6, <2>2, <2>3, Zenon DEF Read, PendingAhead, NoneHeldBack, UplinkOrdered,
                            GapOnlyByOverflow
<1>7. CASE DropRx
  <2>1. TypeOK'
    BY <1>7, EmptySeq, PacketUpAssumption DEF DropRx, TypeOK
  <2>2. Uplink' = delivered
    BY <1>7, ConcatEmptySeq, Zenon DEF DropRx, TypeOK, Uplink
  <2>3. /\ Len(delivered) <= Len(Uplink)
        /\ Len(delivered) \in Nat /\ Len(Uplink) \in Nat
        /\ \A i \in 1 .. Len(delivered) : delivered[i] = Uplink[i]
    BY ConcatProperties, LenProperties DEF TypeOK, Uplink
  <2>4. UplinkOrdered'
    BY <1>7, <2>2, <2>3 DEF DropRx, UplinkOrdered
  <2>5. GapOnlyByOverflow'
    BY <1>7, <2>2, <2>3 DEF DropRx, GapOnlyByOverflow
  <2>. QED
    BY <1>7, <2>1, <2>4, <2>5, Zenon DEF DropRx, PendingAhead, NoneHeldBack
<1>8. CASE UNCHANGED vars
  BY <1>8, Zenon DEF vars, TypeOK, PendingAhead, NoneHeldBack, UplinkOrdered,
              GapOnlyByOverflow, Uplink
<1>. QED BY <1>1, <1>2, <1>3, <1>4, <1>5, <1>6, <1>7, <1>8, Zenon DEF Next

(* The reassembly state and the queue keep their types; the queue never     *)
(* holds more than UPLOAD_QUEUE_SIZE chunks.                                *)
THEOREM PacketUpTypeCorrect == Spec => []TypeOK
<1>1. Inv => TypeOK
  BY Zenon DEF Inv
<1>. QED BY <1>1, InitInv, StepInv, PTL DEF Spec

(* PacketState.push never lets a payload reach the session twice or after a *)
(* later one, for any order, repetition and loss of POSTs.                  *)
THEOREM UplinkIsOrdered == Spec => []UplinkOrdered
<1>1. Inv => UplinkOrdered
  BY Zenon DEF Inv
<1>. QED BY <1>1, InitInv, StepInv, PTL DEF Spec

(* The uplink has a gap only if a try_send found the queue full. *)
THEOREM GapsComeFromOverflow == Spec => []GapOnlyByOverflow
<1>1. Inv => GapOnlyByOverflow
  BY Zenon DEF Inv
<1>. QED BY <1>1, InitInv, StepInv, PTL DEF Spec

(* Outside a push, nothing waits in the map that could be passed on. *)
THEOREM NothingIsHeldBack == Spec => []NoneHeldBack
<1>1. Inv => NoneHeldBack
  BY Zenon DEF Inv
<1>. QED BY <1>1, InitInv, StepInv, PTL DEF Spec

-----------------------------------------------------------------------------
(***************************************************************************)
(* The response body.  Each chunk in the channel is the one after its      *)
(* predecessor or, once a write met a full channel, the same again; the    *)
(* newest is the last one the writer reported, or the one after it, and    *)
(* that is also what the writer keeps.                                     *)
(***************************************************************************)
(* The chunks q follow chunk l, each by one or, where a chunk may come      *)
(* again, by none.                                                          *)
Moved(x, y, again) == y = x + 1 \/ (again /\ y = x)
Walk(q, l, again) ==
  \A i \in 1 .. Len(q) : Moved(IF i = 1 THEN l ELSE q[i - 1], q[i], again)
Newest(q, l) == IF q = <<>> THEN l ELSE q[Len(q)]

LEMMA WalkNowhere == \A l, a : Walk(<<>>, l, a) /\ Newest(<<>>, l) = l
BY DEF Walk, Newest

LEMMA WalkMore == \A q, l, a : Walk(q, l, a) => Walk(q, l, TRUE)
BY Zenon DEF Walk, Moved

LEMMA WalkAppend ==
  ASSUME NEW q \in Seq(Nat), NEW x \in Nat, NEW l, NEW again, Walk(q, l, again),
         Moved(Newest(q, l), x, again)
  PROVE  Walk(Append(q, x), l, again) /\ Newest(Append(q, x), l) = x
<1>. DEFINE t == Append(q, x)
<1>1. /\ t \in Seq(Nat) /\ Len(t) = Len(q) + 1 /\ t[Len(q) + 1] = x /\ t # <<>> /\ Len(q) \in Nat
      /\ \A i \in 1 .. Len(q) : t[i] = q[i]
  BY AppendProperties
<1>2. q = <<>> <=> Len(q) = 0
  BY EmptySeq, Zenon
<1>. HIDE DEF t
<1>3. ASSUME NEW i \in 1 .. Len(t)
      PROVE  Moved(IF i = 1 THEN l ELSE t[i - 1], t[i], again)
  <2>1. CASE i <= Len(q)
    <3>1. i \in 1 .. Len(q) /\ (i # 1 => i - 1 \in 1 .. Len(q))
      BY <1>1, <2>1
    <3>2. t[i] = q[i] /\ (i # 1 => t[i - 1] = q[i - 1])
      BY <1>1, <3>1, Zenon
    <3>. QED BY <3>1, <3>2, Zenon DEF Walk
  <2>2. CASE i = Len(q) + 1
    BY <1>1, <1>2, <2>2 DEF Newest
  <2>. QED BY <1>1, <2>1, <2>2
<1>4. Walk(t, l, again) /\ Newest(t, l) = x
  BY <1>1, <1>3, Zenon DEF Walk, Newest
<1>. QED BY <1>4, Zenon DEF t

LEMMA WalkTail ==
  ASSUME NEW q \in Seq(Nat), NEW l, NEW again, Walk(q, l, again), q # <<>>
  PROVE  /\ Moved(l, Head(q), again)
         /\ Walk(Tail(q), Head(q), again) /\ Newest(Tail(q), Head(q)) = Newest(q, l)
<1>. DEFINE t == Tail(q)
            h == Head(q)
<1>1. /\ t \in Seq(Nat) /\ Len(t) = Len(q) - 1 /\ Len(q) \in Nat /\ Len(q) > 0 /\ h = q[1]
      /\ \A i \in 1 .. Len(t) : t[i] = q[i + 1]
  BY HeadTailProperties, EmptySeq
<1>2. t = <<>> <=> Len(t) = 0
  BY <1>1, EmptySeq, Zenon
<1>. HIDE DEF t, h
<1>3. Moved(l, h, again)
  BY <1>1 DEF Walk
<1>4. ASSUME NEW i \in 1 .. Len(t)
      PROVE  Moved(IF i = 1 THEN h ELSE t[i - 1], t[i], again)
  <2>1. t[i] = q[i + 1] /\ i + 1 \in 1 .. Len(q) /\ i + 1 # 1 /\ (i + 1) - 1 = i
    BY <1>1
  <2>2. Moved(q[i], q[i + 1], again)
    BY <2>1, Zenon DEF Walk
  <2>3. ASSUME i # 1 PROVE t[i - 1] = q[i]
    <3>1. i - 1 \in 1 .. Len(t) /\ (i - 1) + 1 = i
      BY <1>1, <2>3
    <3>2. \A j \in 1 .. Len(t) : t[j] = q[j + 1]
      BY <1>1, Zenon
    <3>. QED BY <3>1, <3>2, Zenon
  <2>. QED BY <1>1, <2>1, <2>2, <2>3, Zenon
<1>5. Newest(t, h) = Newest(q, l)
  <2>1. CASE Len(t) = 0
    <3>1. Len(q) = 1
      BY <1>1, <2>1
    <3>. QED BY <1>1, <1>2, <2>1, <3>1 DEF Newest
  <2>2. CASE Len(t) # 0
    <3>1. Len(t) \in 1 .. Len(t) /\ Len(t) + 1 = Len(q)
      BY <1>1, <2>2
    <3>2. t[Len(t)] = q[Len(q)]
      BY <1>1, <3>1, Zenon
    <3>. QED BY <1>2, <2>2, <3>2, Zenon DEF Newest
  <2>. QED BY <2>1, <2>2, Zenon
<1>. QED BY <1>3, <1>4, <1>5, Zenon DEF Walk, t, h

(* What the writer keeps is the chunk after the last one it reported.       *)
BodyInv ==
  /\ bodyAccepted \in Nat /\ bodyLast \in Nat /\ bodyQueue \in Seq(Nat) /\ bodyStalled \in BOOLEAN
  /\ bodyPending \in {<<>>, <<bodyAccepted + 1>>}
  /\ ~bodyStalled \/ bodyCaller = "send" => bodyPending = <<>>
  /\ bodyRepeated => bodyStalled
  /\ Walk(bodyQueue, bodyLast, bodyStalled)
  /\ IF body = "open"
     THEN /\ Newest(bodyQueue, bodyLast) \in {bodyAccepted, bodyAccepted + 1}
          /\ ~bodyStalled => Newest(bodyQueue, bodyLast) = bodyAccepted
     ELSE bodyQueue = <<>>

LEMMA FlushStep ==
  ASSUME BodyInv, Body!PollFlush \/ Body!PollShutdown
  PROVE  BodyInv'
<1>1. /\ bodyPending = <<>> \/ body = "open"
      /\ bodyQueue' = bodyQueue \o bodyPending /\ bodyPending' = <<>>
      /\ UNCHANGED <<body, bodyAccepted, bodyLast, bodyStalled, bodyRepeated>>
  BY Zenon DEF Body!PollFlush, Body!PollShutdown, Body!FlushPending, Body!HasRoom
<1>2. CASE bodyPending = <<>>
  <2>1. bodyQueue' = bodyQueue
    BY <1>1, <1>2, ConcatEmptySeq, Zenon DEF BodyInv
  <2>. QED BY <1>1, <2>1, Zenon DEF BodyInv
<1>3. CASE bodyPending = <<bodyAccepted + 1>>
  <2>1. body = "open" /\ bodyStalled
    BY <1>1, <1>3, Zenon DEF BodyInv
  <2>2. bodyQueue' = Append(bodyQueue, bodyAccepted + 1)
    BY <1>1, <1>3, AppendIsConcat DEF BodyInv
  <2>3. Moved(Newest(bodyQueue, bodyLast), bodyAccepted + 1, bodyStalled)
    BY <2>1, Zenon DEF BodyInv, Moved
  <2>5. Walk(bodyQueue', bodyLast, bodyStalled) /\ Newest(bodyQueue', bodyLast) = bodyAccepted + 1
    BY <2>2, <2>3, WalkAppend DEF BodyInv
  <2>4. bodyQueue' \in Seq(Nat)
    BY <2>2, AppendProperties DEF BodyInv
  <2>. QED BY <1>1, <2>1, <2>4, <2>5, Zenon DEF BodyInv
<1>. QED BY <1>2, <1>3, Zenon DEF BodyInv

LEMMA SendStep == ASSUME BodyInv, Body!PollSend PROVE BodyInv'
<1>1. /\ body = "open" /\ bodyPending = <<>> /\ UNCHANGED <<body, bodyLast, bodyRepeated>>
  BY Zenon DEF Body!PollSend, BodyInv
<1>2. CASE Body!HasRoom
  <2>1. /\ bodyQueue' = Append(bodyQueue, bodyAccepted + 1) /\ bodyAccepted' = bodyAccepted + 1
        /\ UNCHANGED <<bodyPending, bodyStalled>>
    BY <1>2, Zenon DEF Body!PollSend
  <2>4. Moved(Newest(bodyQueue, bodyLast), bodyAccepted + 1, bodyStalled)
    BY <1>1, Zenon DEF BodyInv, Moved
  <2>2. /\ Walk(bodyQueue', bodyLast, bodyStalled)
        /\ Newest(bodyQueue', bodyLast) = bodyAccepted + 1
    BY <2>1, <2>4, WalkAppend DEF BodyInv
  <2>3. bodyQueue' \in Seq(Nat)
    BY <2>1, AppendProperties DEF BodyInv
  <2>. QED BY <1>1, <2>1, <2>2, <2>3 DEF BodyInv
<1>3. CASE ~Body!HasRoom
  <2>1. /\ bodyPending' = <<bodyAccepted + 1>> /\ bodyCaller' = "flush" /\ bodyStalled' = TRUE
        /\ UNCHANGED <<bodyQueue, bodyAccepted>>
    BY <1>3, Zenon DEF Body!PollSend
  <2>2. Walk(bodyQueue, bodyLast, TRUE)
    BY WalkMore, Zenon DEF BodyInv
  <2>3. Newest(bodyQueue', bodyLast') \in {bodyAccepted', bodyAccepted' + 1}
    BY <1>1, <2>1, Zenon DEF BodyInv
  <2>. QED BY <1>1, <2>1, <2>2, <2>3, Zenon DEF BodyInv
<1>. QED BY <1>2, <1>3, Zenon

LEMMA FrameSentStep == ASSUME BodyInv, Body!PollFrame PROVE BodyInv'
<1>. DEFINE h == Head(bodyQueue)
<1>1. /\ body = "open" /\ bodyQueue # <<>> /\ bodyLast' = h /\ bodyQueue' = Tail(bodyQueue)
      /\ bodyRepeated' = (bodyRepeated \/ bodyLast = h)
      /\ UNCHANGED <<body, bodyPending, bodyCaller, bodyAccepted, bodyStalled>>
  BY Zenon DEF Body!PollFrame
<1>2. h \in Nat /\ Tail(bodyQueue) \in Seq(Nat)
  BY <1>1, HeadTailProperties, Zenon DEF BodyInv
<1>3. /\ Moved(bodyLast, h, bodyStalled)
      /\ Walk(Tail(bodyQueue), h, bodyStalled)
      /\ Newest(Tail(bodyQueue), h) = Newest(bodyQueue, bodyLast)
  BY <1>1, WalkTail, Zenon DEF BodyInv
<1>. HIDE DEF h
<1>4. bodyRepeated' => bodyStalled
  BY <1>1, <1>3 DEF BodyInv, Moved
<1>. QED BY <1>1, <1>2, <1>3, <1>4, Zenon DEF BodyInv

LEMMA BodyInductive ==
  /\ Body!Init => BodyInv
  /\ BodyInv /\ [Body!Next]_(Body!vars) => BodyInv'
<1>1. ASSUME Body!Init PROVE BodyInv
  <2>1. Walk(bodyQueue, bodyLast, bodyStalled) /\ Newest(bodyQueue, bodyLast) = 0
    BY <1>1, WalkNowhere, Zenon DEF Body!Init
  <2>2. bodyQueue \in Seq(Nat)
    BY <1>1 DEF Body!Init
  <2>. QED BY <1>1, <2>1, <2>2, Zenon DEF Body!Init, BodyInv
<1>2. ASSUME BodyInv, [Body!Next]_(Body!vars) PROVE BodyInv'
  <2>1. CASE Body!WriteBegins \/ Body!ShutdownBegins \/ Body!WriteFails
    BY <1>2, <2>1 DEF Body!WriteBegins, Body!ShutdownBegins, Body!WriteFails, BodyInv
  <2>2. CASE Body!BodyDropped
    BY <1>2, <2>2, WalkNowhere DEF Body!BodyDropped, BodyInv
  <2>3. CASE UNCHANGED Body!vars
    BY <1>2, <2>3, Zenon DEF Body!vars, BodyInv
  <2>. QED BY <1>2, <2>1, <2>2, <2>3, FlushStep, SendStep, FrameSentStep, Zenon
             DEF Body!Next
<1>. QED BY <1>1, <1>2, Zenon

(* BodyInOrder of ChannelWriter and MpscBody (xhttp/common.rs), for every   *)
(* capacity of the channel and number of chunks.                            *)
THEOREM BodiesAreInOrder == Body!Spec => []BodyInOrder
<1>1. ASSUME BodyInv PROVE BodyInOrder
  <2>. DEFINE s == <<bodyLast>> \o bodyQueue
  <2>1. /\ s \in Seq(Nat) /\ Len(s) = Len(bodyQueue) + 1 /\ s[1] = bodyLast /\ Len(bodyQueue) \in Nat
        /\ \A i \in 1 .. Len(bodyQueue) : s[i + 1] = bodyQueue[i]
    BY <1>1, ConcatProperties, SMTT(30) DEF BodyInv
  <2>. HIDE DEF s
  <2>2. ASSUME NEW i \in 1 .. Len(s) - 1 PROVE s[i + 1] \in {s[i], s[i] + 1}
    <3>1. i \in 1 .. Len(bodyQueue) /\ s[i] = IF i = 1 THEN bodyLast ELSE bodyQueue[i - 1]
      <4>1. i \in 1 .. Len(bodyQueue)
        BY <2>1
      <4>2. ASSUME i # 1 PROVE s[i] = bodyQueue[i - 1]
        <5>1. i - 1 \in 1 .. Len(bodyQueue) /\ (i - 1) + 1 = i
          BY <2>1, <4>2
        <5>. QED BY <2>1, <5>1, Zenon
      <4>. QED BY <2>1, <4>1, <4>2, Zenon
    <3>2. Moved(s[i], s[i + 1], bodyStalled)
      BY <1>1, <2>1, <3>1, Zenon DEF BodyInv, Walk
    <3>. QED BY <3>2, Zenon DEF Moved
  <2>3. s[Len(s)] = Newest(bodyQueue, bodyLast)
    <3>1. bodyQueue = <<>> <=> Len(bodyQueue) = 0
      BY <1>1, EmptySeq, Zenon DEF BodyInv
    <3>2. CASE Len(bodyQueue) = 0
      BY <2>1, <3>1, <3>2 DEF Newest
    <3>3. CASE Len(bodyQueue) # 0
      BY <2>1, <3>1, <3>3 DEF Newest
    <3>. QED BY <3>2, <3>3, Zenon
  <2>4. body = "open" => s[Len(s)] >= bodyAccepted
    BY <1>1, <2>3 DEF BodyInv
  <2>. QED BY <1>1, <2>2, <2>4, Zenon
           DEF s, BodyInv, BodyInOrder, Body!NoChunkSkipped, Body!ExactUnlessStalled,
           Body!Stream
<1>. QED BY <1>1, BodyInductive, PTL DEF Body!Spec

-----------------------------------------------------------------------------
(***************************************************************************)
(* The registry.  The clause about a GET that was told of the end is       *)
(* inductive with the remark that its session has left the map: whoever    *)
(* comes later joins another one.  The clause about the id of a POST is    *)
(* inductive with the remark that the map holds the newest session or      *)
(* none: a POST that takes the id away from a session fed that session, or *)
(* had lost the id itself, to a POST of its own session or of an older one.*)
(***************************************************************************)
RegTyped ==
  /\ made \in Nat /\ entry \in {0, made}
  /\ joined \in [Reqs -> 0 .. made]
  /\ upload \in Seq(Nat) /\ Len(upload) = made
  /\ status \in [Reqs -> {"new", "200", "400", "404", "405", "409", "413"}]
  /\ reader \in [Reqs -> {"none", "reading", "ended", "gone"}]
  /\ attached \subseteq Reqs /\ taken \subseteq Reqs

(* A request has joined no session before it is handled, and one that is    *)
(* read or fed from has.                                                    *)
Joined ==
  /\ \A r \in Reqs : status[r] = "new" => joined[r] = 0 /\ r \notin taken /\ reader[r] = "none"
  /\ \A r \in Reqs : reader[r] # "none" => joined[r] # 0 /\ kind[r].method = "GET"
  /\ \A r \in attached : joined[r] # 0 /\ kind[r].method = "POST" /\ kind[r].seq = ""

(* A connection has one sender, and only who took it is read.               *)
OneSender ==
  /\ \A q, r \in taken : kind[q].conn = kind[r].conn => q = r
  /\ \A r \in Reqs : reader[r] \in {"reading", "ended"} => r \in taken

OneGet ==
  \A g, h \in Reqs :
    (/\ kind[g].method = "GET" /\ kind[h].method = "GET"
     /\ joined[g] = joined[h] /\ joined[g] # 0) => g = h

(* The session of a GET that was told of the end is out of the map, so no   *)
(* request joins it any more.                                               *)
EndedIsOver ==
  \A g \in Reqs : reader[g] = "ended" =>
    /\ entry # joined[g] /\ upload[joined[g]] = 0
    /\ \A p \in attached : joined[p] # joined[g]

(* The id of a POST that is being read. *)
KeepsId == \A r \in attached : entry = joined[r] \/ \E s \in 1 .. joined[r] : Shared(s)

RegInv == RegTyped /\ Joined /\ OneSender /\ OneGet /\ EndedIsOver /\ KeepsId

(* What a request does to the session it is let into.                       *)
Enters(r, s) ==
  \/ UNCHANGED <<taken, joined, attached, reader>>
  \/ /\ kind[r].method = "GET" /\ Gets(s) = {}
     /\ reader' = [reader EXCEPT ![r] = IF IsFirst(r) THEN "reading" ELSE "gone"]
     /\ joined' = [joined EXCEPT ![r] = s]
     /\ send_upgrade(r)
     /\ UNCHANGED attached
  \/ /\ kind[r].method = "POST"
     /\ attached' = attached \/ (attached' = attached \cup {r} /\ kind[r].seq = "")
     /\ joined' = [joined EXCEPT ![r] = s]
     /\ send_upgrade(r)
     /\ UNCHANGED reader

Handled(r) ==
  /\ status[r] = "new"
  /\ \E c \in {"200", "400", "404", "405", "409", "413"} : status' = [status EXCEPT ![r] = c]
  /\ UNCHANGED <<kind, allowed, pushed>>

LEMMA HandlerCases ==
  ASSUME NEW r \in Reqs, handle_request(r)
  PROVE  /\ Handled(r)
         /\ \/ UNCHANGED <<entry, made, upload, taken, joined, attached, reader>>
            \/ UNCHANGED <<entry, made, upload, joined, attached, reader>> /\ send_upgrade(r)
            \/ \E s \in 1 .. made + 1 : get_or_create(s) /\ Enters(r, s)
<1>. DEFINE Quiet == UNCHANGED <<entry, made, upload, taken, joined, attached, reader>>
            One == UNCHANGED <<entry, made, upload, joined, attached, reader>> /\ send_upgrade(r)
            In == \E s \in 1 .. made + 1 : get_or_create(s) /\ Enters(r, s)
            Code == \E c \in {"200", "400", "404", "405", "409", "413"} :
                      status' = [status EXCEPT ![r] = c]
<1>1. ASSUME NEW c \in {"200", "400", "404", "405", "409", "413"}, Refuse(r, c)
      PROVE  Code /\ Quiet
  BY <1>1, Zenon DEF Refuse, Answer
<1>2. ASSUME handle_stream_one(r) PROVE Code /\ (Quiet \/ One)
  BY <1>1, <1>2, Zenon DEF handle_stream_one, Answer
<1>3. ASSUME handle_packet_up(r) PROVE Code /\ (Quiet \/ In)
  BY <1>1, <1>3, Zenon DEF handle_packet_up, Answer, Enters
<1>4. ASSUME handle_stream_up(r), kind[r].seq = "" PROVE Code /\ In
  BY <1>4, Zenon DEF handle_stream_up, Answer, Enters
<1>5. status[r] = "new" /\ UNCHANGED <<kind, allowed, pushed>>
  BY Zenon DEF handle_request
<1>6. \/ Refuse(r, "200") \/ Refuse(r, "404") \/ Refuse(r, "400")
      \/ handle_stream_one(r) \/ handle_packet_up(r)
      \/ handle_stream_up(r) /\ kind[r].seq = ""
  BY Zenon DEF handle_request
<1>7. Code /\ (Quiet \/ One \/ In)
  BY <1>1, <1>2, <1>3, <1>4, <1>6, Zenon
<1>. QED BY <1>5, <1>7, Zenon DEF Handled

(* Where the sessions of requests lie. *)
LEMMA Sessions ==
  ASSUME RegInv
  PROVE  /\ made \in Nat /\ entry \in {0, made} /\ upload \in Seq(Nat) /\ Len(upload) = made
         /\ \A r \in Reqs : reader[r] # "none" => joined[r] \in 1 .. made
         /\ \A r \in attached : r \in Reqs /\ joined[r] \in 1 .. made
<1>1. /\ made \in Nat /\ entry \in {0, made} /\ upload \in Seq(Nat) /\ Len(upload) = made
      /\ attached \subseteq Reqs
      /\ \A r \in Reqs : joined[r] \in 0 .. made
  BY Zenon DEF RegInv, RegTyped
<1>2. /\ \A r \in Reqs : reader[r] # "none" => joined[r] # 0
      /\ \A r \in attached : joined[r] # 0
  BY Zenon DEF RegInv, Joined
<1>. QED BY <1>1, <1>2

LEMMA SameSessions ==
  ASSUME UNCHANGED <<kind, joined>>
  PROVE  \A s : Shared(s)' <=> Shared(s)
<1>1. \A s : Posts(s)' = Posts(s)
  BY Zenon DEF Posts, Reqs
<1>. QED BY <1>1, Zenon DEF Shared

LEMMA SameIds ==
  ASSUME RegInv, UNCHANGED <<kind, entry, joined, attached>>
  PROVE  KeepsId'
BY SameSessions, Zenon DEF RegInv, KeepsId

(* The session a request gets is in the map, and is none whose GET was told *)
(* of the end.                                                              *)
LEMMA Created ==
  ASSUME RegInv, NEW s \in 1 .. made + 1, get_or_create(s)
  PROVE  /\ made' \in Nat /\ made' >= made /\ s = made' /\ s \in 1 .. made' /\ entry' = s
         /\ upload' \in Seq(Nat) /\ Len(upload') = made'
         /\ \A i \in 1 .. made : upload'[i] = upload[i]
         /\ \A g \in Reqs : reader[g] = "ended" => s # joined[g] /\ joined[g] \in 1 .. made
<1>1. /\ made \in Nat /\ entry \in {0, made} /\ upload \in Seq(Nat) /\ Len(upload) = made
      /\ \A g \in Reqs : reader[g] = "ended" => joined[g] \in 1 .. made /\ entry # joined[g]
  BY Sessions, Zenon DEF RegInv, EndedIsOver
<1>2. CASE entry # 0
  <2>1. s = entry /\ made' = made /\ entry' = entry /\ upload' = upload
    BY <1>2, Zenon DEF get_or_create
  <2>. QED BY <1>1, <1>2, <2>1
<1>3. CASE entry = 0
  <2>1. s = made + 1 /\ made' = made + 1 /\ entry' = s /\ upload' = Append(upload, 0)
    BY <1>3, Zenon DEF get_or_create
  <2>2. /\ upload' \in Seq(Nat) /\ Len(upload') = made + 1
        /\ \A i \in 1 .. made : upload'[i] = upload[i]
    BY <1>1, <2>1, AppendProperties
  <2>. QED BY <1>1, <2>1, <2>2
<1>. QED BY <1>2, <1>3, Zenon

LEMMA EntersTyped ==
  ASSUME RegInv, NEW r \in Reqs, Handled(r), NEW s \in 1 .. made + 1, get_or_create(s), Enters(r, s)
  PROVE  RegTyped'
<1>1. /\ made' \in Nat /\ made' >= made /\ s = made' /\ s \in 1 .. made' /\ entry' = s
      /\ upload' \in Seq(Nat) /\ Len(upload') = made' /\ UNCHANGED kind
  BY Created, Zenon DEF Handled
<1>2. joined' \in [Reqs -> 0 .. made']
  <2>1. s \in 0 .. made' /\ 0 .. made \subseteq 0 .. made'
    BY <1>1 DEF RegInv, RegTyped
  <2>2. joined \in [Reqs -> 0 .. made']
    BY <2>1, Zenon DEF RegInv, RegTyped
  <2>3. joined' = joined \/ joined' = [joined EXCEPT ![r] = s]
    BY Zenon DEF Enters
  <2>. QED BY <2>1, <2>2, <2>3, Zenon
<1>3. status' \in [Reqs -> {"new", "200", "400", "404", "405", "409", "413"}]
  BY Zenon DEF Handled, RegInv, RegTyped
<1>4. taken' \subseteq Reqs
  BY Zenon DEF Enters, send_upgrade, RegInv, RegTyped
<1>5. reader' \in [Reqs -> {"none", "reading", "ended", "gone"}]
  BY Zenon DEF Enters, RegInv, RegTyped
<1>6. attached' \subseteq Reqs
  BY Zenon DEF Enters, RegInv, RegTyped
<1>. QED BY <1>1, <1>2, <1>3, <1>4, <1>5, <1>6 DEF RegTyped, Reqs, RegInv

(* The first request of a connection to send is the only one that takes the *)
(* sender.                                                                   *)
LEMMA SenderTaken ==
  ASSUME RegInv, NEW r \in Reqs, status[r] = "new", kind' = kind, UNCHANGED taken \/ send_upgrade(r)
  PROVE  /\ taken \subseteq taken' /\ taken' \subseteq taken \cup {r}
         /\ \A p, q \in taken' : kind'[p].conn = kind'[q].conn => p = q
         /\ send_upgrade(r) /\ IsFirst(r) => r \in taken'
<1>1. \A p, q \in taken : kind[p].conn = kind[q].conn => p = q
  BY Zenon DEF RegInv, OneSender
<1>2. CASE UNCHANGED taken
  BY <1>1, <1>2, Zenon DEF send_upgrade
<1>3. CASE send_upgrade(r) /\ IsFirst(r)
  BY <1>1, <1>3, Zenon DEF send_upgrade, IsFirst
<1>4. CASE send_upgrade(r) /\ ~IsFirst(r)
  BY <1>1, <1>4, Zenon DEF send_upgrade
<1>. QED BY <1>2, <1>3, <1>4, Zenon

(* Nobody leaves a session that was joined, so one that had two POSTs had   *)
(* them ever after.                                                         *)
LEMMA SharedStays ==
  ASSUME kind' = kind, NEW s, s # 0, Shared(s),
         \A q \in Reqs : joined[q] # 0 => joined'[q] = joined[q]
  PROVE  Shared(s)'
<1>1. PICK p, q \in Posts(s) : p # q /\ kind[p].seq = "" /\ kind[q].seq = ""
  BY Zenon DEF Shared
<1>2. p \in Posts(s)' /\ q \in Posts(s)'
  BY <1>1, Zenon DEF Posts, Reqs
<1>. QED BY <1>1, <1>2, Zenon DEF Shared

LEMMA EntersStep ==
  ASSUME RegInv, NEW r \in Reqs, Handled(r), NEW s \in 1 .. made + 1, get_or_create(s), Enters(r, s)
  PROVE  RegInv'
<1>1. /\ made' \in Nat /\ s # 0 /\ entry' = s /\ entry' # 0
      /\ \A i \in 1 .. made : upload'[i] = upload[i]
      /\ \A g \in Reqs : reader[g] = "ended" => s # joined[g] /\ joined[g] \in 1 .. made
      /\ kind' = kind /\ Reqs' = Reqs
  BY Created DEF Handled, Reqs
<1>2. RegTyped'
  BY EntersTyped, Zenon
<1>3. status[r] = "new" /\ joined[r] = 0 /\ r \notin taken /\ reader[r] = "none"
  BY Zenon DEF Handled, RegInv, Joined
<1>4. /\ taken \subseteq taken' /\ taken' \subseteq taken \cup {r}
      /\ \A p, q \in taken' : kind'[p].conn = kind'[q].conn => p = q
      /\ send_upgrade(r) /\ IsFirst(r) => r \in taken'
  <2>1. UNCHANGED taken \/ send_upgrade(r)
    BY Zenon DEF Enters
  <2>. QED BY <1>1, <1>3, <2>1, SenderTaken, Zenon
<1>5. /\ \A q \in Reqs \ {r} : /\ status'[q] = status[q] /\ joined'[q] = joined[q]
                              /\ reader'[q] = reader[q]
      /\ status'[r] # "new"
      /\ attached' \subseteq attached \cup {r}
      /\ \/ joined'[r] = 0 /\ reader'[r] = "none" /\ r \notin attached'
         \/ /\ joined'[r] = s /\ reader'[r] \in {"reading", "gone"}
            /\ reader'[r] = "reading" => r \in taken'
            /\ kind[r].method = "GET" /\ Gets(s) = {} /\ r \notin attached'
         \/ /\ joined'[r] = s /\ reader'[r] = "none"
            /\ kind[r].method = "POST" /\ (r \in attached' => kind[r].seq = "")
  <2>1. r \notin attached
    BY <1>3, Zenon DEF RegInv, Joined
  <2>2. /\ \A q \in Reqs \ {r} : status'[q] = status[q]
        /\ status'[r] # "new"
    BY Zenon DEF Handled, RegInv, RegTyped
  <2>3. joined \in [Reqs -> 0 .. made] /\ reader \in [Reqs -> {"none", "reading", "ended", "gone"}]
    BY Zenon DEF RegInv, RegTyped
  <2>4. CASE UNCHANGED <<taken, joined, attached, reader>>
    BY <1>3, <2>1, <2>2, <2>4, Zenon
  <2>5. CASE /\ kind[r].method = "GET" /\ Gets(s) = {}
             /\ reader' = [reader EXCEPT ![r] = IF IsFirst(r) THEN "reading" ELSE "gone"]
             /\ joined' = [joined EXCEPT ![r] = s]
             /\ send_upgrade(r)
             /\ UNCHANGED attached
    BY <1>4, <2>1, <2>2, <2>3, <2>5, Zenon
  <2>6. CASE /\ kind[r].method = "POST"
             /\ attached' = attached \/ (attached' = attached \cup {r} /\ kind[r].seq = "")
             /\ joined' = [joined EXCEPT ![r] = s]
             /\ send_upgrade(r)
             /\ UNCHANGED reader
    BY <1>3, <2>1, <2>2, <2>3, <2>6, Zenon
  <2>. QED BY <2>4, <2>5, <2>6, Zenon DEF Enters
<1>6. Joined'
  <2>1. ASSUME NEW q \in Reqs
        PROVE  /\ status'[q] = "new" => joined'[q] = 0 /\ q \notin taken' /\ reader'[q] = "none"
               /\ reader'[q] # "none" => joined'[q] # 0 /\ kind[q].method = "GET"
    <3>1. CASE q = r
      BY <1>1, <1>5, <3>1, Zenon
    <3>2. CASE q # r
      <4>1. status'[q] = status[q] /\ joined'[q] = joined[q] /\ reader'[q] = reader[q]
        BY <1>5, <3>2, Zenon
      <4>2. q \in taken' => q \in taken
        BY <1>4, <3>2, Zenon
      <4>. QED BY <4>1, <4>2, Zenon DEF RegInv, Joined
    <3>. QED BY <3>1, <3>2, Zenon
  <2>2. ASSUME NEW q \in attached'
        PROVE  joined'[q] # 0 /\ kind[q].method = "POST" /\ kind[q].seq = ""
    <3>1. CASE q = r
      BY <1>1, <1>5, <2>2, <3>1, Zenon
    <3>2. CASE q # r
      <4>1. q \in attached /\ q \in Reqs
        BY <1>5, <2>2, <3>2, Zenon DEF RegInv, RegTyped
      <4>2. joined'[q] = joined[q]
        BY <1>5, <3>2, <4>1, Zenon
      <4>. QED BY <4>1, <4>2, Zenon DEF RegInv, Joined
    <3>. QED BY <3>1, <3>2, Zenon
  <2>. QED BY <1>1, <2>1, <2>2, Zenon DEF Joined
<1>7. OneSender'
  <2>1. ASSUME NEW q \in Reqs, reader'[q] \in {"reading", "ended"} PROVE q \in taken'
    <3>1. CASE q = r
      BY <1>5, <2>1, <3>1, Zenon
    <3>2. CASE q # r
      BY <1>4, <1>5, <2>1, <3>2, Zenon DEF RegInv, OneSender
    <3>. QED BY <3>1, <3>2, Zenon
  <2>. QED BY <1>1, <1>4, <2>1, Zenon DEF OneSender
<1>8. OneGet'
  <2>1. OneGet
    BY Zenon DEF RegInv
  <2>2. ASSUME NEW g \in Reqs, NEW h \in Reqs, kind[g].method = "GET", kind[h].method = "GET",
               joined'[g] = joined'[h], joined'[g] # 0, g = r, h # r
        PROVE  FALSE
    <3>1. joined'[h] = joined[h] /\ joined'[r] = s /\ Gets(s) = {}
      BY <1>5, <2>2, Zenon
    <3>2. h \in Gets(s)
      BY <2>2, <3>1, Zenon DEF Gets
    <3>. QED BY <3>1, <3>2, Zenon
  <2>3. ASSUME NEW g \in Reqs, NEW h \in Reqs, kind[g].method = "GET", kind[h].method = "GET",
               joined'[g] = joined'[h], joined'[g] # 0
        PROVE  g = h
    <3>1. CASE g = r \/ h = r
      BY <2>2, <2>3, <3>1, Zenon
    <3>2. CASE g # r /\ h # r
      BY <1>5, <2>1, <2>3, <3>2, Zenon DEF OneGet
    <3>. QED BY <3>1, <3>2, Zenon
  <2>. QED BY <1>1, <2>3, Zenon DEF OneGet
<1>9. EndedIsOver'
  <2>1. ASSUME NEW g \in Reqs, reader'[g] = "ended"
        PROVE  /\ entry' # joined'[g] /\ upload'[joined'[g]] = 0
               /\ \A p \in attached' : joined'[p] # joined'[g]
    <3>1. g # r /\ reader[g] = "ended" /\ joined'[g] = joined[g]
      BY <1>3, <1>5, <2>1, Zenon
    <3>2. /\ upload[joined[g]] = 0
          /\ \A p \in attached : joined[p] # joined[g]
      BY <3>1, Zenon DEF RegInv, EndedIsOver
    <3>3. s # joined[g] /\ joined[g] \in 1 .. made
      BY <1>1, <3>1, Zenon
    <3>4. upload'[joined[g]] = 0
      BY <1>1, <3>2, <3>3, Zenon
    <3>5. joined[g] # 0
      BY <3>3
    <3>6. ASSUME NEW p \in attached' PROVE joined'[p] # joined[g]
      <4>1. CASE p = r
        BY <1>5, <3>3, <3>5, <4>1, Zenon
      <4>2. CASE p # r
        <5>1. p \in attached /\ p \in Reqs
          BY <1>5, <3>6, <4>2, Zenon DEF RegInv, RegTyped
        <5>2. joined'[p] = joined[p]
          BY <1>5, <4>2, <5>1, Zenon
        <5>. QED BY <3>2, <5>1, <5>2, Zenon
      <4>. QED BY <4>1, <4>2, Zenon
    <3>. QED BY <1>1, <3>1, <3>3, <3>4, <3>6, Zenon
  <2>. QED BY <1>1, <2>1, Zenon DEF EndedIsOver
<1>10. KeepsId'
  <2>. SUFFICES ASSUME NEW p \in attached', entry' # joined'[p]
                PROVE  \E t \in 1 .. joined'[p] : Shared(t)'
    BY Zenon DEF KeepsId
  <2>1. p # r
    BY <1>1, <1>5, Zenon
  <2>2. p \in attached /\ p \in Reqs /\ joined'[p] = joined[p]
    BY <1>5, <2>1, Zenon DEF RegInv, RegTyped
  <2>3. entry # joined[p]
    <3>1. joined[p] # 0
      BY <2>2, Zenon DEF RegInv, Joined
    <3>2. entry # 0 => entry' = entry
      BY Zenon DEF get_or_create
    <3>. QED BY <2>2, <3>1, <3>2, Zenon
  <2>4. PICK t \in 1 .. joined[p] : Shared(t)
    BY <2>2, <2>3, Zenon DEF RegInv, KeepsId
  <2>5. t # 0
    BY <2>4
  <2>6. \A q \in Reqs : joined[q] # 0 => joined'[q] = joined[q]
    BY <1>3, <1>5, Zenon
  <2>7. Shared(t)'
    BY <1>1, <2>4, <2>5, <2>6, SharedStays, Zenon
  <2>. QED BY <2>2, <2>4, <2>7, Zenon
<1>. QED BY <1>2, <1>6, <1>7, <1>8, <1>9, <1>10, Zenon DEF RegInv

(* A request that is refused, or goes on without a session.                 *)
LEMMA StaysOutStep ==
  ASSUME RegInv, NEW r \in Reqs, Handled(r),
         UNCHANGED <<entry, made, upload, joined, attached, reader>>,
         UNCHANGED taken \/ send_upgrade(r)
  PROVE  RegInv'
<1>1. UNCHANGED <<kind, Reqs>> /\ status[r] = "new"
  BY Zenon DEF Handled, Reqs
<1>2. /\ status' \in [Reqs -> {"new", "200", "400", "404", "405", "409", "413"}]
      /\ \A q \in Reqs : status'[q] = "new" => status[q] = "new" /\ q # r
  BY DEF Handled, RegInv, RegTyped
<1>3. /\ taken \subseteq taken' /\ taken' \subseteq taken \cup {r}
      /\ \A p, q \in taken' : kind'[p].conn = kind'[q].conn => p = q
  BY <1>1, SenderTaken, Zenon
<1>4. RegTyped'
  BY <1>1, <1>2, <1>3, Zenon DEF RegInv, RegTyped
<1>5. Joined'
  <2>1. ASSUME NEW q \in Reqs, status'[q] = "new"
        PROVE  joined[q] = 0 /\ q \notin taken' /\ reader[q] = "none"
    BY <1>2, <1>3, <2>1, Zenon DEF RegInv, Joined
  <2>. QED BY <1>1, <2>1, Zenon DEF RegInv, Joined
<1>6. OneSender'
  BY <1>1, <1>3, Zenon DEF RegInv, OneSender
<1>7. OneGet'
  BY <1>1, Zenon DEF RegInv, OneGet
<1>8. EndedIsOver'
  BY <1>1, Zenon DEF RegInv, EndedIsOver
<1>9. KeepsId'
  BY <1>1, SameIds, Zenon
<1>. QED BY <1>4, <1>5, <1>6, <1>7, <1>8, <1>9, Zenon DEF RegInv

LEMMA HandlerStep == ASSUME RegInv, NEW r \in Reqs, handle_request(r) PROVE RegInv'
<1>1. Handled(r)
  BY HandlerCases, Zenon
<1>2. CASE UNCHANGED <<entry, made, upload, taken, joined, attached, reader>>
  BY <1>1, <1>2, StaysOutStep, Zenon
<1>3. CASE UNCHANGED <<entry, made, upload, joined, attached, reader>> /\ send_upgrade(r)
  BY <1>1, <1>3, StaysOutStep, Zenon
<1>4. CASE \E s \in 1 .. made + 1 : get_or_create(s) /\ Enters(r, s)
  BY <1>1, <1>4, EntersStep, Zenon
<1>. QED BY <1>2, <1>3, <1>4, HandlerCases, Zenon

(* The queue of a session that is fed or read is not that of one whose GET  *)
(* was told of the end.                                                     *)
LEMMA QueueStep ==
  ASSUME RegInv, NEW r \in Reqs, attach_post_body(r) \/ ReadUpload(r)
  PROVE  RegInv'
<1>1. /\ UNCHANGED <<kind, entry, made, status, taken, joined, attached, reader, Reqs>>
      /\ joined[r] \in 1 .. made
  <2>1. r \in attached \/ reader[r] # "none"
    BY Zenon DEF attach_post_body, ReadUpload
  <2>. QED BY <2>1, Sessions, Zenon DEF attach_post_body, ReadUpload, Reqs
<1>2. upload[joined[r]] \in Nat
  BY <1>1 DEF RegInv, RegTyped
<1>3. \E n \in Nat : upload' = [upload EXCEPT ![joined[r]] = n]
  <2>1. CASE attach_post_body(r)
    <3>1. upload[joined[r]] + 1 \in Nat
      BY <1>2, SMTT(30)
    <3>2. upload' = [upload EXCEPT ![joined[r]] = upload[joined[r]] + 1]
      BY <2>1, Zenon DEF attach_post_body
    <3>. QED BY <3>1, <3>2, Zenon
  <2>2. CASE ReadUpload(r)
    <3>. DEFINE n == upload[joined[r]]
    <3>1. n - 1 \in Nat
      <4>1. n \in Nat /\ n > 0
        BY <1>2, <2>2, Zenon DEF ReadUpload
      <4>. HIDE DEF n
      <4>. QED BY <4>1
    <3>2. upload' = [upload EXCEPT ![joined[r]] = n - 1]
      BY <2>2, Zenon DEF ReadUpload
    <3>. QED BY <3>1, <3>2, Zenon
  <2>. QED BY <2>1, <2>2, Zenon
<1>4. \A g \in Reqs : reader[g] = "ended" => joined[g] # joined[r]
  BY DEF attach_post_body, ReadUpload, RegInv, EndedIsOver
<1>5. /\ upload' \in Seq(Nat) /\ Len(upload') = made
      /\ \A i \in 1 .. made : i # joined[r] => upload'[i] = upload[i]
  BY <1>1, <1>3 DEF RegInv, RegTyped
<1>6. EndedIsOver'
  <2>1. \A g \in Reqs : reader[g] = "ended" => joined[g] \in 1 .. made
    BY Sessions, Zenon
  <2>. QED BY <1>1, <1>4, <1>5, <2>1, Zenon DEF RegInv, EndedIsOver
<1>7. RegTyped'
  BY <1>1, <1>5, Zenon DEF RegInv, RegTyped
<1>8. Joined' /\ OneSender' /\ OneGet'
  BY <1>1, Zenon DEF RegInv, Joined, OneSender, OneGet
<1>9. KeepsId'
  BY <1>1, SameIds, Zenon
<1>. QED BY <1>6, <1>7, <1>8, <1>9, Zenon DEF RegInv

(* A POST that ends takes the id away from the newest session.  If another  *)
(* POST loses it by that, the two fed the same session, or the one that     *)
(* ends had lost the id before.                                             *)
LEMMA PostEndsStep == ASSUME RegInv, NEW r \in Reqs, PostEnds(r) PROVE RegInv'
<1>1. /\ UNCHANGED <<kind, made, status, taken, joined, upload, reader, Reqs>>
      /\ r \in attached /\ entry' = 0 /\ attached' = attached \ {r}
  BY Zenon DEF PostEnds, Reqs
<1>2. RegTyped'
  BY <1>1, Zenon DEF RegInv, RegTyped
<1>3. Joined' /\ OneSender' /\ OneGet'
  BY <1>1, Zenon DEF RegInv, Joined, OneSender, OneGet
<1>4. EndedIsOver'
  BY <1>1, Zenon DEF RegInv, Joined, EndedIsOver
<1>5. KeepsId'
  <2>. SUFFICES ASSUME NEW p \in attached' PROVE \E s \in 1 .. joined[p] : Shared(s)
    BY <1>1, SameSessions, Zenon DEF KeepsId
  <2>1. /\ p \in attached /\ p # r /\ p \in Reqs
        /\ kind[p].method = "POST" /\ kind[p].seq = "" /\ joined[p] # 0
        /\ kind[r].method = "POST" /\ kind[r].seq = "" /\ joined[r] # 0
    BY <1>1, Zenon DEF RegInv, RegTyped, Joined
  <2>2. /\ made \in Nat /\ entry \in {0, made}
        /\ joined[p] \in 1 .. made /\ joined[r] \in 1 .. made
    BY <1>1, <2>1, Sessions, Zenon
  <2>3. CASE entry # joined[p]
    BY <2>1, <2>3, Zenon DEF RegInv, KeepsId
  <2>4. CASE entry = joined[p] /\ entry = joined[r]
    <3>1. p \in Posts(joined[p]) /\ r \in Posts(joined[p])
      BY <2>1, <2>4, Zenon DEF Posts
    <3>2. Shared(joined[p])
      BY <2>1, <3>1, Zenon DEF Shared
    <3>3. joined[p] \in 1 .. joined[p]
      BY <2>2
    <3>. QED BY <3>2, <3>3, Zenon
  <2>5. CASE entry = joined[p] /\ entry # joined[r]
    <3>1. PICK s \in 1 .. joined[r] : Shared(s)
      BY <1>1, <2>5, Zenon DEF RegInv, KeepsId
    <3>2. s \in 1 .. joined[p]
      BY <2>2, <2>5, <3>1
    <3>. QED BY <3>1, <3>2, Zenon
  <2>. QED BY <2>3, <2>4, <2>5, Zenon
<1>. QED BY <1>2, <1>3, <1>4, <1>5, Zenon DEF RegInv

LEMMA ReaderStep ==
  ASSUME RegInv, NEW g \in Reqs, UploadEnds(g) \/ ReaderDropped(g)
  PROVE  RegInv'
<1>1. /\ UNCHANGED <<kind, entry, made, status, taken, joined, attached, upload, Reqs>>
      /\ reader[g] = "reading"
      /\ reader' \in [Reqs -> {"none", "reading", "ended", "gone"}]
      /\ \A q \in Reqs : q # g => reader'[q] = reader[q]
      /\ reader'[g] \in {"ended", "gone"}
  BY Zenon DEF UploadEnds, ReaderDropped, RegInv, RegTyped, Reqs
<1>2. reader'[g] = "ended" => /\ entry # joined[g] /\ upload[joined[g]] = 0
                              /\ \A p \in attached : joined[p] # joined[g]
  <2>1. \A p \in attached : p \in Reqs /\ kind[p].method = "POST"
    BY Zenon DEF RegInv, RegTyped, Joined
  <2>. QED BY <1>1, <2>1, Zenon DEF UploadEnds, ReaderDropped, HasSender, Posts, RegInv,
             RegTyped
<1>3. RegTyped'
  BY <1>1, ZenonT(30) DEF RegInv, RegTyped
<1>4. Joined' /\ OneGet'
  <2>1. \A q \in Reqs : status[q] = "new" => q # g
    BY <1>1, Zenon DEF RegInv, Joined
  <2>2. \A q \in Reqs : reader'[q] # "none" => reader[q] # "none"
    BY <1>1, Zenon
  <2>3. Joined'
    BY <1>1, <2>1, <2>2, Zenon DEF RegInv, Joined
  <2>4. OneGet'
    BY <1>1, Zenon DEF RegInv, OneGet
  <2>. QED BY <2>3, <2>4, Zenon
<1>5. OneSender'
  BY <1>1, Zenon DEF RegInv, OneSender
<1>6. EndedIsOver'
  BY <1>1, <1>2, Zenon DEF RegInv, EndedIsOver
<1>7. KeepsId'
  BY <1>1, SameIds, Zenon
<1>. QED BY <1>3, <1>4, <1>5, <1>6, <1>7, Zenon DEF RegInv

LEMMA RegInductive ==
  /\ RegInit => RegInv
  /\ RegInv /\ [RegNext]_regVars => RegInv'
<1>1. ASSUME RegInit PROVE RegInv
  <2>1. RegTyped
    BY <1>1, SMTT(30) DEF RegInit, RegTyped
  <2>2. Joined /\ OneSender /\ OneGet
    BY <1>1, Zenon DEF RegInit, Joined, OneSender, OneGet
  <2>3. EndedIsOver /\ KeepsId
    BY <1>1, Zenon DEF RegInit, EndedIsOver, KeepsId
  <2>. QED BY <2>1, <2>2, <2>3, Zenon DEF RegInv
<1>2. ASSUME RegInv, [RegNext]_regVars PROVE RegInv'
  <2>1. CASE UNCHANGED regVars
    <3>1. RegTyped' /\ Joined'
      BY <1>2, <2>1, Zenon DEF regVars, RegInv, RegTyped, Joined, Reqs
    <3>2. OneSender' /\ OneGet' /\ EndedIsOver'
      BY <1>2, <2>1, Zenon DEF regVars, RegInv, OneSender, OneGet, EndedIsOver, Reqs
    <3>3. KeepsId'
      BY <1>2, <2>1, SameIds, Zenon DEF regVars
    <3>. QED BY <3>1, <3>2, <3>3, Zenon DEF RegInv
  <2>. QED BY <1>2, <2>1, HandlerStep, QueueStep, PostEndsStep, ReaderStep, Zenon
             DEF RegNext
<1>. QED BY <1>1, <1>2, Zenon

(* GetsMeetTheirPosts of the requests that reach the registry (accept.rs,   *)
(* session.rs), for every set of requests and of connections they come on,  *)
(* every queue size and every number of pieces.                             *)
THEOREM GetsMeetPosts == RegSpec => []GetsMeetTheirPosts
<1>1. ASSUME RegInv PROVE GetsMeetTheirPosts
  <2>1. ASSUME NEW g \in Reqs, reader[g] \in {"reading", "ended"}
        PROVE  /\ g \in taken /\ accept_xhttp(kind[g].conn) = "upgraded"
               /\ \A h \in taken : kind[h].conn = kind[g].conn => h = g
    <3>1. g \in taken /\ kind[g].method = "GET"
      BY <1>1, <2>1, Zenon DEF RegInv, OneSender, Joined
    <3>2. \A h \in taken : kind[h].conn = kind[g].conn => h = g
      BY <1>1, <3>1, Zenon DEF RegInv, OneSender
    <3>3. {r \in taken : kind[r].conn = kind[g].conn} = {g}
      BY <3>1, <3>2, Zenon
    <3>4. accept_xhttp(kind[g].conn) = "upgraded"
      BY <3>1, <3>3, Zenon DEF accept_xhttp
    <3>. QED BY <3>1, <3>2, <3>4, Zenon
  <2>2. ASSUME NEW s \in 1 .. made, NEW g \in Gets(s), NEW h \in Gets(s) PROVE g = h
    BY <1>1, <2>2 DEF Gets, RegInv, OneGet
  <2>3. ASSUME NEW g \in Reqs, reader[g] = "ended"
        PROVE  Posts(joined[g]) \cap attached = {} /\ upload[joined[g]] = 0
    BY <1>1, <2>3, Zenon DEF RegInv, EndedIsOver, Posts
  <2>4. KeepsId
    BY <1>1, Zenon DEF RegInv
  <2>. QED BY <2>1, <2>2, <2>3, <2>4, Zenon DEF GetsMeetTheirPosts, KeepsId
<1>. QED BY <1>1, RegInductive, PTL DEF RegSpec
=============================================================================
